--------------------------- MODULE CoverageRanges ---------------------------
(***************************************************************************)
(* The watched part of a video, as the API stores it: half-open ranges of  *)
(* positions, merged after every accepted heartbeat.                       *)
(***************************************************************************)
EXTENDS Integers, SequencesExt

Ranges(duration) ==
  {range \in [startMs : 0..duration, endMs : 0..duration] :
     range.startMs < range.endMs}

Earlier(a, b) ==
  \/ a.startMs < b.startMs
  \/ a.startMs = b.startMs /\ a.endMs < b.endMs

\* The last range in the order of the sort.
Latest(ranges) == CHOOSE last \in ranges : \A range \in ranges : ~Earlier(last, range)

\* Fault: ranges that touch are kept apart.
KeepTouching(range, merged) ==
  IF merged = <<>> \/ range.startMs >= Last(merged).endMs
  THEN Append(merged, range)
  ELSE [merged EXCEPT ![Len(merged)].endMs = Max({@, range.endMs})]

\* One round of the merge loop: a range that starts after the last merged
\* one is kept, any other one can only lengthen it.
MergeNext(range, merged) ==
  IF merged = <<>> \/ range.startMs > Last(merged).endMs
  THEN Append(merged, range)
  ELSE [merged EXCEPT ![Len(merged)].endMs = Max({@, range.endMs})]

\* The loop, over the ranges in their order.  A duplicate of a range changes
\* nothing in it, so that the rows that are passed in are a set here.
MergeLoop(ranges) ==
  MapThenFoldSet(MergeNext, <<>>, LAMBDA range : range, Latest, ranges)

MergeRanges(ranges) == ToSet(MergeLoop(ranges))

LengthOf(range) == range.endMs - range.startMs
CoveredMs(ranges) == MapThenSumSet(LengthOf, ranges)

\* Fault: rounded up by one.
CompleteRoundedUp(ranges, duration) ==
  duration > 0 /\ 100 * (CoveredMs(MergeRanges(ranges)) + 1) >= 95 * duration

LessonIsComplete(ranges, duration) ==
  duration > 0 /\ 100 * CoveredMs(MergeRanges(ranges)) >= 95 * duration

-----------------------------------------------------------------------------
(* What the ranges mean: the positions they contain.                       *)

Positions(ranges) == UNION {r.startMs .. (r.endMs - 1) : r \in ranges}

\* No two ranges overlap or touch.
Normal(ranges) ==
  \A r, q \in ranges : r # q => r.endMs < q.startMs \/ q.endMs < r.startMs
=============================================================================
