-------------------------- MODULE ProgressRecords --------------------------
(***************************************************************************)
(* learning.service.ts, which the learning page reports to: the ranges of  *)
(* one student are merged per lesson, and lessons and course completed, in *)
(* one Serializable transaction per report, with a key against repeats.    *)
(* The advisory lock of the transaction is left out: it is its first       *)
(* statement, so a transaction that waited for it has an old snapshot all  *)
(* the same.                                                               *)
(***************************************************************************)
EXTENDS CoverageRanges

CONSTANTS
  Videos,        \* the required lessons, all READY videos
  Duration,      \* of every video
  Limit,         \* of a reported range, 120 s
  Wallets,       \* of the student, all entitled
  Keys,          \* idempotency keys
  None,
  Requests,      \* calls in progress
  MaxAttempts    \* runs of a transaction, 3

\* Whoever instantiates this module assumes it of the constants.
ProgressAssumption ==
  /\ IsFiniteSet(Videos) /\ Videos # {}
  /\ None \notin Videos \union Wallets
  /\ Duration \in Nat \ {0} /\ MaxAttempts \in Nat \ {0} /\ Limit \in Nat

VARIABLES
  issuable,      \* the course has its certificateMetadataUri
  event,         \* LearningEvent row of each key
  segments,      \* LearningSegment rows of each video
  lessonWallet,  \* buyerWallet of each LessonCompletion row
  courseWallet,  \* buyerWallet of the CourseCompletion and its outbox row
  request        \* what each call is doing

rows == <<event, segments, lessonWallet, courseWallet>>
vars == <<issuable, rows, request>>

Reports == [lesson : Videos, range : Ranges(Duration), wallet : Wallets, key : Keys]
NoEvent == [lesson |-> None, range |-> None]

\* What a transaction of the student reads.
Read(key) ==
  [segments |-> segments, completed |-> {v \in Videos : lessonWallet[v] # None},
   certified |-> courseWallet # None, replayed |-> event[key] # NoEvent]

Idle == [step |-> "idle", report |-> None, attempt |-> 0, fresh |-> FALSE, read |-> None]

TypeOK ==
  /\ issuable \in BOOLEAN
  /\ \A k \in Keys : event[k] = NoEvent \/ event[k] \in [lesson : Videos, range : Ranges(Duration)]
  /\ segments \in [Videos -> SUBSET Ranges(Duration)]
  /\ lessonWallet \in [Videos -> Wallets \union {None}]
  /\ courseWallet \in Wallets \union {None}
  /\ \A r \in Requests :
       /\ request[r].step \in {"idle", "begin", "commit"}
       /\ request[r].report \in Reports \union {None}
       /\ request[r].attempt \in 0..(MaxAttempts - 1) /\ request[r].fresh \in BOOLEAN

Init ==
  /\ issuable \in BOOLEAN
  /\ event = [k \in Keys |-> NoEvent]
  /\ segments = [v \in Videos |-> {}]
  /\ lessonWallet = [v \in Videos |-> None]
  /\ courseWallet = None
  /\ request = [r \in Requests |-> Idle]

\* The guards of record.
Record(r, report) ==
  /\ request[r].step = "idle"
  /\ report.range.endMs - report.range.startMs <= Limit
  /\ request' = [request EXCEPT ![r] =
       [step |-> "begin", report |-> report, attempt |-> 0, fresh |-> FALSE, read |-> None]]
  /\ UNCHANGED <<issuable, rows>>

Begin(r) ==
  /\ request[r].step = "begin"
  /\ request' = [request EXCEPT
       ![r].step = "commit", ![r].fresh = TRUE, ![r].read = Read(request[r].report.key)]
  /\ UNCHANGED <<issuable, rows>>

Ends(r) == /\ request' = [request EXCEPT ![r] = Idle]
           /\ UNCHANGED <<issuable, rows>>

\* Fault: the transactions of different lessons do not depend on each other.
PerLesson(r) ==
  [q \in Requests |-> IF q # r /\ request[q].step = "commit"
                         /\ request[q].report.lesson = request[r].report.lesson
                      THEN [request[q] EXCEPT !.fresh = FALSE]
                      ELSE IF q = r THEN Idle ELSE request[q]]

\* A commit changes what every open transaction of the student has read.
Committed(r) ==
  [q \in Requests |-> IF q = r THEN Idle ELSE [request[q] EXCEPT !.fresh = FALSE]]

\* Fault: a transaction that has read old rows commits.
AnySnapshot(r) == request[r].step = "commit"

Commits(r) == request[r].step = "commit" /\ request[r].fresh

\* The key is known: the earlier event is answered.
Replay(r) ==
  /\ Commits(r)
  /\ request[r].read.replayed
  /\ Ends(r)

Merged(r) ==
  MergeRanges(request[r].read.segments[request[r].report.lesson] \union {request[r].report.range})

\* What the transaction sees of each lesson after its own writes.
Covered(r) ==
  {v \in Videos :
     \/ v \in request[r].read.completed
     \/ LessonIsComplete(IF v = request[r].report.lesson THEN Merged(r)
                         ELSE request[r].read.segments[v], Duration)}

Completes(r) == Covered(r) = Videos /\ ~request[r].read.certified

\* maybeCreateCompletion reads the lessons in any order and stops at the first
\* that is not covered.
CompleteLessons(r) ==
  \E reached \in SUBSET Covered(r) :
    /\ Covered(r) = Videos => reached = Videos
    /\ lessonWallet' = [v \in Videos |->
         IF lessonWallet[v] = None
            /\ v \in Covered(r) \intersect (reached \union {request[r].report.lesson})
         THEN request[r].report.wallet ELSE lessonWallet[v]]

CompleteCourse(r) ==
  courseWallet' = IF Completes(r) THEN request[r].report.wallet ELSE courseWallet

\* The event is created, its range merged, and completions follow.
Store(r) ==
  LET report == request[r].report
  IN  /\ Commits(r)
      /\ ~request[r].read.replayed
      /\ Completes(r) => issuable
      /\ event' = [event EXCEPT ![report.key] = [lesson |-> report.lesson, range |-> report.range]]
      /\ segments' = [segments EXCEPT ![report.lesson] = Merged(r)]
      /\ CompleteLessons(r) /\ CompleteCourse(r)
      /\ request' = Committed(r)
      /\ UNCHANGED issuable

\* The course cannot be certified: everything rolls back, the range as well.
Conflict(r) ==
  /\ Commits(r)
  /\ ~request[r].read.replayed /\ Completes(r) /\ ~issuable
  /\ Ends(r)

\* Fault: one attempt too many.
OnceMore(r) == request[r].attempt < MaxAttempts

Again(r) == request[r].attempt + 1 < MaxAttempts

\* Another commit came between.
SerializationFailure(r) ==
  /\ request[r].step = "commit" /\ ~request[r].fresh
  /\ IF Again(r)
     THEN /\ request' = [request EXCEPT
            ![r].step = "begin", ![r].attempt = @ + 1, ![r].read = None]
          /\ UNCHANGED <<issuable, rows>>
     ELSE Ends(r)

\* It may have stored the same key, which is then answered as a replay, or the
\* same completion: then the call fails.
UniqueViolation(r) ==
  /\ request[r].step = "commit" /\ ~request[r].fresh
  /\ event[request[r].report.key] # NoEvent \/ lessonWallet[request[r].report.lesson] # None
  /\ Ends(r)

Next ==
  \E r \in Requests :
    \/ \E report \in Reports : Record(r, report)
    \/ Begin(r) \/ Replay(r) \/ Store(r) \/ Conflict(r)
    \/ SerializationFailure(r) \/ UniqueViolation(r)

Spec == Init /\ [][Next]_vars

-----------------------------------------------------------------------------
(* What progress answers.                                                  *)

ShownComplete(v) == lessonWallet[v] # None \/ LessonIsComplete(segments[v], Duration)

Percentage ==
  (100 * Cardinality({v \in Videos : ShownComplete(v)})) \div Cardinality(Videos)

-----------------------------------------------------------------------------
\* The ranges of a lesson are those of its events, merged: concurrent reports that
\* delete and create the same rows, repeats and retries lose none and add none.
SegmentsAreEvents ==
  \A v \in Videos :
    segments[v] = MergeRanges({event[k].range : k \in {key \in Keys : event[key].lesson = v}})

\* What the page shows as complete is so in the tables: each lesson, and at 100%
\* the course with its certificate, though the last two lessons complete together.
CompletedWhenCovered ==
  /\ \A v \in Videos : ShownComplete(v) <=> lessonWallet[v] # None
  /\ Percentage = 100 <=> courseWallet # None
=============================================================================
