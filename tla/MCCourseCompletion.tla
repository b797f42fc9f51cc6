------------------------- MODULE MCCourseCompletion -------------------------
(***************************************************************************)
(* An instance of StudentPages.  The merge of ranges is also compared with *)
(* its meaning on every small set of them.                                 *)
(***************************************************************************)
EXTENDS MCLearningSessions, StudentPages

\* The parts that do not move begin in one state only, and the pools at one rate.
MCStudentInit ==
  /\ StudentInit
  /\ page # "checkout" => offer.price = 1 /\ account = NoAccount
  /\ page = "swap" => \A a \in Swaps!Assets : rate[a] = 100

MCStudentSpec == MCStudentInit /\ [][StudentNext]_studentVars

StudentSymmetry ==
  Permutations(Requests) \union Permutations(Wallets) \union Permutations(lessons)

-----------------------------------------------------------------------------
Starts(points) == {a \in points : a - 1 \notin points}

\* The maximal runs of the positions in some ranges.
Runs(ranges) ==
  LET points == Positions(ranges)
  IN  {[startMs |-> a,
        endMs |-> CHOOSE b \in (a + 1)..6 : b \notin points /\ a..(b - 1) \subseteq points]
         : a \in Starts(points)}

ASSUME MergeIsExact ==
  \A ranges \in UNION {kSubset(k, Ranges(5)) : k \in 0..3} :
    /\ MergeRanges(ranges) = Runs(ranges)
    /\ CoveredMs(MergeRanges(ranges)) = Cardinality(Positions(ranges))

\* Merging what is stored with one more range is merging everything.
ASSUME MergeIsIncremental ==
  \A ranges \in UNION {kSubset(k, Ranges(4)) : k \in 0..3}, range \in Ranges(4) :
    MergeRanges(MergeRanges(ranges) \union {range}) = MergeRanges(ranges \union {range})
=============================================================================
