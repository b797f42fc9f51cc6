------------------------- MODULE StudentPagesProofs -------------------------
(***************************************************************************)
(* What holds of the player, of the progress it reports, of the swap page  *)
(* and of the account, for every lesson, length, rate, user and request.   *)
(* Each part has an inductive invariant, kept by every action of the part; *)
(* together they are an invariant of StudentSpec.                          *)
(***************************************************************************)
EXTENDS StudentPages, CoverageRangesProofs

-----------------------------------------------------------------------------
(* The player.                                                             *)

\* The points of a lesson that were played, or that one of the two causes lets
\* the page report: a seek in flight, the active lesson selected again.
Seen(v) == played[v] \union skipped[v]

\* What the next report takes for granted: from lastSentMs every point is seen in
\* this sense, and so will be what follows the report in flight, once it is
\* answered, though another lesson was selected meanwhile.
PlayerInv ==
  /\ Player!TypeOK
  /\ Player!OverreportHasCause
  /\ lastSent..(position - 1) \subseteq Seen(lesson)
  /\ report.step = "sent" => report.end..(position - 1) \subseteq Seen(lesson)

LEMMA PlayerInitially ==
  ASSUME Player!Init PROVE PlayerInv
<1>1. Player!TypeOK
  <2>1. 0 \in Player!Points
    BY PartsAssumption DEF PartsAssumption, Player!PlayerAssumption, Player!Points
  <2>2. played \in [lessons -> SUBSET Player!Points] /\ skipped = played
    BY DEF Player!Init
  <2> QED BY <2>1, <2>2 DEF Player!Init, Player!TypeOK, Player!NoReport
<1>2. report.step = "none" /\ lastSent = 0 /\ position = 0
  BY DEF Player!Init, Player!NoReport
<1>3. Player!OverreportHasCause
  BY <1>2 DEF Player!OverreportHasCause, Player!Reported
<1> QED BY <1>1, <1>2, <1>3 DEF PlayerInv

\* What a report may be.
ReportRow ==
  [step : {"none", "sent", "refetch"}, lesson : lessons, start : Player!Points,
   end : Player!Points]

\* The invariant says nothing of a report that is not sent.
LEMMA NoReportKeeps ==
  ASSUME PlayerInv, report' \in ReportRow, report'.step # "sent",
         UNCHANGED <<played, skipped, lesson, position, playing>>,
         lastSent' = lastSent \/ (report.step = "sent" /\ lastSent' = report.end),
         lastObserved' = lastObserved
  PROVE  PlayerInv'
<1>1. /\ lastSent \in Nat /\ position \in Nat /\ lastSent' \in Player!Points
      /\ lastSent'..(position - 1) \subseteq Seen(lesson)
  <2>1. /\ lastSent \in Player!Points /\ position \in Player!Points
        /\ report.end \in Player!Points
    BY DEF PlayerInv, Player!TypeOK
  <2>2. \A p \in Player!Points : p \in Nat
    BY PartsAssumption DEF PartsAssumption, Player!PlayerAssumption, Player!Points
  <2> QED BY <2>1, <2>2 DEF PlayerInv
<1>2. Player!TypeOK'
  BY <1>1 DEF PlayerInv, Player!TypeOK, ReportRow
<1>3. Player!OverreportHasCause'
  BY DEF Player!OverreportHasCause, Player!Reported
<1> QED BY <1>1, <1>2, <1>3 DEF PlayerInv, Seen

\* Points are seen for good.
LEMMA SeenWith ==
  ASSUME Player!TypeOK, NEW points \in [lessons -> SUBSET Player!Points],
         NEW start \in Player!Points, NEW end \in Player!Points
  PROVE  /\ Player!With(points, lesson, start, end) \in [lessons -> SUBSET Player!Points]
         /\ Player!With(points, lesson, start, end)[lesson] =
              points[lesson] \union start..(end - 1)
         /\ \A v \in lessons : points[v] \subseteq Player!With(points, lesson, start, end)[v]
<1>1. lesson \in lessons
  BY DEF Player!TypeOK
<1>2. start..(end - 1) \subseteq Player!Points
  BY PartsAssumption DEF PartsAssumption, Player!PlayerAssumption, Player!Points
<1> QED BY <1>1, <1>2 DEF Player!With

\* What was reported stays seen.
LEMMA ReportStaysSeen ==
  ASSUME Player!OverreportHasCause, \A v \in lessons : Seen(v) \subseteq Seen(v)',
         report' = report
  PROVE  Player!OverreportHasCause'
BY DEF Player!OverreportHasCause, Player!Reported, Seen

LEMMA SeekKeeps ==
  ASSUME PlayerInv, NEW to \in Player!Points, Player!Seek(to)
  PROVE  PlayerInv'
<1>1. /\ position' = to /\ lastSent' = to /\ lastObserved' = to
      /\ lesson' = lesson /\ playing' = playing /\ report' = report /\ played' = played
  BY DEF Player!Seek, Player!SeekResets
<1>2. Player!TypeOK
  BY DEF PlayerInv
<1>3. /\ position \in Player!Points /\ lesson \in lessons
      /\ skipped \in [lessons -> SUBSET Player!Points]
  BY <1>2 DEF Player!TypeOK
<1>4. /\ skipped' \in [lessons -> SUBSET Player!Points]
      /\ \A v \in lessons : skipped[v] \subseteq skipped'[v]
      /\ report.step # "none" => skipped'[lesson] = skipped[lesson] \union position..(to - 1)
  BY <1>2, <1>3, SeenWith DEF Player!Seek
<1>5. Player!TypeOK'
  BY <1>1, <1>2, <1>4 DEF Player!TypeOK
<1>6. Player!OverreportHasCause'
  BY <1>1, <1>4, ReportStaysSeen DEF PlayerInv, Seen
<1>7. \A p \in Player!Points : p \in Nat
  BY PartsAssumption DEF PartsAssumption, Player!PlayerAssumption, Player!Points
<1>8. lastSent'..(position' - 1) \subseteq Seen(lesson)'
  BY <1>1, <1>7
<1>9. ASSUME report.step = "sent" PROVE report.end..(to - 1) \subseteq Seen(lesson)'
  <2>1. report.end..(position - 1) \subseteq Seen(lesson)
    BY <1>9 DEF PlayerInv
  <2>2. report.end \in Nat
    BY <1>2, <1>7 DEF Player!TypeOK
  <2>3. report.end..(to - 1) \subseteq report.end..(position - 1) \union position..(to - 1)
    BY <1>3, <1>7, <2>2
  <2> QED BY <1>1, <1>3, <1>4, <1>9, <2>1, <2>3 DEF Seen
<1> QED BY <1>1, <1>5, <1>6, <1>8, <1>9 DEF PlayerInv

LEMMA TimeUpdateKeeps ==
  ASSUME PlayerInv, NEW to \in Player!Points, Player!TimeUpdate(to)
  PROVE  PlayerInv'
<1>1. /\ position' = to /\ lastObserved' = to
      /\ lesson' = lesson /\ playing' = playing /\ skipped' = skipped
      /\ lastSent' \in {lastSent, to}
  BY DEF Player!TimeUpdate
<1>2. Player!TypeOK
  BY DEF PlayerInv
<1>3. /\ position \in Player!Points /\ lesson \in lessons /\ lastSent \in Player!Points
      /\ played \in [lessons -> SUBSET Player!Points]
      /\ skipped \in [lessons -> SUBSET Player!Points] /\ report \in ReportRow
  BY <1>2 DEF Player!TypeOK, ReportRow
<1>4. /\ played' \in [lessons -> SUBSET Player!Points]
      /\ \A v \in lessons : played[v] \subseteq played'[v]
      /\ played'[lesson] = played[lesson] \union position..(to - 1)
  BY <1>2, <1>3, SeenWith DEF Player!TimeUpdate
<1>5. \A p \in Player!Points : p \in Nat
  BY PartsAssumption DEF PartsAssumption, Player!PlayerAssumption, Player!Points
<1>6. ASSUME NEW p \in Player!Points, p..(position - 1) \subseteq Seen(lesson)
      PROVE  p..(to - 1) \subseteq Seen(lesson)'
  <2>1. p..(to - 1) \subseteq p..(position - 1) \union position..(to - 1)
    BY <1>3, <1>5
  <2> QED BY <1>1, <1>3, <1>4, <1>6, <2>1 DEF Seen
<1>7. lastSent'..(to - 1) \subseteq Seen(lesson)'
  <2>1. CASE lastSent' = lastSent
    BY <1>3, <1>6, <2>1 DEF PlayerInv
  <2>2. CASE lastSent' = to
    BY <1>5, <2>2
  <2> QED BY <1>1, <2>1, <2>2
<1>8. CASE report' = report
  <2>1. Player!TypeOK'
    BY <1>1, <1>2, <1>3, <1>4, <1>8 DEF Player!TypeOK
  <2>2. Player!OverreportHasCause'
    BY <1>1, <1>3, <1>4, <1>8, ReportStaysSeen DEF PlayerInv, Seen
  <2>3. report.step = "sent" => report.end..(to - 1) \subseteq Seen(lesson)'
    BY <1>3, <1>6 DEF PlayerInv, ReportRow
  <2> QED BY <1>1, <1>7, <1>8, <2>1, <2>2, <2>3 DEF PlayerInv
<1>9. CASE report' # report
  <2>1. report' = [step |-> "sent", lesson |-> lesson, start |-> lastSent', end |-> to]
    BY <1>9 DEF Player!TimeUpdate, Player!Sync
  <2>2. report' \in ReportRow
    BY <1>1, <1>3, <2>1 DEF ReportRow
  <2>3. Player!TypeOK'
    BY <1>1, <1>2, <1>3, <1>4, <2>2 DEF Player!TypeOK, ReportRow
  <2>4. Player!OverreportHasCause'
    BY <1>1, <1>7, <2>1 DEF Player!OverreportHasCause, Player!Reported, Seen
  <2>5. report'.end..(to - 1) = {}
    BY <1>5, <2>1
  <2> QED BY <1>1, <1>7, <2>3, <2>4, <2>5 DEF PlayerInv
<1> QED BY <1>8, <1>9

LEMMA PauseKeeps ==
  ASSUME PlayerInv, Player!Pause
  PROVE  PlayerInv'
<1>1. /\ UNCHANGED <<lesson, position, lastSent, lastObserved, played, skipped>>
      /\ playing' = FALSE
      /\ \/ report' = report
         \/ report' = [step |-> "sent", lesson |-> lesson, start |-> lastSent, end |-> position]
  BY DEF Player!Pause, Player!Sync
<1>2. CASE report' = report
  <2>1. Player!TypeOK' /\ Player!OverreportHasCause'
    BY <1>1, <1>2 DEF PlayerInv, Player!TypeOK, Player!OverreportHasCause, Player!Reported
  <2> QED BY <1>1, <1>2, <2>1 DEF PlayerInv, Seen
<1>3. CASE report' = [step |-> "sent", lesson |-> lesson, start |-> lastSent, end |-> position]
  <2>1. Player!TypeOK'
    BY <1>1, <1>3 DEF PlayerInv, Player!TypeOK
  <2>2. Player!OverreportHasCause'
    BY <1>1, <1>3 DEF PlayerInv, Player!OverreportHasCause, Player!Reported, Seen
  <2>3. position..(position - 1) = {}
    BY PartsAssumption DEF PartsAssumption, Player!PlayerAssumption, Player!Points, PlayerInv,
       Player!TypeOK
  <2> QED BY <1>1, <1>3, <2>1, <2>2, <2>3 DEF PlayerInv, Seen
<1> QED BY <1>1, <1>2, <1>3

LEMMA PlayKeeps ==
  ASSUME PlayerInv, Player!Play
  PROVE  PlayerInv'
<1>1. /\ UNCHANGED <<lesson, position, report, played, skipped>>
      /\ playing' = TRUE /\ lastSent' = position /\ lastObserved' = position
  BY DEF Player!Play
<1>2. position..(position - 1) = {}
  BY PartsAssumption DEF PartsAssumption, Player!PlayerAssumption, Player!Points, PlayerInv,
     Player!TypeOK
<1>3. Player!TypeOK' /\ Player!OverreportHasCause'
  BY <1>1 DEF PlayerInv, Player!TypeOK, Player!OverreportHasCause, Player!Reported
<1> QED BY <1>1, <1>2, <1>3 DEF PlayerInv, Seen

LEMMA SelectLessonKeeps ==
  ASSUME PlayerInv, NEW v \in lessons, Player!SelectLesson(v)
  PROVE  PlayerInv'
<1>1. /\ UNCHANGED <<report, played>> /\ lesson' = v
      /\ lastSent' = 0 /\ lastObserved' = 0
  BY DEF Player!SelectLesson
<1>2. 0 \in Player!Points /\ Player!Points \subseteq Nat
  BY PartsAssumption DEF PartsAssumption, Player!PlayerAssumption, Player!Points
<1>3. report.end \in Nat
  BY <1>2 DEF PlayerInv, Player!TypeOK
<1>4. CASE v # lesson
  <2>1. UNCHANGED skipped /\ playing' = FALSE /\ position' = 0
    BY <1>4 DEF Player!SelectLesson
  <2>2. Player!TypeOK' /\ Player!OverreportHasCause'
    BY <1>1, <1>2, <2>1 DEF PlayerInv, Player!TypeOK, Player!OverreportHasCause, Player!Reported
  <2>3. \A p \in Nat : p..(0 - 1) = {}
    OBVIOUS
  <2> QED BY <1>1, <1>3, <2>1, <2>2, <2>3 DEF PlayerInv
<1>5. CASE v = lesson
  <2>1. /\ UNCHANGED <<position, playing>>
        /\ skipped' = Player!With(skipped, lesson, 0, position)
    BY <1>5 DEF Player!SelectLesson
  <2>2. /\ Player!TypeOK /\ position \in Player!Points /\ lesson \in lessons
        /\ skipped \in [lessons -> SUBSET Player!Points]
    BY DEF PlayerInv, Player!TypeOK
  <2>3. /\ skipped' \in [lessons -> SUBSET Player!Points]
        /\ \A w \in lessons : skipped[w] \subseteq skipped'[w]
        /\ skipped'[lesson] = skipped[lesson] \union 0..(position - 1)
    BY <1>2, <2>1, <2>2, SeenWith
  <2>4. Player!TypeOK'
    BY <1>1, <1>2, <2>1, <2>2, <2>3 DEF Player!TypeOK
  <2>5. Player!OverreportHasCause'
    BY <1>1, <2>3, ReportStaysSeen DEF PlayerInv, Seen
  <2>6. lastSent'..(position' - 1) \subseteq Seen(lesson)'
    BY <1>1, <1>5, <2>1, <2>3 DEF Seen
  <2>7. report.step = "sent" => report.end..(position - 1) \subseteq Seen(lesson)'
    BY <1>1, <1>5, <2>2, <2>3 DEF PlayerInv, Seen
  <2> QED BY <1>1, <2>1, <2>4, <2>5, <2>6, <2>7 DEF PlayerInv
<1> QED BY <1>4, <1>5

LEMMA PlayerKeeps ==
  ASSUME PlayerInv, Player!Next
  PROVE  PlayerInv'
<1>1. report \in ReportRow
  BY DEF PlayerInv, Player!TypeOK, ReportRow
<1>2. Player!NoReport \in ReportRow /\ Player!NoReport.step = "none"
  BY PartsAssumption DEF PlayerInv, Player!TypeOK, Player!NoReport, ReportRow, PartsAssumption,
     Player!PlayerAssumption, Player!Points
<1>3. CASE Player!Answered
  <2>1. report' \in ReportRow /\ report'.step = "refetch"
    BY <1>1, <1>3 DEF Player!Answered, ReportRow
  <2> QED BY <1>3, <2>1, NoReportKeeps DEF Player!Answered, Player!element
<1>4. CASE Player!NotAnswered \/ Player!Refetched
  BY <1>2, <1>4, NoReportKeeps DEF Player!NotAnswered, Player!Refetched, Player!element
<1> QED BY <1>3, <1>4, SeekKeeps, TimeUpdateKeeps, PauseKeeps, PlayKeeps, SelectLessonKeeps
        DEF Player!Next

-----------------------------------------------------------------------------
(* The progress records.                                                   *)

\* The instance has its own copy of the operators on ranges.
LEMMA SameRanges ==
  /\ Progress!Ranges(ProgressDuration) = Ranges(ProgressDuration)
  /\ \A R : Progress!MergeRanges(R) = MergeRanges(R)
  /\ \A R : Progress!Cardinality(R) = Cardinality(R)
<1>1. Progress!Ranges(ProgressDuration) = Ranges(ProgressDuration)
  BY DEF Progress!Ranges, Ranges
<1>2. \A R : Progress!MergeRanges(R) = MergeRanges(R)
  BY DEF Progress!MergeRanges, MergeRanges, Progress!MergeLoop, MergeLoop, Progress!MergeNext,
     MergeNext, Progress!Latest, Latest, Progress!Earlier, Earlier, Progress!ToSet, ToSet,
     Progress!MapThenFoldSet, MapThenFoldSet, Progress!Max, Max, Progress!Last, Last
<1>3. \A R : Progress!Cardinality(R) = Cardinality(R)
  BY DEF Progress!Cardinality, Cardinality
<1> QED BY <1>1, <1>2, <1>3

Recorded == Ranges(ProgressDuration)

\* The rows of events, and what a call keeps.
EventsOf(v) == {event[k].range : k \in {key \in keys : event[key].lesson = v}}
EventRows == [lesson : lessons, range : Recorded] \union {Progress!NoEvent}
CallRow ==
  [step : {"idle", "begin", "commit"}, report : Progress!Reports \union {None},
   attempt : 0..(ProgressAttempts - 1), fresh : BOOLEAN, read : {None} \union
     [segments : [lessons -> SUBSET Recorded], completed : SUBSET lessons,
      certified : BOOLEAN, replayed : BOOLEAN]]

\* A transaction that may commit has read the rows as they are.
CallIsFresh(row) ==
  /\ row.step # "idle" => row.report \in Progress!Reports
  /\ row.step = "commit" /\ row.fresh => row.read = Progress!Read(row.report.key)

LessonsShown == \A v \in lessons : Progress!ShownComplete(v) <=> lessonBuyer[v] # None

AllShown == (\A v \in lessons : lessonBuyer[v] # None) <=> courseBuyer # None

ProgressInv ==
  /\ Progress!TypeOK
  /\ event \in [keys -> EventRows]
  /\ recording \in [Requests -> CallRow]
  /\ \A r \in Requests : CallIsFresh(recording[r])
  /\ Progress!SegmentsAreEvents
  /\ LessonsShown
  /\ AllShown

LEMMA ProgressConstants ==
  /\ IsFiniteSet(lessons) /\ lessons # {} /\ None \notin lessons \union Wallets
  /\ ProgressDuration \in Nat \ {0} /\ ProgressAttempts \in Nat \ {0} /\ Limit \in Nat
<1>1. \A S : Progress!IsFiniteSet(S) = IsFiniteSet(S)
  BY DEF Progress!IsFiniteSet, IsFiniteSet
<1> QED BY <1>1, PartsAssumption DEF PartsAssumption, Progress!ProgressAssumption

\* 100 % are all lessons.
LEMMA PercentageMeans ==
  ASSUME LessonsShown
  PROVE  Progress!Percentage = 100 <=> \A v \in lessons : lessonBuyer[v] # None
<1> DEFINE shown == {v \in lessons : Progress!ShownComplete(v)}
<1>1. Progress!Percentage = (100 * Cardinality(shown)) \div Cardinality(lessons)
  BY SameRanges DEF Progress!Percentage
<1>2. shown \subseteq lessons /\ IsFiniteSet(shown)
  BY ProgressConstants, FS_Subset
<1>3. /\ Cardinality(shown) \in Nat /\ Cardinality(lessons) \in Nat
      /\ Cardinality(shown) <= Cardinality(lessons) /\ Cardinality(lessons) # 0
      /\ Cardinality(shown) = Cardinality(lessons) => shown = lessons
  BY <1>2, ProgressConstants, FS_Subset, FS_CardinalityType, FS_EmptySet
<1>4. shown = lessons <=> \A v \in lessons : lessonBuyer[v] # None
  BY DEF LessonsShown
<1> HIDE DEF shown
<1>5. (100 * Cardinality(shown)) \div Cardinality(lessons) = 100
        <=> Cardinality(shown) = Cardinality(lessons)
  <2> SUFFICES ASSUME NEW m \in Nat, NEW n \in Nat, m <= n, n # 0
               PROVE  (100 * m) \div n = 100 <=> m = n
    BY <1>3
  <2>1. CASE m = n
    BY <2>1
  <2>2. CASE m < n
    <3>1. 100 * m < 100 * n
      BY <2>2
    <3>2. (100 * m) \div n < 100
      BY <3>1
    <3> QED BY <2>2, <3>2
  <2> QED BY <2>1, <2>2
<1> QED BY <1>1, <1>3, <1>4, <1>5

LEMMA ProgressMeans ==
  ASSUME ProgressInv
  PROVE  Progress!SegmentsAreEvents /\ Progress!CompletedWhenCovered
BY PercentageMeans DEF ProgressInv, LessonsShown, AllShown, Progress!CompletedWhenCovered

LEMMA NothingMerged == MergeRanges({}) = {}
<1>1. /\ MergeRanges({}) \in SUBSET Recorded /\ Normal(MergeRanges({})) /\ Normal({})
      /\ {} \in SUBSET Recorded /\ Positions(MergeRanges({})) = Positions({})
  BY ProgressConstants, MergeKeepsPositions DEF Normal, Recorded
<1> QED BY <1>1, ProgressConstants, PositionsDetermine DEF Recorded

LEMMA NothingComplete == ~Progress!LessonIsComplete({}, ProgressDuration)
<1>1. \A R, d : Progress!LessonIsComplete(R, d) = LessonIsComplete(R, d)
  BY SameRanges DEF Progress!LessonIsComplete, LessonIsComplete, Progress!CoveredMs, CoveredMs,
     Progress!MapThenSumSet, MapThenSumSet, Progress!MapThenFoldSet, MapThenFoldSet,
     Progress!LengthOf, LengthOf
<1>2. Positions({}) = {} /\ Cardinality({}) = 0
  BY FS_EmptySet DEF Positions
<1>3. ProgressDuration \in Nat /\ ProgressDuration # 0 /\ {} \in SUBSET Ranges(ProgressDuration)
  BY ProgressConstants
<1>4. LessonIsComplete({}, ProgressDuration) <=>
        ProgressDuration > 0 /\ 100 * Cardinality(Positions({})) >= 95 * ProgressDuration
  BY <1>3, CompleteMeansCovered
<1>5. ~LessonIsComplete({}, ProgressDuration)
  BY <1>2, <1>3, <1>4
<1> QED BY <1>1, <1>5

LEMMA IdleIsCall == Progress!Idle \in CallRow /\ Progress!Idle.step = "idle"
BY ProgressConstants DEF Progress!Idle, CallRow

LEMMA ProgressInitially ==
  ASSUME Progress!Init PROVE ProgressInv
<1>1. /\ issuable \in BOOLEAN /\ event = [k \in keys |-> Progress!NoEvent]
      /\ lessonRanges = [v \in lessons |-> {}] /\ lessonBuyer = [v \in lessons |-> None]
      /\ courseBuyer = None /\ recording = [r \in Requests |-> Progress!Idle]
  BY DEF Progress!Init
<1>2. /\ event \in [keys -> EventRows] /\ recording \in [Requests -> CallRow]
      /\ \A r \in Requests : CallIsFresh(recording[r])
  BY <1>1, IdleIsCall DEF EventRows, CallIsFresh
<1>3. Progress!TypeOK
  <2>1. /\ lessonRanges \in [lessons -> SUBSET Recorded]
        /\ lessonBuyer \in [lessons -> Wallets \union {None}]
    BY <1>1
  <2>2. courseBuyer \in Wallets \union {None} /\ issuable \in BOOLEAN
    BY <1>1
  <2>3. \A k \in keys : event[k] = Progress!NoEvent
    BY <1>1
  <2> QED BY <1>2, <2>1, <2>2, <2>3, SameRanges DEF Progress!TypeOK, CallRow, Recorded
<1>4. Progress!SegmentsAreEvents
  <2>1. \A v \in lessons : {k \in keys : event[k].lesson = v} = {}
    BY <1>1, ProgressConstants DEF Progress!NoEvent
  <2>2. \A v \in lessons : {event[k].range : k \in {key \in keys : event[key].lesson = v}} = {}
    BY <2>1
  <2>3. \A v \in lessons : lessonRanges[v] = {}
    BY <1>1
  <2> QED BY <2>2, <2>3, NothingMerged, SameRanges DEF Progress!SegmentsAreEvents
<1>5. LessonsShown
  BY <1>1, NothingComplete DEF LessonsShown, Progress!ShownComplete
<1>6. AllShown
  BY <1>1, ProgressConstants DEF AllShown
<1> QED BY <1>1, <1>2, <1>3, <1>4, <1>5, <1>6 DEF ProgressInv

\* A call that goes on leaves the rows alone and knows what it needs.
LEMMA CallGoesOn ==
  ASSUME ProgressInv, NEW r \in Requests, NEW row \in CallRow, CallIsFresh(row),
         recording' = [recording EXCEPT ![r] = row], UNCHANGED <<issuable, Progress!rows>>
  PROVE  ProgressInv'
<1>1. UNCHANGED <<issuable, event, lessonRanges, lessonBuyer, courseBuyer>>
  BY DEF Progress!rows
<1>2. /\ recording' \in [Requests -> CallRow]
      /\ recording'[r] = row /\ \A q \in Requests \ {r} : recording'[q] = recording[q]
  BY DEF ProgressInv
<1>3. ASSUME NEW q \in Requests PROVE CallIsFresh(recording[q])'
  <2>1. PICK now : now = recording'[q]
    OBVIOUS
  <2>2. CallIsFresh(now)
    BY <1>2, <2>1 DEF ProgressInv
  <2> QED BY <1>1, <2>1, <2>2 DEF CallIsFresh, Progress!Read
<1>4. Progress!TypeOK'
  BY <1>1, <1>2 DEF ProgressInv, Progress!TypeOK, CallRow
<1>5. Progress!SegmentsAreEvents' /\ LessonsShown' /\ AllShown'
  BY <1>1 DEF ProgressInv, Progress!SegmentsAreEvents, LessonsShown, Progress!ShownComplete,
     AllShown
<1> QED BY <1>1, <1>2, <1>3, <1>4, <1>5 DEF ProgressInv

LEMMA RecordKeeps ==
  ASSUME ProgressInv, NEW r \in Requests, NEW new \in Progress!Reports, Progress!Record(r, new)
  PROVE  ProgressInv'
<1> DEFINE row == [step |-> "begin", report |-> new, attempt |-> 0, fresh |-> FALSE,
                   read |-> None]
<1>1. row \in CallRow /\ CallIsFresh(row)
  BY ProgressConstants DEF CallRow, CallIsFresh
<1> QED BY <1>1, CallGoesOn DEF Progress!Record

LEMMA BeginKeeps ==
  ASSUME ProgressInv, NEW r \in Requests, Progress!Begin(r)
  PROVE  ProgressInv'
<1> DEFINE old == recording[r]
<1>1. PICK rows : rows = Progress!Read(old.report.key)
  OBVIOUS
<1>2. rows \in [segments : [lessons -> SUBSET Recorded], completed : SUBSET lessons,
                certified : BOOLEAN, replayed : BOOLEAN]
  BY <1>1, SameRanges DEF Progress!Read, ProgressInv, Progress!TypeOK, Recorded
<1>3. old \in CallRow /\ old.step = "begin" /\ CallIsFresh(old)
  BY DEF ProgressInv, Progress!Begin
<1> DEFINE row == [old EXCEPT !.step = "commit", !.fresh = TRUE, !.read = rows]
<1>4. recording' = [recording EXCEPT ![r] = row]
  BY <1>1 DEF Progress!Begin
<1> HIDE DEF old
<1>5. row \in CallRow /\ row.report = old.report /\ row.read = rows
  BY <1>2, <1>3 DEF CallRow
<1>6. CallIsFresh(row)
  BY <1>1, <1>3, <1>5 DEF CallIsFresh
<1> HIDE DEF row
<1> QED BY <1>4, <1>5, <1>6, CallGoesOn DEF Progress!Begin

LEMMA CallEnds ==
  ASSUME ProgressInv, NEW r \in Requests, Progress!Ends(r)
  PROVE  ProgressInv'
<1>1. CallIsFresh(Progress!Idle)
  BY IdleIsCall DEF CallIsFresh
<1> QED BY <1>1, IdleIsCall, CallGoesOn DEF Progress!Ends

LEMMA SerializationFailureKeeps ==
  ASSUME ProgressInv, NEW r \in Requests, Progress!SerializationFailure(r)
  PROVE  ProgressInv'
<1> DEFINE old == recording[r]
           row == [old EXCEPT !.step = "begin", !.attempt = @ + 1, !.read = None]
<1>1. old \in CallRow /\ old.step = "commit" /\ CallIsFresh(old)
  BY DEF ProgressInv, Progress!SerializationFailure
<1>2. CASE Progress!Again(r)
  <2>1. old.attempt + 1 < ProgressAttempts
    BY <1>2 DEF Progress!Again
  <2>2. recording' = [recording EXCEPT ![r] = row] /\ UNCHANGED <<issuable, Progress!rows>>
    BY <1>2 DEF Progress!SerializationFailure
  <2> HIDE DEF old
  <2>3. old.attempt \in 0..(ProgressAttempts - 1) /\ old.attempt + 1 \in 0..(ProgressAttempts - 1)
    BY <1>1, <2>1, ProgressConstants DEF CallRow
  <2>4. row \in CallRow /\ row.report = old.report /\ row.step = "begin"
    BY <1>1, <2>3 DEF CallRow
  <2> HIDE DEF row
  <2>5. CallIsFresh(row)
    BY <1>1, <2>4 DEF CallIsFresh
  <2> QED BY <2>2, <2>4, <2>5, CallGoesOn
<1>3. CASE ~Progress!Again(r)
  BY <1>3, CallEnds DEF Progress!SerializationFailure
<1> QED BY <1>2, <1>3

\* The calls of the others after a commit: their snapshots are old.
LEMMA CommittedCalls ==
  ASSUME ProgressInv, NEW r \in Requests, recording' = Progress!Committed(r)
  PROVE  /\ recording' \in [Requests -> CallRow]
         /\ \A q \in Requests : CallIsFresh(recording[q])'
<1>1. ASSUME NEW q \in Requests
      PROVE  /\ recording'[q] \in CallRow
             /\ CallIsFresh(recording[q])'
  <2>1. CASE q = r
    <3>1. recording'[q] = Progress!Idle
      BY <2>1 DEF Progress!Committed
    <3> QED BY <3>1, IdleIsCall DEF CallIsFresh
  <2>2. CASE q # r
    <3>1. PICK old \in CallRow : old = recording[q]
      BY DEF ProgressInv
    <3>2. recording'[q] = [old EXCEPT !.fresh = FALSE]
      BY <2>2, <3>1 DEF Progress!Committed
    <3>3. old.step # "idle" => old.report \in Progress!Reports
      BY <3>1 DEF ProgressInv, CallIsFresh
    <3>4. PICK now : now = [old EXCEPT !.fresh = FALSE]
      OBVIOUS
    <3>5. now \in CallRow /\ now.fresh = FALSE /\ now.step = old.step /\ now.report = old.report
      BY <3>1, <3>4 DEF CallRow
    <3>6. recording'[q] = now
      BY <3>2, <3>4
    <3> QED BY <3>3, <3>5, <3>6 DEF CallIsFresh
  <2> QED BY <2>1, <2>2
<1>2. recording' = [q \in Requests |-> recording'[q]]
  BY DEF Progress!Committed
<1>3. recording' \in [Requests -> CallRow]
  BY <1>1, <1>2
<1> QED BY <1>1, <1>3

\* What a report makes of the ranges of its lesson, and the lessons then complete.
MergedWith(new) == MergeRanges(lessonRanges[new.lesson] \union {new.range})

CoveredWith(new) ==
  {v \in lessons :
     \/ lessonBuyer[v] # None
     \/ Progress!LessonIsComplete(IF v = new.lesson THEN MergedWith(new) ELSE lessonRanges[v],
                                  ProgressDuration)}

StoredBy(r, new) ==
  /\ new = recording[r].report /\ event[new.key] = Progress!NoEvent
  /\ event' = [event EXCEPT ![new.key] = [lesson |-> new.lesson, range |-> new.range]]
  /\ lessonRanges' = [lessonRanges EXCEPT ![new.lesson] = MergedWith(new)]
  /\ \E reached \in SUBSET CoveredWith(new) :
       /\ CoveredWith(new) = lessons => reached = lessons
       /\ lessonBuyer' = [v \in lessons |->
            IF /\ lessonBuyer[v] = None /\ v \in CoveredWith(new)
               /\ v \in reached \union {new.lesson}
            THEN new.wallet ELSE lessonBuyer[v]]
  /\ courseBuyer' = IF CoveredWith(new) = lessons /\ courseBuyer = None
                    THEN new.wallet ELSE courseBuyer
  /\ recording' = Progress!Committed(r) /\ issuable' = issuable

\* A commit read the rows as they are, so it writes what they and its report give.
LEMMA StoreWrites ==
  ASSUME ProgressInv, NEW r \in Requests, Progress!Store(r)
  PROVE  \E new \in Progress!Reports : StoredBy(r, new)
<1>1. /\ recording[r].step = "commit" /\ recording[r].fresh
      /\ CallIsFresh(recording[r])
  BY DEF ProgressInv, Progress!Store, Progress!Commits
<1> DEFINE new == recording[r].report
<1>2. new \in Progress!Reports /\ recording[r].read = Progress!Read(new.key)
  BY <1>1 DEF CallIsFresh
<1>3. /\ recording[r].read.segments = lessonRanges
      /\ recording[r].read.completed = {v \in lessons : lessonBuyer[v] # None}
      /\ recording[r].read.certified = (courseBuyer # None)
      /\ recording[r].read.replayed = (event[new.key] # Progress!NoEvent)
  BY <1>2 DEF Progress!Read
<1>4. event[new.key] = Progress!NoEvent
  BY <1>3 DEF Progress!Store
<1>5. Progress!Merged(r) = MergedWith(new)
  BY <1>3, SameRanges DEF Progress!Merged, MergedWith
<1>6. Progress!Covered(r) = CoveredWith(new)
  BY <1>3, <1>5 DEF Progress!Covered, CoveredWith
<1>7. /\ event' = [event EXCEPT ![new.key] = [lesson |-> new.lesson, range |-> new.range]]
      /\ lessonRanges' = [lessonRanges EXCEPT ![new.lesson] = MergedWith(new)]
      /\ recording' = Progress!Committed(r) /\ issuable' = issuable
  BY <1>5 DEF Progress!Store
<1>8. \E reached \in SUBSET CoveredWith(new) :
        /\ CoveredWith(new) = lessons => reached = lessons
        /\ lessonBuyer' = [v \in lessons |->
             IF /\ lessonBuyer[v] = None /\ v \in CoveredWith(new)
                /\ v \in reached \union {new.lesson}
             THEN new.wallet ELSE lessonBuyer[v]]
  BY <1>6 DEF Progress!Store, Progress!CompleteLessons
<1>9. courseBuyer' = IF CoveredWith(new) = lessons /\ courseBuyer = None
                     THEN new.wallet ELSE courseBuyer
  BY <1>3, <1>6 DEF Progress!Store, Progress!CompleteCourse, Progress!Completes
<1>10. StoredBy(r, new)
  BY <1>4, <1>7, <1>8, <1>9 DEF StoredBy
<1> QED BY <1>2, <1>10

LEMMA StoreKeeps ==
  ASSUME ProgressInv, NEW r \in Requests, Progress!Store(r)
  PROVE  ProgressInv'
<1>0. PICK new \in Progress!Reports : StoredBy(r, new)
  BY StoreWrites
<1> DEFINE merged == MergedWith(new)
           covered == CoveredWith(new)
<1>1. /\ new = recording[r].report /\ event[new.key] = Progress!NoEvent
      /\ merged = MergeRanges(lessonRanges[new.lesson] \union {new.range})
      /\ covered = {v \in lessons :
           \/ lessonBuyer[v] # None
           \/ Progress!LessonIsComplete(IF v = new.lesson THEN merged ELSE lessonRanges[v],
                                        ProgressDuration)}
      /\ event' = [event EXCEPT ![new.key] = [lesson |-> new.lesson, range |-> new.range]]
      /\ lessonRanges' = [lessonRanges EXCEPT ![new.lesson] = merged]
      /\ \E reached \in SUBSET covered :
           /\ covered = lessons => reached = lessons
           /\ lessonBuyer' = [v \in lessons |->
                IF /\ lessonBuyer[v] = None /\ v \in covered
                   /\ v \in reached \union {new.lesson}
                THEN new.wallet ELSE lessonBuyer[v]]
      /\ courseBuyer' = IF covered = lessons /\ courseBuyer = None
                        THEN new.wallet ELSE courseBuyer
      /\ recording' = Progress!Committed(r) /\ issuable' = issuable
  BY <1>0 DEF StoredBy, MergedWith, CoveredWith
<1> HIDE DEF merged, covered
<1>2. PICK reached \in SUBSET covered :
        /\ covered = lessons => reached = lessons
        /\ lessonBuyer' = [v \in lessons |->
             IF /\ lessonBuyer[v] = None /\ v \in covered
                /\ v \in reached \union {new.lesson}
             THEN new.wallet ELSE lessonBuyer[v]]
  BY <1>1
<1>3. /\ new.lesson \in lessons /\ new.range \in Recorded /\ new.key \in keys
      /\ new.wallet \in Wallets /\ new.wallet # None
  BY SameRanges, ProgressConstants DEF Progress!Reports, Recorded
<1>4. /\ event \in [keys -> EventRows] /\ lessonRanges \in [lessons -> SUBSET Recorded]
      /\ lessonBuyer \in [lessons -> Wallets \union {None}]
      /\ courseBuyer \in Wallets \union {None}
  BY SameRanges DEF ProgressInv, Progress!TypeOK, Recorded
<1>5. /\ recording' \in [Requests -> CallRow]
      /\ \A q \in Requests : CallIsFresh(recording[q])'
  BY <1>1, CommittedCalls
<1>6. event' \in [keys -> EventRows]
  BY <1>1, <1>3, <1>4 DEF EventRows
<1>7. merged \in SUBSET Recorded
  <2>1. lessonRanges[new.lesson] \union {new.range} \in SUBSET Ranges(ProgressDuration)
    BY <1>3, <1>4 DEF Recorded
  <2> QED BY <1>1, <2>1, ProgressConstants, MergeKeepsPositions DEF Recorded
<1>8. /\ lessonRanges' \in [lessons -> SUBSET Recorded]
      /\ lessonRanges'[new.lesson] = merged
      /\ \A v \in lessons \ {new.lesson} : lessonRanges'[v] = lessonRanges[v]
  BY <1>1, <1>3, <1>4, <1>7
<1>9. /\ lessonBuyer' \in [lessons -> Wallets \union {None}]
      /\ \A v \in lessons : lessonBuyer[v] # None => lessonBuyer'[v] # None
      /\ \A v \in covered : v \in reached \union {new.lesson} => lessonBuyer'[v] # None
      /\ \A v \in lessons \ covered : lessonBuyer'[v] = lessonBuyer[v]
  <2>1. ASSUME NEW v \in lessons
        PROVE  /\ lessonBuyer'[v] \in Wallets \union {None}
               /\ lessonBuyer[v] # None => lessonBuyer'[v] # None
               /\ v \in covered /\ v \in reached \union {new.lesson} => lessonBuyer'[v] # None
               /\ v \notin covered => lessonBuyer'[v] = lessonBuyer[v]
    <3>1. lessonBuyer'[v] = IF /\ lessonBuyer[v] = None /\ v \in covered
                               /\ v \in reached \union {new.lesson}
                            THEN new.wallet ELSE lessonBuyer[v]
      BY <1>2
    <3>2. lessonBuyer[v] \in Wallets \union {None}
      BY <1>4
    <3> QED BY <1>3, <3>1, <3>2
  <2>2. lessonBuyer' = [v \in lessons |-> lessonBuyer'[v]]
    BY <1>2
  <2>3. lessonBuyer' \in [lessons -> Wallets \union {None}]
    BY <2>1, <2>2
  <2>4. covered \subseteq lessons
    BY <1>1
  <2> QED BY <2>1, <2>3, <2>4
<1>10. Progress!TypeOK'
  <2>1. courseBuyer' \in Wallets \union {None}
    BY <1>1, <1>3, <1>4
  <2>2. \A k \in keys : event'[k] = Progress!NoEvent
                        \/ event'[k] \in [lesson : lessons, range : Recorded]
    BY <1>6 DEF EventRows
  <2>3. issuable' \in BOOLEAN
    BY <1>1 DEF ProgressInv, Progress!TypeOK
  <2> QED BY <1>5, <1>8, <1>9, <2>1, <2>2, <2>3, SameRanges DEF Progress!TypeOK, CallRow, Recorded
<1>11. Progress!SegmentsAreEvents'
  <2>1. ASSUME NEW v \in lessons
        PROVE  {event'[k].range : k \in {key \in keys : event'[key].lesson = v}} =
                 IF v = new.lesson THEN EventsOf(v) \union {new.range} ELSE EventsOf(v)
    <3>1. event[new.key].lesson # v /\ Progress!NoEvent.lesson # v
      BY <1>1, ProgressConstants DEF Progress!NoEvent
    <3>2. /\ event'[new.key].lesson = new.lesson /\ event'[new.key].range = new.range
          /\ \A k \in keys \ {new.key} : event'[k] = event[k]
      BY <1>1, <1>3, <1>4
    <3>3. CASE v = new.lesson
      BY <1>3, <3>1, <3>2, <3>3 DEF EventsOf
    <3>4. CASE v # new.lesson
      BY <1>3, <3>1, <3>2, <3>4 DEF EventsOf
    <3> QED BY <3>3, <3>4
  <2>2. ASSUME NEW v \in lessons PROVE lessonRanges[v] = MergeRanges(EventsOf(v))
    BY SameRanges DEF ProgressInv, Progress!SegmentsAreEvents, EventsOf
  <2>3. EventsOf(new.lesson) \in SUBSET Ranges(ProgressDuration)
    <3>1. \A k \in keys : event[k].lesson = new.lesson => event[k].range \in Recorded
      BY <1>3, <1>4, ProgressConstants DEF EventRows, Progress!NoEvent
    <3> QED BY <3>1 DEF EventsOf, Recorded
  <2>4. merged = MergeRanges(EventsOf(new.lesson) \union {new.range})
    BY <1>1, <1>3, <2>2, <2>3, ProgressConstants, MergingIsIncremental DEF Recorded
  <2>5. ASSUME NEW v \in lessons
        PROVE  lessonRanges'[v] =
                 MergeRanges({event'[k].range : k \in {key \in keys : event'[key].lesson = v}})
    <3>1. CASE v = new.lesson
      BY <1>8, <2>1, <2>4, <3>1
    <3>2. CASE v # new.lesson
      BY <1>8, <2>1, <2>2, <3>2
    <3> QED BY <3>1, <3>2
  <2> QED BY <2>5, SameRanges DEF Progress!SegmentsAreEvents
<1>12. LessonsShown'
  <2> SUFFICES ASSUME NEW v \in lessons,
                      Progress!LessonIsComplete(lessonRanges'[v], ProgressDuration)
               PROVE  lessonBuyer'[v] # None
    BY DEF LessonsShown, Progress!ShownComplete
  <2>1. CASE v = new.lesson
    <3>1. v \in covered
      BY <1>1, <1>8, <2>1
    <3> QED BY <1>9, <2>1, <3>1
  <2>2. CASE v # new.lesson
    <3>1. Progress!LessonIsComplete(lessonRanges[v], ProgressDuration)
      BY <1>8, <2>2
    <3>2. lessonBuyer[v] # None
      BY <3>1 DEF ProgressInv, LessonsShown, Progress!ShownComplete
    <3> QED BY <1>9, <3>2
  <2> QED BY <2>1, <2>2
<1>13. AllShown'
  <2>1. CASE covered = lessons
    <3>1. \A v \in lessons : lessonBuyer'[v] # None
      BY <1>2, <1>9, <2>1
    <3>2. courseBuyer' # None
      BY <1>1, <1>3, <2>1
    <3> QED BY <3>1, <3>2 DEF AllShown
  <2>2. CASE covered # lessons
    <3>0. covered \subseteq lessons
      BY <1>1
    <3>1. PICK v \in lessons : v \notin covered
      BY <2>2, <3>0
    <3>2. lessonBuyer[v] = None /\ lessonBuyer'[v] = None
      BY <1>1, <1>9, <3>1
    <3>3. courseBuyer = None
      BY <3>2 DEF ProgressInv, AllShown
    <3> QED BY <1>1, <2>2, <3>2, <3>3 DEF AllShown
  <2> QED BY <2>1, <2>2
<1> QED BY <1>5, <1>6, <1>10, <1>11, <1>12, <1>13 DEF ProgressInv

LEMMA ProgressKeeps ==
  ASSUME ProgressInv, Progress!Next
  PROVE  ProgressInv'
<1>1. PICK r \in Requests :
        \/ \E new \in Progress!Reports : Progress!Record(r, new)
        \/ Progress!Begin(r) \/ Progress!Replay(r) \/ Progress!Store(r) \/ Progress!Conflict(r)
        \/ Progress!SerializationFailure(r) \/ Progress!UniqueViolation(r)
  BY DEF Progress!Next
<1>2. CASE Progress!Replay(r) \/ Progress!Conflict(r) \/ Progress!UniqueViolation(r)
  BY <1>2, CallEnds DEF Progress!Replay, Progress!Conflict, Progress!UniqueViolation
<1> QED BY <1>1, <1>2, RecordKeeps, BeginKeeps, StoreKeeps, SerializationFailureKeeps

-----------------------------------------------------------------------------
(* The swap page.                                                          *)

SwapPhases == {"idle", "authorizing", "swapping", "success", "error"}
TradeSteps == {"none", "read", "reset", "approve", "permit", "sign", "refresh", "check", "quote",
               "execute", "report"} \union Swaps!LostSteps
TradeRow ==
  [step : TradeSteps, input : Swaps!Inputs, quote : Nat, minimum : Nat, until : Nat]

\* A transaction asks for the minimum that the click's slippage leaves of its quote.
AsksMinimum(row) ==
  row.step \in {"execute", "executeLost"} =>
    row.minimum = Swaps!MinimumOut(row.quote, row.input.slippage)

SwapInv ==
  /\ Swaps!TypeOK
  /\ trade \in [Calls -> TradeRow]
  /\ \A c \in Calls : AsksMinimum(trade[c])
  /\ Swaps!BusyHasTrade

LEMMA SwapConstants ==
  /\ \A a \in SwapAmounts : a \in Nat /\ a > 0
  /\ \A r \in Rates : r \in Nat /\ r > 0
  /\ \A s \in Slippages : s \in Nat /\ s <= 500
  /\ Deadline \in Nat /\ PermitLife \in Nat /\ SwapClock \in Nat /\ SwapMoves \in Nat
BY PartsAssumption DEF PartsAssumption, Swaps!SwapAssumption

\* A minimum is a number, and its quote is larger by less than the rounding.
LEMMA MinimumRounds ==
  ASSUME NEW quote \in Nat, NEW slippage \in Slippages
  PROVE  /\ Swaps!MinimumOut(quote, slippage) \in Nat
         /\ 10000 * (Swaps!MinimumOut(quote, slippage) + 1) > quote * (10000 - slippage)
<1>1. slippage \in Nat /\ 10000 - slippage \in Nat
  BY SwapConstants
<1>2. PICK part \in Nat : part = quote * (10000 - slippage)
  BY <1>1
<1>3. part \div 10000 \in Nat /\ 10000 * (part \div 10000 + 1) > part
  BY <1>2
<1> QED BY <1>2, <1>3 DEF Swaps!MinimumOut

LEMMA QuoteIsNat ==
  ASSUME SwapInv, NEW in \in Swaps!Inputs
  PROVE  Swaps!Quote(in) \in Nat
<1>1. in.amount \in SwapAmounts /\ in.asset \in Swaps!Assets
  BY DEF Swaps!Inputs
<1>2. in.amount \in Nat /\ rate[in.asset] \in Nat
  BY <1>1, SwapConstants DEF SwapInv, Swaps!TypeOK
<1> QED BY <1>2 DEF Swaps!Quote

LEMMA NoTradeIsRow ==
  ASSUME NEW in \in Swaps!Inputs, NEW step \in TradeSteps
  PROVE  [Swaps!NoTrade(in) EXCEPT !.step = step] \in TradeRow
BY DEF Swaps!NoTrade, TradeRow

LEMMA SwapInitially ==
  ASSUME Swaps!Init PROVE SwapInv
<1>1. Swaps!NoTrade(input) \in TradeRow /\ Swaps!NoTrade(input).step = "none"
  BY DEF Swaps!Init, Swaps!NoTrade, TradeRow, TradeSteps
<1>2. trade \in [Calls -> TradeRow] /\ \A c \in Calls : trade[c].step = "none"
  BY <1>1 DEF Swaps!Init
<1>3. token \in Nat /\ permit \in [amount : Nat, until : Nat]
  BY SwapConstants DEF Swaps!Init, Swaps!Zero
<1>4. Swaps!TypeOK
  BY <1>2, <1>3, SwapConstants DEF Swaps!Init, Swaps!TypeOK, TradeRow, TradeSteps
<1> QED BY <1>2, <1>4 DEF SwapInv, AsksMinimum, Swaps!BusyHasTrade, Swaps!Busy, Swaps!Init

\* A call that moves leaves the others alone, and its page is busy with a call.
LEMMA CallMoves ==
  ASSUME SwapInv, NEW c \in Calls, NEW row \in TradeRow, AsksMinimum(row),
         trade' = [trade EXCEPT ![c] = row], UNCHANGED <<input, rate, time, edits>>,
         phase' \in SwapPhases, ready' \in {"unknown", "ready", "missing"},
         token' \in Nat, permit' \in [amount : Nat, until : Nat],
         \/ phase' \notin {"authorizing", "swapping"}
         \/ row.step \notin {"none"} \union Swaps!LostSteps
         \/ trade[c].step \in Swaps!LostSteps /\ phase' = phase
  PROVE  SwapInv'
<1>1. /\ trade' \in [Calls -> TradeRow] /\ trade'[c] = row
      /\ \A d \in Calls \ {c} : trade'[d] = trade[d]
  BY DEF SwapInv
<1>2. \A d \in Calls : AsksMinimum(trade'[d])
  BY <1>1 DEF SwapInv
<1>3. Swaps!TypeOK'
  BY <1>1 DEF SwapInv, Swaps!TypeOK, TradeRow, TradeSteps, SwapPhases
<1>4. Swaps!BusyHasTrade'
  BY <1>1 DEF SwapInv, Swaps!BusyHasTrade, Swaps!Busy
<1>5. \A d \in Calls : AsksMinimum(trade[d])'
  BY <1>2 DEF AsksMinimum, Swaps!MinimumOut
<1> QED BY <1>1, <1>3, <1>4, <1>5 DEF SwapInv

\* A call that goes to a step keeps its inputs, its quote and its minimum.
LEMMA CallGoes ==
  ASSUME SwapInv, NEW c \in Calls, NEW step \in TradeSteps \ {"execute"},
         step = "executeLost" => trade[c].step = "execute",
         Swaps!Goes(c, step), UNCHANGED <<input, rate, time, edits>>,
         phase' \in SwapPhases, ready' \in {"unknown", "ready", "missing"},
         token' \in Nat, permit' \in [amount : Nat, until : Nat],
         \/ phase' \notin {"authorizing", "swapping"}
         \/ step \notin {"none"} \union Swaps!LostSteps
         \/ trade[c].step \in Swaps!LostSteps /\ phase' = phase
  PROVE  SwapInv'
<1>1. PICK old \in TradeRow : old = trade[c]
  BY DEF SwapInv
<1>2. AsksMinimum(old)
  BY <1>1 DEF SwapInv
<1>3. PICK row : row = [old EXCEPT !.step = step]
  OBVIOUS
<1>4. /\ row \in TradeRow /\ row.step = step /\ row.quote = old.quote
      /\ row.minimum = old.minimum /\ row.input = old.input
  BY <1>3 DEF TradeRow
<1>5. AsksMinimum(row)
  BY <1>1, <1>2, <1>4 DEF AsksMinimum
<1>6. trade' = [trade EXCEPT ![c] = row]
  BY <1>1, <1>3 DEF Swaps!Goes
<1> QED BY <1>4, <1>5, <1>6, CallMoves

\* What is asked of the inputs and the world.
LEMMA SwapTypes ==
  ASSUME SwapInv
  PROVE  /\ input \in Swaps!Inputs /\ phase \in SwapPhases
         /\ ready \in {"unknown", "ready", "missing"}
         /\ token \in Nat /\ permit \in [amount : Nat, until : Nat] /\ time \in Nat
         /\ \A c \in Calls : trade[c] \in TradeRow /\ trade[c].input.amount \in Nat
         /\ \A c \in Calls : trade[c].input.slippage \in Slippages
         /\ Swaps!Refetched => ready' \in {"unknown", "ready", "missing"}
<1>1. \A in \in Swaps!Inputs : in.amount \in Nat /\ in.slippage \in Slippages
  BY SwapConstants DEF Swaps!Inputs
<1>2. \A c \in Calls : trade[c] \in TradeRow /\ trade[c].input \in Swaps!Inputs
  BY DEF SwapInv, TradeRow
<1>3. time \in Nat
  BY SwapConstants DEF SwapInv, Swaps!TypeOK
<1> QED BY <1>1, <1>2, <1>3 DEF SwapInv, Swaps!TypeOK, SwapPhases, Swaps!Refetched, Swaps!Ready

LEMMA StartKeeps ==
  ASSUME SwapInv, NEW c \in Calls, Swaps!ClickAuthorize(c) \/ Swaps!ClickSwap(c)
  PROVE  SwapInv'
<1>1. PICK step \in {"read", "check", "quote"} : Swaps!Starts(c, step)
  BY DEF Swaps!ClickAuthorize, Swaps!ClickSwap
<1>2. PICK row : row = [Swaps!NoTrade(input) EXCEPT !.step = step]
  OBVIOUS
<1>3. row \in TradeRow /\ row.step = step
  <2>1. input \in Swaps!Inputs
    BY SwapTypes
  <2>2. row \in TradeRow
    BY <1>2, <2>1, NoTradeIsRow DEF TradeSteps
  <2> QED BY <1>2, <2>2 DEF Swaps!NoTrade
<1>4. AsksMinimum(row)
  BY <1>1, <1>3 DEF AsksMinimum
<1>5. trade' = [trade EXCEPT ![c] = row]
  BY <1>1, <1>2 DEF Swaps!Starts
<1>6. /\ UNCHANGED <<input, ready, token, permit, rate, time, edits>>
      /\ phase' \in SwapPhases
  BY SwapTypes DEF Swaps!ClickAuthorize, Swaps!ClickSwap, Swaps!world, SwapPhases
<1> QED BY <1>1, <1>3, <1>4, <1>5, <1>6, CallMoves, SwapTypes DEF Swaps!LostSteps

LEMMA AuthorizationKeeps ==
  ASSUME SwapInv, NEW c \in Calls,
         \/ Swaps!ReadAllowance(c) \/ Swaps!ResetAllowance(c) \/ Swaps!ApproveToken(c)
         \/ Swaps!ApprovePermit(c) \/ Swaps!Refreshed(c)
  PROVE  SwapInv'
<1>1. /\ UNCHANGED <<input, rate, time, edits>> /\ phase' \in SwapPhases
      /\ ready' \in {"unknown", "ready", "missing"}
  BY SwapTypes DEF Swaps!ReadAllowance, Swaps!ResetAllowance, Swaps!ApproveToken,
     Swaps!ApprovePermit, Swaps!Refreshed, Swaps!world, SwapPhases
<1>2. token' \in Nat /\ permit' \in [amount : Nat, until : Nat]
  <2>1. trade[c].until \in Nat
    BY SwapTypes DEF TradeRow
  <2> QED BY <2>1, SwapTypes DEF Swaps!ReadAllowance, Swaps!ResetAllowance, Swaps!ApproveToken,
      Swaps!ApprovePermit, Swaps!Refreshed, Swaps!world
<1>3. CASE Swaps!Refreshed(c)
  <2>1. Swaps!Goes(c, "none") /\ phase' = "idle"
    BY <1>3 DEF Swaps!Refreshed
  <2> QED BY <1>1, <1>2, <2>1, CallGoes DEF TradeSteps, Swaps!LostSteps
<1>4. CASE ~Swaps!Refreshed(c)
  <2>1. PICK step \in {"permit", "reset", "approve", "refresh"} : Swaps!Goes(c, step)
    BY <1>4 DEF Swaps!ReadAllowance, Swaps!ResetAllowance, Swaps!ApproveToken,
       Swaps!ApprovePermit
  <2> QED BY <1>1, <1>2, <2>1, CallGoes DEF TradeSteps, Swaps!LostSteps
<1> QED BY <1>3, <1>4

LEMMA ReadPermitKeeps ==
  ASSUME SwapInv, NEW c \in Calls, Swaps!ReadPermit(c)
  PROVE  SwapInv'
<1>1. /\ UNCHANGED <<input, ready, token, permit, rate, time, edits>> /\ phase' \in SwapPhases
  BY SwapTypes DEF Swaps!ReadPermit, Swaps!world, SwapPhases
<1>2. CASE Swaps!Goes(c, "refresh")
  BY <1>1, <1>2, SwapTypes, CallGoes DEF TradeSteps, Swaps!LostSteps
<1>3. CASE trade' = [trade EXCEPT ![c].step = "sign", ![c].until = time + PermitLife]
  <2>1. PICK old \in TradeRow : old = trade[c]
    BY SwapTypes
  <2>2. PICK row : row = [old EXCEPT !.step = "sign", !.until = time + PermitLife]
    OBVIOUS
  <2>3. time + PermitLife \in Nat
    BY SwapTypes, SwapConstants
  <2>4. row \in TradeRow /\ row.step = "sign"
    BY <2>2, <2>3 DEF TradeRow, TradeSteps
  <2>5. trade' = [trade EXCEPT ![c] = row]
    BY <1>3, <2>1, <2>2 DEF SwapInv
  <2> QED BY <1>1, <2>4, <2>5, SwapTypes, CallMoves DEF AsksMinimum, Swaps!LostSteps
<1> QED BY <1>2, <1>3 DEF Swaps!ReadPermit

LEMMA FreshQuoteKeeps ==
  ASSUME SwapInv, NEW c \in Calls, Swaps!FreshQuote(c)
  PROVE  SwapInv'
<1>1. PICK old \in TradeRow : old = trade[c] /\ old.input \in Swaps!Inputs
  BY SwapTypes DEF TradeRow
<1>2. PICK quote \in Nat : quote = Swaps!Quote(old.input)
  BY <1>1, QuoteIsNat
<1>3. PICK row : row = Swaps!Plan(old.input, quote)
  OBVIOUS
<1>4. Swaps!MinimumOut(quote, old.input.slippage) \in Nat
  BY <1>1, MinimumRounds, SwapTypes
<1>5. time + Deadline \in Nat
  BY SwapTypes, SwapConstants
<1>6. /\ row \in TradeRow /\ row.step = "execute" /\ row.quote = quote
      /\ row.input = old.input /\ row.minimum = Swaps!MinimumOut(quote, old.input.slippage)
  BY <1>1, <1>3, <1>4, <1>5 DEF Swaps!Plan, TradeRow, TradeSteps
<1>7. trade' = [trade EXCEPT ![c] = row] /\ phase' = "swapping"
  BY <1>1, <1>2, <1>3 DEF Swaps!FreshQuote
<1>8. UNCHANGED <<input, ready, token, permit, rate, time, edits>>
  BY DEF Swaps!FreshQuote, Swaps!world
<1> QED BY <1>6, <1>7, <1>8, SwapTypes, CallMoves DEF AsksMinimum, SwapPhases, Swaps!LostSteps

LEMMA ExecuteKeeps ==
  ASSUME SwapInv, NEW c \in Calls, Swaps!Execute(c) \/ Swaps!ExecuteLost(c)
  PROVE  SwapInv'
<1>1. /\ UNCHANGED <<input, phase, ready, rate, time, edits>>
      /\ token' \in Nat /\ permit' \in [amount : Nat, until : Nat]
  <2>1. UNCHANGED <<input, phase, ready, rate, time, edits>> /\ Swaps!Swap(c)
    BY DEF Swaps!Execute, Swaps!ExecuteLost, Swaps!Swap
  <2>2. PICK amount \in Nat : amount = trade[c].input.amount
    BY SwapTypes
  <2>3. CASE UNCHANGED <<token, permit>>
    BY <2>1, <2>3, SwapTypes
  <2>4. CASE /\ token >= amount /\ permit.amount >= amount
             /\ token' = token - amount
             /\ permit' = [permit EXCEPT !.amount = permit.amount - amount]
    BY <2>1, <2>2, <2>4, SwapTypes
  <2> QED BY <2>1, <2>2, <2>3, <2>4 DEF Swaps!Swap
<1>2. CASE Swaps!Execute(c)
  <2>1. Swaps!Goes(c, "report")
    BY <1>2 DEF Swaps!Execute
  <2> QED BY <1>1, <2>1, SwapTypes, CallGoes DEF TradeSteps, Swaps!LostSteps
<1>3. CASE Swaps!ExecuteLost(c)
  <2>1. Swaps!Goes(c, "none") /\ trade[c].step = "executeLost"
    BY <1>3 DEF Swaps!ExecuteLost
  <2> QED BY <1>1, <2>1, SwapTypes, CallGoes DEF TradeSteps, Swaps!LostSteps
<1> QED BY <1>2, <1>3

LEMMA OtherCallKeeps ==
  ASSUME SwapInv, NEW c \in Calls,
         \/ Swaps!CheckReady(c) \/ Swaps!Report(c) \/ Swaps!Fails(c) \/ Swaps!LoseReceipt(c)
  PROVE  SwapInv'
<1>1. /\ UNCHANGED <<input, token, permit, rate, time, edits>> /\ phase' \in SwapPhases
      /\ ready' \in {"unknown", "ready", "missing"}
  BY SwapTypes DEF Swaps!CheckReady, Swaps!Report, Swaps!Fails, Swaps!LoseReceipt, Swaps!world,
     Swaps!PhaseAfterError, SwapPhases
<1>2. CASE Swaps!CheckReady(c)
  <2>1. Swaps!Goes(c, "quote")
    BY <1>2 DEF Swaps!CheckReady
  <2> QED BY <1>1, <2>1, SwapTypes, CallGoes DEF TradeSteps, Swaps!LostSteps
<1>3. CASE Swaps!Report(c) \/ Swaps!Fails(c)
  <2>1. Swaps!Goes(c, "none") /\ phase' \in {"success", "error"}
    BY <1>3 DEF Swaps!Report, Swaps!Fails, Swaps!PhaseAfterError
  <2> QED BY <1>1, <2>1, SwapTypes, CallGoes DEF TradeSteps, Swaps!LostSteps
<1>4. CASE Swaps!LoseReceipt(c)
  <2>1. PICK step \in Swaps!LostSteps :
          Swaps!Goes(c, step) /\ (step = "executeLost" => trade[c].step = "execute")
    BY <1>4 DEF Swaps!LoseReceipt, Swaps!LostSteps
  <2>2. phase' = "error"
    BY <1>4 DEF Swaps!LoseReceipt
  <2>3. step \in TradeSteps \ {"execute"}
    BY <2>1 DEF TradeSteps, Swaps!LostSteps
  <2> QED BY <1>1, <2>1, <2>2, <2>3, SwapTypes, CallGoes
<1> QED BY <1>2, <1>3, <1>4

LEMMA AuthorizeLostKeeps ==
  ASSUME SwapInv, NEW c \in Calls, Swaps!AuthorizeLost(c)
  PROVE  SwapInv'
<1>1. /\ UNCHANGED <<input, phase, ready, rate, time, edits>> /\ Swaps!Goes(c, "none")
      /\ trade[c].step \in Swaps!LostSteps
  BY DEF Swaps!AuthorizeLost, Swaps!LostSteps
<1>2. token' \in Nat /\ permit' \in [amount : Nat, until : Nat]
  <2>1. trade[c].until \in Nat
    BY SwapTypes DEF TradeRow
  <2> QED BY <2>1, SwapTypes DEF Swaps!AuthorizeLost
<1> QED BY <1>1, <1>2, SwapTypes, CallGoes DEF TradeSteps, Swaps!LostSteps

\* What the student and the chain change leaves the calls alone.
LEMMA WorldKeeps ==
  ASSUME SwapInv, Swaps!Refresh \/ Swaps!Move \/ Swaps!Tick
  PROVE  SwapInv'
<1>1. trade' = trade /\ (phase' = phase \/ phase' = "idle")
  BY DEF Swaps!Refresh, Swaps!Move, Swaps!Tick, Swaps!Edit
<1>2. input' \in Swaps!Inputs /\ ready' \in {"unknown", "ready", "missing"}
  BY SwapTypes DEF Swaps!Refresh, Swaps!Move, Swaps!Tick, Swaps!Edit, Swaps!Ready
<1>3. /\ token' \in Nat /\ permit' \in [amount : Nat, until : Nat]
      /\ rate' \in [Swaps!Assets -> Rates]
  BY SwapTypes, SwapConstants DEF Swaps!Refresh, Swaps!Move, Swaps!Tick, Swaps!Edit,
     Swaps!world, Swaps!Zero, SwapInv, Swaps!TypeOK
<1>4. time' \in 0..SwapClock /\ edits' \in 0..SwapMoves
  BY SwapConstants DEF Swaps!Refresh, Swaps!Move, Swaps!Tick, SwapInv, Swaps!TypeOK
<1>5. Swaps!TypeOK'
  BY <1>1, <1>2, <1>3, <1>4 DEF SwapInv, Swaps!TypeOK
<1>6. Swaps!BusyHasTrade' /\ \A c \in Calls : AsksMinimum(trade[c])'
  BY <1>1 DEF SwapInv, Swaps!BusyHasTrade, Swaps!Busy, AsksMinimum, Swaps!MinimumOut
<1> QED BY <1>1, <1>5, <1>6 DEF SwapInv

LEMMA SwapKeeps ==
  ASSUME SwapInv, Swaps!Next
  PROVE  SwapInv'
BY StartKeeps, AuthorizationKeeps, ReadPermitKeeps, FreshQuoteKeeps, ExecuteKeeps,
   OtherCallKeeps, AuthorizeLostKeeps, WorldKeeps DEF Swaps!Next

\* The router's minimum makes an executed swap cover its quote.
LEMMA SwapCovers ==
  ASSUME SwapInv PROVE Swaps!SwapIsCovered
<1> SUFFICES ASSUME NEW c \in Calls, Swaps!Execute(c) \/ Swaps!ExecuteLost(c)
             PROVE  10000 * (Swaps!Quote(trade[c].input) + 1) >
                      trade[c].quote * (10000 - trade[c].input.slippage)
  BY DEF Swaps!SwapIsCovered
<1>1. PICK row \in TradeRow : row = trade[c] /\ row.input \in Swaps!Inputs
  BY SwapTypes DEF TradeRow
<1>2. PICK given \in Nat : given = Swaps!Quote(row.input)
  BY <1>1, QuoteIsNat
<1>3. row.step \in {"execute", "executeLost"} /\ given >= row.minimum
  BY <1>1, <1>2 DEF Swaps!Execute, Swaps!ExecuteLost, Swaps!Swap
<1>4. AsksMinimum(row) /\ row.input.slippage \in Slippages /\ row.quote \in Nat
  BY <1>1, SwapTypes DEF SwapInv, TradeRow
<1>5. /\ row.minimum \in Nat /\ row.minimum = Swaps!MinimumOut(row.quote, row.input.slippage)
  BY <1>3, <1>4 DEF AsksMinimum, TradeRow
<1>6. PICK part : part = row.quote * (10000 - row.input.slippage)
  OBVIOUS
<1>7. part \in Int /\ 10000 * (row.minimum + 1) > part
  BY <1>4, <1>5, <1>6, MinimumRounds, SwapConstants
<1>8. 10000 * (given + 1) > part
  BY <1>3, <1>5, <1>7
<1> QED BY <1>1, <1>2, <1>6, <1>8

-----------------------------------------------------------------------------
(* The account.                                                            *)

VisitRow ==
  [step : {"none", "find", "count", "write", "in", "consume"},
   user : users \union {None}, wallet : Wallets \union {None}, exists : BOOLEAN,
   first : BOOLEAN, nonce : nonces \union {None}, name : names \union {None}]

HasPrimary(u) == \E w \in primary : walletUser[w] = u

\* A signature by a user's own wallet for a name.
SignedFor(s, u, name) ==
  s.user = u /\ s.name = name /\ s.signer = s.wallet /\ walletUser[s.wallet] = u

\* What the statements of a call so far let its next ones take for granted.
Knows(row) ==
  /\ row.step # "none" => row.user \in users /\ row.wallet \in Wallets
  /\ row.step \in {"count", "write"} /\ row.exists => walletUser[row.wallet] = row.user
  /\ row.step = "write" /\ ~row.first => HasPrimary(row.user)
  /\ row.step \in {"in", "consume"} => walletUser[row.wallet] = row.user
  /\ row.step = "consume" =>
       /\ row.nonce \in nonces /\ row.name \in names
       /\ \E s \in signatures : SignedFor(s, row.user, row.name)

VisitsKnow ==
  /\ visit \in [Requests -> VisitRow]
  /\ \A r \in Requests : Knows(visit[r])

\* A primary wallet has an owner, who has no other; owners have one.
PrimaryIsUnique ==
  /\ \A w \in primary : walletUser[w] \in users
  /\ \A v, w \in primary : walletUser[v] = walletUser[w] => v = w
  /\ \A w \in Wallets : walletUser[w] \in users => HasPrimary(walletUser[w])

DisplayedAreSigned ==
  \A u \in users : displayName[u] # None =>
    \E s \in signatures : SignedFor(s, u, displayName[u])

SpentOnce ==
  \A n \in nonces : spent[n] <= 1 /\ (~challenge[n].used => spent[n] = 0)

AccountsInv ==
  /\ Account!TypeOK
  /\ VisitsKnow
  /\ PrimaryIsUnique
  /\ DisplayedAreSigned
  /\ SpentOnce

LEMMA InitialInv == ASSUME Account!AccountsAssumption, Account!Init PROVE AccountsInv
<1> USE DEF Account!AccountsAssumption
<1>1. Account!NoVisit \in VisitRow
  BY DEF Account!NoVisit, VisitRow
<1>2. visit \in [Requests -> VisitRow] /\ \A r \in Requests : visit[r] = Account!NoVisit
  BY <1>1 DEF Account!Init
<1>3. Account!TypeOK
  BY <1>2 DEF Account!Init, Account!TypeOK, Account!NoVisit, Account!NoChallenge
<1>4. VisitsKnow
  BY <1>2 DEF VisitsKnow, Knows, Account!NoVisit
<1>5. PrimaryIsUnique
  BY DEF Account!Init, PrimaryIsUnique
<1>6. DisplayedAreSigned /\ SpentOnce
  BY DEF Account!Init, DisplayedAreSigned, SpentOnce
<1> QED BY <1>3, <1>4, <1>5, <1>6 DEF AccountsInv

-----------------------------------------------------------------------------
(* What a step leaves true.                                                *)

\* Owners are written once; signatures and primary wallets are not taken back.
RowsStay ==
  /\ \A w \in Wallets : walletUser[w] # None => walletUser'[w] = walletUser[w]
  /\ primary \subseteq primary'
  /\ signatures \subseteq signatures'

LEMMA KnowledgeStays ==
  ASSUME Account!AccountsAssumption, Account!TypeOK, RowsStay, NEW row, Knows(row)
  PROVE  Knows(row)'
<1> USE DEF Account!AccountsAssumption
<1>1. primary \subseteq Wallets /\ signatures \subseteq Account!Signatures
  BY DEF Account!TypeOK
<1>2. ASSUME NEW u \in users, HasPrimary(u) PROVE HasPrimary(u)'
  BY <1>1, <1>2 DEF HasPrimary, RowsStay
<1>3. ASSUME NEW u \in users, NEW name, \E s \in signatures : SignedFor(s, u, name)
      PROVE  \E s \in signatures' : SignedFor(s, u, name)'
  <2>1. PICK s \in signatures : SignedFor(s, u, name)
    BY <1>3
  <2>2. s.wallet \in Wallets
    BY <1>1 DEF Account!Signatures
  <2> QED BY <2>1, <2>2 DEF SignedFor, RowsStay
<1> QED BY <1>2, <1>3 DEF Knows, RowsStay

\* A call goes on knowing what its next statements need, and so do the others.
LEMMA VisitGoesOn ==
  ASSUME Account!AccountsAssumption, AccountsInv, RowsStay, NEW r \in Requests,
         NEW row \in VisitRow,
         visit' = [visit EXCEPT ![r] = row], Knows(row)'
  PROVE  VisitsKnow'
<1>1. visit' \in [Requests -> VisitRow] /\ visit'[r] = row
      /\ \A q \in Requests \ {r} : visit'[q] = visit[q]
  BY DEF AccountsInv, VisitsKnow
<1>2. ASSUME NEW q \in Requests PROVE Knows(visit[q])'
  <2>1. CASE q = r
    BY <1>1, <2>1 DEF Knows
  <2>2. CASE q # r
    <3>1. visit'[q] = visit[q] /\ Knows(visit[q])
      BY <1>1, <2>2 DEF AccountsInv, VisitsKnow
    <3> QED BY <3>1, KnowledgeStays DEF AccountsInv, Knows
  <2> QED BY <2>1, <2>2
<1> QED BY <1>1, <1>2 DEF VisitsKnow

\* The call of r is over: nothing is left to know.
LEMMA VisitEnds ==
  ASSUME Account!AccountsAssumption, AccountsInv, RowsStay, NEW r \in Requests, Account!Leave(r)
  PROVE  VisitsKnow'
<1>1. Account!NoVisit \in VisitRow /\ Knows(Account!NoVisit)'
  BY DEF Account!AccountsAssumption, Account!NoVisit, VisitRow, Knows
<1> QED BY <1>1, VisitGoesOn DEF Account!Leave

\* A statement that only reads keeps the tables and what is said of them.
LEMMA ReadKeeps ==
  ASSUME AccountsInv, Account!Stays, VisitsKnow' PROVE AccountsInv'
<1>1. UNCHANGED <<linked, walletUser, primary, displayName, challenge, spent, signatures,
                  hour, links>>
  BY DEF Account!Stays, Account!tables
<1>2. Account!TypeOK'
  BY <1>1 DEF AccountsInv, Account!TypeOK, VisitsKnow, VisitRow
<1>3. PrimaryIsUnique' /\ DisplayedAreSigned' /\ SpentOnce'
  BY <1>1 DEF AccountsInv, PrimaryIsUnique, HasPrimary, DisplayedAreSigned, SignedFor, SpentOnce
<1> QED BY <1>2, <1>3 DEF AccountsInv

LEMMA StaysIsStay == Account!Stays => RowsStay
BY DEF Account!Stays, Account!tables, RowsStay

\* The row of a call, as its statements find it.
LEMMA RowOfVisit ==
  ASSUME AccountsInv, NEW r \in Requests
  PROVE  /\ visit[r] \in VisitRow /\ Knows(visit[r])
         /\ visit[r].step # "none" =>
              visit[r].user \in users /\ visit[r].wallet \in Wallets
BY DEF AccountsInv, VisitsKnow, Knows

-----------------------------------------------------------------------------
(* The guard.                                                              *)

LEMMA ArriveKeeps ==
  ASSUME Account!AccountsAssumption, AccountsInv, NEW r \in Requests, NEW w \in Wallets,
         Account!Arrive(r, w)
  PROVE  AccountsInv'
<1>0. PICK row : row = [Account!NoVisit EXCEPT !.step = "find", !.user = linked[w], !.wallet = w]
  OBVIOUS
<1>1. linked[w] \in users
  BY DEF AccountsInv, Account!TypeOK
<1>2. row \in VisitRow /\ Knows(row)'
  BY <1>0, <1>1 DEF Account!NoVisit, VisitRow, Knows
<1>3. visit' = [visit EXCEPT ![r] = row] /\ Account!Stays
  BY <1>0 DEF Account!Arrive
<1> QED BY <1>2, <1>3, StaysIsStay, VisitGoesOn, ReadKeeps

LEMMA FindWalletKeeps ==
  ASSUME Account!AccountsAssumption, AccountsInv, NEW r \in Requests, Account!FindWallet(r)
  PROVE  AccountsInv'
<1>1. /\ visit[r] \in VisitRow /\ visit[r].step = "find" /\ Account!Stays
      /\ visit[r].user \in users /\ visit[r].wallet \in Wallets
  BY RowOfVisit DEF Account!FindWallet
<1>2. CASE Account!OwnerIsUser(r)
  <2> DEFINE found == walletUser[visit[r].wallet] # None
  <2>0. PICK row : row = [visit[r] EXCEPT !.step = "count", !.exists = found]
    OBVIOUS
  <2>1. row \in VisitRow
    BY <1>1, <2>0 DEF VisitRow
  <2>2. found => walletUser[visit[r].wallet] = visit[r].user
    BY <1>2 DEF Account!OwnerIsUser
  <2>3. Knows(row)'
    BY <1>1, <2>0, <2>2 DEF Knows, VisitRow, Account!Stays, Account!tables
  <2>4. visit' = [visit EXCEPT ![r] = row]
    BY <1>1, <1>2, <2>0 DEF Account!FindWallet
  <2> QED BY <1>1, <2>1, <2>3, <2>4, StaysIsStay, VisitGoesOn, ReadKeeps
<1>3. CASE ~Account!OwnerIsUser(r)
  BY <1>1, <1>3, StaysIsStay, VisitEnds, ReadKeeps DEF Account!FindWallet
<1> QED BY <1>2, <1>3

LEMMA CountPrimaryKeeps ==
  ASSUME Account!AccountsAssumption, AccountsInv, NEW r \in Requests, Account!CountPrimary(r)
  PROVE  AccountsInv'
<1>1. /\ visit[r] \in VisitRow /\ Knows(visit[r]) /\ visit[r].step = "count" /\ Account!Stays
      /\ visit[r].user \in users /\ visit[r].wallet \in Wallets
  BY RowOfVisit DEF Account!CountPrimary
<1> DEFINE none == {w \in primary : walletUser[w] = visit[r].user} = {}
<1>0. PICK row : row = [visit[r] EXCEPT !.step = "write", !.first = none]
  OBVIOUS
<1>2. row \in VisitRow
  BY <1>0, <1>1 DEF VisitRow
<1>3. ~none => HasPrimary(visit[r].user)
  BY DEF HasPrimary
<1>4. visit[r].exists => walletUser[visit[r].wallet] = visit[r].user
  BY <1>1 DEF Knows
<1>5. Knows(row)'
  BY <1>0, <1>1, <1>3, <1>4 DEF Knows, HasPrimary, VisitRow, Account!Stays, Account!tables
<1>6. visit' = [visit EXCEPT ![r] = row]
  BY <1>0 DEF Account!CountPrimary
<1> QED BY <1>1, <1>2, <1>5, <1>6, StaysIsStay, VisitGoesOn, ReadKeeps

LEMMA WriteWalletKeeps ==
  ASSUME Account!AccountsAssumption, AccountsInv, NEW r \in Requests, Account!WriteWallet(r)
  PROVE  AccountsInv'
<1> DEFINE u == visit[r].user
           w == visit[r].wallet
<1>0. PICK row : row = [visit[r] EXCEPT !.step = "in"]
  OBVIOUS
<1>1. /\ visit[r] \in VisitRow /\ Knows(visit[r]) /\ visit[r].step = "write"
      /\ u \in users /\ w \in Wallets
  BY RowOfVisit DEF Account!WriteWallet
<1>2. /\ walletUser \in [Wallets -> users \union {None}] /\ primary \subseteq Wallets
      /\ None \notin users /\ PrimaryIsUnique
  BY DEF AccountsInv, Account!TypeOK, Account!AccountsAssumption
<1>3. UNCHANGED <<linked, displayName, challenge, spent, signatures, hour, links>>
  BY DEF Account!WriteWallet
<1>4. row \in VisitRow /\ visit' = [visit EXCEPT ![r] = row]
  BY <1>0, <1>1 DEF Account!WriteWallet, VisitRow
<1>5. CASE visit[r].exists /\ UNCHANGED <<walletUser, primary>>
  <2>1. Account!Stays
    BY <1>3, <1>5 DEF Account!Stays, Account!tables
  <2>2. Knows(row)'
    BY <1>0, <1>1, <1>5 DEF Knows, VisitRow
  <2> QED BY <1>4, <2>1, <2>2, StaysIsStay, VisitGoesOn, ReadKeeps
<1>6. CASE ~visit[r].exists /\ Account!Insertable(r)
  <2>1. /\ walletUser' = [walletUser EXCEPT ![w] = u]
        /\ primary' = IF visit[r].first THEN primary \union {w} ELSE primary
        /\ walletUser[w] = None
    BY <1>6 DEF Account!WriteWallet, Account!Insertable
  <2>2. /\ walletUser' \in [Wallets -> users \union {None}] /\ primary' \subseteq Wallets
        /\ walletUser'[w] = u /\ \A v \in Wallets \ {w} : walletUser'[v] = walletUser[v]
    BY <1>1, <1>2, <2>1
  <2>3. RowsStay
    BY <1>2, <1>3, <2>1, <2>2 DEF RowsStay
  <2>4. Knows(row)'
    BY <1>0, <1>1, <2>2 DEF Knows, VisitRow
  <2>5. VisitsKnow'
    BY <1>4, <2>3, <2>4, VisitGoesOn
  <2>6. Account!TypeOK'
    BY <1>3, <2>2, <2>5 DEF AccountsInv, Account!TypeOK, VisitsKnow, VisitRow
  <2>7. w \notin primary
    BY <1>2, <2>1 DEF PrimaryIsUnique
  <2>8. PrimaryIsUnique'
    <3>1. CASE visit[r].first
      <4>1. \A v \in primary : walletUser[v] # u
        BY <1>6, <3>1 DEF Account!Insertable
      <4>2. primary' = primary \union {w}
        BY <2>1, <3>1
      <4> HIDE DEF u, w
      <4>3. \A v \in primary' : walletUser'[v] \in users
        BY <1>1, <1>2, <2>2, <4>2 DEF PrimaryIsUnique
      <4>4. \A x, y \in primary' : walletUser'[x] = walletUser'[y] => x = y
        BY <1>2, <2>2, <2>7, <4>1, <4>2 DEF PrimaryIsUnique
      <4>5. ASSUME NEW v \in Wallets, walletUser'[v] \in users
            PROVE  \E x \in primary' : walletUser'[x] = walletUser'[v]
        <5>1. CASE v = w
          BY <4>2, <5>1
        <5>2. CASE v # w
          BY <1>2, <2>2, <2>7, <4>2, <4>5, <5>2 DEF PrimaryIsUnique, HasPrimary
        <5> QED BY <5>1, <5>2
      <4> QED BY <4>3, <4>4, <4>5 DEF PrimaryIsUnique, HasPrimary
    <3>2. CASE ~visit[r].first
      <4>1. HasPrimary(u) /\ primary' = primary
        BY <1>1, <2>1, <3>2 DEF Knows
      <4> HIDE DEF u, w
      <4>2. \A v \in primary : walletUser'[v] = walletUser[v]
        BY <1>2, <2>2, <2>7
      <4>3. ASSUME NEW v \in Wallets, walletUser'[v] \in users
            PROVE  \E x \in primary' : walletUser'[x] = walletUser'[v]
        <5>1. CASE v = w
          BY <2>2, <4>1, <4>2, <5>1 DEF HasPrimary
        <5>2. CASE v # w
          BY <1>2, <2>2, <4>1, <4>2, <4>3, <5>2 DEF PrimaryIsUnique, HasPrimary
        <5> QED BY <5>1, <5>2
      <4> QED BY <1>2, <4>1, <4>2, <4>3 DEF PrimaryIsUnique, HasPrimary
    <3> QED BY <3>1, <3>2
  <2>9. DisplayedAreSigned'
    <3> SUFFICES ASSUME NEW x \in users, displayName[x] # None
                 PROVE  \E s \in signatures : SignedFor(s, x, displayName[x])'
      BY <1>3 DEF DisplayedAreSigned
    <3>1. PICK s \in signatures : SignedFor(s, x, displayName[x])
      BY DEF AccountsInv, DisplayedAreSigned
    <3>2. s.wallet \in Wallets
      BY DEF AccountsInv, Account!TypeOK, Account!Signatures
    <3> QED BY <1>2, <1>3, <2>3, <3>1, <3>2 DEF SignedFor, RowsStay
  <2>10. SpentOnce'
    BY <1>3 DEF AccountsInv, SpentOnce
  <2> QED BY <2>5, <2>6, <2>8, <2>9, <2>10 DEF AccountsInv
<1> QED BY <1>5, <1>6 DEF Account!WriteWallet

-----------------------------------------------------------------------------
(* The profile.                                                            *)

LEMMA CreateChallengeKeeps ==
  ASSUME Account!AccountsAssumption, AccountsInv, NEW r \in Requests, NEW n \in nonces,
         NEW name \in names, Account!CreateChallenge(r, n, name)
  PROVE  AccountsInv'
<1>1. /\ visit[r].step = "in" /\ visit[r].user \in users /\ visit[r].wallet \in Wallets
      /\ Account!Leave(r) /\ challenge[n] = Account!NoChallenge
      /\ UNCHANGED <<linked, walletUser, primary, displayName, spent, hour, links>>
  BY RowOfVisit DEF Account!CreateChallenge
<1>2. signatures \subseteq signatures' /\ signatures' \subseteq Account!Signatures
  BY <1>1 DEF Account!CreateChallenge, Account!Signed, Account!Signatures, AccountsInv,
     Account!TypeOK
<1>3. RowsStay
  BY <1>1, <1>2 DEF RowsStay
<1>4. VisitsKnow'
  BY <1>1, <1>3, VisitEnds
<1>5. /\ challenge' \in
           [nonces -> [user : users \union {None}, expiresAt : Nat, used : BOOLEAN]]
      /\ \A m \in nonces : ~challenge'[m].used => ~challenge[m].used
  <2> DEFINE row == [user |-> visit[r].user, expiresAt |-> hour + Life, used |-> FALSE]
  <2>1. row \in [user : users \union {None}, expiresAt : Nat, used : BOOLEAN]
    BY <1>1 DEF AccountsInv, Account!TypeOK, Account!AccountsAssumption
  <2>2. challenge' = [challenge EXCEPT ![n] = row]
    BY <1>1 DEF Account!CreateChallenge
  <2>3. ~challenge[n].used
    BY <1>1 DEF Account!NoChallenge
  <2> HIDE DEF row
  <2> QED BY <2>1, <2>2, <2>3 DEF AccountsInv, Account!TypeOK
<1>6. Account!TypeOK'
  BY <1>1, <1>2, <1>4, <1>5 DEF AccountsInv, Account!TypeOK, VisitsKnow, VisitRow
<1>7. PrimaryIsUnique' /\ DisplayedAreSigned'
  BY <1>1, <1>2 DEF AccountsInv, PrimaryIsUnique, HasPrimary, DisplayedAreSigned, SignedFor
<1>8. SpentOnce'
  BY <1>1, <1>5 DEF AccountsInv, SpentOnce
<1> QED BY <1>4, <1>6, <1>7, <1>8 DEF AccountsInv

LEMMA SubmitNameKeeps ==
  ASSUME Account!AccountsAssumption, AccountsInv, NEW r \in Requests, NEW s \in signatures,
         NEW name \in names, Account!SubmitName(r, s, name)
  PROVE  AccountsInv'
<1>0. PICK row :
        row = [visit[r] EXCEPT !.step = "consume", !.nonce = s.nonce, !.name = name]
  OBVIOUS
<1>1. /\ visit[r] \in VisitRow /\ Knows(visit[r]) /\ visit[r].step = "in" /\ Account!Stays
      /\ visit[r].user \in users /\ visit[r].wallet \in Wallets
      /\ walletUser[visit[r].wallet] = visit[r].user
  BY RowOfVisit DEF Account!SubmitName, Knows
<1>2. s.nonce \in nonces
  BY DEF AccountsInv, Account!TypeOK, Account!Signatures
<1>3. SignedFor(s, visit[r].user, name)
  BY <1>1 DEF Account!SubmitName, Account!Verifies, SignedFor
<1>4. row \in VisitRow
  BY <1>0, <1>1, <1>2 DEF VisitRow
<1>5. Knows(row)'
  BY <1>0, <1>1, <1>2, <1>3 DEF Knows, SignedFor, VisitRow, Account!Stays, Account!tables
<1>6. visit' = [visit EXCEPT ![r] = row]
  BY <1>0 DEF Account!SubmitName
<1> QED BY <1>1, <1>4, <1>5, <1>6, StaysIsStay, VisitGoesOn, ReadKeeps

LEMMA ConsumeKeeps ==
  ASSUME Account!AccountsAssumption, AccountsInv, NEW r \in Requests, Account!Consume(r)
  PROVE  AccountsInv'
<1> DEFINE n == visit[r].nonce
           u == visit[r].user
           name == visit[r].name
<1>1. /\ u \in users /\ n \in nonces /\ name \in names
      /\ \E s \in signatures : SignedFor(s, u, name)
      /\ Account!Leave(r) /\ ~challenge[n].used
      /\ UNCHANGED <<linked, walletUser, primary, signatures, hour, links>>
  BY RowOfVisit DEF Account!Consume, Knows, Account!Open
<1>2. RowsStay
  BY <1>1 DEF RowsStay
<1>3. VisitsKnow'
  BY <1>1, <1>2, VisitEnds
<1>4. /\ challenge' = [challenge EXCEPT ![n].used = TRUE]
      /\ displayName' = [displayName EXCEPT ![u] = name]
      /\ spent' = [spent EXCEPT ![n] = @ + 1]
  BY DEF Account!Consume
<1> HIDE DEF n, u, name
<1>5. /\ challenge' \in
           [nonces -> [user : users \union {None}, expiresAt : Nat, used : BOOLEAN]]
      /\ challenge'[n].used /\ \A m \in nonces \ {n} : challenge'[m] = challenge[m]
  BY <1>1, <1>4 DEF AccountsInv, Account!TypeOK
<1>6. /\ displayName' \in [users -> names \union {None}]
      /\ displayName'[u] = name /\ \A x \in users \ {u} : displayName'[x] = displayName[x]
  BY <1>1, <1>4 DEF AccountsInv, Account!TypeOK
<1>7. /\ spent' \in [nonces -> Nat] /\ spent'[n] = spent[n] + 1
      /\ \A m \in nonces \ {n} : spent'[m] = spent[m]
  BY <1>1, <1>4 DEF AccountsInv, Account!TypeOK
<1>8. Account!TypeOK'
  BY <1>1, <1>3, <1>5, <1>6, <1>7 DEF AccountsInv, Account!TypeOK, VisitsKnow, VisitRow
<1>9. PrimaryIsUnique'
  BY <1>1 DEF AccountsInv, PrimaryIsUnique, HasPrimary
<1>10. DisplayedAreSigned'
  BY <1>1, <1>6 DEF AccountsInv, DisplayedAreSigned, SignedFor
<1>11. SpentOnce'
  BY <1>1, <1>5, <1>7 DEF AccountsInv, SpentOnce
<1> QED BY <1>3, <1>8, <1>9, <1>10, <1>11 DEF AccountsInv

-----------------------------------------------------------------------------
(* Every step.                                                             *)

\* Wallets that are moved and time that passes are not read by what is said.
LEMMA OutsideKeeps ==
  ASSUME Account!AccountsAssumption, AccountsInv,
         Account!Pass \/ \E w \in Wallets, u \in users : Account!Relink(w, u)
  PROVE  AccountsInv'
<1>1. UNCHANGED <<walletUser, primary, displayName, challenge, spent, signatures, visit>>
  BY DEF Account!Pass, Account!Relink, Account!tables
<1>2. linked' \in [Wallets -> users] /\ hour' \in 0..MaxTime /\ links' \in 0..MaxLinks
  BY DEF Account!Pass, Account!Relink, AccountsInv, Account!TypeOK, Account!AccountsAssumption
<1>3. Account!TypeOK'
  BY <1>1, <1>2 DEF AccountsInv, Account!TypeOK
<1>4. VisitsKnow'
  BY <1>1 DEF AccountsInv, VisitsKnow, Knows, HasPrimary, SignedFor
<1>5. PrimaryIsUnique' /\ DisplayedAreSigned' /\ SpentOnce'
  BY <1>1 DEF AccountsInv, PrimaryIsUnique, HasPrimary, DisplayedAreSigned, SignedFor, SpentOnce
<1> QED BY <1>3, <1>4, <1>5 DEF AccountsInv

LEMMA VisitKeeps ==
  ASSUME Account!AccountsAssumption, AccountsInv, NEW r \in Requests, Account!Visit(r)
  PROVE  AccountsInv'
<1>1. CASE Account!WriteFails(r) \/ Account!Refuse(r)
  BY <1>1, StaysIsStay, VisitEnds, ReadKeeps DEF Account!WriteFails, Account!Refuse
<1> QED BY <1>1, ArriveKeeps, FindWalletKeeps, CountPrimaryKeeps, WriteWalletKeeps,
    CreateChallengeKeeps, SubmitNameKeeps, ConsumeKeeps DEF Account!Visit

LEMMA AccountsKeep ==
  ASSUME Account!AccountsAssumption, AccountsInv, Account!Next PROVE AccountsInv'
BY VisitKeeps, OutsideKeeps DEF Account!Next

LEMMA AccountsStay ==
  ASSUME AccountsInv, UNCHANGED Account!vars PROVE AccountsInv'
<1>1. Account!Stays /\ UNCHANGED visit
  BY DEF Account!vars, Account!Stays
<1>2. VisitsKnow'
  BY <1>1 DEF AccountsInv, VisitsKnow, Knows, HasPrimary, SignedFor, Account!Stays, Account!tables
<1> QED BY <1>1, <1>2, ReadKeeps

\* The unique indexes give a user one primary wallet.
LEMMA OwnedByInv ==
  ASSUME AccountsInv PROVE Account!WalletsAreOwned
<1>1. \A r \in Requests : visit[r].step \in {"in", "consume"} =>
        walletUser[visit[r].wallet] = visit[r].user
  BY DEF AccountsInv, VisitsKnow, Knows
<1>2. ASSUME NEW u \in users, {w \in Wallets : walletUser[w] = u} # {}
      PROVE  Account!Cardinality({w \in Wallets : walletUser[w] = u} \intersect primary) = 1
  <2>1. PICK w \in primary : walletUser[w] = u
    BY <1>2 DEF AccountsInv, PrimaryIsUnique, HasPrimary
  <2>2. {v \in Wallets : walletUser[v] = u} \intersect primary = {w}
    BY <2>1 DEF AccountsInv, Account!TypeOK, PrimaryIsUnique
  <2>3. Account!Cardinality({w}) = Cardinality({w})
    BY DEF Account!Cardinality, Cardinality
  <2> QED BY <2>2, <2>3, FS_Singleton
<1> QED BY <1>1, <1>2 DEF Account!WalletsAreOwned

-----------------------------------------------------------------------------
(* The parts together.  Only the part of the page moves, so the invariant   *)
(* of each is that of its page.                                            *)

PagesInv ==
  /\ page = "player" => PlayerInv
  /\ page = "progress" => ProgressInv
  /\ page = "swap" => SwapInv
  /\ page = "account" => AccountsInv

LEMMA PagesInitially == StudentInit => PagesInv
<1>1. Account!AccountsAssumption
  BY PartsAssumption DEF PartsAssumption
<1> QED BY <1>1, PlayerInitially, ProgressInitially, SwapInitially, InitialInv
        DEF StudentInit, PagesInv

\* Each invariant only reads the variables of its part.
LEMMA PagesStay ==
  ASSUME PagesInv, UNCHANGED studentVars PROVE PagesInv'
<1> USE DEF studentVars, partVars
<1>1. page' = page
  OBVIOUS
<1>2. ASSUME PlayerInv PROVE PlayerInv'
  BY <1>2 DEF playerVars, PlayerInv, Player!TypeOK, Player!OverreportHasCause, Player!Reported,
     Seen
<1>3. ASSUME ProgressInv PROVE ProgressInv'
  <2>1. UNCHANGED <<issuable, event, lessonRanges, lessonBuyer, courseBuyer, recording>>
    BY DEF progressVars
  <2>2. Progress!TypeOK' /\ Progress!SegmentsAreEvents'
    BY <1>3, <2>1 DEF ProgressInv, Progress!TypeOK, Progress!SegmentsAreEvents
  <2>3. \A r \in Requests : CallIsFresh(recording[r])'
    BY <1>3, <2>1 DEF ProgressInv, CallIsFresh, Progress!Read
  <2>4. LessonsShown' /\ AllShown'
    BY <1>3, <2>1 DEF ProgressInv, LessonsShown, AllShown, Progress!ShownComplete
  <2> QED BY <1>3, <2>1, <2>2, <2>3, <2>4 DEF ProgressInv
<1>4. ASSUME SwapInv PROVE SwapInv'
  BY <1>4 DEF swapVars, SwapInv, Swaps!TypeOK, Swaps!BusyHasTrade, Swaps!Busy, AsksMinimum,
     Swaps!MinimumOut
<1>5. ASSUME AccountsInv PROVE AccountsInv'
  BY <1>5, AccountsStay DEF accountVars, Account!vars, Account!tables
<1> QED BY <1>1, <1>2, <1>3, <1>4, <1>5 DEF PagesInv

LEMMA PagesKeep ==
  ASSUME PagesInv, [StudentNext]_studentVars PROVE PagesInv'
<1>1. Account!AccountsAssumption
  BY PartsAssumption DEF PartsAssumption
<1>2. page' = page
  BY DEF StudentNext, studentVars
<1>3. CASE page = "player" /\ Player!Next
  BY <1>2, <1>3, PlayerKeeps DEF PagesInv
<1>4. CASE page = "progress" /\ Progress!Next
  BY <1>2, <1>4, ProgressKeeps DEF PagesInv
<1>5. CASE page = "swap" /\ Swaps!Next
  BY <1>2, <1>5, SwapKeeps DEF PagesInv
<1>6. CASE page = "account" /\ Account!Next
  BY <1>1, <1>2, <1>6, AccountsKeep DEF PagesInv
<1>7. CASE page \in {"course", "checkout"}
  BY <1>2, <1>7 DEF PagesInv
<1>8. CASE UNCHANGED studentVars
  BY <1>8, PagesStay
<1> QED BY <1>3, <1>4, <1>5, <1>6, <1>7, <1>8 DEF StudentNext

-----------------------------------------------------------------------------
(* What holds of every behaviour.                                          *)

\* Of what its next report takes for granted the page saw every point played, or
\* has one of the two causes to claim it unplayed; a transaction on progress that
\* may commit has read the rows as they are, a swap asks for its minimum, and what
\* a call of the account has read stays true until its write
\* (app.tsx:685-887, learning.service.ts:63-284, SwapPage.tsx:115-252,
\* users.service.ts:24-120).
THEOREM PagesInvariant == StudentSpec => []PagesInv
<1>1. PagesInv /\ [StudentNext]_studentVars => PagesInv'
  BY PagesKeep
<1> QED BY <1>1, PagesInitially, PTL DEF StudentSpec

\* The state of the pages and the rows of progress, users, wallets and
\* challenges refer to each other as the page and the schema say (app.tsx,
\* SwapPage.tsx, schema.prisma).
THEOREM PartsTypeCorrect == StudentSpec => []PartsTypeOK
<1>1. PagesInv => PartsTypeOK
  BY DEF PagesInv, PartsTypeOK, PlayerInv, ProgressInv, SwapInv, AccountsInv
<1> QED BY <1>1, PagesInvariant, PTL

\* What a report claims was played, or passed by a seek while a report was in
\* flight, or lay before the position when the active lesson was selected again:
\* lost and late answers and a change of lesson claim nothing more
\* (app.tsx:715-735, 775-779, 805-835, 873-877).
THEOREM OverreportAlwaysHasCause == StudentSpec => []OverreportHasCause
<1>1. PagesInv => OverreportHasCause
  BY DEF PagesInv, OverreportHasCause, PlayerInv
<1> QED BY <1>1, PagesInvariant, PTL

\* No interleaving of reports, retries and serialization failures loses a range,
\* counts one twice or keeps one of an event that is not stored
\* (learning.service.ts:63-284).
THEOREM SegmentsAlwaysEvents == StudentSpec => []SegmentsAreEvents
<1>1. PagesInv => SegmentsAreEvents
  BY DEF PagesInv, SegmentsAreEvents, ProgressInv
<1> QED BY <1>1, PagesInvariant, PTL

\* Lessons have their row of completion when their ranges cover 95% of them, and
\* the course has its own when all lessons have theirs, whoever reports last
\* (learning.service.ts:160-284).
THEOREM AlwaysCompletedWhenCovered == StudentSpec => []CompletedWhenCovered
<1>1. ProgressInv => Progress!CompletedWhenCovered
  BY ProgressMeans
<1>2. PagesInv => CompletedWhenCovered
  BY <1>1 DEF PagesInv, CompletedWhenCovered
<1> QED BY <1>2, PagesInvariant, PTL

\* Whatever is edited, approved or traded while a swap is under way, what it
\* gives is at least its quote less the slippage of its click, to the rounding
\* (SwapPage.tsx:175-252, swap-domain.ts).
THEOREM SwapsAlwaysCovered == StudentSpec => SwapsAreCovered
<1>1. PagesInv => (page = "swap" => Swaps!SwapIsCovered)
  BY SwapCovers DEF PagesInv
<1> QED BY <1>1, PagesInvariant, PTL DEF StudentSpec, SwapsAreCovered

\* Buttons that are disabled by a call in progress have one, which will enable
\* them or is the student's to confirm (SwapPage.tsx:115-252).
THEOREM BusyAlwaysHasTrade == StudentSpec => []BusyHasTrade
<1>1. PagesInv => BusyHasTrade
  BY DEF PagesInv, BusyHasTrade, SwapInv
<1> QED BY <1>1, PagesInvariant, PTL

\* A display name was signed by a wallet of its user for this name, and a
\* challenge gives one name, though it is read in one statement and spent in
\* another (users.service.ts:62-120).
THEOREM NamesAlwaysSigned == StudentSpec => []NamesAreSigned
<1>1. AccountsInv => Account!NamesAreSigned
  BY DEF AccountsInv, DisplayedAreSigned, SignedFor, SpentOnce, Account!NamesAreSigned
<1>2. PagesInv => NamesAreSigned
  BY <1>1 DEF PagesInv, NamesAreSigned
<1> QED BY <1>2, PagesInvariant, PTL

\* A call acts with a wallet of its user, and a user with wallets has one
\* primary wallet, however logins overlap and wallets move between subjects
\* (users.service.ts:24-60).
THEOREM WalletsAlwaysOwned == StudentSpec => []WalletsAreOwned
<1>1. AccountsInv => Account!WalletsAreOwned
  BY OwnedByInv
<1>2. PagesInv => WalletsAreOwned
  BY <1>1 DEF PagesInv, WalletsAreOwned
<1> QED BY <1>2, PagesInvariant, PTL
=============================================================================
