---------------------------- MODULE VideoPlayer ----------------------------
(***************************************************************************)
(* The learning page (LearningCourse of app.tsx): what its video handlers  *)
(* report as watched, against what was played.  Positions are points of a  *)
(* video, and point p stands for the playback from p to p + 1.  A report   *)
(* is one HTTP call at a time; its answer moves lastSentMs, whatever the   *)
(* student did meanwhile.                                                  *)
(***************************************************************************)
EXTENDS Integers

CONSTANTS
  Videos,      \* the lessons of the course
  Duration,    \* of every video
  Jump,        \* 5 s: a longer step between two updates is a seek
  Chunk,       \* 30 s: playback that is reported without a pause
  Least,       \* 1 s: less is not reported
  Limit,       \* 120 s: more is refused by the API
  MaxUpdate    \* bound: playback between two timeupdate events

\* Whoever instantiates this module assumes it of the constants.
PlayerAssumption ==
  /\ {Duration, Jump, Chunk, Least, Limit, MaxUpdate} \subseteq Nat \ {0}
  /\ Jump < Chunk /\ Least <= Chunk

VARIABLES
  lesson,        \* the active lesson
  position,      \* of the video element
  playing,
  lastSent, lastObserved,
  report,        \* the call of syncVideoProgress
  played,        \* points played, of each lesson
  skipped        \* points that may be reported without having been played:
                 \* passed by a seek while a report was in flight, or before
                 \* the position when the active lesson was selected again

element == <<lesson, position, playing>>
vars == <<element, lastSent, lastObserved, report, played, skipped>>

Points == 0..Duration
NoReport == [step |-> "none", lesson |-> lesson, start |-> 0, end |-> 0]

TypeOK ==
  /\ lesson \in Videos /\ playing \in BOOLEAN
  /\ {position, lastSent, lastObserved} \subseteq Points
  /\ report \in [step : {"none", "sent", "refetch"}, lesson : Videos, start : Points, end : Points]
  /\ {played, skipped} \subseteq [Videos -> SUBSET Points]

Init ==
  /\ lesson \in Videos
  /\ position = 0 /\ lastSent = 0 /\ lastObserved = 0
  /\ playing = FALSE
  /\ report = NoReport
  /\ played = [v \in Videos |-> {}]
  /\ skipped = played

With(points, v, start, end) == [points EXCEPT ![v] = @ \union start..(end - 1)]

\* syncVideoProgress up to its await: nothing while a call is in flight.
Sync(start, end) ==
  report' = IF report.step # "none" \/ end - start < Least THEN report
            ELSE [step |-> "sent", lesson |-> lesson, start |-> start, end |-> end]

\* onPlay.
Play ==
  /\ ~playing /\ position < Duration
  /\ playing' = TRUE
  /\ lastSent' = position /\ lastObserved' = position
  /\ UNCHANGED <<lesson, position, report, played, skipped>>

\* Fault: a seek moves only the position; onTimeUpdate notices long ones.
SeekKeeps(to) == UNCHANGED <<lastSent, lastObserved>>

SeekResets(to) == lastSent' = to /\ lastObserved' = to

\* onSeeking.
Seek(to) ==
  /\ to # position
  /\ position' = to
  /\ SeekResets(to)
  /\ skipped' = IF report.step = "none" THEN skipped ELSE With(skipped, lesson, position, to)
  /\ UNCHANGED <<lesson, playing, report, played>>

\* onTimeUpdate: as the video plays, and at the same position after a seek,
\* before a pause.
TimeUpdate(to) ==
  /\ \/ to = position
     \/ playing /\ position < to /\ to <= position + MaxUpdate
  /\ position' = to
  /\ played' = With(played, lesson, position, to)
  /\ lastSent' = IF to < lastObserved \/ to - lastObserved > Jump THEN to ELSE lastSent
  /\ lastObserved' = to
  /\ IF to - lastSent' >= Chunk THEN Sync(lastSent', to) ELSE report' = report
  /\ UNCHANGED <<lesson, playing, skipped>>

\* onPause and, at the end of the video, onEnded.
Pause ==
  /\ playing
  /\ playing' = FALSE
  /\ Sync(lastSent, position)
  /\ UNCHANGED <<lesson, position, lastSent, lastObserved, played, skipped>>

\* A button of the list, or "Previous lesson".  The button of the active
\* lesson is no exception: its video goes on where it is.
SelectLesson(v) ==
  /\ lesson' = v
  /\ lastSent' = 0 /\ lastObserved' = 0
  /\ \/ /\ v = lesson
        /\ skipped' = With(skipped, lesson, 0, position)
        /\ UNCHANGED <<position, playing>>
     \/ v # lesson /\ position' = 0 /\ playing' = FALSE /\ UNCHANGED skipped
  /\ UNCHANGED <<report, played>>

-----------------------------------------------------------------------------
\* The report is counted and answered; the page refetches the progress.
Answered ==
  /\ report.step = "sent" /\ report.end - report.start <= Limit
  /\ lastSent' = report.end
  /\ report' = [report EXCEPT !.step = "refetch"]
  /\ UNCHANGED <<element, lastObserved, played, skipped>>

\* The call fails: refused, not sent, or counted and its answer lost.
NotAnswered ==
  /\ report.step = "sent"
  /\ report' = NoReport
  /\ UNCHANGED <<element, lastSent, lastObserved, played, skipped>>

Refetched ==
  /\ report.step = "refetch"
  /\ report' = NoReport
  /\ UNCHANGED <<element, lastSent, lastObserved, played, skipped>>

Next ==
  \/ Play \/ Pause
  \/ \E to \in Points : Seek(to) \/ TimeUpdate(to)
  \/ \E v \in Videos : SelectLesson(v)
  \/ Answered \/ NotAnswered \/ Refetched

Spec == Init /\ [][Next]_vars

-----------------------------------------------------------------------------
Reported(v) ==
  IF report.step = "sent" /\ report.lesson = v THEN report.start..(report.end - 1) ELSE {}

\* "Skipped time is never reported as watched", says the comment in onTimeUpdate.
OnlyWatchedIsReported == \A v \in Videos : Reported(v) \subseteq played[v]

\* A report that holds more than was played has one of two causes: a seek
\* while a report was in flight, whose answer puts lastSentMs back
\* (app.tsx:727), or a click on the lesson that is active already, which sets
\* it to 0 wherever the video is (app.tsx:775-779).  Other seeks, pauses, lost
\* answers, changes of the lesson and long updates do no harm.
OverreportHasCause == \A v \in Videos : Reported(v) \subseteq played[v] \union skipped[v]
=============================================================================
