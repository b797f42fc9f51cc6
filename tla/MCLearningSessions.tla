------------------------- MODULE MCLearningSessions -------------------------
(* Instances of LearningSessions.                                          *)
EXTENDS LearningSessions
CONSTANTS alice, w1, w2
MCOwner == [w \in Wallets |-> alice]
MCSymmetry == Permutations(Requests)

\* A run about playback begins with the purchase or after it.
PlaybackInit ==
  \/ Init
  \/ /\ clock = 0 /\ changes = 0 /\ published = TRUE
     /\ entitlement = [w \in Wallets |-> "held"]
     /\ session = [s \in Sessions |-> NoSession]
     /\ events = {} /\ segments = [p \in Students \X Videos |-> {}]
     /\ lessonWallet = [p \in Students \X Lessons |-> None]
     /\ courseWallet = [u \in Students |-> None]
     /\ request = [r \in Requests |-> Idle]

\* Its bounds: a session is started while there is time to play; a document, a change
\* after the purchase and a second attempt of a transaction, which MCCourseCompletion
\* is about, come before time passes and a video is started.  Without a second attempt
\* a transaction that meets a conflict can only fail, and may as well have failed
\* before the other commits; a position beyond the end, which is refused, is sent
\* while no other call is under way.
OneBeyondEnd ==
  \A q, r \in Requests :
    q # r /\ request[q].position > Duration => request[r].step = "idle"

NoConflict == \A r \in Requests : request[r].step = "commit" => request[r].fresh

OnlyPlayback ==
  /\ changes = 1
  /\ \A s \in Sessions : session[s].lesson \notin Documents /\ session[s].createdAt < MaxClock
  /\ \A r \in Requests : request[r].lesson \notin Documents /\ request[r].attempt = 0
  /\ OneBeyondEnd /\ NoConflict

NoPlayback ==
  /\ clock = 0
  /\ \A s \in Sessions : session[s].lesson \notin Videos
  /\ \A r \in Requests : request[r].lesson \notin Videos

PlaybackBound == OnlyPlayback \/ NoPlayback
=============================================================================
