-------------------------- MODULE LearningSessions --------------------------
(***************************************************************************)
(* The learning service of the API, for the required lessons of one        *)
(* published course: sessions, video heartbeats, document confirmations,   *)
(* lesson completions and the course completion with its certificate.mint  *)
(* outbox row.                                                             *)
(*                                                                         *)
(* A request authorises itself, reads the clock, and then runs one         *)
(* transaction.  Heartbeats and confirmations run theirs at the level      *)
(* Serializable: it reads what was committed when it began, and fails when *)
(* a transaction that committed since then changed what it depends on.     *)
(***************************************************************************)
EXTENDS CoverageRanges

CONSTANTS
  Students, Wallets,
  owner,                      \* the student of each wallet
  Videos, Documents,          \* the required lessons, all with a READY asset
  Duration,                   \* of every video
  None,                       \* no wallet, no session, no lesson
  Requests,                   \* API calls in progress
  MinInterval, MaxInterval, RatePercent, Tolerance,  \* the heartbeat policy
  SessionTtl,                 \* SESSION_TTL_MS
  MaxAttempts,                \* runs of a Serializable transaction, 3
  MaxSessions, MaxClock, MaxSequence,                \* bounds
  MaxChanges                  \* bound: purchases, revocations, archivals

Lessons == Videos \union Documents
Sessions == 1..MaxSessions
Sequences == 1..MaxSequence
Attempts == 0..(MaxAttempts - 1)

ASSUME LearningAssumption ==
  /\ owner \in [Wallets -> Students]
  /\ Lessons # {} /\ Videos \intersect Documents = {}
  /\ None \notin Wallets \union Lessons \union Sessions
  /\ Duration \in Nat \ {0}
  /\ MaxAttempts \in Nat \ {0}
  /\ MinInterval \in Nat /\ MaxInterval \in Nat
  /\ RatePercent \in Nat /\ Tolerance \in Nat /\ SessionTtl \in Nat
  /\ MaxSessions \in Nat /\ MaxClock \in Nat
  /\ MaxSequence \in Nat /\ MaxChanges \in Nat

VARIABLES
  clock,
  published,                  \* the course is PUBLISHED
  entitlement,                \* of each wallet to the course, on the chain
  session,                    \* LearningSession rows
  events,                     \* LearningEvent rows: accepted heartbeats
  segments,                   \* LearningSegment rows of a student and a video
  lessonWallet,               \* buyerWallet of each LessonCompletion row
  courseWallet,               \* buyerWallet of each CourseCompletion row
  request,                    \* what each API call is doing
  changes                     \* of the projected chain so far

outside == <<clock, published, entitlement, changes>>
results == <<events, segments, lessonWallet, courseWallet>>
vars == <<outside, session, results, request>>

NoSession ==
  [status |-> "NONE", wallet |-> None, lesson |-> None, accessed |-> FALSE,
   createdAt |-> 0, lastSequence |-> 0, lastPosition |-> 0, lastHeartbeat |-> 0]

NewSession(w, l, now) ==
  [status |-> "ACTIVE", wallet |-> w, lesson |-> l, accessed |-> FALSE,
   createdAt |-> now, lastSequence |-> 0, lastPosition |-> 0, lastHeartbeat |-> now]

Idle ==
  [step |-> "idle", wallet |-> None, lesson |-> None, session |-> None,
   sequence |-> 0, position |-> 0, now |-> 0, attempt |-> 0,
   fresh |-> FALSE, done |-> {}, open |-> FALSE]

\* A call of wallet w: the start of a session of lesson l, or a heartbeat or
\* confirmation of session s.
NewCall(step, w, l, s, sequence, position) ==
  [step |-> step, wallet |-> w, lesson |-> l, session |-> s,
   sequence |-> sequence, position |-> position, now |-> clock, attempt |-> 0,
   fresh |-> FALSE, done |-> {}, open |-> FALSE]

SessionRow ==
  [status : {"NONE", "ACTIVE", "EXPIRED", "COMPLETED"},
   wallet : Wallets \union {None}, lesson : Lessons \union {None},
   accessed : BOOLEAN, createdAt : Nat, lastSequence : Nat,
   lastPosition : 0..Duration, lastHeartbeat : Nat]

RequestRow ==
  [step : {"idle", "open", "grant", "begin", "commit"},
   wallet : Wallets \union {None}, lesson : Lessons \union {None},
   session : Sessions \union {None}, sequence : 0..MaxSequence,
   position : Nat, now : Nat, attempt : Attempts, fresh : BOOLEAN,
   done : SUBSET Lessons, open : BOOLEAN]

EventRow ==
  [session : Sessions, sequence : Sequences,
   startMs : 0..Duration, endMs : 0..Duration]

SegmentsTypeOK == segments \in [Students \X Videos -> SUBSET Ranges(Duration)]

RowsTypeOK ==
  /\ clock \in 0..MaxClock
  /\ published \in BOOLEAN
  /\ entitlement \in [Wallets -> {"never", "held", "revoked"}]
  /\ session \in [Sessions -> SessionRow]
  /\ events \subseteq EventRow
  /\ lessonWallet \in [Students \X Lessons -> Wallets \union {None}]
  /\ courseWallet \in [Students -> Wallets \union {None}]
  /\ request \in [Requests -> RequestRow]
  /\ changes \in 0..MaxChanges

TypeOK == RowsTypeOK /\ SegmentsTypeOK

Init ==
  /\ clock = 0
  /\ published = TRUE
  /\ entitlement = [w \in Wallets |-> "never"]
  /\ session = [s \in Sessions |-> NoSession]
  /\ events = {}
  /\ segments = [p \in Students \X Videos |-> {}]
  /\ lessonWallet = [p \in Students \X Lessons |-> None]
  /\ courseWallet = [u \in Students |-> None]
  /\ request = [r \in Requests |-> Idle]
  /\ changes = 0

-----------------------------------------------------------------------------
(* Who may do what.                                                        *)

\* Fault: the entitlement of any wallet of the student will do.
PurchasedByStudent(w) == \E v \in Wallets : owner[v] = owner[w] /\ entitlement[v] = "held"

\* assertPurchased: the projection of the indexer has an entitlement of the
\* wallet of the request that is not revoked.
Purchased(w) == entitlement[w] = "held"


Exists(s) == session[s].status # "NONE"
StudentOf(s) == owner[session[s].wallet]
SessionsOf(u, l) ==
  {s \in Sessions : Exists(s) /\ StudentOf(s) = u /\ session[s].lesson = l}

\* Fault: a session that has not been accessed yet is not replaced.
AccessedSessions(u, l) ==
  {s \in SessionsOf(u, l) : session[s].status = "ACTIVE" /\ session[s].accessed}
ActiveSessions(u, l) == {s \in SessionsOf(u, l) : session[s].status = "ACTIVE"}

\* assertSessionOwner: the user and the wallet of the session.
OwnsSession(w, s) == Exists(s) /\ session[s].wallet = w

\* expiresAt <= now, with the clock the request read before its transaction.
Expired(s, now) == session[s].createdAt + SessionTtl <= now

LessonsDone(u) == {l \in Lessons : lessonWallet[<<u, l>>] # None}

-----------------------------------------------------------------------------
(* The Serializable transactions.                                          *)

\* Fault: transactions are not isolated, one that read old rows commits.
NotIsolated(requests, dependent) == requests

\* The requests, when a transaction commits that changed rows on which the
\* open transactions of some of them depend.
Invalidate(requests, dependent) ==
  [r \in Requests |-> [requests[r] EXCEPT !.fresh = @ /\ r \notin dependent]]

\* A heartbeat or a confirmation changes rows that every other transaction of
\* its student reads; a start changes sessions only.
OfStudent(u) == {r \in Requests : request[r].step = "commit" /\ owner[request[r].wallet] = u}
OnSessions(S) == {r \in Requests : request[r].step = "commit" /\ request[r].session \in S}

CommitBy(r, u) ==
  request' = Invalidate([request EXCEPT ![r] = Idle], OfStudent(u))

Begin(r) ==
  /\ request[r].step = "begin"
  /\ request' = [request EXCEPT
       ![r].step = "commit", ![r].fresh = TRUE,
       ![r].done = LessonsDone(owner[request[r].wallet]), ![r].open = published]
  /\ UNCHANGED <<outside, session, results>>

\* P2034: the transaction is run again, up to MaxAttempts times in all.
SerializationFailure(r) ==
  /\ request[r].step = "commit" /\ ~request[r].fresh
  /\ request[r].attempt < MaxAttempts - 1
  /\ request' = [request EXCEPT ![r].step = "begin", ![r].attempt = @ + 1,
                                ![r].done = {}, ![r].open = FALSE]
  /\ UNCHANGED <<outside, session, results>>

\* The request ends and has changed nothing more: a check fails, a heartbeat
\* is a replay, the last attempt fails, or the process stops.
Fails(r) ==
  /\ request[r].step # "idle"
  /\ request' = [request EXCEPT ![r] = Idle]
  /\ UNCHANGED <<outside, session, results>>

-----------------------------------------------------------------------------
(* startSession                                                            *)

StartSession(r, w, l) ==
  /\ request[r].step = "idle"
  /\ published /\ Purchased(w)
  /\ request' = [request EXCEPT ![r] = NewCall("open", w, l, None, 0, 0)]
  /\ UNCHANGED <<outside, session, results>>

\* The session takes the place of the student's active ones for the lesson.
OpenSession(r) ==
  LET w == request[r].wallet
      l == request[r].lesson
      active == ActiveSessions(owner[w], l)
  IN  /\ request[r].step = "open"
      /\ \E s \in Sessions :
           /\ ~Exists(s) /\ \A t \in Sessions : t < s => Exists(t)
           /\ session' = [t \in Sessions |->
                CASE t = s -> NewSession(w, l, request[r].now)
                  [] t \in active -> [session[t] EXCEPT !.status = "EXPIRED"]
                  [] OTHER -> session[t]]
           /\ request' = Invalidate(
                [request EXCEPT ![r].step = "grant", ![r].session = s],
                OnSessions(active))
      /\ UNCHANGED <<outside, results>>

\* The read URL is signed and the session is marked as accessed, unless
\* another start has expired it.
GrantAccess(r) ==
  LET s == request[r].session
  IN  /\ request[r].step = "grant"
      /\ session[s].status = "ACTIVE"
      /\ session' = [session EXCEPT ![s].accessed = TRUE]
      /\ request' = Invalidate([request EXCEPT ![r] = Idle], OnSessions({s}))
      /\ UNCHANGED <<outside, results>>

SignReadFails(r) ==
  LET s == request[r].session
  IN  /\ request[r].step = "grant"
      /\ session[s].status = "ACTIVE" /\ ~session[s].accessed
      /\ session' = [session EXCEPT ![s].status = "EXPIRED"]
      /\ request' = Invalidate([request EXCEPT ![r] = Idle], OnSessions({s}))
      /\ UNCHANGED <<outside, results>>

-----------------------------------------------------------------------------
(* maybeCreateCompletion, the end of both transactions.                    *)

Certified(u, w) == courseWallet[u] # None \/ \E v \in Students : courseWallet[v] = w

\* The course completion and its certificate.mint row are written with the
\* last lesson completion; the whole transaction fails when the course was
\* not PUBLISHED as it began.
CompleteCourse(u, w, done, open) ==
  IF Lessons \subseteq done /\ ~Certified(u, w)
  THEN open /\ courseWallet' = [courseWallet EXCEPT ![u] = w]
  ELSE UNCHANGED courseWallet

\* LessonCompletion.upsert with an empty update.
CompleteLesson(u, l, w) ==
  lessonWallet' = [lessonWallet EXCEPT ![<<u, l>>] = IF @ = None THEN w ELSE @]

-----------------------------------------------------------------------------
(* Heartbeats of a video                                                   *)

Heartbeat(r, w, s, sequence, position) ==
  /\ request[r].step = "idle"
  /\ OwnsSession(w, s) /\ Purchased(w)
  /\ request' = [request EXCEPT ![r] =
                   NewCall("begin", w, None, s, sequence, position)]
  /\ UNCHANGED <<outside, session, results>>

\* decideHeartbeat answers PLAYING: not the first heartbeat, at a plausible
\* distance in time and in position from the one before.  BASELINE, STALE,
\* PAUSED and SEEK are the other answers, none of which counts.
Playing(s, position, now) ==
  LET elapsed == now - session[s].lastHeartbeat
      delta == position - session[s].lastPosition
  IN  /\ session[s].lastSequence # 0
      /\ elapsed >= MinInterval /\ elapsed <= MaxInterval
      /\ delta > 0
      /\ 100 * delta <= elapsed * RatePercent + 100 * Tolerance

\* Fault: a position beyond the end counts.
InOrderBeyondEnd(r) ==
  LET q == request[r]
      s == q.session
  IN  /\ q.step = "commit" /\ q.fresh
      /\ session[s].lesson \in Videos
      /\ session[s].status = "ACTIVE" /\ session[s].accessed
      /\ q.sequence = session[s].lastSequence + 1

\* The heartbeat is the next one of a session that can be played.
InOrder(r) ==
  LET q == request[r]
      s == q.session
  IN  /\ q.step = "commit" /\ q.fresh
      /\ session[s].lesson \in Videos
      /\ session[s].status = "ACTIVE" /\ session[s].accessed
      /\ ~Expired(s, q.now)
      /\ q.position <= Duration
      /\ q.sequence = session[s].lastSequence + 1

\* The session after the heartbeat of request q.
Beaten(s, q, status) ==
  [session EXCEPT ![s] =
     [status |-> status, wallet |-> @.wallet, lesson |-> @.lesson,
      accessed |-> @.accessed, createdAt |-> @.createdAt,
      lastSequence |-> q.sequence, lastPosition |-> q.position,
      lastHeartbeat |-> q.now]]

CommitUncounted(r) ==
  LET q == request[r]
  IN  /\ InOrder(r)
      /\ ~Playing(q.session, q.position, q.now)
      /\ session' = Beaten(q.session, q, "ACTIVE")
      /\ CommitBy(r, owner[q.wallet])
      /\ UNCHANGED <<outside, results>>

CommitPlayed(r) ==
  LET q == request[r]
      s == q.session
      u == owner[q.wallet]
      l == session[s].lesson
      range == [startMs |-> session[s].lastPosition, endMs |-> q.position]
      merged == MergeRanges(segments[<<u, l>>] \union {range})
  IN  /\ InOrder(r)
      /\ Playing(s, q.position, q.now)
      /\ events' = events \union
           {[session |-> s, sequence |-> q.sequence,
             startMs |-> range.startMs, endMs |-> range.endMs]}
      /\ segments' = [segments EXCEPT ![<<u, l>>] = merged]
      /\ IF LessonIsComplete(merged, Duration)
         THEN /\ CompleteLesson(u, l, q.wallet)
              /\ CompleteCourse(u, q.wallet, q.done \union {l}, q.open)
              /\ session' = Beaten(s, q, "COMPLETED")
         ELSE /\ session' = Beaten(s, q, "ACTIVE")
              /\ UNCHANGED <<lessonWallet, courseWallet>>
      /\ CommitBy(r, u)
      /\ UNCHANGED outside

-----------------------------------------------------------------------------
(* Confirmation of a document                                              *)

ConfirmDocument(r, w, s) ==
  /\ request[r].step = "idle"
  /\ OwnsSession(w, s) /\ Purchased(w)
  /\ request' = [request EXCEPT ![r] = NewCall("begin", w, None, s, 0, 0)]
  /\ UNCHANGED <<outside, session, results>>

\* Fault: the document need not have been opened.
ConfirmableUnread(r) ==
  LET q == request[r]
      s == q.session
  IN  /\ q.step = "commit" /\ q.fresh /\ q.sequence = 0
      /\ session[s].lesson \in Documents
      /\ session[s].status \in {"ACTIVE", "COMPLETED"}

\* A confirmation may be repeated, by a session that is already COMPLETED.
Confirmable(r) ==
  LET q == request[r]
      s == q.session
  IN  /\ q.step = "commit" /\ q.fresh /\ q.sequence = 0
      /\ session[s].lesson \in Documents
      /\ session[s].accessed /\ ~Expired(s, q.now)
      /\ session[s].status \in {"ACTIVE", "COMPLETED"}

CommitConfirmation(r) ==
  LET q == request[r]
      s == q.session
      u == owner[q.wallet]
      l == session[s].lesson
  IN  /\ Confirmable(r)
      /\ CompleteLesson(u, l, q.wallet)
      /\ CompleteCourse(u, q.wallet, q.done \union {l}, q.open)
      /\ session' = [session EXCEPT ![s].status = "COMPLETED"]
      /\ CommitBy(r, u)
      /\ UNCHANGED <<outside, events, segments>>

-----------------------------------------------------------------------------
(* The rest of the system                                                  *)

Tick ==
  /\ clock < MaxClock
  /\ clock' = clock + 1
  /\ UNCHANGED <<published, entitlement, session, results, request, changes>>

\* The indexers of the worker project the chain.
Projected ==
  /\ changes < MaxChanges
  /\ changes' = changes + 1
  /\ UNCHANGED <<clock, session, results, request>>

ToggleCourse == Projected /\ published' = ~published /\ UNCHANGED entitlement

Purchase(w) ==
  /\ Projected
  /\ entitlement[w] # "held"
  /\ entitlement' = [entitlement EXCEPT ![w] = "held"]
  /\ UNCHANGED published

Revoke(w) ==
  /\ Projected
  /\ Purchased(w)
  /\ entitlement' = [entitlement EXCEPT ![w] = "revoked"]
  /\ UNCHANGED published

Call(r) ==
  \/ \E w \in Wallets, l \in Lessons : StartSession(r, w, l)
  \/ \E w \in Wallets, s \in Sessions, sequence \in Sequences, position \in 0..(Duration + 1) :
       Heartbeat(r, w, s, sequence, position)
  \/ \E w \in Wallets, s \in Sessions : ConfirmDocument(r, w, s)

Step(r) ==
  \/ OpenSession(r) \/ GrantAccess(r) \/ SignReadFails(r)
  \/ Begin(r) \/ SerializationFailure(r)
  \/ CommitUncounted(r) \/ CommitPlayed(r) \/ CommitConfirmation(r)

Next ==
  \/ \E r \in Requests : Call(r) \/ Step(r) \/ Fails(r)
  \/ Tick \/ ToggleCourse
  \/ \E w \in Wallets : Purchase(w) \/ Revoke(w)

Spec == Init /\ [][Next]_vars

-----------------------------------------------------------------------------
(* Properties                                                              *)

\* The positions of a video that a student's accepted heartbeats played, in
\* all sessions.
Watched(u, v) ==
  Positions({e \in events : StudentOf(e.session) = u /\ session[e.session].lesson = v})

\* A student has at most one ACTIVE session of a lesson, however starts,
\* failed signatures and commits interleave.
OneActiveSession ==
  \A u \in Students, l \in Lessons :
    \A s, t \in SessionsOf(u, l) :
      session[s].status = "ACTIVE" /\ session[t].status = "ACTIVE" => s = t

\* The stored segments of a video, merged and rewritten by every accepted
\* heartbeat of every session, are exactly what the event rows played, and
\* no position is stored twice.
SegmentsAreWatched ==
  \A u \in Students, v \in Videos :
    /\ Positions(segments[<<u, v>>]) = Watched(u, v)
    /\ Normal(segments[<<u, v>>])

\* A video is completed exactly when 95% of it was played.
VideosAreEarned ==
  \A u \in Students, v \in Videos :
    lessonWallet[<<u, v>>] # None <=> 100 * Cardinality(Watched(u, v)) >= 95 * Duration

\* A document is completed only through a session of its student that was
\* granted access, whatever starts and confirmations were going on.
DocumentsAreEarned ==
  \A u \in Students, d \in Documents :
    lessonWallet[<<u, d>>] # None =>
      \E s \in SessionsOf(u, d) : session[s].status = "COMPLETED" /\ session[s].accessed

\* A student has a course completion, with its mint, exactly when every
\* required lesson is completed: two transactions that complete the last two
\* lessons at the same time cannot miss each other.
CertifiedWhenDone ==
  \A u \in Students : courseWallet[u] # None <=> LessonsDone(u) = Lessons

\* Every completion names a wallet of its student that has bought the course
\* at some time.
CertificatesGoToBuyers ==
  /\ \A u \in Students : courseWallet[u] # None =>
       owner[courseWallet[u]] = u /\ entitlement[courseWallet[u]] # "never"
  /\ \A u \in Students, l \in Lessons : lessonWallet[<<u, l>>] # None =>
       owner[lessonWallet[<<u, l>>]] = u /\ entitlement[lessonWallet[<<u, l>>]] # "never"

\* A session that has ended stays as it is: no late heartbeat, confirmation,
\* grant or failed signature touches it, and completions are never taken back.
EndedSessionsStay ==
  [][/\ \A s \in Sessions : session[s].status \in {"EXPIRED", "COMPLETED"} =>
          session'[s] = session[s]
     /\ \A u \in Students :
          /\ courseWallet[u] # None => courseWallet'[u] = courseWallet[u]
          /\ \A l \in Lessons : lessonWallet[<<u, l>>] # None =>
               lessonWallet'[<<u, l>>] = lessonWallet[<<u, l>>]]_vars

\* The positions a session has counted are no more than the server time that
\* has passed since it was opened allows, at the accepted rate and with the
\* tolerance of each counted heartbeat.
PlaybackFitsServerTime ==
  \A s \in Sessions : Exists(s) =>
    LET counted == {e \in events : e.session = s}
    IN  100 * Cardinality(Positions(counted)) <=
          (clock - session[s].createdAt) * RatePercent
          + 100 * Tolerance * Cardinality(counted)
=============================================================================
