----------------------- MODULE LearningSessionsProofs -----------------------
(***************************************************************************)
(* Theorems of LearningSessions, for any number of students, wallets,      *)
(* lessons, sessions and requests, and any heartbeat policy.               *)
(***************************************************************************)
EXTENDS LearningSessions, CoverageRangesProofs

USE LearningAssumption DEF Lessons, Sessions, Sequences, Attempts

\* The API calls keep the wallet and the session they were authorised for.
RequestsSound ==
  \A r \in Requests :
    /\ request[r].step # "idle" =>
         /\ request[r].wallet \in Wallets
         /\ entitlement[request[r].wallet] # "never"
    /\ request[r].step = "open" => request[r].lesson \in Lessons
    /\ request[r].step \in {"grant", "begin", "commit"} =>
         /\ request[r].session \in Sessions
         /\ Exists(request[r].session)
         /\ session[request[r].session].wallet = request[r].wallet

SessionsSound ==
  \A s \in Sessions : Exists(s) =>
    /\ session[s].wallet \in Wallets
    /\ entitlement[session[s].wallet] # "never"
    /\ session[s].lesson \in Lessons

Base == RowsTypeOK /\ RequestsSound /\ SessionsSound

LEMMA BaseInit == Init => Base
  <1> SUFFICES ASSUME Init PROVE Base OBVIOUS
  <1>1. NoSession \in SessionRow BY DEF NoSession, SessionRow
  <1>2. Idle \in RequestRow BY DEF Idle, RequestRow
  <1>3. RowsTypeOK BY <1>1, <1>2 DEF Init, RowsTypeOK
  <1>4. RequestsSound BY DEF Init, RequestsSound, Idle
  <1>5. SessionsSound BY DEF Init, SessionsSound, Exists, NoSession
  <1> QED BY <1>3, <1>4, <1>5 DEF Base

-----------------------------------------------------------------------------
(* What a step does to the rows, field by field.                           *)

\* A call goes on as it was, except that its snapshot may be out of date.
SameCall(r) ==
  /\ request'[r].step = request[r].step
  /\ request'[r].wallet = request[r].wallet
  /\ request'[r].lesson = request[r].lesson
  /\ request'[r].session = request[r].session
  /\ request'[r].done = request[r].done
  /\ request'[r].fresh => request[r].fresh

SoundCall(r) ==
  /\ request[r].step # "idle" =>
       /\ request[r].wallet \in Wallets
       /\ entitlement[request[r].wallet] # "never"
  /\ request[r].step = "open" => request[r].lesson \in Lessons
  /\ request[r].step \in {"grant", "begin", "commit"} =>
       /\ request[r].session \in Sessions
       /\ Exists(request[r].session)
       /\ session[request[r].session].wallet = request[r].wallet

\* Sessions that exist keep their wallet and lesson.
SessionsKept ==
  \A s \in Sessions : Exists(s) =>
    /\ session'[s].status # "NONE"
    /\ session'[s].wallet = session[s].wallet
    /\ session'[s].lesson = session[s].lesson

NewSessionsSound ==
  \A s \in Sessions : ~Exists(s) /\ session'[s].status # "NONE" =>
    /\ session'[s].wallet \in Wallets
    /\ entitlement'[session'[s].wallet] # "never"
    /\ session'[s].lesson \in Lessons

BoughtKept ==
  \A w \in Wallets : entitlement[w] # "never" => entitlement'[w] # "never"

LEMMA BaseKept ==
  ASSUME Base, RowsTypeOK', SessionsKept, NewSessionsSound, BoughtKept,
         \A r \in Requests : SameCall(r) \/ SoundCall(r)'
  PROVE  Base'
<1>1. SessionsSound'
  BY DEF Base, SessionsSound, SessionsKept, NewSessionsSound, BoughtKept, Exists
<1>2. ASSUME NEW r \in Requests PROVE SoundCall(r)'
  <2>1. SoundCall(r) BY DEF Base, RequestsSound, SoundCall
  <2>2. CASE SameCall(r)
    BY <2>1, <2>2 DEF SoundCall, SameCall, SessionsKept, BoughtKept, Exists
  <2> QED BY <2>2
<1>3. RequestsSound' BY <1>2 DEF RequestsSound, SoundCall
<1> QED BY <1>1, <1>3 DEF Base

LEMMA InvalidateFields ==
  ASSUME NEW requests \in [Requests -> RequestRow], NEW dependent,
         request' = Invalidate(requests, dependent)
  PROVE  /\ request' \in [Requests -> RequestRow]
         /\ \A r \in Requests :
              /\ request'[r].step = requests[r].step
              /\ request'[r].wallet = requests[r].wallet
              /\ request'[r].lesson = requests[r].lesson
              /\ request'[r].session = requests[r].session
              /\ request'[r].done = requests[r].done
              /\ request'[r].fresh => requests[r].fresh /\ r \notin dependent
<1>1. ASSUME NEW r \in Requests
      PROVE  LET row == [requests[r] EXCEPT !.fresh = @ /\ r \notin dependent]
             IN  /\ row \in RequestRow
                 /\ row.step = requests[r].step /\ row.wallet = requests[r].wallet
                 /\ row.lesson = requests[r].lesson /\ row.session = requests[r].session
                 /\ row.done = requests[r].done
                 /\ row.fresh => requests[r].fresh /\ r \notin dependent
  <2> DEFINE fresh == requests[r].fresh /\ r \notin dependent
  <2>1. requests[r] \in RequestRow /\ fresh \in BOOLEAN
    BY DEF RequestRow
  <2> HIDE DEF fresh
  <2>2. LET row == [requests[r] EXCEPT !.fresh = fresh]
        IN  /\ row \in RequestRow /\ row.fresh = fresh
            /\ row.step = requests[r].step /\ row.wallet = requests[r].wallet
            /\ row.lesson = requests[r].lesson /\ row.session = requests[r].session
            /\ row.done = requests[r].done
    BY <2>1 DEF RequestRow
  <2> QED BY <2>2 DEF fresh
<1>2. \A r \in Requests :
        request'[r] = [requests[r] EXCEPT !.fresh = @ /\ r \notin dependent]
  BY DEF Invalidate
<1>3. request' = [r \in Requests |-> request'[r]]
  BY DEF Invalidate
<1>4. request' \in [Requests -> RequestRow]
  BY <1>1, <1>2, <1>3
<1> QED BY <1>1, <1>2, <1>4

LEMMA IdleRow == Idle \in RequestRow /\ Idle.step = "idle"
  BY DEF Idle, RequestRow

\* Ending a call and invalidating others.
LEMMA EndFields ==
  ASSUME RowsTypeOK, NEW r \in Requests, NEW dependent,
         request' = Invalidate([request EXCEPT ![r] = Idle], dependent)
  PROVE  /\ request' \in [Requests -> RequestRow]
         /\ request'[r].step = "idle"
         /\ \A q \in Requests \ {r} :
              SameCall(q) /\ (request'[q].fresh => q \notin dependent)
<1>1. [request EXCEPT ![r] = Idle] \in [Requests -> RequestRow]
  BY IdleRow DEF RowsTypeOK
<1>2. /\ request' \in [Requests -> RequestRow]
      /\ \A q \in Requests :
           /\ request'[q].step = [request EXCEPT ![r] = Idle][q].step
           /\ request'[q].wallet = [request EXCEPT ![r] = Idle][q].wallet
           /\ request'[q].lesson = [request EXCEPT ![r] = Idle][q].lesson
           /\ request'[q].session = [request EXCEPT ![r] = Idle][q].session
           /\ request'[q].done = [request EXCEPT ![r] = Idle][q].done
           /\ request'[q].fresh => [request EXCEPT ![r] = Idle][q].fresh /\ q \notin dependent
  BY <1>1, InvalidateFields
<1>3. [request EXCEPT ![r] = Idle][r] = Idle
  BY DEF RowsTypeOK
<1>4. \A q \in Requests \ {r} : [request EXCEPT ![r] = Idle][q] = request[q]
  BY DEF RowsTypeOK
<1> DEFINE ended == [request EXCEPT ![r] = Idle]
<1>5. r \in Requests /\ request'[r].step = ended[r].step /\ ended[r].step = "idle"
  BY <1>2, <1>3, IdleRow
<1>6. ASSUME NEW q \in Requests \ {r}
      PROVE  SameCall(q) /\ (request'[q].fresh => q \notin dependent)
  <2>1. ended[q] = request[q]
    BY <1>4
  <2> HIDE DEF ended
  <2>2. /\ request'[q].step = ended[q].step /\ request'[q].wallet = ended[q].wallet
        /\ request'[q].lesson = ended[q].lesson /\ request'[q].session = ended[q].session
        /\ request'[q].done = ended[q].done
        /\ request'[q].fresh => ended[q].fresh /\ q \notin dependent
    BY <1>2 DEF ended
  <2> QED BY <2>1, <2>2 DEF SameCall
<1> QED BY <1>2, <1>5, <1>6

-----------------------------------------------------------------------------
(* Steps that change nothing but their own call.                           *)

FreshSnapshot(r) ==
  request[r].step = "commit" /\ request[r].fresh =>
    request[r].done = LessonsDone(owner[request[r].wallet])

QuietEffect(r) ==
  /\ UNCHANGED <<outside, session, results>>
  /\ request' \in [Requests -> RequestRow]
  /\ \A q \in Requests \ {r} : request'[q] = request[q]
  /\ SoundCall(r)'
  /\ FreshSnapshot(r)'

\* A new call of a wallet that has bought the course.
LEMMA IssueEffect ==
  ASSUME Base, NEW r \in Requests, NEW w \in Wallets, Purchased(w),
         NEW row \in RequestRow, row.wallet = w,
         \/ row.step = "open" /\ row.lesson \in Lessons
         \/ row.step = "begin" /\ row.session \in Sessions /\ OwnsSession(w, row.session),
         request' = [request EXCEPT ![r] = row],
         UNCHANGED <<outside, session, results>>
  PROVE  QuietEffect(r)
<1>1. request'[r] = row /\ request' \in [Requests -> RequestRow]
      /\ \A q \in Requests \ {r} : request'[q] = request[q]
  BY DEF Base, RowsTypeOK
<1>2. SoundCall(r)' /\ FreshSnapshot(r)'
  BY <1>1 DEF SoundCall, FreshSnapshot, Purchased, OwnsSession, Exists, outside
<1> QED BY <1>1, <1>2 DEF QuietEffect

LEMMA CallEffect ==
  ASSUME Base, NEW r \in Requests, Call(r)
  PROVE  QuietEffect(r)
<1>0. clock \in Nat
  BY DEF Base, RowsTypeOK
<1>1. ASSUME NEW w \in Wallets, NEW l \in Lessons, StartSession(r, w, l)
      PROVE  QuietEffect(r)
  <2> DEFINE row == NewCall("open", w, l, None, 0, 0)
  <2>1. row \in RequestRow /\ row.step = "open" /\ row.wallet = w /\ row.lesson = l
    BY <1>0 DEF NewCall, RequestRow
  <2>2. request' = [request EXCEPT ![r] = row] /\ Purchased(w)
        /\ UNCHANGED <<outside, session, results>>
    BY <1>1 DEF StartSession
  <2> QED BY <2>1, <2>2, IssueEffect
<1>2. ASSUME NEW w \in Wallets, NEW s \in Sessions, NEW n \in Sequences,
             NEW x \in 0..(Duration + 1), Heartbeat(r, w, s, n, x)
      PROVE  QuietEffect(r)
  <2> DEFINE row == NewCall("begin", w, None, s, n, x)
  <2>1. row \in RequestRow /\ row.step = "begin" /\ row.wallet = w /\ row.session = s
    BY <1>0 DEF NewCall, RequestRow
  <2>2. request' = [request EXCEPT ![r] = row] /\ Purchased(w) /\ OwnsSession(w, s)
        /\ UNCHANGED <<outside, session, results>>
    BY <1>2 DEF Heartbeat
  <2> QED BY <2>1, <2>2, IssueEffect
<1>3. ASSUME NEW w \in Wallets, NEW s \in Sessions, ConfirmDocument(r, w, s)
      PROVE  QuietEffect(r)
  <2> DEFINE row == NewCall("begin", w, None, s, 0, 0)
  <2>1. row \in RequestRow /\ row.step = "begin" /\ row.wallet = w /\ row.session = s
    BY <1>0 DEF NewCall, RequestRow
  <2>2. request' = [request EXCEPT ![r] = row] /\ Purchased(w) /\ OwnsSession(w, s)
        /\ UNCHANGED <<outside, session, results>>
    BY <1>3 DEF ConfirmDocument
  <2> QED BY <2>1, <2>2, IssueEffect
<1> QED BY <1>1, <1>2, <1>3 DEF Call

LEMMA SetStep ==
  ASSUME NEW row \in RequestRow, NEW x \in {"idle", "open", "grant", "begin", "commit"}
  PROVE  LET new == [row EXCEPT !.step = x]
         IN  /\ new \in RequestRow /\ new.step = x
             /\ new.wallet = row.wallet /\ new.session = row.session
             /\ new.lesson = row.lesson
  BY DEF RequestRow

LEMMA SetFresh ==
  ASSUME NEW row \in RequestRow
  PROVE  LET new == [row EXCEPT !.fresh = TRUE]
         IN  /\ new \in RequestRow /\ new.fresh
             /\ new.wallet = row.wallet /\ new.session = row.session
             /\ new.step = row.step
  BY DEF RequestRow

LEMMA SetDone ==
  ASSUME NEW row \in RequestRow, NEW x \in SUBSET Lessons
  PROVE  LET new == [row EXCEPT !.done = x]
         IN  /\ new \in RequestRow /\ new.done = x
             /\ new.wallet = row.wallet /\ new.session = row.session
             /\ new.step = row.step /\ new.fresh = row.fresh
  BY DEF RequestRow

LEMMA SetOpen ==
  ASSUME NEW row \in RequestRow, NEW x \in BOOLEAN
  PROVE  LET new == [row EXCEPT !.open = x]
         IN  /\ new \in RequestRow /\ new.done = row.done
             /\ new.wallet = row.wallet /\ new.session = row.session
             /\ new.step = row.step /\ new.fresh = row.fresh
  BY DEF RequestRow

LEMMA SetAttempt ==
  ASSUME NEW row \in RequestRow, NEW x \in Attempts
  PROVE  LET new == [row EXCEPT !.attempt = x]
         IN  /\ new \in RequestRow
             /\ new.wallet = row.wallet /\ new.session = row.session
             /\ new.step = row.step
  BY DEF RequestRow

LEMMA BeginEffect ==
  ASSUME Base, NEW r \in Requests, Begin(r)
  PROVE  QuietEffect(r)
<1> DEFINE row1 == [request[r] EXCEPT !.step = "commit"]
           row2 == [row1 EXCEPT !.fresh = TRUE]
           row3 == [row2 EXCEPT !.done = LessonsDone(owner[request[r].wallet])]
           row == [row3 EXCEPT !.open = published]
<1>1. request' = [request EXCEPT ![r] = row]
  BY DEF Begin, Base, RowsTypeOK
<1>2. LessonsDone(owner[request[r].wallet]) \in SUBSET Lessons
  BY DEF LessonsDone
<1>3. /\ row \in RequestRow /\ row.step = "commit" /\ row.fresh
      /\ row.wallet = request[r].wallet /\ row.session = request[r].session
      /\ row.done = LessonsDone(owner[request[r].wallet])
  <2>1. request[r] \in RequestRow
    BY DEF Base, RowsTypeOK
  <2>2. /\ row1 \in RequestRow /\ row1.step = "commit"
        /\ row1.wallet = request[r].wallet /\ row1.session = request[r].session
    BY <2>1, SetStep
  <2> HIDE DEF row1
  <2>3. /\ row2 \in RequestRow /\ row2.step = "commit" /\ row2.fresh
        /\ row2.wallet = request[r].wallet /\ row2.session = request[r].session
    BY <2>2, SetFresh
  <2> HIDE DEF row2
  <2>4. /\ row3 \in RequestRow /\ row3.step = "commit" /\ row3.fresh
        /\ row3.wallet = request[r].wallet /\ row3.session = request[r].session
        /\ row3.done = LessonsDone(owner[request[r].wallet])
    BY <1>2, <2>3, SetDone
  <2>5. published \in BOOLEAN
    BY DEF Base, RowsTypeOK
  <2> HIDE DEF row3
  <2> QED BY <2>4, <2>5, SetOpen
<1> HIDE DEF row
<1>4. request'[r] = row /\ request' \in [Requests -> RequestRow]
      /\ \A q \in Requests \ {r} : request'[q] = request[q]
  BY <1>1, <1>3 DEF Base, RowsTypeOK
<1>5. SoundCall(r) /\ request[r].step = "begin"
  BY DEF Begin, Base, RequestsSound, SoundCall
<1>6. UNCHANGED <<outside, session, results>>
  BY DEF Begin
<1>7. FreshSnapshot(r)'
  BY <1>3, <1>4, <1>6 DEF FreshSnapshot, LessonsDone, results
<1>8. SoundCall(r)'
  BY <1>3, <1>4, <1>5, <1>6 DEF SoundCall, Exists, outside
<1> QED BY <1>4, <1>6, <1>7, <1>8 DEF QuietEffect

LEMMA RetryEffect ==
  ASSUME Base, NEW r \in Requests, SerializationFailure(r)
  PROVE  QuietEffect(r)
<1> DEFINE row1 == [request[r] EXCEPT !.step = "begin"]
           row2 == [row1 EXCEPT !.attempt = request[r].attempt + 1]
           row3 == [row2 EXCEPT !.done = {}]
           row == [row3 EXCEPT !.open = FALSE]
<1>1. request' = [request EXCEPT ![r] = row]
  BY DEF SerializationFailure, Base, RowsTypeOK
<1>2. request[r] \in RequestRow
  BY DEF Base, RowsTypeOK
<1>3. request[r].attempt + 1 \in Attempts
  BY <1>2 DEF SerializationFailure, RequestRow
<1>4. /\ row \in RequestRow /\ row.step = "begin"
      /\ row.wallet = request[r].wallet /\ row.session = request[r].session
  <2>1. /\ row1 \in RequestRow /\ row1.step = "begin"
        /\ row1.wallet = request[r].wallet /\ row1.session = request[r].session
    BY <1>2, SetStep
  <2> HIDE DEF row1
  <2>2. /\ row2 \in RequestRow /\ row2.step = "begin"
        /\ row2.wallet = request[r].wallet /\ row2.session = request[r].session
    BY <1>3, <2>1, SetAttempt
  <2> HIDE DEF row2
  <2>3. /\ row3 \in RequestRow /\ row3.step = "begin"
        /\ row3.wallet = request[r].wallet /\ row3.session = request[r].session
    BY <2>2, SetDone
  <2> HIDE DEF row3
  <2> QED BY <2>3, SetOpen
<1> HIDE DEF row
<1>5. request'[r] = row /\ request' \in [Requests -> RequestRow]
      /\ \A q \in Requests \ {r} : request'[q] = request[q]
  BY <1>1, <1>4 DEF Base, RowsTypeOK
<1>6. SoundCall(r) /\ request[r].step = "commit"
  BY DEF SerializationFailure, Base, RequestsSound, SoundCall
<1>7. UNCHANGED <<outside, session, results>>
  BY DEF SerializationFailure
<1>8. SoundCall(r)' /\ FreshSnapshot(r)'
  BY <1>4, <1>5, <1>6, <1>7 DEF SoundCall, FreshSnapshot, Exists, outside
<1> QED BY <1>5, <1>7, <1>8 DEF QuietEffect

LEMMA FailEffect ==
  ASSUME Base, NEW r \in Requests, Fails(r)
  PROVE  QuietEffect(r)
  BY IdleRow DEF Fails, QuietEffect, SoundCall, FreshSnapshot, Base, RowsTypeOK

LEMMA QuietSteps ==
  ASSUME Base, NEW r \in Requests,
         Call(r) \/ Begin(r) \/ SerializationFailure(r) \/ Fails(r)
  PROVE  QuietEffect(r)
  BY CallEffect, BeginEffect, RetryEffect, FailEffect

LEMMA QuietBase ==
  ASSUME Base, NEW r \in Requests, QuietEffect(r)
  PROVE  Base'
<1>1. RowsTypeOK'
  BY DEF Base, RowsTypeOK, QuietEffect, outside, results
<1>2. SessionsKept /\ NewSessionsSound /\ BoughtKept
  BY DEF QuietEffect, SessionsKept, NewSessionsSound, BoughtKept, Exists, outside
<1>3. \A q \in Requests : SameCall(q) \/ SoundCall(q)'
  BY DEF QuietEffect, SameCall
<1> QED BY <1>1, <1>2, <1>3, BaseKept

-----------------------------------------------------------------------------
(* Steps that change sessions.                                             *)

EndedKept ==
  \A s \in Sessions : session[s].status \in {"EXPIRED", "COMPLETED"} =>
    session'[s] = session[s]

\* Sessions become ACTIVE only by a start, which leaves no other one ACTIVE.
ActiveSound ==
  \A s \in Sessions : session'[s].status = "ACTIVE" =>
    \/ session[s].status = "ACTIVE"
    \/ \A t \in Sessions \ {s} :
         /\ session'[t].status = "ACTIVE"
         /\ session'[t].lesson = session'[s].lesson
         => owner[session'[t].wallet] # owner[session'[s].wallet]

\* Call r has changed sessions.
SessionEffect(r) ==
  /\ session' \in [Sessions -> SessionRow]
  /\ SessionsKept /\ NewSessionsSound /\ EndedKept /\ ActiveSound
  /\ request' \in [Requests -> RequestRow]
  /\ \A q \in Requests \ {r} : SameCall(q)
  /\ SoundCall(r)'
  /\ request'[r].step # "commit"
  /\ UNCHANGED outside

LEMMA SessionBase ==
  ASSUME Base, NEW r \in Requests, SessionEffect(r),
         events' \subseteq EventRow,
         lessonWallet' \in [Students \X Lessons -> Wallets \union {None}],
         courseWallet' \in [Students -> Wallets \union {None}]
  PROVE  Base'
<1>1. RowsTypeOK'
  BY DEF Base, RowsTypeOK, SessionEffect, outside
<1>2. SessionsKept /\ NewSessionsSound /\ BoughtKept
  BY DEF SessionEffect, BoughtKept, outside
<1>3. \A q \in Requests : SameCall(q) \/ SoundCall(q)'
  BY DEF SessionEffect
<1> QED BY <1>1, <1>2, <1>3, BaseKept

LEMMA OpenEffect ==
  ASSUME Base, NEW r \in Requests, OpenSession(r)
  PROVE  SessionEffect(r) /\ UNCHANGED results
<1> DEFINE w == request[r].wallet
           l == request[r].lesson
           active == ActiveSessions(owner[w], l)
           new == NewSession(w, l, request[r].now)
<1>1. PICK s \in Sessions :
        /\ ~Exists(s)
        /\ session' = [t \in Sessions |->
             CASE t = s -> new
               [] t \in active -> [session[t] EXCEPT !.status = "EXPIRED"]
               [] OTHER -> session[t]]
        /\ request' = Invalidate(
             [request EXCEPT ![r].step = "grant", ![r].session = s], OnSessions(active))
  BY DEF OpenSession
<1>2. /\ request[r].step = "open" /\ w \in Wallets /\ l \in Lessons
      /\ entitlement[w] # "never" /\ request[r] \in RequestRow
      /\ session \in [Sessions -> SessionRow]
  BY DEF OpenSession, Base, RowsTypeOK, RequestsSound
<1>3. /\ new \in SessionRow /\ new.status = "ACTIVE"
      /\ new.wallet = w /\ new.lesson = l
  BY <1>2 DEF NewSession, SessionRow, RequestRow
<1>4. \A t \in active : t \in Sessions /\ Exists(t) /\ session[t].status = "ACTIVE"
  BY DEF ActiveSessions, SessionsOf
<1> HIDE DEF new, active
<1>5. \A t \in Sessions : LET row == [session[t] EXCEPT !.status = "EXPIRED"]
        IN  /\ row \in SessionRow /\ row.status = "EXPIRED"
            /\ row.wallet = session[t].wallet /\ row.lesson = session[t].lesson
  <2> SUFFICES ASSUME NEW t \in Sessions, NEW old \in SessionRow, old = session[t]
               PROVE  LET row == [old EXCEPT !.status = "EXPIRED"]
                      IN  /\ row \in SessionRow /\ row.status = "EXPIRED"
                          /\ row.wallet = old.wallet /\ row.lesson = old.lesson
    BY <1>2
  <2> QED BY DEF SessionRow
<1>6. /\ session'[s] = new
      /\ \A t \in Sessions \ {s} :
           /\ t \in active => /\ session'[t] \in SessionRow
                              /\ session'[t].status = "EXPIRED"
                              /\ session'[t].wallet = session[t].wallet
                              /\ session'[t].lesson = session[t].lesson
           /\ t \notin active => session'[t] = session[t]
      /\ s \notin active
  BY <1>1, <1>4, <1>5
<1>7. session' \in [Sessions -> SessionRow]
  BY <1>1, <1>2, <1>3, <1>5
<1>8. UNCHANGED <<outside, results>>
  BY DEF OpenSession
<1>9. SessionsKept /\ EndedKept
  BY <1>1, <1>4, <1>6 DEF SessionsKept, EndedKept, Exists
<1>10. NewSessionsSound
  BY <1>1, <1>2, <1>3, <1>4, <1>6, <1>8 DEF NewSessionsSound, Exists, outside
<1>11. ActiveSound
  <2>1. ASSUME NEW t \in Sessions \ {s}, session'[t].status = "ACTIVE",
               session'[t].lesson = l, owner[session'[t].wallet] = owner[w]
        PROVE  FALSE
    <3>1. t \notin active /\ session'[t] = session[t]
      BY <1>6, <2>1
    <3>2. t \in active
      BY <2>1, <3>1 DEF active, ActiveSessions, SessionsOf, Exists, StudentOf
    <3> QED BY <3>1, <3>2
  <2>2. ASSUME NEW t \in Sessions \ {s}, session'[t].status = "ACTIVE"
        PROVE  session[t].status = "ACTIVE"
    BY <1>6, <2>2
  <2> QED BY <1>3, <1>6, <2>1, <2>2 DEF ActiveSound
<1>12. request' \in [Requests -> RequestRow]
       /\ request'[r].step = "grant" /\ request'[r].session = s
       /\ request'[r].wallet = w
       /\ \A q \in Requests \ {r} : SameCall(q)
  <2> DEFINE row1 == [request[r] EXCEPT !.step = "grant"]
             row == [row1 EXCEPT !.session = s]
             requests == [request EXCEPT ![r] = row]
  <2>1. [request EXCEPT ![r].step = "grant", ![r].session = s] = requests
    BY DEF Base, RowsTypeOK
  <2>2. row1 \in RequestRow /\ row1.step = "grant" /\ row1.wallet = w
    BY <1>2, SetStep
  <2> HIDE DEF row1
  <2>3. row \in RequestRow /\ row.step = "grant" /\ row.wallet = w /\ row.session = s
    BY <2>2 DEF RequestRow
  <2> HIDE DEF row
  <2>4. requests \in [Requests -> RequestRow] /\ requests[r] = row
        /\ \A q \in Requests \ {r} : requests[q] = request[q]
    BY <2>3 DEF Base, RowsTypeOK
  <2> HIDE DEF requests
  <2>5. request' = Invalidate(requests, OnSessions(active))
    BY <1>1, <2>1
  <2> QED BY <2>3, <2>4, <2>5, InvalidateFields DEF SameCall
<1>13. SoundCall(r)'
  BY <1>2, <1>3, <1>6, <1>8, <1>12 DEF SoundCall, Exists, outside
<1> QED BY <1>7, <1>8, <1>9, <1>10, <1>11, <1>12, <1>13 DEF SessionEffect

\* A call that ends with a change of one session.
LEMMA OneSessionEffect ==
  ASSUME Base, NEW r \in Requests, NEW s \in Sessions, NEW row \in SessionRow,
         NEW dependent,
         Exists(s), row.status # "NONE",
         row.wallet = session[s].wallet, row.lesson = session[s].lesson,
         session[s].status = "ACTIVE" \/ row = session[s],
         session' = [session EXCEPT ![s] = row],
         request' = Invalidate([request EXCEPT ![r] = Idle], dependent),
         UNCHANGED outside
  PROVE  SessionEffect(r)
<1>1. session \in [Sessions -> SessionRow]
  BY DEF Base, RowsTypeOK
<1>2. session' \in [Sessions -> SessionRow] /\ session'[s] = row
      /\ \A t \in Sessions \ {s} : session'[t] = session[t]
  BY <1>1
<1>3. SessionsKept /\ EndedKept
  BY <1>2 DEF SessionsKept, EndedKept, Exists
<1>4. NewSessionsSound
  BY <1>2 DEF NewSessionsSound, Exists
<1>5. ActiveSound
  BY <1>2 DEF ActiveSound
<1>6. /\ request' \in [Requests -> RequestRow] /\ request'[r].step = "idle"
      /\ \A q \in Requests \ {r} : SameCall(q)
  BY EndFields DEF Base
<1>7. SoundCall(r)'
  BY <1>6 DEF SoundCall
<1> QED BY <1>2, <1>3, <1>4, <1>5, <1>6, <1>7 DEF SessionEffect

LEMMA GrantEffect ==
  ASSUME Base, NEW r \in Requests, GrantAccess(r) \/ SignReadFails(r)
  PROVE  SessionEffect(r) /\ UNCHANGED results
<1> DEFINE s == request[r].session
           granted == [session[s] EXCEPT !.accessed = TRUE]
           expired == [session[s] EXCEPT !.status = "EXPIRED"]
<1>1. s \in Sessions /\ Exists(s) /\ session[s].status = "ACTIVE"
      /\ session[s] \in SessionRow
  BY DEF GrantAccess, SignReadFails, Base, RequestsSound, RowsTypeOK
<1>2. /\ granted \in SessionRow /\ granted.status = "ACTIVE"
      /\ granted.wallet = session[s].wallet /\ granted.lesson = session[s].lesson
  BY <1>1 DEF SessionRow
<1>3. /\ expired \in SessionRow /\ expired.status = "EXPIRED"
      /\ expired.wallet = session[s].wallet /\ expired.lesson = session[s].lesson
  BY <1>1 DEF SessionRow
<1>4. \/ session' = [session EXCEPT ![s] = granted]
      \/ session' = [session EXCEPT ![s] = expired]
  BY DEF GrantAccess, SignReadFails, Base, RowsTypeOK
<1>5. /\ request' = Invalidate([request EXCEPT ![r] = Idle], OnSessions({s}))
      /\ UNCHANGED <<outside, results>>
  BY DEF GrantAccess, SignReadFails
<1> HIDE DEF s, granted, expired
<1> QED BY <1>1, <1>2, <1>3, <1>4, <1>5, OneSessionEffect

\* The session row after a heartbeat.
LEMMA BeatenEffect ==
  ASSUME Base, NEW r \in Requests, InOrder(r), NEW status \in {"ACTIVE", "COMPLETED"},
         session' = Beaten(request[r].session, request[r], status),
         CommitBy(r, owner[request[r].wallet]), UNCHANGED outside
  PROVE  SessionEffect(r)
<1> DEFINE q == request[r]
           s == request[r].session
           row == [status |-> status, wallet |-> session[s].wallet,
                   lesson |-> session[s].lesson, accessed |-> session[s].accessed,
                   createdAt |-> session[s].createdAt,
                   lastSequence |-> q.sequence, lastPosition |-> q.position,
                   lastHeartbeat |-> q.now]
<1>1. s \in Sessions /\ Exists(s) /\ session[s].status = "ACTIVE"
      /\ session[s] \in SessionRow /\ q \in RequestRow /\ q.position <= Duration
  BY DEF InOrder, Base, RequestsSound, RowsTypeOK
<1>2. q.sequence \in Nat /\ q.position \in 0..Duration /\ q.now \in Nat
  BY <1>1 DEF RequestRow
<1>3. row \in SessionRow
  BY <1>1, <1>2 DEF SessionRow
<1>4. row.status # "NONE" /\ row.wallet = session[s].wallet
      /\ row.lesson = session[s].lesson
  OBVIOUS
<1>5. session' = [session EXCEPT ![s] = row]
  BY <1>1 DEF Beaten, Base, RowsTypeOK
<1>6. request' = Invalidate([request EXCEPT ![r] = Idle],
                            OfStudent(owner[request[r].wallet]))
  BY DEF CommitBy
<1> HIDE DEF row, s
<1> QED BY <1>1, <1>3, <1>4, <1>5, <1>6, OneSessionEffect

LEMMA UncountedEffect ==
  ASSUME Base, NEW r \in Requests, CommitUncounted(r)
  PROVE  SessionEffect(r) /\ UNCHANGED results
<1>1. SessionEffect(r)
  BY BeatenEffect DEF CommitUncounted
<1> QED BY <1>1 DEF CommitUncounted

-----------------------------------------------------------------------------
(* Steps that complete a lesson, and perhaps the course.                   *)

\* Call r completes lesson l, and the course if its snapshot says so.
CompletionEffect(r, l) ==
  LET w == request[r].wallet
  IN  /\ l \in Lessons /\ w \in Wallets /\ entitlement[w] # "never"
      /\ request[r].step = "commit" /\ request[r].fresh
      /\ CompleteLesson(owner[w], l, w)
      /\ CompleteCourse(owner[w], w, request[r].done \union {l}, request[r].open)
      /\ \A q \in Requests \ {r} :
           request'[q].step = "commit" /\ request'[q].fresh =>
             owner[request[q].wallet] # owner[w]

ResultsTyped ==
  /\ events' \subseteq EventRow
  /\ lessonWallet' \in [Students \X Lessons -> Wallets \union {None}]
  /\ courseWallet' \in [Students -> Wallets \union {None}]

LEMMA CompletionTyped ==
  ASSUME Base, NEW r \in Requests, NEW l, CompletionEffect(r, l)
  PROVE  /\ lessonWallet' \in [Students \X Lessons -> Wallets \union {None}]
         /\ courseWallet' \in [Students -> Wallets \union {None}]
<1>1. owner[request[r].wallet] \in Students
  BY DEF CompletionEffect
<1>2. lessonWallet' \in [Students \X Lessons -> Wallets \union {None}]
  BY <1>1 DEF CompletionEffect, CompleteLesson, Base, RowsTypeOK
<1>3. courseWallet' \in [Students -> Wallets \union {None}]
  BY <1>1 DEF CompletionEffect, CompleteCourse, Base, RowsTypeOK
<1> QED BY <1>2, <1>3

\* A commit makes the snapshots of its student's other transactions stale.
LEMMA CommitFields ==
  ASSUME Base, NEW r \in Requests, NEW u, CommitBy(r, u)
  PROVE  \A q \in Requests \ {r} :
           request'[q].step = "commit" /\ request'[q].fresh =>
             owner[request[q].wallet] # u
<1>1. \A q \in Requests \ {r} :
        SameCall(q) /\ (request'[q].fresh => q \notin OfStudent(u))
  BY EndFields DEF CommitBy, Base
<1> QED BY <1>1 DEF SameCall, OfStudent

\* After the step, an accessed session of student u has completed document d.
BackedNext(u, d) ==
  \E s \in Sessions :
    /\ session'[s].status = "COMPLETED" /\ session'[s].accessed
    /\ session'[s].lesson = d /\ owner[session'[s].wallet] = u

LEMMA PlayedEffect ==
  ASSUME Base, NEW r \in Requests, CommitPlayed(r)
  PROVE  /\ SessionEffect(r) /\ ResultsTyped
         /\ \/ UNCHANGED <<lessonWallet, courseWallet>>
            \/ \E l \in Videos : CompletionEffect(r, l)
<1> DEFINE q == request[r]
           s == q.session
           w == q.wallet
           u == owner[w]
           l == session[s].lesson
           range == [startMs |-> session[s].lastPosition, endMs |-> q.position]
           merged == MergeRanges(segments[<<u, l>>] \union {range})
           complete == LessonIsComplete(merged, Duration)
<1>1. /\ InOrder(r) /\ CommitBy(r, u) /\ UNCHANGED outside
      /\ events' = events \union {[session |-> s, sequence |-> q.sequence,
                                  startMs |-> range.startMs, endMs |-> range.endMs]}
      /\ complete => /\ CompleteLesson(u, l, w)
                     /\ CompleteCourse(u, w, q.done \union {l}, q.open)
                     /\ session' = Beaten(s, q, "COMPLETED")
      /\ ~complete => /\ session' = Beaten(s, q, "ACTIVE")
                      /\ UNCHANGED <<lessonWallet, courseWallet>>
  BY DEF CommitPlayed
<1>2. /\ q \in RequestRow /\ q.step = "commit" /\ q.fresh /\ s \in Sessions
      /\ w \in Wallets /\ entitlement[w] # "never" /\ l \in Videos
      /\ session[s] \in SessionRow /\ q.position <= Duration
      /\ q.sequence = session[s].lastSequence + 1
  BY <1>1 DEF InOrder, Base, RequestsSound, RowsTypeOK
<1>3. SessionEffect(r)
  BY <1>1, BeatenEffect
<1>4. events' \subseteq EventRow
  <2>1. q.position \in 0..Duration /\ session[s].lastPosition \in 0..Duration
    BY <1>2 DEF RequestRow, SessionRow
  <2>2. q.sequence \in Sequences
    BY <1>2 DEF RequestRow, SessionRow
  <2>3. [session |-> s, sequence |-> q.sequence,
         startMs |-> range.startMs, endMs |-> range.endMs] \in EventRow
    BY <1>2, <2>1, <2>2 DEF EventRow
  <2> QED BY <1>1, <2>3 DEF Base, RowsTypeOK
<1>5. CASE complete
  <2>1. CompletionEffect(r, l)
    BY <1>1, <1>2, <1>5, CommitFields DEF CompletionEffect
  <2> QED BY <1>2, <1>3, <1>4, <2>1, CompletionTyped DEF ResultsTyped
<1>6. CASE ~complete
  BY <1>1, <1>3, <1>4, <1>6 DEF ResultsTyped, Base, RowsTypeOK
<1> QED BY <1>5, <1>6

LEMMA ConfirmEffect ==
  ASSUME Base, NEW r \in Requests, CommitConfirmation(r)
  PROVE  /\ SessionEffect(r) /\ ResultsTyped
         /\ \E l \in Documents :
              CompletionEffect(r, l) /\ BackedNext(owner[request[r].wallet], l)
<1> DEFINE q == request[r]
           s == q.session
           w == q.wallet
           l == session[s].lesson
           row == [session[s] EXCEPT !.status = "COMPLETED"]
<1>1. /\ Confirmable(r) /\ CommitBy(r, owner[w]) /\ UNCHANGED <<outside, events>>
      /\ CompleteLesson(owner[w], l, w)
      /\ CompleteCourse(owner[w], w, q.done \union {l}, q.open)
      /\ session' = [session EXCEPT ![s].status = "COMPLETED"]
  BY DEF CommitConfirmation
<1>2. /\ q.step = "commit" /\ q.fresh /\ s \in Sessions /\ Exists(s)
      /\ w \in Wallets /\ entitlement[w] # "never" /\ l \in Documents
      /\ session[s] \in SessionRow /\ session[s].wallet = w
      /\ session[s].accessed /\ session[s].status \in {"ACTIVE", "COMPLETED"}
  BY <1>1 DEF Confirmable, Base, RequestsSound, RowsTypeOK
<1>3. /\ row \in SessionRow /\ row.status = "COMPLETED" /\ row.accessed
      /\ row.wallet = session[s].wallet /\ row.lesson = session[s].lesson
  BY <1>2 DEF SessionRow
<1>4. session[s].status = "ACTIVE" \/ row = session[s]
  BY <1>2 DEF SessionRow
<1>5. session' = [session EXCEPT ![s] = row] /\ session'[s] = row
  BY <1>1, <1>2 DEF Base, RowsTypeOK
<1>6. request' = Invalidate([request EXCEPT ![r] = Idle], OfStudent(owner[w]))
  BY <1>1 DEF CommitBy
<1>7. BackedNext(owner[w], l)
  BY <1>2, <1>3, <1>5 DEF BackedNext
<1>8. CompletionEffect(r, l)
  BY <1>1, <1>2, CommitFields DEF CompletionEffect
<1>9. SessionEffect(r)
  <2> HIDE DEF row, s
  <2> QED BY <1>1, <1>2, <1>3, <1>4, <1>5, <1>6, OneSessionEffect
<1>10. ResultsTyped
  <2>1. events' = events
    BY <1>1
  <2> HIDE DEF l
  <2> QED BY <1>8, <2>1, CompletionTyped DEF ResultsTyped, Base, RowsTypeOK
<1> QED BY <1>2, <1>7, <1>8, <1>9, <1>10

-----------------------------------------------------------------------------
(* The steps, sorted by what they change.                                  *)

\* The clock and the projected chain.
OutsideEffect ==
  /\ RowsTypeOK' /\ BoughtKept
  /\ UNCHANGED <<session, events, lessonWallet, courseWallet, request>>

LEMMA OutsideSteps ==
  ASSUME Base,
         Tick \/ ToggleCourse \/ (\E w \in Wallets : Purchase(w) \/ Revoke(w))
         \/ UNCHANGED vars
  PROVE  OutsideEffect
<1>1. CASE Tick
  BY <1>1 DEF Tick, OutsideEffect, Base, RowsTypeOK, BoughtKept, results
<1>2. CASE ToggleCourse
  BY <1>2 DEF ToggleCourse, Projected, OutsideEffect, Base, RowsTypeOK, BoughtKept, results
<1>3. ASSUME NEW w \in Wallets, Purchase(w) \/ Revoke(w) PROVE OutsideEffect
  BY <1>3
    DEF Purchase, Revoke, Projected, OutsideEffect, Base, RowsTypeOK, BoughtKept, results
<1>4. CASE UNCHANGED vars
  BY <1>4 DEF vars, outside, results, OutsideEffect, Base, RowsTypeOK, BoughtKept
<1> QED BY <1>1, <1>2, <1>3, <1>4

LEMMA Steps ==
  ASSUME Base, [Next]_vars
  PROVE  \/ OutsideEffect
         \/ \E r \in Requests : QuietEffect(r)
         \/ \E r \in Requests :
              /\ SessionEffect(r) /\ ResultsTyped
              /\ UNCHANGED <<lessonWallet, courseWallet>>
         \/ \E r \in Requests, l \in Lessons :
              /\ SessionEffect(r) /\ ResultsTyped
              /\ CompletionEffect(r, l)
              /\ l \in Documents => BackedNext(owner[request[r].wallet], l)
<1>1. ASSUME NEW r \in Requests,
             OpenSession(r) \/ GrantAccess(r) \/ SignReadFails(r) \/ CommitUncounted(r)
      PROVE  SessionEffect(r) /\ ResultsTyped /\ UNCHANGED <<lessonWallet, courseWallet>>
  <2>1. SessionEffect(r) /\ UNCHANGED results
    BY <1>1, OpenEffect, GrantEffect, UncountedEffect
  <2> QED BY <2>1 DEF ResultsTyped, results, Base, RowsTypeOK
<1>2. ASSUME NEW r \in Requests, CommitPlayed(r)
      PROVE  /\ SessionEffect(r) /\ ResultsTyped
             /\ \/ UNCHANGED <<lessonWallet, courseWallet>>
                \/ \E l \in Lessons : /\ CompletionEffect(r, l)
                                     /\ l \notin Documents
  BY <1>2, PlayedEffect
<1>3. ASSUME NEW r \in Requests, CommitConfirmation(r)
      PROVE  /\ SessionEffect(r) /\ ResultsTyped
             /\ \E l \in Lessons :
                  CompletionEffect(r, l) /\ BackedNext(owner[request[r].wallet], l)
  BY <1>3, ConfirmEffect
<1> QED BY <1>1, <1>2, <1>3, QuietSteps, OutsideSteps DEF Next, Step

LEMMA BaseStep ==
  ASSUME Base, [Next]_vars PROVE Base'
<1>1. CASE OutsideEffect
  <2>1. SessionsKept /\ NewSessionsSound /\ \A r \in Requests : SameCall(r)
    BY <1>1 DEF OutsideEffect, SessionsKept, NewSessionsSound, SameCall, Exists
  <2> QED BY <1>1, <2>1, BaseKept DEF OutsideEffect
<1>2. ASSUME NEW r \in Requests, SessionEffect(r), ResultsTyped PROVE Base'
  BY <1>2, SessionBase DEF ResultsTyped
<1> QED BY <1>1, <1>2, QuietBase, Steps

-----------------------------------------------------------------------------
(* The theorems.                                                           *)

LEMMA BaseAlways == Spec => []Base
<1>1. Base /\ UNCHANGED vars => Base'
  BY BaseStep
<1> QED BY BaseInit, BaseStep, PTL DEF Spec

LEMMA OneActiveStep ==
  ASSUME Base, OneActiveSession, [Next]_vars
  PROVE  OneActiveSession'
<1>1. Base'
  BY BaseStep
<1>2. CASE UNCHANGED session
  BY <1>2 DEF OneActiveSession, SessionsOf, StudentOf, Exists
<1>3. ASSUME SessionsKept, ActiveSound PROVE OneActiveSession'
  <2> SUFFICES ASSUME NEW u \in Students, NEW l \in Lessons,
                      NEW s \in Sessions, NEW t \in Sessions, s # t,
                      session'[s].status = "ACTIVE", session'[t].status = "ACTIVE",
                      session'[s].lesson = l, session'[t].lesson = l,
                      owner[session'[s].wallet] = u, owner[session'[t].wallet] = u
               PROVE  FALSE
    BY DEF OneActiveSession, SessionsOf, StudentOf, Exists
  <2>1. session[s].status = "ACTIVE" /\ session[t].status = "ACTIVE"
    BY <1>3 DEF ActiveSound
  <2>2. /\ session[s].lesson = l /\ session[t].lesson = l
        /\ owner[session[s].wallet] = u /\ owner[session[t].wallet] = u
    BY <1>3, <2>1 DEF SessionsKept, Exists
  <2> QED BY <2>1, <2>2 DEF OneActiveSession, SessionsOf, StudentOf, Exists
<1> QED BY <1>2, <1>3, Steps DEF OutsideEffect, QuietEffect, SessionEffect

\* A student never has two ACTIVE sessions of one lesson, whatever starts,
\* signatures, heartbeats and confirmations interleave.
THEOREM OneActiveSessionAlways == Spec => []OneActiveSession
<1>1. Init => OneActiveSession
  BY DEF Init, OneActiveSession, SessionsOf, Exists, NoSession
<1>2. Base /\ OneActiveSession /\ [Next]_vars => OneActiveSession'
  BY OneActiveStep
<1> QED BY <1>1, <1>2, BaseAlways, PTL DEF Spec

LEMMA BuyersStep ==
  ASSUME Base, CertificatesGoToBuyers, [Next]_vars
  PROVE  CertificatesGoToBuyers'
<1>1. CASE UNCHANGED <<lessonWallet, courseWallet>> /\ BoughtKept
  BY <1>1 DEF CertificatesGoToBuyers, BoughtKept, Base, RowsTypeOK
<1>2. ASSUME NEW r \in Requests, NEW l \in Lessons, CompletionEffect(r, l),
             UNCHANGED outside
      PROVE  CertificatesGoToBuyers'
  <2> DEFINE w == request[r].wallet
  <2>1. w \in Wallets /\ owner[w] \in Students /\ entitlement'[w] # "never"
        /\ UNCHANGED entitlement
    BY <1>2 DEF CompletionEffect, outside
  <2>2. \A u \in Students, d \in Lessons : lessonWallet'[<<u, d>>] # None =>
          \/ lessonWallet'[<<u, d>>] = lessonWallet[<<u, d>>]
          \/ u = owner[w] /\ lessonWallet'[<<u, d>>] = w
    BY <1>2 DEF CompletionEffect, CompleteLesson, Base, RowsTypeOK
  <2>3. \A u \in Students : courseWallet'[u] # None =>
          \/ courseWallet'[u] = courseWallet[u]
          \/ u = owner[w] /\ courseWallet'[u] = w
    BY <1>2 DEF CompletionEffect, CompleteCourse, Base, RowsTypeOK
  <2> HIDE DEF w
  <2> QED BY <2>1, <2>2, <2>3 DEF CertificatesGoToBuyers
<1>3. UNCHANGED outside => BoughtKept
  BY DEF outside, BoughtKept
<1> QED BY <1>1, <1>2, <1>3, Steps
      DEF OutsideEffect, QuietEffect, SessionEffect, results

\* Every completion names a wallet of its own student that has bought the
\* course: a change of wallets cannot move a certificate to a stranger.
THEOREM CertificatesAlwaysGoToBuyers == Spec => []CertificatesGoToBuyers
<1>1. Init => CertificatesGoToBuyers
  BY DEF Init, CertificatesGoToBuyers
<1>2. Base /\ CertificatesGoToBuyers /\ [Next]_vars => CertificatesGoToBuyers'
  BY BuyersStep
<1> QED BY <1>1, <1>2, BaseAlways, PTL DEF Spec

\* What a transaction that may still commit has read is what is stored.
SnapshotsFresh == \A r \in Requests : FreshSnapshot(r)

\* A completion changes the completed lessons of its student only.
LEMMA CompletedLessons ==
  ASSUME Base, NEW r \in Requests, NEW l \in Lessons, CompletionEffect(r, l),
         NEW u \in Students
  PROVE  LessonsDone(u)' = IF u = owner[request[r].wallet]
                           THEN LessonsDone(u) \union {l} ELSE LessonsDone(u)
<1>1. \A d \in Lessons : lessonWallet'[<<u, d>>] # None <=>
        lessonWallet[<<u, d>>] # None \/ (u = owner[request[r].wallet] /\ d = l)
  BY DEF CompletionEffect, CompleteLesson, Base, RowsTypeOK
<1> QED BY <1>1 DEF LessonsDone

LEMMA SnapshotStep ==
  ASSUME Base, SnapshotsFresh, [Next]_vars
  PROVE  SnapshotsFresh'
<1>0. \A q \in Requests : request[q].step = "commit" => owner[request[q].wallet] \in Students
  BY DEF Base, RequestsSound
<1>1. CASE OutsideEffect
  BY <1>1 DEF OutsideEffect, SnapshotsFresh, FreshSnapshot, LessonsDone
<1>2. ASSUME NEW r \in Requests, QuietEffect(r) PROVE SnapshotsFresh'
  <2>1. UNCHANGED lessonWallet
    BY <1>2 DEF QuietEffect, results
  <2> QED BY <1>2, <2>1 DEF QuietEffect, SnapshotsFresh, FreshSnapshot, LessonsDone
<1>3. ASSUME NEW r \in Requests, SessionEffect(r), UNCHANGED lessonWallet
      PROVE  SnapshotsFresh'
  BY <1>3 DEF SessionEffect, SameCall, SnapshotsFresh, FreshSnapshot, LessonsDone
<1>4. ASSUME NEW r \in Requests, NEW l \in Lessons, SessionEffect(r),
             CompletionEffect(r, l)
      PROVE  SnapshotsFresh'
  <2> SUFFICES ASSUME NEW q \in Requests,
                      request'[q].step = "commit", request'[q].fresh
               PROVE  request'[q].done =
                        {d \in Lessons : lessonWallet'[<<owner[request'[q].wallet], d>>] # None}
    BY DEF SnapshotsFresh, FreshSnapshot, LessonsDone
  <2>1. /\ q # r /\ request[q].step = "commit" /\ request[q].fresh
        /\ request'[q].wallet = request[q].wallet /\ request'[q].done = request[q].done
    BY <1>4 DEF SessionEffect, SameCall
  <2>2. PICK u \in Students : u = owner[request[q].wallet]
    BY <1>0, <2>1
  <2>3. u # owner[request[r].wallet]
    BY <1>4, <2>1, <2>2 DEF CompletionEffect
  <2>4. LessonsDone(u)' = LessonsDone(u)
    BY <1>4, <2>3, CompletedLessons
  <2>5. request[q].done = LessonsDone(u)
    BY <2>1, <2>2 DEF SnapshotsFresh, FreshSnapshot
  <2>6. LessonsDone(u)' = {d \in Lessons : lessonWallet'[<<u, d>>] # None}
    BY DEF LessonsDone
  <2> QED BY <2>1, <2>2, <2>4, <2>5, <2>6
<1> QED BY <1>1, <1>2, <1>3, <1>4, Steps

LEMMA CertifiedStep ==
  ASSUME Base, SnapshotsFresh, CertificatesGoToBuyers, CertifiedWhenDone, [Next]_vars
  PROVE  CertifiedWhenDone'
<1>1. CASE UNCHANGED <<lessonWallet, courseWallet>>
  BY <1>1 DEF CertifiedWhenDone, LessonsDone
<1>2. ASSUME NEW r \in Requests, NEW l \in Lessons, CompletionEffect(r, l)
      PROVE  CertifiedWhenDone'
  <2> DEFINE w == request[r].wallet
             u == owner[w]
             done == request[r].done \union {l}
  <2>1. w \in Wallets /\ u \in Students /\ request[r].done = LessonsDone(u)
    BY <1>2 DEF CompletionEffect, SnapshotsFresh, FreshSnapshot
  <2>2. ASSUME NEW v \in Students
        PROVE  LessonsDone(v)' = IF v = u THEN done ELSE LessonsDone(v)
    BY <1>2, <2>1, CompletedLessons
  <2>3. \/ /\ Lessons \subseteq done /\ ~Certified(u, w)
           /\ courseWallet' = [courseWallet EXCEPT ![u] = w]
        \/ (~(Lessons \subseteq done) \/ Certified(u, w)) /\ courseWallet' = courseWallet
    BY <1>2 DEF CompletionEffect, CompleteCourse
  <2>4. Certified(u, w) <=> courseWallet[u] # None
    BY <2>1 DEF Certified, CertificatesGoToBuyers
  <2>5. \A v \in Students : courseWallet'[v] # None <=>
          courseWallet[v] # None \/ (v = u /\ Lessons \subseteq done)
    BY <2>1, <2>3, <2>4 DEF Base, RowsTypeOK
  <2>6. LessonsDone(u) \subseteq Lessons /\ done \subseteq Lessons
    BY <2>1 DEF LessonsDone
  <2>7. courseWallet[u] # None <=> LessonsDone(u) = Lessons
    BY <2>1 DEF CertifiedWhenDone
  <2>8. Lessons \subseteq done <=> done = Lessons
    BY <2>6
  <2>9. LessonsDone(u) = Lessons => done = Lessons
    BY <2>1, <2>6
  <2> HIDE DEF w, u, done
  <2>10. ASSUME NEW v \in Students
         PROVE  courseWallet'[v] # None <=> LessonsDone(v)' = Lessons
    BY <2>2, <2>5, <2>7, <2>8, <2>9 DEF CertifiedWhenDone
  <2> QED BY <2>10 DEF CertifiedWhenDone
<1> QED BY <1>1, <1>2, Steps DEF OutsideEffect, QuietEffect, results

\* The last required lesson and the course completion with its mint are
\* written together: no two transactions can each miss the other's lesson,
\* and none completes a course early.
THEOREM CertifiedExactlyWhenDone == Spec => []CertifiedWhenDone
<1>1. Init => SnapshotsFresh /\ CertifiedWhenDone
  <2>1. Init => SnapshotsFresh
    BY DEF Init, SnapshotsFresh, FreshSnapshot, Idle
  <2>2. Init => \A u \in Students : courseWallet[u] = None /\ LessonsDone(u) = {}
    BY DEF Init, LessonsDone
  <2> QED BY <2>1, <2>2 DEF CertifiedWhenDone
<1>2. Base /\ SnapshotsFresh /\ [Next]_vars => SnapshotsFresh'
  BY SnapshotStep
<1>3. Base /\ SnapshotsFresh /\ CertificatesGoToBuyers /\ CertifiedWhenDone
      /\ [Next]_vars => CertifiedWhenDone'
  BY CertifiedStep
<1> QED BY <1>1, <1>2, <1>3, BaseAlways, CertificatesAlwaysGoToBuyers, PTL DEF Spec

LEMMA DocumentsStep ==
  ASSUME Base, DocumentsAreEarned, [Next]_vars
  PROVE  DocumentsAreEarned'
<1> DEFINE Backed(u, d) ==
      \E s \in Sessions : /\ session[s].status = "COMPLETED" /\ session[s].accessed
                          /\ session[s].lesson = d /\ owner[session[s].wallet] = u
<1>1. DocumentsAreEarned <=> \A u \in Students, d \in Documents :
        lessonWallet[<<u, d>>] # None => Backed(u, d)
  BY DEF DocumentsAreEarned, SessionsOf, StudentOf, Exists
<1>2. DocumentsAreEarned' <=> \A u \in Students, d \in Documents :
        lessonWallet'[<<u, d>>] # None => BackedNext(u, d)
  BY DEF DocumentsAreEarned, SessionsOf, StudentOf, Exists, BackedNext
<1>3. ASSUME NEW u \in Students, NEW d \in Documents, Backed(u, d),
             EndedKept \/ UNCHANGED session
      PROVE  BackedNext(u, d)
  BY <1>3 DEF BackedNext, EndedKept
<1> HIDE DEF Backed
<1>4. CASE UNCHANGED lessonWallet /\ (EndedKept \/ UNCHANGED session)
  BY <1>1, <1>2, <1>3, <1>4
<1>5. ASSUME NEW r \in Requests, NEW l \in Lessons, EndedKept, CompletionEffect(r, l),
             l \in Documents => BackedNext(owner[request[r].wallet], l)
      PROVE  DocumentsAreEarned'
  <2>1. \A u \in Students, d \in Lessons : lessonWallet'[<<u, d>>] # None =>
          \/ lessonWallet[<<u, d>>] # None
          \/ u = owner[request[r].wallet] /\ d = l
    BY <1>5 DEF CompletionEffect, CompleteLesson, Base, RowsTypeOK
  <2> QED BY <1>1, <1>2, <1>3, <1>5, <2>1
<1> QED BY <1>4, <1>5, Steps DEF OutsideEffect, QuietEffect, SessionEffect, results

\* A document is completed only by a session that was granted access: a
\* confirmation cannot overtake the signature of the read URL.
THEOREM DocumentsAlwaysEarned == Spec => []DocumentsAreEarned
<1>1. Init => DocumentsAreEarned
  BY DEF Init, DocumentsAreEarned
<1>2. Base /\ DocumentsAreEarned /\ [Next]_vars => DocumentsAreEarned'
  BY DocumentsStep
<1> QED BY <1>1, <1>2, BaseAlways, PTL DEF Spec

LEMMA EndedStep ==
  ASSUME Base, [Next]_vars
  PROVE  /\ EndedKept \/ UNCHANGED session
         /\ \A u \in Students :
              /\ courseWallet[u] # None => courseWallet'[u] = courseWallet[u]
              /\ \A l \in Lessons : lessonWallet[<<u, l>>] # None =>
                   lessonWallet'[<<u, l>>] = lessonWallet[<<u, l>>]
<1>1. ASSUME NEW r \in Requests, NEW l \in Lessons, CompletionEffect(r, l)
      PROVE  \A u \in Students :
               /\ courseWallet[u] # None => courseWallet'[u] = courseWallet[u]
               /\ \A d \in Lessons : lessonWallet[<<u, d>>] # None =>
                    lessonWallet'[<<u, d>>] = lessonWallet[<<u, d>>]
  <2>1. \A u \in Students : courseWallet[u] # None => courseWallet'[u] = courseWallet[u]
    BY <1>1 DEF CompletionEffect, CompleteCourse, Certified, Base, RowsTypeOK
  <2>2. \A u \in Students, d \in Lessons : lessonWallet[<<u, d>>] # None =>
          lessonWallet'[<<u, d>>] = lessonWallet[<<u, d>>]
    BY <1>1 DEF CompletionEffect, CompleteLesson, Base, RowsTypeOK
  <2> QED BY <2>1, <2>2
<1> QED BY <1>1, Steps DEF OutsideEffect, QuietEffect, SessionEffect, results

\* Ended sessions and completions are final: no late call changes them.
THEOREM EndedSessionsAlwaysStay == Spec => EndedSessionsStay
<1>1. Base /\ [Next]_vars =>
        [/\ \A s \in Sessions : session[s].status \in {"EXPIRED", "COMPLETED"} =>
               session'[s] = session[s]
         /\ \A u \in Students :
              /\ courseWallet[u] # None => courseWallet'[u] = courseWallet[u]
              /\ \A l \in Lessons : lessonWallet[<<u, l>>] # None =>
                   lessonWallet'[<<u, l>>] = lessonWallet[<<u, l>>]]_vars
  BY EndedStep DEF EndedKept
<1> QED BY <1>1, BaseAlways, PTL DEF Spec, EndedSessionsStay

-----------------------------------------------------------------------------
(* What was watched: the events, the stored segments and the completions.  *)

\* The event rows are of sessions that exist, and play forward.
EventsSound ==
  \A e \in events : Exists(e.session) /\ e.startMs < e.endMs

\* Call r has counted a heartbeat: an event of its session, and the range of
\* it merged into the segments of its student and video.
CountedEffect(r) ==
  \E s \in Sessions, e \in EventRow, range \in Ranges(Duration) :
    LET w == request[r].wallet
        p == <<owner[w], session[s].lesson>>
    IN  /\ Exists(s) /\ w \in Wallets /\ session[s].wallet = w /\ session[s].lesson \in Videos
        /\ e.session = s /\ e.startMs = range.startMs /\ e.endMs = range.endMs
        /\ events' = events \union {e}
        /\ segments' = [segments EXCEPT ![p] = MergeRanges(@ \union {range})]
        /\ IF LessonIsComplete(segments'[p], Duration)
           THEN CompleteLesson(owner[w], session[s].lesson, w)
           ELSE UNCHANGED lessonWallet

NothingCounted ==
  /\ UNCHANGED <<events, segments>>
  /\ \A u \in Students, v \in Videos : lessonWallet'[<<u, v>>] = lessonWallet[<<u, v>>]

LEMMA CountedStep ==
  ASSUME Base, SegmentsTypeOK, NEW r \in Requests, CommitPlayed(r)
  PROVE  CountedEffect(r)
<1> DEFINE q == request[r]
           s == q.session
           w == q.wallet
           u == owner[w]
           l == session[s].lesson
           range == [startMs |-> session[s].lastPosition, endMs |-> q.position]
           e == [session |-> s, sequence |-> q.sequence,
                 startMs |-> range.startMs, endMs |-> range.endMs]
           merged == MergeRanges(segments[<<u, l>>] \union {range})
<1>1. /\ InOrder(r) /\ Playing(s, q.position, q.now)
      /\ events' = events \union {e}
      /\ segments' = [segments EXCEPT ![<<u, l>>] = merged]
      /\ IF LessonIsComplete(merged, Duration)
         THEN CompleteLesson(u, l, w) ELSE UNCHANGED lessonWallet
  BY DEF CommitPlayed
<1>2. /\ q \in RequestRow /\ s \in Sessions /\ Exists(s) /\ session[s].wallet = w
      /\ w \in Wallets /\ u \in Students /\ l \in Videos
      /\ session[s] \in SessionRow /\ q.position <= Duration
      /\ q.sequence = session[s].lastSequence + 1
  BY <1>1 DEF InOrder, Base, RequestsSound, RowsTypeOK
<1>3. /\ q.position \in 0..Duration /\ session[s].lastPosition \in 0..Duration
      /\ q.sequence \in Sequences
  BY <1>2 DEF RequestRow, SessionRow
<1>4. q.position > session[s].lastPosition
  BY <1>1, <1>3 DEF Playing
<1>5. range \in Ranges(Duration)
  BY <1>3, <1>4 DEF Ranges
<1>6. e \in EventRow
  BY <1>2, <1>3 DEF EventRow
<1> HIDE DEF range, s, w
<1>7. segments'[<<u, l>>] = merged
  BY <1>1, <1>2 DEF SegmentsTypeOK
<1>8. e.session = s /\ e.startMs = range.startMs /\ e.endMs = range.endMs
  OBVIOUS
<1> QED BY <1>1, <1>2, <1>5, <1>6, <1>7, <1>8 DEF CountedEffect, s, w

LEMMA CountedSteps ==
  ASSUME Base, SegmentsTypeOK, [Next]_vars
  PROVE  NothingCounted \/ \E r \in Requests : CountedEffect(r)
<1>1. ASSUME NEW r \in Requests, CommitConfirmation(r) PROVE NothingCounted
  <2>1. PICK l \in Documents : CompletionEffect(r, l)
    BY <1>1, ConfirmEffect
  <2>2. \A u \in Students, v \in Videos : lessonWallet'[<<u, v>>] = lessonWallet[<<u, v>>]
    BY <2>1 DEF CompletionEffect, CompleteLesson, Base, RowsTypeOK
  <2> QED BY <1>1, <2>2 DEF CommitConfirmation, NothingCounted
<1>2. ASSUME NEW r \in Requests, Call(r) \/ Fails(r) \/ Begin(r) \/ SerializationFailure(r)
      PROVE  NothingCounted
  <2>1. QuietEffect(r)
    BY <1>2, QuietSteps
  <2> QED BY <2>1 DEF QuietEffect, results, NothingCounted
<1>3. ASSUME NEW r \in Requests,
             OpenSession(r) \/ GrantAccess(r) \/ SignReadFails(r) \/ CommitUncounted(r)
      PROVE  NothingCounted
  <2>1. UNCHANGED results
    BY <1>3 DEF OpenSession, GrantAccess, SignReadFails, CommitUncounted
  <2> QED BY <2>1 DEF results, NothingCounted
<1>4. CASE Tick \/ ToggleCourse \/ (\E w \in Wallets : Purchase(w) \/ Revoke(w))
  <2>1. UNCHANGED results
    BY <1>4 DEF Tick, ToggleCourse, Purchase, Revoke, Projected
  <2> QED BY <2>1 DEF results, NothingCounted
<1>5. CASE UNCHANGED vars
  BY <1>5 DEF vars, results, NothingCounted
<1> QED BY <1>1, <1>2, <1>3, <1>4, <1>5, CountedStep DEF Next, Step

\* The sessions of the events keep their student and lesson, so that what was
\* watched can only grow by the positions of a new event.
LEMMA WatchedStep ==
  ASSUME Base, EventsSound, SessionsKept, NEW u \in Students, NEW v \in Videos
  PROVE  /\ UNCHANGED events => Watched(u, v)' = Watched(u, v)
         /\ \A e \in EventRow : Exists(e.session) /\ events' = events \union {e} =>
              Watched(u, v)' =
                IF StudentOf(e.session) = u /\ session[e.session].lesson = v
                THEN Watched(u, v) \union (e.startMs .. (e.endMs - 1))
                ELSE Watched(u, v)
<1> DEFINE Of(E) == {e \in E : StudentOf(e.session) = u /\ session[e.session].lesson = v}
           OfNext(E) == {e \in E : /\ owner[session'[e.session].wallet] = u
                                   /\ session'[e.session].lesson = v}
<1>1. Watched(u, v) = Positions(Of(events)) /\ Watched(u, v)' = Positions(OfNext(events'))
  BY DEF Watched, StudentOf, Positions
<1>2. ASSUME NEW e \in EventRow, Exists(e.session)
      PROVE  /\ owner[session'[e.session].wallet] = StudentOf(e.session)
             /\ session'[e.session].lesson = session[e.session].lesson
  <2>1. e.session \in Sessions
    BY DEF EventRow
  <2> QED BY <1>2, <2>1 DEF SessionsKept, StudentOf
<1>3. OfNext(events) = Of(events)
  BY <1>2 DEF EventsSound, Base, RowsTypeOK
<1>4. ASSUME NEW e \in EventRow, Exists(e.session)
      PROVE  OfNext(events \union {e}) =
               IF StudentOf(e.session) = u /\ session[e.session].lesson = v
               THEN Of(events) \union {e} ELSE Of(events)
  BY <1>2, <1>3, <1>4
<1>5. ASSUME NEW E, NEW e
      PROVE  Positions(E \union {e}) = Positions(E) \union (e.startMs .. (e.endMs - 1))
  BY DEF Positions
<1> HIDE DEF Of, OfNext
<1>6. ASSUME UNCHANGED events PROVE Watched(u, v)' = Watched(u, v)
  BY <1>1, <1>3, <1>6
<1>7. ASSUME NEW e \in EventRow, Exists(e.session), events' = events \union {e}
      PROVE  Watched(u, v)' =
               IF StudentOf(e.session) = u /\ session[e.session].lesson = v
               THEN Watched(u, v) \union (e.startMs .. (e.endMs - 1)) ELSE Watched(u, v)
  <2>1. CASE StudentOf(e.session) = u /\ session[e.session].lesson = v
    <3>1. OfNext(events') = Of(events) \union {e}
      BY <1>4, <1>7, <2>1
    <3>2. Positions(OfNext(events')) = Positions(Of(events)) \union (e.startMs .. (e.endMs - 1))
      BY <1>5, <3>1
    <3> QED BY <1>1, <2>1, <3>2
  <2>2. CASE ~(StudentOf(e.session) = u /\ session[e.session].lesson = v)
    <3>1. OfNext(events') = Of(events)
      BY <1>4, <1>7, <2>2
    <3> QED BY <1>1, <2>2, <3>1
  <2> QED BY <2>1, <2>2
<1> QED BY <1>6, <1>7

LEMMA SessionsStayKept ==
  ASSUME Base, [Next]_vars PROVE SessionsKept
<1>1. UNCHANGED session => SessionsKept
  BY DEF SessionsKept, Exists
<1> QED BY <1>1, Steps DEF OutsideEffect, QuietEffect, SessionEffect

PlaybackSound == SegmentsTypeOK /\ EventsSound /\ SegmentsAreWatched /\ VideosAreEarned

LEMMA PlaybackInitially ==
  ASSUME Init PROVE PlaybackSound
<1>1. Duration \in Nat /\ Duration > 0
  OBVIOUS
<1>2. SegmentsTypeOK
  BY DEF Init, SegmentsTypeOK
<1>3. EventsSound
  BY DEF Init, EventsSound
<1>4. \A u \in Students, v \in Videos : Watched(u, v) = {} /\ segments[<<u, v>>] = {}
  BY DEF Init, Watched, Positions
<1>5. SegmentsAreWatched
  BY <1>4 DEF SegmentsAreWatched, Positions, Normal
<1>6. VideosAreEarned
  <2>1. ~(100 * Cardinality({}) >= 95 * Duration)
    BY <1>1, FS_EmptySet
  <2> QED BY <1>4, <2>1 DEF VideosAreEarned, Init
<1> QED BY <1>2, <1>3, <1>5, <1>6 DEF PlaybackSound

LEMMA UncountedKeeps ==
  ASSUME Base, PlaybackSound, SessionsKept, NothingCounted
  PROVE  PlaybackSound'
<1>1. \A u \in Students, v \in Videos : Watched(u, v)' = Watched(u, v)
  BY WatchedStep DEF NothingCounted, PlaybackSound
<1>2. SegmentsTypeOK'
  BY DEF PlaybackSound, SegmentsTypeOK, NothingCounted
<1>3. EventsSound'
  <2> SUFFICES ASSUME NEW e \in events PROVE session'[e.session].status # "NONE" /\ e.startMs < e.endMs
    BY DEF NothingCounted, EventsSound, Exists
  <2>1. e.session \in Sessions /\ Exists(e.session) /\ e.startMs < e.endMs
    BY DEF PlaybackSound, EventsSound, Base, RowsTypeOK, EventRow
  <2> QED BY <2>1 DEF SessionsKept
<1>4. SegmentsAreWatched'
  BY <1>1 DEF PlaybackSound, SegmentsAreWatched, NothingCounted
<1>5. VideosAreEarned'
  BY <1>1 DEF PlaybackSound, VideosAreEarned, NothingCounted
<1> QED BY <1>2, <1>3, <1>4, <1>5 DEF PlaybackSound

LEMMA CountedKeeps ==
  ASSUME Base, PlaybackSound, SessionsKept, NEW r \in Requests, CountedEffect(r)
  PROVE  PlaybackSound'
<1>1. PICK s \in Sessions, e \in EventRow, range \in Ranges(Duration) :
        LET w == request[r].wallet
            p == <<owner[w], session[s].lesson>>
        IN  /\ Exists(s) /\ w \in Wallets /\ session[s].wallet = w /\ session[s].lesson \in Videos
            /\ e.session = s /\ e.startMs = range.startMs /\ e.endMs = range.endMs
            /\ events' = events \union {e}
            /\ segments' = [segments EXCEPT ![p] = MergeRanges(@ \union {range})]
            /\ IF LessonIsComplete(segments'[p], Duration)
               THEN CompleteLesson(owner[w], session[s].lesson, w)
               ELSE UNCHANGED lessonWallet
  BY DEF CountedEffect
<1>0. /\ Exists(s) /\ request[r].wallet \in Wallets /\ session[s].lesson \in Videos
      /\ session[s].wallet = request[r].wallet
  BY <1>1
<1>w. PICK w \in Wallets : w = request[r].wallet
  BY <1>0
<1>v. PICK v \in Videos : v = session[s].lesson
  BY <1>0
<1> DEFINE u == owner[w]
           all == segments[<<u, v>>] \union {range}
           new == MergeRanges(all)
<1>2. w \in Wallets /\ u \in Students /\ v \in Videos /\ StudentOf(s) = u /\ Exists(s)
  BY <1>0, <1>w, <1>v DEF StudentOf
<1>3. all \in SUBSET Ranges(Duration)
  BY <1>2 DEF PlaybackSound, SegmentsTypeOK
<1>4. /\ new \in SUBSET Ranges(Duration) /\ Normal(new)
      /\ Positions(new) = Positions(all)
  BY <1>3, MergeKeepsPositions
<1>5. /\ segments'[<<u, v>>] = new
      /\ \A x \in Students, y \in Videos : <<x, y>> # <<u, v>> =>
           segments'[<<x, y>>] = segments[<<x, y>>]
      /\ SegmentsTypeOK'
  <2>1. segments' = [segments EXCEPT ![<<u, v>>] = new]
    BY <1>1, <1>w, <1>v
  <2> HIDE DEF new, u
  <2> QED BY <1>2, <1>4, <2>1 DEF PlaybackSound, SegmentsTypeOK
<1>6. \A x \in Students, y \in Videos : Watched(x, y)' =
        IF x = u /\ y = v THEN Watched(x, y) \union (range.startMs .. (range.endMs - 1))
        ELSE Watched(x, y)
  BY <1>1, <1>2, <1>v, WatchedStep DEF PlaybackSound
<1>7. Watched(u, v)' = Positions(new)
  <2>1. Positions(all) = Positions(segments[<<u, v>>]) \union (range.startMs .. (range.endMs - 1))
    BY DEF Positions
  <2>2. Positions(segments[<<u, v>>]) = Watched(u, v)
    BY <1>2 DEF PlaybackSound, SegmentsAreWatched
  <2> QED BY <1>2, <1>4, <1>6, <2>1, <2>2
<1>8. EventsSound'
  <2> SUFFICES ASSUME NEW f \in events'
               PROVE  session'[f.session].status # "NONE" /\ f.startMs < f.endMs
    BY DEF EventsSound, Exists
  <2>1. f \in EventRow /\ f.session \in Sessions /\ Exists(f.session) /\ f.startMs < f.endMs
    BY <1>1, RangeFields DEF PlaybackSound, EventsSound, Base, RowsTypeOK, EventRow
  <2> QED BY <2>1 DEF SessionsKept
<1>9. SegmentsAreWatched'
  <2> SUFFICES ASSUME NEW x \in Students, NEW y \in Videos
               PROVE  /\ Positions(segments'[<<x, y>>]) = Watched(x, y)'
                      /\ Normal(segments'[<<x, y>>])
    BY DEF SegmentsAreWatched, Normal
  <2>1. CASE x = u /\ y = v
    BY <1>4, <1>5, <1>7, <2>1
  <2>2. CASE ~(x = u /\ y = v)
    BY <1>5, <1>6, <2>2 DEF PlaybackSound, SegmentsAreWatched
  <2> QED BY <2>1, <2>2
<1>10. VideosAreEarned'
  <2> DEFINE Enough(S) == 100 * Cardinality(S) >= 95 * Duration
  <2> SUFFICES ASSUME NEW x \in Students, NEW y \in Videos
               PROVE  lessonWallet'[<<x, y>>] # None <=> Enough(Watched(x, y)')
    BY DEF VideosAreEarned
  <2>1. lessonWallet[<<x, y>>] # None <=> Enough(Watched(x, y))
    BY DEF PlaybackSound, VideosAreEarned
  <2>2. LessonIsComplete(new, Duration) <=> Enough(Watched(u, v)')
    <3>1. LessonIsComplete(new, Duration) <=>
            Duration > 0 /\ 100 * Cardinality(Positions(new)) >= 95 * Duration
      BY <1>4, CompleteMeansCovered
    <3>2. Duration > 0 /\ Watched(u, v)' = Positions(new)
      BY <1>7
    <3> QED BY <3>1, <3>2
  <2>3. Enough(Watched(u, v)) => Enough(Watched(u, v)')
    <3>1. IsFiniteSet(Positions(new))
      BY <1>4, CompleteMeansCovered
    <3>2. Watched(u, v) \subseteq Positions(new)
      BY <1>2, <1>6, <1>7
    <3>3. /\ Cardinality(Watched(u, v)) <= Cardinality(Positions(new))
          /\ Cardinality(Watched(u, v)) \in Nat /\ Cardinality(Positions(new)) \in Nat
      BY <3>1, <3>2, FS_Subset, FS_CardinalityType
    <3> QED BY <1>7, <3>3
  <2> HIDE DEF Enough
  <2>4. CASE LessonIsComplete(new, Duration)
    <3>1. CompleteLesson(u, v, w)
      BY <1>1, <1>5, <1>w, <1>v, <2>4
    <3>2. lessonWallet'[<<x, y>>] # None <=> lessonWallet[<<x, y>>] # None \/ (x = u /\ y = v)
      BY <1>2, <3>1 DEF CompleteLesson, Base, RowsTypeOK
    <3> QED BY <1>6, <2>1, <2>2, <2>4, <3>2
  <2>5. CASE ~LessonIsComplete(new, Duration)
    <3>1. UNCHANGED lessonWallet
      BY <1>1, <1>5, <1>w, <1>v, <2>5
    <3> QED BY <1>6, <2>1, <2>2, <2>3, <2>5, <3>1
  <2> QED BY <2>4, <2>5
<1> QED BY <1>5, <1>8, <1>9, <1>10 DEF PlaybackSound

LEMMA PlaybackAlways == Spec => []PlaybackSound
<1>1. Base /\ PlaybackSound /\ [Next]_vars => PlaybackSound'
  <2>1. PlaybackSound => SegmentsTypeOK
    BY DEF PlaybackSound
  <2> QED BY <2>1, SessionsStayKept, CountedSteps, UncountedKeeps, CountedKeeps
<1> QED BY <1>1, PlaybackInitially, BaseAlways, PTL DEF Spec

\* Every row keeps its type, the merged segments included.
THEOREM TypeCorrect == Spec => []TypeOK
<1>1. Base /\ PlaybackSound => TypeOK
  BY DEF Base, PlaybackSound, TypeOK
<1> QED BY <1>1, BaseAlways, PlaybackAlways, PTL

\* However heartbeats of several sessions interleave, retry and fail, the
\* stored segments are exactly what the event rows played, each position once.
THEOREM SegmentsAlwaysWatched == Spec => []SegmentsAreWatched
<1>1. PlaybackSound => SegmentsAreWatched
  BY DEF PlaybackSound
<1> QED BY <1>1, PlaybackAlways, PTL

\* A video is completed exactly when 95% of its positions were played, for
\* every duration and every heartbeat policy.
THEOREM VideosAlwaysEarned == Spec => []VideosAreEarned
<1>1. PlaybackSound => VideosAreEarned
  BY DEF PlaybackSound
<1> QED BY <1>1, PlaybackAlways, PTL
=============================================================================
