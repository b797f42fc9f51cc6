----------------------------- MODULE MintOutbox -----------------------------
(***************************************************************************)
(* The two PostgreSQL rows behind one certificate, and the six SQL         *)
(* statements the Go worker runs on them (queries/outbox.sql).             *)
(*                                                                         *)
(* A CourseCompletion row and its only OutboxEvent row are created in one  *)
(* transaction by the API, so a job is identified with the pair.  Every    *)
(* statement is one atomic step: it is a single SQL statement, and its     *)
(* candidates are read FOR UPDATE SKIP LOCKED.                             *)
(***************************************************************************)
EXTENDS MintJobs, Integers, FiniteSets

CONSTANTS
  Workers,                    \* worker ids
  Lease,                      \* leaseDuration, in ticks
  BroadcastLimit              \* rows one ClaimBroadcastJobs may take

ASSUME OutboxAssumption ==
  /\ Lease \in Nat \ {0}
  /\ BroadcastLimit \in Nat \ {0}
  /\ Null \notin Workers

VARIABLES
  outbox,                     \* OutboxEvent row of each job
  completion                  \* CourseCompletion row of each job

rows == <<outbox, completion>>

OutboxRow ==
  [status : {"PENDING", "PROCESSING", "DELIVERED", "FAILED"}, attempts : Nat,
   availableAt : Nat, owner : Workers \union {Null}, expires : Nat]

CompletionRow ==
  [status : {"PENDING", "MINTING", "MINTED", "FAILED"},
   tx : Txs \union {Null}, token : Txs \union {Null}]

JobRowsTypeOK ==
  /\ outbox \in [Jobs -> OutboxRow]
  /\ completion \in [Jobs -> CompletionRow]

\* As the API inserts them; availableAt defaults to the insertion time.
RowsInit ==
  /\ outbox = [j \in Jobs |->
       [status |-> "PENDING", attempts |-> 0, availableAt |-> 0,
        owner |-> Null, expires |-> 0]]
  /\ completion = [j \in Jobs |->
       [status |-> "PENDING", tx |-> Null, token |-> Null]]

-----------------------------------------------------------------------------
(* Candidates of the two claims, as the worker's reading `at` of the clock *)
(* sees them.                                                              *)

LeaseRunOut(j, at) == outbox[j].expires <= at

MintCandidates(at) ==
  {j \in Jobs :
     /\ completion[j].status = "PENDING"
     /\ \/ outbox[j].status = "PENDING" /\ outbox[j].availableAt <= at
        \/ outbox[j].status = "PROCESSING" /\ LeaseRunOut(j, at)}

\* ORDER BY "availableAt", then an order the model leaves open.
FirstMintCandidates(at) ==
  {j \in MintCandidates(at) :
     \A k \in MintCandidates(at) : outbox[j].availableAt <= outbox[k].availableAt}

\* Fault: only a row nobody leased is taken up again.
UnleasedBroadcasts(w, at) ==
  {j \in Jobs : completion[j].status = "MINTING" /\ outbox[j].owner = Null}

BroadcastCandidates(w, at) ==
  {j \in Jobs :
     /\ outbox[j].status = "PROCESSING"
     /\ completion[j].status = "MINTING"
     /\ completion[j].tx # Null
     /\ \/ outbox[j].owner = Null
        \/ LeaseRunOut(j, at)
        \/ outbox[j].owner = w}

LeaseTo(w, S, at) ==
  /\ outbox' = [j \in Jobs |->
       IF j \in S
       THEN [outbox[j] EXCEPT !.status = "PROCESSING", !.owner = w,
                              !.expires = at + Lease]
       ELSE outbox[j]]
  /\ UNCHANGED completion

ClaimMintJob(w, j, at) ==
  /\ j \in FirstMintCandidates(at)
  /\ LeaseTo(w, {j}, at)

ClaimBroadcastJobs(w, S, at) ==
  /\ S \subseteq BroadcastCandidates(w, at)
  /\ \/ S = BroadcastCandidates(w, at)
     \/ Cardinality(S) = BroadcastLimit
  /\ Cardinality(S) <= BroadcastLimit
  /\ LeaseTo(w, S, at)

-----------------------------------------------------------------------------
(* The four transitions.  Each is a CTE `held_outbox` that updates the     *)
(* outbox row of a holder, and an outer UPDATE of the completion.  The CTE *)
(* takes effect even when the outer UPDATE finds no row; the statement     *)
(* returns no row, which the worker reads as ErrLeaseLost, if either part  *)
(* found none.                                                             *)

\* Fault: the WHERE clause of held_outbox without its owner test.
HoldsIgnoringOwner(w, j, at) ==
  outbox[j].status = "PROCESSING" /\ outbox[j].expires > at

Holds(w, j, at) ==
  /\ outbox[j].status = "PROCESSING"
  /\ outbox[j].owner = w
  /\ outbox[j].expires > at

\* The tests of the outer UPDATEs on the recorded transaction hash.
AcceptsTx(j, t) == completion[j].tx \in {Null, t}

MarkBroadcast(w, j, t, at) ==
  /\ completion' =
       IF Holds(w, j, at) /\ AcceptsTx(j, t)
       THEN [completion EXCEPT ![j].status = "MINTING", ![j].tx = t]
       ELSE completion
  /\ UNCHANGED outbox

\* The outbox row of j once its lease is given up, and the row of a retry.
Released(j, s) ==
  [outbox[j] EXCEPT !.status = s, !.owner = Null, !.expires = 0]

Rescheduled(j, attempt, next) ==
  [Released(j, "PENDING") EXCEPT !.attempts = attempt, !.availableAt = next]

MarkConfirmed(w, j, t, token, at) ==
  /\ outbox' = IF Holds(w, j, at)
               THEN [outbox EXCEPT ![j] = Released(j, "DELIVERED")]
               ELSE outbox
  /\ completion' =
       IF Holds(w, j, at) /\ (t = Null \/ AcceptsTx(j, t))
       THEN [completion EXCEPT ![j].status = "MINTED", ![j].token = token,
                               ![j].tx = IF t = Null THEN @ ELSE t]
       ELSE completion

\* Fault: the retry leaves the old hash on the completion.
ScheduleRetryKeepingTx(w, j, attempt, next, at) ==
  IF Holds(w, j, at)
  THEN /\ outbox' = [outbox EXCEPT ![j] = Rescheduled(j, attempt, next)]
       /\ completion' = [completion EXCEPT ![j].status =
            IF @ = "MINTED" THEN "MINTED" ELSE "PENDING"]
  ELSE UNCHANGED rows

ScheduleRetry(w, j, attempt, next, at) ==
  IF Holds(w, j, at)
  THEN /\ outbox' = [outbox EXCEPT ![j] = Rescheduled(j, attempt, next)]
       /\ completion' =
            IF completion[j].status = "MINTED" THEN completion
            ELSE [completion EXCEPT ![j].status = "PENDING", ![j].tx = Null]
  ELSE UNCHANGED rows

MarkFailed(w, j, at) ==
  IF Holds(w, j, at)
  THEN /\ outbox' = [outbox EXCEPT ![j] = Released(j, "FAILED")]
       /\ completion' = [completion EXCEPT ![j].status = "FAILED"]
  ELSE UNCHANGED rows
=============================================================================
