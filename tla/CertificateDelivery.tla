------------------------ MODULE CertificateDelivery ------------------------
(***************************************************************************)
(* The Go certificate workers between the outbox and the chain.            *)
(*                                                                         *)
(* Each worker polls: a cycle (Runner.RunOnce) reads the clock once, looks  *)
(* for receipts of the broadcast jobs it can lease, then leases one job to *)
(* mint.  Every call to PostgreSQL or to the RPC node is one step of its   *)
(* own, so between any two of them other workers act, time passes, blocks  *)
(* arrive and the process may crash.                                       *)
(***************************************************************************)
EXTENDS MintOutbox, CertificateChain, Sequences

CONSTANTS
  MaxMintAttempts,            \* WORKER_MAX_ATTEMPTS
  MaxWorkerClock,             \* bound: the clock stops here
  MaxFaults,                  \* bound: faults of all kinds in a behaviour
  FaultKinds                  \* the kinds of fault a behaviour may show

ASSUME DeliveryAssumption ==
  /\ MaxMintAttempts \in Nat \ {0}
  /\ MaxWorkerClock \in Nat
  /\ MaxFaults \in Nat
  /\ FaultKinds \subseteq {"db", "rpc", "crash", "reorg", "drop", "slow"}

VARIABLES
  workerClock,                \* time.Now() of every worker's host
  faults,                     \* faults so far
  pc,                         \* where each worker is in its cycle
  now,                        \* its reading of the clock for this cycle
  batch,                      \* broadcast jobs it claimed and has yet to look at
  job,                        \* the job it is working on
  seen,                       \* the MintJob values its claims returned
  found                       \* token read from the chain, or hash just broadcast

local == <<pc, now, batch, job, seen, found>>
deliveryVars == <<rows, chain, workerClock, faults, local>>

WorkerSteps ==
  {"idle", "claimBroadcasts", "scan", "readMinted", "confirm", "retryReverted",
   "check", "reconcile", "mint", "record", "retry"}

NoJob == [attempts |-> 0, tx |-> Null]
Seen == [attempts : Nat, tx : Txs \union {Null}]

\* An exhausted job is never given back: retryOrFail marks it FAILED.
AttemptsBounded == \A j \in Jobs : outbox[j].attempts < MaxMintAttempts

LocalTypeOK ==
  /\ workerClock \in 0..MaxWorkerClock
  /\ faults \in 0..MaxFaults
  /\ pc \in [Workers -> WorkerSteps]
  /\ now \in [Workers -> 0..MaxWorkerClock]
  /\ batch \in [Workers -> SUBSET Jobs]
  /\ job \in [Workers -> Jobs \union {Null}]
  /\ seen \in [Workers -> [Jobs -> Seen]]
  /\ found \in [Workers -> Txs \union {Null}]

DeliveryTypeOK ==
  /\ JobRowsTypeOK
  /\ AttemptsBounded
  /\ ChainTypeOK
  /\ LocalTypeOK

DeliveryInit ==
  /\ RowsInit
  /\ ChainInit
  /\ workerClock = 0
  /\ faults = 0
  /\ pc = [w \in Workers |-> "idle"]
  /\ now = [w \in Workers |-> 0]
  /\ batch = [w \in Workers |-> {}]
  /\ job = [w \in Workers |-> Null]
  /\ seen = [w \in Workers |-> [j \in Jobs |-> NoJob]]
  /\ found = [w \in Workers |-> Null]

-----------------------------------------------------------------------------
(* Control flow of a worker.                                               *)

NoFault == UNCHANGED faults

Fault(kind) ==
  /\ kind \in FaultKinds
  /\ faults < MaxFaults
  /\ faults' = faults + 1

Goto(w, step) ==
  /\ pc' = [pc EXCEPT ![w] = step]
  /\ UNCHANGED <<now, batch, job, seen, found>>

GotoWith(w, step, value) ==
  /\ pc' = [pc EXCEPT ![w] = step]
  /\ found' = [found EXCEPT ![w] = value]
  /\ UNCHANGED <<now, batch, job, seen>>

\* RunOnce returns, or the process dies: nothing survives but the database.
EndCycle(w) ==
  /\ pc' = [pc EXCEPT ![w] = "idle"]
  /\ now' = [now EXCEPT ![w] = 0]
  /\ batch' = [batch EXCEPT ![w] = {}]
  /\ job' = [job EXCEPT ![w] = Null]
  /\ seen' = [seen EXCEPT ![w] = [j \in Jobs |-> NoJob]]
  /\ found' = [found EXCEPT ![w] = Null]

AsSeen(S) ==
  [j \in Jobs |-> IF j \in S
                  THEN [attempts |-> outbox[j].attempts, tx |-> completion[j].tx]
                  ELSE NoJob]

NextInBatch(w) == Goto(w, "scan")

StartCycle(w) ==
  /\ pc[w] = "idle"
  /\ pc' = [pc EXCEPT ![w] = "claimBroadcasts"]
  /\ now' = [now EXCEPT ![w] = workerClock]
  /\ UNCHANGED <<rows, chain, workerClock, faults, batch, job, seen, found>>

-----------------------------------------------------------------------------
(* retryOrFail: shared by both halves of a cycle.                          *)

\* 1 << (attempt - 1) seconds, the attempt capped at 8.
Backoff == <<1, 2, 4, 8, 16, 32, 64, 128>>
RetryDelay(attempt) == Backoff[IF attempt > 8 THEN 8 ELSE attempt]

\* Fault: the attempt is counted twice.
DoubleCount(w) == seen[w][job[w]].attempts + 2
Attempt(w) == seen[w][job[w]].attempts + 1

Exhausted(w) == Attempt(w) >= MaxMintAttempts

RetryOrFail(w) ==
  IF Exhausted(w)
  THEN MarkFailed(w, job[w], now[w])
  ELSE ScheduleRetry(w, job[w], Attempt(w), now[w] + RetryDelay(Attempt(w)), now[w])

-----------------------------------------------------------------------------
(* confirmBroadcasts                                                       *)

ClaimBroadcasts(w) ==
  /\ pc[w] = "claimBroadcasts"
  /\ \/ \E S \in SUBSET Jobs :
          /\ ClaimBroadcastJobs(w, S, now[w])
          /\ batch' = [batch EXCEPT ![w] = S]
          /\ seen' = [seen EXCEPT ![w] = AsSeen(S)]
          /\ pc' = [pc EXCEPT ![w] = "scan"]
          /\ UNCHANGED <<now, job, found>>
          /\ NoFault
     \/ Fault("db") /\ EndCycle(w) /\ UNCHANGED rows
  /\ UNCHANGED <<chain, workerClock>>

\* Not found, not confirmed yet, and an RPC error all leave the job for the
\* next cycle.
ReadReceipt(w) ==
  /\ pc[w] = "scan"
  /\ \E j \in batch[w] :
       LET t == seen[w][j].tx IN
       /\ batch' = [batch EXCEPT ![w] = @ \ {j}]
       /\ \/ /\ ~ReceiptConfirmed(t)
             /\ NoFault
             /\ UNCHANGED <<pc, job>>
          \/ /\ Fault("rpc")
             /\ UNCHANGED <<pc, job>>
          \/ /\ ReceiptConfirmed(t)
             /\ NoFault
             /\ job' = [job EXCEPT ![w] = j]
             /\ pc' = [pc EXCEPT ![w] =
                  IF txStatus[t] = "success" THEN "readMinted" ELSE "retryReverted"]
  /\ UNCHANGED <<rows, chain, workerClock, now, seen, found>>

\* ErrLeaseLost is not told apart here: any error ends the cycle.
RetryReverted(w) ==
  /\ pc[w] = "retryReverted"
  /\ \/ /\ NoFault
        /\ RetryOrFail(w)
        /\ IF Holds(w, job[w], now[w]) THEN NextInBatch(w) ELSE EndCycle(w)
     \/ Fault("db") /\ EndCycle(w) /\ (RetryOrFail(w) \/ UNCHANGED rows)
  /\ UNCHANGED <<chain, workerClock>>

ReadMinted(w) ==
  /\ pc[w] = "readMinted"
  /\ \/ /\ NoFault
        /\ \E token \in CertificateOf(job[w]) : GotoWith(w, "confirm", token)
     \/ /\ NoFault
        /\ CertificateOf(job[w]) = {}
        /\ EndCycle(w)
     \/ Fault("rpc") /\ EndCycle(w)
  /\ UNCHANGED <<rows, chain, workerClock>>

ConfirmMinted(w) ==
  LET j == job[w]
      Deliver == MarkConfirmed(w, j, seen[w][j].tx, found[w], now[w]) IN
  /\ pc[w] = "confirm"
  /\ \/ NoFault /\ Deliver /\ NextInBatch(w)
     \/ Fault("db") /\ EndCycle(w) /\ (Deliver \/ UNCHANGED rows)
  /\ UNCHANGED <<chain, workerClock>>

-----------------------------------------------------------------------------
(* processPending and processJob                                           *)

ClaimMint(w) ==
  /\ pc[w] = "scan" /\ batch[w] = {}
  /\ \/ \E j \in Jobs :
          /\ ClaimMintJob(w, j, now[w])
          /\ job' = [job EXCEPT ![w] = j]
          /\ seen' = [seen EXCEPT ![w] = AsSeen({j})]
          /\ pc' = [pc EXCEPT ![w] = "check"]
          /\ found' = [found EXCEPT ![w] = Null]
          /\ UNCHANGED <<now, batch>>
          /\ NoFault
     \/ NoFault /\ MintCandidates(now[w]) = {} /\ EndCycle(w) /\ UNCHANGED rows
     \/ Fault("db") /\ EndCycle(w) /\ UNCHANGED rows
  /\ UNCHANGED <<chain, workerClock>>

CheckExisting(w) ==
  /\ pc[w] = "check"
  /\ \/ /\ NoFault
        /\ \E token \in CertificateOf(job[w]) : GotoWith(w, "reconcile", token)
     \/ NoFault /\ CertificateOf(job[w]) = {} /\ Goto(w, "mint")
     \/ Fault("rpc") /\ Goto(w, "retry")
  /\ UNCHANGED <<rows, chain, workerClock>>

Reconcile(w) ==
  LET j == job[w]
      Deliver == MarkConfirmed(w, j, seen[w][j].tx, found[w], now[w]) IN
  /\ pc[w] = "reconcile"
  /\ \/ NoFault /\ Deliver /\ EndCycle(w)
     \/ Fault("db") /\ Goto(w, "retry") /\ (Deliver \/ UNCHANGED rows)
  /\ UNCHANGED <<chain, workerClock>>

\* Transact estimates gas on the latest block before it signs and sends.
\* Bound: a behaviour that has used up Txs can only fail here.
Mint(w) ==
  /\ pc[w] = "mint"
  /\ \/ /\ \/ ~MintSucceeds(job[w])
           \/ \A t \in Txs : txStatus[t] # "unsent"
        /\ NoFault
        /\ Goto(w, "retry")
        /\ UNCHANGED chain
     \/ Fault("rpc") /\ Goto(w, "retry") /\ UNCHANGED chain
     \/ /\ MintSucceeds(job[w])
        /\ \E t \in Txs :
             /\ Send(t, job[w])
             /\ \/ NoFault /\ GotoWith(w, "record", t)
                \/ Fault("rpc") /\ Goto(w, "retry")
  /\ UNCHANGED <<rows, workerClock>>

RecordBroadcast(w) ==
  LET Record == MarkBroadcast(w, job[w], found[w], now[w]) IN
  /\ pc[w] = "record"
  /\ \/ NoFault /\ Record /\ EndCycle(w)
     \/ Fault("db") /\ Goto(w, "retry") /\ (Record \/ UNCHANGED rows)
  /\ UNCHANGED <<chain, workerClock>>

Retry(w) ==
  /\ pc[w] = "retry"
  /\ \/ NoFault /\ RetryOrFail(w)
     \/ Fault("db") /\ (RetryOrFail(w) \/ UNCHANGED rows)
  /\ EndCycle(w)
  /\ UNCHANGED <<chain, workerClock>>

WorkerStep(w) ==
  \/ StartCycle(w)
  \/ ClaimBroadcasts(w) \/ ReadReceipt(w) \/ RetryReverted(w)
  \/ ReadMinted(w) \/ ConfirmMinted(w)
  \/ ClaimMint(w) \/ CheckExisting(w) \/ Reconcile(w)
  \/ Mint(w) \/ RecordBroadcast(w) \/ Retry(w)

\* The process stops anywhere in a cycle and starts again under its WORKER_ID.
Crash(w) ==
  /\ pc[w] # "idle"
  /\ Fault("crash")
  /\ EndCycle(w)
  /\ UNCHANGED <<rows, chain, workerClock>>

-----------------------------------------------------------------------------
(* The world around the workers.                                           *)

\* j can only go on once a lease runs out or a backoff ends.
Waiting(j) ==
  \/ outbox[j].status = "PENDING" /\ outbox[j].availableAt > workerClock
  \/ /\ outbox[j].status = "PROCESSING"
     /\ completion[j].status = "PENDING"
     /\ outbox[j].expires > workerClock
     /\ \A w \in Workers : job[w] # j

\* Unless calls may be slow, time passes only while some job waits for it.
TimePasses ==
  /\ workerClock < MaxWorkerClock
  /\ "slow" \in FaultKinds \/ \E j \in Jobs : Waiting(j)
  /\ workerClock' = workerClock + 1
  /\ UNCHANGED <<rows, chain, faults, local>>

Mine ==
  /\ \E t \in Txs : Include(t)
  /\ UNCHANGED <<rows, workerClock, faults, local>>

Confirm ==
  /\ \E t \in Txs : Finalize(t)
  /\ UNCHANGED <<rows, workerClock, faults, local>>

Reorganise ==
  /\ Fault("reorg")
  /\ \E S \in SUBSET Txs : Reorg(S)
  /\ UNCHANGED <<rows, workerClock, local>>

Forget ==
  /\ Fault("drop")
  /\ \E t \in Txs : Drop(t)
  /\ UNCHANGED <<rows, workerClock, local>>

DeliveryNext ==
  \/ \E w \in Workers : WorkerStep(w) \/ Crash(w)
  \/ TimePasses \/ Mine \/ Confirm \/ Reorganise \/ Forget

DeliverySpec == DeliveryInit /\ [][DeliveryNext]_deliveryVars

\* The poll loop never stops, blocks keep coming, and time passes.
Fairness ==
  /\ \A w \in Workers : WF_deliveryVars(WorkerStep(w))
  /\ WF_deliveryVars(Mine)
  /\ WF_deliveryVars(Confirm)
  /\ WF_deliveryVars(TimePasses)

FairSpec == DeliverySpec /\ Fairness

-----------------------------------------------------------------------------
(* Properties                                                              *)

\* A lease makes the claimed copy of a job trustworthy: as long as a worker
\* is still the owner of a job it is handling, the rows are exactly as its
\* claim read them, and the lease is alive on the worker's own old clock
\* reading, so none of its later writes acts on stale data.
Handled(w) == batch[w] \union {job[w]}

ClaimedCopyIsCurrent ==
  \A w \in Workers, j \in Jobs :
    (/\ j \in Handled(w)
     /\ outbox[j].owner = w
     /\ pc[w] # "retry")
    => /\ outbox[j].expires > now[w]
       /\ outbox[j].attempts = seen[w][j].attempts
       /\ completion[j].tx = seen[w][j].tx
       /\ completion[j].status \in {"PENDING", "MINTING"}

\* The outbox row and the completion row, written by one statement but by
\* two UPDATEs of which the second may match nothing, never disagree.
RowAgrees(j) ==
  /\ outbox[j].status = "PENDING" => completion[j].status = "PENDING"
  /\ outbox[j].status = "PROCESSING" =>
       completion[j].status \in {"PENDING", "MINTING"}
  /\ outbox[j].status = "DELIVERED" <=> completion[j].status = "MINTED"
  /\ outbox[j].status = "FAILED" <=> completion[j].status = "FAILED"
  /\ outbox[j].status = "PROCESSING" <=> outbox[j].owner # Null
  /\ completion[j].status = "PENDING" => completion[j].tx = Null

RowsAgree == \A j \in Jobs : RowAgrees(j)

\* A completion shown as MINTED carries the token of a final mint for that
\* very job, and the hash stored with it, if any, is of the transaction that
\* minted it: no reorganisation or second transaction can make it a lie.
MintedIsCertified ==
  \A j \in Jobs :
    completion[j].status = "MINTED" =>
      /\ completion[j].token \in ConfirmedTokens(j)
      /\ completion[j].tx \in {Null, completion[j].token}

\* confirmBroadcasts calls a final successful receipt without a certificate
\* an error of its own; that line is not reached.
ReceiptMeansCertificate ==
  \A w \in Workers :
    pc[w] = "readMinted" => ConfirmedTokens(job[w]) # {}

\* Attempts are counted one by one, by whichever worker holds the job: no
\* write of a worker that lost its lease sets the count back or skips one,
\* and a job is given up exactly when its last attempt fails.
CountsOne(j) ==
  /\ outbox'[j].attempts \in {outbox[j].attempts, outbox[j].attempts + 1}
  /\ outbox'[j].status = "FAILED" /\ outbox[j].status # "FAILED"
       => outbox[j].attempts = MaxMintAttempts - 1

AttemptsCounted == [][\A j \in Jobs : CountsOne(j)]_deliveryVars

\* The workers implement CertificateService.
Service == INSTANCE CertificateService WITH
  status <- [j \in Jobs |-> completion[j].status],
  certified <- {j \in Jobs : ConfirmedTokens(j) # {}}

ImplementsService == Service!Spec

\* No job stays MINTING: dropped and unknown transactions leave it in bounded
\* time (requirements.md:33 of the certificate delivery feature).
Settled(j) == completion[j].status \in {"MINTED", "FAILED"}

EverySettled == \A j \in Jobs : <>Settled(j)

\* A job whose recorded transaction the network has forgotten is looked at in
\* every cycle and never retried (runner.go:127).
Stranded(j) == completion[j].status = "MINTING" /\ txStatus[completion[j].tx] = "dropped"

\* Nothing else keeps a job: through failed and ambiguous calls, reverts,
\* crashes, reorganisations and expired leases it is minted or given up.
SettledUnlessStranded == \A j \in Jobs : <>(Settled(j) \/ Stranded(j))

\* A certificate that is final on the chain is reconciled into the database.
CertifiedIsDelivered ==
  \A j \in Jobs :
    ConfirmedTokens(j) # {} ~> completion[j].status = "MINTED"

-----------------------------------------------------------------------------
(* The inductive invariant behind the safety properties.                   *)

\* Where a worker is in its cycle says whether it has a job and a token.
PcOK ==
  \A w \in Workers :
    /\ pc[w] \in {"readMinted", "confirm", "retryReverted", "check",
                  "reconcile", "mint", "record", "retry"} => job[w] \in Jobs
    /\ pc[w] \in {"confirm", "reconcile", "record"} => found[w] \in Txs
    /\ pc[w] \in {"idle", "claimBroadcasts"} => job[w] = Null /\ batch[w] = {}

TypeInv == DeliveryTypeOK /\ PcOK

\* What worker w may rely on for the jobs it handles and still owns.  At
\* "retry" the hash may be stale: a write that failed may have taken effect.
CopyOf(w) ==
  \A j \in Jobs :
    j \in Handled(w) /\ outbox[j].owner = w =>
      /\ outbox[j].expires > now[w]
      /\ outbox[j].attempts = seen[w][j].attempts
      /\ pc[w] # "retry" => completion[j].tx = seen[w][j].tx

LeaseInv ==
  /\ TypeInv
  /\ RowsAgree
  /\ \A w \in Workers : CopyOf(w)

Sent(t, j) == t \in Txs /\ txJob[t] = j /\ txStatus[t] # "unsent"

ChainSound ==
  /\ \A t \in final : Included(t)
  /\ \A j \in Jobs, s \in Txs, t \in Txs : Mints(s, j) /\ Mints(t, j) => s = t

\* What the rows of j say of the chain.
RowSound(j) ==
  /\ completion[j].tx # Null => Sent(completion[j].tx, j)
  /\ completion[j].status = "MINTED" =>
       /\ completion[j].token \in ConfirmedTokens(j)
       /\ completion[j].tx \in {Null, completion[j].token}

\* What worker w knows of the chain.
KnowledgeSound(w) ==
  /\ \A j \in Jobs : seen[w][j].tx # Null => Sent(seen[w][j].tx, j)
  /\ pc[w] = "record" => Sent(found[w], job[w])
  /\ pc[w] \in {"readMinted", "confirm"} =>
       seen[w][job[w]].tx \in ConfirmedTokens(job[w])
  /\ pc[w] \in {"confirm", "reconcile"} =>
       found[w] \in ConfirmedTokens(job[w])
  /\ pc[w] \in {"check", "reconcile"} => seen[w][job[w]].tx = Null

\* All of it together is preserved by every step.
DeliveryInv ==
  /\ LeaseInv
  /\ ChainSound
  /\ \A j \in Jobs : RowSound(j)
  /\ \A w \in Workers : KnowledgeSound(w)
=============================================================================
