---------------------- MODULE CertificateDeliveryProofs ----------------------
(***************************************************************************)
(* Theorems of CertificateDelivery, in two parts: type correctness with    *)
(* the lease argument (RowsAgree and the copies the workers hold), then    *)
(* the certificate argument (what the rows and the workers say of the      *)
(* chain is true, so a MINTED completion is certified), from which the     *)
(* safety properties and the refinement of CertificateService follow.      *)
(*                                                                         *)
(* For the leases every SQL statement is first reduced to what it changes  *)
(* (the Effect lemmas); the invariant is then proved action by action.     *)
(***************************************************************************)
EXTENDS CertificateDelivery, FiniteSetTheorems, TLAPS

\* The backoff table covers every attempt number.
LEMMA RetryDelayType ==
  ASSUME NEW attempt \in Nat \ {0}
  PROVE  RetryDelay(attempt) \in Nat
BY DEF RetryDelay, Backoff

\* Both claims leave well-typed rows and no attempt counted.
LEMMA LeaseType ==
  ASSUME JobRowsTypeOK, NEW w \in Workers, NEW S \in SUBSET Jobs,
         NEW at \in Nat, LeaseTo(w, S, at)
  PROVE  JobRowsTypeOK' /\ \A j \in Jobs : outbox'[j].attempts = outbox[j].attempts
<1>1. \A j \in Jobs : outbox[j] \in OutboxRow
  BY DEF JobRowsTypeOK
<1>2. at + Lease \in Nat
  BY OutboxAssumption DEF OutboxAssumption
<1>3. ASSUME NEW j \in Jobs
      PROVE  [outbox[j] EXCEPT !.status = "PROCESSING", !.owner = w,
      !.expires = at + Lease] \in OutboxRow
  BY <1>1, <1>2 DEF OutboxRow
<1>4. outbox' \in [Jobs -> OutboxRow]
  BY <1>1, <1>3, Zenon DEF LeaseTo
<1>5. \A j \in Jobs : outbox'[j].attempts = outbox[j].attempts
  BY <1>1 DEF LeaseTo, OutboxRow
<1>6. QED BY <1>4, <1>5 DEF JobRowsTypeOK, LeaseTo

\* The row of a job whose lease is given up.
LEMMA ReleasedType ==
  ASSUME JobRowsTypeOK, NEW j \in Jobs, NEW s \in {"PENDING", "DELIVERED",
         "FAILED"}
  PROVE  /\ Released(j, s) \in OutboxRow
         /\ Released(j, s).status = s
         /\ Released(j, s).attempts = outbox[j].attempts
         /\ Released(j, s).owner = Null
BY DEF JobRowsTypeOK, Released, OutboxRow

\* The row of a job given back for another attempt.
LEMMA RescheduledType ==
  ASSUME JobRowsTypeOK, NEW j \in Jobs, NEW attempt \in Nat, NEW next \in Nat
  PROVE  /\ Rescheduled(j, attempt, next) \in OutboxRow
         /\ Rescheduled(j, attempt, next).status = "PENDING"
         /\ Rescheduled(j, attempt, next).attempts = attempt
         /\ Rescheduled(j, attempt, next).owner = Null
<1>1. Released(j, "PENDING") \in OutboxRow /\ Released(j,
"PENDING").status = "PENDING"
      /\ Released(j, "PENDING").owner = Null
  BY ReleasedType
<1>2. QED BY <1>1 DEF Rescheduled, OutboxRow

\* What a claim returns are well-typed copies of the rows.
LEMMA AsSeenType ==
  ASSUME JobRowsTypeOK, NEW S \in SUBSET Jobs
  PROVE  AsSeen(S) \in [Jobs -> Seen]
BY DEF JobRowsTypeOK, AsSeen, OutboxRow, CompletionRow, Seen, NoJob

\* MarkConfirmed leaves well-typed rows and no attempt counted.
LEMMA MarkConfirmedType ==
  ASSUME JobRowsTypeOK, NEW w \in Workers, NEW j \in Jobs, NEW at \in Nat,
         NEW t \in Txs \union {Null}, NEW token \in Txs \union {Null},
         MarkConfirmed(w, j, t, token, at)
  PROVE  JobRowsTypeOK' /\ \A k \in Jobs : outbox'[k].attempts = outbox[k].attempts
<1>1. /\ Released(j, "DELIVERED") \in OutboxRow
      /\ Released(j, "DELIVERED").attempts = outbox[j].attempts
  BY ReleasedType
<1>2. completion' \in [Jobs -> CompletionRow]
  <2> DEFINE minted == [completion[j] EXCEPT !.status = "MINTED", !.token = token]
             row == [minted EXCEPT !.tx = IF t = Null THEN completion[j].tx ELSE t]
  <2>1. completion \in [Jobs -> CompletionRow] /\ completion[j] \in CompletionRow
    BY DEF JobRowsTypeOK
  <2>2. minted \in CompletionRow
    BY <2>1 DEF CompletionRow
  <2>3. row \in CompletionRow
    BY <2>1, <2>2 DEF CompletionRow
  <2>4. completion' \in {completion, [completion EXCEPT ![j] = row]}
    BY <2>1 DEF MarkConfirmed, CompletionRow
  <2> QED BY <2>1, <2>3, <2>4
<1>3. QED BY <1>1, <1>2 DEF JobRowsTypeOK, MarkConfirmed

\* MarkBroadcast leaves well-typed rows and the outbox alone.
LEMMA MarkBroadcastType ==
  ASSUME JobRowsTypeOK, NEW w \in Workers, NEW j \in Jobs, NEW at \in Nat,
         NEW t \in Txs, MarkBroadcast(w, j, t, at)
  PROVE  JobRowsTypeOK' /\ outbox' = outbox
<1> DEFINE minting == [completion[j] EXCEPT !.status = "MINTING"]
           row == [minting EXCEPT !.tx = t]
<1>1. completion \in [Jobs -> CompletionRow] /\ completion[j] \in CompletionRow
  BY DEF JobRowsTypeOK
<1>2. minting \in CompletionRow
  BY <1>1 DEF CompletionRow
<1>3. row \in CompletionRow
  BY <1>2 DEF CompletionRow
<1>4. completion' \in {completion, [completion EXCEPT ![j] = row]}
  BY <1>1 DEF MarkBroadcast, CompletionRow
<1>5. completion' \in [Jobs -> CompletionRow] /\ outbox' = outbox
  BY <1>1, <1>3, <1>4 DEF MarkBroadcast
<1> QED BY <1>5 DEF JobRowsTypeOK

\* ScheduleRetry leaves well-typed rows; an attempt count changes only to the
\* given one.
LEMMA ScheduleRetryType ==
  ASSUME JobRowsTypeOK, NEW w \in Workers, NEW j \in Jobs, NEW at \in Nat,
         NEW attempt \in Nat, NEW next \in Nat,
         ScheduleRetry(w, j, attempt, next, at)
  PROVE  /\ JobRowsTypeOK'
         /\ \A k \in Jobs : outbox'[k].attempts \in {outbox[k].attempts,
            attempt}
<1>1. /\ Rescheduled(j, attempt, next) \in OutboxRow
      /\ Rescheduled(j, attempt, next).attempts = attempt
  BY RescheduledType
<1>2. completion' \in [Jobs -> CompletionRow]
  BY DEF ScheduleRetry, JobRowsTypeOK, CompletionRow, rows
<1>3. QED BY <1>1, <1>2 DEF JobRowsTypeOK, ScheduleRetry, rows

\* MarkFailed leaves well-typed rows and no attempt counted.
LEMMA MarkFailedType ==
  ASSUME JobRowsTypeOK, NEW w \in Workers, NEW j \in Jobs, NEW at \in Nat,
         MarkFailed(w, j, at)
  PROVE  JobRowsTypeOK' /\ \A k \in Jobs : outbox'[k].attempts = outbox[k].attempts
<1>1. /\ Released(j, "FAILED") \in OutboxRow
      /\ Released(j, "FAILED").attempts = outbox[j].attempts
  BY ReleasedType
<1>2. completion' \in [Jobs -> CompletionRow]
  BY DEF MarkFailed, JobRowsTypeOK, CompletionRow, rows
<1>3. QED BY <1>1, <1>2 DEF JobRowsTypeOK, MarkFailed, rows

\* retryOrFail never writes a count that has reached MAX_ATTEMPTS.
LEMMA RetryOrFailType ==
  ASSUME DeliveryTypeOK, NEW w \in Workers, job[w] \in Jobs, RetryOrFail(w)
  PROVE  JobRowsTypeOK' /\ AttemptsBounded'
<1>1. now[w] \in Nat /\ seen[w][job[w]].attempts \in Nat
  BY DeliveryAssumption DEF DeliveryAssumption, DeliveryTypeOK, LocalTypeOK, Seen
<1>2. Attempt(w) \in Nat \ {0}
  BY <1>1 DEF Attempt
<1>3. CASE Exhausted(w)
  <2>1. MarkFailed(w, job[w], now[w])
    BY <1>3 DEF RetryOrFail
  <2>2. QED
    BY <1>1, <2>1, MarkFailedType DEF DeliveryTypeOK, AttemptsBounded
<1>4. CASE ~Exhausted(w)
  <2>1. now[w] + RetryDelay(Attempt(w)) \in Nat
    BY <1>1, <1>2, RetryDelayType
  <2>2. ScheduleRetry(w, job[w], Attempt(w), now[w] + RetryDelay(Attempt(w)),
                      now[w])
    BY <1>4 DEF RetryOrFail
  <2>3. Attempt(w) < MaxMintAttempts
    BY <1>2, <1>4, DeliveryAssumption DEF Exhausted, DeliveryAssumption
  <2>4. /\ JobRowsTypeOK'
        /\ \A k \in Jobs :
             outbox'[k].attempts \in {outbox[k].attempts, Attempt(w)}
    BY <1>1, <1>2, <2>1, <2>2, ScheduleRetryType, Zenon DEF DeliveryTypeOK
  <2>5. QED
    BY <2>3, <2>4, Zenon DEF DeliveryTypeOK, AttemptsBounded
<1>5. QED
  BY <1>3, <1>4

\* A confirmation, from either half of a cycle, leaves well-typed rows.
LEMMA DeliverType ==
  ASSUME DeliveryTypeOK, NEW w \in Workers, job[w] \in Jobs, found[w] \in Txs,
         MarkConfirmed(w, job[w], seen[w][job[w]].tx, found[w], now[w])
  PROVE  JobRowsTypeOK' /\ AttemptsBounded'
<1>1. now[w] \in Nat /\ seen[w][job[w]].tx \in Txs \union {Null}
  BY DeliveryAssumption DEF DeliveryAssumption, DeliveryTypeOK, LocalTypeOK, Seen
<1>2. QED
  BY <1>1, MarkConfirmedType DEF DeliveryTypeOK, AttemptsBounded

\* Ending a cycle leaves a well-typed worker with nothing in hand.
LEMMA EndCycleType ==
  ASSUME LocalTypeOK, PcOK, NEW w \in Workers, EndCycle(w),
         workerClock' \in 0..MaxWorkerClock, faults' \in 0..MaxFaults
  PROVE  LocalTypeOK' /\ PcOK'
<1>1. 0 \in 0..MaxWorkerClock
  BY DeliveryAssumption DEF DeliveryAssumption
<1>2. [j \in Jobs |-> NoJob] \in [Jobs -> Seen]
  BY DEF Seen, NoJob
<1>3. QED
  BY <1>1, <1>2 DEF LocalTypeOK, PcOK, EndCycle, WorkerSteps

\* Faults stay within their bound.
LEMMA FaultType ==
  ASSUME NEW kind, faults \in 0..MaxFaults, NoFault \/ Fault(kind)
  PROVE  faults' \in 0..MaxFaults
BY DeliveryAssumption DEF DeliveryAssumption, NoFault, Fault

\* Going on within a cycle leaves a well-typed worker.
LEMMA GotoType ==
  ASSUME LocalTypeOK, PcOK, NEW w \in Workers, NEW step \in WorkerSteps, Goto(w, step),
         workerClock' \in 0..MaxWorkerClock, faults' \in 0..MaxFaults,
         step \in {"scan", "mint", "retry"},
         step # "scan" => job[w] \in Jobs
  PROVE  LocalTypeOK' /\ PcOK'
BY DEF LocalTypeOK, PcOK, Goto, WorkerSteps

\* Going on with a token or a hash leaves a well-typed worker.
LEMMA GotoWithType ==
  ASSUME LocalTypeOK, PcOK, NEW w \in Workers, NEW step \in WorkerSteps,
         NEW value \in Txs,
         GotoWith(w, step, value),
         workerClock' \in 0..MaxWorkerClock, faults' \in 0..MaxFaults,
         step \in {"confirm", "reconcile", "record"}, job[w] \in Jobs
  PROVE  LocalTypeOK' /\ PcOK'
BY DEF LocalTypeOK, PcOK, GotoWith, WorkerSteps

\* Every step of the chain leaves it well-typed.
LEMMA ChainStepType ==
  ASSUME ChainTypeOK,
         \/ \E t \in Txs, j \in Jobs : Send(t, j)
         \/ \E t \in Txs : Include(t) \/ Finalize(t) \/ Drop(t)
         \/ \E S \in SUBSET Txs : Reorg(S)
         \/ UNCHANGED chain
  PROVE  ChainTypeOK'
BY DEF ChainTypeOK, Send, Include, Finalize, Drop, Reorg, chain

\* A step that writes no row leaves the rows well-typed.
LEMMA RowsUnchanged ==
  ASSUME UNCHANGED rows, JobRowsTypeOK, AttemptsBounded
  PROVE  JobRowsTypeOK' /\ AttemptsBounded'
BY DEF rows, JobRowsTypeOK, AttemptsBounded

\* A step of the world leaves the workers well-typed.
LEMMA LocalUnchanged ==
  ASSUME LocalTypeOK, PcOK, UNCHANGED local,
         workerClock' \in 0..MaxWorkerClock, faults' \in 0..MaxFaults
  PROVE  LocalTypeOK' /\ PcOK'
BY DEF LocalTypeOK, PcOK, local

\* The database as the API fills it, and workers at rest, are well-typed.
LEMMA TypeInvInit == DeliveryInit => TypeInv
<1> SUFFICES ASSUME DeliveryInit PROVE TypeInv
  OBVIOUS
<1>1. 0 \in 0..MaxWorkerClock /\ 0 \in 0..MaxFaults /\ 0 < MaxMintAttempts
  BY DeliveryAssumption DEF DeliveryAssumption
<1>2. JobRowsTypeOK /\ AttemptsBounded
  BY <1>1
    DEF DeliveryInit, RowsInit, JobRowsTypeOK, AttemptsBounded, OutboxRow, CompletionRow
<1>3. ChainTypeOK
  BY DEF DeliveryInit, ChainInit, ChainTypeOK
<1>4. [j \in Jobs |-> NoJob] \in [Jobs -> Seen]
  BY DEF Seen, NoJob
<1>5. LocalTypeOK /\ PcOK
  BY <1>1, <1>4 DEF DeliveryInit, LocalTypeOK, PcOK, WorkerSteps
<1>6. QED
  BY <1>2, <1>3, <1>5 DEF TypeInv, DeliveryTypeOK

\* Every step of a worker, of the chain and of time preserves the types.
LEMMA TypeInvNext == TypeInv /\ [DeliveryNext]_deliveryVars => TypeInv'
<1> SUFFICES ASSUME TypeInv, [DeliveryNext]_deliveryVars PROVE TypeInv'
  OBVIOUS
<1> USE DEF TypeInv
<1>0. JobRowsTypeOK /\ AttemptsBounded /\ ChainTypeOK /\ LocalTypeOK /\ PcOK
  BY DEF DeliveryTypeOK
<1>p. /\ JobRowsTypeOK' /\ AttemptsBounded'
      /\ ChainTypeOK'
      /\ LocalTypeOK' /\ PcOK'
      => TypeInv'
  BY DEF DeliveryTypeOK, AttemptsBounded, LocalTypeOK
<1>c. workerClock \in 0..MaxWorkerClock /\ faults \in 0..MaxFaults
  BY <1>0 DEF LocalTypeOK
<1>n. \A w \in Workers : now[w] \in Nat
  BY <1>0, DeliveryAssumption DEF LocalTypeOK, DeliveryAssumption
<1>f. (NoFault \/ \E kind \in FaultKinds : Fault(kind))
      => faults' \in 0..MaxFaults
  BY <1>c, DeliveryAssumption DEF DeliveryAssumption, NoFault, Fault
<1>1. ASSUME NEW w \in Workers, StartCycle(w) PROVE TypeInv'
  <2>1. LocalTypeOK' /\ PcOK'
    BY <1>0, <1>1 DEF StartCycle, LocalTypeOK, PcOK, WorkerSteps
  <2>2. UNCHANGED rows /\ UNCHANGED chain
    BY <1>1 DEF StartCycle
  <2> QED
    BY <1>0, <1>p, <2>1, <2>2, RowsUnchanged, ChainStepType
<1>2. ASSUME NEW w \in Workers, ClaimBroadcasts(w) PROVE TypeInv'
  <2>1. UNCHANGED chain /\ workerClock' \in 0..MaxWorkerClock /\ faults' \in 0..MaxFaults
    BY <1>2, <1>c, <1>f DEF ClaimBroadcasts, Fault
  <2>2. ASSUME NEW S \in SUBSET Jobs, ClaimBroadcastJobs(w, S, now[w]),
               batch' = [batch EXCEPT ![w] = S],
               seen' = [seen EXCEPT ![w] = AsSeen(S)],
               pc' = [pc EXCEPT ![w] = "scan"], UNCHANGED <<now, job, found>>
        PROVE  TypeInv'
    <3>1. JobRowsTypeOK' /\ AttemptsBounded'
      BY <1>0, <2>2, <1>n, LeaseType DEF ClaimBroadcastJobs, AttemptsBounded
    <3>2. AsSeen(S) \in [Jobs -> Seen]
      BY <1>0, AsSeenType
    <3>3. LocalTypeOK' /\ PcOK'
      BY <1>0, <2>1, <2>2, <3>2 DEF LocalTypeOK, PcOK, WorkerSteps
    <3> QED
      BY <1>0, <1>p, <2>1, <3>1, <3>3, ChainStepType
  <2>3. ASSUME EndCycle(w), UNCHANGED rows PROVE TypeInv'
    BY <1>0, <1>p, <2>1, <2>3, EndCycleType, RowsUnchanged, ChainStepType
  <2> QED
    BY <1>2, <2>2, <2>3 DEF ClaimBroadcasts
<1>3. ASSUME NEW w \in Workers, ReadReceipt(w) PROVE TypeInv'
  <2>1. /\ UNCHANGED rows /\ UNCHANGED chain
        /\ workerClock' \in 0..MaxWorkerClock /\ faults' \in 0..MaxFaults
    BY <1>3, <1>c, <1>f DEF ReadReceipt, Fault
  <2>2. PICK j \in batch[w] :
          /\ batch' = [batch EXCEPT ![w] = @ \ {j}]
          /\ \/ UNCHANGED <<pc, job>>
             \/ /\ job' = [job EXCEPT ![w] = j]
                /\ \E step \in {"readMinted",
                   "retryReverted"} : pc' = [pc EXCEPT ![w] = step]
    BY <1>3 DEF ReadReceipt
  <2>3. pc[w] = "scan" /\ UNCHANGED <<now, seen, found>> /\ j \in Jobs
    BY <1>3, <1>0 DEF ReadReceipt, LocalTypeOK
  <2>4. LocalTypeOK' /\ PcOK'
    BY <1>0, <2>1, <2>2, <2>3 DEF LocalTypeOK, PcOK, WorkerSteps
  <2> QED
    BY <1>0, <1>p, <2>1, <2>4, RowsUnchanged, ChainStepType
<1>4. ASSUME NEW w \in Workers, RetryReverted(w) PROVE TypeInv'
  <2>1. UNCHANGED chain /\ workerClock' \in 0..MaxWorkerClock /\ faults' \in 0..MaxFaults
    BY <1>4, <1>c, <1>f DEF RetryReverted, Fault
  <2>2. job[w] \in Jobs
    BY <1>4, <1>0 DEF RetryReverted, PcOK
  <2>3. JobRowsTypeOK' /\ AttemptsBounded'
    BY <1>4, <1>0, <2>2, RetryOrFailType, RowsUnchanged DEF RetryReverted
  <2>4. EndCycle(w) \/ Goto(w, "scan")
    BY <1>4 DEF RetryReverted, NextInBatch
  <2>5. LocalTypeOK' /\ PcOK'
    BY <1>0, <2>1, <2>4, EndCycleType, GotoType DEF WorkerSteps
  <2> QED
    BY <1>0, <1>p, <2>1, <2>3, <2>5, ChainStepType
<1>5. ASSUME NEW w \in Workers, ReadMinted(w) PROVE TypeInv'
  <2>1. /\ UNCHANGED rows /\ UNCHANGED chain
        /\ workerClock' \in 0..MaxWorkerClock /\ faults' \in 0..MaxFaults
    BY <1>5, <1>c, <1>f DEF ReadMinted, Fault
  <2>2. job[w] \in Jobs
    BY <1>5, <1>0 DEF ReadMinted, PcOK
  <2>3. EndCycle(w) \/ \E token \in Txs : GotoWith(w, "confirm", token)
    BY <1>5, <1>0 DEF ReadMinted, CertificateOf, ConfirmedTokens, ChainTypeOK
  <2>4. LocalTypeOK' /\ PcOK'
    BY <1>0, <2>1, <2>2, <2>3, EndCycleType, GotoWithType DEF WorkerSteps
  <2> QED
    BY <1>0, <1>p, <2>1, <2>4, RowsUnchanged, ChainStepType
<1>6. ASSUME NEW w \in Workers, ConfirmMinted(w) PROVE TypeInv'
  <2>1. UNCHANGED chain /\ workerClock' \in 0..MaxWorkerClock /\ faults' \in 0..MaxFaults
    BY <1>6, <1>c, <1>f DEF ConfirmMinted, Fault
  <2>2. job[w] \in Jobs /\ found[w] \in Txs
    BY <1>6, <1>0 DEF ConfirmMinted, PcOK
  <2>3. JobRowsTypeOK' /\ AttemptsBounded'
    BY <1>6, <1>0, <2>2, DeliverType, RowsUnchanged DEF ConfirmMinted
  <2>4. EndCycle(w) \/ Goto(w, "scan")
    BY <1>6 DEF ConfirmMinted, NextInBatch
  <2>5. LocalTypeOK' /\ PcOK'
    BY <1>0, <2>1, <2>4, EndCycleType, GotoType DEF WorkerSteps
  <2> QED
    BY <1>0, <1>p, <2>1, <2>3, <2>5, ChainStepType
<1>7. ASSUME NEW w \in Workers, ClaimMint(w) PROVE TypeInv'
  <2>1. UNCHANGED chain /\ workerClock' \in 0..MaxWorkerClock /\ faults' \in 0..MaxFaults
    BY <1>7, <1>c, <1>f DEF ClaimMint, Fault
  <2>2. ASSUME NEW j \in Jobs, ClaimMintJob(w, j, now[w]),
               job' = [job EXCEPT ![w] = j],
               seen' = [seen EXCEPT ![w] = AsSeen({j})],
               pc' = [pc EXCEPT ![w] = "check"],
               found' = [found EXCEPT ![w] = Null], UNCHANGED <<now, batch>>
        PROVE  TypeInv'
    <3>1. JobRowsTypeOK' /\ AttemptsBounded'
      BY <1>0, <2>2, <1>n, LeaseType DEF ClaimMintJob, AttemptsBounded
    <3>2. AsSeen({j}) \in [Jobs -> Seen]
      BY <1>0, AsSeenType
    <3>3. LocalTypeOK' /\ PcOK'
      BY <1>0, <2>1, <2>2, <3>2 DEF LocalTypeOK, PcOK, WorkerSteps
    <3> QED
      BY <1>0, <1>p, <2>1, <3>1, <3>3, ChainStepType
  <2>3. ASSUME EndCycle(w), UNCHANGED rows PROVE TypeInv'
    BY <1>0, <1>p, <2>1, <2>3, EndCycleType, RowsUnchanged, ChainStepType
  <2> QED
    BY <1>7, <2>2, <2>3 DEF ClaimMint
<1>8. ASSUME NEW w \in Workers, CheckExisting(w) PROVE TypeInv'
  <2>1. /\ UNCHANGED rows /\ UNCHANGED chain
        /\ workerClock' \in 0..MaxWorkerClock /\ faults' \in 0..MaxFaults
    BY <1>8, <1>c, <1>f DEF CheckExisting, Fault
  <2>2. job[w] \in Jobs
    BY <1>8, <1>0 DEF CheckExisting, PcOK
  <2>3. \/ Goto(w, "mint") \/ Goto(w, "retry")
        \/ \E token \in Txs : GotoWith(w, "reconcile", token)
    BY <1>8, <1>0 DEF CheckExisting, CertificateOf, ConfirmedTokens, ChainTypeOK
  <2>4. LocalTypeOK' /\ PcOK'
    BY <1>0, <2>1, <2>2, <2>3, GotoType, GotoWithType DEF WorkerSteps
  <2> QED
    BY <1>0, <1>p, <2>1, <2>4, RowsUnchanged, ChainStepType
<1>9. ASSUME NEW w \in Workers, Reconcile(w) PROVE TypeInv'
  <2>1. UNCHANGED chain /\ workerClock' \in 0..MaxWorkerClock /\ faults' \in 0..MaxFaults
    BY <1>9, <1>c, <1>f DEF Reconcile, Fault
  <2>2. job[w] \in Jobs /\ found[w] \in Txs
    BY <1>9, <1>0 DEF Reconcile, PcOK
  <2>3. JobRowsTypeOK' /\ AttemptsBounded'
    BY <1>9, <1>0, <2>2, DeliverType, RowsUnchanged DEF Reconcile
  <2>4. EndCycle(w) \/ Goto(w, "retry")
    BY <1>9 DEF Reconcile
  <2>5. LocalTypeOK' /\ PcOK'
    BY <1>0, <2>1, <2>2, <2>4, EndCycleType, GotoType DEF WorkerSteps
  <2> QED
    BY <1>0, <1>p, <2>1, <2>3, <2>5, ChainStepType
<1>10. ASSUME NEW w \in Workers, Mint(w) PROVE TypeInv'
  <2>1. UNCHANGED rows /\ workerClock' \in 0..MaxWorkerClock /\ faults' \in 0..MaxFaults
    BY <1>10, <1>c, <1>f DEF Mint, Fault
  <2>2. job[w] \in Jobs
    BY <1>10, <1>0 DEF Mint, PcOK
  <2>3. ChainTypeOK'
    BY <1>10, <1>0, <2>2, ChainStepType DEF Mint
  <2>4. Goto(w, "retry") \/ \E t \in Txs : GotoWith(w, "record", t)
    BY <1>10 DEF Mint
  <2>5. LocalTypeOK' /\ PcOK'
    BY <1>0, <2>1, <2>2, <2>4, GotoType, GotoWithType DEF WorkerSteps
  <2> QED
    BY <1>0, <1>p, <2>1, <2>3, <2>5, RowsUnchanged
<1>11. ASSUME NEW w \in Workers, RecordBroadcast(w) PROVE TypeInv'
  <2>1. UNCHANGED chain /\ workerClock' \in 0..MaxWorkerClock /\ faults' \in 0..MaxFaults
    BY <1>11, <1>c, <1>f DEF RecordBroadcast, Fault
  <2>2. job[w] \in Jobs /\ found[w] \in Txs /\ now[w] \in Nat
    BY <1>11, <1>0, DeliveryAssumption
      DEF RecordBroadcast, PcOK, LocalTypeOK, DeliveryAssumption
  <2>3. JobRowsTypeOK' /\ AttemptsBounded'
    BY <1>11, <1>0, <2>2, MarkBroadcastType, RowsUnchanged
      DEF RecordBroadcast, AttemptsBounded
  <2>4. EndCycle(w) \/ Goto(w, "retry")
    BY <1>11 DEF RecordBroadcast
  <2>5. LocalTypeOK' /\ PcOK'
    BY <1>0, <2>1, <2>2, <2>4, EndCycleType, GotoType DEF WorkerSteps
  <2> QED
    BY <1>0, <1>p, <2>1, <2>3, <2>5, ChainStepType
<1>12. ASSUME NEW w \in Workers, Retry(w) PROVE TypeInv'
  <2>1. UNCHANGED chain /\ workerClock' \in 0..MaxWorkerClock /\ faults' \in 0..MaxFaults
    BY <1>12, <1>c, <1>f DEF Retry, Fault
  <2>2. job[w] \in Jobs
    BY <1>12, <1>0 DEF Retry, PcOK
  <2>3. JobRowsTypeOK' /\ AttemptsBounded'
    BY <1>12, <1>0, <2>2, RetryOrFailType, RowsUnchanged DEF Retry
  <2>5. LocalTypeOK' /\ PcOK'
    BY <1>0, <1>12, <2>1, EndCycleType DEF Retry
  <2> QED
    BY <1>0, <1>p, <2>1, <2>3, <2>5, ChainStepType
<1>13. ASSUME NEW w \in Workers, Crash(w) PROVE TypeInv'
  <2>1. /\ UNCHANGED rows /\ UNCHANGED chain
        /\ workerClock' \in 0..MaxWorkerClock /\ faults' \in 0..MaxFaults
    BY <1>13, <1>c, <1>f DEF Crash, Fault
  <2>2. LocalTypeOK' /\ PcOK'
    BY <1>0, <1>13, <2>1, EndCycleType DEF Crash
  <2> QED
    BY <1>0, <1>p, <2>1, <2>2, RowsUnchanged, ChainStepType
<1>14. ASSUME TimePasses \/ Mine \/ Confirm \/ Reorganise \/ Forget \/ UNCHANGED deliveryVars
       PROVE  TypeInv'
  <2>1. UNCHANGED rows /\ UNCHANGED local
    BY <1>14 DEF TimePasses, Mine, Confirm, Reorganise, Forget, deliveryVars
  <2>2. workerClock' \in 0..MaxWorkerClock
    BY <1>14, <1>c, DeliveryAssumption
    DEF DeliveryAssumption, TimePasses, Mine, Confirm, Reorganise, Forget, deliveryVars
  <2>3. faults' \in 0..MaxFaults
    BY <1>14, <1>c, <1>f
      DEF Fault, TimePasses, Mine, Confirm, Reorganise, Forget, deliveryVars
  <2>4. ChainTypeOK'
    BY <1>14, <1>0, ChainStepType
      DEF TimePasses, Mine, Confirm, Reorganise, Forget, deliveryVars
  <2> QED
    BY <1>0, <1>p, <2>1, <2>2, <2>3, <2>4, RowsUnchanged, LocalUnchanged
<1> QED
  BY <1>1, <1>2, <1>3, <1>4, <1>5, <1>6, <1>7, <1>8, <1>9, <1>10, <1>11,
     <1>12, <1>13, <1>14 DEF DeliveryNext, WorkerStep

\* Rows, chain and workers stay well-typed, whatever the interleaving and the
\* faults; in particular no job waits for more attempts than WORKER_MAX_ATTEMPTS
\* allows (runner.go, retryOrFail).
THEOREM TypeCorrect == DeliverySpec => []DeliveryTypeOK
<1>1. TypeInv => DeliveryTypeOK
  BY DEF TypeInv
<1> QED
  BY TypeInvInit, TypeInvNext, <1>1, PTL DEF DeliverySpec

-----------------------------------------------------------------------------
(* The lease argument.                                                     *)

\* The rows of k are not written.
Kept(k) == outbox'[k] = outbox[k] /\ completion'[k] = completion[k]

\* What the two claims change.
LEMMA LeaseEffect ==
  ASSUME JobRowsTypeOK, RowsAgree, NEW w \in Workers, NEW S \in SUBSET Jobs,
         NEW at \in Nat, LeaseTo(w, S, at),
         \A j \in S : completion[j].status \in {"PENDING", "MINTING"}
  PROVE  /\ RowsAgree'
         /\ \A j \in Jobs \ S : Kept(j)
         /\ \A j \in S : /\ outbox'[j].owner = w
                         /\ outbox'[j].expires > at
                         /\ outbox'[j].attempts = outbox[j].attempts
         /\ completion' = completion
<1>0. at + Lease > at
  BY OutboxAssumption DEF OutboxAssumption
<1>1. \A j \in S : /\ outbox'[j].owner = w
                   /\ outbox'[j].expires = at + Lease
                   /\ outbox'[j].status = "PROCESSING"
                   /\ outbox'[j].attempts = outbox[j].attempts
  BY DEF LeaseTo, JobRowsTypeOK, OutboxRow
<1>2. \A j \in Jobs \ S : outbox'[j] = outbox[j]
  BY DEF LeaseTo
<1>3. completion' = completion
  BY DEF LeaseTo
<1>4. ASSUME NEW j \in Jobs PROVE RowAgrees(j)'
  <2>1. CASE j \in S
    BY <1>1, <1>3, <2>1, OutboxAssumption
      DEF OutboxAssumption, RowAgrees, RowsAgree
  <2>2. CASE j \notin S
    BY <1>2, <1>3, <2>2 DEF RowAgrees, RowsAgree
  <2> QED BY <2>1, <2>2
<1> QED
  BY <1>0, <1>1, <1>2, <1>3, <1>4 DEF Kept, RowsAgree, RowAgrees

\* RowsAgree, when one job changes.
LEMMA RowsAgreeStep ==
  ASSUME RowsAgree, NEW j \in Jobs, RowAgrees(j)', \A k \in Jobs \ {j} : Kept(k)
  PROVE  RowsAgree'
BY DEF RowsAgree, RowAgrees, Kept

\* What MarkConfirmed changes when its hash is the recorded one: both rows, or
\* neither.
LEMMA MarkConfirmedEffect ==
  ASSUME JobRowsTypeOK, RowsAgree, NEW w \in Workers, NEW j \in Jobs, NEW at,
         NEW t \in Txs \union {Null}, NEW token,
         MarkConfirmed(w, j, t, token, at),
         Holds(w, j, at) => completion[j].tx = t
  PROVE  /\ RowsAgree'
         /\ \A k \in Jobs \ {j} : Kept(k)
         /\ Kept(j) \/ outbox'[j].owner = Null
         /\ outbox'[j].attempts = outbox[j].attempts
         /\ outbox'[j].status \in {outbox[j].status, "DELIVERED"}
<1>1. CASE Holds(w, j, at)
  <2>1. /\ outbox' = [outbox EXCEPT ![j] = Released(j, "DELIVERED")]
        /\ completion' = [completion EXCEPT ![j].status = "MINTED",
                                         ![j].token = token,
                                         ![j].tx = IF t = Null THEN @ ELSE t]
    BY <1>1 DEF MarkConfirmed, AcceptsTx
  <2>2. /\ outbox'[j].status = "DELIVERED"
        /\ outbox'[j].owner = Null
        /\ outbox'[j].attempts = outbox[j].attempts
        /\ completion'[j].status = "MINTED"
        /\ \A k \in Jobs \ {j} : Kept(k)
    BY <2>1, ReleasedType DEF JobRowsTypeOK, CompletionRow, Kept
  <2>3. RowAgrees(j)'
    BY <2>2 DEF RowAgrees
  <2> QED BY <2>2, <2>3, RowsAgreeStep
<1>2. CASE ~Holds(w, j, at)
  BY <1>2 DEF MarkConfirmed, RowsAgree, RowAgrees, Kept
<1> QED BY <1>1, <1>2

\* What MarkBroadcast changes.
LEMMA MarkBroadcastEffect ==
  ASSUME JobRowsTypeOK, RowsAgree, NEW w \in Workers, NEW j \in Jobs, NEW at,
         NEW t \in Txs, MarkBroadcast(w, j, t, at)
  PROVE  /\ RowsAgree'
         /\ \A k \in Jobs \ {j} : Kept(k)
         /\ outbox' = outbox
         /\ Kept(j) \/ outbox'[j].owner = w
<1>1. CASE Holds(w, j, at) /\ AcceptsTx(j, t)
  <2>1. /\ outbox' = outbox
        /\ completion'[j].status = "MINTING"
        /\ \A k \in Jobs \ {j} : Kept(k)
    BY <1>1 DEF MarkBroadcast, JobRowsTypeOK, CompletionRow, Kept
  <2>2. RowAgrees(j)'
    BY <1>1, <2>1 DEF RowAgrees, RowsAgree, Holds
  <2> QED BY <1>1, <2>1, <2>2, RowsAgreeStep DEF Holds
<1>2. CASE ~(Holds(w, j, at) /\ AcceptsTx(j, t))
  BY <1>2 DEF MarkBroadcast, RowsAgree, RowAgrees, Kept
<1> QED BY <1>1, <1>2

\* What ScheduleRetry changes.
LEMMA ScheduleRetryEffect ==
  ASSUME JobRowsTypeOK, RowsAgree, NEW w \in Workers, NEW j \in Jobs, NEW at,
         NEW attempt \in Nat, NEW next \in Nat,
         ScheduleRetry(w, j, attempt, next, at)
  PROVE  /\ RowsAgree'
         /\ \A k \in Jobs \ {j} : Kept(k)
         /\ \/ Kept(j)
            \/ /\ Holds(w, j, at)
               /\ outbox'[j].owner = Null
               /\ outbox'[j].attempts = attempt
               /\ outbox'[j].status = "PENDING"
               /\ completion'[j].status = "PENDING"
<1>1. CASE Holds(w, j, at)
  <2>1. completion[j].status # "MINTED"
    BY <1>1 DEF Holds, RowsAgree, RowAgrees
  <2>2. /\ outbox' = [outbox EXCEPT ![j] = Rescheduled(j, attempt, next)]
        /\ completion' = [completion EXCEPT ![j].status = "PENDING",
                                         ![j].tx = Null]
    BY <1>1, <2>1 DEF ScheduleRetry
  <2>3. /\ outbox'[j].status = "PENDING"
        /\ outbox'[j].owner = Null
        /\ outbox'[j].attempts = attempt
        /\ completion'[j].status = "PENDING"
        /\ completion'[j].tx = Null
        /\ \A k \in Jobs \ {j} : Kept(k)
    BY <2>2, RescheduledType DEF JobRowsTypeOK, CompletionRow, Kept
  <2>4. RowAgrees(j)'
    BY <2>3 DEF RowAgrees
  <2> QED BY <1>1, <2>3, <2>4, RowsAgreeStep
<1>2. CASE ~Holds(w, j, at)
  BY <1>2 DEF ScheduleRetry, RowsAgree, RowAgrees, Kept, rows
<1> QED BY <1>1, <1>2

\* What MarkFailed changes.
LEMMA MarkFailedEffect ==
  ASSUME JobRowsTypeOK, RowsAgree, NEW w \in Workers, NEW j \in Jobs, NEW at,
         MarkFailed(w, j, at)
  PROVE  /\ RowsAgree'
         /\ \A k \in Jobs \ {j} : Kept(k)
         /\ \/ Kept(j)
            \/ /\ Holds(w, j, at)
               /\ outbox'[j].owner = Null
               /\ outbox'[j].attempts = outbox[j].attempts
               /\ completion'[j].status = "FAILED"
<1>1. CASE Holds(w, j, at)
  <2>2. /\ outbox' = [outbox EXCEPT ![j] = Released(j, "FAILED")]
        /\ completion' = [completion EXCEPT ![j].status = "FAILED"]
    BY <1>1 DEF MarkFailed
  <2>3. /\ outbox'[j].status = "FAILED"
        /\ outbox'[j].owner = Null
        /\ outbox'[j].attempts = outbox[j].attempts
        /\ completion'[j].status = "FAILED"
        /\ \A k \in Jobs \ {j} : Kept(k)
    BY <2>2, ReleasedType DEF JobRowsTypeOK, CompletionRow, Kept
  <2>4. RowAgrees(j)'
    BY <2>3 DEF RowAgrees
  <2> QED BY <1>1, <2>3, <2>4, RowsAgreeStep
<1>2. CASE ~Holds(w, j, at)
  BY <1>2 DEF MarkFailed, RowsAgree, RowAgrees, Kept, rows
<1> QED BY <1>1, <1>2

\* Only worker w moves.
LocalsKept(v) ==
  /\ pc'[v] = pc[v]
  /\ now'[v] = now[v]
  /\ batch'[v] = batch[v]
  /\ job'[v] = job[v]
  /\ seen'[v] = seen[v]

\* A worker's write touches no row that another worker owns.
RowsKeptFor(v) ==
  \A k \in Jobs : Kept(k) \/ outbox'[k].owner # v

\* A worker that does not move keeps a current copy if no row it owns is written.
LEMMA CopyKept ==
  ASSUME NEW v, CopyOf(v), LocalsKept(v), RowsKeptFor(v)
  PROVE  CopyOf(v)'
BY DEF CopyOf, LocalsKept, RowsKeptFor, Kept, Handled

\* A worker that ends its cycle claims nothing of any row.
LEMMA EndCycleCopy ==
  ASSUME LocalTypeOK, NEW w \in Workers, EndCycle(w)
  PROVE  CopyOf(w)' /\ \A v \in Workers \ {w} : LocalsKept(v)
BY MintJobsAssumption
  DEF MintJobsAssumption, LocalTypeOK, EndCycle, CopyOf, Handled, LocalsKept

\* Going on changes nothing another worker sees.
LEMMA GotoLocals ==
  ASSUME LocalTypeOK, NEW w \in Workers, NEW step, NEW value,
         Goto(w, step) \/ GotoWith(w, step, value)
  PROVE  /\ pc'[w] = step
         /\ UNCHANGED <<now, batch, job, seen>>
         /\ Handled(w)' = Handled(w)
         /\ \A v \in Workers \ {w} : LocalsKept(v)
BY DEF LocalTypeOK, Goto, GotoWith, Handled, LocalsKept

\* A worker that goes on keeps a current copy of the rows it still owns.
LEMMA GotoCopy ==
  ASSUME LocalTypeOK, NEW w \in Workers, NEW step, NEW value,
         Goto(w, step) \/ GotoWith(w, step, value),
         CopyOf(w), pc[w] # "retry",
         \A k \in Jobs : Kept(k) \/ outbox'[k].owner # w
  PROVE  CopyOf(w)'
BY GotoLocals DEF CopyOf, Kept

\* A confirmation by a worker with a current copy keeps the two rows of a job
\* in agreement.
LEMMA DeliverEffect ==
  ASSUME JobRowsTypeOK, LocalTypeOK, RowsAgree, NEW w \in Workers, CopyOf(w),
         pc[w] # "retry", job[w] \in Jobs,
         MarkConfirmed(w, job[w], seen[w][job[w]].tx, found[w], now[w])
  PROVE  /\ RowsAgree'
         /\ \A k \in Jobs : Kept(k) \/ outbox'[k].owner = Null
<1>1. seen[w][job[w]].tx \in Txs \union {Null}
  BY DEF LocalTypeOK, Seen
<1>2. Holds(w, job[w], now[w]) => completion[job[w]].tx = seen[w][job[w]].tx
  BY DEF Holds, CopyOf, Handled
<1> QED
  BY <1>1, <1>2, MarkConfirmedEffect

\* So does retryOrFail.
LEMMA RetryOrFailEffect ==
  ASSUME JobRowsTypeOK, LocalTypeOK, RowsAgree, NEW w \in Workers,
         job[w] \in Jobs, RetryOrFail(w)
  PROVE  /\ RowsAgree'
         /\ \A k \in Jobs : Kept(k) \/ outbox'[k].owner = Null
<1>1. now[w] \in Nat /\ seen[w][job[w]].attempts \in Nat
  BY DeliveryAssumption DEF DeliveryAssumption, LocalTypeOK, Seen
<1>2. Attempt(w) \in Nat \ {0}
  BY <1>1 DEF Attempt
<1>3. now[w] + RetryDelay(Attempt(w)) \in Nat
  BY <1>1, <1>2, RetryDelayType
<1>4. \/ MarkFailed(w, job[w], now[w])
      \/ ScheduleRetry(w, job[w], Attempt(w),
                       now[w] + RetryDelay(Attempt(w)), now[w])
  BY DEF RetryOrFail
<1>5. CASE MarkFailed(w, job[w], now[w])
  BY <1>5, MarkFailedEffect
<1>6. CASE ScheduleRetry(w, job[w], Attempt(w),
                         now[w] + RetryDelay(Attempt(w)), now[w])
  <2>1. RowsAgree' /\ \A k \in Jobs : Kept(k) \/ outbox'[k].owner = Null
    BY <1>2, <1>3, <1>6, ScheduleRetryEffect
  <2> QED BY <2>1
<1> QED
  BY <1>4, <1>5, <1>6

\* So does a step that writes nothing.
LEMMA RowsUnchangedEffect ==
  ASSUME UNCHANGED rows, RowsAgree
  PROVE  RowsAgree' /\ \A k \in Jobs : Kept(k)
BY DEF rows, RowsAgree, RowAgrees, Kept

\* The lease invariant holds at the start.
LEMMA LeaseInvInit == DeliveryInit => LeaseInv
<1> SUFFICES ASSUME DeliveryInit PROVE LeaseInv
  OBVIOUS
<1>1. TypeInv
  BY TypeInvInit
<1>2. RowsAgree
  BY DEF DeliveryInit, RowsInit, RowsAgree, RowAgrees
<1>3. \A w \in Workers : CopyOf(w)
  BY MintJobsAssumption DEF MintJobsAssumption, DeliveryInit, CopyOf, Handled
<1> QED
  BY <1>1, <1>2, <1>3 DEF LeaseInv

\* Every step preserves the lease invariant: a worker's write touches only rows
\* it owns, so the copies other workers hold of theirs stay current.
LEMMA LeaseInvNext == LeaseInv /\ [DeliveryNext]_deliveryVars => LeaseInv'
<1> SUFFICES ASSUME LeaseInv, [DeliveryNext]_deliveryVars PROVE LeaseInv'
  OBVIOUS
<1>0. /\ JobRowsTypeOK /\ LocalTypeOK /\ PcOK /\ RowsAgree
      /\ \A v \in Workers : CopyOf(v)
  BY DEF DeliveryTypeOK, LeaseInv, TypeInv
<1>t. TypeInv'
  BY TypeInvNext DEF LeaseInv
<1>n. \A v \in Workers : now[v] \in Nat
  BY <1>0, DeliveryAssumption DEF LocalTypeOK, DeliveryAssumption
<1>w. Null \notin Workers /\ Null \notin Jobs
  BY OutboxAssumption, MintJobsAssumption
    DEF OutboxAssumption, MintJobsAssumption
<1>q. ASSUME NEW w \in Workers, RowsAgree', CopyOf(w)',
             \A v \in Workers \ {w} : LocalsKept(v),
             \A k \in Jobs : Kept(k) \/ outbox'[k].owner \in {Null, w}
      PROVE  LeaseInv'
  <2>1. ASSUME NEW v \in Workers \ {w} PROVE CopyOf(v)'
    <3>1. RowsKeptFor(v)
      BY <1>q, <1>w DEF RowsKeptFor
    <3> QED BY <1>0, <1>q, <3>1, CopyKept
  <2> QED
    BY <1>q, <1>t, <2>1 DEF LeaseInv
<1>e. ASSUME NEW w \in Workers, RowsAgree', EndCycle(w),
             \A k \in Jobs : Kept(k) \/ outbox'[k].owner \in {Null, w}
      PROVE  LeaseInv'
  BY <1>0, <1>e, <1>q, EndCycleCopy
<1>g. ASSUME NEW w \in Workers, RowsAgree', NEW step, NEW value,
             Goto(w, step) \/ GotoWith(w, step, value), pc[w] # "retry",
             \A k \in Jobs : Kept(k) \/ outbox'[k].owner = Null
      PROVE  LeaseInv'
  BY <1>0, <1>g, <1>q, <1>w, GotoCopy, GotoLocals
<1>1. ASSUME NEW w \in Workers, StartCycle(w) PROVE LeaseInv'
  <2>1. UNCHANGED rows
    BY <1>1 DEF StartCycle
  <2>2. CopyOf(w)' /\ \A v \in Workers \ {w} : LocalsKept(v)
    BY <1>0, <1>1, <1>w
      DEF StartCycle, LocalTypeOK, PcOK, CopyOf, Handled, LocalsKept
  <2> QED
    BY <1>0, <1>q, <2>1, <2>2, RowsUnchangedEffect
<1>2. ASSUME NEW w \in Workers, ClaimBroadcasts(w) PROVE LeaseInv'
  <2>1. ASSUME NEW S \in SUBSET Jobs, ClaimBroadcastJobs(w, S, now[w]),
               batch' = [batch EXCEPT ![w] = S],
               seen' = [seen EXCEPT ![w] = AsSeen(S)],
               pc' = [pc EXCEPT ![w] = "scan"], UNCHANGED <<now, job, found>>
        PROVE  LeaseInv'
    <3>1. \A j \in S : completion[j].status \in {"PENDING", "MINTING"}
      BY <2>1 DEF ClaimBroadcastJobs, BroadcastCandidates
    <3>2. LeaseTo(w, S, now[w])
      BY <2>1 DEF ClaimBroadcastJobs
    <3>3. /\ RowsAgree'
          /\ \A k \in Jobs \ S : Kept(k)
          /\ \A j \in S : /\ outbox'[j].owner = w
                         /\ outbox'[j].expires > now[w]
                         /\ outbox'[j].attempts = outbox[j].attempts
          /\ completion' = completion
      BY <1>0, <1>n, <3>1, <3>2, LeaseEffect
    <3>4. \A v \in Workers \ {w} : LocalsKept(v)
      BY <1>0, <2>1 DEF LocalTypeOK, LocalsKept
    <3>5. job[w] = Null
      BY <1>0, <1>2 DEF ClaimBroadcasts, PcOK
    <3>6. /\ Handled(w)' = S \union {Null}
          /\ now'[w] = now[w] /\ seen'[w] = AsSeen(S)
      BY <1>0, <2>1, <3>5 DEF LocalTypeOK, Handled
    <3>7. CopyOf(w)'
      BY <1>w, <3>3, <3>6 DEF CopyOf, AsSeen
    <3> QED
      BY <1>q, <3>3, <3>4, <3>7
  <2>2. ASSUME EndCycle(w), UNCHANGED rows PROVE LeaseInv'
    BY <1>0, <1>e, <2>2, RowsUnchangedEffect
  <2> QED
    BY <1>2, <2>1, <2>2 DEF ClaimBroadcasts
<1>3. ASSUME NEW w \in Workers, ReadReceipt(w) PROVE LeaseInv'
  <2>1. UNCHANGED rows
    BY <1>3 DEF ReadReceipt
  <2>2. PICK j \in batch[w] :
          /\ batch' = [batch EXCEPT ![w] = @ \ {j}]
          /\ \/ UNCHANGED <<pc, job>>
             \/ /\ job' = [job EXCEPT ![w] = j]
                /\ \E step \in {"readMinted", "retryReverted"} :
                     pc' = [pc EXCEPT ![w] = step]
    BY <1>3 DEF ReadReceipt
  <2>3. pc[w] = "scan" /\ UNCHANGED <<now, seen>>
    BY <1>3 DEF ReadReceipt
  <2>4. \A v \in Workers \ {w} : LocalsKept(v)
    BY <1>0, <2>2, <2>3 DEF LocalTypeOK, LocalsKept
  <2>5. Handled(w)' \subseteq Handled(w)
    BY <1>0, <2>2 DEF LocalTypeOK, Handled
  <2>6. CopyOf(w)'
    BY <1>0, <2>1, <2>3, <2>5 DEF CopyOf, rows
  <2> QED
    BY <1>0, <1>q, <2>1, <2>4, <2>6, RowsUnchangedEffect
<1>4. ASSUME NEW w \in Workers, RetryReverted(w) PROVE LeaseInv'
  <2>1. pc[w] # "retry" /\ job[w] \in Jobs
    BY <1>0, <1>4 DEF RetryReverted, PcOK
  <2>2. RowsAgree' /\ \A k \in Jobs : Kept(k) \/ outbox'[k].owner = Null
    BY <1>0, <1>4, <2>1, RetryOrFailEffect, RowsUnchangedEffect
      DEF RetryReverted
  <2>3. EndCycle(w) \/ Goto(w, "scan")
    BY <1>4 DEF RetryReverted, NextInBatch
  <2> QED
    BY <1>e, <1>g, <2>1, <2>2, <2>3
<1>5. ASSUME NEW w \in Workers, ReadMinted(w) PROVE LeaseInv'
  <2>1. pc[w] # "retry" /\ UNCHANGED rows
    BY <1>5 DEF ReadMinted
  <2>2. EndCycle(w) \/ \E token : GotoWith(w, "confirm", token)
    BY <1>5 DEF ReadMinted
  <2> QED
    BY <1>0, <1>e, <1>g, <2>1, <2>2, RowsUnchangedEffect
<1>6. ASSUME NEW w \in Workers, ConfirmMinted(w) PROVE LeaseInv'
  <2>1. pc[w] # "retry" /\ job[w] \in Jobs
    BY <1>0, <1>6 DEF ConfirmMinted, PcOK
  <2>2. RowsAgree' /\ \A k \in Jobs : Kept(k) \/ outbox'[k].owner = Null
    BY <1>0, <1>6, <2>1, DeliverEffect, RowsUnchangedEffect DEF ConfirmMinted
  <2>3. EndCycle(w) \/ Goto(w, "scan")
    BY <1>6 DEF ConfirmMinted, NextInBatch
  <2> QED
    BY <1>e, <1>g, <2>1, <2>2, <2>3
<1>7. ASSUME NEW w \in Workers, ClaimMint(w) PROVE LeaseInv'
  <2>1. ASSUME NEW j \in Jobs, ClaimMintJob(w, j, now[w]),
               job' = [job EXCEPT ![w] = j],
               seen' = [seen EXCEPT ![w] = AsSeen({j})],
               pc' = [pc EXCEPT ![w] = "check"],
               found' = [found EXCEPT ![w] = Null], UNCHANGED <<now, batch>>
        PROVE  LeaseInv'
    <3>1. completion[j].status = "PENDING"
      BY <2>1 DEF ClaimMintJob, FirstMintCandidates, MintCandidates
    <3>2. LeaseTo(w, {j}, now[w])
      BY <2>1 DEF ClaimMintJob
    <3>3. /\ RowsAgree'
          /\ \A k \in Jobs \ {j} : Kept(k)
          /\ outbox'[j].owner = w
          /\ outbox'[j].expires > now[w]
          /\ outbox'[j].attempts = outbox[j].attempts
          /\ completion' = completion
      <4>1. JobRowsTypeOK /\ RowsAgree /\ now[w] \in Nat /\ {j} \in SUBSET Jobs
        BY <1>0, <1>n
      <4>2. \A k \in {j} : completion[k].status \in {"PENDING", "MINTING"}
        BY <3>1
      <4>3. /\ RowsAgree' /\ completion' = completion
            /\ \A k \in Jobs \ {j} : Kept(k)
            /\ \A k \in {j} : /\ outbox'[k].owner = w
                              /\ outbox'[k].expires > now[w]
                              /\ outbox'[k].attempts = outbox[k].attempts
        BY <3>2, <4>1, <4>2, LeaseEffect
      <4> QED BY <4>3
    <3>4. \A v \in Workers \ {w} : LocalsKept(v)
      BY <1>0, <2>1 DEF LocalTypeOK, LocalsKept
    <3>5. batch[w] = {}
      BY <1>7 DEF ClaimMint
    <3>6. Handled(w)' = {j} /\ now'[w] = now[w] /\ seen'[w] = AsSeen({j})
      BY <1>0, <2>1, <3>5 DEF LocalTypeOK, Handled
    <3>7. CopyOf(w)'
      BY <1>w, <3>3, <3>6 DEF CopyOf, AsSeen
    <3> QED
      BY <1>q, <3>3, <3>4, <3>7
  <2>2. ASSUME EndCycle(w), UNCHANGED rows PROVE LeaseInv'
    BY <1>0, <1>e, <2>2, RowsUnchangedEffect
  <2> QED
    BY <1>7, <2>1, <2>2 DEF ClaimMint
<1>8. ASSUME NEW w \in Workers, CheckExisting(w) PROVE LeaseInv'
  <2>1. pc[w] # "retry" /\ UNCHANGED rows
    BY <1>8 DEF CheckExisting
  <2>2. \/ Goto(w, "mint") \/ Goto(w, "retry") 
        \/ \E token : GotoWith(w, "reconcile", token)
    BY <1>8 DEF CheckExisting
  <2> QED
    BY <1>0, <1>g, <2>1, <2>2, RowsUnchangedEffect
<1>9. ASSUME NEW w \in Workers, Reconcile(w) PROVE LeaseInv'
  <2>1. pc[w] # "retry" /\ job[w] \in Jobs
    BY <1>0, <1>9 DEF Reconcile, PcOK
  <2>2. RowsAgree' /\ \A k \in Jobs : Kept(k) \/ outbox'[k].owner = Null
    BY <1>0, <1>9, <2>1, DeliverEffect, RowsUnchangedEffect DEF Reconcile
  <2>3. EndCycle(w) \/ Goto(w, "retry")
    BY <1>9 DEF Reconcile
  <2> QED
    BY <1>e, <1>g, <2>1, <2>2, <2>3
<1>10. ASSUME NEW w \in Workers, Mint(w) PROVE LeaseInv'
  <2>1. pc[w] # "retry" /\ UNCHANGED rows
    BY <1>10 DEF Mint
  <2>2. Goto(w, "retry") \/ \E t : GotoWith(w, "record", t)
    BY <1>10 DEF Mint
  <2> QED
    BY <1>0, <1>g, <2>1, <2>2, RowsUnchangedEffect
<1>11. ASSUME NEW w \in Workers, RecordBroadcast(w) PROVE LeaseInv'
  <2>1. job[w] \in Jobs /\ found[w] \in Txs
    BY <1>0, <1>11 DEF RecordBroadcast, PcOK
  <2>2. /\ RowsAgree' /\ outbox' = outbox
        /\ \A k \in Jobs : Kept(k) \/ outbox'[k].owner = w
    BY <1>0, <1>11, <2>1, MarkBroadcastEffect, RowsUnchangedEffect
      DEF RecordBroadcast, rows
  <2>3. CASE EndCycle(w)
    BY <1>e, <2>2, <2>3
  <2>4. CASE Goto(w, "retry")
    <3>1. CopyOf(w)' /\ \A v \in Workers \ {w} : LocalsKept(v)
      BY <1>0, <2>2, <2>4, GotoLocals DEF CopyOf
    <3> QED BY <1>q, <2>2, <3>1
  <2> QED
    BY <1>11, <2>3, <2>4 DEF RecordBroadcast
<1>12. ASSUME NEW w \in Workers, Retry(w) PROVE LeaseInv'
  <2>1. job[w] \in Jobs
    BY <1>0, <1>12 DEF Retry, PcOK
  <2>2. RowsAgree' /\ \A k \in Jobs : Kept(k) \/ outbox'[k].owner = Null
    BY <1>0, <1>12, <2>1, RetryOrFailEffect, RowsUnchangedEffect DEF Retry
  <2> QED
    BY <1>12, <1>e, <2>2 DEF Retry
<1>13. ASSUME NEW w \in Workers, Crash(w) PROVE LeaseInv'
  BY <1>0, <1>13, <1>e, RowsUnchangedEffect DEF Crash
<1>14. ASSUME TimePasses \/ Mine \/ Confirm \/ Reorganise \/ Forget \/ UNCHANGED deliveryVars
       PROVE  LeaseInv'
  <2>1. UNCHANGED rows /\ UNCHANGED local
    BY <1>14 DEF TimePasses, Mine, Confirm, Reorganise, Forget, deliveryVars
  <2>2. \A v \in Workers : LocalsKept(v) /\ RowsKeptFor(v)
    BY <2>1 DEF local, LocalsKept, RowsKeptFor, Kept, rows
  <2> QED
    BY <1>0, <1>t, <2>1, <2>2, CopyKept, RowsUnchangedEffect DEF LeaseInv
<1> QED
  BY <1>1, <1>2, <1>3, <1>4, <1>5, <1>6, <1>7, <1>8, <1>9, <1>10, <1>11,
     <1>12, <1>13, <1>14 DEF DeliveryNext, WorkerStep

-----------------------------------------------------------------------------
(* The certificate argument.                                               *)

\* No step takes back what the chain has made final, or sends a hash twice.
ChainGrows ==
  /\ \A t \in Txs, j \in Jobs : Sent(t, j) => Sent(t, j)'
  /\ \A j \in Jobs : ConfirmedTokens(j) \subseteq ConfirmedTokens(j)'

\* At most one mint per job succeeds, and what is final stays so.
LEMMA ChainStep ==
  ASSUME ChainTypeOK, ChainSound,
         \/ \E t \in Txs, j \in Jobs : Send(t, j)
         \/ \E t \in Txs : Include(t) \/ Finalize(t) \/ Drop(t)
         \/ \E S \in SUBSET Txs : Reorg(S)
         \/ UNCHANGED chain
  PROVE  ChainSound' /\ ChainGrows
<1> USE DEF ChainTypeOK, ChainSound, ChainGrows, Sent, ConfirmedTokens,
            Mints, Included
<1>1. ASSUME NEW t \in Txs, NEW j \in Jobs, Send(t, j)
      PROVE  ChainSound' /\ ChainGrows
  BY <1>1 DEF Send
<1>2. ASSUME NEW t \in Txs, Include(t) PROVE ChainSound' /\ ChainGrows
  BY <1>2 DEF Include, MintSucceeds, LatestTokens
<1>3. ASSUME NEW t \in Txs, Finalize(t) PROVE ChainSound' /\ ChainGrows
  BY <1>3 DEF Finalize
<1>4. ASSUME NEW t \in Txs, Drop(t) PROVE ChainSound' /\ ChainGrows
  BY <1>4 DEF Drop
<1>5. ASSUME NEW S \in SUBSET Txs, Reorg(S) PROVE ChainSound' /\ ChainGrows
  BY <1>5 DEF Reorg
<1>6. ASSUME UNCHANGED chain PROVE ChainSound' /\ ChainGrows
  BY <1>6 DEF chain
<1> QED BY <1>1, <1>2, <1>3, <1>4, <1>5, <1>6

\* A row that is not written stays true of a chain that only grows.
LEMMA RowSoundKept ==
  ASSUME NEW k \in Jobs, RowSound(k), completion'[k] = completion[k],
         ChainGrows, JobRowsTypeOK
  PROVE  RowSound(k)'
BY DEF RowSound, ChainGrows, JobRowsTypeOK, CompletionRow

\* What an idle bystander knows stays true of a chain that only grows.
LEMMA KnowledgeKept ==
  ASSUME NEW v \in Workers, KnowledgeSound(v), LocalsKept(v),
         found'[v] = found[v], ChainGrows,
         LocalTypeOK, PcOK
  PROVE  KnowledgeSound(v)'
BY DEF KnowledgeSound, LocalsKept, ChainGrows, LocalTypeOK, PcOK, Seen

\* A worker that ends its cycle knows nothing.
LEMMA EndCycleKnowledge ==
  ASSUME LocalTypeOK, NEW w \in Workers, EndCycle(w)
  PROVE  KnowledgeSound(w)' /\ \A v \in Workers \ {w} : found'[v] = found[v]
BY DEF LocalTypeOK, EndCycle, KnowledgeSound, NoJob

\* The steps of the system are the steps of the chain, or leave it alone.
LEMMA NextChain ==
  ASSUME TypeInv, [DeliveryNext]_deliveryVars
  PROVE  \/ \E t \in Txs, j \in Jobs : Send(t, j)
         \/ \E t \in Txs : Include(t) \/ Finalize(t) \/ Drop(t)
         \/ \E S \in SUBSET Txs : Reorg(S)
         \/ UNCHANGED chain
<1>1. ASSUME NEW w \in Workers, Mint(w)
      PROVE  UNCHANGED chain \/ \E t \in Txs, j \in Jobs : Send(t, j)
  <2>1. job[w] \in Jobs
    BY <1>1 DEF Mint, TypeInv, PcOK
  <2> QED BY <1>1, <2>1 DEF Mint
<1>2. ASSUME NEW w \in Workers, WorkerStep(w), ~Mint(w) PROVE UNCHANGED chain
  BY <1>2
    DEF WorkerStep, StartCycle, ClaimBroadcasts, ReadReceipt, RetryReverted,
     ReadMinted, ConfirmMinted, ClaimMint, CheckExisting, Reconcile,
     RecordBroadcast, Retry
<1>3. ASSUME NEW w \in Workers, Crash(w) PROVE UNCHANGED chain
  BY <1>3 DEF Crash
<1> QED
  BY <1>1, <1>2, <1>3 DEF DeliveryNext, TimePasses, Mine, Confirm, Reorganise, Forget, deliveryVars

\* A confirmation marks MINTED what is certified, with the hash that minted it.
LEMMA DeliverSound ==
  ASSUME JobRowsTypeOK, LocalTypeOK, ChainTypeOK, ChainSound, RowsAgree,
         ChainGrows, NEW w \in Workers, CopyOf(w),
         pc[w] \in {"confirm", "reconcile"}, KnowledgeSound(w),
         job[w] \in Jobs, \A j \in Jobs : RowSound(j),
         MarkConfirmed(w, job[w], seen[w][job[w]].tx, found[w], now[w])
  PROVE  \A j \in Jobs : RowSound(j)'
<1>j. PICK j \in Jobs : j = job[w]
  OBVIOUS
<1> DEFINE t == seen[w][j].tx
<1>1. ASSUME NEW k \in Jobs \ {j} PROVE RowSound(k)'
  <2>1. completion'[k] = completion[k]
    BY <1>j DEF MarkConfirmed, JobRowsTypeOK, CompletionRow
  <2> QED BY <2>1, RowSoundKept
<1>2. CASE ~Holds(w, j, now[w])
  BY <1>j, <1>2, RowSoundKept DEF MarkConfirmed
<1>3. CASE Holds(w, j, now[w])
  <2>1. completion[j].tx = t /\ t \in Txs \union {Null}
    BY <1>j, <1>3 DEF Holds, CopyOf, Handled, LocalTypeOK, Seen
  <2>2. /\ completion'[j].status = "MINTED"
        /\ completion'[j].token = found[w]
        /\ completion'[j].tx = t
    BY <1>j, <1>3, <2>1 DEF MarkConfirmed, AcceptsTx, JobRowsTypeOK, CompletionRow
  <2>3. found[w] \in ConfirmedTokens(j)
    BY <1>j DEF KnowledgeSound
  <2>4. t \in {Null, found[w]}
    BY <1>j, <2>3 DEF KnowledgeSound, ChainSound, ConfirmedTokens, ChainTypeOK
  <2>5. t # Null => Sent(t, j)
    BY <1>j DEF KnowledgeSound
  <2>6. RowSound(j)'
    BY <1>j, <2>2, <2>3, <2>4, <2>5, <2>1 DEF RowSound, ChainGrows
  <2> QED BY <1>1, <2>6
<1> QED BY <1>2, <1>3

\* Giving a job back or up forgets its hash or keeps it.
LEMMA RetryOrFailSound ==
  ASSUME JobRowsTypeOK, LocalTypeOK, RowsAgree, ChainGrows, NEW w \in Workers,
         job[w] \in Jobs,
         \A j \in Jobs : RowSound(j), RetryOrFail(w)
  PROVE  \A j \in Jobs : RowSound(j)'
<1>j. PICK j \in Jobs : j = job[w]
  OBVIOUS
<1>1. ASSUME NEW k \in Jobs, completion'[k] = completion[k] PROVE RowSound(k)'
  BY <1>j, <1>1, RowSoundKept
<1>2. \A k \in Jobs \ {j} : completion'[k] = completion[k]
  BY <1>j
    DEF RetryOrFail, MarkFailed, ScheduleRetry, JobRowsTypeOK, CompletionRow, rows
<1>3. CASE ~Holds(w, j, now[w])
  BY <1>j, <1>1, <1>3 DEF RetryOrFail, MarkFailed, ScheduleRetry, rows
<1>4. CASE Holds(w, j, now[w])
  <2>1. completion[j].status # "MINTED"
    BY <1>j, <1>4 DEF Holds, RowsAgree, RowAgrees
  <2>2. \/ completion'[j].status = "PENDING" /\ completion'[j].tx = Null
        \/ /\ completion'[j].status = "FAILED"
           /\ completion'[j].tx = completion[j].tx
    BY <1>j, <1>4, <2>1
      DEF RetryOrFail, MarkFailed, ScheduleRetry, JobRowsTypeOK, CompletionRow
  <2>3. RowSound(j)'
    BY <1>j, <2>2 DEF RowSound, ChainGrows, JobRowsTypeOK, CompletionRow
  <2> QED BY <1>1, <1>2, <2>3
<1> QED BY <1>3, <1>4

\* A broadcast records the hash of a transaction sent for that job.
LEMMA BroadcastSound ==
  ASSUME JobRowsTypeOK, RowsAgree, ChainGrows, NEW w \in Workers, job[w] \in Jobs,
         KnowledgeSound(w), pc[w] = "record", \A j \in Jobs : RowSound(j),
         MarkBroadcast(w, job[w], found[w], now[w])
  PROVE  \A j \in Jobs : RowSound(j)'
<1>j. PICK j \in Jobs : j = job[w]
  OBVIOUS
<1>1. ASSUME NEW k \in Jobs, completion'[k] = completion[k] PROVE RowSound(k)'
  BY <1>j, <1>1, RowSoundKept
<1>2. \A k \in Jobs \ {j} : completion'[k] = completion[k]
  BY <1>j DEF MarkBroadcast, JobRowsTypeOK, CompletionRow
<1>3. CASE completion' = completion
  BY <1>j, <1>1, <1>3
<1>4. CASE completion' # completion
  <2>1. completion'[j].status = "MINTING" /\ completion'[j].tx = found[w]
    BY <1>j, <1>4 DEF MarkBroadcast, JobRowsTypeOK, CompletionRow
  <2>2. PICK t \in Txs : t = found[w]
    BY DEF KnowledgeSound, Sent
  <2>3. Sent(t, j)'
    BY <1>j, <2>2 DEF KnowledgeSound, ChainGrows
  <2>4. RowSound(j)'
    BY <2>1, <2>2, <2>3 DEF RowSound
  <2> QED BY <1>1, <1>2, <2>4
<1> QED BY <1>3, <1>4

\* So does a step that writes no completion.
LEMMA RowsUnchangedSound ==
  ASSUME JobRowsTypeOK, ChainGrows, completion' = completion,
         \A j \in Jobs : RowSound(j)
  PROVE  \A j \in Jobs : RowSound(j)'
BY RowSoundKept

\* The delivery invariant holds at the start.
LEMMA DeliveryInvInit == DeliveryInit => DeliveryInv
<1> SUFFICES ASSUME DeliveryInit PROVE DeliveryInv
  OBVIOUS
<1>1. ChainSound
  BY DEF DeliveryInit, ChainInit, ChainSound, Mints
<1>2. \A j \in Jobs : RowSound(j)
  BY DEF DeliveryInit, RowsInit, RowSound
<1>3. \A w \in Workers : KnowledgeSound(w)
  BY DEF DeliveryInit, KnowledgeSound, NoJob
<1> QED BY <1>1, <1>2, <1>3, LeaseInvInit DEF DeliveryInv

\* Going on takes nothing from what a worker knows.
LEMMA GotoKnowledge ==
  ASSUME LocalTypeOK, PcOK, NEW w \in Workers, NEW step \in {"scan", "mint",
         "retry"},
         Goto(w, step), KnowledgeSound(w), ChainGrows
  PROVE  KnowledgeSound(w)' /\ \A v \in Workers \ {w} : found'[v] = found[v]
BY DEF LocalTypeOK, PcOK, Goto, KnowledgeSound, ChainGrows, Seen

\* Going on with a value read from the chain, or with the hash just sent.
LEMMA GotoWithKnowledge ==
  ASSUME LocalTypeOK, PcOK, ChainTypeOK, NEW w \in Workers,
         NEW step \in {"confirm", "reconcile", "record"},
         NEW value \in Txs, GotoWith(w, step, value), KnowledgeSound(w),
         ChainGrows, job[w] \in Jobs,
         step = "record" => \A j \in Jobs : j = job[w] => Sent(value, j)',
         step # "record" => value \in ConfirmedTokens(job[w]),
         step = "confirm" => pc[w] = "readMinted",
         step = "reconcile" => pc[w] = "check"
  PROVE  KnowledgeSound(w)' /\ \A v \in Workers \ {w} : found'[v] = found[v]
<1>1. /\ pc'[w] = step /\ found'[w] = value /\ job' = job /\ seen' = seen
      /\ \A v \in Workers \ {w} : found'[v] = found[v]
  BY DEF LocalTypeOK, GotoWith
<1>2. \A j \in Jobs : seen'[w][j].tx # Null => Sent(seen[w][j].tx, j)'
  BY <1>1 DEF KnowledgeSound, ChainGrows, LocalTypeOK, Seen
<1>3. PICK j \in Jobs : j = job[w] /\ j = job'[w]
  BY <1>1
<1>4. CASE step = "confirm"
  <2>1. PICK t \in Txs : t = seen[w][j].tx /\ t \in ConfirmedTokens(j)
    BY <1>3, <1>4 DEF KnowledgeSound, ConfirmedTokens, ChainTypeOK
  <2>2. t \in ConfirmedTokens(j)' /\ value \in ConfirmedTokens(j)'
    BY <1>3, <1>4, <2>1 DEF ChainGrows
  <2>3. seen'[w][job'[w]].tx = t /\ found'[w] = value
    BY <1>1, <1>3, <2>1
  <2> QED BY <1>1, <1>2, <1>3, <1>4, <2>2, <2>3 DEF KnowledgeSound
<1>5. CASE step = "reconcile"
  <2>1. value \in ConfirmedTokens(j)'
    BY <1>3, <1>5 DEF ChainGrows
  <2> QED BY <1>1, <1>2, <1>3, <1>5, <2>1 DEF KnowledgeSound
<1>6. CASE step = "record"
  <2>1. Sent(value, j)'
    BY <1>3, <1>6
  <2> QED BY <1>1, <1>2, <1>3, <1>6, <2>1 DEF KnowledgeSound
<1> QED BY <1>4, <1>5, <1>6

\* Every step preserves the delivery invariant.
LEMMA DeliveryInvNext == DeliveryInv /\ [DeliveryNext]_deliveryVars => DeliveryInv'
<1> SUFFICES ASSUME DeliveryInv, [DeliveryNext]_deliveryVars PROVE DeliveryInv'
  OBVIOUS
<1>0. /\ JobRowsTypeOK /\ LocalTypeOK /\ ChainTypeOK /\ PcOK /\ RowsAgree
      /\ ChainSound
      /\ \A v \in Workers : CopyOf(v) /\ KnowledgeSound(v)
      /\ \A j \in Jobs : RowSound(j)
  BY DEF DeliveryTypeOK, DeliveryInv, LeaseInv, TypeInv
<1>l. LeaseInv'
  BY LeaseInvNext DEF DeliveryInv
<1>c. ChainSound' /\ ChainGrows
  BY <1>0, NextChain, ChainStep DEF DeliveryInv, LeaseInv
<1>k. UNCHANGED completion => \A j \in Jobs : RowSound(j)'
  BY <1>0, <1>c, RowSoundKept
<1>q. ASSUME NEW w \in Workers, KnowledgeSound(w)',
             \A j \in Jobs : RowSound(j)',
             \A v \in Workers \ {w} : LocalsKept(v) /\ found'[v] = found[v]
      PROVE  DeliveryInv'
  BY <1>0, <1>l, <1>c, <1>q, KnowledgeKept DEF DeliveryInv
<1>e. ASSUME NEW w \in Workers, EndCycle(w), \A j \in Jobs : RowSound(j)'
      PROVE  DeliveryInv'
  BY <1>0, <1>e, <1>q, EndCycleKnowledge, EndCycleCopy
<1>g. ASSUME NEW w \in Workers, NEW step \in {"scan", "mint", "retry"}, Goto(w,
             step),
             \A j \in Jobs : RowSound(j)'
      PROVE  DeliveryInv'
  BY <1>0, <1>c, <1>g, <1>q, GotoKnowledge, GotoLocals
<1>1. ASSUME NEW w \in Workers, StartCycle(w) PROVE DeliveryInv'
  <2>1. completion' = completion /\ seen' = seen /\ found' = found /\ job' = job
    BY <1>1 DEF StartCycle, rows
  <2>2. pc'[w] = "claimBroadcasts" /\ \A v \in Workers \ {w} : LocalsKept(v)
    BY <1>0, <1>1 DEF StartCycle, LocalTypeOK, LocalsKept
  <2>3. \A j \in Jobs : seen'[w][j].tx # Null => Sent(seen[w][j].tx, j)'
    BY <1>0, <1>c, <2>1 DEF KnowledgeSound, ChainGrows, LocalTypeOK, Seen
  <2>4. KnowledgeSound(w)'
    BY <2>1, <2>2, <2>3 DEF KnowledgeSound
  <2> QED
    BY <1>k, <1>q, <2>1, <2>2, <2>4
<1>2. ASSUME NEW w \in Workers, ClaimBroadcasts(w) PROVE DeliveryInv'
  <2>1. ASSUME NEW S \in SUBSET Jobs, ClaimBroadcastJobs(w, S, now[w]),
               seen' = [seen EXCEPT ![w] = AsSeen(S)],
               batch' = [batch EXCEPT ![w] = S],
               pc' = [pc EXCEPT ![w] = "scan"], UNCHANGED <<now, job, found>>
        PROVE  DeliveryInv'
    <3>1. completion' = completion
      BY <2>1 DEF ClaimBroadcastJobs, LeaseTo
    <3>2. \A v \in Workers \ {w} : LocalsKept(v) /\ found'[v] = found[v]
      BY <1>0, <2>1 DEF LocalTypeOK, LocalsKept
    <3>3. pc'[w] = "scan" /\ seen'[w] = AsSeen(S)
      BY <1>0, <2>1 DEF LocalTypeOK
    <3>4. \A j \in Jobs : RowSound(j)'
      BY <1>k, <3>1
    <3>5. \A j \in Jobs : seen'[w][j].tx \in {Null, completion'[j].tx}
      BY <3>1, <3>3 DEF AsSeen, NoJob
    <3>6. KnowledgeSound(w)'
      BY <3>3, <3>4, <3>5 DEF KnowledgeSound, RowSound
    <3> QED
      BY <1>q, <3>2, <3>4, <3>6
  <2>2. ASSUME EndCycle(w), UNCHANGED rows PROVE DeliveryInv'
    BY <1>e, <1>k, <2>2 DEF rows
  <2> QED
    BY <1>2, <2>1, <2>2 DEF ClaimBroadcasts
<1>3. ASSUME NEW w \in Workers, ReadReceipt(w) PROVE DeliveryInv'
  <2>1. UNCHANGED rows /\ UNCHANGED chain
    BY <1>3 DEF ReadReceipt
  <2>2. PICK j \in batch[w] :
          /\ batch' = [batch EXCEPT ![w] = @ \ {j}]
          /\ \/ UNCHANGED <<pc, job>>
             \/ /\ job' = [job EXCEPT ![w] = j]
                /\ seen[w][j].tx \in final
                /\ pc' = [pc EXCEPT ![w] =
                     IF txStatus[seen[w][j].tx] = "success"
                     THEN "readMinted" ELSE "retryReverted"]
    BY <1>3 DEF ReadReceipt, ReceiptConfirmed
  <2>3. pc[w] = "scan" /\ UNCHANGED <<now, seen, found>> /\ j \in Jobs
    BY <1>0, <1>3 DEF ReadReceipt, LocalTypeOK
  <2>4. \A v \in Workers \ {w} : LocalsKept(v) /\ found'[v] = found[v]
    BY <1>0, <2>2, <2>3 DEF LocalTypeOK, LocalsKept
  <2>5. \A i \in Jobs : RowSound(i)'
    BY <1>k, <2>1 DEF rows
  <2>6. \A i \in Jobs : seen'[w][i].tx # Null => Sent(seen[w][i].tx, i)'
    BY <1>0, <1>c, <2>3 DEF KnowledgeSound, ChainGrows, LocalTypeOK, Seen
  <2>7. CASE UNCHANGED <<pc, job>>
    BY <1>q, <2>3, <2>4, <2>5, <2>6, <2>7 DEF KnowledgeSound
  <2>8. CASE pc'[w] = "retryReverted"
    BY <1>q, <2>3, <2>4, <2>5, <2>6, <2>8 DEF KnowledgeSound
  <2>9. CASE /\ job'[w] = j /\ pc'[w] = "readMinted"
             /\ seen[w][j].tx \in final /\ txStatus[seen[w][j].tx] = "success"
    <3>1. PICK t \in Txs : t = seen[w][j].tx
      BY <1>0, <2>9 DEF ChainTypeOK
    <3>2. t \in ConfirmedTokens(j)
      BY <1>0, <2>3, <2>9, <3>1, MintJobsAssumption
      DEF MintJobsAssumption, KnowledgeSound, Sent, ConfirmedTokens, Mints
    <3>3. t \in ConfirmedTokens(j)'
      BY <1>c, <2>3, <3>2 DEF ChainGrows
    <3>4. KnowledgeSound(w)'
      BY <2>3, <2>6, <2>9, <3>1, <3>3 DEF KnowledgeSound
    <3> QED
      BY <1>q, <2>4, <2>5, <3>4
  <2> QED
    BY <1>0, <2>2, <2>7, <2>8, <2>9 DEF LocalTypeOK
<1>4. ASSUME NEW w \in Workers, RetryReverted(w) PROVE DeliveryInv'
  <2>1. job[w] \in Jobs
    BY <1>0, <1>4 DEF RetryReverted, PcOK
  <2>2. \A j \in Jobs : RowSound(j)'
    BY <1>0, <1>4, <1>c, <1>k, <2>1, RetryOrFailSound DEF RetryReverted, rows
  <2>3. EndCycle(w) \/ Goto(w, "scan")
    BY <1>4 DEF RetryReverted, NextInBatch
  <2> QED
    BY <1>e, <1>g, <2>2, <2>3
<1>5. ASSUME NEW w \in Workers, ReadMinted(w) PROVE DeliveryInv'
  <2>1. pc[w] = "readMinted" /\ UNCHANGED rows /\ job[w] \in Jobs
    BY <1>0, <1>5 DEF ReadMinted, PcOK
  <2>2. \A j \in Jobs : RowSound(j)'
    BY <1>k, <2>1 DEF rows
  <2>3. EndCycle(w) \/ \E token \in ConfirmedTokens(job[w]) : GotoWith(w,
                       "confirm", token)
    BY <1>5 DEF ReadMinted, CertificateOf
  <2>4. ASSUME NEW token \in ConfirmedTokens(job[w]),
               GotoWith(w, "confirm", token)
        PROVE  DeliveryInv'
    <3>1. token \in Txs
      BY <1>0 DEF ConfirmedTokens, ChainTypeOK
    <3>2. KnowledgeSound(w)' /\ \A v \in Workers \ {w} : found'[v] = found[v]
      BY <1>0, <1>c, <2>1, <2>4, <3>1, GotoWithKnowledge
    <3> QED
      BY <1>0, <1>q, <2>2, <2>4, <3>2, GotoLocals
  <2> QED
    BY <1>e, <2>2, <2>3, <2>4
<1>6. ASSUME NEW w \in Workers, ConfirmMinted(w) PROVE DeliveryInv'
  <2>1. pc[w] = "confirm" /\ job[w] \in Jobs
    BY <1>0, <1>6 DEF ConfirmMinted, PcOK
  <2>2. \A j \in Jobs : RowSound(j)'
    BY <1>0, <1>6, <1>c, <1>k, <2>1, DeliverSound DEF ConfirmMinted, rows
  <2>3. EndCycle(w) \/ Goto(w, "scan")
    BY <1>6 DEF ConfirmMinted, NextInBatch
  <2> QED
    BY <1>e, <1>g, <2>2, <2>3
<1>7. ASSUME NEW w \in Workers, ClaimMint(w) PROVE DeliveryInv'
  <2>1. ASSUME NEW j \in Jobs, ClaimMintJob(w, j, now[w]),
               job' = [job EXCEPT ![w] = j],
               seen' = [seen EXCEPT ![w] = AsSeen({j})],
               pc' = [pc EXCEPT ![w] = "check"],
               found' = [found EXCEPT ![w] = Null], UNCHANGED <<now, batch>>
        PROVE  DeliveryInv'
    <3>1. completion' = completion
      BY <2>1 DEF ClaimMintJob, LeaseTo
    <3>2. \A v \in Workers \ {w} : LocalsKept(v) /\ found'[v] = found[v]
      BY <1>0, <2>1 DEF LocalTypeOK, LocalsKept
    <3>3. completion[j].tx = Null
      BY <1>0, <2>1
        DEF ClaimMintJob, FirstMintCandidates, MintCandidates, RowsAgree,
            RowAgrees
    <3>4. pc'[w] = "check" /\ job'[w] = j /\ seen'[w] = AsSeen({j})
      BY <1>0, <2>1 DEF LocalTypeOK
    <3>5. \A i \in Jobs : seen'[w][i].tx = Null
      BY <3>3, <3>4 DEF AsSeen, NoJob
    <3>6. KnowledgeSound(w)'
      BY <3>4, <3>5 DEF KnowledgeSound
    <3> QED
      BY <1>k, <1>q, <3>1, <3>2, <3>6
  <2>2. ASSUME EndCycle(w), UNCHANGED rows PROVE DeliveryInv'
    BY <1>e, <1>k, <2>2 DEF rows
  <2> QED
    BY <1>7, <2>1, <2>2 DEF ClaimMint
<1>8. ASSUME NEW w \in Workers, CheckExisting(w) PROVE DeliveryInv'
  <2>1. pc[w] = "check" /\ UNCHANGED rows /\ job[w] \in Jobs
    BY <1>0, <1>8 DEF CheckExisting, PcOK
  <2>2. \A j \in Jobs : RowSound(j)'
    BY <1>k, <2>1 DEF rows
  <2>3. \/ Goto(w, "mint") \/ Goto(w, "retry")
        \/ \E token \in ConfirmedTokens(job[w]) : GotoWith(w, "reconcile",
           token)
    BY <1>8 DEF CheckExisting, CertificateOf
  <2>4. ASSUME NEW token \in ConfirmedTokens(job[w]),
               GotoWith(w, "reconcile", token)
        PROVE  DeliveryInv'
    <3>1. token \in Txs
      BY <1>0 DEF ConfirmedTokens, ChainTypeOK
    <3>2. KnowledgeSound(w)' /\ \A v \in Workers \ {w} : found'[v] = found[v]
      BY <1>0, <1>c, <2>1, <2>4, <3>1, GotoWithKnowledge
    <3> QED
      BY <1>0, <1>q, <2>2, <2>4, <3>2, GotoLocals
  <2> QED
    BY <1>g, <2>2, <2>3, <2>4
<1>9. ASSUME NEW w \in Workers, Reconcile(w) PROVE DeliveryInv'
  <2>1. pc[w] = "reconcile" /\ job[w] \in Jobs
    BY <1>0, <1>9 DEF Reconcile, PcOK
  <2>2. \A j \in Jobs : RowSound(j)'
    BY <1>0, <1>9, <1>c, <1>k, <2>1, DeliverSound DEF Reconcile, rows
  <2>3. EndCycle(w) \/ Goto(w, "retry")
    BY <1>9 DEF Reconcile
  <2> QED
    BY <1>e, <1>g, <2>2, <2>3
<1>10. ASSUME NEW w \in Workers, Mint(w) PROVE DeliveryInv'
  <2>1. UNCHANGED rows /\ job[w] \in Jobs
    BY <1>0, <1>10 DEF Mint, PcOK
  <2>2. \A j \in Jobs : RowSound(j)'
    BY <1>k, <2>1 DEF rows
  <2>3. Goto(w, "retry") \/ \E t \in Txs : Send(t, job[w]) /\ GotoWith(w,
                            "record", t)
    BY <1>10 DEF Mint
  <2>4. ASSUME NEW t \in Txs, Send(t, job[w]), GotoWith(w, "record",
               t) PROVE DeliveryInv'
    <3>1. \A j \in Jobs : j = job[w] => Sent(t, j)'
      BY <1>0, <2>4 DEF Send, Sent, ChainTypeOK
    <3>2. KnowledgeSound(w)' /\ \A v \in Workers \ {w} : found'[v] = found[v]
      BY <1>0, <1>c, <2>1, <2>4, <3>1, GotoWithKnowledge
    <3> QED
      BY <1>0, <1>q, <2>2, <2>4, <3>2, GotoLocals
  <2> QED
    BY <1>g, <2>2, <2>3, <2>4
<1>11. ASSUME NEW w \in Workers, RecordBroadcast(w) PROVE DeliveryInv'
  <2>1. pc[w] = "record" /\ job[w] \in Jobs
    BY <1>0, <1>11 DEF RecordBroadcast, PcOK
  <2>2. \A j \in Jobs : RowSound(j)'
    BY <1>0, <1>11, <1>c, <1>k, <2>1, BroadcastSound DEF RecordBroadcast, rows
  <2>3. EndCycle(w) \/ Goto(w, "retry")
    BY <1>11 DEF RecordBroadcast
  <2> QED
    BY <1>e, <1>g, <2>2, <2>3
<1>12. ASSUME NEW w \in Workers, Retry(w) PROVE DeliveryInv'
  <2>1. job[w] \in Jobs
    BY <1>0, <1>12 DEF Retry, PcOK
  <2>2. \A j \in Jobs : RowSound(j)'
    BY <1>0, <1>12, <1>c, <1>k, <2>1, RetryOrFailSound DEF Retry, rows
  <2> QED
    BY <1>12, <1>e, <2>2 DEF Retry
<1>13. ASSUME NEW w \in Workers, Crash(w) PROVE DeliveryInv'
  BY <1>13, <1>e, <1>k DEF Crash, rows
<1>14. ASSUME TimePasses \/ Mine \/ Confirm \/ Reorganise \/ Forget \/ UNCHANGED deliveryVars
       PROVE  DeliveryInv'
  <2>1. UNCHANGED rows /\ UNCHANGED local
    BY <1>14 DEF TimePasses, Mine, Confirm, Reorganise, Forget, deliveryVars
  <2>2. \A v \in Workers : LocalsKept(v) /\ found'[v] = found[v]
    BY <2>1 DEF local, LocalsKept
  <2>3. \A j \in Jobs : RowSound(j)'
    BY <1>k, <2>1 DEF rows
  <2> QED
    BY <1>0, <1>c, <1>l, <2>2, <2>3, KnowledgeKept DEF DeliveryInv
<1> QED
  BY <1>1, <1>2, <1>3, <1>4, <1>5, <1>6, <1>7, <1>8, <1>9, <1>10, <1>11,
     <1>12, <1>13, <1>14 DEF DeliveryNext, WorkerStep

\* The inductive invariant holds throughout.
THEOREM DeliveryInvHolds == DeliverySpec => []DeliveryInv
BY DeliveryInvInit, DeliveryInvNext, PTL DEF DeliverySpec

\* It implies the safety properties.
LEMMA InvImplies ==
  DeliveryInv => /\ ClaimedCopyIsCurrent
                 /\ RowsAgree
                 /\ MintedIsCertified
                 /\ ReceiptMeansCertificate
<1> SUFFICES ASSUME DeliveryInv
             PROVE  /\ ClaimedCopyIsCurrent
                    /\ RowsAgree
                    /\ MintedIsCertified
                       /\ ReceiptMeansCertificate
  OBVIOUS
<1>1. /\ PcOK /\ RowsAgree
      /\ ChainSound
      /\ \A w \in Workers : CopyOf(w) /\ KnowledgeSound(w)
      /\ \A j \in Jobs : RowSound(j)
  BY DEF DeliveryInv, LeaseInv, TypeInv
<1>2. ClaimedCopyIsCurrent
  <2> SUFFICES ASSUME NEW w \in Workers, NEW j \in Jobs, j \in Handled(w),
                      outbox[j].owner = w, pc[w] # "retry"
               PROVE  /\ outbox[j].expires > now[w]
                      /\ outbox[j].attempts = seen[w][j].attempts
                      /\ completion[j].tx = seen[w][j].tx
                      /\ completion[j].status \in {"PENDING", "MINTING"}
    BY DEF ClaimedCopyIsCurrent
  <2>1. outbox[j].owner # Null
    BY OutboxAssumption DEF OutboxAssumption
  <2> QED
    BY <1>1, <2>1 DEF CopyOf, RowsAgree, RowAgrees
<1>3. MintedIsCertified
  BY <1>1 DEF RowSound, MintedIsCertified
<1>4. ReceiptMeansCertificate
  BY <1>1 DEF ReceiptMeansCertificate, KnowledgeSound
<1> QED BY <1>1, <1>2, <1>3, <1>4

\* A worker that still owns a job acts on what the rows say now, however stale
\* its clock reading and whatever other workers did meanwhile (queries/outbox.sql,
\* the lease tests of held_outbox).
THEOREM CopyIsCurrent == DeliverySpec => []ClaimedCopyIsCurrent
BY DeliveryInvHolds, InvImplies, PTL

\* The two rows of a job never disagree, although each statement writes them by
\* two UPDATEs of which the second may match nothing (queries/outbox.sql).
THEOREM RowsInAgreement == DeliverySpec => []RowsAgree
BY DeliveryInvHolds, InvImplies, PTL

\* A receipt that is final and successful has its certificate behind it: the
\* error confirmBroadcasts returns for one without is never returned.
THEOREM ReceiptIsBacked == DeliverySpec => []ReceiptMeansCertificate
BY DeliveryInvHolds, InvImplies, PTL

\* A completion is shown MINTED only with the token of a final mint for that
\* very job, and never with the hash of another transaction (runner.go,
\* confirmBroadcasts and processJob).
THEOREM Certified == DeliverySpec => []MintedIsCertified
BY DeliveryInvHolds, InvImplies, PTL

\* retryOrFail counts one attempt, and gives up at the last.
LEMMA RetryOrFailCounts ==
  ASSUME JobRowsTypeOK, AttemptsBounded, LocalTypeOK, RowsAgree,
         NEW w \in Workers, CopyOf(w), job[w] \in Jobs, RetryOrFail(w)
  PROVE  \A j \in Jobs : CountsOne(j)
<1>j. PICK j \in Jobs : j = job[w]
  OBVIOUS
<1>1. /\ now[w] \in Nat /\ seen[w][j].attempts \in Nat
      /\ outbox[j].attempts \in Nat
  BY DeliveryAssumption
    DEF DeliveryAssumption, LocalTypeOK, Seen, JobRowsTypeOK, OutboxRow
<1>2. Attempt(w) = seen[w][j].attempts + 1 /\ Attempt(w) \in Nat \ {0}
  BY <1>j, <1>1 DEF Attempt
<1>3. now[w] + RetryDelay(Attempt(w)) \in Nat
  BY <1>1, <1>2, RetryDelayType
<1>4. Holds(w, j, now[w]) => outbox[j].attempts = seen[w][j].attempts
  BY <1>j DEF Holds, CopyOf, Handled
<1>5. CASE Exhausted(w)
  <2>1. MarkFailed(w, j, now[w])
    BY <1>j, <1>5 DEF RetryOrFail
  <2>2. /\ \A k \in Jobs \ {j} : Kept(k)
        /\ \/ Kept(j)
           \/ /\ Holds(w, j, now[w])
              /\ outbox'[j].attempts = outbox[j].attempts
    BY <2>1, MarkFailedEffect
  <2>3. Holds(w, j, now[w]) => outbox[j].attempts = MaxMintAttempts - 1
    <3>1. outbox[j].attempts < MaxMintAttempts /\ MaxMintAttempts \in Nat
      BY DeliveryAssumption DEF AttemptsBounded, DeliveryAssumption
    <3> QED BY <1>1, <1>2, <1>4, <1>5, <3>1 DEF Exhausted
  <2> QED
    BY <2>2, <2>3 DEF Kept, CountsOne
<1>6. CASE ~Exhausted(w)
  <2>1. PICK attempt \in Nat, next \in Nat :
          attempt = Attempt(w) /\ ScheduleRetry(w, j, attempt, next, now[w])
    BY <1>j, <1>2, <1>3, <1>6 DEF RetryOrFail
  <2>2. /\ \A k \in Jobs \ {j} : Kept(k)
        /\ \/ Kept(j)
           \/ /\ Holds(w, j, now[w])
              /\ outbox'[j].attempts = attempt
              /\ outbox'[j].status = "PENDING"
    BY <2>1, ScheduleRetryEffect
  <2> QED
    BY <1>2, <1>4, <2>1, <2>2 DEF Kept, CountsOne
<1> QED BY <1>5, <1>6

\* No other step counts an attempt or gives a job up.
LEMMA NextCounts ==
  ASSUME DeliveryInv, [DeliveryNext]_deliveryVars PROVE \A j \in Jobs : CountsOne(j)
<1>0. /\ JobRowsTypeOK /\ AttemptsBounded /\ LocalTypeOK
      /\ ChainTypeOK /\ PcOK /\ RowsAgree
      /\ \A v \in Workers : CopyOf(v)
  BY DEF DeliveryTypeOK, DeliveryInv, LeaseInv, TypeInv
<1>k. UNCHANGED outbox => \A j \in Jobs : CountsOne(j)
  BY DEF CountsOne
<1>r. ASSUME NEW w \in Workers, job[w] \in Jobs, RetryOrFail(w)
      PROVE  \A j \in Jobs : CountsOne(j)
  BY <1>0, <1>r, RetryOrFailCounts
<1>d. ASSUME NEW w \in Workers, job[w] \in Jobs, pc[w] # "retry",
             MarkConfirmed(w, job[w], seen[w][job[w]].tx, found[w], now[w])
      PROVE  \A j \in Jobs : CountsOne(j)
  <2>1. seen[w][job[w]].tx \in Txs \union {Null}
    BY <1>0, <1>d DEF LocalTypeOK, Seen
  <2>2. Holds(w, job[w], now[w]) => completion[job[w]].tx = seen[w][job[w]].tx
    BY <1>0, <1>d DEF Holds, CopyOf, Handled
  <2>3. PICK j \in Jobs : j = job[w]
    BY <1>d
  <2>4. /\ \A k \in Jobs \ {j} : Kept(k)
        /\ outbox'[j].attempts = outbox[j].attempts
        /\ outbox'[j].status \in {outbox[j].status, "DELIVERED"}
    BY <1>0, <1>d, <2>1, <2>2, <2>3, MarkConfirmedEffect
  <2> QED BY <2>4 DEF Kept, CountsOne
<1>l. ASSUME NEW w \in Workers, NEW S \in SUBSET Jobs,
             LeaseTo(w, S, now[w])
      PROVE  \A j \in Jobs : CountsOne(j)
  <2>1. outbox' = [j \in Jobs |->
          IF j \in S
          THEN [outbox[j] EXCEPT !.status = "PROCESSING", !.owner = w,
                                 !.expires = now[w] + Lease]
          ELSE outbox[j]]
    BY <1>l DEF LeaseTo
  <2>2. \A j \in Jobs : outbox[j] \in OutboxRow
    BY <1>0 DEF JobRowsTypeOK
  <2>3. \A j \in Jobs : /\ outbox'[j].attempts = outbox[j].attempts
                         /\ outbox'[j].status
                              \in {"PROCESSING", outbox[j].status}
    BY <2>1, <2>2 DEF OutboxRow
  <2> QED BY <2>3 DEF CountsOne
<1>1. ASSUME NEW w \in Workers, WorkerStep(w) \/ Crash(w)
      PROVE  \A j \in Jobs : CountsOne(j)
  <2>1. CASE \/ StartCycle(w) \/ ReadReceipt(w) \/ ReadMinted(w)
             \/ CheckExisting(w) \/ Mint(w) \/ Crash(w)
    BY <1>k, <2>1
      DEF StartCycle, ReadReceipt, ReadMinted, CheckExisting, Mint, Crash, rows
  <2>2. CASE ClaimBroadcasts(w)
    BY <1>k, <1>l, <2>2 DEF ClaimBroadcasts, ClaimBroadcastJobs, rows
  <2>3. CASE ClaimMint(w)
    <3>1. UNCHANGED outbox \/ \E j \in Jobs : LeaseTo(w, {j}, now[w])
      BY <2>3 DEF ClaimMint, ClaimMintJob, rows
    <3>2. \A j \in Jobs : {j} \in SUBSET Jobs
      OBVIOUS
    <3> QED BY <1>k, <1>l, <3>1, <3>2
  <2>4. CASE RetryReverted(w) \/ Retry(w)
    BY <1>0, <1>k, <1>r, <2>4 DEF RetryReverted, Retry, PcOK, rows
  <2>5. CASE ConfirmMinted(w) \/ Reconcile(w)
    BY <1>0, <1>k, <1>d, <2>5 DEF ConfirmMinted, Reconcile, PcOK, rows
  <2>6. CASE RecordBroadcast(w)
    BY <1>k, <2>6 DEF RecordBroadcast, MarkBroadcast, rows
  <2> QED
    BY <1>1, <2>1, <2>2, <2>3, <2>4, <2>5, <2>6 DEF WorkerStep
<1>2. CASE TimePasses \/ Mine \/ Confirm \/ Reorganise \/ Forget \/ UNCHANGED deliveryVars
  BY <1>k, <1>2 DEF TimePasses, Mine, Confirm, Reorganise, Forget, deliveryVars, rows
<1> QED
  BY <1>1, <1>2 DEF DeliveryNext

\* Attempts are counted one by one and a job is given up exactly when its last
\* attempt fails, whichever workers made them (runner.go, retryOrFail).
THEOREM Counted == DeliverySpec => AttemptsCounted
<1>1. DeliveryInv /\ [DeliveryNext]_deliveryVars => [\A j \in Jobs : CountsOne(j)]_deliveryVars
  BY NextCounts
<1> QED
  BY <1>1, DeliveryInvHolds, PTL DEF DeliverySpec, AttemptsCounted

-----------------------------------------------------------------------------
(* CertificateDelivery implements CertificateService.                      *)

\* A step that changes no status and no block is invisible.
LEMMA ServiceStutter ==
  ASSUME \A k \in Jobs : completion'[k].status = completion[k].status,
         UNCHANGED chain
  PROVE  UNCHANGED Service!vars
<1>1. \A k \in Jobs : ConfirmedTokens(k)' = ConfirmedTokens(k)
  BY DEF ConfirmedTokens, Mints, chain
<1> QED BY <1>1 DEF Service!vars

\* The status changes the service allows.
LEMMA StatusMoves ==
  ASSUME NEW j \in Jobs, NEW s, UNCHANGED chain,
         \A k \in Jobs \ {j} : completion'[k].status = completion[k].status,
         completion'[j].status = s,
         \/ completion[j].status = "PENDING" /\ s = "MINTING"
         \/ completion[j].status = "MINTING" /\ s = "PENDING"
         \/ completion[j].status \in {"PENDING",
            "MINTING"} /\ s = "MINTED" /\ ConfirmedTokens(j) # {}
         \/ completion[j].status \in {"PENDING", "MINTING"} /\ s = "FAILED"
  PROVE  Service!Next
<1>1. \A k \in Jobs : ConfirmedTokens(k)' = ConfirmedTokens(k)
  BY DEF ConfirmedTokens, Mints, chain
<1>2. Service!Become(j, s)
  BY <1>1 DEF Service!Become
<1>3. \/ Service!Broadcast(j) \/ Service!GiveBack(j)
      \/ Service!Deliver(j) \/ Service!Abandon(j)
  BY <1>2
    DEF Service!Broadcast, Service!GiveBack, Service!Deliver, Service!Abandon,
        Service!Open
<1> QED BY <1>3 DEF Service!Next

\* A transaction becoming final certifies at most its own job.
LEMMA CertifyMoves ==
  ASSUME ChainTypeOK, NEW t \in Txs, Finalize(t), UNCHANGED completion
  PROVE  Service!Next \/ UNCHANGED Service!vars
<1>1. /\ final' = final \union {t} /\ txStatus' = txStatus /\ txJob' = txJob
  BY DEF Finalize
<1>2. CASE \E j \in Jobs : Mints(t, j) /\ ConfirmedTokens(j) = {}
  <2>1. PICK j \in Jobs : Mints(t, j) /\ ConfirmedTokens(j) = {}
    BY <1>2
  <2>2. \A k \in Jobs \ {j} : ConfirmedTokens(k)' = ConfirmedTokens(k)
    BY <1>1, <2>1 DEF ConfirmedTokens, Mints
  <2>3. ConfirmedTokens(j)' # {}
    BY <1>1, <2>1 DEF ConfirmedTokens, Mints
  <2>4. Service!Certify(j)
    BY <2>1, <2>2, <2>3 DEF Service!Certify
  <2> QED BY <2>4 DEF Service!Next
<1>3. CASE ~ \E j \in Jobs : Mints(t, j) /\ ConfirmedTokens(j) = {}
  <2>1. \A k \in Jobs : ConfirmedTokens(k)' # {} <=> ConfirmedTokens(k) # {}
    BY <1>1, <1>3 DEF ConfirmedTokens, Mints
  <2> QED BY <2>1 DEF Service!vars
<1> QED BY <1>2, <1>3

\* All other steps of the chain are invisible.
LEMMA ChainStutter ==
  ASSUME ChainTypeOK, ChainSound, UNCHANGED completion,
         \/ \E t \in Txs, j \in Jobs : Send(t, j)
         \/ \E t \in Txs : Include(t) \/ Drop(t)
         \/ \E S \in SUBSET Txs : Reorg(S)
         \/ UNCHANGED chain
  PROVE  UNCHANGED Service!vars
<1>1. final' = final
  BY DEF Send, Include, Drop, Reorg, chain
<1>2. \A t \in final : txStatus'[t] = txStatus[t] /\ txJob'[t] = txJob[t]
  BY DEF Send, Include, Drop, Reorg, chain, ChainTypeOK, ChainSound, Included
<1>3. \A k \in Jobs : ConfirmedTokens(k)' = ConfirmedTokens(k)
  BY <1>1, <1>2 DEF ConfirmedTokens, Mints
<1> QED BY <1>3 DEF Service!vars

\* A confirmation delivers, or changes nothing.
LEMMA DeliverMoves ==
  ASSUME JobRowsTypeOK, RowsAgree, LocalTypeOK, NEW w \in Workers,
         job[w] \in Jobs, CopyOf(w), KnowledgeSound(w),
         pc[w] \in {"confirm", "reconcile"}, UNCHANGED chain,
         MarkConfirmed(w, job[w], seen[w][job[w]].tx, found[w], now[w])
  PROVE  Service!Next \/ UNCHANGED Service!vars
<1>j. PICK j \in Jobs : j = job[w]
  OBVIOUS
<1>1. \A k \in Jobs \ {j} : completion'[k].status = completion[k].status
  BY <1>j DEF MarkConfirmed, JobRowsTypeOK, CompletionRow
<1>2. CASE completion' = completion
  BY <1>2, ServiceStutter
<1>3. CASE completion' # completion
  <2>1. Holds(w, j, now[w])
    BY <1>j, <1>3 DEF MarkConfirmed
  <2>2. completion'[j].status = "MINTED"
    BY <1>j, <1>3 DEF MarkConfirmed, JobRowsTypeOK, CompletionRow
  <2>3. completion[j].status \in {"PENDING", "MINTING"}
    BY <2>1 DEF Holds, RowsAgree, RowAgrees
  <2>4. ConfirmedTokens(j) # {}
    BY <1>j DEF KnowledgeSound
  <2> QED BY <1>1, <2>2, <2>3, <2>4, StatusMoves
<1> QED BY <1>2, <1>3

\* A recorded broadcast is one, or changes nothing.
LEMMA BroadcastMoves ==
  ASSUME JobRowsTypeOK, RowsAgree, NEW w \in Workers, job[w] \in Jobs,
         UNCHANGED chain,
         MarkBroadcast(w, job[w], found[w], now[w])
  PROVE  Service!Next \/ UNCHANGED Service!vars
<1>j. PICK j \in Jobs : j = job[w]
  OBVIOUS
<1>1. \A k \in Jobs \ {j} : completion'[k].status = completion[k].status
  BY <1>j DEF MarkBroadcast, JobRowsTypeOK, CompletionRow
<1>2. CASE completion' = completion
  BY <1>2, ServiceStutter
<1>3. CASE completion' # completion
  <2>1. Holds(w, j, now[w])
    BY <1>j, <1>3 DEF MarkBroadcast
  <2>2. completion'[j].status = "MINTING"
    BY <1>j, <1>3 DEF MarkBroadcast, JobRowsTypeOK, CompletionRow
  <2>3. completion[j].status \in {"PENDING", "MINTING"}
    BY <2>1 DEF Holds, RowsAgree, RowAgrees
  <2>4. CASE completion[j].status = "PENDING"
    BY <1>1, <2>2, <2>4, StatusMoves
  <2>5. CASE completion[j].status = "MINTING"
    BY <1>1, <2>2, <2>5, ServiceStutter
  <2> QED BY <2>3, <2>4, <2>5
<1> QED BY <1>2, <1>3

\* retryOrFail gives back, abandons, or changes nothing.
LEMMA RetryMoves ==
  ASSUME JobRowsTypeOK, RowsAgree, NEW w \in Workers, job[w] \in Jobs,
         UNCHANGED chain, RetryOrFail(w)
  PROVE  Service!Next \/ UNCHANGED Service!vars
<1>j. PICK j \in Jobs : j = job[w]
  OBVIOUS
<1>1. \A k \in Jobs \ {j} : completion'[k].status = completion[k].status
  BY <1>j
    DEF RetryOrFail, MarkFailed, ScheduleRetry, JobRowsTypeOK, CompletionRow, rows
<1>2. CASE completion' = completion
  BY <1>2, ServiceStutter
<1>3. CASE completion' # completion
  <2>1. Holds(w, j, now[w])
    BY <1>j, <1>3 DEF RetryOrFail, MarkFailed, ScheduleRetry, rows
  <2>2. completion'[j].status \in {"PENDING", "FAILED"}
    BY <1>j, <1>3, <2>1
      DEF RetryOrFail, MarkFailed, ScheduleRetry, JobRowsTypeOK, CompletionRow,
          rows
  <2>3. completion[j].status \in {"PENDING", "MINTING"}
    BY <2>1 DEF Holds, RowsAgree, RowAgrees
  <2>4. CASE completion'[j].status = "FAILED"
    BY <1>1, <2>3, <2>4, StatusMoves
  <2>5. CASE /\ completion'[j].status = "PENDING"
             /\ completion[j].status = "MINTING"
    BY <1>1, <2>5, StatusMoves
  <2>6. CASE /\ completion'[j].status = "PENDING"
             /\ completion[j].status = "PENDING"
    BY <1>1, <2>6, ServiceStutter
  <2> QED BY <2>2, <2>3, <2>4, <2>5, <2>6
<1> QED BY <1>2, <1>3

\* Every step of the workers is a step of the service or invisible to it.
LEMMA ServiceStep ==
  ASSUME DeliveryInv, [DeliveryNext]_deliveryVars
  PROVE  [Service!Next]_Service!vars
<1>0. /\ JobRowsTypeOK /\ LocalTypeOK /\ ChainTypeOK /\ PcOK /\ RowsAgree
      /\ ChainSound
      /\ \A v \in Workers : CopyOf(v) /\ KnowledgeSound(v)
  BY DEF DeliveryTypeOK, DeliveryInv, LeaseInv, TypeInv
<1>s. UNCHANGED completion /\ UNCHANGED chain => UNCHANGED Service!vars
  BY ServiceStutter
<1>1. ASSUME NEW w \in Workers, WorkerStep(w) \/ Crash(w)
      PROVE  Service!Next \/ UNCHANGED Service!vars
  <2>1. CASE \/ StartCycle(w) \/ ReadReceipt(w) \/ ReadMinted(w)
             \/ CheckExisting(w) \/ Crash(w)
    BY <1>s, <2>1
      DEF StartCycle, ReadReceipt, ReadMinted, CheckExisting, Crash, rows
  <2>2. CASE ClaimBroadcasts(w) \/ ClaimMint(w)
    BY <1>s, <2>2
      DEF ClaimBroadcasts, ClaimBroadcastJobs, ClaimMint, ClaimMintJob,
          LeaseTo, rows
  <2>3. CASE RetryReverted(w) \/ Retry(w)
    BY <1>0, <1>s, <2>3, RetryMoves DEF RetryReverted, Retry, PcOK, rows
  <2>4. CASE ConfirmMinted(w) \/ Reconcile(w)
    BY <1>0, <1>s, <2>4, DeliverMoves DEF ConfirmMinted, Reconcile, PcOK, rows
  <2>5. CASE RecordBroadcast(w)
    BY <1>0, <1>s, <2>5, BroadcastMoves DEF RecordBroadcast, PcOK, rows
  <2>6. CASE Mint(w)
    <3>1. job[w] \in Jobs /\ completion' = completion
      BY <1>0, <2>6 DEF Mint, PcOK, rows
    <3>2. UNCHANGED chain \/ \E t \in Txs, j \in Jobs : Send(t, j)
      BY <2>6, <3>1 DEF Mint
    <3> QED BY <1>0, <3>1, <3>2, ChainStutter
  <2> QED
    BY <1>1, <2>1, <2>2, <2>3, <2>4, <2>5, <2>6 DEF WorkerStep
<1>2. CASE Confirm
  BY <1>0, <1>2, CertifyMoves DEF Confirm, rows
<1>3. CASE TimePasses \/ Mine \/ Reorganise \/ Forget \/ UNCHANGED deliveryVars
  BY <1>0, <1>3, ChainStutter DEF TimePasses, Mine, Reorganise, Forget, deliveryVars, rows
<1> QED
  BY <1>1, <1>2, <1>3 DEF DeliveryNext

\* The initial states map to initial states.
LEMMA ServiceInit == DeliveryInit => Service!Init
BY DEF DeliveryInit, RowsInit, ChainInit, ConfirmedTokens, Service!Init

\* The workers, the outbox and the chain together implement CertificateService.
THEOREM Refinement == DeliverySpec => ImplementsService
BY ServiceInit, ServiceStep, DeliveryInvHolds, PTL
  DEF DeliverySpec, ImplementsService, Service!Spec
=============================================================================
