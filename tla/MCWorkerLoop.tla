---------------------------- MODULE MCWorkerLoop ----------------------------
(***************************************************************************)
(* What runLoop of the worker calls in every cycle, the purchase indexer   *)
(* and the certificate runner, with their fairness.  They share no table,  *)
(* and loop selects the one that moves.                                    *)
(***************************************************************************)
EXTENDS MCPurchaseIndexer

CONSTANTS j1, Runners, Txs

VARIABLE loop

\* The certificate runner; its names that the indexer has too begin with mint.
VARIABLES outbox, completion, txStatus, txJob, final,
          workerClock, mintFaults, mintPc, now, batch, job, seen, found

Minting == INSTANCE CertificateDelivery WITH
  Jobs <- {j1}, Workers <- Runners, Null <- None, Bought <- {j1}, Lease <- 2,
  BroadcastLimit <- 10, MaxMintAttempts <- 3, MaxWorkerClock <- 12, MaxFaults <- 2,
  FaultKinds <- {"db", "rpc", "crash", "reorg", "drop"},
  faults <- mintFaults, pc <- mintPc

mintVars == <<outbox, completion, txStatus, txJob, final,
              workerClock, mintFaults, mintPc, now, batch, job, seen, found>>
loopVars == <<loop, vars, mintVars>>

LoopInit ==
  /\ loop \in {"purchases", "certificates"}
  /\ Init /\ Minting!DeliveryInit

LoopNext ==
  \/ loop = "purchases" /\ Next /\ UNCHANGED <<loop, mintVars>>
  \/ loop = "certificates" /\ Minting!DeliveryNext /\ UNCHANGED <<loop, vars>>

\* The fairness of both, each for the loop that moves.
LoopFairness ==
  /\ WF_vars(loop = "purchases" /\ Grow)
  /\ \A i \in Indexers : WF_vars(loop = "purchases" /\ Sync(i))
  /\ \A w \in Runners : WF_mintVars(loop = "certificates" /\ Minting!WorkerStep(w))
  /\ WF_mintVars(loop = "certificates" /\ Minting!Mine)
  /\ WF_mintVars(loop = "certificates" /\ Minting!Confirm)
  /\ WF_mintVars(loop = "certificates" /\ Minting!TimePasses)

LoopSpec == LoopInit /\ [][LoopNext]_loopVars /\ LoopFairness

\* Every job ends, or its transaction is forgotten by the network: nothing else that
\* may fail leaves a certificate in progress for ever (runner.go:127, 155-163).
SettledUnlessStranded == loop = "certificates" => Minting!SettledUnlessStranded
=============================================================================
