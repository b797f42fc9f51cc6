-------------------------- MODULE CertificateChain --------------------------
(***************************************************************************)
(* CertificateSBT as its transactions see it.                              *)
(*                                                                         *)
(* A transaction calls mintCertificate for one job, that is for one        *)
(* (student, course).  Once included in a block it has succeeded or        *)
(* reverted; once deep enough (the worker's `confirmations`) it is final.  *)
(* Blocks that are not final may be reorganised away, and the mempool may  *)
(* forget a transaction.  A token is named by the transaction minting it.  *)
(***************************************************************************)
EXTENDS MintJobs, FiniteSets

CONSTANT
  Bought                      \* jobs whose buyer CourseMarket knows as a buyer

ASSUME ChainAssumption == Bought \subseteq Jobs

VARIABLES
  txStatus,                   \* unsent, pending, success, reverted or dropped
  txJob,                      \* the job a sent transaction mints for
  final                       \* transactions as deep as `confirmations`

chain == <<txStatus, txJob, final>>

ChainTypeOK ==
  /\ txStatus \in
       [Txs -> {"unsent", "pending", "success", "reverted", "dropped"}]
  /\ txJob \in [Txs -> Jobs \union {Null}]
  /\ final \subseteq Txs

ChainInit ==
  /\ txStatus = [t \in Txs |-> "unsent"]
  /\ txJob = [t \in Txs |-> Null]
  /\ final = {}

Mints(t, j) == txJob[t] = j /\ txStatus[t] = "success"

\* _certificateByCourse in the latest block, and `confirmations` blocks back.
LatestTokens(j) == {t \in Txs : Mints(t, j)}
ConfirmedTokens(j) == {t \in final : Mints(t, j)}

\* What the worker's client reads.  Fault: it reads the latest block.
CertificateOfLatest(j) == LatestTokens(j)
CertificateOf(j) == ConfirmedTokens(j)

Included(t) == txStatus[t] \in {"success", "reverted"}

\* Receipt.Confirmed: found, and deep enough.
ReceiptConfirmed(t) == t \in final

\* mintCertificate reverts unless the course was purchased and no
\* certificate exists yet.  onlyRole and the zero checks always pass here.
MintSucceeds(j) == j \in Bought /\ LatestTokens(j) = {}

Send(t, j) ==
  /\ txStatus[t] = "unsent"
  /\ txStatus' = [txStatus EXCEPT ![t] = "pending"]
  /\ txJob' = [txJob EXCEPT ![t] = j]
  /\ UNCHANGED final

Include(t) ==
  /\ txStatus[t] = "pending"
  /\ txStatus' = [txStatus EXCEPT ![t] =
       IF MintSucceeds(txJob[t]) THEN "success" ELSE "reverted"]
  /\ UNCHANGED <<txJob, final>>

\* A revert caused by another transaction's certificate lies above it.
Above(t, s) ==
  txJob[t] = txJob[s] /\ txStatus[t] = "reverted" /\ txStatus[s] = "success"

Finalize(t) ==
  /\ Included(t)
  /\ t \notin final
  /\ \A s \in Txs : Above(t, s) => s \in final
  /\ final' = final \union {t}
  /\ UNCHANGED <<txStatus, txJob>>

\* A reorganisation no deeper than the confirmation depth.
Reorg(S) ==
  /\ S # {}
  /\ \A t \in S : Included(t) /\ t \notin final
  /\ \A s \in S, t \in Txs : Above(t, s) => t \in S
  /\ txStatus' = [t \in Txs |-> IF t \in S THEN "pending" ELSE txStatus[t]]
  /\ UNCHANGED <<txJob, final>>

Drop(t) ==
  /\ txStatus[t] = "pending"
  /\ txStatus' = [txStatus EXCEPT ![t] = "dropped"]
  /\ UNCHANGED <<txJob, final>>
=============================================================================
