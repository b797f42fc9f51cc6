-------------------------- MODULE PurchaseIndexer --------------------------
(***************************************************************************)
(* The purchase indexer of the Go worker: every worker process runs one,   *)
(* over the same checkpoint, PurchaseEvent and EntitlementProjection rows. *)
(*                                                                         *)
(* A sync reads the head, the checkpoint, the logs of a range that overlaps*)
(* what was read before, the hash of the safe head, and then replaces that *)
(* range in one database transaction.  The chain and the other indexers    *)
(* may act between any two of these steps.                                 *)
(***************************************************************************)
EXTENDS PurchaseChain

CONSTANTS
  Indexers,                   \* one per worker process
  Confirmations,              \* WORKER_CONFIRMATIONS
  ReorgDepth,                 \* INDEXER_REORG_DEPTH
  None,                       \* no source event
  MaxFaults                   \* bound: failed calls and crashes

ASSUME IndexerAssumption ==
  /\ Confirmations \in Nat \ {0}
  /\ ReorgDepth \in Nat \ {0}
  /\ None \notin Purchases
  /\ MaxFaults \in Nat

\* Only one worker process runs.
OneIndexer == \E i \in Indexers : Indexers = {i}

\* A change of the chain reaches no deeper than the replayed overlap.
ShortReorgs == Finality < ReorgDepth + Confirmations

VARIABLES
  nextBlock,                  \* the checkpoint, 0 as long as there is no row
  event,                      \* PurchaseEvent row of each purchase
  entitlement,                \* EntitlementProjection row of each pair
  pc,                         \* where each indexer is in its sync
  safe,                       \* the safe head it read
  from,                       \* first block of its range
  logs,                       \* block of each purchase in the logs it read
  faults                      \* faults so far

tables == <<nextBlock, event, entitlement>>
local == <<pc, safe, from, logs>>
vars == <<chain, tables, local, faults>>

Step == {"idle", "checkpoint", "logs", "hash", "apply"}
NoLogs == [t \in Purchases |-> 0]

EventRow == [block : Nat, canonical : BOOLEAN]
EntitlementRow == [source : Purchases \union {None}, active : BOOLEAN]

TypeOK ==
  /\ ChainTypeOK
  /\ nextBlock \in Nat
  /\ event \in [Purchases -> EventRow]
  /\ entitlement \in [Pairs -> EntitlementRow]
  /\ pc \in [Indexers -> Step]
  /\ safe \in [Indexers -> Nat]
  /\ from \in [Indexers -> Nat]
  /\ logs \in [Indexers -> [Purchases -> Nat]]
  /\ faults \in 0..MaxFaults

Init ==
  /\ ChainInit
  /\ nextBlock = 0
  /\ event = [t \in Purchases |-> [block |-> 0, canonical |-> FALSE]]
  /\ entitlement = [p \in Pairs |-> [source |-> None, active |-> FALSE]]
  /\ pc = [i \in Indexers |-> "idle"]
  /\ safe = [i \in Indexers |-> 0]
  /\ from = [i \in Indexers |-> 0]
  /\ logs = [i \in Indexers |-> NoLogs]
  /\ faults = 0

-----------------------------------------------------------------------------
(* The range of a sync.                                                    *)

\* head - (confirmations - 1), when there is such a block at or after the
\* start; the code returns early otherwise.
SafeHead == head - (Confirmations - 1)
HasSafeHead == head + 1 >= Confirmations /\ SafeHead >= StartBlock

\* Where the checkpoint says to go on, never beyond the safe head.
Resume(s) ==
  LET next == IF nextBlock > StartBlock THEN nextBlock ELSE StartBlock
  IN  IF next > s + 1 THEN s + 1 ELSE next

\* Fault: only new blocks are read.
NoOverlap(s) == Resume(s)

RewindFrom(s) ==
  IF Resume(s) > ReorgDepth /\ Resume(s) - ReorgDepth > StartBlock
  THEN Resume(s) - ReorgDepth
  ELSE StartBlock

-----------------------------------------------------------------------------
(* One database transaction.                                               *)

\* Fault: the block of an event is not looked at, or none is revoked.
RevokesEverything(first) == {t \in Purchases : event[t].canonical}
RevokesNothing(first) == {}

\* RevokeCanonicalPurchasesFrom has no upper end.
Reverted(first) ==
  {t \in Purchases : event[t].canonical /\ event[t].block >= first}

\* Fault: an entitlement outlives its source.
NeverRevoked(first, p) == FALSE
Revoked(first, p) == entitlement[p].source \in Reverted(first)

Observed(found, p) == {t \in Purchases : found[t] # 0 /\ PairOf[t] = p}

\* A pair is observed at most once: no chain has two purchases of it.
ApplyRange(first, found, next) ==
  /\ event' = [t \in Purchases |->
       IF found[t] # 0 THEN [block |-> found[t], canonical |-> TRUE]
       ELSE IF t \in Reverted(first) THEN [event[t] EXCEPT !.canonical = FALSE]
       ELSE event[t]]
  /\ entitlement' = [p \in Pairs |->
       IF Observed(found, p) # {}
       THEN [source |-> CHOOSE t \in Purchases : t \in Observed(found, p),
             active |-> TRUE]
       ELSE IF Revoked(first, p) THEN [entitlement[p] EXCEPT !.active = FALSE]
       ELSE entitlement[p]]
  /\ nextBlock' = next

-----------------------------------------------------------------------------
(* A sync, step by step.                                                   *)

Goto(i, step) == pc' = [pc EXCEPT ![i] = step]

EndSync(i) ==
  /\ Goto(i, "idle")
  /\ safe' = [safe EXCEPT ![i] = 0]
  /\ from' = [from EXCEPT ![i] = 0]
  /\ logs' = [logs EXCEPT ![i] = NoLogs]

ReadHead(i) ==
  /\ pc[i] = "idle"
  /\ HasSafeHead
  /\ Goto(i, "checkpoint")
  /\ safe' = [safe EXCEPT ![i] = SafeHead]
  /\ UNCHANGED <<chain, tables, from, logs, faults>>

LoadCheckpoint(i) ==
  /\ pc[i] = "checkpoint"
  /\ Goto(i, "logs")
  /\ from' = [from EXCEPT ![i] = RewindFrom(safe[i])]
  /\ UNCHANGED <<chain, tables, safe, logs, faults>>

\* One eth_getLogs call sees one chain, whatever it was when the head was read.
LogsOf(i) ==
  [t \in Purchases |->
     IF Mined(t) /\ minedAt[t] \in from[i]..safe[i] THEN minedAt[t] ELSE 0]

ReadLogs(i) ==
  /\ pc[i] = "logs"
  /\ Goto(i, "hash")
  /\ logs' = [logs EXCEPT ![i] = LogsOf(i)]
  /\ UNCHANGED <<chain, tables, safe, from, faults>>

\* The hash itself is stored and never read again.
ReadHash(i) ==
  /\ pc[i] = "hash"
  /\ IF safe[i] <= head
     THEN Goto(i, "apply") /\ UNCHANGED <<safe, from, logs>>
     ELSE EndSync(i)
  /\ UNCHANGED <<chain, tables, faults>>

ApplyPurchaseRange(i) ==
  /\ pc[i] = "apply"
  /\ ApplyRange(from[i], logs[i], safe[i] + 1)
  /\ EndSync(i)
  /\ UNCHANGED <<chain, faults>>

\* A call fails and Sync returns, or the process dies.  A commit whose answer
\* is lost is an ApplyPurchaseRange.
Fail(i) ==
  /\ pc[i] # "idle"
  /\ faults < MaxFaults
  /\ faults' = faults + 1
  /\ EndSync(i)
  /\ UNCHANGED <<chain, tables>>

Sync(i) ==
  \/ ReadHead(i) \/ LoadCheckpoint(i) \/ ReadLogs(i) \/ ReadHash(i)
  \/ ApplyPurchaseRange(i)

Grow == (\E S \in SUBSET Purchases : MineBlock(S)) /\ UNCHANGED <<tables, local, faults>>

Fork == (\E f \in 0..head : Reorganise(f)) /\ UNCHANGED <<tables, local, faults>>

Next == (\E i \in Indexers : Sync(i) \/ Fail(i)) \/ Grow \/ Fork

Spec == Init /\ [][Next]_vars

\* The poll loop calls Sync again and again, whatever the last call returned,
\* and blocks keep coming.
FairSpec == Spec /\ WF_vars(Grow) /\ \A i \in Indexers : WF_vars(Sync(i))

-----------------------------------------------------------------------------
(* Properties                                                              *)

\* Whoever may learn owns a purchase that the tables hold for canonical: the
\* projection is derived from PurchaseEvent rows only, and a revocation
\* reaches both tables or none.
EntitlementsBacked ==
  \A p \in Pairs :
    entitlement[p].active =>
      /\ entitlement[p].source \in Purchases
      /\ PairOf[entitlement[p].source] = p
      /\ event[entitlement[p].source].canonical

\* Below the overlap that every sync replays, the tables are exactly the
\* chain.  They are never looked at again there, so an error would stay.
OverlapSettled ==
  \A t \in Purchases, b \in 1..top :
    b + ReorgDepth < nextBlock =>
      ((event[t].canonical /\ event[t].block = b) <=> minedAt[t] = b)

\* Nobody who bought is locked out: a canonical purchase has its entitlement.
PurchasesEntitled ==
  \A t \in Purchases :
    event[t].canonical => entitlement[PairOf[t]].active

\* A purchase below the overlap loses its row only to a sync that moves the
\* checkpoint back, which makes the next ones read its block again.
Settled(t) == event[t].canonical /\ event[t].block + ReorgDepth < nextBlock

RevokedOnlyByRewind ==
  [][\A t \in Purchases :
       Settled(t) => event'[t].canonical \/ nextBlock' <= event[t].block]_vars

\* Once the chain rests, the entitlements become those it confirms, and stay.
ConfirmedPairs == {PairOf[t] : t \in {u \in Purchases : minedAt[u] \in 1..SafeHead}}

Converges == <>[](\A p \in Pairs : entitlement[p].active <=> p \in ConfirmedPairs)

-----------------------------------------------------------------------------
(* The inductive invariant behind OverlapSettled and what follows from it, *)
(* for short reorganisations and a single indexer.                         *)

ChainSound ==
  /\ \A t \in Purchases : Mined(t) => minedAt[t] >= StartBlock
  /\ \A t, u \in Purchases :
       Mined(t) /\ Mined(u) /\ PairOf[t] = PairOf[u] => t = u

TablesSound ==
  /\ nextBlock # 0 => nextBlock + Confirmations <= top + 2
  /\ \A t \in Purchases :
       event[t].canonical =>
         /\ event[t].block \in 1..top
         /\ event[t].block >= StartBlock
         /\ event[t].block < nextBlock
  /\ \A t, u \in Purchases :
       event[t].canonical /\ event[u].canonical /\ PairOf[t] = PairOf[u] => t = u

\* A block too deep to change while indexer i holds logs of it.
Deep(i, b) == b + ReorgDepth <= safe[i] \/ b + ReorgDepth < nextBlock

\* What indexer i knows at each step of its sync.
RangeSound(i) ==
  /\ pc[i] # "idle" =>
       StartBlock <= safe[i] /\ safe[i] + Confirmations <= top + 1
  /\ pc[i] \in {"logs", "hash", "apply"} =>
       /\ from[i] \in StartBlock..safe[i]
       /\ from[i] = StartBlock \/ from[i] + ReorgDepth <= nextBlock

LogsSound(i) ==
  pc[i] \in {"hash", "apply"} =>
    \A t \in Purchases :
      /\ logs[i][t] # 0 => logs[i][t] \in from[i]..safe[i]
      /\ \A b \in from[i]..safe[i] :
           b # 0 /\ Deep(i, b) => (logs[i][t] = b <=> minedAt[t] = b)
      /\ \A u \in Purchases :
           logs[i][t] # 0 /\ PairOf[u] = PairOf[t] =>
             /\ u = t \/ logs[i][u] = 0
             /\ event[u].canonical => event[u].block >= from[i]

IndexerInv ==
  /\ TypeOK
  /\ EntitlementsBacked
  /\ ChainSound
  /\ TablesSound
  /\ OverlapSettled
  /\ PurchasesEntitled
  /\ \A i \in Indexers : RangeSound(i) /\ LogsSound(i)
=============================================================================
