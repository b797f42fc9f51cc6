----------------------- MODULE PurchaseIndexerProofs -----------------------
(***************************************************************************)
(* Proofs about PurchaseIndexer.                                           *)
(*                                                                         *)
(* For any number of indexers and reorganisations of any depth: the types, *)
(* and that every entitlement is backed by a canonical purchase.  For one  *)
(* indexer and short reorganisations: IndexerInv, and the properties that  *)
(* are about the overlap.                                                  *)
(***************************************************************************)
EXTENDS PurchaseIndexer, TLAPS

-----------------------------------------------------------------------------
(* The chain alone.                                                        *)

\* What a new block changes.
LEMMA MineBlockEffect ==
  ASSUME ChainTypeOK, NEW S \in SUBSET Purchases, MineBlock(S)
  PROVE  /\ ChainTypeOK'
         /\ top <= top'
         /\ \A t \in Purchases :
              \/ t \notin S /\ minedAt'[t] = minedAt[t]
              \/ t \in S /\ minedAt[t] = 0 /\ minedAt'[t] = head + 1
<1>1. \A t \in Purchases :
        \/ t \notin S /\ minedAt'[t] = minedAt[t]
        \/ t \in S /\ minedAt[t] = 0 /\ minedAt'[t] = head + 1
  BY DEF MineBlock, BuysOnce, Mined
<1>2. minedAt' \in [Purchases -> Nat]
  BY <1>1 DEF MineBlock, ChainTypeOK
<1>3. head' \in Nat /\ top' \in Nat /\ top <= top' /\ head' = head + 1 /\ reorgs' = reorgs
      /\ head' <= top' /\ top' - Finality <= head'
  BY PurchaseChainAssumption DEF PurchaseChainAssumption, MineBlock, ChainTypeOK
<1>4. \A t \in Purchases : minedAt'[t] <= head'
  BY <1>1, <1>3 DEF ChainTypeOK
<1> QED
  BY <1>1, <1>2, <1>3, <1>4 DEF ChainTypeOK

\* What a reorganisation changes.
LEMMA ReorganiseEffect ==
  ASSUME ChainTypeOK, NEW fork \in 0..head, Reorganise(fork)
  PROVE  /\ ChainTypeOK'
         /\ top' = top
         /\ \A t \in Purchases :
              \/ minedAt'[t] = minedAt[t]
              \/ minedAt'[t] = 0 /\ minedAt[t] > top - Finality
<1>1. \A t \in Purchases :
        \/ minedAt'[t] = minedAt[t] /\ minedAt[t] <= fork
        \/ minedAt'[t] = 0 /\ minedAt[t] > fork
  BY DEF Reorganise, ChainTypeOK
<1>2. minedAt' \in [Purchases -> Nat]
  BY <1>1 DEF Reorganise, ChainTypeOK
<1>3. head' = fork /\ top' = top /\ top - Finality <= fork /\ fork \in Nat /\ fork <= top
      /\ reorgs' \in 0..MaxReorgs
  BY PurchaseChainAssumption DEF PurchaseChainAssumption, Reorganise, ChainTypeOK
<1>4. \A t \in Purchases : minedAt'[t] <= head'
  BY <1>1, <1>3
<1>5. \A t \in Purchases :
        \/ minedAt'[t] = minedAt[t]
        \/ minedAt'[t] = 0 /\ minedAt[t] > top - Finality
  BY <1>1, <1>3, PurchaseChainAssumption DEF PurchaseChainAssumption, ChainTypeOK
<1> QED
  BY <1>2, <1>3, <1>4, <1>5 DEF ChainTypeOK

-----------------------------------------------------------------------------
(* One database transaction.                                               *)

\* The row of purchase t afterwards: observed, revoked or kept.
EventFate(first, found, t) ==
  \/ /\ found[t] # 0
     /\ event'[t].block = found[t]
     /\ event'[t].canonical
  \/ /\ found[t] = 0
     /\ event[t].canonical /\ event[t].block >= first
     /\ ~event'[t].canonical
  \/ /\ found[t] = 0
     /\ event[t].canonical => event[t].block < first
     /\ event'[t] = event[t]

\* The row of pair p afterwards.
EntitlementFate(first, found, p) ==
  \/ \E t \in Purchases :
       /\ found[t] # 0 /\ PairOf[t] = p
       /\ entitlement'[p].source = t
       /\ entitlement'[p].active
  \/ /\ \A t \in Purchases : found[t] # 0 => PairOf[t] # p
     /\ entitlement[p].source \in Reverted(first)
     /\ ~entitlement'[p].active
  \/ /\ \A t \in Purchases : found[t] # 0 => PairOf[t] # p
     /\ entitlement[p].source \notin Reverted(first)
     /\ entitlement'[p] = entitlement[p]

\* ApplyRange gives every purchase one of the three fates.
LEMMA EventEffect ==
  ASSUME TypeOK, NEW found \in [Purchases -> Nat], NEW first \in Nat, NEW next,
         ApplyRange(first, found, next)
  PROVE  /\ \A t \in Purchases : EventFate(first, found, t)
         /\ event' \in [Purchases -> EventRow]
<1>1. ASSUME NEW t \in Purchases PROVE EventFate(first, found, t) /\ event'[t] \in EventRow
  <2>1. /\ event[t] \in EventRow /\ event[t].block \in Nat /\ event[t].canonical \in BOOLEAN
        /\ found[t] \in Nat
    BY DEF TypeOK, EventRow
  <2>2. event'[t] =
          IF found[t] # 0 THEN [block |-> found[t], canonical |-> TRUE]
          ELSE IF t \in Reverted(first) THEN [event[t] EXCEPT !.canonical = FALSE]
          ELSE event[t]
    BY DEF ApplyRange
  <2>3. t \in Reverted(first) <=> event[t].canonical /\ event[t].block >= first
    BY DEF Reverted
  <2>4. CASE found[t] # 0
    BY <2>1, <2>2, <2>4 DEF EventFate, EventRow
  <2>5. CASE found[t] = 0 /\ t \in Reverted(first)
    BY <2>1, <2>2, <2>3, <2>5 DEF EventFate, EventRow
  <2>6. CASE found[t] = 0 /\ t \notin Reverted(first)
    BY <2>1, <2>2, <2>3, <2>6 DEF EventFate
  <2> QED BY <2>4, <2>5, <2>6
<1>2. event' = [t \in Purchases |-> event'[t]]
  BY DEF ApplyRange
<1> QED BY <1>1, <1>2

\* And every pair.
LEMMA EntitlementEffect ==
  ASSUME TypeOK, NEW found \in [Purchases -> Nat], NEW first \in Nat, NEW next,
         ApplyRange(first, found, next)
  PROVE  /\ \A p \in Pairs : EntitlementFate(first, found, p)
         /\ entitlement' \in [Pairs -> EntitlementRow]
<1>1. ASSUME NEW p \in Pairs
      PROVE  EntitlementFate(first, found, p) /\ entitlement'[p] \in EntitlementRow
  <2>1. entitlement[p] \in EntitlementRow
    BY DEF TypeOK
  <2>2. entitlement'[p] =
          IF Observed(found, p) # {}
          THEN [source |-> CHOOSE t \in Purchases : t \in Observed(found, p), active |-> TRUE]
          ELSE IF Revoked(first, p) THEN [entitlement[p] EXCEPT !.active = FALSE]
          ELSE entitlement[p]
    BY DEF ApplyRange
  <2>3. CASE Observed(found, p) # {}
    <3>1. \E t \in Purchases : t \in Observed(found, p)
      BY <2>3 DEF Observed
    <3>2. PICK t \in Purchases :
            t \in Observed(found, p) /\ entitlement'[p] = [source |-> t, active |-> TRUE]
      BY <2>2, <2>3, <3>1
    <3>3. entitlement'[p].source = t /\ entitlement'[p].active
      BY <3>2
    <3>4. found[t] # 0 /\ PairOf[t] = p
      BY <3>2 DEF Observed
    <3> QED BY <3>2, <3>3, <3>4 DEF EntitlementFate, EntitlementRow
  <2>4. ASSUME Observed(found, p) = {} PROVE \A t \in Purchases : found[t] # 0 => PairOf[t] # p
    BY <2>4 DEF Observed
  <2>5. CASE Observed(found, p) = {} /\ Revoked(first, p)
    <3>1. entitlement'[p] = [entitlement[p] EXCEPT !.active = FALSE]
      BY <2>2, <2>5
    <3>2. entitlement'[p] \in EntitlementRow /\ ~entitlement'[p].active
      BY <2>1, <3>1 DEF EntitlementRow
    <3> QED BY <2>4, <2>5, <3>2 DEF EntitlementFate, Revoked
  <2>6. CASE Observed(found, p) = {} /\ ~Revoked(first, p)
    BY <2>1, <2>2, <2>4, <2>6 DEF EntitlementFate, Revoked
  <2> QED BY <2>3, <2>5, <2>6
<1>2. entitlement' = [p \in Pairs |-> entitlement'[p]]
  BY DEF ApplyRange
<1> QED BY <1>1, <1>2

\* No entitlement outlives the purchase it rests on.
LEMMA ApplyRangeBacked ==
  ASSUME TypeOK, EntitlementsBacked,
         NEW found \in [Purchases -> Nat], NEW first \in Nat, NEW next,
         ApplyRange(first, found, next)
  PROVE  EntitlementsBacked'
<1> SUFFICES ASSUME NEW p \in Pairs, entitlement'[p].active
             PROVE  /\ entitlement'[p].source \in Purchases
                    /\ PairOf[entitlement'[p].source] = p
                    /\ event'[entitlement'[p].source].canonical
  BY DEF EntitlementsBacked
<1>1. \A t \in Purchases : EventFate(first, found, t)
  BY EventEffect
<1>2. EntitlementFate(first, found, p)
  BY EntitlementEffect
<1>3. ASSUME NEW t \in Purchases, found[t] # 0, PairOf[t] = p, entitlement'[p].source = t
      PROVE  event'[entitlement'[p].source].canonical
  BY <1>1, <1>3 DEF EventFate
<1>4. CASE /\ entitlement[p].source \notin Reverted(first)
           /\ entitlement'[p] = entitlement[p]
  <2>1. PICK s \in Purchases :
          /\ entitlement[p].source = s /\ PairOf[s] = p
          /\ event[s].canonical /\ ~(event[s].block >= first)
    BY <1>4 DEF EntitlementsBacked, Reverted
  <2>2. event'[s].canonical
    BY <1>1, <2>1 DEF EventFate
  <2> QED BY <1>4, <2>1, <2>2
<1> QED BY <1>2, <1>3, <1>4 DEF EntitlementFate
-----------------------------------------------------------------------------
(* Any number of indexers, reorganisations of any depth.                   *)

\* The rows and the chain stay typed, whatever happens next.
LEMMA TypeStep ==
  ASSUME TypeOK, [Next]_vars
  PROVE  TypeOK'
<1>1. ASSUME NEW i \in Indexers, ReadHead(i) PROVE TypeOK'
  <2>1. SafeHead \in Nat
    BY <1>1, PurchaseChainAssumption, IndexerAssumption
      DEF PurchaseChainAssumption, IndexerAssumption, ReadHead, HasSafeHead, SafeHead, TypeOK,
          ChainTypeOK
  <2> QED BY <1>1, <2>1 DEF ReadHead, Goto, TypeOK, ChainTypeOK, chain, tables, Step
<1>2. ASSUME NEW i \in Indexers, LoadCheckpoint(i) PROVE TypeOK'
  <2>1. RewindFrom(safe[i]) \in Nat
    BY PurchaseChainAssumption, IndexerAssumption
      DEF PurchaseChainAssumption, IndexerAssumption, RewindFrom, Resume, TypeOK
  <2> QED BY <1>2, <2>1 DEF LoadCheckpoint, Goto, TypeOK, ChainTypeOK, chain, tables, Step
<1>3. ASSUME NEW i \in Indexers, ReadLogs(i) PROVE TypeOK'
  <2>1. LogsOf(i) \in [Purchases -> Nat]
    BY DEF LogsOf, TypeOK, ChainTypeOK
  <2> QED BY <1>3, <2>1 DEF ReadLogs, Goto, TypeOK, ChainTypeOK, chain, tables, Step
<1>4. ASSUME NEW i \in Indexers, ReadHash(i) PROVE TypeOK'
  <2>1. NoLogs \in [Purchases -> Nat]
    BY DEF NoLogs
  <2>2. /\ pc' \in [Indexers -> Step] /\ safe' \in [Indexers -> Nat]
        /\ from' \in [Indexers -> Nat] /\ logs' \in [Indexers -> [Purchases -> Nat]]
    <3>1. CASE safe[i] <= head
      BY <1>4, <3>1 DEF ReadHash, Goto, TypeOK, Step
    <3>2. CASE ~(safe[i] <= head)
      <4>1. EndSync(i)
        BY <1>4, <3>2 DEF ReadHash
      <4> QED BY <2>1, <4>1 DEF EndSync, Goto, TypeOK, Step
    <3> QED BY <3>1, <3>2
  <2> QED BY <1>4, <2>2 DEF ReadHash, TypeOK, ChainTypeOK, chain, tables
<1>5. ASSUME NEW i \in Indexers, ApplyPurchaseRange(i) PROVE TypeOK'
  <2>1. NoLogs \in [Purchases -> Nat]
    BY DEF NoLogs
  <2>2. /\ logs[i] \in [Purchases -> Nat] /\ from[i] \in Nat /\ safe[i] + 1 \in Nat
        /\ ApplyRange(from[i], logs[i], safe[i] + 1)
    BY <1>5 DEF TypeOK, ApplyPurchaseRange
  <2>3. event' \in [Purchases -> EventRow] /\ entitlement' \in [Pairs -> EntitlementRow]
    BY <2>2, EventEffect, EntitlementEffect
  <2>4. nextBlock' \in Nat
    BY <2>2 DEF ApplyRange
  <2> QED
    BY <1>5, <2>1, <2>3, <2>4
      DEF ApplyPurchaseRange, EndSync, Goto, TypeOK, ChainTypeOK, chain, Step
<1>6. ASSUME NEW i \in Indexers, Fail(i) PROVE TypeOK'
  <2>1. NoLogs \in [Purchases -> Nat]
    BY DEF NoLogs
  <2>2. faults' \in 0..MaxFaults
    BY <1>6, IndexerAssumption DEF IndexerAssumption, Fail, TypeOK
  <2> QED BY <1>6, <2>1, <2>2 DEF Fail, EndSync, Goto, TypeOK, ChainTypeOK, chain, tables, Step
<1>7. ASSUME Grow PROVE TypeOK'
  BY <1>7, MineBlockEffect DEF Grow, TypeOK, tables, local
<1>8. ASSUME Fork PROVE TypeOK'
  BY <1>8, ReorganiseEffect DEF Fork, TypeOK, tables, local
<1>9. CASE UNCHANGED vars
  BY <1>9 DEF vars, chain, tables, local, TypeOK, ChainTypeOK
<1> QED
  BY <1>1, <1>2, <1>3, <1>4, <1>5, <1>6, <1>7, <1>8, <1>9 DEF Next, Sync

\* Only ApplyPurchaseRange writes the tables.
LEMMA OnlyApplyWrites ==
  ASSUME [Next]_vars
  PROVE  UNCHANGED tables \/ \E i \in Indexers : ApplyPurchaseRange(i)
BY DEF Next, Sync, ReadHead, LoadCheckpoint, ReadLogs, ReadHash, Fail, Grow, Fork, vars

\* Entitlements stay backed by canonical purchases, whatever happens next.
LEMMA BackedStep ==
  ASSUME TypeOK, EntitlementsBacked, [Next]_vars
  PROVE  EntitlementsBacked'
<1>1. ASSUME NEW i \in Indexers, ApplyPurchaseRange(i) PROVE EntitlementsBacked'
  <2>1. /\ logs[i] \in [Purchases -> Nat] /\ from[i] \in Nat
        /\ ApplyRange(from[i], logs[i], safe[i] + 1)
    BY <1>1 DEF TypeOK, ApplyPurchaseRange
  <2> QED BY <2>1, ApplyRangeBacked
<1>2. CASE UNCHANGED tables
  BY <1>2 DEF tables, EntitlementsBacked
<1> QED BY <1>1, <1>2, OnlyApplyWrites

\* The initial state.
LEMMA InitTypes ==
  ASSUME Init
  PROVE  TypeOK /\ EntitlementsBacked
BY PurchaseChainAssumption, IndexerAssumption
  DEF PurchaseChainAssumption, IndexerAssumption, Init, ChainInit, TypeOK, ChainTypeOK,
      EntitlementsBacked, EventRow, EntitlementRow, NoLogs, Step

\* Type correctness of chain, tables and indexers.
THEOREM TypeCorrect == Spec => []TypeOK
<1>1. Init => TypeOK
  BY InitTypes
<1>2. TypeOK /\ [Next]_vars => TypeOK'
  BY TypeStep
<1> QED
  BY <1>1, <1>2, PTL DEF Spec

\* Every entitlement rests on a purchase that the tables hold for canonical,
\* with any number of workers and reorganisations of any depth.
THEOREM AccessIsBacked == Spec => []EntitlementsBacked
<1>1. Init => TypeOK /\ EntitlementsBacked
  BY InitTypes
<1>2. TypeOK /\ EntitlementsBacked /\ [Next]_vars => TypeOK' /\ EntitlementsBacked'
  BY TypeStep, BackedStep
<1> QED
  BY <1>1, <1>2, PTL DEF Spec
-----------------------------------------------------------------------------
(* One indexer and short reorganisations.                                  *)

\* The parts of IndexerInv that are not about a sync in progress.
TablesInv ==
  /\ TypeOK
  /\ EntitlementsBacked
  /\ ChainSound
  /\ TablesSound
  /\ OverlapSettled
  /\ PurchasesEntitled

\* Steps that write neither chain nor tables keep them.
LEMMA TablesInvKept ==
  ASSUME TablesInv, TypeOK', EntitlementsBacked', UNCHANGED <<chain, tables>>
  PROVE  TablesInv'
BY DEF TablesInv, ChainSound, TablesSound, OverlapSettled, PurchasesEntitled, Mined, chain, tables

\* A block that the checkpoint has left behind by the overlap, or the safe head
\* of a running sync by as much, lies so deep that no step of the chain reaches it.
LEMMA DeepIsOld ==
  ASSUME IndexerInv, ShortReorgs, NEW b \in Nat
  PROVE  /\ b + ReorgDepth < nextBlock => b <= top - Finality
         /\ \A i \in Indexers : pc[i] # "idle" /\ Deep(i, b) => b <= top - Finality
<1>1. b + ReorgDepth < nextBlock => b <= top - Finality
  BY PurchaseChainAssumption, IndexerAssumption
    DEF PurchaseChainAssumption, IndexerAssumption, IndexerInv, TablesSound, ShortReorgs, TypeOK,
        ChainTypeOK
<1>2. ASSUME NEW i \in Indexers, pc[i] # "idle", b + ReorgDepth <= safe[i]
      PROVE  b <= top - Finality
  <2>1. safe[i] + Confirmations <= top + 1 /\ safe[i] \in Nat /\ top \in Nat
    BY <1>2 DEF IndexerInv, RangeSound, TypeOK, ChainTypeOK
  <2> QED
    BY <1>2, <2>1, PurchaseChainAssumption, IndexerAssumption
      DEF PurchaseChainAssumption, IndexerAssumption, ShortReorgs
<1> QED BY <1>1, <1>2 DEF Deep

\* A step of the chain that leaves old blocks as they are keeps IndexerInv.
LEMMA ChainStep ==
  ASSUME IndexerInv, ShortReorgs, TypeOK', EntitlementsBacked', ChainSound',
         UNCHANGED <<tables, local>>, top <= top',
         \A t \in Purchases, b \in Nat :
           b # 0 /\ b <= top - Finality => (minedAt'[t] = b <=> minedAt[t] = b)
  PROVE  IndexerInv'
<1>1. TablesSound'
  <2>1. top \in Nat /\ top' \in Nat /\ nextBlock \in Nat /\ top <= top'
    BY DEF IndexerInv, TypeOK, ChainTypeOK
  <2>2. event' = event /\ nextBlock' = nextBlock
    BY DEF tables
  <2>3. ASSUME nextBlock # 0 PROVE nextBlock + Confirmations <= top' + 2
    <3>1. nextBlock + Confirmations <= top + 2
      BY <2>3 DEF IndexerInv, TablesSound
    <3>2. nextBlock + Confirmations \in Nat
      BY <2>1, IndexerAssumption DEF IndexerAssumption
    <3> QED BY <2>1, <3>1, <3>2
  <2>4. \A t \in Purchases :
          event[t].canonical => event[t].block \in 1..top'
    BY <2>1 DEF IndexerInv, TablesSound
  <2> QED BY <2>2, <2>3, <2>4 DEF IndexerInv, TablesSound
<1>2. OverlapSettled'
  <2> SUFFICES ASSUME NEW t \in Purchases, NEW b \in 1..top', b + ReorgDepth < nextBlock
               PROVE  (event[t].canonical /\ event[t].block = b) <=> minedAt'[t] = b
    BY DEF OverlapSettled, tables
  <2>1. b \in Nat /\ b # 0 /\ b <= top - Finality
    BY DeepIsOld DEF TypeOK, ChainTypeOK
  <2>2. b \in 1..top
    BY <2>1, PurchaseChainAssumption DEF PurchaseChainAssumption, IndexerInv, TypeOK, ChainTypeOK
  <2> QED BY <2>1, <2>2 DEF IndexerInv, OverlapSettled
<1>3. PurchasesEntitled'
  BY DEF IndexerInv, PurchasesEntitled, tables
<1>4. ASSUME NEW i \in Indexers PROVE RangeSound(i)'
  <2>1. top \in Nat /\ top' \in Nat /\ safe[i] \in Nat /\ top <= top'
    BY DEF IndexerInv, TypeOK, ChainTypeOK
  <2>2. RangeSound(i)
    BY DEF IndexerInv
  <2> QED
    BY <2>1, <2>2, IndexerAssumption DEF IndexerAssumption, RangeSound, tables, local
<1>5. ASSUME NEW i \in Indexers PROVE LogsSound(i)'
  <2> SUFFICES ASSUME pc[i] \in {"hash", "apply"}, NEW t \in Purchases,
                      NEW b \in from[i]..safe[i], b # 0, Deep(i, b)
               PROVE  logs[i][t] = b <=> minedAt'[t] = b
    BY DEF IndexerInv, LogsSound, Deep, tables, local
  <2>1. b \in Nat
    BY DEF IndexerInv, TypeOK
  <2>2. b <= top - Finality
    BY <2>1, DeepIsOld
  <2>3. logs[i][t] = b <=> minedAt[t] = b
    BY DEF IndexerInv, LogsSound
  <2> QED BY <2>1, <2>2, <2>3
<1> QED BY <1>1, <1>2, <1>3, <1>4, <1>5 DEF IndexerInv

\* A new block.
LEMMA GrowStep ==
  ASSUME IndexerInv, ShortReorgs, Grow
  PROVE  IndexerInv'
<1>1. PICK S \in SUBSET Purchases : MineBlock(S)
  BY DEF Grow
<1>2. TypeOK' /\ EntitlementsBacked'
  BY TypeStep, BackedStep DEF Next, IndexerInv
<1>3. /\ top <= top'
      /\ \A t \in Purchases :
           \/ t \notin S /\ minedAt'[t] = minedAt[t]
           \/ t \in S /\ minedAt[t] = 0 /\ minedAt'[t] = head + 1
  BY <1>1, MineBlockEffect DEF IndexerInv, TypeOK
<1>4. ChainSound'
  <2>1. \A t \in Purchases : minedAt'[t] # 0 => minedAt'[t] >= StartBlock
    BY <1>1, <1>3 DEF MineBlock, IndexerInv, ChainSound, Mined
  <2>2. ASSUME NEW t \in Purchases, NEW u \in Purchases,
               minedAt'[t] # 0, minedAt'[u] # 0, PairOf[t] = PairOf[u]
        PROVE  t = u
    BY <1>1, <1>3, <2>2 DEF MineBlock, BuysOnce, IndexerInv, ChainSound, Mined
  <2> QED BY <2>1, <2>2 DEF ChainSound, Mined
<1>5. \A t \in Purchases, b \in Nat :
        b # 0 /\ b <= top - Finality => (minedAt'[t] = b <=> minedAt[t] = b)
  BY <1>3, PurchaseChainAssumption DEF PurchaseChainAssumption, IndexerInv, TypeOK, ChainTypeOK
<1> QED BY <1>2, <1>3, <1>4, <1>5, ChainStep DEF Grow

\* A reorganisation.
LEMMA ForkStep ==
  ASSUME IndexerInv, ShortReorgs, Fork
  PROVE  IndexerInv'
<1>1. PICK f \in 0..head : Reorganise(f)
  BY DEF Fork
<1>2. TypeOK' /\ EntitlementsBacked'
  BY TypeStep, BackedStep DEF Next, IndexerInv
<1>3. /\ top' = top
      /\ \A t \in Purchases :
           \/ minedAt'[t] = minedAt[t]
           \/ minedAt'[t] = 0 /\ minedAt[t] > top - Finality
  BY <1>1, ReorganiseEffect DEF IndexerInv, TypeOK
<1>4. ChainSound'
  <2>1. \A t \in Purchases : minedAt'[t] # 0 => minedAt'[t] = minedAt[t]
    BY <1>3
  <2> QED BY <2>1 DEF IndexerInv, ChainSound, Mined
<1>5. \A t \in Purchases, b \in Nat :
        b # 0 /\ b <= top - Finality => (minedAt'[t] = b <=> minedAt[t] = b)
  BY <1>3, PurchaseChainAssumption DEF PurchaseChainAssumption, IndexerInv, TypeOK, ChainTypeOK
<1>6. top <= top'
  BY <1>3 DEF IndexerInv, TypeOK, ChainTypeOK
<1> QED BY <1>2, <1>4, <1>5, <1>6, ChainStep DEF Fork
\* The head and the checkpoint are read, and the range begins at the start or
\* the whole overlap below the checkpoint.
LEMMA RangeStep ==
  ASSUME IndexerInv, NEW i \in Indexers, Indexers = {i},
         ReadHead(i) \/ LoadCheckpoint(i)
  PROVE  IndexerInv'
<1>1. TypeOK' /\ EntitlementsBacked' /\ UNCHANGED <<chain, tables>>
  BY TypeStep, BackedStep DEF Next, Sync, IndexerInv, ReadHead, LoadCheckpoint
<1>2. TablesInv'
  BY <1>1, TablesInvKept DEF IndexerInv, TablesInv
<1>3. CASE ReadHead(i)
  <2>1. pc'[i] = "checkpoint" /\ safe'[i] = SafeHead /\ top' = top
    BY <1>1, <1>3 DEF ReadHead, Goto, IndexerInv, TypeOK, chain
  <2>2. StartBlock <= SafeHead /\ SafeHead + Confirmations <= top + 1
    BY <1>3, PurchaseChainAssumption, IndexerAssumption
      DEF PurchaseChainAssumption, IndexerAssumption, ReadHead, HasSafeHead, SafeHead,
          IndexerInv, TypeOK, ChainTypeOK
  <2>3. RangeSound(i)' /\ LogsSound(i)'
    BY <2>1, <2>2 DEF RangeSound, LogsSound
  <2> QED BY <1>2, <2>3 DEF IndexerInv, TablesInv
<1>4. CASE LoadCheckpoint(i)
  <2>1. /\ pc'[i] = "logs" /\ safe' = safe /\ from'[i] = RewindFrom(safe[i])
        /\ pc[i] = "checkpoint" /\ UNCHANGED <<top, nextBlock>>
    BY <1>1, <1>4 DEF LoadCheckpoint, Goto, IndexerInv, TypeOK, chain, tables
  <2>2. StartBlock <= safe[i] /\ safe[i] + Confirmations <= top + 1 /\ safe[i] \in Nat
    BY <2>1 DEF IndexerInv, RangeSound, TypeOK
  <2>3. /\ RewindFrom(safe[i]) \in StartBlock..safe[i]
        /\ RewindFrom(safe[i]) = StartBlock \/ RewindFrom(safe[i]) + ReorgDepth <= nextBlock
    <3>1. nextBlock \in Nat /\ StartBlock \in Nat /\ ReorgDepth \in Nat /\ ReorgDepth >= 1
      BY PurchaseChainAssumption, IndexerAssumption
        DEF PurchaseChainAssumption, IndexerAssumption, IndexerInv, TypeOK
    <3>2. /\ Resume(safe[i]) \in Nat /\ Resume(safe[i]) <= safe[i] + 1
          /\ Resume(safe[i]) <= StartBlock \/ Resume(safe[i]) <= nextBlock
      BY <2>2, <3>1 DEF Resume
    <3> QED BY <2>2, <3>1, <3>2 DEF RewindFrom
  <2>4. RangeSound(i)' /\ LogsSound(i)'
    BY <2>1, <2>2, <2>3 DEF RangeSound, LogsSound
  <2> QED BY <1>2, <2>4 DEF IndexerInv, TablesInv
<1> QED BY <1>3, <1>4

\* The logs: a purchase found in the range has no other of its pair on the
\* chain, and none in the tables below the range, where they are the chain.
LEMMA LogsStep ==
  ASSUME IndexerInv, NEW i \in Indexers, Indexers = {i}, ReadLogs(i)
  PROVE  IndexerInv'
<1>1. TypeOK' /\ EntitlementsBacked' /\ UNCHANGED <<chain, tables>>
  BY TypeStep, BackedStep DEF Next, Sync, IndexerInv, ReadLogs
<1>2. TablesInv'
  BY <1>1, TablesInvKept DEF IndexerInv, TablesInv
<1>3. /\ pc[i] = "logs" /\ pc'[i] = "hash" /\ UNCHANGED <<safe, from, top, nextBlock, event, minedAt>>
      /\ logs'[i] = LogsOf(i)
  BY <1>1 DEF ReadLogs, Goto, IndexerInv, TypeOK, chain, tables
<1>4. RangeSound(i)'
  BY <1>3 DEF IndexerInv, RangeSound
<1>5. /\ from[i] \in StartBlock..safe[i] /\ from[i] \in Nat /\ safe[i] \in Nat
      /\ from[i] = StartBlock \/ from[i] + ReorgDepth <= nextBlock
  BY <1>3 DEF IndexerInv, RangeSound, TypeOK
<1>6. ASSUME NEW t \in Purchases
      PROVE  logs'[i][t] = IF minedAt[t] # 0 /\ minedAt[t] \in from[i]..safe[i]
                           THEN minedAt[t] ELSE 0
  BY <1>3 DEF LogsOf, Mined
<1>7. ASSUME NEW t \in Purchases, NEW u \in Purchases,
             logs'[i][t] # 0, PairOf[u] = PairOf[t]
      PROVE  /\ u = t \/ logs'[i][u] = 0
             /\ event[u].canonical => event[u].block >= from[i]
  <2>1. minedAt[t] # 0 /\ minedAt[t] >= from[i]
    BY <1>5, <1>6, <1>7 DEF IndexerInv, TypeOK, ChainTypeOK
  <2>2. u = t \/ minedAt[u] = 0
    BY <1>7, <2>1 DEF IndexerInv, ChainSound, Mined
  <2>3. ASSUME event[u].canonical, event[u].block < from[i] PROVE FALSE
    <3>1. event[u].block \in 1..top /\ event[u].block >= StartBlock
      BY <2>3 DEF IndexerInv, TablesSound
    <3>2. event[u].block + ReorgDepth < nextBlock
      BY <1>5, <2>3, <3>1, PurchaseChainAssumption, IndexerAssumption
        DEF PurchaseChainAssumption, IndexerAssumption, IndexerInv, TypeOK, ChainTypeOK
    <3>3. minedAt[u] = event[u].block
      BY <2>3, <3>1, <3>2 DEF IndexerInv, OverlapSettled
    <3> QED BY <1>5, <2>1, <2>2, <2>3, <3>1, <3>3 DEF IndexerInv, TypeOK, ChainTypeOK
  <2>4. event[u].block \in Nat
    BY DEF IndexerInv, TypeOK, EventRow
  <2> QED BY <1>5, <1>6, <2>2, <2>3, <2>4
<1>8. LogsSound(i)'
  <2>1. ASSUME NEW t \in Purchases
        PROVE  /\ logs'[i][t] # 0 => logs'[i][t] \in from[i]..safe[i]
               /\ \A b \in from[i]..safe[i] : b # 0 => (logs'[i][t] = b <=> minedAt[t] = b)
    BY <1>6
  <2> QED BY <1>3, <1>7, <2>1 DEF LogsSound
<1> QED BY <1>2, <1>4, <1>8 DEF IndexerInv, TablesInv

\* The hash is read or missing, or the sync is given up.
LEMMA HashStep ==
  ASSUME IndexerInv, NEW i \in Indexers, Indexers = {i}, ReadHash(i) \/ Fail(i)
  PROVE  IndexerInv'
<1>1. TypeOK' /\ EntitlementsBacked' /\ UNCHANGED <<chain, tables>>
  BY TypeStep, BackedStep DEF Next, Sync, IndexerInv, ReadHash, Fail
<1>2. TablesInv'
  BY <1>1, TablesInvKept DEF IndexerInv, TablesInv
<1>3. CASE EndSync(i)
  <2>1. pc'[i] = "idle"
    BY <1>3 DEF EndSync, Goto, IndexerInv, TypeOK
  <2> QED BY <1>2, <2>1 DEF IndexerInv, TablesInv, RangeSound, LogsSound
<1>4. CASE pc[i] = "hash" /\ Goto(i, "apply") /\ UNCHANGED <<safe, from, logs>>
  <2>1. pc'[i] = "apply"
    BY <1>4 DEF Goto, IndexerInv, TypeOK
  <2>2. RangeSound(i)' /\ LogsSound(i)'
    BY <1>1, <1>4, <2>1 DEF IndexerInv, RangeSound, LogsSound, Deep, chain, tables
  <2> QED BY <1>2, <2>2 DEF IndexerInv, TablesInv
<1> QED BY <1>3, <1>4 DEF ReadHash, Fail
\* What the single indexer knows when it applies its range.
ApplyKnown(i, first, last, found) ==
  /\ found \in [Purchases -> Nat] /\ first \in Nat /\ last \in Nat
  /\ StartBlock <= first /\ first <= last /\ last + Confirmations <= top + 1
  /\ first = StartBlock \/ first + ReorgDepth <= nextBlock
  /\ \A t \in Purchases :
       /\ found[t] # 0 => found[t] >= first /\ found[t] <= last
       /\ \A b \in first..last :
            b # 0 /\ (b + ReorgDepth <= last \/ b + ReorgDepth < nextBlock)
              => (found[t] = b <=> minedAt[t] = b)
       /\ \A u \in Purchases :
            found[t] # 0 /\ PairOf[u] = PairOf[t] =>
              /\ u = t \/ found[u] = 0
              /\ event[u].canonical => event[u].block >= first
  /\ \A t \in Purchases : EventFate(first, found, t)
  /\ \A p \in Pairs : EntitlementFate(first, found, p)
  /\ nextBlock' = last + 1
  /\ UNCHANGED chain

\* It knows all that.
LEMMA ApplyContext ==
  ASSUME IndexerInv, NEW i \in Indexers, ApplyPurchaseRange(i)
  PROVE  ApplyKnown(i, from[i], safe[i], logs[i])
<1>1. /\ logs[i] \in [Purchases -> Nat] /\ from[i] \in Nat /\ safe[i] \in Nat
      /\ ApplyRange(from[i], logs[i], safe[i] + 1)
      /\ pc[i] = "apply" /\ UNCHANGED chain
  BY DEF IndexerInv, TypeOK, ApplyPurchaseRange
<1>2. /\ \A t \in Purchases : EventFate(from[i], logs[i], t)
      /\ \A p \in Pairs : EntitlementFate(from[i], logs[i], p)
  BY <1>1, EventEffect, EntitlementEffect DEF IndexerInv
<1>3. nextBlock' = safe[i] + 1
  BY <1>1 DEF ApplyRange
<1>4. /\ StartBlock <= from[i] /\ from[i] <= safe[i] /\ safe[i] + Confirmations <= top + 1
      /\ from[i] = StartBlock \/ from[i] + ReorgDepth <= nextBlock
  BY <1>1, PurchaseChainAssumption
    DEF PurchaseChainAssumption, IndexerInv, RangeSound
<1>5. ASSUME NEW t \in Purchases
      PROVE  /\ logs[i][t] # 0 => logs[i][t] >= from[i] /\ logs[i][t] <= safe[i]
             /\ \A b \in from[i]..safe[i] :
                  b # 0 /\ (b + ReorgDepth <= safe[i] \/ b + ReorgDepth < nextBlock)
                    => (logs[i][t] = b <=> minedAt[t] = b)
             /\ \A u \in Purchases :
                  logs[i][t] # 0 /\ PairOf[u] = PairOf[t] =>
                    /\ u = t \/ logs[i][u] = 0
                    /\ event[u].canonical => event[u].block >= from[i]
  <2>1. LogsSound(i)
    BY DEF IndexerInv
  <2> QED BY <1>1, <2>1 DEF LogsSound, Deep
<1> QED BY <1>1, <1>2, <1>3, <1>4, <1>5 DEF ApplyKnown

\* A canonical row afterwards was found in the range, or was canonical before,
\* below the range.
LEMMA CanonicalAfter ==
  ASSUME TypeOK, NEW i, NEW first, NEW last, NEW found, ApplyKnown(i, first, last, found),
         NEW t \in Purchases, event'[t].canonical
  PROVE  \/ found[t] # 0 /\ event'[t].block = found[t]
         \/ /\ found[t] = 0 /\ event[t].canonical
            /\ event[t].block < first /\ event'[t].block = event[t].block
BY DEF ApplyKnown, EventFate, TypeOK, EventRow

\* The rows stay within the blocks read so far, one canonical row per pair.
LEMMA ApplyTables ==
  ASSUME IndexerInv, NEW i, NEW first, NEW last, NEW found, ApplyKnown(i, first, last, found)
  PROVE  TablesSound'
<1>1. /\ first \in Nat /\ last \in Nat /\ top \in Nat /\ top' = top /\ nextBlock' = last + 1
      /\ StartBlock <= first /\ first <= last /\ last <= top /\ found \in [Purchases -> Nat]
      /\ StartBlock \in Nat
  BY PurchaseChainAssumption, IndexerAssumption
    DEF PurchaseChainAssumption, IndexerAssumption, ApplyKnown, IndexerInv, TypeOK, ChainTypeOK,
        chain
<1>2. nextBlock' + Confirmations <= top' + 2
  BY <1>1, IndexerAssumption DEF IndexerAssumption, ApplyKnown
<1>3. ASSUME NEW t \in Purchases, event'[t].canonical
      PROVE  /\ event'[t].block \in 1..top' /\ event'[t].block >= StartBlock
             /\ event'[t].block < nextBlock'
  <2>1. CASE found[t] # 0 /\ event'[t].block = found[t]
    <3>1. found[t] \in Nat /\ found[t] >= first /\ found[t] <= last
      BY <2>1 DEF ApplyKnown
    <3> QED BY <1>1, <2>1, <3>1
  <2>2. CASE event[t].canonical /\ event[t].block < first /\ event'[t].block = event[t].block
    <3>1. event[t].block \in 1..top /\ event[t].block >= StartBlock
      BY <2>2 DEF IndexerInv, TablesSound
    <3> QED BY <1>1, <2>2, <3>1
  <2> QED BY <1>3, <2>1, <2>2, CanonicalAfter DEF IndexerInv
<1>4. ASSUME NEW t \in Purchases, NEW u \in Purchases,
             event'[t].canonical, event'[u].canonical, PairOf[t] = PairOf[u]
      PROVE  t = u
  <2>1. ASSUME NEW v \in Purchases, NEW w \in Purchases, v # w, PairOf[v] = PairOf[w],
               event'[w].canonical, found[v] # 0
        PROVE  FALSE
    <3>1. found[w] = 0 /\ (event[w].canonical => event[w].block >= first)
      BY <2>1 DEF ApplyKnown
    <3>2. event[w].canonical /\ event[w].block < first
      BY <2>1, <3>1, CanonicalAfter DEF IndexerInv
    <3>3. event[w].block \in Nat
      BY DEF IndexerInv, TypeOK, EventRow
    <3> QED BY <1>1, <3>1, <3>2, <3>3
  <2>2. CASE found[t] = 0 /\ found[u] = 0
    <3>1. event[t].canonical /\ event[u].canonical
      BY <1>4, <2>2, CanonicalAfter DEF IndexerInv
    <3> QED BY <1>4, <3>1 DEF IndexerInv, TablesSound
  <2> QED BY <1>4, <2>1, <2>2
<1> QED BY <1>2, <1>3, <1>4 DEF TablesSound

\* What the overlap leaves behind is the chain.
LEMMA ApplySettled ==
  ASSUME IndexerInv, NEW i, NEW first, NEW last, NEW found, ApplyKnown(i, first, last, found)
  PROVE  OverlapSettled'
<1>1. /\ first \in Nat /\ last \in Nat /\ top' = top /\ minedAt' = minedAt
      /\ nextBlock' = last + 1 /\ found \in [Purchases -> Nat] /\ nextBlock \in Nat
      /\ StartBlock \in Nat /\ ReorgDepth \in Nat /\ ReorgDepth >= 1
  BY PurchaseChainAssumption, IndexerAssumption
    DEF PurchaseChainAssumption, IndexerAssumption, ApplyKnown, IndexerInv, TypeOK, chain
<1> SUFFICES ASSUME NEW t \in Purchases, NEW b \in 1..top, b + ReorgDepth < last + 1
             PROVE  (event'[t].canonical /\ event'[t].block = b) <=> minedAt[t] = b
  BY <1>1 DEF OverlapSettled
<1>2. b \in Nat /\ b # 0 /\ b + ReorgDepth <= last /\ b <= last
  BY <1>1 DEF IndexerInv, TypeOK, ChainTypeOK
<1>3. EventFate(first, found, t) /\ event[t] \in EventRow /\ event[t].block \in Nat
  BY DEF ApplyKnown, IndexerInv, TypeOK, EventRow
<1>4. CASE b >= first
  <2>1. b \in first..last
    BY <1>1, <1>2, <1>4
  <2>2. found[t] = b <=> minedAt[t] = b
    BY <1>2, <2>1 DEF ApplyKnown
  <2>3. CASE found[t] # 0
    BY <1>3, <2>2, <2>3 DEF EventFate
  <2>4. CASE found[t] = 0
    <3>1. minedAt[t] # b
      BY <1>2, <2>2, <2>4
    <3>2. event'[t].canonical => event'[t].block < first
      BY <1>3, <2>4 DEF EventFate
    <3> QED BY <1>1, <1>2, <1>4, <3>1, <3>2
  <2> QED BY <2>3, <2>4
<1>5. CASE b < first
  <2>1. (event[t].canonical /\ event[t].block = b) <=> minedAt[t] = b
    <3>1. CASE b < StartBlock
      <4>1. event[t].canonical => event[t].block # b
        BY <1>1, <1>2, <3>1 DEF IndexerInv, TablesSound
      <4>2. minedAt[t] # b
        BY <1>1, <1>2, <3>1 DEF IndexerInv, ChainSound, Mined
      <4> QED BY <4>1, <4>2
    <3>2. CASE b >= StartBlock
      <4>1. first + ReorgDepth <= nextBlock
        BY <1>1, <1>2, <1>5, <3>2 DEF ApplyKnown
      <4>2. b + ReorgDepth < nextBlock
        BY <1>1, <1>2, <1>5, <4>1
      <4> QED BY <4>2 DEF IndexerInv, OverlapSettled
    <3> QED BY <1>1, <1>2, <3>1, <3>2
  <2>2. CASE found[t] # 0
    <3>1. found[t] >= first /\ (event[t].canonical => event[t].block >= first)
      BY <2>2 DEF ApplyKnown
    <3>2. event'[t].block = found[t]
      BY <1>3, <2>2 DEF EventFate
    <3> QED BY <1>1, <1>2, <1>3, <1>5, <2>1, <3>1, <3>2
  <2>3. CASE found[t] = 0
    BY <1>1, <1>2, <1>3, <1>5, <2>1, <2>3 DEF EventFate
  <2> QED BY <2>2, <2>3
<1> QED BY <1>1, <1>2, <1>4, <1>5

\* Nobody whose purchase stays canonical is locked out.
LEMMA ApplyEntitled ==
  ASSUME IndexerInv, NEW i, NEW first, NEW last, NEW found, ApplyKnown(i, first, last, found)
  PROVE  PurchasesEntitled'
<1> SUFFICES ASSUME NEW t \in Purchases, event'[t].canonical
             PROVE  entitlement'[PairOf[t]].active
  BY DEF PurchasesEntitled
<1>1. PairOf[t] \in Pairs /\ first \in Nat
  BY PurchaseChainAssumption DEF PurchaseChainAssumption, ApplyKnown
<1>2. EntitlementFate(first, found, PairOf[t])
  BY <1>1 DEF ApplyKnown
<1>3. CASE found[t] # 0
  BY <1>2, <1>3 DEF EntitlementFate
<1>4. CASE event[t].canonical /\ event[t].block < first
  <2>1. entitlement[PairOf[t]].active
    BY <1>4 DEF IndexerInv, PurchasesEntitled
  <2>2. ASSUME entitlement[PairOf[t]].source \in Reverted(first) PROVE FALSE
    <3>1. PICK s \in Purchases :
            /\ s = entitlement[PairOf[t]].source
            /\ event[s].canonical /\ event[s].block >= first
      BY <2>2 DEF Reverted
    <3>2. PairOf[s] = PairOf[t]
      BY <1>1, <2>1, <3>1 DEF IndexerInv, EntitlementsBacked
    <3>3. s = t
      BY <1>4, <3>1, <3>2 DEF IndexerInv, TablesSound
    <3>4. event[t].block \in Nat
      BY DEF IndexerInv, TypeOK, EventRow
    <3> QED BY <1>1, <1>4, <3>1, <3>3, <3>4
  <2> QED BY <1>2, <2>1, <2>2 DEF EntitlementFate
<1> QED BY <1>3, <1>4, CanonicalAfter DEF IndexerInv
\* The transaction.
LEMMA ApplyStep ==
  ASSUME IndexerInv, NEW i \in Indexers, Indexers = {i}, ApplyPurchaseRange(i)
  PROVE  IndexerInv'
<1>1. TypeOK' /\ EntitlementsBacked'
  BY TypeStep, BackedStep DEF Next, Sync, IndexerInv
<1>2. ApplyKnown(i, from[i], safe[i], logs[i])
  BY ApplyContext
<1>3. TablesSound' /\ OverlapSettled' /\ PurchasesEntitled'
  BY <1>2, ApplyTables, ApplySettled, ApplyEntitled
<1>4. ChainSound'
  BY <1>2 DEF ApplyKnown, IndexerInv, ChainSound, Mined, chain
<1>5. pc'[i] = "idle"
  BY DEF ApplyPurchaseRange, EndSync, Goto, IndexerInv, TypeOK
<1>6. RangeSound(i)' /\ LogsSound(i)'
  BY <1>5 DEF RangeSound, LogsSound
<1> QED BY <1>1, <1>3, <1>4, <1>6 DEF IndexerInv

\* IndexerInv is inductive.
LEMMA IndexerStep ==
  ASSUME IndexerInv, OneIndexer, ShortReorgs, [Next]_vars
  PROVE  IndexerInv'
<1>1. PICK i \in Indexers : Indexers = {i}
  BY DEF OneIndexer
<1>2. CASE ReadHead(i) \/ LoadCheckpoint(i)
  BY <1>1, <1>2, RangeStep
<1>3. CASE ReadLogs(i)
  BY <1>1, <1>3, LogsStep
<1>4. CASE ReadHash(i) \/ Fail(i)
  BY <1>1, <1>4, HashStep
<1>5. CASE ApplyPurchaseRange(i)
  BY <1>1, <1>5, ApplyStep
<1>6. CASE Grow
  BY <1>6, GrowStep
<1>7. CASE Fork
  BY <1>7, ForkStep
<1>8. CASE UNCHANGED vars
  BY <1>8
    DEF vars, chain, tables, local, IndexerInv, TypeOK, ChainTypeOK, EntitlementsBacked, ChainSound,
        TablesSound, OverlapSettled, PurchasesEntitled, RangeSound, LogsSound, Deep, Mined
<1>9. \A k \in Indexers : k = i
  BY <1>1
<1> QED
  BY <1>1, <1>2, <1>3, <1>4, <1>5, <1>6, <1>7, <1>8, <1>9 DEF Next, Sync

\* It holds initially.
LEMMA InitInv ==
  ASSUME Init
  PROVE  IndexerInv
<1>1. TypeOK /\ EntitlementsBacked
  BY InitTypes
<1>2. /\ nextBlock = 0 /\ \A t \in Purchases : ~event[t].canonical /\ minedAt[t] = 0
      /\ \A i \in Indexers : pc[i] = "idle"
  BY DEF Init, ChainInit
<1>3. ChainSound /\ TablesSound /\ PurchasesEntitled
  BY <1>2 DEF ChainSound, TablesSound, PurchasesEntitled, Mined
<1>4. OverlapSettled
  BY <1>1, <1>2, IndexerAssumption DEF IndexerAssumption, OverlapSettled, TypeOK, ChainTypeOK
<1>5. \A i \in Indexers : RangeSound(i) /\ LogsSound(i)
  BY <1>2 DEF RangeSound, LogsSound
<1> QED BY <1>1, <1>3, <1>4, <1>5 DEF IndexerInv

\* The inductive invariant of one indexer, for chains whose reorganisations are
\* shorter than the confirmation depth plus the overlap.
THEOREM IndexerInvariant ==
  ASSUME OneIndexer, ShortReorgs
  PROVE  Spec => []IndexerInv
<1>1. Init => IndexerInv
  BY InitInv
<1>2. IndexerInv /\ [Next]_vars => IndexerInv'
  BY IndexerStep
<1> QED
  BY <1>1, <1>2, PTL DEF Spec

\* What the overlap leaves behind is exactly the chain.
THEOREM OverlapIsEnough ==
  ASSUME OneIndexer, ShortReorgs
  PROVE  Spec => []OverlapSettled
<1>1. IndexerInv => OverlapSettled
  BY DEF IndexerInv
<1> QED
  BY <1>1, IndexerInvariant, PTL

\* No canonical purchase is without its entitlement.
THEOREM BuyersAreEntitled ==
  ASSUME OneIndexer, ShortReorgs
  PROVE  Spec => []PurchasesEntitled
<1>1. IndexerInv => PurchasesEntitled
  BY DEF IndexerInv
<1> QED
  BY <1>1, IndexerInvariant, PTL

\* A purchase below the overlap is revoked only by a sync that moves the
\* checkpoint back to before its block.
THEOREM RevocationRewinds ==
  ASSUME OneIndexer, ShortReorgs
  PROVE  Spec => RevokedOnlyByRewind
<1>1. ASSUME IndexerInv, [Next]_vars, NEW t \in Purchases, Settled(t), ~event'[t].canonical
      PROVE  nextBlock' <= event[t].block
  <2>1. PICK i \in Indexers : ApplyPurchaseRange(i)
    BY <1>1, OnlyApplyWrites DEF Settled, tables
  <2>2. ApplyKnown(i, from[i], safe[i], logs[i])
    BY <1>1, <2>1, ApplyContext
  <2>3. /\ event[t].canonical /\ event[t].block + ReorgDepth < nextBlock
        /\ event[t].block \in 1..top /\ event[t].block \in Nat /\ event[t].block # 0
    BY <1>1 DEF Settled, IndexerInv, TablesSound, TypeOK, EventRow
  <2>4. minedAt[t] = event[t].block
    BY <1>1, <2>3 DEF IndexerInv, OverlapSettled
  <2>5. EventFate(from[i], logs[i], t)
    BY <2>2 DEF ApplyKnown
  <2>6. logs[i][t] = 0 /\ event[t].block >= from[i]
    BY <1>1, <2>3, <2>5 DEF EventFate
  <2>7. event[t].block \notin from[i]..safe[i]
    BY <2>2, <2>3, <2>4, <2>6 DEF ApplyKnown
  <2> QED BY <2>2, <2>3, <2>6, <2>7 DEF ApplyKnown
<1>2. IndexerInv /\ [Next]_vars =>
        [\A t \in Purchases : Settled(t) => event'[t].canonical \/ nextBlock' <= event[t].block]_vars
  BY <1>1
<1> QED
  BY <1>2, IndexerInvariant, PTL DEF Spec, RevokedOnlyByRewind
=============================================================================
