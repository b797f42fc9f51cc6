--------------------------- MODULE PurchaseChain ---------------------------
(***************************************************************************)
(* The chain as the purchase indexer reads it: which block, if any, holds  *)
(* each purchase transaction of CourseMarket.                              *)
(*                                                                         *)
(* Blocks are known by number only.  The head may be reorganised away, and *)
(* may then be lower for a while: the indexer asks one node at a time, and *)
(* nodes lag.  Blocks at least Finality below the highest one ever seen    *)
(* stay.                                                                   *)
(***************************************************************************)
EXTENDS Integers, FiniteSets

CONSTANTS
  Purchases,                  \* CoursePurchased logs, by (txHash, logIndex)
  Pairs,                      \* (buyer wallet, course)
  PairOf,                     \* the pair each purchase is of
  StartBlock,                 \* INDEXER_START_BLOCK, not after the deployment
  Finality,                   \* how far below the top a block can change
  MaxHeight,                  \* bound: the chain stops here
  MaxReorgs                   \* bound: reorganisations in a behaviour

ASSUME PurchaseChainAssumption ==
  /\ PairOf \in [Purchases -> Pairs]
  /\ StartBlock \in Nat
  /\ Finality \in Nat \ {0}
  /\ MaxHeight \in Nat
  /\ MaxReorgs \in Nat

VARIABLES
  head,                       \* number of the latest block
  top,                        \* the highest it has been
  minedAt,                    \* block of each purchase, 0 if in none
  reorgs                      \* reorganisations so far

chain == <<head, top, minedAt, reorgs>>

Mined(t) == minedAt[t] # 0

ChainTypeOK ==
  /\ head \in Nat
  /\ top \in Nat
  /\ minedAt \in [Purchases -> Nat]
  /\ reorgs \in 0..MaxReorgs
  /\ head <= top
  /\ top - Finality <= head
  /\ \A t \in Purchases : minedAt[t] <= head

ChainInit ==
  /\ head = 0
  /\ top = 0
  /\ minedAt = [t \in Purchases |-> 0]
  /\ reorgs = 0

\* buyCourse reverts for a pair that was bought before, and a reverted
\* transaction logs nothing.  Its other guards are left to the choice of S.
BuysOnce(S) ==
  /\ \A t \in S : ~Mined(t)
  /\ \A t \in S, u \in Purchases :
       PairOf[t] = PairOf[u] /\ t # u => ~Mined(u) /\ u \notin S

MineBlock(S) ==
  /\ head < MaxHeight
  /\ BuysOnce(S)
  /\ S # {} => head + 1 >= StartBlock
  /\ head' = head + 1
  /\ top' = IF head + 1 > top THEN head + 1 ELSE top
  /\ minedAt' = [t \in Purchases |-> IF t \in S THEN head + 1 ELSE minedAt[t]]
  /\ UNCHANGED reorgs

\* Blocks above fork go; their transactions are pending again.
Reorganise(fork) ==
  /\ reorgs < MaxReorgs
  /\ fork \in Nat
  /\ fork < head
  /\ top - Finality <= fork
  /\ head' = fork
  /\ minedAt' = [t \in Purchases |-> IF minedAt[t] > fork THEN 0 ELSE minedAt[t]]
  /\ reorgs' = reorgs + 1
  /\ UNCHANGED top
=============================================================================
