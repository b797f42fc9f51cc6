------------------------- MODULE MCPurchaseIndexer -------------------------
(***************************************************************************)
(* Model values for PurchaseIndexer: two purchases of one pair, which only *)
(* a reorganisation lets both be mined, and one of another.                *)
(***************************************************************************)
EXTENDS PurchaseIndexer, TLC

CONSTANTS p1, p2, t1, t2, t3, i1, i2

MCPairOf == (t1 :> p1) @@ (t2 :> p1) @@ (t3 :> p2)

ASSUME MCShortReorgs == ShortReorgs
=============================================================================
