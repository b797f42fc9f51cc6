SPECIFICATION LoopSpec
CONSTANTS
  p1 = p1
  p2 = p2
  t1 = t1
  t2 = t2
  t3 = t3
  i1 = i1
  i2 = i2
  j1 = j1
  Runners = {w1, w2}
  Txs = {m1, m2, m3}
  None = None
  Purchases = {t1, t2, t3}
  Pairs = {p1, p2}
  PairOf <- MCPairOf
  StartBlock = 1
  Finality = 3
  MaxHeight = 5
  MaxReorgs = 1
  Indexers = {i1}
  Confirmations = 2
  ReorgDepth = 2
  MaxFaults = 1
INVARIANTS
  EntitlementsBacked
  OverlapSettled
  PurchasesEntitled
PROPERTIES
  RevokedOnlyByRewind
  Converges
  SettledUnlessStranded
