SPECIFICATION FairSpec
CONSTANTS
  p1 = p1
  p2 = p2
  t1 = t1
  t2 = t2
  t3 = t3
  i1 = i1
  i2 = i2
  None = None
  Purchases = {t1, t2, t3}
  Pairs = {p1, p2}
  PairOf <- MCPairOf
  StartBlock = 1
  Finality = 1
  MaxHeight = 4
  MaxReorgs = 0
  Indexers = {i1, i2}
  Confirmations = 1
  ReorgDepth = 1
  MaxFaults = 0
PROPERTIES
  Converges
