SPECIFICATION FairSpec
CONSTANTS
  Null = Null
  Jobs = {j1}
  Workers = {w1}
  Txs = {t1, t2, t3}
  Bought = {j1}
  Lease = 2
  BroadcastLimit = 10
  MaxMintAttempts = 2
  MaxWorkerClock = 12
  MaxFaults = 1
  FaultKinds = {"drop"}
PROPERTIES
  EverySettled
