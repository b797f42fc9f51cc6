SPECIFICATION EarnedSpec
CONSTANTS
  alice = alice
  w1 = w1
  w2 = w2
  Students = {alice}
  Wallets = {w1}
  owner <- MCOwner
  Videos = {v1}
  Documents = {d1}
  Duration = 2
  None = None
  Requests = {p1, p2}
  MinInterval = 1
  MaxInterval = 1
  RatePercent = 200
  Tolerance = 0
  SessionTtl = 2
  MaxSessions = 2
  MaxClock = 2
  MaxSequence = 2
  MaxAttempts = 2
  MaxChanges = 1
  Jobs = {j1, j2}
  Workers = {p1, p2}
  Txs = {1, 2, 3}
  Null = Null
  Bought = {j1}
  Lease = 2
  BroadcastLimit = 10
  MaxMintAttempts = 2
  MaxWorkerClock = 3
  MaxFaults = 2
  FaultKinds = {"db", "rpc", "crash", "reorg", "drop", "slow"}
CONSTRAINT EarnedBound
SYMMETRY EarnedSymmetry
CHECK_DEADLOCK FALSE
INVARIANTS
  TypeOK
  OneActiveSession
  SegmentsAreWatched
  VideosAreEarned
  ClaimedCopyIsCurrent
  RowsAgree
  MintedIsCertified
PROPERTIES
  AttemptsCounted
  ImplementsService
