SPECIFICATION MCStudentSpec
CONSTANTS
  alice = alice
  w1 = w1
  w2 = w2
  Students = {alice}
  Wallets = {w1, w2}
  owner <- MCOwner
  Videos = {}
  Documents = {d1, d2}
  Duration = 1
  None = None
  Requests = {r1, r2}
  MinInterval = 1
  MaxInterval = 1
  RatePercent = 200
  Tolerance = 0
  SessionTtl = 1
  MaxSessions = 2
  MaxClock = 1
  MaxSequence = 0
  MaxAttempts = 3
  MaxChanges = 3
  Buyers = {w1, w2}
  Payout = Payout
  Treasury = Treasury
  Prices = {1, 2}
  Funds = 2
  NoAccount = NoAccount
  Calls = {r1, r2}
  MaxMoves = 2
  lessons = {v1, v2}
  keys = {k1, k2}
  users = {u1, u2}
  names = {n1, n2}
  nonces = {o1}
  PlayerDuration = 3
  Jump = 1
  Chunk = 2
  Least = 1
  Limit = 2
  MaxUpdate = 2
  ProgressDuration = 2
  ProgressAttempts = 2
  SwapAmounts = {1, 2}
  Slippages = {500}
  Rates = {90, 100}
  Deadline = 1
  PermitLife = 2
  SwapClock = 2
  SwapMoves = 1
  Life = 1
  MaxTime = 1
  MaxLinks = 1
SYMMETRY StudentSymmetry
CHECK_DEADLOCK FALSE
INVARIANTS
  DocumentsAreEarned CertifiedWhenDone CertificatesGoToBuyers
  MoneyMatchesPurchases BusyHasCall CompleteIsPurchased
  PartsTypeOK OverreportHasCause SegmentsAreEvents CompletedWhenCovered
  BusyHasTrade NamesAreSigned WalletsAreOwned
PROPERTIES
  SwapsAreCovered
