SPECIFICATION Spec
CONSTANTS
  alice = alice
  w1 = w1
  w2 = w2
  Students = {alice}
  Wallets = {w1}
  owner <- MCOwner
  Videos = {v1}
  Documents = {}
  Duration = 4
  None = None
  Requests = {r1, r2}
  MinInterval = 1
  MaxInterval = 3
  RatePercent = 100
  Tolerance = 0
  SessionTtl = 3
  MaxSessions = 1
  MaxClock = 3
  MaxSequence = 4
  MaxAttempts = 1
  MaxChanges = 1
SYMMETRY MCSymmetry
CHECK_DEADLOCK FALSE
INVARIANT PlaybackFitsServerTime
