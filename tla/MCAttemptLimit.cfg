SPECIFICATION MediaSpec
CONSTANTS
  a = a
  b = b
  AssetLessons = {l1}
  MediaCalls = {r1}
  Workers = {m1, m2}
  Contents = {a}
  Nobody = Nobody
  MaxAttempts = 2
  MaxAssetVersion = 1
  MaxMediaFaults = 1
SYMMETRY MCSymmetry
CHECK_DEADLOCK FALSE
INVARIANTS
  AttemptLimit
