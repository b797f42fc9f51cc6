SPECIFICATION Spec
CONSTANTS
  Lessons = {l1, l2}
  Requests = {r1, r2}
  Indexers = {i1}
  Texts = {t1}
  Terms = {y1}
  Altered = Altered
  Foreign = Foreign
  None = None
  Depth = 1
  MaxLag = 1
  MaxVersion = 1
  MaxLogs = 3
  MaxFaults = 2
CHECK_DEADLOCK FALSE
INVARIANTS
  ApprovedIsKept
