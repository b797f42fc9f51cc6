SPECIFICATION ContentSpec
CONSTANTS
  AssetLessons = {l1}
  MediaCalls = {r1, r2}
  Workers = {m1, m2}
  Contents = {a}
  Nobody = Nobody
  MaxAttempts = 2
  MaxAssetVersion = 2
  MaxMediaFaults = 1
  Lessons = {l1}
  Requests = {r1, r2}
  Indexers = {i1}
  Texts = {t1}
  Terms = {y1}
  Altered = Altered
  Foreign = Foreign
  None = None
  Depth = 1
  MaxLag = 1
  MaxVersion = 2
  MaxLogs = 3
  MaxFaults = 2
CHECK_DEADLOCK FALSE
INVARIANTS
  RowsAgree
  HolderIsCurrent
  ReadyIsInspected
  TypeOK
  ListingIsConfirmed
  SyncedAgrees
PROPERTIES
  ImplementsAssetLifecycle
  EveryJobSettles
  ImplementsLifecycle
  ConfirmedIsPublished
