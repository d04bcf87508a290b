\* A queue smaller than two batches, one REWIND, two openings.
SPECIFICATION Spec
CONSTANTS
  Thread = {"reader", "io"}
  LimitSize = 2
  NumDocs = 3
  Limit = 2
  Skip = 0
  ReadTimeout = 1
  ReadRetry = 1
  Fits = 2
  IntBits = 5
  DefaultLimit = 3
  MaxOpens = 2
  MaxRewinds = 1
  CanTerm = TRUE
INVARIANTS
  ReadTypeOK
  ReadPopFindsItem
  EachDocOnce
  CrashNeedsRewind
  JoinUnblocked
  DeadlockOnlyStranded
PROPERTIES
  BatchBounded
  DropNeedsTimeout
  ImplementsCursor
CHECK_DEADLOCK FALSE
