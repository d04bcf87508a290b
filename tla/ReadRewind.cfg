SPECIFICATION Spec
CONSTANTS
  Thread = {"reader", "io"}
  LimitSize = 2
  NumDocs = 4
  Limit = 2
  Skip = 0
  MaxOpens = 1
  MaxRewinds = 1
  CanTerm = FALSE
  ReadTimeout = 1
  ReadRetry = 1
  Fits = 3
  IntBits = 5
  DefaultLimit = 3
INVARIANTS
  RewindRestarts
CHECK_DEADLOCK FALSE
