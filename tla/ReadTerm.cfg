SPECIFICATION FairSpec
CONSTANTS
  Thread = {"reader", "io"}
  LimitSize = 2
  NumDocs = 2
  Limit = 2
  Skip = 0
  MaxOpens = 1
  MaxRewinds = 0
  CanTerm = TRUE
  ReadTimeout = 1
  ReadRetry = 1
  Fits = 3
  IntBits = 5
  DefaultLimit = 3
PROPERTIES
  TermReturns
CHECK_DEADLOCK FALSE
