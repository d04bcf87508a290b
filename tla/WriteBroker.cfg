SPECIFICATION FairSpec
CONSTANTS
  Thread = {"writer", "io"}
  LimitSize = 2
  NumDocs = 4
  MaxBatch = 3
  MaxOpens = 2
INVARIANTS
  WriteTypeOK
  AppliedInOrder
  WritePopFindsItem
PROPERTIES
  LateTimeoutLosesNothing
  WriteAnswered
  WriteTermEnds
  EventuallyApplied
CHECK_DEADLOCK FALSE
