SPECIFICATION Spec
CONSTANTS
  Thread = {"writer", "io"}
  LimitSize = 2
  NumDocs = 2
  MaxBatch = 2
  MaxOpens = 1
INVARIANTS
  AllWrittenAtTerm
CHECK_DEADLOCK FALSE
