\* Each kind of parameters that an OPEN may give.
SPECIFICATION Spec
CONSTANTS
  Case = {"usual", "small", "nothing", "overflow", "zero_limit", "zero_queue", "endless", "negative"}
  NumDocs = 2
  MaxOpens = 1
  MaxRewinds = 0
  CanTerm = TRUE
  Fits = 3
  IntBits = 5
  DefaultLimit = 3
INVARIANTS
  BreaksOnlyAtZero
PROPERTIES
  ReadAnswered
  TermEnds
  EventuallySent
CHECK_DEADLOCK FALSE
