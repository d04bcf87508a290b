\* Several threads of each kind, push(T) excluded, spurious wakeups included.
SPECIFICATION Spec
CONSTANTS
  Thread = {p1, p2, c1, c2}
  Pushers = {p1, p2}
  Poppers = {c1, c2}
  Singles = {}
  Timed = {p1, p2, c1, c2}
  SpuriousWakeups = TRUE
  LimitSize = 2
  MaxItems = 4
  MaxBatch = 3
INVARIANTS
  WithinLimit
  ExactlyOnce
CHECK_DEADLOCK FALSE
