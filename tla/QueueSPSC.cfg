\* One pushing and one popping thread, as in both brokers of zbroker.
SPECIFICATION FairSpec
CONSTANTS
  Thread = {p1, c1}
  Pushers = {p1}
  Poppers = {c1}
  Singles = {p1}
  Timed = {c1}
  SpuriousWakeups = FALSE
  LimitSize = 2
  MaxItems = 5
  MaxBatch = 4
INVARIANTS
  QueueTypeOK
  PopFindsItem
  NoLostWakeup
  InOrder
PROPERTIES
  Delivered
  ImplementsFIFO
