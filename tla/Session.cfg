\* Two clients share a processor; a response holds two documents and not three.
SPECIFICATION Spec
CONSTANTS
  Doc = {d1, d2, d3}
  Client = {c1, c2}
  HeaderSize = 2
  PacketIdSize = 3
  OpenSize = 1
  OpenChars = 1
  ReadSize = 1
  AnswerSize = 9
  DocSize = 2
  MaxBodyLength = 15
  MaxReads = 2
  ShortRecv = TRUE
INVARIANTS
  SessionTypeOK
  InStep
  OneReader
  LossNeedsFailure
  FaultNeedsFailure
PROPERTIES
  Answered
CHECK_DEADLOCK FALSE
