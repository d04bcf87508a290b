\* Two clients that end by disconnecting, as the Ruby client does; they may
\* also repeat their OPEN or send a number that is no command.
SPECIFICATION FairSpec
CONSTANTS
  Conn = {c1, c2}
  Options = {o}
  MaxRequests = 2
  Extra = {"OPEN", "unknown"}
INVARIANTS
  ServerTypeOK
  RefcountExact
  NoAssertion
  SendBufferStable
PROPERTIES
  Answered
  BrokersStop
CHECK_DEADLOCK FALSE
