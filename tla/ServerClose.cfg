\* Clients that end with CLOSE, then disconnect.
SPECIFICATION Spec
CONSTANTS
  Conn = {c1, c2}
  Options = {o}
  MaxRequests = 1
  Extra = {"CLOSE"}
INVARIANTS
  NoAssertion
CHECK_DEADLOCK FALSE
