SPECIFICATION Spec
CONSTANTS
  Operators = {o1}
  ModelCalls = {k1, k2}
  Messages = {m1}
  NoMessage = NoMessage
  Sdk = Sdk
  MaxInFlight = 2
  MaxOps = 3
  o1 = o1
  o2 = o2
  k1 = k1
  k2 = k2
  m1 = m1
  m2 = m2
INVARIANTS
  PausedCallsWait
CHECK_DEADLOCK FALSE
