SPECIFICATION Spec
CONSTANTS
  nA = nA
  nB = nB
  s1 = s1
  s2 = s2
  Nil = Nil
  Nodes <- MCNodes
  Senders <- MCSenders
  Scenarios <- MCScenarios
  RetryCount = 2
  MaxSockets = 9
  MaxCalls = 2
INVARIANTS TypeOK
PROPERTIES Returns Flows
CHECK_DEADLOCK FALSE
