SPECIFICATION FairSpec
CONSTANTS
  nA = nA
  nB = nB
  nC = nC
  nD = nD
  Vertices = {nA, nB, nC, nD}
  None = None
  Infinity = 50
  Broadcast = Broadcast
  Spread = Spread
  Hosts = {"h1", "h2"}
  Scenarios <- AllScenarios
  DefaultTTL = 3
  MaxEvents = 1
INVARIANTS TypeOK NotEchoed ExactlyOnce
PROPERTIES Ends
CHECK_DEADLOCK FALSE
