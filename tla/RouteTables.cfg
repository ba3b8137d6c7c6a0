SPECIFICATION Spec
CONSTANTS
  A = A
  B = B
  C = C
  Vertices = {A, B, C}
  None = None
  Broadcast = Broadcast
  Infinity = 50
  Settings <- AllModes
  NextHopTables <- Configured
  Timer = timer
  http = http
  Workers = {timer, http}
  Slack = 1
INVARIANTS TypeOK LiveRoutes NearBest RoutesArrive
PROPERTY Converges
