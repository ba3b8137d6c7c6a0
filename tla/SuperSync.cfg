SPECIFICATION FairSpec
CONSTANTS
  e1 = e1
  e2 = e2
  Edges = {e1, e2}
  Scenarios <- AllScenarios
  NhTables = {"t1", "t2"}
  Generals = {1}
  Costs = {0, 1}
  Receivers = {"v4", "v6"}
  MaxFlight = 1
INVARIANTS TypeOK 
CHECK_DEADLOCK FALSE
 
