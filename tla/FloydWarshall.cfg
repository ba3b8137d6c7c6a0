CONSTANTS
  A = A
  B = B
  C = C
  Vertices = {A, B, C}
  None = None
  Infinity = 50
  Graphs <- AllGraphs
  Offsets <- SmallOffsets
SPECIFICATION Spec
SYMMETRY Symmetry
CHECK_DEADLOCK FALSE
INVARIANTS TypeOK ClocksMakeNoCycle Descends RoutesAreShortest
