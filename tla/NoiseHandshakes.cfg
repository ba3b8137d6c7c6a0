CONSTANTS
    a = a
    b = b
    w = w
    x = x
    Nodes = {a, b}
    Indices = {i1, i2, i3}
    NoIndex = NoIndex
    None = None
    Workers = {w, x}
    Loads <- BothLoads
SPECIFICATION Spec
SYMMETRY IndexWorkerSymmetry
CHECK_DEADLOCK FALSE
INVARIANTS
    TypeOK
    IndexTableExact
    SessionMirror
    ConfirmedBeforeUse
    OneKeypairPerHandshake
