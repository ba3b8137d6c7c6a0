CONSTANTS
    BlockBits = 2
    RingBlocks = 3
    Limit = 11
    Counters <- MCCounters
SPECIFICATION Spec
INVARIANTS
    TypeOK
    RingFaithful
PROPERTY ImplementsWindow
