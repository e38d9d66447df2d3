SPECIFICATION Spec
CONSTANTS
    p1 = p1
    p2 = p2
    c1 = c1
    c2 = c2
    Producers <- MCProducers
    Consumers <- MCConsumers
    Capacity = 2
    Word = 4
    MaxCalls = 3
    MutexFaults = TRUE
    Free = Free
    None = None
SYMMETRY Symmetry
INVARIANTS
    TypeOK
    FifoExact
    CursorsAgree
    OccupiedIsWindow
    SingleOwner
    MetricsExact
PROPERTIES
    ImplementsFifo
