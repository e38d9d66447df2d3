SPECIFICATION FairSpec
CONSTANTS
    p1 = p1
    p2 = p2
    c1 = c1
    c2 = c2
    Producers <- MCProducers
    Consumers <- MCTwoConsumers
    Capacity = 2
    Word = 4
    MaxCalls = 2
    MutexFaults = FALSE
    Free = Free
    None = None
INVARIANTS
    MutualExclusion
    NoLeak
PROPERTIES
    LockReleased
    Drained
