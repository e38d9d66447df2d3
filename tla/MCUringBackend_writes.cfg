SPECIFICATION FairSpec
CONSTANTS
    Depth = 2
    Lengths <- MCLengths
    MaxWrites = 3
CHECK_DEADLOCK FALSE
INVARIANTS
    TypeOK
    WrittenOnce
    LeftBehindExact
PROPERTIES
    OkUntilInterrupted
    CallReturns
