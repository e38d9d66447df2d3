SPECIFICATION Spec
CONSTANTS
    Depth = 2
    Lengths <- MCLengths
    MaxWrites = 4
CHECK_DEADLOCK FALSE
INVARIANTS
    OkMeansLineWritten
