SPECIFICATION Spec
CONSTANTS
    RotateBytes = 3
    RotateInterval = 2
    Retention = 1
    Requests <- MCRequests
    Sizes <- MCSizes
    Faults <- FaultKinds
    Depth = 2
    MaxWrites = 4
    MaxClock = 2
    MaxSessions = 2
CHECK_DEADLOCK FALSE
INVARIANTS
    LogIsCut
    BytesWrittenExact
    SizeBound
    RetentionExact
    BytesInOrder
PROPERTIES
    RotatedImmutable
