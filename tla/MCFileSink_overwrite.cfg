SPECIFICATION Spec
CONSTANTS
    RotateBytes = 3
    RotateInterval = 2
    Retention = 0
    Requests <- SyncOnly
    Sizes <- MCSizes
    Faults <- NoFaults
    Depth = 2
    MaxWrites = 4
    MaxClock = 1
    MaxSessions = 2
CHECK_DEADLOCK FALSE
PROPERTIES
    NeverOverwritten
