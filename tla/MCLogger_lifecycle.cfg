SPECIFICATION Spec
CONSTANTS
    l1 = l1
    l2 = l2
    t1 = t1
    t2 = t2
    Loggers <- TwoLoggers
    Threads <- TwoThreads
    Kinds <- AllKinds
    MaxFd = 4
    MaxLogs = 2
    App = App
    Closed = Closed
    NoLogger = NoLogger
CHECK_DEADLOCK FALSE
SYMMETRY Symmetry
INVARIANTS
    ShutdownReleasesAll
    WritesReachOwnSink
PROPERTIES
    SyslogClosesOwn
