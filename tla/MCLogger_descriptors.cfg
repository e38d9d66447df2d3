SPECIFICATION Spec
CONSTANTS
    l1 = l1
    l2 = l2
    t1 = t1
    t2 = t2
    Loggers <- TwoLoggers
    Threads <- OneThread
    Kinds <- ConsoleAndFile
    MaxFd = 4
    MaxLogs = 1
    App = App
    Closed = Closed
    NoLogger = NoLogger
CHECK_DEADLOCK FALSE
PROPERTIES
    OnlyOwnDescriptors
