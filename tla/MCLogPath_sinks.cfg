SPECIFICATION PathSpec
CONSTANTS
    t1 = t1
    t2 = t2
    Callers <- TwoCallers
    Transports <- BothTransports
    Addresses = 2
    Lengths <- MCLengths
    UdpMax = 9
    SendFaults = TRUE
    MaxMessages = 3
    MaxOpens = 2
    LineLengths <- MCLineLengths
    MaxLines = 3
    TurnsOnTcp = TRUE
SYMMETRY CallerSymmetry
CHECK_DEADLOCK FALSE
INVARIANTS
    NoSocketLeak
    FramedUntilFailure
    AckedWhole
    DatagramPerMessage
    LineExact
    LinesApart
