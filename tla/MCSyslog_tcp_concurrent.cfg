SPECIFICATION Spec
CONSTANTS
    t1 = t1
    t2 = t2
    Callers <- TwoCallers
    Transports <- TcpOnly
    Addresses = 2
    Lengths <- MCLengths
    UdpMax = 9
    SendFaults = FALSE
    MaxMessages = 2
    MaxOpens = 1
CHECK_DEADLOCK FALSE
INVARIANTS
    Framed
