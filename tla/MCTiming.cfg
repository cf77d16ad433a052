CONSTANTS
    a = a
    b = b
    g = g
    Local <- MCLocal
    Guests <- MCGuests
    Period <- MCPeriod
    Deadline <- MCDeadline
    Wcet <- MCWcet
    Unit = 4
    Speeds <- MCSpeeds
    Margin = 1
    Threshold = 2
    Cap = 100
    Unbounded = 1000
    LastTick = 24
SPECIFICATION Spec
INVARIANTS
    TypeOK
    NoMiss
    HorizonSuffices
CHECK_DEADLOCK FALSE
