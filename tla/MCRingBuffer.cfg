CONSTANTS
    t1 = t1
    t2 = t2
    t3 = t3
    v1 = v1
    NoValue = NoValue
    Threads <- MCThreads
    Values <- MCValue
    Size = 3
    MaxTickets = 5
SPECIFICATION FairSpec
INVARIANTS
    NoTearing
PROPERTIES
    ImplementsTicketQueue
    SlotComes
CHECK_DEADLOCK FALSE
