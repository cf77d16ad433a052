CONSTANTS
    core1 = core1
    core2 = core2
    timer = timer
    Threads <- MCThreads
    CurCycles = 6
    MaxRounds = 6
SPECIFICATION FairSpec
INVARIANTS
    NoLostWakeup
PROPERTIES
    ImplementsRendezvous
    EverybodyThrough
CHECK_DEADLOCK FALSE
