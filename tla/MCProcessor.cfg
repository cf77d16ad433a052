CONSTANTS
    p1 = p1
    p2 = p2
    c1 = c1
    c2 = c2
    Timer = Timer
    Never = Never
    Procs <- MCTwo
    Cores <- MCCores
    TotalTicks = 3
    QueueSize = 6
SPECIFICATION FairSpec
INVARIANTS
    InStep
    LockStep
    SuccessMeansNoMiss
    TimerNeverBlocks
PROPERTIES
    RunsToTheEnd
CHECK_DEADLOCK FALSE
