CONSTANTS
    t1 = t1
    t2 = t2
    Main = main
    Threads <- MCThreads
    QSize = 3
SPECIFICATION FairSpec
INVARIANTS
    NextLineWakes
    OverlookedInGap
PROPERTIES
    ShutdownReturns
CHECK_DEADLOCK FALSE
