CONSTANTS
    c1 = c1
    c2 = c2
    a = a
    b = b
    d = d
    Cores <- MCCores
    Entries <- MCEntries
    Home <- MCHome
    Period <- MCPeriod
    Lookahead = 4
    Cooldown = 2
    PoolSize = 1
    Threshold = 1
    Forever = 20
    LastTick = 6
SPECIFICATION Spec
INVARIANTS
    ReleasedInTick
    NeverLate
    SenderLearns
    OneTaker
    AcksFit
CHECK_DEADLOCK FALSE
