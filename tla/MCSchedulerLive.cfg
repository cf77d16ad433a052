CONSTANTS
    a = a
    b = b
    d = d
    NULL = NULL
    None = NULL
    Cores <- MCCores
    Jobs <- MCJobs2
    Owner <- MCOwner2
    QCap = 2
SPECIFICATION FairSpec
PROPERTIES
    ImplementsLifecycle
    TicksEnd
