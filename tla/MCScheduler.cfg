CONSTANTS
    a = a
    b = b
    d = d
    NULL = NULL
    None = NULL
    Cores <- MCCores
    Jobs <- MCJobs
    Owner <- MCOwner
    QCap = 3
SYMMETRY MCPerms
SPECIFICATION Spec
INVARIANTS
    UniqueHome
    RefcountExact
    OfferedHasRequest
    DiscardedNotOffered
    RequestedAtHome
    SettledAtHome
    StatusAgrees
    CompletionHasJob
    NoCircularWait
    NobodyStuck
