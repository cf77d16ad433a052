CONSTANTS
    p1 = p1
    p2 = p2
    Procs <- MCTwo
    Period = 3
    Deadline = 1
    Jobs = 3
SPECIFICATION Spec
SYMMETRY MCPerms
INVARIANTS
    RemovedDone
    StopOnItsWay
CHECK_DEADLOCK FALSE
