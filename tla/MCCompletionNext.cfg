CONSTANTS
    p1 = p1
    p2 = p2
    Procs <- MCTwo
    Period = 3
    Deadline = 3
    Jobs = 2
SPECIFICATION Spec
INVARIANTS
    RemovedDone
CHECK_DEADLOCK FALSE
