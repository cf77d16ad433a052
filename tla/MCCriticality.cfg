CONSTANTS
    p1 = p1
    p2 = p2
    c1 = c1
    c2 = c2
    Procs <- MCProcs
    Cores <- MCCores
    MaxLevel = 1
SPECIFICATION FairSpec
INVARIANTS
    Covered
    HighestKnown
PROPERTIES
    NeverFalls
    Agreement
