SPECIFICATION Spec
CONSTANTS
    t1 = t1
    t2 = t2
    n1 = n1
    n2 = n2
    NoThread = NoThread
    Threads <- TwoThreads
    Names <- TwoNames
    MaxEntry = 1
    LogErrors = FALSE
INVARIANTS
    GuardInv
SYMMETRY Symmetry
CHECK_DEADLOCK FALSE
