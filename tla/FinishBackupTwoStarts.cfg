SPECIFICATION Spec
CONSTANTS
    t1 = t1
    t2 = t2
    n1 = n1
    n2 = n2
    NoThread = NoThread
    Threads <- TwoThreads
    Names <- TwoNames
    MaxEntry = 2
    LogErrors = TRUE
INVARIANT
    PlainSnapshotsSayComplete
CHECK_DEADLOCK FALSE
