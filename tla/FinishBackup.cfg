SPECIFICATION FairSpec
CONSTANTS
    t1 = t1
    t2 = t2
    n1 = n1
    n2 = n2
    NoThread = NoThread
    Threads <- OneThread
    Names <- TwoNames
    MaxEntry = 3
    LogErrors = TRUE
INVARIANTS
    TypeOK
    CompletionIsGuarded
    ClosedEntriesAreSealed
    PlainSnapshotsSayComplete
    ExitOfferedWhenSealed
PROPERTIES
    ImplementsPromise
    PlainSnapshotsArePermanent
    RunsReachTheUser
CHECK_DEADLOCK FALSE
