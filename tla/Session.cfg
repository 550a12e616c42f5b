SPECIFICATION FairSpec
CONSTANTS
    a = a
    b = b
    Main = Main
    Run = Run
    Transfers <- OneTransfer
    MaxInbox = 2
    MaxUnknown = 1
INVARIANTS
    TypeOK
    WaitersHaveTheirQuery
PROPERTIES
    ShutdownCompletes
    QueriesAreAnswered
    TerminalIsLeft
CHECK_DEADLOCK FALSE
