SPECIFICATION Spec
CONSTANTS
    a = a
    b = b
    Main = Main
    Run = Run
    Transfers <- TwoTransfers
    MaxInbox = 1
    MaxUnknown = 1
SYMMETRY Symmetry
INVARIANTS
    TypeOK
    WaitersHaveTheirQuery
    TerminalHasAnOwner
    IInv
CHECK_DEADLOCK FALSE
