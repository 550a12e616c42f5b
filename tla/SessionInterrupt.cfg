SPECIFICATION FairSpec
CONSTANTS
    a = a
    b = b
    Main = Main
    Run = Run
    Transfers <- OneTransfer
    MaxInbox = 1
    MaxUnknown = 0
PROPERTIES
    NothingToInterrupt
CHECK_DEADLOCK FALSE
