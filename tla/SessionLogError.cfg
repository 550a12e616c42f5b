SPECIFICATION FairSpec
CONSTANTS
    a = a
    b = b
    Main = Main
    Run = Run
    Transfers <- OneTransfer
    MaxInbox = 1
    MaxUnknown = 0
PROPERTIES
    LogErrorsAreShown
CHECK_DEADLOCK FALSE
