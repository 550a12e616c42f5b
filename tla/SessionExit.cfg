SPECIFICATION FairSpec
CONSTANTS
    a = a
    b = b
    Main = Main
    Run = Run
    Transfers <- OneTransfer
    MaxInbox = 1
    MaxUnknown = 1
PROPERTIES
    ExitIsHonoured
CHECK_DEADLOCK FALSE
