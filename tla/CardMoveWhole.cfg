SPECIFICATION Spec
CONSTANTS
    t1 = t1
    t2 = t2
    t3 = t3
    dir1 = dir1
    dir2 = dir2
    dir3 = dir3
    Nodes <- Tree
    Files <- TreeFiles
    Root <- TreeRoot
    ConfigFile <- TreeConfig
    Children <- TreeChildren
    Under <- TreeUnder
    Name <- TreeName
    WholeCard = WholeCard
    Transfers <- OneTransfer
    CardDirs <- ThreeDirs
    CardOf <- OwnDir
    Cards <- EveryCard
    Edits <- RootOrD
    MaxCrashes = 1
    NoNode = NoNode
    NoSample = NoSample
INVARIANTS
    TypeOK
    NothingIsLost
    SucceededTransfersAreComplete
    ConfigStaysOnCard
    EveryDirectoryIsOffered
    OfferedInv
    MovesInv
CHECK_DEADLOCK FALSE
