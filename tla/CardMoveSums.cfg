SPECIFICATION Spec
CONSTANTS
    t1 = t1
    t2 = t2
    t3 = t3
    dir1 = dir1
    dir2 = dir2
    dir3 = dir3
    Nodes <- Tree
    Files <- TreeFiles
    Root <- TreeRoot
    ConfigFile <- TreeConfig
    Children <- TreeChildren
    Under <- TreeUnder
    Name <- TreeName
    WholeCard = WholeCard
    Transfers <- TwoTransfers
    CardDirs <- ThreeDirs
    CardOf <- OwnDir
    Cards <- OverlapCards
    Edits <- NoEdits
    MaxCrashes = 0
    NoNode = NoNode
    NoSample = NoSample
INVARIANT
    SucceededTransfersAddUp
CHECK_DEADLOCK FALSE
