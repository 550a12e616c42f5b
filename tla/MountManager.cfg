SPECIFICATION Spec
CONSTANTS
    sdb1 = sdb1
    m1 = m1
    m2 = m2
    a = a
    b = b
    NoDevice = NoDevice
    NoMount = NoMount
    Devices <- OneDevice
    Transfers <- OneTransfer
    Mounts <- TwoMounts
    MaxEvents = 1
INVARIANTS
    TypeOK
    MarkedEntriesAreMounted
    QuietMountsAreShownAsTheyAre
SYMMETRY Symmetry
CHECK_DEADLOCK FALSE
