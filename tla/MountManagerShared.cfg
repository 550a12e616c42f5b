SPECIFICATION Spec
CONSTANTS
    sdb1 = sdb1
    m1 = m1
    m2 = m2
    a = a
    b = b
    NoDevice = NoDevice
    NoMount = NoMount
    Devices <- OneDevice
    Transfers <- TwoTransfers
    Mounts <- OneMount
    MaxEvents = 1
INVARIANT
    UsersKeepTheirMount
CHECK_DEADLOCK FALSE
