SPECIFICATION Spec
CONSTANTS
    a = a
    b = b
    photos = photos
    scans = scans
    w = w
    Empty = Empty
    NoNumber = NoNumber
    NoDir = NoDir
    Nobody = Nobody
    Transfers <- TwoTransfers
    FourDigit <- OnePhotos
    Freeform <- None
    Words <- None
    Typed <- None
    Tidied <- OnePhotos
    MaxCard = 1
INVARIANT
    LogEntriesAreDistinct
CHECK_DEADLOCK FALSE
