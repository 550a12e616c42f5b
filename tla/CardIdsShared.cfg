SPECIFICATION Spec
CONSTANTS
    a = a
    b = b
    photos = photos
    scans = scans
    w = w
    Empty = Empty
    NoNumber = NoNumber
    NoDir = NoDir
    Nobody = Nobody
    Transfers <- TwoTransfers
    FourDigit <- None
    Freeform <- OneScans
    Words <- OneWord
    Typed <- Everything
    Tidied <- None
    MaxCard = 0
INVARIANT
    CardDirectoriesAreExclusive
CHECK_DEADLOCK FALSE
