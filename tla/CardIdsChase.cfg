SPECIFICATION FairSpec
CONSTANTS
    a = a
    b = b
    photos = photos
    scans = scans
    w = w
    Empty = Empty
    NoNumber = NoNumber
    NoDir = NoDir
    Nobody = Nobody
    Transfers <- TwoTransfers
    FourDigit <- OnePhotos
    Freeform <- None
    Words <- None
    Typed <- None
    Tidied <- None
    MaxCard = 1
PROPERTY
    AutoIdsSettle
CHECK_DEADLOCK FALSE
