SPECIFICATION Spec
CONSTANTS
    a = a
    b = b
    photos = photos
    scans = scans
    w = w
    Empty = Empty
    NoNumber = NoNumber
    NoDir = NoDir
    Nobody = Nobody
    Transfers <- TwoTransfers
    FourDigit <- OnePhotos
    Freeform <- OneScans
    Words <- OneWord
    Typed <- Everything
    Tidied <- BothDirs
    MaxCard = 2
INVARIANTS
    TypeOK
    NumberedCardsAreExclusive
    RegistryMatchesFields
SYMMETRY Symmetry
CHECK_DEADLOCK FALSE
