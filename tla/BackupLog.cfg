SPECIFICATION Spec
CONSTANTS
    card1 = card1
    card2 = card2
    NoFile = NoFile
    Torn = Torn
    Transfers <- TwoTransfers
    MaxId = 3
INVARIANTS
    TypeOK
    AckedTransfersStay
    EntriesFormOneChain
    CleanLoadFindsTheOpenEnd
PROPERTY
    ImplementsLog
SYMMETRY Symmetry
CHECK_DEADLOCK FALSE
