SPECIFICATION Spec
CONSTANTS
    card1 = card1
    card2 = card2
    NoFile = NoFile
    Torn = Torn
    Transfers <- OneTransfer
    MaxId = 2
INVARIANTS
    FlushesAreAtomic
    CompleteEntriesAreSucceeded
CHECK_DEADLOCK FALSE
