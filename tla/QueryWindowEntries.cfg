SPECIFICATION Spec
CONSTANTS
    a = a
    b = b
    c = c
    Main = Main
    Namer = Namer
    Nothing = Nothing
    Transfers <- TwoTransfers
INVARIANT
    EntryMatchesFrontQuery
