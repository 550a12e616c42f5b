SPECIFICATION Spec
CONSTANTS
    a = a
    b = b
    c = c
    Main = Main
    Namer = Namer
    Nothing = Nothing
    Transfers <- ThreeTransfers
SYMMETRY Symmetry
INVARIANTS
    TypeOK
    NameEntryFollowsItsQuery
    OpenEntryKeepsItsQuery
