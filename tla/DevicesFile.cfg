SPECIFICATION Spec
CONSTANTS
    card = card
    twin = twin
    stick = stick
    Devices <- OneNode
    Syspath <- OneNodePath
    Node <- OneNodeNode
    Names <- OneNodeNames
    LunSegments <- Luns
    FirstFiles <- NewOrStick
    Edits <- ReaderEdit
    EditsWhileUp = TRUE
    MaxEvents = 3
    Lossy = FALSE
    Absent = Absent
    Partial = Partial
    NoDevice = NoDevice
    Mounting = Mounting
    Broken = Broken
INVARIANTS
    IgnoredDevicesStayOut
    FileCanBeRead
PROPERTY
    DecisionsStay
CHECK_DEADLOCK FALSE
