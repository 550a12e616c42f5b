SPECIFICATION Spec
CONSTANTS
    card = card
    twin = twin
    stick = stick
    Devices <- Shared
    Syspath <- SharedPath
    Node <- SharedNode
    Names <- SharedNames
    LunSegments <- Luns
    FirstFiles <- NewFile
    Edits <- ReaderEdit
    EditsWhileUp = FALSE
    MaxEvents = 2
    Lossy = TRUE
    Absent = Absent
    Partial = Partial
    NoDevice = NoDevice
    Mounting = Mounting
    Broken = Broken
INVARIANT
    QuietMapsAreCurrent
CHECK_DEADLOCK FALSE
