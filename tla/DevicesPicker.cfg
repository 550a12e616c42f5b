SPECIFICATION Spec
CONSTANTS
    card = card
    twin = twin
    stick = stick
    Devices <- Renamed
    Syspath <- RenamedPath
    Node <- RenamedNode
    Names <- RenamedNames
    LunSegments <- Luns
    FirstFiles <- SlotAllowed
    Edits <- NoEdits
    EditsWhileUp = FALSE
    MaxEvents = 2
    Lossy = FALSE
    Absent = Absent
    Partial = Partial
    NoDevice = NoDevice
    Mounting = Mounting
    Broken = Broken
INVARIANT
    PickerIsExact
CHECK_DEADLOCK FALSE
