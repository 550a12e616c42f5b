SPECIFICATION FairSpec
CONSTANTS
    card = card
    twin = twin
    stick = stick
    Devices <- Shared
    Syspath <- SharedPath
    Node <- SharedNode
    Names <- SharedNames
    LunSegments <- Luns
    FirstFiles <- NewFile
    Edits <- ReaderEdit
    EditsWhileUp = FALSE
    MaxEvents = 2
    Lossy = FALSE
    Absent = Absent
    Partial = Partial
    NoDevice = NoDevice
    Mounting = Mounting
    Broken = Broken
INVARIANTS
    TypeOK
    QuietEntriesAreCurrent
    QuietMapsAreCurrent
    OnceIsNotSaved
PROPERTIES
    DecisionsStay
    AllowedDevicesAreMounted
CHECK_DEADLOCK FALSE
