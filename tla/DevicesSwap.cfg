SPECIFICATION FairSpec
CONSTANTS
    card = card
    twin = twin
    stick = stick
    Devices <- OneNode
    Syspath <- OneNodePath
    Node <- OneNodeNode
    Names <- OneNodeNames
    LunSegments <- Luns
    FirstFiles <- NewOrStick
    Edits <- ReaderEdit
    EditsWhileUp = FALSE
    MaxEvents = 3
    Lossy = FALSE
    Absent = Absent
    Partial = Partial
    NoDevice = NoDevice
    Mounting = Mounting
    Broken = Broken
INVARIANTS
    TypeOK
    QuietEntriesAreCurrent
    QuietMapsAreCurrent
    OnceIsNotSaved
    IInv
    IgnoredInv
PROPERTIES
    DecisionsStay
    AllowedDevicesAreMounted
CHECK_DEADLOCK FALSE
