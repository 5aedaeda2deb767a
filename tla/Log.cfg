CONSTANTS
    Sectors = 2
    PerSector = 2
    MetaSlots = 3
    FaultEntries = 1
    Batch = 2
    MaxStores = 6
    MaxLosses = 1
    MaxFailures = 1
    MaxCleans = 1
    SessionMax = 2
    PageEntries = 2
    FaultParts = 3
    PerfSize = 1
    UserMode = "Accumulate"
    MaxSessions = 2
SPECIFICATION DownloadSpec
INVARIANTS
    DownloadTypeOK
    RestartContinues
    SlotIsErased
    RoomAtTail
    LogInOrder
    StoreKeepsLog
    HoldsNewest
    WipeHasCause
    SendsTheLog
PROPERTIES
    MonitorResumes
