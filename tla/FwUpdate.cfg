SPECIFICATION FairSpec
CONSTANTS
    Components = {"mcu"}
    Mcu = "mcu"
    FwSize = 5
    BufSize = 4
    SectorSize = 4
    TransferSizes <- Switching
    MetadataAt = 2
    Images = 1
    MaxRequests = 2
    MaxMishaps = 1
INVARIANT TypeOK
INVARIANT WholeImage
INVARIANT BootableIntact
INVARIANT OneWriter
INVARIANT TimerGuards
PROPERTY SessionScoped
PROPERTY ReturnsToIdle
CHECK_DEADLOCK FALSE
