SPECIFICATION Spec
CONSTANTS
    Components = {"mcu"}
    Mcu = "mcu"
    FwSize = 3
    BufSize = 2
    SectorSize = 2
    TransferSizes <- Smallest
    MetadataAt = 1
    Images = 1
    MaxRequests = 1
    MaxMishaps = 1
INVARIANT NoRepeatStored
CHECK_DEADLOCK FALSE
