CONSTANTS
    c1 = c1
    c2 = c2
    c3 = c3
    Clients = {c1, c2}
    Cores = {"Core0"}
    CoreOf <- OneCore
    MayTimeout = {c1}
    QueueItems = 1
    CopyChunks = 2
    Kinds = {"Op"}
    Signals = {"BgStart", "Wdt"}
    MaxCalls = 1
SPECIFICATION FairSpec
PROPERTY
    CopyCompletes
CHECK_DEADLOCK FALSE
