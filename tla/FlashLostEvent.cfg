CONSTANTS
    c1 = c1
    c2 = c2
    c3 = c3
    Clients = {c1, c2}
    Cores = {"Core0", "Core1"}
    CoreOf <- TwoCores
    MayTimeout = {}
    QueueItems = 2
    CopyChunks = 1
    Kinds = {"Op"}
    Signals = {"Wdt"}
    MaxCalls = 1
SPECIFICATION Spec
INVARIANT
    QueuedRequestHasEvent
CHECK_DEADLOCK FALSE
