CONSTANTS
    c1 = c1
    c2 = c2
    c3 = c3
    Clients = {c1, c2, c3}
    Cores = {"Core0", "Core1"}
    CoreOf <- PairOnCore1
    MayTimeout = {c1}
    QueueItems = 2
    CopyChunks = 2
    Kinds = {"Op", "Query"}
    Signals = {"BgStart"}
    MaxCalls = 1
SPECIFICATION Spec
INVARIANTS
    TypeOK
    CoreExclusive
    RequestSlotReserved
    ResponseSlotFree
    AnswersOwnCall
PROPERTY
    RpcRefinement
CHECK_DEADLOCK FALSE
