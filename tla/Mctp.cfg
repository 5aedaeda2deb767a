CONSTANTS
    s1 = s1
    s2 = s2
    Senders = {s1, s2}
    TagOf <- OwnTags
    EidOf <- SameEid
    Shapes <- AllShapes
    Capacity = 5
    MaxMessages = 2
    MaxLosses = 1
SPECIFICATION Spec
INVARIANTS
    TypeOK
    HeardIsHandedOn
    WholeMessages
CHECK_DEADLOCK FALSE
