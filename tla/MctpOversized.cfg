CONSTANTS
    s1 = s1
    s2 = s2
    Senders = {s1, s2}
    TagOf <- OwnTags
    EidOf <- SameEid
    Shapes <- Oversized
    Capacity = 2
    MaxMessages = 2
    MaxLosses = 0
SPECIFICATION Spec
PROPERTY
    OversizedThrownAway
CHECK_DEADLOCK FALSE
