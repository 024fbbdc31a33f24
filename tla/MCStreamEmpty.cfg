SPECIFICATION Spec
CONSTANTS
    RollingMax = 3
    Windows = {2, 3}
    Sources <- MCSources
    FastBar = 2
    MediumBar = 4
    AtrWindow = 1
    Sessions <- MCSessions
    Kinds <- AllKinds
    SourceIds <- MCSourceIds
    MaxTrades = 4
    Ordered = TRUE
INVARIANT
    OrderedFeedNeverStops
CHECK_DEADLOCK FALSE
