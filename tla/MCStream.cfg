SPECIFICATION Spec
CONSTANTS
    RollingMax = 3
    Windows = {2, 3}
    Sources <- MCSources
    FastBar = 2
    MediumBar = 4
    AtrWindow = 1
    Sessions <- MCSessions
    Kinds <- AllKinds
    SourceIds <- MCSourceIds
    MaxTrades = 4
    Ordered = TRUE
INVARIANTS
    BarsPartitionTrades
    PublicationsArePointInTime
    OnePublicationPerBar
    ReferenceIsPriorFinal
    OneFinalPerSession
    ReadyMeansClean
    OnlyEmptyProfileRaises
CHECK_DEADLOCK FALSE
