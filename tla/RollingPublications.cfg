SPECIFICATION PublicationSpec
CONSTANTS
    RollingMax = 3
    Windows = {2, 3}
    Sources = {"s1"}
    MaxTime = 5
    MaxIngested = 4
    MaxCompared = 3
INVARIANTS
    MinutesPartitionTrades
    RollingIsExact
    MemoryNeverOverflows
    PublishedMinutesStand
PROPERTIES
    FinalProfileIsFrozen
CHECK_DEADLOCK FALSE
