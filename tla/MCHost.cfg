SPECIFICATION HostSpec
CONSTANTS
    Contracts = {"ESH6", "ESM6", "ESU6"}
    MaxTime = 4
    MaxTicks = 2
    DayLength = 2
    Fields = {"dealer_long", "open_interest"}
    Chains <- MCChains
    Deliveries <- MCDeliveries
    MaxDelivered = 3
    AuditDates = {0, 1, 2}
INVARIANTS
    TradesFollowTheMapping
    RollStatesAreFinal
    OneStreamPerMapping
    EvidenceReconciles
    DeliveriesReconcile
CHECK_DEADLOCK FALSE
