SPECIFICATION Spec
CONSTANTS
    MediumBars = 2
    SessionEnds = {7, 8}
    MaxTime = 8
    MaxLag = 1
    Gaps = {1, 2}
    Faulty = {"Auction"}
    MaxHistory = 3
    IcmWindow = 2
    Distinct = TRUE
INVARIANTS
    AlignsLatest
    ReadyIsCurrent
    EventsNameTheirOwnSnapshot
CHECK_DEADLOCK FALSE
