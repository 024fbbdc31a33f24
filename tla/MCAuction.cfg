SPECIFICATION PathSpec
CONSTANTS
    MaxBars = 6
    MaxSessions = 3
    EntropyRoundsUp <- MCEntropyRoundsUp
    Openings <- MCOpenings
    Bars <- MCBars
    AtrWindow = 3
    SessionBars <- MCSessionBars
INVARIANTS
    CountersMatchEvents
    LeftOnlyByJump
    ValueAreaIsTight
    OnlyEqualBinsRaise
    OutsideBarsAgree
PROPERTIES
    WellFormedExcursions
CHECK_DEADLOCK FALSE
