SPECIFICATION FairSpec
CONSTANTS
    Raw <- MCRaw
    Schedule <- MCSchedule
    MaxTime = 3
INVARIANTS
    NeverEarly
    NeverReleasedTwice
    ReleasedInOrder
PROPERTIES
    ReleaseDrains
CHECK_DEADLOCK FALSE
