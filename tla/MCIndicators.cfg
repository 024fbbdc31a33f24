SPECIFICATION IndicatorSpec
CONSTANTS
    MaxAge = 2
    MinTod = 1
    MaxTod = 1
    AtrWindow = 2
    Segments <- MCSegments
    Ends <- MCEnds
    Bars <- MCBars
    MinPrior = 1
    MaxPrior = 2
    MaxStates = 3
    MinStates = 2
    MinDistances = 1
    MaxNeighbors = 2
    Embargo = 2
    FitWindow = 3
    MediumSegments <- MCMediumSegments
    MediumEnds <- MCMediumEnds
    Calendars <- MCCalendars
    GapCalendar <- MCGapCalendar
    MediumCalendar <- MCMediumCalendar
    Horizon <- MCHorizon
INVARIANTS
    GuardsNeverStop
    LiveGapsAreContiguous
    BaselinesArePriorOnly
    MediumStopsOnlyAfterClosure
    SegmentsPartitionTime
PROPERTIES
    FirstRetestOnce
CHECK_DEADLOCK FALSE
