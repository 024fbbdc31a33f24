SPECIFICATION RecordsSpec
CONSTANTS
    w1 = w1
    w2 = w2
    e1 = e1
    e2 = e2
    Writers = {w1}
    Experiments = {e1}
    Times = {1}
    Texts = {"plain", "separator"}
    MaxRows = 2
    Cells = {"deep", "smoke"}
    Versions = {1}
    RuntimeLists <- Runs
    CoverageLists <- Rows
    Published <- FirstPublication
    MaxChanges = 0
INVARIANT
    ChainIntact
CHECK_DEADLOCK FALSE
