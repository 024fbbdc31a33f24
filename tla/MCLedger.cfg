SPECIFICATION RecordsSpec
CONSTANTS
    w1 = w1
    w2 = w2
    e1 = e1
    e2 = e2
    Writers = {w1, w2}
    Experiments = {e1, e2}
    Times = {1, 2}
    Texts = {"plain"}
    MaxRows = 2
    Cells = {"deep", "smoke"}
    Versions = {1, 2}
    RuntimeLists <- Runs
    CoverageLists <- Rows
    Published <- FirstPublication
    MaxChanges = 4
SYMMETRY Symmetric
INVARIANTS
    ChainIntact
    VerifiedIsLegal
    AcceptedEvidenceIsOfOneSet
PROPERTIES
    AppendOnly
CHECK_DEADLOCK FALSE
