SPECIFICATION Spec
CONSTANTS
    RowId = {i1, i2}
    Proc = {p1, p2}
    NoProc = NoProc
    NoRow = NoRow
    Foreign = {f1}
    MaxFaults = 2
    MaxDrifts = 2
SYMMETRY Symmetry
INVARIANTS
    NothingRepeated
    SettledIsLive
PROPERTIES
    DeployedIsTested
CHECK_DEADLOCK FALSE
