SPECIFICATION Spec
CONSTANTS
    ActionId = {a1, a2}
    NoAction = NoAction
    Target = {t1, t2}
    NoTarget = NoTarget
    Definition = {d1}
    NoDefinition = NoDefinition
    Covered <- MCCovered
    Reader = {}
    MaxFaults = 1
    MaxCrashes = 0
    MaxChanges = 0
    MaxReconciles = 0
SYMMETRY Symmetry
INVARIANTS
    FailedMeansUntouched
CHECK_DEADLOCK FALSE
