SPECIFICATION Spec
CONSTANTS
    ActionId = {a1, a2}
    NoAction = NoAction
    Target = {t1, t2}
    NoTarget = NoTarget
    Definition = {d1, d2}
    NoDefinition = NoDefinition
    Covered <- MCCovered
    Reader = {c1}
    MaxFaults = 1
    MaxCrashes = 1
    MaxChanges = 1
    MaxReconciles = 1
SYMMETRY Symmetry
INVARIANTS
    DispatchedOnceOnFile
    OneActionPerTarget
    VerifiedMeansExecuted
    RestoreUndoesVerified
    CheckStillHolds
PROPERTIES
    SurvivorStillRuns
    OutcomeIsFinal
CHECK_DEADLOCK FALSE
