SPECIFICATION Spec
CONSTANTS
    RunId = {r1, r2, r3}
    Approval = {a1}
    NoApproval = NoApproval
    NoRun = NoRun
    Candidates = 2
    MaxFaults = 2
    MaxCrashes = 2
SYMMETRY Symmetry
CONSTRAINT OneOriginalRun
INVARIANTS
    ExecutionHasDurableClaim
    SettledTruthfully
    OwnerActsOnce
PROPERTIES
    PendingMeansNeverBegun
    DurableTerminalIsFinal
    ImplementsLedger
CHECK_DEADLOCK FALSE
