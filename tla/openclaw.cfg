SPECIFICATION Spec
CONSTANTS
    Approval = {a1, a2}
    Proc = {p1, p2}
    NoProc = NoProc
    NoApproval = NoApproval
    NoCopy = NoCopy
    MaxFaults = 1
    MaxResumes = 1
SYMMETRY Symmetry
INVARIANTS
    LiveIsCovered
    EvidencePrecedesExecutor
    NeverRanIsTrue
    LedgerReadable
CHECK_DEADLOCK FALSE
