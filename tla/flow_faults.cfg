SPECIFICATION FlowSpec
CONSTANTS
    RunId = {r1, r2}
    Approval = {a1}
    NoApproval = NoApproval
    NoRun = NoRun
    ProposalId = {p1}
    NoProposal = NoProposal
    Candidates = 1
    MaxFaults = 1
    MaxCrashes = 1
    Lanes = {"none", "worker", "agent", "enquiry", "conflict"}
SYMMETRY Symmetry
INVARIANTS
    HandedOffRunIsConfirmed
    ReplyIsTruthful
    OneExecutionPerProposal
PROPERTIES
    FiledDecisionIsFinal
CHECK_DEADLOCK FALSE
