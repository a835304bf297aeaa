SPECIFICATION FairFlowSpec
CONSTANTS
    RunId = {r1, r2}
    Approval = {a1}
    NoApproval = NoApproval
    NoRun = NoRun
    ProposalId = {p1}
    NoProposal = NoProposal
    Candidates = 1
    MaxFaults = 0
    MaxCrashes = 2
    Lanes = {"develop", "worker", "agent", "enquiry"}
CHECK_DEADLOCK FALSE
PROPERTIES
    ClaimedAgentRunSettles
