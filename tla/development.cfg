SPECIFICATION FairSpec
CONSTANTS
    p1 = p1
    p2 = p2
    Plan = {p1, p2}
    NoPlan = NoPlan
    Asks <- MCAsks
    MaxFaults = 1
    MaxDeaths = 2
INVARIANTS
    OneJournaledDevelopment
    OneWorkerAtATime
    CancelledHasStopped
PROPERTIES
    DelegationEnds
CHECK_DEADLOCK FALSE
