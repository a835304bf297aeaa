SPECIFICATION TurnsSpec
CONSTANTS
    Cap = 2
INVARIANTS
    OneModelCall
    TalkIsAlone
    BudgetKept
PROPERTIES
    BothGetTurns
CHECK_DEADLOCK FALSE
