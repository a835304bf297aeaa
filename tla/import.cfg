SPECIFICATION ImportSpec
CONSTANTS
    MaxMail = 2
    MaxFaults = 1
    MaxCrashes = 1
    MaxStarts = 2
    MaxReopens = 1
INVARIANTS
    CompletedImportIsWhole
    CoverageIsReal
PROPERTIES
    HeldImportStands
    ImportEnds
CHECK_DEADLOCK FALSE
