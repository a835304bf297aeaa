SPECIFICATION ReceiverSpec
CONSTANTS
    MaxMail = 2
    MaxFaults = 1
INVARIANTS
    CursorCovers
    AckedIsSettled
PROPERTIES
    MailIsSettled
CHECK_DEADLOCK FALSE
