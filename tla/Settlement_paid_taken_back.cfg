SPECIFICATION FairSpec
CONSTANTS
    MaxLinks = 1
    MaxAttempts = 3
    MaxEvents = 4
    Limit = 2
    MaxRepeats = 0
    AuditFails = FALSE
    SendFails = FALSE
CHECK_DEADLOCK FALSE
PROPERTIES
    PaidStaysPaid
