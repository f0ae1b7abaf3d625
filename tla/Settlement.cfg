SPECIFICATION FairSpec
CONSTANTS
    MaxLinks = 1
    MaxAttempts = 2
    MaxEvents = 4
    Limit = 2
    MaxRepeats = 1
    AuditFails = TRUE
    SendFails = TRUE
VIEW View
CHECK_DEADLOCK FALSE
INVARIANTS
    TypeOK
    ReceiptOnce
    EscalatesOnlyWhenDeclined
PROPERTIES
    TakenBackOnlyByAnOlderRead
    PaymentIsRecorded
    PaymentIsReceipted
