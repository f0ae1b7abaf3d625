SPECIFICATION FairSpec
CONSTANTS
    Batches <- MCBatches
    Events = {"e1"}
    Anonymous = {"e1"}
    Bubbles = 2
    SendAttempts = 2
    MaxDeliveries = 2
CHECK_DEADLOCK FALSE
INVARIANTS
    EnqueuedOnce
    AnsweredIsAccountedFor
    KeptClaimWasSent
PROPERTIES
    Reads
    AnsweredIsHandled
