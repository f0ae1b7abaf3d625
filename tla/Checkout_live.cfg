SPECIFICATION FairSpec
CONSTANTS
    MaxVersions = 2
    MaxLinks = 2
    MaxConfirms = 3
    Taps <- AllTaps
    Overlap = FALSE
    Faults = FALSE
CHECK_DEADLOCK FALSE
INVARIANTS
    OneLinkPerOrder
    PaidNeverPending
PROPERTIES
    ConfirmLeadsToLink
