SPECIFICATION Spec
CONSTANTS
    MaxVersions = 3
    MaxLinks = 2
    MaxConfirms = 3
    Taps <- FewTaps
    Overlap = TRUE
    Faults = FALSE
CHECK_DEADLOCK FALSE
INVARIANTS
    PaidNeverPending
