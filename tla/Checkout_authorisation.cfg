SPECIFICATION Spec
CONSTANTS
    MaxVersions = 3
    MaxLinks = 1
    MaxConfirms = 2
    Taps <- FewTaps
    Overlap = FALSE
    Faults = FALSE
CHECK_DEADLOCK FALSE
PROPERTIES
    LinkIsForTappedOrder
