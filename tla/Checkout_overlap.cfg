SPECIFICATION Spec
CONSTANTS
    MaxVersions = 2
    MaxLinks = 2
    MaxConfirms = 3
    Taps <- FewTaps
    Overlap = TRUE
    Faults = TRUE
CHECK_DEADLOCK FALSE
INVARIANTS
    OneTapOneLink
    SentMeansDelivered
    NamelessOnlyThroughEscalation
    IInv
PROPERTIES
    HeldThreadKeepsItsOrder
