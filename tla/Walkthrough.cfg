SPECIFICATION Spec
CONSTANTS
    Products <- MCProducts
    Upgrade <- MCUpgrade
    Proposals <- MCProposals
    Tiers = 3
    MaxRaised = 2
    OldButtons = TRUE
    Faults = TRUE
INVARIANTS
    TypeOK
    StepUpDecidedOnce
    FlagsActOnce
    PriceStaysReachable
PROPERTIES
    PriceWaitsToBeAsked
