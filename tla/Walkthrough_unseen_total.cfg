SPECIFICATION Spec
CONSTANTS
    Products <- MCProducts
    Upgrade <- MCUpgrade
    Proposals <- MCProposals
    Tiers = 3
    MaxRaised = 1
    OldButtons = FALSE
    Faults = TRUE
INVARIANTS
    PayFollowsTotal
