SPECIFICATION FairSpec
CONSTANTS
    m1 = m1
    m2 = m2
    m3 = m3
    Tasks <- ThreeMessages
    None = None
    Lease = 3
    Period = 1
    Attempts = 2
INVARIANTS
    MutualExclusion
PROPERTIES
    Serial
    ReleasesOnlyItsOwn
    DeadOwnersLockExpires
