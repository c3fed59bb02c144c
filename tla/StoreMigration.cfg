SPECIFICATION FairSpec
CONSTANTS
    m1 = m1
    m2 = m2
    Processes = {m1, m2}
    Offers <- OfferedGoals
    MaxCrashes = 1
    Originals <- Paths
INVARIANTS
    StoreIsOneVersion
    CallsTellTheTruth
    ReplacementIsNoticed
PROPERTIES
    ForwardOnly
    StoreIsMigrated
