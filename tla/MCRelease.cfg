SPECIFICATION MCSpec
CONSTANTS
    Parts = {"gate", "chain", "offline", "review"}
    Evidence = {"operations"}
    MaxTroubles = 2
    MaxCrashes = 1
    MaxSales = 2
    SnapshotLimit = 1
    MaxChanges = 1
    MaxFlaws = 1
    MaxLost = 1
    MaxFindings = 2
INVARIANTS ReleaseTypeOK PromotionEarned CleanRunPromoted
INVARIANTS BundleFresh BundleHonest GivenChainPasses  SignoffEarned
PROPERTIES GateKept
CHECK_DEADLOCK FALSE
