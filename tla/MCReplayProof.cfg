SPECIFICATION MCSpec
CONSTANTS
    Parts = {"offline"}
    Evidence = {"operations"}
    MaxTroubles = 2
    MaxCrashes = 1
    MaxSales = 2
    SnapshotLimit = 1
    MaxChanges = 1
    MaxFlaws = 1
    MaxLost = 1
    MaxFindings = 2
INVARIANTS ReplayProofFound
CHECK_DEADLOCK FALSE
