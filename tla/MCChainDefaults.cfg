SPECIFICATION MCSpec
CONSTANTS
    Parts = {"chain"}
    Evidence = {"operations"}
    MaxTroubles = 2
    MaxCrashes = 1
    MaxSales = 2
    SnapshotLimit = 1
    MaxChanges = 1
    MaxFlaws = 1
    MaxLost = 1
    MaxFindings = 2
INVARIANTS DocumentedDefaultsPass
CHECK_DEADLOCK FALSE
