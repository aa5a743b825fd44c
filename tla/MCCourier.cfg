SPECIFICATION MCSpec
CONSTANTS
    Parts = {"review"}
    Evidence = {"operations"}
    MaxTroubles = 2
    MaxCrashes = 1
    MaxSales = 2
    SnapshotLimit = 1
    MaxChanges = 1
    MaxFlaws = 1
    MaxLost = 1
    MaxFindings = 1
INVARIANTS CourierAccepted
CHECK_DEADLOCK FALSE
