SPECIFICATION MCSpec
CONSTANTS
    Staff = {w1, w2}
    PosOrders = {p1}
    Clerk = clerk
    Job = job
    MaxRecords = 2
    MaxStops = 1
    Orders = {o1}
    NoOrder = none
    MaxAttempts = 2
    MaxQueued = 1
    MaxHandled = 1
INVARIANTS OrdersTypeOK AwardedOnce PosOrderLinked  
INVARIANTS OneOpenException BreachExplained
    
CHECK_DEADLOCK FALSE
