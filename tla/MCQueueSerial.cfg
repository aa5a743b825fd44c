SPECIFICATION Spec
CONSTANTS
    u1 = u1
    u2 = u2
    p1 = p1
    p2 = p2
    p3 = p3
    d1 = d1
    Rows = {r1, r2}
    Uids = {u1, u2}
    Devices = {d1}
    DeviceOf <- MCDeviceOf
    Payloads = {p1, p2}
    UidOf <- MCUidOf
    Empty = {}
    Workers = {w1}
    None = None
    Requests = {"capture", "import", "pending", "validate", "replay", "retry", "mark_duplicate", "merge_duplicate", "mark_replayed", "cancel", "fail"}
    Limits = {1, 2}
    StaleForms = TRUE
    MaxOrders = 2
SYMMETRY Symmetry
INVARIANTS OneOrderPerSale
