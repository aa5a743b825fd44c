SPECIFICATION PosSpec
CONSTANTS
    u1 = u1
    u2 = u2
    p1 = p1
    p2 = p2
    p3 = p3
    d1 = d1
    Uids = {u1}
    Devices = {d1}
    DeviceOf <- MCDeviceOf
    Payloads = {p1, p2}
    UidOf <- MCUidOf
    Empty = {}
    Rows = {r1, r2}
    Workers = {w1, w2}
    Passes = {k1, k2}
    SellDuringPass = FALSE
    Requests = {"capture", "pending"}
    Limits = {1}
    StaleForms = FALSE
    None = None
    MaxOrders = 1
SYMMETRY PosSymmetry
INVARIANTS PosTypeOK NothingLost
