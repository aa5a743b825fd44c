SPECIFICATION FairPosSpec
CONSTANTS
    u1 = u1
    u2 = u2
    p1 = p1
    p2 = p2
    p3 = p3
    d1 = d1
    Uids = {u1}
    Devices = {d1}
    DeviceOf <- MCDeviceOf
    Payloads = {p1, p2}
    UidOf <- MCUidOf
    Empty = {}
    Rows = {r1}
    Workers = {w1}
    Passes = {k1}
    SellDuringPass = FALSE
    Requests = {"capture"}
    Limits = {1}
    StaleForms = FALSE
    None = None
    MaxOrders = 1
PROPERTY EventuallyBooked
