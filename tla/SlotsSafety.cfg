SPECIFICATION Spec
CONSTANTS
    a = a
    b = b
    ua = ua
    ma = ma
    da = da
    ub = ub
    sb = sb
    rb = rb
    Jobs <- SixJobs
    Conns = {a, b}
    ConnOf <- ConnOfJob
    KindOf <- KindOfJob
    Untimed = {a}
    PermitsPerConn = 2
    GlobalSlots = 3
INVARIANTS
    SlotsInv
    BusyConnectionLeavesRoom
