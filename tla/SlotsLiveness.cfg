SPECIFICATION FairSpec
CONSTANTS
    a = a
    b = b
    ua = ua
    ma = ma
    da = da
    ub = ub
    sb = sb
    rb = rb
    Jobs <- FourJobs
    Conns = {a, b}
    ConnOf <- ConnOfJob
    KindOf <- KindOfJob
    Untimed = {a}
    PermitsPerConn = 2
    GlobalSlots = 2
INVARIANTS
    GridlockTakesEverySlot
PROPERTIES
    EveryJobEnds
    ClosedDrains
