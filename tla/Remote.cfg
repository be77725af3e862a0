SPECIFICATION MCSpec
CONSTANTS
    c1 = c1
    c2 = c2
    root = root
    sub = sub
    Callers = {c1, c2}
    Dirs = {root, sub}
    Root = root
    Count <- CountOf
    Own <- OwnOf
    Hostile <- HostileOf
    Size <- SizeOf
    Limits = {1, 2}
    Budget = 2
    MaxCursors = 2
    MaxTokens = 3
    m1 = m1
    m2 = m2
    home = home
    away = away
    third = third
    x = x
    y = y
    Absent = Absent
    Torn = Torn
    Foreign = Foreign
    Written = Written
    Nobody = Nobody
    Requests <- RequestsOf
    Movers = {m1, m2}
    Places = {home, away, third}
    Names = {x, y}
CHECK_DEADLOCK FALSE
SYMMETRY Interchangeable
INVARIANTS
    ListingInv
    PagesAreExact
    ConnectInv
    CallsAreHonest
    FunctionsAreRight
PROPERTIES
    NothingIsLost
