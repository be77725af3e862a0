SPECIFICATION FairSpec
CONSTANTS
    r1 = r1
    r2 = r2
    r3 = r3
    c1 = c1
    c2 = c2
    k1 = k1
    k2 = k2
    p1 = p1
    p2 = p2
    NoConfig = NoConfig
    NoCall = NoCall
    Free = Free
    Shutdown = Shutdown
    Clients = {r1, r2}
    Conns = {c1}
    Configs = {k1, k2}
    Providers = {p1}
    ProviderOf <- SameProvider
    Kinds = {"startTransfer", "connect", "disconnect"}
    MaxDescriptors = 1
    MaxGeneration = 2
CHECK_DEADLOCK FALSE
PROPERTIES
    AdminsAnswer
