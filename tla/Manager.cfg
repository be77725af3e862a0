SPECIFICATION MCSpec
CONSTANTS
    p1 = p1
    p2 = p2
    p3 = p3
    a = a
    b = b
    Tokens = {p1, p2, p3}
    NoToken = NoToken
    Connections = {a, b}
    MaxRequests = 4
    Nobody = Nobody
CHECK_DEADLOCK FALSE
INVARIANTS
    TokensAreReleased
    ConnectionsAreKnown
PROPERTIES
    DraftIsKept
    EndIsShown
    HostAnswers
