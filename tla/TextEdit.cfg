SPECIFICATION Spec
CONSTANTS
    s1 = s1
    s2 = s2
    t1 = t1
    t2 = t2
    p = p
    Nobody = Nobody
    NoToken = NoToken
    Calls = {s1, s2}
    Tokens = {t1, t2}
    Pieces = {p}
    MaxPieces = 1
    MaxPreviews = 2
SYMMETRY Interchangeable
INVARIANTS
    PreviewFollowsSaves
PROPERTIES
    NoLostUpdate
