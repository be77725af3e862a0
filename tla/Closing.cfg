SPECIFICATION ClosingSpec
CONSTANTS
    g1 = g1
    g2 = g2
    g3 = g3
    Guards = {g1, g2, g3}
    Call = g1
    MaxLength = 2
    MaxBuffer = 2
CHECK_DEADLOCK FALSE
INVARIANTS
    ClosingInv
    RetiredIsQuiet
PROPERTIES
    ImplementsSink
    ImplementsQuiesce
    EveryWriteEnds
    RetiredStreamsEnd
