SPECIFICATION FairSpec
CONSTANTS
    Plain = {c1}
    Boxed = {}
    Backlog = 2
    WireCap = 1
    PtyCap = 2
    DrainReads = 2
    MaxChunks = 5
INVARIANTS
    TypeOK
    NeverGarbled
PROPERTIES
    MirrorsTheSession
    PumpsEnd
    CatchesUp
CHECK_DEADLOCK FALSE
