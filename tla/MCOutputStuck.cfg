SPECIFICATION FairSpec
CONSTANTS
    Plain = {}
    Boxed = {c1}
    Backlog = 1
    WireCap = 1
    PtyCap = 1
    DrainReads = 1
    MaxChunks = 2
PROPERTIES
    PumpsEnd
CHECK_DEADLOCK FALSE
