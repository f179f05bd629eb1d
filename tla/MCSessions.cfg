SPECIFICATION FairSpec
CONSTANTS
    Sid = {s1, s2}
    Client = {c1}
    a = a
    a_2 = a_2
    a_2_2 = a_2_2
    raw_a = raw_a
    raw_a_2 = raw_a_2
    raw_dots = raw_dots
    Name <- MCName
    NoName = NoName
    Asked <- MCAsked
    Sanitize <- MCSanitize
    Fallback = a
    Counters <- MCCounters
    Numbered <- MCNumbered
    None = None
INVARIANTS
    TypeOK
    NeverLost
    ClientsCounted
    TargetsAreDead
PROPERTIES
    ExitDetaches
CHECK_DEADLOCK FALSE
