SPECIFICATION FairSpec
CONSTANTS
    Host = {h1, h2}
    Kept = {h1}
    Conn = {r1}
    Poller = Poller
    Task = {t1, t2, t3}
    None = None
    Nets = {"up", "away"}
    Retries = 1
    MaxEdits = 1
INVARIANTS
    TypeOK
PROPERTIES
    KeptIsLeftAlone
    ListIsFollowed
    GivenUpOn
CHECK_DEADLOCK FALSE
