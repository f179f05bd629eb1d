SPECIFICATION Spec
CONSTANTS
    Codes <- MCCodes
    MaxForwarded = 1
    Pastes = TRUE
    Typed <- MCTyped
    Places <- MCPlaces
    MaxResyncs = 1
    Rows = 2
    ScrollKept = 3
    BLOCK = 2
    CopyLines = 3
    ScrollMaxPrinted = 5
    ScrollFar = 11
    Pressed = {1}
    Matches = {2}
    Daemons = {"d1", "d2", "d3"}
    SocketClients = {"c1", "c2"}
    Old = {"d1"}
    AtOnce = 1
    GroupsSessions = {"s1", "s2"}
    GroupsHosts = {"h1", "h2"}
    HostOf <- MCHostOf
    GroupsNames = {"work"}
    GroupsClients = {"c1", "c2"}
    Most = 2
    RowsNames = {"a", "b", "c", "d"}
    SILENT_FOR = 3
    MAX_PASTE = 2
    MaxSent = 3
    NamingClients = {"c1", "c2"}
    NamingNames = {"a", "b", "c"}
    Listings <- MCListings
    Queries = {"", "a", "z"}
    PickingSizes <- MCSizes
    HINTS <- MCHints
    MaxKeys = 3
    MaxListings = 1
    MaxResizes = 1
    BellsSessions = {"x", "y"}
    BellsClients = {"c1"}
    Called <- MCCalled
    Terminals = {"c1"}
    BellsNames = {"a", "b", "c"}
    BellsBACKLOG = 1
    Kinds = {"bell"}
    MaxBells = 2
    MaxUnderway = 1
    MaxAttaches = 1
    MaxRenames = 1
    BellsMaxTroubles = 1
    Commands = {"p", "q"}
    WatchingNames = {"box", "me@box", "self"}
    MachineOf <- MCMachineOf
    WatchingHere = "here"
    WatchingListed = {"box"}
    Keys = {"notify"}
    MaxRuns = 2
    WatchingMaxTroubles = 1
    PhoneScreenSizes = {1, 2}
    PhoneScreenBACKLOG = 2
    PhoneScreenMaxPrinted = 2
    MaxTurns = 1
    MaxDesk = 1
    MaxLost = 1
    PhoneKeysCallers = {"p1", "p2"}
    PhoneKeysMachines = {"m1", "m2"}
    HostKeys = {"k1", "k2"}
    PhoneKeysMaxCalls = 3
    MaxKills = 1
    MaxCuts = 1
    PhoneReachCallers = {"c1", "c2"}
    Accounts = {"u1", "u2"}
    AgentKeys = 2
    FROM_AN_AGENT = 1
    MAX_AUTH_TRIES = 3
    PhoneReachMaxCalls = 3
    PhoneReachMaxTroubles = 1
    CheckpointHosts = {"here", "there"}
    CheckpointHere = "here"
    CheckpointNames = {"a", "b"}
    MaxPid = 2
INVARIANTS
    TypeOK
    SurfacesFollowTheMode
    WindowIsTheHistory
    StoppedMeansGone
    InputIsHeard
    NamesCatchUp
    PhoneIsTold
PROPERTIES
    EnterGoesWhereItPoints
    OnlyAHandMovesIt
    NothingGoesUnsaid
CHECK_DEADLOCK FALSE
