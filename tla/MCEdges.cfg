SPECIFICATION Spec
CONSTANTS
    Attachments <- MCAttachments
    KEYBOARD_STACK = 1
    MAX_CSI = 2
    MAX_OSC = 3
    OutputPlain = {}
    Boxed = {"c1"}
    Backlog = 1
    WireCap = 2
    PtyCap = 1
    DrainReads = 1
    MaxChunks = 3
    Texts <- MCTexts
    Total = 3
    Rows = 2
    Cols = 3
    BLOCK = 2
    COPY_LINES = 2
    FASTER_EVERY = 1
    FASTEST = 2
    SelectingFar = 7
    MaxPresses = 2
    MaxAsks = 2
    Spellings = {"plain", "kitty", "xterm", "alternates"}
    Readers = {"popup", "prompt", "waiting"}
    Hands <- MCHands
    SpellingMaxHands = 2
    TargetsHosts <- MCHosts
    TargetsHere = "here"
    Nicer <- MCNicer
    NodeOf <- MCNodeOf
    Old = {}
    TargetsNames = {"api"}
    Words <- MCWords
    MAX_QUERIES = 2
    MaxBorn = 2
    Commands <- MCCommands
    Ids <- MCIds
    Unplain = {"|", "review it"}
    Subcommands = {"mcp"}
    ResumingMaxHands = 3
    MaxRestores = 3
    MAX_FRAME = 2
    FramingTags = {0, 1}
    MaxFrames = 2
    ParkingSessions = {"s1", "s2", "t"}
    HostOf <- MCHostOf
    CAPACITY = 1
    MaxPrinted = 1
    MaxLeaves = 3
    ParkingMaxTroubles = 1
    KEEP = 1
    Clients = {"c1", "c2"}
    UploadingSessions = {"s1", "s2"}
    UploadingNames = {"a", "b"}
    UploadingAttached <- MCAttached
    StartsAs <- MCStartsAs
    Clipboards <- MCClipboards
    WANTED <- MCWanted
    MAX_PASTE = 2
    UPLOADS = 1
    Presses = {1, 2}
    MaxRenames = 1
    UploadingMaxTroubles = 1
    Updaters = {"u1"}
    Channel <- MCChannel
    Platforms = {"linux", "mac"}
    Keyed = {TRUE}
    OldBuilds = {}
    MaxBuild = 2
    MaxSessions = 1
    UpdatingMaxTroubles = 1
    Managers = {"launchd", "systemd", "openrc", "sysvinit", "rc"}
    MaxCommands = 3
    ServiceMaxTroubles = 2
INVARIANTS
    TypeOK
    StreamIsFollowed
    PictureIsOnItsWay
    ReadAsPressed
    NamesAreNotGuessed
    WorkComesBack
    CarriedWhole
PROPERTIES
    CopiedIsLit
    NewBinaryIsRun
CHECK_DEADLOCK FALSE
