SPECIFICATION Spec
CONSTANTS
    Updaters = {"u1"}
    Channel <- AllStable
    Platforms = {"linux"}
    Keyed = {TRUE}
    OldBuilds = {}
    MaxBuild = 2
    MaxSessions = 1
    MaxTroubles = 1
INVARIANTS StartedAgain
CHECK_DEADLOCK FALSE
