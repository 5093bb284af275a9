SPECIFICATION ServicesSpec
CONSTANTS
    Workers = {"w1"}
    Writer = "z"
    MaxTurns = 2
    MaxStops = 1
    MaxAuditFailures = 1
    Callers = {"a1", "a2", "b1"}
    Processes = {"A", "B"}
    ProcessOf <- TwoAndOneProcesses
    Dirs = {"lock"}
    StaleRaces = FALSE
    SlowWriters = {}
    MayStop = {"A", "B"}
    Nobody = "nobody"
    Garbled = "garbled"
    NoLock = "none"
    PlanIds = {"a", "b", "integrate"}
    Selections <- UpToThreeSources
    SourceIds = {"s1", "s2", "s3"}
    Manifests = {"s2"}
    OwnedPaths <- SourcePaths
    Files <- SourceFiles
    MaxWorkerTasks = 2
    TextLines = {"x", "y"}
    MaxDiffLines = 5
    MaxCells = 16
    ContextLines = 1
    MaxRendered = 5
    OutputLimit = 3
    MaxChunks = 3
    Configs <- ThreeServers
    OAuthServer = "web"
    RemoteTools = {"t1"}
    ReadOnlyTools = {"t1"}
    MaxTools = 1
    MaxUpdates = 3
    MaxCallbacks = 2
    MaxSaveFailures = 1
INVARIANTS
    
    ApprovalsAreSound
    LeasesAreReal
    PlansAreSound
    DiffIsFaithful
    ExecutionsAreContained
    
CHECK_DEADLOCK FALSE
