\* The registry changes while the worker runs.
SPECIFICATION Spec
CONSTANTS
    Path = {"p1", "p2"}
    ScopeLimit = 2
    NoVersion = NoVersion
    Version <- ScanVersions
    Provider <- AllCodex
    Tree <- ScanTree
    Shown <- ScanShown
    OwnCallOf <- NoCalls
    AnswerTo <- NoCalls
    Written <- ScanWritten
    Rewritten <- ScanRewritten
    Initial <- ScanInitial
    Git <- CwdGit
    Registered <- CwdRegistered
    Fallback <- CwdFallback
    Registrable = {"nested"}
    RegisterDuringScan = TRUE
    OwnTools = {"own"}
    MaxMetadata = 5
    Timestamps = {"noon"}
    FragmentUnits = 2
    InlineUnits = 2
    InlineField = 1
    ChunkUnits = 3
    BlockTypeLimit = 1
    MaxAppends = 0
    MaxRewrites = 0
    MaxFaults = 0
    MaxCancels = 0
    MaxRegistrations = 1
    MaxDisturbances = 1
INVARIANTS
    OwnershipRespected
CHECK_DEADLOCK FALSE
