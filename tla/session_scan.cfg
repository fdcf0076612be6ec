\* Two session files.
SPECIFICATION Spec
CONSTANTS
    Path = {"p1", "p2"}
    ScopeLimit = 2
    NoVersion = NoVersion
    Version <- ScanVersions
    Provider <- AllCodex
    Tree <- ScanTree
    Shown <- ScanShown
    OwnCallOf <- NoCalls
    AnswerTo <- NoCalls
    Written <- ScanWritten
    Rewritten <- ScanRewritten
    Initial <- ScanInitial
    Git <- CwdGit
    Registered <- CwdRegistered
    Fallback <- CwdFallback
    Registrable = {"nested"}
    RegisterDuringScan = FALSE
    OwnTools = {"own"}
    MaxMetadata = 5
    Timestamps = {"noon"}
    FragmentUnits = 2
    InlineUnits = 2
    InlineField = 1
    ChunkUnits = 3
    BlockTypeLimit = 1
    MaxAppends = 2
    MaxRewrites = 2
    MaxFaults = 1
    MaxCancels = 1
    MaxRegistrations = 1
    MaxDisturbances = 2
INVARIANTS
    SettledIsCurrent
    SettledLedger
    IndexedAsRebuilt
CHECK_DEADLOCK FALSE
