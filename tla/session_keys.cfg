\* A call whose first argument is empty.
SPECIFICATION Spec
CONSTANTS
    Path = {"codex", "claude", "copilot"}
    ScopeLimit = 2
    NoVersion = NoVersion
    Version <- PipelineVersions
    Provider <- OneEach
    Tree <- PipelineTree
    Shown <- PipelineShown
    OwnCallOf <- PipelineOwnCalls
    AnswerTo <- PipelineAnswers
    Written <- EditWritten
    Rewritten <- NeverRewritten
    Initial <- ListInitial
    Git <- CwdGit
    Registered <- CwdRegistered
    Fallback <- CwdFallback
    Registrable = {}
    RegisterDuringScan = FALSE
    OwnTools = {"own"}
    MaxMetadata = 20
    Timestamps = {"noon"}
    FragmentUnits = 2
    InlineUnits = 2
    InlineField = 1
    ChunkUnits = 3
    BlockTypeLimit = 1
    MaxAppends = 3
    MaxRewrites = 0
    MaxFaults = 0
    MaxCancels = 0
    MaxRegistrations = 0
    MaxDisturbances = 3
INVARIANTS
    FieldsKept
ACTION_CONSTRAINT
    BetweenScans
CHECK_DEADLOCK FALSE
