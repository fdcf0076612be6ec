\* Each provider's records, appended in every order.
SPECIFICATION Spec
CONSTANTS
    Path = {"codex", "claude", "copilot"}
    ScopeLimit = 2
    NoVersion = NoVersion
    Version <- PipelineVersions
    Provider <- OneEach
    Tree <- PipelineTree
    Shown <- PipelineShown
    OwnCallOf <- PipelineOwnCalls
    AnswerTo <- PipelineAnswers
    Written <- PipelineWritten
    Rewritten <- NeverRewritten
    Initial <- PipelineInitial
    Git <- CwdGit
    Registered <- CwdRegistered
    Fallback <- CwdFallback
    Registrable = {}
    RegisterDuringScan = FALSE
    OwnTools = {"own"}
    MaxMetadata = 20
    Timestamps = {"noon"}
    FragmentUnits = 2
    InlineUnits = 2
    InlineField = 1
    ChunkUnits = 3
    BlockTypeLimit = 1
    MaxAppends = 2
    MaxRewrites = 0
    MaxFaults = 0
    MaxCancels = 0
    MaxRegistrations = 0
    MaxDisturbances = 2
INVARIANTS
    FieldsKept
    OwnResultsExcluded
    IndexedAsRebuilt
ACTION_CONSTRAINT
    BetweenScans
CHECK_DEADLOCK FALSE
