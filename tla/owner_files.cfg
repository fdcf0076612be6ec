\* The store: two sources, with replacements, appends with checkpoints,
\* suppressions, verifications and removals in every order.  The cache and
\* the registry: failures, damages and ends of processes at any step.
SPECIFICATION FilesSpec
CONSTANTS
    k1 = k1
    k2 = k2
    w1 = w1
    Key = {k1, k2}
    Collection = {"project"}
    Home <- OneHome
    Term = {w1}
    Text = {{}, {w1}}
    Version = {"v1"}
    MaxWrites = 1
    MaxOffset = 1
    MaxGeneration = 5
    Proc = {"a", "b", "c"}
    Root = {"main", "tree"}
    OwnerKey = {"git", "plain"}
    Verified <- MCVerified
    MaxTries = 1
    MaxErrors = 2
    SourceVersion = {"v1", "v2", "v3"}
    Size <- MCSize
    MaxBytes = 3
    MaxEntries = 2
    MaxTime = 2
    MaxFaults = 3
INVARIANTS
    TypeOK
    SourceStatisticsMatch
    StatisticsMatch
    CompactNotRefused
    MatchIdNeverRebinds
    RememberedNotLost
    CommitsWhole
PROPERTIES
    CheckpointsAdvance
    ImplementsVersionedIndex
SYMMETRY KeySymmetry
