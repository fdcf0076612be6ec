\* One path with every kind of content; the process ends once; two clients.
SPECIFICATION Spec
CONSTANTS
    p1 = p1
    v1 = v1
    NoVersion = NoVersion
    Path = {p1}
    Version = {v1}
    ScopeLimit = 1
    Edits <- OneOfEach
    MaxEdits = 1
    MaxFaults = 1
    MaxForces = 0
    MaxAttaches = 2
    MaxLeases = 2
    MaxGits = 1
    MaxCrashes = 1
    MaxReads = 0
    MaxRuns = 2
INVARIANTS
    NoStaleRead
    LedgerMatchesRows
    TotalsMatch
    PublicationConfirmed
    GitNotLost
CHECK_DEADLOCK FALSE
