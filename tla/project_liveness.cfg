SPECIFICATION FairSpec
CONSTANTS
    p1 = p1
    v1 = v1
    NoVersion = NoVersion
    Path = {p1}
    Version = {v1}
    ScopeLimit = 1
    Edits <- TextEdits
    MaxEdits = 1
    MaxFaults = 1
    MaxForces = 1
    MaxAttaches = 1
    MaxLeases = 1
    MaxGits = 0
    MaxCrashes = 0
    MaxReads = 0
    MaxRuns = 20
PROPERTY Converges
CHECK_DEADLOCK FALSE
