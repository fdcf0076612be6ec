\* Two paths, one change, one fault and one search overlapping three runs.
SPECIFICATION Spec
CONSTANTS
    p1 = p1
    p2 = p2
    v1 = v1
    NoVersion = NoVersion
    Path = {p1, p2}
    Version = {v1}
    ScopeLimit = 1
    Edits <- TextEdits
    MaxEdits = 1
    MaxFaults = 1
    MaxForces = 0
    MaxAttaches = 1
    MaxLeases = 1
    MaxGits = 0
    MaxCrashes = 0
    MaxReads = 1
    MaxRuns = 3
INVARIANTS
    TypeOK
    NothingForgotten
PROPERTIES
    CommitsAreUncertain
    AnswersFresh
    ReadyIsComplete
CHECK_DEADLOCK FALSE
