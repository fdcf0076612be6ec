\* One front end whose owner dies or drops it once.
SPECIFICATION FairSpec
CONSTANTS
    o1 = o1
    o2 = o2
    o3 = o3
    c1 = c1
    c2 = c2
    q1 = q1
    q2 = q2
    Process = {o1, o2, o3}
    Client = {c1}
    Port = {q1, q2}
    SpawnEvery = 2
    MaxFaults = 1
PROPERTIES
    FrontendRecovers
