\* Two clients, three processes, one port, one crash or cut connection; every
\* attempt may start a process.
SPECIFICATION FairSpec
CONSTANTS
    o1 = o1
    o2 = o2
    o3 = o3
    c1 = c1
    c2 = c2
    q1 = q1
    q2 = q2
    Process = {o1, o2, o3}
    Client = {c1, c2}
    Port = {q1}
    SpawnEvery = 1
    MaxFaults = 1
PROPERTIES ClientsServed OwnerLeaves
INVARIANTS
    TypeOK
    OneOwner
    ServingIsPublished
    AcceptedNotAbandoned
    ServedByChosen
