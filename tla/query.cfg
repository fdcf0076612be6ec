\* Two searches on different generations share the cache and two permits; the
\* pressure rises and falls.
SPECIFICATION FairSpec
CONSTANTS
    t1 = t1
    t2 = t2
    p1 = p1
    p2 = p2
    p3 = p3
    p4 = p4
    Term = {t1, t2}
    Posting = {p1, p2, p3, p4}
    Reader = {r1, r2}
    View <- TwoViews
    Permits = 2
    Candidates = 3
    TermBytes = 2
    CacheBytes = 3
    MaxGeneration = 1
    MaxQueries = 2
    MaxFlips = 2
    MaxRetrievals = 1
INVARIANTS
    TypeOK
    ListsOfOwnSnapshot
    CacheAccounted
    PermitsHeld
    NoLostWakeup
PROPERTY EveryoneServed
CHECK_DEADLOCK FALSE
