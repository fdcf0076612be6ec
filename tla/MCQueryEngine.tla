--------------------------- MODULE MCQueryEngine ----------------------------
(* An instance of QueryEngine.  Its two contents of the index hold, between *)
(* them, a list that is cached, one that evicts it, one too long to cache,  *)
(* one too frequent to load and two that together are too many hits.        *)
EXTENDS QueryEngine, TLC
CONSTANTS t1, t2, p1, p2, p3, p4
TwoViews == {t1 :> {p1, p2} @@ t2 :> {p3, p4},
             t1 :> {p1, p2, p3} @@ t2 :> {p1, p2, p3, p4}}
=============================================================================
