------------------------------ MODULE Coverage ------------------------------
(***************************************************************************)
(* The coverage ledger of one collection (coverage.rs): what the last      *)
(* attempt on every source came to, and whether the collection as a whole  *)
(* is accounted for.  The totals are kept incrementally, by subtracting    *)
(* the outcome that leaves and adding the one that enters.                 *)
(*                                                                         *)
(* The counters of one outcome are abstracted to "none" or "some"          *)
(* (FALSE/TRUE), so a total is the number of sources that carry the mark.  *)
(* The unsigned totals of the code panic below zero; here they are         *)
(* integers, and a negative one is visible.  An outcome names the version  *)
(* of the source's row, NoVersion when it has none.                        *)
(***************************************************************************)
EXTENDS Integers, FiniteSets, SourceRows

Outcome == [known : BOOLEAN, version : Version \cup {NoVersion},
            errors : BOOLEAN, excluded : BOOLEAN, pending : BOOLEAN]

(* The ledger holds no entry for the source. *)
NoOutcome == [known |-> FALSE, version |-> NoVersion,
              errors |-> FALSE, excluded |-> FALSE, pending |-> FALSE]

Counts == [errors : Int, excluded : Int, pending : Int]
NoCounts == [errors |-> 0, excluded |-> 0, pending |-> 0]

Tally(sources, S) ==
    [errors   |-> Cardinality({p \in S : sources[p].errors}),
     excluded |-> Cardinality({p \in S : sources[p].excluded}),
     pending  |-> Cardinality({p \in S : sources[p].pending})]

Add(t, u) == [errors   |-> t.errors + u.errors,
              excluded |-> t.excluded + u.excluded,
              pending  |-> t.pending + u.pending]
Subtract(t, u) == [errors   |-> t.errors - u.errors,
                   excluded |-> t.excluded - u.excluded,
                   pending  |-> t.pending - u.pending]

(* CollectionCoverage::default, over the sources of P. *)
NewLedger(P) ==
    [sources |-> [p \in P |-> NoOutcome], totals |-> NoCounts,
     discovery |-> NoCounts, scopedDiscovery |-> NoCounts,
     reconstructed |-> FALSE, unfinished |-> FALSE, scanFailed |-> FALSE,
     discoveryUncertain |-> FALSE, unfinishedSources |-> {}, reconciled |-> FALSE]

LedgerType(P) ==
    [sources : [P -> Outcome], totals : Counts,
     discovery : Counts, scopedDiscovery : Counts,
     reconstructed : BOOLEAN, unfinished : BOOLEAN, scanFailed : BOOLEAN,
     discoveryUncertain : BOOLEAN, unfinishedSources : SUBSET P, reconciled : BOOLEAN]

(* publish_source for every source of S at once; NoOutcome drops the entry. *)
PublishAll(l, S, new) ==
    [l EXCEPT !.unfinishedSources = @ \ S,
              !.totals = Add(Subtract(@, Tally(l.sources, S)), Tally(new, S)),
              !.sources = [p \in DOMAIN @ |-> IF p \in S THEN new[p] ELSE @[p]]]

PublishKeepsTotal(l, p, outcome) ==
    [l EXCEPT !.unfinishedSources = @ \ {p},
              !.totals = Add(@, Tally([q \in {p} |-> outcome], {p})),
              !.sources[p] = outcome]
PublishOutcome(l, p, outcome) == PublishAll(l, {p}, [q \in {p} |-> outcome])

(***************************************************************************)
(* A scan report as the ledger sees it.  `reported` are the sources that   *)
(* have an entry in the report, `outcome` the entries; a confirmed removal *)
(* is an entry whose outcome is NoOutcome.                                 *)
(***************************************************************************)
ReportType(P) ==
    [full : BOOLEAN, cancelled : BOOLEAN, complete : BOOLEAN,
     reported : SUBSET P, outcome : [P -> Outcome], discovery : Counts,
     scope : SUBSET P]

NewReport(P, full) ==
    [full |-> full, cancelled |-> FALSE, complete |-> FALSE,
     reported |-> {}, outcome |-> [p \in P |-> NoOutcome], discovery |-> NoCounts,
     scope |-> {}]

Completed(r) == ~r.cancelled /\ r.complete

(* apply(Err): nothing the run did not publish by itself is learnt. *)
ApplyError(l) ==
    [l EXCEPT !.reconstructed = FALSE, !.unfinished = TRUE, !.scanFailed = TRUE]

(* A completed full walk forgets the sources it did not report. *)
Retain(l, S) ==
    LET gone == DOMAIN l.sources \ S IN
    [l EXCEPT !.totals = Subtract(@, Tally(l.sources, gone)),
              !.sources = [p \in DOMAIN @ |-> IF p \in gone THEN NoOutcome ELSE @[p]],
              !.reconstructed = TRUE, !.unfinishedSources = {},
              !.scopedDiscovery = NoCounts, !.scanFailed = FALSE]

(* apply(Ok). *)
ApplyReport(l, r) ==
    LET marked == [l EXCEPT
            !.unfinishedSources = @ \cup r.scope,
            !.reconstructed = @ /\ ~(r.full /\ ~Completed(r)),
            !.discoveryUncertain = ~r.complete \/ (@ /\ ~(r.full /\ ~r.cancelled))]
        kept == IF r.full /\ Completed(r) THEN Retain(marked, r.reported) ELSE marked
        published == PublishAll(kept, r.reported, r.outcome)
    IN [published EXCEPT
            !.discovery = IF r.full /\ ~r.cancelled THEN r.discovery ELSE @,
            !.scopedDiscovery = IF ~r.full /\ ~r.complete /\ ~r.cancelled
                                THEN r.discovery ELSE @,
            !.unfinished = ~Completed(r),
            !.reconciled = @ \/ Completed(r)]

(* snapshot: the pending count is known only when nothing is outstanding. *)
AccountsForAll(l) ==
    /\ l.reconstructed /\ ~l.unfinished /\ ~l.scanFailed
    /\ ~l.discoveryUncertain /\ l.unfinishedSources = {}
LedgerCounts(l) ==
    LET t == Add(Add(l.totals, l.discovery), l.scopedDiscovery)
    IN [t EXCEPT !.errors = @ + IF l.scanFailed THEN 1 ELSE 0]

(* CoverageSnapshot::status. *)
StatusOf(pendingKnown, counts, reconciled) ==
    CASE ~pendingKnown /\ ~reconciled -> "building"
      [] ~pendingKnown /\ reconciled  -> "refreshing"
      [] pendingKnown /\ counts.pending > 0 -> "refreshing"
      [] pendingKnown /\ counts.pending <= 0 /\ counts.errors > 0 -> "degraded"
      [] OTHER -> "ready"
=============================================================================
