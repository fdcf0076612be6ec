--------------------------- MODULE ReconcileLemmas ---------------------------
(***************************************************************************)
(* Facts about the operators the reconciliations of a project and of its   *)
(* sessions are built from: scopes, the controller's methods, the sources  *)
(* table and the ledger.                                                   *)
(***************************************************************************)
EXTENDS Controller, Coverage, FiniteSetTheorems, TLAPS

(* Scopes ******************************************************************)

(* Merging and queueing yield scopes, and never the empty queue. *)
LEMMA ScopeTypes ==
    /\ NoScope \in Scope /\ Full \in Scope /\ Full # NoScope
    /\ \A S \in SUBSET Path : Sources(S) \in Scope /\ Sources(S) # NoScope
    /\ \A p \in Path : ~Covers(NoScope, p) /\ Covers(Full, p)
  BY DEF Scope, NoScope, Full, Sources, Covers

(* A request beyond the limit still covers what was asked for. *)
LEMMA BoundedCovers ==
  ASSUME NEW s \in Scope
  PROVE  /\ Bounded(s) \in Scope
         /\ s # NoScope => Bounded(s) # NoScope
         /\ \A p \in Path : Covers(s, p) => Covers(Bounded(s), p)
  BY DEF Scope, Bounded, Full, NoScope, Covers

(* Scope::merge covers what either operand covers. *)
LEMMA MergeCovers ==
  ASSUME NEW a \in Scope, NEW b \in Scope
  PROVE  /\ Merge(a, b) \in Scope /\ Merge(a, b) # NoScope
         /\ \A p \in Path : Covers(a, p) \/ Covers(b, p) => Covers(Merge(a, b), p)
  <1>1. CASE a.kind = "sources" /\ b.kind = "sources"
    <2> DEFINE u == Sources(a.paths \cup b.paths)
    <2>1. u \in Scope /\ u # NoScope
      <3>1. a.paths \cup b.paths \in SUBSET Path
        BY DEF Scope, NoScope, Full, Sources
      <3> QED BY <3>1, ScopeTypes
    <2>2. \A p \in Path : Covers(a, p) \/ Covers(b, p) => Covers(u, p)
      BY <1>1 DEF Scope, Covers, Sources
    <2>3. Merge(a, b) = Bounded(u)
      BY <1>1 DEF Merge
    <2> HIDE DEF u
    <2> QED BY <2>1, <2>2, <2>3, BoundedCovers
  <1>2. CASE ~(a.kind = "sources" /\ b.kind = "sources")
    BY <1>2, ScopeTypes DEF Merge
  <1> QED BY <1>1, <1>2

(* Queueing keeps what was pending and adds what is asked for. *)
LEMMA QueueCovers ==
  ASSUME NEW a \in Scope, NEW s \in Scope
  PROVE  /\ Queue(a, s) \in Scope
         /\ s # NoScope => Queue(a, s) # NoScope
         /\ \A p \in Path : Covers(a, p) \/ Covers(s, p) => Covers(Queue(a, s), p)
  <1>1. CASE a = NoScope
    BY <1>1, BoundedCovers, ScopeTypes DEF Queue
  <1>2. CASE a # NoScope
    <2>1. Queue(a, s) = Merge(a, Bounded(s))
      BY <1>2 DEF Queue
    <2> QED BY <2>1, BoundedCovers, MergeCovers
  <1> QED BY <1>1, <1>2

(* The controller **********************************************************)

(* Controller::new yields a controller. *)
LEMMA NewControllerType == NewController \in ControllerType
  BY ScopeTypes DEF NewController, ControllerType, Ticket, NoTicket

(* The fields the controller counts with, and their successors. *)
LEMMA Successors ==
  ASSUME NEW c \in ControllerType
  PROVE  /\ c.observed + 1 \in Nat /\ c.publication + 1 \in Nat /\ c.nextRun + 1 \in Nat
         /\ c.pending \in Scope /\ c.gitPending \in BOOLEAN
  BY DEF ControllerType

(* Controller::observe keeps the controller's type. *)
LEMMA ObserveType ==
  ASSUME NEW c \in ControllerType, NEW s \in Scope, NEW g \in BOOLEAN
  PROVE  Observe(c, s, g) \in ControllerType
  <1> DEFINE o == c.observed + 1
             b == c.gitPending \/ g
             q == Queue(c.pending, s)
  <1>1. o \in Nat /\ q \in Scope /\ b \in BOOLEAN
    BY Successors, QueueCovers
  <1>2. Observe(c, s, g) = [c EXCEPT !.observed = o, !.gitPending = b, !.pending = q]
    BY DEF Observe
  <1> HIDE DEF o, b, q
  <1> QED BY <1>1, <1>2 DEF ControllerType

(* set_watch_error keeps it. *)
LEMMA SetWatchErrorType ==
  ASSUME NEW c \in ControllerType, NEW e \in BOOLEAN
  PROVE  SetWatchError(c, e) \in ControllerType
  <1> DEFINE n == c.publication + 1
  <1>1. n \in Nat
    BY Successors
  <1>2. \/ SetWatchError(c, e) = c
        \/ SetWatchError(c, e) = [c EXCEPT !.watchError = e, !.publication = n]
    BY DEF SetWatchError
  <1> HIDE DEF n
  <1> QED BY <1>1, <1>2 DEF ControllerType

(* begin issues a ticket and keeps the controller's type. *)
LEMMA BeginType ==
  ASSUME NEW c \in ControllerType
  PROVE  NextTicket(c) \in Ticket /\ Begin(c) \in ControllerType
  <1> DEFINE t == NextTicket(c)
             r == c.nextRun + 1
             n == c.publication + 1
  <1>1. r \in Nat /\ n \in Nat /\ NoScope \in Scope
    BY Successors, ScopeTypes
  <1>2. t \in Ticket
    BY <1>1 DEF NextTicket, ControllerType, Ticket
  <1>3. Begin(c) = [c EXCEPT !.nextRun = r, !.publication = n, !.active = t,
                             !.pending = NoScope, !.gitPending = FALSE]
    BY DEF Begin
  <1> HIDE DEF t, r, n
  <1>4. Begin(c) \in ControllerType
    BY <1>1, <1>2, <1>3 DEF ControllerType
  <1> QED BY <1>2, <1>4 DEF t

(* Run::widen yields a ticket the controller can hold. *)
LEMMA WidenType ==
  ASSUME NEW c \in ControllerType, NEW t \in Ticket, NEW s \in Scope
  PROVE  /\ WidenTicket(t, s) \in Ticket
         /\ SetActive(c, WidenTicket(t, s)) \in ControllerType
  <1>1. Merge(t.scope, s) \in Scope
    BY MergeCovers DEF Ticket
  <1>2. WidenTicket(t, s) \in Ticket
    BY <1>1 DEF WidenTicket, Ticket
  <1> QED BY <1>2 DEF SetActive, ControllerType

(* Marking the scope and publishing a source keep the controller's type. *)
LEMMA InvalidatedType ==
  ASSUME NEW c \in ControllerType, NEW t \in Ticket
  PROVE  Invalidated(c, t) \in ControllerType /\ Published(c, t) \in ControllerType
  <1> DEFINE n == c.publication + 1
             o == t.observed
  <1>1. n \in Nat /\ o \in Nat
    BY Successors DEF Ticket
  <1>2. /\ Invalidated(c, t) \in {c, [c EXCEPT !.safe = o, !.publication = n]}
        /\ Published(c, t) \in {c, [c EXCEPT !.publication = n]}
    BY DEF Invalidated, Published
  <1> HIDE DEF n, o
  <1>3. [c EXCEPT !.safe = o, !.publication = n] \in ControllerType
    BY <1>1 DEF ControllerType
  <1>4. [c EXCEPT !.publication = n] \in ControllerType
    BY <1>1 DEF ControllerType
  <1> QED BY <1>2, <1>3, <1>4

(* finish keeps it, whatever the result of the run. *)
LEMMA FinishType ==
  ASSUME NEW c \in ControllerType, NEW t \in Ticket,
         NEW failed \in BOOLEAN, NEW completed \in BOOLEAN
  PROVE  Finish(c, t, failed, completed) \in ControllerType
  <1> DEFINE s == IF failed THEN Full ELSE t.scope
             q == Queue(c.pending, s)
             n == c.publication + 1
             g == c.gitPending \/ t.git
             done == [c EXCEPT !.active = NoTicket, !.publication = n]
  <1>1. q \in Scope /\ n \in Nat /\ g \in BOOLEAN
    BY QueueCovers, ScopeTypes, Successors DEF Ticket
  <1>2. NoTicket \in Ticket
    BY ScopeTypes DEF NoTicket, Ticket
  <1>3. Finish(c, t, failed, completed) \in
            {done, [done EXCEPT !.pending = q, !.gitPending = g, !.safe = 0]}
    <2>1. done.pending = c.pending /\ done.gitPending = c.gitPending
      BY DEF ControllerType
    <2> QED BY <2>1 DEF Finish
  <1> HIDE DEF q, n, g
  <1>4. done \in ControllerType
    BY <1>1, <1>2 DEF ControllerType
  <1> HIDE DEF done
  <1>5. [done EXCEPT !.pending = q, !.gitPending = g, !.safe = 0] \in ControllerType
    BY <1>1, <1>4 DEF ControllerType
  <1> QED BY <1>3, <1>4, <1>5

(* The sources table *******************************************************)

(* Every transaction of store.rs leaves a table of rows. *)
LEMMA RowTypes ==
  ASSUME NEW r \in [Path -> Row], NEW p \in Path, NEW v \in Version
  PROVE  /\ NoRow \in Row
         /\ ReplaceRow(r, p, v) \in [Path -> Row]
         /\ VerifyRow(r, p) \in [Path -> Row]
         /\ RemoveRow(r, p) \in [Path -> Row]
         /\ InvalidateRow(r, p) \in [Path -> Row]
         /\ InvalidateRows(r) \in [Path -> Row]
         /\ Versions(r) \in [Path -> Version \cup {NoVersion}]
         /\ Searchable(r) \in [Path -> Version \cup {NoVersion}]
  BY DEF Row, NoRow, ReplaceRow, VerifyRow, RemoveRow, InvalidateRow, InvalidateRows,
         Versions, Searchable, Present

(* The ledger **************************************************************)

(* A tally counts sources, so it is a total. *)
LEMMA TallyType ==
  ASSUME NEW f, NEW S \in SUBSET Path
  PROVE  Tally(f, S) \in Counts
  <1>1. \A T \in SUBSET Path : Cardinality(T) \in Int
    <2> TAKE T \in SUBSET Path
    <2> QED BY ScopesAssumption, FS_Subset, FS_CardinalityType
  <1>2. /\ {p \in S : f[p].errors} \in SUBSET Path
        /\ {p \in S : f[p].excluded} \in SUBSET Path
        /\ {p \in S : f[p].pending} \in SUBSET Path
    OBVIOUS
  <1> QED BY <1>1, <1>2 DEF Tally, Counts

(* Totals are closed under the ledger's additions and subtractions. *)
LEMMA CountsType ==
  ASSUME NEW t \in Counts, NEW u \in Counts
  PROVE  Add(t, u) \in Counts /\ Subtract(t, u) \in Counts /\ NoCounts \in Counts
  BY DEF Add, Subtract, Counts, NoCounts

(* The ledger starts out well formed. *)
LEMMA NewLedgerType == NewLedger(Path) \in LedgerType(Path)
  BY DEF NewLedger, LedgerType, NoOutcome, Outcome, NoCounts, Counts

(* Publishing outcomes of any set of sources keeps the ledger's type. *)
LEMMA PublishAllType ==
  ASSUME NEW l \in LedgerType(Path), NEW S \in SUBSET Path, NEW new,
         \A p \in S : new[p] \in Outcome
  PROVE  PublishAll(l, S, new) \in LedgerType(Path)
  <1>1. Add(Subtract(l.totals, Tally(l.sources, S)), Tally(new, S)) \in Counts
    BY TallyType, CountsType DEF LedgerType
  <1>2. [p \in DOMAIN l.sources |-> IF p \in S THEN new[p] ELSE l.sources[p]]
            \in [Path -> Outcome]
    BY DEF LedgerType
  <1>3. l.unfinishedSources \ S \in SUBSET Path
    BY DEF LedgerType
  <1> QED BY <1>1, <1>2, <1>3 DEF PublishAll, LedgerType

(* So does publishing the outcome of one source. *)
LEMMA PublishOutcomeType ==
  ASSUME NEW l \in LedgerType(Path), NEW p \in Path, NEW o \in Outcome
  PROVE  PublishOutcome(l, p, o) \in LedgerType(Path)
  BY PublishAllType DEF PublishOutcome

(* Forgetting the sources a full walk did not report keeps it. *)
LEMMA RetainType ==
  ASSUME NEW l \in LedgerType(Path), NEW S \in SUBSET Path
  PROVE  Retain(l, S) \in LedgerType(Path)
  <1> DEFINE gone == DOMAIN l.sources \ S
  <1>1. gone \in SUBSET Path
    BY DEF LedgerType
  <1>2. Subtract(l.totals, Tally(l.sources, gone)) \in Counts /\ NoCounts \in Counts
    BY <1>1, TallyType, CountsType DEF LedgerType
  <1>3. [p \in DOMAIN l.sources |-> IF p \in gone THEN NoOutcome ELSE l.sources[p]]
            \in [Path -> Outcome]
    BY DEF LedgerType, NoOutcome, Outcome
  <1> QED BY <1>2, <1>3 DEF Retain, LedgerType

(* Applying a report at the end of a run keeps it. *)
LEMMA ApplyReportType ==
  ASSUME NEW l \in LedgerType(Path), NEW r \in ReportType(Path)
  PROVE  ApplyReport(l, r) \in LedgerType(Path)
  <1> DEFINE marked == [l EXCEPT
                 !.unfinishedSources = @ \cup r.scope,
                 !.reconstructed = @ /\ ~(r.full /\ ~Completed(r)),
                 !.discoveryUncertain = ~r.complete \/ (@ /\ ~(r.full /\ ~r.cancelled))]
             kept == IF r.full /\ Completed(r) THEN Retain(marked, r.reported) ELSE marked
             published == PublishAll(kept, r.reported, r.outcome)
  <1>1. marked \in LedgerType(Path)
    BY DEF LedgerType, ReportType, Completed
  <1>2. kept \in LedgerType(Path)
    <2> HIDE DEF marked
    <2> QED BY <1>1, RetainType DEF ReportType
  <1>3. published \in LedgerType(Path)
    <2> HIDE DEF kept
    <2> QED BY <1>2, PublishAllType DEF ReportType
  <1>4. ApplyReport(l, r) = [published EXCEPT
            !.discovery = IF r.full /\ ~r.cancelled THEN r.discovery ELSE @,
            !.scopedDiscovery = IF ~r.full /\ ~r.complete /\ ~r.cancelled
                                THEN r.discovery ELSE @,
            !.unfinished = ~Completed(r),
            !.reconciled = @ \/ Completed(r)]
    BY DEF ApplyReport
  <1> HIDE DEF published
  <1> QED BY <1>3, <1>4 DEF LedgerType, ReportType, Completed

(* Applying an error at the end of a run keeps it. *)
LEMMA ApplyErrorType ==
  ASSUME NEW l \in LedgerType(Path)
  PROVE  ApplyError(l) \in LedgerType(Path)
  BY DEF ApplyError, LedgerType
=============================================================================
