---------------------------- MODULE SessionProofs ----------------------------
(***************************************************************************)
(* Theorems about SessionScan, for every collection of session files, of   *)
(* records and of registered projects, and every bound.                    *)
(***************************************************************************)
EXTENDS SessionInvariant, ReconcileLemmas, NaturalsInduction

(***************************************************************************)
(* Types.                                                                  *)
(***************************************************************************)
(* A file has a version, and its number is one of its path's. *)
LEMMA FileTypes ==
  ASSUME TypeOK, NEW p \in Path, IsFile(p)
  PROVE  /\ files[p] \in DOMAIN content[p] /\ FileAt(p) \in File
         /\ FileAt(p).records \in Seq(DOMAIN Tree)
         /\ VersionOf(FileAt(p)) \in SessionVersion
         /\ VersionOf(FileAt(p)) # NoVersion
  <1>1. files[p] \in DOMAIN content[p]
    <2>1. files[p] \in {Absent, NotFile} \cup DOMAIN content[p]
      BY DEF TypeOK
    <2> QED BY <2>1 DEF IsFile, Absent, NotFile
  <1>2. FileAt(p) \in File
    BY <1>1 DEF TypeOK, FileAt
  <1>3. FileAt(p).records \in Seq(DOMAIN Tree) /\ FileAt(p).tail \in BOOLEAN
    BY <1>2 DEF File
  <1>4. VersionOf(FileAt(p)) \in SessionVersion
    BY <1>3 DEF VersionOf, SessionVersion
  <1> QED BY <1>1, <1>2, <1>3, <1>4, SessionAssumption DEF SessionVersion

(* What the walker captures is a sequence, and a spool takes it in. *)
LEMMA FragmentTypes ==
  ASSUME NEW r \in DOMAIN Tree, NEW visible \in BOOLEAN
  PROVE  Fragments[r][visible] \in Seq(FragmentSet)
  BY SessionAssumption

(* A spool stays an archive when it is written to or flushed. *)
LEMMA SpoolTypes ==
  ASSUME NEW s \in Archive, NEW f \in Seq(FragmentSet)
  PROVE  SpoolLen(s) \in Nat /\ Write(s, f) \in Archive /\ Flush(s) \in Archive
  <1>1. /\ s.memory \in Seq(FragmentSet) /\ s.buffered \in Seq(FragmentSet)
        /\ s.flushed \in Seq(FragmentSet)
    BY DEF Archive
  <1>2. SpoolLen(s) \in Nat
    <2>1. Len(s.memory) \in Nat /\ Len(s.buffered) \in Nat /\ Len(s.flushed) \in Nat
      BY <1>1
    <2>2. \A i, j, k \in Nat : i + j + k \in Nat
      OBVIOUS
    <2> QED BY <2>1, <2>2, Zenon DEF SpoolLen
  <1> DEFINE a == s.buffered \o f
             b == s.memory \o f
             c == s.flushed \o s.buffered
  <1>3. /\ a \in Seq(FragmentSet) /\ b \in Seq(FragmentSet) /\ c \in Seq(FragmentSet)
        /\ <<>> \in Seq(FragmentSet)
    BY <1>1
  <1>4. /\ Write(s, f) \in {[s EXCEPT !.buffered = a], [s EXCEPT !.memory = b],
                            [s EXCEPT !.memory = <<>>, !.buffered = b, !.onFile = TRUE]}
        /\ Flush(s) = [s EXCEPT !.flushed = c, !.buffered = <<>>]
    BY DEF Write, Flush
  <1> HIDE DEF a, b, c
  <1> QED BY <1>2, <1>3, <1>4 DEF Archive

(* A read starts out well formed, and stays so with every record. *)
LEMMA NewReadType == IsRead(NewRead)
  <1>1. NewSpool \in Archive
    BY DEF NewSpool, Archive
  <1> QED BY <1>1 DEF IsRead, NewRead

(* n is the read that has streamed one record more. *)
Streams(read, r, n) ==
    /\ IsRead(n)
    /\ n.streamed = Append(read.streamed, r)
    /\ n.identity = read.identity /\ n.append = read.append
    /\ n.revision = read.revision /\ n.from = read.from /\ n.saw = read.saw
    /\ n.mine = read.mine /\ n.other = read.other /\ n.unknown = read.unknown
    /\ n.tail = read.tail

(* Inspecting a record streams it, and leaves the attribution of the read alone. *)
LEMMA InspectRead ==
  ASSUME NEW read, IsRead(read), NEW provider, NEW r \in DOMAIN Tree
  PROVE  Streams(read, r, Inspect(read, provider, r))
  <1> DEFINE f == Fragments[r][~read.other /\ ~read.unknown]
             d == read.diagnostics + IF TruncatedMetadata(Metadata(f)) THEN 1 ELSE 0
             s == OrElse(read.hint, Summary(provider, Metadata(f)).session)
             start == SpoolLen(read.archive)
             end == start + Len(f)
             bad == [record |-> r, line |-> read.line, start |-> 0, end |-> 0,
                     malformed |-> TRUE]
             good == [record |-> r, line |-> read.line, start |-> start, end |-> end,
                      malformed |-> FALSE]
             a == Write(read.archive, f)
             m == read.diagnostics + 1
             l == read.line + 1
             t == Append(read.streamed, r)
             x == Append(read.prepared, bad)
             y == Append(read.prepared, good)
             n == Inspect(read, provider, r)
  <1>1. n = IF Tree[r] = Malformed
            THEN [read EXCEPT !.streamed = t, !.line = l, !.diagnostics = m,
                              !.prepared = x]
            ELSE [read EXCEPT !.streamed = t, !.line = l, !.diagnostics = d, !.hint = s,
                              !.archive = a, !.prepared = y]
    BY DEF Inspect, IsRead
  <1>2. f \in Seq(FragmentSet)
    <2>1. (~read.other /\ ~read.unknown) \in BOOLEAN
      OBVIOUS
    <2> QED BY <2>1, FragmentTypes
  <1>3. d \in Nat /\ m \in Nat /\ l \in Nat /\ t \in Seq(DOMAIN Tree)
    <2> HIDE DEF f
    <2>1. read.diagnostics \in Nat /\ read.line \in Nat /\ read.streamed \in Seq(DOMAIN Tree)
      BY DEF IsRead
    <2> QED BY <2>1
  <1>4. start \in Nat /\ end \in Nat /\ a \in Archive
    <2> HIDE DEF f
    <2>1. read.archive \in Archive
      BY DEF IsRead
    <2>2. Len(f) \in Nat
      BY <1>2
    <2>3. start \in Nat /\ a \in Archive
      BY ONLY <1>2, <2>1, SpoolTypes
    <2> QED BY <2>2, <2>3
  <1> HIDE DEF start, end
  <1>5. x \in Seq(Prepared) /\ y \in Seq(Prepared)
    <2>1. bad \in Prepared /\ good \in Prepared
      BY <1>4 DEF IsRead, Prepared
    <2>2. read.prepared \in Seq(Prepared)
      BY DEF IsRead
    <2> QED BY <2>1, <2>2
  <1> HIDE DEF d, m, t, l, s, a, x, y, n
  <1>6. Streams(read, r, n)
    <2>1. CASE Tree[r] = Malformed
      BY <1>1, <1>3, <1>5, <2>1 DEF IsRead, Streams, t
    <2>2. CASE Tree[r] # Malformed
      BY <1>1, <1>3, <1>4, <1>5, <2>2 DEF IsRead, Streams, t
    <2> QED BY <2>1, <2>2
  <1> QED BY <1>6 DEF n

(* What the store, the ledger and a report are made of. *)
LEMMA SessionTypes ==
  /\ NoOutcome \in SessionOutcome /\ Failed \in SessionOutcome
  /\ NoRow \in SessionRow /\ IsDocs(NoDocs)
  /\ NewLedger(Path) \in SessionLedger
  /\ \A b \in BOOLEAN : NewReport(Path, b) \in SessionReport
  /\ \A a, b \in BOOLEAN : ExcludedWith(a, b) \in SessionOutcome
  /\ \A b \in BOOLEAN : [Failed EXCEPT !.pending = b] \in SessionOutcome
  <1>1. NoOutcome \in SessionOutcome /\ NoCounts \in Counts
    BY DEF NoOutcome, SessionOutcome, NoCounts, Counts
  <1>2. NewLedger(Path) \in SessionLedger
    BY <1>1 DEF NewLedger, SessionLedger
  <1>3. \A b \in BOOLEAN : NewReport(Path, b) \in SessionReport
    BY <1>1 DEF NewReport, SessionReport
  <1>4. \A a, b \in BOOLEAN : ExcludedWith(a, b) \in SessionOutcome
    BY DEF ExcludedWith, SessionOutcome
  <1>5. /\ Failed \in SessionOutcome
        /\ \A b \in BOOLEAN : [Failed EXCEPT !.pending = b] \in SessionOutcome
    BY DEF Failed, SessionOutcome
  <1>6. NoRow \in SessionRow /\ IsDocs(NoDocs)
    BY DEF NoRow, SessionRow, NoDocs, IsDocs
  <1> QED BY <1>1, <1>2, <1>3, <1>4, <1>5, <1>6

(* The scan starts with well formed locals. *)
LEMMA NewJobType ==
  /\ IsJob(NewJob) /\ NewJob.report.reported = {} /\ NewJob.read = NewRead
  <1>1. [p \in Path |-> NoVersion] \in [Path -> SessionVersion \cup {NoVersion}]
    OBVIOUS
  <1>2. NewReport(Path, FALSE) \in SessionReport /\ NewReport(Path, FALSE).reported = {}
    BY SessionTypes DEF NewReport
  <1> DEFINE e == [p \in Path |-> NoVersion]
             r == NewReport(Path, FALSE)
             c == CHOOSE p \in Path : TRUE
  <1>3. NewJob = [existing |-> e, roots |-> {}, todo |-> {}, seen |-> {},
                  registry |-> {}, cache |-> {}, report |-> r, path |-> c,
                  checkpoint |-> FALSE, attempts |-> 0, read |-> NewRead,
                  version |-> NoVersion, new |-> NoDocs, outcome |-> NoOutcome]
    BY DEF NewJob
  <1>4. e \in [Path -> SessionVersion \cup {NoVersion}] /\ r \in SessionReport
    BY <1>2
  <1> HIDE DEF e, r, c
  <1>5. r.reported = {}
    BY <1>2 DEF r
  <1> QED BY <1>3, <1>4, <1>5, NewReadType, SessionTypes DEF IsJob

(* Transactions of the store leave rows. *)
LEMMA SessionRows ==
  ASSUME NEW r \in [Path -> SessionRow], NEW p \in Path
  PROVE  /\ RemoveRow(r, p) \in [Path -> SessionRow] /\ RemoveRow(r, p)[p] = NoRow
         /\ \A q \in Path \ {p} : RemoveRow(r, p)[q] = r[q]
         /\ \A v \in SessionVersion :
               /\ ReplaceRow(r, p, v) \in [Path -> SessionRow]
               /\ ReplaceRow(r, p, v)[p] = [version |-> v, eligible |-> TRUE]
               /\ \A q \in Path \ {p} : ReplaceRow(r, p, v)[q] = r[q]
  BY DEF SessionRow, NoRow, RemoveRow, ReplaceRow

(* Invalidation takes searchable rows away, and changes no version. *)
LEMMA InvalidatedRows ==
  ASSUME TypeOK, NEW S, NEW r, r = InvalidateIn(S)
  PROVE  /\ r \in [Path -> SessionRow]
         /\ \A p \in Path : r[p].version = rows[p].version
         /\ \A p \in Path : r[p] = rows[p] \/ p \in S
         /\ \A p \in Path : p \in S => ~r[p].eligible
         /\ \A p \in Path : r[p].eligible => rows[p].eligible
  <1>1. rows \in [Path -> SessionRow]
    BY DEF TypeOK
  <1>2. \A p \in Path : r[p] = IF p \in S THEN [rows[p] EXCEPT !.eligible = FALSE] ELSE rows[p]
    BY <1>1 DEF InvalidateIn, InvalidateRow
  <1>3. r = [p \in Path |-> r[p]]
    BY DEF InvalidateIn
  <1>4. \A p \in Path : r[p] \in SessionRow
    BY <1>1, <1>2 DEF SessionRow
  <1> QED BY <1>1, <1>2, <1>3, <1>4 DEF SessionRow

(* Publisher::source and the end of a run, as far as the ledger goes. *)
Publishes(l, S, new, m) ==
    /\ m \in SessionLedger
    /\ \A p \in Path : m.sources[p] = IF p \in S THEN new[p] ELSE l.sources[p]
    /\ m.unfinishedSources = l.unfinishedSources \ S
    /\ m.reconstructed = l.reconstructed /\ m.scanFailed = l.scanFailed
    /\ m.discoveryUncertain = l.discoveryUncertain /\ m.unfinished = l.unfinished

(* Publishing an outcome changes the entry of its path and no flag. *)
LEMMA SessionPublished ==
  ASSUME NEW l \in SessionLedger, NEW S \in SUBSET Path, NEW new,
         \A p \in S : new[p] \in SessionOutcome
  PROVE  Publishes(l, S, new, PublishAll(l, S, new))
  <1> DEFINE t == Add(Subtract(l.totals, Tally(l.sources, S)), Tally(new, S))
             o == [p \in DOMAIN l.sources |-> IF p \in S THEN new[p] ELSE l.sources[p]]
             u == l.unfinishedSources \ S
  <1>1. t \in Counts
    BY TallyType, CountsType DEF SessionLedger
  <1>2. o \in [Path -> SessionOutcome]
    BY DEF SessionLedger
  <1>3. u \in SUBSET Path
    BY DEF SessionLedger
  <1> DEFINE m == PublishAll(l, S, new)
  <1>4. m = [l EXCEPT !.unfinishedSources = u, !.totals = t, !.sources = o]
    BY DEF PublishAll
  <1>5. \A p \in Path : o[p] = IF p \in S THEN new[p] ELSE l.sources[p]
    BY DEF SessionLedger
  <1> HIDE DEF t, o, m
  <1>6. Publishes(l, S, new, m)
    BY <1>1, <1>2, <1>3, <1>4, <1>5 DEF SessionLedger, Publishes
  <1> QED BY <1>6 DEF m

(* m is the ledger l after the report r. *)
Applies(l, r, m) ==
    /\ m \in SessionLedger
    /\ \A p \in Path : m.sources[p] =
          IF p \in r.reported THEN r.outcome[p]
          ELSE IF r.full /\ Completed(r) THEN NoOutcome ELSE l.sources[p]
    /\ m.unfinishedSources =
          IF r.full /\ Completed(r) THEN {}
          ELSE (l.unfinishedSources \cup r.scope) \ r.reported
    /\ m.unfinished = ~Completed(r)
    /\ m.reconstructed = IF r.full THEN Completed(r) ELSE l.reconstructed
    /\ m.scanFailed = (l.scanFailed /\ ~(r.full /\ Completed(r)))
    /\ m.discoveryUncertain =
          (~r.complete \/ (l.discoveryUncertain /\ ~(r.full /\ ~r.cancelled)))

(* Applying a report takes its outcomes, and what a walk does and does not settle. *)
LEMMA SessionApplied ==
  ASSUME NEW l \in SessionLedger, NEW r \in SessionReport
  PROVE  Applies(l, r, ApplyReport(l, r))
  <1> DEFINE u == l.unfinishedSources \cup r.scope
             k == l.reconstructed /\ ~(r.full /\ ~Completed(r))
             d == ~r.complete \/ (l.discoveryUncertain /\ ~(r.full /\ ~r.cancelled))
             marked == [l EXCEPT !.unfinishedSources = u, !.reconstructed = k,
                                 !.discoveryUncertain = d]
             kept == IF r.full /\ Completed(r) THEN Retain(marked, r.reported) ELSE marked
             published == PublishAll(kept, r.reported, r.outcome)
             whole == r.full /\ Completed(r)
             m == ApplyReport(l, r)
  <1>1. /\ u \in SUBSET Path /\ k \in BOOLEAN /\ d \in BOOLEAN
        /\ r.reported \in SUBSET Path
        /\ \A p \in r.reported : r.outcome[p] \in SessionOutcome
    BY DEF SessionLedger, SessionReport
  <1>2. /\ marked \in SessionLedger /\ marked.unfinishedSources = u
        /\ marked.reconstructed = k /\ marked.discoveryUncertain = d
        /\ marked.sources = l.sources /\ marked.scanFailed = l.scanFailed
    <2> HIDE DEF u, k, d
    <2> QED BY <1>1 DEF SessionLedger
  <1>3. ASSUME whole
        PROVE  /\ Retain(marked, r.reported) \in SessionLedger
               /\ \A p \in Path \ r.reported : Retain(marked, r.reported).sources[p] = NoOutcome
               /\ Retain(marked, r.reported).unfinishedSources = {}
               /\ Retain(marked, r.reported).reconstructed = TRUE
               /\ Retain(marked, r.reported).scanFailed = FALSE
               /\ Retain(marked, r.reported).discoveryUncertain = d
    <2> DEFINE gone == DOMAIN marked.sources \ r.reported
               t == Subtract(marked.totals, Tally(marked.sources, gone))
               o == [p \in DOMAIN marked.sources |->
                        IF p \in gone THEN NoOutcome ELSE marked.sources[p]]
    <2>1. gone = Path \ r.reported
      BY <1>2 DEF SessionLedger
    <2>2. t \in Counts /\ NoCounts \in Counts
      <3>1. gone \in SUBSET Path
        BY <2>1
      <3>2. marked.totals \in Counts
        BY <1>2 DEF SessionLedger
      <3> HIDE DEF marked, gone
      <3> QED BY <3>1, <3>2, TallyType, CountsType
    <2>3. o \in [Path -> SessionOutcome] /\ \A p \in Path \ r.reported : o[p] = NoOutcome
      <3> HIDE DEF marked, gone
      <3> QED BY <2>1, <1>2, SessionTypes DEF SessionLedger
    <2>4. Retain(marked, r.reported) =
            [marked EXCEPT !.totals = t, !.sources = o, !.reconstructed = TRUE,
                           !.unfinishedSources = {}, !.scopedDiscovery = NoCounts,
                           !.scanFailed = FALSE]
      BY DEF Retain
    <2> HIDE DEF marked, t, o
    <2> DEFINE c == Retain(marked, r.reported)
    <2>5. /\ c \in SessionLedger /\ c.sources = o /\ c.unfinishedSources = {}
          /\ c.reconstructed = TRUE /\ c.scanFailed = FALSE
          /\ c.discoveryUncertain = marked.discoveryUncertain
      BY <1>2, <2>2, <2>3, <2>4 DEF SessionLedger
    <2> HIDE DEF c
    <2> QED BY <1>2, <2>3, <2>5 DEF c
  <1>4. /\ kept \in SessionLedger
        /\ \A p \in Path \ r.reported :
              kept.sources[p] = IF whole THEN NoOutcome ELSE l.sources[p]
        /\ kept.unfinishedSources = IF whole THEN {} ELSE u
        /\ kept.reconstructed = IF whole THEN TRUE ELSE k
        /\ kept.scanFailed = IF whole THEN FALSE ELSE l.scanFailed
        /\ kept.discoveryUncertain = d
    <2> HIDE DEF marked
    <2> QED BY <1>2, <1>3
  <1>5. /\ published \in SessionLedger
        /\ \A p \in Path : published.sources[p] = IF p \in r.reported THEN r.outcome[p]
                                                  ELSE kept.sources[p]
        /\ published.unfinishedSources = kept.unfinishedSources \ r.reported
        /\ published.reconstructed = kept.reconstructed
        /\ published.scanFailed = kept.scanFailed
        /\ published.discoveryUncertain = kept.discoveryUncertain
    <2> HIDE DEF kept
    <2>1. published = PublishAll(kept, r.reported, r.outcome)
      OBVIOUS
    <2>2. Publishes(kept, r.reported, r.outcome, published)
      <3> HIDE DEF published
      <3> QED BY ONLY <1>1, <1>4, <2>1, SessionPublished
    <2> QED BY <2>2 DEF Publishes
  <1> DEFINE f == IF r.full /\ ~r.cancelled THEN r.discovery ELSE published.discovery
             g == IF ~r.full /\ ~r.complete /\ ~r.cancelled
                  THEN r.discovery ELSE published.scopedDiscovery
             n == published.reconciled \/ Completed(r)
             x == ~Completed(r)
  <1>6. m = [published EXCEPT !.discovery = f, !.scopedDiscovery = g, !.unfinished = x,
                              !.reconciled = n]
    BY DEF ApplyReport
  <1> HIDE DEF published
  <1>7. f \in Counts /\ g \in Counts /\ n \in BOOLEAN /\ x \in BOOLEAN
    BY <1>5 DEF SessionLedger, SessionReport, Completed
  <1> HIDE DEF f, g, n, x, m
  <1>8. /\ m \in SessionLedger /\ m.sources = published.sources
        /\ m.unfinishedSources = published.unfinishedSources
        /\ m.reconstructed = published.reconstructed /\ m.scanFailed = published.scanFailed
        /\ m.discoveryUncertain = published.discoveryUncertain /\ m.unfinished = x
    BY <1>5, <1>6, <1>7 DEF SessionLedger
  <1> HIDE DEF kept
  <1>9. m.sources = published.sources /\ m.unfinished = ~Completed(r)
    BY <1>8 DEF x
  <1>10. m.reconstructed = IF r.full THEN Completed(r) ELSE l.reconstructed
    <2>1. r.full \in BOOLEAN /\ l.reconstructed \in BOOLEAN /\ Completed(r) \in BOOLEAN
      BY DEF SessionReport, SessionLedger, Completed
    <2> QED BY <1>4, <1>5, <1>8, <2>1
  <1>11. m.scanFailed = (l.scanFailed /\ ~(r.full /\ Completed(r)))
    <2>1. l.scanFailed \in BOOLEAN
      BY DEF SessionLedger
    <2> QED BY <1>4, <1>5, <1>8, <2>1
  <1>12. m.unfinishedSources =
               IF r.full /\ Completed(r) THEN {}
               ELSE (l.unfinishedSources \cup r.scope) \ r.reported
    BY <1>4, <1>5, <1>8
  <1>13. \A p \in Path : m.sources[p] =
               IF p \in r.reported THEN r.outcome[p]
               ELSE IF r.full /\ Completed(r) THEN NoOutcome ELSE l.sources[p]
    BY <1>4, <1>5, <1>9
  <1>14. m.discoveryUncertain = d
    BY <1>4, <1>5, <1>8
  <1>15. Applies(l, r, m)
    BY <1>8, <1>9, <1>10, <1>11, <1>12, <1>13, <1>14 DEF Applies
  <1> QED BY <1>15 DEF m

(***************************************************************************)
(* What each step does to the scan's locals.                               *)
(***************************************************************************)
(* A read that is given up is begun anew. *)
LEMMA RetryDoes ==
  ASSUME NEW j, IsJob(j), RetryWith(j)
  PROVE  /\ IsJob(job') /\ job' = [j EXCEPT !.read = NewRead]
         /\ job'.read = NewRead
         /\ job'.existing = j.existing /\ job'.roots = j.roots /\ job'.todo = j.todo
         /\ job'.seen = j.seen /\ job'.registry = j.registry /\ job'.cache = j.cache
         /\ job'.report = j.report /\ job'.path = j.path /\ job'.checkpoint = j.checkpoint
  BY NewReadType DEF RetryWith, IsJob

(* A path is done with without anything to index. *)
LEMMA SettleJob ==
  ASSUME NEW j, IsJob(j), NEW p \in Path, NEW o \in SessionOutcome, Settle(j, p, o)
  PROVE  /\ IsJob(job') /\ pc' = "publish"
         /\ job'.path = p /\ job'.todo = j.todo \ {p} /\ job'.seen = j.seen \cup {p}
         /\ job'.outcome = o /\ job'.read = NewRead /\ job'.checkpoint = FALSE
         /\ job'.existing = j.existing /\ job'.roots = j.roots
         /\ job'.registry = j.registry /\ job'.cache = j.cache /\ job'.report = j.report
  <1>1. job' = [j EXCEPT !.path = p, !.todo = j.todo \ {p}, !.seen = j.seen \cup {p},
                        !.version = NoVersion, !.outcome = o,
                        !.read = NewRead, !.checkpoint = FALSE, !.attempts = 0]
    BY DEF Settle, IsJob
  <1>2. /\ IsJob(job')
        /\ job'.path = p /\ job'.todo = j.todo \ {p} /\ job'.seen = j.seen \cup {p}
        /\ job'.outcome = o /\ job'.read = NewRead /\ job'.checkpoint = FALSE
        /\ job'.existing = j.existing /\ job'.roots = j.roots
        /\ job'.registry = j.registry /\ job'.cache = j.cache /\ job'.report = j.report
    BY <1>1, NewReadType DEF IsJob
  <1> QED BY <1>2 DEF Settle

(* The row goes if the scan had listed one. *)
LEMMA RemoveOldStore ==
  ASSUME TypeOK, NEW p \in Path, RemoveOld(p)
  PROVE  /\ rows' \in [Path -> SessionRow]
         /\ docs' = [q \in Path |-> docs'[q]] /\ \A q \in Path : IsDocs(docs'[q])
         /\ \A q \in Path \ {p} : rows'[q] = rows[q] /\ docs'[q] = docs[q]
         /\ IF job.existing[p] = NoVersion THEN rows'[p] = rows[p] /\ docs'[p] = docs[p]
                                           ELSE rows'[p] = NoRow
  <1>1. /\ rows \in [Path -> SessionRow]
        /\ docs = [q \in Path |-> docs[q]] /\ \A q \in Path : IsDocs(docs[q])
    BY DEF TypeOK
  <1>2. CASE job.existing[p] = NoVersion
    BY <1>1, <1>2 DEF RemoveOld, storeVars
  <1>3. CASE job.existing[p] # NoVersion
    <2>1. rows' = RemoveRow(rows, p) /\ docs' = [docs EXCEPT ![p] = NoDocs]
      BY <1>3 DEF RemoveOld
    <2>2. /\ docs' = [q \in Path |-> docs'[q]] /\ \A q \in Path : IsDocs(docs'[q])
          /\ \A q \in Path \ {p} : docs'[q] = docs[q]
      BY <1>1, <2>1, SessionTypes
    <2> QED BY <1>1, <1>3, <2>1, <2>2, SessionRows
  <1> QED BY <1>2, <1>3

(* A set of numbers that is not empty has a least one: induction, for a set. *)
LEMMA Smallest ==
  ASSUME NEW S \in SUBSET Nat, S # {}
  PROVE  \E n \in S : \A m \in S : n <= m
  <1> DEFINE R == OpToRel(<, Nat)
  <1>1. IsWellFoundedOn(R, Nat)
    BY NatLessThanWellFounded
  <1>2. \A n, m \in Nat : m < n => <<m, n>> \in R
    BY DEF OpToRel
  <1> HIDE DEF R
  <1>3. PICK n \in S : \A m \in S : ~ (<<m, n>> \in R)
    BY <1>1, WFMin
  <1>4. ASSUME NEW m \in S PROVE n <= m
    <2>1. n \in Nat /\ m \in Nat
      OBVIOUS
    <2>2. ~(m < n)
      BY <1>2, <1>3, <2>1
    <2> QED BY <2>1, <2>2
  <1> QED BY <1>4

(***************************************************************************)
(* The second pass, record by record.                                      *)
(***************************************************************************)
IsNormalising(after, provider, archive, items, start, n) ==
    after = [i \in 0..n |-> IF i = 0 THEN start
                            ELSE NormaliseItem(provider, archive, items[i], after[i - 1])]

(* There is such a pass over any number of records. *)
LEMMA NormalisingExists ==
  ASSUME NEW provider, NEW archive, NEW items, NEW start, NEW n \in Nat
  PROVE  \E after : IsNormalising(after, provider, archive, items, start, n)
  <1> DEFINE Is(f, k) == IsNormalising(f, provider, archive, items, start, k)
             S == {k \in Nat : ~(\E f : Is(f, k))}
  <1>1. SUFFICES ASSUME S # {} PROVE FALSE
    OBVIOUS
  <1>2. PICK k \in S : \A m \in S : k <= m
    BY <1>1, Smallest
  <1>3. k # 0
    <2> DEFINE f == [i \in 0..0 |-> start]
    <2>1. Is(f, 0)
      BY DEF IsNormalising
    <2> QED BY <1>2, <2>1
  <1>4. k - 1 \in Nat /\ k - 1 \notin S
    BY <1>2, <1>3
  <1>5. PICK f : Is(f, k - 1)
    BY <1>4
  <1> DEFINE g == [i \in 0..k |-> IF i = k
                     THEN NormaliseItem(provider, archive, items[k], f[k - 1]) ELSE f[i]]
  <1>6. ASSUME NEW i \in 0..k
        PROVE  g[i] = IF i = 0 THEN start
                      ELSE NormaliseItem(provider, archive, items[i], g[i - 1])
    <2>1. CASE i = k
      <3>1. g[k - 1] = f[k - 1] /\ k - 1 \in 0..k
        BY <1>3, <1>4
      <3> QED BY <1>3, <2>1, <3>1
    <2>2. CASE i # k
      <3>1. i \in 0..(k - 1) /\ g[i] = f[i]
        BY <1>3, <2>2
      <3>2. f[i] = IF i = 0 THEN start
                   ELSE NormaliseItem(provider, archive, items[i], f[i - 1])
        BY <1>5, <3>1 DEF IsNormalising
      <3>3. i # 0 => i - 1 \in 0..k /\ g[i - 1] = f[i - 1]
        BY <1>3, <2>2
      <3> QED BY <3>1, <3>2, <3>3
    <2> QED BY <2>1, <2>2
  <1>7. Is(g, k)
    BY <1>6, Zenon DEF IsNormalising
  <1> QED BY <1>2, <1>7

(* The pass that NormaliseAll takes its result from. *)
Steps(provider, read, start) ==
    CHOOSE after :
        IsNormalising(after, provider, Flush(read.archive), read.prepared, start,
                      Len(read.prepared))

(* NormaliseAll is the end of that pass, and each step of it one record. *)
LEMMA NormaliseSteps ==
  ASSUME NEW provider, NEW read, Len(read.prepared) \in Nat, NEW start
  PROVE  /\ NormaliseAll(provider, read, start)
                = Steps(provider, read, start)[Len(read.prepared)]
         /\ IsNormalising(Steps(provider, read, start), provider, Flush(read.archive),
                          read.prepared, start, Len(read.prepared))
  <1>1. NormaliseAll(provider, read, start)
                = Steps(provider, read, start)[Len(read.prepared)]
    BY DEF NormaliseAll, Steps, IsNormalising
  <1>2. \E after : IsNormalising(after, provider, Flush(read.archive), read.prepared, start,
                      Len(read.prepared))
    BY NormalisingExists
  <1> QED BY <1>1, <1>2 DEF Steps

(***************************************************************************)
(* What normalising a record adds to the diagnostics.                      *)
(***************************************************************************)
IsNormalised(n) ==
    /\ n = [chunks |-> n.chunks, ids |-> n.ids, session |-> n.session,
            diagnostics |-> n.diagnostics]
    /\ n.diagnostics \in Nat

(* No provider's normalisation reports more than one diagnostic of a record. *)
LEMMA NormalizeDiagnoses ==
  ASSUME NEW provider \in {"codex", "claude", "copilot"}, NEW s, NEW f, NEW ids, NEW session
  PROVE  Normalize(provider, s, f, ids, session).diagnostics \in {0, 1}
  <1> DEFINE context == [session |-> OrElse(s.session, OrElse(session, "unknown")),
                         event |-> s.event]
  <1>1. CASE provider = "codex"
    <2>1. Normalize(provider, s, f, ids, session) = NormalizeCodex(s, f, ids, context)
      BY <1>1 DEF Normalize
    <2> HIDE DEF context
    <2>2. NormalizeCodex(s, f, ids, context).diagnostics \in {0, 1}
      BY DEF NormalizeCodex, Outcome3
    <2> QED BY <2>1, <2>2
  <1>2. CASE provider = "claude"
    <2>1. Normalize(provider, s, f, ids, session) = NormalizeClaude(s, f, ids, context)
      BY <1>2 DEF Normalize
    <2> HIDE DEF context
    <2>2. NormalizeClaude(s, f, ids, context).diagnostics \in {0, 1}
      BY DEF NormalizeClaude, Outcome3
    <2> QED BY <2>1, <2>2
  <1>3. CASE provider = "copilot"
    <2>1. Normalize(provider, s, f, ids, session) = NormalizeCopilot(s, f, ids, context)
      BY <1>3 DEF Normalize
    <2> HIDE DEF context
    <2>2. NormalizeCopilot(s, f, ids, context).diagnostics \in {0, 1}
      BY DEF NormalizeCopilot, Outcome3
    <2> QED BY <2>1, <2>2
  <1> QED BY <1>1, <1>2, <1>3

(* A timestamp adds at most one. *)
LEMMA ReportsCount ==
  ASSUME NEW s, NEW out, out.diagnostics \in {0, 1}
  PROVE  Reports(s, out) \in 0..2
  <1>1. Reports(s, out) \in {out.diagnostics + 0, out.diagnostics + 1}
    BY DEF Reports
  <1> QED BY <1>1

(* A step of the pass keeps what it accumulates well formed. *)
LEMMA NormaliseItemType ==
  ASSUME NEW provider \in {"codex", "claude", "copilot"}, NEW archive, NEW item,
         NEW n, IsNormalised(n)
  PROVE  IsNormalised(NormaliseItem(provider, archive, item, n))
  <1> DEFINE f == ReadRange(archive, item.start, item.end)
             s == Summary(provider, f)
             ids == IF s.event = None THEN n.ids
                    ELSE InsertId(n.ids, "seen_event", <<s.event, item.record>>, "")
             session == OrElse(s.session, n.session)
             out == Normalize(provider, s, f, ids, session)
             c == n.chunks \o ChunksOf(out.items, item.line)
             d == n.diagnostics + Reports(s, out)
             m == n.diagnostics + 1
  <1>1. Reports(s, out) \in 0..2
    <2>1. out.diagnostics \in {0, 1}
      BY NormalizeDiagnoses
    <2> HIDE DEF out, s
    <2> QED BY <2>1, ReportsCount
  <1>2. n.diagnostics \in Nat
    BY DEF IsNormalised
  <1>3. m \in Nat /\ d \in Nat
    <2> HIDE DEF out
    <2> QED BY <1>1, <1>2
  <1>4. NormaliseItem(provider, archive, item, n) \in
           {n, [n EXCEPT !.diagnostics = m],
            [chunks |-> c, ids |-> out.ids, session |-> session, diagnostics |-> d]}
    BY DEF NormaliseItem, NormaliseRecord
  <1> HIDE DEF c, out, session, d, m
  <1> QED BY <1>3, <1>4 DEF IsNormalised

(* A pass over any records leaves a number of diagnostics. *)
LEMMA NormaliseAllType ==
  ASSUME NEW provider \in {"codex", "claude", "copilot"},
         NEW read, Len(read.prepared) \in Nat, NEW start, IsNormalised(start)
  PROVE  IsNormalised(NormaliseAll(provider, read, start))
  <1> DEFINE N == Len(read.prepared)
             after == Steps(provider, read, start)
             S == {i \in 0..N : ~IsNormalised(after[i])}
  <1>1. \A i \in 0..N : after[i] = IF i = 0 THEN start
             ELSE NormaliseItem(provider, Flush(read.archive), read.prepared[i], after[i - 1])
    BY NormaliseSteps DEF IsNormalising
  <1>2. S = {}
    <2> SUFFICES ASSUME S # {} PROVE FALSE
      OBVIOUS
    <2>1. S \in SUBSET Nat
      OBVIOUS
    <2>2. PICK i \in S : \A j \in S : i <= j
      BY <2>1, Smallest
    <2>3. i # 0
      BY <1>1, <2>2
    <2>4. i - 1 \in 0..N /\ i - 1 \notin S
      BY <2>2, <2>3
    <2>5. IsNormalised(after[i - 1])
      BY <2>4
    <2>6. after[i] = NormaliseItem(provider, Flush(read.archive), read.prepared[i],
                                   after[i - 1])
      BY <1>1, <2>2, <2>3
    <2> HIDE DEF after
    <2>7. IsNormalised(after[i])
      BY <2>5, <2>6, NormaliseItemType
    <2> QED BY <2>2, <2>7
  <1>3. IsNormalised(after[N])
    BY <1>2
  <1> QED BY <1>3, NormaliseSteps

(***************************************************************************)
(* Steps of a scan that leave the files, the rows, the ledger and the      *)
(* controller alone.                                                       *)
(***************************************************************************)
SameOwners == \A cwd : OwnerUnder(registry', cwd) = OwnerUnder(registry, cwd)
(* A step that leaves the disk, the store, the ledger and the controller alone, and *)
(* changes the registry only in what does not matter to an owner.                   *)
Steady ==
    /\ UNCHANGED <<files, content, rows, docs, ctl, ledger, ticket>>
    /\ events \subseteq events' /\ events' \subseteq Path \cup {"registry"}
    /\ SameOwners

(* Such a step forgets no change, *)
LEMMA SteadyNotices ==
  ASSUME NEW p, Steady, Noticed(p)
  PROVE  Noticed(p)'
  BY DEF Steady, Noticed

(* Nothing about the path changes. *)
StillAt(p) ==
    /\ files'[p] = files[p] /\ content'[p] = content[p]
    /\ rows'[p] = rows[p] /\ docs'[p] = docs[p] /\ SameOwners

(* and leaves every path as it was. *)
LEMMA SteadyStill ==
  ASSUME Steady, NEW p
  PROVE  StillAt(p)
  BY DEF Steady, StillAt

(* The same owners own the same files. *)
LEMMA SameOwned ==
  ASSUME SameOwners, NEW p, NEW records, OwnedUnder(registry, p, records)
  PROVE  OwnedUnder(registry', p, records)
  BY DEF SameOwners, OwnedUnder

(* What was true of a path that is as it was is so still: its row and version, *)
LEMMA StillRow ==
  ASSUME NEW p, StillAt(p)
  PROVE  /\ RowTrue(p) => RowTrue(p)'
         /\ \A v : CurrentVersion(p, v) => CurrentVersion(p, v)'
  <1>1. FileAt(p)' = FileAt(p) /\ (IsFile(p) <=> IsFile(p)') /\ rows'[p] = rows[p]
    BY DEF StillAt, FileAt, IsFile
  <1>2. \A r : OwnedUnder(registry, p, r) => OwnedUnder(registry', p, r)
    BY SameOwned DEF StillAt
  <1>3. RowTrue(p) => RowTrue(p)'
    BY <1>1, <1>2 DEF OwnedNow, CurrentVersion, RowTrue
  <1> QED BY <1>1, <1>3 DEF CurrentVersion

(* an outcome that does not index it, *)
LEMMA StillUnindexed ==
  ASSUME SameOwners, NEW p, files'[p] = files[p], content'[p] = content[p], NEW o,
         Unindexed(p, o)
  PROVE  Unindexed(p, o)'
  <1>1. FileAt(p)' = FileAt(p) /\ (IsFile(p) <=> IsFile(p)')
    BY DEF FileAt, IsFile
  <1>2. Owned(p)' => Owned(p)
    <2>1. CwdsOf(p)' = CwdsOf(p)
      BY <1>1 DEF CwdsOf
    <2>2. \A cwd : OwnerNow(cwd)' = OwnerNow(cwd)
      BY Zenon DEF OwnerNow, SameOwners, OwnerUnder
    <2> QED BY <1>1, <2>1, <2>2 DEF Owned
  <1> QED BY <1>1, <1>2 DEF Unindexed

(* any other outcome, *)
LEMMA StillTells ==
  ASSUME NEW p, StillAt(p), NEW o, Tells(p, o)
  PROVE  Tells(p, o)'
  <1>1. rows'[p] = rows[p] /\ docs'[p] = docs[p]
    BY DEF StillAt
  <1>2. Unindexed(p, o) => Unindexed(p, o)'
    BY StillUnindexed DEF StillAt
  <1> QED BY <1>1, <1>2 DEF Tells

(* and its entry of the ledger. *)
LEMMA StillEntry ==
  ASSUME NEW p, StillAt(p), ledger'.sources[p] = ledger.sources[p], EntryTrue(p)
  PROVE  EntryTrue(p)'
  <1>1. PICK o : o = ledger.sources[p]
    OBVIOUS
  <1>2. Tells(p, o) => Tells(p, o)'
    BY StillTells
  <1> QED BY <1>1, <1>2 DEF EntryTrue, Tells, Unindexed

(* So what is said of the rows and of the ledger is kept, *)
LEMMA SteadyKeeps ==
  ASSUME RunHeld, RowsTrue, LedgerTrue, LedgerRebuilt, Steady,
         pc \in Scans, pc' \in Scans \ {"publish"},
         job'.report.reported = job.report.reported,
         Precise => job'.report.complete, job'.report.scope \subseteq InScope
  PROVE  RunHeld' /\ RowsTrue' /\ LedgerTrue' /\ LedgerRebuilt'
  <1>1. InScope' = InScope /\ (Precise' <=> Precise) /\ ctl' = ctl /\ ticket' = ticket
    BY DEF InScope, Precise, Steady
  <1>2. /\ pc # "idle" /\ pc' # "idle" /\ pc # "invalidate" /\ pc' # "invalidate"
    BY DEF Scans, Reading, Attempts
  <1>3. Rest' = Rest
    BY <1>1, <1>2 DEF Rest
  <1>4. RunHeld'
    BY <1>1, <1>2 DEF RunHeld
  <1>5. RowsTrue'
    <2>1. \A p \in Path : Noticed(p) \/ RowTrue(p) => Noticed(p)' \/ RowTrue(p)'
      BY SteadyNotices, SteadyStill, StillRow
    <2>2. rows' = rows /\ docs' = docs
      BY DEF Steady
    <2> QED BY <1>2, <2>1, <2>2 DEF RowsTrue
  <1>6. LedgerTrue'
    <2>1. \A p \in Path : Noticed(p) \/ EntryTrue(p) => Noticed(p)' \/ EntryTrue(p)'
      BY SteadyNotices, SteadyStill, StillEntry DEF Steady
    <2> QED BY <1>3, <2>1 DEF LedgerTrue
  <1>7. LedgerRebuilt'
    BY <1>1, <1>2, <1>3 DEF LedgerRebuilt, Steady
  <1> QED BY <1>4, <1>5, <1>6, <1>7

(* and so are the types. *)
LEMMA SteadyType ==
  ASSUME TypeOK, Steady, IsJob(job'), pc' \in Scans,
         pc' \in {"read", "stream", "verify", "commit", "publish"} => job'.path \in Path
  PROVE  TypeOK'
  BY DEF TypeOK, Steady, Scans, Reading, Attempts

(***************************************************************************)
(* The scan's steps.                                                       *)
(***************************************************************************)
(* A walk adds what it has found, and is complete only if that is all. *)
Discovers(root, j, found) ==
    /\ IsJob(j) /\ found \subseteq Under(root)
    /\ j.roots = job.roots \ {root} /\ j.todo = job.todo \cup found
    /\ j.existing = job.existing /\ j.seen = job.seen /\ j.registry = job.registry
    /\ j.cache = job.cache /\ j.path = job.path /\ j.checkpoint = job.checkpoint
    /\ j.read = job.read
    /\ j.report.full = job.report.full /\ j.report.reported = job.report.reported
    /\ j.report.outcome = job.report.outcome /\ j.report.scope = job.report.scope
    /\ j.report.complete => job.report.complete /\ found = Under(root)

(* However a walk ends, it is one of these. *)
LEMMA DiscoverDoes ==
  ASSUME TypeOK, NEW p \in Path, Discover(Provider[p])
  PROVE  /\ pc = "discover" /\ Provider[p] \in job.roots
         /\ Steady /\ pc' = pc
         /\ \E found \in SUBSET Under(Provider[p]) : Discovers(Provider[p], job', found)
  <1> DEFINE root == Provider[p]
  <1> HIDE DEF root
  <1>1. Discover(root)
    BY DEF root
  <1>2. pc = "discover" /\ root \in job.roots
    BY <1>1 DEF Discover
  <1>3. Steady /\ pc' = pc
    BY <1>1 DEF Discover, Steady, envVars, storeVars, SameOwners, TypeOK
  <1>4. \E found \in SUBSET Under(root) : Discovers(root, job', found)
    <2> DEFINE e == job.report.discovery.errors + 1
               q == job.report.discovery.pending + 1
               d == [job.report.discovery EXCEPT !.errors = e]
               w == [job.report.discovery EXCEPT !.pending = q]
               broken == [job.report EXCEPT !.complete = FALSE, !.discovery = d]
               stopped == [job.report EXCEPT !.complete = FALSE, !.cancelled = TRUE,
                                             !.discovery = w]
    <2>1. IsJob(job) /\ job.report \in SessionReport
      BY DEF TypeOK, IsJob
    <2>2. /\ broken \in SessionReport /\ stopped \in SessionReport
          /\ broken.complete = FALSE /\ stopped.complete = FALSE
          /\ broken.full = job.report.full /\ stopped.full = job.report.full
          /\ broken.reported = job.report.reported /\ stopped.reported = job.report.reported
          /\ broken.outcome = job.report.outcome /\ stopped.outcome = job.report.outcome
          /\ broken.scope = job.report.scope /\ stopped.scope = job.report.scope
      <3>1. job.report.discovery \in Counts
        BY <2>1 DEF SessionReport
      <3>2. e \in Int /\ q \in Int
        BY <3>1 DEF Counts
      <3> HIDE DEF e, q
      <3>3. d \in Counts /\ w \in Counts
        BY <3>1, <3>2 DEF Counts
      <3> HIDE DEF d, w
      <3> QED BY <2>1, <3>3 DEF SessionReport
    <2>3. PICK found \in SUBSET Under(root) :
            \/ /\ found = Under(root)
               /\ job' = [job EXCEPT !.roots = @ \ {root}, !.todo = @ \cup found]
            \/ job' = [job EXCEPT !.roots = @ \ {root}, !.todo = @ \cup found,
                                  !.report.complete = FALSE,
                                  !.report.discovery.errors = @ + 1]
            \/ job' = [job EXCEPT !.roots = @ \ {root}, !.todo = @ \cup found,
                                  !.report.complete = FALSE, !.report.cancelled = TRUE,
                                  !.report.discovery.pending = @ + 1]
      BY <1>1 DEF Discover
    <2> DEFINE r == job.roots \ {root}
               t == job.todo \cup found
    <2>4. \/ /\ found = Under(root)
             /\ job' = [job EXCEPT !.roots = r, !.todo = t]
          \/ job' = [job EXCEPT !.roots = r, !.todo = t, !.report = broken]
          \/ job' = [job EXCEPT !.roots = r, !.todo = t, !.report = stopped]
      BY <2>1, <2>3 DEF IsJob, SessionReport, Counts
    <2>5. found \subseteq Path /\ t \subseteq Path
      BY <2>1 DEF Under, IsJob
    <2> HIDE DEF broken, stopped
    <2>6. Discovers(root, job', found)
      <3>1. CASE found = Under(root) /\ job' = [job EXCEPT !.roots = r, !.todo = t]
        BY <2>1, <2>5, <3>1 DEF IsJob, Discovers
      <3>2. CASE job' = [job EXCEPT !.roots = r, !.todo = t, !.report = broken]
        BY <2>1, <2>2, <2>5, <3>2 DEF IsJob, Discovers
      <3>3. CASE job' = [job EXCEPT !.roots = r, !.todo = t, !.report = stopped]
        BY <2>1, <2>2, <2>5, <3>3 DEF IsJob, Discovers
      <3> QED BY <2>4, <3>1, <3>2, <3>3
    <2> QED BY <2>6
  <1> QED BY <1>2, <1>3, <1>4 DEF root

(* A run that is not about named files is about all of them. *)
LEMMA WholeScope ==
  ASSUME TypeOK, RunHeld, pc # "idle", ~Precise
  PROVE  InScope = Path
  <1>1. ticket.scope \in Scope /\ ticket.scope # NoScope
    BY DEF TypeOK, RunHeld, Ticket
  <1>2. ticket.scope = Full
    BY <1>1 DEF Scope, Precise, Sources
  <1> QED BY <1>2, ScopeTypes DEF InScope

(* A walk keeps the invariant. *)
LEMMA DiscoverKeeps ==
  ASSUME TypeOK, SInv, NEW p \in Path, Discover(Provider[p])
  PROVE  TypeOK' /\ SInv'
  <1> DEFINE root == Provider[p]
  <1>1. /\ pc = "discover" /\ root \in job.roots /\ Steady /\ pc' = pc
        /\ \E found \in SUBSET Under(root) : Discovers(root, job', found)
    BY DiscoverDoes
  <1> HIDE DEF root
  <1>2. PICK found \in SUBSET Under(root) : Discovers(root, job', found)
    BY <1>1
  <1>3. TypeOK'
    BY <1>1, <1>2, SteadyType DEF Discovers, Scans
  <1>4. /\ RunHeld /\ OwnScope /\ Found /\ OwnersKept /\ ReadTrue /\ CommitTrue
        /\ RowsTrue /\ LedgerTrue /\ LedgerRebuilt
    BY DEF SInv
  <1>5. ~Precise /\ InScope = Path
    <2>1. ~Precise
      BY <1>1, <1>4 DEF OwnScope, Scans
    <2> QED BY <1>1, <1>4, <2>1, WholeScope
  <1>6. InScope' = InScope /\ (Precise' <=> Precise) /\ ~Precise'
    BY <1>1, <1>5 DEF Steady, InScope, Precise
  <1>7. RunHeld' /\ RowsTrue' /\ LedgerTrue' /\ LedgerRebuilt'
    <2>1. job'.report.reported = job.report.reported /\ job'.report.scope \subseteq InScope
      BY <1>1, <1>2, <1>4 DEF Discovers, LedgerRebuilt, Scans
    <2>2. pc \in Scans /\ pc' \in Scans \ {"publish"}
      BY <1>1 DEF Scans
    <2> QED BY <1>1, <1>4, <1>5, <2>1, <2>2, SteadyKeeps
  <1>8. OwnScope'
    <2>1. job.todo \cup job.seen \subseteq InScope /\ job.seen = {}
      BY <1>1, <1>4 DEF OwnScope, Scans
    <2>2. found \subseteq Path
      BY DEF Under
    <2>3. rows' = rows /\ ledger' = ledger /\ Current = {} /\ Current' = {}
      BY <1>1 DEF Steady, Current
    <2> QED BY <1>1, <1>2, <1>4, <1>5, <1>6, <2>1, <2>2, <2>3
            DEF OwnScope, Discovers, Scans, Reading, Attempts
  <1>9. Found'
    <2> SUFFICES ASSUME job'.report.complete, NEW q \in Path
                 PROVE  \/ q \in job'.todo \cup job'.seen \/ Noticed(q)'
                        \/ Provider[q] \in job'.roots \/ ~IsFile(q)'
      BY <1>6 DEF Found, InScope
    <2>1. \/ q \in job.todo \cup job.seen \/ Noticed(q)
          \/ Provider[q] \in job.roots \/ ~IsFile(q)
      BY <1>1, <1>2, <1>4, <1>5 DEF Found, Discovers, Scans
    <2>2. found = Under(root) /\ job'.roots = job.roots \ {root}
          /\ job'.todo = job.todo \cup found /\ job'.seen = job.seen
      BY <1>2 DEF Discovers
    <2>3. Provider[q] = root => q \in found \/ ~IsFile(q)
      BY <2>2 DEF Under
    <2>4. IsFile(q)' <=> IsFile(q)
      BY <1>1 DEF Steady, IsFile
    <2>5. Noticed(q) => Noticed(q)'
      BY <1>1, SteadyNotices
    <2> QED BY <2>1, <2>2, <2>3, <2>4, <2>5
  <1>10. OwnersKept'
    <2>1. registry' = registry
      BY DEF Discover
    <2> QED BY <1>1, <1>2, <1>4, <2>1
            DEF OwnersKept, Discovers, Steady, Scans, Reading, Attempts
  <1>11. ReadTrue' /\ CommitTrue'
    BY <1>1 DEF ReadTrue, CommitTrue, Attempts
  <1> QED BY <1>3, <1>7, <1>8, <1>9, <1>10, <1>11 DEF SInv

(* The files the walk has found are the report's scope. *)
LEMMA DiscoverDoneKeeps ==
  ASSUME TypeOK, SInv, DiscoverDone
  PROVE  TypeOK' /\ SInv'
  <1> DEFINE r == [job.report EXCEPT !.scope = job.todo]
  <1>1. IsJob(job) /\ job.report \in SessionReport /\ job.todo \subseteq Path
    BY DEF TypeOK, IsJob
  <1>2. /\ r \in SessionReport /\ r.scope = job.todo
        /\ r.full = job.report.full /\ r.reported = job.report.reported
        /\ r.outcome = job.report.outcome /\ r.complete = job.report.complete
    BY <1>1 DEF SessionReport
  <1>3. job' = [job EXCEPT !.report = r]
    BY <1>1 DEF DiscoverDone, IsJob
  <1> HIDE DEF r
  <1>4. /\ IsJob(job') /\ job'.report = r
        /\ job'.existing = job.existing /\ job'.roots = job.roots /\ job'.todo = job.todo
        /\ job'.seen = job.seen /\ job'.registry = job.registry /\ job'.cache = job.cache
        /\ job'.path = job.path /\ job'.checkpoint = job.checkpoint
        /\ job'.read = job.read
    BY <1>1, <1>2, <1>3 DEF IsJob
  <1>5. /\ pc = "discover" /\ pc' = "scan" /\ job.roots = {} /\ Steady /\ registry' = registry
    BY DEF DiscoverDone, Steady, envVars, storeVars, SameOwners, TypeOK
  <1>6. TypeOK'
    BY <1>4, <1>5, SteadyType DEF Scans
  <1>7. /\ RunHeld /\ OwnScope /\ Found /\ OwnersKept /\ ReadTrue /\ CommitTrue
        /\ RowsTrue /\ LedgerTrue /\ LedgerRebuilt
    BY DEF SInv
  <1>8. InScope' = InScope /\ (Precise' <=> Precise)
    BY <1>5 DEF Steady, InScope, Precise
  <1>9. job.todo \cup job.seen \subseteq InScope
    BY <1>5, <1>7 DEF OwnScope, Scans
  <1>10. RunHeld' /\ RowsTrue' /\ LedgerTrue' /\ LedgerRebuilt'
    <2>1. /\ job'.report.reported = job.report.reported /\ job'.report.scope \subseteq InScope
          /\ Precise => job'.report.complete
      BY <1>2, <1>4, <1>5, <1>7, <1>9 DEF LedgerRebuilt, Scans
    <2>2. pc \in Scans /\ pc' \in Scans \ {"publish"}
      BY <1>5 DEF Scans
    <2> QED BY <1>5, <1>7, <2>1, <2>2, SteadyKeeps
  <1>11. OwnScope'
    <2>1. rows' = rows /\ ledger' = ledger /\ Current = {} /\ Current' = {}
      BY <1>5 DEF Steady, Current
    <2> QED BY <1>2, <1>4, <1>5, <1>7, <1>8, <1>9, <2>1
            DEF OwnScope, Scans, Reading, Attempts
  <1>12. Found'
    <2>1. \A p \in Path : Noticed(p) => Noticed(p)'
      BY <1>5, SteadyNotices
    <2>2. \A p \in Path : IsFile(p)' <=> IsFile(p)
      BY <1>5 DEF Steady, IsFile
    <2>3. pc \in Scans
      BY <1>5 DEF Scans
    <2> QED BY <1>2, <1>4, <1>7, <1>8, <2>1, <2>2, <2>3 DEF Found, InScope
  <1>13. OwnersKept'
    BY <1>4, <1>5, <1>7 DEF OwnersKept, Steady, Scans, Reading, Attempts
  <1>14. ReadTrue' /\ CommitTrue'
    BY <1>5 DEF ReadTrue, CommitTrue, Attempts
  <1> QED BY <1>6, <1>10, <1>11, <1>12, <1>13, <1>14 DEF SInv

(***************************************************************************)
(* Steps about the file the scan is at that report nothing: what is left   *)
(* to do, what is done and the report stay.                                *)
(***************************************************************************)
SameScan ==
    /\ job'.existing = job.existing /\ job'.roots = job.roots /\ job'.todo = job.todo
    /\ job'.seen = job.seen /\ job'.report = job.report

(* A step that changes the read and the ownership alone keeps the rest. *)
LEMMA SameScanKeeps ==
  ASSUME TypeOK, SInv, Steady, IsJob(job'), SameScan,
         pc \in {"scan"} \cup Reading, pc' \in Reading,
         pc' = "read" => job'.read = NewRead,
         job'.path \in job.todo, job'.checkpoint => Present(rows[job'.path]),
         OwnersKept', ReadTrue'
  PROVE  TypeOK' /\ SInv'
  <1>1. /\ RunHeld /\ OwnScope /\ Found /\ OwnersKept /\ ReadTrue /\ CommitTrue
        /\ RowsTrue /\ LedgerTrue /\ LedgerRebuilt
    BY DEF SInv
  <1>2. /\ pc \in Scans /\ pc' \in Scans
        /\ pc \notin {"discover", "commit", "publish", "finish"}
        /\ pc' \notin {"discover", "scan", "commit", "publish", "finish"}
    BY DEF Scans, Reading, Attempts
  <1>3. job.todo \subseteq Path
    BY DEF TypeOK, IsJob
  <1>4. TypeOK'
    BY <1>2, <1>3, SteadyType
  <1>5. InScope' = InScope /\ (Precise' <=> Precise)
    BY DEF Steady, InScope, Precise
  <1>6. RunHeld' /\ RowsTrue' /\ LedgerTrue' /\ LedgerRebuilt'
    <2>1. /\ job'.report.reported = job.report.reported /\ job'.report.scope \subseteq InScope
          /\ Precise => job'.report.complete
      BY <1>1, <1>2 DEF SameScan, LedgerRebuilt
    <2> QED BY <1>1, <1>2, <2>1, SteadyKeeps
  <1>7. OwnScope'
    <2>1. rows' = rows /\ ledger' = ledger /\ Current = {} /\ Current' = {}
      BY <1>2 DEF Steady, Current
    <2>2. pc' \in Attempts \/ job'.read = NewRead
      BY DEF Reading
    <2> QED BY <1>1, <1>2, <1>5, <2>1, <2>2 DEF OwnScope, SameScan
  <1>8. Found'
    <2>1. \A p \in Path : Noticed(p) => Noticed(p)'
      BY SteadyNotices
    <2>2. \A p \in Path : IsFile(p)' <=> IsFile(p)
      BY DEF Steady, IsFile
    <2> QED BY <1>1, <1>2, <1>5, <2>1, <2>2 DEF Found, InScope, SameScan
  <1>9. CommitTrue'
    BY <1>2 DEF CommitTrue
  <1> QED BY <1>4, <1>6, <1>7, <1>8, <1>9 DEF SInv

(* The scan's locals but for those of the read. *)
Alike(j) ==
    /\ IsJob(j) /\ j.existing = job.existing /\ j.roots = job.roots /\ j.todo = job.todo
    /\ j.seen = job.seen /\ j.registry = job.registry /\ j.cache = job.cache
    /\ j.report = job.report /\ j.path = job.path

(* The locals with which an attempt is repeated are the scan's. *)
LEMMA AlikeVariants ==
  ASSUME TypeOK
  PROVE  /\ Alike(job)
         /\ \A read : IsRead(read) => Alike([job EXCEPT !.read = read])
         /\ \A j : Alike(j) => /\ Alike([j EXCEPT !.checkpoint = FALSE])
                               /\ Alike([j EXCEPT !.attempts = @ + 1])
                               /\ [j EXCEPT !.checkpoint = FALSE].checkpoint = FALSE
                               /\ [j EXCEPT !.attempts = @ + 1].checkpoint = j.checkpoint
  <1>1. IsJob(job)
    BY DEF TypeOK
  <1>2. Alike(job)
    BY <1>1 DEF Alike
  <1>3. ASSUME NEW read, IsRead(read) PROVE Alike([job EXCEPT !.read = read])
    BY <1>1, <1>3 DEF Alike, IsJob
  <1>4. ASSUME NEW j, Alike(j)
        PROVE  /\ Alike([j EXCEPT !.checkpoint = FALSE])
               /\ [j EXCEPT !.checkpoint = FALSE].checkpoint = FALSE
    <2> DEFINE k == [j EXCEPT !.checkpoint = FALSE]
    <2>1. /\ IsJob(k) /\ k.checkpoint = FALSE
          /\ k.existing = j.existing /\ k.roots = j.roots /\ k.todo = j.todo
          /\ k.seen = j.seen /\ k.registry = j.registry /\ k.cache = j.cache
          /\ k.report = j.report /\ k.path = j.path
      <3>1. IsJob(j)
        BY <1>4 DEF Alike
      <3> DEFINE b == FALSE
      <3>2. b \in BOOLEAN /\ b = FALSE /\ k = [j EXCEPT !.checkpoint = b]
        OBVIOUS
      <3> HIDE DEF b, k
      <3> QED BY <3>1, <3>2 DEF IsJob
    <2> HIDE DEF k
    <2>2. Alike(k) /\ k.checkpoint = FALSE
      BY <1>4, <2>1 DEF Alike
    <2> QED BY <2>2 DEF k
  <1>5. ASSUME NEW j, Alike(j)
        PROVE  /\ Alike([j EXCEPT !.attempts = @ + 1])
               /\ [j EXCEPT !.attempts = @ + 1].checkpoint = j.checkpoint
    <2> DEFINE n == j.attempts + 1
    <2>1. [j EXCEPT !.attempts = @ + 1] = [j EXCEPT !.attempts = n]
      BY <1>5 DEF Alike, IsJob
    <2> HIDE DEF n
    <2> QED BY <1>5, <2>1 DEF Alike, IsJob
  <1> QED BY <1>2, <1>3, <1>4, <1>5

(* A step that touches neither the disk nor the controller nor the ledger. *)
Untouched == UNCHANGED <<files, content, events, registry, ctl, ledger, ticket>>

(* A read begun anew. *)
LEMMA RetryKeeps ==
  ASSUME TypeOK, SInv, Untouched, pc \in Reading, NEW j, Alike(j),
         j.checkpoint => Present(rows[job.path]), RetryWith(j)
  PROVE  TypeOK' /\ SInv'
  <1>1. /\ IsJob(job') /\ job'.read = NewRead /\ SameScan
        /\ job'.registry = job.registry /\ job'.cache = job.cache
        /\ job'.path = job.path /\ job'.checkpoint = j.checkpoint
    BY RetryDoes DEF Alike, SameScan
  <1>2. Steady /\ registry' = registry
    BY DEF Untouched, RetryWith, storeVars, Steady, SameOwners, TypeOK
  <1>3. pc' = "read"
    BY DEF RetryWith
  <1>4. OwnersKept /\ job.path \in job.todo
    <2>1. pc \in Scans
      BY DEF Scans
    <2> QED BY <2>1 DEF SInv, OwnScope
  <1>5. OwnersKept'
    BY <1>1, <1>2, <1>3, <1>4 DEF OwnersKept, Steady, Scans, Reading, Attempts
  <1>6. ReadTrue'
    BY <1>3 DEF ReadTrue, Attempts
  <1> QED BY <1>1, <1>2, <1>3, <1>4, <1>5, <1>6, SameScanKeeps DEF Reading


(* A path done with that has no searchable row: either a change of it is yet *)
(* to come, or the outcome says why.                                         *)
Settles(p, o) ==
    /\ IsJob(job') /\ pc' = "publish"
    /\ job'.path = p /\ job'.todo = job.todo \ {p} /\ job'.seen = job.seen \cup {p}
    /\ job'.outcome = o /\ job'.read = NewRead
    /\ job'.existing = job.existing /\ job'.roots = job.roots
    /\ job'.registry = job.registry /\ job'.cache = job.cache
    /\ job'.report = job.report

(* A path is settled with an outcome that is true of it, or is noticed. *)
LEMMA SettlesKeeps ==
  ASSUME TypeOK, SInv, Untouched, pc \in {"scan"} \cup Reading,
         NEW p \in InScope, p \notin job.seen, NEW o \in SessionOutcome,
         Settles(p, o), RemoveOld(p), Noticed(p) \/ Unindexed(p, o)
  PROVE  TypeOK' /\ SInv'
  <1>1. /\ RunHeld /\ OwnScope /\ Found /\ OwnersKept /\ ReadTrue /\ CommitTrue
        /\ RowsTrue /\ LedgerTrue /\ LedgerRebuilt
    BY DEF SInv
  <1>2. /\ IsJob(job') /\ pc' = "publish" /\ p \in Path
        /\ job'.path = p /\ job'.todo = job.todo \ {p} /\ job'.seen = job.seen \cup {p}
        /\ job'.outcome = o /\ job'.read = NewRead
        /\ job'.existing = job.existing /\ job'.roots = job.roots
        /\ job'.registry = job.registry /\ job'.cache = job.cache
        /\ job'.report = job.report
    BY DEF Settles, InScope
  <1>3. /\ rows' \in [Path -> SessionRow]
        /\ docs' = [q \in Path |-> docs'[q]] /\ \A q \in Path : IsDocs(docs'[q])
        /\ \A q \in Path \ {p} : rows'[q] = rows[q] /\ docs'[q] = docs[q]
        /\ IF job.existing[p] = NoVersion THEN rows'[p] = rows[p] /\ docs'[p] = docs[p]
                                          ELSE rows'[p] = NoRow
    BY <1>2, RemoveOldStore
  <1>4. /\ pc \in Scans /\ pc' \in Scans
        /\ pc \notin {"discover", "commit", "publish", "finish", "idle"} \cup Before
        /\ pc' \notin {"discover", "scan", "commit", "finish", "idle"} \cup Before \cup Reading
    BY <1>2 DEF Scans, Reading, Attempts, Before
  <1>5. TypeOK'
    BY <1>2, <1>3, <1>4 DEF TypeOK, Untouched
  <1>6. InScope' = InScope /\ (Precise' <=> Precise) /\ ctl' = ctl /\ ticket' = ticket
    BY DEF Untouched, InScope, Precise
  <1>7. SameOwners /\ \A q \in Path \ {p} : StillAt(q)
    BY <1>3 DEF Untouched, StillAt, SameOwners
  <1>8. \A q \in Path : Noticed(q) => Noticed(q)'
    BY DEF Untouched, Noticed
  <1>9. p \in InScope /\ p \notin job.seen /\ p \notin job.report.reported
    BY <1>1, <1>4 DEF OwnScope
  <1>10. ~Present(rows'[p]) /\ ~rows'[p].eligible
    BY <1>1, <1>3, <1>4, <1>9 DEF OwnScope, NoRow, Present
  <1>11. RunHeld'
    BY <1>1, <1>4, <1>6 DEF RunHeld
  <1>12. OwnScope'
    <2>1. Current = {} /\ Current' = {p} /\ ledger' = ledger
      BY <1>2, <1>4 DEF Current, Untouched
    <2>2. /\ job.todo \cup job.seen \subseteq InScope /\ job.todo \cap job.seen = {}
          /\ job.report.reported \subseteq job.seen /\ job.seen = job.report.reported \cup {}
          /\ job.report.full <=> ~Precise
          /\ job.roots = {}
          /\ \A q \in Path : job.existing[q] # NoVersion => q \in InScope
          /\ \A q \in InScope \ job.seen :
                ~rows[q].eligible /\ rows[q].version = job.existing[q]
          /\ \A q \in job.report.reported : ledger.sources[q] = job.report.outcome[q]
      BY <1>1, <1>4, <2>1 DEF OwnScope
    <2>3. \A q \in InScope \ job'.seen :
                ~rows'[q].eligible /\ rows'[q].version = job.existing[q]
      BY <1>2, <1>3, <2>2 DEF InScope
    <2>4. /\ job'.todo \cup job'.seen \subseteq InScope /\ job'.todo \cap job'.seen = {}
          /\ job'.seen = job'.report.reported \cup {p}
          /\ job'.report.reported \subseteq job'.seen /\ p \notin job'.report.reported
      BY <1>2, <1>9, <2>2
    <2> QED BY <1>2, <1>4, <1>6, <2>1, <2>2, <2>3, <2>4 DEF OwnScope
  <1>13. Found'
    <2>1. \A q \in Path : IsFile(q)' <=> IsFile(q)
      BY DEF Untouched, IsFile
    <2> QED BY <1>1, <1>2, <1>4, <1>6, <1>8, <2>1 DEF Found, InScope
  <1>14. OwnersKept'
    <2>1. registry' = registry /\ pc' \notin Attempts \cup {"verify", "commit"}
      BY <1>2 DEF Untouched, Attempts
    <2>2. ~RegisterDuringScan => \A q \in Path :
             Present(rows'[q]) => OwnedUnder(docs'[q].revision, q, docs'[q].prefix)
      BY <1>1, <1>3, <1>10 DEF OwnersKept
    <2> QED BY <1>1, <1>2, <1>4, <2>1, <2>2 DEF OwnersKept
  <1>15. ReadTrue' /\ CommitTrue'
    BY <1>2 DEF ReadTrue, CommitTrue, Attempts
  <1>16. RowsTrue'
    <2>1. \A q \in Path \ {p} : RowTrue(q) => RowTrue(q)'
      BY <1>7, StillRow
    <2> QED BY <1>1, <1>3, <1>4, <1>8, <1>10, <2>1, Zenon DEF RowsTrue, Before
  <1>17. LedgerTrue'
    <2>1. \A q \in Path \ {p} : EntryTrue(q) => EntryTrue(q)'
      BY <1>7, StillEntry DEF Untouched
    <2>2. Rest' = Rest /\ p \in Rest
      BY <1>2, <1>4, <1>6, <1>9 DEF Rest
    <2>3. Noticed(p)' \/ Unindexed(p, o)'
      BY <1>2, <1>7, <1>8, StillUnindexed DEF Untouched
    <2>4. Noticed(p)' \/ Tells(p, o)'
      BY <1>10, <2>3 DEF Tells
    <2>5. job'.path = p /\ job'.outcome = o
      BY <1>2
    <2> QED BY <1>1, <1>8, <2>1, <2>2, <2>4, <2>5 DEF LedgerTrue
  <1>18. LedgerRebuilt'
    <2>1. Rest' = Rest /\ ledger' = ledger
      BY <1>2, <1>4, <1>6 DEF Rest, Untouched
    <2> QED BY <1>1, <1>2, <1>4, <1>6, <2>1 DEF LedgerRebuilt
  <1> QED BY <1>5, <1>11, <1>12, <1>13, <1>14, <1>15, <1>16, <1>17, <1>18 DEF SInv

(* Settle does so, with locals that are the scan's. *)
LEMMA SettleKeeps ==
  ASSUME TypeOK, SInv, Untouched, pc \in {"scan"} \cup Reading, NEW j, Alike(j),
         NEW p \in Path, p \in job.todo, NEW o \in SessionOutcome, Settle(j, p, o),
         Noticed(p) \/ Unindexed(p, o)
  PROVE  TypeOK' /\ SInv'
  <1>1. Settles(p, o)
    <2>1. IsJob(j)
      BY DEF Alike
    <2>2. /\ IsJob(job') /\ pc' = "publish"
          /\ job'.path = p /\ job'.todo = j.todo \ {p} /\ job'.seen = j.seen \cup {p}
          /\ job'.outcome = o /\ job'.read = NewRead /\ job'.checkpoint = FALSE
          /\ job'.existing = j.existing /\ job'.roots = j.roots
          /\ job'.registry = j.registry /\ job'.cache = j.cache /\ job'.report = j.report
      BY <2>1, SettleJob
    <2> QED BY <2>2 DEF Alike, Settles
  <1>2. p \in InScope /\ p \notin job.seen
    <2>1. pc \in Scans
      BY DEF Scans
    <2> QED BY <2>1 DEF SInv, OwnScope
  <1> QED BY <1>1, <1>2, SettlesKeeps DEF Settle

(* An attempt that comes to nothing is repeated, or is an error. *)
LEMMA AttemptFailsKeeps ==
  ASSUME TypeOK, SInv, Untouched, pc \in Reading, NEW unstable, AttemptFails(job, unstable)
  PROVE  TypeOK' /\ SInv'
  <1>1. /\ Alike(job) /\ Alike([job EXCEPT !.checkpoint = FALSE])
        /\ Alike([job EXCEPT !.attempts = @ + 1])
        /\ [job EXCEPT !.checkpoint = FALSE].checkpoint = FALSE
        /\ [job EXCEPT !.attempts = @ + 1].checkpoint = job.checkpoint
    BY AlikeVariants
  <1>2. /\ pc \in Scans /\ OwnScope /\ ReadTrue
    BY DEF SInv, Scans
  <1>3. job.path \in job.todo /\ job.path \in Path /\ IsRead(job.read)
    BY <1>2 DEF OwnScope, TypeOK, IsJob
  <1>4. CASE RetryWith([job EXCEPT !.checkpoint = FALSE])
    BY <1>1, <1>4, RetryKeeps
  <1>5. CASE ~job.checkpoint /\ RetryWith([job EXCEPT !.attempts = @ + 1])
    BY <1>1, <1>5, RetryKeeps
  <1>6. CASE Settle(job, job.path, [Failed EXCEPT !.pending = job.read.tail])
    <2> DEFINE t == job.read.tail
               o == [Failed EXCEPT !.pending = t]
    <2>1. t \in BOOLEAN
      BY <1>3 DEF IsRead
    <2>2. o \in SessionOutcome
      BY <2>1, SessionTypes
    <2>3. /\ o.version = NoVersion /\ o.known = TRUE /\ o.errors = TRUE
          /\ o.excluded = FALSE /\ o.pending = t
      BY DEF Failed
    <2>4. Noticed(job.path) \/ ~t \/ files[job.path] # Absent
      <3>1. CASE pc = "read"
        BY <1>2, <3>1 DEF OwnScope, NewRead, Attempts
      <3>2. CASE pc \in Attempts
        <4>1. Noticed(job.path) \/ files[job.path] = job.read.identity
          BY <1>2, <3>2 DEF ReadTrue, ReadIs, Unmoved
        <4>2. job.read.identity \in DOMAIN content[job.path]
          BY <1>2, <3>2 DEF ReadTrue, ReadIs
        <4>3. content[job.path] \in Seq(File)
          BY <1>3 DEF TypeOK
        <4> QED BY <4>1, <4>2, <4>3 DEF Absent
      <3> QED BY <3>1, <3>2 DEF Reading
    <2> HIDE DEF t, o
    <2>5. Noticed(job.path) \/ Unindexed(job.path, o)
      BY <2>3, <2>4 DEF Unindexed
    <2>6. PICK p \in Path, w \in SessionOutcome : p = job.path /\ w = o
      BY <1>3, <2>2
    <2>7. Settle(job, p, w) /\ p \in job.todo
      BY <1>3, <1>6, <2>6 DEF o, t
    <2>8. Noticed(p) \/ Unindexed(p, w)
      BY <2>5, <2>6 DEF Unindexed
    <2> QED BY <1>1, <2>6, <2>7, <2>8, SettleKeeps
  <1> QED BY <1>4, <1>5, <1>6 DEF AttemptFails

(* An attempt that is rejected is repeated, or settled with an exclusion. *)
LEMMA RejectKeeps ==
  ASSUME TypeOK, SInv, Untouched, pc \in Reading, NEW read, IsRead(read),
         NEW o \in SessionOutcome, Noticed(job.path) \/ Unindexed(job.path, o),
         Reject([job EXCEPT !.read = read], o)
  PROVE  TypeOK' /\ SInv'
  <1> DEFINE j == [job EXCEPT !.read = read]
  <1>1. /\ Alike(j) /\ Alike([j EXCEPT !.checkpoint = FALSE])
        /\ [j EXCEPT !.checkpoint = FALSE].checkpoint = FALSE
    BY AlikeVariants
  <1>2. job.path \in job.todo /\ job.path \in Path
    <2>1. pc \in Scans
      BY DEF Scans
    <2> QED BY <2>1 DEF SInv, OwnScope, TypeOK, IsJob
  <1>3. CASE RetryWith([j EXCEPT !.checkpoint = FALSE])
    BY <1>1, <1>3, RetryKeeps
  <1>4. CASE Settle(j, j.path, o)
    <2>1. PICK p \in Path : p = job.path
      BY <1>2
    <2>2. Settle(j, p, o) /\ p \in job.todo
      BY <1>1, <1>2, <1>4, <2>1 DEF Alike
    <2>3. Noticed(p) \/ Unindexed(p, o)
      BY <2>1 DEF Unindexed
    <2> HIDE DEF j
    <2> QED BY <1>1, <2>2, <2>3, SettleKeeps
  <1> QED BY <1>3, <1>4 DEF Reject

(* The scan looks at a file it is to read. *)
LEMMA StatFileKeeps ==
  ASSUME TypeOK, SInv, NEW p \in Path, StatFile(p)
  PROVE  TypeOK' /\ SInv'
  <1>1. Untouched /\ pc = "scan" /\ p \in job.todo /\ Alike(job)
    BY AlikeVariants DEF StatFile, Untouched, envVars
  <1>2. CASE Settle(job, p, NoOutcome) /\ files[p] = Absent
    <2>1. ~IsFile(p)
      BY <1>2 DEF IsFile, Absent
    <2>2. Unindexed(p, NoOutcome)
      BY <2>1 DEF Unindexed, NoOutcome, Owned
    <2> QED BY <1>1, <1>2, <2>2, SessionTypes, SettleKeeps
  <1>3. CASE Settle(job, p, ExcludedWith(FALSE, FALSE)) /\ files[p] = NotFile
    <2>1. ~IsFile(p) /\ files[p] # Absent
      BY <1>3 DEF IsFile, Absent, NotFile
    <2>2. Unindexed(p, ExcludedWith(FALSE, FALSE))
      BY <2>1 DEF Unindexed, ExcludedWith, Owned
    <2> QED BY <1>1, <1>3, <2>2, SessionTypes, SettleKeeps
  <1>4. CASE Settle(job, p, Failed)
    <2>1. Unindexed(p, Failed)
      BY DEF Unindexed, Failed
    <2> QED BY <1>1, <1>4, <2>1, SessionTypes, SettleKeeps
  <1>5. CASE /\ job' = [job EXCEPT !.path = p, !.checkpoint = Present(rows[p]), !.attempts = 0]
             /\ pc' = "read" /\ UNCHANGED storeVars
    <2>1. IsJob(job) /\ OwnScope /\ OwnersKept
      BY DEF TypeOK, SInv
    <2>2. /\ IsJob(job') /\ SameScan /\ job'.path = p /\ job'.checkpoint = Present(rows[p])
          /\ job'.read = job.read /\ job'.registry = job.registry /\ job'.cache = job.cache
      BY <1>5, <2>1 DEF IsJob, SameScan, Present
    <2>3. Steady /\ registry' = registry
      BY <1>1, <1>5 DEF Untouched, storeVars, Steady, SameOwners, TypeOK
    <2>4. job.read = NewRead
      BY <1>1, <2>1 DEF OwnScope, Scans, Attempts
    <2>5. OwnersKept'
      BY <1>1, <1>5, <2>1, <2>2, <2>3 DEF OwnersKept, Steady, Scans, Reading, Attempts
    <2>6. ReadTrue'
      BY <1>5 DEF ReadTrue, Attempts
    <2> QED BY <1>1, <1>5, <2>2, <2>3, <2>4, <2>5, <2>6, SameScanKeeps DEF Reading
  <1> QED BY <1>2, <1>3, <1>4, <1>5 DEF StatFile

(* A read that fails keeps the invariant. *)
LEMMA ReadFailsKeeps ==
  ASSUME TypeOK, SInv, ReadFails
  PROVE  TypeOK' /\ SInv'
  <1>1. Untouched /\ pc \in Reading /\ AttemptFails(job, FALSE)
    BY DEF ReadFails, Untouched, envVars, Reading, Attempts
  <1> QED BY <1>1, AttemptFailsKeeps

(***************************************************************************)
(* read_file.                                                              *)
(***************************************************************************)
LEMMA SameRegistryAgrees ==
  ASSUME NEW known PROVE Agree(known, known)
  BY DEF Agree

(* A read that begins holds nothing yet, and knows whether it may append. *)
LEMMA StartReadKeeps ==
  ASSUME TypeOK, SInv, StartRead
  PROVE  TypeOK' /\ SInv'
  <1>1. Untouched /\ pc = "read" /\ pc \in Reading
    BY DEF StartRead, Untouched, envVars, Reading
  <1>2. CASE ~IsFile(job.path)
    BY <1>1, <1>2, AttemptFailsKeeps DEF StartRead
  <1>3. CASE IsFile(job.path)
    <2> DEFINE p == job.path
               new == [NewRead EXCEPT !.identity = files[p], !.revision = registry]
               appending == [new EXCEPT !.append = TRUE, !.mine = TRUE,
                                        !.line = docs[p].nextLine, !.from = docs[p].offset]
               read == IF CanAppend(p) THEN appending ELSE new
    <2>1. /\ job' = [job EXCEPT !.read = read] /\ pc' = "stream" /\ UNCHANGED storeVars
      BY <1>3 DEF StartRead
    <2>2. /\ IsJob(job) /\ OwnScope /\ OwnersKept /\ pc \in Scans /\ p \in Path
          /\ p \in job.todo /\ (job.checkpoint => Present(rows[p]))
      BY <1>1 DEF TypeOK, SInv, OwnScope, Scans, Reading, IsJob
    <2>3. docs[p].offset \in Nat /\ docs[p].nextLine \in Nat
      BY <2>2 DEF TypeOK, IsDocs
    <2>4. /\ IsRead(read) /\ read.streamed = <<>> /\ read.identity = files[p]
          /\ read.revision = registry /\ read.append = CanAppend(p)
          /\ read.from = IF CanAppend(p) THEN docs[p].offset ELSE 0
          /\ ~read.other /\ ~read.unknown /\ ~read.saw
      <3>1. CanAppend(p) \in BOOLEAN
        BY DEF CanAppend
      <3>2. /\ IsRead(NewRead) /\ NewRead.streamed = <<>> /\ NewRead.append = FALSE
            /\ NewRead.from = 0
            /\ ~NewRead.other /\ ~NewRead.unknown /\ ~NewRead.saw
        BY NewReadType DEF NewRead
      <3>3. /\ IsRead(new) /\ new.streamed = <<>> /\ new.identity = files[p]
            /\ new.revision = registry /\ new.append = FALSE /\ new.from = 0
            /\ ~new.other /\ ~new.unknown /\ ~new.saw
        <4> DEFINE i == files[p]
                   g == registry
                   base == NewRead
        <4>1. IsRead(base) /\ base.streamed = <<>> /\ base.append = FALSE /\ base.from = 0
              /\ ~base.other /\ ~base.unknown /\ ~base.saw
          BY <3>2
        <4>2. new = [base EXCEPT !.identity = i, !.revision = g]
          OBVIOUS
        <4> HIDE DEF i, g, base, new
        <4>3. /\ IsRead(new) /\ new.streamed = <<>> /\ new.identity = i
              /\ new.revision = g /\ new.append = FALSE /\ new.from = 0
              /\ ~new.other /\ ~new.unknown /\ ~new.saw
          BY <4>1, <4>2 DEF IsRead
        <4> QED BY <4>3 DEF i, g
      <3> HIDE DEF new
      <3>4. /\ IsRead(appending) /\ appending.streamed = <<>>
            /\ appending.identity = files[p] /\ appending.revision = registry
            /\ appending.append = TRUE /\ appending.from = docs[p].offset
            /\ ~appending.other /\ ~appending.unknown /\ ~appending.saw
        <4> DEFINE n == docs[p].nextLine
                   o == docs[p].offset
        <4>1. n \in Nat /\ o \in Nat
          BY <2>3
        <4>2. appending = [new EXCEPT !.append = TRUE, !.mine = TRUE, !.line = n, !.from = o]
          OBVIOUS
        <4> HIDE DEF n, o, appending
        <4>3. /\ IsRead(appending) /\ appending.streamed = <<>>
              /\ appending.identity = files[p] /\ appending.revision = registry
              /\ appending.append = TRUE /\ appending.from = o
              /\ ~appending.other /\ ~appending.unknown /\ ~appending.saw
          BY <3>3, <4>1, <4>2 DEF IsRead
        <4> QED BY <4>3 DEF o
      <3> HIDE DEF appending
      <3> QED BY <3>1, <3>3, <3>4
    <2> HIDE DEF read
    <2>5. /\ IsJob(job') /\ SameScan /\ job'.path = p /\ job'.checkpoint = job.checkpoint
          /\ job'.read = read /\ job'.registry = job.registry /\ job'.cache = job.cache
      BY <2>1, <2>2, <2>4 DEF IsJob, SameScan
    <2>6. Steady /\ registry' = registry
      BY <1>1, <2>1 DEF Untouched, storeVars, Steady, SameOwners, TypeOK
    <2>7. PICK q, x : q \in Path /\ q = p /\ x = read
      BY <2>2
    <2>8. OwnersKept'
      <3>1. Attributed(q, x)'
        <4>1. /\ x.streamed = <<>> /\ x.revision = registry' /\ ~x.other /\ ~x.saw
              /\ docs' = docs
          BY <2>4, <2>6, <2>7 DEF Steady
        <4>2. x.append => docs'[q].revision = registry'
          BY <2>4, <2>6, <2>7, <4>1 DEF CanAppend
        <4>3. DOMAIN x.streamed = {}
          BY <4>1
        <4> QED BY <4>1, <4>2, <4>3, SameRegistryAgrees DEF Attributed
      <3> QED BY <2>1, <2>2, <2>5, <2>6, <2>7, <3>1
              DEF OwnersKept, Steady, Attempts, Reading, Scans
    <2>9. ReadTrue'
      <3>1. files[p] \in DOMAIN content[p] /\ FileAt(p).records \in Seq(DOMAIN Tree)
        BY <1>3, <2>2, FileTypes
      <3>2. Len(FileAt(p).records) \in Nat
        BY <3>1
      <3>3. Position(read) <= Len(FileAt(p).records)
        BY <2>3, <2>4, <3>2 DEF Position, CanAppend
      <3>4. read.append => job.checkpoint
        BY <2>4 DEF CanAppend
      <3>5. Unmoved(q, x)
        BY <2>4, <2>7, <3>3 DEF Unmoved, FileAt
      <3>6. Unmoved(q, x)'
        BY <2>6, <3>5 DEF Unmoved, FileAt, Steady
      <3>7. ReadIs(q, x)'
        BY <2>4, <2>6, <2>7, <3>1, <3>6 DEF ReadIs, Steady
      <3> QED BY <2>5, <2>7, <3>4, <3>7 DEF ReadTrue
    <2> QED BY <1>1, <2>1, <2>2, <2>4, <2>5, <2>6, <2>8, <2>9, SameScanKeeps
            DEF Reading, Attempts
  <1> QED BY <1>2, <1>3

(* Whose a record is settled by the registry, or does not depend on it. *)
LEMMA AttributeRead ==
  ASSUME NEW read, IsRead(read), NEW owner
  PROVE  LET n == Attribute(read, owner) IN
         /\ IsRead(n) /\ n.streamed = read.streamed
         /\ n.identity = read.identity /\ n.append = read.append
         /\ n.revision = read.revision /\ n.from = read.from /\ n.saw = TRUE
         /\ n.other = (read.other \/ owner \notin {Owner, None})
         /\ n.unknown = (read.unknown \/ owner = None)
  <1> DEFINE m == read.mine \/ owner = Owner
             o == read.other \/ owner \notin {Owner, None}
             u == read.unknown \/ owner = None
             n == Attribute(read, owner)
  <1>1. m \in BOOLEAN /\ o \in BOOLEAN /\ u \in BOOLEAN
    BY DEF IsRead
  <1>2. n = [read EXCEPT !.saw = TRUE, !.mine = m, !.other = o, !.unknown = u]
    BY DEF Attribute, IsRead
  <1> HIDE DEF m, o, u, n
  <1>3. IsRead(n)
    <2>1. n = [identity |-> read.identity, append |-> read.append, revision |-> read.revision,
               line |-> read.line, from |-> read.from, streamed |-> read.streamed,
               saw |-> TRUE, mine |-> m, other |-> o, unknown |-> u, hint |-> read.hint,
               archive |-> read.archive, prepared |-> read.prepared,
               diagnostics |-> read.diagnostics, tail |-> read.tail]
      BY <1>2 DEF IsRead
    <2> HIDE DEF Attribute
    <2> QED BY <1>1, <2>1 DEF IsRead
  <1>4. /\ n.streamed = read.streamed
        /\ n.identity = read.identity /\ n.append = read.append
        /\ n.revision = read.revision /\ n.from = read.from /\ n.saw = TRUE
        /\ n.other = o /\ n.unknown = u
    BY <1>1, <1>2 DEF IsRead
  <1> QED BY <1>3, <1>4 DEF n, o, u

(* The file that is open holds the record that is streamed. *)
LEMMA OpenRecord ==
  ASSUME TypeOK, SInv, pc \in Attempts
  PROVE  /\ OpenFile \in File /\ Len(OpenFile.records) \in Nat
         /\ Position(job.read) \in Nat
         /\ Position(job.read) < Len(OpenFile.records) =>
               OpenFile.records[Position(job.read) + 1] \in DOMAIN Tree
  <1>1. pc \in Scans /\ job.path \in Path /\ IsRead(job.read)
    BY DEF Scans, Reading, SInv, OwnScope, TypeOK, IsJob, Attempts
  <1>2. job.read.identity \in DOMAIN content[job.path]
    BY DEF SInv, ReadTrue, ReadIs
  <1>3. OpenFile \in File
    <2>1. content[job.path] \in Seq(File)
      BY <1>1 DEF TypeOK
    <2> QED BY <1>2, <2>1 DEF OpenFile
  <1>4. OpenFile.records \in Seq(DOMAIN Tree)
    BY <1>3 DEF File
  <1>5. Position(job.read) \in Nat
    <2>1. job.read.from \in Nat /\ job.read.streamed \in Seq(DOMAIN Tree)
      BY <1>1 DEF IsRead
    <2>2. Len(job.read.streamed) \in Nat
      BY <2>1
    <2> QED BY <2>1, <2>2 DEF Position
  <1> DEFINE k == Position(job.read)
             s == OpenFile.records
  <1>6. Len(s) \in Nat /\ (k < Len(s) => s[k + 1] \in DOMAIN Tree)
    <2>1. k \in Nat /\ s \in Seq(DOMAIN Tree)
      BY <1>4, <1>5
    <2> HIDE DEF k, s
    <2> QED BY <2>1
  <1> QED BY <1>3, <1>5, <1>6

(* What streaming a record does to the locals of the scan. *)
Streamed(r, cwd, read) ==
    /\ r \in DOMAIN Tree /\ r = OpenFile.records[Position(job.read) + 1]
    /\ cwd = Named(job.path, r) /\ IsRead(read)
    /\ read.streamed = Append(job.read.streamed, r)
    /\ read.identity = job.read.identity /\ read.append = job.read.append
    /\ read.revision = job.read.revision /\ read.from = job.read.from
    /\ read.saw = (job.read.saw \/ cwd # None)
    /\ read.other = (job.read.other \/ (cwd # None /\ CwdOwner(cwd) \notin {Owner, None}))
    /\ read.unknown = (job.read.unknown \/ (cwd # None /\ CwdOwner(cwd) = None))
    /\ IsJob(job') /\ SameScan /\ job'.read = read
    /\ job'.path = job.path /\ job'.checkpoint = job.checkpoint
    /\ job'.cache = IF cwd = None THEN job.cache
                    ELSE InsertOrIgnore(job.cache, cwd, CwdOwner(cwd))
    /\ registry' = IF Remembers(cwd) THEN registry \cup {cwd} ELSE registry
    /\ job'.registry = IF Remembers(cwd) THEN registry' ELSE job.registry

(* StreamRecord does that, and writes to the registry what it remembers. *)
LEMMA StreamDoes ==
  ASSUME TypeOK, SInv, StreamRecord
  PROVE  \E r \in DOMAIN Tree : \E cwd, read : Streamed(r, cwd, read)
  <1> DEFINE p == job.path
             r == OpenFile.records[Position(job.read) + 1]
             cwd == CwdOf(Provider[p], r)
             read == Inspect(job.read, Provider[p], r)
             owner == CwdOwner(cwd)
             owned == Attribute(read, owner)
             cache == InsertOrIgnore(job.cache, cwd, owner)
             known == IF Remembers(cwd) THEN registry' ELSE job.registry
  <1>1. pc \in Attempts /\ IsJob(job) /\ IsRead(job.read)
    BY DEF StreamRecord, Attempts, TypeOK, IsJob
  <1>2. r \in DOMAIN Tree
    BY <1>1, OpenRecord DEF StreamRecord
  <1> HIDE DEF r
  <1>3. Streams(job.read, r, read)
    BY <1>1, <1>2, InspectRead
  <1>4. /\ IsRead(owned) /\ owned.streamed = read.streamed
        /\ owned.identity = read.identity /\ owned.append = read.append
        /\ owned.revision = read.revision /\ owned.from = read.from /\ owned.saw = TRUE
        /\ owned.other = (read.other \/ owner \notin {Owner, None})
        /\ owned.unknown = (read.unknown \/ owner = None)
    <2> HIDE DEF read, owner, owned
    <2>1. IsRead(read)
      BY <1>3 DEF Streams
    <2> QED BY <2>1, AttributeRead DEF owned
  <1>5. /\ registry' = IF Remembers(cwd) THEN registry \cup {cwd} ELSE registry
        /\ job' = IF cwd = None THEN [job EXCEPT !.read = read]
                  ELSE [job EXCEPT !.read = owned, !.cache = cache, !.registry = known]
    BY <1>1 DEF StreamRecord, r, IsJob
  <1> DEFINE n == IF cwd = None THEN read ELSE owned
  <1>6. /\ IsRead(n)
        /\ n.streamed = Append(job.read.streamed, r)
        /\ n.identity = job.read.identity /\ n.append = job.read.append
        /\ n.revision = job.read.revision /\ n.from = job.read.from
        /\ n.saw = (job.read.saw \/ cwd # None)
        /\ n.other = (job.read.other \/ (cwd # None /\ owner \notin {Owner, None}))
        /\ n.unknown = (job.read.unknown \/ (cwd # None /\ owner = None))
    <2>1. /\ IsRead(read) /\ read.streamed = Append(job.read.streamed, r)
          /\ read.identity = job.read.identity /\ read.append = job.read.append
          /\ read.revision = job.read.revision /\ read.from = job.read.from
          /\ read.saw = job.read.saw /\ read.other = job.read.other
          /\ read.unknown = job.read.unknown
      BY <1>3 DEF Streams
    <2>2. {job.read.saw, job.read.other, job.read.unknown} \subseteq BOOLEAN
      BY <1>1 DEF IsRead
    <2> HIDE DEF read, cwd, owner, owned
    <2> QED BY <1>4, <2>1, <2>2
  <1>7. cwd = None => ~Remembers(cwd)
    BY DEF Remembers
  <1> HIDE DEF read, cwd, owned, cache, known, owner
  <1>8. /\ IsJob(job') /\ SameScan /\ job'.read = n
        /\ job'.path = job.path /\ job'.checkpoint = job.checkpoint
        /\ job'.cache = IF cwd = None THEN job.cache ELSE cache
        /\ job'.registry = IF cwd = None THEN job.registry ELSE known
    <2>1. CASE cwd = None
      BY <1>1, <1>5, <1>6, <2>1 DEF IsJob, SameScan
    <2>2. CASE cwd # None
      BY <1>1, <1>5, <1>6, <2>2 DEF IsJob, SameScan
    <2> QED BY <2>1, <2>2
  <1>9. cwd = Named(p, r)
    BY DEF cwd, Named
  <1>10. Streamed(r, cwd, n)
    BY <1>2, <1>5, <1>6, <1>7, <1>8, <1>9 DEF Streamed, r, cache, known, owner
  <1> QED BY <1>2, <1>10

(* Only roots that a live Git repository names are added to the registry. *)
LEMMA RemembersSame ==
  ASSUME NEW cwd, registry' = IF Remembers(cwd) THEN registry \cup {cwd} ELSE registry
  PROVE  /\ SameOwners
         /\ \A known : Agree(known, registry) => Agree(known, registry')
  <1>1. SameOwners
    BY DEF SameOwners, OwnerUnder, Remembers
  <1>2. \A known : Agree(known, registry) => Agree(known, registry')
    BY DEF Agree, Remembers
  <1> QED BY <1>1, <1>2

(* What is cached, and what is not, is what the registry says. *)
LEMMA CwdOwnerIs ==
  ASSUME NEW cwd, Agree(job.registry, registry),
         \A x \in job.cache : x.value = OwnerUnder(registry, x.key)
  PROVE  /\ CwdOwner(cwd) = OwnerUnder(registry, cwd)
         /\ \A x \in InsertOrIgnore(job.cache, cwd, CwdOwner(cwd)) :
               x.value = OwnerUnder(registry, x.key)
  <1>1. CwdOwner(cwd) = OwnerUnder(registry, cwd)
    <2>1. CASE HasKey(job.cache, cwd)
      BY <2>1 DEF CwdOwner, HasKey, ValueAt
    <2>2. CASE ~HasKey(job.cache, cwd)
      BY <2>2 DEF CwdOwner, AssociateCwd, OwnerUnder, Agree
    <2> QED BY <2>1, <2>2
  <1> QED BY <1>1 DEF InsertOrIgnore

(* The read has seen of the new record, too, whose it is. *)
LEMMA StreamAttributed ==
  ASSUME TypeOK, SInv, StreamRecord, ~RegisterDuringScan,
         NEW r \in DOMAIN Tree, NEW cwd, NEW read, Streamed(r, cwd, read),
         NEW p, p = job.path
  PROVE  /\ Attributed(p, read)'
         /\ Agree(job'.registry, registry')
         /\ \A x \in job'.cache : x.value = OwnerUnder(registry', x.key)
  <1> DEFINE old == job.read
             n == Len(old.streamed)
             known == registry
  <1>1. pc = "stream" /\ pc \in Scans /\ pc \in Attempts /\ UNCHANGED docs
    BY DEF StreamRecord, Scans, Reading, Attempts, storeVars
  <1>2. /\ Agree(job.registry, registry)
        /\ \A x \in job.cache : x.value = OwnerUnder(registry, x.key)
        /\ Attributed(p, old)
    BY <1>1 DEF SInv, OwnersKept
  <1>3. /\ \A c : OwnerUnder(registry', c) = OwnerUnder(registry, c)
        /\ \A k : Agree(k, registry) => Agree(k, registry')
    BY RemembersSame DEF Streamed, SameOwners
  <1>4. /\ CwdOwner(cwd) = OwnerUnder(registry, cwd)
        /\ \A x \in InsertOrIgnore(job.cache, cwd, CwdOwner(cwd)) :
               x.value = OwnerUnder(registry, x.key)
    BY <1>2, CwdOwnerIs
  <1>5. Agree(job'.registry, registry')
    BY <1>2, <1>3, SameRegistryAgrees DEF Streamed
  <1>6. \A x \in job'.cache : x.value = OwnerUnder(registry', x.key)
    BY <1>2, <1>3, <1>4 DEF Streamed
  <1>7. /\ n \in Nat /\ DOMAIN old.streamed = 1..n /\ DOMAIN read.streamed = 1..(n + 1)
        /\ read.streamed[n + 1] = r
        /\ \A i \in 1..n : read.streamed[i] = old.streamed[i]
    <2>1. old.streamed \in Seq(DOMAIN Tree) /\ read.streamed = Append(old.streamed, r)
      BY DEF TypeOK, IsJob, IsRead, Streamed
    <2> QED BY <2>1
  <1> DEFINE owner(i) == OwnerUnder(registry, Named(p, read.streamed[i]))
             named == {i \in DOMAIN read.streamed : Named(p, read.streamed[i]) # None}
             oldOwner(i) == OwnerUnder(registry, Named(p, old.streamed[i]))
             oldNamed == {i \in DOMAIN old.streamed : Named(p, old.streamed[i]) # None}
  <1>8. /\ \A i \in oldNamed : i \in named /\ owner(i) = oldOwner(i)
        /\ \A i \in named : i \in oldNamed \/ (i = n + 1 /\ cwd # None)
        /\ cwd # None => n + 1 \in named
        /\ owner(n + 1) = OwnerUnder(registry, cwd)
    BY <1>7 DEF Streamed
  <1>9. /\ Agree(old.revision, registry)
        /\ old.append => Agree(docs[p].revision, registry)
        /\ \A i \in oldNamed : oldOwner(i) = Owner \/ old.other \/ old.unknown
        /\ old.other => \E i \in oldNamed : oldOwner(i) # Owner
        /\ old.saw /\ ~old.append => oldNamed # {}
    BY <1>2 DEF Attributed
  <1>10. /\ Agree(read.revision, registry')
         /\ read.append => Agree(docs'[p].revision, registry')
    BY <1>1, <1>3, <1>9 DEF Streamed
  <1>11. /\ read.saw = (old.saw \/ cwd # None) /\ read.append = old.append
         /\ read.other = (old.other \/ (cwd # None /\ CwdOwner(cwd) \notin {Owner, None}))
         /\ read.unknown = (old.unknown \/ (cwd # None /\ CwdOwner(cwd) = None))
         /\ {old.saw, old.other, old.unknown} \subseteq BOOLEAN
    BY DEF Streamed, TypeOK, IsJob, IsRead
  <1>12. /\ \A i \in named : owner(i) = Owner \/ read.other \/ read.unknown
         /\ read.other => \E i \in named : owner(i) # Owner
         /\ read.saw /\ ~read.append => named # {}
    <2> HIDE DEF owner, named, oldOwner, oldNamed, n, old
    <2>1. \A i \in named : owner(i) = Owner \/ read.other \/ read.unknown
      BY <1>4, <1>8, <1>9, <1>11
    <2>2. read.other => \E i \in named : owner(i) # Owner
      BY <1>4, <1>8, <1>9, <1>11
    <2>3. read.saw /\ ~read.append => named # {}
      BY <1>8, <1>9, <1>11
    <2> QED BY <2>1, <2>2, <2>3
  <1>13. /\ \A i \in named : OwnerUnder(registry', Named(p, read.streamed[i])) = owner(i)
    BY <1>3
  <1>14. Attributed(p, read)'
    BY <1>10, <1>12, <1>13 DEF Attributed
  <1> QED BY <1>5, <1>6, <1>14

(* Streaming a record keeps the invariant. *)
LEMMA StreamRecordKeeps ==
  ASSUME TypeOK, SInv, StreamRecord
  PROVE  TypeOK' /\ SInv'
  <1>1. PICK r, cwd, read : r \in DOMAIN Tree /\ Streamed(r, cwd, read)
    BY StreamDoes
  <1>2. /\ pc = "stream" /\ pc' = "stream" /\ pc \in Scans /\ pc \in Attempts
        /\ pc \in Reading /\ rows' = rows
    BY DEF StreamRecord, Scans, Reading, Attempts, storeVars
  <1>3. Steady
    <2>1. SameOwners
      BY <1>1, RemembersSame DEF Streamed
    <2>2. events' = IF registry' # registry THEN events \cup {"registry"} ELSE events
      BY DEF StreamRecord
    <2>3. events \subseteq Path \cup {"registry"}
      BY DEF TypeOK
    <2> QED BY <2>1, <2>2, <2>3 DEF StreamRecord, Steady, diskVars, storeVars
  <1>4. /\ IsJob(job') /\ SameScan /\ job'.read = read /\ job'.path = job.path
        /\ job'.checkpoint = job.checkpoint
    BY <1>1 DEF Streamed
  <1>5. job.path \in job.todo /\ (job.checkpoint => Present(rows[job.path]))
    BY <1>2 DEF SInv, OwnScope
  <1>6. PICK p : p = job.path
    OBVIOUS
  <1>7. OwnersKept'
    <2> SUFFICES ASSUME ~RegisterDuringScan PROVE OwnersKept'
      BY DEF OwnersKept
    <2>1. /\ Attributed(p, read)'
          /\ Agree(job'.registry, registry')
          /\ \A x \in job'.cache : x.value = OwnerUnder(registry', x.key)
      BY <1>1, <1>6, StreamAttributed
    <2>2. OwnersKept
      BY DEF SInv
    <2>3. docs' = docs
      BY <1>3 DEF Steady
    <2> QED BY <1>2, <1>4, <1>6, <2>1, <2>2, <2>3 DEF OwnersKept
  <1>8. ReadTrue'
    <2> DEFINE old == job.read
    <2>1. (old.append => job.checkpoint) /\ ReadIs(p, old)
      BY <1>2, <1>6 DEF SInv, ReadTrue
    <2>2. /\ read.append = old.append /\ read.from = old.from
          /\ read.identity = old.identity
          /\ read.streamed = Append(old.streamed, r)
          /\ r = OpenFile.records[Position(old) + 1]
      BY <1>1 DEF Streamed
    <2>3. ASSUME Unmoved(p, old) PROVE Unmoved(p, read)
      <3> DEFINE s == old.streamed
                 k == Len(s)
      <3>1. /\ s \in Seq(DOMAIN Tree) /\ old.from \in Nat
        BY DEF TypeOK, IsJob, IsRead
      <3>2. OpenFile = FileAt(p)
        BY <1>6, <2>3 DEF Unmoved, OpenFile, FileAt
      <3>3. Position(old) < Len(OpenFile.records) /\ Len(OpenFile.records) \in Nat
        BY <1>2, OpenRecord DEF StreamRecord
      <3>4. /\ k \in Nat /\ Len(read.streamed) = k + 1
            /\ DOMAIN read.streamed = 1..(k + 1) /\ read.streamed[k + 1] = r
            /\ DOMAIN s = 1..k /\ \A i \in 1..k : read.streamed[i] = s[i]
        BY <2>2, <3>1
      <3>5. Position(old) = old.from + k /\ Position(read) = old.from + (k + 1)
        BY <2>2, <3>4 DEF Position
      <3> DEFINE t == FileAt(p).records
                 f == old.from
      <3>6. r = t[f + (k + 1)]
        <4>1. (f + k) + 1 = f + (k + 1)
          <5>1. \A a, b \in Nat : (a + b) + 1 = a + (b + 1)
            OBVIOUS
          <5>2. f \in Nat /\ k \in Nat
            BY <3>1, <3>4
          <5> HIDE DEF f, k
          <5> QED BY ONLY <5>1, <5>2, Zenon
        <4> QED BY <2>2, <3>2, <3>5, <4>1
      <3>7. Position(read) <= Len(t)
        BY <3>1, <3>2, <3>3, <3>4, <3>5
      <3>8. \A i \in 1..k : t[f + i] = s[i]
        BY <2>3, <3>4 DEF Unmoved
      <3>9. \A i \in DOMAIN read.streamed : t[f + i] = read.streamed[i]
        <4> HIDE DEF t, f, k, s
        <4> QED BY <3>4, <3>6, <3>8
      <3> QED BY <2>2, <2>3, <3>7, <3>9 DEF Unmoved
    <2>4. ReadIs(p, read)
      BY <2>1, <2>2, <2>3 DEF ReadIs
    <2>5. ReadIs(p, read)'
      <3>1. Unmoved(p, read) => Unmoved(p, read)'
        BY <1>3 DEF Unmoved, FileAt, Steady
      <3> QED BY <1>3, <2>4, <3>1, SteadyNotices DEF ReadIs, Steady
    <2> QED BY <1>4, <1>6, <2>1, <2>2, <2>5 DEF ReadTrue
  <1> QED BY <1>2, <1>3, <1>4, <1>5, <1>7, <1>8, SameScanKeeps

(* What follows the last newline changes nothing else about a read. *)
LEMMA TailRead ==
  ASSUME NEW read, IsRead(read), NEW t \in BOOLEAN
  PROVE  LET n == [read EXCEPT !.tail = t] IN
         /\ IsRead(n) /\ n.streamed = read.streamed
         /\ n.identity = read.identity /\ n.append = read.append
         /\ n.revision = read.revision /\ n.from = read.from /\ n.saw = read.saw
         /\ n.other = read.other /\ n.unknown = read.unknown /\ n.mine = read.mine
         /\ n.diagnostics = read.diagnostics /\ n.tail = t
  BY DEF IsRead

(* A file a record of which is another project's is not this project's. *)
LEMMA ForeignRead ==
  ASSUME TypeOK, NEW p \in Path, NEW read, IsRead(read), Attributed(p, read), read.other,
         Unmoved(p, read)
  PROVE  ~Owned(p)
  <1> DEFINE s == read.streamed
             t == FileAt(p).records
             f == read.from
  <1>1. PICK i \in DOMAIN s : /\ Named(p, s[i]) # None
                              /\ OwnerUnder(registry, Named(p, s[i])) # Owner
    BY DEF Attributed
  <1> SUFFICES ASSUME Owned(p) PROVE FALSE
    OBVIOUS
  <1>2. t \in Seq(DOMAIN Tree)
    BY FileTypes DEF Owned
  <1>3. s \in Seq(DOMAIN Tree) /\ f \in Nat
    BY DEF IsRead
  <1>4. f + Len(s) <= Len(t) /\ t[f + i] = s[i]
    BY DEF Unmoved, Position
  <1>5. f + i \in DOMAIN t
    <2> HIDE DEF f, s, t
    <2>1. i \in Nat /\ 1 <= i /\ i <= Len(s) /\ Len(s) \in Nat /\ Len(t) \in Nat
      BY <1>2, <1>3
    <2>2. f + i \in Nat /\ 1 <= f + i /\ f + i <= Len(t)
      BY <1>3, <1>4, <2>1
    <2> QED BY <1>2, <2>2
  <1>6. Named(p, s[i]) \in CwdsOf(p)
    <2>1. CwdOf(Provider[p], t[f + i]) \in CwdsOf(p)
      BY <1>1, <1>4, <1>5 DEF CwdsOf, Named
    <2> QED BY <1>4, <2>1 DEF Named
  <1>7. \A cwd : OwnerNow(cwd) = OwnerUnder(registry, cwd)
    BY Zenon DEF OwnerNow, OwnerUnder
  <1> QED BY <1>1, <1>6, <1>7 DEF Owned

(* A file that is read is one. *)
LEMMA ReadIsFile ==
  ASSUME TypeOK, NEW p \in Path, NEW read, ReadIs(p, read)
  PROVE  Noticed(p) \/ (Unmoved(p, read) /\ files[p] # Absent /\ IsFile(p))
  <1>1. content[p] \in Seq(File)
    BY DEF TypeOK
  <1>2. Noticed(p) \/ (Unmoved(p, read) /\ files[p] \in DOMAIN content[p])
    BY DEF ReadIs, Unmoved
  <1> QED BY <1>1, <1>2 DEF Absent, IsFile

(* The end of the file keeps the invariant: what is rejected is not this project's. *)
LEMMA StreamEndKeeps ==
  ASSUME TypeOK, SInv, StreamEnd
  PROVE  TypeOK' /\ SInv'
  <1> DEFINE p == job.path
             t == OpenFile.tail /\ Position(job.read) = Len(OpenFile.records)
             read == [job.read EXCEPT !.tail = t]
             j == [job EXCEPT !.read = read]
             unowned == ~read.saw /\ ~read.append
             foreign == read.other /\ ~read.mine /\ ~read.unknown
             d == read.diagnostics > 0
  <1>1. /\ pc = "stream" /\ pc \in Reading /\ pc \in Attempts /\ pc \in Scans /\ Untouched
        /\ IsRead(job.read) /\ IsJob(job) /\ p \in Path /\ p \in job.todo
        /\ job.checkpoint => Present(rows[p])
    BY DEF StreamEnd, Untouched, envVars, Reading, Attempts, Scans, TypeOK, IsJob,
           SInv, OwnScope
  <1>2. t \in BOOLEAN
    BY <1>1, OpenRecord DEF File
  <1> HIDE DEF t
  <1>3. /\ IsRead(read) /\ read.streamed = job.read.streamed
        /\ read.identity = job.read.identity /\ read.append = job.read.append
        /\ read.revision = job.read.revision /\ read.from = job.read.from
        /\ read.saw = job.read.saw
        /\ read.other = job.read.other /\ read.unknown = job.read.unknown
        /\ read.mine = job.read.mine
        /\ read.diagnostics = job.read.diagnostics /\ read.tail = t
    BY <1>1, <1>2, TailRead
  <1>4. PICK q, x : q \in Path /\ q = job.path /\ x = job.read
    BY <1>1
  <1>5. ReadTrue /\ OwnersKept /\ ReadIs(q, x)
    BY <1>1, <1>4 DEF SInv, ReadTrue
  <1>6. ~RegisterDuringScan => Attributed(q, x)
    BY <1>1, <1>4, <1>5 DEF OwnersKept
  <1>7. Noticed(q) \/ (Unmoved(q, x) /\ files[q] # Absent /\ IsFile(q))
    BY <1>4, <1>5, ReadIsFile
  <1>8. ~RegisterDuringScan /\ x.other => Noticed(q) \/ ~Owned(q)
    BY <1>1, <1>4, <1>6, <1>7, ForeignRead
  <1>9. d \in BOOLEAN
    OBVIOUS
  <1> HIDE DEF d
  <1>10. CASE unowned \/ (~foreign /\ (read.other \/ read.unknown \/ ~read.mine))
    <2>1. Reject(j, ExcludedWith(TRUE, read.tail))
      <3> HIDE DEF read, j
      <3> QED BY <1>10 DEF StreamEnd, t, read, j, Failed
    <2> DEFINE o == ExcludedWith(TRUE, t)
    <2>2. o \in SessionOutcome
      BY <1>2, SessionTypes
    <2>3. Noticed(q) \/ Unindexed(q, o)
      BY <1>7 DEF Unindexed, ExcludedWith
    <2>4. Noticed(p) \/ Unindexed(p, o)
      BY <1>4, <2>3 DEF Unindexed
    <2> HIDE DEF read, o
    <2> QED BY <1>1, <1>3, <2>1, <2>2, <2>4, RejectKeeps DEF o
  <1>11. CASE ~unowned /\ foreign
    <2>1. Reject(j, ExcludedWith(d, read.tail))
      <3> HIDE DEF read, j
      <3> QED BY <1>11 DEF StreamEnd, t, read, j, d
    <2> DEFINE o == ExcludedWith(d, t)
    <2>2. o \in SessionOutcome
      BY <1>2, <1>9, SessionTypes
    <2>3. Noticed(q) \/ Unindexed(q, o)
      <3>1. o.version = NoVersion /\ o.known = TRUE /\ o.excluded = TRUE
        BY DEF ExcludedWith
      <3>2. x.other
        BY <1>3, <1>4, <1>11
      <3> HIDE DEF o
      <3>3. o.errors \in BOOLEAN
        BY <2>2 DEF SessionOutcome
      <3> QED BY <1>7, <1>8, <3>1, <3>2, <3>3 DEF Unindexed
    <2>4. Noticed(p) \/ Unindexed(p, o)
      BY <1>4, <2>3 DEF Unindexed
    <2> HIDE DEF read, o
    <2> QED BY <1>1, <1>3, <2>1, <2>2, <2>4, RejectKeeps DEF o
  <1>12. CASE ~unowned /\ ~foreign /\ ~read.other /\ ~read.unknown /\ read.mine
    <2>1. job' = j /\ pc' = "verify" /\ UNCHANGED storeVars
      <3> HIDE DEF read, j
      <3> QED BY <1>12 DEF StreamEnd, t, read, j
    <2> HIDE DEF read
    <2>2. /\ IsJob(job') /\ SameScan /\ job'.path = p /\ job'.checkpoint = job.checkpoint
          /\ job'.read = read /\ job'.registry = job.registry /\ job'.cache = job.cache
      BY <1>1, <1>3, <2>1 DEF IsJob, SameScan
    <2>3. Steady /\ registry' = registry
      BY <1>1, <2>1 DEF Untouched, storeVars, Steady, SameOwners, TypeOK
    <2>4. PICK y : y = read
      OBVIOUS
    <2>5. OwnersKept'
      <3>1. ~RegisterDuringScan => Attributed(q, y)'
        BY <1>3, <1>4, <1>6, <2>3, <2>4 DEF Attributed, Steady
      <3>2. (read.saw \/ read.append) /\ ~read.other /\ ~read.unknown
        BY <1>12
      <3> QED BY <1>1, <1>4, <1>5, <2>1, <2>2, <2>3, <2>4, <3>1, <3>2
              DEF OwnersKept, Steady
    <2>6. ReadTrue'
      <3>1. Unmoved(q, x) => Unmoved(q, y)'
        BY <1>3, <1>4, <2>3, <2>4 DEF Unmoved, FileAt, Steady, Position
      <3>2. Noticed(q) => Noticed(q)'
        BY <2>3, SteadyNotices
      <3>3. ReadIs(q, y)'
        BY <1>3, <1>4, <1>5, <2>3, <2>4, <3>1, <3>2 DEF ReadIs, Steady
      <3>4. read.append => job.checkpoint
        BY <1>1, <1>3, <1>5 DEF ReadTrue
      <3> QED BY <1>4, <2>2, <2>4, <3>3, <3>4 DEF ReadTrue
    <2> QED BY <1>1, <2>1, <2>2, <2>3, <2>5, <2>6, SameScanKeeps DEF Reading, Attempts
  <1> QED
    <2> HIDE DEF read
    <2> QED BY <1>3, <1>10, <1>11, <1>12 DEF IsRead

(* What a read has streamed from f to the end of t. *)
Continues(t, f, s) ==
    /\ f + Len(s) = Len(t)
    /\ \A i \in DOMAIN t : i <= f \/ (i - f \in DOMAIN s /\ s[i - f] = t[i])

(* What a file holds after f continues it. *)
LEMMA SubSeqContinues ==
  ASSUME NEW S, NEW t \in Seq(S), NEW f \in Nat, f <= Len(t)
  PROVE  Continues(t, f, SubSeq(t, f + 1, Len(t)))
  <1> DEFINE n == Len(t)
             g == f + 1
             s == SubSeq(t, g, n)
  <1>1. n \in Nat /\ g \in Nat /\ g >= 1 /\ DOMAIN t = 1..n
    OBVIOUS
  <1>2. s = [i \in 1..(n - f) |-> t[f + i]] /\ Len(s) = n - f
    <2>1. s = [i \in 1..(n - g + 1) |-> t[g + i - 1]]
      <3> HIDE DEF n, g
      <3> QED BY <1>1
    <2>2. n - g + 1 = n - f /\ n - f \in Nat
      <3>1. \A a, b \in Nat : a - (b + 1) + 1 = a - b
        OBVIOUS
      <3>2. n - f \in Nat
        BY <1>1
      <3> QED BY <1>1, <3>1, <3>2
    <2>3. \A i \in 1..(n - f) : g + i - 1 = f + i
      <3>1. \A a, b \in Nat : (a + 1) + b - 1 = a + b
        OBVIOUS
      <3> QED BY <1>1, <3>1
    <2>4. s = [i \in 1..(n - f) |-> t[f + i]]
      <3> HIDE DEF n, g, s
      <3> QED BY <2>1, <2>2, <2>3
    <2> HIDE DEF n, g, s
    <2>5. Len(s) = n - f
      BY <2>2, <2>4
    <2> QED BY <2>4, <2>5
  <1> HIDE DEF s
  <1>3. f + Len(s) = n
    BY <1>1, <1>2
  <1>4. ASSUME NEW i \in 1..n, ~(i <= f)
        PROVE  i - f \in DOMAIN s /\ s[i - f] = t[i]
    <2> HIDE DEF n
    <2>1. i - f \in 1..(n - f) /\ f + (i - f) = i
      BY <1>1, <1>4
    <2> QED BY <1>2, <2>1
  <1> HIDE DEF g
  <1>5. Continues(t, f, s)
    BY <1>1, <1>3, <1>4 DEF Continues
  <1> QED BY <1>5 DEF s, g, n

(* An append went on from the checkpoint, which the file still begins with. *)
LEMMA PrefixKept ==
  ASSUME NEW S, NEW s \in Seq(S), NEW t \in Seq(S), IsPrefix(s, t)
  PROVE  Len(s) <= Len(t) /\ \A i \in DOMAIN s : i \in DOMAIN t /\ t[i] = s[i]
  <1> DEFINE n == Len(s)
  <1>1. n \in Nat /\ n <= Len(t) /\ SubSeq(s, 1, n) = SubSeq(t, 1, n)
    BY DEF IsPrefix
  <1>2. ASSUME NEW i \in 1..n PROVE i \in DOMAIN t /\ t[i] = s[i]
    <2>1. SubSeq(s, 1, n)[i] = s[i] /\ SubSeq(t, 1, n)[i] = t[i]
      BY <1>1
    <2>2. i \in DOMAIN t
      BY <1>1
    <2> QED BY <1>1, <2>1, <2>2
  <1> QED BY <1>1, <1>2

(* Every record of the file is in the checkpoint or was streamed, so that    *)
(* the file is the owner's if no other project's record was seen.            *)
LEMMA VerifiedOwned ==
  ASSUME TypeOK, SInv, pc = "verify", ~RegisterDuringScan,
         NEW p \in Path, p = job.path, NEW read, read = job.read,
         IsFile(p), Unchanged(p, read)
  PROVE  OwnedUnder(read.revision, p, FileAt(p).records) /\ Agree(read.revision, registry)
  <1> DEFINE t == FileAt(p).records
             s == read.streamed
             f == read.from
  <1>1. /\ pc \in Attempts /\ pc \in Reading /\ pc \in Scans
    BY DEF Attempts, Reading, Scans
  <1>2. /\ OwnersKept /\ ReadTrue /\ RowsTrue /\ OwnScope /\ Attributed(p, read)
        /\ ReadIs(p, read) /\ IsRead(read)
        /\ read.saw \/ read.append
        /\ ~read.other /\ ~read.unknown
        /\ read.append => job.checkpoint
        /\ job.checkpoint => Present(rows[p])
    BY <1>1 DEF SInv, OwnersKept, ReadTrue, OwnScope, TypeOK, IsJob
  <1>3. t \in Seq(DOMAIN Tree) /\ s \in Seq(DOMAIN Tree) /\ f \in Nat
    BY <1>2, FileTypes DEF IsRead
  <1> DEFINE u == docs[p].prefix
  <1>4. read.append => /\ u \in Seq(DOMAIN Tree) /\ f = Len(u) /\ IsPrefix(u, t)
                       /\ OwnedUnder(docs[p].revision, p, u)
                       /\ Agree(docs[p].revision, registry)
    <2>1. u \in Seq(DOMAIN Tree)
      BY DEF TypeOK, IsDocs
    <2> QED BY <1>2, <2>1 DEF ReadIs, RowsTrue, OwnersKept, Attributed, Unchanged
  <1>5. f <= Len(t)
    <2>1. CASE read.append
      BY <1>3, <1>4, <2>1, PrefixKept
    <2>2. CASE ~read.append
      <3>1. Len(t) \in Nat
        BY <1>3
      <3> QED BY <1>2, <2>2, <3>1 DEF ReadIs
    <2> QED BY <2>1, <2>2
  <1>6. Continues(t, f, s)
    BY <1>3, <1>5, SubSeqContinues DEF Unchanged
  <1>7. Agree(read.revision, registry)
    BY <1>2 DEF Attributed
  <1>8. \A known, cwd :
           Agree(known, registry) => OwnerUnder(known, cwd) = OwnerUnder(registry, cwd)
    BY DEF Agree, OwnerUnder
  <1>9. \A i \in DOMAIN s : Named(p, s[i]) # None =>
           OwnerUnder(registry, Named(p, s[i])) = Owner
    BY <1>2 DEF Attributed
  <1>10. read.append =>
            \A i \in DOMAIN u :
               /\ i \in DOMAIN t /\ t[i] = u[i]
               /\ Named(p, u[i]) # None => OwnerUnder(registry, Named(p, u[i])) = Owner
    <2>1. read.append => \A i \in DOMAIN u : i \in DOMAIN t /\ t[i] = u[i]
      BY <1>3, <1>4, PrefixKept
    <2> HIDE DEF u, t
    <2> QED BY <1>4, <1>8, <2>1 DEF OwnedUnder
  <1>11. ASSUME NEW i \in DOMAIN t, Named(p, t[i]) # None
         PROVE  OwnerUnder(registry, Named(p, t[i])) = Owner
    <2>1. i <= f \/ (i - f \in DOMAIN s /\ s[i - f] = t[i])
      BY <1>6 DEF Continues
    <2>2. CASE i - f \in DOMAIN s /\ s[i - f] = t[i]
      BY <1>9, <1>11, <2>2
    <2>3. CASE i <= f
      <3>1. i \in Nat /\ i >= 1
        BY <1>3
      <3>2. read.append
        BY <1>2, <2>3, <3>1 DEF ReadIs
      <3>3. i \in DOMAIN u
        BY <1>4, <2>3, <3>1, <3>2
      <3> HIDE DEF u, t
      <3>4. t[i] = u[i]
        BY <1>10, <3>2, <3>3
      <3>5. Named(p, u[i]) # None
        BY <1>11, <3>4
      <3>6. OwnerUnder(registry, Named(p, u[i])) = Owner
        BY <1>10, <3>2, <3>3, <3>5
      <3> QED BY <3>4, <3>6
    <2> QED BY <2>1, <2>2, <2>3
  <1>12. \E i \in DOMAIN t : Named(p, t[i]) # None
    <2>1. CASE read.append
      <3> HIDE DEF u, t
      <3>1. PICK i \in DOMAIN u : Named(p, u[i]) # None
        BY <1>4, <2>1 DEF OwnedUnder
      <3>2. i \in DOMAIN t /\ t[i] = u[i]
        BY <1>10, <2>1
      <3> QED BY <3>1, <3>2
    <2>2. CASE ~read.append
      <3>1. PICK i \in DOMAIN s : Named(p, s[i]) # None
        BY <1>2, <2>2 DEF Attributed
      <3>2. f = 0
        BY <1>2, <2>2 DEF ReadIs
      <3>3. Len(s) = Len(t)
        BY <1>3, <1>6, <3>2 DEF Continues
      <3>4. i \in DOMAIN t
        BY <1>3, <3>1, <3>3
      <3>5. i - 0 = i /\ ~(i <= 0)
        BY <1>3, <3>1
      <3>6. s[i] = t[i]
        BY <1>6, <3>2, <3>4, <3>5 DEF Continues
      <3> QED BY <3>1, <3>4, <3>6
    <2> QED BY <2>1, <2>2
  <1>13. OwnedUnder(read.revision, p, t)
    <2> HIDE DEF t
    <2> QED BY <1>7, <1>8, <1>11, <1>12 DEF OwnedUnder
  <1> QED BY <1>7, <1>13

(* What has been normalised is counted. *)
LEMMA NormalisedType ==
  ASSUME TypeOK, NEW p \in Path, NEW read, IsRead(read)
  PROVE  Normalised(p, read).diagnostics \in Nat
  <1> DEFINE d == IF read.append THEN docs[p] ELSE NoDocs
             a == d.chunks
             i == NewIds(read.append, d.ids)
             s == OrElse(d.session, read.hint)
             k == d.diagnostics + read.diagnostics
             start == [chunks |-> a, ids |-> i, session |-> s, diagnostics |-> k]
  <1>1. k \in Nat
    <2>1. d.diagnostics \in Nat
      BY SessionTypes DEF TypeOK, IsDocs
    <2>2. read.diagnostics \in Nat
      BY DEF IsRead
    <2> HIDE DEF d
    <2> QED BY <2>1, <2>2
  <1>2. Normalised(p, read) = NormaliseAll(Provider[p], read, start)
    BY DEF Normalised
  <1> HIDE DEF a, i, s, k
  <1>3. IsNormalised(start)
    BY <1>1 DEF IsNormalised
  <1> HIDE DEF start
  <1>4. Len(read.prepared) \in Nat
    BY DEF IsRead
  <1>5. Provider[p] \in {"codex", "claude", "copilot"}
    BY SessionAssumption
  <1>6. IsNormalised(NormaliseAll(Provider[p], read, start))
    BY <1>3, <1>4, <1>5, NormaliseAllType
  <1> QED BY <1>2, <1>6 DEF IsNormalised

(* The read that was verified is about to be committed. *)
Verifies(p) ==
    /\ IsJob(job') /\ job'.path = p /\ job'.read = NewRead /\ job'.checkpoint = FALSE
    /\ job'.todo = job.todo \ {p} /\ job'.seen = job.seen \cup {p}
    /\ job'.existing = job.existing /\ job'.roots = job.roots
    /\ job'.registry = job.registry /\ job'.cache = job.cache /\ job'.report = job.report
    /\ job'.version = VersionOf(FileAt(p))
    /\ job'.new.prefix = FileAt(p).records /\ job'.new.revision = job.read.revision
    /\ job'.new.offset = Len(FileAt(p).records)
    /\ job'.outcome = IndexedAs(job'.version, job'.new.diagnostics)

(* What a verified read leaves to commit. *)
LEMMA VerifyDoes ==
  ASSUME TypeOK, SInv, VerifyRead, IsFile(job.path), Unchanged(job.path, job.read)
  PROVE  Verifies(job.path) /\ pc' = "commit" /\ UNCHANGED storeVars
  <1> DEFINE p == job.path
             n == Normalised(p, job.read)
             c == n.chunks
             f == Position(job.read)
             i == files[p]
             t == FileAt(p).records
             l == job.read.line
             g == job.read.revision
             s == n.session
             d == n.diagnostics
             x == n.ids.committed \cup {n.ids.updates[k] : k \in DOMAIN n.ids.updates}
             v == VersionOf(FileAt(p))
             new == [chunks |-> c, offset |-> f, identity |-> i, prefix |-> t, nextLine |-> l,
                     revision |-> g, session |-> s, diagnostics |-> d, ids |-> x]
             o == [known |-> TRUE, version |-> v, errors |-> d > 0, excluded |-> FALSE,
                   pending |-> job.read.tail]
  <1>1. /\ IsJob(job) /\ IsRead(job.read) /\ pc = "verify" /\ p \in Path
        /\ pc \in Attempts /\ pc \in Scans /\ pc \in Reading
    BY DEF TypeOK, IsJob, VerifyRead, Scans, Reading, Attempts
  <1>2. /\ job' = [job EXCEPT !.version = v, !.new = new, !.outcome = o,
                              !.todo = job.todo \ {p}, !.seen = job.seen \cup {p},
                              !.read = NewRead, !.checkpoint = FALSE, !.attempts = 0]
        /\ pc' = "commit" /\ UNCHANGED storeVars
    <2>1. ~(~IsFile(p)) /\ ~(IsFile(p) /\ ~Unchanged(p, job.read))
      OBVIOUS
    <2> HIDE DEF new, o
    <2>2. /\ job' = [job EXCEPT !.version = v, !.new = new, !.outcome = o,
                              !.todo = @ \ {p}, !.seen = @ \cup {p},
                              !.read = NewRead, !.checkpoint = FALSE, !.attempts = 0]
          /\ pc' = "commit" /\ UNCHANGED storeVars
      BY <2>1 DEF VerifyRead, Verified, DocsOf, new, o
    <2> QED BY <1>1, <2>2 DEF IsJob
  <1>3. d \in Nat
    BY <1>1, NormalisedType
  <1>4. /\ v \in SessionVersion /\ FileAt(p).tail \in BOOLEAN /\ t \in Seq(DOMAIN Tree)
        /\ v[2] = FileAt(p).tail
    BY <1>1, FileTypes DEF File, VersionOf
  <1>5. job.read.tail = FileAt(p).tail /\ l \in Nat
    BY <1>1 DEF Unchanged, IsRead
  <1>6. f = Len(t) /\ f \in Nat
    <2> DEFINE e == job.read.from
    <2>1. /\ ReadTrue /\ RowsTrue /\ OwnScope
      BY DEF SInv
    <2>2. PICK q, read : q \in Path /\ q = p /\ read = job.read
      BY <1>1
    <2>3. ReadIs(q, read) /\ Unchanged(q, read) /\ e \in Nat
          /\ (read.append => Present(rows[q]))
      BY <1>1, <2>1, <2>2 DEF ReadTrue, OwnScope, IsRead
    <2>4. e <= Len(t) /\ Len(t) \in Nat
      <3>1. CASE read.append
        <4>1. docs[q].prefix \in Seq(DOMAIN Tree) /\ IsPrefix(docs[q].prefix, t)
              /\ e = Len(docs[q].prefix)
          BY <2>1, <2>2, <2>3, <3>1 DEF ReadIs, RowsTrue, Unchanged, TypeOK, IsDocs
        <4> QED BY <1>4, <4>1, PrefixKept
      <3>2. CASE ~read.append
        BY <1>4, <2>2, <2>3, <3>2 DEF ReadIs
      <3> QED BY <3>1, <3>2
    <2>5. Continues(t, e, job.read.streamed)
      BY <1>4, <2>3, <2>4, SubSeqContinues DEF Unchanged
    <2> QED BY <2>4, <2>5 DEF Continues, Position
  <1> HIDE DEF n, c, f, i, t, l, g, s, d, x, v
  <1>7. /\ IsDocs(new) /\ new.prefix = t /\ new.revision = g /\ new.offset = f
        /\ new.diagnostics = d
    BY <1>3, <1>4, <1>5, <1>6 DEF IsDocs
  <1>8. o \in SessionOutcome /\ o = IndexedAs(v, d)
    BY <1>3, <1>4, <1>5 DEF SessionOutcome, IndexedAs
  <1> HIDE DEF new, o
  <1>9. /\ IsJob(job') /\ job'.path = p /\ job'.read = NewRead /\ job'.checkpoint = FALSE
        /\ job'.todo = job.todo \ {p} /\ job'.seen = job.seen \cup {p}
        /\ job'.existing = job.existing /\ job'.roots = job.roots
        /\ job'.registry = job.registry /\ job'.cache = job.cache
        /\ job'.report = job.report
        /\ job'.version = v /\ job'.new = new /\ job'.outcome = o
    BY <1>1, <1>2, <1>4, <1>7, <1>8, NewReadType DEF IsJob
  <1>10. Verifies(p)
    BY <1>6, <1>7, <1>8, <1>9 DEF Verifies, v, t, g
  <1> QED BY <1>2, <1>10

(* Verification keeps the invariant: what it accepts is true of the file. *)
LEMMA VerifyReadKeeps ==
  ASSUME TypeOK, SInv, VerifyRead
  PROVE  TypeOK' /\ SInv'
  <1>1. /\ pc = "verify" /\ pc \in Reading /\ pc \in Attempts /\ pc \in Scans /\ Untouched
        /\ job.path \in Path /\ job.path \in job.todo /\ IsJob(job)
    BY DEF VerifyRead, Untouched, envVars, Reading, Attempts, Scans, TypeOK, IsJob,
           SInv, OwnScope
  <1>2. CASE AttemptFails(job, FALSE)
    BY <1>1, <1>2, AttemptFailsKeeps
  <1>3. CASE AttemptFails(job, TRUE)
    BY <1>1, <1>3, AttemptFailsKeeps
  <1>4. CASE IsFile(job.path) /\ Unchanged(job.path, job.read)
    <2>1. Verifies(job.path) /\ pc' = "commit" /\ UNCHANGED storeVars
      BY <1>4, VerifyDoes
    <2>2. PICK p, read : p \in Path /\ p = job.path /\ read = job.read
      BY <1>1
    <2>3. /\ IsJob(job') /\ job'.path = p /\ job'.read = NewRead /\ job'.checkpoint = FALSE
          /\ job'.todo = job.todo \ {p} /\ job'.seen = job.seen \cup {p}
          /\ job'.existing = job.existing /\ job'.roots = job.roots
          /\ job'.registry = job.registry /\ job'.cache = job.cache
          /\ job'.report = job.report
          /\ job'.version = VersionOf(FileAt(p))
          /\ job'.new.prefix = FileAt(p).records /\ job'.new.revision = read.revision
          /\ job'.new.offset = Len(FileAt(p).records)
          /\ job'.outcome = IndexedAs(job'.version, job'.new.diagnostics)
      BY <2>1, <2>2 DEF Verifies
    <2>4. /\ RunHeld /\ OwnScope /\ Found /\ OwnersKept /\ ReadTrue /\ CommitTrue
          /\ RowsTrue /\ LedgerTrue /\ LedgerRebuilt
      BY DEF SInv
    <2>5. Steady /\ registry' = registry
      BY <1>1, <2>1 DEF Untouched, storeVars, Steady, SameOwners, TypeOK
    <2>6. /\ pc \notin {"discover", "commit", "publish", "finish"}
          /\ pc' \notin {"discover", "scan", "publish", "finish"} \cup Reading
          /\ pc' \in Scans
      BY <1>1, <2>1 DEF Scans, Reading, Attempts
    <2>7. TypeOK'
      BY <2>2, <2>3, <2>5, <2>6, SteadyType
    <2>8. InScope' = InScope /\ (Precise' <=> Precise)
      BY <2>5 DEF Steady, InScope, Precise
    <2>9. RunHeld' /\ RowsTrue' /\ LedgerTrue' /\ LedgerRebuilt'
      <3>1. /\ job'.report.reported = job.report.reported
            /\ job'.report.scope \subseteq InScope /\ (Precise => job'.report.complete)
        BY <1>1, <2>3, <2>4 DEF LedgerRebuilt
      <3> QED BY <1>1, <2>4, <2>5, <2>6, <3>1, SteadyKeeps
    <2>10. OwnScope'
      <3>1. Current = {} /\ Current' = {p} /\ ledger' = ledger /\ rows' = rows
        BY <2>1, <2>3, <2>5, <2>6 DEF Current, Steady
      <3>2. /\ job.todo \cup job.seen \subseteq InScope /\ job.todo \cap job.seen = {}
            /\ job.report.reported \subseteq job.seen
            /\ job.seen = job.report.reported \cup {}
            /\ job.report.full <=> ~Precise
            /\ job.roots = {}
            /\ \A q \in Path : job.existing[q] # NoVersion => q \in InScope
            /\ \A q \in InScope \ job.seen :
                  ~rows[q].eligible /\ rows[q].version = job.existing[q]
            /\ \A q \in job.report.reported : ledger.sources[q] = job.report.outcome[q]
        BY <1>1, <2>4, <2>6, <3>1 DEF OwnScope
      <3>3. p \in InScope /\ p \notin job.seen /\ p \notin job.report.reported
            /\ ~rows[p].eligible
        BY <1>1, <2>2, <3>2
      <3>4. /\ job'.todo \cup job'.seen \subseteq InScope /\ job'.todo \cap job'.seen = {}
            /\ job'.seen = job'.report.reported \cup {p}
            /\ job'.report.reported \subseteq job'.seen /\ p \notin job'.report.reported
        BY <2>3, <3>2, <3>3
      <3> QED BY <2>3, <2>6, <2>8, <3>1, <3>2, <3>3, <3>4 DEF OwnScope
    <2>11. Found'
      <3>1. \A q \in Path : Noticed(q) => Noticed(q)'
        BY <2>5, SteadyNotices
      <3>2. \A q \in Path : IsFile(q)' <=> IsFile(q)
        BY <2>5 DEF Steady, IsFile
      <3> QED BY <1>1, <2>3, <2>4, <2>6, <2>8, <3>1, <3>2 DEF Found, InScope
    <2>12. OwnersKept'
      <3> SUFFICES ASSUME ~RegisterDuringScan PROVE OwnersKept'
        BY DEF OwnersKept
      <3>1. OwnedUnder(read.revision, p, FileAt(p).records) /\ Agree(read.revision, registry)
        BY <1>1, <1>4, <2>2, VerifiedOwned
      <3>2. pc' \notin Attempts \cup {"verify"}
        BY <2>6 DEF Reading, Attempts
      <3> QED BY <1>1, <2>3, <2>4, <2>5, <2>6, <3>1, <3>2 DEF OwnersKept, Steady
    <2>13. ReadTrue' /\ CommitTrue'
      <3>1. ReadTrue'
        BY <2>6 DEF ReadTrue, Reading
      <3>2. IsFile(p) /\ VersionOf(FileAt(p)) # NoVersion
            /\ VersionOf(FileAt(p))[1] = FileAt(p).records
        BY <1>4, <2>2, FileTypes DEF VersionOf
      <3>3. PICK v : v = VersionOf(FileAt(p))
        OBVIOUS
      <3>4. CurrentVersion(p, v)
        BY <3>2, <3>3 DEF CurrentVersion
      <3>5. CurrentVersion(p, v)'
        BY <2>5, <3>4, SteadyStill, StillRow
      <3>6. job'.path = p /\ job'.version = v
        BY <2>3, <3>3
      <3> QED BY <2>3, <3>1, <3>2, <3>3, <3>5, <3>6 DEF CommitTrue
    <2> QED BY <2>7, <2>9, <2>10, <2>11, <2>12, <2>13 DEF SInv
  <1> QED BY <1>2, <1>3, <1>4 DEF VerifyRead

(* The new version is searchable at once. *)
LEMMA CommitSessionKeeps ==
  ASSUME TypeOK, SInv, CommitSession
  PROVE  TypeOK' /\ SInv'
  <1>1. /\ pc = "commit" /\ pc' = "publish" /\ pc \in Scans /\ pc' \in Scans
        /\ pc \notin {"idle", "discover", "scan", "publish", "finish"} \cup Before \cup Reading
        /\ pc' \notin {"idle", "discover", "scan", "commit", "finish"} \cup Before \cup Reading
        /\ Untouched /\ IsJob(job) /\ job.path \in Path
    BY DEF CommitSession, Untouched, envVars, Scans, Reading, Attempts, Before, TypeOK, IsJob
  <1>2. /\ RunHeld /\ OwnScope /\ Found /\ OwnersKept /\ ReadTrue /\ CommitTrue
        /\ RowsTrue /\ LedgerTrue /\ LedgerRebuilt
    BY DEF SInv
  <1>3. PICK p, v, new, o : /\ p \in Path /\ p = job.path /\ v = job.version
                            /\ new = job.new /\ o = job.outcome
    BY <1>1
  <1>4. /\ v \in SessionVersion /\ v # NoVersion /\ v[1] = new.prefix
        /\ IsDocs(new) /\ o \in SessionOutcome /\ new.offset = Len(new.prefix)
        /\ o = IndexedAs(v, new.diagnostics)
        /\ Noticed(p) \/ CurrentVersion(p, v)
    BY <1>1, <1>2, <1>3 DEF CommitTrue, IsJob
  <1>5. rows' = ReplaceRow(rows, p, v) /\ docs' = [docs EXCEPT ![p] = new]
    BY <1>3 DEF CommitSession
  <1>6. /\ rows' \in [Path -> SessionRow] /\ rows'[p] = [version |-> v, eligible |-> TRUE]
        /\ \A q \in Path \ {p} : rows'[q] = rows[q]
    <2>1. rows \in [Path -> SessionRow]
      BY DEF TypeOK
    <2> QED BY <1>3, <1>4, <1>5, <2>1, SessionRows
  <1>7. /\ docs' = [q \in Path |-> docs'[q]] /\ \A q \in Path : IsDocs(docs'[q])
        /\ docs'[p] = new /\ \A q \in Path \ {p} : docs'[q] = docs[q]
    BY <1>3, <1>4, <1>5 DEF TypeOK
  <1>8. /\ IsJob(job') /\ SameScan /\ job'.path = p /\ job'.registry = job.registry
        /\ job'.cache = job.cache /\ job'.read = job.read /\ job'.outcome = o
    <2>1. job' = [job EXCEPT !.new = NoDocs]
      BY DEF CommitSession
    <2> QED BY <1>1, <1>3, <2>1, SessionTypes DEF IsJob, SameScan
  <1>9. TypeOK'
    BY <1>1, <1>3, <1>6, <1>7, <1>8 DEF TypeOK, Untouched
  <1>10. InScope' = InScope /\ (Precise' <=> Precise) /\ ctl' = ctl /\ ticket' = ticket
         /\ ledger' = ledger /\ registry' = registry
    BY <1>1 DEF Untouched, InScope, Precise
  <1>11. SameOwners /\ \A q \in Path \ {p} : StillAt(q)
    BY <1>1, <1>6, <1>7 DEF Untouched, StillAt, SameOwners
  <1>12. \A q \in Path : Noticed(q) => Noticed(q)'
    BY <1>1 DEF Untouched, Noticed
  <1>13. Rest' = Rest /\ p \in Rest
    <2>1. p \in job.seen /\ p \notin job.report.reported /\ p \in InScope
      BY <1>1, <1>2, <1>3 DEF OwnScope, Current
    <2> QED BY <1>1, <1>8, <1>10, <2>1 DEF Rest, SameScan
  <1>14. OwnScope'
    <2>1. Current' = Current /\ Current = {p}
      BY <1>1, <1>3, <1>8 DEF Current
    <2>2. /\ job.todo \cup job.seen \subseteq InScope /\ job.todo \cap job.seen = {}
          /\ job.report.reported \subseteq job.seen
          /\ job.seen = job.report.reported \cup {p} /\ p \notin job.report.reported
          /\ job.report.full <=> ~Precise
          /\ job.roots = {} /\ job.read = NewRead
          /\ \A q \in Path : job.existing[q] # NoVersion => q \in InScope
          /\ \A q \in InScope \ job.seen :
                ~rows[q].eligible /\ rows[q].version = job.existing[q]
          /\ \A q \in job.report.reported : ledger.sources[q] = job.report.outcome[q]
      <3>1. pc \notin Attempts
        BY <1>1 DEF Reading
      <3> QED BY <1>1, <1>2, <2>1, <3>1 DEF OwnScope
    <2>3. \A q \in InScope \ job.seen :
                ~rows'[q].eligible /\ rows'[q].version = job.existing[q]
      BY <1>6, <2>2 DEF InScope
    <2> QED BY <1>1, <1>8, <1>10, <2>1, <2>2, <2>3 DEF OwnScope, SameScan
  <1>15. Found'
    <2>1. \A q \in Path : IsFile(q)' <=> IsFile(q)
      BY <1>1 DEF Untouched, IsFile
    <2> QED BY <1>1, <1>2, <1>8, <1>10, <1>12, <2>1 DEF Found, InScope, SameScan
  <1>16. OwnersKept'
    <2>1. pc' \notin Attempts \cup {"verify", "commit"}
      BY <1>1 DEF Reading, Attempts
    <2>2. ~RegisterDuringScan => \A q \in Path :
             Present(rows'[q]) => OwnedUnder(docs'[q].revision, q, docs'[q].prefix)
      BY <1>1, <1>2, <1>3, <1>6, <1>7 DEF OwnersKept
    <2> QED BY <1>1, <1>2, <1>8, <1>10, <2>1, <2>2 DEF OwnersKept
  <1>17. ReadTrue' /\ CommitTrue'
    BY <1>1 DEF ReadTrue, CommitTrue, Reading
  <1>18. Noticed(p)' \/ RowTrue(p)'
    <2>1. CASE Noticed(p)
      BY <1>3, <1>12, <2>1
    <2>2. CASE CurrentVersion(p, v)
      <3>1. FileAt(p)' = FileAt(p) /\ (IsFile(p) <=> IsFile(p)')
        BY <1>1 DEF Untouched, FileAt, IsFile
      <3>2. IsFile(p) /\ v = VersionOf(FileAt(p)) /\ new.prefix = FileAt(p).records
        BY <1>4, <2>2 DEF CurrentVersion, VersionOf
      <3>3. CurrentVersion(p, rows[p].version)'
        BY <1>6, <3>1, <3>2 DEF CurrentVersion
      <3>4. ~RegisterDuringScan => OwnedUnder(registry, p, new.prefix)
        <4>1. ~RegisterDuringScan => /\ OwnedUnder(new.revision, p, new.prefix)
                                     /\ Agree(new.revision, registry)
          BY <1>1, <1>2, <1>3 DEF OwnersKept
        <4>2. \A k, cwd : Agree(k, registry) => OwnerUnder(k, cwd) = OwnerUnder(registry, cwd)
          BY DEF Agree, OwnerUnder
        <4> QED BY <4>1, <4>2 DEF OwnedUnder
      <3>5. OwnedNow(p)'
        BY <1>10, <3>1, <3>2, <3>4 DEF OwnedNow
      <3> QED BY <3>3, <3>5 DEF RowTrue
    <2> QED BY <1>4, <2>1, <2>2
  <1>19. RowsTrue'
    <2>1. \A q \in Path \ {p} : RowTrue(q) => RowTrue(q)'
      BY <1>11, StillRow
    <2>2. \A q \in Path :
            rows'[q].eligible =>
               Noticed(q)' \/ (pc' = "invalidate" /\ q \in InScope') \/ RowTrue(q)'
      BY <1>1, <1>2, <1>6, <1>12, <1>18, <2>1 DEF RowsTrue, Before
    <2>3. \A q \in Path :
            /\ rows'[q].eligible => Present(rows'[q])
            /\ Present(rows'[q]) => /\ docs'[q].prefix = rows'[q].version[1]
                                    /\ docs'[q].offset = Len(docs'[q].prefix)
      BY <1>2, <1>4, <1>6, <1>7 DEF RowsTrue, Present
    <2> QED BY <2>2, <2>3 DEF RowsTrue
  <1>20. LedgerTrue'
    <2>1. \A q \in Path \ {p} : EntryTrue(q) => EntryTrue(q)'
      BY <1>10, <1>11, StillEntry
    <2>2. Tells(p, o)'
      BY <1>4, <1>6, <1>7 DEF Tells
    <2>3. job'.path = p /\ job'.outcome = o
      BY <1>8
    <2> QED BY <1>2, <1>12, <1>13, <2>1, <2>2, <2>3 DEF LedgerTrue
  <1>21. RunHeld' /\ LedgerRebuilt'
    BY <1>1, <1>2, <1>8, <1>10, <1>13 DEF RunHeld, LedgerRebuilt, SameScan
  <1> QED BY <1>9, <1>14, <1>15, <1>16, <1>17, <1>19, <1>20, <1>21 DEF SInv

(* Publisher::source moves only the publication, and what it says of the     *)
(* source.                                                                   *)
Publication(p, o) ==
    /\ ctl' \in ControllerType /\ ctl'.active = ctl.active /\ ctl'.pending = ctl.pending
    /\ Publishes(ledger, {p}, [q \in {p} |-> o], ledger')

(* RecordOutcome publishes: the run is the controller's. *)
LEMMA PublicationDoes ==
  ASSUME TypeOK, RunHeld, NEW p \in Path, NEW o \in SessionOutcome, RecordOutcome(p, o)
  PROVE  Publication(p, o)
  <1>1. Matches(ctl, ticket)
    BY DEF RunHeld, Matches
  <1>2. ctl \in ControllerType /\ ticket \in Ticket /\ ledger \in SessionLedger
    BY DEF TypeOK
  <1>3. ctl' \in ControllerType
    BY <1>2, InvalidatedType DEF RecordOutcome
  <1>4. ctl'.active = ctl.active /\ ctl'.pending = ctl.pending
    <2>1. ctl' = [ctl EXCEPT !.publication = @ + 1]
      BY <1>1 DEF RecordOutcome, Published
    <2> QED BY <1>2, <2>1 DEF ControllerType
  <1> DEFINE new == [q \in {p} |-> o]
  <1>5. {p} \in SUBSET Path /\ \A q \in {p} : new[q] \in SessionOutcome
    OBVIOUS
  <1>6. ledger' = PublishAll(ledger, {p}, new)
    BY <1>1 DEF RecordOutcome, PublishOutcome
  <1> HIDE DEF new
  <1>7. Publishes(ledger, {p}, new, PublishAll(ledger, {p}, new))
    BY ONLY <1>2, <1>5, SessionPublished
  <1> QED BY <1>3, <1>4, <1>6, <1>7 DEF Publication, new

(* Publication keeps the invariant. *)
LEMMA PublishSourceKeeps ==
  ASSUME TypeOK, SInv, PublishSource
  PROVE  TypeOK' /\ SInv'
  <1>1. /\ pc = "publish" /\ pc' = "scan" /\ pc \in Scans /\ pc' \in Scans
        /\ pc \notin {"idle", "discover", "scan", "commit", "finish"} \cup Before \cup Reading
        /\ pc' \notin {"idle", "discover", "commit", "publish", "finish"} \cup Before
                      \cup Reading
        /\ UNCHANGED <<files, content, events, registry, rows, docs, ticket>>
        /\ IsJob(job) /\ job.path \in Path
    BY DEF PublishSource, envVars, storeVars, Scans, Reading, Attempts, Before, TypeOK, IsJob
  <1>2. /\ RunHeld /\ OwnScope /\ Found /\ OwnersKept /\ ReadTrue /\ CommitTrue
        /\ RowsTrue /\ LedgerTrue /\ LedgerRebuilt
    BY DEF SInv
  <1>3. PICK p, o : /\ p \in Path /\ p = job.path /\ o = job.outcome
    BY <1>1
  <1>4. o \in SessionOutcome
    BY <1>1, <1>3 DEF IsJob
  <1>5. Publication(p, o)
    <2>1. RecordOutcome(p, o)
      BY <1>3 DEF PublishSource
    <2> QED BY <1>2, <1>3, <1>4, <2>1, PublicationDoes
  <1>6. /\ ctl' \in ControllerType /\ ctl'.active = ctl.active /\ ctl'.pending = ctl.pending
        /\ ledger' \in SessionLedger
        /\ \A q \in Path : ledger'.sources[q] = IF q = p THEN o ELSE ledger.sources[q]
        /\ ledger'.unfinishedSources = ledger.unfinishedSources \ {p}
        /\ ledger'.reconstructed = ledger.reconstructed
        /\ ledger'.scanFailed = ledger.scanFailed
        /\ ledger'.discoveryUncertain = ledger.discoveryUncertain
        /\ ledger'.unfinished = ledger.unfinished
    BY <1>5 DEF Publication, Publishes
  <1> DEFINE R == job.report.reported \cup {p}
             O == [job.report.outcome EXCEPT ![p] = o]
             r == [job.report EXCEPT !.reported = R, !.outcome = O]
  <1>7. /\ r \in SessionReport /\ r.reported = job.report.reported \cup {p}
        /\ r.outcome[p] = o /\ \A q \in Path \ {p} : r.outcome[q] = job.report.outcome[q]
        /\ r.full = job.report.full /\ r.complete = job.report.complete
        /\ r.scope = job.report.scope
    <2>1. job.report \in SessionReport
      BY <1>1 DEF IsJob
    <2>2. /\ R \in SUBSET Path /\ O \in [Path -> SessionOutcome] /\ O[p] = o
          /\ \A q \in Path \ {p} : O[q] = job.report.outcome[q]
      BY <1>3, <1>4, <2>1 DEF SessionReport
    <2>3. R = job.report.reported \cup {p}
      OBVIOUS
    <2> HIDE DEF R, O
    <2> QED BY <2>1, <2>2, <2>3 DEF SessionReport
  <1>8. job' = [job EXCEPT !.report = r, !.outcome = NoOutcome, !.version = NoVersion]
    BY <1>1, <1>3 DEF PublishSource, IsJob, SessionReport
  <1> HIDE DEF r
  <1>9. /\ IsJob(job') /\ job'.report = r /\ job'.path = p
        /\ job'.existing = job.existing /\ job'.roots = job.roots /\ job'.todo = job.todo
        /\ job'.seen = job.seen /\ job'.registry = job.registry /\ job'.cache = job.cache
        /\ job'.read = job.read
    BY <1>1, <1>3, <1>7, <1>8, SessionTypes DEF IsJob
  <1>10. TypeOK'
    BY <1>1, <1>6, <1>9 DEF TypeOK
  <1>11. InScope' = InScope /\ (Precise' <=> Precise)
    BY <1>1 DEF InScope, Precise
  <1>12. \A q \in Path : StillAt(q) /\ (Noticed(q) => Noticed(q)')
    BY <1>1, <1>6 DEF StillAt, Noticed, SameOwners
  <1>13. Rest' = Rest \ {p}
    BY <1>1, <1>7, <1>9, <1>11 DEF Rest
  <1>14. OwnScope'
    <2>1. Current = {p} /\ Current' = {}
      BY <1>1, <1>3, <1>9 DEF Current
    <2>2. /\ job.todo \cup job.seen \subseteq InScope /\ job.todo \cap job.seen = {}
          /\ job.report.reported \subseteq job.seen
          /\ job.seen = job.report.reported \cup {p} /\ p \notin job.report.reported
          /\ job.report.full <=> ~Precise
          /\ job.roots = {} /\ job.read = NewRead
          /\ \A q \in Path : job.existing[q] # NoVersion => q \in InScope
          /\ \A q \in InScope \ job.seen :
                ~rows[q].eligible /\ rows[q].version = job.existing[q]
          /\ \A q \in job.report.reported : ledger.sources[q] = job.report.outcome[q]
      <3>1. pc \notin Attempts
        BY <1>1 DEF Reading
      <3> QED BY <1>1, <1>2, <2>1, <3>1 DEF OwnScope
    <2>3. \A q \in r.reported : ledger'.sources[q] = r.outcome[q]
      <3>1. job.report.reported \subseteq Path
        BY <1>1 DEF IsJob, SessionReport
      <3> QED BY <1>3, <1>6, <1>7, <2>2, <3>1
    <2>4. job'.seen = job'.report.reported \cup {} /\ job'.report.reported \subseteq job'.seen
      BY <1>7, <1>9, <2>2
    <2> QED BY <1>1, <1>7, <1>9, <1>11, <2>1, <2>2, <2>3, <2>4 DEF OwnScope
  <1>15. Found'
    <2>1. \A q \in Path : IsFile(q)' <=> IsFile(q)
      BY <1>1 DEF IsFile
    <2> QED BY <1>1, <1>2, <1>7, <1>9, <1>11, <1>12, <2>1 DEF Found, InScope
  <1>16. OwnersKept'
    <2>1. pc' \notin Attempts \cup {"verify", "commit"}
      BY <1>1 DEF Reading, Attempts
    <2> QED BY <1>1, <1>2, <1>9, <2>1 DEF OwnersKept
  <1>17. ReadTrue' /\ CommitTrue'
    BY <1>1 DEF ReadTrue, CommitTrue, Reading
  <1>18. RowsTrue'
    <2>1. \A q \in Path : RowTrue(q) => RowTrue(q)'
      BY <1>12, StillRow
    <2> QED BY <1>1, <1>2, <1>12, <2>1 DEF RowsTrue, Before
  <1>19. LedgerTrue'
    <2>1. \A q \in Path \ {p} : EntryTrue(q) => EntryTrue(q)'
      BY <1>6, <1>12, StillEntry
    <2>2. Noticed(p) \/ Tells(p, o)
      BY <1>1, <1>2, <1>3 DEF LedgerTrue
    <2>3. Tells(p, o) => Tells(p, o)'
      BY <1>3, <1>12, StillTells
    <2>4. Tells(p, o)' => EntryTrue(p)'
      BY <1>3, <1>6 DEF EntryTrue, Tells, Unindexed
    <2> QED BY <1>1, <1>2, <1>12, <1>13, <2>1, <2>2, <2>3, <2>4 DEF LedgerTrue
  <1>20. RunHeld'
    BY <1>1, <1>2, <1>6 DEF RunHeld
  <1>21. LedgerRebuilt'
    <2>1. \A q \in Path : Covers(ctl'.pending, q) <=> Covers(ctl.pending, q)
      BY <1>6
    <2>2. ledger.unfinishedSources \subseteq Path
      BY DEF TypeOK, SessionLedger
    <2> QED BY <1>1, <1>2, <1>6, <1>7, <1>9, <1>11, <1>13, <2>1, <2>2 DEF LedgerRebuilt
  <1> QED BY <1>10, <1>14, <1>15, <1>16, <1>17, <1>18, <1>19, <1>20, <1>21 DEF SInv

(* A known source that a complete walk has not found is removed. *)
LEMMA RemoveUnseenKeeps ==
  ASSUME TypeOK, SInv, NEW p \in Path, RemoveUnseen(p)
  PROVE  TypeOK' /\ SInv'
  <1>1. /\ pc = "scan" /\ pc \in Scans /\ Untouched /\ IsJob(job)
        /\ job.todo = {} /\ job.report.complete /\ p \in InScope
        /\ job.existing[p] # NoVersion /\ p \notin job.seen
    BY DEF RemoveUnseen, Untouched, envVars, Scans, TypeOK, Unseen
  <1>2. RemoveOld(p)
    BY <1>1 DEF RemoveUnseen, RemoveOld
  <1>3. Settles(p, NoOutcome)
    <2>1. job' = [job EXCEPT !.path = p, !.seen = job.seen \cup {p}, !.version = NoVersion,
                             !.outcome = NoOutcome]
      BY <1>1 DEF RemoveUnseen, IsJob
    <2>2. job.read = NewRead
      BY <1>1 DEF SInv, OwnScope, Attempts
    <2>3. job.todo \ {p} = job.todo
      BY <1>1
    <2>4. pc' = "publish"
      BY DEF RemoveUnseen
    <2> QED BY <1>1, <2>1, <2>2, <2>3, <2>4, SessionTypes DEF Settles, IsJob
  <1>4. Noticed(p) \/ ~IsFile(p)
    <2>1. ~Precise => job.roots = {}
      BY <1>1 DEF SInv, OwnScope
    <2> QED BY <1>1, <2>1 DEF SInv, Found
  <1>5. ~IsFile(p) => Unindexed(p, NoOutcome)
    BY DEF Unindexed, NoOutcome, Owned
  <1> QED BY <1>1, <1>2, <1>3, <1>4, <1>5, SessionTypes, SettlesKeeps

(* A scan that is told to stop leaves everything as it is. *)
LEMMA CancelScanKeeps ==
  ASSUME TypeOK, SInv, CancelScan
  PROVE  TypeOK' /\ SInv'
  <1> DEFINE r == [job.report EXCEPT !.cancelled = TRUE]
  <1>1. IsJob(job) /\ job.report \in SessionReport
    BY DEF TypeOK, IsJob
  <1>2. /\ r \in SessionReport /\ r.scope = job.report.scope /\ r.cancelled = TRUE
        /\ r.full = job.report.full /\ r.reported = job.report.reported
        /\ r.outcome = job.report.outcome /\ r.complete = job.report.complete
    BY <1>1 DEF SessionReport
  <1>3. job' = [job EXCEPT !.report = r, !.read = NewRead, !.new = NoDocs]
    BY <1>1 DEF CancelScan, IsJob
  <1> HIDE DEF r
  <1>4. /\ IsJob(job') /\ job'.report = r
        /\ job'.existing = job.existing /\ job'.roots = job.roots /\ job'.todo = job.todo
        /\ job'.seen = job.seen /\ job'.registry = job.registry /\ job'.cache = job.cache
        /\ job'.path = job.path /\ job'.read = NewRead
    BY <1>1, <1>2, <1>3, SessionTypes, NewReadType DEF IsJob
  <1>5. /\ pc \in {"scan", "commit"} \cup Reading /\ pc' = "finish"
        /\ Steady /\ registry' = registry
    BY DEF CancelScan, Steady, envVars, storeVars, SameOwners, TypeOK, Reading, Attempts
  <1>6. /\ pc \in Scans /\ pc' \in Scans
        /\ pc \notin {"discover", "publish", "finish"}
        /\ pc' \notin {"discover", "commit", "publish", "scan"} \cup Reading
    BY <1>5 DEF Scans, Reading, Attempts
  <1>7. TypeOK'
    BY <1>4, <1>5, <1>6, SteadyType
  <1>8. /\ RunHeld /\ OwnScope /\ Found /\ OwnersKept /\ ReadTrue /\ CommitTrue
        /\ RowsTrue /\ LedgerTrue /\ LedgerRebuilt
    BY DEF SInv
  <1>9. InScope' = InScope /\ (Precise' <=> Precise)
    BY <1>5 DEF Steady, InScope, Precise
  <1>10. RunHeld' /\ RowsTrue' /\ LedgerTrue' /\ LedgerRebuilt'
    <2>1. /\ job'.report.reported = job.report.reported /\ job'.report.scope \subseteq InScope
          /\ Precise => job'.report.complete
      BY <1>2, <1>4, <1>6, <1>8 DEF LedgerRebuilt
    <2> QED BY <1>5, <1>6, <1>8, <2>1, SteadyKeeps
  <1>11. OwnScope'
    <2>1. rows' = rows /\ ledger' = ledger /\ Current' = {}
      BY <1>5, <1>6 DEF Steady, Current
    <2>2. /\ job.todo \cup job.seen \subseteq InScope /\ job.todo \cap job.seen = {}
          /\ job.report.reported \subseteq job.seen
          /\ job.report.full <=> ~Precise
          /\ job.roots = {}
          /\ \A q \in Path : job.existing[q] # NoVersion => q \in InScope
          /\ \A q \in InScope \ job.seen :
                ~rows[q].eligible /\ rows[q].version = job.existing[q]
          /\ \A q \in job.report.reported : ledger.sources[q] = job.report.outcome[q]
      BY <1>6, <1>8 DEF OwnScope
    <2> QED BY <1>2, <1>4, <1>5, <1>6, <1>9, <2>1, <2>2 DEF OwnScope
  <1>12. Found'
    <2>1. \A q \in Path : Noticed(q) => Noticed(q)'
      BY <1>5, SteadyNotices
    <2>2. \A q \in Path : IsFile(q)' <=> IsFile(q)
      BY <1>5 DEF Steady, IsFile
    <2> QED BY <1>2, <1>4, <1>6, <1>8, <1>9, <2>1, <2>2 DEF Found, InScope
  <1>13. OwnersKept'
    <2>1. pc' \notin Attempts \cup {"verify", "commit"}
      BY <1>6 DEF Reading, Attempts
    <2> QED BY <1>4, <1>5, <1>6, <1>8, <2>1 DEF OwnersKept, Steady
  <1>14. ReadTrue' /\ CommitTrue'
    BY <1>6 DEF ReadTrue, CommitTrue, Reading
  <1> QED BY <1>7, <1>10, <1>11, <1>12, <1>13, <1>14 DEF SInv

(***************************************************************************)
(* The run up to the scan.                                                 *)
(***************************************************************************)
(* Nothing of the scan is true or false before it has begun. *)
LEMMA NotScanning ==
  ASSUME pc \notin Scans
  PROVE  /\ OwnScope /\ Found /\ ReadTrue /\ CommitTrue /\ Current = {}
         /\ OwnersKept <=>
              (~RegisterDuringScan =>
                 \A p \in Path : Present(rows[p]) =>
                    OwnedUnder(docs[p].revision, p, docs[p].prefix))
         /\ pc # "publish"
  BY DEF OwnScope, Found, ReadTrue, CommitTrue, OwnersKept, Scans, Reading, Attempts, Current

(* Outside a scan nothing is said of the scan's locals. *)
LEMMA NotScanningNext ==
  ASSUME pc' \notin Scans
  PROVE  /\ OwnScope' /\ Found' /\ ReadTrue' /\ CommitTrue' /\ Current' = {}
         /\ OwnersKept' <=>
              (~RegisterDuringScan =>
                 \A p \in Path : Present(rows'[p]) =>
                    OwnedUnder(docs'[p].revision, p, docs'[p].prefix))
         /\ pc' # "publish"
  BY DEF OwnScope, Found, ReadTrue, CommitTrue, OwnersKept, Scans, Reading, Attempts, Current

(* A run takes over all that is queued. *)
LEMMA WorkerBeginKeeps ==
  ASSUME TypeOK, SInv, WorkerBegin
  PROVE  TypeOK' /\ SInv'
  <1>1. /\ pc = "idle" /\ pc' = "invalidate" /\ CanBegin(ctl)
        /\ ctl' = Begin(ctl) /\ ticket' = NextTicket(ctl)
        /\ UNCHANGED <<files, content, events, registry, rows, docs, ledger, job>>
    BY DEF WorkerBegin, envVars, storeVars
  <1>2. /\ RunHeld /\ OwnersKept /\ RowsTrue /\ LedgerTrue /\ LedgerRebuilt
    BY DEF SInv
  <1>3. ctl \in ControllerType
    BY DEF TypeOK
  <1>4. ctl' \in ControllerType /\ ticket' \in Ticket
    BY <1>1, <1>3, BeginType
  <1>5. /\ ctl'.active = ticket' /\ ctl'.pending = NoScope
        /\ ticket'.scope = ctl.pending /\ ticket'.run = ctl.nextRun + 1
    BY <1>1, <1>3 DEF Begin, NextTicket, ControllerType
  <1>6. /\ ctl.pending # NoScope /\ ctl.nextRun \in Nat
    BY <1>1, <1>3 DEF CanBegin, ControllerType
  <1>7. pc \notin Scans /\ pc' \notin Scans /\ "invalidate" \notin Scans
    BY <1>1 DEF Scans, Reading, Attempts
  <1>8. TypeOK'
    BY <1>1, <1>4, <1>7 DEF TypeOK, Before, Scans
  <1>9. RunHeld'
    <2>1. ticket' # NoTicket /\ ticket'.run # 0
      BY <1>5, <1>6 DEF NoTicket
    <2>2. job' = NewJob
      BY <1>1, <1>2, <1>7 DEF RunHeld
    <2> QED BY <1>1, <1>5, <1>6, <2>1, <2>2 DEF RunHeld
  <1>10. InScope' = {p \in Path : Covers(ctl.pending, p)} /\ (pc' # "idle")
         /\ (Precise' <=> ctl.pending.kind = "sources")
    BY <1>1, <1>5 DEF InScope, Precise
  <1>11. \A p \in Path : Noticed(p) => Noticed(p)' \/ p \in InScope'
    BY <1>1, <1>10 DEF Noticed
  <1>12. \A p \in Path : StillAt(p)
    BY <1>1 DEF StillAt, SameOwners
  <1>13. job'.report.reported = {} /\ Rest' = InScope' /\ Rest = {}
    <2>1. job' = NewJob
      BY <1>1, <1>2, <1>7 DEF RunHeld
    <2> QED BY <1>1, <2>1, NewJobType DEF Rest
  <1>14. RowsTrue'
    <2>1. \A p \in Path : RowTrue(p) => RowTrue(p)'
      BY <1>12, StillRow
    <2> QED BY <1>1, <1>2, <1>11, <2>1 DEF RowsTrue
  <1>15. LedgerTrue'
    <2>1. \A p \in Path : EntryTrue(p) => EntryTrue(p)'
      BY <1>1, <1>12, StillEntry
    <2> QED BY <1>1, <1>2, <1>11, <1>13, <2>1 DEF LedgerTrue
  <1>16. LedgerRebuilt'
    <2>1. ctl.pending = Full => ~Precise'
      BY <1>10 DEF Full
    <2>2. ctl.pending \in Scope /\ ledger.unfinishedSources \subseteq Path
      BY <1>3 DEF ControllerType, TypeOK, SessionLedger
    <2> QED BY <1>1, <1>2, <1>7, <1>10, <1>13, <2>1, <2>2 DEF LedgerRebuilt
  <1> QED BY <1>1, <1>2, <1>7, <1>8, <1>9, <1>14, <1>15, <1>16, NotScanning, NotScanningNext
          DEF SInv

(* Rows that are no longer searchable say nothing, and their paths are still *)
(* to be reported.                                                           *)
LEMMA InvalidationKeeps ==
  ASSUME TypeOK, SInv, pc \in {"invalidate", "open"}, NEW S \in SUBSET InScope,
         rows' = InvalidateIn(S),
         UNCHANGED <<files, content, events, registry, docs>>,
         \A p \in Path : Noticed(p) => Noticed(p)'
  PROVE  /\ rows' \in [Path -> SessionRow]
         /\ ~RegisterDuringScan => \A p \in Path : Present(rows'[p]) =>
                OwnedUnder(docs'[p].revision, p, docs'[p].prefix)
         /\ \A p \in Path :
              /\ rows'[p].version = rows[p].version
              /\ rows'[p].eligible => Present(rows'[p])
              /\ Present(rows'[p]) => /\ docs'[p].prefix = rows'[p].version[1]
                                      /\ docs'[p].offset = Len(docs'[p].prefix)
              /\ rows'[p].eligible =>
                    \/ Noticed(p)' \/ (pc = "invalidate" /\ p \in InScope \ S) \/ RowTrue(p)'
              /\ p \in S => ~rows'[p].eligible
              /\ p \notin InScope => StillAt(p)
  <1>1. /\ rows' \in [Path -> SessionRow]
        /\ \A p \in Path : rows'[p].version = rows[p].version
        /\ \A p \in Path : rows'[p] = rows[p] \/ p \in S
        /\ \A p \in Path : p \in S => ~rows'[p].eligible
        /\ \A p \in Path : rows'[p].eligible => rows[p].eligible
    BY InvalidatedRows
  <1>2. pc \notin Scans
    BY DEF Scans, Reading, Attempts
  <1>3. RowsTrue /\ OwnersKept
    BY DEF SInv
  <1>4. ASSUME NEW p \in Path, rows'[p] = rows[p]
        PROVE  StillAt(p)
    BY <1>4 DEF StillAt, SameOwners
  <1>5. \A p \in Path : rows'[p].eligible =>
             \/ Noticed(p)' \/ (pc = "invalidate" /\ p \in InScope \ S) \/ RowTrue(p)'
    BY <1>1, <1>3, <1>4, StillRow DEF RowsTrue
  <1>6. ~RegisterDuringScan => \A p \in Path : Present(rows'[p]) =>
                OwnedUnder(docs'[p].revision, p, docs'[p].prefix)
    BY <1>1, <1>2, <1>3, NotScanning DEF Present
  <1>7. \A p \in Path :
              /\ rows'[p].eligible => Present(rows'[p])
              /\ Present(rows'[p]) => /\ docs'[p].prefix = rows'[p].version[1]
                                      /\ docs'[p].offset = Len(docs'[p].prefix)
    BY <1>1, <1>3 DEF Present, RowsTrue
  <1> QED BY <1>1, <1>4, <1>5, <1>6, <1>7

(* Invalidation keeps the invariant. *)
LEMMA InvalidateScopeKeeps ==
  ASSUME TypeOK, SInv, InvalidateScope
  PROVE  TypeOK' /\ SInv'
  <1>1. /\ pc = "invalidate" /\ pc' = "invalidated" /\ rows' = InvalidateIn(InScope)
        /\ UNCHANGED <<files, content, events, registry, docs, ctl, ledger, ticket, job>>
    BY DEF InvalidateScope, envVars
  <1>2. /\ RunHeld /\ LedgerTrue /\ LedgerRebuilt
    BY DEF SInv
  <1>3. \A p \in Path : Noticed(p) <=> Noticed(p)'
    BY <1>1 DEF Noticed
  <1>4. /\ rows' \in [Path -> SessionRow]
        /\ ~RegisterDuringScan => \A p \in Path : Present(rows'[p]) =>
                OwnedUnder(docs'[p].revision, p, docs'[p].prefix)
        /\ \A p \in Path :
              /\ rows'[p].eligible => Present(rows'[p])
              /\ Present(rows'[p]) => /\ docs'[p].prefix = rows'[p].version[1]
                                      /\ docs'[p].offset = Len(docs'[p].prefix)
              /\ rows'[p].eligible => Noticed(p)' \/ RowTrue(p)'
              /\ p \notin InScope => StillAt(p)
    <2> DEFINE S == InScope
    <2>1. S \in SUBSET InScope /\ rows' = InvalidateIn(S)
      BY <1>1
    <2>2. \A p \in Path : p \notin InScope \ S
      OBVIOUS
    <2> HIDE DEF S
    <2> QED BY <1>1, <1>3, <2>1, <2>2, InvalidationKeeps
  <1>5. pc \notin Scans /\ pc' \notin Scans /\ pc # "idle" /\ pc' # "idle"
    BY <1>1 DEF Scans, Reading, Attempts
  <1>6. TypeOK'
    BY <1>1, <1>4, <1>5 DEF TypeOK, Before
  <1>7. InScope' = InScope /\ (Precise' <=> Precise)
    BY <1>1 DEF InScope, Precise
  <1>8. Rest' = Rest /\ Rest = InScope
    <2>1. job = NewJob
      BY <1>2, <1>5 DEF RunHeld
    <2> QED BY <1>1, <1>5, <1>7, <2>1, NewJobType DEF Rest
  <1>9. RunHeld' /\ LedgerRebuilt'
    BY <1>1, <1>2, <1>5, <1>7, <1>8 DEF RunHeld, LedgerRebuilt
  <1>10. RowsTrue'
    BY <1>1, <1>4 DEF RowsTrue
  <1>11. LedgerTrue'
    <2>1. \A p \in Path \ InScope : EntryTrue(p) => EntryTrue(p)'
      BY <1>1, <1>4, StillEntry
    <2> QED BY <1>1, <1>2, <1>3, <1>8, <2>1 DEF LedgerTrue
  <1> QED BY <1>4, <1>5, <1>6, <1>9, <1>10, <1>11, NotScanningNext DEF SInv

(* So does telling the controller of it. *)
LEMMA MarkInvalidatedKeeps ==
  ASSUME TypeOK, SInv, MarkInvalidated
  PROVE  TypeOK' /\ SInv'
  <1>1. /\ pc = "invalidated" /\ pc' = "open" /\ ctl' = Invalidated(ctl, ticket)
        /\ UNCHANGED <<files, content, events, registry, rows, docs, ledger, ticket, job>>
    BY DEF MarkInvalidated, envVars, storeVars
  <1>2. /\ RunHeld /\ OwnersKept /\ RowsTrue /\ LedgerTrue /\ LedgerRebuilt
    BY DEF SInv
  <1>3. ctl \in ControllerType /\ ticket \in Ticket
    BY DEF TypeOK
  <1>4. /\ ctl' \in ControllerType /\ ctl'.active = ctl.active /\ ctl'.pending = ctl.pending
    <2>1. ctl' \in ControllerType
      BY <1>1, <1>3, InvalidatedType
    <2>2. ctl' \in {ctl, [ctl EXCEPT !.safe = ticket.observed, !.publication = @ + 1]}
      BY <1>1 DEF Invalidated
    <2> QED BY <1>3, <2>1, <2>2 DEF ControllerType
  <1>5. pc \notin Scans /\ pc' \notin Scans /\ pc # "idle" /\ pc' # "idle"
    BY <1>1 DEF Scans, Reading, Attempts
  <1>6. TypeOK'
    BY <1>1, <1>4, <1>5 DEF TypeOK, Before
  <1>7. InScope' = InScope /\ (Precise' <=> Precise)
    BY <1>1 DEF InScope, Precise
  <1>8. Rest' = Rest
    BY <1>1, <1>5, <1>7 DEF Rest
  <1>9. RunHeld' /\ LedgerRebuilt'
    BY <1>1, <1>2, <1>4, <1>5, <1>7, <1>8 DEF RunHeld, LedgerRebuilt, Covers
  <1>10. \A p \in Path : StillAt(p) /\ (Noticed(p) => Noticed(p)')
    BY <1>1, <1>4 DEF StillAt, Noticed, SameOwners
  <1>11. RowsTrue'
    <2>1. \A p \in Path : RowTrue(p) => RowTrue(p)'
      BY <1>10, StillRow
    <2> QED BY <1>1, <1>2, <1>10, <2>1 DEF RowsTrue
  <1>12. LedgerTrue'
    <2>1. \A p \in Path : EntryTrue(p) => EntryTrue(p)'
      BY <1>1, <1>10, StillEntry
    <2> QED BY <1>1, <1>2, <1>8, <1>10, <2>1 DEF LedgerTrue
  <1> QED BY <1>1, <1>2, <1>5, <1>6, <1>9, <1>11, <1>12, NotScanning, NotScanningNext
          DEF SInv

(* The scan begins with the registry, the rows and the walk still to do. *)
LEMMA OpenScanKeeps ==
  ASSUME TypeOK, SInv, OpenScan
  PROVE  TypeOK' /\ SInv'
  <1> DEFINE e == [p \in Path |-> IF p \in InScope THEN rows[p].version ELSE NoVersion]
             f == IF Precise THEN {} ELSE {Provider[p] : p \in Path}
             t == IF Precise THEN InScope ELSE {}
             r == [NewReport(Path, ~Precise) EXCEPT !.complete = TRUE]
             g == registry
  <1>1. /\ pc = "open" /\ pc' = "discover" /\ rows' = InvalidateIn(InScope)
        /\ job' = [NewJob EXCEPT !.registry = g, !.existing = e, !.roots = f, !.todo = t,
                                 !.report = r]
        /\ UNCHANGED <<files, content, events, registry, docs, ctl, ledger, ticket>>
    BY DEF OpenScan, envVars
  <1>2. /\ RunHeld /\ LedgerTrue /\ LedgerRebuilt
    BY DEF SInv
  <1>3. /\ r \in SessionReport /\ r.complete /\ (r.full <=> ~Precise) /\ r.reported = {}
        /\ r.scope = {}
    <2>1. NewReport(Path, ~Precise) \in SessionReport
      BY SessionTypes
    <2> QED BY <2>1 DEF SessionReport, NewReport
  <1>4. /\ e \in [Path -> SessionVersion \cup {NoVersion}]
        /\ t \subseteq Path
        /\ \A p \in Path : e[p] # NoVersion => p \in InScope
        /\ \A p \in InScope : e[p] = rows[p].version
        /\ InScope \subseteq Path
    <2>1. /\ InScope \subseteq Path
          /\ \A p \in Path : rows[p].version \in SessionVersion \cup {NoVersion}
      BY DEF InScope, TypeOK, SessionRow
    <2> QED BY <2>1
  <1>5. IsJob(NewJob) /\ NewJob.seen = {} /\ NewJob.cache = {} /\ NewJob.read = NewRead
    BY NewJobType DEF NewJob
  <1>6. /\ Precise => t = InScope /\ f = {}
        /\ ~Precise => t = {} /\ \A p \in Path : Provider[p] \in f
    OBVIOUS
  <1> HIDE DEF e, f, t, r, g
  <1>7. /\ IsJob(job') /\ job'.report = r /\ job'.existing = e /\ job'.roots = f
        /\ job'.todo = t /\ job'.seen = {} /\ job'.cache = {} /\ job'.read = NewRead
        /\ job'.registry = g
    BY <1>1, <1>3, <1>4, <1>5 DEF IsJob
  <1>8. pc \notin Scans /\ pc # "idle" /\ pc' # "idle" /\ pc' \in Scans
        /\ pc' \notin {"scan", "commit", "publish", "finish", "invalidate"} \cup Reading
    BY <1>1 DEF Scans, Reading, Attempts
  <1>9. \A p \in Path : Noticed(p) <=> Noticed(p)'
    BY <1>1 DEF Noticed
  <1>10. /\ rows' \in [Path -> SessionRow]
         /\ ~RegisterDuringScan => \A p \in Path : Present(rows'[p]) =>
                OwnedUnder(docs'[p].revision, p, docs'[p].prefix)
         /\ \A p \in Path :
              /\ rows'[p].version = rows[p].version
              /\ rows'[p].eligible => Present(rows'[p])
              /\ Present(rows'[p]) => /\ docs'[p].prefix = rows'[p].version[1]
                                      /\ docs'[p].offset = Len(docs'[p].prefix)
              /\ rows'[p].eligible => Noticed(p)' \/ RowTrue(p)'
              /\ p \in InScope => ~rows'[p].eligible
              /\ p \notin InScope => StillAt(p)
    <2> DEFINE S == InScope
    <2>1. S \in SUBSET InScope /\ rows' = InvalidateIn(S)
      BY <1>1
    <2>2. pc # "invalidate"
      BY <1>1
    <2> HIDE DEF S
    <2>3. /\ rows' \in [Path -> SessionRow]
          /\ ~RegisterDuringScan => \A p \in Path : Present(rows'[p]) =>
                OwnedUnder(docs'[p].revision, p, docs'[p].prefix)
          /\ \A p \in Path :
              /\ rows'[p].version = rows[p].version
              /\ rows'[p].eligible => Present(rows'[p])
              /\ Present(rows'[p]) => /\ docs'[p].prefix = rows'[p].version[1]
                                      /\ docs'[p].offset = Len(docs'[p].prefix)
              /\ rows'[p].eligible =>
                    \/ Noticed(p)' \/ (pc = "invalidate" /\ p \in InScope \ S) \/ RowTrue(p)'
              /\ p \in S => ~rows'[p].eligible
              /\ p \notin InScope => StillAt(p)
      BY <1>1, <1>9, <2>1, InvalidationKeeps
    <2> QED BY <2>2, <2>3 DEF S
  <1>11. TypeOK'
    BY <1>1, <1>7, <1>10 DEF TypeOK, Scans
  <1>12. InScope' = InScope /\ (Precise' <=> Precise)
    BY <1>1 DEF InScope, Precise
  <1>13. Rest' = Rest /\ Rest = InScope
    <2>1. job = NewJob
      BY <1>2, <1>8 DEF RunHeld
    <2> QED BY <1>3, <1>7, <1>8, <1>12, <2>1, NewJobType DEF Rest
  <1>14. RunHeld'
    BY <1>1, <1>2, <1>8 DEF RunHeld
  <1>15. LedgerRebuilt'
    BY <1>1, <1>2, <1>3, <1>7, <1>8, <1>12, <1>13 DEF LedgerRebuilt
  <1>16. OwnScope'
    <2>1. Current' = {}
      BY <1>8 DEF Current
    <2>2. t \subseteq InScope
      BY <1>6
    <2>3. \A p \in InScope : ~rows'[p].eligible /\ rows'[p].version = e[p]
      BY <1>4, <1>10
    <2> QED BY <1>1, <1>3, <1>4, <1>6, <1>7, <1>8, <1>12, <2>1, <2>2, <2>3 DEF OwnScope
  <1>17. Found'
    BY <1>4, <1>6, <1>7, <1>12 DEF Found
  <1>18. OwnersKept'
    <2>1. pc' \notin Attempts \cup {"verify", "commit"}
      BY <1>8 DEF Reading, Attempts
    <2>2. Agree(g, registry')
      BY <1>1, SameRegistryAgrees DEF g
    <2> QED BY <1>7, <1>10, <2>1, <2>2 DEF OwnersKept
  <1>19. ReadTrue' /\ CommitTrue'
    BY <1>8 DEF ReadTrue, CommitTrue, Reading
  <1>20. RowsTrue'
    BY <1>10 DEF RowsTrue
  <1>21. LedgerTrue'
    <2>1. \A p \in Path \ InScope : EntryTrue(p) => EntryTrue(p)'
      BY <1>1, <1>10, StillEntry
    <2> QED BY <1>2, <1>8, <1>9, <1>13, <2>1 DEF LedgerTrue
  <1> QED BY <1>11, <1>14, <1>15, <1>16, <1>17, <1>18, <1>19, <1>20, <1>21 DEF SInv

(***************************************************************************)
(* The end of a run.                                                       *)
(***************************************************************************)
(* The worker rests, and everything is queued. *)
AllQueued ==
    /\ pc' = "idle" /\ ctl' \in ControllerType /\ ctl'.pending = Full
    /\ ctl'.active = NoTicket /\ ticket' = NoTicket /\ job' = NewJob
    /\ ledger' \in SessionLedger

(* A run that ends with everything queued keeps the invariant. *)
LEMMA AllQueuedKeeps ==
  ASSUME AllQueued,
         \A p \in Path :
            /\ rows'[p].eligible => Present(rows'[p])
            /\ Present(rows'[p]) => /\ docs'[p].prefix = rows'[p].version[1]
                                    /\ docs'[p].offset = Len(docs'[p].prefix)
                                    /\ ~RegisterDuringScan =>
                                         OwnedUnder(docs'[p].revision, p, docs'[p].prefix)
  PROVE  SInv'
  <1>1. \A p \in Path : Noticed(p)' /\ Covers(ctl'.pending, p)
    BY ScopeTypes DEF AllQueued, Noticed
  <1>2. pc' = "idle" /\ pc' \notin Scans
    BY DEF AllQueued, Scans, Reading, Attempts
  <1>3. RunHeld'
    BY <1>2 DEF AllQueued, RunHeld
  <1>4. RowsTrue' /\ LedgerTrue'
    BY <1>1, <1>2 DEF RowsTrue, LedgerTrue
  <1>5. LedgerRebuilt'
    <2>1. ctl'.pending # NoScope /\ ledger'.unfinishedSources \subseteq Path
      BY ScopeTypes DEF AllQueued, SessionLedger
    <2> QED BY <1>1, <1>2, <2>1 DEF AllQueued, LedgerRebuilt
  <1>6. OwnersKept'
    BY <1>2, NotScanningNext
  <1> QED BY <1>2, <1>3, <1>4, <1>5, <1>6, NotScanningNext DEF SInv

(* What the rows say of themselves. *)
LEMMA RowsSay ==
  ASSUME SInv
  PROVE  \A p \in Path :
            /\ rows[p].eligible => Present(rows[p])
            /\ Present(rows[p]) => /\ docs[p].prefix = rows[p].version[1]
                                   /\ docs[p].offset = Len(docs[p].prefix)
                                   /\ ~RegisterDuringScan =>
                                        OwnedUnder(docs[p].revision, p, docs[p].prefix)
  BY DEF SInv, RowsTrue, OwnersKept

(* A queue of everything stays one. *)
LEMMA FullQueue ==
  /\ \A s : Queue(s, Full) = Full
  /\ \A s : Queue(Full, s) = Full
  BY DEF Queue, Bounded, Merge, Full, NoScope

(* The end of a run leaves it inactive, and queues its scope unless it completed. *)
LEMMA FinishDoes ==
  ASSUME NEW c \in ControllerType, NEW t \in Ticket,
         NEW failed \in BOOLEAN, NEW completed \in BOOLEAN
  PROVE  LET n == Finish(c, t, failed, completed) IN
         /\ n \in ControllerType /\ n.active = NoTicket
         /\ n.pending = IF completed /\ c.safe = t.observed THEN c.pending
                        ELSE Queue(c.pending, IF failed THEN Full ELSE t.scope)
  <1> DEFINE n == Finish(c, t, failed, completed)
             q == Queue(c.pending, IF failed THEN Full ELSE t.scope)
             m == c.publication + 1
             g == c.gitPending \/ t.git
             done == [c EXCEPT !.active = NoTicket, !.publication = m]
             sent == [done EXCEPT !.pending = q, !.gitPending = g, !.safe = 0]
  <1>1. n \in ControllerType
    BY FinishType
  <1>2. n = IF completed /\ c.safe = t.observed THEN done ELSE sent
    BY DEF Finish
  <1> HIDE DEF q, m, g
  <1>3. /\ done.active = NoTicket /\ done.pending = c.pending
        /\ sent.active = NoTicket /\ sent.pending = q
    BY DEF ControllerType
  <1> HIDE DEF n, done, sent
  <1>4. /\ n \in ControllerType /\ n.active = NoTicket
        /\ n.pending = IF completed /\ c.safe = t.observed THEN c.pending ELSE q
    BY <1>1, <1>2, <1>3
  <1> QED BY <1>4 DEF n, q

(* A run that fails keeps the invariant: its scope is queued again. *)
LEMMA FailRunKeeps ==
  ASSUME TypeOK, SInv, FailRun
  PROVE  TypeOK' /\ SInv'
  <1>1. /\ pc # "idle" /\ EndRun(TRUE, job.report)
        /\ UNCHANGED <<files, content, events, registry, docs>>
        /\ \E S : rows' \in {rows, InvalidateIn(S)}
    BY DEF FailRun, envVars
  <1>2. Matches(ctl, ticket) /\ ctl \in ControllerType /\ ticket \in Ticket
        /\ ledger \in SessionLedger
    BY DEF SInv, RunHeld, Matches, TypeOK
  <1>3. /\ ctl' = Finish(ctl, ticket, TRUE, FALSE) /\ ledger' = ApplyError(ledger)
        /\ pc' = "idle" /\ ticket' = NoTicket /\ job' = NewJob
    BY <1>1, <1>2 DEF EndRun
  <1>4. ctl' \in ControllerType /\ ctl'.active = NoTicket /\ ctl'.pending = Full
    <2> DEFINE failed == TRUE
               completed == FALSE
    <2>1. failed \in BOOLEAN /\ completed \in BOOLEAN
      OBVIOUS
    <2>2. LET n == Finish(ctl, ticket, failed, completed) IN
         /\ n \in ControllerType /\ n.active = NoTicket
         /\ n.pending = IF completed /\ ctl.safe = ticket.observed THEN ctl.pending
                        ELSE Queue(ctl.pending, IF failed THEN Full ELSE ticket.scope)
      <3> HIDE DEF failed, completed
      <3> QED BY ONLY <1>2, <2>1, FinishDoes
    <2> QED BY <1>3, <2>2, FullQueue
  <1>5. ledger' \in SessionLedger
    BY <1>2, <1>3 DEF ApplyError, SessionLedger
  <1>6. AllQueued
    BY <1>3, <1>4, <1>5 DEF AllQueued
  <1>7. /\ rows' \in [Path -> SessionRow]
        /\ \A p \in Path : /\ rows'[p].version = rows[p].version
                           /\ rows'[p].eligible => rows[p].eligible
    <2>1. CASE rows' = rows
      BY <2>1 DEF TypeOK
    <2>2. ASSUME NEW S, rows' = InvalidateIn(S)
          PROVE  /\ rows' \in [Path -> SessionRow]
                 /\ \A p \in Path : /\ rows'[p].version = rows[p].version
                                    /\ rows'[p].eligible => rows[p].eligible
      BY <2>2, InvalidatedRows
    <2> QED BY <1>1, <2>1, <2>2
  <1>8. NoTicket \in Ticket /\ IsJob(NewJob)
    BY NewJobType, ScopeTypes DEF NoTicket, Ticket
  <1>9. TypeOK'
    BY <1>1, <1>3, <1>4, <1>5, <1>7, <1>8 DEF TypeOK, Scans, Reading, Attempts
  <1> QED BY <1>1, <1>6, <1>7, <1>9, RowsSay, AllQueuedKeeps DEF Present

(* So does the end of the process: the next one rebuilds everything. *)
LEMMA CrashKeeps ==
  ASSUME TypeOK, SInv, Crash
  PROVE  TypeOK' /\ SInv'
  <1>1. /\ ctl' = NewController /\ ledger' = NewLedger(Path)
        /\ pc' = "idle" /\ ticket' = NoTicket /\ job' = NewJob /\ events' = {}
        /\ UNCHANGED <<files, content, registry, rows, docs>>
    BY DEF Crash, diskVars, storeVars
  <1>2. NoTicket \in Ticket /\ IsJob(NewJob)
    BY NewJobType, ScopeTypes DEF NoTicket, Ticket
  <1>3. AllQueued
    BY <1>1, NewControllerType, SessionTypes DEF AllQueued, NewController
  <1>4. TypeOK'
    BY <1>1, <1>2, NewControllerType, SessionTypes DEF TypeOK, Scans, Reading, Attempts
  <1> QED BY <1>1, <1>3, <1>4, RowsSay, AllQueuedKeeps

(* The invariant holds to begin with. *)
LEMMA SessionInitial ==
  ASSUME Init
  PROVE  TypeOK /\ SInv
  <1>1. PICK f \in Initial :
          /\ files = [p \in Path |-> IF p \in DOMAIN f THEN 1 ELSE Absent]
          /\ content = [p \in Path |-> IF p \in DOMAIN f THEN <<f[p]>> ELSE <<>>]
    BY DEF Init
  <1>2. /\ registry = {} /\ events = {}
        /\ rows = [p \in Path |-> NoRow] /\ docs = [p \in Path |-> NoDocs]
        /\ ctl = NewController /\ ledger = NewLedger(Path)
        /\ pc = "idle" /\ ticket = NoTicket /\ job = NewJob
    BY DEF Init
  <1>3. NoTicket \in Ticket /\ IsJob(NewJob)
    BY NewJobType, ScopeTypes DEF NoTicket, Ticket
  <1>4. /\ content \in [Path -> Seq(File)] /\ files \in [Path -> Int]
        /\ \A p \in Path : files[p] \in {Absent, NotFile} \cup DOMAIN content[p]
    <2>1. \A p \in DOMAIN f : f[p] \in File
      BY SessionAssumption
    <2>2. \A p \in Path : content[p] \in Seq(File)
      BY <1>1, <2>1
    <2>3. content = [p \in Path |-> content[p]]
      BY <1>1
    <2> QED BY <1>1, <2>1, <2>2, <2>3 DEF Absent
  <1>5. /\ rows \in [Path -> SessionRow] /\ docs = [p \in Path |-> docs[p]]
        /\ \A p \in Path : IsDocs(docs[p]) /\ rows[p] = NoRow
    BY <1>2, SessionTypes
  <1>6. pc \notin Scans
    BY <1>2 DEF Scans, Reading, Attempts
  <1>7. TypeOK
    BY <1>2, <1>3, <1>4, <1>5, <1>6, NewControllerType, SessionTypes DEF TypeOK
  <1>8. \A p \in Path : Noticed(p) /\ Covers(ctl.pending, p)
    BY <1>2, ScopeTypes DEF Noticed, NewController
  <1>9. \A p \in Path : ~Present(rows[p]) /\ ~rows[p].eligible
    BY <1>5 DEF Present, NoRow
  <1>10. RunHeld
    BY <1>2, <1>6 DEF RunHeld, NewController
  <1>11. RowsTrue /\ LedgerTrue
    BY <1>2, <1>8, <1>9 DEF RowsTrue, LedgerTrue
  <1>12. LedgerRebuilt
    BY <1>2, <1>6, <1>8, ScopeTypes DEF LedgerRebuilt, NewLedger, NewController
  <1> QED BY <1>6, <1>7, <1>9, <1>10, <1>11, <1>12, NotScanning DEF SInv

(* A run that has come to its end, and what the ledger makes of it. *)
Ends(r) ==
    /\ r \in SessionReport /\ r.full = job.report.full /\ r.complete = job.report.complete
    /\ r.reported = job.report.reported /\ r.outcome = job.report.outcome
    /\ r.scope = job.report.scope
    /\ Completed(r) => ~job.report.cancelled
    /\ EndRun(FALSE, r)

(* A run that finishes applies a report, its own or a cancelled one. *)
LEMMA FinishRunDoes ==
  ASSUME TypeOK, SInv, FinishRun
  PROVE  /\ \E r : Ends(r)
         /\ pc = "finish" \/ (pc = "scan" /\ job.todo = {})
         /\ UNCHANGED <<files, content, events, registry, rows, docs>>
  <1>1. job.report \in SessionReport
    BY DEF TypeOK, IsJob
  <1>2. CASE EndRun(FALSE, job.report)
    BY <1>1, <1>2 DEF Ends, Completed, FinishRun, envVars, storeVars
  <1>3. CASE EndRun(FALSE, [job.report EXCEPT !.cancelled = TRUE])
    <2> DEFINE r == [job.report EXCEPT !.cancelled = TRUE]
    <2>1. /\ r \in SessionReport /\ r.full = job.report.full
          /\ r.complete = job.report.complete
          /\ r.reported = job.report.reported /\ r.outcome = job.report.outcome
          /\ r.scope = job.report.scope /\ r.cancelled
      BY <1>1 DEF SessionReport
    <2>2. Ends(r)
      BY <1>3, <2>1 DEF Ends, Completed
    <2> HIDE DEF r
    <2> QED BY <2>2 DEF FinishRun, envVars, storeVars
  <1> QED BY <1>2, <1>3 DEF FinishRun

(* The run has either done all of its scope, or goes back to the queue. *)
LEMMA FinishRunKeeps ==
  ASSUME TypeOK, SInv, FinishRun
  PROVE  TypeOK' /\ SInv'
  <1>1. PICK r : Ends(r)
    BY FinishRunDoes
  <1>2. /\ pc = "finish" \/ (pc = "scan" /\ job.todo = {})
        /\ UNCHANGED <<files, content, events, registry, rows, docs>>
        /\ pc \in Scans /\ pc # "idle"
        /\ pc \notin {"discover", "commit", "publish", "invalidate"} \cup Reading
    BY FinishRunDoes DEF Scans, Reading, Attempts
  <1>3. /\ RunHeld /\ OwnScope /\ Found /\ OwnersKept
        /\ RowsTrue /\ LedgerTrue /\ LedgerRebuilt
    BY DEF SInv
  <1>4. Matches(ctl, ticket) /\ ctl \in ControllerType /\ ticket \in Ticket
        /\ ledger \in SessionLedger
    BY <1>3 DEF RunHeld, Matches, TypeOK
  <1> DEFINE completed == Completed(r)
             done == completed /\ ctl.safe = ticket.observed
  <1>5. /\ ctl' = Finish(ctl, ticket, FALSE, completed)
        /\ ledger' = ApplyReport(ledger, r)
        /\ pc' = "idle" /\ ticket' = NoTicket /\ job' = NewJob
    <2>1. (~FALSE /\ completed) = completed
      BY DEF Completed
    <2>2. EndRun(FALSE, r)
      BY <1>1 DEF Ends
    <2>3. /\ ctl' = Finish(ctl, ticket, FALSE, ~FALSE /\ completed)
          /\ pc' = "idle" /\ ticket' = NoTicket /\ job' = NewJob
      BY <1>4, <2>2 DEF EndRun
    <2>4. ledger' = ApplyReport(ledger, r)
      BY <1>4, <2>2 DEF EndRun
    <2> HIDE DEF completed
    <2> QED BY <2>1, <2>3, <2>4
  <1>6. /\ ctl' \in ControllerType /\ ctl'.active = NoTicket
        /\ ctl'.pending = IF done THEN ctl.pending ELSE Queue(ctl.pending, ticket.scope)
    <2> DEFINE failed == FALSE
    <2>1. failed \in BOOLEAN /\ completed \in BOOLEAN
      BY DEF Completed
    <2>2. LET n == Finish(ctl, ticket, failed, completed) IN
         /\ n \in ControllerType /\ n.active = NoTicket
         /\ n.pending = IF completed /\ ctl.safe = ticket.observed THEN ctl.pending
                        ELSE Queue(ctl.pending, IF failed THEN Full ELSE ticket.scope)
      <3> HIDE DEF failed, completed
      <3> QED BY ONLY <1>4, <2>1, FinishDoes
    <2> QED BY <1>5, <2>2
  <1>7. Applies(ledger, r, ledger')
    <2>1. r \in SessionReport
      BY <1>1 DEF Ends
    <2> QED BY <1>4, <1>5, <2>1, SessionApplied
  <1>8. /\ ledger' \in SessionLedger
        /\ \A p \in Path : ledger'.sources[p] =
              IF p \in r.reported THEN r.outcome[p]
              ELSE IF r.full /\ completed THEN NoOutcome ELSE ledger.sources[p]
        /\ ledger'.unfinishedSources =
              IF r.full /\ completed THEN {}
              ELSE (ledger.unfinishedSources \cup r.scope) \ r.reported
        /\ ledger'.unfinished = ~completed
        /\ ledger'.reconstructed = IF r.full THEN completed ELSE ledger.reconstructed
        /\ ledger'.scanFailed = (ledger.scanFailed /\ ~(r.full /\ completed))
        /\ ledger'.discoveryUncertain =
              (~r.complete \/ (ledger.discoveryUncertain /\ ~(r.full /\ ~r.cancelled)))
    BY <1>7 DEF Applies
  <1>9. /\ r.full <=> ~Precise
        /\ Precise => r.complete
        /\ r.scope \subseteq InScope /\ r.reported = job.report.reported
        /\ r.outcome = job.report.outcome
        /\ completed => r.complete /\ ~r.cancelled /\ ~job.report.cancelled
        /\ r.full \in BOOLEAN
    BY <1>1, <1>2, <1>3 DEF Ends, OwnScope, LedgerRebuilt, Completed, SessionReport
  <1>10. ctl.pending \in Scope /\ ticket.scope \in Scope /\ ticket.scope # NoScope
    BY <1>2, <1>3, <1>4 DEF ControllerType, Ticket, RunHeld
  <1>11. /\ \A p \in Path : Covers(ctl.pending, p) => Covers(ctl'.pending, p)
         /\ ~done => \A p \in InScope : Covers(ctl'.pending, p)
         /\ ~done => ctl'.pending # NoScope
         /\ ctl.pending = Full => ctl'.pending = Full
         /\ ~done /\ ~Precise => ctl'.pending = Full
    <2> HIDE DEF done
    <2>1. ~Precise => ticket.scope = Full
      BY <1>10 DEF Precise, Scope, Sources
    <2>2. /\ Queue(ctl.pending, ticket.scope) # NoScope
          /\ \A p \in Path : Covers(ctl.pending, p) \/ Covers(ticket.scope, p) =>
                Covers(Queue(ctl.pending, ticket.scope), p)
      BY <1>10, QueueCovers
    <2> QED BY <1>6, <2>1, <2>2, FullQueue DEF InScope
  <1>12. \A p \in Path : StillAt(p) /\ (Noticed(p) => Noticed(p)')
    BY <1>2, <1>11 DEF StillAt, Noticed, SameOwners
  <1>13. completed => /\ job.seen = r.reported /\ job.roots = {}
                      /\ \A p \in InScope : \/ p \in r.reported
                                            \/ ~Precise /\ (Noticed(p) \/ ~IsFile(p))
    <2> SUFFICES ASSUME completed
                 PROVE  /\ job.seen = r.reported /\ job.roots = {}
                        /\ \A p \in InScope : \/ p \in r.reported
                                              \/ ~Precise /\ (Noticed(p) \/ ~IsFile(p))
      OBVIOUS
    <2>1. pc = "scan" /\ job.todo = {}
      BY <1>2, <1>3, <1>9 DEF OwnScope
    <2>2. job.seen = r.reported
      BY <1>2, <1>3, <1>9, <2>1 DEF OwnScope, Current
    <2>3. ~Precise => job.roots = {}
      BY <1>2, <1>3, <2>1 DEF OwnScope
    <2>4. Precise => job.roots = {}
      BY <1>2, <1>3, <2>1 DEF OwnScope
    <2>5. job.report.complete
      BY <1>1, <1>9 DEF Ends
    <2> QED BY <1>2, <1>3, <2>1, <2>2, <2>3, <2>4, <2>5 DEF Found
  <1>14. NoTicket \in Ticket /\ IsJob(NewJob)
    BY NewJobType, ScopeTypes DEF NoTicket, Ticket
  <1>15. pc' \notin Scans
    BY <1>5 DEF Scans, Reading, Attempts
  <1>16. TypeOK'
    BY <1>2, <1>5, <1>6, <1>8, <1>14, <1>15 DEF TypeOK
  <1>17. RunHeld'
    BY <1>5, <1>6, <1>15 DEF RunHeld
  <1>18. RowsTrue'
    <2>1. \A p \in Path : RowTrue(p) => RowTrue(p)'
      BY <1>12, StillRow
    <2> QED BY <1>2, <1>3, <1>12, <2>1 DEF RowsTrue
  <1>19. LedgerTrue'
    <2>1. ASSUME NEW p \in Path, ~Noticed(p)' PROVE EntryTrue(p)'
      <3>1. ~Noticed(p) /\ (p \in InScope => done)
        BY <1>11, <1>12, <2>1 DEF Noticed
      <3>2. CASE p \in r.reported
        <4>1. ledger'.sources[p] = ledger.sources[p]
          BY <1>2, <1>3, <1>8, <1>9, <3>2 DEF OwnScope
        <4>2. EntryTrue(p)
          BY <1>2, <1>3, <1>9, <3>1, <3>2 DEF LedgerTrue, Rest
        <4> QED BY <1>12, <4>1, <4>2, StillEntry
      <3>3. CASE p \notin r.reported /\ p \in InScope
        <4>1. ~Precise /\ ~IsFile(p)
          BY <1>13, <3>1, <3>3
        <4>2. ledger'.sources[p] = NoOutcome
          BY <1>8, <1>9, <3>1, <3>3, <4>1
        <4>3. ~rows[p].eligible
          BY <1>2, <1>3, <1>13, <3>1, <3>3 DEF OwnScope
        <4>4. Tells(p, NoOutcome)
          BY <4>1, <4>3 DEF Tells, Unindexed, NoOutcome, Owned
        <4>5. Tells(p, NoOutcome)'
          BY <1>12, <4>4, StillTells
        <4> QED BY <4>2, <4>5 DEF EntryTrue, Tells, Unindexed
      <3>4. CASE p \notin InScope
        <4>1. Precise
          BY <1>2, <1>3, <3>4, WholeScope
        <4>2. p \notin r.reported
          BY <1>2, <1>3, <1>9, <3>4 DEF OwnScope
        <4>3. ledger'.sources[p] = ledger.sources[p]
          BY <1>8, <1>9, <4>1, <4>2
        <4>4. EntryTrue(p)
          BY <1>2, <1>3, <3>1, <3>4 DEF LedgerTrue, Rest
        <4> QED BY <1>12, <4>3, <4>4, StillEntry
      <3> QED BY <3>2, <3>3, <3>4
    <2> QED BY <1>5, <2>1 DEF LedgerTrue
  <1>20. LedgerRebuilt'
    <2>1. \/ ctl'.pending = Full
          \/ ledger'.reconstructed /\ ~ledger'.scanFailed /\ ~ledger'.discoveryUncertain
      <3>1. CASE Precise
        <4>1. \/ ctl.pending = Full
              \/ ledger.reconstructed /\ ~ledger.scanFailed /\ ~ledger.discoveryUncertain
          BY <1>3, <3>1 DEF LedgerRebuilt
        <4> QED BY <1>8, <1>9, <1>11, <3>1, <4>1
      <3>2. CASE ~Precise
        BY <1>8, <1>9, <1>11, <3>2
      <3> QED BY <3>1, <3>2
    <2>2. ledger'.unfinished => ctl'.pending # NoScope
      BY <1>8, <1>11
    <2>3. ASSUME NEW p \in ledger'.unfinishedSources
          PROVE  Covers(ctl'.pending, p)
      <3>1. /\ p \notin r.reported /\ ~(r.full /\ completed)
            /\ p \in ledger.unfinishedSources \/ p \in r.scope
        BY <1>8, <2>3
      <3>2. p \in Path
        BY <1>4, <1>9, <3>1 DEF SessionLedger, InScope
      <3>3. CASE p \in InScope
        <4>1. ~completed
          BY <1>9, <1>13, <3>1, <3>3
        <4> QED BY <1>11, <3>3, <4>1
      <3>4. CASE p \notin InScope
        <4>1. p \in ledger.unfinishedSources /\ p \notin Rest
          BY <1>2, <1>9, <3>1, <3>4 DEF Rest
        <4> QED BY <1>3, <1>11, <3>2, <4>1 DEF LedgerRebuilt
      <3> QED BY <3>3, <3>4
    <2> QED BY <1>5, <1>15, <2>1, <2>2, <2>3 DEF LedgerRebuilt
  <1>21. OwnersKept'
    BY <1>2, <1>3, <1>15, NotScanningNext DEF OwnersKept
  <1> QED BY <1>15, <1>16, <1>17, <1>18, <1>19, <1>20, <1>21, NotScanningNext DEF SInv

(***************************************************************************)
(* The environment.                                                        *)
(***************************************************************************)
(* A change of one path is noticed; of the others nothing changes. *)
Changes(p) ==
    /\ UNCHANGED <<registry, rows, docs, ctl, ledger, pc, ticket, job>>
    /\ events' = events \cup {p}
    /\ content' = [content EXCEPT ![p] = content'[p]] /\ content'[p] \in Seq(File)
    /\ files' = [files EXCEPT ![p] = files'[p]]
    /\ files'[p] \in {Absent, NotFile} \cup DOMAIN content'[p]
    /\ DOMAIN content[p] \subseteq DOMAIN content'[p]

(* A change of a file keeps the invariant. *)
LEMMA ChangesKeeps ==
  ASSUME TypeOK, SInv, NEW p \in Path, Changes(p)
  PROVE  TypeOK' /\ SInv'
  <1>1. /\ UNCHANGED <<registry, rows, docs, ctl, ledger, pc, ticket, job>>
        /\ events' = events \cup {p}
    BY DEF Changes
  <1>2. /\ \A q \in Path \ {p} : content'[q] = content[q] /\ files'[q] = files[q]
        /\ content' \in [Path -> Seq(File)] /\ files' \in [Path -> Int]
        /\ \A q \in Path : files'[q] \in {Absent, NotFile} \cup DOMAIN content'[q]
        /\ \A q \in Path : DOMAIN content[q] \subseteq DOMAIN content'[q]
    <2>1. files'[p] \in Int
      <3>1. content'[p] \in Seq(File)
        BY DEF Changes
      <3>2. DOMAIN content'[p] \subseteq Int
        BY <3>1
      <3> QED BY <3>2 DEF Changes, Absent, NotFile
    <2>2. /\ content \in [Path -> Seq(File)] /\ files \in [Path -> Int]
          /\ \A q \in Path : files[q] \in {Absent, NotFile} \cup DOMAIN content[q]
      BY DEF TypeOK
    <2>3. /\ \A q \in Path \ {p} : content'[q] = content[q] /\ files'[q] = files[q]
          /\ content' \in [Path -> Seq(File)] /\ files' \in [Path -> Int]
      BY <2>1, <2>2 DEF Changes
    <2>4. /\ files'[p] \in {Absent, NotFile} \cup DOMAIN content'[p]
          /\ DOMAIN content[p] \subseteq DOMAIN content'[p]
      BY DEF Changes
    <2> QED BY <2>2, <2>3, <2>4
  <1>3. TypeOK'
    BY <1>1, <1>2 DEF TypeOK
  <1>4. /\ \A q \in Path \ {p} : StillAt(q)
        /\ \A q \in Path : Noticed(q) => Noticed(q)'
        /\ Noticed(p)'
    BY <1>1, <1>2 DEF StillAt, Noticed, SameOwners
  <1>5. InScope' = InScope /\ (Precise' <=> Precise) /\ Rest' = Rest /\ Current' = Current
    BY <1>1 DEF InScope, Precise, Rest, Current
  <1>6. RunHeld' /\ OwnScope' /\ LedgerRebuilt'
    <2>1. RunHeld' /\ LedgerRebuilt'
      BY <1>1, <1>5 DEF SInv, RunHeld, LedgerRebuilt
    <2>2. OwnScope'
      BY <1>1, <1>5 DEF SInv, OwnScope
    <2> QED BY <2>1, <2>2
  <1>7. Found'
    <2>1. \A q \in Path \ {p} : IsFile(q) <=> IsFile(q)'
      BY <1>2 DEF IsFile
    <2> QED BY <1>1, <1>4, <1>5, <2>1 DEF SInv, Found, InScope
  <1>8. OwnersKept'
    <2> SUFFICES ASSUME ~RegisterDuringScan PROVE OwnersKept'
      BY DEF OwnersKept
    <2>1. OwnersKept
      BY DEF SInv
    <2>2. \A q, read : Attributed(q, read) => Attributed(q, read)'
      BY <1>1 DEF Attributed
    <2> QED BY <1>1, <2>1, <2>2 DEF OwnersKept
  <1>9. ReadTrue'
    <2>1. ReadTrue
      BY DEF SInv
    <2> SUFFICES ASSUME pc \in Attempts PROVE ReadTrue'
      BY <1>1 DEF ReadTrue
    <2>2. PICK q, read : q = job.path /\ read = job.read
      OBVIOUS
    <2>3. q \in Path
      BY <2>2 DEF TypeOK, Scans, Reading, Attempts
    <2>4. ReadIs(q, read)
      BY <2>1, <2>2 DEF ReadTrue
    <2>5. q # p /\ Unmoved(q, read) => Unmoved(q, read)'
      BY <1>2, <2>3 DEF Unmoved, FileAt
    <2>6. ReadIs(q, read)'
      BY <1>1, <1>2, <1>4, <2>3, <2>4, <2>5 DEF ReadIs
    <2> QED BY <1>1, <2>1, <2>2, <2>6 DEF ReadTrue
  <1>10. CommitTrue'
    <2>1. CommitTrue
      BY DEF SInv
    <2> SUFFICES ASSUME pc = "commit" PROVE CommitTrue'
      BY <1>1 DEF CommitTrue
    <2>2. PICK q, v : q = job.path /\ v = job.version
      OBVIOUS
    <2>3. q \in Path
      BY <2>2 DEF TypeOK, Scans, Reading, Attempts
    <2>4. Noticed(q)' \/ CurrentVersion(q, v)'
      <3>1. Noticed(q) \/ CurrentVersion(q, v)
        BY <2>1, <2>2 DEF CommitTrue
      <3> QED BY <1>4, <2>3, <3>1, StillRow
    <2> QED BY <1>1, <2>1, <2>2, <2>4 DEF CommitTrue
  <1>11. RowsTrue'
    <2>1. \A q \in Path \ {p} : RowTrue(q) => RowTrue(q)'
      BY <1>4, StillRow
    <2>2. RowsTrue
      BY DEF SInv
    <2> QED BY <1>1, <1>4, <1>5, <2>1, <2>2 DEF RowsTrue
  <1>12. LedgerTrue'
    <2>1. \A q \in Path \ {p} : EntryTrue(q) => EntryTrue(q)'
      BY <1>1, <1>4, StillEntry
    <2>2. LedgerTrue
      BY DEF SInv
    <2>3. \A q \in Path : Noticed(q)' \/ q \in Rest' \/ EntryTrue(q)'
      BY <1>4, <1>5, <2>1, <2>2 DEF LedgerTrue
    <2>4. ASSUME pc' = "publish"
          PROVE  \A q \in {job'.path}, o \in {job'.outcome} : Noticed(q)' \/ Tells(q, o)'
      <3>1. PICK q, o : q = job.path /\ o = job.outcome
        OBVIOUS
      <3>2. q \in Path
        BY <1>1, <2>4, <3>1 DEF TypeOK, Scans, Reading, Attempts
      <3>3. Noticed(q) \/ Tells(q, o)
        BY <1>1, <2>2, <2>4, <3>1 DEF LedgerTrue
      <3>4. Noticed(q)' \/ Tells(q, o)'
        BY <1>4, <3>2, <3>3, StillTells
      <3> QED BY <1>1, <3>1, <3>4
    <2> QED BY <2>3, <2>4 DEF LedgerTrue
  <1> QED BY <1>3, <1>6, <1>7, <1>8, <1>9, <1>10, <1>11, <1>12 DEF SInv

(* What an agent may write is a file. *)
LEMMA FileSteps ==
  ASSUME TypeOK, NEW p \in Path
  PROVE  /\ Written[p] # {} /\ StartRecord(p) => Changes(p)
         /\ \A r \in Written[p] : AppendRecord(p, r) => Changes(p)
         /\ Delete(p, Absent) \/ Delete(p, NotFile) => Changes(p)
         /\ \A f \in Rewritten[p] : Rewrite(p, f) \/ Replace(p, f) => Changes(p)
  <1>1. /\ content \in [Path -> Seq(File)] /\ files \in [Path -> Int]
        /\ content[p] \in Seq(File)
        /\ files[p] \in {Absent, NotFile} \cup DOMAIN content[p]
    BY DEF TypeOK
  <1>2. ASSUME NEW f \in File, IsFile(p), WriteFile(p, f)
        PROVE  Changes(p)
    <2>1. files[p] \in DOMAIN content[p]
      BY <1>2, FileTypes
    <2> DEFINE s == [content[p] EXCEPT ![files[p]] = f]
    <2>2. s \in Seq(File) /\ DOMAIN s = DOMAIN content[p]
      BY <1>1, <2>1
    <2>3. content' = [content EXCEPT ![p] = s]
      BY <1>1, <1>2 DEF WriteFile
    <2> HIDE DEF s
    <2>4. content'[p] = s /\ content' = [content EXCEPT ![p] = content'[p]]
      BY <1>1, <2>3
    <2>5. files' = files /\ files' = [files EXCEPT ![p] = files'[p]]
      BY <1>1, <1>2 DEF WriteFile
    <2> QED BY <1>2, <2>1, <2>2, <2>4, <2>5 DEF WriteFile, workerVars, Changes
  <1>3. /\ \A r \in Written[p] : r \in DOMAIN Tree
        /\ \A f \in Rewritten[p] : f \in File
    BY SessionAssumption
  <1>4. ASSUME StartRecord(p) PROVE Changes(p)
    <2>1. IsFile(p) /\ FileAt(p) \in File
      BY <1>4, FileTypes DEF StartRecord
    <2>2. [FileAt(p) EXCEPT !.tail = TRUE] \in File
      BY <2>1 DEF File
    <2> QED BY <1>2, <1>4, <2>1, <2>2 DEF StartRecord
  <1>5. ASSUME NEW r \in Written[p], AppendRecord(p, r) PROVE Changes(p)
    <2>1. IsFile(p) /\ FileAt(p).records \in Seq(DOMAIN Tree) /\ r \in DOMAIN Tree
      BY <1>3, <1>5, FileTypes DEF AppendRecord
    <2>2. Append(FileAt(p).records, r) \in Seq(DOMAIN Tree)
      BY <2>1
    <2>3. [records |-> Append(FileAt(p).records, r), tail |-> FALSE] \in File
      BY <2>2 DEF File
    <2> QED BY <1>2, <1>5, <2>1, <2>3 DEF AppendRecord
  <1>6. ASSUME NEW left \in {Absent, NotFile}, Delete(p, left) PROVE Changes(p)
    <2>1. /\ files' = [files EXCEPT ![p] = left] /\ content' = content
          /\ events' = events \cup {p} /\ UNCHANGED <<registry, workerVars>>
      BY <1>6 DEF Delete
    <2>2. files'[p] = left /\ content' = [content EXCEPT ![p] = content'[p]]
      BY <1>1, <2>1
    <2> QED BY <1>1, <2>1, <2>2 DEF workerVars, Changes
  <1>7. ASSUME NEW f \in Rewritten[p], Rewrite(p, f) PROVE Changes(p)
    BY <1>2, <1>3, <1>7 DEF Rewrite
  <1>8. ASSUME NEW f \in Rewritten[p], Replace(p, f) PROVE Changes(p)
    <2> DEFINE s == Append(content[p], f)
               n == Len(content[p]) + 1
    <2>1. /\ s \in Seq(File) /\ n \in DOMAIN s /\ DOMAIN content[p] \subseteq DOMAIN s
      BY <1>1, <1>3
    <2>2. /\ content' = [content EXCEPT ![p] = s] /\ files' = [files EXCEPT ![p] = n]
          /\ events' = events \cup {p} /\ UNCHANGED <<registry, workerVars>>
      BY <1>1, <1>8 DEF Replace
    <2> HIDE DEF s, n
    <2>3. content'[p] = s /\ files'[p] = n
      BY <1>1, <2>2
    <2> QED BY <2>1, <2>2, <2>3 DEF workerVars, Changes
  <1> QED BY <1>4, <1>5, <1>6, <1>7, <1>8

(* Nothing changes but what is noticed, and that does not become less. *)
LEMMA CalmKeeps ==
  ASSUME TypeOK, SInv,
         UNCHANGED <<files, content, registry, rows, docs, ledger, pc, ticket, job>>,
         events' \subseteq Path \cup {"registry"},
         ctl' \in ControllerType, ctl'.active = ctl.active,
         \A p \in Path : /\ Noticed(p) => Noticed(p)'
                         /\ Covers(ctl.pending, p) => Covers(ctl'.pending, p),
         ctl.pending = Full => ctl'.pending = Full,
         ctl.pending # NoScope => ctl'.pending # NoScope
  PROVE  TypeOK' /\ SInv'
  <1>1. TypeOK'
    BY DEF TypeOK
  <1>2. /\ RunHeld /\ OwnScope /\ Found /\ OwnersKept /\ ReadTrue /\ CommitTrue
        /\ RowsTrue /\ LedgerTrue /\ LedgerRebuilt
    BY DEF SInv
  <1>3. InScope' = InScope /\ (Precise' <=> Precise) /\ Rest' = Rest /\ Current' = Current
    BY DEF InScope, Precise, Rest, Current
  <1>4. \A p : StillAt(p)
    BY DEF StillAt, SameOwners
  <1>5. RunHeld' /\ OwnScope'
    <2>1. RunHeld'
      BY <1>2 DEF RunHeld
    <2>2. OwnScope'
      BY <1>2, <1>3 DEF OwnScope
    <2> QED BY <2>1, <2>2
  <1>6. LedgerRebuilt'
    <2>1. ledger.unfinishedSources \subseteq Path
      BY DEF TypeOK, SessionLedger
    <2> QED BY <1>2, <1>3, <2>1 DEF LedgerRebuilt
  <1>7. Found'
    <2>1. \A p : IsFile(p)' <=> IsFile(p)
      BY DEF IsFile
    <2> QED BY <1>2, <1>3, <2>1 DEF Found, InScope
  <1>8. OwnersKept'
    <2>1. \A q, read : Attributed(q, read) => Attributed(q, read)'
      BY DEF Attributed
    <2> QED BY <1>2, <2>1 DEF OwnersKept
  <1>9. ReadTrue'
    <2> SUFFICES ASSUME pc \in Attempts PROVE ReadTrue'
      BY DEF ReadTrue
    <2>1. PICK q, read : q = job.path /\ read = job.read
      OBVIOUS
    <2>2. q \in Path /\ ReadIs(q, read)
      BY <1>2, <2>1 DEF TypeOK, Scans, Reading, Attempts, ReadTrue
    <2>3. Unmoved(q, read) => Unmoved(q, read)'
      BY DEF Unmoved, FileAt
    <2>4. ReadIs(q, read)'
      BY <2>2, <2>3 DEF ReadIs
    <2> QED BY <1>2, <2>1, <2>4 DEF ReadTrue
  <1>10. CommitTrue'
    <2> SUFFICES ASSUME pc = "commit" PROVE CommitTrue'
      BY DEF CommitTrue
    <2>1. PICK q, v : q = job.path /\ v = job.version
      OBVIOUS
    <2>2. q \in Path /\ (Noticed(q) \/ CurrentVersion(q, v))
      BY <1>2, <2>1 DEF TypeOK, Scans, Reading, Attempts, CommitTrue
    <2>3. Noticed(q)' \/ CurrentVersion(q, v)'
      BY <1>4, <2>2, StillRow
    <2> QED BY <1>2, <2>1, <2>3 DEF CommitTrue
  <1>11. RowsTrue'
    <2>1. \A q \in Path : RowTrue(q) => RowTrue(q)'
      BY <1>4, StillRow
    <2> QED BY <1>2, <1>3, <2>1 DEF RowsTrue
  <1>12. LedgerTrue'
    <2>1. \A q \in Path : EntryTrue(q) => EntryTrue(q)'
      BY <1>4, StillEntry
    <2>2. ASSUME pc' = "publish"
          PROVE  \A q \in {job'.path}, o \in {job'.outcome} : Noticed(q)' \/ Tells(q, o)'
      <3>1. PICK q, o : q = job.path /\ o = job.outcome
        OBVIOUS
      <3>2. q \in Path /\ (Noticed(q) \/ Tells(q, o))
        BY <1>2, <2>2, <3>1 DEF TypeOK, Scans, Reading, Attempts, LedgerTrue
      <3>3. Noticed(q)' \/ Tells(q, o)'
        BY <1>4, <3>2, StillTells
      <3> QED BY <3>1, <3>3
    <2> QED BY <1>2, <1>3, <2>1, <2>2 DEF LedgerTrue
  <1> QED BY <1>1, <1>5, <1>6, <1>7, <1>8, <1>9, <1>10, <1>11, <1>12 DEF SInv

(* A change that is delivered is queued. *)
LEMMA DeliverKeeps ==
  ASSUME TypeOK, SInv, NEW e \in events, NEW precise \in BOOLEAN, Deliver(e, precise)
  PROVE  TypeOK' /\ SInv'
  <1> DEFINE s == IF precise THEN Sources({e}) ELSE Full
             q == Queue(ctl.pending, s)
             n == ctl.observed + 1
  <1>1. /\ events' = events \ {e} /\ ctl' = Observe(ctl, s, FALSE)
        /\ (precise => e \in Path)
        /\ UNCHANGED <<files, content, registry, rows, docs, ledger, pc, ticket, job>>
    BY DEF Deliver, diskVars, storeVars
  <1>2. ctl \in ControllerType /\ ctl.pending \in Scope
    BY DEF TypeOK, ControllerType
  <1>3. s \in Scope /\ s # NoScope /\ (~precise => s = Full)
    <2>1. precise => {e} \in SUBSET Path
      BY <1>1
    <2> QED BY <2>1, ScopeTypes
  <1>4. precise => Covers(s, e)
    BY DEF Covers, Sources
  <1>5. events \subseteq Path \cup {"registry"}
    BY DEF TypeOK
  <1> HIDE DEF s
  <1>6. ctl' \in ControllerType
    <2> DEFINE git == FALSE
    <2>1. git \in BOOLEAN
      OBVIOUS
    <2> HIDE DEF git
    <2>2. Observe(ctl, s, git) \in ControllerType
      BY <1>2, <1>3, <2>1, ObserveType
    <2> QED BY <1>1, <2>2 DEF git
  <1>7. ctl'.active = ctl.active /\ ctl'.pending = q
    <2>1. ctl' = [ctl EXCEPT !.observed = n, !.gitPending = ctl.gitPending \/ FALSE,
                             !.pending = q]
      BY <1>1 DEF Observe
    <2> HIDE DEF q, n
    <2> QED BY <1>2, <2>1 DEF ControllerType
  <1>8. /\ q # NoScope
        /\ \A p \in Path : Covers(ctl.pending, p) \/ Covers(s, p) => Covers(q, p)
    BY <1>2, <1>3, QueueCovers
  <1>9. ctl.pending = Full => q = Full
    BY FullQueue
  <1> HIDE DEF q, n
  <1>10. \A p \in Path : Noticed(p) => Noticed(p)'
    <2>1. ~precise => \A p \in Path : Covers(s, p)
      BY <1>3, ScopeTypes
    <2>2. precise => e # "registry"
      BY <1>1, SessionAssumption
    <2> QED BY <1>1, <1>4, <1>7, <1>8, <2>1, <2>2 DEF Noticed
  <1> QED BY <1>1, <1>5, <1>6, <1>7, <1>8, <1>9, <1>10, CalmKeeps

(* A project that is registered is news to every file. *)
LEMMA RegisterKeeps ==
  ASSUME TypeOK, SInv, NEW cwd \in Registrable, Register(cwd)
  PROVE  TypeOK' /\ SInv'
  <1>1. /\ registry' = registry \cup {cwd} /\ events' = events \cup {"registry"}
        /\ pc = "idle" \/ RegisterDuringScan
        /\ UNCHANGED <<files, content, rows, docs, ctl, ledger, pc, ticket, job>>
    BY DEF Register, diskVars, workerVars
  <1>2. TypeOK'
    BY <1>1 DEF TypeOK
  <1>3. /\ RunHeld /\ OwnScope /\ Found /\ OwnersKept /\ ReadTrue /\ CommitTrue
        /\ RowsTrue /\ LedgerTrue /\ LedgerRebuilt
    BY DEF SInv
  <1>4. InScope' = InScope /\ (Precise' <=> Precise) /\ Rest' = Rest /\ Current' = Current
    BY <1>1 DEF InScope, Precise, Rest, Current
  <1>5. \A p : Noticed(p)'
    BY <1>1 DEF Noticed
  <1>6. RunHeld' /\ LedgerRebuilt'
    BY <1>1, <1>3, <1>4 DEF RunHeld, LedgerRebuilt
  <1>7. OwnScope'
    BY <1>1, <1>3, <1>4 DEF OwnScope
  <1>8. Found'
    <2>1. \A p : IsFile(p)' <=> IsFile(p)
      BY <1>1 DEF IsFile
    <2> QED BY <1>1, <1>3, <1>4, <1>5, <2>1 DEF Found, InScope
  <1>9. OwnersKept'
    <2>1. ~RegisterDuringScan => pc' \notin Scans
      BY <1>1 DEF Scans, Reading, Attempts
    <2>2. CASE RegisterDuringScan
      BY <2>2 DEF OwnersKept
    <2>3. CASE ~RegisterDuringScan
      BY <1>1, <1>3, <2>1, <2>3, NotScanningNext DEF OwnersKept
    <2> QED BY <2>2, <2>3
  <1>10. ReadTrue'
    <2> SUFFICES ASSUME pc \in Attempts PROVE ReadTrue'
      BY <1>1 DEF ReadTrue
    <2>1. PICK q, read : q = job.path /\ read = job.read
      OBVIOUS
    <2>2. ReadIs(q, read)
      BY <1>3, <2>1 DEF ReadTrue
    <2>3. ReadIs(q, read)'
      BY <1>1, <1>5, <2>2 DEF ReadIs
    <2> QED BY <1>1, <1>3, <2>1, <2>3 DEF ReadTrue
  <1>11. CommitTrue'
    BY <1>1, <1>3, <1>5 DEF CommitTrue
  <1>12. RowsTrue' /\ LedgerTrue'
    BY <1>1, <1>3, <1>5 DEF RowsTrue, LedgerTrue
  <1> QED BY <1>2, <1>6, <1>7, <1>8, <1>9, <1>10, <1>11, <1>12 DEF SInv

(***************************************************************************)
(* The theorems.                                                           *)
(***************************************************************************)
LEMMA SessionStep ==
  ASSUME TypeOK, SInv, [Next]_vars
  PROVE  TypeOK' /\ SInv'
  <1>1. CASE UNCHANGED vars
    <2>1. /\ UNCHANGED <<files, content, registry, rows, docs, ledger, pc, ticket, job>>
          /\ events' = events /\ ctl' = ctl
      BY <1>1 DEF vars
    <2>2. /\ events \subseteq Path \cup {"registry"} /\ ctl \in ControllerType
      BY DEF TypeOK
    <2>3. \A p \in Path : Noticed(p) => Noticed(p)'
      BY <2>1 DEF Noticed
    <2> QED BY <2>1, <2>2, <2>3, CalmKeeps
  <1>2. CASE WorkerStep
    <2>1. CASE WorkerBegin \/ InvalidateScope \/ MarkInvalidated \/ OpenScan
      BY <2>1, WorkerBeginKeeps, InvalidateScopeKeeps, MarkInvalidatedKeeps, OpenScanKeeps
    <2>2. CASE (\E p \in Path : Discover(Provider[p])) \/ DiscoverDone
      BY <2>2, DiscoverKeeps, DiscoverDoneKeeps
    <2>3. CASE \E p \in Path : StatFile(p) \/ RemoveUnseen(p)
      BY <2>3, StatFileKeeps, RemoveUnseenKeeps
    <2>4. CASE StartRead \/ StreamRecord \/ StreamEnd \/ VerifyRead \/ ReadFails
      BY <2>4, StartReadKeeps, StreamRecordKeeps, StreamEndKeeps, VerifyReadKeeps,
         ReadFailsKeeps
    <2>5. CASE CommitSession \/ PublishSource \/ CancelScan
      BY <2>5, CommitSessionKeeps, PublishSourceKeeps, CancelScanKeeps
    <2>6. CASE FinishRun \/ FailRun
      BY <2>6, FinishRunKeeps, FailRunKeeps
    <2> QED BY <1>2, <2>1, <2>2, <2>3, <2>4, <2>5, <2>6 DEF WorkerStep
  <1>3. CASE Environment
    <2>1. ASSUME NEW p \in Path,
                 \/ Written[p] # {} /\ StartRecord(p)
                 \/ \E r \in Written[p] : AppendRecord(p, r)
                 \/ Rewritten[p] # {} /\ (Delete(p, Absent) \/ Delete(p, NotFile))
                 \/ \E f \in Rewritten[p] : Rewrite(p, f) \/ Replace(p, f)
          PROVE  TypeOK' /\ SInv'
      <3>1. Changes(p)
        BY <2>1, FileSteps
      <3> QED BY <3>1, ChangesKeeps
    <2>2. CASE \E cwd \in Registrable : Register(cwd)
      BY <2>2, RegisterKeeps
    <2>3. CASE \E e \in events, precise \in BOOLEAN : Deliver(e, precise)
      BY <2>3, DeliverKeeps
    <2>4. CASE Crash
      BY <2>4, CrashKeeps
    <2> QED BY <1>3, <2>1, <2>2, <2>3, <2>4 DEF Environment
  <1> QED BY <1>1, <1>2, <1>3 DEF Next

(* The inductive invariant: in every state, the state is well typed, and whatever    *)
(* the worker holds, the rows show and the ledger says is true of the files or about *)
(* to be corrected.                                                                  *)
THEOREM SessionInductive == Spec => [](TypeOK /\ SInv)
  <1>1. Init => TypeOK /\ SInv
    BY SessionInitial
  <1>2. (TypeOK /\ SInv) /\ [Next]_vars => (TypeOK /\ SInv)'
    BY SessionStep
  <1> QED BY <1>1, <1>2, PTL DEF Spec

(* The type invariant of the session collection (run session_scan). *)
THEOREM SessionTyped == Spec => []TypeOK
  BY SessionInductive, PTL

(* A settled collection is accounted for. *)
LEMMA SettledHolds ==
  ASSUME TypeOK, SInv, Settled
  PROVE  /\ \A p \in Path : /\ ~Noticed(p) /\ EntryTrue(p)
                            /\ rows[p].eligible => RowTrue(p) /\ Present(rows[p])
         /\ AccountsForAll(ledger)
  <1>1. /\ pc = "idle" /\ events = {} /\ ctl.pending = NoScope
    BY DEF Settled, Idle
  <1>2. \A p \in Path : ~Noticed(p)
    BY <1>1, ScopeTypes DEF Noticed
  <1>3. \A p \in Path : /\ EntryTrue(p)
                        /\ rows[p].eligible => RowTrue(p) /\ Present(rows[p])
    BY <1>1, <1>2 DEF SInv, LedgerTrue, RowsTrue, Rest
  <1>4. AccountsForAll(ledger)
    <2>1. NoScope # Full /\ \A p \in Path : ~Covers(NoScope, p)
      BY ScopeTypes
    <2>2. ledger.unfinishedSources \subseteq Path
      BY DEF TypeOK, SessionLedger
    <2>3. LedgerRebuilt
      BY DEF SInv
    <2>4. ledger.reconstructed /\ ~ledger.scanFailed /\ ~ledger.discoveryUncertain
      BY <1>1, <2>1, <2>3 DEF LedgerRebuilt
    <2>5. ~ledger.unfinished /\ ledger.unfinishedSources = {}
      BY <1>1, <2>1, <2>2, <2>3 DEF LedgerRebuilt, Rest
    <2> QED BY <2>4, <2>5 DEF AccountsForAll
  <1> QED BY <1>2, <1>3, <1>4

(* This project's files are those every cwd of which the registry says so. *)
LEMMA OwnedIs ==
  ASSUME NEW p \in Path, IsFile(p), OwnedUnder(registry, p, FileAt(p).records)
  PROVE  Owned(p)
  <1>1. \A cwd : OwnerNow(cwd) = OwnerUnder(registry, cwd)
    BY Zenon DEF OwnerNow, OwnerUnder
  <1> DEFINE t == FileAt(p).records
  <1>2. PICK i \in DOMAIN t : Named(p, t[i]) # None
    BY DEF OwnedUnder
  <1>3. CwdsOf(p) # {}
    BY <1>2 DEF CwdsOf, Named
  <1>4. \A cwd \in CwdsOf(p) : OwnerUnder(registry, cwd) = Owner
    BY DEF CwdsOf, Named, OwnedUnder
  <1> QED BY <1>1, <1>3, <1>4 DEF Owned

(* A settled collection shows this project's files as they are, and no others: the *)
(* property SettledIsCurrent, for every collection, provided no project is         *)
(* registered while the worker runs (with one, session_leak shows the contrary).   *)
THEOREM SessionSettled ==
  ASSUME ~RegisterDuringScan
  PROVE  Spec => []SettledIsCurrent
  <1>1. TypeOK /\ SInv => SettledIsCurrent
    <2> SUFFICES ASSUME TypeOK, SInv PROVE SettledIsCurrent
      OBVIOUS
    <2> SUFFICES ASSUME Settled, NEW p \in Path
                 PROVE  /\ rows[p].eligible =>
                              IsFile(p) /\ rows[p].version = VersionOf(FileAt(p))
                        /\ rows[p].eligible => Owned(p)
                        /\ Owned(p) => rows[p].eligible \/ ledger.sources[p].errors
      BY DEF SettledIsCurrent
    <2>1. EntryTrue(p) /\ (rows[p].eligible => RowTrue(p))
      BY SettledHolds
    <2>2. rows[p].eligible => IsFile(p) /\ rows[p].version = VersionOf(FileAt(p))
      BY <2>1 DEF RowTrue, CurrentVersion
    <2>3. rows[p].eligible => Owned(p)
      BY <2>1, <2>2, OwnedIs DEF RowTrue, OwnedNow
    <2>4. Owned(p) => rows[p].eligible \/ ledger.sources[p].errors
      BY <2>1 DEF EntryTrue, Tells, Unindexed
    <2> QED BY <2>2, <2>3, <2>4
  <1> QED BY <1>1, SessionInductive, PTL

(* Also when projects are registered while the worker runs, a settled        *)
(* collection is accounted for, and every searchable row shows its file as   *)
(* it is.                                                                    *)
THEOREM SessionAccounted == Spec => []SettledAccounts
  <1>1. TypeOK /\ SInv => SettledAccounts
    <2> SUFFICES ASSUME TypeOK, SInv, Settled PROVE SettledAccounts
      BY DEF SettledAccounts
    <2>1. AccountsForAll(ledger)
      BY SettledHolds
    <2>2. \A p \in Path : EntryTrue(p) /\ (rows[p].eligible => RowTrue(p))
      BY SettledHolds
    <2> QED BY <2>1, <2>2 DEF SettledAccounts, RowTrue
  <1> QED BY <1>1, SessionInductive, PTL
=============================================================================
