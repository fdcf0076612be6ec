----------------------- MODULE ProjectReconcileProofs -----------------------
(***************************************************************************)
(* Theorems about ProjectReconcile, for every set of paths and versions,   *)
(* every scope limit and every bound: its types, what reads show, and what *)
(* the coverage reported with an answer is worth.                          *)
(***************************************************************************)
EXTENDS ReconcileInvariant, WorkerClock, ReconcileLemmas

(* The scan, the reader and the bounds *************************************)

(* What the scan records of a source is an outcome. *)
LEMMA OutcomeTypes ==
  ASSUME NEW b \in BOOLEAN, NEW v \in Version \cup {NoVersion}
  PROVE  /\ Excluded(b, v) \in Outcome /\ Rejected(v) \in Outcome
         /\ Indexed(v, b) \in Outcome /\ NoOutcome \in Outcome
  BY DEF Excluded, Rejected, Indexed, NoOutcome, Outcome

(* An empty report is a report. *)
LEMMA NewReportType ==
  ASSUME NEW b \in BOOLEAN
  PROVE  NewReport(Path, b) \in ReportType(Path)
  BY CountsType, OutcomeTypes DEF NewReport, ReportType, NoCounts, Counts, NoOutcome, Outcome

(* Adding an outcome to a report yields a report. *)
LEMMA ReportedType ==
  ASSUME NEW r \in ReportType(Path), NEW p \in Path, NEW o \in Outcome
  PROVE  Reported(r, p, o) \in ReportType(Path)
  BY DEF Reported, ReportType

(* The scan starts with well formed locals. *)
LEMMA NewJobType == NewJob \in JobType
  <1>1. AnyPath \in Path
    BY ReconcileAssumption DEF AnyPath
  <1>2. NoVersions \in [Path -> Version \cup {NoVersion}]
    BY DEF NoVersions
  <1>3. NoOutcome \in Outcome
    BY DEF NoOutcome, Outcome
  <1>4. NewReport(Path, FALSE) \in ReportType(Path)
    BY NewReportType
  <1>5. Absent \in Content
    BY DEF Content
  <1> QED BY <1>1, <1>2, <1>3, <1>4, <1>5 DEF NewJob, JobType

(* So does the reader. *)
LEMMA NewReaderType == NewReader \in ReaderType /\ NoReply \in ReplyType
  BY DEF NewReader, NoReply, ReaderType, ReplyType, Hits, Status, NoVersions

(* The status handed to a reader is one of the documented ones. *)
LEMMA StatusType == Snapshot \in Status
  BY DEF Snapshot, StatusOf, Status

(* What the actions do to the usage of the bounds. *)
LEMMA UsageTypes ==
  ASSUME NEW u \in Usage
  PROVE  /\ [u EXCEPT !.edits = @ + 1, !.forces = 0] \in Usage
         /\ [u EXCEPT !.faults = @ + 1, !.forces = 0] \in Usage
         /\ [u EXCEPT !.crashes = @ + 1, !.forces = 0] \in Usage
         /\ [u EXCEPT !.forces = @ + 1] \in Usage
         /\ [u EXCEPT !.attaches = @ + 1] \in Usage
         /\ [u EXCEPT !.gits = @ + 1] \in Usage
         /\ [u EXCEPT !.reads = @ + 1] \in Usage
  <1>1. /\ u.edits + 1 \in Nat /\ u.faults + 1 \in Nat /\ u.crashes + 1 \in Nat
        /\ u.forces + 1 \in Nat /\ u.attaches + 1 \in Nat /\ u.gits + 1 \in Nat
        /\ u.reads + 1 \in Nat /\ 0 \in Nat
    BY DEF Usage
  <1>2. \A n \in Nat : /\ [u EXCEPT !.edits = n, !.forces = 0] \in Usage
                       /\ [u EXCEPT !.faults = n, !.forces = 0] \in Usage
                       /\ [u EXCEPT !.crashes = n, !.forces = 0] \in Usage
    BY DEF Usage
  <1>3. \A n \in Nat : /\ [u EXCEPT !.forces = n] \in Usage
                       /\ [u EXCEPT !.attaches = n] \in Usage
                       /\ [u EXCEPT !.gits = n] \in Usage
                       /\ [u EXCEPT !.reads = n] \in Usage
    BY DEF Usage
  <1> QED BY <1>1, <1>2, <1>3

(***************************************************************************)
(* Type correctness.                                                       *)
(***************************************************************************)

(* Observing preserves the types, whoever observes and whatever the scope. *)
LEMMA NoticeType ==
  ASSUME TypeOK, NEW s \in Scope, NEW g \in BOOLEAN, Notice(s, g)
  PROVE  /\ ctl' \in ControllerType
         /\ recent' \in [Path -> SUBSET Content]
         /\ gitOwed' \in BOOLEAN
  <1>1. ctl' \in ControllerType
    BY ObserveType DEF Notice, TypeOK
  <1>2. recent' \in [Path -> SUBSET Content]
    BY DEF Notice, TypeOK
  <1> QED BY <1>1, <1>2 DEF Notice, TypeOK

(* A fault uses up its bound and nothing else. *)
LEMMA FaultType ==
  ASSUME TypeOK, Fault
  PROVE  used' \in Usage
  BY UsageTypes DEF Fault, TypeOK

(* Installing a watcher, or failing to, preserves the types. *)
LEMMA InstallWatcherType ==
  ASSUME TypeOK, InstallWatcher
  PROVE  /\ watching' \in BOOLEAN /\ events' \in SUBSET Path
         /\ ctl' \in ControllerType /\ used' \in Usage
  <1>1. \A e \in BOOLEAN : SetWatchError(ctl, e) \in ControllerType
    BY SetWatchErrorType DEF TypeOK
  <1> QED BY <1>1, FaultType DEF InstallWatcher, TypeOK

(* The environment's steps. *)
LEMMA EnvironmentType ==
  ASSUME TypeOK, Environment
  PROVE  TypeOK'
  <1> USE DEF TypeOK, workerVars, readVars, clientVars
  <1>1. ASSUME NEW p \in Path, NEW x \in Edits, Edit(p, x)
        PROVE  TypeOK'
    <2>1. x \in Content
      BY ReconcileAssumption
    <2>2. used' \in Usage
      BY <1>1, UsageTypes DEF Edit
    <2> QED BY <1>1, <2>1, <2>2 DEF Edit
  <1>2. ASSUME NEW p \in Path, NEW precise \in BOOLEAN, Deliver(p, precise)
        PROVE  TypeOK'
    <2> DEFINE s == IF precise THEN Sources({p}) ELSE Full
    <2>1. s \in Scope
      BY ScopeTypes
    <2>2. Notice(s, FALSE)
      BY <1>2 DEF Deliver
    <2> HIDE DEF s
    <2>3. /\ ctl' \in ControllerType /\ recent' \in [Path -> SUBSET Content]
          /\ gitOwed' \in BOOLEAN
      BY <2>1, <2>2, NoticeType
    <2> QED BY <1>2, <2>3 DEF Deliver
  <1>3. CASE DeliverGit
    <2>1. Sources({}) \in Scope
      BY ScopeTypes
    <2>2. /\ ctl' \in ControllerType /\ recent' \in [Path -> SUBSET Content]
          /\ gitOwed' \in BOOLEAN
      BY <1>3, <2>1, NoticeType DEF DeliverGit
    <2>3. used' \in Usage
      BY <1>3, UsageTypes DEF DeliverGit
    <2> QED BY <1>3, <2>2, <2>3 DEF DeliverGit
  <1>4. CASE WatcherFails
    <2>1. ctl' \in ControllerType
      BY <1>4, SetWatchErrorType, ObserveType, ScopeTypes DEF WatcherFails
    <2>2. used' \in Usage
      BY <1>4, FaultType DEF WatcherFails
    <2> QED BY <1>4, <2>1, <2>2 DEF WatcherFails
  <1>5. CASE Attach
    <2>1. used' \in Usage
      BY <1>5, UsageTypes DEF Attach
    <2>2. /\ ctl' \in ControllerType /\ recent' \in [Path -> SUBSET Content]
          /\ gitOwed' \in BOOLEAN /\ attaching' \in BOOLEAN
      BY <1>5, NoticeType, ScopeTypes DEF Attach, NoNotice
    <2> QED BY <1>5, <2>1, <2>2 DEF Attach
  <1>6. CASE AttachWatch
    <2>1. /\ watching' \in BOOLEAN /\ events' \in SUBSET Path
          /\ ctl' \in ControllerType /\ used' \in Usage
      BY <1>6, InstallWatcherType DEF AttachWatch
    <2> QED BY <1>6, <2>1 DEF AttachWatch, NoNotice
  <1>7. CASE Detach
    <2>1. leases' \in Nat
      BY <1>7 DEF Detach
    <2> QED BY <1>7, <2>1 DEF Detach, NoNotice
  <1>8. CASE Crash
    <2>1. used' \in Usage
      BY <1>8, UsageTypes DEF Crash
    <2>2. NoTicket \in Ticket
      BY ScopeTypes DEF NoTicket, Ticket
    <2>3. pc' \in Phases
      BY <1>8 DEF Crash, Phases
    <2> QED BY <1>8, <2>1, <2>2, <2>3, NewControllerType, NewLedgerType, NewJobType,
               NewReaderType DEF Crash
  <1> QED BY <1>1, <1>2, <1>3, <1>4, <1>5, <1>6, <1>7, <1>8 DEF Environment

(* The reader's steps. *)
LEMMA ReaderStepType ==
  ASSUME TypeOK, Reader
  PROVE  TypeOK'
  <1> USE DEF TypeOK, workerVars, clientVars
  <1>1. CASE ReadSnapshot
    <2>1. used' \in Usage
      BY <1>1, UsageTypes DEF ReadSnapshot
    <2>2. Token(ctl) \in [observed : Nat, publication : Nat] /\ Eligible(ctl) \in BOOLEAN
      BY DEF Token, Eligible, ControllerType
    <2>3. rd' \in ReaderType
      <3> HIDE DEF TypeOK
      <3>1. rd \in ReaderType
        BY DEF TypeOK
      <3> QED BY <1>1, <2>2, <3>1, StatusType DEF ReadSnapshot, ReaderType
    <2> QED BY <1>1, <2>1, <2>3 DEF ReadSnapshot
  <1>2. CASE ReadSearch
    <2>1. Searchable(rows) \in Hits /\ NoVersions \in Hits
      BY DEF Hits, NoVersions, Searchable, Row
    <2>2. rd' \in ReaderType
      BY <1>2, <2>1 DEF ReadSearch, ReaderType
    <2> QED BY <1>2, <2>2 DEF ReadSearch
  <1>3. CASE ReadRespond
    <2>1. reply' \in ReplyType
      BY <1>3, NewReaderType DEF ReadRespond, ReplyType, ReaderType, Hits, NoVersions, Status
    <2> QED BY <1>3, <2>1, NewReaderType DEF ReadRespond
  <1> QED BY <1>1, <1>2, <1>3 DEF Reader

(* Publication, by whichever step, preserves the types. *)
LEMMA RecordType ==
  ASSUME TypeOK, NEW p \in Path, NEW o \in Outcome, RecordOutcome(p, o)
  PROVE  ctl' \in ControllerType /\ ledger' \in LedgerType(Path)
  BY InvalidatedType, PublishOutcomeType DEF RecordOutcome, TypeOK

(* So does the end of a run, whatever its result. *)
LEMMA EndRunType ==
  ASSUME TypeOK, NEW f \in BOOLEAN, NEW c \in BOOLEAN, EndRun(f, c), used' \in Usage
  PROVE  TypeOK'
  <1>1. ctl' \in ControllerType
    BY FinishType DEF EndRun, TypeOK
  <1>2. job.report \in ReportType(Path)
    BY DEF TypeOK, JobType
  <1>3. ledger' \in LedgerType(Path)
    <2>1. /\ ledger \in LedgerType(Path) /\ ApplyError(ledger) \in LedgerType(Path)
          /\ ApplyReport(ledger, job.report) \in LedgerType(Path)
      BY <1>2, ApplyErrorType, ApplyReportType DEF TypeOK
    <2>2. ledger' \in {ledger, ApplyError(ledger), ApplyReport(ledger, job.report)}
      BY DEF EndRun
    <2> QED BY <2>1, <2>2
  <1>4. gitOwed' \in BOOLEAN /\ pc' \in Phases
    BY DEF EndRun, Phases
  <1> QED BY <1>1, <1>3, <1>4, NewJobType DEF EndRun, TypeOK, clientVars, readVars

(* The transaction of a source and the outcome it leads to. *)
LEMMA CommitToType ==
  ASSUME TypeOK, NEW r \in [Path -> Row], NEW b \in BOOLEAN, CommitTo(r, b),
         used' \in Usage
  PROVE  TypeOK'
  <1>1. job.path \in Path
    BY DEF TypeOK, JobType
  <1>2. r[job.path].version \in Version \cup {NoVersion}
    BY <1>1 DEF Row
  <1> DEFINE o == CASE job.got = "failed" -> Rejected(r[job.path].version)
                    [] job.got = "binary" -> Excluded(FALSE, r[job.path].version)
                    [] job.got = "garbled" -> Excluded(TRUE, r[job.path].version)
                    [] OTHER -> Indexed(r[job.path].version, b)
             s == IF job.got = "failed" THEN job.seen ELSE job.seen \cup {job.path}
  <1>3. o \in Outcome
    BY <1>2, OutcomeTypes
  <1>4. s \in SUBSET Path
    BY <1>1 DEF TypeOK, JobType
  <1>5. job' = [job EXCEPT !.back = "scan", !.seen = s, !.outcome = o]
    BY DEF CommitTo
  <1> HIDE DEF o, s
  <1>6. job' \in JobType
    BY <1>3, <1>4, <1>5 DEF TypeOK, JobType
  <1>7. pc' \in Phases
    BY DEF CommitTo, Phases
  <1> QED BY <1>6, <1>7 DEF CommitTo, TypeOK, envVars, clientVars, readVars

(* The worker's steps up to the listing of the known sources. *)
LEMMA BeginStepsType ==
  ASSUME TypeOK,
         \/ \E force \in BOOLEAN : WorkerPick(force)
         \/ WorkerBegin \/ WorkerWiden
         \/ InvalidateAll \/ (\E p \in Path : InvalidateOne(p)) \/ InvalidateDone
         \/ MarkInvalidated \/ ListExisting
  PROVE  TypeOK'
  <1> USE DEF TypeOK, envVars, workerVars, clientVars, readVars
  <1>0. \A x \in {"idle", "picked", "begun", "invalidate", "invalidated", "list", "discover"} :
            x \in Phases
    BY DEF Phases
  <1>1. ASSUME NEW force \in BOOLEAN, WorkerPick(force)
        PROVE  TypeOK'
    <2>1. /\ ctl' \in ControllerType /\ recent' \in [Path -> SUBSET Content]
          /\ gitOwed' \in BOOLEAN
      <3> HIDE DEF TypeOK
      <3>1. CASE force
        BY <1>1, <3>1, NoticeType, ScopeTypes DEF WorkerPick
      <3>2. CASE ~force
        BY <1>1, <3>2 DEF WorkerPick, NoNotice, TypeOK
      <3> QED BY <3>1, <3>2
    <2>2. used' \in Usage
      BY <1>1, UsageTypes DEF WorkerPick
    <2> QED BY <1>0, <1>1, <2>1, <2>2 DEF WorkerPick
  <1>2. CASE WorkerBegin
    <2>1. ctl' \in ControllerType /\ ticket' \in Ticket
      BY <1>2, BeginType DEF WorkerBegin
    <2> QED BY <1>0, <1>2, <2>1 DEF WorkerBegin
  <1>3. CASE WorkerWiden
    <2>1. ctl' \in ControllerType /\ ticket' \in Ticket
      BY <1>3, WidenType, ScopeTypes DEF WorkerWiden
    <2> QED BY <1>0, <1>3, <2>1 DEF WorkerWiden
  <1>4. CASE InvalidateAll
    <2>1. rows' \in [Path -> Row]
      BY <1>4 DEF InvalidateAll, InvalidateRows, Row
    <2> QED BY <1>0, <1>4, <2>1 DEF InvalidateAll
  <1>5. ASSUME NEW p \in Path, InvalidateOne(p)
        PROVE  TypeOK'
    BY <1>5 DEF InvalidateOne, InvalidateRow, Row
  <1>6. CASE InvalidateDone
    BY <1>0, <1>6 DEF InvalidateDone
  <1>7. CASE MarkInvalidated
    <2>1. ctl' \in ControllerType
      BY <1>7, InvalidatedType DEF MarkInvalidated
    <2> QED BY <1>0, <1>7, <2>1 DEF MarkInvalidated
  <1>8. CASE ListExisting
    <2>1. rows' \in [Path -> Row]
      BY <1>8 DEF ListExisting, InvalidateRow, Row
    <2> DEFINE e == [p \in Path |-> IF p \in InScope THEN Versions(rows)[p] ELSE NoVersion]
               r == NewReport(Path, ~Precise)
    <2>2. e \in [Path -> Version \cup {NoVersion}]
      BY DEF Versions, Row
    <2>3. r \in ReportType(Path) /\ InScope \in SUBSET Path
      BY NewReportType DEF Precise, InScope
    <2>4. job' = [NewJob EXCEPT !.existing = e, !.todo = InScope, !.report = r]
      BY <1>8 DEF ListExisting
    <2> HIDE DEF e, r
    <2>5. job' \in JobType
      BY <2>2, <2>3, <2>4, NewJobType DEF JobType
    <2> QED BY <1>0, <1>8, <2>1, <2>5 DEF ListExisting
  <1> QED BY <1>1, <1>2, <1>3, <1>4, <1>5, <1>6, <1>7, <1>8

(* Discovery. *)
LEMMA DiscoverStepsType ==
  ASSUME TypeOK,
         \/ \E p \in Path : DiscoverPath(p) \/ WalkFails(p) \/ StatFails(p)
         \/ DiscoverDone
  PROVE  TypeOK'
  <1> USE DEF TypeOK, envVars, workerVars, clientVars, readVars
  <1>0. "scan" \in Phases /\ "publish" \in Phases
    BY DEF Phases
  <1>1. ASSUME NEW p \in Path, DiscoverPath(p)
        PROVE  TypeOK'
    <2> DEFINE visited == [job EXCEPT !.todo = @ \ {p}]
               o == Excluded(FALSE, rows[p].version)
    <2>1. visited \in JobType
      BY DEF JobType
    <2>2. o \in Outcome
      BY OutcomeTypes DEF Row
    <2>3. \/ /\ job' = [visited EXCEPT !.files = @ \cup {p}]
             /\ UNCHANGED <<ctl, ledger>>
          \/ job' = visited /\ UNCHANGED <<ctl, ledger>>
          \/ /\ RecordOutcome(p, o)
             /\ job' = [visited EXCEPT !.report = Reported(@, p, o)]
          \/ /\ job' = [visited EXCEPT !.walkFailed = TRUE,
                                       !.report.discovery.excluded = @ + 1]
             /\ UNCHANGED <<ctl, ledger>>
      BY <1>1 DEF DiscoverPath
    <2> HIDE DEF visited, o
    <2>4. ctl' \in ControllerType /\ ledger' \in LedgerType(Path)
      <3> HIDE DEF TypeOK
      <3> QED BY <2>2, <2>3, RecordType DEF TypeOK
    <2>5. job' \in JobType
      <3>1. Reported(visited.report, p, o) \in ReportType(Path)
        BY <2>1, <2>2, ReportedType DEF JobType
      <3>2. [visited EXCEPT !.files = @ \cup {p}] \in JobType
        BY <2>1 DEF JobType
      <3>3. [visited EXCEPT !.report = Reported(@, p, o)] \in JobType
        BY <2>1, <3>1 DEF JobType
      <3>4. [visited EXCEPT !.walkFailed = TRUE,
                            !.report.discovery.excluded = @ + 1] \in JobType
        <4> DEFINE n == visited.report.discovery.excluded + 1
        <4>1. n \in Int
          BY <2>1 DEF JobType, ReportType, Counts
        <4> HIDE DEF n
        <4>2. [visited.report EXCEPT !.discovery.excluded = n] \in ReportType(Path)
          BY <2>1, <4>1 DEF JobType, ReportType, Counts
        <4>3. [visited EXCEPT !.walkFailed = TRUE, !.report.discovery.excluded = n]
                = [visited EXCEPT !.walkFailed = TRUE,
                     !.report = [visited.report EXCEPT !.discovery.excluded = n]]
          BY <2>1 DEF JobType, ReportType, Counts
        <4>4. [visited EXCEPT !.walkFailed = TRUE,
                 !.report = [visited.report EXCEPT !.discovery.excluded = n]] \in JobType
          BY <2>1, <4>2 DEF JobType
        <4> QED BY <4>3, <4>4 DEF n
      <3> QED BY <2>1, <2>3, <3>2, <3>3, <3>4
    <2> QED BY <1>1, <2>4, <2>5 DEF DiscoverPath
  <1>2. ASSUME NEW p \in Path, WalkFails(p)
        PROVE  TypeOK'
    <2>1. used' \in Usage
      BY <1>2, FaultType DEF WalkFails
    <2>2. job' \in JobType
      <3> DEFINE n == job.report.discovery.errors + 1
                 t == job.todo \ {p}
      <3>1. n \in Int /\ t \in SUBSET Path
        BY DEF JobType, ReportType, Counts
      <3>2. job' = [job EXCEPT !.todo = t, !.walkFailed = TRUE,
                               !.report.discovery.errors = n]
        BY <1>2 DEF WalkFails
      <3> HIDE DEF n, t
      <3>3. [job.report EXCEPT !.discovery.errors = n] \in ReportType(Path)
        BY <3>1 DEF JobType, ReportType, Counts
      <3>4. job' = [job EXCEPT !.todo = t, !.walkFailed = TRUE,
                     !.report = [job.report EXCEPT !.discovery.errors = n]]
        BY <3>2 DEF JobType, ReportType, Counts
      <3> QED BY <3>1, <3>3, <3>4 DEF JobType
    <2> QED BY <1>2, <2>1, <2>2 DEF WalkFails
  <1>3. ASSUME NEW p \in Path, StatFails(p)
        PROVE  TypeOK'
    <2>1. used' \in Usage
      BY <1>3, FaultType DEF StatFails
    <2>2. rows' \in [Path -> Row]
      BY <1>3 DEF StatFails, RemoveRow, Row, NoRow
    <2> DEFINE o == Rejected(rows'[p].version)
               t == job.todo \ {p}
               s == job.seen \cup {p}
    <2>3. o \in Outcome /\ t \in SUBSET Path /\ s \in SUBSET Path
      BY <2>2, OutcomeTypes DEF Row, JobType
    <2>4. job' = [job EXCEPT !.todo = t, !.seen = s, !.path = p, !.got = "failed",
                             !.back = "discover", !.outcome = o]
      BY <1>3 DEF StatFails
    <2> HIDE DEF o, t, s
    <2>5. job' \in JobType
      BY <2>3, <2>4 DEF JobType
    <2> QED BY <1>0, <1>3, <2>1, <2>2, <2>5 DEF StatFails
  <1>4. CASE DiscoverDone
    <2>1. job' \in JobType
      BY <1>4 DEF DiscoverDone, JobType, ReportType
    <2> QED BY <1>0, <1>4, <2>1 DEF DiscoverDone
  <1> QED BY <1>1, <1>2, <1>3, <1>4

(* Reading, commit, publication, removal and the end of the run. *)
LEMMA ScanStepsType ==
  ASSUME TypeOK,
         \/ \E p \in Path : ReadSource(p) \/ ReadFails(p)
         \/ CommitSource \/ CommitUncached \/ PublishSource \/ ScanDone
         \/ \E p \in Path : RemoveUnseen(p) \/ RemoveUnreported(p)
         \/ FinishRun \/ FailRun \/ WorkerAfter \/ WorkerRewatch
  PROVE  TypeOK'
  <1> USE DEF TypeOK, envVars, workerVars, clientVars, readVars
  <1>0. \A x \in {"idle", "commit", "publish", "remove", "rewatch", "discover", "scan"} :
            x \in Phases
    BY DEF Phases
  <1>1. ASSUME NEW p \in Path, ReadSource(p)
        PROVE  TypeOK'
    <2>1. job' \in JobType
      BY <1>1 DEF ReadSource, JobType
    <2> QED BY <1>0, <1>1, <2>1 DEF ReadSource
  <1>2. ASSUME NEW p \in Path, ReadFails(p)
        PROVE  TypeOK'
    <2>1. job' \in JobType
      BY <1>2 DEF ReadFails, JobType
    <2>2. used' \in Usage
      BY <1>2, FaultType DEF ReadFails
    <2> QED BY <1>0, <1>2, <2>1, <2>2 DEF ReadFails
  <1>3. CASE CommitSource
    <2> DEFINE p == job.path
               old == job.existing[p]
               r == CASE job.got \in Version /\ old = job.got -> VerifyRow(rows, p)
                      [] job.got \in Version /\ old # job.got -> ReplaceRow(rows, p, job.got)
                      [] job.got \in {"binary", "garbled"} /\ old # NoVersion
                            -> RemoveRow(rows, p)
                      [] OTHER -> rows
    <2>1. p \in Path
      BY DEF JobType
    <2>2. r \in [Path -> Row]
      BY <2>1 DEF VerifyRow, ReplaceRow, RemoveRow, Present, NoRow, Row
    <2>3. CommitTo(r, FALSE) /\ used' \in Usage
      BY <1>3 DEF CommitSource
    <2> HIDE DEF TypeOK, r
    <2> QED BY <2>2, <2>3, CommitToType
  <1>4. CASE CommitUncached
    <2>1. ReplaceRow(rows, job.path, job.got) \in [Path -> Row]
      BY <1>4 DEF CommitUncached, ReplaceRow, Row, JobType
    <2>2. used' \in Usage
      BY <1>4, FaultType DEF CommitUncached
    <2> HIDE DEF TypeOK
    <2> QED BY <1>4, <2>1, <2>2, CommitToType DEF CommitUncached
  <1>5. CASE PublishSource
    <2>1. /\ job.path \in Path /\ job.outcome \in Outcome /\ job.report \in ReportType(Path)
          /\ job.back \in {"discover", "scan", "remove"}
      BY DEF JobType
    <2>2. ctl' \in ControllerType /\ ledger' \in LedgerType(Path)
      <3> HIDE DEF TypeOK
      <3> QED BY <1>5, <2>1, RecordType DEF PublishSource
    <2>3. Reported(job.report, job.path, job.outcome) \in ReportType(Path)
      BY <2>1, ReportedType
    <2>4. job' \in JobType
      BY <1>5, <2>3 DEF PublishSource, JobType
    <2> QED BY <1>0, <1>5, <2>1, <2>2, <2>4 DEF PublishSource
  <1>6. CASE ScanDone
    BY <1>0, <1>6 DEF ScanDone
  <1>7. ASSUME NEW p \in Path, RemoveUnseen(p)
        PROVE  TypeOK'
    <2>1. job' \in JobType
      BY <1>7, NewJobType DEF RemoveUnseen, JobType, NewJob
    <2>2. rows' \in [Path -> Row]
      BY <1>7 DEF RemoveUnseen, RemoveRow, NoRow, Row
    <2> QED BY <1>0, <1>7, <2>1, <2>2 DEF RemoveUnseen
  <1>8. ASSUME NEW p \in Path, RemoveUnreported(p)
        PROVE  TypeOK'
    <2>1. job' \in JobType
      BY <1>8, NewJobType DEF RemoveUnreported, JobType, NewJob
    <2> QED BY <1>0, <1>8, <2>1 DEF RemoveUnreported
  <1>9. CASE FinishRun
    <2>1. Completed(job.report) \in BOOLEAN
      BY DEF Completed
    <2>2. used' \in Usage /\ EndRun(FALSE, Completed(job.report))
      BY <1>9 DEF FinishRun
    <2> HIDE DEF TypeOK
    <2> QED BY <2>1, <2>2, EndRunType
  <1>10. CASE FailRun
    <2>1. used' \in Usage /\ EndRun(TRUE, FALSE)
      BY <1>10, FaultType DEF FailRun
    <2> HIDE DEF TypeOK
    <2> QED BY <2>1, EndRunType
  <1>11. CASE WorkerAfter
    <2>1. ticket' \in Ticket
      BY <1>11, ScopeTypes DEF WorkerAfter, NoTicket, Ticket
    <2> QED BY <1>0, <1>11, <2>1 DEF WorkerAfter
  <1>12. CASE WorkerRewatch
    <2>1. /\ watching' \in BOOLEAN /\ events' \in SUBSET Path
          /\ ctl' \in ControllerType /\ used' \in Usage
      BY <1>12, InstallWatcherType DEF WorkerRewatch
    <2> QED BY <1>0, <1>12, <2>1 DEF WorkerRewatch
  <1> QED BY <1>1, <1>2, <1>3, <1>4, <1>5, <1>6, <1>7, <1>8, <1>9, <1>10, <1>11, <1>12

(* The initial state is well typed. *)
LEMMA InitType == Init => TypeOK
  <1> SUFFICES ASSUME Init
               PROVE  TypeOK
    OBVIOUS
  <1>1. /\ disk \in [Path -> Content] /\ recent \in [Path -> SUBSET Content]
    BY ReconcileAssumption DEF Init
  <1>2. NoTicket \in Ticket
    BY ScopeTypes DEF NoTicket, Ticket
  <1>3. rows \in [Path -> Row]
    BY DEF Init, NoRow, Row
  <1>4. used \in Usage /\ pc \in Phases
    BY DEF Init, Usage, Phases
  <1> QED BY <1>1, <1>2, <1>3, <1>4, NewControllerType, NewLedgerType, NewJobType,
             NewReaderType DEF Init, TypeOK

(* Every step preserves the types. *)
LEMMA NextType == TypeOK /\ [Next]_vars => TypeOK'
  <1> SUFFICES ASSUME TypeOK, [Next]_vars
               PROVE  TypeOK'
    OBVIOUS
  <1>1. CASE Environment
    BY <1>1, EnvironmentType
  <1>2. CASE Worker
    BY <1>2, BeginStepsType, DiscoverStepsType, ScanStepsType DEF Worker
  <1>3. CASE Reader
    BY <1>3, ReaderStepType
  <1>4. CASE UNCHANGED vars
    BY <1>4 DEF vars, TypeOK
  <1> QED BY <1>1, <1>2, <1>3, <1>4 DEF Next

(* Every variable keeps its type; in particular the count of leases, an      *)
(* unsigned atomic in runtime.rs, is never decremented below zero, and the   *)
(* pending slot never holds anything but a scope.                            *)
THEOREM TypeCorrect == Spec => []TypeOK
  <1> QED BY InitType, NextType, PTL DEF Spec

(***************************************************************************)
(* What reads show: the invariant of module ReconcileInvariant is          *)
(* inductive, and with it no search returns a content older than the last  *)
(* observed change.                                                        *)
(***************************************************************************)
(* The controller's fields the argument compares. *)
LEMMA Fields ==
  ASSUME TypeOK
  PROVE  /\ ctl.observed \in Nat /\ ctl.safe \in Nat /\ ctl.publication \in Nat
         /\ ctl.nextRun \in Nat /\ ctl.pending \in Scope
         /\ ticket.observed \in Nat /\ ticket.run \in Nat /\ ticket.scope \in Scope
         /\ rd.token.observed \in Nat /\ rd.token.publication \in Nat
  BY DEF TypeOK, ControllerType, Ticket, ReaderType

(* A step that observes nothing and starts or ends nothing: the recent       *)
(* contents only grow, the worker stays in its phase or outside of a run.    *)
LEMMA QuietKeeps ==
  ASSUME TypeOK, IInv, ctl' \in ControllerType,
         ctl'.observed = ctl.observed, ctl'.safe = ctl.safe,
         ctl'.active = ctl.active, ctl'.pending = ctl.pending,
         ctl'.publication >= ctl.publication,
         \A p \in Path : recent[p] \subseteq recent'[p] /\ disk'[p] \in recent'[p],
         UNCHANGED <<rows, ticket, job, rd>>,
         pc' = pc \/ {pc, pc'} \cap Running = {}
  PROVE  IInv'
  <1> USE Fields
  <1>0. pc' \in Running <=> pc \in Running
    OBVIOUS
  <1>1. Revisions'
    <2>1. pc' \in Running => pc' = pc
      OBVIOUS
    <2> QED BY <1>0, <2>1 DEF IInv, Revisions
  <1>2. DiskRecent'
    BY DEF DiskRecent
  <1>3. StaleQueued'
    BY DEF IInv, StaleQueued, Running, Scanning
  <1>4. Buffered'
    <2>1. job.path \in Path
      BY DEF TypeOK, JobType
    <2> QED BY <2>1 DEF IInv, Buffered, Running, Scanning
  <1>5. Listed'
    BY DEF IInv, Listed, Unread, Phase, Running, Scanning
  <1>6. ReaderSafe'
    <2> SUFFICES ASSUME rd.pc # "idle"
                 PROVE  /\ rd.token.observed <= ctl'.observed
                        /\ rd.token.publication <= ctl'.publication
                        /\ rd.pc = "snapshot" /\ rd.eligible /\ Validates(ctl', rd.token)
                              => Eligible(ctl')
                        /\ rd.pc = "searched" /\ Validates(ctl', rd.token) =>
                             \A p \in Path : rd.hits[p] # NoVersion => rd.hits[p] \in recent'[p]
      BY DEF ReaderSafe
    <2>1. ctl'.publication \in Nat
      BY DEF ControllerType
    <2>2. rd.token.observed <= ctl.observed /\ rd.token.publication <= ctl.publication
      BY DEF IInv, ReaderSafe
    <2>3. Validates(ctl', rd.token) => Validates(ctl, rd.token)
      BY <2>1, <2>2 DEF Validates
    <2> QED BY <2>1, <2>2, <2>3 DEF IInv, ReaderSafe, Eligible
  <1> QED BY <1>1, <1>2, <1>3, <1>4, <1>5, <1>6 DEF IInv

(* A step that observes a change queues what it forgets the contents of. *)
LEMMA ObservedKeeps ==
  ASSUME TypeOK, IInv, ctl' \in ControllerType, NEW s \in Scope, s # NoScope,
         ctl'.observed = ctl.observed + 1, ctl'.safe = ctl.safe,
         ctl'.active = ctl.active, ctl'.pending = Queue(ctl.pending, s),
         ctl'.publication >= ctl.publication,
         \A p \in Path : IF Covers(s, p) THEN recent'[p] = {disk[p]}
                                         ELSE recent'[p] = recent[p],
         UNCHANGED <<disk, rows, ticket, job, rd>>,
         pc' = pc \/ {pc, pc'} \cap Running = {}
  PROVE  IInv'
  <1> USE Fields
  <1>0. /\ ctl'.pending # NoScope
        /\ \A p \in Path : Covers(ctl.pending, p) \/ Covers(s, p) => Covers(ctl'.pending, p)
    BY QueueCovers
  <1>1. Revisions'
    <2>1. pc' \in Running => pc' = pc
      OBVIOUS
    <2>2. pc' \in Running <=> pc \in Running
      OBVIOUS
    <2> QED BY <1>0, <2>1, <2>2 DEF IInv, Revisions
  <1>2. DiskRecent'
    BY DEF IInv, DiskRecent
  <1>3. StaleQueued'
    BY <1>0 DEF IInv, StaleQueued, Running, Scanning
  <1>4. Buffered'
    <2>1. job.path \in Path
      BY DEF TypeOK, JobType
    <2> QED BY <1>0, <2>1 DEF IInv, Buffered, Running, Scanning
  <1>5. Listed'
    BY DEF IInv, Listed, Unread, Phase, Running, Scanning
  <1>6. ReaderSafe'
    <2>1. rd.pc # "idle" => ~Validates(ctl', rd.token)
      BY DEF IInv, ReaderSafe, Validates
    <2>2. ctl'.publication \in Nat
      BY DEF ControllerType
    <2> QED BY <2>1, <2>2 DEF IInv, ReaderSafe
  <1> QED BY <1>1, <1>2, <1>3, <1>4, <1>5, <1>6 DEF IInv

(* A step inside a run, on the same side of the mark "invalidated": it may   *)
(* publish, and what it does to the rows and the buffers remains to be shown. *)
LEMMA RunKeeps ==
  ASSUME TypeOK, IInv, pc \in Running, pc' \in Running, pc \in Scanning <=> pc' \in Scanning,
         ctl' \in {ctl, [ctl EXCEPT !.publication = @ + 1]},
         UNCHANGED <<disk, recent, ticket, rd>>
  PROVE  Revisions' /\ DiskRecent' /\ ReaderSafe' /\ ctl'.pending = ctl.pending
  <1> USE Fields
  <1>1. /\ ctl'.observed = ctl.observed /\ ctl'.safe = ctl.safe /\ ctl'.active = ctl.active
        /\ ctl'.pending = ctl.pending
        /\ ctl'.publication \in Nat /\ ctl'.publication >= ctl.publication
    BY DEF TypeOK, ControllerType
  <1>2. Revisions'
    BY <1>1 DEF IInv, Revisions
  <1>3. DiskRecent'
    BY DEF IInv, DiskRecent
  <1>4. ReaderSafe'
    <2>1. rd.pc # "idle" /\ Validates(ctl', rd.token) => Validates(ctl, rd.token)
      BY <1>1 DEF IInv, ReaderSafe, Validates
    <2> QED BY <1>1, <2>1 DEF IInv, ReaderSafe, Eligible
  <1> QED BY <1>1, <1>2, <1>3, <1>4

(* The rows a step writes are searchable only with contents it may show. *)
LEMMA RowsKeep ==
  ASSUME TypeOK, IInv, UNCHANGED <<recent, ticket>>, ctl'.pending = ctl.pending,
         pc' \in {"begun", "invalidate"} \/ pc \notin {"begun", "invalidate"},
         \A p \in Path : \/ rows'[p] = rows[p]
                         \/ ~rows'[p].eligible
                         \/ rows'[p].version \in recent[p]
                         \/ Covers(ctl.pending, p)
  PROVE  StaleQueued'
  BY DEF IInv, StaleQueued

(* Installing a watcher touches no revision. *)
LEMMA InstallKeeps ==
  ASSUME TypeOK, InstallWatcher
  PROVE  /\ ctl'.observed = ctl.observed /\ ctl'.safe = ctl.safe
         /\ ctl'.active = ctl.active /\ ctl'.pending = ctl.pending
         /\ ctl'.publication >= ctl.publication
  <1>1. \E e \in BOOLEAN : ctl' = SetWatchError(ctl, e)
    BY DEF InstallWatcher
  <1>2. PICK e \in BOOLEAN : ctl' = SetWatchError(ctl, e)
    BY <1>1
  <1> QED BY <1>2 DEF SetWatchError, TypeOK, ControllerType

(* The environment's and the reader's steps. *)
LEMMA EnvironmentKeeps ==
  ASSUME TypeOK, TypeOK', IInv, Environment
  PROVE  IInv'
  <1> USE Fields DEF workerVars, readVars, clientVars
  <1>0. ctl' \in ControllerType
    BY DEF TypeOK
  <1>1. ASSUME NEW p \in Path, NEW x \in Edits, Edit(p, x)
        PROVE  IInv'
    <2>1. \A q \in Path : recent[q] \subseteq recent'[q] /\ disk'[q] \in recent'[q]
      BY <1>1 DEF Edit, IInv, DiskRecent, TypeOK
    <2> QED BY <1>0, <1>1, <2>1, QuietKeeps DEF Edit
  <1>2. ASSUME NEW s \in Scope, s # NoScope, NEW g \in BOOLEAN, Notice(s, g),
               UNCHANGED <<disk, rows, ticket, job, rd, pc>>
        PROVE  IInv'
    <2>1. /\ ctl'.observed = ctl.observed + 1 /\ ctl'.safe = ctl.safe
          /\ ctl'.active = ctl.active /\ ctl'.pending = Queue(ctl.pending, s)
          /\ ctl'.publication >= ctl.publication
      BY <1>2 DEF Notice, Observe, TypeOK, ControllerType
    <2>2. \A p \in Path : IF Covers(s, p) THEN recent'[p] = {disk[p]}
                                          ELSE recent'[p] = recent[p]
      BY <1>2 DEF Notice
    <2> QED BY <1>0, <1>2, <2>1, <2>2, ObservedKeeps
  <1>3. ASSUME NEW p \in Path, NEW precise \in BOOLEAN, Deliver(p, precise)
        PROVE  IInv'
    <2>1. CASE precise
      BY <1>2, <1>3, <2>1, ScopeTypes DEF Deliver
    <2>2. CASE ~precise
      BY <1>2, <1>3, <2>2, ScopeTypes DEF Deliver
    <2> QED BY <2>1, <2>2
  <1>4. CASE DeliverGit
    BY <1>2, <1>4, ScopeTypes DEF DeliverGit
  <1>5. CASE WatcherFails
    <2>1. /\ ctl'.observed = ctl.observed + 1 /\ ctl'.safe = ctl.safe
          /\ ctl'.active = ctl.active /\ ctl'.pending = Queue(ctl.pending, Full)
          /\ ctl'.publication >= ctl.publication
      BY <1>5 DEF WatcherFails, Observe, SetWatchError, TypeOK, ControllerType
    <2>2. \A p \in Path : IF Covers(Full, p) THEN recent'[p] = {disk[p]}
                                             ELSE recent'[p] = recent[p]
      BY <1>5, ScopeTypes DEF WatcherFails
    <2> QED BY <1>0, <1>5, <2>1, <2>2, ObservedKeeps, ScopeTypes DEF WatcherFails
  <1>6. CASE Attach
    <2>1. CASE leases = 0
      BY <1>2, <1>6, <2>1, ScopeTypes DEF Attach
    <2>2. CASE leases # 0
      BY <1>0, <1>6, <2>2, QuietKeeps DEF Attach, NoNotice, IInv, DiskRecent
    <2> QED BY <2>1, <2>2
  <1>7. CASE AttachWatch
    <2>1. InstallWatcher
      BY <1>7 DEF AttachWatch
    <2> QED BY <1>0, <1>7, <2>1, InstallKeeps, QuietKeeps DEF AttachWatch, NoNotice, IInv, DiskRecent
  <1>8. CASE Detach
    BY <1>0, <1>8, QuietKeeps DEF Detach, NoNotice, IInv, DiskRecent
  <1>9. CASE Crash
    <2>1. /\ pc' = "idle" /\ ctl' = NewController /\ ticket' = NoTicket /\ rd'.pc = "idle"
      BY <1>9 DEF Crash, NewReader
    <2>2. Revisions' /\ StaleQueued' /\ Buffered' /\ Listed' /\ ReaderSafe'
      BY <2>1, ScopeTypes DEF Revisions, StaleQueued, Buffered, Listed, ReaderSafe, Phase,
         Unread, Running, Scanning, NewController
    <2>3. DiskRecent'
      BY <1>9 DEF Crash, DiskRecent
    <2> QED BY <2>2, <2>3 DEF IInv
  <1> QED BY <1>1, <1>3, <1>4, <1>5, <1>6, <1>7, <1>8, <1>9 DEF Environment

(* Reads are let through only when no searchable row is stale. *)
LEMMA ReadsSafe ==
  ASSUME TypeOK, IInv
  PROVE  NoStaleRead /\ SettledIsReadable
  <1> USE Fields
  <1>1. ASSUME Eligible(ctl)
        PROVE  ctl.pending = NoScope /\ pc \notin {"begun", "invalidate"}
    BY <1>1 DEF Eligible, IInv, Revisions, Running, Scanning
  <1>2. NoStaleRead
    BY <1>1, ScopeTypes DEF NoStaleRead, IInv, StaleQueued
  <1>3. SettledIsReadable
    <2>1. Idle(ctl) => pc \notin Running
      BY DEF Idle, IInv, Revisions, NoTicket
    <2> QED BY <2>1 DEF SettledIsReadable, Idle, Eligible, IInv, Revisions
  <1> QED BY <1>2, <1>3

(* A reader takes its token and its decision in one critical section, and   *)
(* searches in one transaction.                                              *)
LEMMA ReaderKeeps ==
  ASSUME TypeOK, TypeOK', IInv, Reader
  PROVE  IInv'
  <1> USE Fields DEF workerVars, clientVars
  <1>1. /\ UNCHANGED <<disk, recent, rows, ctl, pc, ticket, job>>
    BY DEF Reader, ReadSnapshot, ReadSearch, ReadRespond
  <1>2. Revisions' /\ DiskRecent' /\ StaleQueued' /\ Buffered' /\ Listed'
    BY <1>1 DEF IInv, Revisions, DiskRecent, StaleQueued, Buffered, Listed, Unread, Phase
  <1>3. ReaderSafe'
    <2>1. CASE ReadSnapshot
      <3>1. rd'.pc = "snapshot" /\ rd'.token = Token(ctl) /\ rd'.eligible = Eligible(ctl)
        BY <2>1 DEF ReadSnapshot, TypeOK, ReaderType
      <3> QED BY <1>1, <3>1 DEF ReaderSafe, Token
    <2>2. CASE ReadSearch
      <3>1. /\ rd.pc = "snapshot" /\ rd'.pc = "searched" /\ rd'.token = rd.token
            /\ rd'.hits = IF rd.eligible THEN Searchable(rows) ELSE NoVersions
        BY <2>2 DEF ReadSearch, TypeOK, ReaderType
      <3>2. ASSUME Validates(ctl, rd.token), NEW p \in Path, rd'.hits[p] # NoVersion
            PROVE  rd'.hits[p] \in recent[p]
        <4>1. rd.eligible
          BY <3>1, <3>2 DEF NoVersions
        <4>2. Eligible(ctl)
          BY <3>1, <3>2, <4>1 DEF IInv, ReaderSafe
        <4>3. rows[p].eligible /\ rd'.hits[p] = rows[p].version
          BY <3>1, <3>2, <4>1 DEF Searchable, TypeOK
        <4> QED BY <4>2, <4>3, ReadsSafe DEF NoStaleRead
      <3> QED BY <1>1, <3>1, <3>2 DEF ReaderSafe, IInv
    <2>3. CASE ReadRespond
      BY <2>3 DEF ReadRespond, NewReader, ReaderSafe
    <2> QED BY <2>1, <2>2, <2>3 DEF Reader
  <1> QED BY <1>2, <1>3 DEF IInv

(* From the visit of the root to the listing of the known sources. *)
LEMMA BeginKeeps ==
  ASSUME TypeOK, TypeOK', IInv,
         \/ \E force \in BOOLEAN : WorkerPick(force)
         \/ WorkerBegin \/ WorkerWiden
         \/ InvalidateAll \/ (\E p \in Path : InvalidateOne(p)) \/ InvalidateDone
         \/ MarkInvalidated \/ ListExisting
  PROVE  IInv'
  <1> USE Fields DEF workerVars, readVars, clientVars, envVars
  <1>0. ctl' \in ControllerType
    BY DEF TypeOK
  <1>1. ASSUME NEW force \in BOOLEAN, WorkerPick(force)
        PROVE  IInv'
    <2>0. {pc, pc'} \cap Running = {}
      BY <1>1 DEF WorkerPick, Running, Scanning
    <2>1. CASE force
      <3>1. Notice(Full, FALSE)
        BY <1>1, <2>1 DEF WorkerPick
      <3>2. /\ ctl'.observed = ctl.observed + 1 /\ ctl'.safe = ctl.safe
            /\ ctl'.active = ctl.active /\ ctl'.pending = Queue(ctl.pending, Full)
            /\ ctl'.publication >= ctl.publication
        BY <3>1 DEF Notice, Observe, TypeOK, ControllerType
      <3>3. \A p \in Path : IF Covers(Full, p) THEN recent'[p] = {disk[p]}
                                               ELSE recent'[p] = recent[p]
        BY <3>1 DEF Notice
      <3> QED BY <1>0, <1>1, <2>0, <3>2, <3>3, ObservedKeeps, ScopeTypes DEF WorkerPick
    <2>2. CASE ~force
      BY <1>0, <1>1, <2>0, <2>2, QuietKeeps DEF WorkerPick, NoNotice, IInv, DiskRecent
    <2> QED BY <2>1, <2>2
  <1>2. CASE WorkerBegin
    <2>1. CASE CanBegin(ctl)
      <3>1. /\ pc = "picked" /\ pc' = "begun"
            /\ ctl'.observed = ctl.observed /\ ctl'.safe = ctl.safe
            /\ ctl'.publication > ctl.publication
            /\ ctl'.active = ticket' /\ ctl'.pending = NoScope
            /\ ticket'.run = ctl.nextRun + 1 /\ ticket'.observed = ctl.observed
            /\ ticket'.scope = ctl.pending
        <4>1. /\ pc = "picked" /\ pc' = "begun"
              /\ ctl' = Begin(ctl) /\ ticket' = NextTicket(ctl)
          BY <1>2, <2>1 DEF WorkerBegin
        <4>2. /\ ticket'.run = ctl.nextRun + 1 /\ ticket'.observed = ctl.observed
              /\ ticket'.scope = ctl.pending
          BY <4>1 DEF NextTicket
        <4>3. /\ ctl'.observed = ctl.observed /\ ctl'.safe = ctl.safe
              /\ ctl'.publication = ctl.publication + 1
              /\ ctl'.active = ticket' /\ ctl'.pending = NoScope
          BY <4>1 DEF Begin, TypeOK, ControllerType
        <4> QED BY <4>1, <4>2, <4>3
      <3>2. ctl.safe < ctl.observed /\ ctl.pending # NoScope
        BY <2>1, <3>1 DEF CanBegin, IInv, Revisions, Running, Scanning
      <3>3. Revisions'
        BY <3>1, <3>2 DEF IInv, Revisions, Running, Scanning
      <3>4. StaleQueued' /\ Buffered' /\ Listed' /\ DiskRecent'
        BY <1>2, <3>1 DEF WorkerBegin, IInv, StaleQueued, Buffered, Listed, DiskRecent, Phase,
                          Unread
      <3>5. ReaderSafe'
        <4>1. rd' = rd
          BY <1>2 DEF WorkerBegin
        <4>2. rd.pc # "idle" => ~Validates(ctl', rd.token)
          BY <3>1 DEF IInv, ReaderSafe, Validates
        <4>3. ctl'.publication \in Nat
          BY <1>0 DEF ControllerType
        <4> QED BY <3>1, <4>1, <4>2, <4>3 DEF IInv, ReaderSafe
      <3> QED BY <3>3, <3>4, <3>5 DEF IInv
    <2>2. CASE ~CanBegin(ctl)
      <3>1. {pc, pc'} \cap Running = {}
        BY <1>2, <2>2 DEF WorkerBegin, Running, Scanning
      <3> QED BY <1>0, <1>2, <2>2, <3>1, QuietKeeps DEF WorkerBegin, IInv, DiskRecent
    <2> QED BY <2>1, <2>2
  <1>3. CASE WorkerWiden
    <2>1. /\ pc = "begun" /\ pc' = "invalidate" /\ UNCHANGED <<disk, recent, rows, job, rd>>
      BY <1>3 DEF WorkerWiden
    <2>2. /\ ctl'.observed = ctl.observed /\ ctl'.safe = ctl.safe
          /\ ctl'.publication = ctl.publication /\ ctl'.pending = ctl.pending
          /\ ctl'.active = ticket' /\ ticket'.run = ticket.run
          /\ ticket'.observed = ticket.observed /\ ticket'.scope # NoScope
          /\ \A p \in Path : Covers(ticket.scope, p) => Covers(ticket'.scope, p)
      <3>1. CASE ticket.git /\ Precise
        <4>1. PICK s \in Scope : /\ ticket' = WidenTicket(ticket, s)
                                 /\ ctl' = SetActive(ctl, WidenTicket(ticket, s))
          BY <1>3, <3>1, ScopeTypes DEF WorkerWiden
        <4>2. /\ ticket'.run = ticket.run /\ ticket'.observed = ticket.observed
              /\ ticket'.scope = Merge(ticket.scope, s)
          BY <4>1 DEF WidenTicket, TypeOK, Ticket
        <4> QED BY <4>1, <4>2, MergeCovers DEF SetActive, TypeOK, ControllerType
      <3>2. CASE ~(ticket.git /\ Precise)
        BY <1>3, <2>1, <3>2 DEF WorkerWiden, IInv, Revisions, Running
      <3> QED BY <3>1, <3>2
    <2>3. Revisions'
      BY <2>1, <2>2 DEF IInv, Revisions, Running, Scanning
    <2>4. StaleQueued'
      BY <2>1, <2>2 DEF IInv, StaleQueued
    <2>5. Buffered' /\ Listed' /\ DiskRecent'
      BY <2>1 DEF IInv, Buffered, Listed, DiskRecent, Phase, Unread
    <2>6. ReaderSafe'
      BY <2>1, <2>2 DEF IInv, ReaderSafe, Validates, Eligible
    <2> QED BY <2>3, <2>4, <2>5, <2>6 DEF IInv
  <1>4. CASE InvalidateAll
    <2>1. /\ pc = "invalidate" /\ pc' = "invalidated"
          /\ UNCHANGED <<ctl, ticket, job, disk, recent, rd>>
          /\ \A p \in Path : ~rows'[p].eligible
      BY <1>4 DEF InvalidateAll, InvalidateRows, TypeOK, Row
    <2>2. Revisions' /\ DiskRecent' /\ ReaderSafe'
      BY <2>1, RunKeeps DEF Running, Scanning
    <2>3. StaleQueued' /\ Buffered' /\ Listed'
      BY <2>1 DEF StaleQueued, Buffered, Listed, Phase, Unread
    <2> QED BY <2>2, <2>3 DEF IInv
  <1>5. ASSUME NEW p \in Path, InvalidateOne(p)
        PROVE  IInv'
    <2>1. /\ pc = "invalidate" /\ pc' = pc
          /\ UNCHANGED <<ctl, ticket, job, disk, recent, rd>>
          /\ \A q \in Path : rows'[q] = rows[q] \/ ~rows'[q].eligible
      BY <1>5 DEF InvalidateOne, InvalidateRow, TypeOK, Row
    <2>2. Revisions' /\ DiskRecent' /\ ReaderSafe'
      BY <2>1, RunKeeps DEF Running, Scanning
    <2>3. StaleQueued'
      BY <2>1, RowsKeep
    <2>4. Buffered' /\ Listed'
      BY <2>1 DEF Buffered, Listed, Phase, Unread
    <2> QED BY <2>2, <2>3, <2>4 DEF IInv
  <1>6. CASE InvalidateDone
    <2>1. /\ pc = "invalidate" /\ pc' = "invalidated"
          /\ UNCHANGED <<ctl, ticket, job, disk, recent, rd, rows>>
          /\ \A p \in Path : Covers(ticket.scope, p) => ~rows[p].eligible
      BY <1>6 DEF InvalidateDone, InScope
    <2>2. Revisions' /\ DiskRecent' /\ ReaderSafe'
      BY <2>1, RunKeeps DEF Running, Scanning
    <2>3. StaleQueued'
      BY <2>1 DEF IInv, StaleQueued
    <2>4. Buffered' /\ Listed'
      BY <2>1 DEF Buffered, Listed, Phase, Unread
    <2> QED BY <2>2, <2>3, <2>4 DEF IInv
  <1>7. CASE MarkInvalidated
    <2>1. /\ pc = "invalidated" /\ pc' = "list"
          /\ UNCHANGED <<ticket, job, disk, recent, rd, rows>>
      BY <1>7 DEF MarkInvalidated
    <2>2. Matches(ctl, ticket)
      BY <2>1 DEF IInv, Revisions, Running, Matches
    <2>3. /\ ctl'.observed = ctl.observed /\ ctl'.safe = ticket.observed
          /\ ctl'.publication > ctl.publication /\ ctl'.pending = ctl.pending
          /\ ctl'.active = ctl.active
      BY <1>7, <2>2 DEF MarkInvalidated, Invalidated, TypeOK, ControllerType
    <2>4. Revisions'
      BY <2>1, <2>3 DEF IInv, Revisions, Running, Scanning
    <2>5. StaleQueued' /\ Buffered' /\ Listed' /\ DiskRecent'
      BY <2>1, <2>3 DEF IInv, StaleQueued, Buffered, Listed, DiskRecent, Phase, Unread
    <2>6. ReaderSafe'
      <3>1. rd.pc # "idle" => ~Validates(ctl', rd.token)
        BY <2>3 DEF IInv, ReaderSafe, Validates
      <3>2. ctl'.publication \in Nat
        BY <1>0 DEF ControllerType
      <3> QED BY <2>1, <2>3, <3>1, <3>2 DEF IInv, ReaderSafe
    <2> QED BY <2>4, <2>5, <2>6 DEF IInv
  <1>8. CASE ListExisting
    <2>1. /\ pc = "list" /\ pc' = "discover"
          /\ UNCHANGED <<ctl, ticket, disk, recent, rd>>
      BY <1>8 DEF ListExisting
    <2>2. \A p \in Path : /\ rows'[p] = rows[p] \/ ~rows'[p].eligible
                          /\ rows'[p].version = rows[p].version
      BY <1>8 DEF ListExisting, InvalidateRow, TypeOK, Row
    <2>3. /\ job'.todo = InScope /\ job'.files = {}
          /\ \A p \in InScope : job'.existing[p] = rows[p].version
      BY <1>8 DEF ListExisting, NewJob, Versions, TypeOK, InScope
    <2>4. Revisions' /\ DiskRecent' /\ ReaderSafe'
      BY <2>1, RunKeeps DEF Running, Scanning
    <2>5. StaleQueued'
      BY <2>1, <2>2, RowsKeep
    <2>6. Buffered' /\ Listed'
      BY <2>1, <2>2, <2>3 DEF Buffered, Listed, Phase, Unread
    <2> QED BY <2>4, <2>5, <2>6 DEF IInv
  <1> QED BY <1>1, <1>2, <1>3, <1>4, <1>5, <1>6, <1>7, <1>8

(* Discovery publishes exclusions and errors of paths the scan then leaves    *)
(* alone.                                                                     *)
LEMMA DiscoverKeeps ==
  ASSUME TypeOK, TypeOK', IInv,
         \/ \E p \in Path : DiscoverPath(p) \/ WalkFails(p) \/ StatFails(p)
         \/ DiscoverDone
  PROVE  IInv'
  <1> USE DEF readVars, clientVars, envVars
  <1>1. ASSUME NEW p \in Path, DiscoverPath(p)
        PROVE  IInv'
    <2>1. /\ pc = "discover" /\ pc' = pc /\ p \in job.todo
          /\ UNCHANGED <<rows, ticket, disk, recent, rd>>
          /\ ctl' \in {ctl, [ctl EXCEPT !.publication = @ + 1]}
      BY <1>1 DEF DiscoverPath, RecordOutcome, Published
    <2>2. /\ job'.todo = job.todo \ {p} /\ job'.existing = job.existing
          /\ job'.files \subseteq job.files \cup {p}
      BY <1>1 DEF DiscoverPath, TypeOK, JobType
    <2>3. Revisions' /\ DiskRecent' /\ ReaderSafe' /\ ctl'.pending = ctl.pending
      BY <2>1, RunKeeps DEF Running, Scanning
    <2>4. StaleQueued'
      BY <2>1, <2>3, RowsKeep
    <2>5. Buffered' /\ Listed'
      BY <2>1, <2>2 DEF IInv, Buffered, Listed, Phase, Unread
    <2> QED BY <2>3, <2>4, <2>5 DEF IInv
  <1>2. ASSUME NEW p \in Path, WalkFails(p)
        PROVE  IInv'
    <2>1. /\ pc = "discover" /\ pc' = pc
          /\ UNCHANGED <<rows, ctl, ticket, disk, recent, rd>>
      BY <1>2 DEF WalkFails
    <2>2. /\ job'.todo = job.todo \ {p} /\ job'.existing = job.existing
          /\ job'.files = job.files
      BY <1>2 DEF WalkFails, TypeOK, JobType
    <2>3. Revisions' /\ DiskRecent' /\ ReaderSafe' /\ ctl'.pending = ctl.pending
      BY <2>1, RunKeeps DEF Running, Scanning
    <2>4. StaleQueued'
      BY <2>1, <2>3, RowsKeep
    <2>5. Buffered' /\ Listed'
      BY <2>1, <2>2 DEF IInv, Buffered, Listed, Phase, Unread
    <2> QED BY <2>3, <2>4, <2>5 DEF IInv
  <1>3. ASSUME NEW p \in Path, StatFails(p)
        PROVE  IInv'
    <2>1. /\ pc = "discover" /\ pc' = "publish" /\ p \in job.todo
          /\ UNCHANGED <<ctl, ticket, disk, recent, rd>>
      BY <1>3 DEF StatFails
    <2>2. /\ job'.todo = job.todo \ {p} /\ job'.existing = job.existing
          /\ job'.files = job.files /\ job'.back = "discover"
      BY <1>3 DEF StatFails, TypeOK, JobType
    <2>3. \A q \in Path : /\ rows'[q] = rows[q] \/ ~rows'[q].eligible
                          /\ q # p => rows'[q] = rows[q]
      BY <1>3 DEF StatFails, RemoveRow, NoRow, TypeOK
    <2>4. Revisions' /\ DiskRecent' /\ ReaderSafe' /\ ctl'.pending = ctl.pending
      BY <2>1, RunKeeps DEF Running, Scanning
    <2>5. StaleQueued'
      BY <2>1, <2>3, <2>4, RowsKeep
    <2>6. Buffered' /\ Listed'
      BY <2>1, <2>2, <2>3 DEF IInv, Buffered, Listed, Phase, Unread
    <2> QED BY <2>4, <2>5, <2>6 DEF IInv
  <1>4. CASE DiscoverDone
    <2>1. /\ pc = "discover" /\ pc' = "scan"
          /\ UNCHANGED <<rows, ctl, ticket, disk, recent, rd>>
          /\ job'.todo = job.files /\ job'.existing = job.existing
      BY <1>4 DEF DiscoverDone, TypeOK, JobType
    <2>2. Revisions' /\ DiskRecent' /\ ReaderSafe' /\ ctl'.pending = ctl.pending
      BY <2>1, RunKeeps DEF Running, Scanning
    <2>3. StaleQueued'
      BY <2>1, <2>2, RowsKeep
    <2>4. Buffered' /\ Listed'
      BY <2>1 DEF IInv, Buffered, Listed, Phase, Unread
    <2> QED BY <2>2, <2>3, <2>4 DEF IInv
  <1> QED BY <1>1, <1>2, <1>3, <1>4

(* A source's transaction makes it searchable with what was read or, if it    *)
(* is the version the scan listed, with what is there.                        *)
LEMMA CommitKeeps ==
  ASSUME TypeOK, TypeOK', IInv, CommitSource \/ CommitUncached
  PROVE  IInv'
  <1> USE DEF readVars, clientVars, envVars
  <1> DEFINE p == job.path
  <1>0. p \in Path
    BY DEF TypeOK, JobType
  <1>1. PICK r, b : CommitTo(r, b)
    BY DEF CommitSource, CommitUncached
  <1>2. /\ pc = "commit" /\ pc' = "publish"
        /\ UNCHANGED <<ctl, ticket, disk, recent, rd>>
        /\ job'.back = "scan" /\ job'.todo = job.todo /\ job'.existing = job.existing
    BY <1>1 DEF CommitSource, CommitUncached, CommitTo, TypeOK, JobType
  <1>3. /\ \A q \in Path : q # p => rows'[q] = rows[q]
        /\ rows'[p].eligible =>
              rows'[p] = rows[p] \/ (job.got \in Version /\ rows'[p].version = job.got)
    <2>1. job.existing[p] = rows[p].version
      BY <1>0, <1>2 DEF IInv, Listed, Unread, Phase
    <2>2. rows' \in {rows, VerifyRow(rows, p), ReplaceRow(rows, p, job.got),
                    RemoveRow(rows, p)}
      BY DEF CommitSource, CommitUncached, CommitTo
    <2>3. rows' = VerifyRow(rows, p) =>
              rows' = rows \/ (job.got \in Version /\ rows[p].version = job.got)
      BY <1>0, <2>1 DEF CommitSource, CommitUncached, CommitTo, VerifyRow, ReplaceRow, RemoveRow,
                  NoRow, TypeOK, Row
    <2> QED BY <1>0, <2>1, <2>2, <2>3
            DEF CommitSource, CommitUncached, CommitTo, VerifyRow, ReplaceRow, RemoveRow,
                NoRow, TypeOK, Row
  <1> HIDE DEF p
  <1>4. Revisions' /\ DiskRecent' /\ ReaderSafe' /\ ctl'.pending = ctl.pending
    BY <1>2, RunKeeps DEF Running, Scanning
  <1>5. job.got \in Version => job.got \in recent[p] \/ Covers(ctl.pending, p)
    BY <1>2 DEF IInv, Buffered, p
  <1>6. StaleQueued'
    BY <1>0, <1>2, <1>3, <1>4, <1>5, RowsKeep
  <1>7. Buffered' /\ Listed'
    BY <1>0, <1>2, <1>3 DEF IInv, Buffered, Listed, Phase, Unread, p
  <1> QED BY <1>4, <1>6, <1>7 DEF IInv

(* The scan reads what a file holds now, publishes, and removes.              *)
LEMMA ScanKeeps ==
  ASSUME TypeOK, TypeOK', IInv,
         \/ \E p \in Path : ReadSource(p) \/ ReadFails(p)
         \/ PublishSource \/ ScanDone
         \/ \E p \in Path : RemoveUnseen(p) \/ RemoveUnreported(p)
  PROVE  IInv'
  <1> USE DEF readVars, clientVars, envVars
  <1>1. ASSUME NEW p \in Path, ReadSource(p) \/ ReadFails(p)
        PROVE  IInv'
    <2>1. /\ pc = "scan" /\ pc' = "commit" /\ p \in job.todo
          /\ UNCHANGED <<rows, ctl, ticket, disk, recent, rd>>
      BY <1>1 DEF ReadSource, ReadFails
    <2>2. /\ job'.todo = job.todo \ {p} /\ job'.existing = job.existing /\ job'.path = p
          /\ job'.got \in {disk[p], "failed"}
      BY <1>1 DEF ReadSource, ReadFails, TypeOK, JobType
    <2>3. Revisions' /\ DiskRecent' /\ ReaderSafe' /\ ctl'.pending = ctl.pending
      BY <2>1, RunKeeps DEF Running, Scanning
    <2>4. StaleQueued'
      BY <2>1, <2>3, RowsKeep
    <2>5. Buffered'
      BY <2>1, <2>2, ReconcileAssumption DEF Buffered, IInv, DiskRecent
    <2>6. Listed'
      BY <2>1, <2>2 DEF IInv, Listed, Phase, Unread
    <2> QED BY <2>3, <2>4, <2>5, <2>6 DEF IInv
  <1>2. CASE PublishSource
    <2>1. /\ pc = "publish" /\ pc' = job.back /\ job.back \in {"discover", "scan", "remove"}
          /\ UNCHANGED <<rows, ticket, disk, recent, rd>>
          /\ ctl' \in {ctl, [ctl EXCEPT !.publication = @ + 1]}
      BY <1>2 DEF PublishSource, RecordOutcome, Published, TypeOK, JobType
    <2>2. /\ job'.todo = job.todo /\ job'.existing = job.existing /\ job'.path = job.path
          /\ job'.files = job.files /\ job'.back = job.back
      BY <1>2 DEF PublishSource, TypeOK, JobType
    <2>3. Revisions' /\ DiskRecent' /\ ReaderSafe' /\ ctl'.pending = ctl.pending
      BY <2>1, RunKeeps DEF Running, Scanning
    <2>4. StaleQueued'
      BY <2>1, <2>3, RowsKeep
    <2>5. Buffered' /\ Listed'
      BY <2>1, <2>2 DEF IInv, Buffered, Listed, Phase, Unread
    <2> QED BY <2>3, <2>4, <2>5 DEF IInv
  <1>3. CASE ScanDone
    <2>1. /\ pc = "scan" /\ pc' = "remove"
          /\ UNCHANGED <<rows, ctl, ticket, disk, recent, rd>>
      BY <1>3 DEF ScanDone
    <2>2. Revisions' /\ DiskRecent' /\ ReaderSafe' /\ ctl'.pending = ctl.pending
      BY <2>1, RunKeeps DEF Running, Scanning
    <2>3. StaleQueued'
      BY <2>1, <2>2, RowsKeep
    <2>4. Buffered' /\ Listed'
      BY <2>1 DEF Buffered, Listed, Phase, Unread
    <2> QED BY <2>2, <2>3, <2>4 DEF IInv
  <1>4. ASSUME NEW p \in Path, RemoveUnseen(p) \/ RemoveUnreported(p)
        PROVE  IInv'
    <2>1. /\ pc = "remove" /\ pc' \in {"remove", "publish"}
          /\ UNCHANGED <<ctl, ticket, disk, recent, rd>>
          /\ job'.back = "remove"
      BY <1>4 DEF RemoveUnseen, RemoveUnreported, TypeOK, JobType
    <2>2. \A q \in Path : rows'[q] = rows[q] \/ ~rows'[q].eligible
      <3>1. rows' = rows \/ rows' = [rows EXCEPT ![p] = NoRow]
        BY <1>4 DEF RemoveUnseen, RemoveUnreported, RemoveRow
      <3>2. rows \in [Path -> Row] /\ ~NoRow.eligible
        BY DEF TypeOK, NoRow
      <3> QED BY <3>1, <3>2
    <2>3. Revisions' /\ DiskRecent' /\ ReaderSafe' /\ ctl'.pending = ctl.pending
      BY <2>1, RunKeeps DEF Running, Scanning
    <2>4. StaleQueued'
      BY <2>1, <2>2, <2>3, RowsKeep
    <2>5. Buffered' /\ Listed'
      BY <2>1 DEF Buffered, Listed, Phase, Unread
    <2> QED BY <2>3, <2>4, <2>5 DEF IInv
  <1> QED BY <1>1, <1>2, <1>3, <1>4

(* A run that ends without completing puts its scope back; one that          *)
(* completes leaves the queue, and reads safe at its revision.               *)
LEMMA EndKeeps ==
  ASSUME TypeOK, TypeOK', IInv, FinishRun \/ FailRun
  PROVE  IInv'
  <1> USE Fields DEF readVars, clientVars, envVars
  <1>1. PICK failed \in BOOLEAN, completed \in BOOLEAN :
            /\ EndRun(failed, completed)
            /\ IF failed THEN ~completed ELSE pc = "remove"
    <2>1. CASE FinishRun
      <3>1. Completed(job.report) \in BOOLEAN
        BY DEF Completed
      <3>2. EndRun(FALSE, Completed(job.report)) /\ pc = "remove"
        BY <2>1 DEF FinishRun
      <3> QED BY <3>1, <3>2
    <2>2. CASE FailRun
      <3>1. EndRun(TRUE, FALSE)
        BY <2>2 DEF FailRun
      <3> QED BY <3>1
    <2> QED BY <2>1, <2>2
  <1>2. /\ pc \in Running \ {"begun"} /\ pc' = "after"
        /\ UNCHANGED <<disk, recent, rows, ticket, rd>>
        /\ job' = NewJob
    BY <1>1 DEF FinishRun, FailRun, EndRun, Running, Scanning
  <1>3. ctl' = Finish(ctl, ticket, failed, completed)
    BY <1>1, <1>2 DEF EndRun, IInv, Revisions, Matches
  <1> DEFINE back == IF failed THEN Full ELSE ticket.scope
  <1>4. /\ ctl'.observed = ctl.observed /\ ctl'.active = NoTicket
        /\ ctl'.publication = ctl.publication + 1
        /\ \/ /\ completed /\ ctl.safe = ticket.observed
              /\ ctl'.safe = ctl.safe /\ ctl'.pending = ctl.pending
           \/ ctl'.safe = 0 /\ ctl'.pending = Queue(ctl.pending, back)
    <2>1. CASE completed /\ ctl.safe = ticket.observed
      BY <1>3, <2>1 DEF Finish, TypeOK, ControllerType
    <2>2. CASE ~(completed /\ ctl.safe = ticket.observed)
      BY <1>3, <2>2 DEF Finish, TypeOK, ControllerType
    <2> QED BY <2>1, <2>2
  <1>5. /\ \A p \in Path : Covers(ctl.pending, p) => Covers(ctl'.pending, p)
        /\ failed => \A p \in Path : Covers(ctl'.pending, p)
        /\ ctl'.pending = Queue(ctl.pending, back) => ctl'.pending # NoScope
    <2>1. back \in Scope /\ back # NoScope
      BY <1>2, ScopeTypes DEF IInv, Revisions
    <2>2. \A p \in Path : Covers(ctl.pending, p) \/ Covers(back, p) =>
                              Covers(Queue(ctl.pending, back), p)
      BY <2>1, QueueCovers
    <2>3. Queue(ctl.pending, back) # NoScope
      BY <2>1, QueueCovers
    <2> QED BY <1>1, <1>4, <2>2, <2>3, ScopeTypes
  <1>6. Revisions'
    BY <1>1, <1>2, <1>4, <1>5 DEF IInv, Revisions, Running, Scanning
  <1>7. StaleQueued'
    BY <1>1, <1>2, <1>4, <1>5 DEF IInv, StaleQueued
  <1>8. Buffered' /\ Listed' /\ DiskRecent'
    BY <1>2 DEF IInv, DiskRecent, Buffered, Listed, Phase, Unread
  <1>9. ReaderSafe'
    <2>1. rd.pc # "idle" => ~Validates(ctl', rd.token)
      BY <1>2, <1>4 DEF IInv, ReaderSafe, Validates
    <2> QED BY <1>2, <1>4, <2>1 DEF IInv, ReaderSafe
  <1> QED BY <1>6, <1>7, <1>8, <1>9 DEF IInv

(* After a run: back to the loop, perhaps over a new watcher.                *)
LEMMA AfterKeeps ==
  ASSUME TypeOK, TypeOK', IInv, WorkerAfter \/ WorkerRewatch
  PROVE  IInv'
  <1> USE Fields DEF readVars, clientVars, envVars
  <1>1. CASE WorkerAfter
    <2>1. /\ pc = "after" /\ pc' \in {"rewatch", "idle"}
          /\ UNCHANGED <<disk, recent, rows, ctl, job, rd>>
      BY <1>1 DEF WorkerAfter
    <2> QED BY <2>1 DEF IInv, Revisions, DiskRecent, StaleQueued, Buffered, Listed, Phase,
                      Unread, ReaderSafe, Running, Scanning
  <1>2. CASE WorkerRewatch
    <2>1. /\ {pc, pc'} \cap Running = {} /\ InstallWatcher
          /\ UNCHANGED <<disk, recent, rows, ticket, job, rd>>
      BY <1>2 DEF WorkerRewatch, Running, Scanning
    <2>2. ctl' \in ControllerType
      BY DEF TypeOK
    <2> QED BY <2>1, <2>2, InstallKeeps, QuietKeeps DEF IInv, DiskRecent
  <1> QED BY <1>1, <1>2

(* The invariant holds at the start, where nothing is indexed and everything *)
(* is queued.                                                                *)
LEMMA InitIInv == Init => IInv
  <1> SUFFICES ASSUME Init
               PROVE  IInv
    OBVIOUS
  <1>1. Revisions
    BY ScopeTypes DEF Init, Revisions, Running, Scanning, NewController
  <1>2. DiskRecent /\ StaleQueued /\ Buffered /\ Listed /\ ReaderSafe
    BY DEF Init, DiskRecent, StaleQueued, Buffered, Listed, ReaderSafe, NoRow, NewReader,
           Unread, Phase
  <1> QED BY <1>1, <1>2 DEF IInv

(* No step leaves the invariant.                                             *)
LEMMA NextIInv == TypeOK /\ TypeOK' /\ IInv /\ [Next]_vars => IInv'
  <1> SUFFICES ASSUME TypeOK, TypeOK', IInv, [Next]_vars
               PROVE  IInv'
    OBVIOUS
  <1>1. CASE Environment
    BY <1>1, EnvironmentKeeps
  <1>2. CASE Worker
    BY <1>2, BeginKeeps, DiscoverKeeps, CommitKeeps, ScanKeeps, EndKeeps, AfterKeeps DEF Worker
  <1>3. CASE Reader
    BY <1>3, ReaderKeeps
  <1>4. CASE UNCHANGED vars
    BY <1>4 DEF vars, IInv, Revisions, DiskRecent, StaleQueued, Buffered, Listed, Unread, Phase,
                ReaderSafe
  <1> QED BY <1>1, <1>2, <1>3, <1>4 DEF Next

(* The revisions, the queue, the rows and the scan's buffers stay consistent *)
(* in every execution.                                                       *)
THEOREM Inductive == Spec => []IInv
  <1>1. TypeOK /\ IInv /\ [Next]_vars => (TypeOK /\ IInv)'
    BY NextType, NextIInv
  <1> QED BY <1>1, InitType, InitIInv, PTL DEF Spec

(* Whenever the owner lets reads through, every row that a search can return *)
(* holds a content its file has had since the last change observed for it.   *)
THEOREM ReadsNeverStale == Spec => []NoStaleRead
  <1>1. TypeOK /\ IInv => NoStaleRead
    BY ReadsSafe
  <1> QED BY <1>1, TypeCorrect, Inductive, PTL

(* A controller with neither queued nor running work has invalidated and     *)
(* reconciled at its latest revision: a settled status never accompanies     *)
(* suppressed reads.                                                         *)
THEOREM SettledReads == Spec => []SettledIsReadable
  <1>1. TypeOK /\ IInv => SettledIsReadable
    BY ReadsSafe
  <1> QED BY <1>1, TypeCorrect, Inductive, PTL

(* A reply changes only when the reader answers or the process ends.         *)
LEMMA ReplyChanges ==
  ASSUME [Next]_vars, reply' # reply
  PROVE  ReadRespond \/ Crash
  <1> USE DEF readVars, workerVars, clientVars, envVars
  <1>1. CASE Environment
    BY <1>1 DEF Environment, Edit, Deliver, DeliverGit, WatcherFails, Attach, AttachWatch,
                Detach
  <1>2. ~Worker
    <2>1. ~(\/ \E force \in BOOLEAN : WorkerPick(force)
            \/ WorkerBegin \/ WorkerWiden
            \/ InvalidateAll \/ (\E p \in Path : InvalidateOne(p)) \/ InvalidateDone
            \/ MarkInvalidated \/ ListExisting)
      BY DEF WorkerPick, WorkerBegin, WorkerWiden, InvalidateAll, InvalidateOne,
             InvalidateDone, MarkInvalidated, ListExisting
    <2>2. ~(\/ \E p \in Path : DiscoverPath(p) \/ WalkFails(p) \/ StatFails(p)
            \/ DiscoverDone)
      BY DEF DiscoverPath, WalkFails, StatFails, DiscoverDone
    <2>3. ~(CommitSource \/ CommitUncached)
      BY DEF CommitSource, CommitUncached, CommitTo
    <2>4. ~(\/ \E p \in Path : ReadSource(p) \/ ReadFails(p)
            \/ PublishSource \/ ScanDone
            \/ \E p \in Path : RemoveUnseen(p) \/ RemoveUnreported(p))
      BY DEF ReadSource, ReadFails, PublishSource, ScanDone, RemoveUnseen, RemoveUnreported
    <2>5. ~(FinishRun \/ FailRun \/ WorkerAfter \/ WorkerRewatch)
      BY DEF FinishRun, FailRun, EndRun, WorkerAfter, WorkerRewatch
    <2> QED BY <2>1, <2>2, <2>3, <2>4, <2>5 DEF Worker
  <1>3. CASE Reader
    BY <1>3 DEF Reader, ReadSnapshot, ReadSearch
  <1>4. ~(UNCHANGED vars)
    BY DEF vars
  <1> QED BY <1>1, <1>2, <1>3, <1>4 DEF Next

(* Every answer handed out shows only contents its files have had since the  *)
(* last observed change, whatever happened between snapshot and validation.  *)
THEOREM AnswersAreFresh == Spec => AnswersFresh
  <1>1. TypeOK /\ IInv /\ [Next]_vars =>
          [reply' # reply =>
             \A p \in Path : reply'.hits[p] # NoVersion => reply'.hits[p] \in recent'[p]]_vars
    <2> SUFFICES ASSUME TypeOK, IInv, [Next]_vars, reply' # reply, NEW p \in Path,
                        reply'.hits[p] # NoVersion
                 PROVE  reply'.hits[p] \in recent'[p]
      OBVIOUS
    <2>1. CASE ReadRespond
      <3>1. /\ rd.pc = "searched" /\ recent' = recent
            /\ reply' = IF Validates(ctl, rd.token)
                        THEN [hits |-> rd.hits, status |-> rd.status]
                        ELSE [hits |-> NoVersions, status |-> "refreshing"]
        BY <2>1 DEF ReadRespond
      <3>2. Validates(ctl, rd.token)
        BY <3>1 DEF NoVersions
      <3> QED BY <3>1, <3>2 DEF IInv, ReaderSafe
    <2>2. CASE Crash
      BY <2>2 DEF Crash, NoReply, NoVersions
    <2> QED BY <2>1, <2>2, ReplyChanges
  <1> QED BY <1>1, TypeCorrect, Inductive, PTL DEF AnswersFresh, Spec

(***************************************************************************)
(* What the coverage reported with an answer is worth: no observed change  *)
(* is forgotten, a settled ledger describes the rows, and the store never  *)
(* refuses what the scan publishes.                                        *)
(***************************************************************************)
(* Publisher::source changes one entry of the ledger, and none of its flags. *)
LEMMA PublishedOne ==
  ASSUME NEW l \in LedgerType(Path), NEW p \in Path, NEW o
  PROVE  /\ \A q \in Path : PublishOutcome(l, p, o).sources[q] =
                                IF q = p THEN o ELSE l.sources[q]
         /\ Trusted(PublishOutcome(l, p, o)) = Trusted(l)
  <1> DEFINE new == [q \in {p} |-> o]
             t == Add(Subtract(l.totals, Tally(l.sources, {p})), Tally(new, {p}))
             s == [q \in DOMAIN l.sources |-> IF q \in {p} THEN new[q] ELSE l.sources[q]]
             u == l.unfinishedSources \ {p}
  <1>1. PublishOutcome(l, p, o) =
            [l EXCEPT !.unfinishedSources = u, !.totals = t, !.sources = s]
    BY DEF PublishOutcome, PublishAll
  <1>2. \A q \in Path : s[q] = IF q = p THEN o ELSE l.sources[q]
    BY DEF LedgerType
  <1> HIDE DEF t, s, u
  <1>3. [l EXCEPT !.unfinishedSources = u, !.totals = t, !.sources = s].sources = s
    BY DEF LedgerType
  <1>4. /\ PublishOutcome(l, p, o).reconstructed = l.reconstructed
        /\ PublishOutcome(l, p, o).scanFailed = l.scanFailed
        /\ PublishOutcome(l, p, o).discoveryUncertain = l.discoveryUncertain
    BY <1>1 DEF LedgerType
  <1> QED BY <1>1, <1>2, <1>3, <1>4 DEF Trusted

LEMMA RecordedOne ==
  ASSUME TypeOK, NEW p \in Path, NEW o, RecordOutcome(p, o)
  PROVE  /\ \A q \in Path \ {p} : ledger'.sources[q] = ledger.sources[q]
         /\ Trusted(ledger') = Trusted(ledger)
         /\ ctl' \in {ctl, [ctl EXCEPT !.publication = @ + 1]}
         /\ ctl'.pending = ctl.pending
  <1>1. ledger' \in {ledger, PublishOutcome(ledger, p, o)}
    BY DEF RecordOutcome
  <1>2. ctl' \in {ctl, [ctl EXCEPT !.publication = @ + 1]}
    BY DEF RecordOutcome, Published
  <1> QED BY <1>1, <1>2, PublishedOne DEF TypeOK, ControllerType

(* A path counts as dark, or the ledger as wrong about it, only outside the  *)
(* scope of the run.                                                         *)
LEMMA ScopeKeeps ==
  ASSUME CoverageInv, pc \in Running, pc' \in Running, UNCHANGED <<ticket, recent>>,
         ctl'.pending = ctl.pending,
         \A q \in Path \ InScope : rows'[q] = rows[q] /\ ledger'.sources[q] = ledger.sources[q],
         Trusted(ledger') => Trusted(ledger)
  PROVE  DarkQueued' /\ LedgerAgrees'
  <1> USE DEF CoverageInv
  <1>1. \A q \in Path : q \notin InScope <=> ~Covers(ticket.scope, q)
    BY DEF InScope
  <1>2. DarkQueued'
    BY <1>1 DEF DarkQueued, Shows
  <1>3. LedgerAgrees'
    BY <1>1 DEF LedgerAgrees
  <1> QED BY <1>2, <1>3

(* Nothing is asked of a worker that is not in a scan. *)
LEMMA OutsideScan ==
  ASSUME pc' \notin Scans, \A p \in Path : rows'[p].eligible => Present(rows'[p])
  PROVE  ScanInv'
  BY DEF ScanInv, OwnScope, Suppressed, BufferedOther, Answered, ReportAgrees,
         PublicationConfirmed, Scans

(* Steps that leave the worker where it is, or outside of a run.  Whatever   *)
(* they forget the contents of, they queue.                                  *)
LEMMA QuietCovers ==
  ASSUME TypeOK, CoverageInv, UNCHANGED <<rows, ledger, job>>,
         \/ pc' = pc /\ ticket' = ticket
         \/ pc \notin Running /\ pc' \notin Running,
         \A p \in Path : Covers(ctl.pending, p) => Covers(ctl'.pending, p),
         \A p \in Path : Covers(ctl'.pending, p) \/ recent[p] \subseteq recent'[p]
  PROVE  CoverageInv'
  <1> USE DEF CoverageInv, ScanInv
  <1>0. job.path \in Path /\ \A p \in Unread : p \in Path
    BY DEF TypeOK, JobType, Unread
  <1>1. DarkQueued' /\ LedgerAgrees'
    BY DEF DarkQueued, Shows, LedgerAgrees
  <1>2. CASE pc' = pc /\ ticket' = ticket
    <2>1. OwnScope' /\ Suppressed' /\ ReportAgrees' /\ PublicationConfirmed'
      BY <1>2 DEF OwnScope, Suppressed, ReportAgrees, PublicationConfirmed, Confirmed, Phase,
                  Precise, InScope, Current, Concerned, Unread
    <2>2. BufferedOther'
      BY <1>0, <1>2 DEF BufferedOther
    <2>3. Answered'
      BY <1>2 DEF Answered, Shows, InScope, Unread, Phase, Current
    <2> QED BY <1>1, <2>1, <2>2, <2>3
  <1>3. CASE pc \notin Running /\ pc' \notin Running
    <2>1. pc' \notin Scans
      BY <1>3 DEF Running, Scanning, Scans
    <2>2. ScanInv'
      BY <1>3, <2>1, OutsideScan DEF Suppressed, Running, Scanning, Scans
    <2> QED BY <1>1, <2>2
  <1> QED BY <1>2, <1>3

(* A step that observes a scope queues it. *)
LEMMA NoticeCovers ==
  ASSUME TypeOK, CoverageInv, NEW s \in Scope, NEW g \in BOOLEAN, Notice(s, g),
         UNCHANGED <<rows, ledger, job>>,
         \/ pc' = pc /\ ticket' = ticket
         \/ pc \notin Running /\ pc' \notin Running
  PROVE  CoverageInv'
  <1>1. ctl'.pending = Queue(ctl.pending, s)
    BY DEF Notice, Observe, TypeOK, ControllerType
  <1>2. \A p \in Path : Covers(ctl.pending, p) \/ Covers(s, p) => Covers(ctl'.pending, p)
    BY <1>1, Fields, QueueCovers
  <1>3. \A p \in Path : Covers(ctl'.pending, p) \/ recent[p] \subseteq recent'[p]
    BY <1>2 DEF Notice
  <1> QED BY <1>2, <1>3, QuietCovers

(* The environment's steps. *)
LEMMA EnvironmentCovers ==
  ASSUME TypeOK, TypeOK', CoverageInv, Environment
  PROVE  CoverageInv'
  <1> USE DEF workerVars, readVars, clientVars
  <1>1. ASSUME NEW p \in Path, NEW x \in Edits, Edit(p, x)
        PROVE  CoverageInv'
    <2>1. \A q \in Path : recent[q] \subseteq recent'[q]
      BY <1>1 DEF Edit, TypeOK
    <2> QED BY <1>1, <2>1, QuietCovers DEF Edit
  <1>2. ASSUME NEW p \in Path, NEW precise \in BOOLEAN, Deliver(p, precise)
        PROVE  CoverageInv'
    <2>1. CASE precise
      BY <1>2, <2>1, NoticeCovers, ScopeTypes DEF Deliver
    <2>2. CASE ~precise
      BY <1>2, <2>2, NoticeCovers, ScopeTypes DEF Deliver
    <2> QED BY <2>1, <2>2
  <1>3. CASE DeliverGit
    BY <1>3, NoticeCovers, ScopeTypes DEF DeliverGit
  <1>4. CASE WatcherFails
    <2>1. ctl'.pending = Queue(ctl.pending, Full)
      BY <1>4 DEF WatcherFails, Observe, SetWatchError, TypeOK, ControllerType
    <2>2. \A p \in Path : Covers(ctl'.pending, p)
      BY <2>1, Fields, QueueCovers, ScopeTypes
    <2> QED BY <1>4, <2>2, QuietCovers DEF WatcherFails
  <1>5. CASE Attach
    <2>1. CASE leases = 0
      BY <1>5, <2>1, NoticeCovers, ScopeTypes DEF Attach
    <2>2. CASE leases # 0
      BY <1>5, <2>2, QuietCovers DEF Attach, NoNotice
    <2> QED BY <2>1, <2>2
  <1>6. CASE AttachWatch
    <2>1. InstallWatcher
      BY <1>6 DEF AttachWatch
    <2> QED BY <1>6, <2>1, InstallKeeps, QuietCovers DEF AttachWatch, NoNotice
  <1>7. CASE Detach
    BY <1>7, QuietCovers DEF Detach, NoNotice
  <1>8. CASE Crash
    <2>1. /\ pc' = "idle" /\ rows' = rows
          /\ ctl'.pending = Full /\ ~Trusted(ledger')
      BY <1>8 DEF Crash, NewController, NewLedger, Trusted
    <2>2. ScanInv'
      BY <2>1, OutsideScan DEF CoverageInv, ScanInv, Suppressed, Scans
    <2>3. DarkQueued' /\ LedgerAgrees'
      BY <2>1, ScopeTypes DEF DarkQueued, LedgerAgrees
    <2> QED BY <2>2, <2>3 DEF CoverageInv
  <1> QED BY <1>1, <1>2, <1>3, <1>4, <1>5, <1>6, <1>7, <1>8 DEF Environment

(* The reader's steps. *)
LEMMA ReaderCovers ==
  ASSUME TypeOK, CoverageInv, Reader
  PROVE  CoverageInv'
  BY QuietCovers DEF Reader, ReadSnapshot, ReadSearch, ReadRespond, workerVars, clientVars

(* A step of a run before its scan.  It may widen the scope and suppress rows *)
(* of it.                                                                     *)
LEMMA PreludeCovers ==
  ASSUME TypeOK, CoverageInv, pc \in Running, pc' \in Running \ Scans,
         UNCHANGED <<recent, ledger>>, ctl'.pending = ctl.pending,
         \A p \in Path : Covers(ticket.scope, p) => Covers(ticket'.scope, p),
         \A p \in Path : \/ rows'[p] = rows[p]
                         \/ /\ Covers(ticket.scope, p)
                            /\ rows'[p] = [rows[p] EXCEPT !.eligible = FALSE]
  PROVE  CoverageInv'
  <1>1. \A p \in Path : rows'[p].eligible => Present(rows'[p])
    <2>1. \A p \in Path : rows[p] \in Row /\ (rows[p].eligible => Present(rows[p]))
      BY DEF CoverageInv, ScanInv, Suppressed, TypeOK
    <2> QED BY <2>1 DEF Row, Present
  <1>2. ScanInv'
    BY <1>1, OutsideScan
  <1>3. DarkQueued'
    BY DEF CoverageInv, DarkQueued, Shows
  <1>4. LedgerAgrees'
    BY DEF CoverageInv, LedgerAgrees
  <1> QED BY <1>2, <1>3, <1>4 DEF CoverageInv

(* From the visit of the root to the mark on the scope.  A run takes what is *)
(* queued into its scope and gives up nothing of it.                         *)
LEMMA BeginCovers ==
  ASSUME TypeOK, TypeOK', IInv, CoverageInv,
         \/ \E force \in BOOLEAN : WorkerPick(force)
         \/ WorkerBegin \/ WorkerWiden
         \/ InvalidateAll \/ (\E p \in Path : InvalidateOne(p)) \/ InvalidateDone
         \/ MarkInvalidated
  PROVE  CoverageInv'
  <1> USE Fields DEF workerVars, readVars, clientVars, envVars
  <1>1. ASSUME NEW force \in BOOLEAN, WorkerPick(force)
        PROVE  CoverageInv'
    <2>0. pc \notin Running /\ pc' \notin Running
      BY <1>1 DEF WorkerPick, Running, Scanning
    <2>1. CASE force
      BY <1>1, <2>0, <2>1, NoticeCovers, ScopeTypes DEF WorkerPick
    <2>2. CASE ~force
      BY <1>1, <2>0, <2>2, QuietCovers DEF WorkerPick, NoNotice
    <2> QED BY <2>1, <2>2
  <1>2. CASE WorkerBegin
    <2>1. CASE CanBegin(ctl)
      <3>1. /\ pc = "picked" /\ pc' = "begun" /\ UNCHANGED <<rows, ledger, job, recent>>
            /\ ticket'.scope = ctl.pending
        BY <1>2, <2>1 DEF WorkerBegin, NextTicket
      <3>2. ScanInv'
        BY <3>1, OutsideScan DEF CoverageInv, ScanInv, Suppressed, Scans
      <3>3. DarkQueued' /\ LedgerAgrees'
        BY <3>1 DEF CoverageInv, DarkQueued, LedgerAgrees, Shows, Running, Scanning
      <3> QED BY <3>2, <3>3 DEF CoverageInv
    <2>2. CASE ~CanBegin(ctl)
      BY <1>2, <2>2, QuietCovers DEF WorkerBegin, Running, Scanning
    <2> QED BY <2>1, <2>2
  <1>3. CASE WorkerWiden
    <2>1. /\ pc = "begun" /\ pc' = "invalidate" /\ UNCHANGED <<recent, rows, ledger>>
      BY <1>3 DEF WorkerWiden
    <2>2. /\ ctl'.pending = ctl.pending
          /\ \A p \in Path : Covers(ticket.scope, p) => Covers(ticket'.scope, p)
      <3>1. CASE ticket.git /\ Precise
        <4>1. PICK s \in Scope : /\ ticket' = WidenTicket(ticket, s)
                                 /\ ctl' = SetActive(ctl, WidenTicket(ticket, s))
          BY <1>3, <3>1, ScopeTypes DEF WorkerWiden
        <4>2. ticket'.scope = Merge(ticket.scope, s)
          BY <4>1 DEF WidenTicket, TypeOK, Ticket
        <4> QED BY <4>1, <4>2, MergeCovers DEF SetActive, TypeOK, ControllerType
      <3>2. CASE ~(ticket.git /\ Precise)
        BY <1>3, <3>2 DEF WorkerWiden
      <3> QED BY <3>1, <3>2
    <2>3. pc \in Running /\ pc' \in Running \ Scans
      BY <2>1 DEF Running, Scans
    <2> QED BY <2>1, <2>2, <2>3, PreludeCovers
  <1>4. CASE InvalidateAll
    <2>1. /\ pc = "invalidate" /\ pc' = "invalidated"
          /\ UNCHANGED <<ctl, ticket, recent, ledger>>
          /\ \A p \in Path : rows'[p] = [rows[p] EXCEPT !.eligible = FALSE]
      BY <1>4 DEF InvalidateAll, InvalidateRows, TypeOK
    <2>2. \A p \in Path : Covers(ticket.scope, p)
      <3>1. ticket.scope.kind = "full"
        <4>1. /\ ticket.scope # NoScope /\ ticket.scope.kind # "sources"
              /\ ticket.scope \in Scope
          BY <1>4, <2>1 DEF InvalidateAll, Precise, IInv, Revisions, Running
        <4> QED BY <4>1 DEF Scope, Sources, Full
      <3> QED BY <3>1 DEF Covers
    <2>3. pc \in Running /\ pc' \in Running \ Scans
      BY <2>1 DEF Running, Scans
    <2> QED BY <2>1, <2>2, <2>3, PreludeCovers
  <1>5. ASSUME NEW p \in Path, InvalidateOne(p)
        PROVE  CoverageInv'
    <2>1. /\ pc = "invalidate" /\ pc' = pc /\ Covers(ticket.scope, p)
          /\ UNCHANGED <<ctl, ticket, recent, ledger>>
          /\ \A q \in Path : \/ rows'[q] = rows[q]
                             \/ q = p /\ rows'[q] = [rows[q] EXCEPT !.eligible = FALSE]
      BY <1>5 DEF InvalidateOne, InvalidateRow, InScope, TypeOK, Row
    <2>2. pc \in Running /\ pc' \in Running \ Scans
      BY <2>1 DEF Running, Scans
    <2> QED BY <2>1, <2>2, PreludeCovers
  <1>6. CASE InvalidateDone
    <2>1. pc \in Running /\ pc' \in Running \ Scans
      BY <1>6 DEF InvalidateDone, Running, Scans
    <2> QED BY <1>6, <2>1, PreludeCovers DEF InvalidateDone
  <1>7. CASE MarkInvalidated
    <2>1. ctl'.pending = ctl.pending
      BY <1>7 DEF MarkInvalidated, Invalidated, TypeOK, ControllerType
    <2>2. pc \in Running /\ pc' \in Running \ Scans
      BY <1>7 DEF MarkInvalidated, Running, Scanning, Scans
    <2> QED BY <1>7, <2>1, <2>2, PreludeCovers DEF MarkInvalidated
  <1> QED BY <1>1, <1>2, <1>3, <1>4, <1>5, <1>6, <1>7

(* The known sources are listed: everything in the scope is to be read, none *)
(* of it is searchable.                                                      *)
LEMMA ListCovers ==
  ASSUME TypeOK, TypeOK', IInv, CoverageInv, ListExisting
  PROVE  CoverageInv'
  <1> USE DEF envVars
  <1>1. /\ pc = "list" /\ pc' = "discover"
        /\ UNCHANGED <<disk, recent, ctl, ledger, ticket, rd>>
    BY DEF ListExisting, readVars
  <1>2. \A p \in Path : /\ rows'[p].version = rows[p].version
                        /\ p \notin InScope => rows'[p] = rows[p]
                        /\ p \in InScope => ~rows'[p].eligible
                        /\ rows'[p].eligible => rows[p].eligible
    BY DEF ListExisting, InvalidateRow, TypeOK, Row
  <1>3. /\ job'.todo = InScope /\ job'.files = {} /\ job'.seen = {} /\ job'.walkFailed = FALSE
        /\ job'.report.reported = {} /\ job'.report.full = ~Precise
        /\ job'.report.complete = FALSE
        /\ \A p \in InScope : job'.existing[p] = rows[p].version
        /\ \A p \in Path \ InScope : job'.existing[p] = NoVersion
    BY DEF ListExisting, NewJob, NewReport, Versions, TypeOK, InScope
  <1>4. InScope' = InScope /\ Precise' = Precise
    BY <1>1 DEF InScope, Precise
  <1>5. DarkQueued' /\ LedgerAgrees'
    BY <1>1, <1>2, ScopeKeeps DEF Running, Scanning
  <1>6. OwnScope' /\ BufferedOther' /\ Answered' /\ ReportAgrees' /\ PublicationConfirmed'
    <2>1. BufferedOther' /\ ReportAgrees' /\ PublicationConfirmed'
      BY <1>1, <1>3 DEF BufferedOther, ReportAgrees, PublicationConfirmed
    <2>2. OwnScope'
      BY <1>1, <1>3, <1>4 DEF OwnScope, Phase
    <2>3. InScope \subseteq Unread'
      BY <1>1, <1>3 DEF Unread, Phase, InScope
    <2>4. Answered'
      BY <1>4, <2>3 DEF Answered
    <2> QED BY <2>1, <2>2, <2>4
  <1>7. Suppressed'
    <2>1. \A p \in Path : rows'[p].eligible => Present(rows'[p])
      BY <1>2 DEF CoverageInv, ScanInv, Suppressed, Present
    <2>2. Unread' \subseteq InScope /\ Concerned' \subseteq InScope
      BY <1>1, <1>3, <1>4 DEF Unread, Phase, Concerned
    <2>3. InScope \subseteq Path
      BY DEF InScope
    <2> QED BY <1>2, <1>3, <1>4, <2>1, <2>2, <2>3 DEF Suppressed
  <1> QED BY <1>5, <1>6, <1>7 DEF CoverageInv, ScanInv

(* An entry of the report. *)
LEMMA ReportedFields ==
  ASSUME NEW r \in ReportType(Path), NEW p \in Path, NEW o
  PROVE  /\ Reported(r, p, o).reported = r.reported \cup {p}
         /\ Reported(r, p, o).full = r.full /\ Reported(r, p, o).complete = r.complete
         /\ Reported(r, p, o).cancelled = r.cancelled
         /\ Reported(r, p, o).discovery = r.discovery
         /\ \A q \in Path : Reported(r, p, o).outcome[q] = IF q = p THEN o ELSE r.outcome[q]
  BY DEF Reported, ReportType

(* A step of the scan about one path.  What the invariant says of the others *)
(* stands; what it says of this one remains to be shown.                     *)
LEMMA OneCovers ==
  ASSUME TypeOK, TypeOK', CoverageInv, NEW p \in InScope,
         pc \in Scans, pc' \in Scans, UNCHANGED <<ticket, recent>>,
         ctl'.pending = ctl.pending, Trusted(ledger') => Trusted(ledger),
         Current \subseteq {p}, Current' \subseteq {p},
         job'.existing = job.existing, job.seen \subseteq job'.seen,
         job.walkFailed => job'.walkFailed,
         \A q \in Path \ {p} :
             /\ rows'[q] = rows[q] /\ ledger'.sources[q] = ledger.sources[q]
             /\ q \in Unread' <=> q \in Unread
             /\ q \in job'.report.reported <=> q \in job.report.reported
             /\ job'.report.outcome[q] = job.report.outcome[q],
         rows'[p].eligible => Present(rows'[p]) /\ p \in job'.seen /\ p \notin Unread',
         p \in Concerned' => rows'[p].version = job'.existing[p],
         \/ job'.walkFailed \/ p \in Unread' \/ Covers(ctl.pending, p) \/ Shows(p)'
         \/ IF p \in Current' THEN job'.outcome.errors
            ELSE p \in job'.report.reported /\ job'.report.outcome[p].errors,
         p \in job'.report.reported \ Current' => Agrees(job'.report.outcome[p], rows'[p]),
         pc' = "publish" => Agrees(job'.outcome, rows'[p]),
         OwnScope', BufferedOther', PublicationConfirmed'
  PROVE  CoverageInv'
  <1> USE DEF CoverageInv, ScanInv
  <1>0. InScope' = InScope /\ p \in Path /\ InScope \subseteq Path
    BY DEF InScope
  <1>1. DarkQueued' /\ LedgerAgrees'
    BY <1>0, ScopeKeeps DEF Scans, Running, Scanning
  <1>2. Suppressed'
    <2>1. \A q \in Path : rows'[q].eligible => Present(rows'[q])
      BY DEF Suppressed
    <2>2. \A q \in Concerned' \ {p} : q \in Concerned
      BY <1>0 DEF Concerned
    <2>3. \A q \in Concerned' : q \in InScope
      BY <1>0 DEF Concerned
    <2>4. \A q \in Unread : q \in Path
      BY DEF Unread
    <2>5. \A q \in Unread' : q \in Path
      BY DEF Unread
    <2> QED BY <1>0, <2>1, <2>2, <2>3, <2>4, <2>5 DEF Suppressed
  <1>3. Answered'
    <2> SUFFICES ASSUME ~job'.walkFailed, NEW q \in InScope \ Unread', q # p
                 PROVE  \/ Covers(ctl'.pending, q) \/ Shows(q)'
                        \/ IF q \in Current' THEN job'.outcome.errors
                           ELSE q \in job'.report.reported /\ job'.report.outcome[q].errors
      BY <1>0 DEF Answered
    <2>1. q \in InScope \ Unread /\ q \notin Current /\ q \notin Current'
      BY <1>0
    <2>2. Shows(q) => Shows(q)'
      BY <1>0 DEF Shows
    <2> QED BY <1>0, <2>1, <2>2 DEF Answered
  <1>4. ReportAgrees'
    <2>1. \A q \in job'.report.reported \ Current' :
              Agrees(job'.report.outcome[q], rows'[q])
      <3> TAKE q \in job'.report.reported \ Current'
      <3>1. q \in Path
        BY <1>0 DEF OwnScope
      <3> QED BY <3>1 DEF ReportAgrees
    <2>2. pc' = "publish" => job'.path = p
      BY DEF Current
    <2> QED BY <2>1, <2>2 DEF ReportAgrees
  <1> QED BY <1>1, <1>2, <1>3, <1>4

(* Discovery leaves a path unread only if it has held no text. *)
LEMMA DiscoverPathCovers ==
  ASSUME TypeOK, TypeOK', IInv, CoverageInv, NEW p \in Path, DiscoverPath(p)
  PROVE  CoverageInv'
  <1> USE DEF envVars
  <1> DEFINE o == Excluded(FALSE, rows[p].version)
  <1>1. /\ pc = "discover" /\ pc' = "discover" /\ p \in job.todo
        /\ UNCHANGED <<disk, recent, rows, ticket, rd>>
    BY DEF DiscoverPath, readVars
  <1>2. /\ job'.todo = job.todo \ {p} /\ job'.existing = job.existing /\ job'.seen = job.seen
        /\ job'.report.full = job.report.full
        /\ \/ /\ job'.files = job.files \cup {p} /\ job'.walkFailed = job.walkFailed
              /\ job'.report = job.report /\ UNCHANGED <<ctl, ledger>>
           \/ /\ job'.files = job.files /\ job'.walkFailed = job.walkFailed
              /\ job'.report = job.report /\ UNCHANGED <<ctl, ledger>>
              /\ disk[p] = Absent
           \/ /\ job'.files = job.files /\ job'.walkFailed = job.walkFailed
              /\ job'.report = Reported(job.report, p, o) /\ RecordOutcome(p, o)
              /\ disk[p] \in {"link", "escape"}
           \/ /\ job'.files = job.files /\ job'.walkFailed = TRUE /\ UNCHANGED <<ctl, ledger>>
              /\ job'.report.reported = job.report.reported
              /\ job'.report.outcome = job.report.outcome
    <2>1. /\ job \in JobType /\ job.report \in ReportType(Path)
      BY DEF TypeOK, JobType
    <2>2. \/ job' = [job EXCEPT !.todo = @ \ {p}, !.files = @ \cup {p}]
             /\ UNCHANGED <<ctl, ledger>>
          \/ /\ job' = [job EXCEPT !.todo = @ \ {p}] /\ disk[p] = Absent
             /\ UNCHANGED <<ctl, ledger>>
          \/ /\ job' = [job EXCEPT !.todo = @ \ {p}, !.report = Reported(@, p, o)]
             /\ RecordOutcome(p, o) /\ disk[p] \in {"link", "escape"}
          \/ /\ job' = [job EXCEPT !.todo = @ \ {p}, !.walkFailed = TRUE,
                                   !.report.discovery.excluded = @ + 1]
             /\ UNCHANGED <<ctl, ledger>>
      BY <2>1 DEF DiscoverPath, JobType
    <2> HIDE DEF o
    <2>3. Reported(job.report, p, o).full = job.report.full
      BY <2>1, ReportedFields
    <2>4. ASSUME job' = [job EXCEPT !.todo = @ \ {p}, !.walkFailed = TRUE,
                                    !.report.discovery.excluded = @ + 1]
          PROVE  /\ job'.todo = job.todo \ {p} /\ job'.existing = job.existing
                 /\ job'.seen = job.seen /\ job'.files = job.files /\ job'.walkFailed = TRUE
                 /\ job'.report.full = job.report.full
                 /\ job'.report.reported = job.report.reported
                 /\ job'.report.outcome = job.report.outcome
      <3> DEFINE n == job.report.discovery.excluded + 1
      <3>1. job' = [job EXCEPT !.todo = @ \ {p}, !.walkFailed = TRUE,
                               !.report.discovery.excluded = n]
        BY <2>4
      <3> HIDE DEF n
      <3> QED BY <2>1, <3>1 DEF JobType, ReportType
    <2>5. CASE job' = [job EXCEPT !.todo = @ \ {p}, !.files = @ \cup {p}]
               /\ UNCHANGED <<ctl, ledger>>
      BY <2>1, <2>5 DEF JobType
    <2>6. CASE job' = [job EXCEPT !.todo = @ \ {p}] /\ UNCHANGED <<ctl, ledger>>
               /\ disk[p] = Absent
      BY <2>1, <2>6 DEF JobType
    <2>7. CASE /\ job' = [job EXCEPT !.todo = @ \ {p}, !.report = Reported(@, p, o)]
               /\ RecordOutcome(p, o) /\ disk[p] \in {"link", "escape"}
      BY <2>1, <2>3, <2>7 DEF JobType
    <2> QED BY <2>2, <2>4, <2>5, <2>6, <2>7
  <1> HIDE DEF o
  <1>3. /\ Unread' = (job.todo \ {p}) \cup job'.files /\ Unread = job.todo \cup job.files
        /\ Current = {} /\ Current' = {} /\ p \in Unread
    BY <1>1, <1>2 DEF Unread, Phase, Current, TypeOK, JobType
  <1>4. /\ p \in InScope /\ p \notin job.files /\ ~rows[p].eligible
        /\ rows[p].version = job.existing[p]
    <2>1. p \in InScope /\ job.todo \cap job.files = {}
      BY <1>1 DEF CoverageInv, ScanInv, OwnScope, Scans, IInv, Listed, Phase
    <2> QED BY <1>1, <1>3, <2>1 DEF CoverageInv, ScanInv, Suppressed, Scans, IInv, Listed
  <1>5. /\ ctl'.pending = ctl.pending
        /\ Trusted(ledger') => Trusted(ledger)
        /\ \A q \in Path \ {p} : ledger'.sources[q] = ledger.sources[q]
    BY <1>2, RecordedOne
  <1>6. /\ \A q \in Path \ {p} : /\ q \in job'.report.reported <=> q \in job.report.reported
                                 /\ job'.report.outcome[q] = job.report.outcome[q]
        /\ job.report.reported \subseteq job'.report.reported
        /\ job'.report.reported \subseteq job.report.reported \cup {p}
        /\ \/ job'.report.outcome[p] = job.report.outcome[p]
              /\ job'.report.reported = job.report.reported
           \/ job'.report.outcome[p] = o
    BY <1>2, ReportedFields DEF TypeOK, JobType
  <1>7. p \in job'.report.reported => Agrees(job'.report.outcome[p], rows'[p])
    <2>1. Agrees(o, rows[p])
      BY <1>4 DEF o, Excluded, Agrees
    <2> QED BY <1>1, <1>3, <1>6, <2>1 DEF CoverageInv, ScanInv, ReportAgrees, Scans
  <1>8. job'.walkFailed \/ p \in Unread' \/ Shows(p)'
    <2>1. disk[p] \in {Absent, "link", "escape"} => Shows(p)'
      BY <1>1, ReconcileAssumption DEF Shows, IInv, DiskRecent, Absent
    <2> QED BY <1>2, <1>3, <2>1
  <1>9. OwnScope' /\ BufferedOther' /\ PublicationConfirmed'
    <2>1. InScope' = InScope /\ Precise' = Precise
      BY <1>1 DEF InScope, Precise
    <2> QED BY <1>1, <1>2, <1>3, <1>4, <1>6, <2>1
            DEF CoverageInv, ScanInv, OwnScope, BufferedOther, PublicationConfirmed, Scans,
                Phase
  <1>10. \A q \in Path \ {p} :
             /\ rows'[q] = rows[q] /\ ledger'.sources[q] = ledger.sources[q]
             /\ q \in Unread' <=> q \in Unread
             /\ q \in job'.report.reported <=> q \in job.report.reported
             /\ job'.report.outcome[q] = job.report.outcome[q]
    BY <1>1, <1>2, <1>3, <1>5, <1>6
  <1>11. /\ pc \in Scans /\ pc' \in Scans /\ p \in InScope /\ pc' # "publish"
         /\ Current \subseteq {p} /\ Current' \subseteq {p}
         /\ p \notin Current'
         /\ job'.existing = job.existing /\ job.seen \subseteq job'.seen
         /\ job.walkFailed => job'.walkFailed
         /\ ~rows'[p].eligible /\ rows'[p].version = job'.existing[p]
    BY <1>1, <1>2, <1>3, <1>4 DEF Scans
  <1> QED BY <1>1, <1>5, <1>7, <1>8, <1>9, <1>10, <1>11, OneCovers

(* A step of the scan that is about no path. *)
LEMMA StillCovers ==
  ASSUME TypeOK, CoverageInv, pc \in Scans \ {"publish"}, pc' \in Scans \ {"publish"},
         UNCHANGED <<rows, ctl, ledger, ticket, recent>>, Unread' = Unread,
         job'.existing = job.existing, job'.seen = job.seen,
         job.walkFailed => job'.walkFailed,
         job'.report.reported = job.report.reported, job'.report.outcome = job.report.outcome,
         OwnScope', BufferedOther'
  PROVE  CoverageInv'
  <1> USE DEF CoverageInv, ScanInv
  <1>0. InScope' = InScope /\ Current' = {} /\ Current = {}
    BY DEF InScope, Current
  <1>1. DarkQueued' /\ LedgerAgrees'
    BY ScopeKeeps DEF Scans, Running, Scanning
  <1>2. Suppressed'
    BY <1>0 DEF Suppressed, Concerned
  <1>3. Answered'
    BY <1>0 DEF Answered, Shows
  <1>4. ReportAgrees' /\ PublicationConfirmed'
    BY <1>0 DEF ReportAgrees, PublicationConfirmed
  <1> QED BY <1>1, <1>2, <1>3, <1>4

(* A walk that fails vouches for nothing. *)
LEMMA WalkFailsCovers ==
  ASSUME TypeOK, TypeOK', IInv, CoverageInv, NEW p \in Path, WalkFails(p)
  PROVE  CoverageInv'
  <1> USE DEF envVars
  <1>1. /\ pc = "discover" /\ pc' = "discover" /\ p \in job.todo
        /\ UNCHANGED <<recent, rows, ctl, ledger, ticket>>
    BY DEF WalkFails
  <1>2. /\ job'.todo = job.todo \ {p} /\ job'.files = job.files
        /\ job'.existing = job.existing /\ job'.seen = job.seen
        /\ job'.walkFailed = TRUE /\ job'.report.full = job.report.full
        /\ job'.report.reported = job.report.reported
        /\ job'.report.outcome = job.report.outcome
    <2> DEFINE n == job.report.discovery.errors + 1
    <2>1. job' = [job EXCEPT !.todo = @ \ {p}, !.walkFailed = TRUE,
                             !.report.discovery.errors = n]
      BY DEF WalkFails
    <2>2. job \in JobType
      BY DEF TypeOK
    <2> HIDE DEF n
    <2> QED BY <2>1, <2>2 DEF JobType, ReportType
  <1>3. /\ Unread' = (job.todo \ {p}) \cup job.files /\ Unread = job.todo \cup job.files
        /\ Current = {} /\ Current' = {} /\ p \in Unread
    BY <1>1, <1>2 DEF Unread, Phase, Current, TypeOK, JobType
  <1>4. /\ p \in InScope /\ p \notin job.files /\ ~rows[p].eligible
        /\ rows[p].version = job.existing[p]
    <2>1. p \in InScope /\ job.todo \cap job.files = {}
      BY <1>1 DEF CoverageInv, ScanInv, OwnScope, Scans, IInv, Listed, Phase
    <2> QED BY <1>1, <1>3, <2>1 DEF CoverageInv, ScanInv, Suppressed, Scans, IInv, Listed
  <1>5. OwnScope' /\ BufferedOther' /\ PublicationConfirmed'
    <2>1. InScope' = InScope /\ Precise' = Precise
      BY <1>1 DEF InScope, Precise
    <2> QED BY <1>1, <1>2, <1>3, <1>4, <2>1
            DEF CoverageInv, ScanInv, OwnScope, BufferedOther, PublicationConfirmed, Scans,
                Phase
  <1>6. p \in job'.report.reported => Agrees(job'.report.outcome[p], rows'[p])
    BY <1>1, <1>2, <1>3 DEF CoverageInv, ScanInv, ReportAgrees, Scans
  <1>7. \A q \in Path \ {p} :
             /\ rows'[q] = rows[q] /\ ledger'.sources[q] = ledger.sources[q]
             /\ q \in Unread' <=> q \in Unread
             /\ q \in job'.report.reported <=> q \in job.report.reported
             /\ job'.report.outcome[q] = job.report.outcome[q]
    BY <1>1, <1>2, <1>3
  <1>8. /\ pc \in Scans /\ pc' \in Scans /\ p \in InScope /\ pc' # "publish"
        /\ Current \subseteq {p} /\ Current' \subseteq {p} /\ p \notin Current'
        /\ job'.existing = job.existing /\ job.seen \subseteq job'.seen
        /\ job'.walkFailed
        /\ ~rows'[p].eligible /\ rows'[p].version = job'.existing[p]
    BY <1>1, <1>2, <1>3, <1>4 DEF Scans
  <1> QED BY <1>1, <1>5, <1>6, <1>7, <1>8, OneCovers

(* A path that cannot be examined loses its row and has an error to publish. *)
LEMMA StatFailsCovers ==
  ASSUME TypeOK, TypeOK', IInv, CoverageInv, NEW p \in Path, StatFails(p)
  PROVE  CoverageInv'
  <1> USE DEF envVars
  <1>1. /\ pc = "discover" /\ pc' = "publish" /\ p \in job.todo
        /\ UNCHANGED <<recent, ctl, ledger, ticket>>
    BY DEF StatFails
  <1>2. /\ job'.todo = job.todo \ {p} /\ job'.files = job.files /\ job'.path = p
        /\ job'.existing = job.existing /\ job'.seen = job.seen \cup {p}
        /\ job'.walkFailed = job.walkFailed /\ job'.report = job.report
        /\ job'.got = "failed" /\ job'.back = "discover"
        /\ job'.outcome = Rejected(rows'[p].version)
    BY DEF StatFails, TypeOK, JobType
  <1>3. /\ Unread' = (job.todo \ {p}) \cup job.files /\ Unread = job.todo \cup job.files
        /\ Current = {} /\ Current' = {p} /\ p \in Unread
    BY <1>1, <1>2 DEF Unread, Phase, Current, TypeOK, JobType
  <1>4. p \in InScope /\ p \notin job.files /\ ~rows[p].eligible
    <2>1. p \in InScope /\ job.todo \cap job.files = {}
      BY <1>1 DEF CoverageInv, ScanInv, OwnScope, Scans, IInv, Listed, Phase
    <2> QED BY <1>1, <1>3, <2>1 DEF CoverageInv, ScanInv, Suppressed, Scans
  <1>5. ~rows'[p].eligible /\ \A q \in Path \ {p} : rows'[q] = rows[q]
    BY <1>4 DEF StatFails, RemoveRow, NoRow, TypeOK
  <1>6. OwnScope' /\ BufferedOther'
    <2>1. InScope' = InScope /\ Precise' = Precise
      BY <1>1 DEF InScope, Precise
    <2> QED BY <1>1, <1>2, <1>3, <1>4, <2>1
            DEF CoverageInv, ScanInv, OwnScope, BufferedOther, Scans, Phase
  <1>7. PublicationConfirmed'
    <2>1. job'.outcome # NoOutcome
      BY <1>2 DEF Rejected, NoOutcome
    <2>2. job'.got \notin Version
      BY <1>2, ReconcileAssumption
    <2> QED BY <1>2, <1>5, <2>1, <2>2 DEF PublicationConfirmed, Confirmed, ConfirmsPublication
  <1>8. Agrees(job'.outcome, rows'[p]) /\ job'.outcome.errors
    BY <1>2, <1>5 DEF Agrees, Rejected
  <1>9. \A q \in Path \ {p} :
             /\ rows'[q] = rows[q] /\ ledger'.sources[q] = ledger.sources[q]
             /\ q \in Unread' <=> q \in Unread
             /\ q \in job'.report.reported <=> q \in job.report.reported
             /\ job'.report.outcome[q] = job.report.outcome[q]
    BY <1>1, <1>2, <1>3, <1>5
  <1>10. /\ pc \in Scans /\ pc' \in Scans /\ p \in InScope
         /\ Current \subseteq {p} /\ Current' \subseteq {p} /\ p \in Current'
         /\ p \notin Concerned'
         /\ job'.existing = job.existing /\ job.seen \subseteq job'.seen
         /\ job.walkFailed => job'.walkFailed
    BY <1>1, <1>2, <1>3, <1>4 DEF Scans, Concerned
  <1> QED BY <1>1, <1>5, <1>6, <1>7, <1>8, <1>9, <1>10, OneCovers

(* Discovery ends, a file is read, or the files are done with. *)
LEMMA ReadCovers ==
  ASSUME TypeOK, TypeOK', IInv, CoverageInv,
         \/ DiscoverDone \/ ScanDone
         \/ \E p \in Path : ReadSource(p) \/ ReadFails(p)
  PROVE  CoverageInv'
  <1> USE DEF envVars
  <1>0. job \in JobType /\ job.report \in ReportType(Path)
    BY DEF TypeOK, JobType
  <1>1. CASE DiscoverDone
    <2>1. /\ pc = "discover" /\ pc' = "scan" /\ job.todo = {}
          /\ UNCHANGED <<rows, recent, ctl, ledger, ticket>>
      BY <1>1 DEF DiscoverDone
    <2>2. /\ job'.todo = job.files /\ job'.files = job.files /\ job'.existing = job.existing
          /\ job'.seen = job.seen /\ job'.walkFailed = job.walkFailed
          /\ job'.report.reported = job.report.reported
          /\ job'.report.outcome = job.report.outcome
          /\ job'.report.full = job.report.full /\ job'.report.complete = ~job.walkFailed
      BY <1>0, <1>1 DEF DiscoverDone, JobType, ReportType
    <2>3. Unread' = Unread
      BY <1>0, <2>1, <2>2 DEF Unread, Phase, JobType
    <2>4. OwnScope' /\ BufferedOther'
      BY <2>1, <2>2 DEF CoverageInv, ScanInv, OwnScope, BufferedOther, Scans, Phase, InScope,
         Precise, Current
    <2>5. pc \in Scans \ {"publish"} /\ pc' \in Scans \ {"publish"}
      BY <2>1 DEF Scans
    <2> QED BY <2>1, <2>2, <2>3, <2>4, <2>5, StillCovers
  <1>2. CASE ScanDone
    <2>1. /\ pc = "scan" /\ pc' = "remove" /\ job.todo = {} /\ job' = job
          /\ UNCHANGED <<rows, recent, ctl, ledger, ticket>>
      BY <1>2 DEF ScanDone
    <2>2. Unread' = Unread
      BY <2>1 DEF Unread, Phase
    <2>3. OwnScope' /\ BufferedOther'
      BY <2>1 DEF CoverageInv, ScanInv, OwnScope, BufferedOther, Scans, Phase, InScope,
         Precise, Current
    <2>4. pc \in Scans \ {"publish"} /\ pc' \in Scans \ {"publish"}
      BY <2>1 DEF Scans
    <2> QED BY <2>1, <2>2, <2>3, <2>4, StillCovers
  <1>3. ASSUME NEW p \in Path, ReadSource(p) \/ ReadFails(p)
        PROVE  CoverageInv'
    <2>1. /\ pc = "scan" /\ pc' = "commit" /\ p \in job.todo
          /\ UNCHANGED <<rows, recent, ctl, ledger, ticket>>
      BY <1>3 DEF ReadSource, ReadFails
    <2>2. /\ job'.todo = job.todo \ {p} /\ job'.path = p /\ job'.files = job.files
          /\ job'.existing = job.existing
          /\ job'.seen = job.seen /\ job'.walkFailed = job.walkFailed
          /\ job'.report = job.report
          /\ job'.got = "failed" \/ (IsFile(disk[p]) /\ job'.got = disk[p])
      BY <1>0, <1>3 DEF ReadSource, ReadFails, JobType
    <2>3. Unread' = Unread
      BY <1>0, <2>1, <2>2 DEF Unread, Phase, JobType
    <2>4. OwnScope'
      BY <2>1, <2>2 DEF CoverageInv, ScanInv, OwnScope, Scans, Phase, InScope,
         Precise, Current
    <2>5. BufferedOther'
      <3>1. disk[p] \in recent[p]
        BY DEF IInv, DiskRecent
      <3> QED BY <2>1, <2>2, <3>1, ReconcileAssumption DEF BufferedOther, IsFile
    <2>6. pc \in Scans \ {"publish"} /\ pc' \in Scans \ {"publish"}
      BY <2>1 DEF Scans
    <2> QED BY <2>1, <2>2, <2>3, <2>4, <2>5, <2>6, StillCovers
  <1> QED BY <1>1, <1>2, <1>3

(* A source's transaction and the outcome it leads to agree. *)
LEMMA CommitCovers ==
  ASSUME TypeOK, TypeOK', IInv, CoverageInv, CommitSource \/ CommitUncached
  PROVE  CoverageInv'
  <1> USE DEF envVars
  <1>p. PICK p \in Path : p = job.path
    BY DEF TypeOK, JobType
  <1> DEFINE old == job.existing[p]
  <1>0. /\ job \in JobType /\ rows[p] \in Row
        /\ \A q \in Path : q \in DOMAIN rows
    BY DEF TypeOK, JobType
  <1>1. PICK r, b : CommitTo(r, b)
    BY DEF CommitSource, CommitUncached
  <1>r. /\ job.got = "failed" => rows' = rows
        /\ job.got \in {"binary", "garbled"} =>
              rows' = IF old # NoVersion THEN RemoveRow(rows, p) ELSE rows
        /\ job.got \in Version =>
              rows' = IF old = job.got THEN VerifyRow(rows, p) ELSE ReplaceRow(rows, p, job.got)
    <2>1. job.got = "failed" => job.got \notin Version /\ job.got \notin {"binary", "garbled"}
      BY ReconcileAssumption
    <2>2. job.got \in Version => job.got \notin {"binary", "garbled"}
      BY ReconcileAssumption
    <2> QED BY <1>p, <2>1, <2>2 DEF CommitSource, CommitUncached, CommitTo
  <1>2. /\ pc = "commit" /\ pc' = "publish"
        /\ UNCHANGED <<recent, ctl, ledger, ticket>>
        /\ job'.back = "scan" /\ job'.todo = job.todo /\ job'.existing = job.existing
        /\ job'.path = p /\ job'.files = job.files /\ job'.walkFailed = job.walkFailed
        /\ job'.report = job.report /\ job'.got = job.got
        /\ job'.seen = IF job.got = "failed" THEN job.seen ELSE job.seen \cup {p}
    BY <1>p, <1>0, <1>1 DEF CommitSource, CommitUncached, CommitTo, JobType
  <1>3. /\ job.got = "failed" => job'.outcome = Rejected(rows'[p].version)
        /\ job.got = "binary" => job'.outcome = Excluded(FALSE, rows'[p].version)
        /\ job.got = "garbled" => job'.outcome = Excluded(TRUE, rows'[p].version)
        /\ job.got \in Version => job'.outcome = Indexed(rows'[p].version, b)
    BY <1>p, <1>0, <1>1, ReconcileAssumption DEF CommitTo, JobType
  <1>4. job.got \in Version \cup {"failed", "binary", "garbled"}
    BY <1>2 DEF CoverageInv, ScanInv, BufferedOther
  <1> HIDE DEF old
  <1>5. /\ Unread' = job.todo /\ Unread = job.todo \cup {p} /\ p \notin job.todo
        /\ Current = {} /\ Current' = {p} /\ p \in InScope
    <2>1. p \notin job.todo /\ p \in InScope
      BY <1>p, <1>2 DEF IInv, Listed, Phase, CoverageInv, ScanInv, OwnScope, Scans
    <2> QED BY <1>p, <1>0, <1>2, <2>1 DEF Unread, Phase, Current, JobType
  <1>6. ~rows[p].eligible /\ rows[p].version = old
    BY <1>0, <1>2, <1>5 DEF CoverageInv, ScanInv, Suppressed, Scans, IInv, Listed, old
  <1>7. /\ \A q \in Path \ {p} : rows'[q] = rows[q]
        /\ job.got \in Version => rows'[p].eligible /\ rows'[p].version = job.got
        /\ job.got \notin Version => ~rows'[p].eligible
    <2>1. \A q \in Path \ {p} : rows'[q] = rows[q]
      BY <1>0, <1>r, <1>4 DEF VerifyRow, ReplaceRow, RemoveRow, TypeOK
    <2>2. ASSUME job.got \in Version
          PROVE  rows'[p].eligible /\ rows'[p].version = job.got
      <3>1. job.got # NoVersion
        BY <2>2, RowsAssumption
      <3>2. CASE old = job.got
        BY <1>0, <1>r, <1>6, <2>2, <3>1, <3>2 DEF VerifyRow, Present, Row, old
      <3>3. CASE old # job.got
        BY <1>0, <1>r, <2>2, <3>3 DEF ReplaceRow, old
      <3> QED BY <3>2, <3>3
    <2>3. job.got \notin Version => ~rows'[p].eligible
      BY <1>0, <1>r, <1>4, <1>6 DEF RemoveRow, NoRow, old
    <2> QED BY <2>1, <2>2, <2>3
  <1>8. Agrees(job'.outcome, rows'[p])
    BY <1>3, <1>4, <1>7 DEF Agrees, Rejected, Excluded, Indexed
  <1>9. job'.outcome.errors \/ Covers(ctl.pending, p) \/ Shows(p)'
    <2>1. CASE job.got \in Version
      BY <1>7, <2>1 DEF Shows
    <2>2. CASE job.got \in {"failed", "garbled"}
      BY <1>3, <2>2 DEF Rejected, Excluded
    <2>3. CASE job.got = "binary"
      BY <1>p, <1>2, <2>3, ReconcileAssumption DEF CoverageInv, ScanInv, BufferedOther, Shows
    <2> QED BY <1>4, <2>1, <2>2, <2>3
  <1>10. OwnScope' /\ BufferedOther'
    <2>1. InScope' = InScope /\ Precise' = Precise
      BY <1>2 DEF InScope, Precise
    <2> QED BY <1>2, <1>5, <2>1
            DEF CoverageInv, ScanInv, OwnScope, BufferedOther, Scans, Phase
  <1>11. PublicationConfirmed'
    <2>1. job'.outcome # NoOutcome
      BY <1>3, <1>4 DEF Rejected, Excluded, Indexed, NoOutcome
    <2> QED BY <1>2, <1>7, <2>1, RowsAssumption
            DEF PublicationConfirmed, Confirmed, ConfirmsPublication
  <1>12. rows'[p].eligible => Present(rows'[p]) /\ p \in job'.seen /\ p \notin Unread'
    BY <1>2, <1>5, <1>7, RowsAssumption, ReconcileAssumption DEF Present
  <1>13. \A q \in Path \ {p} :
             /\ rows'[q] = rows[q] /\ ledger'.sources[q] = ledger.sources[q]
             /\ q \in Unread' <=> q \in Unread
             /\ q \in job'.report.reported <=> q \in job.report.reported
             /\ job'.report.outcome[q] = job.report.outcome[q]
    BY <1>2, <1>5, <1>7
  <1>14. /\ pc \in Scans /\ pc' \in Scans /\ p \in InScope
         /\ Current \subseteq {p} /\ Current' \subseteq {p} /\ p \in Current'
         /\ p \notin Concerned'
         /\ job'.existing = job.existing /\ job.seen \subseteq job'.seen
         /\ job.walkFailed => job'.walkFailed
    BY <1>2, <1>5 DEF Scans, Concerned
  <1> QED BY <1>2, <1>8, <1>9, <1>10, <1>11, <1>12, <1>13, <1>14, OneCovers

(* The outcome in hand becomes the report's and the ledger's. *)
LEMMA PublishCovers ==
  ASSUME TypeOK, TypeOK', IInv, CoverageInv, PublishSource
  PROVE  CoverageInv'
  <1> USE DEF envVars
  <1>p. PICK p \in Path : p = job.path
    BY DEF TypeOK, JobType
  <1>0. /\ job \in JobType /\ job.report \in ReportType(Path)
        /\ job.back \in {"discover", "scan", "remove"}
    BY DEF TypeOK, JobType
  <1>1. /\ pc = "publish" /\ pc' = job.back
        /\ UNCHANGED <<rows, recent, ticket>> /\ RecordOutcome(p, job.outcome)
    BY <1>p DEF PublishSource
  <1>2. /\ job'.todo = job.todo /\ job'.files = job.files /\ job'.existing = job.existing
        /\ job'.back = job.back /\ job'.seen = job.seen /\ job'.walkFailed = job.walkFailed
        /\ job'.report = Reported(job.report, p, job.outcome)
    BY <1>p, <1>0 DEF PublishSource, JobType
  <1>3. /\ job'.report.reported = job.report.reported \cup {p}
        /\ job'.report.full = job.report.full /\ job'.report.complete = job.report.complete
        /\ \A q \in Path : job'.report.outcome[q] =
                               IF q = p THEN job.outcome ELSE job.report.outcome[q]
    BY <1>0, <1>2, ReportedFields
  <1>4. /\ ctl'.pending = ctl.pending
        /\ Trusted(ledger') => Trusted(ledger)
        /\ \A q \in Path \ {p} : ledger'.sources[q] = ledger.sources[q]
    BY <1>1, RecordedOne
  <1>5. Current = {p} /\ Current' = {} /\ Unread' = Unread /\ Phase' = Phase
    BY <1>p, <1>0, <1>1, <1>2 DEF Current, Unread, Phase
  <1>6. /\ p \in InScope
        /\ rows[p].eligible => Present(rows[p]) /\ p \in job.seen
        /\ p \in Unread => ~rows[p].eligible
    BY <1>p, <1>1 DEF CoverageInv, ScanInv, OwnScope, Suppressed, Scans
  <1>7. job'.walkFailed \/ p \in Unread' \/ Covers(ctl.pending, p) \/ Shows(p)'
          \/ job'.report.outcome[p].errors
    BY <1>1, <1>2, <1>3, <1>5, <1>6 DEF CoverageInv, ScanInv, Answered, Shows, Scans
  <1>8. Agrees(job'.report.outcome[p], rows'[p])
    BY <1>p, <1>1, <1>3 DEF CoverageInv, ScanInv, ReportAgrees
  <1>9. OwnScope' /\ BufferedOther' /\ PublicationConfirmed'
    <2>1. InScope' = InScope /\ Precise' = Precise
      BY <1>1 DEF InScope, Precise
    <2> QED BY <1>0, <1>1, <1>2, <1>3, <1>5, <1>6, <2>1
            DEF CoverageInv, ScanInv, OwnScope, BufferedOther, PublicationConfirmed, Scans
  <1>10. \A q \in Path \ {p} :
             /\ rows'[q] = rows[q] /\ ledger'.sources[q] = ledger.sources[q]
             /\ q \in Unread' <=> q \in Unread
             /\ q \in job'.report.reported <=> q \in job.report.reported
             /\ job'.report.outcome[q] = job.report.outcome[q]
    BY <1>1, <1>3, <1>4, <1>5
  <1>11. /\ pc \in Scans /\ pc' \in Scans /\ p \in InScope /\ pc' # "publish"
         /\ Current \subseteq {p} /\ Current' \subseteq {p} /\ p \notin Current'
         /\ p \in job'.report.reported /\ p \notin Concerned'
         /\ job'.existing = job.existing /\ job.seen \subseteq job'.seen
         /\ job.walkFailed => job'.walkFailed
         /\ rows'[p].eligible => Present(rows'[p]) /\ p \in job'.seen /\ p \notin Unread'
    BY <1>0, <1>1, <1>2, <1>3, <1>5, <1>6 DEF Scans, Concerned
  <1> QED BY <1>1, <1>4, <1>7, <1>8, <1>9, <1>10, <1>11, OneCovers

(* A known source that was not seen again loses its row, and a path of a     *)
(* precise scope that came to nothing has none.                              *)
LEMMA RemoveCovers ==
  ASSUME TypeOK, TypeOK', IInv, CoverageInv, NEW p \in Path,
         RemoveUnseen(p) \/ RemoveUnreported(p)
  PROVE  CoverageInv'
  <1> USE DEF envVars
  <1>0. job \in JobType /\ rows \in [Path -> Row]
    BY DEF TypeOK
  <1>1. /\ pc = "remove" /\ pc' \in {"remove", "publish"} /\ ~job.walkFailed
        /\ UNCHANGED <<recent, ctl, ledger, ticket>>
        /\ p \in job.report.reported \/ pc' = "publish"
        /\ p \in job.report.reported => pc' = "remove"
    BY DEF RemoveUnseen, RemoveUnreported
  <1>2. /\ job'.todo = job.todo /\ job'.files = job.files /\ job'.existing = job.existing
        /\ job'.path = p /\ job'.back = "remove" /\ job'.outcome = NoOutcome
        /\ job'.walkFailed = job.walkFailed /\ job'.report = job.report
        /\ job'.seen = job.seen \/ job'.seen = job.seen \cup {p}
        /\ pc' = "remove" => job'.seen = job.seen \cup {p}
    BY <1>0, <1>1 DEF RemoveUnseen, RemoveUnreported, JobType
  <1>3. /\ Current = {} /\ Current' = (IF p \in job.report.reported THEN {} ELSE {p})
        /\ Unread = {} /\ Unread' = {}
    BY <1>1, <1>2 DEF Current, Unread, Phase
  <1>4. p \in InScope /\ p \notin job.seen /\ ~rows[p].eligible
    <2>1. p \in InScope /\ p \notin job.seen
      <3>1. CASE RemoveUnseen(p)
        BY <1>1, <3>1 DEF RemoveUnseen, Unseen, CoverageInv, ScanInv, OwnScope, Scans
      <3>2. CASE RemoveUnreported(p)
        BY <1>1, <1>3, <3>2 DEF RemoveUnreported, CoverageInv, ScanInv, OwnScope, Scans
      <3> QED BY <3>1, <3>2
    <2> QED BY <1>1, <2>1 DEF CoverageInv, ScanInv, Suppressed, Scans
  <1>5. /\ \A q \in Path \ {p} : rows'[q] = rows[q]
        /\ ~rows'[p].eligible /\ ~Present(rows'[p])
    <2>1. CASE RemoveUnseen(p)
      BY <1>0, <2>1 DEF RemoveUnseen, RemoveRow, NoRow, Present
    <2>2. CASE RemoveUnreported(p)
      <3>1. p \in Concerned /\ job.existing[p] = NoVersion /\ rows' = rows
        BY <1>1, <1>3, <1>4, <2>2 DEF RemoveUnreported, Concerned, Unseen
      <3> QED BY <1>1, <1>4, <3>1 DEF CoverageInv, ScanInv, Suppressed, Scans, Present
    <2> QED BY <2>1, <2>2
  <1>6. \/ Covers(ctl.pending, p) \/ Shows(p)'
        \/ p \in job.report.reported /\ job.report.outcome[p].errors
    BY <1>1, <1>3, <1>4 DEF CoverageInv, ScanInv, Answered, Shows, Scans
  <1>7. p \in job.report.reported => Agrees(job.report.outcome[p], rows'[p])
    BY <1>1, <1>3, <1>4, <1>5 DEF CoverageInv, ScanInv, ReportAgrees, Agrees, Scans
  <1>8. Agrees(job'.outcome, rows'[p])
    BY <1>2, <1>5 DEF Agrees, NoOutcome
  <1>9. OwnScope' /\ BufferedOther'
    <2>1. InScope' = InScope /\ Precise' = Precise
      BY <1>1 DEF InScope, Precise
    <2> QED BY <1>1, <1>2, <1>3, <1>4, <2>1
            DEF CoverageInv, ScanInv, OwnScope, BufferedOther, Scans, Phase
  <1>10. PublicationConfirmed'
    BY <1>2, <1>5 DEF PublicationConfirmed, Confirmed, ConfirmsRemoval
  <1>11. \A q \in Path \ {p} :
             /\ rows'[q] = rows[q] /\ ledger'.sources[q] = ledger.sources[q]
             /\ q \in Unread' <=> q \in Unread
             /\ q \in job'.report.reported <=> q \in job.report.reported
             /\ job'.report.outcome[q] = job.report.outcome[q]
    BY <1>1, <1>2, <1>3, <1>5
  <1>12. /\ pc \in Scans /\ pc' \in Scans /\ p \in InScope
         /\ Current \subseteq {p} /\ Current' \subseteq {p}
         /\ p \notin Concerned'
         /\ p \in Current' => p \notin job'.report.reported
         /\ p \notin Current' => p \in job'.report.reported
         /\ job'.existing = job.existing /\ job.seen \subseteq job'.seen
         /\ job.walkFailed => job'.walkFailed
    BY <1>1, <1>2, <1>3, <1>4 DEF Scans, Concerned
  <1>13. \/ Covers(ctl.pending, p) \/ Shows(p)'
         \/ IF p \in Current' THEN job'.outcome.errors
            ELSE p \in job'.report.reported /\ job'.report.outcome[p].errors
    BY <1>2, <1>6, <1>12
  <1> QED BY <1>1, <1>2, <1>5, <1>7, <1>8, <1>9, <1>10, <1>11, <1>12, <1>13, OneCovers

(* What the report of a finished run does to the ledger. *)
LEMMA AppliedReport ==
  ASSUME NEW l \in LedgerType(Path), NEW r \in ReportType(Path)
  PROVE  /\ \A p \in Path : ApplyReport(l, r).sources[p] =
                IF p \in r.reported THEN r.outcome[p]
                ELSE IF r.full /\ Completed(r) THEN NoOutcome ELSE l.sources[p]
         /\ Trusted(ApplyReport(l, r)) =>
                /\ r.complete
                /\ r.full => Completed(r)
                /\ ~r.full => Trusted(l)
  <1> DEFINE marked == [l EXCEPT
                 !.unfinishedSources = @ \cup r.scope,
                 !.reconstructed = @ /\ ~(r.full /\ ~Completed(r)),
                 !.discoveryUncertain = ~r.complete \/ (@ /\ ~(r.full /\ ~r.cancelled))]
             kept == IF r.full /\ Completed(r) THEN Retain(marked, r.reported) ELSE marked
             published == PublishAll(kept, r.reported, r.outcome)
  <1>1. /\ marked \in LedgerType(Path) /\ marked.sources = l.sources
        /\ marked.scanFailed = l.scanFailed
        /\ marked.reconstructed = (l.reconstructed /\ ~(r.full /\ ~Completed(r)))
        /\ marked.discoveryUncertain =
              (~r.complete \/ (l.discoveryUncertain /\ ~(r.full /\ ~r.cancelled)))
    BY DEF LedgerType, ReportType, Completed
  <1>2. r.reported \in SUBSET Path
    BY DEF ReportType
  <1>3. /\ kept \in LedgerType(Path)
        /\ \A p \in Path \ r.reported :
              kept.sources[p] = IF r.full /\ Completed(r) THEN NoOutcome ELSE l.sources[p]
        /\ kept.discoveryUncertain = marked.discoveryUncertain
        /\ ~(r.full /\ Completed(r)) => kept = marked
    <2> HIDE DEF marked
    <2>1. CASE r.full /\ Completed(r)
      <3>1. kept = Retain(marked, r.reported) /\ kept \in LedgerType(Path)
        BY <1>1, <1>2, <2>1, RetainType
      <3> HIDE DEF kept
      <3>2. \A p \in Path \ r.reported : kept.sources[p] = NoOutcome
        BY <1>1, <3>1 DEF Retain, LedgerType
      <3>3. kept.discoveryUncertain = marked.discoveryUncertain
        BY <1>1, <3>1 DEF Retain, LedgerType
      <3> QED BY <2>1, <3>1, <3>2, <3>3
    <2>2. CASE ~(r.full /\ Completed(r))
      BY <1>1, <2>2
    <2> QED BY <2>1, <2>2
  <1> HIDE DEF marked, kept
  <1>4. /\ \A p \in Path : published.sources[p] =
              IF p \in r.reported THEN r.outcome[p] ELSE kept.sources[p]
        /\ published.reconstructed = kept.reconstructed
        /\ published.scanFailed = kept.scanFailed
        /\ published.discoveryUncertain = kept.discoveryUncertain
        /\ DOMAIN published = DOMAIN kept
    BY <1>3 DEF PublishAll, LedgerType
  <1> HIDE DEF published
  <1>5. /\ ApplyReport(l, r).sources = published.sources
        /\ ApplyReport(l, r).reconstructed = published.reconstructed
        /\ ApplyReport(l, r).scanFailed = published.scanFailed
        /\ ApplyReport(l, r).discoveryUncertain = published.discoveryUncertain
    BY <1>3, <1>4 DEF ApplyReport, published, kept, marked, LedgerType
  <1>6. r.full /\ ~Completed(r) => ~kept.reconstructed
    BY <1>1, <1>3
  <1>7. Trusted(ApplyReport(l, r)) = Trusted(kept)
    BY <1>4, <1>5 DEF Trusted
  <1>8. Trusted(kept) => r.complete /\ (r.full => Completed(r))
    BY <1>1, <1>3, <1>6 DEF Trusted
  <1>9. Trusted(kept) /\ ~r.full => Trusted(l)
    BY <1>1, <1>3 DEF Trusted
  <1>10. \A p \in Path : ApplyReport(l, r).sources[p] =
             IF p \in r.reported THEN r.outcome[p]
             ELSE IF r.full /\ Completed(r) THEN NoOutcome ELSE l.sources[p]
    BY <1>3, <1>4, <1>5
  <1> QED BY <1>7, <1>8, <1>9, <1>10

(* Applying a report keeps what discovery counted, or takes it from there. *)
LEMMA AppliedDiscovery ==
  ASSUME NEW l \in LedgerType(Path), NEW r \in ReportType(Path)
  PROVE  /\ ApplyReport(l, r).discovery \in {l.discovery, r.discovery}
         /\ ApplyReport(l, r).scopedDiscovery \in {l.scopedDiscovery, r.discovery, NoCounts}
  <1> DEFINE marked == [l EXCEPT
                 !.unfinishedSources = @ \cup r.scope,
                 !.reconstructed = @ /\ ~(r.full /\ ~Completed(r)),
                 !.discoveryUncertain = ~r.complete \/ (@ /\ ~(r.full /\ ~r.cancelled))]
             kept == IF r.full /\ Completed(r) THEN Retain(marked, r.reported) ELSE marked
             published == PublishAll(kept, r.reported, r.outcome)
  <1>0. r.reported \in SUBSET Path
    BY DEF ReportType
  <1>1. /\ marked \in LedgerType(Path) /\ marked.discovery = l.discovery
        /\ marked.scopedDiscovery = l.scopedDiscovery
    BY DEF LedgerType, ReportType, Completed
  <1> HIDE DEF marked
  <1>2. /\ kept \in LedgerType(Path) /\ kept.discovery = l.discovery
        /\ kept.scopedDiscovery \in {l.scopedDiscovery, NoCounts}
    <2>1. /\ Retain(marked, r.reported).discovery = marked.discovery
          /\ Retain(marked, r.reported).scopedDiscovery = NoCounts
      BY <1>1 DEF Retain, LedgerType
    <2> QED BY <1>0, <1>1, <2>1, RetainType
  <1> HIDE DEF kept
  <1>3. /\ published.discovery = l.discovery
        /\ published.scopedDiscovery \in {l.scopedDiscovery, NoCounts}
        /\ DOMAIN published = DOMAIN kept
    BY <1>2 DEF PublishAll, LedgerType
  <1> HIDE DEF published
  <1> QED BY <1>2, <1>3 DEF ApplyReport, published, kept, marked, LedgerType

(* A run that ends has accounted for its scope, or puts it back. *)
LEMMA EndCovers ==
  ASSUME TypeOK, TypeOK', IInv, CoverageInv, FinishRun \/ FailRun
  PROVE  CoverageInv'
  <1> USE Fields DEF readVars, clientVars, envVars
  <1>1. /\ pc \in Running /\ pc' = "after" /\ UNCHANGED <<recent, rows, ticket>>
        /\ Matches(ctl, ticket)
    BY DEF FinishRun, FailRun, EndRun, Running, Scanning, IInv, Revisions, Matches
  <1>2. ScanInv'
    <2>1. pc' \notin Scans
      BY <1>1 DEF Scans
    <2> QED BY <1>1, <2>1, OutsideScan DEF CoverageInv, ScanInv, Suppressed
  <1>3. pc' \notin Running
    BY <1>1 DEF Running, Scanning
  <1>4. CASE FailRun
    <2>1. ctl' = Finish(ctl, ticket, TRUE, FALSE) /\ ledger' = ApplyError(ledger)
      BY <1>1, <1>4 DEF FailRun, EndRun
    <2>2. ctl'.pending = Queue(ctl.pending, Full)
      BY <2>1 DEF Finish, TypeOK, ControllerType
    <2>3. \A p \in Path : Covers(ctl'.pending, p)
      BY <2>2, QueueCovers, ScopeTypes
    <2>4. ~Trusted(ledger')
      BY <2>1 DEF ApplyError, Trusted, TypeOK, LedgerType
    <2> QED BY <1>2, <2>3, <2>4 DEF CoverageInv, DarkQueued, LedgerAgrees
  <1>5. CASE FinishRun
    <2> DEFINE r == job.report
    <2>0. /\ r \in ReportType(Path) /\ ledger \in LedgerType(Path)
          /\ Completed(r) \in BOOLEAN
      BY DEF TypeOK, JobType, Completed
    <2>1. /\ pc = "remove"
          /\ ctl' = Finish(ctl, ticket, FALSE, Completed(r)) /\ ledger' = ApplyReport(ledger, r)
          /\ job.walkFailed \/ (Precise => InScope \subseteq r.reported)
      BY <1>1, <1>5 DEF FinishRun, EndRun
    <2>2. \A p \in Path :
              /\ Covers(ctl.pending, p) => Covers(ctl'.pending, p)
              /\ ~Completed(r) /\ Covers(ticket.scope, p) => Covers(ctl'.pending, p)
      <3>1. ctl'.pending \in {ctl.pending, Queue(ctl.pending, ticket.scope)}
        BY <2>0, <2>1 DEF Finish, TypeOK, ControllerType
      <3>2. ~Completed(r) => ctl'.pending = Queue(ctl.pending, ticket.scope)
        BY <2>0, <2>1 DEF Finish, TypeOK, ControllerType
      <3> QED BY <3>1, <3>2, QueueCovers
    <2>3. /\ Unread = {} /\ Current = {}
          /\ r.full <=> ~Precise
          /\ r.complete => ~job.walkFailed
          /\ job.seen \subseteq r.reported /\ r.reported \subseteq InScope
      BY <2>1 DEF Unread, Current, Phase, CoverageInv, ScanInv, OwnScope, Scans
    <2>4. r.full => \A p \in Path : Covers(ticket.scope, p)
      <3>1. ticket.scope \in Scope /\ ticket.scope # NoScope
        BY <1>1 DEF IInv, Revisions
      <3> QED BY <2>3, <3>1 DEF Precise, Scope, Sources, Full, Covers
    <2>5. \A p \in Path : p \in InScope <=> Covers(ticket.scope, p)
      BY DEF InScope
    <2> HIDE DEF r
    <2>6. DarkQueued'
      <3> SUFFICES ASSUME NEW p \in Path, ~Covers(ctl'.pending, p), ~Shows(p)
                   PROVE  ledger'.sources[p].errors
        BY <1>1 DEF DarkQueued, Shows
      <3>1. CASE p \in InScope
        <4>1. Completed(r) /\ ~job.walkFailed
          BY <2>2, <2>3, <2>5, <3>1 DEF Completed
        <4>2. p \in r.reported /\ r.outcome[p].errors
          BY <2>1, <2>2, <2>3, <3>1, <4>1 DEF CoverageInv, ScanInv, Answered, Scans, r
        <4> QED BY <2>0, <2>1, <4>2, AppliedReport
      <3>2. CASE p \notin InScope
        <4>1. ledger.sources[p].errors
          BY <2>2, <2>5, <3>2 DEF CoverageInv, DarkQueued
        <4>2. ~r.full /\ p \notin r.reported
          BY <2>3, <2>4, <2>5, <3>2
        <4> QED BY <2>0, <2>1, <4>1, <4>2, AppliedReport
      <3> QED BY <3>1, <3>2
    <2>7. LedgerAgrees'
      <3> SUFFICES ASSUME Trusted(ledger'), NEW p \in Path
                   PROVE  Agrees(ledger'.sources[p], rows[p])
        BY <1>1 DEF LedgerAgrees
      <3>1. /\ r.complete
            /\ r.full => Completed(r)
            /\ ~r.full => Trusted(ledger)
        BY <2>0, <2>1, AppliedReport
      <3>2. CASE p \in r.reported
        <4>1. Agrees(r.outcome[p], rows[p])
          BY <2>1, <2>3, <3>2 DEF CoverageInv, ScanInv, ReportAgrees, Scans, r
        <4> QED BY <2>0, <2>1, <3>2, <4>1, AppliedReport
      <3>3. CASE p \notin r.reported /\ r.full
        <4>1. ~rows[p].eligible
          BY <2>1, <2>3, <2>4, <2>5, <3>3 DEF CoverageInv, ScanInv, Suppressed, Scans
        <4>2. ledger'.sources[p] = NoOutcome
          BY <2>0, <2>1, <3>1, <3>3, AppliedReport
        <4> QED BY <4>1, <4>2 DEF Agrees, NoOutcome
      <3>4. CASE p \notin r.reported /\ ~r.full
        <4>1. p \notin InScope
          BY <2>1, <2>3, <3>1, <3>4
        <4>2. Agrees(ledger.sources[p], rows[p])
          BY <2>5, <3>1, <3>4, <4>1 DEF CoverageInv, LedgerAgrees
        <4> QED BY <2>0, <2>1, <3>4, <4>2, AppliedReport
      <3> QED BY <3>2, <3>3, <3>4
    <2> QED BY <1>2, <2>6, <2>7 DEF CoverageInv
  <1> QED BY <1>4, <1>5

(* At the start nothing is trusted and everything is queued. *)
LEMMA InitCovers == Init => CoverageInv
  <1> SUFFICES ASSUME Init
               PROVE  CoverageInv
    OBVIOUS
  <1>1. /\ pc = "idle" /\ ctl.pending = Full /\ ~Trusted(ledger)
        /\ \A p \in Path : ~rows[p].eligible
    BY DEF Init, NewController, NewLedger, Trusted, NoRow
  <1>2. ScanInv
    BY <1>1 DEF ScanInv, OwnScope, Suppressed, BufferedOther, Answered, ReportAgrees,
       PublicationConfirmed, Scans
  <1> QED BY <1>1, <1>2, ScopeTypes DEF CoverageInv, DarkQueued, LedgerAgrees

(* No step leaves the invariant. *)
LEMMA NextCovers ==
  TypeOK /\ TypeOK' /\ IInv /\ CoverageInv /\ [Next]_vars => CoverageInv'
  <1> SUFFICES ASSUME TypeOK, TypeOK', IInv, CoverageInv, [Next]_vars
               PROVE  CoverageInv'
    OBVIOUS
  <1>1. CASE Environment
    BY <1>1, EnvironmentCovers
  <1>2. CASE Reader
    BY <1>2, ReaderCovers
  <1>3. CASE WorkerAfter \/ WorkerRewatch
    <2>1. pc \notin Running /\ pc' \notin Running
      BY <1>3 DEF WorkerAfter, WorkerRewatch, Running, Scanning
    <2>2. UNCHANGED <<rows, ledger, job, recent>> /\ ctl'.pending = ctl.pending
      BY <1>3, InstallKeeps DEF WorkerAfter, WorkerRewatch, envVars
    <2> QED BY <2>1, <2>2, QuietCovers
  <1>4. CASE Worker
    BY <1>3, <1>4, BeginCovers, ListCovers, DiscoverPathCovers, WalkFailsCovers,
       StatFailsCovers, ReadCovers, CommitCovers, PublishCovers, RemoveCovers, EndCovers
       DEF Worker
  <1>5. CASE UNCHANGED vars
    BY <1>5, QuietCovers DEF vars
  <1> QED BY <1>1, <1>2, <1>4, <1>5 DEF Next

(* Rows, report and ledger account for each other in every execution. *)
THEOREM CoverageInductive == Spec => []CoverageInv
  <1>1. TypeOK /\ TypeOK' /\ IInv /\ CoverageInv /\ [Next]_vars => CoverageInv'
    BY NextCovers
  <1> QED BY <1>1, InitCovers, TypeCorrect, Inductive, PTL DEF Spec

(* The store confirms every outcome the scan wants to publish: no run fails  *)
(* because the row is not what the outcome claims (confirm_publication).     *)
THEOREM StoreConfirms == Spec => []PublicationConfirmed
  <1>1. CoverageInv => PublicationConfirmed
    BY DEF CoverageInv, ScanInv
  <1> QED BY <1>1, CoverageInductive, PTL

(* No observed change is forgotten: a path whose row does not agree with it   *)
(* is queued or in the scope of the run, whatever runs fail in between.       *)
THEOREM ChangesAreKept == Spec => []NothingForgotten
  <1>1. TypeOK /\ IInv /\ CoverageInv => NothingForgotten
    <2> SUFFICES ASSUME TypeOK, IInv, CoverageInv, NEW p \in Path, ~Covers(ctl.pending, p),
                        ~Covers(ctl.active.scope, p)
                 PROVE  RowAgrees(p)
      BY DEF NothingForgotten
    <2>1. ~(pc \in Running /\ Covers(ticket.scope, p))
      BY DEF IInv, Revisions
    <2>2. rows[p].eligible => rows[p].version \in recent[p]
      BY <2>1 DEF IInv, StaleQueued, Running
    <2>3. Shows(p) \/ ledger.sources[p].errors
      BY <2>1 DEF CoverageInv, DarkQueued
    <2> QED BY <2>2, <2>3 DEF RowAgrees, Shows
  <1> QED BY <1>1, TypeCorrect, Inductive, CoverageInductive, PTL

(* A ledger that accounts for everything while nothing is queued or running   *)
(* describes the rows: what is searchable has an outcome of its version, what *)
(* is recorded as indexed can be found.                                       *)
THEOREM LedgerSettles == Spec => []LedgerMatchesRows
  <1>1. TypeOK /\ IInv /\ CoverageInv => LedgerMatchesRows
    <2> SUFFICES ASSUME TypeOK, IInv, CoverageInv, AccountsForAll(ledger), Idle(ctl),
                        NEW p \in Path
                 PROVE  Agrees(ledger.sources[p], rows[p])
      BY DEF LedgerMatchesRows, Agrees
    <2>1. pc \notin Running
      BY DEF Idle, IInv, Revisions, NoTicket
    <2>2. Trusted(ledger)
      BY DEF AccountsForAll, Trusted
    <2> QED BY <2>1, <2>2 DEF CoverageInv, LedgerAgrees
  <1> QED BY <1>1, TypeCorrect, Inductive, CoverageInductive, PTL

(* A Git change is requested, or carried by the run, until a run that        *)
(* carried it completes.                                                     *)
LEMMA NextGit == TypeOK /\ IInv /\ GitNotLost /\ [Next]_vars => GitNotLost'
  <1> SUFFICES ASSUME TypeOK, IInv, GitNotLost, [Next]_vars
               PROVE  GitNotLost'
    OBVIOUS
  <1> USE DEF GitNotLost, envVars, clientVars, workerVars, readVars
  <1>0. /\ ctl \in ControllerType /\ gitOwed \in BOOLEAN
    BY DEF TypeOK
  <1>1. ASSUME ctl'.gitPending = ctl.gitPending, ctl'.active = ctl.active, gitOwed' = gitOwed
        PROVE  GitNotLost'
    BY <1>1
  <1>2. ASSUME NEW s, NEW g, Notice(s, g)
        PROVE  GitNotLost'
    <2>1. /\ ctl'.gitPending = (ctl.gitPending \/ g) /\ ctl'.active = ctl.active
          /\ gitOwed' = (gitOwed \/ g)
      BY <1>0, <1>2 DEF Notice, Observe, ControllerType
    <2> QED BY <2>1
  <1>3. ASSUME InstallWatcher, gitOwed' = gitOwed
        PROVE  GitNotLost'
    BY <1>0, <1>1, <1>3 DEF InstallWatcher, SetWatchError, ControllerType
  <1>4. CASE Environment
    <2>1. CASE WatcherFails
      BY <1>0, <1>1, <2>1 DEF WatcherFails, Observe, SetWatchError, ControllerType
    <2>2. CASE Crash
      BY <2>2 DEF Crash
    <2>3. CASE AttachWatch
      BY <1>3, <2>3 DEF AttachWatch, NoNotice
    <2>4. CASE Attach
      BY <1>1, <1>2, <2>4 DEF Attach, NoNotice
    <2>5. CASE DeliverGit \/ \E p \in Path : \E precise \in BOOLEAN : Deliver(p, precise)
      BY <1>2, <2>5 DEF DeliverGit, Deliver
    <2>6. CASE Detach \/ \E p \in Path : \E x \in Edits : Edit(p, x)
      BY <1>1, <2>6 DEF Detach, Edit, NoNotice
    <2> QED BY <1>4, <2>1, <2>2, <2>3, <2>4, <2>5, <2>6 DEF Environment
  <1>5. CASE Worker
    <2>1. CASE \E force \in BOOLEAN : WorkerPick(force)
      BY <1>1, <1>2, <2>1 DEF WorkerPick, NoNotice
    <2>2. CASE WorkerBegin
      <3>1. CASE CanBegin(ctl)
        <4>1. ctl' = Begin(ctl) /\ gitOwed' = gitOwed /\ ~ctl.active.git
          BY <2>2, <3>1 DEF WorkerBegin, CanBegin, NoTicket
        <4>2. ctl'.active.git = ctl.gitPending
          BY <1>0, <4>1 DEF Begin, NextTicket, ControllerType
        <4> QED BY <4>1, <4>2
      <3>2. CASE ~CanBegin(ctl)
        BY <1>1, <2>2, <3>2 DEF WorkerBegin
      <3> QED BY <3>1, <3>2
    <2>3. CASE WorkerWiden
      <3>1. CASE ticket.git /\ Precise
        <4>1. PICK s : ctl' = SetActive(ctl, WidenTicket(ticket, s))
          BY <2>3, <3>1 DEF WorkerWiden
        <4>2. WidenTicket(ticket, s).git = ticket.git
          BY DEF WidenTicket, TypeOK, Ticket
        <4> HIDE DEF WidenTicket
        <4>3. ctl'.active.git = ticket.git
          BY <1>0, <4>1, <4>2 DEF SetActive, ControllerType
        <4> QED BY <3>1, <4>3
      <3>2. CASE ~(ticket.git /\ Precise)
        BY <1>1, <2>3, <3>2 DEF WorkerWiden
      <3> QED BY <3>1, <3>2
    <2>4. CASE MarkInvalidated
      BY <1>0, <1>1, <2>4 DEF MarkInvalidated, Invalidated, ControllerType
    <2>5. ASSUME NEW p, NEW o, RecordOutcome(p, o), gitOwed' = gitOwed
          PROVE  GitNotLost'
      BY <1>0, <1>1, <2>5 DEF RecordOutcome, Published, ControllerType
    <2>6. CASE FinishRun \/ FailRun
      <3>1. PICK failed \in BOOLEAN, completed \in BOOLEAN : EndRun(failed, completed)
        BY <2>6 DEF FinishRun, FailRun, Completed
      <3>2. pc \in Running
        BY <2>6 DEF FinishRun, FailRun, Running, Scanning
      <3>3. ctl.active = ticket
        BY <3>2 DEF IInv, Revisions
      <3>4. /\ ctl' = Finish(ctl, ticket, failed, completed)
            /\ gitOwed' = (gitOwed /\ ~(completed /\ ticket.git /\ ~ctl.gitPending))
        BY <3>1, <3>3 DEF EndRun, Matches
      <3>5. CASE completed /\ ctl.safe = ticket.observed
        <4>1. ctl'.gitPending = ctl.gitPending
          BY <1>0, <3>4, <3>5 DEF Finish, ControllerType
        <4> QED BY <3>3, <3>4, <3>5, <4>1
      <3>6. CASE ~(completed /\ ctl.safe = ticket.observed)
        <4>1. ctl'.gitPending = (ctl.gitPending \/ ticket.git)
          BY <1>0, <3>4, <3>6 DEF Finish, ControllerType
        <4> QED BY <3>3, <3>4, <4>1
      <3> QED BY <3>5, <3>6
    <2>7. CASE WorkerRewatch
      BY <1>3, <2>7 DEF WorkerRewatch
    <2>8. CASE \/ InvalidateAll \/ (\E p \in Path : InvalidateOne(p)) \/ InvalidateDone
               \/ ListExisting \/ WorkerAfter
      BY <1>1, <2>8 DEF InvalidateAll, InvalidateOne, InvalidateDone, ListExisting, WorkerAfter
    <2>9. CASE \/ \E p \in Path : DiscoverPath(p) \/ WalkFails(p) \/ StatFails(p)
               \/ DiscoverDone \/ PublishSource
      BY <1>1, <2>5, <2>9 DEF DiscoverPath, WalkFails, StatFails, DiscoverDone, PublishSource
    <2>10. CASE CommitSource \/ CommitUncached
      BY <1>1, <2>10 DEF CommitSource, CommitUncached, CommitTo
    <2>11. CASE \/ \E p \in Path : ReadSource(p) \/ ReadFails(p)
                \/ ScanDone
                \/ \E p \in Path : RemoveUnseen(p) \/ RemoveUnreported(p)
      BY <1>1, <2>11 DEF ReadSource, ReadFails, ScanDone, RemoveUnseen, RemoveUnreported
    <2> QED BY <1>5, <2>1, <2>2, <2>3, <2>4, <2>6, <2>7, <2>8, <2>9, <2>10, <2>11 DEF Worker
  <1>6. CASE Reader \/ UNCHANGED vars
    BY <1>1, <1>6 DEF Reader, ReadSnapshot, ReadSearch, ReadRespond, vars
  <1> QED BY <1>4, <1>5, <1>6 DEF Next

(* A Git change stays requested until a run that took it completes, however   *)
(* many runs fail or are cancelled in between.                                *)
THEOREM GitIsKept == Spec => []GitNotLost
  <1>1. Init => GitNotLost
    BY DEF Init, GitNotLost
  <1> QED BY <1>1, NextGit, TypeCorrect, Inductive, PTL DEF Spec

(* Only a run changes the sources table. *)
LEMMA RowsChange ==
  ASSUME [Next]_vars, rows' # rows
  PROVE  pc \in Running
  <1> USE DEF envVars, clientVars, workerVars, readVars
  <1>1. ~Environment
    BY DEF Environment, Edit, Deliver, DeliverGit, WatcherFails, Attach, AttachWatch, Detach,
       Crash
  <1>2. CASE Worker
    <2>1. ~(\/ \E force \in BOOLEAN : WorkerPick(force)
            \/ WorkerBegin \/ WorkerWiden \/ MarkInvalidated)
      BY DEF WorkerPick, WorkerBegin, WorkerWiden, MarkInvalidated
    <2>2. ~(FinishRun \/ FailRun \/ WorkerAfter \/ WorkerRewatch)
      BY DEF FinishRun, FailRun, EndRun, WorkerAfter, WorkerRewatch
    <2>3. CASE \/ InvalidateAll \/ (\E p \in Path : InvalidateOne(p)) \/ InvalidateDone
               \/ ListExisting
      BY <2>3 DEF InvalidateAll, InvalidateOne, InvalidateDone, ListExisting, Running, Scanning
    <2>4. CASE \/ \E p \in Path : DiscoverPath(p) \/ WalkFails(p) \/ StatFails(p)
               \/ DiscoverDone
      BY <2>4 DEF DiscoverPath, WalkFails, StatFails, DiscoverDone, Running, Scanning
    <2>5. CASE CommitSource \/ CommitUncached
      BY <2>5 DEF CommitSource, CommitUncached, Running, Scanning
    <2>6. CASE \/ \E p \in Path : ReadSource(p) \/ ReadFails(p)
               \/ PublishSource \/ ScanDone
               \/ \E p \in Path : RemoveUnseen(p) \/ RemoveUnreported(p)
      BY <2>6 DEF ReadSource, ReadFails, PublishSource, ScanDone, RemoveUnseen,
         RemoveUnreported, Running, Scanning
    <2> QED BY <1>2, <2>1, <2>2, <2>3, <2>4, <2>5, <2>6 DEF Worker
  <1>3. ~(Reader \/ UNCHANGED vars)
    BY DEF Reader, ReadSnapshot, ReadSearch, ReadRespond, vars
  <1> QED BY <1>1, <1>2, <1>3 DEF Next

(* SQLite commits and the ledger's publication are not atomic; whatever       *)
(* changes what a search can return does so under an uncertain status.        *)
THEOREM CommitsUnderRun == Spec => CommitsAreUncertain
  <1>1. TypeOK /\ IInv /\ [Next]_vars =>
          [Searchable(rows') # Searchable(rows) => Snapshot \in {"building", "refreshing"}]_vars
    <2> SUFFICES ASSUME TypeOK, IInv, [Next]_vars, Searchable(rows') # Searchable(rows)
                 PROVE  Snapshot \in {"building", "refreshing"}
      OBVIOUS
    <2>1. rows' # rows
      OBVIOUS
    <2>2. ~Idle(ctl)
      BY <2>1, RowsChange DEF Idle, IInv, Revisions, NoTicket
    <2>3. ledger.reconciled \in BOOLEAN
      BY DEF TypeOK, LedgerType
    <2> QED BY <2>2, <2>3 DEF Snapshot, StatusOf
  <1> QED BY <1>1, TypeCorrect, Inductive, PTL DEF CommitsAreUncertain, Spec

(***************************************************************************)
(* The totals of the ledger.                                               *)
(***************************************************************************)

(* A count over all paths is the count on S and the count beside it. *)
LEMMA CountSplits ==
  ASSUME NEW F \in SUBSET Path, NEW G \in SUBSET Path, NEW S \in SUBSET Path,
         \A p \in Path \ S : p \in F <=> p \in G
  PROVE  /\ Cardinality(G) = Cardinality(F) - Cardinality(F \cap S) + Cardinality(G \cap S)
         /\ Cardinality(F) \in Nat /\ Cardinality(G) \in Nat
         /\ Cardinality(F \cap S) \in Nat /\ Cardinality(G \cap S) \in Nat
  <1>1. IsFiniteSet(F) /\ IsFiniteSet(G)
    BY ScopesAssumption, FS_Subset
  <1>2. /\ Cardinality(F \ S) = Cardinality(F) - Cardinality(F \cap S)
        /\ Cardinality(G \ S) = Cardinality(G) - Cardinality(G \cap S)
    BY <1>1, FS_Difference
  <1>3. IsFiniteSet(F \cap S) /\ IsFiniteSet(G \cap S)
    <2>1. F \cap S \in SUBSET Path /\ G \cap S \in SUBSET Path
      OBVIOUS
    <2> QED BY <2>1, ScopesAssumption, FS_Subset
  <1>4. /\ Cardinality(F) \in Nat /\ Cardinality(G) \in Nat
        /\ Cardinality(F \cap S) \in Nat /\ Cardinality(G \cap S) \in Nat
    BY <1>1, <1>3, FS_CardinalityType
  <1>5. Cardinality(F \ S) = Cardinality(G \ S)
    <2>1. F \ S = G \ S
      OBVIOUS
    <2> QED BY <2>1, Zenon
  <1> QED BY <1>2, <1>4, <1>5

(* Replacing outcomes moves the tally by what they counted for. *)
LEMMA TallySplits ==
  ASSUME NEW f, NEW g, NEW S \in SUBSET Path, \A p \in Path \ S : g[p] = f[p]
  PROVE  Tally(g, Path) = Add(Subtract(Tally(f, Path), Tally(f, S)), Tally(g, S))
  <1>1. Cardinality({p \in Path : g[p].errors}) =
            Cardinality({p \in Path : f[p].errors}) - Cardinality({p \in S : f[p].errors})
              + Cardinality({p \in S : g[p].errors})
    <2> DEFINE F == {p \in Path : f[p].errors}
               G == {p \in Path : g[p].errors}
    <2>1. F \in SUBSET Path /\ G \in SUBSET Path /\ \A p \in Path \ S : p \in F <=> p \in G
      OBVIOUS
    <2>2. F \cap S = {p \in S : f[p].errors} /\ G \cap S = {p \in S : g[p].errors}
      OBVIOUS
    <2>3. Cardinality(G) = Cardinality(F) - Cardinality(F \cap S) + Cardinality(G \cap S)
      <3> HIDE DEF F, G
      <3> QED BY <2>1, CountSplits
    <2> QED BY <2>2, <2>3
  <1>2. Cardinality({p \in Path : g[p].excluded}) =
            Cardinality({p \in Path : f[p].excluded}) - Cardinality({p \in S : f[p].excluded})
              + Cardinality({p \in S : g[p].excluded})
    <2> DEFINE F == {p \in Path : f[p].excluded}
               G == {p \in Path : g[p].excluded}
    <2>1. F \in SUBSET Path /\ G \in SUBSET Path /\ \A p \in Path \ S : p \in F <=> p \in G
      OBVIOUS
    <2>2. F \cap S = {p \in S : f[p].excluded} /\ G \cap S = {p \in S : g[p].excluded}
      OBVIOUS
    <2>3. Cardinality(G) = Cardinality(F) - Cardinality(F \cap S) + Cardinality(G \cap S)
      <3> HIDE DEF F, G
      <3> QED BY <2>1, CountSplits
    <2> QED BY <2>2, <2>3
  <1>3. Cardinality({p \in Path : g[p].pending}) =
            Cardinality({p \in Path : f[p].pending}) - Cardinality({p \in S : f[p].pending})
              + Cardinality({p \in S : g[p].pending})
    <2> DEFINE F == {p \in Path : f[p].pending}
               G == {p \in Path : g[p].pending}
    <2>1. F \in SUBSET Path /\ G \in SUBSET Path /\ \A p \in Path \ S : p \in F <=> p \in G
      OBVIOUS
    <2>2. F \cap S = {p \in S : f[p].pending} /\ G \cap S = {p \in S : g[p].pending}
      OBVIOUS
    <2>3. Cardinality(G) = Cardinality(F) - Cardinality(F \cap S) + Cardinality(G \cap S)
      <3> HIDE DEF F, G
      <3> QED BY <2>1, CountSplits
    <2> QED BY <2>2, <2>3
  <1> QED BY <1>1, <1>2, <1>3 DEF Tally, Add, Subtract

(* Only the outcomes of a set count for its tally. *)
LEMMA TallyLocal ==
  ASSUME NEW f, NEW g, NEW S, \A p \in S : g[p] = f[p]
  PROVE  Tally(g, S) = Tally(f, S)
  <1>1. /\ {p \in S : g[p].errors} = {p \in S : f[p].errors}
        /\ {p \in S : g[p].excluded} = {p \in S : f[p].excluded}
        /\ {p \in S : g[p].pending} = {p \in S : f[p].pending}
    OBVIOUS
  <1> QED BY <1>1 DEF Tally

Balanced(l) == l.totals = Tally(l.sources, Path)

LEMMA PublishBalanced ==
  ASSUME NEW l \in LedgerType(Path), Balanced(l), NEW S \in SUBSET Path, NEW new
  PROVE  Balanced(PublishAll(l, S, new))
  <1> DEFINE t == Add(Subtract(l.totals, Tally(l.sources, S)), Tally(new, S))
             s == [p \in DOMAIN l.sources |-> IF p \in S THEN new[p] ELSE l.sources[p]]
             u == l.unfinishedSources \ S
  <1>1. PublishAll(l, S, new) =
            [l EXCEPT !.unfinishedSources = u, !.totals = t, !.sources = s]
    BY DEF PublishAll
  <1>2. \A p \in Path : s[p] = IF p \in S THEN new[p] ELSE l.sources[p]
    BY DEF LedgerType
  <1>3. Tally(s, Path) = Add(Subtract(Tally(l.sources, Path), Tally(l.sources, S)), Tally(s, S))
    <2> HIDE DEF s
    <2> QED BY <1>2, TallySplits
  <1>4. Tally(s, S) = Tally(new, S)
    <2> HIDE DEF s
    <2> QED BY <1>2, TallyLocal
  <1>5. t = Tally(s, Path)
    <2> HIDE DEF s
    <2> QED BY <1>3, <1>4 DEF Balanced
  <1> HIDE DEF t, s, u
  <1> QED BY <1>1, <1>5 DEF Balanced, LedgerType

LEMMA RetainBalanced ==
  ASSUME NEW l \in LedgerType(Path), Balanced(l), NEW S \in SUBSET Path
  PROVE  Balanced(Retain(l, S))
  <1> DEFINE gone == DOMAIN l.sources \ S
             t == Subtract(l.totals, Tally(l.sources, gone))
             s == [p \in DOMAIN l.sources |-> IF p \in gone THEN NoOutcome ELSE l.sources[p]]
  <1>0. gone \in SUBSET Path
    BY DEF LedgerType
  <1>1. Retain(l, S).totals = t /\ Retain(l, S).sources = s
    BY DEF Retain, LedgerType
  <1>2. \A p \in Path : s[p] = IF p \in gone THEN NoOutcome ELSE l.sources[p]
    BY DEF LedgerType
  <1>3. Tally(s, Path) =
            Add(Subtract(Tally(l.sources, Path), Tally(l.sources, gone)), Tally(s, gone))
    <2> HIDE DEF s, gone
    <2> QED BY <1>0, <1>2, TallySplits
  <1>4. Tally(s, gone) = NoCounts
    <2> HIDE DEF s, gone
    <2>1. /\ {p \in gone : s[p].errors} = {} /\ {p \in gone : s[p].excluded} = {}
          /\ {p \in gone : s[p].pending} = {}
      BY <1>0, <1>2 DEF NoOutcome
    <2> QED BY <2>1, FS_EmptySet DEF Tally, NoCounts
  <1> HIDE DEF s, gone
  <1>5. Subtract(Tally(l.sources, Path), Tally(l.sources, gone)) \in Counts
    BY <1>0, TallyType, CountsType
  <1>6. Tally(s, Path) = t
    BY <1>3, <1>4, <1>5 DEF Balanced, Add, NoCounts, Counts
  <1> QED BY <1>1, <1>6 DEF Balanced

LEMMA ReportBalanced ==
  ASSUME NEW l \in LedgerType(Path), Balanced(l), NEW r \in ReportType(Path)
  PROVE  Balanced(ApplyReport(l, r))
  <1> DEFINE marked == [l EXCEPT
                 !.unfinishedSources = @ \cup r.scope,
                 !.reconstructed = @ /\ ~(r.full /\ ~Completed(r)),
                 !.discoveryUncertain = ~r.complete \/ (@ /\ ~(r.full /\ ~r.cancelled))]
             kept == IF r.full /\ Completed(r) THEN Retain(marked, r.reported) ELSE marked
             published == PublishAll(kept, r.reported, r.outcome)
  <1>0. r.reported \in SUBSET Path
    BY DEF ReportType
  <1>1. marked \in LedgerType(Path) /\ Balanced(marked)
    BY DEF LedgerType, ReportType, Completed, Balanced
  <1> HIDE DEF marked
  <1>2. kept \in LedgerType(Path) /\ Balanced(kept)
    BY <1>0, <1>1, RetainType, RetainBalanced
  <1> HIDE DEF kept
  <1>3. Balanced(published)
    BY <1>0, <1>2, PublishBalanced
  <1>4. /\ ApplyReport(l, r).sources = published.sources
        /\ ApplyReport(l, r).totals = published.totals
    <2>1. DOMAIN published = DOMAIN kept
      BY DEF PublishAll
    <2> HIDE DEF published
    <2> QED BY <1>2, <2>1 DEF ApplyReport, published, kept, marked, LedgerType
  <1> QED BY <1>3, <1>4 DEF Balanced

(* Only a run, and the next process, change the ledger. *)
LEMMA LedgerChanges ==
  ASSUME TypeOK, IInv, [Next]_vars
  PROVE  \/ ledger' = ledger
         \/ Crash /\ ledger' = NewLedger(Path)
         \/ /\ pc \in Running
            /\ \/ \E p \in Path : \E o \in Outcome : ledger' = PublishOutcome(ledger, p, o)
               \/ ledger' = ApplyError(ledger)
               \/ ledger' = ApplyReport(ledger, job.report)
  <1> USE DEF envVars, clientVars, workerVars, readVars
  <1>1. CASE Environment
    BY <1>1 DEF Environment, Edit, Deliver, DeliverGit, WatcherFails, Attach, AttachWatch,
       Detach, Crash
  <1>2. CASE Worker
    <2>1. CASE \/ \E force \in BOOLEAN : WorkerPick(force)
               \/ WorkerBegin \/ WorkerWiden \/ MarkInvalidated
               \/ InvalidateAll \/ (\E p \in Path : InvalidateOne(p)) \/ InvalidateDone
               \/ ListExisting \/ WorkerAfter \/ WorkerRewatch
      BY <2>1 DEF WorkerPick, WorkerBegin, WorkerWiden, MarkInvalidated, InvalidateAll,
         InvalidateOne, InvalidateDone, ListExisting, WorkerAfter, WorkerRewatch
    <2>2. CASE FinishRun \/ FailRun
      BY <2>2 DEF FinishRun, FailRun, EndRun, Running, Scanning
    <2>3. ASSUME NEW p \in Path, DiscoverPath(p)
          PROVE  \/ ledger' = ledger
                 \/ pc \in Running /\ \E o \in Outcome : ledger' = PublishOutcome(ledger, p, o)
      <3>1. Excluded(FALSE, rows[p].version) \in Outcome
        BY OutcomeTypes DEF TypeOK, Row
      <3> QED BY <2>3, <3>1 DEF DiscoverPath, RecordOutcome, Running, Scanning
    <2>4. CASE PublishSource
      BY <2>4 DEF PublishSource, RecordOutcome, Running, Scanning, TypeOK, JobType
    <2>5. CASE DiscoverDone \/ \E p \in Path : WalkFails(p) \/ StatFails(p)
      BY <2>5 DEF WalkFails, StatFails, DiscoverDone
    <2>6. CASE CommitSource \/ CommitUncached
      BY <2>6 DEF CommitSource, CommitUncached, CommitTo
    <2>7. CASE \/ \E p \in Path : ReadSource(p) \/ ReadFails(p)
               \/ ScanDone
               \/ \E p \in Path : RemoveUnseen(p) \/ RemoveUnreported(p)
      BY <2>7 DEF ReadSource, ReadFails, ScanDone, RemoveUnseen, RemoveUnreported
    <2> QED BY <1>2, <2>1, <2>2, <2>3, <2>4, <2>5, <2>6, <2>7 DEF Worker
  <1>3. CASE Reader \/ UNCHANGED vars
    BY <1>3 DEF Reader, ReadSnapshot, ReadSearch, ReadRespond, vars
  <1> QED BY <1>1, <1>2, <1>3 DEF Next

(* The counts kept incrementally are the tally of the outcomes, so no         *)
(* unsigned subtraction of coverage.rs underflows.                            *)
THEOREM TotalsAreTally == Spec => []TotalsMatch
  <1> USE DEF TotalsMatch
  <1>1. Balanced(NewLedger(Path))
    <2> DEFINE s == [p \in Path |-> NoOutcome]
    <2>1. /\ {p \in Path : s[p].errors} = {} /\ {p \in Path : s[p].excluded} = {}
          /\ {p \in Path : s[p].pending} = {}
      BY DEF NoOutcome
    <2> QED BY <2>1, FS_EmptySet DEF Balanced, NewLedger, Tally, NoCounts
  <1>2. Init => TotalsMatch
    BY <1>1 DEF Init, Balanced
  <1>3. TypeOK /\ IInv /\ TotalsMatch /\ [Next]_vars => TotalsMatch'
    <2> SUFFICES ASSUME TypeOK, IInv, TotalsMatch, [Next]_vars
                 PROVE  TotalsMatch'
      OBVIOUS
    <2>0. /\ ledger \in LedgerType(Path) /\ job.report \in ReportType(Path)
          /\ Balanced(ledger)
      BY DEF TypeOK, JobType, Balanced
    <2>1. ASSUME NEW p \in Path, NEW o, ledger' = PublishOutcome(ledger, p, o)
          PROVE  TotalsMatch'
      <3>1. Balanced(PublishOutcome(ledger, p, o))
        BY <2>0, PublishBalanced DEF PublishOutcome
      <3> QED BY <2>1, <3>1 DEF Balanced
    <2>2. CASE ledger' = ApplyReport(ledger, job.report)
      BY <2>0, <2>2, ReportBalanced DEF Balanced
    <2>3. CASE ledger' = ApplyError(ledger)
      BY <2>0, <2>3 DEF ApplyError, LedgerType
    <2>4. CASE ledger' = NewLedger(Path)
      BY <1>1, <2>4 DEF Balanced
    <2> QED BY <2>1, <2>2, <2>3, <2>4, LedgerChanges
  <1> QED BY <1>2, <1>3, TypeCorrect, Inductive, PTL DEF Spec

(***************************************************************************)
(* What "ready" vouches for.                                               *)
(***************************************************************************)

(* Within a process no step takes the controller's counters back. *)
LEMMA Monotone ==
  ASSUME TypeOK, IInv, [Next]_vars, ~Crash
  PROVE  ctl'.observed >= ctl.observed /\ ctl'.publication >= ctl.publication
  <1> USE DEF envVars, clientVars, workerVars, readVars
  <1>0. /\ ctl \in ControllerType /\ ctl.observed \in Nat /\ ctl.publication \in Nat
    BY DEF TypeOK, ControllerType
  <1>1. ASSUME ctl' \in {ctl, [ctl EXCEPT !.publication = @ + 1]}
        PROVE  ctl'.observed >= ctl.observed /\ ctl'.publication >= ctl.publication
    BY <1>0, <1>1 DEF ControllerType
  <1>2. ASSUME NEW s, NEW g, Notice(s, g)
        PROVE  ctl'.observed >= ctl.observed /\ ctl'.publication >= ctl.publication
    BY <1>0, <1>2 DEF Notice, Observe, ControllerType
  <1>3. ASSUME InstallWatcher
        PROVE  ctl'.observed >= ctl.observed /\ ctl'.publication >= ctl.publication
    BY <1>0, <1>3, InstallKeeps
  <1>4. CASE Environment
    <2>1. CASE WatcherFails
      BY <1>0, <2>1 DEF WatcherFails, Observe, SetWatchError, ControllerType
    <2>2. CASE AttachWatch
      BY <1>3, <2>2 DEF AttachWatch
    <2>3. CASE Attach
      BY <1>1, <1>2, <2>3 DEF Attach
    <2>4. CASE DeliverGit \/ \E p \in Path : \E precise \in BOOLEAN : Deliver(p, precise)
      BY <1>2, <2>4 DEF DeliverGit, Deliver
    <2>5. CASE Detach \/ \E p \in Path : \E x \in Edits : Edit(p, x)
      BY <1>1, <2>5 DEF Detach, Edit
    <2> QED BY <1>4, <2>1, <2>2, <2>3, <2>4, <2>5 DEF Environment
  <1>5. CASE Worker
    <2>1. CASE \E force \in BOOLEAN : WorkerPick(force)
      BY <1>1, <1>2, <2>1 DEF WorkerPick
    <2>2. CASE WorkerBegin
      <3>1. CASE CanBegin(ctl)
        <4>1. ctl' = Begin(ctl)
          BY <2>2, <3>1 DEF WorkerBegin
        <4>2. ctl'.observed = ctl.observed /\ ctl'.publication = ctl.publication + 1
          BY <1>0, <4>1 DEF Begin, ControllerType
        <4> QED BY <1>0, <4>2
      <3>2. CASE ~CanBegin(ctl)
        BY <1>1, <2>2, <3>2 DEF WorkerBegin
      <3> QED BY <3>1, <3>2
    <2>3. CASE WorkerWiden
      <3>1. ctl' = ctl \/ \E t : ctl' = SetActive(ctl, t)
        BY <2>3 DEF WorkerWiden
      <3> QED BY <1>0, <3>1 DEF SetActive, ControllerType
    <2>4. CASE MarkInvalidated
      BY <1>0, <2>4 DEF MarkInvalidated, Invalidated, ControllerType
    <2>5. ASSUME NEW p, NEW o, RecordOutcome(p, o)
          PROVE  ctl'.observed >= ctl.observed /\ ctl'.publication >= ctl.publication
      BY <1>1, <2>5 DEF RecordOutcome, Published
    <2>6. CASE FinishRun \/ FailRun
      <3>1. PICK failed, completed : EndRun(failed, completed)
        BY <2>6 DEF FinishRun, FailRun
      <3>2. ctl' = ctl \/ ctl' = Finish(ctl, ticket, failed, completed)
        BY <3>1 DEF EndRun
      <3>3. ASSUME ctl' = Finish(ctl, ticket, failed, completed)
            PROVE  ctl'.observed = ctl.observed /\ ctl'.publication = ctl.publication + 1
        BY <1>0, <3>3 DEF Finish, ControllerType
      <3> QED BY <1>0, <3>2, <3>3
    <2>7. CASE WorkerRewatch
      BY <1>3, <2>7 DEF WorkerRewatch
    <2>8. CASE \/ InvalidateAll \/ (\E p \in Path : InvalidateOne(p)) \/ InvalidateDone
               \/ ListExisting \/ WorkerAfter
      BY <1>1, <2>8 DEF InvalidateAll, InvalidateOne, InvalidateDone, ListExisting, WorkerAfter
    <2>9. CASE \/ \E p \in Path : DiscoverPath(p) \/ WalkFails(p) \/ StatFails(p)
               \/ DiscoverDone \/ PublishSource
      BY <1>1, <2>5, <2>9 DEF DiscoverPath, WalkFails, StatFails, DiscoverDone, PublishSource
    <2>10. CASE CommitSource \/ CommitUncached
      BY <1>1, <2>10 DEF CommitSource, CommitUncached, CommitTo
    <2>11. CASE \/ \E p \in Path : ReadSource(p) \/ ReadFails(p)
                \/ ScanDone
                \/ \E p \in Path : RemoveUnseen(p) \/ RemoveUnreported(p)
      BY <1>1, <2>11 DEF ReadSource, ReadFails, ScanDone, RemoveUnseen, RemoveUnreported
    <2> QED BY <1>5, <2>1, <2>2, <2>3, <2>4, <2>6, <2>7, <2>8, <2>9, <2>10, <2>11 DEF Worker
  <1>6. CASE Reader \/ UNCHANGED vars
    BY <1>1, <1>6 DEF Reader, ReadSnapshot, ReadSearch, ReadRespond, vars
  <1> QED BY <1>4, <1>5, <1>6 DEF Next

(* A step that no validation would notice forgets no content, and keeps a     *)
(* settled controller settled.                                                *)
LEMMA UnnoticedSteps ==
  ASSUME TypeOK, IInv, [Next]_vars, ~Crash, Idle(ctl), ctl'.observed = ctl.observed,
         ctl'.publication = ctl.publication
  PROVE  /\ Idle(ctl') /\ ledger' = ledger
         /\ \A p \in Path : recent[p] \subseteq recent'[p]
  <1> USE DEF envVars, clientVars, workerVars, readVars
  <1>0. /\ ctl \in ControllerType /\ ctl.observed \in Nat /\ ctl.publication \in Nat
        /\ pc \notin Running
    BY DEF TypeOK, ControllerType, Idle, IInv, Revisions, NoTicket
  <1>1. ledger' = ledger
    BY <1>0, LedgerChanges
  <1>2. ASSUME NEW s, NEW g, Notice(s, g)
        PROVE  FALSE
    BY <1>0, <1>2 DEF Notice, Observe, ControllerType
  <1>3. ASSUME InstallWatcher
        PROVE  Idle(ctl')
    BY <1>0, <1>3 DEF InstallWatcher, SetWatchError, ControllerType, Idle
  <1>4. CASE Environment
    <2>1. ~WatcherFails
      <3>1. WatcherFails => ctl'.observed = ctl.observed + 1
        BY <1>0 DEF WatcherFails, Observe, SetWatchError, ControllerType
      <3> QED BY <1>0, <3>1
    <2>2. CASE AttachWatch
      BY <1>1, <1>3, <2>2 DEF AttachWatch, NoNotice
    <2>3. CASE Attach
      BY <1>1, <1>2, <2>3 DEF Attach, NoNotice
    <2>4. ~(DeliverGit \/ \E p \in Path : \E precise \in BOOLEAN : Deliver(p, precise))
      BY <1>2 DEF DeliverGit, Deliver
    <2>5. CASE Detach
      BY <1>1, <2>5 DEF Detach, NoNotice
    <2>6. ASSUME NEW p \in Path, NEW x \in Edits, Edit(p, x)
          PROVE  Idle(ctl') /\ \A q \in Path : recent[q] \subseteq recent'[q]
      BY <2>6 DEF Edit, TypeOK
    <2> QED BY <1>1, <1>4, <2>1, <2>2, <2>3, <2>4, <2>5, <2>6 DEF Environment
  <1>5. CASE Worker
    <2>1. CASE \E force \in BOOLEAN : WorkerPick(force)
      BY <1>1, <1>2, <2>1 DEF WorkerPick, NoNotice
    <2>2. CASE WorkerBegin
      BY <1>1, <2>2 DEF WorkerBegin, CanBegin, Idle
    <2>3. CASE WorkerAfter
      BY <1>1, <2>3 DEF WorkerAfter
    <2>4. CASE WorkerRewatch
      BY <1>1, <1>3, <2>4 DEF WorkerRewatch
    <2>5. ~(\/ WorkerWiden \/ MarkInvalidated \/ InvalidateAll
            \/ (\E p \in Path : InvalidateOne(p)) \/ InvalidateDone \/ ListExisting)
      BY <1>0 DEF WorkerWiden, MarkInvalidated, InvalidateAll, InvalidateOne, InvalidateDone,
         ListExisting, Running, Scanning
    <2>6. ~(\/ \E p \in Path : DiscoverPath(p) \/ WalkFails(p) \/ StatFails(p)
            \/ DiscoverDone \/ CommitSource \/ CommitUncached)
      BY <1>0 DEF DiscoverPath, WalkFails, StatFails, DiscoverDone, CommitSource,
         CommitUncached, Running, Scanning
    <2>7. ~(\/ \E p \in Path : ReadSource(p) \/ ReadFails(p)
            \/ PublishSource \/ ScanDone
            \/ \E p \in Path : RemoveUnseen(p) \/ RemoveUnreported(p))
      BY <1>0 DEF ReadSource, ReadFails, PublishSource, ScanDone, RemoveUnseen,
         RemoveUnreported, Running, Scanning
    <2>8. ~(FinishRun \/ FailRun)
      BY <1>0 DEF FinishRun, FailRun, Running, Scanning
    <2> QED BY <1>5, <2>1, <2>2, <2>3, <2>4, <2>5, <2>6, <2>7, <2>8 DEF Worker
  <1>6. CASE Reader \/ UNCHANGED vars
    BY <1>1, <1>6 DEF Reader, ReadSnapshot, ReadSearch, ReadRespond, vars
  <1> QED BY <1>4, <1>5, <1>6 DEF Next

(* Counted errors of discovery never fall below none. *)
LEMMA NextCounted ==
  ASSUME TypeOK, IInv, DiscoveryCounted, [Next]_vars
  PROVE  DiscoveryCounted'
  <1> USE DEF envVars, clientVars, workerVars, readVars
  <1>0. /\ ledger \in LedgerType(Path) /\ job \in JobType
        /\ ledger.discovery.errors \in Int /\ job.report.discovery.errors \in Int
    BY DEF TypeOK, LedgerType, JobType, ReportType, Counts
  <1>1. ledger'.discovery.errors >= 0 /\ ledger'.scopedDiscovery.errors >= 0
    <2>2. ASSUME NEW p, NEW o
          PROVE  /\ PublishOutcome(ledger, p, o).discovery = ledger.discovery
                 /\ PublishOutcome(ledger, p, o).scopedDiscovery = ledger.scopedDiscovery
      BY <1>0 DEF PublishOutcome, PublishAll, LedgerType
    <2>3. /\ ApplyError(ledger).discovery = ledger.discovery
          /\ ApplyError(ledger).scopedDiscovery = ledger.scopedDiscovery
      BY <1>0 DEF ApplyError, LedgerType
    <2>4. CASE ledger' = ApplyReport(ledger, job.report)
      <3>1. /\ ledger'.discovery \in {ledger.discovery, job.report.discovery}
            /\ ledger'.scopedDiscovery \in
                   {ledger.scopedDiscovery, job.report.discovery, NoCounts}
        BY <1>0, <2>4, AppliedDiscovery DEF JobType
      <3> QED BY <3>1 DEF DiscoveryCounted, NoCounts
    <2>5. CASE ledger' = NewLedger(Path)
      BY <2>5 DEF NewLedger, NoCounts
    <2> QED BY <2>2, <2>3, <2>4, <2>5, LedgerChanges DEF DiscoveryCounted
  <1>2. ASSUME job' = NewJob \/ job'.report.discovery.errors = job.report.discovery.errors
        PROVE  job'.report.discovery.errors >= 0
    BY <1>2 DEF DiscoveryCounted, NewJob, NewReport, NoCounts
  <1>3. CASE Environment
    BY <1>1, <1>2, <1>3 DEF Environment, Edit, Deliver, DeliverGit, WatcherFails, Attach,
       AttachWatch, Detach, Crash, DiscoveryCounted
  <1>4. CASE Worker
    <2>1. CASE \/ \E force \in BOOLEAN : WorkerPick(force)
               \/ WorkerBegin \/ WorkerWiden \/ MarkInvalidated
               \/ InvalidateAll \/ (\E p \in Path : InvalidateOne(p)) \/ InvalidateDone
               \/ WorkerAfter \/ WorkerRewatch \/ ScanDone
      BY <1>1, <1>2, <2>1 DEF WorkerPick, WorkerBegin, WorkerWiden, MarkInvalidated,
         InvalidateAll, InvalidateOne, InvalidateDone, WorkerAfter, WorkerRewatch,
         ScanDone, DiscoveryCounted
    <2>2. CASE ListExisting
      <3>1. job'.report.discovery.errors = 0
        BY <2>2 DEF ListExisting, NewJob, NewReport, NoCounts
      <3> QED BY <1>1, <3>1 DEF DiscoveryCounted
    <2>3. ASSUME NEW p \in Path, DiscoverPath(p)
          PROVE  job'.report.discovery.errors = job.report.discovery.errors
      <3>0. job.report \in ReportType(Path)
        BY <1>0 DEF JobType
      <3> DEFINE o == Excluded(FALSE, rows[p].version)
      <3>1. \/ job' = [job EXCEPT !.todo = @ \ {p}, !.files = @ \cup {p}]
            \/ job' = [job EXCEPT !.todo = @ \ {p}]
            \/ job' = [job EXCEPT !.todo = @ \ {p}, !.report = Reported(job.report, p, o)]
            \/ job' = [job EXCEPT !.todo = @ \ {p}, !.walkFailed = TRUE,
                                  !.report.discovery.excluded = @ + 1]
        BY <2>3, <1>0 DEF DiscoverPath, JobType
      <3> HIDE DEF o
      <3>2. Reported(job.report, p, o).discovery = job.report.discovery
        BY <3>0, ReportedFields
      <3>3. CASE job' = [job EXCEPT !.todo = @ \ {p}, !.walkFailed = TRUE,
                                   !.report.discovery.excluded = @ + 1]
        BY <1>0, <3>0, <3>3 DEF JobType, ReportType, Counts
      <3> QED BY <1>0, <3>1, <3>2, <3>3 DEF JobType
    <2>4. ASSUME NEW p \in Path, WalkFails(p)
          PROVE  DiscoveryCounted'
      <3>1. job'.report.discovery.errors = job.report.discovery.errors + 1
        BY <1>0, <2>4 DEF WalkFails, JobType, ReportType, Counts
      <3>2. job.report.discovery.errors >= 0
        BY DEF DiscoveryCounted
      <3>3. job'.report.discovery.errors >= 0
        BY <1>0, <3>1, <3>2
      <3> QED BY <1>1, <3>3 DEF DiscoveryCounted
    <2>5. ASSUME \/ DiscoverDone
                 \/ \E p \in Path : StatFails(p) \/ ReadSource(p) \/ ReadFails(p)
                 \/ \E p \in Path : RemoveUnseen(p) \/ RemoveUnreported(p)
          PROVE  job'.report.discovery.errors = job.report.discovery.errors
      <3>1. CASE DiscoverDone
        BY <1>0, <3>1 DEF DiscoverDone, JobType, ReportType
      <3>2. ASSUME NEW p \in Path, StatFails(p) \/ ReadSource(p) \/ ReadFails(p)
            PROVE  job'.report = job.report
        BY <1>0, <3>2 DEF StatFails, ReadSource, ReadFails, JobType
      <3>3. ASSUME NEW p \in Path, RemoveUnseen(p) \/ RemoveUnreported(p)
            PROVE  job'.report = job.report
        BY <1>0, <3>3 DEF RemoveUnseen, RemoveUnreported, JobType
      <3> QED BY <2>5, <3>1, <3>2, <3>3
    <2>6. ASSUME CommitSource \/ CommitUncached
          PROVE  job'.report = job.report
      BY <1>0, <2>6 DEF CommitSource, CommitUncached, CommitTo, JobType
    <2>7. ASSUME PublishSource
          PROVE  job'.report.discovery.errors = job.report.discovery.errors
      BY <1>0, <2>7 DEF PublishSource, Reported, JobType, ReportType
    <2>8. CASE FinishRun \/ FailRun
      BY <1>1, <1>2, <2>8 DEF FinishRun, FailRun, EndRun, DiscoveryCounted
    <2> QED BY <1>1, <1>2, <1>4, <2>1, <2>2, <2>3, <2>4, <2>5, <2>6, <2>7, <2>8
            DEF Worker, DiscoveryCounted
  <1>5. CASE Reader \/ UNCHANGED vars
    BY <1>1, <1>2, <1>5 DEF Reader, ReadSnapshot, ReadSearch, ReadRespond, vars,
       DiscoveryCounted
  <1> QED BY <1>3, <1>4, <1>5 DEF Next

(* Only the reader and the next process touch the reader's state. *)
LEMMA ReaderChanges ==
  ASSUME [Next]_vars
  PROVE  rd' = rd \/ Reader \/ Crash
  <1> USE DEF envVars, clientVars, workerVars, readVars
  <1>1. CASE Environment
    BY <1>1 DEF Environment, Edit, Deliver, DeliverGit, WatcherFails, Attach, AttachWatch,
       Detach
  <1>2. CASE Worker
    <2>1. CASE \/ \E force \in BOOLEAN : WorkerPick(force)
               \/ WorkerBegin \/ WorkerWiden \/ MarkInvalidated
               \/ InvalidateAll \/ (\E p \in Path : InvalidateOne(p)) \/ InvalidateDone
               \/ ListExisting \/ WorkerAfter \/ WorkerRewatch
      BY <2>1 DEF WorkerPick, WorkerBegin, WorkerWiden, MarkInvalidated, InvalidateAll,
         InvalidateOne, InvalidateDone, ListExisting, WorkerAfter, WorkerRewatch
    <2>2. CASE \/ \E p \in Path : DiscoverPath(p) \/ WalkFails(p) \/ StatFails(p)
               \/ DiscoverDone \/ CommitSource \/ CommitUncached
      BY <2>2 DEF DiscoverPath, WalkFails, StatFails, DiscoverDone, CommitSource,
         CommitUncached, CommitTo
    <2>3. CASE \/ \E p \in Path : ReadSource(p) \/ ReadFails(p)
               \/ PublishSource \/ ScanDone
               \/ \E p \in Path : RemoveUnseen(p) \/ RemoveUnreported(p)
      BY <2>3 DEF ReadSource, ReadFails, PublishSource, ScanDone, RemoveUnseen,
         RemoveUnreported
    <2>4. CASE FinishRun \/ FailRun
      BY <2>4 DEF FinishRun, FailRun, EndRun
    <2> QED BY <1>2, <2>1, <2>2, <2>3, <2>4 DEF Worker
  <1> QED BY <1>1, <1>2 DEF Next, vars

(* The status is "ready" only if no outcome is an error. *)
LEMMA ReadyCounts ==
  ASSUME TypeOK, TotalsMatch, DiscoveryCounted, Snapshot = "ready"
  PROVE  Idle(ctl) /\ \A p \in Path : ~ledger.sources[p].errors
  <1> DEFINE E == {p \in Path : ledger.sources[p].errors}
             sum == ledger.totals.errors + ledger.discovery.errors
                      + ledger.scopedDiscovery.errors
             scan == IF ledger.scanFailed THEN 1 ELSE 0
             watch == IF ctl.watchError THEN 1 ELSE 0
             counts == LedgerCounts(ledger)
             all == [counts EXCEPT !.errors = @ + watch]
  <1>1. /\ ledger \in LedgerType(Path) /\ ledger.totals.errors \in Int
        /\ ledger.discovery.errors \in Int /\ ledger.scopedDiscovery.errors \in Int
    BY DEF TypeOK, LedgerType, Counts
  <1>2. IsFiniteSet(E)
    BY ScopesAssumption, FS_Subset
  <1>3. Cardinality(E) \in Nat /\ ledger.totals.errors = Cardinality(E)
    BY <1>2, FS_CardinalityType DEF TotalsMatch, Tally
  <1>4. all.errors = sum + scan + watch
    BY <1>1 DEF LedgerCounts, Add
  <1>5. all.pending \in Int
    BY DEF LedgerCounts, Add, TypeOK, LedgerType, Counts
  <1> HIDE DEF all
  <1>6. Idle(ctl) /\ ~(all.errors > 0)
    BY <1>5 DEF Snapshot, StatusOf, all
  <1>7. Cardinality(E) = 0
    BY <1>1, <1>3, <1>4, <1>6 DEF DiscoveryCounted
  <1> QED BY <1>2, <1>6, <1>7, FS_EmptySet

LEMMA NextReady ==
  ASSUME TypeOK, IInv, CoverageInv, TotalsMatch, DiscoveryCounted, ReadyVouched, [Next]_vars
  PROVE  ReadyVouched'
  <1>0. rd \in ReaderType /\ ctl \in ControllerType
    BY DEF TypeOK
  <1>1. CASE ReadSnapshot
    <2>1. /\ rd'.status = Snapshot /\ rd'.eligible = Eligible(ctl) /\ rd'.pc = "snapshot"
          /\ ctl' = ctl /\ ledger' = ledger
      BY <1>0, <1>1 DEF ReadSnapshot, ReaderType
    <2>2. Idle(ctl) => Eligible(ctl)
      BY DEF IInv, Revisions, Idle, NoTicket, Eligible
    <2> QED BY <2>1, <2>2, ReadyCounts DEF ReadyVouched, Idle
  <1>2. CASE ReadSearch
    <2>1. /\ rd.pc = "snapshot" /\ rd'.pc = "searched" /\ rd'.status = rd.status
          /\ rd'.token = rd.token
          /\ rd'.hits = IF rd.eligible THEN Searchable(rows) ELSE NoVersions
          /\ ctl' = ctl /\ recent' = recent
      BY <1>0, <1>2 DEF ReadSearch, ReaderType
    <2>2. SUFFICES ASSUME rd.status = "ready", Validates(ctl, rd.token)
                   PROVE  /\ Idle(ctl)
                          /\ \A p \in Path : rd'.hits[p] = NoVersion =>
                                ~(recent[p] \subseteq Version)
      BY <2>1 DEF ReadyVouched, Validates, Idle
    <2>3. Idle(ctl) /\ rd.eligible /\ \A p \in Path : ~ledger.sources[p].errors
      BY <2>1, <2>2 DEF ReadyVouched
    <2>4. ASSUME NEW p \in Path
          PROVE  Shows(p)
      <3>1. pc \notin Running /\ ~Covers(ctl.pending, p)
        BY <2>3, ScopeTypes DEF Idle, IInv, Revisions, NoTicket, Covers, NoScope
      <3> QED BY <2>3, <3>1 DEF CoverageInv, DarkQueued
    <2>5. ASSUME NEW p \in Path, rows[p].eligible
          PROVE  rd'.hits[p] # NoVersion
      <3>1. Present(rows[p]) /\ DOMAIN rows = Path
        BY <2>5 DEF CoverageInv, ScanInv, Suppressed, TypeOK
      <3> QED BY <2>1, <2>3, <2>5, <3>1 DEF Searchable, Present
    <2> QED BY <2>3, <2>4, <2>5 DEF Shows
  <1>3. CASE ReadRespond \/ Crash
    BY <1>3 DEF ReadRespond, Crash, NewReader, ReadyVouched
  <1>4. CASE rd' = rd /\ ~Crash
    <2>1. SUFFICES ASSUME rd.pc # "idle", rd.status = "ready", Validates(ctl', rd.token)
                   PROVE  ReadyVouched'
      BY <1>4 DEF ReadyVouched
    <2>2. ctl'.observed = ctl.observed /\ ctl'.publication = ctl.publication
      <3>1. ctl'.observed >= ctl.observed /\ ctl'.publication >= ctl.publication
        BY <1>4, Monotone
      <3>2. rd.token.observed <= ctl.observed /\ rd.token.publication <= ctl.publication
        BY <2>1 DEF IInv, ReaderSafe
      <3>3. rd.token.observed = ctl'.observed /\ rd.token.publication = ctl'.publication
        BY <2>1 DEF Validates
      <3>4. /\ ctl.observed \in Nat /\ ctl.publication \in Nat
            /\ rd.token.observed \in Nat /\ rd.token.publication \in Nat
        BY <1>0 DEF ControllerType, ReaderType
      <3> QED BY <3>1, <3>2, <3>3, <3>4
    <2>3. Validates(ctl, rd.token)
      BY <2>1, <2>2 DEF Validates
    <2>4. Idle(ctl)
      BY <2>1, <2>3 DEF ReadyVouched
    <2>5. /\ Idle(ctl') /\ ledger' = ledger
          /\ \A p \in Path : recent[p] \subseteq recent'[p]
      BY <1>4, <2>2, <2>4, UnnoticedSteps
    <2> QED BY <1>4, <2>1, <2>3, <2>5 DEF ReadyVouched, Idle
  <1> QED BY <1>1, <1>2, <1>3, <1>4, ReaderChanges DEF Reader

(* An answer that says "ready" misses no indexable file: nothing was queued   *)
(* or running when its status was taken, no source was in error, and nothing  *)
(* has been observed since.                                                   *)
THEOREM ReadyIsWhole == Spec => ReadyIsComplete
  <1>1. Init => DiscoveryCounted /\ ReadyVouched
    BY DEF Init, DiscoveryCounted, ReadyVouched, NewLedger, NewJob, NewReport, NoCounts,
       NewReader
  <1>2. TypeOK /\ IInv /\ CoverageInv /\ TotalsMatch /\ DiscoveryCounted /\ ReadyVouched
          /\ [Next]_vars => (DiscoveryCounted /\ ReadyVouched)'
    BY NextCounted, NextReady
  <1>3. TypeOK /\ ReadyVouched /\ [Next]_vars =>
          [reply' # reply /\ reply'.status = "ready" =>
             \A p \in Path : reply'.hits[p] = NoVersion => ~(recent'[p] \subseteq Version)]_vars
    <2> SUFFICES ASSUME TypeOK, ReadyVouched, [Next]_vars, reply' # reply,
                        reply'.status = "ready", NEW p \in Path,
                        reply'.hits[p] = NoVersion
                 PROVE  ~(recent'[p] \subseteq Version)
      OBVIOUS
    <2>1. ~Crash
      BY DEF Crash, NoReply
    <2>2. ReadRespond
      BY <2>1, ReplyChanges
    <2>3. /\ rd.pc = "searched" /\ rd.status = "ready" /\ Validates(ctl, rd.token)
          /\ reply'.hits = rd.hits /\ recent' = recent
      BY <2>2 DEF ReadRespond
    <2> QED BY <2>3 DEF ReadyVouched
  <1> QED BY <1>1, <1>2, <1>3, TypeCorrect, Inductive, CoverageInductive, TotalsAreTally, PTL
          DEF ReadyIsComplete, Spec

(* The worker with its clock is a worker that may ask for everything in any  *)
(* visit, so that what holds of ProjectReconcile holds of it: the clock of   *)
(* run_owner decides when the periodic request is made, never what is safe.  *)
THEOREM ClockImplements == ClockSpec => Spec
  <1>1. ClockInit => Init
    BY DEF ClockInit
  <1>2. ASSUME [ClockNext]_allVars
        PROVE  [Next]_vars
    <2>1. CASE Visit
      <3>1. PICK force \in BOOLEAN :
                \/ WorkerPick(force)
                \/ pc = "idle" /\ leases = 0 /\ UNCHANGED vars
        BY <2>1 DEF Visit
      <3> QED BY <3>1 DEF Next, Worker
    <2>2. CASE Works
      BY <2>2 DEF Works, Next
    <2>3. CASE Outside
      BY <2>3 DEF Outside, Next
    <2>4. CASE NoticeElsewhere \/ SettleElsewhere \/ Elapse
      BY <2>4 DEF NoticeElsewhere, SettleElsewhere, Elapse
    <2>5. CASE UNCHANGED allVars
      BY <2>5 DEF allVars
    <2> QED BY <1>2, <2>1, <2>2, <2>3, <2>4, <2>5 DEF ClockNext
  <1> QED BY <1>1, <1>2, PTL DEF ClockSpec, Spec
=============================================================================
