-------------------------- MODULE ProjectReconcile --------------------------
(***************************************************************************)
(* Reconciliation of one project collection: the files on disk, the        *)
(* watcher that reports their changes, the leases of the connected         *)
(* clients, the controller, the project worker that carries a run through  *)
(* invalidation, discovery, reading, commit and publication, and a reader  *)
(* that searches while all of this happens.                                *)
(*                                                                         *)
(* Sources: reconciliation.rs (controller, Run::project), ingest.rs        *)
(* (invalidate_project_scope, scan_project_observed_inner), model.rs       *)
(* (record_source, record_removal), runtime.rs (watch, the worker thread,  *)
(* serve_connection) and store.rs through module SourceRows.               *)
(*                                                                         *)
(* Atomicity: a step is one critical section of the controller's mutex,    *)
(* one SQLite transaction or one look at the file system; between any two  *)
(* steps of the worker or the reader, files change, events arrive and      *)
(* clients come and go.                                                    *)
(***************************************************************************)
EXTENDS Controller, Coverage

CONSTANTS
    Edits,        \* the contents the environment writes
    MaxEdits,     \* changes of files on disk
    MaxFaults,    \* failures of I/O, of the store and of the watcher
    MaxForces,    \* periodic full requests since the last edit or fault
    MaxAttaches,  \* connections
    MaxLeases,    \* clients connected at the same time
    MaxGits,      \* changes of Git's HEAD or index
    MaxCrashes,   \* ends of the owner process
    MaxReads,     \* searches
    MaxRuns       \* reconciliation runs

(* What a path may hold besides indexable text.  "escape" is a symbolic    *)
(* link whose target lies outside the project, "link" any other entry that *)
(* is not a regular file, "binary" and "garbled" files the decoder refuses *)
(* (the second with a reported error).                                     *)
Absent == "absent"
Content == Version \cup {Absent, "link", "escape", "binary", "garbled"}
IsFile(x) == x \in Version \cup {"binary", "garbled"}

ASSUME ReconcileAssumption ==
    /\ Path # {}
    /\ Version \cap {Absent, "link", "escape", "binary", "garbled", "failed"} = {}
    /\ NoVersion \notin Content \cup {"failed"}
    /\ Edits \subseteq Content

VARIABLES
    disk,       \* the project's files
    recent,     \* ghost: the contents of a path since it was last observed
    rows,       \* the sources table
    ctl,        \* the controller
    ledger,     \* its coverage ledger
    watching,   \* whether the root has a watcher
    events,     \* changes the watcher has not delivered yet
    leases,     \* connected clients
    attaching,  \* the first client holds the lifecycle lock
    pc,         \* where the worker is
    ticket,     \* the ticket of the worker's run
    job,        \* the local variables of the scan
    rd,         \* the reader
    reply,      \* the last answer
    gitOwed,    \* ghost: a Git change no completed run has accounted for
    used        \* how much of each bound is used up

vars == <<disk, recent, rows, ctl, ledger, watching, events, leases, attaching,
          pc, ticket, job, rd, reply, gitOwed, used>>

workerVars == <<pc, ticket, job>>
clientVars == <<watching, events, leases, attaching>>
readVars == <<rd, reply>>

NoVersions == [p \in Path |-> NoVersion]
AnyPath == CHOOSE p \in Path : TRUE

(***************************************************************************)
(* The scan's locals: the versions listed before it, the paths still to    *)
(* visit in the present phase, the regular files discovery found, the keys *)
(* seen, whether a walk failed, the report, and the path in hand with what *)
(* was read from it, the outcome to publish and the phase to return to.    *)
(***************************************************************************)
NewJob == [existing |-> NoVersions, todo |-> {}, files |-> {}, seen |-> {},
           walkFailed |-> FALSE, report |-> NewReport(Path, FALSE), path |-> AnyPath,
           got |-> Absent, outcome |-> NoOutcome, back |-> "scan"]

NoReply == [hits |-> NoVersions, status |-> "none"]
NewReader == [pc |-> "idle", token |-> [observed |-> 0, publication |-> 0],
              eligible |-> FALSE, status |-> "none", hits |-> NoVersions]

Init ==
    /\ disk \in [Path -> Edits]
    /\ recent = [p \in Path |-> {disk[p]}]
    /\ rows = [p \in Path |-> NoRow]
    /\ ctl = NewController
    /\ ledger = NewLedger(Path)
    /\ watching = FALSE /\ events = {} /\ leases = 0 /\ attaching = FALSE
    /\ pc = "idle" /\ ticket = NoTicket /\ job = NewJob
    /\ rd = NewReader /\ reply = NoReply
    /\ gitOwed = FALSE
    /\ used = [edits |-> 0, faults |-> 0, forces |-> 0, attaches |-> 0,
               gits |-> 0, crashes |-> 0, reads |-> 0]

(***************************************************************************)
(* Bounds and observations.                                                *)
(***************************************************************************)
Fault == /\ used.faults < MaxFaults
         /\ used' = [used EXCEPT !.faults = @ + 1, !.forces = 0]

(* observe(scope, git), by whoever calls it. *)
Notice(scope, git) ==
    /\ ctl' = Observe(ctl, scope, git)
    /\ recent' = [p \in Path |-> IF Covers(scope, p) THEN {disk[p]} ELSE recent[p]]
    /\ gitOwed' = (gitOwed \/ git)

NoNotice == UNCHANGED <<recent, gitOwed>>

(***************************************************************************)
(* The environment: files, the watcher's callback, clients, process ends.  *)
(***************************************************************************)
Edit(p, x) ==
    /\ used.edits < MaxEdits
    /\ disk[p] # x
    /\ disk' = [disk EXCEPT ![p] = x]
    /\ recent' = [recent EXCEPT ![p] = @ \cup {x}]
    /\ events' = IF watching THEN events \cup {p} ELSE events
    /\ used' = [used EXCEPT !.edits = @ + 1, !.forces = 0]
    /\ UNCHANGED <<rows, ctl, ledger, watching, leases, attaching, gitOwed,
                   workerVars, readVars>>

(* A precise event names its file; anything ambiguous asks for everything. *)
Deliver(p, precise) ==
    /\ watching /\ p \in events
    /\ events' = events \ {p}
    /\ Notice(IF precise THEN Sources({p}) ELSE Full, FALSE)
    /\ UNCHANGED <<disk, rows, ledger, watching, leases, attaching, used,
                   workerVars, readVars>>

(* HEAD or index changed: a precise scope that names no path. *)
DeliverGit ==
    /\ watching /\ used.gits < MaxGits
    /\ used' = [used EXCEPT !.gits = @ + 1]
    /\ Notice(Sources({}), TRUE)
    /\ UNCHANGED <<disk, rows, ledger, clientVars, workerVars, readVars>>

(* The callback receives an error: events may be missing. *)
WatcherFails ==
    /\ watching /\ Fault
    /\ \E lost \in SUBSET events : events' = events \ lost
    /\ ctl' = Observe(SetWatchError(ctl, TRUE), Full, FALSE)
    /\ recent' = [p \in Path |-> {disk[p]}]
    /\ UNCHANGED <<disk, rows, ledger, watching, leases, attaching, gitOwed,
                   workerVars, readVars>>

(* The first lease of a root: everything is observed, and only then watched. *)
Attach ==
    /\ ~attaching /\ leases < MaxLeases /\ used.attaches < MaxAttaches
    /\ used' = [used EXCEPT !.attaches = @ + 1]
    /\ leases' = leases + 1
    /\ IF leases = 0 THEN attaching' = TRUE /\ Notice(Full, FALSE)
                     ELSE attaching' = FALSE /\ NoNotice /\ UNCHANGED ctl
    /\ UNCHANGED <<disk, rows, ledger, watching, events, workerVars, readVars>>

(* RootState::watch: the new watcher replaces the old one, whose undelivered *)
(* events are lost.  It may fail before that, and the old one, if any, stays, *)
(* or after it, on the watcher of the sessions.                              *)
InstallWatcher ==
    LET replaced == /\ watching' = TRUE
                    /\ \E lost \in SUBSET events : events' = events \ lost
    IN  \/ /\ replaced
           /\ ctl' = SetWatchError(ctl, FALSE)
           /\ UNCHANGED used
        \/ /\ Fault
           /\ ctl' = SetWatchError(ctl, TRUE)
           /\ replaced \/ UNCHANGED <<watching, events>>

AttachWatch ==
    /\ attaching
    /\ attaching' = FALSE
    /\ InstallWatcher
    /\ NoNotice
    /\ UNCHANGED <<disk, rows, ledger, leases, workerVars, readVars>>

(* The last lease takes the watcher, and its undelivered events, with it. *)
DetachTwice ==
    /\ ~attaching
    /\ leases' = leases - 1
    /\ IF leases = 1 THEN watching' = FALSE /\ events' = {}
                     ELSE UNCHANGED <<watching, events>>
    /\ NoNotice
    /\ UNCHANGED <<disk, rows, ctl, ledger, attaching, used, workerVars, readVars>>
Detach ==
    /\ ~attaching /\ leases > 0
    /\ leases' = leases - 1
    /\ IF leases = 1 THEN watching' = FALSE /\ events' = {}
                     ELSE UNCHANGED <<watching, events>>
    /\ NoNotice
    /\ UNCHANGED <<disk, rows, ctl, ledger, attaching, used, workerVars, readVars>>

(* The process ends at any point; the next one opens the same database. *)
Crash ==
    /\ used.crashes < MaxCrashes
    /\ used' = [used EXCEPT !.crashes = @ + 1, !.forces = 0]
    /\ ctl' = NewController /\ ledger' = NewLedger(Path)
    /\ recent' = [p \in Path |-> {disk[p]}] /\ gitOwed' = FALSE
    /\ watching' = FALSE /\ events' = {} /\ leases' = 0 /\ attaching' = FALSE
    /\ pc' = "idle" /\ ticket' = NoTicket /\ job' = NewJob
    /\ rd' = NewReader /\ reply' = NoReply
    /\ UNCHANGED <<disk, rows>>

(***************************************************************************)
(* The worker's run.  A failed step ends it through FailRun.               *)
(***************************************************************************)
Precise == ticket.scope.kind = "sources"
InScope == {p \in Path : Covers(ticket.scope, p)}

envVars == <<disk, recent, gitOwed, clientVars, readVars>>

(* A visit of the root in the worker's loop, with a lease; `force` is the  *)
(* periodic request for everything.  Which visits make it depends on the   *)
(* clock of module WorkerClock; safety does not, so here any visit may.    *)
WorkerPick(force) ==
    /\ pc = "idle" /\ leases > 0
    /\ pc' = "picked"
    /\ IF force THEN /\ used.forces < MaxForces
                     /\ used' = [used EXCEPT !.forces = @ + 1]
                     /\ Notice(Full, FALSE)
                ELSE NoNotice /\ UNCHANGED <<ctl, used>>
    /\ UNCHANGED <<disk, rows, ledger, clientVars, ticket, job, readVars>>

WorkerBegin ==
    /\ pc = "picked"
    /\ IF CanBegin(ctl)
       THEN /\ ctl.nextRun < MaxRuns
            /\ ctl' = Begin(ctl) /\ ticket' = NextTicket(ctl) /\ pc' = "begun"
       ELSE pc' = "idle" /\ UNCHANGED <<ctl, ticket>>
    /\ UNCHANGED <<rows, ledger, job, used, envVars>>

(* Git names further paths, or none it can vouch for (Full). *)
WorkerWiden ==
    /\ pc = "begun"
    /\ pc' = "invalidate"
    /\ IF ticket.git /\ Precise
       THEN \E s \in {Full} \cup {Sources(S) : S \in SUBSET Path} :
                /\ ticket' = WidenTicket(ticket, s)
                /\ ctl' = SetActive(ctl, WidenTicket(ticket, s))
       ELSE UNCHANGED <<ctl, ticket>>
    /\ UNCHANGED <<rows, ledger, job, used, envVars>>

(* invalidate_project_scope: one transaction for a collection ... *)
InvalidateAll ==
    /\ pc = "invalidate" /\ ~Precise
    /\ rows' = InvalidateRows(rows)
    /\ pc' = "invalidated"
    /\ UNCHANGED <<ctl, ledger, ticket, job, used, envVars>>

(* ... and one for each source of a precise scope. *)
InvalidateOne(p) ==
    /\ pc = "invalidate" /\ Precise
    /\ p \in InScope /\ rows[p].eligible
    /\ rows' = InvalidateRow(rows, p)
    /\ UNCHANGED <<ctl, ledger, workerVars, used, envVars>>

InvalidateDone ==
    /\ pc = "invalidate" /\ Precise
    /\ \A p \in InScope : ~rows[p].eligible
    /\ pc' = "invalidated"
    /\ UNCHANGED <<rows, ctl, ledger, ticket, job, used, envVars>>

MarkInvalidated ==
    /\ pc = "invalidated"
    /\ ctl' = Invalidated(ctl, ticket)
    /\ pc' = "list"
    /\ UNCHANGED <<rows, ledger, ticket, job, used, envVars>>

(* The known sources are listed, then the scope is invalidated once more. *)
ListExisting ==
    /\ pc = "list"
    /\ rows' = [p \in Path |-> IF p \in InScope THEN InvalidateRow(rows, p)[p]
                                                ELSE rows[p]]
    /\ job' = [NewJob EXCEPT
                 !.existing = [p \in Path |-> IF p \in InScope THEN Versions(rows)[p]
                                                              ELSE NoVersion],
                 !.todo = InScope,
                 !.report = NewReport(Path, ~Precise)]
    /\ pc' = "discover"
    /\ UNCHANGED <<ctl, ledger, ticket, used, envVars>>

(* Publisher::source and the entry of the report (record_source and         *)
(* record_removal after the store has confirmed).                           *)
RecordOutcome(p, outcome) ==
    /\ ctl' = Published(ctl, ticket)
    /\ ledger' = IF Matches(ctl, ticket) THEN PublishOutcome(ledger, p, outcome) ELSE ledger

ReportedNowhere(report, p, outcome) == report
Reported(report, p, outcome) ==
    [report EXCEPT !.reported = @ \cup {p}, !.outcome[p] = outcome]

Excluded(errors, version) == [known |-> TRUE, version |-> version, errors |-> errors,
                              excluded |-> TRUE, pending |-> FALSE]
Rejected(version) == [known |-> TRUE, version |-> version, errors |-> TRUE,
                      excluded |-> FALSE, pending |-> FALSE]
Indexed(version, errors) == [known |-> TRUE, version |-> version, errors |-> errors,
                             excluded |-> FALSE, pending |-> FALSE]

(* Discovery looks at a path: a regular file is kept for reading, a link is *)
(* an exclusion, and a precise path that leads out of the root cannot be    *)
(* reconciled by itself.                                                    *)
DiscoverPath(p) ==
    /\ pc = "discover" /\ p \in job.todo /\ leases > 0
    /\ LET visited == [job EXCEPT !.todo = @ \ {p}]
           outcome == Excluded(FALSE, rows[p].version)
           out == disk[p] = "escape" /\ Precise
       IN  \/ /\ IsFile(disk[p])
              /\ job' = [visited EXCEPT !.files = @ \cup {p}]
              /\ UNCHANGED <<ctl, ledger>>
           \/ /\ disk[p] = Absent
              /\ job' = visited
              /\ UNCHANGED <<ctl, ledger>>
           \/ /\ disk[p] \in {"link", "escape"} /\ ~out
              /\ ConfirmsPublication(rows[p], NoVersion)
              /\ RecordOutcome(p, outcome)
              /\ job' = [visited EXCEPT !.report = Reported(@, p, outcome)]
           \/ /\ out
              /\ job' = [visited EXCEPT !.walkFailed = TRUE,
                                        !.report.discovery.excluded = @ + 1]
              /\ UNCHANGED <<ctl, ledger>>
    /\ UNCHANGED <<rows, pc, ticket, used, envVars>>

(* The walk reports an error instead of an entry. *)
WalkFails(p) ==
    /\ pc = "discover" /\ p \in job.todo /\ leases > 0
    /\ Fault
    /\ job' = [job EXCEPT !.todo = @ \ {p}, !.walkFailed = TRUE,
                          !.report.discovery.errors = @ + 1]
    /\ UNCHANGED <<rows, ctl, ledger, pc, ticket, envVars>>

(* A precise path cannot be examined: its row goes, its error is recorded. *)
StatFails(p) ==
    /\ pc = "discover" /\ p \in job.todo /\ Precise
    /\ Fault
    /\ rows' = IF job.existing[p] # NoVersion THEN RemoveRow(rows, p) ELSE rows
    /\ job' = [job EXCEPT !.todo = @ \ {p}, !.seen = @ \cup {p}, !.path = p,
                          !.got = "failed", !.back = "discover",
                          !.outcome = Rejected(rows'[p].version)]
    /\ pc' = "publish"
    /\ UNCHANGED <<ctl, ledger, ticket, envVars>>

DiscoverDone ==
    /\ pc = "discover" /\ job.todo = {}
    /\ job' = [job EXCEPT !.todo = job.files, !.report.complete = ~job.walkFailed]
    /\ pc' = "scan"
    /\ UNCHANGED <<rows, ctl, ledger, ticket, used, envVars>>

(* read_source: the fingerprint taken before and after makes the content    *)
(* that of one moment; a file that is gone or no longer regular fails.      *)
ReadSource(p) ==
    /\ pc = "scan" /\ p \in job.todo /\ leases > 0
    /\ job' = [job EXCEPT !.todo = @ \ {p}, !.path = p,
                          !.got = IF IsFile(disk[p]) THEN disk[p] ELSE "failed"]
    /\ pc' = "commit"
    /\ UNCHANGED <<rows, ctl, ledger, ticket, used, envVars>>

(* It fails: unreadable, never stable in three attempts, or cancelled. *)
ReadFails(p) ==
    /\ pc = "scan" /\ p \in job.todo
    /\ \/ leases = 0 /\ UNCHANGED used
       \/ leases > 0 /\ Fault
    /\ job' = [job EXCEPT !.todo = @ \ {p}, !.path = p, !.got = "failed"]
    /\ pc' = "commit"
    /\ UNCHANGED <<rows, ctl, ledger, ticket, envVars>>

(* The source's transaction, if it has one, and the outcome it leads to. *)
CommitTo(newRows, errors) ==
    LET p == job.path IN
    /\ rows' = newRows
    /\ job' = [job EXCEPT !.back = "scan",
         !.seen = IF job.got = "failed" THEN @ ELSE @ \cup {p},
         !.outcome = CASE job.got = "failed" -> Rejected(newRows[p].version)
                       [] job.got = "binary" -> Excluded(FALSE, newRows[p].version)
                       [] job.got = "garbled" -> Excluded(TRUE, newRows[p].version)
                       [] OTHER -> Indexed(newRows[p].version, errors)]
    /\ pc' = "publish"
    /\ UNCHANGED <<ctl, ledger, ticket, envVars>>

CommitSkipsUnchanged ==
    /\ pc = "commit"
    /\ LET p == job.path
           old == job.existing[p]
       IN  CommitTo(CASE job.got \in Version /\ old # job.got -> ReplaceRow(rows, p, job.got)
                      [] job.got \in {"binary", "garbled"} /\ old # NoVersion
                            -> RemoveRow(rows, p)
                      [] OTHER -> rows, FALSE)
    /\ UNCHANGED used
CommitSource ==
    /\ pc = "commit"
    /\ LET p == job.path
           old == job.existing[p]
       IN  CommitTo(CASE job.got \in Version /\ old = job.got -> VerifyRow(rows, p)
                      [] job.got \in Version /\ old # job.got -> ReplaceRow(rows, p, job.got)
                      [] job.got \in {"binary", "garbled"} /\ old # NoVersion
                            -> RemoveRow(rows, p)
                      [] OTHER -> rows, FALSE)
    /\ UNCHANGED used

(* The source is replaced, but its content-cache entry cannot be written. *)
CommitUncached ==
    /\ pc = "commit" /\ job.got \in Version /\ job.existing[job.path] # job.got
    /\ Fault
    /\ CommitTo(ReplaceRow(rows, job.path, job.got), TRUE)

(* record_source or record_removal of the source in hand.  Confirmed is the *)
(* store's check; were it to fail the run would fail.                       *)
Confirmed ==
    LET row == rows[job.path] IN
    IF job.outcome = NoOutcome THEN ConfirmsRemoval(row)
    ELSE ConfirmsPublication(row, IF job.got \in Version THEN job.got ELSE NoVersion)

PublishSource ==
    /\ pc = "publish" /\ Confirmed
    /\ RecordOutcome(job.path, job.outcome)
    /\ job' = [job EXCEPT !.report = Reported(@, job.path, job.outcome)]
    /\ pc' = job.back
    /\ UNCHANGED <<rows, ticket, used, envVars>>

ScanDone ==
    /\ pc = "scan" /\ job.todo = {}
    /\ pc' = "remove"
    /\ UNCHANGED <<rows, ctl, ledger, ticket, job, used, envVars>>

(* Known sources that discovery did not see again. *)
Unseen == {p \in Path : job.existing[p] # NoVersion} \ job.seen

RemoveUnseen(p) ==
    /\ pc = "remove" /\ ~job.walkFailed /\ p \in Unseen
    /\ rows' = RemoveRow(rows, p)
    /\ job' = [job EXCEPT !.seen = @ \cup {p}, !.path = p, !.outcome = NoOutcome,
                          !.back = "remove"]
    /\ pc' = IF p \in job.report.reported THEN "remove" ELSE "publish"
    /\ UNCHANGED <<ctl, ledger, ticket, used, envVars>>

(* A precise path that came to nothing: its removal is recorded. *)
RemoveUnreported(p) ==
    /\ pc = "remove" /\ ~job.walkFailed /\ Unseen = {} /\ Precise
    /\ p \in InScope \ job.report.reported
    /\ job' = [job EXCEPT !.path = p, !.outcome = NoOutcome, !.back = "remove"]
    /\ pc' = "publish"
    /\ UNCHANGED <<rows, ctl, ledger, ticket, used, envVars>>

(* Controller::finish and the ledger's apply, one critical section. *)
EndRun(failed, completed) ==
    /\ ctl' = IF Matches(ctl, ticket) THEN Finish(ctl, ticket, failed, completed) ELSE ctl
    /\ ledger' = CASE ~Matches(ctl, ticket) -> ledger
                    [] Matches(ctl, ticket) /\ failed -> ApplyError(ledger)
                    [] OTHER -> ApplyReport(ledger, job.report)
    /\ gitOwed' = (gitOwed /\ ~(completed /\ ticket.git /\ ~ctl.gitPending))
    /\ pc' = "after" /\ job' = NewJob
    /\ UNCHANGED <<disk, recent, rows, clientVars, ticket, readVars>>

FinishRun ==
    /\ pc = "remove"
    /\ job.walkFailed \/ (Unseen = {} /\ (Precise => InScope \subseteq job.report.reported))
    /\ EndRun(FALSE, Completed(job.report))
    /\ UNCHANGED used

(* A step of the run returns an error: the last lease is gone, or a fault. *)
FailRun ==
    /\ \/ pc \in {"discover", "scan", "commit"} /\ leases = 0 /\ UNCHANGED used
       \/ pc \in {"invalidate", "list", "discover", "scan", "commit", "publish",
                 "remove"} /\ Fault
    /\ EndRun(TRUE, FALSE)

(* After a full run the watchers are installed anew, if a lease was there   *)
(* before the lifecycle lock was taken.                                     *)
WorkerAfter ==
    /\ pc = "after"
    /\ ticket' = NoTicket
    /\ pc' = IF ticket.scope = Full /\ leases > 0 THEN "rewatch" ELSE "idle"
    /\ UNCHANGED <<rows, ctl, ledger, job, used, envVars>>

WorkerRewatch ==
    /\ pc = "rewatch" /\ ~attaching
    /\ InstallWatcher
    /\ pc' = "idle"
    /\ UNCHANGED <<disk, recent, gitOwed, rows, ledger, leases, attaching, ticket, job,
                   readVars>>

(***************************************************************************)
(* The reader: serve_connection's snapshot, dispatch and validation.       *)
(***************************************************************************)
Snapshot ==
    LET counts == LedgerCounts(ledger)
        all == [counts EXCEPT !.errors = @ + IF ctl.watchError THEN 1 ELSE 0]
    IN  StatusOf(AccountsForAll(ledger) /\ Idle(ctl), all, ledger.reconciled)

ReadSnapshot ==
    /\ rd.pc = "idle" /\ leases > 0 /\ used.reads < MaxReads
    /\ used' = [used EXCEPT !.reads = @ + 1]
    /\ rd' = [rd EXCEPT !.pc = "snapshot", !.token = Token(ctl),
                        !.eligible = Eligible(ctl), !.status = Snapshot]
    /\ UNCHANGED <<disk, recent, rows, ctl, ledger, gitOwed, clientVars, workerVars, reply>>

(* One SQLite read transaction, skipped when reads are not safe. *)
ReadSearch ==
    /\ rd.pc = "snapshot"
    /\ rd' = [rd EXCEPT !.pc = "searched",
                        !.hits = IF rd.eligible THEN Searchable(rows) ELSE NoVersions]
    /\ UNCHANGED <<disk, recent, rows, ctl, ledger, gitOwed, clientVars, workerVars, reply,
                   used>>

(* A token that no longer validates empties the answer. *)
ReadRespond ==
    /\ rd.pc = "searched"
    /\ reply' = IF Validates(ctl, rd.token)
                THEN [hits |-> rd.hits, status |-> rd.status]
                ELSE [hits |-> NoVersions, status |-> "refreshing"]
    /\ rd' = NewReader
    /\ UNCHANGED <<disk, recent, rows, ctl, ledger, gitOwed, clientVars, workerVars, used>>

(***************************************************************************)
(* The specification.                                                      *)
(***************************************************************************)
Environment ==
    \/ \E p \in Path : \/ \E x \in Edits : Edit(p, x)
                       \/ \E precise \in BOOLEAN : Deliver(p, precise)
    \/ DeliverGit \/ WatcherFails
    \/ Attach \/ AttachWatch \/ Detach \/ Crash

Worker ==
    \/ \E force \in BOOLEAN : WorkerPick(force)
    \/ WorkerBegin \/ WorkerWiden
    \/ InvalidateAll \/ (\E p \in Path : InvalidateOne(p)) \/ InvalidateDone
    \/ MarkInvalidated \/ ListExisting
    \/ (\E p \in Path : DiscoverPath(p) \/ WalkFails(p) \/ StatFails(p)) \/ DiscoverDone
    \/ (\E p \in Path : ReadSource(p) \/ ReadFails(p))
    \/ CommitSource \/ CommitUncached \/ PublishSource \/ ScanDone
    \/ (\E p \in Path : RemoveUnseen(p) \/ RemoveUnreported(p))
    \/ FinishRun \/ FailRun \/ WorkerAfter \/ WorkerRewatch

Reader == ReadSnapshot \/ ReadSearch \/ ReadRespond

Next == Environment \/ Worker \/ Reader

Spec == Init /\ [][Next]_vars

(***************************************************************************)
(* Properties.                                                             *)
(***************************************************************************)
Phases == {"idle", "picked", "begun", "invalidate", "invalidated", "list", "discover",
           "scan", "commit", "publish", "remove", "after", "rewatch"}

JobType ==
    [existing : [Path -> Version \cup {NoVersion}], todo : SUBSET Path,
     files : SUBSET Path, seen : SUBSET Path, walkFailed : BOOLEAN,
     report : ReportType(Path), path : Path, got : Content \cup {"failed"},
     outcome : Outcome, back : {"discover", "scan", "remove"}]

Status == {"none", "building", "refreshing", "degraded", "ready"}
Hits == [Path -> Version \cup {NoVersion}]
ReaderType ==
    [pc : {"idle", "snapshot", "searched"}, token : [observed : Nat, publication : Nat],
     eligible : BOOLEAN, status : Status, hits : Hits]
ReplyType == [hits : Hits, status : Status]
Usage == [edits : Nat, faults : Nat, forces : Nat, attaches : Nat,
          gits : Nat, crashes : Nat, reads : Nat]

(* Every variable has its type; in particular no lease is dropped twice, so  *)
(* the unsigned count of serve_connection never wraps.                       *)
TypeOK ==
    /\ disk \in [Path -> Content] /\ recent \in [Path -> SUBSET Content]
    /\ rows \in [Path -> Row]
    /\ ctl \in ControllerType /\ ledger \in LedgerType(Path)
    /\ watching \in BOOLEAN /\ events \in SUBSET Path
    /\ leases \in Nat /\ attaching \in BOOLEAN
    /\ pc \in Phases /\ ticket \in Ticket /\ job \in JobType
    /\ rd \in ReaderType /\ reply \in ReplyType
    /\ gitOwed \in BOOLEAN /\ used \in Usage

(* Whenever the controller lets reads through, every row a search can return *)
(* holds a content its file has had since the last change observed for it,   *)
(* whatever runs, failures and changes overlap (safe_revision = observed).   *)
NoStaleRead ==
    Eligible(ctl) => \A p \in Path : rows[p].eligible => rows[p].version \in recent[p]

(* The row of p says what p has held since it was last observed: a text it   *)
(* has held, no searchable row if it held none, or a recorded error.         *)
RowAgrees(p) ==
    IF rows[p].eligible THEN rows[p].version \in recent[p]
    ELSE ledger.sources[p].errors \/ ~(recent[p] \subseteq Version)

(* No observed change is forgotten: a path whose row does not agree with it  *)
(* is in the queue or in the scope of the run under way.                     *)
NothingForgotten ==
    \A p \in Path : \/ Covers(ctl.pending, p) \/ Covers(ctl.active.scope, p)
                   \/ RowAgrees(p)

(* Older work never settles a newer change: with no work queued and none      *)
(* running, the latest revision is safe to read, so a status that is no       *)
(* longer "building" or "refreshing" is never about a suppressed index.       *)
SettledIsReadable == Idle(ctl) => Eligible(ctl)

(* A settled ledger describes the database: a searchable row has an outcome  *)
(* of its version, an indexed outcome has its row.                           *)
LedgerMatchesRows ==
    AccountsForAll(ledger) /\ Idle(ctl) =>
        \A p \in Path :
            LET o == ledger.sources[p] IN
            /\ rows[p].eligible => o.known /\ ~o.excluded /\ o.version = rows[p].version
            /\ o.known /\ ~o.errors /\ ~o.excluded => rows[p].eligible

(* The incrementally kept totals are the tally of the ledger's outcomes, so  *)
(* no unsigned subtraction of coverage.rs underflows.                        *)
TotalsMatch == ledger.totals = Tally(ledger.sources, Path)

(* The store never refuses an outcome the scanner wants to publish: the row  *)
(* is in the state the outcome claims from commit to confirmation.           *)
PublicationConfirmed == pc = "publish" => Confirmed

(* A Git change stays requested until a run that took it completes, however  *)
(* many runs are cancelled or fail in between.                               *)
GitNotLost == gitOwed => ctl.gitPending \/ ctl.active.git

(* An answer that is handed out shows only contents its files have had since *)
(* the last observed change, even if a run began, committed or ended between *)
(* the reader's snapshot and its validation.                                 *)
AnswersFresh ==
    [][reply' # reply =>
        \A p \in Path : reply'.hits[p] # NoVersion => reply'.hits[p] \in recent'[p]]_vars

(* An answer that says "ready" misses nothing: a path without a hit has held *)
(* something other than text since it was last observed.                     *)
ReadyIsComplete ==
    [][reply' # reply /\ reply'.status = "ready" =>
        \A p \in Path : reply'.hits[p] = NoVersion => ~(recent'[p] \subseteq Version)]_vars

(* SQLite commit and ledger publication are not atomic; whatever changes the *)
(* searchable rows does so while the status says the coverage is uncertain.  *)
CommitsAreUncertain ==
    [][Searchable(rows') # Searchable(rows) => Snapshot \in {"building", "refreshing"}]_vars
=============================================================================
