----------------------------- MODULE SessionScan -----------------------------
(***************************************************************************)
(* Reconciliation of the session collection: agents write session files    *)
(* record by record, rewrite, replace and delete them; other processes     *)
(* register projects; the session worker invalidates, discovers, streams,  *)
(* normalises, verifies, commits and publishes, appending to what it has   *)
(* already indexed whenever it can.                                        *)
(*                                                                         *)
(* Sources: session_stream.rs (invalidate_scope, scan_observed,            *)
(* read_file_with_retries, read_file, stream_records,                      *)
(* digest_file_controlled, discover_files, associate_cwd), Run::sessions   *)
(* of reconciliation.rs, the session worker and watcher of runtime.rs.     *)
(*                                                                         *)
(* Atomicity: a step is one critical section of the controller, one store  *)
(* transaction, or one look at the file system.  A file is a sequence of   *)
(* records and perhaps the start of one more; an offset is a number of     *)
(* records, and a digest is what it is the digest of.                      *)
(***************************************************************************)
EXTENDS Controller, Coverage, FieldDedup

CONSTANTS
    Provider,     \* the provider each session file belongs to
    Tree,         \* the JSON tree of each record
    Written,      \* the records an agent may write to each file
    Rewritten,    \* what a file may be rewritten or replaced with
    Shown,        \* the fields of a record a reader is promised: [kind, text]
    OwnCallOf,    \* the call of an own tool a record makes, or None
    AnswerTo,     \* the call a record answers, or None
    Initial,      \* the files the program may start with
    Git,          \* for each cwd: the owner a live Git repository names, or None
    Registered,   \* the owner the registry names once the cwd is registered
    Fallback,     \* the owner an unregistered cwd that is not Git resolves to
    Registrable,  \* cwds another process may register
    RegisterDuringScan,   \* whether it may do so while the worker runs
    MaxAppends,   \* records and starts of records written
    MaxRewrites,  \* files rewritten, replaced or deleted
    MaxFaults,    \* failures of I/O or of the store, ends of the process
    MaxCancels,   \* times the worker is told to stop
    MaxRegistrations,
    MaxDisturbances       \* all of these together

Owner == "this owner"
Absent == 0                 \* no file at a path; its files count from 1
NotFile == -1               \* a directory or a link

File == [records : Seq(DOMAIN Tree), tail : BOOLEAN]

(* What the walker captures of each record. *)
Fragments == [r \in DOMAIN Tree |-> [visible \in BOOLEAN |-> Capture(Tree[r], visible)]]
FragmentSet == [path : Seq(STRING), text : Seq(STRING)]

(* A file is never without a version, that of the registry is none of the   *)
(* session files, and a record ends.                                        *)
ASSUME SessionAssumption ==
    /\ Provider \in [Path -> {"codex", "claude", "copilot"}]
    /\ \A r \in DOMAIN Tree : \A visible \in BOOLEAN :
          Fragments[r][visible] \in Seq(FragmentSet)
    /\ NoVersion \notin Seq(DOMAIN Tree) \X BOOLEAN
    /\ "registry" \notin Path
    /\ \A f \in Initial : \A p \in DOMAIN f : f[p] \in File
    /\ Written \in [Path -> SUBSET DOMAIN Tree]
    /\ Rewritten \in [Path -> SUBSET File]
    /\ RegisterDuringScan \in BOOLEAN
    /\ {MaxAppends, MaxRewrites, MaxFaults, MaxCancels, MaxRegistrations,
      MaxDisturbances} \subseteq Nat
    /\ Registrable \subseteq DOMAIN Git

VARIABLES
    files,      \* the number of the file at each path
    content,    \* the content of each file there has been
    registry,   \* the cwds in identity-registry.json
    events,     \* changes the watcher has not delivered yet
    rows,       \* the sources table
    docs,       \* chunks, checkpoint and state of each source
    ctl, ledger,
    pc, ticket, job,
    used        \* how much of each bound is used up

vars == <<files, content, registry, events, rows, docs, ctl, ledger, pc, ticket, job, used>>
diskVars == <<files, content>>
storeVars == <<rows, docs>>
envVars == <<files, content, events>>

(* The n-th file at a path is its own inode; one that is replaced or       *)
(* deleted while it is open is still read.                                 *)
VersionOf(f) == <<f.records, f.tail>>
IsFile(p) == files[p] > Absent
FileAt(p) == content[p][files[p]]

(* What the transaction of a session source leaves besides its row: the    *)
(* chunks, and the PersistedState of the checkpoint.                       *)
NoDocs == [chunks |-> <<>>, offset |-> 0, identity |-> Absent, prefix |-> <<>>,
           nextLine |-> 1, revision |-> {}, session |-> None, diagnostics |-> 0, ids |-> {}]

(***************************************************************************)
(* The locals of one read_file, and of the scan around it.                 *)
(***************************************************************************)
NewRead ==
    [identity |-> Absent, append |-> FALSE, revision |-> {}, line |-> 1, from |-> 0,
     streamed |-> <<>>, saw |-> FALSE, mine |-> FALSE, other |-> FALSE, unknown |-> FALSE,
     hint |-> None, archive |-> NewSpool, prepared |-> <<>>, diagnostics |-> 0,
     tail |-> FALSE]

NewJob ==
    [existing |-> [p \in Path |-> NoVersion], roots |-> {}, todo |-> {}, seen |-> {},
     registry |-> {}, cache |-> {}, report |-> NewReport(Path, FALSE),
     path |-> CHOOSE p \in Path : TRUE, checkpoint |-> FALSE, attempts |-> 0,
     read |-> NewRead, version |-> NoVersion, new |-> NoDocs, outcome |-> NoOutcome]

Init ==
    /\ \E f \in Initial :
          /\ files = [p \in Path |-> IF p \in DOMAIN f THEN 1 ELSE Absent]
          /\ content = [p \in Path |-> IF p \in DOMAIN f THEN <<f[p]>> ELSE <<>>]
    /\ registry = {} /\ events = {}
    /\ rows = [p \in Path |-> NoRow] /\ docs = [p \in Path |-> NoDocs]
    /\ ctl = NewController /\ ledger = NewLedger(Path)
    /\ pc = "idle" /\ ticket = NoTicket /\ job = NewJob
    /\ used = [appends |-> 0, rewrites |-> 0, faults |-> 0, cancels |-> 0, registers |-> 0]

(***************************************************************************)
(* The environment.                                                        *)
(***************************************************************************)
Use(what, bound) ==
    /\ used[what] < bound
    /\ used.appends + used.rewrites + used.faults + used.cancels + used.registers
            < MaxDisturbances
    /\ used' = [used EXCEPT ![what] = @ + 1]
Fault == Use("faults", MaxFaults)

workerVars == <<rows, docs, ctl, ledger, pc, ticket, job>>

WriteFile(p, f) ==
    /\ content' = [content EXCEPT ![p][files[p]] = f]
    /\ events' = events \cup {p}
    /\ UNCHANGED <<files, registry, workerVars>>

(* A record is written at once, or its start now and the rest later. *)
AppendRecord(p, r) ==
    /\ IsFile(p) /\ Use("appends", MaxAppends)
    /\ WriteFile(p, [records |-> Append(FileAt(p).records, r), tail |-> FALSE])

StartRecord(p) ==
    /\ IsFile(p) /\ ~FileAt(p).tail /\ Use("appends", MaxAppends)
    /\ WriteFile(p, [FileAt(p) EXCEPT !.tail = TRUE])

Rewrite(p, f) ==
    /\ IsFile(p) /\ FileAt(p) # f /\ Use("rewrites", MaxRewrites)
    /\ WriteFile(p, f)

Replace(p, f) ==
    /\ Use("rewrites", MaxRewrites)
    /\ content' = [content EXCEPT ![p] = Append(@, f)]
    /\ files' = [files EXCEPT ![p] = Len(content[p]) + 1]
    /\ events' = events \cup {p}
    /\ UNCHANGED <<registry, workerVars>>

Delete(p, left) ==
    /\ IsFile(p) /\ Use("rewrites", MaxRewrites)
    /\ files' = [files EXCEPT ![p] = left]
    /\ events' = events \cup {p}
    /\ UNCHANGED <<content, registry, workerVars>>

(* Another process opens a project, and registers its root. *)
Register(cwd) ==
    /\ cwd \notin registry /\ (pc = "idle" \/ RegisterDuringScan)
    /\ Use("registers", MaxRegistrations)
    /\ registry' = registry \cup {cwd}
    /\ events' = events \cup {"registry"}
    /\ UNCHANGED <<diskVars, workerVars>>

(* session_event_scope: a change of the registry, or an ambiguous one, asks *)
(* for everything.                                                          *)
Deliver(e, precise) ==
    /\ e \in events /\ (precise => e \in Path)
    /\ events' = events \ {e}
    /\ ctl' = Observe(ctl, IF precise THEN Sources({e}) ELSE Full, FALSE)
    /\ UNCHANGED <<diskVars, registry, storeVars, ledger, pc, ticket, job, used>>

(* The process ends; the next one opens the same database. *)
Crash ==
    /\ Fault
    /\ ctl' = NewController /\ ledger' = NewLedger(Path)
    /\ pc' = "idle" /\ ticket' = NoTicket /\ job' = NewJob
    /\ events' = {}
    /\ UNCHANGED <<diskVars, registry, storeVars>>

(***************************************************************************)
(* Run::sessions up to the scan.                                           *)
(***************************************************************************)
Precise == ticket.scope.kind = "sources"
InScope == {p \in Path : Covers(ticket.scope, p)}

WorkerBegin ==
    /\ pc = "idle" /\ CanBegin(ctl)
    /\ ctl' = Begin(ctl) /\ ticket' = NextTicket(ctl) /\ pc' = "invalidate"
    /\ UNCHANGED <<envVars, registry, storeVars, ledger, job, used>>

(* invalidate_scope: the whole collection, or source by source. *)
InvalidateIn(S) == [p \in Path |-> IF p \in S THEN InvalidateRow(rows, p)[p] ELSE rows[p]]

InvalidateScope ==
    /\ pc = "invalidate"
    /\ rows' = InvalidateIn(InScope)
    /\ pc' = "invalidated"
    /\ UNCHANGED <<envVars, registry, docs, ctl, ledger, ticket, job, used>>

MarkInvalidated ==
    /\ pc = "invalidated"
    /\ ctl' = Invalidated(ctl, ticket)
    /\ pc' = "open"
    /\ UNCHANGED <<envVars, registry, storeVars, ledger, ticket, job, used>>

(* scan_observed: the registry is read once, the scope invalidated again,  *)
(* the known sources listed.  A precise scope names its files itself.      *)
OpenScan ==
    /\ pc = "open"
    /\ rows' = InvalidateIn(InScope)
    /\ job' = [NewJob EXCEPT
                 !.registry = registry,
                 !.existing = [p \in Path |-> IF p \in InScope THEN rows[p].version
                                                               ELSE NoVersion],
                 !.roots = IF Precise THEN {} ELSE {Provider[p] : p \in Path},
                 !.todo = IF Precise THEN InScope ELSE {},
                 !.report = [NewReport(Path, ~Precise) EXCEPT !.complete = TRUE]]
    /\ pc' = "discover"
    /\ UNCHANGED <<envVars, registry, docs, ctl, ledger, ticket, used>>

(* discover_files of one provider: regular files only.  A walk that fails  *)
(* or is told to stop has found some of them.                              *)
Under(root) == {p \in Path : Provider[p] = root /\ IsFile(p)}

Discover(root) ==
    /\ pc = "discover" /\ root \in job.roots
    /\ \/ /\ job' = [job EXCEPT !.roots = @ \ {root}, !.todo = @ \cup Under(root)]
          /\ UNCHANGED used
       \/ /\ Fault
          /\ \E found \in SUBSET Under(root) :
                job' = [job EXCEPT !.roots = @ \ {root}, !.todo = @ \cup found,
                                   !.report.complete = FALSE,
                                   !.report.discovery.errors = @ + 1]
       \/ /\ Use("cancels", MaxCancels)
          /\ \E found \in SUBSET Under(root) :
                job' = [job EXCEPT !.roots = @ \ {root}, !.todo = @ \cup found,
                                   !.report.complete = FALSE, !.report.cancelled = TRUE,
                                   !.report.discovery.pending = @ + 1]
    /\ UNCHANGED <<envVars, registry, storeVars, ctl, ledger, pc, ticket>>

DiscoverDone ==
    /\ pc = "discover" /\ job.roots = {}
    /\ job' = [job EXCEPT !.report.scope = job.todo]
    /\ pc' = "scan"
    /\ UNCHANGED <<envVars, registry, storeVars, ctl, ledger, ticket, used>>

(***************************************************************************)
(* One file of the scan.                                                   *)
(***************************************************************************)
Failed == [known |-> TRUE, version |-> NoVersion, errors |-> TRUE,
           excluded |-> FALSE, pending |-> FALSE]
ExcludedWith(errors, pending) == [known |-> TRUE, version |-> NoVersion, errors |-> errors,
                                  excluded |-> TRUE, pending |-> pending]

(* The row goes, if the scan knows of one, before the outcome is recorded. *)
RemoveOld(p) ==
    IF job.existing[p] = NoVersion THEN UNCHANGED storeVars
    ELSE rows' = RemoveRow(rows, p) /\ docs' = [docs EXCEPT ![p] = NoDocs]

Settle(j, p, outcome) ==
    /\ RemoveOld(p)
    /\ job' = [j EXCEPT !.path = p, !.todo = @ \ {p}, !.seen = @ \cup {p},
                        !.version = NoVersion, !.outcome = outcome,
                        !.read = NewRead, !.checkpoint = FALSE, !.attempts = 0]
    /\ pc' = "publish"

(* symlink_metadata. *)
StatFile(p) ==
    /\ pc = "scan" /\ p \in job.todo
    /\ \/ /\ IsFile(p)
          /\ job' = [job EXCEPT !.path = p, !.checkpoint = Present(rows[p]), !.attempts = 0]
          /\ pc' = "read"
          /\ UNCHANGED <<storeVars, used>>
       \/ files[p] = Absent /\ Settle(job, p, NoOutcome) /\ UNCHANGED used
       \/ files[p] = NotFile /\ Settle(job, p, ExcludedWith(FALSE, FALSE)) /\ UNCHANGED used
       \/ Fault /\ Settle(job, p, Failed)
    /\ UNCHANGED <<envVars, registry, ctl, ledger, ticket>>

(***************************************************************************)
(* read_file_with_retries.  An attempt with a checkpoint that comes to     *)
(* nothing is repeated without it; an unstable one twice more.             *)
(***************************************************************************)
RetryWith(j) ==
    job' = [j EXCEPT !.read = NewRead] /\ pc' = "read" /\ UNCHANGED storeVars

Reject(j, outcome) ==
    IF j.checkpoint THEN RetryWith([j EXCEPT !.checkpoint = FALSE])
    ELSE Settle(j, j.path, outcome)

AttemptFails(j, unstable) ==
    CASE j.checkpoint -> RetryWith([j EXCEPT !.checkpoint = FALSE])
      [] ~j.checkpoint /\ unstable /\ j.attempts < 2 ->
            RetryWith([j EXCEPT !.attempts = @ + 1])
      [] OTHER -> Settle(j, j.path, [Failed EXCEPT !.pending = j.read.tail])

(* read_file begins: may it append to what is indexed?  The revision is    *)
(* that of the registry's file, not of the copy the scan has read.         *)
CanAppendAnyRegistry(p) ==
    /\ job.existing[p] # NoVersion /\ job.checkpoint
    /\ docs[p].identity = files[p]
    /\ docs[p].offset <= Len(FileAt(p).records)
CanAppend(p) ==
    /\ job.existing[p] # NoVersion /\ job.checkpoint
    /\ docs[p].identity = files[p] /\ docs[p].revision = registry
    /\ docs[p].offset <= Len(FileAt(p).records)

StartRead ==
    LET p == job.path
        new == [NewRead EXCEPT !.identity = files[p], !.revision = registry]
    IN
    /\ pc = "read"
    /\ IF IsFile(p)
       THEN /\ job' = [job EXCEPT !.read =
                 IF CanAppend(p)
                 THEN [new EXCEPT !.append = TRUE, !.mine = TRUE, !.line = docs[p].nextLine,
                                  !.from = docs[p].offset]
                 ELSE new]
            /\ pc' = "stream"
            /\ UNCHANGED storeVars
       ELSE AttemptFails(job, FALSE)
    /\ UNCHANGED <<envVars, registry, ctl, ledger, ticket, used>>

(***************************************************************************)
(* stream_records and what read_file does with each record: it is captured *)
(* into the archive, and its cwd, if it names one, is attributed.          *)
(***************************************************************************)
OpenFile == content[job.path][job.read.identity]
Position(read) == read.from + Len(read.streamed)

Inspect(read, provider, r) ==
    LET visible == ~read.other /\ ~read.unknown
        f == Fragments[r][visible]
        m == Metadata(f)
        next == [read EXCEPT !.streamed = Append(@, r), !.line = @ + 1]
        start == SpoolLen(read.archive)
    IN  IF Tree[r] = Malformed
        THEN [next EXCEPT !.diagnostics = @ + 1,
                          !.prepared = Append(@, [record |-> r, line |-> read.line,
                                                  start |-> 0, end |-> 0, malformed |-> TRUE])]
        ELSE [next EXCEPT !.diagnostics = @ + IF TruncatedMetadata(m) THEN 1 ELSE 0,
                          !.hint = OrElse(@, Summary(provider, m).session),
                          !.archive = Write(@, f),
                          !.prepared = Append(@, [record |-> r, line |-> read.line,
                                                  start |-> start, end |-> start + Len(f),
                                                  malformed |-> FALSE])]

CwdOf(provider, r) ==
    IF Tree[r] = Malformed THEN None
    ELSE Summary(provider, Metadata(Fragments[r][TRUE])).cwd

(* associate_cwd: live Git metadata, then the registry, then the folder. *)
AssociateCwd(cwd) ==
    CASE Git[cwd] # None -> Git[cwd]
      [] Git[cwd] = None /\ cwd \in job.registry -> Registered[cwd]
      [] OTHER -> Fallback[cwd]
CwdOwner(cwd) == IF HasKey(job.cache, cwd) THEN ValueAt(job.cache, cwd) ELSE AssociateCwd(cwd)

Attribute(read, owner) ==
    [read EXCEPT !.saw = TRUE, !.mine = @ \/ owner = Owner,
                 !.other = @ \/ owner \notin {Owner, None}, !.unknown = @ \/ owner = None]

(* remember_verified: a live Git worktree is written to the registry, which *)
(* is read again for it.                                                    *)
Remembers(cwd) == cwd # None /\ Git[cwd] # None /\ ~HasKey(job.cache, cwd)

StreamRecord ==
    LET p == job.path
        r == OpenFile.records[Position(job.read) + 1]
        cwd == CwdOf(Provider[p], r)
        read == Inspect(job.read, Provider[p], r)
    IN
    /\ pc = "stream" /\ Position(job.read) < Len(OpenFile.records)
    /\ registry' = IF Remembers(cwd) THEN registry \cup {cwd} ELSE registry
    /\ events' = IF registry' # registry THEN events \cup {"registry"} ELSE events
    /\ job' = IF cwd = None THEN [job EXCEPT !.read = read]
              ELSE [job EXCEPT !.read = Attribute(read, CwdOwner(cwd)),
                               !.cache = InsertOrIgnore(@, cwd, CwdOwner(cwd)),
                               !.registry = IF Remembers(cwd) THEN registry' ELSE @]
    /\ UNCHANGED <<diskVars, storeVars, ctl, ledger, pc, ticket, used>>

(* The end of the file: what follows the last newline stays pending, and    *)
(* the file is this project's only if every cwd in it is.                   *)
StreamEnd ==
    LET read == [job.read EXCEPT
                   !.tail = OpenFile.tail /\ Position(job.read) = Len(OpenFile.records)]
        j == [job EXCEPT !.read = read]
        unowned == ~read.saw /\ ~read.append
        foreign == read.other /\ ~read.mine /\ ~read.unknown
    IN
    /\ pc = "stream" /\ Position(job.read) >= Len(OpenFile.records)
    /\ CASE unowned -> Reject(j, ExcludedWith(TRUE, read.tail))
         [] ~unowned /\ foreign -> Reject(j, ExcludedWith(read.diagnostics > 0, read.tail))
         [] ~unowned /\ ~foreign /\ (read.other \/ read.unknown \/ ~read.mine) ->
                Reject(j, ExcludedWith(TRUE, read.tail))
         [] OTHER -> job' = j /\ pc' = "verify" /\ UNCHANGED storeVars
    /\ UNCHANGED <<envVars, registry, ctl, ledger, ticket, used>>

(***************************************************************************)
(* The second pass: each record is read back and normalised, unless its    *)
(* event has been seen.  `n` accumulates the chunks, the identifiers, the  *)
(* session and the diagnostics; a malformed record counts here once more.  *)
(***************************************************************************)
NormaliseRecord(provider, f, record, line, n) ==
    LET s == Summary(provider, f)
        seen == s.event # None /\ HasId(n.ids, "seen_event", <<s.event, record>>)
        ids == IF s.event = None THEN n.ids
               ELSE InsertId(n.ids, "seen_event", <<s.event, record>>, "")
        session == OrElse(s.session, n.session)
        out == Normalize(provider, s, f, ids, session)
    IN  IF seen THEN n
        ELSE [chunks |-> n.chunks \o ChunksOf(out.items, line), ids |-> out.ids,
              session |-> session, diagnostics |-> n.diagnostics + Reports(s, out)]

NormaliseItem(provider, archive, item, n) ==
    IF item.malformed THEN [n EXCEPT !.diagnostics = @ + 1]
    ELSE NormaliseRecord(provider, ReadRange(archive, item.start, item.end),
                         item.record, item.line, n)

NormaliseAll(provider, read, start) ==
    LET after[i \in 0..Len(read.prepared)] ==
            IF i = 0 THEN start
            ELSE NormaliseItem(provider, Flush(read.archive), read.prepared[i], after[i - 1])
    IN  after[Len(read.prepared)]

NormalisedForgets(p, read) ==
    LET d == IF read.append THEN docs[p] ELSE NoDocs IN
    NormaliseAll(Provider[p], read,
                 [chunks |-> d.chunks, ids |-> NewIds(read.append, d.ids),
                  session |-> OrElse(d.session, read.hint), diagnostics |-> read.diagnostics])
Normalised(p, read) ==
    LET d == IF read.append THEN docs[p] ELSE NoDocs IN
    NormaliseAll(Provider[p], read,
                 [chunks |-> d.chunks, ids |-> NewIds(read.append, d.ids),
                  session |-> OrElse(d.session, read.hint),
                  diagnostics |-> d.diagnostics + read.diagnostics])

(* digest_file_controlled and file_identity: the file is still the one that *)
(* was opened, holds what was streamed, and before it what was indexed.     *)
UnchangedTail(p, read) ==
    LET f == FileAt(p) IN
    /\ SubSeq(f.records, read.from + 1, Len(f.records)) = read.streamed
    /\ f.tail = read.tail
Unchanged(p, read) ==
    LET f == FileAt(p) IN
    /\ files[p] = read.identity
    /\ SubSeq(f.records, read.from + 1, Len(f.records)) = read.streamed
    /\ f.tail = read.tail
    /\ read.append => IsPrefix(docs[p].prefix, f.records)

(* The chunks and the checkpoint to commit, and the locals of the scan. *)
DocsOf(p, read, n) ==
    [chunks |-> n.chunks, offset |-> Position(read),
     identity |-> files[p], prefix |-> FileAt(p).records,
     nextLine |-> read.line, revision |-> read.revision,
     session |-> n.session, diagnostics |-> n.diagnostics,
     ids |-> n.ids.committed \cup {n.ids.updates[i] : i \in DOMAIN n.ids.updates}]

Verified(p, n) ==
    /\ job' = [job EXCEPT
         !.version = VersionOf(FileAt(p)), !.new = DocsOf(p, job.read, n),
         !.outcome = [known |-> TRUE, version |-> VersionOf(FileAt(p)),
                      errors |-> n.diagnostics > 0, excluded |-> FALSE,
                      pending |-> job.read.tail],
         !.todo = @ \ {p}, !.seen = @ \cup {p}, !.read = NewRead,
         !.checkpoint = FALSE, !.attempts = 0]
    /\ pc' = "commit" /\ UNCHANGED storeVars

VerifyRead ==
    LET p == job.path IN
    /\ pc = "verify"
    /\ CASE ~IsFile(p) -> AttemptFails(job, FALSE)
         [] IsFile(p) /\ ~Unchanged(p, job.read) -> AttemptFails(job, TRUE)
         [] OTHER -> Verified(p, Normalised(p, job.read))
    /\ UNCHANGED <<envVars, registry, ctl, ledger, ticket, used>>

(* The file cannot be read, the registry not written, a scratch not made. *)
ReadFails ==
    /\ pc \in {"read", "stream", "verify"} /\ Fault
    /\ AttemptFails(job, FALSE)
    /\ UNCHANGED <<envVars, registry, ctl, ledger, ticket>>

(***************************************************************************)
(* Commit, publication and the end of the scan.                            *)
(***************************************************************************)
(* append_session_with_state or replace_session_with_state, one transaction. *)
CommitSession ==
    /\ pc = "commit"
    /\ rows' = ReplaceRow(rows, job.path, job.version)
    /\ docs' = [docs EXCEPT ![job.path] = job.new]
    /\ job' = [job EXCEPT !.new = NoDocs]
    /\ pc' = "publish"
    /\ UNCHANGED <<envVars, registry, ctl, ledger, ticket, used>>

RecordOutcome(p, outcome) ==
    /\ ctl' = Published(ctl, ticket)
    /\ ledger' = IF Matches(ctl, ticket) THEN PublishOutcome(ledger, p, outcome) ELSE ledger

Confirmed ==
    IF job.outcome = NoOutcome THEN ConfirmsRemoval(rows[job.path])
    ELSE ConfirmsPublication(rows[job.path], job.version)

PublishSource ==
    /\ pc = "publish" /\ Confirmed
    /\ RecordOutcome(job.path, job.outcome)
    /\ job' = [job EXCEPT !.report.reported = @ \cup {job.path},
                          !.report.outcome[job.path] = job.outcome,
                          !.outcome = NoOutcome, !.version = NoVersion]
    /\ pc' = "scan"
    /\ UNCHANGED <<envVars, registry, storeVars, ticket, used>>

(* should_continue says no: between files, between records, before or in a  *)
(* transaction, which is then rolled back.                                  *)
CancelScan ==
    /\ \/ pc = "scan" /\ job.todo # {}
       \/ pc \in {"read", "stream", "verify", "commit"}
    /\ Use("cancels", MaxCancels)
    /\ job' = [job EXCEPT !.report.cancelled = TRUE, !.read = NewRead, !.new = NoDocs]
    /\ pc' = "finish"
    /\ UNCHANGED <<envVars, registry, storeVars, ctl, ledger, ticket>>

(* Known sources of the scope that the scan has not met, if it has met all  *)
(* that a complete walk could find.                                         *)
Unseen ==
    IF job.report.complete
    THEN {p \in InScope : job.existing[p] # NoVersion} \ job.seen ELSE {}

RemoveUnseen(p) ==
    /\ pc = "scan" /\ job.todo = {} /\ p \in Unseen
    /\ rows' = RemoveRow(rows, p) /\ docs' = [docs EXCEPT ![p] = NoDocs]
    /\ job' = [job EXCEPT !.path = p, !.seen = @ \cup {p}, !.version = NoVersion,
                          !.outcome = NoOutcome]
    /\ pc' = "publish"
    /\ UNCHANGED <<envVars, registry, ctl, ledger, ticket, used>>

EndRun(failed, report) ==
    /\ ctl' = IF Matches(ctl, ticket)
              THEN Finish(ctl, ticket, failed, ~failed /\ Completed(report)) ELSE ctl
    /\ ledger' = CASE ~Matches(ctl, ticket) -> ledger
                    [] Matches(ctl, ticket) /\ failed -> ApplyError(ledger)
                    [] OTHER -> ApplyReport(ledger, report)
    /\ pc' = "idle" /\ ticket' = NoTicket /\ job' = NewJob

(* The answer of should_continue is asked for once more at the end. *)
FinishRun ==
    /\ pc = "finish" \/ (pc = "scan" /\ job.todo = {} /\ Unseen = {})
    /\ \/ EndRun(FALSE, job.report) /\ UNCHANGED used
       \/ ~job.report.cancelled /\ Use("cancels", MaxCancels)
          /\ EndRun(FALSE, [job.report EXCEPT !.cancelled = TRUE])
    /\ UNCHANGED <<envVars, registry, storeVars>>

(* The store, the registry or a spool that cannot be finished fails the run; *)
(* an invalidation source by source may have done a part of its work.        *)
FailRun ==
    /\ pc \in {"invalidate", "open", "scan", "stream", "verify", "commit", "publish"} /\ Fault
    /\ IF pc = "invalidate" /\ Precise
       THEN \E S \in SUBSET InScope : rows' = InvalidateIn(S)
       ELSE UNCHANGED rows
    /\ EndRun(TRUE, job.report)
    /\ UNCHANGED <<envVars, registry, docs>>

WorkerStep ==
    \/ WorkerBegin \/ InvalidateScope \/ MarkInvalidated \/ OpenScan
    \/ (\E p \in Path : Discover(Provider[p])) \/ DiscoverDone
    \/ (\E p \in Path : StatFile(p) \/ RemoveUnseen(p))
    \/ StartRead \/ StreamRecord \/ StreamEnd \/ VerifyRead \/ ReadFails
    \/ CommitSession \/ PublishSource \/ CancelScan
    \/ FinishRun \/ FailRun

Environment ==
    \/ \E p \in Path :
          \/ Written[p] # {} /\ StartRecord(p)
          \/ \E r \in Written[p] : AppendRecord(p, r)
          \/ Rewritten[p] # {} /\ (Delete(p, Absent) \/ Delete(p, NotFile))
          \/ \E f \in Rewritten[p] : Rewrite(p, f) \/ Replace(p, f)
    \/ \E cwd \in Registrable : Register(cwd)
    \/ \E e \in events, precise \in BOOLEAN : Deliver(e, precise)
    \/ Crash

Next == WorkerStep \/ Environment

Spec == Init /\ [][Next]_vars

(***************************************************************************)
(* Properties.                                                             *)
(***************************************************************************)
(* What reading `records` from the start would leave. *)
ReadAll(provider, records) ==
    LET after[i \in 0..Len(records)] ==
            IF i = 0 THEN NewRead ELSE Inspect(after[i - 1], provider, records[i])
    IN  after[Len(records)]
RebuildOf(p, read) ==
    NormaliseAll(Provider[p], read, [chunks |-> <<>>, ids |-> NewIds(FALSE, {}),
                                     session |-> read.hint, diagnostics |-> read.diagnostics])
Rebuild(p, records) == RebuildOf(p, ReadAll(Provider[p], records))

(* What a commit leaves of a file, after however many reads and whatever     *)
(* happened while they ran, is what one read of its indexed version would    *)
(* have left: the same chunks in the same lines, identifiers, diagnostics    *)
(* and checkpoint.  Only the session of a record read before the file named  *)
(* one may still be unknown.                                                 *)
SameButSession(c, r) ==
    /\ c.session \in {r.session, "unknown"}
    /\ [c EXCEPT !.session = r.session] = r
AsRebuilt(d, n) ==
    /\ d.offset = Len(d.prefix) /\ d.nextLine = d.offset + 1
    /\ d.diagnostics = n.diagnostics /\ d.ids = n.ids.local
    /\ DOMAIN d.chunks = DOMAIN n.chunks
    /\ \A i \in DOMAIN d.chunks : SameButSession(d.chunks[i], n.chunks[i])
Committed(p) == pc = "publish" /\ job.path = p /\ job.version # NoVersion
IndexedAsRebuilt ==
    \A p \in Path : Committed(p) =>
        /\ docs[p].prefix = rows[p].version[1]
        /\ AsRebuilt(docs[p], Rebuild(p, docs[p].prefix))

(* A record whose event the file has already shown is not shown again, and   *)
(* one that answers a call of this program's own tools is not shown at all.  *)
Repeated(p, i) == \E j \in 1..(i - 1) : docs[p].prefix[j] = docs[p].prefix[i]
OwnAnswer(p, i) ==
    LET records == docs[p].prefix IN
    /\ AnswerTo[records[i]] # None
    /\ \E j \in 1..(i - 1) : OwnCallOf[records[j]] = AnswerTo[records[i]]
ChunksAt(p, line) == Among(docs[p].chunks, {c \in Range(docs[p].chunks) : c.line = line})

(* Every visible field of a record is indexed once and whole, in chunks of   *)
(* the size of a chunk, under the record's own line, whatever the sizes at   *)
(* which its text is cut, spilled and read back, and however the file grew   *)
(* ("Identical visible message/result fields within one event are indexed    *)
(* once", README).                                                           *)
Cut(text) ==
    [i \in 1..((Len(text) + ChunkUnits - 1) \div ChunkUnits) |->
        SubSeq(text, (i - 1) * ChunkUnits + 1, Min({i * ChunkUnits, Len(text)}))]
FieldsKept ==
    \A p \in Path : Committed(p) =>
        \A i \in DOMAIN docs[p].prefix :
            LET shown == Shown[docs[p].prefix[i]]
                chunks == ChunksAt(p, i)
            IN  ~Repeated(p, i) /\ ~OwnAnswer(p, i) =>
                    [k \in DOMAIN chunks |-> [kind |-> chunks[k].kind, text |-> chunks[k].text]]
                    = FlattenSeq([n \in DOMAIN shown |->
                          LET pieces == Cut(shown[n].text) IN
                          [k \in DOMAIN pieces |->
                              [kind |-> shown[n].kind, text |-> pieces[k]]]])

(* No chunk comes from the answer to a call of this program's own tools,     *)
(* though call and answer may be met by different reads, or processes        *)
(* ("Calls remain searchable; these tools' returned result bodies are        *)
(* excluded", README).                                                       *)
OwnResultsExcluded ==
    \A p \in Path : Committed(p) =>
        \A i \in DOMAIN docs[p].prefix : OwnAnswer(p, i) =>
            \A k \in DOMAIN docs[p].chunks : docs[p].chunks[k].line # i

(* Nothing is left to do, and reads are let through. *)
Settled == pc = "idle" /\ events = {} /\ Idle(ctl) /\ Eligible(ctl)

(* Every cwd the file names is this project's, and there is one. *)
CwdsOf(p) == {CwdOf(Provider[p], FileAt(p).records[i]) : i \in DOMAIN FileAt(p).records} \ {None}
OwnerNow(cwd) ==
    CASE Git[cwd] # None -> Git[cwd]
      [] Git[cwd] = None /\ cwd \in registry -> Registered[cwd]
      [] OTHER -> Fallback[cwd]
Owned(p) == IsFile(p) /\ CwdsOf(p) # {} /\ \A cwd \in CwdsOf(p) : OwnerNow(cwd) = Owner

(* Once everything has settled a file is searchable only at its present      *)
(* version, and unless its reading failed, it is searchable if and only if   *)
(* it is this project's: whatever was appended, rewritten, replaced, deleted *)
(* or registered, and whenever the worker was stopped or died.               *)
SettledIsCurrent ==
    Settled => \A p \in Path :
        /\ rows[p].eligible => IsFile(p) /\ rows[p].version = VersionOf(FileAt(p))
        /\ rows[p].eligible => Owned(p)
        /\ Owned(p) => rows[p].eligible \/ ledger.sources[p].errors

(* A record is diagnosed if it is malformed, if a metadata value of it is    *)
(* past the bound or one too many, if the provider has no such kind of       *)
(* record, or if its timestamp cannot be parsed.  However long, the argument *)
(* or the result of a tool is none of these.                                 *)
Diagnosed(p, r) ==
    LET f == Fragments[r][TRUE]
        s == Summary(Provider[p], f)
    IN  \/ Tree[r] = Malformed \/ TruncatedMetadata(Metadata(f))
        \/ Reports(s, Normalize(Provider[p], s, f, NewIds(FALSE, {}), None)) > 0

(* The ledger of a settled collection describes it file by file: a partial   *)
(* last record is pending, a diagnosed one an error, also when an earlier    *)
(* read met it, and a file that is not indexed is excluded or an error.      *)
Described(p) ==
    LET o == ledger.sources[p] IN
    IF rows[p].eligible
    THEN o = [known |-> TRUE, version |-> rows[p].version, excluded |-> FALSE,
              errors |-> \E i \in DOMAIN FileAt(p).records : Diagnosed(p, FileAt(p).records[i]),
              pending |-> FileAt(p).tail]
    ELSE /\ o.version = NoVersion /\ o.known = (o.errors \/ o.excluded)
         /\ IsFile(p) => o.known
         /\ files[p] = Absent => ~o.excluded /\ ~o.pending
SettledLedger == Settled /\ AccountsForAll(ledger) => \A p \in Path : Described(p)

(* A file that belongs to a registered project under this one is not         *)
(* searchable here once everything has settled ("More-specific registered    *)
(* plain-folder projects take precedence over their parents", README).       *)
OwnershipRespected == Settled => \A p \in Path : rows[p].eligible => Owned(p)
=============================================================================
