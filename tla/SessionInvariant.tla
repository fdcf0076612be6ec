-------------------------- MODULE SessionInvariant --------------------------
(***************************************************************************)
(* The inductive invariant behind what SessionScan promises of a settled   *)
(* collection.                                                             *)
(*                                                                         *)
(* The argument: a path is noticed while a change of it, or of the         *)
(* registry, is still to be delivered or is queued.  Whatever the worker   *)
(* holds of a file - what it has streamed, what it is about to commit, the *)
(* outcome in hand, the report - is true of the file as it is now, or the  *)
(* path is noticed; so is every searchable row and every entry of the      *)
(* ledger, but for those the run has still to come to.                     *)
(***************************************************************************)
EXTENDS SessionScan

SessionVersion == Seq(DOMAIN Tree) \X BOOLEAN
Before == {"invalidate", "invalidated", "open"}
Attempts == {"stream", "verify"}
Reading == {"read"} \cup Attempts
Scans == {"discover", "scan", "commit", "publish", "finish"} \cup Reading

(* The watcher still has a change of the path to deliver, or the queue       *)
(* covers it.                                                                *)
Noticed(p) == p \in events \/ "registry" \in events \/ Covers(ctl.pending, p)

(***************************************************************************)
(* Types.  What is only ever handed on (chunks, identifiers) has none.      *)
(***************************************************************************)
SessionRow == [version : SessionVersion \cup {NoVersion}, eligible : BOOLEAN]
SessionOutcome == [known : BOOLEAN, version : SessionVersion \cup {NoVersion},
                   errors : BOOLEAN, excluded : BOOLEAN, pending : BOOLEAN]
SessionLedger ==
    [sources : [Path -> SessionOutcome], totals : Counts,
     discovery : Counts, scopedDiscovery : Counts,
     reconstructed : BOOLEAN, unfinished : BOOLEAN, scanFailed : BOOLEAN,
     discoveryUncertain : BOOLEAN, unfinishedSources : SUBSET Path, reconciled : BOOLEAN]
SessionReport ==
    [full : BOOLEAN, cancelled : BOOLEAN, complete : BOOLEAN,
     reported : SUBSET Path, outcome : [Path -> SessionOutcome], discovery : Counts,
     scope : SUBSET Path]

Archive == [memory : Seq(FragmentSet), buffered : Seq(FragmentSet),
            flushed : Seq(FragmentSet), onFile : BOOLEAN]
Prepared == [record : DOMAIN Tree, line : Nat, start : Nat, end : Nat, malformed : BOOLEAN]

IsRead(r) ==
    /\ r = [identity |-> r.identity, append |-> r.append, revision |-> r.revision,
            line |-> r.line, from |-> r.from, streamed |-> r.streamed, saw |-> r.saw,
            mine |-> r.mine, other |-> r.other, unknown |-> r.unknown, hint |-> r.hint,
            archive |-> r.archive, prepared |-> r.prepared,
            diagnostics |-> r.diagnostics, tail |-> r.tail]
    /\ {r.append, r.saw, r.mine, r.other, r.unknown, r.tail} \subseteq BOOLEAN
    /\ {r.line, r.from, r.diagnostics} \subseteq Nat /\ r.streamed \in Seq(DOMAIN Tree)
    /\ r.archive \in Archive /\ r.prepared \in Seq(Prepared)

IsDocs(d) ==
    {d.offset, d.nextLine, d.diagnostics} \subseteq Nat /\ d.prefix \in Seq(DOMAIN Tree)

IsJob(j) ==
    /\ j = [existing |-> j.existing, roots |-> j.roots, todo |-> j.todo, seen |-> j.seen,
            registry |-> j.registry, cache |-> j.cache, report |-> j.report,
            path |-> j.path, checkpoint |-> j.checkpoint, attempts |-> j.attempts,
            read |-> j.read, version |-> j.version, new |-> j.new, outcome |-> j.outcome]
    /\ j.existing \in [Path -> SessionVersion \cup {NoVersion}]
    /\ j.todo \subseteq Path /\ j.seen \subseteq Path
    /\ j.report \in SessionReport /\ j.checkpoint \in BOOLEAN
    /\ IsRead(j.read) /\ IsDocs(j.new)
    /\ j.version \in SessionVersion \cup {NoVersion} /\ j.outcome \in SessionOutcome

TypeOK ==
    /\ content \in [Path -> Seq(File)] /\ files \in [Path -> Int]
    /\ \A p \in Path : files[p] \in {Absent, NotFile} \cup DOMAIN content[p]
    /\ events \subseteq Path \cup {"registry"}
    /\ rows \in [Path -> SessionRow]
    /\ docs = [p \in Path |-> docs[p]] /\ \A p \in Path : IsDocs(docs[p])
    /\ ctl \in ControllerType /\ ticket \in Ticket /\ ledger \in SessionLedger
    /\ pc \in {"idle"} \cup Before \cup Scans
    /\ IsJob(job)
    /\ pc \in Scans \ {"discover", "scan", "finish"} => job.path \in Path

(***************************************************************************)
(* The run and its scope.                                                  *)
(***************************************************************************)
(* The run of the controller is the worker's. *)
RunHeld ==
    /\ ctl.active = ticket
    /\ pc = "idle" <=> ticket = NoTicket
    /\ pc # "idle" => ticket.scope # NoScope /\ ticket.run # 0
    /\ pc \notin Scans => job = NewJob

(* What the scan has met and not reported: the path it is at. *)
Current == IF pc \in {"commit", "publish"} THEN {job.path} ELSE {}

(* The scan's locals are about its scope; what is not done with has the row  *)
(* it was listed with, and no searchable one.                                *)
OwnScope ==
    pc \in Scans =>
        /\ job.todo \cup job.seen \subseteq InScope /\ job.todo \cap job.seen = {}
        /\ job.report.reported \subseteq job.seen
        /\ pc # "finish" => job.seen = job.report.reported \cup Current
        /\ pc = "finish" => job.report.cancelled
        /\ pc \in Reading => job.path \in job.todo
        /\ Current \cap job.report.reported = {}
        /\ job.report.full <=> ~Precise
        /\ pc # "discover" \/ Precise => job.roots = {}
        /\ pc = "discover" => job.seen = {}
        /\ \A p \in Path : job.existing[p] # NoVersion => p \in InScope
        /\ \A p \in InScope \ job.seen :
              ~rows[p].eligible /\ rows[p].version = job.existing[p]
        /\ pc = "commit" => ~rows[job.path].eligible
        /\ pc \in Reading /\ job.checkpoint => Present(rows[job.path])
        /\ pc \in Attempts \/ job.read = NewRead
        /\ \A p \in job.report.reported : ledger.sources[p] = job.report.outcome[p]

(* A complete walk has found every file, but for those that came later. *)
Found ==
    pc \in Scans /\ job.report.complete =>
        \A p \in InScope :
            \/ p \in job.todo \cup job.seen
            \/ ~Precise /\ (Noticed(p) \/ Provider[p] \in job.roots \/ ~IsFile(p))

(***************************************************************************)
(* Ownership.  It is settled unless a project is registered while a scan   *)
(* is under way.                                                           *)
(***************************************************************************)
OwnerUnder(known, cwd) ==
    CASE Git[cwd] # None -> Git[cwd]
      [] Git[cwd] = None /\ cwd \in known -> Registered[cwd]
      [] OTHER -> Fallback[cwd]
Agree(a, b) == \A cwd \in a \cup b : Git[cwd] = None => cwd \in a \cap b
Named(p, record) == CwdOf(Provider[p], record)
OwnedUnder(known, p, records) ==
    /\ \E i \in DOMAIN records : Named(p, records[i]) # None
    /\ \A i \in DOMAIN records : LET cwd == Named(p, records[i]) IN
          cwd # None => OwnerUnder(known, cwd) = Owner

(* The records before a checkpoint were this project's under the registry of *)
(* its revision; what the scan knows of the registry, and has cached, is so  *)
(* still; and a read has seen of every record it streamed whose it is.       *)
Attributed(p, read) ==
    LET owner(i) == OwnerUnder(registry, Named(p, read.streamed[i]))
        named == {i \in DOMAIN read.streamed : Named(p, read.streamed[i]) # None}
    IN  /\ Agree(read.revision, registry)
        /\ read.append => Agree(docs[p].revision, registry)
        /\ \A i \in named : owner(i) = Owner \/ read.other \/ read.unknown
        /\ read.other => \E i \in named : owner(i) # Owner
        /\ read.saw /\ ~read.append => named # {}

OwnersKept ==
    ~RegisterDuringScan =>
        /\ \A p \in Path : Present(rows[p]) =>
              OwnedUnder(docs[p].revision, p, docs[p].prefix)
        /\ pc \in Scans => /\ Agree(job.registry, registry)
                           /\ \A x \in job.cache : x.value = OwnerUnder(registry, x.key)
        /\ pc \in Attempts =>
              \A p \in {job.path}, read \in {job.read} : Attributed(p, read)
        /\ pc = "verify" => /\ job.read.saw \/ job.read.append
                            /\ ~job.read.other /\ ~job.read.unknown
        /\ pc = "commit" => /\ OwnedUnder(job.new.revision, job.path, job.new.prefix)
                            /\ Agree(job.new.revision, registry)

(***************************************************************************)
(* What the worker holds of a file.  (Here and below a local of the scan   *)
(* is named by a quantifier over it alone.)                                *)
(***************************************************************************)
Unmoved(p, read) ==
    /\ files[p] = read.identity /\ Position(read) <= Len(FileAt(p).records)
    /\ \A i \in DOMAIN read.streamed : FileAt(p).records[read.from + i] = read.streamed[i]

ReadIs(p, read) ==
    /\ read.from = IF read.append THEN docs[p].offset ELSE 0
    /\ read.identity \in DOMAIN content[p]
    /\ Noticed(p) \/ Unmoved(p, read)
ReadTrue ==
    pc \in Attempts =>
        /\ job.read.append => job.checkpoint
        /\ \A p \in {job.path}, read \in {job.read} : ReadIs(p, read)

CurrentVersion(p, version) == IsFile(p) /\ version = VersionOf(FileAt(p))
OwnedNow(p) == RegisterDuringScan \/ OwnedUnder(registry, p, FileAt(p).records)

IndexedAs(version, diagnostics) ==
    [known |-> TRUE, version |-> version, errors |-> diagnostics > 0, excluded |-> FALSE,
     pending |-> version[2]]

CommitTrue ==
    pc = "commit" =>
        /\ job.version # NoVersion /\ job.version[1] = job.new.prefix
        /\ job.new.offset = Len(job.new.prefix)
        /\ job.outcome = IndexedAs(job.version, job.new.diagnostics)
        /\ \A p \in {job.path}, v \in {job.version} : Noticed(p) \/ CurrentVersion(p, v)

(* A searchable row shows the file as it is. *)
RowTrue(p) == CurrentVersion(p, rows[p].version) /\ OwnedNow(p)
RowsTrue ==
    \A p \in Path :
        /\ rows[p].eligible => Present(rows[p])
        /\ Present(rows[p]) => /\ docs[p].prefix = rows[p].version[1]
                               /\ docs[p].offset = Len(docs[p].prefix)
        /\ rows[p].eligible =>
              Noticed(p) \/ (pc = "invalidate" /\ p \in InScope) \/ RowTrue(p)

(* An outcome describes the path: a file that is not searchable is excluded  *)
(* or an error, and if it is this project's an error.                        *)
Unindexed(p, o) ==
    /\ o.version = NoVersion /\ o.known = (o.errors \/ o.excluded)
    /\ IsFile(p) => o.known
    /\ files[p] = Absent => ~o.excluded /\ ~o.pending
    /\ ~RegisterDuringScan /\ Owned(p) => o.errors
Tells(p, o) ==
    IF rows[p].eligible THEN o = IndexedAs(rows[p].version, docs[p].diagnostics)
    ELSE Unindexed(p, o)
EntryTrue(p) == Tells(p, ledger.sources[p])

(* What the run has still to report. *)
Rest == IF pc = "idle" THEN {} ELSE InScope \ job.report.reported
LedgerTrue ==
    /\ pc = "publish" =>
          \A p \in {job.path}, o \in {job.outcome} : Noticed(p) \/ Tells(p, o)
    /\ \A p \in Path : Noticed(p) \/ p \in Rest \/ EntryTrue(p)

(* A ledger that does not account for all is about to be rebuilt.            *)
LedgerRebuilt ==
    /\ \/ ctl.pending = Full \/ (pc # "idle" /\ ~Precise)
       \/ ledger.reconstructed /\ ~ledger.scanFailed /\ ~ledger.discoveryUncertain
    /\ ledger.unfinished => pc # "idle" \/ ctl.pending # NoScope
    /\ \A p \in ledger.unfinishedSources : p \in Rest \/ Covers(ctl.pending, p)
    /\ pc \in Scans => /\ Precise => job.report.complete
                       /\ job.report.scope \subseteq InScope

SInv ==
    /\ RunHeld /\ OwnScope /\ Found /\ OwnersKept /\ ReadTrue /\ CommitTrue
    /\ RowsTrue /\ LedgerTrue /\ LedgerRebuilt

(* A settled collection: the ledger accounts for all, and each entry of it   *)
(* and each searchable row is true of its path.                              *)
SettledAccounts ==
    Settled =>
        /\ AccountsForAll(ledger)
        /\ \A p \in Path :
              /\ EntryTrue(p)
              /\ rows[p].eligible => CurrentVersion(p, rows[p].version)

(***************************************************************************)
(* What is indexed, and what is about to be, is what reading the records   *)
(* before the checkpoint would have left; a read that may still be         *)
(* committed holds every record it has streamed.                           *)
(***************************************************************************)
IsSeq(s) == s \in Seq({s[i] : i \in DOMAIN s})
FragmentsOf(r) == Fragments[r][TRUE]

(* Chunks that follow others: the same, but that a session may be unknown    *)
(* that the others name.                                                     *)
ChunkWith(c, a) ==
    [line |-> c.line, text |-> c.text, kind |-> c.kind, role |-> c.role,
     tool |-> c.tool, session |-> a, event |-> c.event]
FollowsChunk(c, d) ==
    /\ c = ChunkWith(d, c.session) /\ d = ChunkWith(d, d.session)
    /\ c.session \in {d.session, "unknown"}
Follows(s, t) ==
    /\ IsSeq(s) /\ IsSeq(t) /\ Len(t) = Len(s)
    /\ \A i \in 1..Len(s) : FollowsChunk(s[i], t[i])

(* A document is as one reading would have left it.                          *)
RebuiltAs(d, n) ==
    /\ d.offset = Len(d.prefix) /\ d.nextLine = d.offset + 1
    /\ Follows(d.chunks, n.chunks) /\ d.ids = n.ids.local
    /\ d.diagnostics = n.diagnostics /\ d.session = n.session
IndexedSo(p, d) == RebuiltAs(d, Rebuild(p, d.prefix))

(* What an archive holds, which is not flushed while the read streams.       *)
Kept(s) == IF s.onFile THEN s.buffered ELSE s.memory
Unflushed(s) ==
    /\ s \in Archive /\ s.flushed = <<>>
    /\ IF s.onFile THEN s.memory = <<>> ELSE s.buffered = <<>>

(* The archive holds what a record's item says of it.                        *)
Holds(kept, item, r, line) ==
    /\ item.record = r /\ item.line = line /\ (item.malformed <=> Tree[r] = Malformed)
    /\ item.start \in Nat /\ item.end \in Nat
    /\ ~item.malformed =>
          item.end <= Len(kept) /\ SubSeq(kept, item.start + 1, item.end) = FragmentsOf(r)

(* The archive of a read holds every record it has streamed, after `l`       *)
(* others.                                                                   *)
Sound(read, l) ==
    /\ IsRead(read) /\ Unflushed(read.archive)
    /\ Len(read.prepared) = Len(read.streamed) /\ read.line = l + Len(read.streamed) + 1
    /\ \A i \in 1..Len(read.streamed) :
          Holds(Kept(read.archive), read.prepared[i], read.streamed[i], l + i)
ReadKept(p, read) ==
    ~read.other /\ ~read.unknown =>
        /\ Sound(read, read.from)
        /\ read.hint = ReadAll(Provider[p], read.streamed).hint
        /\ read.diagnostics = ReadAll(Provider[p], read.streamed).diagnostics

RowsRebuilt ==
    \A p \in Path : Present(rows[p]) => \A d \in {docs[p]} : IndexedSo(p, d)
CommitRebuilt ==
    pc = "commit" => \A p \in {job.path}, d \in {job.new} : IndexedSo(p, d)
ReadsKept ==
    /\ pc \in Attempts => \A p \in {job.path}, read \in {job.read} : ReadKept(p, read)
    /\ pc = "verify" => ~job.read.other /\ ~job.read.unknown
OutcomeCommitted ==
    pc = "publish" /\ job.version # NoVersion => Present(rows[job.path])
IndexTrue == RowsRebuilt /\ CommitRebuilt /\ ReadsKept /\ OutcomeCommitted

(***************************************************************************)
(* What the records are: the calls of own tools, and the answers to them.  *)
(***************************************************************************)
(* The records a file may hold: what its agent writes, what it is rewritten  *)
(* with, and what was there before.                                          *)
RecordsOf(p) ==
    {r \in DOMAIN Tree :
        \/ r \in Written[p]
        \/ \E f \in Rewritten[p] : r \in Range(f.records)
        \/ \E f \in Initial : p \in DOMAIN f /\ r \in Range(f[p].records)}
OwnCallsOf(p) == {OwnCallOf[r] : r \in RecordsOf(p)} \ {None}

(* The record is a call of an own tool, under this identifier.               *)
CallsOwn(provider, r, call) ==
    LET f == FragmentsOf(r)
        s == Summary(provider, f)
    IN  /\ Tree[r] # Malformed
        /\ CASE provider = "codex" ->
                   /\ s.kind = "response_item" /\ s.name \in OwnTools /\ s.call = call
                   /\ FieldAt(f, <<"payload", "type">>) \in {"function_call", "custom_tool_call"}
             [] provider = "claude" ->
                   /\ s.kind \in {"user", "assistant"} /\ HasType(s.types, "tool_use")
                   /\ BlockScalar(s, f, "tool_use", "name") \in OwnTools
                   /\ BlockScalar(s, f, "tool_use", "id") = call
             [] provider = "copilot" ->
                   /\ s.kind \in {"tool.execution_start", "tool.start", "tool_use", "tool.call"}
                   /\ s.name \in OwnTools /\ s.call = call

(* The record is an answer to the call and nothing else.  A Claude answer is *)
(* one if no typed block lies within its block: a text within it is routed   *)
(* as a message (see the run session_own_results).                           *)
OnlyAnswers(provider, r, call) ==
    LET f == FragmentsOf(r)
        s == Summary(provider, f)
    IN  CASE provider = "codex" ->
                /\ s.kind = "response_item" /\ s.call = call
                /\ FieldAt(f, <<"payload", "type">>)
                       \in {"function_call_output", "custom_tool_call_output"}
          [] provider = "claude" ->
                /\ OrElse(BlockScalar(s, f, "tool_result", "tool_use_id"), s.toolUse) = call
                /\ ~HasType(s.types, "tool_use")
                /\ \A i \in DOMAIN f :
                      Starts(f[i], <<"message", "content">>) =>
                          /\ Len(KeysOf(f[i].path)) >= 3
                          /\ InnermostType(s, f[i].path) = "tool_result"
          [] provider = "copilot" ->
                /\ s.kind \in {"tool.execution_complete", "tool.complete", "tool_result",
                               "tool.result"}
                /\ s.call = call

(* The records that are said to call an own tool do, and the answers to them *)
(* are nothing else.                                                         *)
OwnRecordsRead ==
    \A p \in Path : \A r \in RecordsOf(p) :
        /\ OwnCallOf[r] # None => CallsOwn(Provider[p], r, OwnCallOf[r])
        /\ AnswerTo[r] \in OwnCallsOf(p) => OnlyAnswers(Provider[p], r, AnswerTo[r])

(* What is in a file, indexed of it or about to be is of these records.      *)
Drawn(p, records) == Range(records) \subseteq RecordsOf(p)
FilesDrawn == \A p \in Path : \A n \in DOMAIN content[p] : Drawn(p, content[p][n].records)
RowsDrawn == \A p \in Path : Present(rows[p]) => Drawn(p, docs[p].prefix)
CommitDrawn == pc = "commit" => Drawn(job.path, job.new.prefix)
Authored == FilesDrawn /\ RowsDrawn /\ CommitDrawn

(***************************************************************************)
(* What the records show: the fields of their items, each said once.       *)
(***************************************************************************)
(* A field is items of one path that follow each other; a name is one by     *)
(* itself.                                                                   *)
FieldAs(path, kind, text) == [path |-> path, kind |-> kind, text |-> text]
Joins(fields, item) ==
    fields # <<>> /\ item.path # <<>> /\ fields[Len(fields)].path = item.path
JoinItem(fields, item) ==
    IF Joins(fields, item) THEN [fields EXCEPT ![Len(fields)].text = @ \o item.text]
    ELSE Append(fields, FieldAs(item.path, item.kind, item.text))
FieldsOf(items) ==
    LET after[i \in 0..Len(items)] ==
            IF i = 0 THEN <<>> ELSE JoinItem(after[i - 1], items[i])
    IN  after[Len(items)]

(* A message or a result that says what an earlier one says is left out.     *)
Repeating(said, field) ==
    /\ Deduplicated(field)
    /\ \E n \in DOMAIN said : said[n].kind = field.kind /\ said[n].text = field.text
AddField(said, field) == IF Repeating(said, field) THEN said ELSE Append(said, field)
Distinct(fields) ==
    LET after[i \in 0..Len(fields)] ==
            IF i = 0 THEN <<>> ELSE AddField(after[i - 1], fields[i])
    IN  after[Len(fields)]

(* Items as records have them: none is empty; those of a path that follow    *)
(* each other are of one kind; messages and results have a path, and all of  *)
(* a kind are of one context; what follows them, if it is neither, follows   *)
(* two of them; and two of one path are not left next to each other when     *)
(* what is between them is a repetition (see the run session_keys).          *)
Orderly(items) ==
    LET fields == FieldsOf(items)
        said == Distinct(fields)
    IN  /\ \A i \in DOMAIN items :
              /\ items[i].text # <<>>
              /\ i > 1 /\ items[i].path = items[i - 1].path /\ items[i].path # <<>> =>
                    items[i].kind = items[i - 1].kind
              /\ Deduplicated(items[i]) => items[i].path # <<>>
              /\ \A j \in DOMAIN items :
                    Deduplicated(items[i]) /\ items[j].kind = items[i].kind =>
                        DedupKey(items[j]) = DedupKey(items[i])
        /\ \A n \in DOMAIN fields :
              n > 1 /\ Deduplicated(fields[n - 1]) /\ ~Deduplicated(fields[n]) =>
                  n > 2 /\ Deduplicated(fields[n - 2])
        /\ \A n \in DOMAIN said :
              n > 1 /\ said[n].path # <<>> => said[n].path # said[n - 1].path

(* The items of a record that is read by itself.                             *)
ItemsOf(provider, r) ==
    LET f == FragmentsOf(r) IN
    Normalize(provider, Summary(provider, f), f, NewIds(FALSE, {}), None).items

(* The call a record is taken to answer.                                     *)
AnsweredCall(provider, r) ==
    LET f == FragmentsOf(r)
        s == Summary(provider, f)
    IN  CASE provider = "codex" ->
                IF FieldAt(f, <<"payload", "type">>)
                       \in {"function_call_output", "custom_tool_call_output"}
                THEN s.call ELSE None
          [] provider = "claude" ->
                OrElse(BlockScalar(s, f, "tool_result", "tool_use_id"), s.toolUse)
          [] provider = "copilot" ->
                IF s.kind \in {"tool.execution_complete", "tool.complete", "tool_result",
                               "tool.result"}
                THEN s.call ELSE None

(* A record shows what is promised of it, answers the call it is said to     *)
(* answer, and calls the own tool it is said to call.                        *)
Says(shown, said) ==
    shown = [n \in DOMAIN said |-> [kind |-> said[n].kind, text |-> said[n].text]]
FieldsRead ==
    \A p \in Path : \A r \in RecordsOf(p) :
        /\ Tree[r] = Malformed => Shown[r] = <<>>
        /\ Tree[r] # Malformed =>
              /\ Orderly(ItemsOf(Provider[p], r))
              /\ Says(Shown[r], Distinct(FieldsOf(ItemsOf(Provider[p], r))))
              /\ AnsweredCall(Provider[p], r) \in {None, AnswerTo[r]}
              /\ Provider[p] = "claude" => Summary("claude", FragmentsOf(r)).role # "tool"
        /\ \A q \in RecordsOf(p) :
              AnswerTo[q] # None /\ CallsOwn(Provider[p], r, AnswerTo[q]) =>
                  OwnCallOf[r] = AnswerTo[q]
=============================================================================
