# Verification of bm25-mcp

TLA+ models of the parts of bm25-mcp whose correctness depends on interleaving,
failure and order: the reconciliation of a project with its files and of the
session logs with theirs, what a session record becomes on its way to the index,
the store, the search path over the store, the life of the shared owner process,
and the files that processes share. TLC checks them on small instances; TLAPS
proves the invariants for every value of the constants. The code is the
reference: every definition was read off the Rust source (`PROJECT.json`, `map`,
names the lines).

Contents: 1 the system; 2 the modules; 3 the runs; 4 fairness; 5 the proofs;
6 what is only model-checked; 7 abstractions; 8 four defects; 9 what is not
modelled; 10 plan.

## 1. The system

bm25-mcp answers lexical searches over a repository and over session logs. Each
editor starts a *front end* (an MCP server on stdio). The front ends of one
repository share one *owner* process, which watches the files, keeps a SQLite
index current and answers over TCP.

| Component | State | Operations | Correct if |
|---|---|---|---|
| Front end and owner process (`runtime.rs`: `OwnerClient`, `run_owner`) | `owner.lock`, `endpoint.json`, listening socket, count of live connections | connect/start/dial/hello, call with reconnection, accept loop, idle exit, shutdown | one owner at a time; whoever looks for one gets one; accepted connections are served; a front end outlives its owner |
| Leases and watchers (`runtime.rs`: `serve_connection`, `RootState`) | leases per root, watcher | attach, detach, install, event callback, watch error | a change that raises no event is found by the periodic request, once that is made |
| Reconciliation controller (`reconciliation.rs`) | revision, pending scope, run under way, revision reads are safe at, ledger | observe, begin, widen, invalidated, publish, finish, snapshot, validates | an old run never settles a newer change; reads let through are not stale |
| Coverage ledger (`coverage.rs`, `model.rs`) | outcome per source, incremental totals | publish, apply a report, snapshot | totals add up; a settled ledger describes the rows |
| Project scan (`ingest.rs`) | locals of one run | invalidate, discover, read, commit, publish, remove | what it commits is what it read, or the change is queued |
| Session scan (`session_stream.rs`) | locals of one run; per file a checkpoint with offset, identity, prefix digest, ownership, identifiers met | the same, but a file that has only grown is continued from its checkpoint | nothing is indexed twice or skipped; an append leaves what one whole read would have left; only this project's logs are searchable |
| Record pipeline (`session_json.rs`, `session_stream.rs`) | fragments, open fields, chunk under way | capture, normalise per provider, deduplicate, chunk | every visible field comes out whole, once, under its line; results of the program's own tools do not come out |
| Spools (`record_spool.rs`, `session_stream.rs`) | bytes and tables that move from memory to scratch files | write, read a range, look up | past the memory limit they hold what they held below it |
| Identity registry (`identity.rs`) | one JSON file of project roots, a lock file | open, lock, reload, update, persist | no writer erases another's root; no association is guessed |
| Content cache (`content_cache.rs`) | content files and manifest | open, get, put, prune | a hit is the whole content of its key |
| Store (`store.rs`) | sources, chunks, postings, terms, statistics, checkpoints, generation | replace, append, remove, invalidate, verify, compact, rebuild | statistics equal those of the searchable chunks; a generation names one index; match ids never rebind |
| Query engine (`hot.rs`, `query.rs`, the gate of `store.rs`) | permits, posting cache, memory pressure | enter, leave, look up, load, insert, evict, shed | a search uses only its own snapshot; nobody waits forever; the cache's books balance |
| Admission, Git comparison, progress, ranking, tools | see `PROJECT.json` | | |

How they interact. Watcher callbacks and new leases call `observe` on the
controller. One worker thread per owner visits the roots, takes a ticket
(`begin`), asks Git which paths changed (`widen`), and runs the scan, which
commits one SQLite transaction per source and then publishes its outcome under
the controller's mutex; `finish` puts unfinished work back in the queue. A second
worker does the same for the sessions, with a controller of its own; what it
reads of a log goes through the record pipeline and its spools, and what it
attributes to a project it attributes by the identity registry, which front ends
of every project rewrite. A connection thread answering a search takes a snapshot
and a token, searches in a read transaction, and validates the token before it
answers. All threads share the store (one writer connection behind a mutex,
pooled read connections), the gate that admits four searches, the posting cache,
and the monitor that empties the cache and narrows the gate under memory
pressure. The project scan takes a file's chunks from the content cache if it
holds them, and puts them there if not.

What is hard here: a file changes between being read and being committed; a row
is committed before its outcome is published; a run that began before a change
ends after it; a run fails half-way through invalidating a precise scope; the
watcher is replaced while it holds undelivered events; the process ends at any
step and restarts on the same database; an append continues from what an earlier
process knew of a file that has since been rewritten, or of a registry that has
since changed; a call and its answer are met by different reads; a field is cut
by three limits at once; writers rewrite one file each from their own copy;
searches of several generations share a cache; statistics are only ever added to
and subtracted from; an owner decides to leave while clients are dialling it;
ports are reused while `endpoint.json` is stale. `PROJECT.json`, `hazards`, lists
these at their lines with the properties that would notice each of them going
wrong.

## 2. The modules

| Module | Models | Remarks |
|---|---|---|
| `Scopes` | `Scope`, `merge`, `from_paths`, the queue's bound | operators only |
| `Controller` | the methods of the controller | pure functions from state to state; every caller is one critical section |
| `Coverage` | the ledger | totals kept as the code keeps them, by adding and subtracting |
| `SourceRows` | what the store's operations do to one source's row | used by both scans |
| `ProjectReconcile` | the composition: files, watcher, leases, controller, worker, reader, crash | one action per critical section, transaction or look at the file system |
| `WorkerClock` | the clock of the worker's periodic request over `ProjectReconcile`, and its liveness | implements `ProjectReconcile`, which leaves open when the request is made |
| `ReconcileInvariant` | the inductive invariants of `ProjectReconcile` | checked by TLC while they were found, used by the proofs |
| `JsonCapture` | which fragments `session_json.rs` captures of a record's tree | operators only; the walk is a recursive function of positions in the tree |
| `Spools` | the byte spool, the index of block types, the durable set of identifiers | operators only |
| `SessionRecords` | fragments to items: the summary of a record and the three providers' normalisation | operators only |
| `FieldDedup` | items to chunks: exact repeats of visible fields, chunk boundaries | operators only |
| `SessionScan` | the composition: session files and their writers, registry, controller, session worker, checkpoints, crash | uses all of the above |
| `SessionInvariant` | the inductive invariant of `SessionScan`, and what a record has to be to call an own tool or answer it | checked by TLC while it was found, used by the proofs |
| `VersionedIndex` | abstract: a content and a counter that tells any two contents apart | what readers rely on |
| `StoreIndex` | the tables and the write transactions | implements `VersionedIndex` |
| `QueryEngine` | gate, posting cache, monitor, read transactions | works over `VersionedIndex`: the writer is its `Publish` |
| `OwnerLifecycle` | front ends, processes, lock, endpoint, connections | |
| `IdentityRegistry` | concurrent writers of the registry | |
| `ContentCache` | content files, manifest, the worker that uses them, damage, restart | |
| `MC...` | constants of the instances | `MCOwnerFiles` also puts store, cache and registry side by side; `MCRecordPipeline` also evaluates the hypotheses of `SessionOwnResults` and `SessionFieldsKept` (section 5) |
| `ReconcileLemmas`, `ProjectReconcileProofs`, `SessionProofs`, `RebuildProofs`, `FieldProofs`, `QueryProofs`, `OwnerProofs`, `OwnerFilesProofs` | proofs | section 5 |

Definitions keep the code's names (`Observe`, `Begin`, `Finish`, `Validates`,
`CommitSource`, `MayAppend`...). An operator that stands before another and is
named after it with a suffix (`FinishForgetsGit` before `Finish`,
`AtGenerationKeeping` before `AtGeneration`) is a faulty variant: the way a
plausible slip would look. For every property of every run `PROJECT.json`,
`mutants`, names a variant that the run rejects, so a property that passes is
known to be able to fail.

### ProjectReconcile and the code

`ctl` is `State` of `reconciliation.rs`; `ledger` its coverage; `rows` the
sources table; `pc`, `ticket`, `job` the worker thread's position and locals in
`Run::project` and `scan_project_observed_inner`; `rd`, `reply` one connection
thread between snapshot, search and validation; `watching`, `events`, `leases`,
`attaching` the root's watcher and leases with the lifecycle lock. `recent` is a
ghost: what a path has held since a change of it was last observed (`observe`
covering it). A row is *stale* if its version is not in `recent`. `gitOwed` is a
ghost for a Git change that no completed run has taken.

The worker's actions follow the code's order: `WorkerPick` (visit, with the
periodic request or without), `WorkerBegin`, `WorkerWiden`, `InvalidateAll`/`InvalidateOne` (one
transaction, or one per path), `MarkInvalidated`, `ListExisting`,
`DiscoverPath`/`WalkFails`/`StatFails`, `ReadSource`/`ReadFails`, `CommitSource`/
`CommitUncached`, `PublishSource`, `RemoveUnseen`/`RemoveUnreported`,
`FinishRun`/`FailRun`, `WorkerAfter`/`WorkerRewatch`. Between any two of them
files change, events arrive, clients come and go and the process may end.

`WorkerClock` adds the clock `last_full` (`due`: it has run out) and `busy`: the
session worker or another root has something to do. `Visit` is a round of the
worker's loop (`runtime.rs:655-670`): if it finds the sessions being reconciled it
sets the clock back, and only otherwise may a clock that has run out ask for
everything. `Works` is a step of this root's run; a full run that completes sets the
clock back too (`runtime.rs:729`), and so does that of another root, since one worker
serves them all. `Elapse` is the passing of 30 seconds, `NoticeElsewhere` and
`SettleElsewhere` are the other controllers' changes and runs. Rounds and other roots'
runs are taken between this root's runs, as they are in the one thread.

### SessionScan and the code

`files` and `content` are the log files: a path names an inode (`files`), an
inode a sequence of records and perhaps the start of another (`content`).
`registry` is what other processes have registered. `rows`, `docs` are the
sources table and, per source, the chunks with the checkpoint that the same
transaction writes. `ctl`, `ledger`, `ticket`, `pc`, `job` are as above, for
`Run::sessions` and `scan_observed`; `job.read` holds the locals of one attempt of
`read_file`.

Agents write: `StartRecord`, `AppendRecord`, `Rewrite` (in place), `Replace` (by
a new file), `Delete` (leaving nothing, or a directory); `Register` is another
process. Each leaves an event for `Deliver`, the registry's for a full scan.
`Crash` ends the owner; rows, docs and files survive. The worker: `WorkerBegin`,
`InvalidateScope`, `MarkInvalidated`, `OpenScan` (reads the registry, lists the
scope's rows), `Discover` (one provider's root), `DiscoverDone`, `StatFile`,
`StartRead` (continues if `CanAppend`), `StreamRecord` (one record, with the
attribution of its working directory, which may itself write the registry),
`StreamEnd`, `VerifyRead` (the second pass: the file has not moved and its
beginning is the one that was indexed), `ReadFails`, `CommitSession`,
`PublishSource`, `RemoveUnseen`, `CancelScan`, `FinishRun`, `FailRun`.
`VerifyRead` normalises what was streamed through `SessionRecords` and
`FieldDedup`, as the code does between its two passes.

`JsonCapture` to `FieldDedup` are functions, composed in the order of the code:
a record's tree to fragments (a path and a bounded piece of text each); the
fragments to a summary (type, role, identifiers, block types) and, by provider,
to items of visible fields, registering calls of own tools; the items to chunks,
with each field compared to the record's earlier ones and cut at `ChunkUnits`.
The two passes over a file see a record differently, as in the code: the first
summarises only the fragments with no visible key in their path (`Metadata`), the
second all of them. A record is diagnosed (`Diagnosed`) if it is malformed, if the
*first* summary leaves out a value that is too long or one too many
(`TruncatedMetadata`), or if normalising it reports an unknown kind or an invalid
timestamp (`Reports`); a long argument or result within a tool call is no error.
The properties do not restate these functions: `FieldsKept` compares what comes
out with a description of each record that `MCSessionScan` gives in plain terms
(`PipelineShown`), and `IndexedAsRebuilt` compares an append with a whole read.

### StoreIndex and the code

One variable per table (postings are the words of a chunk's text; `source_stats`
with `source_term_stats` and `stats` with `term_stats` are one tally each), one
action per public write operation of `Store`, each a committed transaction: the
connection's mutex and `BEGIN IMMEDIATE` make it atomic, and a transaction that
fails leaves nothing. `issued` is a ghost: every chunk that ever had a match id.
`ImplementsVersionedIndex` is the refinement: the searchable chunks and totals
are the view, `meta.generation` the counter.

### QueryEngine and the code

`gate` is `QueryGate`'s mutex (count, pressure) with sleepers in state `asleep`;
`cache` is `hot::Cache` field by field; `monitor` stands between the two critical
sections of `set_memory_pressure`; a search goes through `enter`, its read
transaction (`gen`, `snap`), any sequence of word lists (`query.rs` decides which;
the model allows every one), and per word a look-up, a read of the postings
outside the cache's mutex, and an insert, or the fallback to SQLite. `used` holds
the posting lists that scores were computed from.

### OwnerLifecycle and the code

`owner` says where each process is in `run_owner`; `client` where each front end
is in `connect`, `call` and `call_once`; `conn` is its TCP connection (queued in
the listen queue, accepted and counted, open after the hello, closed by the peer,
reset). A process stands for its capability, a random 256-bit string. The
operating system's part is explicit: a process's end releases lock, port and
connections; a port may be given to another process; a write on a connection
whose peer has gone may still succeed once.

### IdentityRegistry, ContentCache and the code

`IdentityRegistry`: `file`, `exists` and `lock` are the two files; `entries`,
`identity`, `tries`, `step` a process's copy of the registry, the association it
has verified and its place in `remember_verified` (`OpenRegistry`, `Acquire` or
`WaitForLock`, `ReloadEntries`, `UpdateEntries`, `Persist`, `Remember`); `Stop` is
a failing call or the end of the process at any of them. `remembered` is a ghost:
the roots for which a call has returned success.

`ContentCache`: `cached` says what each version's content file holds (the whole
content, less of it, something that does not parse, nothing), `listed` the
manifest on disk, `manifest` the open cache's. `CleanMissing`, `CleanOrphans`,
`Prune`, `PersistManifest` are `open`; `Get` and `CommitDecoded` the way of a
hit, `PutFile`, `PutEntry`, `Prune`, `PersistManifest` that of a miss, `PutFails`
the end of either; `indexed` is what the worker's last commit put in the store.
`EndOfProcess` restarts between any two writes; `Damage` changes a file from
outside while the cache is not in use; `Tick` is the clock by which entries age.

## 3. The runs

| Run | Instance | Properties and what they show |
|---|---|---|
| `project_race` | 2 paths, 1 version, 1 edit, 1 fault, 1 search, 3 runs | `TypeOK`, `NothingForgotten`, `CommitsAreUncertain`, `AnswersFresh`, `ReadyIsComplete`: with a change, a failure and a search overlapping up to three runs, no observed change is lost, rows change only while the status says so, answers show no superseded content and "ready" misses nothing |
| `project_restart` | 1 path holding text, nothing, an escaping link, a binary or garbled file; 1 edit, 1 fault, 2 clients, 1 Git change, 1 crash, 2 runs | `NoStaleRead`, `LedgerMatchesRows`, `TotalsMatch`, `PublicationConfirmed`, `GitNotLost`: across the end of the process at any step; a settled ledger describes the rows, the store refuses no outcome |
| `project_liveness` | 1 path, 1 edit, 1 fault, 1 periodic request, other work at any time; fairness | `Converges`: once files, faults and other work stop, a connected client ends up with a readable index equal to the files, although events are lost, runs fail and the clock is set back by every full run and by the sessions |
| `query` | 2 searches, 2 words, lists of 2 to 4 postings, 2 generations, 2 permits (1 under pressure), 2 changes of pressure; fairness | `TypeOK`, `ListsOfOwnSnapshot`, `CacheAccounted`, `PermitsHeld`, `NoLostWakeup`, `EveryoneServed` |
| `owner` | 2 clients, 3 processes, 1 port, 1 fault; fairness | `TypeOK`, `OneOwner`, `ServingIsPublished`, `AcceptedNotAbandoned`, `ServedByChosen`, `ClientsServed`, `OwnerLeaves`: who looks for an owner gets one or quits; when the clients have gone the owner goes too |
| `owner_recovery` | 1 client, 3 processes, 2 ports, 1 fault; fairness | `FrontendRecovers` is *violated*: section 8 |
| `session_scan` | 2 files, 2 disturbances of any kind: appends, rewritings, replacements, deletions, a failure, a cancellation or crash, a registration between scans | `SettledIsCurrent`, `SettledLedger`, `IndexedAsRebuilt`: when everything has settled, a file is searchable exactly at its present version and only if it is this project's, the ledger describes it, and an append leaves what one whole read would have |
| `record_pipeline` | 1 file of each provider, started with three records, 2 more out of 5 to 7, in every order | `FieldsKept`, `OwnResultsExcluded`, `IndexedAsRebuilt`: through capture, spools, normalisation, deduplication and chunking |
| `session_own_results` | Claude results given as a list of blocks | `OwnResultsExcluded` is *violated*: section 8 |
| `session_leak` | as `session_scan`, a registration during a scan and nothing else | `OwnershipRespected` is *violated*: section 8 |
| `session_keys` | a Claude call with an empty argument | `FieldsKept` is *violated*: section 8 |
| `owner_files` | store: 2 sources of one collection, 1 word, 1 version, writes of at most 1 chunk, 5 generations; registry: 3 front ends, 2 roots, 2 errors, 1 retry at the lock; cache: 3 versions of sizes 2, 1, 1 in 3 bytes and 2 entries, 3 faults, 2 seconds | of the store `TypeOK`, `SourceStatisticsMatch`, `StatisticsMatch`, `CompactNotRefused`, `MatchIdNeverRebinds`, `CheckpointsAdvance`, `ImplementsVersionedIndex`, under every order of transactions; of the registry `RememberedNotLost`; of the cache `CommitsWhole` |

### Bounds

Every bound is a named constant and appears in a guard. They are chosen so that
each interesting case happens within them:

- Project: two paths are enough for a precise scope that is part of the
  collection, for the queue bound (`ScopeLimit` 1 against 1024) to turn a scope
  into "everything", and for one path to fail while the other goes on. The
  instance starts with any contents on disk, so that one edit is a change before,
  during or after a run. Three runs: one overtaken, one interrupted, one that
  catches up. What depends on the kind of content, on a second lease, on Git or on
  a crash does not depend on a second path: `project_restart` has one. Runs end
  because edits, faults and forces end; in `project_liveness` `MaxRuns` is out of
  reach, and `MaxForces` counts the periodic requests since the last edit, fault
  or crash, since more of them only repeat the same work. The clock may run out and be
  set back any number of times. Two things stay with the theorems: a precise scope of
  several paths whose invalidation fails after the first (`ReadsNeverStale`), and a
  second Git change during a run that took one (`GitIsKept`).
- Store: with two interchangeable sources of one collection, contributions mix in
  the collection's statistics. Five generations allow a source to go through write,
  suppression, verification, append and removal, and both through any three of
  them in every order; what more of them would show is proved (section 5). One chunk
  per write and one word make a text with the word and one without.
- Query: two searches on two generations are what the cache can confuse. The two
  contents hold between them a list that is cached, one that evicts it, one too
  long to cache, one too frequent to load, and two that together are too many. That no
  more searches are inside than there are permits is said by the theorem
  `PermitsAlwaysHeld`; two searches cannot exceed two permits.
- Owner: three processes give an owner, a successor and a loser of the race. One
  port makes its reuse unavoidable. `SpawnEvery` is 1, so that every attempt may
  start a process; the code starts one at each 20th, which is a part of these
  behaviours.
- Sessions: the two files start with two records of this project, one of them in
  a nested folder, and with one. `MaxDisturbances` bounds all disturbances
  together, the other bounds each kind: every pair of disturbances, at every pair
  of steps. The records written are ones with a field, malformed ones, ones of
  another project, ones whose folder has gone, one with more metadata than
  `MaxMetadata` (5 against 4096), one with an invalid timestamp (`Timestamps` holds the
  valid one), and a call whose argument, in a nested object, is longer than a value may
  be: of these the last alone must not be diagnosed. `ScanDiagnosed` says by hand which
  are, and TLC compares that with `Diagnosed`.
- Pipeline: a fragment holds 2 units, a spool keeps 2 in memory, a field 1, a
  chunk 3, and the texts have up to 5, so that every pair of limits is crossed in
  one field; 1 block type in memory against up to 4 in a record. Agents write
  between scans here (`BetweenScans`), which is what makes each commit an append.
- Registry: three writers, two of one project and one that knows a root under
  another key; each may fail or end. Cache: two of three versions fit, by bytes or
  by entries. Store, registry and cache have no variable in common, so that
  `MCOwnerFiles` explores each with the other two at rest.

`CHECK_DEADLOCK FALSE` stands in the project, session and query runs, where the
bounded environment (edits, arrivals) runs out and the system is at rest. The owner
runs and `owner_files` check for deadlock; in the latter the store may stop where it
has reached the bound on its generations (`StoreIsFull`).

Symmetry is used in `owner_files` alone, for the two sources of the store.

## 4. Fairness

- `WorkerClock`: weak fairness of the worker thread, of the delivery of each queued
  event and of a connection that holds the lifecycle lock: they are running threads.
  Work elsewhere gets done while this root needs none (the session worker waits for
  roots that do, `runtime.rs:761`), and the clock runs out if nothing elsewhere can set
  it back. Nothing is assumed of the periodic request itself: that it is made follows
  from the clock, or does not. `Converges` has two premises. A client stays connected;
  without leases the worker rightly does nothing. And changes elsewhere cease: the
  worker sets `last_full` back in every round that finds the sessions being reconciled
  (`runtime.rs:656`), so that an agent that goes on writing its log can put the
  request off for good. Without that premise TLC shows it: a file is deleted during a
  full run, the watcher that replaces the old one after the run (`runtime.rs:714`) takes
  the undelivered event with it, the clock runs out, a session changes, the next round
  finds the session run under way and sets the clock back, and so on for ever, while
  the deleted file stays in the index.
- `QueryEngine`: weak fairness of each search and of the monitor's second half.
  No fairness is assumed of condition-variable wake-ups beyond `notify_all`.
  Arrivals are finite in the instance: the gate does not promise first come,
  first served, and `EveryoneServed` does not claim it.
- `OwnerLifecycle`: weak fairness of every process and connection thread; strong
  fairness of accepting a queued connection, because the listen queue is first in,
  first out; strong fairness of the idle exit of an owner that nobody seeks. The
  last conjunct says that owners do not for ever leave in front of a client that
  is looking for one: a client dials every 50 milliseconds, an owner waits at
  least three seconds without a connection before it leaves. That is a fact about
  the code's timing which an untimed model has to assume; without it a client can
  meet a leaving owner on each of its attempts. No fairness is assumed of
  clients' starts, calls to quit, or crashes.
- `SessionScan`, `IdentityRegistry`, `ContentCache`: none, and no liveness is
  claimed. The session worker has a controller of the same kind, but no liveness of it
  is checked; the session properties speak of settled states.

## 5. The proofs

All theorems hold for every value of the constants that satisfies the named
assumptions (`ReconcileAssumption`, `SessionAssumption`, `RecordsAssumption`, `StoreAssumption`,
`QueryAssumption`, `OwnerAssumption`, `RegistryAssumption`, `CacheAssumption`), which
TLC evaluates in every run of the module; two theorems have one hypothesis more each,
`SessionOwnResults` `OwnRecordsRead` and `SessionFieldsKept` `FieldsRead`, see below.
Finiteness is assumed of the sets that are counted: the words of a store, and the
searches, words and postings of the query engine. Every invariant and every action property that a passing run checks is
proved, and the refinement; only the liveness properties are not (section 6).

- `ProjectReconcileProofs`: `TypeCorrect`, type correctness of the composition;
  the lease count never goes below zero. `ClockImplements`: the behaviours of
  `WorkerClock` are behaviours of `ProjectReconcile`, so that everything below holds of
  the worker with its clock. `ReconcileLemmas` holds what each
  operator of `Scopes`, `Controller`, `Coverage` and `SourceRows` returns; the
  proofs about sessions rest on them too. Then `Inductive` (`Spec => []IInv`) and from it `ReadsNeverStale`,
  `SettledReads` and `AnswersAreFresh`. `NoStaleRead` by itself is not inductive:
  at a moment when reads are not let through, rows may be stale, and the property
  says nothing about why they are gone by the time reads are let through again.
  `IInv` adds it: a stale searchable row is covered by the queue or by a run that
  has not invalidated yet (`StaleQueued`); the run's revision is the current one
  exactly while nothing is queued (`Revisions`); what the scan has read but not
  committed is current or queued (`Buffered`); a row that is only re-verified has
  not been written by anyone else since it was listed (`Listed`); a token that
  still validates vouches for the reader's decision and hits (`ReaderSafe`).
  Its second part proves `CoverageInductive` (`Spec => []CoverageInv`) and from it
  `ChangesAreKept`, `LedgerSettles` and `StoreConfirms`. `CoverageInv` says, at
  each step of a scan, who answers for a path: for the path in hand the outcome
  about to be published, for a path done with what the report says of it, for a
  path to come the row that the scan has suppressed (`ScanInv`). Outside a scan,
  what is neither found nor recorded as an error is queued (`DarkQueued`), and a
  ledger completed once and not failed since (`Trusted`) agrees with the rows
  (`LedgerAgrees`). `GitIsKept`, `CommitsUnderRun` and `TotalsAreTally` have shorter
  arguments: a request for Git is handed from queue to ticket and back; only a run
  changes rows; every change of one outcome takes its old counts out and puts its
  new ones in. `ReadyIsWhole` needs to relate two moments of a reader: revisions
  and publications only grow (`Monotone`), so a token that still validates has
  seen neither, and what its snapshot found is still so (`ReadyVouched`), which
  rests in turn on counts of errors that never go below zero (`DiscoveryCounted`).
- `SessionProofs`: `SessionInductive` (`Spec => [](TypeOK /\ SInv)`, both of
  `SessionInvariant`) and from it `SessionTyped`, `SessionSettled`
  (`SettledIsCurrent`, for registries that do not change while a scan is under way;
  the run `session_leak` shows why that is needed) and `SessionAccounted`. A path is
  noticed while a change of it or of the registry is still to be delivered or is
  queued (`Noticed`). Whatever the worker has in hand is true of the file as it is
  now, or the path is noticed: the records a read has streamed (`ReadTrue`), what is
  about to be committed (`CommitTrue`), the outcome about to be published and every
  entry of the ledger that the run has not still to replace (`LedgerTrue`), and every
  searchable row that the run has not still to hide (`RowsTrue`). A file is rewritten
  under a new identity and otherwise only grows, so that what was read under an
  identity stays a prefix of it. Ownership has an argument of its own
  (`OwnersKept`): of every record read the scan knows whose it is under a registry
  that agrees with the present one on the directories it was asked about, and a
  checkpoint's records were this project's under the registry of its revision. A
  whole run accounts for every file because its walk finds them all (`Found`), and a
  ledger that does not account for all is about to be rebuilt (`LedgerRebuilt`). What
  a recursive pass over a record's fragments or a file's records keeps is proved by
  the least position at which it would fail. `SessionAccounted`: every entry of
  a settled ledger agrees with the row, and what is not searchable is excluded or an
  error; nothing in it depends on what the records hold.
- `RebuildProofs`: `IndexInductive` (`Spec => [](TypeOK /\ SInv /\ IndexTrue)`) and
  from it `SessionRebuilt` (`IndexedAsRebuilt`) and `SessionLedgered`
  (`SettledLedger`), for any records, any fragments of them, any limits of a spool
  and a chunk, and any history of appends, rewritings, failures and crashes.
  `IndexTrue` says what the two properties do not say between commits: every present
  row, not only the one just committed, is what one reading of the records before
  its checkpoint would have left, and so is the document in hand (`RowsRebuilt`,
  `CommitRebuilt`); the archive of a read that may still be committed gives back,
  record by record, the fragments that were captured (`ReadsKept`); a version is
  published only for a row that is there (`OutcomeCommitted`). That the rows' step
  keeps it rests on two comparisons of passes over the same records. One that
  resumes at a checkpoint knows the identifiers met before from the rows, one that
  starts at the first record has met them itself: they answer alike whichever half
  knows them (`IdsSame`, `SameNormalize`). And one may know the session of the file
  before the record that names it: an item filed under another session goes through
  the deduplicator and the appender by the same steps (`Twins`, `DedupTwin`,
  `AppenderTwin`), so the chunks differ in the session only (`Follows`). A record's
  diagnostics depend on the record alone (`SameReports`); for the ledger it remains
  that a total is positive exactly when a record counted (`PassTallies`). What a record
  gives in the first pass is told by its metadata, and those are the same fragments
  whether the walk kept the visible ones or had ceased to (`MetadataKept`); the session
  a file is named after comes from there too, so that the second pass, whose summary
  counts all fragments against the bound, may find another one or none (`HintNamed`). What a
  recursive function of `SessionRecords` or `FieldDedup` returns is never unfolded
  more than once in a place: each is shown to have the values its recursion says
  (`IsDeduplicating` and its like), and two of them are compared by induction on the
  position.

  `SessionOwnResults` (`OwnResultsExcluded`) needs to know besides what a file's
  records are. `OwnCallOf` and `AnswerTo` say it of the records, the code goes by
  what it has captured of them; `OwnRecordsRead` ties the two, provider by provider:
  what is called an own call has, captured, the type, the name and the identifier
  that the provider's branch looks for, and an answer to one is an answer and nothing
  else, in particular no typed block lies within a Claude result (with a list of text
  blocks in it the property fails, as `session_own_results` shows, and there the
  hypothesis is false). TLC evaluates it on the records of `record_pipeline`, in
  which own tools of each provider are called and answered. From there: what is
  indexed of a file are records of its own (`IndexAuthored`); a call once met is
  known for good, in whichever half of the identifiers (`Known`), so that an answer
  after it leaves no chunk in one reading of the prefix (`Shows`, `Excludes`), and by
  `IndexTrue` the document has the chunks of such a reading.
- `FieldProofs` (its lemmas on fields and on texts in pieces stand at the end of
  `RebuildProofs`): `SessionFieldsKept` (`FieldsKept`): every visible field of a record
  is indexed once and whole under its line. What is indexed is what one reading would
  have left (`IndexTrue`), so that it is enough to know what one reading leaves, and
  the proof follows a record's items to its chunks:
  - `ChunkedSays`: whatever items the appender is fed, it says their fields, each in
    pieces of a chunk's size and the last with what remains. The appender is fed a
    unit at a time and the invariant says how far into which field it has come
    (`Within`, `Filled`).
  - `DeduplicatedSays`: of orderly items the deduplicator keeps the fields, each said
    once, wherever a field leaves the memory for the spill, in however many fragments
    it comes back, and whether it has to be compared with an earlier one in the memory
    or in the spill (`Handed`, `Opened`, `Seen`). `Orderly` is what the items of a
    record are like; its last part, that what a dropped repetition leaves next to each
    other are two fields, is not true of every record, which is the finding of
    `session_keys`, and without it the theorem would be false.
  - `RecastNormalize`: what earlier records have taught the pass changes of the items
    of a record, unless it answers a call of an own tool, only the tool that results
    are said to be of. So a record says what it says when it is read by itself
    (`RecordTells`).
  - `PassRecounts`: a pass has left on every line it has come to what the record
    there says, if it has not been met before and answers no own call, and nothing on
    the lines to come (`Recounts`).

  `FieldsRead` is what the theorem takes of the records: read by itself, each has
  orderly items whose fields are what it is said to show (`Shown`), and the call it is
  found to answer is the one it is said to answer. `Shown` is written down for each
  record of the instance and not computed from the walk, so that this is the place
  where the capture is compared with the record's tree; TLC evaluates it on the records
  of `record_pipeline`. That the rest of the way, with other records before it, a
  resumed pass, spills, fragments and chunks, loses, doubles or joins nothing is proved.
- `OwnerFilesProofs`: the store first. `MatchIdsNeverRebind` and
  `CheckpointsAlwaysAdvance` follow from `Issued`: every chunk ever issued, present or
  deleted, carries a generation no later than the store's, so that the next write's
  chunks are new, and a source's chunk count is a number, so that the ordinals of one
  write differ. `Tables` goes on from there: the chunks are finite, both kinds of statistics are the tallies of
  their chunks, and postings name words that exist. A tally of a union of disjoint
  sets is the sum of their tallies (`TallyUnion`, `TallyMinus`); that a write's
  chunks are disjoint from what is there is what `Issued` gives. From `Tables`:
  `TablesTyped`, `StatisticsAlwaysMatch`, `SourceStatisticsAlwaysMatch`,
  `CompactNeverRefused`, and `StoreIsVersioned`, the refinement: every transaction
  takes the next generation or leaves the view as it is.
  The registry: `RegistryKeepsRoots`: between the reload under the lock and
  the rename the file cannot change, because only the lock's holder replaces it,
  so that what replaces it is the file itself with one more, verified, entry. The
  cache: `AlwaysWhole`: every entry, of the manifest or of the worker's copy of it,
  carries the checksum of whole chunks, so a file that agrees with its entry holds
  them all, and a file that does not is never committed from.
- `QueryProofs`: `OneContentAlways` and `ListsAlwaysOwn`. The invariant relates
  three copies of a posting list, in the index, in read transactions of any age,
  and in the cache: equal generations, equal content (`SameGenerationSameContent`,
  `CacheOfItsGeneration`), and no copy is ahead of the index (`NothingAhead`), which
  is what makes the next commit's generation new to all of them. The proof assumes
  of the store only `VersionedIndex`. `PermitsAlwaysHeld` and `WakeupsNeverLost`
  follow from `GateKept`, which counts the searches inside and knows what a search
  about to insert has in hand (`Loadable`); `CacheAlwaysAccounted` from `WellKept`,
  in which a size is a count of pairs of word and posting, so that evictions split
  it into what goes and what stays, and the least number of evictions that makes
  room exists because all of them do; `QueryTyped` from all of these.
- `OwnerProofs`: `LifecycleAlways` and from it `OneOwnerAlways`,
  `ServingAlwaysPublished`, `NeverAbandoned`, `AlwaysServedByChosen` and
  `OwnerTyped`. The strengthening: a process past the lock holds it (`HoldsLock`),
  and a front end has a connection only between dialling and giving up, with the
  capability it dialled for (`ConnOnlyInUse`).

Each proof has one lemma per action under `Next` (in `ProjectReconcile`'s case one
per conjunct of the invariant that the action can disturb), and a last temporal
step.

## 6. What is only model-checked

- Liveness (`Converges`, `EveryoneServed`, `ClientsServed`, `OwnerLeaves`,
  `FrontendRecovers`): the prover does not handle fairness and ENABLED.
- `FieldsRead` and `OwnRecordsRead`, the hypotheses of two theorems: they say what the
  walk of a record's tree captures, for the trees of the instance. For every tree they
  would be an induction over trees.
- `OwnershipRespected`, which the run `session_leak` refutes.

## 7. Abstractions

Project and owner:

- A file's content is a version (text), or one of the four other kinds the scan
  distinguishes; a path's passages are not split. `read_source` is modelled at its
  last look: it compares fingerprints before and after, so what it returns was the
  content at one moment.
- Installing a watcher and setting the watch error are one step, since both happen
  under the lifecycle lock and only the displayed error count tells them apart.
- Git's answer is any set of paths, or the request for everything.
- Progress counters, key/value session state and logging are left out.
- `connect`'s 100 attempts are not counted: `ClientsServed` says that a client that
  keeps trying gets an owner. The heartbeat is one action, `CutOff`: fifteen
  seconds without a request.
- The owner's last `drop(lock)` (`runtime.rs:838`) and the end of its process are one
  step: nothing but the return from `main` stands between them.
- A truncated `endpoint.json` is unreadable, which the client treats as absent.

Store and queries: in the store a collection stands for the pair of collection
and kind. In the query engine a posting counts one byte and an entry's bytes are
its postings; filters appear as the choice whether an oversized candidate set
falls back.

Sessions:

- A file is a sequence of records and perhaps the start of one more; an offset is
  a number of records, a digest is what it is the digest of, and a file's version
  is its records. Modification times are left out: they can only make a read be tried
  again whose digests agree.
- The second pass's digest and the comparison of the file's identity are one step.
  A precise scope's invalidation, one transaction per source in the code, is one
  step that a failure may cut short anywhere (`FailRun`).
- The watcher is lossless here, and there are no leases: what losing events and
  re-attaching mean to a controller is `ProjectReconcile`'s subject. The periodic
  full request is therefore left out.
- `session_scan` registers projects only between scans (`RegisterDuringScan`);
  `session_leak` shows what happens otherwise.
- Which Git repository, registered root or folder owns a working directory is
  given by three functions of it; only which of them decides, and when they are
  asked, is modelled.
- In the pipeline texts are sequences of units; numbers and literals are captured
  like strings; a metadata value is one unit, and a longer one past the bound. Of a
  timestamp it counts whether it can be parsed. Escapes, numbers and white space are
  not modelled.

Registry and cache: the registry's lock is the operating system's and ends with its
process; an identity is verified before the lock is taken, as in the code. A
manifest that cannot be parsed is as good as none, and entries without a checksum,
which older versions wrote, are left out. The manifest is a set, so that entries
used in the same second are pruned in any order.

## 8. Four defects

**A front end keeps a dead connection.** `owner_recovery` violates
`FrontendRecovers`. `OwnerClient::call` reconnects when the error of a call is a
`std::io::Error` (`runtime.rs:121`). But `call_once` writes the request with
`write_json`, that is `serde_json::to_writer` (`runtime.rs:980`), whose error is a
`serde_json::Error`; a connection reset that arrives while the JSON is being
written is therefore handed to the caller, the dead stream is kept, and every
later call fails the same way. If the reset arrives a moment later, on the newline
or on the read, the front end does reconnect; that is why the outcome of the test
`live_frontend_recovers_after_its_owner_process_crashes` (`tests/recovery.rs`)
depends on timing. The README promises that broken connections are detected.
With the reset treated like the other failures, the model satisfies the property.

**Own results in list form are indexed.** `session_own_results` violates
`OwnResultsExcluded`. `normalize_claude` decides by the innermost block type on a
fragment's path (`session_stream.rs:3014`). In a `tool_result` whose content is a
list of text blocks, the form of MCP results, that type is `text`: the text is
emitted as a message (`session_stream.rs:2048`) before the test for own tools
(`2072`), which only the `tool_result` branch makes. The README says that the
program's own result bodies are excluded.

**The names of two arguments are indexed as one word.** `session_keys` violates
`FieldsKept`. Inside a structured argument or result the walker captures a key at the
path of the object that contains it (`session_json.rs:305`), and the appender starts a
new field only where the path of an item differs from that of the item before
(`session_stream.rs:2429`). With a value between them two keys are two fields. But an
empty string is not captured (`session_json.rs:436`), nor is an empty object or list, and
in a result the deduplicator drops a value that repeats an earlier one: then the next key
follows at the same path, and the two are joined without a separator and tokenised as
one. An editing tool called with `{"old_string": "", "new_string": "x"}` is indexed under
`old_stringnew_string`. The comment on the capture (`session_json.rs:300`) and the README
("tool arguments [...] remain searchable") say that names are found.

**A project registered during a scan is overlooked.** `session_leak` violates
`OwnershipRespected`. `scan_observed` opens the registry once
(`session_stream.rs:322`) and attributes every file with that copy, but the
checkpoint stores the digest of the registry's file as it is when the file is read
(`690`). If another process registers a nested project in between, the file is
attributed under the old registry and marked with the new revision. The full scan
that follows finds the revision unchanged, appends, inherits the ownership and does
not look at the working directories again. With the digest taken of the copy that
was opened, the model satisfies the property.

Met on the way, and contradicted by no document: a Claude text block's own `type`
is indexed as a message `text`, and a result block's `tool_result` and
`tool_use_id` as a result; of a record with several calls or results only the first
is recognised (`block_scalar`), and an input with a key named `type` is taken for a
block of that type; Copilot's `data.eventId` is never captured; of a metadata string
longer than a fragment a short last fragment is taken for the value; an append and
a whole read may differ in the session's id when the id comes late; white space
after a comma under an over-long key makes `skip_object` and `skip_array` reject a
valid record (`session_json.rs:382`); temporary files that a crash leaves in the
content cache are never removed (`content_cache.rs:269`).

## 9. Not modelled

Scoring, ranking and tokenisation (`ranking.rs`, `text.rs`, `upstream/scoring.rs`)
are numeric or textual transformations without state; so is the order in which
`query.rs` fuses and ranks the hits, of which the model has the word lists only.
Admission is a pure function of a file's first bytes and its name against a table
of extensions. Progress counters are shown and never read back. `tools.rs`,
`main.rs` and `lib.rs` parse requests and format answers. `src/vendor` is
third-party code. Within modelled components: ignore rules and chunking in
`ingest.rs`; the parsing of Git's output; PRAGMAs, schema migration and read-only
statistics in `store.rs`; protocol versions and line limits in `runtime.rs`, and
there the maintenance between runs; escapes, the grammar of numbers and the text of
timestamps in the session formats.

Three hazards have no property. A precise path that leads outside the root makes its
run incomplete, and the same scope is queued again until the periodic full run: the
repeats have no bound, so no finite instance holds them together with the clock;
`project_restart` has such links and what one run leaves of them. A watcher may stay installed after the last lease
(`runtime.rs:712`): the model has the steps, but they do not touch what is read or
queued. The white space of `session_json.rs:382` is left out of the trees. Nor has a
smaller one, that a new callback's error may be erased by the installation that
succeeds after it (`runtime.rs:882`), which changes only the count of errors shown.

## 10. Plan

Done, in this order: the controller and its composition with the project scan;
the store and its abstract specification; the query engine over it; the owner
process; the session scan with its record pipeline and spools; the registry and
the content cache; and the proofs of section 5.

Left, most important first:

1. The walk of a record's tree: `FieldsRead` and `OwnRecordsRead` for every tree, once
   the prover can do induction over trees.
2. Liveness of the session worker: the fairness of `WorkerClock` carried over
   to `SessionScan`, on an instance with one file.
3. The worker's maintenance between runs (compaction, cache pruning) and the claim
   of the two workers on one store, as a composition of `StoreIndex` with both.
4. Admission as a pure function against a reference definition.
