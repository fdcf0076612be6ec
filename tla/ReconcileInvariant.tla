-------------------------- MODULE ReconcileInvariant --------------------------
(***************************************************************************)
(* The inductive invariant behind the read guarantees of ProjectReconcile. *)
(*                                                                         *)
(* The argument: a searchable row that misses an observed change is still  *)
(* covered by the queue, or by a run that has not invalidated its scope    *)
(* yet (StaleQueued).  Reads are let through only at a revision at which   *)
(* the queue is empty and the run has invalidated (Revisions).  A run puts *)
(* a row back only from what it read, and what it read misses a change     *)
(* only if that change is in the queue (Buffered); it re-uses a row        *)
(* without writing only if nothing else has written it (Listed).           *)
(***************************************************************************)
EXTENDS ProjectReconcile

(* The phases in which the worker holds a run, and those after it has marked *)
(* its scope as invalidated.                                                 *)
Scanning == {"list", "discover", "scan", "commit", "publish", "remove"}
Running == {"begun", "invalidate", "invalidated"} \cup Scanning

(* The run of the controller is the worker's; its revision is the current    *)
(* one exactly while nothing is queued; reads are safe at the revision of a  *)
(* run that has invalidated, and at an older one before that.                *)
Revisions ==
    /\ ctl.observed >= 1 /\ ctl.safe <= ctl.observed
    /\ pc \in Running =>
          /\ ctl.active = ticket /\ ticket.run # 0 /\ ticket.scope # NoScope
          /\ 1 <= ticket.observed /\ ticket.observed <= ctl.observed
          /\ ticket.observed = ctl.observed <=> ctl.pending = NoScope
          /\ IF pc \in Scanning THEN ctl.safe = ticket.observed
                                ELSE ctl.safe < ticket.observed
    /\ pc \notin Running =>
          /\ ctl.active = NoTicket
          /\ ctl.safe = ctl.observed <=> ctl.pending = NoScope

(* What a file holds now is among what it has held since it was observed. *)
DiskRecent == \A p \in Path : disk[p] \in recent[p]

StaleQueued ==
    \A p \in Path : rows[p].eligible /\ rows[p].version \notin recent[p] =>
        \/ Covers(ctl.pending, p)
        \/ pc \in {"begun", "invalidate"} /\ Covers(ticket.scope, p)

Buffered ==
    pc = "commit" /\ job.got \in Version /\ job.got \notin recent[job.path] =>
        Covers(ctl.pending, job.path)

(* The phase of the scan, a publication belonging to the one it returns to,  *)
(* and the paths the scan has not committed anything for yet.                *)
Phase == IF pc = "publish" THEN job.back ELSE pc
Unread ==
    {p \in Path : \/ Phase \in {"discover", "scan", "commit"} /\ p \in job.todo
                  \/ Phase = "discover" /\ p \in job.files
                  \/ Phase = "commit" /\ p = job.path}

Listed ==
    /\ \A p \in Unread : job.existing[p] = rows[p].version
    /\ Phase = "discover" => job.todo \cap job.files = {}
    /\ Phase = "commit" => job.path \notin job.todo

(* What the reader relies on: tokens are never ahead of the controller, and  *)
(* one that still validates vouches for what was decided with it.            *)
ReaderSafe ==
    rd.pc # "idle" =>
        /\ rd.token.observed <= ctl.observed
        /\ rd.token.publication <= ctl.publication
        /\ rd.pc = "snapshot" /\ rd.eligible /\ Validates(ctl, rd.token) => Eligible(ctl)
        /\ rd.pc = "searched" /\ Validates(ctl, rd.token) =>
              \A p \in Path : rd.hits[p] # NoVersion => rd.hits[p] \in recent[p]

(* The revisions, the rows and the scan's buffers are consistent in every    *)
(* interleaving of changes, clients, the worker and the reader.              *)
IInv == Revisions /\ DiskRecent /\ StaleQueued /\ Buffered /\ Listed /\ ReaderSafe

(***************************************************************************)
(* What the coverage guarantees rest on besides.  While a run scans, the   *)
(* path whose outcome is being published is accounted for by the outcome   *)
(* in hand, every path done with by what the report says of it, and a      *)
(* path to come by the row the scan has suppressed.                        *)
(***************************************************************************)
Scans == {"discover", "scan", "commit", "publish", "remove"}
Current == IF pc = "publish" THEN {job.path} ELSE {}
Concerned == InScope \ (job.report.reported \cup Current)

(* The scan's locals are about its scope, and what it has seen it reports. *)
OwnScope ==
    pc \in Scans =>
        /\ job.todo \cup job.files \cup job.report.reported \subseteq InScope
        /\ pc \in {"commit", "publish"} => job.path \in InScope
        /\ job.report.full <=> ~Precise
        /\ Phase # "discover" /\ job.report.complete => ~job.walkFailed
        /\ job.seen \subseteq job.report.reported \cup Current
        /\ \A p \in Path : job.existing[p] # NoVersion => p \in InScope

(* A searchable row of the scope is one the scan has written; a path that is *)
(* not reported yet has the row it was listed with.                          *)
Suppressed ==
    /\ \A p \in Path : rows[p].eligible => Present(rows[p])
    /\ pc \in Scans =>
          /\ \A p \in InScope : rows[p].eligible => p \in job.seen
          /\ \A p \in Concerned : rows[p].version = job.existing[p]
          /\ \A p \in Unread : ~rows[p].eligible

(* A path leaves no doubt if it can be found, if it has held something that  *)
(* is not indexed, or if the outcome says that there was an error.           *)
Shows(p) == rows[p].eligible \/ ~(recent[p] \subseteq Version)

(* What was read is the content of a file or an error; if it is not to be    *)
(* indexed the file has held something else than text, unless a change is    *)
(* queued.                                                                   *)
BufferedOther ==
    pc = "commit" =>
        \/ job.got \in Version \cup {"failed"}
        \/ /\ job.got \in {"binary", "garbled"}
           /\ Covers(ctl.pending, job.path) \/ ~(recent[job.path] \subseteq Version)

Answered ==
    pc \in Scans /\ ~job.walkFailed =>
        \A p \in InScope \ Unread :
            \/ Covers(ctl.pending, p) \/ Shows(p)
            \/ IF p \in Current THEN job.outcome.errors
               ELSE p \in job.report.reported /\ job.report.outcome[p].errors

(* What is dark, neither found nor recorded as an error, is queued or in the *)
(* scope of the run.                                                         *)
DarkQueued ==
    \A p \in Path : \/ Covers(ctl.pending, p) \/ Shows(p) \/ ledger.sources[p].errors
                    \/ pc \in Running /\ Covers(ticket.scope, p)

(* An outcome and a row that say the same. *)
Agrees(o, row) ==
    /\ row.eligible => o.known /\ ~o.excluded /\ o.version = row.version
    /\ o.known /\ ~o.errors /\ ~o.excluded => row.eligible

ReportAgrees ==
    /\ pc \in Scans => \A p \in job.report.reported \ Current :
                            Agrees(job.report.outcome[p], rows[p])
    /\ pc = "publish" => Agrees(job.outcome, rows[job.path])

(* A ledger is trusted from a completed full run on, until a run fails or    *)
(* remains incomplete.                                                       *)
Trusted(l) == l.reconstructed /\ ~l.scanFailed /\ ~l.discoveryUncertain
LedgerAgrees ==
    Trusted(ledger) =>
        \A p \in Path : \/ Agrees(ledger.sources[p], rows[p])
                        \/ pc \in Running /\ Covers(ticket.scope, p)

(* Counted errors of discovery never fall below none. *)
DiscoveryCounted ==
    /\ ledger.discovery.errors >= 0 /\ ledger.scopedDiscovery.errors >= 0
    /\ job.report.discovery.errors >= 0

(* What a status "ready" vouches for as long as its token validates: nothing *)
(* is queued or running, the search was allowed and no outcome is an error;   *)
(* after the search, a path without a hit has held something else than text.  *)
ReadyVouched ==
    rd.pc # "idle" /\ rd.status = "ready" /\ Validates(ctl, rd.token) =>
        /\ Idle(ctl)
        /\ rd.pc = "snapshot" =>
              rd.eligible /\ \A p \in Path : ~ledger.sources[p].errors
        /\ rd.pc = "searched" =>
              \A p \in Path : rd.hits[p] = NoVersion => ~(recent[p] \subseteq Version)

(* While the worker is in a scan, and when it is not.                        *)
ScanInv ==
    OwnScope /\ Suppressed /\ BufferedOther /\ Answered /\ ReportAgrees /\ PublicationConfirmed
CoverageInv == ScanInv /\ DarkQueued /\ LedgerAgrees
=============================================================================
