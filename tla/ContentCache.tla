---------------------------- MODULE ContentCache ----------------------------
(***************************************************************************)
(* The cache of tokenised chunks (content_cache.rs) as the owner's worker  *)
(* uses it (read_source_once and the commit of scan_project_observed_inner *)
(* in ingest.rs): a file of chunks for each source version and a manifest  *)
(* that lists them, neither of which is written together with the other.   *)
(*                                                                         *)
(* Atomicity: one look at a file, one rename, or one transaction of the    *)
(* store.  A file is damaged from outside only between two uses of the     *)
(* cache.  The entries of the manifest are a set, because keys are unique  *)
(* and their order decides only between entries used in the same second.   *)
(* Left out: a manifest that cannot be parsed or is of another version,    *)
(* which is as good as none, and entries of old ones without a checksum.   *)
(***************************************************************************)
EXTENDS Naturals, FiniteSetsExt

CONSTANTS
    SourceVersion,  \* versions of source files
    Size,           \* the bytes of each version's chunks
    MaxBytes, MaxEntries,       \* the limits of the cache
    MaxTime,        \* bound on the seconds that pass
    MaxFaults       \* bound on failures, damages and ends of the process

Whole == "whole"        \* the chunks of the version, all of them
Short == "short"        \* fewer, in a file that still parses
Garbled == "garbled"    \* a file that does not parse
Gone == "gone"
Kinds == {Whole, Short, Garbled, Gone}
NoVersionYet == "no version"

ASSUME CacheAssumption ==
    /\ Size \in [SourceVersion -> Nat] /\ NoVersionYet \notin SourceVersion
    /\ {MaxBytes, MaxEntries, MaxTime, MaxFaults} \subseteq Nat

VARIABLES
    cached,     \* the file of each version
    listed,     \* manifest.json: a set of entries
    manifest,   \* the worker's copy of it
    stage,      \* where the worker is
    wanted,     \* the version it reads
    indexed,    \* what it has committed to the store
    now, faults

cacheVars == <<cached, listed, manifest, stage, wanted, indexed, now, faults>>

Entry == [version : SourceVersion, checksum : Kinds, used : Nat]
EntryOf(v) == [version |-> v, checksum |-> cached[v], used |-> now]
EntriesOf(m, v) == {e \in m : e.version = v}
OthersThan(m, v) == {e \in m : e.version # v}

CacheInit ==
    /\ cached = [v \in SourceVersion |-> Gone] /\ listed = {} /\ manifest = {}
    /\ stage = "closed" /\ wanted = NoVersionYet
    /\ indexed = [version |-> NoVersionYet, chunks |-> Whole]
    /\ now = 0 /\ faults = 0

CacheFault == faults < MaxFaults /\ faults' = faults + 1
At(s) == stage' = s

(* persist_manifest, where its failure is passed over. *)
TryPersist == (listed' = manifest' /\ UNCHANGED faults) \/ (CacheFault /\ UNCHANGED listed)

(* prune keeps entries from the most recently used on while they fit; which *)
(* of several of the same second comes first is left open.                  *)
Bytes(m) == MapThenSumSet(LAMBDA e : Size[e.version], m)
Fits(kept, e) ==
    LET recent == {k \in kept : k.used >= e.used} IN
    Cardinality(recent) < MaxEntries /\ Bytes(recent) + Size[e.version] <= MaxBytes
Pruned(m) ==
    {kept \in SUBSET m :
        /\ Cardinality(kept) <= MaxEntries /\ Bytes(kept) <= MaxBytes
        /\ \A e \in m \ kept : ~Fits(kept, e)}
FilesOf(m) == {e.version : e \in m}
Deleted(S) == [v \in SourceVersion |-> IF v \in S THEN Gone ELSE cached[v]]

(* Files are deleted without a look at whether that succeeds. *)
TryDelete(S) ==
    \/ cached' = Deleted(S) /\ UNCHANGED faults
    \/ CacheFault /\ \E T \in SUBSET S : T # S /\ cached' = Deleted(T)

(***************************************************************************)
(* open_with_limits.                                                       *)
(***************************************************************************)
CleanMissing ==
    /\ stage = "closed"
    /\ manifest' = {e \in listed : cached[e.version] # Gone}
    /\ listed' = manifest'
    /\ At("opening")
    /\ UNCHANGED <<cached, wanted, indexed, now, faults>>

CleanOrphans ==
    /\ stage = "opening"
    /\ TryDelete({v \in SourceVersion \ FilesOf(manifest) : cached[v] # Gone})
    /\ At("prune opened")
    /\ UNCHANGED <<listed, manifest, wanted, indexed, now>>

Prune ==
    /\ \/ stage = "prune opened" /\ At("persist opened")
       \/ stage = "prune put" /\ At("persist put")
    /\ \E kept \in Pruned(manifest) :
          /\ manifest' = kept
          /\ TryDelete(FilesOf(manifest \ kept))
    /\ UNCHANGED <<listed, wanted, indexed, now>>

(* A failure here is one of open, and the cache is not used then, or of     *)
(* put, and what was put is not listed.                                     *)
PersistManifest ==
    /\ \/ /\ stage \in {"persist opened", "persist put"}
          /\ listed' = manifest /\ At("idle")
          /\ UNCHANGED <<manifest, faults>>
       \/ /\ stage = "persist opened" /\ CacheFault
          /\ manifest' = {} /\ At("closed")
          /\ UNCHANGED listed
       \/ /\ stage = "persist put" /\ CacheFault
          /\ At("idle")
          /\ UNCHANGED <<listed, manifest>>
    /\ UNCHANGED <<cached, wanted, indexed, now>>

(***************************************************************************)
(* get, and the commit of a hit, unless the source file changed meanwhile.  *)
(***************************************************************************)
ValidUnchecked(e) == cached[e.version] \in {Whole, Short}
Valid(e) == cached[e.version] \in {Whole, Short} /\ cached[e.version] = e.checksum

Get(v) ==
    /\ stage = "idle"
    /\ wanted' = v
    /\ \/ /\ EntriesOf(manifest, v) = {}
          /\ At("decode")
          /\ UNCHANGED <<cached, listed, manifest, indexed, faults>>
       \/ \E e \in EntriesOf(manifest, v) :
             /\ ~Valid(e) \/ faults < MaxFaults     \* it cannot be read
             /\ manifest' = manifest \ {e}
             /\ cached' \in {cached, Deleted({v})}
             /\ TryPersist
             /\ At("decode")
             /\ UNCHANGED indexed
       \/ \E e \in EntriesOf(manifest, v) :
             /\ Valid(e)
             /\ manifest' = (manifest \ {e}) \cup {EntryOf(v)}
             /\ TryPersist
             /\ indexed' \in {indexed, [version |-> v, chunks |-> cached[v]]}
             /\ At("idle")
             /\ UNCHANGED cached
    /\ UNCHANGED now

(* A miss: the file is decoded, committed, and then put into the cache. *)
CommitDecoded ==
    /\ stage = "decode"
    /\ indexed' = [version |-> wanted, chunks |-> Whole]
    /\ At("put")
    /\ UNCHANGED <<cached, listed, manifest, wanted, now, faults>>

(* put: the chunks go to a temporary file, which then takes its name. *)
PutFile ==
    /\ stage = "put"
    /\ cached' = [cached EXCEPT ![wanted] = Whole]
    /\ At("renamed")
    /\ UNCHANGED <<listed, manifest, wanted, indexed, now, faults>>

PutEntry ==
    /\ stage = "renamed"
    /\ manifest' = OthersThan(manifest, wanted) \cup {EntryOf(wanted)}
    /\ At("prune put")
    /\ UNCHANGED <<cached, listed, wanted, indexed, now, faults>>

PutFails ==
    /\ stage \in {"put", "renamed"} /\ CacheFault
    /\ At("idle")
    /\ UNCHANGED <<cached, listed, manifest, wanted, indexed, now>>

CacheStep ==
    \/ CleanMissing \/ CleanOrphans \/ Prune \/ PersistManifest
    \/ (\E v \in SourceVersion : Get(v)) \/ CommitDecoded \/ PutFile \/ PutEntry \/ PutFails

(***************************************************************************)
(* The environment: a process ends, a file is damaged, time passes.        *)
(***************************************************************************)
EndOfProcess ==
    /\ stage # "closed" /\ CacheFault
    /\ manifest' = {} /\ At("closed")
    /\ UNCHANGED <<cached, listed, wanted, indexed, now>>

Damage(v, kind) ==
    /\ stage \in {"closed", "idle"} /\ cached[v] # Gone /\ CacheFault
    /\ cached' = [cached EXCEPT ![v] = kind]
    /\ UNCHANGED <<listed, manifest, stage, wanted, indexed, now>>

Tick ==
    /\ now < MaxTime /\ now' = now + 1
    /\ UNCHANGED <<cached, listed, manifest, stage, wanted, indexed, faults>>

CacheNext ==
    \/ CacheStep \/ EndOfProcess \/ Tick
    \/ \E v \in SourceVersion, kind \in {Short, Garbled, Gone} : Damage(v, kind)

CacheSpec == CacheInit /\ [][CacheNext]_cacheVars

(***************************************************************************)
(* What is committed for a version is the chunks of that version, all of   *)
(* them, whether they were decoded or came from the cache, and whatever    *)
(* became of its files and of the process between ("a missing or corrupt   *)
(* cache entry simply causes ingestion to use the source spool",           *)
(* content_cache.rs).                                                      *)
(***************************************************************************)
CommitsWhole == indexed.chunks = Whole
=============================================================================
