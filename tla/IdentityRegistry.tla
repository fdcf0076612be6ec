-------------------------- MODULE IdentityRegistry --------------------------
(***************************************************************************)
(* The registry of verified project roots (identity.rs): one JSON file     *)
(* that front ends and owners of every project rewrite whole.  A writer    *)
(* opens it, takes the lock file, reads it again, and replaces it by a     *)
(* rename; any of them may fail or end at any step.                        *)
(*                                                                         *)
(* Atomicity: one look at the file, one attempt to lock it, or one rename. *)
(* The lock is the operating system's, and goes with its process.          *)
(***************************************************************************)
EXTENDS Naturals

CONSTANTS
    Proc,       \* processes
    Root,       \* canonical roots
    OwnerKey,   \* owner keys of projects
    Verified,   \* the identities a process may verify: pairs of root and owner key
    MaxTries,   \* attempts at the lock (500)
    MaxErrors   \* bound on failures of I/O and ends of processes

Unknown == "unknown"     \* no entry for a root
Nobody == "nobody"       \* the lock is free

ASSUME RegistryAssumption ==
    /\ Verified \in [Proc -> SUBSET (Root \X OwnerKey)]
    /\ Unknown \notin OwnerKey /\ Nobody \notin Proc
    /\ MaxTries \in Nat /\ MaxErrors \in Nat

VARIABLES
    file,         \* identity-registry.json, Empty where it does not exist
    exists,       \* whether it does
    lock,         \* who holds identity-registry.json.lock
    step,         \* where each process is
    entries,      \* IdentityRegistry.entries of each process
    identity,     \* what each process records
    tries,
    remembered,   \* roots some process was told are recorded
    errors

registryVars == <<file, exists, lock, step, entries, identity, tries, remembered, errors>>

Table == [Root -> OwnerKey \cup {Unknown}]
Empty == [r \in Root |-> Unknown]
Recorded(p) == entries[p][identity[p][1]] = identity[p][2]

RegistryInit ==
    /\ file = Empty /\ exists = FALSE /\ lock = Nobody /\ remembered = {} /\ errors = 0
    /\ step = [p \in Proc |-> "idle"]
    /\ entries = [p \in Proc |-> Empty]
    /\ identity \in [Proc -> Root \X OwnerKey] /\ \A p \in Proc : identity[p] \in Verified[p]
    /\ tries = [p \in Proc |-> 0]

Goto(p, s) == step' = [step EXCEPT ![p] = s]
Error == errors < MaxErrors /\ errors' = errors + 1
Unlock(p) == lock' = IF lock = p THEN Nobody ELSE lock

(* IdentityRegistry::open, and the identity verified from a live root. *)
OpenRegistry(p) ==
    /\ step[p] = "idle"
    /\ \E i \in Verified[p] : identity' = [identity EXCEPT ![p] = i]
    /\ entries' = [entries EXCEPT ![p] = file]
    /\ tries' = [tries EXCEPT ![p] = 0]
    /\ Goto(p, "locking")
    /\ UNCHANGED <<file, exists, lock, remembered, errors>>

(* RegistryLock::acquire. *)
Acquire(p) ==
    /\ step[p] = "locking" /\ lock = Nobody
    /\ lock' = p
    /\ Goto(p, "locked")
    /\ UNCHANGED <<file, exists, entries, identity, tries, remembered, errors>>

WaitForLock(p) ==
    /\ step[p] = "locking" /\ lock # Nobody
    /\ IF tries[p] < MaxTries
       THEN tries' = [tries EXCEPT ![p] = @ + 1] /\ UNCHANGED step
       ELSE Goto(p, "idle") /\ UNCHANGED tries
    /\ UNCHANGED <<file, exists, lock, entries, identity, remembered, errors>>

(* remember_verified reads the file again under the lock, if there is one. *)
ReloadNever(p) == entries[p]
Reload(p) == IF exists THEN file ELSE entries[p]

ReloadEntries(p) ==
    /\ step[p] = "locked"
    /\ entries' = [entries EXCEPT ![p] = Reload(p)]
    /\ Goto(p, "loaded")
    /\ UNCHANGED <<file, exists, lock, identity, tries, remembered, errors>>

(* The same association is not written again; another one for the root is  *)
(* replaced.                                                               *)
UpdateEntries(p) ==
    /\ step[p] = "loaded"
    /\ IF Recorded(p) THEN Goto(p, "recorded") /\ UNCHANGED entries
       ELSE /\ entries' = [entries EXCEPT ![p][identity[p][1]] = identity[p][2]]
            /\ Goto(p, "updated")
    /\ UNCHANGED <<file, exists, lock, identity, tries, remembered, errors>>

(* persist: a temporary file, synced, takes the place of the old one. *)
Persist(p) ==
    /\ step[p] = "updated"
    /\ file' = entries[p] /\ exists' = TRUE
    /\ Goto(p, "recorded")
    /\ UNCHANGED <<lock, entries, identity, tries, remembered, errors>>

Remember(p) ==
    /\ step[p] = "recorded"
    /\ remembered' = remembered \cup {identity[p][1]}
    /\ Unlock(p) /\ Goto(p, "idle")
    /\ UNCHANGED <<file, exists, entries, identity, tries, errors>>

(* A read or a write fails, and the call with it, or the process ends. *)
Stop(p) ==
    /\ step[p] # "idle" /\ Error
    /\ Unlock(p) /\ Goto(p, "idle")
    /\ UNCHANGED <<file, exists, entries, identity, tries, remembered>>

RegistryStep(p) ==
    \/ OpenRegistry(p) \/ Acquire(p) \/ WaitForLock(p) \/ ReloadEntries(p)
    \/ UpdateEntries(p) \/ Persist(p) \/ Remember(p) \/ Stop(p)

RegistryNext == \E p \in Proc : RegistryStep(p)

RegistrySpec == RegistryInit /\ [][RegistryNext]_registryVars

(***************************************************************************)
(* A root once recorded stays recorded, however writers overlap and        *)
(* wherever they stop, and an entry is always one that somebody verified   *)
(* from a live root ("one writer does not erase another writer's verified  *)
(* mapping", "it never guesses ownership", identity.rs).                   *)
(***************************************************************************)
RememberedNotLost ==
    \A r \in Root :
        /\ r \in remembered => file[r] # Unknown
        /\ file[r] # Unknown =>
               \E p \in Proc : <<r, file[r]>> \in Verified[p]
=============================================================================
