---------------------------- MODULE MCOwnerFiles ----------------------------
(***************************************************************************)
(* The files that an owner keeps, or finds again after a restart: its      *)
(* store, its content cache, and the registry of roots, which front ends   *)
(* write before they ask for an owner.  They have no state in common, so   *)
(* that each is explored with the other two at rest.                       *)
(***************************************************************************)
EXTENDS StoreIndex, IdentityRegistry, ContentCache, TLC
CONSTANTS k1, k2, w1

FilesInit == Init /\ RegistryInit /\ CacheInit

StoreAtRest == generation = 0
RegistryAtRest == remembered = {} /\ errors = 0 /\ step = [p \in Proc |-> "idle"] /\ ~exists
CacheAtRest == stage = "closed" /\ indexed.version = NoVersionYet /\ faults = 0 /\ now = 0

(* The store stops at the bound on its generations. *)
StoreIsFull == generation = MaxGeneration

FilesNext ==
    \/ RegistryAtRest /\ CacheAtRest /\ Next /\ UNCHANGED <<registryVars, cacheVars>>
    \/ StoreAtRest /\ CacheAtRest /\ RegistryNext /\ UNCHANGED <<vars, cacheVars>>
    \/ StoreAtRest /\ RegistryAtRest /\ CacheNext /\ UNCHANGED <<vars, registryVars>>
    \/ StoreIsFull /\ UNCHANGED <<vars, registryVars, cacheVars>>

FilesSpec == FilesInit /\ [][FilesNext]_<<vars, registryVars, cacheVars>>

(* Two interchangeable sources of one collection. *)
OneHome == [k \in Key |-> "project"]
KeySymmetry == Permutations(Key)

(* Three front ends: two of one project, whose worktrees share the owner   *)
(* key, and one that knows a root of it as a plain folder.                 *)
MCVerified ==
    [p \in Proc |-> CASE p = "a" -> {<<"main", "git">>, <<"tree", "git">>}
                      [] p = "b" -> {<<"tree", "git">>}
                      [] OTHER -> {<<"main", "plain">>}]

MCSize == [v \in SourceVersion |-> IF v = "v1" THEN 2 ELSE 1]
=============================================================================
