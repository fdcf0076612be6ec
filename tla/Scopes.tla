------------------------------- MODULE Scopes -------------------------------
(***************************************************************************)
(* The unit of pending work of a reconciliation controller: which sources  *)
(* a change notification, a queued request or a run is about               *)
(* (reconciliation.rs, enum Scope and Option<Scope>).                      *)
(*                                                                         *)
(* Full covers every source, known or not.  Sources(S) covers exactly the  *)
(* paths of S; Sources({}) is real work (a Git event that names no file)   *)
(* and differs from NoScope, the empty queue.                              *)
(***************************************************************************)
EXTENDS Naturals, FiniteSets

CONSTANTS Path,        \* the paths a project may hold
          ScopeLimit   \* more paths than this are not tracked one by one (1024)

ASSUME ScopesAssumption == IsFiniteSet(Path) /\ ScopeLimit \in Nat

NoScope == [kind |-> "none", paths |-> {}]
Full == [kind |-> "full", paths |-> {}]
Sources(S) == [kind |-> "sources", paths |-> S]
Scope == {NoScope, Full} \cup {Sources(S) : S \in SUBSET Path}

Covers(s, p) == s.kind = "full" \/ (s.kind = "sources" /\ p \in s.paths)

(* A set of paths past the limit becomes a request for everything. *)
Bounded(s) ==
    IF s.kind = "sources" /\ Cardinality(s.paths) > ScopeLimit THEN Full ELSE s

(* Scope::merge.  Anything but two precise scopes widens to Full. *)
Merge(a, b) ==
    IF a.kind = "sources" /\ b.kind = "sources"
    THEN Bounded(Sources(a.paths \cup b.paths))
    ELSE Full

(* What Controller::queue leaves in the pending slot. *)
Queue(pending, s) ==
    IF pending = NoScope THEN Bounded(s) ELSE Merge(pending, Bounded(s))
=============================================================================
