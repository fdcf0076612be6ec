--------------------------- MODULE VersionedIndex ---------------------------
(***************************************************************************)
(* What the store promises its readers: a counter, kept in the database,   *)
(* that tells any two searchable contents apart.  Whoever has seen the     *)
(* same generation twice has seen the same index; the posting cache of     *)
(* hot.rs and the "generation" of every answer rest on it.                 *)
(*                                                                         *)
(* Sources: store.rs (current_generation, next_generation, set_generation  *)
(* and the transactions that use them).                                    *)
(***************************************************************************)
EXTENDS Naturals

CONSTANT View       \* what may be searchable

VARIABLES
    generation,     \* meta.generation
    view            \* what a search can see

ViewInit == generation = 0 /\ view \in View

(* A committed transaction that changes what is searchable. *)
Publish ==
    /\ generation' = generation + 1
    /\ view' \in View

Versioned == ViewInit /\ [][Publish]_<<generation, view>>
=============================================================================
