-------------------------- MODULE MCOwnerLifecycle --------------------------
(* Instances of OwnerLifecycle. *)
EXTENDS OwnerLifecycle, TLC
CONSTANTS o1, o2, o3, c1, c2, q1, q2
OwnerSymmetry == Permutations(Process) \cup Permutations(Client) \cup Permutations(Port)
=============================================================================
