------------------------- MODULE MCProjectReconcile -------------------------
(* Small instances of ProjectReconcile for TLC.                              *)
EXTENDS ReconcileInvariant, TLC

TextEdits == Version \cup {Absent}

(* "link" is left out: only a precise scope tells it from "escape", and what *)
(* it does then, an exclusion, "escape" does under a full one.               *)
OneOfEach == Version \cup {Absent, "escape", "binary", "garbled"}
=============================================================================
