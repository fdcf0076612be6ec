---------------------------- MODULE MCWorkerClock ----------------------------
(* A small instance of WorkerClock for TLC.                                  *)
EXTENDS WorkerClock, TLC

TextEdits == Version \cup {Absent}
=============================================================================
