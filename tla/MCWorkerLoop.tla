---------------------------- MODULE MCWorkerLoop ----------------------------
(* Three overlapping calls of WaitForAtLeastOneWorkerLoop. *)
EXTENDS WorkerLoop, TLC

CONSTANTS c1, c2, c3
=============================================================================
