---------------------------- MODULE MCWorkerPool ----------------------------
(***************************************************************************)
(* An instance of WorkerPool for TLC: two producers and two callers of     *)
(* shutdown race for a queue with a single place, so that tasks and        *)
(* sentinels are refused.                                                  *)
(***************************************************************************)
EXTENDS WorkerPool

CONSTANTS p1, p2, c1, c2
=============================================================================
