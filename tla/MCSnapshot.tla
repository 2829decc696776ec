----------------------------- MODULE MCSnapshot -----------------------------
(***************************************************************************)
(* Instances of SnapshotService for TLC.                                   *)
(***************************************************************************)
EXTENDS SnapshotService, TLC

CONSTANTS t1, t2, a, b

Symmetry == Permutations({t1, t2}) \cup Permutations({a, b})
=============================================================================
