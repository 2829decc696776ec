----------------------------- MODULE MCRecorder -----------------------------
(***************************************************************************)
(* An instance of VideoRecorder for TLC: the Qt thread and the close       *)
(* worker, two threads of the pool, a queue with one place.                *)
(***************************************************************************)
EXTENDS VideoRecorder

CONSTANTS ui, closer, p1, p2
=============================================================================
