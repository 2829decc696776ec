----------------------------- MODULE MCDispatch -----------------------------
(***************************************************************************)
(* An instance of DetectionDispatch for TLC.                               *)
(***************************************************************************)
EXTENDS DetectionDispatch

CONSTANT a
=============================================================================
