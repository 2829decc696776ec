----------------------------- MODULE MCPipeline -----------------------------
(***************************************************************************)
(* An instance of Pipeline for TLC: any step of start may raise.           *)
(***************************************************************************)
EXTENDS Pipeline

AnyStart == Starts
=============================================================================
