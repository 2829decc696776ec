------------------------------- MODULE MCChat -------------------------------
(***************************************************************************)
(* An instance of RemoteControl for TLC.                                   *)
(***************************************************************************)
EXTENDS RemoteControl

OneWorker  == {"w"}
AllSenders == {"w", "chat", "opener"}
BothWrite  == {"chat", "opener"}
LiveKinds  == {"pushed", "shared"}
=============================================================================
