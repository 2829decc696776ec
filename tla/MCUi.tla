-------------------------------- MODULE MCUi --------------------------------
(***************************************************************************)
(* Instances of Presentation for TLC: two close threads, so that one may   *)
(* still be publishing while the next tears down.                          *)
(***************************************************************************)
EXTENDS Presentation

TwoClosers == {"c1", "c2"}
=============================================================================
