-------------------------- MODULE CameraLifecycle --------------------------
(***************************************************************************)
(* What the gateway promises its user about the camera, with threads,      *)
(* locks and sessions left out: one phase, and whether capture resources   *)
(* (a camera device or a running pipeline) are held.  It is what the       *)
(* docstrings of GatewayState, open_camera and close_camera describe, and  *)
(* GatewayController is shown to implement it.                             *)
(***************************************************************************)

VARIABLES phase, held
vars == <<phase, held>>

Phases == {"idle", "opening", "camera_on", "detecting", "closing", "undoing"}

Init == phase = "idle" /\ held = FALSE

Move(from, to) == phase = from /\ phase' = to /\ UNCHANGED held

BeginOpen  == Move("idle", "opening")
Acquire    == phase = "opening" /\ held' = TRUE /\ UNCHANGED phase
Ready      == held /\ Move("opening", "camera_on")
GiveUp     == ~held /\ Move("opening", "idle")
Detect     == Move("camera_on", "detecting")
Pause      == Move("detecting", "camera_on")
BeginClose == \E from \in {"camera_on", "detecting", "undoing"} : Move(from, "closing")
Closed     == ~held /\ Move("closing", "idle")
Free       == /\ phase \in {"opening", "closing", "undoing"}
              /\ held' = FALSE /\ UNCHANGED phase

(* An open that fails after the camera was on takes it down by itself,     *)
(* unless somebody closes it first.                                        *)
Undo       == Move("camera_on", "undoing")
Undone     == ~held /\ Move("undoing", "idle")

Next == \/ BeginOpen \/ Acquire \/ Ready \/ GiveUp \/ Detect \/ Pause
        \/ BeginClose \/ Free \/ Closed \/ Undo \/ Undone

(* What has begun to be taken down is freed, and ends. *)
EndClose == phase = "closing" /\ (Free \/ Closed)
EndUndo  == phase = "undoing" /\ (Free \/ Undone)

Spec     == Init /\ [][Next]_vars
FairSpec == Spec /\ WF_vars(EndClose) /\ WF_vars(EndUndo)
=============================================================================
