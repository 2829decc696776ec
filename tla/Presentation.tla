---------------------------- MODULE Presentation ----------------------------
(***************************************************************************)
(* What the main window (ui/main_window.py) shows of the camera and the    *)
(* detector, and the events that reach it (gateway/event_bus.py,           *)
(* UIEventBridge).                                                         *)
(*                                                                         *)
(* The bus runs its handlers on the publishing thread.  The handlers of    *)
(* the window are signals: one emitted on the Qt thread runs its slot at   *)
(* once, in the middle of the gateway call that published it, and one      *)
(* emitted on any other thread waits in the queue of the event loop.  A    *)
(* status travels with its event and is the one of the moment it was       *)
(* published; the menu is computed from the state of the moment its slot   *)
(* runs.  The gateway itself is GatewayController's, cut down to the steps *)
(* that publish or that the window can observe.                            *)
(***************************************************************************)
EXTENDS Integers, Sequences, SequencesExt

CONSTANTS
  Closers,     \* identities for close threads
  Configured,  \* whether a chat_id is configured at the start
  Files,       \* what the runtime state file may say of the detector
  Echoes,      \* how often one fatal read error reaches the window
  MaxClicks    \* bound: commands the user gives, in the window or the chat

ASSUME ConfiguredAssumption == Configured \subseteq BOOLEAN
ASSUME FilesAssumption      == Files \subseteq {"absent", "running", "stopped", "broken"}
ASSUME EchoesAssumption     == Echoes \in Nat \ {0}
ASSUME ClicksAssumption     == MaxClicks \in Nat

Openers    == {"ui", "init"}   \* the Qt thread, the thread of run_with_qt
Publishers == Openers \cup {"drain"} \cup Closers

VARIABLES
  state, failed,  \* self._state and self._camera_failed
  chat,           \* the notifier configuration has a chat_id
  saved,          \* the runtime state file
  alive,          \* the pipeline of this session can still fail fatally
  closer,         \* closer[c]: "none", "teardown" or "publishing"
  drain,          \* the thread of a fatal error: "ready" or "fatal"
  pc,             \* control point of an opener
  todo,           \* todo[p]: the events p is still to publish, in order
  queue,          \* events waiting for the event loop of the Qt thread
  menu,           \* the state the actions were last computed from
  panel,          \* the camera's status on the panel
  overlay,        \* an overlay covers the preview
  dialogs, held,  \* modal dialogs, innermost last; those below a gateway call
  lost,           \* history: what the window was not told, or did to no effect
  hidden,         \* the window is in the tray
  clicks          \* bound: commands given so far

gateway == <<state, failed, chat, saved, alive>>
threads == <<closer, drain>>
shown   == <<menu, panel, overlay, lost, dialogs>>
user    == <<hidden, clicks>>
vars    == <<gateway, threads, pc, todo, queue, shown, held, user>>

OpenStates == {"camera_on", "detecting"}
Busy       == state \in {"opening", "closing"}
IsOpen     == state \in OpenStates

StateFromLegacy(open, busy, running, bad) ==
  CASE bad             -> "failed"
    [] ~bad /\ busy    -> IF open THEN "stopping" ELSE "starting"
    [] ~bad /\ ~busy   -> IF running THEN "running"
                          ELSE IF open THEN "stopped" ELSE "idle"

(* get_component_status, for the camera: CLOSING is not busy here *)
CameraStatus == StateFromLegacy(IsOpen, state = "opening", IsOpen, failed)

(* Events.  A camera status is read when its turn to be published comes.   *)
Event(type) == [type |-> type, status |-> "none"]
Stamp(e)    == IF e.type = "camera" THEN [e EXCEPT !.status = CameraStatus] ELSE e

(* Mutation: the close thread says nothing of the close. *)
NoCloseEvents == <<>>

OpenEvents   == <<Event("opened"), Event("camera"), Event("detector")>>
DetectEvents == <<Event("detector")>>
CloseEvents  == <<Event("closed"), Event("camera"), Event("detector")>>

Init ==
  /\ state = "idle" /\ failed = FALSE /\ chat \in Configured /\ saved \in Files
  /\ alive = FALSE /\ closer = [c \in Closers |-> "none"] /\ drain = "ready"
  /\ pc = [ui |-> "ready", init |-> "open"]
  /\ todo = [p \in Publishers |-> <<>>] /\ queue = <<>>
  /\ menu = "built" /\ panel = "idle" /\ overlay = TRUE
  /\ dialogs = <<>> /\ held = 0
  /\ lost = {} /\ hidden = FALSE /\ clicks = 0

Goto(t, point) == pc' = [pc EXCEPT ![t] = point]
Say(p, events) == todo' = [todo EXCEPT ![p] = events]
Silent(p)      == todo[p] = <<>>

-----------------------------------------------------------------------------
(* The slots of the window.  Each sets every variable of shown.            *)

UpdateActions == menu' = state    \* _update_action_states

(* hide_overlay does nothing while the overlay is not visible, and in a    *)
(* window that is hidden nothing is; it is shown again with the window.    *)
HideOverlay ==
  /\ overlay' = (overlay /\ hidden)
  /\ lost' = (lost \cup IF overlay' THEN {"hide"} ELSE {})

ShowOverlay == overlay' = TRUE /\ UNCHANGED lost

(* With no chat_id the prompt for /init takes the place of the overlay.    *)
OnOpened ==
  /\ UpdateActions /\ UNCHANGED <<panel, dialogs>>
  /\ IF chat THEN HideOverlay ELSE ShowOverlay

OnClosed ==
  UpdateActions /\ HideOverlay /\ UNCHANGED <<panel, dialogs>>

(* A modal dialog first; _update_action_states when it is answered *)
OnFailed ==
  dialogs' = Append(dialogs, "failed") /\ UNCHANGED <<menu, panel, overlay, lost>>

(* _handle_camera_read_failed, which a timer runs after the slot *)
AskReopen ==
  /\ UpdateActions /\ dialogs' = Append(dialogs, "ask")
  /\ UNCHANGED <<panel, overlay, lost>>

OnChatId == HideOverlay /\ UNCHANGED <<menu, panel, dialogs>>

OnCamera(e) ==
  UpdateActions /\ panel' = e.status /\ UNCHANGED <<overlay, lost, dialogs>>

OnDetector == UpdateActions /\ UNCHANGED <<panel, overlay, lost, dialogs>>

Slot(e) ==
  CASE e.type = "opened"      -> OnOpened
    [] e.type = "closed"      -> OnClosed
    [] e.type = "failed"      -> OnFailed
    [] e.type = "read_failed" -> UNCHANGED shown
    [] e.type = "ask_reopen"  -> AskReopen
    [] e.type = "chat_id"     -> OnChatId
    [] e.type = "camera"      -> OnCamera(e)
    [] e.type = "detector"    -> OnDetector

-----------------------------------------------------------------------------
(* EventBus.publish: one event, on the thread of its publisher             *)

(* The dialog that a gateway call of the Qt thread has opened is answered. *)
Unheld == Len(dialogs) = held

PublishDirect ==
  /\ ~Silent("ui") /\ Unheld
  /\ Slot(Stamp(Head(todo["ui"])))
  /\ Say("ui", Tail(todo["ui"]))
  /\ UNCHANGED <<gateway, threads, pc, queue, held, user>>

PublishQueued(p) ==
  /\ p # "ui" /\ ~Silent(p)
  /\ queue' = queue \o [i \in DOMAIN todo[p] |-> Stamp(todo[p][i])]
  /\ Say(p, <<>>)
  /\ UNCHANGED <<gateway, threads, pc, shown, held, user>>

(* The event loop turns while the Qt thread is in no gateway call, and in  *)
(* a dialog that such a call has opened.                                   *)
LoopTurns == pc["ui"] = "ready" \/ ~Unheld

HandleEvent ==
  /\ LoopTurns /\ queue # <<>>
  /\ Slot(Head(queue))
  /\ queue' = IF Head(queue).type = "read_failed"
              THEN Append(Tail(queue), Event("ask_reopen")) ELSE Tail(queue)
  /\ UNCHANGED <<gateway, threads, pc, todo, held, user>>

-----------------------------------------------------------------------------
(* open_camera, on the Qt thread or on the background thread               *)

Ready(t, point) == pc[t] = point /\ Silent(t) /\ (t = "ui" => Unheld)

OpenClaim(t) ==
  /\ Ready(t, "open")
  /\ IF state = "idle" THEN /\ state' = "opening" /\ lost' = {}
                            /\ Goto(t, "camera")
                       ELSE Goto(t, "end") /\ UNCHANGED <<state, lost>>
  /\ UNCHANGED <<failed, chat, saved, alive, threads, todo, queue, menu, panel,
                 overlay, dialogs, held, user>>

(* CAMERA_FAILED is published before the flag is set and the state is IDLE *)
CameraFails(t) ==
  /\ Ready(t, "camera")
  /\ Say(t, <<Event("failed")>>) /\ Goto(t, "refused")
  /\ UNCHANGED <<gateway, threads, queue, shown, held, user>>

CameraUp(t) ==
  /\ Ready(t, "camera")
  /\ failed' = FALSE
  /\ Say(t, IF chat THEN <<Event("chat_id")>> ELSE <<>>)
  /\ Goto(t, "composed")
  /\ UNCHANGED <<state, chat, saved, alive, threads, queue, shown, held, user>>

(* The detector, the notifier or the pipeline fails: nothing is published. *)
OpenBreaks(t) ==
  /\ Ready(t, "camera") \/ Ready(t, "composed")
  /\ failed' = FALSE /\ Goto(t, "broken")
  /\ UNCHANGED <<state, chat, saved, alive, threads, todo, queue, shown, held,
                 user>>

GivesUp(t) ==
  /\ Ready(t, "refused") \/ Ready(t, "broken")
  /\ failed' = (pc[t] = "refused")
  /\ state' = IF state \in {"opening", "camera_on"} THEN "idle" ELSE state
  /\ Goto(t, IF t = "ui" THEN "ready" ELSE "over")
  /\ UNCHANGED <<chat, saved, alive, threads, todo, queue, panel, dialogs, held,
                 user>>

(* Mutation: the window leaves its overlay when the gateway raises. *)
KeepOverlay(t) ==
  /\ GivesUp(t)
  /\ IF t = "ui" THEN menu' = state' /\ UNCHANGED <<overlay, lost>>
                 ELSE lost' = {"open"} /\ UNCHANGED <<overlay, menu>>

(* Everything is released, the state is IDLE, unless the camera was on     *)
(* already and somebody has moved it, and open_camera raises.  The window  *)
(* catches it; the background thread logs it.                              *)
OpenGivesUp(t) ==
  /\ GivesUp(t)
  /\ IF t = "ui" THEN HideOverlay /\ menu' = state'
                 ELSE lost' = {"open"} /\ UNCHANGED <<overlay, menu>>

OpenReady(t) ==
  /\ Ready(t, "composed") /\ state = "opening"
  /\ state' = "camera_on" /\ alive' = TRUE
  /\ Say(t, OpenEvents) /\ Goto(t, "restore")
  /\ UNCHANGED <<failed, chat, saved, threads, queue, shown, held, user>>

(* start_detection and stop_detection, where they find the other state *)
Toggles(t, on) ==
  IF state = IF on THEN "camera_on" ELSE "detecting"
  THEN /\ state' = (IF on THEN "detecting" ELSE "camera_on")
       /\ Say(t, DetectEvents)
  ELSE UNCHANGED <<state, todo>>

(* _restore_runtime_state *)
Restore(t) ==
  /\ Ready(t, "restore") /\ saved # "broken" /\ Goto(t, "end")
  /\ IF saved = "absent" THEN UNCHANGED <<state, todo>>
                         ELSE Toggles(t, saved = "running")
  /\ UNCHANGED <<failed, chat, saved, alive, threads, queue, shown, held,
                 user>>

(* The file holds something else than text, and everything is released.   *)
RestoreBreaks(t) ==
  /\ Ready(t, "restore") /\ saved = "broken" /\ Goto(t, "broken")
  /\ alive' = FALSE
  /\ UNCHANGED <<state, failed, chat, saved, threads, todo, queue, shown, held,
                 user>>

(* The window updates its actions; initialize goes on to start_detection.  *)
OpenEnds(t) ==
  /\ Ready(t, "end")
  /\ IF t = "ui" THEN /\ UpdateActions /\ Goto(t, "ready")
                      /\ UNCHANGED <<state, todo>>
                 ELSE Toggles(t, TRUE) /\ Goto(t, "over") /\ UNCHANGED menu
  /\ UNCHANGED <<failed, chat, saved, alive, threads, queue, panel, overlay,
                 lost, dialogs, held, user>>

-----------------------------------------------------------------------------
(* close_camera and its background thread, and the fatal error of a        *)
(* pipeline: the bus calls the window before the gateway, whose handler    *)
(* publishes the same event again before it closes.                        *)

Free == {c \in Closers : closer[c] = "none"}

CloseCamera ==
  IF IsOpen THEN /\ state' = "closing"
                 /\ saved' = (IF state = "detecting" THEN "running" ELSE "stopped")
                 /\ Free # {}
                 /\ closer' = [closer EXCEPT ![CHOOSE c \in Free : TRUE] = "teardown"]
            ELSE UNCHANGED <<state, closer, saved>>

Teardown(c) ==
  /\ closer[c] = "teardown"
  /\ state' = "idle" /\ alive' = FALSE
  /\ Say(c, CloseEvents)
  /\ closer' = [closer EXCEPT ![c] = "publishing"]
  /\ UNCHANGED <<failed, chat, saved, drain, pc, queue, shown, held, user>>

CloserEnds(c) ==
  /\ closer[c] = "publishing" /\ Silent(c)
  /\ closer' = [closer EXCEPT ![c] = "none"]
  /\ UNCHANGED <<gateway, drain, pc, todo, queue, shown, held, user>>

ReadFails ==
  /\ drain = "ready" /\ alive /\ IsOpen
  /\ drain' = "fatal" /\ alive' = FALSE
  /\ Say("drain", [i \in 1 .. Echoes |-> Event("read_failed")])
  /\ UNCHANGED <<state, failed, chat, saved, closer, pc, queue, shown, held,
                 user>>

FatalCloses ==
  /\ drain = "fatal" /\ Silent("drain")
  /\ CloseCamera /\ drain' = "ready"
  /\ UNCHANGED <<failed, chat, alive, pc, todo, queue, shown, held, user>>

(* /init in the chat: the configuration gets a chat_id, the window an event *)
ChatInit ==
  /\ ~chat /\ IsOpen /\ clicks < MaxClicks
  /\ chat' = TRUE /\ clicks' = clicks + 1
  /\ queue' = Append(queue, Event("chat_id"))
  /\ UNCHANGED <<state, failed, saved, alive, threads, pc, todo, shown, held,
                 hidden>>

-----------------------------------------------------------------------------
(* What the user does.  The tray offers everything until the first update. *)

Click == /\ pc["ui"] = "ready" /\ queue = <<>> /\ dialogs = <<>>
         /\ pc["init"] # "open" /\ clicks < MaxClicks
         /\ clicks' = clicks + 1 /\ held' = 0

Offered(states) == menu \in states \cup {"built"}

ShowLoading == ShowOverlay /\ UpdateActions

ClickOpen ==
  /\ Click /\ Offered({"idle"})
  /\ IF Busy \/ IsOpen THEN UNCHANGED <<pc, menu, overlay, lost>>
                       ELSE ShowLoading /\ Goto("ui", "open")
  /\ UNCHANGED <<gateway, threads, todo, queue, panel, dialogs, hidden>>

ClickClose ==
  /\ Click /\ Offered(OpenStates)
  /\ UpdateActions
  /\ IF IsOpen THEN ShowOverlay /\ Goto("ui", "close")
               ELSE UNCHANGED <<overlay, lost, pc>>
  /\ UNCHANGED <<gateway, threads, todo, queue, panel, dialogs, hidden>>

CallClose ==
  /\ Ready("ui", "close")
  /\ CloseCamera /\ Goto("ui", "ready")
  /\ UNCHANGED <<failed, chat, alive, drain, todo, queue, shown, held, user>>

(* Switching devices: close, wait at most five seconds, open.  The wait    *)
(* ends when the close does or when its time is up.                        *)
ClickDevice ==
  /\ Click /\ ~Busy
  /\ IF IsOpen THEN /\ CloseCamera /\ Goto("ui", "wait")
                    /\ UNCHANGED <<menu, overlay, lost>>
               ELSE /\ ShowLoading /\ Goto("ui", "open")
                    /\ UNCHANGED <<state, closer, saved>>
  /\ UNCHANGED <<failed, chat, alive, drain, todo, queue, panel, dialogs, hidden>>

WaitEnds ==
  /\ Ready("ui", "wait")
  /\ ShowLoading /\ Goto("ui", "open")
  /\ UNCHANGED <<gateway, threads, todo, queue, panel, dialogs, held, user>>

ClickDetection(on) ==
  /\ Click /\ Offered({IF on THEN "camera_on" ELSE "detecting"})
  /\ Toggles("ui", on)
  /\ IF on /\ ~IsOpen THEN UNCHANGED pc ELSE Goto("ui", "end")
  /\ UNCHANGED <<failed, chat, saved, alive, threads, queue, shown, hidden>>

(* Closing or minimising the window puts it into the tray, which offers    *)
(* the same commands and shows it again.                                   *)
HideWindow ==
  /\ Click /\ ~hidden /\ hidden' = TRUE
  /\ UNCHANGED <<gateway, threads, pc, todo, queue, shown>>

ShowWindow ==
  /\ LoopTurns /\ hidden /\ hidden' = FALSE
  /\ UNCHANGED <<gateway, threads, pc, todo, queue, shown, held, clicks>>

(* The innermost dialog is answered.  To reopen is _on_open_camera, which  *)
(* does nothing while the gateway is still busy closing.                   *)
Answerable == dialogs # <<>> /\ LoopTurns

Acknowledge ==
  /\ Answerable
  /\ dialogs' = Front(dialogs)
  /\ IF Last(dialogs) = "failed" THEN UpdateActions ELSE UNCHANGED menu
  /\ UNCHANGED <<gateway, threads, pc, todo, queue, panel, overlay, lost, held, user>>

Reopen ==
  /\ Answerable /\ Last(dialogs) = "ask" /\ clicks < MaxClicks
  /\ clicks' = clicks + 1 /\ dialogs' = Front(dialogs)
  /\ IF Busy \/ IsOpen
     THEN UNCHANGED <<pc, held, menu, overlay, lost>>
     ELSE ShowLoading /\ Goto("ui", "open") /\ held' = Len(dialogs) - 1
  /\ UNCHANGED <<gateway, threads, todo, queue, panel, hidden>>

-----------------------------------------------------------------------------
OpenStep(t) ==
  \/ OpenClaim(t) \/ CameraFails(t) \/ CameraUp(t) \/ OpenBreaks(t)
  \/ OpenGivesUp(t) \/ OpenReady(t) \/ Restore(t) \/ RestoreBreaks(t)
  \/ OpenEnds(t)

UiStep == PublishDirect \/ HandleEvent \/ OpenStep("ui") \/ CallClose \/ WaitEnds

CloserStep(c) == Teardown(c) \/ CloserEnds(c)

User == \/ ClickOpen \/ ClickClose \/ ClickDevice \/ Acknowledge \/ Reopen
        \/ HideWindow \/ ShowWindow
        \/ \E on \in BOOLEAN : ClickDetection(on)

Next == \/ UiStep \/ OpenStep("init") \/ User \/ ChatInit \/ ReadFails \/ FatalCloses
        \/ \E p \in Publishers : PublishQueued(p)
        \/ \E c \in Closers : CloserStep(c)

Spec == Init /\ [][Next]_vars

(* Every thread is scheduled and the event loop turns; nobody has to       *)
(* click, answer a dialog or write to the chat, and no read has to fail.   *)
Fairness == /\ WF_vars(UiStep) /\ WF_vars(OpenStep("init")) /\ WF_vars(FatalCloses)
            /\ \A p \in Publishers : WF_vars(PublishQueued(p))
            /\ \A c \in Closers : WF_vars(CloserStep(c))

FairSpec == Spec /\ Fairness

-----------------------------------------------------------------------------
(* Nothing is under way: no call, no event on its way, no dialog.          *)
Quiet == /\ pc["ui"] = "ready" /\ pc["init"] = "over" /\ drain = "ready"
         /\ \A c \in Closers : closer[c] = "none"
         /\ \A p \in Publishers : Silent(p)
         /\ queue = <<>> /\ dialogs = <<>>

(* Once everything has settled the camera and detection actions are those  *)
(* of the state the gateway is in, whichever threads moved it and in       *)
(* whatever order their events came; only an open that failed in the       *)
(* background, which tells the window too early or not at all, can leave   *)
(* them behind (_update_action_states and the slots that call it).         *)
MenuInStep == Quiet /\ "open" \notin lost => menu = state

(* An overlay that covers the preview goes away again, is the prompt for   *)
(* /init, or has given way to an error dialog; nothing takes it away after *)
(* an open that failed in the background, or after an attempt to take it   *)
(* away while the window was in the tray (_on_camera_opened,               *)
(* _on_camera_closed, and the handlers of the errors in _on_open_camera    *)
(* and _on_select_camera).                                                 *)
OverlayEnds == overlay ~> ~overlay \/ ~chat \/ dialogs # <<>> \/ lost # {}

(* "so the status panel and menu checkboxes always reflect the backend in  *)
(* real time" (main_window.py 351-352): once everything has settled, a     *)
(* camera that is on is shown as running.                                  *)
PanelInStep == Quiet /\ IsOpen => panel = "running"
=============================================================================
