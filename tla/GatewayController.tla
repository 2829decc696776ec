------------------------- MODULE GatewayController -------------------------
(***************************************************************************)
(* The camera and detection lifecycle of GatewayController                 *)
(* (gateway/controller.py), with its callers as threads.                   *)
(*                                                                         *)
(* Every public method is a path through control points pc[t]; one step is *)
(* one critical section of _state_lock, one shared assignment, or one call *)
(* into a component.  Closing runs on a background worker, as in the code. *)
(* Each successful claim of OPENING makes a session: the adapters, the     *)
(* pipeline and the services that this open_camera creates.  The attributes*)
(* self._camera, self._pipeline and self._snapshot_service are the         *)
(* variables camera, pipeline and services, which hold a session or None.  *)
(***************************************************************************)
EXTENDS Integers, FiniteSets

CONSTANTS
  Threads,   \* the threads that call the controller
  Calls,     \* Calls[t]: the methods thread t may call
  Workers,   \* identities for close threads, reused once a thread has ended
  Devices,   \* camera indexes
  MaxOpens,  \* bound: how many times OPENING is claimed
  Failures   \* which fallible steps may fail: "camera", "component", "save"
             \* (the state file cannot be written), "load" (it is no UTF-8)

NoDevice == "no_device"   \* open_camera(None)
None     == 0             \* an attribute that is None

CallNames == {"open", "initialize", "close", "start", "stop_detection",
              "record", "stop_recording", "wait", "select", "stop", "fatal"}

ASSUME ThreadsAssumption  == /\ Calls \in [Threads -> SUBSET CallNames]
                             /\ Threads \cap Workers = {}
ASSUME BoundsAssumption   == MaxOpens \in Nat
ASSUME DevicesAssumption  == Devices # {} /\ NoDevice \notin Devices
ASSUME FailuresAssumption == 
  Failures \subseteq {"camera", "component", "save", "load"}

Sessions  == 1 .. MaxOpens
SessionOrNone == Sessions \cup {None}
NoWorker  == "no_worker"

VARIABLES
  state,        \* self._state
  device,       \* self._config.camera.device_index
  cameraFailed, \* self._camera_failed
  camera,       \* self._camera and the other adapters
  pipeline,     \* self._pipeline
  services,     \* self._snapshot_service and self._notification_service
  opens,        \* sessions made so far
  camOpen,      \* camOpen[s]: the camera adapter of s holds its device
  running,      \* running[s]: Pipeline._running
  paused,       \* paused[s]: Pipeline._paused
  snapOn,       \* snapOn[s]: SnapshotService enabled
  notifOn,      \* notifOn[s]: NotificationService enabled
  rec,          \* rec[s]: "off", "on", or "stuck" inside stop_recording
  saved,        \* the runtime state file: None or what was captured
  closeThread,  \* self._close_thread
  worker,       \* worker[w]: control point of a close thread
  closeDone,    \* self._close_done
  pc, ret,      \* control point of a thread, and where its call returns to
  call, arg,    \* the method it is in, and the device it asked for
  sid,          \* the session its open_camera is making
  loaded        \* the notifier flag that _restore_runtime_state has read

refs     == <<camera, pipeline, services>>
objects  == <<camOpen, running, paused, snapOn, notifOn, rec>>
closing  == <<closeThread, worker, closeDone>>
locals   == <<call, arg, sid, loaded>>
control  == <<pc, ret>>
gateway  == <<state, device, cameraFailed, opens, saved>>
vars     == <<gateway, refs, objects, closing, control, locals>>

-----------------------------------------------------------------------------
(* GatewayState and _ALLOWED_TRANSITIONS *)

States == {"idle", "opening", "closing", "camera_on", "detecting"}
Transient == {"opening", "closing"}
OpenStates == {"camera_on", "detecting"}

AllowedTransitions ==
  {<<"idle", "opening">>, <<"opening", "camera_on">>, <<"opening", "idle">>,
   <<"camera_on", "detecting">>, <<"camera_on", "closing">>,
   <<"detecting", "camera_on">>, <<"detecting", "closing">>,
   <<"closing", "idle">>}

(* Mutation: _set_state that refuses only a transition to the same state. *)
LooseCanSet(new) == state # new

(* _set_state succeeds exactly when the transition is allowed *)
CanSet(new) == <<state, new>> \in AllowedTransitions

NoSave == [has |-> FALSE, detecting |-> FALSE, notifying |-> TRUE]
Saves == [has : BOOLEAN, detecting : BOOLEAN, notifying : BOOLEAN]

OpenPoints == {"open_check", "open_claim", "open_create", "open_init",
               "open_compose", "open_start", "open_ready", "open_restore",
               "restore_notifier", "abort_pipeline", "abort_adapters",
               "abort_recorder", "abort_idle", "except_pipeline",
               "except_adapters", "except_recorder", "except_reset",
               "init_check", "switch_reopen"}
(* ... of which these are the handler around all of open_camera *)
Excepting == {"except_pipeline", "except_adapters", "except_recorder",
              "except_reset"}
OtherPoints == {"ready", "close_lock", "close_clear", "close_spawn",
                "detect_claim", "detect_resume", "detect_snapshot",
                "pause_claim", "pause_pipeline", "pause_snapshot",
                "record_check", "record_start", "record_stop", "stuck",
                "wait_check", "wait_event", "select_check", "select_wait",
                "stop_check", "stop_wait", "stop_end", "fatal_check"}
Points == OpenPoints \cup OtherPoints
WorkerPoints == {"none", "recorder", "pipeline", "release_pipeline",
                 "release_adapters", "release_recorder", "set_idle", "set_done"}
Returns == {"ready", "switch_reopen", "select_wait", "open_check", "stop_wait",
            "stop_end", "restore_notifier", "fatal_check"}

Goto(t, point) == pc' = [pc EXCEPT ![t] = point]
Return(t) == Goto(t, ret[t])

Init ==
  /\ state = "idle" /\ device \in Devices /\ cameraFailed = FALSE
  /\ opens = 0 /\ saved = NoSave
  /\ camera = None /\ pipeline = None /\ services = None
  /\ camOpen = [s \in Sessions |-> FALSE] /\ running = [s \in Sessions |-> FALSE]
  /\ paused = [s \in Sessions |-> FALSE] /\ snapOn = [s \in Sessions |-> FALSE]
  /\ notifOn = [s \in Sessions |-> TRUE] /\ rec = [s \in Sessions |-> "off"]
  /\ closeThread = NoWorker /\ closeDone = FALSE
  /\ worker = [w \in Workers |-> "none"]
  /\ pc = [t \in Threads |-> "ready"] /\ ret = [t \in Threads |-> "ready"]
  /\ call = [t \in Threads |-> "close"] /\ arg = [t \in Threads |-> NoDevice]
  /\ sid = [t \in Threads |-> None] /\ loaded = [t \in Threads |-> TRUE]

-----------------------------------------------------------------------------
(* Calling a method *)

Entry == [open |-> "open_check", initialize |-> "open_check",
          close |-> "close_lock", start |-> "detect_claim",
          stop_detection |-> "pause_claim", record |-> "record_check",
          stop_recording |-> "record_stop", wait |-> "wait_check",
          select |-> "select_check", stop |-> "stop_check",
          fatal |-> "fatal_check"]

Opening == {"open", "initialize", "select"}

(* Threads that may still claim OPENING; the bound is on claims. *)
Claimants == {t \in Threads : /\ call[t] \in Opening
                              /\ \/ pc[t] \in {"open_check", "open_claim",
                                               "switch_reopen", "select_check"}
                                 \/ ret[t] \in {"switch_reopen", "select_wait",
                                                "open_check"}}
Budget == opens + Cardinality(Claimants) < MaxOpens

(* The drain thread of a pipeline reports a fatal read error. *)
MayCall(t, c) == /\ c \in Calls[t]
                 /\ c \in Opening => Budget
                 /\ c = "fatal" => \E s \in Sessions : running[s]

Call(t, c, d) ==
  /\ pc[t] = "ready" /\ MayCall(t, c)
  /\ c \notin {"open", "select"} => d = NoDevice
  /\ c = "select" => d # NoDevice
  /\ Goto(t, Entry[c]) /\ ret' = [ret EXCEPT ![t] = "ready"]
  /\ call' = [call EXCEPT ![t] = c] /\ arg' = [arg EXCEPT ![t] = d]
  /\ UNCHANGED <<gateway, refs, objects, closing, sid, loaded>>

(* open_camera returned: initialize goes on to start_detection *)
OpenReturn(t) == IF call[t] = "initialize" THEN "init_check" ELSE "ready"

-----------------------------------------------------------------------------
(* open_camera *)

(* The check under the lock; "current" is judged again only by _set_state. *)
OpenCheck(t) ==
  /\ pc[t] = "open_check"
  /\ LET switch == /\ state \in OpenStates
                   /\ arg[t] \notin {NoDevice, device}
     IN /\ device' = IF switch THEN arg[t] ELSE device
        /\ Goto(t, IF state = "idle" THEN "open_claim"
                   ELSE IF switch THEN "close_lock" ELSE OpenReturn(t))
        /\ ret' = [ret EXCEPT ![t] = IF switch THEN "switch_reopen" ELSE "ready"]
  /\ UNCHANGED <<state, cameraFailed, opens, saved, refs, objects, closing,
                 locals>>

(* close_camera() has returned: open_camera() again, with no device *)
SwitchReopen(t) ==
  /\ pc[t] = "switch_reopen"
  /\ Goto(t, "open_check") /\ ret' = [ret EXCEPT ![t] = "ready"]
  /\ arg' = [arg EXCEPT ![t] = NoDevice]
  /\ UNCHANGED <<gateway, refs, objects, closing, call, sid, loaded>>

OpenClaim(t) ==
  /\ pc[t] = "open_claim"
  /\ IF CanSet("opening")
     THEN /\ opens < MaxOpens    \* the bound; Budget keeps it from blocking
          /\ state' = "opening" /\ opens' = opens + 1
          /\ sid' = [sid EXCEPT ![t] = opens + 1]
          /\ device' = IF arg[t] = NoDevice THEN device ELSE arg[t]
          /\ Goto(t, "open_create")
     ELSE /\ Goto(t, OpenReturn(t))
          /\ UNCHANGED <<state, opens, sid, device>>
  /\ UNCHANGED <<cameraFailed, saved, refs, objects, closing, ret, call, arg,
                 loaded>>

CreateAdapters(t) ==
  /\ pc[t] = "open_create"
  /\ camera' = sid[t]
  /\ Goto(t, "open_init")
  /\ UNCHANGED <<gateway, pipeline, services, objects, closing, ret, locals>>

InitCamera(t) ==
  /\ pc[t] = "open_init"
  /\ \/ /\ camera # None
        /\ camOpen' = [camOpen EXCEPT ![camera] = TRUE]
        /\ cameraFailed' = FALSE /\ Goto(t, "open_compose")
     \/ /\ camera # None /\ "camera" \in Failures
        /\ cameraFailed' = TRUE /\ Goto(t, "abort_pipeline")
        /\ UNCHANGED camOpen
     \/ /\ camera = None     \* AttributeError: another thread released it
        /\ Goto(t, "except_pipeline") /\ UNCHANGED <<camOpen, cameraFailed>>
  /\ UNCHANGED <<state, device, opens, saved, refs, running, paused, snapOn,
                 notifOn, rec, closing, ret, locals>>

(* detector, notifier and recorder initialised; pipeline and services built *)
ComposeServices(t) ==
  /\ pc[t] = "open_compose"
  /\ \/ /\ camera # None
        /\ pipeline' = sid[t] /\ services' = sid[t]
        /\ Goto(t, "open_start")
     \/ /\ camera = None \/ "component" \in Failures
        /\ Goto(t, "except_pipeline") /\ UNCHANGED <<pipeline, services>>
  /\ UNCHANGED <<gateway, camera, objects, closing, ret, locals>>

(* Pipeline.start sets _running before it makes sockets, which may fail. *)
StartPipeline(t) ==
  /\ pc[t] = "open_start"
  /\ IF pipeline = None
     THEN Goto(t, "except_pipeline") /\ UNCHANGED <<running, paused>>
     ELSE /\ running' = [running EXCEPT ![pipeline] = TRUE]
          /\ paused' = [paused EXCEPT ![pipeline] = @ /\ running[pipeline]]
          /\ \/ Goto(t, "open_ready")
             \/ "component" \in Failures /\ Goto(t, "except_pipeline")
  /\ UNCHANGED <<gateway, refs, camOpen, snapOn, notifOn, rec, closing, ret,
                 locals>>

OpenReady(t) ==
  /\ pc[t] = "open_ready"
  /\ IF CanSet("camera_on")
     THEN state' = "camera_on" /\ Goto(t, "open_restore")
     ELSE Goto(t, "abort_pipeline") /\ UNCHANGED state
  /\ UNCHANGED <<device, cameraFailed, opens, saved, refs, objects, closing,
                 ret, locals>>

(* _restore_runtime_state: first the detector, then the notifier.  Of what *)
(* can be wrong with the file, load_state does not catch the               *)
(* UnicodeDecodeError: it reaches the handler around all of open_camera,   *)
(* which releases everything although the state is CAMERA_ON.              *)
RestoreDetector(t) ==
  /\ pc[t] = "open_restore"
  /\ \/ ~saved.has /\ Goto(t, OpenReturn(t)) /\ UNCHANGED <<ret, loaded>>
     \/ /\ saved.has
        /\ Goto(t, IF saved.detecting /\ state = "camera_on" THEN "detect_claim"
                   ELSE IF ~saved.detecting /\ state = "detecting"
                        THEN "pause_claim" ELSE "restore_notifier")
        /\ ret' = [ret EXCEPT ![t] = "restore_notifier"]
        /\ loaded' = [loaded EXCEPT ![t] = saved.notifying]
     \/ /\ "load" \in Failures /\ Goto(t, "except_pipeline")
        /\ UNCHANGED <<ret, loaded>>
  /\ UNCHANGED <<gateway, refs, objects, closing, call, arg, sid>>

RestoreNotifier(t) ==
  /\ pc[t] = "restore_notifier"
  /\ notifOn' = IF services = None THEN notifOn
                ELSE [notifOn EXCEPT ![services] = loaded[t]]
  /\ Goto(t, OpenReturn(t)) /\ ret' = [ret EXCEPT ![t] = "ready"]
  /\ UNCHANGED <<gateway, refs, camOpen, running, paused, snapOn, rec, closing,
                 locals>>

(* initialize: start_detection if the camera came up *)
InitializeCheck(t) ==
  /\ pc[t] = "init_check"
  /\ Goto(t, IF state \in OpenStates THEN "detect_claim" ELSE "ready")
  /\ ret' = [ret EXCEPT ![t] = "ready"]
  /\ UNCHANGED <<gateway, refs, objects, closing, locals>>

-----------------------------------------------------------------------------
(* _release_adapters: the pipeline, then the adapters and the services.    *)
(* Releasing a recorder calls stop_recording, which never returns while a  *)
(* recording is on: it reads self.duration with self._lock held.           *)

RecorderReturns(s) == s # None => rec[s] = "off"

ReleasePipeline ==
  /\ running' = IF pipeline = None THEN running
                ELSE [running EXCEPT ![pipeline] = FALSE]
  /\ pipeline' = None

(* Mutation: the camera adapter is forgotten without being released. *)
ForgetCamera == UNCHANGED camOpen

ReleaseCamera ==
  camOpen' = IF camera = None THEN camOpen
             ELSE [camOpen EXCEPT ![camera] = FALSE]

(* The recorder is released last, and then every reference is dropped. *)
ReleaseRecorder == RecorderReturns(camera) /\ camera' = None /\ services' = None

AbortPipeline(t) ==
  /\ \/ pc[t] = "abort_pipeline" /\ Goto(t, "abort_adapters")
     \/ pc[t] = "except_pipeline" /\ Goto(t, "except_adapters")
  /\ ReleasePipeline
  /\ UNCHANGED <<gateway, camera, services, camOpen, paused, snapOn, notifOn,
                 rec, closing, ret, locals>>

AbortAdapters(t) ==
  /\ \/ pc[t] = "abort_adapters" /\ Goto(t, "abort_recorder")
     \/ pc[t] = "except_adapters" /\ Goto(t, "except_recorder")
  /\ ReleaseCamera
  /\ UNCHANGED <<gateway, refs, running, paused, snapOn, notifOn, rec, closing,
                 ret, locals>>

AbortRecorder(t) ==
  /\ \/ pc[t] = "abort_recorder" /\ Goto(t, "abort_idle")
     \/ pc[t] = "except_recorder" /\ Goto(t, "except_reset")
  /\ ReleaseRecorder
  /\ UNCHANGED <<gateway, pipeline, objects, closing, ret, locals>>

(* _set_state(IDLE) on the CameraError and rollback paths, then raise into *)
(* the outer handler, which releases again and resets the state itself.    *)
AbortIdle(t) ==
  /\ pc[t] = "abort_idle"
  /\ state' = IF CanSet("idle") THEN "idle" ELSE state
  /\ Goto(t, "except_pipeline")
  /\ UNCHANGED <<device, cameraFailed, opens, saved, refs, objects, closing,
                 ret, locals>>

(* Mutation: the outer handler re-raises without resetting the state. *)
ExceptRaise(t) == /\ pc[t] = "except_reset" /\ Goto(t, "ready")
                  /\ UNCHANGED <<gateway, refs, objects, closing, ret, locals>>

ExceptReset(t) ==
  /\ pc[t] = "except_reset"
  /\ state' = IF state \in {"opening", "camera_on"} THEN "idle" ELSE state
  /\ Goto(t, "ready")
  /\ UNCHANGED <<device, cameraFailed, opens, saved, refs, objects, closing,
                 ret, locals>>

-----------------------------------------------------------------------------
(* close_camera: _close_thread_lock is held from CloseEnter to CloseSpawn *)

CloseLockFree == \A t \in Threads : pc[t] \notin {"close_clear", "close_spawn"}

CloseThreadAlive == closeThread # NoWorker /\ worker[closeThread] # "none"

(* Mutation: the detector flag is left out of the file. *)
HalfCaptured == [has |-> TRUE, notifying |-> TRUE]

Captured == [has |-> TRUE, detecting |-> state = "detecting",
             notifying |-> IF services = None THEN TRUE ELSE notifOn[services]]

(* The runtime state is captured and written before _set_state is tried. *)
CloseEnter(t) ==
  /\ pc[t] = "close_lock" /\ CloseLockFree
  /\ IF state = "idle" \/ (state = "closing" /\ CloseThreadAlive)
     THEN Return(t) /\ UNCHANGED <<state, saved>>
     ELSE /\ \/ saved' = Captured
             \/ "save" \in Failures /\ UNCHANGED saved
          /\ IF CanSet("closing")
             THEN state' = "closing" /\ Goto(t, "close_clear")
             ELSE Return(t) /\ UNCHANGED state
  /\ UNCHANGED <<device, cameraFailed, opens, refs, objects, closing, ret,
                 locals>>

CloseClear(t) ==
  /\ pc[t] = "close_clear"
  /\ closeDone' = FALSE
  /\ Goto(t, "close_spawn")
  /\ UNCHANGED <<gateway, refs, objects, closeThread, worker, ret, locals>>

(* Mutation: no new thread while the previous one has not ended. *)
SpawnUnlessAlive(t) ==
  /\ pc[t] = "close_spawn" /\ Return(t)
  /\ IF CloseThreadAlive THEN UNCHANGED <<worker, closeThread>>
     ELSE \E w \in Workers : /\ worker' = [worker EXCEPT ![w] = "recorder"]
                             /\ closeThread' = w
  /\ UNCHANGED <<gateway, refs, objects, closeDone, ret, locals>>

CloseSpawn(t) ==
  /\ pc[t] = "close_spawn"
  /\ \E w \in Workers : /\ worker[w] = "none"
                        /\ worker' = [worker EXCEPT ![w] = "recorder"]
                        /\ closeThread' = w
  /\ Return(t)
  /\ UNCHANGED <<gateway, refs, objects, closeDone, ret, locals>>

-----------------------------------------------------------------------------
(* _close_camera_worker *)

WorkerGoto(w, from, to) ==
  worker[w] = from /\ worker' = [worker EXCEPT ![w] = to]

(* A recording that is on is stopped here, and the worker stays here. *)
WorkerRecorder(w) ==
  /\ worker[w] = "recorder"
  /\ \/ /\ RecorderReturns(camera)
        /\ WorkerGoto(w, "recorder", "pipeline") /\ UNCHANGED rec
     \/ /\ camera # None /\ rec[camera] = "on"
        /\ rec' = [rec EXCEPT ![camera] = "stuck"] /\ UNCHANGED worker
  /\ UNCHANGED <<gateway, refs, camOpen, running, paused, snapOn, notifOn,
                 closeThread, closeDone, control, locals>>

WorkerPipeline(w) ==
  /\ WorkerGoto(w, "pipeline", "release_pipeline")
  /\ running' = IF pipeline = None THEN running
                ELSE [running EXCEPT ![pipeline] = FALSE]
  /\ UNCHANGED <<gateway, refs, camOpen, paused, snapOn, notifOn, rec,
                 closeThread, closeDone, control, locals>>

WorkerReleasePipeline(w) ==
  /\ WorkerGoto(w, "release_pipeline", "release_adapters")
  /\ ReleasePipeline
  /\ UNCHANGED <<gateway, camera, services, camOpen, paused, snapOn, notifOn,
                 rec, closeThread, closeDone, control, locals>>

WorkerReleaseAdapters(w) ==
  /\ WorkerGoto(w, "release_adapters", "release_recorder")
  /\ ReleaseCamera
  /\ UNCHANGED <<gateway, refs, running, paused, snapOn, notifOn, rec,
                 closeThread, closeDone, control, locals>>

WorkerReleaseRecorder(w) ==
  /\ WorkerGoto(w, "release_recorder", "set_idle")
  /\ ReleaseRecorder
  /\ UNCHANGED <<gateway, pipeline, objects, closeThread, closeDone, control,
                 locals>>

(* self._state = IDLE, without _set_state *)
WorkerSetIdle(w) ==
  /\ WorkerGoto(w, "set_idle", "set_done")
  /\ state' = "idle"
  /\ UNCHANGED <<device, cameraFailed, opens, saved, refs, objects,
                 closeThread, closeDone, control, locals>>

WorkerSetDone(w) ==
  /\ WorkerGoto(w, "set_done", "none")
  /\ closeDone' = TRUE
  /\ UNCHANGED <<gateway, refs, objects, closeThread, control, locals>>

-----------------------------------------------------------------------------
(* wait_closed, and the callers that close and wait *)

WaitCheck(t) ==
  /\ pc[t] = "wait_check"
  /\ IF state \in Transient THEN Goto(t, "wait_event") ELSE Return(t)
  /\ UNCHANGED <<gateway, refs, objects, closing, ret, locals>>

WaitTrue(t) ==
  /\ pc[t] = "wait_event" /\ closeDone
  /\ Return(t)
  /\ UNCHANGED <<gateway, refs, objects, closing, ret, locals>>

(* Mutation: the event is waited for without a timeout. *)
WaitForever(t) == pc[t] = "wait_event" /\ closeDone /\ UNCHANGED vars

WaitTimeout(t) ==
  /\ pc[t] = "wait_event" /\ ~closeDone
  /\ Return(t)
  /\ UNCHANGED <<gateway, refs, objects, closing, ret, locals>>

(* MainWindow._on_select_camera: close, wait, open the other device *)
SelectCheck(t) ==
  /\ pc[t] = "select_check"
  /\ Goto(t, IF state \in Transient THEN "ready"
             ELSE IF state = "idle" THEN "open_check" ELSE "close_lock")
  /\ ret' = [ret EXCEPT ![t] = IF state \in OpenStates THEN "select_wait" ELSE "ready"]
  /\ UNCHANGED <<gateway, refs, objects, closing, locals>>

SelectWait(t) ==
  /\ pc[t] = "select_wait"
  /\ Goto(t, "wait_check") /\ ret' = [ret EXCEPT ![t] = "open_check"]
  /\ UNCHANGED <<gateway, refs, objects, closing, locals>>

StopCheck(t) ==
  /\ pc[t] = "stop_check"
  /\ IF state = "idle" THEN Goto(t, "stop_end") /\ UNCHANGED ret
     ELSE Goto(t, "close_lock") /\ ret' = [ret EXCEPT ![t] = "stop_wait"]
  /\ UNCHANGED <<gateway, refs, objects, closing, locals>>

StopWait(t) ==
  /\ pc[t] = "stop_wait"
  /\ Goto(t, "wait_check") /\ ret' = [ret EXCEPT ![t] = "stop_end"]
  /\ UNCHANGED <<gateway, refs, objects, closing, locals>>

(* stop() returns, its WebSocket client and worker pool being down *)
StopReturn(t) ==
  /\ pc[t] = "stop_end"
  /\ Goto(t, "ready")
  /\ UNCHANGED <<gateway, refs, objects, closing, ret, locals>>

(* _on_pipeline_fatal_error, on the drain thread of the pipeline.  It first*)
(* publishes the event it handles, and so calls itself until the stack is  *)
(* full; each of those levels then tests the state, one after another.     *)
FatalCheck(t) ==
  /\ pc[t] = "fatal_check"
  /\ \/ /\ state \in OpenStates /\ Goto(t, "close_lock")
        /\ ret' = [ret EXCEPT ![t] = "fatal_check"]
     \/ /\ state \notin OpenStates /\ Goto(t, "ready")
        /\ ret' = [ret EXCEPT ![t] = "ready"]
  /\ UNCHANGED <<gateway, refs, objects, closing, locals>>

-----------------------------------------------------------------------------
(* start_detection and stop_detection: the state under the lock, then the  *)
(* pipeline, then the snapshot service, each after the lock is released.   *)

DetectClaim(t) ==
  /\ pc[t] = "detect_claim"
  /\ IF CanSet("detecting") THEN state' = "detecting" /\ Goto(t, "detect_resume")
     ELSE Return(t) /\ UNCHANGED state
  /\ UNCHANGED <<device, cameraFailed, opens, saved, refs, objects, closing,
                 ret, locals>>

PauseClaim(t) ==
  /\ pc[t] = "pause_claim"
  /\ IF state = "detecting" THEN state' = "camera_on" /\ Goto(t, "pause_pipeline")
     ELSE Return(t) /\ UNCHANGED state
  /\ UNCHANGED <<device, cameraFailed, opens, saved, refs, objects, closing,
                 ret, locals>>

TogglePipeline(t, from, to, value) ==
  /\ pc[t] = from /\ Goto(t, to)
  /\ paused' = IF pipeline = None THEN paused
               ELSE [paused EXCEPT ![pipeline] = value]
  /\ UNCHANGED <<gateway, refs, camOpen, running, snapOn, notifOn, rec, closing,
                 ret, locals>>

ToggleSnapshots(t, from, value) ==
  /\ pc[t] = from /\ Return(t)
  /\ snapOn' = IF services = None THEN snapOn
               ELSE [snapOn EXCEPT ![services] = value]
  /\ UNCHANGED <<gateway, refs, camOpen, running, paused, notifOn, rec, closing,
                 ret, locals>>

(* Mutation: stop_detection leaves the snapshot service on. *)
KeepSnapshots(t)  == ToggleSnapshots(t, "pause_snapshot", TRUE)

DetectResume(t)   == TogglePipeline(t, "detect_resume", "detect_snapshot", FALSE)
PausePipeline(t)  == TogglePipeline(t, "pause_pipeline", "pause_snapshot", TRUE)
DetectSnapshot(t) == ToggleSnapshots(t, "detect_snapshot", TRUE)
PauseSnapshot(t)  == ToggleSnapshots(t, "pause_snapshot", FALSE)

-----------------------------------------------------------------------------
(* start_recording checks is_detection_active, then calls the recorder.    *)
(* A recorder that is on takes its caller with it when it is stopped.      *)

RecordCheck(t) ==
  /\ pc[t] = "record_check"
  /\ Goto(t, IF camera # None /\ state = "detecting" THEN "record_start"
             ELSE "ready")
  /\ UNCHANGED <<gateway, refs, objects, closing, ret, locals>>

RecordStart(t) ==
  /\ pc[t] = "record_start"
  /\ camera # None => rec[camera] # "stuck"
  /\ rec' = IF camera = None THEN rec ELSE [rec EXCEPT ![camera] = "on"]
  /\ Goto(t, "ready")
  /\ UNCHANGED <<gateway, refs, camOpen, running, paused, snapOn, notifOn,
                 closing, ret, locals>>

RecordStop(t) ==
  /\ pc[t] = "record_stop"
  /\ IF RecorderReturns(camera) THEN Goto(t, "ready") /\ UNCHANGED rec
     ELSE Goto(t, "stuck") /\ rec' = [rec EXCEPT ![camera] = "stuck"]
  /\ UNCHANGED <<gateway, refs, camOpen, running, paused, snapOn, notifOn,
                 closing, ret, locals>>

-----------------------------------------------------------------------------
OpenStep(t) ==
  \/ OpenCheck(t) \/ SwitchReopen(t) \/ OpenClaim(t) \/ CreateAdapters(t)
  \/ InitCamera(t) \/ ComposeServices(t) \/ StartPipeline(t) \/ OpenReady(t)
  \/ RestoreDetector(t) \/ RestoreNotifier(t) \/ InitializeCheck(t)
  \/ AbortPipeline(t) \/ AbortAdapters(t) \/ AbortRecorder(t)
  \/ AbortIdle(t) \/ ExceptReset(t)

CloseStep(t) == CloseEnter(t) \/ CloseClear(t) \/ CloseSpawn(t)

WaitStep(t) ==
  \/ WaitCheck(t) \/ WaitTrue(t) \/ WaitTimeout(t) \/ SelectCheck(t)
  \/ SelectWait(t) \/ StopCheck(t) \/ StopWait(t) \/ StopReturn(t)
  \/ FatalCheck(t)

DetectStep(t) ==
  \/ DetectClaim(t) \/ PauseClaim(t) \/ DetectResume(t) \/ PausePipeline(t)
  \/ DetectSnapshot(t) \/ PauseSnapshot(t)

RecordStep(t) == RecordCheck(t) \/ RecordStart(t) \/ RecordStop(t)

ThreadStep(t) ==
  OpenStep(t) \/ CloseStep(t) \/ WaitStep(t) \/ DetectStep(t) \/ RecordStep(t)

WorkerStep(w) ==
  \/ WorkerRecorder(w) \/ WorkerPipeline(w) \/ WorkerReleasePipeline(w)
  \/ WorkerReleaseAdapters(w) \/ WorkerReleaseRecorder(w) \/ WorkerSetIdle(w) \/ WorkerSetDone(w)

Next ==
  \/ \E t \in Threads, c \in CallNames, d \in Devices \cup {NoDevice} : Call(t, c, d)
  \/ \E t \in Threads : ThreadStep(t)
  \/ \E w \in Workers : WorkerStep(w)

Spec == Init /\ [][Next]_vars

(* The operating system schedules every thread that can run; nobody has to *)
(* call a method.                                                          *)
Fairness == /\ \A t \in Threads : WF_vars(ThreadStep(t))
            /\ \A w \in Workers : WF_vars(WorkerStep(w))

FairSpec == Spec /\ Fairness

-----------------------------------------------------------------------------
(* Types *)

GatewayTypes ==
  /\ state \in States /\ device \in Devices /\ cameraFailed \in BOOLEAN
  /\ opens \in 0 .. MaxOpens /\ saved \in Saves

ReferenceTypes ==
  camera \in SessionOrNone /\ pipeline \in SessionOrNone /\ services \in SessionOrNone

ObjectTypes ==
  /\ camOpen \in [Sessions -> BOOLEAN] /\ running \in [Sessions -> BOOLEAN]
  /\ paused \in [Sessions -> BOOLEAN] /\ snapOn \in [Sessions -> BOOLEAN]
  /\ notifOn \in [Sessions -> BOOLEAN]
  /\ rec \in [Sessions -> {"off", "on", "stuck"}]

ClosingTypes ==
  /\ closeThread \in Workers \cup {NoWorker} /\ closeDone \in BOOLEAN
  /\ worker \in [Workers -> WorkerPoints]

ControlTypes == pc \in [Threads -> Points] /\ ret \in [Threads -> Returns]

LocalTypes ==
  /\ call \in [Threads -> CallNames]
  /\ arg \in [Threads -> Devices \cup {NoDevice}]
  /\ sid \in [Threads -> SessionOrNone] /\ loaded \in [Threads -> BOOLEAN]

TypeOK == /\ GatewayTypes /\ ReferenceTypes /\ ObjectTypes /\ ClosingTypes
          /\ ControlTypes /\ LocalTypes

-----------------------------------------------------------------------------
(* Safety *)

TearingDown(w) == worker[w] \in {"recorder", "pipeline", "release_pipeline",
                                 "release_adapters", "release_recorder",
                                 "set_idle"}
InCloseSection(t) == pc[t] \in {"close_clear", "close_spawn"}

(* The gateway is never left in CLOSING with nobody to take it out: the    *)
(* thread that set it is about to start a close worker, or a close worker  *)
(* has not yet set IDLE (close_camera and _close_camera_worker).           *)
ClosingHasWorker ==
  state = "closing" => \/ \E t \in Threads : InCloseSection(t)
                       \/ \E w \in Workers : TearingDown(w)

(* Two near-simultaneous close_camera calls run exactly one close thread:  *)
(* at most one teardown is in progress, counting the one about to start,   *)
(* and it runs only while the state is CLOSING.                            *)
OneTeardown ==
  /\ Cardinality({w \in Workers : TearingDown(w)})
       + Cardinality({t \in Threads : InCloseSection(t)}) <= 1
  /\ (\E w \in Workers : TearingDown(w)) => state = "closing"

(* IDLE means no camera and no pipeline: no session of any age still holds *)
(* its device or runs its pipeline, whichever path led to IDLE.            *)
IdleHoldsNothing ==
  state = "idle" => \A s \in Sessions : ~camOpen[s] /\ ~running[s]

(* Nothing leaks: a device that is held and a pipeline that runs are the   *)
(* ones the controller still refers to, so that closing releases them.     *)
NothingLeaks ==
  \A s \in Sessions : /\ camOpen[s] => camera = s
                      /\ running[s] => pipeline = s

(* open_camera's outer handler is at work, in some thread. *)
Undoing == \E t \in Threads : pc[t] \in Excepting

(* CAMERA_ON and DETECTING mean that the pipeline runs on an open camera,  *)
(* but for the time in which a failed open_camera takes back its own       *)
(* CAMERA_ON: afterwards, whatever happened meanwhile, it holds again.     *)
OpenMeansRunning ==
  state \in OpenStates /\ ~Undoing =>
    /\ camera # None /\ camOpen[camera]
    /\ pipeline # None /\ running[pipeline]

Toggling == {"detect_resume", "detect_snapshot", "pause_pipeline",
             "pause_snapshot"}

(* When no start_detection or stop_detection is halfway and no failed      *)
(* open_camera is being undone, the snapshot service is on exactly while   *)
(* the detector is, and a detector that is on is not paused.               *)
DetectorLockstep ==
  (\A t \in Threads : pc[t] \notin Toggling \cup Excepting) =>
    /\ state = "detecting" => snapOn[services] /\ ~paused[pipeline]
    /\ state = "camera_on" => ~snapOn[services]

-----------------------------------------------------------------------------
(* Refinement *)

(* The camera as its user sees it: the state, CAMERA_ON being told apart   *)
(* while open_camera takes it back, and whether any session of any age     *)
(* holds its device or runs its pipeline.                                  *)
Lifecycle == INSTANCE CameraLifecycle WITH
               phase <- IF state = "camera_on" /\ Undoing THEN "undoing" ELSE state,
               held  <- \E s \in Sessions : camOpen[s] \/ running[s]

(* The gateway implements CameraLifecycle: besides _ALLOWED_TRANSITIONS    *)
(* the state changes only from CAMERA_ON to IDLE, when open_camera fails   *)
(* after it has set CAMERA_ON, and then to a camera that is freed; in the  *)
(* end everything is freed before IDLE; and CAMERA_ON, DETECTING and their *)
(* toggles never touch the resources.                                      *)
ImplementsLifecycle == Lifecycle!Spec

(* ... and under fair scheduling it completes every close, and every open  *)
(* that it takes back.                                                     *)
ImplementsFairLifecycle == Lifecycle!FairSpec

-----------------------------------------------------------------------------
(* Liveness *)

(* An open that has begun ends, in CAMERA_ON or back in IDLE. *)
OpenCompletes == state = "opening" ~> state # "opening"

(* Whoever waits in wait_closed is let go. *)
WaitersReturn == \A t \in Threads : pc[t] = "wait_event" ~> pc[t] # "wait_event"
=============================================================================
