----------------------- MODULE GatewayResourceProofs -----------------------
(***************************************************************************)
(* What the gateway holds.  As long as no two open_camera calls overlap,   *)
(* whatever else is called by however many threads and whatever fails:     *)
(* at most one teardown runs, IDLE holds nothing and nothing leaks.  As    *)
(* long as no toggle of the detector overlaps an open_camera either,       *)
(* CAMERA_ON and DETECTING stand for a running pipeline, and the gateway   *)
(* implements CameraLifecycle.  As long as, besides, no two toggles        *)
(* overlap, the detector, the pipeline and the snapshot service stay in    *)
(* lockstep.                                                               *)
(***************************************************************************)
EXTENDS GatewayControllerProofs, FiniteSetTheorems

(* The control points between a successful claim of OPENING and the end of *)
(* all that may fail, the handler around it included: whoever is there is  *)
(* making a session.  At "open_restore" CAMERA_ON is already set.          *)
Starting  == {"open_create", "open_init", "open_compose", "open_start",
              "open_ready"}
Aborting  == {"abort_pipeline", "abort_adapters", "abort_recorder",
              "abort_idle"}
Making    == Starting \cup Aborting \cup Excepting \cup {"open_restore"}

(* No two open_camera calls are past their claim at the same time.         *)
SerialOpens ==
  \A t, u \in Threads : pc[t] \in Making /\ pc[u] \in Making => t = u

(* Nothing is held and nothing runs, of any session, also of those that    *)
(* the controller no longer refers to.                                     *)
NoneHeld    == \A s \in Sessions : ~camOpen[s]
NoneRunning == \A s \in Sessions : ~running[s]
PipelineGone == pipeline = None /\ NoneRunning
Empty == /\ camera = None /\ services = None
         /\ PipelineGone /\ NoneHeld

(* What the gateway holds at each point of open_camera. *)
Stage(t) ==
  /\ pc[t] \in Starting \cup Aborting => state = "opening"
  /\ pc[t] \in Starting => sid[t] \in Sessions
  /\ pc[t] \in {"open_create", "abort_idle", "except_reset"} => Empty
  /\ pc[t] = "open_init" =>
       camera = sid[t] /\ services = None /\ PipelineGone /\ NoneHeld
  /\ pc[t] = "open_compose" =>
       camera = sid[t] /\ services = None /\ PipelineGone /\ camOpen[sid[t]]
  /\ pc[t] = "open_start" =>
       /\ camera = sid[t] /\ services = sid[t] /\ pipeline = sid[t]
       /\ camOpen[sid[t]] /\ NoneRunning
  /\ pc[t] = "open_ready" =>
       /\ camera = sid[t] /\ services = sid[t] /\ pipeline = sid[t]
       /\ camOpen[sid[t]] /\ running[sid[t]]
  /\ pc[t] \in {"abort_adapters", "except_adapters"} => PipelineGone
  /\ pc[t] \in {"abort_recorder", "except_recorder"} => PipelineGone /\ NoneHeld

(* What it holds at each point of _close_camera_worker. *)
Freeing(w) ==
  /\ worker[w] = "release_adapters" => PipelineGone
  /\ worker[w] = "release_recorder" => PipelineGone /\ NoneHeld
  /\ worker[w] = "set_idle" => Empty

(* One teardown at a time, and only in CLOSING. *)
Lone ==
  /\ \A w \in Workers : TearingDown(w) => state = "closing"
  /\ \A t \in Threads : InCloseSection(t) => state = "closing"
  /\ \A v, w \in Workers : TearingDown(v) /\ TearingDown(w) => v = w
  /\ \A t, u \in Threads : InCloseSection(t) /\ InCloseSection(u) => t = u
  /\ \A t \in Threads, w \in Workers : ~(InCloseSection(t) /\ TearingDown(w))

(* All of it *)
Held ==
  /\ NothingLeaks
  /\ state = "idle" => Empty
  /\ \A t \in Threads : Stage(t)
  /\ \A w \in Workers : Freeing(w)

(* No toggle of the detector overlaps an open_camera.                      *)
CalmOpens ==
  \A t, u \in Threads : pc[t] \in Making /\ pc[u] \in Making \cup Toggling
                          => t = u

(* What CAMERA_ON and DETECTING stand for. *)
Up == /\ camera \in Sessions /\ services \in Sessions /\ pipeline \in Sessions
      /\ camOpen[camera] /\ running[pipeline]

(* They stand for it unless a failed open_camera is being undone, and that *)
(* is never in DETECTING, where nobody would end it.                       *)
Live ==
  /\ state \in OpenStates /\ ~Undoing => Up
  /\ \A t \in Threads :
       pc[t] = "open_restore" => state \in {"camera_on", "closing", "idle"}
  /\ Undoing => state # "detecting"

(* A toggle of the detector overlaps neither another one nor an            *)
(* open_camera.                                                            *)
SerialToggles ==
  \A t, u \in Threads : pc[t] \in Making \cup Toggling
                          /\ pc[u] \in Making \cup Toggling => t = u

(* Where a toggle has changed the state but not yet the flags.  CLOSING    *)
(* and IDLE may have come in between.                                      *)
Halfway(t) ==
  /\ pc[t] \in {"detect_resume", "detect_snapshot"} =>
       state \in {"detecting", "closing", "idle"}
  /\ pc[t] \in {"pause_pipeline", "pause_snapshot"} =>
       state \in {"camera_on", "closing", "idle"}
  /\ pc[t] = "detect_snapshot" /\ state = "detecting" => ~paused[pipeline]

(* The snapshot service of a session is off until it is toggled. *)
Fresh ==
  /\ \A s \in Sessions : s > opens => ~snapOn[s]
  /\ services <= opens
  /\ \A t \in Threads :
       pc[t] \in Starting => sid[t] <= opens /\ ~snapOn[sid[t]]

InStep ==
  /\ Fresh
  /\ \A t \in Threads : Halfway(t)
  /\ DetectorLockstep

-----------------------------------------------------------------------------
(* Steps that leave the resources alone *)

LEMMA ReturnsDoNotMake ==
  /\ Returns \cap Making = {}
  /\ Returns \cap {"close_clear", "close_spawn"} = {}
BY DEF Returns, Making, Starting, Aborting, Excepting

(* A step outside open_camera's making and close_camera's section. *)
Aside(t) ==
  /\ UNCHANGED <<camera, pipeline, services, camOpen, running, worker, sid>>
  /\ \/ state' = state
     \/ state \in OpenStates /\ state' \in OpenStates /\ pc'[t] \in Toggling
  /\ pc[t] \notin Making /\ pc'[t] \notin Making
  /\ ~InCloseSection(t) /\ ~InCloseSection(t)'
  /\ \A u \in Threads \ {t} : pc'[u] = pc[u]

LEMMA AsideKeeps ==
  ASSUME Lone, Held, NEW t \in Threads, Aside(t)
  PROVE  Lone' /\ Held'
<1> USE DEF Aside, OpenStates
<1>1. Lone'
  BY DEF Lone, TearingDown, InCloseSection
<1>2. NothingLeaks' /\ (state = "idle" => Empty)'
  BY DEF Held, NothingLeaks, Empty, NoneHeld, NoneRunning, PipelineGone
<1>3. ASSUME NEW u \in Threads PROVE Stage(u)'
  <2>1. CASE u = t
    BY <2>1 DEF Stage, Making, Starting, Aborting, Excepting
  <2>2. CASE u # t
    <3>1. pc'[u] = pc[u]
      BY <2>2
    <3>2. CASE pc[u] \in Making
      <4>1. pc[u] \in Starting \cup Aborting => state' = state
        BY DEF Held, Stage
      <4> QED
        BY <3>1, <4>1 DEF Held, Stage, Empty, NoneHeld, NoneRunning, PipelineGone
    <3>3. CASE pc[u] \notin Making
      BY <3>1, <3>3 DEF Stage, Making, Starting, Aborting, Excepting
    <3> QED
      BY <3>2, <3>3
  <2> QED
    BY <2>1, <2>2
<1>4. ASSUME NEW w \in Workers PROVE Freeing(w)'
  BY DEF Held, Freeing, Empty, NoneHeld, NoneRunning, PipelineGone
<1> QED
  BY <1>1, <1>2, <1>3, <1>4 DEF Held

LEMMA CallIsAside ==
  ASSUME TypeOK, NEW t \in Threads, NEW c \in CallNames,
         NEW d \in Devices \cup {NoDevice}, Call(t, c, d)
  PROVE  Aside(t)
<1>1. Entry[c] \notin Making \cup {"close_clear", "close_spawn"}
  BY DEF Entry, CallNames, Making, Starting, Aborting, Excepting
<1> QED
  BY <1>1 DEF TypeOK, ControlTypes, Call, Goto, Aside, InCloseSection, Making,
              Starting, Aborting, Excepting, gateway, refs, objects, closing

LEMMA WaitIsAside ==
  ASSUME TypeOK, NEW t \in Threads, WaitStep(t)
  PROVE  Aside(t)
<1> USE ReturnsDoNotMake
    DEF TypeOK, ControlTypes, Aside, InCloseSection, Making, Starting, Aborting,
        Excepting, Goto, gateway, refs, objects, closing, locals
<1>1. CASE WaitCheck(t)
  BY <1>1 DEF WaitCheck, Return
<1>2. CASE WaitTrue(t)
  BY <1>2 DEF WaitTrue, Return
<1>3. CASE WaitTimeout(t)
  BY <1>3 DEF WaitTimeout, Return
<1>4. CASE SelectCheck(t)
  BY <1>4 DEF SelectCheck
<1>5. CASE SelectWait(t)
  BY <1>5 DEF SelectWait
<1>6. CASE StopCheck(t)
  BY <1>6 DEF StopCheck
<1>7. CASE StopWait(t)
  BY <1>7 DEF StopWait
<1>8. CASE StopReturn(t)
  BY <1>8 DEF StopReturn
<1>9. CASE FatalCheck(t)
  BY <1>9 DEF FatalCheck
<1> QED
  BY <1>1, <1>2, <1>3, <1>4, <1>5, <1>6, <1>7, <1>8, <1>9 DEF WaitStep

LEMMA DetectIsAside ==
  ASSUME TypeOK, NEW t \in Threads, DetectStep(t)
  PROVE  Aside(t)
<1> USE ReturnsDoNotMake
    DEF TypeOK, ControlTypes, Aside, InCloseSection, Making, Starting, Aborting,
        Excepting, Toggling, Goto, gateway, refs, objects, closing, locals
<1>1. CASE DetectClaim(t)
  BY <1>1 DEF DetectClaim, Return, CanSet, AllowedTransitions, OpenStates
<1>2. CASE PauseClaim(t)
  BY <1>2 DEF PauseClaim, Return, OpenStates
<1>3. CASE DetectResume(t)
  BY <1>3 DEF DetectResume, TogglePipeline
<1>4. CASE PausePipeline(t)
  BY <1>4 DEF PausePipeline, TogglePipeline
<1>5. CASE DetectSnapshot(t)
  BY <1>5 DEF DetectSnapshot, ToggleSnapshots, Return
<1>6. CASE PauseSnapshot(t)
  BY <1>6 DEF PauseSnapshot, ToggleSnapshots, Return
<1> QED
  BY <1>1, <1>2, <1>3, <1>4, <1>5, <1>6 DEF DetectStep

LEMMA RecordIsAside ==
  ASSUME TypeOK, NEW t \in Threads, RecordStep(t)
  PROVE  Aside(t)
BY DEF TypeOK, ControlTypes, Aside, InCloseSection, Making, Starting, Aborting,
       Excepting, Goto, gateway, refs, objects, closing, locals, RecordStep,
       RecordCheck, RecordStart, RecordStop

(* The steps of open_camera before it has claimed OPENING and after it has *)
(* read the state file.                                                    *)
Asking(t) ==
  \/ OpenCheck(t) \/ SwitchReopen(t) \/ RestoreNotifier(t)
  \/ InitializeCheck(t)
  \/ OpenClaim(t) /\ ~CanSet("opening")

LEMMA AskingIsAside ==
  ASSUME TypeOK, NEW t \in Threads, Asking(t)
  PROVE  Aside(t)
<1> USE DEF TypeOK, ControlTypes, Aside, InCloseSection, Making, Starting, Aborting,
        Excepting, Goto, OpenReturn, gateway, refs, objects, closing, locals
<1>1. CASE OpenCheck(t)
  BY <1>1 DEF OpenCheck
<1>2. CASE SwitchReopen(t)
  BY <1>2 DEF SwitchReopen
<1>3. CASE RestoreNotifier(t)
  BY <1>3 DEF RestoreNotifier
<1>4. CASE InitializeCheck(t)
  BY <1>4 DEF InitializeCheck
<1>5. CASE OpenClaim(t) /\ ~CanSet("opening")
  BY <1>5 DEF OpenClaim
<1> QED
  BY <1>1, <1>2, <1>3, <1>4, <1>5 DEF Asking

-----------------------------------------------------------------------------
(* Steps of the thread that makes a session *)

Alone(t) == \A u \in Threads \ {t} : pc[u] \notin Making

LEMMA SerialIsAlone ==
  ASSUME SerialOpens, NEW t \in Threads, pc[t] \in Making
  PROVE  Alone(t)
BY DEF SerialOpens, Alone

(* What the others are known to do while t makes a session. *)
Undisturbed(t) ==
  /\ Alone(t) /\ (state = "closing" => state' = "closing")
  /\ worker' = worker /\ ~InCloseSection(t)'
  /\ \A u \in Threads \ {t} : pc'[u] = pc[u]

LEMMA MakerKeeps ==
  ASSUME Lone, Held, NEW t \in Threads, Undisturbed(t),
         NothingLeaks', (state = "idle" => Empty)', Stage(t)',
         \A w \in Workers : Freeing(w)'
  PROVE  Lone' /\ Held'
<1> USE DEF Undisturbed
<1>1. Lone'
  BY DEF Lone, TearingDown, InCloseSection
<1>2. \A u \in Threads : Stage(u)'
  <2> SUFFICES ASSUME NEW u \in Threads, u # t PROVE Stage(u)'
    OBVIOUS
  <2>1. pc'[u] \notin Making
    BY DEF Alone
  <2> QED
    BY <2>1 DEF Stage, Making, Starting, Aborting, Excepting
<1> QED
  BY <1>1, <1>2 DEF Held

(* The claim of OPENING that succeeds. *)
LEMMA ClaimKeeps ==
  ASSUME TypeOK, Lone, Held, SerialOpens', NEW t \in Threads,
         OpenClaim(t), CanSet("opening")
  PROVE  Lone' /\ Held'
<1> USE DEF TypeOK, ControlTypes
<1>1. /\ state = "idle" /\ state' = "opening" /\ pc' = [pc EXCEPT ![t] = "open_create"]
      /\ UNCHANGED <<camera, pipeline, services, camOpen, running, worker>>
      /\ sid'[t] = opens + 1 /\ opens + 1 \in Sessions
  BY BoundsAssumption DEF OpenClaim, CanSet, AllowedTransitions, Goto, refs, objects,
     closing, LocalTypes, GatewayTypes, Sessions
<1>2. Undisturbed(t)
  <2>1. \A u \in Threads \ {t} : pc'[u] \notin Making
    BY <1>1 DEF SerialOpens, Making, Starting
  <2> QED
    BY <1>1, <2>1 DEF Undisturbed, Alone, InCloseSection
<1>3. Empty /\ Empty'
  BY <1>1 DEF Held, Empty, NoneHeld, NoneRunning, PipelineGone
<1>4. NothingLeaks'
  BY <1>3 DEF NothingLeaks, Empty, NoneHeld, NoneRunning, PipelineGone
<1>5. Stage(t)'
  BY <1>1, <1>3 DEF Stage, Starting, Aborting, Excepting
<1>6. \A w \in Workers : Freeing(w)'
  BY <1>1 DEF Lone, Freeing, TearingDown
<1> QED
  BY <1>1, <1>2, <1>4, <1>5, <1>6, MakerKeeps

(* The steps of open_camera past the claim, its two ways of giving up      *)
(* included.                                                               *)
Maker(t) ==
  \/ CreateAdapters(t) \/ InitCamera(t) \/ ComposeServices(t)
  \/ StartPipeline(t) \/ OpenReady(t) \/ RestoreDetector(t)
  \/ AbortPipeline(t) \/ AbortAdapters(t) \/ AbortRecorder(t)
  \/ AbortIdle(t) \/ ExceptReset(t)

LEMMA MakerIsUndisturbed ==
  ASSUME TypeOK, Held, SerialOpens, NEW t \in Threads, Maker(t)
  PROVE  pc[t] \in Making /\ Undisturbed(t)
<1>1. pc[t] \in Making
  BY DEF Maker, Making, Starting, Aborting, Excepting, CreateAdapters,
     InitCamera, ComposeServices, StartPipeline, OpenReady, RestoreDetector,
     AbortPipeline, AbortAdapters, AbortRecorder, AbortIdle, ExceptReset
<1>2. state = "closing" => state' = "closing"
  <2>1. pc[t] \in Starting \cup Aborting => state = "opening"
    BY DEF Held, Stage
  <2> QED
    BY <2>1 DEF Maker, Aborting, CreateAdapters, InitCamera, ComposeServices,
       StartPipeline, OpenReady, RestoreDetector, AbortPipeline, AbortAdapters,
       AbortRecorder, AbortIdle, ExceptReset, CanSet, AllowedTransitions, gateway
<1>3. /\ worker' = worker /\ ~InCloseSection(t)'
      /\ \A u \in Threads \ {t} : pc'[u] = pc[u]
  BY DEF TypeOK, ControlTypes, InCloseSection, Goto, OpenReturn, closing, Maker,
     CreateAdapters, InitCamera, ComposeServices, StartPipeline, OpenReady,
     RestoreDetector, AbortPipeline, AbortAdapters, AbortRecorder, AbortIdle,
     ExceptReset
<1> QED
  BY <1>1, <1>2, <1>3, SerialIsAlone DEF Undisturbed

(* A close worker meets open_camera's handler only, which frees as it does. *)
LEMMA MakerKeepsFreeing ==
  ASSUME TypeOK, Lone, Held, SerialOpens, NEW t \in Threads, Maker(t),
         NEW w \in Workers
  PROVE  Freeing(w)'
<1>1. worker' = worker /\ Freeing(w)
  BY MakerIsUndisturbed DEF Undisturbed, Held
<1>2. CASE ~TearingDown(w)
  BY <1>1, <1>2 DEF TearingDown, Freeing
<1>3. CASE TearingDown(w)
  <2>1. pc[t] \notin Starting \cup Aborting
    BY <1>3 DEF Lone, Held, Stage
  <2> USE <1>1, <2>1 DEF Freeing, Empty, PipelineGone, NoneHeld, NoneRunning, Starting,
          Aborting, gateway, refs, objects
  <2>2. CASE RestoreDetector(t) \/ ExceptReset(t)
    BY <2>2 DEF RestoreDetector, ExceptReset
  <2>3. CASE AbortPipeline(t)
    BY <2>3 DEF TypeOK, ObjectTypes, AbortPipeline, ReleasePipeline
  <2>4. CASE AbortAdapters(t)
    BY <2>4 DEF TypeOK, ObjectTypes, AbortAdapters, ReleaseCamera
  <2>5. CASE AbortRecorder(t)
    BY <2>5 DEF AbortRecorder, ReleaseRecorder
  <2> QED
    BY <2>2, <2>3, <2>4, <2>5 DEF Maker, CreateAdapters, InitCamera,
       ComposeServices, StartPipeline, OpenReady, AbortIdle
<1> QED
  BY <1>2, <1>3

LEMMA MakerKeepsHeld ==
  ASSUME TypeOK, Lone, Held, SerialOpens, NEW t \in Threads, Maker(t)
  PROVE  Lone' /\ Held'
<1> DEFINE Kept == /\ NothingLeaks' /\ (state = "idle" => Empty)' /\ Stage(t)'
<1>0. Stage(t) /\ NothingLeaks /\ (state = "idle" => Empty)
  BY DEF Held
<1> SUFFICES Kept
  BY MakerIsUndisturbed, MakerKeepsFreeing, MakerKeeps
<1> USE DEF TypeOK, ControlTypes, ReferenceTypes, ObjectTypes, SessionOrNone,
        Goto, Stage, NothingLeaks, Empty, PipelineGone, NoneHeld,
        NoneRunning, OpenStates, Making, Starting, Aborting, Excepting,
        Sessions, None, gateway, refs, objects, closing, locals
<1> USE BoundsAssumption
<1>1. CASE CreateAdapters(t)
  BY <1>0, <1>1 DEF CreateAdapters
<1>2. CASE InitCamera(t)
  BY <1>0, <1>2 DEF InitCamera
<1>3. CASE ComposeServices(t)
  BY <1>0, <1>3 DEF ComposeServices
<1>4. CASE StartPipeline(t)
  BY <1>0, <1>4 DEF StartPipeline
<1>5. CASE OpenReady(t)
  BY <1>0, <1>5 DEF OpenReady, CanSet, AllowedTransitions
<1>6. CASE RestoreDetector(t)
  BY <1>0, <1>6 DEF RestoreDetector, OpenReturn
<1>7. CASE AbortPipeline(t)
  BY <1>0, <1>7 DEF AbortPipeline, ReleasePipeline
<1>8. CASE AbortAdapters(t)
  BY <1>0, <1>8 DEF AbortAdapters, ReleaseCamera
<1>9. CASE AbortRecorder(t)
  BY <1>0, <1>9 DEF AbortRecorder, ReleaseRecorder
<1>10. CASE AbortIdle(t)
  BY <1>0, <1>10 DEF AbortIdle, CanSet, AllowedTransitions
<1>11. CASE ExceptReset(t)
  BY <1>0, <1>11 DEF ExceptReset
<1> QED
  BY <1>1, <1>2, <1>3, <1>4, <1>5, <1>6, <1>7, <1>8, <1>9, <1>10, <1>11 DEF Maker

LEMMA OpenKeepsHeld ==
  ASSUME TypeOK, Lone, Held, SerialOpens, SerialOpens', NEW t \in Threads,
         OpenStep(t)
  PROVE  Lone' /\ Held'
<1>1. Asking(t) \/ Maker(t) \/ (OpenClaim(t) /\ CanSet("opening"))
  BY DEF OpenStep, Asking, Maker
<1> QED
  BY <1>1, AskingIsAside, AsideKeeps, MakerKeepsHeld, ClaimKeeps

-----------------------------------------------------------------------------
(* Steps of close_camera and of its worker *)

(* Outside OPENING what a thread has still to release is less than before, *)
(* whatever others release.                                                *)
LEMMA StagesStay ==
  ASSUME TypeOK, Held, state # "opening",
         NEW u \in Threads,
         pc'[u] = pc[u] \/ (pc[u] \notin Making /\ pc'[u] \notin Making),
         PipelineGone => PipelineGone', NoneHeld => NoneHeld',
         Empty => Empty'
  PROVE  Stage(u)'
BY DEF Held, Stage, Making, Starting, Aborting, Excepting

LEMMA CloseKeepsHeld ==
  ASSUME TypeOK, Lone, Held, NEW t \in Threads, CloseStep(t)
  PROVE  Lone' /\ Held'
<1> USE DEF TypeOK, ControlTypes, ClosingTypes, Goto, InCloseSection,
        TearingDown, gateway, refs, objects, closing, locals
<1>1. CASE CloseEnter(t) /\ state' = state
  <2>1. pc[t] \notin Making /\ pc'[t] = ret[t]
    BY <1>1 DEF CloseEnter, Return, CanSet, AllowedTransitions, Making, Starting,
                Aborting, Excepting
  <2>2. Aside(t)
    BY <1>1, <2>1, ReturnsDoNotMake DEF CloseEnter, Return, Aside
  <2> QED
    BY <2>2, AsideKeeps
<1>2. CASE CloseEnter(t) /\ state' # state
  <2>1. /\ state \in OpenStates /\ state' = "closing"
        /\ pc' = [pc EXCEPT ![t] = "close_clear"] /\ CloseLockFree
        /\ UNCHANGED <<refs, camOpen, running, worker>>
    BY <1>2 DEF CloseEnter, CanSet, AllowedTransitions, OpenStates
  <2>2. state # "opening" /\ pc[t] \notin Making
    BY <1>2, <2>1 DEF CloseEnter, OpenStates, Making, Starting, Aborting, Excepting
  <2>3. \A w \in Workers : ~TearingDown(w)
    BY <2>1 DEF Lone, OpenStates
  <2>4. Lone'
    BY <2>1, <2>3 DEF Lone, CloseLockFree
  <2>5. \A u \in Threads : Stage(u)'
    BY <2>1, <2>2, StagesStay DEF Making, Starting, Aborting, Excepting, Empty,
       NoneHeld, NoneRunning, PipelineGone
  <2>6. \A w \in Workers : Freeing(w)'
    BY <2>1, <2>3 DEF Freeing
  <2> QED
    BY <2>1, <2>4, <2>5, <2>6 DEF Held, NothingLeaks, OpenStates
<1>3. CASE CloseClear(t) \/ CloseSpawn(t)
  <2>1. /\ state = "closing" /\ UNCHANGED <<state, refs, camOpen, running>>
        /\ pc[t] \in {"close_clear", "close_spawn"}
        /\ pc[t] \notin Making /\ pc'[t] \notin Making
        /\ \A u \in Threads \ {t} : pc'[u] = pc[u]
    BY <1>3, ReturnsDoNotMake
    DEF Lone, CloseClear, CloseSpawn, Return, Making, Starting, Aborting, Excepting
  <2>2. \A u \in Threads : Stage(u)'
    BY <2>1, StagesStay DEF Empty, NoneHeld, NoneRunning, PipelineGone
  <2>3. \A w \in Workers : ~TearingDown(w)
    BY <2>1 DEF Lone
  <2>4. \A u \in Threads \ {t} : ~InCloseSection(u)'
    BY <2>1 DEF Lone
  <2>5. Lone'
    <3>1. CASE CloseClear(t)
      BY <2>1, <2>3, <2>4, <3>1 DEF Lone, CloseClear
    <3>2. CASE CloseSpawn(t)
      <4>1. PICK w \in Workers : worker' = [worker EXCEPT ![w] = "recorder"]
        BY <3>2 DEF CloseSpawn
      <4>2. \A v \in Workers \ {w} : ~TearingDown(v)'
        BY <2>3, <4>1
      <4>3. ~InCloseSection(t)'
        BY <3>2, ReturnsDoNotMake DEF CloseSpawn, Return
      <4> QED
        BY <2>1, <2>4, <4>2, <4>3 DEF Lone
    <3> QED
      BY <1>3, <3>1, <3>2
  <2>6. \A w \in Workers : Freeing(w)'
    BY <1>3, <2>3 DEF CloseClear, CloseSpawn, Freeing
  <2> QED
    BY <2>1, <2>2, <2>5, <2>6 DEF Held, NothingLeaks, OpenStates
<1> QED
  BY <1>1, <1>2, <1>3 DEF CloseStep

LEMMA WorkerKeepsHeld ==
  ASSUME TypeOK, Lone, Held, NEW w \in Workers, WorkerStep(w)
  PROVE  Lone' /\ Held'
<1> USE DEF TypeOK, ClosingTypes, WorkerGoto, gateway, refs, objects, control,
        locals, TearingDown, InCloseSection
<1>1. CASE WorkerSetDone(w)
  <2>1. /\ UNCHANGED <<state, refs, camOpen, running, pc, sid>>
        /\ worker' = [worker EXCEPT ![w] = "none"] /\ worker[w] = "set_done"
    BY <1>1 DEF WorkerSetDone
  <2>2. Lone'
    BY <2>1 DEF Lone
  <2>3. \A u \in Threads : Stage(u)'
    BY <2>1 DEF Held, Stage, Empty, PipelineGone, NoneHeld, NoneRunning
  <2>4. \A v \in Workers : Freeing(v)'
    BY <2>1 DEF Held, Freeing, Empty, PipelineGone, NoneHeld, NoneRunning
  <2> QED
    BY <2>1, <2>2, <2>3, <2>4
    DEF Held, NothingLeaks, Empty, PipelineGone, NoneHeld, NoneRunning
<1>2. CASE ~WorkerSetDone(w)
  <2>1. TearingDown(w) /\ pc' = pc
    BY <1>2 DEF WorkerStep, WorkerRecorder, WorkerPipeline,
       WorkerReleasePipeline, WorkerReleaseAdapters, WorkerReleaseRecorder, WorkerSetIdle
  <2>2. /\ state = "closing" /\ \A v \in Workers \ {w} : ~TearingDown(v)
        /\ \A u \in Threads : ~InCloseSection(u)
    BY <2>1 DEF Lone
  <2>3. \A u \in Threads : Stage(u)'
    <3>1. /\ PipelineGone => PipelineGone'
          /\ NoneHeld => NoneHeld'
          /\ Empty => Empty'
      BY <1>2 DEF ObjectTypes, WorkerStep, WorkerRecorder, WorkerPipeline,
         WorkerReleasePipeline, WorkerReleaseAdapters, WorkerReleaseRecorder,
         WorkerSetIdle, ReleasePipeline, ReleaseCamera, ReleaseRecorder, Empty,
         PipelineGone, NoneHeld, NoneRunning
    <3> QED
      BY <2>1, <2>2, <3>1, StagesStay
  <2>4. \A v \in Workers \ {w} : worker'[v] = worker[v]
    BY <1>2 DEF WorkerStep, WorkerRecorder, WorkerPipeline,
       WorkerReleasePipeline, WorkerReleaseAdapters, WorkerReleaseRecorder, WorkerSetIdle
  <2>5. /\ ~WorkerSetIdle(w) => state' = state
        /\ WorkerSetIdle(w) => state' = "idle" /\ worker'[w] = "set_done"
    BY <1>2 DEF WorkerStep, WorkerRecorder, WorkerPipeline,
       WorkerReleasePipeline, WorkerReleaseAdapters, WorkerReleaseRecorder, WorkerSetIdle
  <2>6. Lone'
    BY <2>1, <2>2, <2>4, <2>5 DEF Lone
  <2>7. Freeing(w)' /\ NothingLeaks' /\ (state = "idle" => Empty)'
    <3>1. Freeing(w) /\ NothingLeaks
      BY DEF Held
    <3> USE <2>2, <3>1 DEF ReferenceTypes, ObjectTypes, SessionOrNone, Sessions,
            None, Freeing, NothingLeaks, Empty, PipelineGone, NoneHeld, NoneRunning
    <3> USE BoundsAssumption
    <3>2. CASE WorkerRecorder(w)
      BY <3>2 DEF WorkerRecorder
    <3>3. CASE WorkerPipeline(w)
      BY <3>3 DEF WorkerPipeline
    <3>4. CASE WorkerReleasePipeline(w)
      BY <3>4 DEF WorkerReleasePipeline, ReleasePipeline
    <3>5. CASE WorkerReleaseAdapters(w)
      BY <3>5 DEF WorkerReleaseAdapters, ReleaseCamera
    <3>6. CASE WorkerReleaseRecorder(w)
      BY <3>6 DEF WorkerReleaseRecorder, ReleaseRecorder
    <3>7. CASE WorkerSetIdle(w)
      BY <3>7 DEF WorkerSetIdle
    <3> QED
      BY <1>2, <3>2, <3>3, <3>4, <3>5, <3>6, <3>7 DEF WorkerStep
  <2>8. \A v \in Workers \ {w} : Freeing(v)'
    BY <2>2, <2>4 DEF Freeing
  <2> QED
    BY <2>3, <2>6, <2>7, <2>8 DEF Held
<1> QED
  BY <1>1, <1>2

-----------------------------------------------------------------------------
(* Theorems *)

LEMMA InitHeld == Init => Lone /\ Held
<1> SUFFICES ASSUME Init PROVE Lone /\ Held
  OBVIOUS
<1>1. Empty
  BY DEF Init, Empty, PipelineGone, NoneHeld, NoneRunning
<1>2. Lone
  BY DEF Init, Lone, TearingDown, InCloseSection
<1>3. \A t \in Threads : Stage(t)
  BY DEF Init, Stage, Starting, Aborting, Excepting
<1>4. \A w \in Workers : Freeing(w)
  BY DEF Init, Freeing
<1>5. NothingLeaks
  BY <1>1 DEF NothingLeaks, Empty, PipelineGone, NoneHeld, NoneRunning
<1> QED
  BY <1>1, <1>2, <1>3, <1>4, <1>5 DEF Held, Init

LEMMA NextHeld ==
  TypeOK /\ Lone /\ Held /\ SerialOpens /\ SerialOpens' /\ [Next]_vars
    => Lone' /\ Held'
<1> SUFFICES ASSUME TypeOK, Lone, Held, SerialOpens, SerialOpens', [Next]_vars
             PROVE  Lone' /\ Held'
  OBVIOUS
<1>1. CASE \E t \in Threads, c \in CallNames, d \in Devices \cup {NoDevice} : Call(t, c, d)
  BY <1>1, CallIsAside, AsideKeeps
<1>2. ASSUME NEW t \in Threads, ThreadStep(t) PROVE Lone' /\ Held'
  BY <1>2, OpenKeepsHeld, CloseKeepsHeld, WaitIsAside, DetectIsAside,
     RecordIsAside, AsideKeeps DEF ThreadStep
<1>3. CASE \E w \in Workers : WorkerStep(w)
  BY <1>3, WorkerKeepsHeld
<1>4. CASE UNCHANGED vars
  <2> USE <1>4 DEF vars, gateway, refs, objects, closing, control, locals
  <2>1. Lone'
    BY DEF Lone, TearingDown, InCloseSection
  <2>2. \A u \in Threads : Stage(u)'
    BY DEF Held, Stage, Empty, PipelineGone, NoneHeld, NoneRunning
  <2>3. \A v \in Workers : Freeing(v)'
    BY DEF Held, Freeing, Empty, PipelineGone, NoneHeld, NoneRunning
  <2> QED
    BY <2>1, <2>2, <2>3
    DEF Held, NothingLeaks, Empty, PipelineGone, NoneHeld, NoneRunning
<1> QED
  BY <1>1, <1>2, <1>3, <1>4 DEF Next

(* The inductive invariant, for every behaviour without overlapping opens. *)
LEMMA HeldIsInvariant == Spec /\ []SerialOpens => [](Lone /\ Held)
BY InitHeld, NextHeld, TypeCorrect, PTL DEF Spec

(* Two near-simultaneous close_camera calls, from whatever threads, run    *)
(* exactly one close thread.                                               *)
THEOREM TeardownIsUnique == Spec /\ []SerialOpens => []OneTeardown
<1>1. Lone => OneTeardown
  <2> SUFFICES ASSUME Lone PROVE OneTeardown
    OBVIOUS
  <2> DEFINE W == {w \in Workers : TearingDown(w)}
             T == {t \in Threads : InCloseSection(t)}
  <2>1. \A S : (\A x, y \in S : x = y) => S = {} \/ \E x : S = {x}
    OBVIOUS
  <2>2. Cardinality(W) = 0 \/ (Cardinality(W) = 1 /\ T = {})
    <3>1. W = {} \/ \E w : W = {w}
      BY <2>1 DEF Lone
    <3>2. W # {} => T = {}
      BY DEF Lone
    <3> QED
      BY <3>1, <3>2, FS_EmptySet, FS_Singleton
  <2>3. Cardinality(T) = 0 \/ Cardinality(T) = 1
    <3>1. T = {} \/ \E t : T = {t}
      BY <2>1 DEF Lone
    <3> QED
      BY <3>1, FS_EmptySet, FS_Singleton
  <2>4. Cardinality(W) + Cardinality(T) <= 1
    BY <2>2, <2>3, FS_EmptySet
  <2> QED
    BY <2>4 DEF OneTeardown, Lone
<1> QED
  BY <1>1, HeldIsInvariant, PTL

(* IDLE means that no session of any age holds its device or runs its      *)
(* pipeline, whichever of open_camera's and close_camera's paths led there.*)
THEOREM IdleIsEmpty == Spec /\ []SerialOpens => []IdleHoldsNothing
<1>1. Held => IdleHoldsNothing
  BY DEF Held, IdleHoldsNothing, Empty, PipelineGone, NoneHeld, NoneRunning
<1> QED
  BY <1>1, HeldIsInvariant, PTL

(* A device that is held and a pipeline that runs are those the controller *)
(* still refers to: no failure path of open_camera drops one of them.      *)
THEOREM NothingIsLost == Spec /\ []SerialOpens => []NothingLeaks
<1>1. Held => NothingLeaks
  BY DEF Held
<1> QED
  BY <1>1, HeldIsInvariant, PTL

-----------------------------------------------------------------------------
(* Steps when no toggle of the detector overlaps an open_camera *)

LEMMA CalmIsSerial == CalmOpens => SerialOpens
BY DEF CalmOpens, SerialOpens

LEMMA AsideKeepsLive ==
  ASSUME Live, CalmOpens', NEW t \in Threads, Aside(t)
  PROVE  Live'
<1>1. Undoing' <=> Undoing
  BY DEF Aside, Undoing, Making
<1>2. \A u \in Threads : pc'[u] = "open_restore" => pc[u] = "open_restore"
  BY DEF Aside, Making
<1>3. CASE state' = state
  BY <1>1, <1>2, <1>3 DEF Live, Up, Aside
<1>4. CASE state' # state
  <2>1. state \in OpenStates /\ \A u \in Threads : pc'[u] \notin Making
    BY <1>4 DEF Aside, CalmOpens
  <2>2. ~Undoing' /\ Up
    BY <1>1, <2>1 DEF Live, Undoing, Making
  <2> QED
    BY <2>1, <2>2 DEF Live, Up, Aside, Making
<1> QED
  BY <1>3, <1>4

LEMMA ClaimKeepsLive ==
  ASSUME TypeOK, SerialOpens', NEW t \in Threads, OpenClaim(t), CanSet("opening")
  PROVE  Live'
<1>1. state' = "opening" /\ pc'[t] = "open_create"
  BY DEF TypeOK, ControlTypes, OpenClaim, Goto
<1>2. \A u \in Threads : pc'[u] # "open_restore"
  BY <1>1 DEF SerialOpens, Making, Starting
<1> QED
  BY <1>1, <1>2 DEF Live, OpenStates

LEMMA MakerKeepsLive ==
  ASSUME TypeOK, Held, Live, SerialOpens, NEW t \in Threads, Maker(t)
  PROVE  Live'
<1>0. /\ Stage(t) /\ pc[t] \in Making /\ pc'[t] \in Points
      /\ \A u \in Threads \ {t} : pc'[u] = pc[u] /\ pc[u] \notin Making
  <2>1. pc[t] \in Making /\ Undisturbed(t)
    BY MakerIsUndisturbed
  <2>2. pc'[t] \in Points
    BY OpenTypeOK DEF TypeOK, ControlTypes, Maker, OpenStep
  <2> QED
    BY <2>1, <2>2 DEF Held, Undisturbed, Alone
<1>1. /\ Undoing <=> pc[t] \in Excepting
      /\ Undoing' <=> pc'[t] \in Excepting
      /\ \A u \in Threads \ {t} : pc'[u] # "open_restore"
  BY <1>0 DEF Undoing, Making
<1>2. CASE OpenReady(t) /\ state' = "camera_on"
  <2>1. Up' /\ pc'[t] = "open_restore"
    BY <1>0, <1>2 DEF TypeOK, ControlTypes, OpenReady, Goto, Stage, Starting, Up, refs,
       objects
  <2> QED
    BY <1>1, <1>2, <2>1 DEF Live, Excepting
<1>3. CASE RestoreDetector(t)
  BY <1>0, <1>1, <1>3 DEF TypeOK, ControlTypes, RestoreDetector, OpenReturn, Goto, Live,
     Up, Excepting, OpenStates, gateway, refs, objects
<1>4. CASE ExceptReset(t)
  <2>1. state' \notin OpenStates /\ pc'[t] = "ready"
    BY <1>1, <1>4 DEF TypeOK, GatewayTypes, ControlTypes, States, ExceptReset, Goto, Live,
       Excepting, OpenStates
  <2> QED
    BY <1>1, <2>1 DEF Live, Excepting, OpenStates
<1>5. CASE (AbortPipeline(t) \/ AbortAdapters(t) \/ AbortRecorder(t)) /\ pc[t] \in Excepting
  <2>1. state' = state /\ pc'[t] \in Excepting
    BY <1>5 DEF TypeOK, ControlTypes, AbortPipeline, AbortAdapters, AbortRecorder, Goto,
       Excepting, gateway
  <2> QED
    BY <1>1, <1>5, <2>1 DEF Live, Excepting, OpenStates
<1>6. CASE ~(OpenReady(t) /\ state' = "camera_on") /\ ~RestoreDetector(t)
           /\ pc[t] \notin Excepting
  <2>1. state = "opening" \/ pc[t] = "open_restore"
    BY <1>0, <1>6 DEF Stage, Making
  <2>2. state' \in {"opening", "idle"} /\ pc'[t] # "open_restore"
    BY <1>6, <2>1 DEF TypeOK, ControlTypes, Goto, Maker, CreateAdapters, InitCamera,
       ComposeServices, StartPipeline, OpenReady, AbortPipeline, AbortAdapters,
       AbortRecorder, AbortIdle, ExceptReset, CanSet, gateway, Excepting
  <2> QED
    BY <1>1, <2>2 DEF Live, OpenStates
<1>7. pc[t] \in Excepting /\ ~ExceptReset(t) /\ ~RestoreDetector(t) =>
        AbortPipeline(t) \/ AbortAdapters(t) \/ AbortRecorder(t) \/ OpenReady(t)
  BY DEF Maker, Excepting, CreateAdapters, InitCamera, ComposeServices,
     StartPipeline, AbortIdle
<1>8. OpenReady(t) => pc[t] \notin Excepting
  BY DEF OpenReady, Excepting
<1> QED
  BY <1>2, <1>3, <1>4, <1>5, <1>6, <1>7, <1>8

LEMMA CloseKeepsLive ==
  ASSUME TypeOK, Live, NEW t \in Threads, CloseStep(t)
  PROVE  Live'
<1>1. /\ UNCHANGED <<camera, services, pipeline, camOpen, running>>
      /\ state' \in {state, "closing"}
      /\ pc[t] \notin Making /\ pc'[t] \notin Making
      /\ \A u \in Threads \ {t} : pc'[u] = pc[u]
  BY ReturnsDoNotMake
  DEF TypeOK, ControlTypes, CloseStep, CloseEnter, CloseClear, CloseSpawn, Return, Goto,
      Making, Starting, Aborting, Excepting, gateway, refs, objects
<1>2. /\ Undoing' <=> Undoing
      /\ \A u \in Threads : pc'[u] = "open_restore" => pc[u] = "open_restore"
  BY <1>1 DEF Undoing, Making
<1> QED
  BY <1>1, <1>2 DEF Live, Up, OpenStates

LEMMA WorkerKeepsLive ==
  ASSUME Lone, Live, NEW w \in Workers, WorkerStep(w)
  PROVE  Live'
<1>1. pc' = pc
  BY DEF WorkerStep, WorkerRecorder, WorkerPipeline, WorkerReleasePipeline,
     WorkerReleaseAdapters, WorkerReleaseRecorder, WorkerSetIdle, WorkerSetDone, control
<1>2. CASE TearingDown(w)
  <2>1. state = "closing" /\ state' \in {"closing", "idle"}
    BY <1>2 DEF Lone, WorkerStep, WorkerRecorder, WorkerPipeline,
       WorkerReleasePipeline, WorkerReleaseAdapters, WorkerReleaseRecorder,
       WorkerSetIdle, WorkerSetDone, gateway
  <2> QED
    BY <1>1, <2>1 DEF Live, OpenStates, Undoing
<1>3. CASE ~TearingDown(w)
  <2>1. UNCHANGED <<state, camera, services, pipeline, camOpen, running>>
    BY <1>3 DEF TearingDown, WorkerStep, WorkerRecorder, WorkerPipeline,
       WorkerReleasePipeline, WorkerReleaseAdapters, WorkerReleaseRecorder,
       WorkerSetIdle, WorkerSetDone, WorkerGoto, gateway, refs, objects
  <2> QED
    BY <1>1, <2>1 DEF Live, Up, Undoing
<1> QED
  BY <1>2, <1>3

(* The second invariant, for every behaviour in which no toggle overlaps   *)
(* an open_camera.                                                         *)
LEMMA LiveIsInvariant == Spec /\ []CalmOpens => []Live
<1>1. Init => Live
  BY DEF Init, Live, OpenStates, Undoing, Excepting
<1>2. TypeOK /\ Lone /\ Held /\ Live /\ CalmOpens /\ CalmOpens' /\ [Next]_vars => Live'
  <2> SUFFICES ASSUME TypeOK, Lone, Held, Live, CalmOpens, CalmOpens', [Next]_vars
               PROVE  Live'
    OBVIOUS
  <2>0. SerialOpens /\ SerialOpens'
    BY DEF CalmOpens, SerialOpens
  <2>1. CASE \E t \in Threads, c \in CallNames, d \in Devices \cup {NoDevice} : Call(t, c, d)
    BY <2>1, CallIsAside, AsideKeepsLive
  <2>2. ASSUME NEW t \in Threads, OpenStep(t) PROVE Live'
    <3>1. Asking(t) \/ Maker(t) \/ (OpenClaim(t) /\ CanSet("opening"))
      BY <2>2 DEF OpenStep, Asking, Maker
    <3> QED
      BY <2>0, <3>1, AskingIsAside, AsideKeepsLive, MakerKeepsLive, ClaimKeepsLive
  <2>3. ASSUME NEW t \in Threads, ThreadStep(t) PROVE Live'
    BY <2>2, <2>3, CloseKeepsLive, WaitIsAside, DetectIsAside, RecordIsAside,
       AsideKeepsLive DEF ThreadStep
  <2>4. CASE \E w \in Workers : WorkerStep(w)
    BY <2>4, WorkerKeepsLive
  <2>5. CASE UNCHANGED vars
    BY <2>5 DEF vars, gateway, refs, objects, control, Live, Up, Undoing
  <2> QED
    BY <2>1, <2>3, <2>4, <2>5 DEF Next
<1> QED
  BY <1>1, <1>2, CalmIsSerial, TypeCorrect, HeldIsInvariant, PTL DEF Spec

(* CAMERA_ON and DETECTING stand for a running pipeline on an open camera, *)
(* however open_camera fails, the reading of the state file included: while*)
(* its handler takes CAMERA_ON back they may not, afterwards they do.      *)
THEOREM OpenIsRunning == Spec /\ []CalmOpens => []OpenMeansRunning
<1>1. Live => OpenMeansRunning
  BY BoundsAssumption DEF Live, OpenMeansRunning, Up, Sessions, None
<1> QED
  BY <1>1, LiveIsInvariant, PTL

-----------------------------------------------------------------------------
(* The gateway implements CameraLifecycle. *)

(* A step that changes neither the state, nor what is held, nor whether    *)
(* open_camera is being undone.                                            *)
LEMMA StutterImplements ==
  ASSUME UNCHANGED <<state, camOpen, running>>, Undoing' <=> Undoing
  PROVE  UNCHANGED Lifecycle!vars
BY DEF Lifecycle!vars

LEMMA AsideImplements ==
  ASSUME Live, CalmOpens', NEW t \in Threads, Aside(t)
  PROVE  [Lifecycle!Next]_Lifecycle!vars
<1>1. Undoing' <=> Undoing
  BY DEF Aside, Undoing, Making
<1>2. CASE state' = state
  BY <1>1, <1>2, StutterImplements DEF Aside
<1>3. CASE state' # state
  <2>1. ~Undoing /\ ~Undoing'
    BY <1>1, <1>3 DEF Aside, CalmOpens, Undoing, Making
  <2> QED
    BY <1>3, <2>1 DEF Aside, OpenStates, Lifecycle!Next, Lifecycle!vars,
       Lifecycle!Detect, Lifecycle!Pause, Lifecycle!Move
<1> QED
  BY <1>2, <1>3

LEMMA MakerImplements ==
  ASSUME TypeOK, Held, Live, SerialOpens, NEW t \in Threads, Maker(t)
  PROVE  [Lifecycle!Next]_Lifecycle!vars
<1>0. Stage(t) /\ NothingLeaks /\ (state = "idle" => Empty)
  BY DEF Held
<1>1. /\ Undoing <=> pc[t] \in Excepting
      /\ Undoing' <=> pc'[t] \in Excepting
  <2>1. pc[t] \in Making /\ Undisturbed(t)
    BY MakerIsUndisturbed
  <2>2. \A u \in Threads \ {t} : pc'[u] = pc[u] /\ pc[u] \notin Making
    BY <2>1 DEF Undisturbed, Alone
  <2> QED
    BY <2>2 DEF Undoing, Making
<1>2. /\ pc[t] = "open_restore" => state \in {"camera_on", "closing", "idle"}
      /\ pc[t] \in Excepting => state # "detecting"
      /\ state \in States
  BY <1>1 DEF Live, TypeOK, GatewayTypes
<1> USE DEF TypeOK, ControlTypes, ReferenceTypes, ObjectTypes, SessionOrNone, States,
        Goto, Stage, NothingLeaks, Empty, PipelineGone, NoneHeld,
        NoneRunning, Making, Starting, Aborting, Excepting,
        Sessions, None, gateway, refs, objects, closing, locals,
        Lifecycle!Next, Lifecycle!vars, Lifecycle!Move
<1> USE BoundsAssumption
<1>3. CASE CreateAdapters(t)
  BY <1>0, <1>1, <1>3 DEF CreateAdapters
<1>4. CASE InitCamera(t)
  BY <1>0, <1>1, <1>4 DEF InitCamera, Lifecycle!Acquire
<1>5. CASE ComposeServices(t)
  BY <1>0, <1>1, <1>5 DEF ComposeServices
<1>6. CASE StartPipeline(t)
  BY <1>0, <1>1, <1>6 DEF StartPipeline, Lifecycle!Acquire
<1>7. CASE OpenReady(t)
  BY <1>0, <1>1, <1>7 DEF OpenReady, Lifecycle!Ready
<1>8. CASE RestoreDetector(t)
  BY <1>1, <1>2, <1>8 DEF RestoreDetector, OpenReturn, Lifecycle!Undo
<1>9. CASE AbortPipeline(t)
  BY <1>0, <1>1, <1>2, <1>9 DEF AbortPipeline, ReleasePipeline, Lifecycle!Free
<1>10. CASE AbortAdapters(t)
  BY <1>0, <1>1, <1>2, <1>10 DEF AbortAdapters, ReleaseCamera, Lifecycle!Free
<1>11. CASE AbortRecorder(t)
  BY <1>0, <1>1, <1>2, <1>11 DEF AbortRecorder
<1>12. CASE AbortIdle(t)
  BY <1>0, <1>1, <1>12 DEF AbortIdle, CanSet, AllowedTransitions, Lifecycle!GiveUp
<1>13. CASE ExceptReset(t)
  BY <1>0, <1>1, <1>2, <1>13 DEF ExceptReset, Lifecycle!GiveUp, Lifecycle!Undone
<1> QED
  BY <1>3, <1>4, <1>5, <1>6, <1>7, <1>8, <1>9, <1>10, <1>11, <1>12, <1>13 DEF Maker

LEMMA ClaimImplements ==
  ASSUME TypeOK, NEW t \in Threads, OpenClaim(t), CanSet("opening")
  PROVE  [Lifecycle!Next]_Lifecycle!vars
BY DEF OpenClaim, CanSet, AllowedTransitions, objects, Lifecycle!Next,
       Lifecycle!vars, Lifecycle!BeginOpen, Lifecycle!Move

LEMMA CloseImplements ==
  ASSUME TypeOK, NEW t \in Threads, CloseStep(t)
  PROVE  [Lifecycle!Next]_Lifecycle!vars
<1>1. Undoing' <=> Undoing
  <2>1. /\ pc[t] \notin Making /\ pc'[t] \notin Making
        /\ \A u \in Threads \ {t} : pc'[u] = pc[u]
    BY ReturnsDoNotMake
    DEF TypeOK, ControlTypes, CloseStep, CloseEnter, CloseClear, CloseSpawn, Return,
        Goto, Making, Starting, Aborting, Excepting
  <2> QED
    BY <2>1 DEF Undoing, Making
<1> QED
  BY <1>1 DEF CloseStep, CloseEnter, CloseClear, CloseSpawn, CanSet, gateway,
     AllowedTransitions, objects, Lifecycle!Next, Lifecycle!vars,
     Lifecycle!BeginClose, Lifecycle!Move

LEMMA WorkerImplements ==
  ASSUME TypeOK, Lone, Held, NEW w \in Workers, WorkerStep(w)
  PROVE  [Lifecycle!Next]_Lifecycle!vars
<1>0. Freeing(w) /\ NothingLeaks /\ (TearingDown(w) => state = "closing")
  BY DEF Lone, Held
<1>1. Undoing' <=> Undoing
  BY DEF Undoing, WorkerStep, WorkerRecorder, WorkerPipeline, WorkerReleasePipeline,
     WorkerReleaseAdapters, WorkerReleaseRecorder, WorkerSetIdle, WorkerSetDone, control
<1> USE DEF TypeOK, ReferenceTypes, ObjectTypes, SessionOrNone, WorkerGoto,
        TearingDown, Freeing, NothingLeaks, Empty, PipelineGone, NoneHeld,
        NoneRunning, Sessions, None, gateway, refs, objects, control, locals,
        Lifecycle!Next, Lifecycle!vars, Lifecycle!Move
<1> USE BoundsAssumption
<1>2. CASE WorkerRecorder(w) \/ WorkerReleaseRecorder(w) \/ WorkerSetDone(w)
  BY <1>1, <1>2, StutterImplements DEF WorkerRecorder, WorkerReleaseRecorder, WorkerSetDone
<1>3. CASE WorkerPipeline(w)
  BY <1>0, <1>1, <1>3 DEF WorkerPipeline, Lifecycle!Free
<1>4. CASE WorkerReleasePipeline(w)
  BY <1>0, <1>1, <1>4 DEF WorkerReleasePipeline, ReleasePipeline, Lifecycle!Free
<1>5. CASE WorkerReleaseAdapters(w)
  BY <1>0, <1>1, <1>5 DEF WorkerReleaseAdapters, ReleaseCamera, Lifecycle!Free
<1>6. CASE WorkerSetIdle(w)
  BY <1>0, <1>1, <1>6 DEF WorkerSetIdle, Lifecycle!Closed
<1> QED
  BY <1>2, <1>3, <1>4, <1>5, <1>6 DEF WorkerStep

(* Besides _ALLOWED_TRANSITIONS the state changes only from CAMERA_ON to   *)
(* IDLE, when open_camera fails after it has set CAMERA_ON, and then all is*)
(* freed first; everything is freed before IDLE on every other path too;   *)
(* and a toggle of the detector touches no resource.                       *)
THEOREM GatewayImplementsLifecycle ==
  Spec /\ []CalmOpens => ImplementsLifecycle
<1>1. Init => Lifecycle!Init
  BY DEF Init, Lifecycle!Init
<1>2. TypeOK /\ Lone /\ Held /\ Live /\ CalmOpens /\ CalmOpens' /\ [Next]_vars
        => [Lifecycle!Next]_Lifecycle!vars
  <2> SUFFICES ASSUME TypeOK, Lone, Held, Live, CalmOpens, CalmOpens', [Next]_vars
               PROVE  [Lifecycle!Next]_Lifecycle!vars
    OBVIOUS
  <2>1. CASE \E t \in Threads, c \in CallNames, d \in Devices \cup {NoDevice} : Call(t, c, d)
    BY <2>1, CallIsAside, AsideImplements
  <2>2. ASSUME NEW t \in Threads, OpenStep(t)
        PROVE  [Lifecycle!Next]_Lifecycle!vars
    <3>1. Asking(t) \/ Maker(t) \/ (OpenClaim(t) /\ CanSet("opening"))
      BY <2>2 DEF OpenStep, Asking, Maker
    <3> QED
      BY <3>1, CalmIsSerial, AskingIsAside, AsideImplements, MakerImplements,
         ClaimImplements
  <2>3. ASSUME NEW t \in Threads, ThreadStep(t)
        PROVE  [Lifecycle!Next]_Lifecycle!vars
    BY <2>2, <2>3, CloseImplements, WaitIsAside, DetectIsAside,
       RecordIsAside, AsideImplements DEF ThreadStep
  <2>4. CASE \E w \in Workers : WorkerStep(w)
    BY <2>4, WorkerImplements
  <2>5. CASE UNCHANGED vars
    <3>1. Undoing' <=> Undoing
      BY <2>5 DEF vars, control, Undoing
    <3> QED
      BY <2>5, <3>1, StutterImplements DEF vars, gateway, objects
  <2> QED
    BY <2>1, <2>3, <2>4, <2>5 DEF Next
<1> QED
  BY <1>1, <1>2, CalmIsSerial, TypeCorrect, HeldIsInvariant, LiveIsInvariant, PTL
  DEF Spec, ImplementsLifecycle, Lifecycle!Spec

-----------------------------------------------------------------------------
(* Lockstep.  On top of the above: a session is fresh until CAMERA_ON, and *)
(* only the thread that toggles moves the flags.                           *)

flags == <<state, paused, snapOn, pipeline, services, opens, sid>>

(* A step that toggles nothing and makes nothing. *)
Bystander(t) ==
  /\ UNCHANGED flags
  /\ pc[t] \notin Making \cup Toggling /\ pc'[t] \notin Making \cup Toggling
  /\ \A u \in Threads \ {t} : pc'[u] = pc[u]

LEMMA ReturnsDoNotToggle == Returns \cap (Making \cup Toggling) = {}
BY DEF Returns, Making, Starting, Aborting, Excepting, Toggling

LEMMA BystanderKeeps ==
  ASSUME InStep, NEW t \in Threads, Bystander(t)
  PROVE  InStep'
<1> USE DEF Bystander, flags
<1>1. Fresh'
  BY DEF InStep, Fresh, Making
<1>2. \A u \in Threads : Halfway(u)'
  BY DEF InStep, Halfway, Toggling
<1>3. DetectorLockstep'
  BY DEF InStep, DetectorLockstep, Making
<1> QED
  BY <1>1, <1>2, <1>3 DEF InStep

LEMMA CallIsBystander ==
  ASSUME TypeOK, NEW t \in Threads, NEW c \in CallNames,
         NEW d \in Devices \cup {NoDevice}, Call(t, c, d)
  PROVE  Bystander(t)
<1>1. Entry[c] \notin Making \cup Toggling
  BY DEF Entry, CallNames, Making, Starting, Aborting, Excepting, Toggling
<1> QED
  BY <1>1 DEF TypeOK, ControlTypes, Call, Goto, Bystander, flags, Making,
     Starting, Aborting, Excepting, Toggling, gateway, refs, objects, closing

LEMMA WaitIsBystander ==
  ASSUME TypeOK, NEW t \in Threads, WaitStep(t)
  PROVE  Bystander(t)
<1> USE ReturnsDoNotToggle
    DEF TypeOK, ControlTypes, Bystander, flags, Making, Starting, Aborting,
        Excepting, Toggling, Goto, gateway, refs, objects, closing, locals
<1>1. CASE WaitCheck(t)
  BY <1>1 DEF WaitCheck, Return
<1>2. CASE WaitTrue(t)
  BY <1>2 DEF WaitTrue, Return
<1>3. CASE WaitTimeout(t)
  BY <1>3 DEF WaitTimeout, Return
<1>4. CASE SelectCheck(t)
  BY <1>4 DEF SelectCheck
<1>5. CASE SelectWait(t)
  BY <1>5 DEF SelectWait
<1>6. CASE StopCheck(t)
  BY <1>6 DEF StopCheck
<1>7. CASE StopWait(t)
  BY <1>7 DEF StopWait
<1>8. CASE StopReturn(t)
  BY <1>8 DEF StopReturn
<1>9. CASE FatalCheck(t)
  BY <1>9 DEF FatalCheck
<1> QED
  BY <1>1, <1>2, <1>3, <1>4, <1>5, <1>6, <1>7, <1>8, <1>9 DEF WaitStep

LEMMA RecordIsBystander ==
  ASSUME TypeOK, NEW t \in Threads, RecordStep(t)
  PROVE  Bystander(t)
BY DEF TypeOK, ControlTypes, Bystander, flags, Making, Starting, Aborting,
       Excepting, Toggling, Goto, gateway, refs, objects, closing, locals,
       RecordStep, RecordCheck, RecordStart, RecordStop

LEMMA AskingIsBystander ==
  ASSUME TypeOK, NEW t \in Threads, Asking(t)
  PROVE  Bystander(t)
<1> USE DEF TypeOK, ControlTypes, Bystander, flags, Making, Starting, Aborting,
        Excepting, Toggling, Goto, OpenReturn, gateway, refs, objects, closing, locals
<1>1. CASE OpenCheck(t)
  BY <1>1 DEF OpenCheck
<1>2. CASE SwitchReopen(t)
  BY <1>2 DEF SwitchReopen
<1>3. CASE RestoreNotifier(t)
  BY <1>3 DEF RestoreNotifier
<1>4. CASE InitializeCheck(t)
  BY <1>4 DEF InitializeCheck
<1>5. CASE OpenClaim(t) /\ ~CanSet("opening")
  BY <1>5 DEF OpenClaim
<1> QED
  BY <1>1, <1>2, <1>3, <1>4, <1>5 DEF Asking

(* A step while t makes a session moves no flag, and leaves the gateway    *)
(* outside CAMERA_ON and DETECTING, or sets CAMERA_ON, or comes after that.*)
LEMMA MakerKeepsInStep ==
  ASSUME TypeOK, Held, Live, InStep, SerialToggles, NEW t \in Threads, Maker(t)
  PROVE  InStep'
<1>0. /\ pc[t] \in Making /\ Stage(t)
      /\ \A u \in Threads \ {t} : pc[u] \notin Making \cup Toggling /\ pc'[u] = pc[u]
  <2>1. SerialOpens
    BY DEF SerialToggles, SerialOpens
  <2>2. pc[t] \in Making /\ Undisturbed(t)
    BY <2>1, MakerIsUndisturbed
  <2> QED
    BY <2>2 DEF Held, SerialToggles, Undisturbed
<1>1. /\ pc'[t] \notin Toggling
      /\ UNCHANGED <<opens, snapOn, sid>>
      /\ pc'[t] \in Starting => pc[t] \in Starting
  BY <1>0 DEF TypeOK, ControlTypes, Goto, Maker, CreateAdapters, InitCamera,
     ComposeServices, StartPipeline, OpenReady, RestoreDetector, OpenReturn,
     AbortPipeline, AbortAdapters, AbortRecorder, AbortIdle, ExceptReset, gateway,
     objects, locals, Toggling, Starting
<1>2. Fresh'
  <2>1. services' \in {services, None} \/ (services' = sid[t] /\ pc[t] \in Starting)
    BY DEF Maker, CreateAdapters, InitCamera, ComposeServices, StartPipeline,
       OpenReady, RestoreDetector, AbortPipeline, AbortAdapters, AbortRecorder,
       AbortIdle, ExceptReset, ReleaseRecorder, refs, Starting
  <2> QED
    BY <1>0, <1>1, <2>1
    DEF TypeOK, GatewayTypes, InStep, Fresh, Making, None
<1>3. \A u \in Threads : Halfway(u)'
  BY <1>0, <1>1 DEF Halfway, Toggling
<1>4. DetectorLockstep'
  <2>1. CASE OpenReady(t)
    <3>1. services' = sid[t] /\ ~snapOn'[services'] /\ state' # "detecting"
      BY <1>0, <2>1 DEF OpenReady, Stage, InStep, Fresh, Starting, refs, objects
    <3> QED
      BY <3>1 DEF DetectorLockstep
  <2>2. CASE RestoreDetector(t)
    <3>1. pc[t] \notin Toggling \cup Excepting
      BY <2>2 DEF RestoreDetector, Toggling, Excepting
    <3>2. \A u \in Threads : pc[u] \notin Toggling \cup Excepting
      BY <1>0, <3>1 DEF Making
    <3> QED
      BY <2>2, <3>2 DEF InStep, DetectorLockstep, RestoreDetector, gateway, refs, objects
  <2>3. CASE pc'[t] \in Excepting
    BY <2>3 DEF DetectorLockstep
  <2>4. CASE pc'[t] \notin Excepting /\ ~OpenReady(t) /\ ~RestoreDetector(t)
    <3>1. pc[t] \in Excepting => ExceptReset(t)
      BY <2>4 DEF TypeOK, ControlTypes, Maker, Goto, CreateAdapters, InitCamera,
         ComposeServices, StartPipeline, AbortPipeline, AbortAdapters,
         AbortRecorder, AbortIdle, Excepting
    <3>2. state' \notin OpenStates
      <4>1. CASE ExceptReset(t)
        <5>1. Undoing
          BY <4>1 DEF ExceptReset, Undoing, Excepting
        <5> QED
          BY <4>1, <5>1 DEF ExceptReset, Live, OpenStates
      <4>2. CASE ~ExceptReset(t)
        <5>1. state = "opening"
          BY <1>0, <2>4, <3>1, <4>2 DEF Stage, Making, Maker, CreateAdapters,
             InitCamera, ComposeServices, StartPipeline, AbortPipeline,
             AbortAdapters, AbortRecorder, AbortIdle
        <5> QED
          BY <2>4, <4>2, <5>1 DEF Maker, CreateAdapters, InitCamera,
             ComposeServices, StartPipeline, AbortPipeline, AbortAdapters,
             AbortRecorder, AbortIdle, gateway, OpenStates
      <4> QED
        BY <4>1, <4>2
    <3> QED
      BY <3>2 DEF DetectorLockstep, OpenStates
  <2> QED
    BY <2>1, <2>2, <2>3, <2>4
<1> QED
  BY <1>2, <1>3, <1>4 DEF InStep

LEMMA ClaimKeepsInStep ==
  ASSUME TypeOK, InStep, SerialToggles', NEW t \in Threads, OpenClaim(t),
         CanSet("opening")
  PROVE  InStep'
<1>1. /\ state' = "opening" /\ pc' = [pc EXCEPT ![t] = "open_create"]
      /\ opens' = opens + 1 /\ opens \in Nat /\ opens + 1 \in Sessions
      /\ sid' = [sid EXCEPT ![t] = opens + 1] /\ snapOn' = snapOn
      /\ services' = services /\ services \in Int
  BY BoundsAssumption DEF TypeOK, GatewayTypes, ReferenceTypes, SessionOrNone,
     OpenClaim, Goto, objects, refs, Sessions, None
<1>2. \A u \in Threads \ {t} : pc'[u] = pc[u] /\ pc'[u] \notin Making \cup Toggling
  BY <1>1 DEF TypeOK, ControlTypes, SerialToggles, Making, Starting
<1>3. pc'[t] = "open_create" /\ sid'[t] = opens + 1
  BY <1>1 DEF TypeOK, ControlTypes, LocalTypes
<1>4. Fresh'
  <2>1. /\ \A s \in Sessions : s > opens' => ~snapOn'[s]
        /\ services' <= opens'
    BY <1>1 DEF InStep, Fresh, Sessions
  <2>2. ~snapOn'[sid'[t]] /\ sid'[t] <= opens'
    BY <1>1, <1>3 DEF InStep, Fresh
  <2>3. \A u \in Threads \ {t} : pc'[u] \notin Starting
    BY <1>2 DEF Making
  <2> QED
    BY <2>1, <2>2, <2>3 DEF Fresh
<1>5. \A u \in Threads : Halfway(u)'
  BY <1>2, <1>3 DEF Halfway, Toggling
<1> QED
  BY <1>1, <1>4, <1>5 DEF InStep, DetectorLockstep

LEMMA CloseKeepsInStep ==
  ASSUME TypeOK, InStep, NEW t \in Threads, CloseStep(t)
  PROVE  InStep'
<1>1. /\ state' = state \/ state' = "closing"
      /\ UNCHANGED <<paused, snapOn, pipeline, services, opens, sid>>
      /\ pc[t] \notin Making \cup Toggling /\ pc'[t] \notin Making \cup Toggling
      /\ \A u \in Threads \ {t} : pc'[u] = pc[u]
  BY ReturnsDoNotToggle
  DEF TypeOK, ControlTypes, CloseStep, CloseEnter, CloseClear, CloseSpawn, Return,
      Goto, Making, Starting, Aborting, Excepting, Toggling, gateway, refs, objects,
      locals
<1>2. CASE state' = state
  BY <1>1, <1>2, BystanderKeeps DEF Bystander, flags
<1>3. CASE state' = "closing"
  <2>1. Fresh'
    BY <1>1 DEF InStep, Fresh, Making
  <2>2. \A u \in Threads : Halfway(u)'
    BY <1>1, <1>3 DEF Halfway, Toggling
  <2> QED
    BY <1>3, <2>1, <2>2 DEF InStep, DetectorLockstep
<1> QED
  BY <1>1, <1>2, <1>3

LEMMA WorkerKeepsInStep ==
  ASSUME TypeOK, Lone, InStep, NEW w \in Workers, WorkerStep(w)
  PROVE  InStep'
<1>1. pc' = pc /\ UNCHANGED <<paused, snapOn, opens, sid>>
  BY DEF WorkerStep, WorkerRecorder, WorkerPipeline, WorkerReleasePipeline,
     WorkerReleaseAdapters, WorkerReleaseRecorder, WorkerSetIdle, WorkerSetDone,
     gateway, objects, control, locals
<1>2. Fresh'
  <2>1. services' \in {services, None}
    BY DEF WorkerStep, WorkerRecorder, WorkerPipeline, WorkerReleasePipeline,
       WorkerReleaseAdapters, WorkerReleaseRecorder, WorkerSetIdle,
       WorkerSetDone, ReleaseRecorder, refs
  <2> QED
    BY <1>1, <2>1 DEF TypeOK, GatewayTypes, InStep, Fresh, None
<1>3. CASE TearingDown(w)
  <2>1. state = "closing" /\ state' \in {"closing", "idle"}
    BY <1>3 DEF Lone, WorkerStep, WorkerRecorder, WorkerPipeline,
       WorkerReleasePipeline, WorkerReleaseAdapters, WorkerReleaseRecorder,
       WorkerSetIdle, WorkerSetDone, gateway
  <2>2. \A u \in Threads : Halfway(u)'
    BY <1>1, <2>1 DEF InStep, Halfway
  <2> QED
    BY <1>2, <2>1, <2>2 DEF InStep, DetectorLockstep
<1>4. CASE ~TearingDown(w)
  <2>1. UNCHANGED <<state, pipeline, services>>
    BY <1>4 DEF TearingDown, WorkerStep, WorkerRecorder, WorkerPipeline,
       WorkerReleasePipeline, WorkerReleaseAdapters, WorkerReleaseRecorder,
       WorkerSetIdle, WorkerSetDone, WorkerGoto, gateway, refs
  <2>2. \A u \in Threads : Halfway(u)'
    BY <1>1, <2>1 DEF InStep, Halfway
  <2>3. DetectorLockstep'
    BY <1>1, <2>1 DEF InStep, DetectorLockstep
  <2> QED
    BY <1>2, <2>2, <2>3 DEF InStep
<1> QED
  BY <1>3, <1>4

LEMMA DetectKeepsInStep ==
  ASSUME TypeOK, Live, InStep, SerialToggles, SerialToggles',
         NEW t \in Threads, DetectStep(t)
  PROVE  InStep'
<1>1. /\ UNCHANGED <<opens, sid, pipeline, services>> /\ pc[t] \notin Making
      /\ pc'[t] \notin Making /\ \A u \in Threads \ {t} : pc'[u] = pc[u]
  BY ReturnsDoNotToggle
  DEF TypeOK, ControlTypes, DetectStep, DetectClaim, PauseClaim, DetectResume,
      PausePipeline, DetectSnapshot, PauseSnapshot, TogglePipeline,
      ToggleSnapshots, Return, Goto, Making, Starting, Aborting, Excepting,
      Toggling, gateway, refs, locals
<1>2. state \in OpenStates /\ pc[t] \in Toggling =>
        /\ pipeline \in Sessions /\ pipeline # None
        /\ services \in Sessions /\ services # None
  <2>1. pc[t] \in Toggling => ~Undoing
    BY DEF SerialToggles, Undoing, Making, Toggling, Excepting
  <2> QED
    BY <2>1, BoundsAssumption DEF Live, Up, Sessions, None
<1>3. /\ \A u \in Threads \ {t} : pc[t] \in Toggling => pc[u] \notin Making \cup Toggling
      /\ \A u \in Threads \ {t} : pc'[t] \in Toggling => pc'[u] \notin Making \cup Toggling
  BY DEF SerialToggles
<1>4. InStep /\ Halfway(t) /\ Fresh /\ DetectorLockstep
  BY DEF InStep
<1>5. CASE DetectClaim(t) /\ state' = "detecting" /\ pc'[t] = "detect_resume"
  <2>1. Fresh'
    BY <1>1, <1>4, <1>5 DEF DetectClaim, objects, Fresh, Making
  <2>2. \A u \in Threads : Halfway(u)'
    BY <1>1, <1>3, <1>5 DEF Halfway, Toggling
  <2>3. DetectorLockstep'
    BY <1>5 DEF DetectorLockstep, Toggling
  <2> QED
    BY <2>1, <2>2, <2>3 DEF InStep
<1>6. CASE PauseClaim(t) /\ state' = "camera_on" /\ pc'[t] = "pause_pipeline"
  <2>1. Fresh'
    BY <1>1, <1>4, <1>6 DEF PauseClaim, objects, Fresh, Making
  <2>2. \A u \in Threads : Halfway(u)'
    BY <1>1, <1>3, <1>6 DEF Halfway, Toggling
  <2>3. DetectorLockstep'
    BY <1>6 DEF DetectorLockstep, Toggling
  <2> QED
    BY <2>1, <2>2, <2>3 DEF InStep
<1>7. CASE (DetectClaim(t) \/ PauseClaim(t)) /\ pc'[t] = ret[t] /\ state' = state
  BY <1>1, <1>7, ReturnsDoNotToggle, BystanderKeeps
  DEF TypeOK, ControlTypes, DetectClaim, PauseClaim, Bystander, flags, objects, Toggling
<1>8. CASE DetectResume(t) \/ PausePipeline(t)
  <2>1. /\ pc[t] \in Toggling /\ pc'[t] \in Toggling
        /\ UNCHANGED <<state, snapOn>>
    BY <1>8 DEF TypeOK, ControlTypes, DetectResume, PausePipeline, TogglePipeline, Goto,
       Toggling, gateway
  <2>2. Fresh'
    BY <1>1, <1>4, <2>1 DEF Fresh, Making
  <2>3. Halfway(t)'
    <3>1. CASE DetectResume(t)
      <4>1. /\ pc[t] = "detect_resume" /\ pc'[t] = "detect_snapshot"
            /\ paused' = IF pipeline = None THEN paused
                         ELSE [paused EXCEPT ![pipeline] = FALSE]
        BY <3>1 DEF TypeOK, ControlTypes, DetectResume, TogglePipeline, Goto
      <4>2. state = "detecting" => ~paused'[pipeline]
        BY <1>2, <2>1, <4>1 DEF TypeOK, ObjectTypes, OpenStates
      <4> QED
        BY <1>1, <1>4, <2>1, <4>1, <4>2 DEF Halfway
    <3>2. CASE PausePipeline(t)
      BY <1>4, <2>1, <3>2
      DEF TypeOK, ControlTypes, PausePipeline, TogglePipeline, Goto, Halfway
    <3> QED
      BY <1>8, <3>1, <3>2
  <2>4. \A u \in Threads \ {t} : Halfway(u)'
    BY <1>3, <2>1, <1>1 DEF Halfway, Toggling
  <2> QED
    BY <2>1, <2>2, <2>3, <2>4 DEF InStep, DetectorLockstep
<1>9. CASE DetectSnapshot(t) \/ PauseSnapshot(t)
  <2>1. /\ pc[t] \in {"detect_snapshot", "pause_snapshot"}
        /\ pc'[t] \notin Making \cup Toggling /\ UNCHANGED <<state, paused>>
        /\ snapOn' = IF services = None THEN snapOn
                     ELSE [snapOn EXCEPT ![services] = (pc[t] = "detect_snapshot")]
    BY <1>9, ReturnsDoNotToggle
    DEF TypeOK, ControlTypes, DetectSnapshot, PauseSnapshot, ToggleSnapshots,
        Return, Goto, gateway
  <2>2. \A u \in Threads : pc'[u] \notin Making \cup Toggling
    BY <1>1, <1>3, <2>1 DEF Toggling
  <2>3. Fresh'
    BY <1>1, <1>4, <2>1, <2>2
    DEF TypeOK, ObjectTypes, GatewayTypes, ReferenceTypes, SessionOrNone, Fresh,
        Making, Sessions, None
  <2>4. \A u \in Threads : Halfway(u)'
    BY <2>2 DEF Halfway, Toggling
  <2>5. DetectorLockstep'
    <3>1. state \in OpenStates => snapOn'[services] = (pc[t] = "detect_snapshot")
      BY <1>2, <2>1 DEF TypeOK, ObjectTypes, Toggling
    <3>2. /\ state = "detecting" => pc[t] = "detect_snapshot" /\ ~paused[pipeline]
          /\ state = "camera_on" => pc[t] = "pause_snapshot"
      BY <1>4, <2>1 DEF Halfway
    <3> QED
      BY <1>1, <2>1, <3>1, <3>2 DEF DetectorLockstep, OpenStates
  <2> QED
    BY <2>3, <2>4, <2>5 DEF InStep
<1> QED
  <2>1. /\ DetectClaim(t) => <1>5!1 \/ <1>7!1
        /\ PauseClaim(t) => <1>6!1 \/ <1>7!1
    BY DEF TypeOK, ControlTypes, DetectClaim, PauseClaim, Goto, Return
  <2> QED
    BY <1>5, <1>6, <1>7, <1>8, <1>9, <2>1 DEF DetectStep

(* The flags, for every behaviour in which toggles overlap nothing. *)
LEMMA InStepIsInvariant == Spec /\ []SerialToggles => []InStep
<1>1. Init => InStep
  BY BoundsAssumption
  DEF Init, InStep, Fresh, Halfway, DetectorLockstep, Starting, None
<1>2. TypeOK /\ Lone /\ Held /\ Live /\ InStep /\ SerialToggles /\ SerialToggles'
        /\ [Next]_vars => InStep'
  <2> SUFFICES ASSUME TypeOK, Lone, Held, Live, InStep, SerialToggles,
                      SerialToggles', [Next]_vars
               PROVE  InStep'
    OBVIOUS
  <2>1. CASE \E t \in Threads, c \in CallNames, d \in Devices \cup {NoDevice} : Call(t, c, d)
    BY <2>1, CallIsBystander, BystanderKeeps
  <2>2. ASSUME NEW t \in Threads, OpenStep(t) PROVE InStep'
    <3>1. Asking(t) \/ Maker(t) \/ (OpenClaim(t) /\ CanSet("opening"))
      BY <2>2 DEF OpenStep, Asking, Maker
    <3> QED
      BY <3>1, AskingIsBystander, BystanderKeeps, MakerKeepsInStep, ClaimKeepsInStep
  <2>3. ASSUME NEW t \in Threads, ThreadStep(t) PROVE InStep'
    BY <2>2, <2>3, CloseKeepsInStep, DetectKeepsInStep, WaitIsBystander,
       RecordIsBystander, BystanderKeeps DEF ThreadStep
  <2>4. CASE \E w \in Workers : WorkerStep(w)
    BY <2>4, WorkerKeepsInStep
  <2>5. CASE UNCHANGED vars
    <3> USE <2>5 DEF vars, gateway, refs, objects, control, locals
    <3>1. Fresh'
      BY DEF InStep, Fresh
    <3>2. \A u \in Threads : Halfway(u)'
      BY DEF InStep, Halfway
    <3>3. DetectorLockstep'
      BY DEF InStep, DetectorLockstep
    <3> QED
      BY <3>1, <3>2, <3>3 DEF InStep
  <2> QED
    BY <2>1, <2>3, <2>4, <2>5 DEF Next
<1>3. SerialToggles => CalmOpens
  BY DEF SerialToggles, CalmOpens
<1> QED
  BY <1>1, <1>2, <1>3, CalmIsSerial, TypeCorrect, HeldIsInvariant, LiveIsInvariant, PTL
  DEF Spec

(* When no start_detection or stop_detection is halfway and no failed      *)
(* open_camera is being undone, the snapshot service is on exactly while   *)
(* the detector is, and a detector that is on is not paused.               *)
THEOREM DetectorInStep == Spec /\ []SerialToggles => []DetectorLockstep
<1>1. InStep => DetectorLockstep
  BY DEF InStep
<1> QED
  BY <1>1, InStepIsInvariant, PTL

-----------------------------------------------------------------------------
(* Where the hypotheses come from: an application in which only one thread *)
(* opens cameras (and toggles the detector) overlaps none of these calls,  *)
(* whatever its other threads close, record, wait for or report.           *)

(* Only one thread may open cameras. *)
OneOpener ==
  \E o \in Threads : \A t \in Threads \ {o} : Calls[t] \cap Opening = {}

(* Only one thread may open cameras and toggle the detector. *)
OneOperator ==
  \E o \in Threads : \A t \in Threads \ {o} :
    Calls[t] \cap (Opening \cup {"start", "stop_detection"}) = {}

(* Where a thread that never opens can be. *)
NeverOpens(t) == /\ pc[t] \notin OpenPoints \cup {"select_check", "select_wait"}
                 /\ ret[t] \in {"ready", "stop_wait", "stop_end", "fatal_check"}

(* ... and one that never toggles. *)
NeverToggles(t) == pc[t] \notin Toggling \cup {"detect_claim", "pause_claim"}

LEMMA OthersStay ==
  ASSUME TypeOK, NEW t \in Threads, ThreadStep(t), NEW u \in Threads, u # t
  PROVE  pc'[u] = pc[u] /\ ret'[u] = ret[u]
<1> USE DEF TypeOK, ControlTypes, Goto, Return, control
<1>1. CASE OpenStep(t)
  BY <1>1 DEF OpenStep, OpenCheck, SwitchReopen, OpenClaim, CreateAdapters,
     InitCamera, ComposeServices, StartPipeline, OpenReady, RestoreDetector,
     RestoreNotifier, InitializeCheck, AbortPipeline, AbortAdapters,
     AbortRecorder, AbortIdle, ExceptReset
<1>2. CASE CloseStep(t)
  BY <1>2 DEF CloseStep, CloseEnter, CloseClear, CloseSpawn
<1>3. CASE WaitStep(t)
  BY <1>3 DEF WaitStep, WaitCheck, WaitTrue, WaitTimeout, SelectCheck,
     SelectWait, StopCheck, StopWait, StopReturn, FatalCheck
<1>4. CASE DetectStep(t)
  BY <1>4 DEF DetectStep, DetectClaim, PauseClaim, DetectResume, PausePipeline,
     DetectSnapshot, PauseSnapshot, TogglePipeline, ToggleSnapshots
<1>5. CASE RecordStep(t)
  BY <1>5 DEF RecordStep, RecordCheck, RecordStart, RecordStop
<1> QED
  BY <1>1, <1>2, <1>3, <1>4, <1>5 DEF ThreadStep

LEMMA NeverOpensStays ==
  ASSUME TypeOK, NEW t \in Threads, NeverOpens(t), ThreadStep(t)
  PROVE  /\ NeverOpens(t)'
         /\ NeverToggles(t) => NeverToggles(t)'
<1> USE DEF TypeOK, ControlTypes, Goto, Return, NeverOpens, NeverToggles, OpenPoints,
        Toggling
<1>1. CASE OpenStep(t)
  BY <1>1 DEF OpenStep, OpenCheck, SwitchReopen, OpenClaim, CreateAdapters,
     InitCamera, ComposeServices, StartPipeline, OpenReady, RestoreDetector,
     RestoreNotifier, InitializeCheck, AbortPipeline, AbortAdapters,
     AbortRecorder, AbortIdle, ExceptReset
<1>2. CASE CloseStep(t)
  BY <1>2 DEF CloseStep, CloseEnter, CloseClear, CloseSpawn
<1>3. CASE WaitStep(t)
  BY <1>3 DEF WaitStep, WaitCheck, WaitTrue, WaitTimeout, SelectCheck,
     SelectWait, StopCheck, StopWait, StopReturn, FatalCheck
<1>4. CASE DetectStep(t)
  BY <1>4 DEF DetectStep, DetectClaim, PauseClaim, DetectResume, PausePipeline,
     DetectSnapshot, PauseSnapshot, TogglePipeline, ToggleSnapshots
<1>5. CASE RecordStep(t)
  BY <1>5 DEF RecordStep, RecordCheck, RecordStart, RecordStop
<1> QED
  BY <1>1, <1>2, <1>3, <1>4, <1>5 DEF ThreadStep

LEMMA NeverOpensIsKept ==
  ASSUME NEW t \in Threads, Calls[t] \cap Opening = {}, TypeOK, NeverOpens(t),
         [Next]_vars
  PROVE  /\ NeverOpens(t)'
         /\ Calls[t] \cap {"start", "stop_detection"} = {} /\ NeverToggles(t)
              => NeverToggles(t)'
<1>1. ASSUME NEW u \in Threads, NEW c \in CallNames,
             NEW d \in Devices \cup {NoDevice}, Call(u, c, d), u # t
      PROVE  pc'[t] = pc[t] /\ ret'[t] = ret[t]
  BY <1>1 DEF TypeOK, ControlTypes, Call, Goto
<1>2. ASSUME NEW c \in CallNames, NEW d \in Devices \cup {NoDevice}, Call(t, c, d)
      PROVE  /\ NeverOpens(t)'
             /\ Calls[t] \cap {"start", "stop_detection"} = {} => NeverToggles(t)'
  BY <1>2 DEF TypeOK, ControlTypes, Call, MayCall, Goto, Entry, CallNames,
     Opening, NeverOpens, NeverToggles, OpenPoints, Toggling
<1>3. CASE \E u \in Threads, c \in CallNames, d \in Devices \cup {NoDevice} : Call(u, c, d)
  BY <1>1, <1>2, <1>3 DEF NeverOpens, NeverToggles
<1>4. CASE \E u \in Threads : ThreadStep(u)
  BY <1>4, OthersStay, NeverOpensStays DEF NeverOpens, NeverToggles
<1>5. CASE \E w \in Workers : WorkerStep(w)
  BY <1>5 DEF WorkerStep, WorkerRecorder, WorkerPipeline,
     WorkerReleasePipeline, WorkerReleaseAdapters, WorkerReleaseRecorder,
     WorkerSetIdle, WorkerSetDone, control, NeverOpens, NeverToggles
<1>6. CASE UNCHANGED vars
  BY <1>6 DEF vars, control, NeverOpens, NeverToggles
<1> QED
  BY <1>3, <1>4, <1>5, <1>6 DEF Next

LEMMA NeverOpensInitially ==
  ASSUME Init, NEW t \in Threads
  PROVE  NeverOpens(t) /\ NeverToggles(t)
BY DEF Init, NeverOpens, NeverToggles, OpenPoints, Toggling

LEMMA NeverOpensNeverMakes ==
  ASSUME NEW t \in Threads, NeverOpens(t)
  PROVE  pc[t] \notin Making
BY DEF NeverOpens, OpenPoints, Making, Starting, Aborting, Excepting

(* With one opening thread no two open_camera calls overlap, so that the   *)
(* theorems above are about every behaviour of such an application.        *)
THEOREM OneOpenerIsSerial ==
  ASSUME OneOpener
  PROVE  Spec => []SerialOpens
<1>1. PICK o \in Threads : \A t \in Threads \ {o} : Calls[t] \cap Opening = {}
  BY DEF OneOpener
<1> DEFINE Others == \A t \in Threads \ {o} : NeverOpens(t)
<1>2. Init => Others
  BY NeverOpensInitially
<1>3. TypeOK /\ Others /\ [Next]_vars => Others'
  BY <1>1, NeverOpensIsKept
<1>4. Others => SerialOpens
  BY NeverOpensNeverMakes DEF SerialOpens
<1> HIDE DEF Others
<1> QED
  BY <1>2, <1>3, <1>4, TypeCorrect, PTL DEF Spec

(* ... and with one thread that opens and toggles, no toggle overlaps an   *)
(* open_camera or another toggle.                                          *)
THEOREM OneOperatorIsSerial ==
  ASSUME OneOperator
  PROVE  Spec => []SerialToggles
<1>1. PICK o \in Threads : \A t \in Threads \ {o} :
        Calls[t] \cap (Opening \cup {"start", "stop_detection"}) = {}
  BY DEF OneOperator
<1> DEFINE Others == \A t \in Threads \ {o} : NeverOpens(t) /\ NeverToggles(t)
<1>2. Init => Others
  BY NeverOpensInitially
<1>3. TypeOK /\ Others /\ [Next]_vars => Others'
  <2>1. \A t \in Threads \ {o} : /\ Calls[t] \cap Opening = {}
                                 /\ Calls[t] \cap {"start", "stop_detection"} = {}
    BY <1>1
  <2> QED
    BY <2>1, NeverOpensIsKept
<1>4. Others => SerialToggles
  BY NeverOpensNeverMakes DEF SerialToggles, NeverToggles
<1> HIDE DEF Others
<1> QED
  BY <1>2, <1>3, <1>4, TypeCorrect, PTL DEF Spec

(* Together: whatever one thread opens and all threads close, toggle,      *)
(* record, wait for and report, and whatever fails, the camera is never    *)
(* leaked, and torn down by one thread at a time before IDLE.              *)
COROLLARY OneOpenerIsSafe ==
  ASSUME OneOpener
  PROVE  Spec => [](OneTeardown /\ IdleHoldsNothing /\ NothingLeaks)
BY OneOpenerIsSerial, TeardownIsUnique, IdleIsEmpty, NothingIsLost, PTL

(* ... and if that thread alone toggles the detector, the camera is never  *)
(* claimed to run when it does not, nor the detector when it is paused.    *)
COROLLARY OneOperatorIsSafe ==
  ASSUME OneOperator
  PROVE  Spec => /\ [](OpenMeansRunning /\ DetectorLockstep)
                 /\ ImplementsLifecycle
<1>1. SerialToggles => CalmOpens
  BY DEF SerialToggles, CalmOpens
<1> QED
  BY <1>1, OneOperatorIsSerial, OpenIsRunning, DetectorInStep,
     GatewayImplementsLifecycle, PTL
=============================================================================
