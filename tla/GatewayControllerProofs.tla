---------------------- MODULE GatewayControllerProofs ----------------------
(***************************************************************************)
(* Theorems about GatewayController that hold for any number of calling    *)
(* threads, whatever they call and whatever fails: its variables keep      *)
(* their types, and a close that has begun always has somebody who will    *)
(* take the gateway out of CLOSING.                                        *)
(***************************************************************************)
EXTENDS GatewayController, TLAPS

LEMMA ReturnsArePoints == Returns \subseteq Points
BY DEF Returns, Points, OpenPoints, OtherPoints

(* A group of variables that a step leaves alone keeps its types. *)
LEMMA Frames ==
  ASSUME TypeOK
  PROVE  /\ UNCHANGED gateway => GatewayTypes'
         /\ UNCHANGED refs => ReferenceTypes'
         /\ UNCHANGED objects => ObjectTypes'
         /\ UNCHANGED closing => ClosingTypes'
         /\ UNCHANGED control => ControlTypes'
         /\ UNCHANGED locals => LocalTypes'
<1>1. UNCHANGED gateway => GatewayTypes'
  BY DEF TypeOK, gateway, GatewayTypes
<1>2. UNCHANGED refs => ReferenceTypes'
  BY DEF TypeOK, refs, ReferenceTypes
<1>3. UNCHANGED objects => ObjectTypes'
  BY DEF TypeOK, objects, ObjectTypes
<1>4. UNCHANGED closing => ClosingTypes'
  BY DEF TypeOK, closing, ClosingTypes
<1>5. UNCHANGED locals => LocalTypes'
  BY DEF TypeOK, locals, LocalTypes
<1>6. UNCHANGED control => ControlTypes'
  BY DEF TypeOK, control, ControlTypes
<1> QED
  BY <1>1, <1>2, <1>3, <1>4, <1>5, <1>6

(* Initially every variable has its type. *)
LEMMA InitTypeOK == Init => TypeOK
<1> SUFFICES ASSUME Init PROVE TypeOK
  OBVIOUS
<1>1. GatewayTypes
  <2>1. opens \in 0 .. MaxOpens
    BY BoundsAssumption DEF Init
  <2>2. saved \in Saves
    BY DEF Init, NoSave, Saves
  <2> QED
    BY <2>1, <2>2 DEF Init, GatewayTypes, States
<1>2. ReferenceTypes
  BY DEF Init, ReferenceTypes, SessionOrNone
<1>3. ObjectTypes
  BY DEF Init, ObjectTypes
<1>4. ClosingTypes
  BY DEF Init, ClosingTypes, WorkerPoints
<1>5. ControlTypes
  BY DEF Init, ControlTypes, Points, OtherPoints, Returns
<1>6. LocalTypes
  BY DEF Init, LocalTypes, CallNames, SessionOrNone
<1> QED
  BY <1>1, <1>2, <1>3, <1>4, <1>5, <1>6 DEF TypeOK

LEMMA CallTypeOK ==
  ASSUME TypeOK, NEW t \in Threads, NEW c \in CallNames,
         NEW d \in Devices \cup {NoDevice}, Call(t, c, d)
  PROVE  TypeOK'
<1>1. Entry[c] \in Points
  BY DEF Entry, CallNames, Points, OpenPoints, OtherPoints
<1>2. "ready" \in Returns
  BY DEF Returns
<1>3. ControlTypes'
  BY <1>1, <1>2 DEF TypeOK, ControlTypes, Call, Goto
<1>4. LocalTypes'
  BY DEF TypeOK, LocalTypes, Call
<1> QED
  BY <1>3, <1>4, Frames DEF TypeOK, Call

LEMMA CapturedIsSave == TypeOK => Captured \in Saves
BY DEF TypeOK, Captured, Saves, ReferenceTypes, ObjectTypes, SessionOrNone

LEMMA OpenTypeOK ==
  ASSUME TypeOK, NEW t \in Threads, OpenStep(t)
  PROVE  TypeOK'
<1> USE DEF TypeOK
<1>1. CASE OpenCheck(t)
  <2>1. ControlTypes'
    BY <1>1 DEF OpenCheck, OpenReturn, Returns, ControlTypes, Goto, Points,
       OpenPoints, OtherPoints
  <2>2. GatewayTypes'
    BY <1>1 DEF OpenCheck, LocalTypes, GatewayTypes
  <2> QED
    BY <1>1, <2>1, <2>2, Frames DEF OpenCheck
<1>2. CASE SwitchReopen(t)
  <2>1. ControlTypes'
    BY <1>2 DEF SwitchReopen, Returns, ControlTypes, Goto, Points, OpenPoints,
       OtherPoints
  <2>2. LocalTypes'
    BY <1>2 DEF SwitchReopen, LocalTypes
  <2> QED
    BY <1>2, <2>1, <2>2, Frames DEF SwitchReopen
<1>3. CASE OpenClaim(t)
  <2>1. ControlTypes'
    BY <1>3 DEF OpenClaim, OpenReturn, ControlTypes, Goto, Points, OpenPoints,
       OtherPoints
  <2>2. GatewayTypes'
    BY <1>3, BoundsAssumption DEF OpenClaim, LocalTypes, States, GatewayTypes
  <2>3. LocalTypes'
    BY <1>3, BoundsAssumption
       DEF OpenClaim, GatewayTypes, SessionOrNone, Sessions, LocalTypes
  <2> QED
    BY <1>3, <2>1, <2>2, <2>3, Frames DEF OpenClaim
<1>4. CASE CreateAdapters(t)
  <2>1. ControlTypes'
    BY <1>4
       DEF CreateAdapters, ControlTypes, Goto, Points, OpenPoints, OtherPoints
  <2>2. ReferenceTypes'
    BY <1>4 DEF CreateAdapters, LocalTypes, ReferenceTypes
  <2> QED
    BY <1>4, <2>1, <2>2, Frames DEF CreateAdapters
<1>5. CASE InitCamera(t)
  <2>1. ControlTypes'
    BY <1>5 DEF InitCamera, ControlTypes, Goto, Points, OpenPoints, OtherPoints
  <2>2. GatewayTypes'
    BY <1>5 DEF InitCamera, GatewayTypes
  <2>3. ObjectTypes'
    BY <1>5 DEF InitCamera, ReferenceTypes, SessionOrNone, ObjectTypes
  <2> QED
    BY <1>5, <2>1, <2>2, <2>3, Frames DEF InitCamera
<1>6. CASE ComposeServices(t)
  <2>1. ControlTypes'
    BY <1>6
       DEF ComposeServices, ControlTypes, Goto, Points, OpenPoints, OtherPoints
  <2>2. ReferenceTypes'
    BY <1>6 DEF ComposeServices, LocalTypes, ReferenceTypes
  <2> QED
    BY <1>6, <2>1, <2>2, Frames DEF ComposeServices
<1>7. CASE StartPipeline(t)
  <2>1. ControlTypes'
    BY <1>7
       DEF StartPipeline, ControlTypes, Goto, Points, OpenPoints, OtherPoints
  <2>2. ObjectTypes'
    BY <1>7 DEF StartPipeline, ReferenceTypes, SessionOrNone, ObjectTypes
  <2> QED
    BY <1>7, <2>1, <2>2, Frames DEF StartPipeline
<1>8. CASE OpenReady(t)
  <2>1. ControlTypes'
    BY <1>8 DEF OpenReady, ControlTypes, Goto, Points, OpenPoints, OtherPoints
  <2>2. GatewayTypes'
    BY <1>8 DEF OpenReady, States, GatewayTypes
  <2> QED
    BY <1>8, <2>1, <2>2, Frames DEF OpenReady
<1>9. CASE RestoreDetector(t)
  <2>1. ControlTypes'
    BY <1>9 DEF RestoreDetector, OpenReturn, Returns, ControlTypes, Goto,
       Points, OpenPoints, OtherPoints
  <2>2. LocalTypes'
    BY <1>9 DEF RestoreDetector, GatewayTypes, Saves, LocalTypes
  <2> QED
    BY <1>9, <2>1, <2>2, Frames DEF RestoreDetector
<1>10. CASE RestoreNotifier(t)
  <2>1. ControlTypes'
    BY <1>10 DEF RestoreNotifier, OpenReturn, Returns, ControlTypes, Goto,
       Points, OpenPoints, OtherPoints
  <2>2. ObjectTypes'
    BY <1>10 DEF RestoreNotifier, ReferenceTypes, SessionOrNone, LocalTypes,
       ObjectTypes
  <2> QED
    BY <1>10, <2>1, <2>2, Frames DEF RestoreNotifier
<1>11. CASE InitializeCheck(t)
  <2>1. ControlTypes'
    BY <1>11 DEF InitializeCheck, Returns, ControlTypes, Goto, Points,
       OpenPoints, OtherPoints
  <2> QED
    BY <1>11, <2>1, Frames DEF InitializeCheck
<1>12. CASE AbortPipeline(t)
  <2>1. ControlTypes'
    BY <1>12
       DEF AbortPipeline, ControlTypes, Goto, Points, OpenPoints, OtherPoints
  <2>2. ReferenceTypes'
    BY <1>12 DEF AbortPipeline, ReleasePipeline, SessionOrNone, ReferenceTypes
  <2>3. ObjectTypes'
    BY <1>12 DEF AbortPipeline, ReleasePipeline, ReferenceTypes,
       SessionOrNone, ObjectTypes
  <2> QED
    BY <1>12, <2>1, <2>2, <2>3, Frames DEF AbortPipeline
<1>13. CASE AbortAdapters(t)
  <2>1. ControlTypes'
    BY <1>13
       DEF AbortAdapters, ControlTypes, Goto, Points, OpenPoints, OtherPoints
  <2>2. ObjectTypes'
    BY <1>13 DEF AbortAdapters, ReleaseCamera, ReferenceTypes, SessionOrNone,
       ObjectTypes
  <2> QED
    BY <1>13, <2>1, <2>2, Frames DEF AbortAdapters
<1>14. CASE AbortRecorder(t)
  <2>1. ControlTypes'
    BY <1>14
       DEF AbortRecorder, ControlTypes, Goto, Points, OpenPoints, OtherPoints
  <2>2. ReferenceTypes'
    BY <1>14 DEF AbortRecorder, ReleaseRecorder, SessionOrNone, ReferenceTypes
  <2> QED
    BY <1>14, <2>1, <2>2, Frames DEF AbortRecorder
<1>15. CASE AbortIdle(t)
  <2>1. ControlTypes'
    BY <1>15 DEF AbortIdle, ControlTypes, Goto, Points, OpenPoints, OtherPoints
  <2>2. GatewayTypes'
    BY <1>15 DEF AbortIdle, States, GatewayTypes
  <2> QED
    BY <1>15, <2>1, <2>2, Frames DEF AbortIdle
<1>16. CASE ExceptReset(t)
  <2>1. ControlTypes'
    BY <1>16
       DEF ExceptReset, ControlTypes, Goto, Points, OpenPoints, OtherPoints
  <2>2. GatewayTypes'
    BY <1>16 DEF ExceptReset, States, GatewayTypes
  <2> QED
    BY <1>16, <2>1, <2>2, Frames DEF ExceptReset
<1> QED
  BY <1>1, <1>2, <1>3, <1>4, <1>5, <1>6, <1>7, <1>8, <1>9, <1>10, <1>11,
     <1>12, <1>13, <1>14, <1>15, <1>16 DEF OpenStep

LEMMA CloseTypeOK ==
  ASSUME TypeOK, NEW t \in Threads, CloseStep(t)
  PROVE  TypeOK'
<1> USE DEF TypeOK
<1>1. CASE CloseEnter(t)
  <2>1. ControlTypes'
    BY <1>1, ReturnsArePoints DEF CloseEnter, Return, ControlTypes, Goto,
       Points, OpenPoints, OtherPoints
  <2>2. GatewayTypes'
    BY <1>1, CapturedIsSave DEF CloseEnter, States, GatewayTypes
  <2> QED
    BY <1>1, <2>1, <2>2, Frames DEF CloseEnter
<1>2. CASE CloseClear(t)
  <2>1. ControlTypes'
    BY <1>2 DEF CloseClear, ControlTypes, Goto, Points, OpenPoints, OtherPoints
  <2>2. ClosingTypes'
    BY <1>2 DEF CloseClear, ClosingTypes
  <2> QED
    BY <1>2, <2>1, <2>2, Frames DEF CloseClear
<1>3. CASE CloseSpawn(t)
  <2>1. ControlTypes'
    BY <1>3, ReturnsArePoints DEF CloseSpawn, Return, ControlTypes, Goto,
       Points, OpenPoints, OtherPoints
  <2>2. ClosingTypes'
    BY <1>3 DEF CloseSpawn, WorkerPoints, ClosingTypes
  <2> QED
    BY <1>3, <2>1, <2>2, Frames DEF CloseSpawn
<1> QED
  BY <1>1, <1>2, <1>3 DEF CloseStep

LEMMA WaitTypeOK ==
  ASSUME TypeOK, NEW t \in Threads, WaitStep(t)
  PROVE  TypeOK'
<1> USE DEF TypeOK
<1>1. CASE WaitCheck(t)
  <2>1. ControlTypes'
    BY <1>1, ReturnsArePoints
       DEF WaitCheck, Return, ControlTypes, Goto, Points, OpenPoints,
           OtherPoints
  <2> QED
    BY <1>1, <2>1, Frames DEF WaitCheck
<1>2. CASE WaitTrue(t)
  <2>1. ControlTypes'
    BY <1>2, ReturnsArePoints
       DEF WaitTrue, Return, ControlTypes, Goto, Points, OpenPoints,
           OtherPoints
  <2> QED
    BY <1>2, <2>1, Frames DEF WaitTrue
<1>3. CASE WaitTimeout(t)
  <2>1. ControlTypes'
    BY <1>3, ReturnsArePoints DEF WaitTimeout, Return, ControlTypes, Goto,
       Points, OpenPoints, OtherPoints
  <2> QED
    BY <1>3, <2>1, Frames DEF WaitTimeout
<1>4. CASE SelectCheck(t)
  <2>1. ControlTypes'
    BY <1>4 DEF SelectCheck, Returns, ControlTypes, Goto, Points, OpenPoints,
       OtherPoints
  <2> QED
    BY <1>4, <2>1, Frames DEF SelectCheck
<1>5. CASE SelectWait(t)
  <2>1. ControlTypes'
    BY <1>5 DEF SelectWait, Returns, ControlTypes, Goto, Points, OpenPoints,
       OtherPoints
  <2> QED
    BY <1>5, <2>1, Frames DEF SelectWait
<1>6. CASE StopCheck(t)
  <2>1. ControlTypes'
    BY <1>6 DEF StopCheck, Returns, ControlTypes, Goto, Points, OpenPoints,
       OtherPoints
  <2> QED
    BY <1>6, <2>1, Frames DEF StopCheck
<1>7. CASE StopWait(t)
  <2>1. ControlTypes'
    BY <1>7
       DEF StopWait, Returns, ControlTypes, Goto, Points, OpenPoints,
           OtherPoints
  <2> QED
    BY <1>7, <2>1, Frames DEF StopWait
<1>8. CASE StopReturn(t)
  <2>1. ControlTypes'
    BY <1>8 DEF StopReturn, ControlTypes, Goto, Points, OpenPoints, OtherPoints
  <2> QED
    BY <1>8, <2>1, Frames DEF StopReturn
<1>9. CASE FatalCheck(t)
  <2>1. ControlTypes'
    BY <1>9 DEF FatalCheck, Returns, ControlTypes, Goto, Points, OpenPoints,
       OtherPoints
  <2> QED
    BY <1>9, <2>1, Frames DEF FatalCheck
<1> QED
  BY <1>1, <1>2, <1>3, <1>4, <1>5, <1>6, <1>7, <1>8, <1>9 DEF WaitStep

LEMMA DetectTypeOK ==
  ASSUME TypeOK, NEW t \in Threads, DetectStep(t)
  PROVE  TypeOK'
<1> USE DEF TypeOK
<1>1. CASE DetectClaim(t)
  <2>1. ControlTypes'
    BY <1>1, ReturnsArePoints DEF DetectClaim, Return, ControlTypes, Goto,
       Points, OpenPoints, OtherPoints
  <2>2. GatewayTypes'
    BY <1>1 DEF DetectClaim, States, GatewayTypes
  <2> QED
    BY <1>1, <2>1, <2>2, Frames DEF DetectClaim
<1>2. CASE PauseClaim(t)
  <2>1. ControlTypes'
    BY <1>2, ReturnsArePoints DEF PauseClaim, Return, ControlTypes, Goto,
       Points, OpenPoints, OtherPoints
  <2>2. GatewayTypes'
    BY <1>2 DEF PauseClaim, States, GatewayTypes
  <2> QED
    BY <1>2, <2>1, <2>2, Frames DEF PauseClaim
<1>3. CASE DetectResume(t)
  <2>1. ControlTypes'
    BY <1>3 DEF DetectResume, TogglePipeline, ControlTypes, Goto, Points,
       OpenPoints, OtherPoints
  <2>2. ObjectTypes'
    BY <1>3 DEF DetectResume, TogglePipeline, ReferenceTypes, SessionOrNone,
       ObjectTypes
  <2> QED
    BY <1>3, <2>1, <2>2, Frames DEF DetectResume, TogglePipeline
<1>4. CASE PausePipeline(t)
  <2>1. ControlTypes'
    BY <1>4 DEF PausePipeline, TogglePipeline, ControlTypes, Goto, Points,
       OpenPoints, OtherPoints
  <2>2. ObjectTypes'
    BY <1>4 DEF PausePipeline, TogglePipeline, ReferenceTypes, SessionOrNone,
       ObjectTypes
  <2> QED
    BY <1>4, <2>1, <2>2, Frames DEF PausePipeline, TogglePipeline
<1>5. CASE DetectSnapshot(t)
  <2>1. ControlTypes'
    BY <1>5, ReturnsArePoints DEF DetectSnapshot, ToggleSnapshots, Return,
       ControlTypes, Goto, Points, OpenPoints, OtherPoints
  <2>2. ObjectTypes'
    BY <1>5 DEF DetectSnapshot, ToggleSnapshots, ReferenceTypes,
       SessionOrNone, ObjectTypes
  <2> QED
    BY <1>5, <2>1, <2>2, Frames DEF DetectSnapshot, ToggleSnapshots
<1>6. CASE PauseSnapshot(t)
  <2>1. ControlTypes'
    BY <1>6, ReturnsArePoints DEF PauseSnapshot, ToggleSnapshots, Return,
       ControlTypes, Goto, Points, OpenPoints, OtherPoints
  <2>2. ObjectTypes'
    BY <1>6 DEF PauseSnapshot, ToggleSnapshots, ReferenceTypes, SessionOrNone,
       ObjectTypes
  <2> QED
    BY <1>6, <2>1, <2>2, Frames DEF PauseSnapshot, ToggleSnapshots
<1> QED
  BY <1>1, <1>2, <1>3, <1>4, <1>5, <1>6 DEF DetectStep

LEMMA RecordTypeOK ==
  ASSUME TypeOK, NEW t \in Threads, RecordStep(t)
  PROVE  TypeOK'
<1> USE DEF TypeOK
<1>1. CASE RecordCheck(t)
  <2>1. ControlTypes'
    BY <1>1
       DEF RecordCheck, ControlTypes, Goto, Points, OpenPoints, OtherPoints
  <2> QED
    BY <1>1, <2>1, Frames DEF RecordCheck
<1>2. CASE RecordStart(t)
  <2>1. ControlTypes'
    BY <1>2
       DEF RecordStart, ControlTypes, Goto, Points, OpenPoints, OtherPoints
  <2>2. ObjectTypes'
    BY <1>2 DEF RecordStart, ReferenceTypes, SessionOrNone, ObjectTypes
  <2> QED
    BY <1>2, <2>1, <2>2, Frames DEF RecordStart
<1>3. CASE RecordStop(t)
  <2>1. ControlTypes'
    BY <1>3 DEF RecordStop, ControlTypes, Goto, Points, OpenPoints, OtherPoints
  <2>2. ObjectTypes'
    BY <1>3 DEF RecordStop, RecorderReturns, ReferenceTypes, SessionOrNone,
       ObjectTypes
  <2> QED
    BY <1>3, <2>1, <2>2, Frames DEF RecordStop
<1> QED
  BY <1>1, <1>2, <1>3 DEF RecordStep

LEMMA WorkerTypeOK ==
  ASSUME TypeOK, NEW w \in Workers, WorkerStep(w)
  PROVE  TypeOK'
<1> USE DEF TypeOK
<1>1. CASE WorkerRecorder(w)
  <2>1. ClosingTypes'
    BY <1>1 DEF WorkerRecorder, WorkerGoto, WorkerPoints, ClosingTypes
  <2>2. ObjectTypes'
    BY <1>1 DEF WorkerRecorder, ReferenceTypes, SessionOrNone, ObjectTypes
  <2> QED
    BY <1>1, <2>1, <2>2, Frames DEF WorkerRecorder
<1>2. CASE WorkerPipeline(w)
  <2>1. ClosingTypes'
    BY <1>2 DEF WorkerPipeline, WorkerGoto, WorkerPoints, ClosingTypes
  <2>2. ObjectTypes'
    BY <1>2 DEF WorkerPipeline, ReferenceTypes, SessionOrNone, ObjectTypes
  <2> QED
    BY <1>2, <2>1, <2>2, Frames DEF WorkerPipeline
<1>3. CASE WorkerReleasePipeline(w)
  <2>1. ClosingTypes'
    BY <1>3 DEF WorkerReleasePipeline, WorkerGoto, WorkerPoints, ClosingTypes
  <2>2. ReferenceTypes'
    BY <1>3
       DEF WorkerReleasePipeline, ReleasePipeline, SessionOrNone,
           ReferenceTypes
  <2>3. ObjectTypes'
    BY <1>3 DEF WorkerReleasePipeline, ReleasePipeline, ReferenceTypes,
       SessionOrNone, ObjectTypes
  <2> QED
    BY <1>3, <2>1, <2>2, <2>3, Frames DEF WorkerReleasePipeline
<1>4. CASE WorkerReleaseAdapters(w)
  <2>1. ClosingTypes'
    BY <1>4 DEF WorkerReleaseAdapters, WorkerGoto, WorkerPoints, ClosingTypes
  <2>2. ObjectTypes'
    BY <1>4 DEF WorkerReleaseAdapters, ReleaseCamera, ReferenceTypes,
       SessionOrNone, ObjectTypes
  <2> QED
    BY <1>4, <2>1, <2>2, Frames DEF WorkerReleaseAdapters
<1>5. CASE WorkerReleaseRecorder(w)
  <2>1. ClosingTypes'
    BY <1>5 DEF WorkerReleaseRecorder, WorkerGoto, WorkerPoints, ClosingTypes
  <2>2. ReferenceTypes'
    BY <1>5
       DEF WorkerReleaseRecorder, ReleaseRecorder, SessionOrNone,
           ReferenceTypes
  <2> QED
    BY <1>5, <2>1, <2>2, Frames DEF WorkerReleaseRecorder
<1>6. CASE WorkerSetIdle(w)
  <2>1. ClosingTypes'
    BY <1>6 DEF WorkerSetIdle, WorkerGoto, WorkerPoints, ClosingTypes
  <2>2. GatewayTypes'
    BY <1>6 DEF WorkerSetIdle, States, GatewayTypes
  <2> QED
    BY <1>6, <2>1, <2>2, Frames DEF WorkerSetIdle
<1>7. CASE WorkerSetDone(w)
  <2>1. ClosingTypes'
    BY <1>7 DEF WorkerSetDone, WorkerGoto, WorkerPoints, ClosingTypes
  <2> QED
    BY <1>7, <2>1, Frames DEF WorkerSetDone
<1> QED
  BY <1>1, <1>2, <1>3, <1>4, <1>5, <1>6, <1>7 DEF WorkerStep

(* Every variable keeps its type, for any threads and any failures. *)
THEOREM TypeCorrect == Spec => []TypeOK
<1>1. TypeOK /\ [Next]_vars => TypeOK'
  <2> SUFFICES ASSUME TypeOK, [Next]_vars PROVE TypeOK'
    OBVIOUS
  <2>1. CASE \E t \in Threads, c \in CallNames, d \in Devices \cup {NoDevice} : Call(t, c, d)
    BY <2>1, CallTypeOK
  <2>2. CASE \E t \in Threads : ThreadStep(t)
    BY <2>2, OpenTypeOK, CloseTypeOK, WaitTypeOK, DetectTypeOK, RecordTypeOK
       DEF ThreadStep
  <2>3. CASE \E w \in Workers : WorkerStep(w)
    BY <2>3, WorkerTypeOK
  <2>4. CASE UNCHANGED vars
    BY <2>4, Frames DEF TypeOK, vars
  <2> QED
    BY <2>1, <2>2, <2>3, <2>4 DEF Next
<1> QED
  BY <1>1, InitTypeOK, PTL DEF Spec

-----------------------------------------------------------------------------
(* CLOSING is entered by CloseEnter alone, whose thread then holds         *)
(* _close_thread_lock until it has started a worker; only that thread's    *)
(* own steps and the worker's own steps move them on, and the worker's     *)
(* last one of interest sets IDLE.                                         *)

(* A step that neither begins a close nor works on one: it is not taken    *)
(* inside the section under _close_thread_lock, and disturbs nobody there. *)
Quiet(t) == /\ state' = "closing" => state = "closing"
            /\ worker' = worker
            /\ ~InCloseSection(t)
            /\ \A u \in Threads \ {t} : pc'[u] = pc[u]

LEMMA CallIsQuiet ==
  ASSUME TypeOK, NEW t \in Threads, NEW c \in CallNames,
         NEW d \in Devices \cup {NoDevice}, Call(t, c, d)
  PROVE  Quiet(t)
BY DEF TypeOK, ControlTypes, Quiet, InCloseSection, Goto, Call, gateway, closing

LEMMA OpenIsQuiet ==
  ASSUME TypeOK, NEW t \in Threads, OpenStep(t)
  PROVE  Quiet(t)
<1> USE DEF TypeOK, ControlTypes, Quiet, InCloseSection, Goto
<1>1. CASE OpenCheck(t)
  BY <1>1 DEF OpenCheck, closing
<1>2. CASE SwitchReopen(t)
  BY <1>2 DEF SwitchReopen, gateway, closing
<1>3. CASE OpenClaim(t)
  BY <1>3 DEF OpenClaim, closing
<1>4. CASE CreateAdapters(t)
  BY <1>4 DEF CreateAdapters, gateway, closing
<1>5. CASE InitCamera(t)
  BY <1>5 DEF InitCamera, closing
<1>6. CASE ComposeServices(t)
  BY <1>6 DEF ComposeServices, gateway, closing
<1>7. CASE StartPipeline(t)
  BY <1>7 DEF StartPipeline, gateway, closing
<1>8. CASE OpenReady(t)
  BY <1>8 DEF OpenReady, closing
<1>9. CASE RestoreDetector(t)
  BY <1>9 DEF RestoreDetector, gateway, closing
<1>10. CASE RestoreNotifier(t)
  BY <1>10 DEF RestoreNotifier, gateway, closing
<1>11. CASE InitializeCheck(t)
  BY <1>11 DEF InitializeCheck, gateway, closing
<1>12. CASE AbortPipeline(t)
  BY <1>12 DEF AbortPipeline, gateway, closing
<1>13. CASE AbortAdapters(t)
  BY <1>13 DEF AbortAdapters, gateway, closing
<1>14. CASE AbortRecorder(t)
  BY <1>14 DEF AbortRecorder, gateway, closing
<1>15. CASE AbortIdle(t)
  BY <1>15 DEF AbortIdle, closing
<1>16. CASE ExceptReset(t)
  BY <1>16 DEF ExceptReset, closing
<1> QED
  BY <1>1, <1>2, <1>3, <1>4, <1>5, <1>6, <1>7, <1>8, <1>9, <1>10, <1>11, <1>12, <1>13, <1>14, <1>15, <1>16 DEF OpenStep

LEMMA WaitIsQuiet ==
  ASSUME TypeOK, NEW t \in Threads, WaitStep(t)
  PROVE  Quiet(t)
<1> USE DEF TypeOK, ControlTypes, Quiet, InCloseSection, Goto
<1>1. CASE WaitCheck(t)
  BY <1>1 DEF WaitCheck, gateway, closing, Return
<1>2. CASE WaitTrue(t)
  BY <1>2 DEF WaitTrue, gateway, closing, Return
<1>3. CASE WaitTimeout(t)
  BY <1>3 DEF WaitTimeout, gateway, closing, Return
<1>4. CASE SelectCheck(t)
  BY <1>4 DEF SelectCheck, gateway, closing
<1>5. CASE SelectWait(t)
  BY <1>5 DEF SelectWait, gateway, closing
<1>6. CASE StopCheck(t)
  BY <1>6 DEF StopCheck, gateway, closing
<1>7. CASE StopWait(t)
  BY <1>7 DEF StopWait, gateway, closing
<1>8. CASE StopReturn(t)
  BY <1>8 DEF StopReturn, gateway, closing
<1>9. CASE FatalCheck(t)
  BY <1>9 DEF FatalCheck, gateway, closing
<1> QED
  BY <1>1, <1>2, <1>3, <1>4, <1>5, <1>6, <1>7, <1>8, <1>9 DEF WaitStep

LEMMA DetectIsQuiet ==
  ASSUME TypeOK, NEW t \in Threads, DetectStep(t)
  PROVE  Quiet(t)
<1> USE DEF TypeOK, ControlTypes, Quiet, InCloseSection, Goto
<1>1. CASE DetectClaim(t)
  BY <1>1 DEF DetectClaim, closing, Return
<1>2. CASE PauseClaim(t)
  BY <1>2 DEF PauseClaim, closing, Return
<1>3. CASE DetectResume(t)
  BY <1>3 DEF DetectResume, gateway, closing, TogglePipeline
<1>4. CASE PausePipeline(t)
  BY <1>4 DEF PausePipeline, gateway, closing, TogglePipeline
<1>5. CASE DetectSnapshot(t)
  BY <1>5 DEF DetectSnapshot, gateway, closing, ToggleSnapshots, Return
<1>6. CASE PauseSnapshot(t)
  BY <1>6 DEF PauseSnapshot, gateway, closing, ToggleSnapshots, Return
<1> QED
  BY <1>1, <1>2, <1>3, <1>4, <1>5, <1>6 DEF DetectStep

LEMMA RecordIsQuiet ==
  ASSUME TypeOK, NEW t \in Threads, RecordStep(t)
  PROVE  Quiet(t)
<1> USE DEF TypeOK, ControlTypes, Quiet, InCloseSection, Goto
<1>1. CASE RecordCheck(t)
  BY <1>1 DEF RecordCheck, gateway, closing
<1>2. CASE RecordStart(t)
  BY <1>2 DEF RecordStart, gateway, closing
<1>3. CASE RecordStop(t)
  BY <1>3 DEF RecordStop, gateway, closing
<1> QED
  BY <1>1, <1>2, <1>3 DEF RecordStep

LEMMA QuietKeepsWorker ==
  ASSUME ClosingHasWorker, NEW t \in Threads, Quiet(t)
  PROVE  ClosingHasWorker'
BY DEF ClosingHasWorker, Quiet, InCloseSection, TearingDown

LEMMA CloseKeepsWorker ==
  ASSUME TypeOK, ClosingHasWorker, NEW t \in Threads, CloseStep(t)
  PROVE  ClosingHasWorker'
<1> USE DEF TypeOK, ControlTypes, ClosingTypes, InCloseSection, TearingDown, Goto
<1>1. CASE CloseEnter(t)
  BY <1>1 DEF CloseEnter, CloseLockFree, Return, ClosingHasWorker, closing
<1>2. CASE CloseClear(t)
  BY <1>2 DEF CloseClear, ClosingHasWorker
<1>3. CASE CloseSpawn(t)
  <2>1. PICK w \in Workers : worker' = [worker EXCEPT ![w] = "recorder"]
    BY <1>3 DEF CloseSpawn
  <2>2. worker'[w] = "recorder"
    BY <2>1
  <2> QED
    BY <2>2 DEF ClosingHasWorker
<1> QED
  BY <1>1, <1>2, <1>3 DEF CloseStep

LEMMA WorkerKeepsWorker ==
  ASSUME TypeOK, ClosingHasWorker, NEW w \in Workers, WorkerStep(w)
  PROVE  ClosingHasWorker'
<1> SUFFICES ASSUME state' = "closing" PROVE ClosingHasWorker'
  BY DEF ClosingHasWorker
<1>1. /\ ~WorkerSetIdle(w)
      /\ state = "closing" /\ pc' = pc
  BY DEF WorkerStep, WorkerRecorder, WorkerPipeline, WorkerReleasePipeline,
         WorkerReleaseAdapters, WorkerReleaseRecorder, WorkerSetIdle, WorkerSetDone,
         gateway, control
<1>2. \A v \in Workers : TearingDown(v) => TearingDown(v)'
  BY <1>1 DEF TypeOK, ClosingTypes, TearingDown, WorkerGoto, WorkerStep,
         WorkerRecorder, WorkerPipeline, WorkerReleasePipeline,
         WorkerReleaseAdapters, WorkerReleaseRecorder, WorkerSetDone
<1> QED
  BY <1>1, <1>2 DEF ClosingHasWorker, InCloseSection

(* The gateway is never in CLOSING with nobody to take it out of it.       *)
THEOREM ClosingIsAttended == Spec => []ClosingHasWorker
<1>1. Init => ClosingHasWorker
  BY DEF Init, ClosingHasWorker
<1>2. TypeOK /\ ClosingHasWorker /\ [Next]_vars => ClosingHasWorker'
  <2> SUFFICES ASSUME TypeOK, ClosingHasWorker, [Next]_vars
               PROVE  ClosingHasWorker'
    OBVIOUS
  <2>1. CASE \E t \in Threads, c \in CallNames, d \in Devices \cup {NoDevice} : Call(t, c, d)
    BY <2>1, CallIsQuiet, QuietKeepsWorker
  <2>2. CASE \E t \in Threads : ThreadStep(t)
    BY <2>2, OpenIsQuiet, WaitIsQuiet, DetectIsQuiet, RecordIsQuiet,
       QuietKeepsWorker, CloseKeepsWorker DEF ThreadStep
  <2>3. CASE \E w \in Workers : WorkerStep(w)
    BY <2>3, WorkerKeepsWorker
  <2>4. CASE UNCHANGED vars
    BY <2>4 DEF ClosingHasWorker, InCloseSection, TearingDown, vars, gateway,
                closing, control
  <2> QED
    BY <2>1, <2>2, <2>3, <2>4 DEF Next
<1> QED
  BY <1>1, <1>2, TypeCorrect, PTL DEF Spec
=============================================================================
