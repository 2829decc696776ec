-------------------------- MODULE PresentationProofs --------------------------
(***************************************************************************)
(* That the menu of the main window is in step with the gateway, for every *)
(* number of close threads, of commands and of echoes of a fatal error.    *)
(***************************************************************************)
EXTENDS Presentation, SequenceTheorems, TLAPS

-----------------------------------------------------------------------------
(* Types *)
States   == {"idle", "opening", "closing"} \cup OpenStates
Statuses == {"none", "failed", "stopping", "starting", "running", "stopped", "idle"}
Kinds    == {"opened", "closed", "failed", "read_failed", "ask_reopen", "chat_id",
             "camera", "detector"}
Events   == [type : Kinds, status : Statuses]
UiEvents == {e \in Events : e.type # "read_failed"}
Points   == {"ready", "open", "camera", "refused", "composed", "broken", "restore",
             "end", "over", "close", "wait"}

GatewayTypes ==
  /\ state \in States /\ failed \in BOOLEAN /\ chat \in BOOLEAN
  /\ saved \in {"absent", "running", "stopped", "broken"} /\ alive \in BOOLEAN
ThreadTypes ==
  /\ closer \in [Closers -> {"none", "teardown", "publishing"}]
  /\ drain \in {"ready", "fatal"} /\ pc \in [Openers -> Points]
EventTypes ==
  /\ todo \in [Publishers -> Seq(Events)] /\ queue \in Seq(Events)
  /\ todo["ui"] \in Seq(UiEvents)
ShownTypes ==
  /\ menu \in States \cup {"built"} /\ panel \in Statuses
  /\ overlay \in BOOLEAN /\ dialogs \in Seq({"failed", "ask"})
  /\ lost \in SUBSET {"open", "hide"} /\ hidden \in BOOLEAN
UserTypes == held \in Nat /\ clicks \in 0 .. MaxClicks

Types == GatewayTypes /\ ThreadTypes /\ EventTypes /\ ShownTypes /\ UserTypes

-----------------------------------------------------------------------------
(* Who is still going to update the menu *)

(* Every event but one ends in _update_action_states, if by way of a       *)
(* dialog or of another event.                                             *)
Tells(s)      == \E i \in DOMAIN s : s[i].type # "chat_id"
Apologises(s) == \E i \in DOMAIN s : s[i] = "failed"

UiWill      == pc["ui"] \notin {"ready", "close"}
InitWill    == pc["init"] \in {"open", "camera", "composed", "refused", "broken"}
CloserWill  == \E c \in Closers : closer[c] = "teardown"
EventsWill  == Tells(queue) \/ \E p \in Publishers : Tells(todo[p])
Will        == UiWill \/ InitWill \/ CloserWill \/ EventsWill \/ Apologises(dialogs)

MenuInv == Will \/ "open" \in lost \/ menu = state

(* Until the background thread opens the camera, nobody does anything.     *)
Untouched ==
  pc["init"] = "open" =>
    /\ pc["ui"] = "ready" /\ state = "idle" /\ ~alive /\ drain = "ready"
    /\ \A c \in Closers : closer[c] = "none"
    /\ \A p \in Publishers : Silent(p)
    /\ queue = <<>> /\ dialogs = <<>>

-----------------------------------------------------------------------------
LEMMA StampProperties ==
  ASSUME GatewayTypes, NEW e \in Events
  PROVE  Stamp(e) \in Events /\ Stamp(e).type = e.type
<1>1. CameraStatus \in Statuses
  BY DEF CameraStatus, StateFromLegacy, Statuses
<1> QED
  BY <1>1 DEF Stamp, Events

LEMMA EventsTyped ==
  /\ OpenEvents \in Seq(UiEvents) /\ DetectEvents \in Seq(UiEvents)
  /\ CloseEvents \in Seq(UiEvents) /\ <<>> \in Seq(UiEvents)
  /\ \A type \in Kinds \ {"read_failed"} : <<Event(type)>> \in Seq(UiEvents)
  /\ [i \in 1 .. Echoes |-> Event("read_failed")] \in Seq(Events)
<1>1. \A type \in Kinds : Event(type) \in Events /\ Event(type).type = type
  BY DEF Event, Events, Statuses
<1>2. Echoes \in Nat
  BY EchoesAssumption
<1>3. \A type \in Kinds \ {"read_failed"} : Event(type) \in UiEvents
  BY <1>1 DEF UiEvents
<1>4. Event("read_failed") \in Events
  BY <1>1 DEF Kinds
<1>5. [i \in 1 .. Echoes |-> Event("read_failed")] \in Seq(Events)
  BY <1>2, <1>4, IsASeq
<1>6. Kinds = {"opened", "closed", "failed", "read_failed", "ask_reopen", "chat_id",
               "camera", "detector"}
  BY DEF Kinds
<1> QED
  BY <1>3, <1>5, <1>6 DEF OpenEvents, DetectEvents, CloseEvents

LEMMA UiEventsAreEvents == Seq(UiEvents) \subseteq Seq(Events)
<1>1. UiEvents \subseteq Events
  BY DEF UiEvents
<1> QED
  BY <1>1

LEMMA InitTypes == Init => Types
<1> SUFFICES ASSUME Init PROVE Types
  OBVIOUS
<1>1. GatewayTypes
  BY ConfiguredAssumption, FilesAssumption DEF Init, GatewayTypes, States
<1>2. ThreadTypes
  <2>1. pc \in [Openers -> Points]
    BY DEF Init, Openers, Points
  <2> QED
    BY <2>1 DEF Init, ThreadTypes
<1>3. EventTypes
  BY EventsTyped, UiEventsAreEvents DEF Init, EventTypes, Publishers, Openers
<1>4. ShownTypes
  <2>1. overlay \in BOOLEAN /\ hidden \in BOOLEAN
    BY DEF Init
  <2>2. dialogs \in Seq({"failed", "ask"}) /\ lost \in SUBSET {"open", "hide"}
    BY DEF Init
  <2> QED
    BY <2>1, <2>2 DEF Init, ShownTypes, Statuses
<1>5. UserTypes
  BY ClicksAssumption DEF Init, UserTypes
<1> QED
  BY <1>1, <1>2, <1>3, <1>4, <1>5 DEF Types

(* The slots leave what they touch well typed. *)
LEMMA SlotTypes ==
  ASSUME GatewayTypes, ShownTypes, NEW e \in Events, Slot(e), UNCHANGED hidden
  PROVE  ShownTypes'
<1> USE DEF OnOpened, OnClosed, OnFailed, OnChatId, AskReopen, OnCamera, OnDetector,
            UpdateActions, HideOverlay, ShowOverlay, shown
<1>1. e.type \in Kinds /\ e.status \in Statuses
  BY DEF Events
<1>2. menu' \in {menu, state} /\ panel' \in {panel, e.status}
  BY <1>1 DEF Slot, Kinds
<1>3. dialogs' \in {dialogs, Append(dialogs, "failed"), Append(dialogs, "ask")}
  BY <1>1 DEF Slot, Kinds
<1>4. lost' \in {lost, lost \cup {"hide"}}
  BY <1>1 DEF Slot, Kinds
<1>5. overlay' \in BOOLEAN
  BY <1>1 DEF Slot, Kinds, ShownTypes
<1>6. dialogs' \in Seq({"failed", "ask"})
  BY <1>3 DEF ShownTypes
<1> QED
  BY <1>1, <1>2, <1>4, <1>5, <1>6 DEF ShownTypes, GatewayTypes

(* ... and so do the helpers of the actions. *)
LEMMA SayTypes ==
  ASSUME EventTypes, NEW p, NEW events \in Seq(UiEvents), Say(p, events),
         UNCHANGED queue
  PROVE  EventTypes'
<1>1. todo' = [todo EXCEPT ![p] = events] /\ events \in Seq(Events)
  BY UiEventsAreEvents DEF Say
<1>2. todo' \in [Publishers -> Seq(Events)]
  BY <1>1 DEF EventTypes
<1>3. todo'["ui"] \in {todo["ui"], events}
  BY <1>1 DEF EventTypes, Publishers, Openers
<1> QED
  BY <1>2, <1>3 DEF EventTypes

LEMMA TogglesTypes ==
  ASSUME GatewayTypes, EventTypes, NEW t, NEW on, Toggles(t, on),
         UNCHANGED <<failed, chat, saved, alive, queue>>
  PROVE  GatewayTypes' /\ EventTypes'
<1>1. CASE UNCHANGED <<state, todo>>
  BY <1>1 DEF GatewayTypes, EventTypes
<1>2. CASE Say(t, DetectEvents) /\ state' \in {"detecting", "camera_on"}
  <2>1. EventTypes'
    BY <1>2, SayTypes, EventsTyped
  <2> QED
    BY <1>2, <2>1 DEF GatewayTypes, States, OpenStates
<1> QED
  BY <1>1, <1>2 DEF Toggles

LEMMA CloseTypes ==
  ASSUME GatewayTypes, ThreadTypes, CloseCamera, UNCHANGED <<failed, chat, alive>>
  PROVE  /\ GatewayTypes'
         /\ closer' \in [Closers -> {"none", "teardown", "publishing"}]
BY DEF CloseCamera, GatewayTypes, ThreadTypes, States

LEMMA OverlayTypes ==
  ASSUME GatewayTypes, ShownTypes, HideOverlay \/ ShowOverlay \/ UNCHANGED <<overlay, lost>>,
         menu' \in {menu, state}, UNCHANGED <<panel, dialogs, hidden>>
  PROVE  ShownTypes'
<1>1. overlay' \in BOOLEAN
  BY DEF HideOverlay, ShowOverlay, ShownTypes
<1>2. lost' \in SUBSET {"open", "hide"}
  BY DEF HideOverlay, ShowOverlay, ShownTypes
<1> QED
  BY <1>1, <1>2 DEF ShownTypes, GatewayTypes

LEMMA FrontTypes ==
  ASSUME ShownTypes, dialogs # <<>>
  PROVE  /\ Front(dialogs) \in Seq({"failed", "ask"}) /\ Len(dialogs) - 1 \in Nat
         /\ Len(Front(dialogs)) = Len(dialogs) - 1
         /\ \A i \in 1 .. Len(dialogs) - 1 : Front(dialogs)[i] = dialogs[i]
<1>1. dialogs \in Seq({"failed", "ask"})
  BY DEF ShownTypes
<1> DEFINE n == Len(dialogs) - 1
<1>2. Len(dialogs) \in Nat \ {0} /\ n \in Nat
  BY <1>1, EmptySeq, LenProperties
<1>3. \A i \in 1 .. n : dialogs[i] \in {"failed", "ask"}
  BY <1>1, <1>2, ElementOfSeq
<1>4. Front(dialogs) = SubSeq(dialogs, 1, n)
  BY DEF Front
<1> HIDE DEF n
<1>5. /\ SubSeq(dialogs, 1, n) \in Seq({"failed", "ask"})
      /\ Len(SubSeq(dialogs, 1, n)) = n
      /\ \A i \in 1 .. n : SubSeq(dialogs, 1, n)[i] = dialogs[i]
  BY <1>2, <1>3, SubSeqProperties
<1> QED
  BY <1>2, <1>4, <1>5 DEF n

(* The events *)
LEMMA EventStepTypes ==
  ASSUME Types,
         \/ PublishDirect \/ HandleEvent \/ ReadFails \/ ChatInit
         \/ \E p \in Publishers : PublishQueued(p)
  PROVE  Types'
<1> USE DEF Types
<1>1. CASE PublishDirect
  <2> DEFINE e == Head(todo["ui"])
  <2>1. e \in UiEvents /\ Tail(todo["ui"]) \in Seq(UiEvents) /\ e \in Events
    BY <1>1, HeadTailProperties DEF PublishDirect, Silent, EventTypes, UiEvents
  <2>2. Stamp(e) \in Events
    BY <2>1, StampProperties
  <2> HIDE DEF e
  <2>3. Slot(Stamp(e)) /\ Say("ui", Tail(todo["ui"])) /\ UNCHANGED <<queue, hidden>>
    BY <1>1 DEF PublishDirect, user, e
  <2>4. ShownTypes' /\ EventTypes'
    BY <2>1, <2>2, <2>3, SlotTypes, SayTypes
  <2> QED
    BY <1>1, <2>4 DEF PublishDirect, gateway, threads, user, GatewayTypes, ThreadTypes,
       UserTypes
<1>2. CASE HandleEvent
  <2> DEFINE e == Head(queue)
  <2>1. e \in Events /\ Tail(queue) \in Seq(Events)
    BY <1>2, HeadTailProperties DEF HandleEvent, EventTypes
  <2>2. ShownTypes'
    BY <1>2, <2>1, SlotTypes DEF HandleEvent, user
  <2>3. Event("ask_reopen") \in Events
    BY DEF Event, Events, Kinds, Statuses
  <2>4. EventTypes'
    BY <1>2, <2>1, <2>3, AppendProperties DEF HandleEvent, EventTypes
  <2> QED
    BY <1>2, <2>2, <2>4 DEF HandleEvent, gateway, threads, user, GatewayTypes,
       ThreadTypes, UserTypes
<1>3. CASE ReadFails
  <2>1. EventTypes'
    <3>1. /\ todo' = [todo EXCEPT !["drain"] =
                        [i \in 1 .. Echoes |-> Event("read_failed")]]
          /\ UNCHANGED queue
      BY <1>3 DEF ReadFails, Say
    <3> HIDE DEF Types
    <3>2. todo \in [Publishers -> Seq(Events)] /\ EventTypes
      BY DEF Types, EventTypes
    <3>3. todo' \in [Publishers -> Seq(Events)] /\ todo'["ui"] = todo["ui"]
      BY <3>1, <3>2, EventsTyped DEF Publishers, Openers
    <3> QED
      BY <3>1, <3>2, <3>3 DEF EventTypes
  <2> QED
    BY <1>3, <2>1 DEF ReadFails, shown, user, GatewayTypes, ThreadTypes, ShownTypes,
       UserTypes
<1>4. CASE ChatInit
  <2>1. Event("chat_id") \in Events
    BY DEF Event, Events, Kinds, Statuses
  <2>2. EventTypes'
    BY <1>4, <2>1, AppendProperties DEF ChatInit, EventTypes
  <2>3. clicks' \in 0 .. MaxClicks
    BY <1>4, ClicksAssumption DEF ChatInit, UserTypes
  <2> QED
    BY <1>4, <2>2, <2>3 DEF ChatInit, threads, shown, GatewayTypes, ThreadTypes,
       ShownTypes, UserTypes
<1>5. ASSUME NEW p \in Publishers, PublishQueued(p) PROVE Types'
  <2> DEFINE said == [i \in DOMAIN todo[p] |-> Stamp(todo[p][i])]
  <2>1. todo[p] \in Seq(Events) /\ queue \in Seq(Events)
    BY DEF EventTypes
  <2>2. said \in Seq(Events)
    <3>1. \A i \in 1 .. Len(todo[p]) : Stamp(todo[p][i]) \in Events
      BY <2>1, StampProperties, ElementOfSeq
    <3>2. Len(todo[p]) \in Nat /\ DOMAIN todo[p] = 1 .. Len(todo[p])
      BY <2>1, LenProperties
    <3> QED
      BY <3>1, <3>2, IsASeq
  <2>3. queue' \in Seq(Events)
    BY <1>5, <2>1, <2>2, ConcatProperties DEF PublishQueued
  <2>4. EventTypes'
    BY <1>5, <2>3, EventsTyped, UiEventsAreEvents DEF PublishQueued, Say, EventTypes
  <2> QED
    BY <1>5, <2>4 DEF PublishQueued, gateway, threads, shown, user, GatewayTypes,
       ThreadTypes, ShownTypes, UserTypes
<1> QED
  BY <1>1, <1>2, <1>3, <1>4, <1>5

(* The steps of open_camera *)
LEMMA OpenStepTypes ==
  ASSUME Types, NEW t \in Openers, OpenStep(t)
  PROVE  Types'
<1> USE DEF Types, gateway, threads, shown, user
<1>1. pc' \in [Openers -> Points]
  BY DEF OpenStep, OpenClaim, CameraFails, CameraUp, OpenBreaks, OpenGivesUp, GivesUp,
     OpenReady, Restore, RestoreBreaks, OpenEnds, Goto, ThreadTypes, Points
<1>2. UNCHANGED <<closer, drain>> /\ UNCHANGED user /\ UNCHANGED held
  BY DEF OpenStep, OpenClaim, CameraFails, CameraUp, OpenBreaks, OpenGivesUp, GivesUp,
     OpenReady, Restore, RestoreBreaks, OpenEnds
<1>3. ThreadTypes' /\ UserTypes'
  BY <1>1, <1>2 DEF ThreadTypes, UserTypes
<1>4. CASE OpenClaim(t)
  BY <1>3, <1>4 DEF OpenClaim, GatewayTypes, EventTypes, ShownTypes, States
<1>5. CASE CameraFails(t) \/ CameraUp(t)
  <2>1. /\ <<Event("failed")>> \in Seq(UiEvents) /\ <<Event("chat_id")>> \in Seq(UiEvents)
        /\ <<>> \in Seq(UiEvents)
    BY EventsTyped DEF Kinds
  <2>2. EventTypes'
    BY <1>5, <2>1, SayTypes DEF CameraFails, CameraUp
  <2>3. GatewayTypes' /\ ShownTypes'
    BY <1>5 DEF CameraFails, CameraUp, GatewayTypes, ShownTypes
  <2> QED
    BY <1>3, <2>2, <2>3
<1>6. CASE OpenBreaks(t) \/ RestoreBreaks(t)
  BY <1>3, <1>6 DEF OpenBreaks, RestoreBreaks, GatewayTypes, EventTypes, ShownTypes
<1>7. CASE OpenGivesUp(t)
  <2>1. GatewayTypes' /\ EventTypes'
    BY <1>7 DEF OpenGivesUp, GivesUp, GatewayTypes, EventTypes, States
  <2>2. menu' \in States \cup {"built"}
    BY <1>7 DEF OpenGivesUp, GivesUp, GatewayTypes, ShownTypes, States
  <2>3. overlay' \in BOOLEAN /\ lost' \in SUBSET {"open", "hide"}
    BY <1>7 DEF OpenGivesUp, HideOverlay, ShownTypes
  <2>4. UNCHANGED <<panel, dialogs, hidden>>
    BY <1>7 DEF OpenGivesUp, GivesUp
  <2> QED
    BY <1>3, <2>1, <2>2, <2>3, <2>4 DEF ShownTypes
<1>8. CASE OpenReady(t)
  <2>1. EventTypes'
    BY <1>8, EventsTyped, SayTypes DEF OpenReady
  <2> QED
    BY <1>3, <1>8, <2>1 DEF OpenReady, GatewayTypes, ShownTypes, States, OpenStates
<1>9. CASE Restore(t)
  <2>1. GatewayTypes' /\ EventTypes'
    <3>1. CASE Toggles(t, saved = "running")
      BY <1>9, <3>1, TogglesTypes DEF Restore
    <3>2. CASE UNCHANGED <<state, todo>>
      BY <1>9, <3>2 DEF Restore, GatewayTypes, EventTypes
    <3> QED
      BY <1>9, <3>1, <3>2 DEF Restore
  <2> QED
    BY <1>3, <1>9, <2>1 DEF Restore, ShownTypes
<1>10. CASE OpenEnds(t)
  <2>1. GatewayTypes' /\ EventTypes'
    <3>1. CASE Toggles(t, TRUE)
      BY <1>10, <3>1, TogglesTypes DEF OpenEnds
    <3>2. CASE UNCHANGED <<state, todo>>
      BY <1>10, <3>2 DEF OpenEnds, GatewayTypes, EventTypes
    <3> QED
      BY <1>10, <3>1, <3>2 DEF OpenEnds
  <2> QED
    BY <1>3, <1>10, <2>1 DEF OpenEnds, ShownTypes, GatewayTypes, UpdateActions
<1> QED
  BY <1>4, <1>5, <1>6, <1>7, <1>8, <1>9, <1>10 DEF OpenStep

(* The steps of closing, and the fatal error *)
LEMMA CloseStepTypes ==
  ASSUME Types, CallClose \/ FatalCloses \/ \E c \in Closers : CloserStep(c)
  PROVE  Types'
<1> USE DEF Types, gateway, threads, shown, user
<1>1. CASE CallClose \/ FatalCloses
  <2>1. GatewayTypes' /\ closer' \in [Closers -> {"none", "teardown", "publishing"}]
    BY <1>1, CloseTypes DEF CallClose, FatalCloses
  <2>2. drain' \in {"ready", "fatal"} /\ pc' \in [Openers -> Points]
    BY <1>1 DEF CallClose, FatalCloses, ThreadTypes, Goto, Points
  <2>3. UNCHANGED <<todo, queue>> /\ UNCHANGED shown /\ UNCHANGED <<held, user>>
    BY <1>1 DEF CallClose, FatalCloses
  <2> QED
    BY <2>1, <2>2, <2>3 DEF ThreadTypes, EventTypes, ShownTypes, UserTypes
<1>2. ASSUME NEW c \in Closers, Teardown(c) PROVE Types'
  <2>1. EventTypes'
    BY <1>2, EventsTyped, SayTypes DEF Teardown
  <2> QED
    BY <1>2, <2>1 DEF Teardown, GatewayTypes, ThreadTypes, ShownTypes, UserTypes, States
<1>3. ASSUME NEW c \in Closers, CloserEnds(c) PROVE Types'
  BY <1>3 DEF CloserEnds, GatewayTypes, ThreadTypes, EventTypes, ShownTypes, UserTypes
<1> QED
  BY <1>1, <1>2, <1>3 DEF CloserStep

(* The user *)
LEMMA UserTypesKept ==
  ASSUME Types, User \/ WaitEnds
  PROVE  Types'
<1> USE DEF Types, gateway, threads, shown, user
<1>1. ASSUME Click PROVE UserTypes'
  BY <1>1, ClicksAssumption DEF Click, UserTypes
<1>2. CASE ClickOpen \/ ClickClose
  <2>1. pc' \in [Openers -> Points]
    BY <1>2 DEF ClickOpen, ClickClose, Goto, ThreadTypes, Points
  <2>2. ShownTypes'
    BY <1>2, OverlayTypes DEF ClickOpen, ClickClose, ShowLoading, UpdateActions
  <2> QED
    BY <1>1, <1>2, <2>1, <2>2 DEF ClickOpen, ClickClose, GatewayTypes, ThreadTypes,
       EventTypes
<1>3. CASE ClickDevice
  <2>1. pc' \in [Openers -> Points]
    BY <1>3 DEF ClickDevice, Goto, ThreadTypes, Points
  <2>2. ShownTypes'
    BY <1>3, OverlayTypes DEF ClickDevice, ShowLoading, UpdateActions
  <2>3. GatewayTypes' /\ closer' \in [Closers -> {"none", "teardown", "publishing"}]
    <3>1. CASE IsOpen
      BY <1>3, <3>1, CloseTypes DEF ClickDevice
    <3>2. CASE ~IsOpen
      BY <1>3, <3>2 DEF ClickDevice, GatewayTypes, ThreadTypes
    <3> QED
      BY <3>1, <3>2
  <2> QED
    BY <1>1, <1>3, <2>1, <2>2, <2>3 DEF ClickDevice, ThreadTypes, EventTypes
<1>4. ASSUME NEW on \in BOOLEAN, ClickDetection(on) PROVE Types'
  <2>1. GatewayTypes' /\ EventTypes'
    BY <1>4, TogglesTypes DEF ClickDetection
  <2>2. pc' \in [Openers -> Points]
    BY <1>4 DEF ClickDetection, Goto, ThreadTypes, Points
  <2> QED
    BY <1>1, <1>4, <2>1, <2>2 DEF ClickDetection, ThreadTypes, ShownTypes
<1>5. CASE HideWindow
  BY <1>1, <1>5 DEF HideWindow, GatewayTypes, ThreadTypes, EventTypes, ShownTypes
<1>6. CASE ShowWindow
  BY <1>6 DEF ShowWindow, GatewayTypes, ThreadTypes, EventTypes, ShownTypes, UserTypes
<1>7. CASE WaitEnds
  <2>1. pc' \in [Openers -> Points]
    BY <1>7 DEF WaitEnds, Goto, ThreadTypes, Points
  <2>2. ShownTypes'
    BY <1>7, OverlayTypes DEF WaitEnds, ShowLoading, UpdateActions
  <2> QED
    BY <1>7, <2>1, <2>2 DEF WaitEnds, GatewayTypes, ThreadTypes, EventTypes, UserTypes
<1>8. CASE Acknowledge
  <2>1. Front(dialogs) \in Seq({"failed", "ask"})
    BY <1>8, FrontTypes DEF Acknowledge, Answerable
  <2>2. menu' \in {menu, state}
    BY <1>8 DEF Acknowledge, UpdateActions
  <2> QED
    BY <1>8, <2>1, <2>2 DEF Acknowledge, GatewayTypes, ThreadTypes, EventTypes,
       ShownTypes, UserTypes
<1>9. CASE Reopen
  <2>1. Front(dialogs) \in Seq({"failed", "ask"}) /\ Len(dialogs) - 1 \in Nat
    BY <1>9, FrontTypes DEF Reopen, Answerable
  <2>2. pc' \in [Openers -> Points]
    BY <1>9 DEF Reopen, Goto, ThreadTypes, Points
  <2>3. menu' \in {menu, state} /\ overlay' \in BOOLEAN /\ lost' = lost
    BY <1>9 DEF Reopen, ShowLoading, ShowOverlay, UpdateActions, ShownTypes
  <2>4. held' \in Nat /\ clicks' \in 0 .. MaxClicks
    BY <1>9, <2>1, ClicksAssumption DEF Reopen, UserTypes
  <2> QED
    BY <1>9, <2>1, <2>2, <2>3, <2>4 DEF Reopen, GatewayTypes, ThreadTypes, EventTypes,
       ShownTypes, UserTypes
<1> QED
  BY <1>2, <1>3, <1>4, <1>5, <1>6, <1>7, <1>8, <1>9 DEF User

LEMMA NextTypes == Types /\ [Next]_vars => Types'
<1> SUFFICES ASSUME Types, [Next]_vars PROVE Types'
  OBVIOUS
<1>1. CASE UNCHANGED vars
  BY <1>1 DEF vars, gateway, threads, shown, user, Types, GatewayTypes, ThreadTypes,
     EventTypes, ShownTypes, UserTypes
<1>2. CASE Next
  <2>1. "ui" \in Openers /\ "init" \in Openers
    BY DEF Openers
  <2> QED
    BY <1>2, <2>1, EventStepTypes, OpenStepTypes, CloseStepTypes, UserTypesKept
    DEF Next, UiStep
<1> QED
  BY <1>1, <1>2

(* The variables of the window and of the gateway as it sees it keep their *)
(* types; the window is never handed the message of a fatal error in the   *)
(* middle of a gateway call of its own.                                    *)
THEOREM TypeCorrect == Spec => []Types
BY InitTypes, NextTypes, PTL DEF Spec

-----------------------------------------------------------------------------
LEMMA UntouchedAlways == Spec => []Untouched
<1>1. Init => Untouched
  BY DEF Init, Untouched, Silent
<1>2. Types /\ Untouched /\ [Next]_vars => Untouched'
  <2> SUFFICES ASSUME Types, Untouched, [Next]_vars, pc'["init"] = "open"
               PROVE  Untouched'
    BY DEF Untouched
  <2> USE DEF vars, gateway, threads, shown, user
  <2>1. pc \in [Openers -> Points] /\ "ui" \in Openers /\ "init" \in Openers
    BY DEF Types, ThreadTypes, Openers
  <2>2. pc["init"] = "open"
    BY <2>1 DEF Next, UiStep, User, CloserStep, OpenStep, PublishDirect, PublishQueued,
       HandleEvent, OpenClaim, CameraFails, CameraUp, OpenBreaks, OpenGivesUp, GivesUp,
       OpenReady, Restore, RestoreBreaks, OpenEnds, Teardown, CloserEnds, ReadFails, FatalCloses,
       ChatInit, ClickOpen, ClickClose, CallClose, ClickDevice, WaitEnds,
       ClickDetection, HideWindow, ShowWindow, Acknowledge, Reopen, Goto
  <2>3. /\ pc["ui"] = "ready" /\ state = "idle" /\ ~alive /\ drain = "ready"
        /\ \A c \in Closers : closer[c] = "none"
        /\ \A p \in Publishers : Silent(p)
        /\ queue = <<>> /\ dialogs = <<>>
    BY <2>2 DEF Untouched
  <2>4. "ui" \in Publishers
    BY DEF Publishers, Openers
  <2>5. CASE ShowWindow \/ UNCHANGED vars
    BY <2>2, <2>3, <2>5 DEF ShowWindow, Untouched, Silent
  <2>6. ~OpenStep("init")
    BY <2>1, <2>2, <2>3 DEF OpenStep, OpenClaim, CameraFails, CameraUp, OpenBreaks,
       OpenGivesUp, GivesUp, OpenReady, Restore, RestoreBreaks, OpenEnds, Ready, Goto
  <2>7. ~UiStep
    BY <2>3, <2>4 DEF UiStep, PublishDirect, HandleEvent, CallClose, WaitEnds, Ready,
       OpenStep, OpenClaim, CameraFails, CameraUp, OpenBreaks, OpenGivesUp, GivesUp,
       OpenReady, Restore, RestoreBreaks, OpenEnds
  <2>8. User => ShowWindow
    BY <2>2, <2>3 DEF User, ClickOpen, ClickClose, ClickDevice, ClickDetection,
       HideWindow, Click, Acknowledge, Reopen, Answerable
  <2>9. ~ChatInit /\ ~ReadFails /\ ~FatalCloses
    BY <2>3 DEF ChatInit, ReadFails, FatalCloses, IsOpen, OpenStates
  <2>10. /\ \A p \in Publishers : ~PublishQueued(p)
         /\ \A c \in Closers : ~CloserStep(c)
    BY <2>3 DEF PublishQueued, CloserStep, Teardown, CloserEnds
  <2> QED
    BY <2>5, <2>6, <2>7, <2>8, <2>9, <2>10 DEF Next
<1> QED
  BY <1>1, <1>2, TypeCorrect, PTL DEF Spec

-----------------------------------------------------------------------------
(* What the queues and the stack of dialogs keep *)
LEMMA TellsAppend ==
  ASSUME NEW s \in Seq(Events), NEW e \in Events, Tells(s) \/ e.type # "chat_id"
  PROVE  Tells(Append(s, e))
<1>1. /\ Len(s) \in Nat /\ DOMAIN s = 1 .. Len(s)
      /\ DOMAIN Append(s, e) = 1 .. Len(s) + 1
      /\ \A i \in 1 .. Len(s) : Append(s, e)[i] = s[i]
      /\ Append(s, e)[Len(s) + 1] = e
  BY AppendProperties, LenProperties
<1> QED
  BY <1>1 DEF Tells

LEMMA TellsTail ==
  ASSUME NEW s \in Seq(Events), s # <<>>, Tells(s)
  PROVE  Head(s).type # "chat_id" \/ Tells(Tail(s))
<1>1. /\ Len(s) \in Nat \ {0} /\ DOMAIN s = 1 .. Len(s)
      /\ DOMAIN Tail(s) = 1 .. Len(s) - 1 /\ Head(s) = s[1]
      /\ \A i \in 1 .. Len(s) - 1 : Tail(s)[i] = s[i + 1]
  BY EmptySeq, LenProperties, HeadTailProperties
<1>2. PICK i \in 1 .. Len(s) : s[i].type # "chat_id"
  BY <1>1 DEF Tells
<1>3. CASE i = 1
  BY <1>1, <1>2, <1>3
<1>4. CASE i # 1
  <2>1. i - 1 \in 1 .. Len(s) - 1 /\ Tail(s)[i - 1] = s[i]
    BY <1>1, <1>4
  <2> QED
    BY <1>1, <1>2, <2>1 DEF Tells
<1> QED
  BY <1>3, <1>4

LEMMA TellsConcat ==
  ASSUME NEW s \in Seq(Events), NEW t \in Seq(Events), Tells(s) \/ Tells(t)
  PROVE  Tells(s \o t)
<1>1. /\ Len(s) \in Nat /\ DOMAIN s = 1 .. Len(s)
      /\ Len(t) \in Nat /\ DOMAIN t = 1 .. Len(t)
      /\ DOMAIN (s \o t) = 1 .. Len(s) + Len(t)
      /\ \A i \in 1 .. Len(s) : (s \o t)[i] = s[i]
      /\ \A i \in 1 .. Len(t) : (s \o t)[Len(s) + i] = t[i]
  BY ConcatProperties, LenProperties
<1>2. CASE Tells(s)
  BY <1>1, <1>2 DEF Tells
<1>3. CASE Tells(t)
  <2>1. PICK i \in 1 .. Len(t) : t[i].type # "chat_id"
    BY <1>1, <1>3 DEF Tells
  <2>2. Len(s) + i \in 1 .. Len(s) + Len(t)
    BY <1>1
  <2> QED
    BY <1>1, <2>1, <2>2 DEF Tells
<1> QED
  BY <1>2, <1>3

LEMMA AllTell ==
  /\ Tells(OpenEvents) /\ Tells(DetectEvents) /\ Tells(CloseEvents)
  /\ Tells([i \in 1 .. Echoes |-> Event("read_failed")])
<1>1. Echoes \in Nat \ {0} /\ Event("read_failed").type = "read_failed"
  BY EchoesAssumption DEF Event
<1>2. Tells([i \in 1 .. Echoes |-> Event("read_failed")])
  BY <1>1 DEF Tells
<1>3. OpenEvents[3].type = "detector" /\ 3 \in DOMAIN OpenEvents
  BY DEF OpenEvents, Event
<1>4. DetectEvents[1].type = "detector" /\ 1 \in DOMAIN DetectEvents
  BY DEF DetectEvents, Event
<1>5. CloseEvents[3].type = "detector" /\ 3 \in DOMAIN CloseEvents
  BY DEF CloseEvents, Event
<1> QED
  BY <1>2, <1>3, <1>4, <1>5 DEF Tells

LEMMA Apology ==
  ASSUME ShownTypes
  PROVE  /\ Apologises(Append(dialogs, "failed"))
         /\ Apologises(dialogs) => Apologises(Append(dialogs, "ask"))
         /\ Apologises(dialogs) /\ dialogs # <<>> /\ Last(dialogs) # "failed"
            => Apologises(Front(dialogs))
<1>1. \A d : /\ Len(dialogs) \in Nat /\ DOMAIN dialogs = 1 .. Len(dialogs)
             /\ DOMAIN Append(dialogs, d) = 1 .. Len(dialogs) + 1
             /\ \A i \in 1 .. Len(dialogs) : Append(dialogs, d)[i] = dialogs[i]
             /\ Append(dialogs, d)[Len(dialogs) + 1] = d
  BY AppendProperties, LenProperties DEF ShownTypes
<1>2. Apologises(Append(dialogs, "failed"))
  BY <1>1 DEF Apologises
<1>3. Apologises(dialogs) => Apologises(Append(dialogs, "ask"))
  BY <1>1 DEF Apologises
<1>4. ASSUME Apologises(dialogs), dialogs # <<>>, Last(dialogs) # "failed"
      PROVE  Apologises(Front(dialogs))
  <2>1. /\ Len(dialogs) - 1 \in Nat /\ Len(Front(dialogs)) = Len(dialogs) - 1
        /\ Front(dialogs) \in Seq({"failed", "ask"})
        /\ \A i \in 1 .. Len(dialogs) - 1 : Front(dialogs)[i] = dialogs[i]
    BY <1>4, FrontTypes
  <2>2. DOMAIN Front(dialogs) = 1 .. Len(dialogs) - 1
    BY <2>1, LenProperties
  <2>3. PICK i \in 1 .. Len(dialogs) : dialogs[i] = "failed"
    BY <1>1, <1>4 DEF Apologises
  <2>4. i # Len(dialogs)
    BY <1>4, <2>3 DEF Last
  <2>5. i \in 1 .. Len(dialogs) - 1
    BY <1>1, <2>4
  <2> QED
    BY <2>1, <2>2, <2>3, <2>5 DEF Apologises
<1> QED
  BY <1>2, <1>3, <1>4

-----------------------------------------------------------------------------
(* A step that leaves the menu and the state alone, and takes nothing from *)
(* those who will see to the menu                                          *)
LEMMA Kept ==
  ASSUME MenuInv, UNCHANGED <<menu, state>>, "open" \in lost => "open" \in lost',
         UiWill => UiWill', InitWill => InitWill', CloserWill => CloserWill',
         EventsWill => EventsWill', Apologises(dialogs) => Apologises(dialogs)'
  PROVE  MenuInv'
BY DEF MenuInv, Will

LEMMA Said ==
  ASSUME EventTypes, NEW p \in Publishers, NEW events, Tells(events), Say(p, events)
  PROVE  MenuInv'
<1>1. todo'[p] = events
  BY DEF EventTypes, Say
<1> QED
  BY <1>1 DEF MenuInv, Will, EventsWill

(* What a slot is told of, the menu shows, or a dialog is in the way of.   *)
LEMMA SlotUpdates ==
  ASSUME ShownTypes, NEW e \in Events, Slot(e), UNCHANGED state
  PROVE  /\ "open" \in lost => "open" \in lost'
         /\ Apologises(dialogs) => Apologises(dialogs)'
         /\ \/ menu' = state' \/ Apologises(dialogs)'
            \/ e.type \in {"chat_id", "read_failed"} /\ menu' = menu
<1> USE DEF OnOpened, OnClosed, OnFailed, OnChatId, AskReopen, OnCamera, OnDetector,
            UpdateActions, HideOverlay, ShowOverlay, shown
<1>1. e.type \in Kinds
  BY DEF Events
<1>2. "open" \in lost => "open" \in lost'
  BY <1>1 DEF Slot, Kinds
<1>3. dialogs' \in {dialogs, Append(dialogs, "failed"), Append(dialogs, "ask")}
  BY <1>1 DEF Slot, Kinds
<1>4. \/ menu' = state' \/ dialogs' = Append(dialogs, "failed")
      \/ e.type \in {"chat_id", "read_failed"} /\ menu' = menu
  BY <1>1 DEF Slot, Kinds
<1> QED
  BY <1>2, <1>3, <1>4, Apology

LEMMA EventStepMenu ==
  ASSUME Types, Types', MenuInv,
         \/ PublishDirect \/ HandleEvent \/ ReadFails \/ ChatInit
         \/ \E p \in Publishers : PublishQueued(p)
  PROVE  MenuInv'
<1> USE DEF gateway, threads, shown, user
<1>1. todo \in [Publishers -> Seq(Events)] /\ queue \in Seq(Events) /\ "ui" \in Publishers
  BY DEF Types, EventTypes, Publishers, Openers
<1>2. CASE PublishDirect
  <2> DEFINE e == Head(todo["ui"])
  <2>1. e \in UiEvents /\ e \in Events /\ todo["ui"] # <<>>
    BY <1>2, HeadTailProperties DEF PublishDirect, Silent, Types, EventTypes, UiEvents
  <2>2. Stamp(e) \in Events /\ Stamp(e).type = e.type
    BY <2>1, StampProperties DEF Types
  <2>3. Tells(todo["ui"]) => e.type # "chat_id" \/ Tells(Tail(todo["ui"]))
    BY <1>1, <2>1, TellsTail
  <2> HIDE DEF e
  <2>4. /\ Slot(Stamp(e)) /\ todo' = [todo EXCEPT !["ui"] = Tail(todo["ui"])]
        /\ UNCHANGED <<state, closer, pc, queue>>
    BY <1>2 DEF PublishDirect, Say, e
  <2>5. /\ "open" \in lost => "open" \in lost'
        /\ Apologises(dialogs) => Apologises(dialogs)'
        /\ \/ menu' = state' \/ Apologises(dialogs)'
           \/ e.type \in {"chat_id", "read_failed"} /\ menu' = menu
    BY <2>2, <2>4, SlotUpdates DEF Types
  <2>6. CASE e.type = "chat_id" /\ menu' = menu
    <3>1. EventsWill => EventsWill'
      BY <1>1, <2>3, <2>4, <2>6 DEF EventsWill
    <3> QED
      BY <2>4, <2>5, <2>6, <3>1, Kept DEF UiWill, InitWill, CloserWill
  <2>7. e.type # "read_failed"
    BY <2>1 DEF UiEvents
  <2> QED
    BY <2>5, <2>6, <2>7 DEF MenuInv, Will
<1>3. CASE HandleEvent
  <2> DEFINE e == Head(queue)
  <2>1. e \in Events /\ queue # <<>> /\ Tail(queue) \in Seq(Events)
    BY <1>1, <1>3, HeadTailProperties DEF HandleEvent
  <2>2. Tells(queue) => e.type # "chat_id" \/ Tells(Tail(queue))
    BY <1>1, <2>1, TellsTail
  <2>3. Slot(e) /\ UNCHANGED <<state, closer, pc, todo>>
    BY <1>3 DEF HandleEvent
  <2>4. /\ "open" \in lost => "open" \in lost'
        /\ Apologises(dialogs) => Apologises(dialogs)'
        /\ \/ menu' = state' \/ Apologises(dialogs)'
           \/ e.type \in {"chat_id", "read_failed"} /\ menu' = menu
    BY <2>1, <2>3, SlotUpdates DEF Types
  <2>5. CASE e.type = "chat_id" /\ menu' = menu
    <3>1. queue' = Tail(queue)
      BY <1>3, <2>5 DEF HandleEvent
    <3>2. EventsWill => EventsWill'
      BY <2>2, <2>3, <2>5, <3>1 DEF EventsWill
    <3> QED
      BY <2>3, <2>4, <2>5, <3>2, Kept DEF UiWill, InitWill, CloserWill
  <2>6. CASE e.type = "read_failed"
    <3>1. /\ queue' = Append(Tail(queue), Event("ask_reopen"))
          /\ Event("ask_reopen") \in Events /\ Event("ask_reopen").type = "ask_reopen"
      BY <1>3, <2>6 DEF HandleEvent, Event, Events, Kinds, Statuses
    <3>2. Tells(queue')
      BY <2>1, <3>1, TellsAppend
    <3> QED
      BY <3>2 DEF MenuInv, Will, EventsWill
  <2> QED
    BY <2>4, <2>5, <2>6 DEF MenuInv, Will
<1>4. CASE ReadFails
  <2>1. "drain" \in Publishers
    BY DEF Publishers
  <2> QED
    BY <1>4, <2>1, AllTell, Said DEF ReadFails, Types
<1>5. CASE ChatInit
  <2>1. /\ queue' = Append(queue, Event("chat_id")) /\ Event("chat_id") \in Events
    BY <1>5 DEF ChatInit, Event, Events, Kinds, Statuses
  <2>2. EventsWill => EventsWill'
    BY <1>1, <1>5, <2>1, TellsAppend DEF ChatInit, EventsWill
  <2> QED
    BY <1>5, <2>2, Kept DEF ChatInit, UiWill, InitWill, CloserWill
<1>6. ASSUME NEW p \in Publishers, PublishQueued(p) PROVE MenuInv'
  <2> DEFINE said == [i \in DOMAIN todo[p] |-> Stamp(todo[p][i])]
  <2>1. /\ Len(todo[p]) \in Nat /\ DOMAIN todo[p] = 1 .. Len(todo[p])
        /\ \A i \in 1 .. Len(todo[p]) : /\ Stamp(todo[p][i]) \in Events
                                        /\ Stamp(todo[p][i]).type = todo[p][i].type
    BY <1>1, LenProperties, ElementOfSeq, StampProperties DEF Types
  <2>2. said \in Seq(Events)
    BY <2>1, IsASeq
  <2>3. Tells(todo[p]) => Tells(said)
    BY <2>1 DEF Tells
  <2> HIDE DEF said
  <2>4. /\ queue' = queue \o said /\ todo' = [todo EXCEPT ![p] = <<>>]
        /\ UNCHANGED <<state, closer, pc, menu, lost, dialogs>>
    BY <1>6 DEF PublishQueued, Say, said
  <2>5. Tells(queue) \/ Tells(todo[p]) => Tells(queue')
    BY <1>1, <2>2, <2>3, <2>4, TellsConcat
  <2>6. \A q \in Publishers \ {p} : todo'[q] = todo[q]
    BY <1>1, <2>4
  <2>7. EventsWill => EventsWill'
    BY <2>5, <2>6 DEF EventsWill
  <2> QED
    BY <2>4, <2>7, Kept DEF UiWill, InitWill, CloserWill
<1> QED
  BY <1>2, <1>3, <1>4, <1>5, <1>6

(* Turning the detection on or off is told, and what is not told changes   *)
(* nothing.                                                                *)
LEMMA TogglesMenu ==
  ASSUME EventTypes, MenuInv, NEW p \in Publishers, NEW on, Toggles(p, on),
         UiWill => UiWill', InitWill => InitWill',
         UNCHANGED <<closer, queue, menu, lost, dialogs>>
  PROVE  MenuInv'
<1>1. CASE Say(p, DetectEvents)
  BY <1>1, AllTell, Said
<1>2. CASE UNCHANGED <<state, todo>>
  BY <1>2, Kept DEF CloserWill, EventsWill
<1> QED
  BY <1>1, <1>2 DEF Toggles

LEMMA OpenStepMenu ==
  ASSUME Types, MenuInv, Untouched, NEW t \in Openers, OpenStep(t)
  PROVE  MenuInv'
<1> USE DEF gateway, threads, shown, user, Ready
<1>1. /\ t \in {"ui", "init"} /\ "init" \in Publishers
      /\ pc \in [Openers -> Points] /\ "ui" \in Openers /\ "init" \in Openers
  BY DEF Openers, Publishers, Types, ThreadTypes
<1>2. CASE t = "ui" /\ OpenGivesUp("ui")
  BY <1>2 DEF OpenGivesUp, GivesUp, MenuInv
<1>3. CASE t = "ui" /\ OpenEnds("ui")
  BY <1>3 DEF OpenEnds, UpdateActions, MenuInv
<1>4. CASE t = "ui" /\ ~OpenGivesUp("ui") /\ ~OpenEnds("ui")
  <2>1. UiWill'
    BY <1>1, <1>4 DEF OpenStep, OpenClaim, CameraFails, CameraUp, OpenBreaks, OpenReady,
       Restore, RestoreBreaks, Goto, UiWill
  <2> QED
    BY <2>1 DEF MenuInv, Will
<1>5. CASE t = "init" /\ OpenClaim("init")
  <2>1. state = "idle"
    BY <1>5 DEF OpenClaim, Untouched
  <2>2. InitWill'
    BY <1>1, <1>5, <2>1 DEF OpenClaim, Goto, InitWill
  <2> QED
    BY <2>2 DEF MenuInv, Will
<1>6. CASE t = "init" /\ (CameraFails("init") \/ CameraUp("init") \/ OpenBreaks("init")
                      \/ RestoreBreaks("init"))
  <2>1. InitWill'
    BY <1>1, <1>6 DEF CameraFails, CameraUp, OpenBreaks, RestoreBreaks, Goto, InitWill
  <2> QED
    BY <2>1 DEF MenuInv, Will
<1>7. CASE t = "init" /\ OpenGivesUp("init")
  BY <1>7 DEF OpenGivesUp, MenuInv
<1>8. CASE t = "init" /\ OpenReady("init")
  BY <1>1, <1>8, AllTell, Said DEF OpenReady, Types
<1>9. CASE t = "init" /\ (Restore("init") \/ OpenEnds("init"))
  <2>1. /\ (UiWill => UiWill') /\ (InitWill => InitWill')
        /\ UNCHANGED <<closer, queue, menu, lost, dialogs>>
    BY <1>1, <1>9 DEF Restore, OpenEnds, Goto, UiWill, InitWill
  <2>2. CASE \E on : Toggles("init", on)
    BY <1>1, <2>1, <2>2, TogglesMenu DEF Types
  <2>3. CASE UNCHANGED <<state, todo>>
    BY <2>1, <2>3, Kept DEF CloserWill, EventsWill
  <2> QED
    BY <1>9, <2>2, <2>3 DEF Restore, OpenEnds
<1> QED
  BY <1>1, <1>2, <1>3, <1>4, <1>5, <1>6, <1>7, <1>8, <1>9 DEF OpenStep

(* A close is told of when it is over, by the thread that carries it out. *)
LEMMA CloseMenu ==
  ASSUME Types, MenuInv, CloseCamera, UiWill => UiWill', InitWill => InitWill',
         UNCHANGED <<todo, queue, menu, lost, dialogs>>
  PROVE  MenuInv'
<1>1. CASE IsOpen
  <2>1. PICK c \in Free : closer' = [closer EXCEPT ![c] = "teardown"]
    BY <1>1 DEF CloseCamera
  <2>2. CloserWill'
    BY <2>1 DEF CloserWill, Free, Types, ThreadTypes
  <2> QED
    BY <2>2 DEF MenuInv, Will
<1>2. CASE ~IsOpen
  BY <1>2, Kept DEF CloseCamera, CloserWill, EventsWill
<1> QED
  BY <1>1, <1>2

LEMMA CloseStepMenu ==
  ASSUME Types, MenuInv, CallClose \/ FatalCloses \/ \E c \in Closers : CloserStep(c)
  PROVE  MenuInv'
<1> USE DEF gateway, threads, shown, user
<1>1. pc \in [Openers -> Points] /\ "ui" \in Openers /\ "init" \in Openers
  BY DEF Types, ThreadTypes, Openers
<1>2. CASE CallClose
  <2>1. (UiWill => UiWill') /\ (InitWill => InitWill')
    BY <1>1, <1>2 DEF CallClose, Ready, Goto, UiWill, InitWill
  <2> QED
    BY <1>2, <2>1, CloseMenu DEF CallClose
<1>3. CASE FatalCloses
  BY <1>3, CloseMenu DEF FatalCloses, UiWill, InitWill
<1>4. ASSUME NEW c \in Closers, Teardown(c) PROVE MenuInv'
  BY <1>4, AllTell, Said DEF Teardown, Publishers, Types
<1>5. ASSUME NEW c \in Closers, CloserEnds(c) PROVE MenuInv'
  <2>1. CloserWill => CloserWill'
    BY <1>5 DEF CloserEnds, CloserWill, Types, ThreadTypes
  <2> QED
    BY <1>5, <2>1, Kept DEF CloserEnds, UiWill, InitWill, EventsWill
<1> QED
  BY <1>2, <1>3, <1>4, <1>5 DEF CloserStep

LEMMA UserMenu ==
  ASSUME Types, MenuInv, User \/ WaitEnds
  PROVE  MenuInv'
<1> USE DEF gateway, threads, shown, user
<1>1. /\ pc \in [Openers -> Points] /\ "ui" \in Openers /\ "init" \in Openers
      /\ "ui" \in Publishers
  BY DEF Types, ThreadTypes, Openers, Publishers
<1>2. CASE ClickOpen
  BY <1>1, <1>2, Kept DEF ClickOpen, ShowLoading, UpdateActions, MenuInv, Will, UiWill,
     InitWill, CloserWill, EventsWill
<1>3. CASE ClickClose \/ WaitEnds
  BY <1>3 DEF ClickClose, WaitEnds, ShowLoading, UpdateActions, MenuInv
<1>4. CASE ClickDevice
  <2>1. CASE IsOpen
    <3>1. UiWill'
      BY <1>1, <1>4, <2>1 DEF ClickDevice, Goto, UiWill
    <3> QED
      BY <3>1 DEF MenuInv, Will
  <2>2. CASE ~IsOpen
    BY <1>4, <2>2 DEF ClickDevice, ShowLoading, UpdateActions, MenuInv
  <2> QED
    BY <2>1, <2>2
<1>5. ASSUME NEW on \in BOOLEAN, ClickDetection(on) PROVE MenuInv'
  <2>1. (UiWill => UiWill') /\ (InitWill => InitWill')
    BY <1>1, <1>5 DEF ClickDetection, Click, Goto, UiWill, InitWill
  <2> QED
    BY <1>1, <1>5, <2>1, TogglesMenu DEF ClickDetection, Types
<1>6. CASE HideWindow \/ ShowWindow
  BY <1>6, Kept DEF HideWindow, ShowWindow, UiWill, InitWill, CloserWill, EventsWill
<1>7. CASE Acknowledge
  <2>1. dialogs # <<>> /\ dialogs' = Front(dialogs)
        /\ UNCHANGED <<state, pc, closer, todo, queue, lost>>
    BY <1>7 DEF Acknowledge, Answerable
  <2>2. CASE Last(dialogs) = "failed"
    BY <1>7, <2>1, <2>2 DEF Acknowledge, UpdateActions, MenuInv
  <2>3. CASE Last(dialogs) # "failed"
    <3>1. Apologises(dialogs) => Apologises(dialogs)'
      BY <2>1, <2>3, Apology DEF Types
    <3> QED
      BY <1>7, <2>1, <2>3, <3>1, Kept DEF Acknowledge, UiWill, InitWill, CloserWill,
         EventsWill
  <2> QED
    BY <2>2, <2>3
<1>8. CASE Reopen
  <2>1. dialogs # <<>> /\ dialogs' = Front(dialogs) /\ Last(dialogs) # "failed"
        /\ UNCHANGED <<state, closer, todo, queue>>
    BY <1>8 DEF Reopen, Answerable
  <2>2. CASE Busy \/ IsOpen
    <3>1. Apologises(dialogs) => Apologises(dialogs)'
      BY <2>1, Apology DEF Types
    <3>2. UNCHANGED <<pc, menu, lost>>
      BY <1>8, <2>2 DEF Reopen
    <3> QED
      BY <2>1, <3>1, <3>2, Kept DEF UiWill, InitWill, CloserWill, EventsWill
  <2>3. CASE ~(Busy \/ IsOpen)
    BY <1>8, <2>1, <2>3 DEF Reopen, ShowLoading, UpdateActions, MenuInv
  <2> QED
    BY <2>2, <2>3
<1> QED
  BY <1>2, <1>3, <1>4, <1>5, <1>6, <1>7, <1>8 DEF User

LEMMA NextMenu == Types /\ Types' /\ Untouched /\ MenuInv /\ [Next]_vars => MenuInv'
<1> SUFFICES ASSUME Types, Types', Untouched, MenuInv, [Next]_vars PROVE MenuInv'
  OBVIOUS
<1>1. CASE UNCHANGED vars
  BY <1>1, Kept DEF vars, gateway, threads, shown, user, UiWill, InitWill, CloserWill,
     EventsWill
<1>2. CASE Next
  <2>1. "ui" \in Openers /\ "init" \in Openers
    BY DEF Openers
  <2> QED
    BY <1>2, <2>1, EventStepMenu, OpenStepMenu, CloseStepMenu, UserMenu
    DEF Next, UiStep
<1> QED
  BY <1>1, <1>2

-----------------------------------------------------------------------------
(* Every state change of the gateway is followed by an event, by the       *)
(* return of the call that made it or by the answer to a dialog, each of   *)
(* which ends in _update_action_states, and none comes before its change:  *)
(* once they have all come the menu shows the state the gateway is in.     *)
THEOREM MenuInStepHolds == Spec => []MenuInStep
<1>1. Init => MenuInv
  BY DEF Init, MenuInv, Will, InitWill
<1>2. MenuInv => MenuInStep
  <2> SUFFICES ASSUME MenuInv, Quiet, "open" \notin lost PROVE menu = state
    BY DEF MenuInStep
  <2>1. ~UiWill /\ ~InitWill /\ ~CloserWill
    BY DEF Quiet, UiWill, InitWill, CloserWill
  <2>2. ~EventsWill /\ ~Apologises(dialogs)
    BY DEF Quiet, Silent, EventsWill, Apologises, Tells
  <2> QED
    BY <2>1, <2>2 DEF MenuInv, Will
<1> QED
  BY <1>1, <1>2, NextMenu, TypeCorrect, UntouchedAlways, PTL DEF Spec
=============================================================================
