-------------------------- MODULE DetectionDispatch --------------------------
(***************************************************************************)
(* What happens to the results of a detection: _on_detection_results of    *)
(* gateway/controller.py queues a task, a pool thread saves a snapshot,    *)
(* and when one was saved NotificationService queues a second task to the  *)
(* same pool, which sends the message.                                     *)
(*                                                                         *)
(* The module composes WorkerPool and SnapshotService: their variables are *)
(* declared here and every step on them is a step of theirs.  Its own      *)
(* state is the flags that users toggle, where each worker is inside its   *)
(* task, and what became of every saved snapshot.  One camera session; the *)
(* thread that hands results over is the pipeline's subscriber.  The save  *)
(* interval is 0, a value the configuration allows, so that every result   *)
(* may lead to a save and time does not matter: the throttle is the        *)
(* subject of SnapshotService itself.                                      *)
(***************************************************************************)
EXTENDS Integers, Sequences, FiniteSets

CONSTANTS
  NumWorkers, Capacity,                          \* of the pool
  Labels, Disk,                                  \* of the snapshot service
  Targets,     \* NotificationServiceConfig.target_classes
  MaxResults,  \* bound: results handed over
  MaxToggles   \* bound: how often users toggle anything

ASSUME DispatchAssumption ==
  /\ NumWorkers \in Nat \ {0} /\ Capacity \in Nat \ {0}
  /\ Disk \subseteq {"written", "raises", "returns_false"}
  /\ Targets \subseteq Labels /\ MaxToggles \in Nat /\ MaxResults \in Nat

MaxTasks   == 2 * MaxResults
Workers    == 1 .. NumWorkers
Subscriber == 0
Producers  == Workers \cup {Subscriber}
Stopper    == "stop"
Closers    == {Stopper}

VARIABLES
  queue, shutdown, dropped, submitted, producer, offer, worker, task, closer,
  step, entered, taken,                          \* of the pool
  clock, enabled, last, count, pc, present, now, files, trigger,
  reordered,                                     \* of the snapshot service
  detecting,   \* _state is DETECTING
  toggled,     \* the last toggle has reached the snapshot service
  notifying,   \* _notification_enabled
  toggles,     \* bound: toggles so far
  connected,   \* the notifier has not been released
  job,         \* job[k]: what task k is
  point,       \* point[w]: where worker w is in its task
  fate         \* history: fate[k], what became of the snapshot of task k

poolVars == <<queue, shutdown, dropped, submitted, producer, offer, worker,
              task, closer, step, entered, taken>>
snapVars == <<clock, enabled, last, count, pc, present, now, files, trigger,
              reordered>>
flags    == <<detecting, toggled, notifying, connected, toggles>>
vars     == <<poolVars, snapVars, flags, job, point, fate>>

Pool == INSTANCE WorkerPool
Snap == INSTANCE SnapshotService WITH Threads <- Workers, MaxSaves <- MaxTasks,
          Interval <- 0, MaxTime <- 0, SaveOnNewClass <- TRUE

Tasks == Pool!Tasks

(* A task carries its kind; that of a detection, what the state was when   *)
(* the result came in; that of an alert, the detection it is about.        *)
NoJob == [kind |-> "none", running |-> FALSE, about |-> 0]
Jobs  == [kind : {"none", "detection", "alert"}, running : BOOLEAN, about : {0} \cup Tasks]

Init ==
  /\ Pool!Init /\ Snap!Init
  /\ detecting = FALSE /\ toggled = TRUE /\ notifying = TRUE /\ connected = TRUE
  /\ toggles = 0
  /\ job = [k \in Tasks |-> NoJob]
  /\ point = [w \in Workers |-> "idle"]
  /\ fate = [k \in Tasks |-> "none"]

Goto(w, to) == point' = [point EXCEPT ![w] = to]
At(w, here) == point[w] = here
Fate(k, what) == fate' = [fate EXCEPT ![k] = what]

-----------------------------------------------------------------------------
(* The users of the flags *)

CountToggle == toggles < MaxToggles /\ toggles' = toggles + 1

(* start_detection and stop_detection: the state, then the service's flag *)
Toggle ==
  /\ toggled /\ connected /\ CountToggle
  /\ detecting' = ~detecting /\ toggled' = FALSE
  /\ UNCHANGED <<poolVars, snapVars, notifying, connected, job, point, fate>>

ApplyToggle ==
  /\ ~toggled /\ toggled' = TRUE
  /\ Snap!SetEnabled(detecting)
  /\ UNCHANGED <<poolVars, detecting, notifying, connected, toggles, job, point, fate>>

(* enable_notification and disable_notification *)
SetNotifying ==
  /\ CountToggle /\ notifying' = ~notifying
  /\ UNCHANGED <<poolVars, snapVars, detecting, toggled, connected, job, point, fate>>

(* The close worker releases the notifier; the tasks keep their services.  *)
(* It is one step here with leaving DETECTING; results that arrive in      *)
(* CLOSING are like those that arrive while detection is off.              *)
Disconnect ==
  /\ connected /\ toggled
  /\ connected' = FALSE /\ detecting' = FALSE
  /\ UNCHANGED <<poolVars, snapVars, toggled, notifying, toggles, job, point, fate>>

(* stop() shuts the pool down after the camera is closed. *)
ShutDown ==
  /\ ~connected
  /\ \/ Pool!ShutdownCheck(Stopper) \/ Pool!ShutdownSet(Stopper)
     \/ Pool!SendSentinel(Stopper) \/ Pool!Join(Stopper)
  /\ UNCHANGED <<snapVars, flags, job, point, fate>>

-----------------------------------------------------------------------------
(* _on_detection_results *)

Detections == {k \in Tasks : job[k].kind = "detection"}

OnResults ==
  /\ connected /\ Cardinality(Detections) < MaxResults
  /\ Pool!Submit(Subscriber)
  /\ job' = [job EXCEPT ![submitted + 1] =
               [kind |-> "detection", running |-> detecting, about |-> 0]]
  /\ UNCHANGED <<snapVars, flags, point, fate>>

PutResults ==
  /\ Pool!Put(Subscriber)
  /\ UNCHANGED <<snapVars, flags, job, point, fate>>

-----------------------------------------------------------------------------
(* A pool thread: _worker_loop around _dispatch_detection and              *)
(* _dispatch_aggregated                                                    *)

Begin(k) == IF k = Pool!Sentinel THEN "idle"
            ELSE IF job[k].kind = "detection" THEN "dispatch" ELSE "send"

Loop(w) ==
  /\ \/ (Pool!Check(w) \/ Pool!GetTimeout(w)) /\ UNCHANGED point
     \/ Pool!Take(w) /\ Goto(w, Begin(Head(queue)))
     \/ At(w, "done") /\ Pool!Finish(w) /\ Goto(w, "idle")
  /\ UNCHANGED <<snapVars, flags, job, fate>>

(* _dispatch_detection calls save_snapshot if the detector was running.    *)
(* Without a save handle_results does nothing.                             *)
SkipSave(w) ==
  /\ At(w, "dispatch") /\ ~(job[task[w]].running /\ enabled)
  /\ Goto(w, "done")
  /\ UNCHANGED <<poolVars, snapVars, flags, job, fate>>

EnterSave(w) ==
  /\ At(w, "dispatch") /\ job[task[w]].running
  /\ \E labels \in SUBSET Labels : Snap!Enter(w, labels)
  /\ Goto(w, "save")
  /\ UNCHANGED <<poolVars, flags, job, fate>>

(* Mutation: the alert goes out although nothing was saved. *)
DecideAlways(w) ==
  /\ At(w, "save") /\ Snap!Decide(w)
  /\ Goto(w, IF pc'[w] = "count" THEN "save" ELSE "alert") /\ UNCHANGED fate
  /\ UNCHANGED <<poolVars, flags, job>>

DecideSave(w) ==
  /\ At(w, "save") /\ Snap!Decide(w)
  /\ IF pc'[w] = "count" THEN Fate(task[w], "saved") /\ UNCHANGED point
     ELSE Goto(w, "done") /\ UNCHANGED fate
  /\ UNCHANGED <<poolVars, flags, job>>

SaveSnapshot(w) ==
  \/ DecideSave(w)
  \/ /\ At(w, "save")
     /\ \/ Snap!Stamp(w) /\ UNCHANGED point
        \/ Snap!Count(w) /\ Goto(w, "alert")
     /\ UNCHANGED <<poolVars, flags, job, fate>>

(* handle_results: the class filter and the flag *)
HandleResults(w) ==
  /\ At(w, "alert")
  /\ IF present[w] \cap Targets # {} /\ notifying
     THEN Goto(w, "submit") /\ UNCHANGED fate
     ELSE Goto(w, "done") /\ Fate(task[w], "waived")
  /\ UNCHANGED <<poolVars, snapVars, flags, job>>

(* ... and submit to the pool from one of its own threads *)
SubmitAlert(w) ==
  /\ At(w, "submit") /\ Pool!Submit(w)
  /\ job' = [job EXCEPT ![submitted + 1] =
               [kind |-> "alert", running |-> FALSE, about |-> task[w]]]
  /\ IF shutdown THEN Goto(w, "done") /\ Fate(task[w], "refused")
     ELSE Goto(w, "put") /\ UNCHANGED fate
  /\ UNCHANGED <<snapVars, flags>>

(* Mutation: submit waits for room, as queue.put would. *)
PutWaiting(w) ==
  /\ At(w, "put") /\ ~Pool!Full /\ Pool!Put(w)
  /\ Goto(w, "done") /\ UNCHANGED fate
  /\ UNCHANGED <<snapVars, flags, job>>

(* A task that does not fit is dropped. *)
PutAlert(w) ==
  /\ At(w, "put") /\ Pool!Put(w) /\ Goto(w, "done")
  /\ IF Pool!Full THEN Fate(task[w], "refused") ELSE UNCHANGED fate
  /\ UNCHANGED <<snapVars, flags, job>>

(* Mutation: a notifier that has been released leaves the message behind. *)
SendConnected(w) ==
  LET k == job[task[w]].about IN
  /\ At(w, "send") /\ Goto(w, "done")
  /\ IF connected THEN Fate(k, IF fate[k] = "sent" THEN "sent twice" ELSE "sent")
     ELSE UNCHANGED fate
  /\ UNCHANGED <<poolVars, snapVars, flags, job>>

(* _dispatch_aggregated: send_message sends, or returns False or raises,   *)
(* which is all that is left to a notifier that has been released.         *)
Send(w) ==
  LET k == job[task[w]].about IN
  /\ At(w, "send") /\ Goto(w, "done")
  /\ \/ connected /\ Fate(k, IF fate[k] = "sent" THEN "sent twice" ELSE "sent")
     \/ Fate(k, "failed")
  /\ UNCHANGED <<poolVars, snapVars, flags, job>>

WorkerStep(w) ==
  \/ Loop(w) \/ SkipSave(w) \/ EnterSave(w) \/ SaveSnapshot(w)
  \/ HandleResults(w) \/ SubmitAlert(w) \/ PutAlert(w) \/ Send(w)

-----------------------------------------------------------------------------
Next ==
  \/ Toggle \/ ApplyToggle \/ SetNotifying \/ Disconnect \/ ShutDown
  \/ OnResults \/ PutResults
  \/ \E w \in Workers : WorkerStep(w)

Spec == Init /\ [][Next]_vars

(* Threads are scheduled and a shutdown that has begun goes on; sending    *)
(* has timeouts and a bounded number of retries.                           *)
Fairness ==
  /\ WF_vars(PutResults) /\ WF_vars(ApplyToggle)
  /\ WF_vars(ShutDown /\ closer[Stopper] # "ready")
  /\ \A w \in Workers : WF_vars(WorkerStep(w))

FairSpec == Spec /\ Fairness

-----------------------------------------------------------------------------
Points == {"idle", "dispatch", "save", "alert", "submit", "put", "send", "done"}
Fates  == {"none", "saved", "waived", "refused", "sent", "failed", "sent twice"}

(* The type invariant, with those of the two modules it composes. *)
TypeOK ==
  /\ Pool!TypeOK /\ Snap!TypeOK
  /\ detecting \in BOOLEAN /\ toggled \in BOOLEAN
  /\ notifying \in BOOLEAN /\ connected \in BOOLEAN /\ toggles \in 0 .. MaxToggles
  /\ job \in [Tasks -> Jobs] /\ point \in [Workers -> Points]
  /\ fate \in [Tasks -> Fates]

(* The notifier is asked for at most one message per saved snapshot (what  *)
(* it makes of it with its retries is its own), and for none without: an   *)
(* alert is about a detection that was running and was saved, whose label  *)
(* is monitored, and no two alerts are about the same (handle_results: the *)
(* interval of the snapshots is the only throttle of the messages); and    *)
(* save_count has counted it before (save_snapshot).                       *)
Alerts == {k \in Tasks : job[k].kind = "alert"}
MessagesAreSaves ==
  /\ \A k \in Alerts : LET about == job[k].about IN
       about \in Tasks /\ job[about].running /\ fate[about] # "none"
  /\ \A j, k \in Alerts : job[j].about = job[k].about => j = k
  /\ \A k \in Tasks : fate[k] # "sent twice"
  /\ Cardinality(Alerts) <= count

(* Handling a detection never waits for the pool it runs on, so a worker   *)
(* that has begun comes back, also when every worker submits an alert to a *)
(* full queue at once (NotificationService.handle_results).                *)
DispatchReturns ==
  \A w \in Workers : At(w, "dispatch") ~> At(w, "idle")

(* A snapshot that was saved, and so has used up the interval of its       *)
(* labels, leads to an alert that is sent, or fails, is refused by a full  *)
(* pool or waived by the filter or the switch, or to a shutdown; it is     *)
(* never just forgotten.                                                   *)
Pending == {k \in Tasks : fate[k] = "saved"}
AlertsAccounted == Pending # {} ~> Pending = {} \/ shutdown
=============================================================================
