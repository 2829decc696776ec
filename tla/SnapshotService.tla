--------------------------- MODULE SnapshotService ---------------------------
(***************************************************************************)
(* The per-class throttle of gateway/snapshot_service.py, as the workers   *)
(* of the pool use it: several threads in save_snapshot at once, while     *)
(* start_detection and stop_detection flip its flag.                       *)
(*                                                                         *)
(* save_snapshot reads the flag, then the clock, and only then takes       *)
(* _cooldown_lock; deciding, writing the file and refreshing the clocks of *)
(* the labels is one critical section; the counter is bumped after it.     *)
(***************************************************************************)
EXTENDS Integers, FiniteSets

CONSTANTS
  Threads,         \* threads that may be in save_snapshot
  Labels,          \* class labels
  Interval,        \* config.save_interval
  SaveOnNewClass,  \* config.save_on_new_class
  Disk,            \* what imwrite may do: "written", "raises", "returns_false"
  MaxTime,         \* bound: the latest time shown by the clock
  MaxSaves         \* bound: saves, counting those under way

ASSUME SnapshotAssumption ==
  /\ Interval \in Nat /\ MaxTime \in Nat /\ Interval <= MaxTime
  /\ MaxSaves \in Nat
  /\ SaveOnNewClass \in BOOLEAN
  /\ Disk \subseteq {"written", "raises", "returns_false"}

Never == 0     \* the default of _last_save_time.get
Times == Interval .. MaxTime

VARIABLES
  clock,     \* time.time(), far enough from 0 that Never is long ago
  enabled,   \* config.enabled
  last,      \* _last_save_time, Never where a label has no entry
  count,     \* _save_count
  pc,        \* control point of a thread
  present,   \* the labels of the frame a thread holds
  now,       \* the time a thread has read
  files,     \* history: number of files on disk
  trigger,   \* history: the time of the last save a label triggered
  reordered  \* history: a save was decided with a time older than a label's
             \* clock since the cooldowns were last reset

locals == <<pc, present, now>>
hist   == <<files, trigger, reordered>>
vars   == <<clock, enabled, last, count, locals, hist>>

Init ==
  /\ clock = Interval /\ enabled = FALSE
  /\ last = [l \in Labels |-> Never] /\ count = 0
  /\ pc = [t \in Threads |-> "ready"] /\ present = [t \in Threads |-> {}]
  /\ now = [t \in Threads |-> Interval]
  /\ files = 0 /\ trigger = [l \in Labels |-> Never] /\ reordered = FALSE

Goto(t, point) == pc' = [pc EXCEPT ![t] = point]

Tick ==
  /\ clock < MaxTime /\ clock' = clock + 1
  /\ UNCHANGED <<enabled, last, count, locals, hist>>

SetEnabled(value) ==
  /\ enabled' = value
  /\ UNCHANGED <<clock, last, count, locals, hist>>

ResetCooldowns ==
  /\ last' = [l \in Labels |-> Never]
  /\ trigger' = [l \in Labels |-> Never] /\ reordered' = FALSE
  /\ UNCHANGED <<clock, enabled, count, locals, files>>

-----------------------------------------------------------------------------
(* save_snapshot *)

Busy == {t \in Threads : pc[t] # "ready"}

(* Nothing is done when disabled or without results. *)
Enter(t, labels) ==
  /\ pc[t] = "ready" /\ count + Cardinality(Busy) < MaxSaves
  /\ present' = [present EXCEPT ![t] = labels]
  /\ enabled /\ labels # {} /\ Goto(t, "stamp")
  /\ UNCHANGED <<clock, enabled, last, count, now, hist>>

Stamp(t) ==
  /\ pc[t] = "stamp"
  /\ now' = [now EXCEPT ![t] = clock]
  /\ Goto(t, "decide")
  /\ UNCHANGED <<clock, enabled, last, count, present, hist>>

(* Mutation: off by one at the boundary of the interval. *)
EligibleEarly(t) == {l \in present[t] : now[t] - last[l] >= Interval - 1}

Eligible(t) == {l \in present[t] : now[t] - last[l] >= Interval}

Saves(t) == IF SaveOnNewClass THEN Eligible(t) # {} ELSE Eligible(t) = present[t]

(* Mutation: the clocks are kept in another unit than the time that is read. *)
RefreshMillis(t) ==
  last' = [l \in Labels |-> IF l \in present[t] THEN 1000 * now[t] ELSE last[l]]

(* Mutation: a label that did not trigger the save loses its clock. *)
RefreshTriggers(t) ==
  last' = [l \in Labels |-> IF l \in Eligible(t) THEN now[t]
                            ELSE IF l \in present[t] THEN Never ELSE last[l]]

(* The clock of every label in the frame is refreshed. *)
Refresh(t) == last' = [l \in Labels |-> IF l \in present[t] THEN now[t] ELSE last[l]]

(* A save by a thread whose time is older than the clock it turns. *)
OutOfOrder(t) == \E l \in present[t] : now[t] < last[l]

Record(t) ==
  /\ trigger' = [l \in Labels |-> IF l \in Eligible(t) THEN now[t] ELSE trigger[l]]
  /\ reordered' = (reordered \/ OutOfOrder(t))

(* imwrite: the file appears, or it returns False, which nobody looks at;  *)
(* an exception is caught and nothing is saved.                            *)
Write == \/ "written" \in Disk /\ files' = files + 1
         \/ "returns_false" \in Disk /\ UNCHANGED files

(* The critical section under _cooldown_lock. *)
Decide(t) ==
  /\ pc[t] = "decide"
  /\ \/ Saves(t) /\ Write /\ Refresh(t) /\ Record(t) /\ Goto(t, "count")
     \/ /\ ~Saves(t) \/ "raises" \in Disk
        /\ Goto(t, "ready") /\ UNCHANGED <<last, hist>>
  /\ UNCHANGED <<clock, enabled, count, present, now>>

Count(t) ==
  /\ pc[t] = "count"
  /\ count' = count + 1 /\ Goto(t, "ready")
  /\ UNCHANGED <<clock, enabled, last, present, now, hist>>

Step(t) ==
  \/ \E labels \in SUBSET Labels : Enter(t, labels)
  \/ Stamp(t) \/ Decide(t) \/ Count(t)

Next == \/ Tick \/ ResetCooldowns
        \/ \E value \in BOOLEAN : SetEnabled(value)
        \/ \E t \in Threads : Step(t)

Spec == Init /\ [][Next]_vars
-----------------------------------------------------------------------------
TypeOK ==
  /\ clock \in Times /\ enabled \in BOOLEAN
  /\ last \in [Labels -> {Never} \cup Times] /\ count \in Nat
  /\ pc \in [Threads -> {"ready", "stamp", "decide", "count"}]
  /\ present \in [Threads -> SUBSET Labels] /\ now \in [Threads -> Times]
  /\ files \in Nat /\ trigger \in [Labels -> {Never} \cup Times]
  /\ reordered \in BOOLEAN

(* The same label does not trigger a save more than once per Interval,     *)
(* whichever threads carry the frames and however stale the time is that   *)
(* they have read (SnapshotServiceConfig.save_interval).                   *)
Triggers(t, l) == pc[t] = "decide" /\ pc'[t] = "count" /\ l \in Eligible(t)
Spaced(t, l) ==
  Triggers(t, l) /\ trigger[l] # Never => now[t] - trigger[l] >= Interval
TriggerSpacing == [][\A t \in Threads, l \in Labels : Spaced(t, l)]_vars

(* Only a save that is decided out of the order of the times can break the *)
(* throttle: until one is, stale times, shared frames, failed writes and   *)
(* saves triggered by another label of the frame leave the spacing of      *)
(* every label intact (save_snapshot).                                     *)
SpacingInOrder ==
  [][~reordered => \A t \in Threads, l \in Labels : Spaced(t, l)]_vars

(* save_count is the number of snapshots that were written: a failed       *)
(* imwrite does not count (the docstring of save_count), so once no thread *)
(* is between the two, there is a file for every save that was counted.    *)
Counting == {t \in Threads : pc[t] = "count"}
CountsFiles == count + Cardinality(Counting) = files
=============================================================================
