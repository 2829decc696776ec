----------------------- MODULE SnapshotServiceProofs -----------------------
(***************************************************************************)
(* Theorems about SnapshotService for any number of threads and labels,    *)
(* any interval and any delay between reading the clock and deciding: only *)
(* a save that is decided out of order can break the throttle, and only an *)
(* imwrite that fails without an exception makes the counter wrong.        *)
(***************************************************************************)
EXTENDS SnapshotService, FiniteSetTheorems, TLAPS

LEMMA InitTypeOK == Init => TypeOK
<1> SUFFICES ASSUME Init PROVE TypeOK
  OBVIOUS
<1>1. Interval \in Times
  BY SnapshotAssumption DEF Times
<1>2. now \in [Threads -> Times]
  BY <1>1 DEF Init
<1>3. present \in [Threads -> SUBSET Labels]
  BY DEF Init
<1> QED
  BY <1>1, <1>2, <1>3 DEF Init, TypeOK

LEMMA StepTypeOK ==
  ASSUME TypeOK, NEW t \in Threads, Step(t)
  PROVE  TypeOK'
<1> USE SnapshotAssumption DEF TypeOK, Times, Never, Goto, hist
<1>1. CASE \E labels \in SUBSET Labels : Enter(t, labels)
  BY <1>1 DEF Enter
<1>2. CASE Stamp(t)
  BY <1>2 DEF Stamp
<1>3. CASE Decide(t)
  <2>1. last' \in [Labels -> {Never} \cup Times]
    BY <1>3 DEF Decide, Refresh
  <2>2. trigger' \in [Labels -> {Never} \cup Times]
    BY <1>3 DEF Decide, Record
  <2>3. files' \in Nat
    BY <1>3 DEF Decide, Write
  <2>4. reordered' = reordered \/ reordered' = (reordered \/ OutOfOrder(t))
    BY <1>3 DEF Decide, Record
  <2>5. reordered' \in BOOLEAN
    BY <2>4
  <2> QED
    BY <1>3, <2>1, <2>2, <2>3, <2>5 DEF Decide
<1>4. CASE Count(t)
  BY <1>4 DEF Count
<1> QED
  BY <1>1, <1>2, <1>3, <1>4 DEF Step

(* Every variable keeps its type. *)
THEOREM TypeCorrect == Spec => []TypeOK
<1>1. TypeOK /\ [Next]_vars => TypeOK'
  <2> SUFFICES ASSUME TypeOK, [Next]_vars PROVE TypeOK'
    OBVIOUS
  <2>1. CASE Tick
    BY <2>1, SnapshotAssumption DEF Tick, TypeOK, Times, locals, hist
  <2>2. CASE ResetCooldowns
    BY <2>2 DEF ResetCooldowns, TypeOK, locals
  <2>3. CASE \E value \in BOOLEAN : SetEnabled(value)
    BY <2>3 DEF SetEnabled, TypeOK, locals, hist
  <2>4. CASE \E t \in Threads : Step(t)
    BY <2>4, StepTypeOK
  <2>5. CASE UNCHANGED vars
    BY <2>5 DEF TypeOK, vars, locals, hist
  <2> QED
    BY <2>1, <2>2, <2>3, <2>4, <2>5 DEF Next
<1> QED
  BY <1>1, InitTypeOK, PTL DEF Spec

-----------------------------------------------------------------------------
(* As long as no save is decided out of order, a label's clock is at least *)
(* as late as the last save the label triggered: it is that save's time,   *)
(* or that of a later save which the label only shared.                    *)
ClockCovers == ~reordered => \A l \in Labels : trigger[l] <= last[l]

LEMMA DecideCovers ==
  ASSUME TypeOK, ClockCovers, NEW t \in Threads, Decide(t)
  PROVE  ClockCovers'
<1>1. CASE Saves(t) /\ Write /\ Refresh(t) /\ Record(t) /\ Goto(t, "count")
  <2>1. SUFFICES ASSUME ~reordered', NEW l \in Labels PROVE trigger'[l] <= last'[l]
    BY DEF ClockCovers
  <2>2. ~reordered /\ ~OutOfOrder(t)
    BY <1>1, <2>1 DEF Record, TypeOK
  <2>3. trigger[l] <= last[l]
    BY <2>2 DEF ClockCovers
  <2>4. CASE l \in Eligible(t)
    BY <1>1, <2>4, SnapshotAssumption DEF Refresh, Record, Eligible, TypeOK, Times
  <2>5. CASE l \in present[t] \ Eligible(t)
    <3>1. now[t] >= last[l]
      BY <2>2, <2>5, SnapshotAssumption DEF OutOfOrder, TypeOK, Times, Never
    <3> QED
      BY <1>1, <2>3, <2>5, <3>1, SnapshotAssumption
      DEF Refresh, Record, TypeOK, Times, Never
  <2>6. CASE l \notin present[t]
    BY <1>1, <2>3, <2>6 DEF Refresh, Record, Eligible
  <2> QED
    BY <2>4, <2>5, <2>6
<1>2. CASE UNCHANGED <<last, hist>>
  BY <1>2 DEF ClockCovers, hist
<1> QED
  BY <1>1, <1>2 DEF Decide

LEMMA ClockCoversAlways == Spec => []ClockCovers
<1>1. Init => ClockCovers
  BY DEF Init, ClockCovers, Never
<1>2. TypeOK /\ ClockCovers /\ [Next]_vars => ClockCovers'
  <2> SUFFICES ASSUME TypeOK, ClockCovers, [Next]_vars PROVE ClockCovers'
    OBVIOUS
  <2>1. CASE \E t \in Threads : Decide(t)
    BY <2>1, DecideCovers
  <2>2. CASE ResetCooldowns
    BY <2>2 DEF ResetCooldowns, ClockCovers, Never
  <2>3. CASE UNCHANGED <<last, hist>>
    BY <2>3 DEF ClockCovers, hist
  <2> QED
    BY <2>1, <2>2, <2>3 DEF Next, Tick, SetEnabled, Step, Enter, Stamp, Count, vars
<1> QED
  BY <1>1, <1>2, TypeCorrect, PTL DEF Spec

(* In the mode the program runs in and in strict mode, a label does not    *)
(* trigger a save twice within Interval, whatever the threads do and       *)
(* however stale the time they have read, until a save has been decided    *)
(* with a time older than one of the clocks it turns.                      *)
THEOREM SpacingInOrderHolds == Spec => SpacingInOrder
<1> DEFINE InOrder == ~reordered => \A t \in Threads, l \in Labels : Spaced(t, l)
<1>1. TypeOK /\ ClockCovers => InOrder
  <2> SUFFICES ASSUME TypeOK, ClockCovers, ~reordered, NEW t \in Threads,
                      NEW l \in Labels, Triggers(t, l)
               PROVE  now[t] - trigger[l] >= Interval
    BY DEF Spaced
  <2>1. now[t] - last[l] >= Interval /\ trigger[l] <= last[l]
    BY DEF ClockCovers, Triggers, Eligible
  <2> QED
    BY <2>1, SnapshotAssumption DEF TypeOK, Times, Never
<1> QED
  BY <1>1, TypeCorrect, ClockCoversAlways, PTL DEF SpacingInOrder
-----------------------------------------------------------------------------
(* However many threads there are, only so many are between writing a file *)
(* and counting it as have written one, provided that a write which fails  *)
(* raises.                                                                 *)
NoSilentFailure == "returns_false" \notin Disk

CountInv == IsFiniteSet(Counting) /\ CountsFiles

LEMMA StepCounts ==
  ASSUME NoSilentFailure, TypeOK, CountInv, NEW t \in Threads, Step(t)
  PROVE  CountInv'
<1> USE DEF CountInv, CountsFiles
<1>0. /\ IsFiniteSet(Counting) /\ Cardinality(Counting) \in Nat
      /\ count \in Nat /\ files \in Nat
  BY FS_CardinalityType DEF TypeOK
<1>1. CASE Counting' = Counting /\ UNCHANGED <<count, files>>
  BY <1>1
<1>2. CASE Decide(t) /\ pc'[t] = "count"
  <2>1. t \notin Counting /\ Counting' = Counting \cup {t}
    BY <1>2 DEF Decide, Goto, Counting, TypeOK
  <2>2. /\ IsFiniteSet(Counting \cup {t})
        /\ Cardinality(Counting \cup {t}) = Cardinality(Counting) + 1
    BY <1>0, <2>1, FS_AddElement
  <2>3. files' = files + 1 /\ count' = count
    BY <1>0, <1>2 DEF NoSilentFailure, Decide, Write, Goto, TypeOK
  <2> QED
    BY <1>0, <2>1, <2>2, <2>3
<1>3. CASE Count(t)
  <2>1. t \in Counting /\ Counting' = Counting \ {t}
    BY <1>3 DEF Count, Goto, Counting, TypeOK
  <2>2. /\ IsFiniteSet(Counting \ {t})
        /\ Cardinality(Counting \ {t}) = Cardinality(Counting) - 1
    BY <1>0, <2>1, FS_RemoveElement
  <2>3. count' = count + 1 /\ UNCHANGED files
    BY <1>3 DEF Count, hist
  <2> QED
    BY <1>0, <2>1, <2>2, <2>3
<1>4. CASE (\E labels \in SUBSET Labels : Enter(t, labels)) \/ Stamp(t)
  <2>1. Counting' = Counting /\ UNCHANGED <<count, files>>
    BY <1>4 DEF Enter, Stamp, Goto, Counting, TypeOK, hist
  <2> QED
    BY <1>1, <2>1
<1>5. CASE Decide(t) /\ pc'[t] # "count"
  <2>1. Counting' = Counting /\ UNCHANGED <<count, files>>
    BY <1>5 DEF Decide, Goto, Counting, TypeOK, hist
  <2> QED
    BY <1>1, <2>1
<1> QED
  BY <1>2, <1>3, <1>4, <1>5 DEF Step

(* If imwrite either writes or raises, save_count is the number of files,  *)
(* except for the saves under way, whatever the threads do: its returning  *)
(* False is the only way in which the counter can be wrong.                *)
THEOREM CountsFilesHolds ==
  ASSUME NoSilentFailure
  PROVE  Spec => []CountsFiles
<1>1. Init => CountInv
  <2>1. Init => Counting = {}
    BY DEF Init, Counting
  <2> QED
    BY <2>1, FS_EmptySet DEF Init, CountInv, CountsFiles
<1>2. TypeOK /\ CountInv /\ [Next]_vars => CountInv'
  <2> SUFFICES ASSUME TypeOK, CountInv, UNCHANGED <<count, pc, files>>
               PROVE  CountInv'
    BY NoSilentFailure, StepCounts
    DEF Next, Tick, ResetCooldowns, SetEnabled, locals, hist, vars
  <2>1. Counting' = Counting
    BY DEF Counting
  <2> QED
    BY <2>1 DEF CountInv, CountsFiles
<1> QED
  BY <1>1, <1>2, TypeCorrect, PTL DEF Spec, CountInv
=============================================================================
