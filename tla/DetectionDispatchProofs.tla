----------------------- MODULE DetectionDispatchProofs -----------------------
(***************************************************************************)
(* What holds of DetectionDispatch for every pool, every set of labels and *)
(* every number of results.  The theorems about the pool and the snapshot  *)
(* service are not proved again: the composition is shown to take only     *)
(* steps of theirs, and so to have what was proved about them.             *)
(***************************************************************************)
EXTENDS DetectionDispatch, SequenceTheorems, FiniteSetTheorems, TLAPS

PoolProofs == INSTANCE WorkerPoolProofs
SnapProofs == INSTANCE SnapshotServiceProofs WITH
                Threads <- Workers, MaxSaves <- MaxTasks,
                Interval <- 0, MaxTime <- 0, SaveOnNewClass <- TRUE

LEMMA PoolAssumed == PoolProofs!PoolAssumption
BY DispatchAssumption DEF PoolProofs!PoolAssumption, MaxTasks

LEMMA SnapAssumed == SnapProofs!SnapshotAssumption
BY DispatchAssumption DEF SnapProofs!SnapshotAssumption, MaxTasks

-----------------------------------------------------------------------------
(* The composition *)

Flags == /\ detecting \in BOOLEAN /\ toggled \in BOOLEAN
         /\ notifying \in BOOLEAN /\ connected \in BOOLEAN
         /\ toggles \in 0 .. MaxToggles

LEMMA FlagsAlways == Spec => []Flags
<1>1. Init => Flags
  <2>1. Init => toggles \in 0 .. MaxToggles
    BY DispatchAssumption DEF Init
  <2> QED
    BY <2>1 DEF Init, Flags
<1>2. Flags /\ [Next]_vars => Flags'
  <2> SUFFICES ASSUME Flags, [Next]_vars PROVE Flags'
    OBVIOUS
  <2>1. CASE UNCHANGED flags
    BY <2>1 DEF flags, Flags
  <2>2. CASE Toggle \/ ApplyToggle \/ SetNotifying \/ Disconnect
    <3>1. toggles' \in 0 .. MaxToggles
      BY <2>2, DispatchAssumption
      DEF Toggle, ApplyToggle, SetNotifying, Disconnect, CountToggle, Flags
    <3> QED
      BY <2>2, <3>1 DEF Toggle, ApplyToggle, SetNotifying, Disconnect, Flags
  <2> QED
    BY <2>1, <2>2
    DEF Next, vars, ShutDown, OnResults, PutResults, WorkerStep, Loop, SkipSave,
        EnterSave, SaveSnapshot, DecideSave, HandleResults, SubmitAlert, PutAlert, Send
<1> QED
  BY <1>1, <1>2, PTL DEF Spec

LEMMA NextIsPool == [Next]_vars => [Pool!Next]_(Pool!vars)
<1> SUFFICES ASSUME [Next]_vars PROVE [Pool!Next]_(Pool!vars)
  OBVIOUS
<1> USE DEF poolVars, Pool!vars, Pool!producers, Pool!workers, Pool!closers,
            Pool!history
<1>1. CASE UNCHANGED poolVars
  BY <1>1
<1>2. CASE ShutDown
  BY <1>2 DEF ShutDown, Pool!Next, Pool!CloserStep, Closers
<1>3. CASE OnResults \/ PutResults
  BY <1>3 DEF OnResults, PutResults, Pool!Next, Pool!ProducerStep, Producers
<1>4. ASSUME NEW w \in Workers, Loop(w) PROVE Pool!Next
  BY <1>4 DEF Loop, Pool!Next, Pool!WorkerStep, Pool!Workers, Workers
<1>5. ASSUME NEW w \in Workers, SubmitAlert(w) \/ PutAlert(w) PROVE Pool!Next
  BY <1>5 DEF SubmitAlert, PutAlert, Pool!Next, Pool!ProducerStep, Producers
<1> QED
  BY <1>1, <1>2, <1>3, <1>4, <1>5
  DEF Next, vars, Toggle, ApplyToggle, SetNotifying, Disconnect, WorkerStep, SkipSave,
      EnterSave, SaveSnapshot, DecideSave, HandleResults, Send

LEMMA NextIsSnap == Flags /\ [Next]_vars => [Snap!Next]_(Snap!vars)
<1> SUFFICES ASSUME Flags, [Next]_vars PROVE [Snap!Next]_(Snap!vars)
  OBVIOUS
<1> USE DEF snapVars, Snap!vars, Snap!locals, Snap!hist
<1>1. CASE UNCHANGED snapVars
  BY <1>1
<1>2. CASE ApplyToggle
  BY <1>2 DEF ApplyToggle, Snap!Next, Flags
<1>3. ASSUME NEW w \in Workers, EnterSave(w) \/ SaveSnapshot(w) PROVE Snap!Next
  BY <1>3 DEF EnterSave, SaveSnapshot, DecideSave, Snap!Next, Snap!Step
<1> QED
  BY <1>1, <1>2, <1>3
  DEF Next, vars, Toggle, SetNotifying, Disconnect, ShutDown, OnResults, PutResults,
      WorkerStep, Loop, SkipSave, HandleResults, SubmitAlert, PutAlert, Send

(* Whatever the dispatch does with the pool, the pool does of its own: so  *)
(* every theorem about WorkerPool is one about the pool of the controller. *)
THEOREM DispatchIsPool == Spec => Pool!Spec
<1>1. Init => Pool!Init
  BY DEF Init
<1> QED
  BY <1>1, NextIsPool, PTL DEF Spec, Pool!Spec

(* ... and so with the snapshot service. *)
THEOREM DispatchIsSnap == Spec => Snap!Spec
<1>1. Init => Snap!Init
  BY DEF Init
<1> QED
  BY <1>1, NextIsSnap, FlagsAlways, PTL DEF Spec, Snap!Spec

LEMMA PoolSpecs == Pool!Spec => PoolProofs!Spec
<1>1. Pool!Init => PoolProofs!Init
  BY DEF Pool!Init, PoolProofs!Init, Pool!Workers, PoolProofs!Workers,
     Pool!Sentinel, PoolProofs!Sentinel
<1>2. [Pool!Next]_(Pool!vars) => [PoolProofs!Next]_(PoolProofs!vars)
  BY DEF Pool!Next, Pool!vars, Pool!ProducerStep, Pool!WorkerStep, Pool!CloserStep,
     Pool!producers, Pool!workers, Pool!closers, Pool!history, Pool!Submit, Pool!Put,
     Pool!Full, Pool!Enqueue, Pool!Check, Pool!Take, Pool!GetTimeout, Pool!Finish,
     Pool!WorkerGoto, Pool!CloserGoto, Pool!ShutdownCheck, Pool!ShutdownSet,
     Pool!SendSentinel, Pool!Join, Pool!Workers, Pool!Sentinel,
     PoolProofs!Next, PoolProofs!vars, PoolProofs!ProducerStep, PoolProofs!WorkerStep,
     PoolProofs!CloserStep, PoolProofs!producers, PoolProofs!workers,
     PoolProofs!closers, PoolProofs!history, PoolProofs!Submit, PoolProofs!Put,
     PoolProofs!Full, PoolProofs!Enqueue, PoolProofs!Check, PoolProofs!Take,
     PoolProofs!GetTimeout, PoolProofs!Finish, PoolProofs!WorkerGoto,
     PoolProofs!CloserGoto, PoolProofs!ShutdownCheck, PoolProofs!ShutdownSet,
     PoolProofs!SendSentinel, PoolProofs!Join, PoolProofs!Workers, PoolProofs!Sentinel
<1> QED
  BY <1>1, <1>2, PTL DEF Pool!Spec, PoolProofs!Spec

LEMMA SnapSpecs == Snap!Spec => SnapProofs!Spec
<1>1. Snap!Init => SnapProofs!Init
  BY DEF Snap!Init, SnapProofs!Init, Snap!Never, SnapProofs!Never
<1>2. \A t \in Workers : Snap!Step(t) => SnapProofs!Step(t)
  <2> SUFFICES ASSUME NEW t \in Workers, Snap!Step(t) PROVE SnapProofs!Step(t)
    OBVIOUS
  <2> USE DEF Snap!locals, Snap!hist, Snap!Goto, SnapProofs!locals, SnapProofs!hist,
              SnapProofs!Goto
  <2>1. CASE Snap!Decide(t)
    <3>1. Snap!Eligible(t) = SnapProofs!Eligible(t)
      BY DEF Snap!Eligible, SnapProofs!Eligible
    <3>2. SnapProofs!Decide(t)
      BY <2>1, <3>1 DEF Snap!OutOfOrder, SnapProofs!OutOfOrder,
         Snap!Saves, Snap!Refresh, Snap!Record, Snap!Write,
         Snap!Decide, SnapProofs!Saves, SnapProofs!Refresh, SnapProofs!Record,
         SnapProofs!Write, SnapProofs!Decide
    <3> QED
      BY <3>2 DEF SnapProofs!Step
  <2>2. CASE \E labels \in SUBSET Labels : Snap!Enter(t, labels)
    <3>1. Snap!Cardinality(Snap!Busy) = SnapProofs!Cardinality(SnapProofs!Busy)
      BY DEF Snap!Busy, SnapProofs!Busy, Snap!Cardinality, SnapProofs!Cardinality
    <3>2. PICK labels \in SUBSET Labels : Snap!Enter(t, labels)
      BY <2>2
    <3>3. SnapProofs!Enter(t, labels)
      BY <3>1, <3>2 DEF Snap!Enter, SnapProofs!Enter
    <3> QED
      BY <3>3 DEF SnapProofs!Step
  <2>3. CASE Snap!Stamp(t) \/ Snap!Count(t)
    BY <2>3 DEF Snap!Stamp, Snap!Count, SnapProofs!Stamp, SnapProofs!Count,
       SnapProofs!Step
  <2> QED
    BY <2>1, <2>2, <2>3 DEF Snap!Step
<1>3. [Snap!Next]_(Snap!vars) => [SnapProofs!Next]_(SnapProofs!vars)
  BY <1>2 DEF Snap!Next, Snap!vars, Snap!locals, Snap!hist, Snap!Tick,
     Snap!SetEnabled, Snap!ResetCooldowns, Snap!Never, SnapProofs!Next,
     SnapProofs!vars, SnapProofs!locals, SnapProofs!hist, SnapProofs!Tick,
     SnapProofs!SetEnabled, SnapProofs!ResetCooldowns, SnapProofs!Never
<1> QED
  BY <1>1, <1>3, PTL DEF Snap!Spec, SnapProofs!Spec

-----------------------------------------------------------------------------
(* What the pool and the service are known to keep, in the names used here *)
Taken(k) == \E i \in DOMAIN taken : taken[i] = k

PoolInv ==
  /\ Pool!TypeOK
  /\ submitted \in 0 .. MaxTasks /\ queue \in Seq({0} \cup Tasks)
  /\ worker \in [Workers -> {"check", "get", "run", "exited"}]
  /\ task \in [Workers -> {0} \cup Tasks] /\ taken \in Seq({0} \cup Tasks)
  /\ \A k \in Tasks : Taken(k) => k <= submitted
  /\ \A i \in DOMAIN queue : queue[i] <= submitted
  /\ \A w \in Workers : worker[w] = "run" => task[w] \in Tasks /\ Taken(task[w])
  /\ \A v, w \in Workers :
       worker[v] = "run" /\ worker[w] = "run" /\ task[v] = task[w] => v = w
  /\ \A i, j \in DOMAIN taken : taken[i] = taken[j] /\ taken[i] # 0 => i = j

LEMMA PoolInvAlways == Spec => []PoolInv
<1> USE PoolAssumed DEF PoolProofs!PoolAssumption
<1>1. PoolProofs!Spec => []PoolProofs!TypeOK
  BY PoolProofs!TypeCorrect
<1>2. PoolProofs!Spec => []PoolProofs!Fifo
  BY PoolProofs!FifoHolds
<1>3. PoolProofs!Spec => []PoolProofs!EnteredInv
  BY PoolProofs!EnteredAlways
<1>4. PoolProofs!Spec => []PoolProofs!RunningInv
  BY PoolProofs!RunningAlways
<1>5. PoolProofs!Spec => []PoolProofs!RunsOnce
  BY PoolProofs!RunsOnceHolds
<1>6. /\ PoolProofs!TypeOK /\ PoolProofs!Fifo /\ PoolProofs!EnteredInv
      /\ PoolProofs!RunningInv /\ PoolProofs!RunsOnce
      => PoolInv
  <2> SUFFICES ASSUME PoolProofs!TypeOK, PoolProofs!Fifo, PoolProofs!EnteredInv,
                      PoolProofs!RunningInv, PoolProofs!RunsOnce
               PROVE  PoolInv
    OBVIOUS
  <2> USE DEF PoolProofs!Items, PoolProofs!Tasks, PoolProofs!Sentinel,
              PoolProofs!Workers, Tasks, Workers
  <2>1. Pool!TypeOK
    BY DEF Pool!TypeOK, PoolProofs!TypeOK, Pool!Items, Pool!Tasks, Pool!Sentinel,
       Pool!Workers
  <2>2. /\ submitted \in 0 .. MaxTasks /\ queue \in Seq({0} \cup Tasks)
        /\ worker \in [Workers -> {"check", "get", "run", "exited"}]
        /\ task \in [Workers -> {0} \cup Tasks] /\ taken \in Seq({0} \cup Tasks)
        /\ entered \in Seq({0} \cup Tasks) /\ entered = taken \o queue
    <3>1. {0} \cup Tasks = PoolProofs!Items
      BY DEF Pool!Tasks
    <3> QED
      BY <3>1 DEF PoolProofs!TypeOK, PoolProofs!Fifo
  <2>3. \A i \in DOMAIN entered : entered[i] <= submitted
    BY DEF PoolProofs!EnteredInv, PoolProofs!OffersAreNew
  <2>4. /\ DOMAIN taken = 1 .. Len(taken) /\ DOMAIN queue = 1 .. Len(queue)
        /\ Len(taken) \in Nat /\ Len(queue) \in Nat
        /\ DOMAIN entered = 1 .. Len(taken) + Len(queue)
        /\ \A i \in DOMAIN taken : entered[i] = taken[i]
        /\ \A i \in DOMAIN queue : entered[Len(taken) + i] = queue[i]
    BY <2>2, ConcatProperties, LenProperties
  <2>5. /\ \A i \in DOMAIN taken : taken[i] <= submitted
        /\ \A i \in DOMAIN queue : queue[i] <= submitted
    BY <2>3, <2>4
  <2>6. \A w \in Workers : worker[w] = "run" => task[w] \in Tasks /\ Taken(task[w])
    BY <2>2 DEF PoolProofs!RunningInv, Taken
  <2> QED
    BY <2>1, <2>2, <2>5, <2>6 DEF PoolInv, PoolProofs!RunsOnce, Taken
<1> QED
  BY <1>1, <1>2, <1>3, <1>4, <1>5, <1>6, DispatchIsPool, PoolSpecs, PTL

LEMMA SnapTypesAlways == Spec => []Snap!TypeOK
<1>1. SnapProofs!Spec => []SnapProofs!TypeOK
  BY SnapAssumed, SnapProofs!TypeCorrect DEF SnapProofs!SnapshotAssumption
<1>2. SnapProofs!TypeOK => Snap!TypeOK
  BY DEF Snap!TypeOK, SnapProofs!TypeOK, Snap!Times, SnapProofs!Times, Snap!Never,
     SnapProofs!Never
<1> QED
  BY <1>1, <1>2, DispatchIsSnap, SnapSpecs, PTL

-----------------------------------------------------------------------------
(* Where a worker is in its task, and what is true of the task there *)
Alerted(k) == \E j \in Alerts : job[j].about = k
Saving(w)  == point[w] \in {"dispatch", "save", "alert", "submit"}
Owing(w)   == point[w] \in {"alert", "submit"} \/ pc[w] = "count"
Owed       == {w \in Workers : point[w] \in {"alert", "submit"}}
Unsent(k)  == ~Taken(k) \/ \E w \in Workers : point[w] = "send" /\ task[w] = k

Types == /\ job \in [Tasks -> Jobs] /\ point \in [Workers -> Points]
         /\ fate \in [Tasks -> Fates]

(* A task gets its job with its number. *)
JobInv == \A k \in Tasks : job[k].kind = "none" <=> k > submitted

(* A task whose snapshot was written is owed an alert, and has none yet. *)
WorkInv(w) ==
  /\ point[w] # "idle" => worker[w] = "run"
  /\ point[w] = "send" => job[task[w]].kind = "alert"
  /\ point[w] \in {"save", "alert", "submit"} => job[task[w]].running
  /\ point[w] = "save" <=> pc[w] # "ready"
  /\ Owing(w) => fate[task[w]] = "saved"
  /\ Saving(w) => ~Alerted(task[w])

FateInv ==
  /\ \A k \in Tasks : fate[k] # "none" => Taken(k)
  /\ \A k \in Tasks : fate[k] # "sent twice"
  /\ \A k \in Alerts : Unsent(k) => fate[job[k].about] # "sent"

AlertInv ==
  /\ \A k \in Alerts : /\ job[k].about \in Tasks /\ job[job[k].about].running
                       /\ fate[job[k].about] # "none"
  /\ \A j, k \in Alerts : job[j].about = job[k].about => j = k

(* Each alert, and each that is still to come, is for a save of its own that *)
(* was counted.                                                              *)
DebtInv == Cardinality(Alerts) + Cardinality(Owed) <= count

Inv == /\ Types /\ JobInv /\ (\A w \in Workers : WorkInv(w)) /\ FateInv /\ AlertInv
       /\ DebtInv

LEMMA InitInv == Init => Inv
<1> SUFFICES ASSUME Init PROVE Inv
  OBVIOUS
<1> USE DEF Init, Pool!Init, Snap!Init, NoJob, Pool!Workers, Workers
<1>1. Types
  BY DEF Types, Jobs, Points, Fates
<1>2. Alerts = {} /\ Owed = {} /\ taken = <<>> /\ submitted = 0
  BY DEF Alerts, Owed, Owing
<1>3. JobInv
  BY <1>2 DEF JobInv, Tasks, Pool!Tasks
<1>4. \A w \in Workers : WorkInv(w)
  BY <1>2 DEF WorkInv, Owing, Saving
<1>5. FateInv /\ AlertInv
  BY <1>2 DEF FateInv, AlertInv
<1>6. DebtInv
  BY <1>2, FS_EmptySet DEF DebtInv
<1> QED
  BY <1>1, <1>3, <1>4, <1>5, <1>6 DEF Inv

LEMMA Counts ==
  /\ IsFiniteSet(Alerts) /\ Cardinality(Alerts) \in Nat
  /\ IsFiniteSet(Owed) /\ Cardinality(Owed) \in Nat
<1>1. MaxTasks \in Nat /\ NumWorkers \in Nat
  BY DispatchAssumption DEF MaxTasks
<1>2. IsFiniteSet(Tasks) /\ IsFiniteSet(Workers)
  BY <1>1, FS_Interval DEF Tasks, Pool!Tasks, Workers
<1>3. Alerts \subseteq Tasks /\ Owed \subseteq Workers
  BY DEF Alerts, Owed
<1> QED
  BY <1>2, <1>3, FS_Subset, FS_CardinalityType

(* Paying a debt, and running one up *)
LEMMA DebtKept ==
  ASSUME Inv, Snap!TypeOK, Alerts' = Alerts, Owed' \subseteq Owed,
         UNCHANGED <<count>>
  PROVE  DebtInv'
<1>1. Cardinality(Owed') <= Cardinality(Owed) /\ Cardinality(Owed') \in Nat
  BY Counts, FS_Subset, FS_CardinalityType
<1>2. count \in Nat
  BY DEF Snap!TypeOK
<1> QED
  BY <1>1, <1>2, Counts DEF Inv, DebtInv

(* The steps of the pool and of the flags that no task notices *)
LEMMA StillInv ==
  ASSUME Inv, UNCHANGED <<job, submitted, point, worker, task, pc, fate, taken, count>>
  PROVE  Inv'
<1>1. Alerts' = Alerts /\ Owed' = Owed
  BY DEF Alerts, Owed, Owing
<1>2. ASSUME NEW w \in Workers PROVE WorkInv(w)'
  BY <1>1 DEF Inv, WorkInv, Owing, Saving, Alerted
<1> QED
  BY <1>1, <1>2 DEF Inv, Types, JobInv, FateInv, AlertInv, DebtInv, Taken, Unsent

(* A worker that goes on with its task disturbs no other. *)
LEMMA MoveInv ==
  ASSUME Inv, PoolInv, NEW w \in Workers, worker[w] = "run", Types',
         UNCHANGED <<job, submitted, worker, task, taken>>,
         \A v \in Workers \ {w} : point'[v] = point[v] /\ pc'[v] = pc[v],
         point'[w] = "send" => point[w] = "send",
         \A k \in Tasks : fate'[k] = fate[k] \/ (k = task[w] /\ fate'[k] \in
                            {"saved", "waived", "refused", "failed"}),
         WorkInv(w)', DebtInv'
  PROVE  Inv'
<1>1. Alerts' = Alerts /\ \A k : Alerted(k)' = Alerted(k) /\ Taken(k)' = Taken(k)
  BY DEF Alerts, Alerted, Taken
<1>2. ASSUME NEW v \in Workers PROVE WorkInv(v)'
  <2>1. CASE v = w
    BY <2>1
  <2>2. CASE v # w
    <3>1. WorkInv(v)
      BY DEF Inv
    <3>2. point[v] # "idle" => task[v] \in Tasks /\ task[v] # task[w]
      BY <2>2, <3>1 DEF WorkInv, PoolInv
    <3>3. Owing(v) => point[v] # "idle"
      BY <3>1 DEF WorkInv, Owing
    <3>4. Owing(v)' = Owing(v) /\ Saving(v)' = Saving(v)
      BY <2>2 DEF Owing, Saving
    <3>5. Owing(v)' => fate'[task[v]] = "saved"
      BY <3>1, <3>2, <3>3, <3>4 DEF WorkInv
    <3> QED
      BY <1>1, <2>2, <3>1, <3>4, <3>5 DEF WorkInv
  <2> QED
    BY <2>1, <2>2
<1>3. FateInv'
  <2>1. Taken(task[w])
    BY DEF PoolInv
  <2>2. \A k \in Alerts : Unsent(k)' => Unsent(k)
    BY <1>1 DEF Unsent
  <2>3. \A k \in Alerts : job[k].about \in Tasks
    BY DEF Inv, AlertInv
  <2> QED
    BY <1>1, <2>1, <2>2, <2>3 DEF Inv, FateInv
<1>4. AlertInv' /\ JobInv'
  BY <1>1 DEF Inv, AlertInv, JobInv, Types
<1> QED
  BY <1>2, <1>3, <1>4 DEF Inv

(* A worker between two tasks *)
LEMMA LoopInv ==
  ASSUME Inv, PoolInv, Snap!TypeOK, NEW w \in Workers,
         point[w] \in {"idle", "done"}, point' = [point EXCEPT ![w] = "idle"],
         UNCHANGED <<job, submitted, task, taken, pc, fate, count>>,
         \A v \in Workers \ {w} : worker'[v] = worker[v]
  PROVE  Inv'
<1>1. Alerts' = Alerts /\ \A k : Alerted(k)' = Alerted(k) /\ Taken(k)' = Taken(k)
  BY DEF Alerts, Alerted, Taken
<1>2. Types' /\ \A v \in Workers \ {w} : point'[v] = point[v]
  BY DEF Inv, Types, Points
<1>3. point'[w] = "idle" /\ pc[w] = "ready"
  BY DEF Inv, Types, WorkInv
<1>4. ASSUME NEW v \in Workers PROVE WorkInv(v)'
  <2>1. CASE v = w
    BY <1>3, <2>1 DEF WorkInv, Owing, Saving
  <2>2. CASE v # w
    BY <1>1, <1>2, <2>2 DEF Inv, WorkInv, Owing, Saving
  <2> QED
    BY <2>1, <2>2
<1>5. FateInv'
  <2>1. \A k \in Alerts : Unsent(k)' => Unsent(k)
    BY <1>1, <1>2, <1>3 DEF Unsent
  <2> QED
    BY <1>1, <2>1 DEF Inv, FateInv
<1>6. DebtInv'
  <2>1. Owed' \subseteq Owed
    BY <1>2, <1>3 DEF Owed, Owing
  <2> QED
    BY <1>1, <2>1, DebtKept
<1> QED
  BY <1>1, <1>2, <1>4, <1>5, <1>6 DEF Inv, AlertInv, JobInv

-----------------------------------------------------------------------------
(* Taking a task *)
LEMMA TakeInv ==
  ASSUME Inv, PoolInv, PoolInv', Snap!TypeOK, NEW w \in Workers,
         Pool!Take(w), Goto(w, Begin(Head(queue))),
         UNCHANGED <<snapVars, flags, job, fate>>
  PROVE  Inv'
<1> DEFINE h == Head(queue)
<1>1. /\ worker[w] = "get" /\ queue \in Seq({0} \cup Tasks) /\ queue # <<>>
      /\ taken' = Append(taken, h) /\ taken \in Seq({0} \cup Tasks)
      /\ task' = [task EXCEPT ![w] = h]
      /\ worker' = [worker EXCEPT ![w] = IF h = 0 THEN "exited" ELSE "run"]
      /\ UNCHANGED <<job, submitted, pc, fate, count>>
  BY DEF Pool!Take, Pool!WorkerGoto, Pool!Sentinel, Pool!producers, snapVars, PoolInv
<1>2. /\ h \in {0} \cup Tasks /\ h <= submitted
  BY <1>1, HeadTailProperties, EmptySeq, LenProperties DEF PoolInv
<1>3. /\ \A k : Taken(k)' <=> Taken(k) \/ k = h
      /\ h # 0 => ~Taken(h)
  <2>1. /\ Len(taken) \in Nat /\ DOMAIN taken = 1 .. Len(taken)
        /\ DOMAIN taken' = 1 .. Len(taken) + 1
        /\ \A i \in 1 .. Len(taken) : taken'[i] = taken[i]
        /\ taken'[Len(taken) + 1] = h
    BY <1>1, <1>2, AppendProperties, LenProperties
  <2>2. \A i, j \in DOMAIN taken' : taken'[i] = taken'[j] /\ taken'[i] # 0 => i = j
    BY DEF PoolInv
  <2> HIDE DEF h
  <2> QED
    BY <2>1, <2>2 DEF Taken
<1>4. /\ point[w] = "idle" /\ pc[w] = "ready"
  BY <1>1 DEF Inv, WorkInv
<1>5. /\ point'[w] = Begin(h) /\ Alerts' = Alerts
      /\ \A v \in Workers \ {w} : /\ point'[v] = point[v] /\ task'[v] = task[v]
                                  /\ worker'[v] = worker[v]
      /\ \A k : Alerted(k)' = Alerted(k)
  BY <1>1 DEF Goto, Inv, Types, Alerts, Alerted, PoolInv
<1>6. /\ h = 0 => Begin(h) = "idle"
      /\ h # 0 => Begin(h) \in {"dispatch", "send"}
      /\ Begin(h) = "send" => job[h].kind = "alert"
  <2> HIDE DEF h
  <2>1. ASSUME h # 0 PROVE job[h].kind \in {"detection", "alert"}
    <3>1. h \in Tasks /\ ~(h > submitted)
      BY <1>2, <2>1 DEF PoolInv, Tasks, Pool!Tasks
    <3>2. job[h] \in Jobs /\ job[h].kind # "none"
      BY <3>1 DEF Inv, Types, JobInv
    <3> QED
      BY <3>2 DEF Jobs
  <2> QED
    BY <2>1 DEF Begin, Pool!Sentinel
<1> HIDE DEF h
<1>7. Types'
  BY <1>1, <1>5, <1>6 DEF Inv, Types, Points, Goto
<1>8. h # 0 => h \in Tasks /\ ~Alerted(h)
  <2>1. \A j \in Alerts : Taken(job[j].about)
    BY DEF Inv, AlertInv, FateInv
  <2> QED
    BY <1>2, <1>3, <2>1 DEF Alerted
<1>9. ASSUME NEW v \in Workers PROVE WorkInv(v)'
  <2>1. CASE v = w
    <3>1. task'[w] = h /\ worker'[w] = (IF h = 0 THEN "exited" ELSE "run")
      BY <1>1 DEF PoolInv
    <3> QED
      BY <1>1, <1>4, <1>5, <1>6, <1>8, <2>1, <3>1 DEF WorkInv, Owing, Saving
  <2>2. CASE v # w
    BY <1>1, <1>5, <2>2 DEF Inv, WorkInv, Owing, Saving
  <2> QED
    BY <2>1, <2>2
<1>10. FateInv'
  <2>1. ASSUME NEW k \in Alerts, Unsent(k)' PROVE Unsent(k)
    <3>1. CASE k = h
      BY <1>3, <3>1, <1>8, <2>1 DEF Unsent, Alerts, Tasks, Pool!Tasks
    <3>2. CASE k # h
      <4>1. task'[w] = h
        BY <1>1 DEF PoolInv
      <4> QED
        BY <1>3, <1>5, <2>1, <3>2, <4>1 DEF Unsent
    <3> QED
      BY <3>1, <3>2
  <2> QED
    BY <1>1, <1>3, <1>5, <2>1 DEF Inv, FateInv
<1>11. DebtInv'
  <2>1. Owed' \subseteq Owed
    BY <1>1, <1>4, <1>5, <1>6 DEF Owed, Owing
  <2> QED
    BY <1>1, <1>5, <2>1, DebtKept
<1> QED
  BY <1>1, <1>5, <1>7, <1>9, <1>10, <1>11 DEF Inv, AlertInv, JobInv

(* A task gets a job: that of a detection *)
LEMMA OnResultsInv ==
  ASSUME Inv, PoolInv, Snap!TypeOK, Flags, OnResults
  PROVE  Inv'
<1> DEFINE new == submitted + 1
<1>1. /\ new \in Tasks /\ submitted' = new /\ submitted \in Nat
      /\ job' = [job EXCEPT ![new] =
                   [kind |-> "detection", running |-> detecting, about |-> 0]]
      /\ UNCHANGED <<point, worker, task, pc, fate, taken, count>>
  BY DispatchAssumption
  DEF OnResults, Pool!Submit, Pool!workers, Pool!history, snapVars, PoolInv, Tasks,
      Pool!Tasks, MaxTasks
<1> HIDE DEF new
<1>2. /\ \A k \in Tasks \ {new} : job'[k] = job[k]
      /\ job'[new].kind = "detection" /\ job[new].kind = "none" /\ ~Taken(new)
  BY <1>1 DEF Inv, Types, JobInv, PoolInv, new
<1>3. Types'
  BY <1>1 DEF Inv, Types, Jobs, Flags
<1>4. Alerts' = Alerts /\ new \notin Alerts
  BY <1>2 DEF Alerts
<1>5. \A k : Alerted(k)' = Alerted(k) /\ Taken(k)' = Taken(k)
  BY <1>1, <1>2, <1>4 DEF Alerted, Taken, Alerts
<1>6. JobInv'
  BY <1>1, <1>2 DEF Inv, JobInv, Tasks, Pool!Tasks, new
<1>7. ASSUME NEW w \in Workers PROVE WorkInv(w)'
  <2>1. point[w] # "idle" => task[w] \in Tasks \ {new}
    BY <1>2 DEF Inv, WorkInv, PoolInv
  <2> QED
    BY <1>1, <1>2, <1>5, <2>1 DEF Inv, WorkInv, Owing, Saving
<1>8. FateInv' /\ AlertInv'
  <2>1. \A k \in Alerts : job'[k] = job[k] /\ job[k].about \in Tasks \ {new}
    BY <1>2, <1>4 DEF Inv, FateInv, AlertInv, Alerts
  <2>2. \A k : Unsent(k)' = Unsent(k)
    BY <1>1, <1>5 DEF Unsent
  <2>3. FateInv'
    BY <1>1, <1>4, <1>5, <2>1, <2>2 DEF Inv, FateInv
  <2>4. \A k \in Alerts : job'[job[k].about] = job[job[k].about]
    BY <1>2, <2>1
  <2>5. AlertInv'
    BY <1>1, <1>4, <2>1, <2>4 DEF Inv, AlertInv
  <2> QED
    BY <2>3, <2>5
<1>9. DebtInv'
  <2>1. Owed' \subseteq Owed
    BY <1>1 DEF Owed, Owing
  <2> QED
    BY <1>1, <1>4, <2>1, DebtKept
<1> QED
  BY <1>3, <1>6, <1>7, <1>8, <1>9 DEF Inv

-----------------------------------------------------------------------------
(* A worker inside its task *)
LEMMA SaveStepInv ==
  ASSUME Inv, PoolInv, Snap!TypeOK, NEW w \in Workers,
         SkipSave(w) \/ EnterSave(w) \/ SaveSnapshot(w)
  PROVE  Inv'
<1>1. /\ point[w] \in {"dispatch", "save"} /\ worker[w] = "run" /\ task[w] \in Tasks
      /\ UNCHANGED <<job, submitted, worker, task, taken>>
  BY DEF SkipSave, EnterSave, SaveSnapshot, DecideSave, At, Inv, WorkInv, PoolInv,
     poolVars
<1>2. WorkInv(w)
  BY DEF Inv
<1>3. Alerts' = Alerts /\ \A k : Alerted(k)' = Alerted(k)
  BY <1>1 DEF Alerts, Alerted
<1>4. pc \in [Workers -> {"ready", "stamp", "decide", "count"}]
  BY DEF Snap!TypeOK
<1>5. CASE SkipSave(w)
  <2>1. point'[w] = "done" /\ UNCHANGED <<pc, fate, count>>
    BY <1>5 DEF SkipSave, Goto, Inv, Types, snapVars
  <2>2. pc[w] = "ready"
    BY <1>2, <1>5 DEF WorkInv, SkipSave, At
  <2>3. Types' /\ \A v \in Workers \ {w} : point'[v] = point[v]
    BY <1>1, <1>5, <2>1 DEF SkipSave, Goto, Inv, Types, Points
  <2>4. WorkInv(w)'
    BY <1>1, <2>1, <2>2 DEF WorkInv, Owing, Saving
  <2>5. DebtInv'
    <3>1. Owed' \subseteq Owed
      BY <2>1, <2>3 DEF Owed, Owing
    <3> QED
      BY <1>3, <2>1, <3>1, DebtKept
  <2> QED
    BY <1>1, <2>1, <2>3, <2>4, <2>5, MoveInv
<1>6. CASE EnterSave(w)
  <2>1. /\ point'[w] = "save" /\ pc'[w] = "stamp" /\ UNCHANGED <<fate, count>>
        /\ job[task[w]].running /\ point[w] = "dispatch"
    BY <1>4, <1>6
    DEF EnterSave, Goto, At, Snap!Enter, Snap!Goto, Snap!hist, Inv, Types
  <2>2. /\ Types'
        /\ \A v \in Workers \ {w} : point'[v] = point[v] /\ pc'[v] = pc[v]
    BY <1>1, <1>4, <1>6, <2>1
    DEF EnterSave, Goto, Snap!Enter, Snap!Goto, Inv, Types, Points
  <2>3. WorkInv(w)'
    BY <1>1, <1>2, <1>3, <2>1 DEF WorkInv, Owing, Saving
  <2>4. DebtInv'
    <3>1. Owed' \subseteq Owed
      BY <2>1, <2>2 DEF Owed, Owing
    <3> QED
      BY <1>3, <2>1, <3>1, DebtKept
  <2> QED
    BY <1>1, <2>1, <2>2, <2>3, <2>4, MoveInv
<1>7. CASE DecideSave(w) /\ pc'[w] = "count"
  <2>1. /\ point[w] = "save" /\ pc[w] = "decide" /\ point' = point
        /\ fate' = [fate EXCEPT ![task[w]] = "saved"]
        /\ pc' = [pc EXCEPT ![w] = "count"]
    BY <1>4, <1>7 DEF DecideSave, At, Fate, Snap!Decide, Snap!Goto
  <2>2. count' = count
    BY <1>7 DEF DecideSave, Snap!Decide
  <2>3. Types' /\ \A v \in Workers \ {w} : pc'[v] = pc[v]
    BY <1>1, <1>4, <2>1 DEF Inv, Types, Fates
  <2>4. WorkInv(w)'
    BY <1>1, <1>2, <1>3, <1>4, <2>1 DEF WorkInv, Owing, Saving, Inv, Types
  <2>5. DebtInv'
    <3>1. Owed' = Owed
      BY <2>1 DEF Owed
    <3> QED
      BY <1>3, <2>2, <3>1, DebtKept
  <2>6. \A k \in Tasks : fate'[k] = fate[k] \/ (k = task[w] /\ fate'[k] = "saved")
    BY <1>1, <2>1 DEF Inv, Types
  <2> QED
    BY <1>1, <2>1, <2>3, <2>4, <2>5, <2>6, MoveInv
<1>8. CASE DecideSave(w) /\ pc'[w] # "count"
  <2>1. /\ point'[w] = "done" /\ pc' = [pc EXCEPT ![w] = "ready"]
        /\ UNCHANGED <<fate, count>>
    BY <1>4, <1>8
    DEF DecideSave, At, Goto, Snap!Decide, Snap!Goto, Snap!hist, Inv, Types
  <2>2. /\ Types'
        /\ \A v \in Workers \ {w} : point'[v] = point[v] /\ pc'[v] = pc[v]
    BY <1>1, <1>4, <1>8, <2>1 DEF DecideSave, Goto, Inv, Types, Points
  <2>3. WorkInv(w)'
    BY <1>1, <1>4, <2>1 DEF WorkInv, Owing, Saving
  <2>4. DebtInv'
    <3>1. Owed' \subseteq Owed
      BY <1>4, <2>1, <2>2 DEF Owed, Owing
    <3> QED
      BY <1>3, <2>1, <3>1, DebtKept
  <2> QED
    BY <1>1, <2>1, <2>2, <2>3, <2>4, MoveInv
<1>9. CASE At(w, "save") /\ Snap!Stamp(w) /\ UNCHANGED point
           /\ UNCHANGED <<poolVars, flags, job, fate>>
  <2>1. /\ pc[w] = "stamp" /\ pc' = [pc EXCEPT ![w] = "decide"]
        /\ UNCHANGED <<point, fate, count>>
    BY <1>9 DEF Snap!Stamp, Snap!Goto, Snap!hist
  <2>2. Types' /\ \A v \in Workers \ {w} : pc'[v] = pc[v]
    BY <1>1, <1>4, <2>1 DEF Inv, Types
  <2>3. WorkInv(w)'
    BY <1>1, <1>2, <1>3, <1>4, <1>9, <2>1 DEF WorkInv, Owing, Saving, At
  <2>4. DebtInv'
    <3>1. Owed' \subseteq Owed
      BY <1>4, <2>1, <2>2 DEF Owed, Owing
    <3> QED
      BY <1>3, <2>1, <3>1, DebtKept
  <2> QED
    BY <1>1, <2>1, <2>2, <2>3, <2>4, MoveInv
<1>10. CASE At(w, "save") /\ Snap!Count(w) /\ Goto(w, "alert")
            /\ UNCHANGED <<poolVars, flags, job, fate>>
  <2>1. /\ pc[w] = "count" /\ pc' = [pc EXCEPT ![w] = "ready"] /\ point'[w] = "alert"
        /\ count' = count + 1 /\ count \in Nat /\ fate' = fate
    BY <1>10 DEF Snap!TypeOK, Snap!Count, Snap!Goto, Snap!hist, Goto, Inv, Types
  <2>2. /\ Types'
        /\ \A v \in Workers \ {w} : point'[v] = point[v] /\ pc'[v] = pc[v]
    BY <1>1, <1>4, <1>10, <2>1 DEF Goto, Inv, Types, Points
  <2>3. WorkInv(w)'
    BY <1>1, <1>2, <1>3, <1>4, <1>10, <2>1 DEF WorkInv, Owing, Saving, At
  <2>4. DebtInv'
    <3>1. w \notin Owed /\ Owed' = Owed \cup {w}
      BY <1>10, <2>1, <2>2 DEF Owed, At
    <3>2. Cardinality(Owed') = Cardinality(Owed) + 1
      BY <3>1, Counts, FS_AddElement
    <3> QED
      BY <1>3, <2>1, <3>2, Counts DEF Inv, DebtInv
  <2> QED
    BY <1>1, <2>1, <2>2, <2>3, <2>4, MoveInv
<1> QED
  BY <1>5, <1>6, <1>7, <1>8, <1>9, <1>10 DEF SaveSnapshot

LEMMA HandleInv ==
  ASSUME Inv, PoolInv, Snap!TypeOK, NEW w \in Workers, HandleResults(w) \/ PutAlert(w)
  PROVE  Inv'
<1>1. /\ point[w] \in {"alert", "put"} /\ worker[w] = "run" /\ task[w] \in Tasks
      /\ UNCHANGED <<job, submitted, worker, task, taken, pc, count>>
  BY DEF HandleResults, PutAlert, At, Inv, WorkInv, PoolInv, poolVars, snapVars,
     Pool!Put, Pool!workers
<1>2. WorkInv(w) /\ pc[w] = "ready"
  BY <1>1 DEF Inv, WorkInv
<1>3. Alerts' = Alerts /\ \A k : Alerted(k)' = Alerted(k)
  BY <1>1 DEF Alerts, Alerted
<1>4. /\ point'[w] = "done" \/ (point[w] = "alert" /\ point'[w] = "submit" /\ fate' = fate)
      /\ fate' = fate \/ \E f \in {"waived", "refused"} : fate' = [fate EXCEPT ![task[w]] = f]
      /\ Types' /\ \A v \in Workers \ {w} : point'[v] = point[v]
  BY <1>1 DEF HandleResults, PutAlert, Goto, Fate, At, Inv, Types, Points, Fates
<1>5. \A k \in Tasks : fate'[k] = fate[k]
                         \/ (k = task[w] /\ fate'[k] \in {"waived", "refused"})
  BY <1>1, <1>4 DEF Inv, Types
<1>6. WorkInv(w)'
  BY <1>1, <1>2, <1>3, <1>4 DEF WorkInv, Owing, Saving
<1>7. DebtInv'
  <2>1. Owed' \subseteq Owed
    BY <1>1, <1>2, <1>4 DEF Owed, Owing
  <2> QED
    BY <1>1, <1>3, <2>1, DebtKept
<1> QED
  BY <1>1, <1>4, <1>5, <1>6, <1>7, MoveInv

-----------------------------------------------------------------------------
(* A task gets a job: that of an alert.  What was owed is delivered. *)
LEMMA SubmitAlertInv ==
  ASSUME Inv, PoolInv, Snap!TypeOK, NEW w \in Workers, SubmitAlert(w)
  PROVE  Inv'
<1> DEFINE new == submitted + 1
           b   == task[w]
<1>1. /\ new \in Tasks /\ submitted' = new /\ submitted \in Nat
      /\ job' = [job EXCEPT ![new] =
                   [kind |-> "alert", running |-> FALSE, about |-> b]]
      /\ UNCHANGED <<worker, task, pc, taken, count>>
  BY DispatchAssumption
  DEF SubmitAlert, Pool!Submit, Pool!workers, Pool!history, snapVars, PoolInv, Tasks,
      Pool!Tasks, MaxTasks
<1>2. /\ point[w] = "submit" /\ worker[w] = "run" /\ b \in Tasks /\ Taken(b)
      /\ b <= submitted /\ b # new
      /\ fate[b] = "saved" /\ ~Alerted(b) /\ job[b].running /\ pc[w] = "ready"
  <2>1. point[w] = "submit" /\ WorkInv(w)
    BY DEF SubmitAlert, At, Inv
  <2>2. worker[w] = "run" /\ b \in Tasks /\ Taken(b) /\ b <= submitted
    BY <2>1 DEF WorkInv, PoolInv
  <2>3. b # new
    BY <1>1, <2>2 DEF Tasks, Pool!Tasks
  <2> QED
    BY <2>1, <2>2, <2>3 DEF WorkInv, Owing, Saving
<1>3. /\ point'[w] \in {"done", "put"}
      /\ fate' = fate \/ fate' = [fate EXCEPT ![b] = "refused"]
      /\ \A v \in Workers \ {w} : point'[v] = point[v]
      /\ point' \in [Workers -> Points] /\ fate' \in [Tasks -> Fates]
  BY <1>2 DEF SubmitAlert, Goto, Fate, Inv, Types, Points, Fates
<1> HIDE DEF new, b
<1>4. /\ \A k \in Tasks \ {new} : job'[k] = job[k]
      /\ job'[new].kind = "alert" /\ job'[new].about = b
      /\ job[new].kind = "none" /\ ~Taken(new)
  BY <1>1 DEF Inv, Types, JobInv, PoolInv, new
<1>5. Types'
  BY <1>1, <1>2, <1>3 DEF Inv, Types, Jobs
<1>6. Alerts' = Alerts \cup {new} /\ new \notin Alerts
  BY <1>1, <1>4 DEF Alerts
<1>7. \A k : Taken(k)' = Taken(k) /\ (Alerted(k)' <=> Alerted(k) \/ k = b)
  BY <1>1, <1>4, <1>6 DEF Alerted, Taken, Alerts
<1>8. JobInv'
  BY <1>1, <1>4 DEF Inv, JobInv, Tasks, Pool!Tasks, new
<1>9. ASSUME NEW v \in Workers PROVE WorkInv(v)'
  <2>1. CASE v = w
    BY <1>1, <1>2, <1>3, <2>1 DEF WorkInv, Owing, Saving
  <2>2. CASE v # w
    <3>1. WorkInv(v) /\ point'[v] = point[v]
      BY <1>3, <2>2 DEF Inv
    <3>2. point[v] # "idle" => task[v] \in Tasks \ {new} /\ task[v] # b
      BY <1>2, <1>4, <2>2, <3>1 DEF WorkInv, PoolInv, b
    <3>3. Owing(v) => point[v] # "idle"
      BY <3>1 DEF WorkInv, Owing
    <3>4. Owing(v)' = Owing(v) /\ Saving(v)' = Saving(v)
      BY <1>1, <3>1 DEF Owing, Saving
    <3>5. point[v] # "idle" =>
            fate'[task[v]] = fate[task[v]] /\ job'[task[v]] = job[task[v]]
      BY <1>3, <1>4, <3>2 DEF Inv, Types
    <3> QED
      BY <1>1, <1>7, <3>1, <3>2, <3>3, <3>4, <3>5 DEF WorkInv, Saving
  <2> QED
    BY <2>1, <2>2
<1>10. \A k \in Tasks : /\ fate'[k] = fate[k] \/ fate'[k] = "refused"
                        /\ k # b => fate'[k] = fate[k]
                        /\ fate'[k] # "none" => Taken(k)
  BY <1>2, <1>3 DEF Inv, Types, FateInv
<1>11. fate'[b] \in {"saved", "refused"}
  BY <1>2, <1>10
<1>12. ASSUME NEW k \in Alerts
       PROVE  /\ job'[k] = job[k] /\ job[k].about \in Tasks \ {new, b}
              /\ job'[job[k].about] = job[job[k].about]
  <2>1. k \in Tasks \ {new} /\ job[k].about \in Tasks
    BY <1>6 DEF Inv, AlertInv, Alerts
  <2>2. job[k].about # b
    BY <1>2 DEF Alerted
  <2>3. job[k].about # new
    BY <1>4, <2>1 DEF Inv, AlertInv, FateInv
  <2> QED
    BY <1>4, <2>1, <2>2, <2>3
<1>13. FateInv'
  <2>1. ASSUME NEW k \in Alerts', Unsent(k)' PROVE fate'[job'[k].about] # "sent"
    <3>1. CASE k = new
      BY <1>4, <1>11, <3>1
    <3>2. CASE k # new
      <4>1. k \in Alerts
        BY <1>6, <2>1, <3>2
      <4>2. Unsent(k)
        BY <1>1, <1>3, <1>7, <2>1 DEF Unsent
      <4> QED
        BY <1>10, <1>12, <4>1, <4>2 DEF Inv, FateInv
    <3> QED
      BY <3>1, <3>2
  <2>2. \A k \in Tasks : fate'[k] # "sent twice"
    BY <1>10 DEF Inv, FateInv
  <2> QED
    BY <1>7, <1>10, <2>1, <2>2 DEF FateInv
<1>14. AlertInv'
  <2>1. ASSUME NEW k \in Alerts'
        PROVE  /\ job'[k].about \in Tasks /\ job'[job'[k].about].running
               /\ fate'[job'[k].about] # "none"
    <3>1. CASE k = new
      BY <1>2, <1>4, <1>11, <3>1
    <3>2. CASE k # new
      <4>1. k \in Alerts
        BY <1>6, <2>1, <3>2
      <4> QED
        BY <1>10, <1>12, <4>1 DEF Inv, AlertInv
    <3> QED
      BY <3>1, <3>2
  <2>2. ASSUME NEW j \in Alerts', NEW k \in Alerts', job'[j].about = job'[k].about
        PROVE  j = k
    BY <1>4, <1>6, <1>12, <2>2 DEF Inv, AlertInv
  <2> QED
    BY <2>1, <2>2 DEF AlertInv
<1>15. DebtInv'
  <2>1. w \in Owed /\ Owed' = Owed \ {w}
    BY <1>1, <1>2, <1>3 DEF Owed, Owing
  <2>2. Cardinality(Owed') = Cardinality(Owed) - 1
    BY <2>1, Counts, FS_RemoveElement
  <2>3. Cardinality(Alerts') = Cardinality(Alerts) + 1
    BY <1>6, Counts, FS_AddElement
  <2>4. count \in Nat
    BY DEF Snap!TypeOK
  <2> QED
    BY <1>1, <2>2, <2>3, <2>4, Counts DEF Inv, DebtInv
<1> QED
  BY <1>5, <1>8, <1>9, <1>13, <1>14, <1>15 DEF Inv

(* The alert goes out.  It is the only one about its detection, and this   *)
(* worker is the only one that carries it.                                 *)
LEMMA SendInv ==
  ASSUME Inv, PoolInv, Snap!TypeOK, NEW w \in Workers, Send(w)
  PROVE  Inv'
<1> DEFINE k == task[w]
           b == job[k].about
<1>1. /\ point[w] = "send" /\ worker[w] = "run" /\ k \in Alerts /\ WorkInv(w)
      /\ UNCHANGED <<job, submitted, worker, task, taken, pc, count>>
  BY DEF Send, At, poolVars, snapVars, Inv, WorkInv, PoolInv, Alerts
<1>2. b \in Tasks /\ fate[b] \notin {"sent", "none"} /\ Alerted(b)
  BY <1>1 DEF Inv, AlertInv, FateInv, Unsent, Alerted
<1>3. /\ point' = [point EXCEPT ![w] = "done"]
      /\ \E f \in {"sent", "failed"} : fate' = [fate EXCEPT ![b] = f]
  BY <1>2 DEF Send, Goto, Fate
<1> HIDE DEF k, b
<1>4. Alerts' = Alerts /\ \A j : Alerted(j)' = Alerted(j) /\ Taken(j)' = Taken(j)
  BY <1>1 DEF Alerts, Alerted, Taken
<1>5. /\ Types' /\ point'[w] = "done" /\ fate'[b] \in {"sent", "failed"}
      /\ \A v \in Workers \ {w} : point'[v] = point[v]
      /\ \A j \in Tasks \ {b} : fate'[j] = fate[j]
  BY <1>1, <1>2, <1>3 DEF Inv, Types, Points, Fates
<1>6. ASSUME NEW v \in Workers PROVE WorkInv(v)'
  <2>1. CASE v = w
    BY <1>1, <1>5, <2>1 DEF WorkInv, Owing, Saving
  <2>2. CASE v # w
    <3>1. WorkInv(v) /\ point'[v] = point[v]
      BY <1>5, <2>2 DEF Inv
    <3>2. Owing(v) => Saving(v) /\ task[v] \in Tasks
      BY <3>1 DEF WorkInv, Owing, Saving, PoolInv
    <3>3. Owing(v) => fate'[task[v]] = "saved"
      BY <1>2, <1>5, <3>1, <3>2 DEF WorkInv
    <3>4. Owing(v)' = Owing(v) /\ Saving(v)' = Saving(v)
      BY <1>1, <3>1 DEF Owing, Saving
    <3> QED
      BY <1>1, <1>4, <3>1, <3>3, <3>4 DEF WorkInv
  <2> QED
    BY <2>1, <2>2
<1>7. FateInv'
  <2>1. \A j \in Tasks : fate'[j] # "sent twice"
    BY <1>5 DEF Inv, FateInv
  <2>2. \A j \in Tasks : fate'[j] # "none" => Taken(j)
    BY <1>2, <1>5 DEF Inv, FateInv
  <2>3. ASSUME NEW j \in Alerts, Unsent(j)' PROVE fate'[job[j].about] # "sent"
    <3>1. Unsent(j) /\ j # k
      <4>1. Taken(k)
        BY <1>1 DEF PoolInv, k
      <4>2. ASSUME NEW v \in Workers, point'[v] = "send"
            PROVE  v # w /\ point[v] = "send" /\ worker[v] = "run"
        BY <1>5, <4>2 DEF Inv, WorkInv
      <4> QED
        BY <1>1, <1>4, <2>3, <4>1, <4>2 DEF Unsent, PoolInv, k
    <3>2. job[j].about # b /\ job[j].about \in Tasks
      BY <1>1, <3>1 DEF Inv, AlertInv, b
    <3> QED
      BY <1>5, <3>1, <3>2 DEF Inv, FateInv
  <2> QED
    BY <1>1, <1>4, <2>1, <2>2, <2>3 DEF FateInv
<1>8. AlertInv' /\ JobInv'
  <2>1. \A j \in Tasks : fate'[j] # "none" \/ fate[j] = "none"
    BY <1>5
  <2> QED
    BY <1>1, <1>4, <2>1 DEF Inv, AlertInv, JobInv
<1>9. DebtInv'
  <2>1. Owed' \subseteq Owed
    BY <1>1, <1>5 DEF Owed, Owing
  <2> QED
    BY <1>1, <1>4, <2>1, DebtKept
<1> QED
  BY <1>5, <1>6, <1>7, <1>8, <1>9 DEF Inv

-----------------------------------------------------------------------------
LEMMA NextInv ==
  ASSUME Inv, PoolInv, PoolInv', Snap!TypeOK, Flags, [Next]_vars
  PROVE  Inv'
<1>1. CASE UNCHANGED vars
  BY <1>1, StillInv DEF vars, poolVars, snapVars
<1>2. CASE Toggle \/ ApplyToggle \/ SetNotifying \/ Disconnect
  BY <1>2, StillInv
  DEF Toggle, ApplyToggle, SetNotifying, Disconnect, poolVars, snapVars,
      Snap!SetEnabled, Snap!locals, Snap!hist
<1>3. CASE ShutDown
  BY <1>3, StillInv
  DEF ShutDown, Pool!ShutdownCheck, Pool!ShutdownSet, Pool!SendSentinel, Pool!Join,
      Pool!producers, Pool!workers, Pool!history, Pool!Enqueue, snapVars
<1>4. CASE OnResults
  BY <1>4, OnResultsInv
<1>5. CASE PutResults
  BY <1>5, StillInv DEF PutResults, Pool!Put, Pool!workers, snapVars
<1>6. ASSUME NEW w \in Workers, Loop(w) PROVE Inv'
  <2>1. CASE Pool!Take(w) /\ Goto(w, Begin(Head(queue)))
    BY <1>6, <2>1, TakeInv DEF Loop
  <2>2. CASE (Pool!Check(w) \/ Pool!GetTimeout(w)) /\ UNCHANGED point
    <3>1. point[w] = "idle"
      BY <2>2 DEF Pool!Check, Pool!GetTimeout, Inv, WorkInv
    <3>2. point' = [point EXCEPT ![w] = "idle"]
      BY <2>2, <3>1 DEF Inv, Types
    <3>3. /\ UNCHANGED <<job, submitted, task, taken, pc, fate, count>>
          /\ \A v \in Workers \ {w} : worker'[v] = worker[v]
      BY <1>6, <2>2 DEF Loop, Pool!Check, Pool!GetTimeout, Pool!WorkerGoto,
         Pool!producers, Pool!history, snapVars, PoolInv
    <3> QED
      BY <3>1, <3>2, <3>3, LoopInv
  <2>3. CASE At(w, "done") /\ Pool!Finish(w) /\ Goto(w, "idle")
    <3>1. /\ UNCHANGED <<job, submitted, task, taken, pc, fate, count>>
          /\ \A v \in Workers \ {w} : worker'[v] = worker[v]
      BY <1>6, <2>3 DEF Loop, Pool!Finish, Pool!WorkerGoto, Pool!producers,
         Pool!history, snapVars, PoolInv
    <3> QED
      BY <2>3, <3>1, LoopInv DEF At, Goto
  <2> QED
    BY <1>6, <2>1, <2>2, <2>3 DEF Loop
<1>7. ASSUME NEW w \in Workers,
             SkipSave(w) \/ EnterSave(w) \/ SaveSnapshot(w)
      PROVE  Inv'
  BY <1>7, SaveStepInv
<1>8. ASSUME NEW w \in Workers, HandleResults(w) \/ PutAlert(w) PROVE Inv'
  BY <1>8, HandleInv
<1>9. ASSUME NEW w \in Workers, SubmitAlert(w) PROVE Inv'
  BY <1>9, SubmitAlertInv
<1>10. ASSUME NEW w \in Workers, Send(w) PROVE Inv'
  BY <1>10, SendInv
<1> QED
  BY <1>1, <1>2, <1>3, <1>4, <1>5, <1>6, <1>7, <1>8, <1>9, <1>10
  DEF Next, WorkerStep

LEMMA InvAlways == Spec => []Inv
<1>1. Inv /\ PoolInv /\ PoolInv' /\ Snap!TypeOK /\ Flags /\ [Next]_vars => Inv'
  BY NextInv
<1> QED
  BY <1>1, InitInv, PoolInvAlways, SnapTypesAlways, FlagsAlways, PTL DEF Spec

(* The types of the pool, of the snapshot service and of what ties them    *)
(* together: the tasks, where the workers are in them, and what became of  *)
(* the snapshots.                                                          *)
THEOREM TypeCorrect == Spec => []TypeOK
<1>1. PoolInv /\ Snap!TypeOK /\ Flags /\ Inv => TypeOK
  BY DEF PoolInv, Flags, Inv, Types, TypeOK
<1> QED
  BY <1>1, PoolInvAlways, SnapTypesAlways, FlagsAlways, InvAlways, PTL

(* _dispatch_detection calls handle_results only with a snapshot in hand   *)
(* and once, and a task runs once: so a message is asked for at most once  *)
(* for each snapshot, and never without, however the tasks of the two      *)
(* kinds mix in the queue and whatever is toggled meanwhile.               *)
THEOREM MessagesAreSavesHolds == Spec => []MessagesAreSaves
<1>1. Snap!TypeOK /\ Inv => MessagesAreSaves
  <2> SUFFICES ASSUME Snap!TypeOK, Inv PROVE MessagesAreSaves
    OBVIOUS
  <2>1. Cardinality(Alerts) <= count
    BY Counts DEF Snap!TypeOK, Inv, DebtInv
  <2> QED
    BY <2>1 DEF Inv, AlertInv, FateInv, MessagesAreSaves
<1> QED
  BY <1>1, SnapTypesAlways, InvAlways, PTL
=============================================================================
