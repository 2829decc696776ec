-------------------------- MODULE WorkerPoolProofs --------------------------
(***************************************************************************)
(* Theorems about WorkerPool for any number of workers, producers and      *)
(* closers and any queue size: the queue loses, duplicates and reorders    *)
(* nothing, no task runs twice, and no task begins after shutdown returned.*)
(***************************************************************************)
EXTENDS WorkerPool, SequenceTheorems, TLAPS

LEMMA AppendMoves ==
  ASSUME NEW S, NEW s \in Seq(S), NEW t \in Seq(S), NEW e \in S
  PROVE  s \o Append(t, e) = Append(s \o t, e)
BY Z3

LEMMA HeadMoves ==
  ASSUME NEW S, NEW s \in Seq(S), NEW t \in Seq(S), t # <<>>
  PROVE  Append(s, Head(t)) \o Tail(t) = s \o t
BY Z3

-----------------------------------------------------------------------------
LEMMA InitTypeOK == Init => TypeOK
<1> SUFFICES ASSUME Init PROVE TypeOK
  OBVIOUS
<1>1. step \in [Closers -> Workers]
  BY PoolAssumption DEF Init, Workers
<1>2. submitted \in 0 .. MaxTasks /\ dropped \in Nat
  BY PoolAssumption DEF Init
<1>3. queue \in Seq(Items) /\ entered \in Seq(Items) /\ taken \in Seq(Items)
  BY DEF Init
<1> QED
  BY <1>1, <1>2, <1>3 DEF Init, TypeOK, Items

LEMMA EnqueueType ==
  ASSUME TypeOK, NEW item \in Items, Enqueue(item)
  PROVE  queue' \in Seq(Items) /\ entered' \in Seq(Items)
<1>1. Append(queue, item) \in Seq(Items) /\ Append(entered, item) \in Seq(Items)
  BY AppendProperties DEF TypeOK
<1> QED
  BY <1>1 DEF Enqueue

LEMMA ProducerTypeOK ==
  ASSUME TypeOK, NEW p \in Producers, ProducerStep(p)
  PROVE  TypeOK'
<1> USE PoolAssumption DEF TypeOK, workers, closers, history
<1>1. CASE Submit(p)
  BY <1>1 DEF Submit, Items, Tasks
<1>2. CASE Put(p)
  <2>1. queue' \in Seq(Items) /\ entered' \in Seq(Items)
    BY <1>2, EnqueueType DEF Put
  <2>2. dropped' \in Nat
    BY <1>2 DEF Put
  <2> QED
    BY <1>2, <2>1, <2>2 DEF Put
<1> QED
  BY <1>1, <1>2 DEF ProducerStep

LEMMA WorkerTypeOK ==
  ASSUME TypeOK, NEW w \in Workers, WorkerStep(w)
  PROVE  TypeOK'
<1> USE DEF TypeOK, producers, closers, history, WorkerGoto
<1>1. CASE Check(w)
  BY <1>1 DEF Check
<1>2. CASE Take(w)
  <2>1. Head(queue) \in Items /\ Tail(queue) \in Seq(Items)
    BY <1>2, HeadTailProperties DEF Take
  <2>2. taken' \in Seq(Items)
    BY <1>2, <2>1, AppendProperties DEF Take
  <2> QED
    BY <1>2, <2>1, <2>2 DEF Take
<1>3. CASE GetTimeout(w)
  BY <1>3 DEF GetTimeout
<1>4. CASE Finish(w)
  BY <1>4 DEF Finish
<1> QED
  BY <1>1, <1>2, <1>3, <1>4 DEF WorkerStep

LEMMA OneIsWorker == 1 \in Workers
BY PoolAssumption DEF Workers

LEMMA CloserTypeOK ==
  ASSUME TypeOK, NEW c \in Closers, CloserStep(c)
  PROVE  TypeOK'
<1> USE PoolAssumption DEF TypeOK, producers, workers, history, CloserGoto, Workers
<1>1. CASE ShutdownCheck(c)
  BY <1>1 DEF ShutdownCheck
<1>2. CASE ShutdownSet(c)
  BY <1>2 DEF ShutdownSet
<1>3. CASE SendSentinel(c)
  <2>1. queue' \in Seq(Items) /\ entered' \in Seq(Items)
    BY <1>3, EnqueueType DEF SendSentinel, Items
  <2>2. step[c] < NumWorkers => step[c] + 1 \in Workers
    OBVIOUS
  <2> HIDE DEF Workers
  <2>3. step' \in [Closers -> Workers]
    BY <1>3, <2>2, OneIsWorker DEF SendSentinel
  <2>4. closer' \in [Closers -> {"ready", "refused", "set", "sentinels", "join", "closed"}]
    BY <1>3 DEF SendSentinel
  <2> QED
    BY <1>3, <2>1, <2>3, <2>4 DEF SendSentinel
<1>4. CASE Join(c)
  <2>2. step[c] < NumWorkers => step[c] + 1 \in Workers
    OBVIOUS
  <2> HIDE DEF Workers
  <2>3. step' \in [Closers -> Workers]
    BY <1>4, <2>2, OneIsWorker DEF Join
  <2>4. closer' \in [Closers -> {"ready", "refused", "set", "sentinels", "join", "closed"}]
    BY <1>4 DEF Join
  <2> QED
    BY <1>4, <2>3, <2>4 DEF Join
<1> QED
  BY <1>1, <1>2, <1>3, <1>4 DEF CloserStep

(* Every variable keeps its type. *)
THEOREM TypeCorrect == Spec => []TypeOK
<1>1. TypeOK /\ [Next]_vars => TypeOK'
  <2> SUFFICES ASSUME TypeOK, UNCHANGED vars PROVE TypeOK'
    BY ProducerTypeOK, WorkerTypeOK, CloserTypeOK DEF Next
  <2> QED
    BY DEF TypeOK, vars, producers, workers, closers, history
<1> QED
  BY <1>1, InitTypeOK, PTL DEF Spec

-----------------------------------------------------------------------------
(* A worker that has been joined is past its last get: it has ended, or it *)
(* runs a task and will find the flag set when it comes back.              *)
Joined(c) == IF closer[c] = "closed" THEN Workers
             ELSE IF closer[c] = "join" THEN 1 .. step[c] - 1 ELSE {}
Winding(w) == worker[w] \in {"exited", "run", "check"}

JoinedWindDown ==
  \A c \in Closers : /\ closer[c] \in {"sentinels", "join", "closed"} => shutdown
                     /\ \A w \in Workers : w \in Joined(c) => Winding(w)

LEMMA WorkerKeepsWinding ==
  ASSUME TypeOK, JoinedWindDown, NEW w \in Workers, WorkerStep(w)
  PROVE  JoinedWindDown'
<1>1. shutdown' = shutdown /\ closer' = closer /\ step' = step
  BY DEF WorkerStep, Check, Take, GetTimeout, Finish, closers
<1>2. \A v \in Workers : v # w => worker'[v] = worker[v]
  BY DEF WorkerStep, Check, Take, GetTimeout, Finish, WorkerGoto, TypeOK
<1>3. shutdown /\ Winding(w) => Winding(w)'
  BY DEF WorkerStep, Check, Take, GetTimeout, Finish, WorkerGoto, TypeOK, Winding
<1>4. \A c \in Closers : Joined(c)' = Joined(c)
  BY <1>1 DEF Joined
<1>5. \A c \in Closers : Joined(c) # {} => shutdown
  BY DEF JoinedWindDown, Joined
<1> QED
  BY <1>1, <1>2, <1>3, <1>4, <1>5 DEF JoinedWindDown, Winding

LEMMA CloserKeepsWinding ==
  ASSUME TypeOK, JoinedWindDown, NEW c \in Closers, CloserStep(c)
  PROVE  JoinedWindDown'
<1>1. worker' = worker /\ (shutdown => shutdown')
  BY DEF CloserStep, ShutdownCheck, ShutdownSet, SendSentinel, Join, workers
<1>2. \A d \in Closers : d # c => closer'[d] = closer[d] /\ step'[d] = step[d]
  BY DEF CloserStep, ShutdownCheck, ShutdownSet, SendSentinel, Join, CloserGoto,
         TypeOK
<1>3. closer'[c] \in {"sentinels", "join", "closed"} => shutdown'
  BY DEF CloserStep, ShutdownCheck, ShutdownSet, SendSentinel, Join, CloserGoto,
         TypeOK, JoinedWindDown
<1>4. ASSUME NEW w \in Workers, w \in Joined(c)'
      PROVE  w \in Joined(c) \/ (Join(c) /\ w = step[c])
  <2>1. CASE ShutdownCheck(c) \/ ShutdownSet(c)
    BY <1>4, <2>1 DEF ShutdownCheck, ShutdownSet, CloserGoto, TypeOK, Joined
  <2>2. CASE SendSentinel(c)
    BY <1>4, <2>2, PoolAssumption
       DEF SendSentinel, CloserGoto, TypeOK, Joined, Workers
  <2>3. CASE Join(c)
    BY <1>4, <2>3, PoolAssumption DEF Join, CloserGoto, TypeOK, Joined, Workers
  <2> QED
    BY <2>1, <2>2, <2>3 DEF CloserStep
<1>5. Join(c) => Winding(step[c])
  BY DEF Join, Winding
<1>6. \A w \in Workers : w \in Joined(c)' => Winding(w)'
  BY <1>1, <1>4, <1>5 DEF JoinedWindDown, Winding
<1>7. \A d \in Closers : d # c => Joined(d)' = Joined(d)
  BY <1>2 DEF Joined
<1> QED
  BY <1>1, <1>2, <1>3, <1>6, <1>7 DEF JoinedWindDown, Winding

LEMMA JoinedWindDownAlways == Spec => []JoinedWindDown
<1>1. Init => JoinedWindDown
  BY DEF Init, JoinedWindDown, Joined
<1>2. TypeOK /\ JoinedWindDown /\ [Next]_vars => JoinedWindDown'
  <2> SUFFICES ASSUME TypeOK, JoinedWindDown,
                      UNCHANGED <<shutdown, workers, closers>>
               PROVE  JoinedWindDown'
    BY WorkerKeepsWinding, CloserKeepsWinding
       DEF Next, ProducerStep, Submit, Put, vars
  <2> QED
    BY DEF JoinedWindDown, Joined, Winding, workers, closers
<1> QED
  BY <1>1, <1>2, TypeCorrect, PTL DEF Spec

(* No task begins once shutdown has returned to the caller that carried it *)
(* out.                                                                    *)
THEOREM NoLateStartHolds == Spec => NoLateStart
<1> DEFINE Quiet == \A w \in Workers : worker[w] # "run" /\ worker'[w] = "run"
                      => \A c \in Closers : closer[c] # "closed"
<1>1. TypeOK /\ JoinedWindDown /\ [Next]_vars => [Quiet]_vars
  <2> SUFFICES ASSUME TypeOK, JoinedWindDown, Next,
                      NEW w \in Workers, worker[w] # "run", worker'[w] = "run"
               PROVE  worker[w] = "get"
    BY DEF JoinedWindDown, Joined, Winding
  <2>1. PICK v \in Workers : WorkerStep(v)
    BY DEF Next, ProducerStep, Submit, Put, CloserStep, ShutdownCheck, ShutdownSet,
           SendSentinel, Join, workers
  <2> QED
    BY <2>1 DEF WorkerStep, Check, Take, GetTimeout, Finish, WorkerGoto, TypeOK
<1> QED
  BY <1>1, TypeCorrect, JoinedWindDownAlways, PTL DEF Spec, NoLateStart

-----------------------------------------------------------------------------
(* What entered the queue is what was taken and what is still in it. *)
THEOREM FifoHolds == Spec => []Fifo
<1>1. Init => Fifo
  BY DEF Init, Fifo
<1>2. TypeOK /\ Fifo /\ [Next]_vars => Fifo'
  <2> SUFFICES ASSUME TypeOK, Fifo, [Next]_vars PROVE Fifo'
    OBVIOUS
  <2>1. CASE \E item \in Items : Enqueue(item) /\ taken' = taken
    <3>1. PICK item \in Items : Enqueue(item) /\ taken' = taken
      BY <2>1
    <3>2. taken \o Append(queue, item) = Append(taken \o queue, item)
      BY AppendMoves DEF TypeOK
    <3> QED
      BY <3>1, <3>2 DEF Enqueue, Fifo
  <2>2. CASE \E w \in Workers : Take(w)
    BY <2>2, HeadMoves DEF Take, Fifo, TypeOK
  <2>3. CASE UNCHANGED <<queue, entered, taken>>
    BY <2>3 DEF Fifo
  <2>4. CASE \E p \in Producers : Put(p)
    BY <2>4, <2>1, <2>3 DEF Put, TypeOK
  <2>5. CASE \E c \in Closers : SendSentinel(c)
    BY <2>5, <2>1, <2>3 DEF SendSentinel, Items
  <2> QED
    BY <2>2, <2>3, <2>4, <2>5 DEF Next, ProducerStep, Submit, WorkerStep, Check,
       GetTimeout, Finish, CloserStep, ShutdownCheck, ShutdownSet, Join, vars, history
<1> QED
  BY <1>1, <1>2, TypeCorrect, PTL DEF Spec

-----------------------------------------------------------------------------
(* A task gets its number when submit is called, so a task that is being   *)
(* put is new to the queue and to every other producer.                    *)
OffersAreNew ==
  /\ \A i \in DOMAIN entered : entered[i] <= submitted
  /\ \A p \in Producers : producer[p] = "put" =>
       /\ offer[p] \in 1 .. submitted
       /\ \A i \in DOMAIN entered : entered[i] # offer[p]
       /\ \A q \in Producers : producer[q] = "put" /\ offer[p] = offer[q] => p = q

EnteredInv == OffersAreNew /\ EnteredOnce

(* Appending an item other than the ones in the queue keeps it free of     *)
(* duplicates; a sentinel may be there several times.                      *)
LEMMA EnqueueEntry ==
  ASSUME TypeOK, NEW item \in Items, Enqueue(item)
  PROVE  /\ DOMAIN entered' = 1 .. Len(entered) + 1
         /\ DOMAIN entered = 1 .. Len(entered)
         /\ \A i \in DOMAIN entered : entered'[i] = entered[i]
         /\ entered'[Len(entered) + 1] = item
BY AppendProperties DEF TypeOK, Enqueue

LEMMA EnteredAlways == Spec => []EnteredInv
<1>1. Init => EnteredInv
  BY DEF Init, EnteredInv, OffersAreNew, EnteredOnce
<1>2. TypeOK /\ EnteredInv /\ [Next]_vars => EnteredInv'
  <2> SUFFICES ASSUME TypeOK, EnteredInv, [Next]_vars PROVE EnteredInv'
    OBVIOUS
  <2> USE DEF EnteredInv, OffersAreNew, EnteredOnce
  <2>1. CASE \E p \in Producers : Submit(p)
    BY <2>1 DEF Submit, history, TypeOK, Items, Tasks, Sentinel
  <2>2. CASE \E p \in Producers : Put(p)
    <3>1. PICK p \in Producers : Put(p)
      BY <2>2
    <3>2. CASE Full
      BY <3>1, <3>2 DEF Put, TypeOK
    <3>3. CASE ~Full
      <4>1. Enqueue(offer[p]) /\ offer[p] \in Items /\ offer[p] # Sentinel
        BY <3>1, <3>3 DEF Put, TypeOK, Sentinel
      <4> HIDE DEF Enqueue
      <4>2. OffersAreNew'
        <5>1. /\ submitted' = submitted /\ offer' = offer /\ producer'[p] = "ready"
              /\ \A q \in Producers : producer'[q] = "put" =>
                   producer[q] = "put" /\ offer[q] # offer[p]
          BY <3>1 DEF Put, TypeOK
        <5>2. \A i \in DOMAIN entered' : \/ (i \in DOMAIN entered /\ entered'[i] = entered[i])
                                          \/ entered'[i] = offer[p]
          BY <4>1, EnqueueEntry DEF TypeOK
        <5>3. producer[p] = "put" /\ offer[p] \in 1 .. submitted /\ submitted \in Nat
          BY <3>1 DEF Put, TypeOK
        <5> QED
          BY <5>1, <5>2, <5>3
      <4>3. EnteredOnce'
        BY <3>1, <4>1, EnqueueEntry DEF Put, TypeOK
      <4> QED
        BY <4>2, <4>3
    <3> QED
      BY <3>2, <3>3
  <2>3. CASE \E c \in Closers : SendSentinel(c)
    <3>1. CASE Enqueue(Sentinel)
      <4> HIDE DEF Enqueue, EnteredInv, EnteredOnce, OffersAreNew
      <4>0. Sentinel \in Items /\ Sentinel = 0
        BY DEF Items, Sentinel
      <4>1. OffersAreNew'
        <5>1. submitted' = submitted /\ offer' = offer /\ producer' = producer
          BY <2>3 DEF SendSentinel, producers
        <5>2. \A i \in DOMAIN entered' :
                (i \in DOMAIN entered /\ entered'[i] = entered[i]) \/ entered'[i] = 0
          BY <3>1, <4>0, EnqueueEntry DEF TypeOK
        <5>3. submitted \in Nat
          BY DEF TypeOK
        <5> QED
          BY <5>1, <5>2, <5>3 DEF EnteredInv, OffersAreNew
      <4>2. EnteredOnce'
        <5>1. \A i \in DOMAIN entered' : entered'[i] # Sentinel =>
                i \in DOMAIN entered /\ entered'[i] = entered[i]
          BY <3>1, <4>0, EnqueueEntry DEF TypeOK
        <5> QED
          BY <5>1 DEF EnteredInv, EnteredOnce
      <4> QED
        BY <4>1, <4>2 DEF EnteredInv
    <3>2. CASE UNCHANGED entered
      BY <2>3, <3>2 DEF SendSentinel, producers
    <3> QED
      BY <2>3, <3>1, <3>2 DEF SendSentinel
  <2>4. CASE UNCHANGED <<entered, producers>>
    BY <2>4 DEF producers
  <2> QED
    BY <2>1, <2>2, <2>3, <2>4 DEF Next, ProducerStep, WorkerStep, Check, Take,
       GetTimeout, Finish, CloserStep, ShutdownCheck, ShutdownSet, Join, vars, history
<1> QED
  BY <1>1, <1>2, TypeCorrect, PTL DEF Spec

(* What a worker runs is among the tasks taken, and nobody else runs it. *)
RunningInv ==
  \A v \in Workers : worker[v] = "run" =>
    /\ task[v] # Sentinel
    /\ \E i \in DOMAIN taken : taken[i] = task[v]
    /\ \A w \in Workers : worker[w] = "run" /\ task[v] = task[w] => v = w

LEMMA TakenPrefix ==
  ASSUME TypeOK, Fifo
  PROVE  /\ DOMAIN taken = 1 .. Len(taken) /\ Len(taken) <= Len(entered)
         /\ DOMAIN entered = 1 .. Len(entered)
         /\ \A i \in DOMAIN taken : taken[i] = entered[i]
         /\ queue # <<>> => /\ Head(queue) = entered[Len(taken) + 1]
                            /\ Len(taken) < Len(entered)
BY ConcatProperties DEF TypeOK, Fifo

LEMMA TakeKeepsRunning ==
  ASSUME TypeOK, Fifo, EnteredOnce, RunningInv, NEW w \in Workers, Take(w)
  PROVE  RunningInv'
<1>1. Head(queue) # Sentinel =>
        \A i \in DOMAIN taken : taken[i] # Head(queue)
  BY TakenPrefix DEF EnteredOnce, Take
<1>2. Head(queue) \in Items
  BY HeadTailProperties DEF Take, TypeOK
<1>3. /\ DOMAIN taken' = 1 .. Len(taken) + 1 /\ DOMAIN taken = 1 .. Len(taken)
      /\ Len(taken) \in Nat
      /\ \A i \in DOMAIN taken : taken'[i] = taken[i]
      /\ taken'[Len(taken) + 1] = Head(queue)
  BY <1>2, AppendProperties DEF Take, TypeOK
<1>4. \A v \in Workers : v # w => worker'[v] = worker[v] /\ task'[v] = task[v]
  BY DEF Take, WorkerGoto, TypeOK
<1>5. task'[w] = Head(queue) /\ (worker'[w] = "run" => Head(queue) # Sentinel)
  BY DEF Take, WorkerGoto, TypeOK
<1> QED
  BY <1>1, <1>3, <1>4, <1>5 DEF RunningInv

LEMMA RunningAlways == Spec => []RunningInv
<1>1. Init => RunningInv
  BY DEF Init, RunningInv
<1>2. TypeOK /\ Fifo /\ EnteredInv /\ RunningInv /\ [Next]_vars => RunningInv'
  <2> SUFFICES ASSUME TypeOK, Fifo, EnteredInv, RunningInv, [Next]_vars
               PROVE  RunningInv'
    OBVIOUS
  <2>1. CASE \E w \in Workers : Take(w)
    BY <2>1, TakeKeepsRunning DEF EnteredInv
  <2>2. CASE \E w \in Workers : Check(w) \/ GetTimeout(w) \/ Finish(w)
    <3>1. taken' = taken /\ task' = task
      BY <2>2 DEF Check, GetTimeout, Finish, history
    <3>2. \A v \in Workers : worker'[v] = "run" => worker[v] = "run"
      BY <2>2 DEF Check, GetTimeout, Finish, WorkerGoto, TypeOK
    <3> QED
      BY <3>1, <3>2 DEF RunningInv
  <2>3. CASE UNCHANGED <<taken, workers>>
    BY <2>3 DEF RunningInv, workers
  <2> QED
    BY <2>1, <2>2, <2>3 DEF Next, ProducerStep, Submit, Put, WorkerStep, CloserStep,
       ShutdownCheck, ShutdownSet, SendSentinel, Join, vars, history
<1> QED
  BY <1>1, <1>2, TypeCorrect, FifoHolds, EnteredAlways, PTL DEF Spec

(* No task is ever run by two workers, or twice. *)
THEOREM RunsOnceHolds == Spec => []RunsOnce
<1>1. TypeOK /\ Fifo /\ EnteredInv /\ RunningInv => RunsOnce
  BY TakenPrefix DEF EnteredInv, EnteredOnce, RunningInv, RunsOnce
<1> QED
  BY <1>1, TypeCorrect, FifoHolds, EnteredAlways, RunningAlways, PTL
=============================================================================
