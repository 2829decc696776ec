----------------------------- MODULE WorkerPool -----------------------------
(***************************************************************************)
(* The worker pool of utils/worker_pool.py: a bounded queue in front of    *)
(* long-lived worker threads, which drops what does not fit and is shut    *)
(* down once, by a flag and one sentinel per worker.                       *)
(*                                                                         *)
(* Producers and closers are threads of the rest of the program.  A step   *)
(* is one operation on the flag or on the queue, which is itself           *)
(* synchronised.  Tasks are numbered in the order in which submit is       *)
(* called; the queue holds tasks and sentinels.                            *)
(***************************************************************************)
EXTENDS Integers, Sequences, FiniteSets

CONSTANTS
  Producers,   \* threads that call submit
  Closers,     \* threads that call shutdown
  NumWorkers,  \* max_workers
  Capacity,    \* queue_size
  MaxTasks     \* bound: how many tasks are submitted

ASSUME PoolAssumption == /\ NumWorkers \in Nat \ {0} /\ Capacity \in Nat \ {0}
                         /\ MaxTasks \in Nat

Workers  == 1 .. NumWorkers
Tasks    == 1 .. MaxTasks
Sentinel == 0
Items    == Tasks \cup {Sentinel}

VARIABLES
  queue,      \* self._queue
  shutdown,   \* self._shutdown is set
  dropped,    \* self._dropped_count
  submitted,  \* number of calls of submit so far
  producer,   \* producer[p]: "ready", or "put" after the flag was seen clear
  offer,      \* offer[p]: the task p is submitting
  worker,     \* worker[w]: "check", "get", "run" or "exited"
  task,       \* task[w]: the last item w has taken
  closer,     \* control point of a thread in shutdown
  step,       \* step[c]: the worker whose sentinel or join comes next
  entered,    \* history: every item ever put into the queue, in order
  taken       \* history: every item ever taken from it, in order

producers == <<submitted, producer, offer>>
workers   == <<worker, task>>
closers   == <<closer, step>>
history   == <<entered, taken>>
vars      == <<queue, shutdown, dropped, producers, workers, closers, history>>

Init ==
  /\ queue = <<>> /\ shutdown = FALSE /\ dropped = 0 /\ submitted = 0
  /\ producer = [p \in Producers |-> "ready"]
  /\ offer = [p \in Producers |-> Sentinel]
  /\ worker = [w \in Workers |-> "check"] /\ task = [w \in Workers |-> Sentinel]
  /\ closer = [c \in Closers |-> "ready"] /\ step = [c \in Closers |-> 1]
  /\ entered = <<>> /\ taken = <<>>

-----------------------------------------------------------------------------
(* submit *)

Submit(p) ==
  /\ producer[p] = "ready" /\ submitted < MaxTasks
  /\ submitted' = submitted + 1
  /\ offer' = [offer EXCEPT ![p] = submitted + 1]
  /\ producer' = IF shutdown THEN producer ELSE [producer EXCEPT ![p] = "put"]
  /\ UNCHANGED <<queue, shutdown, dropped, workers, closers, history>>

Full == Len(queue) >= Capacity

Enqueue(item) ==
  queue' = Append(queue, item) /\ entered' = Append(entered, item)

(* Mutation: a task that does not fit pushes the oldest one out. *)
PutEvicting(p) ==
  /\ producer[p] = "put"
  /\ IF Full THEN queue' = Append(Tail(queue), offer[p])
     ELSE queue' = Append(queue, offer[p])
  /\ entered' = Append(entered, offer[p])
  /\ producer' = [producer EXCEPT ![p] = "ready"]
  /\ UNCHANGED <<shutdown, dropped, submitted, offer, workers, closers, taken>>

(* put_nowait: queued, or dropped and counted *)
Put(p) ==
  /\ producer[p] = "put"
  /\ IF Full THEN dropped' = dropped + 1 /\ UNCHANGED <<queue, entered>>
     ELSE Enqueue(offer[p]) /\ UNCHANGED dropped
  /\ producer' = [producer EXCEPT ![p] = "ready"]
  /\ UNCHANGED <<shutdown, submitted, offer, workers, closers, taken>>

-----------------------------------------------------------------------------
(* _worker_loop *)

WorkerGoto(w, point) == worker' = [worker EXCEPT ![w] = point]

(* Mutation: only a sentinel ends the loop. *)
CheckNothing(w) ==
  /\ worker[w] = "check" /\ WorkerGoto(w, "get")
  /\ UNCHANGED <<queue, shutdown, dropped, producers, task, closers, history>>

(* while not self._shutdown.is_set() *)
Check(w) ==
  /\ worker[w] = "check"
  /\ WorkerGoto(w, IF shutdown THEN "exited" ELSE "get")
  /\ UNCHANGED <<queue, shutdown, dropped, producers, task, closers, history>>

(* Mutation: get looks at the item and removes it in a second step. *)
TakeAndLeave(w) ==
  /\ worker[w] = "get" /\ queue # <<>>
  /\ taken' = Append(taken, Head(queue))
  /\ task' = [task EXCEPT ![w] = Head(queue)]
  /\ WorkerGoto(w, IF Head(queue) = Sentinel THEN "exited" ELSE "run")
  /\ UNCHANGED <<queue, shutdown, dropped, producers, closers, entered>>

(* get returns an item: a sentinel ends the loop, a task runs *)
Take(w) ==
  /\ worker[w] = "get" /\ queue # <<>>
  /\ queue' = Tail(queue) /\ taken' = Append(taken, Head(queue))
  /\ task' = [task EXCEPT ![w] = Head(queue)]
  /\ WorkerGoto(w, IF Head(queue) = Sentinel THEN "exited" ELSE "run")
  /\ UNCHANGED <<shutdown, dropped, producers, closers, entered>>

(* Mutation: get without a timeout. *)
GetForever(w) == worker[w] = "get" /\ queue = <<>> /\ UNCHANGED vars

(* Mutation: a worker that has nothing to do ends. *)
GetOnce(w) ==
  /\ worker[w] = "get" /\ queue = <<>> /\ WorkerGoto(w, "exited")
  /\ UNCHANGED <<queue, shutdown, dropped, producers, task, closers, history>>

(* get times out on an empty queue *)
GetTimeout(w) ==
  /\ worker[w] = "get" /\ queue = <<>> /\ WorkerGoto(w, "check")
  /\ UNCHANGED <<queue, shutdown, dropped, producers, task, closers, history>>

(* The task returns or raises; either way the worker goes on. *)
Finish(w) ==
  /\ worker[w] = "run" /\ WorkerGoto(w, "check")
  /\ UNCHANGED <<queue, shutdown, dropped, producers, task, closers, history>>

-----------------------------------------------------------------------------
(* shutdown *)

CloserGoto(c, point, k) ==
  /\ closer' = [closer EXCEPT ![c] = point] /\ step' = [step EXCEPT ![c] = k]

(* A second call returns at once. *)
ShutdownCheck(c) ==
  /\ closer[c] = "ready"
  /\ CloserGoto(c, IF shutdown THEN "refused" ELSE "set", 1)
  /\ UNCHANGED <<queue, shutdown, dropped, producers, workers, history>>

ShutdownSet(c) ==
  /\ closer[c] = "set"
  /\ shutdown' = TRUE /\ CloserGoto(c, "sentinels", 1)
  /\ UNCHANGED <<queue, dropped, producers, workers, history>>

(* Mutation: one sentinel too many. *)
SendExtra(c) ==
  /\ closer[c] = "sentinels"
  /\ IF Full THEN UNCHANGED <<queue, entered>> ELSE Enqueue(Sentinel)
  /\ IF step[c] <= NumWorkers THEN CloserGoto(c, "sentinels", step[c] + 1)
     ELSE CloserGoto(c, "join", 1)
  /\ UNCHANGED <<shutdown, dropped, producers, workers, taken>>

(* A sentinel that does not fit is given up. *)
SendSentinel(c) ==
  /\ closer[c] = "sentinels"
  /\ IF Full THEN UNCHANGED <<queue, entered>> ELSE Enqueue(Sentinel)
  /\ IF step[c] < NumWorkers THEN CloserGoto(c, "sentinels", step[c] + 1)
     ELSE CloserGoto(c, "join", 1)
  /\ UNCHANGED <<shutdown, dropped, producers, workers, taken>>

(* join(timeout): the 2 s of a join outlast the 0.5 s of a get, so that it *)
(* can only time out on a worker that is running a task.                   *)
Join(c) ==
  /\ closer[c] = "join" /\ worker[step[c]] \in {"exited", "run"}
  /\ IF step[c] < NumWorkers THEN CloserGoto(c, "join", step[c] + 1)
     ELSE CloserGoto(c, "closed", 1)
  /\ UNCHANGED <<queue, shutdown, dropped, producers, workers, history>>

-----------------------------------------------------------------------------
ProducerStep(p) == Submit(p) \/ Put(p)
WorkerStep(w) == Check(w) \/ Take(w) \/ GetTimeout(w) \/ Finish(w)
CloserStep(c) ==
  ShutdownCheck(c) \/ ShutdownSet(c) \/ SendSentinel(c) \/ Join(c)

Next == \/ \E p \in Producers : ProducerStep(p)
        \/ \E w \in Workers : WorkerStep(w)
        \/ \E c \in Closers : CloserStep(c)

Spec == Init /\ [][Next]_vars

(* Threads are scheduled and tasks return; a shutdown that has begun goes  *)
(* on; nobody has to submit a task or to begin a shutdown.                 *)
Fairness ==
  /\ \A w \in Workers : WF_vars(WorkerStep(w))
  /\ \A p \in Producers : WF_vars(Put(p))
  /\ \A c \in Closers : WF_vars(ShutdownSet(c) \/ SendSentinel(c) \/ Join(c))

FairSpec == Spec /\ Fairness

-----------------------------------------------------------------------------
TypeOK ==
  /\ queue \in Seq(Items) /\ shutdown \in BOOLEAN
  /\ dropped \in Nat /\ submitted \in 0 .. MaxTasks
  /\ producer \in [Producers -> {"ready", "put"}] /\ offer \in [Producers -> Items]
  /\ worker \in [Workers -> {"check", "get", "run", "exited"}]
  /\ task \in [Workers -> Items]
  /\ closer \in [Closers -> {"ready", "refused", "set", "sentinels", "join", "closed"}]
  /\ step \in [Closers -> Workers]
  /\ entered \in Seq(Items) /\ taken \in Seq(Items)

(* Nothing is lost, duplicated or reordered between put and get: what has  *)
(* entered the queue is what was taken from it, in order, and what is      *)
(* still in it.                                                            *)
Fifo == entered = taken \o queue

(* No task is ever run by two workers, or twice: a task that was queued    *)
(* was queued once, and each place of the history was taken once.          *)
EnteredOnce ==
  \A i, j \in DOMAIN entered :
    entered[i] = entered[j] /\ entered[i] # Sentinel => i = j
RunsOnce ==
  /\ \A i, j \in DOMAIN taken : taken[i] = taken[j] /\ taken[i] # Sentinel => i = j
  /\ \A v, w \in Workers :
       worker[v] = "run" /\ worker[w] = "run" /\ task[v] = task[w] => v = w

(* Once shutdown has returned to the caller that carried it out, no task   *)
(* begins any more: stop() can count on the pool being quiet.              *)
NoLateStart ==
  [][\A w \in Workers : worker[w] # "run" /\ worker'[w] = "run"
       => \A c \in Closers : closer[c] # "closed"]_vars

(* Every task that was accepted runs, whatever the tasks before it raised, *)
(* unless a shutdown begins: the workers leave their loop on the flag and  *)
(* the tasks that are then still queued are lost (_worker_loop).           *)
Queued(k)  == \E i \in DOMAIN queue : queue[i] = k
Ran(k)     == \E i \in DOMAIN taken : taken[i] = k
AcceptedRuns == \A k \in Tasks : Queued(k) ~> Ran(k) \/ shutdown

(* After shutdown every worker ends, also when its sentinel did not fit. *)
WorkersExit == shutdown ~> \A w \in Workers : worker[w] = "exited"

(* ... and whoever called shutdown returns. *)
ShutdownReturns ==
  \A c \in Closers : closer[c] = "set" ~> closer[c] = "closed"
=============================================================================
