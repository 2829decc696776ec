---------------------------- MODULE VideoRecorder ----------------------------
(***************************************************************************)
(* The recorder of adapters/recorder/video_recorder.py: a consumer thread  *)
(* hands every frame to _on_frame, which opens the file on the first one   *)
(* and queues the write to the worker pool; stop_recording is meant to     *)
(* leave draining and releasing the file to a finalizer thread.            *)
(*                                                                         *)
(* self._lock is a threading.Lock, which is not reentrant.  A critical     *)
(* section that does not block is one step that needs the lock to be free; *)
(* stop_recording holds it over several steps and is the only owner that   *)
(* lock ever names.  Frames carry no data.                                 *)
(***************************************************************************)
EXTENDS Integers, FiniteSets

CONSTANTS
  Callers,      \* threads that start, stop and ask: Qt thread, close worker
  PoolThreads,  \* workers of the pool
  Capacity,     \* queue_size of the pool
  MaxStarts,    \* bound: recordings, that is FrameConsumers
  MaxFrames     \* bound: frames received

Consumers == 1 .. MaxStarts
NoOne     == -1
Finalizer == 0

VARIABLES
  lock,       \* the owner of self._lock between two steps, or NoOne
  recording, draining, drainDone,
  consumer,   \* self._consumer: 0 is None
  running,    \* the consumers whose loop goes on
  writer,     \* self._writer is a VideoWriter
  queued,     \* _last_queued_seq >= 0
  inFlight, frameCount,
  pending,    \* writes in the queue of the pool
  frames,     \* bound: frames received so far
  starts,     \* bound: recordings started so far
  pc          \* pc[t]: where thread t is

recorder == <<recording, draining, drainDone, consumer, running, writer, queued>>
counters == <<inFlight, frameCount, pending>>
bounds   == <<frames, starts>>
vars     == <<lock, recorder, counters, bounds, pc>>

Threads == Callers \cup PoolThreads \cup Consumers \cup {Finalizer}

Init ==
  /\ lock = NoOne
  /\ recording = FALSE /\ draining = FALSE /\ drainDone = TRUE
  /\ consumer = 0 /\ running = {} /\ writer = FALSE /\ queued = FALSE
  /\ inFlight = 0 /\ frameCount = 0 /\ pending = 0
  /\ frames = 0 /\ starts = 0
  /\ pc = [t \in Threads |-> "idle"]

At(t, here) == pc[t] = here
Goto(t, to) == pc' = [pc EXCEPT ![t] = to]
Free == lock = NoOne

-----------------------------------------------------------------------------
(* What callers do *)

Call(t) ==
  /\ At(t, "idle")
  /\ \/ starts < MaxStarts /\ Goto(t, "start")
     \/ \E op \in {"stop", "ask"} : Goto(t, op)
  /\ UNCHANGED <<lock, recorder, counters, bounds>>

(* The properties is_recording, duration, current_file and frame_count.    *)
Ask(t) ==
  /\ At(t, "ask") /\ Free /\ Goto(t, "idle")
  /\ UNCHANGED <<lock, recorder, counters, bounds>>

StartRefused(t) ==
  /\ At(t, "start") /\ Free /\ (recording \/ draining)
  /\ Goto(t, "idle")
  /\ UNCHANGED <<lock, recorder, counters, bounds>>

(* A FrameConsumer that a failed file left behind is not stopped, only     *)
(* replaced.                                                               *)
StartRecording(t) ==
  /\ At(t, "start") /\ Free /\ ~recording /\ ~draining
  /\ starts < MaxStarts
  /\ starts' = starts + 1
  /\ consumer' = starts + 1 /\ running' = running \cup {starts + 1}
  /\ recording' = TRUE /\ drainDone' = TRUE /\ queued' = FALSE
  /\ inFlight' = 0 /\ frameCount' = 0
  /\ Goto(t, "idle")
  /\ UNCHANGED <<lock, draining, writer, pending, frames>>

(* Nothing to stop, or somebody else is stopping already.                  *)
StopRefused(t) ==
  /\ At(t, "stop") /\ Free /\ ~recording
  /\ Goto(t, "idle")
  /\ UNCHANGED <<lock, recorder, counters, bounds>>

(* The flag, then consumer.stop, which joins its thread for two seconds,   *)
(* all with the lock held.                                                 *)
StopRecording(t) ==
  /\ At(t, "stop") /\ Free /\ recording
  /\ lock' = t
  /\ recording' = FALSE
  /\ consumer' = 0 /\ running' = running \ {consumer}
  /\ Goto(t, "duration")
  /\ UNCHANGED <<draining, drainDone, writer, queued, counters, bounds>>

(* self.duration takes the lock of its own accord; then the recorder is    *)
(* draining, the lock is released and the finalizer started.               *)
ReadDuration(t) ==
  /\ At(t, "duration") /\ Free
  /\ lock' = NoOne
  /\ draining' = TRUE /\ drainDone' = FALSE
  /\ pc' = [pc EXCEPT ![t] = "idle", ![Finalizer] = "drain"]
  /\ UNCHANGED <<recording, consumer, running, writer, queued, counters, bounds>>

-----------------------------------------------------------------------------
(* The finalizer: it waits for the writes in flight, with a timeout, and   *)
(* whatever happens makes the recorder usable again.                       *)
Drained ==
  /\ At(Finalizer, "drain") /\ Goto(Finalizer, "release")
  /\ UNCHANGED <<lock, recorder, counters, bounds>>

FinalizeRelease ==
  /\ At(Finalizer, "release") /\ Free
  /\ writer' = FALSE /\ draining' = FALSE /\ drainDone' = TRUE
  /\ Goto(Finalizer, "idle")
  /\ UNCHANGED <<lock, recording, consumer, running, queued, counters, bounds>>

-----------------------------------------------------------------------------
(* The consumer thread and the pool *)

Receive(c) ==
  /\ At(c, "idle") /\ c \in running /\ frames < MaxFrames
  /\ frames' = frames + 1
  /\ Goto(c, "frame")
  /\ UNCHANGED <<lock, recorder, counters, starts>>

(* A file that cannot be opened ends the recording, not the consumer.      *)
OnFrame(c) ==
  /\ At(c, "frame") /\ Free
  /\ \/ ~recording /\ Goto(c, "idle") /\ UNCHANGED recorder
     \/ /\ recording /\ writer' = TRUE /\ queued' = TRUE
        /\ Goto(c, "submit")
        /\ UNCHANGED <<recording, draining, drainDone, consumer, running>>
     \/ /\ recording /\ ~writer /\ recording' = FALSE
        /\ Goto(c, "idle")
        /\ UNCHANGED <<draining, drainDone, consumer, running, writer, queued>>
  /\ UNCHANGED <<lock, counters, bounds>>

(* A write that the pool refuses is no longer in flight.                   *)
SubmitWrite(c) ==
  /\ At(c, "submit") /\ Goto(c, "idle")
  /\ IF pending < Capacity
     THEN inFlight' = inFlight + 1 /\ pending' = pending + 1
     ELSE UNCHANGED <<inFlight, pending>>
  /\ UNCHANGED <<lock, recorder, frameCount, bounds>>

DoWrite(p) ==
  /\ At(p, "idle") /\ pending > 0
  /\ pending' = pending - 1
  /\ \E to \in {"count", "written"} : Goto(p, to)     \* written or raised
  /\ UNCHANGED <<lock, recorder, inFlight, frameCount, bounds>>

CountFrame(p) ==
  /\ At(p, "count") /\ Free /\ Goto(p, "written")
  /\ frameCount' = frameCount + 1
  /\ UNCHANGED <<lock, recorder, inFlight, pending, bounds>>

Landed(p) ==
  /\ At(p, "written") /\ Goto(p, "idle")
  /\ inFlight' = inFlight - 1
  /\ UNCHANGED <<lock, recorder, frameCount, pending, bounds>>

-----------------------------------------------------------------------------
CallerStep(t) ==
  Ask(t) \/ StartRefused(t) \/ StartRecording(t) \/ StopRefused(t)
  \/ StopRecording(t) \/ ReadDuration(t)

FinalizerStep == Drained \/ FinalizeRelease
ConsumerStep(c) == OnFrame(c) \/ SubmitWrite(c)
PoolStep(p) == DoWrite(p) \/ CountFrame(p) \/ Landed(p)

Next ==
  \/ \E t \in Callers : Call(t) \/ CallerStep(t)
  \/ FinalizerStep
  \/ \E c \in Consumers : Receive(c) \/ ConsumerStep(c)
  \/ \E p \in PoolThreads : PoolStep(p)

Spec == Init /\ [][Next]_vars

(* Every thread that can go on does; calls and frames need not come.       *)
FairSpec ==
  /\ Spec
  /\ \A t \in Callers : WF_vars(CallerStep(t))
  /\ WF_vars(FinalizerStep)
  /\ \A c \in Consumers : WF_vars(ConsumerStep(c))
  /\ \A p \in PoolThreads : WF_vars(PoolStep(p))

-----------------------------------------------------------------------------
(* stop_recording returns to its caller, be it the Qt thread or the close  *)
(* worker, whatever the disk does.  The docstring of the module and of the *)
(* method call it non-blocking.                                            *)
StopReturns ==
  \A t \in Callers : pc[t] \in {"stop", "duration"} ~> At(t, "idle")
=============================================================================
