------------------------------ MODULE Pipeline ------------------------------
(***************************************************************************)
(* The frame pipeline of gateway/pipeline.py and gateway/frame_queue.py:   *)
(* the producer thread that reads the camera, the detector and preview     *)
(* consumers it feeds through a ZeroMQ PUSH socket, the subscriber that    *)
(* hands detection results to the controller, and the thread that reports  *)
(* a camera which has failed too often.                                    *)
(*                                                                         *)
(* A Pipeline object is started and stopped once, by the thread that opens *)
(* the camera and by the close worker: the controller makes a new one for  *)
(* each session.  A step is what a thread does between two looks at shared *)
(* state.  Frames are numbered as they are read; of a frame only its       *)
(* number is kept, and of a message only the frame it is about.            *)
(***************************************************************************)
EXTENDS Integers, Sequences, FiniteSets

CONSTANTS
  MaxFailures,  \* FrameProducer.MAX_CONSECUTIVE_FAILURES
  HWM,          \* frames a consumer's pipe holds before the PUSH skips it
  ResultHWM,    \* results the subscriber's pipe holds
  MayFail,      \* which steps of start may raise
  MaxFrames     \* bound: frames read from the camera

Consumers == {"detector", "preview"}
Starts == {"start_publisher", "start_producer", "start_detector",
           "start_preview", "start_subscriber"}

ASSUME PipelineAssumption ==
  /\ MaxFailures \in Nat \ {0} /\ MaxFrames \in Nat
  /\ HWM \in Nat \ {0} /\ ResultHWM \in Nat \ {0} /\ MayFail \subseteq Starts

Frames  == 1 .. MaxFrames
NoFrame == 0

(* Where stop is; the component that is stopped or joined next. *)
Stops == {"stop_drain", "stop_producer", "close_producer", "forget_producer",
          "join_producer", "stop_detector", "join_detector", "stop_preview",
          "join_preview", "stop_subscriber", "join_subscriber",
          "stop_publisher", "stopped"}

(* milliseconds *)
InitialBackoff == 1000
MaxBackoff     == 5000
JoinTimeout    == 2000

VARIABLES
  phase,        \* where start or stop is
  running,      \* Pipeline._running
  paused,       \* Pipeline._paused
  drain,        \* control point of the fatal-error drain thread
  drainStop,    \* _fatal_error_drain_stop is set
  fatal,        \* number of messages in _fatal_error_queue
  published,    \* history: CAMERA_READ_FAILED events published
  producer,     \* control point of the producer thread
  prodRunning,  \* FrameProducer._running
  prodSocket,   \* its socket: "open", "closed" but referred to, or "none"
  failures,     \* _consecutive_failures
  backoff,      \* _current_backoff_ms
  frame,        \* the frame the producer holds, and the last one read
  streak,       \* history: reads that failed since the last one that did not
  consumer,     \* consumer[c]: control point of a consumer thread
  consRunning,  \* consRunning[c]: FrameConsumer._running
  pipe,         \* pipe[c]: frames sent to c and not yet received
  hold,         \* hold[c]: the frame c is working on
  latest,       \* Pipeline._latest_frame
  publisher,    \* the PUB socket is open
  subscriber,   \* control point of the subscriber thread
  subRunning,   \* ResultSubscriber._running
  results,      \* results published and not yet received
  subHold,      \* the result the subscriber is working on
  handled       \* history: what _on_results_callback was called with

flags     == <<running, paused>>
draining  == <<drain, drainStop, fatal, published>>
producing == <<producer, prodRunning, prodSocket, failures, backoff, frame, streak>>
consuming == <<consumer, consRunning, pipe, hold, latest>>
answering == <<publisher, subscriber, subRunning, results, subHold, handled>>
vars      == <<phase, flags, draining, producing, consuming, answering>>

Init ==
  /\ phase = "new" /\ running = FALSE /\ paused = FALSE
  /\ drain = "off" /\ drainStop = FALSE /\ fatal = 0 /\ published = 0
  /\ producer = "off" /\ prodRunning = FALSE /\ prodSocket = "none"
  /\ failures = 0 /\ backoff = InitialBackoff /\ frame = NoFrame /\ streak = 0
  /\ consumer = [c \in Consumers |-> "off"]
  /\ consRunning = [c \in Consumers |-> FALSE]
  /\ pipe = [c \in Consumers |-> <<>>] /\ hold = [c \in Consumers |-> NoFrame]
  /\ latest = NoFrame
  /\ publisher = FALSE /\ subscriber = "off" /\ subRunning = FALSE
  /\ results = <<>> /\ subHold = NoFrame /\ handled = <<>>

-----------------------------------------------------------------------------
(* start *)

Start ==
  /\ phase = "new" /\ phase' = "start_drain"
  /\ running' = TRUE /\ paused' = FALSE
  /\ UNCHANGED <<draining, producing, consuming, answering>>

StartDrain ==
  /\ phase = "start_drain" /\ phase' = "start_publisher"
  /\ drainStop' = FALSE /\ fatal' = 0 /\ drain' = "loop"
  /\ UNCHANGED <<flags, published, producing, consuming, answering>>

(* A step of start succeeds, or raises and ends it. *)
Goes(from, to) == phase = from /\ phase' = to
Raises == phase \in MayFail /\ phase' = "failed"
          /\ UNCHANGED <<flags, draining, producing, consuming, answering>>

StartPublisher ==
  /\ Goes("start_publisher", "start_producer")
  /\ publisher' = TRUE
  /\ UNCHANGED <<flags, draining, producing, consuming, subscriber, subRunning,
                 results, subHold, handled>>

StartProducer ==
  /\ Goes("start_producer", "start_detector")
  /\ prodSocket' = "open" /\ prodRunning' = TRUE /\ producer' = "check"
  /\ failures' = 0 /\ backoff' = InitialBackoff
  /\ UNCHANGED <<flags, draining, frame, streak, consuming, answering>>

StartConsumer(c) ==
  /\ \/ c = "detector" /\ Goes("start_detector", "start_preview")
     \/ c = "preview" /\ Goes("start_preview", "start_subscriber")
  /\ consRunning' = [consRunning EXCEPT ![c] = TRUE]
  /\ consumer' = [consumer EXCEPT ![c] = "poll"]
  /\ UNCHANGED <<flags, draining, producing, pipe, hold, latest, answering>>

StartSubscriber ==
  /\ Goes("start_subscriber", "running")
  /\ subRunning' = TRUE /\ subscriber' = "poll"
  /\ UNCHANGED <<flags, draining, producing, consuming, publisher, results,
                 subHold, handled>>

StartStep == \/ StartDrain \/ StartPublisher \/ StartProducer \/ StartSubscriber
             \/ Raises \/ \E c \in Consumers : StartConsumer(c)

(* pause and resume; the toggle may reach a pipeline that is being stopped *)
SetPaused(value) ==
  /\ phase \in {"running"} \cup Stops /\ paused' = value
  /\ UNCHANGED <<phase, running, draining, producing, consuming, answering>>

-----------------------------------------------------------------------------
(* The producer thread: FrameProducer._run_loop *)

ProducerCheck ==
  /\ producer = "check"
  /\ producer' = IF prodRunning /\ prodSocket # "none" THEN "read" ELSE "exited"
  /\ UNCHANGED <<phase, flags, draining, prodRunning, prodSocket, failures,
                 backoff, frame, streak, consuming, answering>>

(* read_frame returns a frame; it may also take for ever. *)
ReadFrame ==
  /\ producer = "read" /\ frame < MaxFrames
  /\ frame' = frame + 1 /\ streak' = 0 /\ producer' = "recheck"
  /\ UNCHANGED <<phase, flags, draining, prodRunning, prodSocket, failures,
                 backoff, consuming, answering>>

(* Mutation: one failure more than the limit is tolerated. *)
FailLate ==
  /\ failures' = failures + 1
  /\ IF failures >= MaxFailures
     THEN /\ producer' = "exited" /\ prodRunning' = FALSE /\ fatal' = fatal + 1
     ELSE producer' = "sleep" /\ UNCHANGED <<prodRunning, fatal>>

(* An exception in the loop: after the last one the producer gives up. *)
Fail ==
  /\ failures' = failures + 1
  /\ IF failures + 1 >= MaxFailures
     THEN /\ producer' = "exited" /\ prodRunning' = FALSE /\ fatal' = fatal + 1
     ELSE producer' = "sleep" /\ UNCHANGED <<prodRunning, fatal>>

(* A failed read counts, except one that ends in an AttributeError, as of a *)
(* camera that is being torn down: it ends the loop when stop has run, and  *)
(* else is slept over.                                                      *)
ReadFails ==
  /\ producer = "read"
  /\ \/ Fail /\ streak' = streak + 1
     \/ /\ producer' = IF prodRunning /\ prodSocket # "none" THEN "check" ELSE "exited"
        /\ UNCHANGED <<prodRunning, failures, fatal, streak>>
  /\ UNCHANGED <<phase, flags, drain, drainStop, published, prodSocket, backoff,
                 frame, consuming, answering>>

NextBackoff ==
  IF (backoff * 3) \div 2 < MaxBackoff THEN (backoff * 3) \div 2 ELSE MaxBackoff

Wake ==
  /\ producer = "sleep" /\ producer' = "check" /\ backoff' = NextBackoff
  /\ UNCHANGED <<phase, flags, draining, prodRunning, prodSocket, failures,
                 frame, streak, consuming, answering>>

Recheck ==
  /\ producer = "recheck"
  /\ producer' = IF prodRunning /\ prodSocket # "none" THEN "send" ELSE "exited"
  /\ UNCHANGED <<phase, flags, draining, prodRunning, prodSocket, failures,
                 backoff, frame, streak, consuming, answering>>

(* The peers of the PUSH socket that have room. *)
Targets == {c \in Consumers : consRunning[c] /\ Len(pipe[c]) < HWM}

(* PUSH gives the frame to one peer with room; without any, the second try *)
(* of the drop policies gives the frame up.                                *)
Send ==
  /\ producer = "send" /\ prodSocket = "open"
  /\ IF Targets = {} THEN UNCHANGED pipe
     ELSE \E c \in Targets : pipe' = [pipe EXCEPT ![c] = Append(@, frame)]
  /\ failures' = 0 /\ backoff' = InitialBackoff /\ producer' = "check"
  /\ UNCHANGED <<phase, flags, draining, prodRunning, prodSocket, frame, streak,
                 consumer, consRunning, hold, latest, answering>>

(* stop has closed the socket: a ZMQError, which counts as a failed read. *)
SendClosed ==
  /\ producer = "send" /\ prodSocket = "closed" /\ Fail
  /\ UNCHANGED <<phase, flags, drain, drainStop, published, prodSocket, backoff,
                 frame, streak, consuming, answering>>

(* ... and forgotten it: an AttributeError, which ends the loop. *)
SendForgotten ==
  /\ producer = "send" /\ prodSocket = "none" /\ producer' = "exited"
  /\ UNCHANGED <<phase, flags, draining, prodRunning, prodSocket, failures,
                 backoff, frame, streak, consuming, answering>>

ProducerStep == \/ ProducerCheck \/ Wake \/ Recheck \/ Send \/ SendClosed
                \/ SendForgotten

ReadStep == ReadFrame \/ ReadFails

-----------------------------------------------------------------------------
(* The drain thread: Pipeline._fatal_error_drain_loop *)

DrainGoto(from, to) == drain = from /\ drain' = to

DrainLoop ==
  /\ DrainGoto("loop", IF drainStop THEN "exited" ELSE "get")
  /\ UNCHANGED <<phase, flags, drainStop, fatal, published, producing,
                 consuming, answering>>

(* Mutation: an empty queue ends the loop. *)
DrainGetOnce ==
  /\ \/ fatal > 0 /\ DrainGoto("get", "check") /\ fatal' = fatal - 1
     \/ fatal = 0 /\ DrainGoto("get", "exited") /\ UNCHANGED fatal
  /\ UNCHANGED <<phase, flags, drainStop, published, producing, consuming,
                 answering>>

(* get returns a message, or times out *)
DrainGet ==
  /\ \/ fatal > 0 /\ DrainGoto("get", "check") /\ fatal' = fatal - 1
     \/ fatal = 0 /\ DrainGoto("get", "loop") /\ UNCHANGED fatal
  /\ UNCHANGED <<phase, flags, drainStop, published, producing, consuming,
                 answering>>

DrainCheck ==
  /\ DrainGoto("check", IF drainStop THEN "exited" ELSE "publish")
  /\ UNCHANGED <<phase, flags, drainStop, fatal, published, producing,
                 consuming, answering>>

DrainPublish ==
  /\ DrainGoto("publish", "loop") /\ published' = published + 1
  /\ UNCHANGED <<phase, flags, drainStop, fatal, producing, consuming, answering>>

DrainStep == DrainLoop \/ DrainGet \/ DrainCheck \/ DrainPublish

-----------------------------------------------------------------------------
(* The consumer threads: FrameConsumer._run_loop and the two callbacks *)

ConsumerGoto(c, from, to) ==
  consumer[c] = from /\ consumer' = [consumer EXCEPT ![c] = to]

(* poll; the loop goes round on a timeout *)
Poll(c) ==
  /\ ~consRunning[c] \/ pipe[c] # <<>>
  /\ ConsumerGoto(c, "poll", IF consRunning[c] THEN "recv" ELSE "exited")
  /\ UNCHANGED <<phase, flags, draining, producing, consRunning, pipe, hold,
                 latest, answering>>

(* Mutation: a frame that is received stays in the pipe. *)
RecvPeek(c) ==
  /\ IF consRunning[c]
     THEN /\ ConsumerGoto(c, "recv", "deliver")
          /\ hold' = [hold EXCEPT ![c] = Head(pipe[c])]
     ELSE ConsumerGoto(c, "recv", "exited") /\ UNCHANGED hold
  /\ UNCHANGED <<phase, flags, draining, producing, consRunning, pipe, latest,
                 answering>>

Recv(c) ==
  /\ IF consRunning[c]
     THEN /\ ConsumerGoto(c, "recv", "deliver")
          /\ hold' = [hold EXCEPT ![c] = Head(pipe[c])]
          /\ pipe' = [pipe EXCEPT ![c] = Tail(@)]
     ELSE ConsumerGoto(c, "recv", "exited") /\ UNCHANGED <<hold, pipe>>
  /\ UNCHANGED <<phase, flags, draining, producing, consRunning, latest, answering>>

Deliver(c) ==
  /\ ConsumerGoto(c, "deliver", IF consRunning[c] THEN "call" ELSE "exited")
  /\ UNCHANGED <<phase, flags, draining, producing, consRunning, pipe, hold,
                 latest, answering>>

(* _on_preview_frame *)
Preview ==
  /\ ConsumerGoto("preview", "call", "poll") /\ latest' = hold["preview"]
  /\ UNCHANGED <<phase, flags, draining, producing, consRunning, pipe, hold,
                 answering>>

(* _on_detection_frame: the flags, the detector, the publisher *)
DetectGate ==
  /\ ConsumerGoto("detector", "call", IF running /\ ~paused THEN "detect" ELSE "poll")
  /\ UNCHANGED <<phase, flags, draining, producing, consRunning, pipe, hold,
                 latest, answering>>

(* Something is found, or nothing that the subscriber would go on with, or *)
(* the detector raises.  It may also take for ever.                        *)
Detect ==
  /\ \/ ConsumerGoto("detector", "detect", "publish")
     \/ ConsumerGoto("detector", "detect", "poll")
  /\ UNCHANGED <<phase, flags, draining, producing, consRunning, pipe, hold,
                 latest, answering>>

(* PUB drops what the subscriber's pipe has no room for. *)
Publish ==
  /\ ConsumerGoto("detector", "publish", "poll")
  /\ results' = IF publisher /\ subRunning /\ Len(results) < ResultHWM
                THEN Append(results, hold["detector"]) ELSE results
  /\ UNCHANGED <<phase, flags, draining, producing, consRunning, pipe, hold,
                 latest, publisher, subscriber, subRunning, subHold, handled>>

ConsumerStep(c) ==
  \/ Poll(c) \/ Recv(c) \/ Deliver(c)
  \/ c = "preview" /\ Preview
  \/ c = "detector" /\ (DetectGate \/ Publish)

-----------------------------------------------------------------------------
(* The subscriber thread: ResultSubscriber._run_loop *)

SubscriberGoto(from, to) == subscriber = from /\ subscriber' = to

SubPoll ==
  /\ ~subRunning \/ results # <<>>
  /\ SubscriberGoto("poll", IF subRunning THEN "recv" ELSE "exited")
  /\ UNCHANGED <<phase, flags, draining, producing, consuming, publisher,
                 subRunning, results, subHold, handled>>

SubRecv ==
  /\ IF subRunning
     THEN /\ SubscriberGoto("recv", "deliver")
          /\ subHold' = Head(results) /\ results' = Tail(results)
     ELSE SubscriberGoto("recv", "exited") /\ UNCHANGED <<subHold, results>>
  /\ UNCHANGED <<phase, flags, draining, producing, consuming, publisher,
                 subRunning, handled>>

SubDeliver ==
  /\ SubscriberGoto("deliver", IF subRunning THEN "call" ELSE "exited")
  /\ UNCHANGED <<phase, flags, draining, producing, consuming, publisher,
                 subRunning, results, subHold, handled>>

(* _on_detection_result: the callback gets the result and the latest frame *)
SubCall ==
  /\ SubscriberGoto("call", "poll")
  /\ handled' = Append(handled, [frame |-> subHold, shown |-> latest])
  /\ UNCHANGED <<phase, flags, draining, producing, consuming, publisher,
                 subRunning, results, subHold>>

SubscriberStep == SubPoll \/ SubRecv \/ SubDeliver \/ SubCall

-----------------------------------------------------------------------------
(* stop: components that were never started are None and passed over *)

Stop ==
  /\ phase \in {"running", "failed"} /\ phase' = "stop_drain"
  /\ running' = FALSE
  /\ UNCHANGED <<paused, draining, producing, consuming, answering>>

(* Mutation: the drain thread is not told to stop. *)
StopDrainUntold ==
  /\ Goes("stop_drain", "stop_producer")
  /\ UNCHANGED <<flags, draining, producing, consuming, answering>>

StopDrain ==
  /\ Goes("stop_drain", "stop_producer") /\ drainStop' = TRUE
  /\ UNCHANGED <<flags, drain, fatal, published, producing, consuming, answering>>

StopProducer ==
  /\ Goes("stop_producer", "close_producer") /\ prodRunning' = FALSE
  /\ UNCHANGED <<flags, draining, producer, prodSocket, failures, backoff, frame,
                 streak, consuming, answering>>

CloseProducer ==
  /\ \/ Goes("close_producer", "forget_producer")
        /\ prodSocket' = IF prodSocket = "open" THEN "closed" ELSE prodSocket
     \/ Goes("forget_producer", "join_producer") /\ prodSocket' = "none"
  /\ UNCHANGED <<flags, draining, producer, prodRunning, failures, backoff,
                 frame, streak, consuming, answering>>

(* Mutation: join without a timeout. *)
JoinForever ==
  /\ producer \in {"off", "exited"} /\ Goes("join_producer", "stop_detector")
  /\ UNCHANGED <<flags, draining, producing, consuming, answering>>

(* join(2.0) times out on a camera that hangs, and on a long backoff. *)
JoinProducer ==
  /\ \/ producer \in {"off", "exited", "read"}
     \/ producer = "sleep" /\ backoff > JoinTimeout
  /\ Goes("join_producer", "stop_detector")
  /\ UNCHANGED <<flags, draining, producing, consuming, answering>>

StopConsumer(c) ==
  /\ \/ c = "detector" /\ Goes("stop_detector", "join_detector")
     \/ c = "preview" /\ Goes("stop_preview", "join_preview")
  /\ consRunning' = [consRunning EXCEPT ![c] = FALSE]
  /\ pipe' = [pipe EXCEPT ![c] = <<>>]
  /\ UNCHANGED <<flags, draining, producing, consumer, hold, latest, answering>>

(* Mutation: the consumer threads are not joined. *)
JoinNobody(c) ==
  /\ \/ c = "detector" /\ Goes("join_detector", "stop_preview")
     \/ c = "preview" /\ Goes("join_preview", "stop_subscriber")
  /\ UNCHANGED <<flags, draining, producing, consuming, answering>>

(* ... and on a detector that takes its time *)
JoinConsumer(c) ==
  /\ consumer[c] \in {"off", "exited", "detect"}
  /\ \/ c = "detector" /\ Goes("join_detector", "stop_preview")
     \/ c = "preview" /\ Goes("join_preview", "stop_subscriber")
  /\ UNCHANGED <<flags, draining, producing, consuming, answering>>

StopSubscriber ==
  /\ Goes("stop_subscriber", "join_subscriber")
  /\ subRunning' = FALSE /\ results' = <<>>
  /\ UNCHANGED <<flags, draining, producing, consuming, publisher, subscriber,
                 subHold, handled>>

(* Mutation: the subscriber is not waited for. *)
AbandonSubscriber ==
  /\ Goes("join_subscriber", "stop_publisher")
  /\ UNCHANGED <<flags, draining, producing, consuming, answering>>

JoinSubscriber ==
  /\ subscriber \in {"off", "exited"} /\ Goes("join_subscriber", "stop_publisher")
  /\ UNCHANGED <<flags, draining, producing, consuming, answering>>

StopPublisher ==
  /\ Goes("stop_publisher", "stopped") /\ publisher' = FALSE
  /\ UNCHANGED <<flags, draining, producing, consuming, subscriber, subRunning,
                 results, subHold, handled>>

StopStep ==
  \/ StopDrain \/ StopProducer \/ CloseProducer \/ JoinProducer
  \/ \E c \in Consumers : StopConsumer(c) \/ JoinConsumer(c)
  \/ StopSubscriber \/ JoinSubscriber \/ StopPublisher

-----------------------------------------------------------------------------
Next ==
  \/ Start \/ StartStep \/ Stop \/ StopStep
  \/ \E value \in BOOLEAN : SetPaused(value)
  \/ ReadStep \/ ProducerStep \/ DrainStep
  \/ \E c \in Consumers : ConsumerStep(c)
  \/ Detect \/ SubscriberStep

Spec == Init /\ [][Next]_vars

(* Threads are scheduled, joins time out; the camera and the detector may  *)
(* hang, and nobody has to start or stop the pipeline.                     *)
Fairness ==
  /\ WF_vars(StartStep) /\ WF_vars(StopStep)
  /\ WF_vars(ProducerStep) /\ WF_vars(DrainStep)
  /\ \A c \in Consumers : WF_vars(ConsumerStep(c))
  /\ WF_vars(SubscriberStep)

FairSpec == Spec /\ Fairness

-----------------------------------------------------------------------------
ProducerPoints == {"off", "check", "read", "sleep", "recheck", "send", "exited"}
DrainPoints == {"off", "loop", "get", "check", "publish", "exited"}
ConsumerPoints == {"off", "poll", "recv", "deliver", "call", "detect", "publish",
                   "exited"}
SubscriberPoints == {"off", "poll", "recv", "deliver", "call", "exited"}
Phases == {"new", "start_drain", "running", "failed"} \cup Starts \cup Stops

ProducerTypes ==
  /\ producer \in ProducerPoints /\ prodRunning \in BOOLEAN
  /\ prodSocket \in {"none", "open", "closed"}
  /\ failures \in 0 .. MaxFailures
  /\ backoff \in InitialBackoff .. MaxBackoff
  /\ frame \in {NoFrame} \cup Frames /\ streak \in Nat

ConsumerTypes ==
  /\ consumer \in [Consumers -> ConsumerPoints]
  /\ consRunning \in [Consumers -> BOOLEAN]
  /\ pipe \in [Consumers -> Seq(Frames)]
  /\ hold \in [Consumers -> {NoFrame} \cup Frames]
  /\ latest \in {NoFrame} \cup Frames

Answers == [frame : Frames, shown : {NoFrame} \cup Frames]

AnswerTypes ==
  /\ publisher \in BOOLEAN /\ subscriber \in SubscriberPoints
  /\ subRunning \in BOOLEAN /\ results \in Seq(Frames)
  /\ subHold \in {NoFrame} \cup Frames
  /\ handled \in Seq(Answers)

TypeOK ==
  /\ phase \in Phases /\ running \in BOOLEAN /\ paused \in BOOLEAN
  /\ drain \in DrainPoints /\ drainStop \in BOOLEAN
  /\ fatal \in Nat /\ published \in Nat
  /\ ProducerTypes /\ ConsumerTypes /\ AnswerTypes

(* Results reach the controller in the order of their frames, each once,   *)
(* although frames and results may be dropped on full pipes.               *)
ResultsInOrder ==
  \A i, j \in DOMAIN handled : i < j => handled[i].frame < handled[j].frame

(* The picture that is handed over with a detection, to be saved as its    *)
(* proof, is the frame it was found on, where there is one: "the source    *)
(* frame" of NotificationService.handle_results (_on_detection_result).    *)
PictureIsSource ==
  \A i \in DOMAIN handled : handled[i].shown \in {NoFrame, handled[i].frame}

(* It never is: PUSH deals the frames out, and what the controller gets as *)
(* "the latest frame" is one that went to the preview consumer.            *)
PictureIsAnother == \A i \in DOMAIN handled : handled[i].shown # handled[i].frame

(* A read failure is published as fatal at most once, and only after that  *)
(* many reads have failed in a row: the ZMQError of a socket that stop has *)
(* closed counts as a failure but is never reported (_run_loop and         *)
(* _fatal_error_drain_loop).                                               *)
FatalTruthful == published <= 1 /\ (published = 1 => streak >= MaxFailures)

(* stop leaves no socket open and, unless the camera or the detector hangs *)
(* or a backoff is long, no thread that works with one.                    *)
StopReleases ==
  phase = "stopped" =>
    /\ prodSocket = "none" /\ ~publisher /\ ~subRunning
    /\ \A c \in Consumers : ~consRunning[c] /\ pipe[c] = <<>>
    /\ consumer["preview"] \in {"off", "exited"}
    /\ subscriber \in {"off", "exited"}

(* Once stop has returned, so that the controller may release the camera,  *)
(* no read of the camera begins, no detection begins and no result is      *)
(* handed over, also by threads that stop has given up waiting for.        *)
QuietAfterStop ==
  [][phase = "stopped" => /\ producer' = "read" => producer = "read"
                          /\ consumer'["detector"] = "detect"
                               => consumer["detector"] = "detect"
                          /\ handled' = handled]_vars

(* A producer that has given up is reported, unless the pipeline is being  *)
(* stopped anyway.                                                         *)
FatalReported ==
  (producer = "exited" /\ failures = MaxFailures) ~> (published = 1 \/ drainStop)

(* stop returns, also from a camera and a detector that hang for ever.     *)
StopReturns == phase \in Stops ~> phase = "stopped"
=============================================================================
