--------------------------- MODULE PipelineProofs ---------------------------
(***************************************************************************)
(* What holds of Pipeline for every limit, queue length and camera.        *)
(***************************************************************************)
EXTENDS Pipeline, SequenceTheorems, TLAPS

(* TypeOK by thread, with what keeps each thread from working on nothing:  *)
(* one that goes on to receive, deliver or send has something to do that   *)
(* with, and a producer that has reached the limit has given up.           *)
InHand == {"deliver", "call", "detect", "publish"}

FlagInv  == phase \in Phases /\ running \in BOOLEAN /\ paused \in BOOLEAN
DrainInv == /\ drain \in DrainPoints /\ drainStop \in BOOLEAN
            /\ fatal \in Nat /\ published \in Nat
ProdInv  == /\ ProducerTypes
            /\ producer \in {"recheck", "send"} => frame # NoFrame
            /\ failures = MaxFailures => producer = "exited"
ConsInv  == /\ ConsumerTypes
            /\ \A c \in Consumers :
                 /\ consumer[c] = "recv" /\ consRunning[c] => pipe[c] # <<>>
                 /\ consumer[c] \in InHand => hold[c] # NoFrame
            /\ consumer["preview"] \notin {"detect", "publish"}
AnswInv  == /\ AnswerTypes
            /\ subscriber = "recv" /\ subRunning => results # <<>>
            /\ subscriber \in {"deliver", "call"} => subHold # NoFrame

TypeInv == FlagInv /\ DrainInv /\ ProdInv /\ ConsInv /\ AnswInv

LEMMA InitTypeInv == Init => TypeInv
<1> SUFFICES ASSUME Init PROVE TypeInv
  OBVIOUS
<1>1. FlagInv /\ DrainInv
  BY DEF Init, FlagInv, DrainInv, Phases, DrainPoints
<1>2. ProdInv
  <2>1. failures # MaxFailures /\ failures \in 0 .. MaxFailures
    BY PipelineAssumption DEF Init
  <2>2. backoff \in InitialBackoff .. MaxBackoff
    BY DEF Init, InitialBackoff, MaxBackoff
  <2> QED
    BY <2>1, <2>2 DEF Init, ProdInv, ProducerTypes, ProducerPoints, NoFrame
<1>3. ConsInv
  BY DEF Init, ConsInv, ConsumerTypes, ConsumerPoints, InHand, NoFrame, Consumers
<1>4. AnswInv
  BY EmptySeq DEF Init, AnswInv, AnswerTypes, SubscriberPoints, NoFrame
<1> QED
  BY <1>1, <1>2, <1>3, <1>4 DEF TypeInv

LEMMA Unchanged ==
  /\ FlagInv /\ UNCHANGED <<phase, flags>> => FlagInv'
  /\ DrainInv /\ UNCHANGED draining => DrainInv'
  /\ ProdInv /\ UNCHANGED producing => ProdInv'
  /\ ConsInv /\ UNCHANGED consuming => ConsInv'
  /\ AnswInv /\ UNCHANGED answering => AnswInv'
<1>1. FlagInv /\ UNCHANGED <<phase, flags>> => FlagInv'
  BY DEF FlagInv, flags
<1>2. DrainInv /\ UNCHANGED draining => DrainInv'
  BY DEF DrainInv, draining
<1>3. ProdInv /\ UNCHANGED producing => ProdInv'
  BY DEF ProdInv, ProducerTypes, producing
<1>4. ConsInv /\ UNCHANGED consuming => ConsInv'
  BY DEF ConsInv, ConsumerTypes, consuming
<1>5. AnswInv /\ UNCHANGED answering => AnswInv'
  BY DEF AnswInv, AnswerTypes, answering
<1> QED
  BY <1>1, <1>2, <1>3, <1>4, <1>5

LEMMA StartTypeInv ==
  ASSUME TypeInv, Start \/ StartStep \/ (\E value \in BOOLEAN : SetPaused(value))
  PROVE  TypeInv'
<1> USE Unchanged DEF TypeInv
<1>1. CASE Start
  BY <1>1 DEF Start, FlagInv, Phases
<1>2. CASE StartDrain
  BY <1>2 DEF StartDrain, FlagInv, DrainInv, Phases, Starts, DrainPoints, flags
<1>3. CASE Raises
  BY <1>3 DEF Raises, FlagInv, Phases, flags
<1>4. CASE StartPublisher
  BY <1>4 DEF StartPublisher, Goes, FlagInv, Phases, Starts, flags, AnswInv, AnswerTypes
<1>5. CASE StartProducer
  <2>1. FlagInv'
    BY <1>5 DEF StartProducer, Goes, FlagInv, Phases, Starts, flags
  <2>2. ProdInv'
    BY <1>5, PipelineAssumption
       DEF StartProducer, ProdInv, ProducerTypes, ProducerPoints, InitialBackoff, MaxBackoff
  <2> QED
    BY <1>5, <2>1, <2>2 DEF StartProducer
<1>6. ASSUME NEW c \in Consumers, StartConsumer(c) PROVE TypeInv'
  <2>1. FlagInv'
    BY <1>6 DEF StartConsumer, Goes, FlagInv, Phases, Starts, flags
  <2>2. ConsInv'
    BY <1>6 DEF StartConsumer, ConsInv, ConsumerTypes, ConsumerPoints, InHand
  <2> QED
    BY <1>6, <2>1, <2>2 DEF StartConsumer
<1>7. CASE StartSubscriber
  <2>1. FlagInv'
    BY <1>7 DEF StartSubscriber, Goes, FlagInv, Phases, Starts, flags
  <2>2. AnswInv'
    BY <1>7 DEF StartSubscriber, AnswInv, AnswerTypes, SubscriberPoints
  <2> QED
    BY <1>7, <2>1, <2>2 DEF StartSubscriber
<1>8. CASE \E value \in BOOLEAN : SetPaused(value)
  BY <1>8 DEF SetPaused, FlagInv
<1> QED
  BY <1>1, <1>2, <1>3, <1>4, <1>5, <1>6, <1>7, <1>8 DEF StartStep

(* The producer never counts beyond the limit. *)
LEMMA FailTypeInv ==
  ASSUME TypeInv, Fail, producer # "exited", streak' \in Nat,
         UNCHANGED <<drain, drainStop, published, prodSocket, backoff, frame>>
  PROVE  ProdInv' /\ DrainInv'
<1>1. failures < MaxFailures /\ failures \in Nat
  BY PipelineAssumption DEF TypeInv, ProdInv, ProducerTypes
<1>2. CASE failures + 1 >= MaxFailures
  <2>1. failures' \in 0 .. MaxFailures /\ producer' = "exited" /\ prodRunning' = FALSE
    BY <1>1, <1>2, PipelineAssumption DEF Fail
  <2>2. ProdInv'
    BY <2>1 DEF TypeInv, ProdInv, ProducerTypes, ProducerPoints
  <2>3. DrainInv'
    BY <1>2 DEF Fail, TypeInv, DrainInv
  <2> QED
    BY <2>2, <2>3
<1>3. CASE ~(failures + 1 >= MaxFailures)
  BY <1>1, <1>3, PipelineAssumption
     DEF Fail, TypeInv, ProdInv, ProducerTypes, ProducerPoints, DrainInv
<1> QED
  BY <1>2, <1>3

LEMMA ProducerTypeInv ==
  ASSUME TypeInv, ReadStep \/ ProducerStep
  PROVE  TypeInv'
<1> USE Unchanged DEF TypeInv
<1>1. CASE ProducerCheck
  BY <1>1 DEF ProducerCheck, ProdInv, ProducerTypes, ProducerPoints
<1>2. CASE ReadFrame
  BY <1>2, PipelineAssumption
     DEF ReadFrame, ProdInv, ProducerTypes, ProducerPoints, Frames, NoFrame
<1>3. CASE ReadFails
  <2>1. CASE Fail /\ streak' = streak + 1
    <3>1. ProdInv' /\ DrainInv'
      BY <1>3, <2>1, FailTypeInv DEF ReadFails, ProdInv, ProducerTypes
    <3> QED
      BY <1>3, <3>1 DEF ReadFails
  <2>2. CASE UNCHANGED <<prodRunning, failures, fatal, streak>>
    BY <1>3, <2>2
    DEF ReadFails, Fail, ProdInv, DrainInv, ProducerTypes, ProducerPoints, DrainPoints
  <2> QED
    BY <1>3, <2>1, <2>2 DEF ReadFails
<1>4. CASE Wake
  <2>1. NextBackoff \in InitialBackoff .. MaxBackoff
    BY DEF NextBackoff, InitialBackoff, MaxBackoff, ProdInv, ProducerTypes
  <2> QED
    BY <1>4, <2>1 DEF Wake, ProdInv, ProducerTypes, ProducerPoints
<1>5. CASE Recheck
  BY <1>5 DEF Recheck, ProdInv, ProducerTypes, ProducerPoints
<1>6. CASE Send
  <2>1. ProdInv'
    BY <1>6, PipelineAssumption
       DEF Send, ProdInv, ProducerTypes, ProducerPoints, InitialBackoff, MaxBackoff
  <2>2. \A c \in Consumers :
          /\ Append(pipe[c], frame) \in Seq(Frames)
          /\ Append(pipe[c], frame) # <<>>
    BY <1>6, AppendProperties DEF Send, ProdInv, ProducerTypes, ConsInv, ConsumerTypes
  <2>3. ConsInv'
    BY <1>6, <2>2 DEF Send, Targets, ConsInv, ConsumerTypes
  <2> QED
    BY <1>6, <2>1, <2>3 DEF Send
<1>7. CASE SendClosed
  <2>1. ProdInv' /\ DrainInv'
    BY <1>7, FailTypeInv DEF SendClosed, ProdInv, ProducerTypes
  <2> QED
    BY <1>7, <2>1 DEF SendClosed
<1>8. CASE SendForgotten
  BY <1>8 DEF SendForgotten, ProdInv, ProducerTypes, ProducerPoints
<1> QED
  BY <1>1, <1>2, <1>3, <1>4, <1>5, <1>6, <1>7, <1>8 DEF ReadStep, ProducerStep

LEMMA DrainTypeInv ==
  ASSUME TypeInv, DrainStep
  PROVE  TypeInv'
BY Unchanged DEF TypeInv, DrainInv, DrainPoints, DrainStep, DrainGoto, DrainLoop,
   DrainGet, DrainCheck, DrainPublish

LEMMA ConsumerTypeInv ==
  ASSUME TypeInv, Detect \/ \E c \in Consumers : ConsumerStep(c)
  PROVE  TypeInv'
<1> USE Unchanged DEF TypeInv, ConsumerGoto
<1>1. ASSUME NEW c \in Consumers, Poll(c) PROVE TypeInv'
  BY <1>1 DEF Poll, ConsInv, ConsumerTypes, ConsumerPoints, InHand
<1>2. ASSUME NEW c \in Consumers, Recv(c) PROVE TypeInv'
  <2>1. consRunning[c] => /\ Head(pipe[c]) \in Frames
                          /\ Tail(pipe[c]) \in Seq(Frames)
    BY <1>2, HeadTailProperties DEF Recv, ConsInv, ConsumerTypes
  <2>0. consumer'["preview"] \notin {"detect", "publish"}
    BY <1>2 DEF Recv, ConsInv, ConsumerTypes, Consumers
  <2>2. CASE consRunning[c]
    <3>1. Head(pipe[c]) # NoFrame
      BY <2>1, <2>2 DEF Frames, NoFrame
    <3> QED
      BY <1>2, <2>0, <2>1, <2>2, <3>1
         DEF Recv, ConsInv, ConsumerTypes, ConsumerPoints, InHand
  <2>3. CASE ~consRunning[c]
    BY <1>2, <2>0, <2>3 DEF Recv, ConsInv, ConsumerTypes, ConsumerPoints, InHand
  <2> QED
    BY <2>2, <2>3
<1>3. ASSUME NEW c \in Consumers, Deliver(c) PROVE TypeInv'
  BY <1>3 DEF Deliver, ConsInv, ConsumerTypes, ConsumerPoints, InHand
<1>4. CASE Preview
  BY <1>4 DEF Preview, Consumers, ConsInv, ConsumerTypes, ConsumerPoints, InHand
<1>5. CASE DetectGate
  BY <1>5 DEF DetectGate, Consumers, ConsInv, ConsumerTypes, ConsumerPoints, InHand
<1>6. CASE Detect
  BY <1>6 DEF Detect, Consumers, ConsInv, ConsumerTypes, ConsumerPoints, InHand
<1>7. CASE Publish
  <2>1. hold["detector"] \in Frames
    BY <1>7 DEF Publish, Consumers, ConsInv, ConsumerTypes, InHand
  <2>2. results' \in Seq(Frames) /\ (results # <<>> => results' # <<>>)
    BY <1>7, <2>1, AppendProperties DEF Publish, AnswInv, AnswerTypes
  <2>3. AnswInv'
    BY <1>7, <2>2 DEF Publish, AnswInv, AnswerTypes
  <2>4. ConsInv'
    BY <1>7 DEF Publish, Consumers, ConsInv, ConsumerTypes, ConsumerPoints, InHand
  <2> QED
    BY <1>7, <2>3, <2>4 DEF Publish
<1> QED
  BY <1>1, <1>2, <1>3, <1>4, <1>5, <1>6, <1>7 DEF ConsumerStep

LEMMA SubscriberTypeInv ==
  ASSUME TypeInv, SubscriberStep
  PROVE  TypeInv'
<1> USE Unchanged DEF TypeInv, SubscriberGoto, AnswInv, AnswerTypes, SubscriberPoints
<1>1. CASE SubPoll
  BY <1>1 DEF SubPoll
<1>2. CASE SubRecv
  <2>1. subRunning => Head(results) \in Frames /\ Tail(results) \in Seq(Frames)
    BY <1>2, HeadTailProperties DEF SubRecv
  <2> QED
    BY <1>2, <2>1 DEF SubRecv, Frames, NoFrame
<1>3. CASE SubDeliver
  BY <1>3 DEF SubDeliver
<1>4. CASE SubCall
  <2>1. [frame |-> subHold, shown |-> latest]
          \in Answers
    BY <1>4 DEF SubCall, ConsInv, ConsumerTypes, Answers
  <2>2. handled' \in Seq(Answers)
    BY <1>4, <2>1, AppendProperties DEF SubCall
  <2> QED
    BY <1>4, <2>2 DEF SubCall
<1> QED
  BY <1>1, <1>2, <1>3, <1>4 DEF SubscriberStep

LEMMA StopTypeInv ==
  ASSUME TypeInv, Stop \/ StopStep
  PROVE  TypeInv'
<1>1. FlagInv'
  BY DEF TypeInv, FlagInv, Phases, Stops, flags, Goes, Stop, StopStep, StopDrain,
     StopProducer, CloseProducer, JoinProducer, StopConsumer, JoinConsumer,
     StopSubscriber, JoinSubscriber, StopPublisher
<1>2. DrainInv'
  BY Unchanged DEF TypeInv, DrainInv, Stop, StopStep, StopDrain,
     StopProducer, CloseProducer, JoinProducer, StopConsumer, JoinConsumer,
     StopSubscriber, JoinSubscriber, StopPublisher
<1>3. ProdInv'
  <2>1. CASE StopProducer \/ CloseProducer
    BY <2>1 DEF StopProducer, CloseProducer, TypeInv, ProdInv, ProducerTypes
  <2>2. CASE UNCHANGED producing
    BY <2>2, Unchanged DEF TypeInv
  <2> QED
    BY <2>1, <2>2 DEF Stop, StopStep, StopDrain, JoinProducer, StopConsumer,
       JoinConsumer, StopSubscriber, JoinSubscriber, StopPublisher
<1>4. ConsInv'
  <2>1. ASSUME NEW c \in Consumers, StopConsumer(c) PROVE ConsInv'
    BY <2>1 DEF StopConsumer, TypeInv, ConsInv, ConsumerTypes
  <2>2. CASE UNCHANGED consuming
    BY <2>2, Unchanged DEF TypeInv
  <2> QED
    BY <2>1, <2>2 DEF Stop, StopStep, StopDrain, StopProducer, CloseProducer,
       JoinProducer, JoinConsumer, StopSubscriber, JoinSubscriber, StopPublisher
<1>5. AnswInv'
  <2>1. CASE StopSubscriber
    <3>1. results' \in Seq(Frames) /\ subRunning' = FALSE
      BY <2>1, EmptySeq DEF StopSubscriber
    <3> QED
      BY <2>1, <3>1 DEF StopSubscriber, TypeInv, AnswInv, AnswerTypes
  <2>3. CASE StopPublisher
    BY <2>3 DEF StopPublisher, TypeInv, AnswInv, AnswerTypes
  <2>2. CASE UNCHANGED answering
    BY <2>2, Unchanged DEF TypeInv
  <2> QED
    BY <2>1, <2>2, <2>3 DEF Stop, StopStep, StopDrain, StopProducer, CloseProducer,
       JoinProducer, StopConsumer, JoinConsumer, JoinSubscriber
<1> QED
  BY <1>1, <1>2, <1>3, <1>4, <1>5 DEF TypeInv

LEMMA TypeInvAlways == Spec => []TypeInv
<1>1. TypeInv /\ [Next]_vars => TypeInv'
  <2> SUFFICES ASSUME TypeInv, UNCHANGED vars PROVE TypeInv'
    BY StartTypeInv, ProducerTypeInv, DrainTypeInv, ConsumerTypeInv,
       SubscriberTypeInv, StopTypeInv DEF Next
  <2> QED
    BY Unchanged DEF TypeInv, vars
<1> QED
  BY <1>1, InitTypeInv, PTL DEF Spec

(* Every variable of the pipeline keeps its type; in particular, nothing   *)
(* is taken from an empty queue.                                           *)
THEOREM TypeCorrect == Spec => []TypeOK
<1>1. TypeInv => TypeOK
  BY DEF TypeInv, TypeOK, FlagInv, DrainInv, ProdInv, ConsInv, AnswInv
<1> QED
  BY <1>1, TypeInvAlways, PTL

-----------------------------------------------------------------------------
(* stop works its way through the components: what is behind it is stopped,*)
(* and stays so.  The drain thread and a thread that is given up are not   *)
(* mentioned; they have nothing left to work with.                         *)
PastProducer   == Stops \ {"stop_drain", "stop_producer"}
PastSocket     == PastProducer \ {"close_producer", "forget_producer"}
PastDetector   == PastSocket \ {"join_producer", "stop_detector"}
PastPreview    == PastDetector \ {"join_detector", "stop_preview"}
PastPreviewEnd == PastPreview \ {"join_preview"}
PastSubscriber == {"join_subscriber", "stop_publisher", "stopped"}
PastSubEnd     == {"stop_publisher", "stopped"}

Silent(c) == ~consRunning[c] /\ pipe[c] = <<>>

ProducerStopped == /\ phase \in PastProducer => ~prodRunning
                   /\ phase \in PastSocket => prodSocket = "none"
ConsumersStopped ==
  /\ phase \in PastDetector => Silent("detector")
  /\ phase \in PastPreview => Silent("preview")
  /\ phase \in PastPreviewEnd => consumer["preview"] \in {"off", "exited"}
AnswersStopped ==
  /\ phase \in PastSubscriber => ~subRunning
  /\ phase \in PastSubEnd => subscriber \in {"off", "exited"}
  /\ phase = "stopped" => ~publisher

StopInv == /\ phase \in Stops => ~running
           /\ ProducerStopped /\ ConsumersStopped /\ AnswersStopped

LEMMA InitStopInv == Init => StopInv
BY DEF Init, StopInv, ProducerStopped, ConsumersStopped, AnswersStopped, Stops,
   PastProducer, PastSocket, PastDetector, PastPreview, PastPreviewEnd,
   PastSubscriber, PastSubEnd

LEMMA PastStops ==
  /\ PastProducer \subseteq Stops /\ PastSocket \subseteq Stops
  /\ PastDetector \subseteq Stops /\ PastPreview \subseteq Stops
  /\ PastPreviewEnd \subseteq Stops /\ PastSubscriber \subseteq Stops
  /\ PastSubEnd \subseteq Stops /\ "stopped" \in Stops
BY DEF PastProducer, PastSocket, PastDetector, PastPreview, PastPreviewEnd,
   PastSubscriber, PastSubEnd, Stops

LEMMA StartStopInv ==
  ASSUME StopInv, Start \/ StartStep
  PROVE  StopInv'
<1>1. phase' \notin Stops
  BY DEF Start, StartStep, StartDrain, Raises, StartPublisher, StartProducer,
     StartConsumer, StartSubscriber, Goes, Stops
<1> QED
  BY <1>1, PastStops DEF StopInv, ProducerStopped, ConsumersStopped, AnswersStopped

(* No thread undoes what stop has done. *)
LEMMA ThreadStopInv ==
  ASSUME TypeInv, StopInv,
         \/ ReadStep \/ ProducerStep \/ DrainStep \/ Detect \/ SubscriberStep
         \/ \E c \in Consumers : ConsumerStep(c)
         \/ \E value \in BOOLEAN : SetPaused(value)
  PROVE  StopInv'
<1>1. phase' = phase /\ running' = running /\ consRunning' = consRunning
      /\ prodSocket' = prodSocket /\ subRunning' = subRunning
      /\ publisher' = publisher
  BY DEF flags, draining, producing, consuming, answering, ReadStep, ReadFrame,
     ReadFails, ProducerStep, ProducerCheck, Wake, Recheck, Send, SendClosed,
     SendForgotten, DrainStep, DrainLoop, DrainGet, DrainCheck, DrainPublish, Detect,
     ConsumerStep, Poll, Recv, Deliver, Preview, DetectGate, Publish, SubscriberStep,
     SubPoll, SubRecv, SubDeliver, SubCall, SetPaused
<1>2. ~prodRunning => ~prodRunning'
  BY DEF producing, ReadStep, ReadFrame, ReadFails, Fail, ProducerStep, ProducerCheck,
     Wake, Recheck, Send, SendClosed, SendForgotten, DrainStep, DrainLoop, DrainGet,
     DrainCheck, DrainPublish, Detect, ConsumerStep, Poll, Recv, Deliver, Preview,
     DetectGate, Publish, SubscriberStep, SubPoll, SubRecv, SubDeliver, SubCall,
     SetPaused
<1>3. ASSUME NEW c \in Consumers, ~consRunning[c] PROVE pipe'[c] = pipe[c]
  <2>1. CASE Send
    BY <1>3, <2>1 DEF Send, Targets, TypeInv, ConsInv, ConsumerTypes
  <2>2. CASE \E d \in Consumers : Recv(d)
    BY <1>3, <2>2 DEF Recv, TypeInv, ConsInv, ConsumerTypes
  <2>3. CASE UNCHANGED pipe
    BY <2>3
  <2> QED
    BY <2>1, <2>2, <2>3 DEF consuming, ReadStep, ReadFrame, ReadFails, ProducerStep,
       ProducerCheck, Wake, Recheck, SendClosed, SendForgotten, DrainStep, DrainLoop,
       DrainGet, DrainCheck, DrainPublish, Detect, ConsumerStep, Poll, Deliver,
       Preview, DetectGate, Publish, SubscriberStep, SubPoll, SubRecv, SubDeliver,
       SubCall, SetPaused
<1>4. consumer["preview"] \in {"off", "exited"}
        => consumer'["preview"] = consumer["preview"]
  <2>1. CASE \E c \in Consumers : ConsumerStep(c)
    BY <2>1 DEF ConsumerStep, Poll, Recv, Deliver, Preview, DetectGate, Publish,
       ConsumerGoto, Consumers, TypeInv, ConsInv, ConsumerTypes
  <2>2. CASE Detect
    BY <2>2 DEF Detect, ConsumerGoto, Consumers, TypeInv, ConsInv, ConsumerTypes
  <2>3. CASE UNCHANGED consumer
    BY <2>3
  <2> QED
    BY <2>1, <2>2, <2>3 DEF consuming, ReadStep, ReadFrame, ReadFails, ProducerStep,
       ProducerCheck, Wake, Recheck, Send, SendClosed, SendForgotten, DrainStep,
       DrainLoop, DrainGet, DrainCheck, DrainPublish, SubscriberStep, SubPoll,
       SubRecv, SubDeliver, SubCall, SetPaused
<1>5. subscriber \in {"off", "exited"} => subscriber' = subscriber
  BY DEF answering, ReadStep, ReadFrame, ReadFails, ProducerStep, ProducerCheck,
     Wake, Recheck, Send, SendClosed, SendForgotten, DrainStep, DrainLoop, DrainGet,
     DrainCheck, DrainPublish, Detect, ConsumerStep, Poll, Recv, Deliver, Preview,
     DetectGate, Publish, SubscriberStep, SubPoll, SubRecv, SubDeliver, SubCall,
     SubscriberGoto, SetPaused
<1>6. "detector" \in Consumers /\ "preview" \in Consumers
  BY DEF Consumers
<1> QED
  BY <1>1, <1>2, <1>3, <1>4, <1>5, <1>6
     DEF StopInv, ProducerStopped, ConsumersStopped, AnswersStopped, Silent

LEMMA StopStopInv ==
  ASSUME TypeInv, StopInv, Stop \/ StopStep
  PROVE  StopInv'
<1> USE DEF StopInv, ProducerStopped, ConsumersStopped, AnswersStopped, Stops,
            PastProducer, PastSocket, PastDetector, PastPreview, PastPreviewEnd,
            PastSubscriber, PastSubEnd, Silent, Goes, flags, draining, producing,
            consuming, answering
<1>1. CASE Stop
  BY <1>1 DEF Stop
<1>2. CASE StopDrain
  BY <1>2 DEF StopDrain
<1>3. CASE StopProducer
  BY <1>3 DEF StopProducer
<1>4. CASE CloseProducer
  BY <1>4 DEF CloseProducer
<1>5. CASE JoinProducer
  BY <1>5 DEF JoinProducer
<1>6. ASSUME NEW c \in Consumers, StopConsumer(c) PROVE StopInv'
  BY <1>6 DEF StopConsumer, Consumers, TypeInv, ConsInv, ConsumerTypes
<1>7. ASSUME NEW c \in Consumers, JoinConsumer(c) PROVE StopInv'
  BY <1>7 DEF JoinConsumer, Consumers, TypeInv, ConsInv
<1>8. CASE StopSubscriber
  BY <1>8 DEF StopSubscriber
<1>9. CASE JoinSubscriber
  BY <1>9 DEF JoinSubscriber
<1>10. CASE StopPublisher
  BY <1>10 DEF StopPublisher
<1> QED
  BY <1>1, <1>2, <1>3, <1>4, <1>5, <1>6, <1>7, <1>8, <1>9, <1>10 DEF StopStep

LEMMA StopInvAlways == Spec => []StopInv
<1>1. TypeInv /\ StopInv /\ [Next]_vars => StopInv'
  <2> SUFFICES ASSUME TypeInv, StopInv, UNCHANGED vars PROVE StopInv'
    BY StartStopInv, ThreadStopInv, StopStopInv DEF Next
  <2> QED
    BY DEF StopInv, ProducerStopped, ConsumersStopped, AnswersStopped, Silent, vars,
       flags, producing, consuming, answering
<1> QED
  BY <1>1, InitStopInv, TypeInvAlways, PTL DEF Spec

(* Once stop has returned every socket is closed, every flag is cleared,   *)
(* and the preview and subscriber threads have ended, however start went.  *)
THEOREM StopReleasesHolds == Spec => []StopReleases
<1>1. StopInv => StopReleases
  BY DEF StopInv, ProducerStopped, ConsumersStopped, AnswersStopped, Silent,
     StopReleases, Stops, PastProducer, PastSocket, PastDetector, PastPreview,
     PastPreviewEnd, PastSubscriber, PastSubEnd, Consumers
<1> QED
  BY <1>1, StopInvAlways, PTL

(* ... and from then on no read begins, no detection begins and no result  *)
(* is handed over, whatever the threads that were given up on still do.    *)
THEOREM QuietAfterStopHolds == Spec => QuietAfterStop
<1> DEFINE Quiet ==
      phase = "stopped" => /\ producer' = "read" => producer = "read"
                           /\ consumer'["detector"] = "detect"
                                => consumer["detector"] = "detect"
                           /\ handled' = handled
<1>1. TypeInv /\ StopInv /\ [Next]_vars => [Quiet]_vars
  <2> SUFFICES ASSUME TypeInv, StopInv, Next, phase = "stopped" PROVE Quiet
    OBVIOUS
  <2>1. ~running /\ ~prodRunning /\ subscriber \in {"off", "exited"}
    BY DEF StopInv, ProducerStopped, AnswersStopped, Stops, PastProducer, PastSubEnd
  <2>2. \/ ReadStep \/ ProducerStep \/ DrainStep \/ Detect \/ SubscriberStep
        \/ \E c \in Consumers : ConsumerStep(c)
        \/ \E value \in BOOLEAN : SetPaused(value)
    BY PipelineAssumption
    DEF Next, Start, StartStep, StartDrain, Raises, StartPublisher, StartProducer,
       StartConsumer, StartSubscriber, Stop, StopStep, StopDrain, StopProducer,
       CloseProducer, JoinProducer, StopConsumer, JoinConsumer, StopSubscriber,
       JoinSubscriber, StopPublisher, Goes, Starts
  <2>3. producer' = "read" => producer = "read"
    BY <2>1, <2>2 DEF producing, ReadStep, ReadFrame, ReadFails, Fail, ProducerStep,
       ProducerCheck, Wake, Recheck, Send, SendClosed, SendForgotten, DrainStep,
       DrainLoop, DrainGet, DrainCheck, DrainPublish, Detect, ConsumerStep, Poll,
       Recv, Deliver, Preview, DetectGate, Publish, SubscriberStep, SubPoll, SubRecv,
       SubDeliver, SubCall, SetPaused
  <2>4. handled' = handled
    BY <2>1, <2>2 DEF answering, ReadStep, ReadFrame, ReadFails, ProducerStep,
       ProducerCheck, Wake, Recheck, Send, SendClosed, SendForgotten, DrainStep,
       DrainLoop, DrainGet, DrainCheck, DrainPublish, Detect, ConsumerStep, Poll,
       Recv, Deliver, Preview, DetectGate, Publish, SubscriberStep, SubPoll, SubRecv,
       SubDeliver, SubCall, SubscriberGoto, SetPaused
  <2>5. consumer'["detector"] = "detect" => consumer["detector"] = "detect"
    <3>1. CASE \E c \in Consumers : ConsumerStep(c)
      BY <2>1, <3>1 DEF ConsumerStep, Poll, Recv, Deliver, Preview, DetectGate,
         Publish, ConsumerGoto, Consumers, TypeInv, ConsInv, ConsumerTypes
    <3>2. CASE Detect
      BY <3>2 DEF Detect, ConsumerGoto
    <3>3. CASE UNCHANGED consumer
      BY <3>3
    <3> QED
      BY <2>2, <3>1, <3>2, <3>3 DEF consuming, ReadStep, ReadFrame, ReadFails,
         ProducerStep, ProducerCheck, Wake, Recheck, Send, SendClosed, SendForgotten,
         DrainStep, DrainLoop, DrainGet, DrainCheck, DrainPublish, SubscriberStep,
         SubPoll, SubRecv, SubDeliver, SubCall, SetPaused
  <2> QED
    BY <2>3, <2>4, <2>5
<1> QED
  BY <1>1, TypeInvAlways, StopInvAlways, PTL DEF Spec, QuietAfterStop

-----------------------------------------------------------------------------
(* A fatal message is put by a producer that has given up, and goes from   *)
(* the queue through the drain thread's hand to the event bus.             *)
InFlight == drain \in {"check", "publish"}
BeforeProducer == {"new", "start_drain", "start_publisher", "start_producer"}

FatalInv ==
  /\ failures < MaxFailures => fatal = 0 /\ ~InFlight /\ published = 0
  /\ fatal + published <= 1 /\ (InFlight => fatal + published = 0)
  /\ producer \in {"check", "read", "sleep"} /\ ~drainStop => failures <= streak
  /\ failures = MaxFailures =>
       streak >= MaxFailures \/ (drainStop /\ drain # "publish" /\ published = 0)
  /\ phase \in Stops \ {"stop_drain"} => drainStop
  /\ phase \in BeforeProducer =>
       prodSocket = "none" /\ producer = "off" /\ failures = 0
  /\ prodSocket = "closed" => phase \in Stops \ {"stop_drain"}

LEMMA InitFatalInv == Init => FatalInv
BY PipelineAssumption DEF Init, FatalInv, InFlight, BeforeProducer, Stops

LEMMA NextFatalInv ==
  ASSUME TypeInv, FatalInv, [Next]_vars
  PROVE  FatalInv'
<1> DEFINE Aside == UNCHANGED <<phase, draining, producing>>
<1>0. /\ failures \in Nat /\ failures <= MaxFailures /\ MaxFailures \in Nat \ {0}
      /\ fatal \in Nat /\ published \in Nat /\ streak \in Nat
      /\ failures = MaxFailures => producer = "exited"
  BY PipelineAssumption DEF TypeInv, DrainInv, ProdInv, ProducerTypes
<1> USE DEF FatalInv, InFlight, BeforeProducer, Stops, Starts, Goes, flags, draining,
        producing, DrainGoto
<1>1. CASE Aside
  BY <1>1
<1>2. CASE Start
  BY <1>2 DEF Start
<1>3. CASE StartDrain
  BY <1>0, <1>3 DEF StartDrain
<1>4. CASE Raises
  BY <1>4, PipelineAssumption DEF Raises
<1>5. CASE StartPublisher
  BY <1>5 DEF StartPublisher
<1>6. CASE StartProducer
  BY <1>0, <1>6 DEF StartProducer
<1>7. ASSUME NEW c \in Consumers, StartConsumer(c) PROVE FatalInv'
  BY <1>7 DEF StartConsumer
<1>8. CASE StartSubscriber
  BY <1>8 DEF StartSubscriber
<1>9. CASE ProducerCheck \/ Recheck \/ Wake \/ SendForgotten
  BY <1>9 DEF ProducerCheck, Recheck, Wake, SendForgotten
<1>10. CASE ReadFrame
  BY <1>0, <1>10 DEF ReadFrame
<1>11. CASE ReadFails
  BY <1>0, <1>11 DEF ReadFails, Fail
<1>12. CASE Send
  BY <1>0, <1>12 DEF Send
<1>13. CASE SendClosed
  BY <1>0, <1>13 DEF SendClosed, Fail
<1>14. CASE DrainLoop
  BY <1>14 DEF DrainLoop
<1>15. CASE DrainGet
  BY <1>0, <1>15 DEF DrainGet
<1>16. CASE DrainCheck
  BY <1>0, <1>16 DEF DrainCheck
<1>17. CASE DrainPublish
  BY <1>0, <1>17 DEF DrainPublish
<1>18. CASE Stop
  BY <1>18 DEF Stop
<1>19. CASE StopDrain
  BY <1>19 DEF StopDrain
<1>20. CASE StopProducer \/ CloseProducer \/ JoinProducer
  BY <1>20 DEF StopProducer, CloseProducer, JoinProducer
<1>21. ASSUME NEW c \in Consumers, StopConsumer(c) \/ JoinConsumer(c) PROVE FatalInv'
  BY <1>21 DEF StopConsumer, JoinConsumer
<1>22. CASE StopSubscriber \/ JoinSubscriber \/ StopPublisher
  BY <1>22 DEF StopSubscriber, JoinSubscriber, StopPublisher
<1>23. CASE Detect \/ SubscriberStep \/ (\E c \in Consumers : ConsumerStep(c))
            \/ (\E value \in BOOLEAN : SetPaused(value)) \/ UNCHANGED vars
  <2>1. Aside
    BY <1>23 DEF Detect, SubscriberStep, SubPoll, SubRecv, SubDeliver, SubCall,
       ConsumerStep, Poll, Recv, Deliver, Preview, DetectGate, Publish, SetPaused, vars
  <2> QED
    BY <1>1, <2>1
<1> QED
  BY <1>2, <1>3, <1>4, <1>5, <1>6, <1>7, <1>8, <1>9, <1>10, <1>11, <1>12, <1>13,
     <1>14, <1>15, <1>16, <1>17, <1>18, <1>19, <1>20, <1>21, <1>22, <1>23
  DEF Next, StartStep, ReadStep, ProducerStep, DrainStep, StopStep

(* A fatal error is published at most once, and only after so many reads   *)
(* in a row have failed: a socket that stop has closed is never reported.  *)
THEOREM FatalTruthfulHolds == Spec => []FatalTruthful
<1>1. TypeInv /\ FatalInv => FatalTruthful
  BY PipelineAssumption
  DEF TypeInv, DrainInv, ProdInv, ProducerTypes, FatalInv, FatalTruthful
<1>2. TypeInv /\ FatalInv /\ [Next]_vars => FatalInv'
  BY NextFatalInv
<1> QED
  BY <1>1, <1>2, InitFatalInv, TypeInvAlways, PTL DEF Spec

-----------------------------------------------------------------------------
(* Where a frame that was sent can be: on the preview consumer's way to    *)
(* the picture that is shown, or on the detector's way to the results.     *)
Has(s, x) == \E i \in DOMAIN s : s[i] = x

ShownSide(x) ==
  \/ Has(pipe["preview"], x) \/ hold["preview"] = x \/ latest = x
  \/ \E i \in DOMAIN handled : handled[i].shown = x

FoundSide(x) ==
  \/ Has(pipe["detector"], x) \/ hold["detector"] = x
  \/ Has(results, x) \/ subHold = x
  \/ \E i \in DOMAIN handled : handled[i].frame = x

Sending == producer \in {"recheck", "send"}

Dealt ==
  /\ \A x \in Frames : ~(ShownSide(x) /\ FoundSide(x))
  /\ \A x \in Frames : ShownSide(x) \/ FoundSide(x) =>
       x <= frame /\ (Sending => x < frame)

Shrinks == \A x \in Frames : /\ ShownSide(x)' => ShownSide(x)
                             /\ FoundSide(x)' => FoundSide(x)

(* What is in a queue after something was taken, or added. *)
LEMMA TailHas ==
  ASSUME NEW S, NEW s \in Seq(S), s # <<>>, NEW x
  PROVE  /\ Has(Tail(s), x) => Has(s, x)
         /\ Has(s, Head(s))
<1>1. /\ Len(s) \in Nat \ {0} /\ DOMAIN s = 1 .. Len(s)
      /\ DOMAIN Tail(s) = 1 .. Len(s) - 1 /\ Head(s) = s[1]
      /\ \A i \in 1 .. Len(s) - 1 : Tail(s)[i] = s[i + 1]
  BY HeadTailProperties, EmptySeq, LenProperties
<1> QED
  BY <1>1 DEF Has

LEMMA AppendHas ==
  ASSUME NEW S, NEW s \in Seq(S), NEW e \in S, NEW x
  PROVE  Has(Append(s, e), x) <=> Has(s, x) \/ e = x
<1>1. /\ Len(s) \in Nat /\ DOMAIN s = 1 .. Len(s)
      /\ DOMAIN Append(s, e) = 1 .. Len(s) + 1
      /\ \A i \in 1 .. Len(s) : Append(s, e)[i] = s[i]
      /\ Append(s, e)[Len(s) + 1] = e
  BY AppendProperties, LenProperties
<1> QED
  BY <1>1 DEF Has

(* No step but Send puts a frame where it was not. *)
LEMMA OthersShrink ==
  ASSUME TypeInv, Next, ~Send
  PROVE  Shrinks
<1> USE DEF Shrinks
<1>0. ASSUME UNCHANGED <<pipe, hold, latest, results, subHold, handled>>
      PROVE  Shrinks
  BY <1>0 DEF ShownSide, FoundSide
<1>1. CASE Start \/ StartStep \/ Stop \/ (\E value \in BOOLEAN : SetPaused(value))
           \/ ReadStep \/ ProducerStep \/ DrainStep
  BY <1>0, <1>1
  DEF Start, StartStep, StartDrain, Raises, StartPublisher, StartProducer,
      StartConsumer, StartSubscriber, Stop, SetPaused, ReadStep, ReadFrame, ReadFails,
      ProducerStep, ProducerCheck, Wake, Recheck, SendClosed, SendForgotten, DrainStep,
      DrainLoop, DrainGet, DrainCheck, DrainPublish, consuming, answering
<1>2. ASSUME NEW c \in Consumers, StopConsumer(c) PROVE Shrinks
  <2>1. /\ pipe' = [pipe EXCEPT ![c] = <<>>]
        /\ UNCHANGED <<hold, latest, results, subHold, handled>>
    BY <1>2 DEF StopConsumer, answering
  <2>2. \A d \in Consumers : \A x : Has(pipe'[d], x) => Has(pipe[d], x)
    BY <2>1 DEF Has, TypeInv, ConsInv, ConsumerTypes
  <2> QED
    BY <2>1, <2>2 DEF ShownSide, FoundSide, Consumers
<1>3. CASE StopSubscriber
  BY <1>3 DEF StopSubscriber, ShownSide, FoundSide, Has, consuming
<1>4. CASE StopDrain \/ StopProducer \/ CloseProducer \/ JoinProducer
           \/ (\E c \in Consumers : JoinConsumer(c)) \/ JoinSubscriber
           \/ StopPublisher
  BY <1>0, <1>4 DEF StopDrain, StopProducer, CloseProducer, JoinProducer,
     JoinConsumer, JoinSubscriber, StopPublisher, consuming, answering
<1>5. ASSUME NEW c \in Consumers, Recv(c) PROVE Shrinks
  <2>1. CASE consRunning[c]
    <3>1. /\ pipe[c] \in Seq(Frames) /\ pipe[c] # <<>>
          /\ pipe' = [pipe EXCEPT ![c] = Tail(@)]
          /\ hold' = [hold EXCEPT ![c] = Head(pipe[c])]
          /\ UNCHANGED <<latest, results, subHold, handled>>
      BY <1>5, <2>1 DEF Recv, ConsumerGoto, TypeInv, ConsInv, ConsumerTypes, answering
    <3>2. \A d \in Consumers : \A x :
            /\ Has(pipe'[d], x) => Has(pipe[d], x)
            /\ hold'[d] = x => hold[d] = x \/ Has(pipe[d], x)
      BY <3>1, TailHas DEF TypeInv, ConsInv, ConsumerTypes
    <3> QED
      BY <3>1, <3>2 DEF ShownSide, FoundSide, Consumers
  <2>2. CASE ~consRunning[c]
    BY <1>0, <1>5, <2>2 DEF Recv, answering
  <2> QED
    BY <2>1, <2>2
<1>6. CASE Preview
  BY <1>6 DEF Preview, ShownSide, FoundSide, answering
<1>7. CASE Publish
  <2>1. /\ results' = results \/ results' = Append(results, hold["detector"])
        /\ UNCHANGED <<pipe, hold, latest, subHold, handled>>
    BY <1>7 DEF Publish
  <2>2. results \in Seq(Frames) /\ hold["detector"] \in Frames
    BY <1>7 DEF Publish, ConsumerGoto, TypeInv, AnswInv, AnswerTypes, ConsInv,
       ConsumerTypes, InHand, Consumers
  <2>3. \A x : Has(results', x) => Has(results, x) \/ hold["detector"] = x
    BY <2>1, <2>2, AppendHas
  <2> QED
    BY <2>1, <2>3 DEF ShownSide, FoundSide
<1>8. CASE SubRecv /\ subRunning
  <2>1. /\ results \in Seq(Frames) /\ results # <<>>
        /\ subHold' = Head(results) /\ results' = Tail(results)
        /\ UNCHANGED <<pipe, hold, latest, handled>>
    BY <1>8 DEF SubRecv, SubscriberGoto, TypeInv, AnswInv, AnswerTypes, consuming
  <2> QED
    BY <2>1, TailHas DEF ShownSide, FoundSide
<1>9. CASE SubCall
  <2>1. /\ handled' = Append(handled, [frame |-> subHold, shown |-> latest])
        /\ UNCHANGED <<pipe, hold, latest, results, subHold>>
    BY <1>9 DEF SubCall, consuming
  <2>2. handled \in Seq(Answers) /\ [frame |-> subHold, shown |-> latest] \in Answers
    BY <1>9 DEF SubCall, SubscriberGoto, TypeInv, AnswInv, AnswerTypes, ConsInv,
       ConsumerTypes, Answers
  <2>3. \A i \in DOMAIN handled' :
          \/ i \in DOMAIN handled /\ handled'[i] = handled[i]
          \/ handled'[i] = [frame |-> subHold, shown |-> latest]
    BY <2>1, <2>2, AppendProperties, LenProperties
  <2> QED
    BY <2>1, <2>3 DEF ShownSide, FoundSide
<1>10. CASE Detect \/ SubPoll \/ SubDeliver \/ (SubRecv /\ ~subRunning) \/ DetectGate
            \/ \E c \in Consumers : Poll(c) \/ Deliver(c)
  BY <1>0, <1>10 DEF Detect, SubPoll, SubDeliver, SubRecv, DetectGate, Poll, Deliver,
     consuming, answering
<1> QED
  BY <1>1, <1>2, <1>3, <1>4, <1>5, <1>6, <1>7, <1>8, <1>9, <1>10
  DEF Next, StopStep, ConsumerStep, SubscriberStep

(* Send puts the frame in the producer's hand on one side, if on any. *)
LEMMA SendDeals ==
  ASSUME TypeInv, Send
  PROVE  /\ frame \in Frames
         /\ UNCHANGED <<frame, hold, latest, results, subHold, handled>>
         /\ \/ Shrinks
            \/ \E c \in Consumers :
                 /\ \A d \in Consumers \ {c} : pipe'[d] = pipe[d]
                 /\ pipe'[c] = Append(pipe[c], frame)
<1>1. /\ frame \in Frames
      /\ UNCHANGED <<frame, hold, latest, results, subHold, handled>>
  BY DEF Send, TypeInv, ProdInv, ProducerTypes, answering
<1>2. CASE pipe' = pipe
  BY <1>1, <1>2 DEF Shrinks, ShownSide, FoundSide
<1>3. CASE \E c \in Targets : pipe' = [pipe EXCEPT ![c] = Append(@, frame)]
  BY <1>1, <1>3 DEF Targets, TypeInv, ConsInv, ConsumerTypes
<1> QED
  BY <1>1, <1>2, <1>3 DEF Send

LEMMA InitDealt == Init => Dealt
BY DEF Init, Dealt, ShownSide, FoundSide, Has, Frames, NoFrame, Consumers

LEMMA NextDealt ==
  ASSUME TypeInv, Dealt, [Next]_vars
  PROVE  Dealt'
<1>0. frame \in Nat /\ Frames \subseteq Nat
  BY PipelineAssumption DEF TypeInv, ProdInv, ProducerTypes, Frames, NoFrame
<1>1. CASE Send
  <2>1. Sending /\ ~Sending'
    BY <1>1 DEF Send, Sending
  <2>2. CASE Shrinks
    BY <1>1, <2>1, <2>2, SendDeals DEF Shrinks, Dealt
  <2>3. CASE ~Shrinks
    <3>1. PICK c \in Consumers :
            /\ \A d \in Consumers \ {c} : pipe'[d] = pipe[d]
            /\ pipe'[c] = Append(pipe[c], frame)
      BY <1>1, <2>3, SendDeals
    <3>2. ASSUME NEW d \in Consumers, NEW x, Has(pipe'[d], x)
          PROVE  Has(pipe[d], x) \/ (d = c /\ x = frame)
      <4>1. pipe[c] \in Seq(Frames) /\ frame \in Frames
        BY <1>1, SendDeals DEF TypeInv, ConsInv, ConsumerTypes
      <4>2. CASE d = c
        <5>1. Has(Append(pipe[c], frame), x) <=> Has(pipe[c], x) \/ frame = x
          BY <4>1, AppendHas
        <5> QED
          BY <3>1, <3>2, <4>2, <5>1
      <4>3. CASE d # c
        BY <3>1, <3>2, <4>3
      <4> QED
        BY <4>2, <4>3
    <3>3. \A x \in Frames :
            /\ ShownSide(x)' => ShownSide(x) \/ (c = "preview" /\ x = frame)
            /\ FoundSide(x)' => FoundSide(x) \/ (c = "detector" /\ x = frame)
      BY <1>1, <3>2, SendDeals DEF ShownSide, FoundSide, Consumers
    <3>4. ~ShownSide(frame) /\ ~FoundSide(frame)
      BY <1>0, <1>1, <2>1, SendDeals DEF Dealt
    <3> QED
      BY <1>0, <1>1, <2>1, <3>3, <3>4, SendDeals DEF Dealt
  <2> QED
    BY <2>2, <2>3
<1>2. CASE Next /\ ~Send
  <2>1. Shrinks
    BY <1>2, OthersShrink
  <2>2. \/ frame' = frame /\ (Sending' => Sending)
        \/ frame' = frame + 1
    <3>1. CASE ReadFrame
      BY <3>1 DEF ReadFrame
    <3>2. CASE ~ReadFrame
      BY <1>2, <3>2
      DEF Next, Start, StartStep, StartDrain, Raises, StartPublisher, StartProducer,
      StartConsumer, StartSubscriber, Stop, SetPaused, ReadStep, ReadFails, Fail,
      ProducerStep, ProducerCheck, Wake, Recheck, SendClosed, SendForgotten, DrainStep,
      DrainLoop, DrainGet, DrainCheck, DrainPublish, StopStep, StopDrain, StopProducer,
      CloseProducer, JoinProducer, StopConsumer, JoinConsumer, StopSubscriber,
      JoinSubscriber, StopPublisher, ConsumerStep, Poll, Recv, Deliver, Preview,
      DetectGate, Detect, Publish, SubscriberStep, SubPoll, SubRecv, SubDeliver,
      SubCall, Sending, producing
    <3> QED
      BY <3>1, <3>2
  <2> QED
    BY <1>0, <2>1, <2>2 DEF Dealt, Shrinks
<1>3. CASE UNCHANGED vars
  BY <1>3 DEF vars, producing, consuming, answering, Dealt, ShownSide, FoundSide, Sending
<1> QED
  BY <1>1, <1>2, <1>3

LEMMA DealtAlways == Spec => []Dealt
BY InitDealt, NextDealt, TypeInvAlways, PTL DEF Spec

(* The picture that goes with a detection result is never the frame it was *)
(* found on: the two consumers are dealt different frames.                 *)
THEOREM PictureIsAnotherHolds == Spec => []PictureIsAnother
<1>1. TypeInv /\ Dealt => PictureIsAnother
  <2> SUFFICES ASSUME TypeInv, Dealt, NEW i \in DOMAIN handled,
                      handled[i].shown = handled[i].frame
               PROVE  FALSE
    BY DEF PictureIsAnother
  <2>1. handled[i] \in Answers
    BY ElementOfSeq, LenProperties DEF TypeInv, AnswInv, AnswerTypes
  <2>2. handled[i].frame \in Frames
    BY <2>1 DEF Answers
  <2> QED
    BY <2>2 DEF Dealt, ShownSide, FoundSide
<1> QED
  BY <1>1, TypeInvAlways, DealtAlways, PTL

-----------------------------------------------------------------------------
(* The detector's way in the order of its frames, from the results that    *)
(* were handled to the frame that was sent last.                           *)
Rising(s) == \A i, j \in DOMAIN s : i < j => s[i] < s[j]

Delivering == subscriber \in {"deliver", "call"}
Working    == consumer["detector"] \in InHand

Handled(x)  == \E i \in DOMAIN handled : handled[i].frame = x
Given(x)    == Handled(x) \/ (Delivering /\ subHold = x)
Answered(x) == Given(x) \/ Has(results, x)
Seen(x)     == Answered(x) \/ (Working /\ hold["detector"] = x)

Ordered(x) ==
  /\ Handled(x) /\ Delivering => x < subHold
  /\ Given(x) => \A i \in DOMAIN results : x < results[i]
  /\ Answered(x) /\ Working => x < hold["detector"]
  /\ Seen(x) => \A i \in DOMAIN pipe["detector"] : x < pipe["detector"][i]

OrderInv == /\ ResultsInOrder /\ Rising(results) /\ Rising(pipe["detector"])
            /\ \A x \in Frames : Ordered(x)

(* What taking from the front and adding at the end do to a rising queue. *)
LEMMA TailRising ==
  ASSUME NEW s \in Seq(Frames), s # <<>>, Rising(s)
  PROVE  /\ Rising(Tail(s)) /\ Head(s) \in Frames
         /\ \A i \in DOMAIN Tail(s) : Head(s) < Tail(s)[i]
         /\ \A x : (\A i \in DOMAIN s : x < s[i]) =>
              x < Head(s) /\ \A i \in DOMAIN Tail(s) : x < Tail(s)[i]
<1>1. /\ Len(s) \in Nat \ {0} /\ DOMAIN s = 1 .. Len(s)
      /\ DOMAIN Tail(s) = 1 .. Len(s) - 1 /\ Head(s) = s[1] /\ Head(s) \in Frames
      /\ \A i \in 1 .. Len(s) - 1 : Tail(s)[i] = s[i + 1]
  BY HeadTailProperties, EmptySeq, LenProperties
<1> QED
  BY <1>1 DEF Rising

LEMMA AppendRising ==
  ASSUME NEW s \in Seq(Frames), NEW e \in Frames
  PROVE  /\ Rising(s) /\ (\A x \in Frames : Has(s, x) => x < e) => Rising(Append(s, e))
         /\ \A x : (\A i \in DOMAIN s : x < s[i]) /\ x < e =>
              \A i \in DOMAIN Append(s, e) : x < Append(s, e)[i]
<1>1. /\ Len(s) \in Nat /\ DOMAIN s = 1 .. Len(s)
      /\ DOMAIN Append(s, e) = 1 .. Len(s) + 1
      /\ \A i \in 1 .. Len(s) : Append(s, e)[i] = s[i] /\ s[i] \in Frames
      /\ Append(s, e)[Len(s) + 1] = e
  BY AppendProperties, LenProperties, ElementOfSeq
<1> QED
  BY <1>1 DEF Rising, Has

(* Threads may lose what they have, and queues be emptied. *)
LEMMA LessKeepsOrder ==
  ASSUME OrderInv,
         UNCHANGED <<handled, subHold, hold["detector"]>>,
         results' \in {results, <<>>},
         pipe'["detector"] \in {pipe["detector"], <<>>},
         Delivering' => Delivering, Working' => Working
  PROVE  OrderInv'
<1> USE DEF Delivering, Working
<1>1. ResultsInOrder' /\ Rising(results)' /\ Rising(pipe["detector"])'
  BY DEF OrderInv, ResultsInOrder, Rising
<1>2. ASSUME NEW x \in Frames PROVE Ordered(x)'
  <2>1. Ordered(x)
    BY DEF OrderInv
  <2>2. (Handled(x)' => Handled(x)) /\ (Given(x)' => Given(x))
        /\ (Answered(x)' => Answered(x)) /\ (Seen(x)' => Seen(x))
    BY DEF Handled, Given, Answered, Seen, Has
  <2>3. /\ Handled(x)' /\ Delivering' => (x < subHold)'
        /\ Answered(x)' /\ Working' => (x < hold["detector"])'
    BY <2>1, <2>2 DEF Ordered
  <2>4. /\ Given(x)' => (\A i \in DOMAIN results : x < results[i])'
        /\ Seen(x)' => (\A i \in DOMAIN pipe["detector"] : x < pipe["detector"][i])'
    BY <2>1, <2>2 DEF Ordered
  <2> QED
    BY <2>3, <2>4 DEF Ordered
<1> QED
  BY <1>1, <1>2 DEF OrderInv

LEMMA SendKeepsOrder ==
  ASSUME TypeInv, Dealt, OrderInv, Send
  PROVE  OrderInv'
<1> USE DEF Delivering, Working
<1>1. /\ frame \in Frames /\ Sending
      /\ UNCHANGED <<handled, subHold, hold, results, subscriber, consumer>>
  BY DEF Send, TypeInv, ProdInv, ProducerTypes, Sending, answering
<1>2. CASE pipe'["detector"] = pipe["detector"]
  BY <1>1, <1>2, LessKeepsOrder
<1>3. CASE pipe' = [pipe EXCEPT !["detector"] = Append(@, frame)]
  <2>1. /\ pipe["detector"] \in Seq(Frames)
        /\ pipe'["detector"] = Append(pipe["detector"], frame)
    BY <1>3 DEF TypeInv, ConsInv, ConsumerTypes, Consumers
  <2>2. \A x \in Frames : FoundSide(x) => x < frame
    BY <1>1 DEF Dealt
  <2>3. \A x \in Frames : Has(pipe["detector"], x) \/ Seen(x) => x < frame
    BY <2>2 DEF FoundSide, Seen, Answered, Given, Handled
  <2>4. \A x \in Frames : /\ Handled(x)' = Handled(x) /\ Given(x)' = Given(x)
                          /\ Answered(x)' = Answered(x) /\ Seen(x)' = Seen(x)
    BY <1>1 DEF Handled, Given, Answered, Seen
  <2>5. Rising(pipe["detector"])'
    BY <1>1, <2>1, <2>3, AppendRising DEF OrderInv
  <2> QED
    <3>1. ASSUME NEW x \in Frames PROVE Ordered(x)'
      <4>1. Ordered(x) /\ (Seen(x) => x < frame)
        BY <2>3 DEF OrderInv
      <4>2. Seen(x) => \A i \in DOMAIN pipe'["detector"] : x < pipe'["detector"][i]
        BY <1>1, <2>1, <4>1, AppendRising DEF Ordered
      <4> QED
        BY <1>1, <2>4, <4>1, <4>2 DEF Ordered
    <3> QED
      BY <1>1, <2>5, <3>1 DEF OrderInv, ResultsInOrder, Rising
<1> QED
  BY <1>2, <1>3 DEF Send, Targets, Consumers, TypeInv, ConsInv, ConsumerTypes

LEMMA RecvKeepsOrder ==
  ASSUME TypeInv, OrderInv, Recv("detector"), consRunning["detector"]
  PROVE  OrderInv'
<1> USE DEF Delivering, Working
<1>1. /\ consumer["detector"] = "recv" /\ consumer'["detector"] = "deliver"
      /\ pipe["detector"] \in Seq(Frames) /\ pipe["detector"] # <<>>
      /\ pipe'["detector"] = Tail(pipe["detector"])
      /\ hold'["detector"] = Head(pipe["detector"])
      /\ UNCHANGED <<handled, subHold, results, subscriber>>
  BY DEF Recv, ConsumerGoto, TypeInv, ConsInv, ConsumerTypes, Consumers, answering
<1>2. \A x \in Frames :
        /\ Handled(x)' = Handled(x) /\ Given(x)' = Given(x) /\ Answered(x)' = Answered(x)
        /\ Seen(x) = Answered(x)
        /\ Seen(x)' => Answered(x) \/ x = Head(pipe["detector"])
  BY <1>1 DEF Handled, Given, Answered, Seen, InHand
<1>3. Rising(pipe["detector"])
  BY DEF OrderInv
<1>4. ASSUME NEW x \in Frames PROVE Ordered(x)'
  <2>1. Ordered(x)
    BY DEF OrderInv
  <2>2. Answered(x) => /\ x < Head(pipe["detector"])
                       /\ \A i \in DOMAIN pipe'["detector"] : x < pipe'["detector"][i]
    BY <1>1, <1>2, <1>3, <2>1, TailRising DEF Ordered
  <2>3. \A i \in DOMAIN pipe'["detector"] : Head(pipe["detector"]) < pipe'["detector"][i]
    BY <1>1, <1>3, TailRising
  <2> QED
    BY <1>1, <1>2, <2>1, <2>2, <2>3 DEF Ordered
<1>5. Rising(pipe["detector"])'
  BY <1>1, <1>3, TailRising
<1> QED
  BY <1>1, <1>4, <1>5 DEF OrderInv, ResultsInOrder, Rising

LEMMA PublishKeepsOrder ==
  ASSUME TypeInv, OrderInv, Publish
  PROVE  OrderInv'
<1> USE DEF Delivering, Working
<1>1. /\ Working /\ ~Working'
      /\ UNCHANGED <<handled, subHold, subscriber, pipe, hold>>
      /\ hold["detector"] \in Frames /\ results \in Seq(Frames)
      /\ results' = results \/ results' = Append(results, hold["detector"])
  BY DEF Publish, ConsumerGoto, TypeInv, ConsInv, ConsumerTypes, AnswInv, AnswerTypes,
     Consumers, InHand
<1>2. CASE results' = results
  BY <1>1, <1>2, LessKeepsOrder
<1>3. CASE results' = Append(results, hold["detector"])
  <2>1. \A x \in Frames :
          /\ Handled(x)' = Handled(x) /\ Given(x)' = Given(x)
          /\ (Seen(x)' => Seen(x)) /\ (Answered(x)' => Seen(x))
    BY <1>1, <1>3, AppendHas DEF Handled, Given, Answered, Seen
  <2>2. \A x \in Frames : Given(x) \/ Has(results, x) => x < hold["detector"]
    BY <1>1 DEF OrderInv, Ordered, Answered
  <2>3. Rising(results)'
    BY <1>1, <1>3, <2>2, AppendRising DEF OrderInv
  <2> QED
    <3>1. ASSUME NEW x \in Frames PROVE Ordered(x)'
      <4>1. Ordered(x) /\ (Given(x) => x < hold["detector"])
        BY <2>2 DEF OrderInv
      <4>2. Given(x) => \A i \in DOMAIN results' : x < results'[i]
        BY <1>1, <1>3, <4>1, AppendRising DEF Ordered
      <4>3. Seen(x)' => (\A i \in DOMAIN pipe["detector"] : x < pipe["detector"][i])'
        BY <1>1, <2>1, <4>1 DEF Ordered
      <4>4. Handled(x)' /\ Delivering' => (x < subHold)'
        BY <1>1, <2>1, <4>1 DEF Ordered
      <4> QED
        BY <1>1, <2>1, <4>2, <4>3, <4>4 DEF Ordered, Working
    <3> QED
      BY <1>1, <2>3, <3>1 DEF OrderInv, ResultsInOrder, Rising
<1> QED
  BY <1>1, <1>2, <1>3

LEMMA SubRecvKeepsOrder ==
  ASSUME TypeInv, OrderInv, SubRecv, subRunning
  PROVE  OrderInv'
<1> USE DEF Delivering, Working
<1>1. /\ ~Delivering /\ Delivering'
      /\ results \in Seq(Frames) /\ results # <<>>
      /\ subHold' = Head(results) /\ results' = Tail(results)
      /\ UNCHANGED <<handled, consumer, hold, pipe>>
  BY DEF SubRecv, SubscriberGoto, TypeInv, AnswInv, AnswerTypes, consuming
<1>2. \A x \in Frames :
        /\ Handled(x)' = Handled(x) /\ Given(x) = Handled(x)
        /\ Given(x)' => Handled(x) \/ x = Head(results)
        /\ (Answered(x)' => Answered(x)) /\ (Seen(x)' => Seen(x))
  BY <1>1, TailHas DEF Handled, Given, Answered, Seen
<1>3. Rising(results)
  BY DEF OrderInv
<1>4. ASSUME NEW x \in Frames PROVE Ordered(x)'
  <2>1. Ordered(x)
    BY DEF OrderInv
  <2>2. Handled(x) => /\ x < Head(results)
                      /\ \A i \in DOMAIN results' : x < results'[i]
    BY <1>1, <1>2, <1>3, <2>1, TailRising DEF Ordered
  <2>3. \A i \in DOMAIN results' : Head(results) < results'[i]
    BY <1>1, <1>3, TailRising
  <2>4. Handled(x)' => (x < subHold)'
    BY <1>1, <1>2, <2>2
  <2>5. Given(x)' => (\A i \in DOMAIN results : x < results[i])'
    BY <1>1, <1>2, <2>2, <2>3
  <2>6. /\ Answered(x)' /\ Working' => (x < hold["detector"])'
        /\ Seen(x)' => (\A i \in DOMAIN pipe["detector"] : x < pipe["detector"][i])'
    BY <1>1, <1>2, <2>1 DEF Ordered
  <2> QED
    BY <2>4, <2>5, <2>6 DEF Ordered
<1>5. Rising(results)'
  BY <1>1, <1>3, TailRising
<1> QED
  BY <1>1, <1>4, <1>5 DEF OrderInv, ResultsInOrder, Rising

LEMMA SubCallKeepsOrder ==
  ASSUME TypeInv, OrderInv, SubCall
  PROVE  OrderInv'
<1> USE DEF Delivering, Working
<1> DEFINE answer == [frame |-> subHold, shown |-> latest]
<1>1. /\ Delivering /\ ~Delivering' /\ subHold \in Frames
      /\ handled \in Seq(Answers) /\ answer \in Answers
      /\ handled' = Append(handled, answer)
      /\ UNCHANGED <<subHold, results, consumer, hold, pipe>>
  BY DEF SubCall, SubscriberGoto, TypeInv, AnswInv, AnswerTypes, ConsInv, ConsumerTypes,
     Answers, consuming
<1>2. /\ Len(handled) \in Nat /\ DOMAIN handled = 1 .. Len(handled)
      /\ DOMAIN handled' = 1 .. Len(handled) + 1
      /\ \A i \in 1 .. Len(handled) : handled'[i] = handled[i]
      /\ handled'[Len(handled) + 1].frame = subHold
      /\ \A i \in 1 .. Len(handled) : handled[i].frame \in Frames
  <2>1. \A i \in 1 .. Len(handled) : handled[i] \in Answers
    BY <1>1, ElementOfSeq
  <2> QED
    BY <1>1, <2>1, AppendProperties, LenProperties DEF Answers
<1>3. \A x \in Frames : Handled(x) => x < subHold
  BY <1>1 DEF OrderInv, Ordered
<1>4. ResultsInOrder'
  BY <1>2, <1>3 DEF OrderInv, ResultsInOrder, Handled
<1>5. \A x \in Frames : /\ (Handled(x)' => Given(x)) /\ (Given(x)' => Given(x))
                        /\ (Answered(x)' => Answered(x)) /\ (Seen(x)' => Seen(x))
  BY <1>1, <1>2 DEF Handled, Given, Answered, Seen
<1>6. ASSUME NEW x \in Frames PROVE Ordered(x)'
  <2>1. Ordered(x)
    BY DEF OrderInv
  <2>2. /\ Given(x)' => (\A i \in DOMAIN results : x < results[i])'
        /\ Answered(x)' /\ Working' => (x < hold["detector"])'
        /\ Seen(x)' => (\A i \in DOMAIN pipe["detector"] : x < pipe["detector"][i])'
    BY <1>1, <1>5, <2>1 DEF Ordered
  <2> QED
    BY <1>1, <2>2 DEF Ordered
<1> QED
  BY <1>1, <1>4, <1>6 DEF OrderInv, Rising

LEMMA NextOrderInv ==
  ASSUME TypeInv, Dealt, OrderInv, [Next]_vars
  PROVE  OrderInv'
<1> USE DEF Delivering, Working
<1>0. ASSUME UNCHANGED <<subscriber, consumer, pipe, hold, results, subHold, handled>>
      PROVE  OrderInv'
  BY <1>0, LessKeepsOrder
<1>1. CASE Start \/ StartStep \/ Stop \/ (\E value \in BOOLEAN : SetPaused(value))
           \/ ReadStep \/ DrainStep
  <2>1. CASE StartSubscriber
    BY <2>1, LessKeepsOrder DEF StartSubscriber, consuming
  <2>2. ASSUME NEW c \in Consumers, StartConsumer(c) PROVE OrderInv'
    BY <2>2, LessKeepsOrder
    DEF StartConsumer, answering, TypeInv, ConsInv, ConsumerTypes, Consumers, InHand
  <2> QED
    BY <1>0, <1>1, <2>1, <2>2
    DEF Start, StartStep, StartDrain, Raises, StartPublisher, StartProducer, Stop,
        SetPaused, ReadStep, ReadFrame, ReadFails, DrainStep, DrainLoop, DrainGet,
        DrainCheck, DrainPublish, consuming, answering
<1>2. CASE ProducerStep
  BY <1>0, <1>2, SendKeepsOrder
  DEF ProducerStep, ProducerCheck, Wake, Recheck, SendClosed, SendForgotten, consuming,
      answering
<1>3. CASE StopStep
  <2>1. ASSUME NEW c \in Consumers, StopConsumer(c) PROVE OrderInv'
    BY <2>1, LessKeepsOrder
    DEF StopConsumer, answering, TypeInv, ConsInv, ConsumerTypes, Consumers
  <2>2. CASE StopSubscriber
    BY <2>2, LessKeepsOrder DEF StopSubscriber, consuming
  <2> QED
    BY <1>0, <1>3, <2>1, <2>2
    DEF StopStep, StopDrain, StopProducer, CloseProducer, JoinProducer, JoinConsumer,
        JoinSubscriber, StopPublisher, consuming, answering
<1>4. ASSUME NEW c \in Consumers, ConsumerStep(c) PROVE OrderInv'
  <2>1. CASE Recv(c)
    <3>1. CASE c = "detector" /\ consRunning[c]
      BY <2>1, <3>1, RecvKeepsOrder
    <3>2. CASE ~(c = "detector" /\ consRunning[c])
      BY <2>1, <3>2, LessKeepsOrder
      DEF Recv, ConsumerGoto, answering, TypeInv, ConsInv, ConsumerTypes, Consumers, InHand
    <3> QED
      BY <3>1, <3>2
  <2>2. CASE c = "detector" /\ Publish
    BY <2>2, PublishKeepsOrder
  <2>3. CASE Poll(c) \/ Deliver(c) \/ (c = "preview" /\ Preview)
             \/ (c = "detector" /\ DetectGate)
    BY <2>3, LessKeepsOrder
    DEF Poll, Deliver, Preview, DetectGate, ConsumerGoto, answering, TypeInv, ConsInv,
        ConsumerTypes, Consumers, InHand
  <2> QED
    BY <1>4, <2>1, <2>2, <2>3 DEF ConsumerStep
<1>5. CASE Detect
  BY <1>5, LessKeepsOrder
  DEF Detect, ConsumerGoto, answering, TypeInv, ConsInv, ConsumerTypes, Consumers, InHand
<1>6. CASE SubscriberStep
  <2>1. CASE SubRecv /\ subRunning
    BY <2>1, SubRecvKeepsOrder
  <2>2. CASE SubPoll \/ SubDeliver \/ (SubRecv /\ ~subRunning)
    BY <2>2, LessKeepsOrder DEF SubPoll, SubDeliver, SubRecv, SubscriberGoto, consuming
  <2> QED
    BY <1>6, <2>1, <2>2, SubCallKeepsOrder DEF SubscriberStep
<1>7. CASE UNCHANGED vars
  BY <1>0, <1>7 DEF vars, consuming, answering
<1> QED
  BY <1>1, <1>2, <1>3, <1>4, <1>5, <1>6, <1>7 DEF Next

LEMMA InitOrderInv == Init => OrderInv
BY DEF Init, OrderInv, Ordered, ResultsInOrder, Rising, Handled, Given, Answered,
   Seen, Delivering, Working, Has, InHand, Consumers

(* Detection results reach the controller in the order of their frames and *)
(* each once, although a full pipe may drop any of them and stop may come  *)
(* between any two steps.                                                  *)
THEOREM ResultsInOrderHolds == Spec => []ResultsInOrder
<1>1. OrderInv => ResultsInOrder
  BY DEF OrderInv
<1> QED
  BY <1>1, InitOrderInv, NextOrderInv, TypeInvAlways, DealtAlways, PTL DEF Spec
=============================================================================
