---------------------------- MODULE PipelineProofs ----------------------------
(***************************************************************************)
(* What pipeline_run and its threads guarantee for every queue size, every *)
(* detection interval, either kind of input and any number of frames.      *)
(***************************************************************************)
EXTENDS Pipeline, SequenceTheorems, TLAPS

-----------------------------------------------------------------------------
(* Facts about frames and queues.                                          *)

LEMMA FrameFacts ==
  /\ NoFrame \in Frame
  /\ \A f \in Frame : f.stamp \in 0..MaxFrames /\ f.phase \in 0..DetInterval - 1
  /\ \A n \in 0..MaxFrames, p \in 0..DetInterval - 1 :
       /\ [stamp |-> n, phase |-> p] \in Frame
       /\ [stamp |-> n, phase |-> p].stamp = n
BY PipelineAssumption DEF Frame, NoFrame

LEMMA NextIdxType ==
  ASSUME frameIdx \in 0..DetInterval - 1
  PROVE  NextIdx \in 0..DetInterval - 1
BY PipelineAssumption DEF NextIdx

(* Removing the head and appending keep a queue a sequence of frames.      *)
LEMMA TakeType ==
  ASSUME NEW s \in Seq(Frame), s # <<>>
  PROVE  /\ Head(s) \in Frame
         /\ Head(s) = s[1]
         /\ Tail(s) \in Seq(Frame)
         /\ Len(s) \in Nat \ {0}
         /\ Len(Tail(s)) = Len(s) - 1
         /\ \A i \in 1..Len(Tail(s)) : Tail(s)[i] = s[i + 1]
<1> HIDE DEF Frame
<1> QED
  BY HeadTailProperties, LenProperties

LEMMA AppendType ==
  ASSUME NEW s \in Seq(Frame), NEW f \in Frame
  PROVE  /\ Append(s, f) \in Seq(Frame)
         /\ Len(s) \in Nat
         /\ Len(Append(s, f)) = Len(s) + 1
         /\ \A i \in 1..Len(s) : Append(s, f)[i] = s[i]
         /\ Append(s, f)[Len(s) + 1] = f
<1> HIDE DEF Frame
<1> QED
  BY AppendProperties, LenProperties

-----------------------------------------------------------------------------
(* Type correctness, one part of the state at a time.                      *)

LEMMA TypeInit == Init => TypeOK
<1> SUFFICES ASSUME Init PROVE TypeOK
  OBVIOUS
<1>1. <<>> \in Seq(Frame) /\ Len(<<>>) = 0
  OBVIOUS
<1>2. QueuesOK
  <2>1. queue \in [Queues -> Seq(Frame)] /\ \A q \in Queues : Len(queue[q]) <= Capacity
    BY <1>1, PipelineAssumption DEF Init
  <2>2. hand \in [Stages -> Frame]
    BY FrameFacts DEF Init
  <2> QED
    BY <2>1, <2>2 DEF QueuesOK
<1>3. PlacesOK
  BY PipelineAssumption DEF Init, PlacesOK, Threads, Places
<1>4. ControlOK
  BY DEF Init, ControlOK
<1>5. CountersOK
  BY PipelineAssumption DEF Init, CountersOK
<1> QED
  BY <1>2, <1>3, <1>4, <1>5 DEF TypeOK

(* A thread that goes to a place is there, and the others are where they   *)
(* were.                                                                   *)
LEMMA GotoFacts ==
  ASSUME PlacesOK, NEW t \in Threads, NEW place \in Places, Goto(t, place)
  PROVE  /\ pc' \in [Threads -> Places]
         /\ pc'[t] = place
         /\ \A u \in Threads \ {t} : pc'[u] = pc[u]
BY DEF PlacesOK, Goto

LEMMA TakePreservesQueues ==
  ASSUME QueuesOK, NEW t \in Stages, NEW q \in Queues, Take(t, q)
  PROVE  QueuesOK' /\ Head(queue[q]).stamp \in 0..MaxFrames
<1> USE DEF QueuesOK, Take
<1>1. /\ Head(queue[q]) \in Frame
      /\ Tail(queue[q]) \in Seq(Frame)
      /\ Len(Tail(queue[q])) <= Capacity
  BY TakeType, PipelineAssumption
<1>2. Head(queue[q]).stamp \in 0..MaxFrames
  BY <1>1, FrameFacts
<1>3. queue' \in [Queues -> Seq(Frame)] /\ hand' \in [Stages -> Frame]
  BY <1>1
<1>4. \A p \in Queues : Len(queue'[p]) <= Capacity
  BY <1>1
<1> QED
  BY <1>2, <1>3, <1>4

LEMMA PushPreservesQueues ==
  ASSUME QueuesOK, NEW t \in Stages, NEW q \in Queues, PushOrDrop(t, q)
  PROVE  QueuesOK'
<1> USE DEF QueuesOK
<1>1. hand' \in [Stages -> Frame]
  BY FrameFacts DEF PushOrDrop
<1>2. CASE HasRoom(q)
  <2>1. /\ Append(queue[q], hand[t]) \in Seq(Frame)
        /\ Len(Append(queue[q], hand[t])) <= Capacity
    BY <1>2, AppendType, PipelineAssumption DEF HasRoom
  <2>2. queue' = [queue EXCEPT ![q] = Append(queue[q], hand[t])]
    BY <1>2 DEF PushOrDrop
  <2>3. \A p \in Queues : Len(queue'[p]) <= Capacity
    BY <2>1, <2>2
  <2> QED
    BY <1>1, <2>1, <2>2, <2>3
<1>3. CASE ~HasRoom(q)
  BY <1>1, <1>3 DEF PushOrDrop
<1> QED
  BY <1>2, <1>3

(* Letting go of the frame in hand.                                        *)
LEMMA DropPreservesQueues ==
  ASSUME QueuesOK, NEW t \in Stages, UNCHANGED queue,
         hand' = [hand EXCEPT ![t] = NoFrame]
  PROVE  QueuesOK'
BY FrameFacts DEF QueuesOK

LEMMA PlacesStep == PlacesOK /\ [Next]_vars => PlacesOK'
<1> SUFFICES ASSUME PlacesOK, [Next]_vars PROVE PlacesOK'
  OBVIOUS
<1>1. CASE Capture
  <2>1. CASE UNCHANGED pc
    BY <2>1 DEF PlacesOK
  <2>2. CASE \E p \in {"reading", "pushing", "stopped"} : Goto("capture", p)
    <3>1. PICK p \in {"reading", "pushing", "stopped"} : Goto("capture", p)
      BY <2>2
    <3>2. /\ pc' \in [Threads -> Places]
          /\ pc'["capture"] = p
          /\ \A u \in Threads \ {"capture"} : pc'[u] = pc[u]
      BY <3>1, GotoFacts DEF Threads, Places
    <3> QED
      BY <3>1, <3>2 DEF PlacesOK, Threads
  <2> QED
    BY <1>1, <2>1, <2>2
       DEF Capture, CaptureOpen, CaptureRead, CaptureReadFails, CapturePush, CaptureExit
<1>2. CASE Inference
  <2>1. PICK p \in {"looping", "popping", "inferring", "pushing", "stopped"} : Goto("inference", p)
    BY <1>2 DEF Inference, InferenceTop, InferencePopNothing, InferencePop, InferenceSkip,
                InferenceFails, InferenceSucceeds, InferencePush, LoopTop, PopNothing
  <2>2. /\ pc' \in [Threads -> Places]
        /\ pc'["inference"] = p
        /\ \A u \in Threads \ {"inference"} : pc'[u] = pc[u]
    BY <2>1, GotoFacts DEF Threads, Places
  <2> QED
    BY <2>1, <2>2 DEF PlacesOK, Threads
<1>3. CASE Tracking
  <2>1. PICK p \in {"looping", "popping", "pushing", "stopped"} : Goto("tracking", p)
    BY <1>3 DEF Tracking, TrackingTop, TrackingPopNothing, TrackingPop, TrackingPush,
                LoopTop, PopNothing
  <2>2. /\ pc' \in [Threads -> Places]
        /\ pc'["tracking"] = p
        /\ \A u \in Threads \ {"tracking"} : pc'[u] = pc[u]
    BY <2>1, GotoFacts DEF Threads, Places
  <2> QED
    BY <2>1, <2>2 DEF PlacesOK, Threads
<1>4. CASE Output
  <2>1. PICK p \in {"looping", "popping", "emitting", "finishing", "disconnecting", "stopped"} :
           Goto("output", p)
    BY <1>4 DEF Output, OutputStart, OutputTop, OutputPopNothing, OutputPop, OutputEmit,
                OutputFinish, OutputDisconnected, LoopTop, PopNothing
  <2>2. /\ pc' \in [Threads -> Places]
        /\ pc'["output"] = p
        /\ \A u \in Threads \ {"output"} : pc'[u] = pc[u]
    BY <2>1, GotoFacts DEF Threads, Places
  <2> QED
    BY <2>1, <2>2 DEF PlacesOK, Threads
<1>5. CASE Grpc
  <2>1. PICK p \in {"looping", "stopped"} : Goto("grpc", p)
    BY <1>5 DEF Grpc, GrpcStart, GrpcExit
  <2>2. /\ pc' \in [Threads -> Places]
        /\ pc'["grpc"] = p
        /\ \A u \in Threads \ {"grpc"} : pc'[u] = pc[u]
    BY <2>1, GotoFacts DEF Threads, Places
  <2> QED
    BY <2>1, <2>2 DEF PlacesOK, Threads
<1>6. CASE UNCHANGED pc
  BY <1>6 DEF PlacesOK
<1> QED
  BY <1>1, <1>2, <1>3, <1>4, <1>5, <1>6
     DEF Next, Signal, Main, FindDeadThread, LeavePolling, ShutQueue, JoinThread, Returned, vars

LEMMA ControlStep == ControlOK /\ [Next]_vars => ControlOK'
<1> SUFFICES ASSUME ControlOK, [Next]_vars PROVE ControlOK'
  OBVIOUS
<1>1. CASE ShutQueue
  <2>1. step \in 1..3 /\ ShutOrder[step] \in Queues /\ Len(ShutOrder) = 3
    BY <1>1 DEF ShutQueue, ControlOK, ShutOrder, Queues
  <2> QED
    BY <1>1, <2>1 DEF ShutQueue, ControlOK
<1>2. CASE JoinThread
  <2>1. Len(JoinOrder) = 5
    BY DEF JoinOrder
  <2> QED
    BY <1>2, <2>1 DEF JoinThread, ControlOK
<1>3. CASE LeavePolling
  BY <1>3 DEF LeavePolling, ControlOK
<1>4. CASE UNCHANGED <<main, step, shut>> /\ running' \in {running, FALSE}
  BY <1>4 DEF ControlOK
<1>5. Capture \/ Inference \/ Tracking \/ Output \/ Grpc \/ Signal \/ FindDeadThread \/ Returned
      => UNCHANGED <<main, step, shut>> /\ running' \in {running, FALSE}
  BY DEF Capture, CaptureOpen, CaptureRead, CaptureReadFails, CapturePush, CaptureExit,
         Inference, InferenceTop, InferencePopNothing, InferencePop, InferenceSkip,
         InferenceFails, InferenceSucceeds, InferencePush, LoopTop, PopNothing,
         Tracking, TrackingTop, TrackingPopNothing, TrackingPop, TrackingPush,
         Output, OutputStart, OutputTop, OutputPopNothing, OutputPop, OutputEmit,
         OutputFinish, OutputDisconnected, Grpc, GrpcStart, GrpcExit, Signal, FindDeadThread, Returned, vars
<1> QED
  BY <1>1, <1>2, <1>3, <1>4, <1>5 DEF Next, Main, vars

LEMMA QueuesStep == QueuesOK /\ CountersOK /\ [Next]_vars => QueuesOK'
<1> SUFFICES ASSUME QueuesOK, CountersOK, [Next]_vars PROVE QueuesOK'
  OBVIOUS
<1> USE DEF Stages, Queues
<1>1. CASE CaptureRead
  <2>1. [stamp |-> captured + 1, phase |-> frameIdx] \in Frame
    BY <1>1, PipelineAssumption, FrameFacts DEF CaptureRead, CountersOK
  <2> QED
    BY <1>1, <2>1 DEF CaptureRead, QueuesOK
<1>2. CASE CapturePush
  <2>1. CASE UNCHANGED queue
    BY <1>2, <2>1, DropPreservesQueues DEF CapturePush
  <2>2. CASE HasRoom("frame") /\ queue' = [queue EXCEPT !["frame"] = Append(@, hand["capture"])]
    <3>1. PushOrDrop("capture", "frame")
      BY <1>2, <2>2 DEF CapturePush, PushOrDrop
    <3> QED
      BY <3>1, PushPreservesQueues
  <2> QED
    BY <1>2, <2>1, <2>2 DEF CapturePush
<1>3. CASE InferencePop \/ TrackingPop \/ OutputPop
  BY <1>3, TakePreservesQueues DEF InferencePop, TrackingPop, OutputPop
<1>4. CASE InferenceSkip \/ InferenceFails \/ OutputEmit
  BY <1>4, DropPreservesQueues DEF InferenceSkip, InferenceFails, OutputEmit
<1>5. CASE InferencePush \/ TrackingPush
  BY <1>5, PushPreservesQueues DEF InferencePush, TrackingPush
<1>6. CASE UNCHANGED <<queue, hand>>
  BY <1>6 DEF QueuesOK
<1> QED
  BY <1>1, <1>2, <1>3, <1>4, <1>5, <1>6
     DEF Next, Capture, CaptureOpen, CaptureReadFails, CaptureExit,
         Inference, InferenceTop, InferencePopNothing, InferenceSucceeds, LoopTop, PopNothing,
         Tracking, TrackingTop, TrackingPopNothing,
         Output, OutputStart, OutputTop, OutputPopNothing, OutputFinish, OutputDisconnected,
         Grpc, GrpcStart, GrpcExit, Signal, Main, FindDeadThread, LeavePolling,
         ShutQueue, JoinThread, Returned, vars

LEMMA CountersStep == QueuesOK /\ CountersOK /\ [Next]_vars => CountersOK'
<1> SUFFICES ASSUME QueuesOK, CountersOK, [Next]_vars PROVE CountersOK'
  OBVIOUS
<1>1. CASE CaptureRead
  <2>1. captured + 1 \in 1..MaxFrames /\ NextIdx \in 0..DetInterval - 1
    BY <1>1, PipelineAssumption, NextIdxType DEF CaptureRead, CountersOK
  <2> QED
    BY <1>1, <2>1 DEF CaptureRead, CountersOK
<1>2. CASE CaptureReadFails
  <2>1. frameIdx' \in {0, NextIdx} /\ UNCHANGED <<captured, taken, emitted, heap>>
    BY <1>2 DEF CaptureReadFails
  <2>2. frameIdx' \in 0..DetInterval - 1
    BY <2>1, NextIdxType, PipelineAssumption DEF CountersOK
  <2> QED
    BY <2>1, <2>2 DEF CountersOK
<1>3. CASE InferencePop
  BY <1>3, TakePreservesQueues DEF InferencePop, Stages, Queues, CountersOK
<1>4. CASE InferenceFails \/ InferenceSucceeds
  BY <1>4 DEF InferenceFails, InferenceSucceeds, FreeHeld, CountersOK
<1>5. CASE OutputEmit
  BY <1>5, FrameFacts DEF OutputEmit, QueuesOK, Stages, CountersOK
<1>6. CASE UNCHANGED <<frameIdx, captured, taken, emitted, heap>>
  BY <1>6 DEF CountersOK
<1> QED
  BY <1>1, <1>2, <1>3, <1>4, <1>5, <1>6
     DEF Next, Capture, CaptureOpen, CapturePush, CaptureExit,
         Inference, InferenceTop, InferencePopNothing, InferenceSkip, InferencePush,
         LoopTop, PopNothing,
         Tracking, TrackingTop, TrackingPopNothing, TrackingPop, TrackingPush,
         Output, OutputStart, OutputTop, OutputPopNothing, OutputPop, OutputFinish, OutputDisconnected,
         Grpc, GrpcStart, GrpcExit, Signal, Main, FindDeadThread, LeavePolling,
         ShutQueue, JoinThread, Returned, vars

(* The queues never outgrow queue_max_size and every thread is where its   *)
(* code can be, in every reachable state.                                  *)
THEOREM PipelineTypes == Spec => []TypeOK
<1>1. TypeOK /\ [Next]_vars => TypeOK'
  BY PlacesStep, ControlStep, QueuesStep, CountersStep DEF TypeOK
<1> QED
  BY <1>1, TypeInit, PTL DEF Spec

-----------------------------------------------------------------------------
(* pipeline_run returns last.                                              *)

(* The threads joined so far have stopped.                                 *)
Joined ==
  /\ main = "joining" => \A k \in 1..step - 1 : pc[JoinOrder[k]] = "stopped"
  /\ ReturnsLast

(* A thread that has stopped never runs again.                             *)
LEMMA StoppedStays ==
  ASSUME PlacesOK, [Next]_vars, NEW t \in Threads, pc[t] = "stopped"
  PROVE  pc'[t] = "stopped"
<1>1. CASE UNCHANGED pc
  BY <1>1
<1>2. CASE \E u \in Threads \ {t}, p \in Places : Goto(u, p)
  BY <1>2, GotoFacts
<1>3. CASE Capture
  BY <1>1, <1>2, <1>3 DEF Capture, CaptureOpen, CaptureRead, CaptureReadFails, CapturePush,
     CaptureExit, Threads, Places
<1>4. CASE Inference
  BY <1>1, <1>2, <1>4 DEF Inference, InferenceTop, InferencePopNothing, InferencePop, InferenceSkip,
     InferenceFails, InferenceSucceeds, InferencePush, LoopTop, PopNothing, Threads, Places
<1>5. CASE Tracking
  BY <1>1, <1>2, <1>5 DEF Tracking, TrackingTop, TrackingPopNothing, TrackingPop, TrackingPush,
     LoopTop, PopNothing, Threads, Places
<1>6. CASE Output
  BY <1>1, <1>2, <1>6 DEF Output, OutputStart, OutputTop, OutputPopNothing, OutputPop, OutputEmit,
     OutputFinish, OutputDisconnected, LoopTop, PopNothing, Threads, Places
<1>7. CASE Grpc
  BY <1>1, <1>2, <1>7 DEF Grpc, GrpcStart, GrpcExit, Threads, Places
<1> QED
  BY <1>1, <1>3, <1>4, <1>5, <1>6, <1>7
     DEF Next, Signal, Main, FindDeadThread, LeavePolling, ShutQueue, JoinThread, Returned, vars

LEMMA JoinOrderFacts ==
  /\ Len(JoinOrder) = 5
  /\ \A k \in 1..5 : JoinOrder[k] \in Threads
  /\ \A t \in Threads : \E k \in 1..5 : JoinOrder[k] = t
<1>1. /\ JoinOrder[1] = "grpc" /\ JoinOrder[2] = "output" /\ JoinOrder[3] = "tracking"
      /\ JoinOrder[4] = "inference" /\ JoinOrder[5] = "capture" /\ Len(JoinOrder) = 5
  BY DEF JoinOrder
<1> QED
  BY <1>1 DEF Threads

LEMMA JoinedStep == TypeOK /\ Joined /\ [Next]_vars => Joined'
<1> SUFFICES ASSUME TypeOK, Joined, [Next]_vars PROVE Joined'
  OBVIOUS
<1>1. PlacesOK /\ ControlOK
  BY DEF TypeOK
<1>2. CASE JoinThread
  <2>1. /\ step \in 1..5 /\ UNCHANGED pc
        /\ \A k \in 1..step : pc[JoinOrder[k]] = "stopped"
    BY <1>1, <1>2 DEF JoinThread, Joined, ControlOK
  <2>2. CASE step < 5
    BY <1>2, <2>1, <2>2, JoinOrderFacts DEF JoinThread, Joined, ReturnsLast
  <2>3. CASE step = 5
    BY <1>2, <2>1, <2>3, JoinOrderFacts DEF JoinThread, Joined, ReturnsLast
  <2> QED
    BY <2>1, <2>2, <2>3
<1>3. CASE LeavePolling \/ ShutQueue
  BY <1>1, <1>3 DEF LeavePolling, ShutQueue, Joined, ReturnsLast, ControlOK
<1>4. CASE UNCHANGED <<main, step>>
  <2>1. step \in 1..5
    BY <1>1 DEF ControlOK
  <2> QED
    BY <1>1, <1>4, <2>1, StoppedStays, JoinOrderFacts DEF Joined, ReturnsLast
<1>5. Capture \/ Inference \/ Tracking \/ Output \/ Grpc \/ Signal \/ FindDeadThread \/ Returned
      => UNCHANGED <<main, step>>
  BY DEF Capture, CaptureOpen, CaptureRead, CaptureReadFails, CapturePush, CaptureExit,
         Inference, InferenceTop, InferencePopNothing, InferencePop, InferenceSkip,
         InferenceFails, InferenceSucceeds, InferencePush, LoopTop, PopNothing,
         Tracking, TrackingTop, TrackingPopNothing, TrackingPop, TrackingPush,
         Output, OutputStart, OutputTop, OutputPopNothing, OutputPop, OutputEmit,
         OutputFinish, OutputDisconnected, Grpc, GrpcStart, GrpcExit, Signal, FindDeadThread, Returned, vars
<1> QED
  BY <1>2, <1>3, <1>4, <1>5 DEF Next, Main, vars

(* When pipeline_run returns, and the objects its threads share go out of  *)
(* scope, every one of the threads has ended.                              *)
THEOREM PipelineReturnsLast == Spec => []ReturnsLast
<1>1. Init => Joined
  BY DEF Init, Joined, ReturnsLast
<1>2. Joined => ReturnsLast
  BY DEF Joined
<1> QED
  BY <1>1, <1>2, JoinedStep, PipelineTypes, PTL DEF Spec

-----------------------------------------------------------------------------
(* Nothing is lost between capture and inference.                          *)

LEMMA LosslessStep == TypeOK /\ CaptureLossless /\ [Next]_vars => CaptureLossless'
<1> SUFFICES ASSUME TypeOK, CaptureLossless, [Next]_vars, ("frame" \notin shut)'
             PROVE  /\ \A i \in 1..Len(queue'["frame"]) : queue'["frame"][i].stamp = taken' + i
                    /\ captured' = taken' + Len(queue'["frame"])
                                   + (IF pc'["capture"] = "pushing" THEN 1 ELSE 0)
                    /\ pc'["capture"] = "pushing" => hand'["capture"].stamp = captured'
  BY DEF CaptureLossless
<1>1. /\ PlacesOK /\ QueuesOK /\ CountersOK
      /\ queue \in [Queues -> Seq(Frame)] /\ hand \in [Stages -> Frame]
      /\ queue["frame"] \in Seq(Frame) /\ hand["capture"] \in Frame
      /\ Len(queue["frame"]) \in Nat /\ taken \in Nat /\ captured \in Nat
  BY LenProperties, PipelineAssumption DEF TypeOK, QueuesOK, CountersOK, Queues, Stages
<1>2. /\ "frame" \notin shut
      /\ \A i \in 1..Len(queue["frame"]) : queue["frame"][i].stamp = taken + i
      /\ captured = taken + Len(queue["frame"])
                    + (IF pc["capture"] = "pushing" THEN 1 ELSE 0)
      /\ pc["capture"] = "pushing" => hand["capture"].stamp = captured
  <2>1. "frame" \notin shut
    <3>1. CASE ShutQueue
      BY <3>1 DEF ShutQueue
    <3>2. CASE UNCHANGED shut
      BY <3>2
    <3> QED
      BY <3>1, <3>2
         DEF Next, Capture, CaptureOpen, CaptureRead, CaptureReadFails, CapturePush, CaptureExit,
             Inference, InferenceTop, InferencePopNothing, InferencePop, InferenceSkip,
             InferenceFails, InferenceSucceeds, InferencePush, LoopTop, PopNothing,
             Tracking, TrackingTop, TrackingPopNothing, TrackingPop, TrackingPush,
             Output, OutputStart, OutputTop, OutputPopNothing, OutputPop, OutputEmit,
             OutputFinish, OutputDisconnected, Grpc, GrpcStart, GrpcExit, Signal, Main, FindDeadThread,
             LeavePolling, JoinThread, Returned, vars
  <2> QED
    BY <2>1 DEF CaptureLossless
<1>3. CASE CaptureRead
  <2>1. pc'["capture"] = "pushing"
    BY <1>1, <1>3, GotoFacts DEF CaptureRead, Threads, Places
  <2>2. hand'["capture"].stamp = captured + 1
    BY <1>1, <1>3 DEF CaptureRead, Stages
  <2>0. /\ pc["capture"] # "pushing"
        /\ captured' = captured + 1 /\ taken' = taken /\ queue' = queue
    BY <1>3 DEF CaptureRead
  <2>3. captured = taken + Len(queue["frame"])
    BY <1>1, <1>2, <2>0
  <2>4. captured' = taken' + Len(queue'["frame"]) + 1
    BY <1>1, <2>0, <2>3
  <2> QED
    BY <1>1, <1>2, <2>0, <2>1, <2>2, <2>4
<1>4. CASE CapturePush
  <2>1. queue'["frame"] = Append(queue["frame"], hand["capture"])
    BY <1>1, <1>2, <1>4 DEF CapturePush, Queues
  <2>2. pc'["capture"] = "reading"
    BY <1>1, <1>4, GotoFacts DEF CapturePush, Threads, Places
  <2>3. /\ Len(queue'["frame"]) = Len(queue["frame"]) + 1
        /\ \A i \in 1..Len(queue["frame"]) : queue'["frame"][i] = queue["frame"][i]
        /\ queue'["frame"][Len(queue["frame"]) + 1] = hand["capture"]
    BY <1>1, <2>1, AppendType
  <2>4. /\ captured = taken + Len(queue["frame"]) + 1
        /\ hand["capture"].stamp = captured
        /\ captured' = captured /\ taken' = taken
    BY <1>2, <1>4 DEF CapturePush
  <2>5. captured' = taken' + Len(queue'["frame"])
    BY <1>1, <2>3, <2>4
  <2>6. \A i \in 1..Len(queue'["frame"]) : queue'["frame"][i].stamp = taken' + i
    <3> SUFFICES ASSUME NEW i \in 1..Len(queue["frame"]) + 1
                 PROVE  queue'["frame"][i].stamp = taken + i
      BY <1>1, <2>3, <2>4
    <3>1. CASE i \in 1..Len(queue["frame"])
      BY <1>2, <2>3, <3>1
    <3>2. CASE i = Len(queue["frame"]) + 1
      BY <1>1, <2>3, <2>4, <3>2
    <3> QED
      BY <1>1, <3>1, <3>2
  <2> QED
    BY <2>2, <2>5, <2>6
<1>5. CASE InferencePop
  <2>1. queue["frame"] # <<>> /\ queue'["frame"] = Tail(queue["frame"])
    BY <1>1, <1>5 DEF InferencePop, Take, Queues
  <2>2. taken' = queue["frame"][1].stamp
    BY <1>1, <1>5, <2>1, TakeType DEF InferencePop
  <2>3. /\ Len(queue["frame"]) >= 1
        /\ Len(queue'["frame"]) = Len(queue["frame"]) - 1
        /\ \A i \in 1..Len(queue'["frame"]) : queue'["frame"][i] = queue["frame"][i + 1]
    BY <1>1, <2>1, TakeType
  <2>4. taken' = taken + 1
    BY <1>1, <1>2, <2>2, <2>3
  <2>5. pc'["capture"] = pc["capture"] /\ hand'["capture"] = hand["capture"] /\ captured' = captured
    BY <1>1, <1>5, GotoFacts DEF InferencePop, Take, Threads, Places, Stages
  <2>6. \A i \in 1..Len(queue'["frame"]) : queue'["frame"][i].stamp = taken' + i
    <3> SUFFICES ASSUME NEW i \in 1..Len(queue'["frame"])
                 PROVE  queue'["frame"][i].stamp = taken' + i
      OBVIOUS
    <3>1. i \in Nat /\ i + 1 \in 1..Len(queue["frame"])
      BY <1>1, <2>3
    <3>2. queue'["frame"][i].stamp = taken + (i + 1)
      BY <1>2, <2>3, <3>1
    <3>3. taken + (i + 1) = taken' + i
      BY <1>1, <2>4, <3>1
    <3> QED
      BY <3>2, <3>3
  <2>7. captured' = taken' + Len(queue'["frame"])
                    + (IF pc'["capture"] = "pushing" THEN 1 ELSE 0)
    <3> DEFINE n == Len(queue["frame"])
               m == Len(queue'["frame"])
               k == IF pc["capture"] = "pushing" THEN 1 ELSE 0
    <3>1. n \in Nat /\ taken \in Nat /\ k \in Nat
      BY <1>1
    <3>2. captured = taken + n + k
      BY <1>2
    <3>3. m = n - 1 /\ taken' = taken + 1 /\ captured' = captured
      BY <2>3, <2>4, <2>5
    <3> HIDE DEF n, m, k
    <3>4. captured' = taken' + m + k
      BY <3>1, <3>2, <3>3
    <3> QED
      BY <2>5, <3>4 DEF m, k
  <2> QED
    BY <1>2, <2>5, <2>6, <2>7
<1>6. CASE CaptureOpen \/ CaptureExit \/ CaptureReadFails
  <2>1. UNCHANGED <<queue, hand, taken, captured>> /\ pc["capture"] # "pushing"
    BY <1>6 DEF CaptureOpen, CaptureExit, CaptureReadFails
  <2>2. pc'["capture"] # "pushing"
    BY <1>1, <1>6, <2>1, GotoFacts DEF CaptureOpen, CaptureExit, CaptureReadFails, Threads, Places
  <2> QED
    BY <1>2, <2>1, <2>2
<1>7. CASE UNCHANGED <<taken, captured>> /\ UNCHANGED <<queue["frame"], pc["capture"], hand["capture"]>>
  BY <1>2, <1>7
<1>8. CASE Inference /\ ~InferencePop
  <2>1. UNCHANGED <<taken, captured>>
    BY <1>8 DEF Inference, InferenceTop, InferencePopNothing, InferenceSkip,
         InferenceFails, InferenceSucceeds, InferencePush, LoopTop, PopNothing
  <2>2. \E p \in Places : Goto("inference", p)
    BY <1>8 DEF Inference, InferenceTop, InferencePopNothing, InferenceSkip,
         InferenceFails, InferenceSucceeds, InferencePush, LoopTop, PopNothing, Places
  <2>3. UNCHANGED <<queue["frame"], hand["capture"]>>
    BY <1>1, <1>8 DEF Inference, InferenceTop, InferencePopNothing, InferenceSkip,
         InferenceFails, InferenceSucceeds, InferencePush, LoopTop, PopNothing, PushOrDrop,
         Queues, Stages
  <2> QED
    BY <1>1, <1>7, <2>1, <2>2, <2>3, GotoFacts DEF Threads
<1>9. CASE Tracking
  <2>1. UNCHANGED <<taken, captured>>
    BY <1>9 DEF Tracking, TrackingTop, TrackingPopNothing, TrackingPop, TrackingPush,
         LoopTop, PopNothing
  <2>2. \E p \in Places : Goto("tracking", p)
    BY <1>9 DEF Tracking, TrackingTop, TrackingPopNothing, TrackingPop, TrackingPush,
         LoopTop, PopNothing, Places
  <2>3. UNCHANGED <<queue["frame"], hand["capture"]>>
    BY <1>1, <1>9 DEF Tracking, TrackingTop, TrackingPopNothing, TrackingPop, TrackingPush,
         LoopTop, PopNothing, PushOrDrop, Take, Queues, Stages
  <2> QED
    BY <1>1, <1>7, <2>1, <2>2, <2>3, GotoFacts DEF Threads
<1>10. CASE Output
  <2>1. UNCHANGED <<taken, captured>>
    BY <1>10 DEF Output, OutputStart, OutputTop, OutputPopNothing, OutputPop, OutputEmit,
         OutputFinish, OutputDisconnected, LoopTop, PopNothing
  <2>2. \E p \in Places : Goto("output", p)
    BY <1>10 DEF Output, OutputStart, OutputTop, OutputPopNothing, OutputPop, OutputEmit,
         OutputFinish, OutputDisconnected, LoopTop, PopNothing, Places
  <2>3. UNCHANGED <<queue["frame"], hand["capture"]>>
    BY <1>1, <1>10 DEF Output, OutputStart, OutputTop, OutputPopNothing, OutputPop, OutputEmit,
         OutputFinish, OutputDisconnected, LoopTop, PopNothing, Take, Queues, Stages
  <2> QED
    BY <1>1, <1>7, <2>1, <2>2, <2>3, GotoFacts DEF Threads
<1>11. CASE Grpc
  <2>1. UNCHANGED <<taken, captured, queue, hand>> /\ \E p \in Places : Goto("grpc", p)
    BY <1>11 DEF Grpc, GrpcStart, GrpcExit, Places
  <2> QED
    BY <1>1, <1>7, <2>1, GotoFacts DEF Threads
<1>12. CASE Signal \/ Main \/ Returned \/ UNCHANGED vars
  BY <1>7, <1>12 DEF Signal, Main, FindDeadThread, LeavePolling, ShutQueue, JoinThread, Returned, vars
<1> QED
  BY <1>3, <1>4, <1>5, <1>6, <1>8, <1>9, <1>10, <1>11, <1>12 DEF Next, Capture

(* However deep the frame queue and whenever the consumer is slow, no      *)
(* frame is dropped or duplicated between capture and inference until      *)
(* pipeline_run shuts the queue down.                                      *)
THEOREM PipelineCaptureLossless == Spec => []CaptureLossless
<1>1. Init => CaptureLossless
  <2>1. Init => Len(queue["frame"]) = 0
    BY DEF Init, Queues
  <2> QED
    BY <2>1 DEF Init, CaptureLossless
<1> QED
  BY <1>1, LosslessStep, PipelineTypes, PTL DEF Spec

-----------------------------------------------------------------------------
(* Order along the pipeline.                                               *)

(* What dropping, moving and inserting do to the stamps of a queue.        *)
LEMMA StampsTake ==
  ASSUME NEW s \in Seq(Frame), s # <<>>
  PROVE  /\ Stamps(s) \subseteq Int
         /\ Head(s).stamp \in Stamps(s)
         /\ Stamps(Tail(s)) \subseteq Stamps(s)
         /\ Increasing(s) => /\ Increasing(Tail(s))
                             /\ \A x \in Stamps(Tail(s)) : x > Head(s).stamp
<1> HIDE DEF Frame
<1>1. /\ Head(s) = s[1] /\ Len(s) \in Nat \ {0}
      /\ Len(Tail(s)) = Len(s) - 1
      /\ \A i \in 1..Len(Tail(s)) : Tail(s)[i] = s[i + 1]
  BY TakeType
<1>2. \A i \in 1..Len(s) : s[i] \in Frame
  BY ElementOfSeq
<1>3. Stamps(s) \subseteq Int
  BY <1>2, FrameFacts DEF Stamps
<1>4. Head(s).stamp \in Stamps(s)
  BY <1>1 DEF Stamps
<1>5. Stamps(Tail(s)) \subseteq Stamps(s)
  BY <1>1 DEF Stamps
<1>6. ASSUME Increasing(s)
      PROVE  Increasing(Tail(s)) /\ \A x \in Stamps(Tail(s)) : x > Head(s).stamp
  <2>1. Increasing(Tail(s))
    BY <1>1, <1>6 DEF Increasing
  <2>2. \A i \in 1..Len(Tail(s)) : s[1].stamp < s[i + 1].stamp
    BY <1>1, <1>6 DEF Increasing
  <2>3. \A i \in 1..Len(Tail(s)) : Tail(s)[i].stamp \in Int /\ s[1].stamp \in Int
    BY <1>1, <1>2, FrameFacts
  <2> QED
    BY <1>1, <2>1, <2>2, <2>3 DEF Stamps
<1> QED
  BY <1>3, <1>4, <1>5, <1>6

LEMMA StampsAppend ==
  ASSUME NEW s \in Seq(Frame), NEW f \in Frame
  PROVE  /\ Stamps(Append(s, f)) = Stamps(s) \union {f.stamp}
         /\ Increasing(s) /\ (\A x \in Stamps(s) : f.stamp > x) => Increasing(Append(s, f))
<1> HIDE DEF Frame
<1> DEFINE r == Append(s, f)
           n == Len(s)
<1>1. /\ n \in Nat /\ Len(r) = n + 1
      /\ \A i \in 1..n : r[i] = s[i]
      /\ r[n + 1] = f
  BY AppendType
<1>2. \A i \in 1..n : s[i].stamp \in Stamps(s) /\ s[i].stamp \in Int
  BY ElementOfSeq, FrameFacts DEF Stamps
<1>3. f.stamp \in Int
  BY FrameFacts
<1>4. \A x \in Stamps(s) : \E i \in 1..n : x = s[i].stamp
  BY DEF Stamps
<1>5. Stamps(r) = {r[i].stamp : i \in 1..n + 1}
  BY <1>1 DEF Stamps
<1>6. ASSUME Increasing(s), \A x \in Stamps(s) : f.stamp > x
      PROVE  \A i, j \in 1..n + 1 : i < j => r[i].stamp < r[j].stamp
  <2>1. \A i, j \in 1..n : i < j => s[i].stamp < s[j].stamp
    BY <1>6 DEF Increasing
  <2> HIDE DEF r, n
  <2> QED
    BY <1>1, <1>2, <1>3, <1>6, <2>1
<1>7. Increasing(r) <=> \A i, j \in 1..n + 1 : i < j => r[i].stamp < r[j].stamp
  BY <1>1 DEF Increasing
<1> HIDE DEF r, n
<1>8. Stamps(r) = Stamps(s) \union {f.stamp}
  BY <1>1, <1>2, <1>4, <1>5
<1> QED
  BY <1>6, <1>7, <1>8 DEF r

(* No stamp is newer than the last frame captured.                         *)
UpTo(line, last) == \A i \in 1..8 : \A x \in line[i] : x \in Int /\ x <= last

(* Stamps that leave one place and reach at most the next one, without     *)
(* overtaking what stays behind, keep the line in order.                   *)
LEMMA MoveKeepsOrder ==
  ASSUME NEW from, NEW to, NEW last, Ordered(from), UpTo(from, last), NEW i \in 1..7,
         to[i] \subseteq from[i],
         to[i + 1] \subseteq from[i + 1] \union from[i],
         \A x \in to[i], y \in to[i + 1] : x > y,
         \A j \in 1..8 \ {i, i + 1} : to[j] \subseteq from[j]
  PROVE  Ordered(to) /\ UpTo(to, last)
<1>0. UpTo(to, last)
  <2> SUFFICES ASSUME NEW j \in 1..8, NEW x \in to[j] PROVE x \in Int /\ x <= last
    BY DEF UpTo
  <2>1. CASE j = i \/ j = i + 1
    <3>1. x \in from[i] \/ (x \in from[i + 1] /\ i + 1 \in 1..8)
      BY <2>1
    <3> QED
      BY <3>1 DEF UpTo
  <2>2. CASE j # i /\ j # i + 1
    <3>1. x \in from[j]
      BY <2>2
    <3> QED
      BY <3>1 DEF UpTo
  <2> QED
    BY <2>1, <2>2
<1> SUFFICES ASSUME NEW a \in 1..8, NEW b \in 1..8, a < b,
                    NEW x \in to[a], NEW y \in to[b]
             PROVE  x > y
  BY <1>0 DEF Ordered
<1>1. CASE a = i /\ b = i + 1
  BY <1>1
<1>2. CASE a = i /\ b # i + 1
  <2>1. x \in from[i] /\ y \in from[b]
    BY <1>2
  <2> QED
    BY <1>2, <2>1 DEF Ordered
<1>3. CASE a = i + 1
  <2>1. y \in from[b] /\ (x \in from[i + 1] \/ x \in from[i]) /\ i < b /\ i + 1 < b
    BY <1>3
  <2> QED
    BY <1>3, <2>1 DEF Ordered
<1>4. CASE a # i /\ a # i + 1
  <2>1. x \in from[a]
    BY <1>4
  <2>2. CASE b = i + 1
    <3>1. (y \in from[i + 1] \/ y \in from[i]) /\ a < i
      BY <1>4, <2>2
    <3> QED
      BY <2>1, <2>2, <3>1 DEF Ordered
  <2>3. CASE b # i + 1
    <3>1. y \in from[b]
      BY <2>3
    <3> QED
      BY <2>1, <3>1 DEF Ordered
  <2> QED
    BY <2>2, <2>3
<1> QED
  BY <1>1, <1>2, <1>3, <1>4

(* Where queues and hands are on the line.                                 *)
QueueSlot == [frame |-> 2, detect |-> 4, track |-> 6]
HandSlot == [capture |-> 1, inference |-> 3, tracking |-> 5, output |-> 7]

LEMMA Slots ==
  /\ \A q \in Queues : QueueSlot[q] \in 1..7
  /\ \A t \in Stages : HandSlot[t] \in 1..7
  /\ \A q, r \in Queues : QueueSlot[q] = QueueSlot[r] => q = r
  /\ \A t, u \in Stages : HandSlot[t] = HandSlot[u] => t = u
  /\ \A q \in Queues, t \in Stages : QueueSlot[q] # HandSlot[t]
  /\ \A j \in 1..8 : \/ j = 8
                     \/ \E q \in Queues : j = QueueSlot[q]
                     \/ \E t \in Stages : j = HandSlot[t]
BY DEF QueueSlot, HandSlot, Queues, Stages

LEMMA LineBySlot ==
  /\ \A q \in Queues : Line[QueueSlot[q]] = Stamps(queue[q])
  /\ \A t \in Stages : Line[HandSlot[t]] = Held(t)
  /\ Line[8] = {emitted}
<1>1. /\ Line[1] = Held("capture") /\ Line[2] = Stamps(queue["frame"])
      /\ Line[3] = Held("inference") /\ Line[4] = Stamps(queue["detect"])
      /\ Line[5] = Held("tracking") /\ Line[6] = Stamps(queue["track"])
      /\ Line[7] = Held("output") /\ Line[8] = {emitted}
  BY DEF Line
<1> QED
  BY <1>1 DEF QueueSlot, HandSlot, Queues, Stages

LEMMA LineBySlotNext ==
  /\ \A q \in Queues : Line'[QueueSlot[q]] = Stamps(queue'[q])
  /\ \A t \in Stages : Line'[HandSlot[t]] = Held(t)'
  /\ Line'[8] = {emitted'}
<1>1. /\ Line'[1] = Held("capture")' /\ Line'[2] = Stamps(queue'["frame"])
      /\ Line'[3] = Held("inference")' /\ Line'[4] = Stamps(queue'["detect"])
      /\ Line'[5] = Held("tracking")' /\ Line'[6] = Stamps(queue'["track"])
      /\ Line'[7] = Held("output")' /\ Line'[8] = {emitted'}
  BY DEF Line, Stamps
<1> QED
  BY <1>1 DEF QueueSlot, HandSlot, Queues, Stages

(* The frames held by the thread that moves and by the others.             *)
LEMMA HeldFacts ==
  ASSUME PlacesOK, NEW t \in Stages, NEW place \in Places, Goto(t, place)
  PROVE  /\ Held(t)' = IF place \in {"pushing", "inferring", "emitting"}
                       THEN {hand'[t].stamp} ELSE {}
         /\ \A u \in Stages \ {t} : hand'[u] = hand[u] => Held(u)' = Held(u)
<1>1. t \in Threads /\ \A u \in Stages : u \in Threads
  BY DEF Stages, Threads
<1>2. pc'[t] = place /\ \A u \in Stages \ {t} : pc'[u] = pc[u]
  BY <1>1, GotoFacts
<1> QED
  BY <1>2 DEF Held, Holding

OrderInv == InOrder /\ UpTo(Line, captured)

(* pop: the head of a queue goes into the hand of a thread that held none. *)
LEMMA TakeKeepsOrder ==
  ASSUME TypeOK, OrderInv, NEW t \in Stages, NEW q \in Queues,
         HandSlot[t] = QueueSlot[q] + 1, NEW place \in Places,
         Take(t, q), Goto(t, place), UNCHANGED <<captured, emitted>>
  PROVE  OrderInv'
<1>1. /\ PlacesOK /\ queue[q] \in Seq(Frame) /\ queue[q] # <<>>
      /\ queue'[q] = Tail(queue[q])
      /\ \A r \in Queues \ {q} : queue'[r] = queue[r]
      /\ hand'[t] = Head(queue[q])
      /\ \A u \in Stages \ {t} : hand'[u] = hand[u]
  BY DEF TypeOK, QueuesOK, Take
<1>2. /\ Increasing(queue[q]) /\ Ordered(Line) /\ UpTo(Line, captured)
      /\ \A r \in Queues : Increasing(queue[r])
  BY DEF OrderInv, InOrder
<1>3. /\ Head(queue[q]).stamp \in Stamps(queue[q])
      /\ Stamps(queue'[q]) \subseteq Stamps(queue[q])
      /\ Increasing(queue'[q])
      /\ \A x \in Stamps(queue'[q]) : x > Head(queue[q]).stamp
  BY <1>1, <1>2, StampsTake
<1>4. /\ Held(t)' \subseteq {Head(queue[q]).stamp}
      /\ \A u \in Stages \ {t} : Held(u)' = Held(u)
  BY <1>1, HeldFacts
<1> DEFINE i == QueueSlot[q]
<1>5. /\ i \in 1..7 /\ HandSlot[t] = i + 1
      /\ Line[i] = Stamps(queue[q]) /\ Line'[i] = Stamps(queue'[q])
      /\ Line'[i + 1] = Held(t)'
  BY Slots, LineBySlot, LineBySlotNext
<1>6. ASSUME NEW j \in 1..8 \ {i, i + 1}
      PROVE  Line'[j] \subseteq Line[j]
  <2>1. CASE j = 8
    BY <2>1, LineBySlot, LineBySlotNext
  <2>2. ASSUME NEW r \in Queues, j = QueueSlot[r]
        PROVE  Line'[j] \subseteq Line[j]
    BY <1>1, <2>2, LineBySlot, LineBySlotNext
  <2>3. ASSUME NEW u \in Stages, j = HandSlot[u]
        PROVE  Line'[j] \subseteq Line[j]
    BY <1>4, <1>5, <2>3, LineBySlot, LineBySlotNext
  <2> QED
    BY <2>1, <2>2, <2>3, Slots
<1> HIDE DEF i
<1>7. Ordered(Line') /\ UpTo(Line', captured)
  <2>1. \A x \in Line'[i], y \in Line'[i + 1] : x > y
    BY <1>3, <1>4, <1>5
  <2>2. Line'[i] \subseteq Line[i] /\ Line'[i + 1] \subseteq Line[i + 1] \union Line[i]
    BY <1>3, <1>4, <1>5
  <2> QED
    BY <1>2, <1>5, <1>6, <2>1, <2>2, MoveKeepsOrder
<1>8. \A r \in Queues : Increasing(queue'[r])
  BY <1>1, <1>2, <1>3
<1> QED
  BY <1>7, <1>8 DEF OrderInv, InOrder

(* push: the frame in hand joins the queue, or is dropped.                 *)
LEMMA PushKeepsOrder ==
  ASSUME TypeOK, OrderInv, NEW t \in Stages, NEW q \in Queues,
         QueueSlot[q] = HandSlot[t] + 1, NEW place \in {"looping", "reading"},
         pc[t] = "pushing", UNCHANGED <<captured, emitted>>,
         queue' \in {queue, [queue EXCEPT ![q] = Append(@, hand[t])]},
         hand' = [hand EXCEPT ![t] = NoFrame], Goto(t, place)
  PROVE  OrderInv'
<1>1. /\ PlacesOK /\ queue[q] \in Seq(Frame) /\ hand[t] \in Frame
      /\ queue'[q] \in {queue[q], Append(queue[q], hand[t])}
      /\ \A r \in Queues \ {q} : queue'[r] = queue[r]
      /\ \A u \in Stages \ {t} : hand'[u] = hand[u]
  BY DEF TypeOK, QueuesOK
<1>2. /\ Increasing(queue[q]) /\ Ordered(Line) /\ UpTo(Line, captured)
      /\ \A r \in Queues : Increasing(queue[r])
  BY DEF OrderInv, InOrder
<1> DEFINE i == HandSlot[t]
<1>3. /\ i \in 1..7 /\ i + 1 \in 1..8 /\ QueueSlot[q] = i + 1
      /\ Line[i] = Held(t) /\ Line'[i] = Held(t)'
      /\ Line[i + 1] = Stamps(queue[q]) /\ Line'[i + 1] = Stamps(queue'[q])
  BY Slots, LineBySlot, LineBySlotNext
<1>4. Held(t) = {hand[t].stamp}
  BY DEF Held, Holding
<1>5. Held(t)' = {} /\ \A u \in Stages \ {t} : Held(u)' = Held(u)
  BY <1>1, HeldFacts DEF Places
<1>6. ASSUME NEW j \in 1..8 \ {i, i + 1}
      PROVE  Line'[j] \subseteq Line[j]
  <2>1. CASE j = 8
    BY <2>1, LineBySlot, LineBySlotNext
  <2>2. ASSUME NEW r \in Queues, j = QueueSlot[r]
        PROVE  Line'[j] \subseteq Line[j]
    BY <1>1, <1>3, <2>2, LineBySlot, LineBySlotNext
  <2>3. ASSUME NEW u \in Stages, j = HandSlot[u]
        PROVE  Line'[j] \subseteq Line[j]
    BY <1>5, <2>3, LineBySlot, LineBySlotNext
  <2> QED
    BY <2>1, <2>2, <2>3, Slots
<1> HIDE DEF i
<1>7. \A x \in Stamps(queue[q]) : hand[t].stamp > x
  <2>1. i \in 1..8 /\ i + 1 \in 1..8 /\ i < i + 1
    BY <1>3
  <2>2. \A x \in Line[i], y \in Line[i + 1] : x > y
    BY <1>2, <2>1 DEF Ordered
  <2> QED
    BY <1>3, <1>4, <2>2
<1>8. /\ Stamps(queue'[q]) \subseteq Stamps(queue[q]) \union {hand[t].stamp}
      /\ Increasing(queue'[q])
  BY <1>1, <1>2, <1>7, StampsAppend
<1>9. Ordered(Line') /\ UpTo(Line', captured)
  <2>1. /\ Line'[i] \subseteq Line[i]
        /\ Line'[i + 1] \subseteq Line[i + 1] \union Line[i]
        /\ \A x \in Line'[i], y \in Line'[i + 1] : x > y
    BY <1>3, <1>4, <1>5, <1>8
  <2> QED
    BY <1>2, <1>3, <1>6, <2>1, MoveKeepsOrder
<1>10. \A r \in Queues : Increasing(queue'[r])
  BY <1>1, <1>2, <1>8
<1> QED
  BY <1>9, <1>10 DEF OrderInv, InOrder

(* A step that leaves the queues alone and gives no thread a frame.        *)
LEMMA QuietKeepsOrder ==
  ASSUME OrderInv, UNCHANGED <<queue, captured, emitted>>,
         \A t \in Stages : Held(t)' \subseteq Held(t)
  PROVE  OrderInv'
<1>1. /\ Ordered(Line) /\ UpTo(Line, captured)
      /\ \A r \in Queues : Increasing(queue[r])
  BY DEF OrderInv, InOrder
<1>2. \A j \in 1..8 : Line'[j] \subseteq Line[j]
  BY Slots, LineBySlot, LineBySlotNext
<1>3. Ordered(Line') /\ UpTo(Line', captured)
  BY <1>1, <1>2 DEF Ordered, UpTo
<1> QED
  BY <1>1, <1>3 DEF OrderInv, InOrder

(* A step of one thread that holds nothing afterwards, or what it held.    *)
LEMMA ThreadKeepsOrder ==
  ASSUME PlacesOK, OrderInv, UNCHANGED <<queue, captured, emitted>>,
         NEW t \in Stages, NEW place \in Places, Goto(t, place),
         \A u \in Stages \ {t} : hand'[u] = hand[u],
         \/ place \notin {"pushing", "inferring", "emitting"}
         \/ Holding(t) /\ hand'[t] = hand[t]
  PROVE  OrderInv'
<1>1. \A u \in Stages \ {t} : Held(u)' \subseteq Held(u)
  BY HeldFacts
<1>2. Held(t)' \subseteq Held(t)
  BY HeldFacts DEF Held
<1> QED
  BY <1>1, <1>2, QuietKeepsOrder

(* A new frame is newer than everything in the pipeline.                   *)
LEMMA CaptureKeepsOrder ==
  ASSUME TypeOK, OrderInv, CaptureRead
  PROVE  OrderInv'
<1>1. /\ PlacesOK /\ captured \in Int /\ captured' = captured + 1
      /\ UNCHANGED <<queue, emitted>>
      /\ hand'["capture"].stamp = captured + 1
      /\ \A u \in Stages \ {"capture"} : hand'[u] = hand[u]
      /\ Goto("capture", "pushing")
  BY PipelineAssumption DEF TypeOK, QueuesOK, CountersOK, CaptureRead, Stages
<1>2. /\ Ordered(Line) /\ UpTo(Line, captured)
      /\ \A r \in Queues : Increasing(queue[r])
  BY DEF OrderInv, InOrder
<1>3. /\ Held("capture")' = {captured + 1}
      /\ \A u \in Stages \ {"capture"} : Held(u)' = Held(u)
  BY <1>1, HeldFacts DEF Stages, Places
<1>4. Line'[1] = {captured + 1} /\ \A j \in 2..8 : Line'[j] = Line[j]
  <2>1. HandSlot["capture"] = 1
    BY DEF HandSlot
  <2>2. ASSUME NEW j \in 2..8 PROVE Line'[j] = Line[j]
    <3>1. CASE j = 8
      BY <1>1, <3>1, LineBySlot, LineBySlotNext
    <3>2. ASSUME NEW r \in Queues, j = QueueSlot[r]
          PROVE  Line'[j] = Line[j]
      BY <1>1, <3>2, LineBySlot, LineBySlotNext
    <3>3. ASSUME NEW u \in Stages, j = HandSlot[u]
          PROVE  Line'[j] = Line[j]
      BY <1>3, <2>1, <3>3, LineBySlot, LineBySlotNext
    <3> QED
      BY <3>1, <3>2, <3>3, Slots
  <2> QED
    BY <1>3, <2>1, <2>2, LineBySlotNext DEF Stages
<1>5. Ordered(Line')
  <2> SUFFICES ASSUME NEW i \in 1..8, NEW j \in 1..8, i < j,
                      NEW x \in Line'[i], NEW y \in Line'[j]
               PROVE  x > y
    BY DEF Ordered
  <2>1. j \in 2..8 /\ y \in Line[j] /\ y \in Int /\ y <= captured
    BY <1>2, <1>4 DEF UpTo
  <2>2. CASE i = 1
    BY <1>1, <1>4, <2>1, <2>2
  <2>3. CASE i # 1
    <3>1. x \in Line[i]
      BY <1>4, <2>3
    <3> QED
      BY <1>2, <2>1, <3>1 DEF Ordered
  <2> QED
    BY <2>2, <2>3
<1>6. UpTo(Line', captured')
  BY <1>1, <1>2, <1>4 DEF UpTo
<1> QED
  BY <1>1, <1>2, <1>5, <1>6 DEF OrderInv, InOrder

(* The output thread is done with a frame.                                 *)
LEMMA EmitKeepsOrder ==
  ASSUME TypeOK, OrderInv, OutputEmit
  PROVE  OrderInv'
<1>1. /\ PlacesOK /\ UNCHANGED <<queue, captured>>
      /\ emitted' = hand["output"].stamp
      /\ \A u \in Stages \ {"output"} : hand'[u] = hand[u]
      /\ pc["output"] = "emitting" /\ Goto("output", "looping")
  BY DEF TypeOK, QueuesOK, OutputEmit
<1>2. /\ Ordered(Line) /\ UpTo(Line, captured)
      /\ \A r \in Queues : Increasing(queue[r])
  BY DEF OrderInv, InOrder
<1>3. /\ Held("output") = {hand["output"].stamp} /\ Held("output")' = {}
      /\ \A u \in Stages \ {"output"} : Held(u)' = Held(u)
  BY <1>1, HeldFacts DEF Held, Holding, Stages, Places
<1>4. HandSlot["output"] = 7
  BY DEF HandSlot
<1>5. Line[7] = {emitted'} /\ Line'[7] = {} /\ Line'[8] = {emitted'}
  BY <1>1, <1>3, <1>4, LineBySlot, LineBySlotNext DEF Stages
<1>6. ASSUME NEW j \in 1..8 \ {7, 8}
      PROVE  Line'[j] \subseteq Line[j]
  <2>1. ASSUME NEW r \in Queues, j = QueueSlot[r]
        PROVE  Line'[j] \subseteq Line[j]
    BY <1>1, <2>1, LineBySlot, LineBySlotNext
  <2>2. ASSUME NEW u \in Stages, j = HandSlot[u]
        PROVE  Line'[j] \subseteq Line[j]
    BY <1>3, <1>4, <2>2, LineBySlot, LineBySlotNext
  <2> QED
    BY <2>1, <2>2, Slots
<1>7. Ordered(Line') /\ UpTo(Line', captured)
  <2>1. 7 \in 1..7 /\ 7 + 1 = 8
    OBVIOUS
  <2> QED
    BY <1>2, <1>5, <1>6, <2>1, MoveKeepsOrder
<1> QED
  BY <1>1, <1>2, <1>7 DEF OrderInv, InOrder

LEMMA OrderStep == TypeOK /\ OrderInv /\ [Next]_vars => OrderInv'
<1> SUFFICES ASSUME TypeOK, OrderInv, [Next]_vars PROVE OrderInv'
  OBVIOUS
<1>0. /\ PlacesOK
      /\ hand \in [Stages -> Frame] /\ queue \in [Queues -> Seq(Frame)]
  BY DEF TypeOK, QueuesOK
<1> USE DEF Stages, Queues, Places, QueueSlot, HandSlot
<1>1. CASE CaptureRead
  BY <1>1, CaptureKeepsOrder
<1>2. CASE OutputEmit
  BY <1>2, EmitKeepsOrder
<1>3. CASE CapturePush
  BY <1>3, PushKeepsOrder DEF CapturePush
<1>4. CASE InferencePush
  BY <1>4, PushKeepsOrder DEF InferencePush, PushOrDrop
<1>5. CASE TrackingPush
  BY <1>5, PushKeepsOrder DEF TrackingPush, PushOrDrop
<1>6. CASE InferencePop
  BY <1>6, TakeKeepsOrder DEF InferencePop
<1>7. CASE TrackingPop
  BY <1>7, TakeKeepsOrder DEF TrackingPop
<1>8. CASE OutputPop
  BY <1>8, TakeKeepsOrder DEF OutputPop
<1>9. CASE InferenceSucceeds
  <2>1. /\ Holding("inference") /\ hand' = hand /\ Goto("inference", "pushing")
        /\ UNCHANGED <<queue, captured, emitted>>
    BY <1>9 DEF InferenceSucceeds, Holding
  <2> QED
    BY <1>0, <2>1, ThreadKeepsOrder
<1>10. CASE InferenceSkip \/ InferenceFails
  <2>1. /\ \A u \in Stages \ {"inference"} : hand'[u] = hand[u]
        /\ Goto("inference", "looping") /\ UNCHANGED <<queue, captured, emitted>>
    BY <1>0, <1>10 DEF InferenceSkip, InferenceFails
  <2> QED
    BY <1>0, <2>1, ThreadKeepsOrder
<1>11. CASE CaptureOpen \/ CaptureExit \/ CaptureReadFails
  <2>1. /\ hand' = hand /\ UNCHANGED <<queue, captured, emitted>>
        /\ \/ UNCHANGED pc
           \/ \E p \in {"reading", "stopped"} : Goto("capture", p)
    BY <1>11 DEF CaptureOpen, CaptureExit, CaptureReadFails
  <2>2. CASE UNCHANGED pc
    BY <2>1, <2>2, QuietKeepsOrder DEF Held, Holding
  <2>3. CASE \E p \in {"reading", "stopped"} : Goto("capture", p)
    BY <1>0, <2>1, <2>3, ThreadKeepsOrder
  <2> QED
    BY <2>1, <2>2, <2>3
<1>12. CASE \/ InferenceTop \/ InferencePopNothing
            \/ TrackingTop \/ TrackingPopNothing
            \/ OutputStart \/ OutputTop \/ OutputPopNothing \/ OutputFinish
            \/ OutputDisconnected
  <2>1. /\ hand' = hand /\ UNCHANGED <<queue, captured, emitted>>
        /\ \E t \in Stages, p \in {"looping", "popping", "finishing", "disconnecting", "stopped"} :
             Goto(t, p)
    BY <1>12 DEF InferenceTop, InferencePopNothing, TrackingTop, TrackingPopNothing,
       OutputStart, OutputTop, OutputPopNothing, OutputFinish, OutputDisconnected, LoopTop, PopNothing
  <2> QED
    BY <1>0, <2>1, ThreadKeepsOrder
<1>13. CASE Grpc
  <2>1. /\ hand' = hand /\ UNCHANGED <<queue, captured, emitted>>
        /\ \E p \in Places : Goto("grpc", p)
    BY <1>13 DEF Grpc, GrpcStart, GrpcExit
  <2>2. \A t \in Stages : pc'[t] = pc[t]
    BY <1>0, <2>1, GotoFacts DEF Threads
  <2> QED
    BY <2>1, <2>2, QuietKeepsOrder DEF Held, Holding
<1>14. CASE Signal \/ Main \/ Returned \/ UNCHANGED vars
  <2>1. UNCHANGED <<hand, pc, queue, captured, emitted>>
    BY <1>14 DEF Signal, Main, FindDeadThread, LeavePolling, ShutQueue, JoinThread, Returned, vars
  <2> QED
    BY <2>1, QuietKeepsOrder DEF Held, Holding
<1> QED
  BY <1>1, <1>2, <1>3, <1>4, <1>5, <1>6, <1>7, <1>8, <1>9, <1>10, <1>11, <1>12, <1>13, <1>14
     DEF Next, Capture, Inference, Tracking, Output

LEMMA OrderInit == Init => OrderInv
<1> SUFFICES ASSUME Init PROVE OrderInv
  OBVIOUS
<1>1. \A q \in Queues : queue[q] = <<>>
  BY DEF Init
<1>2. \A t \in Stages : ~Holding(t)
  BY DEF Init, Holding, Stages
<1>3. \A q \in Queues : Stamps(queue[q]) = {} /\ Increasing(queue[q])
  BY <1>1 DEF Stamps, Increasing
<1>4. \A t \in Stages : Held(t) = {}
  BY <1>2 DEF Held
<1>5. Line[8] = {0} /\ \A j \in 1..7 : Line[j] = {}
  <2>1. Line[8] = {0}
    BY LineBySlot DEF Init
  <2>2. ASSUME NEW j \in 1..7 PROVE Line[j] = {}
    <3>1. ASSUME NEW q \in Queues, j = QueueSlot[q] PROVE Line[j] = {}
      BY <1>3, <3>1, LineBySlot
    <3>2. ASSUME NEW t \in Stages, j = HandSlot[t] PROVE Line[j] = {}
      BY <1>4, <3>2, LineBySlot
    <3> QED
      BY <3>1, <3>2, Slots
  <2> QED
    BY <2>1, <2>2
<1>6. captured = 0
  BY DEF Init
<1> QED
  BY <1>3, <1>5, <1>6 DEF OrderInv, InOrder, Ordered, UpTo

(* No frame overtakes another and none is delivered twice, whatever the    *)
(* full queues drop and at whatever point the pipeline is stopped.         *)
THEOREM PipelineInOrder == Spec => []InOrder
<1>1. OrderInv => InOrder
  BY DEF OrderInv
<1> QED
  BY <1>1, OrderInit, OrderStep, PipelineTypes, PTL DEF Spec

-----------------------------------------------------------------------------
(* The input buffers of file frames.                                       *)

(* Order makes them distinct: the buffer inference frees is not one that   *)
(* is queued or being handed over.                                         *)
LEMMA FreedOnce ==
  ASSUME OrderInv, pc["inference"] = "inferring"
  PROVE  /\ hand["inference"].stamp \notin Stamps(queue["frame"])
         /\ pc["capture"] = "pushing" => hand["capture"].stamp # hand["inference"].stamp
<1>1. /\ Line[1] = Held("capture") /\ Line[2] = Stamps(queue["frame"])
      /\ Line[3] = Held("inference")
  BY DEF Line
<1>2. Held("inference") = {hand["inference"].stamp}
  BY DEF Held, Holding
<1>3. pc["capture"] = "pushing" => Held("capture") = {hand["capture"].stamp}
  BY DEF Held, Holding
<1>4. Ordered(Line) /\ UpTo(Line, captured)
  BY DEF OrderInv, InOrder
<1>5. 1 \in 1..8 /\ 2 \in 1..8 /\ 3 \in 1..8 /\ 1 < 3 /\ 2 < 3
  OBVIOUS
<1>6. /\ \A x \in Line[1], y \in Line[3] : x > y
      /\ \A x \in Line[2], y \in Line[3] : x > y
      /\ \A y \in Line[3] : y \in Int
  BY <1>4, <1>5 DEF Ordered, UpTo
<1> QED
  BY <1>1, <1>2, <1>3, <1>6

LEMMA DanglingStep == TypeOK /\ OrderInv /\ NoDanglingBuffer /\ [Next]_vars => NoDanglingBuffer'
<1> SUFFICES ASSUME TypeOK, OrderInv, BuffersInUse \subseteq heap, FileInput, [Next]_vars
             PROVE  BuffersInUse' \subseteq heap'
  BY DEF NoDanglingBuffer
<1>0. /\ PlacesOK
      /\ hand \in [Stages -> Frame] /\ queue \in [Queues -> Seq(Frame)]
      /\ queue["frame"] \in Seq(Frame) /\ hand["capture"] \in Frame
  BY DEF TypeOK, QueuesOK, Queues, Stages
<1> USE DEF Stages, Queues, Places, Threads
<1>1. CASE CaptureRead
  <2>1. /\ UNCHANGED queue /\ hand'["inference"] = hand["inference"]
        /\ pc'["inference"] = pc["inference"] /\ pc'["capture"] = "pushing"
        /\ hand'["capture"].stamp = captured + 1 /\ heap' = heap \union {captured + 1}
    BY <1>0, <1>1, GotoFacts DEF CaptureRead
  <2> QED
    BY <2>1 DEF BuffersInUse, Held, Holding
<1>2. CASE CapturePush
  <2>1. /\ queue'["frame"] \in {queue["frame"], Append(queue["frame"], hand["capture"])}
        /\ hand'["inference"] = hand["inference"] /\ pc'["inference"] = pc["inference"]
        /\ pc["capture"] = "pushing" /\ pc'["capture"] = "reading" /\ UNCHANGED heap
    BY <1>0, <1>2, GotoFacts DEF CapturePush
  <2>2. Stamps(queue'["frame"]) \subseteq Stamps(queue["frame"]) \union {hand["capture"].stamp}
    BY <1>0, <2>1, StampsAppend
  <2> QED
    BY <2>1, <2>2 DEF BuffersInUse, Held, Holding
<1>3. CASE InferencePop
  <2>1. /\ queue["frame"] # <<>> /\ queue'["frame"] = Tail(queue["frame"])
        /\ hand'["inference"] = Head(queue["frame"]) /\ pc'["inference"] = "inferring"
        /\ hand'["capture"] = hand["capture"] /\ pc'["capture"] = pc["capture"]
        /\ UNCHANGED heap
    BY <1>0, <1>3, GotoFacts DEF InferencePop, Take
  <2>2. /\ Head(queue["frame"]).stamp \in Stamps(queue["frame"])
        /\ Stamps(queue'["frame"]) \subseteq Stamps(queue["frame"])
    BY <1>0, <2>1, StampsTake
  <2> QED
    BY <2>1, <2>2 DEF BuffersInUse, Held, Holding
<1>4. CASE InferenceFails \/ InferenceSucceeds
  <2>1. /\ pc["inference"] = "inferring" /\ heap' = heap \ {hand["inference"].stamp}
        /\ UNCHANGED queue
        /\ hand'["capture"] = hand["capture"] /\ pc'["capture"] = pc["capture"]
        /\ pc'["inference"] # "inferring"
    BY <1>0, <1>4, GotoFacts DEF InferenceFails, InferenceSucceeds, FreeHeld
  <2>2. BuffersInUse' = (IF pc["capture"] = "pushing" THEN {hand["capture"].stamp} ELSE {})
                        \union Stamps(queue["frame"])
    BY <2>1 DEF BuffersInUse, Held, Holding
  <2>3. BuffersInUse' \subseteq BuffersInUse
    BY <2>2 DEF BuffersInUse, Held, Holding
  <2>4. hand["inference"].stamp \notin BuffersInUse'
    BY <2>1, <2>2, FreedOnce
  <2> QED
    BY <2>1, <2>3, <2>4
<1>5. CASE /\ UNCHANGED <<queue["frame"], heap, hand["capture"], hand["inference"]>>
           /\ pc["capture"] = "pushing" <=> pc'["capture"] = "pushing"
           /\ pc'["inference"] = "inferring" => pc["inference"] = "inferring"
  BY <1>5 DEF BuffersInUse, Held, Holding
<1>6. CASE CaptureOpen \/ CaptureExit \/ CaptureReadFails
  <2>1. /\ UNCHANGED <<hand, queue, heap>> /\ pc["capture"] # "pushing"
        /\ pc'["capture"] # "pushing" /\ pc'["inference"] = pc["inference"]
    BY <1>0, <1>6, GotoFacts DEF CaptureOpen, CaptureExit, CaptureReadFails
  <2> QED
    BY <1>5, <2>1
<1>7. CASE InferenceTop \/ InferencePopNothing \/ InferenceSkip \/ InferencePush
  <2>1. /\ UNCHANGED <<heap, queue["frame"], hand["capture"]>>
        /\ \E p \in Places \ {"inferring"} : Goto("inference", p)
    BY <1>0, <1>7 DEF InferenceTop, InferencePopNothing, InferenceSkip, InferencePush,
       LoopTop, PopNothing, PushOrDrop
  <2>2. pc'["capture"] = pc["capture"] /\ pc'["inference"] # "inferring"
    BY <1>0, <2>1, GotoFacts
  <2> QED
    BY <2>1, <2>2 DEF BuffersInUse, Held, Holding
<1>8. CASE Tracking
  <2>1. /\ UNCHANGED <<heap, queue["frame"], hand["capture"], hand["inference"]>>
        /\ \E p \in Places : Goto("tracking", p)
    BY <1>0, <1>8 DEF Tracking, TrackingTop, TrackingPopNothing, TrackingPop, TrackingPush,
       LoopTop, PopNothing, PushOrDrop, Take
  <2> QED
    BY <1>0, <1>5, <2>1, GotoFacts
<1>9. CASE Output
  <2>1. /\ UNCHANGED <<heap, queue["frame"], hand["capture"], hand["inference"]>>
        /\ \E p \in Places : Goto("output", p)
    BY <1>0, <1>9 DEF Output, OutputStart, OutputTop, OutputPopNothing, OutputPop, OutputEmit,
       OutputFinish, OutputDisconnected, LoopTop, PopNothing, Take
  <2> QED
    BY <1>0, <1>5, <2>1, GotoFacts
<1>10. CASE Grpc
  <2>1. UNCHANGED <<heap, queue, hand>> /\ \E p \in Places : Goto("grpc", p)
    BY <1>10 DEF Grpc, GrpcStart, GrpcExit
  <2> QED
    BY <1>0, <1>5, <2>1, GotoFacts
<1>11. CASE Signal \/ Main \/ Returned \/ UNCHANGED vars
  BY <1>5, <1>11 DEF Signal, Main, FindDeadThread, LeavePolling, ShutQueue, JoinThread, Returned, vars
<1> QED
  BY <1>1, <1>2, <1>3, <1>4, <1>6, <1>7, <1>8, <1>9, <1>10, <1>11 DEF Next, Capture, Inference

(* A file frame still has its buffer when inference reads it, and no       *)
(* buffer is freed twice: each frame is freed once, after its last use.    *)
THEOREM PipelineNoDanglingBuffer == Spec => []NoDanglingBuffer
<1>1. Init => NoDanglingBuffer
  BY DEF Init, NoDanglingBuffer, BuffersInUse, Stamps, Queues
<1>2. TypeOK /\ OrderInv /\ [Next]_vars => OrderInv'
  BY OrderStep
<1> QED
  BY <1>1, <1>2, OrderInit, DanglingStep, PipelineTypes, PTL DEF Spec

(* Every stamp of a queue is the head's or behind it.                      *)
LEMMA StampsSplit ==
  ASSUME NEW s \in Seq(Frame), s # <<>>
  PROVE  Stamps(s) \subseteq {Head(s).stamp} \union Stamps(Tail(s))
<1> HIDE DEF Frame
<1>1. /\ Head(s) = s[1] /\ Len(s) \in Nat \ {0}
      /\ Len(Tail(s)) = Len(s) - 1
      /\ \A i \in 1..Len(Tail(s)) : Tail(s)[i] = s[i + 1]
  BY TakeType
<1> SUFFICES ASSUME NEW i \in 1..Len(s), i # 1
             PROVE  s[i].stamp \in Stamps(Tail(s))
  BY <1>1 DEF Stamps
<1>2. i - 1 \in 1..Len(Tail(s)) /\ (i - 1) + 1 = i
  BY <1>1
<1>3. Tail(s)[i - 1] = s[i]
  BY <1>1, <1>2
<1> QED
  BY <1>2, <1>3 DEF Stamps

(* A camera's frames lie in the driver's buffers: none is allocated.       *)
HeapKept == (~FileInput => heap = {}) /\ NoLeakedBuffer

(* What inference takes out of the queue it frees, on each of its ways     *)
(* out but one: the frame skipped for det_interval.                        *)
LEMMA LeakStep ==
  ASSUME FileInput => DetInterval = 1
  PROVE  TypeOK /\ HeapKept /\ [Next]_vars => HeapKept'
<1> SUFFICES ASSUME TypeOK, HeapKept, [Next]_vars
             PROVE  HeapKept'
  OBVIOUS
<1>0. /\ PlacesOK
      /\ hand \in [Stages -> Frame] /\ queue \in [Queues -> Seq(Frame)]
      /\ queue["frame"] \in Seq(Frame) /\ hand["capture"] \in Frame
  BY DEF TypeOK, QueuesOK, Queues, Stages
<1> USE DEF Stages, Queues, Places, Threads
<1>1. CASE CaptureRead
  <2>1. /\ UNCHANGED <<queue, shut>> /\ hand'["inference"] = hand["inference"]
        /\ pc["capture"] = "reading"
        /\ pc'["inference"] = pc["inference"] /\ pc'["capture"] = "pushing"
        /\ hand'["capture"].stamp = captured + 1
        /\ heap' = IF FileInput THEN heap \union {captured + 1} ELSE heap
    BY <1>0, <1>1, GotoFacts DEF CaptureRead
  <2> QED
    BY <2>1 DEF HeapKept, NoLeakedBuffer, BuffersInUse, Held, Holding
<1>2. CASE CapturePush
  <2>1. /\ "frame" \in shut \/ queue'["frame"] = Append(queue["frame"], hand["capture"])
        /\ hand'["inference"] = hand["inference"] /\ pc'["inference"] = pc["inference"]
        /\ pc["capture"] = "pushing" /\ pc'["capture"] = "reading" /\ UNCHANGED <<heap, shut>>
    BY <1>0, <1>2, GotoFacts DEF CapturePush
  <2>2. "frame" \in shut \/ Stamps(queue'["frame"]) = Stamps(queue["frame"]) \union {hand["capture"].stamp}
    BY <1>0, <2>1, StampsAppend
  <2> QED
    BY <2>1, <2>2 DEF HeapKept, NoLeakedBuffer, BuffersInUse, Held, Holding
<1>3. CASE InferencePop
  <2>1. /\ queue["frame"] # <<>> /\ queue'["frame"] = Tail(queue["frame"])
        /\ hand'["inference"] = Head(queue["frame"]) /\ pc'["inference"] = "inferring"
        /\ pc["inference"] = "popping"
        /\ hand'["capture"] = hand["capture"] /\ pc'["capture"] = pc["capture"]
        /\ UNCHANGED <<heap, shut>>
    BY <1>0, <1>3, GotoFacts DEF InferencePop, Take
  <2>2. Stamps(queue["frame"]) \subseteq {hand'["inference"].stamp} \union Stamps(queue'["frame"])
    BY <1>0, <2>1, StampsSplit
  <2> QED
    BY <2>1, <2>2 DEF HeapKept, NoLeakedBuffer, BuffersInUse, Held, Holding
<1>4. CASE InferenceFails \/ InferenceSucceeds
  <2>1. /\ pc["inference"] = "inferring" /\ heap' = heap \ {hand["inference"].stamp}
        /\ UNCHANGED <<queue, shut>>
        /\ hand'["capture"] = hand["capture"] /\ pc'["capture"] = pc["capture"]
    BY <1>0, <1>4, GotoFacts DEF InferenceFails, InferenceSucceeds, FreeHeld
  <2> QED
    BY <2>1 DEF HeapKept, NoLeakedBuffer, BuffersInUse, Held, Holding
<1>5. CASE /\ UNCHANGED <<queue["frame"], heap, shut, hand["capture"], hand["inference"]>>
           /\ pc["capture"] = "pushing" => pc'["capture"] = "pushing"
           /\ pc["inference"] = "inferring" => pc'["inference"] = "inferring"
  BY <1>5 DEF HeapKept, NoLeakedBuffer, BuffersInUse, Held, Holding
<1>6. CASE CaptureOpen \/ CaptureExit \/ CaptureReadFails
  <2>1. /\ UNCHANGED <<hand, queue, heap, shut>> /\ pc["capture"] # "pushing"
        /\ pc'["inference"] = pc["inference"]
    BY <1>0, <1>6, GotoFacts DEF CaptureOpen, CaptureExit, CaptureReadFails
  <2> QED
    BY <1>5, <2>1
<1>7. CASE InferenceTop \/ InferencePopNothing \/ InferencePush
  <2>1. /\ UNCHANGED <<heap, shut, queue["frame"], hand["capture"]>>
        /\ pc["inference"] # "inferring" /\ \E p \in Places : Goto("inference", p)
    BY <1>0, <1>7 DEF InferenceTop, InferencePopNothing, InferencePush,
       LoopTop, PopNothing, PushOrDrop
  <2>2. pc'["capture"] = pc["capture"]
    BY <1>0, <2>1, GotoFacts
  <2> QED
    BY <2>1, <2>2 DEF HeapKept, NoLeakedBuffer, BuffersInUse, Held, Holding
<1>8. CASE InferenceSkip
  <2>1. ~FileInput /\ UNCHANGED heap
    BY <1>8 DEF InferenceSkip, Detected
  <2> QED
    BY <2>1 DEF HeapKept, NoLeakedBuffer
<1>9. CASE Tracking
  <2>1. /\ UNCHANGED <<heap, shut, queue["frame"], hand["capture"], hand["inference"]>>
        /\ \E p \in Places : Goto("tracking", p)
    BY <1>0, <1>9 DEF Tracking, TrackingTop, TrackingPopNothing, TrackingPop, TrackingPush,
       LoopTop, PopNothing, PushOrDrop, Take
  <2> QED
    BY <1>0, <1>5, <2>1, GotoFacts
<1>10. CASE Output
  <2>1. /\ UNCHANGED <<heap, shut, queue["frame"], hand["capture"], hand["inference"]>>
        /\ \E p \in Places : Goto("output", p)
    BY <1>0, <1>10 DEF Output, OutputStart, OutputTop, OutputPopNothing, OutputPop, OutputEmit,
       OutputFinish, OutputDisconnected, LoopTop, PopNothing, Take
  <2> QED
    BY <1>0, <1>5, <2>1, GotoFacts
<1>11. CASE Grpc
  <2>1. UNCHANGED <<heap, shut, queue, hand>> /\ \E p \in Places : Goto("grpc", p)
    BY <1>11 DEF Grpc, GrpcStart, GrpcExit
  <2> QED
    BY <1>0, <1>5, <2>1, GotoFacts
<1>12. CASE ShutQueue
  <2>1. UNCHANGED heap /\ (queue["frame"] = queue'["frame"]) /\ shut \subseteq shut'
        /\ UNCHANGED <<hand, pc>>
    BY <1>12 DEF ShutQueue
  <2> QED
    BY <2>1 DEF HeapKept, NoLeakedBuffer, BuffersInUse, Held, Holding
<1>13. CASE Signal \/ FindDeadThread \/ LeavePolling \/ JoinThread \/ Returned \/ UNCHANGED vars
  BY <1>5, <1>13 DEF Signal, FindDeadThread, LeavePolling, JoinThread, Returned, vars
<1> QED
  BY <1>1, <1>2, <1>3, <1>4, <1>6, <1>7, <1>8, <1>9, <1>10, <1>11, <1>12, <1>13
     DEF Next, Capture, Inference, Main

(* No file buffer is lost on the way from capture to inference: until the  *)
(* frame queue is shut down, each one allocated is queued or in a thread's *)
(* hands.  With a file and an interval it is false, as a skipped frame     *)
(* is not freed.                                                           *)
THEOREM PipelineNoLeakedBuffer ==
  ASSUME FileInput => DetInterval = 1
  PROVE  Spec => []NoLeakedBuffer
<1>1. Init => HeapKept
  BY DEF Init, HeapKept, NoLeakedBuffer
<1>2. HeapKept => NoLeakedBuffer
  BY DEF HeapKept
<1>3. TypeOK /\ HeapKept /\ [Next]_vars => HeapKept'
  BY LeakStep
<1> QED
  BY <1>1, <1>2, <1>3, PipelineTypes, PTL DEF Spec
=============================================================================
