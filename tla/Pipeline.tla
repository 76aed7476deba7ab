------------------------------- MODULE Pipeline -------------------------------
(***************************************************************************)
(* edge/src/pipeline/pipeline.cpp: pipeline_run and its five threads.      *)
(*                                                                         *)
(*   capture --frame--> inference --detect--> tracking --track--> output   *)
(*                                                                         *)
(* The three queues are used in the atomic form of BoundedChannel, which   *)
(* ThreadSafeQueue implements: push_or_wait on the frame queue, push (drop *)
(* when full) on the other two.  g_running is the only stop signal: each   *)
(* thread tests it at the top of its loop, and pipeline_run, once it is    *)
(* false, shuts the queues down one by one and joins the threads.          *)
(*                                                                         *)
(* A frame is its stamp (its number among all the frames ever captured)    *)
(* and its phase, frame.index modulo det_interval; pixels, boxes and       *)
(* tracks are left out.                                                    *)
(***************************************************************************)
EXTENDS Integers, Sequences

CONSTANTS
  Capacity,      \* cfg.system.queue_max_size
  DetInterval,   \* cfg.inference.det_interval
  FileInput,     \* TRUE: video file or RTSP stream; FALSE: V4L2 camera
  GrpcEnabled,   \* cfg.grpc.enabled
  MaxFrames      \* bound: frames the input delivers

ASSUME PipelineAssumption ==
  /\ Capacity \in Nat \ {0}
  /\ DetInterval \in Nat \ {0}
  /\ FileInput \in BOOLEAN
  /\ GrpcEnabled \in BOOLEAN
  /\ MaxFrames \in Nat

VARIABLES
  running,       \* g_running
  main,          \* where pipeline_run is
  step,          \* which queue it shuts down, which thread it joins, next
  shut,          \* the queues that have been shut down
  queue,         \* frame_queue, detect_queue, track_queue
  pc,            \* where each thread is
  hand,          \* the frame each thread works on
  frameIdx,      \* frame_idx of the capture thread, modulo DetInterval
  captured,      \* history: stamp of the last frame captured
  taken,         \* history: stamp of the last frame inference popped
  emitted,       \* history: stamp of the last frame output handled
  heap           \* stamps of the frames whose file buffer is allocated

vars == <<running, main, step, shut, queue, pc, hand, frameIdx,
          captured, taken, emitted, heap>>

Threads == {"capture", "inference", "tracking", "output", "grpc"}
Queues == {"frame", "detect", "track"}
Stages == {"capture", "inference", "tracking", "output"}

\* Mutant of ShutOrder: the frame queue is not shut down.
ShutOrderWithoutFrame == <<"detect", "track">>

Places == {"starting", "opening", "reading", "looping", "popping", "inferring",
           "pushing", "emitting", "finishing", "disconnecting", "stopped"}

(* pipeline_run shuts the queues down and joins the threads in this order. *)
ShutOrder == <<"frame", "detect", "track">>
JoinOrder == <<"grpc", "output", "tracking", "inference", "capture">>

Frame == [stamp : 0..MaxFrames, phase : 0..DetInterval - 1]
NoFrame == [stamp |-> 0, phase |-> 0]

-----------------------------------------------------------------------------
Goto(t, place) == pc' = [pc EXCEPT ![t] = place]

HasRoom(q) == Len(queue[q]) < Capacity

\* Mutant of Take: the newest frame first.
TakeNewest(t, q) ==
  /\ queue[q] # <<>>
  /\ hand' = [hand EXCEPT ![t] = queue[q][Len(queue[q])]]
  /\ queue' = [queue EXCEPT ![q] = SubSeq(@, 1, Len(@) - 1)]

(* pop returns an item whenever there is one, shut down or not, ...        *)
Take(t, q) ==
  /\ queue[q] # <<>>
  /\ hand' = [hand EXCEPT ![t] = Head(queue[q])]
  /\ queue' = [queue EXCEPT ![q] = Tail(@)]

(* ... and false only from a queue that is shut down and empty.            *)
PopFails(q) == queue[q] = <<>> /\ q \in shut

(* push: appends, or drops the frame when the queue is full.               *)
PushOrDrop(t, q) ==
  /\ queue' = IF HasRoom(q)
              THEN [queue EXCEPT ![q] = Append(@, hand[t])]
              ELSE queue
  /\ hand' = [hand EXCEPT ![t] = NoFrame]

Init ==
  /\ running = TRUE
  /\ main = "polling"
  /\ step = 1
  /\ shut = {}
  /\ queue = [q \in Queues |-> <<>>]
  /\ pc = [capture   |-> "opening",
           inference |-> "looping",
           tracking  |-> "looping",
           output    |-> "starting",
           grpc      |-> IF GrpcEnabled THEN "starting" ELSE "stopped"]
  /\ hand = [t \in Stages |-> NoFrame]
  /\ frameIdx = 0
  /\ captured = 0
  /\ taken = 0
  /\ emitted = 0
  /\ heap = {}

-----------------------------------------------------------------------------
(* capture_thread_func: the input is opened before the loop; if that       *)
(* fails the thread stops the whole pipeline.                              *)
CaptureOpen ==
  /\ pc["capture"] = "opening"
  /\ \/ Goto("capture", "reading") /\ UNCHANGED running
     \/ Goto("capture", "stopped") /\ running' = FALSE
  /\ UNCHANGED <<main, step, shut, queue, hand, frameIdx, captured,
                 taken, emitted, heap>>

NextIdx == (frameIdx + 1) % DetInterval

(* One frame read; a file frame comes in a buffer of its own.              *)
CaptureRead ==
  /\ pc["capture"] = "reading"
  /\ running
  /\ captured < MaxFrames
  /\ captured' = captured + 1
  /\ hand' = [hand EXCEPT !["capture"] =
                [stamp |-> captured + 1, phase |-> frameIdx]]
  /\ frameIdx' = NextIdx
  /\ heap' = IF FileInput THEN heap \union {captured + 1} ELSE heap
  /\ Goto("capture", "pushing")
  /\ UNCHANGED <<running, main, step, shut, queue, taken, emitted>>

(* frame_idx++ comes before read_frame: a camera that has no frame ready   *)
(* uses up an index.  A file that ends is reopened and counted from 0; if  *)
(* it cannot be reopened the thread stops the pipeline.                    *)
CaptureReadFails ==
  /\ pc["capture"] = "reading"
  /\ running
  /\ \/ /\ ~FileInput
        /\ frameIdx' = NextIdx
        /\ UNCHANGED <<running, pc>>
     \/ /\ FileInput
        /\ frameIdx' = 0
        /\ UNCHANGED <<running, pc>>
     \/ /\ FileInput
        /\ frameIdx' = NextIdx
        /\ running' = FALSE
        /\ Goto("capture", "stopped")
  /\ UNCHANGED <<main, step, shut, queue, hand, captured, taken,
                 emitted, heap>>

\* Mutant of CapturePush: a full queue drops the frame, as push does.
CapturePushDrops ==
  /\ pc["capture"] = "pushing"
  /\ PushOrDrop("capture", "frame")
  /\ Goto("capture", "reading")
  /\ UNCHANGED <<running, main, step, shut, frameIdx, captured, taken, emitted,
                 heap>>

\* Mutant of CapturePush: the capture thread frees the buffer it handed over.
CapturePushFrees ==
  /\ pc["capture"] = "pushing"
  /\ PushOrDrop("capture", "frame")
  /\ heap' = heap \ {hand["capture"].stamp}
  /\ Goto("capture", "reading")
  /\ UNCHANGED <<running, main, step, shut, frameIdx, captured, taken, emitted>>

(* push_or_wait on the frame queue.                                        *)
CapturePush ==
  /\ pc["capture"] = "pushing"
  /\ \/ /\ "frame" \notin shut
        /\ HasRoom("frame")
        /\ queue' = [queue EXCEPT !["frame"] = Append(@, hand["capture"])]
     \/ /\ "frame" \in shut
        /\ UNCHANGED queue
  /\ hand' = [hand EXCEPT !["capture"] = NoFrame]
  /\ Goto("capture", "reading")
  /\ UNCHANGED <<running, main, step, shut, frameIdx, captured,
                 taken, emitted, heap>>

(* The loop ends and the thread closes the device by itself.               *)
CaptureExit ==
  /\ pc["capture"] = "reading"
  /\ ~running
  /\ Goto("capture", "stopped")
  /\ UNCHANGED <<running, main, step, shut, queue, hand, frameIdx,
                 captured, taken, emitted, heap>>

Capture == CaptureOpen \/ CaptureRead \/ CaptureReadFails \/ CapturePush \/ CaptureExit
-----------------------------------------------------------------------------
(* The top of the loop of a queue consumer: stop, or go and pop.           *)
LoopTop(t, exit) ==
  /\ pc[t] = "looping"
  /\ Goto(t, IF running THEN "popping" ELSE exit)
  /\ UNCHANGED <<running, main, step, shut, queue, hand, frameIdx,
                 captured, taken, emitted, heap>>

(* pop returned false: usleep and back to the top of the loop.             *)
PopNothing(t, q) ==
  /\ pc[t] = "popping"
  /\ PopFails(q)
  /\ Goto(t, "looping")
  /\ UNCHANGED <<running, main, step, shut, queue, hand, frameIdx,
                 captured, taken, emitted, heap>>

InferenceTop == LoopTop("inference", "stopped")
InferencePopNothing == PopNothing("inference", "frame")

InferencePop ==
  /\ pc["inference"] = "popping"
  /\ Take("inference", "frame")
  /\ taken' = Head(queue["frame"]).stamp
  /\ Goto("inference", "inferring")
  /\ UNCHANGED <<running, main, step, shut, frameIdx, captured,
                 emitted, heap>>

Detected(frame) == DetInterval = 1 \/ frame.phase = 0

(* det_interval: the frame is let go; its camera buffer is released, its   *)
(* file buffer is not freed.                                               *)
InferenceSkip ==
  /\ pc["inference"] = "inferring"
  /\ ~Detected(hand["inference"])
  /\ hand' = [hand EXCEPT !["inference"] = NoFrame]
  /\ Goto("inference", "looping")
  /\ UNCHANGED <<running, main, step, shut, queue, frameIdx,
                 captured, taken, emitted, heap>>

FreeHeld == heap' = heap \ {hand["inference"].stamp}

\* Mutant of InferenceFails: the buffer of a frame that failed is not freed.
InferenceFailsLeaks ==
  /\ pc["inference"] = "inferring"
  /\ Detected(hand["inference"])
  /\ hand' = [hand EXCEPT !["inference"] = NoFrame]
  /\ Goto("inference", "looping")
  /\ UNCHANGED <<running, main, step, shut, queue, frameIdx, captured, taken,
                 emitted, heap>>

\* Mutant of InferenceFails: a failed inference ends the loop (break, not
\* continue).
InferenceFailsEndsLoop ==
  /\ pc["inference"] = "inferring"
  /\ Detected(hand["inference"])
  /\ FreeHeld
  /\ hand' = [hand EXCEPT !["inference"] = NoFrame]
  /\ Goto("inference", "stopped")
  /\ UNCHANGED <<running, main, step, shut, queue, frameIdx, captured, taken,
                 emitted>>

(* No engine, or inference() < 0.                                          *)
InferenceFails ==
  /\ pc["inference"] = "inferring"
  /\ Detected(hand["inference"])
  /\ FreeHeld
  /\ hand' = [hand EXCEPT !["inference"] = NoFrame]
  /\ Goto("inference", "looping")
  /\ UNCHANGED <<running, main, step, shut, queue, frameIdx,
                 captured, taken, emitted>>

(* inference() >= 0: the pixels are copied, then the input buffer goes.    *)
InferenceSucceeds ==
  /\ pc["inference"] = "inferring"
  /\ Detected(hand["inference"])
  /\ FreeHeld
  /\ Goto("inference", "pushing")
  /\ UNCHANGED <<running, main, step, shut, queue, hand, frameIdx,
                 captured, taken, emitted>>

InferencePush ==
  /\ pc["inference"] = "pushing"
  /\ PushOrDrop("inference", "detect")
  /\ Goto("inference", "looping")
  /\ UNCHANGED <<running, main, step, shut, frameIdx, captured,
                 taken, emitted, heap>>

Inference == \/ InferenceTop \/ InferencePopNothing \/ InferencePop
             \/ InferenceSkip \/ InferenceFails \/ InferenceSucceeds
             \/ InferencePush

-----------------------------------------------------------------------------
TrackingTop == LoopTop("tracking", "stopped")
TrackingPopNothing == PopNothing("tracking", "detect")

TrackingPop ==
  /\ pc["tracking"] = "popping"
  /\ Take("tracking", "detect")
  /\ Goto("tracking", "pushing")
  /\ UNCHANGED <<running, main, step, shut, frameIdx, captured,
                 taken, emitted, heap>>

TrackingPush ==
  /\ pc["tracking"] = "pushing"
  /\ PushOrDrop("tracking", "track")
  /\ Goto("tracking", "looping")
  /\ UNCHANGED <<running, main, step, shut, frameIdx, captured,
                 taken, emitted, heap>>

Tracking == TrackingTop \/ TrackingPopNothing \/ TrackingPop \/ TrackingPush

-----------------------------------------------------------------------------
(* MQTT, encoder, RTSP and sensors are set up before the loop.             *)
OutputStart ==
  /\ pc["output"] = "starting"
  /\ Goto("output", "looping")
  /\ UNCHANGED <<running, main, step, shut, queue, hand, frameIdx,
                 captured, taken, emitted, heap>>

OutputTop == LoopTop("output", "finishing")
OutputPopNothing == PopNothing("output", "track")

OutputPop ==
  /\ pc["output"] = "popping"
  /\ Take("output", "track")
  /\ Goto("output", "emitting")
  /\ UNCHANGED <<running, main, step, shut, frameIdx, captured,
                 taken, emitted, heap>>

(* Publishing, recording, streaming.                                       *)
OutputEmit ==
  /\ pc["output"] = "emitting"
  /\ emitted' = hand["output"].stamp
  /\ hand' = [hand EXCEPT !["output"] = NoFrame]
  /\ Goto("output", "looping")
  /\ UNCHANGED <<running, main, step, shut, queue, frameIdx,
                 captured, taken, heap>>

(* Recording, RTSP and sensors are closed after the loop, and the MQTT     *)
(* client, if there is one, is disconnected.                               *)
OutputFinish ==
  /\ pc["output"] = "finishing"
  /\ \E place \in {"disconnecting", "stopped"} : Goto("output", place)
  /\ UNCHANGED <<running, main, step, shut, queue, hand, frameIdx,
                 captured, taken, emitted, heap>>

(* disconnect comes back.  It first waits for the client's network thread  *)
(* (loop_stop without force) and only then tells the client to disconnect, *)
(* which is what would end that thread: nothing says that it does.         *)
OutputDisconnected ==
  /\ pc["output"] = "disconnecting"
  /\ Goto("output", "stopped")
  /\ UNCHANGED <<running, main, step, shut, queue, hand, frameIdx,
                 captured, taken, emitted, heap>>

Output == \/ OutputStart \/ OutputTop \/ OutputPopNothing \/ OutputPop
          \/ OutputEmit \/ OutputFinish \/ OutputDisconnected

-----------------------------------------------------------------------------
(* grpc_server_thread_func: start the server, sleep while running, stop.   *)
GrpcStart ==
  /\ pc["grpc"] = "starting"
  /\ Goto("grpc", "looping")
  /\ UNCHANGED <<running, main, step, shut, queue, hand, frameIdx,
                 captured, taken, emitted, heap>>

GrpcExit ==
  /\ pc["grpc"] = "looping"
  /\ ~running
  /\ Goto("grpc", "stopped")
  /\ UNCHANGED <<running, main, step, shut, queue, hand, frameIdx,
                 captured, taken, emitted, heap>>

Grpc == GrpcStart \/ GrpcExit

-----------------------------------------------------------------------------
(* SIGTERM, SIGINT and SIGHUP, at any time.  g_shutdown_requested is set   *)
(* with g_running and only repeats it: pipeline_run, when it sees it,      *)
(* clears g_running once more.                                             *)
Signal ==
  /\ main # "returned"
  /\ running' = FALSE
  /\ UNCHANGED <<main, step, shut, queue, pc, hand, frameIdx, captured, taken,
                 emitted, heap>>

(* The main thread finds a stale heartbeat (ThreadWatchdog says when).     *)
FindDeadThread ==
  /\ main = "polling"
  /\ running' = FALSE
  /\ UNCHANGED <<main, step, shut, queue, pc, hand, frameIdx,
                 captured, taken, emitted, heap>>

(* The polling loop ends when g_running is false.                          *)
LeavePolling ==
  /\ main = "polling"
  /\ ~running
  /\ main' = "shutting"
  /\ UNCHANGED <<running, step, shut, queue, pc, hand, frameIdx,
                 captured, taken, emitted, heap>>

ShutQueue ==
  /\ main = "shutting"
  /\ shut' = shut \union {ShutOrder[step]}
  /\ IF step < Len(ShutOrder)
     THEN step' = step + 1 /\ UNCHANGED main
     ELSE step' = 1 /\ main' = "joining"
  /\ UNCHANGED <<running, queue, pc, hand, frameIdx, captured,
                 taken, emitted, heap>>

JoinThread ==
  /\ main = "joining"
  /\ pc[JoinOrder[step]] = "stopped"
  /\ IF step < Len(JoinOrder)
     THEN step' = step + 1 /\ UNCHANGED main
     ELSE step' = 1 /\ main' = "returned"
  /\ UNCHANGED <<running, shut, queue, pc, hand, frameIdx,
                 captured, taken, emitted, heap>>

Main == FindDeadThread \/ LeavePolling \/ ShutQueue \/ JoinThread

(* The process is gone: the one state in which nothing more may happen.    *)
Returned ==
  /\ main = "returned"
  /\ UNCHANGED vars

Next == \/ Capture \/ Inference \/ Tracking \/ Output \/ Grpc
        \/ Signal \/ Main \/ Returned

(* Every thread keeps being scheduled; the calls it makes outside the      *)
(* queues (open, read, infer, publish, stop) return, all but disconnect    *)
(* (OutputDisconnected).  Frames need not come (CaptureRead), nobody has   *)
(* to send a signal and no thread has to die.                              *)
Fairness ==
  /\ WF_vars(CaptureOpen) /\ WF_vars(CapturePush) /\ WF_vars(CaptureExit)
  /\ WF_vars(Inference)
  /\ WF_vars(Tracking)
  /\ WF_vars(Output /\ pc["output"] # "disconnecting")
  /\ WF_vars(Grpc)
  /\ WF_vars(LeavePolling \/ ShutQueue \/ JoinThread)

Spec == Init /\ [][Next]_vars
FairSpec == Spec /\ Fairness

-----------------------------------------------------------------------------
(* Where each thread, and pipeline_run, can be.                            *)
PlacesOK ==
  /\ pc \in [Threads -> Places]
  /\ pc["capture"] \in {"opening", "reading", "pushing", "stopped"}
  /\ pc["inference"] \in {"looping", "popping", "inferring", "pushing", "stopped"}
  /\ pc["tracking"] \in {"looping", "popping", "pushing", "stopped"}
  /\ pc["output"] \in {"starting", "looping", "popping", "emitting",
                       "finishing", "disconnecting", "stopped"}
  /\ pc["grpc"] \in {"starting", "looping", "stopped"}

ControlOK ==
  /\ running \in BOOLEAN
  /\ main \in {"polling", "shutting", "joining", "returned"}
  /\ step \in 1..(IF main = "shutting" THEN 3 ELSE IF main = "joining" THEN 5 ELSE 1)
  /\ shut \subseteq Queues

(* The queues stay within queue_max_size.                                  *)
QueuesOK ==
  /\ queue \in [Queues -> Seq(Frame)]
  /\ \A q \in Queues : Len(queue[q]) <= Capacity
  /\ hand \in [Stages -> Frame]

CountersOK ==
  /\ frameIdx \in 0..DetInterval - 1
  /\ captured \in 0..MaxFrames
  /\ taken \in 0..MaxFrames
  /\ emitted \in 0..MaxFrames
  /\ heap \subseteq 1..MaxFrames

(* Types and bounds.                                                       *)
TypeOK == PlacesOK /\ ControlOK /\ QueuesOK /\ CountersOK

(* Capture to inference loses nothing and keeps the order while the queue  *)
(* is open: the frames between the last one inference took and the last    *)
(* one captured are, without a gap, the queued ones and the one in the     *)
(* capture thread's hand (ARCHITECTURE.md:141, pipeline.cpp:233).          *)
CaptureLossless ==
  "frame" \notin shut =>
    /\ \A i \in 1..Len(queue["frame"]) : queue["frame"][i].stamp = taken + i
    /\ captured = taken + Len(queue["frame"])
                  + (IF pc["capture"] = "pushing" THEN 1 ELSE 0)
    /\ pc["capture"] = "pushing" => hand["capture"].stamp = captured

(* The stamps of the frames in a queue, and of the one a thread works on.  *)
Stamps(frames) == {frames[i].stamp : i \in 1..Len(frames)}
Holding(t) == pc[t] \in {"pushing", "inferring", "emitting"}
Held(t) == IF Holding(t) THEN {hand[t].stamp} ELSE {}

(* The frames in the pipeline from its mouth to its end, and the last one  *)
(* that left it.                                                           *)
Line == << Held("capture"), Stamps(queue["frame"]), Held("inference"),
           Stamps(queue["detect"]), Held("tracking"), Stamps(queue["track"]),
           Held("output"), {emitted} >>

Increasing(frames) ==
  \A i, j \in 1..Len(frames) : i < j => frames[i].stamp < frames[j].stamp

Ordered(line) ==
  \A i, j \in 1..8 : i < j => \A x \in line[i], y \in line[j] : x > y

(* No frame overtakes another or is delivered twice, whatever is dropped   *)
(* on the way: the stamps decrease strictly along the pipeline, and each   *)
(* queue is in order, through shutdown too.                                *)
InOrder ==
  /\ Ordered(Line)
  /\ \A q \in Queues : Increasing(queue[q])

(* File input: a frame whose buffer inference is still going to read has   *)
(* it, and a buffer that is allocated belongs to a frame still on its way  *)
(* to inference: freed once, never early, never leaked.                    *)
BuffersInUse == (IF pc["capture"] = "pushing" THEN Held("capture") ELSE {})
                \union Stamps(queue["frame"])
                \union (IF pc["inference"] = "inferring" THEN Held("inference") ELSE {})

NoDanglingBuffer == FileInput => BuffersInUse \subseteq heap
NoLeakedBuffer == "frame" \notin shut => heap \subseteq BuffersInUse

(* pipeline_run returns, and destroys the queues and the engine its        *)
(* threads use, only when all of them have stopped.                        *)
ReturnsLast ==
  main = "returned" => \A t \in Threads : pc[t] = "stopped"

(* All that pipeline_run still waits for is MqttPublisher::disconnect.     *)
OnlyDisconnectLeft ==
  /\ main = "joining" /\ JoinOrder[step] = "output"
  /\ pc["output"] = "disconnecting"
  /\ \A t \in Threads \ {"output"} : pc[t] = "stopped"

(* However the pipeline is stopped - a signal, a dead thread, an input     *)
(* that cannot be opened - no thread stays blocked on a queue, neither a   *)
(* producer before a full one nor a consumer before an empty one:          *)
(* pipeline_run returns, unless the MQTT client's disconnect does not; and *)
(* when that comes back, however late, pipeline_run returns too.           *)
ShutdownCompletes == ~running ~> (main = "returned" \/ OnlyDisconnectLeft)

(* While the pipeline runs no frame is stuck in a queue: its consumer      *)
(* keeps taking what is there, whatever inference says of the frames.      *)
QueuesDrain ==
  \A q \in Queues : (queue[q] # <<>>) ~> (queue[q] = <<>> \/ ~running)

(* det_interval (pipeline_config.h:43, "detect every n-th frame"): of      *)
(* det_interval consecutive frames given to inference one is detected.     *)
OneInInterval ==
  \A i \in 0..Len(queue["frame"]) - DetInterval :
    \E j \in 1..DetInterval : Detected(queue["frame"][i + j])

(* "Local cache when the queue is full" (ARCHITECTURE.md:143): a tracking  *)
(* result is never discarded between tracking and output.                  *)
TrackResultsKept ==
  [][TrackingPush => Len(queue'["track"]) = Len(queue["track"]) + 1]_vars

(* "Five layers released in reverse order", capture last (pipeline.cpp:870 *)
(* and :894): the camera is not closed, and its buffers are not unmapped,  *)
(* while inference works on a frame that lies in them.                     *)
CameraOutlivesInference ==
  ~FileInput => ~(pc["capture"] = "stopped" /\ pc["inference"] = "inferring")
=============================================================================
