-------------------------------- MODULE MCParts --------------------------------
(***************************************************************************)
(* Four small parts, each checked by itself in one run: of the board's     *)
(* program the camera's buffers, the process with its service unit and the *)
(* MQTT reports, and of the desk's program the subscription to them.  A    *)
(* behaviour is one of one part, chosen at the start; the others stay as   *)
(* they begin.                                                             *)
(***************************************************************************)
EXTENDS Integers

CONSTANTS
  NumBuffers, Capacity,                                     \* V4l2Buffers
  Burst, Commands, MaxRequests, MaxFaults,                  \* ServiceUnit
  MAX_PENDING, BrokerUp, MayRefuse, LoopMayEnd, MaxMessages, MaxOutages, \* MqttPublisher
  Clients, Timers, Nothing, MaxCalls, MaxFlaps, MaxFired       \* MqttBridge

VARIABLES
  part,
  incoming, outgoing, current, queue, reader, fresh, user, frame, index, use,
  unit, job, proc, timer, starts, requests, faults, owed, stopped,
  client, online, _connected, _pending_queue, loop, out, message, outages,
  sent, dropped, refused,
  subscriber, connected, reconnect, intentional, link, threads, pc, at, broker,
  restarting, overlapped, calls, flaps

C == INSTANCE MCV4l2Buffers WITH Pipelined <- TRUE
U == INSTANCE ServiceUnit
M == INSTANCE MqttPublisher
B == INSTANCE MqttBridge WITH client <- subscriber, timer <- reconnect, loop <- threads

ASSUME PartsAssumption ==
  C!BuffersConstants /\ U!UnitConstants /\ M!MqttConstants /\ B!BridgeConstants

camera == <<incoming, outgoing, current, queue, reader, fresh, user, frame, index, use>>
service == <<unit, job, proc, timer, starts, requests, faults, owed, stopped>>
reports == <<client, online, _connected, _pending_queue, loop, out, message, outages,
             sent, dropped, refused>>
bridge == <<subscriber, connected, reconnect, intentional, link, threads, pc, at, broker,
            restarting, overlapped, calls, flaps>>
all == <<part, camera, service, reports, bridge>>

Init ==
  /\ part \in {"camera", "service", "reports", "bridge"}
  /\ U!Init /\ M!Init
  /\ C!MCInit /\ (part # "camera" => use = "loop")
  /\ B!Init /\ (part # "bridge" => broker = "up")

Next ==
  /\ UNCHANGED part
  /\ \/ part = "camera" /\ C!MCNext /\ UNCHANGED <<service, reports, bridge>>
     \/ part = "service" /\ U!Next /\ UNCHANGED <<camera, reports, bridge>>
     \/ part = "reports" /\ M!Next /\ UNCHANGED <<camera, service, bridge>>
     \/ part = "bridge" /\ B!Next /\ UNCHANGED <<camera, service, reports>>

(* The fairness of each part, while the behaviour is one of it.  Nothing   *)
(* that must happen is asked of the camera here.                           *)
Fairness ==
  /\ WF_service(part = "service" /\ U!Systemd)
  /\ WF_service(part = "service" /\ U!Process)
  /\ WF_reports(part = "reports" /\ M!Library)
  /\ WF_reports(part = "reports" /\ M!Output)
  /\ WF_reports(part = "reports" /\ M!Reconnect)
  /\ WF_bridge(part = "bridge" /\ B!User)
  /\ WF_bridge(part = "bridge" /\ B!BrokerChanges("up"))
  /\ \A t \in Timers : WF_bridge(part = "bridge" /\ B!Reconnect(t))
  /\ \A c \in Clients : WF_bridge(part = "bridge" /\ B!Network(c))

Spec == Init /\ [][Next]_all /\ Fairness

-----------------------------------------------------------------------------
(* V4l2Buffers: no buffer is queued twice although two threads share       *)
(* _current_buf_index; in the documented loop a frame keeps its buffer     *)
(* until it is released (v4l2_capture.cpp:230).                            *)
BuffersKept == C!NoDoubleQueue /\ C!LoopKeepsBuffers

(* ServiceUnit: a stopped unit stays so until it is started, and an        *)
(* unclean end is followed by a process that runs, unless the start limit  *)
(* or the administrator prevents it (the unit file, line 58).              *)
StopIsFinal == U!StopIsFinal
FaultComesBack == U!FaultComesBack

(* MqttPublisher: nothing is reported twice, the buffer keeps its order,   *)
(* and a message that is neither sent nor buffered met one of the two      *)
(* limits of the code (mqtt_publisher.cpp:193 and :201).                   *)
ReportsKept == M!SentOnce /\ M!BufferInOrder /\ M!Accounted

(* MqttPublisher: a flush that has begun goes on until the buffer is empty,*)
(* or until the library refuses a message.                                 *)
FlushHandsOver == M!FlushHandsOver

(* MqttBridge: a bridge that the user stopped, with no reconnect under way,*)
(* has no network thread, no socket and no way to get one; one that is not *)
(* stopped is in the end connected, and says so.                           *)
StopIsQuiet == B!StopIsQuiet
Recovers == B!Recovers
=============================================================================
