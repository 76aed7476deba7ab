----------------------------- MODULE MqttPublisher -----------------------------
(***************************************************************************)
(* edge/src/comm/mqtt_publisher.cpp: reporting detections to the broker,   *)
(* with a buffer for the time without a connection.                        *)
(*                                                                         *)
(* Two threads: the output thread of the pipeline, which publishes, and    *)
(* the thread of libmosquitto, which runs the callbacks.  The flag         *)
(* _connected is tested without a lock; _pending_mutex protects the buffer *)
(* and is held through a whole flush.  Messages are numbered in the order  *)
(* they are published.  A message the library has accepted is its business *)
(* (QoS 1); it may refuse one, for want of a connection, of memory or for  *)
(* any other reason it has.                                                *)
(***************************************************************************)
EXTENDS Integers, Sequences, SequencesExt

CONSTANTS
  MAX_PENDING,
  BrokerUp,       \* the broker can be reached when connect is called
  MayRefuse,      \* mosquitto_publish may fail
  LoopMayEnd,     \* the library's thread may give up for good
  MaxMessages, MaxOutages     \* bounds

(* What the constants have to be.                                         *)
MqttConstants ==
  /\ MAX_PENDING \in Nat \ {0}
  /\ {BrokerUp, MayRefuse, LoopMayEnd} \subseteq BOOLEAN
  /\ MaxMessages \in Nat /\ MaxOutages \in Nat

VARIABLES
  client,       \* _mosq: "null", "set"
  online,       \* there is a connection to the broker
  _connected,   \* what the callbacks have noted of it
  _pending_queue,
  loop,         \* the library's thread: where it is
  out,          \* the output thread: where it is
  message,      \* the last message it has made
  outages,
  \* history
  sent,         \* messages accepted by the library, in order
  dropped,      \* messages dropped because the buffer was full
  refused       \* messages refused by the library

history == <<sent, dropped, refused>>
vars == <<client, online, _connected, _pending_queue, loop, out, message,
          outages, history>>

Init ==
  /\ client = "null" /\ online = FALSE /\ _connected = FALSE
  /\ _pending_queue = <<>>
  /\ loop = "none" /\ out = "connecting"
  /\ message = 0 /\ outages = 0
  /\ sent = <<>> /\ dropped = {} /\ refused = {}

-----------------------------------------------------------------------------
(* connect: without a broker the client is destroyed and nothing is tried  *)
(* again; else the library's thread is started.                            *)
Connect ==
  /\ out = "connecting"
  /\ out' = "ready"
  /\ IF BrokerUp
     THEN client' = "set" /\ loop' = "idle" /\ online' = TRUE
     ELSE UNCHANGED <<client, loop, online>>
  /\ UNCHANGED <<_connected, _pending_queue, message, outages, history>>

(* The connection breaks; the library connects again (reconnect_delay).    *)
Break ==
  /\ online
  /\ outages < MaxOutages
  /\ online' = FALSE
  /\ outages' = outages + 1
  /\ UNCHANGED <<client, _connected, _pending_queue, loop, out, message, history>>
Reconnect ==
  /\ loop = "idle" /\ ~online /\ ~_connected
  /\ online' = TRUE
  /\ UNCHANGED <<client, _connected, _pending_queue, loop, out, message, outages, history>>

(* on_connect: the flag, then flush_pending_messages, then the             *)
(* subscription.                                                           *)
OnConnect ==
  /\ loop = "idle" /\ online /\ ~_connected
  /\ _connected' = TRUE
  /\ loop' = "on_connect"
  /\ UNCHANGED <<client, online, _pending_queue, out, message, outages, history>>
BeginFlush ==
  /\ loop = "on_connect"
  /\ loop' = "flushing"
  /\ UNCHANGED <<client, online, _connected, _pending_queue, out, message, outages, history>>

\* Mutant of FlushOne: the message is not taken off before the next is sent.
FlushKeeps ==
  /\ loop = "flushing"
  /\ _pending_queue # <<>>
  /\ sent' = Append(sent, Head(_pending_queue))
  /\ _pending_queue' = Append(Tail(_pending_queue), Head(_pending_queue))
  /\ loop' = "idle"
  /\ UNCHANGED <<client, online, _connected, out, message, outages, dropped, refused>>

\* Mutant of FlushOne: the buffer is cleared after the first message.
FlushClears ==
  /\ loop = "flushing"
  /\ _pending_queue # <<>>
  /\ sent' = Append(sent, Head(_pending_queue))
  /\ _pending_queue' = <<>>
  /\ UNCHANGED <<client, online, _connected, loop, out, message, outages, dropped, refused>>

\* Mutant of FlushOne: only the first message is sent.
FlushFirst ==
  /\ loop = "flushing"
  /\ _pending_queue # <<>>
  /\ sent' = Append(sent, Head(_pending_queue))
  /\ _pending_queue' = Tail(_pending_queue)
  /\ loop' = "idle"
  /\ UNCHANGED <<client, online, _connected, out, message, outages, dropped, refused>>

(* The front is taken off when the library has accepted it; a failure, of  *)
(* whatever kind, breaks the flush off and keeps the rest.                 *)
FlushOne ==
  /\ loop = "flushing"
  /\ _pending_queue # <<>>
  /\ \/ /\ sent' = Append(sent, Head(_pending_queue))
        /\ _pending_queue' = Tail(_pending_queue)
        /\ UNCHANGED loop
     \/ /\ MayRefuse
        /\ loop' = "broken_off"
        /\ UNCHANGED <<sent, _pending_queue>>
  /\ UNCHANGED <<client, online, _connected, out, message, outages, dropped, refused>>
EndFlush ==
  /\ loop = "broken_off" \/ (loop = "flushing" /\ _pending_queue = <<>>)
  /\ loop' = "idle"
  /\ UNCHANGED <<client, online, _connected, _pending_queue, out, message, outages, history>>

OnDisconnect ==
  /\ loop = "idle" /\ ~online /\ _connected
  /\ _connected' = FALSE
  /\ UNCHANGED <<client, online, _pending_queue, loop, out, message, outages, history>>

-----------------------------------------------------------------------------
(* publish_detections: a message is made and the flag tested.              *)
Publish ==
  /\ out = "ready"
  /\ message < MaxMessages
  /\ message' = message + 1
  /\ out' = IF client = "null" THEN "ready" ELSE IF _connected THEN "publishing" ELSE "buffering"
  /\ UNCHANGED <<client, online, _connected, _pending_queue, loop, outages, history>>

\* Mutant of Buffer: the message goes to the front.
BufferAtFront ==
  /\ out = "buffering"
  /\ loop \notin {"flushing", "broken_off"}
  /\ IF Len(_pending_queue) < MAX_PENDING
     THEN _pending_queue' = <<message>> \o _pending_queue /\ UNCHANGED dropped
     ELSE dropped' = dropped \union {message} /\ UNCHANGED _pending_queue
  /\ out' = "ready"
  /\ UNCHANGED <<client, online, _connected, loop, message, outages, sent, refused>>

(* Under _pending_mutex, hence not during a flush.                         *)
Buffer ==
  /\ out = "buffering"
  /\ loop \notin {"flushing", "broken_off"}
  /\ IF Len(_pending_queue) < MAX_PENDING
     THEN _pending_queue' = Append(_pending_queue, message) /\ UNCHANGED dropped
     ELSE dropped' = dropped \union {message} /\ UNCHANGED _pending_queue
  /\ out' = "ready"
  /\ UNCHANGED <<client, online, _connected, loop, message, outages, sent, refused>>

(* mosquitto_publish: a failure is returned and the message given up.      *)
Send ==
  /\ out = "publishing"
  /\ \/ sent' = Append(sent, message) /\ UNCHANGED refused
     \/ MayRefuse /\ refused' = refused \union {message} /\ UNCHANGED sent
  /\ out' = "ready"
  /\ UNCHANGED <<client, online, _connected, _pending_queue, loop, message, outages, dropped>>

(* disconnect, when the pipeline stops: mosquitto_loop_stop waits for the  *)
(* library's thread to end.  mosquitto_disconnect, which ends it, comes    *)
(* after that; otherwise it ends only when the library gives up on an      *)
(* error it cannot handle.                                                 *)
Disconnect ==
  /\ out = "ready"
  /\ out' = IF client = "null" THEN "stopped" ELSE "joining"
  /\ UNCHANGED <<client, online, _connected, _pending_queue, loop, message, outages, history>>
LoopGivesUp ==
  /\ LoopMayEnd
  /\ loop = "idle" /\ ~online /\ ~_connected
  /\ loop' = "ended"
  /\ UNCHANGED <<client, online, _connected, _pending_queue, out, message, outages, history>>
LoopStop ==
  /\ out = "joining"
  /\ loop = "ended"
  /\ out' = "stopped"
  /\ client' = "null" /\ _connected' = FALSE
  /\ UNCHANGED <<online, _pending_queue, loop, message, outages, history>>

Library == OnConnect \/ BeginFlush \/ FlushOne \/ EndFlush \/ OnDisconnect
Output == Connect \/ Buffer \/ Send \/ LoopStop
Next == Library \/ Output \/ Publish \/ Disconnect \/ LoopGivesUp \/ Break \/ Reconnect

(* Both threads run; a broker that is there is found again.                *)
Spec == Init /\ [][Next]_vars /\ WF_vars(Library) /\ WF_vars(Output) /\ WF_vars(Reconnect)

-----------------------------------------------------------------------------
Buffered == ToSet(_pending_queue)
InHand == IF out \in {"buffering", "publishing"} THEN {message} ELSE {}

TypeOK ==
  /\ client \in {"null", "set"} /\ {online, _connected} \subseteq BOOLEAN
  /\ loop \in {"none", "idle", "on_connect", "flushing", "broken_off", "ended"}
  /\ out \in {"connecting", "ready", "buffering", "publishing", "joining", "stopped"}
  /\ _pending_queue \in Seq(1..message) /\ Len(_pending_queue) <= MAX_PENDING
  /\ sent \in Seq(1..message)
  /\ dropped \subseteq 1..message /\ refused \subseteq 1..message

(* No detection is reported twice: not by a flush that is broken off and   *)
(* begun again, and not by a publish that overlaps one.                    *)
SentOnce ==
  /\ IsInjective(sent) /\ IsInjective(_pending_queue)
  /\ ToSet(sent) \intersect (Buffered \union InHand \union dropped \union refused) = {}

(* The buffer keeps the order of publication, whatever flushes and outages *)
(* come in between.                                                        *)
BufferInOrder ==
  \A i, j \in DOMAIN _pending_queue : i < j => _pending_queue[i] < _pending_queue[j]

(* No message vanishes: each one has been handed over, is buffered or in   *)
(* hand, or met one of the two limits the code has - the buffer was full,  *)
(* or the library refused it (mqtt_publisher.cpp:193 and :201).            *)
Accounted ==
  1..message = ToSet(sent) \union Buffered \union InHand \union dropped \union refused

(* "No data is lost without a network" (pipeline.cpp:492): every message   *)
(* has been handed over, is buffered, or is being worked on.               *)
NoLoss == 1..message = ToSet(sent) \union Buffered \union InHand

(* "A full buffer drops the oldest message" (mqtt_publisher.cpp:285).      *)
DropsOldest == \A d \in dropped, m \in Buffered : d < m

(* A flush that has begun goes on until the buffer is empty, or until the  *)
(* library refuses a message: an outage in the middle does not end it.     *)
FlushHandsOver == loop = "flushing" ~> (_pending_queue = <<>> \/ loop = "broken_off")

(* "Buffered without a network, sent when it is back": a buffered message  *)
(* is sent, unless the pipeline is stopped before.                         *)
BufferedIsSent ==
  \A m \in 1..MaxMessages :
    m \in Buffered ~> (m \in ToSet(sent) \/ out \in {"joining", "stopped"})

(* The output thread gets through disconnect, as an orderly shutdown       *)
(* (pipeline.cpp:13) needs.                                                *)
DisconnectReturns == out = "joining" ~> out = "stopped"
=============================================================================
