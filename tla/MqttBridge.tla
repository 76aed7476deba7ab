------------------------------- MODULE MqttBridge -------------------------------
(***************************************************************************)
(* The desk's subscription to the boards (MqttBridge): one current client, *)
(* a timer that reconnects, and a user who stops it or gives it another    *)
(* broker.  A timer may fire at any time: how long it waits (5, 10, ... 60 *)
(* seconds) is left out.                                                   *)
(*                                                                         *)
(* Nothing is locked.  The user's thread, the threads of fired timers and  *)
(* the network thread of every client work on the same fields, and each    *)
(* statement reads self._client anew; statements between which nothing     *)
(* waits are one step, but for the test and the planting of a timer.  The  *)
(* client library is external: a client with a network thread connects     *)
(* again by itself, and loop_stop waits for the thread.                    *)
(***************************************************************************)
EXTENDS Integers, FiniteSets

CONSTANTS
  Clients, Timers,      \* objects, used again when nothing refers to them
  Nothing,
  MaxCalls, MaxFlaps,   \* bounds: calls of the user, changes of the broker,
  MaxFired              \* timers that have fired and are not through

(* What the constants have to be.                                         *)
BridgeConstants ==
  /\ MaxCalls \in Nat /\ MaxFlaps \in Nat /\ MaxFired \in Nat
  /\ Nothing \notin Clients \union Timers /\ "ui" \notin Clients \union Timers
  /\ Clients \intersect Timers = {}

VARIABLES
  client,       \* _client
  connected,    \* _connected
  timer,        \* _reconnect_timer
  intentional,  \* _intentional_disconnect
  link,         \* client -> "none", "waiting" (for CONNACK), "up", "broken", "lost"
  loop,         \* client -> whether its network thread runs
  pc,           \* where the user's thread, a timer or a network thread is
  at,           \* thread -> the client it is connecting
  broker,       \* "up", "refusing", "down"
  restarting,   \* the user's stop is the first half of a reconfigure
  overlapped,   \* a reconnect was under way when the user stopped or restarted,
                \* or when another one began
  calls, flaps

fields == <<client, connected, timer, intentional>>
net == <<link, loop>>
world == <<broker, calls, flaps>>
vars == <<fields, net, pc, at, world, restarting, overlapped>>

Procs == {"ui"} \union Timers \union Clients
Goto(p, step) == pc' = [pc EXCEPT ![p] = step]

Init ==
  /\ client = Nothing /\ connected = FALSE /\ timer = Nothing
  /\ intentional = FALSE
  /\ link = [c \in Clients |-> "none"] /\ loop = [c \in Clients |-> FALSE]
  /\ pc = [p \in Procs |-> IF p \in Timers THEN "free" ELSE "idle"]
  /\ at = [p \in Procs |-> Nothing]
  /\ broker \in {"up", "refusing", "down"} /\ restarting = FALSE /\ overlapped = FALSE
  /\ calls = 0 /\ flaps = 0

-----------------------------------------------------------------------------
(* _schedule_reconnect: the test, and then the timer.                      *)
Rest(p) == IF p \in Timers THEN "free" ELSE "idle"

TestSchedule(p) ==
  /\ pc[p] = "schedule"
  /\ Goto(p, IF intentional THEN Rest(p) ELSE "plant")
  /\ UNCHANGED <<fields, net, at, world, restarting, overlapped>>

(* Cancelling has no effect on a timer that has fired.                     *)
Cancelled(t) == IF t # Nothing /\ pc[t] = "pending" THEN [pc EXCEPT ![t] = "free"] ELSE pc

(* Mutant of Plant: a timer that is not started.                           *)
PlantUnstarted(p) ==
  /\ pc[p] = "plant" /\ pc' = [Cancelled(timer) EXCEPT ![p] = Rest(p)]
  /\ UNCHANGED <<fields, net, at, world, restarting, overlapped>>
Plant(p) ==
  /\ pc[p] = "plant"
  /\ \E t \in Timers :
       /\ Cancelled(timer)[t] = "free" /\ t # p
       /\ timer' = t
       /\ pc' = [Cancelled(timer) EXCEPT ![p] = Rest(p), ![t] = "pending"]
  /\ UNCHANGED <<client, connected, intentional, net, at, world, restarting, overlapped>>

(* _connect: a new client becomes the current one and connects, which may  *)
(* take long; loop_start is then of the client that is current by then.    *)
(* A failure of either schedules a retry.                                  *)
Create(p) ==
  /\ \E c \in Clients :
       /\ c # client /\ ~loop[c] /\ pc[c] = "idle" /\ \A q \in Procs : at[q] # c
       /\ client' = c /\ at' = [at EXCEPT ![p] = c]
  /\ Goto(p, "connecting")

Fails(p) ==
  /\ pc[p] = "connecting" /\ broker = "down"
  /\ Goto(p, "schedule") /\ at' = [at EXCEPT ![p] = Nothing]
  /\ UNCHANGED <<fields, net, world, restarting, overlapped>>

Connects(p) ==
  /\ pc[p] = "connecting" /\ broker # "down"
  /\ at' = [at EXCEPT ![p] = Nothing]
  /\ link' = [link EXCEPT ![at[p]] = "waiting"]
  /\ loop' = [c \in Clients |-> loop[c] \/ c = client]
  /\ Goto(p, IF client = Nothing THEN "schedule" ELSE Rest(p))
  /\ UNCHANGED <<fields, world, restarting, overlapped>>

(* loop_stop of the current client waits for its network thread.           *)
LoopStop(p) ==
  /\ pc[p] = "loop_stop"
  /\ client # Nothing => pc[client] = "idle"
  /\ loop' = [c \in Clients |-> loop[c] /\ c # client]
  /\ Goto(p, "disconnect")
  /\ UNCHANGED <<fields, link, at, world, restarting, overlapped>>
-----------------------------------------------------------------------------
(* The user: start, stop, reconfigure.  A restart finds only the user's    *)
(* thread when no timer waits or runs and no callback is about to plant    *)
(* one.                                                                    *)
OnlyUser == (\A t \in Timers : pc[t] = "free") /\ (\A c \in Clients : pc[c] = "idle")
Begin == intentional' = FALSE /\ Create("ui") /\ UNCHANGED <<connected, timer, net>>

UserStarts ==
  /\ pc["ui"] = "idle" /\ calls = 0 /\ calls' = 1
  /\ Begin /\ UNCHANGED <<broker, flaps, restarting, overlapped>>

(* Whether a timer has fired and is past its test.                         *)
Reconnecting == \E t \in Timers : pc[t] \notin {"free", "pending"}

UserStops ==
  /\ pc["ui"] = "idle" /\ calls \in 1 .. MaxCalls - 1 /\ ~intentional
  /\ calls' = calls + 1 /\ restarting' \in BOOLEAN
  /\ intentional' = TRUE /\ timer' = Nothing
  /\ overlapped' = (overlapped \/ Reconnecting)
  /\ pc' = [Cancelled(timer) EXCEPT !["ui"] = IF client = Nothing THEN "stopped" ELSE "loop_stop"]
  /\ UNCHANGED <<client, connected, net, at, broker, flaps>>

(* disconnect of the client; its on_disconnect runs in this thread.        *)
StopEnds ==
  /\ pc["ui"] = "disconnect" /\ Goto("ui", "stopped")
  /\ link' = [c \in Clients |-> IF c = client THEN "none" ELSE link[c]]
  /\ client' = Nothing /\ connected' = FALSE
  /\ UNCHANGED <<timer, intentional, loop, at, world, restarting, overlapped>>

Stopped ==
  /\ pc["ui"] = "stopped" /\ ~restarting /\ Goto("ui", "idle")
  /\ UNCHANGED <<fields, net, at, world, restarting, overlapped>>
Restarts ==
  /\ pc["ui"] = "stopped" /\ restarting /\ restarting' = FALSE
  /\ overlapped' = (overlapped \/ ~OnlyUser)
  /\ Begin /\ UNCHANGED world

-----------------------------------------------------------------------------
(* A timer fires: _reconnect.  The current client, if there is one, is     *)
(* stopped and disconnected (which calls on_disconnect, with a reason of 0,*)
(* if there is a socket), and another one is created.                      *)

(* Mutant of Fire: a stopped bridge connects again.                        *)
FireAlways(t) ==
  /\ pc[t] = "pending" /\ ~Reconnecting /\ Goto(t, "loop_stop")
  /\ UNCHANGED <<fields, net, at, world, restarting, overlapped>>
Fire(t) ==
  /\ pc[t] = "pending"
  /\ Cardinality({u \in Timers : pc[u] \notin {"free", "pending"}}) < MaxFired
  /\ Goto(t, IF intentional THEN "free" ELSE "loop_stop")
  /\ overlapped' = (overlapped \/ (~intentional /\ Reconnecting))
  /\ UNCHANGED <<fields, net, at, world, restarting>>

ReconnectCreates(t) ==
  /\ pc[t] = "disconnect" /\ Create(t)
  /\ connected' = (connected /\ ~(client # Nothing /\ link[client] \in {"waiting", "up", "broken"}))
  /\ link' = [c \in Clients |-> IF c = client THEN "none" ELSE link[c]]
  /\ UNCHANGED <<timer, intentional, loop, world, restarting, overlapped>>

-----------------------------------------------------------------------------
(* The network thread of a client and its callbacks.                       *)
Accepted(c) ==
  /\ loop[c] /\ pc[c] = "idle" /\ link[c] = "waiting" /\ broker = "up"
  /\ link' = [link EXCEPT ![c] = "up"]
  /\ connected' = TRUE
  /\ UNCHANGED <<client, timer, intentional, loop, pc, at, world, restarting, overlapped>>

Refused(c) ==
  /\ loop[c] /\ pc[c] = "idle" /\ link[c] = "waiting" /\ broker = "refusing"
  /\ link' = [link EXCEPT ![c] = "lost"] /\ Goto(c, "schedule")
  /\ UNCHANGED <<fields, loop, at, world, restarting, overlapped>>

Lost(c) ==
  /\ loop[c] /\ pc[c] = "idle" /\ link[c] = "broken"
  /\ link' = [link EXCEPT ![c] = "lost"] /\ connected' = FALSE /\ Goto(c, "schedule")
  /\ UNCHANGED <<client, timer, intentional, loop, at, world, restarting, overlapped>>

Retry(c) ==
  /\ loop[c] /\ pc[c] = "idle" /\ link[c] = "lost" /\ broker # "down"
  /\ link' = [link EXCEPT ![c] = "waiting"]
  /\ UNCHANGED <<fields, loop, pc, at, world, restarting, overlapped>>

(* The thread of a disconnected client ends by itself.                     *)
Ends(c) ==
  /\ loop[c] /\ pc[c] = "idle" /\ link[c] = "none" /\ \A q \in Procs : at[q] # c
  /\ loop' = [loop EXCEPT ![c] = FALSE]
  /\ UNCHANGED <<fields, link, pc, at, world, restarting, overlapped>>

(* The broker goes, refuses or comes back; what was connected breaks.      *)
BrokerChanges(state) ==
  /\ broker # state /\ broker' = state
  /\ flaps < MaxFlaps \/ (state = "up" /\ flaps = MaxFlaps)
  /\ flaps' = flaps + 1
  /\ link' = [c \in Clients |-> IF link[c] \in {"waiting", "up"} /\ state # "up"
                                THEN "broken" ELSE link[c]]
  /\ UNCHANGED <<fields, loop, pc, at, calls, restarting, overlapped>>
-----------------------------------------------------------------------------
Schedule(p) == TestSchedule(p) \/ Plant(p)
Connecting(p) == Schedule(p) \/ Fails(p) \/ Connects(p)
User == Connecting("ui") \/ LoopStop("ui") \/ StopEnds \/ Stopped \/ Restarts
Reconnect(t) == Connecting(t) \/ Fire(t) \/ LoopStop(t) \/ ReconnectCreates(t)
Network(c) == Schedule(c) \/ Accepted(c) \/ Refused(c) \/ Lost(c) \/ Retry(c) \/ Ends(c)

Next ==
  \/ UserStarts \/ UserStops \/ User
  \/ \E t \in Timers : Reconnect(t)
  \/ \E c \in Clients : Network(c)
  \/ \E state \in {"up", "refusing", "down"} : BrokerChanges(state)

Spec == Init /\ [][Next]_vars

(* Every thread goes on, timers fire, and the broker comes back.           *)
Fairness ==
  /\ WF_vars(User) /\ WF_vars(BrokerChanges("up"))
  /\ \A t \in Timers : WF_vars(Reconnect(t))
  /\ \A c \in Clients : WF_vars(Network(c))
FairSpec == Spec /\ Fairness
-----------------------------------------------------------------------------
(* A bridge that the user stopped, with no reconnect past its test of      *)
(* _intentional_disconnect, has no network thread, no socket and no way to *)
(* get one, whatever timers were planted and callbacks ran meanwhile.      *)
StopIsQuiet ==
  intentional /\ pc["ui"] = "idle" /\ ~overlapped =>
    /\ client = Nothing /\ ~connected
    /\ \A c \in Clients : ~loop[c] /\ link[c] = "none"
    /\ ~Reconnecting

(* A bridge that is not stopped is in the end connected and says so, and   *)
(* stays it, once the broker stays up: whatever reconnects crossed stops,  *)
(* restarts, losses and refusals.                                          *)
Healthy == connected /\ client # Nothing /\ loop[client] /\ link[client] = "up"
Recovers == <>[](calls = 0 \/ intentional \/ Healthy)
=============================================================================
