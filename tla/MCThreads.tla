------------------------------- MODULE MCThreads -------------------------------
(***************************************************************************)
(* Two mechanisms under the pipeline's threads, each checked by itself in  *)
(* one run: the queue between two of them and the chain of watchdogs over  *)
(* all.  A behaviour is one of one mechanism, chosen at the start; the     *)
(* other stays as it begins.                                               *)
(***************************************************************************)
EXTENDS ThreadSafeQueue

CONSTANTS
  Room, Timeout, SystemdTimeout, GrpcEnabled, MayHang   \* ThreadWatchdog

VARIABLES
  mechanism,
  running, main, closed, len, pc, age, silence, hung

W == INSTANCE ThreadWatchdog WITH Capacity <- Room, shut <- closed

ASSUME ThreadsAssumption == W!WatchdogConstants

process == <<running, main, closed, len, pc, age, silence, hung>>

MCInit == mechanism \in {"queue", "watchdog"} /\ Init /\ W!Init
MCNext ==
  /\ UNCHANGED mechanism
  /\ \/ mechanism = "queue" /\ Next /\ UNCHANGED process
     \/ mechanism = "watchdog" /\ W!Next /\ UNCHANGED vars

(* The fairness of each mechanism, while the behaviour is one of it.       *)
MCFairness ==
  /\ WF_vars(mechanism = "queue" /\ PushOrWaitLocked)
  /\ WF_vars(mechanism = "queue" /\ NotifyConsumer)
  /\ WF_vars(mechanism = "queue" /\ PopLocked)
  /\ WF_vars(mechanism = "queue" /\ NotifyProducer)
  /\ \A t \in W!Threads : WF_process(mechanism = "watchdog" /\ W!Thread(t))
  /\ WF_process(mechanism = "watchdog" /\ W!Poll)
  /\ WF_process(mechanism = "watchdog" /\ W!LeavePolling)
  /\ WF_process(mechanism = "watchdog" /\ W!Return)
  /\ WF_process(mechanism = "watchdog" /\ W!Tick)
  /\ WF_process(mechanism = "watchdog" /\ W!SystemdKills)

MCSafety == MCInit /\ [][MCNext]_<<mechanism, vars, process>>
MCSpec == MCSafety /\ MCFairness

-----------------------------------------------------------------------------
(* ThreadWatchdog: systemd kills the process only when some call of it     *)
(* really hangs.                                                           *)
KilledOnlyIfHung == W!KilledOnlyIfHung

(* ThreadWatchdog: a thread that hangs after its first heartbeat, and a    *)
(* stop, end the process, by itself or by the hand of systemd              *)
(* (pipeline.cpp:66-67).                                                   *)
StopOrHangEnds == W!StopOrHangEnds
=============================================================================
