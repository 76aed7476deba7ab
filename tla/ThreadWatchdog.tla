---------------------------- MODULE ThreadWatchdog ----------------------------
(***************************************************************************)
(* The chain of watchdogs of edge/src/pipeline/pipeline.cpp: each thread   *)
(* beats at the top of its loop, pipeline_run looks at the heartbeats and  *)
(* tells systemd that it is alive, and systemd (WatchdogSec in             *)
(* edge-ai-camera.service) kills the process that no longer tells it.      *)
(*                                                                         *)
(* Of Pipeline only what a heartbeat depends on is kept: where a thread    *)
(* is, how many items each queue holds, whether a call never returns.      *)
(* Time is counted in ticks: between two ticks a thread goes round its     *)
(* loop, unless it waits for a queue or a call hangs.                      *)
(***************************************************************************)
EXTENDS Integers

CONSTANTS
  Capacity,        \* cfg.system.queue_max_size
  Timeout,         \* THREAD_WATCHDOG_TIMEOUT_MS, in ticks
  SystemdTimeout,  \* WatchdogSec, in ticks
  GrpcEnabled,     \* cfg.grpc.enabled
  MayHang          \* bound: the threads one of which may hang

(* What the constants have to be.                                         *)
WatchdogConstants ==
  /\ Capacity \in Nat \ {0}
  /\ Timeout \in Nat \ {0}
  /\ SystemdTimeout \in Nat \ {0}
  /\ GrpcEnabled \in BOOLEAN
  /\ MayHang \subseteq {"capture", "inference", "output", "grpc"}

VARIABLES
  running,   \* g_running
  main,      \* where pipeline_run is; "killed": systemd killed the process
  shut,      \* the queues have been shut down
  len,       \* how many items each queue holds
  pc,        \* where each thread is
  age,       \* ticks since the last heartbeat of each thread
  silence,   \* ticks since the last WATCHDOG=1
  hung       \* the threads stuck in a call that never returns

vars == <<running, main, shut, len, pc, age, silence, hung>>

Threads == {"capture", "inference", "tracking", "output", "grpc"}
Consumers == {"inference", "tracking", "output"}
Queues == {"frame", "detect", "track"}

In == [inference |-> "frame", tracking |-> "detect", output |-> "track"]
Out == [inference |-> "detect", tracking |-> "track"]

(* The heartbeat of a thread that has not entered its loop (timestamp 0).  *)
Never == -1

Alive == main \notin {"returned", "killed"}
Goto(t, place) == pc' = [pc EXCEPT ![t] = place]

Init ==
  /\ running = TRUE
  /\ main = "polling"
  /\ shut = FALSE
  /\ len = [q \in Queues |-> 0]
  /\ pc = [t \in Threads |->
             CASE t = "grpc" /\ ~GrpcEnabled      -> "stopped"
               [] OTHER                           -> "starting"]
  /\ age = [t \in Threads |-> Never]
  /\ silence = 0
  /\ hung = {}

-----------------------------------------------------------------------------
(* The top of a loop: while (g_running) { thread_heartbeat(...); ...       *)
(* Nothing another thread can see lies between the end of a round and the  *)
(* next test of g_running, so both are one step.                           *)
NextRound(t) ==
  IF running
  THEN /\ age' = [age EXCEPT ![t] = 0]
       /\ Goto(t, IF t \in Consumers THEN "popping" ELSE "working")
  ELSE /\ UNCHANGED age
       /\ Goto(t, IF t \in {"output", "grpc"} THEN "finishing" ELSE "stopped")

(* Open the input, connect to the broker, start the server: before the     *)
(* loop, so before the first heartbeat.                                    *)
Start(t) ==
  /\ Alive
  /\ pc[t] = "starting"
  /\ t \notin hung
  /\ NextRound(t)
  /\ UNCHANGED <<running, main, shut, len, silence, hung>>

Finish(t) ==
  /\ Alive
  /\ pc[t] = "finishing"
  /\ t \notin hung
  /\ Goto(t, "stopped")
  /\ UNCHANGED <<running, main, shut, len, age, silence, hung>>

(* pop: an item, or nothing once the queue is shut down.                   *)
Pop(t) ==
  /\ Alive
  /\ t \in Consumers
  /\ pc[t] = "popping"
  /\ \/ /\ len[In[t]] > 0
        /\ len' = [len EXCEPT ![In[t]] = @ - 1]
        /\ Goto(t, "working")
        /\ UNCHANGED age
     \/ /\ len[In[t]] = 0
        /\ shut
        /\ NextRound(t)
        /\ UNCHANGED len
  /\ UNCHANGED <<running, main, shut, silence, hung>>

(* The iteration yields nothing for the next thread: no frame ready, a     *)
(* failed inference, the last stage, the sleep of the gRPC thread.         *)
WorkForNothing(t) ==
  /\ Alive
  /\ t # "tracking"
  /\ pc[t] = "working"
  /\ t \notin hung
  /\ NextRound(t)
  /\ UNCHANGED <<running, main, shut, len, silence, hung>>

CaptureFrame ==
  /\ Alive
  /\ pc["capture"] = "working"
  /\ "capture" \notin hung
  /\ Goto("capture", "pushing")
  /\ UNCHANGED <<running, main, shut, len, age, silence, hung>>

(* push_or_wait on the frame queue.                                        *)
CapturePush ==
  /\ Alive
  /\ pc["capture"] = "pushing"
  /\ shut \/ len["frame"] < Capacity
  /\ len' = IF shut THEN len ELSE [len EXCEPT !["frame"] = @ + 1]
  /\ NextRound("capture")
  /\ UNCHANGED <<running, main, shut, silence, hung>>

(* push on the detect and track queues: dropped when full.                 *)
Deliver(t) ==
  /\ Alive
  /\ t \in {"inference", "tracking"}
  /\ pc[t] = "working"
  /\ t \notin hung
  /\ len' = IF len[Out[t]] < Capacity
            THEN [len EXCEPT ![Out[t]] = @ + 1] ELSE len
  /\ NextRound(t)
  /\ UNCHANGED <<running, main, shut, silence, hung>>

(* A call to a device, the broker or the NPU does not return.  The tracker *)
(* and the sleep of the gRPC thread always do.                             *)
Hang(t) ==
  /\ Alive
  /\ t \in MayHang
  /\ hung = {}
  /\ \/ pc[t] \in {"starting", "finishing"} /\ t # "inference"
     \/ pc[t] = "working" /\ t # "grpc"
  /\ hung' = hung \union {t}
  /\ UNCHANGED <<running, main, shut, len, pc, age, silence>>

Thread(t) == \/ Start(t) \/ Finish(t) \/ Pop(t)
             \/ WorkForNothing(t) \/ Deliver(t)
             \/ t = "capture" /\ (CaptureFrame \/ CapturePush)

-----------------------------------------------------------------------------
\* Mutant of Dead: the last two roles are not looked at.
DeadMissesLast == {t \in {"capture", "inference", "tracking"} : age[t] > Timeout}

(* check_thread_health: a thread without a heartbeat yet is skipped.       *)
Dead == {t \in Threads : age[t] > Timeout}

\* Mutant of Poll: systemd is notified while the threads are joined, too.
PollWhileJoining ==
  /\ main \in {"polling", "joining"}
  /\ running' = (running /\ Dead = {})
  /\ silence' = 0
  /\ UNCHANGED <<main, shut, len, pc, age, hung>>

(* One round of pipeline_run's polling loop; an operator brings the stop   *)
(* flag by a signal.                                                       *)
Poll ==
  /\ main = "polling"
  /\ running' = (running /\ Dead = {})
  /\ silence' = 0
  /\ UNCHANGED <<main, shut, len, pc, age, hung>>

Signal ==
  /\ Alive
  /\ running
  /\ running' = FALSE
  /\ UNCHANGED <<main, shut, len, pc, age, silence, hung>>

\* Mutant of LeavePolling: the queues are not shut down.
LeavePollingOnly ==
  /\ main = "polling"
  /\ ~running
  /\ main' = "joining"
  /\ UNCHANGED <<running, shut, len, pc, age, silence, hung>>

(* The loop ends, the queues are shut down, the joins begin.               *)
LeavePolling ==
  /\ main = "polling"
  /\ ~running
  /\ shut' = TRUE
  /\ main' = "joining"
  /\ UNCHANGED <<running, len, pc, age, silence, hung>>

AllStopped == \A t \in Threads : pc[t] = "stopped"

Return ==
  /\ main = "joining"
  /\ AllStopped
  /\ main' = "returned"
  /\ UNCHANGED <<running, shut, len, pc, age, silence, hung>>

Main == Poll \/ LeavePolling \/ Return

-----------------------------------------------------------------------------
(* A thread that sleeps on a condition variable.                           *)
Waiting(t) ==
  /\ ~shut
  /\ \/ t \in Consumers /\ pc[t] = "popping" /\ len[In[t]] = 0
     \/ pc[t] = "pushing" /\ len["frame"] = Capacity

(* The process is only so slow: a tick passes when each thread has beaten  *)
(* since the last one, or waits, hangs or has stopped, and main has polled *)
(* or has to wait for a thread.                                            *)
TimeMayPass ==
  /\ \A t \in Threads : \/ pc[t] = "stopped"
                        \/ age[t] = 0
                        \/ Waiting(t)
                        \/ t \in hung
  /\ \/ main = "polling" /\ silence = 0
     \/ main = "joining" /\ ~AllStopped

Older(n, limit) == IF n = Never \/ n > limit THEN n ELSE n + 1

Tick ==
  /\ Alive
  /\ TimeMayPass
  /\ age' = [t \in Threads |-> Older(age[t], Timeout)]
  /\ silence' = Older(silence, SystemdTimeout)
  /\ UNCHANGED <<running, main, shut, len, pc, hung>>

(* WatchdogSec has passed without WATCHDOG=1.                              *)
SystemdKills ==
  /\ Alive
  /\ silence > SystemdTimeout
  /\ main' = "killed"
  /\ UNCHANGED <<running, shut, len, pc, age, silence, hung>>

Ended ==
  /\ ~Alive
  /\ UNCHANGED vars

Next == \/ \E t \in Threads : Thread(t) \/ Hang(t)
        \/ Main \/ Signal \/ Tick \/ SystemdKills \/ Ended

(* Threads are scheduled, time passes, systemd does what its unit says.    *)
(* Nothing has to hang, no signal has to come.                             *)
Fairness ==
  /\ \A t \in Threads : WF_vars(Thread(t))
  /\ WF_vars(Poll) /\ WF_vars(LeavePolling) /\ WF_vars(Return)
  /\ WF_vars(Tick) /\ WF_vars(SystemdKills)

Spec == Init /\ [][Next]_vars /\ Fairness

-----------------------------------------------------------------------------
TypeOK ==
  /\ running \in BOOLEAN
  /\ main \in {"polling", "joining", "returned", "killed"}
  /\ shut \in BOOLEAN
  /\ len \in [Queues -> 0..Capacity]
  /\ pc \in [Threads -> {"starting", "popping", "working", "pushing",
                         "finishing", "stopped"}]
  /\ age \in [Threads -> Never..Timeout + 1]
  /\ silence \in 0..SystemdTimeout + 1
  /\ hung \subseteq Threads

(* systemd kills the process only when some call really hangs: a shutdown  *)
(* in which every call returns wakes every sleeper and is over in time.    *)
KilledOnlyIfHung == main = "killed" => hung # {}

(* "A timeout means the thread is faulty; shut down and never leave the    *)
(* pipeline half dead" (pipeline.cpp:66-67): once a thread hangs that had  *)
(* a heartbeat, or the stop flag is set, the process ends, by itself or,   *)
(* when a join waits for the hung thread, by the hand of systemd.          *)
StopOrHangEnds ==
  (~running \/ \E t \in hung : age[t] # Never) ~> ~Alive

(* The same for a thread that hangs before its first heartbeat: the        *)
(* pipeline is never left half dead (pipeline.cpp:67).                     *)
HungAtStartIsFound ==
  (\E t \in hung : age[t] = Never) ~> ~running

(* Only a faulty thread stops the pipeline ("a timeout means the thread is *)
(* faulty", pipeline.cpp:66; "retry when NPU inference fails",             *)
(* TESTING.md:356): a heartbeat is never missed by a thread that has       *)
(* nothing to do.                                                          *)
OnlyFaultyThreadsDie ==
  main = "polling" /\ Dead # {} => hung # {}
=============================================================================
