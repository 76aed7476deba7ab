------------------------------ MODULE ServiceUnit ------------------------------
(***************************************************************************)
(* The process of edge/src/main.cpp under its systemd unit                 *)
(* edge/config/edge-ai-camera.service: how it starts, what signals do to   *)
(* it, how it ends, and what systemd does then.                            *)
(*                                                                         *)
(* The unit has Restart=on-failure: only an unclean end is followed by a   *)
(* new start.  pipeline_run returns 0 from every shutdown, whoever asked   *)
(* for it, and an end by SIGTERM or SIGHUP is clean too.                   *)
(***************************************************************************)
EXTENDS Naturals

CONSTANTS
  Burst,          \* StartLimitBurst
  Commands,       \* commands that are given: "start", "stop", "restart",
                  \* "reload" (systemctl) and "rpc" (the Restart RPC)
  MaxRequests,    \* bound: commands
  MaxFaults       \* bound: faults of the process

(* What the constants have to be.                                         *)
UnitConstants ==
  /\ Burst \in Nat \ {0}
  /\ Commands \subseteq {"start", "stop", "restart", "reload", "rpc"}
  /\ MaxRequests \in Nat /\ MaxFaults \in Nat

VARIABLES
  unit,       \* state of the unit
  job,        \* what systemctl waits for: "none", "stop" or "restart"
  proc,       \* the process: where it is
  timer,      \* the detached thread of the Restart RPC sleeps
  starts,     \* starts in the current StartLimitIntervalSec
  requests, faults,
  \* history
  owed,       \* why a new process is expected: a set
  stopped     \* the administrator has stopped the unit

vars == <<unit, job, proc, timer, starts, requests, faults, owed, stopped>>

Alive == proc # "none"

Init ==
  /\ unit = "inactive" /\ job = "none"
  /\ proc = "none" /\ timer = FALSE
  /\ starts = 0 /\ requests = 0 /\ faults = 0
  /\ owed = {} /\ stopped = FALSE

-----------------------------------------------------------------------------

(* systemd starts the process, unless it has done so too often.            *)
Launch ==
  IF starts < Burst
  THEN unit' = "activating" /\ proc' = "starting" /\ starts' = starts + 1
  ELSE unit' = "failed" /\ proc' = "none" /\ UNCHANGED starts

\* Mutant of Exit: a stop that ends in a kill is taken for a failure.
ExitIgnoresJob(clean) ==
  /\ timer' = FALSE
  /\ job' = "none"
  /\ owed' = IF clean THEN owed ELSE owed \union {"fault"}
  /\ IF job = "restart" THEN Launch
     ELSE proc' = "none" /\ UNCHANGED starts
          /\ unit' = IF clean THEN "inactive" ELSE "auto-restart"
  /\ UNCHANGED <<requests, stopped>>

\* Mutant of Exit: Restart=no.
ExitForGood(clean) ==
  /\ timer' = FALSE
  /\ job' = "none"
  /\ owed' = IF clean \/ job # "none" THEN owed ELSE owed \union {"fault"}
  /\ IF job = "restart" THEN Launch
     ELSE proc' = "none" /\ UNCHANGED starts
          /\ unit' = "inactive"
  /\ UNCHANGED <<requests, stopped>>

(* The process ends: a systemctl job is completed, a failure is followed   *)
(* by a restart, a clean end is not.  Its threads go with it.              *)
Exit(clean) ==
  /\ timer' = FALSE
  /\ job' = "none"
  /\ owed' = IF clean \/ job # "none" THEN owed ELSE owed \union {"fault"}
  /\ IF job = "restart" THEN Launch
     ELSE proc' = "none" /\ UNCHANGED starts
          /\ unit' = IF clean THEN "inactive"
                     ELSE IF job = "stop" THEN "failed" ELSE "auto-restart"
  /\ UNCHANGED <<requests, stopped>>

RestartSecPasses ==
  /\ unit = "auto-restart"
  /\ Launch
  /\ UNCHANGED <<job, timer, requests, owed, stopped, faults>>

(* StartLimitIntervalSec without a start.                                  *)
IntervalPasses ==
  /\ starts > 0
  /\ starts' = 0
  /\ UNCHANGED <<unit, job, proc, timer, requests, owed, stopped, faults>>

-----------------------------------------------------------------------------
(* main: without a configuration it returns 1, else it sends READY=1       *)
(* before the pipeline exists.                                             *)
Fault == faults < MaxFaults /\ faults' = faults + 1

NoConfig == proc = "starting" /\ Fault /\ Exit(FALSE)
Ready ==
  /\ proc = "starting"
  /\ proc' = "ready"
  /\ unit' = IF unit = "activating" THEN "active" ELSE unit
  /\ UNCHANGED <<job, timer, starts, requests, owed, stopped, faults>>

(* pipeline_run registers the handlers, then loads the model: an exception *)
(* ends it with -1.                                                        *)
Handlers ==
  /\ proc = "ready"
  /\ proc' = "loading"
  /\ UNCHANGED <<unit, job, timer, starts, requests, owed, stopped, faults>>
LoadFails == proc = "loading" /\ Fault /\ Exit(FALSE)
Run ==
  /\ proc = "loading"
  /\ proc' = "running"
  /\ owed' = {}
  /\ UNCHANGED <<unit, job, timer, starts, requests, stopped, faults>>

(* A fault kills the process at once, or check_thread_health sees a dead   *)
(* thread and shuts the pipeline down.                                     *)
Crash == proc \in {"loading", "running", "draining"} /\ Fault /\ Exit(FALSE)
WatchdogShutdown ==
  /\ proc = "running"
  /\ proc' = "draining"
  /\ Fault
  /\ UNCHANGED <<unit, job, timer, starts, requests, owed, stopped>>

(* The threads are joined and main returns 0; or a join never returns,     *)
(* until WatchdogSec or TimeoutStopSec ends it with a kill.                *)
DrainEnds == proc = "draining" /\ Exit(TRUE) /\ UNCHANGED faults
DrainHangs ==
  /\ proc = "draining"
  /\ proc' = "hung"
  /\ UNCHANGED <<unit, job, timer, starts, requests, owed, stopped, faults>>
SystemdKills == proc = "hung" /\ Exit(FALSE) /\ UNCHANGED faults

(* A signal before the handlers are registered ends the process, and is a  *)
(* clean end; later it asks for a shutdown.                                *)
SignalNow(alsoUnit, alsoJob) ==
  IF proc \in {"starting", "ready"}
  THEN /\ proc' = "terminated" /\ unit' = alsoUnit /\ job' = alsoJob
  ELSE /\ proc' = IF proc \in {"loading", "running"} THEN "draining" ELSE proc
       /\ unit' = alsoUnit /\ job' = alsoJob
Terminated == proc = "terminated" /\ Exit(TRUE) /\ UNCHANGED faults

-----------------------------------------------------------------------------
Ask(command) == command \in Commands /\ requests < MaxRequests /\ requests' = requests + 1

SystemctlStart ==
  /\ Ask("start")
  /\ unit \in {"inactive", "failed"}
  /\ Launch
  /\ stopped' = FALSE
  /\ UNCHANGED <<job, timer, owed, faults>>

(* ExecStop sends SIGTERM.  With no process the job is done at once.       *)
SystemctlStop ==
  /\ Ask("stop")
  /\ job = "none"
  /\ unit \in {"activating", "active", "auto-restart"}
  /\ stopped' = TRUE
  /\ owed' = {}
  /\ IF Alive THEN SignalNow("deactivating", "stop")
     ELSE unit' = "inactive" /\ UNCHANGED <<proc, job>>
  /\ UNCHANGED <<timer, starts, faults>>

SystemctlRestart ==
  /\ Ask("restart")
  /\ job = "none"
  /\ unit \in {"activating", "active"}
  /\ SignalNow("deactivating", "restart")
  /\ UNCHANGED <<timer, starts, owed, stopped, faults>>

(* ExecReload sends SIGHUP.                                                *)
SystemctlReload ==
  /\ Ask("reload")
  /\ unit = "active"
  /\ SignalNow(unit, job)
  /\ owed' = owed \union {"reload"}
  /\ UNCHANGED <<timer, starts, stopped, faults>>

(* The Restart RPC, or an update of the application or its rollback over   *)
(* gRPC or MQTT: SIGTERM after half a second or at once.                   *)
RestartRpc ==
  /\ Ask("rpc")
  /\ proc = "running"
  /\ timer' = TRUE
  /\ owed' = owed \union {"restart"}
  /\ UNCHANGED <<unit, job, proc, starts, stopped, faults>>
TimerFires ==
  /\ timer
  /\ timer' = FALSE
  /\ SignalNow(unit, job)
  /\ UNCHANGED <<starts, requests, owed, stopped, faults>>

Systemd == RestartSecPasses \/ SystemdKills
Process == Ready \/ Handlers \/ Run \/ DrainEnds \/ DrainHangs \/ Terminated \/ TimerFires
Faults == NoConfig \/ LoadFails \/ Crash \/ WatchdogShutdown
Admin == SystemctlStart \/ SystemctlStop \/ SystemctlRestart \/ SystemctlReload \/ RestartRpc
Next == Systemd \/ Process \/ Faults \/ Admin \/ IntervalPasses

(* systemd does what it has scheduled, and the process goes on.            *)
Spec == Init /\ [][Next]_vars /\ WF_vars(Systemd) /\ WF_vars(Process)

-----------------------------------------------------------------------------
TypeOK ==
  /\ unit \in {"inactive", "activating", "active", "deactivating", "auto-restart", "failed"}
  /\ proc \in {"none", "starting", "ready", "loading", "running", "draining",
               "hung", "terminated"}
  /\ job \in {"none", "stop", "restart"}
  /\ owed \subseteq {"fault", "reload", "restart"}
  /\ starts \in 0..Burst
  /\ unit = "deactivating" <=> job # "none"
  /\ Alive <=> unit \in {"activating", "active", "deactivating"}

(* A unit that has been stopped stays so until it is started: neither a    *)
(* kill after TimeoutStopSec, nor a restart that was being waited for, nor *)
(* the timer of a Restart RPC brings the process back.                     *)
StopIsFinal == stopped => unit \in {"deactivating", "inactive", "failed"}

GivenUp == unit = "failed" \/ stopped
ComesBack(why) == why \in owed ~> (why \notin owed \/ GivenUp)

(* "Restarted automatically after a crash" (the unit file, line 58): an    *)
(* unclean end is followed by a process that runs, unless the start limit  *)
(* or the administrator prevents it: a stop, or a reload, which ends the   *)
(* new process before it runs (main.cpp:147).                              *)
FaultComesBack ==
  "fault" \in owed ~> ("fault" \notin owed \/ GivenUp \/ "reload" \in owed)

(* The Restart RPC "restarts the inference service" (docs/PROTOCOL.md).    *)
RestartComesBack == ComesBack("restart")

(* systemctl reload loads the new model (docs/EDGE_DEPLOY.md): the service *)
(* is still there, or there again, afterwards.                             *)
ReloadComesBack == [](("reload" \in owed) => <>(proc = "running" \/ GivenUp))
=============================================================================
