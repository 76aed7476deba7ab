----------------------------- MODULE MCTaskRuntime -----------------------------
(***************************************************************************)
(* TaskRuntime under four sets of circumstances, for TLC.                  *)
(*                                                                         *)
(*   calls   a TaskManager call is not interrupted; two generations are    *)
(*           started twice, cancelled, deleted at any time, and take each  *)
(*           other's number; the process may die                           *)
(*   faults  one generation, and plugins, transactions and tests fail      *)
(*   stale   threads interleave inside the calls on one cleaning           *)
(*   quiet   evaluations and trainings are started once, nothing fails     *)
(***************************************************************************)
EXTENDS TaskRuntime

VARIABLE profile

Calls == INSTANCE TaskRuntime WITH Kinds <- {"generation"}, MaxIds <- 1, MayFail <- FALSE
Faults == INSTANCE TaskRuntime WITH Kinds <- {"generation"}, MaxIds <- 1, MaxBirths <- 1
Stale == INSTANCE TaskRuntime WITH Kinds <- {"cleaning"}, MaxIds <- 1, MaxBirths <- 1
Quiet == INSTANCE TaskRuntime
  WITH Kinds <- {"evaluation", "training"}, StartTwice <- FALSE, MayFail <- FALSE, MaxCrashes <- 0

Under(p, A) == profile = p /\ A

MCInit ==
  /\ profile \in {"calls", "faults", "stale", "quiet"}
  /\ Init
  /\ stale = (profile = "stale")
MCNext ==
  /\ UNCHANGED profile
  /\ \/ Under("calls", Calls!Next)
     \/ Under("faults", Faults!Next)
     \/ Under("stale", Stale!Next)
     \/ Under("quiet", Quiet!Next)
MCvars == <<vars, profile>>

MCSpec ==
  /\ MCInit
  /\ [][MCNext]_MCvars
  /\ WF_MCvars(Under("quiet", Quiet!CancelWrite) /\ UNCHANGED <<stale, profile>>)
  /\ \A w \in Workers :
       SF_MCvars(Under("quiet", Quiet!Work(w)) /\ UNCHANGED <<stale, profile>>)

-----------------------------------------------------------------------------
(* Nothing keeps a started task from ending when nothing fails.            *)
StartedFinishesWhenQuiet ==
  \A b \in 1 .. MaxBirths :
    (profile = "quiet" /\ \E w \in Workers : worker[w].birth = b /\ worker[w].pc = "plugin") ~>
      StatusOf[b] \in Finished \union {"deleted"}
===============================================================================
