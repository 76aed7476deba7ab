---------------------------- MODULE MCDatasetStore ----------------------------
(***************************************************************************)
(* DatasetStore under three sets of circumstances, and the plans of an     *)
(* import, for TLC.                                                        *)
(*                                                                         *)
(*   alone   the user's calls one after the other, two suggestions         *)
(*   faults  a call of the user raises, or the process dies inside it      *)
(*   race    a background thread stores generated files meanwhile          *)
(*   plan    every list of up to MaxPlan records through ImportPlan        *)
(***************************************************************************)
EXTENDS DatasetStore, ImportPlan

CONSTANTS
  MaxPlan,  \* bound: records of an import plan
  MaxSplit  \* bound: records of a split whose halves are counted

VARIABLES
  profile,
  plan      \* the records of profile "plan"

Alone == INSTANCE DatasetStore WITH MaxRuns <- 0, MaxFaults <- 0, MaxDatasets <- 1
Faults == INSTANCE DatasetStore WITH MaxRuns <- 0, MaxNotes <- 1, MaxOps <- 3
Race == INSTANCE DatasetStore WITH MaxFaults <- 0, MaxNotes <- 1, MaxOps <- 3

Under(p, A) == profile = p /\ A
MCvars == <<vars, profile, plan>>

MCInit == Init /\ plan = <<>> /\ profile \in {"alone", "faults", "race", "plan"}

AddRecord ==
  /\ Len(plan) < MaxPlan
  /\ \E p \in 1 .. MaxPlan, c \in 1 .. 2, s \in {"train", "test"} :
       plan' = Append(plan, Record(p, c, s))
  /\ UNCHANGED vars

MCNext ==
  /\ UNCHANGED profile
  /\ \/ Under("alone", Alone!Next) /\ UNCHANGED plan
     \/ Under("faults", Faults!Next) /\ UNCHANGED plan
     \/ Under("race", Race!Next) /\ UNCHANGED plan
     \/ Under("plan", AddRecord)

MCSpec == MCInit /\ [][MCNext]_MCvars

(* What an import makes of its records: a fair split, test files kept out  *)
(* of the training set, every file of a manifest in one half, class ids    *)
(* that agree between the halves, and an even order of the folders.        *)
PlansAreSound ==
  profile = "plan" =>
    /\ \A n \in 2 .. MaxSplit : FairCount(n)
    /\ SplitIsFair(plan) /\ TestFilesStayOut(plan) /\ InterleaveIsEven(plan)
    /\ ClassIdsAgree(plan) /\ HalvesAreWhole(plan)
=============================================================================
