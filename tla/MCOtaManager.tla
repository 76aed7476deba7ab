----------------------------- MODULE MCOtaManager -----------------------------
(***************************************************************************)
(* OtaManager under four sets of circumstances at once, for TLC.  Each of  *)
(* the properties names the circumstances under which the code keeps it;   *)
(* the README says what breaks it outside of them.                         *)
(***************************************************************************)
EXTENDS OtaManager

CONSTANT AppClient   \* the client that updates the application

(* Two clients push models; packages may be corrupted, unchecked or of     *)
(* another input size, copies may fail.                                    *)
WithFaults ==
  [target |-> "model", clients |-> Clients, shared |-> FALSE, corrupt |-> TRUE,
   checks |-> BOOLEAN, autos |-> BOOLEAN, readOnly |-> FALSE, faults |-> TRUE,
   rollsBack |-> FALSE, dies |-> FALSE]
(* Two clients push and roll back.                                         *)
WithRollbacks == [WithFaults EXCEPT !.autos = {TRUE}, !.faults = FALSE, !.rollsBack = TRUE]
(* Two clients push checked models, the process may die anywhere.          *)
WithCrashes ==
  [WithFaults EXCEPT !.checks = {TRUE}, !.autos = {TRUE}, !.faults = FALSE, !.dies = TRUE]
(* One client updates the application with checked packages.               *)
OfTheApp ==
  [WithFaults EXCEPT !.target = "app", !.clients = {AppClient}, !.shared = TRUE,
                     !.checks = {TRUE}, !.autos = {TRUE}]

MCCircumstances == {WithFaults, WithRollbacks, WithCrashes, OfTheApp}

MCSpec ==
  /\ Init /\ [][Next]_vars
  /\ \A c \in Clients :
       WF_vars(given = WithRollbacks /\ Serve(c) /\ UNCHANGED given)

-----------------------------------------------------------------------------
Idle(c) == given = WithRollbacks => pc[c] = "idle"

(* Every request, also one that waits for another, is answered: _mutex is  *)
(* released on every path.                                                 *)
RequestsAnsweredWithoutFaults ==
  \A c \in Clients : ~Idle(c) ~> Idle(c)
=============================================================================
