------------------------------- MODULE TaskStates -------------------------------
(***************************************************************************)
(* What the table tasks promises to whoever reads it: the state machine of *)
(* docs/BACKEND_ARCHITECTURE.md with the two moves the document leaves     *)
(* out, a task cancelled before it starts and a task deleted.              *)
(***************************************************************************)
EXTENDS Naturals

CONSTANT Tasks

VARIABLE status

Init == status = [t \in Tasks |-> "unborn"]

Move(t, from, to) == status[t] = from /\ status' = [status EXCEPT ![t] = to]

Create(t) == Move(t, "unborn", "pending")
Begin(t) == Move(t, "pending", "running")
Withdraw(t) == Move(t, "pending", "cancelled")
Finish(t) == \E end \in {"completed", "failed", "cancelled"} : Move(t, "running", end)
Delete(t) == status[t] \notin {"unborn", "deleted"} /\ Move(t, status[t], "deleted")

(* The sweep of a start: no task is left running.                          *)
Sweep == status' = [t \in Tasks |->
  IF status[t] = "running" THEN "interrupted" ELSE status[t]]

Next ==
  \/ \E t \in Tasks : Create(t) \/ Begin(t) \/ Withdraw(t) \/ Finish(t) \/ Delete(t)
  \/ Sweep

Spec == Init /\ [][Next]_status
===============================================================================
