---------------------------- MODULE BoundedChannel ----------------------------
(***************************************************************************)
(* What a queue between two pipeline threads promises, with no mutex and   *)
(* no condition variable in sight: a bounded first-in first-out channel    *)
(* between one sender and one receiver, which either side may find closed. *)
(* Every operation is one atomic step, and a blocking call is a step that  *)
(* waits for its guard.  ThreadSafeQueue (pipeline.cpp) implements it; the *)
(* Pipeline module uses its queues in exactly this form.                   *)
(***************************************************************************)
EXTENDS Naturals, Sequences

CONSTANTS
  Capacity,   \* how many items the channel holds
  MaxItems    \* bound: items numbered 1..MaxItems are offered, in order

VARIABLES
  chan,       \* the items in the channel, oldest first
  closed,     \* the channel has been shut down
  offered,    \* how many items the sender has offered so far
  sending,    \* the sender is inside a send that waits for room
  receiving,  \* the receiver is inside a receive
  received    \* everything the receiver got, in order

vars == <<chan, closed, offered, sending, receiving, received>>

HasRoom == Len(chan) < Capacity

Init ==
  /\ chan = <<>>
  /\ closed = FALSE
  /\ offered = 0
  /\ sending = FALSE
  /\ receiving = FALSE
  /\ received = <<>>

-----------------------------------------------------------------------------
(* A send that gives up at once: the item is dropped if there is no room,  *)
(* and a closed channel still takes it.                                    *)
TrySend ==
  /\ ~sending
  /\ offered < MaxItems
  /\ offered' = offered + 1
  /\ chan' = IF HasRoom THEN Append(chan, offered + 1) ELSE chan
  /\ UNCHANGED <<closed, sending, receiving, received>>

(* A send that waits for room or for the channel to be closed.             *)
BeginSend ==
  /\ ~sending
  /\ offered < MaxItems
  /\ offered' = offered + 1
  /\ sending' = TRUE
  /\ UNCHANGED <<chan, closed, receiving, received>>

EndSend ==
  /\ sending
  /\ ~closed
  /\ HasRoom
  /\ chan' = Append(chan, offered)
  /\ sending' = FALSE
  /\ UNCHANGED <<closed, offered, receiving, received>>

(* A send that meets a closed channel returns without its item.            *)
AbandonSend ==
  /\ sending
  /\ closed
  /\ sending' = FALSE
  /\ UNCHANGED <<chan, closed, offered, receiving, received>>

-----------------------------------------------------------------------------
BeginReceive ==
  /\ ~receiving
  /\ receiving' = TRUE
  /\ UNCHANGED <<chan, closed, offered, sending, received>>

(* Items left in a closed channel are still delivered.                     *)
EndReceive ==
  /\ receiving
  /\ chan # <<>>
  /\ received' = Append(received, Head(chan))
  /\ chan' = Tail(chan)
  /\ receiving' = FALSE
  /\ UNCHANGED <<closed, offered, sending>>

FailReceive ==
  /\ receiving
  /\ closed
  /\ chan = <<>>
  /\ receiving' = FALSE
  /\ UNCHANGED <<chan, closed, offered, sending, received>>

Close ==
  /\ ~closed
  /\ closed' = TRUE
  /\ UNCHANGED <<chan, offered, sending, receiving, received>>

-----------------------------------------------------------------------------
Next ==
  \/ TrySend \/ BeginSend \/ EndSend \/ AbandonSend
  \/ BeginReceive \/ EndReceive \/ FailReceive
  \/ Close

(* Nobody has to call, but a call that can return does.                    *)
Fairness ==
  /\ WF_vars(EndSend)
  /\ WF_vars(AbandonSend)
  /\ WF_vars(EndReceive)
  /\ WF_vars(FailReceive)

Spec == Init /\ [][Next]_vars
FairSpec == Spec /\ Fairness
=============================================================================
