--------------------------- MODULE ThreadSafeQueue ---------------------------
(***************************************************************************)
(* ThreadSafeQueue<T> of edge/src/pipeline/pipeline.cpp: the mutex and the *)
(* two condition variables behind push, push_or_wait, pop and shutdown,    *)
(* used as pipeline_run uses each of its three queues: one producer        *)
(* thread, one consumer thread, and the main thread that shuts it down.    *)
(* The producer of the frame queue calls push_or_wait and those of the     *)
(* other two call push; here one producer is free to use either each time. *)
(*                                                                         *)
(* Everything between taking _mutex and giving it up (at unlock, at return *)
(* or by blocking in wait) is one step: every access to the queue happens  *)
(* under that mutex.  What happens outside it is a step of its own: the    *)
(* notify_one that push and pop issue AFTER unlock, and the way a notified *)
(* thread takes the mutex again and re-evaluates its predicate.            *)
(***************************************************************************)
EXTENDS Naturals, Sequences

CONSTANTS
  Capacity,       \* _max_size
  MaxItems        \* bound: the producer inserts the items 1..MaxItems

ASSUME QueueAssumption ==
  /\ Capacity \in Nat \ {0}
  /\ MaxItems \in Nat

VARIABLES
  queue,      \* _queue, oldest item first
  shut,       \* _shutdown
  producer,   \* where the producer thread is
  consumer,   \* where the consumer thread is
  issued,     \* the last item the producer has tried to insert
  accepted,   \* history: the items inserted, in order
  received,   \* history: the items popped, in order
  refused     \* history: how many items push has turned away

vars == <<queue, shut, producer, consumer, issued, accepted, received,
          refused>>

(* "out": not inside a queue call; "locking": in a call, about to take the *)
(* mutex, either on entry or after a wakeup; "waiting": in the wait set of *)
(* its condition variable; "notify": has unlocked and still has to notify  *)
(* the other side.                                                         *)
ThreadState == {"out", "locking", "waiting", "notify"}

HasRoom == Len(queue) < Capacity

Init ==
  /\ queue = <<>>
  /\ shut = FALSE
  /\ producer = "out"
  /\ consumer = "out"
  /\ issued = 0
  /\ accepted = <<>>
  /\ received = <<>>
  /\ refused = 0

-----------------------------------------------------------------------------
Insert(item) ==
  /\ queue' = Append(queue, item)
  /\ accepted' = Append(accepted, item)
  /\ producer' = "notify"

(* push: false at once when the queue is full; _shutdown is not looked at. *)
Push ==
  /\ producer = "out"
  /\ issued < MaxItems
  /\ issued' = issued + 1
  /\ \/ HasRoom /\ Insert(issued + 1) /\ UNCHANGED refused
     \/ ~HasRoom /\ refused' = refused + 1 /\ UNCHANGED <<queue, accepted, producer>>
  /\ UNCHANGED <<shut, consumer, received>>

PushOrWait ==
  /\ producer = "out"
  /\ issued < MaxItems
  /\ issued' = issued + 1
  /\ producer' = "locking"
  /\ UNCHANGED <<queue, shut, consumer, accepted, received, refused>>

\* Mutant of PushOrWaitLocked: any wakeup ends the wait, the predicate is not
\* evaluated again (a wait with no loop around it).
PushOrWaitLockedNoLoop ==
  /\ producer = "locking"
  /\ \/ /\ ~HasRoom \/ shut
        /\ \E state \in {"waiting", "out"} : producer' = state
        /\ UNCHANGED <<queue, accepted>>
     \/ HasRoom /\ ~shut /\ Insert(issued)
  /\ UNCHANGED <<shut, consumer, issued, received, refused>>

(* push_or_wait with the mutex held: block until there is room or a        *)
(* shutdown; after a shutdown return without inserting the item.           *)
PushOrWaitLocked ==
  /\ producer = "locking"
  /\ \/ /\ ~HasRoom
        /\ ~shut
        /\ producer' = "waiting"
        /\ UNCHANGED <<queue, accepted>>
     \/ /\ shut
        /\ producer' = "out"
        /\ UNCHANGED <<queue, accepted>>
     \/ /\ HasRoom
        /\ ~shut
        /\ Insert(issued)
  /\ UNCHANGED <<shut, consumer, issued, received, refused>>

(* _cond.notify_one() after unlock.                                        *)
NotifyConsumer ==
  /\ producer = "notify"
  /\ producer' = "out"
  /\ consumer' = IF consumer = "waiting" THEN "locking" ELSE consumer
  /\ UNCHANGED <<queue, shut, issued, accepted, received, refused>>

-----------------------------------------------------------------------------
Pop ==
  /\ consumer = "out"
  /\ consumer' = "locking"
  /\ UNCHANGED <<queue, shut, producer, issued, accepted, received, refused>>

\* Mutant of PopLocked: a queue that is shut down is taken to be empty.
PopLockedIgnoresRemainder ==
  /\ consumer = "locking"
  /\ \/ /\ shut \/ queue = <<>>
        /\ consumer' = IF shut THEN "out" ELSE "waiting"
        /\ UNCHANGED <<queue, received>>
     \/ /\ ~shut /\ queue # <<>>
        /\ received' = Append(received, Head(queue))
        /\ queue' = Tail(queue)
        /\ consumer' = "notify"
  /\ UNCHANGED <<shut, producer, issued, accepted, refused>>

(* pop with the mutex held: block until there is an item or a shutdown;    *)
(* false only when shut down AND empty.                                    *)
PopLocked ==
  /\ consumer = "locking"
  /\ \/ /\ queue = <<>>
        /\ ~shut
        /\ consumer' = "waiting"
        /\ UNCHANGED <<queue, received>>
     \/ /\ queue = <<>>
        /\ shut
        /\ consumer' = "out"
        /\ UNCHANGED <<queue, received>>
     \/ /\ queue # <<>>
        /\ received' = Append(received, Head(queue))
        /\ queue' = Tail(queue)
        /\ consumer' = "notify"
  /\ UNCHANGED <<shut, producer, issued, accepted, refused>>

(* _not_full.notify_one() after unlock.                                    *)
NotifyProducer ==
  /\ consumer = "notify"
  /\ consumer' = "out"
  /\ producer' = IF producer = "waiting" THEN "locking" ELSE producer
  /\ UNCHANGED <<queue, shut, issued, accepted, received, refused>>

-----------------------------------------------------------------------------
(* shutdown: flag and both notify_all under the mutex.                     *)
Woken(state) == IF state = "waiting" THEN "locking" ELSE state

\* Mutant of Shutdown: only _not_full is notified.
ShutdownForgetsConsumer ==
  /\ ~shut
  /\ shut' = TRUE
  /\ producer' = Woken(producer)
  /\ UNCHANGED <<queue, consumer, issued, accepted, received, refused>>

Shutdown ==
  /\ ~shut
  /\ shut' = TRUE
  /\ producer' = Woken(producer)
  /\ consumer' = Woken(consumer)
  /\ UNCHANGED <<queue, issued, accepted, received, refused>>

(* std::condition_variable::wait may return without a notification.        *)
SpuriousWakeup ==
  /\ \/ /\ producer = "waiting"
        /\ producer' = "locking"
        /\ UNCHANGED consumer
     \/ /\ consumer = "waiting"
        /\ consumer' = "locking"
        /\ UNCHANGED producer
  /\ UNCHANGED <<queue, shut, issued, accepted, received, refused>>

Next ==
  \/ Push \/ PushOrWait \/ PushOrWaitLocked \/ NotifyConsumer
  \/ Pop \/ PopLocked \/ NotifyProducer
  \/ Shutdown \/ SpuriousWakeup

(* A thread inside a call is scheduled again whenever it can run; no       *)
(* thread is obliged to call, and no wakeup is spurious by obligation.     *)
Fairness ==
  /\ WF_vars(PushOrWaitLocked)
  /\ WF_vars(NotifyConsumer)
  /\ WF_vars(PopLocked)
  /\ WF_vars(NotifyProducer)

Spec == Init /\ [][Next]_vars
FairSpec == Spec /\ Fairness

-----------------------------------------------------------------------------
(* Types and bounds: every thread is in a known place, items are numbers,  *)
(* and neither push nor push_or_wait lets the queue outgrow _max_size,     *)
(* however the two threads interleave (pipeline.cpp:161 and :171).         *)
TypeOK ==
  /\ queue \in Seq(Nat) /\ Len(queue) <= Capacity
  /\ shut \in BOOLEAN
  /\ producer \in ThreadState
  /\ consumer \in ThreadState
  /\ issued \in 0..MaxItems
  /\ accepted \in Seq(Nat)
  /\ received \in Seq(Nat)
  /\ refused \in Nat

(* No lost wakeup: a thread asleep in pop has nothing to pop, or a         *)
(* producer is about to notify it; a thread asleep in push_or_wait has no  *)
(* room, or the consumer is about to notify it; and nobody sleeps on a     *)
(* queue that has been shut down.  The notifications are sent after the    *)
(* unlock (pipeline.cpp:164, :175, :186), so this is what could go wrong.  *)
NoLostWakeup ==
  /\ consumer = "waiting" => ~shut /\ (queue = <<>> \/ producer = "notify")
  /\ producer = "waiting" => ~shut /\ (~HasRoom \/ consumer = "notify")

(* The two threads never put each other to sleep: one of the two is always *)
(* able to go on.                                                          *)
NotBothAsleep == ~(producer = "waiting" /\ consumer = "waiting")

(* First in, first out: what was popped, followed by what is still queued, *)
(* is what was inserted, in the same order, nothing lost or duplicated.    *)
FirstInFirstOut ==
  /\ Len(accepted) = Len(received) + Len(queue)
  /\ \A i \in 1..Len(received) : received[i] = accepted[i]
  /\ \A i \in 1..Len(queue) : queue[i] = accepted[Len(received) + i]

(* push_or_wait never loses an item of an open queue: as long as shutdown  *)
(* has not been called every item issued was inserted, is in the hands of  *)
(* a blocked caller, or was turned away by push, which says so in its      *)
(* result (pipeline.cpp:161 and :233, "blocks when full, drops no frame"). *)
BlockingSendIsLossless ==
  ~shut => issued = Len(accepted) + refused
                    + (IF producer \in {"locking", "waiting"} THEN 1 ELSE 0)

(* The mutex-and-condition-variable queue implements the bounded channel:  *)
(* same steps, and the same calls return.                                  *)
Channel == INSTANCE BoundedChannel
  WITH chan <- queue, closed <- shut, offered <- issued,
       sending <- producer \in {"locking", "waiting"},
       receiving <- consumer \in {"locking", "waiting"}

(* The code's queue, scheduled fairly, is a fair bounded channel: a        *)
(* blocked call returns as soon as its condition stays true.               *)
ImplementsChannel == Channel!FairSpec
=============================================================================
