----------------------------- MODULE ThreadsProofs -----------------------------
(***************************************************************************)
(* What ThreadSafeQueue guarantees for every capacity and every number of  *)
(* items: types and bound, no lost wakeup, first in first out, a lossless  *)
(* blocking send, and that its steps are steps of BoundedChannel.  And     *)
(* what the watchdogs do: systemd kills the camera process only when a     *)
(* call of it hangs, for every size of the queues, every limit of a        *)
(* heartbeat and every set of threads that may hang, as long as            *)
(* WatchdogSec is at least two ticks, one for main's polling and one for   *)
(* the joins.                                                              *)
(***************************************************************************)
EXTENDS MCThreads, SequenceTheorems, TLAPS

LEMMA BoundInit == Init => TypeOK
<1> SUFFICES ASSUME Init PROVE TypeOK
  OBVIOUS
<1>1. <<>> \in Seq(Nat) /\ Len(<<>>) = 0
  OBVIOUS
<1>2. 0 \in 0..MaxItems /\ 0 <= Capacity
  BY QueueAssumption
<1> QED
  BY <1>1, <1>2 DEF Init, TypeOK, ThreadState

LEMMA BoundInsert ==
  ASSUME TypeOK, HasRoom, NEW item \in Nat, Insert(item)
  PROVE  /\ queue' \in Seq(Nat) /\ Len(queue') <= Capacity
         /\ accepted' \in Seq(Nat)
         /\ producer' \in ThreadState
  BY QueueAssumption DEF TypeOK, HasRoom, Insert, ThreadState

LEMMA BoundStep == TypeOK /\ [Next]_vars => TypeOK'
<1> SUFFICES ASSUME TypeOK, [Next]_vars PROVE TypeOK'
  OBVIOUS
<1> USE QueueAssumption DEF TypeOK, ThreadState, HasRoom
<1>1. CASE Push
  <2>1. issued' \in 0..MaxItems /\ issued + 1 \in Nat
    BY <1>1 DEF Push
  <2>2. CASE HasRoom /\ Insert(issued + 1)
    BY <1>1, <2>1, <2>2, BoundInsert DEF Push
  <2>3. CASE ~(HasRoom /\ Insert(issued + 1))
    BY <1>1, <2>1, <2>3 DEF Push
  <2> QED
    BY <2>2, <2>3
<1>2. CASE PushOrWait
  BY <1>2 DEF PushOrWait
<1>3. CASE PushOrWaitLocked
  <2>1. CASE HasRoom /\ Insert(issued)
    BY <1>3, <2>1, BoundInsert DEF PushOrWaitLocked
  <2>2. CASE ~(HasRoom /\ Insert(issued))
    BY <1>3, <2>2 DEF PushOrWaitLocked
  <2> QED
    BY <2>1, <2>2
<1>4. CASE NotifyConsumer
  BY <1>4 DEF NotifyConsumer
<1>5. CASE Pop
  BY <1>5 DEF Pop
<1>6. CASE PopLocked
  <2>1. CASE queue = <<>>
    BY <1>6, <2>1 DEF PopLocked
  <2>2. CASE queue # <<>>
    <3>1. /\ Head(queue) \in Nat
          /\ Tail(queue) \in Seq(Nat)
          /\ Len(Tail(queue)) <= Len(queue)
          /\ Append(received, Head(queue)) \in Seq(Nat)
      BY <2>2
    <3>2. /\ received' = Append(received, Head(queue))
          /\ queue' = Tail(queue)
          /\ consumer' = "notify"
          /\ UNCHANGED <<shut, producer, issued, accepted, refused>>
      BY <1>6, <2>2 DEF PopLocked
    <3>3. Len(queue') <= Capacity
      BY <3>1, <3>2, QueueAssumption
    <3> QED
      BY <3>1, <3>2, <3>3
  <2> QED
    BY <2>1, <2>2
<1>7. CASE NotifyProducer
  BY <1>7 DEF NotifyProducer
<1>8. CASE Shutdown
  BY <1>8 DEF Shutdown, Woken
<1>9. CASE SpuriousWakeup
  BY <1>9 DEF SpuriousWakeup
<1>10. CASE UNCHANGED vars
  BY <1>10 DEF vars
<1> QED
  BY <1>1, <1>2, <1>3, <1>4, <1>5, <1>6, <1>7, <1>8, <1>9, <1>10 DEF Next

(* Every reachable state is well typed and within _max_size.               *)
THEOREM QueueBounded == Spec => []TypeOK
BY BoundInit, BoundStep, PTL DEF Spec

-----------------------------------------------------------------------------
LEMMA WakeupStep == TypeOK /\ NoLostWakeup /\ [Next]_vars => NoLostWakeup'
<1> SUFFICES ASSUME TypeOK, NoLostWakeup, [Next]_vars PROVE NoLostWakeup'
  OBVIOUS
<1> USE QueueAssumption DEF TypeOK, NoLostWakeup, ThreadState, HasRoom
<1>1. CASE Push
  BY <1>1 DEF Push, Insert
<1>2. CASE PushOrWait
  BY <1>2 DEF PushOrWait
<1>3. CASE PushOrWaitLocked
  BY <1>3 DEF PushOrWaitLocked, Insert
<1>4. CASE NotifyConsumer
  BY <1>4 DEF NotifyConsumer
<1>5. CASE Pop
  BY <1>5 DEF Pop
<1>6. CASE PopLocked
  BY <1>6 DEF PopLocked
<1>7. CASE NotifyProducer
  BY <1>7 DEF NotifyProducer
<1>8. CASE Shutdown
  BY <1>8 DEF Shutdown, Woken
<1>9. CASE SpuriousWakeup
  BY <1>9 DEF SpuriousWakeup
<1>10. CASE UNCHANGED vars
  BY <1>10 DEF vars
<1> QED
  BY <1>1, <1>2, <1>3, <1>4, <1>5, <1>6, <1>7, <1>8, <1>9, <1>10 DEF Next

(* No thread sleeps through the event it waits for, and hence the producer *)
(* and the consumer never sleep at the same time: asleep together they     *)
(* would need a queue that is empty and full.                              *)
THEOREM QueueNoLostWakeup == Spec => [](NoLostWakeup /\ NotBothAsleep)
<1>1. Init => NoLostWakeup
  BY DEF Init, NoLostWakeup
<1>2. TypeOK /\ NoLostWakeup => NotBothAsleep
  BY QueueAssumption DEF TypeOK, NoLostWakeup, NotBothAsleep, HasRoom
<1> QED
  BY <1>1, <1>2, WakeupStep, QueueBounded, PTL DEF Spec

-----------------------------------------------------------------------------
LEMMA OrderStep == TypeOK /\ FirstInFirstOut /\ [Next]_vars => FirstInFirstOut'
<1> SUFFICES ASSUME TypeOK, FirstInFirstOut, [Next]_vars PROVE FirstInFirstOut'
  OBVIOUS
<1> USE DEF FirstInFirstOut
<1> /\ queue \in Seq(Nat) /\ accepted \in Seq(Nat) /\ received \in Seq(Nat)
    /\ issued \in Nat
  BY QueueAssumption DEF TypeOK
<1> Len(queue) \in Nat /\ Len(accepted) \in Nat /\ Len(received) \in Nat
  BY LenProperties
<1>1. ASSUME NEW item \in Nat, Insert(item), UNCHANGED received
      PROVE  FirstInFirstOut'
  <2>1. /\ queue' = Append(queue, item)
        /\ accepted' = Append(accepted, item)
        /\ received' = received
    BY <1>1 DEF Insert
  <2>2. /\ Len(queue') = Len(queue) + 1
        /\ Len(accepted') = Len(accepted) + 1
        /\ queue'[Len(queue) + 1] = item
        /\ accepted'[Len(accepted) + 1] = item
        /\ \A i \in 1..Len(queue) : queue'[i] = queue[i]
        /\ \A i \in 1..Len(accepted) : accepted'[i] = accepted[i]
    BY <2>1, AppendProperties
  <2>3. /\ Len(accepted') = Len(received') + Len(queue')
        /\ \A i \in 1..Len(received') : received'[i] = accepted'[i]
    BY <2>1, <2>2
  <2>4. ASSUME NEW i \in 1..Len(queue')
        PROVE  queue'[i] = accepted'[Len(received') + i]
    <3>1. CASE i <= Len(queue)
      <4>1. i \in 1..Len(queue) /\ Len(received) + i \in 1..Len(accepted)
        BY <2>2, <3>1
      <4>2. queue'[i] = queue[i] /\ queue[i] = accepted[Len(received) + i]
        BY <2>2, <4>1
      <4>3. accepted'[Len(received) + i] = accepted[Len(received) + i]
        BY <2>2, <4>1
      <4> QED
        BY <2>1, <4>2, <4>3
    <3>2. CASE i = Len(queue) + 1
      BY <2>1, <2>2, <3>2
    <3> QED
      BY <2>2, <3>1, <3>2
  <2> QED
    BY <2>3, <2>4
<1>2. CASE Push
  <2>1. CASE Insert(issued + 1)
    BY <1>1, <1>2, <2>1 DEF Push
  <2>2. CASE ~Insert(issued + 1)
    BY <1>2, <2>2 DEF Push
  <2> QED
    BY <2>1, <2>2
<1>3. CASE PushOrWaitLocked
  <2>1. CASE Insert(issued)
    BY <1>1, <1>3, <2>1 DEF PushOrWaitLocked
  <2>2. CASE ~Insert(issued)
    BY <1>3, <2>2 DEF PushOrWaitLocked
  <2> QED
    BY <2>1, <2>2
<1>4. CASE PopLocked
  <2>1. CASE queue = <<>>
    BY <1>4, <2>1 DEF PopLocked
  <2>2. CASE queue # <<>>
    <3>1. /\ received' = Append(received, Head(queue))
          /\ queue' = Tail(queue)
          /\ accepted' = accepted
      BY <1>4, <2>2 DEF PopLocked
    <3>2. /\ Len(queue) > 0
          /\ Head(queue) = queue[1]
          /\ Len(queue') = Len(queue) - 1
          /\ Len(received') = Len(received) + 1
          /\ received'[Len(received) + 1] = Head(queue)
          /\ \A i \in 1..Len(received) : received'[i] = received[i]
      BY <2>2, <3>1, AppendProperties
    <3>3. ASSUME NEW i \in 1..Len(received')
          PROVE  received'[i] = accepted'[i]
      <4>1. CASE i <= Len(received)
        BY <3>1, <3>2, <4>1
      <4>2. CASE i = Len(received) + 1
        BY <3>1, <3>2, <4>2
      <4> QED
        BY <3>1, <3>2, <4>1, <4>2
    <3>4. \A i \in 1..Len(queue') : queue'[i] = queue[i + 1]
      BY <2>2, <3>1, HeadTailProperties
    <3>5. ASSUME NEW i \in 1..Len(queue')
          PROVE  queue'[i] = accepted'[Len(received') + i]
      <4>1. queue[i + 1] = accepted[Len(received) + (i + 1)]
        BY <3>2
      <4> QED
        BY <3>1, <3>2, <3>4, <4>1
    <3>6. Len(accepted') = Len(received') + Len(queue')
      <4>1. Len(accepted') = Len(accepted)
        BY <3>1
      <4> QED
        BY <3>2, <4>1
    <3> QED
      BY <3>3, <3>5, <3>6
  <2> QED
    BY <2>1, <2>2
<1>5. CASE UNCHANGED <<queue, accepted, received>>
  BY <1>5
<1> QED
  BY <1>2, <1>3, <1>4, <1>5
     DEF Next, vars, PushOrWait, NotifyConsumer, Pop, NotifyProducer,
         Shutdown, SpuriousWakeup

(* Whatever the interleaving, the popped items followed by the queued ones *)
(* are the inserted ones in insertion order.                               *)
THEOREM QueueFirstInFirstOut == Spec => []FirstInFirstOut
<1>1. Init => FirstInFirstOut
  BY DEF Init, FirstInFirstOut
<1> QED
  BY <1>1, OrderStep, QueueBounded, PTL DEF Spec

-----------------------------------------------------------------------------
LEMMA LosslessStep ==
  TypeOK /\ BlockingSendIsLossless /\ [Next]_vars => BlockingSendIsLossless'
<1> SUFFICES ASSUME TypeOK, BlockingSendIsLossless, [Next]_vars, ~shut'
             PROVE  BlockingSendIsLossless'
  BY DEF BlockingSendIsLossless
<1> USE DEF BlockingSendIsLossless
<1> /\ accepted \in Seq(Nat) /\ Len(accepted) \in Nat /\ issued \in Nat
    /\ producer \in ThreadState /\ refused \in Nat
  BY QueueAssumption, LenProperties DEF TypeOK
<1>0. CASE Push
  <2>1. CASE Insert(issued + 1)
    BY <1>0, <2>1 DEF Push, Insert
  <2>2. CASE ~Insert(issued + 1)
    BY <1>0, <2>2 DEF Push
  <2> QED
    BY <2>1, <2>2
<1>1. CASE PushOrWait
  BY <1>1 DEF PushOrWait
<1>2. CASE PushOrWaitLocked
  BY <1>2 DEF PushOrWaitLocked, Insert
<1>3. CASE NotifyConsumer
  BY <1>3 DEF NotifyConsumer
<1>4. CASE Pop
  BY <1>4 DEF Pop
<1>5. CASE PopLocked
  BY <1>5 DEF PopLocked
<1>6. CASE NotifyProducer
  BY <1>6 DEF NotifyProducer
<1>7. CASE SpuriousWakeup
  BY <1>7 DEF SpuriousWakeup
<1>8. CASE UNCHANGED vars
  BY <1>8 DEF vars
<1> QED
  BY <1>0, <1>1, <1>2, <1>3, <1>4, <1>5, <1>6, <1>7, <1>8 DEF Next, Shutdown

(* Until shutdown, every item issued was inserted, turned away by push, or *)
(* is the one its caller is blocked on in push_or_wait.                    *)
THEOREM QueueLossless == Spec => []BlockingSendIsLossless
<1>1. Init => BlockingSendIsLossless
  BY DEF Init, BlockingSendIsLossless
<1> QED
  BY <1>1, LosslessStep, QueueBounded, PTL DEF Spec

-----------------------------------------------------------------------------
LEMMA ChannelStep == TypeOK /\ [Next]_vars => [Channel!Next]_Channel!vars
<1> SUFFICES ASSUME TypeOK, [Next]_vars PROVE [Channel!Next]_Channel!vars
  OBVIOUS
<1> USE DEF TypeOK, ThreadState, HasRoom, Channel!HasRoom
<1>1. CASE Push
  <2>1. Channel!TrySend
    BY <1>1 DEF Push, Insert, Channel!TrySend
  <2> QED
    BY <2>1 DEF Channel!Next
<1>2. CASE PushOrWait
  <2>1. Channel!BeginSend
    BY <1>2 DEF PushOrWait, Channel!BeginSend
  <2> QED
    BY <2>1 DEF Channel!Next
<1>3. CASE PushOrWaitLocked
  <2>1. Channel!EndSend \/ Channel!AbandonSend \/ UNCHANGED Channel!vars
    BY <1>3 DEF PushOrWaitLocked, Insert, Channel!EndSend,
                Channel!AbandonSend, Channel!vars
  <2> QED
    BY <2>1 DEF Channel!Next
<1>4. CASE NotifyConsumer
  BY <1>4 DEF NotifyConsumer, Channel!vars
<1>5. CASE Pop
  <2>1. Channel!BeginReceive
    BY <1>5 DEF Pop, Channel!BeginReceive
  <2> QED
    BY <2>1 DEF Channel!Next
<1>6. CASE PopLocked
  <2>1. Channel!EndReceive \/ Channel!FailReceive \/ UNCHANGED Channel!vars
    BY <1>6 DEF PopLocked, Channel!EndReceive, Channel!FailReceive, Channel!vars
  <2> QED
    BY <2>1 DEF Channel!Next
<1>7. CASE NotifyProducer
  BY <1>7 DEF NotifyProducer, Channel!vars
<1>8. CASE Shutdown
  <2>1. Channel!Close
    BY <1>8 DEF Shutdown, Woken, Channel!Close
  <2> QED
    BY <2>1 DEF Channel!Next
<1>9. CASE SpuriousWakeup
  BY <1>9 DEF SpuriousWakeup, Channel!vars
<1>10. CASE UNCHANGED vars
  BY <1>10 DEF vars, Channel!vars
<1> QED
  BY <1>1, <1>2, <1>3, <1>4, <1>5, <1>6, <1>7, <1>8, <1>9, <1>10 DEF Next

(* ThreadSafeQueue's mutex, condition variables and predicates implement   *)
(* the bounded channel whose operations are atomic (the safety half of     *)
(* ImplementsChannel; its fairness is checked by TLC).                     *)
THEOREM QueueImplementsChannel == Spec => Channel!Spec
<1>1. Init => Channel!Init
  BY DEF Init, Channel!Init
<1> QED
  BY <1>1, ChannelStep, QueueBounded, PTL DEF Spec, Channel!Spec

(* The behaviours of the run are behaviours of the queue, so these hold    *)
(* there too.                                                              *)
LEMMA RunsAreQueues == MCSafety => Spec
<1>1. MCInit => Init
  BY DEF MCInit
<1>2. [MCNext]_<<mechanism, vars, process>> => [Next]_vars
  BY DEF MCNext, vars
<1> QED
  BY <1>1, <1>2, PTL DEF MCSafety, Spec

-----------------------------------------------------------------------------
(* Without a hung call a tick needs a heartbeat since the last one of every *)
(* thread that has not stopped.  While main polls it tells systemd between *)
(* two ticks.  Once it joins, no thread beats any more and none sleeps: it *)
(* is one tick at most until all have stopped.                             *)
InTime ==
  /\ main = "polling" => silence \in 0 .. 1
  /\ main = "joining" => ~running /\ closed
  /\ hung = {} => /\ main # "killed"
                  /\ main = "joining" => \/ silence \in 0 .. 1
                                         \/ silence = 2 /\ \A t \in W!Threads : age[t] # 0

WatchdogInv == W!TypeOK /\ InTime

-----------------------------------------------------------------------------
(* Types.                                                                  *)

LEMMA Limits ==
  /\ Room \in Nat \ {0} /\ Timeout \in Nat \ {0} /\ SystemdTimeout \in Nat \ {0}
  /\ GrpcEnabled \in BOOLEAN
BY ThreadsAssumption DEF W!WatchdogConstants

(* A thread at the top of its loop: its heartbeat is new while the flag is *)
(* set, and as it was otherwise.                                           *)
LEMMA NextRoundKeeps ==
  ASSUME W!TypeOK, NEW t \in W!Threads, W!NextRound(t)
  PROVE  /\ pc' \in [W!Threads -> {"starting", "popping", "working", "pushing",
                                 "finishing", "stopped"}]
         /\ age' \in [W!Threads -> W!Never .. Timeout + 1]
         /\ ~running => age' = age
<1>1. 0 \in W!Never .. Timeout + 1
  BY Limits DEF W!Never
<1> QED
  BY <1>1 DEF W!TypeOK, W!NextRound, W!Goto

(* A step of a thread.                                                     *)
LEMMA ThreadStep ==
  ASSUME W!TypeOK, NEW t \in W!Threads, W!Thread(t)
  PROVE  /\ W!TypeOK' /\ (~running => age' = age)
         /\ UNCHANGED <<running, main, closed, silence, hung>>
<1>1. UNCHANGED <<running, main, closed, silence, hung>>
  BY DEF W!Thread, W!Start, W!Finish, W!Pop, W!WorkForNothing, W!Deliver,
         W!CaptureFrame, W!CapturePush
<1>2. /\ pc' \in [W!Threads -> {"starting", "popping", "working", "pushing",
                              "finishing", "stopped"}]
      /\ age' \in [W!Threads -> W!Never .. Timeout + 1]
      /\ ~running => age' = age
  <2>1. CASE W!NextRound(t) \/ W!NextRound("capture")
    BY <2>1, NextRoundKeeps DEF W!Threads
  <2>2. CASE \E place \in {"stopped", "working", "pushing"} :
               (W!Goto(t, place) \/ W!Goto("capture", place)) /\ age' = age
    BY <2>2 DEF W!TypeOK, W!Goto
  <2> QED
    BY <2>1, <2>2 DEF W!Thread, W!Start, W!Finish, W!Pop, W!WorkForNothing, W!Deliver,
                      W!CaptureFrame, W!CapturePush
<1>3. len' \in [W!Queues -> 0 .. Room]
  <2>1. len \in [W!Queues -> 0 .. Room]
    BY DEF W!TypeOK
  <2>2. CASE len' = len
    BY <2>1, <2>2
  <2>3. ASSUME NEW q \in W!Queues, len[q] > 0, len' = [len EXCEPT ![q] = @ - 1]
        PROVE  len' \in [W!Queues -> 0 .. Room]
    <3>1. len[q] - 1 \in 0 .. Room
      BY <2>1, <2>3, Limits
    <3> QED
      BY <2>1, <2>3, <3>1
  <2>4. ASSUME NEW q \in W!Queues, len[q] < Room, len' = [len EXCEPT ![q] = @ + 1]
        PROVE  len' \in [W!Queues -> 0 .. Room]
    <3>1. len[q] + 1 \in 0 .. Room
      BY <2>1, <2>4, Limits
    <3> QED
      BY <2>1, <2>4, <3>1
  <2>5. /\ t \in W!Consumers => W!In[t] \in W!Queues
        /\ t \in {"inference", "tracking"} => W!Out[t] \in W!Queues
        /\ "frame" \in W!Queues
    BY DEF W!Consumers, W!Queues, W!In, W!Out
  <2> QED
    BY <2>2, <2>3, <2>4, <2>5 DEF W!Thread, W!Start, W!Finish, W!Pop, W!WorkForNothing, W!Deliver,
                                  W!CaptureFrame, W!CapturePush
<1> QED
  BY <1>1, <1>2, <1>3 DEF W!TypeOK

(* A tick makes every count one older, up to its limit.                    *)
LEMMA OlderKeeps ==
  ASSUME NEW limit \in Nat \ {0}, NEW n \in W!Never .. limit + 1
  PROVE  /\ W!Older(n, limit) \in W!Never .. limit + 1
         /\ W!Older(n, limit) # 0
         /\ n >= 0 => W!Older(n, limit) >= 0 /\ W!Older(n, limit) <= n + 1
BY DEF W!Older, W!Never

LEMMA TickStep ==
  ASSUME WatchdogInv, W!Tick
  PROVE  WatchdogInv'
<1>1. /\ UNCHANGED <<running, main, closed, len, pc, hung>>
      /\ age' = [t \in W!Threads |-> W!Older(age[t], Timeout)]
      /\ silence' = W!Older(silence, SystemdTimeout)
      /\ W!Alive /\ W!TimeMayPass
  BY DEF W!Tick
<1>2. W!TypeOK /\ InTime
  BY DEF WatchdogInv
<1>3. /\ age' \in [W!Threads -> W!Never .. Timeout + 1]
      /\ \A t \in W!Threads : age'[t] # 0
  <2>1. \A t \in W!Threads : age[t] \in W!Never .. Timeout + 1
    BY <1>2 DEF W!TypeOK
  <2> QED
    BY <1>1, <2>1, OlderKeeps, Limits
<1>4. /\ silence \in 0 .. SystemdTimeout + 1 /\ silence' \in 0 .. SystemdTimeout + 1
      /\ silence' <= silence + 1
  <2>1. silence \in 0 .. SystemdTimeout + 1
    BY <1>2 DEF W!TypeOK
  <2>2. silence \in W!Never .. SystemdTimeout + 1 /\ silence >= 0
    BY <2>1, Limits DEF W!Never
  <2>3. silence' \in W!Never .. SystemdTimeout + 1 /\ silence' >= 0 /\ silence' <= silence + 1
    BY <1>1, <2>2, OlderKeeps, Limits
  <2> QED
    BY <2>1, <2>3, Limits DEF W!Never
<1>5. W!TypeOK'
  BY <1>1, <1>2, <1>3, <1>4 DEF W!TypeOK
<1>6. CASE main = "polling"
  <2>1. silence = 0
    BY <1>1, <1>6 DEF W!TimeMayPass
  <2>2. silence' \in 0 .. 1
    BY <1>4, <2>1
  <2> QED
    BY <1>1, <1>5, <1>6, <2>2 DEF WatchdogInv, InTime
<1>7. CASE main = "joining" /\ hung = {}
  <2>1. ~running /\ closed /\ ~W!AllStopped
    BY <1>1, <1>2, <1>7 DEF InTime, W!TimeMayPass
  <2>2. PICK t \in W!Threads : pc[t] # "stopped"
    BY <2>1 DEF W!AllStopped
  <2>3. age[t] = 0
    BY <1>1, <1>7, <2>1, <2>2 DEF W!TimeMayPass, W!Waiting
  <2>4. silence \in 0 .. 1
    BY <1>2, <1>7, <2>3 DEF InTime
  <2>5. silence' \in 0 .. 2
    BY <1>4, <2>4
  <2>6. silence' \in 0 .. 1 \/ silence' = 2
    BY <2>5
  <2> QED
    BY <1>1, <1>3, <1>5, <1>7, <2>1, <2>6 DEF WatchdogInv, InTime
<1>8. CASE main = "joining" /\ hung # {}
  BY <1>1, <1>2, <1>5, <1>8 DEF WatchdogInv, InTime
<1> QED
  <2>1. main \in {"polling", "joining"}
    BY <1>1, <1>2 DEF W!TypeOK, W!Alive
  <2> QED
    BY <1>6, <1>7, <1>8, <2>1

-----------------------------------------------------------------------------
(* The invariant.                                                          *)

LEMMA WatchdogBegins == W!Init => WatchdogInv
<1> SUFFICES ASSUME W!Init PROVE WatchdogInv
  OBVIOUS
<1>1. age \in [W!Threads -> W!Never .. Timeout + 1]
  BY Limits DEF W!Init, W!Never
<1>2. len \in [W!Queues -> 0 .. Room] /\ silence \in 0 .. SystemdTimeout + 1
  BY Limits DEF W!Init
<1>3. pc \in [W!Threads -> {"starting", "popping", "working", "pushing", "finishing", "stopped"}]
  BY DEF W!Init
<1>4. running = TRUE /\ main = "polling" /\ closed = FALSE /\ silence = 0 /\ hung = {}
  BY DEF W!Init
<1> QED
  <2>1. W!TypeOK
    BY <1>1, <1>2, <1>3, <1>4 DEF W!TypeOK
  <2>2. InTime
    BY <1>4 DEF InTime
  <2> QED
    BY <2>1, <2>2 DEF WatchdogInv

LEMMA WatchdogStep ==
  ASSUME SystemdTimeout >= 2, WatchdogInv, [W!Next]_W!vars
  PROVE  WatchdogInv'
<1>0. W!TypeOK /\ InTime
  BY DEF WatchdogInv
<1>1. ASSUME NEW t \in W!Threads, W!Thread(t) PROVE WatchdogInv'
  BY <1>0, <1>1, ThreadStep DEF WatchdogInv, InTime
<1>2. ASSUME NEW t \in W!Threads, W!Hang(t) PROVE WatchdogInv'
  BY <1>0, <1>2 DEF WatchdogInv, W!TypeOK, InTime, W!Hang
<1>3. CASE W!Poll
  <2>1. silence' \in 0 .. SystemdTimeout + 1 /\ silence' \in 0 .. 1
    BY <1>3, Limits DEF W!Poll
  <2> QED
    BY <1>0, <1>3, <2>1 DEF WatchdogInv, W!TypeOK, InTime, W!Poll
<1>4. CASE W!LeavePolling
  BY <1>0, <1>4 DEF WatchdogInv, W!TypeOK, InTime, W!LeavePolling
<1>5. CASE W!Return
  BY <1>0, <1>5 DEF WatchdogInv, W!TypeOK, InTime, W!Return
<1>6. CASE W!Signal
  BY <1>0, <1>6 DEF WatchdogInv, W!TypeOK, InTime, W!Signal
<1>7. CASE W!SystemdKills
  <2>1. hung # {}
    <3>1. SUFFICES ASSUME hung = {} PROVE FALSE
      OBVIOUS
    <3>2. main \in {"polling", "joining"}
      BY <1>0, <1>7 DEF W!SystemdKills, W!Alive, W!TypeOK
    <3>3. silence \in 0 .. 1 \/ silence = 2
      BY <1>0, <3>1, <3>2 DEF InTime
    <3>4. silence > SystemdTimeout
      BY <1>7 DEF W!SystemdKills
    <3> QED
      BY <3>3, <3>4, Limits
  <2> QED
    BY <1>0, <1>7, <2>1 DEF WatchdogInv, W!TypeOK, InTime, W!SystemdKills
<1>8. CASE W!Ended \/ UNCHANGED W!vars
  BY <1>0, <1>8 DEF WatchdogInv, W!TypeOK, InTime, W!Ended, W!vars
<1> QED
  BY <1>1, <1>2, <1>3, <1>4, <1>5, <1>6, <1>7, <1>8, TickStep DEF W!Next, W!Main

(* A process systemd has killed has a call that hangs: a shutdown in which *)
(* every call returns is over before WatchdogSec is, whatever the queues   *)
(* hold and wherever the threads are when it begins.                       *)
THEOREM KilledOnlyWhenHung ==
  ASSUME SystemdTimeout >= 2
  PROVE  MCSafety => []KilledOnlyIfHung
<1>1. MCInit => WatchdogInv
  BY WatchdogBegins DEF MCInit
<1>2. WatchdogInv /\ [MCNext]_<<mechanism, vars, process>> => WatchdogInv'
  <2>1. [MCNext]_<<mechanism, vars, process>> => [W!Next]_W!vars
    BY DEF MCNext, process, W!vars
  <2> QED
    BY <2>1, WatchdogStep
<1>3. WatchdogInv => KilledOnlyIfHung
  BY DEF WatchdogInv, InTime, KilledOnlyIfHung, W!KilledOnlyIfHung
<1> QED
  BY <1>1, <1>2, <1>3, PTL DEF MCSafety
=============================================================================
