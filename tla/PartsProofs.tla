------------------------------ MODULE PartsProofs ------------------------------
(***************************************************************************)
(* What the four parts guarantee for every value of their constants: the   *)
(* buffers of a camera with any number of them, whichever of the two ways  *)
(* they are used; a unit that has been stopped, whatever start limit it    *)
(* has; reports, whatever size their buffer has; and a bridge that was     *)
(* stopped, with any number of clients and timers.  Each part has its own  *)
(* invariant; the steps of the others leave its variables alone.           *)
(***************************************************************************)
EXTENDS MCParts, Sequences, TLAPS

-----------------------------------------------------------------------------
(* Sequences in which nothing occurs twice.                                *)

LEMMA TailOfInjective ==
  ASSUME NEW S, NEW s \in Seq(S), s # <<>>, C!IsInjective(s)
  PROVE  /\ Tail(s) \in Seq(S) /\ Head(s) \in S
         /\ C!IsInjective(Tail(s))
         /\ C!ToSet(Tail(s)) = C!ToSet(s) \ {Head(s)}
         /\ Head(s) \in C!ToSet(s)
<1>1. Tail(s) \in Seq(S) /\ Head(s) \in S
  OBVIOUS
<1>2. /\ DOMAIN s = 1 .. Len(s) /\ Len(s) \in Nat \ {0} /\ Head(s) = s[1]
      /\ DOMAIN Tail(s) = 1 .. Len(s) - 1
      /\ \A i \in 1 .. Len(s) - 1 : Tail(s)[i] = s[i + 1]
  OBVIOUS
<1>3. C!IsInjective(Tail(s))
  BY <1>2 DEF C!IsInjective
<1>4. C!ToSet(Tail(s)) \subseteq C!ToSet(s) \ {Head(s)}
  BY <1>2 DEF C!ToSet, C!IsInjective
<1>5. ASSUME NEW x \in C!ToSet(s) \ {Head(s)} PROVE x \in C!ToSet(Tail(s))
  <2>1. PICK i \in 1 .. Len(s) : s[i] = x
    BY <1>2 DEF C!ToSet
  <2>2. i # 1
    BY <1>2, <2>1
  <2>3. i - 1 \in 1 .. Len(s) - 1 /\ Tail(s)[i - 1] = x
    BY <1>2, <2>1, <2>2
  <2> QED
    BY <1>2, <2>3 DEF C!ToSet
<1>6. Head(s) \in C!ToSet(s)
  BY <1>2 DEF C!ToSet
<1> QED
  BY <1>1, <1>3, <1>4, <1>5, <1>6

LEMMA AppendToInjective ==
  ASSUME NEW S, NEW s \in Seq(S), NEW x \in S
  PROVE  /\ Append(s, x) \in Seq(S)
         /\ C!ToSet(Append(s, x)) = C!ToSet(s) \union {x}
         /\ C!IsInjective(s) /\ x \notin C!ToSet(s) => C!IsInjective(Append(s, x))
<1>1. Append(s, x) \in Seq(S)
  OBVIOUS
<1>2. /\ DOMAIN s = 1 .. Len(s) /\ Len(s) \in Nat
      /\ DOMAIN Append(s, x) = 1 .. Len(s) + 1
      /\ Append(s, x)[Len(s) + 1] = x
      /\ \A i \in 1 .. Len(s) : Append(s, x)[i] = s[i]
  OBVIOUS
<1>3. C!ToSet(Append(s, x)) \subseteq C!ToSet(s) \union {x}
  BY <1>2 DEF C!ToSet
<1>4. C!ToSet(s) \union {x} \subseteq C!ToSet(Append(s, x))
  BY <1>2 DEF C!ToSet
<1>5. C!IsInjective(s) /\ x \notin C!ToSet(s) => C!IsInjective(Append(s, x))
  BY <1>2 DEF C!ToSet, C!IsInjective
<1> QED
  BY <1>1, <1>3, <1>4, <1>5

LEMMA ConcatOfInjective ==
  ASSUME NEW S, NEW s \in Seq(S), NEW t \in Seq(S), C!IsInjective(s), C!IsInjective(t),
         C!ToSet(s) \intersect C!ToSet(t) = {}
  PROVE  C!IsInjective(s \o t)
<1>1. /\ DOMAIN s = 1 .. Len(s) /\ DOMAIN t = 1 .. Len(t)
      /\ Len(s) \in Nat /\ Len(t) \in Nat
      /\ DOMAIN (s \o t) = 1 .. Len(s) + Len(t)
      /\ \A i \in 1 .. Len(s) + Len(t) :
           (s \o t)[i] = IF i <= Len(s) THEN s[i] ELSE t[i - Len(s)]
  OBVIOUS
<1>2. \A i \in 1 .. Len(s), j \in 1 .. Len(t) : s[i] # t[j]
  BY <1>1 DEF C!ToSet
<1> QED
  BY <1>1, <1>2 DEF C!IsInjective

-----------------------------------------------------------------------------
(* The camera.                                                             *)

(* The two sequences of the driver share no buffer, and it has none twice. *)
DriverOnce ==
  /\ C!IsInjective(incoming) /\ C!IsInjective(outgoing)
  /\ C!ToSet(incoming) \intersect C!ToSet(outgoing) = {}

CameraTypes ==
  /\ incoming \in Seq(C!Buffers) /\ outgoing \in Seq(C!Buffers)
  /\ fresh \in C!Buffers \union {C!None}
  /\ current \in C!Buffers \union {C!None}
  /\ index \in C!Buffers \union {C!None}
  /\ reader = "recording" => fresh \in C!Buffers
  /\ user \in {"queueing", "clearing"} => index \in C!Buffers

(* Between two reads of _current_buf_index by release_frame the reader may *)
(* have overwritten it; only while it is being cleared may it name a       *)
(* buffer the driver has, or one the reader has just taken.                *)
CurrentIsOut ==
  user # "clearing" /\ current # C!None =>
    current \notin C!WithDriver /\ (reader = "recording" => current # fresh)
FreshIsOut == reader = "recording" => fresh \notin C!WithDriver
IndexIsOut ==
  user = "queueing" => index \notin C!WithDriver /\ (reader = "recording" => index # fresh)

CameraInv == CameraTypes /\ DriverOnce /\ CurrentIsOut /\ FreshIsOut /\ IndexIsOut

(* The documented loop: a frame is in one place at a time.                 *)
LoopPlaces ==
  \/ /\ reader = "reading" /\ user = "popping" /\ queue = <<>>
     /\ fresh = C!None /\ frame = C!None /\ current = C!None
  \/ /\ reader = "recording" /\ user = "popping" /\ queue = <<>>
     /\ frame = C!None /\ current = C!None
  \/ /\ reader = "pushing" /\ user = "popping" /\ queue = <<>>
     /\ frame = C!None /\ current = fresh /\ fresh \in C!Buffers
  \/ /\ reader = "reading" /\ user = "popping" /\ queue = <<current>>
     /\ fresh = C!None /\ frame = C!None /\ current \in C!Buffers
  \/ /\ reader = "reading" /\ user = "using" /\ queue = <<>>
     /\ fresh = C!None /\ frame = current /\ current \in C!Buffers
  \/ /\ reader = "reading" /\ user \in {"queueing", "clearing"} /\ queue = <<>>
     /\ fresh = C!None /\ frame = C!None
LoopInv == use = "loop" => LoopPlaces

LEMMA LoopIsNext == C!Loop!Next => C!Next
BY DEF C!Loop!Next, C!Next, C!Loop!Reader, C!Reader, C!Loop!User, C!User,
       C!Loop!Fill, C!Fill, C!Loop!Dequeue, C!Dequeue, C!Loop!Record, C!Record,
       C!Loop!Push, C!Push, C!Loop!Pop, C!Pop, C!Loop!ReleaseLooks, C!ReleaseLooks,
       C!Loop!ReleaseQueues, C!ReleaseQueues, C!Loop!ReleaseClears, C!ReleaseClears,
       C!Loop!WithDriver, C!WithDriver, C!Loop!ToSet, C!ToSet, C!Loop!None, C!None

(* The driver is given buffers one at a time, in a sequence of its own.    *)
LEMMA CameraInit == C!Init => CameraInv
<1> SUFFICES ASSUME C!Init PROVE CameraInv
  OBVIOUS
<1>1. NumBuffers \in Nat \ {0}
  BY PartsAssumption DEF C!BuffersConstants
<1>2. incoming = [i \in 1 .. NumBuffers |-> i - 1] /\ outgoing = <<>>
  BY DEF C!Init
<1>3. incoming \in Seq(C!Buffers) /\ C!IsInjective(incoming)
  BY <1>1, <1>2 DEF C!Buffers, C!IsInjective
<1>4. outgoing \in Seq(C!Buffers) /\ C!IsInjective(outgoing) /\ C!ToSet(outgoing) = {}
  BY <1>2 DEF C!IsInjective, C!ToSet
<1> QED
  BY <1>3, <1>4
     DEF C!Init, CameraInv, CameraTypes, DriverOnce, CurrentIsOut, FreshIsOut, IndexIsOut

(* Steps of the camera and of the reader.                                  *)
LEMMA FillStep == ASSUME CameraInv, C!Fill PROVE CameraInv'
<1>1. /\ incoming' = Tail(incoming) /\ incoming # <<>>
      /\ outgoing' = Append(outgoing, Head(incoming))
      /\ UNCHANGED <<current, reader, fresh, user, index>>
  BY DEF C!Fill
<1>2. incoming \in Seq(C!Buffers) /\ outgoing \in Seq(C!Buffers) /\ DriverOnce
  BY DEF CameraInv, CameraTypes
<1>3. /\ incoming' \in Seq(C!Buffers) /\ Head(incoming) \in C!Buffers
      /\ C!IsInjective(incoming')
      /\ C!ToSet(incoming') = C!ToSet(incoming) \ {Head(incoming)}
      /\ Head(incoming) \in C!ToSet(incoming)
  BY <1>1, <1>2, TailOfInjective DEF DriverOnce
<1>4. Head(incoming) \notin C!ToSet(outgoing)
  BY <1>2, <1>3 DEF DriverOnce
<1>5. /\ outgoing' \in Seq(C!Buffers) /\ C!IsInjective(outgoing')
      /\ C!ToSet(outgoing') = C!ToSet(outgoing) \union {Head(incoming)}
  BY <1>1, <1>2, <1>3, <1>4, AppendToInjective DEF DriverOnce
<1>6. DriverOnce' /\ C!WithDriver' = C!WithDriver
  BY <1>2, <1>3, <1>5 DEF DriverOnce, C!WithDriver
<1> QED
  BY <1>1, <1>3, <1>5, <1>6
     DEF CameraInv, CameraTypes, CurrentIsOut, FreshIsOut, IndexIsOut

LEMMA DequeueStep == ASSUME CameraInv, C!Dequeue PROVE CameraInv'
<1>1. /\ outgoing # <<>> /\ outgoing' = Tail(outgoing) /\ fresh' = Head(outgoing)
      /\ reader' = "recording" /\ UNCHANGED <<incoming, current, user, index>>
  BY DEF C!Dequeue
<1>2. incoming \in Seq(C!Buffers) /\ outgoing \in Seq(C!Buffers) /\ DriverOnce
  BY DEF CameraInv, CameraTypes
<1>3. /\ outgoing' \in Seq(C!Buffers) /\ fresh' \in C!Buffers
      /\ C!IsInjective(outgoing')
      /\ C!ToSet(outgoing') = C!ToSet(outgoing) \ {fresh'}
      /\ fresh' \in C!ToSet(outgoing)
  BY <1>1, <1>2, TailOfInjective DEF DriverOnce
<1>4. DriverOnce' /\ C!WithDriver' = C!WithDriver \ {fresh'} /\ fresh' \in C!WithDriver
  BY <1>1, <1>2, <1>3 DEF DriverOnce, C!WithDriver
<1> QED
  BY <1>1, <1>2, <1>3, <1>4
     DEF CameraInv, CameraTypes, CurrentIsOut, FreshIsOut, IndexIsOut

LEMMA ReaderStep == ASSUME CameraInv, C!Record \/ C!Push PROVE CameraInv'
<1>1. incoming' = incoming /\ outgoing' = outgoing /\ C!WithDriver' = C!WithDriver
  BY DEF C!Record, C!Push, C!WithDriver
<1>2. DriverOnce'
  BY <1>1 DEF CameraInv, DriverOnce
<1>3. CASE C!Record
  BY <1>1, <1>2, <1>3
     DEF C!Record, CameraInv, CameraTypes, CurrentIsOut, FreshIsOut, IndexIsOut
<1>4. CASE C!Push
  BY <1>1, <1>2, <1>4
     DEF C!Push, CameraInv, CameraTypes, CurrentIsOut, FreshIsOut, IndexIsOut
<1> QED
  BY <1>3, <1>4

(* Steps of the thread that uses and releases frames.                      *)
LEMMA UserStep ==
  ASSUME CameraInv, C!Pop \/ C!ReleaseLooks \/ C!ReleaseClears
  PROVE  CameraInv'
<1>1. incoming' = incoming /\ outgoing' = outgoing /\ C!WithDriver' = C!WithDriver
  BY DEF C!Pop, C!ReleaseLooks, C!ReleaseClears, C!WithDriver
<1>2. DriverOnce'
  BY <1>1 DEF CameraInv, DriverOnce
<1>3. CASE C!Pop
  BY <1>1, <1>2, <1>3
     DEF C!Pop, CameraInv, CameraTypes, CurrentIsOut, FreshIsOut, IndexIsOut
<1>4. CASE C!ReleaseLooks
  BY <1>1, <1>2, <1>4
     DEF C!ReleaseLooks, CameraInv, CameraTypes, CurrentIsOut, FreshIsOut, IndexIsOut
<1>5. CASE C!ReleaseClears
  BY <1>1, <1>2, <1>5
     DEF C!ReleaseClears, CameraInv, CameraTypes, CurrentIsOut, FreshIsOut, IndexIsOut
<1> QED
  BY <1>3, <1>4, <1>5

LEMMA QueueStep == ASSUME CameraInv, C!ReleaseQueues PROVE CameraInv'
<1>1. /\ user = "queueing" /\ user' = "clearing"
      /\ UNCHANGED <<outgoing, current, reader, fresh, index>>
      /\ index \in C!Buffers /\ index \notin C!WithDriver
      /\ incoming \in Seq(C!Buffers) /\ DriverOnce
  BY DEF C!ReleaseQueues, CameraInv, CameraTypes, IndexIsOut
<1>2. incoming' = Append(incoming, index)
  BY <1>1 DEF C!ReleaseQueues
<1>3. /\ incoming' \in Seq(C!Buffers) /\ C!IsInjective(incoming')
      /\ C!ToSet(incoming') = C!ToSet(incoming) \union {index}
  BY <1>1, <1>2, AppendToInjective DEF DriverOnce, C!WithDriver
<1>4. DriverOnce' /\ C!WithDriver' = C!WithDriver \union {index}
  BY <1>1, <1>3 DEF DriverOnce, C!WithDriver
<1> QED
  BY <1>1, <1>3, <1>4
     DEF CameraInv, CameraTypes, CurrentIsOut, FreshIsOut, IndexIsOut

LEMMA CameraStep == ASSUME CameraInv, C!Next PROVE CameraInv'
BY FillStep, DequeueStep, ReaderStep, UserStep, QueueStep
   DEF C!Next, C!Reader, C!User

LEMMA LoopStep == ASSUME CameraInv, LoopPlaces, C!Loop!Next PROVE LoopPlaces'
<1>1. CASE C!Loop!Fill
  BY <1>1 DEF C!Loop!Fill, LoopPlaces
<1>2. CASE C!Loop!Dequeue
  BY <1>2 DEF C!Loop!Dequeue, LoopPlaces
<1>3. CASE C!Loop!Record
  BY <1>3 DEF C!Loop!Record, LoopPlaces, CameraInv, CameraTypes
<1>4. CASE C!Loop!Push
  BY <1>4 DEF C!Loop!Push, C!Loop!None, C!None, LoopPlaces
<1>5. CASE C!Loop!Pop
  <2>1. /\ queue # <<>> /\ user' = "using" /\ frame' = Head(queue) /\ queue' = Tail(queue)
        /\ UNCHANGED <<current, reader, fresh>>
    BY <1>5 DEF C!Loop!Pop
  <2>2. reader = "reading" /\ queue = <<current>> /\ fresh = C!None /\ current \in C!Buffers
    BY <1>5, <2>1 DEF C!Loop!Pop, LoopPlaces
  <2>3. frame' = current /\ queue' = <<>>
    BY <2>1, <2>2
  <2> QED
    BY <2>1, <2>2, <2>3 DEF LoopPlaces, C!None, C!Buffers
<1>6. CASE C!Loop!ReleaseLooks
  BY <1>6, PartsAssumption
     DEF C!Loop!ReleaseLooks, C!Loop!None, C!None, C!Buffers, C!BuffersConstants, LoopPlaces
<1>7. CASE C!Loop!ReleaseQueues
  BY <1>7 DEF C!Loop!ReleaseQueues, LoopPlaces
<1>8. CASE C!Loop!ReleaseClears
  BY <1>8 DEF C!Loop!ReleaseClears, C!Loop!None, C!None, LoopPlaces
<1> QED
  BY <1>1, <1>2, <1>3, <1>4, <1>5, <1>6, <1>7, <1>8
     DEF C!Loop!Next, C!Loop!Reader, C!Loop!User

LEMMA LoopStays == CameraInv /\ LoopPlaces => C!BufferStaysWithFrame
<1> SUFFICES ASSUME CameraInv, LoopPlaces PROVE C!BufferStaysWithFrame
  OBVIOUS
<1>1. C!None \notin C!Buffers
  BY PartsAssumption DEF C!None, C!Buffers, C!BuffersConstants
<1>2. C!InUse = <<>> \/ \E b \in C!Buffers : C!InUse = <<b>> /\ b \notin C!WithDriver
  <2>1. CASE fresh = C!None /\ frame = C!None /\ queue = <<>>
    <3>1. C!InUse = (<<>> \o <<>>) \o <<>>
      BY <2>1 DEF C!InUse
    <3> QED
      BY <3>1
  <2>2. CASE fresh \in C!Buffers /\ fresh \notin C!WithDriver /\ frame = C!None /\ queue = <<>>
    <3>1. C!InUse = (<<fresh>> \o <<>>) \o <<>>
      BY <1>1, <2>2 DEF C!InUse
    <3>2. C!InUse = <<fresh>>
      BY <3>1
    <3> QED
      BY <2>2, <3>2
  <2>3. CASE /\ fresh = C!None /\ frame = C!None /\ queue = <<current>>
             /\ current \in C!Buffers /\ current \notin C!WithDriver
    <3>1. C!InUse = (<<>> \o <<current>>) \o <<>>
      BY <2>3 DEF C!InUse
    <3>2. C!InUse = <<current>>
      BY <3>1
    <3> QED
      BY <2>3, <3>2
  <2>4. CASE /\ fresh = C!None /\ frame = current /\ queue = <<>>
             /\ current \in C!Buffers /\ current \notin C!WithDriver
    <3>1. C!InUse = (<<>> \o <<>>) \o <<current>>
      BY <1>1, <2>4 DEF C!InUse
    <3>2. C!InUse = <<current>>
      BY <3>1
    <3> QED
      BY <2>4, <3>2
  <2> QED
    BY <1>1, <2>1, <2>2, <2>3, <2>4
       DEF LoopPlaces, CameraInv, CameraTypes, CurrentIsOut, FreshIsOut
<1>3. ASSUME NEW b, C!InUse = <<b>>
      PROVE  C!ToSet(C!InUse) = {b} /\ C!IsInjective(C!InUse)
  BY <1>3 DEF C!ToSet, C!IsInjective
<1>4. ASSUME C!InUse = <<>>
      PROVE  C!ToSet(C!InUse) = {} /\ C!IsInjective(C!InUse)
  BY <1>4 DEF C!ToSet, C!IsInjective
<1> QED
  BY <1>2, <1>3, <1>4 DEF C!BufferStaysWithFrame

(* No behaviour of the camera's part queues a buffer twice, and the        *)
(* documented loop keeps its buffers (v4l2_capture.cpp:230): with any      *)
(* number of buffers and a frame queue of any capacity.                    *)
THEOREM BuffersAlwaysKept == Spec => []BuffersKept
<1> DEFINE Inv == CameraInv /\ LoopInv
<1>1. Init => Inv
  <2>1. C!Init => LoopPlaces
    BY DEF C!Init, LoopPlaces
  <2> QED
    BY <2>1, CameraInit DEF Init, C!MCInit, LoopInv
<1>2. Inv /\ [Next]_all => Inv'
  <2> SUFFICES ASSUME Inv, [Next]_all PROVE Inv'
    OBVIOUS
  <2>1. CASE UNCHANGED camera
    BY <2>1 DEF camera, LoopInv, LoopPlaces, CameraInv, CameraTypes, DriverOnce, CurrentIsOut,
                FreshIsOut, IndexIsOut, C!WithDriver
  <2>2. CASE C!MCNext
    <3>1. CameraInv'
      BY <2>2, CameraStep, LoopIsNext DEF C!MCNext
    <3>2. LoopInv'
      BY <2>2, LoopStep DEF C!MCNext, LoopInv
    <3> QED
      BY <3>1, <3>2
  <2> QED
    BY <2>1, <2>2 DEF Next, all
<1>3. Inv => BuffersKept
  <2> SUFFICES ASSUME Inv PROVE BuffersKept
    OBVIOUS
  <2>1. C!IsInjective(incoming \o outgoing)
    BY ConcatOfInjective DEF CameraInv, CameraTypes, DriverOnce
  <2> QED
    BY <2>1, LoopStays
       DEF BuffersKept, C!NoDoubleQueue, C!LoopKeepsBuffers, CameraInv, LoopInv, IndexIsOut
<1> QED
  BY <1>1, <1>2, <1>3, PTL DEF Spec

-----------------------------------------------------------------------------
(* The service.                                                            *)

(* The systemctl restart of a unit is never under way when it has been     *)
(* stopped: it would bring the process back.                               *)
ServiceInv == U!TypeOK /\ U!StopIsFinal /\ (stopped => job # "restart")

LEMMA ServiceInit == U!Init => ServiceInv
BY PartsAssumption
   DEF U!UnitConstants, U!Init, ServiceInv, U!TypeOK, U!StopIsFinal, U!Alive

(* However the process ends: only a restart job starts another at once.    *)
LEMMA ExitKeeps ==
  ASSUME ServiceInv, U!Alive, NEW clean \in BOOLEAN, U!Exit(clean)
  PROVE  ServiceInv'
BY PartsAssumption
   DEF U!UnitConstants, U!Exit, U!Launch, ServiceInv, U!TypeOK, U!StopIsFinal, U!Alive

LEMMA SystemdStep ==
  ASSUME ServiceInv, U!Systemd \/ U!IntervalPasses
  PROVE  ServiceInv'
<1>1. CASE U!RestartSecPasses
  BY <1>1, PartsAssumption
     DEF U!UnitConstants, U!RestartSecPasses, U!Launch, ServiceInv, U!TypeOK, U!StopIsFinal, U!Alive
<1>2. CASE U!SystemdKills
  BY <1>2, ExitKeeps DEF U!SystemdKills, U!Alive
<1>3. CASE U!IntervalPasses
  BY <1>3, PartsAssumption
     DEF U!UnitConstants, U!IntervalPasses, ServiceInv, U!TypeOK, U!StopIsFinal, U!Alive
<1> QED
  BY <1>1, <1>2, <1>3 DEF U!Systemd

LEMMA ProcessStep == ASSUME ServiceInv, U!Process PROVE ServiceInv'
<1>1. CASE U!Ready
  BY <1>1 DEF U!Ready, ServiceInv, U!TypeOK, U!StopIsFinal, U!Alive
<1>2. CASE U!Handlers \/ U!Run \/ U!DrainHangs
  <2>1. UNCHANGED <<unit, job, starts, stopped>> /\ (owed' = owed \/ owed' = {})
    BY <1>2 DEF U!Handlers, U!Run, U!DrainHangs
  <2>2. proc # "none" /\ proc' \in {"loading", "running", "hung"}
    BY <1>2 DEF U!Handlers, U!Run, U!DrainHangs
  <2> QED
    BY <2>1, <2>2 DEF ServiceInv, U!TypeOK, U!StopIsFinal, U!Alive
<1>3. CASE U!DrainEnds \/ U!Terminated
  BY <1>3, ExitKeeps DEF U!DrainEnds, U!Terminated, U!Alive
<1>4. CASE U!TimerFires
  BY <1>4 DEF U!TimerFires, U!SignalNow, ServiceInv, U!TypeOK, U!StopIsFinal, U!Alive
<1> QED
  BY <1>1, <1>2, <1>3, <1>4 DEF U!Process

LEMMA FaultsStep == ASSUME ServiceInv, U!Faults PROVE ServiceInv'
<1>1. CASE U!NoConfig \/ U!LoadFails \/ U!Crash
  BY <1>1, ExitKeeps DEF U!NoConfig, U!LoadFails, U!Crash, U!Alive
<1>2. CASE U!WatchdogShutdown
  BY <1>2 DEF U!WatchdogShutdown, ServiceInv, U!TypeOK, U!StopIsFinal, U!Alive
<1> QED
  BY <1>1, <1>2 DEF U!Faults

LEMMA AdminStep == ASSUME ServiceInv, U!Admin PROVE ServiceInv'
<1>1. CASE U!SystemctlStart
  BY <1>1, PartsAssumption
     DEF U!UnitConstants, U!SystemctlStart, U!Launch, ServiceInv, U!TypeOK, U!StopIsFinal, U!Alive
<1>2. CASE U!SystemctlStop
  BY <1>2 DEF U!SystemctlStop, U!SignalNow, ServiceInv, U!TypeOK, U!StopIsFinal, U!Alive
<1>3. CASE U!SystemctlRestart
  BY <1>3 DEF U!SystemctlRestart, U!SignalNow, ServiceInv, U!TypeOK, U!StopIsFinal, U!Alive
<1>4. CASE U!SystemctlReload
  BY <1>4 DEF U!SystemctlReload, U!SignalNow, ServiceInv, U!TypeOK, U!StopIsFinal, U!Alive
<1>5. CASE U!RestartRpc
  BY <1>5 DEF U!RestartRpc, ServiceInv, U!TypeOK, U!StopIsFinal, U!Alive
<1> QED
  BY <1>1, <1>2, <1>3, <1>4, <1>5 DEF U!Admin

(* A unit that has been stopped stays so until it is started, whatever the *)
(* start limit, the number of commands and the number of faults: no kill   *)
(* after TimeoutStopSec, scheduled restart or timer of a Restart RPC       *)
(* brings the process back (the unit file, line 58).                       *)
THEOREM StopAlwaysFinal == Spec => []StopIsFinal
<1>1. Init => ServiceInv
  BY ServiceInit DEF Init
<1>2. ServiceInv /\ [Next]_all => ServiceInv'
  <2> SUFFICES ASSUME ServiceInv, [Next]_all PROVE ServiceInv'
    OBVIOUS
  <2>1. CASE UNCHANGED service
    BY <2>1 DEF service, ServiceInv, U!TypeOK, U!StopIsFinal, U!Alive
  <2>2. CASE U!Next
    BY <2>2, SystemdStep, ProcessStep, FaultsStep, AdminStep DEF U!Next
  <2> QED
    BY <2>1, <2>2 DEF Next, all
<1>3. ServiceInv => StopIsFinal
  BY DEF ServiceInv, StopIsFinal
<1> QED
  BY <1>1, <1>2, <1>3, PTL DEF Spec

-----------------------------------------------------------------------------
(* The reports.                                                            *)

(* MqttPublisher and V4l2Buffers have the two operators from one library.  *)
LEMMA SameOperators ==
  \A s : M!ToSet(s) = C!ToSet(s) /\ (M!IsInjective(s) <=> C!IsInjective(s))
BY DEF M!ToSet, C!ToSet, M!IsInjective, C!IsInjective

LEMMA TailIsSent ==
  ASSUME NEW S, NEW s \in Seq(S), s # <<>>, M!IsInjective(s)
  PROVE  /\ Tail(s) \in Seq(S) /\ Head(s) \in S
         /\ M!IsInjective(Tail(s))
         /\ M!ToSet(Tail(s)) = M!ToSet(s) \ {Head(s)}
         /\ Head(s) \in M!ToSet(s)
BY SameOperators, TailOfInjective

LEMMA OneMore ==
  ASSUME NEW S, NEW s \in Seq(S), NEW x \in S
  PROVE  /\ Append(s, x) \in Seq(S)
         /\ M!ToSet(Append(s, x)) = M!ToSet(s) \union {x}
         /\ M!IsInjective(s) /\ x \notin M!ToSet(s) => M!IsInjective(Append(s, x))
BY SameOperators, AppendToInjective

Made == 1 .. message

ReportTypes ==
  /\ message \in Nat
  /\ _pending_queue \in Seq(Nat) /\ M!Buffered \subseteq Made
  /\ sent \in Seq(Nat) /\ M!ToSet(sent) \subseteq Made
  /\ dropped \subseteq Made /\ refused \subseteq Made
  /\ M!InHand \subseteq Made

(* A message is in one place: SentOnce speaks of what has been sent, this  *)
(* of the places before that.                                              *)
OnePlace ==
  /\ M!Buffered \intersect (M!InHand \union dropped \union refused) = {}
  /\ M!InHand \intersect (dropped \union refused) = {}

ReportInv == ReportTypes /\ M!SentOnce /\ M!BufferInOrder /\ OnePlace

LEMMA ReportInit == M!Init => ReportInv
<1> SUFFICES ASSUME M!Init PROVE ReportInv
  OBVIOUS
<1>1. /\ message = 0 /\ _pending_queue = <<>> /\ sent = <<>> /\ dropped = {} /\ refused = {}
      /\ out = "connecting"
  BY DEF M!Init
<1>2. M!Buffered = {} /\ M!ToSet(sent) = {} /\ M!InHand = {}
  BY <1>1 DEF M!Buffered, M!ToSet, M!InHand
<1>3. M!IsInjective(sent) /\ M!IsInjective(_pending_queue) /\ M!BufferInOrder
  BY <1>1 DEF M!IsInjective, M!BufferInOrder
<1> QED
  BY <1>1, <1>2, <1>3 DEF ReportInv, ReportTypes, OnePlace, M!SentOnce, Made

(* A step that moves no message.                                           *)
LEMMA NothingMoves ==
  ASSUME ReportInv, UNCHANGED <<message, _pending_queue, sent, dropped, refused>>,
         M!InHand' = M!InHand
  PROVE  ReportInv'
BY DEF ReportInv, ReportTypes, OnePlace, Made, M!SentOnce, M!BufferInOrder, M!Buffered

(* The step with which a flush hands over the front of the buffer.         *)
LEMMA FrontIsSent ==
  ASSUME ReportInv, _pending_queue # <<>>,
         sent' = Append(sent, Head(_pending_queue)),
         _pending_queue' = Tail(_pending_queue),
         UNCHANGED <<message, out, dropped, refused>>
  PROVE  /\ ReportInv'
         /\ M!ToSet(sent)' \union M!Buffered' = M!ToSet(sent) \union M!Buffered
<1> DEFINE front == Head(_pending_queue)
<1>1. /\ _pending_queue' \in Seq(Nat) /\ front \in Nat
      /\ M!IsInjective(_pending_queue')
      /\ M!Buffered' = M!Buffered \ {front} /\ front \in M!Buffered
  BY TailIsSent DEF ReportInv, ReportTypes, M!SentOnce, M!Buffered
<1>2. front \notin M!ToSet(sent)
  BY <1>1 DEF ReportInv, M!SentOnce
<1>3. /\ sent' \in Seq(Nat) /\ M!IsInjective(sent')
      /\ M!ToSet(sent') = M!ToSet(sent) \union {front}
  BY <1>1, <1>2, OneMore DEF ReportInv, ReportTypes, M!SentOnce
<1>4. M!InHand' = M!InHand
  BY DEF M!InHand
<1>5. M!BufferInOrder'
  <2>1. /\ DOMAIN _pending_queue' = 1 .. Len(_pending_queue) - 1
        /\ DOMAIN _pending_queue = 1 .. Len(_pending_queue) /\ Len(_pending_queue) \in Nat
        /\ \A i \in 1 .. Len(_pending_queue) - 1 : _pending_queue'[i] = _pending_queue[i + 1]
    BY DEF ReportInv, ReportTypes
  <2> QED
    BY <2>1 DEF ReportInv, M!BufferInOrder
<1>6. ReportTypes'
  BY <1>1, <1>3, <1>4 DEF ReportInv, ReportTypes, Made
<1>7. OnePlace'
  BY <1>1, <1>4 DEF ReportInv, OnePlace
<1>8. M!SentOnce'
  BY <1>1, <1>3, <1>4 DEF ReportInv, M!SentOnce, OnePlace
<1> QED
  BY <1>1, <1>3, <1>5, <1>6, <1>7, <1>8 DEF ReportInv

LEMMA PublishStep == ASSUME ReportInv, M!Publish PROVE ReportInv'
<1>1. /\ message' = message + 1 /\ UNCHANGED <<_pending_queue, sent, dropped, refused>>
      /\ M!InHand = {} /\ M!InHand' \subseteq {message'}
  <2>1. M!InHand' \subseteq {message'}
    BY DEF M!InHand
  <2>2. /\ out = "ready" /\ message' = message + 1
        /\ UNCHANGED <<_pending_queue, sent, dropped, refused>>
    BY DEF M!Publish, M!history
  <2> QED
    BY <2>1, <2>2 DEF M!InHand
<1>2. message' \in Nat /\ Made' = Made \union {message'} /\ message' \notin Made
  BY <1>1 DEF ReportInv, ReportTypes, Made
<1>3. M!Buffered' = M!Buffered /\ M!ToSet(sent)' = M!ToSet(sent)
  BY <1>1 DEF M!Buffered
<1>4. ReportTypes'
  BY <1>1, <1>2, <1>3 DEF ReportInv, ReportTypes
<1>5. OnePlace' /\ M!SentOnce' /\ M!BufferInOrder'
  BY <1>1, <1>2, <1>3
     DEF ReportInv, ReportTypes, OnePlace, M!SentOnce, M!BufferInOrder
<1> QED
  BY <1>4, <1>5 DEF ReportInv

LEMMA BufferStep ==
  ASSUME ReportInv, M!Buffer
  PROVE  ReportInv' /\ M!Buffered' \union dropped' = M!Buffered \union dropped \union {message}
<1>1. /\ M!InHand = {message} /\ M!InHand' = {} /\ UNCHANGED <<message, sent, refused>>
  BY DEF M!Buffer, M!InHand
<1>2. /\ message \in Nat /\ message \in Made /\ message \notin M!Buffered
      /\ message \notin dropped \union refused \union M!ToSet(sent)
  BY <1>1 DEF ReportInv, ReportTypes, OnePlace, M!SentOnce
<1>3. CASE _pending_queue' = Append(_pending_queue, message) /\ UNCHANGED dropped
  <2>1. /\ _pending_queue' \in Seq(Nat) /\ M!IsInjective(_pending_queue')
        /\ M!Buffered' = M!Buffered \union {message}
    BY <1>2, <1>3, OneMore DEF ReportInv, ReportTypes, M!SentOnce, M!Buffered
  <2>2. \A i \in DOMAIN _pending_queue : _pending_queue[i] < message
    <3>1. \A i \in DOMAIN _pending_queue : _pending_queue[i] \in M!Buffered
      BY DEF M!Buffered, M!ToSet
    <3> QED
      BY <1>2, <3>1 DEF ReportInv, ReportTypes, Made
  <2>3. M!BufferInOrder'
    <3>1. /\ DOMAIN _pending_queue' = 1 .. Len(_pending_queue) + 1
          /\ DOMAIN _pending_queue = 1 .. Len(_pending_queue) /\ Len(_pending_queue) \in Nat
          /\ _pending_queue'[Len(_pending_queue) + 1] = message
          /\ \A i \in 1 .. Len(_pending_queue) : _pending_queue'[i] = _pending_queue[i]
      BY <1>2, <1>3 DEF ReportInv, ReportTypes
    <3> QED
      BY <2>2, <3>1 DEF ReportInv, M!BufferInOrder
  <2> QED
    BY <1>1, <1>2, <1>3, <2>1, <2>3
       DEF ReportInv, ReportTypes, OnePlace, M!SentOnce, Made
<1>4. CASE dropped' = dropped \union {message} /\ UNCHANGED _pending_queue
  <2>1. M!Buffered' = M!Buffered /\ M!BufferInOrder'
    BY <1>4 DEF M!Buffered, ReportInv, M!BufferInOrder
  <2> QED
    BY <1>1, <1>2, <1>4, <2>1 DEF ReportInv, ReportTypes, OnePlace, M!SentOnce, Made
<1> QED
  BY <1>3, <1>4 DEF M!Buffer

LEMMA SendStep ==
  ASSUME ReportInv, M!Send
  PROVE  ReportInv' /\ M!ToSet(sent)' \union refused' = M!ToSet(sent) \union refused \union {message}
<1>1. /\ M!InHand = {message} /\ M!InHand' = {} /\ UNCHANGED <<message, _pending_queue, dropped>>
  BY DEF M!Send, M!InHand
<1>2. /\ message \in Nat /\ message \in Made /\ message \notin M!Buffered
      /\ message \notin dropped \union refused \union M!ToSet(sent)
  BY <1>1 DEF ReportInv, ReportTypes, OnePlace, M!SentOnce
<1>3. M!Buffered' = M!Buffered /\ M!BufferInOrder'
  BY <1>1 DEF M!Buffered, ReportInv, M!BufferInOrder
<1>4. CASE sent' = Append(sent, message) /\ UNCHANGED refused
  <2>1. /\ sent' \in Seq(Nat) /\ M!IsInjective(sent')
        /\ M!ToSet(sent') = M!ToSet(sent) \union {message}
    BY <1>2, <1>4, OneMore DEF ReportInv, ReportTypes, M!SentOnce
  <2> QED
    BY <1>1, <1>2, <1>3, <1>4, <2>1
       DEF ReportInv, ReportTypes, OnePlace, M!SentOnce, Made
<1>5. CASE refused' = refused \union {message} /\ UNCHANGED sent
  BY <1>1, <1>2, <1>3, <1>5 DEF ReportInv, ReportTypes, OnePlace, M!SentOnce, Made
<1> QED
  BY <1>4, <1>5 DEF M!Send

(* The steps of which no message knows.                                    *)
Elsewhere ==
  \/ M!OnConnect \/ M!BeginFlush \/ M!EndFlush \/ M!OnDisconnect
  \/ M!Connect \/ M!LoopStop \/ M!Disconnect \/ M!LoopGivesUp \/ M!Break \/ M!Reconnect
  \/ M!FlushOne /\ UNCHANGED <<_pending_queue, sent>>

LEMMA ElsewhereStaysPut ==
  Elsewhere => UNCHANGED <<message, _pending_queue, sent, dropped, refused>> /\ M!InHand' = M!InHand
BY DEF Elsewhere, M!OnConnect, M!BeginFlush, M!EndFlush, M!OnDisconnect, M!Connect, M!LoopStop,
       M!Disconnect, M!LoopGivesUp, M!Break, M!Reconnect, M!FlushOne, M!InHand, M!history

LEMMA ReportSteps ==
  ASSUME M!Next
  PROVE  \/ Elsewhere \/ M!Publish \/ M!Buffer \/ M!Send
         \/ /\ M!FlushOne /\ _pending_queue # <<>>
            /\ sent' = Append(sent, Head(_pending_queue))
            /\ _pending_queue' = Tail(_pending_queue)
            /\ UNCHANGED <<message, out, dropped, refused>>
BY DEF M!Next, M!Library, M!Output, Elsewhere, M!FlushOne
LEMMA ReportStep == ASSUME ReportInv, M!Next PROVE ReportInv'
BY ReportSteps, ElsewhereStaysPut, NothingMoves, PublishStep, BufferStep, SendStep, FrontIsSent

(* With a broker at the start the output thread has a client as long as it *)
(* publishes.                                                              *)
HasClient == out \in {"ready", "buffering", "publishing"} => client = "set"
AccountedInv == ReportInv /\ HasClient /\ M!Accounted

LEMMA ClientStep ==
  ASSUME HasClient, BrokerUp, M!Next
  PROVE  HasClient'
<1>1. CASE M!LoopStop
  BY <1>1 DEF M!LoopStop, HasClient
<1>2. CASE M!Connect
  BY <1>2 DEF M!Connect, HasClient
<1>3. CASE M!Publish \/ M!Buffer \/ M!Send \/ M!Disconnect
  BY <1>3 DEF M!Publish, M!Buffer, M!Send, M!Disconnect, HasClient
<1>4. CASE M!Library \/ M!LoopGivesUp \/ M!Break \/ M!Reconnect
  BY <1>4 DEF M!Library, M!OnConnect, M!BeginFlush, M!FlushOne, M!EndFlush, M!OnDisconnect,
              M!LoopGivesUp, M!Break, M!Reconnect, HasClient
<1> QED
  BY <1>1, <1>2, <1>3, <1>4 DEF M!Next, M!Output
LEMMA AccountedStep ==
  ASSUME ReportInv, HasClient, M!Accounted, M!Next
  PROVE  M!Accounted'
<1>1. CASE Elsewhere
  BY <1>1, ElsewhereStaysPut DEF M!Accounted, M!Buffered
<1>2. CASE M!Publish
  <2>1. out = "ready" /\ client = "set" /\ message' = message + 1
    BY <1>2 DEF M!Publish, HasClient
  <2>2. out' = IF _connected THEN "publishing" ELSE "buffering"
    BY <1>2, <2>1 DEF M!Publish
  <2>3. M!InHand = {} /\ M!InHand' = {message + 1}
    BY <2>1, <2>2 DEF M!InHand
  <2>4. 1 .. message + 1 = (1 .. message) \union {message + 1}
    BY DEF ReportInv, ReportTypes
  <2>5. UNCHANGED <<M!Buffered, M!ToSet(sent), dropped, refused>>
    BY <1>2 DEF M!Publish, M!history, M!Buffered
  <2> QED
    BY <2>1, <2>3, <2>4, <2>5 DEF M!Accounted
<1>3. CASE M!Buffer
  <2>1. M!InHand = {message} /\ M!InHand' = {} /\ UNCHANGED <<message, sent, refused>>
    BY <1>3 DEF M!Buffer, M!InHand
  <2> QED
    BY <1>3, <2>1, BufferStep DEF M!Accounted
<1>4. CASE M!Send
  <2>1. /\ M!InHand = {message} /\ M!InHand' = {} /\ UNCHANGED <<message, dropped>>
        /\ UNCHANGED M!Buffered
    BY <1>4 DEF M!Send, M!InHand, M!Buffered
  <2> QED
    BY <1>4, <2>1, SendStep DEF M!Accounted
<1>5. CASE /\ M!FlushOne /\ _pending_queue # <<>>
           /\ sent' = Append(sent, Head(_pending_queue))
           /\ _pending_queue' = Tail(_pending_queue)
           /\ UNCHANGED <<message, out, dropped, refused>>
  <2>1. M!InHand' = M!InHand
    BY <1>5 DEF M!InHand
  <2> QED
    BY <1>5, <2>1, FrontIsSent DEF M!Accounted
<1> QED
  BY <1>1, <1>2, <1>3, <1>4, <1>5, ReportSteps

(* No detection is reported twice and the buffer keeps the order of        *)
(* publication: whether or not the broker is there at the start, and for   *)
(* any size of the buffer, number of messages and number of outages        *)
(* (flush_pending_messages and publish_detections overlap).                *)
THEOREM ReportsNeverTwice == Spec => [](M!SentOnce /\ M!BufferInOrder)
<1>1. Init => ReportInv
  BY ReportInit DEF Init
<1>2. ReportInv /\ [Next]_all => ReportInv'
  <2> SUFFICES ASSUME ReportInv, [Next]_all PROVE ReportInv'
    OBVIOUS
  <2>1. CASE UNCHANGED reports
    BY <2>1, NothingMoves DEF reports, M!InHand
  <2>2. CASE M!Next
    BY <2>2, ReportStep
  <2> QED
    BY <2>1, <2>2 DEF Next, all
<1>3. ReportInv => M!SentOnce /\ M!BufferInOrder
  BY DEF ReportInv
<1> QED
  BY <1>1, <1>2, <1>3, PTL DEF Spec

(* With a broker at the start, a message that is neither handed over nor   *)
(* buffered nor in hand met one of the two limits of the code              *)
(* (mqtt_publisher.cpp:193 and :201).  Without one publish_detections      *)
(* returns at once, and nothing is kept.                                   *)
THEOREM ReportsAlwaysKept ==
  ASSUME BrokerUp
  PROVE  Spec => []ReportsKept
<1>1. Init => AccountedInv
  <2>1. M!Init => HasClient /\ M!Accounted
    <3> SUFFICES ASSUME M!Init PROVE HasClient /\ M!Accounted
      OBVIOUS
    <3>1. /\ message = 0 /\ out = "connecting"
          /\ M!ToSet(sent) = {} /\ M!Buffered = {} /\ dropped = {} /\ refused = {}
      BY DEF M!Init, M!Buffered, M!ToSet
    <3> QED
      BY <3>1 DEF HasClient, M!Accounted, M!InHand
  <2> QED
    BY <2>1, ReportInit DEF Init, AccountedInv
<1>2. AccountedInv /\ [Next]_all => AccountedInv'
  <2> SUFFICES ASSUME AccountedInv, [Next]_all PROVE AccountedInv'
    OBVIOUS
  <2>1. CASE UNCHANGED reports
    <3>1. ReportInv'
      BY <2>1, NothingMoves DEF reports, M!InHand, AccountedInv
    <3>2. HasClient' /\ M!Accounted'
      BY <2>1 DEF reports, AccountedInv, HasClient, M!Accounted, M!Buffered, M!InHand
    <3> QED
      BY <3>1, <3>2 DEF AccountedInv
  <2>2. CASE M!Next
    BY <2>2, ReportStep, ClientStep, AccountedStep DEF AccountedInv
  <2> QED
    BY <2>1, <2>2 DEF Next, all
<1>3. AccountedInv => ReportsKept
  BY DEF AccountedInv, ReportInv, ReportsKept
<1> QED
  BY <1>1, <1>2, <1>3, PTL DEF Spec
-----------------------------------------------------------------------------
(* The bridge.                                                             *)

Workers == {"ui"} \union Timers

BridgeTypes ==
  /\ pc \in [B!Procs -> {"idle", "free", "pending", "connecting", "schedule", "plant",
                         "loop_stop", "disconnect", "stopped"}]
  /\ pc["ui"] \notin {"free", "pending"}
  /\ \A t \in Timers : pc[t] \notin {"idle", "stopped"}
  /\ \A c \in Clients : pc[c] \in {"idle", "schedule", "plant"}
  /\ at \in [B!Procs -> Clients \union {Nothing}]
  /\ link \in [Clients -> {"none", "waiting", "up", "broken", "lost"}]
  /\ threads \in [Clients -> BOOLEAN]
  /\ subscriber \in Clients \union {Nothing}
  /\ connected \in BOOLEAN /\ intentional \in BOOLEAN /\ overlapped \in BOOLEAN
  /\ calls \in Nat

(* Planting a timer cancels the one before: the field names the only one   *)
(* that waits.                                                             *)
OnePending == \A t \in Timers : pc[t] = "pending" => reconnect = t

Calm == \A c \in Clients : ~threads[c] /\ link[c] = "none"

(* As long as no reconnect has crossed a stop or another one, only one     *)
(* thread works on the fields, and whatever is connected is the current    *)
(* client's.                                                               *)
OneClient ==
  /\ \A c \in Clients : pc[c] # "idle" => threads[c]
  /\ \A c \in Clients : threads[c] \/ link[c] # "none" => c = subscriber
  /\ calls # 0 /\ ~intentional => subscriber # Nothing
OneWorker ==
  /\ \A t, u \in Timers :
       pc[t] \notin {"free", "pending"} /\ pc[u] \notin {"free", "pending"} => t = u
  /\ pc["ui"] \in {"connecting", "schedule", "plant"} =>
       ~intentional /\ \A t \in Timers : pc[t] = "free"
  /\ pc["ui"] \in {"loop_stop", "disconnect", "stopped"} => intentional
  /\ intentional => ~B!Reconnecting
WorkerSees(p) ==
  /\ pc[p] = "connecting" => subscriber = at[p] /\ subscriber # Nothing
  /\ pc[p] \in {"connecting", "schedule", "plant"} => Calm
  /\ pc[p] = "disconnect" => \A c \in Clients : ~threads[c]
BeforeAndAfter ==
  /\ calls = 0 => /\ pc["ui"] = "idle" /\ Calm /\ ~intentional
                  /\ \A t \in Timers : pc[t] = "free"
  /\ pc["ui"] = "stopped" \/ (pc["ui"] = "idle" /\ intentional) =>
       subscriber = Nothing /\ ~connected /\ Calm
Ordered == OneClient /\ OneWorker /\ (\A p \in Workers : WorkerSees(p)) /\ BeforeAndAfter

BridgeInv == BridgeTypes /\ OnePending /\ (~overlapped => Ordered)

(* The names that tell the threads apart.                                  *)
LEMMA Names ==
  /\ "ui" \notin Clients /\ "ui" \notin Timers /\ Clients \intersect Timers = {}
  /\ Nothing \notin Clients /\ Nothing \notin Timers
  /\ B!Procs = Workers \union Clients /\ "ui" \in Workers /\ Timers \subseteq Workers
<1>1. B!BridgeConstants
  BY PartsAssumption
<1>2. B!Procs = Workers \union Clients /\ "ui" \in Workers /\ Timers \subseteq Workers
  BY DEF B!Procs, Workers
<1> QED
  BY <1>1, <1>2 DEF B!BridgeConstants

LEMMA BridgeInit == B!Init => BridgeInv
<1> SUFFICES ASSUME B!Init PROVE BridgeInv
  OBVIOUS
<1>1. /\ pc \in [B!Procs -> {"idle", "free"}] /\ pc["ui"] = "idle"
      /\ \A t \in Timers : pc[t] = "free"
      /\ \A c \in Clients : pc[c] = "idle"
  BY Names DEF B!Init, B!Procs
<1>2. /\ subscriber = Nothing /\ ~connected /\ ~intentional /\ ~overlapped /\ calls = 0
      /\ connected = FALSE /\ intentional = FALSE /\ overlapped = FALSE
      /\ at \in [B!Procs -> {Nothing}]
      /\ link \in [Clients -> {"none"}] /\ threads \in [Clients -> BOOLEAN] /\ Calm
  <2>1. overlapped = FALSE /\ calls = 0 /\ subscriber = Nothing
    BY DEF B!Init
  <2>2. connected = FALSE /\ intentional = FALSE
    BY DEF B!Init
  <2>3. /\ at \in [B!Procs -> {Nothing}]
        /\ link \in [Clients -> {"none"}] /\ threads \in [Clients -> BOOLEAN]
        /\ Calm
    BY DEF B!Init, Calm
  <2> QED
    BY <2>1, <2>2, <2>3
<1>3. BridgeTypes
  BY <1>1, <1>2, Names DEF BridgeTypes
<1>4. Ordered
  BY <1>1, <1>2, Names
     DEF Ordered, OneClient, OneWorker, WorkerSees, BeforeAndAfter, Calm, B!Reconnecting,
         Workers
<1> QED
  BY <1>1, <1>3, <1>4 DEF BridgeInv, OnePending

LEMMA TestStep == ASSUME BridgeInv, NEW p \in B!Procs, B!TestSchedule(p) PROVE BridgeInv'
<1>1. BridgeTypes' /\ OnePending'
  BY Names
     DEF B!TestSchedule, B!Goto, B!fields, B!net, B!world, BridgeInv, BridgeTypes, OnePending,
         B!Procs, Workers, B!Rest, Calm
<1>2. ASSUME ~overlapped' PROVE Ordered'
  BY <1>2, Names
     DEF B!TestSchedule, B!Goto, B!fields, B!net, B!world, BridgeInv, BridgeTypes, Ordered,
         OneClient, OneWorker, WorkerSees, BeforeAndAfter, Calm, B!Reconnecting, B!Procs,
         Workers, B!Rest
<1> QED
  BY <1>1, <1>2 DEF BridgeInv

(* After _cancel_reconnect no timer waits.                                 *)
LEMMA NoneWaits ==
  ASSUME BridgeInv
  PROVE  /\ B!Cancelled(reconnect) \in
              [B!Procs -> {"idle", "free", "pending", "connecting", "schedule", "plant",
                           "loop_stop", "disconnect", "stopped"}]
         /\ \A p \in B!Procs :
              B!Cancelled(reconnect)[p] = IF pc[p] = "pending" THEN "free" ELSE pc[p]
<1> DEFINE Places == {"idle", "free", "pending", "connecting", "schedule", "plant",
                      "loop_stop", "disconnect", "stopped"}
<1>1. /\ pc \in [B!Procs -> Places]
      /\ \A p \in B!Procs : pc[p] = "pending" => p = reconnect
  BY Names DEF BridgeInv, BridgeTypes, OnePending, Workers
<1>2. CASE reconnect # Nothing /\ pc[reconnect] = "pending"
  <2>1. B!Cancelled(reconnect) = [pc EXCEPT ![reconnect] = "free"]
    BY <1>2 DEF B!Cancelled
  <2> QED
    BY <1>1, <1>2, <2>1
<1>3. CASE ~(reconnect # Nothing /\ pc[reconnect] = "pending")
  <2>1. B!Cancelled(reconnect) = pc
    BY <1>3 DEF B!Cancelled
  <2>2. \A p \in B!Procs : pc[p] # "pending"
    BY <1>1, <1>3, Names DEF BridgeInv, BridgeTypes, Workers
  <2> QED
    BY <1>1, <2>1, <2>2
<1> QED
  BY <1>2, <1>3

LEMMA PlantStep == ASSUME BridgeInv, NEW p \in B!Procs, B!Plant(p) PROVE BridgeInv'
<1>1. PICK t \in Timers :
        /\ B!Cancelled(reconnect)[t] = "free" /\ t # p /\ reconnect' = t
        /\ pc' = [B!Cancelled(reconnect) EXCEPT ![p] = B!Rest(p), ![t] = "pending"]
  BY DEF B!Plant
<1>2. /\ pc[p] = "plant" /\ t \in B!Procs
      /\ UNCHANGED <<subscriber, connected, intentional, link, threads, at, calls, overlapped>>
  BY Names DEF B!Plant, B!net, B!world, Workers
<1>3. pc' \in [B!Procs -> {"idle", "free", "pending", "connecting", "schedule", "plant",
                           "loop_stop", "disconnect", "stopped"}]
  BY <1>1, NoneWaits DEF B!Rest
<1>4. \A q \in B!Procs :
        pc'[q] = IF q = t THEN "pending" ELSE IF q = p THEN B!Rest(p)
                 ELSE IF pc[q] = "pending" THEN "free" ELSE pc[q]
  BY <1>1, <1>2, NoneWaits
<1>5. pc[t] \in {"free", "pending"}
  BY <1>1, <1>2, NoneWaits
<1>6. BridgeTypes'
  <2>1. /\ pc'["ui"] \notin {"free", "pending"}
        /\ \A u \in Timers : pc'[u] \notin {"idle", "stopped"}
        /\ \A c \in Clients : pc'[c] \in {"idle", "schedule", "plant"}
    BY <1>4, Names DEF BridgeInv, BridgeTypes, B!Rest
  <2> QED
    BY <1>2, <1>3, <2>1 DEF BridgeInv, BridgeTypes
<1>7. OnePending'
  BY <1>1, <1>2, <1>4, Names DEF OnePending, B!Rest, Workers
<1>8. ASSUME ~overlapped' PROVE Ordered'
  <2>1. OneClient'
    BY <1>2, <1>4, <1>5, <1>8, Names
       DEF BridgeInv, BridgeTypes, Ordered, OneClient, OneWorker, WorkerSees, BeforeAndAfter,
           Calm, B!Rest
  <2>0. /\ calls # 0 /\ (p = "ui" => ~intentional)
        /\ pc["ui"] \in {"connecting", "schedule", "plant"} => p = "ui"
    <3>1. CASE p = "ui"
      BY <1>2, <1>8, <3>1 DEF BridgeInv, Ordered, OneWorker, BeforeAndAfter
    <3>2. CASE p \in Timers
      BY <1>2, <1>8, <3>2, Names DEF BridgeInv, Ordered, OneWorker, BeforeAndAfter
    <3>3. CASE p \in Clients
      <4>1. threads[p]
        BY <1>2, <1>8, <3>3 DEF BridgeInv, Ordered, OneClient
      <4> QED
        BY <1>2, <1>8, <3>3, <4>1, Names
           DEF BridgeInv, Ordered, WorkerSees, BeforeAndAfter, Calm
    <3> QED
      BY <3>1, <3>2, <3>3, Names DEF Workers
  <2>2. OneWorker'
    <3>1. \A u \in Timers :
            pc'[u] \notin {"free", "pending"} => pc[u] \notin {"free", "pending"} /\ u # p
      BY <1>4, Names DEF B!Rest
    <3>2. pc'["ui"] = IF p = "ui" THEN "idle" ELSE pc["ui"]
      BY <1>4, Names DEF B!Rest, BridgeInv, BridgeTypes
    <3> QED
      BY <1>2, <1>8, <2>0, <3>1, <3>2, Names DEF BridgeInv, Ordered, OneWorker, B!Reconnecting
  <2>3. ASSUME NEW q \in Workers PROVE WorkerSees(q)'
    BY <1>2, <1>4, <1>5, <1>8, Names, <2>3
       DEF BridgeInv, BridgeTypes, Ordered, OneWorker, OneClient, WorkerSees, BeforeAndAfter,
           Calm, B!Reconnecting, Workers, B!Rest
  <2>4. BeforeAndAfter'
    <3>1. pc'["ui"] = IF p = "ui" THEN "idle" ELSE pc["ui"]
      BY <1>4, Names DEF B!Rest, BridgeInv, BridgeTypes
    <3> QED
      BY <1>2, <1>8, <2>0, <3>1 DEF BridgeInv, Ordered, BeforeAndAfter, Calm
  <2> QED
    BY <2>1, <2>2, <2>3, <2>4 DEF Ordered
<1> QED
  BY <1>6, <1>7, <1>8 DEF BridgeInv

LEMMA FailsStep == ASSUME BridgeInv, NEW p \in Workers, B!Fails(p) PROVE BridgeInv'
<1>1. BridgeTypes' /\ OnePending'
  BY Names
     DEF B!Fails, B!Goto, B!fields, B!net, B!world, BridgeInv, BridgeTypes, OnePending,
         B!Procs, Workers, B!Rest, Calm
<1>2. ASSUME ~overlapped' PROVE Ordered'
  BY <1>2, Names
     DEF B!Fails, B!Goto, B!fields, B!net, B!world, BridgeInv, BridgeTypes, Ordered, OneClient,
         OneWorker, WorkerSees, BeforeAndAfter, Calm, B!Reconnecting, B!Procs, Workers, B!Rest
<1> QED
  BY <1>1, <1>2 DEF BridgeInv

LEMMA ConnectsStep == ASSUME BridgeInv, NEW p \in Workers, B!Connects(p) PROVE BridgeInv'
<1>1. BridgeTypes' /\ OnePending'
  BY Names
     DEF B!Connects, B!Goto, B!fields, B!net, B!world, BridgeInv, BridgeTypes, OnePending,
         B!Procs, Workers, B!Rest, Calm
<1>2. ASSUME ~overlapped' PROVE Ordered'
  BY <1>2, Names
     DEF B!Connects, B!Goto, B!fields, B!net, B!world, BridgeInv, BridgeTypes, Ordered,
         OneClient, OneWorker, WorkerSees, BeforeAndAfter, Calm, B!Reconnecting, B!Procs,
         Workers, B!Rest
<1> QED
  BY <1>1, <1>2 DEF BridgeInv

LEMMA LoopStopStep == ASSUME BridgeInv, NEW p \in Workers, B!LoopStop(p) PROVE BridgeInv'
<1>1. BridgeTypes' /\ OnePending'
  BY Names
     DEF B!LoopStop, B!Goto, B!fields, B!net, B!world, BridgeInv, BridgeTypes, OnePending,
         B!Procs, Workers, B!Rest, Calm
<1>2. ASSUME ~overlapped' PROVE Ordered'
  BY <1>2, Names
     DEF B!LoopStop, B!Goto, B!fields, B!net, B!world, BridgeInv, BridgeTypes, Ordered,
         OneClient, OneWorker, WorkerSees, BeforeAndAfter, Calm, B!Reconnecting, B!Procs,
         Workers, B!Rest
<1> QED
  BY <1>1, <1>2 DEF BridgeInv

(* _connect makes a client that nothing refers to the current one.         *)
LEMMA CreateTypes ==
  ASSUME BridgeInv, NEW p \in Workers, B!Create(p)
  PROVE  /\ pc' \in [B!Procs -> {"idle", "free", "pending", "connecting", "schedule", "plant",
                                 "loop_stop", "disconnect", "stopped"}]
         /\ \A q \in B!Procs : pc'[q] = IF q = p THEN "connecting" ELSE pc[q]
         /\ subscriber' \in Clients /\ subscriber' # subscriber
         /\ at'[p] = subscriber'
         /\ at' \in [B!Procs -> Clients \union {Nothing}]
BY Names DEF B!Create, B!Goto, BridgeInv, BridgeTypes

LEMMA StartsStep == ASSUME BridgeInv, B!UserStarts PROVE BridgeInv'
<1>1. /\ calls = 0 /\ calls' = 1 /\ intentional' = FALSE /\ B!Create("ui")
      /\ UNCHANGED <<connected, reconnect, link, threads, overlapped>>
  BY DEF B!UserStarts, B!Begin, B!net
<1>2. BridgeTypes' /\ OnePending'
  <2>1. \A q \in B!Procs : pc'[q] = IF q = "ui" THEN "connecting" ELSE pc[q]
    BY <1>1, CreateTypes, Names
  <2>2. /\ pc'["ui"] \notin {"free", "pending"}
        /\ \A t \in Timers : pc'[t] = pc[t]
        /\ \A c \in Clients : pc'[c] = pc[c]
    BY <2>1, Names
  <2>3. /\ UNCHANGED <<connected, link, threads, reconnect>>
        /\ intentional' \in BOOLEAN /\ overlapped' \in BOOLEAN /\ calls' \in Nat
    BY <1>1 DEF BridgeInv, BridgeTypes
  <2>4. /\ pc' \in [B!Procs -> {"idle", "free", "pending", "connecting", "schedule", "plant",
                                "loop_stop", "disconnect", "stopped"}]
        /\ subscriber' \in Clients
        /\ at' \in [B!Procs -> Clients \union {Nothing}]
    BY <1>1, CreateTypes, Names
  <2> QED
    BY <2>2, <2>3, <2>4 DEF BridgeInv, BridgeTypes, OnePending
<1>3. ASSUME ~overlapped' PROVE Ordered'
  <2>1. OneClient'
    BY <1>1, <1>3, CreateTypes, Names
       DEF BridgeInv, BridgeTypes, Ordered, OneClient, OneWorker, WorkerSees, BeforeAndAfter,
           Calm, B!Rest
  <2>2. OneWorker'
    BY <1>1, <1>3, CreateTypes, Names
       DEF BridgeInv, BridgeTypes, Ordered, OneWorker, BeforeAndAfter, B!Reconnecting, B!Rest
  <2>3. ASSUME NEW q \in Workers PROVE WorkerSees(q)'
    BY <1>1, <1>3, CreateTypes, Names, <2>3
       DEF BridgeInv, BridgeTypes, Ordered, OneWorker, OneClient, WorkerSees, BeforeAndAfter,
           Calm, B!Reconnecting, Workers, B!Rest
  <2>4. BeforeAndAfter'
    BY <1>1, <1>3, CreateTypes, Names
       DEF BridgeInv, BridgeTypes, Ordered, OneClient, OneWorker, WorkerSees, BeforeAndAfter,
           Calm, B!Rest
  <2> QED
    BY <2>1, <2>2, <2>3, <2>4 DEF Ordered
<1> QED
  BY <1>2, <1>3 DEF BridgeInv

LEMMA StopsStep == ASSUME BridgeInv, B!UserStops PROVE BridgeInv'
<1>1. /\ pc["ui"] = "idle" /\ calls # 0 /\ ~intentional /\ calls' = calls + 1
      /\ intentional' = TRUE /\ overlapped' = (overlapped \/ B!Reconnecting)
      /\ UNCHANGED <<subscriber, connected, link, threads, at>>
  BY DEF B!UserStops, B!net
<1>2. pc' = [B!Cancelled(reconnect) EXCEPT !["ui"] =
               IF subscriber = Nothing THEN "stopped" ELSE "loop_stop"]
  BY DEF B!UserStops
<1>3. pc' \in [B!Procs -> {"idle", "free", "pending", "connecting", "schedule", "plant",
                           "loop_stop", "disconnect", "stopped"}]
  BY <1>2, NoneWaits
<1>4. \A q \in B!Procs :
        pc'[q] = IF q = "ui" THEN (IF subscriber = Nothing THEN "stopped" ELSE "loop_stop")
                 ELSE IF pc[q] = "pending" THEN "free" ELSE pc[q]
  BY <1>2, NoneWaits, Names DEF Workers
<1>5. BridgeTypes' /\ OnePending'
  <2>1. /\ pc'["ui"] \notin {"free", "pending"}
        /\ \A t \in Timers : pc'[t] \notin {"idle", "stopped", "pending"}
        /\ \A c \in Clients : pc'[c] \in {"idle", "schedule", "plant"}
    BY <1>4, Names DEF BridgeInv, BridgeTypes
  <2>2. overlapped' \in BOOLEAN /\ calls' \in Nat /\ intentional' \in BOOLEAN
    BY <1>1 DEF BridgeInv, BridgeTypes
  <2> QED
    BY <1>1, <1>3, <2>1, <2>2 DEF BridgeInv, BridgeTypes, OnePending
<1>6. ASSUME ~overlapped' PROVE Ordered'
  <2>1. OneClient'
    BY <1>1, <1>4, <1>6, Names
       DEF BridgeInv, BridgeTypes, Ordered, OneClient, OneWorker, WorkerSees, BeforeAndAfter,
           Calm, B!Rest
  <2>2. OneWorker'
    BY <1>1, <1>4, <1>6, Names
       DEF BridgeInv, BridgeTypes, Ordered, OneWorker, BeforeAndAfter, B!Reconnecting, B!Rest
  <2>3. ASSUME NEW q \in Workers PROVE WorkerSees(q)'
    BY <1>1, <1>4, <1>6, Names, <2>3
       DEF BridgeInv, BridgeTypes, Ordered, OneWorker, OneClient, WorkerSees, BeforeAndAfter,
           Calm, B!Reconnecting, Workers, B!Rest
  <2>4. BeforeAndAfter'
    BY <1>1, <1>4, <1>6, Names
       DEF BridgeInv, BridgeTypes, Ordered, OneClient, OneWorker, WorkerSees, BeforeAndAfter,
           Calm, B!Rest
  <2> QED
    BY <2>1, <2>2, <2>3, <2>4 DEF Ordered
<1> QED
  BY <1>5, <1>6 DEF BridgeInv

LEMMA StopEndsStep == ASSUME BridgeInv, B!StopEnds PROVE BridgeInv'
<1>1. BridgeTypes' /\ OnePending'
  BY Names
     DEF B!StopEnds, B!Goto, B!fields, B!net, B!world, BridgeInv, BridgeTypes, OnePending,
         B!Procs, Workers, B!Rest, Calm
<1>2. ASSUME ~overlapped' PROVE Ordered'
  BY <1>2, Names
     DEF B!StopEnds, B!Goto, B!fields, B!net, B!world, BridgeInv, BridgeTypes, Ordered,
         OneClient, OneWorker, WorkerSees, BeforeAndAfter, Calm, B!Reconnecting, B!Procs,
         Workers, B!Rest
<1> QED
  BY <1>1, <1>2 DEF BridgeInv

LEMMA StoppedStep == ASSUME BridgeInv, B!Stopped PROVE BridgeInv'
<1>1. BridgeTypes' /\ OnePending'
  BY Names
     DEF B!Stopped, B!Goto, B!fields, B!net, B!world, BridgeInv, BridgeTypes, OnePending,
         B!Procs, Workers, B!Rest, Calm
<1>2. ASSUME ~overlapped' PROVE Ordered'
  BY <1>2, Names
     DEF B!Stopped, B!Goto, B!fields, B!net, B!world, BridgeInv, BridgeTypes, Ordered,
         OneClient, OneWorker, WorkerSees, BeforeAndAfter, Calm, B!Reconnecting, B!Procs,
         Workers, B!Rest
<1> QED
  BY <1>1, <1>2 DEF BridgeInv

LEMMA RestartsStep == ASSUME BridgeInv, B!Restarts PROVE BridgeInv'
<1>1. /\ pc["ui"] = "stopped" /\ intentional' = FALSE /\ B!Create("ui")
      /\ overlapped' = (overlapped \/ ~B!OnlyUser)
      /\ UNCHANGED <<connected, reconnect, link, threads, calls>>
  BY DEF B!Restarts, B!Begin, B!net, B!world
<1>2. BridgeTypes' /\ OnePending'
  <2>1. \A q \in B!Procs : pc'[q] = IF q = "ui" THEN "connecting" ELSE pc[q]
    BY <1>1, CreateTypes, Names
  <2>2. /\ pc'["ui"] \notin {"free", "pending"}
        /\ \A t \in Timers : pc'[t] = pc[t]
        /\ \A c \in Clients : pc'[c] = pc[c]
    BY <2>1, Names
  <2>3. /\ UNCHANGED <<connected, link, threads, reconnect>>
        /\ intentional' \in BOOLEAN /\ overlapped' \in BOOLEAN /\ calls' \in Nat
    BY <1>1 DEF BridgeInv, BridgeTypes
  <2>4. /\ pc' \in [B!Procs -> {"idle", "free", "pending", "connecting", "schedule", "plant",
                                "loop_stop", "disconnect", "stopped"}]
        /\ subscriber' \in Clients
        /\ at' \in [B!Procs -> Clients \union {Nothing}]
    BY <1>1, CreateTypes, Names
  <2> QED
    BY <2>2, <2>3, <2>4 DEF BridgeInv, BridgeTypes, OnePending
<1>3. ASSUME ~overlapped' PROVE Ordered'
  <2>1. OneClient'
    BY <1>1, <1>3, CreateTypes, Names
       DEF BridgeInv, BridgeTypes, Ordered, OneClient, OneWorker, WorkerSees, BeforeAndAfter,
           Calm, B!OnlyUser
  <2>2. OneWorker'
    BY <1>1, <1>3, CreateTypes, Names
       DEF BridgeInv, BridgeTypes, Ordered, OneWorker, BeforeAndAfter, B!Reconnecting,
           B!OnlyUser
  <2>3. ASSUME NEW q \in Workers PROVE WorkerSees(q)'
    BY <1>1, <1>3, CreateTypes, Names, <2>3
       DEF BridgeInv, BridgeTypes, Ordered, OneWorker, OneClient, WorkerSees, BeforeAndAfter,
           Calm, B!Reconnecting, Workers, B!OnlyUser
  <2>4. BeforeAndAfter'
    BY <1>1, <1>3, CreateTypes, Names
       DEF BridgeInv, BridgeTypes, Ordered, OneClient, OneWorker, WorkerSees, BeforeAndAfter,
           Calm, B!OnlyUser
  <2> QED
    BY <2>1, <2>2, <2>3, <2>4 DEF Ordered
<1> QED
  BY <1>2, <1>3 DEF BridgeInv

LEMMA FireStep == ASSUME BridgeInv, NEW t \in Timers, B!Fire(t) PROVE BridgeInv'
<1>1. BridgeTypes' /\ OnePending'
  BY Names
     DEF B!Fire, B!Goto, B!fields, B!net, B!world, BridgeInv, BridgeTypes, OnePending, B!Procs,
         Workers, B!Rest, Calm
<1>2. ASSUME ~overlapped' PROVE Ordered'
  BY <1>2, Names
     DEF B!Fire, B!Goto, B!fields, B!net, B!world, BridgeInv, BridgeTypes, Ordered, OneClient,
         OneWorker, WorkerSees, BeforeAndAfter, Calm, B!Reconnecting, B!Procs, Workers, B!Rest
<1> QED
  BY <1>1, <1>2 DEF BridgeInv

LEMMA CreatesStep ==
  ASSUME BridgeInv, NEW t \in Timers, B!ReconnectCreates(t)
  PROVE  BridgeInv'
<1>1. /\ pc[t] = "disconnect" /\ B!Create(t) /\ t \in Workers
      /\ connected' \in BOOLEAN
      /\ link' = [c \in Clients |-> IF c = subscriber THEN "none" ELSE link[c]]
      /\ UNCHANGED <<reconnect, intentional, threads, calls, overlapped>>
  BY DEF B!ReconnectCreates, B!world, Workers, BridgeInv, BridgeTypes
<1>2. BridgeTypes' /\ OnePending'
  BY <1>1, CreateTypes, Names DEF BridgeInv, BridgeTypes, OnePending, Workers
<1>3. ASSUME ~overlapped' PROVE Ordered'
  <2>1. /\ ~intentional /\ pc["ui"] = "idle" /\ calls # 0
        /\ \A u \in Timers : u # t => pc[u] \in {"free", "pending"}
    BY <1>1, <1>3, Names
       DEF BridgeInv, BridgeTypes, Ordered, OneWorker, BeforeAndAfter, B!Reconnecting, B!Procs
  <2>2. Calm' /\ \A c \in Clients : ~threads[c] /\ pc[c] = "idle"
    BY <1>1, <1>3, Names
       DEF BridgeInv, BridgeTypes, Ordered, OneClient, WorkerSees, Calm
  <2>3. /\ \A q \in B!Procs : pc'[q] = IF q = t THEN "connecting" ELSE pc[q]
        /\ subscriber' \in Clients /\ at'[t] = subscriber'
    BY <1>1, CreateTypes
  <2>4. OneClient'
    BY <1>1, <2>2, <2>3, Names DEF OneClient, Calm
  <2>5. OneWorker'
    BY <1>1, <2>1, <2>3, Names DEF OneWorker, B!Reconnecting
  <2>6. ASSUME NEW q \in Workers PROVE WorkerSees(q)'
    BY <1>1, <2>1, <2>2, <2>3, <2>6, Names DEF WorkerSees, Workers
  <2>7. BeforeAndAfter'
    BY <1>1, <2>1, <2>3, Names DEF BeforeAndAfter
  <2> QED
    BY <2>4, <2>5, <2>6, <2>7 DEF Ordered
<1> QED
  BY <1>2, <1>3 DEF BridgeInv

LEMMA AcceptedStep == ASSUME BridgeInv, NEW c \in Clients, B!Accepted(c) PROVE BridgeInv'
<1>1. BridgeTypes' /\ OnePending'
  BY Names
     DEF B!Accepted, B!Goto, B!fields, B!net, B!world, BridgeInv, BridgeTypes, OnePending,
         B!Procs, Workers, B!Rest, Calm
<1>2. ASSUME ~overlapped' PROVE Ordered'
  BY <1>2, Names
     DEF B!Accepted, B!Goto, B!fields, B!net, B!world, BridgeInv, BridgeTypes, Ordered,
         OneClient, OneWorker, WorkerSees, BeforeAndAfter, Calm, B!Reconnecting, B!Procs,
         Workers, B!Rest
<1> QED
  BY <1>1, <1>2 DEF BridgeInv

LEMMA RefusedStep == ASSUME BridgeInv, NEW c \in Clients, B!Refused(c) PROVE BridgeInv'
<1>1. BridgeTypes' /\ OnePending'
  BY Names
     DEF B!Refused, B!Goto, B!fields, B!net, B!world, BridgeInv, BridgeTypes, OnePending,
         B!Procs, Workers, B!Rest, Calm
<1>2. ASSUME ~overlapped' PROVE Ordered'
  BY <1>2, Names
     DEF B!Refused, B!Goto, B!fields, B!net, B!world, BridgeInv, BridgeTypes, Ordered,
         OneClient, OneWorker, WorkerSees, BeforeAndAfter, Calm, B!Reconnecting, B!Procs,
         Workers, B!Rest
<1> QED
  BY <1>1, <1>2 DEF BridgeInv

LEMMA LostStep == ASSUME BridgeInv, NEW c \in Clients, B!Lost(c) PROVE BridgeInv'
<1>1. BridgeTypes' /\ OnePending'
  BY Names
     DEF B!Lost, B!Goto, B!fields, B!net, B!world, BridgeInv, BridgeTypes, OnePending, B!Procs,
         Workers, B!Rest, Calm
<1>2. ASSUME ~overlapped' PROVE Ordered'
  BY <1>2, Names
     DEF B!Lost, B!Goto, B!fields, B!net, B!world, BridgeInv, BridgeTypes, Ordered, OneClient,
         OneWorker, WorkerSees, BeforeAndAfter, Calm, B!Reconnecting, B!Procs, Workers, B!Rest
<1> QED
  BY <1>1, <1>2 DEF BridgeInv

LEMMA RetryStep == ASSUME BridgeInv, NEW c \in Clients, B!Retry(c) \/ B!Ends(c) PROVE BridgeInv'
<1>1. BridgeTypes' /\ OnePending'
  BY Names
     DEF B!Retry, B!Ends, B!Goto, B!fields, B!net, B!world, BridgeInv, BridgeTypes, OnePending,
         B!Procs, Workers, B!Rest, Calm
<1>2. ASSUME ~overlapped' PROVE Ordered'
  BY <1>2, Names
     DEF B!Retry, B!Ends, B!Goto, B!fields, B!net, B!world, BridgeInv, BridgeTypes, Ordered,
         OneClient, OneWorker, WorkerSees, BeforeAndAfter, Calm, B!Reconnecting, B!Procs,
         Workers, B!Rest
<1> QED
  BY <1>1, <1>2 DEF BridgeInv

LEMMA BrokerStep == ASSUME BridgeInv, NEW state, B!BrokerChanges(state) PROVE BridgeInv'
<1>1. BridgeTypes' /\ OnePending'
  BY Names
     DEF B!BrokerChanges, B!Goto, B!fields, B!net, B!world, BridgeInv, BridgeTypes, OnePending,
         B!Procs, Workers, B!Rest, Calm
<1>2. ASSUME ~overlapped' PROVE Ordered'
  BY <1>2, Names
     DEF B!BrokerChanges, B!Goto, B!fields, B!net, B!world, BridgeInv, BridgeTypes, Ordered,
         OneClient, OneWorker, WorkerSees, BeforeAndAfter, Calm, B!Reconnecting, B!Procs,
         Workers, B!Rest
<1> QED
  BY <1>1, <1>2 DEF BridgeInv

LEMMA BridgeStep == ASSUME BridgeInv, B!Next PROVE BridgeInv'
<1>1. CASE B!UserStarts \/ B!UserStops
  BY <1>1, StartsStep, StopsStep
<1>2. CASE B!User
  BY <1>2, TestStep, PlantStep, FailsStep, ConnectsStep, LoopStopStep, StopEndsStep, StoppedStep,
     RestartsStep, Names
     DEF B!User, B!Connecting, B!Schedule
<1>3. CASE \E t \in Timers : B!Reconnect(t)
  BY <1>3, TestStep, PlantStep, FailsStep, ConnectsStep, LoopStopStep, FireStep, CreatesStep,
     Names
     DEF B!Reconnect, B!Connecting, B!Schedule
<1>4. CASE \E c \in Clients : B!Network(c)
  BY <1>4, TestStep, PlantStep, AcceptedStep, RefusedStep, LostStep, RetryStep, Names
     DEF B!Network, B!Schedule
<1>5. CASE \E state \in {"up", "refusing", "down"} : B!BrokerChanges(state)
  BY <1>5, BrokerStep
<1> QED
  BY <1>1, <1>2, <1>3, <1>4, <1>5 DEF B!Next

(* A bridge that the user stopped has no network thread, no socket and no  *)
(* way to get one, whatever timers were planted and callbacks ran          *)
(* meanwhile, if no reconnect was past its test of _intentional_disconnect *)
(* then or when another one began: with any number of clients, timers,     *)
(* calls of the user and changes of the broker (mqtt_bridge.py:262).       *)
THEOREM StopAlwaysQuiet == Spec => []StopIsQuiet
<1>1. Init => BridgeInv
  BY BridgeInit DEF Init
<1>2. BridgeInv /\ [Next]_all => BridgeInv'
  <2> SUFFICES ASSUME BridgeInv, [Next]_all PROVE BridgeInv'
    OBVIOUS
  <2>1. CASE UNCHANGED bridge
    BY <2>1
       DEF bridge, BridgeInv, BridgeTypes, OnePending, Ordered, OneClient, OneWorker,
           WorkerSees,
                BeforeAndAfter, Calm, B!Reconnecting
  <2>2. CASE B!Next
    BY <2>2, BridgeStep
  <2> QED
    BY <2>1, <2>2 DEF Next, all
<1>3. BridgeInv => StopIsQuiet
  BY DEF BridgeInv, Ordered, OneWorker, BeforeAndAfter, Calm, StopIsQuiet, B!StopIsQuiet
<1> QED
  BY <1>1, <1>2, <1>3, PTL DEF Spec
=============================================================================
