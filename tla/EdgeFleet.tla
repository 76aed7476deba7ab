------------------------------- MODULE EdgeFleet -------------------------------
(***************************************************************************)
(* The desk's table of boards and of model versions (EdgeService and its   *)
(* two repositories) against the boards themselves, by way of EdgeClient.  *)
(*                                                                         *)
(* Every command runs in a thread of its own: it reads the board's row,    *)
(* asks the board, and writes the row.  The telemetry thread does the same *)
(* every five seconds, and several pushes of a batch run side by side.     *)
(* Each read and each write is a session of its own.                       *)
(*                                                                         *)
(* Scene, rollback and restart go out over MQTT and nothing comes back;    *)
(* a push is a copy and a call over SSH, with an answer that may be lost.  *)
(***************************************************************************)
EXTENDS Integers, FiniteSets

CONSTANTS
  Devices, Scenes, Models,
  SceneOf,         \* ModelVersion: model -> the scene it is registered for
  Factory,         \* the model a board comes with
  Threads,         \* threads of commands, and of the pool of a batch
  Telemetry,       \* the telemetry thread
  MaxCommands      \* bound: commands of the user

(* What the constants have to be.                                         *)
FleetConstants ==
  /\ SceneOf \in [Models -> Scenes] /\ Factory \notin Models
  /\ Telemetry \notin Threads /\ MaxCommands \in Nat

VARIABLES
  rows,      \* device -> EdgeDevice, for the ones registered
  recorded,  \* model -> deployed_devices_json
  board,     \* device -> what it has: scene and model
  ran,       \* device -> the models it has run since it was built
  sent,      \* MQTT commands on their way
  thread,    \* thread -> what it is doing
  batch,     \* the model of the batch under way, and device -> its answer
  pushed,    \* [model, device]: pushes answered with success
  commands

desk == <<rows, recorded>>
vars == <<desk, board, ran, sent, thread, batch, pushed, commands>>

Blank == [status |-> "offline", scene |-> "", model |-> ""]
Idle == [step |-> "idle"]
NoBatch == [model |-> Factory, answers |-> <<>>]
Registered == DOMAIN rows
Goto(t, step) == thread' = [thread EXCEPT ![t].step = step]
End(t) == thread' = [thread EXCEPT ![t] = Idle]

Init ==
  /\ rows = [d \in {} |-> Blank] /\ recorded = [m \in Models |-> {}]
  /\ board \in [Devices -> [scene : Scenes, model : {Factory}]]
  /\ ran = [d \in Devices |-> {Factory}]
  /\ sent = {} /\ thread = [t \in Threads \union {Telemetry} |-> Idle]
  /\ batch = NoBatch /\ pushed = {} /\ commands = 0

-----------------------------------------------------------------------------
(* EdgeDeviceRepository.                                                   *)

(* setattr of each field that is named, over the row as it is.             *)
Over(new, old) == [f \in DOMAIN old |-> IF f \in DOMAIN new THEN new[f] ELSE old[f]]

(* Mutant of Update: a row that is not there is made.                      *)
UpdateOrInsert(d, row) ==
  rows' = [e \in Registered \union {d} |-> IF e = d THEN Over(row, Blank) ELSE rows[e]]
Update(d, row) ==
  rows' = [e \in Registered |-> IF e = d THEN Over(row, rows[e]) ELSE rows[e]]

(* The page registers and removes boards in its own thread.                *)
Register(d) ==
  /\ d \notin Registered
  /\ rows' = [e \in Registered \union {d} |-> IF e = d THEN Blank ELSE rows[e]]
  /\ UNCHANGED <<recorded, board, ran, sent, thread, batch, pushed>>
Unregister(d) ==
  /\ rows' = [e \in Registered \ {d} |-> rows[e]]
  /\ UNCHANGED <<recorded, board, ran, sent, thread, batch, pushed>>

-----------------------------------------------------------------------------
(* A command.                                                              *)
Command(t, op, d, arg) ==
  /\ thread[t] = Idle
  /\ thread' = [thread EXCEPT ![t] = [step |-> "read", op |-> op, device |-> d, arg |-> arg,
                                      row |-> Blank, devices |-> {}]]

(* Answers of a batch are gathered, others go to the page.                 *)
Answer(t, answer) ==
  LET d == thread[t].device IN
  /\ batch' = IF thread[t].op = "push" /\ d \in DOMAIN batch.answers
                 /\ thread[t].arg = batch.model
              THEN [batch EXCEPT !.answers[d] = answer] ELSE batch
  /\ pushed' = IF thread[t].op = "push" /\ answer = "success"
               THEN pushed \union {[model |-> thread[t].arg, device |-> d]} ELSE pushed
  /\ End(t)

Read(t) ==
  /\ thread[t].step = "read"
  /\ LET d == thread[t].device IN
     IF d \in Registered
     THEN /\ thread' = [thread EXCEPT ![t].row = rows[d],
                          ![t].step = IF t = Telemetry THEN "write" ELSE "ask"]
          /\ UNCHANGED <<batch, pushed>>
     ELSE Answer(t, "error")
  /\ UNCHANGED <<desk, board, ran, sent, commands>>

(* _send_mqtt_command connects, publishes and disconnects: "sent" is all   *)
(* it can tell.                                                            *)
Send(t) ==
  /\ thread[t].step = "ask" /\ thread[t].op \in {"switch", "rollback", "restart"}
  /\ \/ Answer(t, "error") /\ UNCHANGED sent
     \/ /\ sent' = sent \union {[device |-> thread[t].device, op |-> thread[t].op,
                                 arg |-> thread[t].arg]}
        /\ IF thread[t].op = "rollback" THEN Answer(t, "success")
           ELSE Goto(t, "write") /\ UNCHANGED <<batch, pushed>>
  /\ UNCHANGED <<desk, board, ran, commands>>

Install(d, m) ==
  /\ board' = [board EXCEPT ![d].model = m]
  /\ ran' = [ran EXCEPT ![d] = @ \union {m}]

(* Mutant of Push: what the board answers is not looked at.                *)
PushUnasked(t) ==
  /\ thread[t].step = "ask" /\ thread[t].op = "push"
  /\ \/ Install(thread[t].device, thread[t].arg)
     \/ UNCHANGED <<board, ran>>
  /\ Goto(t, "write") /\ UNCHANGED <<desk, sent, batch, pushed, commands>>
Push(t) ==
  /\ thread[t].step = "ask" /\ thread[t].op = "push"
  /\ \/ /\ Install(thread[t].device, thread[t].arg)
        /\ \/ Goto(t, "write") /\ UNCHANGED <<batch, pushed>>
           \/ Answer(t, "error")
     \/ Answer(t, "error") /\ UNCHANGED <<board, ran>>
  /\ UNCHANGED <<desk, sent, commands>>

(* get_device answers with the row whether or not the board tells more.    *)
Status(t) ==
  /\ thread[t].step = "ask" /\ thread[t].op = "refresh"
  /\ \/ Answer(t, "success")
     \/ /\ thread' = [thread EXCEPT ![t].step = "write",
                        ![t].row = [status |-> "running", scene |-> board[thread[t].device].scene,
                                    model |-> board[thread[t].device].model]]
        /\ UNCHANGED <<batch, pushed>>
  /\ UNCHANGED <<desk, board, ran, sent, commands>>

(* What is written: a heartbeat that names neither scene nor model writes  *)
(* those it has read.  A push then looks for its version among those of    *)
(* the row's scene, or among all of them if the row has none.              *)
Written(t) ==
  LET it == thread[t] IN
  CASE it.op = "switch" -> [scene |-> it.arg]
    [] it.op = "push" -> [model |-> it.arg]
    [] it.op = "restart" -> [status |-> "restarting"]
    [] it.op = "heartbeat" -> [it.row EXCEPT !.status = "online"]
    [] it.op = "refresh" -> it.row
Write(t) ==
  /\ thread[t].step = "write"
  /\ Update(thread[t].device, Written(t))
  /\ IF thread[t].op = "push" /\ thread[t].row.scene \in {"", SceneOf[thread[t].arg]}
     THEN Goto(t, "list") /\ UNCHANGED <<batch, pushed>>
     ELSE Answer(t, "success")
  /\ UNCHANGED <<recorded, board, ran, sent, commands>>

(* add_deployed_device reads the list, appends to it in place and assigns  *)
(* it to the column again: the same object, so that only a new list, the   *)
(* one made for an empty column, is saved.                                 *)
List(t) ==
  /\ thread[t].step = "list"
  /\ thread' = [thread EXCEPT ![t].devices = recorded[thread[t].arg], ![t].step = "record"]
  /\ UNCHANGED <<desk, board, ran, sent, batch, pushed, commands>>
Record(t) ==
  /\ thread[t].step = "record"
  /\ recorded' = IF thread[t].devices = {}
                 THEN [recorded EXCEPT ![thread[t].arg] = {thread[t].device}] ELSE recorded
  /\ Answer(t, "success")
  /\ UNCHANGED <<rows, board, ran, sent, commands>>

-----------------------------------------------------------------------------
(* The boards: a command arrives or is lost.                               *)
Arrives(c) ==
  /\ sent' = sent \ {c}
  /\ \/ UNCHANGED board
     \/ c.op = "switch" /\ board' = [board EXCEPT ![c.device].scene = c.arg]
     \/ c.op = "rollback" /\ \E m \in ran[c.device] : board' = [board EXCEPT ![c.device].model = m]
  /\ UNCHANGED <<desk, ran, thread, batch, pushed, commands>>

(* The telemetry thread takes the boards of the table one by one.          *)
Poll(d) ==
  /\ d \in Registered /\ Command(Telemetry, "heartbeat", d, Factory)
  /\ UNCHANGED <<desk, board, ran, sent, batch, pushed, commands>>

(* A batch: a push for every board, in the threads of the pool.            *)
Deploy(m, D) ==
  /\ batch = NoBatch /\ Cardinality(D) <= Cardinality({t \in Threads : thread[t] = Idle})
  /\ batch' = [model |-> m, answers |-> [d \in D |-> "pending"]]
  /\ \E T \in [D -> {t \in Threads : thread[t] = Idle}] :
       /\ \A d, e \in D : T[d] = T[e] => d = e
       /\ thread' = [t \in DOMAIN thread |->
                       IF \E d \in D : T[d] = t
                       THEN [step |-> "read", op |-> "push", device |-> CHOOSE d \in D : T[d] = t,
                             arg |-> m, row |-> Blank, devices |-> {}]
                       ELSE thread[t]]
  /\ UNCHANGED <<desk, board, ran, sent, pushed>>

(* deploy_to_devices returns when every answer is there.                   *)
Deployed == \A d \in DOMAIN batch.answers : batch.answers[d] # "pending"
BatchAnswer ==
  IF \A d \in DOMAIN batch.answers : batch.answers[d] = "success" THEN "success" ELSE "partial"
Returns ==
  /\ batch # NoBatch /\ Deployed /\ batch' = NoBatch
  /\ UNCHANGED <<desk, board, ran, sent, thread, pushed, commands>>

Page ==
  /\ commands < MaxCommands /\ commands' = commands + 1
  /\ \/ \E d \in Devices : Register(d) \/ Unregister(d)
     \/ /\ \E t \in Threads, d \in Devices :
             \/ \E s \in Scenes : Command(t, "switch", d, s)
             \/ \E m \in Models : Command(t, "push", d, m)
             \/ \E op \in {"rollback", "restart", "refresh"} : Command(t, op, d, Factory)
        /\ UNCHANGED <<desk, board, ran, sent, batch, pushed>>
     \/ \E m \in Models, D \in SUBSET Devices \ {{}} : Deploy(m, D)

Work(t) == Read(t) \/ Send(t) \/ Push(t) \/ Status(t) \/ Write(t) \/ List(t) \/ Record(t)
Next ==
  \/ Page \/ Returns
  \/ \E t \in DOMAIN thread : Work(t)
  \/ \E c \in sent : Arrives(c)
  \/ \E d \in Devices : Poll(d)

Spec == Init /\ [][Next]_vars
-----------------------------------------------------------------------------
(* A board that was removed stays removed, whatever commands, heartbeats   *)
(* and pushes of it were under way: a row appears blank, by a registration.*)
AppearsBlank ==
  \A d \in DOMAIN rows' : d \notin Registered => rows'[d] = Blank /\ commands' = commands + 1
GoneStaysGone == [][AppearsBlank]_vars

(* Whatever the desk says of a model on a board, in the board's row, in    *)
(* the version's list or as the answer of a batch, has been so: no late,   *)
(* stale or failed push, heartbeat or refresh makes it name a model the    *)
(* board has never run.                                                    *)
LabelsWereTrue ==
  /\ \A d \in Registered : rows[d].model \in ran[d] \union {""}
  /\ \A m \in Models : \A d \in recorded[m] : m \in ran[d]
  /\ batch # NoBatch /\ Deployed /\ BatchAnswer = "success" =>
       \A d \in DOMAIN batch.answers : batch.model \in ran[d]

(* add_deployed_device "records that the model was deployed to a device"   *)
(* (model_version_repository.py:116): a push answered with success is in   *)
(* the version's list.                                                     *)
DeploymentsAreRecorded == \A p \in pushed : p.device \in recorded[p.model]
=============================================================================
