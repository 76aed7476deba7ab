------------------------------ MODULE TaskRuntime ------------------------------
(***************************************************************************)
(* The tasks of the training tool (training/backend): the rows of the      *)
(* table tasks, the TaskManager that moves their status, the services that *)
(* run a plugin and store what it returns, and the threads of main.py that *)
(* call them while the user cancels, deletes or quits.                     *)
(*                                                                         *)
(* Every TaskManager call opens a session, reads the row, tests its status *)
(* and writes it back.  SQLite starts the transaction at the write, so     *)
(* another thread can write between the read and the write of a call:      *)
(* these are two steps here.  Transactions are one step each.  The keys of *)
(* the table are SQLite rowids: the highest one is given out again once    *)
(* its row is deleted, so the model numbers the tasks apart from their     *)
(* rows (birth).                                                           *)
(***************************************************************************)
EXTENDS Integers, FiniteSets, FiniteSetsExt

CONSTANTS
  Workers,        \* the threads _run_in_background may start
  Kinds,          \* the task types created: cleaning, generation, ...
  Target,         \* target_count of a generation task
  StaleReads,     \* the values of stale
  StartTwice,     \* whether a task may be started a second time
  MayFail,        \* whether a plugin or a transaction may raise
  MaxIds,         \* bound: rows at a time
  MaxBirths,      \* bound: tasks created
  MaxCrashes      \* bound: how often the process ends

ASSUME TaskAssumption ==
  /\ Kinds \subseteq {"cleaning", "generation", "evaluation", "training"}
  /\ Target \in Nat \ {0}
  /\ StaleReads \subseteq BOOLEAN
  /\ {StartTwice, MayFail} \subseteq BOOLEAN
  /\ MaxIds \in Nat /\ MaxBirths \in Nat /\ MaxCrashes \in Nat

VARIABLES
  up,        \* the process runs
  rows,      \* table tasks: the row of each id, or NoRow
  births,    \* how many tasks have been created
  flags,     \* TaskManager._cancel_flags: the ids that are set
  worker,    \* each background thread
  ui,        \* the cancel call of the user's thread, or NoCall
  results,   \* the rows of cleaning_suggestions, generation_outputs and
             \* evaluation_results
  inputs,    \* what the services' tests still find of the datasets and algorithms
  crashes,   \* how often the process has ended
  stale      \* whether a thread may move between the read and the write of
             \* another one's TaskManager call: it never changes

vars == <<up, rows, births, flags, worker, ui, results, inputs, crashes, stale>>

Ids == 1 .. MaxIds
NoRow == [status |-> "none"]
NoCall == [id |-> 0, read |-> "none"]
Statuses == {"pending", "running", "completed", "failed", "cancelled", "interrupted"}
Finished == Statuses \ {"pending", "running"}

Idle == [pc |-> "idle", id |-> 0, kind |-> "", birth |-> 0, alg |-> 0, made |-> 0,
         parts |-> {}, stored |-> {}, code |-> "", again |-> FALSE]

Exists(id) == rows[id] # NoRow
(* One past the highest rowid in use.                                      *)
NextId == Max({0} \union {id \in Ids : Exists(id)}) + 1

(* The algorithms a task runs one after the other.                         *)
Algorithms(kind) == IF kind \in {"cleaning", "generation"} THEN 1 .. 2 ELSE {1}
Copies == 3

(* The source (or baseline) dataset and the target dataset are active,     *)
(* there are samples, the algorithms exist, and they are enabled.          *)
Inputs == {"source", "target", "samples", "algorithm", "enabled"}

Init ==
  /\ up = TRUE
  /\ rows = [id \in Ids |-> NoRow]
  /\ births = 0
  /\ flags = {}
  /\ worker = [w \in Workers |-> Idle]
  /\ ui = NoCall
  /\ results = {}
  /\ inputs = Inputs
  /\ crashes = 0
  /\ stale \in StaleReads

-----------------------------------------------------------------------------
(* Who is between the read and the write of a call.                        *)
MidCall == {w \in Workers : worker[w].pc \in {"starting", "completing", "failing"}}

Turn(w) == up /\ (stale \/ (MidCall \subseteq {w} /\ ui = NoCall))
UiTurn == up /\ (stale \/ MidCall = {})

Kind(w) == worker[w].kind
Goto(w, place) == worker' = [worker EXCEPT ![w].pc = place]
(* Where the except clauses of run_task lead: fail is called, a second     *)
(* time (again) when the first call raised.                                *)
Fail(w, code, again) ==
  worker' = [worker EXCEPT ![w].pc = "fail", ![w].code = code, ![w].again = again]
End(w) == worker' = [worker EXCEPT ![w] = Idle]
SetStatus(id, s) == rows' = [rows EXCEPT ![id].status = s]

-----------------------------------------------------------------------------
(* Nothing of an earlier task of this number is left: no thread works for  *)
(* it, and no results carry it.                                            *)
Busy(id) == \E w \in Workers : worker[w].id = id
NumberIsFree(id) == ~Busy(id) /\ \A r \in results : r.id # id

(* The create_task functions of the four services test what they need and  *)
(* add the row as pending, in one transaction.  own is history: the task   *)
(* shares its number with nobody.                                          *)
Create(kind, needs) ==
  /\ up /\ ui = NoCall
  /\ kind \in Kinds /\ needs \subseteq inputs
  /\ births < MaxBirths /\ NextId \in Ids
  /\ births' = births + 1
  /\ rows' = [rows EXCEPT ![NextId] =
       [status |-> "pending", kind |-> kind, birth |-> births', made |-> 0,
        parts |-> {}, own |-> NumberIsFree(NextId)]]
  /\ UNCHANGED <<up, flags, worker, ui, results, inputs, crashes>>

CreateCleaning == Create("cleaning", {"source", "algorithm", "enabled"})
(* The target dataset is created with the task.                            *)
CreateGeneration == Create("generation", {"source", "samples", "algorithm", "enabled"})
CreateEvaluation == Create("evaluation", {"source", "target", "algorithm", "enabled"})
CreateTraining == Create("training", {"source", "samples", "algorithm", "enabled"})

(* What the same services test again before they run a task.  A training   *)
(* runs although its algorithm has been disabled.                          *)
CleaningNeeds == {"source", "algorithm", "enabled"}
GenerationNeeds == {"source", "target", "samples", "algorithm", "enabled"}
EvaluationNeeds == {"source", "target", "algorithm", "enabled"}
TrainingNeeds == {"source", "samples", "algorithm"}

Needs(kind) ==
  CASE kind = "cleaning"   -> CleaningNeeds
    [] kind = "generation" -> GenerationNeeds
    [] kind = "evaluation" -> EvaluationNeeds
    [] kind = "training"   -> TrainingNeeds

(* A dataset is deleted, or an algorithm disabled or deleted.              *)
InputsVanish(what) ==
  /\ up /\ ui = NoCall /\ MayFail
  /\ inputs = Inputs /\ inputs' = inputs \ {what}
  /\ UNCHANGED <<up, rows, births, flags, worker, ui, results, crashes>>

(* createCleaningTask, startEnhancementTask, startEvaluationTask and       *)
(* startTrainingTask start a thread for the id; nothing keeps the user     *)
(* from starting the same task twice.                                      *)
Spawn(w, id) ==
  /\ up /\ ui = NoCall
  /\ worker[w].pc = "idle"
  /\ Exists(id)
  /\ StartTwice \/ (rows[id].status = "pending" /\ \A v \in Workers : worker[v].id # id)
  /\ worker' = [worker EXCEPT ![w] = [Idle EXCEPT !.pc = "spawned", !.id = id]]
  /\ UNCHANGED <<up, rows, births, flags, ui, results, inputs, crashes>>

(* Mutant of StartRead: the status is not tested.                          *)
StartReadAny(w) == LET id == worker[w].id IN
  /\ Turn(w) /\ worker[w].pc = "spawned"
  /\ flags' = flags \ {id}
  /\ IF Exists(id) THEN Goto(w, "starting") ELSE End(w)
  /\ UNCHANGED <<up, rows, births, ui, results, inputs, crashes>>

(* TaskManager.start: the request to cancel is forgotten before the status *)
(* is known.                                                               *)
StartRead(w) == LET id == worker[w].id IN
  /\ Turn(w) /\ worker[w].pc = "spawned"
  /\ flags' = flags \ {id}
  /\ IF Exists(id) /\ rows[id].status = "pending" THEN Goto(w, "starting") ELSE End(w)
  /\ UNCHANGED <<up, rows, births, ui, results, inputs, crashes>>

(* The update raises when the row has gone in the meantime.                *)
StartWrite(w) == LET id == worker[w].id IN
  /\ Turn(w) /\ worker[w].pc = "starting"
  /\ IF Exists(id)
     THEN /\ SetStatus(id, "running")
          /\ worker' = [worker EXCEPT ![w].pc = "checking", ![w].birth = rows[id].birth,
                                      ![w].kind = rows[id].kind]
     ELSE End(w) /\ UNCHANGED rows
  /\ UNCHANGED <<up, births, flags, ui, results, inputs, crashes>>

(* The tests at the top of run_task.  They come before its try: what they  *)
(* raise reaches _normalize_error and leaves the task as it is.            *)
Check(w) == LET id == worker[w].id IN
  /\ Turn(w) /\ worker[w].pc = "checking"
  /\ IF Exists(id) /\ rows[id].status = "running" /\ Needs(Kind(w)) \subseteq inputs
     THEN worker' = [worker EXCEPT ![w].pc = "plugin", ![w].alg = 1]
     ELSE End(w)
  /\ UNCHANGED <<up, rows, births, flags, ui, results, inputs, crashes>>

-----------------------------------------------------------------------------
(* The plugin of one algorithm polls the flag, reports progress on the row *)
(* and returns; a report on a row that has gone raises.                    *)
InPlugin(w) == Turn(w) /\ worker[w].pc = "plugin"

PluginCancelled(w) ==
  /\ InPlugin(w) /\ worker[w].id \in flags
  /\ Fail(w, "CANCELLED", FALSE)
  /\ UNCHANGED <<up, rows, births, flags, ui, results, inputs, crashes>>

PluginFails(w) ==
  /\ InPlugin(w)
  /\ MayFail \/ ~Exists(worker[w].id)
  /\ \E raised \in BOOLEAN :   \* or returned an error
       Fail(w, "ERROR", raised)
  /\ UNCHANGED <<up, rows, births, flags, ui, results, inputs, crashes>>

(* The plugin of algorithm alg has returned ok.  Storing comes after the   *)
(* last algorithm; the parts to store are the outputs of an algorithm, by  *)
(* its number (1 for all suggestions), and Copies, the source images.      *)
Returned(w, made, parts, last) ==
  worker' = [worker EXCEPT
    ![w].made = made, ![w].parts = @ \union parts,
    ![w].alg = IF last THEN 0 ELSE @ + 1,
    ![w].pc = IF ~last THEN "plugin"
              ELSE IF Kind(w) = "training" THEN "complete" ELSE "storing"]
LastAlgorithm(w) == worker[w].alg = Max(Algorithms(Kind(w)))

CleaningReturns(w) ==
  /\ InPlugin(w) /\ Kind(w) = "cleaning"
  /\ Returned(w, 1, {1}, LastAlgorithm(w))
  /\ UNCHANGED <<up, rows, births, flags, ui, results, inputs, crashes>>

(* The outputs of one algorithm are cut to what is still missing; no       *)
(* algorithm is called once nothing is.  A generation reports after each   *)
(* algorithm, on a row that must exist.                                    *)
GenerationReturns(w, n) == LET made == worker[w].made + n
                               last == LastAlgorithm(w) \/ made = Target IN
  /\ InPlugin(w) /\ Kind(w) = "generation" /\ Exists(worker[w].id)
  /\ made <= Target
  /\ Returned(w, made, (IF n > 0 THEN {worker[w].alg} ELSE {}) \union
                       (IF last THEN {Copies} ELSE {}), last)
  /\ UNCHANGED <<up, rows, births, flags, ui, results, inputs, crashes>>

EvaluationReturns(w) ==
  /\ InPlugin(w) /\ Kind(w) = "evaluation"
  /\ Returned(w, 1, {1}, TRUE)
  /\ UNCHANGED <<up, rows, births, flags, ui, results, inputs, crashes>>

(* A training leaves its files in the output directory, and no rows.       *)
TrainingReturns(w) ==
  /\ InPlugin(w) /\ Kind(w) = "training"
  /\ Returned(w, 1, {}, TRUE)
  /\ UNCHANGED <<up, rows, births, flags, ui, results, inputs, crashes>>

(* All parts stored: the task is to be completed.                          *)
Stored(w, stored) ==
  worker' = [worker EXCEPT ![w].stored = stored,
    ![w].pc = IF stored = worker[w].parts THEN "complete" ELSE "storing"]

(* Mutant of Store: a request to cancel is honoured between transactions.  *)
StoreOrCancel(w, part) ==
  /\ Turn(w) /\ worker[w].pc = "storing" /\ part \notin worker[w].stored
  /\ results' = results \union
       {[id |-> worker[w].id, birth |-> worker[w].birth, part |-> part, by |-> w]}
  /\ IF worker[w].id \in flags
     THEN Fail(w, "CANCELLED", FALSE)
     ELSE Stored(w, worker[w].stored \union {part})
  /\ UNCHANGED <<up, rows, births, flags, ui, inputs, crashes>>

(* Mutant of Store: the task completes after the first transaction.        *)
StoreFirst(w, part) ==
  /\ Turn(w) /\ worker[w].pc = "storing" /\ part \notin worker[w].stored
  /\ results' = results \union
       {[id |-> worker[w].id, birth |-> worker[w].birth, part |-> part, by |-> w]}
  /\ worker' = [worker EXCEPT ![w].stored = {part}, ![w].pc = "complete"]
  /\ UNCHANGED <<up, rows, births, flags, ui, inputs, crashes>>

(* One transaction stores one part.  No foreign key is enforced: the task  *)
(* need not exist any more.                                                *)
Store(w, part) ==
  /\ Turn(w) /\ worker[w].pc = "storing" /\ part \notin worker[w].stored
  /\ results' = results \union
       {[id |-> worker[w].id, birth |-> worker[w].birth, part |-> part, by |-> w]}
  /\ Stored(w, worker[w].stored \union {part})
  /\ UNCHANGED <<up, rows, births, flags, ui, inputs, crashes>>

StoreSuggestions(w) == Kind(w) = "cleaning" /\ Store(w, 1)
StoreResults(w) == Kind(w) = "evaluation" /\ Store(w, 1)
(* The outputs of one algorithm after the other, then the copies.          *)
StoreOutputs(w) ==
  /\ Kind(w) = "generation"
  /\ \E part \in worker[w].parts \ {Copies} :
       /\ \A p \in worker[w].parts : p < part => p \in worker[w].stored
       /\ Store(w, part)
StoreCopies(w) ==
  /\ Kind(w) = "generation"
  /\ worker[w].parts \ {Copies} \subseteq worker[w].stored
  /\ Store(w, Copies)

(* A file is missing, the target dataset has gone, the database is locked. *)
StoreFails(w) ==
  /\ Turn(w) /\ worker[w].pc = "storing" /\ MayFail
  /\ Fail(w, "ERROR", TRUE)
  /\ UNCHANGED <<up, rows, births, flags, ui, results, inputs, crashes>>

-----------------------------------------------------------------------------
(* TaskManager.complete.  It raises unless the task runs; run_task then    *)
(* calls fail, which raises again unless the status changed back.          *)
CompleteRead(w) == LET id == worker[w].id IN
  /\ Turn(w) /\ worker[w].pc = "complete"
  /\ IF Exists(id) /\ rows[id].status = "running"
     THEN Goto(w, "completing")
     ELSE Fail(w, "ERROR", TRUE)
  /\ UNCHANGED <<up, rows, births, flags, ui, results, inputs, crashes>>

CompleteWrite(w) == LET id == worker[w].id IN
  /\ Turn(w) /\ worker[w].pc = "completing"
  /\ IF Exists(id)
     THEN /\ rows' = [rows EXCEPT ![id].status = "completed",
                                  ![id].made = worker[w].made,
                                  ![id].parts = worker[w].parts]
          /\ End(w)
     ELSE /\ UNCHANGED rows
          /\ Fail(w, "ERROR", TRUE)
  /\ UNCHANGED <<up, births, flags, ui, results, inputs, crashes>>

(* Mutant of FailRead: a cancelled task is not brought to an end.          *)
FailReadErrors(w) == LET id == worker[w].id IN
  /\ Turn(w) /\ worker[w].pc = "fail"
  /\ IF Exists(id) /\ rows[id].status = "running" /\ worker[w].code # "CANCELLED"
     THEN Goto(w, "failing")
     ELSE IF worker[w].again \/ worker[w].code = "CANCELLED" THEN End(w)
          ELSE Fail(w, "ERROR", TRUE)
  /\ UNCHANGED <<up, rows, births, flags, ui, results, inputs, crashes>>

(* TaskManager.fail.  What the first call raises is caught by run_task,    *)
(* which calls it once more; what the second raises ends the thread.       *)
FailRead(w) == LET id == worker[w].id IN
  /\ Turn(w) /\ worker[w].pc = "fail"
  /\ IF Exists(id) /\ rows[id].status = "running"
     THEN Goto(w, "failing")
     ELSE IF worker[w].again THEN End(w) ELSE Fail(w, "ERROR", TRUE)
  /\ UNCHANGED <<up, rows, births, flags, ui, results, inputs, crashes>>

FailWrite(w) == LET id == worker[w].id IN
  /\ Turn(w) /\ worker[w].pc = "failing"
  /\ IF Exists(id)
     THEN /\ SetStatus(id, IF worker[w].code = "CANCELLED" THEN "cancelled" ELSE "failed")
          /\ End(w)
     ELSE /\ UNCHANGED rows
          /\ IF worker[w].again THEN End(w)
             ELSE Fail(w, "ERROR", TRUE)
  /\ UNCHANGED <<up, births, flags, ui, results, inputs, crashes>>

-----------------------------------------------------------------------------
(* TaskManager.cancel, on the thread of the user: the flag is set whatever *)
(* the status, and before it is known whether there is such a task; only a *)
(* pending one is cancelled at once.                                       *)
CancelRead(id) ==
  /\ UiTurn /\ ui = NoCall
  /\ flags' = flags \union {id}
  /\ ui' = [id |-> id, read |-> rows[id].status]
  /\ UNCHANGED <<up, rows, births, worker, results, inputs, crashes>>

CancelWrite == LET id == ui.id IN
  /\ UiTurn /\ ui # NoCall
  /\ IF ui.read = "pending" /\ Exists(id) THEN SetStatus(id, "cancelled") ELSE UNCHANGED rows
  /\ ui' = NoCall
  /\ UNCHANGED <<up, births, flags, worker, results, inputs, crashes>>

(* BackendBridge.delete_task: the rows of the task and its output          *)
(* directory, whatever its status; the flag and the thread are left alone. *)
DeleteTask(id) ==
  /\ UiTurn /\ ui = NoCall /\ Exists(id)
  /\ rows' = [rows EXCEPT ![id] = NoRow]
  /\ results' = {r \in results : r.id # id}
  /\ UNCHANGED <<up, births, flags, worker, ui, inputs, crashes>>

(* The user quits or the process dies: the threads are daemons.            *)
Crash ==
  /\ up /\ crashes < MaxCrashes
  /\ up' = FALSE
  /\ crashes' = crashes + 1
  /\ flags' = {}
  /\ worker' = [w \in Workers |-> Idle]
  /\ ui' = NoCall
  /\ UNCHANGED <<rows, births, results, inputs>>

(* BackendService.__init__: mark_interrupted_tasks before any thread.      *)
Restart ==
  /\ ~up
  /\ up' = TRUE
  /\ rows' = [id \in DOMAIN rows |->
       IF Exists(id) /\ rows[id].status = "running"
       THEN [rows[id] EXCEPT !.status = "interrupted"] ELSE rows[id]]
  /\ UNCHANGED <<births, flags, worker, ui, results, inputs, crashes>>

Work(w) ==
  \/ StartRead(w) \/ StartWrite(w) \/ Check(w)
  \/ PluginCancelled(w) \/ PluginFails(w)
  \/ CleaningReturns(w) \/ EvaluationReturns(w) \/ TrainingReturns(w)
  \/ \E n \in 0 .. Target : GenerationReturns(w, n)
  \/ StoreSuggestions(w) \/ StoreOutputs(w) \/ StoreCopies(w) \/ StoreResults(w)
  \/ StoreFails(w)
  \/ CompleteRead(w) \/ CompleteWrite(w)
  \/ FailRead(w) \/ FailWrite(w)

Next ==
  /\ UNCHANGED stale
  /\ \/ CreateCleaning \/ CreateGeneration \/ CreateEvaluation \/ CreateTraining
     \/ \E w \in Workers : Work(w) \/ \E id \in Ids : Spawn(w, id)
     \/ \E id \in Ids : CancelRead(id) \/ DeleteTask(id)
     \/ \E what \in Inputs : InputsVanish(what)
     \/ CancelWrite \/ Crash \/ Restart

(* The operating system schedules every thread, and a plugin returns.  A   *)
(* call of the user holds a thread up, but not for ever, however often he  *)
(* cancels.                                                                *)
Fairness ==
  /\ WF_vars(CancelWrite /\ UNCHANGED stale)
  /\ \A w \in Workers : SF_vars(Work(w) /\ UNCHANGED stale)

Spec == Init /\ [][Next]_vars /\ Fairness

-----------------------------------------------------------------------------
Parts == 1 .. Copies
TaskRow == [status : Statuses, kind : Kinds, birth : 1 .. MaxBirths, made : 0 .. Target,
            parts : SUBSET Parts, own : BOOLEAN]
Thread == [pc : {"idle", "spawned", "starting", "checking", "plugin", "storing",
                 "complete", "completing", "fail", "failing"},
           id : 0 .. MaxIds, kind : Kinds \union {""}, birth : 0 .. MaxBirths,
           alg : 0 .. 2, made : 0 .. Target, parts : SUBSET Parts,
           stored : SUBSET Parts, code : {"", "CANCELLED", "ERROR"}, again : BOOLEAN]
Result == [id : Ids, birth : 1 .. MaxBirths, part : Parts, by : Workers]

TypeOK ==
  /\ up \in BOOLEAN /\ inputs \subseteq Inputs /\ stale \in BOOLEAN
  /\ births \in 0 .. MaxBirths /\ crashes \in 0 .. MaxCrashes
  /\ rows \in [Ids -> {NoRow} \union TaskRow]
  /\ flags \subseteq Ids
  /\ worker \in [Workers -> Thread]
  /\ ui \in [id : 0 .. MaxIds, read : Statuses \union {"none"}]
  /\ results \subseteq Result

StoredFor(id) == {r \in results : r.id = id}
PartsFor(id, w) == {r.part : r \in {s \in StoredFor(id) : s.by = w}}

(* The result_json of a completed task tells what is stored for it: each   *)
(* part it produced, by the thread that completed it, however often it was *)
(* started, and no crash between the transactions makes it say more        *)
(* (generation_service.py:206-231, cleaning_service.py:138).               *)
Whole(id) == rows[id].status = "completed" => \E w \in Workers : PartsFor(id, w) = rows[id].parts

(* ... provided the task shares its number with nobody: SQLite may have    *)
(* given it the number of a task that was deleted under its thread.        *)
CompletedIsWhole == \A id \in Ids : Exists(id) /\ rows[id].own => Whole(id)


(* What a cancelled task produced never reaches the tables: a request that *)
(* arrives after the last poll of the plugin is no cancellation any more   *)
(* (task_manager.py:125, generation_service.py:187-212).                   *)
CancelledLeavesNothing ==
  \A id \in Ids : Exists(id) /\ rows[id].own /\ rows[id].status = "cancelled" =>
    StoredFor(id) = {}

(* One thread runs a task, however often it is started                     *)
(* (task_manager.py:71).                                                   *)
OneRunner ==
  \A v, w \in Workers :
    v # w /\ worker[v].birth # 0 => worker[v].birth # worker[w].birth

(* As long as no thread moves inside a call of another one, one thread has *)
(* run a task, and a cancelled one that shares its number with nobody has  *)
(* left nothing in the tables.                                             *)
CancelIsClean == ~stale => CancelledLeavesNothing /\ OneRunner

(* A task that got past the tests of run_task comes to an end, unless the  *)
(* process ends first or the user deletes it.                              *)
StartedFinishes ==
  \A b \in 1 .. MaxBirths :
    (\E w \in Workers : worker[w].birth = b /\ worker[w].pc = "plugin") ~>
      \/ \E id \in Ids : Exists(id) /\ rows[id].birth = b /\ rows[id].status \in Finished
      \/ ~up
      \/ \A id \in Ids : Exists(id) => rows[id].birth # b

(* What test_generation_service_fails_when_plugin_returns_too_few_outputs  *)
(* says: a generation that produced too few outputs has failed.            *)
TooFewFails ==
  \A id \in Ids :
    Exists(id) /\ rows[id].kind = "generation" /\ rows[id].status = "completed" =>
      rows[id].made = Target

-----------------------------------------------------------------------------
(* The states of each task ever created, for TaskStates.                   *)
StatusOf == [b \in 1 .. MaxBirths |->
  IF \E id \in Ids : Exists(id) /\ rows[id].birth = b
  THEN rows[CHOOSE id \in Ids : Exists(id) /\ rows[id].birth = b].status
  ELSE IF b <= births THEN "deleted" ELSE "unborn"]

States == INSTANCE TaskStates WITH Tasks <- 1 .. MaxBirths, status <- StatusOf

(* As long as no thread moves inside a call of another one, the table      *)
(* keeps the state machine of TaskStates.                                  *)
ImplementsTaskStates ==
  States!Init /\ [][~stale => [States!Next]_StatusOf]_vars
===============================================================================
