--------------------------- MODULE TaskRuntimeProofs ---------------------------
(***************************************************************************)
(* Proofs about TaskRuntime.                                               *)
(***************************************************************************)
EXTENDS TaskRuntime, WellFoundedInduction, TLAPS

(* The parts thread w has stored for task b.                               *)
PartsBy(w, b) == {r.part : r \in {s \in results : s.birth = b /\ s.by = w}}

Waiting == {"idle", "spawned", "starting"}

(* What is stored for the task of a row, whoever has its number.           *)
StoredOf(row) == {r \in results : r.birth = row.birth}

(* No two rows are of one birth, and none is newer than the last one.      *)
BirthsApart ==
  /\ \A i, j \in Ids : Exists(i) /\ Exists(j) /\ rows[i].birth = rows[j].birth => i = j
  /\ \A id \in Ids : Exists(id) => rows[id].birth <= births
  /\ \A r \in results : r.birth <= births
  /\ \A r \in results, i \in Ids : Exists(i) /\ rows[i].birth = r.birth => r.id = i

(* A thread works for a row from the start on.  The row need not be there  *)
(* any more, or another task may have its number.                          *)
HoldsRow(w) ==
  /\ worker[w].pc # "idle" => worker[w].id \in Ids
  /\ worker[w].pc \in Waiting => worker[w].birth = 0
  /\ worker[w].pc \notin Waiting => worker[w].birth \in 1 .. births
  /\ \A i \in Ids : Exists(i) /\ rows[i].birth = worker[w].birth => worker[w].id = i

(* The task a thread has started is still there.                           *)
Attached(w) ==
  /\ worker[w].birth # 0 /\ worker[w].id \in Ids
  /\ Exists(worker[w].id) /\ rows[worker[w].id].birth = worker[w].birth

(* How far a thread has come with the parts of its result.                 *)
PartsSoFar(w) ==
  /\ worker[w].pc \in Waiting \union {"checking"} =>
       worker[w].parts = {} /\ worker[w].stored = {}
  /\ worker[w].pc = "plugin" => worker[w].alg \in 1 .. 2 /\ worker[w].stored = {} /\
       (worker[w].kind = "training" => worker[w].parts = {})
  /\ worker[w].pc \in {"complete", "completing"} => worker[w].stored = worker[w].parts
  /\ worker[w].pc \notin {"fail", "failing"} => worker[w].code = ""
  /\ worker[w].code = "CANCELLED" => worker[w].stored = {}

(* What a thread has stored is in the tables, and only that, unless the    *)
(* task has been deleted.                                                  *)
StoredIsThere(w) ==
  /\ Attached(w) => PartsBy(w, worker[w].birth) = worker[w].stored
  /\ worker[w].pc = "starting" /\ Exists(worker[w].id) =>
       PartsBy(w, rows[worker[w].id].birth) = {}

ThreadOK(w) == HoldsRow(w) /\ PartsSoFar(w) /\ StoredIsThere(w)

(* A task that shares its number with nobody: whoever works or has stored  *)
(* for the number does so for it.                                          *)
OwnNumbers == \A id \in Ids : Exists(id) /\ rows[id].own =>
  /\ \A w \in Workers : worker[w].id = id => worker[w].birth \in {0, rows[id].birth}
  /\ \A r \in results : r.id = id => r.birth = rows[id].birth

(* A pending task has never been started.                                  *)
PendingIsNew == \A id \in Ids : Exists(id) /\ rows[id].status = "pending" =>
  /\ StoredOf(rows[id]) = {}
  /\ \A w \in Workers : worker[w].birth # rows[id].birth

(* The thread that completed a task has left it.                           *)
LeftBy(w, id) ==
  /\ PartsBy(w, rows[id].birth) = rows[id].parts
  /\ worker[w].birth # rows[id].birth
  /\ ~(worker[w].pc = "starting" /\ worker[w].id = id)
CompletedByOne == \A id \in Ids :
  Exists(id) /\ rows[id].own /\ rows[id].status = "completed" => \E w \in Workers : LeftBy(w, id)

(* No thread outlives the process.                                         *)
DownIsIdle == ~up => ui = NoCall /\ \A w \in Workers : worker[w].pc = "idle"

TaskInv ==
  /\ TypeOK /\ BirthsApart /\ (\A w \in Workers : ThreadOK(w)) /\ OwnNumbers
  /\ PendingIsNew /\ CompletedByOne /\ DownIsIdle

(* What holds besides when no thread moves inside a call of another one:   *)
(* the row a call has read is still as it was read, a thread that has      *)
(* started a task finds it running, and nobody else stores for it.         *)
CallsAreWhole ==
  /\ \A v, w \in MidCall : v = w
  /\ MidCall # {} => ui = NoCall
  /\ \A w \in Workers : worker[w].pc = "starting" =>
       Exists(worker[w].id) /\ rows[worker[w].id].status = "pending"
  /\ \A w \in Workers : worker[w].pc \in {"completing", "failing"} =>
       Exists(worker[w].id) /\ rows[worker[w].id].status = "running"
  /\ \A w \in Workers : Attached(w) /\ rows[worker[w].id].own =>
       rows[worker[w].id].status = "running"
  /\ ui # NoCall => ui.id \in Ids /\ rows[ui.id].status = ui.read
OwnResults == \A w \in Workers : \A r \in results :
  r.birth = worker[w].birth => r.by = w
CancelledIsEmpty == \A id \in Ids :
  Exists(id) /\ rows[id].own /\ rows[id].status = "cancelled" => StoredOf(rows[id]) = {}
CleanInv == CallsAreWhole /\ OneRunner /\ OwnResults /\ CancelledIsEmpty

-----------------------------------------------------------------------------
(* What a row and a thread are made of.                                    *)
LEMMA RowTypes == ASSUME TypeOK, NEW id \in Ids, Exists(id) PROVE rows[id] \in TaskRow
BY DEF TypeOK, Exists

LEMMA ThreadTypes == ASSUME TypeOK, NEW w \in Workers PROVE worker[w] \in Thread
BY DEF TypeOK

LEMMA IdleThread ==
  /\ Idle \in Thread
  /\ Idle.pc = "idle" /\ Idle.id = 0 /\ Idle.birth = 0 /\ Idle.code = ""
  /\ Idle.parts = {} /\ Idle.stored = {}
<1>1. 0 \in 0 .. MaxIds /\ 0 \in 0 .. MaxBirths /\ 0 \in 0 .. Target /\ 0 \in 0 .. 2
  BY TaskAssumption
<1> QED BY <1>1 DEF Idle, Thread

(* A step of one thread that changes no table, and no row becomes another  *)
(* thread's.                                                               *)
LEMMA ThreadStep ==
  ASSUME TaskInv, NEW w \in Workers, up, UNCHANGED <<up, rows, births, results>>, TypeOK',
         \A v \in Workers \ {w} : worker'[v] = worker[v],
         worker'[w].pc = "starting" =>
           /\ worker'[w].id \in Ids /\ Exists(worker'[w].id)
           /\ rows[worker'[w].id].status = "pending",
         HoldsRow(w)', PartsSoFar(w)',
         \/ worker'[w].birth = 0
         \/ /\ worker'[w].birth = worker[w].birth /\ worker'[w].id = worker[w].id
            /\ worker'[w].stored = worker[w].stored
  PROVE  TaskInv'
<1>1. BirthsApart'
  BY DEF TaskInv, BirthsApart, Exists
<1>2. \A v, b : PartsBy(v, b)' = PartsBy(v, b)
  BY DEF PartsBy
<1>3. ASSUME NEW v \in Workers PROVE ThreadOK(v)'
  <2>1. CASE v # w
    <3>1. ThreadOK(v) /\ worker'[v] = worker[v]
      BY <2>1 DEF TaskInv
    <3>2. HoldsRow(v)'
      BY <3>1 DEF ThreadOK, HoldsRow, Exists
    <3>3. PartsSoFar(v)'
      BY <3>1 DEF ThreadOK, PartsSoFar
    <3>4. StoredIsThere(v)'
      BY <3>1, <1>2 DEF ThreadOK, StoredIsThere, Attached, Exists
    <3> QED BY <3>2, <3>3, <3>4 DEF ThreadOK
  <2>2. CASE v = w
    <3>1. ASSUME Attached(w)' PROVE PartsBy(w, worker'[w].birth) = worker'[w].stored
      <4>1. Attached(w) /\ worker'[w].birth = worker[w].birth /\ worker'[w].stored = worker[w].stored
        BY <3>1 DEF Attached, Exists
      <4> QED BY <4>1, <1>2 DEF TaskInv, ThreadOK, StoredIsThere
    <3>2. ASSUME worker'[w].pc = "starting" PROVE PartsBy(w, rows[worker'[w].id].birth) = {}
      <4>1. StoredOf(rows[worker'[w].id]) = {}
        BY <3>2 DEF TaskInv, PendingIsNew
      <4> QED BY <4>1 DEF StoredOf, PartsBy
    <3> QED BY <2>2, <3>1, <3>2, <1>2 DEF ThreadOK, StoredIsThere
  <2> QED BY <2>1, <2>2
<1>4. \A v \in Workers : \/ worker'[v].birth = 0
                         \/ worker'[v].birth = worker[v].birth /\ worker'[v].id = worker[v].id
  OBVIOUS
<1>5. PendingIsNew'
  <2> SUFFICES ASSUME NEW id \in Ids, Exists(id), rows[id].status = "pending"
               PROVE  StoredOf(rows[id])' = {} /\
                      \A v \in Workers : worker'[v].birth # rows[id].birth
    BY DEF PendingIsNew, Exists
  <2>1. rows[id].birth # 0
    BY RowTypes DEF TaskInv, TaskRow
  <2> QED BY <2>1, <1>4 DEF TaskInv, PendingIsNew, StoredOf
<1>6. CompletedByOne'
  <2> SUFFICES ASSUME NEW id \in Ids, Exists(id), rows[id].own, rows[id].status = "completed"
               PROVE  \E v \in Workers :
                 /\ PartsBy(v, rows[id].birth) = rows[id].parts
                 /\ worker'[v].birth # rows[id].birth
                 /\ ~(worker'[v].pc = "starting" /\ worker'[v].id = id)
    BY <1>2 DEF CompletedByOne, LeftBy, Exists
  <2>1. PICK v \in Workers :
          /\ PartsBy(v, rows[id].birth) = rows[id].parts
          /\ worker[v].birth # rows[id].birth
          /\ ~(worker[v].pc = "starting" /\ worker[v].id = id)
    BY DEF TaskInv, CompletedByOne, LeftBy
  <2>2. rows[id].birth # 0
    BY RowTypes DEF TaskInv, TaskRow
  <2>3. worker'[v].birth # rows[id].birth
    BY <2>1, <2>2, <1>4
  <2>4. ~(worker'[v].pc = "starting" /\ worker'[v].id = id)
    BY <2>1
  <2> QED BY <2>1, <2>3, <2>4
<1>7. OwnNumbers'
  BY <1>4 DEF TaskInv, OwnNumbers, Exists
<1>8. DownIsIdle'
  BY DEF DownIsIdle
<1> QED BY <1>1, <1>3, <1>5, <1>6, <1>7, <1>8 DEF TaskInv

(* A change of the status of one row that is not a new one any more.       *)
LEMMA RowStep ==
  ASSUME TaskInv, TypeOK', up, UNCHANGED <<up, births, results>>,
         NEW id \in Ids, Exists(id), rows'[id].status # "pending",
         \A i \in Ids : Exists(i)' <=> Exists(i),
         \A i \in Ids \ {id} : rows'[i] = rows[i],
         rows'[id].birth = rows[id].birth /\ rows'[id].own = rows[id].own,
         rows[id].own /\ rows'[id].status = "completed" => \E w \in Workers : LeftBy(w, id)',
         \A w \in Workers :
           \/ worker'[w] = worker[w]
           \/ /\ HoldsRow(w)' /\ PartsSoFar(w)' /\ worker'[w].pc # "starting"
              /\ \/ worker'[w].birth = 0
                 \/ /\ worker'[w].birth = rows[id].birth /\ worker'[w].id = id
                    /\ PartsBy(w, worker'[w].birth) = worker'[w].stored
  PROVE  TaskInv'
<1>1. \A i \in Ids : rows'[i].birth = rows[i].birth /\ rows'[i].own = rows[i].own
  OBVIOUS
<1>2. \A v, b : PartsBy(v, b)' = PartsBy(v, b)
  BY DEF PartsBy
<1>3. BirthsApart'
  BY <1>1 DEF TaskInv, BirthsApart
<1>4. ASSUME NEW v \in Workers PROVE ThreadOK(v)'
  <2>1. CASE worker'[v] = worker[v]
    <3>1. ThreadOK(v)
      BY DEF TaskInv
    <3>2. HoldsRow(v)'
      BY <1>1, <2>1, <3>1 DEF ThreadOK, HoldsRow, Waiting
    <3>3. PartsSoFar(v)'
      BY <2>1, <3>1 DEF ThreadOK, PartsSoFar
    <3>4. StoredIsThere(v)'
      <4>1. worker[v].pc # "idle" => worker[v].id \in Ids
        BY <3>1 DEF ThreadOK, HoldsRow
      <4> QED BY <1>1, <1>2, <2>1, <3>1, <4>1 DEF ThreadOK, StoredIsThere, Attached
    <3> QED BY <3>2, <3>3, <3>4 DEF ThreadOK
  <2>2. CASE worker'[v] # worker[v]
    <3>1. HoldsRow(v)' /\ PartsSoFar(v)'
      BY <2>2
    <3>2. StoredIsThere(v)'
      BY <1>2, <2>2 DEF StoredIsThere, Attached
    <3> QED BY <3>1, <3>2 DEF ThreadOK
  <2> QED BY <2>1, <2>2
<1>5. \A i \in Ids \ {id} : Exists(i) => rows[i].birth # rows[id].birth /\ rows[i].birth # 0
  BY RowTypes DEF TaskInv, BirthsApart, TaskRow
<1>6. PendingIsNew'
  <2> SUFFICES ASSUME NEW i \in Ids, Exists(i)', rows'[i].status = "pending"
               PROVE  StoredOf(rows[i])' = {} /\
                      \A v \in Workers : worker'[v].birth # rows'[i].birth
    BY DEF PendingIsNew
  <2>1. i # id /\ Exists(i) /\ rows'[i] = rows[i]
    OBVIOUS
  <2> QED BY <1>5, <2>1 DEF TaskInv, PendingIsNew, StoredOf
<1>7. CompletedByOne'
  <2> SUFFICES ASSUME NEW i \in Ids \ {id}, Exists(i)', rows'[i].own, rows'[i].status = "completed"
               PROVE  \E v \in Workers : LeftBy(v, i)'
    BY DEF CompletedByOne
  <2>1. PICK v \in Workers : LeftBy(v, i)
    BY DEF TaskInv, CompletedByOne
  <2>a. rows'[i] = rows[i]
    OBVIOUS
  <2>2. PartsBy(v, rows[i].birth)' = rows'[i].parts
    BY <1>2, <2>1, <2>a DEF LeftBy
  <2>3. worker'[v].birth # rows'[i].birth
    BY <1>5, <2>1, <2>a DEF LeftBy
  <2>4. ~(worker'[v].pc = "starting" /\ worker'[v].id = i)
    BY <2>1 DEF LeftBy
  <2> QED BY <2>2, <2>3, <2>4 DEF LeftBy
<1>8. OwnNumbers'
  <2> SUFFICES ASSUME NEW i \in Ids, Exists(i), rows[i].own
               PROVE  /\ \A w \in Workers : worker'[w].id = i => worker'[w].birth \in {0, rows[i].birth}
                      /\ \A r \in results : r.id = i => r.birth = rows[i].birth
    BY <1>1 DEF OwnNumbers
  <2> QED BY DEF TaskInv, OwnNumbers
<1>9. DownIsIdle'
  BY DEF DownIsIdle
<1> QED BY <1>3, <1>4, <1>6, <1>7, <1>8, <1>9 DEF TaskInv

(* What setting a status does to the table.                                *)
LEMMA SetStatusRows ==
  ASSUME TypeOK, NEW id \in Ids, Exists(id), NEW s \in Statuses, SetStatus(id, s)
  PROVE  /\ rows' \in [Ids -> {NoRow} \union TaskRow]
         /\ \A i \in Ids \ {id} : rows'[i] = rows[i]
         /\ rows'[id].birth = rows[id].birth /\ rows'[id].own = rows[id].own
         /\ rows'[id].status = s /\ rows'[id].parts = rows[id].parts
         /\ \A i \in Ids : Exists(i)' <=> Exists(i)
<1>1. rows[id] \in TaskRow /\ rows' = [rows EXCEPT ![id] = [rows[id] EXCEPT !.status = s]]
  BY RowTypes DEF SetStatus
<1>2. rows'[id] = [rows[id] EXCEPT !.status = s]
      /\ \A i \in Ids \ {id} : rows'[i] = rows[i]
  BY <1>1 DEF TypeOK
<1>3. rows'[id] \in TaskRow
  BY <1>1, <1>2 DEF TaskRow
<1>4. /\ rows'[id].birth = rows[id].birth /\ rows'[id].own = rows[id].own
      /\ rows'[id].parts = rows[id].parts /\ rows'[id].status = s
  <2>1. rows'[id].birth = rows[id].birth /\ rows'[id].own = rows[id].own
    BY <1>1, <1>2, Zenon DEF TaskRow
  <2>2. rows'[id].parts = rows[id].parts /\ rows'[id].status = s
    BY <1>1, <1>2, SMT DEF TaskRow
  <2> QED BY <2>1, <2>2
<1>5. rows' \in [Ids -> {NoRow} \union TaskRow]
  BY <1>1, <1>2, <1>3 DEF TypeOK
<1>6. NoRow \notin TaskRow
  BY DEF NoRow, TaskRow, Statuses
<1>7. \A i \in Ids : Exists(i)' <=> Exists(i)
  BY <1>2, <1>3, <1>6 DEF Exists
<1> QED BY <1>2, <1>4, <1>5, <1>7

-----------------------------------------------------------------------------
(* The steps of one thread.                                                *)
LEMMA SpawnStep ==
  ASSUME TaskInv, NEW w \in Workers, NEW id \in Ids, Spawn(w, id), UNCHANGED stale
  PROVE  TaskInv'
<1>1. /\ up /\ UNCHANGED <<up, rows, births, ui, results>> /\ Exists(id)
      /\ \A v \in Workers \ {w} : worker'[v] = worker[v]
      /\ worker'[w] = [Idle EXCEPT !.pc = "spawned", !.id = id]
  BY DEF Spawn, TaskInv, TypeOK
<1>2. worker'[w].pc = "spawned" /\ worker'[w].id = id /\ worker'[w].birth = 0
      /\ worker'[w].parts = {} /\ worker'[w].stored = {} /\ worker'[w].code = ""
  BY <1>1 DEF Idle
<1>3. worker'[w] \in Thread
  <2>1. id \in 0 .. MaxIds
    BY TaskAssumption DEF Ids
  <2> QED BY <1>1, <2>1, IdleThread DEF Thread
<1>4. TypeOK'
  BY <1>3 DEF Spawn, TaskInv, TypeOK
<1>5. HoldsRow(w)' /\ PartsSoFar(w)'
  <2>1. \A i \in Ids : Exists(i) => rows[i].birth # 0
    BY RowTypes DEF TaskInv, TaskRow
  <2> QED BY <1>1, <1>2, <2>1 DEF HoldsRow, PartsSoFar, Waiting, Exists
<1> QED BY <1>1, <1>2, <1>4, <1>5, ThreadStep

(* Leaving a task.                                                         *)
LEMMA EndStep ==
  ASSUME TaskInv, NEW w \in Workers, End(w), up, flags' \subseteq flags,
         UNCHANGED <<up, rows, births, ui, results, inputs, crashes, stale>>
  PROVE  TaskInv'
<1>1. worker'[w] = Idle /\ \A v \in Workers \ {w} : worker'[v] = worker[v]
  BY DEF End, TaskInv, TypeOK
<1>2. worker'[w].pc = "idle" /\ worker'[w].id = 0 /\ worker'[w].birth = 0
      /\ worker'[w].parts = {} /\ worker'[w].stored = {} /\ worker'[w].code = ""
  BY <1>1, IdleThread
<1>3. worker'[w] \in Thread
  BY <1>1, IdleThread
<1>4. TypeOK'
  BY <1>3 DEF End, TaskInv, TypeOK
<1>5. HoldsRow(w)' /\ PartsSoFar(w)'
  <2>1. \A i \in Ids : Exists(i) => rows[i].birth # 0
    BY RowTypes DEF TaskInv, TaskRow
  <2> QED BY <1>1, <1>2, <2>1 DEF HoldsRow, PartsSoFar, Waiting, Exists
<1> QED BY <1>1, <1>2, <1>4, <1>5, ThreadStep

LEMMA StartReadStep ==
  ASSUME TaskInv, NEW w \in Workers, StartRead(w), UNCHANGED stale
  PROVE  TaskInv'
<1>1. CASE End(w)
  BY <1>1, EndStep DEF StartRead, Turn
<1>2. CASE ~End(w)
  <2>1. /\ up /\ UNCHANGED <<up, rows, births, ui, results>>
        /\ worker[w].pc = "spawned"
        /\ Exists(worker[w].id) /\ rows[worker[w].id].status = "pending"
        /\ \A v \in Workers \ {w} : worker'[v] = worker[v]
        /\ worker'[w] = [worker[w] EXCEPT !.pc = "starting"]
        /\ worker[w] \in Thread
    BY <1>2, ThreadTypes DEF StartRead, Turn, Goto, TaskInv, TypeOK
  <2>2. worker'[w] \in Thread /\ worker'[w].pc = "starting"
        /\ \A f \in {"id", "birth", "parts", "stored", "code"} : worker'[w][f] = worker[w][f]
    BY <2>1 DEF Thread
  <2>3. TypeOK'
    BY <1>2, <2>2 DEF StartRead, Goto, TaskInv, TypeOK
  <2>4. HoldsRow(w) /\ PartsSoFar(w)
    BY DEF TaskInv, ThreadOK
  <2>5. HoldsRow(w)' /\ PartsSoFar(w)'
    BY <2>1, <2>2, <2>4 DEF HoldsRow, PartsSoFar, Waiting, Exists
  <2>6. worker'[w].id \in Ids /\ Exists(worker'[w].id) /\ rows[worker'[w].id].status = "pending"
    BY <2>1, <2>2, <2>4 DEF HoldsRow
  <2> QED BY <2>1, <2>2, <2>3, <2>5, <2>6, ThreadStep
<1> QED BY <1>1, <1>2

LEMMA CheckStep ==
  ASSUME TaskInv, NEW w \in Workers, Check(w), UNCHANGED stale
  PROVE  TaskInv'
<1>1. CASE End(w)
  BY <1>1, EndStep DEF Check, Turn
<1>2. CASE ~End(w)
  <2>1. /\ up /\ UNCHANGED <<up, rows, births, ui, results>> /\ worker[w].pc = "checking"
        /\ \A v \in Workers \ {w} : worker'[v] = worker[v]
    BY <1>2, ThreadTypes DEF Check, Turn, TaskInv, TypeOK
  <2>d. /\ worker'[w] = [worker[w] EXCEPT !.pc = "plugin", !.alg = 1]
        /\ worker[w] \in Thread
    BY <1>2, ThreadTypes DEF Check, Turn, TaskInv, TypeOK
  <2>2. worker'[w] \in Thread
    <3>1. 1 \in 0 .. 2
      OBVIOUS
    <3> QED BY <2>d, <3>1, Zenon DEF Thread
  <2>c. worker'[w].pc = "plugin" /\ worker'[w].alg = 1
    BY <2>d DEF Thread
  <2>a. /\ worker'[w].id = worker[w].id /\ worker'[w].kind = worker[w].kind
        /\ worker'[w].birth = worker[w].birth
    BY <2>d DEF Thread
  <2>b. /\ worker'[w].parts = worker[w].parts /\ worker'[w].stored = worker[w].stored
        /\ worker'[w].code = worker[w].code
    BY <2>d DEF Thread
  <2>3. TypeOK'
    BY <1>2, <2>2 DEF Check, TaskInv, TypeOK
  <2>4. HoldsRow(w) /\ PartsSoFar(w)
    BY DEF TaskInv, ThreadOK
  <2>5. HoldsRow(w)'
    BY <2>1, <2>c, <2>a, <2>4 DEF HoldsRow, Waiting, Exists
  <2>6. PartsSoFar(w)'
    <3>1. worker[w].parts = {} /\ worker[w].stored = {} /\ worker[w].code = ""
      BY <2>1, <2>4 DEF PartsSoFar
    <3>2. 1 \in 1 .. 2
      OBVIOUS
    <3>3. worker'[w].alg \in 1 .. 2
      BY <3>2, <2>c, Zenon
    <3> QED BY <3>1, <3>3, <2>c, <2>b DEF PartsSoFar, Waiting
  <2> QED BY <2>1, <2>c, <2>a, <2>b, <2>3, <2>5, <2>6, ThreadStep
<1> QED BY <1>1, <1>2

(* The way to TaskManager.fail.                                            *)
LEMMA FailStep ==
  ASSUME TaskInv, NEW w \in Workers, NEW code \in {"CANCELLED", "ERROR"},
         NEW again \in BOOLEAN, Fail(w, code, again), up,
         worker[w].pc \notin Waiting, code = "CANCELLED" => worker[w].stored = {},
         UNCHANGED <<up, rows, births, flags, ui, results, inputs, crashes, stale>>
  PROVE  TaskInv'
<1>1. /\ \A v \in Workers \ {w} : worker'[v] = worker[v]
      /\ worker'[w] = [worker[w] EXCEPT !.pc = "fail", !.code = code, !.again = again]
      /\ worker[w] \in Thread
  BY ThreadTypes DEF Fail, TaskInv, TypeOK
<1>2. worker'[w] \in Thread /\ worker'[w].pc = "fail" /\ worker'[w].code = code
      /\ \A f \in {"id", "kind", "birth", "parts", "stored"} : worker'[w][f] = worker[w][f]
  BY <1>1 DEF Thread
<1>3. TypeOK'
  BY <1>2 DEF Fail, TaskInv, TypeOK
<1>4. HoldsRow(w) /\ PartsSoFar(w)
  BY DEF TaskInv, ThreadOK
<1>5. HoldsRow(w)' /\ PartsSoFar(w)'
  BY <1>1, <1>2, <1>4 DEF HoldsRow, PartsSoFar, Waiting, Exists
<1> QED BY <1>1, <1>2, <1>3, <1>5, ThreadStep

LEMMA StartWriteStep ==
  ASSUME TaskInv, NEW w \in Workers, StartWrite(w), UNCHANGED stale
  PROVE  TaskInv'
<1>a. PICK id : id = worker[w].id
  OBVIOUS
<1>1. /\ up /\ UNCHANGED <<up, births, flags, ui, results, inputs, crashes, stale>>
      /\ worker[w].pc = "starting" /\ ThreadOK(w) /\ TypeOK
  BY DEF StartWrite, Turn, TaskInv
<1>b. CASE ~Exists(id)
  <2>1. End(w) /\ UNCHANGED rows
    BY <1>a, <1>b DEF StartWrite
  <2> QED BY <1>1, <2>1, EndStep
<1>c. CASE Exists(id)
  <2>2. id \in Ids /\ Exists(id)
    BY <1>1, <1>a, <1>c DEF ThreadOK, HoldsRow
  <2>3. /\ SetStatus(id, "running")
        /\ worker' = [worker EXCEPT ![w].pc = "checking", ![w].birth = rows[id].birth,
                                    ![w].kind = rows[id].kind]
    BY <1>a, <2>2 DEF StartWrite
  <2>4. "running" \in Statuses /\ "running" # "pending" /\ "running" # "completed"
    BY DEF Statuses
  <2>5. /\ rows' \in [Ids -> {NoRow} \union TaskRow]
        /\ \A i \in Ids \ {id} : rows'[i] = rows[i]
        /\ rows'[id].birth = rows[id].birth /\ rows'[id].own = rows[id].own
        /\ rows'[id].status = "running"
        /\ \A i \in Ids : Exists(i)' <=> Exists(i)
    BY <1>1, <2>2, <2>3, <2>4, SetStatusRows
  <2>6. worker[w] \in Thread /\ rows[id] \in TaskRow
    BY <1>1, <2>2, ThreadTypes, RowTypes
  <2>7. worker'[w] = [worker[w] EXCEPT !.pc = "checking", !.birth = rows[id].birth,
                                       !.kind = rows[id].kind]
        /\ \A v \in Workers \ {w} : worker'[v] = worker[v]
    BY <1>1, <2>3 DEF TypeOK
  <2>8. rows[id].birth \in 0 .. MaxBirths /\ rows[id].kind \in Kinds \union {""}
    <3>1. rows[id].birth \in 1 .. MaxBirths /\ rows[id].kind \in Kinds
      BY <2>6 DEF TaskRow
    <3>2. \A n \in 1 .. MaxBirths : n \in 0 .. MaxBirths
      BY TaskAssumption
    <3> QED BY <3>1, <3>2
  <2>9. worker'[w] \in Thread
    BY <2>6, <2>7, <2>8, Zenon DEF Thread
  <2>10. /\ worker'[w].pc = "checking" /\ worker'[w].id = worker[w].id
         /\ worker'[w].birth = rows[id].birth
    BY <2>6, <2>7, Zenon DEF Thread
  <2>11. /\ worker'[w].parts = worker[w].parts /\ worker'[w].stored = worker[w].stored
         /\ worker'[w].code = worker[w].code
    BY <2>6, <2>7, Zenon DEF Thread
  <2>12. TypeOK'
    BY <1>1, <2>3, <2>5, <2>9 DEF TypeOK
  <2>13. PartsSoFar(w)'
    BY <1>1, <2>10, <2>11 DEF ThreadOK, PartsSoFar, Waiting
  <2>14. HoldsRow(w)'
    <3>1. rows[id].birth \in 1 .. births
      <4>1. rows[id].birth \in 1 .. MaxBirths /\ rows[id].birth <= births
        BY <2>2, <2>6 DEF TaskInv, BirthsApart, TaskRow
      <4>2. births \in Nat
        BY <1>1, TaskAssumption DEF TypeOK
      <4> QED BY <4>1, <4>2, TaskAssumption
    <3>2. \A i \in Ids : Exists(i)' /\ rows'[i].birth = rows[id].birth => id = i
      BY <2>2, <2>5 DEF TaskInv, BirthsApart
    <3> QED BY <1>1, <1>a, <2>2, <2>10, <3>1, <3>2 DEF HoldsRow, Waiting
  <2>15. PartsBy(w, worker'[w].birth) = worker'[w].stored
    <3>1. PartsBy(w, rows[id].birth) = {}
      BY <1>1, <1>a, <2>2 DEF ThreadOK, StoredIsThere
    <3>2. worker[w].stored = {}
      BY <1>1 DEF ThreadOK, PartsSoFar, Waiting
    <3> QED BY <3>1, <3>2, <2>10, <2>11
  <2> QED
    BY <1>1, <1>a, <2>2, <2>4, <2>5, <2>7, <2>10, <2>12, <2>13, <2>14, <2>15, RowStep
<1> QED BY <1>b, <1>c

LEMMA PluginFailSteps ==
  ASSUME TaskInv, NEW w \in Workers,
         PluginCancelled(w) \/ PluginFails(w) \/ StoreFails(w), UNCHANGED stale
  PROVE  TaskInv'
<1>1. ThreadOK(w)
  BY DEF TaskInv
<1>2. CASE PluginCancelled(w)
  <2>1. worker[w].pc = "plugin" /\ worker[w].stored = {}
    BY <1>1, <1>2 DEF PluginCancelled, InPlugin, ThreadOK, PartsSoFar
  <2> QED BY <1>2, <2>1, FailStep DEF PluginCancelled, InPlugin, Turn, Waiting
<1>3. CASE PluginFails(w)
  <2>1. PICK raised \in BOOLEAN : Fail(w, "ERROR", raised)
    BY <1>3 DEF PluginFails
  <2> QED BY <1>3, <2>1, FailStep DEF PluginFails, InPlugin, Turn, Waiting
<1>4. CASE StoreFails(w)
  BY <1>4, FailStep DEF StoreFails, Turn, Waiting
<1> QED BY <1>2, <1>3, <1>4

(* The return of a plugin: parts to store, and none of a training.         *)
LEMMA ReturnedStep ==
  ASSUME TaskInv, NEW w \in Workers, InPlugin(w), NEW made \in 0 .. Target,
         NEW parts \in SUBSET Parts, NEW last \in BOOLEAN, Returned(w, made, parts, last),
         Kind(w) = "training" => parts = {}, last \/ worker[w].alg = 1,
         UNCHANGED <<up, rows, births, flags, ui, results, inputs, crashes, stale>>
  PROVE  TaskInv'
<1> DEFINE pc == IF ~last THEN "plugin"
                 ELSE IF Kind(w) = "training" THEN "complete" ELSE "storing"
           alg == IF last THEN 0 ELSE 2
           all == worker[w].parts \union parts
<1>1. /\ up /\ worker[w].pc = "plugin" /\ ThreadOK(w) /\ TypeOK /\ worker[w] \in Thread
      /\ \A v \in Workers \ {w} : worker'[v] = worker[v]
  BY ThreadTypes DEF InPlugin, Turn, TaskInv, TypeOK, Returned
<1>2. alg \in 0 .. 2 /\ (~last => alg \in 1 .. 2)
  OBVIOUS
<1>3. all \in SUBSET Parts
  BY <1>1 DEF Thread
<1>4. pc \in {"plugin", "complete", "storing"} /\ (pc = "plugin" <=> ~last)
      /\ (pc = "complete" => Kind(w) = "training")
  OBVIOUS
<1>5. ~last => 1 + 1 = 2 /\ worker[w].alg + 1 = 2
  BY <1>1
<1>6. worker'[w] = [worker[w] EXCEPT !.made = made, !.parts = all, !.alg = alg, !.pc = pc]
  BY <1>1, <1>5 DEF Returned, TypeOK
<1> HIDE DEF pc, alg, all
<1>7. worker'[w] \in Thread
  BY <1>1, <1>2, <1>3, <1>4, <1>6, Zenon DEF Thread
<1>8. worker'[w].pc = pc /\ worker'[w].parts = all /\ worker'[w].alg = alg
  BY <1>1, <1>6, Zenon DEF Thread
<1>9. /\ worker'[w].id = worker[w].id /\ worker'[w].kind = worker[w].kind
      /\ worker'[w].birth = worker[w].birth
  BY <1>1, <1>6, Zenon DEF Thread
<1>10. worker'[w].stored = worker[w].stored /\ worker'[w].code = worker[w].code
  BY <1>1, <1>6, Zenon DEF Thread
<1>11. TypeOK'
  BY <1>1, <1>7 DEF TypeOK, Returned
<1>12. HoldsRow(w)'
  BY <1>1, <1>4, <1>8, <1>9 DEF ThreadOK, HoldsRow, Waiting, Exists
<1>13. worker[w].stored = {} /\ worker[w].code = "" /\ (Kind(w) = "training" => all = {})
  BY <1>1 DEF ThreadOK, PartsSoFar, Kind, all
<1>14. PartsSoFar(w)'
  BY <1>2, <1>4, <1>8, <1>9, <1>10, <1>13 DEF PartsSoFar, Waiting, Kind
<1> QED BY <1>1, <1>4, <1>8, <1>9, <1>10, <1>11, <1>12, <1>14, ThreadStep

(* The greatest numbers of the algorithms of a task.                       *)
LEMMA MaxAlgorithms ==
  /\ Max(1 .. 2) = 2
  /\ Max({1}) = 1
<1>1. \A x \in 1 .. 2 : (\A y \in 1 .. 2 : x >= y) <=> x = 2
  OBVIOUS
<1>2. 2 \in 1 .. 2
  OBVIOUS
<1>3. Max(1 .. 2) = 2
  BY <1>1, <1>2 DEF Max
<1>4. Max({1}) = 1
  BY DEF Max
<1> QED BY <1>3, <1>4

LEMMA ReturnSteps ==
  ASSUME TaskInv, NEW w \in Workers, UNCHANGED stale,
         \/ CleaningReturns(w) \/ EvaluationReturns(w) \/ TrainingReturns(w)
         \/ \E n \in 0 .. Target : GenerationReturns(w, n)
  PROVE  TaskInv'
<1>1. 1 \in 0 .. Target /\ 1 \in Parts /\ Copies \in Parts
  BY TaskAssumption DEF Parts, Copies
<1>2. /\ ThreadOK(w) /\ worker[w] \in Thread
      /\ InPlugin(w) => worker[w].alg \in 1 .. 2 /\ worker[w].made \in 0 .. Target
  BY ThreadTypes DEF TaskInv, ThreadOK, PartsSoFar, InPlugin, Thread
<1>3. ASSUME Kind(w) \in {"cleaning", "generation"}, InPlugin(w)
      PROVE  LastAlgorithm(w) \/ worker[w].alg = 1
  <2>1. \A n \in 1 .. 2 : n = 2 \/ n = 1
    OBVIOUS
  <2> QED BY <1>2, <1>3, <2>1, MaxAlgorithms DEF LastAlgorithm, Algorithms
<1>4. CASE CleaningReturns(w)
  <2>1. LastAlgorithm(w) \in BOOLEAN /\ {1} \in SUBSET Parts
    BY <1>1 DEF LastAlgorithm
  <2> QED BY <1>1, <1>3, <1>4, <2>1, ReturnedStep DEF CleaningReturns
<1>5. CASE EvaluationReturns(w)
  BY <1>1, <1>5, ReturnedStep DEF EvaluationReturns
<1>6. CASE TrainingReturns(w)
  BY <1>1, <1>6, ReturnedStep DEF TrainingReturns
<1>7. ASSUME NEW n \in 0 .. Target, GenerationReturns(w, n) PROVE TaskInv'
  <2> DEFINE made == worker[w].made + n
             last == LastAlgorithm(w) \/ made = Target
             parts == (IF n > 0 THEN {worker[w].alg} ELSE {}) \union
                      (IF last THEN {Copies} ELSE {})
  <2>1. /\ InPlugin(w) /\ Kind(w) = "generation" /\ made <= Target
        /\ Returned(w, made, parts, last)
        /\ UNCHANGED <<up, rows, births, flags, ui, results, inputs, crashes>>
    BY <1>7 DEF GenerationReturns
  <2>2. made \in 0 .. Target
    BY <1>2, <2>1, TaskAssumption
  <2>3. worker[w].alg \in Parts
    <3>1. \A a \in 1 .. 2 : a \in Parts
      BY DEF Parts, Copies
    <3> QED BY <1>2, <2>1, <3>1
  <2>4. parts \in SUBSET Parts /\ last \in BOOLEAN
    BY <1>1, <2>3 DEF LastAlgorithm
  <2>5. last \/ worker[w].alg = 1
    BY <1>3, <2>1
  <2> HIDE DEF made, last, parts
  <2> QED BY <2>1, <2>2, <2>4, <2>5, ReturnedStep
<1> QED BY <1>4, <1>5, <1>6, <1>7

(* A transaction that stores a part.                                       *)
LEMMA StoreStep ==
  ASSUME TaskInv, NEW w \in Workers, NEW part \in Parts, Store(w, part), UNCHANGED stale
  PROVE  TaskInv'
<1> DEFINE new == [id |-> worker[w].id, birth |-> worker[w].birth, part |-> part, by |-> w]
           stored == worker[w].stored \union {part}
           pc == IF stored = worker[w].parts THEN "complete" ELSE "storing"
<1>1. /\ up /\ worker[w].pc = "storing" /\ ThreadOK(w) /\ TypeOK /\ worker[w] \in Thread
      /\ results' = results \union {new}
      /\ \A v \in Workers \ {w} : worker'[v] = worker[v]
      /\ UNCHANGED <<up, rows, births, flags, ui, inputs, crashes, stale>>
  BY ThreadTypes DEF Store, Stored, Turn, TaskInv, TypeOK
<1>2. worker'[w] = [worker[w] EXCEPT !.stored = stored, !.pc = pc]
  BY <1>1 DEF Store, Stored, TypeOK
<1>3. stored \in SUBSET Parts /\ pc \in {"complete", "storing"}
      /\ (pc = "complete" => stored = worker[w].parts)
  BY <1>1 DEF Thread
<1>4. /\ worker[w].id \in Ids /\ worker[w].birth \in 1 .. births
      /\ \A i \in Ids : Exists(i) /\ rows[i].birth = worker[w].birth => worker[w].id = i
  BY <1>1 DEF ThreadOK, HoldsRow, Waiting
<1>5. worker[w].birth \in 1 .. MaxBirths /\ worker[w].birth <= births /\ worker[w].birth # 0
  BY <1>1, <1>4, TaskAssumption DEF TypeOK
<1>6. /\ new \in Result /\ new.birth = worker[w].birth /\ new.by = w /\ new.part = part
      /\ new.id = worker[w].id
  BY <1>4, <1>5 DEF Result
<1> HIDE DEF new, stored, pc
<1>7. worker'[w] \in Thread
  BY <1>1, <1>2, <1>3, Zenon DEF Thread
<1>8. worker'[w].pc = pc /\ worker'[w].stored = stored
  BY <1>1, <1>2, Zenon DEF Thread
<1>9. /\ worker'[w].id = worker[w].id /\ worker'[w].kind = worker[w].kind
      /\ worker'[w].birth = worker[w].birth
  BY <1>1, <1>2, Zenon DEF Thread
<1>10. worker'[w].parts = worker[w].parts /\ worker'[w].code = worker[w].code
  BY <1>1, <1>2, Zenon DEF Thread
<1>11. TypeOK'
  BY <1>1, <1>6, <1>7 DEF TypeOK, Store, Stored
<1>12. HoldsRow(w)' /\ PartsSoFar(w)'
  <2>1. worker[w].code = ""
    BY <1>1 DEF ThreadOK, PartsSoFar
  <2>2. HoldsRow(w)'
    BY <1>1, <1>3, <1>4, <1>8, <1>9 DEF ThreadOK, HoldsRow, Waiting, Exists
  <2>3. PartsSoFar(w)'
    BY <1>3, <1>8, <1>10, <2>1 DEF PartsSoFar, Waiting
  <2> QED BY <2>2, <2>3
<1>13. \A v, b :
         v # w \/ b # worker[w].birth => PartsBy(v, b)' = PartsBy(v, b)
  BY <1>1, <1>6 DEF PartsBy
<1>14. \A b : b = worker[w].birth => PartsBy(w, b)' = PartsBy(w, b) \union {part}
  <2> SUFFICES ASSUME NEW b, b = worker[w].birth
               PROVE  PartsBy(w, b)' = PartsBy(w, b) \union {part}
    OBVIOUS
  <2>1. {s \in results' : s.birth = b /\ s.by = w} =
          {s \in results : s.birth = b /\ s.by = w} \union {new}
    BY <1>1, <1>6
  <2> QED BY <1>6, <2>1 DEF PartsBy
<1>15. StoredIsThere(w)'
  <2>1. ASSUME Attached(w)' PROVE PartsBy(w, worker[w].birth)' = stored
    <3>1. Attached(w)
      BY <1>1, <1>9, <2>1 DEF Attached, Exists
    <3>2. PartsBy(w, worker[w].birth) = worker[w].stored
      BY <1>1, <3>1 DEF ThreadOK, StoredIsThere
    <3> QED BY <1>9, <1>14, <3>2 DEF stored
  <2> QED BY <1>3, <1>8, <1>9, <2>1 DEF StoredIsThere
<1>16. BirthsApart'
  <2>1. \A i \in Ids : Exists(i) /\ rows[i].birth = new.birth => new.id = i
    BY <1>4, <1>6
  <2> QED BY <1>1, <1>5, <1>6, <2>1 DEF TaskInv, BirthsApart, Exists
<1>17. ASSUME NEW v \in Workers \ {w} PROVE ThreadOK(v)'
  <2>1. ThreadOK(v) /\ worker'[v] = worker[v]
    BY <1>1 DEF TaskInv
  <2>2. HoldsRow(v)' /\ PartsSoFar(v)'
    BY <1>1, <2>1 DEF ThreadOK, HoldsRow, PartsSoFar, Exists
  <2>3. StoredIsThere(v)'
    BY <1>1, <1>13, <2>1 DEF ThreadOK, StoredIsThere, Attached, Exists
  <2> QED BY <2>2, <2>3 DEF ThreadOK
<1>18. ASSUME NEW i \in Ids, Exists(i), rows[i].status = "pending"
       PROVE  /\ StoredOf(rows[i])' = {}
              /\ \A v \in Workers : worker'[v].birth # rows[i].birth
  <2>1. StoredOf(rows[i]) = {} /\ \A v \in Workers : worker[v].birth # rows[i].birth
    BY <1>18 DEF TaskInv, PendingIsNew
  <2>2. \A v \in Workers : worker'[v].birth # rows[i].birth
    BY <1>1, <1>9, <2>1
  <2> QED BY <1>1, <1>6, <2>1, <2>2 DEF StoredOf
<1>19. PendingIsNew'
  BY <1>1, <1>18 DEF PendingIsNew, Exists, StoredOf
<1>20. ASSUME NEW i \in Ids, Exists(i), rows[i].own, rows[i].status = "completed"
       PROVE  \E v \in Workers : LeftBy(v, i)'
  <2>1. PICK v \in Workers : LeftBy(v, i)
    BY <1>20 DEF TaskInv, CompletedByOne
  <2>2. PartsBy(v, rows[i].birth)' = PartsBy(v, rows[i].birth)
    BY <1>1, <1>13, <2>1 DEF LeftBy
  <2>3. worker'[v].birth # rows[i].birth
    BY <1>1, <1>9, <2>1 DEF LeftBy
  <2>4. ~(worker'[v].pc = "starting" /\ worker'[v].id = i)
    BY <1>1, <1>3, <1>8, <2>1 DEF LeftBy
  <2>5. rows' = rows
    BY <1>1
  <2> QED BY <2>1, <2>2, <2>3, <2>4, <2>5 DEF LeftBy
<1>21. CompletedByOne'
  BY <1>1, <1>20 DEF CompletedByOne, Exists
<1>22. OwnNumbers'
  <2> SUFFICES ASSUME NEW i \in Ids, Exists(i), rows[i].own
               PROVE  /\ \A v \in Workers : worker'[v].id = i => worker'[v].birth \in {0, rows[i].birth}
                      /\ \A r \in results' : r.id = i => r.birth = rows[i].birth
    BY <1>1 DEF OwnNumbers, Exists
  <2>1. /\ \A v \in Workers : worker[v].id = i => worker[v].birth \in {0, rows[i].birth}
        /\ \A r \in results : r.id = i => r.birth = rows[i].birth
    BY DEF TaskInv, OwnNumbers
  <2>2. \A v \in Workers : worker'[v].id = worker[v].id /\ worker'[v].birth = worker[v].birth
    BY <1>1, <1>9
  <2>3. new.id = i => new.birth = rows[i].birth
    BY <1>5, <1>6, <2>1
  <2> QED BY <1>1, <2>1, <2>2, <2>3
<1>23. DownIsIdle'
  BY <1>1 DEF DownIsIdle
<1> QED BY <1>11, <1>12, <1>15, <1>16, <1>17, <1>19, <1>21, <1>22, <1>23 DEF TaskInv, ThreadOK

LEMMA StoreSteps ==
  ASSUME TaskInv, NEW w \in Workers, UNCHANGED stale,
         StoreSuggestions(w) \/ StoreOutputs(w) \/ StoreCopies(w) \/ StoreResults(w)
  PROVE  TaskInv'
<1>1. 1 \in Parts /\ Copies \in Parts
  BY DEF Parts, Copies
<1>2. worker[w].parts \subseteq Parts
  BY ThreadTypes DEF TaskInv, Thread
<1>3. PICK part \in Parts : Store(w, part)
  BY <1>1, <1>2 DEF StoreSuggestions, StoreOutputs, StoreCopies, StoreResults
<1> QED BY <1>3, StoreStep

(* The test of complete and of fail before their write.                    *)
LEMMA GotoStep ==
  ASSUME TaskInv, NEW w \in Workers, up, UNCHANGED stale,
         \/ worker[w].pc = "complete" /\ Goto(w, "completing")
         \/ worker[w].pc = "fail" /\ Goto(w, "failing"),
         UNCHANGED <<up, rows, births, flags, ui, results, inputs, crashes, stale>>
  PROVE  TaskInv'
<1>1. /\ worker[w].pc \in {"complete", "fail"} /\ ThreadOK(w) /\ TypeOK /\ worker[w] \in Thread
      /\ \A v \in Workers \ {w} : worker'[v] = worker[v]
  BY ThreadTypes DEF TaskInv, TypeOK, Goto
<1>2. PICK pc \in {"completing", "failing"} :
        /\ pc = "completing" <=> worker[w].pc = "complete"
        /\ worker'[w] = [worker[w] EXCEPT !.pc = pc]
  BY <1>1 DEF Goto, TypeOK
<1>3. worker'[w] \in Thread
  BY <1>1, <1>2, Zenon DEF Thread
<1>4. /\ worker'[w].pc = pc
      /\ worker'[w].id = worker[w].id /\ worker'[w].kind = worker[w].kind
      /\ worker'[w].birth = worker[w].birth
  BY <1>1, <1>2, Zenon DEF Thread
<1>5. /\ worker'[w].parts = worker[w].parts /\ worker'[w].stored = worker[w].stored
      /\ worker'[w].code = worker[w].code
  BY <1>1, <1>2, Zenon DEF Thread
<1>6. TypeOK'
  BY <1>1, <1>3 DEF TypeOK, Goto
<1>7. HoldsRow(w)'
  BY <1>1, <1>4 DEF ThreadOK, HoldsRow, Waiting, Exists
<1>8. PartsSoFar(w)'
  BY <1>1, <1>2, <1>4, <1>5 DEF ThreadOK, PartsSoFar, Waiting
<1> QED BY <1>1, <1>2, <1>4, <1>5, <1>6, <1>7, <1>8, ThreadStep

LEMMA ReadSteps ==
  ASSUME TaskInv, NEW w \in Workers, CompleteRead(w) \/ FailRead(w), UNCHANGED stale
  PROVE  TaskInv'
<1>1. CASE CompleteRead(w)
  <2>1. /\ up /\ worker[w].pc = "complete"
        /\ UNCHANGED <<up, rows, births, flags, ui, results, inputs, crashes, stale>>
        /\ Goto(w, "completing") \/ Fail(w, "ERROR", TRUE)
    BY <1>1 DEF CompleteRead, Turn
  <2> QED BY <2>1, GotoStep, FailStep DEF Waiting
<1>2. CASE FailRead(w)
  <2>1. /\ up /\ worker[w].pc = "fail"
        /\ UNCHANGED <<up, rows, births, flags, ui, results, inputs, crashes, stale>>
        /\ Goto(w, "failing") \/ End(w) \/ Fail(w, "ERROR", TRUE)
    BY <1>2 DEF FailRead, Turn
  <2> QED BY <2>1, GotoStep, EndStep, FailStep DEF Waiting
<1> QED BY <1>1, <1>2

LEMMA CompleteWriteStep ==
  ASSUME TaskInv, NEW w \in Workers, CompleteWrite(w), UNCHANGED stale
  PROVE  TaskInv'
<1>a. PICK id : id = worker[w].id
  OBVIOUS
<1>1. /\ up /\ UNCHANGED <<up, births, flags, ui, results, inputs, crashes, stale>>
      /\ worker[w].pc = "completing" /\ ThreadOK(w) /\ TypeOK /\ worker[w] \in Thread
  BY ThreadTypes DEF CompleteWrite, Turn, TaskInv
<1>b. CASE ~Exists(id)
  <2>1. Fail(w, "ERROR", TRUE) /\ UNCHANGED rows
    BY <1>a, <1>b DEF CompleteWrite
  <2> QED BY <1>1, <2>1, FailStep DEF Waiting
<1>c. CASE Exists(id)
  <2> DEFINE row == [rows[id] EXCEPT !.status = "completed", !.made = worker[w].made,
                                     !.parts = worker[w].parts]
  <2>2. id \in Ids /\ Exists(id) /\ worker[w].birth \in 1 .. births
    BY <1>1, <1>a, <1>c DEF ThreadOK, HoldsRow, Waiting
  <2>3. rows' = [rows EXCEPT ![id] = row] /\ End(w)
    BY <1>a, <2>2 DEF CompleteWrite
  <2>4. rows[id] \in TaskRow /\ worker[w].made \in 0 .. Target /\ worker[w].parts \in SUBSET Parts
        /\ "completed" \in Statuses
    BY <1>1, <2>2, RowTypes DEF Thread, Statuses
  <2>5. row \in TaskRow /\ row.birth = rows[id].birth /\ row.own = rows[id].own
    BY <2>4, Zenon DEF TaskRow
  <2>6. row.status = "completed" /\ row.parts = worker[w].parts
    BY <2>4, Zenon DEF TaskRow
  <2> HIDE DEF row
  <2>7. rows'[id] = row /\ \A i \in Ids \ {id} : rows'[i] = rows[i]
    BY <1>1, <2>2, <2>3 DEF TypeOK
  <2>8. NoRow \notin TaskRow
    BY DEF NoRow, TaskRow, Statuses
  <2>9. \A i \in Ids : Exists(i)' <=> Exists(i)
    BY <2>2, <2>5, <2>7, <2>8 DEF Exists
  <2>10. worker'[w] = Idle /\ \A v \in Workers \ {w} : worker'[v] = worker[v]
    BY <1>1, <2>3 DEF End, TypeOK
  <2>11. TypeOK'
    BY <1>1, <2>2, <2>3, <2>5, IdleThread DEF TypeOK, End
  <2>12. HoldsRow(w)' /\ PartsSoFar(w)'
    <3>1. \A i \in Ids : Exists(i)' => rows'[i].birth # 0
      BY <2>11 DEF TypeOK, Exists, TaskRow
    <3> QED BY <2>10, <3>1, IdleThread DEF HoldsRow, PartsSoFar, Waiting
  <2>13. ASSUME rows[id].own PROVE LeftBy(w, id)'
    <3>1. rows[id].birth # 0
      BY <2>4 DEF TaskRow
    <3>2. worker[w].birth = rows[id].birth
      BY <1>a, <2>2, <2>13 DEF TaskInv, OwnNumbers
    <3>3. PartsBy(w, rows[id].birth) = worker[w].parts
      BY <1>1, <1>a, <2>2, <3>1, <3>2 DEF ThreadOK, StoredIsThere, PartsSoFar, Attached
    <3>4. rows'[id].birth = rows[id].birth /\ rows'[id].parts = worker[w].parts
      BY <2>5, <2>6, <2>7
    <3>5. \A b : PartsBy(w, b)' = PartsBy(w, b)
      BY <1>1 DEF PartsBy
    <3>6. worker'[w].birth = 0 /\ worker'[w].pc = "idle"
      BY <2>10, IdleThread
    <3> QED BY <3>1, <3>3, <3>4, <3>5, <3>6 DEF LeftBy
  <2> QED
    BY <1>1, <2>2, <2>5, <2>6, <2>7, <2>9, <2>10, <2>11, <2>12, <2>13, IdleThread, RowStep
<1> QED BY <1>b, <1>c

LEMMA FailWriteStep ==
  ASSUME TaskInv, NEW w \in Workers, FailWrite(w), UNCHANGED stale
  PROVE  TaskInv'
<1>a. PICK id : id = worker[w].id
  OBVIOUS
<1>b. PICK s \in {"cancelled", "failed"} :
        s = IF worker[w].code = "CANCELLED" THEN "cancelled" ELSE "failed"
  OBVIOUS
<1>1. /\ up /\ UNCHANGED <<up, births, flags, ui, results, inputs, crashes, stale>>
      /\ worker[w].pc = "failing" /\ ThreadOK(w) /\ TypeOK
  BY DEF FailWrite, Turn, TaskInv
<1>c. CASE ~Exists(id)
  <2>1. (End(w) \/ Fail(w, "ERROR", TRUE)) /\ UNCHANGED rows
    BY <1>a, <1>c DEF FailWrite
  <2> QED BY <1>1, <2>1, EndStep, FailStep DEF Waiting
<1>d. CASE Exists(id)
  <2>2. id \in Ids /\ Exists(id)
    BY <1>1, <1>a, <1>d DEF ThreadOK, HoldsRow
  <2>3. SetStatus(id, s) /\ End(w)
    BY <1>a, <1>b, <2>2 DEF FailWrite
  <2>4. s \in Statuses /\ s # "pending" /\ s # "completed"
    BY DEF Statuses
  <2>5. /\ rows' \in [Ids -> {NoRow} \union TaskRow]
        /\ \A i \in Ids \ {id} : rows'[i] = rows[i]
        /\ rows'[id].birth = rows[id].birth /\ rows'[id].own = rows[id].own
        /\ rows'[id].status = s
        /\ \A i \in Ids : Exists(i)' <=> Exists(i)
    BY <1>1, <2>2, <2>3, <2>4, SetStatusRows
  <2>6. worker'[w] = Idle /\ \A v \in Workers \ {w} : worker'[v] = worker[v]
    BY <1>1, <2>3 DEF End, TypeOK
  <2>7. TypeOK'
    BY <1>1, <2>3, <2>5, IdleThread DEF TypeOK, End
  <2>8. HoldsRow(w)' /\ PartsSoFar(w)'
    <3>1. \A i \in Ids : Exists(i)' => rows'[i].birth # 0
      BY <2>7 DEF TypeOK, Exists, TaskRow
    <3> QED BY <2>6, <3>1, IdleThread DEF HoldsRow, PartsSoFar, Waiting
  <2> QED BY <1>1, <2>2, <2>4, <2>5, <2>6, <2>7, <2>8, IdleThread, RowStep
<1> QED BY <1>c, <1>d

(* The steps of one thread.                                                *)
LEMMA WorkStep ==
  ASSUME TaskInv, NEW w \in Workers, Work(w), UNCHANGED stale
  PROVE  TaskInv'
BY StartReadStep, StartWriteStep, CheckStep, PluginFailSteps, ReturnSteps, StoreSteps,
   ReadSteps, CompleteWriteStep, FailWriteStep DEF Work

-----------------------------------------------------------------------------
(* Nothing is said of the other variables than their types.                *)
LEMMA SameTables ==
  ASSUME TaskInv, TypeOK', up \/ ui' = ui, UNCHANGED <<up, rows, births, worker, results>>
  PROVE  TaskInv'
<1>1. BirthsApart'
  BY DEF TaskInv, BirthsApart, Exists
<1>2. \A v, b : PartsBy(v, b)' = PartsBy(v, b)
  BY DEF PartsBy
<1>3. ASSUME NEW v \in Workers PROVE ThreadOK(v)'
  <2>1. ThreadOK(v)
    BY DEF TaskInv
  <2> QED BY <1>2, <2>1 DEF ThreadOK, HoldsRow, PartsSoFar, StoredIsThere, Attached, Exists
<1>4. PendingIsNew' /\ OwnNumbers'
  BY DEF TaskInv, PendingIsNew, OwnNumbers, Exists, StoredOf
<1>5. CompletedByOne'
  BY <1>2 DEF TaskInv, CompletedByOne, LeftBy, Exists
<1>6. DownIsIdle'
  BY DEF TaskInv, DownIsIdle
<1> QED BY <1>1, <1>3, <1>4, <1>5, <1>6 DEF TaskInv

(* The steps of the user, and of the process.                              *)
LEMMA CancelReadStep ==
  ASSUME TaskInv, NEW id \in Ids, CancelRead(id), UNCHANGED stale
  PROVE  TaskInv'
<1>1. /\ up /\ UNCHANGED <<up, rows, births, worker, results, inputs, crashes, stale>>
      /\ flags' = flags \union {id}
      /\ ui' = [id |-> id, read |-> rows[id].status]
  BY DEF CancelRead, UiTurn
<1>2. rows[id].status \in Statuses \union {"none"} /\ id \in 0 .. MaxIds
  <2>1. CASE Exists(id)
    BY <2>1, RowTypes, TaskAssumption DEF TaskInv, TaskRow, Ids
  <2>2. CASE ~Exists(id)
    BY <2>2, TaskAssumption DEF Exists, NoRow, Ids
  <2> QED BY <2>1, <2>2
<1>3. TypeOK'
  BY <1>1, <1>2 DEF TaskInv, TypeOK
<1> QED BY <1>1, <1>3, SameTables

LEMMA CancelWriteStep ==
  ASSUME TaskInv, CancelWrite, UNCHANGED stale
  PROVE  TaskInv'
<1>a. PICK id : id = ui.id
  OBVIOUS
<1>1. /\ up /\ UNCHANGED <<up, births, flags, worker, results, inputs, crashes, stale>>
      /\ ui' = NoCall /\ ui # NoCall /\ TypeOK
  BY DEF CancelWrite, UiTurn, TaskInv
<1>2. NoCall \in [id : 0 .. MaxIds, read : Statuses \union {"none"}]
  BY TaskAssumption DEF NoCall
<1>3. CASE rows' = rows
  <2>1. TypeOK'
    BY <1>1, <1>2, <1>3 DEF TypeOK
  <2> QED BY <1>1, <1>3, <2>1, SameTables
<1>4. CASE rows' # rows
  <2>1. Exists(id) /\ SetStatus(id, "cancelled")
    BY <1>a, <1>4 DEF CancelWrite
  <2>2. id \in Ids
    BY <1>1, <1>4, <2>1 DEF SetStatus, TypeOK
  <2>3. "cancelled" \in Statuses /\ "cancelled" # "pending" /\ "cancelled" # "completed"
    BY DEF Statuses
  <2>4. /\ rows' \in [Ids -> {NoRow} \union TaskRow]
        /\ \A i \in Ids \ {id} : rows'[i] = rows[i]
        /\ rows'[id].birth = rows[id].birth /\ rows'[id].own = rows[id].own
        /\ rows'[id].status = "cancelled"
        /\ \A i \in Ids : Exists(i)' <=> Exists(i)
    BY <1>1, <2>1, <2>2, <2>3, SetStatusRows
  <2>5. TypeOK'
    BY <1>1, <1>2, <2>4 DEF TypeOK
  <2> QED BY <1>1, <2>1, <2>2, <2>3, <2>4, <2>5, RowStep
<1> QED BY <1>3, <1>4

LEMMA DeleteTaskStep ==
  ASSUME TaskInv, NEW id \in Ids, DeleteTask(id), UNCHANGED stale
  PROVE  TaskInv'
<1>1. /\ up /\ UNCHANGED <<up, births, flags, worker, ui, inputs, crashes, stale>>
      /\ Exists(id) /\ TypeOK
      /\ rows' = [rows EXCEPT ![id] = NoRow] /\ results' = {r \in results : r.id # id}
  BY DEF DeleteTask, UiTurn, TaskInv
<1>2. rows'[id] = NoRow /\ \A i \in Ids \ {id} : rows'[i] = rows[i]
  BY <1>1 DEF TypeOK
<1>3. \A i \in Ids : Exists(i)' <=> i # id /\ Exists(i)
  BY <1>2 DEF Exists
<1>4. TypeOK'
  BY <1>1 DEF TypeOK
<1>5. BirthsApart'
  BY <1>1, <1>2, <1>3 DEF TaskInv, BirthsApart
<1>6. ASSUME NEW v \in Workers, NEW i \in Ids \ {id}, Exists(i), NEW b, b = rows[i].birth
      PROVE  PartsBy(v, b)' = PartsBy(v, b)
  <2>1. \A r \in results : r.birth = b => r \in results'
    BY <1>1, <1>6 DEF TaskInv, BirthsApart
  <2> QED BY <1>1, <2>1 DEF PartsBy
<1>7. ASSUME NEW v \in Workers PROVE ThreadOK(v)'
  <2>1. ThreadOK(v) /\ worker'[v] = worker[v]
    BY <1>1 DEF TaskInv
  <2>2. HoldsRow(v)' /\ PartsSoFar(v)'
    BY <1>1, <1>2, <1>3, <2>1 DEF ThreadOK, HoldsRow, PartsSoFar, Waiting
  <2>3. ASSUME Attached(v)' PROVE PartsBy(v, worker[v].birth)' = worker[v].stored
    <3>1. Attached(v) /\ worker[v].id \in Ids \ {id} /\ Exists(worker[v].id)
          /\ worker[v].birth = rows[worker[v].id].birth
      BY <1>2, <1>3, <2>1, <2>3 DEF Attached
    <3>2. PICK b : b = worker[v].birth
      OBVIOUS
    <3>3. PartsBy(v, b)' = PartsBy(v, b)
      BY <1>6, <3>1, <3>2
    <3>4. PartsBy(v, b) = worker[v].stored
      BY <2>1, <3>1, <3>2 DEF ThreadOK, StoredIsThere
    <3> QED BY <2>1, <3>2, <3>3, <3>4
  <2>4. ASSUME worker[v].pc = "starting", Exists(worker[v].id)'
        PROVE  PartsBy(v, rows[worker[v].id].birth)' = {}
    <3>1. worker[v].id \in Ids
      BY <2>1, <2>4 DEF ThreadOK, HoldsRow
    <3>2. worker[v].id \in Ids \ {id} /\ Exists(worker[v].id)
          /\ rows'[worker[v].id] = rows[worker[v].id]
      BY <1>2, <1>3, <2>1, <2>4, <3>1
    <3>3. PICK b : b = rows[worker[v].id].birth
      OBVIOUS
    <3>4. PartsBy(v, b)' = PartsBy(v, b)
      BY <1>6, <3>2, <3>3
    <3>5. PartsBy(v, b) = {}
      BY <2>1, <2>4, <3>2, <3>3 DEF ThreadOK, StoredIsThere
    <3> QED BY <2>1, <3>2, <3>3, <3>4, <3>5
  <2>5. StoredIsThere(v)'
    BY <2>1, <2>3, <2>4 DEF StoredIsThere
  <2> QED BY <2>2, <2>5 DEF ThreadOK
<1>8. PendingIsNew'
  BY <1>1, <1>2, <1>3 DEF TaskInv, PendingIsNew, StoredOf
<1>9. ASSUME NEW i \in Ids, Exists(i)', rows'[i].own, rows'[i].status = "completed"
      PROVE  \E v \in Workers : LeftBy(v, i)'
  <2>1. i # id /\ Exists(i) /\ rows'[i] = rows[i] /\ worker' = worker
    BY <1>1, <1>2, <1>3, <1>9
  <2>2. PICK v \in Workers : LeftBy(v, i)
    BY <1>9, <2>1 DEF TaskInv, CompletedByOne
  <2>3. PICK b : b = rows[i].birth
    OBVIOUS
  <2>4. PartsBy(v, b)' = PartsBy(v, b)
    BY <1>6, <2>1, <2>3
  <2> QED BY <2>1, <2>2, <2>3, <2>4 DEF LeftBy
<1>10. CompletedByOne'
  BY <1>9 DEF CompletedByOne
<1>11. OwnNumbers'
  BY <1>1, <1>2, <1>3 DEF TaskInv, OwnNumbers
<1>12. DownIsIdle'
  BY <1>1 DEF TaskInv, DownIsIdle
<1> QED BY <1>4, <1>5, <1>7, <1>8, <1>10, <1>11, <1>12 DEF TaskInv

-----------------------------------------------------------------------------
(* The highest of the numbers in use.                                      *)
LEMMA LeastNat == ASSUME NEW T \in SUBSET Nat, T # {} PROVE \E x \in T : \A y \in T : x <= y
<1> DEFINE R == {ss \in Nat \X Nat : ss[1] < ss[2]}
<1>1. IsWellFoundedOn(R, Nat)
  BY NatLessThanWellFounded DEF OpToRel
<1>2. PICK x \in T : \A y \in T : ~ (<<y, x>> \in R)
  <2> HIDE DEF R
  <2> QED BY <1>1, WFMin, T \subseteq Nat
<1>3. x \in Nat /\ \A y \in T : y \in Nat
  OBVIOUS
<1>4. \A y \in T : ~(y < x)
  BY <1>2, <1>3
<1> QED BY <1>3, <1>4

LEMMA MaxOfBounded ==
  ASSUME NEW n \in Nat, NEW S \in SUBSET (0 .. n), S # {}
  PROVE  Max(S) \in S /\ \A y \in S : Max(S) >= y
<1> DEFINE T == {n - x : x \in S}
<1>0. \A x \in S : x \in 0 .. n /\ n - x \in Nat
  <2>1. \A x \in 0 .. n : n - x \in Nat
    OBVIOUS
  <2> QED BY <2>1
<1>1. T \in SUBSET Nat /\ T # {}
  BY <1>0
<1>2. PICK t \in T : \A u \in T : t <= u
  <2> HIDE DEF T
  <2> QED BY <1>1, LeastNat
<1>3. PICK m \in S : t = n - m
  OBVIOUS
<1>4. \A y \in S : m >= y
  BY <1>0, <1>2, <1>3
<1> QED BY <1>4 DEF Max

(* NextId is not in use.                                                   *)
LEMMA NextIdIsFree == ASSUME NextId \in Ids PROVE ~Exists(NextId)
<1> DEFINE S == {0} \union {id \in Ids : Exists(id)}
<1>1. S \in SUBSET (0 .. MaxIds) /\ S # {}
  <2>1. \A i \in Ids : i \in 0 .. MaxIds
    BY TaskAssumption DEF Ids
  <2>2. 0 \in 0 .. MaxIds
    BY TaskAssumption
  <2> QED BY <2>1, <2>2
<1>2. Max(S) \in 0 .. MaxIds /\ \A y \in S : Max(S) >= y
  <2> HIDE DEF S
  <2> QED BY <1>1, MaxOfBounded, TaskAssumption
<1>3. NextId = Max(S) + 1
  BY DEF NextId
<1> HIDE DEF S
<1>4. NextId \notin S
  BY <1>2, <1>3
<1> QED BY <1>4 DEF S

LEMMA CreateStep ==
  ASSUME TaskInv, NEW kind \in Kinds, NEW needs, Create(kind, needs), UNCHANGED stale
  PROVE  TaskInv'
<1>a. PICK id : id = NextId
  OBVIOUS
<1> DEFINE row == [status |-> "pending", kind |-> kind, birth |-> births + 1, made |-> 0,
                   parts |-> {}, own |-> NumberIsFree(id)]
<1>1. /\ up /\ UNCHANGED <<up, flags, worker, ui, results, inputs, crashes, stale>>
      /\ id \in Ids /\ ~Exists(id) /\ births < MaxBirths /\ births' = births + 1
      /\ rows' = [rows EXCEPT ![id] = row] /\ TypeOK
  BY <1>a, NextIdIsFree DEF Create, TaskInv
<1>2. births + 1 \in 1 .. MaxBirths /\ births \in Nat
  BY <1>1, TaskAssumption DEF TypeOK
<1>3. 0 \in 0 .. Target /\ "pending" \in Statuses /\ NumberIsFree(id) \in BOOLEAN
  BY TaskAssumption DEF Statuses, NumberIsFree
<1>4. row \in TaskRow
  BY <1>2, <1>3, Zenon DEF TaskRow
<1>5. row.status = "pending" /\ row.birth = births + 1 /\ row.own = NumberIsFree(id)
  OBVIOUS
<1> HIDE DEF row
<1>6. rows'[id] = row /\ \A i \in Ids \ {id} : rows'[i] = rows[i]
  BY <1>1 DEF TypeOK
<1>7. NoRow \notin TaskRow
  BY DEF NoRow, TaskRow, Statuses
<1>8. \A i \in Ids : Exists(i)' <=> i = id \/ Exists(i)
  BY <1>4, <1>6, <1>7 DEF Exists
<1>9. TypeOK'
  <2>1. rows' \in [Ids -> {NoRow} \union TaskRow]
    BY <1>1, <1>4 DEF TypeOK
  <2>2. births' \in 0 .. MaxBirths
    BY <1>1, <1>2
  <2> QED BY <1>1, <2>1, <2>2 DEF TypeOK
<1>10. /\ \A i \in Ids \ {id} : Exists(i) => rows[i].birth \in 1 .. births
       /\ \A r \in results : r.birth \in 1 .. births
  <2>1. \A i \in Ids : Exists(i) => rows[i].birth \in 1 .. MaxBirths /\ rows[i].birth <= births
    BY RowTypes DEF TaskInv, BirthsApart, TaskRow
  <2>2. \A r \in results : r.birth \in 1 .. MaxBirths /\ r.birth <= births
    BY DEF TaskInv, TypeOK, Result, BirthsApart
  <2>3. \A b \in 1 .. MaxBirths : b <= births => b \in 1 .. births
    BY <1>2, TaskAssumption
  <2> QED BY <2>1, <2>2, <2>3
<1>11. /\ births + 1 \notin 1 .. births /\ 0 # births + 1
       /\ \A b \in 1 .. births : b \in 1 .. (births + 1)
  BY <1>2
<1>12. BirthsApart'
  <2>1. \A b \in 1 .. births : b <= births + 1
    BY <1>2
  <2>2. births + 1 <= births + 1
    BY <1>2
  <2>3. ASSUME NEW i \in Ids, NEW j \in Ids, Exists(i)', Exists(j)', rows'[i].birth = rows'[j].birth
        PROVE  i = j
    <3>1. CASE i = id \/ j = id
      BY <1>5, <1>6, <1>8, <1>10, <1>11, <2>3, <3>1
    <3>2. CASE i # id /\ j # id
      BY <1>6, <1>8, <2>3, <3>2 DEF TaskInv, BirthsApart
    <3> QED BY <3>1, <3>2
  <2>4. ASSUME NEW i \in Ids, Exists(i)' PROVE rows'[i].birth <= births'
    BY <1>1, <1>5, <1>6, <1>8, <1>10, <2>1, <2>2, <2>4
  <2>5. ASSUME NEW r \in results PROVE r.birth <= births'
    BY <1>1, <1>10, <2>1
  <2>6. ASSUME NEW r \in results, NEW i \in Ids, Exists(i)', rows'[i].birth = r.birth
        PROVE  r.id = i
    <3>1. i # id
      BY <1>5, <1>6, <1>10, <1>11, <2>6
    <3> QED BY <1>6, <1>8, <2>6, <3>1 DEF TaskInv, BirthsApart
  <2> QED BY <1>1, <2>3, <2>4, <2>5, <2>6 DEF BirthsApart
<1>13. ASSUME NEW v \in Workers
       PROVE  worker[v].birth # births + 1 /\ (worker[v].pc # "idle" => worker[v].id \in Ids)
  BY <1>11 DEF TaskInv, ThreadOK, HoldsRow
<1>14. \A v, b : PartsBy(v, b)' = PartsBy(v, b)
  BY <1>1 DEF PartsBy
<1>b. \A v : PartsBy(v, births + 1) = {}
  BY <1>10, <1>11 DEF PartsBy
<1>15. ASSUME NEW v \in Workers PROVE ThreadOK(v)'
  <2>1. ThreadOK(v) /\ worker'[v] = worker[v]
    BY <1>1 DEF TaskInv
  <2>2. HoldsRow(v)'
    BY <1>1, <1>5, <1>6, <1>8, <1>11, <1>13, <2>1 DEF ThreadOK, HoldsRow, Waiting
  <2>3. PartsSoFar(v)'
    BY <2>1 DEF ThreadOK, PartsSoFar
  <2>4. ASSUME Attached(v)' PROVE PartsBy(v, worker[v].birth) = worker[v].stored
    <3>1. Attached(v)
      BY <1>5, <1>6, <1>8, <1>13, <2>1, <2>4 DEF Attached
    <3> QED BY <2>1, <3>1 DEF ThreadOK, StoredIsThere
  <2>5. ASSUME worker[v].pc = "starting", Exists(worker[v].id)'
        PROVE  PartsBy(v, rows'[worker[v].id].birth) = {}
    <3>1. CASE worker[v].id = id
      BY <1>b, <1>5, <1>6, <3>1
    <3>2. CASE worker[v].id # id
      BY <1>6, <1>8, <1>13, <2>1, <2>5, <3>2 DEF ThreadOK, StoredIsThere
    <3> QED BY <3>1, <3>2
  <2>6. StoredIsThere(v)'
    BY <1>14, <2>1, <2>4, <2>5 DEF StoredIsThere
  <2> QED BY <2>2, <2>3, <2>6 DEF ThreadOK
<1>16. ASSUME NEW i \in Ids, Exists(i)', rows'[i].status = "pending"
       PROVE  StoredOf(rows[i])' = {} /\ \A w \in Workers : worker'[w].birth # rows'[i].birth
  <2>1. CASE i = id
    BY <1>1, <1>5, <1>6, <1>10, <1>11, <1>13, <2>1 DEF StoredOf
  <2>2. CASE i # id
    BY <1>1, <1>6, <1>8, <1>16, <2>2 DEF TaskInv, PendingIsNew, StoredOf
  <2> QED BY <2>1, <2>2
<1>17. PendingIsNew'
  BY <1>16 DEF PendingIsNew
<1>18. ASSUME NEW i \in Ids, Exists(i)', rows'[i].own, rows'[i].status = "completed"
       PROVE  \E v \in Workers : LeftBy(v, i)'
  <2>1. i # id /\ Exists(i) /\ rows'[i] = rows[i] /\ worker' = worker
    BY <1>1, <1>5, <1>6, <1>8, <1>18
  <2>2. PICK v \in Workers : LeftBy(v, i)
    BY <1>18, <2>1 DEF TaskInv, CompletedByOne
  <2> QED BY <1>14, <2>1, <2>2 DEF LeftBy
<1>19. CompletedByOne'
  BY <1>18 DEF CompletedByOne
<1>20. ASSUME NEW i \in Ids, Exists(i)', rows'[i].own
       PROVE  /\ \A w \in Workers : worker'[w].id = i => worker'[w].birth \in {0, rows'[i].birth}
              /\ \A r \in results' : r.id = i => r.birth = rows'[i].birth
  <2>1. CASE i = id
    BY <1>1, <1>5, <1>6, <1>20, <2>1 DEF NumberIsFree, Busy
  <2>2. CASE i # id
    BY <1>1, <1>6, <1>8, <1>20, <2>2 DEF TaskInv, OwnNumbers
  <2> QED BY <2>1, <2>2
<1>21. OwnNumbers'
  BY <1>20 DEF OwnNumbers
<1>22. DownIsIdle'
  BY <1>1 DEF DownIsIdle
<1> QED BY <1>9, <1>12, <1>15, <1>17, <1>19, <1>21, <1>22 DEF TaskInv

LEMMA InputsVanishStep ==
  ASSUME TaskInv, NEW what \in Inputs, InputsVanish(what), UNCHANGED stale
  PROVE  TaskInv'
<1>1. TypeOK'
  BY DEF InputsVanish, TaskInv, TypeOK
<1> QED BY <1>1, SameTables DEF InputsVanish

(* All threads are gone at once.                                           *)
LEMMA CrashStep ==
  ASSUME TaskInv, Crash, UNCHANGED stale
  PROVE  TaskInv'
<1>1. /\ UNCHANGED <<rows, births, results, inputs, stale>> /\ flags' = {}
      /\ ui' = NoCall /\ worker' = [w \in Workers |-> Idle] /\ up' = FALSE
      /\ crashes < MaxCrashes /\ crashes' = crashes + 1 /\ TypeOK
  BY DEF Crash, TaskInv
<1>2. NoCall \in [id : 0 .. MaxIds, read : Statuses \union {"none"}]
  BY TaskAssumption DEF NoCall
<1>3. crashes' \in 0 .. MaxCrashes
  BY <1>1, TaskAssumption DEF TypeOK
<1>4. TypeOK'
  BY <1>1, <1>2, <1>3, IdleThread DEF TypeOK
<1>5. \A v \in Workers : worker'[v] = Idle
  BY <1>1
<1>6. BirthsApart'
  BY <1>1 DEF TaskInv, BirthsApart, Exists
<1>8. ASSUME NEW i \in Ids, Exists(i) PROVE rows[i].birth # 0
  BY <1>1, <1>8, RowTypes DEF TaskRow
<1>7. ASSUME NEW v \in Workers PROVE ThreadOK(v)'
  BY <1>1, <1>5, <1>8, IdleThread DEF ThreadOK, HoldsRow, PartsSoFar, StoredIsThere, Attached,
    Waiting, Exists
<1>9. PendingIsNew'
  BY <1>1, <1>5, <1>8, IdleThread DEF TaskInv, PendingIsNew, Exists, StoredOf
<1>10. ASSUME NEW i \in Ids, Exists(i), rows[i].own, rows[i].status = "completed"
       PROVE  \E v \in Workers : LeftBy(v, i)'
  <2>1. PICK v \in Workers : LeftBy(v, i)
    BY <1>10 DEF TaskInv, CompletedByOne
  <2>2. \A b : PartsBy(v, b)' = PartsBy(v, b)
    BY <1>1 DEF PartsBy
  <2>3. rows'[i] = rows[i] /\ rows[i].birth # 0
    BY <1>1, <1>8, <1>10
  <2>4. worker'[v].birth = 0 /\ worker'[v].pc = "idle"
    BY <1>5, IdleThread
  <2>5. PartsBy(v, rows[i].birth) = rows[i].parts
    BY <2>1 DEF LeftBy
  <2>6. LeftBy(v, i)'
    BY <2>2, <2>3, <2>4, <2>5 DEF LeftBy
  <2> QED BY <2>6
<1>11. CompletedByOne'
  BY <1>1, <1>10 DEF CompletedByOne, Exists
<1>12. OwnNumbers'
  BY <1>1, <1>5, IdleThread DEF TaskInv, OwnNumbers, Exists
<1>13. DownIsIdle'
  BY <1>1, <1>5, IdleThread DEF DownIsIdle
<1> QED BY <1>4, <1>6, <1>7, <1>9, <1>11, <1>12, <1>13 DEF TaskInv

(* The sweep of a start meets no thread.                                   *)
LEMMA RestartStep ==
  ASSUME TaskInv, Restart, UNCHANGED stale
  PROVE  TaskInv'
<1>1. /\ UNCHANGED <<births, flags, worker, ui, results, inputs, crashes, stale>>
      /\ up' = TRUE /\ TypeOK /\ ui = NoCall /\ \A v \in Workers : worker[v].pc = "idle"
  BY DEF Restart, TaskInv, DownIsIdle
<1>2. ASSUME NEW i \in Ids
      PROVE  rows'[i] = IF Exists(i) /\ rows[i].status = "running"
                        THEN [rows[i] EXCEPT !.status = "interrupted"] ELSE rows[i]
  BY <1>1 DEF Restart, TypeOK
<1>3. ASSUME NEW i \in Ids, Exists(i)
      PROVE  /\ rows'[i] \in TaskRow /\ rows'[i].birth = rows[i].birth
             /\ rows'[i].own = rows[i].own /\ rows'[i].parts = rows[i].parts
             /\ rows'[i].status =
                  IF rows[i].status = "running" THEN "interrupted" ELSE rows[i].status
  <2>1. rows[i] \in TaskRow
    BY <1>1, <1>3, RowTypes
  <2>2. CASE rows[i].status = "running"
    <3>1. rows'[i] = [rows[i] EXCEPT !.status = "interrupted"]
      BY <1>2, <1>3, <2>2
    <3>2. rows'[i] \in TaskRow
      BY <2>1, <3>1 DEF TaskRow, Statuses
    <3>3. rows'[i].birth = rows[i].birth /\ rows'[i].own = rows[i].own
      BY <2>1, <3>1, Zenon DEF TaskRow
    <3>4. rows'[i].parts = rows[i].parts /\ rows'[i].status = "interrupted"
      BY <2>1, <3>1, SMT DEF TaskRow
    <3> QED BY <2>2, <3>2, <3>3, <3>4
  <2>3. CASE rows[i].status # "running"
    BY <1>2, <2>1, <2>3
  <2> QED BY <2>2, <2>3
<1>4. NoRow \notin TaskRow
  BY DEF NoRow, TaskRow, Statuses
<1>5. \A i \in Ids : Exists(i)' <=> Exists(i)
  BY <1>2, <1>3, <1>4 DEF Exists
<1>6. TypeOK'
  <2>1. DOMAIN rows = Ids
    BY <1>1 DEF TypeOK
  <2>2. \A i \in Ids : rows'[i] \in {NoRow} \union TaskRow
    BY <1>2, <1>3 DEF Exists
  <2>3. rows' \in [Ids -> {NoRow} \union TaskRow]
    BY <2>1, <2>2 DEF Restart
  <2> QED BY <1>1, <2>3 DEF TypeOK
<1>7. BirthsApart'
  BY <1>1, <1>3, <1>5 DEF TaskInv, BirthsApart
<1>8. \A v, b : PartsBy(v, b)' = PartsBy(v, b)
  BY <1>1 DEF PartsBy
<1>9. ASSUME NEW v \in Workers PROVE ThreadOK(v)'
  <2>1. ThreadOK(v) /\ worker'[v] = worker[v] /\ worker[v].pc = "idle" /\ worker[v].birth = 0
    BY <1>1 DEF TaskInv, ThreadOK, HoldsRow, Waiting
  <2>2. HoldsRow(v)'
    BY <1>3, <1>5, <2>1 DEF ThreadOK, HoldsRow, Waiting
  <2> QED BY <2>1, <2>2 DEF ThreadOK, PartsSoFar, StoredIsThere, Attached, Waiting
<1>10. PendingIsNew'
  BY <1>1, <1>3, <1>5 DEF TaskInv, PendingIsNew, StoredOf
<1>11. ASSUME NEW i \in Ids, Exists(i)', rows'[i].own, rows'[i].status = "completed"
       PROVE  \E v \in Workers : LeftBy(v, i)'
  <2>1. Exists(i) /\ rows[i].own /\ rows[i].status = "completed"
    BY <1>3, <1>5, <1>11
  <2>2. PICK v \in Workers : LeftBy(v, i)
    BY <2>1 DEF TaskInv, CompletedByOne
  <2> QED BY <1>1, <1>3, <1>8, <2>1, <2>2 DEF LeftBy
<1>12. CompletedByOne'
  BY <1>11 DEF CompletedByOne
<1>13. OwnNumbers'
  BY <1>1, <1>3, <1>5 DEF TaskInv, OwnNumbers
<1>14. DownIsIdle'
  BY <1>1 DEF DownIsIdle
<1> QED BY <1>6, <1>7, <1>9, <1>10, <1>12, <1>13, <1>14 DEF TaskInv

-----------------------------------------------------------------------------
LEMMA TaskInit == Init => TaskInv
<1> SUFFICES ASSUME Init PROVE TaskInv
  OBVIOUS
<1>1. \A i \in Ids : ~Exists(i)
  BY DEF Init, Exists
<1>2. \A w \in Workers : worker[w] = Idle
  BY DEF Init
<1>3. TypeOK
  <2>1. births \in 0 .. MaxBirths /\ crashes \in 0 .. MaxCrashes
    BY TaskAssumption DEF Init
  <2>2. NoCall \in [id : 0 .. MaxIds, read : Statuses \union {"none"}]
    BY TaskAssumption DEF NoCall
  <2> QED BY <2>1, <2>2, IdleThread, TaskAssumption DEF Init, TypeOK
<1>4. BirthsApart /\ OwnNumbers /\ PendingIsNew /\ CompletedByOne /\ DownIsIdle
  BY <1>1 DEF Init, BirthsApart, OwnNumbers, PendingIsNew, CompletedByOne, DownIsIdle
<1>5. \A w \in Workers : ThreadOK(w)
  BY <1>1, <1>2, IdleThread DEF ThreadOK, HoldsRow, PartsSoFar, StoredIsThere, Attached, Waiting
<1> QED BY <1>3, <1>4, <1>5 DEF TaskInv

LEMMA TaskStep ==
  ASSUME TaskInv, [Next]_vars
  PROVE  TaskInv'
<1>1. CASE UNCHANGED vars
  <2>1. TypeOK'
    BY <1>1 DEF vars, TaskInv, TypeOK
  <2> QED BY <1>1, <2>1, SameTables DEF vars
<1>2. CASE Next
  <2> USE <1>2
  <2>1. CASE CreateCleaning \/ CreateGeneration \/ CreateEvaluation \/ CreateTraining
    <3>1. PICK kind, needs : Create(kind, needs)
      BY <2>1 DEF CreateCleaning, CreateGeneration, CreateEvaluation, CreateTraining
    <3>2. kind \in Kinds
      BY <3>1 DEF Create
    <3> QED BY <3>1, <3>2, CreateStep DEF Next
  <2>2. CASE \E w \in Workers : Work(w) \/ \E id \in Ids : Spawn(w, id)
    BY <2>2, WorkStep, SpawnStep DEF Next
  <2>3. CASE \E id \in Ids : CancelRead(id) \/ DeleteTask(id)
    BY <2>3, CancelReadStep, DeleteTaskStep DEF Next
  <2>4. CASE \E what \in Inputs : InputsVanish(what)
    BY <2>4, InputsVanishStep DEF Next
  <2>5. CASE CancelWrite \/ Crash \/ Restart
    BY <2>5, CancelWriteStep, CrashStep, RestartStep DEF Next
  <2> QED BY <2>1, <2>2, <2>3, <2>4, <2>5 DEF Next
<1> QED BY <1>1, <1>2

LEMMA TaskAlways == Spec => []TaskInv
<1>1. Init => TaskInv
  BY TaskInit
<1>2. TaskInv /\ [Next]_vars => TaskInv'
  BY TaskStep
<1> QED BY <1>1, <1>2, PTL DEF Spec

(* What is stored for the number of a task that shares it with nobody is   *)
(* stored for the task.                                                    *)
LEMMA OwnStored ==
  ASSUME TaskInv, NEW id \in Ids, Exists(id), rows[id].own
  PROVE  StoredFor(id) = StoredOf(rows[id])
<1>1. \A r \in results : r.id = id => r.birth = rows[id].birth
  BY DEF TaskInv, OwnNumbers
<1>2. \A r \in results : r.birth = rows[id].birth => r.id = id
  BY DEF TaskInv, BirthsApart
<1> QED BY <1>1, <1>2 DEF StoredFor, StoredOf

(* Whatever threads interleave, fail, are started twice, lose their task   *)
(* under them or die with the process: the result of a completed task is   *)
(* exactly what is stored for it (generation_service.py:206-231), unless   *)
(* its number was still in use for another one when it was created.        *)
THEOREM CompletedAlwaysWhole == Spec => []CompletedIsWhole
<1>1. TaskInv => CompletedIsWhole
  <2> SUFFICES ASSUME TaskInv, NEW id \in Ids, Exists(id), rows[id].own,
                      rows[id].status = "completed"
               PROVE  \E w \in Workers : PartsFor(id, w) = rows[id].parts
    BY DEF CompletedIsWhole, Whole
  <2>1. PICK w \in Workers : LeftBy(w, id)
    BY DEF TaskInv, CompletedByOne
  <2>2. StoredFor(id) = StoredOf(rows[id])
    BY OwnStored
  <2>3. {s \in StoredFor(id) : s.by = w} =
          {s \in results : s.birth = rows[id].birth /\ s.by = w}
    BY <2>2 DEF StoredOf
  <2> QED BY <2>1, <2>3 DEF PartsFor, LeftBy, PartsBy
<1> QED BY <1>1, TaskAlways, PTL

-----------------------------------------------------------------------------
(* Calls that are not interrupted.                                         *)
Calling == {"starting", "completing", "failing"}

LEMMA CleanThread ==
  ASSUME TaskInv, CleanInv, NEW w \in Workers, UNCHANGED <<rows, ui, results>>, ui = NoCall,
         \A v \in Workers \ {w} : worker'[v] = worker[v],
         \/ worker'[w].birth = 0
         \/ worker'[w].birth = worker[w].birth /\ worker'[w].id = worker[w].id,
         worker'[w].pc \in Calling =>
           /\ Exists(worker'[w].id)
           /\ rows[worker'[w].id].status =
                IF worker'[w].pc = "starting" THEN "pending" ELSE "running",
         MidCall \subseteq {w} \/ worker'[w].pc \notin Calling
  PROVE  CleanInv'
<1>1. \A v \in Workers \ {w} : v \in MidCall' <=> v \in MidCall
  BY DEF MidCall
<1>2. w \in MidCall' <=> worker'[w].pc \in Calling
  BY DEF MidCall, Calling
<1>3. MidCall \subseteq Workers /\ MidCall' \subseteq Workers
  BY DEF MidCall
<1>4. \A u, v \in MidCall' : u = v
  BY <1>1, <1>2, <1>3 DEF CleanInv, CallsAreWhole
<1>5. \A v \in Workers : worker'[v].birth # 0 =>
        worker'[v].birth = worker[v].birth /\ worker'[v].id = worker[v].id
  OBVIOUS
<1>6. CallsAreWhole'
  <2>1. \A v \in Workers : worker'[v].pc = "starting" =>
          Exists(worker'[v].id) /\ rows[worker'[v].id].status = "pending"
    BY DEF CleanInv, CallsAreWhole, Calling
  <2>2. \A v \in Workers : worker'[v].pc \in {"completing", "failing"} =>
          Exists(worker'[v].id) /\ rows[worker'[v].id].status = "running"
    BY DEF CleanInv, CallsAreWhole, Calling
  <2>3. \A v \in Workers : Attached(v)' =>
          Attached(v) /\ rows'[worker'[v].id] = rows[worker[v].id]
    BY <1>5 DEF Attached, Exists
  <2> QED BY <1>4, <2>1, <2>2, <2>3 DEF CleanInv, CallsAreWhole, Exists
<1>7. OneRunner'
  BY <1>5 DEF CleanInv, OneRunner
<1>8. OwnResults'
  <2>1. \A r \in results : r.birth # 0
    BY DEF TaskInv, TypeOK, Result
  <2> QED BY <1>5, <2>1 DEF CleanInv, OwnResults
<1>9. CancelledIsEmpty'
  BY DEF CleanInv, CancelledIsEmpty, Exists, StoredOf
<1> QED BY <1>6, <1>7, <1>8, <1>9 DEF CleanInv

(* A write of a thread to the row of its task.                             *)
LEMMA CleanWrite ==
  ASSUME TaskInv, CleanInv, NEW w \in Workers, UNCHANGED <<ui, results>>, ui = NoCall,
         MidCall \subseteq {w}, worker'[w].pc \notin Calling, NEW id \in Ids, Exists(id),
         \A v \in Workers \ {w} : worker'[v] = worker[v],
         rows[id].own => \A v \in Workers \ {w} : worker[v].birth # rows[id].birth,
         \A i \in Ids \ {id} : rows'[i] = rows[i],
         rows'[id].birth = rows[id].birth, rows'[id].own = rows[id].own,
         \A i \in Ids : Exists(i)' <=> Exists(i),
         rows[id].own /\ rows'[id].status = "cancelled" => StoredOf(rows[id]) = {},
         \/ worker'[w].birth = 0
         \/ /\ worker'[w].birth = rows[id].birth /\ worker'[w].id = id
            /\ \A v \in Workers : worker[v].birth # rows[id].birth
            /\ StoredOf(rows[id]) = {} /\ rows'[id].status = "running"
  PROVE  CleanInv'
<1>1. MidCall' = {}
  BY DEF MidCall, Calling
<1>3. CallsAreWhole'
  <2>1. \A v \in Workers : worker'[v].pc \notin Calling
    BY <1>1 DEF MidCall, Calling
  <2>2. ASSUME NEW v \in Workers, Attached(v)', rows'[worker'[v].id].own
        PROVE  rows'[worker'[v].id].status = "running"
    <3>1. CASE v = w
      BY <2>2, <3>1 DEF Attached
    <3>2. CASE v # w
      <4>1. Attached(v) /\ worker'[v] = worker[v] /\ worker[v].id # id
        BY <2>2, <3>2 DEF Attached
      <4> QED BY <2>2, <4>1 DEF CleanInv, CallsAreWhole, Attached
    <3> QED BY <3>1, <3>2
  <2> QED BY <1>1, <2>1, <2>2 DEF CallsAreWhole, Calling
<1>4. OneRunner'
  <2> SUFFICES ASSUME NEW u \in Workers, NEW v \in Workers, u # v, worker'[u].birth # 0
               PROVE  worker'[u].birth # worker'[v].birth
    BY DEF OneRunner
  <2>1. CASE u = w
    BY <2>1
  <2>2. CASE v = w
    BY <2>2
  <2>3. CASE u # w /\ v # w
    BY <2>3 DEF CleanInv, OneRunner
  <2> QED BY <2>1, <2>2, <2>3
<1>5. OwnResults'
  <2>1. \A r \in results : r.birth # 0
    BY DEF TaskInv, TypeOK, Result
  <2>2. \A r \in results : r.birth = worker'[w].birth => r.by = w
    BY <2>1 DEF StoredOf
  <2>3. \A v \in Workers \ {w}, r \in results : r.birth = worker'[v].birth => r.by = v
    BY DEF CleanInv, OwnResults
  <2> QED BY <2>2, <2>3 DEF OwnResults
<1>6. CancelledIsEmpty'
  <2> SUFFICES ASSUME NEW i \in Ids, Exists(i)', rows'[i].own, rows'[i].status = "cancelled"
               PROVE  StoredOf(rows[i])' = {}
    BY DEF CancelledIsEmpty
  <2>1. StoredOf(rows[i])' = StoredOf(rows[i])
    BY DEF StoredOf
  <2> QED BY <2>1 DEF CleanInv, CancelledIsEmpty
<1> QED BY <1>3, <1>4, <1>5, <1>6 DEF CleanInv

(* What a thread whose turn it is knows.                                   *)
LEMMA TurnAlone == ASSUME NEW w \in Workers, Turn(w), ~stale
                   PROVE  up /\ ui = NoCall /\ MidCall \subseteq {w}
BY DEF Turn

LEMMA ChangedThread ==
  ASSUME TypeOK, NEW w \in Workers, NEW t, worker' = [worker EXCEPT ![w] = t]
  PROVE  worker'[w] = t /\ \A v \in Workers \ {w} : worker'[v] = worker[v]
BY DEF TypeOK

LEMMA CleanEnd ==
  ASSUME TaskInv, CleanInv, NEW w \in Workers, End(w), UNCHANGED <<rows, ui, results>>, ui = NoCall
  PROVE  CleanInv'
<1>1. worker'[w] = Idle /\ \A v \in Workers \ {w} : worker'[v] = worker[v]
  BY ChangedThread DEF End, TaskInv
<1> QED BY <1>1, IdleThread, CleanThread DEF Calling

LEMMA CleanFail ==
  ASSUME TaskInv, CleanInv, NEW w \in Workers, NEW code, NEW again, Fail(w, code, again),
         UNCHANGED <<rows, ui, results>>, ui = NoCall
  PROVE  CleanInv'
<1>1. worker[w] \in Thread
  BY ThreadTypes DEF TaskInv
<1>2. worker'[w] = [worker[w] EXCEPT !.pc = "fail", !.code = code, !.again = again]
      /\ \A v \in Workers \ {w} : worker'[v] = worker[v]
  BY DEF Fail, TaskInv, TypeOK
<1>3. worker'[w].pc = "fail" /\ worker'[w].birth = worker[w].birth /\ worker'[w].id = worker[w].id
  BY <1>1, <1>2, Zenon DEF Thread
<1> QED BY <1>2, <1>3, CleanThread DEF Calling

LEMMA CleanGoto ==
  ASSUME TaskInv, CleanInv, NEW w \in Workers, NEW pc \in Calling, Goto(w, pc),
         Exists(worker[w].id),
         rows[worker[w].id].status = IF pc = "starting" THEN "pending" ELSE "running",
         UNCHANGED <<rows, ui, results>>, ui = NoCall, MidCall \subseteq {w}
  PROVE  CleanInv'
<1>1. worker[w] \in Thread
  BY ThreadTypes DEF TaskInv
<1>2. worker'[w] = [worker[w] EXCEPT !.pc = pc]
      /\ \A v \in Workers \ {w} : worker'[v] = worker[v]
  BY DEF Goto, TaskInv, TypeOK
<1>3. worker'[w].pc = pc /\ worker'[w].birth = worker[w].birth /\ worker'[w].id = worker[w].id
  BY <1>1, <1>2, Zenon DEF Thread
<1> QED BY <1>2, <1>3, CleanThread

(* The steps that change no table.                                         *)
LEMMA CleanReads ==
  ASSUME TaskInv, CleanInv, ~stale, NEW w \in Workers,
         StartRead(w) \/ Check(w) \/ CompleteRead(w) \/ FailRead(w)
         \/ PluginCancelled(w) \/ PluginFails(w) \/ StoreFails(w)
  PROVE  CleanInv'
<1>1. /\ ui = NoCall /\ MidCall \subseteq {w} /\ UNCHANGED <<rows, ui, results>>
  BY TurnAlone DEF StartRead, Check, CompleteRead, FailRead, PluginCancelled, PluginFails,
    StoreFails, InPlugin
<1>2. CASE StartRead(w)
  BY <1>1, <1>2, CleanGoto, CleanEnd DEF StartRead, Calling
<1>3. CASE Check(w)
  <2>1. CASE End(w)
    BY <1>1, <2>1, CleanEnd
  <2>2. CASE ~End(w)
    <3>1. worker[w] \in Thread
      BY ThreadTypes DEF TaskInv
    <3>2. worker'[w] = [worker[w] EXCEPT !.pc = "plugin", !.alg = 1]
          /\ \A v \in Workers \ {w} : worker'[v] = worker[v]
      BY <1>3, <2>2 DEF Check, TaskInv, TypeOK
    <3>3. worker'[w].pc = "plugin" /\ worker'[w].birth = worker[w].birth
          /\ worker'[w].id = worker[w].id
      BY <3>1, <3>2, Zenon DEF Thread
    <3> QED BY <1>1, <3>2, <3>3, CleanThread DEF Calling
  <2> QED BY <2>1, <2>2
<1>4. CASE CompleteRead(w)
  BY <1>1, <1>4, CleanGoto, CleanFail DEF CompleteRead, Calling
<1>5. CASE FailRead(w)
  BY <1>1, <1>5, CleanGoto, CleanEnd, CleanFail DEF FailRead, Calling
<1>6. CASE PluginCancelled(w) \/ StoreFails(w)
  BY <1>1, <1>6, CleanFail DEF PluginCancelled, StoreFails
<1>7. CASE PluginFails(w)
  BY <1>1, <1>7, CleanFail DEF PluginFails
<1> QED BY <1>2, <1>3, <1>4, <1>5, <1>6, <1>7

LEMMA CleanReturned ==
  ASSUME TaskInv, CleanInv, ~stale, NEW w \in Workers, InPlugin(w),
         NEW made, NEW parts, NEW last, Returned(w, made, parts, last),
         UNCHANGED <<rows, ui, results>>
  PROVE  CleanInv'
<1>1. worker[w] \in Thread /\ ui = NoCall
  BY ThreadTypes, TurnAlone DEF TaskInv, InPlugin
<1> DEFINE pc == IF ~last THEN "plugin"
                 ELSE IF Kind(w) = "training" THEN "complete" ELSE "storing"
           alg == IF last THEN 0 ELSE worker[w].alg + 1
           all == worker[w].parts \union parts
<1>2. worker'[w] = [worker[w] EXCEPT !.made = made, !.parts = all, !.alg = alg, !.pc = pc]
      /\ \A v \in Workers \ {w} : worker'[v] = worker[v]
  BY DEF Returned, TaskInv, TypeOK
<1>3. pc \notin Calling /\ pc # "starting"
  BY DEF Calling
<1> HIDE DEF pc, alg, all
<1>4. worker'[w].pc = pc /\ worker'[w].birth = worker[w].birth /\ worker'[w].id = worker[w].id
  BY <1>1, <1>2, Zenon DEF Thread
<1> QED BY <1>1, <1>2, <1>3, <1>4, CleanThread

LEMMA CleanReturns ==
  ASSUME TaskInv, CleanInv, ~stale, NEW w \in Workers,
         \/ CleaningReturns(w) \/ EvaluationReturns(w) \/ TrainingReturns(w)
         \/ \E n \in 0 .. Target : GenerationReturns(w, n)
  PROVE  CleanInv'
BY CleanReturned DEF CleaningReturns, EvaluationReturns, TrainingReturns, GenerationReturns

(* The only thread of a task stores for it.                                *)
LEMMA CleanStore ==
  ASSUME TaskInv, CleanInv, ~stale, NEW w \in Workers, NEW part, Store(w, part)
  PROVE  CleanInv'
<1> DEFINE new == [id |-> worker[w].id, birth |-> worker[w].birth, part |-> part, by |-> w]
           stored == worker[w].stored \union {part}
           pc == IF stored = worker[w].parts THEN "complete" ELSE "storing"
<1>1. /\ ui = NoCall /\ worker[w].pc = "storing" /\ worker[w] \in Thread
      /\ MidCall \subseteq {w} /\ UNCHANGED <<rows, ui>> /\ results' = results \union {new}
  BY ThreadTypes, TurnAlone DEF Store, TaskInv
<1>2. worker'[w] = [worker[w] EXCEPT !.stored = stored, !.pc = pc]
      /\ \A v \in Workers \ {w} : worker'[v] = worker[v]
  BY DEF Store, Stored, TaskInv, TypeOK
<1>3. pc \notin Calling /\ pc # "starting" /\ new.birth = worker[w].birth /\ new.by = w
  BY DEF Calling
<1> HIDE DEF new, stored, pc
<1>4. worker'[w].pc = pc /\ worker'[w].birth = worker[w].birth /\ worker'[w].id = worker[w].id
  BY <1>1, <1>2, Zenon DEF Thread
<1>5. /\ worker[w].id \in Ids /\ worker[w].birth \in 1 .. births /\ worker[w].birth # 0
      /\ \A i \in Ids : Exists(i) /\ rows[i].birth = worker[w].birth => worker[w].id = i
  BY <1>1 DEF TaskInv, ThreadOK, HoldsRow, Waiting
<1>6. MidCall' = {}
  BY <1>1, <1>2, <1>3, <1>4 DEF MidCall, Calling
<1>7. \A v \in Workers : worker'[v].birth = worker[v].birth /\ worker'[v].id = worker[v].id
                         /\ worker'[v].pc \notin Calling
  BY <1>2, <1>4, <1>6 DEF MidCall, Calling
<1>8. CallsAreWhole'
  <2>1. \A v \in Workers : Attached(v)' <=> Attached(v)
    BY <1>1, <1>7 DEF Attached, Exists
  <2> QED BY <1>1, <1>6, <1>7, <2>1 DEF CleanInv, CallsAreWhole, Calling
<1>9. OneRunner'
  BY <1>7 DEF CleanInv, OneRunner
<1>10. OwnResults'
  <2>1. \A v \in Workers : worker[v].birth = worker[w].birth => v = w
    BY <1>5 DEF CleanInv, OneRunner
  <2> QED BY <1>1, <1>3, <1>7, <2>1 DEF CleanInv, OwnResults
<1>11. CancelledIsEmpty'
  <2> SUFFICES ASSUME NEW i \in Ids, Exists(i), rows[i].own, rows[i].status = "cancelled"
               PROVE  StoredOf(rows[i])' = {}
    BY <1>1 DEF CancelledIsEmpty, Exists
  <2>1. rows[i].birth # worker[w].birth
    BY <1>5 DEF CleanInv, CallsAreWhole, Attached
  <2> QED BY <1>1, <1>3, <2>1 DEF CleanInv, CancelledIsEmpty, StoredOf
<1> QED BY <1>8, <1>9, <1>10, <1>11 DEF CleanInv

(* The writes: the row is as it was read, and the thread is alone on it.   *)
LEMMA CleanStartWrite ==
  ASSUME TaskInv, CleanInv, ~stale, NEW w \in Workers, StartWrite(w)
  PROVE  CleanInv'
<1>a. PICK id : id = worker[w].id
  OBVIOUS
<1>1. /\ ui = NoCall /\ MidCall \subseteq {w} /\ worker[w].pc = "starting" /\ UNCHANGED <<ui, results>>
      /\ ThreadOK(w) /\ TypeOK /\ worker[w] \in Thread
  BY ThreadTypes, TurnAlone DEF StartWrite, TaskInv
<1>2. id \in Ids /\ Exists(id) /\ rows[id].status = "pending"
  BY <1>1, <1>a DEF ThreadOK, HoldsRow, CleanInv, CallsAreWhole
<1>3. /\ SetStatus(id, "running") /\ "running" \in Statuses
      /\ worker' = [worker EXCEPT ![w].pc = "checking", ![w].birth = rows[id].birth,
                                  ![w].kind = rows[id].kind]
  BY <1>2, <1>a DEF StartWrite, Statuses
<1>4. /\ \A i \in Ids \ {id} : rows'[i] = rows[i]
      /\ rows'[id].birth = rows[id].birth /\ rows'[id].own = rows[id].own
      /\ rows'[id].status = "running"
      /\ \A i \in Ids : Exists(i)' <=> Exists(i)
  BY <1>1, <1>2, <1>3, SetStatusRows
<1>5. worker'[w] = [worker[w] EXCEPT !.pc = "checking", !.birth = rows[id].birth,
                                     !.kind = rows[id].kind]
      /\ \A v \in Workers \ {w} : worker'[v] = worker[v]
  BY <1>1, <1>3 DEF TypeOK
<1>6. worker'[w].pc = "checking" /\ worker'[w].birth = rows[id].birth /\ worker'[w].id = id
  BY <1>1, <1>5, <1>a, Zenon DEF Thread
<1>7. StoredOf(rows[id]) = {} /\ \A v \in Workers : worker[v].birth # rows[id].birth
  BY <1>2 DEF TaskInv, PendingIsNew
<1> QED BY <1>1, <1>2, <1>4, <1>5, <1>6, <1>7, CleanWrite DEF Calling

(* A thread about to write the end of its task finds the row as it read it, *)
(* and nobody else works for a task that shares its number with nobody.    *)
LEMMA AloneOnRow ==
  ASSUME TaskInv, CleanInv, NEW w \in Workers, worker[w].pc \in {"completing", "failing"}
  PROVE  /\ worker[w].id \in Ids /\ Exists(worker[w].id)
         /\ rows[worker[w].id].status = "running"
         /\ rows[worker[w].id].own =>
              /\ Attached(w)
              /\ \A v \in Workers \ {w} : worker[v].birth # rows[worker[w].id].birth
<1>1. worker[w].id \in Ids /\ worker[w].birth \in 1 .. births /\ worker[w].birth # 0
  BY DEF TaskInv, ThreadOK, HoldsRow, Waiting
<1>2. Exists(worker[w].id) /\ rows[worker[w].id].status = "running"
  BY DEF CleanInv, CallsAreWhole
<1>3. rows[worker[w].id].own => worker[w].birth = rows[worker[w].id].birth
  BY <1>1, <1>2 DEF TaskInv, OwnNumbers
<1> QED BY <1>1, <1>2, <1>3 DEF CleanInv, OneRunner, Attached

LEMMA CleanCompleteWrite ==
  ASSUME TaskInv, CleanInv, ~stale, NEW w \in Workers, CompleteWrite(w)
  PROVE  CleanInv'
<1>a. PICK id : id = worker[w].id
  OBVIOUS
<1> DEFINE row == [rows[id] EXCEPT !.status = "completed", !.made = worker[w].made,
                                   !.parts = worker[w].parts]
<1>1. /\ ui = NoCall /\ MidCall \subseteq {w} /\ worker[w].pc \in {"completing", "failing"}
      /\ UNCHANGED <<ui, results>> /\ TypeOK
  BY TurnAlone DEF CompleteWrite, TaskInv
<1>2. /\ id \in Ids /\ Exists(id) /\ rows[id] \in TaskRow
      /\ rows[id].own => \A v \in Workers \ {w} : worker[v].birth # rows[id].birth
  BY <1>1, <1>a, AloneOnRow, RowTypes
<1>3. rows' = [rows EXCEPT ![id] = row] /\ End(w)
  BY <1>2, <1>a DEF CompleteWrite
<1>4. row.birth = rows[id].birth /\ row.own = rows[id].own /\ row.status = "completed"
  BY <1>2, Zenon DEF TaskRow
<1> HIDE DEF row
<1>5. rows'[id] = row /\ \A i \in Ids \ {id} : rows'[i] = rows[i]
  BY <1>1, <1>2, <1>3 DEF TypeOK
<1>6. rows'[id] # NoRow
  BY <1>4, <1>5 DEF NoRow
<1>7. \A i \in Ids : Exists(i)' <=> Exists(i)
  BY <1>2, <1>5, <1>6 DEF Exists
<1>8. worker'[w] = Idle /\ \A v \in Workers \ {w} : worker'[v] = worker[v]
  BY <1>1, <1>3, ChangedThread DEF End
<1> QED BY <1>1, <1>2, <1>4, <1>5, <1>7, <1>8, IdleThread, CleanWrite DEF Calling

LEMMA CleanFailWrite ==
  ASSUME TaskInv, CleanInv, ~stale, NEW w \in Workers, FailWrite(w)
  PROVE  CleanInv'
<1>a. PICK id : id = worker[w].id
  OBVIOUS
<1>b. PICK s \in {"cancelled", "failed"} :
        s = IF worker[w].code = "CANCELLED" THEN "cancelled" ELSE "failed"
  OBVIOUS
<1>1. /\ ui = NoCall /\ MidCall \subseteq {w} /\ worker[w].pc \in {"completing", "failing"}
      /\ UNCHANGED <<ui, results>> /\ TypeOK /\ ThreadOK(w)
  BY TurnAlone DEF FailWrite, TaskInv
<1>2. /\ id \in Ids /\ Exists(id)
      /\ rows[id].own => /\ Attached(w)
                         /\ \A v \in Workers \ {w} : worker[v].birth # rows[id].birth
  BY <1>1, <1>a, AloneOnRow
<1>3. SetStatus(id, s) /\ End(w) /\ s \in Statuses
  BY <1>2, <1>a, <1>b DEF FailWrite, Statuses
<1>4. /\ \A i \in Ids \ {id} : rows'[i] = rows[i]
      /\ rows'[id].birth = rows[id].birth /\ rows'[id].own = rows[id].own
      /\ rows'[id].status = s
      /\ \A i \in Ids : Exists(i)' <=> Exists(i)
  BY <1>1, <1>2, <1>3, SetStatusRows
<1>5. ASSUME rows[id].own, s = "cancelled" PROVE StoredOf(rows[id]) = {}
  <2>1. worker[w].code = "CANCELLED" /\ worker[w].birth = rows[id].birth
    BY <1>a, <1>b, <1>2, <1>5 DEF Attached
  <2>2. PartsBy(w, rows[id].birth) = {}
    BY <1>1, <1>2, <1>5, <2>1 DEF ThreadOK, PartsSoFar, StoredIsThere
  <2>3. \A r \in results : r.birth = rows[id].birth => r.by = w
    BY <2>1 DEF CleanInv, OwnResults
  <2> QED BY <2>2, <2>3 DEF PartsBy, StoredOf
<1>6. worker'[w] = Idle /\ \A v \in Workers \ {w} : worker'[v] = worker[v]
  BY <1>1, <1>3, ChangedThread DEF End
<1> QED BY <1>1, <1>2, <1>4, <1>5, <1>6, IdleThread, CleanWrite DEF Calling

LEMMA CleanWork ==
  ASSUME TaskInv, CleanInv, ~stale, NEW w \in Workers, Work(w)
  PROVE  CleanInv'
<1>1. ASSUME NEW part, Store(w, part) PROVE CleanInv'
  BY <1>1, CleanStore
<1> QED
  BY <1>1, CleanReads, CleanStartWrite, CleanReturns, CleanCompleteWrite, CleanFailWrite
    DEF Work, StoreSuggestions, StoreOutputs, StoreCopies, StoreResults

LEMMA CleanSpawn ==
  ASSUME TaskInv, CleanInv, NEW w \in Workers, NEW id \in Ids, Spawn(w, id)
  PROVE  CleanInv'
<1>1. worker'[w] = [Idle EXCEPT !.pc = "spawned", !.id = id]
      /\ \A v \in Workers \ {w} : worker'[v] = worker[v]
  BY ChangedThread DEF Spawn, TaskInv
<1>2. worker'[w].pc = "spawned" /\ worker'[w].birth = 0
  BY <1>1 DEF Idle
<1> QED BY <1>1, <1>2, CleanThread DEF Spawn, Calling

-----------------------------------------------------------------------------
(* The steps of the user, and of the process.                              *)
LEMMA CleanCreate ==
  ASSUME TaskInv, CleanInv, NEW kind, NEW needs, Create(kind, needs)
  PROVE  CleanInv'
<1>a. PICK id : id = NextId
  OBVIOUS
<1>1. /\ UNCHANGED <<worker, ui, results>> /\ ui = NoCall
      /\ id \in Ids /\ ~Exists(id) /\ TypeOK
      /\ \A i \in Ids \ {id} : rows'[i] = rows[i]
      /\ rows'[id].status = "pending" /\ rows'[id].birth = births + 1
  BY <1>a, NextIdIsFree DEF Create, TaskInv, TypeOK
<1>2. \A v \in Workers : worker[v].birth # births + 1
  <2>1. births + 1 \notin 1 .. births /\ births + 1 # 0
    BY <1>1, TaskAssumption DEF TypeOK
  <2> QED BY <2>1 DEF TaskInv, ThreadOK, HoldsRow
<1>3. \A v \in Workers : worker[v].pc # "idle" => worker[v].id \in Ids
  BY DEF TaskInv, ThreadOK, HoldsRow
<1>4. CallsAreWhole'
  <2>1. MidCall' = MidCall
    BY <1>1 DEF MidCall
  <2>2. ASSUME NEW v \in Workers, worker[v].pc \in Calling
        PROVE  worker[v].id # id /\ Exists(worker[v].id)' /\ rows'[worker[v].id] = rows[worker[v].id]
    <3>1. Exists(worker[v].id) /\ worker[v].id \in Ids
      BY <1>3, <2>2 DEF CleanInv, CallsAreWhole, Calling
    <3> QED BY <1>1, <3>1 DEF Exists
  <2>3. \A v \in Workers : Attached(v)' => Attached(v) /\ rows'[worker[v].id] = rows[worker[v].id]
    BY <1>1, <1>2 DEF Attached, Exists
  <2> QED BY <1>1, <2>1, <2>2, <2>3 DEF CleanInv, CallsAreWhole, Calling
<1>5. OneRunner' /\ OwnResults'
  BY <1>1 DEF CleanInv, OneRunner, OwnResults
<1>6. CancelledIsEmpty'
  BY <1>1 DEF CleanInv, CancelledIsEmpty, StoredOf, Exists
<1> QED BY <1>4, <1>5, <1>6 DEF CleanInv

LEMMA CleanCancelRead ==
  ASSUME TaskInv, CleanInv, ~stale, NEW id \in Ids, CancelRead(id)
  PROVE  CleanInv'
<1>1. /\ MidCall = {} /\ UNCHANGED <<rows, worker, results>>
      /\ ui' = [id |-> id, read |-> rows[id].status]
  BY DEF CancelRead, UiTurn
<1>2. MidCall' = {}
  BY <1>1 DEF MidCall
<1>3. CallsAreWhole'
  BY <1>1, <1>2 DEF CleanInv, CallsAreWhole, Attached, Exists
<1>4. OneRunner' /\ OwnResults' /\ CancelledIsEmpty'
  BY <1>1 DEF CleanInv, OneRunner, OwnResults, CancelledIsEmpty, StoredOf, Exists
<1> QED BY <1>3, <1>4 DEF CleanInv

LEMMA CleanCancelWrite ==
  ASSUME TaskInv, CleanInv, ~stale, CancelWrite
  PROVE  CleanInv'
<1>a. PICK id : id = ui.id
  OBVIOUS
<1>1. /\ MidCall = {} /\ UNCHANGED <<worker, results>> /\ ui' = NoCall /\ TypeOK
      /\ id \in Ids /\ rows[id].status = ui.read
  BY <1>a DEF CancelWrite, UiTurn, TaskInv, CleanInv, CallsAreWhole
<1>2. MidCall' = {}
  BY <1>1 DEF MidCall
<1>3. OneRunner' /\ OwnResults'
  BY <1>1 DEF CleanInv, OneRunner, OwnResults
<1>4. CASE rows' = rows
  <2>1. CallsAreWhole'
    BY <1>1, <1>2, <1>4 DEF CleanInv, CallsAreWhole, Attached, Exists
  <2>2. CancelledIsEmpty'
    BY <1>1, <1>4 DEF CleanInv, CancelledIsEmpty, StoredOf, Exists
  <2> QED BY <1>3, <2>1, <2>2 DEF CleanInv
<1>5. CASE rows' # rows
  <2>1. SetStatus(id, "cancelled") /\ Exists(id) /\ rows[id].status = "pending"
        /\ "cancelled" \in Statuses
    BY <1>a, <1>1, <1>5 DEF CancelWrite, Statuses
  <2>2. /\ \A i \in Ids \ {id} : rows'[i] = rows[i]
        /\ rows'[id].birth = rows[id].birth
        /\ \A i \in Ids : Exists(i)' <=> Exists(i)
    BY <1>1, <2>1, SetStatusRows
  <2>3. StoredOf(rows[id]) = {} /\ \A v \in Workers : worker[v].birth # rows[id].birth
    BY <1>1, <2>1 DEF TaskInv, PendingIsNew
  <2>4. \A v \in Workers : Attached(v)' => Attached(v) /\ rows'[worker[v].id] = rows[worker[v].id]
    BY <1>1, <2>2, <2>3 DEF Attached
  <2>5. \A v \in Workers : worker[v].pc \notin {"starting", "completing", "failing"}
    BY <1>1 DEF MidCall
  <2>7. CallsAreWhole'
    BY <1>1, <1>2, <2>4, <2>5 DEF CleanInv, CallsAreWhole
  <2>8. CancelledIsEmpty'
    <3> SUFFICES ASSUME NEW i \in Ids, Exists(i)', rows'[i].own, rows'[i].status = "cancelled"
                 PROVE  StoredOf(rows[i])' = {}
      BY DEF CancelledIsEmpty
    <3>1. StoredOf(rows[i])' = StoredOf(rows[i])
      BY <1>1, <2>2 DEF StoredOf
    <3> QED BY <1>1, <2>2, <2>3, <3>1 DEF CleanInv, CancelledIsEmpty
  <2> QED BY <1>3, <2>7, <2>8 DEF CleanInv
<1> QED BY <1>4, <1>5

LEMMA CleanDelete ==
  ASSUME TaskInv, CleanInv, ~stale, NEW id \in Ids, DeleteTask(id)
  PROVE  CleanInv'
<1>1. /\ UNCHANGED <<worker, ui>> /\ ui = NoCall /\ MidCall = {}
      /\ rows' = [rows EXCEPT ![id] = NoRow] /\ results' \subseteq results /\ TypeOK
  BY DEF DeleteTask, UiTurn, TaskInv
<1>2. rows'[id] = NoRow /\ \A i \in Ids \ {id} : rows'[i] = rows[i]
  BY <1>1 DEF TypeOK
<1>3. MidCall' = {}
  BY <1>1 DEF MidCall
<1>4. \A v \in Workers : Attached(v)' => Attached(v) /\ rows'[worker[v].id] = rows[worker[v].id]
  BY <1>1, <1>2 DEF Attached, Exists
<1>5. \A v \in Workers : worker[v].pc \notin {"starting", "completing", "failing"}
  BY <1>1 DEF MidCall
<1>7. CallsAreWhole'
  BY <1>1, <1>3, <1>4, <1>5 DEF CleanInv, CallsAreWhole
<1>8. OneRunner' /\ OwnResults'
  BY <1>1 DEF CleanInv, OneRunner, OwnResults
<1>9. CancelledIsEmpty'
  BY <1>1, <1>2 DEF CleanInv, CancelledIsEmpty, StoredOf, Exists
<1> QED BY <1>7, <1>8, <1>9 DEF CleanInv

(* No thread is left.                                                      *)
LEMMA CleanCrash ==
  ASSUME TaskInv, CleanInv, Crash
  PROVE  CleanInv'
<1>1. UNCHANGED <<rows, results>> /\ ui' = NoCall /\ \A w \in Workers : worker'[w] = Idle
  BY DEF Crash
<1>2. MidCall' = {}
  BY <1>1, IdleThread DEF MidCall
<1>3. CallsAreWhole' /\ OneRunner'
  BY <1>1, <1>2, IdleThread DEF CallsAreWhole, OneRunner, Attached
<1>4. OwnResults'
  <2>1. \A r \in results : r.birth # 0
    BY DEF TaskInv, TypeOK, Result
  <2> QED BY <1>1, <2>1, IdleThread DEF OwnResults
<1>5. CancelledIsEmpty'
  BY <1>1 DEF CleanInv, CancelledIsEmpty, StoredOf, Exists
<1> QED BY <1>3, <1>4, <1>5 DEF CleanInv

LEMMA CleanRestart ==
  ASSUME TaskInv, CleanInv, Restart
  PROVE  CleanInv'
<1>1. /\ UNCHANGED <<worker, ui, results>> /\ TypeOK /\ ui = NoCall
      /\ \A v \in Workers : worker[v].pc = "idle"
  BY DEF Restart, TaskInv, DownIsIdle
<1>2. \A v \in Workers : worker[v].birth = 0
  BY <1>1 DEF TaskInv, ThreadOK, HoldsRow, Waiting
<1>3. MidCall' = {}
  BY <1>1 DEF MidCall
<1>4. CallsAreWhole' /\ OneRunner' /\ OwnResults'
  BY <1>1, <1>2, <1>3 DEF CleanInv, CallsAreWhole, OneRunner, OwnResults, Attached
<1>5. ASSUME NEW i \in Ids, Exists(i)', rows'[i].own, rows'[i].status = "cancelled"
      PROVE  StoredOf(rows[i])' = {}
  <2>1. rows'[i] = IF Exists(i) /\ rows[i].status = "running"
                   THEN [rows[i] EXCEPT !.status = "interrupted"] ELSE rows[i]
    BY <1>1 DEF Restart, TypeOK
  <2>2. CASE Exists(i) /\ rows[i].status = "running"
    <3>1. rows[i] \in TaskRow
      BY <1>1, <2>2, RowTypes
    <3>2. rows'[i].status = "interrupted"
      BY <2>1, <2>2, <3>1, SMT DEF TaskRow
    <3> QED BY <1>5, <3>2
  <2>3. CASE ~(Exists(i) /\ rows[i].status = "running")
    BY <1>1, <1>5, <2>1, <2>3 DEF CleanInv, CancelledIsEmpty, StoredOf, Exists
  <2> QED BY <2>2, <2>3
<1> QED BY <1>4, <1>5 DEF CleanInv, CancelledIsEmpty

LEMMA CleanSame ==
  ASSUME CleanInv, UNCHANGED <<rows, worker, ui, results>>
  PROVE  CleanInv'
<1>1. MidCall' = MidCall
  BY DEF MidCall
<1>2. CallsAreWhole'
  BY <1>1 DEF CleanInv, CallsAreWhole, Attached, Exists
<1> QED
  BY <1>2 DEF CleanInv, OneRunner, OwnResults, CancelledIsEmpty, StoredOf, Exists

LEMMA CleanStep ==
  ASSUME TaskInv, ~stale => CleanInv, [Next]_vars
  PROVE  (~stale => CleanInv)'
<1> SUFFICES ASSUME ~stale PROVE CleanInv'
  BY DEF Next, vars
<1>1. CASE UNCHANGED vars
  BY <1>1, CleanSame DEF vars
<1>2. CASE CreateCleaning \/ CreateGeneration \/ CreateEvaluation \/ CreateTraining
  BY <1>2, CleanCreate DEF CreateCleaning, CreateGeneration, CreateEvaluation, CreateTraining
<1>3. CASE \E w \in Workers : Work(w) \/ \E id \in Ids : Spawn(w, id)
  BY <1>3, CleanWork, CleanSpawn
<1>4. CASE \E id \in Ids : CancelRead(id) \/ DeleteTask(id)
  BY <1>4, CleanCancelRead, CleanDelete
<1>5. CASE \E what \in Inputs : InputsVanish(what)
  BY <1>5, CleanSame DEF InputsVanish
<1>6. CASE CancelWrite \/ Crash \/ Restart
  BY <1>6, CleanCancelWrite, CleanCrash, CleanRestart
<1> QED BY <1>1, <1>2, <1>3, <1>4, <1>5, <1>6 DEF Next

LEMMA CleanInit == Init => CleanInv
<1> SUFFICES ASSUME Init PROVE CleanInv
  OBVIOUS
<1>1. \A i \in Ids : ~Exists(i)
  BY DEF Init, Exists
<1>2. \A w \in Workers : worker[w].pc = "idle" /\ worker[w].birth = 0
  BY IdleThread DEF Init
<1>3. MidCall = {}
  BY <1>2 DEF MidCall
<1> QED
  BY <1>1, <1>2, <1>3 DEF Init, CleanInv, CallsAreWhole, OneRunner, OwnResults,
    CancelledIsEmpty, Attached

LEMMA CleanAlways == Spec => [](TaskInv /\ (~stale => CleanInv))
<1>1. Init => CleanInv
  BY CleanInit
<1>2. TaskInv /\ (~stale => CleanInv) /\ [Next]_vars => (~stale => CleanInv)'
  BY CleanStep
<1> QED BY <1>1, <1>2, TaskAlways, PTL DEF Spec

(* When no thread moves inside a call of another one: what a cancelled     *)
(* task has produced is not in the tables, unless its number was in use    *)
(* for another one when it was created, and one thread runs a task however *)
(* often it is started (task_manager.py:71, :125).                         *)
THEOREM CancelAlwaysClean == Spec => []CancelIsClean
<1>1. TaskInv /\ CleanInv => CancelledLeavesNothing
  BY OwnStored DEF CleanInv, CancelledIsEmpty, CancelledLeavesNothing
<1>2. TaskInv /\ (~stale => CleanInv) => CancelIsClean
  BY <1>1 DEF CancelIsClean, CleanInv
<1> QED BY <1>2, CleanAlways, PTL

-----------------------------------------------------------------------------
(* The status of a task, read off the table.                               *)
LEMMA StatusNow ==
  ASSUME TaskInv
  PROVE  /\ DOMAIN StatusOf = 1 .. MaxBirths
         /\ StatusOf = [b \in 1 .. MaxBirths |-> StatusOf[b]]
         /\ \A id \in Ids : Exists(id) => /\ rows[id].birth \in 1 .. MaxBirths
                                          /\ StatusOf[rows[id].birth] = rows[id].status
         /\ \A b \in 1 .. MaxBirths : (\A id \in Ids : Exists(id) => rows[id].birth # b) =>
              StatusOf[b] = IF b <= births THEN "deleted" ELSE "unborn"
<1>1. ASSUME NEW id \in Ids, Exists(id)
      PROVE  rows[id].birth \in 1 .. MaxBirths /\ StatusOf[rows[id].birth] = rows[id].status
  <2>1. rows[id].birth \in 1 .. MaxBirths
    BY <1>1, RowTypes DEF TaskInv, TaskRow
  <2>2. \A j \in Ids : Exists(j) /\ rows[j].birth = rows[id].birth => j = id
    BY <1>1 DEF TaskInv, BirthsApart
  <2>3. (CHOOSE j \in Ids : Exists(j) /\ rows[j].birth = rows[id].birth) = id
    BY <1>1, <2>2
  <2> QED BY <1>1, <2>1, <2>3 DEF StatusOf
<1> QED BY <1>1 DEF StatusOf

LEMMA StatusThen ==
  ASSUME TaskInv'
  PROVE  /\ DOMAIN StatusOf' = 1 .. MaxBirths
         /\ StatusOf' = [b \in 1 .. MaxBirths |-> StatusOf'[b]]
         /\ \A id \in Ids : Exists(id)' => /\ rows'[id].birth \in 1 .. MaxBirths
                                           /\ StatusOf'[rows'[id].birth] = rows'[id].status
         /\ \A b \in 1 .. MaxBirths : (\A id \in Ids : Exists(id)' => rows'[id].birth # b) =>
              StatusOf'[b] = IF b <= births' THEN "deleted" ELSE "unborn"
<1>1. ASSUME NEW id \in Ids, Exists(id)'
      PROVE  rows'[id].birth \in 1 .. MaxBirths /\ StatusOf'[rows'[id].birth] = rows'[id].status
  <2>1. rows'[id].birth \in 1 .. MaxBirths
    <3>1. rows'[id] \in TaskRow
      BY <1>1 DEF TaskInv, TypeOK, Exists
    <3> QED BY <3>1 DEF TaskRow
  <2>2. \A j \in Ids : Exists(j)' /\ rows'[j].birth = rows'[id].birth => j = id
    BY <1>1 DEF TaskInv, BirthsApart
  <2>3. (CHOOSE j \in Ids : Exists(j)' /\ rows'[j].birth = rows'[id].birth) = id
    BY <1>1, <2>2
  <2> QED BY <1>1, <2>1, <2>3 DEF StatusOf
<1> QED BY <1>1 DEF StatusOf

LEMMA StatusKept ==
  ASSUME UNCHANGED <<rows, births>> PROVE StatusOf' = StatusOf
BY DEF StatusOf, Exists

LEMMA StatusMoves ==
  ASSUME TaskInv, TaskInv', UNCHANGED births, NEW id \in Ids, Exists(id),
         rows'[id].birth = rows[id].birth,
         \A i \in Ids \ {id} : rows'[i] = rows[i], \A i \in Ids : Exists(i)' <=> Exists(i)
  PROVE  StatusOf' = [StatusOf EXCEPT ![rows[id].birth] = rows'[id].status]
<1>1. ASSUME NEW b \in 1 .. MaxBirths
      PROVE  StatusOf'[b] = IF b = rows[id].birth THEN rows'[id].status ELSE StatusOf[b]
  <2>1. CASE b = rows[id].birth
    BY <2>1, StatusThen
  <2>2. ASSUME b # rows[id].birth, NEW i \in Ids, Exists(i), rows[i].birth = b
        PROVE  StatusOf'[b] = StatusOf[b]
    BY <2>2, StatusNow, StatusThen
  <2>3. CASE \A i \in Ids : Exists(i) => rows[i].birth # b
    <3>1. \A i \in Ids : Exists(i)' => rows'[i].birth # b
      BY <2>3
    <3> QED BY <2>3, <3>1, StatusNow, StatusThen
  <2> QED BY <2>1, <2>2, <2>3
<1> QED BY <1>1, StatusNow, StatusThen

(* The writes of the threads, and of a cancel.                             *)
LEMMA WritesMove ==
  ASSUME TaskInv, TaskInv', CleanInv, ~stale,
         CancelWrite \/ \E w \in Workers : StartWrite(w) \/ CompleteWrite(w) \/ FailWrite(w)
  PROVE  [States!Next]_StatusOf
<1>1. ASSUME NEW id \in Ids, Exists(id), NEW s \in Statuses, UNCHANGED births,
             \/ SetStatus(id, s)
             \/ \E m, p : /\ rows' = [rows EXCEPT ![id].status = s, ![id].made = m, ![id].parts = p]
                          /\ s = "completed"
      PROVE  StatusOf' = [StatusOf EXCEPT ![rows[id].birth] = s]
             /\ StatusOf[rows[id].birth] = rows[id].status /\ rows[id].birth \in 1 .. MaxBirths
  <2>1. TypeOK /\ rows[id] \in TaskRow
    BY <1>1, RowTypes DEF TaskInv
  <2>2. /\ \A i \in Ids \ {id} : rows'[i] = rows[i]
        /\ rows'[id].birth = rows[id].birth /\ rows'[id].status = s
        /\ \A i \in Ids : Exists(i)' <=> Exists(i)
    <3>1. CASE SetStatus(id, s)
      BY <1>1, <2>1, <3>1, SetStatusRows
    <3>2. ASSUME NEW m, NEW p, s = "completed",
                 rows' = [rows EXCEPT ![id].status = s, ![id].made = m, ![id].parts = p]
          PROVE  /\ \A i \in Ids \ {id} : rows'[i] = rows[i]
                 /\ rows'[id].birth = rows[id].birth /\ rows'[id].status = s
                 /\ \A i \in Ids : Exists(i)' <=> Exists(i)
      <4>1. /\ rows'[id] = [rows[id] EXCEPT !.status = s, !.made = m, !.parts = p]
            /\ \A i \in Ids \ {id} : rows'[i] = rows[i]
        BY <2>1, <3>2 DEF TypeOK
      <4>2. rows'[id].birth = rows[id].birth /\ rows'[id].status = s
        BY <2>1, <4>1, Zenon DEF TaskRow
      <4>3. rows'[id] # NoRow
        <5>1. rows'[id].status # NoRow.status
          BY <3>2, <4>2 DEF NoRow
        <5> QED BY <5>1, Zenon
      <4> QED BY <1>1, <4>1, <4>2, <4>3 DEF Exists
    <3> QED BY <1>1, <3>1, <3>2
  <2> QED BY <1>1, <2>2, StatusMoves, StatusNow
<1>2. ASSUME NEW w \in Workers, StartWrite(w) PROVE States!Next
  <2>1. PICK id : id = worker[w].id
    OBVIOUS
  <2>2. /\ id \in Ids /\ Exists(id) /\ rows[id].status = "pending"
    BY <1>2, <2>1 DEF StartWrite, TaskInv, ThreadOK, HoldsRow, CleanInv, CallsAreWhole
  <2>3. SetStatus(id, "running") /\ UNCHANGED births /\ "running" \in Statuses
    BY <1>2, <2>1, <2>2 DEF StartWrite, Statuses
  <2>4. /\ StatusOf' = [StatusOf EXCEPT ![rows[id].birth] = "running"]
        /\ StatusOf[rows[id].birth] = "pending" /\ rows[id].birth \in 1 .. MaxBirths
    BY <1>1, <2>2, <2>3
  <2> QED BY <2>4 DEF States!Next, States!Begin, States!Move
<1>3. ASSUME NEW w \in Workers, CompleteWrite(w) \/ FailWrite(w) PROVE States!Next
  <2>1. PICK id : id = worker[w].id
    OBVIOUS
  <2>2. /\ id \in Ids /\ Exists(id) /\ rows[id].status = "running"
    BY <1>3, <2>1, AloneOnRow DEF CompleteWrite, FailWrite
  <2>3. PICK s \in {"completed", "failed", "cancelled"} :
          \/ SetStatus(id, s)
          \/ \E m, p : /\ rows' = [rows EXCEPT ![id].status = s, ![id].made = m, ![id].parts = p]
                       /\ s = "completed"
    <3>1. CASE CompleteWrite(w)
      <4>1. rows' = [rows EXCEPT ![id].status = "completed", ![id].made = worker[w].made,
                                 ![id].parts = worker[w].parts]
        BY <2>1, <2>2, <3>1 DEF CompleteWrite
      <4> QED BY <4>1
    <3>2. CASE FailWrite(w)
      <4>1. SetStatus(id, IF worker[w].code = "CANCELLED" THEN "cancelled" ELSE "failed")
        BY <2>1, <2>2, <3>2 DEF FailWrite
      <4> QED BY <4>1
    <3> QED BY <1>3, <3>1, <3>2
  <2>4. UNCHANGED births /\ s \in Statuses
    BY <1>3 DEF CompleteWrite, FailWrite, Statuses
  <2>5. /\ StatusOf' = [StatusOf EXCEPT ![rows[id].birth] = s]
        /\ StatusOf[rows[id].birth] = "running" /\ rows[id].birth \in 1 .. MaxBirths
    BY <1>1, <2>2, <2>3, <2>4
  <2> QED BY <2>5 DEF States!Next, States!Finish, States!Move
<1>4. CASE CancelWrite
  <2>1. PICK id : id = ui.id
    OBVIOUS
  <2>2. /\ id \in Ids /\ rows[id].status = ui.read /\ UNCHANGED births
    BY <1>4, <2>1 DEF CancelWrite, CleanInv, CallsAreWhole
  <2>3. CASE rows' = rows
    BY <2>2, <2>3, StatusKept
  <2>4. CASE rows' # rows
    <3>1. SetStatus(id, "cancelled") /\ Exists(id) /\ rows[id].status = "pending"
          /\ "cancelled" \in Statuses
      BY <1>4, <2>1, <2>2, <2>4 DEF CancelWrite, Statuses
    <3>2. /\ StatusOf' = [StatusOf EXCEPT ![rows[id].birth] = "cancelled"]
          /\ StatusOf[rows[id].birth] = "pending" /\ rows[id].birth \in 1 .. MaxBirths
      BY <1>1, <2>2, <3>1
    <3> QED BY <3>2 DEF States!Next, States!Withdraw, States!Move
  <2> QED BY <2>3, <2>4
<1> QED BY <1>2, <1>3, <1>4

LEMMA CreateMoves ==
  ASSUME TaskInv, TaskInv', NEW kind, NEW needs, Create(kind, needs)
  PROVE  States!Next
<1>a. PICK id : id = NextId
  OBVIOUS
<1> DEFINE b == births + 1
<1>1. /\ id \in Ids /\ ~Exists(id) /\ births' = b /\ births < MaxBirths /\ births \in Nat
      /\ \A i \in Ids \ {id} : rows'[i] = rows[i]
      /\ rows'[id].status = "pending" /\ rows'[id].birth = b
  BY <1>a, NextIdIsFree, TaskAssumption DEF Create, TaskInv, TypeOK
<1>2. b \in 1 .. MaxBirths /\ ~(b <= births) /\ \A c \in 1 .. MaxBirths : c # b => (c <= b <=> c <= births)
  BY <1>1, TaskAssumption
<1>3. rows'[id] # NoRow
  BY <1>1 DEF NoRow
<1>4. \A i \in Ids : Exists(i)' <=> i = id \/ Exists(i)
  BY <1>1, <1>3 DEF Exists
<1>5. \A i \in Ids : Exists(i) => rows[i].birth # b
  <2>1. \A i \in Ids : Exists(i) => rows[i].birth <= births
    BY DEF TaskInv, BirthsApart
  <2> QED BY <1>2, <2>1
<1> HIDE DEF b
<1>6. StatusOf[b] = "unborn" /\ StatusOf'[b] = "pending"
  BY <1>1, <1>2, <1>4, <1>5, StatusNow, StatusThen
<1>7. ASSUME NEW c \in 1 .. MaxBirths, c # b PROVE StatusOf'[c] = StatusOf[c]
  <2>1. ASSUME NEW i \in Ids, Exists(i), rows[i].birth = c PROVE StatusOf'[c] = StatusOf[c]
    BY <1>1, <1>4, <2>1, StatusNow, StatusThen
  <2>2. CASE \A i \in Ids : Exists(i) => rows[i].birth # c
    <3>1. \A i \in Ids : Exists(i)' => rows'[i].birth # c
      BY <1>1, <1>4, <1>7, <2>2
    <3> QED BY <1>1, <1>2, <1>7, <2>2, <3>1, StatusNow, StatusThen
  <2> QED BY <2>1, <2>2
<1>8. StatusOf' = [StatusOf EXCEPT ![b] = "pending"]
  BY <1>2, <1>6, <1>7, StatusNow, StatusThen
<1> QED BY <1>2, <1>6, <1>8 DEF States!Next, States!Create, States!Move

LEMMA DeleteMoves ==
  ASSUME TaskInv, TaskInv', NEW id \in Ids, DeleteTask(id)
  PROVE  States!Next
<1>a. PICK b : b = rows[id].birth
  OBVIOUS
<1>1. /\ Exists(id) /\ UNCHANGED births /\ rows'[id] = NoRow
      /\ \A i \in Ids \ {id} : rows'[i] = rows[i]
  BY DEF DeleteTask, TaskInv, TypeOK
<1>2. \A i \in Ids : Exists(i)' <=> i # id /\ Exists(i)
  BY <1>1 DEF Exists
<1>3. b <= births /\ rows[id].status \in Statuses
  BY <1>a, <1>1, RowTypes DEF TaskInv, BirthsApart, TaskRow
<1>4. b \in 1 .. MaxBirths /\ StatusOf[b] \in Statuses
  BY <1>a, <1>1, <1>3, StatusNow
<1>5. \A i \in Ids : Exists(i)' => rows'[i].birth # b
  BY <1>a, <1>1, <1>2 DEF TaskInv, BirthsApart
<1>6. StatusOf'[b] = "deleted"
  BY <1>1, <1>3, <1>4, <1>5, StatusThen
<1>7. ASSUME NEW c \in 1 .. MaxBirths, c # b PROVE StatusOf'[c] = StatusOf[c]
  <2>1. ASSUME NEW i \in Ids, Exists(i), rows[i].birth = c PROVE StatusOf'[c] = StatusOf[c]
    BY <1>a, <1>1, <1>2, <1>7, <2>1, StatusNow, StatusThen
  <2>2. CASE \A i \in Ids : Exists(i) => rows[i].birth # c
    <3>1. \A i \in Ids : Exists(i)' => rows'[i].birth # c
      BY <1>1, <1>2, <2>2
    <3> QED BY <1>1, <2>2, <3>1, StatusNow, StatusThen
  <2> QED BY <2>1, <2>2
<1>8. StatusOf' = [StatusOf EXCEPT ![b] = "deleted"]
  BY <1>4, <1>6, <1>7, StatusNow, StatusThen
<1>9. StatusOf[b] \notin {"unborn", "deleted"}
  BY <1>4 DEF Statuses
<1> QED BY <1>4, <1>8, <1>9 DEF States!Next, States!Delete, States!Move

LEMMA RestartMoves ==
  ASSUME TaskInv, TaskInv', Restart
  PROVE  States!Next
<1>1. UNCHANGED births /\ TypeOK
  BY DEF Restart, TaskInv
<1>2. ASSUME NEW i \in Ids
      PROVE  /\ Exists(i)' <=> Exists(i)
             /\ Exists(i) => /\ rows'[i].birth = rows[i].birth
                             /\ rows'[i].status =
                                  IF rows[i].status = "running" THEN "interrupted"
                                  ELSE rows[i].status
  <2>1. rows'[i] = IF Exists(i) /\ rows[i].status = "running"
                   THEN [rows[i] EXCEPT !.status = "interrupted"] ELSE rows[i]
    BY <1>1 DEF Restart, TypeOK
  <2>2. CASE Exists(i) /\ rows[i].status = "running"
    <3>1. rows[i] \in TaskRow
      BY <1>1, <2>2, RowTypes
    <3>2. rows'[i].status = "interrupted" /\ rows'[i].birth = rows[i].birth
      BY <2>1, <2>2, <3>1, Zenon DEF TaskRow
    <3>3. rows'[i] # NoRow
      BY <3>2 DEF NoRow
    <3> QED BY <2>2, <3>2, <3>3 DEF Exists
  <2>3. CASE ~(Exists(i) /\ rows[i].status = "running")
    BY <2>1, <2>3 DEF Exists
  <2> QED BY <2>2, <2>3
<1>3. ASSUME NEW b \in 1 .. MaxBirths
      PROVE  StatusOf'[b] = IF StatusOf[b] = "running" THEN "interrupted" ELSE StatusOf[b]
  <2>1. ASSUME NEW i \in Ids, Exists(i), rows[i].birth = b
        PROVE  StatusOf'[b] = IF StatusOf[b] = "running" THEN "interrupted" ELSE StatusOf[b]
    BY <1>2, <2>1, StatusNow, StatusThen
  <2>2. CASE \A i \in Ids : Exists(i) => rows[i].birth # b
    <3>1. \A i \in Ids : Exists(i)' => rows'[i].birth # b
      BY <1>2, <2>2
    <3>2. StatusOf'[b] = StatusOf[b] /\ StatusOf[b] # "running"
      BY <1>1, <2>2, <3>1, StatusNow, StatusThen
    <3> QED BY <3>2
  <2> QED BY <2>1, <2>2
<1> QED BY <1>3, StatusThen DEF States!Next, States!Sweep

LEMMA TaskStatesStep ==
  ASSUME TaskInv, TaskInv', CleanInv, ~stale, [Next]_vars
  PROVE  [States!Next]_StatusOf
<1>1. CASE UNCHANGED <<rows, births>>
  BY <1>1, StatusKept
<1>2. CASE CreateCleaning \/ CreateGeneration \/ CreateEvaluation \/ CreateTraining
  BY <1>2, CreateMoves DEF CreateCleaning, CreateGeneration, CreateEvaluation, CreateTraining
<1>3. ASSUME NEW w \in Workers, Work(w) PROVE [States!Next]_StatusOf
  <2>1. CASE StartWrite(w) \/ CompleteWrite(w) \/ FailWrite(w)
    BY <2>1, WritesMove
  <2>2. CASE ~(StartWrite(w) \/ CompleteWrite(w) \/ FailWrite(w))
    <3>1. UNCHANGED <<rows, births>>
      BY <1>3, <2>2 DEF Work, StartRead, Check, PluginCancelled, PluginFails, CleaningReturns,
        EvaluationReturns, TrainingReturns, GenerationReturns, StoreSuggestions, StoreOutputs,
        StoreCopies, StoreResults, Store, StoreFails, CompleteRead, FailRead
    <3> QED BY <3>1, StatusKept
  <2> QED BY <2>1, <2>2
<1>4. ASSUME NEW id \in Ids, CancelRead(id) \/ DeleteTask(id) PROVE [States!Next]_StatusOf
  BY <1>4, StatusKept, DeleteMoves DEF CancelRead
<1>5. ASSUME NEW w \in Workers, NEW id \in Ids, Spawn(w, id) PROVE [States!Next]_StatusOf
  BY <1>5, StatusKept DEF Spawn
<1>6. CASE CancelWrite \/ Crash \/ Restart
  BY <1>6, WritesMove, StatusKept, RestartMoves DEF Crash
<1>7. ASSUME NEW what \in Inputs, InputsVanish(what) PROVE [States!Next]_StatusOf
  BY <1>7, StatusKept DEF InputsVanish
<1> QED BY <1>1, <1>2, <1>3, <1>4, <1>5, <1>6, <1>7 DEF Next, vars

(* When no thread moves inside a call of another one, the table keeps the  *)
(* state machine of TaskStates: each step of threads, user and process     *)
(* moves one task as TaskStates allows, sweeps the running ones at a start, *)
(* or changes no status (task_manager.py:47, :73, :111, :125).             *)
THEOREM TableImplementsStates == Spec => ImplementsTaskStates
<1>1. Init => States!Init
  <2> SUFFICES ASSUME Init PROVE StatusOf = [t \in 1 .. MaxBirths |-> "unborn"]
    BY DEF States!Init
  <2>1. TaskInv /\ births = 0 /\ \A i \in Ids : ~Exists(i)
    BY TaskInit DEF Init, Exists
  <2>2. \A b \in 1 .. MaxBirths : ~(b <= births)
    BY <2>1
  <2>3. \A b \in 1 .. MaxBirths : StatusOf[b] = "unborn"
    BY <2>1, <2>2, StatusNow
  <2> QED BY <2>1, <2>3, StatusNow
<1>2. (TaskInv /\ (~stale => CleanInv)) /\ (TaskInv /\ (~stale => CleanInv))' /\ [Next]_vars
        => [~stale => [States!Next]_StatusOf]_vars
  BY TaskStatesStep
<1> QED BY <1>1, <1>2, CleanAlways, PTL DEF Spec, ImplementsTaskStates
===============================================================================
