----------------------------- MODULE DatasetStore -----------------------------
(***************************************************************************)
(* The datasets of the training tool: the tables datasets, samples and     *)
(* cleaning_suggestions on one side and the folders under data/datasets on *)
(* the other (DatasetService, CleaningService, GenerationService).         *)
(*                                                                         *)
(* The folders have no transaction.  A service call opens a session, reads *)
(* rows, copies, moves or removes files one by one, and commits at the     *)
(* end: an exception takes the rows back, not the files.  The user's       *)
(* thread runs one call at a time; a background thread stores the outputs  *)
(* of a generation meanwhile.  SQLite lets one session write: it owns the  *)
(* write lock from its first flush to its end, and whoever else flushes    *)
(* waits or gives up with an exception.                                    *)
(***************************************************************************)
EXTENDS Integers, Sequences, FiniteSets, FiniteSetsExt, SequencesExt

CONSTANTS
  Names,        \* names the user gives to datasets
  Files,        \* relative paths of the files that are imported
  MaxDatasets,  \* bound: rows of the table datasets
  MaxSamples,   \* bound: rows of the table samples
  MaxNotes,     \* bound: rows of the table cleaning_suggestions
  MaxOps,       \* bound: calls of the user
  MaxRuns,      \* bound: generation outputs stored by the background thread
  MaxFaults     \* bound: exceptions and process ends

ASSUME StoreAssumption ==
  /\ Files # {} /\ Names # {}
  /\ {MaxDatasets, MaxSamples, MaxNotes, MaxOps, MaxRuns, MaxFaults} \subseteq Nat

VARIABLES
  datasets,     \* the committed rows of datasets, a sequence indexed by id
  samples,      \* the committed rows of samples
  notes,        \* the committed rows of cleaning_suggestions
  disk,         \* the files under data/datasets
  folders,      \* the dataset folders that exist
  sess,         \* the session open in each thread
  hurt,         \* datasets whose rows and files the code has let diverge
  raced,        \* datasets on which two sessions have overlapped
  used          \* how many calls, runs and faults there have been

vars == <<datasets, samples, notes, disk, folders, sess, hurt, raced, used>>
dbVars == <<datasets, samples, notes>>

Threads == {"ui", "worker"}
Idle == [op |-> "idle", ds |-> 0]
NoDir == <<0, "">>
Open(t) == sess[t].op # "idle"
Deleted(d) == datasets[d].status = "deleted"
Ids(rows) == 1 .. Len(rows)
(* Rows a query for the samples of d that are not deleted returns.         *)
Live(d) == {s \in Ids(samples) : samples[s].ds = d /\ samples[s].status # "deleted"}

Init ==
  /\ datasets = <<>> /\ samples = <<>> /\ notes = <<>>
  /\ disk = {} /\ folders = {}
  /\ sess = [t \in Threads |-> Idle]
  /\ hurt = {} /\ raced = {}
  /\ used = [ops |-> 0, runs |-> 0, faults |-> 0]

-----------------------------------------------------------------------------
(* Mutant of Place: the name is taken as it is.                            *)
PlaceOver(dir, sub, file) == [dir |-> dir, sub |-> sub, file |-> file, copy |-> 0]

(* FileIndexer.copy_into_dataset: the first of f, f_1, f_2 ... that is not *)
(* there; the folders are made on the way.                                 *)
Place(dir, sub, file) ==
  LET path(k) == [dir |-> dir, sub |-> sub, file |-> file, copy |-> k]
  IN  path(Min({k \in 0 .. Cardinality(disk) : path(k) \notin disk}))

(* _allocate_dataset_dir: <id>_<name>, made if it is not there.            *)
DirOf(id, name) == <<id, name>>

(* A call begins: the dataset rows it reads are those committed now.  If   *)
(* the other thread is at work on the same dataset the two overlap.        *)
Overlap(t, d) == {d} \intersect {sess[o].ds : o \in {x \in Threads \ {t} : Open(x)}}
Begin(t, s) ==
  /\ ~Open(t)
  /\ sess' = [sess EXCEPT ![t] = s]
  /\ raced' = raced \union Overlap(t, s.ds)
  /\ IF t = "ui"
     THEN used.ops < MaxOps /\ used' = [used EXCEPT !.ops = @ + 1]
     ELSE used.runs < MaxRuns /\ used' = [used EXCEPT !.runs = @ + 1]

(* The session that has flushed rows owns SQLite's write lock.             *)
Flushed(t) == Open(t) /\ (sess[t].rows # <<>> \/ sess[t].news # <<>>)
MayWrite(t) == \A o \in Threads \ {t} : ~Flushed(o)

Session(op, d, dir, todo) ==
  [op |-> op, ds |-> d, dir |-> dir, todo |-> todo, rows |-> <<>>, news |-> <<>>,
   note |-> 0, count |-> 0, then |-> ""]

Row(d, path, status, from) == [ds |-> d, path |-> path, status |-> status, from |-> from]
NewDataset(name, status) ==
  [name |-> name, status |-> status, dir |-> DirOf(Len(datasets) + 1, name), total |-> 0]

-----------------------------------------------------------------------------
(* create_dataset flushes the row to have its id and then makes the        *)
(* folder.  Nothing tests whether the name is taken.                       *)
StartDataset(t, op, name, status, todo, then) ==
  LET row == NewDataset(name, status)
  IN  /\ Len(datasets) < MaxDatasets /\ MayWrite(t)
      /\ Begin(t, [Session(op, Len(datasets) + 1, row.dir, todo) EXCEPT
                     !.news = <<row>>, !.then = then])
      /\ folders' = folders \union {row.dir}
      /\ UNCHANGED <<dbVars, disk, hurt>>

CreateDataset(name) == StartDataset("ui", "create", name, "created", <<>>, "")

(* import_dataset_bundle, _import_from_manifest, import_sonar_oltr_project:*)
(* the dataset and its samples in one transaction.                         *)
ImportBundle(name, files) ==
  files # <<>> /\ StartDataset("ui", "bundle", name, "imported", files, "")

(* import_folder_with_stage: the dataset is created in one transaction,    *)
(* given its stage in a second one and filled in a third one.              *)
ImportFolderWithStage(name) == StartDataset("ui", "create", name, "created", <<>>, "stage")

SetStage ==
  /\ sess["ui"].op = "stage" /\ MayWrite("ui")
  /\ datasets' = [datasets EXCEPT ![sess["ui"].ds].status = "test"]
  /\ \E f \in Files :
       sess' = [sess EXCEPT !["ui"] =
         Session("import", sess["ui"].ds, datasets[sess["ui"].ds].dir, <<f>>)]
  /\ UNCHANGED <<samples, notes, disk, folders, hurt, raced, used>>

(* import_files and import_folder into a dataset that is not deleted; a    *)
(* folder is walked, and its manifest left out, before the session opens.  *)
Import(d, files) ==
  /\ ~Deleted(d)
  /\ Begin("ui", Session("import", d, datasets[d].dir, files))
  /\ UNCHANGED <<dbVars, disk, folders, hurt>>

ImportFiles(d) == \E f \in Files : Import(d, <<f>>)
ImportFolder(d) == Import(d, SetToSeq(Files))

(* _persist_generation_outputs reads the row of the target dataset by its  *)
(* id alone: a deleted one will do.                                        *)
PersistOutputs(d, files) ==
  /\ datasets[d].status # "imported"
  /\ Begin("worker", Session("persist", d, datasets[d].dir, files))
  /\ UNCHANGED <<dbVars, disk, folders, hurt>>

-----------------------------------------------------------------------------
(* One round of the loops that copy a file and add its row.  The path of   *)
(* the copy is built from the dataset row read when the call began.        *)
SubOf(op) == CASE op \in {"import", "bundle"} -> "raw"
               [] op = "persist" -> "generated"
               [] op = "store" -> "cleaned"
StatusOf(op) == CASE op \in {"import", "bundle"} -> "raw"
                  [] op = "persist" -> "generated"
                  [] op = "store" -> "cleaned"

(* Mutant of Copied: the row is added and the copy forgotten.              *)
RowOnly(t, file, from) ==
  LET s == sess[t]
      path == Place(s.dir, SubOf(s.op), file)
  IN  /\ UNCHANGED <<disk, folders>>
      /\ sess' = [sess EXCEPT ![t].todo = Tail(@),
                              ![t].rows = Append(@, Row(s.ds, path, StatusOf(s.op), from))]

Copied(t, file, from) ==
  LET s == sess[t]
      path == Place(s.dir, SubOf(s.op), file)
  IN  /\ disk' = disk \union {path}
      /\ folders' = folders \union {s.dir}
      /\ sess' = [sess EXCEPT ![t].todo = Tail(@),
                              ![t].rows = Append(@, Row(s.ds, path, StatusOf(s.op), from))]

(* A file that is gone is counted as failed and passed over.               *)
Skip(t) ==
  /\ sess' = [sess EXCEPT ![t].todo = Tail(@)]
  /\ UNCHANGED <<disk, folders>>

CopyItem(t) ==
  /\ sess[t].op \in {"import", "bundle", "persist"}
  /\ sess[t].todo # <<>>
  /\ MayWrite(t) /\ Len(samples) + Len(sess[t].rows) < MaxSamples
  /\ \/ Copied(t, Head(sess[t].todo), 0)
     \/ sess[t].op = "import" /\ Skip(t)
  /\ UNCHANGED <<dbVars, hurt, raced, used>>

-----------------------------------------------------------------------------
(* update_dataset: a name another dataset has is refused, the folder is    *)
(* moved (or made anew when it is not there), and the paths of the samples *)
(* the session has read get the new prefix.  A deleted dataset has no      *)
(* folder and is only renamed.                                             *)
NameTaken(d, name) ==
  \E o \in Ids(datasets) \ {d} : datasets[o].name = name /\ ~Deleted(o)

Moved(path, old, new) == IF path.dir = old THEN [path EXCEPT !.dir = new] ELSE path

UpdateDataset(d, name) ==
  LET old == datasets[d].dir
      new == IF old = NoDir THEN NoDir ELSE DirOf(d, name)
      exists == old \in folders
  IN  /\ ~NameTaken(d, name)
      /\ ~(exists /\ old # new /\ new \in folders)
      /\ Begin("ui", [Session("rename", d, new, <<>>) EXCEPT !.then = name,
                        !.count = {s \in Ids(samples) : samples[s].ds = d}])
      /\ IF old = new
         THEN UNCHANGED <<disk, folders>>
         ELSE /\ disk' = {Moved(p, old, new) : p \in disk}
              /\ folders' = (folders \ {old}) \union {new}
      /\ UNCHANGED <<dbVars, hurt>>

(* delete_dataset and purge_dataset_files remove the folder and then       *)
(* commit the row.  The rows of the samples stay.                          *)
RemoveFolder(op, d) ==
  LET dir == datasets[d].dir
  IN  /\ Begin("ui", Session(op, d, NoDir, <<>>))
      /\ disk' = {p \in disk : dir = NoDir \/ p.dir # dir}
      /\ folders' = folders \ {dir}
      /\ UNCHANGED <<dbVars, hurt>>

DeleteDataset(d) == ~Deleted(d) /\ RemoveFolder("delete", d)
PurgeDatasetFiles(d) == Deleted(d) /\ RemoveFolder("purge", d)

-----------------------------------------------------------------------------
(* A completed cleaning task leaves suggestions, pending.                  *)
Note(sample, action) == [sample |-> sample, action |-> action, status |-> "pending", out |-> 0]

Suggest(s, action) ==
  /\ Len(notes) < MaxNotes /\ MayWrite("worker")
  /\ ~Deleted(samples[s].ds) /\ samples[s].status # "deleted"
  /\ notes' = Append(notes, Note(s, action))
  /\ UNCHANGED <<datasets, samples, disk, folders, sess, hurt, raced, used>>

(* Mutant of MayBecome: an applied suggestion can be applied again.        *)
MayBecomeAny(n, status) == notes[n].status # "rejected"

(* _validate_suggestion_transition.                                        *)
MayBecome(n, status) ==
  IF status = "approved" THEN notes[n].status = "pending"
                         ELSE notes[n].status \in {"pending", "approved"}

Decide(n, status) ==
  /\ status \in {"approved", "rejected"} /\ MayBecome(n, status)
  /\ ~Open("ui") /\ MayWrite("ui")
  /\ used.ops < MaxOps /\ used' = [used EXCEPT !.ops = @ + 1]
  /\ notes' = [notes EXCEPT ![n].status = status]
  /\ UNCHANGED <<datasets, samples, disk, folders, sess, hurt, raced>>

(* _apply_suggestion for delete: the file at the sample's path is removed, *)
(* whoever it belongs to by now.  The counts are read while the sample's   *)
(* new status waits to be flushed (autoflush is off): it is still counted. *)
Owners(path) == {s \in Ids(samples) : samples[s].path = path /\ samples[s].status # "deleted"}

ApplyDelete(n) ==
  LET s == notes[n].sample
      d == samples[s].ds
  IN  /\ notes[n].action = "delete" /\ MayBecome(n, "applied") /\ ~Deleted(d)
      /\ Begin("ui", [Session("drop", d, datasets[d].dir, <<>>) EXCEPT
                        !.note = n, !.count = Cardinality(Live(d))])
      /\ disk' = disk \ {samples[s].path}
      /\ hurt' = hurt \union {samples[o].ds : o \in Owners(samples[s].path) \ {s}}
      /\ UNCHANGED <<dbVars, folders>>

(* _apply_suggestion for repair: the plugin's file is copied into cleaned  *)
(* and becomes a sample of its own.  A deleted sample is not repaired.     *)
ApplyRepair(n) ==
  LET s == notes[n].sample
      d == samples[s].ds
      path == Place(datasets[d].dir, "cleaned", samples[s].path.file)
  IN  /\ notes[n].action = "repair" /\ MayBecome(n, "applied") /\ ~Deleted(d)
      /\ samples[s].status # "deleted"
      /\ MayWrite("ui") /\ Len(samples) < MaxSamples
      /\ Begin("ui", [Session("repair", d, datasets[d].dir, <<>>) EXCEPT
                        !.note = n, !.rows = <<Row(d, path, "cleaned", s)>>])
      /\ disk' = disk \union {path}
      /\ folders' = folders \union {datasets[d].dir}
      /\ UNCHANGED <<dbVars, hurt>>

-----------------------------------------------------------------------------
(* store_cleaned_dataset: a new dataset of copies of the samples of d that *)
(* no suggestion deletes, each from its repaired file if there is one.     *)
Kept == {n \in Ids(notes) : notes[n].status # "rejected"}
Outputs == {notes[n].out : n \in Kept}
(* Mutant of Skipped: a suggestion counts once the user has approved it.   *)
SkippedApplied(s) == \E n \in Kept : notes[n].sample = s /\ notes[n].action = "delete"
                                       /\ notes[n].status = "applied"

Skipped(s) == \E n \in Kept : notes[n].sample = s /\ notes[n].action = "delete"

(* The copy is made from the repair that has been applied, from the file   *)
(* the plugin has left for one that has not, or from the sample itself.    *)
Artifact == [dir |-> NoDir, sub |-> "task", file |-> "artifact", copy |-> 0]
StoredSource(s) ==
  LET repairs == {n \in Kept : notes[n].sample = s /\ notes[n].action = "repair"}
      first == notes[Min(repairs)]
  IN  CASE repairs = {} -> samples[s].path
        [] repairs # {} /\ first.out # 0 -> samples[first.out].path
        [] OTHER -> Artifact

StoreCleaned(d, name) ==
  /\ ~Deleted(d)
  /\ StartDataset("ui", "store", name, "cleaned",
                  SetToSortSeq(Live(d) \ Outputs, <), "")

StoreItem ==
  LET s == Head(sess["ui"].todo)
      file == StoredSource(s)
  IN  /\ sess["ui"].op = "store" /\ sess["ui"].todo # <<>>
      /\ MayWrite("ui") /\ Len(samples) + Len(sess["ui"].rows) < MaxSamples
      /\ \/ file \notin disk /\ Skip("ui")
         \/ Skipped(s) /\ Skip("ui")
         \/ ~Skipped(s) /\ file \in disk \union {Artifact} /\ Copied("ui", samples[s].path.file, s)
      /\ UNCHANGED <<dbVars, hurt, raced, used>>

-----------------------------------------------------------------------------
(* The commit writes everything the session has changed.  Rows that were   *)
(* added have been flushed, so the counts include them.                    *)
End(t) ==
  IF sess[t].op = "create" /\ sess[t].then = "stage"
  THEN sess' = [sess EXCEPT ![t] = [Session("stage", sess[t].ds, NoDir, <<>>) EXCEPT !.news = <<>>]]
  ELSE sess' = [sess EXCEPT ![t] = Idle]

(* Mutant of Counted: the counts are those of before the call.             *)
CountedBefore(d, rows) == Cardinality(Live(d))
Counted(d, rows) == Cardinality(Live(d)) + Len(rows)

CommitRows(t) ==
  LET s == sess[t]
      all == datasets \o s.news
  IN  /\ s.op \in {"create", "import", "bundle", "persist", "store", "repair"}
      /\ s.todo = <<>>
      /\ samples' = samples \o s.rows
      /\ datasets' = [all EXCEPT ![s.ds].total =
                        IF s.op = "create" THEN @ ELSE Counted(s.ds, s.rows)]
      /\ notes' = IF s.op = "repair"
                  THEN [notes EXCEPT ![s.note].status = "applied", ![s.note].out = Len(samples) + 1]
                  ELSE notes
      /\ UNCHANGED hurt

(* Mutant of CommitRename: the samples keep their paths.                   *)
CommitRenameRow(t) ==
  /\ sess[t].op = "rename"
  /\ datasets' = [datasets EXCEPT ![sess[t].ds].name = sess[t].then, ![sess[t].ds].dir = sess[t].dir]
  /\ UNCHANGED <<samples, notes, hurt>>
(* What the session had read is what it rewrites: a row another thread     *)
(* has added since keeps its old path.                                     *)
CommitRename(t) ==
  LET s == sess[t]
      old == datasets[s.ds].dir
  IN  /\ s.op = "rename"
      /\ samples' = [i \in Ids(samples) |->
           IF i \in s.count THEN [samples[i] EXCEPT !.path = Moved(@, old, s.dir)] ELSE samples[i]]
      /\ datasets' = [datasets EXCEPT ![s.ds].name = s.then, ![s.ds].dir = s.dir]
      /\ UNCHANGED <<notes, hurt>>

CommitDelete(t) ==
  /\ sess[t].op \in {"delete", "purge"}
  /\ datasets' = [datasets EXCEPT ![sess[t].ds].status = "deleted", ![sess[t].ds].dir = NoDir]
  /\ UNCHANGED <<samples, notes, hurt>>

CommitDrop(t) ==
  /\ sess[t].op = "drop"
  /\ samples' = [samples EXCEPT ![notes[sess[t].note].sample].status = "deleted"]
  /\ notes' = [notes EXCEPT ![sess[t].note].status = "applied"]
  /\ datasets' = [datasets EXCEPT ![sess[t].ds].total = sess[t].count]
  /\ UNCHANGED hurt

Commit(t) ==
  /\ Open(t) /\ MayWrite(t)
  /\ CommitRows(t) \/ CommitRename(t) \/ CommitDelete(t) \/ CommitDrop(t)
  /\ End(t)
  /\ UNCHANGED <<disk, folders, raced, used>>

(* A step raises, the wait for the write lock runs out, or the process     *)
(* dies: the rows are as before the call, the files are not.               *)
Removes == {"rename", "delete", "purge", "drop"}
LeftBehind(ts) == {sess[t].ds : t \in {x \in ts : Open(x) /\ sess[x].op \in Removes}}

Abort(ts) ==
  /\ used.faults < MaxFaults /\ used' = [used EXCEPT !.faults = @ + 1]
  /\ \E t \in ts : Open(t)
  /\ sess' = [t \in Threads |-> IF t \in ts THEN Idle ELSE sess[t]]
  /\ hurt' = hurt \union LeftBehind(ts)
  /\ UNCHANGED <<dbVars, disk, folders, raced>>

Raise(t) == Abort({t})
Crash == Abort(Threads)

(* The queries and the checks that refuse a call change nothing.           *)
Next ==
  \/ \E name \in Names : CreateDataset(name) \/ ImportFolderWithStage(name)
  \/ \E name \in Names, f \in Files : ImportBundle(name, <<f, f>>)
  \/ SetStage
  \/ \E d \in Ids(datasets) : ImportFiles(d) \/ ImportFolder(d)
  \/ \E d \in Ids(datasets), f \in Files : PersistOutputs(d, <<f, f>>)
  \/ \E t \in Threads : CopyItem(t) \/ Commit(t) \/ Raise(t)
  \/ \E d \in Ids(datasets), name \in Names : UpdateDataset(d, name) \/ StoreCleaned(d, name)
  \/ \E d \in Ids(datasets) : DeleteDataset(d) \/ PurgeDatasetFiles(d)
  \/ \E s \in Ids(samples), a \in {"delete", "repair"} : Suggest(s, a)
  \/ \E n \in Ids(notes), st \in {"approved", "rejected"} : Decide(n, st)
  \/ \E n \in Ids(notes) : ApplyDelete(n) \/ ApplyRepair(n)
  \/ StoreItem
  \/ Crash

Spec == Init /\ [][Next]_vars

-----------------------------------------------------------------------------
(* The rows are of their types and name rows that exist.                   *)
TypeOK ==
  /\ \A d \in Ids(datasets) :
       /\ datasets[d].status \in {"created", "test", "imported", "cleaned", "generated", "deleted"}
       /\ datasets[d].dir \in {NoDir} \union {DirOf(d, n) : n \in Names}
       /\ (datasets[d].dir = NoDir) <=> Deleted(d)
  /\ \A s \in Ids(samples) :
       samples[s].ds \in Ids(datasets) /\ samples[s].from \in 0 .. Len(samples)
  /\ \A n \in Ids(notes) :
       notes[n].sample \in Ids(samples) /\ notes[n].out \in 0 .. Len(samples)

(* The files of a dataset follow its rows: while no call is open on it,    *)
(* every sample of an active dataset has its file, in the folder of the    *)
(* dataset, and no two samples have the same one.  Import, bundle, store,  *)
(* repair and the outputs of a generation keep this when they fail half    *)
(* way.  It is lost in four ways only, and each names the dataset: a       *)
(* rename, a deletion or a deletion of a sample that does not commit       *)
(* (hurt), a second delete suggestion for a sample whose name has been     *)
(* given to a new file since (hurt), and two threads at work on the same   *)
(* dataset (raced).                                                        *)
Busy == {sess[t].ds : t \in {x \in Threads : Open(x)}}
Whole(d) ==
  /\ \A s \in Live(d) : samples[s].path \in disk /\ samples[s].path.dir = datasets[d].dir
  /\ \A s, o \in Live(d) : s # o => samples[s].path # samples[o].path
FilesFollowRows ==
  \A d \in Ids(datasets) \ (hurt \union raced \union Busy) : ~Deleted(d) => Whole(d)

(* The count the user is shown: exact, or one more than there are samples  *)
(* when the last call was the one that deleted a sample.                   *)
CountIsLiveOrOneMore ==
  \A d \in Ids(datasets) \ raced :
    ~Deleted(d) => datasets[d].total - Cardinality(Live(d)) \in {0, 1}

(* A suggestion is carried out once: applied and rejected are final, and   *)
(* an applied one has had its effect, whatever came after it: the sample   *)
(* is deleted, or its repair is a sample of the same dataset.  What is     *)
(* stored from a cleaning has no sample it deletes.                        *)
Carried(n) ==
  IF notes[n].action = "delete"
  THEN samples[notes[n].sample].status = "deleted"
  ELSE notes[n].out # 0 /\ samples[notes[n].out].from = notes[n].sample
SuggestionsSettle ==
  [][/\ \A n \in Ids(notes) :
          notes[n].status \in {"applied", "rejected"} => notes'[n] = notes[n]
     /\ \A n \in Ids(notes)' : notes'[n].status = "applied" => Carried(n)'
     /\ \A s \in Ids(samples)' \ Ids(samples) :
          LET from == samples'[s].from
          IN  from \in Ids(samples) /\ samples'[s].ds # samples[from].ds =>
                \A n \in Ids(notes) : notes[n].sample = from /\ notes[n].action = "delete" =>
                                        notes[n].status = "rejected"]_vars
=============================================================================
