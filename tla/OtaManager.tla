------------------------------- MODULE OtaManager -------------------------------
(***************************************************************************)
(* edge/src/comm/ota_manager.cpp: installing and rolling back the model or *)
(* the application of a device, with the gRPC handlers that call it        *)
(* (edge/src/comm/grpc_server.cpp).                                        *)
(*                                                                         *)
(* Files are what they contain: a package, Damaged (a partial copy, or     *)
(* bytes that were corrupted on the way) or None.  A version label is the  *)
(* name of the package it is meant for.  One target is modelled at a time. *)
(* install and rollback hold _mutex; a pushed package is written to a      *)
(* temporary path before the mutex is taken.                               *)
(***************************************************************************)
EXTENDS Integers, FiniteSets

CONSTANTS
  Clients,        \* threads that execute remote requests
  Packages,
  Factory,        \* the package installed with the device
  Odd,            \* models with another input size than the rest
  Circumstances,  \* the values of given
  MaxInstalls, MaxRollbacks, MaxCrashes    \* bounds

None == "none"
Damaged == "damaged"
Unknown == "unknown"       \* the label a device starts with
NoVersion == ""
Shared == "shared"

(* What may happen to a device:                                            *)
(*   target     what is updated                                            *)
(*   clients    the threads that take part                                 *)
(*   shared     they write a pushed package to one path: application       *)
(*              updates, and models of one name                            *)
(*   corrupt    a package may be corrupted on its way                      *)
(*   checks     whether requests carry a SHA256                            *)
(*   autos      the values of auto_rollback                                *)
(*   readOnly   the directory of the target is not writable                *)
(*   faults     a copy may fail (disk full)                                *)
(*   rollsBack  users roll back                                            *)
(*   dies       the process may die                                        *)
Circumstance == [target : {"model", "app"}, clients : SUBSET Clients, shared : BOOLEAN,
  corrupt : BOOLEAN, checks : SUBSET BOOLEAN, autos : SUBSET BOOLEAN,
  readOnly : BOOLEAN, faults : BOOLEAN, rollsBack : BOOLEAN, dies : BOOLEAN]

ASSUME OtaAssumption ==
  /\ Circumstances \subseteq Circumstance
  /\ Factory \in Packages /\ Odd \subseteq Packages
  /\ {None, Damaged, Unknown, NoVersion} \cap Packages = {}
  /\ {None, Shared} \cap Clients = {}
  /\ {MaxInstalls, MaxRollbacks, MaxCrashes} \subseteq Nat

Contents == Packages \union {Damaged}
Labels == Packages \union {Unknown, NoVersion}

VARIABLES
  given,          \* the circumstances: they never change
  file, backup,   \* the installed file, its .__previous__
  saved,          \* .ota_status: <<current, previous>>, or <<>> if empty
  tmp,            \* the paths pushed packages are written to
  staged,         \* <file>.__tmp__
  loaded,         \* what the engine has loaded, or the process executes
  cur, prev,      \* _current_..._version, _previous_..._version
  up,             \* the process runs
  holder,         \* owner of _mutex
  pc, req,        \* per client: where it is, what it was asked
  status,         \* per client: OtaResult.status of the last request
  before,         \* what was installed when the mutex was taken
  installs, rollbacks, crashes

disk == <<file, backup, saved>>
labels == <<cur, prev>>
bounds == <<installs, rollbacks, crashes>>
vars == <<given, disk, tmp, staged, loaded, labels, up, holder, pc, req, status, before, bounds>>

Tmp(c) == IF given.shared THEN Shared ELSE c

NoRequest == [op |-> "none", version |-> Factory, content |-> Factory,
              checked |-> FALSE, auto |-> FALSE]
Pushes == {r \in [op : {"install"}, version : Packages, content : Contents,
                  checked : given.checks, auto : given.autos] :
             r.content = r.version \/ (given.corrupt /\ r.content = Damaged)}
RollbackRequest == [NoRequest EXCEPT !.op = "rollback"]

Installed == [file |-> file, loaded |-> loaded, labels |-> labels]

Init ==
  /\ given \in Circumstances
  /\ file = Factory /\ backup = None /\ saved = <<Unknown, NoVersion>>
  /\ tmp = [p \in Clients \union {Shared} |-> None] /\ staged = None
  /\ loaded = Factory
  /\ cur = Unknown /\ prev = NoVersion
  /\ up = TRUE /\ holder = None
  /\ pc = [c \in Clients |-> "idle"]
  /\ req = [c \in Clients |-> NoRequest]
  /\ status = [c \in Clients |-> 0]
  /\ before = Installed
  /\ installs = 0 /\ rollbacks = 0 /\ crashes = 0

At(c, l) == up /\ pc[c] = l
Goto(c, l) == pc' = [pc EXCEPT ![c] = l]

-----------------------------------------------------------------------------
(* A push: install_model_from_data or receive_app_update opens, and so     *)
(* empties, the temporary file, then writes it.  No lock is held.          *)
Push(c) ==
  /\ At(c, "idle") /\ c \in given.clients
  /\ installs < MaxInstalls
  /\ \E r \in Pushes : req' = [req EXCEPT ![c] = r]
  /\ tmp' = [tmp EXCEPT ![Tmp(c)] = Damaged]
  /\ installs' = installs + 1
  /\ Goto(c, "writing")
  /\ UNCHANGED <<disk, staged, loaded, labels, up, holder, status, before, rollbacks, crashes>>

Write(c) ==
  /\ At(c, "writing")
  /\ tmp' = [tmp EXCEPT ![Tmp(c)] = req[c].content]
  /\ Goto(c, "waiting")
  /\ UNCHANGED <<disk, staged, loaded, labels, up, holder, req, status, before, bounds>>

AskRollback(c) ==
  /\ At(c, "idle") /\ c \in given.clients
  /\ given.rollsBack /\ rollbacks < MaxRollbacks
  /\ req' = [req EXCEPT ![c] = RollbackRequest]
  /\ rollbacks' = rollbacks + 1
  /\ Goto(c, "waiting")
  /\ UNCHANGED <<disk, tmp, staged, loaded, labels, up, holder, status, before, installs, crashes>>

\* Mutant of Lock: the mutex is not taken.
LockNothing(c) ==
  /\ At(c, "waiting")
  /\ before' = Installed
  /\ Goto(c, IF req[c].op = "install" THEN "verifying" ELSE "checking")
  /\ UNCHANGED <<disk, tmp, staged, loaded, labels, up, holder, req, status, bounds>>

Lock(c) ==
  /\ At(c, "waiting")
  /\ holder = None
  /\ holder' = c
  /\ before' = Installed
  /\ Goto(c, IF req[c].op = "install" THEN "verifying" ELSE "checking")
  /\ UNCHANGED <<disk, tmp, staged, loaded, labels, up, req, status, bounds>>

\* Mutant of Return: a failure returns without unlocking.
ReturnLocked(c, s) ==
  /\ status' = [status EXCEPT ![c] = s]
  /\ holder' = IF s = -1 THEN holder ELSE None
  /\ Goto(c, "cleaning")

(* Every return gives the result and releases _mutex.                      *)
Return(c, s) ==
  /\ status' = [status EXCEPT ![c] = s]
  /\ holder' = None
  /\ Goto(c, "cleaning")
Stay(c, l) == Goto(c, l) /\ UNCHANGED <<status, holder>>

(* install_model_from_data unlinks the temporary file after the mutex has  *)
(* been released; receive_app_update leaves it.                            *)
Clean(c) ==
  /\ At(c, "cleaning")
  /\ tmp' = IF given.target = "model" /\ req[c].op # "rollback"
            THEN [tmp EXCEPT ![Tmp(c)] = None] ELSE tmp
  /\ req' = [req EXCEPT ![c] = NoRequest]
  /\ Goto(c, "idle")
  /\ UNCHANGED <<disk, staged, loaded, labels, up, holder, status, before, bounds>>

-----------------------------------------------------------------------------
\* Mutant of Verify: the checksum is computed but not compared.
VerifyNothing(c) ==
  /\ At(c, "verifying")
  /\ Stay(c, "backing")
  /\ UNCHANGED <<disk, tmp, staged, loaded, labels, up, req, before, bounds>>

(* 1. The checksum is that of the package the version names.               *)
Verify(c) ==
  /\ At(c, "verifying")
  /\ IF req[c].checked /\ tmp[Tmp(c)] # req[c].version
     THEN Return(c, -1) ELSE Stay(c, "backing")
  /\ UNCHANGED <<disk, tmp, staged, loaded, labels, up, req, before, bounds>>

(* 2. The backup directory cannot be made, or the backup is opened.        *)
OpenBackup(c) ==
  /\ At(c, "backing")
  /\ IF given.readOnly
     THEN Return(c, -1) /\ UNCHANGED backup
     ELSE Stay(c, "copying") /\ backup' = Damaged
  /\ UNCHANGED <<file, saved, tmp, staged, loaded, labels, up, req, before, bounds>>

(* The copy succeeds; or fails and is removed; or the last block is lost   *)
(* in the flush, which happens after the stream was tested.                *)
Backup(c) ==
  /\ At(c, "copying")
  /\ \/ backup' = file /\ Stay(c, "staging")
     \/ given.faults /\ backup' = None /\ Return(c, -1)
     \/ given.faults /\ backup' = Damaged /\ Stay(c, "staging")
  /\ UNCHANGED <<file, saved, tmp, staged, loaded, labels, up, req, before, bounds>>

Source(c) == IF req[c].op = "install" THEN tmp[Tmp(c)] ELSE backup

\* Mutant of Stage: the copy goes straight to the installed file.
StageInPlace(c) ==
  /\ At(c, "staging")
  /\ Source(c) # None
  /\ file' = Damaged /\ staged' = Source(c) /\ Stay(c, "renaming")
  /\ UNCHANGED <<backup, saved, tmp, loaded, labels, up, req, before, bounds>>

(* atomic_replace: the source, if it is there, is copied to <file>.__tmp__ *)
(* A failure ends an installation, a rollback, and an automatic rollback   *)
(* too: its result is ignored and the file that is left does not load.     *)
Stage(c) ==
  /\ At(c, "staging")
  /\ \/ Source(c) # None /\ staged' = Source(c) /\ Stay(c, "renaming")
     \/ (Source(c) = None \/ given.faults) /\ Return(c, -1) /\ UNCHANGED staged
  /\ UNCHANGED <<disk, tmp, loaded, labels, up, req, before, bounds>>

Rename(c) ==
  /\ At(c, "renaming")
  /\ file' = staged
  /\ staged' = None
  /\ Stay(c, IF given.target = "model" THEN "loading" ELSE "saving")
  /\ UNCHANGED <<backup, saved, tmp, loaded, labels, up, req, before, bounds>>

(* hot_reload_model: the file must load, with the input size of the model  *)
(* that is running.                                                        *)
HotReloads == file # Damaged /\ (file \in Odd <=> loaded \in Odd)

\* Mutant of Reload: a failed installation is not undone.
ReloadNoUndo(c) ==
  /\ At(c, "loading")
  /\ loaded' = IF HotReloads THEN file ELSE loaded
  /\ UNCHANGED req
  /\ IF (req[c].op = "install" /\ HotReloads) \/ req[c].op = "rollback"
     THEN Stay(c, "saving") ELSE Return(c, -1)
  /\ UNCHANGED <<disk, tmp, staged, labels, up, before, bounds>>

\* Mutant of Reload: the result of the hot reload is ignored.
ReloadIgnored(c) ==
  /\ At(c, "loading")
  /\ loaded' = IF HotReloads THEN file ELSE loaded
  /\ Stay(c, "saving")
  /\ UNCHANGED <<disk, tmp, staged, labels, up, req, before, bounds>>

(* 4, 5. A model that does not load is undone if auto_rollback says so and *)
(* the backup is there.  A rollback does not look at the result.           *)
Reload(c) ==
  /\ At(c, "loading")
  /\ loaded' = IF HotReloads THEN file ELSE loaded
  /\ IF req[c].op = "install" /\ ~HotReloads /\ req[c].auto
     THEN req' = [req EXCEPT ![c].op = "undo"] /\ Stay(c, "staging")
     ELSE /\ UNCHANGED req
          /\ IF (req[c].op = "install" /\ HotReloads) \/ req[c].op = "rollback"
             THEN Stay(c, "saving") ELSE Return(c, -1)
  /\ UNCHANGED <<disk, tmp, staged, labels, up, before, bounds>>

(* 6. An installation shifts the labels, a rollback swaps them;            *)
(* save_ota_status opens, and so empties, .ota_status, then writes it.     *)
Relabel(c) ==
  /\ At(c, "saving")
  /\ prev' = cur
  /\ cur' = IF req[c].op = "install" THEN req[c].version ELSE prev
  /\ saved' = <<>>
  /\ Stay(c, "writing status")
  /\ UNCHANGED <<file, backup, tmp, staged, loaded, up, req, before, bounds>>

Save(c) ==
  /\ At(c, "writing status")
  /\ saved' = labels
  /\ Return(c, IF given.target = "app" /\ req[c].op = "install" THEN 2 ELSE 0)
  /\ UNCHANGED <<file, backup, tmp, staged, loaded, labels, up, req, before, bounds>>

(* rollback: there must be a previous version and a backup.                *)
CheckRollback(c) ==
  /\ At(c, "checking")
  /\ IF prev = NoVersion \/ backup = None
     THEN Return(c, -1) ELSE Stay(c, "staging")
  /\ UNCHANGED <<disk, tmp, staged, loaded, labels, up, req, before, bounds>>

-----------------------------------------------------------------------------
(* The process dies, or is stopped, between any two steps: what was in     *)
(* memory is lost.                                                         *)
Crash ==
  /\ up
  /\ given.dies /\ crashes < MaxCrashes
  /\ up' = FALSE
  /\ crashes' = crashes + 1
  /\ holder' = None
  /\ pc' = [c \in Clients |-> "idle"]
  /\ req' = [c \in Clients |-> NoRequest]
  /\ UNCHANGED <<disk, tmp, staged, loaded, labels, status, before, installs, rollbacks>>

(* load_ota_status: from an empty .ota_status the labels are empty.  A     *)
(* damaged file does not load (load_model), or does not execute.           *)
Restart ==
  /\ ~up
  /\ file # Damaged
  /\ up' = TRUE
  /\ loaded' = file
  /\ cur' = IF saved = <<>> THEN NoVersion ELSE saved[1]
  /\ prev' = IF saved = <<>> THEN NoVersion ELSE saved[2]
  /\ UNCHANGED <<disk, tmp, staged, holder, pc, req, status, before, bounds>>

Install(c) ==
  \/ Verify(c) \/ OpenBackup(c) \/ Backup(c) \/ Stage(c) \/ Rename(c)
  \/ Reload(c) \/ Relabel(c) \/ Save(c)
Ask(c) == Push(c) \/ AskRollback(c)
Serve(c) == Write(c) \/ Lock(c) \/ Install(c) \/ CheckRollback(c) \/ Clean(c)
Next ==
  /\ UNCHANGED given
  /\ Crash \/ Restart \/ \E c \in Clients : Ask(c) \/ Serve(c)

(* A thread that is serving a request goes on.                             *)
Spec ==
  /\ Init /\ [][Next]_vars
  /\ \A c \in Clients : WF_vars(Serve(c) /\ UNCHANGED given)

-----------------------------------------------------------------------------
Steps == {"verifying", "backing", "copying", "staging", "renaming", "loading",
          "saving", "writing status", "checking"}
Requests == Pushes \union {NoRequest, RollbackRequest}
            \union {[r EXCEPT !.op = "undo"] : r \in Pushes}

TypeOK ==
  /\ given \in Circumstances
  /\ {file, loaded} \subseteq Contents
  /\ {backup, staged} \subseteq Contents \union {None}
  /\ tmp \in [Clients \union {Shared} -> Contents \union {None}]
  /\ {cur, prev} \subseteq Labels
  /\ saved = <<>> \/ saved \in Labels \X Labels
  /\ up \in BOOLEAN /\ holder \in Clients \union {None}
  /\ pc \in [Clients -> Steps \union {"idle", "writing", "waiting", "cleaning"}]
  /\ req \in [Clients -> Requests]
  /\ status \in [Clients -> {0, -1, 2}]
  /\ before \in [file : Contents, loaded : Contents, labels : Labels \X Labels]
  /\ {installs, rollbacks, crashes} \subseteq Nat

TrueContent(label) == IF label = Unknown THEN Factory ELSE label
Quiet == up /\ holder = None
Running == IF given.target = "model" THEN loaded ELSE file

(* get_version_info tells the version that is installed: when no request   *)
(* is being executed, the current label names the running model, or the    *)
(* application file.                                                       *)
LabelTells == Quiet /\ cur # NoVersion => TrueContent(cur) = Running

(* The temporary file and the rename make replacing atomic: no crash       *)
(* leaves a partial file where the device loads it from.                   *)
FileWhole == file # Damaged

(* Nobody else writes to the path of a pushed package.                     *)
OwnPath == given.shared => \A c, d \in given.clients : c = d
(* A package that was corrupted on its way does not pass the check.        *)
Checked == given.corrupt => given.checks \subseteq {TRUE}

(* Without a rollback and without a crash, get_version_info always tells   *)
(* the model that runs, or the application that is installed, however many *)
(* copies, checks and hot reloads fail (ota_manager.cpp:224-315); and      *)
(* wherever the process dies while checked packages are pushed, it finds a *)
(* whole file when it starts again (atomic_replace, ota_manager.cpp:116).  *)
InstalledIsTold ==
  OwnPath /\ rollbacks = 0 =>
    /\ crashes = 0 /\ (given.target = "model" \/ Checked) => LabelTells
    /\ Checked /\ ~given.faults => FileWhole

(* What the gRPC response says: PushModel, PushAppUpdate and Rollback all  *)
(* test ret == 0.                                                          *)
SaysFailed(s) == s # 0
Answers(c) == pc[c] \notin {"cleaning", "idle"} /\ pc'[c] = "cleaning"

(* A request that is answered "failed" has changed nothing: the file, the  *)
(* running model and the labels are those it found.                        *)
FailureUndone(c) ==
  Answers(c) /\ SaysFailed(status'[c]) => Installed' = before
FailureChangesNothing == [][\A c \in Clients : FailureUndone(c)]_vars

(* A package that arrives whole and that the device can run - a model with *)
(* the input size of the running one - is installed, whatever other        *)
(* clients push meanwhile.                                                 *)
Good(r) ==
  /\ r.op = "install"
  /\ r.content = r.version
  /\ given.target = "model" => (r.version \in Odd <=> before.loaded \in Odd)
GoodPushDone(c) ==
  Answers(c) /\ Good(req[c]) => status'[c] # -1 /\ file' = req[c].version
GoodPushInstalls == [][\A c \in Clients : GoodPushDone(c)]_vars

(* When no copy fails, a push or a rollback of a model that is answered    *)
(* "failed" has changed nothing (ota_manager.cpp:280-300), and two clients *)
(* that push at the same time do not spoil each other's good packages,     *)
(* which a restart in between does not either.                             *)
AnswersAreTrue ==
  [][\A c \in Clients : ~given.faults =>
       /\ given.target = "model" /\ given.autos \subseteq {TRUE} => FailureUndone(c)
       /\ OwnPath /\ ~given.readOnly => GoodPushDone(c)]_vars

(* Every request is answered.                                              *)
RequestsAnswered == \A c \in Clients : pc[c] # "idle" ~> pc[c] = "idle"
=============================================================================
