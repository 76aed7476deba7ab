---------------------------- MODULE OtaManagerProofs -----------------------------
(***************************************************************************)
(* Proofs about OtaManager.                                                *)
(***************************************************************************)
EXTENDS OtaManager, TLAPS

(* _mutex has an owner exactly while someone is between Lock and Return,   *)
(* and only then.                                                          *)
MutexInv ==
  /\ \A c \in Clients : pc[c] \in Steps => holder = c
  /\ holder # None => pc[holder] \in Steps
  /\ ~up => holder = None /\ \A c \in Clients : pc[c] = "idle"
  /\ crashes = 0 => up
  /\ \A c \in Clients : pc[c] # "idle" => c \in given.clients

(* What is asked fits the place in the code.                               *)
RequestFits(c) ==
  /\ pc[c] = "idle" => req[c] = NoRequest
  /\ pc[c] \in {"writing", "verifying", "backing", "copying"} => req[c].op = "install"
  /\ pc[c] = "checking" => req[c].op = "rollback"
  /\ pc[c] = "waiting" => req[c].op \in {"install", "rollback"}
  /\ pc[c] \in {"staging", "renaming", "loading"} =>
       req[c].op \in {"install", "undo", "rollback"}
  /\ pc[c] \in {"saving", "writing status"} => req[c].op \in {"install", "rollback"}
  /\ pc[c] = "loading" \/ req[c].op = "undo" => given.target = "model"
  /\ rollbacks = 0 => req[c].op # "rollback"

(* A pushed package stays on its path until it has been used, and passes   *)
(* the check only when it is whole.                                        *)
PackageKept(c) ==
  /\ OwnPath /\ pc[c] \in {"waiting"} \union Steps /\ req[c].op = "install" =>
       tmp[Tmp(c)] = req[c].content
  /\ OwnPath /\ Checked /\ pc[c] \in Steps \ {"verifying"} /\ req[c].op = "install" =>
       req[c].content = req[c].version

(* A copy of the file that was installed before.                           *)
CopyOfOld(x) == x = before.file \/ (given.faults /\ x = Damaged)
(* A file that does not change what runs when it is loaded.                *)
Harmless(new, old) == new = old \/ new = Damaged \/ ~(new \in Odd <=> old \in Odd)

(* What c has not replaced yet, or has put back.                           *)
OldKept(c) ==
  /\ pc[c] \in Steps \ {"saving", "writing status"} => loaded = before.loaded
  /\ pc[c] \in Steps \ {"writing status"} => labels = before.labels
  /\ \/ pc[c] \in {"verifying", "backing", "copying", "checking"}
     \/ pc[c] \in {"staging", "renaming"} /\ req[c].op # "undo"
     => file = before.file
  /\ pc[c] \in {"staging", "renaming", "loading"} /\ req[c].op # "rollback" =>
       CopyOfOld(backup)
  /\ pc[c] = "renaming" /\ req[c].op = "undo" => CopyOfOld(staged)
  /\ pc[c] = "loading" /\ req[c].op = "undo" => CopyOfOld(file)

(* What c has put in its place.                                            *)
NewPlaced(c) ==
  /\ pc[c] = "staging" /\ req[c].op = "rollback" => backup # None
  /\ pc[c] = "renaming" => staged # None
  /\ OwnPath /\ req[c].op = "install" =>
       /\ pc[c] = "renaming" => staged = req[c].content
       /\ pc[c] \in {"loading", "saving", "writing status"} => file = req[c].content
       /\ pc[c] \in {"saving", "writing status"} /\ given.target = "model" =>
            loaded = req[c].version /\ req[c].content = req[c].version

(* What a file does not change when it is loaded again.                    *)
HarmlessInv ==
  given.target = "model" =>
    /\ Quiet => Harmless(file, loaded)
    /\ \A c \in Clients : pc[c] \in Steps => Harmless(before.file, before.loaded)
    /\ \A c \in Clients :
         \/ pc[c] \in {"staging", "renaming"} /\ req[c].op = "undo"
         \/ pc[c] \in {"saving", "writing status"}
         => Harmless(file, loaded)

LabelInv ==
  OwnPath /\ rollbacks = 0 /\ crashes = 0 /\ (given.target = "model" \/ Checked) =>
    /\ \A c \in Clients : pc[c] = "saving" => Running = req[c].version
    /\ (\A c \in Clients : pc[c] # "saving") => TrueContent(cur) = Running

WholeInv ==
  OwnPath /\ rollbacks = 0 /\ Checked /\ ~given.faults =>
    /\ file # Damaged
    /\ \A c \in Clients : pc[c] \in Steps => before.file # Damaged

OtaInv ==
  /\ TypeOK /\ MutexInv /\ HarmlessInv /\ LabelInv /\ WholeInv
  /\ \A c \in Clients : RequestFits(c) /\ PackageKept(c) /\ OldKept(c) /\ NewPlaced(c)

-----------------------------------------------------------------------------
(* What a request is made of.                                              *)
LEMMA RequestFields ==
  ASSUME TypeOK, NEW r \in Requests
  PROVE  /\ r.op \in {"none", "install", "rollback", "undo"}
         /\ r.version \in Packages /\ r.content \in Contents
         /\ r.op = "install" =>
              /\ r.content = r.version \/ (given.corrupt /\ r.content = Damaged)
              /\ r.checked \in given.checks /\ r.auto \in given.autos
              /\ [r EXCEPT !.op = "undo"] \in Requests
         /\ [r EXCEPT !.op = "undo"].op = "undo"
<1>1. Factory \in Packages /\ Factory \in Contents
  BY OtaAssumption DEF Contents
<1>2. CASE r \in Pushes
  <2>1. /\ r.op = "install" /\ r.version \in Packages /\ r.content \in Contents
        /\ r.checked \in given.checks /\ r.auto \in given.autos
        /\ r.content = r.version \/ (given.corrupt /\ r.content = Damaged)
    BY <1>2 DEF Pushes
  <2>2. [r EXCEPT !.op = "undo"].op = "undo"
    BY <1>2 DEF Pushes
  <2> QED BY <1>2, <2>1, <2>2 DEF Requests
<1>3. CASE r = NoRequest \/ r = RollbackRequest
  BY <1>1, <1>3 DEF NoRequest, RollbackRequest
<1>4. CASE r \in {[q EXCEPT !.op = "undo"] : q \in Pushes}
  <2>1. PICK q \in Pushes : r = [q EXCEPT !.op = "undo"]
    BY <1>4
  <2>2. r.op = "undo" /\ r.version = q.version /\ r.content = q.content
    BY <2>1 DEF Pushes
  <2>3. q.version \in Packages /\ q.content \in Contents
    BY <2>1 DEF Pushes
  <2>4. [r EXCEPT !.op = "undo"].op = "undo"
    BY <2>1 DEF Pushes
  <2> QED BY <2>2, <2>3, <2>4
<1> QED BY <1>2, <1>3, <1>4 DEF Requests

(* With a path for each thread, nobody else's package is on c's.           *)
LEMMA PathsApart ==
  ASSUME TypeOK, OwnPath, NEW c \in given.clients, NEW d \in given.clients, c # d
  PROVE  Tmp(c) # Tmp(d)
BY DEF OwnPath, Tmp

LEMMA PathTypes ==
  ASSUME NEW c \in Clients
  PROVE  Tmp(c) \in Clients \union {Shared}
BY DEF Tmp

(* A step between Lock and Return keeps the invariant when it keeps what   *)
(* is said of its own thread.                                              *)
LEMMA InsideStep ==
  ASSUME OtaInv, NEW c \in Clients, pc[c] \in Steps, up,
         UNCHANGED <<given, tmp, up, before, bounds>>,
         NEW l \in Steps \union {"cleaning"}, pc' = [pc EXCEPT ![c] = l],
         holder' = IF l = "cleaning" THEN None ELSE holder,
         NEW r \in Requests, req' = [req EXCEPT ![c] = r],
         TypeOK', RequestFits(c)', PackageKept(c)', OldKept(c)', NewPlaced(c)',
         given.target = "model" /\
           (l \in {"cleaning", "saving", "writing status"} \/ r.op = "undo") =>
             Harmless(file', loaded'),
         OwnPath /\ rollbacks = 0 /\ crashes = 0 /\ (given.target = "model" \/ Checked) =>
           IF l = "saving" THEN Running' = r.version ELSE TrueContent(cur') = Running',
         OwnPath /\ rollbacks = 0 /\ Checked /\ ~given.faults => file' # Damaged
  PROVE  OtaInv'
<1> USE DEF OtaInv, TypeOK
<1>1. /\ \A d \in Clients \ {c} : pc'[d] = pc[d] /\ req'[d] = req[d] /\ pc[d] \notin Steps
      /\ pc'[c] = l /\ req'[c] = r /\ holder = c
  BY DEF MutexInv
<1>2. MutexInv'
  BY <1>1, OtaAssumption DEF MutexInv, bounds, Steps
<1>3. ASSUME NEW d \in Clients PROVE (RequestFits(d) /\ PackageKept(d) /\ OldKept(d) /\ NewPlaced(d))'
  <2>1. CASE d = c
    BY <2>1
  <2>2. CASE d # c
    <3>1. /\ pc'[d] = pc[d] /\ req'[d] = req[d] /\ pc[d] \notin Steps
          /\ RequestFits(d) /\ PackageKept(d)
      BY <1>1, <2>2
    <3>2. RequestFits(d)'
      BY <3>1 DEF RequestFits, bounds, NoRequest
    <3>3. PackageKept(d)'
      BY <3>1 DEF PackageKept, OwnPath, Checked, Tmp
    <3>4. OldKept(d)' /\ NewPlaced(d)'
      BY <3>1, Zenon DEF OldKept, NewPlaced, Steps
    <3> QED BY <3>2, <3>3, <3>4
  <2> QED BY <2>1, <2>2
<1>4. HarmlessInv'
  <2>1. ASSUME given.target = "model" PROVE HarmlessInv'
    <3>1. Quiet' => Harmless(file', loaded')
      BY <1>1, <2>1, OtaAssumption DEF Quiet
    <3>2. \A d \in Clients : pc'[d] \in Steps => Harmless(before'.file, before'.loaded)
      BY <1>1, <2>1 DEF HarmlessInv
    <3>3. ASSUME NEW d \in Clients,
                 \/ pc'[d] \in {"staging", "renaming"} /\ req'[d].op = "undo"
                 \/ pc'[d] \in {"saving", "writing status"}
          PROVE  Harmless(file', loaded')
      BY <1>1, <2>1, <3>3 DEF Steps
    <3> QED BY <3>1, <3>2, <3>3 DEF HarmlessInv, Harmless
  <2> QED BY <2>1 DEF HarmlessInv
<1>5. LabelInv'
  <2>1. \A d \in Clients : pc'[d] = "saving" => d = c /\ l = "saving"
    BY <1>1 DEF Steps
  <2> QED BY <1>1, <2>1 DEF LabelInv, OwnPath, Checked, bounds, Running, TrueContent
<1>6. WholeInv'
  BY <1>1 DEF WholeInv, OwnPath, Checked, bounds
<1> QED BY <1>2, <1>3, <1>4, <1>5, <1>6

LEMMA OthersKept ==
  ASSUME NEW d, pc'[d] = pc[d], req'[d] = req[d],
         UNCHANGED <<given, file, backup, staged, loaded, labels, before>>
  PROVE  (OldKept(d) => OldKept(d)') /\ (NewPlaced(d) => NewPlaced(d)')
<1>1. /\ given' = given /\ file' = file /\ backup' = backup /\ staged' = staged
      /\ loaded' = loaded /\ labels' = labels /\ before' = before
  OBVIOUS
<1>2. OwnPath' <=> OwnPath
  BY DEF OwnPath
<1>3. ASSUME OldKept(d) PROVE OldKept(d)'
  BY <1>1, <1>3 DEF OldKept, CopyOfOld
<1>4. ASSUME NewPlaced(d) PROVE NewPlaced(d)'
  BY <1>1, <1>2, <1>4 DEF NewPlaced
<1> QED BY <1>3, <1>4

(* A step outside of the mutex keeps the invariant when it leaves the      *)
(* packages of others alone.                                               *)
LEMMA OutsideStep ==
  ASSUME OtaInv, NEW c \in Clients, pc[c] \notin Steps, up,
         UNCHANGED <<given, disk, staged, loaded, labels, up, holder, status, before, crashes>>,
         NEW l \in {"idle", "writing", "waiting", "cleaning"}, pc' = [pc EXCEPT ![c] = l],
         NEW r \in Requests, req' = [req EXCEPT ![c] = r],
         c \in given.clients,
         tmp' \in [Clients \union {Shared} -> Contents \union {None}],
         OwnPath => \A d \in Clients \ {c} : pc[d] # "idle" => tmp'[Tmp(d)] = tmp[Tmp(d)],
         installs' \in Nat, rollbacks' \in Nat, rollbacks' = 0 => rollbacks = 0,
         RequestFits(c)', PackageKept(c)'
  PROVE  OtaInv'
<1> USE DEF OtaInv, TypeOK
<1>1. /\ \A d \in Clients \ {c} : pc'[d] = pc[d] /\ req'[d] = req[d]
      /\ pc'[c] = l /\ req'[c] = r /\ l \notin Steps
  BY DEF Steps
<1>2. TypeOK'
  BY DEF disk, labels, Requests, Pushes
<1>3. MutexInv'
  BY <1>1 DEF MutexInv, OtaAssumption
<1>4. ASSUME NEW d \in Clients PROVE (RequestFits(d) /\ PackageKept(d) /\ OldKept(d) /\ NewPlaced(d))'
  <2>1. CASE d = c
    BY <1>1, <2>1 DEF OldKept, NewPlaced, Steps
  <2>2. CASE d # c
    <3>1. /\ pc'[d] = pc[d] /\ req'[d] = req[d]
          /\ RequestFits(d) /\ PackageKept(d) /\ OldKept(d) /\ NewPlaced(d)
      BY <1>1, <2>2
    <3>2. RequestFits(d)'
      BY <3>1 DEF RequestFits, NoRequest
    <3>3. PackageKept(d)'
      BY <2>2, <3>1 DEF PackageKept, OwnPath, Checked, Tmp, Steps
    <3>4. OldKept(d)' /\ NewPlaced(d)'
      BY <3>1, OthersKept DEF disk
    <3> QED BY <3>2, <3>3, <3>4
  <2> QED BY <2>1, <2>2
<1>5. HarmlessInv'
  BY <1>1 DEF HarmlessInv, Harmless, Quiet, disk, Steps
<1>6. LabelInv'
  BY <1>1 DEF LabelInv, OwnPath, Checked, Running, TrueContent, disk, labels, Steps
<1>7. WholeInv'
  BY <1>1 DEF WholeInv, OwnPath, Checked, disk
<1> QED BY <1>2, <1>3, <1>4, <1>5, <1>6, <1>7

(* What Return and Stay leave to be shown about the types.                 *)
LEMMA InsideTypes ==
  ASSUME TypeOK, NEW c \in Clients, UNCHANGED <<given, tmp, up, before, bounds>>,
         NEW l \in Steps \union {"cleaning"}, pc' = [pc EXCEPT ![c] = l],
         holder' = IF l = "cleaning" THEN None ELSE holder,
         NEW r \in Requests, req' = [req EXCEPT ![c] = r],
         \/ UNCHANGED status
         \/ \E s \in {0, -1, 2} : status' = [status EXCEPT ![c] = s],
         {file', loaded'} \subseteq Contents,
         {backup', staged'} \subseteq Contents \union {None},
         {cur', prev'} \subseteq Labels,
         saved' = <<>> \/ saved' \in Labels \X Labels
  PROVE  TypeOK'
<1>1. Requests' = Requests
  BY DEF Requests, Pushes
<1>2. status' \in [Clients -> {0, -1, 2}]
  BY DEF TypeOK
<1>3. req' \in [Clients -> Requests]
  BY DEF TypeOK
<1>4. pc' \in [Clients -> Steps \union {"idle", "writing", "waiting", "cleaning"}]
  BY DEF TypeOK
<1> QED BY <1>1, <1>2, <1>3, <1>4 DEF TypeOK, bounds

(* What is known inside the mutex.                                         *)
LEMMA InsideFacts ==
  ASSUME OtaInv, NEW c \in Clients, pc[c] \in Steps
  PROVE  /\ TypeOK /\ RequestFits(c) /\ PackageKept(c) /\ OldKept(c) /\ NewPlaced(c)
         /\ req[c] \in Requests /\ req = [req EXCEPT ![c] = req[c]]
         /\ given.target = "model" => Harmless(before.file, before.loaded)
         /\ before.file \in Contents /\ before.loaded \in Contents
         /\ given \in Circumstance
BY OtaAssumption DEF OtaInv, TypeOK, HarmlessInv

(* The labels and the wholeness of the file, as far as they matter to c.   *)
LEMMA InsideLabels ==
  ASSUME OtaInv, NEW c \in Clients, pc[c] \in Steps
  PROVE  /\ OwnPath /\ rollbacks = 0 /\ crashes = 0 /\ (given.target = "model" \/ Checked) =>
              IF pc[c] = "saving" THEN Running = req[c].version ELSE TrueContent(cur) = Running
         /\ OwnPath /\ rollbacks = 0 /\ Checked /\ ~given.faults =>
              file # Damaged /\ before.file # Damaged
<1>1. \A d \in Clients : d # c => pc[d] # "saving"
  BY DEF OtaInv, MutexInv, Steps
<1> QED BY <1>1 DEF OtaInv, LabelInv, WholeInv

(* The steps before the first copy is made change only the backup.         *)
LEMMA PrepareStep ==
  ASSUME OtaInv, NEW c \in Clients, up,
         pc[c] \in {"verifying", "backing", "copying", "checking"},
         UNCHANGED <<given, file, saved, tmp, staged, loaded, labels, up, req, before, bounds>>,
         backup' \in Contents \union {None},
         NEW l \in {"cleaning", "backing", "copying", "staging"}, pc' = [pc EXCEPT ![c] = l],
         holder' = IF l = "cleaning" THEN None ELSE holder,
         UNCHANGED status \/ \E s \in {0, -1, 2} : status' = [status EXCEPT ![c] = s],
         pc[c] = "checking" => l \in {"cleaning", "staging"},
         pc[c] = "verifying" /\ l # "cleaning" /\ OwnPath /\ Checked =>
           req[c].content = req[c].version,
         l = "staging" =>
           IF pc[c] = "checking" THEN backup' # None ELSE CopyOfOld(backup')
  PROVE  OtaInv'
<1>2. /\ pc[c] \in Steps /\ l \in Steps \union {"cleaning"}
      /\ given' = given /\ tmp' = tmp /\ file' = file /\ loaded' = loaded /\ staged' = staged
      /\ saved' = saved /\ labels' = labels /\ cur' = cur /\ prev' = prev /\ before' = before
      /\ OwnPath' = OwnPath /\ Checked' = Checked /\ Tmp(c)' = Tmp(c)
  BY DEF Steps, labels, OwnPath, Checked, Tmp
<1>3. PICK r \in Requests : r = req[c] /\ req' = [req EXCEPT ![c] = r]
  BY <1>2, InsideFacts
<1>4. TypeOK'
  <2>1. /\ {file', loaded'} \subseteq Contents
        /\ {backup', staged'} \subseteq Contents \union {None}
        /\ {cur', prev'} \subseteq Labels
        /\ saved' = <<>> \/ saved' \in Labels \X Labels
    BY <1>2, InsideFacts DEF TypeOK
  <2> QED BY <1>2, <1>3, <2>1, InsideTypes, InsideFacts
<1>5. pc'[c] = l /\ req'[c] = r
  BY <1>2, <1>3, InsideFacts DEF TypeOK
<1>6. RequestFits(c)'
  BY <1>2, <1>3, <1>5, InsideFacts DEF RequestFits, bounds
<1>7. PackageKept(c)'
  <2>1. ASSUME OwnPath, r.op = "install" PROVE tmp[Tmp(c)] = r.content
    BY <1>2, <1>3, <2>1, InsideFacts DEF PackageKept
  <2>2. ASSUME OwnPath, Checked, l # "cleaning", r.op = "install"
        PROVE  r.content = r.version
    BY <1>2, <1>3, <2>2, InsideFacts DEF PackageKept
  <2> QED BY <1>2, <1>5, <2>1, <2>2 DEF PackageKept, Steps
<1>8. OldKept(c)'
  BY <1>2, <1>3, <1>5, InsideFacts DEF OldKept, CopyOfOld, RequestFits, Steps
<1>9. NewPlaced(c)'
  BY <1>2, <1>3, <1>5, InsideFacts DEF NewPlaced, RequestFits
<1>10. given.target = "model" => Harmless(file', loaded')
  BY <1>2, InsideFacts DEF OldKept, Steps
<1>11. TrueContent(cur') = TrueContent(cur) /\ Running' = Running
  BY <1>2 DEF TrueContent, Running
<1> QED
  BY <1>2, <1>3, <1>4, <1>6, <1>7, <1>8, <1>9, <1>10, <1>11, InsideLabels, InsideStep

LEMMA VerifyKeeps ==
  ASSUME OtaInv, NEW c \in Clients, Verify(c), UNCHANGED given
  PROVE  OtaInv'
<1>1. PICK l \in {"cleaning", "backing"} :
        /\ pc' = [pc EXCEPT ![c] = l]
        /\ holder' = IF l = "cleaning" THEN None ELSE holder
        /\ UNCHANGED status \/ \E s \in {0, -1, 2} : status' = [status EXCEPT ![c] = s]
        /\ l = "backing" => ~(req[c].checked /\ tmp[Tmp(c)] # req[c].version)
  BY DEF Verify, Return, Stay, Goto
<1>2. /\ pc[c] = "verifying" /\ up /\ pc[c] \in Steps
      /\ UNCHANGED <<given, file, saved, tmp, staged, loaded, labels, up, req, before, bounds>>
      /\ backup' = backup /\ backup \in Contents \union {None}
  BY DEF Verify, At, Steps, disk, OtaInv, TypeOK
<1>3. ASSUME OwnPath, Checked, l = "backing" PROVE req[c].content = req[c].version
  <2>1. req[c].op = "install" /\ tmp[Tmp(c)] = req[c].content
    BY <1>2, <1>3, InsideFacts DEF RequestFits, PackageKept
  <2>2. /\ req[c].content = req[c].version \/ (given.corrupt /\ req[c].content = Damaged)
        /\ req[c].checked \in given.checks
    BY <1>2, <2>1, RequestFields, InsideFacts
  <2> QED BY <1>1, <1>3, <2>1, <2>2 DEF Checked
<1> QED BY <1>1, <1>2, <1>3, PrepareStep

LEMMA OpenBackupKeeps ==
  ASSUME OtaInv, NEW c \in Clients, OpenBackup(c), UNCHANGED given
  PROVE  OtaInv'
<1>1. PICK l \in {"cleaning", "copying"} :
        /\ pc' = [pc EXCEPT ![c] = l]
        /\ holder' = IF l = "cleaning" THEN None ELSE holder
        /\ UNCHANGED status \/ \E s \in {0, -1, 2} : status' = [status EXCEPT ![c] = s]
        /\ backup' \in {backup, Damaged}
  BY DEF OpenBackup, Return, Stay, Goto
<1>2. /\ pc[c] = "backing" /\ up
      /\ UNCHANGED <<given, file, saved, tmp, staged, loaded, labels, up, req, before, bounds>>
      /\ backup' \in Contents \union {None}
  BY <1>1 DEF OpenBackup, At, OtaInv, TypeOK, Contents
<1> QED BY <1>1, <1>2, PrepareStep

LEMMA BackupKeeps ==
  ASSUME OtaInv, NEW c \in Clients, Backup(c), UNCHANGED given
  PROVE  OtaInv'
<1>1. /\ pc[c] = "copying" /\ up /\ pc[c] \in Steps
      /\ UNCHANGED <<given, file, saved, tmp, staged, loaded, labels, up, req, before, bounds>>
      /\ file = before.file /\ file \in Contents
  BY InsideFacts DEF Backup, At, Steps, OldKept, TypeOK
<1>2. PICK l \in {"cleaning", "staging"} :
        /\ pc' = [pc EXCEPT ![c] = l]
        /\ holder' = IF l = "cleaning" THEN None ELSE holder
        /\ UNCHANGED status \/ \E s \in {0, -1, 2} : status' = [status EXCEPT ![c] = s]
        /\ backup' \in {file, None, Damaged}
        /\ l = "staging" => backup' = file \/ (given.faults /\ backup' = Damaged)
  BY DEF Backup, Return, Stay, Goto
<1>3. backup' \in Contents \union {None} /\ (l = "staging" => CopyOfOld(backup'))
  BY <1>1, <1>2 DEF Contents, CopyOfOld
<1> QED BY <1>1, <1>2, <1>3, PrepareStep

LEMMA CheckRollbackKeeps ==
  ASSUME OtaInv, NEW c \in Clients, CheckRollback(c), UNCHANGED given
  PROVE  OtaInv'
<1>1. PICK l \in {"cleaning", "staging"} :
        /\ pc' = [pc EXCEPT ![c] = l]
        /\ holder' = IF l = "cleaning" THEN None ELSE holder
        /\ UNCHANGED status \/ \E s \in {0, -1, 2} : status' = [status EXCEPT ![c] = s]
        /\ l = "staging" => backup # None
  BY DEF CheckRollback, Return, Stay, Goto
<1>2. /\ pc[c] = "checking" /\ up
      /\ UNCHANGED <<given, file, saved, tmp, staged, loaded, labels, up, req, before, bounds>>
      /\ backup' = backup /\ backup \in Contents \union {None}
  BY DEF CheckRollback, At, disk, OtaInv, TypeOK
<1> QED BY <1>1, <1>2, PrepareStep

LEMMA StageKeeps ==
  ASSUME OtaInv, NEW c \in Clients, Stage(c), UNCHANGED given
  PROVE  OtaInv'
<1>1. PICK l \in {"cleaning", "renaming"} :
        /\ pc' = [pc EXCEPT ![c] = l]
        /\ holder' = IF l = "cleaning" THEN None ELSE holder
        /\ UNCHANGED status \/ \E s \in {0, -1, 2} : status' = [status EXCEPT ![c] = s]
        /\ IF l = "renaming" THEN Source(c) # None /\ staged' = Source(c) ELSE staged' = staged
  BY DEF Stage, Return, Stay, Goto
<1>2. /\ pc[c] = "staging" /\ up /\ pc[c] \in Steps /\ l \in Steps \union {"cleaning"}
      /\ UNCHANGED <<given, tmp, up, before, bounds>>
      /\ given' = given /\ tmp' = tmp /\ file' = file /\ loaded' = loaded /\ backup' = backup
      /\ saved' = saved /\ labels' = labels /\ cur' = cur /\ prev' = prev /\ before' = before
      /\ OwnPath' = OwnPath /\ Checked' = Checked /\ Tmp(c)' = Tmp(c)
  BY DEF Stage, At, Steps, disk, labels, OwnPath, Checked, Tmp
<1>3. PICK r \in Requests : r = req[c] /\ req' = [req EXCEPT ![c] = r]
  BY <1>2, InsideFacts DEF Stage
<1>4. TypeOK'
  <2>1. /\ {file', loaded'} \subseteq Contents
        /\ {backup', staged'} \subseteq Contents \union {None}
        /\ {cur', prev'} \subseteq Labels
        /\ saved' = <<>> \/ saved' \in Labels \X Labels
    BY <1>1, <1>2, InsideFacts, PathTypes DEF TypeOK, Source
  <2> QED BY <1>1, <1>2, <1>3, <2>1, InsideTypes, InsideFacts
<1>5. pc'[c] = l /\ req'[c] = r
  BY <1>1, <1>2, <1>3, InsideFacts DEF TypeOK
<1>6. RequestFits(c)'
  BY <1>2, <1>3, <1>5, InsideFacts DEF RequestFits, bounds
<1>7. PackageKept(c)'
  BY <1>2, <1>3, <1>5, InsideFacts DEF PackageKept, Steps
<1>8. OldKept(c)'
  <2>1. l = "renaming" /\ r.op = "undo" => CopyOfOld(staged')
    BY <1>1, <1>2, <1>3, InsideFacts DEF OldKept, Source
  <2> QED BY <1>2, <1>3, <1>5, <2>1, InsideFacts DEF OldKept, CopyOfOld, Steps
<1>9. NewPlaced(c)'
  <2>1. l = "renaming" => staged' # None
    BY <1>1
  <2>2. l = "renaming" /\ r.op = "install" /\ OwnPath => staged' = r.content
    BY <1>1, <1>2, <1>3, InsideFacts DEF PackageKept, Source
  <2> QED BY <1>2, <1>5, <2>1, <2>2 DEF NewPlaced
<1>10. given.target = "model" => Harmless(file', loaded')
  <2>1. CASE r.op = "undo"
    BY <1>2, <1>3, <2>1 DEF OtaInv, HarmlessInv
  <2>2. CASE r.op # "undo"
    BY <1>2, <1>3, <2>2, InsideFacts DEF OldKept, Steps
  <2> QED BY <2>1, <2>2
<1>11. TrueContent(cur') = TrueContent(cur) /\ Running' = Running
  BY <1>2 DEF TrueContent, Running
<1> QED
  BY <1>1, <1>2, <1>3, <1>4, <1>6, <1>7, <1>8, <1>9, <1>10, <1>11, InsideLabels, InsideStep

LEMMA RenameKeeps ==
  ASSUME OtaInv, NEW c \in Clients, Rename(c), UNCHANGED given
  PROVE  OtaInv'
<1>1. PICK l \in {"loading", "saving"} :
        /\ pc' = [pc EXCEPT ![c] = l]
        /\ l = IF given.target = "model" THEN "loading" ELSE "saving"
  BY DEF Rename, Stay, Goto
<1>2. /\ pc[c] = "renaming" /\ up /\ pc[c] \in Steps /\ l \in Steps /\ l # "cleaning"
      /\ UNCHANGED <<given, tmp, up, before, bounds>> /\ UNCHANGED <<status, holder>>
      /\ given' = given /\ tmp' = tmp /\ loaded' = loaded /\ backup' = backup
      /\ saved' = saved /\ labels' = labels /\ cur' = cur /\ prev' = prev /\ before' = before
      /\ OwnPath' = OwnPath /\ Checked' = Checked /\ Tmp(c)' = Tmp(c)
      /\ file' = staged /\ staged' = None
  BY <1>1 DEF Rename, At, Stay, Steps, disk, labels, OwnPath, Checked, Tmp
<1>3. PICK r \in Requests : r = req[c] /\ req' = [req EXCEPT ![c] = r]
  BY <1>2, InsideFacts DEF Rename
<1>4. TypeOK'
  <2>1. /\ {file', loaded'} \subseteq Contents
        /\ {backup', staged'} \subseteq Contents \union {None}
        /\ {cur', prev'} \subseteq Labels
        /\ saved' = <<>> \/ saved' \in Labels \X Labels
    BY <1>1, <1>2, InsideFacts DEF TypeOK, NewPlaced
  <2> QED BY <1>1, <1>2, <1>3, <2>1, InsideTypes, InsideFacts
<1>5. pc'[c] = l /\ req'[c] = r
  BY <1>1, <1>2, <1>3, InsideFacts DEF TypeOK
<1>6. RequestFits(c)'
  BY <1>1, <1>2, <1>3, <1>5, InsideFacts DEF RequestFits, bounds, Circumstance
<1>7. PackageKept(c)'
  BY <1>2, <1>3, <1>5, InsideFacts DEF PackageKept, Steps
<1>8. OldKept(c)'
  BY <1>1, <1>2, <1>3, <1>5, InsideFacts DEF OldKept, CopyOfOld, Steps
<1>9. NewPlaced(c)'
  BY <1>1, <1>2, <1>3, <1>5, InsideFacts DEF NewPlaced
<1>10. l = "saving" => given.target # "model" /\ r.op # "undo"
  BY <1>1, <1>2, <1>3, InsideFacts DEF RequestFits
<1>11. ASSUME OwnPath, rollbacks = 0, Checked, r.op = "install" PROVE file' = r.version
  BY <1>2, <1>3, <1>11, InsideFacts DEF PackageKept, NewPlaced
<1>12. ASSUME OwnPath, rollbacks = 0, crashes = 0, given.target = "model" \/ Checked
       PROVE  IF l = "saving" THEN Running' = r.version ELSE TrueContent(cur') = Running'
  <2>1. CASE l = "saving"
    <3>1. r.op = "install"
      BY <1>2, <1>3, <1>10, <1>12, <2>1, InsideFacts DEF RequestFits
    <3> QED BY <1>2, <1>10, <1>11, <1>12, <2>1, <3>1 DEF Running
  <2>2. CASE l = "loading"
    <3>1. Running' = Running /\ TrueContent(cur') = TrueContent(cur)
      BY <1>1, <1>2, <2>2 DEF Running, TrueContent
    <3> QED BY <1>2, <1>12, <2>2, <3>1, InsideLabels
  <2> QED BY <2>1, <2>2
<1>13. ASSUME OwnPath, rollbacks = 0, Checked, ~given.faults PROVE file' # Damaged
  <2>1. before.file # Damaged
    BY <1>2, <1>13, InsideLabels
  <2>2. r.op \in {"install", "undo"}
    BY <1>2, <1>3, <1>13, InsideFacts DEF RequestFits
  <2>3. r.version # Damaged
    BY <1>2, InsideFacts, RequestFields, OtaAssumption
  <2>4. CASE r.op = "undo"
    BY <1>2, <1>3, <1>13, <2>1, <2>4, InsideFacts DEF OldKept, CopyOfOld
  <2> QED BY <1>11, <1>13, <2>2, <2>3, <2>4
<1>14. given.target = "model" /\ r.op = "undo" => Harmless(file', loaded')
  BY <1>2, <1>3, InsideFacts DEF OldKept, CopyOfOld, Harmless, Steps
<1> QED
  BY <1>1, <1>2, <1>3, <1>4, <1>6, <1>7, <1>8, <1>9, <1>10, <1>12, <1>13, <1>14, InsideStep

(* What the hot reload takes and what it leaves.                           *)
LEMMA ReloadTakes ==
  ASSUME TypeOK, loaded' = IF HotReloads THEN file ELSE loaded
  PROVE  /\ loaded' \in Contents
         /\ HotReloads => loaded' = file /\ file # Damaged
         /\ Harmless(file, loaded')
         /\ Harmless(file, loaded) => loaded' = loaded
BY DEF HotReloads, Harmless, TypeOK

LEMMA ReloadKeeps ==
  ASSUME OtaInv, NEW c \in Clients, Reload(c), UNCHANGED given
  PROVE  OtaInv'
<1>1. PICK l \in {"cleaning", "staging", "saving"} :
        /\ pc' = [pc EXCEPT ![c] = l]
        /\ holder' = IF l = "cleaning" THEN None ELSE holder
        /\ UNCHANGED status \/ \E s \in {0, -1, 2} : status' = [status EXCEPT ![c] = s]
        /\ l = "saving" => (req[c].op = "install" /\ HotReloads) \/ req[c].op = "rollback"
        /\ l = "staging" <=> req[c].op = "install" /\ ~HotReloads /\ req[c].auto
  BY DEF Reload, Return, Stay, Goto
<1>2. /\ pc[c] = "loading" /\ up /\ pc[c] \in Steps /\ l \in Steps \union {"cleaning"}
      /\ UNCHANGED <<given, tmp, up, before, bounds>>
      /\ given' = given /\ tmp' = tmp /\ file' = file /\ backup' = backup /\ staged' = staged
      /\ saved' = saved /\ labels' = labels /\ cur' = cur /\ prev' = prev /\ before' = before
      /\ OwnPath' = OwnPath /\ Checked' = Checked /\ Tmp(c)' = Tmp(c)
      /\ loaded' = IF HotReloads THEN file ELSE loaded
  BY DEF Reload, At, Steps, disk, labels, OwnPath, Checked, Tmp
<1>3. PICK r \in Requests :
        /\ req' = [req EXCEPT ![c] = r]
        /\ r.op = IF l = "staging" THEN "undo" ELSE req[c].op
        /\ l # "staging" => r = req[c]
  <2>1. CASE l = "staging"
    <3>1. req' = [req EXCEPT ![c].op = "undo"] /\ req[c].op = "install"
      BY <1>1, <2>1 DEF Reload
    <3>2. req' = [req EXCEPT ![c] = [req[c] EXCEPT !.op = "undo"]]
      BY <1>2, <3>1, InsideFacts DEF TypeOK
    <3> QED BY <1>2, <2>1, <3>1, <3>2, InsideFacts, RequestFields
  <2>2. CASE l # "staging"
    BY <1>1, <1>2, <2>2, InsideFacts DEF Reload
  <2> QED BY <2>1, <2>2
<1>4. /\ loaded' \in Contents /\ (HotReloads => loaded' = file /\ file # Damaged)
      /\ Harmless(file, loaded') /\ (Harmless(file, loaded) => loaded' = loaded)
  BY <1>2, ReloadTakes, InsideFacts
<1>5. TypeOK'
  <2>1. /\ {file', loaded'} \subseteq Contents
        /\ {backup', staged'} \subseteq Contents \union {None}
        /\ {cur', prev'} \subseteq Labels
        /\ saved' = <<>> \/ saved' \in Labels \X Labels
    BY <1>2, <1>4, InsideFacts DEF TypeOK
  <2> QED BY <1>1, <1>2, <1>3, <2>1, InsideTypes, InsideFacts
<1>6. pc'[c] = l /\ req'[c] = r /\ given.target = "model"
  BY <1>1, <1>2, <1>3, InsideFacts DEF TypeOK, RequestFits
<1>7. RequestFits(c)'
  BY <1>1, <1>2, <1>3, <1>6, InsideFacts DEF RequestFits, bounds
<1>8. PackageKept(c)'
  <2>1. r.op = "install" => r = req[c]
    BY <1>3
  <2> QED BY <1>2, <1>6, <2>1, InsideFacts DEF PackageKept, Steps
<1>9. OldKept(c)'
  <2>1. l = "staging" => loaded' = loaded
    BY <1>1, <1>2
  <2> QED BY <1>1, <1>2, <1>3, <1>6, <2>1, InsideFacts DEF OldKept, CopyOfOld, Steps
<1>10. ASSUME OwnPath, r.op = "install", l = "saving"
       PROVE  file' = r.content /\ loaded' = r.version /\ r.content = r.version
  <2>1. HotReloads /\ file = r.content /\ r = req[c]
    BY <1>1, <1>2, <1>3, <1>10, InsideFacts DEF NewPlaced
  <2>2. r.content = r.version
    BY <1>2, <1>4, <1>10, <2>1, RequestFields, InsideFacts
  <2> QED BY <1>2, <1>4, <2>1, <2>2
<1>11. NewPlaced(c)'
  BY <1>2, <1>3, <1>6, <1>10 DEF NewPlaced
<1>12. ASSUME OwnPath, rollbacks = 0, crashes = 0, given.target = "model" \/ Checked
       PROVE  IF l = "saving" THEN Running' = r.version ELSE TrueContent(cur') = Running'
  <2>1. CASE l = "saving"
    <3>1. r.op = "install"
      BY <1>1, <1>2, <1>3, <1>12, <2>1, InsideFacts DEF RequestFits
    <3> QED BY <1>2, <1>6, <1>10, <1>12, <2>1, <3>1 DEF Running
  <2>2. CASE l # "saving"
    <3>1. req[c].op = "install" => ~HotReloads
      BY <1>1, <1>2, <2>2, <1>6 DEF Reload, Stay, Goto
    <3>2. req[c].op \in {"install", "undo"}
      BY <1>2, <1>12, InsideFacts DEF RequestFits
    <3>3. req[c].op = "undo" => Harmless(file, loaded)
      BY <1>2, <1>6, InsideFacts DEF OldKept, CopyOfOld, Harmless, Steps
    <3>4. loaded' = loaded
      BY <1>2, <1>4, <3>1, <3>2, <3>3
    <3>5. Running' = Running /\ TrueContent(cur') = TrueContent(cur)
      BY <1>2, <1>6, <3>4 DEF Running, TrueContent
    <3> QED BY <1>2, <1>12, <2>2, <3>5, InsideLabels
  <2> QED BY <2>1, <2>2
<1>13. OwnPath /\ rollbacks = 0 /\ Checked /\ ~given.faults => file' # Damaged
  BY <1>2, InsideLabels
<1>14. Harmless(file', loaded')
  BY <1>2, <1>4
<1> QED
  BY <1>1, <1>2, <1>3, <1>5, <1>7, <1>8, <1>9, <1>11, <1>12, <1>13, <1>14, InsideStep

LEMMA RelabelKeeps ==
  ASSUME OtaInv, NEW c \in Clients, Relabel(c), UNCHANGED given
  PROVE  OtaInv'
<1>0. PICK l \in Steps \union {"cleaning"} : l = "writing status"
  BY DEF Steps
<1>1. /\ pc[c] = "saving" /\ up /\ pc[c] \in Steps /\ l # "cleaning"
      /\ pc' = [pc EXCEPT ![c] = l] /\ UNCHANGED <<status, holder>>
      /\ UNCHANGED <<given, tmp, up, before, bounds>>
      /\ given' = given /\ tmp' = tmp /\ file' = file /\ loaded' = loaded /\ backup' = backup
      /\ staged' = staged /\ before' = before /\ saved' = <<>>
      /\ OwnPath' = OwnPath /\ Checked' = Checked /\ Tmp(c)' = Tmp(c)
      /\ prev' = cur /\ cur' = IF req[c].op = "install" THEN req[c].version ELSE prev
  BY <1>0 DEF Relabel, At, Stay, Goto, Steps, OwnPath, Checked, Tmp
<1>2. PICK r \in Requests : r = req[c] /\ req' = [req EXCEPT ![c] = r]
  BY <1>0, <1>1, InsideFacts DEF Relabel
<1>3. TypeOK'
  <2>1. /\ {file', loaded'} \subseteq Contents
        /\ {backup', staged'} \subseteq Contents \union {None}
        /\ {cur', prev'} \subseteq Labels
        /\ saved' = <<>> \/ saved' \in Labels \X Labels
    <3>1. req[c].version \in Packages
      BY <1>1, InsideFacts, RequestFields
    <3> QED BY <1>1, <3>1, InsideFacts DEF TypeOK, Labels
  <2> QED BY <1>0, <1>1, <1>2, <2>1, InsideTypes, InsideFacts
<1>4. pc'[c] = l /\ req'[c] = r
  BY <1>0, <1>1, <1>2, InsideFacts DEF TypeOK
<1>5. RequestFits(c)'
  BY <1>0, <1>1, <1>2, <1>4, InsideFacts DEF RequestFits, bounds
<1>6. PackageKept(c)'
  BY <1>0, <1>1, <1>2, <1>4, InsideFacts DEF PackageKept, Steps
<1>7. OldKept(c)' /\ NewPlaced(c)'
  BY <1>0, <1>1, <1>2, <1>4, InsideFacts DEF OldKept, NewPlaced, Steps
<1>8. given.target = "model" => Harmless(file', loaded')
  BY <1>0, <1>1 DEF OtaInv, HarmlessInv
<1>9. ASSUME OwnPath, rollbacks = 0, crashes = 0, given.target = "model" \/ Checked
      PROVE  TrueContent(cur') = Running'
  <2>1. cur' = r.version /\ r.version \in Packages
    BY <1>0, <1>1, <1>2, <1>9, InsideFacts, RequestFields DEF RequestFits
  <2>2. Running' = r.version
    BY <1>0, <1>1, <1>2, <1>9, InsideLabels DEF Running
  <2> QED BY <2>1, <2>2, OtaAssumption DEF TrueContent
<1>10. OwnPath /\ rollbacks = 0 /\ Checked /\ ~given.faults => file' # Damaged
  BY <1>0, <1>1, InsideLabels
<1> QED
  BY <1>0, <1>1, <1>2, <1>3, <1>5, <1>6, <1>7, <1>8, <1>9, <1>10, InsideStep, InsideFacts
  DEF RequestFits

LEMMA SaveKeeps ==
  ASSUME OtaInv, NEW c \in Clients, Save(c), UNCHANGED given
  PROVE  OtaInv'
<1>0. PICK l \in Steps \union {"cleaning"} : l = "cleaning"
  OBVIOUS
<1>1. /\ pc[c] = "writing status" /\ up /\ pc[c] \in Steps
      /\ pc' = [pc EXCEPT ![c] = l] /\ holder' = None
      /\ \E s \in {0, -1, 2} : status' = [status EXCEPT ![c] = s]
      /\ UNCHANGED <<given, tmp, up, before, bounds>>
      /\ given' = given /\ tmp' = tmp /\ file' = file /\ loaded' = loaded /\ backup' = backup
      /\ staged' = staged /\ before' = before /\ saved' = <<cur, prev>>
      /\ OwnPath' = OwnPath /\ Checked' = Checked /\ Tmp(c)' = Tmp(c)
      /\ cur' = cur /\ prev' = prev
  BY <1>0 DEF Save, At, Return, Goto, Steps, OwnPath, Checked, Tmp, labels
<1>2. PICK r \in Requests : r = req[c] /\ req' = [req EXCEPT ![c] = r]
  BY <1>0, <1>1, InsideFacts DEF Save
<1>3. TypeOK'
  <2>1. /\ {file', loaded'} \subseteq Contents
        /\ {backup', staged'} \subseteq Contents \union {None}
        /\ {cur', prev'} \subseteq Labels
        /\ saved' \in Labels \X Labels
    BY <1>0, <1>1, InsideFacts DEF TypeOK
  <2> QED BY <1>0, <1>1, <1>2, <2>1, InsideTypes, InsideFacts
<1>4. pc'[c] = l /\ req'[c] = r
  BY <1>0, <1>1, <1>2, InsideFacts DEF TypeOK
<1>5. RequestFits(c)'
  BY <1>0, <1>1, <1>2, <1>4, InsideFacts DEF RequestFits, bounds
<1>6. PackageKept(c)' /\ OldKept(c)' /\ NewPlaced(c)'
  BY <1>0, <1>4 DEF PackageKept, OldKept, NewPlaced, Steps
<1>7. given.target = "model" => Harmless(file', loaded')
  BY <1>0, <1>1 DEF OtaInv, HarmlessInv
<1>8. TrueContent(cur') = TrueContent(cur) /\ Running' = Running
  BY <1>0, <1>1 DEF TrueContent, Running
<1>9. req[c].op # "undo"
  BY <1>0, <1>1, InsideFacts DEF RequestFits
<1> QED
  BY <1>0, <1>1, <1>2, <1>3, <1>5, <1>6, <1>7, <1>8, <1>9, InsideLabels, InsideStep

LEMMA OutsideFacts ==
  ASSUME OtaInv, NEW c \in Clients
  PROVE  /\ TypeOK /\ RequestFits(c) /\ PackageKept(c)
         /\ req[c] \in Requests /\ req = [req EXCEPT ![c] = req[c]]
         /\ pc[c] # "idle" => c \in given.clients
         /\ given \in Circumstance
BY OtaAssumption DEF OtaInv, TypeOK, MutexInv

LEMMA OthersPackages ==
  ASSUME OtaInv, NEW c \in Clients, c \in given.clients, OwnPath,
         NEW x, tmp' = [tmp EXCEPT ![Tmp(c)] = x],
         NEW d \in Clients \ {c}, pc[d] # "idle"
  PROVE  tmp'[Tmp(d)] = tmp[Tmp(d)]
<1>1. Tmp(d) # Tmp(c) /\ Tmp(d) \in Clients \union {Shared}
  BY PathsApart, PathTypes, OutsideFacts
<1> QED BY <1>1, OutsideFacts DEF TypeOK

LEMMA PushKeeps ==
  ASSUME OtaInv, NEW c \in Clients, Push(c), UNCHANGED given
  PROVE  OtaInv'
<1>1. /\ pc[c] = "idle" /\ up /\ pc[c] \notin Steps /\ c \in given.clients
      /\ UNCHANGED <<given, disk, staged, loaded, labels, up, holder, status, before, crashes>>
      /\ tmp' = [tmp EXCEPT ![Tmp(c)] = Damaged]
      /\ installs' = installs + 1 /\ rollbacks' = rollbacks
  BY DEF Push, At, Steps
<1>2. PICK r \in Pushes : req' = [req EXCEPT ![c] = r]
  BY DEF Push
<1>3. PICK l \in {"idle", "writing", "waiting", "cleaning"} :
        l = "writing" /\ pc' = [pc EXCEPT ![c] = l]
  BY DEF Push, Goto
<1>4. r \in Requests /\ r.op = "install"
  BY <1>2 DEF Requests, Pushes
<1>5. pc'[c] = l /\ req'[c] = r
  BY <1>2, <1>3, OutsideFacts DEF TypeOK
<1>6. RequestFits(c)' /\ PackageKept(c)'
  BY <1>3, <1>4, <1>5 DEF RequestFits, PackageKept, Steps
<1>7. tmp' \in [Clients \union {Shared} -> Contents \union {None}]
  BY <1>1, PathTypes, OutsideFacts DEF TypeOK, Contents
<1>8. installs' \in Nat /\ rollbacks' \in Nat
  BY <1>1, OutsideFacts DEF TypeOK
<1>9. OwnPath => \A d \in Clients \ {c} : pc[d] # "idle" => tmp'[Tmp(d)] = tmp[Tmp(d)]
  BY <1>1, OthersPackages
<1> QED BY <1>1, <1>2, <1>3, <1>4, <1>6, <1>7, <1>8, <1>9, OutsideStep

LEMMA WriteKeeps ==
  ASSUME OtaInv, NEW c \in Clients, Write(c), UNCHANGED given
  PROVE  OtaInv'
<1>1. /\ pc[c] = "writing" /\ up /\ pc[c] \notin Steps /\ c \in given.clients
      /\ UNCHANGED <<given, disk, staged, loaded, labels, up, holder, status, before, crashes>>
      /\ tmp' = [tmp EXCEPT ![Tmp(c)] = req[c].content]
      /\ installs' = installs /\ rollbacks' = rollbacks
  BY OutsideFacts DEF Write, At, Steps, bounds
<1>2. PICK r \in Requests : r = req[c] /\ req' = [req EXCEPT ![c] = r]
  BY OutsideFacts DEF Write
<1>3. PICK l \in {"idle", "writing", "waiting", "cleaning"} :
        l = "waiting" /\ pc' = [pc EXCEPT ![c] = l]
  BY DEF Write, Goto
<1>4. pc'[c] = l /\ req'[c] = r /\ tmp'[Tmp(c)] = r.content
  BY <1>1, <1>2, <1>3, PathTypes, OutsideFacts DEF TypeOK
<1>5. RequestFits(c)'
  BY <1>1, <1>2, <1>3, <1>4, OutsideFacts DEF RequestFits
<1>6. PackageKept(c)'
  <2>1. Tmp(c)' = Tmp(c)
    BY <1>1 DEF Tmp
  <2> QED BY <1>3, <1>4, <2>1 DEF PackageKept, Steps
<1>7. tmp' \in [Clients \union {Shared} -> Contents \union {None}]
  BY <1>1, PathTypes, OutsideFacts, RequestFields DEF TypeOK
<1>8. installs' \in Nat /\ rollbacks' \in Nat
  BY <1>1, OutsideFacts DEF TypeOK
<1>9. OwnPath => \A d \in Clients \ {c} : pc[d] # "idle" => tmp'[Tmp(d)] = tmp[Tmp(d)]
  BY <1>1, OthersPackages
<1> QED BY <1>1, <1>2, <1>3, <1>5, <1>6, <1>7, <1>8, <1>9, OutsideStep

LEMMA AskRollbackKeeps ==
  ASSUME OtaInv, NEW c \in Clients, AskRollback(c), UNCHANGED given
  PROVE  OtaInv'
<1>1. /\ pc[c] = "idle" /\ up /\ pc[c] \notin Steps /\ c \in given.clients
      /\ UNCHANGED <<given, disk, staged, loaded, labels, up, holder, status, before, crashes>>
      /\ tmp' = tmp /\ installs' = installs /\ rollbacks' = rollbacks + 1
  BY DEF AskRollback, At, Steps
<1>2. PICK r \in Requests :
        r = RollbackRequest /\ r.op = "rollback" /\ req' = [req EXCEPT ![c] = r]
  BY DEF AskRollback, Requests, RollbackRequest, NoRequest
<1>3. PICK l \in {"idle", "writing", "waiting", "cleaning"} :
        l = "waiting" /\ pc' = [pc EXCEPT ![c] = l]
  BY DEF AskRollback, Goto
<1>4. pc'[c] = l /\ req'[c] = r
  BY <1>2, <1>3, OutsideFacts DEF TypeOK
<1>5. installs' \in Nat /\ rollbacks' \in Nat /\ rollbacks' # 0
  BY <1>1, OutsideFacts DEF TypeOK
<1>6. RequestFits(c)' /\ PackageKept(c)'
  BY <1>2, <1>3, <1>4, <1>5 DEF RequestFits, PackageKept, Steps
<1>7. tmp' \in [Clients \union {Shared} -> Contents \union {None}]
  BY <1>1, OutsideFacts DEF TypeOK
<1> QED BY <1>1, <1>2, <1>3, <1>5, <1>6, <1>7, OutsideStep

LEMMA CleanKeeps ==
  ASSUME OtaInv, NEW c \in Clients, Clean(c), UNCHANGED given
  PROVE  OtaInv'
<1>1. /\ pc[c] = "cleaning" /\ up /\ pc[c] \notin Steps /\ c \in given.clients
      /\ UNCHANGED <<given, disk, staged, loaded, labels, up, holder, status, before, crashes>>
      /\ tmp' = tmp \/ tmp' = [tmp EXCEPT ![Tmp(c)] = None]
      /\ installs' = installs /\ rollbacks' = rollbacks
  BY OutsideFacts DEF Clean, At, Steps, bounds
<1>2. PICK r \in Requests :
        r = NoRequest /\ r.op = "none" /\ req' = [req EXCEPT ![c] = r]
  BY DEF Clean, Requests, NoRequest
<1>3. PICK l \in {"idle", "writing", "waiting", "cleaning"} :
        l = "idle" /\ pc' = [pc EXCEPT ![c] = l]
  BY DEF Clean, Goto
<1>4. pc'[c] = l /\ req'[c] = r
  BY <1>2, <1>3, OutsideFacts DEF TypeOK
<1>5. RequestFits(c)' /\ PackageKept(c)'
  BY <1>2, <1>3, <1>4 DEF RequestFits, PackageKept, Steps, NoRequest
<1>6. tmp' \in [Clients \union {Shared} -> Contents \union {None}]
  BY <1>1, PathTypes, OutsideFacts DEF TypeOK
<1>7. installs' \in Nat /\ rollbacks' \in Nat
  BY <1>1, OutsideFacts DEF TypeOK
<1>8. OwnPath => \A d \in Clients \ {c} : pc[d] # "idle" => tmp'[Tmp(d)] = tmp[Tmp(d)]
  BY <1>1, OthersPackages
<1> QED BY <1>1, <1>2, <1>3, <1>5, <1>6, <1>7, <1>8, OutsideStep

LEMMA LockKeeps ==
  ASSUME OtaInv, NEW c \in Clients, Lock(c), UNCHANGED given
  PROVE  OtaInv'
<1>1. /\ pc[c] = "waiting" /\ up /\ holder = None /\ holder' = c
      /\ UNCHANGED <<given, disk, tmp, staged, loaded, labels, up, req, status, bounds>>
      /\ given' = given /\ tmp' = tmp /\ file' = file /\ backup' = backup /\ saved' = saved
      /\ staged' = staged /\ loaded' = loaded /\ cur' = cur /\ prev' = prev /\ up' = up
      /\ req' = req /\ status' = status /\ labels' = labels /\ crashes' = crashes
      /\ installs' = installs /\ rollbacks' = rollbacks
      /\ OwnPath' = OwnPath /\ Checked' = Checked
      /\ before' = [file |-> file, loaded |-> loaded, labels |-> <<cur, prev>>]
  BY DEF Lock, At, OwnPath, Checked, disk, labels, bounds, Installed
<1>2. PICK l \in {"verifying", "checking"} :
        /\ pc' = [pc EXCEPT ![c] = l]
        /\ l = IF req[c].op = "install" THEN "verifying" ELSE "checking"
  BY DEF Lock, Goto
<1>3. TypeOK /\ c \in given.clients /\ req[c].op \in {"install", "rollback"}
      /\ before'.file = file /\ before'.loaded = loaded /\ before'.labels = labels
  BY <1>1, OutsideFacts DEF RequestFits, labels
<1>4. /\ \A d \in Clients \ {c} : pc'[d] = pc[d] /\ pc[d] \notin Steps
      /\ pc'[c] = l /\ l \in Steps
  BY <1>1, <1>2, <1>3, OtaAssumption DEF OtaInv, MutexInv, TypeOK, Steps
<1>5. TypeOK'
  <2>1. Requests' = Requests
    BY <1>1 DEF Requests, Pushes
  <2>2. before' \in [file : Contents, loaded : Contents, labels : Labels \X Labels]
    BY <1>1, <1>3 DEF TypeOK
  <2>3. pc' \in [Clients -> Steps \union {"idle", "writing", "waiting", "cleaning"}]
    BY <1>2, <1>3, <1>4 DEF TypeOK
  <2> QED BY <1>1, <1>3, <2>1, <2>2, <2>3 DEF TypeOK
<1>6. MutexInv'
  BY <1>1, <1>3, <1>4, OtaAssumption DEF OtaInv, MutexInv
<1>7. ASSUME NEW d \in Clients
      PROVE  (RequestFits(d) /\ PackageKept(d) /\ OldKept(d) /\ NewPlaced(d))'
  <2>1. RequestFits(d) /\ PackageKept(d) /\ Tmp(d)' = Tmp(d)
    BY <1>1, OutsideFacts DEF Tmp
  <2>2. CASE d = c
    <3>1. RequestFits(c)'
      BY <1>1, <1>2, <1>3, <1>4, <2>1, <2>2 DEF RequestFits
    <3>2. PackageKept(c)'
      BY <1>1, <1>2, <1>3, <1>4, <2>1, <2>2 DEF PackageKept
    <3>3. OldKept(c)'
      BY <1>1, <1>3, <1>4 DEF OldKept
    <3>4. NewPlaced(c)'
      BY <1>4 DEF NewPlaced
    <3> QED BY <2>2, <3>1, <3>2, <3>3, <3>4
  <2>3. CASE d # c
    <3>1. RequestFits(d)'
      BY <1>1, <1>4, <2>1, <2>3 DEF RequestFits, NoRequest
    <3>2. PackageKept(d)'
      BY <1>1, <1>4, <2>1, <2>3 DEF PackageKept
    <3>3. OldKept(d)' /\ NewPlaced(d)'
      BY <1>4, <2>3 DEF OldKept, NewPlaced, Steps
    <3> QED BY <3>1, <3>2, <3>3
  <2> QED BY <2>2, <2>3
<1>8. given.target = "model" => Harmless(file, loaded)
  BY <1>1 DEF OtaInv, HarmlessInv, Quiet
<1>9. HarmlessInv'
  BY <1>1, <1>3, <1>8 DEF HarmlessInv, Harmless
<1>10. LabelInv'
  <2>1. \A d \in Clients : pc[d] # "saving" /\ pc'[d] # "saving"
    BY <1>1, <1>4 DEF Steps
  <2> QED BY <1>1, <2>1 DEF OtaInv, LabelInv, Running, TrueContent
<1>11. WholeInv'
  BY <1>1, <1>3 DEF OtaInv, WholeInv
<1> QED BY <1>5, <1>6, <1>7, <1>9, <1>10, <1>11 DEF OtaInv

LEMMA CrashKeeps ==
  ASSUME OtaInv, Crash, UNCHANGED given
  PROVE  OtaInv'
<1>1. /\ up' = FALSE /\ holder' = None /\ crashes' = crashes + 1
      /\ given' = given /\ tmp' = tmp /\ file' = file /\ backup' = backup /\ saved' = saved
      /\ staged' = staged /\ loaded' = loaded /\ cur' = cur /\ prev' = prev
      /\ status' = status /\ before' = before
      /\ installs' = installs /\ rollbacks' = rollbacks
      /\ pc' = [d \in Clients |-> "idle"] /\ req' = [d \in Clients |-> NoRequest]
      /\ OwnPath' = OwnPath /\ Checked' = Checked
  BY DEF Crash, OwnPath, Checked, disk, labels
<1>2. TypeOK /\ crashes' \in Nat /\ crashes' # 0
  BY <1>1 DEF OtaInv, TypeOK
<1>3. \A d \in Clients : pc'[d] = "idle" /\ req'[d] = NoRequest /\ pc'[d] \notin Steps
  BY <1>1 DEF Steps
<1>4. TypeOK'
  <2>1. Requests' = Requests /\ NoRequest \in Requests
    BY <1>1 DEF Requests, Pushes
  <2>2. req' \in [Clients -> Requests]
    BY <1>1, <2>1
  <2>3. pc' \in [Clients -> Steps \union {"idle", "writing", "waiting", "cleaning"}]
    BY <1>1
  <2> QED BY <1>1, <1>2, <2>1, <2>2, <2>3 DEF TypeOK
<1>5. MutexInv'
  BY <1>1, <1>2, <1>3 DEF MutexInv
<1>6. ASSUME NEW d \in Clients
      PROVE  (RequestFits(d) /\ PackageKept(d) /\ OldKept(d) /\ NewPlaced(d))'
  <2>1. RequestFits(d)'
    <3>1. NoRequest.op = "none"
      BY DEF NoRequest
    <3> QED BY <1>3, <3>1 DEF RequestFits
  <2>2. PackageKept(d)'
    BY <1>3 DEF PackageKept, Steps
  <2>3. OldKept(d)' /\ NewPlaced(d)'
    BY <1>3 DEF OldKept, NewPlaced, Steps
  <2> QED BY <2>1, <2>2, <2>3
<1>7. HarmlessInv'
  BY <1>1, <1>3 DEF HarmlessInv, Quiet
<1>8. LabelInv'
  BY <1>2 DEF LabelInv
<1>9. WholeInv'
  BY <1>1, <1>3 DEF OtaInv, WholeInv
<1> QED BY <1>4, <1>5, <1>6, <1>7, <1>8, <1>9 DEF OtaInv

LEMMA RestartKeeps ==
  ASSUME OtaInv, Restart, UNCHANGED given
  PROVE  OtaInv'
<1>1. /\ up' = TRUE /\ holder' = holder /\ crashes' = crashes /\ crashes # 0
      /\ given' = given /\ tmp' = tmp /\ file' = file /\ backup' = backup /\ saved' = saved
      /\ staged' = staged /\ loaded' = file /\ {cur', prev'} \subseteq Labels
      /\ status' = status /\ before' = before
      /\ installs' = installs /\ rollbacks' = rollbacks /\ pc' = pc /\ req' = req
      /\ OwnPath' = OwnPath /\ Checked' = Checked
  <2>1. {cur', prev'} \subseteq Labels
    BY DEF Restart, OtaInv, TypeOK, Labels
  <2>2. crashes # 0
    BY DEF Restart, OtaInv, MutexInv
  <2> QED BY <2>1, <2>2 DEF Restart, OwnPath, Checked, disk, bounds
<1>2. \A d \in Clients : pc[d] = "idle" /\ pc[d] \notin Steps
  BY DEF Restart, OtaInv, MutexInv, Steps
<1>3. TypeOK'
  <2>1. Requests' = Requests
    BY <1>1 DEF Requests, Pushes
  <2> QED BY <1>1, <2>1 DEF OtaInv, TypeOK
<1>4. MutexInv'
  BY <1>1, <1>2 DEF OtaInv, MutexInv
<1>5. ASSUME NEW d \in Clients
      PROVE  (RequestFits(d) /\ PackageKept(d) /\ OldKept(d) /\ NewPlaced(d))'
  <2>1. RequestFits(d)
    BY DEF OtaInv
  <2>2. RequestFits(d)'
    BY <1>1, <1>2, <2>1 DEF RequestFits, NoRequest
  <2>3. PackageKept(d)' /\ OldKept(d)' /\ NewPlaced(d)'
    BY <1>1, <1>2 DEF PackageKept, OldKept, NewPlaced, Steps
  <2> QED BY <2>2, <2>3
<1>6. HarmlessInv'
  BY <1>1, <1>2 DEF HarmlessInv, Harmless, Steps
<1>7. LabelInv'
  BY <1>1 DEF LabelInv
<1>8. WholeInv'
  BY <1>1, <1>2 DEF OtaInv, WholeInv
<1> QED BY <1>3, <1>4, <1>5, <1>6, <1>7, <1>8 DEF OtaInv

LEMMA InitHasInv == Init => OtaInv
<1> SUFFICES ASSUME Init PROVE OtaInv
  OBVIOUS
<1> USE DEF Init
<1>1. \A d \in Clients : pc[d] = "idle" /\ req[d] = NoRequest /\ pc[d] \notin Steps
  BY DEF Steps
<1>2. TypeOK
  <2>1. NoRequest \in Requests
    BY DEF Requests
  <2>2. before \in [file : Contents, loaded : Contents, labels : Labels \X Labels]
    BY OtaAssumption DEF Installed, labels, Contents, Labels
  <2> QED BY <2>1, <2>2, OtaAssumption DEF TypeOK, Contents, Labels
<1>3. MutexInv
  BY <1>1 DEF MutexInv
<1>4. \A d \in Clients : RequestFits(d)
  BY <1>1 DEF RequestFits, NoRequest
<1>5. \A d \in Clients : PackageKept(d) /\ OldKept(d) /\ NewPlaced(d)
  BY <1>1 DEF PackageKept, OldKept, NewPlaced, Steps
<1>6. HarmlessInv
  BY <1>1 DEF HarmlessInv, Harmless
<1>7. LabelInv
  BY <1>1 DEF LabelInv, TrueContent, Running
<1>8. WholeInv
  BY <1>1, OtaAssumption DEF WholeInv
<1> QED BY <1>2, <1>3, <1>4, <1>5, <1>6, <1>7, <1>8 DEF OtaInv

LEMMA OtaStep == OtaInv /\ [Next]_vars => OtaInv'
<1> SUFFICES ASSUME OtaInv, [Next]_vars PROVE OtaInv'
  OBVIOUS
<1>1. CASE Next
  <2>1. UNCHANGED given
    BY <1>1 DEF Next
  <2>2. CASE Crash
    BY <2>1, <2>2, CrashKeeps
  <2>3. CASE Restart
    BY <2>1, <2>3, RestartKeeps
  <2>4. ASSUME NEW c \in Clients, Ask(c) PROVE OtaInv'
    BY <2>1, <2>4, PushKeeps, AskRollbackKeeps DEF Ask
  <2>5. ASSUME NEW c \in Clients, Serve(c) PROVE OtaInv'
    <3>1. CASE Write(c) \/ Lock(c) \/ CheckRollback(c) \/ Clean(c)
      BY <2>1, <3>1, WriteKeeps, LockKeeps, CheckRollbackKeeps, CleanKeeps
    <3>2. CASE Install(c)
      BY <2>1, <3>2, VerifyKeeps, OpenBackupKeeps, BackupKeeps, StageKeeps, RenameKeeps,
         ReloadKeeps, RelabelKeeps, SaveKeeps DEF Install
    <3> QED BY <2>5, <3>1, <3>2 DEF Serve
  <2> QED BY <1>1, <2>2, <2>3, <2>4, <2>5 DEF Next
<1>2. CASE UNCHANGED vars
  <2>1. /\ given' = given /\ tmp' = tmp /\ file' = file /\ backup' = backup /\ saved' = saved
        /\ staged' = staged /\ loaded' = loaded /\ cur' = cur /\ prev' = prev /\ up' = up
        /\ holder' = holder /\ pc' = pc /\ req' = req /\ status' = status /\ before' = before
        /\ installs' = installs /\ rollbacks' = rollbacks /\ crashes' = crashes
        /\ labels' = labels /\ OwnPath' = OwnPath /\ Checked' = Checked
    BY <1>2 DEF vars, disk, labels, bounds, OwnPath, Checked
  <2>2. TypeOK'
    <3>1. Requests' = Requests
      BY <2>1 DEF Requests, Pushes
    <3> QED BY <2>1, <3>1 DEF OtaInv, TypeOK
  <2>3. MutexInv'
    BY <2>1 DEF OtaInv, MutexInv
  <2>4. ASSUME NEW d \in Clients
        PROVE  (RequestFits(d) /\ PackageKept(d) /\ OldKept(d) /\ NewPlaced(d))'
    <3>1. RequestFits(d) /\ PackageKept(d) /\ OldKept(d) /\ NewPlaced(d) /\ Tmp(d)' = Tmp(d)
      BY <2>1 DEF OtaInv, Tmp
    <3>2. RequestFits(d)'
      BY <2>1, <3>1 DEF RequestFits, NoRequest
    <3>3. PackageKept(d)'
      BY <2>1, <3>1 DEF PackageKept
    <3> QED BY <2>1, <3>1, <3>2, <3>3, OthersKept
  <2>5. HarmlessInv'
    BY <2>1 DEF OtaInv, HarmlessInv, Harmless, Quiet
  <2>6. LabelInv'
    BY <2>1 DEF OtaInv, LabelInv, Running, TrueContent
  <2>7. WholeInv'
    BY <2>1 DEF OtaInv, WholeInv
  <2> QED BY <2>2, <2>3, <2>4, <2>5, <2>6, <2>7 DEF OtaInv
<1> QED BY <1>1, <1>2

LEMMA InvIsTold == OtaInv => InstalledIsTold
<1> SUFFICES ASSUME OtaInv, OwnPath, rollbacks = 0
             PROVE  /\ crashes = 0 /\ (given.target = "model" \/ Checked) => LabelTells
                    /\ Checked /\ ~given.faults => FileWhole
  BY DEF InstalledIsTold
<1>1. ASSUME crashes = 0, given.target = "model" \/ Checked, Quiet
      PROVE  TrueContent(cur) = Running
  <2>1. \A c \in Clients : pc[c] # "saving"
    BY <1>1, OtaAssumption DEF OtaInv, MutexInv, Quiet, Steps
  <2> QED BY <1>1, <2>1 DEF OtaInv, LabelInv
<1>2. ASSUME Checked, ~given.faults PROVE FileWhole
  BY <1>2 DEF OtaInv, WholeInv, FileWhole
<1> QED BY <1>1, <1>2 DEF LabelTells

(* Whatever copies, checks and hot reloads fail and whoever pushes at the  *)
(* same time: until a rollback or a crash the label is true of what runs,  *)
(* and a process that dies while checked packages are pushed finds a whole *)
(* file (ota_manager.cpp:224-315, :116-147).                               *)
THEOREM InstalledAlwaysTold == Spec => []InstalledIsTold
<1>1. OtaInv => InstalledIsTold
  BY InvIsTold
<1>2. Init => OtaInv
  BY InitHasInv
<1>3. OtaInv /\ [Next]_vars => OtaInv'
  BY OtaStep
<1> QED BY <1>1, <1>2, <1>3, PTL DEF Spec

-----------------------------------------------------------------------------
(* Where a request is answered.                                            *)
LEMMA Answering ==
  ASSUME OtaInv, Next, NEW c \in Clients, Answers(c)
  PROVE  \/ Verify(c) \/ OpenBackup(c) \/ Backup(c) \/ Stage(c) \/ Reload(c) \/ Save(c)
         \/ CheckRollback(c)
<1>1. pc[c] \notin {"cleaning", "idle"} /\ pc'[c] = "cleaning" /\ TypeOK
  BY DEF Answers, OtaInv
<1>2. ~Crash /\ ~Restart
  BY <1>1 DEF Crash, Restart
<1>3. ASSUME NEW d \in Clients, Ask(d) PROVE FALSE
  BY <1>1, <1>3 DEF Ask, Push, AskRollback, Goto, TypeOK
<1>4. ASSUME NEW d \in Clients, Serve(d) PROVE d = c /\ pc[c] # "renaming"
  <2>1. CASE Write(d) \/ Lock(d) \/ Clean(d)
    BY <1>1, <2>1 DEF Write, Lock, Clean, Goto, At, TypeOK
  <2>2. CASE CheckRollback(d)
    BY <1>1, <2>2 DEF CheckRollback, Goto, At, Return, Stay, TypeOK
  <2>3. CASE Verify(d) \/ OpenBackup(d) \/ Backup(d) \/ Stage(d)
    BY <1>1, <2>3 DEF Verify, OpenBackup, Backup, Stage, Goto, At, Return, Stay, TypeOK
  <2>4. CASE Rename(d) \/ Reload(d) \/ Relabel(d) \/ Save(d)
    BY <1>1, <2>4 DEF Rename, Reload, Relabel, Save, Goto, At, Return, Stay, TypeOK
  <2> QED BY <1>4, <2>1, <2>2, <2>3, <2>4 DEF Serve, Install
<1>5. Serve(c) /\ pc[c] # "renaming"
  BY <1>2, <1>3, <1>4 DEF Next
<1>6. ~Write(c) /\ ~Lock(c) /\ ~Clean(c) /\ ~Rename(c) /\ ~Relabel(c)
  BY <1>1, <1>5 DEF Write, Lock, Clean, Rename, Relabel, Goto, At, Stay, TypeOK
<1> QED BY <1>5, <1>6 DEF Serve, Install

(* A model that is answered "failed" has changed nothing.                  *)
LEMMA FailureStep ==
  ASSUME OtaInv, Next, NEW c \in Clients, ~given.faults, given.target = "model",
         given.autos \subseteq {TRUE}
  PROVE  FailureUndone(c)
<1> SUFFICES ASSUME Answers(c), SaysFailed(status'[c]) PROVE Installed' = before
  BY DEF FailureUndone
<1>1. /\ TypeOK /\ RequestFits(c) /\ OldKept(c) /\ NewPlaced(c) /\ req[c] \in Requests
      /\ pc'[c] = "cleaning" /\ pc[c] # "cleaning"
  BY OutsideFacts DEF OtaInv, Answers
<1>2. SUFFICES ASSUME TRUE
               PROVE  file' = before.file /\ loaded' = before.loaded /\ labels' = before.labels
  BY <1>1 DEF TypeOK, Installed, labels
<1>3. CASE Verify(c)
  BY <1>1, <1>3 DEF Verify, At, OldKept, Steps, disk
<1>4. CASE OpenBackup(c)
  BY <1>1, <1>4 DEF OpenBackup, At, OldKept, Steps
<1>5. CASE Backup(c)
  BY <1>1, <1>5 DEF Backup, At, OldKept, Steps
<1>6. CASE CheckRollback(c)
  BY <1>1, <1>6 DEF CheckRollback, At, OldKept, Steps, disk
<1>7. CASE Stage(c)
  <2>1. pc[c] = "staging" /\ Source(c) = None
        /\ file' = file /\ loaded' = loaded /\ labels' = labels
    BY <1>1, <1>7 DEF Stage, At, Stay, Goto, TypeOK, disk
  <2>2. ASSUME req[c].op = "undo" PROVE FALSE
    <3>1. backup = before.file /\ backup = None
      BY <1>1, <2>1, <2>2 DEF OldKept, CopyOfOld, Source
    <3>2. before.file \in Contents /\ None \notin Contents
      BY <1>1, OtaAssumption DEF TypeOK, Contents, None, Damaged
    <3> QED BY <3>1, <3>2
  <2> QED BY <1>1, <2>1, <2>2 DEF OldKept, Steps
<1>8. CASE Reload(c)
  <2>1. /\ pc[c] = "loading" /\ pc[c] \in Steps /\ file' = file /\ labels' = labels
        /\ loaded' = IF HotReloads THEN file ELSE loaded
    BY <1>8 DEF Reload, At, Steps, disk
  <2>2. /\ ~(req[c].op = "install" /\ ~HotReloads /\ req[c].auto)
        /\ ~((req[c].op = "install" /\ HotReloads) \/ req[c].op = "rollback")
    BY <1>1, <1>8 DEF Reload, Stay, Goto, TypeOK
  <2>3. req[c].op = "install" => req[c].auto = TRUE
    BY <1>1, RequestFields
  <2>4. req[c].op = "undo"
    BY <1>1, <2>1, <2>2, <2>3 DEF RequestFits
  <2>5. file = before.file /\ loaded = before.loaded /\ labels = before.labels
    BY <1>1, <2>1, <2>4 DEF OldKept, CopyOfOld, Steps
  <2>6. Harmless(file, loaded)
    BY <2>1, <2>5 DEF OtaInv, HarmlessInv
  <2>7. loaded' = loaded
    BY <1>1, <2>1, <2>6, ReloadTakes
  <2> QED BY <2>1, <2>5, <2>7
<1>9. CASE Save(c)
  <2>1. status'[c] = 0
    BY <1>1, <1>9 DEF Save, Return, TypeOK
  <2> QED BY <2>1 DEF SaysFailed
<1> QED BY <1>3, <1>4, <1>5, <1>6, <1>7, <1>8, <1>9, Answering

(* A good package is installed.                                            *)
LEMMA GoodStep ==
  ASSUME OtaInv, Next, NEW c \in Clients, ~given.faults, ~given.readOnly, OwnPath
  PROVE  GoodPushDone(c)
<1> SUFFICES ASSUME Answers(c), Good(req[c])
             PROVE  status'[c] # -1 /\ file' = req[c].version
  BY DEF GoodPushDone
<1>1. /\ TypeOK /\ RequestFits(c) /\ PackageKept(c) /\ OldKept(c) /\ NewPlaced(c)
      /\ req[c] \in Requests /\ pc'[c] = "cleaning" /\ pc[c] # "cleaning"
      /\ req[c].op = "install" /\ req[c].content = req[c].version
      /\ req[c].version \in Packages
  BY OutsideFacts, RequestFields DEF OtaInv, Answers, Good
<1>2. pc[c] \in Steps => tmp[Tmp(c)] = req[c].version
  BY <1>1 DEF PackageKept
<1>3. ~Verify(c)
  BY <1>1, <1>2 DEF Verify, At, Stay, Goto, TypeOK, Steps
<1>4. ~OpenBackup(c)
  BY <1>1 DEF OpenBackup, Stay, Goto, TypeOK
<1>5. ~Backup(c)
  BY <1>1 DEF Backup, Stay, Goto, TypeOK
<1>6. ~CheckRollback(c)
  BY <1>1 DEF CheckRollback, At, RequestFits
<1>7. ASSUME Stage(c) PROVE FALSE
  <2>1. Source(c) = None /\ pc[c] \in Steps
    BY <1>1, <1>7 DEF Stage, At, Stay, Goto, TypeOK, Steps
  <2> QED BY <1>1, <1>2, <2>1, OtaAssumption DEF Source
<1>8. ASSUME Reload(c) PROVE FALSE
  <2>1. pc[c] = "loading" /\ pc[c] \in Steps /\ given.target = "model"
    BY <1>1, <1>8 DEF Reload, At, Steps, RequestFits
  <2>2. file = req[c].version /\ loaded = before.loaded
    BY <1>1, <2>1 DEF NewPlaced, OldKept, Steps
  <2>3. HotReloads
    BY <1>1, <2>1, <2>2, OtaAssumption DEF HotReloads, Good
  <2> QED BY <1>1, <1>8, <2>3 DEF Reload, Stay, Goto, TypeOK
<1>9. CASE Save(c)
  <2>1. pc[c] = "writing status" /\ file' = file /\ status'[c] \in {0, 2}
    BY <1>1, <1>9 DEF Save, At, Return, TypeOK
  <2>2. file = req[c].version
    BY <1>1, <2>1 DEF NewPlaced
  <2>3. status'[c] # -1
    <3>1. 0 # -1 /\ 2 # -1
      OBVIOUS
    <3> QED BY <2>1, <3>1
  <2> QED BY <2>1, <2>2, <2>3
<1> QED BY <1>3, <1>4, <1>5, <1>6, <1>7, <1>8, <1>9, Answering

(* When no copy fails: a failure has changed nothing of a model, and a     *)
(* good package is installed, whoever else pushes or rolls back and        *)
(* wherever the process dies in between (ota_manager.cpp:280-300).         *)
THEOREM AnswersAlwaysTrue == Spec => AnswersAreTrue
<1>1. Init => OtaInv
  BY InitHasInv
<1>2. OtaInv /\ [Next]_vars => OtaInv'
  BY OtaStep
<1>3. OtaInv /\ [Next]_vars =>
        [\A c \in Clients : ~given.faults =>
          /\ given.target = "model" /\ given.autos \subseteq {TRUE} => FailureUndone(c)
          /\ OwnPath /\ ~given.readOnly => GoodPushDone(c)]_vars
  BY FailureStep, GoodStep
<1> QED BY <1>1, <1>2, <1>3, PTL DEF Spec, AnswersAreTrue
=============================================================================
