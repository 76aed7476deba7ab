--------------------------- MODULE DatasetStoreProofs --------------------------
(***************************************************************************)
(* What DatasetStore guarantees for any number of datasets, samples,       *)
(* suggestions, calls, generation runs, exceptions and process ends: the   *)
(* files of a dataset follow its rows unless the dataset is among those    *)
(* the code has let diverge, the count the user is shown is exact or one   *)
(* too many, and a suggestion is carried out once and for good.            *)
(***************************************************************************)
EXTENDS DatasetStore, FiniteSetTheorems, SequenceTheorems, WellFoundedInduction, TLAPS

-----------------------------------------------------------------------------
(* The shape of rows, paths and sessions.                                  *)
IsSeq(s) == s \in Seq({s[i] : i \in DOMAIN s})
IsPath(p) == p = [dir |-> p.dir, sub |-> p.sub, file |-> p.file, copy |-> p.copy]
IsRow(r) == r = [ds |-> r.ds, path |-> r.path, status |-> r.status, from |-> r.from]
IsDataset(r) == r = [name |-> r.name, status |-> r.status, dir |-> r.dir, total |-> r.total]
IsNote(n) == n = [sample |-> n.sample, action |-> n.action, status |-> n.status, out |-> n.out]
IsSession(s) ==
  s = [op |-> s.op, ds |-> s.ds, dir |-> s.dir, todo |-> s.todo, rows |-> s.rows,
       news |-> s.news, note |-> s.note, count |-> s.count, then |-> s.then]

(* The folders a dataset may ever have, none among them.                   *)
Dirs(d) == {NoDir} \union {DirOf(d, n) : n \in Names}

(* The calls that make a dataset, and all of the user's thread.            *)
Makes == {"create", "bundle", "store"}
UserOps == Makes \union Removes \union {"stage", "import", "repair"}

DatasetsTyped ==
  /\ IsSeq(datasets)
  /\ \A d \in Ids(datasets) :
       /\ IsDataset(datasets[d]) /\ datasets[d].total \in Nat
       /\ datasets[d].dir \in Dirs(d) /\ (datasets[d].dir = NoDir <=> Deleted(d))

RowTyped(r) == IsRow(r) /\ IsPath(r.path) /\ r.path.dir \in Dirs(r.ds)
SamplesTyped ==
  /\ IsSeq(samples)
  /\ \A s \in Ids(samples) : RowTyped(samples[s]) /\ samples[s].ds \in Ids(datasets)

NotesTyped ==
  /\ IsSeq(notes)
  /\ \A n \in Ids(notes) :
       /\ IsNote(notes[n]) /\ notes[n].action \in {"delete", "repair"}
       /\ notes[n].sample \in Ids(samples) /\ notes[n].out \in 0 .. Len(samples)

(* What a session says of itself, whatever the other one does: the rows it *)
(* has added are of its dataset, a dataset it makes is the next one, and   *)
(* the suggestion it carries out is still open.                            *)
SessionTyped(t, s) ==
  /\ IsSession(s)
  /\ IF t = "ui" THEN s.op \in UserOps ELSE s.op = "persist"
  /\ s.dir \in Dirs(s.ds)
  /\ IsSeq(s.rows)
  /\ \A i \in Ids(s.rows) :
       /\ RowTyped(s.rows[i]) /\ s.rows[i].ds = s.ds /\ s.rows[i].status # "deleted"
       /\ s.rows[i].path.dir = s.dir
SessionTarget(s) ==
  IF s.op \in Makes
  THEN /\ s.ds = Len(datasets) + 1 /\ s.news = <<s.news[1]>>
       /\ IsDataset(s.news[1]) /\ s.news[1].total = 0
       /\ s.news[1].dir = s.dir /\ s.dir # NoDir /\ s.news[1].status # "deleted"
  ELSE s.ds \in Ids(datasets) /\ s.news = <<>>
SessionDetail(s) ==
  /\ s.op \in {"create", "stage"} \union Removes => s.rows = <<>>
  /\ s.op \in {"stage", "import"} => ~Deleted(s.ds)
  /\ s.op = "rename" =>
       /\ s.dir = NoDir <=> Deleted(s.ds)
       /\ \A x \in s.count : x \in Ids(samples) /\ samples[x].ds = s.ds
  /\ s.op \in {"drop", "repair"} =>
       /\ s.note \in Ids(notes) /\ notes[s.note].status \in {"pending", "approved"}
       /\ samples[notes[s.note].sample].ds = s.ds
       /\ notes[s.note].action = IF s.op = "drop" THEN "delete" ELSE "repair"
  /\ s.op = "drop" => s.count \in Nat
  /\ s.op = "repair" => Len(s.rows) = 1 /\ s.rows[1].from = notes[s.note].sample
  /\ s.op \in {"import", "bundle", "persist"} => \A i \in Ids(s.rows) : s.rows[i].from = 0
  /\ s.op = "store" => \A i \in Ids(s.rows) : ~Skipped(s.rows[i].from)

SessionsTyped ==
  /\ sess = [t \in Threads |-> sess[t]]
  /\ \A t \in Threads : Open(t) => /\ SessionTyped(t, sess[t])
                                  /\ SessionTarget(sess[t]) /\ SessionDetail(sess[t])

Typed ==
  /\ DatasetsTyped /\ SamplesTyped /\ NotesTyped /\ SessionsTyped
  /\ IsFiniteSet(disk)

-----------------------------------------------------------------------------
(* The files.                                                              *)

(* Datasets the invariant speaks of.                                       *)
Sound(d) == d \notin hurt \union raced /\ (d \in Ids(datasets) => ~Deleted(d))

(* The rows a session has added have files of their own.                   *)
RowsHeld(s) ==
  /\ \A i \in Ids(s.rows) : s.rows[i].path \in disk
  /\ \A i, j \in Ids(s.rows) : i # j => s.rows[i].path # s.rows[j].path
  /\ \A i \in Ids(s.rows), x \in Live(s.ds) : s.rows[i].path # samples[x].path

(* Whole, once the paths are rewritten; and whole but for one sample.      *)
WholeMoved(s) ==
  LET old == datasets[s.ds].dir
  IN  /\ \A x \in Live(s.ds) : /\ x \in s.count /\ samples[x].path.dir = old
                               /\ Moved(samples[x].path, old, s.dir) \in disk
      /\ \A x, y \in Live(s.ds) : x # y => samples[x].path # samples[y].path
WholeBut(d, but) ==
  /\ \A x \in Live(d) \ {but} : samples[x].path \in disk /\ samples[x].path.dir = datasets[d].dir
  /\ \A x, y \in Live(d) \ {but} : x # y => samples[x].path # samples[y].path

SessionHolds(s) ==
  /\ RowsHeld(s)
  /\ s.op \in {"stage", "import", "persist", "repair"} => Whole(s.ds)
  /\ s.op \in {"import", "persist", "repair"} => s.dir = datasets[s.ds].dir
  /\ s.op = "rename" => WholeMoved(s)
  /\ s.op = "drop" => WholeBut(s.ds, notes[s.note].sample)

RacedIsKnown ==
  \A t, o \in Threads : t # o /\ Open(t) /\ Open(o) /\ sess[t].ds = sess[o].ds => sess[t].ds \in raced
RestIsWhole == \A d \in Ids(datasets) \ Busy : Sound(d) => Whole(d)
SessionsHold == \A t \in Threads : Open(t) /\ Sound(sess[t].ds) => SessionHolds(sess[t])

FilesInv == RacedIsKnown /\ RestIsWhole /\ SessionsHold

(* The counts: what a deletion of a sample has read stays true.            *)
CountInv ==
  /\ CountIsLiveOrOneMore
  /\ \A t \in Threads : Open(t) /\ sess[t].op = "drop" /\ sess[t].ds \notin raced =>
       sess[t].count = Cardinality(Live(sess[t].ds))

(* The suggestions.                                                        *)
NotesInv == \A n \in Ids(notes) : notes[n].status = "applied" => Carried(n)

StoreInv == Typed /\ FilesInv /\ CountInv /\ NotesInv

-----------------------------------------------------------------------------
(* Sequences.                                                              *)

LEMMA SeqShape ==
  ASSUME NEW s, IsSeq(s)
  PROVE  Len(s) \in Nat /\ DOMAIN s = Ids(s) /\ Ids(s) = 1 .. Len(s)
BY LenProperties DEF IsSeq, Ids

LEMMA SeqOfShape ==
  ASSUME NEW s, NEW n \in Nat, DOMAIN s = 1 .. n, s = [i \in 1 .. n |-> s[i]]
  PROVE  IsSeq(s) /\ Len(s) = n
<1>1. s \in [1 .. n -> {s[i] : i \in DOMAIN s}]
  OBVIOUS
<1>2. s \in Seq({s[i] : i \in DOMAIN s})
  BY <1>1, SeqDef
<1> QED
  BY <1>2 DEF IsSeq

LEMMA SeqOfFunction ==
  ASSUME NEW S, NEW n \in Nat, NEW s \in [1 .. n -> S]
  PROVE  IsSeq(s) /\ Len(s) = n
BY SeqOfShape

(* What t added to the end of s is.                                        *)
Joins(u, s, t) ==
  /\ IsSeq(u) /\ Len(u) = Len(s) + Len(t)
  /\ Ids(s) \subseteq Ids(u)
  /\ \A i \in Ids(s) : u[i] = s[i]
  /\ \A i \in Ids(t) : Len(s) + i \in Ids(u) /\ u[Len(s) + i] = t[i]
  /\ \A i \in Ids(u) : i \in Ids(s) \/ \E j \in Ids(t) : i = Len(s) + j

LEMMA Concat == ASSUME NEW s, NEW t, IsSeq(s), IsSeq(t) PROVE Joins(s \o t, s, t)
<1>1. PICK S : s \in Seq(S)
  BY DEF IsSeq
<1>2. PICK T : t \in Seq(T)
  BY DEF IsSeq
<1>3. s \in Seq(S \union T) /\ t \in Seq(S \union T)
  BY <1>1, <1>2, SeqMonotonic
<1>4. /\ s \o t \in Seq(S \union T) /\ Len(s \o t) = Len(s) + Len(t)
      /\ \A i \in 1 .. Len(s) + Len(t) :
           (s \o t)[i] = IF i <= Len(s) THEN s[i] ELSE t[i - Len(s)]
  BY <1>3, ConcatProperties
<1>5. Len(s) \in Nat /\ Len(t) \in Nat
  BY <1>3, LenProperties
<1>6. PICK n \in Nat, m \in Nat : n = Len(s) /\ m = Len(t)
  BY <1>5
<1>7. \A i \in Ids(s) : i \in Ids(s \o t) /\ (s \o t)[i] = s[i]
  BY <1>4, <1>6 DEF Ids
<1>8. ASSUME NEW i \in 1 .. m
      PROVE  n + i \in 1 .. n + m /\ (s \o t)[n + i] = t[i]
  <2>1. n + i \in 1 .. n + m /\ ~(n + i <= n) /\ (n + i) - n = i
    BY <1>6
  <2> QED
    BY <1>4, <1>6, <2>1
<1>9. ASSUME NEW i \in 1 .. n + m, i \notin 1 .. n PROVE \E j \in 1 .. m : i = n + j
  <2>1. i - n \in 1 .. m /\ i = n + (i - n)
    BY <1>6, <1>9
  <2> QED
    BY <2>1
<1>10. IsSeq(s \o t)
  <2>1. s \o t \in [1 .. n + m -> S \union T]
    BY <1>4, <1>6, LenProperties
  <2> QED
    <3>1. PICK u, U : u = s \o t /\ U = S \union T /\ u \in [1 .. n + m -> U]
      BY <2>1
    <3>2. n + m \in Nat
      BY <1>6
    <3> QED
      BY <3>1, <3>2, SeqOfFunction
<1> QED
  BY <1>4, <1>6, <1>7, <1>8, <1>9, <1>10 DEF Ids, Joins

LEMMA One == ASSUME NEW x PROVE IsSeq(<<x>>) /\ Len(<<x>>) = 1 /\ <<x>>[1] = x /\ Ids(<<x>>) = {1}
<1>1. <<x>> \in Seq({x}) /\ Len(<<x>>) = 1 /\ <<x>>[1] = x /\ DOMAIN <<x>> = 1 .. 1
  OBVIOUS
<1>2. {<<x>>[i] : i \in DOMAIN <<x>>} = {x}
  BY <1>1
<1> QED
  BY <1>1, <1>2 DEF IsSeq, Ids

LEMMA Empty == IsSeq(<<>>) /\ Len(<<>>) = 0 /\ Ids(<<>>) = {}
BY EmptySeq DEF IsSeq, Ids

LEMMA Appended ==
  ASSUME NEW s, IsSeq(s), NEW x
  PROVE  /\ IsSeq(Append(s, x)) /\ Len(Append(s, x)) = Len(s) + 1
         /\ Ids(Append(s, x)) = Ids(s) \union {Len(s) + 1}
         /\ \A i \in Ids(s) : Append(s, x)[i] = s[i]
         /\ Append(s, x)[Len(s) + 1] = x
<1>1. PICK S : s \in Seq(S)
  BY DEF IsSeq
<1>2. PICK n \in Nat : n = Len(s)
  BY SeqShape
<1>3. s \in Seq(S \union {x})
  BY <1>1, SeqMonotonic
<1>4. /\ Append(s, x) \in Seq(S \union {x}) /\ Len(Append(s, x)) = n + 1
      /\ Append(s, x)[n + 1] = x /\ \A i \in 1 .. n : Append(s, x)[i] = s[i]
  BY <1>2, <1>3
<1>5. Append(s, x) \in [1 .. n + 1 -> S \union {x}]
  BY <1>4, LenProperties
<1>6. IsSeq(Append(s, x))
  <2>1. PICK u, U : u = Append(s, x) /\ U = S \union {x} /\ u \in [1 .. n + 1 -> U]
    BY <1>5
  <2>2. n + 1 \in Nat
    BY <1>2
  <2> QED
    BY <2>1, <2>2, SeqOfFunction
<1>7. 1 .. n + 1 = (1 .. n) \union {n + 1}
  OBVIOUS
<1> QED
  BY <1>2, <1>4, <1>6, <1>7 DEF Ids

LEMMA SameShape ==
  ASSUME NEW s, IsSeq(s), NEW t, DOMAIN t = DOMAIN s, t = [i \in DOMAIN t |-> t[i]]
  PROVE  IsSeq(t) /\ Len(t) = Len(s) /\ Ids(t) = Ids(s)
<1>1. PICK n \in Nat : n = Len(s) /\ DOMAIN s = 1 .. n /\ Ids(s) = 1 .. n
  BY SeqShape
<1>2. IsSeq(t) /\ Len(t) = n
  BY <1>1, SeqOfShape
<1> QED
  BY <1>1, <1>2 DEF Ids

-----------------------------------------------------------------------------
(* Paths and folders.                                                      *)

LEMMA LeastNat == ASSUME NEW T \in SUBSET Nat, T # {} PROVE \E x \in T : \A y \in T : x <= y
<1> DEFINE R == {ss \in Nat \X Nat : ss[1] < ss[2]}
<1>1. IsWellFoundedOn(R, Nat)
  BY NatLessThanWellFounded DEF OpToRel
<1>2. PICK x \in T : \A y \in T : ~ (<<y, x>> \in R)
  <2> HIDE DEF R
  <2> QED BY <1>1, WFMin, T \subseteq Nat
<1>3. x \in Nat /\ \A y \in T : y \in Nat
  OBVIOUS
<1>4. \A y \in T : ~(y < x)
  BY <1>2, <1>3
<1> QED
  BY <1>3, <1>4

(* copy_into_dataset always finds a name that is not taken: of one more    *)
(* names than there are files.                                             *)
LEMMA PlaceIsFree ==
  ASSUME NEW dir, NEW sub, NEW file, IsFiniteSet(disk)
  PROVE  /\ Place(dir, sub, file) \notin disk
         /\ Place(dir, sub, file).dir = dir
         /\ IsPath(Place(dir, sub, file))
<1> DEFINE path(k) == [dir |-> dir, sub |-> sub, file |-> file, copy |-> k]
           n == Cardinality(disk)
           T == {k \in 0 .. n : path(k) \notin disk}
<1>1. n \in Nat
  BY FS_CardinalityType
<1>2. T # {}
  <2>1. SUFFICES ASSUME \A k \in 0 .. n : path(k) \in disk PROVE FALSE
    OBVIOUS
  <2>2. PICK f : f = [k \in 0 .. n |-> path(k)]
    OBVIOUS
  <2>3. f \in [0 .. n -> disk]
    BY <2>1, <2>2
  <2>4. \A k, l \in 0 .. n : f[k] = f[l] => k = l
    <3>1. \A k \in 0 .. n : f[k].copy = k
      BY <2>2
    <3> QED
      BY <3>1
  <2>5. f \in Injection(0 .. n, disk)
    BY <2>3, <2>4 DEF Injection, IsInjective
  <2>6. Cardinality(0 .. n) <= n
    BY <2>5, FS_Injection
  <2>7. Cardinality(0 .. n) = n + 1
    BY <1>1, FS_Interval
  <2> QED
    BY <1>1, <2>6, <2>7
<1>3. PICK m \in T : \A k \in T : m <= k
  <2>1. T \in SUBSET Nat
    BY <1>1
  <2> HIDE DEF T
  <2> QED
    BY <1>2, <2>1, LeastNat
<1>4. Min(T) \in T
  BY <1>3 DEF Min
<1>5. Place(dir, sub, file) = path(Min(T))
  BY DEF Place
<1>6. PICK k \in T : k = Min(T)
  BY <1>4
<1>7. path(k) \notin disk /\ path(k).dir = dir /\ IsPath(path(k))
  BY DEF IsPath
<1> QED
  BY <1>5, <1>6, <1>7

(* The folders of two datasets are apart.                                  *)
LEMMA DirsApart ==
  ASSUME NEW d \in Nat \ {0}, NEW e \in Nat \ {0}, d # e, NEW x \in Dirs(d), NEW y \in Dirs(e),
         x # NoDir \/ y # NoDir
  PROVE  x # y
<1>1. /\ \A n : <<d, n>>[1] = d /\ <<e, n>>[1] = e
      /\ NoDir[1] = 0
  BY DEF NoDir
<1>2. x = NoDir \/ x[1] = d
  BY <1>1 DEF Dirs, DirOf
<1>3. y = NoDir \/ y[1] = e
  BY <1>1 DEF Dirs, DirOf
<1> QED
  BY <1>1, <1>2, <1>3

(* Two files that are moved together stay two.                             *)
LEMMA MovedApart ==
  ASSUME NEW p, NEW q, IsPath(p), IsPath(q), p # q, p.dir = q.dir, NEW old, NEW new
  PROVE  Moved(p, old, new) # Moved(q, old, new)
<1>1. p.sub # q.sub \/ p.file # q.file \/ p.copy # q.copy
  BY DEF IsPath
<1>2. /\ Moved(p, old, new).sub = p.sub /\ Moved(p, old, new).file = p.file
      /\ Moved(p, old, new).copy = p.copy
  BY DEF IsPath, Moved
<1>3. /\ Moved(q, old, new).sub = q.sub /\ Moved(q, old, new).file = q.file
      /\ Moved(q, old, new).copy = q.copy
  BY DEF IsPath, Moved
<1> QED
  BY <1>1, <1>2, <1>3

LEMMA MovedPath ==
  ASSUME NEW p, IsPath(p), NEW old, NEW new
  PROVE  /\ IsPath(Moved(p, old, new))
         /\ Moved(p, old, new).dir = IF p.dir = old THEN new ELSE p.dir
<1>1. CASE p.dir = old
  <2>1. PICK q : q = [p EXCEPT !.dir = new]
    OBVIOUS
  <2>2. q = [dir |-> new, sub |-> p.sub, file |-> p.file, copy |-> p.copy]
    BY <2>1 DEF IsPath
  <2>3. IsPath(q) /\ q.dir = new
    BY <2>2 DEF IsPath
  <2> QED
    BY <1>1, <2>1, <2>3 DEF Moved
<1>2. CASE p.dir # old
  BY <1>2 DEF Moved
<1> QED
  BY <1>1, <1>2

(* The files that are left, and those that are moved, are finitely many.   *)
LEMMA MovedFinite ==
  ASSUME NEW D, IsFiniteSet(D), NEW old, NEW new
  PROVE  IsFiniteSet({Moved(p, old, new) : p \in D})
<1> DEFINE T == {Moved(p, old, new) : p \in D}
<1>1. PICK f : f = [p \in D |-> Moved(p, old, new)]
  OBVIOUS
<1>2. f \in Surjection(D, T)
  BY <1>1 DEF Surjection
<1> QED
  BY <1>2, FS_Surjection

-----------------------------------------------------------------------------
(* A step on dataset d leaves the files of every other dataset e alone.    *)

(* The rows of e are as they were, and only files in folders of d go.      *)
Apart(d, e) ==
  /\ d \in Nat \ {0} /\ e \in Nat \ {0} /\ d # e
  /\ Live(e)' = Live(e) /\ \A x \in Live(e) : samples'[x].path = samples[x].path
  /\ \A p \in disk \ disk' : p.dir \in Dirs(d)

LEMMA FileStays ==
  ASSUME NEW d, NEW e, Apart(d, e), NEW p \in disk, p.dir \in Dirs(e), p.dir # NoDir
  PROVE  p \in disk'
BY DirsApart DEF Apart

LEMMA WholeElsewhere ==
  ASSUME NEW d, NEW e, Apart(d, e), Whole(e),
         datasets[e].dir \in Dirs(e), datasets[e].dir # NoDir, datasets'[e].dir = datasets[e].dir
  PROVE  Whole(e)'
<1>1. /\ Live(e)' = Live(e) /\ \A x \in Live(e) : samples'[x].path = samples[x].path
  BY DEF Apart
<1>2. ASSUME NEW x \in Live(e)
      PROVE  samples[x].path \in disk' /\ samples[x].path.dir = datasets'[e].dir
  <2>1. samples[x].path \in disk /\ samples[x].path.dir = datasets[e].dir
    BY DEF Whole
  <2> QED
    BY <2>1, FileStays
<1>3. \A x, y \in Live(e) : x # y => samples[x].path # samples[y].path
  BY DEF Whole
<1> QED
  BY <1>1, <1>2, <1>3 DEF Whole

LEMMA HoldsElsewhere ==
  ASSUME NEW d, NEW o, NEW s, Apart(d, s.ds), SessionTyped(o, s), SessionTarget(s),
         SessionDetail(s), SessionHolds(s),
         s.ds \in Ids(datasets) =>
           /\ datasets[s.ds].dir \in Dirs(s.ds) /\ datasets[s.ds].dir # NoDir
           /\ datasets'[s.ds].dir = datasets[s.ds].dir /\ ~Deleted(s.ds),
         s.op = "drop" => notes'[s.note].sample = notes[s.note].sample
  PROVE  SessionHolds(s)'
<1>1. PICK e : e = s.ds
  OBVIOUS
<1>2. /\ Live(e)' = Live(e) /\ \A x \in Live(e) : samples'[x].path = samples[x].path
  BY <1>1 DEF Apart
<1>3. s.op \notin Makes => e \in Ids(datasets)
  BY <1>1 DEF SessionTarget
<1>4. RowsHeld(s)'
  <2>1. /\ \A i \in Ids(s.rows) : s.rows[i].path \in disk
        /\ \A i, j \in Ids(s.rows) : i # j => s.rows[i].path # s.rows[j].path
        /\ \A i \in Ids(s.rows), x \in Live(e) : s.rows[i].path # samples[x].path
    BY <1>1 DEF SessionHolds, RowsHeld
  <2>2. Ids(s.rows) # {} => s.dir \in Dirs(e) /\ s.dir # NoDir
    <3>1. s.dir \in Dirs(e)
      BY <1>1 DEF SessionTyped
    <3>2. CASE s.op \in Makes
      BY <3>1, <3>2 DEF SessionTarget
    <3>3. CASE s.op \in {"import", "persist", "repair"}
      BY <1>1, <1>3, <3>1, <3>3 DEF SessionHolds, Makes
    <3>4. CASE s.op \in {"stage"} \union Removes
      <4>1. s.rows = <<>>
        BY <3>4 DEF SessionDetail
      <4> QED
        BY <4>1, Empty
    <3> QED
      BY <3>2, <3>3, <3>4 DEF SessionTyped, UserOps
  <2>3. ASSUME NEW i \in Ids(s.rows) PROVE s.rows[i].path \in disk'
    <3>1. s.rows[i].path.dir = s.dir
      BY DEF SessionTyped
    <3> QED
      BY <1>1, <2>1, <2>2, <3>1, FileStays
  <2> QED
    BY <1>1, <1>2, <2>1, <2>3 DEF RowsHeld, Ids
<1>5. s.op \in {"stage", "import", "persist", "repair"} => Whole(e)'
  BY <1>1, <1>3, WholeElsewhere DEF SessionHolds, Makes
<1>6. s.op \in {"import", "persist", "repair"} => s.dir = datasets'[e].dir
  BY <1>1, <1>3 DEF SessionHolds, Makes
<1>7. s.op = "rename" => WholeMoved(s)'
  <2> SUFFICES ASSUME s.op = "rename" PROVE WholeMoved(s)'
    OBVIOUS
  <2>1. PICK old : old = datasets[e].dir /\ old = datasets'[e].dir
    BY <1>1, <1>3 DEF Makes
  <2>2. WholeMoved(s) /\ e \in Ids(datasets) /\ s.dir \in Dirs(e) /\ s.dir # NoDir
    BY <1>1, <1>3 DEF SessionHolds, Makes, SessionTyped, SessionDetail
  <2>3. ASSUME NEW x \in Live(e)
        PROVE  /\ x \in s.count /\ samples[x].path.dir = old
               /\ Moved(samples[x].path, old, s.dir) \in disk'
    <3>1. /\ x \in s.count /\ samples[x].path.dir = old
          /\ Moved(samples[x].path, old, s.dir) \in disk
      BY <1>1, <2>1, <2>2 DEF WholeMoved
    <3>2. PICK p : p = Moved(samples[x].path, old, s.dir)
      OBVIOUS
    <3>3. p.dir = s.dir
      BY <3>1, <3>2 DEF Moved
    <3> QED
      BY <1>1, <2>2, <3>1, <3>2, <3>3, FileStays
  <2>4. \A x, y \in Live(e) : x # y => samples[x].path # samples[y].path
    BY <1>1, <2>2 DEF WholeMoved
  <2> QED
    BY <1>1, <1>2, <2>1, <2>3, <2>4 DEF WholeMoved, Moved
<1>8. s.op = "drop" => WholeBut(e, notes[s.note].sample)'
  <2> SUFFICES ASSUME s.op = "drop" PROVE WholeBut(e, notes[s.note].sample)'
    OBVIOUS
  <2>1. PICK but : but = notes[s.note].sample /\ but = notes'[s.note].sample
    OBVIOUS
  <2>2. WholeBut(e, but) /\ e \in Ids(datasets)
    BY <1>1, <1>3, <2>1 DEF SessionHolds, Makes
  <2>3. ASSUME NEW x \in Live(e) \ {but}
        PROVE  samples[x].path \in disk' /\ samples[x].path.dir = datasets'[e].dir
    <3>1. samples[x].path \in disk /\ samples[x].path.dir = datasets[e].dir
      BY <2>2 DEF WholeBut
    <3> QED
      BY <1>1, <2>2, <3>1, FileStays
  <2>4. \A x, y \in Live(e) \ {but} : x # y => samples[x].path # samples[y].path
    BY <2>2 DEF WholeBut
  <2> QED
    BY <1>2, <2>1, <2>3, <2>4 DEF WholeBut
<1> QED
  BY <1>1, <1>4, <1>5, <1>6, <1>7, <1>8 DEF SessionHolds

(* One thread works on dataset d: what has to be looked at is d alone.     *)
LEMMA FilesFrame ==
  ASSUME StoreInv, NEW t \in Threads, NEW d \in Nat \ {0},
         hurt \subseteq hurt', raced \subseteq raced',
         \A o \in Threads \ {t} : sess'[o] = sess[o],
         Open(t) \/ Open(t)',
         Open(t) => sess[t].ds = d, Open(t)' => sess'[t].ds = d,
         \A o \in Threads \ {t} : Open(o) /\ sess[o].ds = d /\ Open(t)' => d \in raced',
         Ids(datasets) \subseteq Ids(datasets)', Ids(datasets)' \subseteq Ids(datasets) \union {d},
         \A e \in Ids(datasets) \ {d} : datasets'[e] = datasets[e],
         \A e \in Nat \ {0} : e # d => Apart(d, e),
         \A n \in Ids(notes) : notes'[n].sample = notes[n].sample,
         d \in Ids(datasets)' /\ Sound(d)' /\ d \notin Busy' => Whole(d)',
         Open(t)' /\ Sound(d)' => SessionHolds(sess[t])'
  PROVE  FilesInv'
<1>1. \A o \in Threads \ {t} : Open(o)' <=> Open(o)
  BY DEF Open
<1>2. \A o \in Threads \ {t} : Open(o) /\ sess[o].ds = d => d \in raced'
  BY DEF StoreInv, FilesInv, RacedIsKnown
<1>3. RacedIsKnown'
  BY <1>1, <1>2 DEF StoreInv, FilesInv, RacedIsKnown
<1>4. /\ IsSeq(datasets)
      /\ \A e \in Ids(datasets) : /\ e \in Nat \ {0}
                                  /\ datasets[e].dir \in Dirs(e) /\ (datasets[e].dir = NoDir <=> Deleted(e))
  <2>1. \A e \in Ids(datasets) : e \in Nat \ {0}
    BY SeqShape DEF StoreInv, Typed, DatasetsTyped, Ids
  <2> QED
    BY <2>1 DEF StoreInv, Typed, DatasetsTyped
<1>5. ASSUME NEW e, e # d, Sound(e)' PROVE Sound(e)
  BY <1>5 DEF Sound, Deleted
<1>6. ASSUME NEW e \in Ids(datasets)', e \notin Busy', Sound(e)', e # d PROVE Whole(e)'
  <2>1. e \in Ids(datasets) /\ Sound(e) /\ ~Deleted(e)
    BY <1>5, <1>6 DEF Sound
  <2>2. e \notin Busy
    <3>1. SUFFICES ASSUME NEW o \in Threads, Open(o), sess[o].ds = e PROVE FALSE
      BY DEF Busy
    <3>2. o # t
      BY <1>6, <3>1
    <3>3. Open(o)' /\ sess'[o].ds = e
      BY <1>1, <3>1, <3>2
    <3> QED
      BY <1>6, <3>3 DEF Busy
  <2>3. Whole(e)
    BY <2>1, <2>2 DEF StoreInv, FilesInv, RestIsWhole
  <2>4. datasets'[e].dir = datasets[e].dir /\ Apart(d, e)
    BY <1>4, <1>6, <2>1
  <2> QED
    BY <1>4, <2>1, <2>3, <2>4, WholeElsewhere
<1>7. RestIsWhole'
  BY <1>6 DEF RestIsWhole
<1>8. ASSUME NEW o \in Threads, Open(o)', Sound(sess[o].ds)' PROVE SessionHolds(sess[o])'
  <2>1. CASE o = t
    BY <1>8, <2>1
  <2>2. CASE o # t
    <3>1. PICK s : s = sess[o] /\ s = sess'[o]
      BY <2>2
    <3>2. Open(o) /\ s.ds # d
      <4>1. Open(o)
        BY <1>1, <1>8, <2>2
      <4>2. s.ds = d => FALSE
        BY <1>2, <1>8, <2>2, <3>1, <4>1 DEF Sound
      <4> QED
        BY <4>1, <4>2
    <3>3. Sound(s.ds)
      BY <1>5, <1>8, <3>1, <3>2
    <3>4. SessionTyped(o, s) /\ SessionTarget(s) /\ SessionDetail(s) /\ SessionHolds(s)
      BY <3>1, <3>2, <3>3 DEF StoreInv, Typed, SessionsTyped, FilesInv, SessionsHold
    <3>5. s.ds \in Nat \ {0}
      <4>1. Len(datasets) \in Nat
        BY <1>4, SeqShape
      <4> QED
        BY <1>4, <3>4, <4>1 DEF SessionTarget
    <3>6. Apart(d, s.ds)
      BY <3>2, <3>5
    <3>7. s.ds \in Ids(datasets) =>
            /\ datasets[s.ds].dir \in Dirs(s.ds) /\ datasets[s.ds].dir # NoDir
            /\ datasets'[s.ds].dir = datasets[s.ds].dir /\ ~Deleted(s.ds)
      BY <1>4, <3>2, <3>3 DEF Sound
    <3>8. s.op = "drop" => notes'[s.note].sample = notes[s.note].sample
      BY <3>4 DEF SessionDetail
    <3>9. SessionHolds(s)'
      BY <3>4, <3>6, <3>7, <3>8, HoldsElsewhere
    <3> QED
      BY <3>1, <3>9
  <2> QED
    BY <2>1, <2>2
<1>9. SessionsHold'
  BY <1>8 DEF SessionsHold
<1> QED
  BY <1>3, <1>7, <1>9 DEF FilesInv

-----------------------------------------------------------------------------
(* A call begins.                                                          *)

(* What a session says of itself speaks of the tables only.                *)
LEMMA TablesStay ==
  ASSUME NEW s, datasets' = datasets, samples' = samples, notes' = notes
  PROVE  /\ SessionTarget(s) => SessionTarget(s)'
         /\ SessionDetail(s) => SessionDetail(s)'
         /\ \A d : Live(d)' = Live(d)
         /\ DatasetsTyped => DatasetsTyped'
         /\ SamplesTyped => SamplesTyped'
         /\ NotesTyped => NotesTyped'
         /\ NotesInv => NotesInv'
<1>1. SessionTarget(s) => SessionTarget(s)'
  BY DEF SessionTarget
<1>2. SessionDetail(s) => SessionDetail(s)'
  BY DEF SessionDetail, Deleted, Skipped, Kept
<1>3. \A d : Live(d)' = Live(d)
  BY DEF Live
<1>4. DatasetsTyped => DatasetsTyped'
  BY DEF DatasetsTyped, Deleted
<1>5. (SamplesTyped => SamplesTyped') /\ (NotesTyped => NotesTyped')
  BY DEF SamplesTyped, NotesTyped
<1>6. NotesInv => NotesInv'
  BY DEF NotesInv, Carried
<1> QED
  BY <1>1, <1>2, <1>3, <1>4, <1>5, <1>6

LEMMA OpenKeeps ==
  ASSUME StoreInv, NEW t \in Threads, NEW s,
         ~Open(t), sess' = [sess EXCEPT ![t] = s],
         raced' = raced \union Overlap(t, s.ds), hurt \subseteq hurt',
         datasets' = datasets, samples' = samples, notes' = notes,
         IsFiniteSet(disk'), s.ds \in Nat \ {0},
         SessionTyped(t, s), SessionTarget(s), SessionDetail(s),
         \A p \in disk \ disk' : p.dir \in Dirs(s.ds),
         s.op = "drop" => s.count = Cardinality(Live(s.ds)),
         Sound(s.ds)' /\ (s.ds \in Ids(datasets) => Whole(s.ds)) => SessionHolds(s)'
  PROVE  StoreInv'
<1>1. Typed /\ SessionsTyped /\ DatasetsTyped /\ SamplesTyped /\ NotesTyped
  BY DEF StoreInv, Typed
<1>2. /\ sess' = [u \in Threads |-> sess'[u]] /\ sess'[t] = s
      /\ \A o \in Threads \ {t} : sess'[o] = sess[o]
  BY <1>1 DEF SessionsTyped
<1>3. \A o \in Threads \ {t} : Open(o)' <=> Open(o)
  BY <1>2 DEF Open
<1>4. Open(t)'
  BY <1>2 DEF Open, SessionTyped, UserOps, Makes, Removes
<1>5. SessionsTyped'
  <2>1. ASSUME NEW o \in Threads, Open(o)'
        PROVE  (SessionTyped(o, sess[o]) /\ SessionTarget(sess[o]) /\ SessionDetail(sess[o]))'
    <3>1. PICK r : r = sess'[o]
      OBVIOUS
    <3>2. SessionTyped(o, r) /\ SessionTarget(r) /\ SessionDetail(r)
      <4>1. CASE o = t
        BY <1>2, <3>1, <4>1
      <4>2. CASE o # t
        BY <1>1, <1>2, <1>3, <2>1, <3>1, <4>2 DEF SessionsTyped
      <4> QED
        BY <4>1, <4>2
    <3>3. SessionTarget(r)' /\ SessionDetail(r)'
      BY <3>2, TablesStay
    <3>4. SessionTyped(o, r)'
      BY <3>2 DEF SessionTyped, RowTyped
    <3> QED
      BY <3>1, <3>3, <3>4
  <2> QED
    BY <1>2, <2>1 DEF SessionsTyped
<1>6. Typed'
  BY <1>1, <1>5, TablesStay DEF Typed
<1>7. PICK d \in Nat \ {0} : d = s.ds
  OBVIOUS
<1>8. \A o \in Threads \ {t} : Open(o) /\ sess[o].ds = d => d \in raced'
  BY <1>7 DEF Overlap
<1>9. d \in Ids(datasets) /\ Sound(d)' => Whole(d)
  <2> SUFFICES ASSUME d \in Ids(datasets), Sound(d)' PROVE Whole(d)
    OBVIOUS
  <2>1. d \notin Busy
    <3>1. SUFFICES ASSUME NEW o \in Threads, Open(o), sess[o].ds = d PROVE FALSE
      BY DEF Busy
    <3>2. o # t
      BY <3>1
    <3> QED
      BY <1>8, <3>1, <3>2 DEF Sound
  <2>2. Sound(d)
    BY DEF Sound, Deleted
  <2> QED
    BY <2>1, <2>2 DEF StoreInv, FilesInv, RestIsWhole
<1>10. Sound(d)' => SessionHolds(s)'
  BY <1>7, <1>9
<1>11. \A e : e \in Nat \ {0} /\ e # d => Apart(d, e)
  BY <1>7, TablesStay DEF Apart
<1>12. FilesInv'
  <2>1. d \in Busy'
    BY <1>2, <1>4, <1>7 DEF Busy
  <2> QED
    BY <1>2, <1>4, <1>7, <1>8, <1>10, <1>11, <2>1, FilesFrame
<1>13. CountInv'
  <2>1. \A e : Live(e)' = Live(e)
    BY TablesStay
  <2>2. CountIsLiveOrOneMore'
    BY <2>1 DEF StoreInv, CountInv, CountIsLiveOrOneMore, Deleted
  <2>3. ASSUME NEW o \in Threads, Open(o)', sess'[o].op = "drop", sess'[o].ds \notin raced'
        PROVE  sess'[o].count = Cardinality(Live(sess'[o].ds))
    <3>1. CASE o = t
      BY <1>2, <2>3, <3>1
    <3>2. CASE o # t
      BY <1>2, <1>3, <2>3, <3>2 DEF StoreInv, CountInv
    <3> QED
      BY <3>1, <3>2
  <2>4. ASSUME NEW o \in Threads, Open(o)', sess'[o].op = "drop", sess'[o].ds \notin raced'
        PROVE  sess'[o].count = Cardinality(Live(sess[o].ds)')
    <3>1. PICK e : e = sess'[o].ds
      OBVIOUS
    <3>2. Live(sess[o].ds)' = Live(e)'
      BY <3>1
    <3> QED
      BY <2>1, <2>3, <2>4, <3>1, <3>2
  <2> QED
    BY <2>2, <2>4 DEF CountInv
<1>14. NotesInv'
  BY TablesStay DEF StoreInv
<1> QED
  BY <1>6, <1>12, <1>13, <1>14 DEF StoreInv

LEMMA BlankHolds == ASSUME NEW s, s.rows = <<>> PROVE RowsHeld(s)'
BY Empty DEF RowsHeld

LEMMA DatasetFacts ==
  ASSUME StoreInv, NEW d \in Ids(datasets)
  PROVE  /\ d \in Nat \ {0} /\ IsDataset(datasets[d]) /\ datasets[d].total \in Nat
         /\ datasets[d].dir \in Dirs(d) /\ (datasets[d].dir = NoDir <=> Deleted(d))
<1>1. IsSeq(datasets) /\ DatasetsTyped
  BY DEF StoreInv, Typed, DatasetsTyped
<1>2. d \in Nat \ {0}
  BY <1>1, SeqShape DEF Ids
<1> QED
  BY <1>1, <1>2 DEF DatasetsTyped

LEMMA StartDatasetStep ==
  ASSUME StoreInv, NEW op \in Makes, NEW name \in Names, NEW status, status # "deleted",
         NEW todo, NEW then, StartDataset("ui", op, name, status, todo, then)
  PROVE  StoreInv'
<1>1. PICK n \in Nat : n = Len(datasets)
  BY SeqShape DEF StoreInv, Typed, DatasetsTyped
<1>2. PICK d \in Nat \ {0} : d = n + 1
  BY <1>1
<1>3. PICK row : row = [name |-> name, status |-> status, dir |-> DirOf(d, name), total |-> 0]
  OBVIOUS
<1>4. row = NewDataset(name, status)
  BY <1>1, <1>2, <1>3 DEF NewDataset
<1>5. PICK s0 : s0 = [op |-> op, ds |-> d, dir |-> DirOf(d, name), todo |-> todo,
                      rows |-> <<>>, news |-> <<>>, note |-> 0, count |-> 0, then |-> ""]
  OBVIOUS
<1>6. PICK s : s = [s0 EXCEPT !.news = <<row>>, !.then = then]
  OBVIOUS
<1>7. /\ Begin("ui", s) /\ disk' = disk /\ hurt' = hurt
      /\ datasets' = datasets /\ samples' = samples /\ notes' = notes
  <2>1. s0 = Session(op, Len(datasets) + 1, row.dir, todo)
    BY <1>1, <1>2, <1>3, <1>5 DEF Session
  <2> QED
    BY <1>4, <1>6, <2>1 DEF StartDataset, dbVars
<1>8. /\ ~Open("ui") /\ sess' = [sess EXCEPT !["ui"] = s]
      /\ raced' = raced \union Overlap("ui", s.ds)
  BY <1>7 DEF Begin
<1>9. /\ s.op = op /\ s.ds = d /\ s.dir = DirOf(d, name) /\ s.rows = <<>>
      /\ s.news = <<row>> /\ s.news[1] = row
      /\ DOMAIN s = DOMAIN s0 /\ s = [f \in DOMAIN s |-> s[f]]
  <2>1. DOMAIN s = DOMAIN s0 /\ s = [f \in DOMAIN s |-> s[f]] /\ s.news = <<row>>
    BY <1>5, <1>6
  <2>2. /\ s.op = s0.op /\ s.ds = s0.ds /\ s.dir = s0.dir /\ s.rows = s0.rows
    BY <1>5, <1>6
  <2>3. <<row>>[1] = row
    OBVIOUS
  <2>4. s0.op = op /\ s0.ds = d /\ s0.dir = DirOf(d, name) /\ s0.rows = <<>>
    BY <1>5
  <2> QED
    BY <2>1, <2>2, <2>3, <2>4
<1>10. SessionTyped("ui", s)
  <2>1. IsSession(s)
    BY <1>5, <1>9 DEF IsSession
  <2>2. s.dir \in Dirs(d)
    BY <1>9 DEF Dirs
  <2> QED
    BY <1>9, <2>1, <2>2, Empty DEF SessionTyped, UserOps
<1>11. SessionTarget(s)
  <2>1. DirOf(d, name) # NoDir
    <3>1. <<d, name>>[1] = d /\ NoDir[1] = 0
      BY DEF NoDir
    <3> QED
      BY <3>1 DEF DirOf
  <2>2. IsDataset(row) /\ row.total = 0 /\ row.dir = DirOf(d, name) /\ row.status # "deleted"
    BY <1>3 DEF IsDataset
  <2> QED
    BY <1>1, <1>2, <1>9, <2>1, <2>2 DEF SessionTarget
<1>12. SessionDetail(s)
  BY <1>9, Empty DEF SessionDetail, Makes, Removes
<1>13. SessionHolds(s)'
  BY <1>9, BlankHolds DEF SessionHolds, Makes
<1>14. IsFiniteSet(disk) /\ "ui" \in Threads /\ s.op # "drop"
  BY <1>9 DEF StoreInv, Typed, Threads, Makes
<1> QED
  BY <1>7, <1>8, <1>9, <1>10, <1>11, <1>12, <1>13, <1>14, OpenKeeps

(* import_files, import_folder and the outputs of a generation.            *)
LEMMA ImportStep ==
  ASSUME StoreInv, NEW d \in Ids(datasets), NEW files,
         Import(d, files) \/ PersistOutputs(d, files)
  PROVE  StoreInv'
<1>1. PICK t \in Threads, op \in {"import", "persist"} :
        /\ IF t = "ui" THEN op = "import" /\ ~Deleted(d) ELSE op = "persist"
        /\ Begin(t, Session(op, d, datasets[d].dir, files))
  BY DEF Import, PersistOutputs, Threads
<1>2. /\ disk' = disk /\ hurt' = hurt
      /\ datasets' = datasets /\ samples' = samples /\ notes' = notes
  BY DEF Import, PersistOutputs, dbVars
<1>3. PICK dir : dir = datasets[d].dir /\ dir \in Dirs(d)
  BY DatasetFacts
<1>4. PICK s : s = [op |-> op, ds |-> d, dir |-> dir, todo |-> files, rows |-> <<>>,
                    news |-> <<>>, note |-> 0, count |-> 0, then |-> ""]
  OBVIOUS
<1>5. Begin(t, s)
  BY <1>1, <1>3, <1>4 DEF Session
<1>6. /\ ~Open(t) /\ sess' = [sess EXCEPT ![t] = s]
      /\ raced' = raced \union Overlap(t, s.ds)
  BY <1>5 DEF Begin
<1>7. /\ s.op = op /\ s.ds = d /\ s.dir = dir /\ s.rows = <<>> /\ s.news = <<>>
  BY <1>4
<1>8. SessionTyped(t, s)
  <2>1. IsSession(s)
    BY <1>4 DEF IsSession
  <2> QED
    BY <1>1, <1>3, <1>7, <2>1, Empty DEF SessionTyped, UserOps
<1>9. SessionTarget(s) /\ SessionDetail(s)
  BY <1>1, <1>7, Empty DEF SessionTarget, SessionDetail, Makes, Removes
<1>10. Whole(d) => SessionHolds(s)'
  <2>1. Whole(d) => Whole(s.ds)'
    BY <1>2, <1>7, TablesStay DEF Whole
  <2> QED
    BY <1>2, <1>3, <1>7, <2>1, BlankHolds DEF SessionHolds
<1>11. IsFiniteSet(disk) /\ d \in Nat \ {0} /\ s.op # "drop"
  BY <1>7, DatasetFacts DEF StoreInv, Typed
<1> QED
  BY <1>2, <1>6, <1>7, <1>8, <1>9, <1>10, <1>11, OpenKeeps

(* delete_dataset and purge_dataset_files.                                 *)
LEMMA RemoveFolderStep ==
  ASSUME StoreInv, NEW d \in Ids(datasets), NEW op \in {"delete", "purge"}, RemoveFolder(op, d)
  PROVE  StoreInv'
<1>1. PICK dir : dir = datasets[d].dir /\ dir \in Dirs(d)
  BY DatasetFacts
<1>2. PICK s : s = [op |-> op, ds |-> d, dir |-> NoDir, todo |-> <<>>, rows |-> <<>>,
                    news |-> <<>>, note |-> 0, count |-> 0, then |-> ""]
  OBVIOUS
<1>3. /\ Begin("ui", s) /\ disk' = {p \in disk : dir = NoDir \/ p.dir # dir} /\ hurt' = hurt
      /\ datasets' = datasets /\ samples' = samples /\ notes' = notes
  BY <1>1, <1>2 DEF RemoveFolder, Session, dbVars
<1>4. /\ ~Open("ui") /\ sess' = [sess EXCEPT !["ui"] = s]
      /\ raced' = raced \union Overlap("ui", s.ds)
  BY <1>3 DEF Begin
<1>5. s.op = op /\ s.ds = d /\ s.dir = NoDir /\ s.rows = <<>> /\ s.news = <<>>
  BY <1>2
<1>6. SessionTyped("ui", s)
  <2>1. IsSession(s)
    BY <1>2 DEF IsSession
  <2> QED
    BY <1>5, <2>1, Empty DEF SessionTyped, UserOps, Removes, Dirs
<1>7. SessionTarget(s) /\ SessionDetail(s)
  BY <1>5, Empty DEF SessionTarget, SessionDetail, Makes
<1>8. SessionHolds(s)'
  BY <1>5, BlankHolds DEF SessionHolds
<1>9. IsFiniteSet(disk')
  BY <1>3, FS_Subset DEF StoreInv, Typed
<1>10. \A p \in disk \ disk' : p.dir \in Dirs(d)
  BY <1>1, <1>3
<1>11. d \in Nat \ {0} /\ s.op # "drop" /\ "ui" \in Threads
  BY <1>5, DatasetFacts DEF Threads
<1> QED
  BY <1>3, <1>4, <1>5, <1>6, <1>7, <1>8, <1>9, <1>10, <1>11, OpenKeeps

LEMMA MovedToItself == ASSUME NEW p, IsPath(p), NEW old PROVE Moved(p, old, old) = p
BY DEF IsPath, Moved

LEMMA SampleFacts ==
  ASSUME StoreInv, NEW x \in Ids(samples)
  PROVE  /\ x \in Nat \ {0} /\ IsRow(samples[x]) /\ IsPath(samples[x].path)
         /\ samples[x].ds \in Ids(datasets) /\ samples[x].path.dir \in Dirs(samples[x].ds)
BY SeqShape DEF StoreInv, Typed, SamplesTyped, RowTyped, Ids

(* update_dataset.                                                         *)
LEMMA UpdateDatasetStep ==
  ASSUME StoreInv, NEW d \in Ids(datasets), NEW name \in Names, UpdateDataset(d, name)
  PROVE  StoreInv'
<1>1. PICK old : old = datasets[d].dir /\ old \in Dirs(d) /\ (old = NoDir <=> Deleted(d))
  BY DatasetFacts
<1>2. PICK new : new = IF old = NoDir THEN NoDir ELSE DirOf(d, name)
  OBVIOUS
<1>3. d \in Nat \ {0} /\ "ui" \in Threads
  BY DatasetFacts DEF Threads
<1>4. new \in Dirs(d) /\ (new = NoDir <=> Deleted(d))
  <2>1. DirOf(d, name) # NoDir
    <3>1. <<d, name>>[1] = d /\ NoDir[1] = 0
      BY DEF NoDir
    <3> QED
      BY <1>3, <3>1 DEF DirOf
  <2> QED
    BY <1>1, <1>2, <2>1 DEF Dirs
<1>5. PICK c : c = {x \in Ids(samples) : samples[x].ds = d}
  OBVIOUS
<1>6. PICK s0 : s0 = [op |-> "rename", ds |-> d, dir |-> new, todo |-> <<>>, rows |-> <<>>,
                      news |-> <<>>, note |-> 0, count |-> 0, then |-> ""]
  OBVIOUS
<1>7. PICK s : s = [s0 EXCEPT !.then = name, !.count = c]
  OBVIOUS
<1>8. /\ Begin("ui", s) /\ hurt' = hurt
      /\ datasets' = datasets /\ samples' = samples /\ notes' = notes
      /\ IF old = new THEN disk' = disk ELSE disk' = {Moved(p, old, new) : p \in disk}
  <2>1. s0 = Session("rename", d, new, <<>>)
    BY <1>6 DEF Session
  <2> QED
    BY <1>1, <1>2, <1>5, <1>7, <2>1 DEF UpdateDataset, dbVars
<1>9. /\ ~Open("ui") /\ sess' = [sess EXCEPT !["ui"] = s]
      /\ raced' = raced \union Overlap("ui", s.ds)
  BY <1>8 DEF Begin
<1>10. /\ s.op = "rename" /\ s.ds = d /\ s.dir = new /\ s.rows = <<>> /\ s.news = <<>>
       /\ s.count = c /\ DOMAIN s = DOMAIN s0 /\ s = [f \in DOMAIN s |-> s[f]]
  <2>1. DOMAIN s = DOMAIN s0 /\ s = [f \in DOMAIN s |-> s[f]] /\ s.count = c
    BY <1>6, <1>7
  <2>2. s.op = s0.op /\ s.ds = s0.ds /\ s.dir = s0.dir /\ s.rows = s0.rows /\ s.news = s0.news
    BY <1>6, <1>7
  <2>3. s0.op = "rename" /\ s0.ds = d /\ s0.dir = new /\ s0.rows = <<>> /\ s0.news = <<>>
    BY <1>6
  <2> QED
    BY <2>1, <2>2, <2>3
<1>11. SessionTyped("ui", s)
  <2>1. IsSession(s)
    BY <1>6, <1>10 DEF IsSession
  <2> QED
    BY <1>4, <1>10, <2>1, Empty DEF SessionTyped, UserOps, Removes
<1>12. SessionTarget(s)
  BY <1>10 DEF SessionTarget, Makes
<1>13. SessionDetail(s)
  BY <1>4, <1>5, <1>10 DEF SessionDetail
<1>14. Whole(d) => SessionHolds(s)'
  <2> SUFFICES ASSUME Whole(d) PROVE SessionHolds(s)'
    OBVIOUS
  <2>1. ASSUME NEW x \in Live(d)
        PROVE  /\ x \in c /\ samples[x].path.dir = old /\ Moved(samples[x].path, old, new) \in disk'
    <3>1. samples[x].path \in disk /\ samples[x].path.dir = old /\ x \in c
      BY <1>1, <1>5 DEF Whole, Live
    <3>2. IsPath(samples[x].path)
      BY SampleFacts DEF Live
    <3> QED
      BY <1>8, <3>1, <3>2, MovedToItself
  <2>2. \A x, y \in Live(d) : x # y => samples[x].path # samples[y].path
    BY DEF Whole
  <2>3. Live(d)' = Live(d)
    BY <1>8, TablesStay
  <2>4. WholeMoved(s)'
    BY <1>1, <1>8, <1>10, <2>1, <2>2, <2>3 DEF WholeMoved, Moved
  <2> QED
    BY <1>10, <2>4, BlankHolds DEF SessionHolds
<1>15. IsFiniteSet(disk')
  BY <1>8, MovedFinite DEF StoreInv, Typed
<1>16. \A p \in disk \ disk' : p.dir \in Dirs(d)
  BY <1>1, <1>8 DEF Moved
<1> QED
  BY <1>3, <1>8, <1>9, <1>10, <1>11, <1>12, <1>13, <1>14, <1>15, <1>16, OpenKeeps

LEMMA LiveFinite ==
  ASSUME IsSeq(samples), NEW d
  PROVE  IsFiniteSet(Live(d)) /\ Cardinality(Live(d)) \in Nat
<1>1. PICK n \in Nat : Ids(samples) = 1 .. n
  BY SeqShape DEF Ids
<1>2. IsFiniteSet(1 .. n)
  BY <1>1, FS_Interval
<1>3. Live(d) \subseteq 1 .. n
  BY <1>1 DEF Live
<1>4. IsFiniteSet(Live(d))
  BY <1>2, <1>3, FS_Subset
<1> QED
  BY <1>4, FS_CardinalityType

LEMMA NoteFacts ==
  ASSUME StoreInv, NEW n \in Ids(notes)
  PROVE  /\ n \in Nat \ {0} /\ IsNote(notes[n]) /\ notes[n].action \in {"delete", "repair"}
         /\ notes[n].sample \in Ids(samples) /\ notes[n].out \in 0 .. Len(samples)
BY SeqShape DEF StoreInv, Typed, NotesTyped, Ids

(* _apply_suggestion for delete.                                           *)
LEMMA ApplyDeleteStep ==
  ASSUME StoreInv, NEW n \in Ids(notes), ApplyDelete(n)
  PROVE  StoreInv'
<1>1. PICK x : x = notes[n].sample /\ x \in Ids(samples)
  BY NoteFacts
<1>2. PICK d : d = samples[x].ds /\ d \in Ids(datasets)
  BY <1>1, SampleFacts
<1>3. PICK dir : dir = datasets[d].dir /\ dir \in Dirs(d)
  BY <1>2, DatasetFacts
<1>4. PICK c : c = Cardinality(Live(d))
  OBVIOUS
<1>5. c \in Nat
  BY <1>4, LiveFinite DEF StoreInv, Typed, SamplesTyped
<1>6. PICK s0 : s0 = [op |-> "drop", ds |-> d, dir |-> dir, todo |-> <<>>, rows |-> <<>>,
                      news |-> <<>>, note |-> 0, count |-> 0, then |-> ""]
  OBVIOUS
<1>7. PICK s : s = [s0 EXCEPT !.note = n, !.count = c]
  OBVIOUS
<1>8. /\ Begin("ui", s) /\ disk' = disk \ {samples[x].path}
      /\ hurt' = hurt \union {samples[o].ds : o \in Owners(samples[x].path) \ {x}}
      /\ datasets' = datasets /\ samples' = samples /\ notes' = notes
      /\ notes[n].action = "delete" /\ notes[n].status \in {"pending", "approved"} /\ ~Deleted(d)
  <2>1. s0 = Session("drop", d, datasets[d].dir, <<>>)
    BY <1>3, <1>6 DEF Session
  <2> QED
    BY <1>1, <1>2, <1>4, <1>7, <2>1 DEF ApplyDelete, MayBecome, dbVars
<1>9. /\ ~Open("ui") /\ sess' = [sess EXCEPT !["ui"] = s]
      /\ raced' = raced \union Overlap("ui", s.ds)
  BY <1>8 DEF Begin
<1>10. /\ s.op = "drop" /\ s.ds = d /\ s.dir = dir /\ s.rows = <<>> /\ s.news = <<>>
       /\ s.note = n /\ s.count = c
       /\ DOMAIN s = DOMAIN s0 /\ s = [f \in DOMAIN s |-> s[f]]
  <2>1. /\ DOMAIN s = DOMAIN s0 /\ s = [f \in DOMAIN s |-> s[f]]
        /\ s.note = n /\ s.count = c
    BY <1>6, <1>7
  <2>2. s.op = s0.op /\ s.ds = s0.ds /\ s.dir = s0.dir /\ s.rows = s0.rows /\ s.news = s0.news
    BY <1>6, <1>7
  <2>3. s0.op = "drop" /\ s0.ds = d /\ s0.dir = dir /\ s0.rows = <<>> /\ s0.news = <<>>
    BY <1>6
  <2> QED
    BY <2>1, <2>2, <2>3
<1>11. SessionTyped("ui", s)
  <2>1. IsSession(s)
    BY <1>6, <1>10 DEF IsSession
  <2> QED
    BY <1>3, <1>10, <2>1, Empty DEF SessionTyped, UserOps, Removes
<1>12. SessionTarget(s)
  BY <1>2, <1>10 DEF SessionTarget, Makes
<1>13. SessionDetail(s)
  BY <1>1, <1>2, <1>5, <1>8, <1>10 DEF SessionDetail
<1>14. Sound(d)' /\ Whole(d) => SessionHolds(s)'
  <2> SUFFICES ASSUME Sound(d)', Whole(d) PROVE SessionHolds(s)'
    OBVIOUS
  <2>1. ASSUME NEW y \in Live(d) \ {x} PROVE samples[y].path # samples[x].path
    <3>1. y \in Ids(samples) /\ samples[y].ds = d /\ samples[y].status # "deleted"
      BY DEF Live
    <3>2. SUFFICES ASSUME samples[y].path = samples[x].path PROVE FALSE
      OBVIOUS
    <3>3. y \in Owners(samples[x].path) \ {x}
      BY <3>1, <3>2 DEF Owners
    <3> QED
      BY <1>8, <3>1, <3>3 DEF Sound
  <2>2. ASSUME NEW y \in Live(d) \ {x}
        PROVE  samples[y].path \in disk' /\ samples[y].path.dir = datasets[d].dir
    BY <1>8, <2>1 DEF Whole
  <2>3. \A y, z \in Live(d) \ {x} : y # z => samples[y].path # samples[z].path
    BY DEF Whole
  <2>4. Live(d)' = Live(d)
    BY <1>8, TablesStay
  <2>5. WholeBut(d, x)'
    BY <1>8, <2>2, <2>3, <2>4 DEF WholeBut
  <2>6. s.rows = <<>> /\ s.op = "drop" /\ s.ds = d /\ notes'[s.note].sample = x
    BY <1>1, <1>8, <1>10
  <2> QED
    BY <2>5, <2>6, BlankHolds DEF SessionHolds
<1>15. IsFiniteSet(disk')
  BY <1>8, FS_Subset DEF StoreInv, Typed
<1>16. \A p \in disk \ disk' : p.dir \in Dirs(d)
  BY <1>1, <1>2, <1>8, SampleFacts
<1>17. d \in Nat \ {0} /\ "ui" \in Threads
  BY <1>2, DatasetFacts DEF Threads
<1>18. /\ hurt \subseteq hurt' /\ s.ds \in Nat \ {0} /\ s.count = Cardinality(Live(s.ds))
       /\ \A p \in disk \ disk' : p.dir \in Dirs(s.ds)
       /\ Sound(s.ds)' /\ (s.ds \in Ids(datasets) => Whole(s.ds)) => SessionHolds(s)'
  <2>1. /\ hurt \subseteq hurt' /\ s.ds \in Nat \ {0} /\ s.count = Cardinality(Live(s.ds))
        /\ \A p \in disk \ disk' : p.dir \in Dirs(s.ds)
    BY <1>4, <1>8, <1>10, <1>16, <1>17
  <2> QED
    BY <1>2, <1>10, <1>14, <2>1
<1>19. datasets' = datasets /\ samples' = samples /\ notes' = notes /\ "ui" \in Threads
  BY <1>8, <1>17
<1> QED
  BY <1>9, <1>11, <1>12, <1>13, <1>15, <1>18, <1>19, OpenKeeps

LEMMA RowShape ==
  ASSUME NEW ds, NEW path, NEW status, NEW from, NEW r, r = Row(ds, path, status, from)
  PROVE  r.ds = ds /\ r.path = path /\ r.status = status /\ r.from = from /\ IsRow(r)
BY DEF Row, IsRow

(* _apply_suggestion for repair.                                           *)
LEMMA ApplyRepairStep ==
  ASSUME StoreInv, NEW n \in Ids(notes), ApplyRepair(n)
  PROVE  StoreInv'
<1>1. PICK x : x = notes[n].sample /\ x \in Ids(samples)
  BY NoteFacts
<1>2. PICK d : d = samples[x].ds /\ d \in Ids(datasets)
  BY <1>1, SampleFacts
<1>3. PICK dir : dir = datasets[d].dir /\ dir \in Dirs(d)
  BY <1>2, DatasetFacts
<1>4. PICK path : path = Place(dir, "cleaned", samples[x].path.file)
  OBVIOUS
<1>5. path \notin disk /\ path.dir = dir /\ IsPath(path)
  BY <1>4, PlaceIsFree DEF StoreInv, Typed
<1>6. PICK r : r = Row(d, path, "cleaned", x)
  OBVIOUS
<1>7. PICK rows : rows = <<r>> /\ IsSeq(rows) /\ Len(rows) = 1 /\ rows[1] = r /\ Ids(rows) = {1}
  BY One
<1>8. PICK s0 : s0 = [op |-> "repair", ds |-> d, dir |-> dir, todo |-> <<>>, rows |-> <<>>,
                      news |-> <<>>, note |-> 0, count |-> 0, then |-> ""]
  OBVIOUS
<1>9. PICK s : s = [s0 EXCEPT !.note = n, !.rows = rows]
  OBVIOUS
<1>10. /\ Begin("ui", s) /\ disk' = disk \union {path} /\ hurt' = hurt
       /\ datasets' = datasets /\ samples' = samples /\ notes' = notes
       /\ notes[n].action = "repair" /\ notes[n].status \in {"pending", "approved"} /\ ~Deleted(d)
  <2>1. s0 = Session("repair", d, datasets[d].dir, <<>>)
    BY <1>3, <1>8 DEF Session
  <2> QED
    BY <1>1, <1>2, <1>3, <1>4, <1>6, <1>7, <1>9, <2>1 DEF ApplyRepair, MayBecome, dbVars
<1>11. /\ ~Open("ui") /\ sess' = [sess EXCEPT !["ui"] = s]
       /\ raced' = raced \union Overlap("ui", s.ds)
  BY <1>10 DEF Begin
<1>12. /\ s.op = "repair" /\ s.ds = d /\ s.dir = dir /\ s.rows = rows /\ s.news = <<>>
       /\ s.note = n /\ DOMAIN s = DOMAIN s0 /\ s = [f \in DOMAIN s |-> s[f]]
  <2>1. /\ DOMAIN s = DOMAIN s0 /\ s = [f \in DOMAIN s |-> s[f]]
        /\ s.note = n /\ s.rows = rows
    BY <1>8, <1>9
  <2>2. s.op = s0.op /\ s.ds = s0.ds /\ s.dir = s0.dir /\ s.news = s0.news
    BY <1>8, <1>9
  <2>3. s0.op = "repair" /\ s0.ds = d /\ s0.dir = dir /\ s0.news = <<>>
    BY <1>8
  <2> QED
    BY <2>1, <2>2, <2>3
<1>13. r.ds = d /\ r.path = path /\ r.status = "cleaned" /\ r.from = x /\ IsRow(r)
  BY <1>6, RowShape
<1>14. SessionTyped("ui", s)
  <2>1. IsSession(s)
    BY <1>8, <1>12 DEF IsSession
  <2>2. RowTyped(r)
    BY <1>3, <1>5, <1>13 DEF RowTyped
  <2>3. \A i \in Ids(s.rows) : s.rows[i] = r
    BY <1>7, <1>12
  <2> QED
    BY <1>3, <1>5, <1>7, <1>12, <1>13, <2>1, <2>2, <2>3 DEF SessionTyped, UserOps
<1>15. SessionTarget(s)
  BY <1>2, <1>12 DEF SessionTarget, Makes
<1>16. SessionDetail(s)
  BY <1>1, <1>2, <1>7, <1>10, <1>12, <1>13 DEF SessionDetail, Removes
<1>17. Whole(d) => SessionHolds(s)'
  <2> SUFFICES ASSUME Whole(d) PROVE SessionHolds(s)'
    OBVIOUS
  <2>1. Live(d)' = Live(d)
    BY <1>10, TablesStay
  <2>2. Whole(d)'
    BY <1>10, <2>1 DEF Whole
  <2>3. \A i \in Ids(rows) : i = 1 /\ rows[i].path = path
    BY <1>7, <1>13
  <2>4. \A y \in Live(d) : path # samples[y].path
    BY <1>5 DEF Whole
  <2>5. RowsHeld(s)'
    BY <1>10, <1>12, <2>1, <2>3, <2>4 DEF RowsHeld
  <2> QED
    BY <1>3, <1>10, <1>12, <2>2, <2>5 DEF SessionHolds
<1>18. IsFiniteSet(disk')
  BY <1>10, FS_AddElement DEF StoreInv, Typed
<1>19. d \in Nat \ {0} /\ "ui" \in Threads /\ s.op # "drop" /\ \A p \in disk \ disk' : FALSE
  BY <1>2, <1>10, <1>12, DatasetFacts DEF Threads
<1>20. /\ hurt \subseteq hurt' /\ s.ds \in Nat \ {0} /\ s.op # "drop"
       /\ \A p \in disk \ disk' : p.dir \in Dirs(s.ds)
       /\ Sound(s.ds)' /\ (s.ds \in Ids(datasets) => Whole(s.ds)) => SessionHolds(s)'
  <2>1. /\ hurt \subseteq hurt' /\ s.ds \in Nat \ {0} /\ s.op # "drop"
        /\ \A p \in disk \ disk' : p.dir \in Dirs(s.ds)
    BY <1>10, <1>12, <1>19
  <2> QED
    BY <1>2, <1>12, <1>17, <2>1
<1>21. datasets' = datasets /\ samples' = samples /\ notes' = notes /\ "ui" \in Threads
  BY <1>10, <1>19
<1> QED
  BY <1>11, <1>14, <1>15, <1>16, <1>18, <1>20, <1>21, OpenKeeps

-----------------------------------------------------------------------------
(* A call goes on.                                                         *)

LEMMA SessionFacts ==
  ASSUME StoreInv, NEW t \in Threads, Open(t)
  PROVE  /\ SessionTyped(t, sess[t]) /\ SessionTarget(sess[t]) /\ SessionDetail(sess[t])
         /\ sess[t].ds \in Nat \ {0}
         /\ sess[t].op \in Makes => sess[t].ds \notin Ids(datasets)
<1>1. SessionTyped(t, sess[t]) /\ SessionTarget(sess[t]) /\ SessionDetail(sess[t])
  BY DEF StoreInv, Typed, SessionsTyped
<1>2. PICK n \in Nat : n = Len(datasets) /\ Ids(datasets) = 1 .. n
  BY SeqShape DEF StoreInv, Typed, DatasetsTyped
<1>3. CASE sess[t].op \in Makes
  <2>1. sess[t].ds = n + 1
    BY <1>1, <1>2, <1>3 DEF SessionTarget
  <2> QED
    BY <1>1, <1>2, <2>1
<1>4. CASE sess[t].op \notin Makes
  BY <1>1, <1>2, <1>4 DEF SessionTarget
<1> QED
  BY <1>3, <1>4

(* A dataset that is being made has no samples.                            *)
LEMMA NoneYet ==
  ASSUME StoreInv, NEW d, d \notin Ids(datasets)
  PROVE  Live(d) = {}
BY SampleFacts DEF Live

LEMMA WorkKeeps ==
  ASSUME StoreInv, NEW t \in Threads, NEW s,
         Open(t), sess' = [sess EXCEPT ![t] = s],
         s.ds = sess[t].ds, s.op = sess[t].op, s.op # "drop",
         raced' = raced, hurt' = hurt,
         datasets' = datasets, samples' = samples, notes' = notes,
         disk \subseteq disk', IsFiniteSet(disk'),
         SessionTyped(t, s), SessionTarget(s), SessionDetail(s),
         SessionHolds(sess[t]) => SessionHolds(s)'
  PROVE  StoreInv'
<1>1. Typed /\ SessionsTyped /\ DatasetsTyped /\ SamplesTyped /\ NotesTyped
  BY DEF StoreInv, Typed
<1>2. /\ sess' = [u \in Threads |-> sess'[u]] /\ sess'[t] = s
      /\ \A o \in Threads \ {t} : sess'[o] = sess[o]
  BY <1>1 DEF SessionsTyped
<1>3. \A o \in Threads : Open(o)' <=> Open(o)
  BY <1>2 DEF Open
<1>4. SessionsTyped'
  <2>1. ASSUME NEW o \in Threads, Open(o)'
        PROVE  (SessionTyped(o, sess[o]) /\ SessionTarget(sess[o]) /\ SessionDetail(sess[o]))'
    <3>1. PICK r : r = sess'[o]
      OBVIOUS
    <3>2. SessionTyped(o, r) /\ SessionTarget(r) /\ SessionDetail(r)
      <4>1. CASE o = t
        BY <1>2, <3>1, <4>1
      <4>2. CASE o # t
        BY <1>1, <1>2, <1>3, <2>1, <3>1, <4>2 DEF SessionsTyped
      <4> QED
        BY <4>1, <4>2
    <3>3. SessionTarget(r)' /\ SessionDetail(r)'
      BY <3>2, TablesStay
    <3>4. SessionTyped(o, r)'
      BY <3>2 DEF SessionTyped, RowTyped
    <3> QED
      BY <3>1, <3>3, <3>4
  <2> QED
    BY <1>2, <2>1 DEF SessionsTyped
<1>5. Typed'
  BY <1>1, <1>4, TablesStay DEF Typed
<1>6. PICK d \in Nat \ {0} : d = s.ds
  BY SessionFacts
<1>7. Sound(d)' => Sound(d)
  BY DEF Sound, Deleted
<1>8. Sound(d)' => SessionHolds(s)'
  BY <1>6, <1>7 DEF StoreInv, FilesInv, SessionsHold
<1>9. \A e : e \in Nat \ {0} /\ e # d => Apart(d, e)
  BY <1>6, TablesStay DEF Apart
<1>10. \A o \in Threads \ {t} : Open(o) /\ sess[o].ds = d => d \in raced'
  BY <1>6 DEF StoreInv, FilesInv, RacedIsKnown
<1>11. FilesInv'
  <2>1. d \in Busy'
    BY <1>2, <1>3, <1>6 DEF Busy
  <2> QED
    BY <1>2, <1>3, <1>6, <1>8, <1>9, <1>10, <2>1, FilesFrame
<1>12. CountInv'
  <2>1. \A e : Live(e)' = Live(e)
    BY TablesStay
  <2>2. CountIsLiveOrOneMore'
    BY <2>1 DEF StoreInv, CountInv, CountIsLiveOrOneMore, Deleted
  <2>3. ASSUME NEW o \in Threads, Open(o)', sess'[o].op = "drop", sess'[o].ds \notin raced'
        PROVE  sess'[o].count = Cardinality(Live(sess[o].ds)')
    <3>1. o # t /\ sess'[o] = sess[o] /\ Open(o)
      BY <1>2, <1>3, <2>3
    <3>2. PICK e : e = sess[o].ds /\ e = sess'[o].ds
      BY <3>1
    <3>3. sess[o].count = Cardinality(Live(e))
      BY <2>3, <3>1, <3>2 DEF StoreInv, CountInv
    <3>4. Live(sess[o].ds)' = Live(e)'
      BY <3>2
    <3> QED
      BY <2>1, <3>1, <3>3, <3>4
  <2> QED
    BY <2>2, <2>3 DEF CountInv
<1>13. NotesInv'
  BY TablesStay DEF StoreInv
<1> QED
  BY <1>5, <1>11, <1>12, <1>13 DEF StoreInv

(* A file that is gone, or that a suggestion deletes, is passed over.      *)
LEMMA SkipStep ==
  ASSUME StoreInv, NEW t \in Threads, Open(t), sess[t].op # "drop", Skip(t),
         UNCHANGED <<dbVars, hurt, raced>>
  PROVE  StoreInv'
<1>1. PICK s0 : s0 = sess[t]
  OBVIOUS
<1>2. SessionTyped(t, s0) /\ SessionTarget(s0) /\ SessionDetail(s0)
  BY <1>1, SessionFacts
<1>3. PICK s : s = [s0 EXCEPT !.todo = Tail(@)]
  OBVIOUS
<1>4. /\ s = [f \in DOMAIN s |-> s[f]] /\ DOMAIN s = DOMAIN s0
      /\ s.op = s0.op /\ s.ds = s0.ds /\ s.dir = s0.dir /\ s.rows = s0.rows /\ s.news = s0.news
      /\ s.note = s0.note /\ s.count = s0.count
  <2>1. s0 = [op |-> s0.op, ds |-> s0.ds, dir |-> s0.dir, todo |-> s0.todo, rows |-> s0.rows,
              news |-> s0.news, note |-> s0.note, count |-> s0.count, then |-> s0.then]
    BY <1>2 DEF SessionTyped, IsSession
  <2> QED
    BY <1>3, <2>1
<1>5. sess' = [sess EXCEPT ![t] = s] /\ disk' = disk
  BY <1>1, <1>3 DEF Skip, StoreInv, Typed, SessionsTyped
<1>6. SessionTyped(t, s)
  <2>1. IsSession(s)
    <3>1. s0 = [op |-> s0.op, ds |-> s0.ds, dir |-> s0.dir, todo |-> s0.todo, rows |-> s0.rows,
                news |-> s0.news, note |-> s0.note, count |-> s0.count, then |-> s0.then]
      BY <1>2 DEF SessionTyped, IsSession
    <3>2. DOMAIN s = {"op", "ds", "dir", "todo", "rows", "news", "note", "count", "then"}
      BY <1>4, <3>1
    <3> QED
      BY <1>4, <3>2 DEF IsSession
  <2> QED
    BY <1>2, <1>4, <2>1 DEF SessionTyped
<1>7. SessionTarget(s) /\ SessionDetail(s)
  <2>1. SessionTarget(s)
    BY <1>2, <1>4 DEF SessionTarget
  <2> QED
    BY <1>2, <1>4, <2>1 DEF SessionDetail
<1>8. SessionHolds(s0) => SessionHolds(s)'
  <2>1. \A d : Live(d)' = Live(d)
    BY TablesStay DEF dbVars
  <2>2. RowsHeld(s0) => RowsHeld(s)'
    BY <1>4, <1>5, <2>1 DEF RowsHeld, Ids, dbVars
  <2>3. \A d : (Whole(d) => Whole(d)') /\ datasets' = datasets /\ notes' = notes
    BY <1>5, <2>1 DEF Whole, dbVars
  <2>4. WholeMoved(s0) => WholeMoved(s)'
    BY <1>4, <1>5, <2>1 DEF WholeMoved, Moved, dbVars
  <2>5. s.op # "drop" /\ Whole(s.ds)' = Whole(s0.ds)'
    BY <1>1, <1>4
  <2> QED
    BY <1>4, <2>2, <2>3, <2>4, <2>5 DEF SessionHolds
<1>9. IsFiniteSet(disk')
  BY <1>5 DEF StoreInv, Typed
<1> QED
  BY <1>1, <1>4, <1>5, <1>6, <1>7, <1>8, <1>9, WorkKeeps DEF dbVars

(* A file is copied and its row added.                                     *)
LEMMA CopiedStep ==
  ASSUME StoreInv, NEW t \in Threads, Open(t), NEW file, NEW from, Copied(t, file, from),
         sess[t].op \in {"import", "bundle", "persist", "store"},
         sess[t].op # "store" => from = 0, sess[t].op = "store" => ~Skipped(from),
         UNCHANGED <<dbVars, hurt, raced>>
  PROVE  StoreInv'
<1>1. PICK s0 : s0 = sess[t]
  OBVIOUS
<1>2. SessionTyped(t, s0) /\ SessionTarget(s0) /\ SessionDetail(s0)
  BY <1>1, SessionFacts
<1>3. PICK path : path = Place(s0.dir, SubOf(s0.op), file)
  OBVIOUS
<1>4. path \notin disk /\ path.dir = s0.dir /\ IsPath(path)
  BY <1>3, PlaceIsFree DEF StoreInv, Typed
<1>5. PICK r : r = Row(s0.ds, path, StatusOf(s0.op), from)
  OBVIOUS
<1>6. r.ds = s0.ds /\ r.path = path /\ r.status # "deleted" /\ r.from = from /\ IsRow(r)
  BY <1>1, <1>5, RowShape DEF StatusOf
<1>7. PICK rows : rows = Append(s0.rows, r)
  OBVIOUS
<1>8. PICK n \in Nat : n = Len(s0.rows) /\ Ids(s0.rows) = 1 .. n
  BY <1>2, SeqShape DEF SessionTyped
<1>9. /\ IsSeq(rows) /\ Ids(rows) = Ids(s0.rows) \union {n + 1}
      /\ \A i \in Ids(s0.rows) : rows[i] = s0.rows[i]
      /\ rows[n + 1] = r
  BY <1>2, <1>7, <1>8, Appended DEF SessionTyped
<1>10. PICK s : s = [s0 EXCEPT !.todo = Tail(@), !.rows = rows]
  OBVIOUS
<1>11. /\ s = [f \in DOMAIN s |-> s[f]] /\ DOMAIN s = DOMAIN s0
       /\ s.op = s0.op /\ s.ds = s0.ds /\ s.dir = s0.dir /\ s.rows = rows /\ s.news = s0.news
       /\ s.note = s0.note /\ s.count = s0.count
       /\ DOMAIN s = {"op", "ds", "dir", "todo", "rows", "news", "note", "count", "then"}
  <2>1. s0 = [op |-> s0.op, ds |-> s0.ds, dir |-> s0.dir, todo |-> s0.todo, rows |-> s0.rows,
              news |-> s0.news, note |-> s0.note, count |-> s0.count, then |-> s0.then]
    BY <1>2 DEF SessionTyped, IsSession
  <2> QED
    BY <1>10, <2>1
<1>12. /\ sess' = [sess EXCEPT ![t] = s] /\ disk' = disk \union {path}
  <2>1. sess[t] = s0 /\ sess = [u \in Threads |-> sess[u]]
    BY <1>1 DEF StoreInv, Typed, SessionsTyped
  <2>2. /\ sess' = [sess EXCEPT ![t].todo = Tail(@),
                                ![t].rows = Append(@, Row(s0.ds, path, StatusOf(s0.op), from))]
        /\ disk' = disk \union {path}
    BY <1>1, <1>3 DEF Copied
  <2> QED
    BY <1>5, <1>7, <1>10, <2>1, <2>2
<1>13. SessionTyped(t, s)
  <2>1. IsSession(s)
    BY <1>11 DEF IsSession
  <2>2. RowTyped(r)
    BY <1>2, <1>4, <1>6 DEF RowTyped, SessionTyped
  <2>3. ASSUME NEW i \in Ids(rows)
        PROVE  /\ RowTyped(rows[i]) /\ rows[i].ds = s0.ds /\ rows[i].status # "deleted"
               /\ rows[i].path.dir = s0.dir
    <3>1. CASE i \in Ids(s0.rows)
      BY <1>2, <1>9, <3>1 DEF SessionTyped
    <3>2. CASE i = n + 1
      BY <1>4, <1>6, <1>9, <2>2, <3>2
    <3> QED
      BY <1>9, <3>1, <3>2
  <2> QED
    BY <1>2, <1>9, <1>11, <2>1, <2>3 DEF SessionTyped
<1>14. SessionTarget(s)
  BY <1>2, <1>11 DEF SessionTarget
<1>15. SessionDetail(s)
  <2>1. s.op \in {"import", "bundle", "persist"} => \A i \in Ids(rows) : rows[i].from = 0
    BY <1>1, <1>2, <1>6, <1>9, <1>11 DEF SessionDetail
  <2>2. s.op = "store" => \A i \in Ids(rows) : ~Skipped(rows[i].from)
    BY <1>1, <1>2, <1>6, <1>9, <1>11 DEF SessionDetail
  <2>3. s.op = "import" => ~Deleted(s.ds)
    BY <1>2, <1>11 DEF SessionDetail
  <2> QED
    BY <1>1, <1>11, <2>1, <2>2, <2>3 DEF SessionDetail, Removes
<1>16. SessionHolds(s0) => SessionHolds(s)'
  <2> SUFFICES ASSUME SessionHolds(s0) PROVE SessionHolds(s)'
    OBVIOUS
  <2>1. \A d : Live(d)' = Live(d)
    BY TablesStay DEF dbVars
  <2>2. PICK d : d = s0.ds
    OBVIOUS
  <2>3. ASSUME NEW x \in Live(d) PROVE samples[x].path \in disk
    <3>1. CASE s0.op \in Makes
      BY <1>1, <2>2, <3>1, NoneYet, SessionFacts
    <3>2. CASE s0.op \in {"import", "persist"}
      BY <2>2, <3>2 DEF SessionHolds, Whole
    <3> QED
      BY <1>1, <3>1, <3>2 DEF Makes
  <2>4. /\ \A i \in Ids(s0.rows) : s0.rows[i].path \in disk
        /\ \A i, j \in Ids(s0.rows) : i # j => s0.rows[i].path # s0.rows[j].path
        /\ \A i \in Ids(s0.rows), x \in Live(d) : s0.rows[i].path # samples[x].path
    BY <2>2 DEF SessionHolds, RowsHeld
  <2>5. /\ \A i \in Ids(rows) : i = n + 1 \/ (i \in Ids(s0.rows) /\ rows[i] = s0.rows[i])
        /\ rows[n + 1].path = path
    BY <1>6, <1>9
  <2>6. \A i \in Ids(rows) : rows[i].path \in disk'
    BY <1>12, <2>4, <2>5
  <2>7. \A i, j \in Ids(rows) : i # j => rows[i].path # rows[j].path
    BY <1>4, <2>4, <2>5
  <2>8. \A i \in Ids(rows), x \in Live(d) : rows[i].path # samples[x].path
    BY <1>4, <2>3, <2>4, <2>5
  <2>9. RowsHeld(s)'
    BY <1>11, <2>1, <2>2, <2>6, <2>7, <2>8 DEF RowsHeld, Ids, dbVars
  <2>10. s0.op \in {"import", "persist"} => Whole(s.ds)'
    BY <1>11, <1>12, <2>1 DEF SessionHolds, Whole, dbVars
  <2>11. s0.op \in {"import", "persist"} => s.dir = datasets'[s.ds].dir
    BY <1>11 DEF SessionHolds, dbVars
  <2> QED
    BY <1>1, <1>11, <2>9, <2>10, <2>11 DEF SessionHolds
<1>17. IsFiniteSet(disk')
  BY <1>12, FS_AddElement DEF StoreInv, Typed
<1> QED
  BY <1>1, <1>11, <1>12, <1>13, <1>14, <1>15, <1>16, <1>17, WorkKeeps DEF dbVars

LEMMA CopyItemStep ==
  ASSUME StoreInv, NEW t \in Threads, CopyItem(t)
  PROVE  StoreInv'
<1>1. Open(t) /\ sess[t].op \in {"import", "bundle", "persist"} /\ UNCHANGED <<dbVars, hurt, raced>>
  BY DEF CopyItem, Open
<1>2. Copied(t, Head(sess[t].todo), 0) \/ Skip(t)
  BY DEF CopyItem
<1> QED
  BY <1>1, <1>2, CopiedStep, SkipStep

LEMMA StoreItemStep == ASSUME StoreInv, StoreItem PROVE StoreInv'
<1>1. PICK x : x = Head(sess["ui"].todo)
  OBVIOUS
<1>2. /\ "ui" \in Threads /\ Open("ui") /\ sess["ui"].op = "store"
      /\ UNCHANGED <<dbVars, hurt, raced>>
  BY DEF StoreItem, Open, Threads
<1>3. (~Skipped(x) /\ Copied("ui", samples[x].path.file, x)) \/ Skip("ui")
  BY <1>1 DEF StoreItem
<1> QED
  BY <1>2, <1>3, CopiedStep, SkipStep

-----------------------------------------------------------------------------
(* A step that writes the tables.                                          *)

(* The other thread's session, if it is the worker's, asks nothing of the  *)
(* tables but that its dataset exists; what the worker writes takes no row *)
(* away and deletes no dataset.                                            *)
LEMMA SessionsFrame ==
  ASSUME StoreInv, NEW t \in Threads,
         sess' = [u \in Threads |-> sess'[u]],
         \A o \in Threads \ {t} : sess'[o] = sess[o],
         Ids(datasets) \subseteq Ids(datasets)',
         t = "worker" =>
           /\ Len(datasets)' = Len(datasets) /\ notes' = notes
           /\ \A e \in Ids(datasets) : Deleted(e)' <=> Deleted(e)
           /\ Ids(samples) \subseteq Ids(samples)'
           /\ \A x \in Ids(samples) : samples'[x] = samples[x],
         Open(t)' => (SessionTyped(t, sess[t]) /\ SessionTarget(sess[t]) /\ SessionDetail(sess[t]))'
  PROVE  SessionsTyped'
<1>1. ASSUME NEW o \in Threads, Open(o)', o # t
      PROVE  (SessionTyped(o, sess[o]) /\ SessionTarget(sess[o]) /\ SessionDetail(sess[o]))'
  <2>1. PICK r : r = sess[o] /\ r = sess'[o]
    BY <1>1
  <2>2. SessionTyped(o, r) /\ SessionTarget(r) /\ SessionDetail(r)
    <3>1. Open(o)
      BY <1>1, <2>1 DEF Open
    <3> QED
      BY <2>1, <3>1 DEF StoreInv, Typed, SessionsTyped
  <2>3. SessionTyped(o, r)'
    BY <2>2 DEF SessionTyped, RowTyped
  <2>4. SessionTarget(r)' /\ SessionDetail(r)'
    <3>1. CASE o = "worker"
      <4>1. r.op = "persist"
        BY <2>2, <3>1 DEF SessionTyped
      <4>2. SessionTarget(r)'
        BY <2>2, <4>1 DEF SessionTarget, Makes
      <4>3. SessionDetail(r)'
        BY <2>2, <4>1 DEF SessionDetail, Removes
      <4> QED
        BY <4>2, <4>3
    <3>2. CASE t = "worker"
      <4>1. SessionTarget(r)'
        BY <2>2, <3>2 DEF SessionTarget
      <4>2. r.op \in {"stage", "import"} => ~Deleted(r.ds)'
        BY <2>2, <3>2 DEF SessionDetail, SessionTarget, Makes
      <4>3. r.op = "rename" =>
              /\ r.dir = NoDir <=> Deleted(r.ds)'
              /\ \A x \in r.count : x \in Ids(samples)' /\ samples'[x].ds = r.ds
        BY <2>2, <3>2 DEF SessionDetail, SessionTarget, Makes
      <4>4. r.op \in {"drop", "repair"} =>
              /\ r.note \in Ids(notes) /\ notes[r.note].sample \in Ids(samples)
              /\ samples'[notes[r.note].sample].ds = r.ds
        BY <2>2, <3>2, NoteFacts DEF SessionDetail
      <4>5. notes' = notes /\ \A x : Skipped(x)' <=> Skipped(x)
        BY <3>2 DEF Skipped, Kept
      <4> QED
        BY <2>2, <4>1, <4>2, <4>3, <4>4, <4>5 DEF SessionDetail
    <3> QED
      BY <1>1, <3>1, <3>2 DEF Threads
  <2> QED
    BY <2>1, <2>3, <2>4
<1> QED
  BY <1>1 DEF SessionsTyped

LEMMA CountFrame ==
  ASSUME StoreInv, NEW t \in Threads, NEW d \in Nat \ {0}, raced \subseteq raced',
         \A o \in Threads \ {t} : sess'[o] = sess[o],
         Open(t), sess[t].ds = d, Open(t)' => sess'[t].op # "drop",
         Ids(datasets)' \subseteq Ids(datasets) \union {d},
         \A e \in Ids(datasets) \ {d} : datasets'[e] = datasets[e],
         \A e \in Nat \ {0} : e # d => Apart(d, e),
         d \in Ids(datasets)' /\ d \notin raced' /\ ~Deleted(d)' =>
           datasets'[d].total - Cardinality(Live(d)') \in {0, 1}
  PROVE  CountInv'
<1>1. ASSUME NEW e \in Ids(datasets)' \ raced', ~Deleted(e)'
      PROVE  datasets'[e].total - Cardinality(Live(e)') \in {0, 1}
  <2>1. CASE e = d
    BY <1>1, <2>1
  <2>2. CASE e # d
    <3>1. e \in Ids(datasets) /\ datasets'[e] = datasets[e] /\ ~Deleted(e)
      BY <1>1, <2>2 DEF Deleted
    <3>2. Live(e)' = Live(e)
      BY <2>2, <3>1, DatasetFacts DEF Apart
    <3> QED
      BY <1>1, <3>1, <3>2 DEF StoreInv, CountInv, CountIsLiveOrOneMore
  <2> QED
    BY <2>1, <2>2
<1>2. ASSUME NEW o \in Threads, Open(o)', sess'[o].op = "drop", sess'[o].ds \notin raced'
      PROVE  sess'[o].count = Cardinality(Live(sess[o].ds)')
  <2>1. o # t /\ sess'[o] = sess[o] /\ Open(o)
    BY <1>2 DEF Open
  <2>2. PICK e : e = sess[o].ds /\ e = sess'[o].ds
    BY <2>1
  <2>3. e # d
    BY <1>2, <2>1, <2>2 DEF StoreInv, FilesInv, RacedIsKnown
  <2>4. e \in Nat \ {0}
    BY <2>1, <2>2, SessionFacts
  <2>5. Live(e)' = Live(e)
    BY <2>3, <2>4 DEF Apart
  <2>6. sess[o].count = Cardinality(Live(e))
    BY <1>2, <2>1, <2>2 DEF StoreInv, CountInv
  <2>7. Live(sess[o].ds)' = Live(e)'
    BY <2>2
  <2> QED
    BY <2>1, <2>5, <2>6, <2>7
<1> QED
  BY <1>1, <1>2 DEF CountInv, CountIsLiveOrOneMore

(* The second transaction of import_folder_with_stage.                     *)
LEMMA SetStageStep == ASSUME StoreInv, SetStage PROVE StoreInv'
<1>1. "ui" \in Threads /\ Open("ui") /\ sess["ui"].op = "stage"
  BY DEF SetStage, Open, Threads
<1>2. PICK d \in Ids(datasets) : d = sess["ui"].ds /\ ~Deleted(d) /\ d \in Nat \ {0}
  BY <1>1, SessionFacts DEF SessionTarget, SessionDetail, Makes
<1>3. PICK old : old = datasets[d] /\ IsDataset(old) /\ old.total \in Nat /\ old.dir \in Dirs(d)
                 /\ old.dir # NoDir
  BY <1>2, DatasetFacts
<1>4. PICK f \in Files : sess' = [sess EXCEPT !["ui"] = Session("import", d, old.dir, <<f>>)]
  BY <1>2, <1>3 DEF SetStage
<1>5. PICK s : s = [op |-> "import", ds |-> d, dir |-> old.dir, todo |-> <<f>>, rows |-> <<>>,
                    news |-> <<>>, note |-> 0, count |-> 0, then |-> ""]
  OBVIOUS
<1>6. /\ s.op = "import" /\ s.ds = d /\ s.dir = old.dir /\ s.rows = <<>> /\ s.news = <<>>
  BY <1>5
<1>7. /\ sess' = [sess EXCEPT !["ui"] = s] /\ samples' = samples /\ notes' = notes
      /\ disk' = disk /\ hurt' = hurt /\ raced' = raced
  BY <1>4, <1>5 DEF Session, SetStage
<1>8. /\ sess' = [u \in Threads |-> sess'[u]] /\ sess'["ui"] = s
      /\ \A o \in Threads \ {"ui"} : sess'[o] = sess[o]
  BY <1>7 DEF StoreInv, Typed, SessionsTyped, Threads
<1>9. Open("ui")'
  BY <1>6, <1>8 DEF Open
<1>10. PICK row : row = [old EXCEPT !.status = "test"]
  OBVIOUS
<1>11. datasets' = [datasets EXCEPT ![d] = row]
  BY <1>2, <1>3, <1>10 DEF SetStage
<1>12. IsDataset(row) /\ row.total = old.total /\ row.dir = old.dir /\ row.status = "test"
  BY <1>3, <1>10 DEF IsDataset
<1>13. /\ IsSeq(datasets') /\ Ids(datasets') = Ids(datasets) /\ Len(datasets') = Len(datasets)
       /\ \A e \in Ids(datasets) : datasets'[e] = IF e = d THEN row ELSE datasets[e]
  <2>1. IsSeq(datasets) /\ DOMAIN datasets = Ids(datasets)
    BY SeqShape DEF StoreInv, Typed, DatasetsTyped
  <2>2. PICK u : u = [datasets EXCEPT ![d] = row]
    OBVIOUS
  <2>3. DOMAIN u = DOMAIN datasets /\ u = [e \in DOMAIN u |-> u[e]]
    BY <2>2
  <2>4. \A e \in Ids(datasets) : u[e] = IF e = d THEN row ELSE datasets[e]
    BY <2>1, <2>2
  <2>5. IsSeq(u) /\ Ids(u) = Ids(datasets) /\ Len(u) = Len(datasets)
    BY <2>1, <2>3, SameShape
  <2> QED
    BY <1>11, <2>2, <2>4, <2>5
<1>14. Ids(datasets)' = Ids(datasets)
  BY <1>13 DEF Ids
<1>15. DatasetsTyped'
  <2>1. \A e \in Ids(datasets) :
          /\ IsDataset(datasets'[e]) /\ datasets'[e].total \in Nat
          /\ datasets'[e].dir \in Dirs(e) /\ (datasets'[e].dir = NoDir <=> Deleted(e)')
    BY <1>3, <1>12, <1>13, DatasetFacts DEF Deleted
  <2> QED
    BY <1>13, <1>14, <2>1 DEF DatasetsTyped
<1>16. SamplesTyped' /\ NotesTyped' /\ NotesInv'
  BY <1>7, <1>14 DEF StoreInv, Typed, SamplesTyped, NotesTyped, NotesInv, Carried
<1>17. (SessionTyped("ui", sess["ui"]) /\ SessionTarget(sess["ui"]) /\ SessionDetail(sess["ui"]))'
  <2>1. IsSession(s)
    BY <1>5 DEF IsSession
  <2>2. SessionTyped("ui", s)'
    BY <1>3, <1>6, <2>1, Empty DEF SessionTyped, UserOps
  <2>3. SessionTarget(s)'
    BY <1>6, <1>14 DEF SessionTarget, Makes
  <2>4. SessionDetail(s)'
    BY <1>2, <1>6, <1>12, <1>13, Empty DEF SessionDetail, Removes, Deleted
  <2> QED
    BY <1>8, <2>2, <2>3, <2>4
<1>18. SessionsTyped'
  BY <1>1, <1>8, <1>14, <1>17, SessionsFrame
<1>19. \A e : Live(e)' = Live(e)
  BY <1>7 DEF Live
<1>20. \A e \in Nat \ {0} : e # d => Apart(d, e)
  BY <1>2, <1>7, <1>19 DEF Apart
<1>21. Open("ui")' /\ Sound(d)' => SessionHolds(sess["ui"])'
  <2> SUFFICES ASSUME Sound(d)' PROVE SessionHolds(sess["ui"])'
    OBVIOUS
  <2>1. Sound(d)
    BY <1>2, <1>7 DEF Sound
  <2>2. Whole(d)
    BY <1>1, <1>2, <2>1 DEF StoreInv, FilesInv, SessionsHold, SessionHolds
  <2>3. Whole(d)'
    BY <1>3, <1>7, <1>12, <1>13, <1>19, <2>2 DEF Whole
  <2>4. s.dir = datasets'[d].dir
    BY <1>6, <1>12, <1>13
  <2>5. SessionHolds(s)'
    BY <1>6, <2>3, <2>4, BlankHolds DEF SessionHolds
  <2> QED
    BY <1>8, <2>5
<1>22. d \in Busy'
  BY <1>1, <1>6, <1>8, <1>9 DEF Busy
<1>23. \A o \in Threads \ {"ui"} : Open(o) /\ sess[o].ds = d => d \in raced'
  BY <1>1, <1>2, <1>7 DEF StoreInv, FilesInv, RacedIsKnown
<1>24. FilesInv'
  <2>1. \A e \in Ids(datasets) \ {d} : datasets'[e] = datasets[e]
    BY <1>13
  <2>2. \A n \in Ids(notes) : notes'[n].sample = notes[n].sample
    BY <1>7
  <2>3. sess'["ui"].ds = d /\ hurt \subseteq hurt' /\ raced \subseteq raced'
    BY <1>6, <1>7, <1>8
  <2> QED
    BY <1>1, <1>2, <1>8, <1>14, <1>20, <1>21, <1>22, <1>23, <2>1, <2>2, <2>3, FilesFrame
<1>25. CountInv'
  <2>1. d \notin raced' => datasets'[d].total - Cardinality(Live(d)') \in {0, 1}
    BY <1>2, <1>3, <1>7, <1>12, <1>13, <1>19 DEF StoreInv, CountInv, CountIsLiveOrOneMore
  <2>2. /\ \A e \in Ids(datasets) \ {d} : datasets'[e] = datasets[e]
        /\ sess'["ui"].op # "drop" /\ raced \subseteq raced'
        /\ Ids(datasets)' \subseteq Ids(datasets) \union {d}
    BY <1>6, <1>7, <1>8, <1>13, <1>14
  <2> QED
    BY <1>1, <1>2, <1>8, <1>20, <2>1, <2>2, CountFrame
<1> QED
  BY <1>7, <1>15, <1>16, <1>18, <1>24, <1>25 DEF StoreInv, Typed

-----------------------------------------------------------------------------
(* A call ends with its commit.                                            *)

(* What a commit has to show: the tables it leaves, and dataset d.         *)
LEMMA CommitFrame ==
  ASSUME StoreInv, NEW t \in Threads, Open(t), End(t), NEW d, d = sess[t].ds,
         disk' = disk, raced' = raced, hurt' = hurt,
         DatasetsTyped', SamplesTyped', NotesTyped', NotesInv',
         Ids(datasets) \subseteq Ids(datasets)', Ids(datasets)' \subseteq Ids(datasets) \union {d},
         d \in Ids(datasets)',
         \A e \in Ids(datasets) \ {d} : datasets'[e] = datasets[e],
         \A e : e # d => /\ Live(e)' = Live(e)
                         /\ \A x \in Live(e) : samples'[x].path = samples[x].path,
         \A n \in Ids(notes) : notes'[n].sample = notes[n].sample,
         t = "worker" =>
           /\ Len(datasets)' = Len(datasets) /\ notes' = notes
           /\ \A e \in Ids(datasets) : Deleted(e)' <=> Deleted(e)
           /\ Ids(samples) \subseteq Ids(samples)'
           /\ \A x \in Ids(samples) : samples'[x] = samples[x],
         sess[t].op = "create" => ~Deleted(d)',
         Sound(d)' => Whole(d)',
         d \notin raced' /\ ~Deleted(d)' =>
           datasets'[d].total - Cardinality(Live(d)') \in {0, 1}
  PROVE  StoreInv'
<1>1. SessionTyped(t, sess[t]) /\ d \in Nat \ {0}
  BY SessionFacts
<1>2. PICK s : s = [op |-> "stage", ds |-> d, dir |-> NoDir, todo |-> <<>>, rows |-> <<>>,
                    news |-> <<>>, note |-> 0, count |-> 0, then |-> ""]
  OBVIOUS
<1>3. /\ s.op = "stage" /\ s.ds = d /\ s.dir = NoDir /\ s.rows = <<>> /\ s.news = <<>>
  BY <1>2
<1>4. /\ sess' = [u \in Threads |-> sess'[u]]
      /\ \A o \in Threads \ {t} : sess'[o] = sess[o]
      /\ sess'[t] = Idle \/ (sess'[t] = s /\ sess[t].op = "create")
  <2>1. [Session("stage", d, NoDir, <<>>) EXCEPT !.news = <<>>] = s
    <3>1. s = Session("stage", d, NoDir, <<>>)
      BY <1>2 DEF Session
    <3>2. PICK q, none : q = [s EXCEPT !.news = none] /\ none = <<>>
      OBVIOUS
    <3>3. s = [op |-> "stage", ds |-> d, dir |-> NoDir, todo |-> none, rows |-> none,
               news |-> none, note |-> 0, count |-> 0, then |-> ""]
      BY <1>2, <3>2
    <3>4. q = [op |-> "stage", ds |-> d, dir |-> NoDir, todo |-> none, rows |-> none,
               news |-> none, note |-> 0, count |-> 0, then |-> ""]
      BY <3>2, <3>3
    <3> QED
      BY <3>1, <3>2, <3>3, <3>4
  <2> QED
    BY <2>1 DEF End, StoreInv, Typed, SessionsTyped
<1>5. Open(t)' => sess'[t] = s /\ sess[t].op = "create" /\ t = "ui"
  BY <1>1, <1>4 DEF Open, Idle, SessionTyped, UserOps, Threads
<1>6. Open(t)' => (SessionTyped(t, sess[t]) /\ SessionTarget(sess[t]) /\ SessionDetail(sess[t]))'
  <2> SUFFICES ASSUME Open(t)'
               PROVE  (SessionTyped(t, sess[t]) /\ SessionTarget(sess[t]) /\ SessionDetail(sess[t]))'
    OBVIOUS
  <2>1. IsSession(s)
    BY <1>2 DEF IsSession
  <2>2. SessionTyped(t, s)'
    BY <1>3, <1>5, <2>1, Empty DEF SessionTyped, UserOps, Dirs
  <2>3. SessionTarget(s)'
    BY <1>3 DEF SessionTarget, Makes
  <2>4. SessionDetail(s)'
    BY <1>3, <1>5, Empty DEF SessionDetail, Removes
  <2> QED
    BY <1>5, <2>2, <2>3, <2>4
<1>7. SessionsTyped'
  BY <1>4, <1>6, SessionsFrame
<1>8. \A e \in Nat \ {0} : e # d => Apart(d, e)
  BY <1>1 DEF Apart
<1>9. Open(t)' /\ Sound(d)' => SessionHolds(sess[t])'
  <2> SUFFICES ASSUME Open(t)', Sound(d)' PROVE SessionHolds(sess[t])'
    OBVIOUS
  <2>1. SessionHolds(s)'
    BY <1>3, BlankHolds DEF SessionHolds
  <2> QED
    BY <1>5, <2>1
<1>10. \A o \in Threads \ {t} : Open(o) /\ sess[o].ds = d => d \in raced'
  BY DEF StoreInv, FilesInv, RacedIsKnown
<1>11. FilesInv'
  <2>1. Open(t)' => sess'[t].ds = d
    BY <1>3, <1>5
  <2> QED
    BY <1>1, <1>4, <1>8, <1>9, <1>10, <2>1, FilesFrame
<1>12. CountInv'
  <2>1. Open(t)' => sess'[t].op # "drop"
    BY <1>3, <1>5
  <2> QED
    BY <1>1, <1>4, <1>8, <2>1, CountFrame
<1>13. IsFiniteSet(disk)'
  BY DEF StoreInv, Typed
<1> QED
  BY <1>7, <1>11, <1>12, <1>13 DEF StoreInv, Typed

(* The tables with one dataset rewritten.                                  *)
LEMMA DatasetWritten ==
  ASSUME StoreInv, NEW d \in Ids(datasets), NEW row, datasets' = [datasets EXCEPT ![d] = row],
         IsDataset(row), row.total \in Nat, row.dir \in Dirs(d),
         row.dir = NoDir <=> row.status = "deleted"
  PROVE  /\ DatasetsTyped' /\ Ids(datasets)' = Ids(datasets) /\ Len(datasets)' = Len(datasets)
         /\ datasets'[d] = row
         /\ \A e \in Ids(datasets) \ {d} : datasets'[e] = datasets[e]
<1>1. IsSeq(datasets) /\ DOMAIN datasets = Ids(datasets)
  BY SeqShape DEF StoreInv, Typed, DatasetsTyped
<1>2. PICK u : u = [datasets EXCEPT ![d] = row]
  OBVIOUS
<1>3. DOMAIN u = DOMAIN datasets /\ u = [e \in DOMAIN u |-> u[e]]
  BY <1>2
<1>4. \A e \in Ids(datasets) : u[e] = IF e = d THEN row ELSE datasets[e]
  BY <1>1, <1>2
<1>5. IsSeq(u) /\ Ids(u) = Ids(datasets) /\ Len(u) = Len(datasets)
  BY <1>1, <1>3, SameShape
<1>6. datasets' = u
  BY <1>2
<1>7. IsSeq(datasets)' /\ Ids(datasets)' = Ids(datasets) /\ Len(datasets)' = Len(datasets)
  BY <1>5, <1>6
<1>8. \A e \in Ids(datasets) :
        /\ IsDataset(u[e]) /\ u[e].total \in Nat
        /\ u[e].dir \in Dirs(e) /\ (u[e].dir = NoDir <=> u[e].status = "deleted")
  BY <1>4, DatasetFacts DEF Deleted
<1>9. DatasetsTyped'
  BY <1>6, <1>7, <1>8 DEF DatasetsTyped, Deleted
<1> QED
  BY <1>4, <1>6, <1>7, <1>9

(* delete_dataset and purge_dataset_files.                                 *)
LEMMA CommitDeleteStep ==
  ASSUME StoreInv, NEW t \in Threads, Open(t), CommitDelete(t), End(t),
         UNCHANGED <<disk, raced>>
  PROVE  StoreInv'
<1>1. PICK d \in Ids(datasets) : d = sess[t].ds
  BY SessionFacts DEF SessionTarget, CommitDelete, Makes
<1>2. t = "ui" /\ sess[t].op # "create"
  BY SessionFacts DEF SessionTyped, CommitDelete, Threads
<1>3. PICK old : old = datasets[d]
  OBVIOUS
<1>4. PICK row : row = [old EXCEPT !.status = "deleted", !.dir = NoDir]
  OBVIOUS
<1>5. /\ datasets' = [datasets EXCEPT ![d] = row]
      /\ samples' = samples /\ notes' = notes /\ hurt' = hurt
  BY <1>1, <1>3, <1>4 DEF CommitDelete
<1>6. /\ IsDataset(row) /\ row.total \in Nat /\ row.dir = NoDir /\ row.status = "deleted"
  <2>1. old = [name |-> old.name, status |-> old.status, dir |-> old.dir, total |-> old.total]
    BY <1>3, DatasetFacts DEF IsDataset
  <2>2. row = [name |-> old.name, status |-> "deleted", dir |-> NoDir, total |-> old.total]
    BY <1>4, <2>1
  <2>3. old.total \in Nat
    BY <1>3, DatasetFacts
  <2> QED
    BY <2>2, <2>3 DEF IsDataset
<1>7. /\ DatasetsTyped' /\ Ids(datasets)' = Ids(datasets) /\ datasets'[d] = row
      /\ \A e \in Ids(datasets) \ {d} : datasets'[e] = datasets[e]
  BY <1>5, <1>6, DatasetWritten DEF Dirs
<1>8. SamplesTyped' /\ NotesTyped' /\ NotesInv' /\ \A e : Live(e)' = Live(e)
  BY <1>5, <1>7 DEF StoreInv, Typed, SamplesTyped, NotesTyped, NotesInv, Carried, Live
<1>9. Deleted(d)' /\ ~Sound(d)'
  BY <1>6, <1>7 DEF Deleted, Sound
<1> QED
  BY <1>1, <1>2, <1>5, <1>7, <1>8, <1>9, CommitFrame

(* update_dataset.                                                         *)
LEMMA CommitRenameStep ==
  ASSUME StoreInv, NEW t \in Threads, Open(t), CommitRename(t), End(t),
         UNCHANGED <<disk, raced>>
  PROVE  StoreInv'
<1>1. PICK s : s = sess[t] /\ s.op = "rename"
  BY DEF CommitRename
<1>2. /\ SessionTyped(t, s) /\ SessionTarget(s) /\ SessionDetail(s)
  BY <1>1, SessionFacts
<1>3. PICK d \in Ids(datasets) : d = s.ds
  BY <1>1, <1>2 DEF SessionTarget, Makes
<1>4. t = "ui" /\ s.dir \in Dirs(d) /\ (s.dir = NoDir <=> Deleted(d))
  BY <1>1, <1>2, <1>3 DEF SessionTyped, SessionDetail, Threads
<1>5. PICK old : old = datasets[d]
  OBVIOUS
<1>6. PICK row : row = [old EXCEPT !.name = s.then, !.dir = s.dir]
  OBVIOUS
<1>7. PICK rows : rows = [i \in Ids(samples) |->
        IF i \in s.count THEN [samples[i] EXCEPT !.path = Moved(@, old.dir, s.dir)] ELSE samples[i]]
  OBVIOUS
<1>8. /\ datasets' = [datasets EXCEPT ![d] = row]
      /\ samples' = rows /\ notes' = notes /\ hurt' = hurt
  BY <1>1, <1>3, <1>5, <1>6, <1>7 DEF CommitRename
<1>9. /\ IsDataset(row) /\ row.total \in Nat /\ row.dir = s.dir /\ row.status = old.status
      /\ row.total = old.total
  <2>1. old = [name |-> old.name, status |-> old.status, dir |-> old.dir, total |-> old.total]
    BY <1>5, DatasetFacts DEF IsDataset
  <2>2. row = [name |-> s.then, status |-> old.status, dir |-> s.dir, total |-> old.total]
    BY <1>6, <2>1
  <2>3. old.total \in Nat
    BY <1>5, DatasetFacts
  <2> QED
    BY <2>2, <2>3 DEF IsDataset
<1>10. /\ DatasetsTyped' /\ Ids(datasets)' = Ids(datasets) /\ datasets'[d] = row
       /\ \A e \in Ids(datasets) \ {d} : datasets'[e] = datasets[e]
  BY <1>4, <1>5, <1>8, <1>9, DatasetWritten DEF Deleted
<1>11. IsSeq(samples') /\ Ids(samples)' = Ids(samples) /\ Len(samples)' = Len(samples)
  <2>1. PICK n \in Nat : n = Len(samples) /\ DOMAIN samples = 1 .. n /\ Ids(samples) = 1 .. n
    BY SeqShape DEF StoreInv, Typed, SamplesTyped
  <2>2. IsSeq(samples) /\ DOMAIN rows = DOMAIN samples /\ rows = [i \in DOMAIN rows |-> rows[i]]
    BY <1>7, <2>1 DEF StoreInv, Typed, SamplesTyped
  <2>3. IsSeq(rows) /\ Ids(rows) = Ids(samples) /\ Len(rows) = Len(samples)
    BY <2>2, SameShape
  <2> QED
    BY <1>8, <2>3
<1>12. ASSUME NEW x \in Ids(samples)
       PROVE  /\ RowTyped(rows[x]) /\ rows[x].ds = samples[x].ds
              /\ rows[x].status = samples[x].status /\ rows[x].from = samples[x].from
              /\ x \in s.count => rows[x].path = Moved(samples[x].path, old.dir, s.dir)
              /\ x \notin s.count => rows[x] = samples[x]
  <2>1. RowTyped(samples[x])
    BY SampleFacts DEF RowTyped
  <2>2. CASE x \in s.count
    <3>1. PICK r, p : r = samples[x] /\ p = Moved(r.path, old.dir, s.dir)
      OBVIOUS
    <3>2. rows[x] = [r EXCEPT !.path = p]
      BY <1>7, <2>2, <3>1
    <3>3. PICK q : q = [r EXCEPT !.path = p]
      OBVIOUS
    <3>4. r = [ds |-> r.ds, path |-> r.path, status |-> r.status, from |-> r.from]
      BY <2>1, <3>1 DEF RowTyped, IsRow
    <3>5. /\ q = [ds |-> r.ds, path |-> p, status |-> r.status, from |-> r.from]
      BY <3>3, <3>4
    <3>6. /\ IsRow(q) /\ q.path = p /\ q.ds = r.ds /\ q.status = r.status /\ q.from = r.from
      BY <3>5 DEF IsRow
    <3>7. IsPath(p) /\ p.dir \in Dirs(r.ds)
      <4>1. r.ds = d
        BY <1>1, <1>2, <1>3, <2>2, <3>1 DEF SessionDetail
      <4>2. IsPath(r.path) /\ r.path.dir \in Dirs(r.ds)
        BY <2>1, <3>1 DEF RowTyped
      <4> QED
        BY <1>4, <3>1, <4>1, <4>2, MovedPath
    <3> QED
      BY <2>2, <3>1, <3>2, <3>3, <3>6, <3>7 DEF RowTyped
  <2>3. CASE x \notin s.count
    BY <1>7, <2>1, <2>3
  <2> QED
    BY <2>2, <2>3
<1>13. SamplesTyped'
  <2>1. \A x \in Ids(samples) : samples[x].ds \in Ids(datasets)
    BY SampleFacts
  <2>2. \A x \in Ids(samples) : RowTyped(samples[x])'
    BY <1>8, <1>12 DEF RowTyped
  <2> QED
    BY <1>8, <1>10, <1>11, <1>12, <2>1, <2>2 DEF SamplesTyped
<1>14. NotesTyped'
  BY <1>8, <1>11 DEF StoreInv, Typed, NotesTyped
<1>15. NotesInv'
  <2>1. ASSUME NEW n \in Ids(notes), notes[n].status = "applied" PROVE Carried(n)'
    <3>1. Carried(n) /\ notes[n].sample \in Ids(samples) /\ notes[n].out \in 0 .. Len(samples)
      BY <2>1, NoteFacts DEF StoreInv, NotesInv
    <3>2. notes[n].out # 0 => notes[n].out \in Ids(samples)
      BY <3>1, SeqShape DEF StoreInv, Typed, SamplesTyped, Ids
    <3> QED
      BY <1>8, <1>12, <3>1, <3>2 DEF Carried
  <2> QED
    BY <1>8, <2>1 DEF NotesInv
<1>16. \A e : Live(e)' = Live(e)
  BY <1>8, <1>11, <1>12 DEF Live
<1>17. \A e : e # d => \A x \in Live(e) : samples'[x].path = samples[x].path
  <2>1. ASSUME NEW e, e # d, NEW x \in Live(e) PROVE samples'[x].path = samples[x].path
    <3>1. x \in Ids(samples) /\ samples[x].ds = e
      BY <2>1 DEF Live
    <3>2. x \notin s.count
      BY <1>1, <1>2, <1>3, <2>1, <3>1 DEF SessionDetail
    <3> QED
      BY <1>8, <1>12, <3>1, <3>2
  <2> QED
    BY <2>1
<1>18. Sound(d)' => Whole(d)'
  <2> SUFFICES ASSUME Sound(d)' PROVE Whole(d)'
    OBVIOUS
  <2>1. Sound(d)
    BY <1>5, <1>8, <1>9, <1>10 DEF Sound, Deleted
  <2>2. WholeMoved(s)
    BY <1>1, <1>3, <2>1 DEF StoreInv, FilesInv, SessionsHold, SessionHolds
  <2>3. ASSUME NEW x \in Live(d)
        PROVE  /\ x \in Ids(samples) /\ IsPath(samples[x].path) /\ samples[x].path.dir = old.dir
               /\ rows[x].path = Moved(samples[x].path, old.dir, s.dir)
               /\ rows[x].path \in disk
    <3>1. x \in Ids(samples) /\ IsPath(samples[x].path)
      BY SampleFacts DEF Live
    <3>2. /\ x \in s.count /\ samples[x].path.dir = old.dir
          /\ Moved(samples[x].path, old.dir, s.dir) \in disk
      BY <1>3, <1>5, <2>2 DEF WholeMoved
    <3> QED
      BY <1>12, <3>1, <3>2
  <2>4. \A x \in Live(d) : rows[x].path.dir = s.dir
    BY <2>3, MovedPath
  <2>5. ASSUME NEW x \in Live(d), NEW y \in Live(d), x # y PROVE rows[x].path # rows[y].path
    <3>1. samples[x].path # samples[y].path
      BY <1>3, <2>2, <2>5 DEF WholeMoved
    <3> QED
      BY <2>3, <3>1, MovedApart
  <2> QED
    BY <1>8, <1>9, <1>10, <1>16, <2>3, <2>4, <2>5 DEF Whole
<1>19. d \notin raced' /\ ~Deleted(d)' => datasets'[d].total - Cardinality(Live(d)') \in {0, 1}
  BY <1>5, <1>9, <1>10, <1>16 DEF StoreInv, CountInv, CountIsLiveOrOneMore, Deleted
<1>20. \A e : e # d => Live(e)' = Live(e) /\ \A x \in Live(e) : samples'[x].path = samples[x].path
  BY <1>16, <1>17
<1>21. \A n \in Ids(notes) : notes'[n].sample = notes[n].sample
  BY <1>8
<1> QED
  BY <1>1, <1>3, <1>4, <1>8, <1>10, <1>13, <1>14, <1>15, <1>18, <1>19, <1>20, <1>21, CommitFrame

LEMMA NotesWritten ==
  ASSUME StoreInv, NEW n \in Ids(notes), NEW note, notes' = [notes EXCEPT ![n] = note],
         IsNote(note), note.action = notes[n].action, note.sample = notes[n].sample,
         Ids(samples) \subseteq Ids(samples)', note.out \in 0 .. Len(samples)',
         Len(samples)' \in Nat, Len(samples) <= Len(samples)'
  PROVE  /\ NotesTyped' /\ Ids(notes)' = Ids(notes) /\ notes'[n] = note
         /\ \A m \in Ids(notes) \ {n} : notes'[m] = notes[m]
<1>1. IsSeq(notes) /\ DOMAIN notes = Ids(notes)
  BY SeqShape DEF StoreInv, Typed, NotesTyped
<1>2. PICK u : u = [notes EXCEPT ![n] = note]
  OBVIOUS
<1>3. DOMAIN u = DOMAIN notes /\ u = [e \in DOMAIN u |-> u[e]]
  BY <1>2
<1>4. \A e \in Ids(notes) : u[e] = IF e = n THEN note ELSE notes[e]
  BY <1>1, <1>2
<1>5. IsSeq(u) /\ Ids(u) = Ids(notes)
  BY <1>1, <1>3, SameShape
<1>6. notes' = u
  BY <1>2
<1>7. IsSeq(notes)' /\ Ids(notes)' = Ids(notes)
  BY <1>5, <1>6
<1>8. Len(samples) \in Nat
  BY SeqShape DEF StoreInv, Typed, SamplesTyped
<1>9. ASSUME NEW e \in Ids(notes)
      PROVE  /\ IsNote(u[e]) /\ u[e].action \in {"delete", "repair"}
             /\ u[e].sample \in Ids(samples)' /\ u[e].out \in 0 .. Len(samples)'
  <2>1. /\ IsNote(notes[e]) /\ notes[e].action \in {"delete", "repair"}
        /\ notes[e].sample \in Ids(samples)' /\ notes[e].out \in 0 .. Len(samples)'
    BY <1>8, NoteFacts
  <2> QED
    BY <1>4, <2>1
<1>10. NotesTyped'
  BY <1>6, <1>7, <1>9 DEF NotesTyped
<1> QED
  BY <1>4, <1>6, <1>7, <1>10

(* _apply_suggestion for delete.                                           *)
LEMMA CommitDropStep ==
  ASSUME StoreInv, NEW t \in Threads, Open(t), CommitDrop(t), End(t),
         UNCHANGED <<disk, raced>>
  PROVE  StoreInv'
<1>1. PICK s : s = sess[t] /\ s.op = "drop"
  BY DEF CommitDrop
<1>2. /\ SessionTyped(t, s) /\ SessionTarget(s) /\ SessionDetail(s)
  BY <1>1, SessionFacts
<1>3. PICK d \in Ids(datasets) : d = s.ds
  BY <1>1, <1>2 DEF SessionTarget, Makes
<1>4. PICK n \in Ids(notes) : n = s.note /\ notes[n].action = "delete" /\ s.count \in Nat
  BY <1>1, <1>2 DEF SessionDetail
<1>5. PICK x \in Ids(samples) : x = notes[n].sample /\ samples[x].ds = d
  BY <1>1, <1>2, <1>3, <1>4, NoteFacts DEF SessionDetail
<1>6. t = "ui"
  BY <1>1, <1>2 DEF SessionTyped, Threads
<1>7. PICK old, row : old = datasets[d] /\ row = [old EXCEPT !.total = s.count]
  OBVIOUS
<1>8. PICK n0, note : n0 = notes[n] /\ note = [n0 EXCEPT !.status = "applied"]
  OBVIOUS
<1>9. PICK r0, r : r0 = samples[x] /\ r = [r0 EXCEPT !.status = "deleted"]
  OBVIOUS
<1>10. PICK rows : rows = [samples EXCEPT ![x] = r]
  OBVIOUS
<1>11. /\ datasets' = [datasets EXCEPT ![d] = row] /\ notes' = [notes EXCEPT ![n] = note]
       /\ samples' = rows /\ hurt' = hurt
  <2>1. /\ datasets' = [datasets EXCEPT ![d].total = s.count]
        /\ notes' = [notes EXCEPT ![n].status = "applied"]
        /\ samples' = [samples EXCEPT ![x].status = "deleted"] /\ hurt' = hurt
    BY <1>1, <1>3, <1>4, <1>5 DEF CommitDrop
  <2> QED
    BY <1>7, <1>8, <1>9, <1>10, <2>1
<1>12. /\ IsDataset(row) /\ row.total = s.count /\ row.dir = old.dir /\ row.status = old.status
  <2>1. old = [name |-> old.name, status |-> old.status, dir |-> old.dir, total |-> old.total]
    BY <1>7, DatasetFacts DEF IsDataset
  <2>2. row = [name |-> old.name, status |-> old.status, dir |-> old.dir, total |-> s.count]
    BY <1>7, <2>1
  <2> QED
    BY <2>2 DEF IsDataset
<1>13. /\ DatasetsTyped' /\ Ids(datasets)' = Ids(datasets) /\ datasets'[d] = row
       /\ \A e \in Ids(datasets) \ {d} : datasets'[e] = datasets[e]
  <2>1. old.dir \in Dirs(d) /\ (old.dir = NoDir <=> old.status = "deleted")
    BY <1>7, DatasetFacts DEF Deleted
  <2> QED
    BY <1>4, <1>11, <1>12, <2>1, DatasetWritten
<1>14. /\ IsRow(r) /\ r.ds = d /\ r.path = samples[x].path /\ r.status = "deleted"
       /\ r.from = samples[x].from
  <2>1. r0 = [ds |-> r0.ds, path |-> r0.path, status |-> r0.status, from |-> r0.from]
    BY <1>9, SampleFacts DEF IsRow
  <2>2. r = [ds |-> r0.ds, path |-> r0.path, status |-> "deleted", from |-> r0.from]
    BY <1>9, <2>1
  <2> QED
    BY <1>5, <1>9, <2>2 DEF IsRow
<1>15. /\ IsSeq(samples') /\ Ids(samples)' = Ids(samples) /\ Len(samples)' = Len(samples)
       /\ \A y \in Ids(samples) : rows[y] = IF y = x THEN r ELSE samples[y]
  <2>1. IsSeq(samples) /\ DOMAIN samples = Ids(samples)
    BY SeqShape DEF StoreInv, Typed, SamplesTyped
  <2>2. DOMAIN rows = DOMAIN samples /\ rows = [y \in DOMAIN rows |-> rows[y]]
    BY <1>10
  <2>3. IsSeq(rows) /\ Ids(rows) = Ids(samples) /\ Len(rows) = Len(samples)
    BY <2>1, <2>2, SameShape
  <2> QED
    BY <1>10, <1>11, <2>1, <2>3
<1>16. SamplesTyped'
  <2>1. \A y \in Ids(samples) : RowTyped(rows[y]) /\ rows[y].ds \in Ids(datasets)
    BY <1>5, <1>14, <1>15, SampleFacts DEF RowTyped
  <2>2. \A y \in Ids(samples) : RowTyped(samples[y])'
    BY <1>11, <2>1 DEF RowTyped
  <2> QED
    BY <1>11, <1>13, <1>15, <2>1, <2>2 DEF SamplesTyped
<1>17. /\ IsNote(note) /\ note.action = "delete" /\ note.sample = x /\ note.out = notes[n].out
  <2>1. n0 = [sample |-> n0.sample, action |-> n0.action, status |-> n0.status, out |-> n0.out]
    BY <1>8, NoteFacts DEF IsNote
  <2>2. note = [sample |-> n0.sample, action |-> n0.action, status |-> "applied", out |-> n0.out]
    BY <1>8, <2>1
  <2> QED
    BY <1>4, <1>5, <1>8, <2>2 DEF IsNote
<1>18. /\ NotesTyped' /\ Ids(notes)' = Ids(notes) /\ notes'[n] = note
       /\ \A m \in Ids(notes) \ {n} : notes'[m] = notes[m]
  <2>1. Len(samples) \in Nat
    BY SeqShape DEF StoreInv, Typed, SamplesTyped
  <2> QED
    <3>1. /\ note.action = notes[n].action /\ note.sample = notes[n].sample
          /\ note.out \in 0 .. Len(samples)
      BY <1>4, <1>5, <1>17, NoteFacts
    <3>2. /\ Ids(samples) \subseteq Ids(samples)' /\ note.out \in 0 .. Len(samples)'
          /\ Len(samples)' \in Nat /\ Len(samples) <= Len(samples)'
      BY <1>15, <2>1, <3>1
    <3> QED
      BY <1>11, <1>17, <3>1, <3>2, NotesWritten
<1>19. NotesInv'
  <2>1. ASSUME NEW m \in Ids(notes), notes'[m].status = "applied" PROVE Carried(m)'
    <3>1. CASE m = n
      BY <1>11, <1>14, <1>15, <1>17, <1>18, <3>1 DEF Carried
    <3>2. CASE m # n
      <4>1. Carried(m) /\ notes'[m] = notes[m] /\ notes[m].sample \in Ids(samples)
            /\ notes[m].out \in 0 .. Len(samples)
        BY <1>18, <2>1, <3>2, NoteFacts DEF StoreInv, NotesInv
      <4>2. notes[m].out # 0 => notes[m].out \in Ids(samples)
        BY <4>1, SeqShape DEF StoreInv, Typed, SamplesTyped, Ids
      <4>3. \A y \in Ids(samples) : /\ samples'[y].from = samples[y].from
                                    /\ samples[y].status = "deleted" => samples'[y].status = "deleted"
        BY <1>11, <1>14, <1>15
      <4> QED
        BY <4>1, <4>2, <4>3 DEF Carried
    <3> QED
      BY <3>1, <3>2
  <2> QED
    BY <1>18, <2>1 DEF NotesInv
<1>20. Live(d)' = Live(d) \ {x}
  BY <1>11, <1>14, <1>15 DEF Live
<1>21. \A e : e # d => Live(e)' = Live(e) /\ \A y \in Live(e) : samples'[y].path = samples[y].path
  BY <1>5, <1>11, <1>14, <1>15 DEF Live
<1>22. Sound(d)' => Whole(d)'
  <2> SUFFICES ASSUME Sound(d)' PROVE Whole(d)'
    OBVIOUS
  <2>1. Sound(d)
    BY <1>7, <1>11, <1>12, <1>13 DEF Sound, Deleted
  <2>2. WholeBut(d, x)
    BY <1>1, <1>3, <1>4, <1>5, <2>1 DEF StoreInv, FilesInv, SessionsHold, SessionHolds
  <2>3. \A y \in Live(d) \ {x} : samples'[y].path = samples[y].path
    BY <1>11, <1>15 DEF Live
  <2> QED
    BY <1>7, <1>12, <1>13, <1>20, <2>2, <2>3 DEF Whole, WholeBut
<1>23. d \notin raced' => datasets'[d].total - Cardinality(Live(d)') \in {0, 1}
  <2> SUFFICES ASSUME d \notin raced' PROVE datasets'[d].total - Cardinality(Live(d)') \in {0, 1}
    OBVIOUS
  <2>1. s.count = Cardinality(Live(d))
    BY <1>1, <1>3 DEF StoreInv, CountInv
  <2>2. IsFiniteSet(Live(d)) /\ Cardinality(Live(d)) \in Nat
    BY LiveFinite DEF StoreInv, Typed, SamplesTyped
  <2>3. Cardinality(Live(d) \ {x}) =
          IF x \in Live(d) THEN Cardinality(Live(d)) - 1 ELSE Cardinality(Live(d))
    BY <2>2, FS_RemoveElement
  <2> QED
    BY <1>12, <1>13, <1>20, <2>1, <2>2, <2>3
<1>24. \A m \in Ids(notes) : notes'[m].sample = notes[m].sample
  BY <1>5, <1>17, <1>18
<1>25. t # "worker" /\ sess[t].op # "create" /\ disk' = disk /\ raced' = raced /\ hurt' = hurt
       /\ d = sess[t].ds
  BY <1>1, <1>3, <1>6, <1>11
<1> QED
  BY <1>13, <1>16, <1>18, <1>19, <1>21, <1>22, <1>23, <1>24, <1>25, CommitFrame

(* The rows that are added: k of them, after m.                            *)
Added(m, k) == {m + i : i \in 1 .. k}

LEMMA AddedCount ==
  ASSUME NEW S, IsFiniteSet(S), NEW m \in Nat, NEW k \in Nat, S \subseteq 1 .. m
  PROVE  Cardinality(S \union Added(m, k)) = Cardinality(S) + k
<1>1. Added(m, k) = (m + 1) .. (m + k)
  <2>1. ASSUME NEW j \in (m + 1) .. (m + k) PROVE \E i \in 1 .. k : j = m + i
    <3>1. j - m \in 1 .. k /\ j = m + (j - m)
      OBVIOUS
    <3> QED
      BY <3>1
  <2>2. \A i \in 1 .. k : m + i \in (m + 1) .. (m + k)
    OBVIOUS
  <2> QED
    BY <2>1, <2>2 DEF Added
<1>2. PICK A : A = (m + 1) .. (m + k)
  OBVIOUS
<1>3. IsFiniteSet(A) /\ Cardinality(A) = k
  <2>1. m + 1 \in Int /\ m + k \in Int
    OBVIOUS
  <2>2. IsFiniteSet(A) /\ Cardinality(A) = IF m + 1 > m + k THEN 0 ELSE (m + k) - (m + 1) + 1
    BY <1>2, <2>1, FS_Interval
  <2> QED
    BY <2>2
<1>4. S \intersect A = {}
  BY <1>2
<1>5. Cardinality(S) \in Nat /\ Cardinality({}) = 0
  BY FS_CardinalityType, FS_EmptySet
<1>6. Cardinality(S \union A) = Cardinality(S) + Cardinality(A) - Cardinality(S \intersect A)
  BY <1>3, FS_Union
<1>7. Cardinality(S \union A) = Cardinality(S) + k
  <2>1. PICK a \in Nat : a = Cardinality(S)
    BY <1>5
  <2>2. Cardinality(S \union A) = a + k - 0
    BY <1>3, <1>4, <1>5, <1>6, <2>1
  <2>3. a + k - 0 = a + k
    OBVIOUS
  <2> QED
    BY <2>1, <2>2, <2>3
<1> QED
  BY <1>1, <1>2, <1>7

(* The datasets a commit leaves: the one it made, and the new count.       *)
LEMMA DatasetsAfterRows ==
  ASSUME StoreInv, NEW t \in Threads, Open(t), CommitRows(t), NEW s, s = sess[t]
  PROVE  /\ DatasetsTyped' /\ s.ds \in Ids(datasets)'
         /\ Ids(datasets) \subseteq Ids(datasets)'
         /\ Ids(datasets)' \subseteq Ids(datasets) \union {s.ds}
         /\ \A e \in Ids(datasets) \ {s.ds} : datasets'[e] = datasets[e]
         /\ s.op \notin Makes => Len(datasets)' = Len(datasets)
         /\ s.ds \in Ids(datasets) =>
              /\ datasets'[s.ds].dir = datasets[s.ds].dir
              /\ Deleted(s.ds)' <=> Deleted(s.ds)
         /\ s.op \in Makes => s.ds \notin Ids(datasets) /\ datasets'[s.ds].dir = s.dir /\ ~Deleted(s.ds)'
         /\ datasets'[s.ds].total =
              IF s.op = "create" THEN 0 ELSE Cardinality(Live(s.ds)) + Len(s.rows)
<1>1. SessionTyped(t, s) /\ SessionTarget(s) /\ SessionDetail(s)
  BY SessionFacts
<1>2. PICK d : d = s.ds
  OBVIOUS
<1>3. PICK n \in Nat : n = Len(datasets) /\ Ids(datasets) = 1 .. n /\ IsSeq(datasets)
  BY SeqShape DEF StoreInv, Typed, DatasetsTyped
<1>4. PICK news : news = s.news /\ IsSeq(news) /\ (IF s.op \in Makes THEN Ids(news) = {1} /\ Len(news) = 1
                                                              ELSE Ids(news) = {} /\ Len(news) = 0)
  BY <1>1, One, Empty DEF SessionTarget
<1>5. PICK all : all = datasets \o news
  OBVIOUS
<1>6. /\ IsSeq(all) /\ Len(all) = n + Len(news)
      /\ \A e \in Ids(datasets) : all[e] = datasets[e]
      /\ s.op \in Makes => all[n + 1] = news[1]
      /\ Ids(all) = Ids(datasets) \union (IF s.op \in Makes THEN {n + 1} ELSE {})
  <2>1. /\ IsSeq(all) /\ Len(all) = Len(datasets) + Len(news) /\ Ids(datasets) \subseteq Ids(all)
        /\ \A e \in Ids(datasets) : all[e] = datasets[e]
        /\ \A i \in Ids(news) : Len(datasets) + i \in Ids(all) /\ all[Len(datasets) + i] = news[i]
        /\ \A e \in Ids(all) : e \in Ids(datasets) \/ \E j \in Ids(news) : e = Len(datasets) + j
    <3>1. Joins(all, datasets, news)
      BY <1>3, <1>4, <1>5, Concat
    <3> QED
      BY <3>1 DEF Joins
  <2>2. CASE s.op \in Makes
    <3>1. Ids(news) = {1} /\ n + 1 = Len(datasets) + 1
      BY <1>3, <1>4, <2>2
    <3>2. n + 1 \in Ids(all) /\ all[n + 1] = news[1]
      BY <2>1, <3>1
    <3>3. \A e \in Ids(all) : e \in Ids(datasets) \/ e = n + 1
      BY <2>1, <3>1
    <3> QED
      BY <1>3, <2>1, <2>2, <3>2, <3>3
  <2>3. CASE s.op \notin Makes
    <3>1. Ids(all) = Ids(datasets)
      BY <1>4, <2>1, <2>3
    <3> QED
      BY <1>3, <2>1, <2>3, <3>1
  <2> QED
    BY <2>2, <2>3
<1>7. /\ d \in Ids(all) /\ d \in Nat \ {0}
      /\ IsDataset(all[d]) /\ all[d].dir \in Dirs(d)
      /\ all[d].dir = NoDir <=> all[d].status = "deleted"
      /\ all[d].total \in Nat
      /\ s.op \in Makes => /\ all[d].dir = s.dir /\ all[d].total = 0 /\ all[d].status # "deleted"
                           /\ d \notin Ids(datasets)
      /\ s.op \notin Makes => d \in Ids(datasets) /\ all[d] = datasets[d]
  <2>1. CASE s.op \in Makes
    <3>1. d = n + 1 /\ all[d] = s.news[1] /\ d \notin Ids(datasets)
      BY <1>1, <1>2, <1>3, <1>4, <1>6, <2>1 DEF SessionTarget
    <3>2. /\ IsDataset(s.news[1]) /\ s.news[1].total = 0 /\ s.news[1].dir = s.dir
          /\ s.dir # NoDir /\ s.news[1].status # "deleted"
      BY <1>1, <2>1 DEF SessionTarget
    <3>3. s.dir \in Dirs(d)
      BY <1>1, <1>2 DEF SessionTyped
    <3> QED
      BY <1>3, <1>6, <2>1, <3>1, <3>2, <3>3
  <2>2. CASE s.op \notin Makes
    <3>1. d \in Ids(datasets) /\ all[d] = datasets[d]
      BY <1>1, <1>2, <1>6, <2>2 DEF SessionTarget
    <3> QED
      BY <1>6, <2>2, <3>1, DatasetFacts DEF Deleted
  <2> QED
    BY <2>1, <2>2
<1>8. PICK c : c = Cardinality(Live(d)) + Len(s.rows)
  OBVIOUS
<1>9. c \in Nat
  <2>1. Cardinality(Live(d)) \in Nat
    BY LiveFinite DEF StoreInv, Typed, SamplesTyped
  <2>2. Len(s.rows) \in Nat
    BY <1>1, SeqShape DEF SessionTyped
  <2> QED
    BY <1>8, <2>1, <2>2
<1>10. PICK old : old = all[d]
  OBVIOUS
<1>11. PICK v : v = IF s.op = "create" THEN old.total ELSE c
  OBVIOUS
<1>12. PICK row : row = [old EXCEPT !.total = v]
  OBVIOUS
<1>13. /\ IsDataset(row) /\ row.total = v /\ row.dir = old.dir /\ row.status = old.status
  <2>1. old = [name |-> old.name, status |-> old.status, dir |-> old.dir, total |-> old.total]
    BY <1>7, <1>10 DEF IsDataset
  <2>2. row = [name |-> old.name, status |-> old.status, dir |-> old.dir, total |-> v]
    BY <1>12, <2>1
  <2> QED
    BY <2>2 DEF IsDataset
<1>14. PICK u : u = [all EXCEPT ![d] = row]
  OBVIOUS
<1>15. datasets' = u
  <2>1. datasets' = [all EXCEPT ![d].total =
                       IF s.op = "create" THEN @ ELSE Counted(s.ds, s.rows)]
    BY <1>2, <1>4, <1>5 DEF CommitRows
  <2>2. Counted(s.ds, s.rows) = c
    BY <1>2, <1>8 DEF Counted
  <2> QED
    BY <1>10, <1>11, <1>12, <1>14, <2>1, <2>2
<1>16. /\ IsSeq(u) /\ Len(u) = Len(all) /\ Ids(u) = Ids(all)
       /\ \A e \in Ids(all) : u[e] = IF e = d THEN row ELSE all[e]
  <2>1. DOMAIN all = Ids(all)
    BY <1>6, SeqShape
  <2>2. DOMAIN u = DOMAIN all /\ u = [e \in DOMAIN u |-> u[e]]
    BY <1>14
  <2>3. \A e \in Ids(all) : u[e] = IF e = d THEN row ELSE all[e]
    BY <1>14, <2>1
  <2> QED
    BY <1>6, <2>2, <2>3, SameShape
<1>17. Ids(datasets)' = Ids(all) /\ Len(datasets)' = Len(all)
  BY <1>15, <1>16 DEF Ids
<1>18. Ids(all) \subseteq Ids(datasets) \union {d} /\ Ids(datasets) \subseteq Ids(all)
  BY <1>1, <1>2, <1>3, <1>6 DEF SessionTarget
<1>19. v \in Nat
  BY <1>7, <1>9, <1>10, <1>11
<1>20. DatasetsTyped'
  <2>1. \A e \in Ids(all) :
          /\ IsDataset(u[e]) /\ u[e].total \in Nat
          /\ u[e].dir \in Dirs(e) /\ (u[e].dir = NoDir <=> u[e].status = "deleted")
    <3>1. ASSUME NEW e \in Ids(all), e # d
          PROVE  /\ e \in Ids(datasets) /\ u[e] = datasets[e]
      BY <1>6, <1>16, <1>18, <3>1
    <3>2. /\ u[d] = row /\ row.dir \in Dirs(d) /\ (row.dir = NoDir <=> row.status = "deleted")
      BY <1>7, <1>10, <1>13, <1>16
    <3> QED
      BY <1>13, <1>19, <3>1, <3>2, DatasetFacts DEF Deleted
  <2> QED
    BY <1>15, <1>16, <1>17, <2>1 DEF DatasetsTyped, Deleted
<1>21. /\ d \in Ids(datasets)' /\ datasets'[d] = row
       /\ \A e \in Ids(datasets) \ {d} : datasets'[e] = datasets[e]
  BY <1>6, <1>7, <1>15, <1>16, <1>17, <1>18
<1>22. s.op \notin Makes => Len(datasets)' = Len(datasets)
  BY <1>3, <1>4, <1>6, <1>17
<1>23. d \in Ids(datasets) => datasets'[d].dir = datasets[d].dir /\ (Deleted(d)' <=> Deleted(d))
  BY <1>7, <1>10, <1>13, <1>21 DEF Deleted
<1>24. s.op \in Makes => d \notin Ids(datasets) /\ datasets'[d].dir = s.dir /\ ~Deleted(d)'
  BY <1>7, <1>10, <1>13, <1>21 DEF Deleted
<1>25. datasets'[d].total = IF s.op = "create" THEN 0 ELSE c
  BY <1>7, <1>10, <1>11, <1>13, <1>21 DEF Makes
<1> QED
  BY <1>2, <1>8, <1>17, <1>18, <1>20, <1>21, <1>22, <1>23, <1>24, <1>25

(* The samples a commit leaves: those that were, and its own.              *)
RowsAdded(s, m, k) ==
  /\ SamplesTyped' /\ Len(samples)' = m + k
  /\ Ids(samples) \subseteq Ids(samples)'
  /\ \A x \in Ids(samples) : samples'[x] = samples[x]
  /\ \A i \in 1 .. k : m + i \in Ids(samples)' /\ samples'[m + i] = s.rows[i]
  /\ \A x \in Ids(samples)' \ Ids(samples) : \E i \in 1 .. k : x = m + i
  /\ Live(s.ds)' = Live(s.ds) \union Added(m, k)
  /\ \A e : e # s.ds => Live(e)' = Live(e)

LEMMA SamplesAfterRows ==
  ASSUME StoreInv, NEW t \in Threads, Open(t), CommitRows(t), NEW s, s = sess[t],
         Ids(datasets) \subseteq Ids(datasets)', s.ds \in Ids(datasets)'
  PROVE  RowsAdded(s, Len(samples), Len(s.rows))
<1>0. PICK m \in Nat, k \in Nat : m = Len(samples) /\ k = Len(s.rows)
  BY SessionFacts, SeqShape DEF SessionTyped, StoreInv, Typed, SamplesTyped
<1>1. SessionTyped(t, s) /\ IsSeq(samples) /\ Ids(samples) = 1 .. m
  BY <1>0, SessionFacts, SeqShape DEF StoreInv, Typed, SamplesTyped
<1>2. IsSeq(s.rows) /\ Ids(s.rows) = 1 .. k
  BY <1>0, <1>1, SeqShape DEF SessionTyped
<1>3. PICK u : u = samples \o s.rows
  OBVIOUS
<1>4. /\ IsSeq(u) /\ Len(u) = m + k /\ Ids(samples) \subseteq Ids(u)
      /\ \A i \in Ids(samples) : u[i] = samples[i]
      /\ \A i \in 1 .. k : m + i \in Ids(u) /\ u[m + i] = s.rows[i]
      /\ \A i \in Ids(u) : i \in Ids(samples) \/ \E j \in 1 .. k : i = m + j
  <2>1. Joins(u, samples, s.rows)
    BY <1>1, <1>2, <1>3, Concat
  <2>2. /\ IsSeq(u) /\ Len(u) = m + k /\ Ids(samples) \subseteq Ids(u)
        /\ \A i \in Ids(samples) : u[i] = samples[i]
    BY <1>0, <1>1, <1>2, <2>1 DEF Joins
  <2>3. \A i \in 1 .. k : m + i \in Ids(u) /\ u[m + i] = s.rows[i]
    BY <1>0, <1>1, <1>2, <2>1 DEF Joins
  <2>4. \A i \in Ids(u) : i \in Ids(samples) \/ \E j \in 1 .. k : i = m + j
    BY <1>0, <1>1, <1>2, <2>1 DEF Joins
  <2> QED
    BY <2>2, <2>3, <2>4
<1>5. samples' = u /\ Ids(samples)' = Ids(u)
  BY <1>3 DEF Ids, CommitRows
<1>6. \A i \in 1 .. k : /\ RowTyped(s.rows[i]) /\ s.rows[i].ds = s.ds
                        /\ s.rows[i].status # "deleted"
  BY <1>1, <1>2 DEF SessionTyped
<1>7. ASSUME NEW x \in Ids(u) PROVE RowTyped(u[x]) /\ u[x].ds \in Ids(datasets)'
  <2>1. CASE x \in Ids(samples)
    BY <1>4, <2>1, SampleFacts DEF RowTyped
  <2>2. CASE x \notin Ids(samples)
    BY <1>4, <1>6, <2>2
  <2> QED
    BY <2>1, <2>2
<1>8. SamplesTyped'
  <2>1. \A x \in Ids(u) : RowTyped(samples[x])'
    BY <1>5, <1>7 DEF RowTyped
  <2> QED
    BY <1>4, <1>5, <1>7, <2>1 DEF SamplesTyped
<1>9. ASSUME NEW e, NEW x
      PROVE  /\ x \in Live(e)' <=> x \in Ids(u) /\ u[x].ds = e /\ u[x].status # "deleted"
             /\ x \in Live(e) <=> /\ x \in Ids(samples) /\ samples[x].ds = e
                                  /\ samples[x].status # "deleted"
  BY <1>5 DEF Live
<1>10. ASSUME NEW x \in Ids(u), x \notin Ids(samples)
       PROVE  \E i \in 1 .. k : x = m + i /\ u[x].ds = s.ds
  <2>1. PICK i \in 1 .. k : x = m + i
    BY <1>4, <1>10
  <2>2. u[x] = s.rows[i]
    BY <1>4, <2>1
  <2> QED
    BY <1>6, <2>1, <2>2
<1>11. ASSUME NEW e, e # s.ds PROVE Live(e)' = Live(e)
  <2>1. ASSUME NEW x PROVE x \in Live(e)' <=> x \in Live(e)
    BY <1>4, <1>9, <1>10, <1>11
  <2> QED
    BY <2>1
<1>12. Live(s.ds)' = Live(s.ds) \union Added(m, k)
  <2>1. ASSUME NEW x \in Live(s.ds)' PROVE x \in Live(s.ds) \/ \E i \in 1 .. k : x = m + i
    <3>1. x \in Ids(u) /\ u[x].ds = s.ds /\ u[x].status # "deleted"
      BY <1>5, <2>1 DEF Live
    <3>2. CASE x \in Ids(samples)
      BY <1>4, <3>1, <3>2 DEF Live
    <3>3. CASE x \notin Ids(samples)
      BY <1>10, <3>1, <3>3
    <3> QED
      BY <3>2, <3>3
  <2>2. ASSUME NEW x \in Live(s.ds) PROVE x \in Live(s.ds)'
    BY <1>4, <1>5, <2>2 DEF Live
  <2>3. ASSUME NEW i \in 1 .. k PROVE m + i \in Live(s.ds)'
    <3>1. PICK x : x = m + i /\ x \in Ids(u) /\ u[x] = s.rows[i]
      BY <1>4
    <3>2. x \in Live(s.ds)'
      BY <1>5, <1>6, <3>1 DEF Live
    <3> QED
      BY <3>1, <3>2
  <2> QED
    BY <2>1, <2>2, <2>3 DEF Added
<1>13. RowsAdded(s, m, k)
  BY <1>4, <1>5, <1>8, <1>11, <1>12 DEF RowsAdded
<1> QED
  BY <1>0, <1>13

(* What the commit of added rows does to the files and to the count.       *)
LEMMA WholeAfterRows ==
  ASSUME StoreInv, NEW t \in Threads, Open(t), CommitRows(t), disk' = disk,
         hurt' = hurt, raced' = raced, NEW s, s = sess[t], NEW d, d = s.ds, Sound(d)'
  PROVE  Whole(d)'
<1>1. s = sess[t] /\ d = s.ds
  OBVIOUS
<1>2. SessionTyped(t, s) /\ SessionTarget(s) /\ SessionDetail(s)
      /\ (s.op \in Makes => d \notin Ids(datasets))
  BY <1>1, SessionFacts
<1>3. s.op \in Makes \union {"import", "persist", "repair"}
  BY <1>1 DEF CommitRows, Makes
<1>4. PICK m \in Nat, k \in Nat : m = Len(samples) /\ k = Len(s.rows) /\ Ids(s.rows) = 1 .. k
                                  /\ Ids(samples) = 1 .. m
  BY <1>2, SeqShape DEF SessionTyped, StoreInv, Typed, SamplesTyped
<1>5. /\ d \in Ids(datasets)' /\ Ids(datasets) \subseteq Ids(datasets)'
      /\ d \in Ids(datasets) => /\ datasets'[d].dir = datasets[d].dir
                                /\ Deleted(d)' <=> Deleted(d)
      /\ s.op \in Makes => datasets'[d].dir = s.dir
  BY <1>1, DatasetsAfterRows
<1>6. /\ \A x \in Ids(samples) : samples'[x] = samples[x]
      /\ \A i \in 1 .. k : samples'[m + i] = s.rows[i]
      /\ Live(d)' = Live(d) \union Added(m, k)
  <2>1. RowsAdded(s, m, k)
    BY <1>4, <1>5, SamplesAfterRows
  <2> QED
    BY <2>1 DEF RowsAdded
<1>7. Sound(d)
  BY <1>1, <1>5 DEF Sound
<1>8. SessionHolds(s)
  BY <1>1, <1>7 DEF StoreInv, FilesInv, SessionsHold
<1>9. PICK dir : dir = s.dir /\ dir = datasets'[d].dir
  BY <1>1, <1>2, <1>3, <1>5, <1>8 DEF SessionHolds, SessionTarget, Makes
<1>10. ASSUME NEW x \in Live(d)
       PROVE  /\ x \in Ids(samples) /\ samples'[x].path = samples[x].path
              /\ samples[x].path \in disk /\ samples[x].path.dir = dir
              /\ \A y \in Live(d) : x # y => samples[x].path # samples[y].path
  <2>1. s.op \notin Makes
    BY <1>2, NoneYet
  <2>2. Whole(d) /\ datasets[d].dir = dir
    BY <1>1, <1>2, <1>3, <1>5, <1>8, <1>9, <2>1 DEF SessionHolds, SessionTarget, Makes
  <2> QED
    BY <1>6, <2>2 DEF Whole, Live
<1>11. ASSUME NEW i \in 1 .. k
       PROVE  /\ samples'[m + i].path = s.rows[i].path
              /\ s.rows[i].path \in disk /\ s.rows[i].path.dir = dir
              /\ \A j \in 1 .. k : i # j => s.rows[i].path # s.rows[j].path
              /\ \A x \in Live(d) : s.rows[i].path # samples[x].path
  <2>1. s.rows[i].path.dir = dir
    BY <1>2, <1>4, <1>9 DEF SessionTyped
  <2>2. RowsHeld(s)
    BY <1>8 DEF SessionHolds
  <2> QED
    BY <1>1, <1>4, <1>6, <2>1, <2>2 DEF RowsHeld
<1>12. ASSUME NEW x \in Live(d)'
       PROVE  x \in Live(d) \/ \E i \in 1 .. k : x = m + i
  BY <1>6, <1>12 DEF Added
<1>13. ASSUME NEW x \in Live(d)'
       PROVE  samples'[x].path \in disk' /\ samples'[x].path.dir = datasets'[d].dir
  <2>1. CASE x \in Live(d)
    BY <1>9, <1>10, <2>1
  <2>2. CASE \E i \in 1 .. k : x = m + i
    <3>1. PICK i \in 1 .. k : x = m + i
      BY <2>2
    <3>2. /\ samples'[x].path = s.rows[i].path
          /\ s.rows[i].path \in disk /\ s.rows[i].path.dir = dir
      BY <1>11, <3>1
    <3> QED
      BY <1>9, <3>2
  <2> QED
    BY <1>12, <2>1, <2>2
<1>14. ASSUME NEW x \in Live(d)', NEW y \in Live(d)', x # y
       PROVE  samples'[x].path # samples'[y].path
  <2>1. CASE x \in Live(d) /\ y \in Live(d)
    BY <1>10, <1>14, <2>1
  <2>2. CASE x \in Live(d) /\ \E j \in 1 .. k : y = m + j
    BY <1>10, <1>11, <2>2
  <2>3. CASE y \in Live(d) /\ \E i \in 1 .. k : x = m + i
    <3>1. PICK i \in 1 .. k : x = m + i
      BY <2>3
    <3>2. samples'[x].path = s.rows[i].path /\ s.rows[i].path # samples[y].path
      BY <1>11, <2>3, <3>1
    <3>3. samples'[y].path = samples[y].path
      BY <1>10, <2>3
    <3> QED
      BY <3>2, <3>3
  <2>4. CASE (\E i \in 1 .. k : x = m + i) /\ \E j \in 1 .. k : y = m + j
    <3>1. PICK i \in 1 .. k, j \in 1 .. k : x = m + i /\ y = m + j
      BY <2>4
    <3>2. i # j
      BY <1>14, <3>1
    <3>3. /\ samples'[x].path = s.rows[i].path /\ samples'[y].path = s.rows[j].path
      BY <1>11, <3>1
    <3>4. s.rows[i].path # s.rows[j].path
      BY <1>11, <3>2
    <3> QED
      BY <3>3, <3>4
  <2> QED
    BY <1>12, <2>1, <2>2, <2>3, <2>4
<1> QED
  BY <1>13, <1>14 DEF Whole

LEMMA CommitRowsStep ==
  ASSUME StoreInv, NEW t \in Threads, Open(t), CommitRows(t), End(t),
         UNCHANGED <<disk, raced>>
  PROVE  StoreInv'
<1>1. PICK s, d : s = sess[t] /\ d = s.ds
  OBVIOUS
<1>2. /\ SessionTyped(t, s) /\ SessionTarget(s) /\ SessionDetail(s)
      /\ (s.op \in Makes => d \notin Ids(datasets))
  BY <1>1, SessionFacts
<1>3. /\ s.op \in Makes \union {"import", "persist", "repair"}
      /\ disk' = disk /\ raced' = raced /\ hurt' = hurt
  BY <1>1 DEF CommitRows, Makes
<1>4. PICK m \in Nat, k \in Nat : m = Len(samples) /\ k = Len(s.rows) /\ Ids(samples) = 1 .. m
  BY <1>2, SeqShape DEF SessionTyped, StoreInv, Typed, SamplesTyped
<1>5. /\ DatasetsTyped' /\ d \in Ids(datasets)' /\ Ids(datasets) \subseteq Ids(datasets)'
      /\ Ids(datasets)' \subseteq Ids(datasets) \union {d}
      /\ \A e \in Ids(datasets) \ {d} : datasets'[e] = datasets[e]
      /\ s.op \notin Makes => Len(datasets)' = Len(datasets)
      /\ d \in Ids(datasets) => (Deleted(d)' <=> Deleted(d))
      /\ s.op \in Makes => ~Deleted(d)'
      /\ datasets'[d].total = IF s.op = "create" THEN 0 ELSE Cardinality(Live(d)) + k
  BY <1>1, <1>4, DatasetsAfterRows
<1>6. RowsAdded(s, m, k)
  BY <1>1, <1>4, <1>5, SamplesAfterRows
<1>7. /\ SamplesTyped' /\ Len(samples)' = m + k /\ Ids(samples) \subseteq Ids(samples)'
      /\ \A x \in Ids(samples) : samples'[x] = samples[x]
      /\ Live(d)' = Live(d) \union Added(m, k)
      /\ \A e : e # d => Live(e)' = Live(e)
  BY <1>1, <1>6 DEF RowsAdded
<1>8. Sound(d)' => Whole(d)'
  BY <1>1, <1>3, WholeAfterRows
<1>9. datasets'[d].total - Cardinality(Live(d)') \in {0, 1}
  <2>1. IsFiniteSet(Live(d)) /\ Live(d) \subseteq 1 .. m
    BY <1>4, LiveFinite DEF Live, StoreInv, Typed, SamplesTyped
  <2>2. Cardinality(Live(d)') = Cardinality(Live(d)) + k
    BY <1>7, <2>1, AddedCount
  <2>3. Cardinality(Live(d)) \in Nat
    BY <2>1, FS_CardinalityType
  <2>4. s.op = "create" => Cardinality(Live(d)) = 0 /\ k = 0
    BY <1>2, <1>4, NoneYet, Empty, FS_EmptySet DEF SessionDetail, Makes
  <2>5. PICK c, v : c \in Nat /\ c = Cardinality(Live(d)) /\ v = datasets'[d].total
    BY <2>3
  <2>6. v = c + k /\ Cardinality(Live(d)') = c + k
    BY <1>5, <2>2, <2>4, <2>5
  <2>7. (c + k) - (c + k) = 0
    BY <2>5
  <2> QED
    BY <2>5, <2>6, <2>7
<1>10. ASSUME s.op # "repair"
       PROVE  notes' = notes /\ NotesTyped' /\ NotesInv'
  <2>1. notes' = notes
    BY <1>1, <1>10 DEF CommitRows
  <2>2. \A n \in Ids(notes) : /\ notes[n].sample \in Ids(samples)'
                              /\ notes[n].out \in 0 .. Len(samples)'
    BY <1>4, <1>7, NoteFacts
  <2>3. NotesTyped'
    BY <2>1, <2>2 DEF StoreInv, Typed, NotesTyped
  <2>4. ASSUME NEW n \in Ids(notes), notes[n].status = "applied" PROVE Carried(n)'
    <3>1. Carried(n) /\ notes[n].sample \in Ids(samples) /\ notes[n].out \in 0 .. m
      BY <1>4, <2>4, NoteFacts DEF StoreInv, NotesInv
    <3>2. notes[n].out # 0 => notes[n].out \in Ids(samples)
      BY <1>4, <3>1
    <3> QED
      BY <1>7, <2>1, <3>1, <3>2 DEF Carried
  <2> QED
    BY <2>1, <2>3, <2>4 DEF NotesInv
<1>11. ASSUME s.op = "repair"
       PROVE  /\ NotesTyped' /\ NotesInv'
              /\ \A n \in Ids(notes) : notes'[n].sample = notes[n].sample
  <2>1. PICK n \in Ids(notes) : /\ n = s.note /\ notes[n].action = "repair" /\ k = 1
                                /\ s.rows[1].from = notes[n].sample
    BY <1>2, <1>4, <1>11 DEF SessionDetail
  <2>2. PICK n0, note : n0 = notes[n] /\ note = [n0 EXCEPT !.status = "applied", !.out = m + 1]
    OBVIOUS
  <2>3. notes' = [notes EXCEPT ![n] = note]
    <3>1. notes' = [notes EXCEPT ![n].status = "applied", ![n].out = m + 1]
      BY <1>1, <1>4, <1>11, <2>1 DEF CommitRows
    <3>2. DOMAIN notes = Ids(notes)
      BY SeqShape DEF StoreInv, Typed, NotesTyped
    <3> QED
      BY <2>1, <2>2, <3>1, <3>2
  <2>4. /\ IsNote(note) /\ note.action = n0.action /\ note.sample = n0.sample /\ note.out = m + 1
    <3>1. n0 = [sample |-> n0.sample, action |-> n0.action, status |-> n0.status, out |-> n0.out]
      BY <2>2, NoteFacts DEF IsNote
    <3>2. note = [sample |-> n0.sample, action |-> n0.action, status |-> "applied", out |-> m + 1]
      BY <2>2, <3>1
    <3> QED
      BY <3>2 DEF IsNote
  <2>5. /\ note.out \in 0 .. Len(samples)' /\ Len(samples)' \in Nat /\ Len(samples) <= Len(samples)'
    BY <1>4, <1>7, <2>1, <2>4
  <2>6. /\ NotesTyped' /\ Ids(notes)' = Ids(notes) /\ notes'[n] = note
        /\ \A o \in Ids(notes) \ {n} : notes'[o] = notes[o]
    BY <1>7, <2>2, <2>3, <2>4, <2>5, NotesWritten
  <2>7. samples'[m + 1].from = notes[n].sample
    <3>1. samples'[m + 1] = s.rows[1]
      BY <1>6, <2>1 DEF RowsAdded
    <3> QED
      BY <2>1, <3>1
  <2>8. ASSUME NEW o \in Ids(notes), notes'[o].status = "applied" PROVE Carried(o)'
    <3>1. CASE o = n
      <4>1. /\ notes'[n].action = "repair" /\ notes'[n].out = m + 1
            /\ notes'[n].sample = notes[n].sample
        BY <2>1, <2>2, <2>4, <2>6
      <4>2. m + 1 # 0
        BY <1>4
      <4>3. Carried(n)'
        BY <2>7, <4>1, <4>2 DEF Carried
      <4> QED
        BY <3>1, <4>3
    <3>2. CASE o # n
      <4>1. /\ Carried(o) /\ notes'[o] = notes[o] /\ notes[o].sample \in Ids(samples)
            /\ notes[o].out \in 0 .. m
        BY <1>4, <2>6, <2>8, <3>2, NoteFacts DEF StoreInv, NotesInv
      <4>2. notes[o].out # 0 => notes[o].out \in Ids(samples)
        BY <1>4, <4>1
      <4> QED
        BY <1>7, <4>1, <4>2 DEF Carried
    <3> QED
      BY <3>1, <3>2
  <2>9. NotesInv'
    BY <2>6, <2>8 DEF NotesInv
  <2> QED
    BY <2>2, <2>4, <2>6, <2>9
<1>12. NotesTyped' /\ NotesInv' /\ \A n \in Ids(notes) : notes'[n].sample = notes[n].sample
  BY <1>10, <1>11
<1>13. \A e : e # d => /\ Live(e)' = Live(e)
                       /\ \A x \in Live(e) : samples'[x].path = samples[x].path
  BY <1>7 DEF Live
<1>14. t = "worker" =>
         /\ Len(datasets)' = Len(datasets) /\ notes' = notes
         /\ \A e \in Ids(datasets) : Deleted(e)' <=> Deleted(e)
         /\ Ids(samples) \subseteq Ids(samples)'
         /\ \A x \in Ids(samples) : samples'[x] = samples[x]
  <2> SUFFICES ASSUME t = "worker"
               PROVE  /\ Len(datasets)' = Len(datasets) /\ notes' = notes
                      /\ \A e \in Ids(datasets) : Deleted(e)' <=> Deleted(e)
    BY <1>7
  <2>1. s.op = "persist"
    BY <1>2 DEF SessionTyped
  <2> QED
    BY <1>5, <1>10, <2>1 DEF Makes, Deleted
<1>15. sess[t].op = "create" => ~Deleted(d)'
  BY <1>1, <1>5 DEF Makes
<1>16. d = sess[t].ds
  BY <1>1
<1> QED
  BY <1>3, <1>5, <1>7, <1>8, <1>9, <1>12, <1>13, <1>14, <1>15, <1>16, CommitFrame

LEMMA CommitStep ==
  ASSUME StoreInv, NEW t \in Threads, Commit(t)
  PROVE  StoreInv'
<1>1. Open(t) /\ End(t) /\ UNCHANGED <<disk, raced>>
  BY DEF Commit
<1>2. CommitRows(t) \/ CommitRename(t) \/ CommitDelete(t) \/ CommitDrop(t)
  BY DEF Commit
<1> QED
  BY <1>1, <1>2, CommitRowsStep, CommitRenameStep, CommitDeleteStep, CommitDropStep

-----------------------------------------------------------------------------
(* A call that fails, and the process that ends.                           *)
LEMMA AbortStep ==
  ASSUME StoreInv, NEW ts \in SUBSET Threads, Abort(ts)
  PROVE  StoreInv'
<1>1. /\ datasets' = datasets /\ samples' = samples /\ notes' = notes /\ disk' = disk
      /\ raced' = raced /\ hurt' = hurt \union LeftBehind(ts)
      /\ sess' = [t \in Threads |-> IF t \in ts THEN Idle ELSE sess[t]]
  BY DEF Abort, dbVars
<1>2. \A t \in Threads : Open(t)' => t \notin ts /\ Open(t) /\ sess'[t] = sess[t]
  BY <1>1 DEF Open, Idle
<1>3. SessionsTyped'
  <2>1. ASSUME NEW t \in Threads, Open(t)'
        PROVE  (SessionTyped(t, sess[t]) /\ SessionTarget(sess[t]) /\ SessionDetail(sess[t]))'
    <3>1. PICK r : r = sess'[t] /\ r = sess[t]
      BY <1>2, <2>1
    <3>2. SessionTyped(t, r) /\ SessionTarget(r) /\ SessionDetail(r)
      BY <1>2, <2>1, <3>1, SessionFacts
    <3>3. SessionTarget(r)' /\ SessionDetail(r)'
      BY <1>1, <3>2, TablesStay
    <3>4. SessionTyped(t, r)'
      BY <3>2 DEF SessionTyped, RowTyped
    <3> QED
      BY <3>1, <3>3, <3>4
  <2>2. sess' = [t \in Threads |-> sess'[t]]
    BY <1>1
  <2> QED
    BY <2>1, <2>2 DEF SessionsTyped
<1>4. Typed'
  BY <1>1, <1>3, TablesStay DEF StoreInv, Typed
<1>5. \A d : Live(d)' = Live(d)
  BY <1>1, TablesStay
<1>6. \A d : (Whole(d)' <=> Whole(d)) /\ (Sound(d)' => Sound(d))
  BY <1>1, <1>5 DEF Whole, Sound, Deleted
<1>7. RacedIsKnown'
  BY <1>1, <1>2 DEF StoreInv, FilesInv, RacedIsKnown
<1>8. ASSUME NEW d \in Ids(datasets), d \notin Busy', Sound(d)' PROVE Whole(d)
  <2>1. CASE d \notin Busy
    BY <1>6, <1>8, <2>1 DEF StoreInv, FilesInv, RestIsWhole
  <2>2. CASE d \in Busy
    <3>1. PICK t \in Threads : Open(t) /\ sess[t].ds = d
      BY <2>2 DEF Busy
    <3>2. t \in ts
      <4>1. SUFFICES ASSUME t \notin ts PROVE FALSE
        OBVIOUS
      <4>2. sess'[t] = sess[t] /\ Open(t)'
        BY <1>1, <3>1, <4>1 DEF Open
      <4> QED
        BY <1>8, <3>1, <4>2 DEF Busy
    <3>3. sess[t].op \notin Removes
      BY <1>1, <1>8, <3>1, <3>2 DEF Sound, LeftBehind
    <3>4. SessionHolds(sess[t])
      BY <1>6, <1>8, <3>1 DEF StoreInv, FilesInv, SessionsHold
    <3>5. sess[t].op \in {"stage", "import", "persist", "repair"}
      BY <3>1, <3>3, SessionFacts DEF SessionTyped, UserOps
    <3> QED
      BY <3>1, <3>4, <3>5 DEF SessionHolds
  <2> QED
    BY <2>1, <2>2
<1>9. RestIsWhole'
  BY <1>1, <1>6, <1>8 DEF RestIsWhole
<1>10. ASSUME NEW t \in Threads, Open(t)', Sound(sess[t].ds)' PROVE SessionHolds(sess[t])'
  <2>1. PICK s : s = sess'[t] /\ s = sess[t] /\ Open(t)
    BY <1>2, <1>10
  <2>2. SessionHolds(s)
    BY <1>6, <1>10, <2>1 DEF StoreInv, FilesInv, SessionsHold
  <2>3. SessionHolds(s)'
    <3>1. RowsHeld(s) => RowsHeld(s)'
      BY <1>1, <1>5 DEF RowsHeld, Ids
    <3>2. WholeMoved(s) => WholeMoved(s)'
      BY <1>1, <1>5 DEF WholeMoved, Moved
    <3>3. \A but : WholeBut(s.ds, but) => WholeBut(s.ds, but)'
      BY <1>1, <1>5 DEF WholeBut
    <3>4. WholeBut(s.ds, notes[s.note].sample) => WholeBut(s.ds, notes[s.note].sample)'
      BY <1>1, <3>3
    <3> QED
      BY <1>1, <1>6, <2>2, <3>1, <3>2, <3>4 DEF SessionHolds
  <2> QED
    BY <2>1, <2>3
<1>11. FilesInv'
  BY <1>7, <1>9, <1>10 DEF FilesInv, SessionsHold
<1>12. CountInv'
  <2>1. CountIsLiveOrOneMore'
    BY <1>1, <1>5 DEF StoreInv, CountInv, CountIsLiveOrOneMore, Deleted
  <2>2. ASSUME NEW t \in Threads, Open(t)', sess'[t].op = "drop", sess'[t].ds \notin raced'
        PROVE  sess'[t].count = Cardinality(Live(sess[t].ds)')
    <3>1. PICK s : s = sess'[t] /\ s = sess[t] /\ Open(t)
      BY <1>2, <2>2
    <3>2. s.count = Cardinality(Live(s.ds))
      BY <1>1, <2>2, <3>1 DEF StoreInv, CountInv
    <3>3. Live(sess[t].ds)' = Live(s.ds)'
      BY <3>1
    <3> QED
      BY <1>5, <3>1, <3>2, <3>3
  <2> QED
    BY <2>1, <2>2 DEF CountInv
<1>13. NotesInv'
  BY <1>1, TablesStay DEF StoreInv
<1> QED
  BY <1>4, <1>11, <1>12, <1>13 DEF StoreInv

-----------------------------------------------------------------------------
(* The suggestions.                                                        *)

(* A step on the suggestions alone.                                        *)
LEMMA NotesFrame ==
  ASSUME StoreInv, datasets' = datasets, samples' = samples, disk' = disk, sess' = sess,
         hurt' = hurt, raced' = raced,
         NotesTyped', NotesInv', Ids(notes) \subseteq Ids(notes)',
         \A n \in Ids(notes) : /\ notes'[n].sample = notes[n].sample
                               /\ notes'[n].action = notes[n].action,
         \A t \in Threads : Open(t) =>
           /\ sess[t].op # "store"
           /\ sess[t].op \in {"drop", "repair"} =>
                notes'[sess[t].note].status = notes[sess[t].note].status
  PROVE  StoreInv'
<1>1. \A t : Open(t)' <=> Open(t)
  BY DEF Open
<1>2. SessionsTyped'
  <2>1. ASSUME NEW t \in Threads, Open(t)
        PROVE  (SessionTyped(t, sess[t]) /\ SessionTarget(sess[t]) /\ SessionDetail(sess[t]))'
    <3>1. PICK s : s = sess[t] /\ s = sess'[t]
      OBVIOUS
    <3>2. SessionTyped(t, s) /\ SessionTarget(s) /\ SessionDetail(s) /\ s.op # "store"
      BY <2>1, <3>1, SessionFacts
    <3>3. SessionTyped(t, s)'
      BY <3>2 DEF SessionTyped, RowTyped
    <3>4. SessionTarget(s)'
      BY <3>2 DEF SessionTarget
    <3>5. s.op \in {"drop", "repair"} =>
            /\ s.note \in Ids(notes)' /\ notes'[s.note].status = notes[s.note].status
            /\ notes'[s.note].sample = notes[s.note].sample
            /\ notes'[s.note].action = notes[s.note].action
      BY <2>1, <3>1, <3>2 DEF SessionDetail
    <3>6. SessionDetail(s)'
      BY <3>2, <3>5 DEF SessionDetail, Deleted
    <3> QED
      BY <3>1, <3>3, <3>4, <3>6
  <2> QED
    BY <1>1, <2>1 DEF SessionsTyped, StoreInv, Typed
<1>3. Typed'
  BY <1>2 DEF StoreInv, Typed, DatasetsTyped, SamplesTyped, Deleted
<1>4. \A d : Live(d)' = Live(d)
  BY DEF Live
<1>5. \A d : (Whole(d)' <=> Whole(d)) /\ (Sound(d)' <=> Sound(d))
  BY <1>4 DEF Whole, Sound, Deleted
<1>6. RacedIsKnown' /\ RestIsWhole'
  BY <1>1, <1>5 DEF StoreInv, FilesInv, RacedIsKnown, RestIsWhole, Busy
<1>7. ASSUME NEW t \in Threads, Open(t), Sound(sess[t].ds) PROVE SessionHolds(sess[t])'
  <2>1. PICK s : s = sess[t] /\ s = sess'[t]
    OBVIOUS
  <2>2. SessionHolds(s) /\ SessionDetail(s)
    BY <1>7, <2>1, SessionFacts DEF StoreInv, FilesInv, SessionsHold
  <2>3. RowsHeld(s) => RowsHeld(s)'
    BY <1>4 DEF RowsHeld, Ids
  <2>4. WholeMoved(s) => WholeMoved(s)'
    BY <1>4 DEF WholeMoved, Moved
  <2>5. s.op = "drop" => notes'[s.note].sample = notes[s.note].sample
    BY <2>2 DEF SessionDetail
  <2>6. \A but : WholeBut(s.ds, but) => WholeBut(s.ds, but)'
    BY <1>4 DEF WholeBut
  <2>7. s.op = "drop" => WholeBut(s.ds, notes[s.note].sample)'
    <3> SUFFICES ASSUME s.op = "drop" PROVE WholeBut(s.ds, notes[s.note].sample)'
      OBVIOUS
    <3>1. PICK but : but = notes[s.note].sample /\ but = notes'[s.note].sample
      BY <2>5
    <3>2. WholeBut(s.ds, but)'
      BY <2>2, <2>6, <3>1 DEF SessionHolds
    <3> QED
      BY <3>1, <3>2
  <2>8. SessionHolds(s)'
    BY <1>5, <2>2, <2>3, <2>4, <2>7 DEF SessionHolds
  <2> QED
    BY <2>1, <2>8
<1>8. SessionsHold'
  BY <1>1, <1>5, <1>7 DEF SessionsHold
<1>9. CountInv'
  BY <1>4 DEF StoreInv, CountInv, CountIsLiveOrOneMore, Deleted, Open
<1> QED
  BY <1>3, <1>6, <1>8, <1>9 DEF StoreInv, FilesInv

(* A cleaning task leaves a suggestion.                                    *)
LEMMA SuggestStep ==
  ASSUME StoreInv, NEW x \in Ids(samples), NEW action \in {"delete", "repair"}, Suggest(x, action)
  PROVE  StoreInv'
<1>1. /\ datasets' = datasets /\ samples' = samples /\ disk' = disk /\ sess' = sess
      /\ hurt' = hurt /\ raced' = raced
  BY DEF Suggest
<1>2. PICK note : note = [sample |-> x, action |-> action, status |-> "pending", out |-> 0]
  OBVIOUS
<1>3. notes' = Append(notes, note)
  BY <1>2 DEF Suggest, Note
<1>4. PICK m \in Nat : m = Len(notes) /\ IsSeq(notes) /\ Ids(notes) = 1 .. m
  BY SeqShape DEF StoreInv, Typed, NotesTyped
<1>5. PICK u : u = Append(notes, note)
  OBVIOUS
<1>6. /\ IsSeq(u) /\ Ids(u) = Ids(notes) \union {m + 1} /\ u[m + 1] = note
      /\ \A n \in Ids(notes) : u[n] = notes[n]
  BY <1>4, <1>5, Appended
<1>7. notes' = u /\ Ids(notes)' = Ids(u)
  BY <1>3, <1>5 DEF Ids
<1>8. NotesTyped'
  <2>1. IsNote(note) /\ note.action = action /\ note.sample = x /\ note.out = 0
    BY <1>2 DEF IsNote
  <2>2. Len(samples) \in Nat
    BY SeqShape DEF StoreInv, Typed, SamplesTyped
  <2>3. \A n \in Ids(u) : /\ IsNote(u[n]) /\ u[n].action \in {"delete", "repair"}
                          /\ u[n].sample \in Ids(samples) /\ u[n].out \in 0 .. Len(samples)
    BY <1>6, <2>1, <2>2, NoteFacts
  <2> QED
    BY <1>1, <1>6, <1>7, <2>3 DEF NotesTyped
<1>9. NotesInv'
  <2>1. note.status = "pending"
    BY <1>2
  <2>2. ASSUME NEW n \in Ids(u), u[n].status = "applied" PROVE Carried(n)'
    <3>1. n \in Ids(notes) /\ u[n] = notes[n]
      BY <1>6, <2>1, <2>2
    <3>2. Carried(n)
      BY <2>2, <3>1 DEF StoreInv, NotesInv
    <3> QED
      BY <1>1, <1>7, <3>1, <3>2 DEF Carried
  <2> QED
    BY <1>7, <2>2 DEF NotesInv
<1>10. ASSUME NEW t \in Threads, Open(t) PROVE sess[t].op # "store"
  <2>1. SUFFICES ASSUME sess[t].op = "store" PROVE FALSE
    OBVIOUS
  <2>2. t = "ui"
    BY <1>10, <2>1, SessionFacts DEF SessionTyped, Threads
  <2>3. sess[t].news # <<>>
    <3>1. sess[t].news = <<sess[t].news[1]>>
      BY <1>10, <2>1, SessionFacts DEF SessionTarget, Makes
    <3>2. Len(<<sess[t].news[1]>>) = 1
      BY One
    <3> QED
      BY <3>1, <3>2, Empty
  <2> QED
    BY <1>10, <2>2, <2>3 DEF Suggest, MayWrite, Flushed, Threads
<1>11. /\ Ids(notes) \subseteq Ids(notes)'
       /\ \A n \in Ids(notes) : /\ notes'[n].sample = notes[n].sample
                                /\ notes'[n].action = notes[n].action
       /\ \A t \in Threads : Open(t) /\ sess[t].op \in {"drop", "repair"} =>
            notes'[sess[t].note].status = notes[sess[t].note].status
  <2>1. \A t \in Threads : Open(t) /\ sess[t].op \in {"drop", "repair"} => sess[t].note \in Ids(notes)
    BY SessionFacts DEF SessionDetail
  <2> QED
    BY <1>6, <1>7, <2>1
<1> QED
  BY <1>1, <1>8, <1>9, <1>10, <1>11, NotesFrame

(* The user approves or rejects one.                                       *)
LEMMA DecideStep ==
  ASSUME StoreInv, NEW n \in Ids(notes), NEW status \in {"approved", "rejected"}, Decide(n, status)
  PROVE  StoreInv'
<1>1. /\ datasets' = datasets /\ samples' = samples /\ disk' = disk /\ sess' = sess
      /\ hurt' = hurt /\ raced' = raced /\ ~Open("ui")
  BY DEF Decide
<1>2. PICK n0, note : n0 = notes[n] /\ note = [n0 EXCEPT !.status = status]
  OBVIOUS
<1>3. notes' = [notes EXCEPT ![n] = note]
  BY <1>2 DEF Decide
<1>4. /\ IsNote(note) /\ note.action = n0.action /\ note.sample = n0.sample
      /\ note.out = n0.out /\ note.status = status
  <2>1. n0 = [sample |-> n0.sample, action |-> n0.action, status |-> n0.status, out |-> n0.out]
    BY <1>2, NoteFacts DEF IsNote
  <2>2. note = [sample |-> n0.sample, action |-> n0.action, status |-> status, out |-> n0.out]
    BY <1>2, <2>1
  <2> QED
    BY <2>2 DEF IsNote
<1>5. /\ NotesTyped' /\ Ids(notes)' = Ids(notes) /\ notes'[n] = note
      /\ \A m \in Ids(notes) \ {n} : notes'[m] = notes[m]
  <2>1. Len(samples) \in Nat /\ samples' = samples
    BY <1>1, SeqShape DEF StoreInv, Typed, SamplesTyped
  <2>2. /\ note.action = notes[n].action /\ note.sample = notes[n].sample
        /\ note.out \in 0 .. Len(samples)' /\ Len(samples)' \in Nat /\ Len(samples) <= Len(samples)'
        /\ Ids(samples) \subseteq Ids(samples)'
    BY <1>2, <1>4, <2>1, NoteFacts
  <2> QED
    BY <1>3, <1>4, <2>2, NotesWritten
<1>6. NotesInv'
  <2>1. ASSUME NEW m \in Ids(notes), notes'[m].status = "applied" PROVE Carried(m)'
    <3>1. m # n
      BY <1>4, <1>5, <2>1
    <3>2. notes'[m] = notes[m] /\ Carried(m)
      BY <1>5, <2>1, <3>1 DEF StoreInv, NotesInv
    <3> QED
      BY <1>1, <3>2 DEF Carried
  <2> QED
    BY <1>5, <2>1 DEF NotesInv
<1>7. \A t \in Threads : Open(t) => sess[t].op \notin {"store", "drop", "repair"}
  BY <1>1, SessionFacts DEF SessionTyped
<1>8. \A m \in Ids(notes) : notes'[m].sample = notes[m].sample /\ notes'[m].action = notes[m].action
  BY <1>2, <1>4, <1>5
<1> QED
  BY <1>1, <1>5, <1>6, <1>7, <1>8, NotesFrame

-----------------------------------------------------------------------------
(* The steps together.                                                     *)

LEMMA InitHolds == Init => StoreInv
<1> SUFFICES ASSUME Init PROVE StoreInv
  OBVIOUS
<1>1. /\ datasets = <<>> /\ samples = <<>> /\ notes = <<>> /\ disk = {}
      /\ sess = [t \in Threads |-> Idle]
  BY DEF Init
<1>2. Ids(datasets) = {} /\ Ids(samples) = {} /\ Ids(notes) = {}
  BY <1>1, Empty
<1>3. \A t \in Threads : ~Open(t) /\ sess[t] = Idle
  BY <1>1 DEF Open, Idle
<1>4. sess = [t \in Threads |-> sess[t]]
  BY <1>1
<1>5. Typed
  <2>1. DatasetsTyped /\ SamplesTyped /\ NotesTyped
    BY <1>1, <1>2, Empty DEF DatasetsTyped, SamplesTyped, NotesTyped
  <2>2. SessionsTyped /\ IsFiniteSet(disk)
    BY <1>1, <1>3, <1>4, FS_EmptySet DEF SessionsTyped
  <2> QED
    BY <2>1, <2>2 DEF Typed
<1>6. FilesInv
  BY <1>2, <1>3 DEF FilesInv, RacedIsKnown, RestIsWhole, SessionsHold
<1>7. CountInv
  BY <1>2, <1>3 DEF CountInv, CountIsLiveOrOneMore
<1>8. NotesInv
  BY <1>2 DEF NotesInv
<1> QED
  BY <1>5, <1>6, <1>7, <1>8 DEF StoreInv

LEMMA StutterKeeps == ASSUME StoreInv, UNCHANGED vars PROVE StoreInv'
<1>1. /\ NotesTyped' /\ NotesInv' /\ Ids(notes)' = Ids(notes)
      /\ datasets' = datasets /\ samples' = samples /\ notes' = notes /\ disk' = disk
      /\ sess' = sess /\ hurt' = hurt /\ raced' = raced
  BY TablesStay DEF vars, StoreInv, Typed
<1>2. \A o \in Threads : Open(o)' <=> Open(o)
  BY <1>1 DEF Open
<1>3. SessionsTyped'
  <2>1. ASSUME NEW t \in Threads, Open(t)
        PROVE  (SessionTyped(t, sess[t]) /\ SessionTarget(sess[t]) /\ SessionDetail(sess[t]))'
    <3>1. PICK s : s = sess[t] /\ s = sess'[t]
      BY <1>1
    <3>2. SessionTyped(t, s) /\ SessionTarget(s) /\ SessionDetail(s)
      BY <2>1, <3>1, SessionFacts
    <3>3. SessionTyped(t, s)' /\ SessionTarget(s)' /\ SessionDetail(s)'
      BY <1>1, <3>2, TablesStay DEF SessionTyped, RowTyped
    <3> QED
      BY <3>1, <3>3
  <2> QED
    BY <1>1, <1>2, <2>1 DEF SessionsTyped, StoreInv, Typed
<1>4. Typed'
  BY <1>1, <1>3, TablesStay DEF StoreInv, Typed
<1>5. \A d : Live(d)' = Live(d)
  BY <1>1, TablesStay
<1>6. FilesInv' /\ CountInv'
  BY <1>1, <1>5 DEF StoreInv, FilesInv, RacedIsKnown, RestIsWhole, SessionsHold, SessionHolds,
     RowsHeld, WholeMoved, WholeBut, Whole, Sound, Deleted, Busy, Moved, CountInv,
     CountIsLiveOrOneMore, Open
<1> QED
  BY <1>1, <1>4, <1>6 DEF StoreInv

LEMMA NextKeeps == ASSUME StoreInv, [Next]_vars PROVE StoreInv'
<1>1. ASSUME NEW name \in Names, CreateDataset(name) \/ ImportFolderWithStage(name) PROVE StoreInv'
  BY <1>1, StartDatasetStep DEF CreateDataset, ImportFolderWithStage, Makes
<1>2. ASSUME NEW name \in Names, NEW files, ImportBundle(name, files) PROVE StoreInv'
  BY <1>2, StartDatasetStep DEF ImportBundle, Makes
<1>3. ASSUME NEW d \in Ids(datasets), NEW name \in Names, StoreCleaned(d, name) PROVE StoreInv'
  BY <1>3, StartDatasetStep DEF StoreCleaned, Makes
<1>4. ASSUME NEW d \in Ids(datasets), ImportFiles(d) \/ ImportFolder(d) PROVE StoreInv'
  BY <1>4, ImportStep DEF ImportFiles, ImportFolder
<1>5. ASSUME NEW d \in Ids(datasets), NEW files, PersistOutputs(d, files) PROVE StoreInv'
  BY <1>5, ImportStep
<1>6. ASSUME NEW d \in Ids(datasets), DeleteDataset(d) \/ PurgeDatasetFiles(d) PROVE StoreInv'
  BY <1>6, RemoveFolderStep DEF DeleteDataset, PurgeDatasetFiles
<1>7. ASSUME NEW t \in Threads, Raise(t) PROVE StoreInv'
  BY <1>7, AbortStep DEF Raise
<1>8. ASSUME Crash PROVE StoreInv'
  BY <1>8, AbortStep DEF Crash
<1>9. CASE UNCHANGED vars
  BY <1>9, StutterKeeps
<1>10. CASE Next
  BY <1>1, <1>2, <1>3, <1>4, <1>5, <1>6, <1>7, <1>8, <1>10, SetStageStep, CopyItemStep, CommitStep,
     UpdateDatasetStep, SuggestStep, DecideStep, ApplyDeleteStep, ApplyRepairStep, StoreItemStep
     DEF Next
<1> QED
  BY <1>9, <1>10

LEMMA StoreHolds == Spec => []StoreInv
<1>1. Init => StoreInv
  BY InitHolds
<1>2. StoreInv /\ [Next]_vars => StoreInv'
  BY NextKeeps
<1> QED
  BY <1>1, <1>2, PTL DEF Spec

-----------------------------------------------------------------------------
(* While no call is open on a dataset, each of its samples has its own     *)
(* file in the folder of the dataset, unless the dataset is one of those   *)
(* the code has let diverge (DatasetService, CleaningService,              *)
(* GenerationService, FileIndexer).                                        *)
THEOREM FilesAlwaysFollow == Spec => []FilesFollowRows
<1>1. StoreInv => FilesFollowRows
  BY DEF StoreInv, FilesInv, RestIsWhole, Sound, FilesFollowRows
<1> QED
  BY <1>1, StoreHolds, PTL

(* The total the user is shown of an active dataset no two threads have    *)
(* worked on at once is its number of samples, or one more                 *)
(* (refresh_counts before the session has flushed).                        *)
THEOREM CountAlwaysClose == Spec => []CountIsLiveOrOneMore
<1>1. StoreInv => CountIsLiveOrOneMore
  BY DEF StoreInv, CountInv
<1> QED
  BY <1>1, StoreHolds, PTL

-----------------------------------------------------------------------------
(* A suggestion is carried out once.                                       *)

(* What has been decided stays, and what is stored from a cleaning has no  *)
(* sample it deletes.                                                      *)
Final ==
  \A n \in Ids(notes) : notes[n].status \in {"applied", "rejected"} => notes'[n] = notes[n]
Clean ==
  \A s \in Ids(samples)' \ Ids(samples) :
    LET from == samples'[s].from
    IN  from \in Ids(samples) /\ samples'[s].ds # samples[from].ds =>
          \A n \in Ids(notes) : notes[n].sample = from /\ notes[n].action = "delete" =>
                                  notes[n].status = "rejected"

LEMMA CommitSettles ==
  ASSUME StoreInv, NEW t \in Threads, Commit(t)
  PROVE  Final /\ Clean
<1>1. PICK s, d : s = sess[t] /\ d = s.ds
  OBVIOUS
<1>2. /\ Open(t) /\ SessionTyped(t, s) /\ SessionTarget(s) /\ SessionDetail(s)
  BY <1>1, SessionFacts DEF Commit
<1>3. ASSUME s.op \in {"drop", "repair"}
      PROVE  s.note \in Ids(notes) /\ notes[s.note].status \notin {"applied", "rejected"}
  BY <1>2, <1>3 DEF SessionDetail
<1>4. CASE CommitRename(t) \/ CommitDelete(t)
  <2>1. notes' = notes
    BY <1>4 DEF CommitRename, CommitDelete
  <2>2. Ids(samples)' = Ids(samples)
    <3>1. CASE CommitDelete(t)
      BY <3>1 DEF CommitDelete, Ids
    <3>2. CASE CommitRename(t)
      <4>1. PICK m \in Nat : m = Len(samples) /\ Ids(samples) = 1 .. m
        BY SeqShape DEF StoreInv, Typed, SamplesTyped
      <4>2. DOMAIN samples' = 1 .. m /\ samples' = [i \in 1 .. m |-> samples'[i]]
        BY <3>2, <4>1 DEF CommitRename
      <4>3. PICK u : u = samples'
        OBVIOUS
      <4>4. Len(u) = m
        BY <4>2, <4>3, SeqOfShape
      <4> QED
        BY <4>1, <4>3, <4>4 DEF Ids
    <3> QED
      BY <1>4, <3>1, <3>2
  <2> QED
    BY <2>1, <2>2 DEF Final, Clean
<1>5. CASE CommitDrop(t)
  <2>1. s.op = "drop" /\ notes' = [notes EXCEPT ![s.note].status = "applied"]
    BY <1>1, <1>5 DEF CommitDrop
  <2>2. \A n \in Ids(notes) : n # s.note => notes'[n] = notes[n]
    <3>1. DOMAIN notes = Ids(notes)
      BY SeqShape DEF StoreInv, Typed, NotesTyped
    <3> QED
      BY <2>1, <3>1
  <2>3. Ids(samples)' = Ids(samples)
    <3>1. PICK x, u : u = [samples EXCEPT ![x].status = "deleted"] /\ samples' = u
      BY <1>1, <1>5 DEF CommitDrop
    <3>2. DOMAIN u = DOMAIN samples /\ u = [i \in DOMAIN u |-> u[i]]
      BY <3>1
    <3>3. Ids(u) = Ids(samples)
      BY <3>2, SameShape DEF StoreInv, Typed, SamplesTyped
    <3> QED
      BY <3>1, <3>3 DEF Ids
  <2> QED
    BY <1>3, <2>1, <2>2, <2>3 DEF Final, Clean
<1>6. CASE CommitRows(t)
  <2>1. s.op \in Makes \union {"import", "persist", "repair"}
    BY <1>1, <1>6 DEF CommitRows, Makes
  <2>2. PICK m \in Nat, k \in Nat : m = Len(samples) /\ k = Len(s.rows) /\ Ids(s.rows) = 1 .. k
                                    /\ Ids(samples) = 1 .. m
    BY <1>2, SeqShape DEF SessionTyped, StoreInv, Typed, SamplesTyped
  <2>3. s.ds \in Ids(datasets)' /\ Ids(datasets) \subseteq Ids(datasets)'
    BY <1>1, <1>2, <1>6, DatasetsAfterRows
  <2>4. RowsAdded(s, m, k)
    BY <1>1, <1>2, <1>6, <2>2, <2>3, SamplesAfterRows
  <2>5. Final
    <3>1. CASE s.op # "repair"
      BY <1>1, <1>6, <3>1 DEF CommitRows, Final
    <3>2. CASE s.op = "repair"
      <4>1. notes' = [notes EXCEPT ![s.note].status = "applied", ![s.note].out = Len(samples) + 1]
        BY <1>1, <1>6, <3>2 DEF CommitRows
      <4>2. DOMAIN notes = Ids(notes)
        BY SeqShape DEF StoreInv, Typed, NotesTyped
      <4>3. \A n \in Ids(notes) : n # s.note => notes'[n] = notes[n]
        BY <4>1, <4>2
      <4> QED
        BY <1>3, <3>2, <4>3 DEF Final
    <3> QED
      BY <3>1, <3>2
  <2>6. ASSUME NEW x \in Ids(samples)' \ Ids(samples), samples'[x].from \in Ids(samples),
               samples'[x].ds # samples[samples'[x].from].ds,
               NEW n \in Ids(notes), notes[n].sample = samples'[x].from, notes[n].action = "delete"
        PROVE  notes[n].status = "rejected"
    <3>1. PICK i \in 1 .. k : x = m + i /\ samples'[x] = s.rows[i]
      BY <2>4, <2>6 DEF RowsAdded
    <3>2. s.rows[i].from = samples'[x].from /\ s.rows[i].ds = d /\ i \in Ids(s.rows)
      BY <1>1, <1>2, <2>2, <3>1 DEF SessionTyped
    <3>3. CASE s.op \in {"import", "bundle", "persist"}
      <4>1. s.rows[i].from = 0
        BY <1>2, <3>2, <3>3 DEF SessionDetail
      <4> QED
        BY <2>2, <2>6, <3>2, <4>1
    <3>4. CASE s.op = "create"
      BY <1>2, <3>2, <3>4, Empty DEF SessionDetail
    <3>5. CASE s.op = "repair"
      <4>1. k = 1 /\ s.rows[1].from = notes[s.note].sample
            /\ samples[notes[s.note].sample].ds = d
        BY <1>1, <1>2, <2>2, <3>5 DEF SessionDetail
      <4>2. i = 1
        BY <4>1
      <4>3. samples[samples'[x].from].ds = samples'[x].ds
        BY <3>1, <3>2, <4>1, <4>2
      <4> QED
        BY <2>6, <4>3
    <3>6. CASE s.op = "store"
      <4>1. ~Skipped(s.rows[i].from)
        BY <1>2, <3>2, <3>6 DEF SessionDetail
      <4> QED
        BY <2>6, <3>2, <4>1 DEF Skipped, Kept
    <3> QED
      BY <2>1, <3>3, <3>4, <3>5, <3>6 DEF Makes
  <2> QED
    BY <2>5, <2>6 DEF Clean
<1> QED
  BY <1>4, <1>5, <1>6 DEF Commit

LEMMA NextSettles == ASSUME StoreInv, Next PROVE Final /\ Clean
<1>1. (notes' = notes /\ samples' = samples) => Final /\ Clean
  BY DEF Final, Clean, Ids
<1>2. ASSUME NEW x \in Ids(samples), NEW action \in {"delete", "repair"}, Suggest(x, action)
      PROVE  Final /\ Clean
  <2>1. PICK note, u : note = Note(x, action) /\ u = Append(notes, note)
    OBVIOUS
  <2>2. IsSeq(notes) /\ notes' = u /\ samples' = samples
    BY <1>2, <2>1 DEF Suggest, StoreInv, Typed, NotesTyped
  <2>3. \A n \in Ids(notes) : u[n] = notes[n]
    <3>1. PICK m \in Nat : m = Len(notes) /\ IsSeq(notes) /\ Ids(notes) = 1 .. m
      BY <2>2, SeqShape
    <3>2. /\ IsSeq(u) /\ Ids(u) = Ids(notes) \union {m + 1} /\ u[m + 1] = note
          /\ \A n \in Ids(notes) : u[n] = notes[n]
      BY <2>1, <3>1, Appended
    <3> QED
      BY <3>2
  <2> QED
    BY <2>2, <2>3 DEF Final, Clean, Ids
<1>3. ASSUME NEW n \in Ids(notes), NEW status \in {"approved", "rejected"}, Decide(n, status)
      PROVE  Final /\ Clean
  <2>1. DOMAIN notes = Ids(notes)
    BY SeqShape DEF StoreInv, Typed, NotesTyped
  <2>2. /\ notes' = [notes EXCEPT ![n].status = status] /\ samples' = samples
        /\ notes[n].status \notin {"applied", "rejected"}
    BY <1>3 DEF Decide, MayBecome
  <2>3. \A m \in Ids(notes) : m # n => notes'[m] = notes[m]
    BY <2>1, <2>2
  <2> QED
    BY <2>2, <2>3 DEF Final, Clean, Ids
<1>4. ASSUME NEW t \in Threads, CopyItem(t) \/ Raise(t) PROVE Final /\ Clean
  BY <1>1, <1>4 DEF CopyItem, Raise, Abort, dbVars
<1>5. ASSUME NEW name \in Names, NEW files,
             \/ CreateDataset(name) \/ ImportFolderWithStage(name) \/ ImportBundle(name, files)
             \/ \E d \in Ids(datasets) : UpdateDataset(d, name) \/ StoreCleaned(d, name)
      PROVE  Final /\ Clean
  BY <1>1, <1>5 DEF CreateDataset, ImportFolderWithStage, ImportBundle, UpdateDataset, StoreCleaned,
     StartDataset, dbVars
<1>6. ASSUME NEW d \in Ids(datasets), NEW files,
             \/ ImportFiles(d) \/ ImportFolder(d) \/ PersistOutputs(d, files)
             \/ DeleteDataset(d) \/ PurgeDatasetFiles(d)
      PROVE  Final /\ Clean
  BY <1>1, <1>6 DEF ImportFiles, ImportFolder, Import, PersistOutputs, DeleteDataset,
     PurgeDatasetFiles, RemoveFolder, dbVars
<1>7. ASSUME NEW n \in Ids(notes), ApplyDelete(n) \/ ApplyRepair(n) PROVE Final /\ Clean
  BY <1>1, <1>7 DEF ApplyDelete, ApplyRepair, dbVars
<1>8. ASSUME SetStage \/ StoreItem \/ Crash PROVE Final /\ Clean
  BY <1>1, <1>8 DEF SetStage, StoreItem, Crash, Abort, dbVars
<1> QED
  BY <1>2, <1>3, <1>4, <1>5, <1>6, <1>7, <1>8, CommitSettles DEF Next

(* An applied or rejected suggestion never changes, an applied one has had *)
(* its effect, and no sample that a suggestion deletes is stored with a    *)
(* cleaning (_validate_suggestion_transition, _apply_suggestion,           *)
(* store_cleaned_dataset).                                                 *)
THEOREM SuggestionsAlwaysSettle == Spec => SuggestionsSettle
<1>1. StoreInv /\ StoreInv' /\ [Next]_vars =>
        [/\ \A n \in Ids(notes) :
              notes[n].status \in {"applied", "rejected"} => notes'[n] = notes[n]
         /\ \A n \in Ids(notes)' : notes'[n].status = "applied" => Carried(n)'
         /\ \A s \in Ids(samples)' \ Ids(samples) :
              LET from == samples'[s].from
              IN  from \in Ids(samples) /\ samples'[s].ds # samples[from].ds =>
                    \A n \in Ids(notes) : notes[n].sample = from /\ notes[n].action = "delete" =>
                                            notes[n].status = "rejected"]_vars
  <2>1. StoreInv /\ Next => Final /\ Clean
    BY NextSettles
  <2>2. StoreInv' => \A n \in Ids(notes)' : notes'[n].status = "applied" => Carried(n)'
    BY DEF StoreInv, NotesInv
  <2> QED
    BY <2>1, <2>2 DEF Final, Clean
<1> QED
  BY <1>1, StoreHolds, PTL DEF Spec, SuggestionsSettle

-----------------------------------------------------------------------------
(* The split of an import.                                                 *)
Plan == INSTANCE ImportPlan

(* The greatest of a set of two.                                           *)
LEMMA GreaterOfTwo ==
  ASSUME NEW a \in Int, NEW b \in Int
  PROVE  Plan!Max({a, b}) = IF a >= b THEN a ELSE b
<1> DEFINE m == IF a >= b THEN a ELSE b
<1>1. m \in {a, b} /\ m \in Int /\ \A y \in {a, b} : m >= y
  OBVIOUS
<1>2. \E x \in {a, b} : \A y \in {a, b} : x >= y
  BY <1>1
<1>3. /\ Plan!Max({a, b}) \in {a, b}
      /\ \A y \in {a, b} : Plan!Max({a, b}) >= y
  BY <1>2 DEF Plan!Max
<1> QED
  BY <1>3

(* The square of the number nearer to zero is smaller.                     *)
LEMMA NearerSquare ==
  ASSUME NEW x \in Int, NEW y \in Nat, -y <= x, x <= y
  PROVE  x * x <= y * y
<1>1. PICK u \in Nat : u = (IF x < 0 THEN -x ELSE x) /\ u <= y
  OBVIOUS
<1>2. x * x = u * u
  BY <1>1
<1>3. PICK d \in Nat : y = u + d
  <2>1. y - u \in Nat
    BY <1>1
  <2> QED
    BY <2>1
<1>4. y * y = u * u + 2 * (u * d) + d * d
  BY <1>3
<1>5. u * d \in Nat /\ d * d \in Nat /\ u * u \in Nat
  OBVIOUS
<1> QED
  BY <1>2, <1>4, <1>5

(* A number within two of a fifth is the nearest to it.                    *)
LEMMA Nearest ==
  ASSUME NEW n \in Nat, n > 1, NEW t \in 1 .. n - 1, NEW other \in 1 .. n - 1,
         (-2 <= 5 * t - n /\ 5 * t - n <= 2) \/ n = 2
  PROVE  (5 * t - n) * (5 * t - n) <= (5 * other - n) * (5 * other - n)
<1>1. CASE other = t
  <2>1. (5 * t - n) * (5 * t - n) \in Int
    OBVIOUS
  <2> QED
    BY <1>1, <2>1
<1>2. CASE other # t
  <2>1. -2 <= 5 * t - n /\ 5 * t - n <= 2
    BY <1>2
  <2>0. 5 * t - n \in Int /\ 5 * other - n \in Int
    OBVIOUS
  <2>2. PICK x \in Int : x = 5 * t - n
    BY <2>0
  <2>3. PICK z \in Int : z = 5 * other - n
    BY <2>0
  <2>4. z >= 3 \/ -z >= 3
    BY <1>2, <2>1, <2>2, <2>3
  <2>5. PICK y \in Nat : y = (IF z < 0 THEN -z ELSE z) /\ y >= 3
    BY <2>4
  <2>6. x * x <= y * y
    BY <2>1, <2>2, <2>5, NearerSquare
  <2>7. y * y = z * z
    BY <2>5
  <2> QED
    BY <2>2, <2>3, <2>6, <2>7
<1> QED
  BY <1>1, <1>2

(* What is left for the test is a fifth, rounded, and at least one.        *)
LEMMA FifthIsTested ==
  ASSUME NEW n \in Nat, n > 1
  PROVE  LET t == n - Plan!TrainCount(n)
         IN  t \in 1 .. n - 1 /\ ((-2 <= 5 * t - n /\ 5 * t - n <= 2) \/ n = 2)
<1>1. PICK q \in Int : q = Plan!Fifth(n) /\ 10 * q <= 2 * n + 5 /\ 2 * n + 5 < 10 * q + 10
  BY DEF Plan!Fifth
<1>2. PICK a \in Int : a = (IF 1 >= q THEN 1 ELSE q) /\ a = Plan!Max({1, q})
  BY GreaterOfTwo
<1>3. a \in 1 .. n - 1 /\ ((-2 <= 5 * a - n /\ 5 * a - n <= 2) \/ n = 2)
  BY <1>1, <1>2
<1>4. Plan!Max({1, n - a}) = n - a
  <2>1. n - a \in Int /\ n - a >= 1
    BY <1>3
  <2>2. Plan!Max({1, n - a}) = IF 1 >= n - a THEN 1 ELSE n - a
    BY <2>1, GreaterOfTwo
  <2> QED
    BY <2>1, <2>2
<1>5. Plan!TrainCount(n) = n - a
  BY <1>1, <1>2, <1>4 DEF Plan!TrainCount
<1>6. n - Plan!TrainCount(n) = a
  BY <1>3, <1>5
<1> QED
  BY <1>3, <1>6

(* However many records are split, both halves get some, and no other      *)
(* number of test records is nearer to a fifth.                            *)
THEOREM EverySplitIsFair == \A n \in Nat : n > 1 => Plan!FairCount(n)
<1> SUFFICES ASSUME NEW n \in Nat, n > 1 PROVE Plan!FairCount(n)
  OBVIOUS
<1>1. PICK t : t = n - Plan!TrainCount(n)
  OBVIOUS
<1>2. t \in 1 .. n - 1 /\ ((-2 <= 5 * t - n /\ 5 * t - n <= 2) \/ n = 2)
  BY <1>1, FifthIsTested
<1>3. \A other \in 1 .. n - 1 : (5 * t - n) * (5 * t - n) <= (5 * other - n) * (5 * other - n)
  BY <1>2, Nearest
<1> QED
  BY <1>1, <1>2, <1>3 DEF Plan!FairCount
=============================================================================
