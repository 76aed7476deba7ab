------------------------------ MODULE TablesProofs -----------------------------
(***************************************************************************)
(* What the desk's tables guarantee for every value of their constants.    *)
(*                                                                         *)
(* AlgorithmRegistry, for every list of default algorithms, every set of   *)
(* the user's keys and every bound: bindings that point to rows,           *)
(* parameters that are the algorithm's own, and starts that add what is    *)
(* missing and leave the rest.                                             *)
(*                                                                         *)
(* EdgeFleet, for any number of boards, models, scenes, threads and        *)
(* commands: no row, no list of a version and no answer of a batch names a *)
(* model a board has never run, and a board that was removed is not        *)
(* brought back by what was under way.                                     *)
(***************************************************************************)
EXTENDS MCTables, TLAPS

-----------------------------------------------------------------------------
(* AlgorithmRegistry.                                                      *)

(* No key is there twice.                                                  *)
KeysUnique == \A a, b \in DOMAIN rows : rows[a].key = rows[b].key => a = b

(* How far a start has come.                                               *)
StartProgress ==
  /\ pc = "seeding" => /\ existing \subseteq Keys
                       /\ \A i \in DOMAIN Defaults : i < next => Default(i).key \in Keys
  /\ pc \in {"repairing", "merging"} => DefaultKeys \subseteq Keys

Tables == KeysUnique /\ BindingsPoint /\ OwnParameters
RegistryInv == TypeOK /\ Tables /\ StartProgress

(* The three tables of a step that neither adds nor removes a row and      *)
(* keeps every row's key and write.                                        *)
LEMMA RowsInPlace ==
  ASSUME TypeOK, Tables, UNCHANGED parameters, UNCHANGED bindings,
         DOMAIN rows' = DOMAIN rows, rows' \in [DOMAIN rows' -> Row],
         \A id \in DOMAIN rows : rows'[id].key = rows[id].key /\ rows'[id].write = rows[id].write
  PROVE  Tables' /\ Keys' = Keys
<1>1. KeysUnique'
  BY DEF Tables, KeysUnique
<1>2. BindingsPoint'
  BY DEF Tables, BindingsPoint
<1>3. OwnParameters'
  BY DEF Tables, OwnParameters
<1>4. Keys' = Keys
  BY DEF Keys
<1> QED
  BY <1>1, <1>2, <1>3, <1>4 DEF Tables

(* The parameters after a write of one row.                                *)
LEMMA OneWrite ==
  ASSUME TypeOK, OwnParameters, NEW id \in 1 .. MaxId, NEW write \in Nat,
         ReplaceParameters(id, write)
  PROVE  /\ parameters' \subseteq [algorithm : Nat, write : Nat]
         /\ \E p \in parameters' : p.algorithm = id
         /\ \A p \in parameters' : p.algorithm = id => p.write = write
         /\ \A other \in DOMAIN rows : other # id =>
              /\ \E p \in parameters' : p.algorithm = other
              /\ \A p \in parameters' : p.algorithm = other => p.write = rows[other].write
<1> DEFINE fresh == [algorithm |-> id, write |-> write]
<1>1. fresh \in [algorithm : Nat, write : Nat] /\ fresh.algorithm = id /\ fresh.write = write
  BY RegistryAssumption
<1>2. parameters' = {p \in parameters : p.algorithm # id} \union {fresh}
  BY DEF ReplaceParameters
<1> HIDE DEF fresh
<1>3. parameters' \subseteq [algorithm : Nat, write : Nat]
  BY <1>1, <1>2 DEF TypeOK
<1>4. /\ \E p \in parameters' : p.algorithm = id
      /\ \A p \in parameters' : p.algorithm = id => p.write = write
  BY <1>1, <1>2
<1>5. ASSUME NEW other \in DOMAIN rows, other # id
      PROVE  /\ \E p \in parameters' : p.algorithm = other
             /\ \A p \in parameters' : p.algorithm = other => p.write = rows[other].write
  BY <1>1, <1>2, <1>5 DEF OwnParameters
<1> QED
  BY <1>3, <1>4, <1>5

LEMMA CreateKeeps ==
  ASSUME TypeOK, Tables, NEW key \in AllKeys, NEW category \in AllCategories,
         NEW rules \in BOOLEAN, CreateAlgorithm(key, category, rules)
  PROVE  /\ rows' \in [DOMAIN rows' -> Row] /\ DOMAIN rows' \subseteq 1 .. MaxId
         /\ parameters' \subseteq [algorithm : Nat, write : Nat]
         /\ Tables'
         /\ Keys' = Keys \union {key}
         /\ bindings' = bindings
         /\ \A id \in DOMAIN rows : id \in DOMAIN rows' /\ rows'[id] = rows[id]
<1> DEFINE new == [key |-> key, category |-> category, enabled |-> TRUE,
                   rules |-> rules, write |-> writes + 1]
<1>1. PICK id \in 1 .. MaxId : /\ IsNext(id) /\ rows' = With(rows, id, new)
                               /\ ReplaceParameters(id, writes + 1)
  BY DEF CreateAlgorithm
<1>2. key \notin Keys /\ bindings' = bindings
  BY DEF CreateAlgorithm
<1>3. id \notin DOMAIN rows
  BY <1>1, RegistryAssumption DEF IsNext, TypeOK
<1>4. new \in Row /\ writes + 1 \in Nat
  BY DEF Row, TypeOK
<1>5. /\ DOMAIN rows' = DOMAIN rows \union {id}
      /\ rows'[id] = new
      /\ \A other \in DOMAIN rows : rows'[other] = rows[other]
  BY <1>1, <1>3 DEF With
<1>6. rows' \in [DOMAIN rows' -> Row] /\ DOMAIN rows' \subseteq 1 .. MaxId
  <2>1. \A x \in DOMAIN rows' : rows'[x] \in Row
    BY <1>4, <1>5 DEF TypeOK
  <2>2. rows' = [x \in DOMAIN rows' |-> rows'[x]]
    BY <1>1 DEF With
  <2> QED
    BY <1>5, <2>1, <2>2 DEF TypeOK
<1>7. KeysUnique'
  BY <1>2, <1>5 DEF Tables, KeysUnique, Keys
<1>8. BindingsPoint'
  BY <1>2, <1>5 DEF Tables, BindingsPoint
<1>9. OwnParameters' /\ parameters' \subseteq [algorithm : Nat, write : Nat]
  <2> HIDE DEF new
  <2>1. new.write = writes + 1
    BY DEF new
  <2> QED
    BY <1>1, <1>3, <1>4, <1>5, <2>1, OneWrite DEF Tables, OwnParameters
<1>10. Keys' = Keys \union {key}
  BY <1>5 DEF Keys
<1> QED
  BY <1>2, <1>5, <1>6, <1>7, <1>8, <1>9, <1>10 DEF Tables

LEMMA UpdateKeeps ==
  ASSUME TypeOK, Tables, NEW id \in DOMAIN rows, NEW category \in AllCategories,
         UpdateAlgorithm(id, category)
  PROVE  /\ rows' \in [DOMAIN rows' -> Row] /\ DOMAIN rows' \subseteq 1 .. MaxId
         /\ parameters' \subseteq [algorithm : Nat, write : Nat]
         /\ Tables'
<1>1. /\ bindings' = bindings
      /\ \/ /\ rows' = [rows EXCEPT ![id].category = category, ![id].write = writes + 1]
            /\ ReplaceParameters(id, writes + 1)
         \/ rows' = [rows EXCEPT ![id].category = category] /\ parameters' = parameters
  BY DEF UpdateAlgorithm
<1>2. id \in 1 .. MaxId /\ writes + 1 \in Nat /\ rows[id] \in Row
  BY DEF TypeOK
<1>3. /\ DOMAIN rows' = DOMAIN rows /\ rows' \in [DOMAIN rows' -> Row]
      /\ rows'[id].key = rows[id].key
      /\ \A other \in DOMAIN rows : other # id => rows'[other] = rows[other]
  <2>1. PICK new \in Row : rows' = [rows EXCEPT ![id] = new] /\ new.key = rows[id].key
    <3>1. CASE rows' = [rows EXCEPT ![id].category = category, ![id].write = writes + 1]
      <4>1. [rows[id] EXCEPT !.category = category, !.write = writes + 1] \in Row
        BY <1>2 DEF Row
      <4>2. [rows[id] EXCEPT !.category = category, !.write = writes + 1].key = rows[id].key
        BY <1>2 DEF Row
      <4>3. rows' = [rows EXCEPT ![id] =
                       [rows[id] EXCEPT !.category = category, !.write = writes + 1]]
        BY <3>1
      <4> QED
        BY <4>1, <4>2, <4>3
    <3>2. CASE rows' = [rows EXCEPT ![id].category = category]
      <4>1. [rows[id] EXCEPT !.category = category] \in Row
        BY <1>2 DEF Row
      <4>2. [rows[id] EXCEPT !.category = category].key = rows[id].key
        BY <1>2 DEF Row
      <4>3. rows' = [rows EXCEPT ![id] = [rows[id] EXCEPT !.category = category]]
        BY <3>2
      <4> QED
        BY <4>1, <4>2, <4>3
    <3> QED
      BY <1>1, <3>1, <3>2
  <2>2. rows \in [DOMAIN rows -> Row]
    BY DEF TypeOK
  <2> QED
    BY <2>1, <2>2
<1>4. KeysUnique'
  BY <1>3 DEF Tables, KeysUnique
<1>5. BindingsPoint'
  BY <1>1, <1>3 DEF Tables, BindingsPoint
<1>6. OwnParameters' /\ parameters' \subseteq [algorithm : Nat, write : Nat]
  <2>1. CASE /\ rows' = [rows EXCEPT ![id].category = category, ![id].write = writes + 1]
             /\ ReplaceParameters(id, writes + 1)
    <3>1. rows'[id].write = writes + 1
      BY <1>2, <2>1 DEF Row
    <3> QED
      BY <1>2, <1>3, <2>1, <3>1, OneWrite DEF Tables, OwnParameters
  <2>2. CASE rows' = [rows EXCEPT ![id].category = category] /\ parameters' = parameters
    <3>1. rows'[id].write = rows[id].write
      BY <1>2, <2>2 DEF Row
    <3>2. \A x \in DOMAIN rows : rows'[x].write = rows[x].write
      BY <1>3, <3>1
    <3> QED
      BY <1>3, <2>2, <3>2 DEF Tables, OwnParameters, TypeOK
  <2> QED
    BY <1>1, <2>1, <2>2
<1> QED
  BY <1>3, <1>4, <1>5, <1>6 DEF Tables, TypeOK

LEMMA DeleteKeeps ==
  ASSUME TypeOK, Tables, NEW id \in DOMAIN rows, DeleteAlgorithm(id)
  PROVE  /\ rows' \in [DOMAIN rows' -> Row] /\ DOMAIN rows' \subseteq 1 .. MaxId
         /\ bindings' \in [DOMAIN bindings' -> Nat]
         /\ Tables'
<1>1. /\ rows' = [x \in DOMAIN rows \ {id} |-> rows[x]]
      /\ bindings' = [t \in DOMAIN bindings \ {t \in DOMAIN bindings : id \in {t, bindings[t]}} |-> bindings[t]]
      /\ parameters' = parameters
  BY DEF DeleteAlgorithm, Without
<1>2. KeysUnique'
  BY <1>1 DEF Tables, KeysUnique
<1>3. BindingsPoint'
  BY <1>1 DEF Tables, BindingsPoint
<1>4. OwnParameters'
  BY <1>1 DEF Tables, OwnParameters
<1> QED
  BY <1>1, <1>2, <1>3, <1>4 DEF Tables, TypeOK

LEMMA BindKeeps ==
  ASSUME TypeOK, Tables, NEW t \in DOMAIN rows, NEW e \in DOMAIN rows, SetBinding(t, e)
  PROVE  bindings' \in [DOMAIN bindings' -> Nat] /\ Tables'
<1>1. /\ bindings' = [y \in DOMAIN bindings \union {t} |-> IF y = t THEN e ELSE bindings[y]]
      /\ rows' = rows /\ parameters' = parameters
  BY DEF SetBinding, With
<1>2. e \in Nat
  BY RegistryAssumption DEF TypeOK
<1>3. bindings' \in [DOMAIN bindings' -> Nat]
  BY <1>1, <1>2 DEF TypeOK
<1>4. BindingsPoint'
  BY <1>1 DEF Tables, BindingsPoint
<1> QED
  BY <1>1, <1>3, <1>4 DEF Tables, KeysUnique, OwnParameters

LEMMA UnbindKeeps ==
  ASSUME TypeOK, Tables, NEW t \in DOMAIN bindings, DeleteBinding(t)
  PROVE  bindings' \in [DOMAIN bindings' -> Nat] /\ Tables'
<1>1. /\ bindings' = [y \in DOMAIN bindings \ {t} |-> bindings[y]]
      /\ rows' = rows /\ parameters' = parameters
  BY DEF DeleteBinding, Without
<1>2. BindingsPoint'
  BY <1>1 DEF Tables, BindingsPoint
<1> QED
  BY <1>1, <1>2 DEF Tables, KeysUnique, OwnParameters, TypeOK

LEMMA RegistryInit == Init => RegistryInv
BY RegistryAssumption DEF Init, RegistryInv, TypeOK, Tables, KeysUnique, BindingsPoint, OwnParameters, StartProgress

LEMMA RegistryStep == RegistryInv /\ [Next]_vars => RegistryInv'
<1> SUFFICES ASSUME RegistryInv, [Next]_vars PROVE RegistryInv'
  OBVIOUS
<1>0. TypeOK /\ Tables /\ StartProgress
  BY DEF RegistryInv
<1>1. CASE Start
  <2>1. Tables'
    BY <1>0, <1>1 DEF Start, tables, Tables, KeysUnique, BindingsPoint, OwnParameters
  <2>2. Keys \subseteq AllKeys
    BY <1>0 DEF TypeOK, Keys, Row
  <2>3. TypeOK' /\ StartProgress'
    BY <1>0, <1>1, <2>2, RegistryAssumption DEF Start, tables, TypeOK, StartProgress, Keys
  <2> QED
    BY <2>1, <2>3 DEF RegistryInv
<1>2. CASE Seed
  <2>1. /\ pc = "seeding" /\ pc' = "seeding" /\ next' = next + 1 /\ existing' = existing
        /\ next \in DOMAIN Defaults /\ next' \in 1 .. Len(Defaults) + 1
    BY <1>0, <1>2, RegistryAssumption DEF Seed, TypeOK
  <2>2. CASE Default(next).key \in existing
    <3>1. UNCHANGED <<tables, writes>>
      BY <1>2, <2>2 DEF Seed
    <3>2. Tables' /\ Keys' = Keys
      BY <1>0, <3>1 DEF tables, Tables, KeysUnique, BindingsPoint, OwnParameters, Keys
    <3>3. StartProgress'
      BY <1>0, <2>1, <2>2, <3>2, RegistryAssumption DEF StartProgress, Default, TypeOK
    <3> QED
      BY <1>0, <2>1, <3>1, <3>2, <3>3 DEF RegistryInv, TypeOK, tables
  <2>3. CASE Default(next).key \notin existing
    <3>1. CreateAlgorithm(Default(next).key, Default(next).category,
                         Default(next).category = "training")
      BY <1>2, <2>3 DEF Seed
    <3>2. Default(next).key \in AllKeys /\ Default(next).category \in AllCategories
      BY <2>1 DEF Default, AllKeys, DefaultKeys, AllCategories
    <3>3. /\ rows' \in [DOMAIN rows' -> Row] /\ DOMAIN rows' \subseteq 1 .. MaxId
          /\ parameters' \subseteq [algorithm : Nat, write : Nat]
          /\ Tables' /\ Keys' = Keys \union {Default(next).key} /\ bindings' = bindings
      BY <1>0, <3>1, <3>2, CreateKeeps
    <3>4. writes' \in Nat
      BY <1>0, <3>1 DEF CreateAlgorithm, TypeOK
    <3>5. StartProgress'
      BY <1>0, <2>1, <3>3, RegistryAssumption DEF StartProgress, Default, TypeOK
    <3> QED
      BY <1>0, <2>1, <3>3, <3>4, <3>5 DEF RegistryInv, TypeOK
  <2> QED
    BY <2>2, <2>3
<1>3. CASE Seeded
  <2>1. UNCHANGED <<tables, writes, next, existing>> /\ pc = "seeding" /\ pc' = "repairing"
    BY <1>3 DEF Seeded, Goto
  <2>2. DefaultKeys \subseteq Keys
    BY <1>0, <1>3, RegistryAssumption DEF Seeded, StartProgress, DefaultKeys, Default, TypeOK
  <2>3. Tables' /\ Keys' = Keys
    BY <1>0, <2>1 DEF tables, Tables, KeysUnique, BindingsPoint, OwnParameters, Keys
  <2> QED
    BY <1>0, <2>1, <2>2, <2>3 DEF RegistryInv, TypeOK, StartProgress, tables, DefaultKeys
<1>4. CASE RepairRules
  <2>1. /\ DOMAIN rows' = DOMAIN rows /\ rows' = [id \in DOMAIN rows |-> rows'[id]]
        /\ \A id \in DOMAIN rows : rows'[id] \in {[rows[id] EXCEPT !.rules = TRUE], rows[id]}
    BY <1>4 DEF RepairRules
  <2>3. ASSUME NEW id \in DOMAIN rows
        PROVE  /\ rows'[id] \in Row
               /\ rows'[id].key = rows[id].key /\ rows'[id].write = rows[id].write
    <3>1. rows[id] \in Row
      BY <1>0 DEF TypeOK
    <3> QED
      BY <2>1, <3>1 DEF Row
  <2>4. rows' \in [DOMAIN rows' -> Row]
    BY <2>1, <2>3
  <2>2. Tables' /\ Keys' = Keys
    BY <1>0, <1>4, <2>1, <2>3, <2>4, RowsInPlace DEF RepairRules
  <2> QED
    BY <1>0, <1>4, <2>1, <2>2, <2>4 DEF RegistryInv, RepairRules, Goto, TypeOK, StartProgress, DefaultKeys
<1>5. CASE Merge \/ Die
  <2>1. UNCHANGED <<tables, writes, next, existing>> /\ pc' \in {"broken", "up", "down"}
    BY <1>5 DEF Merge, Die, Goto
  <2> QED
    BY <1>0, <2>1 DEF RegistryInv, TypeOK, tables, Tables, KeysUnique, BindingsPoint, OwnParameters, StartProgress
<1>6. CASE Operate
  <2>0. pc = "up" /\ pc' = "up" /\ next' = next /\ existing' = existing
    BY <1>6 DEF Operate
  <2>1. StartProgress'
    BY <2>0 DEF StartProgress
  <2>2. CASE \E key \in AllKeys, category \in Categories : CreateAlgorithm(key, category, FALSE)
    <3>1. PICK key \in AllKeys, category \in Categories : CreateAlgorithm(key, category, FALSE)
      BY <2>2
    <3>2. category \in AllCategories
      BY DEF AllCategories
    <3>3. writes' \in Nat
      BY <1>0, <3>1 DEF CreateAlgorithm, TypeOK
    <3> QED
      BY <1>0, <2>0, <2>1, <3>1, <3>2, <3>3, CreateKeeps DEF RegistryInv, TypeOK
  <2>3. CASE \E id \in DOMAIN rows, category \in Categories : UpdateAlgorithm(id, category)
    <3>1. PICK id \in DOMAIN rows, category \in Categories : UpdateAlgorithm(id, category)
      BY <2>3
    <3>2. category \in AllCategories
      BY DEF AllCategories
    <3>3. writes' \in Nat /\ bindings' = bindings
      BY <1>0, <3>1 DEF UpdateAlgorithm, TypeOK
    <3> QED
      BY <1>0, <2>0, <2>1, <3>1, <3>2, <3>3, UpdateKeeps DEF RegistryInv, TypeOK
  <2>4. CASE \E id \in DOMAIN rows : SetEnabled(id, ~rows[id].enabled)
    <3>1. PICK id \in DOMAIN rows : SetEnabled(id, ~rows[id].enabled)
      BY <2>4
    <3>2. rows[id] \in Row
      BY <1>0 DEF TypeOK
    <3>3. /\ DOMAIN rows' = DOMAIN rows /\ rows' \in [DOMAIN rows' -> Row]
          /\ \A x \in DOMAIN rows : rows'[x].key = rows[x].key /\ rows'[x].write = rows[x].write
      BY <1>0, <3>1, <3>2 DEF SetEnabled, TypeOK, Row
    <3> QED
      BY <1>0, <2>0, <2>1, <3>1, <3>3, RowsInPlace DEF SetEnabled, RegistryInv, TypeOK
  <2>5. CASE \E id \in DOMAIN rows : DeleteAlgorithm(id)
    <3>1. PICK id \in DOMAIN rows : DeleteAlgorithm(id)
      BY <2>5
    <3>2. writes' \in Nat /\ parameters' = parameters
      BY <1>0, <3>1 DEF DeleteAlgorithm, TypeOK
    <3> QED
      BY <1>0, <2>0, <2>1, <3>1, <3>2, DeleteKeeps DEF RegistryInv, TypeOK
  <2>6. CASE \E t, e \in DOMAIN rows : SetBinding(t, e)
    <3>1. PICK t, e \in DOMAIN rows : SetBinding(t, e)
      BY <2>6
    <3>2. writes' \in Nat /\ rows' = rows /\ parameters' = parameters
      BY <1>0, <3>1 DEF SetBinding, TypeOK
    <3> QED
      BY <1>0, <2>0, <2>1, <3>1, <3>2, BindKeeps DEF RegistryInv, TypeOK
  <2>7. CASE \E t \in DOMAIN bindings : DeleteBinding(t)
    <3>1. PICK t \in DOMAIN bindings : DeleteBinding(t)
      BY <2>7
    <3>2. writes' \in Nat /\ rows' = rows /\ parameters' = parameters
      BY <1>0, <3>1 DEF DeleteBinding, TypeOK
    <3> QED
      BY <1>0, <2>0, <2>1, <3>1, <3>2, UnbindKeeps DEF RegistryInv, TypeOK
  <2> QED
    BY <1>6, <2>2, <2>3, <2>4, <2>5, <2>6, <2>7 DEF Operate
<1>7. CASE UNCHANGED vars
  BY <1>0, <1>7 DEF vars, tables, RegistryInv, TypeOK, Tables, KeysUnique, BindingsPoint, OwnParameters, StartProgress, Keys
<1> QED
  BY <1>1, <1>2, <1>3, <1>4, <1>5, <1>6, <1>7 DEF Next

LEMMA RegistryInvariant == Spec => []RegistryInv
<1> QED
  BY RegistryInit, RegistryStep, PTL DEF Spec

(* Both sides of a binding are rows that are there, whatever is created,   *)
(* deleted and created again under the same number.                        *)
THEOREM BindingsAlwaysPoint == Spec => []BindingsPoint
<1>1. RegistryInv => BindingsPoint
  BY DEF RegistryInv, Tables
<1> QED
  BY <1>1, RegistryInvariant, PTL

(* An algorithm has exactly the parameters of its last write.              *)
THEOREM ParametersAlwaysOwn == Spec => []OwnParameters
<1>1. RegistryInv => OwnParameters
  BY DEF RegistryInv, Tables
<1> QED
  BY <1>1, RegistryInvariant, PTL

LEMMA EditsSurviveStep ==
  ASSUME RegistryInv, [Next]_vars, pc # "up"
  PROVE  /\ bindings' = bindings
         /\ \A id \in DOMAIN rows : id \in DOMAIN rows' /\ SameButRules(rows'[id], rows[id])
<1>0. TypeOK /\ Tables
  BY DEF RegistryInv
<1>1. CASE Seed
  <2>1. CASE Default(next).key \in existing
    BY <1>1, <2>1 DEF Seed, tables, SameButRules
  <2>2. CASE Default(next).key \notin existing
    <3>1. CreateAlgorithm(Default(next).key, Default(next).category,
                         Default(next).category = "training")
      BY <1>1, <2>2 DEF Seed
    <3>2. Default(next).key \in AllKeys /\ Default(next).category \in AllCategories
      BY <1>0, <1>1, RegistryAssumption DEF Seed, TypeOK, Default, AllKeys, DefaultKeys, AllCategories
    <3> QED
      BY <1>0, <3>1, <3>2, CreateKeeps DEF SameButRules
  <2> QED
    BY <2>1, <2>2
<1>2. CASE RepairRules
  <2>1. /\ DOMAIN rows' = DOMAIN rows /\ bindings' = bindings
        /\ \A id \in DOMAIN rows : rows'[id] \in {[rows[id] EXCEPT !.rules = TRUE], rows[id]}
    BY <1>2 DEF RepairRules
  <2>2. ASSUME NEW id \in DOMAIN rows PROVE SameButRules(rows'[id], rows[id])
    <3>1. rows[id] \in Row
      BY <1>0 DEF TypeOK
    <3> QED
      BY <2>1, <3>1 DEF Row, SameButRules
  <2> QED
    BY <2>1, <2>2
<1>3. CASE Start \/ Seeded \/ Merge \/ Die \/ UNCHANGED vars
  BY <1>3 DEF Start, Seeded, Merge, Die, vars, tables, SameButRules
<1>4. ~Operate
  BY DEF Operate
<1> QED
  BY <1>1, <1>2, <1>3, <1>4 DEF Next

(* Whatever the user made of an algorithm, and whatever he bound, a start  *)
(* leaves as it was.                                                       *)
THEOREM EditsAlwaysSurvive == Spec => EditsSurviveStarts
<1>1. RegistryInv /\ [Next]_vars =>
        [pc # "up" => /\ bindings' = bindings
                      /\ \A id \in DOMAIN rows :
                           id \in DOMAIN rows' /\ SameButRules(rows'[id], rows[id])]_vars
  BY EditsSurviveStep
<1> QED
  BY <1>1, RegistryInvariant, PTL DEF Spec, EditsSurviveStarts

LEMMA PlantedStep ==
  ASSUME RegistryInv, pc = "merging", NEW i \in DOMAIN Defaults
  PROVE  OnceThere(Default(i).key)
<1>1. Default(i).key \in Keys
  BY DEF RegistryInv, StartProgress, DefaultKeys, Default
<1>2. PICK id \in DOMAIN rows : rows[id].key = Default(i).key
  BY <1>1 DEF Keys
<1>3. \A other \in DOMAIN rows : rows[other].key = Default(i).key <=> other = id
  BY <1>2 DEF RegistryInv, Tables, KeysUnique
<1> QED
  BY <1>2, <1>3 DEF OnceThere

(* A start that gets through has every default algorithm exactly once,     *)
(* wherever the starts before it were cut off.                             *)
THEOREM StartAlwaysPlantsAll == Spec => StartPlantsAll
<1>1. RegistryInv /\ [Next]_vars =>
        [pc = "merging" /\ pc' = "up" => \A i \in DOMAIN Defaults : OnceThere(Default(i).key)]_vars
  BY PlantedStep
<1> QED
  BY <1>1, RegistryInvariant, PTL DEF Spec, StartPlantsAll

-----------------------------------------------------------------------------
(* EdgeFleet: the types of the rows and of the commands under way.         *)
Labels == Models \union {Factory}
BoardRow == [status : {"offline", "online", "running", "restarting"},
        scene : Scenes \union {""}, model : Labels \union {""}]
Job == [step : {"read", "ask", "write", "list", "record"},
        op : {"switch", "push", "rollback", "restart", "refresh", "heartbeat"},
        device : Devices, arg : Scenes \union Labels,
        row : BoardRow, devices : SUBSET Devices]
Hands == Threads \union {Telemetry}

(* A command names what it is about, and what its thread is to write down  *)
(* has been so: a push comes to its row and its list after the board has   *)
(* run the model, and a rollback to neither.  The telemetry thread sends   *)
(* heartbeats only.                                                        *)
JobTrue(it, runs) ==
  /\ it.op = "push" => it.arg \in Models
  /\ it.op = "switch" => it.arg \in Scenes
  /\ it.row.model \in runs[it.device] \union {""}
  /\ it.step \in {"write", "list", "record"} /\ it.op = "push" => it.arg \in runs[it.device]
  /\ it.step \in {"list", "record"} => it.op = "push"
  /\ it.step = "write" => it.op # "rollback"
Beats(t, it) == t = Telemetry => it.op = "heartbeat"

BoardsTrue == \A d \in Devices : board[d].model \in ran[d]
RowsTrue == \A d \in DOMAIN boards : boards[d].model \in ran[d] \union {""}
ListsTrue == \A m \in Models : \A d \in recorded[m] : m \in ran[d]
JobsTrue ==
  \A t \in Hands : thread[t] # Fleet!Idle => JobTrue(thread[t], ran) /\ Beats(t, thread[t])
AnswersTrue ==
  /\ DOMAIN batch = {"model", "answers"} /\ DOMAIN batch.answers \subseteq Devices
  /\ \A d \in DOMAIN batch.answers : batch.answers[d] = "success" => batch.model \in ran[d]

(* The invariant in two halves: what the desk and the boards have, and the *)
(* threads with their batch.                                               *)
DeskInv ==
  /\ DOMAIN boards \subseteq Devices
  /\ boards = [d \in DOMAIN boards |-> boards[d]]
  /\ \A d \in DOMAIN boards : boards[d] \in BoardRow
  /\ recorded \in [Models -> SUBSET Devices]
  /\ board \in [Devices -> [scene : Scenes, model : Labels]]
  /\ ran \in [Devices -> SUBSET Labels]
  /\ \A c \in sent : c.device \in Devices /\ (c.op = "switch" => c.arg \in Scenes)
  /\ BoardsTrue /\ RowsTrue /\ ListsTrue
WorkInv == thread \in [Hands -> {Fleet!Idle} \union Job] /\ JobsTrue /\ AnswersTrue
FleetInv == DeskInv /\ WorkInv

-----------------------------------------------------------------------------
(* Operators.                                                              *)

(* What a command writes over a row leaves a row.                          *)
LEMMA OverRow ==
  ASSUME NEW old \in BoardRow, NEW new,
         DOMAIN new \subseteq {"status", "scene", "model"},
         "status" \in DOMAIN new => new.status \in {"offline", "online", "running", "restarting"},
         "scene" \in DOMAIN new => new.scene \in Scenes \union {""},
         "model" \in DOMAIN new => new.model \in Labels \union {""}
  PROVE  /\ Fleet!Over(new, old) \in BoardRow
         /\ Fleet!Over(new, old).model = IF "model" \in DOMAIN new THEN new.model ELSE old.model
<1>1. DOMAIN old = {"status", "scene", "model"}
  BY DEF BoardRow
<1>2. Fleet!Over(new, old) = [x \in {"status", "scene", "model"} |->
                      IF x \in DOMAIN new THEN new[x] ELSE old[x]]
  BY <1>1 DEF Fleet!Over
<1>3. Fleet!Over(new, old) =
        [status |-> Fleet!Over(new, old).status, scene |-> Fleet!Over(new, old).scene,
         model |-> Fleet!Over(new, old).model]
  BY <1>2
<1>4. /\ Fleet!Over(new, old).status \in {"offline", "online", "running", "restarting"}
      /\ Fleet!Over(new, old).scene \in Scenes \union {""}
      /\ Fleet!Over(new, old).model \in Labels \union {""}
      /\ Fleet!Over(new, old).model = IF "model" \in DOMAIN new THEN new.model ELSE old.model
  BY <1>2 DEF BoardRow
<1> QED
  BY <1>3, <1>4 DEF BoardRow

LEMMA IdleIsNoJob == Fleet!Idle \notin Job /\ Fleet!Idle.step = "idle"
BY DEF Fleet!Idle, Job

(* A thread that is at one of the steps of a command has a command.        *)
LEMMA AtWork ==
  ASSUME FleetInv, NEW t \in Hands, thread[t].step # "idle"
  PROVE  /\ thread[t] \in Job /\ thread[t] # Fleet!Idle
         /\ thread[t].device \in Devices /\ thread[t].row \in BoardRow
         /\ thread[t].arg \in Scenes \union Labels
<1>1. thread[t] # Fleet!Idle /\ thread[t] \in Job
  BY IdleIsNoJob DEF FleetInv, WorkInv
<1> QED
  BY <1>1 DEF Job

-----------------------------------------------------------------------------
(* The rows.                                                               *)

(* EdgeDeviceRepository.update writes a label only where there is a row,   *)
(* and leaves the rows true if the label is.                               *)
LEMMA UpdateKeepsRows ==
  ASSUME FleetInv, NEW d \in Devices, NEW new, Fleet!Update(d, new),
         DOMAIN new \subseteq {"status", "scene", "model"},
         "status" \in DOMAIN new => new.status \in {"offline", "online", "running", "restarting"},
         "scene" \in DOMAIN new => new.scene \in Scenes \union {""},
         "model" \in DOMAIN new => new.model \in Labels \union {""} /\ new.model \in ran[d] \union {""}
  PROVE  /\ DOMAIN boards' = DOMAIN boards
         /\ boards' = [e \in DOMAIN boards' |-> boards'[e]]
         /\ \A e \in DOMAIN boards' : boards'[e] \in BoardRow
         /\ \A e \in DOMAIN boards' : boards'[e].model \in ran[e] \union {""}
<1>1. boards' = [e \in DOMAIN boards |-> IF e = d THEN Fleet!Over(new, boards[e]) ELSE boards[e]]
  BY DEF Fleet!Update, Fleet!Registered
<1>2. /\ \A e \in DOMAIN boards : boards[e] \in BoardRow
      /\ \A e \in DOMAIN boards : boards[e].model \in ran[e] \union {""}
  BY DEF FleetInv, DeskInv, RowsTrue
<1>3. ASSUME NEW e \in DOMAIN boards
      PROVE  boards'[e] \in BoardRow /\ boards'[e].model \in ran[e] \union {""}
  <2>1. CASE e = d
    <3>1. boards'[e] = Fleet!Over(new, boards[e])
      BY <1>1, <2>1
    <3>2. /\ Fleet!Over(new, boards[e]) \in BoardRow
          /\ Fleet!Over(new, boards[e]).model =
               IF "model" \in DOMAIN new THEN new.model ELSE boards[e].model
      BY <1>2, OverRow
    <3> QED
      BY <1>2, <2>1, <3>1, <3>2
  <2>2. CASE e # d
    BY <1>1, <1>2, <2>2
  <2> QED
    BY <2>1, <2>2
<1> QED
  BY <1>1, <1>3

(* A registration is a blank row.                                          *)
LEMMA BlankIsRow == Fleet!Blank \in BoardRow /\ Fleet!Blank.model = ""
BY DEF Fleet!Blank, BoardRow
-----------------------------------------------------------------------------
(* The threads.                                                            *)

(* One thread goes on, and no board forgets: what the others have stays    *)
(* true.                                                                   *)
LEMMA OneThread ==
  ASSUME FleetInv, NEW t \in Hands, NEW it,
         thread' = [thread EXCEPT ![t] = it],
         \A d \in Devices : ran[d] \subseteq ran'[d],
         it = Fleet!Idle \/ (it \in Job /\ JobTrue(it, ran') /\ Beats(t, it))
  PROVE  thread' \in [Hands -> {Fleet!Idle} \union Job] /\ JobsTrue'
<1>1. thread \in [Hands -> {Fleet!Idle} \union Job] /\ JobsTrue
  BY DEF FleetInv, WorkInv
<1>2. thread' \in [Hands -> {Fleet!Idle} \union Job]
  BY <1>1
<1>3. ASSUME NEW u \in Hands, thread'[u] # Fleet!Idle PROVE JobTrue(thread'[u], ran') /\ Beats(u, thread'[u])
  <2>1. CASE u = t
    BY <1>1, <1>3, <2>1
  <2>2. CASE u # t
    <3>1. thread'[u] = thread[u] /\ thread[u] \in Job
      BY <1>1, <1>3, <2>2
    <3>2. thread[u].device \in Devices
      BY <3>1 DEF Job
    <3>3. JobTrue(thread[u], ran) /\ Beats(u, thread[u])
      BY <1>1, <1>3, <3>1 DEF JobsTrue
    <3> QED
      BY <3>1, <3>2, <3>3 DEF JobTrue
  <2> QED
    BY <2>1, <2>2
<1>4. JobsTrue'
  <2>1. Fleet!Idle' = Fleet!Idle
    BY DEF Fleet!Idle
  <2> QED
    BY <1>3, <2>1 DEF JobsTrue, Beats
<1> QED
  BY <1>2, <1>4

(* A command that goes on by a step keeps what it is about.                *)
LEMMA JobGoesOn ==
  ASSUME FleetInv, NEW t \in Hands, thread[t] \in Job, thread[t] # Fleet!Idle,
         \A d \in Devices : ran[d] \subseteq ran'[d]
  PROVE  JobTrue(thread[t], ran') /\ Beats(t, thread[t])
<1>1. JobTrue(thread[t], ran) /\ Beats(t, thread[t]) /\ thread[t].device \in Devices
  BY DEF FleetInv, WorkInv, JobsTrue, Job
<1> QED
  BY <1>1 DEF JobTrue

(* The batch is as it was.                                                 *)
LEMMA BatchStays ==
  ASSUME FleetInv, batch' = batch, \A d \in Devices : ran[d] \subseteq ran'[d]
  PROVE  AnswersTrue'
BY DEF FleetInv, WorkInv, AnswersTrue

(* An answer ends the command; it enters the batch only as an answer of a  *)
(* push of the batch's model, and a success only if the board has run it.  *)
LEMMA AnswerKeeps ==
  ASSUME FleetInv, NEW t \in Hands, thread[t] \in Job, NEW a, Fleet!Answer(t, a),
         \A d \in Devices : ran[d] \subseteq ran'[d],
         thread[t].op = "push" /\ a = "success" => thread[t].arg \in ran'[thread[t].device]
  PROVE  thread' \in [Hands -> {Fleet!Idle} \union Job] /\ JobsTrue' /\ AnswersTrue'
<1>1. thread' = [thread EXCEPT ![t] = Fleet!Idle]
  BY DEF Fleet!Answer, Fleet!End
<1>2. thread' \in [Hands -> {Fleet!Idle} \union Job] /\ JobsTrue'
  BY <1>1, OneThread
<1>3. CASE batch' = batch
  BY <1>2, <1>3, BatchStays
<1>4. CASE batch' # batch
  <2>1. PICK d : d = thread[t].device
    OBVIOUS
  <2>2. /\ thread[t].op = "push" /\ d \in DOMAIN batch.answers /\ thread[t].arg = batch.model
        /\ batch' = [batch EXCEPT !.answers[d] = a]
    BY <1>4, <2>1 DEF Fleet!Answer
  <2>3. DOMAIN batch = {"model", "answers"} /\ DOMAIN batch.answers \subseteq Devices
    BY DEF FleetInv, WorkInv, AnswersTrue
  <2>4. /\ DOMAIN batch' = {"model", "answers"} /\ batch'.model = batch.model
        /\ batch'.answers = [batch.answers EXCEPT ![d] = a]
    BY <2>2, <2>3
  <2>5. /\ DOMAIN batch'.answers = DOMAIN batch.answers
        /\ \A e \in DOMAIN batch.answers :
             batch'.answers[e] = IF e = d THEN a ELSE batch.answers[e]
    BY <2>4
  <2>6. ASSUME NEW e \in DOMAIN batch.answers, batch'.answers[e] = "success"
        PROVE  batch'.model \in ran'[e]
    <3>1. CASE e = d
      BY <2>1, <2>2, <2>4, <2>5, <2>6, <3>1
    <3>2. CASE e # d
      BY <2>3, <2>4, <2>5, <2>6, <3>2 DEF FleetInv, WorkInv, AnswersTrue
    <3> QED
      BY <3>1, <3>2
  <2> QED
    BY <1>2, <2>3, <2>4, <2>5, <2>6 DEF AnswersTrue
<1> QED
  BY <1>2, <1>3, <1>4

-----------------------------------------------------------------------------
(* The steps.                                                              *)

(* Nothing of the desk or of the boards changes.                           *)
LEMMA DeskStays ==
  ASSUME FleetInv, UNCHANGED <<boards, recorded, board, ran, sent>>
  PROVE  DeskInv'
<1>1. /\ boards' = boards /\ recorded' = recorded /\ board' = board /\ ran' = ran
      /\ sent' = sent
  OBVIOUS
<1>2. DeskInv
  BY DEF FleetInv
<1> QED
  BY <1>1, <1>2 DEF DeskInv, BoardsTrue, RowsTrue, ListsTrue

LEMMA ReadStep ==
  ASSUME FleetInv, NEW t \in Hands, Fleet!Read(t)
  PROVE  FleetInv' /\ DOMAIN boards' \subseteq DOMAIN boards
<1>1. /\ thread[t].step # "idle" /\ UNCHANGED <<boards, recorded, board, ran, sent>>
  BY DEF Fleet!Read, Fleet!desk
<1>2. /\ thread[t] \in Job /\ thread[t] # Fleet!Idle /\ thread[t].device \in Devices
      /\ ran' = ran
  BY <1>1, AtWork
<1>3. DeskInv'
  BY <1>1, DeskStays
<1>4. CASE thread[t].device \in DOMAIN boards
  <2>1. PICK d : d = thread[t].device
    OBVIOUS
  <2>2. PICK next_step : next_step = IF t = Telemetry THEN "write" ELSE "ask"
    OBVIOUS
  <2>3. /\ thread' = [thread EXCEPT ![t].row = boards[d], ![t].step = next_step]
        /\ batch' = batch /\ boards[d] \in BoardRow /\ boards[d].model \in ran[d] \union {""}
    BY <1>4, <2>1, <2>2 DEF Fleet!Read, Fleet!Registered, FleetInv, DeskInv, RowsTrue
  <2>4. PICK it : it = [thread[t] EXCEPT !.row = boards[d], !.step = next_step]
    OBVIOUS
  <2>5. thread' = [thread EXCEPT ![t] = it]
    BY <1>2, <2>3, <2>4
  <2>6. it \in Job
    BY <1>2, <2>2, <2>3, <2>4 DEF Job
  <2>7. /\ it.op = thread[t].op /\ it.arg = thread[t].arg /\ it.device = d
        /\ it.row = boards[d] /\ it.step = next_step
    BY <1>2, <2>1, <2>4 DEF Job
  <2>8. JobTrue(it, ran) /\ Beats(t, it)
    BY <1>2, <2>2, <2>3, <2>7 DEF JobTrue, Beats, FleetInv, WorkInv, JobsTrue
  <2>9. WorkInv'
    BY <1>2, <2>3, <2>5, <2>6, <2>8, OneThread, BatchStays DEF WorkInv
  <2> QED
    BY <1>1, <1>3, <2>9 DEF FleetInv
<1>5. CASE thread[t].device \notin DOMAIN boards
  <2>1. Fleet!Answer(t, "error")
    BY <1>5 DEF Fleet!Read, Fleet!Registered
  <2>2. WorkInv'
    BY <1>2, <2>1, AnswerKeeps DEF WorkInv
  <2> QED
    BY <1>1, <1>3, <2>2 DEF FleetInv
<1> QED
  BY <1>4, <1>5

(* A command goes to another step and is otherwise as it was.              *)
LEMMA GotoKeeps ==
  ASSUME FleetInv, NEW t \in Hands, thread[t].step # "idle",
         NEW step \in {"read", "ask", "write", "list", "record"}, Fleet!Goto(t, step),
         \A d \in Devices : ran[d] \subseteq ran'[d],
         batch' = batch,
         step \in {"write", "list", "record"} /\ thread[t].op = "push" =>
           thread[t].arg \in ran'[thread[t].device],
         step \in {"list", "record"} => thread[t].op = "push",
         step = "write" => thread[t].op # "rollback"
  PROVE  WorkInv'
<1>1. thread[t] \in Job /\ thread[t] # Fleet!Idle
  BY AtWork
<1>2. PICK it : it = [thread[t] EXCEPT !.step = step]
  OBVIOUS
<1>3. thread' = [thread EXCEPT ![t] = it]
  BY <1>1, <1>2 DEF Fleet!Goto
<1>4. it \in Job
  BY <1>1, <1>2 DEF Job
<1>5. /\ it.op = thread[t].op /\ it.arg = thread[t].arg /\ it.device = thread[t].device
      /\ it.row = thread[t].row /\ it.step = step
  BY <1>1, <1>2 DEF Job
<1>6. JobTrue(thread[t], ran') /\ Beats(t, thread[t])
  BY <1>1, JobGoesOn
<1>7. JobTrue(it, ran') /\ Beats(t, it)
  BY <1>5, <1>6 DEF JobTrue, Beats
<1> QED
  BY <1>3, <1>4, <1>7, OneThread, BatchStays DEF WorkInv

LEMMA SendStep ==
  ASSUME FleetInv, NEW t \in Hands, Fleet!Send(t)
  PROVE  FleetInv' /\ DOMAIN boards' \subseteq DOMAIN boards
<1>1. /\ thread[t].step = "ask" /\ thread[t].op \in {"switch", "rollback", "restart"}
      /\ boards' = boards /\ recorded' = recorded /\ board' = board /\ ran' = ran
  BY DEF Fleet!Send, Fleet!desk
<1>2. /\ thread[t] \in Job /\ thread[t] # Fleet!Idle /\ thread[t].device \in Devices
  BY <1>1, AtWork
<1>3. JobTrue(thread[t], ran)
  BY <1>2 DEF FleetInv, WorkInv, JobsTrue
<1>4. \/ sent' = sent
      \/ sent' = sent \union {[device |-> thread[t].device, op |-> thread[t].op,
                               arg |-> thread[t].arg]}
  BY DEF Fleet!Send
<1>5. \A c \in sent' : c.device \in Devices /\ (c.op = "switch" => c.arg \in Scenes)
  <2>1. \A c \in sent : c.device \in Devices /\ (c.op = "switch" => c.arg \in Scenes)
    BY DEF FleetInv, DeskInv
  <2>2. thread[t].op = "switch" => thread[t].arg \in Scenes
    BY <1>3 DEF JobTrue
  <2> QED
    BY <1>2, <1>4, <2>1, <2>2
<1>6. DeskInv'
  BY <1>1, <1>5 DEF FleetInv, DeskInv, BoardsTrue, RowsTrue, ListsTrue
<1>7. CASE Fleet!Answer(t, "error") \/ Fleet!Answer(t, "success")
  <2>1. WorkInv'
    BY <1>1, <1>2, <1>7, AnswerKeeps DEF WorkInv
  <2> QED
    BY <1>1, <1>6, <2>1 DEF FleetInv
<1>8. CASE thread[t].op # "rollback" /\ Fleet!Goto(t, "write") /\ batch' = batch
  <2>1. WorkInv'
    BY <1>1, <1>8, GotoKeeps
  <2> QED
    BY <1>1, <1>6, <2>1 DEF FleetInv
<1> QED
  BY <1>7, <1>8 DEF Fleet!Send

LEMMA PushStep ==
  ASSUME FleetInv, NEW t \in Hands, Fleet!Push(t)
  PROVE  FleetInv' /\ DOMAIN boards' \subseteq DOMAIN boards
<1>1. /\ thread[t].step = "ask" /\ thread[t].op = "push"
      /\ boards' = boards /\ recorded' = recorded /\ sent' = sent
  BY DEF Fleet!Push, Fleet!desk
<1>2. /\ thread[t] \in Job /\ thread[t] # Fleet!Idle /\ thread[t].device \in Devices
  BY <1>1, AtWork
<1>3. thread[t].arg \in Models
  BY <1>1, <1>2 DEF FleetInv, WorkInv, JobsTrue, JobTrue
<1>4. PICK d \in Devices, m \in Models : d = thread[t].device /\ m = thread[t].arg
  BY <1>2, <1>3
<1>5. CASE Fleet!Install(d, m)
  <2>1. board' = [board EXCEPT ![d].model = m] /\ ran' = [ran EXCEPT ![d] = @ \union {m}]
    BY <1>5 DEF Fleet!Install
  <2>2. DeskInv
    BY DEF FleetInv
  <2>3. /\ ran' \in [Devices -> SUBSET Labels] /\ m \in ran'[d]
        /\ \A e \in Devices : ran[e] \subseteq ran'[e]
    BY <2>1, <2>2 DEF DeskInv, Labels
  <2>4. /\ board' \in [Devices -> [scene : Scenes, model : Labels]]
        /\ \A e \in Devices : board'[e].model = IF e = d THEN m ELSE board[e].model
    BY <2>1, <2>2 DEF DeskInv, Labels
  <2>5. BoardsTrue'
    BY <2>2, <2>3, <2>4 DEF DeskInv, BoardsTrue
  <2>6. RowsTrue' /\ ListsTrue'
    BY <1>1, <2>2, <2>3 DEF DeskInv, RowsTrue, ListsTrue
  <2>7. DeskInv'
    BY <1>1, <2>2, <2>3, <2>4, <2>5, <2>6 DEF DeskInv
  <2>8. CASE Fleet!Goto(t, "write") /\ batch' = batch
    <3>1. WorkInv'
      BY <1>1, <1>4, <2>3, <2>8, GotoKeeps
    <3> QED
      BY <1>1, <2>7, <3>1 DEF FleetInv
  <2>9. CASE Fleet!Answer(t, "error")
    <3>1. WorkInv'
      BY <1>2, <2>3, <2>9, AnswerKeeps DEF WorkInv
    <3> QED
      BY <1>1, <2>7, <3>1 DEF FleetInv
  <2> QED
    BY <1>4, <1>5, <2>8, <2>9 DEF Fleet!Push
<1>6. CASE Fleet!Answer(t, "error") /\ board' = board /\ ran' = ran
  <2>1. DeskInv'
    BY <1>1, <1>6, DeskStays
  <2>2. WorkInv'
    BY <1>2, <1>6, AnswerKeeps DEF WorkInv
  <2> QED
    BY <1>1, <2>1, <2>2 DEF FleetInv
<1> QED
  BY <1>4, <1>5, <1>6 DEF Fleet!Push

LEMMA StatusStep ==
  ASSUME FleetInv, NEW t \in Hands, Fleet!Status(t)
  PROVE  FleetInv' /\ DOMAIN boards' \subseteq DOMAIN boards
<1>1. /\ thread[t].step = "ask" /\ thread[t].op = "refresh"
      /\ UNCHANGED <<boards, recorded, board, ran, sent>>
  BY DEF Fleet!Status, Fleet!desk
<1>2. /\ thread[t] \in Job /\ thread[t] # Fleet!Idle /\ thread[t].device \in Devices
      /\ ran' = ran
  BY <1>1, AtWork
<1>3. DeskInv'
  BY <1>1, DeskStays
<1>4. CASE Fleet!Answer(t, "success")
  <2>1. WorkInv'
    BY <1>1, <1>2, <1>4, AnswerKeeps DEF WorkInv
  <2> QED
    BY <1>1, <1>3, <2>1 DEF FleetInv
<1>5. CASE ~Fleet!Answer(t, "success")
  <2>1. PICK d \in Devices : d = thread[t].device
    BY <1>2
  <2>2. PICK row : row = [status |-> "running", scene |-> board[d].scene, model |-> board[d].model]
    OBVIOUS
  <2>3. board[d] \in [scene : Scenes, model : Labels] /\ board[d].model \in ran[d]
    BY DEF FleetInv, DeskInv, BoardsTrue
  <2>4. row \in BoardRow /\ row.model \in ran[d]
    BY <2>2, <2>3 DEF BoardRow
  <2>5. /\ thread' = [thread EXCEPT ![t].step = "write", ![t].row = row]
        /\ batch' = batch
    BY <1>5, <2>1, <2>2 DEF Fleet!Status
  <2>6. PICK it : it = [thread[t] EXCEPT !.step = "write", !.row = row]
    OBVIOUS
  <2>7. thread' = [thread EXCEPT ![t] = it]
    BY <1>2, <2>5, <2>6
  <2>8. it \in Job
    BY <1>2, <2>4, <2>6 DEF Job
  <2>9. /\ it.op = "refresh" /\ it.device = d /\ it.row = row /\ it.step = "write"
    BY <1>1, <1>2, <2>1, <2>6 DEF Job
  <2>10. JobTrue(it, ran) /\ Beats(t, it)
    BY <1>1, <1>2, <2>4, <2>9 DEF JobTrue, Beats, FleetInv, WorkInv, JobsTrue
  <2>11. WorkInv'
    BY <1>2, <2>5, <2>7, <2>8, <2>10, OneThread, BatchStays DEF WorkInv
  <2> QED
    BY <1>1, <1>3, <2>11 DEF FleetInv
<1> QED
  BY <1>4, <1>5

(* Boards, their models and the lists as they were: only rows are written. *)
LEMMA OnlyRows ==
  ASSUME FleetInv, UNCHANGED <<recorded, board, ran, sent>>,
         DOMAIN boards' \subseteq Devices,
         boards' = [d \in DOMAIN boards' |-> boards'[d]],
         \A d \in DOMAIN boards' : boards'[d] \in BoardRow,
         \A d \in DOMAIN boards' : boards'[d].model \in ran[d] \union {""}
  PROVE  DeskInv'
<1>1. recorded' = recorded /\ board' = board /\ ran' = ran /\ sent' = sent
  OBVIOUS
<1>2. DeskInv
  BY DEF FleetInv
<1>3. BoardsTrue' /\ ListsTrue'
  BY <1>1, <1>2 DEF DeskInv, BoardsTrue, ListsTrue
<1>4. RowsTrue'
  BY <1>1 DEF RowsTrue
<1> QED
  BY <1>1, <1>2, <1>3, <1>4 DEF DeskInv

LEMMA WriteStep ==
  ASSUME FleetInv, NEW t \in Hands, Fleet!Write(t)
  PROVE  FleetInv' /\ DOMAIN boards' \subseteq DOMAIN boards
<1>1. /\ thread[t].step = "write"
      /\ UNCHANGED <<recorded, board, ran, sent>>
      /\ Fleet!Update(thread[t].device, Fleet!Written(t))
  BY DEF Fleet!Write
<1>2. /\ thread[t] \in Job /\ thread[t] # Fleet!Idle /\ thread[t].device \in Devices
      /\ thread[t].row \in BoardRow /\ ran' = ran
  BY <1>1, AtWork
<1>3. JobTrue(thread[t], ran)
  BY <1>2 DEF FleetInv, WorkInv, JobsTrue
<1>4. PICK new : new = Fleet!Written(t)
  OBVIOUS
<1>5. PICK d \in Devices : d = thread[t].device
  BY <1>2
<1>6. /\ DOMAIN new \subseteq {"status", "scene", "model"}
      /\ "status" \in DOMAIN new =>
           new.status \in {"offline", "online", "running", "restarting"}
      /\ "scene" \in DOMAIN new => new.scene \in Scenes \union {""}
      /\ "model" \in DOMAIN new =>
           new.model \in Labels \union {""} /\ new.model \in ran[d] \union {""}
  <2>0. thread[t].op \in {"switch", "push", "restart", "heartbeat", "refresh", "rollback"}
    BY <1>2 DEF Job
  <2>1. CASE thread[t].op = "switch"
    BY <1>3, <1>4, <2>1 DEF JobTrue, Fleet!Written
  <2>2. CASE thread[t].op = "push"
    BY <1>1, <1>3, <1>4, <1>5, <2>2 DEF JobTrue, Fleet!Written, Labels
  <2>3. CASE thread[t].op = "restart"
    BY <1>3, <1>4, <2>3 DEF JobTrue, Fleet!Written
  <2>4. CASE thread[t].op = "heartbeat"
    BY <1>2, <1>3, <1>4, <1>5, <2>4 DEF JobTrue, Fleet!Written, BoardRow
  <2>5. CASE thread[t].op = "refresh"
    BY <1>2, <1>3, <1>4, <1>5, <2>5 DEF JobTrue, Fleet!Written, BoardRow
  <2>6. thread[t].op # "rollback"
    BY <1>1, <1>3 DEF JobTrue
  <2> QED
    BY <2>0, <2>1, <2>2, <2>3, <2>4, <2>5, <2>6
<1>7. DeskInv' /\ DOMAIN boards' = DOMAIN boards
  <2>1. /\ DOMAIN boards' = DOMAIN boards
        /\ boards' = [e \in DOMAIN boards' |-> boards'[e]]
        /\ \A e \in DOMAIN boards' : boards'[e] \in BoardRow
        /\ \A e \in DOMAIN boards' : boards'[e].model \in ran[e] \union {""}
    BY <1>1, <1>4, <1>5, <1>6, UpdateKeepsRows
  <2>2. DOMAIN boards \subseteq Devices
    BY DEF FleetInv, DeskInv
  <2> QED
    BY <1>1, <2>1, <2>2, OnlyRows
<1>8. CASE thread[t].op = "push" /\ Fleet!Goto(t, "list") /\ batch' = batch
  <2>1. thread[t].arg \in ran'[thread[t].device]
    BY <1>1, <1>2, <1>3, <1>8 DEF JobTrue
  <2>2. WorkInv'
    BY <1>1, <1>2, <1>8, <2>1, GotoKeeps
  <2> QED
    BY <1>7, <2>2 DEF FleetInv
<1>9. CASE Fleet!Answer(t, "success")
  <2>1. thread[t].op = "push" => thread[t].arg \in ran'[thread[t].device]
    BY <1>1, <1>2, <1>3 DEF JobTrue
  <2>2. WorkInv'
    BY <1>2, <1>9, <2>1, AnswerKeeps DEF WorkInv
  <2> QED
    BY <1>7, <2>2 DEF FleetInv
<1> QED
  BY <1>8, <1>9 DEF Fleet!Write

LEMMA ListStep ==
  ASSUME FleetInv, NEW t \in Hands, Fleet!List(t)
  PROVE  FleetInv' /\ DOMAIN boards' \subseteq DOMAIN boards
<1>1. /\ thread[t].step = "list" /\ UNCHANGED <<boards, recorded, board, ran, sent>>
      /\ batch' = batch
  BY DEF Fleet!List, Fleet!desk
<1>2. /\ thread[t] \in Job /\ thread[t] # Fleet!Idle /\ thread[t].device \in Devices
      /\ ran' = ran
  BY <1>1, AtWork
<1>3. DeskInv'
  BY <1>1, DeskStays
<1>4. thread[t].op = "push" /\ thread[t].arg \in Models /\ JobTrue(thread[t], ran)
  BY <1>1, <1>2 DEF FleetInv, WorkInv, JobsTrue, JobTrue
<1>5. PICK D : D = recorded[thread[t].arg]
  OBVIOUS
<1>6. D \subseteq Devices
  BY <1>4, <1>5 DEF FleetInv, DeskInv
<1>7. PICK it : it = [thread[t] EXCEPT !.devices = D, !.step = "record"]
  OBVIOUS
<1>8. thread' = [thread EXCEPT ![t] = it]
  BY <1>2, <1>5, <1>7 DEF Fleet!List
<1>9. it \in Job
  BY <1>2, <1>6, <1>7 DEF Job
<1>10. /\ it.op = thread[t].op /\ it.arg = thread[t].arg /\ it.device = thread[t].device
       /\ it.row = thread[t].row /\ it.step = "record"
  BY <1>2, <1>7 DEF Job
<1>11. JobTrue(it, ran) /\ Beats(t, it)
  BY <1>1, <1>2, <1>4, <1>10 DEF JobTrue, Beats, FleetInv, WorkInv, JobsTrue
<1>12. WorkInv'
  BY <1>1, <1>2, <1>8, <1>9, <1>11, OneThread, BatchStays DEF WorkInv
<1> QED
  BY <1>1, <1>3, <1>12 DEF FleetInv

LEMMA RecordStep ==
  ASSUME FleetInv, NEW t \in Hands, Fleet!Record(t)
  PROVE  FleetInv' /\ DOMAIN boards' \subseteq DOMAIN boards
<1>1. /\ thread[t].step = "record" /\ Fleet!Answer(t, "success")
      /\ boards' = boards /\ board' = board /\ ran' = ran /\ sent' = sent
  BY DEF Fleet!Record
<1>2. /\ thread[t] \in Job /\ thread[t] # Fleet!Idle /\ thread[t].device \in Devices
  BY <1>1, AtWork
<1>3. thread[t].arg \in Models /\ thread[t].arg \in ran[thread[t].device]
  BY <1>1, <1>2 DEF FleetInv, WorkInv, JobsTrue, JobTrue
<1>4. PICK d \in Devices, m \in Models : d = thread[t].device /\ m = thread[t].arg
  BY <1>2, <1>3
<1>5. recorded' = recorded \/ recorded' = [recorded EXCEPT ![m] = {d}]
  BY <1>4 DEF Fleet!Record
<1>6. recorded' \in [Models -> SUBSET Devices] /\ ListsTrue'
  BY <1>1, <1>3, <1>4, <1>5 DEF FleetInv, DeskInv, ListsTrue
<1>7. DeskInv'
  BY <1>1, <1>6 DEF FleetInv, DeskInv, BoardsTrue, RowsTrue
<1>8. WorkInv'
  BY <1>1, <1>2, <1>3, AnswerKeeps DEF WorkInv
<1> QED
  BY <1>1, <1>7, <1>8 DEF FleetInv

(* A board does what it is told, or the command is lost.                   *)
LEMMA ArrivesStep ==
  ASSUME FleetInv, NEW c \in sent, Fleet!Arrives(c)
  PROVE  FleetInv' /\ DOMAIN boards' \subseteq DOMAIN boards
<1>1. /\ boards' = boards /\ recorded' = recorded /\ ran' = ran /\ thread' = thread
      /\ batch' = batch /\ sent' = sent \ {c}
  BY DEF Fleet!Arrives, Fleet!desk
<1>2. DeskInv /\ c.device \in Devices /\ (c.op = "switch" => c.arg \in Scenes)
  BY DEF FleetInv, DeskInv
<1>3. PICK d \in Devices : d = c.device
  BY <1>2
<1>4. board' \in [Devices -> [scene : Scenes, model : Labels]] /\ BoardsTrue'
  <2>1. CASE board' = board
    BY <1>1, <1>2, <2>1 DEF DeskInv, BoardsTrue
  <2>2. CASE c.op = "switch" /\ board' = [board EXCEPT ![d].scene = c.arg]
    <3>1. board' \in [Devices -> [scene : Scenes, model : Labels]]
      BY <1>2, <2>2 DEF DeskInv
    <3>2. \A e \in Devices : board'[e].model = board[e].model
      BY <1>2, <2>2 DEF DeskInv
    <3> QED
      BY <1>1, <1>2, <3>1, <3>2 DEF DeskInv, BoardsTrue
  <2>3. CASE \E m \in ran[d] : board' = [board EXCEPT ![d].model = m]
    <3>1. PICK m \in ran[d] : board' = [board EXCEPT ![d].model = m]
      BY <2>3
    <3>2. m \in Labels
      BY <1>2 DEF DeskInv
    <3>3. board' \in [Devices -> [scene : Scenes, model : Labels]]
      BY <1>2, <3>1, <3>2 DEF DeskInv
    <3>4. \A e \in Devices : board'[e].model = IF e = d THEN m ELSE board[e].model
      BY <1>2, <3>1 DEF DeskInv
    <3> QED
      BY <1>1, <1>2, <3>3, <3>4 DEF DeskInv, BoardsTrue
  <2> QED
    BY <1>3, <2>1, <2>2, <2>3 DEF Fleet!Arrives
<1>5. DeskInv'
  BY <1>1, <1>2, <1>4 DEF DeskInv, RowsTrue, ListsTrue
<1>6. WorkInv'
  BY <1>1 DEF FleetInv, WorkInv, JobsTrue, AnswersTrue
<1> QED
  BY <1>1, <1>5, <1>6 DEF FleetInv

(* A thread takes a command.                                               *)
LEMMA CommandKeeps ==
  ASSUME FleetInv, NEW t \in Hands, NEW d \in Devices,
         NEW op \in {"switch", "push", "rollback", "restart", "refresh", "heartbeat"},
         NEW arg \in Scenes \union Labels, Fleet!Command(t, op, d, arg),
         op = "push" => arg \in Models, op = "switch" => arg \in Scenes,
         t = Telemetry => op = "heartbeat",
         UNCHANGED <<boards, recorded, board, ran, sent, batch>>
  PROVE  FleetInv' /\ boards' = boards
<1>1. PICK it : it = [step |-> "read", op |-> op, device |-> d, arg |-> arg,
                      row |-> Fleet!Blank, devices |-> {}]
  OBVIOUS
<1>2. thread' = [thread EXCEPT ![t] = it]
  BY <1>1 DEF Fleet!Command
<1>3. it \in Job
  BY <1>1, BlankIsRow DEF Job
<1>4. JobTrue(it, ran) /\ Beats(t, it)
  BY <1>1, BlankIsRow DEF JobTrue, Beats
<1>5. ran' = ran /\ batch' = batch /\ boards' = boards
  OBVIOUS
<1>6. WorkInv'
  BY <1>2, <1>3, <1>4, <1>5, OneThread, BatchStays DEF WorkInv
<1> QED
  BY <1>5, <1>6, DeskStays DEF FleetInv

LEMMA PollStep ==
  ASSUME FleetInv, NEW d \in Devices, Fleet!Poll(d)
  PROVE  FleetInv' /\ DOMAIN boards' \subseteq DOMAIN boards
<1>1. /\ Fleet!Command(Telemetry, "heartbeat", d, Factory)
      /\ UNCHANGED <<boards, recorded, board, ran, sent, batch>>
  BY DEF Fleet!Poll, Fleet!desk
<1>2. Factory \in Scenes \union Labels /\ Telemetry \in Hands
  BY DEF Labels, Hands
<1>3. FleetInv' /\ boards' = boards
  BY <1>1, <1>2, CommandKeeps
<1> QED
  BY <1>3

(* The page's own thread registers a board with a blank row, or removes it.*)
LEMMA RegisterStep ==
  ASSUME FleetInv, NEW d \in Devices, Fleet!Register(d)
  PROVE  /\ FleetInv'
         /\ \A e \in DOMAIN boards' : e \notin DOMAIN boards => boards'[e] = Fleet!Blank
<1>1. /\ boards' = [e \in DOMAIN boards \union {d} |->
                      IF e = d THEN Fleet!Blank ELSE boards[e]]
      /\ UNCHANGED <<recorded, board, ran, sent>>
      /\ thread' = thread /\ batch' = batch /\ ran' = ran
  BY DEF Fleet!Register, Fleet!Registered
<1>2. DeskInv
  BY DEF FleetInv
<1>3. DeskInv'
  <2>1. /\ DOMAIN boards' \subseteq Devices
        /\ boards' = [e \in DOMAIN boards' |-> boards'[e]]
        /\ \A e \in DOMAIN boards' :
             boards'[e] \in BoardRow /\ boards'[e].model \in ran[e] \union {""}
    BY <1>1, <1>2, BlankIsRow DEF DeskInv, RowsTrue
  <2> QED
    BY <1>1, <2>1, OnlyRows
<1>4. WorkInv'
  BY <1>1 DEF FleetInv, WorkInv, JobsTrue, AnswersTrue
<1> QED
  BY <1>1, <1>3, <1>4 DEF FleetInv

LEMMA UnregisterStep ==
  ASSUME FleetInv, NEW d \in Devices, Fleet!Unregister(d)
  PROVE  FleetInv' /\ DOMAIN boards' \subseteq DOMAIN boards
<1>1. /\ boards' = [e \in DOMAIN boards \ {d} |-> boards[e]]
      /\ UNCHANGED <<recorded, board, ran, sent>>
      /\ thread' = thread /\ batch' = batch /\ ran' = ran
  BY DEF Fleet!Unregister, Fleet!Registered
<1>2. DeskInv
  BY DEF FleetInv
<1>3. DeskInv'
  <2>1. /\ DOMAIN boards' \subseteq Devices
        /\ boards' = [e \in DOMAIN boards' |-> boards'[e]]
        /\ \A e \in DOMAIN boards' :
             boards'[e] \in BoardRow /\ boards'[e].model \in ran[e] \union {""}
    BY <1>1, <1>2 DEF DeskInv, RowsTrue
  <2> QED
    BY <1>1, <2>1, OnlyRows
<1>4. WorkInv'
  BY <1>1 DEF FleetInv, WorkInv, JobsTrue, AnswersTrue
<1> QED
  BY <1>1, <1>3, <1>4 DEF FleetInv

(* A batch gives each of its boards a push in a thread of its own.         *)
LEMMA DeployStep ==
  ASSUME FleetInv, NEW m \in Models, NEW D \in SUBSET Devices, Fleet!Deploy(m, D)
  PROVE  FleetInv' /\ boards' = boards
<1>1. /\ UNCHANGED <<boards, recorded, board, ran, sent>>
      /\ boards' = boards /\ ran' = ran
      /\ batch' = [model |-> m, answers |-> [d \in D |-> "pending"]]
  BY DEF Fleet!Deploy, Fleet!desk
<1>2. DeskInv'
  BY <1>1, DeskStays
<1>3. AnswersTrue'
  BY <1>1 DEF AnswersTrue
<1>4. PICK T : thread' = [t \in DOMAIN thread |->
                 IF \E d \in D : T[d] = t
                 THEN [step |-> "read", op |-> "push", device |-> CHOOSE d \in D : T[d] = t,
                       arg |-> m, row |-> Fleet!Blank, devices |-> {}]
                 ELSE thread[t]]
             /\ T \in [D -> {t \in Threads : thread[t] = Fleet!Idle}]
  BY DEF Fleet!Deploy
<1>5. thread \in [Hands -> {Fleet!Idle} \union Job] /\ DOMAIN thread = Hands
  BY DEF FleetInv, WorkInv
<1>6. Fleet!Idle' = Fleet!Idle
  BY DEF Fleet!Idle
<1>7. ASSUME NEW t \in Hands
      PROVE  /\ thread'[t] \in {Fleet!Idle} \union Job
             /\ thread'[t] # Fleet!Idle => JobTrue(thread'[t], ran) /\ Beats(t, thread'[t])
  <2>1. CASE \E d \in D : T[d] = t
    <3>1. PICK d \in D : d = CHOOSE e \in D : T[e] = t
      BY <2>1
    <3>2. PICK it : it = [step |-> "read", op |-> "push", device |-> d, arg |-> m,
                          row |-> Fleet!Blank, devices |-> {}]
      OBVIOUS
    <3>3. thread'[t] = it
      BY <1>4, <1>5, <2>1, <3>1, <3>2
    <3>4. t # Telemetry
      BY <1>4, <2>1, TablesAssumption DEF Fleet!FleetConstants
    <3>5. d \in Devices /\ m \in Labels
      BY DEF Labels
    <3>6. it \in Job
      BY <3>2, <3>5, BlankIsRow DEF Job
    <3>7. JobTrue(it, ran) /\ Beats(t, it)
      BY <3>2, <3>4, BlankIsRow DEF JobTrue, Beats
    <3> QED
      BY <3>3, <3>6, <3>7
  <2>2. CASE ~(\E d \in D : T[d] = t)
    <3>1. thread'[t] = thread[t]
      BY <1>4, <1>5, <2>2
    <3> QED
      BY <1>5, <3>1 DEF FleetInv, WorkInv, JobsTrue
  <2> QED
    BY <2>1, <2>2
<1>8. thread' \in [Hands -> {Fleet!Idle} \union Job]
  BY <1>4, <1>5, <1>7
<1>9. JobsTrue'
  BY <1>1, <1>6, <1>7 DEF JobsTrue
<1> QED
  BY <1>1, <1>2, <1>3, <1>8, <1>9 DEF FleetInv, WorkInv

LEMMA ReturnsStep ==
  ASSUME FleetInv, Fleet!Returns
  PROVE  FleetInv' /\ boards' = boards
<1>1. /\ UNCHANGED <<boards, recorded, board, ran, sent>>
      /\ boards' = boards /\ ran' = ran /\ thread' = thread
      /\ batch' = Fleet!NoBatch
  BY DEF Fleet!Returns, Fleet!desk
<1>2. DeskInv'
  BY <1>1, DeskStays
<1>3. AnswersTrue'
  BY <1>1 DEF AnswersTrue, Fleet!NoBatch
<1> QED
  BY <1>1, <1>2, <1>3 DEF FleetInv, WorkInv, JobsTrue

(* A step of the page: a row that appears is a blank one, and a command of *)
(* the user has made it.                                                   *)
LEMMA PageStep ==
  ASSUME FleetInv, Fleet!Page
  PROVE  FleetInv' /\ Fleet!AppearsBlank
<1>0. commands' = commands + 1
  BY DEF Fleet!Page
<1>1. CASE \E d \in Devices : Fleet!Register(d) \/ Fleet!Unregister(d)
  BY <1>0, <1>1, RegisterStep, UnregisterStep DEF Fleet!AppearsBlank, Fleet!Registered
<1>2. ASSUME NEW t \in Threads, NEW d \in Devices,
             \/ \E s \in Scenes : Fleet!Command(t, "switch", d, s)
             \/ \E m \in Models : Fleet!Command(t, "push", d, m)
             \/ \E op \in {"rollback", "restart", "refresh"} : Fleet!Command(t, op, d, Factory),
             UNCHANGED <<boards, recorded, board, ran, sent, batch>>
      PROVE  FleetInv' /\ boards' = boards
  <2>1. t \in Hands /\ t # Telemetry /\ Factory \in Labels /\ Models \subseteq Labels
    BY TablesAssumption DEF Hands, Labels, Fleet!FleetConstants
  <2>2. CASE \E s \in Scenes : Fleet!Command(t, "switch", d, s)
    BY <1>2, <2>1, <2>2, CommandKeeps
  <2>3. CASE \E m \in Models : Fleet!Command(t, "push", d, m)
    BY <1>2, <2>1, <2>3, CommandKeeps
  <2>4. CASE \E op \in {"rollback", "restart", "refresh"} : Fleet!Command(t, op, d, Factory)
    BY <1>2, <2>1, <2>4, CommandKeeps
  <2> QED
    BY <1>2, <2>2, <2>3, <2>4
<1>3. CASE \E m \in Models, D \in SUBSET Devices \ {{}} : Fleet!Deploy(m, D)
  BY <1>3, DeployStep DEF Fleet!AppearsBlank, Fleet!Registered
<1>4. CASE /\ \E t \in Threads, d \in Devices :
                \/ \E s \in Scenes : Fleet!Command(t, "switch", d, s)
                \/ \E m \in Models : Fleet!Command(t, "push", d, m)
                \/ \E op \in {"rollback", "restart", "refresh"} : Fleet!Command(t, op, d, Factory)
           /\ UNCHANGED <<boards, recorded, board, ran, sent, batch>>
  BY <1>2, <1>4 DEF Fleet!AppearsBlank, Fleet!Registered
<1> QED
  BY <1>1, <1>3, <1>4 DEF Fleet!Page, Fleet!desk

LEMMA WorkStep ==
  ASSUME FleetInv, NEW t \in Hands, Fleet!Work(t)
  PROVE  FleetInv' /\ DOMAIN boards' \subseteq DOMAIN boards
BY ReadStep, SendStep, PushStep, StatusStep, WriteStep, ListStep, RecordStep DEF Fleet!Work

LEMMA FleetStep ==
  ASSUME FleetInv, Fleet!Next
  PROVE  FleetInv' /\ Fleet!AppearsBlank
<1>1. DOMAIN thread = Hands
  BY DEF FleetInv, WorkInv
<1>2. CASE \E t \in DOMAIN thread : Fleet!Work(t)
  BY <1>1, <1>2, WorkStep DEF Fleet!AppearsBlank, Fleet!Registered
<1>3. CASE \E c \in sent : Fleet!Arrives(c)
  BY <1>3, ArrivesStep DEF Fleet!AppearsBlank, Fleet!Registered
<1>4. CASE \E d \in Devices : Fleet!Poll(d)
  BY <1>4, PollStep DEF Fleet!AppearsBlank, Fleet!Registered
<1>5. CASE Fleet!Returns
  BY <1>5, ReturnsStep DEF Fleet!AppearsBlank, Fleet!Registered
<1> QED
  BY <1>2, <1>3, <1>4, <1>5, PageStep DEF Fleet!Next

LEMMA FleetStutter ==
  ASSUME FleetInv, UNCHANGED fleet
  PROVE  FleetInv'
<1>1. /\ UNCHANGED <<boards, recorded, board, ran, sent>>
      /\ thread' = thread /\ batch' = batch /\ ran' = ran
  BY DEF fleet
<1> QED
  BY <1>1, DeskStays DEF FleetInv, WorkInv, JobsTrue, AnswersTrue

LEMMA FleetBegins == MCInit => FleetInv
<1> SUFFICES ASSUME MCInit PROVE FleetInv
  OBVIOUS
<1>1. Fleet!Init
  BY DEF MCInit
<1>2. DeskInv
  BY <1>1 DEF Fleet!Init, DeskInv, BoardsTrue, RowsTrue, ListsTrue, Labels
<1>3. WorkInv
  BY <1>1 DEF Fleet!Init, Fleet!NoBatch, WorkInv, JobsTrue, AnswersTrue, Hands
<1> QED
  BY <1>2, <1>3 DEF FleetInv

LEMMA FleetKept == FleetInv /\ [MCNext]_<<group, vars, fleet>> => FleetInv'
BY FleetStep, FleetStutter DEF MCNext

(* Whatever a row, a version's list or the answer of a batch says a board  *)
(* has, it has had: for any number of boards, models, scenes, threads and  *)
(* commands, in whatever order the reads, the answers and the writes of    *)
(* the commands, the heartbeats and the batches come.                      *)
THEOREM LabelsAlwaysTrue == MCSpec => []LabelsWereTrue
<1>1. FleetInv => LabelsWereTrue
  <2> SUFFICES ASSUME FleetInv PROVE LabelsWereTrue
    OBVIOUS
  <2>1. RowsTrue /\ ListsTrue /\ AnswersTrue
    BY DEF FleetInv, DeskInv, WorkInv
  <2>2. \A d \in Fleet!Registered : boards[d].model \in ran[d] \union {""}
    BY <2>1 DEF RowsTrue, Fleet!Registered
  <2>3. \A m \in Models : \A d \in recorded[m] : m \in ran[d]
    BY <2>1 DEF ListsTrue
  <2>4. Fleet!BatchAnswer = "success" => \A d \in DOMAIN batch.answers : batch.model \in ran[d]
    BY <2>1 DEF AnswersTrue, Fleet!BatchAnswer
  <2> QED
    BY <2>2, <2>3, <2>4 DEF LabelsWereTrue, Fleet!LabelsWereTrue
<1> QED
  BY <1>1, FleetBegins, FleetKept, PTL DEF MCSpec

(* A board that was removed stays removed: its row appears by a            *)
(* registration of the user and by nothing else, and then it is blank.     *)
THEOREM RemovedStaysRemoved == MCSpec => GoneStaysGone
<1>1. FleetInv /\ [MCNext]_<<group, vars, fleet>> => [Fleet!AppearsBlank]_fleet
  BY FleetStep DEF MCNext
<1> QED
  BY <1>1, FleetBegins, FleetKept, PTL DEF MCSpec, GoneStaysGone
=============================================================================
