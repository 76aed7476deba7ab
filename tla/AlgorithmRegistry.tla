--------------------------- MODULE AlgorithmRegistry ----------------------------
(***************************************************************************)
(* The table of algorithms of the training tool (AlgorithmService,         *)
(* AlgorithmRepository), its parameters and the bindings of a training     *)
(* algorithm to the evaluation algorithm of its models: what every start   *)
(* of the tool does to them (BackendBridge.seed_default_algorithms) and    *)
(* what the user does afterwards.                                          *)
(*                                                                         *)
(* One thread does all of it; the process may die between two commits.     *)
(* SQLite enforces no foreign key here and gives a new row the number      *)
(* after the highest one there is.                                         *)
(***************************************************************************)
EXTENDS Integers, Sequences

CONSTANTS
  Defaults,    \* DEFAULT_ALGORITHMS: a sequence of [key, category]
  Legacy,      \* the key an older version gave its resolution cleaner
  Target,      \* the default algorithm that replaces it
  OwnKeys,     \* keys of the user's own algorithms
  Categories,
  MaxId, MaxWrites  \* bounds: row numbers, writes of the user

ASSUME RegistryAssumption ==
  /\ MaxId \in Nat /\ MaxWrites \in Nat
  /\ Len(Defaults) \in Nat /\ DOMAIN Defaults = 1 .. Len(Defaults)

VARIABLES
  rows,        \* id -> algorithm
  parameters,  \* [algorithm, write]: an AlgorithmParameter row and the write it came with
  bindings,    \* id of a training algorithm -> id of an evaluation algorithm
  pc,          \* "down", the steps of a start, "up", "broken"
  next,        \* the default algorithm the start is at
  existing,    \* the keys the start has read
  writes

tables == <<rows, parameters, bindings>>
vars == <<tables, pc, next, existing, writes>>

Default(i) == Defaults[i]
DefaultKeys == {Defaults[i].key : i \in DOMAIN Defaults}
AllKeys == DefaultKeys \union OwnKeys \union {Legacy}
AllCategories == {Defaults[i].category : i \in DOMAIN Defaults} \union Categories
Row ==
  [key : AllKeys, category : AllCategories, enabled : BOOLEAN, rules : BOOLEAN, write : Nat]
Keys == {rows[id].key : id \in DOMAIN rows}
ByKey(key) == CHOOSE id \in DOMAIN rows : rows[id].key = key
IsNext(id) == (\A other \in DOMAIN rows : other < id) /\ (id = 1 \/ id - 1 \in DOMAIN rows)
Without(f, S) == [x \in DOMAIN f \ S |-> f[x]]
With(f, x, v) == [y \in DOMAIN f \union {x} |-> IF y = x THEN v ELSE f[y]]

Init ==
  /\ rows = [id \in {} |-> {}] /\ parameters = {} /\ bindings = [id \in {} |-> 0]
  /\ pc = "down" /\ next = 1 /\ existing = {} /\ writes = 0

-----------------------------------------------------------------------------
(* The operations of the service, each one transaction.  A write that has  *)
(* parameters numbers them and the row they are of; rules says whether the *)
(* validation rules name a scenario.                                       *)

(* Mutant of ReplaceParameters: what an earlier row left stays.            *)
ReplaceParametersAdds(id, write) ==
  parameters' = parameters \union {[algorithm |-> id, write |-> write]}
ReplaceParameters(id, write) ==
  parameters' = {p \in parameters : p.algorithm # id} \union {[algorithm |-> id, write |-> write]}

CreateAlgorithm(key, category, rules) ==
  /\ key \notin Keys
  /\ \E id \in 1 .. MaxId :
       /\ IsNext(id)
       /\ rows' = With(rows, id, [key |-> key, category |-> category, enabled |-> TRUE,
                                  rules |-> rules, write |-> writes + 1])
       /\ ReplaceParameters(id, writes + 1)
  /\ writes' = writes + 1
  /\ UNCHANGED bindings

(* Neither the fields nor what is bound to the algorithm is looked at; the *)
(* parameters are replaced if the form has any.                            *)
UpdateAlgorithm(id, category) ==
  /\ \/ /\ rows' = [rows EXCEPT ![id].category = category, ![id].write = writes + 1]
        /\ ReplaceParameters(id, writes + 1)
     \/ /\ rows' = [rows EXCEPT ![id].category = category]
        /\ UNCHANGED parameters
  /\ writes' = writes + 1
  /\ UNCHANGED bindings

SetEnabled(id, enabled) ==
  /\ rows' = [rows EXCEPT ![id].enabled = enabled]
  /\ UNCHANGED <<parameters, bindings>> /\ writes' = writes + 1

(* Mutant of DeleteAlgorithm: only the bindings of its own side go.        *)
DeleteAlgorithmOneSide(id) ==
  /\ rows' = Without(rows, {id})
  /\ bindings' = Without(bindings, {id})
  /\ UNCHANGED parameters /\ writes' = writes + 1
DeleteAlgorithm(id) ==
  /\ rows' = Without(rows, {id})
  /\ bindings' = Without(bindings, {t \in DOMAIN bindings : id \in {t, bindings[t]}})
  /\ UNCHANGED parameters /\ writes' = writes + 1

SetBinding(training, evaluation) ==
  /\ rows[training].category = "training" /\ rows[evaluation].category = "evaluation"
  /\ bindings' = With(bindings, training, evaluation)
  /\ UNCHANGED <<rows, parameters>> /\ writes' = writes + 1

DeleteBinding(training) ==
  /\ bindings' = Without(bindings, {training})
  /\ UNCHANGED <<rows, parameters>> /\ writes' = writes + 1

-----------------------------------------------------------------------------
(* A start of the tool.                                                    *)
Goto(step) == pc' = step /\ UNCHANGED <<next, existing>>

Start ==
  /\ pc = "down"
  /\ pc' = "seeding" /\ next' = 1 /\ existing' = Keys
  /\ UNCHANGED <<tables, writes>>

(* An algorithm that is there keeps what the user made of it; one that is  *)
(* not is created, in a transaction of its own.                            *)

(* Mutants of Seed: the default is written over the user's changes; only   *)
(* an empty table is planted.                                              *)
SeedOver ==
  /\ pc = "seeding" /\ next <= Len(Defaults)
  /\ IF Default(next).key \in existing
     THEN UpdateAlgorithm(ByKey(Default(next).key), Default(next).category)
     ELSE CreateAlgorithm(Default(next).key, Default(next).category,
                           Default(next).category = "training")
  /\ next' = next + 1 /\ UNCHANGED <<pc, existing>>
SeedEmptyOnly ==
  /\ pc = "seeding" /\ next <= Len(Defaults)
  /\ IF existing # {} THEN UNCHANGED <<tables, writes>>
     ELSE CreateAlgorithm(Default(next).key, Default(next).category,
                           Default(next).category = "training")
  /\ next' = next + 1 /\ UNCHANGED <<pc, existing>>
Seed ==
  /\ pc = "seeding" /\ next <= Len(Defaults)
  /\ IF Default(next).key \in existing THEN UNCHANGED <<tables, writes>>
     ELSE CreateAlgorithm(Default(next).key, Default(next).category,
                           Default(next).category = "training")
  /\ next' = next + 1 /\ UNCHANGED <<pc, existing>>

Seeded == pc = "seeding" /\ next > Len(Defaults) /\ Goto("repairing") /\ UNCHANGED <<tables, writes>>

(* Training algorithms of the seed get their scenario back.                *)
RepairRules ==
  /\ pc = "repairing" /\ Goto("merging")
  /\ rows' = [id \in DOMAIN rows |->
                IF \E i \in DOMAIN Defaults : Default(i).key = rows[id].key
                                              /\ Default(i).category = "training"
                THEN [rows[id] EXCEPT !.rules = TRUE] ELSE rows[id]]
  /\ UNCHANGED <<parameters, bindings, writes>>

(* Merging the older version's cleaner into the default ends in a name     *)
(* that is not defined (DEFAULT_BINDINGS): the transaction is rolled back  *)
(* and the tool does not start.  Without it nothing happens: the default   *)
(* bindings, planted by the same function, never are.                      *)
Merge ==
  /\ pc = "merging"
  /\ Goto(IF {Legacy, Target} \subseteq Keys THEN "broken" ELSE "up")
  /\ UNCHANGED <<tables, writes>>

(* The process ends: between two commits, after a failed start, or as the  *)
(* user wants.                                                             *)
Die == pc # "down" /\ Goto("down") /\ UNCHANGED <<tables, writes>>

(* What the user's pages call.                                             *)
Operate ==
  /\ pc = "up" /\ writes < MaxWrites
  /\ \/ \E key \in AllKeys, category \in Categories :
          CreateAlgorithm(key, category, FALSE)
     \/ \E id \in DOMAIN rows, category \in Categories : UpdateAlgorithm(id, category)
     \/ \E id \in DOMAIN rows : SetEnabled(id, ~rows[id].enabled)
     \/ \E id \in DOMAIN rows : DeleteAlgorithm(id)
     \/ \E t, e \in DOMAIN rows : SetBinding(t, e)
     \/ \E t \in DOMAIN bindings : DeleteBinding(t)
  /\ UNCHANGED <<pc, next, existing>>

Next == Start \/ Seed \/ Seeded \/ RepairRules \/ Merge \/ Die \/ Operate

Spec == Init /\ [][Next]_vars
-----------------------------------------------------------------------------
TypeOK ==
  /\ rows \in [DOMAIN rows -> Row] /\ DOMAIN rows \subseteq 1 .. MaxId
  /\ parameters \subseteq [algorithm : Nat, write : Nat]
  /\ bindings \in [DOMAIN bindings -> Nat]
  /\ pc \in {"down", "seeding", "repairing", "merging", "up", "broken"}
  /\ next \in 1 .. Len(Defaults) + 1
  /\ existing \subseteq AllKeys
  /\ writes \in Nat

(* get_bindings and _serialize_algorithm look both sides of a binding up   *)
(* by number: they are rows that are there, a training side once.          *)
BindingsPoint ==
  \A t \in DOMAIN bindings : {t, bindings[t]} \subseteq DOMAIN rows

(* An algorithm has exactly the parameters last written for it, although a *)
(* deletion leaves its parameter rows behind and its number may be given   *)
(* again.                                                                  *)
OwnParameters ==
  \A id \in DOMAIN rows :
    /\ \E p \in parameters : p.algorithm = id
    /\ \A p \in parameters : p.algorithm = id => p.write = rows[id].write

(* A start adds algorithms and repairs rules: what the user made of a      *)
(* default algorithm, or bound, is as it was.                              *)
SameButRules(r, s) ==
  r.key = s.key /\ r.category = s.category /\ r.enabled = s.enabled /\ r.write = s.write
EditsSurviveStarts ==
  [][pc # "up" =>
       /\ bindings' = bindings
       /\ \A id \in DOMAIN rows : id \in DOMAIN rows' /\ SameButRules(rows'[id], rows[id])]_vars

(* A start that gets through has every default algorithm, once, whatever   *)
(* the starts before it were cut off at and the user deleted.              *)
OnceThere(key) ==
  \E id \in DOMAIN rows : \A other \in DOMAIN rows : rows[other].key = key <=> other = id
StartPlantsAll ==
  [][pc = "merging" /\ pc' = "up" => \A i \in DOMAIN Defaults : OnceThere(Default(i).key)]_vars

(* test_seed_default_algorithms_merges_legacy_resolution_cleaner: a start  *)
(* that finds the older version's cleaner gets through.                    *)
LegacyIsMerged == pc # "broken"
=============================================================================
