------------------------------- MODULE PluginRun --------------------------------
(***************************************************************************)
(* One run of a cleaning or generation plugin: the samples it was given,   *)
(* the files it writes and the results it hands to its task, while the     *)
(* user may cancel the task and the samples' files may go away.            *)
(*                                                                         *)
(* A task gives the plugin at least one sample, all of them files when the *)
(* task read them, and a target of at least one.  Progress reports and log *)
(* lines are left out.                                                     *)
(***************************************************************************)
EXTENDS PluginReactions, FiniteSets

VARIABLES
  given,    \* the plugin, the target, the parameter chosen and the machine
  samples,  \* the state, the bare name, the content of each sample, and
            \* whether it is labelled
  pc, item,
  kept,     \* the samples the loop goes over
  learned,  \* TRUE in the loop that follows learning
  results,  \* what will be handed to the task
  disk,     \* the item whose output each file holds
  cancel,   \* the results there were when the user asked for an end
  answer    \* "" until the run returns or raises

progress == <<item, kept, learned, results, disk>>
vars == <<given, samples, pc, progress, cancel, answer>>

plugin == given.plugin
Has(step) == \E i \in DOMAIN plugin.opening : plugin.opening[i] = step
Cleaning == plugin.category = "cleaning"
Compares == Has("sha") \/ Has("look")

(* A bare machine has no optional library; on a worn one the device, the   *)
(* encoder or the disk may refuse.                                         *)
Machines == {"sound", "bare", "worn"}

(* The value of a parameter: what the form sent, of the type it says, or   *)
(* the plugin's default.                                                   *)
Chosen(name) == given.choice[1] = name
Value(name) ==
  IF Chosen(name) THEN Used(plugin.reads[name], given.choice[3], given.choice[2])
                  ELSE plugin.reads[name].default
Off(name) == name \in DOMAIN plugin.reads /\ Chosen(name) /\ given.choice[2] = FALSE

Never == -1
Asked == cancel # Never

Init ==
  /\ pc = "opening" /\ item = 1 /\ kept = <<>> /\ learned = FALSE
  /\ results = <<>> /\ disk = [f \in {} |-> 0] /\ cancel = Never /\ answer = ""

End(a) == pc' = "done" /\ answer' = a /\ UNCHANGED progress
Goto(step) == pc' = step /\ UNCHANGED answer

All == [i \in DOMAIN samples |-> i]
Readable == {s \in DOMAIN samples : samples[s].state \in {"good", "plain"}}

(* Some of the samples, in their order, and the images among them.         *)
InOrder(S) ==
  CHOOSE list \in [1 .. Cardinality(S) -> S] :
    \A i, j \in DOMAIN list : i < j => list[i] < list[j]
ImageSet == {s \in DOMAIN samples : samples[s].state # "other"}
Images == InOrder(ImageSet)

(* Everything before the first item: what must be installed, what must be  *)
(* there, and whether the samples are loaded first.                        *)
Refusal ==
  IF Has("library") /\ given.machine = "bare" THEN "MISSING_DEPENDENCY"
  ELSE IF Has("images") /\ Images = <<>> THEN "NO_INPUT_SAMPLES"
  ELSE IF Has("patches") /\ 64 % Value("patch_size") # 0 THEN "INVALID_PATCH_SIZE"
  ELSE IF Has("switch") /\ Off("do_shuffle") THEN "ok"
  ELSE ""
Loads == Has("load") \/ (Has("learn") /\ given.machine # "bare")

Open ==
  /\ pc = "opening"
  /\ \/ Refusal # "" /\ End(Refusal)
     \/ Has("device") /\ given.machine = "worn" /\ End("UNSUPPORTED_DEVICE")
     \/ /\ Refusal = ""
        /\ Goto(IF Loads THEN "loading" ELSE "polling")
        /\ kept' = IF Has("load") THEN <<>> ELSE IF Has("images") THEN Images ELSE All
        /\ UNCHANGED <<item, learned, results, disk>>

(* Loading to compare: polled at each sample; what cannot be read is left  *)
(* out.                                                                    *)
Load ==
  /\ pc = "loading" /\ Has("load")
  /\ \/ Asked /\ End("CANCELLED")
     \/ /\ ~Asked /\ item <= Len(samples)
        /\ kept' = IF item \in Readable THEN Append(kept, item) ELSE kept
        /\ item' = item + 1
        /\ Goto("loading") /\ UNCHANGED <<learned, results, disk>>
     \/ /\ ~Asked /\ item > Len(samples)
        /\ item' = 1
        /\ Goto("polling") /\ UNCHANGED <<kept, learned, results, disk>>

(* Loading to learn: nothing is polled, a file that is gone or empty ends  *)
(* it, and fewer than two images leave the plain loop.                     *)
Loaded == {kept[i] : i \in DOMAIN kept}
LoadAll ==
  /\ pc = "loading" /\ Has("learn")
  /\ \/ (\E s \in Loaded : samples[s].state \in {"missing", "empty"}) /\ End("raised")
     \/ /\ \A s \in Loaded : samples[s].state \notin {"missing", "empty"}
        /\ Goto(IF Cardinality(Loaded \intersect Readable) < 2 THEN "polling" ELSE "learning")
        /\ UNCHANGED progress

(* Having learned, some go round the labelled samples only.                *)
Labelled == {s \in Loaded : samples[s].labelled}
AfterLearning ==
  IF Has("labelled") /\ Labelled # {} THEN InOrder(Labelled) ELSE kept
Learn ==
  /\ pc = "learning"
  /\ \/ Asked /\ End("CANCELLED")
     \/ /\ ~Asked /\ Goto("polling")
        /\ learned' = TRUE /\ kept' = AfterLearning
        /\ UNCHANGED <<item, results, disk>>

(* The top of the loop: a cleaning run has an item for each sample it      *)
(* kept, a generation run one for each output asked of it.                 *)
Items == IF Cleaning THEN Len(kept) ELSE given.target

(* Mutants of Poll: it does not ask; it stops one item early.              *)
PollDeaf ==
  /\ pc = "polling"
  /\ \/ item > Items /\ End("ok")
     \/ item <= Items /\ Goto("working") /\ UNCHANGED progress
PollShort ==
  /\ pc = "polling"
  /\ \/ item >= Items /\ End("ok")
     \/ item < Items /\ Asked /\ End("CANCELLED")
     \/ item < Items /\ ~Asked /\ Goto("working") /\ UNCHANGED progress
Poll ==
  /\ pc = "polling"
  /\ \/ item > Items /\ End("ok")
     \/ item <= Items /\ Asked /\ End("CANCELLED")
     \/ item <= Items /\ ~Asked /\ Goto("working") /\ UNCHANGED progress

(* The sample of an item and the name of the file made from it.            *)
Source(i) == kept[((i - 1) % Len(kept)) + 1]
(* Mutant of FileOf: the file is named after the sample alone.             *)
FileOfSample(i, s) == s
FileOf(i, s) == IF Cleaning THEN samples[s].name ELSE i

(* A plugin that compares keeps the first of what looks the same, and      *)
(* compares with those it kept only.                                       *)
Alike(a, b) ==
  IF Has("sha") THEN samples[a].content = samples[b].content
                ELSE samples[a].content - samples[b].content \in -1 .. 1
Suggested == {results[i].of : i \in DOMAIN results}
(* Mutant of Firsts: compares with what it suggested to delete as well.    *)
FirstsAll(i) == {kept[j] : j \in 1 .. i - 1}
Firsts(i) == {kept[j] : j \in 1 .. i - 1} \ Suggested
Twin(i) == {t \in Firsts(i) : Alike(Source(i), t)}

Reaction(s) ==
  IF Compares THEN IF Twin(item) = {} THEN "skip" ELSE "make"
  ELSE IF given.machine = "bare" /\ plugin.deaf # "make" THEN plugin.deaf
  ELSE IF Off("do_shuffle") /\ plugin.off # "make" THEN plugin.off
  ELSE IF learned /\ Has("blind") THEN "make"
  ELSE IF learned /\ samples[s].state = "broken" THEN plugin.learned
  ELSE plugin[samples[s].state]

(* A repair that is not applied is suggested and not written.              *)
Writes == ~Cleaning \/ (plugin.action = "repair" /\ ~Off("apply"))

(* All that may come of it.                                                *)
Ways(s) ==
  LET meant == IF Reaction(s) = "either" THEN {"make", "skip"} ELSE {Reaction(s)}
  IN  meant \union IF "make" \in meant /\ Writes /\ given.machine = "worn"
                   THEN {plugin.refused, plugin.unwritten} ELSE {}

Result(s, file, action) ==
  [of |-> s, item |-> item, file |-> file, action |-> action,
   like |-> IF Compares THEN CHOOSE t \in Twin(item) : TRUE ELSE 0]

Continue(r, d) ==
  /\ pc' = "polling" /\ item' = item + 1
  /\ results' = r /\ disk' = d
  /\ UNCHANGED <<kept, learned, answer>>
Hand(s, file, action, d) == Continue(Append(results, Result(s, file, action)), d)
Written(f, i) == [g \in DOMAIN disk \union {f} |-> IF g = f THEN i ELSE disk[g]]

Work ==
  /\ pc = "working"
  /\ LET s == Source(item)
         f == FileOf(item, s)
     IN  \E way \in Ways(s) :
           \/ way = "make" /\ Writes /\ Hand(s, f, plugin.action, Written(f, item))
           \/ way = "make" /\ ~Writes /\ Hand(s, 0, plugin.action, disk)
           \/ way = "claim" /\ Hand(s, f, plugin.action, disk)
           \/ way = "review" /\ Hand(s, 0, "review", disk)
           \/ way = "skip" /\ Continue(results, disk)
           \/ way = "raise" /\ End("raised")
           \/ way \notin {"make", "claim", "review", "skip", "raise"} /\ End(way)

Step ==
  /\ Open \/ Load \/ LoadAll \/ Learn \/ Poll \/ Work
  /\ UNCHANGED <<given, samples, cancel>>

RequestCancel ==
  /\ pc # "done" /\ ~Asked /\ cancel' = Len(results)
  /\ UNCHANGED <<given, samples, pc, progress, answer>>

(* A dataset is deleted or a file moved while the run goes on.             *)
Vanish(s) ==
  /\ pc # "done" /\ samples[s].state # "missing"
  /\ samples' = [samples EXCEPT ![s].state = "missing"]
  /\ UNCHANGED <<given, pc, progress, cancel, answer>>

Next == Step \/ RequestCancel \/ \E s \in DOMAIN samples : Vanish(s)
-----------------------------------------------------------------------------
(* Every sample is still a good file, and nothing is wrong with the        *)
(* machine, switched off or chosen that does not fit.                      *)
Healthy ==
  /\ given.machine = "sound" /\ ~Off("do_shuffle")
  /\ Has("patches") => 64 % Value("patch_size") = 0
  /\ \A s \in DOMAIN samples : samples[s].state = "good"

(* Repairs and generated files go into one directory for the whole task:   *)
(* a repair is told apart by the bare name of its sample.                  *)
OwnNames ==
  Cleaning => \A s, t \in DOMAIN samples : samples[s].name = samples[t].name => s = t

(* A cancel request lets at most the item in work be finished: every loop  *)
(* of a plugin asks is_cancel_requested before its next item.              *)
CancelIsSeen == Asked => Len(results) <= cancel + 1

(* The samples outputs are due of: all of them, but only those with labels *)
(* if there are any and the plugin has learned from the samples first and  *)
(* wants them labelled.                                                    *)
Due ==
  LET labelled == {s \in DOMAIN samples : samples[s].labelled}
  IN  IF learned /\ Has("labelled") /\ labelled # {} THEN labelled ELSE DOMAIN samples

(* A run that nothing disturbs makes every output it was asked for, the    *)
(* target's items going round the samples they are due of, so that none of *)
(* these serves twice more than another, and no other sample serves.       *)
WholeWhenHealthy ==
  answer # "" /\ Healthy /\ ~Cleaning /\ ~Asked =>
    /\ answer = "ok" /\ Len(results) = given.target
    /\ \A i \in DOMAIN results : results[i].of \in Due
    /\ \A s, t \in Due :
         Cardinality({i \in DOMAIN results : results[i].of = s})
           - Cardinality({i \in DOMAIN results : results[i].of = t}) \in -1 .. 1

(* Deleting everything a run suggests to delete as the same as another     *)
(* sample keeps that other one: a chain of likenesses never takes the      *)
(* last of them.                                                           *)
KeptCopyStays ==
  Compares => \A i \in DOMAIN results : results[i].like \notin Suggested
=============================================================================
