------------------------------ MODULE ImportPlan ------------------------------
(***************************************************************************)
(* What an import makes of the files it finds before it copies any: the    *)
(* pure functions of DatasetService and sample_ordering.py.                *)
(*                                                                         *)
(* A record is [path, class, id, split]: path the resolved source file, a  *)
(* number (the order of the numbers is the order of the paths), class its  *)
(* class name, a number, id the class id.                                  *)
(***************************************************************************)
EXTENDS Integers, Sequences, FiniteSets, FiniteSetsExt, SequencesExt

Record(path, class, split) == [path |-> path, class |-> class, id |-> class, split |-> split]

(* Python's round(n * 0.2) for the n of a list: a fifth, rounded to the    *)
(* nearest integer; n * 0.2 is never halfway between two.                  *)
Fifth(n) == (2 * n + 5) \div 10

(* _apply_stable_split: sorted by class and path, the last fifth (at least *)
(* one) is for the test, at least one for the training; a single record is *)
(* left as it is.                                                          *)
ByClassAndPath(r, q) == r.class < q.class \/ (r.class = q.class /\ r.path <= q.path)
(* Mutant of TrainCount: a fifth is rounded down and may be nothing.       *)
TrainCountDown(n) == n - (n \div 5)
TrainCount(n) == Max({1, n - Max({1, Fifth(n)})})

StableSplit(records) ==
  IF Len(records) <= 1 THEN records
  ELSE LET ordered == SortSeq(records, ByClassAndPath)
       IN  [i \in 1 .. Len(ordered) |->
              [ordered[i] EXCEPT !.split =
                 IF i <= TrainCount(Len(ordered)) THEN "train" ELSE "test"]]

(* Mutant of Deduplicate: the first record of a file wins.                 *)
DeduplicateFirst(records) ==
  LET Merge(kept, r) ==
        IF \E i \in 1 .. Len(kept) : kept[i].path = r.path THEN kept ELSE Append(kept, r)
  IN  FoldLeft(Merge, <<>>, records)
(* _deduplicate_records: one record per file, at the place where the file  *)
(* came first; a record of the test set takes the place of the earlier.    *)
Deduplicate(records) ==
  LET Merge(kept, r) ==
        LET at == {i \in 1 .. Len(kept) : kept[i].path = r.path}
        IN  CASE at = {} -> Append(kept, r)
              [] at # {} /\ r.split = "test" -> [kept EXCEPT ![Min(at)] = r]
              [] OTHER -> kept
  IN  FoldLeft(Merge, <<>>, records)

(* _resolve_labeled_sample_path: an absolute path as it is, else the first *)
(* of the four places where there is such a file; 0 if there is none.      *)
Resolve(absolute, path, places) ==
  LET found == {i \in 1 .. Len(places) : places[i] # 0}
  IN  CASE absolute -> path
        [] ~absolute /\ found # {} -> places[Min(found)]
        [] OTHER -> 0

(* _parse_path_label_file: lines that are blank, comments, without a label,*)
(* with a label that is no number or a file that is no image are dropped.  *)
(* A line is [ok, absolute, path, places, class].                          *)
ParseLabels(lines, split) ==
  LET Take(acc, l) ==
        LET file == Resolve(l.absolute, l.path, l.places)
        IN  IF l.ok /\ file # 0 THEN Append(acc, Record(file, l.class, split)) ELSE acc
  IN  FoldLeft(Take, <<>>, lines)

(* _infer_folder_tree_records: the files of a folder by their path, list   *)
(* files left out; a training folder is split at once.                     *)
FolderTree(files, split) ==
  LET kept == SelectSeq(files, LAMBDA f : ~f.ignored)
      records == [i \in 1 .. Len(kept) |-> Record(kept[i].path, kept[i].class, split)]
  IN  IF split = "train" THEN StableSplit(records) ELSE records

(* _infer_folder_classification_records: the class id is the place of the  *)
(* class among the classes of this folder.                                 *)
FolderClasses(files, split) ==
  LET classes == {files[i].class : i \in 1 .. Len(files)}
      id(c) == Cardinality({d \in classes : d < c})
  IN  [i \in 1 .. Len(files) |->
         [path |-> files[i].path, class |-> files[i].class, id |-> id(files[i].class), split |-> split]]

(* _discover_sonar_oltr_specs: the training list and, if there is one, the *)
(* test list of a folder; without one the training list is split.          *)
SonarSpec(train, test) ==
  IF test = <<>> THEN StableSplit(ParseLabels(train, "train"))
  ELSE ParseLabels(train, "train") \o ParseLabels(test, "test")

(* _build_manual_import_spec of a training folder and a test folder: each  *)
(* numbers its classes by itself.                                          *)
ManualSpec(train, test) ==
  IF test = <<>> THEN StableSplit(FolderClasses(train, "train"))
  ELSE FolderClasses(train, "train") \o FolderClasses(test, "test")

(* _create_labeled_image_dataset: the records once, and the name of each   *)
(* class id, the last one in the order of the names.                       *)
LabelledDataset(spec) ==
  LET records == Deduplicate(spec)
      ids == {records[i].id : i \in 1 .. Len(records)}
  IN  [records |-> records,
       names |-> [c \in ids |-> Max({r.class : r \in {q \in ToSet(records) : q.id = c}})]]

(* import_sonar_oltr_project: folders without records are passed over and  *)
(* noted; the function returns inside its loop, after the first folder     *)
(* that has records, and returns nothing (None) when none has.             *)
SonarImport(specs) ==
  LET full == {i \in 1 .. Len(specs) : specs[i] # <<>>}
  IN  IF full = {} THEN <<>> ELSE <<LabelledDataset(specs[Min(full)])>>

(* _import_from_manifest: entries whose file is there, by their split; a   *)
(* manifest of test entries alone makes a training set.                    *)
ManifestSplit(entries) ==
  LET train == SelectSeq(entries, LAMBDA r : r.split # "test")
      test == SelectSeq(entries, LAMBDA r : r.split = "test")
  IN  IF train = <<>> THEN [train |-> test, test |-> <<>>]
                      ELSE [train |-> train, test |-> test]

(* _collect_yolo_detection_records: images of the split folders, a         *)
(* relative path once; nothing if no image has a label file.  An image is  *)
(* [path, class, split, label].                                            *)
YoloRecords(images) ==
  LET Once(acc, im) == IF \E i \in 1 .. Len(acc) : acc[i].path = im.path THEN acc ELSE Append(acc, im)
  IN  IF \E i \in 1 .. Len(images) : images[i].label THEN FoldLeft(Once, <<>>, images) ELSE <<>>

(* _collect_import_records: the first form that fits.                      *)
CollectRecords(isFile, labels, list, yolo, tree, split) ==
  CASE isFile -> <<Record(1, 1, split)>>
    [] ~isFile /\ labels # <<>> -> ParseLabels(labels, split)
    [] ~isFile /\ labels = <<>> /\ list # <<>> -> ParseLabels(list, split)
    [] ~isFile /\ labels = <<>> /\ list = <<>> /\ YoloRecords(yolo) # <<>> -> YoloRecords(yolo)
    [] OTHER -> FolderTree(tree, split)

(* interleave_by_top_folder: round robin over the top folders, in the      *)
(* order in which they come first.                                         *)
InterleaveByTopFolder(samples) ==
  LET tops == FoldLeft(LAMBDA acc, s : IF Contains(acc, s.class) THEN acc ELSE Append(acc, s.class),
                       <<>>, samples)
      group(g) == SelectSeq(samples, LAMBDA s : s.class = tops[g])
      Round(k) == FoldLeft(LAMBDA acc, g : IF k <= Len(group(g)) THEN Append(acc, group(g)[k]) ELSE acc,
                           <<>>, [g \in 1 .. Len(tops) |-> g])
  IN  FlattenSeq([k \in 1 .. Len(samples) |-> Round(k)])

-----------------------------------------------------------------------------
(* Reference definitions.                                                  *)
Split(records, s) == {i \in 1 .. Len(records) : records[i].split = s}

(* Both halves of a split of n records are there, and no other test half   *)
(* is nearer to a fifth.                                                   *)
FairCount(n) ==
  LET t == n - TrainCount(n)
  IN  /\ t \in 1 .. n - 1
      /\ \A other \in 1 .. n - 1 : (5 * t - n) * (5 * t - n) <= (5 * other - n) * (5 * other - n)

(* A split list has the fair number of test records and all its records.   *)
SplitIsFair(records) ==
  LET out == StableSplit(records)
      n == Len(records)
  IN  n > 1 =>
        /\ Cardinality(Split(out, "test")) = n - TrainCount(n)
        /\ \A p \in {records[i].path : i \in 1 .. n} :
             Cardinality({i \in 1 .. n : records[i].path = p})
               = Cardinality({i \in 1 .. Len(out) : out[i].path = p})

(* A file is imported once, and for the test if any list says so: it never *)
(* is in both halves.                                                      *)
TestFilesStayOut(records) ==
  LET out == Deduplicate(records)
      paths == {records[i].path : i \in 1 .. Len(records)}
  IN  /\ Len(out) = Cardinality(paths)
      /\ \A i \in 1 .. Len(records) : records[i].split = "test" =>
           \E j \in 1 .. Len(out) : out[j].path = records[i].path /\ out[j].split = "test"

(* Interleaving loses nothing, and of every prefix no folder that still    *)
(* has samples is more than one sample behind another.                     *)
InterleaveIsEven(samples) ==
  LET out == InterleaveByTopFolder(samples)
      tops == {samples[i].class : i \in 1 .. Len(samples)}
      taken(g, n) == Cardinality({i \in 1 .. n : out[i].class = g})
      all(g) == Cardinality({i \in 1 .. Len(samples) : samples[i].class = g})
  IN  /\ Len(out) = Len(samples)
      /\ \A n \in 1 .. Len(out), g, h \in tops :
           taken(g, n) < all(g) => taken(h, n) <= taken(g, n) + 1

(* If the training and the test folder have the same classes, a class id   *)
(* has one name in the dataset and every record bears it.                  *)
ClassIdsAgree(records) ==
  LET Half(s) == SelectSeq(records, LAMBDA r : r.split = s)
      Classes(h) == {h[i].class : i \in 1 .. Len(h)}
      spec == ManualSpec(Half("train"), Half("test"))
      out == LabelledDataset(spec)
  IN  Classes(Half("train")) = Classes(Half("test")) =>
        \A i \in 1 .. Len(out.records) : out.names[out.records[i].id] = out.records[i].class

(* A manifest's files are all imported, each in one half, and there is a   *)
(* training set if there is anything.                                      *)
HalvesAreWhole(records) ==
  LET out == ManifestSplit(records)
  IN  /\ Len(out.train) + Len(out.test) = Len(records)
      /\ ToSet(out.train) \union ToSet(out.test) = ToSet(records)
      /\ records # <<>> => out.train # <<>>
=============================================================================
