-------------------------- MODULE MCAlgorithmRegistry ---------------------------
(***************************************************************************)
(* AlgorithmRegistry with a training, an evaluation and a cleaning         *)
(* algorithm of the catalogue.                                             *)
(***************************************************************************)
EXTENDS AlgorithmRegistry

Catalogue == INSTANCE AlgorithmCatalogue

MCDefaults ==
  <<Catalogue!CleaningImageResolutionFilter, Catalogue!TrainingImageYolov5Detector,
    Catalogue!EvaluationImageYolov5Evaluator>>
MCTarget == Catalogue!CleaningImageResolutionFilter.key
MCCategories == {"training", "evaluation"}
=============================================================================
