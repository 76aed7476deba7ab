CONSTANTS
  Workers = {w1, w2}
  Kinds = {"cleaning", "generation", "evaluation", "training"}
  Target = 2
  StaleReads = {TRUE, FALSE}
  StartTwice = TRUE
  MayFail = TRUE
  MaxIds = 2
  MaxBirths = 2
  MaxCrashes = 1
SPECIFICATION MCSpec
CHECK_DEADLOCK FALSE
INVARIANTS CompletedIsWhole CancelIsClean
PROPERTIES ImplementsTaskStates StartedFinishesWhenQuiet
