CONSTANTS
  Names = {"a", "b"}
  Files = {"f"}
  MaxDatasets = 2
  MaxSamples = 3
  MaxNotes = 2
  MaxOps = 4
  MaxRuns = 1
  MaxFaults = 1
  MaxPlan = 3
  MaxSplit = 25
SPECIFICATION MCSpec
INVARIANTS FilesFollowRows CountIsLiveOrOneMore PlansAreSound
PROPERTY SuggestionsSettle
CHECK_DEADLOCK FALSE
