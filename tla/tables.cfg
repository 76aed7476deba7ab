CONSTANTS
  Defaults <- MCDefaults
  Legacy = "legacy"
  Target <- MCTarget
  OwnKeys = {"own"}
  Categories <- MCCategories
  MaxId = 5
  MaxWrites = 7
  Devices = {d1, d2}
  Scenes = {face}
  Models = {v1}
  Factory = factory
  Threads = {w1, w2}
  Telemetry = poll
  MaxCommands = 4
SYMMETRY Symmetry
SPECIFICATION MCSpec
INVARIANTS BindingsPoint OwnParameters LabelsWereTrue
PROPERTIES EditsSurviveStarts StartPlantsAll GoneStaysGone
CHECK_DEADLOCK FALSE
