CONSTANTS
  Defaults <- MCDefaults
  Legacy = "legacy"
  Target <- MCTarget
  OwnKeys = {"own"}
  Categories <- MCCategories
  MaxId = 5
  MaxWrites = 7
  Devices = {d1, d2}
  Scenes = {face}
  Models = {v1}
  Factory = factory
  Threads = {w1}
  Telemetry = poll
  MaxCommands = 4
SPECIFICATION BoardsSpec
INVARIANTS DeploymentsAreRecorded
CHECK_DEADLOCK FALSE
