CONSTANTS
  Defaults <- MCDefaults
  Legacy = "legacy"
  Target <- MCTarget
  OwnKeys = {"own"}
  Categories <- MCCategories
  MaxId = 5
  MaxWrites = 7
SPECIFICATION Spec
INVARIANTS
  LegacyIsMerged
CHECK_DEADLOCK FALSE
