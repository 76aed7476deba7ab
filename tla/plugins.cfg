CONSTANTS
  MaxSamples = 3
  MaxAlike = 3
  Target = 3
SPECIFICATION Spec
INVARIANTS
  OutputsAreTheirOwn
  CancelIsSeen
  WholeWhenHealthy
  KeptCopyStays
  ChoiceIsUsed
CHECK_DEADLOCK FALSE
