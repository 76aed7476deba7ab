SPECIFICATION MCSpec
CONSTANTS
  c1 = c1
  c2 = c2
  f = f
  v1 = v1
  v2 = v2
  Clients = {c1, c2}
  AppClient = c1
  Packages = {f, v1, v2}
  Factory = f
  Odd = {v2}
  Circumstances <- MCCircumstances
  MaxInstalls = 2
  MaxRollbacks = 2
  MaxCrashes = 2
INVARIANTS InstalledIsTold
PROPERTIES AnswersAreTrue RequestsAnsweredWithoutFaults
CHECK_DEADLOCK FALSE
