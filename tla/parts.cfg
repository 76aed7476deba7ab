SPECIFICATION Spec
CONSTANTS
  NumBuffers = 4
  Capacity = 2
  Burst = 3
  Commands = {"start", "stop", "restart", "reload", "rpc"}
  MaxRequests = 5
  MaxFaults = 4
  MAX_PENDING = 2
  BrokerUp = TRUE
  MayRefuse = TRUE
  LoopMayEnd = TRUE
  MaxMessages = 5
  MaxOutages = 3
  Clients = {c1, c2, c3}
  Timers = {t1, t2}
  Nothing = Nothing
  MaxCalls = 2
  MaxFlaps = 1
  MaxFired = 1
INVARIANTS BuffersKept StopIsFinal ReportsKept StopIsQuiet
PROPERTIES FaultComesBack FlushHandsOver Recovers
CHECK_DEADLOCK FALSE
