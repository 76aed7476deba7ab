SPECIFICATION MCSpec
CONSTANTS
  Capacity = 2
  MaxItems = 6
  Room = 1
  Timeout = 1
  SystemdTimeout = 2
  GrpcEnabled = FALSE
  MayHang = {"capture", "inference", "output"}
INVARIANTS NoLostWakeup BlockingSendIsLossless KilledOnlyIfHung
PROPERTIES ImplementsChannel StopOrHangEnds
