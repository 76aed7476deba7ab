SPECIFICATION MCFairSpec
CONSTANTS
  Capacity = 1
  DetInterval = 2
  FileInput = TRUE
  GrpcEnabled = FALSE
  MaxFrames = 3
INVARIANTS NoDanglingBuffer
PROPERTIES ShutdownCompletes QueuesDrain
