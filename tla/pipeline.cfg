SPECIFICATION MCSpec
CONSTANTS
  Capacity = 2
  DetInterval = 2
  FileInput = FALSE
  GrpcEnabled = TRUE
  MaxFrames = 4
INVARIANTS CaptureLossless InOrder NoLeakedBuffer
