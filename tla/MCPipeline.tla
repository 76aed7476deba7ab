------------------------------ MODULE MCPipeline ------------------------------
(***************************************************************************)
(* Pipeline in two configurations at once, for TLC: the constants of the   *)
(* .cfg file describe a device with a camera that serves gRPC, File one    *)
(* that reads a video file, detects every frame and serves nobody.         *)
(***************************************************************************)
EXTENDS Pipeline

VARIABLE input   \* which of the two is running

File == INSTANCE Pipeline
  WITH DetInterval <- 1, FileInput <- TRUE, GrpcEnabled <- FALSE

MCInit == \/ input = "camera" /\ Init
          \/ input = "file" /\ File!Init

MCNext == /\ UNCHANGED input
          /\ \/ input = "camera" /\ Next
             \/ input = "file" /\ File!Next

MCSpec == MCInit /\ [][MCNext]_<<vars, input>>

=============================================================================
