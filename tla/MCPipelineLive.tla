---------------------------- MODULE MCPipelineLive ----------------------------
(***************************************************************************)
(* Pipeline in two configurations at once, under fairness, for TLC: the    *)
(* constants of the .cfg file describe one without a gRPC server and with  *)
(* so many frames that capture waits before a full queue while inference   *)
(* works; Served has the server, and one frame less.                       *)
(***************************************************************************)
EXTENDS Pipeline

VARIABLE served   \* whether it is the one with the server

Served == INSTANCE Pipeline WITH GrpcEnabled <- TRUE, MaxFrames <- MaxFrames - 1

MCInit == \/ served = FALSE /\ Init
          \/ served = TRUE /\ Served!Init

MCNext == /\ UNCHANGED served
          /\ \/ ~served /\ Next
             \/ served /\ Served!Next

(* No action that Fairness names depends on the server or on the number of *)
(* frames.                                                                 *)
MCFairSpec == MCInit /\ [][MCNext]_<<vars, served>> /\ Fairness

=============================================================================
