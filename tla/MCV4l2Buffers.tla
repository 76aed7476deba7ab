----------------------------- MODULE MCV4l2Buffers -----------------------------
(***************************************************************************)
(* The two ways frames are used: by the pipeline's threads, which hold     *)
(* frames in a queue, and by the documented loop of one thread, which      *)
(* reads, uses and releases one frame at a time.                           *)
(***************************************************************************)
EXTENDS V4l2Buffers

VARIABLE use   \* "pipeline" or "loop"

Loop == INSTANCE V4l2Buffers WITH Pipelined <- FALSE

MCInit == Init /\ use \in {"pipeline", "loop"}
MCNext ==
  /\ UNCHANGED use
  /\ (use = "pipeline" /\ Next) \/ (use = "loop" /\ Loop!Next)

(* In the documented loop a frame keeps its buffer until release_frame is  *)
(* called for it ("after use the caller gives the buffer back",            *)
(* v4l2_capture.cpp:230).                                                  *)
LoopKeepsBuffers == use = "loop" => BufferStaysWithFrame
=============================================================================
