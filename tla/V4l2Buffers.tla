------------------------------ MODULE V4l2Buffers ------------------------------
(***************************************************************************)
(* edge/src/io/v4l2_capture.cpp: the mapped buffers of a streaming camera  *)
(* and the one member, _current_buf_index, by which read_frame tells       *)
(* release_frame which of them to give back to the driver.                 *)
(*                                                                         *)
(* Pipelined = FALSE is the loop of docs/API_REFERENCE.md: one thread      *)
(* reads a frame, uses it and releases it.  Pipelined = TRUE is the use    *)
(* edge/src/pipeline/pipeline.cpp makes of the class: the capture thread   *)
(* reads, frames wait in the frame queue, the inference thread releases.   *)
(* Neither takes a lock, so the accesses to _current_buf_index are steps   *)
(* of their own.  A frame is the number of the buffer it lies in.          *)
(***************************************************************************)
EXTENDS Integers, Sequences, SequencesExt

CONSTANTS
  NumBuffers,   \* _num_buffers
  Capacity,     \* cfg.system.queue_max_size
  Pipelined

(* What the constants have to be.                                         *)
BuffersConstants ==
  /\ NumBuffers \in Nat \ {0}
  /\ Capacity \in Nat \ {0}
  /\ Pipelined \in BOOLEAN

VARIABLES
  incoming,     \* the driver: buffers queued and still empty, in order
  outgoing,     \* the driver: buffers filled and not dequeued, in order
  current,      \* _current_buf_index
  queue,        \* frame_queue
  reader,       \* where the thread that reads frames is
  fresh,        \* the buffer DQBUF has just given it
  user,         \* where the thread that uses and releases frames is
  frame,        \* the frame it works on
  index         \* buf.index in release_frame

vars == <<incoming, outgoing, current, queue, reader, fresh, user, frame, index>>

Buffers == 0..NumBuffers - 1
None == -1

(* open and start_stream: every buffer is queued.                          *)
Init ==
  /\ incoming = [i \in 1..NumBuffers |-> i - 1]
  /\ outgoing = <<>>
  /\ current = None
  /\ queue = <<>>
  /\ reader = "reading"
  /\ fresh = None
  /\ user = "popping"
  /\ frame = None
  /\ index = None

-----------------------------------------------------------------------------
(* The camera fills the buffers in the order they were queued.             *)
Fill ==
  /\ incoming # <<>>
  /\ incoming' = Tail(incoming)
  /\ outgoing' = Append(outgoing, Head(incoming))
  /\ UNCHANGED <<current, queue, reader, fresh, user, frame, index>>

(* read_frame, VIDIOC_DQBUF: with none filled it returns false and changes *)
(* nothing (O_NONBLOCK).  The documented loop reads when it has released.  *)
Dequeue ==
  /\ reader = "reading"
  /\ Pipelined \/ (user = "popping" /\ queue = <<>>)
  /\ outgoing # <<>>
  /\ fresh' = Head(outgoing)
  /\ outgoing' = Tail(outgoing)
  /\ reader' = "recording"
  /\ UNCHANGED <<incoming, current, queue, user, frame, index>>

(* read_frame, _current_buf_index = buf.index.                             *)
Record ==
  /\ reader = "recording"
  /\ current' = fresh
  /\ reader' = "pushing"
  /\ UNCHANGED <<incoming, outgoing, queue, fresh, user, frame, index>>

(* push_or_wait.                                                           *)
Push ==
  /\ reader = "pushing"
  /\ Len(queue) < Capacity
  /\ queue' = Append(queue, fresh)
  /\ fresh' = None
  /\ reader' = "reading"
  /\ UNCHANGED <<incoming, outgoing, current, user, frame, index>>

-----------------------------------------------------------------------------
Pop ==
  /\ user = "popping"
  /\ queue # <<>>
  /\ frame' = Head(queue)
  /\ queue' = Tail(queue)
  /\ user' = "using"
  /\ UNCHANGED <<incoming, outgoing, current, reader, fresh, index>>

\* Mutant of ReleaseLooks: the buffer is given back before the frame is used.
ReleaseFirst ==
  /\ user = "using"
  /\ user' = "queueing"
  /\ index' = current
  /\ UNCHANGED <<incoming, outgoing, current, queue, reader, fresh, frame>>

(* The frame has been skipped, used, or copied: release_frame is called    *)
(* and looks at _current_buf_index; with none it returns.                  *)
ReleaseLooks ==
  /\ user = "using"
  /\ frame' = None
  /\ IF current = None
     THEN user' = "popping" /\ UNCHANGED index
     ELSE user' = "queueing" /\ index' = current
  /\ UNCHANGED <<incoming, outgoing, current, queue, reader, fresh>>

WithDriver == ToSet(incoming) \union ToSet(outgoing)

(* VIDIOC_QBUF; the driver refuses a buffer it already has.                *)
ReleaseQueues ==
  /\ user = "queueing"
  /\ incoming' = IF index \in WithDriver THEN incoming ELSE Append(incoming, index)
  /\ user' = "clearing"
  /\ UNCHANGED <<outgoing, current, queue, reader, fresh, frame, index>>

\* Mutant of ReleaseClears: _current_buf_index keeps its value.
ReleaseKeeps ==
  /\ user = "clearing"
  /\ index' = None
  /\ user' = "popping"
  /\ UNCHANGED <<incoming, outgoing, current, queue, reader, fresh, frame>>

(* _current_buf_index = -1.                                                *)
ReleaseClears ==
  /\ user = "clearing"
  /\ current' = None
  /\ index' = None
  /\ user' = "popping"
  /\ UNCHANGED <<incoming, outgoing, queue, reader, fresh, frame>>

Reader == Dequeue \/ Record \/ Push
User == Pop \/ ReleaseLooks \/ ReleaseQueues \/ ReleaseClears
Next == Fill \/ Reader \/ User

(* Both threads keep running and the camera keeps filling buffers.         *)
Spec == Init /\ [][Next]_vars /\ WF_vars(Fill) /\ WF_vars(Reader) /\ WF_vars(User)

-----------------------------------------------------------------------------
TypeOK ==
  /\ incoming \in Seq(Buffers) /\ Len(incoming) <= NumBuffers
  /\ outgoing \in Seq(Buffers) /\ Len(outgoing) <= NumBuffers
  /\ queue \in Seq(Buffers) /\ Len(queue) <= Capacity
  /\ {current, fresh, frame, index} \subseteq Buffers \union {None}
  /\ reader \in {"reading", "recording", "pushing"}
  /\ user \in {"popping", "using", "queueing", "clearing"}

(* release_frame never gives the driver a buffer the driver already has,   *)
(* and the driver never has one twice, although the two threads share      *)
(* _current_buf_index without a lock.                                      *)
NoDoubleQueue ==
  /\ user = "queueing" => index \notin WithDriver
  /\ IsInjective(incoming \o outgoing)

(* "After use the caller gives the buffer back" (v4l2_capture.cpp:230):    *)
(* until then the driver does not get it and no other frame lies in it.    *)
InUse == (IF fresh = None THEN <<>> ELSE <<fresh>>) \o queue
         \o (IF frame = None THEN <<>> ELSE <<frame>>)
BufferStaysWithFrame ==
  /\ ToSet(InUse) \intersect WithDriver = {}
  /\ IsInjective(InUse)

(* "The buffer must be given back" (API_REFERENCE.md:391): each buffer     *)
(* taken from the driver returns to it, or the camera runs dry.            *)
BufferComesBack ==
  \A b \in Buffers : b \notin WithDriver ~> b \in WithDriver
=============================================================================
