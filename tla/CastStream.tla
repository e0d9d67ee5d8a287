----------------------------- MODULE CastStream -----------------------------
(***************************************************************************)
(* A streaming thread of the portal (pipewire_stream.rs for an output,     *)
(* toplevel_stream.rs for a window): what the two have in common.  One     *)
(* loop runs the callbacks of the PipeWire stream and of the Wayland       *)
(* socket, one at a time.                                                  *)
(*                                                                         *)
(* PipeWire owns a pool of buffers.  A buffer is dequeued, filled by the   *)
(* compositor and queued, which hands it to the consumer; the consumer     *)
(* gives it back in its own time, or leaves and takes the pool along.      *)
(***************************************************************************)
EXTENDS Naturals, FiniteSets

CONSTANTS Bufs,    \* the buffers of the pool
          Sizes,   \* the sizes of what is cast, and of buffers
          None     \* no buffer, no size

ASSUME CastAssumption == None \notin Bufs \cup Sizes

VARIABLES kind,     \* "output" or "window"
          thread,   \* "new", "starting", "running", "exited"
          answer,   \* what went through node_id_tx: "none", "node", "error"
          stop,     \* the flag in the StreamHandle
          dying,    \* AppState.dying
          pw,       \* state of the PipeWire stream
          pool,     \* where each buffer is
          slots,    \* pw_buffer_slots: the size of the wl_buffer of each
          frame,    \* pending_frame
          kicked,   \* capture_kicked
          lost,     \* history: a buffer was taken away under the capture into it
          target    \* the size of what is cast; None once it is gone

pipewire == <<pw, pool, slots>>
life == <<thread, answer, stop, dying>>
capture == <<frame, kicked, lost>>

-----------------------------------------------------------------------------
\* announced: the compositor described the buffer it wants and heard nothing.
Frame == [phase : {"none", "asked", "announced", "copying"}, buf : Bufs \cup {None}]
NoFrame == [phase |-> "none", buf |-> None]

Place == {"absent", "free", "held", "consumer", "bad"}
Free == {b \in Bufs : pool[b] = "free"}

Running == thread = "running"

\* queue_raw_buffer of a buffer that was not dequeued, or was freed, is bad.
Queue(b) == [pool EXCEPT ![b] = IF @ = "held" THEN "consumer" ELSE "bad"]
Dequeue(b) == [pool EXCEPT ![b] = "held"]

StreamInit ==
    /\ kind \in {"output", "window"}
    /\ thread = "new" /\ answer = "none" /\ stop = FALSE /\ dying = FALSE
    /\ pw = "connecting"
    /\ pool = [b \in Bufs |-> "absent"] /\ slots = [b \in Bufs |-> None]
    /\ frame = NoFrame /\ kicked = FALSE /\ lost = FALSE
    /\ target \in Sizes

-----------------------------------------------------------------------------
\* start spawns the thread and waits.
Spawn ==
    /\ thread = "new" /\ thread' = "starting"
    /\ UNCHANGED <<kind, answer, stop, dying, pipewire, capture, target>>

\* An error before the loop: a global is missing, PipeWire or the compositor
\* cannot be reached, the target is gone.
Refuse ==
    /\ thread = "starting" /\ thread' = "exited"
    /\ answer' = "error"
    /\ UNCHANGED <<kind, stop, dying, pipewire, capture, target>>

\* The handle that start returned is dropped.
DropHandle ==
    /\ answer = "node" /\ ~stop /\ stop' = TRUE
    /\ UNCHANGED <<kind, thread, answer, dying, pipewire, capture, target>>

ExitLoses ==   \* Fault: start is left waiting
    /\ Running /\ stop
    /\ thread' = "exited"
    /\ slots' = [b \in Bufs |-> None] /\ frame' = NoFrame
    /\ UNCHANGED <<kind, answer, stop, dying, pw, pool, kicked, lost, target>>

\* The timer finds the flag and quits the loop; run returns, and with it goes
\* the sender that start may still be waiting on.
Exit ==
    /\ Running /\ stop
    /\ thread' = "exited"
    /\ answer' = IF answer = "none" THEN "error" ELSE answer
    /\ slots' = [b \in Bufs |-> None] /\ frame' = NoFrame
    /\ UNCHANGED <<kind, stop, dying, pw, pool, kicked, lost, target>>

-----------------------------------------------------------------------------
(* on_state_changed *)

Report == answer' = IF answer = "none" THEN "node" ELSE answer

Paused ==
    /\ Running /\ pw \in {"connecting", "streaming"} /\ pw' = "paused"
    /\ Report
    /\ UNCHANGED <<kind, thread, stop, dying, pool, slots, capture, target>>

\* Kick: kick_capture of the kind.
Streaming(Kick) ==
    /\ Running /\ pw = "paused" /\ pw' = "streaming"
    /\ \E b \in Bufs : pool[b] # "absent"
    /\ Report
    /\ IF kicked THEN UNCHANGED <<pool, capture>> ELSE kicked' = TRUE /\ UNCHANGED lost /\ Kick
    /\ UNCHANGED <<kind, thread, stop, dying, slots, target>>

\* Error or Unconnected.
Die ==
    /\ Running /\ pw # "dead" /\ pw' = "dead"
    /\ dying' = TRUE /\ stop' = TRUE /\ frame' = NoFrame
    /\ UNCHANGED <<kind, thread, answer, pool, slots, kicked, lost, target>>

-----------------------------------------------------------------------------
(* The pool *)

\* on_add_buffer of each buffer, with a wl_buffer of size s where one could be
\* made.
AddBuffers(s) ==
    /\ Running /\ pw = "paused" /\ \A b \in Bufs : pool[b] = "absent"
    /\ pool' = [b \in Bufs |-> "free"]
    /\ \E made \in {Bufs} \cup {Bufs \ {b} : b \in Bufs} :
          slots' = [b \in Bufs |-> IF b \in made THEN s ELSE None]
    /\ UNCHANGED <<kind, life, pw, capture, target>>

RemoveBuffersOnly ==   \* Fault: the frame in flight is left
    /\ Running /\ pw \in {"paused", "dead"} /\ \E b \in Bufs : pool[b] # "absent"
    /\ pool' = [b \in Bufs |-> "absent"] /\ slots' = [b \in Bufs |-> None]
    /\ UNCHANGED <<kind, life, pw, capture, target>>

\* on_remove_buffer of each buffer: the consumer left, or other buffers are
\* due.  A frame that is copied into one is abandoned, and capture_kicked stays as
\* it is: an output asks for no other.
RemoveBuffers ==
    /\ Running /\ pw \in {"paused", "dead"} /\ \E b \in Bufs : pool[b] # "absent"
    /\ pool' = [b \in Bufs |-> "absent"] /\ slots' = [b \in Bufs |-> None]
    /\ frame' = IF frame.buf # None THEN NoFrame ELSE frame
    /\ lost' = (lost \/ frame.buf # None)
    /\ UNCHANGED <<kind, life, pw, kicked, target>>

\* The consumer is done with a buffer.
GiveBack(b) ==
    /\ Running /\ pw # "dead"
    /\ pool[b] = "consumer" /\ pool' = [pool EXCEPT ![b] = "free"]
    /\ UNCHANGED <<kind, life, pw, slots, capture, target>>

-----------------------------------------------------------------------------
StreamTypeOK ==
    /\ kind \in {"output", "window"}
    /\ thread \in {"new", "starting", "running", "exited"}
    /\ answer \in {"none", "node", "error"} /\ stop \in BOOLEAN /\ dying \in BOOLEAN
    /\ pw \in {"connecting", "paused", "streaming", "dead"}
    /\ pool \in [Bufs -> Place] /\ slots \in [Bufs -> Sizes \cup {None}]
    /\ frame \in Frame /\ kicked \in BOOLEAN /\ lost \in BOOLEAN
    /\ target \in Sizes \cup {None}
============================================================================
