----------------------------- MODULE OutputCast -----------------------------
(***************************************************************************)
(* An output cast with wlr-screencopy (pipewire_stream.rs): a capture is   *)
(* asked for first, and gets its buffer when the compositor described what *)
(* it wants.  The next one is asked for as soon as one is answered.        *)
(***************************************************************************)
EXTENDS CastStream

VARIABLES spec,   \* StreamSpec: the size of the output when it was selected
          wire    \* the connection to the compositor is up

output == <<spec, wire>>

OutputInit == spec = (IF kind = "output" THEN target ELSE None) /\ wire = TRUE

-----------------------------------------------------------------------------
\* run: bind the globals, find the output, connect the stream.
OutputBoot ==
    /\ thread = "starting" /\ target # None
    /\ thread' = "running"
    /\ UNCHANGED <<kind, answer, stop, dying, pipewire, capture, target, output>>

\* kick_capture
Asked == IF dying THEN NoFrame ELSE [phase |-> "asked", buf |-> None]
KickOutput == frame' = Asked /\ UNCHANGED pool

OutputStreaming == Streaming(KickOutput) /\ UNCHANGED output

OutputAddBuffers == AddBuffers(spec) /\ UNCHANGED output

\* on_buffer_done: no buffer is free, so drop the frame and ask again.
NoBuffer ==
    /\ frame.phase = "asked" /\ wire /\ Free = {}
    /\ KickOutput
    /\ UNCHANGED <<kind, life, pw, slots, kicked, lost, target, output>>

\* on_buffer_done: copy into a buffer that is free.  One without a slot goes
\* back and the frame waits for nothing; one that does not fit what the
\* compositor described is a protocol error.
Copy(b) ==
    /\ frame.phase = "asked" /\ wire /\ target # None /\ pool[b] = "free"
    /\ IF slots[b] = None
       THEN /\ pool' = [pool EXCEPT ![b] = "consumer"]
            /\ frame' = [frame EXCEPT !.phase = "announced"]
            /\ UNCHANGED wire
       ELSE /\ pool' = Dequeue(b)
            /\ frame' = [phase |-> "copying", buf |-> b]
            /\ wire' = (slots[b] = target)
    /\ UNCHANGED <<kind, life, pw, slots, kicked, lost, target, spec>>

\* The capture failed or was answered: what was dequeued goes back, and the next
\* one is asked for.
Answered ==
    /\ pool' = IF frame.buf = None THEN pool ELSE Queue(frame.buf)
    /\ frame' = Asked
    /\ UNCHANGED <<kind, life, pw, slots, kicked, lost, target, output>>

OutputFrameReady == Running /\ frame.phase = "copying" /\ wire /\ target # None /\ Answered

OutputFailedIdle ==   \* Fault: the stream gives up on a failed capture
    /\ Running /\ frame.phase # "none" /\ wire
    /\ frame' = NoFrame
    /\ pool' = IF frame.buf = None THEN pool ELSE Queue(frame.buf)
    /\ UNCHANGED <<kind, life, pw, slots, kicked, lost, target, output>>

OutputFrameFailed == Running /\ frame.phase \in {"asked", "copying"} /\ wire /\ Answered

\* The output changes mode, or is unplugged; nobody tells the thread.
OutputChanges ==
    /\ \E s \in (Sizes \cup {None}) \ {target} : target' = s
    /\ target # None
    /\ UNCHANGED <<kind, life, pipewire, capture, output>>

OutputNext ==
    \/ OutputBoot \/ OutputStreaming \/ OutputAddBuffers
    \/ Running /\ (NoBuffer \/ \E b \in Bufs : Copy(b))
    \/ OutputFrameReady \/ OutputFrameFailed \/ OutputChanges
    \/ UNCHANGED output /\ (Spawn \/ Refuse \/ DropHandle \/ Exit \/ Paused \/ Die \/ RemoveBuffers)
    \/ UNCHANGED output /\ \E b \in Bufs : GiveBack(b)
============================================================================
