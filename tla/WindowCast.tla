----------------------------- MODULE WindowCast -----------------------------
(***************************************************************************)
(* A window cast with ext-image-copy-capture (toplevel_stream.rs): a       *)
(* session tells the size, a capture brings its buffer along, and the      *)
(* buffers are replaced when the window changes size.                      *)
(***************************************************************************)
EXTENDS CastStream

VARIABLES adv,         \* adv_width, adv_height
          negotiated,  \* negotiated_width, negotiated_height
          needs,       \* needs_renegotiate
          pushed       \* update_params: "no", "yes" until the buffers are replaced, "failed"

window == <<adv, negotiated, needs, pushed>>

WindowInit == adv = None /\ negotiated = None /\ needs = FALSE /\ pushed = "no"

-----------------------------------------------------------------------------
\* The io callback dispatches all events there are, then sees to this flag:
\* nothing else runs in between.
Due == needs /\ ~dying

\* run: find the window, make the session, wait for its constraints.
WindowBoot ==
    /\ thread = "starting" /\ target # None
    /\ thread' = "running"
    /\ adv' = target /\ negotiated' = target
    /\ UNCHANGED <<kind, answer, stop, dying, pipewire, capture, target, needs, pushed>>

\* kick_capture in a pool: a free buffer with a slot is captured into; one
\* without goes back, and with none free the frame is dropped.
KickIn(p) ==
    LET free == {b \in Bufs : p[b] = "free"}
    IN  IF dying \/ free = {} THEN pool' = p /\ frame' = NoFrame
        ELSE \E b \in free :
                IF slots[b] = None
                THEN pool' = [p EXCEPT ![b] = "consumer"] /\ frame' = NoFrame
                ELSE /\ pool' = [p EXCEPT ![b] = "held"]
                     /\ frame' = [phase |-> "copying", buf |-> b]
KickWindow == KickIn(pool)

WindowStreaming == ~Due /\ Streaming(KickWindow) /\ UNCHANGED window

\* on_add_buffer sizes the buffers for the last constraints.
WindowAddBuffers ==
    /\ ~Due /\ AddBuffers(adv)
    /\ pushed' = "no"
    /\ UNCHANGED <<adv, negotiated, needs>>

WindowFrameAnswered ==
    /\ KickIn(Queue(frame.buf))
    /\ UNCHANGED <<kind, life, pw, slots, kicked, lost, target, window>>

\* A capture is answered once the window has something new, and only in the
\* size it has.
WindowFrameReady ==
    /\ Running /\ frame.phase = "copying" /\ slots[frame.buf] = target /\ WindowFrameAnswered
WindowFrameFailed ==
    /\ Running /\ frame.phase = "copying" /\ WindowFrameAnswered

\* The session's BufferSize and Done.
BufferSize ==
    /\ Running /\ target # None /\ target # adv
    /\ needs' = (needs \/ target # negotiated)
    /\ adv' = target
    /\ UNCHANGED <<kind, life, pipewire, capture, target, negotiated, pushed>>

\* The session is stopped: the window is gone.
Stopped ==
    /\ Running /\ target = None /\ ~dying
    /\ dying' = TRUE /\ stop' = TRUE /\ frame' = NoFrame
    /\ UNCHANGED <<kind, thread, answer, pipewire, kicked, lost, target, window>>

\* maybe_renegotiate: the frame in flight is dropped with its buffer, which the
\* new parameters take away; update_params may fail.
MaybeRenegotiate ==
    /\ Running /\ Due
    /\ needs' = FALSE /\ negotiated' = adv
    /\ frame' = NoFrame
    /\ \/ pushed' = "yes" /\ kicked' = FALSE
       \/ pushed' = "failed" /\ UNCHANGED kicked
    /\ UNCHANGED <<kind, life, pipewire, lost, target, adv>>

WindowChanges ==
    /\ target # None
    /\ \E s \in (Sizes \cup {None}) \ {target} : target' = s
    /\ UNCHANGED <<kind, life, pipewire, capture, window>>

WindowNext ==
    \/ WindowBoot \/ WindowStreaming \/ WindowAddBuffers
    \/ WindowFrameReady \/ WindowFrameFailed
    \/ BufferSize \/ Stopped \/ MaybeRenegotiate \/ WindowChanges
    \/ ~Due /\ UNCHANGED window /\ (Exit \/ Paused \/ Die \/ RemoveBuffers)
    \/ UNCHANGED window /\ (Spawn \/ Refuse \/ DropHandle \/ \E b \in Bufs : GiveBack(b))
============================================================================
