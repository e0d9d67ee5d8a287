-------------------------------- MODULE Cast --------------------------------
(***************************************************************************)
(* A streaming thread of either kind, from start to its exit.              *)
(***************************************************************************)
EXTENDS OutputCast, WindowCast

vars == <<kind, life, pipewire, capture, target, output, window>>

Init == StreamInit /\ OutputInit /\ WindowInit

Next == \/ kind = "output" /\ OutputNext /\ UNCHANGED window
        \/ kind = "window" /\ WindowNext /\ UNCHANGED output

\* PipeWire connects the stream or fails it; the loop runs each source that is
\* ready (the stop timer comes up between any two batches of events); the
\* compositor answers captures and the consumer gives buffers back.
Answers == \/ kind = "output" /\ frame # NoFrame /\ Next /\ frame' # frame
           \/ kind = "window" /\ (WindowFrameReady \/ WindowFrameFailed) /\ Next
Fairness ==
    /\ WF_vars(thread = "starting" /\ Next /\ thread' # thread)
    /\ SF_vars(pw = "connecting" /\ (Paused \/ Die) /\ Next)
    /\ SF_vars(Exit /\ Next)
    /\ WF_vars(MaybeRenegotiate /\ Next)
    /\ WF_vars(Answers)
    /\ \A b \in Bufs : WF_vars(GiveBack(b) /\ Next)

Spec == Init /\ [][Next]_vars /\ Fairness

-----------------------------------------------------------------------------
TypeOK ==
    /\ StreamTypeOK
    /\ spec \in Sizes \cup {None} /\ wire \in BOOLEAN
    /\ adv \in Sizes \cup {None} /\ negotiated \in Sizes \cup {None}
    /\ needs \in BOOLEAN /\ pushed \in {"no", "yes", "failed"}

\* A buffer is queued only while it is dequeued and PipeWire has not freed it
\* (the use after free that on_remove_buffer is about): the one that a capture
\* in flight will be queued in is held, with its wl_buffer, and no other is, but
\* for those a new size is to replace.
BuffersAccounted ==
    /\ \A b \in Bufs : pool[b] # "bad"
    /\ frame.buf # None => pool[frame.buf] = "held" /\ slots[frame.buf] # None
    /\ ~dying /\ Running /\ pushed = "no" => \A b \in Bufs : pool[b] = "held" => frame.buf = b

\* A capture of a window goes into a buffer of the size that was last told,
\* unless that size is still on its way through PipeWire, or was refused there.
FramesFit ==
    kind = "window" /\ frame.phase = "copying" => slots[frame.buf] = adv \/ needs \/ pushed # "no"

\* Once its first capture was asked for, an output cast has a capture with the
\* compositor as long as the stream lives: it asks again whatever the answer was,
\* and with no buffer free, and holds on to what it asked while PipeWire replaces
\* the pool.  The code loses it in one way: the pool is taken away under a copy,
\* and capture_kicked, which stays set, keeps the next pool from asking.
OutputAsks == kind = "output" /\ Running /\ kicked /\ ~dying /\ ~lost => frame.phase # "none"

\* All of these.
CastInv == TypeOK /\ BuffersAccounted /\ FramesFit /\ OutputAsks

\* An output cast that streams to a consumer that gives its buffers back goes on:
\* a buffer is filled, and then the next, until the cast is stopped, pauses, or
\* loses the output or the connection.  Besides the pool taken away under a copy,
\* it comes to a stand when it dequeues a buffer that no wl_buffer could be made
\* for: that one is queued as it is, and nothing is asked of the frame again.
Going == /\ kind = "output" /\ Running /\ kicked /\ pw = "streaming"
         /\ ~stop /\ ~dying /\ wire /\ target # None
         /\ ~lost /\ frame.phase # "announced"
Copying == frame.phase = "copying"
CastGoesOn == (Going ~> (Copying \/ ~Going)) /\ (Going /\ Copying ~> (~Copying \/ ~Going))

\* start returns: with a node, or with an error when the thread ends before it
\* has one.
StartReturns == (thread = "starting") ~> (answer # "none")

\* The thread keeps the promise of CastThread.
Life == IF thread # "running" THEN thread
        ELSE IF stop THEN "stopping" ELSE IF answer = "none" THEN "starting" ELSE "running"
Promise == INSTANCE CastThread WITH life <- Life
ThreadKeepsPromise == Promise!Spec

============================================================================
