---------------------------- MODULE PortalProofs ----------------------------
(***************************************************************************)
(* Theorems about the portal.  A streaming thread of either kind, for any  *)
(* buffers and sizes: no buffer is used when PipeWire has it, a window is  *)
(* captured in its size, an output cast goes on asking, and the thread     *)
(* takes the steps CastThread allows.  The ScreenCast interface, for any   *)
(* sessions, calls, sources and threads: nothing is cast that was not      *)
(* offered, and no streaming thread runs that nobody can stop.             *)
(***************************************************************************)
EXTENDS Cast, ScreenCast, TLAPS

-----------------------------------------------------------------------------
(* A streaming thread: the inductive invariant.                            *)

\* Before its loop a thread has no stream: no pool, no frame, and nobody has
\* told it to stop or been answered.
NotBooted ==
    thread \in {"new", "starting"} =>
        /\ \A b \in Bufs : pool[b] = "absent" /\ slots[b] = None
        /\ answer = "none" /\ ~stop /\ ~kicked

\* A buffer is at a frame exactly while the frame is copied; it is dequeued
\* and has a wl_buffer.  Nothing is captured before the first kick.
FrameHasBuffer ==
    /\ frame.phase = "copying" <=> frame.buf # None
    /\ frame.buf # None => pool[frame.buf] = "held" /\ slots[frame.buf] # None
    /\ ~kicked => frame = NoFrame

\* The buffers of a window have the size that was last told, or a new size is
\* to be negotiated or on its way.
SlotsFit ==
    kind = "window" =>
        /\ \A b \in Bufs : slots[b] # None => slots[b] = adv \/ needs \/ pushed # "no"
        /\ adv = negotiated \/ needs

\* No buffer is freed under a capture, and none is held but by the frame in
\* flight until a new pool is due.
PoolSound ==
    /\ \A b \in Bufs : pool[b] # "bad"
    /\ ~dying /\ Running /\ pushed = "no" => \A b \in Bufs : pool[b] = "held" => frame.buf = b

CastInd == TypeOK /\ NotBooted /\ FrameHasBuffer /\ SlotsFit /\ PoolSound /\ OutputAsks

-----------------------------------------------------------------------------
(* The steps.                                                              *)

LEMMA NoFrameFacts == NoFrame \in Frame /\ NoFrame.phase = "none" /\ NoFrame.buf = None
  BY DEF NoFrame, Frame

\* The thread comes and goes, is told to stop or answers; nothing of its stream
\* moves.
LEMMA QuietStep ==
    ASSUME CastInd,
           UNCHANGED <<kind, dying, pool, slots, frame, kicked, lost, window, spec, wire>>,
           target' \in Sizes \cup {None}, pw' \in {"connecting", "paused", "streaming", "dead"},
           \/ UNCHANGED <<thread, answer, stop>>
           \/ thread = "new" /\ thread' = "starting" /\ UNCHANGED <<answer, stop>>
           \/ thread = "starting" /\ thread' = "exited" /\ answer' = "error" /\ UNCHANGED stop
           \/ thread = "starting" /\ thread' = "running" /\ UNCHANGED <<answer, stop>>
           \/ answer = "node" /\ stop' = TRUE /\ UNCHANGED <<thread, answer>>
           \/ Running /\ Report /\ UNCHANGED <<thread, stop>>
    PROVE  CastInd'
  <1>0. /\ thread \in {"new", "starting", "running", "exited"}
        /\ answer \in {"none", "node", "error"} /\ stop \in BOOLEAN
        /\ thread \in {"new", "starting"} => answer = "none" /\ ~stop
    BY DEF CastInd, TypeOK, StreamTypeOK, NotBooted
  <1>1. /\ thread' \in {"new", "starting", "running", "exited"}
        /\ answer' \in {"none", "node", "error"} /\ stop' \in BOOLEAN
        /\ thread' \in {"new", "starting"} =>
              thread \in {"new", "starting"} /\ answer' = "none" /\ ~stop'
        /\ Running' => Running \/ thread = "starting"
    <2>1. CASE UNCHANGED <<thread, answer, stop>>
      BY <1>0, <2>1 DEF Running
    <2>2. CASE thread = "new" /\ thread' = "starting" /\ UNCHANGED <<answer, stop>>
      BY <1>0, <2>2 DEF Running
    <2>3. CASE thread = "starting" /\ thread' = "exited" /\ answer' = "error" /\ UNCHANGED stop
      BY <1>0, <2>3 DEF Running
    <2>4. CASE thread = "starting" /\ thread' = "running" /\ UNCHANGED <<answer, stop>>
      BY <1>0, <2>4 DEF Running
    <2>5. CASE answer = "node" /\ stop' = TRUE /\ UNCHANGED <<thread, answer>>
      BY <1>0, <2>5 DEF Running
    <2>6. CASE Running /\ Report /\ UNCHANGED <<thread, stop>>
      BY <1>0, <2>6 DEF Running, Report
    <2> QED
      BY <2>1, <2>2, <2>3, <2>4, <2>5, <2>6
  <1>2. TypeOK'
    BY <1>1 DEF CastInd, TypeOK, StreamTypeOK, window
  <1>3. NotBooted'
    BY <1>1 DEF CastInd, NotBooted
  <1>4. FrameHasBuffer' /\ SlotsFit'
    BY DEF CastInd, FrameHasBuffer, SlotsFit, window
  <1>5. PoolSound'
    <2>1. thread = "starting" => \A b \in Bufs : pool[b] = "absent"
      BY DEF CastInd, NotBooted
    <2> QED
      BY <1>1, <2>1 DEF CastInd, PoolSound, window
  <1>6. OutputAsks'
    <2>1. kicked => thread # "starting"
      BY DEF CastInd, NotBooted
    <2> QED
      BY <1>1, <2>1 DEF CastInd, OutputAsks
  <1> QED
    BY <1>2, <1>3, <1>4, <1>5, <1>6 DEF CastInd

LEMMA ExitStep ==
    ASSUME CastInd, Exit, UNCHANGED <<window, output>>
    PROVE  CastInd'
  <1>1. /\ Running /\ thread' = "exited" /\ frame' = NoFrame
        /\ slots' = [b \in Bufs |-> None] /\ answer' \in {"none", "node", "error"}
        /\ UNCHANGED <<kind, stop, dying, pw, pool, kicked, lost, target, window, spec, wire>>
    BY DEF Exit, CastInd, TypeOK, StreamTypeOK, output
  <1>2. TypeOK'
    BY <1>1, NoFrameFacts DEF CastInd, TypeOK, StreamTypeOK, window
  <1>3. NotBooted' /\ FrameHasBuffer' /\ SlotsFit' /\ PoolSound' /\ OutputAsks'
    BY <1>1, NoFrameFacts DEF CastInd, NotBooted, FrameHasBuffer, SlotsFit, PoolSound, OutputAsks, window, Running
  <1> QED
    BY <1>2, <1>3 DEF CastInd

\* The stream dies, or the session of a window is stopped.
LEMMA DyingStep ==
    ASSUME CastInd, Running, dying' = TRUE, stop' = TRUE, frame' = NoFrame,
           pw' \in {"connecting", "paused", "streaming", "dead"},
           UNCHANGED <<kind, thread, answer, pool, slots, kicked, lost, target, window, output>>
    PROVE  CastInd'
  <1>1. TypeOK'
    BY NoFrameFacts DEF CastInd, TypeOK, StreamTypeOK, window, output
  <1>2. NotBooted' /\ FrameHasBuffer' /\ SlotsFit' /\ PoolSound' /\ OutputAsks'
    BY NoFrameFacts DEF CastInd, NotBooted, FrameHasBuffer, SlotsFit, PoolSound, OutputAsks, window, Running
  <1> QED
    BY <1>1, <1>2 DEF CastInd

LEMMA RemoveBuffersStep ==
    ASSUME CastInd, RemoveBuffers, UNCHANGED <<window, output>>
    PROVE  CastInd'
  <1>1. /\ Running /\ pool' = [b \in Bufs |-> "absent"] /\ slots' = [b \in Bufs |-> None]
        /\ frame' = (IF frame.buf # None THEN NoFrame ELSE frame) /\ lost' = (lost \/ frame.buf # None)
        /\ UNCHANGED <<kind, thread, answer, stop, dying, pw, kicked, target, window, spec, wire>>
    BY DEF RemoveBuffers, life, output
  <1>2. frame' \in Frame /\ frame'.buf = None /\ (frame'.phase = "copying" <=> frame.phase = "copying" /\ frame.buf = None)
    BY <1>1, NoFrameFacts DEF CastInd, TypeOK, StreamTypeOK, FrameHasBuffer
  <1>3. TypeOK'
    BY <1>1, <1>2 DEF CastInd, TypeOK, StreamTypeOK, Place, window
  <1>4. NotBooted' /\ SlotsFit' /\ PoolSound'
    BY <1>1 DEF CastInd, NotBooted, SlotsFit, PoolSound, window, Running
  <1>5. FrameHasBuffer'
    <2>1. frame = NoFrame => frame' = NoFrame
      BY <1>1
    <2> QED
      BY <1>1, <1>2, <2>1 DEF CastInd, FrameHasBuffer
  <1>6. OutputAsks'
    BY <1>1 DEF CastInd, OutputAsks, Running
  <1> QED
    BY <1>3, <1>4, <1>5, <1>6 DEF CastInd

\* A new pool: none of its buffers is held, and those of a window have the size
\* that was last told.
LEMMA AddBuffersStep ==
    ASSUME CastInd, NEW s \in Sizes \cup {None}, AddBuffers(s), UNCHANGED <<adv, negotiated, needs, output>>,
           \/ kind = "output" /\ UNCHANGED pushed
           \/ kind = "window" /\ pushed' = "no" /\ s = adv
    PROVE  CastInd'
  <1>1. /\ Running /\ \A b \in Bufs : pool[b] = "absent"
        /\ pool' = [b \in Bufs |-> "free"]
        /\ UNCHANGED <<kind, thread, answer, stop, dying, pw, frame, kicked, lost, target, spec, wire>>
    BY DEF AddBuffers, life, capture, output
  <1>2. PICK made : slots' = [b \in Bufs |-> IF b \in made THEN s ELSE None]
    BY DEF AddBuffers
  <1>3. slots' \in [Bufs -> Sizes \cup {None}] /\ \A b \in Bufs : slots'[b] \in {s, None}
    BY <1>2
  <1>4. frame.buf = None
    BY <1>1 DEF CastInd, FrameHasBuffer, TypeOK, StreamTypeOK, Frame
  <1>5. TypeOK'
    BY <1>1, <1>3 DEF CastInd, TypeOK, StreamTypeOK, Place
  <1>6. NotBooted' /\ FrameHasBuffer' /\ PoolSound' /\ OutputAsks'
    BY <1>1, <1>4 DEF CastInd, NotBooted, FrameHasBuffer, PoolSound, OutputAsks, Running
  <1>7. SlotsFit'
    BY <1>1, <1>3 DEF CastInd, SlotsFit
  <1> QED
    BY <1>5, <1>6, <1>7 DEF CastInd

LEMMA GiveBackStep ==
    ASSUME CastInd, NEW b \in Bufs, GiveBack(b), UNCHANGED <<window, output>>
    PROVE  CastInd'
  <1>1. /\ Running /\ pool[b] = "consumer" /\ pool' = [pool EXCEPT ![b] = "free"]
        /\ UNCHANGED <<kind, thread, answer, stop, dying, pw, slots, frame, kicked, lost, target, window, spec, wire>>
    BY DEF GiveBack, life, capture, output
  <1>2. pool \in [Bufs -> Place] /\ frame.buf \in Bufs \cup {None}
    BY DEF CastInd, TypeOK, StreamTypeOK, Frame
  <1>3. pool'[b] = "free" /\ \A c \in Bufs : c # b => pool'[c] = pool[c]
    BY <1>1, <1>2
  <1>4. TypeOK'
    BY <1>1, <1>2 DEF CastInd, TypeOK, StreamTypeOK, Place, window
  <1>5. NotBooted' /\ SlotsFit' /\ OutputAsks'
    BY <1>1 DEF CastInd, NotBooted, SlotsFit, OutputAsks, window, Running
  <1>6. FrameHasBuffer'
    BY <1>1, <1>2, <1>3 DEF CastInd, FrameHasBuffer
  <1>7. PoolSound'
    BY <1>1, <1>3 DEF CastInd, PoolSound, window, Running
  <1> QED
    BY <1>4, <1>5, <1>6, <1>7 DEF CastInd

\* The pool and the frame change together while the thread runs; the step says
\* what became of the buffer in flight and which one is in flight next.
LEMMA CaptureStep ==
    ASSUME CastInd, Running,
           UNCHANGED <<kind, thread, stop, dying, slots, lost, target, window, spec>>,
           answer' \in {"none", "node", "error"},
           pw' \in {"connecting", "paused", "streaming", "dead"}, wire' \in BOOLEAN,
           kicked' \in BOOLEAN, ~kicked' => frame' = NoFrame,
           frame' \in Frame, pool' \in [Bufs -> Place],
           \A b \in Bufs : pool'[b] # "bad",
           frame'.phase = "copying" <=> frame'.buf # None,
           frame'.buf # None => pool'[frame'.buf] = "held" /\ slots[frame'.buf] # None,
           ~dying /\ pushed = "no" => \A b \in Bufs : pool'[b] = "held" => frame'.buf = b,
           kind = "output" /\ ~dying => frame'.phase # "none"
    PROVE  CastInd'
  <1>1. TypeOK'
    BY DEF CastInd, TypeOK, StreamTypeOK, window
  <1>2. NotBooted' /\ SlotsFit'
    BY DEF CastInd, NotBooted, SlotsFit, window, Running
  <1>3. FrameHasBuffer' /\ PoolSound' /\ OutputAsks'
    BY DEF CastInd, FrameHasBuffer, PoolSound, OutputAsks, window, Running
  <1> QED
    BY <1>1, <1>2, <1>3 DEF CastInd

\* A buffer that is queued goes to the consumer, as it was held.
LEMMA QueueLemma ==
    ASSUME CastInd, frame.buf # None
    PROVE  /\ Queue(frame.buf) \in [Bufs -> Place]
           /\ Queue(frame.buf)[frame.buf] = "consumer"
           /\ \A b \in Bufs : b # frame.buf => Queue(frame.buf)[b] = pool[b]
  BY DEF CastInd, TypeOK, StreamTypeOK, Place, Frame, FrameHasBuffer, Queue

\* kick_capture of an output: only a frame is made.
LEMMA KickOutputStep ==
    ASSUME CastInd, Running, UNCHANGED pool, frame' = Asked, frame.buf = None,
           UNCHANGED <<kind, thread, stop, dying, slots, lost, target, window, spec>>,
           answer' \in {"none", "node", "error"},
           pw' \in {"connecting", "paused", "streaming", "dead"}, wire' \in BOOLEAN, kicked' = TRUE
    PROVE  CastInd'
  <1>1. frame' \in Frame /\ frame'.buf = None /\ frame'.phase # "copying" /\ (~dying => frame'.phase # "none")
    BY NoFrameFacts DEF Asked, Frame
  <1>2. pool \in [Bufs -> Place] /\ \A b \in Bufs : pool[b] # "bad"
    BY DEF CastInd, TypeOK, StreamTypeOK, PoolSound
  <1>3. ~dying /\ pushed = "no" => \A b \in Bufs : pool[b] # "held"
    BY CastAssumption DEF CastInd, PoolSound
  <1> QED
    BY <1>1, <1>2, <1>3, CaptureStep

\* kick_capture of a window in a pool where the frame in flight is queued.
LEMMA KickWindowStep ==
    ASSUME CastInd, kind = "window", Running,
           NEW p \in [Bufs -> Place], \A b \in Bufs : p[b] # "bad",
           ~dying /\ pushed = "no" => \A b \in Bufs : p[b] # "held",
           KickIn(p),
           UNCHANGED <<kind, thread, stop, dying, slots, lost, target, window, spec>>,
           answer' \in {"none", "node", "error"},
           pw' \in {"connecting", "paused", "streaming", "dead"}, wire' \in BOOLEAN, kicked' = TRUE
    PROVE  CastInd'
  <1>1. CASE pool' = p /\ frame' = NoFrame
    BY <1>1, NoFrameFacts, CastAssumption, CaptureStep
  <1>2. ASSUME NEW b \in Bufs, p[b] = "free", slots[b] = None,
               pool' = [p EXCEPT ![b] = "consumer"], frame' = NoFrame
        PROVE  CastInd'
    <2>1. pool' \in [Bufs -> Place] /\ pool'[b] = "consumer" /\ \A c \in Bufs : c # b => pool'[c] = p[c]
      BY <1>2 DEF Place
    <2>2. \A c \in Bufs : pool'[c] # "bad"
      BY <2>1
    <2>3. ~dying /\ pushed = "no" => \A c \in Bufs : pool'[c] # "held"
      BY <2>1
    <2> QED
      BY <1>2, <2>1, <2>2, <2>3, NoFrameFacts, CastAssumption, CaptureStep
  <1>3. ASSUME NEW b \in Bufs, p[b] = "free", slots[b] # None,
               pool' = [p EXCEPT ![b] = "held"], frame' = [phase |-> "copying", buf |-> b]
        PROVE  CastInd'
    <2>1. pool' \in [Bufs -> Place] /\ pool'[b] = "held" /\ \A c \in Bufs : c # b => pool'[c] = p[c]
      BY <1>3 DEF Place
    <2>2. \A c \in Bufs : pool'[c] # "bad"
      BY <2>1
    <2>3. frame' \in Frame /\ frame'.phase = "copying" /\ frame'.buf = b /\ b # None
      BY <1>3, CastAssumption DEF Frame
    <2>4. ~dying /\ pushed = "no" => \A c \in Bufs : pool'[c] = "held" => frame'.buf = c
      BY <2>1, <2>3
    <2> QED
      BY <1>3, <2>1, <2>2, <2>3, <2>4, CaptureStep
  <1> QED
    BY <1>1, <1>2, <1>3 DEF KickIn

LEMMA StreamingStep ==
    ASSUME CastInd, UNCHANGED <<window, output>>,
           \/ kind = "output" /\ Streaming(KickOutput)
           \/ kind = "window" /\ Streaming(KickWindow)
    PROVE  CastInd'
  <1>1. /\ Running /\ pw' = "streaming" /\ Report
        /\ UNCHANGED <<kind, thread, stop, dying, slots, target, window, spec, wire>>
    BY DEF Streaming, output
  <1>2. CASE kicked
    <2>1. UNCHANGED <<pool, frame, kicked, lost>>
      BY <1>2 DEF Streaming, capture
    <2> QED
      BY <1>1, <2>1, QuietStep DEF CastInd, TypeOK, StreamTypeOK
  <1>3. ASSUME ~kicked
        PROVE  CastInd'
    <2>1. frame = NoFrame /\ pool \in [Bufs -> Place] /\ \A b \in Bufs : pool[b] # "bad"
      BY <1>3 DEF CastInd, FrameHasBuffer, PoolSound, TypeOK, StreamTypeOK
    <2>2. kicked' = TRUE /\ UNCHANGED lost /\ (kind = "output" => KickOutput) /\ (kind = "window" => KickWindow)
      BY <1>3 DEF Streaming
    <2>3. ~dying /\ pushed = "no" => \A b \in Bufs : pool[b] # "held"
      BY <1>1, <2>1, NoFrameFacts, CastAssumption DEF CastInd, PoolSound
    <2>4. answer' \in {"none", "node", "error"} /\ wire' \in BOOLEAN
      BY <1>1 DEF Report, CastInd, TypeOK, StreamTypeOK
    <2> QED
      BY <1>1, <2>1, <2>2, <2>3, <2>4, NoFrameFacts, KickOutputStep, KickWindowStep DEF KickOutput, KickWindow
  <1> QED
    BY <1>2, <1>3

LEMMA StartLemma ==
    ASSUME Init
    PROVE  CastInd
  <1>1. /\ kind \in {"output", "window"} /\ thread = "new" /\ answer = "none"
        /\ stop = FALSE /\ dying = FALSE /\ pw = "connecting"
        /\ pool = [b \in Bufs |-> "absent"] /\ slots = [b \in Bufs |-> None]
        /\ frame = NoFrame /\ kicked = FALSE /\ lost = FALSE /\ target \in Sizes
        /\ spec \in Sizes \cup {None} /\ wire = TRUE
        /\ adv = None /\ negotiated = None /\ needs = FALSE /\ pushed = "no"
    BY DEF Init, StreamInit, OutputInit, WindowInit
  <1>2. TypeOK
    BY <1>1, NoFrameFacts DEF TypeOK, StreamTypeOK, Place
  <1>3. NotBooted /\ FrameHasBuffer /\ SlotsFit /\ PoolSound /\ OutputAsks
    BY <1>1, NoFrameFacts DEF NotBooted, FrameHasBuffer, SlotsFit, PoolSound, OutputAsks
  <1> QED
    BY <1>2, <1>3 DEF CastInd

\* A copy takes a free buffer out of the pool; one without a wl_buffer goes to
\* the consumer as it is.
LEMMA CopyStep ==
    ASSUME CastInd, Running, NEW b \in Bufs, Copy(b), UNCHANGED window
    PROVE  CastInd'
  <1>1. /\ frame.phase = "asked" /\ pool[b] = "free"
        /\ UNCHANGED <<kind, thread, answer, stop, dying, pw, slots, kicked, lost, target, window, spec>>
    BY DEF Copy, life
  <1>2. /\ pool \in [Bufs -> Place] /\ frame \in Frame /\ frame.buf = None /\ kicked
        /\ answer \in {"none", "node", "error"} /\ wire \in BOOLEAN /\ kicked \in BOOLEAN
        /\ pw \in {"connecting", "paused", "streaming", "dead"}
    BY <1>1, NoFrameFacts DEF CastInd, TypeOK, StreamTypeOK, FrameHasBuffer
  <1>3. /\ \A c \in Bufs : pool[c] # "bad"
        /\ ~dying /\ pushed = "no" => \A c \in Bufs : pool[c] # "held"
    BY <1>2, CastAssumption DEF CastInd, PoolSound
  <1>4. CASE slots[b] = None
    <2>1. pool' = [pool EXCEPT ![b] = "consumer"] /\ frame' = [frame EXCEPT !.phase = "announced"] /\ UNCHANGED wire
      BY <1>4 DEF Copy
    <2>2. frame' \in Frame /\ frame'.phase = "announced" /\ frame'.buf = None
      BY <1>2, <2>1 DEF Frame
    <2>3. pool' \in [Bufs -> Place] /\ pool'[b] = "consumer" /\ \A c \in Bufs : c # b => pool'[c] = pool[c]
      BY <1>2, <2>1 DEF Place
    <2>4. \A c \in Bufs : pool'[c] # "bad"
      BY <1>3, <2>3
    <2>5. ~dying /\ pushed = "no" => \A c \in Bufs : pool'[c] # "held"
      BY <1>3, <2>3
    <2> QED
      BY <1>1, <1>2, <2>1, <2>2, <2>3, <2>4, <2>5, CaptureStep
  <1>5. CASE slots[b] # None
    <2>1. pool' = [pool EXCEPT ![b] = "held"] /\ frame' = [phase |-> "copying", buf |-> b] /\ wire' \in BOOLEAN
      BY <1>5 DEF Copy, Dequeue
    <2>2. frame' \in Frame /\ frame'.phase = "copying" /\ frame'.buf = b /\ b # None
      BY <2>1, CastAssumption DEF Frame
    <2>3. pool' \in [Bufs -> Place] /\ pool'[b] = "held" /\ \A c \in Bufs : c # b => pool'[c] = pool[c]
      BY <1>2, <2>1 DEF Place
    <2>4. \A c \in Bufs : pool'[c] # "bad"
      BY <1>3, <2>3
    <2>5. ~dying /\ pushed = "no" => \A c \in Bufs : pool'[c] = "held" => frame'.buf = c
      BY <1>3, <2>2, <2>3
    <2> QED
      BY <1>1, <1>2, <1>5, <2>1, <2>2, <2>3, <2>4, <2>5, CaptureStep
  <1> QED
    BY <1>4, <1>5

\* An answered capture of an output: its buffer is queued, the next is asked for.
LEMMA AnsweredStep ==
    ASSUME CastInd, Running, frame.phase # "none", Answered, UNCHANGED window
    PROVE  CastInd'
  <1>1. /\ frame' = Asked /\ pool' = IF frame.buf = None THEN pool ELSE Queue(frame.buf)
        /\ UNCHANGED <<kind, thread, answer, stop, dying, pw, slots, kicked, lost, target, window, spec, wire>>
    BY DEF Answered, life, output
  <1>2. /\ pool \in [Bufs -> Place] /\ frame \in Frame /\ kicked
        /\ answer \in {"none", "node", "error"} /\ wire \in BOOLEAN /\ kicked \in BOOLEAN
        /\ pw \in {"connecting", "paused", "streaming", "dead"}
    BY NoFrameFacts DEF CastInd, TypeOK, StreamTypeOK, FrameHasBuffer
  <1>3. frame' \in Frame /\ frame'.buf = None /\ frame'.phase # "copying" /\ (~dying => frame'.phase # "none")
    BY <1>1, NoFrameFacts DEF Asked, Frame
  <1>4. /\ pool' \in [Bufs -> Place] /\ \A b \in Bufs : pool'[b] # "bad"
        /\ ~dying /\ pushed = "no" => \A b \in Bufs : pool'[b] # "held"
    <2>1. CASE frame.buf = None
      BY <1>1, <1>2, <2>1, CastAssumption DEF CastInd, PoolSound
    <2>2. CASE frame.buf # None
      <3>1. /\ pool' \in [Bufs -> Place] /\ pool'[frame.buf] = "consumer"
            /\ \A b \in Bufs : b # frame.buf => pool'[b] = pool[b]
        BY <1>1, <2>2, QueueLemma
      <3> QED
        BY <3>1 DEF CastInd, PoolSound
    <2> QED
      BY <2>1, <2>2
  <1> QED
    BY <1>1, <1>2, <1>3, <1>4, CaptureStep

\* An answered capture of a window: its buffer is queued and the next one is
\* captured into.
LEMMA WindowFrameStep ==
    ASSUME CastInd, kind = "window", Running, frame.phase = "copying", WindowFrameAnswered, UNCHANGED output
    PROVE  CastInd'
  <1>1. KickIn(Queue(frame.buf))
        /\ UNCHANGED <<kind, thread, answer, stop, dying, pw, slots, kicked, lost, target, window, spec, wire>>
    BY DEF WindowFrameAnswered, life, output
  <1>2. /\ frame.buf # None /\ kicked = TRUE
        /\ answer \in {"none", "node", "error"} /\ wire \in BOOLEAN
        /\ pw \in {"connecting", "paused", "streaming", "dead"}
    BY NoFrameFacts DEF CastInd, TypeOK, StreamTypeOK, FrameHasBuffer
  <1> DEFINE p == Queue(frame.buf)
  <1>3. /\ p \in [Bufs -> Place] /\ p[frame.buf] = "consumer"
        /\ \A b \in Bufs : b # frame.buf => p[b] = pool[b]
    BY <1>2, QueueLemma
  <1>4. KickIn(p)
    BY <1>1
  <1> HIDE DEF p
  <1>5. \A b \in Bufs : p[b] # "bad"
    BY <1>3 DEF CastInd, PoolSound
  <1>6. ~dying /\ pushed = "no" => \A b \in Bufs : p[b] # "held"
    BY <1>3 DEF CastInd, PoolSound
  <1> QED
    BY <1>1, <1>2, <1>3, <1>4, <1>5, <1>6, KickWindowStep

\* The sizes of a window: told at the start and by the session, then negotiated.
LEMMA SizesStep ==
    ASSUME CastInd, kind = "window", WindowBoot \/ BufferSize \/ MaybeRenegotiate, UNCHANGED output
    PROVE  CastInd'
  <1>1. CASE WindowBoot
    <2>1. /\ thread = "starting" /\ thread' = "running" /\ target # None
          /\ adv' = target /\ negotiated' = target
          /\ UNCHANGED <<kind, answer, stop, dying, pw, pool, slots, frame, kicked, lost, target, needs, pushed, spec, wire>>
      BY <1>1 DEF WindowBoot, pipewire, capture, output
    <2>2. \A b \in Bufs : pool[b] = "absent" /\ slots[b] = None
      BY <2>1 DEF CastInd, NotBooted
    <2>3. TypeOK'
      BY <2>1 DEF CastInd, TypeOK, StreamTypeOK
    <2>4. NotBooted' /\ FrameHasBuffer' /\ SlotsFit' /\ PoolSound' /\ OutputAsks'
      BY <2>1, <2>2 DEF CastInd, NotBooted, FrameHasBuffer, SlotsFit, PoolSound, OutputAsks
    <2> QED
      BY <2>3, <2>4 DEF CastInd
  <1>2. CASE BufferSize
    <2>1. /\ Running /\ target # adv /\ needs' = (needs \/ target # negotiated) /\ adv' = target
          /\ UNCHANGED <<kind, thread, answer, stop, dying, pw, pool, slots, frame, kicked, lost, target,
                         negotiated, pushed, spec, wire>>
      BY <1>2 DEF BufferSize, life, pipewire, capture, output
    <2>2. TypeOK'
      BY <2>1 DEF CastInd, TypeOK, StreamTypeOK
    <2>3. needs'
      BY <2>1 DEF CastInd, SlotsFit
    <2>4. NotBooted' /\ FrameHasBuffer' /\ SlotsFit' /\ PoolSound' /\ OutputAsks'
      BY <2>1, <2>3 DEF CastInd, NotBooted, FrameHasBuffer, SlotsFit, PoolSound, OutputAsks, Running
    <2> QED
      BY <2>2, <2>4 DEF CastInd
  <1>3. CASE MaybeRenegotiate
    <2>1. /\ Running /\ needs' = FALSE /\ negotiated' = adv /\ frame' = NoFrame
          /\ pushed' \in {"yes", "failed"} /\ (kicked' = FALSE \/ kicked' = kicked)
          /\ UNCHANGED <<kind, thread, answer, stop, dying, pw, pool, slots, lost, target, adv, spec, wire>>
      BY <1>3 DEF MaybeRenegotiate, life, pipewire, output
    <2>2. TypeOK'
      <3>1. kicked \in BOOLEAN
        BY DEF CastInd, TypeOK, StreamTypeOK
      <3>2. kicked' \in BOOLEAN /\ needs' \in BOOLEAN
        BY <2>1, <3>1
      <3> QED
        BY <2>1, <3>2, NoFrameFacts DEF CastInd, TypeOK, StreamTypeOK
    <2>3. NotBooted' /\ FrameHasBuffer' /\ SlotsFit' /\ PoolSound' /\ OutputAsks'
      BY <2>1, NoFrameFacts DEF CastInd, NotBooted, FrameHasBuffer, SlotsFit, PoolSound, OutputAsks, Running
    <2> QED
      BY <2>2, <2>3 DEF CastInd
  <1> QED
    BY <1>1, <1>2, <1>3

LEMMA OutputStep ==
    ASSUME CastInd, kind = "output", OutputNext, UNCHANGED window
    PROVE  CastInd'
  <1>1. CASE OutputBoot \/ OutputChanges
    BY <1>1, QuietStep DEF OutputBoot, OutputChanges, life, pipewire, capture, output,
                           CastInd, TypeOK, StreamTypeOK
  <1>2. CASE OutputStreaming
    BY <1>2, StreamingStep DEF OutputStreaming
  <1>3. CASE OutputAddBuffers
    <2>1. spec \in Sizes \cup {None} /\ AddBuffers(spec) /\ UNCHANGED <<adv, negotiated, needs, pushed, output>>
      BY <1>3 DEF OutputAddBuffers, CastInd, TypeOK, window
    <2> QED
      BY <2>1, AddBuffersStep
  <1>4. CASE Running /\ NoBuffer
    <2>1. /\ frame.phase = "asked" /\ KickOutput
          /\ UNCHANGED <<kind, thread, answer, stop, dying, pw, slots, kicked, lost, target, window, spec, wire>>
      BY <1>4 DEF NoBuffer, life, output
    <2>2. frame.buf = None /\ kicked = TRUE
      BY <2>1, NoFrameFacts DEF CastInd, FrameHasBuffer, TypeOK, StreamTypeOK
    <2> QED
      BY <1>4, <2>1, <2>2, KickOutputStep DEF KickOutput, CastInd, TypeOK, StreamTypeOK
  <1>5. ASSUME NEW b \in Bufs, Running, Copy(b)
        PROVE  CastInd'
    BY <1>5, CopyStep
  <1>6. CASE OutputFrameReady \/ OutputFrameFailed
    BY <1>6, AnsweredStep DEF OutputFrameReady, OutputFrameFailed
  <1>7. CASE UNCHANGED output /\ (Spawn \/ Refuse \/ DropHandle \/ Paused)
    BY <1>7, QuietStep DEF Spawn, Refuse, DropHandle, Paused, pipewire, capture, output,
                           CastInd, TypeOK, StreamTypeOK
  <1>8. CASE UNCHANGED output /\ (Exit \/ RemoveBuffers)
    BY <1>8, ExitStep, RemoveBuffersStep
  <1>9. CASE UNCHANGED output /\ Die
    BY <1>9, DyingStep DEF Die
  <1>10. CASE UNCHANGED output /\ \E b \in Bufs : GiveBack(b)
    BY <1>10, GiveBackStep
  <1> QED
    BY <1>1, <1>2, <1>3, <1>4, <1>5, <1>6, <1>7, <1>8, <1>9, <1>10 DEF OutputNext

LEMMA WindowStep ==
    ASSUME CastInd, kind = "window", WindowNext, UNCHANGED output
    PROVE  CastInd'
  <1>1. CASE WindowBoot \/ BufferSize \/ MaybeRenegotiate
    BY <1>1, SizesStep
  <1>2. CASE WindowStreaming
    BY <1>2, StreamingStep DEF WindowStreaming
  <1>3. CASE WindowAddBuffers
    <2>1. adv \in Sizes \cup {None} /\ AddBuffers(adv) /\ pushed' = "no" /\ UNCHANGED <<adv, negotiated, needs>>
      BY <1>3 DEF WindowAddBuffers, CastInd, TypeOK
    <2> QED
      BY <2>1, AddBuffersStep
  <1>4. CASE WindowFrameReady \/ WindowFrameFailed
    BY <1>4, WindowFrameStep DEF WindowFrameReady, WindowFrameFailed
  <1>5. CASE WindowChanges
    BY <1>5, QuietStep DEF WindowChanges, life, pipewire, capture, output, CastInd, TypeOK, StreamTypeOK
  <1>6. CASE Stopped
    BY <1>6, DyingStep DEF Stopped, pipewire, CastInd, TypeOK, StreamTypeOK
  <1>7. CASE UNCHANGED window /\ (Spawn \/ Refuse \/ DropHandle \/ Paused)
    BY <1>7, QuietStep DEF Spawn, Refuse, DropHandle, Paused, pipewire, capture, output,
                           CastInd, TypeOK, StreamTypeOK
  <1>8. CASE UNCHANGED window /\ (Exit \/ RemoveBuffers)
    BY <1>8, ExitStep, RemoveBuffersStep
  <1>9. CASE UNCHANGED window /\ Die
    BY <1>9, DyingStep DEF Die
  <1>10. CASE UNCHANGED window /\ \E b \in Bufs : GiveBack(b)
    BY <1>10, GiveBackStep
  <1> QED
    BY <1>1, <1>2, <1>3, <1>4, <1>5, <1>6, <1>7, <1>8, <1>9, <1>10 DEF WindowNext

\* No step of the loop, of PipeWire, of the consumer or of the compositor takes
\* the stream out of the invariant.
LEMMA CastStep ==
    ASSUME CastInd, [Next]_vars
    PROVE  CastInd'
  <1>1. CASE UNCHANGED vars
    <2>1. UNCHANGED <<kind, thread, answer, stop, dying, pw, pool, slots, frame, kicked, lost, target, window, spec, wire>>
      BY <1>1 DEF vars, life, pipewire, capture, output
    <2> QED
      BY <2>1, QuietStep DEF CastInd, TypeOK, StreamTypeOK
  <1> QED
    BY <1>1, OutputStep, WindowStep DEF Next

-----------------------------------------------------------------------------
(* The theorems.                                                           *)

\* The pool, the frame in flight and the sizes agree at any time.
THEOREM CastInvariant == Spec => []CastInd
  <1> QED
    BY StartLemma, CastStep, PTL DEF Spec

\* A buffer is queued only while it is dequeued and was not freed, the buffer in
\* flight stays held and no other does, a window is captured in the size that
\* was last told, and an output cast has a capture with the compositor unless its
\* pool was taken away under one.
THEOREM CastSafe == Spec => []CastInv
  <1>1. CastInd => CastInv
    <2> SUFFICES ASSUME CastInd
                 PROVE  CastInv
      OBVIOUS
    <2>1. BuffersAccounted
      BY DEF CastInd, FrameHasBuffer, PoolSound, BuffersAccounted
    <2>2. FramesFit
      <3>1. frame.phase = "copying" => frame.buf \in Bufs /\ slots[frame.buf] # None
        BY DEF CastInd, FrameHasBuffer, TypeOK, StreamTypeOK, Frame
      <3> QED
        BY <3>1 DEF CastInd, SlotsFit, FramesFit
    <2> QED
      BY <2>1, <2>2 DEF CastInd, CastInv
  <1> QED
    BY <1>1, CastInvariant, PTL

\* Seen from who starts and drops it, a thread of either kind takes only the
\* steps that CastThread allows: one answer, no exit unless it was refused or
\* told to stop.  (That it does exit is its liveness, and checked by a run.)
THEOREM ThreadTakesSteps == Spec => Promise!Init /\ [][Promise!Next]_<<Life, answer>>
  <1>1. Init => Promise!Init
    BY DEF Init, StreamInit, Promise!Init, Life
  <1>2. ASSUME CastInd, [Next]_vars
        PROVE  [Promise!Next]_<<Life, answer>>
    <2> SUFFICES ASSUME ~UNCHANGED <<Life, answer>>
                 PROVE  Promise!Next
      OBVIOUS
    <2>1. /\ thread \in {"new", "starting"} => answer = "none" /\ ~stop
          /\ answer \in {"none", "node", "error"}
      BY <1>2 DEF CastInd, NotBooted, TypeOK, StreamTypeOK
    <2>2. CASE UNCHANGED <<thread, answer, stop>>
      BY <2>2 DEF Life
    <2>3. CASE Spawn
      BY <2>1, <2>3 DEF Spawn, Life, Promise!Next, Promise!Spawn
    <2>4. CASE Refuse
      BY <2>1, <2>4 DEF Refuse, Life, Promise!Next, Promise!Refuse
    <2>5. CASE DropHandle
      BY <2>1, <2>5 DEF DropHandle, Life, Promise!Next, Promise!Stop
    <2>6. CASE Exit
      BY <2>1, <2>6 DEF Exit, Life, Running, Promise!Next, Promise!Exit
    <2>7. CASE Running /\ Report /\ UNCHANGED <<thread, stop>>
      BY <2>1, <2>7 DEF Report, Life, Running, Promise!Next, Promise!Report
    <2>8. CASE Running /\ stop' = TRUE /\ UNCHANGED <<thread, answer>>
      BY <2>1, <2>8 DEF Life, Running, Promise!Next, Promise!Stop
    <2>9. CASE thread = "starting" /\ thread' = "running" /\ UNCHANGED <<answer, stop>>
      BY <2>1, <2>9 DEF Life
    <2>10. \/ UNCHANGED <<thread, answer, stop>> \/ Spawn \/ Refuse \/ DropHandle \/ Exit
           \/ Running /\ Report /\ UNCHANGED <<thread, stop>>
           \/ Running /\ stop' = TRUE /\ UNCHANGED <<thread, answer>>
           \/ thread = "starting" /\ thread' = "running" /\ UNCHANGED <<answer, stop>>
      <3>1. CASE UNCHANGED vars
        BY <3>1 DEF vars, life
      <3>2. CASE OutputNext
        BY <3>2 DEF OutputNext, OutputBoot, OutputStreaming, OutputAddBuffers, NoBuffer, Copy,
                    OutputFrameReady, OutputFrameFailed, Answered, OutputChanges, Paused, Die, RemoveBuffers,
                    GiveBack, Streaming, AddBuffers, life
      <3>3. CASE WindowNext
        BY <3>3 DEF WindowNext, WindowBoot, WindowStreaming, WindowAddBuffers, WindowFrameReady,
                    WindowFrameFailed, WindowFrameAnswered, BufferSize, Stopped, MaybeRenegotiate,
                    WindowChanges, Paused, Die, RemoveBuffers, GiveBack, Streaming, AddBuffers, life
      <3> QED
        BY <1>2, <3>1, <3>2, <3>3 DEF Next
    <2> QED
      BY <2>2, <2>3, <2>4, <2>5, <2>6, <2>7, <2>8, <2>9, <2>10
  <1> QED
    BY <1>1, <1>2, CastInvariant, PTL DEF Spec

-----------------------------------------------------------------------------
(* The ScreenCast interface: the inductive invariant.                      *)

\* A call has a session once it was made, and a thread while it waits for one;
\* what it found was of the types it asked for; its reply is its end.
CallSound(x) ==
    /\ x.phase # "new" => x.session \in Sessions
    /\ x.phase \in {"waiting", "joining"} => x.thread \in Threads
    /\ x.found \subseteq Of(x.asks) /\ (x.phase = "new" => x.found = {})
    /\ x.reply # "none" => x.phase = "done"

CallsSound == \A c \in Calls : CallSound(call[c])

\* A thread that answered with an error is gone.
ErrorsExit == \A t \in Threads : answers[t] = "error" => lives[t] = "exited"

ScreenCastInd == ScreenCastInv /\ CallsSound /\ ErrorsExit

-----------------------------------------------------------------------------
(* What is picked.                                                         *)

\* Whoever picks, and with whatever environment, picks nothing or a source that
\* was found.
LEMMA PickedOffered ==
    ASSUME NEW pick, NEW found, NEW set, NEW source \in Picked(pick, found, set)
    PROVE  source = Nothing \/ source \in found
  <1>1. \A x \in Heuristic(found, set) : x \in found
    BY DEF Heuristic
  <1>2. ASSUME NEW x \in ChooseSource(found, set)
        PROVE  x = Nothing \/ x \in found
    <2> DEFINE outs == found \cap Outputs
    <2>1. outs # {} => (CHOOSE o \in outs : TRUE) \in found
      OBVIOUS
    <2> HIDE DEF outs
    <2> DEFINE first == IF outs = {} THEN {Nothing} ELSE {CHOOSE o \in outs : TRUE}
    <2>2. \A y \in first : y = Nothing \/ y \in found
      BY <2>1
    <2>3. ChooseSource(found, set) = IF Heuristic(found, set) # {} THEN Heuristic(found, set)
                                     ELSE IF set.chooser THEN found \cup {Nothing} \cup first ELSE first
      BY DEF ChooseSource, outs
    <2> HIDE DEF first
    <2> QED
      BY <1>1, <2>2, <2>3
  <1> QED
    BY <1>2 DEF Picked

-----------------------------------------------------------------------------
(* The steps.                                                              *)

LEMMA ReplyLemma ==
    ASSUME NEW x \in Call, NEW code \in {"success", "cancelled", "other", "error"}
    PROVE  LET y == Reply(x, code)
           IN  /\ y \in Call /\ y.phase = "done" /\ y.reply = code /\ y.session = x.session
               /\ y.asks = x.asks /\ y.found = x.found /\ y.thread = x.thread
  BY DEF Reply, Call

\* A call c goes on to record y; no session is given another source than one
\* that was offered to it, and no thread is left behind: one that runs is
\* awaited by c, or the stream of a session, or was in other hands before.
CallGoes(c, y) ==
    /\ call' = [call EXCEPT ![c] = y] /\ call[c].reply = "none"
    /\ UNCHANGED <<setting, answers>>
    /\ sessions' \in [Sessions -> Outputs \cup Windows \cup {Nothing}]
    /\ streams' \in [Sessions -> Threads \cup {Nothing}]
    /\ lives' \in [Threads -> {"new", "starting", "running", "stopping", "exited"}]
    /\ \A t \in Threads : answers[t] = "error" => lives'[t] = lives[t]
    /\ \A s \in Sessions :
          \/ sessions'[s] = sessions[s]
          \/ y.session = s /\ y.reply = "success" /\ sessions'[s] \in y.found
    /\ \A t \in Threads : lives'[t] \in {"starting", "running"} =>
          \/ y.phase = "waiting" /\ y.thread = t
          \/ \E s \in Sessions : streams'[s] = t
          \/ \E d \in Calls : d # c /\ call[d].phase = "waiting" /\ call[d].thread = t

LEMMA CallStep ==
    ASSUME ScreenCastInd, NEW c \in Calls, NEW y \in Call, CallSound(y), CallGoes(c, y)
    PROVE  ScreenCastInd'
  <1>1. call \in [Calls -> Call]
    BY DEF ScreenCastInd, ScreenCastInv, ScreenCastTypeOK
  <1>2. call'[c] = y /\ call' \in [Calls -> Call] /\ \A d \in Calls : d # c => call'[d] = call[d]
    BY <1>1 DEF CallGoes
  <1>3. ScreenCastTypeOK'
    BY <1>2 DEF ScreenCastInd, ScreenCastInv, ScreenCastTypeOK, CallGoes
  <1>4. CallsSound'
    BY <1>2 DEF ScreenCastInd, CallsSound
  <1>5. ErrorsExit'
    BY DEF ScreenCastInd, ErrorsExit, CallGoes
  <1>6. OnlyWhatWasOffered'
    <2> SUFFICES ASSUME NEW s \in Sessions, sessions'[s] # Nothing
                 PROVE  \E d \in Calls : /\ call'[d].session = s /\ call'[d].reply = "success"
                                         /\ sessions'[s] \in call'[d].found \cap Of(call'[d].asks)
      BY DEF OnlyWhatWasOffered, Of
    <2>1. CASE y.session = s /\ y.reply = "success" /\ sessions'[s] \in y.found
      BY <1>2, <2>1 DEF CallSound
    <2>2. CASE sessions'[s] = sessions[s]
      <3>1. PICK d \in Calls : /\ call[d].session = s /\ call[d].reply = "success"
                               /\ sessions[s] \in call[d].found \cap Of(call[d].asks)
        BY <2>2 DEF ScreenCastInd, ScreenCastInv, OnlyWhatWasOffered
      <3>2. d # c
        BY <3>1 DEF CallGoes
      <3> QED
        BY <1>2, <2>2, <3>1, <3>2
    <2> QED
      BY <2>1, <2>2 DEF CallGoes
  <1>7. NoStrayThread'
    <2> SUFFICES ASSUME NEW t \in Threads, lives'[t] \in {"starting", "running"}
                 PROVE  \/ \E d \in Calls : call'[d].phase = "waiting" /\ call'[d].thread = t
                        \/ \E s \in Sessions : streams'[s] = t
      BY DEF NoStrayThread
    <2>1. CASE y.phase = "waiting" /\ y.thread = t
      BY <1>2, <2>1
    <2>2. CASE \E d \in Calls : d # c /\ call[d].phase = "waiting" /\ call[d].thread = t
      BY <1>2, <2>2
    <2>3. CASE \E s \in Sessions : streams'[s] = t
      BY <2>3
    <2> QED
      BY <2>1, <2>2, <2>3 DEF CallGoes
  <1> QED
    BY <1>3, <1>4, <1>5, <1>6, <1>7 DEF ScreenCastInd, ScreenCastInv

\* A call goes on alone.  If it waited for a thread, that one is gone.
LEMMA QuietCall ==
    ASSUME ScreenCastInd, NEW c \in Calls, NEW y \in Call, CallSound(y),
           call' = [call EXCEPT ![c] = y], call[c].reply = "none",
           UNCHANGED <<setting, sessions, streams, lives, answers>>,
           call[c].phase = "waiting" => lives[call[c].thread] = "exited"
    PROVE  ScreenCastInd'
  <1>1. \A t \in Threads : lives'[t] \in {"starting", "running"} =>
          \/ \E s \in Sessions : streams'[s] = t
          \/ \E d \in Calls : d # c /\ call[d].phase = "waiting" /\ call[d].thread = t
    BY DEF ScreenCastInd, ScreenCastInv, NoStrayThread
  <1>2. CallGoes(c, y)
    BY <1>1 DEF CallGoes, ScreenCastInd, ScreenCastInv, ScreenCastTypeOK
  <1> QED
    BY <1>2, CallStep

LEMMA SelectStep ==
    ASSUME ScreenCastInd, NEW c \in Calls, NEW s \in Sessions, NEW types \in SUBSET {"monitor", "window"},
           SelectSources(c, s, types)
    PROVE  ScreenCastInd'
  <1>1. PICK y : y = [call[c] EXCEPT !.phase = "listing", !.session = s, !.asks = types]
    OBVIOUS
  <1>2. call[c].phase = "new" /\ call[c] \in Call /\ CallSound(call[c])
    BY DEF SelectSources, ScreenCastInd, ScreenCastInv, ScreenCastTypeOK, CallsSound
  <1>3. call' = [call EXCEPT ![c] = y] /\ UNCHANGED <<setting, sessions, streams, lives, answers>>
    BY <1>1 DEF SelectSources, ScreenCastInd, ScreenCastInv, ScreenCastTypeOK
  <1>4. y \in Call /\ CallSound(y) /\ call[c].reply = "none"
    BY <1>1, <1>2 DEF Call, CallSound
  <1> QED
    BY <1>2, <1>3, <1>4, QuietCall

LEMMA EnumerateStep ==
    ASSUME ScreenCastInd, NEW c \in Calls, Enumerate(c)
    PROVE  ScreenCastInd'
  <1>1. call[c].phase = "listing" /\ call[c] \in Call /\ CallSound(call[c])
    BY DEF Enumerate, ScreenCastInd, ScreenCastInv, ScreenCastTypeOK, CallsSound
  <1>2. UNCHANGED <<setting, sessions, streams, lives, answers>> /\ call \in [Calls -> Call]
    BY DEF Enumerate, ScreenCastInd, ScreenCastInv, ScreenCastTypeOK
  <1>3. CASE call' = [call EXCEPT ![c] = Reply(@, "error")]
    <2>1. PICK y : y = Reply(call[c], "error")
      OBVIOUS
    <2>2. y \in Call /\ CallSound(y) /\ call[c].reply = "none"
      BY <1>1, <2>1, ReplyLemma DEF CallSound
    <2>3. call' = [call EXCEPT ![c] = y]
      BY <1>2, <1>3, <2>1
    <2> QED
      BY <1>1, <1>2, <2>2, <2>3, QuietCall
  <1>4. ASSUME NEW outs \in ListedOutputs(call[c].asks), NEW wins \in ListedWindows(call[c].asks),
               call' = [call EXCEPT ![c] = [@ EXCEPT !.phase = "asking", !.found = outs \cup wins]]
        PROVE  ScreenCastInd'
    <2>1. PICK y : y = [call[c] EXCEPT !.phase = "asking", !.found = outs \cup wins]
      OBVIOUS
    <2>2. outs \cup wins \subseteq Of(call[c].asks) /\ outs \cup wins \subseteq Outputs \cup Windows
      BY DEF ListedOutputs, ListedWindows, Of
    <2>3. y \in Call /\ y.phase = "asking" /\ y.session = call[c].session /\ y.asks = call[c].asks
          /\ y.found = outs \cup wins /\ y.thread = call[c].thread /\ y.reply = call[c].reply
      BY <1>1, <2>1, <2>2 DEF Call
    <2>4. CallSound(y) /\ call[c].reply = "none"
      BY <1>1, <2>2, <2>3 DEF CallSound, Call
    <2>5. call' = [call EXCEPT ![c] = y]
      BY <1>2, <1>4, <2>1
    <2> QED
      BY <1>1, <1>2, <2>3, <2>4, <2>5, QuietCall
  <1> QED
    BY <1>3, <1>4 DEF Enumerate

\* Only Ask selects: what it selects is what was found.
LEMMA AskStep ==
    ASSUME ScreenCastInd, NEW c \in Calls, Ask(c)
    PROVE  ScreenCastInd'
  <1>1. /\ call[c].phase = "asking" /\ call[c] \in Call /\ CallSound(call[c]) /\ call \in [Calls -> Call]
        /\ UNCHANGED <<setting, streams, lives, answers>>
    BY DEF Ask, ScreenCastInd, ScreenCastInv, ScreenCastTypeOK, CallsSound
  <1>2. PICK pick \in Picks : \E source \in Picked(pick, call[c].found, setting) :
          /\ call' = [call EXCEPT ![c] = Reply(@, IF source = Nothing THEN "cancelled" ELSE "success")]
          /\ sessions' = IF source = Nothing THEN sessions
                         ELSE [sessions EXCEPT ![call[c].session] = source]
    BY DEF Ask
  <1>3. PICK source \in Picked(pick, call[c].found, setting) :
          /\ call' = [call EXCEPT ![c] = Reply(@, IF source = Nothing THEN "cancelled" ELSE "success")]
          /\ sessions' = IF source = Nothing THEN sessions
                         ELSE [sessions EXCEPT ![call[c].session] = source]
    BY <1>2
  <1>4. source = Nothing \/ source \in call[c].found
    BY PickedOffered
  <1>5. PICK y : y = Reply(call[c], IF source = Nothing THEN "cancelled" ELSE "success")
    OBVIOUS
  <1>6. /\ y \in Call /\ y.phase = "done" /\ y.session = call[c].session /\ y.found = call[c].found
        /\ y.asks = call[c].asks /\ (source # Nothing => y.reply = "success")
    BY <1>1, <1>5, ReplyLemma
  <1>7. CallSound(y) /\ call[c].reply = "none" /\ call[c].session \in Sessions
    BY <1>1, <1>6 DEF CallSound, Call
  <1>8. call' = [call EXCEPT ![c] = y]
    BY <1>1, <1>3, <1>5
  <1>9. sessions \in [Sessions -> Outputs \cup Windows \cup {Nothing}]
    BY DEF ScreenCastInd, ScreenCastInv, ScreenCastTypeOK
  <1>10. /\ sessions' \in [Sessions -> Outputs \cup Windows \cup {Nothing}]
         /\ \A s \in Sessions :
              \/ sessions'[s] = sessions[s]
              \/ y.session = s /\ y.reply = "success" /\ sessions'[s] \in y.found
    <2>1. CASE source = Nothing
      BY <1>3, <1>9, <2>1
    <2>2. CASE source # Nothing
      <3>1. source \in Outputs \cup Windows /\ source \in y.found
        BY <1>1, <1>4, <1>6, <2>2 DEF Call
      <3>2. sessions' = [sessions EXCEPT ![call[c].session] = source]
        BY <1>3, <2>2
      <3> QED
        BY <1>6, <1>7, <1>9, <2>2, <3>1, <3>2
    <2> QED
      BY <2>1, <2>2
  <1>11. \A t \in Threads : lives'[t] \in {"starting", "running"} =>
          \/ \E s \in Sessions : streams'[s] = t
          \/ \E d \in Calls : d # c /\ call[d].phase = "waiting" /\ call[d].thread = t
    BY <1>1 DEF ScreenCastInd, ScreenCastInv, NoStrayThread
  <1>12. CallGoes(c, y)
    BY <1>1, <1>7, <1>8, <1>10, <1>11 DEF CallGoes, ScreenCastInd, ScreenCastInv, ScreenCastTypeOK
  <1> QED
    BY <1>6, <1>7, <1>12, CallStep

\* A thread that is started is awaited by the call that started it.
LEMMA StartStep ==
    ASSUME ScreenCastInd, NEW c \in Calls, NEW s \in Sessions, Start(c, s)
    PROVE  ScreenCastInd'
  <1>1. /\ call[c].phase = "new" /\ call[c] \in Call /\ CallSound(call[c]) /\ call \in [Calls -> Call]
        /\ UNCHANGED <<setting, sessions, streams, answers>>
    BY DEF Start, ScreenCastInd, ScreenCastInv, ScreenCastTypeOK, CallsSound
  <1>2. CASE sessions[s] = Nothing
    <2>1. PICK x : x = [call[c] EXCEPT !.session = s]
      OBVIOUS
    <2>2. x \in Call /\ x.session = s /\ x.found = call[c].found /\ x.asks = call[c].asks
      BY <1>1, <2>1 DEF Call
    <2>3. PICK y : y = Reply(x, "cancelled")
      OBVIOUS
    <2>4. y \in Call /\ CallSound(y) /\ call[c].reply = "none"
      BY <1>1, <2>2, <2>3, ReplyLemma DEF CallSound
    <2>5. call' = [call EXCEPT ![c] = y] /\ UNCHANGED lives
      BY <1>1, <1>2, <2>1, <2>3 DEF Start
    <2> QED
      BY <1>1, <2>4, <2>5, QuietCall
  <1>3. CASE sessions[s] # Nothing
    <2>1. PICK t : t = CHOOSE u \in Threads : lives[u] = "new"
      OBVIOUS
    <2>2. /\ \E u \in Threads : lives[u] = "new"
          /\ lives' = [lives EXCEPT ![t] = "starting"]
          /\ call' = [call EXCEPT ![c] = [@ EXCEPT !.phase = "waiting", !.session = s, !.thread = t]]
      BY <1>3, <2>1 DEF Start
    <2>3. t \in Threads /\ lives[t] = "new"
      BY <2>1, <2>2
    <2>4. PICK y : y = [call[c] EXCEPT !.phase = "waiting", !.session = s, !.thread = t]
      OBVIOUS
    <2>5. /\ y \in Call /\ y.phase = "waiting" /\ y.session = s /\ y.thread = t
          /\ y.asks = call[c].asks /\ y.found = call[c].found /\ y.reply = call[c].reply
      BY <1>1, <2>3, <2>4 DEF Call
    <2>6. CallSound(y) /\ call[c].reply = "none"
      BY <1>1, <2>3, <2>5 DEF CallSound, Call
    <2>7. call' = [call EXCEPT ![c] = y]
      BY <1>1, <2>2, <2>4
    <2>8. /\ lives' \in [Threads -> {"new", "starting", "running", "stopping", "exited"}]
          /\ \A u \in Threads : u # t => lives'[u] = lives[u]
      BY <2>2, <2>3 DEF ScreenCastInd, ScreenCastInv, ScreenCastTypeOK
    <2>9. \A u \in Threads : answers[u] = "error" => lives'[u] = lives[u]
      BY <2>3, <2>8 DEF ScreenCastInd, ErrorsExit
    <2>10. \A u \in Threads : lives'[u] \in {"starting", "running"} =>
             \/ y.phase = "waiting" /\ y.thread = u
             \/ \E r \in Sessions : streams'[r] = u
             \/ \E d \in Calls : d # c /\ call[d].phase = "waiting" /\ call[d].thread = u
      BY <1>1, <2>5, <2>8 DEF ScreenCastInd, ScreenCastInv, NoStrayThread
    <2>11. CallGoes(c, y)
      BY <1>1, <2>6, <2>7, <2>8, <2>9, <2>10 DEF CallGoes, ScreenCastInd, ScreenCastInv, ScreenCastTypeOK
    <2> QED
      BY <2>5, <2>6, <2>11, CallStep
  <1> QED
    BY <1>2, <1>3

LEMMA StartFailedStep ==
    ASSUME ScreenCastInd, NEW c \in Calls, StartFailed(c)
    PROVE  ScreenCastInd'
  <1>1. /\ call[c].phase = "waiting" /\ call[c] \in Call /\ CallSound(call[c]) /\ call \in [Calls -> Call]
        /\ answers[call[c].thread] = "error"
        /\ call' = [call EXCEPT ![c] = Reply(@, "other")]
        /\ UNCHANGED <<setting, sessions, streams, lives, answers>>
    BY DEF StartFailed, ScreenCastInd, ScreenCastInv, ScreenCastTypeOK, CallsSound
  <1>2. PICK y : y = Reply(call[c], "other")
    OBVIOUS
  <1>3. y \in Call /\ CallSound(y) /\ call[c].reply = "none" /\ call[c].thread \in Threads
    BY <1>1, <1>2, ReplyLemma DEF CallSound
  <1>4. lives[call[c].thread] = "exited"
    BY <1>1, <1>3 DEF ScreenCastInd, ErrorsExit
  <1>5. call' = [call EXCEPT ![c] = y]
    BY <1>1, <1>2
  <1> QED
    BY <1>1, <1>3, <1>4, <1>5, QuietCall

LEMMA JoinedStep ==
    ASSUME ScreenCastInd, NEW c \in Calls, Joined(c)
    PROVE  ScreenCastInd'
  <1>1. /\ call[c].phase = "joining" /\ call[c] \in Call /\ CallSound(call[c]) /\ call \in [Calls -> Call]
        /\ call' = [call EXCEPT ![c] = Reply(@, "success")]
        /\ UNCHANGED <<setting, sessions, streams, lives, answers>>
    BY DEF Joined, ScreenCastInd, ScreenCastInv, ScreenCastTypeOK, CallsSound
  <1>2. PICK y : y = Reply(call[c], "success")
    OBVIOUS
  <1>3. y \in Call /\ CallSound(y) /\ call[c].reply = "none"
    BY <1>1, <1>2, ReplyLemma DEF CallSound
  <1>4. call' = [call EXCEPT ![c] = y]
    BY <1>1, <1>2
  <1> QED
    BY <1>1, <1>3, <1>4, QuietCall

LEMMA StoppedLemma ==
    ASSUME ScreenCastInd, NEW t
    PROVE  /\ Stopping(t) \in [Threads -> {"new", "starting", "running", "stopping", "exited"}]
           /\ \A u \in Threads : Stopping(t)[u] \in {"starting", "running"} =>
                 u # t /\ lives[u] \in {"starting", "running"}
           /\ \A u \in Threads : lives[u] = "exited" => Stopping(t)[u] = "exited"
  BY DEF ScreenCastInd, ScreenCastInv, ScreenCastTypeOK, Stopping

\* The stream of a session is replaced: the old thread was told to stop.
LEMMA InsertStep ==
    ASSUME ScreenCastInd, ScreenCastAssumption, NEW c \in Calls, Insert(c)
    PROVE  ScreenCastInd'
  <1>1. /\ call[c].phase = "waiting" /\ call[c] \in Call /\ CallSound(call[c]) /\ call \in [Calls -> Call]
        /\ UNCHANGED <<setting, sessions, answers>>
    BY DEF Insert, ScreenCastInd, ScreenCastInv, ScreenCastTypeOK, CallsSound
  <1>2. PICK s \in Sessions : s = call[c].session
    BY <1>1 DEF CallSound
  <1>3. PICK old : old = streams[s]
    OBVIOUS
  <1>4. /\ streams \in [Sessions -> Threads \cup {Nothing}]
        /\ lives \in [Threads -> {"new", "starting", "running", "stopping", "exited"}]
        /\ call[c].thread \in Threads /\ call[c].reply = "none"
    BY <1>1 DEF ScreenCastInd, ScreenCastInv, ScreenCastTypeOK, CallSound
  <1>5. streams' = [streams EXCEPT ![s] = call[c].thread]
    BY <1>2 DEF Insert
  <1>6. /\ streams' \in [Sessions -> Threads \cup {Nothing}] /\ streams'[s] = call[c].thread
        /\ \A r \in Sessions : r # s => streams'[r] = streams[r]
    BY <1>4, <1>5
  <1>7. PICK y : y = IF old = Nothing THEN Reply(call[c], "success")
                     ELSE [call[c] EXCEPT !.phase = "joining", !.thread = old]
    OBVIOUS
  <1>8. call' = [call EXCEPT ![c] = y]
    BY <1>1, <1>2, <1>3, <1>7 DEF Insert
  <1>9. y \in Call /\ CallSound(y)
    <2>1. CASE old = Nothing
      BY <1>1, <1>7, <2>1, ReplyLemma DEF CallSound
    <2>2. CASE old # Nothing
      <3>1. old \in Threads
        BY <1>3, <1>4, <2>2
      <3>2. /\ y \in Call /\ y.phase = "joining" /\ y.thread = old /\ y.session = call[c].session
            /\ y.asks = call[c].asks /\ y.found = call[c].found /\ y.reply = call[c].reply
        BY <1>1, <1>7, <2>2, <3>1 DEF Call
      <3> QED
        BY <1>1, <3>1, <3>2 DEF CallSound, Call
    <2> QED
      BY <2>1, <2>2
  <1>10. lives' = IF old = Nothing THEN lives ELSE Stopping(old)
    BY <1>2, <1>3 DEF Insert
  <1>11. /\ lives' \in [Threads -> {"new", "starting", "running", "stopping", "exited"}]
         /\ \A u \in Threads : lives'[u] \in {"starting", "running"} =>
               u # old /\ lives[u] \in {"starting", "running"}
         /\ \A u \in Threads : lives[u] = "exited" => lives'[u] = "exited"
    BY <1>4, <1>10, StoppedLemma DEF ScreenCastAssumption
  <1>12. ASSUME NEW u \in Threads, lives'[u] \in {"starting", "running"}
         PROVE  \/ \E r \in Sessions : streams'[r] = u
                \/ \E d \in Calls : d # c /\ call[d].phase = "waiting" /\ call[d].thread = u
    <2>1. u # old /\ lives[u] \in {"starting", "running"}
      BY <1>11, <1>12
    <2>2. CASE \E d \in Calls : call[d].phase = "waiting" /\ call[d].thread = u
      BY <1>6, <2>2
    <2>3. ASSUME NEW r \in Sessions, streams[r] = u
          PROVE  \E q \in Sessions : streams'[q] = u
      BY <1>3, <1>6, <2>1, <2>3
    <2> QED
      BY <2>1, <2>2, <2>3 DEF ScreenCastInd, ScreenCastInv, NoStrayThread
  <1>13. \A t \in Threads : answers[t] = "error" => lives'[t] = lives[t]
    BY <1>11 DEF ScreenCastInd, ErrorsExit
  <1>14. CallGoes(c, y)
    BY <1>1, <1>4, <1>6, <1>8, <1>11, <1>12, <1>13 DEF CallGoes, ScreenCastInd, ScreenCastInv, ScreenCastTypeOK
  <1> QED
    BY <1>9, <1>14, CallStep

\* A thread goes its own way; it is never one that stopped.
LEMMA ThreadStep ==
    ASSUME ScreenCastInd, NEW t \in Threads, Threaded(t)
    PROVE  ScreenCastInd'
  <1>1. /\ UNCHANGED <<setting, call, sessions, streams>>
        /\ lives \in [Threads -> {"new", "starting", "running", "stopping", "exited"}]
        /\ answers \in [Threads -> {"none", "node", "error"}]
    BY DEF Threaded, ScreenCastInd, ScreenCastInv, ScreenCastTypeOK
  <1>2. /\ lives' \in [Threads -> {"new", "starting", "running", "stopping", "exited"}]
        /\ answers' \in [Threads -> {"none", "node", "error"}]
        /\ \A u \in Threads : lives'[u] \in {"starting", "running"} => lives[u] \in {"starting", "running"}
        /\ \A u \in Threads : lives[u] = "exited" => lives'[u] = "exited"
        /\ \A u \in Threads : answers'[u] = "error" => answers[u] = "error" \/ lives'[u] = "exited"
    <2>1. CASE /\ lives[t] \in {"starting", "stopping"} /\ answers[t] = "none"
               /\ answers' = [answers EXCEPT ![t] = "node"]
               /\ lives' = [lives EXCEPT ![t] = IF @ = "starting" THEN "running" ELSE @]
      BY <1>1, <2>1
    <2>2. CASE /\ lives[t] = "starting" /\ lives' = [lives EXCEPT ![t] = "exited"]
               /\ answers' = [answers EXCEPT ![t] = "error"]
      BY <1>1, <2>2
    <2>3. CASE lives' = Stopping(t) /\ UNCHANGED answers
      <3>1. \A u \in Threads : Stopping(t)[u] = IF u = t /\ lives[t] \in {"starting", "running"} THEN "stopping" ELSE lives[u]
        BY <1>1 DEF Stopping
      <3>2. lives' \in [Threads -> {"new", "starting", "running", "stopping", "exited"}]
        BY <2>3, StoppedLemma
      <3> QED
        BY <1>1, <2>3, <3>1, <3>2
    <2>4. CASE ThreadExits(t)
      BY <1>1, <2>4 DEF ThreadExits
    <2> QED
      BY <2>1, <2>2, <2>3, <2>4 DEF Threaded, Thread
  <1>3. ScreenCastTypeOK' /\ OnlyWhatWasOffered' /\ CallsSound'
    <2>1. ScreenCastTypeOK'
      BY <1>1, <1>2 DEF ScreenCastInd, ScreenCastInv, ScreenCastTypeOK
    <2>2. OnlyWhatWasOffered' /\ CallsSound'
      BY <1>1 DEF ScreenCastInd, ScreenCastInv, OnlyWhatWasOffered, CallsSound, Of
    <2> QED
      BY <2>1, <2>2
  <1>4. NoStrayThread' /\ ErrorsExit'
    BY <1>1, <1>2 DEF ScreenCastInd, ScreenCastInv, NoStrayThread, ErrorsExit
  <1> QED
    BY <1>3, <1>4 DEF ScreenCastInd, ScreenCastInv

LEMMA StartCallLemma ==
    ASSUME ScreenCastInit
    PROVE  ScreenCastInd
  <1>1. /\ setting \in Settings /\ call = [c \in Calls |-> Fresh]
        /\ sessions = [s \in Sessions |-> Nothing] /\ streams = [s \in Sessions |-> Nothing]
        /\ lives = [t \in Threads |-> "new"] /\ answers = [t \in Threads |-> "none"]
    BY DEF ScreenCastInit
  <1>2. Fresh \in Call /\ CallSound(Fresh)
    BY DEF Fresh, Call, CallSound
  <1>3. ScreenCastTypeOK
    BY <1>1, <1>2 DEF ScreenCastTypeOK
  <1>4. NoStrayThread /\ OnlyWhatWasOffered /\ CallsSound /\ ErrorsExit
    BY <1>1, <1>2 DEF NoStrayThread, OnlyWhatWasOffered, CallsSound, ErrorsExit
  <1> QED
    BY <1>3, <1>4 DEF ScreenCastInd, ScreenCastInv

LEMMA ScreenCastStep ==
    ASSUME ScreenCastInd, ScreenCastAssumption, [ScreenCastNext]_castVars
    PROVE  ScreenCastInd'
  <1>1. CASE UNCHANGED castVars
    BY <1>1 DEF castVars, ScreenCastInd, ScreenCastInv, ScreenCastTypeOK, NoStrayThread, OnlyWhatWasOffered, CallsSound,
                ErrorsExit
  <1>2. ASSUME NEW c \in Calls, Serve(c)
        PROVE  ScreenCastInd'
    BY <1>2, EnumerateStep, AskStep, StartFailedStep, InsertStep, JoinedStep DEF Serve
  <1>3. ASSUME NEW c \in Calls, NEW s \in Sessions,
               Start(c, s) \/ \E ts \in SUBSET {"monitor", "window"} : SelectSources(c, s, ts)
        PROVE  ScreenCastInd'
    BY <1>3, StartStep, SelectStep
  <1>4. ASSUME NEW t \in Threads, Threaded(t)
        PROVE  ScreenCastInd'
    BY <1>4, ThreadStep
  <1> QED
    BY <1>1, <1>2, <1>3, <1>4 DEF ScreenCastNext

-----------------------------------------------------------------------------
(* The theorems.                                                           *)

\* The calls, the sessions and the streams agree with the threads at any time.
THEOREM ScreenCastInvariant == ASSUME ScreenCastAssumption PROVE ScreenCastSpec => []ScreenCastInd
  <1> QED
    BY StartCallLemma, ScreenCastStep, PTL DEF ScreenCastSpec

\* However many calls are in flight and however threads fail, no thread streams
\* that nobody can stop, and a session casts only what it was offered.
THEOREM NothingStray == ASSUME ScreenCastAssumption PROVE ScreenCastSpec => []ScreenCastInv
  <1>1. ScreenCastInd => ScreenCastInv
    BY DEF ScreenCastInd
  <1> QED
    BY <1>1, ScreenCastInvariant, PTL
=============================================================================
