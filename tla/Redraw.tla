------------------------------- MODULE Redraw -------------------------------
(***************************************************************************)
(* The tty backend's repaint pacing (backend/tty.rs): one redraw state     *)
(* machine per lit output, the event-loop idle callbacks and timers that   *)
(* drive it, the DRM compositor's queue of frames, VT switches and output  *)
(* hotplug.  What a frame shows is a member of Scenes; the damage tracker  *)
(* is one flag per output, "something changed since the last frame".       *)
(***************************************************************************)
EXTENDS Naturals, FiniteSets

CONSTANTS Outputs,     \* connectors, each with the crtc that would drive it
          Scenes,      \* what a frame can show
          NoFrame,     \* no frame of ours (not a scene)
          AsyncFlip,   \* the outputs whose hardware can tear
          Switchable,  \* the outputs the user's settings may disable
          Failures,    \* the errors that may happen in this instance
          Animations,  \* whether animations run in this instance
          VtSwitches,  \* whether the session is switched away in this instance
          MaxIdles,    \* bound: idle callbacks of one output registered at once
          MaxTimers,   \* bound: timers of one output running at once
          MaxStale     \* bound: page-flip events that outlive a VT switch

FailureKinds == {"noRenderer", "renderError", "queueError", "timerError",
                 "connectError"}

ASSUME RedrawAssumption ==
    /\ NoFrame \notin Scenes
    /\ AsyncFlip \subseteq Outputs
    /\ Switchable \subseteq Outputs
    /\ Failures \subseteq FailureKinds
    /\ Animations \in BOOLEAN /\ VtSwitches \in BOOLEAN
    /\ MaxIdles \in Nat \ {0}
    /\ MaxTimers \in Nat \ {0}
    /\ MaxStale \in Nat

VARIABLES surface,    \* per output: see Surface
          connected,  \* outputs with a TtySurface, mapped in the space
          stash,      \* OutputDevice.inactive: plugged, disabled by settings
          plugged,    \* connectors the last scan saw
          disabled,   \* outputs that settings.displays disables
          active,     \* the DRM device is ours (no VT switch away)
          animating   \* an animation is running

vars == <<surface, connected, stash, plugged, disabled, active, animating>>
hotplugVars == <<connected, stash, plugged, disabled>>

-----------------------------------------------------------------------------
(* The state of one output.                                                *)

Estimated == {"WaitingForEstimatedVBlank", "WaitingForEstimatedVBlankAndQueued"}
RedrawState == {"Idle", "Queued", "WaitingForVBlank"} \cup Estimated

Frame == Scenes \cup {NoFrame}

\* needed: WaitingForVBlank's redraw_needed.  idles, timers: callbacks the
\* event loop holds for the crtc (they outlive the surface); due: the idle
\* callbacks of the batch it is running.  flips: page-flip events the kernel
\* will deliver.  pending, queued: the DRM compositor's frame
\* in the kernel and the one behind it; screen: the frame scanned out.
\* failed: the last attempt left the output Idle without repainting it.
Surface == [state : RedrawState, needed : BOOLEAN, tearing : BOOLEAN,
            idles : Nat, due : Nat, timers : Nat, flips : Nat,
            pending : Frame, queued : Frame, screen : Frame,
            dirty : BOOLEAN, failed : BOOLEAN]

Dark == [state |-> "Idle", needed |-> FALSE, tearing |-> FALSE,
         idles |-> 0, due |-> 0, timers |-> 0, flips |-> 0,
         pending |-> NoFrame, queued |-> NoFrame, screen |-> NoFrame,
         dirty |-> FALSE, failed |-> FALSE]

\* The last frame handed to the DRM compositor: what damage is relative to.
Newest(s) == IF s.queued # NoFrame THEN s.queued
             ELSE IF s.pending # NoFrame THEN s.pending ELSE s.screen

\* The rendered frame would be empty: nothing differs from the last one.
Unchanged(s, scene) == ~s.dirty /\ Newest(s) = scene

-----------------------------------------------------------------------------
(* The transitions of one output, as functions of its state.               *)

\* queue_redraw.  A tearing output does not wait out the estimated vblank.
QueueRedraw(s) ==
    CASE s.state = "Idle" ->
            [s EXCEPT !.state = "Queued", !.idles = @ + 1, !.failed = FALSE]
      [] s.state = "Queued" -> s
      [] s.state = "WaitingForVBlank" -> [s EXCEPT !.needed = TRUE]
      [] s.state \in Estimated ->
            IF s.tearing
            THEN [s EXCEPT !.state = "Queued", !.timers = @ - 1,
                           !.idles = @ + 1]
            ELSE [s EXCEPT !.state = "WaitingForEstimatedVBlankAndQueued"]

\* A timer or page flip is delivered, for better or worse.
TimerSpent(s) == [s EXCEPT !.timers = @ - 1]
FlipSpent(s) == [s EXCEPT !.flips = @ - 1]

\* The token a state holds is removed from the loop; orphaned timers stay.
CancelTimer(s) ==
    IF s.state \in Estimated THEN [s EXCEPT !.timers = @ - 1] ELSE s

\* DrmCompositor::frame_submitted: the pending frame is now on screen.
FrameSubmitted(s) ==
    IF s.pending = NoFrame THEN s
    ELSE [s EXCEPT !.screen = s.pending, !.pending = s.queued,
                   !.queued = NoFrame,
                   !.flips = IF s.queued = NoFrame THEN @ ELSE @ + 1]

\* Fault: the damage that came while the frame was in flight is forgotten.
OnVBlankForgets(s) ==
    LET t == FrameSubmitted(FlipSpent(s))
    IN  IF s.state # "WaitingForVBlank" THEN t
        ELSE [t EXCEPT !.state = "Idle", !.needed = FALSE]

\* on_vblank.  In any state but WaitingForVBlank the event is stale.
OnVBlank(s) ==
    LET t == FrameSubmitted(FlipSpent(s))
        idle == [t EXCEPT !.state = "Idle", !.needed = FALSE]
    IN  IF s.state # "WaitingForVBlank" THEN t
        ELSE IF s.needed THEN QueueRedraw(idle) ELSE idle

\* queue_estimated_vblank: a pending timer is reused, any other state is
\* overwritten by the wait for a new one.
QueueEstimatedVBlank(s) ==
    IF s.state \in Estimated
    THEN [s EXCEPT !.state = "WaitingForEstimatedVBlank"]
    ELSE [s EXCEPT !.state = "WaitingForEstimatedVBlank", !.needed = FALSE,
                   !.timers = @ + 1]

\* DrmCompositor::queue_frame: to the kernel if no flip is pending, else it
\* replaces the frame that waits behind it.
QueueFrame(s, scene, tear) ==
    LET t == [s EXCEPT !.state = "WaitingForVBlank", !.needed = FALSE,
                       !.tearing = tear, !.dirty = FALSE, !.failed = FALSE]
    IN  IF s.pending = NoFrame
        THEN [t EXCEPT !.pending = scene, !.flips = @ + 1]
        ELSE [t EXCEPT !.queued = scene]

GiveUp(s, owed) == [s EXCEPT !.state = "Idle", !.needed = FALSE, !.failed = owed]

\* What render_surface may meet on an active device, and what it makes of it.
Outcomes(s, scene) ==
    {"ok"} \cup (Failures \cap
        ({"noRenderer", "renderError"} \cup
            (IF ~Unchanged(s, scene) THEN {"queueError"}
             ELSE IF s.state \in Estimated THEN {} ELSE {"timerError"})))

\* render_surface's rendered_ok: set by a successful render_frame, whatever
\* queue_frame says afterwards.
RenderedOk(outcome) == outcome \in {"ok", "queueError", "timerError"}

\* Fault: the keepalive only follows a frame that was queued.
RenderedStalls(s, scene, outcome, tear, anim) ==
    LET t == CASE outcome = "ok" ->
                     IF Unchanged(s, scene) THEN QueueEstimatedVBlank(s)
                                            ELSE QueueFrame(s, scene, tear)
               [] OTHER -> GiveUp(s, TRUE)
    IN  IF anim /\ t.state = "WaitingForVBlank" THEN QueueRedraw(t) ELSE t

\* The state render_surface leaves, the animation keepalive included.
Rendered(s, scene, outcome, tear, anim) ==
    LET t == CASE outcome = "ok" ->
                     IF Unchanged(s, scene) THEN QueueEstimatedVBlank(s)
                                            ELSE QueueFrame(s, scene, tear)
               [] outcome = "timerError" -> GiveUp(s, FALSE)
               [] outcome = "queueError" ->
                     GiveUp([s EXCEPT !.tearing = FALSE], TRUE)
               [] OTHER -> GiveUp(s, TRUE)
    IN  IF anim /\ RenderedOk(outcome)
        THEN QueueRedraw(t)
        ELSE t

\* A fresh TtySurface on the crtc: the loop's callbacks stay where they are.
NewSurface(s) ==
    [Dark EXCEPT !.idles = s.idles, !.due = s.due, !.timers = s.timers,
                 !.flips = s.flips, !.dirty = TRUE]

\* At most MaxStale page-flip events outlive the frames they belong to.
LateFlips(n) == IF n < MaxStale THEN n ELSE MaxStale

\* connector_disconnected: the surface goes, its own timer with it.
DropSurface(s) ==
    [Dark EXCEPT !.idles = s.idles, !.due = s.due,
                 !.timers = CancelTimer(s).timers, !.flips = LateFlips(s.flips)]

\* Fault: the redraw state survives the VT switch.
ResetKeepsState(s) ==
    [CancelTimer(s) EXCEPT !.pending = NoFrame, !.queued = NoFrame,
                           !.screen = NoFrame, !.dirty = TRUE]

\* ActivateSession: the DRM compositor forgets its frames, the timer is
\* cancelled, the output repaints in full.
ResetSurface(s) ==
    [CancelTimer(s) EXCEPT !.state = "Idle", !.needed = FALSE,
                           !.pending = NoFrame, !.queued = NoFrame,
                           !.screen = NoFrame, !.dirty = TRUE]

-----------------------------------------------------------------------------
(* The whole backend.                                                      *)

QueueRedrawAll(f, lit) ==
    [o \in Outputs |-> IF o \in lit THEN QueueRedraw(f[o]) ELSE f[o]]

Init ==
    /\ surface = [o \in Outputs |-> Dark]
    /\ connected = {} /\ stash = {} /\ plugged = {} /\ disabled = {}
    /\ active = TRUE
    /\ animating = FALSE

Dirtied(f, D) == [o \in Outputs |->
                     IF o \in D THEN [f[o] EXCEPT !.dirty = TRUE] ELSE f[o]]

\* calloop runs the idle callbacks registered so far as one batch, between
\* rounds of events; one registered meanwhile waits for the next batch.
BatchDone == \A o \in Outputs : surface[o].due = 0

StartIdles ==
    /\ BatchDone
    /\ \E o \in Outputs : surface[o].idles > 0
    /\ surface' = [o \in Outputs |-> [surface[o] EXCEPT !.due = surface[o].idles,
                                                        !.idles = 0]]
    /\ UNCHANGED <<hotplugVars, active, animating>>

\* A commit, an op or a pointer motion changed what the outputs D show; every
\* damage source queues every output.
Damage(D) ==
    /\ BatchDone
    /\ D \subseteq connected
    /\ surface' = QueueRedrawAll(Dirtied(surface, D), connected)
    /\ UNCHANGED <<hotplugVars, active, animating>>

\* An op animates a geometry: after_lua repaints everything.
StartAnimation ==
    /\ BatchDone
    /\ Animations /\ ~animating
    /\ animating' = TRUE
    /\ surface' = QueueRedrawAll(Dirtied(surface, connected), connected)
    /\ UNCHANGED <<hotplugVars, active>>

\* animations.advance: moves what is animated, which changes the scene of
\* every output it shows on, and may retire the last animation.
Advances == {step \in [moved : BOOLEAN, running : BOOLEAN] :
                (step.moved \/ step.running) => animating}

\* render_surface(o), f being the outputs: nothing without a surface or while
\* the device is paused.
Render(o, f, scene) ==
    \E step \in Advances :
        LET g == IF step.moved THEN Dirtied(f, connected) ELSE f
        IN  /\ animating' = step.running
            /\ IF o \in connected /\ active
               THEN \E outcome \in Outcomes(g[o], scene), tear \in BOOLEAN :
                       /\ tear => o \in AsyncFlip
                       /\ surface' = [g EXCEPT ![o] =
                             Rendered(@, scene, outcome, tear, step.running)]
               ELSE surface' = g

\* The outputs when o's idle callback starts.
IdleTaken(o) == [surface EXCEPT ![o].due = @ - 1]

RunIdle(o) ==
    /\ surface[o].due > 0
    /\ \E scene \in Scenes : Render(o, IdleTaken(o), scene)
    /\ UNCHANGED <<hotplugVars, active>>

\* The outputs once o's estimated-vblank timer fired, before any repaint.
TimerFired(s) ==
    [s EXCEPT !.timers = @ - 1,
              !.state = CASE @ = "WaitingForEstimatedVBlank" -> "Idle"
                          [] @ = "WaitingForEstimatedVBlankAndQueued" -> "Queued"
                          [] OTHER -> @]

TimerTaken(o) == [surface EXCEPT ![o] = IF o \in connected THEN TimerFired(@)
                                                           ELSE TimerSpent(@)]

\* Fault: the timer repaints the outputs nobody queued.
RepaintsUnasked(o) ==
    o \in connected /\ surface[o].state = "WaitingForEstimatedVBlank"

RepaintsOnTimer(o) ==
    o \in connected /\ surface[o].state = "WaitingForEstimatedVBlankAndQueued"

OnEstimatedVBlank(o) ==
    /\ BatchDone
    /\ surface[o].timers > 0
    /\ IF RepaintsOnTimer(o)
       THEN \E scene \in Scenes : Render(o, TimerTaken(o), scene)
       ELSE /\ surface' = TimerTaken(o)
            /\ UNCHANGED animating
    /\ UNCHANGED <<hotplugVars, active>>

VBlank(o) ==
    /\ BatchDone
    /\ surface[o].flips > 0
    /\ surface' = [surface EXCEPT ![o] = IF o \in connected THEN OnVBlank(@)
                                                            ELSE FlipSpent(@)]
    /\ UNCHANGED <<hotplugVars, active, animating>>

\* Switching VT away pauses the device: page-flip events in the kernel may
\* still be delivered, or be lost.
PauseSession ==
    /\ BatchDone
    /\ VtSwitches /\ active
    /\ active' = FALSE
    /\ \E lost \in SUBSET Outputs :
          surface' = [o \in Outputs |-> [surface[o] EXCEPT
                         !.flips = IF o \in lost THEN 0 ELSE LateFlips(@)]]
    /\ UNCHANGED <<hotplugVars, animating>>

\* The bounds on the loop's callbacks bite where a state is overwritten.
HasRoom(o) == surface[o].idles < MaxIdles /\ surface[o].timers < MaxTimers

ActivateSession ==
    /\ BatchDone
    /\ ~active
    /\ \A o \in connected : HasRoom(o)
    /\ active' = TRUE
    /\ surface' = QueueRedrawAll([o \in Outputs |->
                     IF o \in connected THEN ResetSurface(surface[o])
                                        ELSE surface[o]], connected)
    /\ UNCHANGED <<hotplugVars, animating>>

\* Fault: a hotplug repaints nothing.
RelightSilently(leave, join) ==
    /\ \A o \in join : HasRoom(o)
    /\ connected' = (connected \ leave) \cup join
    /\ surface' = [o \in Outputs |->
                     IF o \in join THEN NewSurface(surface[o])
                     ELSE IF o \in leave \cap connected THEN DropSurface(surface[o])
                     ELSE surface[o]]

\* Outputs leave and join, then everything that is lit repaints.
Relight(leave, join) ==
    /\ \A o \in join : HasRoom(o)
    /\ connected' = (connected \ leave) \cup join
    /\ surface' = QueueRedrawAll([o \in Outputs |->
                     IF o \in join THEN NewSurface(surface[o])
                     ELSE IF o \in leave \cap connected THEN DropSurface(surface[o])
                     ELSE surface[o]], connected')

\* Connecting an output fails on an error, and may fail on a paused device.
MayFail == ~active \/ "connectError" \in Failures

\* device_changed: a connector appeared.  A failure is only logged.
Plug(o) ==
    /\ BatchDone
    /\ o \notin plugged
    /\ plugged' = plugged \cup {o}
    /\ \/ /\ o \in disabled
          /\ stash' = stash \cup {o}
          /\ UNCHANGED <<connected, surface>>
       \/ /\ o \notin disabled
          /\ Relight({}, {o})
          /\ UNCHANGED stash
       \/ /\ o \notin disabled /\ MayFail
          /\ UNCHANGED <<connected, surface, stash>>
    /\ UNCHANGED <<disabled, active, animating>>

\* Fault: an unplugged connector stays in the stash.
UnplugKeepsStash(o) ==
    /\ BatchDone
    /\ o \in plugged
    /\ plugged' = plugged \ {o}
    /\ Relight({o}, {})
    /\ UNCHANGED <<stash, disabled, active, animating>>

\* device_changed: a connector disappeared.
Unplug(o) ==
    /\ BatchDone
    /\ o \in plugged
    /\ plugged' = plugged \ {o}
    /\ stash' = stash \ {o}
    /\ Relight({o}, {})
    /\ UNCHANGED <<disabled, active, animating>>

\* device_removed: the GPU is gone, its event source and its stash with it.
DeviceRemoved ==
    /\ BatchDone
    /\ plugged # {}
    /\ plugged' = {} /\ stash' = {} /\ connected' = {}
    /\ surface' = [o \in Outputs |->
                     [DropSurface(surface[o]) EXCEPT !.flips = 0]]
    /\ UNCHANGED <<disabled, active, animating>>

\* apply_display_settings: newly disabled outputs go to the stash, re-enabled
\* ones are lit, or stashed again when that fails.
SetDisplays(D) ==
    /\ BatchDone
    /\ D # disabled
    /\ disabled' = D
    /\ \E lit \in SUBSET (stash \ D) :
          /\ lit # stash \ D => MayFail
          /\ stash' = (stash \ lit) \cup (connected \cap D)
          /\ IF lit \cup (connected \cap D) = {}
             THEN UNCHANGED <<connected, surface>>
             ELSE Relight(connected \cap D, lit)
    /\ UNCHANGED <<plugged, active, animating>>

LoopStep ==
    \/ StartIdles
    \/ \E o \in Outputs : RunIdle(o) \/ OnEstimatedVBlank(o) \/ VBlank(o)

Hotplug ==
    \/ \E o \in Outputs : Plug(o) \/ Unplug(o)
    \/ DeviceRemoved
    \/ \E D \in SUBSET Switchable : SetDisplays(D)

Next ==
    \/ LoopStep
    \/ \E D \in SUBSET Outputs : Damage(D)
    \/ StartAnimation
    \/ PauseSession
    \/ ActivateSession
    \/ Hotplug

\* Every turn of the loop polls its sources, a batch of idle callbacks later:
\* a running timer fires, and the kernel delivers the flips of an active
\* session, however often a batch comes in between.  Nothing else is owed.
Fairness ==
    /\ WF_vars(StartIdles)
    /\ \A o \in Outputs :
        /\ WF_vars(RunIdle(o))
        /\ SF_vars(OnEstimatedVBlank(o))
        /\ SF_vars(active /\ VBlank(o))

Spec == Init /\ [][Next]_vars
FairSpec == Spec /\ Fairness

-----------------------------------------------------------------------------
(* Properties.                                                             *)

\* Every variable has its type, the callback counts within their bounds.
TypeOK ==
    /\ surface \in [Outputs -> Surface]
    /\ connected \subseteq Outputs /\ stash \subseteq Outputs
    /\ plugged \subseteq Outputs /\ disabled \subseteq Outputs
    /\ active \in BOOLEAN /\ animating \in BOOLEAN

\* The callback the state waits for is registered.
Awaited(s) ==
    CASE s.state = "Idle" -> TRUE
      [] s.state = "Queued" -> s.idles + s.due > 0
      [] s.state = "WaitingForVBlank" -> s.flips > 0 /\ s.pending # NoFrame
      [] s.state \in Estimated -> s.timers > 0

\* No output of an active session waits for a callback that will never come:
\* a Queued output has its idle callback, one waiting for a vblank has a page
\* flip in the kernel, one waiting for the estimated vblank has its timer.  A
\* pause strands outputs on purpose; ActivateSession has to recover them all.
NoStrandedOutput == active => \A o \in connected : Awaited(surface[o])

\* The output's current wait ends in a repaint.
RepaintOwed(s) ==
    \/ s.state \in {"Queued", "WaitingForEstimatedVBlankAndQueued"}
    \/ s.state = "WaitingForVBlank" /\ s.needed

\* Damage that arrives at any moment of the cycle (while a frame is in flight,
\* while the timer runs, during a VT switch) is repainted without another
\* queue_redraw, unless the last attempt itself failed.
NoLostDamage ==
    active => \A o \in connected :
        surface[o].dirty => RepaintOwed(surface[o]) \/ surface[o].failed

\* The animation keepalive: while an animation runs every lit output keeps
\* repainting itself, whatever vblanks and timers do in between.
AnimationKeepsRepainting ==
    active /\ animating => \A o \in connected :
        RepaintOwed(surface[o]) \/ surface[o].failed

\* Every lit or stashed output is one the last connector scan saw, and none is
\* both: a re-enable never resurrects an unplugged connector.
NoGhostOutput ==
    /\ connected \cup stash \subseteq plugged
    /\ connected \cap stash = {}
    /\ connected \cap disabled = {}

\* The outputs are real: every callback count stays in its type, so that no
\* timer or idle callback is cancelled or spent twice, and no connector that
\* was unplugged or disabled is lit or kept for later.
OutputsInv == TypeOK /\ NoGhostOutput

\* Damage on a lit output is eventually painted, unless the output leaves, the
\* session is switched away or the attempt fails.
DamageIsPainted ==
    \A o \in Outputs :
        (o \in connected /\ surface[o].dirty)
            ~> (o \notin connected \/ ~surface[o].dirty \/ ~active
                  \/ surface[o].failed)

=============================================================================
