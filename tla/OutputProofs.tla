---------------------------- MODULE OutputProofs ----------------------------
(***************************************************************************)
(* The outputs and the session lock, for any number of outputs and         *)
(* clients, whatever outputs do and renders fail.                          *)
(*                                                                         *)
(* First the redraw machines alone: no output is stranded, no damage is    *)
(* lost, animations keep going.  Then the lock's promises to the clients:  *)
(* the bookkeeping agrees with what they were told, and the lock           *)
(* implements LockProtocol.  Last, what a locked session shows: the redraw *)
(* machines stay steady under the lock, a confirmed lock has left no       *)
(* output with a frame of the session, a pending one has its repaints      *)
(* ahead, and the keyboard stays off the windows.                          *)
(***************************************************************************)
EXTENDS SessionLock, TLAPS

-----------------------------------------------------------------------------
(* The inductive invariant, in terms of one output.                        *)

\* What the state says of timers and frames, session active or not.
Coherent(s) ==
    /\ s.state \in Estimated => s.timers > 0
    /\ s.state = "WaitingForVBlank" => s.pending # NoFrame
    /\ s.queued # NoFrame => s.pending # NoFrame

\* A frame the DRM compositor holds has a page flip to come.
FlipDue(s) == s.pending # NoFrame => s.flips > 0

Covered(s) == RepaintOwed(s) \/ s.failed

\* A lit output of an active session, animations running or not.
Sound(s, anim) ==
    /\ FlipDue(s)
    /\ s.state = "Queued" => s.idles + s.due > 0
    /\ s.dirty \/ anim => Covered(s)

Unlit(s) == s.state = "Idle" /\ s.pending = NoFrame /\ s.queued = NoFrame

\* The outputs f, those in lit having a surface.
Steady(f, lit, act, anim) ==
    /\ f \in [Outputs -> Surface]
    /\ \A o \in lit : Coherent(f[o])
    /\ act => \A o \in lit : Sound(f[o], anim)
    /\ \A o \in Outputs \ lit : Unlit(f[o])

IInv ==
    /\ TypeOK
    /\ NoGhostOutput
    /\ Steady(surface, connected, active, animating)

-----------------------------------------------------------------------------
(* Lemmas about the transitions of one output.                             *)

\* The callback counts stay natural numbers.
LEMMA Counts ==
    ASSUME NEW s \in Surface
    PROVE  /\ s.idles \in Nat /\ s.due \in Nat /\ s.timers \in Nat /\ s.flips \in Nat
           /\ s.idles + 1 \in Nat /\ s.timers + 1 \in Nat /\ s.flips + 1 \in Nat
           /\ s.due > 0 => s.due - 1 \in Nat
           /\ s.timers > 0 => s.timers - 1 \in Nat
           /\ s.flips > 0 => s.flips - 1 \in Nat
BY DEF Surface

\* queue_redraw keeps the bookkeeping sound and always leaves a repaint ahead.
LEMMA QueueRedrawLemma ==
    ASSUME NEW s \in Surface, Coherent(s)
    PROVE  /\ QueueRedraw(s) \in Surface
           /\ Coherent(QueueRedraw(s))
           /\ RepaintOwed(QueueRedraw(s))
           /\ FlipDue(s) => FlipDue(QueueRedraw(s))
           /\ (s.state = "Queued" => s.idles + s.due > 0) =>
                 \A anim \in BOOLEAN : FlipDue(s) => Sound(QueueRedraw(s), anim)
<1> DEFINE q == QueueRedraw(s)
<1>1. /\ q \in Surface
      /\ q.state \in {"Queued", "WaitingForVBlank",
                      "WaitingForEstimatedVBlankAndQueued"}
      /\ q.state = "WaitingForVBlank" => s.state = "WaitingForVBlank" /\ q.needed
      /\ q.state = "WaitingForEstimatedVBlankAndQueued" => q.timers > 0
      /\ q.state = "Queued" => q.idles + q.due > 0 \/ s.state = "Queued"
      /\ s.state = "Queued" => q = s
      /\ q.pending = s.pending /\ q.queued = s.queued /\ q.flips = s.flips
  <2> USE DEF Surface, RedrawState, Estimated
  <2>1. CASE s.state = "Idle"
    <3> DEFINE n == s.idles + 1
    <3>1. n \in Nat /\ (\A due \in Nat : n + due > 0) /\ s.due \in Nat
      BY Counts
    <3>2. q = [s EXCEPT !.state = "Queued", !.idles = n, !.failed = FALSE]
      BY <2>1 DEF QueueRedraw
    <3> HIDE DEF n, q
    <3>3. q \in Surface
      BY <3>1, <3>2
    <3>4. QED
      BY <3>1, <3>2, <3>3, <2>1
  <2>2. CASE s.state = "Queued"
    <3>1. q = s
      BY <2>2 DEF QueueRedraw
    <3>2. QED
      BY <3>1, <2>2
  <2>3. CASE s.state = "WaitingForVBlank"
    <3>1. q = [s EXCEPT !.needed = TRUE]
      BY <2>3 DEF QueueRedraw
    <3>2. QED
      BY <3>1, <2>3
  <2>4. CASE s.state \in Estimated /\ s.tearing
    <3> DEFINE n == s.idles + 1
               m == s.timers - 1
    <3>1. n \in Nat /\ (\A due \in Nat : n + due > 0) /\ s.due \in Nat
      BY Counts
    <3>2. m \in Nat
      BY <2>4, Counts DEF Coherent
    <3>3. q = [s EXCEPT !.state = "Queued", !.timers = m, !.idles = n]
      BY <2>4 DEF QueueRedraw
    <3> HIDE DEF n, m, q
    <3>4. q \in Surface
      BY <3>1, <3>2, <3>3
    <3>5. QED
      BY <3>1, <3>3, <3>4, <2>4
  <2>5. CASE s.state \in Estimated /\ ~s.tearing
    <3>1. q = [s EXCEPT !.state = "WaitingForEstimatedVBlankAndQueued"]
      BY <2>5 DEF QueueRedraw
    <3>2. QED
      BY <3>1, <2>5 DEF Coherent
  <2>6. QED
    BY <2>1, <2>2, <2>3, <2>4, <2>5
<1> HIDE DEF q
<1>2. Coherent(q) /\ RepaintOwed(q) /\ (FlipDue(s) => FlipDue(q))
  BY <1>1 DEF Coherent, RepaintOwed, FlipDue, Estimated
<1>3. ASSUME s.state = "Queued" => s.idles + s.due > 0, NEW anim \in BOOLEAN,
             FlipDue(s)
      PROVE  Sound(q, anim)
  BY <1>1, <1>2, <1>3 DEF Sound, Covered
<1>4. QED
  BY <1>1, <1>2, <1>3 DEF q

\* A vblank, expected or stale, loses nothing.
LEMMA OnVBlankLemma ==
    ASSUME NEW s \in Surface, Coherent(s), s.flips > 0
    PROVE  /\ OnVBlank(s) \in Surface
           /\ Coherent(OnVBlank(s))
           /\ \A anim \in BOOLEAN : Sound(s, anim) => Sound(OnVBlank(s), anim)
<1> DEFINE d == FlipSpent(s)
           t == FrameSubmitted(d)
           idle == [t EXCEPT !.state = "Idle", !.needed = FALSE]
<1>1. /\ t \in Surface
      /\ t.state = s.state /\ t.needed = s.needed /\ t.failed = s.failed
      /\ t.dirty = s.dirty /\ t.idles = s.idles /\ t.due = s.due
      /\ t.timers = s.timers
      /\ t.queued = NoFrame
      /\ FlipDue(t)
  <2>1. CASE s.pending = NoFrame
    BY <2>1, Counts DEF FlipSpent, Surface, FrameSubmitted, Frame, Coherent, FlipDue
  <2>2. CASE s.pending # NoFrame
    <3>1. d \in Surface /\ d.flips \in Nat
      BY Counts DEF FlipSpent, Surface
    <3>2. t = [d EXCEPT !.screen = s.pending, !.pending = s.queued,
                        !.queued = NoFrame,
                        !.flips = IF s.queued = NoFrame THEN d.flips
                                                        ELSE d.flips + 1]
      BY <2>2 DEF FlipSpent, FrameSubmitted, Surface
    <3>3. (IF s.queued = NoFrame THEN d.flips ELSE d.flips + 1) \in Nat
      BY <3>1
    <3> HIDE DEF d, t
    <3>4. s.queued # NoFrame => d.flips + 1 > 0
      BY <3>1
    <3>5. QED
      BY <3>1, <3>2, <3>3, <3>4, <2>2 DEF Surface, Frame, Coherent, FlipDue, FlipSpent, d
  <2>3. QED
    BY <2>1, <2>2
<1>2. /\ idle \in Surface /\ idle.state = "Idle" /\ idle.failed = t.failed
      /\ idle.dirty = t.dirty /\ Coherent(idle) /\ FlipDue(idle)
  BY <1>1 DEF Surface, RedrawState, Estimated, Coherent, FlipDue
<1>3. CASE s.state # "WaitingForVBlank"
  <2>1. OnVBlank(s) = t
    BY <1>3, <1>1 DEF OnVBlank
  <2>2. QED
    BY <2>1, <1>1, <1>3 DEF Coherent, Sound, Covered, RepaintOwed, Surface
<1>4. CASE s.state = "WaitingForVBlank" /\ s.needed
  <2>1. OnVBlank(s) = QueueRedraw(idle)
    BY <1>4, <1>1 DEF OnVBlank
  <2>2. QED
    BY <2>1, <1>2, QueueRedrawLemma
<1>5. CASE s.state = "WaitingForVBlank" /\ ~s.needed
  <2>1. OnVBlank(s) = idle
    BY <1>5, <1>1 DEF OnVBlank
  <2>2. \A anim \in BOOLEAN : Sound(s, anim) => Sound(idle, anim)
    BY <1>1, <1>2, <1>5 DEF Sound, Covered, RepaintOwed
  <2>3. QED
    BY <2>1, <2>2, <1>2
<1>6. QED
  BY <1>3, <1>4, <1>5 DEF Surface

\* Whatever comes of a repaint, damage and animation are paid for: by the frame
\* just queued, by a repaint ahead, or by an admitted failure.
LEMMA RenderedLemma ==
    ASSUME NEW s \in Surface, Coherent(s), FlipDue(s), NEW scene \in Scenes,
           NEW outcome \in Outcomes(s, scene), NEW tear \in BOOLEAN,
           NEW anim \in BOOLEAN
    PROVE  /\ Rendered(s, scene, outcome, tear, anim) \in Surface
           /\ Coherent(Rendered(s, scene, outcome, tear, anim))
           /\ Sound(Rendered(s, scene, outcome, tear, anim), anim)
<1> DEFINE t == CASE outcome = "ok" ->
                       IF Unchanged(s, scene) THEN QueueEstimatedVBlank(s)
                                              ELSE QueueFrame(s, scene, tear)
                  [] outcome = "timerError" -> GiveUp(s, FALSE)
                  [] outcome = "queueError" ->
                       GiveUp([s EXCEPT !.tearing = FALSE], TRUE)
                  [] OTHER -> GiveUp(s, TRUE)
<1>1. /\ t \in Surface /\ Coherent(t) /\ FlipDue(t) /\ t.state # "Queued"
      /\ t.dirty => t.failed
      /\ ~RenderedOk(outcome) => t.failed
  <2>1. CASE outcome = "ok" /\ Unchanged(s, scene)
    <3> DEFINE n == s.timers + 1
    <3>1. n \in Nat /\ n > 0
      BY Counts
    <3>2. t = IF s.state \in Estimated
              THEN [s EXCEPT !.state = "WaitingForEstimatedVBlank"]
              ELSE [s EXCEPT !.state = "WaitingForEstimatedVBlank",
                             !.needed = FALSE, !.timers = n]
      BY <2>1 DEF QueueEstimatedVBlank
    <3> HIDE DEF n, t
    <3>3. t \in Surface
      BY <3>1, <3>2 DEF Surface, RedrawState, Estimated
    <3>4. /\ t.state = "WaitingForEstimatedVBlank" /\ t.timers > 0
          /\ t.pending = s.pending /\ t.queued = s.queued /\ t.flips = s.flips
          /\ t.dirty = s.dirty
      BY <3>1, <3>2 DEF Surface, Coherent
    <3>5. QED
      BY <3>3, <3>4, <2>1 DEF Estimated, Coherent, FlipDue, Unchanged, RenderedOk
  <2>2. CASE outcome = "ok" /\ ~Unchanged(s, scene)
    <3> DEFINE n == s.flips + 1
    <3>1. n \in Nat /\ n > 0
      BY Counts
    <3>2. t = IF s.pending = NoFrame
              THEN [s EXCEPT !.state = "WaitingForVBlank", !.needed = FALSE,
                             !.tearing = tear, !.dirty = FALSE, !.failed = FALSE,
                             !.pending = scene, !.flips = n]
              ELSE [s EXCEPT !.state = "WaitingForVBlank", !.needed = FALSE,
                             !.tearing = tear, !.dirty = FALSE, !.failed = FALSE,
                             !.queued = scene]
      BY <2>2 DEF QueueFrame, Surface
    <3> HIDE DEF n, t
    <3>3. t \in Surface
      BY <3>1, <3>2 DEF Surface, RedrawState, Frame
    <3>4. /\ t.state = "WaitingForVBlank" /\ t.dirty = FALSE
          /\ t.pending = IF s.pending = NoFrame THEN scene ELSE s.pending
          /\ t.flips = IF s.pending = NoFrame THEN n ELSE s.flips
      BY <3>2 DEF Surface
    <3>5. QED
      BY <3>1, <3>3, <3>4, <2>2, RedrawAssumption
      DEF Estimated, Coherent, FlipDue, RenderedOk
  <2>3. CASE outcome = "timerError"
    <3>1. t = GiveUp(s, FALSE) /\ Unchanged(s, scene)
      BY <2>3 DEF Outcomes
    <3>2. QED
      BY <3>1, <2>3 DEF GiveUp, Surface, RedrawState, Estimated, Coherent,
            FlipDue, Unchanged, RenderedOk
  <2>4. CASE outcome = "queueError"
    <3>1. t = GiveUp([s EXCEPT !.tearing = FALSE], TRUE)
      BY <2>4
    <3>2. QED
      BY <3>1, <2>4 DEF GiveUp, Surface, RedrawState, Estimated, Coherent,
            FlipDue, RenderedOk
  <2>5. CASE outcome \notin {"ok", "timerError", "queueError"}
    <3>1. t = GiveUp(s, TRUE)
      BY <2>5
    <3>2. QED
      BY <3>1, <2>5 DEF GiveUp, Surface, RedrawState, Estimated, Coherent,
            FlipDue, RenderedOk
  <2>6. QED
    BY <2>1, <2>2, <2>3, <2>4, <2>5
<1>2. CASE anim /\ RenderedOk(outcome)
  <2>1. Rendered(s, scene, outcome, tear, anim) = QueueRedraw(t)
    BY <1>2 DEF Rendered
  <2> HIDE DEF t
  <2>2. QED
    BY <2>1, <1>1, QueueRedrawLemma
<1>3. CASE ~(anim /\ RenderedOk(outcome))
  <2>1. Rendered(s, scene, outcome, tear, anim) = t
    BY <1>3 DEF Rendered
  <2> HIDE DEF t
  <2>2. QED
    BY <2>1, <1>1, <1>3 DEF Sound, Covered
<1>4. QED
  BY <1>2, <1>3

\* The estimated-vblank timer, the state's own or an orphan.
LEMMA TimerFiredLemma ==
    ASSUME NEW s \in Surface, Coherent(s), s.timers > 0
    PROVE  /\ TimerFired(s) \in Surface
           /\ Coherent(TimerFired(s))
           /\ FlipDue(s) => FlipDue(TimerFired(s))
           /\ s.state # "WaitingForEstimatedVBlankAndQueued" =>
                 \A anim \in BOOLEAN : Sound(s, anim) => Sound(TimerFired(s), anim)
<1> DEFINE q == TimerFired(s)
<1>1. /\ q \in Surface
      /\ s.state \notin Estimated => q.state = s.state
      /\ s.state = "WaitingForEstimatedVBlank" => q.state = "Idle"
      /\ s.state = "WaitingForEstimatedVBlankAndQueued" => q.state = "Queued"
      /\ q.pending = s.pending /\ q.queued = s.queued /\ q.flips = s.flips
      /\ q.needed = s.needed /\ q.idles = s.idles /\ q.due = s.due
      /\ q.dirty = s.dirty /\ q.failed = s.failed
  BY Counts DEF Surface, RedrawState, Estimated, TimerFired
<1> HIDE DEF q
<1>2. Coherent(q) /\ (FlipDue(s) => FlipDue(q))
  BY <1>1 DEF Coherent, FlipDue, Estimated
<1>3. ASSUME s.state # "WaitingForEstimatedVBlankAndQueued", NEW anim \in BOOLEAN,
             Sound(s, anim)
      PROVE  Sound(q, anim)
  BY <1>1, <1>2, <1>3 DEF Sound, Covered, RepaintOwed, Estimated
<1>4. QED
  BY <1>1, <1>2, <1>3 DEF q

\* A callback that finds no surface for its crtc disturbs nothing.
LEMMA SpentLemma ==
    ASSUME NEW s \in Surface, Unlit(s)
    PROVE  /\ s.timers > 0 => TimerSpent(s) \in Surface /\ Unlit(TimerSpent(s))
           /\ s.flips > 0 => FlipSpent(s) \in Surface /\ Unlit(FlipSpent(s))
<1> DEFINE n == s.timers - 1
           m == s.flips - 1
<1>1. /\ s.timers > 0 => n \in Nat
      /\ s.flips > 0 => m \in Nat
  BY Counts
<1>2. /\ TimerSpent(s) = [s EXCEPT !.timers = n]
      /\ FlipSpent(s) = [s EXCEPT !.flips = m]
  BY DEF TimerSpent, FlipSpent
<1> HIDE DEF n, m
<1>3. QED
  BY <1>1, <1>2 DEF Surface, Unlit

\* A surface that is created or reset starts over with nothing in flight.
LEMMA FreshLemma ==
    ASSUME NEW s \in Surface, Coherent(s) \/ Unlit(s)
    PROVE  /\ NewSurface(s) \in Surface /\ Coherent(NewSurface(s))
           /\ FlipDue(NewSurface(s)) /\ NewSurface(s).state = "Idle"
           /\ DropSurface(s) \in Surface /\ Unlit(DropSurface(s))
           /\ Coherent(s) =>
                 /\ ResetSurface(s) \in Surface /\ Coherent(ResetSurface(s))
                 /\ FlipDue(ResetSurface(s)) /\ ResetSurface(s).state = "Idle"
<1>1. CancelTimer(s).timers \in Nat /\ CancelTimer(s) \in Surface
  BY DEF CancelTimer, Surface, Estimated, Coherent, Unlit
<1>2. LateFlips(s.flips) \in Nat
  BY RedrawAssumption DEF LateFlips, Surface
<1>3. NewSurface(s) \in Surface /\ NewSurface(s).state = "Idle"
      /\ Coherent(NewSurface(s)) /\ FlipDue(NewSurface(s))
  BY DEF NewSurface, Dark, Surface, RedrawState, Estimated, Frame, Coherent, FlipDue
<1>4. DropSurface(s) \in Surface /\ Unlit(DropSurface(s))
  BY <1>1, <1>2 DEF DropSurface, Dark, Surface, RedrawState, Frame, Unlit
<1>5. /\ ResetSurface(s) \in Surface /\ Coherent(ResetSurface(s))
      /\ FlipDue(ResetSurface(s)) /\ ResetSurface(s).state = "Idle"
  BY <1>1 DEF ResetSurface, Surface, RedrawState, Estimated, Frame, Coherent, FlipDue
<1>6. QED
  BY <1>3, <1>4, <1>5

-----------------------------------------------------------------------------
(* Lemmas about all outputs at once.                                       *)

\* Queueing every lit output leaves each of them with a repaint ahead.
LEMMA QueueAllLemma ==
    ASSUME NEW f \in [Outputs -> Surface], NEW lit \in SUBSET Outputs,
           NEW act \in BOOLEAN, NEW anim \in BOOLEAN,
           \A o \in lit : Coherent(f[o]),
           act => \A o \in lit : /\ FlipDue(f[o])
                                 /\ f[o].state = "Queued" => f[o].idles + f[o].due > 0,
           \A o \in Outputs \ lit : Unlit(f[o])
    PROVE  Steady(QueueRedrawAll(f, lit), lit, act, anim)
<1> DEFINE q == QueueRedrawAll(f, lit)
<1>1. ASSUME NEW o \in lit
      PROVE  /\ q[o] \in Surface /\ Coherent(q[o])
             /\ act => Sound(q[o], anim)
  <2>1. q[o] = QueueRedraw(f[o]) /\ f[o] \in Surface
    BY DEF QueueRedrawAll
  <2>2. QED
    BY <2>1, QueueRedrawLemma
<1>2. ASSUME NEW o \in Outputs \ lit
      PROVE  q[o] = f[o]
  BY DEF QueueRedrawAll
<1>3. q \in [Outputs -> Surface]
  <2>1. \A o \in Outputs : q[o] \in Surface
    BY <1>1, <1>2
  <2>2. QED
    BY <2>1 DEF QueueRedrawAll
<1> HIDE DEF q
<1>4. Steady(q, lit, act, anim)
  BY <1>1, <1>2, <1>3 DEF Steady
<1>5. QED
  BY <1>4 DEF q

\* Marking outputs dirty changes no wait.
LEMMA DirtiedLemma ==
    ASSUME NEW f \in [Outputs -> Surface], NEW D, NEW o \in Outputs
    PROVE  /\ Dirtied(f, D) \in [Outputs -> Surface]
           /\ Coherent(f[o]) => Coherent(Dirtied(f, D)[o])
           /\ FlipDue(f[o]) => FlipDue(Dirtied(f, D)[o])
           /\ Unlit(f[o]) => Unlit(Dirtied(f, D)[o])
           /\ Dirtied(f, D)[o].state = f[o].state
           /\ Dirtied(f, D)[o].idles = f[o].idles
           /\ Dirtied(f, D)[o].due = f[o].due
           /\ Covered(f[o]) => Covered(Dirtied(f, D)[o])
<1> DEFINE d == Dirtied(f, D)
<1>1. \A p \in Outputs : d[p] \in Surface
  BY DEF Dirtied, Surface
<1>2. d \in [Outputs -> Surface]
  BY <1>1 DEF Dirtied
<1>3. d[o] = [f[o] EXCEPT !.dirty = d[o].dirty]
  BY DEF Dirtied, Surface
<1> HIDE DEF d
<1>4. /\ d[o].state = f[o].state /\ d[o].needed = f[o].needed
      /\ d[o].idles = f[o].idles /\ d[o].due = f[o].due
      /\ d[o].timers = f[o].timers /\ d[o].flips = f[o].flips
      /\ d[o].pending = f[o].pending /\ d[o].queued = f[o].queued
      /\ d[o].failed = f[o].failed
  BY <1>3 DEF Surface
<1>5. /\ Coherent(f[o]) => Coherent(d[o])
      /\ FlipDue(f[o]) => FlipDue(d[o])
      /\ Unlit(f[o]) => Unlit(d[o])
      /\ Covered(f[o]) => Covered(d[o])
  BY <1>4 DEF Coherent, FlipDue, Unlit, Covered, RepaintOwed
<1>6. QED
  BY <1>2, <1>4, <1>5 DEF d

\* The outputs f are in order for a repaint of o, of which only the frames and
\* the wait need be coherent: what it owed is settled by the repaint.
ReadyToPaint(o, f) ==
    /\ f \in [Outputs -> Surface]
    /\ \A p \in connected : Coherent(f[p])
    /\ active => /\ o \in connected => FlipDue(f[o])
                 /\ \A p \in connected \ {o} : Sound(f[p], animating)
    /\ \A p \in Outputs \ connected : Unlit(f[p])

\* h is what becomes of f when o is repainted and the animations advance.
Moved(f, step) == IF step.moved THEN Dirtied(f, connected) ELSE f

Painted(o, f, scene, step, h) ==
    IF o \in connected /\ active
    THEN \E outcome \in Outcomes(Moved(f, step)[o], scene), tear \in BOOLEAN :
            h = [Moved(f, step) EXCEPT ![o] = Rendered(@, scene, outcome, tear, step.running)]
    ELSE h = Moved(f, step)

\* A repaint of one output keeps them all steady.
LEMMA PaintLemma ==
    ASSUME NEW o \in Outputs, NEW f, NEW scene \in Scenes, NEW step \in Advances, NEW h,
           connected \subseteq Outputs, animating \in BOOLEAN, active \in BOOLEAN,
           ReadyToPaint(o, f), Painted(o, f, scene, step, h)
    PROVE  /\ step.running \in BOOLEAN
           /\ Steady(h, connected, active, step.running)
<1> DEFINE g == Moved(f, step)
<1>1. f \in [Outputs -> Surface]
  BY DEF ReadyToPaint
<1>2. /\ step.moved \in BOOLEAN /\ step.running \in BOOLEAN
      /\ (step.moved \/ step.running) => animating
  BY DEF Advances
<1>3. g \in [Outputs -> Surface]
  BY <1>1, DirtiedLemma DEF Moved
<1>4. ASSUME NEW p \in Outputs
      PROVE  /\ Coherent(f[p]) => Coherent(g[p])
             /\ FlipDue(f[p]) => FlipDue(g[p])
             /\ Unlit(f[p]) => Unlit(g[p])
             /\ Sound(f[p], animating) => Sound(g[p], step.running)
  <2>1. CASE step.moved
    BY <2>1, <1>1, <1>2, DirtiedLemma DEF Sound, Moved
  <2>2. CASE ~step.moved
    BY <2>2, <1>2 DEF Sound, Moved
  <2>3. QED
    BY <2>1, <2>2, <1>2
<1>5. CASE o \in connected /\ active
  <2>1. PICK outcome \in Outcomes(g[o], scene), tear \in BOOLEAN :
           h = [g EXCEPT ![o] = Rendered(g[o], scene, outcome, tear, step.running)]
    BY <1>5 DEF Painted
  <2> HIDE DEF g
  <2> DEFINE r == Rendered(g[o], scene, outcome, tear, step.running)
  <2>2. g[o] \in Surface /\ Coherent(g[o]) /\ FlipDue(g[o])
    BY <1>3, <1>4, <1>5 DEF ReadyToPaint
  <2>3. r \in Surface /\ Coherent(r) /\ Sound(r, step.running)
    BY <2>2, <1>2, RenderedLemma
  <2> HIDE DEF r
  <2>4. h \in [Outputs -> Surface] /\ h[o] = r
        /\ \A p \in Outputs \ {o} : h[p] = g[p]
    BY <2>1, <2>3, <1>3 DEF r
  <2>5. QED
    BY <2>3, <2>4, <1>2, <1>4, <1>5 DEF Steady, ReadyToPaint
<1>6. CASE ~(o \in connected /\ active)
  <2>1. h = g
    BY <1>6 DEF Painted
  <2> HIDE DEF g
  <2>2. QED
    BY <2>1, <1>2, <1>3, <1>4, <1>6 DEF Steady, ReadyToPaint
<1>7. QED
  BY <1>5, <1>6

LEMMA RenderLemma ==
    ASSUME NEW o \in Outputs, NEW f, NEW scene \in Scenes,
           connected \subseteq Outputs, animating \in BOOLEAN, active \in BOOLEAN,
           ReadyToPaint(o, f), Render(o, f, scene)
    PROVE  /\ animating' \in BOOLEAN
           /\ Steady(surface', connected, active, animating')
<1>1. PICK step \in Advances :
         animating' = step.running /\ Painted(o, f, scene, step, surface')
  BY DEF Render, Painted, Moved
<1>2. QED
  BY <1>1, PaintLemma

\* Outputs leave and join: what stays lit is queued, what leaves goes dark.
LEMMA RelightLemma ==
    ASSUME IInv, NEW leave \in SUBSET Outputs, NEW join \in SUBSET Outputs,
           leave \cap join = {}, Relight(leave, join)
    PROVE  /\ connected' = (connected \ leave) \cup join
           /\ Steady(surface', connected', active, animating)
<1> DEFINE f == [o \in Outputs |->
                   IF o \in join THEN NewSurface(surface[o])
                   ELSE IF o \in leave \cap connected THEN DropSurface(surface[o])
                   ELSE surface[o]]
           lit == (connected \ leave) \cup join
<1>1. connected' = lit /\ surface' = QueueRedrawAll(f, lit)
  BY DEF Relight
<1>2. /\ surface \in [Outputs -> Surface] /\ connected \subseteq Outputs
      /\ active \in BOOLEAN /\ animating \in BOOLEAN
      /\ \A o \in Outputs : Coherent(surface[o]) \/ Unlit(surface[o])
  BY DEF IInv, TypeOK, Steady
<1>3. \A o \in Outputs : f[o] \in Surface
  BY <1>2, FreshLemma
<1>4. f \in [Outputs -> Surface]
  BY <1>3
<1>5. \A o \in lit : Coherent(f[o])
  BY <1>2, FreshLemma DEF IInv, Steady
<1>6. \A o \in Outputs \ lit : Unlit(f[o])
  BY <1>2, FreshLemma DEF IInv, Steady
<1>7. ASSUME active, NEW o \in lit
      PROVE  FlipDue(f[o]) /\ (f[o].state = "Queued" => f[o].idles + f[o].due > 0)
  <2>1. CASE o \in join
    BY <2>1, <1>2, FreshLemma
  <2>2. CASE o \notin join
    BY <2>2, <1>2, <1>7 DEF IInv, Steady, Sound
  <2>3. QED
    BY <2>1, <2>2
<1> HIDE DEF f
<1>8. lit \subseteq Outputs
  BY <1>2
<1>9. QED
  BY <1>1, <1>2, <1>4, <1>5, <1>6, <1>7, <1>8, QueueAllLemma

-----------------------------------------------------------------------------
(* The invariant is inductive.                                             *)

LEMMA InitIInv == Init => IInv
<1> SUFFICES ASSUME Init PROVE IInv
  OBVIOUS
<1>1. Dark \in Surface /\ Unlit(Dark)
  BY DEF Dark, Surface, RedrawState, Frame, Unlit
<1>2. QED
  BY <1>1 DEF Init, IInv, TypeOK, NoGhostOutput, Steady

\* Changing one output, steadily, and nothing else keeps them all steady.
LEMMA OneOutputLemma ==
    ASSUME IInv, NEW o \in Outputs, NEW q \in Surface,
           surface' = [surface EXCEPT ![o] = q],
           UNCHANGED <<hotplugVars, active, animating>>,
           o \in connected => Coherent(q),
           o \in connected => (Sound(surface[o], animating) => Sound(q, animating)),
           o \notin connected => Unlit(q)
    PROVE  IInv'
<1>1. surface \in [Outputs -> Surface] /\ connected \subseteq Outputs
  BY DEF IInv, TypeOK
<1>2. surface' \in [Outputs -> Surface] /\ surface'[o] = q
      /\ \A p \in Outputs \ {o} : surface'[p] = surface[p]
  BY <1>1
<1>3. Steady(surface', connected, active, animating)
  BY <1>1, <1>2 DEF IInv, Steady
<1>4. QED
  BY <1>2, <1>3 DEF IInv, TypeOK, NoGhostOutput, hotplugVars

\* An idle callback that is taken off its batch.
LEMMA IdleTakenLemma ==
    ASSUME IInv, NEW o \in Outputs, surface[o].due > 0
    PROVE  ReadyToPaint(o, IdleTaken(o))
<1>1. surface \in [Outputs -> Surface] /\ connected \subseteq Outputs
  BY DEF IInv, TypeOK
<1> DEFINE n == surface[o].due - 1
           f == [surface EXCEPT ![o] = [surface[o] EXCEPT !.due = n]]
<1>2. surface[o] \in Surface /\ n \in Nat
  BY <1>1, Counts
<1>3. f = IdleTaken(o)
  BY <1>1 DEF IdleTaken
<1> HIDE DEF n
<1>4. /\ f[o] \in Surface
      /\ f[o].state = surface[o].state /\ f[o].pending = surface[o].pending
      /\ f[o].queued = surface[o].queued /\ f[o].flips = surface[o].flips
      /\ f[o].timers = surface[o].timers
  BY <1>1, <1>2 DEF Surface
<1>5. f \in [Outputs -> Surface] /\ \A p \in Outputs \ {o} : f[p] = surface[p]
  BY <1>1, <1>4
<1> HIDE DEF f
<1>6. ReadyToPaint(o, f)
  BY <1>1, <1>4, <1>5 DEF IInv, Steady, Coherent, Unlit, Sound, FlipDue, ReadyToPaint
<1>7. QED
  BY <1>3, <1>6

\* A timer that ends a wait for which a repaint is queued.
LEMMA TimerTakenLemma ==
    ASSUME IInv, NEW o \in Outputs, surface[o].timers > 0, RepaintsOnTimer(o)
    PROVE  ReadyToPaint(o, TimerTaken(o))
<1>1. /\ surface \in [Outputs -> Surface] /\ connected \subseteq Outputs
      /\ o \in connected /\ surface[o] \in Surface /\ Coherent(surface[o])
  BY DEF IInv, TypeOK, Steady, RepaintsOnTimer
<1> DEFINE q == TimerFired(surface[o])
           f == [surface EXCEPT ![o] = q]
<1>2. f = TimerTaken(o)
  BY <1>1 DEF TimerTaken
<1>3. q \in Surface /\ Coherent(q) /\ (FlipDue(surface[o]) => FlipDue(q))
  BY <1>1, TimerFiredLemma
<1> HIDE DEF q
<1>4. f \in [Outputs -> Surface] /\ f[o] = q /\ \A p \in Outputs \ {o} : f[p] = surface[p]
  BY <1>1, <1>3
<1> HIDE DEF f
<1>5. ReadyToPaint(o, f)
  BY <1>1, <1>3, <1>4 DEF IInv, Steady, Sound, ReadyToPaint
<1>6. QED
  BY <1>2, <1>5

\* Whatever damages outputs and queues those that are lit.
LEMMA DirtyQueueLemma ==
    ASSUME IInv, NEW D, NEW anim \in BOOLEAN
    PROVE  Steady(QueueRedrawAll(Dirtied(surface, D), connected), connected, active, anim)
<1>1. /\ surface \in [Outputs -> Surface] /\ connected \subseteq Outputs
      /\ active \in BOOLEAN
  BY DEF IInv, TypeOK
<1> DEFINE d == Dirtied(surface, D)
<1>2. d \in [Outputs -> Surface]
  BY <1>1, DirtiedLemma DEF Dirtied
<1>3. /\ \A o \in connected : Coherent(d[o])
      /\ \A o \in Outputs \ connected : Unlit(d[o])
  BY <1>1, DirtiedLemma DEF IInv, Steady
<1>4. ASSUME active, NEW o \in connected
      PROVE  FlipDue(d[o]) /\ (d[o].state = "Queued" => d[o].idles + d[o].due > 0)
  BY <1>4, <1>1, DirtiedLemma DEF IInv, Steady, Sound
<1> HIDE DEF d
<1>5. Steady(QueueRedrawAll(d, connected), connected, active, anim)
  BY <1>1, <1>2, <1>3, <1>4, QueueAllLemma
<1>6. QED
  BY <1>5 DEF d

LEMMA StepIInv == IInv /\ [Next]_vars => IInv'
<1> SUFFICES ASSUME IInv, [Next]_vars PROVE IInv'
  OBVIOUS
<1>1. /\ surface \in [Outputs -> Surface] /\ connected \subseteq Outputs
      /\ active \in BOOLEAN /\ animating \in BOOLEAN
  BY DEF IInv, TypeOK
<1>2. CASE StartIdles
  <2>1. ASSUME NEW o \in Outputs
        PROVE  /\ surface'[o] \in Surface
               /\ Coherent(surface[o]) => Coherent(surface'[o])
               /\ Sound(surface[o], animating) => Sound(surface'[o], animating)
               /\ Unlit(surface[o]) => Unlit(surface'[o])
    <3>1. surface[o] \in Surface /\ surface[o].due = 0
      BY <1>1, <1>2 DEF StartIdles, BatchDone
    <3>2. surface'[o] = [surface[o] EXCEPT !.due = surface[o].idles, !.idles = 0]
      BY <1>2 DEF StartIdles
    <3>3. surface'[o] \in Surface
      BY <3>1, <3>2 DEF Surface
    <3>4. QED
      BY <3>1, <3>2, <3>3 DEF Surface, Coherent, Sound, FlipDue, Covered, RepaintOwed, Unlit
  <2>2. surface' \in [Outputs -> Surface]
    BY <2>1, <1>2 DEF StartIdles
  <2>3. Steady(surface', connected, active, animating)
    BY <2>1, <2>2, <1>1 DEF IInv, Steady
  <2>4. QED
    BY <2>2, <2>3, <1>2 DEF StartIdles, IInv, TypeOK, NoGhostOutput, hotplugVars
<1>4. ASSUME NEW D \in SUBSET Outputs, Damage(D) PROVE IInv'
  <2>1. Steady(surface', connected, active, animating)
    BY <1>1, <1>4, DirtyQueueLemma DEF Damage
  <2>2. QED
    BY <2>1, <1>4 DEF Damage, IInv, TypeOK, NoGhostOutput, Steady, hotplugVars
<1>5. CASE StartAnimation
  <2>1. Steady(surface', connected, active, TRUE)
    BY <1>5, DirtyQueueLemma DEF StartAnimation
  <2>2. QED
    BY <2>1, <1>5 DEF StartAnimation, IInv, TypeOK, NoGhostOutput, Steady, hotplugVars
<1>6. ASSUME NEW o \in Outputs, RunIdle(o) PROVE IInv'
  <2>1. PICK scene \in Scenes : Render(o, IdleTaken(o), scene)
    BY <1>6 DEF RunIdle
  <2>2. ReadyToPaint(o, IdleTaken(o))
    BY <1>6, IdleTakenLemma DEF RunIdle
  <2>3. animating' \in BOOLEAN /\ Steady(surface', connected, active, animating')
    BY <1>1, <2>1, <2>2, RenderLemma
  <2>4. QED
    BY <2>3, <1>6 DEF RunIdle, IInv, TypeOK, NoGhostOutput, Steady, hotplugVars
<1>7. ASSUME NEW o \in Outputs, OnEstimatedVBlank(o) PROVE IInv'
  <2>1. surface[o] \in Surface /\ surface[o].timers > 0
    BY <1>1, <1>7 DEF OnEstimatedVBlank
  <2> DEFINE q == IF o \in connected THEN TimerFired(surface[o])
                                     ELSE TimerSpent(surface[o])
             f == [surface EXCEPT ![o] = q]
  <2>2. f = TimerTaken(o)
    BY <1>1 DEF TimerTaken
  <2>3. CASE o \in connected
    <3>1. q = TimerFired(surface[o]) /\ Coherent(surface[o])
      BY <2>3 DEF IInv, Steady
    <3>2. /\ q \in Surface /\ Coherent(q)
          /\ FlipDue(surface[o]) => FlipDue(q)
          /\ surface[o].state # "WaitingForEstimatedVBlankAndQueued" =>
                (Sound(surface[o], animating) => Sound(q, animating))
      BY <3>1, <2>1, <1>1, TimerFiredLemma
    <3> HIDE DEF q
    <3>3. CASE RepaintsOnTimer(o)
      <4>1. PICK scene \in Scenes : Render(o, TimerTaken(o), scene)
        BY <1>7, <3>3 DEF OnEstimatedVBlank
      <4>2. ReadyToPaint(o, TimerTaken(o))
        BY <2>1, <3>3, TimerTakenLemma
      <4>3. animating' \in BOOLEAN /\ Steady(surface', connected, active, animating')
        BY <1>1, <4>1, <4>2, RenderLemma
      <4>4. QED
        BY <4>3, <1>7 DEF OnEstimatedVBlank, IInv, TypeOK, NoGhostOutput, Steady,
              hotplugVars
    <3>4. CASE ~RepaintsOnTimer(o)
      <4>1. surface' = f /\ UNCHANGED <<hotplugVars, active, animating>>
        BY <1>7, <2>2, <3>4 DEF OnEstimatedVBlank
      <4>2. Sound(surface[o], animating) => Sound(q, animating)
        BY <3>2, <3>4, <2>3 DEF RepaintsOnTimer
      <4>3. QED
        BY <4>1, <4>2, <3>2, <2>3, OneOutputLemma
    <3>5. QED
      BY <3>3, <3>4
  <2>4. CASE o \notin connected
    <3>1. surface' = f /\ UNCHANGED <<hotplugVars, active, animating>>
      BY <1>7, <2>2, <2>4 DEF OnEstimatedVBlank, RepaintsOnTimer
    <3>2. q = TimerSpent(surface[o]) /\ Unlit(surface[o])
      BY <2>4 DEF IInv, Steady
    <3>3. q \in Surface /\ Unlit(q)
      BY <3>2, <2>1, SpentLemma
    <3>4. QED
      BY <3>1, <3>3, <2>4, OneOutputLemma
  <2>5. QED
    BY <2>3, <2>4
<1>8. ASSUME NEW o \in Outputs, VBlank(o) PROVE IInv'
  <2>1. surface[o] \in Surface /\ surface[o].flips > 0
        /\ UNCHANGED <<hotplugVars, active, animating>>
    BY <1>1, <1>8 DEF VBlank
  <2>2. CASE o \in connected
    <3>1. surface' = [surface EXCEPT ![o] = OnVBlank(surface[o])]
      BY <1>1, <1>8, <2>2 DEF VBlank
    <3>2. Coherent(surface[o])
      BY <2>2 DEF IInv, Steady
    <3>3. /\ OnVBlank(surface[o]) \in Surface /\ Coherent(OnVBlank(surface[o]))
          /\ Sound(surface[o], animating) => Sound(OnVBlank(surface[o]), animating)
      BY <2>1, <3>2, <1>1, OnVBlankLemma
    <3>4. QED
      BY <3>1, <3>3, <2>1, <2>2, OneOutputLemma
  <2>3. CASE o \notin connected
    <3> DEFINE q == FlipSpent(surface[o])
    <3>1. surface' = [surface EXCEPT ![o] = q]
      BY <1>1, <1>8, <2>3 DEF VBlank
    <3>2. q \in Surface /\ Unlit(q)
      BY <2>1, <2>3, <1>1, SpentLemma DEF IInv, Steady
    <3>3. QED
      BY <3>1, <3>2, <2>1, <2>3, OneOutputLemma
  <2>4. QED
    BY <2>2, <2>3
<1>9. CASE PauseSession
  <2>1. PICK lost \in SUBSET Outputs :
           surface' = [o \in Outputs |-> [surface[o] EXCEPT
                          !.flips = IF o \in lost THEN 0 ELSE LateFlips(@)]]
    BY <1>9 DEF PauseSession
  <2>2. ASSUME NEW o \in Outputs
        PROVE  /\ surface'[o] \in Surface
               /\ Coherent(surface[o]) => Coherent(surface'[o])
               /\ Unlit(surface[o]) => Unlit(surface'[o])
    <3> DEFINE n == IF o \in lost THEN 0 ELSE LateFlips(surface[o].flips)
    <3>1. n \in Nat
      BY <1>1, RedrawAssumption DEF LateFlips, Surface
    <3>2. surface'[o] = [surface[o] EXCEPT !.flips = n]
      BY <2>1, <1>1 DEF Surface
    <3> HIDE DEF n
    <3>3. QED
      BY <1>1, <3>1, <3>2 DEF Surface, Coherent, Unlit
  <2>3. surface' \in [Outputs -> Surface]
    BY <2>1, <2>2
  <2>4. Steady(surface', connected, FALSE, animating)
    BY <2>2, <2>3, <1>1 DEF IInv, Steady
  <2>5. QED
    BY <2>3, <2>4, <1>9 DEF PauseSession, IInv, TypeOK, NoGhostOutput, hotplugVars
<1>10. CASE ActivateSession
  <2> DEFINE f == [o \in Outputs |-> IF o \in connected THEN ResetSurface(surface[o])
                                                       ELSE surface[o]]
  <2>1. \A o \in connected : Coherent(surface[o]) /\ surface[o] \in Surface
    BY <1>1 DEF IInv, Steady
  <2>2. f \in [Outputs -> Surface]
    BY <2>1, <1>1, FreshLemma
  <2>3. /\ \A o \in connected : /\ Coherent(f[o]) /\ FlipDue(f[o])
                                /\ f[o].state = "Idle"
        /\ \A o \in Outputs \ connected : Unlit(f[o])
    BY <2>1, <1>1, FreshLemma DEF IInv, Steady
  <2>4. surface' = QueueRedrawAll(f, connected) /\ active'
        /\ UNCHANGED <<hotplugVars, animating>>
    BY <1>10 DEF ActivateSession
  <2> HIDE DEF f
  <2>5. Steady(surface', connected, TRUE, animating)
    BY <1>1, <2>2, <2>3, <2>4, QueueAllLemma
  <2>6. QED
    BY <2>4, <2>5 DEF IInv, TypeOK, NoGhostOutput, Steady, hotplugVars
<1>11. ASSUME NEW o \in Outputs, Plug(o) PROVE IInv'
  <2>1. CASE UNCHANGED <<connected, surface>>
    BY <2>1, <1>11 DEF Plug, IInv, TypeOK, NoGhostOutput, Steady
  <2>2. CASE Relight({}, {o}) /\ o \notin disabled /\ UNCHANGED stash
    <3>1. /\ connected' = connected \cup {o}
          /\ Steady(surface', connected', active, animating)
      BY <2>2, RelightLemma
    <3>2. QED
      BY <3>1, <2>2, <1>11 DEF Plug, IInv, TypeOK, NoGhostOutput, Steady
  <2>3. QED
    BY <2>1, <2>2, <1>11 DEF Plug
<1>12. ASSUME NEW o \in Outputs, Unplug(o) PROVE IInv'
  <2>1. /\ connected' = connected \ {o}
        /\ Steady(surface', connected', active, animating)
    BY <1>12, RelightLemma DEF Unplug
  <2>2. QED
    BY <2>1, <1>12 DEF Unplug, IInv, TypeOK, NoGhostOutput, Steady
<1>13. CASE DeviceRemoved
  <2>1. ASSUME NEW o \in Outputs
        PROVE  surface'[o] \in Surface /\ Unlit(surface'[o])
    <3>1. DropSurface(surface[o]) \in Surface /\ Unlit(DropSurface(surface[o]))
      BY <1>1, FreshLemma DEF IInv, Steady
    <3>2. surface'[o] = [DropSurface(surface[o]) EXCEPT !.flips = 0]
      BY <1>13 DEF DeviceRemoved
    <3>3. QED
      BY <3>1, <3>2 DEF Surface, Unlit
  <2>2. surface' \in [Outputs -> Surface]
    BY <2>1, <1>13 DEF DeviceRemoved
  <2>3. QED
    BY <2>1, <2>2, <1>13 DEF DeviceRemoved, IInv, TypeOK, NoGhostOutput, Steady
<1>14. ASSUME NEW D \in SUBSET Switchable, SetDisplays(D) PROVE IInv'
  <2>1. PICK lit \in SUBSET (stash \ D) :
           /\ stash' = (stash \ lit) \cup (connected \cap D)
           /\ IF lit \cup (connected \cap D) = {}
              THEN UNCHANGED <<connected, surface>>
              ELSE Relight(connected \cap D, lit)
    BY <1>14 DEF SetDisplays
  <2>2. stash \subseteq Outputs /\ D \subseteq Outputs
    BY RedrawAssumption DEF IInv, TypeOK
  <2>3. /\ connected' = (connected \ (connected \cap D)) \cup lit
        /\ Steady(surface', connected', active, animating)
    <3>1. CASE UNCHANGED <<connected, surface>> /\ lit \cup (connected \cap D) = {}
      BY <3>1 DEF IInv
    <3>2. CASE Relight(connected \cap D, lit)
      BY <3>2, <1>1, <2>1, <2>2, RelightLemma
    <3>3. QED
      BY <3>1, <3>2, <2>1
  <2>4. QED
    BY <1>1, <2>1, <2>2, <2>3, <1>14
    DEF SetDisplays, IInv, TypeOK, NoGhostOutput, Steady
<1>15. CASE UNCHANGED vars
  BY <1>15 DEF vars, IInv, TypeOK, NoGhostOutput, Steady
<1>16. QED
  BY <1>2, <1>4, <1>5, <1>6, <1>7, <1>8, <1>9, <1>10, <1>11, <1>12, <1>13, <1>14,
     <1>15 DEF Next, LoopStep, Hotplug

-----------------------------------------------------------------------------
(* The theorems.                                                           *)

THEOREM Invariance == Spec => []IInv
BY InitIInv, StepIInv, PTL DEF Spec

\* Every variable has its type, whatever the outputs and failures.
THEOREM TypeCorrect == Spec => []TypeOK
BY Invariance, PTL DEF IInv

\* Lit and stashed outputs are plugged, and no output is both.
THEOREM OutputsReal == Spec => []NoGhostOutput
<1>1. IInv => NoGhostOutput
  BY DEF IInv
<1>2. QED
  BY <1>1, Invariance, PTL

\* The outputs are real and every callback is counted once.
THEOREM OutputsSound == Spec => []OutputsInv
BY TypeCorrect, OutputsReal, PTL DEF OutputsInv

\* No output of an active session waits for a callback that never comes.
THEOREM NeverStranded == Spec => []NoStrandedOutput
<1>1. IInv => NoStrandedOutput
  BY DEF IInv, TypeOK, Steady, NoStrandedOutput, Awaited, Coherent, Sound, FlipDue,
         Surface, RedrawState, Estimated
<1>2. QED
  BY <1>1, Invariance, PTL

\* Damage on a lit output is repainted or its failure is recorded.
THEOREM DamageKept == Spec => []NoLostDamage
<1>1. IInv => NoLostDamage
  BY DEF IInv, Steady, NoLostDamage, Sound, Covered
<1>2. QED
  BY <1>1, Invariance, PTL

\* A running animation keeps every lit output repainting.
THEOREM AnimationKept == Spec => []AnimationKeepsRepainting
<1>1. IInv => AnimationKeepsRepainting
  BY DEF IInv, Steady, AnimationKeepsRepainting, Sound, Covered
<1>2. QED
  BY <1>1, Invariance, PTL

-----------------------------------------------------------------------------
(* The promises to the clients: the inductive invariant.                   *)

\* ClientAndLockAgree, and what it leaves out: the client locked for has been
\* told what the state says even when it is dead, and no other live client
\* has a lock pending or held.
Held(m, up) ==
    /\ m \in Session
    /\ m.client = NoClient <=> m.state = "Unlocked"
    /\ m.deadline <=> m.state = "WaitingForSurfaces"
    /\ m.state \in {"WaitingForSurfaces", "Locking"} => m.locker[m.client] = "requested"
    /\ m.state = "Locked" => m.locker[m.client] = "locked"
    /\ \A c \in up : c # m.client => m.locker[c] \in {"none", "finished"}

LockInv == alive \subseteq Clients /\ Held(session, alive)

-----------------------------------------------------------------------------
(* How a handler may move the lock on its own, no client asking.           *)

Quiet(m, n) ==
    /\ n.state = m.state /\ n.client = m.client
    /\ n.deadline = m.deadline /\ n.locker = m.locker

Blanks(m, n) ==
    /\ m.state = "WaitingForSurfaces" /\ n.state = "Locking"
    /\ n.client = m.client /\ n.locker = m.locker /\ n.deadline = FALSE

Confirms(m, n) ==
    /\ m.state \in {"WaitingForSurfaces", "Locking"} /\ n.state = "Locked"
    /\ n.client = m.client /\ n.deadline = FALSE
    /\ n.locker = [m.locker EXCEPT ![m.client] = "locked"]

Aborts(m, n) ==
    /\ m.state = "Locking" /\ n.state = "Unlocked"
    /\ n.client = NoClient /\ n.deadline = FALSE
    /\ n.locker = [m.locker EXCEPT ![m.client] = "finished"]

Settles(m, n) ==
    n \in Session /\ (Quiet(m, n) \/ Blanks(m, n) \/ Confirms(m, n) \/ Aborts(m, n))

\* Forgetting the focus and the surfaces moves nothing.
LEMMA QuietSettles ==
    ASSUME NEW m, NEW n \in Session, NEW r, Quiet(m, n), Settles(n, r)
    PROVE  Settles(m, r)
BY DEF Settles, Quiet, Blanks, Confirms, Aborts

LEMMA SettlesQuiet ==
    ASSUME NEW m, NEW n, NEW r \in Session, Settles(m, n), Quiet(n, r)
    PROVE  Settles(m, r)
BY DEF Settles, Quiet, Blanks, Confirms, Aborts

LEMMA LockFocusLemma ==
    ASSUME NEW m \in Session
    PROVE  LockFocus(m) \in Session /\ Quiet(m, LockFocus(m))
BY DEF LockFocus, Session, Quiet

LEMMA ConfirmLemma ==
    ASSUME NEW m \in Session
    PROVE  /\ Confirm(m) \in Session
           /\ Confirm(m).state = "Locked" /\ Confirm(m).client = m.client
           /\ Confirm(m).deadline = m.deadline
           /\ Confirm(m).locker = [m.locker EXCEPT ![m.client] = "locked"]
<1> DEFINE l == [m.locker EXCEPT ![m.client] = "locked"]
<1>1. l \in [Clients -> LockerState]
  BY DEF Session, LockerState
<1>2. Confirm(m) = [m EXCEPT !.state = "Locked", !.locker = l]
  BY DEF Confirm
<1> HIDE DEF l
<1>3. QED
  BY <1>1, <1>2 DEF Session, LockState, l

LEMMA ConfirmIfReadyLemma ==
    ASSUME NEW m \in Session, NEW up, Held(m, up), NEW lit
    PROVE  Settles(m, ConfirmLockIfReady(m, lit))
<1>1. CASE m.state = "Locking" /\ lit \subseteq m.rendered
  <2>1. ConfirmLockIfReady(m, lit) = Confirm(m) /\ m.deadline = FALSE
    BY <1>1 DEF ConfirmLockIfReady, Held, Session
  <2>2. QED
    BY <2>1, <1>1, ConfirmLemma DEF Settles, Confirms
<1>2. CASE ~(m.state = "Locking" /\ lit \subseteq m.rendered)
  BY <1>2 DEF ConfirmLockIfReady, Settles, Quiet
<1>3. QED
  BY <1>1, <1>2

LEMMA ContinueLemma ==
    ASSUME NEW m \in Session, m.state = "WaitingForSurfaces", NEW lit,
           NEW f \in SessionFocus
    PROVE  Settles(m, ContinueToLocking(m, lit, f))
<1> DEFINE b == BeginLockedSession([m EXCEPT !.deadline = FALSE], f)
           k == [b EXCEPT !.state = "Locking"]
<1>1. b = [m EXCEPT !.deadline = FALSE, !.rendered = {}, !.focus = f]
  BY DEF BeginLockedSession
<1>2. b \in Session /\ k \in Session
  BY <1>1 DEF Session, LockState, SessionFocus
<1>3. /\ b.state = m.state /\ b.client = m.client /\ b.locker = m.locker
      /\ b.deadline = FALSE
      /\ k.state = "Locking" /\ k.client = m.client /\ k.locker = m.locker
      /\ k.deadline = FALSE
  BY <1>1 DEF Session
<1>4. ContinueToLocking(m, lit, f) = IF lit = {} THEN Confirm(b) ELSE LockFocus(k)
  BY DEF ContinueToLocking
<1> HIDE DEF b, k
<1>5. CASE lit = {}
  BY <1>2, <1>3, <1>4, <1>5, ConfirmLemma DEF Settles, Confirms
<1>6. CASE lit # {}
  <2>1. LockFocus(k) \in Session /\ Quiet(k, LockFocus(k))
    BY <1>2, LockFocusLemma
  <2>2. QED
    BY <1>3, <1>4, <1>6, <2>1 DEF Settles, Blanks, Quiet
<1>7. QED
  BY <1>5, <1>6

LEMMA MaybeContinueLemma ==
    ASSUME NEW m \in Session, NEW lit, NEW f \in SessionFocus
    PROVE  Settles(m, MaybeContinueToLocking(m, lit, f))
<1>1. CASE m.state = "WaitingForSurfaces" /\ lit \subseteq m.mapped
  BY <1>1, ContinueLemma DEF MaybeContinueToLocking
<1>2. CASE ~(m.state = "WaitingForSurfaces" /\ lit \subseteq m.mapped)
  BY <1>2 DEF MaybeContinueToLocking, Settles, Quiet
<1>3. QED
  BY <1>1, <1>2

LEMMA UnlockLemma ==
    ASSUME NEW m \in Session, NEW f \in SessionFocus
    PROVE  /\ UnlockSession(m, f) \in Session
           /\ UnlockSession(m, f).state = "Unlocked"
           /\ UnlockSession(m, f).client = NoClient
           /\ UnlockSession(m, f).deadline = FALSE
           /\ UnlockSession(m, f).locker = m.locker
<1>1. NoSurfaces \in [Outputs -> Clients \cup {NoClient}]
  BY DEF NoSurfaces
<1>2. QED
  BY <1>1 DEF UnlockSession, Session, LockState, SessionFocus

LEMMA RenderFailedLemma ==
    ASSUME NEW m \in Session, NEW up, Held(m, up), NEW o, NEW f \in SessionFocus
    PROVE  Settles(m, LockRenderFailed(m, o, f))
<1> DEFINE l == [m.locker EXCEPT ![m.client] = "finished"]
           n == [m EXCEPT !.locker = l]
<1>1. CASE m.state = "Locking" /\ o \notin m.rendered
  <2>1. l \in [Clients -> LockerState]
    BY DEF Session, LockerState
  <2>2. LockRenderFailed(m, o, f) = UnlockSession(n, f)
    BY <1>1 DEF LockRenderFailed, FailLock
  <2> HIDE DEF l
  <2>3. n \in Session /\ n.locker = l
    BY <2>1 DEF Session
  <2> HIDE DEF n
  <2>4. QED
    <3> DEFINE r == UnlockSession(n, f)
    <3>1. /\ r \in Session /\ r.state = "Unlocked" /\ r.client = NoClient
          /\ r.deadline = FALSE /\ r.locker = l
      BY <2>3, UnlockLemma
    <3> HIDE DEF r
    <3>2. Aborts(m, r)
      BY <1>1, <3>1 DEF Aborts, l
    <3>3. QED
      BY <2>2, <3>1, <3>2 DEF Settles, r
<1>2. CASE ~(m.state = "Locking" /\ o \notin m.rendered)
  BY <1>2 DEF LockRenderFailed, Settles, Quiet
<1>3. QED
  BY <1>1, <1>2

\* Changing only what a lock's surfaces, frames and focus are.
LEMMA HeldQuiet ==
    ASSUME NEW m, NEW n \in Session, NEW up, Held(m, up), Quiet(m, n)
    PROVE  Held(n, up)
BY DEF Held, Quiet

LEMMA AfterRenderLemma ==
    ASSUME NEW m \in Session, NEW up, Held(m, up), NEW o \in Outputs, NEW outcome,
           NEW f \in SessionFocus
    PROVE  Settles(m, AfterRender(m, o, outcome, f))
<1> DEFINE more == [m EXCEPT !.rendered = m.rendered \cup {o}]
           less == [m EXCEPT !.rendered = m.rendered \ {o}]
<1>1. /\ more \in Session /\ Quiet(m, more)
      /\ less \in Session /\ Quiet(m, less)
  BY DEF Session, Quiet
<1>2. LockFrameRendered(m, o, connected)
         = IF IsLocked(m) THEN ConfirmLockIfReady(more, connected) ELSE less
  BY DEF LockFrameRendered
<1> HIDE DEF more, less
<1>3. Settles(more, ConfirmLockIfReady(more, connected))
  BY <1>1, HeldQuiet, ConfirmIfReadyLemma
<1>4. Settles(m, LockFrameRendered(m, o, connected))
  BY <1>1, <1>2, <1>3, QuietSettles DEF Settles
<1>5. Settles(m, LockRenderFailed(m, o, f))
  BY RenderFailedLemma
<1>6. Settles(m, m)
  BY DEF Settles, Quiet
<1>7. QED
  BY <1>4, <1>5, <1>6 DEF AfterRender

LEMMA RefreshLemma ==
    ASSUME NEW m \in Session, NEW up, Held(m, up), NEW lit, NEW f \in SessionFocus
    PROVE  Settles(m, RefreshLockState(m, lit, f))
<1> DEFINE kept == [o \in Outputs |-> IF o \in lit THEN m.lockSurfaces[o] ELSE NoClient]
           p == [m EXCEPT !.lockSurfaces = kept, !.mapped = m.mapped \cap lit,
                          !.rendered = m.rendered \cap lit]
           u == [m EXCEPT !.lockSurfaces = NoSurfaces, !.mapped = {}, !.rendered = {}]
           c == ConfirmLockIfReady(p, lit)
           k == MaybeContinueToLocking(c, lit, f)
<1>1. /\ kept \in [Outputs -> Clients \cup {NoClient}]
      /\ NoSurfaces \in [Outputs -> Clients \cup {NoClient}]
  BY DEF Session, NoSurfaces
<1>2. RefreshLockState(m, lit, f) = IF m.state = "Unlocked" THEN u ELSE LockFocus(k)
  BY DEF RefreshLockState
<1> HIDE DEF kept
<1>3. p \in Session /\ Quiet(m, p) /\ u \in Session /\ Quiet(m, u)
  BY <1>1 DEF Session, Quiet
<1> HIDE DEF p, u
<1>4. Settles(p, c)
  BY <1>3, HeldQuiet, ConfirmIfReadyLemma
<1>5. c = p \/ c = Confirm(p)
  BY DEF ConfirmLockIfReady
<1>6. c = p \/ k = c
  BY <1>3, <1>5, ConfirmLemma DEF MaybeContinueToLocking
<1>7. Settles(p, k)
  <2>1. CASE c = p
    BY <2>1, <1>3, MaybeContinueLemma
  <2>2. CASE k = c
    BY <2>2, <1>4
  <2>3. QED
    BY <2>1, <2>2, <1>6
<1>8. Settles(p, LockFocus(k))
  <2>1. k \in Session
    BY <1>7 DEF Settles
  <2> HIDE DEF k
  <2>2. QED
    BY <2>1, <1>7, LockFocusLemma, SettlesQuiet
<1> HIDE DEF k
<1>9. QED
  BY <1>2, <1>3, <1>8, QuietSettles DEF Settles

-----------------------------------------------------------------------------
(* Every step is one of the protocol's, and keeps the invariant.           *)

ProtocolStep == Protocol!Next \/ UNCHANGED Protocol!vars

LEMMA SettlesStep ==
    ASSUME LockInv, UNCHANGED alive, Settles(session, session')
    PROVE  LockInv' /\ ProtocolStep
<1> USE DEF LockInv, Held, Settles, IsLocked
<1>1. session \in Session /\ session' \in Session
  OBVIOUS
<1>2. CASE Quiet(session, session')
  <2>1. LockInv'
    BY <1>2 DEF Quiet
  <2>2. UNCHANGED Protocol!vars
    BY <1>2 DEF Quiet, Protocol!vars
  <2>3. QED
    BY <2>1, <2>2 DEF ProtocolStep
<1>3. session.state # "Unlocked" => session.client \in Clients
  BY DEF Session
<1>4. CASE Blanks(session, session')
  <2>1. LockInv'
    BY <1>4 DEF Blanks
  <2>2. Protocol!Blank
    BY <1>3, <1>4 DEF Blanks, Protocol!Blank, Protocol!Pending
  <2>3. QED
    BY <2>1, <2>2 DEF ProtocolStep, Protocol!Next
<1>5. CASE Confirms(session, session')
  <2>1. /\ session'.locker[session.client] = "locked"
        /\ \A c \in Clients \ {session.client} : session'.locker[c] = session.locker[c]
    BY <1>3, <1>5 DEF Confirms, Session
  <2>2. LockInv'
    BY <1>3, <1>5, <2>1 DEF Confirms
  <2>3. Protocol!Confirm
    BY <1>3, <1>5 DEF Confirms, Protocol!Confirm, Protocol!Pending, Protocol!Tell
  <2>4. QED
    BY <2>2, <2>3 DEF ProtocolStep, Protocol!Next
<1>6. CASE Aborts(session, session')
  <2>1. /\ session'.locker[session.client] = "finished"
        /\ \A c \in Clients \ {session.client} : session'.locker[c] = session.locker[c]
    BY <1>3, <1>6 DEF Aborts, Session
  <2>2. LockInv'
    BY <1>3, <1>6, <2>1 DEF Aborts
  <2>3. Protocol!Abort
    BY <1>3, <1>6 DEF Aborts, Protocol!Abort, Protocol!Pending, Protocol!Tell
  <2>4. QED
    BY <2>2, <2>3 DEF ProtocolStep, Protocol!Next
<1>7. QED
  BY <1>2, <1>4, <1>5, <1>6

LEMMA LockInitInv == LockInit => LockInv /\ Protocol!Init
<1> SUFFICES ASSUME LockInit PROVE LockInv /\ Protocol!Init
  OBVIOUS
<1>1. NoSurfaces \in [Outputs -> Clients \cup {NoClient}]
  BY DEF NoSurfaces
<1>2. session \in Session
  BY <1>1 DEF LockInit, Session, LockState, LockerState
<1>3. LockInv
  BY <1>2 DEF LockInit, LockInv, Held
<1>4. Protocol!Init
  BY DEF LockInit, Protocol!Init, IsLocked
<1>5. QED
  BY <1>3, <1>4

\* What a client is told changes for that client alone.
LEMMA TellLemma ==
    ASSUME NEW m \in Session, NEW c \in Clients, NEW event \in LockerState
    PROVE  /\ Tell(m, c, event) \in Session
           /\ Tell(m, c, event).state = m.state /\ Tell(m, c, event).client = m.client
           /\ Tell(m, c, event).deadline = m.deadline
           /\ Tell(m, c, event).locker = [m.locker EXCEPT ![c] = event]
<1> DEFINE l == [m.locker EXCEPT ![c] = event]
<1>1. l \in [Clients -> LockerState]
  BY DEF Session
<1>2. Tell(m, c, event) = [m EXCEPT !.locker = l]
  BY DEF Tell
<1> HIDE DEF l
<1>3. QED
  BY <1>1, <1>2 DEF Session, l

LEMMA LockSessionStep ==
    ASSUME LockInv, NEW c \in Clients, LockSession(c)
    PROVE  LockInv' /\ ProtocolStep
<1> USE DEF LockInv, Held, IsLocked
<1>1. c \in alive /\ session.locker[c] = "none" /\ alive' = alive /\ session \in Session
  BY DEF LockSession
<1>2. session.state # "Unlocked" => session.client \in Clients
  BY DEF Session
<1>3. CASE session' = Tell(session, c, "finished")
  <2>1. /\ session' \in Session
        /\ session'.state = session.state /\ session'.client = session.client
        /\ session'.deadline = session.deadline
        /\ session'.locker = [session.locker EXCEPT ![c] = "finished"]
    BY <1>3, <1>1, TellLemma DEF LockerState
  <2>2. c # session.client
    BY <1>1, SessionLockAssumption DEF Session, LockState
  <2>3. LockInv'
    BY <1>1, <1>2, <2>1, <2>2 DEF Session
  <2>4. Protocol!Refuse(c)
    BY <1>1, <2>1 DEF Protocol!Refuse, Protocol!Tell
  <2>5. QED
    BY <2>3, <2>4 DEF ProtocolStep, Protocol!Next
<1>4. CASE HolderDied /\ session' = Confirm([session EXCEPT !.client = c])
  <2> DEFINE m == [session EXCEPT !.client = c]
  <2>1. /\ m \in Session /\ m.client = c /\ m.deadline = session.deadline
        /\ m.locker = session.locker
    BY <1>1 DEF Session
  <2> HIDE DEF m
  <2>2. /\ session' \in Session
        /\ session'.state = "Locked" /\ session'.client = c
        /\ session'.deadline = session.deadline
        /\ session'.locker = [session.locker EXCEPT ![c] = "locked"]
    BY <1>4, <2>1, ConfirmLemma DEF m
  <2>3. LockInv'
    BY <1>1, <1>4, <2>2, SessionLockAssumption DEF Session, HolderDied
  <2>4. Protocol!Replace(c)
    BY <1>1, <1>2, <1>4, <2>2, SessionLockAssumption
    DEF Protocol!Replace, Protocol!Tell, HolderDied
  <2>5. QED
    BY <2>3, <2>4 DEF ProtocolStep, Protocol!Next
<1>5. ASSUME session.state = "Unlocked", NEW f \in SessionFocus,
             session' = Confirm(BeginLockedSession([session EXCEPT !.client = c], f))
      PROVE  LockInv' /\ ProtocolStep
  <2> DEFINE m == BeginLockedSession([session EXCEPT !.client = c], f)
  <2>1. /\ m \in Session /\ m.client = c /\ m.deadline = session.deadline
        /\ m.locker = session.locker
    BY <1>1 DEF Session, BeginLockedSession, SessionFocus
  <2> HIDE DEF m
  <2>2. /\ session' \in Session
        /\ session'.state = "Locked" /\ session'.client = c
        /\ session'.deadline = session.deadline
        /\ session'.locker = [session.locker EXCEPT ![c] = "locked"]
    BY <1>5, <2>1, ConfirmLemma DEF m
  <2>3. LockInv'
    BY <1>1, <1>5, <2>2, SessionLockAssumption DEF Session
  <2>4. Protocol!Grant(c)
    BY <1>1, <1>5, <2>2 DEF Protocol!Grant, Protocol!Tell
  <2>5. QED
    BY <2>3, <2>4 DEF ProtocolStep, Protocol!Next
<1>6. CASE /\ session.state = "Unlocked"
           /\ session' = [Tell(session, c, "requested") EXCEPT
                             !.state = "WaitingForSurfaces", !.client = c,
                             !.deadline = TRUE]
  <2> DEFINE m == Tell(session, c, "requested")
  <2>1. m \in Session /\ m.locker = [session.locker EXCEPT ![c] = "requested"]
    BY <1>1, TellLemma DEF LockerState
  <2>2. session' = [m EXCEPT !.state = "WaitingForSurfaces", !.client = c,
                             !.deadline = TRUE]
    BY <1>6
  <2> HIDE DEF m
  <2>3. /\ session' \in Session
        /\ session'.state = "WaitingForSurfaces" /\ session'.client = c
        /\ session'.deadline = TRUE
        /\ session'.locker = [session.locker EXCEPT ![c] = "requested"]
    BY <2>1, <2>2 DEF Session, LockState
  <2>4. LockInv'
    BY <1>1, <1>6, <2>3, SessionLockAssumption DEF Session
  <2>5. Protocol!Request(c)
    BY <1>1, <1>6, <2>3 DEF Protocol!Request, Protocol!Tell
  <2>6. QED
    BY <2>4, <2>5 DEF ProtocolStep, Protocol!Next
<1>7. QED
  BY <1>3, <1>4, <1>5, <1>6 DEF LockSession, SetSession

LEMMA ClientStepLemma ==
    ASSUME LockInv, ClientStep
    PROVE  LockInv' /\ ProtocolStep
<1>1. session \in Session /\ alive \subseteq Clients /\ Held(session, alive)
  BY DEF LockInv, Held
<1>2. session.state # "Unlocked" => session.client \in Clients
  BY <1>1 DEF Held, Session
<1>3. PICK c \in Clients :
         \/ LockSession(c)
         \/ \E o \in Outputs : NewLockSurface(c, o)
         \/ Unlock(c)
         \/ Forget(c)
         \/ ClientDies(c)
         \/ ClientStarts(c)
  BY DEF ClientStep
<1>4. CASE LockSession(c)
  BY <1>4, LockSessionStep
<1>5. ASSUME NEW o \in Outputs, NewLockSurface(c, o) PROVE LockInv' /\ ProtocolStep
  <2> DEFINE held == [session.lockSurfaces EXCEPT ![o] = c]
             m == [session EXCEPT !.lockSurfaces = held, !.mapped = session.mapped \ {o}]
  <2>1. held \in [Outputs -> Clients \cup {NoClient}]
    BY <1>1 DEF Session
  <2>2. PICK f \in SessionFocus :
           session' = MaybeContinueToLocking(LockFocus(m), connected, f)
    BY <1>5 DEF NewLockSurface, SetSession
  <2> HIDE DEF held
  <2>3. m \in Session /\ Quiet(session, m)
    BY <1>1, <2>1 DEF Session, Quiet
  <2> HIDE DEF m
  <2> DEFINE k == LockFocus(m)
  <2>4. k \in Session /\ Quiet(m, k)
    BY <2>3, LockFocusLemma
  <2>5. session' = MaybeContinueToLocking(k, connected, f)
    BY <2>2
  <2> HIDE DEF k
  <2>6. Quiet(session, k)
    BY <2>3, <2>4 DEF Quiet
  <2>7. Settles(k, session')
    BY <2>4, <2>5, MaybeContinueLemma
  <2>8. Settles(session, session')
    BY <2>4, <2>6, <2>7, QuietSettles DEF Settles
  <2>9. QED
    BY <2>8, <1>5, SettlesStep DEF NewLockSurface
<1>6. CASE Unlock(c)
  <2>1. PICK f \in SessionFocus : session' = UnlockSession(Tell(session, c, "none"), f)
    BY <1>6 DEF Unlock, SetSession
  <2>2. c \in alive /\ session.locker[c] = "locked" /\ alive' = alive
    BY <1>6 DEF Unlock
  <2>3. session.client = c /\ session.state = "Locked"
    BY <1>1, <2>2, SessionLockAssumption DEF Held, Session, LockState
  <2> DEFINE m == Tell(session, c, "none")
  <2>4. m \in Session /\ m.locker = [session.locker EXCEPT ![c] = "none"]
    BY <1>1, TellLemma DEF LockerState
  <2>5. session' = UnlockSession(m, f)
    BY <2>1
  <2> HIDE DEF m
  <2>6. /\ session' \in Session /\ session'.state = "Unlocked"
        /\ session'.client = NoClient /\ session'.deadline = FALSE
        /\ session'.locker = [session.locker EXCEPT ![c] = "none"]
    BY <2>4, <2>5, UnlockLemma
  <2>7. LockInv'
    BY <1>1, <2>2, <2>3, <2>6 DEF LockInv, Held, Session
  <2>8. Protocol!Unlock(c)
    BY <2>2, <2>3, <2>6 DEF Protocol!Unlock, Protocol!Tell, IsLocked
  <2>9. QED
    BY <2>7, <2>8 DEF ProtocolStep, Protocol!Next
<1>7. CASE Forget(c)
  <2>1. /\ c \in alive /\ session.locker[c] = "finished" /\ alive' = alive
        /\ session' = Tell(session, c, "none")
    BY <1>7 DEF Forget, SetSession
  <2>2. /\ session' \in Session /\ session'.state = session.state
        /\ session'.client = session.client /\ session'.deadline = session.deadline
        /\ session'.locker = [session.locker EXCEPT ![c] = "none"]
    BY <1>1, <2>1, TellLemma DEF LockerState
  <2>3. c # session.client
    BY <1>1, <2>1, SessionLockAssumption DEF Held, Session, LockState
  <2>4. LockInv'
    BY <1>1, <1>2, <2>1, <2>2, <2>3 DEF LockInv, Held, Session
  <2>5. Protocol!Forget(c)
    BY <2>1, <2>2 DEF Protocol!Forget, Protocol!Tell, IsLocked
  <2>6. QED
    BY <2>4, <2>5 DEF ProtocolStep, Protocol!Next
<1>8. CASE ClientDies(c)
  <2>1. /\ alive' = alive \ {c}
        /\ session' = [session EXCEPT !.mapped =
                          {o \in session.mapped : session.lockSurfaces[o] # c}]
    BY <1>8 DEF ClientDies
  <2>2. session' \in Session /\ Quiet(session, session')
    BY <1>1, <2>1 DEF Session, Quiet
  <2>3. LockInv'
    BY <1>1, <2>1, <2>2 DEF LockInv, Held, Quiet
  <2>4. Protocol!Die(c)
    BY <2>1, <2>2 DEF Quiet, Protocol!Die, IsLocked
  <2>5. QED
    BY <2>3, <2>4 DEF ProtocolStep, Protocol!Next
<1>9. CASE ClientStarts(c)
  <2>1. /\ c \notin alive /\ session.client # c /\ alive' = alive \cup {c}
        /\ session' = Tell(session, c, "none")
    BY <1>9 DEF ClientStarts
  <2>2. /\ session' \in Session /\ session'.state = session.state
        /\ session'.client = session.client /\ session'.deadline = session.deadline
        /\ session'.locker = [session.locker EXCEPT ![c] = "none"]
    BY <1>1, <2>1, TellLemma DEF LockerState
  <2>3. LockInv'
    BY <1>1, <1>2, <2>1, <2>2 DEF LockInv, Held, Session
  <2>4. Protocol!Start(c)
    BY <2>1, <2>2 DEF Protocol!Start, Protocol!Tell, IsLocked
  <2>5. QED
    BY <2>3, <2>4 DEF ProtocolStep, Protocol!Next
<1>10. QED
  BY <1>3, <1>4, <1>5, <1>6, <1>7, <1>8, <1>9

LEMMA LockRenderStep ==
    ASSUME LockInv, NEW o \in Outputs, NEW f, LockRender(o, f), UNCHANGED alive
    PROVE  LockInv' /\ ProtocolStep
<1>1. session \in Session /\ Held(session, alive)
  BY DEF LockInv, Held
<1>2. \/ UNCHANGED session
      \/ \E outcome, w : w \in SessionFocus /\ session' = AfterRender(session, o, outcome, w)
  BY DEF LockRender
<1>3. Settles(session, session')
  BY <1>1, <1>2, AfterRenderLemma DEF Settles, Quiet
<1>4. QED
  BY <1>3, SettlesStep

\* The one step lemma: the invariant is inductive, and the lock machine's steps
\* are the protocol's.
LEMMA LockStep == LockInv /\ [LockNext]_allVars => LockInv' /\ ProtocolStep
<1> SUFFICES ASSUME LockInv, [LockNext]_allVars PROVE LockInv' /\ ProtocolStep
  OBVIOUS
<1>1. session \in Session /\ Held(session, alive)
  BY DEF LockInv, Held
<1>2. CASE UNCHANGED lockVars
  <2>1. session' = session /\ alive' = alive
    BY <1>2 DEF lockVars
  <2>2. Settles(session, session')
    BY <1>1, <2>1 DEF Settles, Quiet
  <2>3. QED
    BY <2>1, <2>2, SettlesStep
<1>3. ASSUME NEW o \in Outputs, LockRunIdle(o) PROVE LockInv' /\ ProtocolStep
  BY <1>3, LockRenderStep DEF LockRunIdle
<1>4. ASSUME NEW o \in Outputs, LockOnEstimatedVBlank(o) PROVE LockInv' /\ ProtocolStep
  <2>1. CASE RepaintsOnTimer(o)
    BY <1>4, <2>1, LockRenderStep DEF LockOnEstimatedVBlank
  <2>2. CASE ~RepaintsOnTimer(o)
    BY <1>4, <2>2, <1>2 DEF LockOnEstimatedVBlank, lockVars
  <2>3. QED
    BY <2>1, <2>2
<1>5. CASE DeadlineFires
  <2>1. PICK f \in SessionFocus : session' = ContinueToLocking(session, connected, f)
    BY <1>5 DEF DeadlineFires, SetSession
  <2>2. session.state = "WaitingForSurfaces" /\ alive' = alive
    BY <1>1, <1>5 DEF DeadlineFires, Held
  <2>3. Settles(session, session')
    BY <1>1, <2>1, <2>2, ContinueLemma
  <2>4. QED
    BY <2>2, <2>3, SettlesStep
<1>6. ASSUME NEW o \in Outputs, MapLockSurface(o) PROVE LockInv' /\ ProtocolStep
  <2> DEFINE m == [session EXCEPT !.mapped = session.mapped \cup {o}]
  <2>1. PICK f \in SessionFocus :
           session' = LockFocus(MaybeContinueToLocking(m, connected, f))
    BY <1>6 DEF MapLockSurface
  <2>2. m \in Session /\ Quiet(session, m)
    BY <1>1 DEF Session, Quiet
  <2> HIDE DEF m
  <2> DEFINE k == MaybeContinueToLocking(m, connected, f)
  <2>3. Settles(session, k)
    BY <2>2, MaybeContinueLemma, QuietSettles DEF Settles
  <2>4. k \in Session
    BY <2>3 DEF Settles
  <2> HIDE DEF k
  <2>5. Settles(session, LockFocus(k))
    BY <2>3, <2>4, LockFocusLemma, SettlesQuiet
  <2>6. QED
    BY <2>1, <2>5, <1>6, SettlesStep DEF MapLockSurface, k
<1>7. ASSUME NEW f \in SessionFocus, FocusWindow(f) PROVE LockInv' /\ ProtocolStep
  <2>1. session' = [session EXCEPT !.focus = f] /\ alive' = alive
    BY <1>7 DEF FocusWindow
  <2>2. Settles(session, session')
    BY <1>1, <2>1 DEF Settles, Quiet, Session, SessionFocus
  <2>3. QED
    BY <2>1, <2>2, SettlesStep
<1>8. CASE LockHotplug
  <2>1. Settles(session, session')
    BY <1>1, <1>8, RefreshLemma DEF LockHotplug, Settles, Quiet
  <2>2. QED
    BY <2>1, <1>8, SettlesStep DEF LockHotplug
<1>9. CASE ClientStep
  BY <1>9, ClientStepLemma
<1>10. QED
  BY <1>2, <1>3, <1>4, <1>5, <1>6, <1>7, <1>8, <1>9
  DEF LockNext, LockLoopStep, allVars, lockVars

-----------------------------------------------------------------------------
(* The theorems.                                                           *)

THEOREM LockInvariance == LockSpec => []LockInv
BY LockInitInv, LockStep, PTL DEF LockSpec

\* What live clients were told agrees with the lock the compositor holds.
THEOREM ClientsAgree == LockSpec => []ClientAndLockAgree
<1>1. LockInv => ClientAndLockAgree
  BY SessionLockAssumption DEF LockInv, Held, ClientAndLockAgree, Session, LockState
<1>2. QED
  BY <1>1, LockInvariance, PTL

\* The lock machine implements the protocol it owes its clients.
THEOREM LockImplementsProtocol == LockSpec => ImplementsProtocol
BY LockInitInv, LockStep, LockInvariance, PTL
DEF LockSpec, ImplementsProtocol, Protocol!Spec, ProtocolStep

-----------------------------------------------------------------------------
(* What a locked session shows: the redraw machines under the lock.        *)

\* A repaint of everything that an entry into Locking or Unlocked asks for.
LEMMA RequeueLemma ==
    ASSUME NEW f, NEW anim \in BOOLEAN, NEW m,
           connected \subseteq Outputs, active \in BOOLEAN,
           Steady(f, connected, active, anim)
    PROVE  Steady(Requeue(m, f), connected, active, anim)
<1>1. Steady(QueueRedrawAll(f, connected), connected, active, anim)
  BY QueueAllLemma DEF Steady, Sound
<1>2. QED
  BY <1>1 DEF Requeue

\* What LockRender makes of the outputs is a repaint, and a requeue maybe.
LEMMA LockRenderPaints ==
    ASSUME NEW o, NEW f, LockRender(o, f)
    PROVE  \E step \in Advances : \E h :
              /\ animating' = step.running
              /\ Painted(o, f, Scene, step, h)
              /\ surface' = h \/ surface' = Requeue(session', h)
<1>1. PICK step \in Advances :
         LET g == Moved(f, step)
         IN  /\ animating' = step.running
             /\ IF o \in connected /\ active
                THEN \E outcome \in Outcomes(g[o], Scene), tear \in BOOLEAN,
                        w \in SessionFocus :
                        /\ tear => o \in AsyncFlip /\ ~IsLocked(session)
                        /\ session' = AfterRender(session, o, outcome, w)
                        /\ surface' = Requeue(session', [g EXCEPT ![o] =
                              Rendered(@, Scene, outcome, tear, step.running)])
                ELSE /\ surface' = g
                     /\ UNCHANGED session
  BY DEF LockRender, Moved
<1> DEFINE g == Moved(f, step)
<1>2. CASE o \in connected /\ active
  <2>1. PICK outcome \in Outcomes(g[o], Scene), tear \in BOOLEAN :
           surface' = Requeue(session', [g EXCEPT ![o] =
                         Rendered(@, Scene, outcome, tear, step.running)])
    BY <1>1, <1>2
  <2> DEFINE h == [g EXCEPT ![o] = Rendered(@, Scene, outcome, tear, step.running)]
  <2>2. Painted(o, f, Scene, step, h)
    BY <1>2 DEF Painted
  <2>3. surface' = Requeue(session', h)
    BY <2>1
  <2> HIDE DEF h
  <2>4. QED
    BY <1>1, <2>2, <2>3
<1>3. CASE ~(o \in connected /\ active)
  <2>1. Painted(o, f, Scene, step, g) /\ surface' = g
    BY <1>1, <1>3 DEF Painted
  <2> HIDE DEF g
  <2>2. QED
    BY <1>1, <2>1
<1>4. QED
  BY <1>2, <1>3

LEMMA SceneLemma == Scene \in Scenes
BY SessionLockAssumption DEF Scene

LEMMA LockRenderSteady ==
    ASSUME NEW o \in Outputs, NEW f, IInv, ReadyToPaint(o, f), LockRender(o, f)
    PROVE  /\ animating' \in BOOLEAN
           /\ Steady(surface', connected, active, animating')
<1>1. connected \subseteq Outputs /\ animating \in BOOLEAN /\ active \in BOOLEAN
  BY DEF IInv, TypeOK
<1>2. PICK step \in Advances : \E h :
         /\ animating' = step.running
         /\ Painted(o, f, Scene, step, h)
         /\ surface' = h \/ surface' = Requeue(session', h)
  BY LockRenderPaints
<1> PICK h : /\ animating' = step.running
             /\ Painted(o, f, Scene, step, h)
             /\ surface' = h \/ surface' = Requeue(session', h)
  BY <1>2
<1>3. step.running \in BOOLEAN /\ Steady(h, connected, active, step.running)
  BY <1>1, <1>2, PaintLemma, SceneLemma
<1>4. Steady(Requeue(session', h), connected, active, step.running)
  BY <1>1, <1>3, RequeueLemma
<1>5. QED
  BY <1>2, <1>3, <1>4

\* Steps that are steps of Redraw, but for the repaints that the lock adds.
LEMMA SteadyStep ==
    ASSUME IInv, UNCHANGED <<hotplugVars, active>>, animating' \in BOOLEAN,
           Steady(surface', connected, active, animating')
    PROVE  IInv'
BY DEF IInv, TypeOK, NoGhostOutput, Steady, hotplugVars

LEMMA SetSessionSteady ==
    ASSUME IInv, NEW m, SetSession(m)
    PROVE  IInv'
<1>1. Steady(Requeue(m, surface), connected, active, animating)
  BY RequeueLemma DEF IInv, TypeOK
<1>2. QED
  BY <1>1, SteadyStep DEF SetSession, IInv, TypeOK

LEMMA LockStepIInv == IInv /\ [LockNext]_allVars => IInv'
<1> SUFFICES ASSUME IInv, [LockNext]_allVars PROVE IInv'
  OBVIOUS
<1>1. ASSUME [Next]_vars PROVE IInv'
  BY <1>1, StepIInv
<1>2. ASSUME NEW o \in Outputs, LockRunIdle(o) PROVE IInv'
  <2>1. ReadyToPaint(o, IdleTaken(o))
    BY <1>2, IdleTakenLemma DEF LockRunIdle
  <2>2. QED
    BY <2>1, <1>2, LockRenderSteady, SteadyStep DEF LockRunIdle
<1>3. ASSUME NEW o \in Outputs, LockOnEstimatedVBlank(o) PROVE IInv'
  <2>1. CASE RepaintsOnTimer(o)
    <3>1. ReadyToPaint(o, TimerTaken(o)) /\ LockRender(o, TimerTaken(o))
      BY <1>3, <2>1, TimerTakenLemma DEF LockOnEstimatedVBlank
    <3>2. QED
      BY <3>1, <1>3, LockRenderSteady, SteadyStep DEF LockOnEstimatedVBlank
  <2>2. CASE ~RepaintsOnTimer(o)
    <3>1. OnEstimatedVBlank(o)
      BY <1>3, <2>2 DEF LockOnEstimatedVBlank, OnEstimatedVBlank
    <3>2. QED
      BY <3>1, <1>1 DEF Next, LoopStep
  <2>3. QED
    BY <2>1, <2>2
<1>4. ASSUME NEW o \in Outputs, MapLockSurface(o) PROVE IInv'
  <2>1. Steady(surface', connected, active, animating)
    BY <1>4, DirtyQueueLemma DEF MapLockSurface, IInv, TypeOK
  <2>2. QED
    BY <2>1, <1>4, SteadyStep DEF MapLockSurface, IInv, TypeOK
<1>5. CASE DeadlineFires
  BY <1>5, SetSessionSteady DEF DeadlineFires
<1>6. CASE ClientStep
  <2>1. (\E m : SetSession(m)) \/ UNCHANGED vars
    BY <1>6 DEF ClientStep, LockSession, NewLockSurface, Unlock, Forget, ClientDies,
                ClientStarts
  <2>2. QED
    BY <2>1, <1>1, SetSessionSteady
<1>7. CASE LockHotplug
  BY <1>7, <1>1 DEF LockHotplug, Next
<1>8. ASSUME NEW f, FocusWindow(f) PROVE IInv'
  BY <1>8, <1>1 DEF FocusWindow
<1>9. CASE UNCHANGED allVars
  BY <1>9, <1>1 DEF allVars
<1>10. QED
  BY <1>1, <1>2, <1>3, <1>4, <1>5, <1>6, <1>7, <1>8, <1>9
  DEF LockNext, LockLoopStep, Next, LoopStep

-----------------------------------------------------------------------------
(* The invariant: the session's scene, the repaints a lock waits for and   *)
(* the keyboard focus.                                                     *)

Confined(m, lit) == IsLocked(m) /\ lit # {} => m.focus # "window"

Pending(m, f, lit, act) ==
    m.state = "Locking" => /\ lit \ m.rendered # {}
                           /\ act => \A o \in lit \ m.rendered : Covered(f[o])

\* The outputs that count as locked, all of them once it is confirmed.
Counted(m, lit) ==
    IF m.state = "Locked" THEN lit
    ELSE IF m.state = "Locking" THEN lit \cap m.rendered ELSE {}

\* No frame is refused after it was rendered: then what counts as locked is.
Shown(m, f, lit) ==
    "queueError" \notin Failures =>
        \A o \in Counted(m, lit) : Newest(f[o]) # "session"

Secure ==
    /\ Confined(session, connected)
    /\ Pending(session, surface, connected, active)
    /\ Shown(session, surface, connected)

-----------------------------------------------------------------------------
(* What handlers make of the last frame and of the repaint owed.           *)

LEMMA NoFrameIsNoSession == NoFrame # "session"
BY RedrawAssumption, SessionLockAssumption

LEMMA QueueKeeps ==
    ASSUME NEW s \in Surface
    PROVE  /\ Newest(QueueRedraw(s)) = Newest(s)
           /\ Coherent(s) => Covered(QueueRedraw(s))
<1>1. /\ QueueRedraw(s).pending = s.pending /\ QueueRedraw(s).queued = s.queued
      /\ QueueRedraw(s).screen = s.screen
  BY DEF QueueRedraw, Surface, RedrawState
<1>2. Coherent(s) => RepaintOwed(QueueRedraw(s))
  BY QueueRedrawLemma
<1>3. QED
  BY <1>1, <1>2 DEF Newest, Covered

LEMMA QueueAllKeeps ==
    ASSUME NEW f \in [Outputs -> Surface], NEW lit \in SUBSET Outputs,
           \A o \in lit : Coherent(f[o])
    PROVE  \A o \in lit : /\ Newest(QueueRedrawAll(f, lit)[o]) = Newest(f[o])
                          /\ Covered(QueueRedrawAll(f, lit)[o])
BY QueueKeeps DEF QueueRedrawAll

LEMMA DirtiedKeeps ==
    ASSUME NEW f \in [Outputs -> Surface], NEW D, NEW o \in Outputs
    PROVE  /\ Newest(Dirtied(f, D)[o]) = Newest(f[o])
           /\ Covered(f[o]) => Covered(Dirtied(f, D)[o])
<1>1. Covered(f[o]) => Covered(Dirtied(f, D)[o])
  BY DirtiedLemma
<1>2. \/ Dirtied(f, D)[o] = f[o]
      \/ Dirtied(f, D)[o] = [f[o] EXCEPT !.dirty = TRUE]
  BY DEF Dirtied
<1>3. QED
  BY <1>1, <1>2 DEF Newest, Surface

LEMMA VBlankKeeps ==
    ASSUME NEW s \in Surface, Coherent(s), s.flips > 0
    PROVE  /\ Newest(OnVBlank(s)) = Newest(s)
           /\ Covered(s) => Covered(OnVBlank(s))
<1> DEFINE d == FlipSpent(s)
           t == FrameSubmitted(d)
           idle == [t EXCEPT !.state = "Idle", !.needed = FALSE]
<1>1. d \in Surface /\ d = [s EXCEPT !.flips = d.flips] /\ d.flips \in Nat
  BY Counts DEF FlipSpent, Surface
<1> HIDE DEF d
<1>2. /\ t \in Surface /\ t.state = s.state /\ t.needed = s.needed
      /\ t.failed = s.failed /\ Newest(t) = Newest(s) /\ t.queued = NoFrame
      /\ t.timers = s.timers
  <2> DEFINE n == IF d.queued = NoFrame THEN d.flips ELSE d.flips + 1
  <2>1. n \in Nat
    BY <1>1
  <2>2. t = IF d.pending = NoFrame THEN d
            ELSE [d EXCEPT !.screen = d.pending, !.pending = d.queued,
                           !.queued = NoFrame, !.flips = n]
    BY <1>1 DEF FrameSubmitted
  <2> HIDE DEF n, t
  <2>3. QED
    BY <1>1, <2>1, <2>2 DEF Surface, Frame, Newest, Coherent
<1> HIDE DEF t
<1>3. /\ idle \in Surface /\ idle.state = "Idle" /\ idle.failed = s.failed
      /\ Newest(idle) = Newest(s) /\ Coherent(idle)
  BY <1>2 DEF Surface, RedrawState, Newest, Coherent, Estimated
<1> HIDE DEF idle
<1>4. OnVBlank(s) = IF s.state # "WaitingForVBlank" THEN t
                    ELSE IF s.needed THEN QueueRedraw(idle) ELSE idle
  BY DEF OnVBlank, idle, t, d
<1>5. QED
  BY <1>2, <1>3, <1>4, QueueKeeps DEF Covered, RepaintOwed

LEMMA TimerKeeps ==
    ASSUME NEW s \in Surface
    PROVE  /\ Newest(TimerFired(s)) = Newest(s)
           /\ Covered(s) => Covered(TimerFired(s))
BY Counts DEF TimerFired, Surface, RedrawState, Estimated, Newest, Covered, RepaintOwed

\* A frame that was queued, or was not needed, shows the scene; a refused one
\* leaves what was there, and one that was not even rendered owns up to it.
LEMMA RenderedShows ==
    ASSUME NEW s \in Surface, Coherent(s), NEW scene \in Scenes,
           NEW outcome \in Outcomes(s, scene), NEW tear \in BOOLEAN, NEW anim \in BOOLEAN
    PROVE  /\ outcome \in {"ok", "timerError"} =>
                 Newest(Rendered(s, scene, outcome, tear, anim)) = scene
           /\ outcome \notin {"ok", "timerError"} =>
                 Newest(Rendered(s, scene, outcome, tear, anim)) = Newest(s)
           /\ ~RenderedOk(outcome) => Covered(Rendered(s, scene, outcome, tear, anim))
<1> DEFINE t == CASE outcome = "ok" ->
                       IF Unchanged(s, scene) THEN QueueEstimatedVBlank(s)
                                              ELSE QueueFrame(s, scene, tear)
                  [] outcome = "timerError" -> GiveUp(s, FALSE)
                  [] outcome = "queueError" ->
                       GiveUp([s EXCEPT !.tearing = FALSE], TRUE)
                  [] OTHER -> GiveUp(s, TRUE)
<1>1. /\ t \in Surface
      /\ outcome \in {"ok", "timerError"} => Newest(t) = scene
      /\ outcome \notin {"ok", "timerError"} => Newest(t) = Newest(s) /\ t.failed
  <2>1. CASE outcome = "ok" /\ Unchanged(s, scene)
    <3> DEFINE n == s.timers + 1
    <3>1. n \in Nat
      BY Counts
    <3>2. t = IF s.state \in Estimated
              THEN [s EXCEPT !.state = "WaitingForEstimatedVBlank"]
              ELSE [s EXCEPT !.state = "WaitingForEstimatedVBlank",
                             !.needed = FALSE, !.timers = n]
      BY <2>1 DEF QueueEstimatedVBlank
    <3> HIDE DEF n, t
    <3>3. t \in Surface /\ Newest(t) = Newest(s)
      BY <3>1, <3>2 DEF Surface, RedrawState, Estimated, Newest
    <3>4. QED
      BY <3>3, <2>1 DEF Unchanged
  <2>2. CASE outcome = "ok" /\ ~Unchanged(s, scene)
    <3> DEFINE n == s.flips + 1
    <3>1. n \in Nat
      BY Counts
    <3>2. t = IF s.pending = NoFrame
              THEN [s EXCEPT !.state = "WaitingForVBlank", !.needed = FALSE,
                             !.tearing = tear, !.dirty = FALSE, !.failed = FALSE,
                             !.pending = scene, !.flips = n]
              ELSE [s EXCEPT !.state = "WaitingForVBlank", !.needed = FALSE,
                             !.tearing = tear, !.dirty = FALSE, !.failed = FALSE,
                             !.queued = scene]
      BY <2>2 DEF QueueFrame, Surface
    <3> HIDE DEF n, t
    <3>3. t \in Surface
      <4>1. scene \in Frame
        BY DEF Frame
      <4>2. CASE s.pending = NoFrame
        BY <3>1, <3>2, <4>1, <4>2 DEF Surface, RedrawState
      <4>3. CASE s.pending # NoFrame
        BY <3>1, <3>2, <4>1, <4>3 DEF Surface, RedrawState
      <4>4. QED
        BY <4>2, <4>3
    <3>4. Newest(t) = scene
      BY <3>2, RedrawAssumption DEF Surface, Newest, Coherent
    <3>5. QED
      BY <3>3, <3>4, <2>2
  <2>3. CASE outcome = "timerError"
    <3>1. t = GiveUp(s, FALSE) /\ Unchanged(s, scene)
      BY <2>3 DEF Outcomes
    <3>2. QED
      BY <3>1, <2>3 DEF GiveUp, Surface, RedrawState, Newest, Unchanged
  <2>4. CASE outcome = "queueError"
    <3>1. t = GiveUp([s EXCEPT !.tearing = FALSE], TRUE)
      BY <2>4
    <3>2. QED
      BY <3>1, <2>4 DEF GiveUp, Surface, RedrawState, Newest
  <2>5. CASE outcome \notin {"ok", "timerError", "queueError"}
    <3>1. t = GiveUp(s, TRUE)
      BY <2>5
    <3>2. QED
      BY <3>1, <2>5 DEF GiveUp, Surface, RedrawState, Newest
  <2>6. QED
    BY <2>1, <2>2, <2>3, <2>4, <2>5
<1>2. Rendered(s, scene, outcome, tear, anim)
         = IF anim /\ RenderedOk(outcome) THEN QueueRedraw(t) ELSE t
  BY DEF Rendered
<1> HIDE DEF t
<1>3. QED
  BY <1>1, <1>2, QueueKeeps DEF RenderedOk, Covered
-----------------------------------------------------------------------------
(* How a handler may move the lock and the keyboard focus.                 *)

Alike(m, n) ==
    /\ n.state = m.state /\ n.rendered = m.rendered
    /\ n.focus \in {m.focus, "none", "lock"}

Orderly(m, n, lit) ==
    \/ ~IsLocked(n)
    \/ n.state = "Locked" /\ lit = {}
    \/ /\ m.state # "Locking" /\ n.state = "Locking" /\ lit # {}
       /\ n.rendered = {} /\ n.focus # "window"
    \/ Alike(m, n)

LEMMA AlikeOrderly ==
    ASSUME NEW m, NEW n, NEW r, NEW lit, Alike(m, n), Orderly(n, r, lit)
    PROVE  Orderly(m, r, lit)
BY DEF Alike, Orderly

LEMMA LockFocusAlike ==
    ASSUME NEW m \in Session
    PROVE  /\ Alike(m, LockFocus(m))
           /\ IsLocked(m) => LockFocus(m).focus # "window"
BY DEF Alike, LockFocus, Session

LEMMA OrderlyAlike ==
    ASSUME NEW m, NEW n, NEW r, NEW lit, Orderly(m, n, lit), Alike(n, r)
    PROVE  Orderly(m, r, lit)
BY DEF Alike, Orderly, IsLocked

LEMMA ContinueOrderly ==
    ASSUME NEW m \in Session, m.state = "WaitingForSurfaces", NEW lit,
           NEW f \in SessionFocus
    PROVE  Orderly(m, ContinueToLocking(m, lit, f), lit)
<1> DEFINE b == BeginLockedSession([m EXCEPT !.deadline = FALSE], f)
           k == [b EXCEPT !.state = "Locking"]
<1>1. b = [m EXCEPT !.deadline = FALSE, !.rendered = {}, !.focus = f]
  BY DEF BeginLockedSession
<1>2. b \in Session /\ k \in Session /\ k.state = "Locking" /\ k.rendered = {}
  BY <1>1 DEF Session, LockState, SessionFocus
<1>3. ContinueToLocking(m, lit, f) = IF lit = {} THEN Confirm(b) ELSE LockFocus(k)
  BY DEF ContinueToLocking
<1> HIDE DEF b, k
<1>4. CASE lit = {}
  BY <1>2, <1>3, <1>4, ConfirmLemma DEF Orderly
<1>5. CASE lit # {}
  BY <1>2, <1>3, <1>5, LockFocusAlike DEF Orderly, Alike, IsLocked
<1>6. QED
  BY <1>4, <1>5

LEMMA MaybeContinueOrderly ==
    ASSUME NEW m \in Session, NEW lit, NEW f \in SessionFocus
    PROVE  Orderly(m, MaybeContinueToLocking(m, lit, f), lit)
<1>1. Orderly(m, m, lit)
  BY DEF Orderly, Alike
<1>2. QED
  BY <1>1, ContinueOrderly DEF MaybeContinueToLocking

\* The set of outputs changed: what may be confirmed, or still be pending.
LEMMA RefreshOrderly ==
    ASSUME NEW m \in Session, NEW lit, NEW f \in SessionFocus,
           NEW n, n = RefreshLockState(m, lit, f)
    PROVE  /\ Confined(n, lit)
           /\ n.state = "Locked" => \/ m.state = "Locked" \/ lit = {}
                                    \/ m.state = "Locking" /\ lit \subseteq m.rendered
           /\ n.state = "Locking" =>
                 /\ lit \ n.rendered # {}
                 /\ \/ n.rendered = {}
                    \/ m.state = "Locking" /\ n.rendered \subseteq m.rendered
<1> DEFINE kept == [o \in Outputs |-> IF o \in lit THEN m.lockSurfaces[o] ELSE NoClient]
           p == [m EXCEPT !.lockSurfaces = kept, !.mapped = m.mapped \cap lit,
                          !.rendered = m.rendered \cap lit]
           u == [m EXCEPT !.lockSurfaces = NoSurfaces, !.mapped = {}, !.rendered = {}]
           c == ConfirmLockIfReady(p, lit)
           k == MaybeContinueToLocking(c, lit, f)
<1>1. kept \in [Outputs -> Clients \cup {NoClient}]
  BY DEF Session
<1>2. n = IF m.state = "Unlocked" THEN u ELSE LockFocus(k)
  BY DEF RefreshLockState
<1> HIDE DEF kept
<1>3. /\ p \in Session /\ p.state = m.state /\ p.rendered = m.rendered \cap lit
      /\ u.state = m.state
  BY <1>1 DEF Session
<1> HIDE DEF p, u
<1>4. \/ /\ m.state = "Locking" /\ lit \subseteq p.rendered
         /\ c \in Session /\ c.state = "Locked"
      \/ /\ ~(m.state = "Locking" /\ lit \subseteq p.rendered)
         /\ c = p
  BY <1>3, ConfirmLemma DEF ConfirmLockIfReady
<1>5. c \in Session
  BY <1>3, <1>4
<1> HIDE DEF c
<1>6. k \in Session /\ Orderly(c, k, lit)
  BY <1>5, MaybeContinueLemma, MaybeContinueOrderly DEF Settles
<1> HIDE DEF k
<1>7. Alike(k, LockFocus(k)) /\ (IsLocked(k) => LockFocus(k).focus # "window")
  BY <1>6, LockFocusAlike
<1>8. CASE m.state = "Unlocked"
  BY <1>2, <1>3, <1>8 DEF Confined, IsLocked
<1>9. CASE m.state # "Unlocked"
  <2>1. n.state = k.state /\ n.rendered = k.rendered
    BY <1>2, <1>7, <1>9 DEF Alike
  <2>2. Confined(n, lit)
    BY <1>2, <1>7, <1>9, <2>1 DEF Confined, IsLocked
  <2>3. ASSUME n.state = "Locked"
        PROVE  \/ m.state = "Locked" \/ lit = {}
               \/ m.state = "Locking" /\ lit \subseteq m.rendered
    BY <1>3, <1>4, <1>6, <2>1, <2>3 DEF Orderly, Alike, IsLocked
  <2>4. ASSUME n.state = "Locking"
        PROVE  /\ lit \ n.rendered # {}
               /\ \/ n.rendered = {}
                  \/ m.state = "Locking" /\ n.rendered \subseteq m.rendered
    BY <1>3, <1>4, <1>6, <2>1, <2>4 DEF Orderly, Alike, IsLocked
  <2>5. QED
    BY <2>2, <2>3, <2>4
<1>10. QED
  BY <1>8, <1>9

-----------------------------------------------------------------------------
(* The invariant is inductive.                                             *)

LEMMA UnlockedSecure == ~IsLocked(session') => Secure'
BY DEF Secure, Confined, Pending, Shown, Counted, IsLocked

\* An orderly step that hands no frame to an output, and that leaves every
\* repaint ahead, or the repaints and the lock as they were.
LEMMA OrderlyStep ==
    ASSUME Secure, connected' = connected, Orderly(session, session', connected),
           \A o \in connected : Newest(surface'[o]) \in {Newest(surface[o]), NoFrame},
           active' => \/ \A o \in connected : Covered(surface'[o])
                      \/ /\ active
                         /\ session'.state = "Locking" =>
                               session.state = "Locking" /\ session'.rendered = session.rendered
                         /\ \A o \in connected : Covered(surface[o]) => Covered(surface'[o])
    PROVE  Secure'
<1>1. CASE ~IsLocked(session')
  BY <1>1, UnlockedSecure
<1>2. CASE session'.state = "Locked" /\ connected = {}
  BY <1>2 DEF Secure, Confined, Pending, Shown, Counted, IsLocked
<1>3. CASE /\ session.state # "Locking" /\ session'.state = "Locking"
           /\ connected # {} /\ session'.rendered = {} /\ session'.focus # "window"
  BY <1>3 DEF Secure, Confined, Pending, Shown, Counted, IsLocked
<1>4. CASE Alike(session, session')
  <2>1. Confined(session, connected)'
    BY <1>4 DEF Secure, Confined, Alike, IsLocked
  <2>2. Pending(session, surface, connected, active)'
    BY <1>4 DEF Secure, Pending, Alike
  <2>3. Shown(session, surface, connected)'
    BY <1>4, NoFrameIsNoSession DEF Secure, Shown, Counted, Alike
  <2>4. QED
    BY <2>1, <2>2, <2>3 DEF Secure
<1>5. QED
  BY <1>1, <1>2, <1>3, <1>4 DEF Orderly

LEMMA SetSessionSecure ==
    ASSUME IInv, Secure, NEW m, SetSession(m), Orderly(session, m, connected)
    PROVE  Secure'
<1>1. /\ surface \in [Outputs -> Surface] /\ connected \subseteq Outputs
      /\ \A o \in connected : Coherent(surface[o])
  BY DEF IInv, TypeOK, Steady
<1>2. session' = m /\ surface' = Requeue(m, surface)
      /\ connected' = connected /\ active' = active
  BY DEF SetSession, hotplugVars
<1>3. CASE m.state # session.state /\ m.state \in {"Locking", "Unlocked"}
  <2>1. surface' = QueueRedrawAll(surface, connected)
    BY <1>2, <1>3 DEF Requeue
  <2>2. \A o \in connected : /\ Newest(surface'[o]) = Newest(surface[o])
                             /\ Covered(surface'[o])
    BY <1>1, <2>1, QueueAllKeeps
  <2>3. QED
    BY <1>2, <2>2, OrderlyStep
<1>4. CASE ~(m.state # session.state /\ m.state \in {"Locking", "Unlocked"})
  <2>1. surface' = surface
    BY <1>2, <1>4 DEF Requeue
  <2>2. m.state = "Locking" => session.state = "Locking" /\ m.rendered = session.rendered
    BY <1>4 DEF Orderly, Alike, IsLocked
  <2>3. QED
    BY <1>2, <2>1, <2>2, OrderlyStep
<1>5. QED
  BY <1>3, <1>4

\* Handlers that move only redraw machines, none of them to a new frame.
LEMMA RepaintsKept ==
    ASSUME Secure, connected' = connected, session' = session, active' => active,
           \A o \in connected : /\ Newest(surface'[o]) = Newest(surface[o])
                                /\ Covered(surface[o]) => Covered(surface'[o])
    PROVE  Secure'
<1>1. Orderly(session, session', connected)
  BY DEF Orderly, Alike
<1>2. QED
  BY <1>1, OrderlyStep

\* A repaint: what is handed over under the lock is not of the session, and
\* what could not be rendered is owned up to.
LEMMA LockRenderSecure ==
    ASSUME IInv, LockInv, Secure, NEW o \in Outputs, NEW f, ReadyToPaint(o, f),
           LockRender(o, f), connected' = connected, active' = active,
           \A p \in connected : /\ Newest(f[p]) = Newest(surface[p])
                                /\ Covered(surface[p]) => Covered(f[p])
    PROVE  Secure'
<1>1. PICK step \in Advances :
         LET g == Moved(f, step)
         IN  /\ animating' = step.running
             /\ IF o \in connected /\ active
                THEN \E outcome \in Outcomes(g[o], Scene), tear \in BOOLEAN,
                        w \in SessionFocus :
                        /\ tear => o \in AsyncFlip /\ ~IsLocked(session)
                        /\ session' = AfterRender(session, o, outcome, w)
                        /\ surface' = Requeue(session', [g EXCEPT ![o] =
                              Rendered(@, Scene, outcome, tear, step.running)])
                ELSE /\ surface' = g
                     /\ UNCHANGED session
  BY DEF LockRender, Moved
<1> DEFINE g == Moved(f, step)
<1>2. /\ f \in [Outputs -> Surface] /\ connected \subseteq Outputs
      /\ \A p \in connected : Coherent(f[p])
      /\ session \in Session /\ step.running \in BOOLEAN
  BY DEF IInv, TypeOK, ReadyToPaint, LockInv, Held, Advances
<1>3. g \in [Outputs -> Surface]
  BY <1>2, DirtiedLemma DEF Moved
<1>4. \A p \in connected : /\ Newest(g[p]) = Newest(surface[p])
                           /\ Covered(surface[p]) => Covered(g[p])
                           /\ Coherent(g[p])
  <2>1. CASE step.moved
    BY <2>1, <1>2, DirtiedKeeps, DirtiedLemma DEF Moved
  <2>2. CASE ~step.moved
    BY <2>2, <1>2 DEF Moved
  <2>3. QED
    BY <2>1, <2>2
<1>5. CASE ~(o \in connected /\ active)
  <2>1. surface' = g /\ session' = session
    BY <1>1, <1>5
  <2> HIDE DEF g
  <2>2. QED
    BY <2>1, <1>4, RepaintsKept
<1>6. CASE o \in connected /\ active
  <2>1. PICK outcome \in Outcomes(g[o], Scene), tear \in BOOLEAN, w \in SessionFocus :
           /\ session' = AfterRender(session, o, outcome, w)
           /\ surface' = Requeue(session', [g EXCEPT ![o] =
                            Rendered(@, Scene, outcome, tear, step.running)])
    BY <1>1, <1>6
  <2> HIDE DEF g
  <2> DEFINE r == Rendered(g[o], Scene, outcome, tear, step.running)
             h == [g EXCEPT ![o] = r]
  <2>2. /\ outcome \in {"ok", "timerError"} => Newest(r) = Scene
        /\ outcome \notin {"ok", "timerError"} => Newest(r) = Newest(g[o])
        /\ ~RenderedOk(outcome) => Covered(r)
    BY <1>2, <1>3, <1>4, <1>6, SceneLemma, RenderedShows
  <2>3. surface' = Requeue(session', h)
    BY <2>1, <1>3, <1>6
  <2> HIDE DEF r
  <2>4. h[o] = r /\ \A p \in connected \ {o} : h[p] = g[p]
    BY <1>2, <1>3
  <2> HIDE DEF h
  <2>5. CASE ~IsLocked(session')
    BY <2>5, UnlockedSecure
  <2>6. CASE session' = session /\ ~RenderedOk(outcome)
    <3>1. surface' = h
      BY <2>3, <2>6 DEF Requeue
    <3>2. outcome \notin {"ok", "timerError"}
      BY <2>6 DEF RenderedOk
    <3>3. QED
      BY <3>1, <3>2, <1>4, <1>6, <2>2, <2>4, <2>6, RepaintsKept
  <2>7. CASE RenderedOk(outcome) /\ IsLocked(session')
    <3> DEFINE more == [session EXCEPT !.rendered = session.rendered \cup {o}]
    <3>1. /\ more \in Session /\ more.state = session.state /\ more.focus = session.focus
          /\ more.rendered = session.rendered \cup {o}
      BY <1>2 DEF Session
    <3>2. IsLocked(session) /\ session' = ConfirmLockIfReady(more, connected)
      BY <2>1, <2>7 DEF AfterRender, LockFrameRendered, RenderedOk, IsLocked
    <3> HIDE DEF more
    <3>3. \/ /\ session.state = "Locking" /\ connected \subseteq more.rendered
             /\ session' = Confirm(more)
          \/ /\ ~(session.state = "Locking" /\ connected \subseteq more.rendered)
             /\ session' = more
      BY <3>1, <3>2 DEF ConfirmLockIfReady
    <3>4. session'.focus = session.focus /\ session'.rendered = more.rendered
      BY <3>1, <3>3 DEF Confirm, Session
    <3>5. \/ /\ session.state = "Locking" /\ connected \subseteq more.rendered
             /\ session'.state = "Locked"
          \/ /\ ~(session.state = "Locking" /\ connected \subseteq more.rendered)
             /\ session'.state = session.state
      BY <3>1, <3>3, ConfirmLemma
    <3>6. surface' = h
      BY <2>3, <2>7, <3>5 DEF Requeue, IsLocked
    <3>7. Confined(session, connected)'
      BY <3>2, <3>4 DEF Secure, Confined
    <3>8. Pending(session, surface, connected, active)'
      BY <1>4, <2>4, <3>1, <3>4, <3>5, <3>6 DEF Secure, Pending
    <3>9. Shown(session, surface, connected)'
      <4>1. "queueError" \notin Failures => Newest(r) = "locked"
        BY <2>2, <2>7, <3>2 DEF RenderedOk, Outcomes, Scene
      <4>2. QED
        BY <4>1, <1>4, <2>4, <3>1, <3>2, <3>4, <3>5, <3>6
        DEF Secure, Shown, Counted, IsLocked
    <3>10. QED
      BY <3>7, <3>8, <3>9 DEF Secure
  <2>8. \/ ~IsLocked(session') \/ session' = session \/ RenderedOk(outcome)
    BY <2>1 DEF AfterRender, LockRenderFailed, FailLock, UnlockSession, IsLocked, LockState
  <2>9. QED
    BY <2>5, <2>6, <2>7, <2>8
<1>7. QED
  BY <1>5, <1>6

\* What a hotplug lights is covered, with an old frame or with none.
Relit(f, h, old, new) ==
    \A o \in new : /\ Covered(h[o])
                   /\ \/ Newest(h[o]) = NoFrame
                      \/ o \in old /\ Newest(h[o]) = Newest(f[o])

LEMMA RelightRelit ==
    ASSUME IInv, NEW leave \in SUBSET Outputs, NEW join \in SUBSET Outputs,
           Relight(leave, join)
    PROVE  Relit(surface, surface', connected, connected')
<1> DEFINE f == [o \in Outputs |->
                   IF o \in join THEN NewSurface(surface[o])
                   ELSE IF o \in leave \cap connected THEN DropSurface(surface[o])
                   ELSE surface[o]]
           lit == (connected \ leave) \cup join
<1>1. connected' = lit /\ surface' = QueueRedrawAll(f, lit)
  BY DEF Relight
<1>2. /\ surface \in [Outputs -> Surface] /\ connected \subseteq Outputs
      /\ \A o \in Outputs : Coherent(surface[o]) \/ Unlit(surface[o])
      /\ \A o \in connected : Coherent(surface[o])
  BY DEF IInv, TypeOK, Steady
<1>3. f \in [Outputs -> Surface] /\ \A o \in lit : Coherent(f[o])
  BY <1>2, FreshLemma
<1>4. ASSUME NEW o \in lit
      PROVE  \/ Newest(f[o]) = NoFrame
             \/ o \in connected /\ Newest(f[o]) = Newest(surface[o])
  <2>1. CASE o \in join
    <3>1. ASSUME NEW s PROVE Newest(NewSurface(s)) = NoFrame
      BY DEF NewSurface, Dark, Newest
    <3>2. o \in Outputs /\ f[o] = NewSurface(surface[o])
      BY <2>1
    <3>3. QED
      BY <3>1, <3>2
  <2>2. CASE o \notin join
    BY <2>2, <1>2
  <2>3. QED
    BY <2>1, <2>2
<1>5. lit \subseteq Outputs
  BY <1>2
<1> HIDE DEF f, lit
<1>6. \A o \in lit : Newest(surface'[o]) = Newest(f[o]) /\ Covered(surface'[o])
  BY <1>1, <1>3, <1>5, QueueAllKeeps
<1>7. QED
  BY <1>1, <1>4, <1>6 DEF Relit

LEMMA HotplugRelit ==
    ASSUME IInv, Hotplug
    PROVE  /\ active' = active
           /\ \/ UNCHANGED <<connected, surface>>
              \/ Relit(surface, surface', connected, connected')
<1>1. connected \subseteq Outputs /\ stash \subseteq Outputs
  BY DEF IInv, TypeOK
<1>2. ASSUME NEW o \in Outputs, Plug(o) \/ Unplug(o)
      PROVE  /\ active' = active
             /\ \/ UNCHANGED <<connected, surface>>
                \/ Relit(surface, surface', connected, connected')
  BY <1>2, RelightRelit DEF Plug, Unplug
<1>3. CASE DeviceRemoved
  BY <1>3 DEF DeviceRemoved, Relit
<1>4. ASSUME NEW D \in SUBSET Switchable, SetDisplays(D)
      PROVE  /\ active' = active
             /\ \/ UNCHANGED <<connected, surface>>
                \/ Relit(surface, surface', connected, connected')
  <2>1. PICK lit \in SUBSET (stash \ D) :
           IF lit \cup (connected \cap D) = {}
           THEN UNCHANGED <<connected, surface>>
           ELSE Relight(connected \cap D, lit)
    BY <1>4 DEF SetDisplays
  <2>2. connected \cap D \in SUBSET Outputs /\ lit \in SUBSET Outputs
    BY <1>1
  <2>3. active' = active
    BY <1>4 DEF SetDisplays
  <2>4. QED
    BY <2>1, <2>2, <2>3, RelightRelit
<1>5. QED
  BY <1>2, <1>3, <1>4 DEF Hotplug

LEMMA HotplugSecure ==
    ASSUME IInv, LockInv, Secure, LockHotplug
    PROVE  Secure'
<1>1. /\ active' = active
      /\ \/ UNCHANGED <<connected, surface>>
         \/ Relit(surface, surface', connected, connected')
  BY HotplugRelit DEF LockHotplug
<1>2. CASE connected' = connected
  <2>1. session' = session
    BY <1>2 DEF LockHotplug
  <2>2. Orderly(session, session', connected)
    BY <2>1 DEF Orderly, Alike
  <2>3. QED
    BY <1>1, <1>2, <2>1, <2>2, OrderlyStep DEF Relit
<1>3. CASE connected' # connected
  <2>1. Relit(surface, surface', connected, connected')
    BY <1>1, <1>3
  <2>2. PICK f \in SessionFocus : session' = RefreshLockState(session, connected', f)
    BY <1>3 DEF LockHotplug
  <2>3. session \in Session
    BY DEF LockInv, Held
  <2>4. /\ Confined(session', connected')
        /\ session'.state = "Locked" =>
              \/ session.state = "Locked" \/ connected' = {}
              \/ session.state = "Locking" /\ connected' \subseteq session.rendered
        /\ session'.state = "Locking" =>
              /\ connected' \ session'.rendered # {}
              /\ \/ session'.rendered = {}
                 \/ session.state = "Locking" /\ session'.rendered \subseteq session.rendered
    BY <2>2, <2>3, RefreshOrderly
  <2>5. Pending(session, surface, connected, active)'
    BY <2>1, <2>4 DEF Pending, Relit
  <2>6. Shown(session, surface, connected)'
    BY <2>1, <2>4, NoFrameIsNoSession DEF Secure, Shown, Counted, Relit
  <2>7. QED
    BY <2>4, <2>5, <2>6 DEF Secure
<1>4. QED
  BY <1>2, <1>3

\* The client's side.
LEMMA ClientSecure ==
    ASSUME IInv, LockInv, Secure, ClientStep
    PROVE  Secure'
<1>1. /\ session \in Session
      /\ session.deadline <=> session.state = "WaitingForSurfaces"
  BY DEF LockInv, Held
<1>2. PICK c \in Clients :
         \/ LockSession(c)
         \/ \E o \in Outputs : NewLockSurface(c, o)
         \/ Unlock(c)
         \/ Forget(c)
         \/ ClientDies(c)
         \/ ClientStarts(c)
  BY DEF ClientStep
<1>3. ASSUME NEW event PROVE Alike(session, Tell(session, c, event))
  BY <1>1 DEF Alike, Tell, Session
<1>4. CASE LockSession(c)
  <2>1. PICK m : SetSession(m) /\ Orderly(session, m, connected)
    <3>1. CASE SetSession(Tell(session, c, "finished"))
      BY <3>1, <1>3 DEF Orderly
    <3>2. CASE HolderDied /\ SetSession(Confirm([session EXCEPT !.client = c]))
      <4>1. Alike(session, Confirm([session EXCEPT !.client = c]))
        BY <1>1, <3>2 DEF Alike, Confirm, HolderDied, Session
      <4>2. QED
        BY <4>1, <3>2 DEF Orderly
    <3>3. ASSUME connected = {}, NEW f \in SessionFocus,
                 SetSession(Confirm(BeginLockedSession([session EXCEPT !.client = c], f)))
          PROVE  \E m : SetSession(m) /\ Orderly(session, m, connected)
      <4> DEFINE b == BeginLockedSession([session EXCEPT !.client = c], f)
      <4>1. b \in Session
        BY <1>1 DEF BeginLockedSession, Session, SessionFocus
      <4> HIDE DEF b
      <4>2. Orderly(session, Confirm(b), connected)
        BY <3>3, <4>1, ConfirmLemma DEF Orderly
      <4>3. QED
        BY <3>3, <4>2 DEF b
    <3>4. CASE SetSession([Tell(session, c, "requested") EXCEPT
                              !.state = "WaitingForSurfaces", !.client = c,
                              !.deadline = TRUE])
      <4>1. ~IsLocked([Tell(session, c, "requested") EXCEPT
                          !.state = "WaitingForSurfaces", !.client = c,
                          !.deadline = TRUE])
        BY <1>1 DEF IsLocked, Tell, Session
      <4>2. QED
        BY <3>4, <4>1 DEF Orderly
    <3>5. QED
      BY <1>4, <3>1, <3>2, <3>3, <3>4 DEF LockSession
  <2>2. QED
    BY <2>1, SetSessionSecure
<1>5. ASSUME NEW o \in Outputs, NewLockSurface(c, o) PROVE Secure'
  <2> DEFINE held == [session.lockSurfaces EXCEPT ![o] = c]
             m == [session EXCEPT !.lockSurfaces = held, !.mapped = session.mapped \ {o}]
  <2>1. held \in [Outputs -> Clients \cup {NoClient}]
    BY <1>1 DEF Session
  <2>2. PICK f \in SessionFocus :
           SetSession(MaybeContinueToLocking(LockFocus(m), connected, f))
    BY <1>5 DEF NewLockSurface
  <2> HIDE DEF held
  <2>3. m \in Session /\ Alike(session, m)
    BY <1>1, <2>1 DEF Session, Alike
  <2> HIDE DEF m
  <2>4. LockFocus(m) \in Session /\ Alike(m, LockFocus(m))
    BY <2>3, LockFocusLemma, LockFocusAlike
  <2>5. Orderly(session, MaybeContinueToLocking(LockFocus(m), connected, f), connected)
    BY <2>3, <2>4, MaybeContinueOrderly, AlikeOrderly
  <2>6. QED
    BY <2>2, <2>5, SetSessionSecure
<1>6. CASE Unlock(c)
  <2>1. PICK f \in SessionFocus : SetSession(UnlockSession(Tell(session, c, "none"), f))
    BY <1>6 DEF Unlock
  <2>2. session' = UnlockSession(Tell(session, c, "none"), f)
    BY <2>1 DEF SetSession
  <2>3. ~IsLocked(session')
    BY <1>1, <2>2 DEF IsLocked, UnlockSession, Tell, Session
  <2>4. QED
    BY <2>3, UnlockedSecure
<1>7. CASE Forget(c)
  <2>1. SetSession(Tell(session, c, "none"))
        /\ Orderly(session, Tell(session, c, "none"), connected)
    BY <1>3, <1>7 DEF Forget, Orderly
  <2>2. QED
    BY <2>1, SetSessionSecure
<1>8. CASE ClientDies(c) \/ ClientStarts(c)
  <2>1. UNCHANGED vars /\ Alike(session, session')
    BY <1>1, <1>3, <1>8 DEF ClientDies, ClientStarts, Alike, Session
  <2>2. QED
    BY <2>1, OrderlyStep DEF vars, Orderly, Alike
<1>9. QED
  BY <1>2, <1>4, <1>5, <1>6, <1>7, <1>8

LEMMA SecureStep == IInv /\ LockInv /\ Secure /\ [LockNext]_allVars => Secure'
<1> SUFFICES ASSUME IInv, LockInv, Secure, [LockNext]_allVars PROVE Secure'
  OBVIOUS
<1>1. /\ surface \in [Outputs -> Surface] /\ connected \subseteq Outputs
      /\ \A o \in connected : Coherent(surface[o])
      /\ session \in Session
      /\ session.deadline <=> session.state = "WaitingForSurfaces"
  BY DEF IInv, TypeOK, Steady, LockInv, Held
<1>2. ASSUME NEW o \in Outputs, LockRunIdle(o) PROVE Secure'
  <2> DEFINE f == IdleTaken(o)
  <2>1. ReadyToPaint(o, f)
    BY <1>2, IdleTakenLemma DEF LockRunIdle
  <2>2. \A p \in connected : /\ Newest(f[p]) = Newest(surface[p])
                             /\ Covered(surface[p]) => Covered(f[p])
    BY <1>1 DEF IdleTaken, Surface, Newest, Covered, RepaintOwed
  <2>3. LockRender(o, f) /\ connected' = connected /\ active' = active
    BY <1>2 DEF LockRunIdle, hotplugVars
  <2> HIDE DEF f
  <2>4. QED
    BY <2>1, <2>2, <2>3, LockRenderSecure
<1>3. ASSUME NEW o \in Outputs, LockOnEstimatedVBlank(o) PROVE Secure'
  <2> DEFINE f == TimerTaken(o)
  <2>1. connected' = connected /\ active' = active
    BY <1>3 DEF LockOnEstimatedVBlank, hotplugVars
  <2>2. \A p \in connected : f[p] = IF p = o THEN TimerFired(surface[p]) ELSE surface[p]
    BY <1>1 DEF TimerTaken
  <2>3. \A p \in connected : /\ Newest(f[p]) = Newest(surface[p])
                             /\ Covered(surface[p]) => Covered(f[p])
    BY <1>1, <2>2, TimerKeeps
  <2>4. CASE RepaintsOnTimer(o)
    <3>1. ReadyToPaint(o, f) /\ LockRender(o, f)
      BY <1>3, <2>4, TimerTakenLemma DEF LockOnEstimatedVBlank
    <3> HIDE DEF f
    <3>2. QED
      BY <3>1, <2>1, <2>3, LockRenderSecure
  <2>5. CASE ~RepaintsOnTimer(o)
    <3>1. surface' = f /\ session' = session
      BY <1>3, <2>5 DEF LockOnEstimatedVBlank
    <3> HIDE DEF f
    <3>2. QED
      BY <3>1, <2>1, <2>3, RepaintsKept
  <2>6. QED
    BY <2>4, <2>5
<1>4. CASE DeadlineFires
  <2>1. PICK f \in SessionFocus : SetSession(ContinueToLocking(session, connected, f))
    BY <1>4 DEF DeadlineFires
  <2>2. Orderly(session, ContinueToLocking(session, connected, f), connected)
    BY <1>1, <1>4, ContinueOrderly DEF DeadlineFires
  <2>3. QED
    BY <2>1, <2>2, SetSessionSecure
<1>5. ASSUME StartIdles, UNCHANGED lockVars PROVE Secure'
  <2>1. ASSUME NEW o \in connected
        PROVE  /\ Newest(surface'[o]) = Newest(surface[o])
               /\ Covered(surface[o]) => Covered(surface'[o])
    <3>1. o \in Outputs /\ surface[o] \in Surface
      BY <1>1
    <3>2. surface'[o] = [surface[o] EXCEPT !.due = surface[o].idles, !.idles = 0]
      BY <3>1, <1>5 DEF StartIdles
    <3>3. QED
      BY <3>1, <3>2 DEF Surface, Newest, Covered, RepaintOwed
  <2>2. connected' = connected /\ active' = active
    BY <1>5 DEF StartIdles, hotplugVars
  <2>3. session' = session
    BY <1>5 DEF lockVars
  <2>4. QED
    BY <2>1, <2>2, <2>3, RepaintsKept
<1>6. ASSUME NEW o \in Outputs, VBlank(o), UNCHANGED lockVars PROVE Secure'
  <2>1. \A p \in connected :
           surface'[p] = IF p = o THEN OnVBlank(surface[p]) ELSE surface[p]
    BY <1>1, <1>6 DEF VBlank
  <2>2. surface[o].flips > 0
    BY <1>6 DEF VBlank
  <2>3. \A p \in connected : /\ Newest(surface'[p]) = Newest(surface[p])
                             /\ Covered(surface[p]) => Covered(surface'[p])
    BY <1>1, <2>1, <2>2, VBlankKeeps
  <2>4. QED
    BY <1>6, <2>3, RepaintsKept DEF VBlank, hotplugVars, lockVars
<1>7. CASE ClientStep
  BY <1>7, ClientSecure
<1>8. ASSUME NEW o \in Outputs, MapLockSurface(o) PROVE Secure'
  <2> DEFINE m == [session EXCEPT !.mapped = session.mapped \cup {o}]
             d == Dirtied(surface, {o})
  <2>1. PICK f \in SessionFocus :
           session' = LockFocus(MaybeContinueToLocking(m, connected, f))
    BY <1>8 DEF MapLockSurface
  <2>2. m \in Session /\ Alike(session, m)
    BY <1>1, <1>8 DEF Session, Alike
  <2> HIDE DEF m
  <2>3. Orderly(session, session', connected)
    <3> DEFINE k == MaybeContinueToLocking(m, connected, f)
    <3>1. k \in Session /\ Orderly(m, k, connected)
      BY <2>2, MaybeContinueLemma, MaybeContinueOrderly DEF Settles
    <3> HIDE DEF k
    <3>2. Orderly(session, k, connected) /\ Alike(k, LockFocus(k))
      BY <2>2, <3>1, AlikeOrderly, LockFocusAlike
    <3>3. QED
      BY <2>1, <3>2, OrderlyAlike DEF k
  <2>4. d \in [Outputs -> Surface] /\ surface' = QueueRedrawAll(d, connected)
        /\ connected' = connected
    BY <1>1, <1>8, DirtiedLemma DEF MapLockSurface, hotplugVars
  <2>5. \A p \in connected : Newest(d[p]) = Newest(surface[p]) /\ Coherent(d[p])
    BY <1>1, DirtiedKeeps, DirtiedLemma
  <2> HIDE DEF d
  <2>6. \A p \in connected : Newest(surface'[p]) = Newest(surface[p]) /\ Covered(surface'[p])
    BY <1>1, <2>4, <2>5, QueueAllKeeps
  <2>7. QED
    BY <2>3, <2>4, <2>6, OrderlyStep
<1>9. ASSUME NEW f, FocusWindow(f) PROVE Secure'
  <2>1. ~IsLocked(session')
    BY <1>1, <1>9 DEF FocusWindow, IsLocked, Session
  <2>2. QED
    BY <2>1, UnlockedSecure
<1>10. CASE LockHotplug
  BY <1>10, HotplugSecure
<1>11. CASE UNCHANGED lockVars /\ (StartAnimation \/ \E D \in SUBSET Outputs : Damage(D))
  <2>1. PICK D : surface' = QueueRedrawAll(Dirtied(surface, D), connected)
    BY <1>11 DEF StartAnimation, Damage
  <2>2. connected' = connected /\ active' = active /\ session' = session
    BY <1>11 DEF StartAnimation, Damage, hotplugVars, lockVars
  <2> DEFINE d == Dirtied(surface, D)
  <2>3. d \in [Outputs -> Surface]
    BY <1>1, DirtiedLemma DEF Dirtied
  <2>4. \A p \in connected : Newest(d[p]) = Newest(surface[p]) /\ Coherent(d[p])
    BY <1>1, DirtiedKeeps, DirtiedLemma
  <2> HIDE DEF d
  <2>5. \A p \in connected : Newest(surface'[p]) = Newest(surface[p]) /\ Covered(surface'[p])
    BY <1>1, <2>1, <2>3, <2>4, QueueAllKeeps DEF d
  <2>6. QED
    BY <2>2, <2>5, RepaintsKept
<1>12. CASE PauseSession /\ UNCHANGED lockVars
  <2>1. \A o \in connected : /\ Newest(surface'[o]) = Newest(surface[o])
                             /\ Covered(surface[o]) => Covered(surface'[o])
    BY <1>1, <1>12 DEF PauseSession, Surface, Newest, Covered, RepaintOwed
  <2>2. QED
    BY <1>12, <2>1, RepaintsKept DEF PauseSession, hotplugVars, lockVars
<1>13. CASE ActivateSession /\ UNCHANGED lockVars
  <2> DEFINE d == [o \in Outputs |-> IF o \in connected THEN ResetSurface(surface[o])
                                                        ELSE surface[o]]
  <2>1. /\ surface' = QueueRedrawAll(d, connected)
        /\ connected' = connected /\ session' = session
    BY <1>13 DEF ActivateSession, hotplugVars, lockVars
  <2>2. d \in [Outputs -> Surface]
    BY <1>1, FreshLemma
  <2>3. ASSUME NEW s \in Surface PROVE Newest(ResetSurface(s)) = NoFrame
    <3>1. CancelTimer(s) \in Surface \/ DOMAIN CancelTimer(s) = DOMAIN s
      BY DEF CancelTimer, Surface
    <3>2. QED
      BY DEF ResetSurface, CancelTimer, Newest, Surface
  <2>4. \A p \in connected : Newest(d[p]) = NoFrame /\ Coherent(d[p])
    BY <1>1, <2>3, FreshLemma
  <2> HIDE DEF d
  <2>5. \A p \in connected : Newest(surface'[p]) = NoFrame /\ Covered(surface'[p])
    BY <1>1, <2>1, <2>2, <2>4, QueueAllKeeps
  <2>6. Orderly(session, session', connected)
    BY <2>1 DEF Orderly, Alike
  <2>7. QED
    BY <2>1, <2>5, <2>6, OrderlyStep
<1>14. CASE UNCHANGED allVars
  <2>1. QED
    BY <1>14, RepaintsKept DEF allVars, vars, lockVars
<1>15. QED
  BY <1>2, <1>3, <1>4, <1>5, <1>6, <1>7, <1>8, <1>9, <1>10, <1>11, <1>12, <1>13, <1>14
  DEF LockNext, LockLoopStep

LEMMA LockInitSecure == LockInit => IInv /\ LockInv /\ Secure
BY InitIInv, LockInitInv
DEF LockInit, Secure, Confined, Pending, Shown, Counted, IsLocked

-----------------------------------------------------------------------------
(* The theorems.                                                           *)

THEOREM LockSafety == LockSpec => [](IInv /\ LockInv /\ Secure)
<1>1. LockInit => IInv /\ LockInv /\ Secure
  BY LockInitSecure
<1>2. IInv /\ LockInv /\ Secure /\ [LockNext]_allVars => (IInv /\ LockInv /\ Secure)'
  BY LockStepIInv, LockStep, SecureStep
<1>3. QED
  BY <1>1, <1>2, PTL DEF LockSpec

\* Compositor and clients agree on the lock, and the redraw machines and the
\* lock's sets of outputs keep their types under every step of either.
THEOREM LockAgreement == LockSpec => []LockAgrees
<1>1. IInv /\ LockInv => LockTypeOK
  BY DEF IInv, LockInv, Held, LockTypeOK
<1>2. QED
  BY <1>1, LockSafety, ClientsAgree, PTL DEF LockAgrees

\* A pending lock always has an output to wait for, with its repaint ahead.
THEOREM PendingLockProgress == LockSpec => []PendingLockProgresses
<1>1. Secure => PendingLockProgresses
  BY DEF Secure, Pending, PendingLockProgresses, Covered
<1>2. QED
  BY <1>1, LockSafety, PTL

\* The keyboard focus of a locked session is never on a window.
THEOREM FocusConfined == LockSpec => []LockedFocusConfined
<1>1. Secure => LockedFocusConfined
  BY DEF Secure, Confined, LockedFocusConfined
<1>2. QED
  BY <1>1, LockSafety, PTL

\* Where the kernel refuses no frame that was rendered, a confirmed lock leaves
\* no lit output whose last frame is one of the session.
THEOREM NothingShown ==
    ASSUME "queueError" \notin Failures
    PROVE  LockSpec => []LockedShowsNoSession
<1>1. Secure => LockedShowsNoSession
  BY DEF Secure, Shown, Counted, LockedShowsNoSession
<1>2. QED
  BY <1>1, LockSafety, PTL
=============================================================================
