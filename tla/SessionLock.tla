---------------------------- MODULE SessionLock ----------------------------
(***************************************************************************)
(* ext-session-lock-v1 (lock.rs) on top of the redraw machines: a lock is  *)
(* confirmed from inside render_surface, aborted by a failed render, and   *)
(* re-examined whenever the set of outputs changes.  The lock bookkeeping  *)
(* of struct Tomoe is one record, session; its handlers are functions of   *)
(* it, so that one handler's effect composes with the repaints it queues.  *)
(***************************************************************************)
EXTENDS Redraw

CONSTANTS Clients,   \* lock clients, each with at most one lock object
          NoClient

ASSUME SessionLockAssumption ==
    /\ Scenes = {"session", "locked"}
    /\ NoClient \notin Clients

VARIABLES session,   \* LockState and what hangs on it: see Session
          alive      \* the clients whose connection is up

lockVars == <<session, alive>>
allVars == <<vars, lockVars>>

-----------------------------------------------------------------------------
(* The lock bookkeeping.                                                   *)

LockState == {"Unlocked", "WaitingForSurfaces", "Locking", "Locked"}

\* What a client has been told of its lock object: nothing, or one of the
\* events "locked" and "finished" ("none": it has no lock object).
LockerState == {"none", "requested", "locked", "finished"}

\* client: whose confirmation or lock the state holds.  deadline: the grace
\* timer runs.  lockSurfaces, mapped: whose lock surface each output has, and
\* which of them have a buffer.  focus: where the keyboard focus is.
Session == [state : LockState, client : Clients \cup {NoClient},
            deadline : BOOLEAN, lockSurfaces : [Outputs -> Clients \cup {NoClient}],
            mapped : SUBSET Outputs, rendered : SUBSET Outputs,
            focus : {"none", "window", "lock"},
            locker : [Clients -> LockerState]]

IsLocked(m) == m.state \in {"Locking", "Locked"}

NoSurfaces == [o \in Outputs |-> NoClient]

\* update_lock_focus: some lock surface, or nothing until there is one.
LockFocus(m) ==
    IF ~IsLocked(m) THEN m
    ELSE [m EXCEPT !.focus = IF m.lockSurfaces = NoSurfaces THEN "none" ELSE "lock"]

\* Dropping a confirmation sends finished, confirming it sends locked.
Confirm(m) == [m EXCEPT !.state = "Locked", !.locker[m.client] = "locked"]

\* begin_locked_session: ending a Lua pointer grab re-enters Lua while the
\* state is still unlocked, so that its ops may move the focus (to f).
BeginLockedSession(m, f) == [m EXCEPT !.rendered = {}, !.focus = f]

\* Fault: the grace timer is not cancelled.
ContinueKeepsDeadline(m, lit, f) ==
    LET b == BeginLockedSession(m, f)
    IN  IF lit = {} THEN Confirm(b)
                    ELSE LockFocus([b EXCEPT !.state = "Locking"])

ContinueToLocking(m, lit, f) ==
    LET b == BeginLockedSession([m EXCEPT !.deadline = FALSE], f)
    IN  IF lit = {} THEN Confirm(b)
                    ELSE LockFocus([b EXCEPT !.state = "Locking"])

MaybeContinueToLocking(m, lit, f) ==
    IF m.state = "WaitingForSurfaces" /\ lit \subseteq m.mapped
    THEN ContinueToLocking(m, lit, f)
    ELSE m

\* unlock_session: the focus returns to a window, and Lua may move it on.
UnlockSession(m, f) ==
    [m EXCEPT !.state = "Unlocked", !.client = NoClient, !.deadline = FALSE,
              !.lockSurfaces = NoSurfaces, !.mapped = {}, !.rendered = {},
              !.focus = f]

FailLock(m, f) == UnlockSession([m EXCEPT !.locker[m.client] = "finished"], f)

\* Fault: the first locked frame confirms, instead of the last.
ConfirmAtFirstFrame(m, lit) ==
    IF m.state = "Locking" /\ m.rendered # {} THEN Confirm(m) ELSE m

ConfirmLockIfReady(m, lit) ==
    IF m.state = "Locking" /\ lit \subseteq m.rendered THEN Confirm(m) ELSE m

LockFrameRendered(m, o, lit) ==
    IF IsLocked(m)
    THEN ConfirmLockIfReady([m EXCEPT !.rendered = @ \cup {o}], lit)
    ELSE [m EXCEPT !.rendered = @ \ {o}]

\* Fault: a failed render leaves the lock waiting.
LockRenderIgnored(m, o, f) == m

LockRenderFailed(m, o, f) ==
    IF m.state = "Locking" /\ o \notin m.rendered THEN FailLock(m, f) ELSE m

\* Fault: an output that leaves was the last one waited for.
RefreshWithoutConfirm(m, lit, f) ==
    LET p == [m EXCEPT !.lockSurfaces = [o \in Outputs |->
                            IF o \in lit THEN m.lockSurfaces[o] ELSE NoClient],
                       !.mapped = @ \cap lit, !.rendered = @ \cap lit]
    IN  IF m.state = "Unlocked" THEN p
        ELSE LockFocus(MaybeContinueToLocking(p, lit, f))

\* refresh_lock_state, the outputs lit being those of the space.
RefreshLockState(m, lit, f) ==
    LET p == [m EXCEPT !.lockSurfaces = [o \in Outputs |->
                            IF o \in lit THEN m.lockSurfaces[o] ELSE NoClient],
                       !.mapped = @ \cap lit, !.rendered = @ \cap lit]
    IN  IF m.state = "Unlocked"
        THEN [m EXCEPT !.lockSurfaces = NoSurfaces, !.mapped = {}, !.rendered = {}]
        ELSE LockFocus(MaybeContinueToLocking(ConfirmLockIfReady(p, lit), lit, f))

-----------------------------------------------------------------------------
(* The compositor: every step also says what becomes of the repaints.      *)

LockInit ==
    /\ Init
    /\ session = [state |-> "Unlocked", client |-> NoClient, deadline |-> FALSE,
                  lockSurfaces |-> NoSurfaces, mapped |-> {}, rendered |-> {},
                  focus |-> "none", locker |-> [c \in Clients |-> "none"]]
    /\ alive = Clients

SessionFocus == {"none", "window"}

\* Entering Locking and falling back to Unlocked repaint every output.
Requeue(m, f) ==
    IF m.state # session.state /\ m.state \in {"Locking", "Unlocked"}
    THEN QueueRedrawAll(f, connected) ELSE f

SetSession(m) ==
    /\ session' = m
    /\ surface' = Requeue(m, surface)
    /\ UNCHANGED <<hotplugVars, active, animating>>

Tell(m, c, event) == [m EXCEPT !.locker[c] = event]

\* Fault: whoever asks takes the lock over.
HolderReplaceable == session.state = "Locked"

\* The lock is held by a client that died.
HolderDied == session.state = "Locked" /\ session.client \notin alive

\* lock_session.
LockSession(c) ==
    /\ BatchDone
    /\ c \in alive /\ session.locker[c] = "none"
    /\ UNCHANGED alive
    /\ \/ \* Another client is locking, or holds the lock and lives: refused.
          /\ session.state # "Unlocked" /\ ~HolderDied
          /\ SetSession(Tell(session, c, "finished"))
       \/ \* Its replacement is confirmed at once.
          /\ HolderDied
          /\ SetSession(Confirm([session EXCEPT !.client = c]))
       \/ \* Nothing to blank.
          /\ session.state = "Unlocked" /\ connected = {}
          /\ \E f \in SessionFocus :
                SetSession(Confirm(BeginLockedSession([session EXCEPT !.client = c], f)))
       \/ \* The grace period starts.
          /\ session.state = "Unlocked" /\ connected # {}
          /\ SetSession([Tell(session, c, "requested") EXCEPT
                            !.state = "WaitingForSurfaces", !.client = c,
                            !.deadline = TRUE])
       \/ \* Its timer could not be armed.
          /\ session.state = "Unlocked" /\ connected # {}
          /\ "timerError" \in Failures
          /\ SetSession(Tell(session, c, "finished"))

\* The grace period is over.
DeadlineFires ==
    /\ BatchDone
    /\ session.deadline
    /\ \E f \in SessionFocus : SetSession(ContinueToLocking(session, connected, f))
    /\ UNCHANGED alive

\* new_lock_surface for an output of the space.
NewLockSurface(c, o) ==
    /\ BatchDone
    /\ c \in alive /\ session.client = c
    /\ o \in connected /\ session.lockSurfaces[o] # c
    /\ \E f \in SessionFocus :
          LET m == [session EXCEPT !.lockSurfaces[o] = c, !.mapped = @ \ {o}]
          IN  SetSession(MaybeContinueToLocking(LockFocus(m), connected, f))
    /\ UNCHANGED alive

\* The commit handler, for the first buffer of a lock surface.
MapLockSurface(o) ==
    /\ BatchDone
    /\ session.lockSurfaces[o] \in alive /\ o \notin session.mapped
    /\ \E f \in SessionFocus :
          session' = LockFocus(MaybeContinueToLocking(
                        [session EXCEPT !.mapped = @ \cup {o}], connected, f))
    /\ surface' = QueueRedrawAll(Dirtied(surface, {o}), connected)
    /\ UNCHANGED <<hotplugVars, active, animating, alive>>

\* The client that holds the lock calls unlock_and_destroy.
Unlock(c) ==
    /\ BatchDone
    /\ c \in alive /\ session.locker[c] = "locked"
    /\ \E f \in SessionFocus : SetSession(UnlockSession(Tell(session, c, "none"), f))
    /\ UNCHANGED alive

\* A refused client destroys its lock object.
Forget(c) ==
    /\ BatchDone
    /\ c \in alive /\ session.locker[c] = "finished"
    /\ SetSession(Tell(session, c, "none"))
    /\ UNCHANGED alive

\* A client's connection ends: its surfaces have no buffers any more, the
\* compositor keeps its lock and the entries of its surfaces.
ClientDies(c) ==
    /\ BatchDone
    /\ c \in alive
    /\ alive' = alive \ {c}
    /\ session' = [session EXCEPT
                     !.mapped = {o \in @ : session.lockSurfaces[o] # c}]
    /\ UNCHANGED vars

\* A new client takes the place of one that is gone.
ClientStarts(c) ==
    /\ BatchDone
    /\ c \notin alive /\ session.client # c
    /\ alive' = alive \cup {c}
    /\ session' = Tell(session, c, "none")
    /\ UNCHANGED vars

\* Fault: a window takes the focus whatever the lock says.
FocusWindowAnyway(f) ==
    /\ BatchDone
    /\ session.focus # f
    /\ session' = [session EXCEPT !.focus = f]
    /\ UNCHANGED <<vars, alive>>

\* focus_window_impl and the layer-shell focus: nothing while locked.
FocusWindow(f) ==
    /\ BatchDone
    /\ ~IsLocked(session) /\ session.focus # f
    /\ session' = [session EXCEPT !.focus = f]
    /\ UNCHANGED <<vars, alive>>

Scene == IF IsLocked(session) THEN "locked" ELSE "session"

\* What the end of render_surface makes of the lock.  Without a renderer it
\* returned before.
AfterRender(m, o, outcome, f) ==
    IF outcome = "noRenderer" THEN m
    ELSE IF RenderedOk(outcome) THEN LockFrameRendered(m, o, connected)
    ELSE LockRenderFailed(m, o, f)

\* render_surface with the lock in the picture: the scene it paints, no
\* tearing while locked, and the lock's reaction to the result.
LockRender(o, f) ==
    \E step \in Advances :
        LET g == IF step.moved THEN Dirtied(f, connected) ELSE f
        IN  /\ animating' = step.running
            /\ IF o \in connected /\ active
               THEN \E outcome \in Outcomes(g[o], Scene), tear \in BOOLEAN,
                       w \in SessionFocus :
                       /\ tear => o \in AsyncFlip /\ ~IsLocked(session)
                       /\ session' = AfterRender(session, o, outcome, w)
                       /\ surface' = Requeue(session', [g EXCEPT ![o] =
                             Rendered(@, Scene, outcome, tear, step.running)])
               ELSE /\ surface' = g
                    /\ UNCHANGED session

LockRunIdle(o) ==
    /\ surface[o].due > 0
    /\ LockRender(o, IdleTaken(o))
    /\ UNCHANGED <<hotplugVars, active, alive>>

LockOnEstimatedVBlank(o) ==
    /\ BatchDone
    /\ surface[o].timers > 0
    /\ IF RepaintsOnTimer(o)
       THEN LockRender(o, TimerTaken(o))
       ELSE /\ surface' = TimerTaken(o)
            /\ UNCHANGED <<animating, session>>
    /\ UNCHANGED <<hotplugVars, active, alive>>

\* outputs_changed, once the outputs left or joined.
LockHotplug ==
    /\ Hotplug
    /\ \E f \in SessionFocus :
          session' = IF connected' = connected THEN session
                     ELSE RefreshLockState(session, connected', f)
    /\ UNCHANGED alive

LockLoopStep ==
    \/ \E o \in Outputs : LockRunIdle(o) \/ LockOnEstimatedVBlank(o)
    \/ DeadlineFires
    \/ /\ StartIdles \/ \E o \in Outputs : VBlank(o)
       /\ UNCHANGED lockVars

ClientStep ==
    \E c \in Clients :
        \/ LockSession(c)
        \/ \E o \in Outputs : NewLockSurface(c, o)
        \/ Unlock(c)
        \/ Forget(c)
        \/ ClientDies(c)
        \/ ClientStarts(c)

LockNext ==
    \/ LockLoopStep
    \/ ClientStep
    \/ \E o \in Outputs : MapLockSurface(o)
    \/ \E f \in SessionFocus : FocusWindow(f)
    \/ LockHotplug
    \/ /\ \/ \E D \in SUBSET Outputs : Damage(D)
          \/ StartAnimation
          \/ PauseSession
          \/ ActivateSession
       /\ UNCHANGED lockVars

\* As for Redraw; the loop also runs the grace timer.
LockFairness ==
    /\ WF_allVars(StartIdles /\ UNCHANGED lockVars)
    /\ SF_allVars(DeadlineFires)
    /\ \A o \in Outputs :
        /\ WF_allVars(LockRunIdle(o))
        /\ SF_allVars(LockOnEstimatedVBlank(o))
        /\ SF_allVars(active /\ VBlank(o) /\ UNCHANGED lockVars)

LockSpec == LockInit /\ [][LockNext]_allVars
FairLockSpec == LockSpec /\ LockFairness

-----------------------------------------------------------------------------
(* Properties.                                                             *)

\* The lock machine implements the protocol it owes its clients: holding the
\* lock is LockState's client, blanking the session is is_locked.
Protocol == INSTANCE LockProtocol WITH
                locker <- session.locker,
                holder <- session.client,
                blanked <- IsLocked(session)

ImplementsProtocol == Protocol!Spec

\* Every variable has its type.
LockTypeOK ==
    /\ TypeOK
    /\ session \in Session
    /\ alive \subseteq Clients

\* What a live client was told agrees with the lock the compositor holds: the
\* one told locked is the holder, one that was told nothing is the one being
\* locked for, and the grace timer runs exactly while it is waited for.
ClientAndLockAgree ==
    /\ \A c \in alive :
        /\ session.locker[c] = "locked" <=>
               session.state = "Locked" /\ session.client = c
        /\ session.locker[c] = "requested" <=>
               session.state \in {"WaitingForSurfaces", "Locking"} /\ session.client = c
    /\ session.client = NoClient <=> session.state = "Unlocked"
    /\ session.deadline <=> session.state = "WaitingForSurfaces"

\* Compositor and clients agree on the lock, and all of it is well typed: the
\* output sets of the lock surfaces and of the redraw machines among it.
LockAgrees == LockTypeOK /\ ClientAndLockAgree

\* Once the lock is confirmed the last frame handed to any output is not one
\* of the session, across hotplug, VT switches and dying clients.
LockedShowsNoSession ==
    session.state = "Locked" =>
        \A o \in connected : Newest(surface[o]) # "session"

\* A Locking session still needs some lit output, and each output it still
\* needs has its repaint ahead, unless the attempt just failed: a hotplug, a
\* stale vblank, a timer or a VT switch delays the confirmation and never
\* strands it.
PendingLockProgresses ==
    session.state = "Locking" /\ active =>
        /\ connected \ session.rendered # {}
        /\ \A o \in connected \ session.rendered :
              RepaintOwed(surface[o]) \/ surface[o].failed

\* While locked and with an output lit the keyboard focus is not on a window.
LockedFocusConfined ==
    IsLocked(session) /\ connected # {} => session.focus # "window"

\* A lock request of a client that lives is answered, unless the session is
\* switched away.
LockIsAnswered ==
    \A c \in Clients :
        (c \in alive /\ session.locker[c] = "requested")
            ~> (c \notin alive \/ session.locker[c] # "requested" \/ ~active)

\* A confirmed lock reaches the screen of every output it finds lit.
LockReachesScreens ==
    \A o \in Outputs :
        (session.state = "Locked" /\ o \in connected)
            ~> (surface[o].screen = "locked" \/ session.state # "Locked"
                  \/ o \notin connected \/ ~active \/ surface[o].failed)
=============================================================================
