------------------------------ MODULE Capture ------------------------------
(***************************************************************************)
(* Screen copies, capture sessions and gamma controls under the events     *)
(* they share: redraws, hotplug, resizes, the lock and the switch away.    *)
(***************************************************************************)
EXTENDS Screencopy, ImageCopy, Gamma

vars == <<heads, screencopy, imagecopy, gamma>>

Init == HeadsInit /\ ScreencopyInit /\ ImageCopyInit /\ GammaInit

-----------------------------------------------------------------------------
\* The tail of a redraw of h.
Redraw(h) ==
    /\ awake /\ Present(h)
    /\ \/ Served(h) # {} \/ pendingCapture # <<>>
    /\ RenderQueued(h)
    /\ CompleteCaptureFrames
    /\ UNCHANGED <<gamma, heads>>

\* connector_connected, then outputs_changed; udev is heard while away as well.
Plug(h) ==
    /\ "hotplug" \in scene.events /\ size[h] = "new"
    /\ \A k \in Heads : Present(k) => Crtc(k) # Crtc(h)
    /\ \E s \in Sizes : size' = [size EXCEPT ![h] = s]
    /\ ConnectGamma(h)
    /\ RefreshSessions(size')
    /\ UNCHANGED <<locked, awake, scene, screencopy, shot, pendingCapture>>

\* connector_disconnected, then outputs_changed.
Unplug(h) ==
    /\ "hotplug" \in scene.events /\ Present(h)
    /\ size' = [size EXCEPT ![h] = "gone"]
    /\ RemoveOutput(h)
    /\ OutputRemoved(h)
    /\ RefreshSessions(size')
    /\ UNCHANGED <<locked, awake, scene, shot, pendingCapture>>

\* A window maps, commits, maybe another size, or is removed; an output changes
\* mode, or the settings its scale.
Resize(t) ==
    /\ "resize" \in scene.events
    /\ Present(t) \/ (t \in Windows /\ size[t] = "new")
    /\ \E s \in Sizes \cup IF t \in Windows THEN {"gone"} ELSE {} :
          /\ size' = [size EXCEPT ![t] = s]
          /\ RefreshSessions(size')
    /\ seen' = [m \in Managers |-> Nothing]
    /\ UNCHANGED <<locked, awake, scene, manager, queue, frame, shot, pendingCapture, gamma>>

\* A window is moved to where another scale applies, shown, hidden or made
\* fullscreen: its capture has another size, and no session is told.
Rescale(w) ==
    /\ "resize" \in scene.events /\ Present(w)
    /\ \E s \in Sizes \ {size[w]} : size' = [size EXCEPT ![w] = s]
    /\ rescaled' = rescaled \cup {w}
    /\ seen' = [m \in Managers |-> Nothing]
    /\ UNCHANGED <<locked, awake, scene, manager, queue, frame, session, shot, pendingCapture, gamma>>

LockOrUnlock ==
    /\ "lock" \in scene.events
    /\ locked' = ~locked
    /\ seen' = [m \in Managers |-> Nothing]
    /\ UNCHANGED <<size, awake, scene, manager, queue, frame, imagecopy, gamma>>

Pause ==
    /\ "switch" \in scene.events /\ awake /\ awake' = FALSE
    /\ PauseGamma
    /\ UNCHANGED <<size, locked, scene, screencopy, imagecopy>>

Resume ==
    /\ ~awake /\ awake' = TRUE
    /\ ResumeGamma
    /\ UNCHANGED <<size, locked, scene, screencopy, imagecopy>>

\* Requests of the clients there are.
Clients ==
    /\ UNCHANGED heads
    /\ \/ "screencopy" \in scene.peers /\ ScreencopyNext /\ UNCHANGED <<imagecopy, gamma>>
       \/ "imagecopy" \in scene.peers /\ ImageCopyNext /\ UNCHANGED <<screencopy, gamma>>
       \/ "gamma" \in scene.peers /\ GammaNext /\ UNCHANGED <<screencopy, imagecopy>>

Next ==
    \/ \E h \in Heads : Redraw(h) \/ Plug(h) \/ Unplug(h)
    \/ \E t \in Targets : Resize(t)
    \/ \E w \in Windows : Rescale(w)
    \/ LockOrUnlock \/ Pause \/ Resume
    \/ Clients

Spec == Init /\ [][Next]_vars

-----------------------------------------------------------------------------
TypeOK == HeadsTypeOK /\ ScreencopyTypeOK /\ ImageCopyTypeOK /\ GammaTypeOK

\* Screencopy frames and image-capture shots are answered once, whoever leaves
\* or changes size meanwhile.
CopiesAnswered == TypeOK /\ FrameAnsweredOnce /\ QueueOutlivesFrames /\ SessionsCurrent /\ ShotsQueuedOnce

\* The ramps on screen, and whose they are.
GammaInv == GammaFollowsControl /\ OneLiveControl

\* What a client gets to see of a captured frame is what the lock allowed when
\* it was rendered, not when it was asked for.
LockedSceneCaptured ==
    [][\A c \in Shots : shot[c].phase = "asked" /\ shot'[c].phase = "ready" /\ locked
            => shot'[c].shows # "session"]_vars
============================================================================
