----------------------------- MODULE ImageCopy -----------------------------
(***************************************************************************)
(* ext-image-copy-capture: the handlers in handlers.rs, and sessions,      *)
(* constraints and pending frames in capture.rs.                           *)
(***************************************************************************)
EXTENDS Heads

CONSTANTS Sessions, Shots   \* capture sessions, and the frames they make

VARIABLES session,   \* Tomoe.capture_sessions
          shot,      \* the frame objects
          pendingCapture,  \* Tomoe.pending_capture_frames
          rescaled   \* history: windows whose scale changed since the last refresh

imagecopy == <<session, shot, pendingCapture, rescaled>>

-----------------------------------------------------------------------------
\* refused: its target was gone.  stopped: dropped by the compositor.  closed:
\* destroyed by the client.
Session == [phase : {"new", "live", "refused", "stopped", "closed"},
            target : Targets \cup {"none"}, size : Sizes \cup {"none"}]

\* shows: what the client saw in a frame it was told is ready.
Shot == [phase : {"new", "asked", "ready", "constraints", "stopped", "unknown"},
         session : Sessions \cup {"none"}, size : Sizes \cup {"none"},
         shows : {"nothing", "session", "locked"}]

\* constraints_for_source: none when the target is gone.
ConstraintsFor(t) == IF Present(t) THEN size[t] ELSE "none"

ImageCopyInit ==
    /\ session = [s \in Sessions |-> [phase |-> "new", target |-> "none", size |-> "none"]]
    /\ shot = [c \in Shots |-> [phase |-> "new", session |-> "none", size |-> "none",
                                 shows |-> "nothing"]]
    /\ pendingCapture = <<>>
    /\ rescaled = {}

\* A session of a source made while its target was there.
NewSession(s, t) ==
    /\ session[s].phase = "new" /\ size[t] # "new"
    /\ session' = [session EXCEPT ![s] = [phase |-> IF Present(t) THEN "live" ELSE "refused",
                                          target |-> t, size |-> ConstraintsFor(t)]]
    /\ UNCHANGED <<shot, pendingCapture, rescaled>>

\* refresh_capture_sessions where the sizes become sz: a session is stopped when
\* its target is gone, told the new size when it changed.
RefreshSessions(sz) ==
    /\ session' = [s \in Sessions |->
          IF session[s].phase # "live" THEN session[s]
          ELSE IF sz[session[s].target] \in Sizes
               THEN [session[s] EXCEPT !.size = sz[session[s].target]]
               ELSE [session[s] EXCEPT !.phase = "stopped"]]
    /\ rescaled' = {}

\* The client may be behind on the constraints when it attaches a buffer; a
\* session has one frame at a time.
CaptureShot(c, s, b) ==
    /\ shot[c].phase = "new" /\ session[s].phase = "live"
    /\ \A d \in Shots : shot[d].session = s => shot[d].phase # "asked"
    /\ shot' = [shot EXCEPT ![c] = [@ EXCEPT !.phase = "asked", !.session = s, !.size = b]]
    /\ pendingCapture' = Append(pendingCapture, c)
    /\ UNCHANGED <<session, rescaled>>

\* render_capture_frame: what it may answer, and what a ready frame shows.
Answers(c) ==
    LET t == session[shot[c].session].target
    IN  IF ~Present(t) THEN {"stopped"}
        ELSE {"unknown", "constraints"} \cup {a \in {"ready"} : size[t] = shot[c].size}
ShowsWindow(c) == \* Fault: the lock is seen to for outputs only
    IF locked /\ session[shot[c].session].target \in Heads THEN "locked" ELSE "session"
Shows(c) == IF ~locked THEN "session"
            ELSE IF session[shot[c].session].target \in Heads THEN "locked" ELSE "nothing"

\* After any head was drawn.
CompleteCaptureFrames ==
    LET due == {pendingCapture[i] : i \in 1 .. Len(pendingCapture)}
    IN  /\ \E answer \in [due -> {"ready", "constraints", "unknown", "stopped"}] :
              /\ \A c \in due : answer[c] \in Answers(c)
              /\ shot' = [c \in Shots |->
                    IF c \notin due THEN shot[c]
                    ELSE [shot[c] EXCEPT !.phase = answer[c],
                                         !.shows = IF answer[c] = "ready" THEN Shows(c) ELSE @]]
        /\ pendingCapture' = <<>>
        /\ UNCHANGED <<session, rescaled>>

\* The frames of a session outlive it.
SessionDestroyed(s) ==
    /\ session[s].phase \in {"live", "refused", "stopped"}
    /\ session' = [session EXCEPT ![s].phase = "closed"]
    /\ UNCHANGED <<shot, pendingCapture, rescaled>>

ImageCopyNext ==
    \E s \in Sessions :
        \/ SessionDestroyed(s)
        \/ \E t \in scene.targets : NewSession(s, t)
        \/ \E c \in Shots, b \in Sizes : CaptureShot(c, s, b)

-----------------------------------------------------------------------------
ImageCopyTypeOK ==
    /\ session \in [Sessions -> Session]
    /\ shot \in [Shots -> Shot]
    /\ pendingCapture \in Seq(Shots)
    /\ rescaled \subseteq Windows

\* A live session has a target that is there and the size of it: sessions of
\* anything that went away were stopped and of anything that changed size were
\* told, whoever changed it (refresh_capture_sessions).  Only a window that was
\* rescaled since may be behind, until the next commit or change of outputs.
SessionsCurrent ==
    \A s \in Sessions : session[s].phase = "live" =>
        /\ Present(session[s].target)
        /\ session[s].target \notin rescaled => session[s].size = size[session[s].target]

\* A frame that was asked for waits in the queue once, and nothing else does:
\* taking the queue for a redraw loses none and answers none twice.
ShotsQueuedOnce ==
    /\ \A c \in Shots : (shot[c].phase = "asked") <=> \E i \in 1 .. Len(pendingCapture) : pendingCapture[i] = c
    /\ \A i, j \in 1 .. Len(pendingCapture) : pendingCapture[i] = pendingCapture[j] => i = j
============================================================================
