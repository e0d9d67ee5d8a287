------------------------------- MODULE Gamma -------------------------------
(***************************************************************************)
(* wlr-gamma-control (protocols/gamma_control.rs) and the LUTs it programs *)
(* (set_gamma, GammaProps and the resume path in backend/tty.rs).          *)
(***************************************************************************)
EXTENDS Heads

CONSTANTS Controls, Ramps

VARIABLES control,   \* the control objects
          active,    \* GammaControlManagerState.gamma_controls
          pendingGamma,   \* TtySurface.pending_gamma_change
          blob,      \* GammaProps.previous_blob
          lut,       \* what the CRTC applies
          missed     \* history: what the last attempt to program a head missed

gamma == <<control, active, pendingGamma, blob, lut, missed>>

-----------------------------------------------------------------------------
Free == "free"           \* no control
Linear == "linear"       \* no LUT: None
NoChange == "no change"
Foreign == "foreign"     \* programmed by whoever had the seat
Lut == Ramps \cup {Linear, Foreign}

ASSUME GammaAssumption == Free \notin Controls /\ NoChange \notin Ramps

\* A refused ioctl leaves the LUT as it was; a refused ramp GammaProps too.
Missed == {"nothing", "lut", "ramp"}

\* asked: the last ramp the client was not refused.
Control == [phase : {"new", "live", "failed", "gone"}, asked : Ramps \cup {Linear}]

GammaInit ==
    /\ control = [c \in Controls |-> [phase |-> "new", asked |-> Linear]]
    /\ active = [h \in Heads |-> Free]
    /\ pendingGamma = [h \in Heads |-> NoChange]
    /\ blob = [h \in Heads |-> Linear]
    /\ lut = [k \in Crtcs |-> Linear]
    /\ missed = [h \in Heads |-> "nothing"]

\* get_gamma_control: one control for a head, the next fails at once, and so does
\* one whose head has no ramp size to tell.
GetGammaControl(c, h) ==
    /\ control[c].phase = "new" /\ size[h] # "new"
    /\ \/ /\ Present(h) /\ active[h] = Free
          /\ control' = [control EXCEPT ![c].phase = "live"]
          /\ active' = [active EXCEPT ![h] = c]
       \/ /\ control' = [control EXCEPT ![c].phase = "failed"]
          /\ UNCHANGED active
    /\ UNCHANGED <<pendingGamma, blob, lut, missed>>

\* GammaProps::set_gamma of a CRTC: done, or refused with nothing changed.
Program(h, ramp, done) ==
    IF done
    THEN /\ blob' = [blob EXCEPT ![h] = ramp]
         /\ lut' = [lut EXCEPT ![Crtc(h)] = ramp]
         /\ missed' = [missed EXCEPT ![h] = "nothing"]
    ELSE /\ missed' = [missed EXCEPT ![h] = "ramp"]
         /\ UNCHANGED <<blob, lut>>

\* Fault: what is asked for while away is lost.
SetGammaHere(h, ramp, done) ==
    IF awake THEN Program(h, ramp, done) /\ UNCHANGED pendingGamma
    ELSE UNCHANGED <<pendingGamma, blob, lut, missed>>

\* TtyData::set_gamma: kept for the return while another session has the seat.
SetGamma(h, ramp, done) ==
    IF awake THEN Program(h, ramp, done) /\ UNCHANGED pendingGamma
    ELSE pendingGamma' = [pendingGamma EXCEPT ![h] = ramp] /\ UNCHANGED <<blob, lut, missed>>

\* A ramp is read in full and programmed, or the control fails and the gamma of
\* its head is reset: too little or too much data, or the ramp was refused.  The
\* reset may be refused as well, and nobody looks.
ClientSetsGamma(c, h, ramp) ==
    /\ control[c].phase = "live" /\ active[h] = c
    /\ \/ /\ SetGamma(h, ramp, TRUE)
          /\ control' = [control EXCEPT ![c].asked = ramp]
          /\ UNCHANGED active
       \/ /\ control' = [control EXCEPT ![c].phase = "failed"]
          /\ active' = [active EXCEPT ![h] = Free]
          /\ \E done \in BOOLEAN : SetGamma(h, Linear, done)

\* GammaControlManagerState::destroyed: the daemon is gone.
ControlDestroyed(c) ==
    /\ control[c].phase \in {"live", "failed"}
    /\ control' = [control EXCEPT ![c].phase = "gone"]
    /\ IF \E h \in Heads : active[h] = c
       THEN \E h \in Heads : /\ active[h] = c
                             /\ active' = [active EXCEPT ![h] = Free]
                             /\ \E done \in BOOLEAN : SetGamma(h, Linear, done)
       ELSE UNCHANGED <<active, pendingGamma, blob, lut, missed>>

\* connector_connected: whatever a previous compositor left is reset, if the
\* device lets us.  The new GammaProps remember no ramp either way.
ConnectGamma(h) ==
    /\ \E done \in BOOLEAN :
          /\ lut' = IF done THEN [lut EXCEPT ![Crtc(h)] = Linear] ELSE lut
          /\ missed' = [missed EXCEPT ![h] = IF done THEN "nothing" ELSE "lut"]
    /\ blob' = [blob EXCEPT ![h] = Linear]
    /\ UNCHANGED <<control, active, pendingGamma>>

\* The surface goes, and its control fails so that the daemon asks again.
OutputRemoved(h) ==
    /\ active' = [active EXCEPT ![h] = Free]
    /\ control' = IF active[h] = Free THEN control
                  ELSE [control EXCEPT ![active[h]].phase = "failed"]
    /\ pendingGamma' = [pendingGamma EXCEPT ![h] = NoChange]
    /\ UNCHANGED <<blob, lut, missed>>

\* Another session programs what it likes.
PauseGamma == /\ lut' = [k \in Crtcs |-> Foreign]
              /\ UNCHANGED <<control, active, pendingGamma, blob, missed>>

\* Back: apply the change asked for while away, else restore what we last set,
\* which only a GAMMA_LUT property remembers.  The change is taken first: what is
\* refused now is not tried again.
ResumeGamma ==
    \E done \in SUBSET {h \in Heads : Present(h)} :
        LET due(h) == IF pendingGamma[h] = NoChange THEN blob[h] ELSE pendingGamma[h]
            known(h) == Crtc(h) \notin Legacy \/ pendingGamma[h] # NoChange
            tried == {h \in Heads : Present(h) /\ known(h)}
        IN  /\ lut' = [k \in Crtcs |->
                           IF \E h \in tried \cap done : Crtc(h) = k
                           THEN due(CHOOSE h \in tried \cap done : Crtc(h) = k)
                           ELSE lut[k]]
            /\ blob' = [h \in Heads |-> IF h \in done THEN due(h) ELSE blob[h]]
            /\ missed' = [h \in Heads |->
                   IF h \notin tried THEN missed[h]
                   ELSE IF pendingGamma[h] # NoChange
                        THEN IF h \in done THEN "nothing" ELSE "ramp"
                   ELSE IF missed[h] = "ramp" THEN "ramp"
                   ELSE IF h \in done THEN "nothing" ELSE "lut"]
            /\ pendingGamma' = [h \in Heads |-> IF Present(h) THEN NoChange ELSE pendingGamma[h]]
            /\ UNCHANGED <<control, active>>

GammaNext ==
    \E c \in Controls :
        \/ ControlDestroyed(c)
        \/ \E h \in Heads : GetGammaControl(c, h) \/ \E r \in Ramps : ClientSetsGamma(c, h, r)

-----------------------------------------------------------------------------
GammaTypeOK ==
    /\ control \in [Controls -> Control]
    /\ active \in [Heads -> Controls \cup {Free}]
    /\ pendingGamma \in [Heads -> Ramps \cup {Linear, NoChange}]
    /\ blob \in [Heads -> Ramps \cup {Linear}]
    /\ lut \in [Crtcs -> Lut]
    /\ missed \in [Heads -> Missed]

\* On screen, a head shows the ramp its live control last set, and no ramp when
\* none is live: a daemon that left or failed, an output that came while the
\* session was away, never leave the screen tinted, nor does the other session.
\* (Where the kernel refused the last ramp, the screen keeps what it had until a
\* later ramp goes through, and where it refused a restoration until the next:
\* both are logged and not tried again.  Without a GAMMA_LUT property the other
\* session's ramp stays.)
GammaFollowsControl ==
    awake => \A h \in Heads : Present(h) /\ Crtc(h) \notin Legacy /\ missed[h] = "nothing" =>
        lut[Crtc(h)] = IF active[h] = Free THEN Linear ELSE control[active[h]].asked

\* A control is live exactly while it is the one of a head that is there.
OneLiveControl ==
    \A c \in Controls :
        (control[c].phase = "live") <=> Cardinality({h \in Heads : active[h] = c /\ Present(h)}) = 1
============================================================================
