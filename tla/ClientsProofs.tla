--------------------------- MODULE ClientsProofs ----------------------------
(***************************************************************************)
(* Theorems about the clients that look at or adjust the picture, for any  *)
(* outputs, windows, clients and frames: gamma controls and what the CRTCs *)
(* show, capture sessions and their frames, and screencopy's queues.       *)
(*                                                                         *)
(* Then the IPC server, for any number of connections, request ids and     *)
(* subscriptions, any size of the socket buffer and of the backlog.  A     *)
(* handler is a function of the server's record, so that what each keeps is*)
(* one lemma about any such record, and a handler that re-enters Lua cites *)
(* those of the handlers it is made of.                                    *)
(***************************************************************************)
EXTENDS Capture, Ipc, QueueProofs, FiniteSetTheorems, TLAPS

-----------------------------------------------------------------------------
(* The inductive invariants.                                               *)

\* The ramp a head is to show: what its live control asked for last.
Wanted(h) == IF active[h] = Free THEN Linear ELSE control[active[h]].asked

\* What the return of the session makes of a head.
Due(h) == IF pendingGamma[h] = NoChange THEN blob[h] ELSE pendingGamma[h]

\* A control is in the table of one head, which is there, exactly while it is
\* live.
ControlsMatch ==
    /\ \A h \in Heads : active[h] # Free => control[active[h]].phase = "live" /\ Present(h)
    /\ \A h, k \in Heads : active[h] = active[k] /\ active[h] # Free => h = k
    /\ \A c \in Controls : control[c].phase = "live" => \E h \in Heads : active[h] = c
    /\ \A c \in Controls : control[c].phase = "new" => control[c].asked = Linear

\* No ramp of head h is lost: the last was not refused, or another is kept for
\* the return.
Sure(h) == missed[h] # "ramp" \/ pendingGamma[h] # NoChange

\* Whether the session is here or away, the change kept for the return or else
\* the ramp last programmed is the one that is wanted, unless it was refused, and
\* nothing is kept here.
RampsKept ==
    /\ \A h \in Heads : Present(h) /\ Sure(h) => Due(h) = Wanted(h)
    /\ \A h \in Heads : awake \/ ~Present(h) => pendingGamma[h] = NoChange
    /\ awake => \A h \in Heads : Present(h) /\ Crtc(h) \notin Legacy /\ missed[h] = "nothing" =>
                    lut[Crtc(h)] = blob[h]

GammaInd == HeadsTypeOK /\ GammaTypeOK /\ ControlsMatch /\ RampsKept

\* A session that was made keeps its target, and a frame that waits its session.
ShotsTyped ==
    /\ \A s \in Sessions : session[s].phase # "new" => session[s].target \in Targets
    /\ \A c \in Shots : shot[c].phase = "asked" =>
          shot[c].session \in Sessions /\ session[shot[c].session].phase # "new"

ImageCopyInd ==
    HeadsTypeOK /\ ImageCopyTypeOK /\ SessionsCurrent /\ ShotsQueuedOnce /\ ShotsTyped

\* Frame f is in sequence s; the frames of s differ.
In(s, f) == \E i \in 1 .. Len(s) : s[i] = f
Distinct(s) == \A i, j \in 1 .. Len(s) : s[i] = s[j] => i = j

\* A queue belongs to a manager that was bound, is there while the manager
\* lives, and holds frames of its own that were not answered: pending ones
\* before the copy request, waiting ones, each once, after it.
QueueSound(m) ==
    /\ manager[m] = "alive" => queue[m] # Nothing
    /\ queue[m] # Nothing =>
        /\ manager[m] # "none"
        /\ manager[m] = "gone" => ~IsEmpty(queue[m])
        /\ \A f \in queue[m].pending :
              frame[f].manager = m /\ ~frame[f].copied /\ frame[f].size # Nothing
        /\ Distinct(queue[m].waiting)
        /\ \A f \in Frames : In(queue[m].waiting, f) =>
              /\ frame[f].manager = m /\ frame[f].copied /\ frame[f].size # Nothing
              /\ ~frame[f].fence /\ frame[f].told = "none"

\* A frame object that is there has a manager and an output; another has none.
Owned(x) ==
    /\ x.life \in {"alive", "dead"} => x.manager \in Managers /\ x.head \in Heads
    /\ x.life \in {"none", "gone"} => x.manager = Nothing
    /\ x.manager # Nothing => manager[x.manager] # "none"

\* The client got its one answer, or gets it when the fence signals.
Informed(x) == \/ x.told \in {"ready", "failed"} /\ ~x.fence
               \/ x.told = "none" /\ x.fence

\* A frame whose client may still copy it is pending; once copied, it is queued
\* with no answer or out of the queue with one.
FrameSound(f) ==
    /\ Owned(frame[f])
    /\ frame[f].life = "alive" /\ ~frame[f].copied =>
          /\ ~frame[f].fence
          /\ frame[f].size # Nothing =>
                /\ frame[f].told = "none"
                /\ queue[frame[f].manager] # Nothing /\ f \in queue[frame[f].manager].pending
    /\ frame[f].life = "alive" /\ frame[f].copied =>
          IF Holds(frame[f].manager, f) THEN frame[f].told = "none" /\ ~frame[f].fence
          ELSE Informed(frame[f])

FramesSound == (\A m \in Managers : QueueSound(m)) /\ \A f \in Frames : FrameSound(f)

ScreencopyInd == HeadsTypeOK /\ ScreencopyTypeOK /\ FramesSound

-----------------------------------------------------------------------------
(* The outputs and windows.                                                *)

\* No two outputs that are there share a CRTC, whatever comes and goes.
LEMMA HeadsStep ==
    ASSUME HeadsTypeOK, [Next]_vars
    PROVE  HeadsTypeOK'
  <1>1. CASE UNCHANGED heads
    BY <1>1 DEF HeadsTypeOK, heads, Present, Crtc
  <1>2. ASSUME NEW h \in Heads, Plug(h)
        PROVE  HeadsTypeOK'
    <2>1. PICK s \in Sizes : size' = [size EXCEPT ![h] = s]
      BY <1>2 DEF Plug
    <2>2. UNCHANGED <<locked, awake, scene>> /\ \A k \in Heads : Present(k) => Crtc(k) # Crtc(h)
      BY <1>2 DEF Plug
    <2>3. size' \in [Targets -> Sizes \cup {"new", "gone"}]
      BY <2>1 DEF HeadsTypeOK
    <2>4. \A k \in Heads : k # h => (Present(k)' <=> Present(k))
      BY <2>1 DEF HeadsTypeOK, Present, Targets
    <2>5. \A k \in Heads : Crtc(k)' = Crtc(k)
      BY <2>2 DEF Crtc
    <2>6. \A j, k \in Heads : Present(j)' /\ Present(k)' /\ Crtc(j)' = Crtc(k)' => j = k
      BY <2>2, <2>4, <2>5 DEF HeadsTypeOK
    <2> QED
      BY <2>2, <2>3, <2>6 DEF HeadsTypeOK
  <1>3. ASSUME NEW h \in Heads, Unplug(h)
        PROVE  HeadsTypeOK'
    <2>1. size' = [size EXCEPT ![h] = "gone"] /\ UNCHANGED <<locked, awake, scene>>
      BY <1>3 DEF Unplug
    <2>2. size' \in [Targets -> Sizes \cup {"new", "gone"}]
      BY <2>1 DEF HeadsTypeOK
    <2>3. \A k \in Heads : Present(k)' => Present(k)
      BY <2>1, HeadsAssumption DEF HeadsTypeOK, Present, Targets
    <2>4. \A k \in Heads : Crtc(k)' = Crtc(k)
      BY <2>1 DEF Crtc
    <2> QED
      BY <2>1, <2>2, <2>3, <2>4 DEF HeadsTypeOK
  <1>4. ASSUME NEW t \in Targets, Resize(t) \/ (t \in Windows /\ Rescale(t))
        PROVE  HeadsTypeOK'
    <2>1. PICK s \in Sizes \cup IF t \in Windows THEN {"gone"} ELSE {} :
              size' = [size EXCEPT ![t] = s]
      BY <1>4 DEF Resize, Rescale
    <2>2. UNCHANGED <<locked, awake, scene>> /\ (Present(t) \/ t \in Windows)
      BY <1>4 DEF Resize, Rescale
    <2>3. size' \in [Targets -> Sizes \cup {"new", "gone"}]
      BY <2>1 DEF HeadsTypeOK
    <2>4. \A k \in Heads : Present(k)' => Present(k)
      BY <2>1, <2>2, HeadsAssumption DEF HeadsTypeOK, Present, Targets
    <2>5. \A k \in Heads : Crtc(k)' = Crtc(k)
      BY <2>2 DEF Crtc
    <2> QED
      BY <2>2, <2>3, <2>4, <2>5 DEF HeadsTypeOK
  <1>5. CASE LockOrUnlock \/ Pause \/ Resume
    <2>1. UNCHANGED <<size, scene>> /\ locked' \in BOOLEAN /\ awake' \in BOOLEAN
      BY <1>5 DEF LockOrUnlock, Pause, Resume, HeadsTypeOK
    <2> QED
      BY <2>1 DEF HeadsTypeOK, Present, Crtc
  <1>6. Next => \/ UNCHANGED heads \/ LockOrUnlock \/ Pause \/ Resume
                \/ \E h \in Heads : Plug(h) \/ Unplug(h)
                \/ \E t \in Targets : Resize(t) \/ (t \in Windows /\ Rescale(t))
    BY DEF Next, Redraw, Clients, Targets
  <1>7. UNCHANGED vars => UNCHANGED heads
    BY DEF vars
  <1> QED
    BY <1>1, <1>2, <1>3, <1>4, <1>5, <1>6, <1>7

LEMMA HeadsStart == Init => HeadsTypeOK
  <1> SUFFICES ASSUME Init PROVE HeadsTypeOK
    OBVIOUS
  <1>1. PICK s \in Sizes : size \in [Targets -> {s, "new", "gone"}]
    BY DEF Init, HeadsInit
  <1>2. size \in [Targets -> Sizes \cup {"new", "gone"}]
    BY <1>1
  <1> QED
    BY <1>2 DEF Init, HeadsInit, HeadsTypeOK

-----------------------------------------------------------------------------
(* Gamma.                                                                  *)

LEMMA GammaStart == Init => GammaInd
  <1> SUFFICES ASSUME Init PROVE GammaInd
    OBVIOUS
  <1>1. HeadsTypeOK
    BY HeadsStart
  <1>2. /\ control = [c \in Controls |-> [phase |-> "new", asked |-> Linear]]
        /\ active = [h \in Heads |-> Free] /\ pendingGamma = [h \in Heads |-> NoChange]
        /\ blob = [h \in Heads |-> Linear] /\ lut = [k \in Crtcs |-> Linear]
        /\ missed = [h \in Heads |-> "nothing"]
    BY DEF Init, GammaInit
  <1>3. \A h \in Heads : Crtc(h) \in Crtcs
    BY <1>1, HeadsAssumption DEF HeadsTypeOK, AnyScene, Crtc
  <1>4. GammaTypeOK
    BY <1>2 DEF GammaTypeOK, Control, Lut, Missed
  <1>5. ControlsMatch
    BY <1>2 DEF ControlsMatch
  <1>6. RampsKept
    BY <1>2, <1>3 DEF RampsKept, Due, Wanted
  <1> QED
    BY <1>1, <1>4, <1>5, <1>6 DEF GammaInd

LEMMA CrtcLemma ==
    ASSUME HeadsTypeOK
    PROVE  /\ \A h \in Heads : Crtc(h) \in Crtcs
           /\ \A h, k \in Heads : Present(h) /\ Present(k) /\ Crtc(h) = Crtc(k) => h = k
  BY HeadsAssumption DEF HeadsTypeOK, AnyScene, Crtc

\* SetGamma makes ramp what head h, and h alone, is to show, now or on return,
\* or the ramp of h is lost.
LEMMA SetGammaLemma ==
    ASSUME GammaInd, NEW h \in Heads, NEW ramp \in Ramps \cup {Linear}, NEW done \in BOOLEAN,
           Present(h), SetGamma(h, ramp, done), UNCHANGED heads
    PROVE  /\ pendingGamma' \in [Heads -> Ramps \cup {Linear, NoChange}]
           /\ blob' \in [Heads -> Ramps \cup {Linear}]
           /\ lut' \in [Crtcs -> Lut]
           /\ missed' \in [Heads -> Missed]
           /\ \A k \in Heads : Present(k)' <=> Present(k)
           /\ \A k \in Heads : Present(k) /\ Sure(k)' =>
                 IF k = h THEN Due(k)' = ramp ELSE Sure(k) /\ Due(k)' = Due(k)
           /\ \A k \in Heads : awake' \/ ~Present(k)' => pendingGamma'[k] = NoChange
           /\ awake' => \A k \in Heads :
                 Present(k)' /\ Crtc(k)' \notin Legacy /\ missed'[k] = "nothing" =>
                     lut'[Crtc(k)'] = blob'[k]
  <1>0. UNCHANGED <<size, awake, scene>> /\ \A k \in Heads : (Present(k)' <=> Present(k)) /\ Crtc(k)' = Crtc(k)
    BY DEF heads, Present, Crtc
  <1>1. CASE awake /\ done
    <2>1. /\ blob' = [blob EXCEPT ![h] = ramp] /\ lut' = [lut EXCEPT ![Crtc(h)] = ramp]
          /\ missed' = [missed EXCEPT ![h] = "nothing"] /\ UNCHANGED pendingGamma
      BY <1>1 DEF SetGamma, Program
    <2>2. \A k \in Heads : pendingGamma[k] = NoChange
      BY <1>1 DEF GammaInd, RampsKept
    <2>3. /\ blob' \in [Heads -> Ramps \cup {Linear}] /\ lut' \in [Crtcs -> Lut]
          /\ missed' \in [Heads -> Missed]
          /\ \A k \in Heads : blob'[k] = IF k = h THEN ramp ELSE blob[k]
          /\ \A k \in Heads : k # h => missed'[k] = missed[k]
      BY <2>1 DEF GammaInd, GammaTypeOK, Lut, Missed
    <2>4. \A k \in Heads : Due(k)' = blob'[k] /\ Due(k) = blob[k]
      BY <2>1, <2>2 DEF Due
    <2>5. \A k \in Heads : Present(k) => lut'[Crtc(k)] = IF k = h THEN ramp ELSE lut[Crtc(k)]
      BY <2>1, CrtcLemma DEF GammaInd, GammaTypeOK
    <2>6. \A k \in Heads : Present(k) /\ Crtc(k) \notin Legacy /\ missed'[k] = "nothing" =>
             lut'[Crtc(k)] = blob'[k]
      BY <1>1, <2>3, <2>5 DEF GammaInd, RampsKept
    <2>7. \A k \in Heads : k # h => (Sure(k)' <=> Sure(k)) /\ Due(k)' = Due(k)
      BY <2>1, <2>3, <2>4 DEF Sure
    <2> QED
      BY <1>0, <2>1, <2>2, <2>3, <2>4, <2>6, <2>7 DEF GammaInd, GammaTypeOK
  <1>4. CASE awake /\ ~done
    <2>1. missed' = [missed EXCEPT ![h] = "ramp"] /\ UNCHANGED <<pendingGamma, blob, lut>>
      BY <1>4 DEF SetGamma, Program
    <2>2. \A k \in Heads : pendingGamma[k] = NoChange
      BY <1>4 DEF GammaInd, RampsKept
    <2>3. /\ missed' \in [Heads -> Missed]
          /\ \A k \in Heads : missed'[k] = IF k = h THEN "ramp" ELSE missed[k]
      BY <2>1 DEF GammaInd, GammaTypeOK, Missed
    <2>4. ~Sure(h)' /\ \A k \in Heads : k # h => (Sure(k)' <=> Sure(k)) /\ Due(k)' = Due(k)
      BY <2>1, <2>2, <2>3 DEF Sure, Due
    <2>5. \A k \in Heads : Present(k) /\ Crtc(k) \notin Legacy /\ missed'[k] = "nothing" =>
             lut[Crtc(k)] = blob[k]
      BY <1>4, <2>3 DEF GammaInd, RampsKept
    <2> QED
      BY <1>0, <2>1, <2>2, <2>3, <2>4, <2>5 DEF GammaInd, GammaTypeOK
  <1>2. CASE ~awake
    <2>1. pendingGamma' = [pendingGamma EXCEPT ![h] = ramp] /\ UNCHANGED <<blob, lut, missed>>
      BY <1>2 DEF SetGamma
    <2>2. /\ pendingGamma' \in [Heads -> Ramps \cup {Linear, NoChange}]
          /\ \A k \in Heads : pendingGamma'[k] = IF k = h THEN ramp ELSE pendingGamma[k]
      BY <2>1 DEF GammaInd, GammaTypeOK
    <2>3. ramp # NoChange
      BY GammaAssumption DEF Linear, NoChange
    <2>4. \A k \in Heads : Due(k)' = IF k = h THEN ramp ELSE Due(k)
      BY <2>1, <2>2, <2>3 DEF Due
    <2>5. \A k \in Heads : ~Present(k) => pendingGamma'[k] = NoChange
      BY <2>2 DEF GammaInd, RampsKept
    <2>6. \A k \in Heads : k # h => (Sure(k)' <=> Sure(k))
      BY <2>1, <2>2 DEF Sure
    <2> QED
      BY <1>0, <1>2, <2>1, <2>2, <2>4, <2>5, <2>6 DEF GammaInd, GammaTypeOK
  <1>3. awake \in BOOLEAN
    BY DEF GammaInd, HeadsTypeOK
  <1> QED
    BY <1>1, <1>2, <1>3, <1>4

LEMMA GetGammaControlStep ==
    ASSUME GammaInd, NEW c \in Controls, NEW h \in Heads, GetGammaControl(c, h), UNCHANGED heads
    PROVE  GammaTypeOK' /\ ControlsMatch' /\ RampsKept'
  <1>0. UNCHANGED <<size, awake, scene, pendingGamma, blob, lut, missed>>
    BY DEF GetGammaControl, heads
  <1>1. \A k \in Heads : /\ Present(k)' <=> Present(k)
                         /\ Crtc(k)' = Crtc(k) /\ Due(k)' = Due(k) /\ (Sure(k)' <=> Sure(k))
    BY <1>0 DEF Present, Crtc, Due, Sure
  <1>2. control[c].phase = "new" /\ control[c].asked = Linear /\ \A k \in Heads : active[k] # c
    BY GammaAssumption DEF GetGammaControl, GammaInd, ControlsMatch
  <1>3. PICK ph \in {"live", "failed"} :
            /\ control' = [control EXCEPT ![c].phase = ph]
            /\ ph = "live" => Present(h) /\ active[h] = Free /\ active' = [active EXCEPT ![h] = c]
            /\ ph = "failed" => UNCHANGED active
    BY DEF GetGammaControl
  <1>4. /\ control' \in [Controls -> Control]
        /\ \A d \in Controls : /\ control'[d].asked = control[d].asked
                                /\ control'[d].phase = IF d = c THEN ph ELSE control[d].phase
    BY <1>3 DEF GammaInd, GammaTypeOK, Control
  <1>5. /\ active' \in [Heads -> Controls \cup {Free}]
        /\ \A k \in Heads : active'[k] = IF ph = "live" /\ k = h THEN c ELSE active[k]
    BY <1>3 DEF GammaInd, GammaTypeOK
  <1>6. GammaTypeOK'
    BY <1>0, <1>4, <1>5 DEF GammaInd, GammaTypeOK
  <1>7. \A k \in Heads : active[k] # Free => active[k] \in Controls
    BY DEF GammaInd, GammaTypeOK
  <1>8. ControlsMatch'
    BY <1>1, <1>2, <1>3, <1>4, <1>5, <1>7, GammaAssumption DEF GammaInd, ControlsMatch
  <1>9. \A k \in Heads : Wanted(k)' = Wanted(k)
    BY <1>2, <1>3, <1>4, <1>5, <1>7, GammaAssumption DEF Wanted
  <1>10. RampsKept'
    BY <1>0, <1>1, <1>9 DEF GammaInd, RampsKept
  <1> QED
    BY <1>6, <1>8, <1>10

LEMMA ClientSetsGammaStep ==
    ASSUME GammaInd, NEW c \in Controls, NEW h \in Heads, NEW ramp \in Ramps,
           ClientSetsGamma(c, h, ramp), UNCHANGED heads
    PROVE  GammaTypeOK' /\ ControlsMatch' /\ RampsKept'
  <1>0. control[c].phase = "live" /\ active[h] = c /\ Present(h) /\ c # Free
    BY GammaAssumption DEF ClientSetsGamma, GammaInd, ControlsMatch
  <1>1. \A k \in Heads : /\ active[k] # Free => active[k] \in Controls
                         /\ active[k] = c => k = h
    BY <1>0 DEF GammaInd, GammaTypeOK, ControlsMatch
  <1>2. CASE /\ SetGamma(h, ramp, TRUE)
             /\ control' = [control EXCEPT ![c].asked = ramp]
             /\ UNCHANGED active
    <2>1. /\ control' \in [Controls -> Control]
          /\ \A d \in Controls : /\ control'[d].phase = control[d].phase
                                  /\ control'[d].asked = IF d = c THEN ramp ELSE control[d].asked
      BY <1>2 DEF GammaInd, GammaTypeOK, Control
    <2>2. \A k \in Heads : Wanted(k)' = IF k = h THEN ramp ELSE Wanted(k)
      BY <1>0, <1>1, <1>2, <2>1 DEF Wanted
    <2>3. ramp \in Ramps \cup {Linear} /\ TRUE \in BOOLEAN /\ SetGamma(h, ramp, TRUE)
      BY <1>2
    <2>4. RampsKept'
      BY <1>0, <2>2, <2>3, SetGammaLemma DEF GammaInd, RampsKept
    <2>5. GammaTypeOK'
      BY <1>0, <1>2, <2>1, <2>3, SetGammaLemma DEF GammaInd, GammaTypeOK
    <2>6. ControlsMatch'
      <3>1. \A k \in Heads : (Present(k)' <=> Present(k)) /\ active'[k] = active[k]
        BY <1>0, <1>2, <2>3, SetGammaLemma
      <3> QED
        BY <1>0, <1>1, <2>1, <3>1 DEF GammaInd, ControlsMatch
    <2> QED
      BY <2>4, <2>5, <2>6
  <1>3. CASE /\ control' = [control EXCEPT ![c].phase = "failed"]
             /\ active' = [active EXCEPT ![h] = Free]
             /\ \E done \in BOOLEAN : SetGamma(h, Linear, done)
    <2>0. PICK done \in BOOLEAN : SetGamma(h, Linear, done)
      BY <1>3
    <2>1. /\ control' \in [Controls -> Control]
          /\ \A d \in Controls : /\ control'[d].asked = control[d].asked
                                  /\ control'[d].phase = IF d = c THEN "failed" ELSE control[d].phase
      BY <1>3 DEF GammaInd, GammaTypeOK, Control
    <2>2. /\ active' \in [Heads -> Controls \cup {Free}]
          /\ \A k \in Heads : active'[k] = IF k = h THEN Free ELSE active[k]
      BY <1>3 DEF GammaInd, GammaTypeOK
    <2>3. \A k \in Heads : Wanted(k)' = IF k = h THEN Linear ELSE Wanted(k)
      BY <1>1, <2>1, <2>2 DEF Wanted
    <2>4. Linear \in Ramps \cup {Linear} /\ SetGamma(h, Linear, done)
      BY <2>0
    <2>5. RampsKept'
      BY <1>0, <2>3, <2>4, SetGammaLemma DEF GammaInd, RampsKept
    <2>6. GammaTypeOK'
      BY <1>0, <2>1, <2>2, <2>4, SetGammaLemma DEF GammaInd, GammaTypeOK
    <2>7. ControlsMatch'
      <3>0. \A k \in Heads : Present(k)' <=> Present(k)
        BY <1>0, <2>4, SetGammaLemma
      <3>1. \A k \in Heads : active'[k] # Free => control'[active'[k]].phase = "live" /\ Present(k)'
        BY <1>1, <2>1, <2>2, <3>0 DEF GammaInd, ControlsMatch
      <3>2. \A j, k \in Heads : active'[j] = active'[k] /\ active'[j] # Free => j = k
        BY <2>2 DEF GammaInd, ControlsMatch
      <3>3. \A d \in Controls : control'[d].phase = "live" => \E k \in Heads : active'[k] = d
        BY <1>0, <2>1, <2>2 DEF GammaInd, ControlsMatch
      <3>4. \A d \in Controls : control'[d].phase = "new" => control'[d].asked = Linear
        BY <2>1 DEF GammaInd, ControlsMatch
      <3> QED
        BY <3>1, <3>2, <3>3, <3>4 DEF ControlsMatch
    <2> QED
      BY <2>5, <2>6, <2>7
  <1> QED
    BY <1>2, <1>3 DEF ClientSetsGamma

LEMMA ControlDestroyedStep ==
    ASSUME GammaInd, NEW c \in Controls, ControlDestroyed(c), UNCHANGED heads
    PROVE  GammaTypeOK' /\ ControlsMatch' /\ RampsKept'
  <1>0. UNCHANGED <<size, awake, scene>> /\ c # Free
    BY GammaAssumption DEF heads
  <1>1. /\ control' \in [Controls -> Control]
        /\ \A d \in Controls : /\ control'[d].asked = control[d].asked
                                /\ control'[d].phase = IF d = c THEN "gone" ELSE control[d].phase
    BY DEF ControlDestroyed, GammaInd, GammaTypeOK, Control
  <1>2. \A k \in Heads : active[k] # Free => active[k] \in Controls
    BY DEF GammaInd, GammaTypeOK
  <1>3. CASE \E h \in Heads : active[h] = c
    <2>1. PICK h \in Heads : /\ active[h] = c
                            /\ active' = [active EXCEPT ![h] = Free]
                            /\ \E done \in BOOLEAN : SetGamma(h, Linear, done)
      BY <1>3 DEF ControlDestroyed
    <2>10. PICK done \in BOOLEAN : SetGamma(h, Linear, done)
      BY <2>1
    <2>2. /\ active' \in [Heads -> Controls \cup {Free}]
          /\ \A k \in Heads : active'[k] = IF k = h THEN Free ELSE active[k]
      BY <2>1 DEF GammaInd, GammaTypeOK
    <2>3. Present(h) /\ \A k \in Heads : active[k] = c => k = h
      BY <1>0, <2>1 DEF GammaInd, ControlsMatch
    <2>4. \A k \in Heads : Wanted(k)' = IF k = h THEN Linear ELSE Wanted(k)
      BY <1>1, <1>2, <2>2 DEF Wanted
    <2>5. Linear \in Ramps \cup {Linear}
      OBVIOUS
    <2>6. RampsKept'
      BY <2>3, <2>4, <2>5, <2>10, SetGammaLemma DEF GammaInd, RampsKept
    <2>7. GammaTypeOK'
      BY <1>1, <2>2, <2>3, <2>5, <2>10, SetGammaLemma DEF GammaInd, GammaTypeOK
    <2>8. \A k \in Heads : Present(k)' <=> Present(k)
      BY <1>0 DEF Present
    <2>9. ControlsMatch'
      <3>1. \A k \in Heads : active'[k] # Free => control'[active'[k]].phase = "live" /\ Present(k)'
        BY <1>1, <1>2, <2>2, <2>3, <2>8 DEF GammaInd, ControlsMatch
      <3>2. \A j, k \in Heads : active'[j] = active'[k] /\ active'[j] # Free => j = k
        BY <2>2 DEF GammaInd, ControlsMatch
      <3>3. \A d \in Controls : control'[d].phase = "live" => \E k \in Heads : active'[k] = d
        BY <1>1, <2>1, <2>2 DEF GammaInd, ControlsMatch
      <3>4. \A d \in Controls : control'[d].phase = "new" => control'[d].asked = Linear
        BY <1>1 DEF GammaInd, ControlsMatch
      <3> QED
        BY <3>1, <3>2, <3>3, <3>4 DEF ControlsMatch
    <2> QED
      BY <2>6, <2>7, <2>9
  <1>4. CASE ~\E h \in Heads : active[h] = c
    <2>1. UNCHANGED <<active, pendingGamma, blob, lut, missed>>
      BY <1>4 DEF ControlDestroyed
    <2>2. \A k \in Heads : /\ Present(k)' <=> Present(k)
                           /\ Crtc(k)' = Crtc(k) /\ Due(k)' = Due(k) /\ (Sure(k)' <=> Sure(k))
      BY <1>0, <2>1 DEF Present, Crtc, Due, Sure
    <2>3. \A k \in Heads : Wanted(k)' = Wanted(k)
      BY <1>1, <1>2, <2>1 DEF Wanted
    <2>4. RampsKept'
      BY <1>0, <2>1, <2>2, <2>3 DEF GammaInd, RampsKept
    <2>5. GammaTypeOK'
      BY <1>1, <2>1 DEF GammaInd, GammaTypeOK
    <2>6. ControlsMatch'
      BY <1>1, <1>2, <1>4, <2>1, <2>2 DEF GammaInd, ControlsMatch
    <2> QED
      BY <2>4, <2>5, <2>6
  <1> QED
    BY <1>3, <1>4

\* A head that is plugged starts with no ramp, whatever its CRTC shows.
LEMMA PlugStep ==
    ASSUME GammaInd, HeadsTypeOK', NEW h \in Heads, Plug(h)
    PROVE  GammaTypeOK' /\ ControlsMatch' /\ RampsKept'
  <1>1. PICK s \in Sizes : size' = [size EXCEPT ![h] = s]
    BY DEF Plug
  <1>2. /\ UNCHANGED <<awake, scene, control, active, pendingGamma>> /\ size[h] = "new"
        /\ blob' = [blob EXCEPT ![h] = Linear]
    BY DEF Plug, ConnectGamma
  <1>12. PICK done \in BOOLEAN :
            /\ lut' = IF done THEN [lut EXCEPT ![Crtc(h)] = Linear] ELSE lut
            /\ missed' = [missed EXCEPT ![h] = IF done THEN "nothing" ELSE "lut"]
    BY DEF Plug, ConnectGamma
  <1>3. /\ ~Present(h) /\ Present(h)'
        /\ \A k \in Heads : k # h => (Present(k)' <=> Present(k))
        /\ \A k \in Heads : Crtc(k)' = Crtc(k)
    BY <1>1, <1>2, HeadsAssumption DEF GammaInd, HeadsTypeOK, Present, Targets, Crtc
  <1>4. active[h] = Free /\ pendingGamma[h] = NoChange
    BY <1>2, <1>3 DEF GammaInd, ControlsMatch, RampsKept
  <1>5. /\ blob' \in [Heads -> Ramps \cup {Linear}] /\ lut' \in [Crtcs -> Lut]
        /\ missed' \in [Heads -> Missed]
        /\ \A k \in Heads : blob'[k] = IF k = h THEN Linear ELSE blob[k]
        /\ \A k \in Heads : missed'[k] = IF k # h THEN missed[k] ELSE IF done THEN "nothing" ELSE "lut"
    BY <1>2, <1>12 DEF GammaInd, GammaTypeOK, Lut, Missed
  <1>6. \A k \in Heads : /\ Due(k)' = IF k = h THEN Linear ELSE Due(k)
                         /\ Wanted(k)' = Wanted(k)
    BY <1>2, <1>4, <1>5 DEF Due, Wanted
  <1>7. Wanted(h) = Linear
    BY <1>4 DEF Wanted
  <1>8. \A k \in Heads : Present(k)' /\ missed'[k] = "nothing" =>
           lut'[Crtc(k)] = IF k = h THEN Linear ELSE lut[Crtc(k)]
    <2>1. \A k \in Heads : Present(k)' /\ Crtc(k) = Crtc(h) => k = h
      BY <1>3 DEF HeadsTypeOK
    <2>2. \A k \in Heads : Crtc(k) \in Crtcs
      BY CrtcLemma DEF GammaInd
    <2> QED
      BY <1>5, <1>12, <2>1, <2>2 DEF GammaInd, GammaTypeOK
  <1>9. RampsKept'
    <2>0. \A k \in Heads : k # h => (Sure(k)' <=> Sure(k))
      BY <1>2, <1>5 DEF Sure
    <2>1. \A k \in Heads : Present(k)' /\ Sure(k)' => Due(k)' = Wanted(k)'
      BY <1>3, <1>6, <1>7, <2>0 DEF GammaInd, RampsKept
    <2>2. awake => \A k \in Heads :
             Present(k)' /\ Crtc(k)' \notin Legacy /\ missed'[k] = "nothing" => lut'[Crtc(k)'] = blob'[k]
      BY <1>3, <1>5, <1>8 DEF GammaInd, RampsKept
    <2>3. \A k \in Heads : awake' \/ ~Present(k)' => pendingGamma'[k] = NoChange
      BY <1>2, <1>3, <1>4 DEF GammaInd, RampsKept
    <2> QED
      BY <1>2, <2>1, <2>2, <2>3 DEF RampsKept
  <1>10. GammaTypeOK'
    BY <1>2, <1>5 DEF GammaInd, GammaTypeOK
  <1>11. ControlsMatch'
    BY <1>2, <1>3 DEF GammaInd, ControlsMatch
  <1> QED
    BY <1>9, <1>10, <1>11

\* A head that goes takes its control and what was kept for it along.
LEMMA UnplugStep ==
    ASSUME GammaInd, NEW h \in Heads, Unplug(h)
    PROVE  GammaTypeOK' /\ ControlsMatch' /\ RampsKept'
  <1>1. /\ size' = [size EXCEPT ![h] = "gone"] /\ UNCHANGED <<awake, scene, blob, lut, missed>>
        /\ active' = [active EXCEPT ![h] = Free]
        /\ control' = IF active[h] = Free THEN control
                      ELSE [control EXCEPT ![active[h]].phase = "failed"]
        /\ pendingGamma' = [pendingGamma EXCEPT ![h] = NoChange]
    BY DEF Unplug, OutputRemoved
  <1>2. /\ ~Present(h)'
        /\ \A k \in Heads : k # h => (Present(k)' <=> Present(k))
        /\ \A k \in Heads : Crtc(k)' = Crtc(k)
    BY <1>1, HeadsAssumption DEF GammaInd, HeadsTypeOK, Present, Targets, Crtc
  <1>3. /\ active' \in [Heads -> Controls \cup {Free}]
        /\ \A k \in Heads : active'[k] = IF k = h THEN Free ELSE active[k]
    BY <1>1 DEF GammaInd, GammaTypeOK
  <1>4. /\ control' \in [Controls -> Control]
        /\ \A d \in Controls : /\ control'[d].asked = control[d].asked
                                /\ control'[d].phase = IF d = active[h] THEN "failed" ELSE control[d].phase
    BY <1>1, GammaAssumption DEF GammaInd, GammaTypeOK, Control
  <1>5. /\ pendingGamma' \in [Heads -> Ramps \cup {Linear, NoChange}]
        /\ \A k \in Heads : pendingGamma'[k] = IF k = h THEN NoChange ELSE pendingGamma[k]
    BY <1>1 DEF GammaInd, GammaTypeOK
  <1>6. \A k \in Heads : active[k] # Free => active[k] \in Controls
    BY DEF GammaInd, GammaTypeOK
  <1>7. \A k \in Heads : k # h => Due(k)' = Due(k) /\ Wanted(k)' = Wanted(k) /\ (Sure(k)' <=> Sure(k))
    BY <1>1, <1>3, <1>4, <1>5, <1>6 DEF Due, Wanted, Sure
  <1>8. RampsKept'
    <2>1. \A k \in Heads : Present(k)' /\ Sure(k)' => Due(k)' = Wanted(k)'
      BY <1>2, <1>7 DEF GammaInd, RampsKept
    <2>2. \A k \in Heads : awake' \/ ~Present(k)' => pendingGamma'[k] = NoChange
      BY <1>1, <1>2, <1>5 DEF GammaInd, RampsKept
    <2>3. awake => \A k \in Heads :
             Present(k)' /\ Crtc(k)' \notin Legacy /\ missed'[k] = "nothing" => lut'[Crtc(k)'] = blob'[k]
      BY <1>1, <1>2 DEF GammaInd, RampsKept
    <2> QED
      BY <1>1, <2>1, <2>2, <2>3 DEF RampsKept
  <1>9. GammaTypeOK'
    BY <1>1, <1>3, <1>4, <1>5 DEF GammaInd, GammaTypeOK
  <1>10. ControlsMatch'
    <2>1. \A k \in Heads : active'[k] # Free => control'[active'[k]].phase = "live" /\ Present(k)'
      BY <1>2, <1>3, <1>4, <1>6 DEF GammaInd, ControlsMatch
    <2>2. \A j, k \in Heads : active'[j] = active'[k] /\ active'[j] # Free => j = k
      BY <1>3 DEF GammaInd, ControlsMatch
    <2>3. \A c \in Controls : control'[c].phase = "live" => \E k \in Heads : active'[k] = c
      BY <1>3, <1>4 DEF GammaInd, ControlsMatch
    <2>4. \A c \in Controls : control'[c].phase = "new" => control'[c].asked = Linear
      BY <1>4 DEF GammaInd, ControlsMatch
    <2> QED
      BY <2>1, <2>2, <2>3, <2>4 DEF ControlsMatch
  <1> QED
    BY <1>8, <1>9, <1>10

\* On the way back every head that is there and not refused gets what was kept
\* for it, or what it had; its CRTC is not another head's.
LEMMA ResumeStep ==
    ASSUME GammaInd, Resume
    PROVE  GammaTypeOK' /\ ControlsMatch' /\ RampsKept'
  <1> DEFINE known(h) == Crtc(h) \notin Legacy \/ pendingGamma[h] # NoChange
             tried == {h \in Heads : Present(h) /\ known(h)}
  <1>0. PICK done \in SUBSET {h \in Heads : Present(h)} :
        /\ lut' = [k \in Crtcs |-> IF \E h \in tried \cap done : Crtc(h) = k
                                   THEN Due(CHOOSE h \in tried \cap done : Crtc(h) = k)
                                   ELSE lut[k]]
        /\ blob' = [h \in Heads |-> IF h \in done THEN Due(h) ELSE blob[h]]
        /\ missed' = [h \in Heads |->
               IF h \notin tried THEN missed[h]
               ELSE IF pendingGamma[h] # NoChange
                    THEN IF h \in done THEN "nothing" ELSE "ramp"
               ELSE IF missed[h] = "ramp" THEN "ramp"
               ELSE IF h \in done THEN "nothing" ELSE "lut"]
        /\ pendingGamma' = [h \in Heads |-> IF Present(h) THEN NoChange ELSE pendingGamma[h]]
        /\ UNCHANGED <<control, active, size, scene>> /\ awake'
    BY DEF Resume, ResumeGamma, Due
  <1> DEFINE new(k) == IF \E h \in tried \cap done : Crtc(h) = k
                       THEN Due(CHOOSE h \in tried \cap done : Crtc(h) = k)
                       ELSE lut[k]
  <1>1. /\ lut' = [k \in Crtcs |-> new(k)]
        /\ blob' = [h \in Heads |-> IF h \in done THEN Due(h) ELSE blob[h]]
        /\ pendingGamma' = [h \in Heads |-> IF Present(h) THEN NoChange ELSE pendingGamma[h]]
        /\ UNCHANGED <<control, active, size, scene>> /\ awake'
    BY <1>0
  <1>2. \A h \in Heads : (Present(h)' <=> Present(h)) /\ Crtc(h)' = Crtc(h)
    BY <1>1 DEF Present, Crtc
  <1>3. \A h \in Heads : Due(h) \in Ramps \cup {Linear}
    BY DEF GammaInd, GammaTypeOK, Due
  <1>4. ASSUME NEW h \in tried \cap done
        PROVE  (CHOOSE j \in tried \cap done : Crtc(j) = Crtc(h)) = h
    BY <1>4, CrtcLemma DEF GammaInd
  <1>5. \A k \in Crtcs : new(k) \in Lut
    <2>1. ASSUME NEW k \in Crtcs, NEW h \in tried \cap done, Crtc(h) = k
          PROVE  new(k) \in Lut
      BY <1>3, <1>4, <2>1 DEF Lut
    <2>2. ASSUME NEW k \in Crtcs, ~\E h \in tried \cap done : Crtc(h) = k
          PROVE  new(k) \in Lut
      BY <2>2 DEF GammaInd, GammaTypeOK
    <2> QED
      BY <2>1, <2>2
  <1>6. GammaTypeOK'
    <2>1. blob' \in [Heads -> Ramps \cup {Linear}]
      BY <1>1, <1>3 DEF GammaInd, GammaTypeOK
    <2>2. pendingGamma' \in [Heads -> Ramps \cup {Linear, NoChange}]
      BY <1>1 DEF GammaInd, GammaTypeOK
    <2>3. lut' \in [Crtcs -> Lut]
      <3> HIDE DEF new
      <3> QED BY <1>1, <1>5
    <2>4. missed' \in [Heads -> Missed]
      BY <1>0 DEF GammaInd, GammaTypeOK, Missed
    <2> QED
      BY <1>1, <2>1, <2>2, <2>3, <2>4 DEF GammaInd, GammaTypeOK
  <1>7. ASSUME NEW h \in Heads, Present(h), Sure(h)'
        PROVE  Sure(h) /\ Due(h)' = Due(h)
    <2>1. Due(h)' = blob'[h] /\ missed'[h] # "ramp"
      BY <1>1, <1>7 DEF Due, Sure
    <2>2. CASE h \in done
      <3>1. Due(h)' = Due(h)
        BY <1>1, <2>1, <2>2
      <3>2. Sure(h)
        BY <1>0, <1>7, <2>1, <2>2 DEF Sure
      <3> QED
        BY <3>1, <3>2
    <2>3. CASE h \notin done
      <3>1. pendingGamma[h] = NoChange /\ missed[h] # "ramp"
        BY <1>0, <1>7, <2>1, <2>3
      <3> QED
        BY <1>1, <2>1, <2>3, <3>1 DEF Due, Sure
    <2> QED
      BY <2>2, <2>3
  <1>8. \A h \in Heads : Wanted(h)' = Wanted(h)
    BY <1>1 DEF Wanted
  <1>9. \A h \in Heads : Present(h) /\ Crtc(h) \notin Legacy /\ missed'[h] = "nothing" =>
           lut'[Crtc(h)] = blob'[h]
    <2>1. \A h \in Heads : Crtc(h) \in Crtcs
      BY CrtcLemma DEF GammaInd
    <2>2. ASSUME NEW h \in Heads, Present(h), Crtc(h) \notin Legacy, missed'[h] = "nothing"
          PROVE  h \in tried \cap done /\ new(Crtc(h)) = Due(h)
      <3>1. h \in tried \cap done
        BY <1>0, <2>2
      <3>2. (CHOOSE j \in tried \cap done : Crtc(j) = Crtc(h)) = h
        BY <1>4, <3>1
      <3> QED
        BY <3>1, <3>2
    <2> HIDE DEF new
    <2> QED
      BY <1>1, <2>1, <2>2
  <1>10. \A h \in Heads : pendingGamma'[h] = NoChange
    BY <1>1 DEF GammaInd, RampsKept
  <1>11. RampsKept'
    BY <1>1, <1>2, <1>7, <1>8, <1>9, <1>10 DEF GammaInd, RampsKept
  <1>12. ControlsMatch'
    BY <1>1, <1>2 DEF GammaInd, ControlsMatch
  <1> QED
    BY <1>6, <1>11, <1>12

\* The other steps leave the ramps alone, or leave the seat.
LEMMA QuietGammaStep ==
    ASSUME GammaInd,
           \/ UNCHANGED vars \/ LockOrUnlock \/ Pause
           \/ \E t \in Targets : Resize(t)
           \/ \E w \in Windows : Rescale(w)
           \/ \E h \in Heads : Redraw(h)
           \/ UNCHANGED <<heads, gamma>>
    PROVE  GammaTypeOK' /\ ControlsMatch' /\ RampsKept'
  <1>1. CASE UNCHANGED <<size, scene, awake, gamma>>
    BY <1>1 DEF GammaInd, GammaTypeOK, ControlsMatch, RampsKept, gamma, Present, Crtc, Due, Wanted, Sure
  <1>2. CASE Pause
    <2>1. UNCHANGED <<size, scene, control, active, pendingGamma, blob, missed>> /\ ~awake'
          /\ lut' = [k \in Crtcs |-> Foreign]
      BY <1>2 DEF Pause, PauseGamma
    <2>2. lut' \in [Crtcs -> Lut]
      BY <2>1 DEF Lut
    <2>3. \A h \in Heads : /\ Present(h)' <=> Present(h)
                           /\ Crtc(h)' = Crtc(h) /\ Due(h)' = Due(h) /\ Wanted(h)' = Wanted(h)
                           /\ Sure(h)' <=> Sure(h)
      BY <2>1 DEF Present, Crtc, Due, Wanted, Sure
    <2> QED
      BY <2>1, <2>2, <2>3 DEF GammaInd, GammaTypeOK, ControlsMatch, RampsKept
  <1>3. ASSUME NEW t \in Targets, Resize(t) \/ (t \in Windows /\ Rescale(t))
        PROVE  GammaTypeOK' /\ ControlsMatch' /\ RampsKept'
    <2>1. PICK s \in Sizes \cup IF t \in Windows THEN {"gone"} ELSE {} :
              size' = [size EXCEPT ![t] = s]
      BY <1>3 DEF Resize, Rescale
    <2>2. UNCHANGED <<awake, scene, gamma>> /\ (Present(t) \/ t \in Windows)
      BY <1>3 DEF Resize, Rescale
    <2>3. \A h \in Heads : (Present(h)' <=> Present(h)) /\ Crtc(h)' = Crtc(h)
      BY <2>1, <2>2, HeadsAssumption DEF GammaInd, HeadsTypeOK, Present, Targets, Crtc
    <2>4. \A h \in Heads : Due(h)' = Due(h) /\ Wanted(h)' = Wanted(h) /\ (Sure(h)' <=> Sure(h))
      BY <2>2 DEF gamma, Due, Wanted, Sure
    <2> QED
      <3>1. UNCHANGED <<control, active, pendingGamma, blob, lut, missed>>
        BY <2>2 DEF gamma
      <3>2. GammaTypeOK'
        BY <3>1 DEF GammaInd, GammaTypeOK
      <3>3. ControlsMatch'
        BY <2>3, <3>1 DEF GammaInd, ControlsMatch
      <3>4. RampsKept'
        BY <2>2, <2>3, <2>4, <3>1 DEF GammaInd, RampsKept
      <3> QED
        BY <3>2, <3>3, <3>4
  <1>4. UNCHANGED vars \/ LockOrUnlock \/ (\E h \in Heads : Redraw(h)) \/ UNCHANGED <<heads, gamma>>
           => UNCHANGED <<size, scene, awake, gamma>>
    BY DEF vars, heads, LockOrUnlock, Redraw
  <1> QED
    BY <1>1, <1>2, <1>3, <1>4 DEF Targets

LEMMA GammaStep ==
    ASSUME GammaInd, [Next]_vars
    PROVE  GammaInd'
  <1>1. HeadsTypeOK'
    BY HeadsStep DEF GammaInd
  <1>2. CASE Clients
    <2>1. CASE GammaNext /\ UNCHANGED heads
      BY <2>1, ControlDestroyedStep, GetGammaControlStep, ClientSetsGammaStep, <1>1 DEF GammaNext, GammaInd
    <2>2. CASE UNCHANGED <<heads, gamma>>
      BY <1>1, <2>2, QuietGammaStep DEF GammaInd
    <2> QED
      BY <1>2, <2>1, <2>2 DEF Clients
  <1>3. CASE \E h \in Heads : Plug(h) \/ Unplug(h)
    BY <1>1, <1>3, PlugStep, UnplugStep DEF GammaInd
  <1>4. CASE Resume
    BY <1>1, <1>4, ResumeStep DEF GammaInd
  <1>5. CASE \/ UNCHANGED vars \/ LockOrUnlock \/ Pause
             \/ \E t \in Targets : Resize(t)
             \/ \E w \in Windows : Rescale(w)
             \/ \E h \in Heads : Redraw(h)
    BY <1>1, <1>5, QuietGammaStep DEF GammaInd
  <1> QED
    BY <1>2, <1>3, <1>4, <1>5 DEF Next

\* Ramps, controls and LUTs stay together through hotplug, failures and
\* switches of the seat.
THEOREM GammaInvariant == Spec => []GammaInd
  <1> QED
    BY GammaStart, GammaStep, PTL DEF Spec

\* On screen a head shows the ramp of its live control, or none, and a control
\* is live exactly while it is that of a head.
THEOREM GammaSafe == Spec => []GammaInv
  <1>1. GammaInd => GammaInv
    <2> SUFFICES ASSUME GammaInd PROVE GammaInv
      OBVIOUS
    <2>1. GammaFollowsControl
      <3> SUFFICES ASSUME awake, NEW h \in Heads, Present(h), Crtc(h) \notin Legacy,
                          missed[h] = "nothing"
                   PROVE  lut[Crtc(h)] = Wanted(h)
        BY DEF GammaFollowsControl, Wanted
      <3>1. lut[Crtc(h)] = blob[h] /\ Due(h) = blob[h] /\ Due(h) = Wanted(h)
        BY DEF GammaInd, RampsKept, Due, Sure
      <3> QED
        BY <3>1
    <2>2. OneLiveControl
      <3> SUFFICES ASSUME NEW c \in Controls
                   PROVE  (control[c].phase = "live")
                             <=> Cardinality({h \in Heads : active[h] = c /\ Present(h)}) = 1
        BY DEF OneLiveControl
      <3> DEFINE S == {h \in Heads : active[h] = c /\ Present(h)}
      <3>0. c # Free
        BY GammaAssumption
      <3>1. CASE control[c].phase = "live"
        <4>1. PICK h \in Heads : active[h] = c
          BY <3>1 DEF GammaInd, ControlsMatch
        <4>2. S = {h}
          BY <3>0, <4>1 DEF GammaInd, ControlsMatch
        <4> QED
          BY <3>1, <4>2, FS_Singleton
      <3>2. CASE control[c].phase # "live"
        <4>1. S = {}
          BY <3>0, <3>2 DEF GammaInd, ControlsMatch
        <4> QED
          BY <3>2, <4>1, FS_EmptySet
      <3> QED
        BY <3>1, <3>2
    <2> QED
      BY <2>1, <2>2 DEF GammaInv
  <1> QED
    BY <1>1, GammaInvariant, PTL

-----------------------------------------------------------------------------
(* Capture sessions and their frames.                                      *)

LEMMA ImageCopyStart == Init => ImageCopyInd
  <1> SUFFICES ASSUME Init PROVE ImageCopyInd
    OBVIOUS
  <1>1. HeadsTypeOK
    BY HeadsStart
  <1>2. /\ session = [s \in Sessions |-> [phase |-> "new", target |-> "none", size |-> "none"]]
        /\ shot = [c \in Shots |-> [phase |-> "new", session |-> "none", size |-> "none",
                                    shows |-> "nothing"]]
        /\ pendingCapture = <<>> /\ rescaled = {}
    BY DEF Init, ImageCopyInit
  <1>3. ImageCopyTypeOK
    BY <1>2 DEF ImageCopyTypeOK, Session, Shot
  <1>4. SessionsCurrent /\ ShotsTyped
    BY <1>2 DEF SessionsCurrent, ShotsTyped
  <1>5. ShotsQueuedOnce
    BY <1>2 DEF ShotsQueuedOnce
  <1> QED
    BY <1>1, <1>3, <1>4, <1>5 DEF ImageCopyInd

\* refresh_capture_sessions, whatever the sizes become.
LEMMA RefreshLemma ==
    ASSUME ImageCopyInd, RefreshSessions(size'), UNCHANGED <<shot, pendingCapture>>
    PROVE  ImageCopyTypeOK' /\ SessionsCurrent' /\ ShotsQueuedOnce' /\ ShotsTyped'
  <1>1. \A s \in Sessions :
           session'[s] = IF session[s].phase # "live" THEN session[s]
                         ELSE IF size'[session[s].target] \in Sizes
                              THEN [session[s] EXCEPT !.size = size'[session[s].target]]
                              ELSE [session[s] EXCEPT !.phase = "stopped"]
    BY DEF RefreshSessions
  <1>2. ASSUME NEW s \in Sessions
        PROVE  /\ session'[s] \in Session /\ session'[s].target = session[s].target
               /\ session[s].phase = "new" <=> session'[s].phase = "new"
               /\ session'[s].phase = "live" =>
                     /\ size'[session[s].target] \in Sizes
                     /\ session'[s].size = size'[session[s].target]
    <2> DEFINE x == session[s]
               z == size'[x.target]
    <2>1. x \in Session
      BY DEF ImageCopyInd, ImageCopyTypeOK
    <2>2. session'[s] = IF x.phase # "live" THEN x
                        ELSE IF z \in Sizes THEN [x EXCEPT !.size = z]
                             ELSE [x EXCEPT !.phase = "stopped"]
      BY <1>1
    <2> HIDE DEF z
    <2>3. CASE x.phase # "live"
      BY <2>1, <2>2, <2>3 DEF z
    <2>4. CASE x.phase = "live" /\ z \in Sizes
      BY <2>1, <2>2, <2>4 DEF z, Session
    <2>5. CASE x.phase = "live" /\ z \notin Sizes
      BY <2>1, <2>2, <2>5 DEF z, Session
    <2> QED
      BY <2>3, <2>4, <2>5
  <1>3. session' \in [Sessions -> Session]
    BY <1>2 DEF RefreshSessions
  <1>4. ImageCopyTypeOK'
    BY <1>3 DEF ImageCopyInd, ImageCopyTypeOK, RefreshSessions
  <1>5. SessionsCurrent'
    BY <1>2 DEF SessionsCurrent, Present
  <1>6. ShotsTyped'
    BY <1>2 DEF ImageCopyInd, ShotsTyped
  <1>7. ShotsQueuedOnce'
    BY DEF ImageCopyInd, ShotsQueuedOnce
  <1> QED
    BY <1>4, <1>5, <1>6, <1>7

LEMMA NewSessionStep ==
    ASSUME ImageCopyInd, NEW s \in Sessions, NEW t \in scene.targets, NewSession(s, t), UNCHANGED heads
    PROVE  ImageCopyTypeOK' /\ SessionsCurrent' /\ ShotsQueuedOnce' /\ ShotsTyped'
  <1>1. t \in Targets /\ UNCHANGED <<size, shot, pendingCapture, rescaled>> /\ session[s].phase = "new"
    BY HeadsAssumption DEF ImageCopyInd, HeadsTypeOK, AnyScene, Targets, NewSession, heads
  <1> DEFINE x == [phase |-> IF Present(t) THEN "live" ELSE "refused",
                   target |-> t, size |-> ConstraintsFor(t)]
  <1>2. /\ x \in Session /\ x.target = t /\ x.phase # "new"
        /\ x.phase = "live" => Present(t) /\ x.size = size[t]
    BY <1>1 DEF Session, ConstraintsFor, Present
  <1>3. session' = [session EXCEPT ![s] = x]
    BY DEF NewSession
  <1> HIDE DEF x
  <1>4. /\ session' \in [Sessions -> Session] /\ session'[s] = x
        /\ \A r \in Sessions \ {s} : session'[r] = session[r]
    BY <1>2, <1>3 DEF ImageCopyInd, ImageCopyTypeOK
  <1>5. ImageCopyTypeOK'
    BY <1>1, <1>4 DEF ImageCopyInd, ImageCopyTypeOK
  <1>6. SessionsCurrent'
    BY <1>1, <1>2, <1>4 DEF ImageCopyInd, SessionsCurrent, Present
  <1>7. ShotsTyped'
    BY <1>1, <1>2, <1>4 DEF ImageCopyInd, ShotsTyped
  <1>8. ShotsQueuedOnce'
    BY <1>1 DEF ImageCopyInd, ShotsQueuedOnce
  <1> QED
    BY <1>5, <1>6, <1>7, <1>8

LEMMA SessionDestroyedStep ==
    ASSUME ImageCopyInd, NEW s \in Sessions, SessionDestroyed(s), UNCHANGED heads
    PROVE  ImageCopyTypeOK' /\ SessionsCurrent' /\ ShotsQueuedOnce' /\ ShotsTyped'
  <1>1. /\ UNCHANGED <<size, shot, pendingCapture, rescaled>> /\ session[s].phase # "new"
        /\ session' = [session EXCEPT ![s].phase = "closed"]
    BY DEF SessionDestroyed, heads
  <1>2. /\ session' \in [Sessions -> Session]
        /\ session'[s].phase = "closed" /\ session'[s].target = session[s].target
        /\ \A r \in Sessions \ {s} : session'[r] = session[r]
    BY <1>1 DEF ImageCopyInd, ImageCopyTypeOK, Session
  <1>3. ImageCopyTypeOK'
    BY <1>1, <1>2 DEF ImageCopyInd, ImageCopyTypeOK
  <1>4. SessionsCurrent'
    BY <1>1, <1>2 DEF ImageCopyInd, SessionsCurrent, Present
  <1>5. ShotsTyped'
    BY <1>1, <1>2 DEF ImageCopyInd, ShotsTyped
  <1>6. ShotsQueuedOnce'
    BY <1>1 DEF ImageCopyInd, ShotsQueuedOnce
  <1> QED
    BY <1>3, <1>4, <1>5, <1>6

LEMMA CaptureShotStep ==
    ASSUME ImageCopyInd, NEW c \in Shots, NEW s \in Sessions, NEW b \in Sizes,
           CaptureShot(c, s, b), UNCHANGED heads
    PROVE  ImageCopyTypeOK' /\ SessionsCurrent' /\ ShotsQueuedOnce' /\ ShotsTyped'
  <1> DEFINE p == pendingCapture
             x == [shot[c] EXCEPT !.phase = "asked", !.session = s, !.size = b]
  <1>1. /\ UNCHANGED <<size, session, rescaled>> /\ shot[c].phase = "new" /\ session[s].phase = "live"
        /\ shot' = [shot EXCEPT ![c] = x]
        /\ pendingCapture' = Append(p, c)
    BY DEF CaptureShot, heads
  <1>2. x \in Shot /\ x.phase = "asked" /\ x.session = s
    BY DEF ImageCopyInd, ImageCopyTypeOK, Shot
  <1> HIDE DEF x
  <1>3. /\ shot' \in [Shots -> Shot] /\ shot'[c] = x
        /\ \A d \in Shots \ {c} : shot'[d] = shot[d]
    BY <1>1, <1>2 DEF ImageCopyInd, ImageCopyTypeOK
  <1>4. p \in Seq(Shots) /\ \A i \in 1 .. Len(p) : p[i] \in Shots /\ p[i] # c
    BY <1>1 DEF ImageCopyInd, ImageCopyTypeOK, ShotsQueuedOnce
  <1>5. /\ Append(p, c) \in Seq(Shots) /\ Len(Append(p, c)) = Len(p) + 1
        /\ \A i \in 1 .. Len(p) : Append(p, c)[i] = p[i]
        /\ Append(p, c)[Len(p) + 1] = c /\ Len(p) \in Nat
    BY <1>4
  <1>6. ImageCopyTypeOK'
    BY <1>1, <1>3, <1>5 DEF ImageCopyInd, ImageCopyTypeOK
  <1>7. SessionsCurrent'
    BY <1>1 DEF ImageCopyInd, SessionsCurrent, Present
  <1>8. ShotsTyped'
    BY <1>1, <1>2, <1>3 DEF ImageCopyInd, ShotsTyped
  <1>9. ShotsQueuedOnce'
    <2> DEFINE q == Append(p, c)
    <2> HIDE DEF q
    <2>1. /\ pendingCapture' = q /\ Len(q) = Len(p) + 1 /\ Len(p) \in Nat
          /\ \A i \in 1 .. Len(p) : q[i] = p[i]
          /\ q[Len(p) + 1] = c
      BY <1>1, <1>5 DEF q
    <2>2. \A i \in 1 .. Len(q) : i \in 1 .. Len(p) \/ i = Len(p) + 1
      BY <2>1
    <2>3. \A i, j \in 1 .. Len(q) : q[i] = q[j] => i = j
      BY <1>4, <2>1, <2>2 DEF ImageCopyInd, ShotsQueuedOnce
    <2>4. ASSUME NEW d \in Shots
          PROVE  (shot'[d].phase = "asked") <=> \E i \in 1 .. Len(q) : q[i] = d
      <3>1. CASE d = c
        BY <1>2, <1>3, <2>1, <3>1
      <3>2. CASE d # c
        <4>1. (\E i \in 1 .. Len(q) : q[i] = d) <=> \E i \in 1 .. Len(p) : p[i] = d
          BY <2>1, <2>2, <3>2
        <4> QED
          BY <1>3, <3>2, <4>1 DEF ImageCopyInd, ShotsQueuedOnce
      <3> QED
        BY <3>1, <3>2
    <2> QED
      BY <2>1, <2>3, <2>4 DEF ShotsQueuedOnce
  <1> QED
    BY <1>6, <1>7, <1>8, <1>9

\* complete_capture_frames empties the queue and answers all that was in it.
LEMMA CompleteStep ==
    ASSUME ImageCopyInd, CompleteCaptureFrames, UNCHANGED heads
    PROVE  ImageCopyTypeOK' /\ SessionsCurrent' /\ ShotsQueuedOnce' /\ ShotsTyped'
  <1> DEFINE due == {pendingCapture[i] : i \in 1 .. Len(pendingCapture)}
  <1>1. /\ UNCHANGED <<size, session, rescaled>> /\ pendingCapture' = <<>>
    BY DEF CompleteCaptureFrames, heads
  <1>2. PICK answer \in [due -> {"ready", "constraints", "unknown", "stopped"}] :
              shot' = [c \in Shots |->
                    IF c \notin due THEN shot[c]
                    ELSE [shot[c] EXCEPT !.phase = answer[c],
                                         !.shows = IF answer[c] = "ready" THEN Shows(c) ELSE @]]
    BY DEF CompleteCaptureFrames
  <1>3. \A c \in Shots : (shot[c].phase = "asked") <=> c \in due
    BY DEF ImageCopyInd, ShotsQueuedOnce
  <1> HIDE DEF due
  <1>4. ASSUME NEW c \in Shots
        PROVE  shot'[c] \in Shot /\ shot'[c].phase # "asked"
    <2> DEFINE v == IF answer[c] = "ready" THEN Shows(c) ELSE shot[c].shows
               x == [shot[c] EXCEPT !.phase = answer[c], !.shows = v]
    <2>1. shot[c] \in Shot
      BY DEF ImageCopyInd, ImageCopyTypeOK
    <2>2. CASE c \notin due
      BY <1>2, <1>3, <2>1, <2>2
    <2>3. CASE c \in due
      <3>1. v \in {"nothing", "session", "locked"}
        BY <2>1 DEF Shows, Shot
      <3>2. shot'[c] = x
        BY <1>2, <2>3
      <3>3. answer[c] \in {"ready", "constraints", "unknown", "stopped"}
        BY <2>3
      <3> HIDE DEF v
      <3> QED
        BY <2>1, <3>1, <3>2, <3>3 DEF Shot
    <2> QED
      BY <2>2, <2>3
  <1>5. shot' \in [Shots -> Shot]
    BY <1>2, <1>4
  <1>6. ImageCopyTypeOK'
    BY <1>1, <1>5 DEF ImageCopyInd, ImageCopyTypeOK
  <1>7. SessionsCurrent'
    BY <1>1 DEF ImageCopyInd, SessionsCurrent, Present
  <1>8. ShotsTyped' /\ ShotsQueuedOnce'
    BY <1>1, <1>4 DEF ImageCopyInd, ShotsTyped, ShotsQueuedOnce
  <1> QED
    BY <1>6, <1>7, <1>8

\* A window that changes size unheard is noted in rescaled.
LEMMA RescaleStep ==
    ASSUME ImageCopyInd, NEW w \in Windows, Rescale(w)
    PROVE  ImageCopyTypeOK' /\ SessionsCurrent' /\ ShotsQueuedOnce' /\ ShotsTyped'
  <1>1. PICK z \in Sizes : size' = [size EXCEPT ![w] = z]
    BY DEF Rescale
  <1>2. UNCHANGED <<session, shot, pendingCapture>> /\ rescaled' = rescaled \cup {w} /\ Present(w)
    BY DEF Rescale
  <1>3. w \in Targets /\ size \in [Targets -> Sizes \cup {"new", "gone"}]
    BY DEF ImageCopyInd, HeadsTypeOK, Targets
  <1>4. size'[w] = z /\ \A t \in Targets \ {w} : size'[t] = size[t]
    BY <1>1, <1>3
  <1>5. ImageCopyTypeOK'
    BY <1>2 DEF ImageCopyInd, ImageCopyTypeOK
  <1>6. ShotsTyped' /\ ShotsQueuedOnce'
    BY <1>2 DEF ImageCopyInd, ShotsTyped, ShotsQueuedOnce
  <1>7. SessionsCurrent'
    <2> SUFFICES ASSUME NEW s \in Sessions, session[s].phase = "live"
                 PROVE  /\ size'[session[s].target] \in Sizes
                        /\ session[s].target \notin rescaled' =>
                               session[s].size = size'[session[s].target]
      BY <1>2 DEF SessionsCurrent, Present
    <2>1. session[s].target \in Targets
      BY DEF ImageCopyInd, ImageCopyTypeOK, ShotsTyped, SessionsCurrent, Present, Session
    <2> QED
      BY <1>2, <1>4, <2>1 DEF ImageCopyInd, SessionsCurrent, Present
  <1> QED
    BY <1>5, <1>6, <1>7

LEMMA ImageCopyStep ==
    ASSUME ImageCopyInd, [Next]_vars
    PROVE  ImageCopyInd'
  <1>1. HeadsTypeOK'
    BY HeadsStep DEF ImageCopyInd
  <1>2. CASE UNCHANGED <<size, imagecopy>>
    <2>1. UNCHANGED <<size, session, shot, pendingCapture, rescaled>>
      BY <1>2 DEF imagecopy
    <2>2. ImageCopyTypeOK' /\ SessionsCurrent' /\ ShotsTyped'
      BY <2>1 DEF ImageCopyInd, ImageCopyTypeOK, SessionsCurrent, ShotsTyped, Present
    <2>3. ShotsQueuedOnce'
      BY <2>1 DEF ImageCopyInd, ShotsQueuedOnce
    <2> QED
      BY <1>1, <2>2, <2>3 DEF ImageCopyInd
  <1>3. CASE RefreshSessions(size') /\ UNCHANGED <<shot, pendingCapture>>
    BY <1>1, <1>3, RefreshLemma DEF ImageCopyInd
  <1>4. CASE CompleteCaptureFrames /\ UNCHANGED heads
    BY <1>1, <1>4, CompleteStep DEF ImageCopyInd
  <1>5. CASE ImageCopyNext /\ UNCHANGED heads
    BY <1>1, <1>5, NewSessionStep, SessionDestroyedStep, CaptureShotStep DEF ImageCopyInd, ImageCopyNext
  <1>6. \A h \in Heads : /\ Redraw(h) => CompleteCaptureFrames /\ UNCHANGED heads
                         /\ Plug(h) \/ Unplug(h) => RefreshSessions(size') /\ UNCHANGED <<shot, pendingCapture>>
    BY DEF Redraw, Plug, Unplug
  <1>7. \A t \in Targets : Resize(t) => RefreshSessions(size') /\ UNCHANGED <<shot, pendingCapture>>
    BY DEF Resize
  <1>10. CASE \E w \in Windows : Rescale(w)
    BY <1>1, <1>10, RescaleStep DEF ImageCopyInd
  <1>8. LockOrUnlock \/ Pause \/ Resume \/ UNCHANGED vars => UNCHANGED <<size, imagecopy>>
    BY DEF LockOrUnlock, Pause, Resume, vars, heads
  <1>9. Clients => (ImageCopyNext /\ UNCHANGED heads) \/ UNCHANGED <<size, imagecopy>>
    BY DEF Clients, heads
  <1> QED
    BY <1>2, <1>3, <1>4, <1>5, <1>6, <1>7, <1>8, <1>9, <1>10 DEF Next

\* Capture sessions stay current and their frames queued once, whoever resizes,
\* unplugs, closes or redraws.
THEOREM ImageCopyInvariant == Spec => []ImageCopyInd
  <1> QED
    BY ImageCopyStart, ImageCopyStep, PTL DEF Spec

\* A frame that becomes ready while the session is locked does not show the
\* session, even when it was asked for before the lock.
THEOREM LockedSceneTheorem == Spec => LockedSceneCaptured
  <1> DEFINE Hidden == \A c \in Shots : shot[c].phase = "asked" /\ shot'[c].phase = "ready" /\ locked
                                          => shot'[c].shows # "session"
  <1>1. ASSUME ImageCopyInd, Next, NEW c \in Shots,
               shot[c].phase = "asked", shot'[c].phase = "ready", locked
        PROVE  shot'[c].shows # "session"
    <2>1. CASE CompleteCaptureFrames
      <3> DEFINE due == {pendingCapture[i] : i \in 1 .. Len(pendingCapture)}
      <3>1. PICK answer \in [due -> {"ready", "constraints", "unknown", "stopped"}] :
              shot' = [d \in Shots |->
                    IF d \notin due THEN shot[d]
                    ELSE [shot[d] EXCEPT !.phase = answer[d],
                                         !.shows = IF answer[d] = "ready" THEN Shows(d) ELSE @]]
        BY <2>1 DEF CompleteCaptureFrames
      <3>2. c \in due
        BY <1>1 DEF ImageCopyInd, ShotsQueuedOnce
      <3>3. Shows(c) # "session"
        BY <1>1 DEF Shows
      <3> HIDE DEF due
      <3> DEFINE v == IF answer[c] = "ready" THEN Shows(c) ELSE shot[c].shows
      <3>4. shot'[c] = [shot[c] EXCEPT !.phase = answer[c], !.shows = v]
        BY <3>1, <3>2
      <3>5. shot[c] \in Shot
        BY <1>1 DEF ImageCopyInd, ImageCopyTypeOK
      <3> HIDE DEF v
      <3>6. shot'[c].phase = answer[c] /\ shot'[c].shows = v
        BY <3>4, <3>5 DEF Shot
      <3> QED
        BY <1>1, <3>3, <3>6 DEF v
    <2>2. CASE UNCHANGED shot
      BY <1>1, <2>2
    <2>3. ASSUME NEW d \in Shots, NEW s \in Sessions, NEW b \in Sizes, CaptureShot(d, s, b)
          PROVE  FALSE
      <3>1. shot[d] \in Shot /\ shot \in [Shots -> Shot]
        BY <1>1 DEF ImageCopyInd, ImageCopyTypeOK
      <3>2. shot' = [shot EXCEPT ![d] = [shot[d] EXCEPT !.phase = "asked", !.session = s, !.size = b]]
        BY <2>3 DEF CaptureShot
      <3>3. c # d => shot'[c] = shot[c]
        BY <3>1, <3>2
      <3>4. c = d => shot'[c].phase = "asked"
        BY <3>1, <3>2 DEF Shot
      <3> QED
        BY <1>1, <3>3, <3>4
    <2>4. \/ CompleteCaptureFrames \/ UNCHANGED shot
          \/ \E d \in Shots, s \in Sessions, b \in Sizes : CaptureShot(d, s, b)
      BY <1>1 DEF Next, Redraw, Plug, Unplug, Resize, Rescale, LockOrUnlock, Pause, Resume, Clients,
                  imagecopy, ImageCopyNext, NewSession, SessionDestroyed
    <2> QED
      BY <2>1, <2>2, <2>3, <2>4
  <1>2. ImageCopyInd /\ [Next]_vars => [Hidden]_vars
    BY <1>1
  <1> QED
    BY <1>2, ImageCopyInvariant, PTL DEF Spec, LockedSceneCaptured

-----------------------------------------------------------------------------
(* Screencopy's queues.                                                    *)

LEMMA TailLemma ==
    ASSUME NEW S, NEW s \in Seq(S), s # <<>>, Distinct(s)
    PROVE  /\ Head(s) \in S /\ In(s, Head(s))
           /\ Tail(s) \in Seq(S) /\ Distinct(Tail(s))
           /\ \A f : In(Tail(s), f) <=> In(s, f) /\ f # Head(s)
  <1>1. Len(s) \in Nat \ {0} /\ Head(s) = s[1] /\ s[1] \in S
    OBVIOUS
  <1>2. /\ Tail(s) \in Seq(S) /\ Len(Tail(s)) = Len(s) - 1
        /\ \A i \in 1 .. Len(s) - 1 : Tail(s)[i] = s[i + 1]
    OBVIOUS
  <1>3. Distinct(Tail(s))
    BY <1>1, <1>2 DEF Distinct
  <1>4. ASSUME NEW f, In(Tail(s), f)
        PROVE  In(s, f) /\ f # Head(s)
    BY <1>1, <1>2, <1>4 DEF In, Distinct
  <1>5. ASSUME NEW f, In(s, f), f # Head(s)
        PROVE  In(Tail(s), f)
    <2>1. PICK i \in 1 .. Len(s) : s[i] = f
      BY <1>5 DEF In
    <2>2. i - 1 \in 1 .. Len(s) - 1 /\ (i - 1) + 1 = i
      BY <1>1, <1>5, <2>1
    <2> QED
      BY <1>2, <2>1, <2>2 DEF In
  <1>6. In(s, Head(s))
    BY <1>1 DEF In
  <1> QED
    BY <1>1, <1>2, <1>3, <1>4, <1>5, <1>6

LEMMA AppendLemma ==
    ASSUME NEW S, NEW s \in Seq(S), NEW g \in S, Distinct(s), ~In(s, g)
    PROVE  /\ Append(s, g) \in Seq(S) /\ Append(s, g) # <<>> /\ Distinct(Append(s, g))
           /\ \A f : In(Append(s, g), f) <=> In(s, f) \/ f = g
  <1> DEFINE u == Append(s, g)
  <1>1. /\ u \in Seq(S) /\ Len(u) = Len(s) + 1 /\ Len(s) \in Nat
        /\ \A i \in 1 .. Len(s) : u[i] = s[i]
        /\ u[Len(s) + 1] = g
    OBVIOUS
  <1> HIDE DEF u
  <1>2. \A i \in 1 .. Len(u) : i \in 1 .. Len(s) \/ i = Len(s) + 1
    BY <1>1
  <1>3. \A f : In(u, f) <=> In(s, f) \/ f = g
    <2>1. \A f : In(u, f) => In(s, f) \/ f = g
      BY <1>1, <1>2 DEF In
    <2>2. \A f : In(s, f) => In(u, f)
      BY <1>1 DEF In
    <2>3. In(u, g)
      BY <1>1 DEF In
    <2> QED
      BY <2>1, <2>2, <2>3
  <1>4. Distinct(u)
    <2> SUFFICES ASSUME NEW i \in 1 .. Len(u), NEW j \in 1 .. Len(u), u[i] = u[j]
                 PROVE  i = j
      BY DEF Distinct
    <2>1. CASE i \in 1 .. Len(s) /\ j \in 1 .. Len(s)
      BY <1>1, <2>1 DEF Distinct
    <2>2. i \in 1 .. Len(s) => s[i] # g
      BY DEF In
    <2>3. j \in 1 .. Len(s) => s[j] # g
      BY DEF In
    <2> QED
      BY <1>1, <1>2, <2>1, <2>2, <2>3
  <1>5. u # <<>>
    BY <1>1
  <1> QED
    BY <1>1, <1>3, <1>4, <1>5 DEF u

LEMMA RetainDistinct ==
    ASSUME NEW S, NEW s \in Seq(S), NEW kept, Distinct(s)
    PROVE  /\ Retain(s, kept) \in Seq(S) /\ Distinct(Retain(s, kept))
           /\ \A f : In(Retain(s, kept), f) <=> In(s, f) /\ f \in kept
  <1> DEFINE u == Retain(s, kept)
  <1>1. /\ u \in Seq(S)
        /\ \A f : (\E n \in 1 .. Len(u) : u[n] = f) <=> f \in kept /\ \E i \in 1 .. Len(s) : s[i] = f
        /\ (\A i, j \in 1 .. Len(s) : s[i] = s[j] => i = j)
              => \A m, n \in 1 .. Len(u) : u[m] = u[n] => m = n
    BY RetainLemma
  <1> HIDE DEF u
  <1>2. Distinct(u) /\ \A f : In(u, f) <=> In(s, f) /\ f \in kept
    BY <1>1 DEF Distinct, In
  <1> QED
    BY <1>1, <1>2 DEF u

\* Telling a frame something, and settling its copy, touch no more than the
\* answer and the fence.
LEMMA TellLemma ==
    ASSUME NEW x \in Frame, NEW what \in {"ready", "failed"}
    PROVE  LET y == Tell(x, what)
           IN  /\ y \in Frame
               /\ y.life = x.life /\ y.manager = x.manager /\ y.head = x.head /\ y.size = x.size
               /\ (y.copied <=> x.copied) /\ (y.fence <=> x.fence)
               /\ x.life = "alive" /\ x.told = "none" => y.told = what
  BY DEF Tell, Frame

LEMMA SettledLemma ==
    ASSUME NEW x \in Frame, NEW o \in Outcomes
    PROVE  LET y == Settled(x, o)
           IN  /\ y \in Frame
               /\ y.life = x.life /\ y.manager = x.manager /\ y.head = x.head /\ y.size = x.size
               /\ (y.copied <=> x.copied)
               /\ x.life = "alive" /\ x.told = "none" /\ ~x.fence => Informed(y)
  <1>1. CASE o = "submitted"
    <2>1. Settled(x, o) = Tell(x, "ready")
      BY <1>1 DEF Settled
    <2> QED
      BY <2>1, TellLemma DEF Informed
  <1>2. CASE o = "dropped"
    <2>1. Settled(x, o) = Tell(x, "failed")
      BY <1>2 DEF Settled
    <2> QED
      BY <2>1, TellLemma DEF Informed
  <1>3. CASE o = "fenced"
    <2>1. Settled(x, o) = [x EXCEPT !.fence = TRUE]
      BY <1>3 DEF Settled
    <2> QED
      BY <2>1 DEF Frame, Informed
  <1> QED
    BY <1>1, <1>2, <1>3 DEF Outcomes


\* Queue q is what is left of the queue of m without the frames in G.
LeftOf(q, m, G) ==
    /\ q.pending = queue[m].pending \ G
    /\ Distinct(q.waiting)
    /\ \A f \in Frames : In(q.waiting, f) <=> In(queue[m].waiting, f) /\ f \notin G

\* The frames of G leave the queue of m, which may go with them.
Shrunk(m, G) ==
    /\ queue[m] = Nothing => queue'[m] = Nothing
    /\ queue[m] # Nothing =>
          \E q \in Queue :
              /\ LeftOf(q, m, G)
              /\ \/ queue'[m] = q
                 \/ queue'[m] = Nothing /\ IsEmpty(q) /\ manager[m] # "alive"
              /\ manager[m] = "gone" /\ IsEmpty(q) => queue'[m] = Nothing

\* A frame that left the queues is answered or its client is not there.
Released(x) == Owned(x) /\ (x.life = "alive" => x.copied /\ Informed(x))

LEMMA HoldsIn ==
    ASSUME NEW m, NEW f
    PROVE  Holds(m, f) <=> queue[m] # Nothing /\ (f \in queue[m].pending \/ In(queue[m].waiting, f))
  BY DEF Holds, In

LEMMA EmptyLemma ==
    ASSUME NEW q \in Queue
    PROVE  IsEmpty(q) <=> q.pending = {} /\ \A f \in Frames : ~In(q.waiting, f)
  <1>1. q.waiting \in Seq(Frames)
    BY DEF Queue
  <1> DEFINE w == q.waiting
  <1> HIDE DEF w
  <1>2. w \in Seq(Frames) => (w = <<>> <=> \A f \in Frames : ~In(w, f))
    <2> SUFFICES ASSUME w \in Seq(Frames)
                 PROVE  w = <<>> <=> \A f \in Frames : ~In(w, f)
      OBVIOUS
    <2>1. w # <<>> => w[1] \in Frames /\ 1 \in 1 .. Len(w)
      OBVIOUS
    <2>2. w # <<>> => In(w, w[1])
      BY <2>1 DEF In
    <2>3. w = <<>> => \A f \in Frames : ~In(w, f)
      BY DEF In
    <2> QED
      BY <2>1, <2>2, <2>3
  <1> QED
    BY <1>1, <1>2 DEF IsEmpty, w

\* Frames that leave the queues answered leave them sound.
LEMMA ShrinkLemma ==
    ASSUME ScreencopyTypeOK, ScreencopyTypeOK', FramesSound, UNCHANGED manager,
           NEW G \in SUBSET Frames,
           \A m \in Managers : Shrunk(m, G),
           \A f \in Frames \ G : frame'[f] = frame[f],
           \A f \in G : Released(frame'[f])
    PROVE  FramesSound'
  <1>1. \A m \in Managers : /\ queue[m] \in Queue \cup {Nothing} /\ queue'[m] \in Queue \cup {Nothing}
                            /\ manager'[m] = manager[m]
    BY DEF ScreencopyTypeOK
  <1>2. \A f \in Frames : frame[f] \in Frame /\ frame'[f] \in Frame
    BY DEF ScreencopyTypeOK
  <1>3. \A q \in Queue : q # Nothing /\ q.pending \subseteq Frames
    BY ScreencopyAssumption DEF Queue
  <1>4. ASSUME NEW m \in Managers
        PROVE  QueueSound(m)'
    <2>1. QueueSound(m)
      BY DEF FramesSound
    <2>2. CASE queue'[m] = Nothing
      <3>1. queue[m] = Nothing => manager[m] # "alive"
        BY <2>1 DEF QueueSound
      <3>2. queue[m] # Nothing => manager[m] # "alive"
        BY <1>3, <2>2 DEF Shrunk
      <3> QED
        BY <1>1, <2>2, <3>1, <3>2 DEF QueueSound
    <2>3. ASSUME queue'[m] # Nothing
          PROVE  QueueSound(m)'
      <3>1. queue[m] # Nothing
        BY <2>3 DEF Shrunk
      <3>2. PICK q \in Queue : /\ LeftOf(q, m, G) /\ queue'[m] = q
                               /\ manager[m] = "gone" => ~IsEmpty(q)
        BY <2>3, <3>1 DEF Shrunk
      <3>3. \A f \in q.pending : f \in queue[m].pending /\ f \in Frames /\ frame'[f] = frame[f]
        BY <1>3, <3>2 DEF LeftOf
      <3>4. \A f \in Frames : In(q.waiting, f) => In(queue[m].waiting, f) /\ frame'[f] = frame[f]
        BY <3>2 DEF LeftOf
      <3>5. Distinct(q.waiting)
        BY <3>2 DEF LeftOf
      <3> QED
        BY <1>1, <2>1, <2>3, <3>1, <3>2, <3>3, <3>4, <3>5 DEF QueueSound
    <2> QED
      BY <2>2, <2>3
  <1>5. ASSUME NEW f \in G
        PROVE  FrameSound(f)'
    <2>1. Released(frame'[f]) /\ frame'[f] \in Frame /\ f \in Frames
      BY <1>2
    <2>2. \A x : Owned(x)' <=> Owned(x)
      BY DEF Owned
    <2>3. frame'[f].life = "alive" => frame'[f].manager \in Managers
      BY <2>1 DEF Released, Owned
    <2>4. ASSUME NEW m \in Managers
          PROVE  ~Holds(m, f)'
      <3>1. CASE queue'[m] = Nothing
        BY <3>1 DEF Holds
      <3>2. ASSUME queue'[m] # Nothing
            PROVE  ~Holds(m, f)'
        <4>1. PICK q \in Queue : LeftOf(q, m, G) /\ queue'[m] = q
          BY <3>2 DEF Shrunk
        <4>2. f \notin q.pending /\ ~In(q.waiting, f)
          BY <2>1, <4>1 DEF LeftOf
        <4> QED
          BY <4>1, <4>2 DEF Holds, In
      <3> QED
        BY <3>1, <3>2
    <2> QED
      BY <2>1, <2>2, <2>3, <2>4 DEF Released, FrameSound
  <1>6. ASSUME NEW f \in Frames, f \notin G
        PROVE  FrameSound(f)'
    <2>1. frame'[f] = frame[f] /\ FrameSound(f)
      BY <1>6 DEF FramesSound
    <2>2. \A x : Owned(x)' <=> Owned(x)
      BY DEF Owned
    <2>3. CASE frame[f].life # "alive"
      BY <2>1, <2>2, <2>3 DEF FrameSound
    <2>4. ASSUME frame[f].life = "alive"
          PROVE  FrameSound(f)'
      <3>1. PICK m \in Managers : m = frame[f].manager
        BY <2>1, <2>4 DEF FrameSound, Owned
      <3>2. CASE queue[m] = Nothing
        <4>1. queue'[m] = Nothing
          BY <3>1, <3>2 DEF Shrunk
        <4>2. ~Holds(m, f) /\ ~Holds(m, f)'
          BY <3>2, <4>1 DEF Holds
        <4> QED
          BY <2>1, <2>2, <2>4, <3>1, <3>2, <4>2 DEF FrameSound
      <3>3. ASSUME queue[m] # Nothing
            PROVE  FrameSound(f)'
        <4>1. PICK q \in Queue : /\ LeftOf(q, m, G)
                                 /\ \/ queue'[m] = q
                                    \/ queue'[m] = Nothing /\ IsEmpty(q)
          BY <3>1, <3>3 DEF Shrunk
        <4>2. (f \in q.pending <=> f \in queue[m].pending) /\ (In(q.waiting, f) <=> In(queue[m].waiting, f))
          BY <1>6, <4>1 DEF LeftOf
        <4>3. IsEmpty(q) => f \notin q.pending /\ ~In(q.waiting, f)
          BY EmptyLemma
        <4>4. Holds(m, f)' <=> queue'[m] # Nothing /\ (f \in queue'[m].pending \/ In(queue'[m].waiting, f))
          BY DEF Holds, In
        <4>5. Holds(m, f)' <=> Holds(m, f)
          BY <1>3, <3>3, <4>1, <4>2, <4>3, <4>4, HoldsIn
        <4>6. f \in queue[m].pending => queue'[m] # Nothing /\ f \in queue'[m].pending
          BY <1>3, <4>1, <4>2, <4>3
        <4> QED
          BY <2>1, <2>2, <2>4, <3>1, <4>5, <4>6 DEF FrameSound
      <3> QED
        BY <3>2, <3>3
    <2> QED
      BY <2>3, <2>4
  <1> QED
    BY <1>4, <1>5, <1>6 DEF FramesSound


LEMMA FrameKept ==
    ASSUME NEW f, FrameSound(f), frame[f] \in Frame, frame'[f] = frame[f],
           \A m \in Managers : manager[m] # "none" => manager'[m] # "none",
           \A m \in Managers : m = frame[f].manager => queue'[m] = queue[m]
    PROVE  FrameSound(f)'
  <1>1. frame[f].manager \in Managers \cup {Nothing}
    BY DEF Frame
  <1>2. Owned(frame[f])'
    BY <1>1 DEF FrameSound, Owned
  <1>3. ASSUME frame[f].life = "alive"
        PROVE  FrameSound(f)'
    <2>1. PICK m \in Managers : m = frame[f].manager
      BY <1>3 DEF FrameSound, Owned
    <2>2. queue'[m] = queue[m]
      BY <2>1
    <2>3. Holds(m, f)' <=> Holds(m, f)
      BY <2>2 DEF Holds
    <2> QED
      BY <1>2, <2>1, <2>2, <2>3 DEF FrameSound, Informed
  <1> QED
    BY <1>2, <1>3 DEF FrameSound

LEMMA QueueKept ==
    ASSUME NEW m \in Managers, QueueSound(m), queue[m] \in Queue \cup {Nothing},
           queue'[m] = queue[m], manager'[m] = manager[m],
           \A f \in Frames : frame[f].manager = m => frame'[f] = frame[f]
    PROVE  QueueSound(m)'
  <1>1. CASE queue[m] = Nothing
    BY <1>1 DEF QueueSound
  <1>2. CASE queue[m] # Nothing
    <2>1. \A f \in queue[m].pending : f \in Frames
      BY <1>2 DEF Queue
    <2> QED
      BY <1>2, <2>1 DEF QueueSound
  <1> QED
    BY <1>1, <1>2

LEMMA ShrunkKept ==
    ASSUME NEW m \in Managers, QueueSound(m), queue[m] \in Queue \cup {Nothing},
           NEW G \in SUBSET Frames, \A f \in G : frame[f].manager # m,
           \/ queue'[m] = queue[m]
           \/ queue'[m] = IF queue[m] # Nothing /\ manager[m] # "alive" /\ IsEmpty(queue[m])
                          THEN Nothing ELSE queue[m]
    PROVE  Shrunk(m, G)
  <1>1. CASE queue[m] = Nothing
    BY <1>1 DEF Shrunk
  <1>2. CASE queue[m] # Nothing
    <2>1. LeftOf(queue[m], m, G) /\ (manager[m] = "gone" => ~IsEmpty(queue[m]))
      BY <1>2 DEF QueueSound, LeftOf
    <2>2. \/ queue'[m] = queue[m]
          \/ queue'[m] = Nothing /\ IsEmpty(queue[m]) /\ manager[m] # "alive"
      OBVIOUS
    <2> QED
      BY <1>2, <2>1, <2>2 DEF Shrunk
  <1> QED
    BY <1>1, <1>2

\* The copy request takes its frame out of the pending ones.
LEMMA UnpendLemma ==
    ASSUME ScreencopyTypeOK, FramesSound, NEW m \in Managers, NEW f \in Frames,
           frame[f].manager = m, queue[m] # Nothing, f \in queue[m].pending,
           queue' = NotPending(queue, m, f)
    PROVE  queue' \in [Managers -> Queue \cup {Nothing}] /\ \A k \in Managers : Shrunk(k, {f})
  <1> DEFINE q == [queue[m] EXCEPT !.pending = @ \ {f}]
  <1>1. queue[m] \in Queue /\ queue \in [Managers -> Queue \cup {Nothing}]
    BY DEF ScreencopyTypeOK
  <1>2. q \in Queue /\ q.pending = queue[m].pending \ {f} /\ q.waiting = queue[m].waiting
    BY <1>1 DEF Queue
  <1>3. queue' = [queue EXCEPT ![m] = IF IsEmpty(q) /\ manager[m] # "alive" THEN Nothing ELSE q]
    BY DEF NotPending
  <1> HIDE DEF q
  <1>4. QueueSound(m)
    BY DEF FramesSound
  <1>5. LeftOf(q, m, {f})
    <2>1. \A g \in Frames : In(queue[m].waiting, g) => g # f
      BY <1>4 DEF QueueSound
    <2>2. Distinct(queue[m].waiting)
      BY <1>4 DEF QueueSound
    <2> QED
      BY <1>2, <2>1, <2>2 DEF LeftOf
  <1>6. queue'[m] = IF IsEmpty(q) /\ manager[m] # "alive" THEN Nothing ELSE q
    BY <1>1, <1>3
  <1>7. Shrunk(m, {f})
    BY <1>2, <1>5, <1>6 DEF Shrunk
  <1>8. ASSUME NEW k \in Managers, k # m
        PROVE  Shrunk(k, {f})
    <2>1. queue'[k] = queue[k] /\ QueueSound(k) /\ queue[k] \in Queue \cup {Nothing}
      BY <1>1, <1>3, <1>8 DEF FramesSound
    <2> QED
      BY <1>8, <2>1, ShrunkKept
  <1>9. queue' \in [Managers -> Queue \cup {Nothing}]
    BY <1>1, <1>2, <1>3
  <1> QED
    BY <1>7, <1>8, <1>9

LEMMA BindStep ==
    ASSUME ScreencopyTypeOK, FramesSound, NEW m \in Managers, Bind(m)
    PROVE  ScreencopyTypeOK' /\ FramesSound'
  <1>1. /\ manager[m] = "none" /\ manager' = [manager EXCEPT ![m] = "alive"]
        /\ queue' = [queue EXCEPT ![m] = EmptyQueue] /\ UNCHANGED <<frame, seen>>
    BY DEF Bind
  <1>2. EmptyQueue \in Queue /\ EmptyQueue.pending = {} /\ EmptyQueue.waiting = <<>>
    BY DEF EmptyQueue, Queue
  <1>3. ScreencopyTypeOK'
    BY <1>1, <1>2 DEF ScreencopyTypeOK
  <1>4. /\ manager'[m] = "alive" /\ queue'[m] = EmptyQueue
        /\ \A k \in Managers : k # m => manager'[k] = manager[k] /\ queue'[k] = queue[k]
    BY <1>1 DEF ScreencopyTypeOK
  <1>5. QueueSound(m)'
    <2>1. EmptyQueue # Nothing
      BY <1>2, ScreencopyAssumption
    <2>2. Distinct(<<>>) /\ \A f : ~In(<<>>, f)
      BY DEF Distinct, In
    <2> QED
      BY <1>2, <1>4, <2>1, <2>2 DEF QueueSound
  <1>6. \A k \in Managers : k # m => QueueSound(k)'
    <2>1. \A k \in Managers : QueueSound(k) /\ queue[k] \in Queue \cup {Nothing}
      BY DEF FramesSound, ScreencopyTypeOK
    <2> QED
      BY <1>1, <1>4, <2>1, QueueKept
  <1>7. ASSUME NEW f \in Frames
        PROVE  FrameSound(f)'
    <2>1. FrameSound(f) /\ frame[f] \in Frame /\ frame'[f] = frame[f]
      BY <1>1 DEF FramesSound, ScreencopyTypeOK
    <2>2. frame[f].manager # m
      BY <1>1, <2>1, ScreencopyAssumption DEF FrameSound, Owned
    <2>3. \A k \in Managers : manager[k] # "none" => manager'[k] # "none"
      BY <1>4
    <2>4. \A k \in Managers : k = frame[f].manager => queue'[k] = queue[k]
      BY <1>4, <2>2
    <2> QED
      BY <2>1, <2>3, <2>4, FrameKept
  <1> QED
    BY <1>3, <1>5, <1>6, <1>7 DEF FramesSound

\* The connection of a client, or a protocol error, ends all of its objects.
LEMMA DieStep ==
    ASSUME ScreencopyTypeOK, FramesSound, NEW m \in Managers, Die(m), UNCHANGED <<queue, seen>>
    PROVE  ScreencopyTypeOK' /\ FramesSound'
  <1>1. /\ manager' = [manager EXCEPT ![m] = IF @ = "alive" THEN "dead" ELSE @]
        /\ frame' = [f \in Frames |-> IF frame[f].manager = m /\ frame[f].life = "alive"
                                      THEN [frame[f] EXCEPT !.life = "dead"] ELSE frame[f]]
    BY DEF Die
  <1>2. \A f \in Frames : frame[f] \in Frame
    BY DEF ScreencopyTypeOK
  <1>3. \A f \in Frames :
          /\ frame'[f] \in Frame
          /\ frame'[f].manager = frame[f].manager /\ frame'[f].head = frame[f].head
          /\ frame'[f].size = frame[f].size /\ frame'[f].told = frame[f].told
          /\ (frame'[f].copied <=> frame[f].copied) /\ (frame'[f].fence <=> frame[f].fence)
          /\ \/ frame'[f] = frame[f]
             \/ frame[f].life = "alive" /\ frame'[f].life = "dead"
    <2> SUFFICES ASSUME NEW f \in Frames
                 PROVE  /\ frame'[f] \in Frame
                        /\ frame'[f].manager = frame[f].manager /\ frame'[f].head = frame[f].head
                        /\ frame'[f].size = frame[f].size /\ frame'[f].told = frame[f].told
                        /\ (frame'[f].copied <=> frame[f].copied) /\ (frame'[f].fence <=> frame[f].fence)
                        /\ \/ frame'[f] = frame[f]
                           \/ frame[f].life = "alive" /\ frame'[f].life = "dead"
      OBVIOUS
    <2>1. frame'[f] = IF frame[f].manager = m /\ frame[f].life = "alive"
                      THEN [frame[f] EXCEPT !.life = "dead"] ELSE frame[f]
      BY <1>1
    <2> DEFINE x == frame[f]
               y == frame'[f]
    <2>2. x \in Frame /\ (y = x \/ (x.life = "alive" /\ y = [x EXCEPT !.life = "dead"]))
      BY <1>2, <2>1
    <2> HIDE DEF x, y
    <2>3. /\ y \in Frame /\ y.manager = x.manager /\ y.head = x.head
          /\ y.size = x.size /\ y.told = x.told /\ (y.copied <=> x.copied) /\ (y.fence <=> x.fence)
          /\ y = x \/ (x.life = "alive" /\ y.life = "dead")
      BY <2>2 DEF Frame
    <2> QED
      BY <2>3 DEF x, y
  <1>4. ScreencopyTypeOK'
    <2>1. manager' \in [Managers -> {"none", "alive", "dead", "gone"}]
      BY <1>1 DEF ScreencopyTypeOK
    <2>2. frame' \in [Frames -> Frame]
      BY <1>1, <1>3
    <2> QED
      BY <2>1, <2>2 DEF ScreencopyTypeOK
  <1>5. \A k \in Managers : manager'[k] = manager[k] \/ (manager[k] = "alive" /\ manager'[k] = "dead")
    BY <1>1 DEF ScreencopyTypeOK
  <1>6. ASSUME NEW k \in Managers
        PROVE  QueueSound(k)'
    <2>1. QueueSound(k) /\ queue'[k] = queue[k]
      BY DEF FramesSound
    <2>2. CASE queue[k] = Nothing
      BY <1>5, <2>1, <2>2 DEF QueueSound
    <2>3. CASE queue[k] # Nothing
      <3>1. queue[k] \in Queue
        BY <2>3 DEF ScreencopyTypeOK
      <3>2. \A f \in queue[k].pending : f \in Frames
        BY <3>1 DEF Queue
      <3> QED
        BY <1>3, <1>5, <2>1, <2>3, <3>2 DEF QueueSound
    <2> QED
      BY <2>2, <2>3
  <1>7. ASSUME NEW f \in Frames
        PROVE  FrameSound(f)'
    <2>1. FrameSound(f) /\ frame[f] \in Frame
      BY <1>2 DEF FramesSound
    <2>2. \A k \in Managers : manager[k] # "none" => manager'[k] # "none"
      BY <1>5
    <2>3. CASE frame'[f] = frame[f]
      BY <2>1, <2>2, <2>3, FrameKept
    <2>4. CASE frame[f].life = "alive" /\ frame'[f].life = "dead"
      <3>1. Owned(frame[f]) /\ frame[f].manager \in Managers /\ frame[f].head \in Heads
        BY <2>1, <2>4 DEF FrameSound, Owned
      <3>2. manager'[frame[f].manager] # "none"
        BY <2>2, <3>1, ScreencopyAssumption DEF Owned
      <3>3. Owned(frame[f])'
        BY <1>3, <2>4, <3>1, <3>2 DEF Owned
      <3> QED
        BY <2>4, <3>3 DEF FrameSound
    <2> QED
      BY <1>3, <2>3, <2>4
  <1> QED
    BY <1>4, <1>6, <1>7 DEF FramesSound


LEMMA DropManagerStep ==
    ASSUME ScreencopyTypeOK, FramesSound, NEW m \in Managers, DropManager(m)
    PROVE  ScreencopyTypeOK' /\ FramesSound'
  <1>1. /\ manager[m] \in {"alive", "dead"} /\ manager' = [manager EXCEPT ![m] = "gone"]
        /\ queue' = [queue EXCEPT ![m] = IF @ # Nothing /\ IsEmpty(@) THEN Nothing ELSE @]
        /\ UNCHANGED <<frame, seen>>
    BY DEF DropManager
  <1>2. ScreencopyTypeOK'
    BY <1>1 DEF ScreencopyTypeOK
  <1>3. /\ manager'[m] = "gone"
        /\ queue'[m] = IF queue[m] # Nothing /\ IsEmpty(queue[m]) THEN Nothing ELSE queue[m]
        /\ \A k \in Managers : k # m => manager'[k] = manager[k] /\ queue'[k] = queue[k]
    BY <1>1 DEF ScreencopyTypeOK
  <1>4. ASSUME NEW k \in Managers
        PROVE  QueueSound(k)'
    <2>1. QueueSound(k) /\ queue[k] \in Queue \cup {Nothing}
      BY DEF FramesSound, ScreencopyTypeOK
    <2>2. CASE k # m
      BY <1>1, <1>3, <2>1, <2>2, QueueKept
    <2>3. CASE k = m /\ queue'[k] = Nothing
      BY <1>3, <2>3 DEF QueueSound
    <2>4. CASE k = m /\ queue'[k] # Nothing
      <3>1. queue'[k] = queue[k] /\ queue[k] # Nothing /\ ~IsEmpty(queue[k])
        BY <1>3, <2>4
      <3> QED
        BY <1>1, <1>3, <2>1, <2>4, <3>1 DEF QueueSound
    <2> QED
      BY <2>2, <2>3, <2>4
  <1>5. ASSUME NEW f \in Frames
        PROVE  FrameSound(f)'
    <2>1. FrameSound(f) /\ frame[f] \in Frame /\ frame'[f] = frame[f]
      BY <1>1 DEF FramesSound, ScreencopyTypeOK
    <2>2. \A k \in Managers : manager[k] # "none" => manager'[k] # "none"
      BY <1>3
    <2>3. CASE \A k \in Managers : k = frame[f].manager => queue'[k] = queue[k]
      BY <2>1, <2>2, <2>3, FrameKept
    <2>4. CASE frame[f].manager = m /\ queue[m] # Nothing /\ IsEmpty(queue[m]) /\ queue'[m] = Nothing
      <3>1. ~Holds(m, f)
        BY <2>4 DEF Holds, IsEmpty
      <3>2. ~Holds(m, f)'
        BY <2>4 DEF Holds
      <3>3. f \notin queue[m].pending
        BY <2>4 DEF IsEmpty
      <3>4. Owned(frame[f])'
        BY <1>3, <2>1, <2>4, ScreencopyAssumption DEF FrameSound, Owned
      <3> QED
        BY <2>1, <2>4, <3>1, <3>2, <3>3, <3>4 DEF FrameSound, Informed
    <2> QED
      BY <1>3, <2>3, <2>4
  <1> QED
    BY <1>2, <1>4, <1>5 DEF FramesSound

LEMMA FenceSignalledStep ==
    ASSUME ScreencopyTypeOK, FramesSound, NEW f \in Frames, FenceSignalled(f)
    PROVE  ScreencopyTypeOK' /\ FramesSound'
  <1> DEFINE x == [frame[f] EXCEPT !.fence = FALSE]
  <1>0. PICK y : y = Tell(x, "ready")
    OBVIOUS
  <1>1. /\ frame[f].fence /\ UNCHANGED <<manager, queue, seen>>
        /\ frame' = [frame EXCEPT ![f] = y]
    BY <1>0 DEF FenceSignalled
  <1>2. frame[f] \in Frame /\ frame \in [Frames -> Frame]
    BY DEF ScreencopyTypeOK
  <1>3. /\ x \in Frame /\ ~x.fence
        /\ x.life = frame[f].life /\ x.manager = frame[f].manager /\ x.head = frame[f].head
        /\ x.size = frame[f].size /\ x.told = frame[f].told /\ (x.copied <=> frame[f].copied)
    BY <1>2 DEF Frame
  <1> HIDE DEF x
  <1>4. /\ y \in Frame /\ ~y.fence
        /\ y.life = frame[f].life /\ y.manager = frame[f].manager /\ y.head = frame[f].head
        /\ y.size = frame[f].size /\ (y.copied <=> frame[f].copied)
        /\ frame[f].life = "alive" /\ frame[f].told = "none" => y.told = "ready"
    BY <1>0, <1>3, TellLemma
  <1>5. frame'[f] = y /\ \A g \in Frames : g # f => frame'[g] = frame[g]
    BY <1>1, <1>2
  <1>6. ScreencopyTypeOK'
    BY <1>1, <1>2, <1>4 DEF ScreencopyTypeOK
  <1>7. ASSUME NEW k \in Managers
        PROVE  QueueSound(k)'
    <2>1. QueueSound(k) /\ queue'[k] = queue[k] /\ manager'[k] = manager[k]
      BY <1>1 DEF FramesSound
    <2>2. CASE queue[k] = Nothing
      BY <2>1, <2>2 DEF QueueSound
    <2>3. CASE queue[k] # Nothing
      <3>1. queue[k] \in Queue
        BY <2>3 DEF ScreencopyTypeOK
      <3>2. \A g \in queue[k].pending : g \in Frames
        BY <3>1 DEF Queue
      <3>3. ~In(queue[k].waiting, f)
        BY <1>1, <2>1, <2>3 DEF QueueSound
      <3> QED
        BY <1>4, <1>5, <2>1, <2>3, <3>2, <3>3 DEF QueueSound
    <2> QED
      BY <2>2, <2>3
  <1>8. \A g \in Frames : g # f => FrameSound(g)'
    <2>1. \A g \in Frames : FrameSound(g) /\ frame[g] \in Frame
      BY DEF FramesSound, ScreencopyTypeOK
    <2> QED
      BY <1>1, <1>5, <2>1, FrameKept
  <1>9. FrameSound(f)'
    <2>1. FrameSound(f)
      BY DEF FramesSound
    <2>2. Owned(y)'
      BY <1>1, <1>4, <2>1 DEF FrameSound, Owned
    <2>3. CASE frame[f].life # "alive"
      BY <1>4, <1>5, <2>2, <2>3 DEF FrameSound
    <2>4. CASE frame[f].life = "alive"
      <3>1. frame[f].copied /\ ~Holds(frame[f].manager, f) /\ Informed(frame[f])
        BY <1>1, <2>1, <2>4 DEF FrameSound
      <3>2. frame[f].told = "none"
        BY <1>1, <3>1 DEF Informed
      <3>3. Holds(frame[f].manager, f)' <=> Holds(y.manager, f)
        BY <1>1, <1>5 DEF Holds
      <3>4. Informed(y)
        BY <1>4, <2>4, <3>2 DEF Informed
      <3>5. Informed(frame[f])'
        BY <1>5, <3>4 DEF Informed
      <3> QED
        BY <1>4, <1>5, <2>2, <3>1, <3>3, <3>5 DEF FrameSound
    <2> QED
      BY <2>3, <2>4
  <1> QED
    BY <1>6, <1>7, <1>8, <1>9 DEF FramesSound

LEMMA CaptureOutputStep ==
    ASSUME ScreencopyTypeOK, FramesSound, HeadsTypeOK,
           NEW m \in Managers, NEW f \in Frames, NEW h \in Heads, CaptureOutput(m, f, h)
    PROVE  ScreencopyTypeOK' /\ FramesSound'
  <1> DEFINE made == [NoFrame EXCEPT !.life = "alive", !.manager = m, !.head = h]
  <1>1. /\ made \in Frame /\ made.life = "alive" /\ made.manager = m /\ made.head = h
        /\ made.size = Nothing /\ made.copied = FALSE /\ made.fence = FALSE /\ made.told = "none"
    BY DEF NoFrame, Frame
  <1>2. PICK s \in Sizes \cup {Nothing} :
          /\ s = Nothing => frame' = [frame EXCEPT ![f] = Tell(made, "failed")] /\ UNCHANGED queue
          /\ s # Nothing => /\ frame' = [frame EXCEPT ![f] = [made EXCEPT !.size = s]]
                            /\ queue' = [queue EXCEPT ![m].pending = @ \cup {f}]
    <2>1. CASE frame' = [frame EXCEPT ![f] = Tell(made, "failed")] /\ UNCHANGED queue
      BY <2>1
    <2>2. CASE \E s \in IF Present(h) THEN {size[h]} ELSE Sizes :
                 /\ frame' = [frame EXCEPT ![f] = [made EXCEPT !.size = s]]
                 /\ queue' = [queue EXCEPT ![m].pending = @ \cup {f}]
      BY <2>2, ScreencopyAssumption DEF Present
    <2> QED
      BY <2>1, <2>2 DEF CaptureOutput
  <1> DEFINE y == IF s = Nothing THEN Tell(made, "failed") ELSE [made EXCEPT !.size = s]
  <1> HIDE DEF made
  <1>3. /\ y \in Frame /\ y.life = "alive" /\ y.manager = m /\ y.head = h
        /\ ~y.copied /\ ~y.fence /\ (s # Nothing => y.told = "none")
        /\ y.size = s
    <2>1. CASE s = Nothing
      BY <1>1, <2>1, TellLemma
    <2>2. CASE s # Nothing
      BY <1>1, <2>2 DEF Frame
    <2> QED
      BY <2>1, <2>2
  <1>4. frame' = [frame EXCEPT ![f] = y]
    BY <1>2
  <1> HIDE DEF y
  <1>5. /\ manager[m] = "alive" /\ frame[f].life = "none" /\ UNCHANGED <<manager, seen>>
    BY DEF CaptureOutput
  <1>6. QueueSound(m) /\ FrameSound(f) /\ queue[m] \in Queue /\ queue[m] # Nothing
    BY <1>5 DEF FramesSound, QueueSound, ScreencopyTypeOK
  <1> DEFINE q == IF s = Nothing THEN queue[m] ELSE [queue[m] EXCEPT !.pending = @ \cup {f}]
  <1>7. /\ q \in Queue /\ q # Nothing /\ q.waiting = queue[m].waiting
        /\ \A g : g \in q.pending <=> g \in queue[m].pending \/ (g = f /\ s # Nothing)
    BY <1>6, ScreencopyAssumption DEF Queue
  <1>8. queue' = [queue EXCEPT ![m] = q]
    BY <1>2 DEF ScreencopyTypeOK
  <1> HIDE DEF q
  <1>9. ScreencopyTypeOK'
    BY <1>3, <1>4, <1>5, <1>7, <1>8 DEF ScreencopyTypeOK
  <1>10. /\ frame'[f] = y /\ queue'[m] = q
         /\ \A g \in Frames : g # f => frame'[g] = frame[g]
         /\ \A k \in Managers : k # m => queue'[k] = queue[k]
    BY <1>4, <1>8 DEF ScreencopyTypeOK
  <1>11. frame[f].manager = Nothing /\ Nothing \notin Managers
    BY <1>5, <1>6, ScreencopyAssumption DEF FrameSound, Owned
  <1>12. \A k \in Managers : k # m => QueueSound(k)'
    <2>1. \A k \in Managers : QueueSound(k) /\ queue[k] \in Queue \cup {Nothing}
      BY DEF FramesSound, ScreencopyTypeOK
    <2> QED
      BY <1>5, <1>10, <1>11, <2>1, QueueKept
  <1>13. QueueSound(m)'
    <2>1. f \notin queue[m].pending /\ ~In(queue[m].waiting, f)
      BY <1>6, <1>11 DEF QueueSound
    <2>2. queue[m].pending \subseteq Frames
      BY <1>6 DEF Queue
    <2>3. \A g \in q.pending :
            frame'[g].manager = m /\ ~frame'[g].copied /\ frame'[g].size # Nothing
      BY <1>3, <1>6, <1>7, <1>10, <2>1, <2>2 DEF QueueSound
    <2> QED
      BY <1>5, <1>6, <1>7, <1>10, <2>1, <2>3 DEF QueueSound
  <1>14. ASSUME NEW g \in Frames, g # f
         PROVE  FrameSound(g)'
    <2>1. FrameSound(g) /\ frame[g] \in Frame /\ frame'[g] = frame[g]
      BY <1>10, <1>14 DEF FramesSound, ScreencopyTypeOK
    <2>2. Owned(frame[g])'
      BY <1>5, <2>1 DEF FrameSound, Owned
    <2>3. CASE frame[g].manager # m
      BY <1>5, <1>10, <2>1, <2>3, FrameKept
    <2>4. CASE frame[g].manager = m
      <3>1. Holds(m, g)' <=> Holds(m, g)
        BY <1>6, <1>7, <1>10, <1>14 DEF Holds
      <3>2. g \in queue[m].pending => queue'[m] # Nothing /\ g \in queue'[m].pending
        BY <1>7, <1>10
      <3> QED
        BY <2>1, <2>2, <2>4, <3>1, <3>2 DEF FrameSound, Informed
    <2> QED
      BY <2>3, <2>4
  <1>15. FrameSound(f)'
    <2>1. Owned(y)'
      BY <1>3, <1>5, <1>11 DEF Owned
    <2> QED
      BY <1>3, <1>7, <1>10, <2>1 DEF FrameSound
  <1> QED
    BY <1>9, <1>12, <1>13, <1>14, <1>15 DEF FramesSound


\* A frame that may still be copied is pending with its manager.
LEMMA RequestLemma ==
    ASSUME ScreencopyTypeOK, FramesSound, NEW f \in Frames, Requestable(f), ~frame[f].copied
    PROVE  /\ frame[f] \in Frame /\ frame[f].life = "alive" /\ frame[f].manager \in Managers
           /\ frame[f].told = "none" /\ ~frame[f].fence /\ Owned(frame[f])
           /\ queue[frame[f].manager] # Nothing /\ queue[frame[f].manager] \in Queue
           /\ f \in queue[frame[f].manager].pending
  <1>1. FrameSound(f) /\ frame[f] \in Frame /\ frame[f].life = "alive" /\ frame[f].size # Nothing
    BY DEF FramesSound, ScreencopyTypeOK, Requestable
  <1>2. frame[f].manager \in Managers
    BY <1>1 DEF FrameSound, Owned
  <1>3. queue[frame[f].manager] # Nothing /\ f \in queue[frame[f].manager].pending
        /\ frame[f].told = "none" /\ ~frame[f].fence
    BY <1>1 DEF FrameSound
  <1> QED
    BY <1>1, <1>2, <1>3 DEF ScreencopyTypeOK, FrameSound

LEMMA CopyAnswered ==
    ASSUME ScreencopyTypeOK, FramesSound, NEW f \in Frames, Requestable(f), ~frame[f].copied,
           NEW o \in Outcomes, UNCHANGED manager,
           seen' \in [Managers -> Heads \cup {Nothing}],
           queue' = NotPending(queue, frame[f].manager, f),
           frame' = [frame EXCEPT ![f] = Settled([frame[f] EXCEPT !.copied = TRUE], o)]
    PROVE  ScreencopyTypeOK' /\ FramesSound'
  <1>1. PICK m \in Managers : m = frame[f].manager
    BY RequestLemma
  <1>2. /\ frame[f] \in Frame /\ frame[f].life = "alive" /\ frame[f].told = "none" /\ ~frame[f].fence
        /\ Owned(frame[f]) /\ queue[m] # Nothing /\ f \in queue[m].pending
    BY <1>1, RequestLemma
  <1> DEFINE x == [frame[f] EXCEPT !.copied = TRUE]
  <1>3. /\ x \in Frame /\ x.copied /\ ~x.fence /\ x.told = "none" /\ x.life = "alive"
        /\ x.manager = frame[f].manager /\ x.head = frame[f].head
    BY <1>2 DEF Frame
  <1>4. frame' = [frame EXCEPT ![f] = Settled(x, o)]
    OBVIOUS
  <1> HIDE DEF x
  <1>5. PICK y : y = Settled(x, o)
    OBVIOUS
  <1>6. y \in Frame /\ y.life = "alive" /\ y.manager = m /\ y.head = frame[f].head /\ y.copied /\ Informed(y)
    BY <1>1, <1>3, <1>5, SettledLemma
  <1>7. /\ frame'[f] = y /\ frame' \in [Frames -> Frame]
        /\ \A g \in Frames \ {f} : frame'[g] = frame[g]
    BY <1>4, <1>5, <1>6 DEF ScreencopyTypeOK
  <1>8. queue' \in [Managers -> Queue \cup {Nothing}] /\ \A k \in Managers : Shrunk(k, {f})
    BY <1>1, <1>2, UnpendLemma
  <1>9. Released(y)
    BY <1>1, <1>2, <1>6 DEF Released, Owned
  <1>10. ScreencopyTypeOK'
    BY <1>7, <1>8 DEF ScreencopyTypeOK
  <1>11. \A g \in {f} : Released(frame'[g])
    BY <1>7, <1>9
  <1>12. {f} \in SUBSET Frames
    OBVIOUS
  <1>13. FramesSound'
    BY <1>7, <1>8, <1>10, <1>11, <1>12, ShrinkLemma
  <1> QED
    BY <1>10, <1>13

LEMMA CopyStep ==
    ASSUME ScreencopyTypeOK, FramesSound, NEW f \in Frames, NEW s \in Sizes, Copy(f, s)
    PROVE  ScreencopyTypeOK' /\ FramesSound'
  <1>1. Requestable(f) /\ ~frame[f].copied /\ UNCHANGED manager
        /\ queue' = NotPending(queue, frame[f].manager, f)
    BY DEF Copy
  <1> DEFINE x == [frame[f] EXCEPT !.copied = TRUE]
  <1>2. PICK o \in IF Present(x.head) THEN Outcomes ELSE {"dropped"} :
          /\ frame' = [frame EXCEPT ![f] = Settled(x, o)]
          /\ \E h \in IF o = "dropped" THEN {Nothing, seen[frame[f].manager]} ELSE {x.head} :
                seen' = [seen EXCEPT ![frame[f].manager] = h]
    BY DEF Copy
  <1>3. o \in Outcomes
    BY <1>2 DEF Outcomes
  <1>4. /\ frame[f] \in Frame /\ frame[f].manager \in Managers
        /\ frame[f].life = "alive" /\ frame[f].head \in Heads
    BY <1>1, RequestLemma DEF Owned
  <1>5. x.head = frame[f].head
    BY <1>4 DEF Frame
  <1>6. seen \in [Managers -> Heads \cup {Nothing}]
    BY DEF ScreencopyTypeOK
  <1>7. seen' \in [Managers -> Heads \cup {Nothing}]
    BY <1>2, <1>4, <1>5, <1>6
  <1> QED
    BY <1>1, <1>2, <1>3, <1>7, CopyAnswered

LEMMA CopyWithDamageStep ==
    ASSUME ScreencopyTypeOK, FramesSound, NEW f \in Frames, NEW s \in Sizes, CopyWithDamage(f, s)
    PROVE  ScreencopyTypeOK' /\ FramesSound'
  <1>1. Requestable(f) /\ ~frame[f].copied /\ frame[f].size = s /\ UNCHANGED <<manager, seen>>
    BY DEF CopyWithDamage
  <1>2. PICK m \in Managers : m = frame[f].manager
    BY <1>1, RequestLemma
  <1>3. PICK x : x = [frame[f] EXCEPT !.copied = TRUE]
    OBVIOUS
  <1>4. CASE ~Present(x.head)
    <2>1. queue' = NotPending(queue, m, f) /\ frame' = [frame EXCEPT ![f] = Settled(x, "dropped")]
      BY <1>2, <1>3, <1>4 DEF CopyWithDamage
    <2>2. "dropped" \in Outcomes /\ seen' \in [Managers -> Heads \cup {Nothing}]
      BY <1>1 DEF Outcomes, ScreencopyTypeOK
    <2> QED
      BY <1>1, <1>2, <1>3, <2>1, <2>2, CopyAnswered
  <1>5. ASSUME Present(x.head)
        PROVE  ScreencopyTypeOK' /\ FramesSound'
    <2>1. /\ frame[f] \in Frame /\ frame[f].life = "alive" /\ frame[f].told = "none"
          /\ ~frame[f].fence /\ Owned(frame[f])
          /\ queue[m] # Nothing /\ queue[m] \in Queue /\ f \in queue[m].pending
      BY <1>1, <1>2, RequestLemma
    <2>2. /\ x \in Frame /\ x.copied /\ ~x.fence /\ x.told = "none" /\ x.life = "alive"
          /\ x.manager = m /\ x.head = frame[f].head /\ x.size # Nothing
      BY <1>1, <1>2, <1>3, <2>1 DEF Frame, Requestable
    <2>3. QueueSound(m) /\ ~In(queue[m].waiting, f) /\ Distinct(queue[m].waiting)
          /\ queue[m].waiting \in Seq(Frames) /\ queue[m].pending \subseteq Frames
      BY <1>1, <2>1 DEF FramesSound, QueueSound, Queue
    <2> DEFINE w == Append(queue[m].waiting, f)
               full == [queue[m] EXCEPT !.waiting = w]
               q == [full EXCEPT !.pending = @ \ {f}]
    <2>4. /\ w \in Seq(Frames) /\ w # <<>> /\ Distinct(w)
          /\ \A g : In(w, g) <=> In(queue[m].waiting, g) \/ g = f
      BY <2>3, AppendLemma
    <2>5. queue' = NotPending([queue EXCEPT ![m] = full], m, f)
      BY <1>2, <1>3, <1>5 DEF CopyWithDamage, ScreencopyTypeOK
    <2> HIDE DEF w
    <2>6. full \in Queue /\ full.pending = queue[m].pending /\ full.waiting = w
      BY <2>1, <2>4 DEF Queue
    <2> HIDE DEF full
    <2>7. q \in Queue /\ q.pending = queue[m].pending \ {f} /\ q.waiting = w
      BY <2>6 DEF Queue
    <2>8. queue' = [queue EXCEPT ![m] = q]
      <3>1. [queue EXCEPT ![m] = full][m] = full
        BY DEF ScreencopyTypeOK
      <3>2. ~IsEmpty(q)
        BY <2>4, <2>7 DEF IsEmpty
      <3>3. queue' = [[queue EXCEPT ![m] = full] EXCEPT ![m] = q]
        BY <2>5, <3>1, <3>2 DEF NotPending
      <3> QED
        BY <3>3 DEF ScreencopyTypeOK
    <2> HIDE DEF q
    <2>9. frame' = [frame EXCEPT ![f] = x]
      BY <1>2, <1>3, <1>5 DEF CopyWithDamage
    <2>10. /\ frame'[f] = x /\ queue'[m] = q
           /\ \A g \in Frames : g # f => frame'[g] = frame[g]
           /\ \A k \in Managers : k # m => queue'[k] = queue[k]
      BY <2>8, <2>9 DEF ScreencopyTypeOK
    <2>11. ScreencopyTypeOK'
      BY <1>1, <2>2, <2>7, <2>8, <2>9 DEF ScreencopyTypeOK
    <2>12. q # Nothing /\ ~IsEmpty(q)
      BY <2>4, <2>7, ScreencopyAssumption DEF IsEmpty
    <2>13. \A k \in Managers : k # m => QueueSound(k)'
      <3>1. \A k \in Managers : QueueSound(k) /\ queue[k] \in Queue \cup {Nothing}
        BY DEF FramesSound, ScreencopyTypeOK
      <3> QED
        BY <1>1, <1>2, <2>10, <3>1, QueueKept
    <2>14. QueueSound(m)'
      <3>1. \A g \in q.pending : g # f /\ frame'[g] = frame[g] /\ g \in queue[m].pending
        BY <2>3, <2>7, <2>10
      <3>2. \A g \in Frames : In(q.waiting, g) => g = f \/ (In(queue[m].waiting, g) /\ frame'[g] = frame[g])
        BY <2>4, <2>7, <2>10
      <3>3. Distinct(q.waiting)
        BY <2>4, <2>7
      <3> QED
        BY <1>1, <2>1, <2>2, <2>3, <2>10, <2>12, <3>1, <3>2, <3>3 DEF QueueSound
    <2>15. ASSUME NEW g \in Frames, g # f
           PROVE  FrameSound(g)'
      <3>1. FrameSound(g) /\ frame[g] \in Frame /\ frame'[g] = frame[g]
        BY <2>10, <2>15 DEF FramesSound, ScreencopyTypeOK
      <3>2. Owned(frame[g])'
        BY <1>1, <3>1 DEF FrameSound, Owned
      <3>3. CASE frame[g].manager # m
        BY <1>1, <2>10, <3>1, <3>3, FrameKept
      <3>4. CASE frame[g].manager = m
        <4>1. Holds(m, g) <=> g \in queue[m].pending \/ In(queue[m].waiting, g)
          BY <2>1, HoldsIn
        <4>2. Holds(m, g)' <=> g \in q.pending \/ In(q.waiting, g)
          BY <2>10, <2>12 DEF Holds, In
        <4>3. Holds(m, g)' <=> Holds(m, g)
          BY <2>4, <2>7, <2>15, <4>1, <4>2
        <4>4. g \in queue[m].pending => queue'[m] # Nothing /\ g \in queue'[m].pending
          BY <2>7, <2>10, <2>12, <2>15
        <4> QED
          BY <3>1, <3>2, <3>4, <4>3, <4>4 DEF FrameSound, Informed
      <3> QED
        BY <3>3, <3>4
    <2>16. FrameSound(f)'
      <3>1. Owned(frame[f])'
        BY <1>1, <1>2, <2>1, <2>2, <2>10 DEF Owned
      <3>2. Holds(m, f)'
        BY <2>4, <2>7, <2>10, <2>12 DEF Holds, In
      <3> QED
        BY <2>2, <2>10, <3>1, <3>2 DEF FrameSound
    <2> QED
      BY <2>11, <2>13, <2>14, <2>15, <2>16 DEF FramesSound
  <1> QED
    BY <1>4, <1>5


\* Retain takes the frames that are not kept out of a waiting queue.
LEMMA RetainQueue ==
    ASSUME ScreencopyTypeOK, FramesSound, NEW m \in Managers, queue[m] # Nothing,
           NEW kept
    PROVE  /\ Retain(queue[m].waiting, kept) \in Seq(Frames)
           /\ Distinct(Retain(queue[m].waiting, kept))
           /\ \A f : In(Retain(queue[m].waiting, kept), f) <=> In(queue[m].waiting, f) /\ f \in kept
  <1>1. queue[m].waiting \in Seq(Frames)
    BY DEF ScreencopyTypeOK, Queue
  <1>2. Distinct(queue[m].waiting)
    BY DEF FramesSound, QueueSound
  <1> QED
    BY <1>1, <1>2, RetainDistinct

LEMMA DropFrameStep ==
    ASSUME ScreencopyTypeOK, FramesSound, NEW f \in Frames, DropFrame(f)
    PROVE  ScreencopyTypeOK' /\ FramesSound'
  <1>1. /\ frame[f].life \in {"alive", "dead"} /\ UNCHANGED <<manager, seen>>
        /\ frame' = [frame EXCEPT ![f] = [NoFrame EXCEPT !.life = "gone", !.fence = frame[f].fence]]
    BY DEF DropFrame
  <1>2. frame[f] \in Frame /\ FrameSound(f)
    BY DEF ScreencopyTypeOK, FramesSound
  <1>3. PICK m \in Managers : m = frame[f].manager
    BY <1>1, <1>2 DEF FrameSound, Owned
  <1>4. PICK y : y = [NoFrame EXCEPT !.life = "gone", !.fence = frame[f].fence]
    OBVIOUS
  <1>5. y \in Frame /\ y.life = "gone" /\ y.manager = Nothing
    BY <1>2, <1>4 DEF NoFrame, Frame
  <1>6. /\ frame'[f] = y /\ frame' \in [Frames -> Frame]
        /\ \A g \in Frames \ {f} : frame'[g] = frame[g]
    BY <1>1, <1>4, <1>5 DEF ScreencopyTypeOK
  <1>7. Released(y)
    BY <1>5 DEF Released, Owned
  <1>8. queue \in [Managers -> Queue \cup {Nothing}] /\ \A k \in Managers : QueueSound(k)
    BY DEF ScreencopyTypeOK, FramesSound
  <1>9. CASE queue[m] = Nothing \/ frame[f].size = Nothing
    <2>1. UNCHANGED queue
      BY <1>3, <1>9 DEF DropFrame
    <2>2. \A k \in Managers : k # m => Shrunk(k, {f})
      BY <1>3, <1>8, <2>1, ShrunkKept
    <2>3. Shrunk(m, {f})
      <3>1. CASE queue[m] = Nothing
        BY <2>1, <3>1 DEF Shrunk
      <3>2. CASE queue[m] # Nothing
        <4>1. queue[m] \in Queue /\ f \notin queue[m].pending /\ ~In(queue[m].waiting, f)
              /\ (manager[m] = "gone" => ~IsEmpty(queue[m])) /\ Distinct(queue[m].waiting)
          BY <1>8, <1>9, <3>2 DEF QueueSound
        <4>2. LeftOf(queue[m], m, {f})
          BY <4>1 DEF LeftOf
        <4> QED
          BY <2>1, <3>2, <4>1, <4>2 DEF Shrunk
      <3> QED
        BY <3>1, <3>2
    <2> QED
      <3>1. ScreencopyTypeOK'
        BY <1>1, <1>6, <2>1 DEF ScreencopyTypeOK
      <3>2. \A k \in Managers : Shrunk(k, {f})
        BY <2>2, <2>3
      <3>3. \A g \in {f} : Released(frame'[g])
        BY <1>6, <1>7
      <3>4. {f} \in SUBSET Frames
        OBVIOUS
      <3> QED
        BY <1>1, <1>6, <3>1, <3>2, <3>3, <3>4, ShrinkLemma
  <1>10. ASSUME queue[m] # Nothing, frame[f].size # Nothing
         PROVE  ScreencopyTypeOK' /\ FramesSound'
    <2> DEFINE q == [pending |-> queue[m].pending \ {f},
                     waiting |-> Retain(queue[m].waiting, Frames \ {f})]
    <2>1. queue' = [queue EXCEPT ![m] = IF IsEmpty(q) /\ manager[m] # "alive" THEN Nothing ELSE q]
      BY <1>3, <1>10 DEF DropFrame
    <2>2. queue[m] \in Queue
      BY <1>8, <1>10
    <2> DEFINE w == Retain(queue[m].waiting, Frames \ {f})
    <2>3. w \in Seq(Frames) /\ Distinct(w)
          /\ \A g : In(w, g) <=> In(queue[m].waiting, g) /\ g \in Frames \ {f}
      BY <1>10, RetainQueue
    <2> HIDE DEF w
    <2>4. q \in Queue /\ q.pending = queue[m].pending \ {f} /\ q.waiting = w
      BY <2>2, <2>3 DEF Queue, w
    <2> HIDE DEF q
    <2>5. LeftOf(q, m, {f})
      BY <2>3, <2>4 DEF LeftOf
    <2>6. queue'[m] = IF IsEmpty(q) /\ manager[m] # "alive" THEN Nothing ELSE q
      BY <1>8, <2>1
    <2>7. Shrunk(m, {f})
      BY <1>10, <2>4, <2>5, <2>6 DEF Shrunk
    <2>8. \A k \in Managers : k # m => Shrunk(k, {f})
      <3>1. \A k \in Managers : k # m => queue'[k] = queue[k] /\ frame[f].manager # k
        BY <1>3, <1>8, <2>1
      <3>2. \A g \in {f} : g = f
        OBVIOUS
      <3> QED
        BY <1>8, <3>1, <3>2, ShrunkKept
    <2>9. queue' \in [Managers -> Queue \cup {Nothing}]
      BY <1>8, <2>1, <2>4
    <2>10. ScreencopyTypeOK'
      BY <1>1, <1>6, <2>9 DEF ScreencopyTypeOK
    <2>11. \A g \in {f} : Released(frame'[g])
      BY <1>6, <1>7
    <2>12. {f} \in SUBSET Frames
      OBVIOUS
    <2>13. \A k \in Managers : Shrunk(k, {f})
      BY <2>7, <2>8
    <2> QED
      BY <1>1, <1>6, <2>10, <2>11, <2>12, <2>13, ShrinkLemma
  <1> QED
    BY <1>9, <1>10

\* The drawing of an output settles the first frame of the queues that wait for
\* it, each once.
LEMMA RenderQueuedStep ==
    ASSUME ScreencopyTypeOK, FramesSound, NEW h \in Heads, RenderQueued(h)
    PROVE  ScreencopyTypeOK' /\ FramesSound'
  <1> DEFINE S == Served(h)
             first == {Head(queue[m].waiting) : m \in S}
             qs == [m \in Managers |-> IF m \in S THEN [queue[m] EXCEPT !.waiting = Tail(@)]
                                       ELSE queue[m]]
  <1>1. PICK o \in [S -> Outcomes] :
          /\ frame' = [f \in Frames |-> IF f \in first THEN Settled(frame[f], o[frame[f].manager])
                                        ELSE frame[f]]
          /\ queue' = CleanUp(qs)
          /\ seen' = [m \in Managers |-> IF m \notin S THEN seen[m]
                                         ELSE IF o[m] = "dropped" THEN Nothing ELSE h]
          /\ UNCHANGED manager
    BY DEF RenderQueued
  <1>2. /\ S \subseteq Managers
        /\ \A m \in S : queue[m] # Nothing /\ queue[m].waiting # <<>>
    BY DEF Served
  <1> HIDE DEF S
  <1>3. \A m \in Managers : QueueSound(m) /\ queue[m] \in Queue \cup {Nothing}
    BY DEF FramesSound, ScreencopyTypeOK
  <1>4. ASSUME NEW m \in S
        PROVE  /\ queue[m] \in Queue /\ queue[m].waiting \in Seq(Frames)
               /\ Head(queue[m].waiting) \in Frames /\ In(queue[m].waiting, Head(queue[m].waiting))
               /\ Tail(queue[m].waiting) \in Seq(Frames) /\ Distinct(Tail(queue[m].waiting))
               /\ \A f : In(Tail(queue[m].waiting), f)
                            <=> In(queue[m].waiting, f) /\ f # Head(queue[m].waiting)
    <2>1. queue[m] \in Queue /\ queue[m].waiting \in Seq(Frames)
      BY <1>2, <1>3 DEF Queue
    <2>2. Distinct(queue[m].waiting) /\ queue[m].waiting # <<>>
      BY <1>2, <1>3 DEF QueueSound
    <2> QED
      BY <2>1, <2>2, TailLemma
  <1>5. first \subseteq Frames
    BY <1>4
  <1>6. ASSUME NEW f \in first
        PROVE  /\ frame[f].manager \in S /\ f = Head(queue[frame[f].manager].waiting)
               /\ frame[f].copied /\ ~frame[f].fence /\ frame[f].told = "none"
    <2>1. PICK m \in S : f = Head(queue[m].waiting)
      OBVIOUS
    <2>2. In(queue[m].waiting, f) /\ f \in Frames /\ QueueSound(m) /\ queue[m] # Nothing
      BY <1>2, <1>3, <1>4, <2>1
    <2>3. frame[f].manager = m /\ frame[f].copied /\ ~frame[f].fence /\ frame[f].told = "none"
      BY <2>2 DEF QueueSound
    <2> QED
      BY <2>1, <2>3
  <1>7. \A m \in S : Head(queue[m].waiting) \in first
    OBVIOUS
  <1> HIDE DEF first
  <1>8. ASSUME NEW f \in first
        PROVE  frame'[f] \in Frame /\ Released(frame'[f])
    <2>1. f \in Frames /\ frame[f] \in Frame /\ FrameSound(f)
      BY <1>5 DEF ScreencopyTypeOK, FramesSound
    <2>2. PICK x : x = o[frame[f].manager]
      OBVIOUS
    <2>3. x \in Outcomes
      BY <1>1, <1>6, <2>2
    <2>4. frame'[f] = Settled(frame[f], x)
      BY <1>1, <2>1, <2>2
    <2>5. /\ frame'[f] \in Frame /\ frame'[f].life = frame[f].life
          /\ frame'[f].manager = frame[f].manager /\ frame'[f].head = frame[f].head
          /\ (frame'[f].copied <=> frame[f].copied)
          /\ frame[f].life = "alive" => Informed(frame'[f])
      BY <1>6, <2>1, <2>3, <2>4, SettledLemma
    <2>6. Owned(frame'[f])
      BY <2>1, <2>5 DEF FrameSound, Owned
    <2> QED
      BY <1>6, <2>5, <2>6 DEF Released
  <1>9. \A f \in Frames \ first : frame'[f] = frame[f]
    BY <1>1
  <1>10. \A m \in Managers :
           queue'[m] = IF qs[m] # Nothing /\ manager[m] # "alive" /\ IsEmpty(qs[m])
                       THEN Nothing ELSE qs[m]
    BY <1>1 DEF CleanUp
  <1>11. ASSUME NEW m \in Managers, m \notin S
         PROVE  Shrunk(m, first) /\ queue'[m] \in Queue \cup {Nothing}
    <2>1. qs[m] = queue[m]
      BY <1>11
    <2>2. \A f \in first : frame[f].manager # m
      BY <1>6, <1>11
    <2>3. queue'[m] = IF queue[m] # Nothing /\ manager[m] # "alive" /\ IsEmpty(queue[m])
                      THEN Nothing ELSE queue[m]
      BY <1>10, <2>1
    <2>4. Shrunk(m, first)
      BY <1>3, <1>5, <2>2, <2>3, ShrunkKept
    <2> QED
      BY <1>3, <2>3, <2>4
  <1>12. ASSUME NEW m \in S
         PROVE  Shrunk(m, first) /\ queue'[m] \in Queue \cup {Nothing}
    <2> DEFINE w == Tail(queue[m].waiting)
    <2>1. PICK q : q = [queue[m] EXCEPT !.waiting = w]
      OBVIOUS
    <2>2. m \in Managers /\ qs[m] = q
      BY <1>2, <2>1
    <2>3. w \in Seq(Frames) /\ Distinct(w) /\ queue[m] \in Queue
          /\ \A f : In(w, f) <=> In(queue[m].waiting, f) /\ f # Head(queue[m].waiting)
      BY <1>4
    <2> HIDE DEF w
    <2>4. q \in Queue /\ q.pending = queue[m].pending /\ q.waiting = w
      BY <2>1, <2>3 DEF Queue
    <2>5. \A f \in queue[m].pending : f \notin first
      BY <1>2, <1>3, <1>6, <2>2 DEF QueueSound
    <2>6. \A f \in Frames : In(queue[m].waiting, f) => (f \in first <=> f = Head(queue[m].waiting))
      <3>1. \A f \in Frames : In(queue[m].waiting, f) => frame[f].manager = m
        BY <1>2, <1>3, <2>2 DEF QueueSound
      <3> QED
        BY <1>6, <1>7, <3>1
    <2>7. LeftOf(q, m, first)
      BY <2>3, <2>4, <2>5, <2>6 DEF LeftOf
    <2>8. q # Nothing
      BY <2>4, ScreencopyAssumption
    <2>9. queue'[m] = IF manager[m] # "alive" /\ IsEmpty(q) THEN Nothing ELSE q
      BY <1>10, <2>2, <2>8
    <2> QED
      BY <1>2, <2>2, <2>4, <2>7, <2>9 DEF Shrunk
  <1>13. ScreencopyTypeOK'
    <2>1. frame' \in [Frames -> Frame]
      <3>1. \A f \in Frames : frame'[f] \in Frame
        BY <1>8, <1>9 DEF ScreencopyTypeOK
      <3>2. frame' = [f \in Frames |-> frame'[f]]
        BY <1>1
      <3> QED
        BY <3>1, <3>2
    <2>2. queue' \in [Managers -> Queue \cup {Nothing}]
      <3>1. \A m \in Managers : queue'[m] \in Queue \cup {Nothing}
        BY <1>11, <1>12
      <3>2. queue' = [m \in Managers |-> queue'[m]]
        BY <1>1 DEF CleanUp
      <3> QED
        BY <3>1, <3>2
    <2>3. seen' \in [Managers -> Heads \cup {Nothing}]
      BY <1>1 DEF ScreencopyTypeOK
    <2> QED
      BY <1>1, <2>1, <2>2, <2>3 DEF ScreencopyTypeOK
  <1>14. \A m \in Managers : Shrunk(m, first)
    BY <1>11, <1>12
  <1>15. \A f \in first : Released(frame'[f])
    BY <1>8
  <1> QED
    BY <1>1, <1>5, <1>9, <1>13, <1>14, <1>15, ShrinkLemma


\* An output that goes fails the frames that wait for it, and leaves the others.
LEMMA RemoveOutputStep ==
    ASSUME ScreencopyTypeOK, FramesSound, NEW h \in Heads, RemoveOutput(h)
    PROVE  ScreencopyTypeOK' /\ FramesSound'
  <1> DEFINE kept == {f \in Frames : ~(frame[f].head = h)}
             lost == {f \in Frames : /\ frame[f].head = h /\ frame[f].manager # Nothing
                                     /\ Holds(frame[f].manager, f)
                                     /\ f \notin queue[frame[f].manager].pending}
             qs == [m \in Managers |->
                       IF queue[m] = Nothing THEN Nothing
                       ELSE [queue[m] EXCEPT !.waiting = Retain(@, kept)]]
  <1>1. /\ frame' = [f \in Frames |-> IF f \in lost THEN Tell(frame[f], "failed") ELSE frame[f]]
        /\ queue' = CleanUp(qs)
        /\ UNCHANGED <<manager, seen>>
    BY DEF RemoveOutput
  <1>2. \A m \in Managers : QueueSound(m) /\ queue[m] \in Queue \cup {Nothing}
    BY DEF FramesSound, ScreencopyTypeOK
  <1>3. \A f \in Frames : frame[f] \in Frame /\ FrameSound(f) /\ frame[f].manager \in Managers \cup {Nothing}
    BY DEF FramesSound, ScreencopyTypeOK, Frame
  <1>4. ASSUME NEW m \in Managers, queue[m] # Nothing, NEW f \in Frames, In(queue[m].waiting, f)
        PROVE  f \in lost <=> f \notin kept
    <2>1. /\ frame[f].manager = m /\ frame[f].copied
          /\ f \notin queue[m].pending
      BY <1>2, <1>4 DEF QueueSound
    <2>2. Holds(m, f) /\ m # Nothing
      BY <1>4, ScreencopyAssumption DEF Holds, In
    <2> QED
      BY <2>1, <2>2
  <1>5. ASSUME NEW f \in lost
        PROVE  /\ f \in Frames /\ frame[f].manager \in Managers /\ frame[f].copied
               /\ ~frame[f].fence /\ frame[f].told = "none"
               /\ f \notin queue[frame[f].manager].pending
    <2>1. PICK m \in Managers : m = frame[f].manager
      BY <1>3
    <2>2. queue[m] # Nothing /\ In(queue[m].waiting, f) /\ f \in Frames
      BY <2>1 DEF Holds, In
    <2>3. frame[f].copied /\ ~frame[f].fence /\ frame[f].told = "none"
      BY <1>2, <2>2 DEF QueueSound
    <2> QED
      BY <2>1, <2>2, <2>3
  <1> HIDE DEF lost
  <1>6. ASSUME NEW f \in lost
        PROVE  frame'[f] \in Frame /\ Released(frame'[f])
    <2>1. frame'[f] = Tell(frame[f], "failed") /\ frame[f] \in Frame /\ FrameSound(f)
      BY <1>1, <1>3, <1>5
    <2>2. /\ frame'[f] \in Frame /\ frame'[f].life = frame[f].life
          /\ frame'[f].manager = frame[f].manager /\ frame'[f].head = frame[f].head
          /\ (frame'[f].copied <=> frame[f].copied) /\ (frame'[f].fence <=> frame[f].fence)
          /\ frame[f].life = "alive" /\ frame[f].told = "none" => frame'[f].told = "failed"
      BY <2>1, TellLemma
    <2>3. Owned(frame'[f])
      BY <2>1, <2>2 DEF FrameSound, Owned
    <2> QED
      BY <1>5, <2>2, <2>3 DEF Released, Informed
  <1>7. \A f \in Frames \ lost : frame'[f] = frame[f]
    BY <1>1
  <1>8. \A m \in Managers :
          queue'[m] = IF qs[m] # Nothing /\ manager[m] # "alive" /\ IsEmpty(qs[m])
                      THEN Nothing ELSE qs[m]
    BY <1>1 DEF CleanUp
  <1> HIDE DEF kept
  <1>9. ASSUME NEW m \in Managers
        PROVE  Shrunk(m, lost) /\ queue'[m] \in Queue \cup {Nothing}
    <2>1. CASE queue[m] = Nothing
      <3>1. queue'[m] = Nothing
        BY <1>8, <2>1
      <3> QED
        BY <2>1, <3>1 DEF Shrunk
    <2>2. ASSUME queue[m] # Nothing
          PROVE  Shrunk(m, lost) /\ queue'[m] \in Queue \cup {Nothing}
      <3> DEFINE w == Retain(queue[m].waiting, kept)
      <3>1. PICK q : q = [queue[m] EXCEPT !.waiting = w]
        OBVIOUS
      <3>2. qs[m] = q /\ queue[m] \in Queue
        BY <1>2, <2>2, <3>1
      <3>3. w \in Seq(Frames) /\ Distinct(w)
            /\ \A f : In(w, f) <=> In(queue[m].waiting, f) /\ f \in kept
        BY <2>2, RetainQueue
      <3> HIDE DEF w
      <3>4. q \in Queue /\ q.pending = queue[m].pending /\ q.waiting = w
        BY <3>1, <3>2, <3>3 DEF Queue
      <3>5. \A f \in queue[m].pending : f \notin lost
        BY <1>2, <1>5, <2>2 DEF QueueSound
      <3>6. \A f \in Frames : In(queue[m].waiting, f) => (f \in lost <=> f \notin kept)
        BY <1>4, <2>2
      <3>7. LeftOf(q, m, lost)
        BY <3>3, <3>4, <3>5, <3>6 DEF LeftOf
      <3>8. q # Nothing
        BY <3>4, ScreencopyAssumption
      <3>9. queue'[m] = IF manager[m] # "alive" /\ IsEmpty(q) THEN Nothing ELSE q
        BY <1>8, <3>2, <3>8
      <3> QED
        BY <2>2, <3>4, <3>7, <3>9 DEF Shrunk
    <2> QED
      BY <2>1, <2>2
  <1>10. ScreencopyTypeOK'
    <2>1. frame' \in [Frames -> Frame]
      <3>1. \A f \in Frames : frame'[f] \in Frame
        BY <1>3, <1>6, <1>7
      <3>2. frame' = [f \in Frames |-> frame'[f]]
        BY <1>1
      <3> QED
        BY <3>1, <3>2
    <2>2. queue' \in [Managers -> Queue \cup {Nothing}]
      <3>1. queue' = [m \in Managers |-> queue'[m]]
        BY <1>1 DEF CleanUp
      <3> QED
        BY <1>9, <3>1
    <2> QED
      BY <1>1, <2>1, <2>2 DEF ScreencopyTypeOK
  <1>11. lost \in SUBSET Frames
    BY <1>5
  <1>12. \A m \in Managers : Shrunk(m, lost)
    BY <1>9
  <1>13. \A f \in lost : Released(frame'[f])
    BY <1>6
  <1> QED
    BY <1>1, <1>7, <1>10, <1>11, <1>12, <1>13, ShrinkLemma

LEMMA ScreencopyKept ==
    ASSUME ScreencopyTypeOK, FramesSound, UNCHANGED <<manager, queue, frame>>,
           seen' \in [Managers -> Heads \cup {Nothing}]
    PROVE  ScreencopyTypeOK' /\ FramesSound'
  <1>1. ScreencopyTypeOK'
    BY DEF ScreencopyTypeOK
  <1>2. \A m \in Managers : QueueSound(m)'
    <2>1. \A m \in Managers : QueueSound(m)
      BY DEF FramesSound
    <2> QED
      BY <2>1 DEF QueueSound
  <1>3. \A f \in Frames : FrameSound(f)'
    <2>1. \A f \in Frames : FrameSound(f) /\ frame[f] \in Frame
      BY DEF FramesSound, ScreencopyTypeOK
    <2> QED
      BY <2>1, FrameKept
  <1> QED
    BY <1>1, <1>2, <1>3 DEF FramesSound

LEMMA ScreencopyStart ==
    ASSUME Init
    PROVE  ScreencopyInd
  <1>1. /\ manager = [m \in Managers |-> "none"] /\ queue = [m \in Managers |-> Nothing]
        /\ frame = [f \in Frames |-> NoFrame] /\ seen = [m \in Managers |-> Nothing]
    BY DEF Init, ScreencopyInit
  <1>2. /\ NoFrame \in Frame /\ NoFrame.life = "none" /\ NoFrame.manager = Nothing
    BY DEF NoFrame, Frame
  <1>3. ScreencopyTypeOK
    BY <1>1, <1>2 DEF ScreencopyTypeOK
  <1>4. \A m \in Managers : QueueSound(m)
    BY <1>1 DEF QueueSound
  <1>5. \A f \in Frames : FrameSound(f)
    BY <1>1, <1>2 DEF FrameSound, Owned
  <1> QED
    BY <1>3, <1>4, <1>5, HeadsStart DEF ScreencopyInd, FramesSound, Init

LEMMA ScreencopyStep ==
    ASSUME ScreencopyInd, [Next]_vars
    PROVE  ScreencopyInd'
  <1>1. HeadsTypeOK' /\ HeadsTypeOK /\ ScreencopyTypeOK /\ FramesSound
    BY HeadsStep DEF ScreencopyInd
  <1>2. CASE UNCHANGED screencopy
    BY <1>1, <1>2, ScreencopyKept DEF ScreencopyInd, screencopy, ScreencopyTypeOK
  <1>3. CASE seen' = [m \in Managers |-> Nothing] /\ UNCHANGED <<manager, queue, frame>>
    <2>1. seen' \in [Managers -> Heads \cup {Nothing}]
      BY <1>3
    <2> QED
      BY <1>1, <1>3, <2>1, ScreencopyKept DEF ScreencopyInd
  <1>4. ASSUME NEW h \in Heads, RenderQueued(h) \/ RemoveOutput(h)
        PROVE  ScreencopyInd'
    BY <1>1, <1>4, RenderQueuedStep, RemoveOutputStep DEF ScreencopyInd
  <1>5. ASSUME ScreencopyNext
        PROVE  ScreencopyInd'
    <2>1. ASSUME NEW m \in Managers, Bind(m) \/ DropManager(m)
          PROVE  ScreencopyInd'
      BY <1>1, <2>1, BindStep, DropManagerStep DEF ScreencopyInd
    <2>2. ASSUME NEW m \in Managers, Disconnect(m)
          PROVE  ScreencopyInd'
      BY <1>1, <2>2, DieStep DEF ScreencopyInd, Disconnect
    <2>3. ASSUME NEW f \in Frames, FenceSignalled(f) \/ DropFrame(f)
          PROVE  ScreencopyInd'
      BY <1>1, <2>3, FenceSignalledStep, DropFrameStep DEF ScreencopyInd
    <2>4. ASSUME NEW f \in Frames, NEW m \in Managers, NEW h \in Heads, CaptureOutput(m, f, h)
          PROVE  ScreencopyInd'
      BY <1>1, <2>4, CaptureOutputStep DEF ScreencopyInd
    <2>5. ASSUME NEW f \in Frames, NEW s \in Sizes, Copy(f, s) \/ CopyWithDamage(f, s)
          PROVE  ScreencopyInd'
      BY <1>1, <2>5, CopyStep, CopyWithDamageStep DEF ScreencopyInd
    <2>6. ASSUME NEW f \in Frames, NEW s \in Sizes, CopyRefused(f, s)
          PROVE  ScreencopyInd'
      <3>1. FrameSound(f) /\ frame[f].life = "alive"
        BY <1>1, <2>6 DEF FramesSound, CopyRefused, Requestable
      <3>2. frame[f].manager \in Managers
        BY <3>1 DEF FrameSound, Owned
      <3> QED
        BY <1>1, <2>6, <3>2, DieStep DEF ScreencopyInd, CopyRefused
    <2>7. ASSUME NEW h \in Heads, SceneChange(h)
          PROVE  ScreencopyInd'
      <3>1. seen' \in [Managers -> Heads \cup {Nothing}]
        BY <1>1, <2>7 DEF SceneChange, ScreencopyTypeOK
      <3> QED
        BY <1>1, <2>7, <3>1, ScreencopyKept DEF ScreencopyInd, SceneChange
    <2> QED
      BY <1>5, <2>1, <2>2, <2>3, <2>4, <2>5, <2>6, <2>7 DEF ScreencopyNext
  <1>6. \A h \in Heads : /\ Redraw(h) => RenderQueued(h)
                         /\ Unplug(h) => RemoveOutput(h)
                         /\ Plug(h) => UNCHANGED screencopy
    BY DEF Redraw, Unplug, Plug
  <1>7. \A x \in Targets : Resize(x) => /\ seen' = [m \in Managers |-> Nothing]
                                        /\ UNCHANGED <<manager, queue, frame>>
    BY DEF Resize
  <1>11. \A w \in Windows : Rescale(w) => /\ seen' = [m \in Managers |-> Nothing]
                                         /\ UNCHANGED <<manager, queue, frame>>
    BY DEF Rescale
  <1>8. LockOrUnlock => seen' = [m \in Managers |-> Nothing] /\ UNCHANGED <<manager, queue, frame>>
    BY DEF LockOrUnlock
  <1>9. Pause \/ Resume \/ UNCHANGED vars => UNCHANGED screencopy
    BY DEF Pause, Resume, vars
  <1>10. Clients => ScreencopyNext \/ UNCHANGED screencopy
    BY DEF Clients
  <1> QED
    BY <1>2, <1>3, <1>4, <1>5, <1>6, <1>7, <1>8, <1>9, <1>10, <1>11 DEF Next

\* The queues of screencopy and the frames in them agree, whoever disconnects,
\* destroys an object, unplugs an output or redraws.
THEOREM ScreencopyInvariant == Spec => []ScreencopyInd
  <1> QED
    BY ScreencopyStart, ScreencopyStep, PTL DEF Spec

\* A frame whose copy was asked for has one of an answer, a place in a queue and
\* a fence to come.
LEMMA AnsweredOnceLemma ==
    ASSUME ScreencopyInd
    PROVE  FrameAnsweredOnce
  <1> SUFFICES ASSUME NEW f \in Frames, frame[f].life = "alive", frame[f].copied
               PROVE  /\ frame[f].told # "twice"
                      /\ Cardinality({c \in {"told", "queued", "fenced"} :
                            \/ c = "told" /\ frame[f].told # "none"
                            \/ c = "queued" /\ Holds(frame[f].manager, f)
                            \/ c = "fenced" /\ frame[f].fence}) = 1
    BY DEF FrameAnsweredOnce
  <1> DEFINE found == {c \in {"told", "queued", "fenced"} :
                            \/ c = "told" /\ frame[f].told # "none"
                            \/ c = "queued" /\ Holds(frame[f].manager, f)
                            \/ c = "fenced" /\ frame[f].fence}
             held == Holds(frame[f].manager, f)
  <1>1. IF held THEN frame[f].told = "none" /\ ~frame[f].fence ELSE Informed(frame[f])
    BY DEF ScreencopyInd, FramesSound, FrameSound
  <1> HIDE DEF held
  <1>2. CASE held
    <2>1. found = {"queued"}
      BY <1>1, <1>2 DEF held
    <2> HIDE DEF found
    <2>2. Cardinality(found) = 1
      BY <2>1, FS_Singleton
    <2> QED
      BY <1>1, <1>2, <2>2 DEF found
  <1>3. CASE ~held /\ frame[f].told \in {"ready", "failed"} /\ ~frame[f].fence
    <2>1. found = {"told"}
      BY <1>3 DEF held
    <2> HIDE DEF found
    <2>2. Cardinality(found) = 1
      BY <2>1, FS_Singleton
    <2> QED
      BY <1>3, <2>2 DEF found
  <1>4. CASE ~held /\ frame[f].told = "none" /\ frame[f].fence
    <2>1. found = {"fenced"}
      BY <1>4 DEF held
    <2> HIDE DEF found
    <2>2. Cardinality(found) = 1
      BY <2>1, FS_Singleton
    <2> QED
      BY <1>4, <2>2 DEF found
  <1> QED
    BY <1>1, <1>2, <1>3, <1>4 DEF Informed

\* Whoever asks for a picture is answered once: copies, capture sessions and
\* their shots, under every order of requests, destructors, redraws, unplugs and
\* changes of size.
THEOREM CopiesTheorem == Spec => []CopiesAnswered
  <1>1. ScreencopyInd => QueueOutlivesFrames
    <2> SUFFICES ASSUME ScreencopyInd
                 PROVE  QueueOutlivesFrames
      OBVIOUS
    <2>1. \A f \in Frames : Requestable(f) /\ ~frame[f].copied =>
            queue[frame[f].manager] # Nothing /\ f \in queue[frame[f].manager].pending
      BY RequestLemma DEF ScreencopyInd
    <2>2. \A m \in Managers : queue[m] # Nothing /\ manager[m] = "gone" => ~IsEmpty(queue[m])
      BY DEF ScreencopyInd, FramesSound, QueueSound
    <2> QED
      BY <2>1, <2>2 DEF QueueOutlivesFrames
  <1>2. GammaInd /\ ImageCopyInd /\ ScreencopyInd => CopiesAnswered
    BY <1>1, AnsweredOnceLemma
    DEF CopiesAnswered, TypeOK, GammaInd, ImageCopyInd, ScreencopyInd
  <1> QED
    BY <1>2, GammaInvariant, ImageCopyInvariant, ScreencopyInvariant, PTL

-----------------------------------------------------------------------------
(* The IPC server.                                                         *)

IsOpen(s, n) == s.client[n].phase = "open"

\* In the middle of a handler that serves connection m: the requests own have
\* been read and are answered at its end, the tokens extra are in nobody's hands
\* yet, and a client may be marked dead that is not removed yet.
Accounts(s, own) ==
    /\ \A n \in Conns, i \in Ids : s.client[n].req[i] # "twice"
    /\ \A n \in Conns, i \in Ids :
          IsOpen(s, n) /\ ~s.client[n].dead /\ s.client[n].req[i] = "asked" /\ <<n, i>> \notin own =>
              \E p \in s.pending : p.conn = n /\ p.id = i
    /\ \A p, q \in s.pending :
          IsOpen(s, p.conn) /\ p.conn = q.conn /\ p.id = q.id => p = q
    /\ \A p \in s.pending :
          IsOpen(s, p.conn) => /\ s.client[p.conn].req[p.id] = "asked"
                               /\ <<p.conn, p.id>> \notin own
    /\ \A n \in Conns, i \in Ids :
          <<n, i>> \in own /\ IsOpen(s, n) => s.client[n].req[i] = "asked"

\* The tokens whose request object the VM holds, or let go itself.
Has(s) == s.held \cup s.dropped

Waiting(s, m, extra) ==
    \A p \in s.pending : /\ IsOpen(s, p.conn) \/ p.conn = m
                         /\ p.token \in Has(s) \cup extra

Bounded(s) == \A n \in Conns : IsOpen(s, n) /\ ~s.client[n].dead => s.client[n].out <= MaxOut

Told(s) == \A n \in Conns : Wants(s.client[n], "focus_change") => s.client[n].told \in {Keep, s.lastFocus}

\* Nothing was ever sent to a connection that is not made, or read from it.
Unused(s, m) == \A n \in Conns : s.client[n].phase = "new" => n # m /\ s.client[n] = Fresh

Half(s, m, own, extra) ==
    /\ s \in Server /\ Accounts(s, own) /\ Waiting(s, m, extra)
    /\ Bounded(s) /\ Told(s) /\ Unused(s, m)

\* The focus is the one announced last, but for a hook that moved it on.
Aware(s) == ~s.moved => s.lastFocus = s.focus

SameFocus(t, s) == t.lastFocus = s.lastFocus /\ t.focus = s.focus /\ t.moved = s.moved

\* Nobody is left to sweep.
Swept(s) == \A n \in Conns : IsOpen(s, n) => ~s.client[n].dead

\* Between two callbacks or two lines of one: only the connection m that is read
\* may be dead and not swept, and even then each of its requests waits for its
\* entry.
ServerSettled(s, m) ==
    /\ Half(s, m, {}, {}) /\ Aware(s)
    /\ \A n \in Conns : IsOpen(s, n) /\ s.client[n].dead => n = m
    /\ \A n \in Conns, i \in Ids :
          IsOpen(s, n) /\ s.client[n].req[i] = "asked" =>
              \E p \in s.pending : p.conn = n /\ p.id = i

\* The inductive invariant.
ServerInv == reading \in Reading /\ ServerSettled(srv, reading.conn)

-----------------------------------------------------------------------------
(* What the functions of one client do.                                    *)

\* A flush moves frames to the kernel or finds the peer gone.
LEMMA FlushLemma ==
    ASSUME IpcAssumption, NEW c \in Client
    PROVE  /\ Flush(c) \in Client
           /\ Flush(c).phase = c.phase /\ Flush(c).events = c.events
           /\ Flush(c).told = c.told /\ Flush(c).req = c.req
           /\ c.dead => Flush(c).dead
           /\ Flush(c).out <= c.out
  <1> DEFINE n == Least(c.out, Room - c.wire)
             f == [c EXCEPT !.out = @ - n, !.wire = @ + n]
  <1>1. /\ c.out \in Nat /\ c.wire \in 0 .. Room /\ Room \in Nat
    BY DEF Client, IpcAssumption
  <1>2. /\ n \in Nat /\ n <= c.out /\ c.wire + n \in 0 .. Room /\ c.out - n \in Nat
    BY <1>1 DEF Least
  <1>3. CASE c.out = 0
    BY <1>3 DEF Flush, Client
  <1>4. CASE c.out # 0 /\ c.hung
    <2> DEFINE d == [c EXCEPT !.dead = TRUE]
    <2>1. Flush(c) = d
      BY <1>4 DEF Flush
    <2>2. /\ d \in Client /\ d.phase = c.phase /\ d.events = c.events /\ d.told = c.told
          /\ d.req = c.req /\ d.dead /\ d.out = c.out
      BY DEF Client
    <2> HIDE DEF d
    <2> QED
      BY <2>1, <2>2, <1>1
  <1>5. CASE c.out # 0 /\ ~c.hung
    <2>1. Flush(c) = f
      BY <1>5 DEF Flush
    <2> HIDE DEF n
    <2>2. /\ f \in Client /\ f.phase = c.phase /\ f.events = c.events /\ f.told = c.told
          /\ f.req = c.req /\ f.dead = c.dead /\ f.out = c.out - n
      BY <1>1, <1>2 DEF Client
    <2> QED
      BY <2>1, <2>2, <1>2, <1>1
  <1> QED
    BY <1>3, <1>4, <1>5

\* A send leaves a client that is not dead within the backlog, and changes
\* nothing but its buffers.
LEMMA SendLemma ==
    ASSUME IpcAssumption, NEW c \in Client, NEW k \in Nat
    PROVE  /\ Send(c, k) \in Client
           /\ Send(c, k).phase = c.phase /\ Send(c, k).events = c.events
           /\ Send(c, k).told = c.told /\ Send(c, k).req = c.req
           /\ c.dead => Send(c, k).dead
           /\ c.out <= MaxOut /\ ~Send(c, k).dead => Send(c, k).out <= MaxOut
  <1> DEFINE e == [c EXCEPT !.out = @ + k]
             f == Flush(e)
             g == [f EXCEPT !.dead = @ \/ f.out > MaxOut]
  <1>1. /\ e \in Client /\ e.phase = c.phase /\ e.events = c.events /\ e.told = c.told
        /\ e.req = c.req /\ e.dead = c.dead
    BY DEF Client
  <1>2. /\ f \in Client /\ f.phase = c.phase /\ f.events = c.events /\ f.told = c.told
        /\ f.req = c.req /\ (c.dead => f.dead)
    <2> HIDE DEF e
    <2> QED BY <1>1, FlushLemma
  <1> HIDE DEF f
  <1>3. /\ g \in Client /\ g.phase = f.phase /\ g.events = f.events /\ g.told = f.told
        /\ g.req = f.req /\ g.out = f.out /\ (g.dead <=> f.dead \/ f.out > MaxOut)
    BY <1>2 DEF Client
  <1>4. f.out \in Nat /\ MaxOut \in Nat
    BY <1>2 DEF Client, IpcAssumption
  <1>5. CASE c.phase # "open" \/ c.dead \/ k = 0
    BY <1>5 DEF Send
  <1>6. CASE ~(c.phase # "open" \/ c.dead \/ k = 0)
    <2>1. Send(c, k) = g
      BY <1>6 DEF Send, f
    <2> HIDE DEF g
    <2>2. ~g.dead => g.out <= MaxOut
      BY <1>3, <1>4
    <2> QED
      BY <2>1, <2>2, <1>2, <1>3
  <1> QED
    BY <1>5, <1>6

\* Answers reach a client that is open and alive, each the request it is for.
LEMMA AnsweredLemma ==
    ASSUME IpcAssumption, NEW c \in Client, NEW ids \in SUBSET Ids
    PROVE  /\ Answered(c, ids) \in Client
           /\ Answered(c, ids).phase = c.phase /\ Answered(c, ids).events = c.events
           /\ Answered(c, ids).told = c.told
           /\ c.phase # "open" => Answered(c, ids) = c
           /\ c.dead => Answered(c, ids).dead
           /\ c.out <= MaxOut /\ ~Answered(c, ids).dead => Answered(c, ids).out <= MaxOut
           /\ \A i \in Ids :
                 Answered(c, ids).req[i] =
                    IF c.phase = "open" /\ ~c.dead /\ i \in ids
                    THEN IF c.req[i] = "asked" THEN "answered" ELSE "twice"
                    ELSE c.req[i]
  <1> DEFINE k == Cardinality(ids)
             e == Send(c, k)
             r == [i \in Ids |-> IF i \notin ids THEN e.req[i]
                                 ELSE IF e.req[i] = "asked" THEN "answered" ELSE "twice"]
             f == [e EXCEPT !.req = r]
  <1>1. k \in Nat
    BY FS_Subset, FS_CardinalityType DEF IpcAssumption
  <1>2. /\ e \in Client /\ e.phase = c.phase /\ e.events = c.events /\ e.told = c.told
        /\ e.req = c.req /\ (c.dead => e.dead)
        /\ (c.out <= MaxOut /\ ~e.dead => e.out <= MaxOut)
    <2> HIDE DEF k
    <2> QED BY <1>1, SendLemma
  <1>3. CASE c.phase # "open" \/ c.dead
    BY <1>3 DEF Answered
  <1>4. CASE ~(c.phase # "open" \/ c.dead)
    <2>1. Answered(c, ids) = f
      BY <1>4 DEF Answered
    <2> HIDE DEF e
    <2>2. r \in [Ids -> ReqState]
      BY <1>2 DEF Client, ReqState
    <2>3. \A i \in Ids : r[i] = IF i \notin ids THEN e.req[i]
                                ELSE IF e.req[i] = "asked" THEN "answered" ELSE "twice"
      OBVIOUS
    <2> HIDE DEF r
    <2>4. /\ f \in Client /\ f.phase = e.phase /\ f.events = e.events /\ f.told = e.told
          /\ f.req = r /\ f.dead = e.dead /\ f.out = e.out
      BY <1>2, <2>2 DEF Client
    <2> HIDE DEF f
    <2> QED
      BY <2>1, <2>3, <2>4, <1>2, <1>4
  <1> QED
    BY <1>3, <1>4

-----------------------------------------------------------------------------
(* What a handler may do to the server's record.                           *)

LEMMA ServerFields ==
    ASSUME NEW s \in Server
    PROVE  /\ s.client \in [Conns -> Client]
           /\ s.pending \subseteq Pending /\ s.nextToken \in 0 .. MaxTokens
           /\ s.held \subseteq 0 .. MaxTokens /\ s.dropped \subseteq 0 .. MaxTokens
           /\ s.hook \in BOOLEAN
           /\ s.lastFocus \in FocusIds \cup {NoWindow} /\ s.focus \in FocusIds \cup {NoWindow}
           /\ \A p \in s.pending : p.conn \in Conns /\ p.id \in Ids /\ p.token \in 0 .. MaxTokens
  BY DEF Server, Pending

\* The requests ps leave the table and are answered where their client is open
\* and alive; clients may die, and what they are told may change.
Evolves(s, t, ps) ==
    /\ t \in Server /\ ps \subseteq s.pending /\ t.pending = s.pending \ ps
    /\ \A n \in Conns :
          /\ t.client[n].phase = s.client[n].phase
          /\ s.client[n].phase = "new" => t.client[n] = s.client[n]
          /\ s.client[n].dead => t.client[n].dead
          /\ s.client[n].out <= MaxOut /\ ~t.client[n].dead => t.client[n].out <= MaxOut
    /\ \A n \in Conns, i \in Ids :
          t.client[n].req[i] =
              IF /\ IsOpen(s, n) /\ ~s.client[n].dead
                 /\ \E p \in ps : p.conn = n /\ p.id = i
              THEN IF s.client[n].req[i] = "asked" THEN "answered" ELSE "twice"
              ELSE s.client[n].req[i]
    /\ Told(t)

\* Such a step keeps the accounts.
LEMMA EvolveLemma ==
    ASSUME NEW s, NEW t, NEW m, NEW own, NEW extra, NEW rest, NEW ps,
           Half(s, m, own, extra), Evolves(s, t, ps),
           \A p \in t.pending : p.token \in Has(t) \cup rest
    PROVE  Half(t, m, own, rest)
  <1>0. s \in Server
    BY DEF Half
  <1>e. /\ t \in Server /\ ps \subseteq s.pending /\ t.pending = s.pending \ ps /\ Told(t)
        /\ \A n \in Conns :
              /\ t.client[n].phase = s.client[n].phase
              /\ s.client[n].phase = "new" => t.client[n] = s.client[n]
              /\ s.client[n].dead => t.client[n].dead
              /\ s.client[n].out <= MaxOut /\ ~t.client[n].dead => t.client[n].out <= MaxOut
        /\ \A n \in Conns, i \in Ids :
              t.client[n].req[i] =
                  IF /\ IsOpen(s, n) /\ ~s.client[n].dead
                     /\ \E p \in ps : p.conn = n /\ p.id = i
                  THEN IF s.client[n].req[i] = "asked" THEN "answered" ELSE "twice"
                  ELSE s.client[n].req[i]
    BY DEF Evolves
  <1>1. \A n \in Conns : IsOpen(t, n) <=> IsOpen(s, n)
    BY <1>e DEF IsOpen
  <1>2. \A p \in s.pending : p.conn \in Conns /\ p.id \in Ids
    BY <1>e, <1>0, ServerFields
  <1>3. ASSUME NEW n \in Conns, NEW i \in Ids
        PROVE  t.client[n].req[i] # "twice"
    <2>1. s.client[n].req[i] # "twice"
      BY <1>e DEF Half, Accounts
    <2>2. ASSUME NEW p \in ps, p.conn = n, p.id = i, IsOpen(s, n)
          PROVE  s.client[n].req[i] = "asked"
      <3>1. p \in s.pending /\ IsOpen(s, p.conn)
        BY <1>e, <2>2
      <3>2. s.client[p.conn].req[p.id] = "asked"
        BY <1>e, <3>1 DEF Half, Accounts
      <3> QED
        BY <1>e, <2>2, <3>2
    <2> QED
      BY <1>e, <2>1, <2>2
  <1>4. ASSUME NEW n \in Conns, NEW i \in Ids,
               IsOpen(t, n), ~t.client[n].dead, t.client[n].req[i] = "asked", <<n, i>> \notin own
        PROVE  \E p \in t.pending : p.conn = n /\ p.id = i
    BY <1>e, <1>1, <1>4 DEF Half, Accounts
  <1>5. ASSUME NEW p \in t.pending, NEW q \in t.pending,
               IsOpen(t, p.conn), p.conn = q.conn, p.id = q.id
        PROVE  p = q
    BY <1>e, <1>1, <1>2, <1>5 DEF Half, Accounts
  <1>6. ASSUME NEW p \in t.pending, IsOpen(t, p.conn)
        PROVE  t.client[p.conn].req[p.id] = "asked" /\ <<p.conn, p.id>> \notin own
    <2>1. p \in s.pending /\ p \notin ps /\ p.conn \in Conns /\ p.id \in Ids
      BY <1>e, <1>2
    <2>2. IsOpen(s, p.conn)
      BY <1>e, <2>1, <1>1, <1>6
    <2>3. s.client[p.conn].req[p.id] = "asked" /\ <<p.conn, p.id>> \notin own
      BY <1>e, <2>1, <2>2 DEF Half, Accounts
    <2>4. ~\E q \in ps : q.conn = p.conn /\ q.id = p.id
      BY <1>e, <2>1, <2>2 DEF Half, Accounts
    <2> QED
      BY <1>e, <2>1, <2>3, <2>4
  <1>7. ASSUME NEW n \in Conns, NEW i \in Ids, <<n, i>> \in own, IsOpen(t, n)
        PROVE  t.client[n].req[i] = "asked"
    <2>1. IsOpen(s, n) /\ s.client[n].req[i] = "asked"
      BY <1>e, <1>1, <1>7 DEF Half, Accounts
    <2>2. ~\E q \in ps : q.conn = n /\ q.id = i
      BY <1>e, <2>1, <1>7 DEF Half, Accounts
    <2> QED
      BY <1>e, <2>1, <2>2
  <1>8. Accounts(t, own)
    BY <1>e, <1>3, <1>4, <1>5, <1>6, <1>7 DEF Accounts
  <1>9. Waiting(t, m, rest)
    BY <1>e, <1>1, <1>2 DEF Half, Waiting
  <1>10. Bounded(t)
    BY <1>e, <1>1 DEF Half, Bounded
  <1>11. Unused(t, m)
    BY <1>e DEF Half, Unused
  <1> QED
    BY <1>e, <1>8, <1>9, <1>10, <1>11 DEF Half

\* Removing clients with what waits for them keeps everything.
LEMMA RemoveLemma ==
    ASSUME IpcAssumption, NEW s, NEW gone, NEW m, NEW own, NEW extra,
           Half(s, m, own, extra)
    PROVE  LET t == Remove(s, gone)
           IN  /\ Half(t, m, own, extra)
               /\ \A n \in Conns : t.client[n] = IF n \in gone THEN Gone ELSE s.client[n]
               /\ t.pending = {p \in s.pending : p.conn \notin gone}
               /\ t.nextToken = s.nextToken /\ Has(t) = Has(s) /\ t.hook = s.hook
               /\ SameFocus(t, s)
  <1> DEFINE t == Remove(s, gone)
             cl == [n \in Conns |-> IF n \in gone THEN Gone ELSE s.client[n]]
             pe == {p \in s.pending : p.conn \notin gone}
  <1>0. s \in Server
    BY DEF Half
  <1>1. Gone \in Client /\ Gone.phase = "gone" /\ \A i \in Ids : Gone.req[i] = "idle"
    <2>1. [i \in Ids |-> "idle"] \in [Ids -> ReqState] /\ 0 \in 0 .. Room
      BY DEF ReqState, IpcAssumption
    <2>2. Fresh \in Client /\ Fresh.req = [i \in Ids |-> "idle"]
      BY <2>1 DEF Fresh, Client
    <2>3. Gone \in Client /\ Gone.phase = "gone" /\ Gone.req = Fresh.req
      BY <2>2 DEF Gone, Client
    <2> QED
      BY <2>2, <2>3
  <1>2. cl \in [Conns -> Client] /\ pe \subseteq s.pending /\ pe \subseteq Pending
    BY <1>0, <1>1, ServerFields
  <1>3. t = [s EXCEPT !.client = cl, !.pending = pe]
    BY DEF Remove
  <1>4. /\ \A n \in Conns : cl[n] = IF n \in gone THEN Gone ELSE s.client[n]
        /\ pe = {p \in s.pending : p.conn \notin gone}
    OBVIOUS
  <1> HIDE DEF t, cl, pe
  <1>5. /\ t \in Server /\ t.client = cl /\ t.pending = pe
        /\ t.nextToken = s.nextToken /\ Has(t) = Has(s) /\ t.hook = s.hook
        /\ t.lastFocus = s.lastFocus /\ SameFocus(t, s)
    BY <1>0, <1>2, <1>3 DEF Server, Has, SameFocus
  <1>6. \A n \in Conns : IsOpen(t, n) <=> IsOpen(s, n) /\ n \notin gone
    BY <1>1, <1>4, <1>5 DEF IsOpen
  <1>7. \A p \in s.pending : p.conn \in Conns /\ p.id \in Ids
    BY <1>0, ServerFields
  <1>8. Accounts(t, own)
    <2>1. \A n \in Conns, i \in Ids : t.client[n].req[i] # "twice"
      BY <1>1, <1>4, <1>5 DEF Half, Accounts
    <2>2. \A n \in Conns, i \in Ids :
             IsOpen(t, n) /\ ~t.client[n].dead /\ t.client[n].req[i] = "asked" /\ <<n, i>> \notin own =>
                 \E p \in t.pending : p.conn = n /\ p.id = i
      BY <1>4, <1>5, <1>6 DEF Half, Accounts
    <2>3. \A p, q \in t.pending :
             IsOpen(t, p.conn) /\ p.conn = q.conn /\ p.id = q.id => p = q
      BY <1>4, <1>5, <1>6, <1>7 DEF Half, Accounts
    <2>4. \A p \in t.pending :
             IsOpen(t, p.conn) => /\ t.client[p.conn].req[p.id] = "asked"
                                  /\ <<p.conn, p.id>> \notin own
      BY <1>4, <1>5, <1>6, <1>7 DEF Half, Accounts
    <2>5. \A n \in Conns, i \in Ids :
             <<n, i>> \in own /\ IsOpen(t, n) => t.client[n].req[i] = "asked"
      BY <1>4, <1>5, <1>6 DEF Half, Accounts
    <2> QED
      BY <2>1, <2>2, <2>3, <2>4, <2>5 DEF Accounts
  <1>9. Waiting(t, m, extra)
    <2>1. ASSUME NEW p \in t.pending
          PROVE  (IsOpen(t, p.conn) \/ p.conn = m) /\ p.token \in Has(t) \cup extra
      BY <1>4, <1>5, <1>6, <1>7 DEF Half, Waiting
    <2> QED
      BY <2>1 DEF Waiting
  <1>10. Bounded(t)
    BY <1>4, <1>5, <1>6 DEF Half, Bounded
  <1>11. Told(t)
    BY <1>1, <1>4, <1>5 DEF Half, Told, Wants
  <1>12. Unused(t, m)
    BY <1>1, <1>4, <1>5 DEF Half, Unused
  <1> QED
    BY <1>4, <1>5, <1>8, <1>9, <1>10, <1>11, <1>12 DEF Half, t

\* sweep_dead_clients leaves nobody dead.
LEMMA SweepLemma ==
    ASSUME IpcAssumption, NEW s, NEW m, NEW own, NEW extra,
           Half(s, m, own, extra)
    PROVE  LET t == SweepDead(s)
           IN  /\ Half(t, m, own, extra) /\ Swept(t)
               /\ t.pending \subseteq s.pending
               /\ t.nextToken = s.nextToken /\ Has(t) = Has(s) /\ t.hook = s.hook
               /\ SameFocus(t, s)
  <1> DEFINE t == SweepDead(s)
  <1>1. t = Remove(s, Dead(s))
    BY DEF SweepDead
  <1> HIDE DEF t
  <1>2. /\ Half(t, m, own, extra)
        /\ \A n \in Conns : t.client[n] = IF n \in Dead(s) THEN Gone ELSE s.client[n]
        /\ t.pending = {p \in s.pending : p.conn \notin Dead(s)}
        /\ t.nextToken = s.nextToken /\ Has(t) = Has(s) /\ t.hook = s.hook
        /\ SameFocus(t, s)
    BY <1>1, RemoveLemma
  <1>3. Gone.phase = "gone"
    BY DEF Gone, Fresh
  <1>4. Swept(t)
    BY <1>2, <1>3 DEF Swept, IsOpen, Dead
  <1> QED
    BY <1>2, <1>4 DEF t

\* A step that leaves clients, table and last focus alone.
LEMMA SameClientsLemma ==
    ASSUME NEW s, NEW t, NEW m, NEW own, NEW extra, NEW rest,
           Half(s, m, own, extra), t \in Server,
           t.client = s.client, t.pending = s.pending, t.lastFocus = s.lastFocus,
           \A p \in s.pending : p.token \in Has(s) \cup extra => p.token \in Has(t) \cup rest
    PROVE  Half(t, m, own, rest)
  <1>1. Accounts(t, own)
    BY DEF Half, Accounts, IsOpen
  <1>2. Waiting(t, m, rest)
    BY DEF Half, Waiting, IsOpen
  <1>3. Bounded(t) /\ Told(t) /\ Unused(t, m)
    BY DEF Half, Bounded, Told, IsOpen, Wants, Unused
  <1> QED
    BY <1>1, <1>2, <1>3 DEF Half

\* AnswerAll: each request taken from the table is answered, and none twice.
LEMMA AnswerAllLemma ==
    ASSUME IpcAssumption, NEW s, NEW m, NEW own, NEW extra, NEW rest, NEW ps,
           Half(s, m, own, extra), ps \subseteq s.pending,
           \A p \in s.pending \ ps : p.token \in Has(s) \cup rest
    PROVE  LET t == AnswerAll(s, ps)
           IN  Half(t, m, own, rest) /\ Swept(t) /\ SameFocus(t, s)
  <1> DEFINE of(n) == {p.id : p \in {q \in ps : q.conn = n}}
             cl == [n \in Conns |-> Answered(s.client[n], of(n))]
             pe == s.pending \ ps
             t == [s EXCEPT !.pending = pe, !.client = cl]
  <1>0. s \in Server
    BY DEF Half
  <1>1. \A p \in s.pending : p.conn \in Conns /\ p.id \in Ids
    BY <1>0, ServerFields
  <1>2. \A n \in Conns : of(n) \in SUBSET Ids
    BY <1>1
  <1>3. \A n \in Conns, i \in Ids : i \in of(n) <=> \E p \in ps : p.conn = n /\ p.id = i
    OBVIOUS
  <1>4. AnswerAll(s, ps) = SweepDead(t)
    BY DEF AnswerAll
  <1>5. \A n \in Conns : cl[n] = Answered(s.client[n], of(n)) /\ s.client[n] \in Client
    BY <1>0, ServerFields
  <1> HIDE DEF of
  <1>6. ASSUME NEW n \in Conns
        PROVE  /\ cl[n] \in Client
               /\ cl[n].phase = s.client[n].phase /\ cl[n].events = s.client[n].events
               /\ cl[n].told = s.client[n].told
               /\ s.client[n].phase # "open" => cl[n] = s.client[n]
               /\ s.client[n].dead => cl[n].dead
               /\ s.client[n].out <= MaxOut /\ ~cl[n].dead => cl[n].out <= MaxOut
               /\ \A i \in Ids :
                     cl[n].req[i] =
                        IF s.client[n].phase = "open" /\ ~s.client[n].dead /\ i \in of(n)
                        THEN IF s.client[n].req[i] = "asked" THEN "answered" ELSE "twice"
                        ELSE s.client[n].req[i]
    <2> DEFINE c == s.client[n]
               ids == of(n)
    <2>1. c \in Client /\ ids \in SUBSET Ids /\ cl[n] = Answered(c, ids)
      BY <1>2, <1>5
    <2> HIDE DEF c, ids, cl
    <2> QED
      BY <2>1, AnsweredLemma DEF c, ids
  <1>7. cl \in [Conns -> Client] /\ pe \subseteq Pending
    <2>1. pe \subseteq Pending
      BY <1>0, ServerFields
    <2> QED
      BY <2>1, <1>6
  <1> HIDE DEF cl, pe
  <1>8. /\ t \in Server /\ t.client = cl /\ t.pending = pe /\ Has(t) = Has(s)
        /\ t.lastFocus = s.lastFocus /\ SameFocus(t, s)
    BY <1>0, <1>7 DEF Server, Has, SameFocus
  <1> HIDE DEF t
  <1>9. t.pending = s.pending \ ps /\ \A p \in t.pending : p.token \in Has(t) \cup rest
    BY <1>8 DEF pe
  <1>10. \A n \in Conns :
            /\ t.client[n].phase = s.client[n].phase
            /\ s.client[n].phase = "new" => t.client[n] = s.client[n]
            /\ s.client[n].dead => t.client[n].dead
            /\ s.client[n].out <= MaxOut /\ ~t.client[n].dead => t.client[n].out <= MaxOut
    BY <1>6, <1>8
  <1>11. \A n \in Conns, i \in Ids :
            t.client[n].req[i] =
                IF /\ IsOpen(s, n) /\ ~s.client[n].dead
                   /\ \E p \in ps : p.conn = n /\ p.id = i
                THEN IF s.client[n].req[i] = "asked" THEN "answered" ELSE "twice"
                ELSE s.client[n].req[i]
    BY <1>3, <1>6, <1>8 DEF IsOpen
  <1>12. Told(t)
    BY <1>6, <1>8 DEF Half, Told, Wants
  <1>13. Half(t, m, own, rest)
    <2>1. Evolves(s, t, ps)
      BY <1>8, <1>9, <1>10, <1>11, <1>12 DEF Evolves
    <2> QED
      BY <2>1, <1>9, EvolveLemma
  <1> QED
    BY <1>4, <1>8, <1>13, SweepLemma DEF SameFocus

\* What a broadcast sends changes buffers only.
LEMMA BroadcastLemma ==
    ASSUME IpcAssumption, NEW s, NEW m, NEW own, NEW extra, NEW event,
           Half(s, m, own, extra)
    PROVE  LET t == Broadcast(s, event)
           IN  Half(t, m, own, extra) /\ Swept(t) /\ SameFocus(t, s)
  <1> DEFINE cl == [n \in Conns |-> IF Wants(s.client[n], event) THEN Send(s.client[n], 1)
                                    ELSE s.client[n]]
             t == [s EXCEPT !.client = cl]
  <1>0. s \in Server
    BY DEF Half
  <1>1. Broadcast(s, event) = SweepDead(t)
    BY DEF Broadcast
  <1>2. ASSUME NEW n \in Conns
        PROVE  /\ cl[n] \in Client
               /\ cl[n].phase = s.client[n].phase /\ cl[n].events = s.client[n].events
               /\ cl[n].told = s.client[n].told /\ cl[n].req = s.client[n].req
               /\ s.client[n].phase # "open" => cl[n] = s.client[n]
               /\ s.client[n].dead => cl[n].dead
               /\ s.client[n].out <= MaxOut /\ ~cl[n].dead => cl[n].out <= MaxOut
    <2> DEFINE c == s.client[n]
    <2>1. c \in Client /\ cl[n] = IF Wants(c, event) THEN Send(c, 1) ELSE c
      BY <1>0, ServerFields
    <2> HIDE DEF c, cl
    <2> QED
      BY <2>1, SendLemma DEF c, Wants
  <1>3. cl \in [Conns -> Client]
    BY <1>2
  <1> HIDE DEF cl
  <1>4. /\ t \in Server /\ t.client = cl /\ t.pending = s.pending /\ Has(t) = Has(s)
        /\ t.lastFocus = s.lastFocus /\ SameFocus(t, s)
    BY <1>0, <1>3 DEF Server, Has, SameFocus
  <1> HIDE DEF t
  <1>5. Told(t)
    BY <1>2, <1>4 DEF Half, Told, Wants
  <1>6. Half(t, m, own, extra)
    <2>1. \A p \in t.pending : p.token \in Has(t) \cup extra
      BY <1>4 DEF Half, Waiting
    <2>2. t.pending = s.pending \ {}
      BY <1>4
    <2>3. Evolves(s, t, {})
      BY <1>2, <1>4, <1>5, <2>2 DEF Evolves
    <2> QED
      BY <2>1, <2>3, EvolveLemma
  <1> QED
    BY <1>1, <1>4, <1>6, SweepLemma DEF SameFocus

\* notify_focus_change: whoever listens is told of the focus, which is not the
\* one it was told of last.
LEMMA NotifyLemma ==
    ASSUME IpcAssumption, NEW s, NEW m, NEW own, NEW extra,
           NEW w \in FocusIds \cup {NoWindow},
           Half(s, m, own, extra)
    PROVE  LET t == NotifyFocusChange(s, w)
           IN  /\ Half(t, m, own, extra) /\ (Swept(s) => Swept(t))
               /\ t.lastFocus = w /\ t.focus = s.focus /\ t.moved = s.moved
  <1> DEFINE r == [s EXCEPT !.lastFocus = w]
             cl == [n \in Conns |->
                       IF Wants(s.client[n], "focus_change")
                       THEN [Send(s.client[n], 1) EXCEPT !.told = IF @ = w THEN Again ELSE w]
                       ELSE s.client[n]]
             t == [r EXCEPT !.client = cl]
  <1>0. s \in Server
    BY DEF Half
  <1>1. CASE s.lastFocus = w
    BY <1>1 DEF NotifyFocusChange
  <1>2. CASE s.lastFocus # w
    <2>1. NotifyFocusChange(s, w) = BroadcastFocus(r, w)
      BY <1>2 DEF NotifyFocusChange
    <2>2. /\ r \in Server /\ r.client = s.client /\ r.pending = s.pending
          /\ Has(r) = Has(s) /\ r.lastFocus = w /\ r.focus = s.focus /\ r.moved = s.moved
      BY <1>0 DEF Server, Has
    <2> HIDE DEF r
    <2>3. BroadcastFocus(r, w) = SweepDead(t)
      BY <2>2 DEF BroadcastFocus
    <2>4. ASSUME NEW n \in Conns
          PROVE  /\ cl[n] \in Client
                 /\ cl[n].phase = s.client[n].phase /\ cl[n].events = s.client[n].events
                 /\ cl[n].req = s.client[n].req
                 /\ s.client[n].phase # "open" => cl[n] = s.client[n]
                 /\ s.client[n].dead => cl[n].dead
                 /\ s.client[n].out <= MaxOut /\ ~cl[n].dead => cl[n].out <= MaxOut
                 /\ Wants(s.client[n], "focus_change") /\ s.client[n].told \in {Keep, s.lastFocus} =>
                        cl[n].told = w
      <3> DEFINE c == s.client[n]
                 e == Send(c, 1)
                 v == IF e.told = w THEN Again ELSE w
                 d == [e EXCEPT !.told = v]
      <3>1. c \in Client
        BY <1>0, ServerFields
      <3>2. cl[n] = IF Wants(c, "focus_change") THEN d ELSE c
        OBVIOUS
      <3> HIDE DEF c, cl
      <3>3. /\ e \in Client /\ e.phase = c.phase /\ e.events = c.events /\ e.told = c.told
            /\ e.req = c.req /\ (c.dead => e.dead)
            /\ (c.out <= MaxOut /\ ~e.dead => e.out <= MaxOut)
        BY <3>1, SendLemma
      <3> HIDE DEF e
      <3>4. v \in FocusIds \cup {NoWindow, Keep, Again}
        OBVIOUS
      <3>5. c.told \in {Keep, s.lastFocus} => v = w
        BY <1>2, <3>3 DEF IpcAssumption
      <3> HIDE DEF v
      <3>6. /\ d \in Client /\ d.phase = e.phase /\ d.events = e.events /\ d.told = v
            /\ d.req = e.req /\ d.dead = e.dead /\ d.out = e.out
        BY <3>3, <3>4 DEF Client
      <3> HIDE DEF d
      <3>7. CASE Wants(c, "focus_change")
        BY <3>2, <3>3, <3>5, <3>6, <3>7 DEF c, Wants
      <3>8. CASE ~Wants(c, "focus_change")
        BY <3>1, <3>2, <3>8 DEF c
      <3> QED
        BY <3>7, <3>8
    <2>5. cl \in [Conns -> Client]
      BY <2>4
    <2> HIDE DEF cl
    <2>6. /\ t \in Server /\ t.client = cl /\ t.pending = s.pending /\ Has(t) = Has(s)
          /\ t.lastFocus = w /\ t.focus = s.focus /\ t.moved = s.moved
      BY <2>2, <2>5 DEF Server, Has
    <2> HIDE DEF t
    <2>7. Told(t)
      BY <2>4, <2>6 DEF Half, Told, Wants
    <2>8. Half(t, m, own, extra)
      <3>1. \A p \in t.pending : p.token \in Has(t) \cup extra
        BY <2>6 DEF Half, Waiting
      <3>2. t.pending = s.pending \ {}
        BY <2>6
      <3>3. Evolves(s, t, {})
        BY <2>4, <2>6, <2>7, <3>2 DEF Evolves
      <3> QED
        BY <3>1, <3>3, EvolveLemma
    <2> QED
      BY <2>1, <2>3, <2>6, <2>8, SweepLemma DEF SameFocus
  <1> QED
    BY <1>1, <1>2

-----------------------------------------------------------------------------
(* A Lua entry, whoever makes it.                                          *)

\* What a Lua run asks for that the server looks at.
IsRun(l) == l.focus \in FocusIds \cup {NoWindow, Keep}

LEMMA RunsLemma ==
    ASSUME IpcAssumption, NEW held, NEW l \in Runs(held)
    PROVE  IsRun(l)
  <1>1. \A r \in Effects : r.focus \in FocusIds \cup {NoWindow, Keep}
    BY DEF IpcAssumption, AnyEffect
  <1>2. CASE \E r \in Effects : l = Run(r, {})
    BY <1>1, <1>2 DEF IsRun, Run
  <1>3. CASE \E r \in Effects, t \in held : l = Run(r, {t})
    BY <1>1, <1>3 DEF IsRun, Run
  <1> QED
    BY <1>2, <1>3 DEF Runs

LEMMA ApplyFocusLemma ==
    ASSUME IpcAssumption, NEW s, NEW m, NEW own, NEW extra, NEW w \in FocusIds \cup {NoWindow, Keep},
           Half(s, m, own, extra)
    PROVE  LET t == ApplyFocus(s, w)
           IN  /\ Half(t, m, own, extra)
               /\ IF w = Keep THEN t = s ELSE t.lastFocus = w /\ t.focus = w
  <1>1. CASE w = Keep
    BY <1>1 DEF ApplyFocus
  <1>2. CASE w # Keep
    <2> DEFINE r == [s EXCEPT !.focus = w, !.moved = FALSE]
    <2>1. w \in FocusIds \cup {NoWindow}
      BY <1>2
    <2>2. ApplyFocus(s, w) = NotifyFocusChange(r, w)
      BY <1>2 DEF ApplyFocus
    <2>3. /\ r \in Server /\ r.client = s.client /\ r.pending = s.pending
          /\ r.lastFocus = s.lastFocus /\ Has(r) = Has(s) /\ r.focus = w
      BY <2>1 DEF Half, Server, Has
    <2> HIDE DEF r
    <2>4. Half(r, m, own, extra)
      BY <2>3, SameClientsLemma
    <2> QED
      BY <1>2, <2>1, <2>2, <2>3, <2>4, NotifyLemma
  <1> QED
    BY <1>1, <1>2

\* What the VM lets go is remembered as long as its entry is.
LEMMA DroppedLemma ==
    ASSUME NEW s, NEW m, NEW own, NEW extra, NEW tokens,
           Half(s, m, own, extra)
    PROVE  LET t == Dropped(s, tokens)
           IN  /\ Half(t, m, own, extra) /\ t \in Server
               /\ t.client = s.client /\ t.pending = s.pending /\ SameFocus(t, s)
  <1> DEFINE t == Dropped(s, tokens)
             kept == s.held \ tokens
             lost == s.dropped \cup (tokens \cap Tokens(s))
  <1>1. /\ s \in Server /\ s.held \subseteq 0 .. MaxTokens /\ s.dropped \subseteq 0 .. MaxTokens
        /\ \A p \in s.pending : p.token \in 0 .. MaxTokens
    BY ServerFields DEF Half
  <1>2. kept \subseteq 0 .. MaxTokens /\ lost \subseteq 0 .. MaxTokens
    BY <1>1 DEF Tokens
  <1>3. t = [s EXCEPT !.held = kept, !.dropped = lost]
    BY DEF Dropped
  <1>4. \A p \in s.pending : p.token \in Has(s) => p.token \in kept \cup lost
    BY DEF Has, Tokens
  <1> HIDE DEF t, kept, lost
  <1>5. /\ t \in Server /\ t.client = s.client /\ t.pending = s.pending
        /\ t.lastFocus = s.lastFocus /\ SameFocus(t, s) /\ Has(t) = kept \cup lost
    BY <1>1, <1>2, <1>3 DEF Server, SameFocus, Has
  <1>6. \A p \in s.pending : p.token \in Has(s) \cup extra => p.token \in Has(t) \cup extra
    BY <1>4, <1>5
  <1>7. Half(t, m, own, extra)
    BY <1>5, <1>6, SameClientsLemma
  <1> QED
    BY <1>5, <1>7 DEF t

\* after_lua keeps the accounts and sweeps: the answers it flushes leave the
\* table with the tokens they were for, and a reload abandons the whole table
\* with the request objects of the old VM.  Who focuses tells.
LEMMA AfterLuaLemma ==
    ASSUME IpcAssumption, NEW s, NEW m, NEW own, NEW extra, NEW l, IsRun(l),
           Half(s, m, own, extra)
    PROVE  LET t == AfterLua(s, l)
           IN  /\ Half(t, m, own, extra) /\ Swept(t)
               /\ IF l.focus = Keep THEN SameFocus(t, s)
                  ELSE t.lastFocus = l.focus /\ t.focus = l.focus
  <1> DEFINE f == ApplyFocus(s, l.focus)
             b == IF l.casts THEN Broadcast(f, "other") ELSE f
             h == (l.reload = "hook")
             r == [f EXCEPT !.held = {}, !.dropped = {}, !.hook = h]
             e == [b EXCEPT !.held = @ \ l.answers]
             d == Dropped(e, l.drops)
             Moved(t) == IF l.focus = Keep THEN SameFocus(t, s)
                         ELSE t.lastFocus = l.focus /\ t.focus = l.focus
  <1>1. Half(f, m, own, extra) /\ Moved(f)
    BY ApplyFocusLemma DEF IsRun, SameFocus
  <1>2. Half(b, m, own, extra) /\ Moved(b)
    <2> HIDE DEF f
    <2>1. ~l.casts => b = f
      OBVIOUS
    <2>2. l.casts => Half(b, m, own, extra) /\ SameFocus(b, f)
      BY <1>1, BroadcastLemma
    <2> QED
      BY <1>1, <2>1, <2>2 DEF SameFocus
  <1>3. CASE l.reload # "no"
    <2>1. AfterLua(s, l) = AnswerAll(r, r.pending)
      BY <1>3 DEF AfterLua, Reloaded, AbandonPending
    <2>2. f \in Server /\ h \in BOOLEAN
      BY <1>1 DEF Half
    <2> HIDE DEF f, h
    <2>3. /\ r \in Server /\ r.client = f.client /\ r.pending = f.pending /\ r.lastFocus = f.lastFocus
          /\ SameFocus(r, f)
      BY <2>2 DEF Server, SameFocus
    <2> HIDE DEF r
    <2>4. Half(r, m, own, Has(f) \cup extra)
      BY <1>1, <2>3, SameClientsLemma
    <2>5. \A p \in r.pending \ r.pending : p.token \in Has(r) \cup extra
      OBVIOUS
    <2> DEFINE z == AnswerAll(r, r.pending)
    <2>6. Half(z, m, own, extra) /\ Swept(z) /\ SameFocus(z, r)
      BY <2>4, <2>5, AnswerAllLemma
    <2> HIDE DEF z
    <2>7. Moved(z)
      BY <1>1, <2>3, <2>6 DEF SameFocus
    <2> QED
      BY <2>1, <2>6, <2>7 DEF z
  <1>4. CASE l.reload = "no"
    <2>1. AfterLua(s, l) = FlushReplies(d, l.answers)
      BY <1>4 DEF AfterLua
    <2>2. b \in Server /\ b.held \subseteq 0 .. MaxTokens
      BY <1>2, ServerFields DEF Half
    <2> HIDE DEF b, f
    <2>3. /\ e \in Server /\ e.client = b.client /\ e.pending = b.pending
          /\ e.lastFocus = b.lastFocus /\ SameFocus(e, b)
          /\ Has(b) \subseteq Has(e) \cup l.answers
      BY <2>2 DEF Server, SameFocus, Has
    <2> HIDE DEF e
    <2>4. Half(e, m, own, extra \cup l.answers)
      BY <1>2, <2>3, SameClientsLemma
    <2>5. Half(d, m, own, extra \cup l.answers) /\ SameFocus(d, e)
      BY <2>4, DroppedLemma
    <2> HIDE DEF d
    <2> DEFINE ps == WithToken(d, l.answers)
               z == AnswerAll(d, ps)
    <2>6. /\ ps \subseteq d.pending
          /\ \A p \in d.pending \ ps : p.token \in Has(d) \cup extra
      BY <2>5 DEF WithToken, Half, Waiting
    <2>7. FlushReplies(d, l.answers) = z
      BY DEF FlushReplies
    <2> HIDE DEF ps
    <2>8. Half(z, m, own, extra) /\ Swept(z) /\ SameFocus(z, d)
      BY <2>5, <2>6, AnswerAllLemma
    <2> HIDE DEF z
    <2>9. Moved(z)
      BY <1>2, <2>3, <2>5, <2>8 DEF SameFocus
    <2> QED
      BY <2>1, <2>7, <2>8, <2>9
  <1> QED
    BY <1>3, <1>4

\* A Lua run by itself leaves nobody behind.
LEMMA AwareLemma ==
    ASSUME IpcAssumption, NEW s, NEW m, NEW own, NEW extra, NEW l, IsRun(l),
           Half(s, m, own, extra), Aware(s)
    PROVE  Aware(AfterLua(s, l))
  BY AfterLuaLemma DEF Aware, SameFocus

\* focus_window_impl: the hook, and then the subscribers, who are behind only
\* when the hook moved the focus elsewhere.
LEMMA FocusWindowLemma ==
    ASSUME IpcAssumption, NEW s, NEW m, NEW own, NEW extra, NEW l, IsRun(l),
           NEW w \in FocusIds \cup {NoWindow},
           Half(s, m, own, extra)
    PROVE  LET t == FocusWindow(s, w, l)
           IN  Half(t, m, own, extra) /\ Swept(t) /\ Aware(t)
  <1> DEFINE r == [s EXCEPT !.focus = w]
             a == AfterLua(r, l)
             on == l.focus \notin {Keep, w}
             b == [a EXCEPT !.moved = on]
             t == NotifyFocusChange(b, w)
  <1>0. /\ r \in Server /\ r.client = s.client /\ r.pending = s.pending
        /\ r.lastFocus = s.lastFocus /\ Has(r) = Has(s) /\ r.focus = w
    BY DEF Half, Server, Has
  <1> HIDE DEF r
  <1>1. Half(r, m, own, extra)
    BY <1>0, SameClientsLemma
  <1>2. /\ Half(a, m, own, extra) /\ Swept(a) /\ a \in Server
        /\ a.focus = IF l.focus = Keep THEN w ELSE l.focus
    BY <1>0, <1>1, AfterLuaLemma DEF SameFocus, Half
  <1>3. FocusWindow(s, w, l) = t
    BY DEF FocusWindow, r
  <1> HIDE DEF a
  <1>4. /\ b \in Server /\ b.client = a.client /\ b.pending = a.pending
        /\ b.lastFocus = a.lastFocus /\ Has(b) = Has(a) /\ b.focus = a.focus /\ b.moved = on
    BY <1>2 DEF Server, Has
  <1> HIDE DEF on, b
  <1>5. Half(b, m, own, extra)
    BY <1>2, <1>4, SameClientsLemma
  <1>6. Swept(b)
    BY <1>2, <1>4 DEF Swept, IsOpen
  <1>7. /\ Half(t, m, own, extra) /\ Swept(t)
        /\ t.lastFocus = w /\ t.focus = a.focus /\ t.moved = on
    BY <1>4, <1>5, <1>6, NotifyLemma
  <1> HIDE DEF t
  <1>8. Aware(t)
    BY <1>2, <1>7 DEF Aware, on
  <1> QED
    BY <1>3, <1>7, <1>8

-----------------------------------------------------------------------------
(* The lines of a client.                                                  *)

\* A request that is read is owed an answer by its handler; the subscribe
\* handler sets a filter on the way.
LEMMA AskLemma ==
    ASSUME NEW s, NEW n \in Conns, NEW i \in Ids, NEW extra,
           Half(s, n, {}, extra), s.client[n].req[i] # "asked"
    PROVE  Half(Ask(s, n, i), n, {<<n, i>>}, extra) /\ SameFocus(Ask(s, n, i), s)
  <1> DEFINE c == s.client[n]
             rq == [c.req EXCEPT ![i] = "asked"]
             d == [c EXCEPT !.req = rq]
             cl == [s.client EXCEPT ![n] = d]
             t == [s EXCEPT !.client = cl]
  <1>0. s \in Server /\ s.client \in [Conns -> Client] /\ c \in Client
    BY ServerFields DEF Half
  <1>1. Ask(s, n, i) = t
    BY DEF Ask
  <1>2. rq \in [Ids -> ReqState] /\ rq[i] = "asked" /\ \A j \in Ids \ {i} : rq[j] = c.req[j]
    BY <1>0 DEF Client, ReqState
  <1> HIDE DEF rq
  <1>3. /\ d \in Client /\ d.phase = c.phase /\ d.events = c.events /\ d.told = c.told
        /\ d.dead = c.dead /\ d.out = c.out /\ d.req = rq
    BY <1>0, <1>2 DEF Client
  <1> HIDE DEF d
  <1>4. cl \in [Conns -> Client] /\ cl[n] = d /\ \A k \in Conns \ {n} : cl[k] = s.client[k]
    BY <1>0, <1>3
  <1> HIDE DEF cl
  <1>5. /\ t \in Server /\ t.client = cl /\ t.pending = s.pending /\ Has(t) = Has(s)
        /\ t.lastFocus = s.lastFocus /\ SameFocus(t, s)
    BY <1>0, <1>4 DEF Server, Has, SameFocus
  <1> HIDE DEF t
  <1>6. \A k \in Conns : /\ IsOpen(t, k) <=> IsOpen(s, k)
                         /\ t.client[k].dead = s.client[k].dead
                         /\ t.client[k].out = s.client[k].out
                         /\ t.client[k].events = s.client[k].events
                         /\ t.client[k].phase = s.client[k].phase
                         /\ t.client[k].told = s.client[k].told
    BY <1>3, <1>4, <1>5 DEF IsOpen, c
  <1>7. \A k \in Conns, j \in Ids :
           t.client[k].req[j] = IF k = n /\ j = i THEN "asked" ELSE s.client[k].req[j]
    BY <1>2, <1>3, <1>4, <1>5 DEF c
  <1>8. \A p \in s.pending : p.conn \in Conns /\ p.id \in Ids
    BY <1>0, ServerFields
  <1>9. Accounts(t, {<<n, i>>})
    <2>1. \A k \in Conns, j \in Ids : t.client[k].req[j] # "twice"
      BY <1>7 DEF Half, Accounts
    <2>2. \A k \in Conns, j \in Ids :
             IsOpen(t, k) /\ ~t.client[k].dead /\ t.client[k].req[j] = "asked"
                /\ <<k, j>> \notin {<<n, i>>} =>
                 \E p \in t.pending : p.conn = k /\ p.id = j
      BY <1>5, <1>6, <1>7 DEF Half, Accounts
    <2>3. \A p, q \in t.pending :
             IsOpen(t, p.conn) /\ p.conn = q.conn /\ p.id = q.id => p = q
      BY <1>5, <1>6, <1>8 DEF Half, Accounts
    <2>4. ASSUME NEW p \in t.pending, IsOpen(t, p.conn)
          PROVE  t.client[p.conn].req[p.id] = "asked" /\ <<p.conn, p.id>> \notin {<<n, i>>}
      <3>1. p \in s.pending /\ p.conn \in Conns /\ p.id \in Ids /\ IsOpen(s, p.conn)
        BY <1>5, <1>6, <1>8, <2>4
      <3>2. s.client[p.conn].req[p.id] = "asked"
        BY <3>1 DEF Half, Accounts
      <3> QED
        BY <1>7, <3>1, <3>2
    <2>5. \A k \in Conns, j \in Ids :
             <<k, j>> \in {<<n, i>>} /\ IsOpen(t, k) => t.client[k].req[j] = "asked"
      BY <1>7
    <2> QED
      BY <2>1, <2>2, <2>3, <2>4, <2>5 DEF Accounts
  <1>10. Waiting(t, n, extra)
    BY <1>5, <1>6, <1>8 DEF Half, Waiting
  <1>11. Bounded(t)
    BY <1>6 DEF Half, Bounded
  <1>12. Told(t)
    BY <1>5, <1>6 DEF Half, Told, Wants
  <1>13. Unused(t, n)
    BY <1>3, <1>4, <1>5 DEF Half, Unused, c
  <1> QED
    BY <1>1, <1>5, <1>9, <1>10, <1>11, <1>12, <1>13 DEF Half

\* The answer at the end of a handler is the one its request is owed.
LEMMA FinishLemma ==
    ASSUME IpcAssumption, NEW s, NEW m, NEW n \in Conns, NEW i \in Ids, NEW extra,
           Half(s, m, {<<n, i>>}, extra)
    PROVE  LET t == Finish(s, n, i)
           IN  Half(t, m, {}, extra) /\ Swept(t) /\ SameFocus(t, s)
  <1> DEFINE c == s.client[n]
             d == Answered(c, {i})
             cl == [s.client EXCEPT ![n] = d]
             t == [s EXCEPT !.client = cl]
  <1>0. s \in Server /\ s.client \in [Conns -> Client] /\ c \in Client /\ {i} \in SUBSET Ids
    BY ServerFields DEF Half
  <1>1. Finish(s, n, i) = SweepDead(t)
    BY DEF Finish, Answer
  <1>2. /\ d \in Client /\ d.phase = c.phase /\ d.events = c.events /\ d.told = c.told
        /\ c.phase # "open" => d = c
        /\ c.dead => d.dead
        /\ c.out <= MaxOut /\ ~d.dead => d.out <= MaxOut
        /\ \A j \in Ids : d.req[j] = IF c.phase = "open" /\ ~c.dead /\ j \in {i}
                                      THEN IF c.req[j] = "asked" THEN "answered" ELSE "twice"
                                      ELSE c.req[j]
    <2> HIDE DEF c
    <2> QED BY <1>0, AnsweredLemma
  <1> HIDE DEF d
  <1>4. cl \in [Conns -> Client] /\ cl[n] = d /\ \A k \in Conns \ {n} : cl[k] = s.client[k]
    BY <1>0, <1>2
  <1> HIDE DEF cl
  <1>5. /\ t \in Server /\ t.client = cl /\ t.pending = s.pending /\ Has(t) = Has(s)
        /\ t.lastFocus = s.lastFocus /\ SameFocus(t, s)
    BY <1>0, <1>4 DEF Server, Has, SameFocus
  <1> HIDE DEF t
  <1>6. \A k \in Conns : /\ IsOpen(t, k) <=> IsOpen(s, k)
                         /\ s.client[k].dead => t.client[k].dead
                         /\ s.client[k].out <= MaxOut /\ ~t.client[k].dead => t.client[k].out <= MaxOut
                         /\ t.client[k].events = s.client[k].events
                         /\ t.client[k].phase = s.client[k].phase
                         /\ t.client[k].told = s.client[k].told
    BY <1>2, <1>4, <1>5 DEF IsOpen, c
  <1>7. \A k \in Conns, j \in Ids :
           t.client[k].req[j] =
               IF k = n /\ j = i /\ IsOpen(s, n) /\ ~s.client[n].dead
               THEN "answered" ELSE s.client[k].req[j]
    <2>1. IsOpen(s, n) => c.req[i] = "asked"
      BY DEF Half, Accounts
    <2> QED
      BY <1>2, <1>4, <1>5, <2>1 DEF c, IsOpen
  <1>8. \A p \in s.pending : p.conn \in Conns /\ p.id \in Ids
    BY <1>0, ServerFields
  <1>9. Accounts(t, {})
    <2>1. \A k \in Conns, j \in Ids : t.client[k].req[j] # "twice"
      BY <1>7 DEF Half, Accounts
    <2>2. ASSUME NEW k \in Conns, NEW j \in Ids,
                 IsOpen(t, k), ~t.client[k].dead, t.client[k].req[j] = "asked"
          PROVE  \E p \in t.pending : p.conn = k /\ p.id = j
      <3>1. IsOpen(s, k) /\ ~s.client[k].dead
        BY <1>6, <2>2
      <3>2. s.client[k].req[j] = "asked" /\ <<k, j>> \notin {<<n, i>>}
        BY <1>7, <2>2, <3>1
      <3> QED
        BY <1>5, <3>1, <3>2 DEF Half, Accounts
    <2>3. \A p, q \in t.pending :
             IsOpen(t, p.conn) /\ p.conn = q.conn /\ p.id = q.id => p = q
      BY <1>5, <1>6, <1>8 DEF Half, Accounts
    <2>4. ASSUME NEW p \in t.pending, IsOpen(t, p.conn)
          PROVE  t.client[p.conn].req[p.id] = "asked" /\ <<p.conn, p.id>> \notin {}
      <3>1. p \in s.pending /\ p.conn \in Conns /\ p.id \in Ids /\ IsOpen(s, p.conn)
        BY <1>5, <1>6, <1>8, <2>4
      <3>2. s.client[p.conn].req[p.id] = "asked" /\ <<p.conn, p.id>> \notin {<<n, i>>}
        BY <3>1 DEF Half, Accounts
      <3> QED
        BY <1>7, <3>1, <3>2
    <2> QED
      BY <2>1, <2>2, <2>3, <2>4 DEF Accounts
  <1>10. Waiting(t, m, extra)
    BY <1>5, <1>6, <1>8 DEF Half, Waiting
  <1>11. Bounded(t)
    BY <1>6 DEF Half, Bounded
  <1>12. Told(t)
    BY <1>5, <1>6 DEF Half, Told, Wants
  <1>13. Unused(t, m)
    BY <1>2, <1>4, <1>5 DEF Half, Unused, c
  <1>14. Half(t, m, {}, extra)
    BY <1>5, <1>9, <1>10, <1>11, <1>12, <1>13 DEF Half
  <1> QED
    BY <1>1, <1>5, <1>14, SweepLemma DEF SameFocus

\* subscribe answers like any request; the filter starts anew.
LEMMA SubscribeLemma ==
    ASSUME IpcAssumption, NEW s, NEW n \in Conns, NEW i \in Ids, NEW events \in Filters,
           Half(s, n, {}, {}), IsOpen(s, n), s.client[n].req[i] # "asked"
    PROVE  LET t == Subscribe(s, n, i, events)
           IN  Half(t, n, {}, {}) /\ Swept(t) /\ SameFocus(t, s)
  <1> DEFINE a == Ask(s, n, i)
             c == a.client[n]
             d == [c EXCEPT !.events = events, !.told = Keep]
             cl == [a.client EXCEPT ![n] = d]
             t == [a EXCEPT !.client = cl]
  <1>1. Half(a, n, {<<n, i>>}, {}) /\ SameFocus(a, s)
    BY AskLemma
  <1>2. Subscribe(s, n, i, events)
            = Finish([a EXCEPT !.client[n].events = events, !.client[n].told = Keep], n, i)
    BY DEF Subscribe, IsOpen
  <1> HIDE DEF a
  <1>3. a \in Server /\ a.client \in [Conns -> Client] /\ c \in Client /\ events \in SUBSET Event
    BY <1>1, ServerFields DEF Half, IpcAssumption, Event
  <1>4. [a EXCEPT !.client[n].events = events, !.client[n].told = Keep] = t
    BY <1>3 DEF Server
  <1>5. /\ d \in Client /\ d.phase = c.phase /\ d.dead = c.dead /\ d.out = c.out /\ d.req = c.req
        /\ d.told = Keep
    BY <1>3 DEF Client
  <1> HIDE DEF d
  <1>6. cl \in [Conns -> Client] /\ cl[n] = d /\ \A k \in Conns \ {n} : cl[k] = a.client[k]
    BY <1>3, <1>5
  <1> HIDE DEF cl
  <1>7. /\ t \in Server /\ t.client = cl /\ t.pending = a.pending /\ Has(t) = Has(a)
        /\ t.lastFocus = a.lastFocus /\ SameFocus(t, a)
    BY <1>3, <1>6 DEF Server, Has, SameFocus
  <1> HIDE DEF t
  <1>8. \A k \in Conns : /\ t.client[k].phase = a.client[k].phase
                         /\ t.client[k].dead = a.client[k].dead
                         /\ t.client[k].out = a.client[k].out
                         /\ t.client[k].req = a.client[k].req
                         /\ a.client[k].phase = "new" => t.client[k] = a.client[k]
    BY <1>1, <1>5, <1>6, <1>7 DEF Half, Unused
  <1>9. Told(t)
    BY <1>1, <1>5, <1>6, <1>7 DEF Half, Told, Wants
  <1>10. Evolves(a, t, {})
    <2>1. t.pending = a.pending \ {}
      BY <1>7
    <2> QED
      BY <1>7, <1>8, <1>9, <2>1 DEF Evolves
  <1>11. \A p \in t.pending : p.token \in Has(t) \cup {}
    BY <1>1, <1>7 DEF Half, Waiting
  <1>12. Half(t, n, {<<n, i>>}, {})
    BY <1>1, <1>10, <1>11, EvolveLemma
  <1> DEFINE z == Finish(t, n, i)
  <1>13. Half(z, n, {}, {}) /\ Swept(z) /\ SameFocus(z, t)
    BY <1>12, FinishLemma
  <1> HIDE DEF z
  <1>14. SameFocus(z, s)
    BY <1>1, <1>7, <1>13 DEF SameFocus
  <1> QED
    BY <1>2, <1>4, <1>13, <1>14 DEF z

\* A new entry takes over what its request is owed; its token is in nobody's
\* hands yet.
LEMMA EnterLemma ==
    ASSUME NEW a, NEW n \in Conns, NEW i \in Ids, NEW k \in 0 .. MaxTokens, NEW next \in 0 .. MaxTokens,
           Half(a, n, {<<n, i>>}, {})
    PROVE  LET p == [token |-> k, conn |-> n, id |-> i]
               q == [a EXCEPT !.pending = @ \cup {p}, !.nextToken = next]
           IN  Half(q, n, {}, {k}) /\ SameFocus(q, a)
  <1> DEFINE e == [token |-> k, conn |-> n, id |-> i]
             pe == a.pending \cup {e}
             t == [a EXCEPT !.pending = pe, !.nextToken = next]
  <1>0. a \in Server /\ a.pending \subseteq Pending
    BY ServerFields DEF Half
  <1>1. e \in Pending /\ e.token = k /\ e.conn = n /\ e.id = i
    BY DEF Pending
  <1> HIDE DEF e
  <1>2. pe \subseteq Pending /\ \A p \in pe : p \in a.pending \/ p = e
    BY <1>0, <1>1
  <1>3. a.pending \subseteq pe /\ e \in pe
    OBVIOUS
  <1> HIDE DEF pe
  <1>4. /\ t \in Server /\ t.client = a.client /\ t.pending = pe /\ Has(t) = Has(a)
        /\ t.lastFocus = a.lastFocus /\ SameFocus(t, a)
    BY <1>0, <1>2 DEF Server, Has, SameFocus
  <1> HIDE DEF t
  <1>5. \A p \in a.pending : p.conn \in Conns /\ p.id \in Ids
    BY <1>0 DEF Pending
  <1>6. Accounts(t, {})
    <2>1. \A c \in Conns, j \in Ids : t.client[c].req[j] # "twice"
      BY <1>4 DEF Half, Accounts
    <2>2. ASSUME NEW c \in Conns, NEW j \in Ids,
                 IsOpen(t, c), ~t.client[c].dead, t.client[c].req[j] = "asked"
          PROVE  \E p \in t.pending : p.conn = c /\ p.id = j
      <3>1. CASE <<c, j>> = <<n, i>>
        BY <1>1, <1>3, <1>4, <3>1
      <3>2. CASE <<c, j>> # <<n, i>>
        BY <1>3, <1>4, <2>2, <3>2 DEF Half, Accounts, IsOpen
      <3> QED
        BY <3>1, <3>2
    <2>3. ASSUME NEW p \in t.pending, NEW q \in t.pending,
                 IsOpen(t, p.conn), p.conn = q.conn, p.id = q.id
          PROVE  p = q
      <3>1. \A r \in a.pending : IsOpen(a, r.conn) => <<r.conn, r.id>> # <<n, i>>
        BY DEF Half, Accounts
      <3>2. IsOpen(a, p.conn)
        BY <1>4, <2>3 DEF IsOpen
      <3>3. CASE p \in a.pending /\ q \in a.pending
        BY <2>3, <3>2, <3>3 DEF Half, Accounts
      <3>4. CASE p = e \/ q = e
        BY <1>1, <1>2, <1>4, <2>3, <3>1, <3>2, <3>4
      <3> QED
        BY <1>2, <1>4, <3>3, <3>4
    <2>4. ASSUME NEW p \in t.pending, IsOpen(t, p.conn)
          PROVE  t.client[p.conn].req[p.id] = "asked" /\ <<p.conn, p.id>> \notin {}
      <3>1. IsOpen(a, p.conn)
        BY <1>4, <2>4 DEF IsOpen
      <3>2. CASE p \in a.pending
        BY <1>4, <3>1, <3>2 DEF Half, Accounts
      <3>3. CASE p = e
        BY <1>1, <1>4, <3>1, <3>3 DEF Half, Accounts
      <3> QED
        BY <1>2, <1>4, <3>2, <3>3
    <2> QED
      BY <2>1, <2>2, <2>3, <2>4 DEF Accounts
  <1>7. Waiting(t, n, {k})
    <2>1. ASSUME NEW p \in t.pending
          PROVE  (IsOpen(t, p.conn) \/ p.conn = n) /\ p.token \in Has(t) \cup {k}
      BY <1>1, <1>2, <1>4 DEF Half, Waiting, IsOpen
    <2> QED
      BY <2>1 DEF Waiting
  <1>8. Bounded(t) /\ Told(t) /\ Unused(t, n)
    BY <1>4 DEF Half, Bounded, Told, IsOpen, Wants, Unused
  <1>9. Half(t, n, {}, {k})
    BY <1>4, <1>6, <1>7, <1>8 DEF Half
  <1> QED
    BY <1>4, <1>9 DEF t, pe, e

\* handle_screencast_select, however its hook ends: who asked has an entry
\* whose request object the VM holds, or an answer.
LEMMA ScreencastLemma ==
    ASSUME IpcAssumption, NEW s, NEW n \in Conns, NEW i \in Ids,
           NEW outcome \in Outcome, NEW kept \in BOOLEAN, NEW l \in Runs(s.held),
           Half(s, n, {}, {}), s.client[n].req[i] # "asked", s.nextToken < MaxTokens, Aware(s)
    PROVE  LET t == HandleScreencastSelect(s, n, i, outcome, kept, l)
           IN  Half(t, n, {}, {}) /\ Swept(t) /\ Aware(t)
  <1> DEFINE t == s.nextToken
             p == [token |-> t, conn |-> n, id |-> i]
             a == Ask(s, n, i)
             q == [a EXCEPT !.pending = @ \cup {p}, !.nextToken = t + 1]
             full == [q EXCEPT !.held = @ \cup {t}]
             lone == [q EXCEPT !.dropped = @ \cup {u \in {t} : outcome = "deferred"}]
             lt == [l EXCEPT !.answers = @ \cup {t}]
             r == IF outcome = "answered" THEN AfterLua(full, lt)
                  ELSE IF kept THEN AfterLua(full, l) ELSE AfterLua(lone, l)
  <1>1. Half(a, n, {<<n, i>>}, {}) /\ Aware(a)
    BY AskLemma DEF Aware, SameFocus
  <1>2. CASE ~s.hook
    <2>1. HandleScreencastSelect(s, n, i, outcome, kept, l) = Finish(a, n, i)
      BY <1>2 DEF HandleScreencastSelect
    <2> HIDE DEF a
    <2> QED
      BY <1>1, <2>1, FinishLemma DEF Aware, SameFocus
  <1>3. CASE s.hook
    <2>0. t \in 0 .. MaxTokens /\ t + 1 \in 0 .. MaxTokens
      BY ServerFields DEF Half, IpcAssumption
    <2>1. HandleScreencastSelect(s, n, i, outcome, kept, l)
            = IF outcome = "failed" /\ WithToken(r, {t}) # {} THEN AnswerAll(r, WithToken(r, {t})) ELSE r
      BY <1>3 DEF HandleScreencastSelect
    <2>2. IsRun(l) /\ IsRun(lt)
      <3>1. IsRun(l)
        BY RunsLemma
      <3>2. lt.focus = l.focus
        BY DEF Runs, Run
      <3> QED
        BY <3>1, <3>2 DEF IsRun
    <2> HIDE DEF lt, t
    <2>3. Half(q, n, {}, {t}) /\ Aware(q)
      <3> HIDE DEF a
      <3>1. Half(q, n, {}, {t}) /\ SameFocus(q, a)
        BY <1>1, <2>0, EnterLemma
      <3> HIDE DEF q
      <3> QED
        BY <1>1, <3>1 DEF Aware, SameFocus
    <2> HIDE DEF q
    <2>4. q \in Server /\ q.held \subseteq 0 .. MaxTokens /\ q.dropped \subseteq 0 .. MaxTokens
      BY <2>3, ServerFields DEF Half
    <2>5. /\ full \in Server /\ full.client = q.client /\ full.pending = q.pending
          /\ full.lastFocus = q.lastFocus /\ SameFocus(full, q) /\ Has(full) = Has(q) \cup {t}
      BY <2>0, <2>4 DEF Server, SameFocus, Has
    <2>6. /\ lone \in Server /\ lone.client = q.client /\ lone.pending = q.pending
          /\ lone.lastFocus = q.lastFocus /\ SameFocus(lone, q)
          /\ Has(lone) = IF outcome = "deferred" THEN Has(q) \cup {t} ELSE Has(q)
      <3> DEFINE d == q.dropped \cup {u \in {t} : outcome = "deferred"}
      <3>1. d \subseteq 0 .. MaxTokens /\ d = IF outcome = "deferred" THEN q.dropped \cup {t} ELSE q.dropped
        BY <2>0, <2>4
      <3> HIDE DEF d
      <3>2. /\ [q EXCEPT !.dropped = d] \in Server
            /\ [q EXCEPT !.dropped = d].client = q.client /\ [q EXCEPT !.dropped = d].pending = q.pending
            /\ [q EXCEPT !.dropped = d].lastFocus = q.lastFocus
            /\ SameFocus([q EXCEPT !.dropped = d], q)
            /\ Has([q EXCEPT !.dropped = d]) = q.held \cup d
        BY <2>4, <3>1 DEF Server, SameFocus, Has
      <3> QED
        BY <3>1, <3>2 DEF d, Has
    <2> HIDE DEF full, lone
    <2>7. Half(full, n, {}, {}) /\ Aware(full)
      <3>1. \A x \in q.pending : x.token \in Has(q) \cup {t} => x.token \in Has(full) \cup {}
        BY <2>5
      <3> QED
        BY <2>3, <2>5, <3>1, SameClientsLemma DEF Aware, SameFocus
    <2>8. Half(lone, n, {}, {t}) /\ Aware(lone)
          /\ (outcome = "deferred" => Half(lone, n, {}, {}))
      <3>1. \A x \in q.pending : x.token \in Has(q) \cup {t} => x.token \in Has(lone) \cup {t}
        BY <2>6
      <3>2. outcome = "deferred" =>
               \A x \in q.pending : x.token \in Has(q) \cup {t} => x.token \in Has(lone) \cup {}
        BY <2>6
      <3> QED
        BY <2>3, <2>6, <3>1, <3>2, SameClientsLemma DEF Aware, SameFocus
    <2>9. CASE outcome = "answered"
      <3>1. r = AfterLua(full, lt)
        BY <2>9
      <3> HIDE DEF r
      <3>2. Half(r, n, {}, {}) /\ Swept(r) /\ Aware(r)
        BY <3>1, <2>2, <2>7, AfterLuaLemma, AwareLemma
      <3> QED
        BY <2>1, <2>9, <3>2
    <2>10. CASE outcome = "deferred"
      <3>1. r = IF kept THEN AfterLua(full, l) ELSE AfterLua(lone, l)
        BY <2>10
      <3> HIDE DEF r
      <3>2. Half(r, n, {}, {}) /\ Swept(r) /\ Aware(r)
        BY <2>10, <3>1, <2>2, <2>7, <2>8, AfterLuaLemma, AwareLemma
      <3> QED
        BY <2>1, <2>10, <3>2
    <2>11. CASE outcome = "failed"
      <3> DEFINE ps == WithToken(r, {t})
      <3>1. r = IF kept THEN AfterLua(full, l) ELSE AfterLua(lone, l)
        BY <2>11
      <3> HIDE DEF r
      <3>2. Half(full, n, {}, {t})
        <4>1. \A x \in q.pending : x.token \in Has(q) \cup {t} => x.token \in Has(full) \cup {t}
          BY <2>5
        <4> QED
          BY <2>3, <2>5, <4>1, SameClientsLemma
      <3>3. Half(r, n, {}, {t}) /\ Swept(r) /\ Aware(r)
        BY <3>1, <3>2, <2>2, <2>7, <2>8, AfterLuaLemma, AwareLemma
      <3>4. ps \subseteq r.pending /\ \A x \in r.pending \ ps : x.token \in Has(r) \cup {}
        BY <3>3 DEF WithToken, Half, Waiting
      <3>5. CASE ps # {}
        <4>1. HandleScreencastSelect(s, n, i, outcome, kept, l) = AnswerAll(r, ps)
          BY <2>1, <2>11, <3>5
        <4> DEFINE z == AnswerAll(r, ps)
        <4> HIDE DEF ps
        <4>2. Half(z, n, {}, {}) /\ Swept(z) /\ SameFocus(z, r)
          BY <3>3, <3>4, AnswerAllLemma
        <4> HIDE DEF z
        <4>3. Aware(z)
          BY <3>3, <4>2 DEF Aware, SameFocus
        <4> QED
          BY <4>1, <4>2, <4>3 DEF z
      <3>6. CASE ps = {}
        <4>1. HandleScreencastSelect(s, n, i, outcome, kept, l) = r
          BY <2>1, <3>6
        <4>2. Waiting(r, n, {})
          BY <3>3, <3>4, <3>6 DEF Half, Waiting
        <4>3. Half(r, n, {}, {})
          BY <3>3, <4>2 DEF Half
        <4> QED
          BY <4>1, <4>3, <3>3
      <3> QED
        BY <3>5, <3>6
    <2> QED
      BY <2>9, <2>10, <2>11 DEF Outcome
  <1> QED
    BY <1>2, <1>3 DEF Half, Server

LEMMA ServerSettledLemma ==
    ASSUME NEW s, NEW m, Half(s, m, {}, {}), Swept(s), Aware(s)
    PROVE  ServerSettled(s, m)
  BY DEF ServerSettled, Swept, Half, Accounts

\* dispatch, whatever the line.
LEMMA DispatchLemma ==
    ASSUME IpcAssumption, NEW s, NEW n \in Conns, NEW line \in Line, NEW t \in Dispatched(s, n, line),
           ServerSettled(s, n),
           line.method = "screencast_select" => s.nextToken < MaxTokens,
           "id" \in DOMAIN line => s.client[n].req[line.id] # "asked"
    PROVE  ServerSettled(t, n)
  <1>1. Half(s, n, {}, {}) /\ Aware(s)
    BY DEF ServerSettled
  <1>2. CASE line.method = "serve_no_id"
    <2>1. PICK l \in Runs(s.held) : t = AfterLua(s, l)
      BY <1>2 DEF Dispatched
    <2>2. IsRun(l)
      BY RunsLemma
    <2> QED
      BY <1>1, <2>1, <2>2, AfterLuaLemma, AwareLemma, ServerSettledLemma
  <1>3. CASE line.method # "serve_no_id"
    <2> DEFINE i == line.id
               a == Ask(s, n, i)
    <2>1. i \in Ids /\ line.method \in {"builtin", "subscribe", "serve", "screencast_select"}
          /\ "id" \in DOMAIN line
      BY <1>3 DEF Line
    <2>2. s.client[n].req[i] # "asked"
      BY <2>1
    <2>3. Half(a, n, {<<n, i>>}, {}) /\ Aware(a)
      BY <1>1, <2>1, <2>2, AskLemma DEF Aware, SameFocus
    <2>4. CASE line.method = "builtin"
      <3>1. t = Finish(a, n, i)
        BY <2>4 DEF Dispatched
      <3> HIDE DEF a, i
      <3>2. Half(t, n, {}, {}) /\ Swept(t) /\ Aware(t)
        BY <2>1, <2>3, <3>1, FinishLemma DEF Aware, SameFocus
      <3> QED
        BY <3>2, ServerSettledLemma
    <2>5. CASE line.method = "subscribe"
      <3>1. PICK events \in Filters : t = Subscribe(s, n, i, events)
        BY <2>5 DEF Dispatched
      <3>2. CASE IsOpen(s, n)
        <4> HIDE DEF a, i
        <4> QED
          BY <1>1, <2>1, <2>2, <3>1, <3>2, SubscribeLemma, ServerSettledLemma DEF Aware, SameFocus
      <3>3. CASE ~IsOpen(s, n)
        BY <3>1, <3>3 DEF Subscribe, IsOpen
      <3> QED
        BY <3>2, <3>3
    <2>6. CASE line.method = "serve"
      <3>1. PICK l \in Runs(s.held) : t = Finish(AfterLua(a, l), n, i)
        BY <2>6 DEF Dispatched
      <3> DEFINE b == AfterLua(a, l)
      <3>2. IsRun(l)
        BY <3>1, RunsLemma
      <3> HIDE DEF a, i
      <3>3. Half(b, n, {<<n, i>>}, {}) /\ Aware(b)
        BY <2>3, <3>2, AfterLuaLemma, AwareLemma
      <3> HIDE DEF b
      <3>4. t = Finish(b, n, i)
        BY <3>1 DEF b
      <3> QED
        BY <2>1, <3>3, <3>4, FinishLemma, ServerSettledLemma DEF Aware, SameFocus
    <2>7. CASE line.method = "screencast_select"
      <3>1. PICK outcome \in Outcome, kept \in BOOLEAN, l \in Runs(s.held) :
                t = HandleScreencastSelect(s, n, i, outcome, kept, l)
        BY <2>7 DEF Dispatched
      <3>2. s.nextToken < MaxTokens
        BY <2>7
      <3> HIDE DEF i
      <3> QED
        BY <1>1, <2>1, <2>2, <3>1, <3>2, ScreencastLemma, ServerSettledLemma
    <2> QED
      BY <2>1, <2>4, <2>5, <2>6, <2>7
  <1> QED
    BY <1>2, <1>3

-----------------------------------------------------------------------------
(* The actions.                                                            *)

LEMMA InitLemma == IpcAssumption /\ IpcInit => ServerInv
  <1> SUFFICES ASSUME IpcAssumption, IpcInit PROVE ServerInv
    OBVIOUS
  <1>1. Fresh \in Client /\ Fresh.phase = "new" /\ \A i \in Ids : Fresh.req[i] = "idle"
    <2>1. [i \in Ids |-> "idle"] \in [Ids -> ReqState] /\ 0 \in 0 .. Room
      BY DEF ReqState, IpcAssumption
    <2> QED
      BY <2>1 DEF Fresh, Client
  <1>2. /\ srv.client = [n \in Conns |-> Fresh] /\ srv.pending = {}
        /\ srv.nextToken = 0 /\ srv.hook = TRUE /\ srv.lastFocus = NoWindow /\ srv.focus = NoWindow
        /\ Aware(srv)
    BY DEF IpcInit, Aware
  <1>3. srv \in Server
    <2>1. [n \in Conns |-> Fresh] \in [Conns -> Client] /\ 0 \in 0 .. MaxTokens
      BY <1>1 DEF IpcAssumption
    <2> QED
      BY <2>1 DEF IpcInit, Server
  <1>4. \A n \in Conns : srv.client[n] = Fresh /\ ~IsOpen(srv, n)
    BY <1>1, <1>2 DEF IsOpen
  <1>5. reading = Idle /\ reading \in Reading /\ reading.conn \notin Conns
    BY DEF IpcInit, Reading, Idle, IpcAssumption
  <1>6. Accounts(srv, {})
    BY <1>1, <1>2, <1>4 DEF Accounts
  <1>7. Waiting(srv, reading.conn, {}) /\ Bounded(srv)
    BY <1>2, <1>4 DEF Waiting, Bounded
  <1>8. Told(srv) /\ Unused(srv, reading.conn)
    BY <1>1, <1>4, <1>5 DEF Told, Wants, Unused
  <1> QED
    BY <1>2, <1>3, <1>4, <1>5, <1>6, <1>7, <1>8 DEF ServerInv, ServerSettled, Half

\* What the reading position is, and that it only matters while there is one.
LEMMA ReadingLemma ==
    ASSUME IpcAssumption, reading \in Reading
    PROVE  /\ reading # Idle => reading.conn \in Conns /\ reading.left \in 0 .. MaxLines
           /\ reading.left # 0 => reading # Idle
           /\ reading = Idle => reading.conn \notin Conns /\ reading.conn = "none"
  BY DEF Reading, Idle, IpcAssumption

\* One client's buffers or flags change, and nothing that is owed.
LEMMA OneClientLemma ==
    ASSUME IpcAssumption, NEW s, NEW n \in Conns, NEW d \in Client, NEW m,
           ServerSettled(s, m), s.client[n].phase # "new",
           d.phase = s.client[n].phase, d.events = s.client[n].events, d.told = s.client[n].told,
           d.req = s.client[n].req,
           s.client[n].dead => d.dead, d.dead => s.client[n].dead \/ n = m,
           d.out <= s.client[n].out
    PROVE  ServerSettled([s EXCEPT !.client[n] = d], m)
  <1> DEFINE cl == [s.client EXCEPT ![n] = d]
             t == [s EXCEPT !.client = cl]
  <1>0. s \in Server /\ s.client \in [Conns -> Client] /\ Half(s, m, {}, {})
    BY ServerFields DEF Half, ServerSettled
  <1>1. [s EXCEPT !.client[n] = d] = t
    BY DEF Server
  <1>2. cl \in [Conns -> Client] /\ cl[n] = d /\ \A k \in Conns \ {n} : cl[k] = s.client[k]
    BY <1>0
  <1> HIDE DEF cl
  <1>3. /\ t \in Server /\ t.client = cl /\ t.pending = s.pending /\ Has(t) = Has(s)
        /\ t.lastFocus = s.lastFocus /\ SameFocus(t, s)
    BY <1>0, <1>2 DEF Server, Has, SameFocus
  <1> HIDE DEF t
  <1>4. \A k \in Conns : /\ t.client[k].phase = s.client[k].phase
                         /\ s.client[k].phase = "new" => t.client[k] = s.client[k]
                         /\ t.client[k].events = s.client[k].events
                         /\ t.client[k].told = s.client[k].told
                         /\ t.client[k].req = s.client[k].req
                         /\ s.client[k].dead => t.client[k].dead
                         /\ t.client[k].dead => s.client[k].dead \/ k = m
                         /\ t.client[k].out <= s.client[k].out
    <2>1. \A k \in Conns : s.client[k].out <= s.client[k].out
      BY <1>0 DEF Client
    <2> QED
      BY <1>2, <1>3, <2>1
  <1>5. ASSUME NEW k \in Conns
        PROVE  s.client[k].out <= MaxOut => t.client[k].out <= MaxOut
    <2>1. s.client[k].out \in Nat /\ t.client[k].out \in Nat
      BY <1>0, <1>2, <1>3 DEF Client
    <2> QED
      BY <1>4, <2>1 DEF IpcAssumption
  <1>6. Told(t)
    BY <1>0, <1>3, <1>4 DEF Half, Told, Wants
  <1>7. Evolves(s, t, {})
    <2>1. t.pending = s.pending \ {}
      BY <1>3
    <2>2. ASSUME NEW k \in Conns
          PROVE  /\ s.client[k].dead => t.client[k].dead
                 /\ s.client[k].out <= MaxOut /\ ~t.client[k].dead => t.client[k].out <= MaxOut
      BY <1>4, <1>5
    <2> QED
      BY <1>3, <1>4, <1>6, <2>1, <2>2 DEF Evolves
  <1>8. \A p \in t.pending : p.token \in Has(t) \cup {}
    BY <1>0, <1>3 DEF Half, Waiting
  <1>9. Half(t, m, {}, {})
    BY <1>0, <1>7, <1>8, EvolveLemma
  <1>10. ServerSettled(t, m)
    BY <1>3, <1>4, <1>9 DEF ServerSettled, IsOpen, Aware, SameFocus
  <1> QED
    BY <1>1, <1>10

LEMMA AcceptLemma ==
    ASSUME IpcAssumption, ServerInv, NEW n \in Conns, Accept(n)
    PROVE  ServerInv'
  <1>0. /\ reading = Idle /\ reading' = Idle /\ reading' \in Reading /\ reading.conn \notin Conns
        /\ srv.client[n].phase = "new"
    BY ReadingLemma DEF ServerInv, Accept
  <1>1. PICK ph \in {"open", "gone"} : srv' = [srv EXCEPT !.client[n].phase = ph]
    BY DEF Accept
  <1> DEFINE d == [srv.client[n] EXCEPT !.phase = ph]
             cl == [srv.client EXCEPT ![n] = d]
             t == [srv EXCEPT !.client = cl]
             m == reading.conn
  <1>2. srv \in Server /\ srv.client \in [Conns -> Client] /\ Half(srv, m, {}, {})
    BY ServerFields DEF ServerInv, ServerSettled, Half
  <1>3. srv' = t
    BY <1>1, <1>2 DEF Server
  <1>4. srv.client[n] = Fresh /\ Fresh \in Client
    BY <1>0, <1>2 DEF Half, Unused
  <1>5. /\ d \in Client /\ d.phase = ph /\ d.events = {} /\ ~d.dead /\ d.out = 0
        /\ \A i \in Ids : d.req[i] = "idle"
    <2>1. /\ Fresh.events = {} /\ ~Fresh.dead /\ Fresh.out = 0 /\ Fresh.req = [i \in Ids |-> "idle"]
      BY DEF Fresh
    <2>2. /\ d \in Client /\ d.phase = ph /\ d.events = Fresh.events /\ d.dead = Fresh.dead
          /\ d.out = Fresh.out /\ d.req = Fresh.req
      BY <1>1, <1>4 DEF Client
    <2> QED
      BY <2>1, <2>2
  <1> HIDE DEF d
  <1>6. cl \in [Conns -> Client] /\ cl[n] = d /\ \A k \in Conns \ {n} : cl[k] = srv.client[k]
    BY <1>2, <1>5
  <1> HIDE DEF cl
  <1>7. /\ t \in Server /\ t.client = cl /\ t.pending = srv.pending /\ Has(t) = Has(srv)
        /\ t.lastFocus = srv.lastFocus /\ SameFocus(t, srv)
    BY <1>2, <1>6 DEF Server, Has, SameFocus
  <1> HIDE DEF t
  <1>8. \A p \in srv.pending : p.conn \in Conns /\ p.id \in Ids /\ IsOpen(srv, p.conn) /\ p.conn # n
    BY <1>0, <1>2, ServerFields DEF Half, Waiting, IsOpen
  <1>9. Accounts(t, {})
    <2>1. \A k \in Conns, i \in Ids : t.client[k].req[i] # "twice"
      BY <1>2, <1>5, <1>6, <1>7 DEF Half, Accounts
    <2>2. \A k \in Conns, i \in Ids :
             IsOpen(t, k) /\ ~t.client[k].dead /\ t.client[k].req[i] = "asked" =>
                 \E p \in t.pending : p.conn = k /\ p.id = i
      BY <1>2, <1>5, <1>6, <1>7 DEF Half, Accounts, IsOpen
    <2>3. \A p, q \in t.pending :
             IsOpen(t, p.conn) /\ p.conn = q.conn /\ p.id = q.id => p = q
      BY <1>2, <1>6, <1>7, <1>8 DEF Half, Accounts, IsOpen
    <2>4. \A p \in t.pending :
             IsOpen(t, p.conn) => t.client[p.conn].req[p.id] = "asked"
      BY <1>2, <1>6, <1>7, <1>8 DEF Half, Accounts, IsOpen
    <2> QED
      BY <2>1, <2>2, <2>3, <2>4 DEF Accounts
  <1>10. Waiting(t, m, {})
    BY <1>2, <1>6, <1>7, <1>8 DEF Half, Waiting, IsOpen
  <1>11. Bounded(t)
    BY <1>2, <1>5, <1>6, <1>7 DEF Half, Bounded, IsOpen, IpcAssumption
  <1>12. Told(t)
    BY <1>2, <1>5, <1>6, <1>7 DEF Half, Told, Wants
  <1>13. Unused(t, m)
    BY <1>1, <1>2, <1>5, <1>6, <1>7 DEF Half, Unused
  <1>14. Half(t, m, {}, {})
    BY <1>7, <1>9, <1>10, <1>11, <1>12, <1>13 DEF Half
  <1>15. Swept(t)
    BY <1>0, <1>5, <1>6, <1>7 DEF ServerInv, ServerSettled, Swept, IsOpen
  <1>16. ServerSettled(t, m)
    <2>1. Aware(t)
      BY <1>7 DEF ServerInv, ServerSettled, Aware, SameFocus
    <2> QED
      BY <1>14, <1>15, <2>1, ServerSettledLemma
  <1> QED
    BY <1>0, <1>3, <1>16 DEF ServerInv

LEMMA ClientReadsLemma ==
    ASSUME IpcAssumption, ServerInv, NEW n \in Conns, ClientReads(n)
    PROVE  ServerInv'
  <1> DEFINE c == srv.client[n]
             d == [c EXCEPT !.wire = c.wire - 1]
  <1>1. /\ srv \in Server /\ c \in Client /\ Half(srv, reading.conn, {}, {})
    BY ServerFields DEF ServerInv, ServerSettled, Half
  <1>2. srv' = [srv EXCEPT !.client[n] = d] /\ UNCHANGED reading /\ c.wire > 0
    BY <1>1 DEF ClientReads, Server
  <1>3. c.wire - 1 \in 0 .. Room /\ c.out \in Nat
    BY <1>1, <1>2 DEF Client, IpcAssumption
  <1>4. c.phase # "new"
    BY <1>1, <1>2 DEF Half, Unused, Fresh
  <1>5. /\ d \in Client /\ d.phase = c.phase /\ d.events = c.events /\ d.told = c.told
        /\ d.req = c.req /\ d.dead = c.dead /\ d.out = c.out
    BY <1>1, <1>3 DEF Client
  <1> HIDE DEF d
  <1>6. ServerSettled([srv EXCEPT !.client[n] = d], reading.conn)
    BY <1>3, <1>4, <1>5, OneClientLemma DEF ServerInv
  <1> QED
    BY <1>2, <1>6 DEF ServerInv

LEMMA ClientHangsUpLemma ==
    ASSUME IpcAssumption, ServerInv, NEW n \in Conns, ClientHangsUp(n)
    PROVE  ServerInv'
  <1> DEFINE c == srv.client[n]
             d == [c EXCEPT !.hung = TRUE]
  <1>1. /\ srv \in Server /\ c \in Client /\ Half(srv, reading.conn, {}, {})
    BY ServerFields DEF ServerInv, ServerSettled, Half
  <1>2. srv' = [srv EXCEPT !.client[n] = d] /\ UNCHANGED reading /\ c.phase = "open"
    BY <1>1 DEF ClientHangsUp, Server
  <1>3. c.out \in Nat
    BY <1>1 DEF Client
  <1>5. /\ d \in Client /\ d.phase = c.phase /\ d.events = c.events /\ d.told = c.told
        /\ d.req = c.req /\ d.dead = c.dead /\ d.out = c.out
    BY <1>1 DEF Client
  <1> HIDE DEF d
  <1>6. ServerSettled([srv EXCEPT !.client[n] = d], reading.conn)
    BY <1>2, <1>3, <1>5, OneClientLemma DEF ServerInv
  <1> QED
    BY <1>2, <1>6 DEF ServerInv

\* read_client is the one callback that may leave its client dead and not swept,
\* until its end.
LEMMA ReadClientLemma ==
    ASSUME IpcAssumption, ServerInv, NEW n \in Conns, ReadClient(n)
    PROVE  ServerInv'
  <1> DEFINE c == srv.client[n]
             d == Flush(c)
             m == reading.conn
  <1>1. /\ srv \in Server /\ c \in Client /\ Half(srv, m, {}, {})
    BY ServerFields DEF ServerInv, ServerSettled, Half
  <1>2. /\ srv' = [srv EXCEPT !.client[n] = d] /\ c.phase = "open" /\ reading = Idle
        /\ \E lines \in 0 .. MaxLines : reading' = [conn |-> n, left |-> lines]
    BY <1>1 DEF ReadClient, Server
  <1>3. m \notin Conns /\ reading' \in Reading /\ (reading').conn = n
    BY <1>2, ReadingLemma DEF Reading, ServerInv
  <1>4. ServerSettled(srv, n)
    <2>1. Waiting(srv, n, {}) /\ Unused(srv, n)
      BY <1>1, <1>2, <1>3, ServerFields DEF Half, Waiting, Unused
    <2>2. Half(srv, n, {}, {})
      BY <1>1, <2>1 DEF Half
    <2> QED
      BY <1>3, <2>2 DEF ServerInv, ServerSettled
  <1>5. /\ d \in Client /\ d.phase = c.phase /\ d.events = c.events /\ d.told = c.told
        /\ d.req = c.req /\ (c.dead => d.dead) /\ d.out <= c.out
    <2> HIDE DEF c
    <2> QED BY <1>1, FlushLemma
  <1> HIDE DEF d
  <1>6. ServerSettled([srv EXCEPT !.client[n] = d], n)
    BY <1>2, <1>4, <1>5, OneClientLemma
  <1> QED
    BY <1>2, <1>3, <1>6 DEF ServerInv

LEMMA DispatchLineLemma ==
    ASSUME IpcAssumption, ServerInv, DispatchLine
    PROVE  ServerInv'
  <1>1. reading.left > 0 /\ reading' = [reading EXCEPT !.left = @ - 1]
    BY DEF DispatchLine
  <1>2. reading # Idle /\ reading.conn \in Conns /\ reading.left \in 0 .. MaxLines
    BY <1>1, ReadingLemma DEF ServerInv, Idle
  <1>3. reading \in [conn : Conns, left : 0 .. MaxLines]
    BY <1>2 DEF ServerInv, Reading
  <1>4. reading' \in Reading /\ (reading').conn = reading.conn
    BY <1>1, <1>2, <1>3 DEF Reading, IpcAssumption
  <1>5. PICK line \in Line :
            /\ line.method = "screencast_select" => srv.nextToken < MaxTokens
            /\ "id" \in DOMAIN line => srv.client[reading.conn].req[line.id] # "asked"
            /\ srv' \in Dispatched(srv, reading.conn, line)
    BY DEF DispatchLine
  <1>6. ServerSettled(srv', reading.conn)
    BY <1>2, <1>5, DispatchLemma DEF ServerInv
  <1> QED
    BY <1>4, <1>6 DEF ServerInv

\* The end of read_client removes its client if it died.
LEMMA ReadDoneLemma ==
    ASSUME IpcAssumption, ServerInv, ReadDone
    PROVE  ServerInv'
  <1> DEFINE n == reading.conn
             r == Remove(srv, {n})
  <1>1. n \in Conns /\ reading' = Idle /\ (reading').conn = "none" /\ "none" \notin Conns
    BY ReadingLemma DEF ServerInv, ReadDone, Idle, IpcAssumption
  <1>2. srv' = r \/ (srv' = srv /\ IsOpen(srv, n) /\ ~srv.client[n].dead)
    BY DEF ReadDone, IsOpen
  <1>3. Half(srv, n, {}, {}) /\ Aware(srv)
    BY DEF ServerInv, ServerSettled
  <1>4. CASE srv' = r
    <2> HIDE DEF n
    <2>1. /\ Half(r, n, {}, {})
          /\ \A k \in Conns : r.client[k] = IF k \in {n} THEN Gone ELSE srv.client[k]
          /\ r.pending = {p \in srv.pending : p.conn \notin {n}}
          /\ SameFocus(r, srv)
      <3>1. Half(srv, n, {}, {}) /\ r = Remove(srv, {n})
        BY <1>3
      <3> HIDE DEF r
      <3> QED
        BY <3>1, RemoveLemma DEF SameFocus, Has
    <2> HIDE DEF r
    <2>2. Gone.phase = "gone"
      BY DEF Gone, Fresh
    <2>3. Waiting(r, "none", {}) /\ Unused(r, "none")
      BY <1>1, <2>1 DEF Half, Waiting, Unused
    <2>4. Half(r, "none", {}, {})
      BY <2>1, <2>3 DEF Half
    <2>5. Swept(r)
      BY <2>1, <2>2 DEF ServerInv, ServerSettled, Swept, IsOpen, n
    <2>6. ServerSettled(r, "none")
      <3>1. Aware(r)
        BY <1>3, <2>1 DEF Aware, SameFocus
      <3> QED
        BY <2>4, <2>5, <3>1, ServerSettledLemma
    <2> QED
      BY <1>1, <1>4, <2>6 DEF ServerInv, Reading
  <1>5. CASE srv' = srv /\ IsOpen(srv, n) /\ ~srv.client[n].dead
    <2>1. Waiting(srv, "none", {}) /\ Unused(srv, "none")
      BY <1>1, <1>3, <1>5 DEF Half, Waiting, Unused
    <2>2. Half(srv, "none", {}, {})
      BY <1>3, <2>1 DEF Half
    <2>3. Swept(srv)
      BY <1>5 DEF ServerInv, ServerSettled, Swept
    <2>4. ServerSettled(srv, "none")
      BY <1>3, <2>2, <2>3, ServerSettledLemma
    <2> QED
      BY <1>1, <1>5, <2>4 DEF ServerInv, Reading
  <1> QED
    BY <1>2, <1>4, <1>5

\* The compositor's own callbacks: a focus call, a Lua entry, an event.
LEMMA CompositorLemma ==
    ASSUME IpcAssumption, ServerInv, InputFocus \/ LuaEntry \/ CloseWidget \/ CoreEvent
    PROVE  ServerInv'
  <1> DEFINE m == reading.conn
  <1>1. Half(srv, m, {}, {}) /\ Aware(srv)
    BY DEF ServerInv, ServerSettled
  <1>2. CASE InputFocus
    <2>1. PICK w \in FocusIds \cup {NoWindow}, l \in Runs(srv.held) : Compositor(FocusWindow(srv, w, l))
      BY <1>2 DEF InputFocus
    <2>2. srv' = FocusWindow(srv, w, l) /\ UNCHANGED reading
      BY <2>1 DEF Compositor
    <2>3. IsRun(l)
      BY RunsLemma
    <2>4. ServerSettled(srv', m)
      BY <1>1, <2>2, <2>3, FocusWindowLemma, ServerSettledLemma
    <2> QED
      BY <2>2, <2>4 DEF ServerInv
  <1>3. CASE LuaEntry
    <2>1. PICK l \in Runs(srv.held) : Compositor(AfterLua(srv, l))
      BY <1>3 DEF LuaEntry
    <2>2. srv' = AfterLua(srv, l) /\ UNCHANGED reading
      BY <2>1 DEF Compositor
    <2>3. IsRun(l)
      BY RunsLemma
    <2>4. ServerSettled(srv', m)
      BY <1>1, <2>2, <2>3, AfterLuaLemma, AwareLemma, ServerSettledLemma
    <2> QED
      BY <2>2, <2>4 DEF ServerInv
  <1>4. CASE CoreEvent
    <2>1. srv' = Broadcast(srv, "other") /\ UNCHANGED reading
      BY <1>4 DEF CoreEvent, Compositor
    <2>2. ServerSettled(srv', m)
      BY <1>1, <2>1, BroadcastLemma, ServerSettledLemma DEF Aware, SameFocus
    <2> QED
      BY <2>1, <2>2 DEF ServerInv
  <1>5. CASE CloseWidget
    <2>1. PICK tokens : srv' = Dropped(srv, tokens) /\ UNCHANGED reading
      BY <1>5 DEF CloseWidget, Compositor
    <2> DEFINE t == Dropped(srv, tokens)
    <2>2. /\ Half(t, m, {}, {}) /\ t.client = srv.client /\ t.pending = srv.pending /\ SameFocus(t, srv)
      BY <1>1, DroppedLemma
    <2> HIDE DEF t
    <2>3. ServerSettled(t, m)
      BY <1>1, <2>2 DEF ServerInv, ServerSettled, IsOpen, Aware, SameFocus
    <2> QED
      BY <2>1, <2>3 DEF ServerInv, t
  <1> QED
    BY <1>2, <1>3, <1>4, <1>5

LEMMA StepLemma ==
    ASSUME IpcAssumption, ServerInv, [IpcNext]_ipcVars
    PROVE  ServerInv'
  <1>1. CASE \E n \in Conns : Accept(n) \/ ClientReads(n) \/ ClientHangsUp(n) \/ ReadClient(n)
    BY <1>1, AcceptLemma, ClientReadsLemma, ClientHangsUpLemma, ReadClientLemma
  <1>2. CASE DispatchLine \/ ReadDone
    BY <1>2, DispatchLineLemma, ReadDoneLemma
  <1>3. CASE InputFocus \/ LuaEntry \/ CloseWidget \/ CoreEvent
    BY <1>3, CompositorLemma
  <1>4. CASE UNCHANGED ipcVars
    BY <1>4 DEF ServerInv, ipcVars
  <1> QED
    BY <1>1, <1>2, <1>3, <1>4 DEF IpcNext

-----------------------------------------------------------------------------
(* The theorems.                                                           *)

\* What the inductive invariant says of the socket.
LEMMA ImpliesLemma ==
    ASSUME IpcAssumption, ServerInv
    PROVE  IpcInv /\ SubscribersKnowFocus
  <1> DEFINE m == reading.conn
  <1>1. /\ srv \in Server /\ reading \in Reading /\ Half(srv, m, {}, {})
    BY DEF ServerInv, ServerSettled, Half
  <1>2. IpcTypeOK
    BY <1>1 DEF IpcTypeOK
  <1>3. OneResponse
    <2>1. ASSUME NEW n \in Conns, NEW i \in Ids,
                 srv.client[n].phase = "open", srv.client[n].req[i] = "asked"
          PROVE  Cardinality({p \in srv.pending : p.conn = n /\ p.id = i}) = 1
      <3>1. PICK p \in srv.pending : p.conn = n /\ p.id = i
        BY <2>1 DEF ServerInv, ServerSettled, IsOpen
      <3>2. \A q \in srv.pending : q.conn = n /\ q.id = i => q = p
        BY <1>1, <2>1, <3>1 DEF Half, Accounts, IsOpen
      <3>3. {q \in srv.pending : q.conn = n /\ q.id = i} = {p}
        BY <3>1, <3>2
      <3> QED
        BY <3>3, FS_Singleton
    <2>2. \A n \in Conns, i \in Ids : srv.client[n].req[i] # "twice"
      BY <1>1 DEF Half, Accounts
    <2> QED
      BY <2>1, <2>2 DEF OneResponse
  <1>4. PendingAnswerable
    BY <1>1 DEF Half, Accounts, Waiting, PendingAnswerable, IsOpen, Has
  <1>5. BacklogBounded
    <2>1. reading = Idle => m \notin Conns
      BY <1>1, ReadingLemma
    <2> QED
      BY <1>1, <2>1 DEF ServerInv, ServerSettled, Half, Bounded, BacklogBounded, IsOpen
  <1>6. SubscribersKnowFocus
    BY <1>1 DEF ServerInv, ServerSettled, Aware, Half, Told, SubscribersKnowFocus
  <1> QED
    BY <1>2, <1>3, <1>4, <1>5, <1>6 DEF IpcInv

\* The accounts of the server are kept by every callback: an answer owed is owed
\* by one entry, and only the client that is being read may be dead.
THEOREM ServerInvariant == ASSUME IpcAssumption PROVE IpcSpec => []ServerInv
  <1>1. IpcInit => ServerInv
    BY InitLemma
  <1>2. ServerInv /\ [IpcNext]_ipcVars => ServerInv'
    BY StepLemma
  <1> QED
    BY <1>1, <1>2, PTL DEF IpcSpec

\* Every request of a connected client is answered once or waits in one entry,
\* whose object the running VM holds or threw away itself, and no backlog outgrows
\* MAX_OUTGOING.
THEOREM IpcPromises == ASSUME IpcAssumption PROVE IpcSpec => []IpcInv
  <1>1. ServerInv => IpcInv
    BY ImpliesLemma
  <1> QED
    BY <1>1, ServerInvariant, PTL

\* Whoever listens for focus_change believes the focus there is, unless a hook
\* moved it on while the older change was still to be announced.
THEOREM FocusTold == ASSUME IpcAssumption PROVE IpcSpec => []SubscribersKnowFocus
  <1>1. ServerInv => SubscribersKnowFocus
    BY ImpliesLemma
  <1> QED
    BY <1>1, ServerInvariant, PTL
=============================================================================
