----------------------------- MODULE Screencopy -----------------------------
(***************************************************************************)
(* wlr-screencopy (protocols/screencopy.rs) and its fulfilment             *)
(* (render_screencopy, render_queued_screencopies in capture.rs).          *)
(*                                                                         *)
(* A manager is used by one client.  Objects die with the client at once;  *)
(* their destructors run later, in any order, between other callbacks.     *)
(***************************************************************************)
EXTENDS Heads, Queues

CONSTANTS Managers, Frames, Nothing

VARIABLES manager,   \* "none", "alive", "dead" (destructor owed), "gone"
          queue,     \* ScreencopyManagerState.queues
          frame,     \* the frame objects
          seen       \* per queue, the head whose content the tracker has seen

screencopy == <<manager, queue, frame, seen>>

-----------------------------------------------------------------------------
Queue == [pending : SUBSET Frames, waiting : Seq(Frames)]
EmptyQueue == [pending |-> {}, waiting |-> <<>>]

\* told: the terminal event the client got.  fence: copied, the GPU is not done.
Frame == [life : {"none", "alive", "dead", "gone"}, manager : Managers \cup {Nothing},
          head : Heads \cup {Nothing}, size : Sizes \cup {Nothing},
          copied : BOOLEAN, fence : BOOLEAN, told : {"none", "ready", "failed", "twice"}]
NoFrame == [life |-> "none", manager |-> Nothing, head |-> Nothing, size |-> Nothing,
            copied |-> FALSE, fence |-> FALSE, told |-> "none"]

ASSUME ScreencopyAssumption == Nothing \notin Managers \cup Heads \cup Sizes \cup Queue

Holds(m, f) == /\ queue[m] # Nothing
               /\ \/ f \in queue[m].pending
                  \/ \E i \in 1 .. Len(queue[m].waiting) : queue[m].waiting[i] = f
IsEmpty(q) == q.pending = {} /\ q.waiting = <<>>

\* A terminal event; the client hears none after its object is dead.
Tell(x, what) == IF x.life # "alive" THEN x
                 ELSE [x EXCEPT !.told = IF @ = "none" THEN what ELSE "twice"]

\* What became of a Screencopy: submitted, waiting for its fence, or dropped.
Outcomes == {"submitted", "fenced", "dropped"}
SettledEarly(x, o) == \* Fault: ready before the fence signals
    IF o = "dropped" THEN Tell(x, "failed") ELSE [Tell(x, "ready") EXCEPT !.fence = o = "fenced"]
Settled(x, o) == CASE o = "submitted" -> Tell(x, "ready")
                   [] o = "fenced"    -> [x EXCEPT !.fence = TRUE]
                   [] o = "dropped"   -> Tell(x, "failed")

\* cleanup_queues
CleanUp(qs) == [m \in Managers |->
                   IF qs[m] # Nothing /\ manager[m] # "alive" /\ IsEmpty(qs[m])
                   THEN Nothing ELSE qs[m]]

-----------------------------------------------------------------------------
ScreencopyInit ==
    /\ manager = [m \in Managers |-> "none"]
    /\ queue = [m \in Managers |-> Nothing]
    /\ frame = [f \in Frames |-> NoFrame]
    /\ seen = [m \in Managers |-> Nothing]

Bind(m) ==
    /\ manager[m] = "none"
    /\ manager' = [manager EXCEPT ![m] = "alive"]
    /\ queue' = [queue EXCEPT ![m] = EmptyQueue]
    /\ UNCHANGED <<frame, seen>>

\* capture_output of a head that is gone: its wl_output may still resolve, with
\* the mode it had.  A region outside of the output fails as well.
CaptureOutput(m, f, h) ==
    /\ manager[m] = "alive" /\ frame[f].life = "none" /\ size[h] # "new"
    /\ LET made == [NoFrame EXCEPT !.life = "alive", !.manager = m, !.head = h]
       IN  \/ /\ frame' = [frame EXCEPT ![f] = Tell(made, "failed")]
              /\ UNCHANGED queue
           \/ \E s \in IF Present(h) THEN {size[h]} ELSE Sizes :
                 /\ frame' = [frame EXCEPT ![f] = [made EXCEPT !.size = s]]
                 /\ queue' = [queue EXCEPT ![m].pending = @ \cup {f}]
    /\ UNCHANGED <<manager, seen>>

\* The client's connection ends; all of its objects are dead.
Die(m) ==
    /\ manager' = [manager EXCEPT ![m] = IF @ = "alive" THEN "dead" ELSE @]
    /\ frame' = [f \in Frames |->
                    IF frame[f].manager = m /\ frame[f].life = "alive"
                    THEN [frame[f] EXCEPT !.life = "dead"] ELSE frame[f]]

Requestable(f) == frame[f].life = "alive" /\ frame[f].size # Nothing

\* A second copy, or a buffer that does not fit the frame: a protocol error.
CopyRefused(f, s) ==
    /\ Requestable(f)
    /\ frame[f].copied \/ s # frame[f].size
    /\ Die(frame[f].manager)
    /\ UNCHANGED <<queue, seen>>

\* By this point the frame was answered, fenced or queued.
NotPending(qs, m, f) ==
    LET q == [qs[m] EXCEPT !.pending = @ \ {f}]
    IN  [qs EXCEPT ![m] = IF IsEmpty(q) /\ manager[m] # "alive" THEN Nothing ELSE q]

CopyWithDamage(f, s) ==
    /\ Requestable(f) /\ ~frame[f].copied /\ s = frame[f].size
    /\ LET m == frame[f].manager
           x == [frame[f] EXCEPT !.copied = TRUE]
       IN  IF Present(x.head)
           THEN /\ queue' = NotPending([queue EXCEPT ![m].waiting = Append(@, f)], m, f)
                /\ frame' = [frame EXCEPT ![f] = x]
           ELSE /\ queue' = NotPending(queue, m, f)
                /\ frame' = [frame EXCEPT ![f] = Settled(x, "dropped")]
    /\ UNCHANGED <<manager, seen>>

\* copy: rendered at once with the tracker of the queue; an error renews it, a
\* missing renderer or head does not.
Copy(f, s) ==
    /\ Requestable(f) /\ ~frame[f].copied /\ s = frame[f].size
    /\ LET m == frame[f].manager
           x == [frame[f] EXCEPT !.copied = TRUE]
       IN  /\ \E o \in IF Present(x.head) THEN Outcomes ELSE {"dropped"} :
                 /\ frame' = [frame EXCEPT ![f] = Settled(x, o)]
                 /\ \E h \in IF o = "dropped" THEN {Nothing, seen[m]} ELSE {x.head} :
                       seen' = [seen EXCEPT ![m] = h]
           /\ queue' = NotPending(queue, m, f)
    /\ UNCHANGED manager

\* The sync fence of a direct-to-dmabuf render signals.
FenceSignalled(f) ==
    /\ frame[f].fence
    /\ frame' = [frame EXCEPT ![f] = Tell([@ EXCEPT !.fence = FALSE], "ready")]
    /\ UNCHANGED <<manager, queue, seen>>

\* The scene of h changes.
SceneChange(h) ==
    /\ Present(h) /\ \E m \in Managers : seen[m] = h
    /\ seen' = [m \in Managers |-> IF seen[m] = h THEN Nothing ELSE seen[m]]
    /\ UNCHANGED <<manager, queue, frame>>

\* After h was drawn: each queue whose first frame is for h, if there is damage.
Served(h) == {m \in Managers : /\ queue[m] # Nothing /\ queue[m].waiting # <<>>
                               /\ frame[Head(queue[m].waiting)].head = h
                               /\ seen[m] # h}
RenderQueued(h) ==
    \E o \in [Served(h) -> Outcomes] :
        LET first == {Head(queue[m].waiting) : m \in Served(h)}
        IN  /\ frame' = [f \in Frames |-> IF f \in first THEN Settled(frame[f], o[frame[f].manager])
                                          ELSE frame[f]]
            /\ queue' = CleanUp([m \in Managers |->
                            IF m \in Served(h) THEN [queue[m] EXCEPT !.waiting = Tail(@)]
                            ELSE queue[m]])
            /\ seen' = [m \in Managers |->
                            IF m \notin Served(h) THEN seen[m]
                            ELSE IF o[m] = "dropped" THEN Nothing ELSE h]
            /\ UNCHANGED manager

\* Queued screencopies of a head that is gone fail now.
RemoveOutput(h) ==
    LET ofHead(f) == frame[f].head = h
        lost == {f \in Frames : /\ ofHead(f) /\ frame[f].manager # Nothing
                                /\ Holds(frame[f].manager, f)
                                /\ f \notin queue[frame[f].manager].pending}
    IN  /\ frame' = [f \in Frames |-> IF f \in lost THEN Tell(frame[f], "failed") ELSE frame[f]]
        /\ queue' = CleanUp([m \in Managers |->
                        IF queue[m] = Nothing THEN Nothing
                        ELSE [queue[m] EXCEPT !.waiting = Retain(@, {f \in Frames : ~ofHead(f)})]])
        /\ UNCHANGED <<manager, seen>>

Disconnect(m) == manager[m] = "alive" /\ Die(m) /\ UNCHANGED <<queue, seen>>

\* ScreencopyManagerState::destroyed
DropManager(m) ==
    /\ manager[m] \in {"alive", "dead"}
    /\ manager' = [manager EXCEPT ![m] = "gone"]
    /\ queue' = [queue EXCEPT ![m] = IF @ # Nothing /\ IsEmpty(@) THEN Nothing ELSE @]
    /\ UNCHANGED <<frame, seen>>

\* The frame's destructor; the Screencopy that was queued is dropped.
DropFrame(f) ==
    /\ frame[f].life \in {"alive", "dead"}
    /\ frame' = [frame EXCEPT ![f] = [NoFrame EXCEPT !.life = "gone", !.fence = frame[f].fence]]
    /\ LET m == frame[f].manager
           q == [pending |-> queue[m].pending \ {f},
                 waiting |-> Retain(queue[m].waiting, Frames \ {f})]
       IN  IF queue[m] = Nothing \/ frame[f].size = Nothing THEN UNCHANGED queue
           ELSE queue' = [queue EXCEPT ![m] = IF IsEmpty(q) /\ manager[m] # "alive"
                                              THEN Nothing ELSE q]
    /\ UNCHANGED <<manager, seen>>

ScreencopyNext ==
    \/ \E m \in Managers : Bind(m) \/ Disconnect(m) \/ DropManager(m)
    \/ \E f \in Frames :
          \/ FenceSignalled(f) \/ DropFrame(f)
          \/ \E m \in Managers, h \in Heads : CaptureOutput(m, f, h)
          \/ \E s \in Sizes : Copy(f, s) \/ CopyWithDamage(f, s) \/ CopyRefused(f, s)
    \/ \E h \in Heads : SceneChange(h)

-----------------------------------------------------------------------------
ScreencopyTypeOK ==
    /\ manager \in [Managers -> {"none", "alive", "dead", "gone"}]
    /\ queue \in [Managers -> Queue \cup {Nothing}]
    /\ frame \in [Frames -> Frame]
    /\ seen \in [Managers -> Heads \cup {Nothing}]

\* A frame whose copy was asked for is answered exactly once: it has its ready
\* or failed, or it is still queued, or its fence is awaited; never two of
\* these (the promise at the head of screencopy.rs).
FrameAnsweredOnce ==
    \A f \in Frames : frame[f].life = "alive" /\ frame[f].copied =>
        /\ frame[f].told # "twice"
        /\ Cardinality({c \in {"told", "queued", "fenced"} :
               \/ c = "told" /\ frame[f].told # "none"
               \/ c = "queued" /\ Holds(frame[f].manager, f)
               \/ c = "fenced" /\ frame[f].fence}) = 1

\* A frame that may still be copied keeps the queue of its manager, destroyed or
\* not (copy unwraps it), and a queue nothing refers to any more is not kept.
QueueOutlivesFrames ==
    /\ \A f \in Frames : Requestable(f) /\ ~frame[f].copied =>
          queue[frame[f].manager] # Nothing /\ f \in queue[frame[f].manager].pending
    /\ \A m \in Managers : queue[m] # Nothing /\ manager[m] = "gone" => ~IsEmpty(queue[m])
============================================================================
