----------------------------- MODULE MCClients -----------------------------
(***************************************************************************)
(* The compositor's clients beside windows, one part in play at a time:     *)
(*  - ipc: two connections, one portal with its request ids, a socket that  *)
(*    takes one frame and a backlog of one;                                 *)
(*  - capture: two heads and two screencopy clients with two frames, or a   *)
(*    head and a window under two capture sessions, or two connections of   *)
(*    one CRTC and two gamma daemons.                                       *)
(***************************************************************************)
EXTENDS Capture, Ipc, TLC

\* p1 and p2 are whatever comes in pairs in a part: connections, screencopy
\* managers, capture sessions; q1 and q2 are their frames.
CONSTANTS p1, p2, q1, q2, i1,
          h1, h2, w1, c1, c2, k1, k2, r1, r2, small, large

VARIABLES part

\* At most one effect a run, with an answer at most the one that competes with
\* it; an empty filter means all events.
Effect(casts, focus, reload, request) ==
    [casts |-> casts, focus |-> focus, reload |-> reload, request |-> request]
OneEffect ==
    {Effect(casts, Keep, "no", "kept") : casts \in BOOLEAN}
        \cup {Effect(FALSE, w1, "no", "kept"), Effect(FALSE, Keep, "no", "dropped")}
        \cup {Effect(FALSE, Keep, r, "kept") : r \in {"hook", "nohook"}}
        \cup {Effect(casts, Keep, "no", "answered") : casts \in BOOLEAN}
        \cup {Effect(FALSE, Keep, "hook", "answered")}
AnyEvents == {{"focus_change", "other"}}
ASSUME IpcAssumption

\* Retain is the SelectSeq of the standard module.
ASSUME \A s \in UNION {[1 .. n -> Frames] : n \in 0 .. 4}, kept \in SUBSET Frames :
          Retain(s, kept) = SelectSeq(s, LAMBDA f : f \in kept)

Apart == (h1 :> c1) @@ (h2 :> c2)
Same  == (h1 :> c1) @@ (h2 :> c1)
AllScenes ==
  {[peers |-> {"screencopy"}, targets |-> {h1, h2}, crtc |-> Apart, events |-> {"hotplug"}],
   [peers |-> {"imagecopy"}, targets |-> {h1, w1}, crtc |-> Apart,
    events |-> {"hotplug", "resize", "lock"}],
   [peers |-> {"gamma"}, targets |-> {h1, h2}, crtc |-> Same, events |-> {"hotplug", "switch"}],
   [peers |-> {"gamma"}, targets |-> {h1, h2}, crtc |-> Apart, events |-> {"hotplug", "switch"}]}

MCSymmetry == Permutations({p1, p2}) \cup Permutations({q1, q2})

-----------------------------------------------------------------------------
IdleScene == [peers |-> {"screencopy"}, targets |-> {h1, h2}, crtc |-> Apart, events |-> {"hotplug"}]

\* How large a head is matters to capture sessions only.
SizeMatters == "resize" \in scene.events \/ \A h \in Heads : size[h] # large

MCInit ==
    /\ Init /\ IpcInit /\ SizeMatters
    /\ part \in {"ipc", "capture"}
    /\ part # "capture" => scene = IdleScene /\ ~locked /\ awake /\ \A h \in Heads : size[h] = small

MCNext ==
    /\ UNCHANGED part
    /\ \/ part = "ipc" /\ IpcNext /\ UNCHANGED vars
       \/ part = "capture" /\ Next /\ UNCHANGED ipcVars /\ SizeMatters'

MCSpec == MCInit /\ [][MCNext]_<<part, ipcVars, vars>>
=============================================================================
