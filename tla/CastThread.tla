----------------------------- MODULE CastThread -----------------------------
(***************************************************************************)
(* What a streaming thread of the portal promises whoever starts and drops *)
(* it (start, StreamHandle): one answer, and an exit once told to stop.    *)
(***************************************************************************)
VARIABLES life,    \* "new", "starting", "running", "stopping", "exited"
          answer   \* what start hears: "none", "node" or "error"

Init == life = "new" /\ answer = "none"

Spawn == life = "new" /\ life' = "starting" /\ UNCHANGED answer

\* The node id, once the stream is paused or streaming; it may come even after
\* the thread was told to stop.
Report == /\ life \in {"starting", "stopping"} /\ answer = "none"
          /\ life' = IF life = "starting" THEN "running" ELSE life
          /\ answer' = "node"

\* An error before the loop runs: it is sent, or the channel is dropped.
Refuse == /\ life = "starting" /\ life' = "exited"
          /\ answer' = "error"

\* The handle is dropped, or the stream died.
Stop == life \in {"starting", "running"} /\ life' = "stopping" /\ UNCHANGED answer

Exit == /\ life = "stopping" /\ life' = "exited"
        /\ answer' = IF answer = "none" THEN "error" ELSE answer

Next == Spawn \/ Report \/ Refuse \/ Stop \/ Exit
Spec == Init /\ [][Next]_<<life, answer>> /\ WF_<<life, answer>>(Exit)
============================================================================
