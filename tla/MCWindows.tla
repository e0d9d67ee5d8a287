----------------------------- MODULE MCWindows -----------------------------
(***************************************************************************)
(* Windows with two toplevels, one token, a panel and a taskbar, one peer   *)
(* in play at a time; or the pointer, with two buttons and two widgets.     *)
(***************************************************************************)
EXTENDS Windows, Input, TLC

CONSTANTS p1, p2, k1, left, right

VARIABLE part

\* The toplevels, and the ids of widgets, are interchangeable.
MCSymmetry == Permutations({p1, p2})

AllScenes ==
  {[peers |-> {"tokens"}, ops |-> {"geometry", "properties", "focus"}, vms |-> VMs],
   [peers |-> {"panel"}, ops |-> {"geometry", "hide"}, vms |-> {"wm"}],
   [peers |-> {"taskbar"}, ops |-> {"show", "hide", "focus", "raise"}, vms |-> {}]}

MCInit ==
    /\ Init /\ InputInit
    /\ \/ part = "windows"
       \/ part = "input" /\ core.scene.peers = {"panel"} /\ core.vm = "plain"

MCNext ==
    /\ UNCHANGED part
    /\ \/ part = "windows" /\ Next /\ UNCHANGED inputVars
       \/ part = "input" /\ InputNext /\ UNCHANGED vars

MCSpec == MCInit /\ [][MCNext]_<<part, vars, inputVars>>
=============================================================================
