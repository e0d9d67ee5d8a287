------------------------------ MODULE MCPortal ------------------------------
(***************************************************************************)
(* The portal: the thread of one stream, with two buffers, or the calls of  *)
(* the D-Bus interface with what CastThread promises of the threads: one    *)
(* session, three calls (a second Start replaces the stream of the first)   *)
(* and two environments.                                                    *)
(***************************************************************************)
EXTENDS Cast, ScreenCast, TLC

CONSTANTS b1, b2, o1, w1, s1, c1, c2, c3, t1, t2

VARIABLES scene

Set(o, w, ch) == [output |-> o, window |-> w, chooser |-> ch]
MCSettings == {Set(o1, Nothing, TRUE), Set(Nothing, w1, FALSE)}
ASSUME ScreenCastAssumption

MCInit ==
    /\ Init /\ ScreenCastInit
    /\ \/ scene = "stream" /\ setting = Set(o1, Nothing, TRUE)
       \/ scene = "calls" /\ kind = "output" /\ target = 1

\* The calls are alike: they come in one order.  The last one selects nothing.
InOrder == /\ call[c2].phase # "new" => call[c1].phase # "new"
           /\ call[c3].phase # "new" => call[c2].phase # "new"
           /\ call[c3].asks = {}

MCNext ==
    /\ UNCHANGED scene
    /\ \/ scene = "stream" /\ Next /\ UNCHANGED castVars
       \/ scene = "calls" /\ ScreenCastNext /\ InOrder' /\ UNCHANGED vars

\* What stands still has nothing to be fair about: no fair action is enabled.
MCSpec == MCInit /\ [][MCNext]_<<scene, vars, castVars>> /\ Fairness /\ ScreenCastFairness

\* A start of a thread is answered, and every call of the interface returns.
EverybodyReturns == StartReturns /\ CallsReturn
=============================================================================
