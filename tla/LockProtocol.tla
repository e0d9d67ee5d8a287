---------------------------- MODULE LockProtocol ----------------------------
(***************************************************************************)
(* What the session lock promises its clients, independent of outputs,     *)
(* frames and timers: one lock at a time, each request told locked or      *)
(* finished at most once, and the session blanked from before a client is  *)
(* told locked until that client (or, if it dies, the one that replaces    *)
(* it) unlocks.  The death of the holder does not unblank.                 *)
(***************************************************************************)
CONSTANTS Clients, NoClient

VARIABLES locker,   \* what each client was told of its lock object
          alive,    \* clients with a live connection
          holder,   \* the client being locked for, or holding the lock
          blanked   \* session content is withheld

vars == <<locker, alive, holder, blanked>>

Init ==
    /\ locker = [c \in Clients |-> "none"]
    /\ alive = Clients
    /\ holder = NoClient
    /\ blanked = FALSE

Tell(c, event) == locker' = [locker EXCEPT ![c] = event]

Refuse(c) ==
    /\ c \in alive /\ locker[c] = "none"
    /\ Tell(c, "finished")
    /\ UNCHANGED <<alive, holder, blanked>>

Request(c) ==
    /\ c \in alive /\ locker[c] = "none" /\ holder = NoClient
    /\ Tell(c, "requested")
    /\ holder' = c
    /\ UNCHANGED <<alive, blanked>>

\* With nothing to blank the request is granted at once.
Grant(c) ==
    /\ c \in alive /\ locker[c] = "none" /\ holder = NoClient
    /\ Tell(c, "locked")
    /\ holder' = c /\ blanked' = TRUE
    /\ UNCHANGED alive

\* A client that locks after the holder died takes the lock over.
Replace(c) ==
    /\ c \in alive /\ locker[c] = "none"
    /\ holder # NoClient /\ holder \notin alive /\ locker[holder] = "locked"
    /\ Tell(c, "locked")
    /\ holder' = c
    /\ UNCHANGED <<alive, blanked>>

Pending == holder # NoClient /\ locker[holder] = "requested"

Blank ==
    /\ Pending
    /\ blanked' = TRUE
    /\ UNCHANGED <<locker, alive, holder>>

Confirm ==
    /\ Pending
    /\ Tell(holder, "locked")
    /\ blanked' = TRUE
    /\ UNCHANGED <<alive, holder>>

Abort ==
    /\ Pending
    /\ Tell(holder, "finished")
    /\ holder' = NoClient /\ blanked' = FALSE
    /\ UNCHANGED alive

Unlock(c) ==
    /\ c \in alive /\ locker[c] = "locked" /\ holder = c
    /\ Tell(c, "none")
    /\ holder' = NoClient /\ blanked' = FALSE
    /\ UNCHANGED alive

Forget(c) ==
    /\ c \in alive /\ locker[c] = "finished"
    /\ Tell(c, "none")
    /\ UNCHANGED <<alive, holder, blanked>>

Die(c) ==
    /\ alive' = alive \ {c}
    /\ UNCHANGED <<locker, holder, blanked>>

Start(c) ==
    /\ c \notin alive /\ holder # c
    /\ alive' = alive \cup {c}
    /\ Tell(c, "none")
    /\ UNCHANGED <<holder, blanked>>

Next ==
    \/ \E c \in Clients :
          \/ Refuse(c) \/ Request(c) \/ Grant(c) \/ Replace(c)
          \/ Unlock(c) \/ Forget(c) \/ Die(c) \/ Start(c)
    \/ Blank \/ Confirm \/ Abort

Spec == Init /\ [][Next]_vars
=============================================================================
