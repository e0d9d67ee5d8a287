--------------------------- MODULE Notifications ---------------------------
(***************************************************************************)
(* notifications.rs: the notification daemon.  Clients notify and close by *)
(* call, and a timer closes what has a timeout.                            *)
(***************************************************************************)
EXTENDS Bus

\* model: the active set, oldest first, and next_id.  pending: the timers that
\* run, by the id they close.  world: the ids clients were told, and whether a
\* client has replaced one it was not told.
CONSTANT MaxId \* bound: ids in use
ASSUME MaxIdAssumption == MaxId \in Nat \ {0}

Ids(active) == {active[i].id : i \in DOMAIN active}

NotificationsInit ==
    /\ service = "notifications" /\ BusInit
    /\ model = [active |-> <<>>, next |-> 0]
    /\ world = [told |-> {}, wild |-> FALSE]

-----------------------------------------------------------------------------
ClientNotifies ==
    /\ Happens /\ phase = "on"
    /\ \E replaces \in 0..MaxId, timed \in BOOLEAN :
          /\ wire' = Append(wire, [kind |-> "call", what |-> "notify",
                                   replaces |-> replaces, timed |-> timed])
          /\ world' = [world EXCEPT !.wild = @ \/ replaces \notin world.told \cup {0}]
    /\ UNCHANGED <<asked, held, phase, model, pending, seed, shown, reordered>>

ClientCloses ==
    /\ Happens /\ phase = "on"
    /\ \E id \in world.told : wire' = Append(wire, [kind |-> "call", what |-> "close", id |-> id])
    /\ UNCHANGED <<world, asked, held, phase, model, pending, seed, shown, reordered>>

\* start: another daemon may own the name.
NotificationsOwn ==
    /\ phase = "new" /\ phase' \in {"on", "off"}
    /\ UNCHANGED <<world, changes, asked, wire, held, model, pending, seed, shown, reordered>>

-----------------------------------------------------------------------------
\* close
Closed(active, id) == Retain(active, {n \in ToSet(active) : n.id # id})

\* handle_call: a replacement keeps the id and goes last; the id is the reply.
\* A timeout of zero sets no timer.
NotifyId(acc, call) == IF call.replaces # 0 THEN call.replaces ELSE acc.next + 1

HandleCall(acc, call) ==
    IF call.what = "close" THEN [acc EXCEPT !.active = Closed(@, call.id)]
    ELSE LET id == NotifyId(acc, call)
             kept == IF call.replaces = 0 THEN acc.active ELSE Closed(acc.active, call.replaces)
         IN  [active |-> Append(kept, [id |-> id, timed |-> call.timed]),
              next   |-> IF call.replaces = 0 THEN id ELSE acc.next,
              told   |-> acc.told \cup {id},
              armed  |-> acc.armed \o IF call.timed THEN <<id>> ELSE <<>>]

\* Fault: only the last call of a wake-up has its timer armed.
LastArmed(armed) == IF armed = <<>> THEN <<>> ELSE <<Last(armed)>>

\* The timers are armed once all the calls were handled.
Armed(armed) == armed

NotificationsWake ==
    /\ phase = "on" /\ ReadAll
    /\ LET after == FoldLeft(HandleCall, [active |-> model.active, next |-> model.next,
                                          told |-> world.told, armed |-> <<>>], Calls(Batch))
       IN  /\ after.next <= MaxId
           /\ model' = [active |-> after.active, next |-> after.next]
           /\ world' = [world EXCEPT !.told = after.told]
           /\ pending' = pending \o Armed(after.armed)
           /\ shown' = after.active
    /\ UNCHANGED <<changes, asked, phase, seed, reordered>>

\* A timer closes what has its id by now.
Expires ==
    /\ \E i \in DOMAIN pending :
          /\ pending' = RemoveAt(pending, i)
          /\ model' = [model EXCEPT !.active = Closed(@, pending[i])]
    /\ shown' = IF model' # model THEN model'.active ELSE shown
    /\ UNCHANGED <<world, changes, asked, wire, held, phase, seed, reordered>>

\* The timers run on without the bus.
NotificationsBusLost ==
    /\ phase = "on" /\ phase' = "off"
    /\ asked' = <<>> /\ wire' = <<>> /\ held' = <<>>
    /\ UNCHANGED <<world, changes, model, pending, seed, shown, reordered>>

NotificationsNext ==
    /\ service = "notifications" /\ UNCHANGED service
    /\ \/ ClientNotifies \/ ClientCloses \/ NotificationsOwn
       \/ NotificationsWake \/ Expires \/ NotificationsBusLost

NotificationsSpec == NotificationsInit /\ [][NotificationsNext]_bus

-----------------------------------------------------------------------------
\* What is shown is the active set; each notification with a timeout has a
\* timer that will close it, however the calls of a wake-up combine; and an id
\* names one notification, as long as clients replace what they were told.
NotificationsInv ==
    service = "notifications" =>
        /\ shown = model.active \/ (shown = Nothing /\ model.active = <<>>)
        /\ \A i \in DOMAIN model.active :
              model.active[i].timed => Contains(pending, model.active[i].id)
        /\ ~world.wild => Len(model.active) = Cardinality(Ids(model.active))

=============================================================================
