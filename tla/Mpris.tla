------------------------------- MODULE Mpris -------------------------------
(***************************************************************************)
(* mpris.rs: every media player of the session, told apart by unique names *)
(* and ranked by their last activity; the one shown is the freshest that   *)
(* plays, or the freshest.                                                 *)
(***************************************************************************)
EXTENDS Bus

CONSTANTS Players, \* processes: one is on the bus once, under one MPRIS name
          Tracks

Statuses == {"Playing", "Paused"}
ASSUME PlayersAssumption ==
    /\ IsFiniteSet(Players) /\ Nothing \notin Players \cup Tracks
    /\ Nothing \notin [who : Players, named : BOOLEAN, status : Statuses \cup {Nothing},
                        track : Tracks \cup {Nothing}, pos : {0, 1}]

PlayerStates == [on : {"off", "here", "named", "gone"}, status : Statuses, track : Tracks, pos : {0, 1}]

\* A player just added; it is known by name, or by a signal of its own.
Added(p, named) ==
    [who |-> p, named |-> named, status |-> Nothing, track |-> Nothing, pos |-> 0]

\* model: the players, the one last active last.
Tracked(m) == {m[i].who : i \in DOMAIN m}
Without(m, p) == Retain(m, {q \in ToSet(m) : q.who # p})
Of(m, p) == CHOOSE q \in ToSet(m) : q.who = p
Add(m, p, named) == Append(Without(m, p), Added(p, named))
Touch(m, p, new) == IF p \in Tracked(m) THEN Append(Without(m, p), new) ELSE m

\* apply_props, and whether the position has to be asked for.
ApplyPlayer(m, p, props) ==
    Touch(m, p, [Of(m, p) EXCEPT !.status = IF "status" \in DOMAIN props THEN props.status ELSE @,
                                 !.track  = IF "track" \in DOMAIN props THEN props.track ELSE @,
                                 !.pos    = IF "track" \in DOMAIN props THEN 0 ELSE @])
PositionStale(m, p, props) ==
    /\ p \in Tracked(m)
    /\ \/ "track" \in DOMAIN props
       \/ "status" \in DOMAIN props /\ props.status # Of(m, p).status
SetPosition(m, p, pos) == Touch(m, p, [Of(m, p) EXCEPT !.pos = pos])

Active(m) ==
    LET playing == Retain(m, {q \in ToSet(m) : q.status = "Playing"})
    IN  Last(IF playing = <<>> THEN m ELSE playing)

MprisSnapshot(m) == IF m = <<>> THEN Nothing ELSE Active(m)

MprisInit ==
    /\ service = "mpris" /\ BusInit /\ model = <<>>
    /\ world \in [Players -> {s \in PlayerStates : s.on \in {"off", "here", "named"} /\ s.pos = 0}]
    /\ \A p, q \in Players : world[p].track = world[q].track

-----------------------------------------------------------------------------
\* The players, and the bus that names them.
MprisMatched == phase \in {"matched", "naming", "on"}
OwnerChanged(p, new) == [kind |-> "signal", what |-> "owner", who |-> p, new |-> new]
PropsChanged(p, props) == [kind |-> "signal", what |-> "props", who |-> p, props |-> props]

PlayerComes ==
    /\ Happens
    /\ \E p \in Players :
          \/ /\ world[p].on = "off"
             /\ world' = [world EXCEPT ![p].on = "here"] /\ UNCHANGED wire
          \/ /\ world[p].on \in {"off", "here"}
             /\ world' = [world EXCEPT ![p].on = "named"]
             /\ Emit(MprisMatched, <<OwnerChanged(p, TRUE)>>)
    /\ UNCHANGED <<asked, held, phase, model, pending, seed, shown, reordered>>

PlayerGoes ==
    /\ Happens
    /\ \E p \in Players :
          /\ world[p].on \in {"here", "named"}
          /\ world' = [world EXCEPT ![p].on = "gone"]
          /\ Emit(MprisMatched /\ world[p].on = "named", <<OwnerChanged(p, FALSE)>>)
    /\ UNCHANGED <<asked, held, phase, model, pending, seed, shown, reordered>>

PlayerActs ==
    /\ Happens
    /\ \E p \in Players :
          /\ world[p].on \in {"here", "named"}
          /\ \/ \E s \in Statuses \ {world[p].status} :
                   /\ world' = [world EXCEPT ![p].status = s]
                   /\ Emit(MprisMatched, <<PropsChanged(p, [status |-> s])>>)
             \/ \E t \in Tracks \ {world[p].track} :
                   /\ world' = [world EXCEPT ![p].track = t, ![p].pos = 0]
                   /\ Emit(MprisMatched, <<PropsChanged(p, [track |-> t])>>)
             \/ /\ world' = [world EXCEPT ![p].pos = 1 - @]
                /\ Emit(MprisMatched, <<[kind |-> "signal", what |-> "seeked", who |-> p,
                                         pos |-> 1 - world[p].pos]>>)
    /\ UNCHANGED <<asked, held, phase, model, pending, seed, shown, reordered>>

\* A player answers in the order it was asked; the bus answers for one that
\* has left.
PlayerAnswers ==
    /\ \E i \in DOMAIN asked :
          LET q == asked[i]
          IN  /\ \A j \in 1..(i - 1) : asked[j].who # q.who
              /\ asked' = RemoveAt(asked, i)
              /\ wire' = Append(wire, [kind |-> "reply", who |-> q.who,
                                       ok |-> world[q.who].on \in {"here", "named"},
                                       status |-> world[q.who].status,
                                       track |-> world[q.who].track, pos |-> world[q.who].pos])
    /\ UNCHANGED <<world, changes, held, phase, model, pending, seed, shown, reordered>>

-----------------------------------------------------------------------------
\* session_start blocks on the bus; what comes in meanwhile is held.
Blocking == held' = held \o wire /\ wire' = <<>>

MprisMatch ==
    /\ phase = "new" /\ phase' = "matched"
    /\ UNCHANGED <<world, changes, asked, wire, held, model, pending, seed, shown, reordered>>

MprisNoBus ==
    /\ phase \in {"new", "matched", "naming"} /\ phase' = "off"
    /\ Hangup /\ model' = <<>>
    /\ UNCHANGED <<world, changes, seed, shown, reordered>>

\* ListNames, in whatever order the bus keeps them.
ListNames ==
    /\ phase = "matched" /\ phase' = "naming" /\ Blocking
    /\ \E names \in SetToSeqs({p \in Players : world[p].on = "named"}) : pending' = names
    /\ UNCHANGED <<world, changes, asked, model, seed, shown, reordered>>

\* GetNameOwner, an error for one that has left.
GetNameOwner ==
    /\ phase = "naming" /\ pending # <<>> /\ Blocking
    /\ pending' = Tail(pending)
    /\ model' = IF world[Head(pending)].on = "named" THEN Add(model, Head(pending), TRUE) ELSE model
    /\ UNCHANGED <<world, changes, asked, phase, seed, shown, reordered>>

Request(what, p) == [what |-> what, who |-> p]
MprisStarted ==
    /\ phase = "naming" /\ pending = <<>>
    /\ phase' = "on" /\ seed' = TRUE
    /\ asked' = [i \in DOMAIN model |-> Request("all", model[i].who)] /\ pending' = asked'
    /\ UNCHANGED <<world, changes, wire, held, model, shown, reordered>>

\* `last` was taken before the players were known by more than their names.
MprisSeed ==
    /\ seed /\ seed' = FALSE
    /\ shown' = IF shown = Nothing THEN MprisSnapshot(model) ELSE shown
    /\ UNCHANGED <<world, changes, asked, wire, held, phase, model, pending, reordered>>

\* on_signal
OnMprisSignal(acc, sig) ==
    LET p == sig.who
    IN  CASE sig.what = "props" ->
               LET known == p \in Tracked(acc.m)
                   m == IF known THEN acc.m ELSE Add(acc.m, p, FALSE)
               IN  [m |-> ApplyPlayer(m, p, sig.props),
                    asks |-> acc.asks \o (IF known THEN <<>> ELSE <<Request("all", p)>>)
                                      \o (IF PositionStale(m, p, sig.props)
                                          THEN <<Request("position", p)>> ELSE <<>>)]
          [] sig.what = "seeked" -> [acc EXCEPT !.m = SetPosition(@, p, sig.pos)]
          [] sig.what = "owner" ->
               IF sig.new THEN [m |-> Add(acc.m, p, TRUE), asks |-> Append(acc.asks, Request("all", p))]
               ELSE [acc EXCEPT !.m = Without(@, p)]

\* drain_replies, in the order of the requests; an answer to the first one to a
\* player is the first of its answers.
RepliesOf(p) == Retain(Replies(Batch), {reply \in ToSet(Batch) : reply.who = p})
Rank(i) == Cardinality({j \in 1..i : pending[j].who = pending[i].who})
IsAnswered(i) == i \in DOMAIN pending /\ Rank(i) <= Len(RepliesOf(pending[i].who))

OnMprisReply(acc, i) ==
    LET what  == pending[i].what
        p     == pending[i].who
        reply == RepliesOf(p)[Rank(i)]
        props == [status |-> reply.status, track |-> reply.track]
    IN  IF ~IsAnswered(i) \/ ~reply.ok THEN acc
        ELSE IF what = "position" THEN [acc EXCEPT !.m = SetPosition(@, p, reply.pos)]
        ELSE [m |-> ApplyPlayer(acc.m, p, props),
              asks |-> acc.asks \o IF PositionStale(acc.m, p, props)
                                   THEN <<Request("position", p)>> ELSE <<>>]

MprisWake ==
    /\ phase = "on" /\ ReadAll
    /\ LET heard == FoldLeft(OnMprisSignal, [m |-> model, asks |-> <<>>], Signals(Batch))
           after == FoldLeft(OnMprisReply, heard, [i \in DOMAIN pending |-> i])
           open  == Retain([i \in DOMAIN pending |-> i], {i \in DOMAIN pending : ~IsAnswered(i)})
       IN  /\ model' = after.m
           /\ asked' = asked \o after.asks
           /\ pending' = [i \in DOMAIN open |-> pending[open[i]]] \o after.asks
           /\ shown' = IF ~seed \/ MprisSnapshot(after.m) # MprisSnapshot(model)
                       THEN MprisSnapshot(after.m) ELSE shown
    /\ reordered' = (reordered \/ Overtakes(Batch))
    /\ UNCHANGED <<world, changes, phase, seed>>

MprisBusLost ==
    /\ phase = "on" /\ phase' = "off" /\ Hangup
    /\ model' = <<>> /\ shown' = Nothing
    /\ UNCHANGED <<world, changes, seed, reordered>>

MprisNext ==
    /\ service = "mpris" /\ UNCHANGED service
    /\ \/ PlayerComes \/ PlayerGoes \/ PlayerActs \/ PlayerAnswers
       \/ MprisMatch \/ ListNames \/ GetNameOwner \/ MprisStarted \/ MprisNoBus
       \/ MprisSeed \/ MprisWake \/ MprisBusLost

MprisSpec == MprisInit /\ [][MprisNext]_bus

-----------------------------------------------------------------------------
\* With nothing under way, and no wake-up that found a reply ahead of a later
\* signal, every player that owns a name is tracked as it is, and one that
\* plays is shown if any does.  A player that has signalled without a name may
\* be tracked too, and nothing takes it off again (mpris.rs:97-99 says that a
\* unique name leaves no stale key).
MprisSettles ==
    (service = "mpris" /\ phase = "on" /\ Quiet /\ ~reordered) =>
        LET named == {p \in Players : world[p].on = "named"}
            Is(q) == LET w == world[q.who]
                     IN  q.status = w.status /\ q.track = w.track /\ q.pos = w.pos
        IN  /\ named \subseteq Tracked(model)
            /\ \A i \in DOMAIN model : model[i].named = (model[i].who \in named)
            /\ \A i \in DOMAIN model : world[model[i].who].on \in {"here", "named"} => Is(model[i])
            /\ (shown = Nothing) = (model = <<>>)
            /\ shown # Nothing /\ shown.status # "Playing" =>
                   \A p \in named : world[p].status # "Playing"
            /\ shown # Nothing /\ shown.who \in named => Is(shown)
=============================================================================
