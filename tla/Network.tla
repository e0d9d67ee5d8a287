------------------------------ MODULE Network ------------------------------
(***************************************************************************)
(* network.rs: NetworkManager's chain of objects, from the root to the     *)
(* primary connection to its access point, each asked for as the one       *)
(* before it names it; sysfs polled when there is no NetworkManager.       *)
(***************************************************************************)
EXTENDS Bus

CONSTANTS Conns, \* active connections
          Wifi,  \* those of them that are wireless
          Aps    \* access points; an access point has one SSID
ASSUME ChainAssumption == Wifi \subseteq Conns /\ Nothing \notin Conns \cup Aps

Strengths == {1, 2}

\* up: NetworkManager owns its name.
Networks ==
    {w \in [up : BOOLEAN, state : BOOLEAN, primary : Conns \cup {Nothing},
            specific : Aps \cup {Nothing}, strength : [Aps -> Strengths]] :
        /\ w.state = (w.primary # Nothing)
        /\ w.specific # Nothing => w.primary \in Wifi}

Chain0 == [state |-> FALSE, primary |-> Nothing, wifi |-> FALSE, specific |-> Nothing,
           ssid |-> Nothing, strength |-> 0]

NetworkSnapshot(m) ==
    LET wifi == m.state /\ m.wifi
    IN  [connected |-> m.state, ssid |-> IF wifi THEN m.ssid ELSE Nothing,
         strength |-> IF wifi THEN m.strength ELSE 0]

\* The chain NetworkManager would give to one who asked for all of it.
Truth == [state |-> world.up /\ world.state, primary |-> world.primary,
          wifi |-> world.primary \in Wifi, specific |-> world.specific,
          ssid |-> world.specific,
          strength |-> IF world.specific = Nothing THEN 0 ELSE world.strength[world.specific]]

NetworkInit == service = "network" /\ BusInit /\ world \in Networks /\ model = Chain0

-----------------------------------------------------------------------------
\* A query names an object of the chain.
Query(scope, path) == [scope |-> scope, path |-> path]
Root == Query("root", Nothing)
Ask(scope, path, before) == IF path \in {before, Nothing} THEN <<>> ELSE <<Query(scope, path)>>

\* apply_root, apply_conn, apply_ap: a new link clears what is below it and is
\* asked for.
ApplyRoot(acc, props) ==
    LET m == acc.model
    IN  [model |-> IF props.primary = m.primary THEN [m EXCEPT !.state = props.state]
                   ELSE [Chain0 EXCEPT !.state = props.state, !.primary = props.primary],
         asks |-> acc.asks \o Ask("conn", props.primary, m.primary)]

ApplyConn(acc, props) ==
    LET m == [acc.model EXCEPT !.wifi = props.wifi]
    IN  [model |-> IF props.specific = m.specific THEN m
                   ELSE [m EXCEPT !.specific = props.specific, !.ssid = Nothing, !.strength = 0],
         asks |-> acc.asks \o Ask("ap", props.specific, m.specific)]

ApplyAp(acc, props) ==
    LET m == acc.model
        ssid == IF "ssid" \in DOMAIN props THEN props.ssid ELSE m.ssid
    IN  [acc EXCEPT !.model = [m EXCEPT !.ssid = ssid, !.strength = props.strength]]

ApplyMap(acc, scope, props) ==
    CASE scope = "root" -> ApplyRoot(acc, props)
      [] scope = "conn" -> ApplyConn(acc, props)
      [] scope = "ap"   -> ApplyAp(acc, props)

\* scope_for, query_current: the object is still a link of the chain.
Current(m, scope, path) ==
    \/ scope = "root"
    \/ scope = "conn" /\ path = m.primary
    \/ scope = "ap"   /\ path = m.specific

\* A signal about the root stands for PropertiesChanged and for the legacy
\* StateChanged, which is sent with it and says no more than the state.
OnSignal(acc, sig) ==
    IF sig.scope = "owner"
    THEN [model |-> Chain0, asks |-> acc.asks \o IF sig.new THEN <<Root>> ELSE <<>>]
    ELSE IF Current(acc.model, sig.scope, sig.path) THEN ApplyMap(acc, sig.scope, sig.props)
    ELSE acc

OnLateReply(acc, reply) ==   \* Fault: a reply counts although the chain moved on
    IF reply.ok THEN ApplyMap(acc, reply.query.scope, reply.props) ELSE acc

OnReply(acc, reply) ==
    IF reply.ok /\ Current(acc.model, reply.query.scope, reply.query.path)
    THEN ApplyMap(acc, reply.query.scope, reply.props)
    ELSE acc

OnMessage(acc, msg) == IF msg.kind = "signal" THEN OnSignal(acc, msg) ELSE OnReply(acc, msg)

-----------------------------------------------------------------------------
\* NetworkManager.
NetworkMatched == phase \in {"walking", "waiting", "on"}
Signal(scope, path, props) ==
    [kind |-> "signal", scope |-> scope, path |-> path, props |-> props]

ConnectionChanges ==
    /\ Happens /\ world.up
    /\ \E to \in Networks :
          /\ to.up /\ to.primary # world.primary /\ to.strength = world.strength
          /\ world' = to
          /\ Emit(NetworkMatched, <<Signal("root", Nothing, [state |-> to.state,
                                                             primary |-> to.primary])>>)
    /\ UNCHANGED <<asked, held, phase, model, pending, seed, shown, reordered>>

Roams ==
    /\ Happens /\ world.up /\ world.primary \in Wifi
    /\ \E a \in (Aps \cup {Nothing}) \ {world.specific} :
          /\ world' = [world EXCEPT !.specific = a]
          /\ Emit(NetworkMatched, <<Signal("conn", world.primary, [wifi |-> TRUE,
                                                                   specific |-> a])>>)
    /\ UNCHANGED <<asked, held, phase, model, pending, seed, shown, reordered>>

StrengthChanges ==
    /\ Happens /\ world.up
    /\ \E a \in Aps, s \in Strengths :
          /\ s # world.strength[a]
          /\ world' = [world EXCEPT !.strength[a] = s]
          /\ Emit(NetworkMatched, <<Signal("ap", a, [strength |-> s])>>)
    /\ UNCHANGED <<asked, held, phase, model, pending, seed, shown, reordered>>

\* NetworkManager stops, or starts with nothing of what it had.
OwnerChanges ==
    /\ Happens
    /\ \E to \in Networks :
          /\ to.up = ~world.up /\ to.strength = world.strength
          /\ to.up \/ [to EXCEPT !.up = TRUE] = world
          /\ world' = to
          /\ Emit(NetworkMatched, <<[kind |-> "signal", scope |-> "owner", new |-> to.up]>>)
    /\ UNCHANGED <<asked, held, phase, model, pending, seed, shown, reordered>>

Exists(q) == world.up /\ (q.scope = "conn" => q.path = world.primary)
NmAnswers ==
    /\ asked # <<>> /\ asked' = Tail(asked)
    /\ LET q == Head(asked)
           props == CASE q.scope = "root" -> [state |-> world.state, primary |-> world.primary]
                      [] q.scope = "conn" -> [wifi |-> q.path \in Wifi, specific |-> world.specific]
                      [] q.scope = "ap"   -> [ssid |-> q.path, strength |-> world.strength[q.path]]
       IN  wire' = Append(wire, [kind |-> "reply", query |-> q, ok |-> Exists(q), props |-> props])
    /\ UNCHANGED <<world, changes, held, phase, model, pending, seed, shown, reordered>>

-----------------------------------------------------------------------------
\* nm_start.  pending: what is left to ask for, last first.
LinkFallback ==
    /\ phase \in {"new", "walking", "waiting"}
    /\ phase' \in {"polling", "off"} /\ Hangup
    /\ model' = Chain0
    /\ UNCHANGED <<world, changes, seed, shown, reordered>>

NetworkMatch ==
    /\ phase = "new" /\ phase' = "walking" /\ pending' = <<Root>>
    /\ UNCHANGED <<world, changes, asked, wire, held, model, seed, shown, reordered>>

WalkAsk ==
    /\ phase = "walking" /\ pending # <<>> /\ phase' = "waiting"
    /\ asked' = <<Last(pending)>> /\ pending' = Front(pending)
    /\ UNCHANGED <<world, changes, wire, held, model, seed, shown, reordered>>

\* Without its root there is no NetworkManager; another link may vanish.
WalkReply ==
    /\ phase = "waiting" /\ ReadReply
    /\ LET reply == wire[FirstReply]
           after == OnReply([model |-> model, asks |-> pending], reply)
       IN  /\ reply.query = Root => reply.ok
           /\ model' = after.model /\ pending' = after.asks
    /\ phase' = "walking"
    /\ UNCHANGED <<world, changes, asked, seed, shown, reordered>>

NetworkStarted ==
    /\ phase = "walking" /\ pending = <<>>
    /\ phase' = "on" /\ seed' = TRUE
    /\ UNCHANGED <<world, changes, asked, wire, held, model, pending, shown, reordered>>

NetworkSeed ==
    /\ seed /\ seed' = FALSE
    /\ shown' = NetworkSnapshot(model)
    /\ UNCHANGED <<world, changes, asked, wire, held, phase, model, pending, reordered>>

\* A signal that was sent after a reply and says otherwise, read together with it:
\* the reply, taken last, puts back what it says.
SaysOtherwise(sig, reply) ==
    /\ sig.kind = "signal" /\ reply.kind = "reply"
    /\ LET scope == reply.query.scope
           path  == reply.query.path
       IN  \/ scope \in {"root", "conn"} /\ sig.scope = "owner"
           \/ scope = "root" /\ sig.scope = "root" /\ sig.props.primary # reply.props.primary
           \/ scope = "conn" /\ sig.scope = "root" /\ sig.props.primary # path
           \/ /\ scope = "conn" /\ sig.scope = "conn" /\ sig.path = path
              /\ sig.props.specific # reply.props.specific
           \/ scope = "ap" /\ sig.scope = "ap" /\ sig.path = path
Contradicted(batch) == \E i, j \in DOMAIN batch : i < j /\ SaysOtherwise(batch[j], batch[i])

\* The source of the socket: signals, then replies, then what they ask for.
NetworkWake ==
    /\ phase = "on" /\ ReadAll
    /\ LET after == FoldLeft(OnMessage, [model |-> model, asks |-> <<>>],
                             Signals(Batch) \o Replies(Batch))
       IN  /\ model' = after.model
           /\ asked' = asked \o after.asks
           /\ pending' = SubSeq(pending, Len(Replies(Batch)) + 1, Len(pending)) \o after.asks
    /\ shown' = IF NetworkSnapshot(model') # NetworkSnapshot(model)
                THEN NetworkSnapshot(model') ELSE shown
    /\ reordered' = (reordered \/ Contradicted(Batch))
    /\ UNCHANGED <<world, changes, phase, seed>>

LinkBusLost ==
    /\ phase = "on" /\ phase' \in {"polling", "off"} /\ Hangup
    /\ model' = Chain0 /\ shown' = NetworkSnapshot(Chain0)
    /\ UNCHANGED <<world, changes, seed, reordered>>

\* sysfs_connected: an interface is up, and no more is known.
LinkPoll ==
    /\ phase = "polling" /\ ~seed
    /\ shown' = [connected |-> world.state, ssid |-> Nothing, strength |-> 0]
    /\ UNCHANGED <<world, changes, asked, wire, held, phase, model, pending, seed, reordered>>

NetworkNext ==
    /\ service = "network" /\ UNCHANGED service
    /\ \/ ConnectionChanges \/ Roams \/ StrengthChanges \/ OwnerChanges \/ NmAnswers
       \/ NetworkMatch \/ WalkAsk \/ WalkReply \/ NetworkStarted \/ LinkFallback
       \/ NetworkSeed \/ NetworkWake \/ LinkBusLost \/ LinkPoll

NetworkSpec == NetworkInit /\ [][NetworkNext]_bus

-----------------------------------------------------------------------------
\* The signal says that the access point followed is another by now.
Leaves(sig) ==
    /\ sig.kind = "signal"
    /\ \/ sig.scope = "owner"
       \/ sig.scope = "root" /\ sig.props.primary # model.primary
       \/ sig.scope = "conn" /\ sig.path = model.primary /\ sig.props.specific # model.specific

\* The SSID shown is that of the access point the model follows, and once the
\* network left that one - a switch, a roam, a stop of NetworkManager - it is shown
\* only while the signal that says so is unread.  network.rs:150-153, "instead of
\* showing the previous network's SSID".  The exception: once a reply was taken
\* after a later signal that says otherwise, the model may follow what was.
NoForeignDetails ==
    (service = "network" /\ phase = "on" /\ shown # Nothing /\ shown.ssid # Nothing) =>
        /\ shown.ssid = model.specific
        /\ \/ reordered
           \/ world.up /\ shown.ssid = world.specific
           \/ \E sig \in ToSet(Batch) : Leaves(sig)

\* With nothing under way the facade shows the network as it is, unless a wake-up
\* took a reply after a later signal that says otherwise.
NetworkSettles ==
    (service = "network" /\ phase = "on" /\ Quiet /\ ~reordered) => shown = NetworkSnapshot(Truth)

NetworkInv == NoForeignDetails /\ NetworkSettles
=============================================================================
