------------------------------ MODULE Battery ------------------------------
(***************************************************************************)
(* battery.rs: UPower's aggregate device over the system bus, and sysfs    *)
(* polled when there is no UPower or no bus.                               *)
(***************************************************************************)
EXTENDS Bus

CONSTANT Levels \* charges, in percent
ASSUME LevelsAssumption == Levels \subseteq 0..100

BatteryState == [available : BOOLEAN, percent : Levels \cup {100}, charging : BOOLEAN]
NoBattery == [available |-> FALSE, percent |-> 100, charging |-> FALSE]

BatterySnapshot(raw) == IF raw.available THEN raw ELSE NoBattery

\* apply_props: the properties a message carries, over the others.
ApplyProps(raw, props) ==
    [k \in DOMAIN raw |-> IF k \in DOMAIN props THEN props[k] ELSE raw[k]]

BatteryInit ==
    /\ service = "battery" /\ BusInit
    /\ world \in [available : BOOLEAN, percent : Levels, charging : BOOLEAN]
    /\ model = NoBattery

-----------------------------------------------------------------------------
\* The match rule is registered ahead of the request for the state.
BatteryMatched == phase \in {"matched", "waiting", "on"}

BatteryChanges ==
    /\ Happens
    /\ \E to \in [available : BOOLEAN, percent : Levels, charging : BOOLEAN] \ {world} :
          /\ world' = to
          /\ Emit(BatteryMatched,
                  <<[kind |-> "signal",
                     props |-> [k \in {k \in DOMAIN to : to[k] # world[k]} |-> to[k]]]>>)
    /\ UNCHANGED <<asked, held, phase, model, pending, seed, shown, reordered>>

UpowerAnswers ==
    /\ asked # <<>> /\ asked' = <<>>
    /\ \E ok \in BOOLEAN : wire' = Append(wire, [kind |-> "reply", ok |-> ok, props |-> world])
    /\ UNCHANGED <<world, changes, held, phase, model, pending, seed, shown, reordered>>

\* sysfs_start: polls when there is a battery to poll.
SysfsStart == phase' = IF world.available THEN "polling" ELSE "off"

\* No bus, no UPower, or a wait that takes too long.
BatteryFallback ==
    /\ phase \in {"new", "matched", "waiting"}
    /\ SysfsStart /\ Hangup
    /\ UNCHANGED <<world, changes, model, seed, shown, reordered>>

BatteryMatch ==
    /\ phase = "new" /\ phase' = "matched"
    /\ UNCHANGED <<world, changes, asked, wire, held, model, pending, seed, shown, reordered>>

BatteryGetAll ==
    /\ phase = "matched" /\ phase' = "waiting"
    /\ asked' = <<"state">>
    /\ UNCHANGED <<world, changes, wire, held, model, pending, seed, shown, reordered>>

BatteryStarted ==
    /\ phase = "waiting" /\ ReadReply /\ wire[FirstReply].ok
    /\ phase' = "on" /\ seed' = TRUE
    /\ model' = ApplyProps(model, wire[FirstReply].props)
    /\ UNCHANGED <<world, changes, asked, pending, shown, reordered>>

\* Timer::immediate: `notify` needs the data of the loop.
BatterySeed ==
    /\ seed /\ seed' = FALSE
    /\ shown' = BatterySnapshot(model)
    /\ UNCHANGED <<world, changes, asked, wire, held, phase, model, pending, reordered>>

\* A signal applies on top of those before it.
HandleProps(acc, sig) ==
    LET now == ApplyProps(acc.model, sig.props)
    IN  [model |-> now,
         changed |-> acc.changed \/ BatterySnapshot(now) # BatterySnapshot(acc.model)]

BatteryWake ==
    /\ phase = "on" /\ ReadAll
    /\ LET after == FoldLeft(HandleProps, [model |-> model, changed |-> FALSE], Signals(Batch))
       IN  /\ model' = after.model
           /\ shown' = IF after.changed THEN BatterySnapshot(after.model) ELSE shown
    /\ reordered' = (reordered \/ Overtakes(Batch))
    /\ UNCHANGED <<world, changes, asked, phase, pending, seed>>

\* refill_all fails: the defaults are shown until sysfs is read.
BatteryBusLost ==
    /\ phase = "on" /\ SysfsStart /\ Hangup
    /\ model' = NoBattery /\ shown' = NoBattery
    /\ UNCHANGED <<world, changes, seed, reordered>>

\* read_sysfs of the battery found at the start, which may have gone since.
BatteryPoll ==
    /\ phase = "polling" /\ ~seed
    /\ shown' = IF world.available THEN world ELSE [NoBattery EXCEPT !.available = TRUE]
    /\ UNCHANGED <<world, changes, asked, wire, held, phase, model, pending, seed, reordered>>

BatteryNext ==
    /\ service = "battery" /\ UNCHANGED service
    /\ \/ BatteryChanges \/ UpowerAnswers
       \/ BatteryMatch \/ BatteryGetAll \/ BatteryStarted \/ BatteryFallback
       \/ BatterySeed \/ BatteryWake \/ BatteryBusLost \/ BatteryPoll

BatterySpec == BatteryInit /\ [][BatteryNext]_bus

-----------------------------------------------------------------------------
\* Once the wire is empty the facade shows the device as it is: a change that
\* races the first GetAll is neither lost nor overwritten by the reply.
\* battery.rs:8-11, "a PropertiesChanged racing the GetAll applies on top of
\* it instead of being lost".
BatterySettles ==
    (service = "battery" /\ phase = "on" /\ wire = <<>> /\ ~seed) => shown = BatterySnapshot(world)
=============================================================================
