-------------------------------- MODULE Tray --------------------------------
(***************************************************************************)
(* tray.rs: the StatusNotifierWatcher.  Applications register their items  *)
(* by a call; what an item says of itself is asked for, and its end is     *)
(* learnt from the bus.                                                    *)
(***************************************************************************)
EXTENDS Bus

CONSTANTS Apps,     \* applications with a tray item
          WellKnown \* those that register under a name they own, and may return
ASSUME AppsAssumption ==
    WellKnown \subseteq Apps /\ Nothing \notin Seq([service : Apps, title : {0, 1, 2}])

\* world: an application is "off", "here", "registered", "gone", or "missed" when
\* it left before the watcher heard of such things.  model: the items, in the
\* order of registration.
NoTitle == 0
Services(items) == {items[i].service : i \in DOMAIN items}

TrayInit ==
    /\ service = "tray" /\ BusInit /\ model = <<>>
    /\ world = [a \in Apps |-> [on |-> "off", title |-> 1]]

-----------------------------------------------------------------------------
\* Applications.  They find the watcher by its name, and its rules come after.
Owned   == phase \in {"owner", "on"}
TrayMatched == phase = "on"

AppComes ==
    /\ Happens
    /\ \E a \in Apps : /\ world[a].on \in {"off"} \cup (IF a \in WellKnown THEN {"gone"} ELSE {})
                       /\ world' = [world EXCEPT ![a].on = "here"]
    /\ UNCHANGED <<asked, wire, held, phase, model, pending, seed, shown, reordered>>

AppRegisters ==
    /\ Owned
    /\ \E a \in Apps : /\ world[a].on = "here"
                       /\ world' = [world EXCEPT ![a].on = "registered"]
                       /\ wire' = Append(wire, [kind |-> "call", who |-> a])
    /\ UNCHANGED <<changes, asked, held, phase, model, pending, seed, shown, reordered>>

AppGoes ==
    /\ Happens
    /\ \E a \in Apps :
          /\ world[a].on \in {"here", "registered"}
          /\ world' = [world EXCEPT ![a].on = IF @ = "registered" /\ ~TrayMatched
                                              THEN "missed" ELSE "gone"]
          /\ Emit(TrayMatched, <<[kind |-> "signal", what |-> "gone", who |-> a]>>)
    /\ UNCHANGED <<asked, held, phase, model, pending, seed, shown, reordered>>

\* NewTitle, NewIcon, NewStatus: the sender is the unique name.
AppRetitles ==
    /\ Happens
    /\ \E a \in Apps :
          /\ world[a].on \in {"here", "registered"}
          /\ world' = [world EXCEPT ![a].title = 3 - @]
          /\ Emit(TrayMatched, <<[kind |-> "signal", what |-> "new", who |-> a]>>)
    /\ UNCHANGED <<asked, held, phase, model, pending, seed, shown, reordered>>

AppAnswers ==
    /\ \E i \in DOMAIN asked :
          LET a == asked[i]
          IN  /\ \A j \in 1..(i - 1) : asked[j] # a
              /\ asked' = RemoveAt(asked, i)
              /\ wire' = Append(wire, [kind |-> "reply", who |-> a, title |-> world[a].title,
                                       ok |-> world[a].on \in {"here", "registered"}])
    /\ UNCHANGED <<world, changes, held, phase, model, pending, seed, shown, reordered>>

-----------------------------------------------------------------------------
\* start: the name, then the rules; another watcher may own the name.
TrayOwns ==
    /\ phase = "new" /\ phase' \in {"owner", "off"}
    /\ UNCHANGED <<world, changes, asked, wire, held, model, pending, seed, shown, reordered>>

TrayStarted ==
    /\ phase = "owner" /\ phase' = "on"
    /\ held' = held \o wire /\ wire' = <<>>
    /\ UNCHANGED <<world, changes, asked, model, pending, seed, shown, reordered>>

\* handle_call: an item registers once.
Register(acc, call) ==
    IF call.who \in Services(acc.items) THEN acc
    ELSE [items |-> Append(acc.items, [service |-> call.who, title |-> NoTitle]),
          asks  |-> Append(acc.asks, call.who), changed |-> TRUE]

\* Fault: whoever leaves the bus takes no item along.
StaysRegistered(acc, sig) ==
    IF sig.what = "new" /\ sig.who \in Services(acc.items) \ WellKnown
    THEN [acc EXCEPT !.asks = Append(@, sig.who)] ELSE acc

\* handle_signal, drop_service: updates are looked up by the sender.
Heed(acc, sig) ==
    IF sig.what = "gone"
    THEN [items |-> Retain(acc.items, {item \in ToSet(acc.items) : item.service # sig.who}),
          asks |-> acc.asks, changed |-> acc.changed \/ sig.who \in Services(acc.items)]
    ELSE IF sig.who \in Services(acc.items) \ WellKnown
    THEN [acc EXCEPT !.asks = Append(@, sig.who)]
    ELSE acc

\* apply_props: replies come out of a hash map, so whichever is taken last wins.
LastTaken(batch) ==
    LET good == {i \in DOMAIN Replies(batch) : Replies(batch)[i].ok}
    IN  {pick \in [{Replies(batch)[i].who : i \in good} -> good] :
            \A a \in DOMAIN pick : Replies(batch)[pick[a]].who = a}

Retitled(items, batch, pick) ==
    [i \in DOMAIN items |->
        IF items[i].service \in DOMAIN pick
        THEN [items[i] EXCEPT !.title = Replies(batch)[pick[items[i].service]].title]
        ELSE items[i]]

\* A registration ahead of an earlier loss, or answers in no order.
TrayOvertakes(batch) ==
    \/ \E i, j \in DOMAIN batch :
          i < j /\ batch[i].kind = "signal" /\ batch[j].kind = "call" /\ batch[i].who = batch[j].who
    \/ \E i, j \in DOMAIN Replies(batch) : i # j /\ Replies(batch)[i].who = Replies(batch)[j].who

TrayWake ==
    /\ phase = "on" /\ ReadAll
    /\ LET called == FoldLeft(Register, [items |-> model, asks |-> <<>>, changed |-> FALSE],
                              Calls(Batch))
           heard  == FoldLeft(Heed, called, Signals(Batch))
       IN  /\ \E pick \in LastTaken(Batch) : model' = Retitled(heard.items, Batch, pick)
           /\ asked' = asked \o heard.asks
           /\ pending' = SubSeq(pending, Len(Replies(Batch)) + 1, Len(pending)) \o heard.asks
           /\ shown' = IF heard.changed \/ Replies(Batch) # <<>> THEN model' ELSE shown
    /\ reordered' = (reordered \/ TrayOvertakes(Batch))
    /\ UNCHANGED <<world, changes, phase, seed>>

\* What was shown stays.
TrayBusLost ==
    /\ phase = "on" /\ phase' = "off" /\ Hangup
    /\ UNCHANGED <<world, changes, model, seed, shown, reordered>>

TrayNext ==
    /\ service = "tray" /\ UNCHANGED service
    /\ \/ AppComes \/ AppRegisters \/ AppGoes \/ AppRetitles \/ AppAnswers
       \/ TrayOwns \/ TrayStarted \/ TrayWake \/ TrayBusLost

TraySpec == TrayInit /\ [][TrayNext]_bus

-----------------------------------------------------------------------------
\* With nothing under way the tray shows the items of the applications that
\* run, each once, and those of applications registered under their unique
\* names as they call themselves now.  Spared are an application that left
\* between the watcher's name and its rules, and a wake-up that read a
\* registration after the loss of the same name, or two answers of one item.
TraySettles ==
    (service = "tray" /\ phase = "on" /\ Quiet /\ ~reordered) =>
        LET here == {a \in Apps : world[a].on = "registered"}
        IN  /\ shown # Nothing \/ model = <<>>
            /\ shown # Nothing => shown = model
            /\ here \subseteq Services(model)
            /\ Services(model) \subseteq here \cup {a \in Apps : world[a].on = "missed"}
            /\ Len(model) = Cardinality(Services(model))
            /\ \A i \in DOMAIN model :
                  model[i].service \in here \ WellKnown =>
                      model[i].title = world[model[i].service].title
=============================================================================
