-------------------------------- MODULE Bus --------------------------------
(***************************************************************************)
(* What the D-Bus services of moonshell share (dbus.rs, rustbus's RpcConn).*)
(* A service has a connection of its own.  Set-up blocks on each reply,    *)
(* and signals read meanwhile are held; from then on a wake-up of the      *)
(* event loop reads all there is, and takes calls, signals and replies     *)
(* from three queues, one after the other.                                 *)
(***************************************************************************)
EXTENDS Queues, SequencesExt

CONSTANTS Nothing,
          MaxChanges  \* bound: what the world does to a service

VARIABLES service,   \* whose connection it is
          world,     \* what the service follows, as it is
          changes,   \* events of the world so far
          asked,     \* requests to answer, oldest first
          wire,      \* messages for the service, oldest first
          held,      \* signals read while a reply was waited for
          phase,     \* how far the service has come
          model,     \* Model
          pending,   \* requests it has sent
          seed,      \* the timer of the first snapshot is armed
          shown,     \* the snapshot last handed to `notify`
          reordered  \* history: a wake-up handled a message ahead of an earlier one

bus == <<service, world, changes, asked, wire, held, phase, model, pending, seed, shown, reordered>>

\* The service that is not running.
BusInit ==
    /\ changes = 0 /\ phase = "new"
    /\ asked = <<>> /\ wire = <<>> /\ held = <<>> /\ pending = <<>>
    /\ shown = Nothing /\ seed = FALSE /\ reordered = FALSE

OfKind(batch, kind) == Retain(batch, {msg \in ToSet(batch) : msg.kind = kind})
Calls(batch)   == OfKind(batch, "call")
Signals(batch) == OfKind(batch, "signal")
Replies(batch) == OfKind(batch, "reply")

\* A wake-up reads the wire; what was held comes first.
Batch == held \o wire
Queue(kind) == CASE kind = "call" -> 1 [] kind = "signal" -> 2 [] kind = "reply" -> 3
Overtakes(batch) == \E i, j \in DOMAIN batch : i < j /\ Queue(batch[i].kind) > Queue(batch[j].kind)
ReadAll == wire # <<>> /\ wire' = <<>> /\ held' = <<>>

\* wait_response: up to the first reply, which is all there is to wait for.
FirstReply == SelectInSeq(wire, LAMBDA msg : msg.kind = "reply")
ReadReply ==
    /\ FirstReply > 0
    /\ held' = held \o SubSeq(wire, 1, FirstReply - 1)
    /\ wire' = SubSeq(wire, FirstReply + 1, Len(wire))

\* Nothing is under way between the world and the service.
Quiet == wire = <<>> /\ asked = <<>> /\ held = <<>> /\ pending = <<>> /\ ~seed

\* The connection is gone, with what was on it.
Hangup == asked' = <<>> /\ wire' = <<>> /\ held' = <<>> /\ pending' = <<>>

\* The bus sends the service the signals it has registered for.
Emit(registered, signals) ==
    wire' = IF registered THEN wire \o signals ELSE wire
Happens == changes < MaxChanges /\ changes' = changes + 1
=============================================================================
