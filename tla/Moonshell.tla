----------------------------- MODULE Moonshell -----------------------------
(***************************************************************************)
(* moonshell's Engine (main.rs), the queue of actions between Lua and the  *)
(* loop (moonshell-runtime) and the inotify watcher.  The configuration    *)
(* runs in a VM that a reload replaces; all of Lua runs on the thread of   *)
(* the loop.                                                               *)
(***************************************************************************)
EXTENDS Surfaces

CONSTANTS MaxVms,     \* bound: VMs booted
          MaxWrites,  \* bound: changes of the disk
          MaxExecs,   \* bound: shell.exec_async calls
          MaxQueue,   \* of inotify, in events
          MaxDirs     \* MAX_DIR_WATCHES
ASSUME EngineBounds == {MaxVms, MaxWrites, MaxExecs, MaxQueue, MaxDirs} \subseteq Nat

VARIABLES vm,        \* the VM in use; VMs are numbered
          ctx,       \* ShellCtx
          late,      \* Lua asked for something after the pass had looked
          armed,     \* timers of the loop, by the VM that set them
          latest,    \* Engine.battery, network and mpris
          facade,    \* the same, as the VM sees it
          disk,      \* the .lua files of the two directories, and a watched file
          loaded,    \* those the last configuration was read from
          missed,    \* directories whose last change nobody was told of
          watched,   \* directories inotify watches
          dirs,      \* Watcher.dirs
          inotify,   \* its queue
          callbacks, \* Watcher.files: whose it is, and the content last seen
          scheduled  \* the debounce timer is armed

engine  == <<vm, ctx, late, armed, latest, facade>>
watcher == <<disk, loaded, missed, watched, dirs, inotify, callbacks, scheduled>>
shell   == <<surfaces, engine, watcher, stage>>

\* What Lua queued, by VM, and the flags it raised.  running: the commands of
\* exec_async, whose threads a reload does not stop.
EmptyCtx == [pending |-> <<>>, timers |-> {}, watches |-> {}, calls |-> {}, running |-> {},
             execs |-> 0, dirty |-> FALSE, reload |-> FALSE, quit |-> FALSE]

\* What the Lua of a VM may do where it runs; no more than one thing matters.
LuaDoes(c, who) ==
    {c, [c EXCEPT !.dirty = TRUE], [c EXCEPT !.quit = TRUE],
     [c EXCEPT !.timers = @ \cup {who}], [c EXCEPT !.watches = @ \cup {who}]}
    \cup {[c EXCEPT !.reload = TRUE] : n \in {n \in {who} : n < MaxVms}}
    \cup {[c EXCEPT !.pending = Append(@, who), !.dirty = TRUE] :
             n \in {n \in {nextId + Len(c.pending)} : n <= MaxWindows}}
    \cup {[c EXCEPT !.execs = n, !.calls = @ \cup {<<n, who>>}, !.running = @ \cup {n}] :
             n \in {n \in {c.execs + 1} : n <= MaxExecs}}

\* A state that was set puts every surface out of date.
Outdated(wins, c) ==
    IF c.dirty THEN [id \in DOMAIN wins |-> [wins[id] EXCEPT !.shows = FALSE]] ELSE wins
LuaRuns(c) ==
    /\ ctx' \in LuaDoes(c, vm)
    /\ windows' = Outdated(windows, ctx')
    /\ UNCHANGED <<nextId, server, plugged, outputs, events, happened, vm, late>>

\* main, up to the loop: the configuration has run.
MoonshellInit ==
    /\ SurfacesInit
    /\ vm = 1 /\ ctx \in LuaDoes(EmptyCtx, 1) /\ late = FALSE
    /\ armed = {} /\ latest = 0 /\ facade = 0
    /\ disk \in [root : {1}, sub : {0, 1}, file : {1}] /\ loaded = disk
    /\ missed = {} /\ watched = {} /\ dirs = {} /\ inotify = <<>>
    /\ callbacks = {} /\ scheduled = FALSE
    /\ stage = "boot"

\* Watcher::new, after the configuration was read; inotify may be unavailable.
Boots ==
    /\ stage = "boot" /\ stage' = "pass"
    /\ \E on \in BOOLEAN :
          LET found == IF disk.sub = 0 \/ MaxDirs < 2 THEN {"root"} ELSE {"root", "sub"}
          IN  watched' = (IF on THEN found ELSE {}) /\ dirs' = watched'
    /\ UNCHANGED <<surfaces, engine, disk, loaded, missed, inotify, callbacks, scheduled>>

-----------------------------------------------------------------------------
\* The disk.  A full queue holds one mark of what was lost.
Overflow == [dir |-> "root", what |-> "overflow"]
Queued(evs) ==
    IF Len(inotify) + Len(evs) <= MaxQueue THEN inotify \o evs
    ELSE IF Contains(inotify, Overflow) THEN inotify ELSE Append(inotify, Overflow)
Inotify(dir, what) == IF dir \in watched THEN <<[dir |-> dir, what |-> what]>> ELSE <<>>
Version == disk.root + disk.sub + disk.file
Writes == Version - 2 < MaxWrites

WritesLua ==
    /\ Writes
    /\ \E d \in {"root", "sub"} :
          /\ disk[d] > 0
          /\ disk' = [disk EXCEPT ![d] = @ + 1]
          /\ inotify' = Queued(Inotify(d, "lua"))
          /\ missed' = IF d \in watched THEN missed \ {d} ELSE missed \cup {d}
    /\ UNCHANGED <<surfaces, engine, stage, loaded, watched, dirs, callbacks, scheduled>>

WritesFile ==
    /\ Writes
    /\ disk' = [disk EXCEPT !.file = @ + 1]
    /\ inotify' = Queued(Inotify("root", "file"))
    /\ UNCHANGED <<surfaces, engine, stage, loaded, missed, watched, dirs, callbacks, scheduled>>

\* A directory is made, with what it holds in it before anyone looks.
MakesDir ==
    /\ Writes /\ disk.sub = 0
    /\ disk' = [disk EXCEPT !.sub = 1]
    /\ inotify' = Queued(Inotify("root", "mkdir"))
    /\ missed' = missed \cup {"sub"}
    /\ UNCHANGED <<surfaces, engine, stage, loaded, watched, dirs, callbacks, scheduled>>

-----------------------------------------------------------------------------
\* Sources of the loop; a pass handles any number of them.
TimerFires ==
    /\ Handles
    /\ \E who \in armed :
          \/ /\ who = vm /\ LuaRuns(ctx)
             /\ armed' \in {armed, armed \ {who}}  \* shell.interval, shell.once
          \/ /\ who # vm /\ armed' = armed \ {who}
             /\ UNCHANGED <<surfaces, ctx, vm, late>>
    /\ UNCHANGED <<watcher, latest, facade>>

\* dispatch_exec_reply: the callback goes with the reply.
ExecReplies ==
    /\ Handles
    /\ \E n \in ctx.running :
          LET calls == {call \in ctx.calls : call[1] = n}
              c == [ctx EXCEPT !.running = @ \ {n}, !.calls = @ \ calls]
          IN  IF \E call \in calls : call[2] = vm THEN LuaRuns(c)
              ELSE ctx' = c /\ UNCHANGED <<surfaces, vm, late>>
    /\ UNCHANGED <<watcher, armed, latest, facade>>

\* push_battery, push_network, push_mpris: subscribers run, and it is dirty.
Snapshot ==
    /\ Handles
    /\ latest' \in {1, 2} \ {latest} /\ facade' = latest'
    /\ LuaRuns([ctx EXCEPT !.dirty = TRUE])
    /\ UNCHANGED <<watcher, armed>>

Reported(what) == \E i \in DOMAIN inotify : inotify[i].what = what

\* Fault: an overflow is taken for nothing to do.
LuaReported == Reported("lua")

NeedsReload == Reported("lua") \/ Reported("overflow")

\* Watcher::process, over all that is queued; a watched file's callbacks read it.
InotifyReady ==
    /\ Handles /\ inotify # <<>> /\ inotify' = <<>>
    /\ IF Reported("mkdir") /\ Cardinality(dirs) < MaxDirs
       THEN dirs' = dirs \cup {"sub"} /\ watched' = watched \cup {"sub"}
       ELSE UNCHANGED <<dirs, watched>>
    /\ IF Reported("file") /\ callbacks # {}
       THEN LuaRuns(ctx) /\ callbacks' = {[cb EXCEPT !.seen = disk.file] : cb \in callbacks}
       ELSE UNCHANGED <<surfaces, ctx, vm, late, callbacks>>
    /\ scheduled' = (scheduled \/ NeedsReload)
    /\ UNCHANGED <<disk, loaded, missed, armed, latest, facade>>

\* The debounce timer.
RequestReload ==
    /\ Handles /\ scheduled /\ scheduled' = FALSE /\ vm < MaxVms
    /\ ctx' = [ctx EXCEPT !.reload = TRUE]
    /\ UNCHANGED <<surfaces, vm, late, armed, latest, facade, disk, loaded, missed,
                   watched, dirs, inotify, callbacks>>

-----------------------------------------------------------------------------
\* Engine::tick, up to the reload.  The old VM goes with its windows.
NoReload ==
    /\ stage = "pass" /\ stage' = "drain" /\ ~ctx.reload /\ late' = FALSE
    /\ UNCHANGED <<surfaces, watcher, vm, ctx, armed, latest, facade>>

\* Fault: callbacks of commands under way outlive the VM.
KeptCalls(c) == [EmptyCtx EXCEPT !.quit = c.quit, !.running = c.running,
                                 !.execs = c.execs, !.calls = c.calls]

\* reset_for_reload: what belongs to the loop survives.
ResetForReload(c) == [EmptyCtx EXCEPT !.quit = c.quit, !.running = c.running, !.execs = c.execs]

\* push_battery, push_network, push_mpris, ahead of the configuration.
Seeded == latest

Reload ==
    /\ stage = "pass" /\ stage' = "drain" /\ ctx.reload /\ vm < MaxVms
    /\ DestroyAll /\ callbacks' = {}
    /\ LET c == ResetForReload(ctx)
       IN  \/ /\ vm' = vm + 1 /\ facade' = Seeded /\ loaded' = disk
              /\ ctx' \in LuaDoes(c, vm + 1)  \* read and run, in full or up to an error
              /\ late' = ctx'.reload
              /\ missed' = {}
           \/ /\ ctx' = c /\ late' = FALSE    \* no VM boots
              /\ missed' = {"root", "sub"}
              /\ UNCHANGED <<vm, facade, loaded>>
    /\ UNCHANGED <<nextId, plugged, outputs, happened, armed, latest,
                   disk, watched, dirs, inotify, scheduled>>

\* Engine::tick, past the reload.
Drain ==
    /\ stage = "drain" /\ stage' = IF ctx.quit THEN "last" ELSE "redraw"
    /\ Create(ctx.pending, ctx.dirty)
    /\ armed' = armed \cup ctx.timers
    /\ callbacks' = IF watched = {} THEN callbacks
                    ELSE callbacks \cup {[who |-> n, seen |-> disk.file] : n \in ctx.watches}
    /\ ctx' = [ctx EXCEPT !.pending = <<>>, !.timers = {}, !.watches = {},
                          !.dirty = FALSE, !.quit = FALSE]
    /\ UNCHANGED <<plugged, outputs, events, happened, vm, late, latest, facade,
                   disk, loaded, missed, watched, dirs, inotify, scheduled>>

\* redraw_windows, where LuaPainter runs the render callbacks.
Redraws ==
    /\ stage \in {"redraw", "last"} /\ stage' = IF stage = "last" THEN "over" ELSE "dispatch"
    /\ \E drawn \in SUBSET Due :
          /\ MayDraw(drawn) /\ FramesAsked(drawn)
          /\ ctx' \in IF Due = {} THEN {ctx} ELSE LuaDoes(ctx, vm)
          /\ windows' = Outdated(Redrawn(drawn), ctx')
    /\ late' = (late \/ ctx' # ctx)
    /\ UNCHANGED <<watcher, nextId, plugged, outputs, events, happened, vm, armed, latest, facade>>

DiskNext   == WritesLua \/ WritesFile \/ MakesDir
SourceNext == TimerFires \/ ExecReplies \/ Snapshot \/ InotifyReady \/ RequestReload
TickNext   == NoReload \/ Reload \/ Drain \/ Redraws
MoonshellNext ==
    /\ stage # "over"
    /\ \/ Boots \/ DiskNext \/ SourceNext \/ TickNext
       \/ (CompositorNext \/ WaylandNext) /\ UNCHANGED <<engine, watcher>>

MoonshellSpec == MoonshellInit /\ [][MoonshellNext]_shell

-----------------------------------------------------------------------------
\* A reload leaves nothing of the old VM that could run or paint: not a window,
\* a queued action, a watch or a command under way; what the new one sees of
\* the services is the latest.  The loop never blocks on something Lua asked
\* for, unless Lua asked in a render callback, or a new configuration for its
\* own reload (api.rs:6-9, "the binary drains both after every Lua entry point").
EngineInv ==
    /\ \A id \in DOMAIN windows : windows[id].painter = vm
    /\ \A i \in DOMAIN ctx.pending : ctx.pending[i] = vm
    /\ ctx.timers \cup ctx.watches \subseteq {vm}
    /\ \A call \in ctx.calls : call[2] = vm /\ call[1] \in ctx.running
    /\ \A cb \in callbacks : cb.who = vm
    /\ facade = latest
    /\ (stage = "dispatch" /\ ~late) =>
          /\ ctx.pending = <<>> /\ ctx.timers \cup ctx.watches = {}
          /\ ~ctx.dirty /\ ~ctx.reload /\ ~ctx.quit

\* A change of the configuration, or of a file that is watched, which happened
\* in a watched directory reaches Lua: an event is queued, or a reload is
\* scheduled or asked for, whatever was lost to an overflow.
StaleIsDue ==
    LET due == ctx.reload \/ scheduled \/ Reported("overflow")
    IN  /\ \A d \in {"root", "sub"} \ missed :
              disk[d] # loaded[d] => due \/ Reported("lua")
        /\ \A cb \in callbacks : cb.seen # disk.file => due \/ Reported("file")

\* The promises of the surfaces, where a repaint may yet have to be drained.
SurfacesInv == SurfacesSettle(ctx.dirty)
=============================================================================
