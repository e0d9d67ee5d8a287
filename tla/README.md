# A verification of tomoe

`tomoe` is a Wayland compositor written in Rust whose window management policy
is a Lua program (`src/crates/tomoe`), with a shell toolkit (`moonshell*`), a
screencast portal and a small IPC protocol beside it. This directory holds TLA+
modules translated from that code, TLC configurations that check them on small
instances, and TLAPS proofs for every instance.

## The system

Everything in the compositor runs on one thread, on one calloop event loop:
handlers are atomic, and all concurrency is between *handlers* - Wayland
requests, DRM page-flip events, timers, idle callbacks, udev and libseat events,
IPC sockets and file watchers, in any order - and inside a handler wherever it
enters Lua, whose hooks queue operations that enter Lua again. The state they
share is `struct Tomoe` (`state.rs`). moonshell is a process of its own built the
same way: one loop, one Lua VM, a D-Bus connection per service. The portal is
the one part with threads: each stream has its own, and its D-Bus calls run
concurrently.

| component | state | operations | hard behaviour | what makes it correct |
| --- | --- | --- | --- | --- |
| Redraw scheduling (`backend/tty.rs`) | a `RedrawState` per output; DRM compositor's frames; timers and idle callbacks in the loop | `queue_redraw`, `render_surface`, `on_vblank`, `on_estimated_vblank`, VT switch, hotplug, display settings | stale vblanks and orphaned timers, callbacks that outlive a surface, failing renders | no output waits for nothing, no damage is lost |
| Session lock (`lock.rs`) | `LockState`, lock surfaces, which outputs showed a locked frame, keyboard focus | lock, unlock, new surface, first commit, deadline, hotplug, dead client | confirmation deferred to the repaints of all outputs; client or output vanish at any point | `locked` is the truth, and is said once |
| Process supervisor (`process.rs`, `state.rs`) | declared and running processes, generation, suppressed services | reconcile, 1 Hz tick, reload, shutdown | exit, restart policy and reload racing each other | children follow the manifest, each has one owner |
| IPC (`ipc.rs`, `tomoe-ipc`) | clients with two buffers, subscriptions, pending screencast selections | accept, read, dispatch, broadcast, deferred replies | clients that stop reading or die mid-handler, answers given from Lua much later | one answer per request; nobody waits for a VM that is gone |
| Lua runtime (`lua.rs`, `state.rs`) | snapshot, queued ops, hooks, UI callbacks, pointer grab | enter Lua, `after_lua`, `apply_op`, reload | re-entrancy, ops on dead windows, a reload from inside a hook | no table refers to what is gone |
| Window life cycle (`handlers.rs`, `state.rs`, `shell.rs`) | windows and the tables keyed by them, focus, activation tokens | map, unmap, close, focus, window requests | tokens that wait for a map, windows that die in between | each window is known once to each VM; a token serves once |
| Input, UI widgets (`input.rs`, `ui/`) | held and consumed buttons, grab, widgets, overlay | key, press, release, dismissal | press and release meeting different owners | whole clicks or none |
| Gamma, screencopy, capture (`protocols/`, `capture.rs`) | owners and ramps per output; queues of frames; sessions with constraints | requests against redraw, hotplug, resize, lock, VT switch | targets that change or vanish while a frame is queued, late destructors | each frame is answered once; no picture of a locked session |
| Foreign toplevels (`foreign_toplevel.rs`, `protocols/wlr_foreign_toplevel.rs`) | handles, what each client was told | refresh, retire, bind | order of the updates | a taskbar is told a consistent story |
| Portal (`xdg-desktop-portal-tomoe`) | sessions, streams; per thread a pool of buffers and a capture in flight | SelectSources, Start; PipeWire and Wayland callbacks | a pool that goes away under a capture, joins under a lock | no freed buffer is queued; every call returns |
| moonshell (`moonshell`, `moonshell-runtime`) | VM, what Lua queued, timers, watches | tick, reload, callbacks, inotify | replies that outlive their VM, changes during a reload | a reload leaves nothing behind and misses nothing |
| moonshell services (`moonshell-services`) | a model per service and the snapshot shown | signals, replies, calls, wake-ups | reordered queues, owners that vanish | what is shown catches up with what is |
| moonshell surfaces and drawing (`moonshell-surface`, `moonshell-render`) | layer surfaces, the previous frame | configure, close, redraw; layout, diff, damage | frame callbacks that never come, overflow, rounding | no surface is stale, the damage covers the change |
| Animations, space, coordinates | running animations, placement | advance, retarget, place | arithmetic | not modelled beyond "something moves" |

The redraw scheduler is the hub of the compositor: every state change ends in
`queue_redraw_all`, and `render_surface` in turn drives animations, the session
lock, screencopy and capture. The lock is composed with it. Lua is the other
hub: every event of a window, a key, a click or a portal request runs through
its hooks, and what they queue is applied before the handler returns.

`PROJECT.json` lists every component and whether it is modelled, and under
`hazards` what in this code is hard to test, with the properties that cover it.

## Modules

| module | what it is |
| --- | --- |
| `Redraw` | the redraw machines of all outputs, the event loop's callbacks, DRM frames, VT switches, hotplug, display settings |
| `LockProtocol` | what a session lock promises its clients, abstractly |
| `SessionLock` | `lock.rs` on top of `Redraw` |
| `OutputProofs` | the invariant of the redraw machines and their safety theorems; the lock's bookkeeping and the refinement of `LockProtocol`; what a locked session shows and who has its focus, with both |
| `ServiceLife` | what the process supervisor promises about one service id, abstractly |
| `Processes` | `process.rs` and the entries of `state.rs` into it |
| `Ipc` | `ipc.rs`, its broadcasts, and the screencast requests Lua answers |
| `Heads` | the outputs, windows, lock and session that capture and gamma clients share |
| `Queues` | a queue that loses entries from the middle, without recursion |
| `QueueProofs` | what it keeps, for every sequence |
| `Screencopy`, `ImageCopy`, `Gamma` | one protocol each, on `Heads` |
| `Capture` | the three of them under redraws, hotplug, resizes, lock and VT switches |
| `ClientsProofs` | an inductive invariant for each of the three and one of the IPC server, with a lemma per handler, and their safety theorems |
| `Windows` | toplevels, the tables about them, Lua's hooks and ops, reload, tokens, a panel, a taskbar |
| `WindowsProofs` | one invariant of tables, tokens and taskbar, with a lemma per function that enters Lua; and one of widgets and buttons |
| `Input` | keys and buttons between overlay, widgets, grabs, hooks, seat and lock |
| `CastThread` | what a streaming thread promises whoever starts it, abstractly |
| `CastStream` | what both kinds of streaming thread have in common |
| `OutputCast`, `WindowCast` | `pipewire_stream.rs` and `toplevel_stream.rs` |
| `Cast` | a thread of either kind, its fairness and its refinement of `CastThread` |
| `ScreenCast` | the D-Bus interface, over any number of `CastThread`s |
| `PortalProofs` | the invariant of a streaming thread, and that its steps are those of `CastThread`; the invariant of the calls that race over the sessions' table |
| `Bus` | what moonshell's services share: a connection, three queues, a wake-up |
| `Battery`, `Network`, `Mpris`, `Tray`, `Notifications` | a service each, on `Bus` |
| `Services` | whichever of the five is looked at |
| `BusProofs` | induction over the messages of a wake-up, and what notifications, battery and tray keep |
| `ServicesProofs` | what network and players keep, and the five together |
| `Surfaces` | moonshell's layer surfaces and the compositor's side of them |
| `Moonshell` | the engine with its VM, the action queue and the watcher, on `Surfaces` |
| `ShellProofs` | one invariant of engine, surfaces and watcher, with a lemma per handler for each; and one of the process supervisor, its safety theorems and the refinement of `ServiceLife` |
| `Layout`, `Drawing` | layout and painting of a tree of elements; the damage between two frames |
| `MC...` | instances for TLC of what their name says (below) |

### Redraw

`surface[o]` is one record per output: the `RedrawState` (`state`, and `needed`
for `WaitingForVBlank`'s flag), `tearing` for `tearing_active`, and what the code
keeps elsewhere about the same crtc: `idles`, `due` and `timers` count the
callbacks calloop holds, `flips` the page-flip events the kernel will deliver,
`pending`, `queued` and `screen` are the frames of smithay's `DrmCompositor`.
`dirty` stands for the damage tracker: something on this output changed since
its last frame. `failed` is a history flag: the last attempt was given up
because of an error.

The functions of one record (`QueueRedraw`, `OnVBlank`, `QueueEstimatedVBlank`,
`Rendered`, ...) translate the functions of the same name; the actions
(`RunIdle`, `OnEstimatedVBlank`, `VBlank`, `PauseSession`, `ActivateSession`,
`Plug`, `Unplug`, `DeviceRemoved`, `SetDisplays`, `Damage`) are the event
handlers around them. `StartIdles` models calloop: idle callbacks registered
during a dispatch run as one batch after it, so two of them may be due at once.
A page flip and a timer may fire for a crtc whose surface has been replaced;
the code finds the new surface, and so does the model.

Every error path of `render_surface` is an outcome (`Outcomes`): no renderer, a
failed `render_frame`, a refused `queue_frame`, a timer that cannot be armed.
`Failures` says which may happen in an instance.

Abstracted: what is drawn (a member of `Scenes`), durations, presentation
feedback, cursor and direct-scanout planes, VRR, output modes and positions (a
mode change is damage). Errors that the code logs and goes on from are left out
where the redraw machine takes the same step either way: `frame_submitted` in
`on_vblank` (tty.rs:1401), `drm.activate` and `reset_state` on the way back from a
switch (tty.rs:2265-2271); what such an error leads to is a later frame that is
refused, and that is an outcome. All outputs belong to one GPU. The winit backend
has no such machine and is not modelled.

### SessionLock and LockProtocol

`session` is the lock bookkeeping of `struct Tomoe`: `LockState`, whose
confirmation or lock it holds, whether the grace timer runs, whose lock surface
each output has and whether it has a buffer, which outputs count as rendered,
where the keyboard focus is, and what each client has been told. Handlers are
functions of that record, so that `LockRender` can compose a repaint
(`Rendered`, from `Redraw`) with what `lock_frame_rendered` or
`lock_render_failed` make of it, in the order of the code; `LockHotplug`
composes every hotplug action with `refresh_lock_state`. Dropping smithay's
`SessionLocker` sends `finished`, `lock()` sends `locked`.
`begin_locked_session` and `unlock_session` may re-enter Lua, whose ops can move
the focus: that is the choice of `f` in `SessionFocus`.

`LockProtocol` states what clients rely on, without outputs or timers: one lock
at a time, every request answered by `locked` or `finished` at most once, the
session blanked from before `locked` until the holder (or, once it died, its
replacement) unlocks. `Protocol` in `SessionLock` maps `holder` to
the client of `LockState` and `blanked` to `is_locked`.

### Processes and ServiceLife

`services`, `once_runs`, `suppressed`, `detached` and `generation` are the fields
of `ProcessManager`, `timer` is `process_timer_active` ("refused" remembers that
the last insertion failed), `manifest` what the running Lua VM has declared and
`builtins` the entries `main` adds. `procs` is the kernel's process table: a
child is free, running, or exited and not waited for; without it a child that is
dropped without being killed would look like one that was stopped.

`Reconcile` is `reconcile`, both passes, with the fire-and-forget spawns before
and `ensure_process_timer` after it, as `reconcile_processes` runs them. The
passes are one step because the event loop runs them in one handler; what is
open is which of the forks succeed (`up`) and which process ids they get.
`LoadConfig`, `DeclareBuiltins`, `LuaDeclares` and `ReloadConfig` install a
manifest and reconcile; `LuaSpawns` is a Lua entry that left the manifest alone;
`Tick` is the timer's body. `processes_dirty` needs no variable: it is set and
taken within one handler. A reload whose config fails to load changes nothing of
this state; a first load that fails still begins a generation and keeps what the
config had declared before the error, so `LoadConfig` takes any manifest.

Abstracted: the command, directory and environment of a service are one value of
`Specs`, those of a once entry are not compared by the code and left out;
activation tokens; errors of `try_wait`, `kill` and `wait` on a child of one's
own, which the kernel does not return; children that fork on their own.

`ServiceLife` speaks of one id: a process that runs survives every change of the
manifest but a changed declaration or a reload under `AlwaysRestart`; an exit is
answered by a restart or by retirement; and what is retired stays down until the
configuration is loaded again. `Processes` implements it for every id at once
(`ServicesLive`), with `retired` read off `suppressed` and the generation.

### Ipc

`srv` is the server and what it shares with Lua: per connection the backlog
`out` (frames, not bytes), what the kernel holds (`wire`), whether the client was
marked dead, which events it wants and what it was last told of the focus; the
table of screencast selections; the request objects the VM still holds (`held`).
Handlers are functions of `srv`, because a dispatched request may enter Lua, and
Lua may broadcast, move the focus, reload, answer any screencast or let go of its
object: an `Effect`. A request object has no `Drop`: `CloseWidget` takes the
callbacks that hold one, a garbage collection the object of a callback Lua no
longer has (a run with the request `"dropped"`), and the entry of the table stays.
`dropped` is a history of these; `moved` one of focus changes whose own hook moved
the focus on.
`reading` is `read_client` between two request lines, the one place where a
handler is split into steps (each line is dispatched before the next is looked
at). A request is identified by its connection and id; its state records that it
was asked and answered, not what it said.

### Heads, Screencopy, ImageCopy, Gamma, Capture

A *head* is one connection of an output, so that replugging gives a fresh one on
the same CRTC. `Screencopy` keeps the managers' queues and the frames, `seen`
what the damage tracker of a queue saw last; objects die with their client at
once and their destructors run later in any order, as wayland-server has it.
`ImageCopy` keeps capture sessions with the size they told, frames, and the
compositor's list of pending ones; `shows` is a history of what a ready frame
holds, `rescaled` one of the windows whose element scale changed since sessions
were last refreshed. `Gamma` keeps the owner of each head, the change that waits
for the session, the blob the kernel was given, and what the CRTC applies,
including what the session on the other VT left there. Every programming of a
ramp may be refused: a client's request then fails its control and resets the
head, which may be refused too; the reset of a new connector, that of a control
that is destroyed and the restoration on return are only logged. `missed`
remembers, per head, what the last refusal left undone. `Capture` joins them at
the events they share: the tail of `render_surface`, `outputs_changed`, a commit
that resizes, pausing and resuming. Hotplug is heard while the session is away,
as udev is. `Resize` is a change of size that refreshes the sessions (a commit, an
output's mode or scale); `Rescale` one that does not: a window that Lua moves
where another scale applies, shows or hides.

### Windows

`core` is the part of `struct Tomoe` that is about windows: the set of windows,
the stacking order, every table keyed by window id, the focus and its previous
holder, pending activations and tokens, the VM with the windows it was told of,
the layer surface and the reserved space that Lua last heard of; `bar` the
taskbar's client and what it was told. A handler is one step. Lua is a `script`:
at most one operation, queued by the first or second hook the handler reaches,
on any toplevel, dead or alive, or a reload of any kind of configuration. So a
reload from inside the open hook of a window, or an op on a window that dies in
the same handler, happens. `add_window` gives each toplevel one id, so an id is
named by its toplevel. A configuration has all of the hooks or none (`HasHooks`):
one with an open hook and no focus hook is not told apart, a hook that does
nothing is.

### Input

`ui` is the widget registry, the callbacks the VM keeps for it, the overlay, the
grab and the lock; `held` is the user's fingers, `consumed` the field
`consumed_buttons`, `seat` what clients believe. `orphans` and `spoiled` are
history: releases that reached a client without a press, and clicks that an
overlay, a modal or a grab took part in. A press walks the same cascade as
`on_pointer_button`, and a hook in it may open a widget, start a grab or reload.

### The portal

`CastStream` is what the two threads share: the PipeWire stream's state, where
each buffer of the pool is (`pool`), the wl_buffer made for it (`slots`), the one
capture in flight (`frame`), the flags `dying` and `stop`. `OutputCast` asks for
a capture first and gets its buffer when the compositor described one;
`WindowCast` brings the buffer along and renegotiates when the window changes
size. A buffer that PipeWire freed and the code queues is `"bad"`. `Cast` puts
the two side by side and states fairness. `CastThread` is the abstraction that
the D-Bus side needs: one answer to `start`, and an exit once told to stop;
`Cast` implements it (`ThreadKeepsPromise`, fairness included), and `ScreenCast`
is composed with it instead of with the threads. `ScreenCast` has one step per
await or lock of `SelectSources` and `Start`: calls race over the table of a
session, and replacing a stream joins its thread under the lock.

### moonshell's services

`Bus` is a connection: `world` is the other end as it is, `wire` what is under
way, `held` what was read while a set-up call waited for its reply, and a
wake-up takes calls, signals and replies from three queues, so that messages
overtake each other (`reordered`, a history: for the network only where a reply is
taken after a signal that was sent later and says otherwise, `Contradicted`). Each service says what its world may do, how
it answers, and what the service makes of the messages; `model` and `shown` are
the code's state and the snapshot it last gave away. `service` says
which service's connection this is; it never changes, and every action of a
service is guarded by it. `Services` is the choice among the five: each has a
connection of its own and they share nothing, so one at a time is all of them.
A signal about NetworkManager's root stands for `PropertiesChanged` and for the
legacy `StateChanged` (network.rs:318), which comes with it and says no more than
the state. A player's position changes by a seek or with its track: that it runs
on while playing, unsignalled, is what mpris.rs:17 leaves to the widget.

### Surfaces, Moonshell

`stage` is where a pass of `run_with` is, because events are dispatched between
two of its stages. `Surfaces` has the flags of each window, and `server` the
compositor's side: configured, closed, a frame callback owed. `Moonshell` adds
the VM (numbered, so that what belongs to an old one is told apart), `ctx` for
what Lua queued, timers and commands by the VM that started them, and the
watcher: directories and files on disk, inotify's watches and its bounded queue,
the debounce timer. `missed` is a history: changes no event reports. Left out: a
window of no width or height, which is skipped (lib.rs:524), an error of the read
from inotify, which is logged (main.rs:477), and a watched directory that is
deleted (watcher.rs:186).

### Layout, Drawing

The algorithms of `layout.rs`, `draw.rs` and `scene.rs` as functions, on lengths
of quarter pixels so that a scale of 1.5 stays exact. `Drawing` is the machine
around them: a callback returns another tree, the damage is computed, and the
compositor takes over these pixels and no others. The reference definition is
painting the whole frame: `FrameShown` says the screen always equals it.

### Composition for TLC

`MCClients`, `MCWindows`, `MCPortal` and `MCMoonshell` each hold parts of the
system that do not touch each other's state (a `part` or `scene` chosen in the
initial state says which one is in play while the others stand still), because
their product would add interleavings that nothing can observe. Parts that do
interact are composed for real: `SessionLock` with `Redraw`, `Capture`,
`Moonshell` with `Surfaces`, `ScreenCast` with `CastThread`.

## Runs

| run | checks | instance |
| --- | --- | --- |
| `redraw` | `OutputsInv`, `NoStrandedOutput`, `NoLostDamage`, `AnimationKeepsRepainting` | 2 outputs, everything on, 975 508 states |
| `redraw_live` | `DamageIsPainted` | 1 output, everything but refused frames |
| `session_lock` | `LockAgrees`, `LockedShowsNoSession`, `PendingLockProgresses`, `LockedFocusConfined`, `ImplementsProtocol` | 2 outputs, 2 clients |
| `lock_live` | `LockIsAnswered`, `LockReachesScreens` | 2 outputs, 1 client |
| `lock_queue_error` | `LockedShowsNoSession` is violated | as `session_lock`, with refused frames |
| `processes` | `ProcessInv`, `FollowsManifest`, `Supervised`, `OncePerRun`, `ServicesLive` | 2 entries, 3 processes, 2 generations, 98 972 states |
| `process_live` | `ExitedAreReaped` | 2 entries, one of them also built in |
| `clients` | `IpcInv`, `SubscribersKnowFocus`, `CopiesAnswered`, `GammaInv`, `LockedSceneCaptured` | 2 connections; 2 heads with 2 screencopy clients, 2 sessions or 2 gamma daemons; 1 085 411 states |
| `windows` | `WindowsInv`, `TokensServeOnce`, `TaskbarTruthful`, `InputInv`, `WholeClicks` | 2 toplevels with a token, a panel or a taskbar; or 2 buttons and 2 widgets |
| `portal` | `CastInv`, `ScreenCastInv`, `CastGoesOn`, `ThreadKeepsPromise`, `EverybodyReturns` | a thread with 2 buffers; or 3 calls, the last of them a Start, 2 threads, 1 session; 66 383 states |
| `moonshell` | `BusShown`, `TraySettles`, `NotificationsInv`, `EngineInv`, `StaleIsDue`, `SurfacesInv`, `FrameShown` | each service with 2 to 4 changes of its world; 3 VMs, 3 writes, 2 windows; 54 trees on 2 canvases; 798 630 states |
| `damage_overhang` | `Undamaged` is violated | as `moonshell`, with a text too wide for its column |

What they show:

* **No output is stranded, no damage is lost** (`redraw`): whatever the order of
  commits, vblanks, stale vblanks, orphaned timers, VT switches and hotplugs,
  each lit output of an active session waits for a callback that is registered,
  and damage or an animation has a repaint ahead. The one exception the code
  makes is an attempt that failed (`failed`): an error leaves the output Idle
  until the next damage.
* **A locked session shows nothing of the session** (`session_lock`, `clients`):
  once `locked` is sent the last frame handed to the DRM compositor for any lit
  output is a locked one, through hotplug, VT switches and client deaths - as
  long as a frame that renders also queues - and no capture of an output shows
  the session either. `lock_queue_error` shows what happens otherwise; it is
  listed as a finding.
* **A pending lock ends** (`session_lock`, `lock_live`): while Locking some
  output still owes its first locked frame and has the repaint ahead.
* **Children follow the manifest** (`processes`, `process_live`): each process
  has one owner, a declared service runs or was given up in this generation, once
  entries run as often as declared, and exited children are reaped - with a full
  process table, failed forks and a timer that the loop refuses.
* **Each request is answered once** (`clients`): a request line has one response
  at most, also when Lua answers later, twice or never, and across reloads. A
  pending selection waits for an object of the VM that runs, which holds it or
  threw it away itself; of the latter only the portal's timeout ends the wait,
  and the entry stays until its client goes or a reload. A client's backlog is
  bounded by its death. A screencopy frame is told once, from a queue that exists
  as long as it is in it, and a capture session's size is that of what it
  captures, unless that is a window whose scale changed since sessions were last
  refreshed.
* **Subscribers know the focus** (`clients`): the last focus event a client was
  sent names the focus there is, and none is sent twice in a row, however input
  and Lua interleave - but where the hook of a focus change moves the focus on.
* **The ramp on the screen is its owner's** (`clients`): one live control per
  head, and after any switch away and back, with hotplug in between, the CRTC
  applies what the control last asked, or nothing, where the kernel took it.
* **No table refers to a window that is gone** (`windows`): through hooks that
  queue ops on dying windows, nested entries and reloads from anywhere; the VM
  knows each window once; a token is used once and in time; a taskbar sees one
  activated window at most and outputs entered once.
* **Whole clicks** (`windows`): of every click a client sees both ends or none,
  unless an overlay, a modal or a grab took part in it.
* **Streams** (`portal`): a buffer is queued only while it is held; an output cast
  goes on filling buffers as long as it streams to a consumer that gives them
  back, through failed frames and replaced pools, but for the two stalls listed
  below; the thread keeps the promise the D-Bus side is checked with, under which
  every call returns although a join waits under the table's lock.
* **The shell catches up** (`moonshell`): with no message under way, what a
  service shows is what there is (for the network, where no reply was taken after
  a later signal that contradicts it; for players and tray, where no message
  overtook another; for the battery always); the SSID of a network that was left is
  shown only while the signal that says so is unread; nothing of
  an old VM is painted, armed or answered after a reload; a reported change of
  the configuration has a reload ahead; a mapped surface that is out of date has
  a reason to be painted; and the damaged pixels are all that changed.
* Findings: a lock can be confirmed on a frame that was never queued
  (`lock_queue_error`), and a text that is wider than its column leaves pixels on
  screen when it changes (`damage_overhang`).

### Where the code and its words differ

Found while modelling, in addition to the findings; the models do what the code
does, and no property speaks against it:

* tty.rs:124, "at most one repaint is in flight per output": a surface that is
  reset while an idle callback is registered gets a second one, and two repaints
  run back to back.
* tty.rs:1800-1803, "never a busy loop": a frame the kernel refuses leaves the
  output Idle with `rendered_ok` set, and the keepalive repaints at once.
* tty.rs:1791-1793, "a failed render on a still-unlocked output fails the lock":
  a renderer that cannot be made (tty.rs:1607) returns before that.
* process.rs:97-99, "a config reload is the retry trigger": a service that exited
  less than a tick before the reload is kept by it as if it ran (process.rs:195)
  and given up by the next tick.
* handlers.rs:417-419, tokens without a serial are "urgency pings rather than
  focus steals": presented before the map (state.rs:1342) such a token focuses
  the window all the same.
* handlers.rs:952: when a layer surface that had the focus is destroyed, the
  refocus takes the new snapshot of the reserved space first, and Lua is not told
  that it is free.
* state.rs:1610-1655: a focus hook that moves the focus is announced before the
  change it reacts to.
* lua.rs:769 and 2091, a grab lasts "until every button is released": input.rs:735
  ends it on any release. A press that a menu swallowed may leave its button in
  `consumed_buttons` for a later click.
* toplevel_stream.rs:818, "the natural cycle re-kicks": after a dequeue that found
  nothing, nothing kicks until the compositor or PipeWire has something else to
  say. `capture_kicked` outlives a consumer that leaves with a copy in flight.
* mpris.rs:97: a signal from a player that is not tracked by name adds one that no
  `NameOwnerChanged` takes off.
* notifications.rs:135, "0 = never expire": an id that a client made up may be
  handed out again, and the old timer closes the new notification.
* ipc.rs:395, "the portal waits with a timeout; the compositor never does": a
  request object that Lua drops, or loses with a widget (state.rs:637), leaves its
  entry in `pending_screencast`; nothing removes it when the portal gave up, only
  the portal's disconnection or a reload.
* capture.rs:509, "Re-announce constraints after any output or window change": a
  window that Lua moves to an output of another scale, shows or hides, or that the
  default makes fullscreen, is captured in another size (capture.rs:485), and its
  sessions hear of it at the next commit or change of outputs.
* A refused ioctl of gamma is logged and not tried again: a new connector may keep
  the previous compositor's ramp (tty.rs:728), a return the other session's
  (tty.rs:2290), and a change that waited for the return is lost with it.
* network.rs:150-153, "instead of showing the previous network's SSID": replies are
  taken after signals (network.rs:459-463), so that a reply about a connection that
  was sent before a roam, and read with the signal of it, puts the access point
  that was left back in place, until the connection's next signal.
* pipewire_stream.rs:571: `capture_kicked` is set once. An output cast whose pool
  is taken away under a copy (pipewire_stream.rs:743) asks for no capture when the
  next pool comes; and one that dequeues a buffer without a wl_buffer queues it as
  it is and returns (pipewire_stream.rs:852), which leaves the frame the compositor
  announced without a copy, and the cast without a next frame.
* Signals that set-up held back are looked at only at the next wake-up of that
  connection, and what a render callback of the shell asks for only at the next
  event.
* Files that are in a new directory before its watch exists, and directories
  that an overflow swallowed, are not noticed by the watcher.

### Bounds

`MaxIdles`, `MaxTimers` and `MaxStale` bound callbacks and stale page flips per
output, in the guards of the actions that could exceed them (`HasRoom`,
`LateFlips`). Two idle callbacks, two timers and one stale flip are the first
instance where an orphan coexists with its successor; with three the machines
pass through the same states, since a callback acts on the state it finds and
not on who registered it. The lock runs use one of each and no stale flip: the
interplay of orphans is settled by `redraw`, and proved for every bound. Two
outputs are needed for a lock that is half rendered; two clients for a refused
and for a replacing client.

Three processes let two services run beside a detached child and leave nothing
for a restart that needs a fourth, so that forks fail for want of room as well.
`MaxGeneration` is 2: the code compares a recorded generation with the current
one only for equality, and the start-up load gives 1. `MaxSpawns` is 1 per Lua
entry; the detached children add up. The declarable entries have both kinds of
once policy and two services of one command whose policies differ. The session
may end, so the `process` runs do not check for deadlock; nor do the four
combined runs, whose bounded worlds come to rest.

`Ipc`: a socket that takes one frame and a backlog of one (`Room`, `MaxOut`), so
that the second unread frame waits and the third kills; two lines per read, so
that the first may kill the client the second comes from; two selections
(`MaxTokens`), so that one id is used again. `Capture`: two heads on one CRTC
for a replug that inherits a ramp, on two for a queue that moves between
outputs; one CRTC is legacy. Capture sessions are looked at without the switch,
which they do not see, and the other protocols with heads of one size, which
they do not ask for (`SizeMatters`). A run of Lua in `Ipc` has one effect, or an
answer with a broadcast or a reload that competes with it (`OneEffect`); the
proofs allow any. `Windows`: two toplevels are a focus and a previous focus; one
reload (`MaxReloads`) from any of the hooks; each scene has one peer (token,
panel, taskbar) and the ops that bear on it. `Input`: two widgets are a modal
over a sheet, two buttons a grab that ends on the wrong one. `Cast`: two buffers
are one in flight and one with the consumer; two sizes make a renegotiation.
`ScreenCast`: three calls are two Starts that race and a SelectSources between
them, which needs two threads. The worlds of the services change at most
`MaxChanges` times, per service as `Changes` says: enough for something to leave
and return while its first signals are on the wire. `MaxVms` is 3, a reload
during which the next becomes due; `MaxQueue` 1 lets inotify overflow; `MaxDirs`
2 leaves nothing for a third directory.

Symmetry is used over sets whose members the specification never tells apart
(outputs, clients, connections, frames, toplevels, access points, players), and
in runs without liveness properties only.

### Fairness

`Fairness` in `Redraw` is what calloop and the kernel give: idle callbacks that
are registered run (WF), an armed timer fires and the flips of an active session
are delivered however often a batch of idles comes in between (SF: such a batch
disables them for a moment). No fairness is assumed of clients, users, hotplug
or VT switches. `LockFairness` adds the grace timer.

The supervision timer fires while it is armed, and `main` goes on from loading
the configuration to its event loop: both weakly fair. `process_live` lets no
insertion of the timer fail; the code retries it only at the next Lua entry.

`redraw_live` leaves the refused frames out: with them and an animation the loop
spins.

In `Cast` the thread's start-up goes on (WF); PipeWire connects the stream or
fails it, and the 100 ms timer that looks at the stop flag gets its turn (SF:
either may be disabled for a moment by a callback that another source brings);
the io callback renegotiates after its batch, the compositor answers captures and
the consumer gives buffers back (WF). In `ScreenCast` each call is served by the
executor, and each thread answers and exits as `CastThread` says (WF). The part
that stands still enables no fair action, so conjoining both costs nothing.

## Proofs

`OutputProofs` first proves, for any set of outputs, any bounds and any choice of
failures, that `Spec` keeps `OutputsInv`, `NoStrandedOutput`, `NoLostDamage` and
`AnimationKeepsRepainting`. The invariant `IInv` is needed
because none of them is inductive: an output that waits for a vblank needs its
flip (`FlipDue`), which holds only while the session is active, and a queued
frame needs a pending one before it (`Coherent`). It is stated per output
(`Steady`), so that the step proof is a lemma per function (`QueueRedrawLemma`,
`OnVBlankLemma`, `RenderedLemma`, `TimerFiredLemma`, `FreshLemma`), lifted to
all outputs (`QueueAllLemma`, `PaintLemma`, `RelightLemma`), one step per
action. The only assumption is `RedrawAssumption`.

It then proves `ClientAndLockAgree` and that `LockSpec` implements
`LockProtocol`. The invariant `LockInv` adds to `ClientAndLockAgree` what a dead
client was told. Each handler is shown to move the lock in one of four ways
(`Settles`: not at all, blank, confirm, abort), whichever of them a hotplug or a
repaint composes; each of the four is a step of the protocol.

Its last part proves the other safety properties of `session_lock`.
`LockStepIInv` takes the invariant of `Redraw` over to `LockSpec`: its repaints
are `Painted` like those of `Redraw`, and the repaints the lock adds keep the
machines `Steady`. `Secure` then strengthens `LockedShowsNoSession`,
`PendingLockProgresses` and `LockedFocusConfined` together. The first is not
inductive: an output counts from its locked frame on, before the lock is
confirmed (`Counted`), and across everything that hands it no frame. The second
needs that every output not yet counted is covered at the next activation too,
whence `IInv`: a queued repaint must be coherent to be one. A handler moves the
lock `Orderly`, or a hotplug re-examines it (`RefreshOrderly`); the last frame
and the repaint owed are followed through each function of `Redraw` by a lemma
(`VBlankKeeps`, `TimerKeeps`, `QueueAllKeeps`, `RenderedShows`). That a locked
output shows no session is proved where no rendered frame is refused by the
kernel (`"queueError" \notin Failures`), which is what the run
`lock_queue_error` shows to be necessary.

The second half of `ShellProofs` proves, for any ids, process table and number
of generations, every safety property of `processes` and that each id implements
`ServiceLife`. `Inv` adds to the checked invariants that a running service is
not suppressed and that no recorded generation lies ahead (`Bookkeeping`):
without the first a service kept by a reload could be retired at once, without
the second a once entry could run twice in a generation. What `Reconcile`
establishes is one lemma over any manifest (`ReconcileLemma`), which four
actions cite; `ReconcileOne` and `ReconcileConfigures` do the same for the
refinement. `OncePerRun` is an action property and follows from the same
invariant, action by action. The only assumption is `ProcessAssumption`.

The second half of `ClientsProofs` proves `IpcInv` and `SubscribersKnowFocus` for any
connections, request ids, subscriptions and bounds. Lua may do anything inside a
handler, also call other handlers, so that what holds between two callbacks
(`ServerSettled`) does not hold inside one: a request may have been read and not
yet be in the table, a client may be marked dead and not yet be swept. `Half`
says what does hold there, with the requests and tokens in hand as parameters;
each handler has a lemma about any record that is `Half` kept, and a handler
that re-enters Lua cites the lemmas of what it is made of. `Has` is what Lua holds
or threw away: each entry of the table has its token there, whatever the VM lets
go. That the focus told is the focus there is (`Aware`) holds after each function
that moves it, because all of them broadcast what they set, and fails only where a
hook within the change moved it (`moved`). `ServerInv` is
`ServerSettled` with, at most, the connection that is being read still to be
swept. The assumption is `IpcAssumption`.

The first half of `ClientsProofs` proves `GammaInv`, `CopiesAnswered` and
`LockedSceneCaptured`, one protocol at a time. `GammaFollowsControl` speaks of
an active session only; `GammaInd` adds what the return of the session makes of
a head (`Due`): the change kept for the return or else the ramp last programmed
is the one wanted, also while the other session is on the screen, unless the
kernel refused it (`Sure`). `ImageCopyInd` adds that a frame that waits belongs to
a session that was made. `ScreencopyInd`
is stated from both ends: what a queue holds (`QueueSound`) and where a frame is
(`FrameSound`), because a copy request finds its queue through the frame, and a
redraw its frames through the queue. The destructors that run late are the
reason that dead frames count for a queue. The lock's property is an action
property and follows from the invariant of image capture. Assumptions:
`HeadsAssumption`, `GammaAssumption` and `ScreencopyAssumption`, which say that
a value that stands for "none" is no other value.

`QueueProofs` is about `Retain`, with which screencopy and moonshell filter their
queues: it picks the kept positions by rank, because the standard `SelectSeq` is
recursive and the prover can say nothing of it. `RetainOrder` says for every
sequence that the elements that stay are those to be kept, from a place of their
own and in the same order, and `RetainLemma` what follows for lengths and sets.
TLC compares `Retain` with `SelectSeq` on every queue up to length 4 (`MCClients`).

`PortalProofs` proves `CastInv`, with it that an output cast once started has a
capture with the compositor (`OutputAsks`), and that each step of a thread is a step of `CastThread` or leaves it alone (`ThreadTakesSteps`, the
safety part of `ThreadKeepsPromise`). `CastInd` adds that a wl_buffer is of the
size last told or a size is to be negotiated (`SlotsFit`), where `FramesFit`
speaks of the buffer in flight only, and that a thread before its loop has no
pool (`NotBooted`). The assumption is `CastAssumption`.

Of the D-Bus interface it proves `ScreenCastInv` on top of any threads that keep
`CastThread`'s promise. `NoStrayThread` needs that a thread that answered with an
error has exited (`ErrorsExit`, which is what `CastThread` gives), and
`OnlyWhatWasOffered` that a call keeps what it found, of the types it asked for,
until it ends (`CallsSound`). Every reply and every step of one call is one
lemma (`CallStep`). The assumption is `ScreenCastAssumption`.

`WindowsProofs` proves `WindowsInv`, `TokensServeOnce` and `TaskbarTruthful` for
any toplevels, tokens and scenes. A handler is a function of `core` that enters
Lua in the middle, any number of times. What holds whenever it does is `Tables`,
and `Turn` says that Lua keeps it and leaves alone what only handlers touch;
every function that enters Lua has a lemma that it is a `Turn`, so that a handler
is a chain of them. Between handlers `Settled` holds as well. `Tables` adds that no
window is stacked twice, because the space takes a window out at one position:
one stacked twice would stay behind its death. `TokenSound` adds what makes a
token serve once: a stashed one was not used, is spent, and waits for one
toplevel. `BarSound` relates what the taskbar was told to what the refresh last
saw; in the middle of a refresh, those it has passed were told of the focus
there is now, which is why the focused window comes last. The assumption is
`WindowAssumption`.

Its second part proves `InputInv` and `WholeClicks` for any widgets and buttons.
`UiSound` is what every run of Lua and every function of the registry keeps; it
adds that Lua's widgets have no tag, or closing the error banner could leave
callbacks behind. `Clean` says of a button that is down, and whose click met
nothing, that either the seat or `consumed_buttons` has it, never both: this is
what makes its release go where the press went. The assumption is
`InputAssumption`.

The first half of `ShellProofs` proves `EngineInv`, `SurfacesInv` and
`StaleIsDue` for any bounds on windows, events, VMs and writes. `ShellSound`
puts two of them together, because a reload destroys windows whose events are
under way. `EngineSound` says what of a tick is done at each stage (`Drained`).
`WinSound` relates one window to its layer surface and to the events about it:
the promise that a frame or a configure comes is kept by the compositor or by
the queue, and an unmapped window has nothing under way. That an unmapped window
was closed on the last output (`lived`) needs that the shell's count of outputs
never goes below zero at any point of the queue (`Balanced`): the count the
shell has, with the output events still to be read, is the compositor's.
`StaleIsDue` needs besides that whoever watches a directory watches the root
(`WatcherSound`), or an overflow would have no event. The step lemmas are one
per event, then one per stage of the tick. TLC checked `MoonshellInd` on every
state of `moonshell` before it was proved. The assumptions are `SurfaceBounds`
and `EngineBounds`.

`BusProofs` and `ServicesProofs` prove `BusShown`, `TraySettles` and
`NotificationsInv` for any levels, connections, access points, players, tracks
and applications and any number of changes of the world: theorems about each
service on its own, then about `ServicesSpec`. "Settles" properties speak of the
moment when nothing is under way and say nothing before it; what is inductive is
what makes that moment come out right. For every part of what the service holds,
either it is the world's, or it is contradicted by something still to come: by a
message on the wire or held back, or by a question that was not answered yet.
This is `HoldsTruth` of the battery, `LinkHeld` of the network, `PlayersHeld` of
the players, `AppHeld` and `AppKept` of the tray. The messages themselves say
what was true when nothing later contradicts them (`SaysTruth`, `AllSaid`).
With an empty wire the property remains. Beyond that:

* Battery: at most one reply is under way, and once the service runs only signals
  are (`BatteryPhases`), so that no answer can undo a signal.
* Network: what is followed is a chain of root, connection and access point, and
  `LinkHeld` speaks of a link only where the links before it are true
  (`OnPrimary`, `OnAp`). A question under way (`Sought`) excuses its own link. In a
  batch where no reply is contradicted by a later signal, taking the signals first
  comes to the same (`Uncontradicted`, `SortedSaid`), so that such a reordering
  needs no exception.
* Players: a player has one entry (`OneEntry`). A request under way stands for
  what its entry may lack; a player that left and returned is listed, or its
  arrival is still to be heard of (`ListHeld`).
* Tray: an application that left has no item or its loss is still to come
  (`AppHeld`), whatever the order. That one which is there has its item, under its
  title (`AppKept`), is claimed while no wake-up took its messages out of order.
* Notifications: that an id names one notification needs that no id told to a
  client lies beyond the counter (`Named`), and that the calls on the wire name
  ids that were told (`Replaces`); both as long as no client makes one up (`wild`).

A wake-up folds a handler over a batch. `FoldLeft` is a recursive function in
the community modules, and its results along the way are what the lemmas speak
of: `run[n]` after n messages, with the invariant stated of the rest of the
batch. Induction over these positions is `Induction`, stated over sets of
numbers and not over predicates, from the well-foundedness of the naturals.
Assumptions: `LevelsAssumption`, `ChainAssumption`, `PlayersAssumption`,
`AppsAssumption` and `MaxIdAssumption`; they say that percentages are
percentages, that Wi-Fi connections are connections, applications under a
well-known name applications, that there are finitely many players, and that
`Nothing`, which stands for a missing value, is no other value.

Only model-checked: `FrameShown` in `moonshell`, since `Layout` and `Drawing`
are recursive over trees and the prover cannot take recursive operators; and all
liveness (`CastGoesOn` among it), with the fairness in `ThreadKeepsPromise`, which
is out of its reach.
Induction over data was possible where the data is a sequence handled one
message at a time, and only in the form above.

## Plan

1. (done) `Redraw`, `SessionLock`, `LockProtocol`, `Processes`, `ServiceLife`,
   their runs and proofs.
2. (done) `Ipc`; `Capture` and its protocols; `Windows`, `Input`; the portal;
   moonshell with its services, surfaces and drawing; their runs.
3. (done) Proofs of every safety property of `redraw`, `session_lock`,
   `processes`, `clients`, `portal` and `windows`, of `Moonshell` and of
   moonshell's services.
4. Popups with their grabs, and Xwayland windows, in `Windows`.
5. Operators checked against reference definitions: output placement, mode
   choice, coordinate rounding, animation retargeting.

## Not modelled

* Drawing in the compositor (shaders, textures, scene assembly, widgets' looks)
  and in moonshell below the level of pixels' colours: glyphs, images, rounded
  corners. Data without control.
* libinput settings, mode choice, several GPUs, the winit backend.
* Popups, interactive move and resize, decorations, native shell surfaces and
  Xwayland; scrolling, gestures, touch, tablets and the cursor image.
* Geometry of windows and the curves of animations: arithmetic on floating-point
  numbers. `Redraw` keeps whether something moves, `Windows` whether a window is
  mapped and on an output.
* What a configuration computes. Lua is a nondeterministic choice over the
  operations it may queue.
* Start-up, argument parsing and the documentation generator.
