------------------------------ MODULE Windows ------------------------------
(***************************************************************************)
(* The life of a window and the policy that decides about it: toplevels    *)
(* from creation to destruction, the tables state.rs keeps about the ones  *)
(* that are mapped, the Lua hooks every event runs through, the reload     *)
(* that replaces the VM and tells the fresh one about the windows there    *)
(* are, xdg-activation tokens, a layer surface that reserves space, and    *)
(* the taskbar protocol (wlr-foreign-toplevel-management).                 *)
(*                                                                         *)
(* A handler runs to its end before the next one, so each is one step; the *)
(* Lua code it enters is one nondeterministic `script`: one operation,     *)
(* queued by the at-th hook the handler reaches.  A window's id is named   *)
(* by its toplevel: add_window gives an id to each at most once.           *)
(***************************************************************************)
EXTENDS Naturals, FiniteSets, SequencesExt

CONSTANTS
  Toplevels,     \* xdg toplevels of the clients
  Tokens,        \* xdg-activation tokens
  Nobody,        \* no keyboard focus, no token
  Panel,         \* the one layer surface
  Scenes,        \* bound: the peers that take part, what Lua does, which VMs load
  MaxReloads     \* bound on the reloads of a behaviour

VARIABLES
  core,          \* struct Tomoe: windows, tables, focus, VM, tokens
  bar            \* the taskbar's client and what it was told

vars == <<core, bar>>

(* A configuration: without hooks (no window manager, rules only), with    *)
(* open, close, focus and request hooks, or with on_reload hooks as well.  *)
VMs == {"plain", "wm", "keeper"}
HasHooks(c) == c.vm # "plain"

(* What Lua code queues: a window operation, or the reload action.         *)
Idle == [op |-> "idle"]
WinOps == {"geometry", "properties", "show", "hide", "focus", "raise"}

ASSUME WindowAssumption ==
  /\ MaxReloads \in Nat /\ Nobody \notin Toplevels \cup Tokens
  /\ Scenes \subseteq [peers : SUBSET {"tokens", "panel", "taskbar"},
                        ops : SUBSET WinOps, vms : SUBSET VMs]

Script(scene) ==
  {Idle, [op |-> "clear_focus", at |-> 1]}
    \cup [op : WinOps \cap scene.ops, win : Toplevels, at : {1, 2}]
    \cup [op : {"reload"}, to : scene.vms, at : {1, 2}]

Mapped(c, t) == t \in ToSet(c.stack)
Zone(c) == c.layer = "zoned"
(* PhysicalSpace takes a window out at its position: it has one at most. *)
Without(s, t) == RemoveFirst(s, t)
Raise(s, t) == IF t \in ToSet(s) THEN Append(Without(s, t), t) ELSE s
Place(s, t) == IF t \in ToSet(s) THEN s ELSE Append(s, t)
Topmost(c) == IF c.stack = << >> THEN Nobody ELSE Last(c.stack)
Sync(c) == [c EXCEPT !.snap = Zone(c)]

----------------------------------------------------------------------------
(* Applying what Lua queued. *)

(* apply_op: an id that no window carries is ignored, whatever the op. *)
ApplyOp(c, e) ==
  CASE e.op = "clear_focus" -> [c EXCEPT !.focus = Nobody]
    [] e.op \in WinOps /\ e.win \notin c.windows -> c
    [] e.op = "geometry" /\ e.win \in c.windows ->
         [c EXCEPT !.desired = @ \cup {e.win}, !.stack = Place(@, e.win)]
    [] e.op = "properties" /\ e.win \in c.windows ->
         [c EXCEPT !.props = @ \cup {e.win}]
    [] e.op = "show" /\ e.win \in c.windows ->
         [c EXCEPT !.stack = Place(@, e.win)]
    [] e.op = "hide" /\ e.win \in c.windows ->
         [c EXCEPT !.stack = Without(@, e.win)]
    [] e.op = "focus" /\ e.win \in c.windows ->
         [c EXCEPT !.focus = e.win, !.stack = Raise(@, e.win)]
    [] e.op = "raise" /\ e.win \in c.windows ->
         [c EXCEPT !.stack = Raise(@, e.win)]
    [] OTHER -> c

(* The fresh VM learns of the windows there are, each exactly once: from   *)
(* the state its predecessor saved, or else by a replay of the open hook.  *)
Learned(c, to) ==
  IF to = "keeper" /\ c.vm = "keeper" THEN c.known
  ELSE [t \in Toplevels |-> IF to # "plain" /\ t \in c.windows THEN 1 ELSE 0]

(* Properties are policy, the other tables outlive the VM. *)
Reload(c, to) ==
  IF c.reloads = MaxReloads THEN c
  ELSE [c EXCEPT !.vm = to, !.known = Learned(c, to), !.props = {},
                 !.snap = Zone(c), !.reloads = @ + 1]

(* A Lua entry followed by after_lua: the script is spent by the hook it   *)
(* names; its operations are applied, the snapshot is taken again.         *)
Enter(c) ==
  LET e == c.script
      d == [c EXCEPT !.script = Idle]
  IN IF e.op = "idle" THEN Sync(c)
     ELSE IF e.at > 1 THEN Sync([c EXCEPT !.script.at = @ - 1])
     ELSE IF e.op = "reload" THEN Sync(Reload(d, e.to))
     ELSE Sync(ApplyOp(d, e))

(* An event without hooks enters no Lua code, the queue is empty. *)
Hook(c) == IF HasHooks(c) THEN Enter(c) ELSE Sync(c)

(* focus_window outside Lua: the hook hears of it, then the queue drains.  *)
FocusWindow(c, t) ==
  Hook([c EXCEPT !.focus = t, !.stack = Raise(@, t), !.snap = Zone(c)])

(* emit_window_request: asked only when some hook is registered; the hook  *)
(* consumes the request or leaves it to the native default.                *)
Ask(c) == IF HasHooks(c) THEN Enter(c) ELSE c
Consumes(c, yes) == HasHooks(c) /\ yes

(* outputs_changed: Lua hears of it only if the snapshot differs. *)
OutputsChanged(c) ==
  IF Zone(c) = c.snap THEN c
  ELSE Hook([c EXCEPT !.snap = Zone(c)])

----------------------------------------------------------------------------
(* Windows. *)

(* The policy is asked about, or focus given to, the bearer of a token.    *)
Use(c, k) ==
  LET x == c.token[k]
  IN [c EXCEPT !.token[k] = [x EXCEPT !.uses = IF x.uses < 2 THEN x.uses + 1 ELSE x.uses,
                                      !.late = x.late \/ ~x.fresh]]

\* Fault: the age of a stashed token is not looked at again.
RedeemStale(c, t, yes) ==
  LET k == c.pending[t]
      d == [c EXCEPT !.pending[t] = Nobody]
  IN IF k = Nobody THEN d
     ELSE LET a == Ask(Use(d, k))
          IN IF Consumes(d, yes) THEN a ELSE FocusWindow(a, t)

(* A token that waited for the window to map. *)
Redeem(c, t, yes) ==
  LET k == c.pending[t]
      d == [c EXCEPT !.pending[t] = Nobody]
  IN IF k = Nobody \/ ~c.token[k].fresh THEN d
     ELSE LET a == Ask(Use(d, k))
          IN IF Consumes(d, yes) THEN a ELSE FocusWindow(a, t)

(* The open hook places the window; without one the core maps it over the  *)
(* whole output, focuses it and runs the rules.                            *)
Policy(c, t) ==
  IF HasHooks(c)
  THEN Enter(Sync([c EXCEPT !.known[t] = IF @ < 2 THEN @ + 1 ELSE @]))
  ELSE Enter(FocusWindow([c EXCEPT !.stack = Place(@, t)], t))

AddWindow(c, t, yes) ==
  LET in == [c EXCEPT !.unmapped = @ \ {t}, !.windows = @ \cup {t},
                      !.listed = @ \cup {t}]
  IN Redeem([Policy(in, t) EXCEPT !.ipc = @ \cup {t}], t, yes)

\* Fault: fullscreen_prev keeps the entry of a window that is gone.
ForgetNotPrev(c, t) ==
  [c EXCEPT !.windows = @ \ {t}, !.listed = @ \ {t}, !.stack = Without(@, t),
            !.desired = @ \ {t}, !.props = @ \ {t}]

(* Every table forgets the window before the close hook runs. *)
Forget(c, t) ==
  [c EXCEPT !.windows = @ \ {t}, !.listed = @ \ {t}, !.stack = Without(@, t),
            !.desired = @ \ {t}, !.props = @ \ {t}, !.prev = @ \ {t}]

WindowClosed(c, t) ==
  LET out == Forget(c, t)
      told == IF HasHooks(c)
              THEN Enter(Sync([out EXCEPT !.known[t] = IF @ > 0 THEN @ - 1 ELSE @]))
              ELSE out
      next == IF HasHooks(told) THEN told ELSE FocusWindow(told, Topmost(told))
  IN [next EXCEPT !.ipc = @ \ {t}]

ToplevelDestroyed(c, t) ==
  LET gone == [c EXCEPT !.pending[t] = Nobody, !.unmapped = @ \ {t},
                        !.dead = @ \cup {t}, !.configured = @ \ {t}]
  IN IF t \in c.windows THEN WindowClosed(gone, t) ELSE gone

(* The native fullscreen remembers where a mapped window was, once. *)
FullscreenDefault(c, t) ==
  IF t \in c.windows
  THEN [c EXCEPT !.prev = IF Mapped(c, t) THEN @ \cup {t} ELSE @,
                 !.stack = Raise(Place(@, t), t)]
  ELSE c

UnfullscreenDefault(c, t) ==
  [c EXCEPT !.prev = @ \ {t}, !.stack = IF t \in c.prev THEN Place(@, t) ELSE @]

----------------------------------------------------------------------------
(* Handlers.  Each starts with the script Lua will run, and drops what of  *)
(* it no hook came to run.                                                 *)

Handle(Handler(_)) ==
  /\ bar.todo = {}
  /\ \E e \in Script(core.scene) : core' = [Handler([core EXCEPT !.script = e]) EXCEPT !.script = Idle]
  /\ UNCHANGED bar

NewToplevel(t) ==
  /\ t \notin core.unmapped \cup core.windows \cup core.dead
  /\ Handle(LAMBDA c : [c EXCEPT !.unmapped = @ \cup {t}])

(* A commit of an unmapped toplevel: the first is answered by a configure, *)
(* the one with a buffer maps the window.                                  *)
Commit(t) ==
  /\ t \in core.unmapped
  /\ \E yes \in BOOLEAN :
       Handle(LAMBDA c : IF t \notin c.configured
                         THEN [c EXCEPT !.configured = @ \cup {t}]
                         ELSE AddWindow(c, t, yes))

Destroy(t) ==
  /\ t \in core.unmapped \cup core.windows
  /\ Handle(LAMBDA c : ToplevelDestroyed(c, t))

Kinds == {"activate", "fullscreen", "unfullscreen", "other"}

(* A state request of the client, or of a taskbar through its handle; the  *)
(* handle of a window that is gone names no window.                        *)
WindowRequest(t) ==
  /\ t \in core.windows \/ bar.handle[t] = "open"
  /\ \E yes \in BOOLEAN, kind \in Kinds :
       /\ kind = "activate" => bar.handle[t] = "open"
       /\ Handle(LAMBDA c :
         IF t \notin c.windows THEN c
         ELSE IF Consumes(c, yes) \/ kind = "other" THEN Ask(c)
         ELSE CASE kind = "activate" -> FocusWindow(Ask(c), t)
                [] kind = "fullscreen" -> FullscreenDefault(Ask(c), t)
                [] kind = "unfullscreen" -> UnfullscreenDefault(Ask(c), t))

(* A bind, a timer, an IPC method: Lua entered from the event loop. *)
LuaEntry == Handle(LAMBDA c : Enter(c))

(* The config file changed; the fresh VM may queue operations at once.     *)
ConfigChanged ==
  /\ core.reloads < MaxReloads
  /\ \E to \in core.scene.vms : Handle(LAMBDA c : Enter(Reload(c, to)))

(* A click focuses what it hits, a window or nothing. *)
ClickFocus ==
  \E t \in ToSet(core.stack) \cup {Nobody} : Handle(LAMBDA c : FocusWindow(c, t))

(* The panel maps, changes the space it reserves or takes the keyboard. *)
LayerCommit ==
  /\ "panel" \in core.scene.peers
  /\ \E z \in {"mapped", "zoned"}, takes \in BOOLEAN :
       /\ core.layer = "none" => ~takes /\ z = "mapped"
       /\ Handle(LAMBDA c :
            OutputsChanged([c EXCEPT !.layer = z,
                                     !.focus = IF takes THEN Panel ELSE @]))

LayerDestroyed ==
  /\ core.layer # "none"
  /\ Handle(LAMBDA c :
       LET d == [c EXCEPT !.layer = "none"]
       IN OutputsChanged(FocusWindow(d, Topmost(d))))

----------------------------------------------------------------------------
(* Activation tokens. *)

(* A client's token without a serial is marked urgency-only; one the core  *)
(* mints for a child has no serial and no mark.                            *)
TokenCreated(k) ==
  /\ bar.todo = {}
  /\ "tokens" \in core.scene.peers /\ core.token[k].state = "none"
  /\ \E urgent \in BOOLEAN :
       core' = [core EXCEPT !.token[k] =
                  [core.token[k] EXCEPT !.state = "live", !.urgent = urgent, !.fresh = TRUE]]
  /\ UNCHANGED bar

(* request_activation: the token is spent, whatever became of it. *)
RequestActivation(k, t) ==
  /\ core.token[k].state = "live"
  /\ t \notin core.dead
  /\ \E yes \in BOOLEAN :
       Handle(LAMBDA c :
         LET urgent == c.token[k].urgent
             steals == ~urgent /\ ~Consumes(c, yes)
             d == [c EXCEPT !.token[k].state = "spent"]
             a == Ask(Use(d, k))
         IN IF ~c.token[k].fresh THEN d
            ELSE IF t \in c.windows
                 THEN IF steals THEN FocusWindow(a, t) ELSE a
            ELSE IF t \in c.unmapped
                 THEN [d EXCEPT !.pending[t] = k]
            ELSE d)

(* XDG_ACTIVATION_TOKEN_TIMEOUT passes. *)
Age(k) ==
  /\ bar.todo = {}
  /\ core.token[k].fresh
  /\ core' = [core EXCEPT !.token[k].fresh = FALSE]
  /\ UNCHANGED bar

(* The prune timer drops stale tokens and stale stashes. *)
Prune ==
  /\ bar.todo = {}
  /\ core' = [core EXCEPT
       !.token = [k \in Tokens |->
                    IF @[k].state = "live" /\ ~@[k].fresh
                    THEN [@[k] EXCEPT !.state = "spent"] ELSE @[k]],
       !.pending = [t \in Toplevels |->
                      IF @[t] # Nobody /\ ~core.token[@[t]].fresh THEN Nobody ELSE @[t]]]
  /\ UNCHANGED bar

----------------------------------------------------------------------------
(* The taskbar: one client, its manager, its wl_output and its handles.    *)

(* What the refresh compares and sends: focus and overlap with the output. *)
Info(c, t) == [active |-> c.focus = t, over |-> Mapped(c, t)]

Enters(over) == IF over /\ bar.output THEN 1 ELSE 0

(* A handle is created with the state the window was last known in. *)
Announce(b, t, info) ==
  [b EXCEPT !.handle[t] = "open",
            !.active = IF info.active THEN @ \cup {t} ELSE @ \ {t},
            !.entered[t] = Enters(info.over)]

BindManager ==
  /\ bar.todo = {} /\ bar.manager = "none" /\ "taskbar" \in core.scene.peers
  /\ bar' = [bar EXCEPT !.manager = "bound",
               !.handle = [t \in Toplevels |-> IF t \in bar.tracked THEN "open" ELSE @[t]],
               !.active = {t \in bar.tracked : bar.info[t].active},
               !.entered = [t \in Toplevels |->
                              IF t \in bar.tracked THEN Enters(bar.info[t].over) ELSE 0]]
  /\ UNCHANGED core

(* After stop the handles that exist live on, new windows get none. *)
StopManager ==
  /\ bar.todo = {} /\ bar.manager = "bound"
  /\ bar' = [bar EXCEPT !.manager = "stopped"]
  /\ UNCHANGED core

DestroyHandle(t) ==
  /\ bar.todo = {} /\ bar.handle[t] \in {"open", "closed"}
  /\ bar' = [bar EXCEPT !.handle[t] = "destroyed", !.active = @ \ {t}, !.entered[t] = 0]
  /\ UNCHANGED core

\* Fault: a bound output is entered whether or not the window overlaps it.
BindOutputEnters ==
  /\ bar.todo = {} /\ ~bar.output /\ "taskbar" \in core.scene.peers
  /\ bar' = [bar EXCEPT !.output = TRUE,
               !.entered = [t \in Toplevels |->
                  IF bar.handle[t] = "open" THEN @[t] + 1 ELSE @[t]]]
  /\ UNCHANGED core

(* on_output_bound: the enters a handle could not get before the bind. *)
BindOutput ==
  /\ bar.todo = {} /\ ~bar.output /\ "taskbar" \in core.scene.peers
  /\ bar' = [bar EXCEPT !.output = TRUE,
               !.entered = [t \in Toplevels |->
                  IF bar.handle[t] = "open" /\ t \in bar.tracked /\ bar.info[t].over
                  THEN @[t] + 1 ELSE @[t]]]
  /\ UNCHANGED core

(* Once per iteration of the event loop: windows that are gone are retired *)
(* first, then each window is compared with what was last sent.            *)
StartRefresh ==
  /\ bar.todo = {} /\ "taskbar" \in core.scene.peers /\ core.windows \cup bar.tracked # {}
  /\ LET gone == bar.tracked \ core.windows
     IN bar' = [bar EXCEPT !.tracked = @ \ gone, !.todo = core.windows,
                  !.handle = [t \in Toplevels |->
                     IF t \in gone /\ @[t] = "open" THEN "closed" ELSE @[t]],
                  !.active = @ \ gone,
                  !.entered = [t \in Toplevels |-> IF t \in gone THEN 0 ELSE @[t]]]
  /\ UNCHANGED core

(* The window with the keyboard focus is refreshed after all the others. *)
Due(t) == t \in bar.todo /\ (core.focus = t => bar.todo = {t})

Refresh(t) ==
  /\ Due(t)
  /\ LET info == Info(core, t)
         b == [bar EXCEPT !.todo = @ \ {t}, !.tracked = @ \cup {t}, !.info[t] = info]
     IN bar' = IF t \notin bar.tracked
               THEN IF bar.manager = "bound" THEN Announce(b, t, info) ELSE b
               ELSE IF bar.handle[t] # "open" THEN b
               ELSE [b EXCEPT
                      !.active = IF info.active THEN @ \cup {t} ELSE @ \ {t},
                      !.entered[t] = IF info.over = bar.info[t].over THEN @
                                     ELSE Enters(info.over)]
  /\ UNCHANGED core

----------------------------------------------------------------------------
Init ==
  /\ \E scene \in Scenes, vm \in VMs :
       /\ vm = "plain" \/ vm \in scene.vms
       /\ core =
            [unmapped |-> {}, configured |-> {}, dead |-> {}, windows |-> {},
             stack |-> << >>, desired |-> {}, props |-> {}, prev |-> {},
             listed |-> {}, ipc |-> {}, focus |-> Nobody,
             pending |-> [t \in Toplevels |-> Nobody],
             known |-> [t \in Toplevels |-> 0], vm |-> vm, reloads |-> 0,
             scene |-> scene, layer |-> "none", snap |-> FALSE, script |-> Idle,
             token |-> [k \in Tokens |-> [state |-> "none", urgent |-> FALSE,
               fresh |-> FALSE, uses |-> 0, late |-> FALSE]]]
  /\ bar = [manager |-> "none", output |-> FALSE, tracked |-> {}, todo |-> {},
            handle |-> [t \in Toplevels |-> "none"], active |-> {},
            entered |-> [t \in Toplevels |-> 0],
            info |-> [t \in Toplevels |-> [active |-> FALSE, over |-> FALSE]]]

Next ==
  \/ \E t \in Toplevels : NewToplevel(t)
  \/ \E t \in Toplevels : Commit(t)
  \/ \E t \in Toplevels : Destroy(t)
  \/ \E t \in Toplevels : WindowRequest(t)
  \/ ClickFocus
  \/ LuaEntry
  \/ ConfigChanged
  \/ LayerCommit
  \/ LayerDestroyed
  \/ \E k \in Tokens : TokenCreated(k)
  \/ \E k \in Tokens, t \in Toplevels : RequestActivation(k, t)
  \/ \E k \in Tokens : Age(k)
  \/ Prune
  \/ BindManager
  \/ StopManager
  \/ \E t \in Toplevels : DestroyHandle(t)
  \/ BindOutput
  \/ StartRefresh
  \/ \E t \in Toplevels : Refresh(t)

Spec == Init /\ [][Next]_vars

----------------------------------------------------------------------------
(* Properties. *)

(* Every field keeps its kind, and the tables of the core only name        *)
(* toplevels that exist.                                                   *)
TypeOK ==
  /\ core.windows \cup core.unmapped \cup core.dead \subseteq Toplevels
  /\ core.windows \cap core.unmapped = {} /\ core.configured \subseteq Toplevels
  /\ core.vm \in VMs /\ core.reloads \in 0 .. MaxReloads /\ core.script = Idle
  /\ core.focus \in Toplevels \cup {Panel, Nobody}
  /\ core.layer \in {"none", "mapped", "zoned"} /\ core.snap \in BOOLEAN
  /\ \A k \in Tokens : core.token[k].state \in {"none", "live", "spent"}
  /\ bar.manager \in {"none", "bound", "stopped"} /\ bar.output \in BOOLEAN
  /\ bar.tracked \cup bar.todo \cup bar.active \subseteq Toplevels
  /\ \A t \in Toplevels : bar.handle[t] \in {"none", "open", "closed", "destroyed"}

(* Whatever Lua queued for a window that was about to die, no table keeps  *)
(* an entry for one that is gone: the core's tables and the advertised     *)
(* handles name mapped windows only, a stashed token an unmapped toplevel, *)
(* and exactly the mapped windows are advertised and announced.            *)
NoDeadEntries ==
  /\ ToSet(core.stack) \cup core.desired \cup core.props \cup core.prev
       \subseteq core.windows
  /\ \A t \in Toplevels : core.pending[t] # Nobody => t \in core.unmapped
  /\ core.listed = core.windows /\ core.ipc = core.windows

(* However reloads fall between opens and closes, even inside the hook of  *)
(* one, the window manager running now tracks each live window exactly     *)
(* once and none that is gone: restored or replayed, never both.           *)
TrackedOnce ==
  core.vm # "plain" =>
    \A t \in Toplevels : core.known[t] = IF t \in core.windows THEN 1 ELSE 0

(* An activation token serves once, and only within its ten seconds, even  *)
(* when it is stashed until the window maps.                               *)
TokensServeOnce ==
  \A k \in Tokens : core.token[k].uses <= 1 /\ ~core.token[k].late

(* At no point of a refresh does the taskbar see two windows activated.    *)
OneActivated == Cardinality(bar.active) <= 1

(* Each handle has entered the output at most once, and once a refresh has *)
(* ended exactly if its window was last known to overlap it.               *)
EntersBalanced ==
  \A t \in Toplevels :
    /\ bar.entered[t] <= 1
    /\ bar.todo = {} /\ bar.handle[t] = "open" =>
         bar.entered[t] = Enters(bar.info[t].over)

(* All of these: the tables, and what clients see of them.                 *)
WindowsInv == TypeOK /\ NoDeadEntries /\ TrackedOnce
TaskbarTruthful == OneActivated /\ EntersBalanced
============================================================================
