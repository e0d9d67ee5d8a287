------------------------------ MODULE Processes ------------------------------
(***************************************************************************)
(* The process supervisor: Lua declares a manifest of once and service     *)
(* entries, every Lua entry and every reload reconciles the children with  *)
(* it, and a timer that lives only while there are children reaps them and *)
(* restarts services.  The table of the kernel's processes is part of the  *)
(* state, so that a child nobody owns any more can be told from none.      *)
(***************************************************************************)
EXTENDS Naturals, FiniteSets

CONSTANTS Ids,            \* names of manifest entries
          Specs,          \* what a service runs: command, directory, environment
          Pids,           \* the kernel's process table: fork fails when it is full
          NoPid,
          Declarable,     \* the entries a configuration may declare
          BuiltinIds,     \* entries the compositor declares itself
          TimerFails,     \* inserting the supervision timer may fail
          MaxSpawns,      \* bound on fire-and-forget spawns in one Lua entry
          MaxGeneration   \* bound on configuration generations

RunPolicy == {"OncePerSession", "OncePerConfigVersion"}
RestartPolicy == {"Never", "OnFailure", "OnExit"}
ReloadPolicy == {"KeepIfUnchanged", "AlwaysRestart"}

Once == [kind : {"once"}, run : RunPolicy]
ServiceDecl == [kind : {"service"}, spec : Specs, restart : RestartPolicy,
                reload : ReloadPolicy]
NoDecl == [kind |-> "none"]
ProcessDecl == Once \cup ServiceDecl

ASSUME ProcessAssumption ==
    /\ NoPid \notin Pids
    /\ Declarable \subseteq ProcessDecl
    /\ BuiltinIds \subseteq Ids
    /\ TimerFails \in BOOLEAN
    /\ MaxSpawns \in Nat
    /\ MaxGeneration \in Nat \ {0}

VARIABLES phase,       \* of the compositor: boot, loaded, running, down
          manifest,    \* the running VM's: [Ids -> ProcessDecl \cup {NoDecl}]
          builtins,    \* the built-in entries declared so far
          generation,
          services,    \* the services with a child: a partial function on Ids
          onceRuns,    \* the generation an entry last ran at, 0 for never
          suppressed,  \* the generation a service was given up in, 0 for none
          detached,    \* children that are only reaped
          timer,       \* armed, none, or refused: the last insertion failed
          procs,       \* the process table
          ran          \* history: how often each once entry has run

vars == <<phase, manifest, builtins, generation, services, onceRuns,
          suppressed, detached, timer, procs, ran>>

Running == DOMAIN services
Service == [decl : ServiceDecl, child : Pids, started : 1 .. MaxGeneration]

-----------------------------------------------------------------------------
(* The process table.  A child that exited stays until its parent waits.   *)

Exited == {"ok", "failed"}
Idle == {p \in Pids : procs[p] = "free"}
Forked(table, born) == [p \in Pids |-> IF p \in born THEN "running" ELSE table[p]]
Reaped(table, dead) == [p \in Pids |-> IF p \in dead THEN "free" ELSE table[p]]

\* A process of its own for each of starters.
Children(starters, free) ==
    {c \in [starters -> free] : \A i, j \in starters : c[i] = c[j] => i = j}

-----------------------------------------------------------------------------
(* reconcile: drive the children to what the manifest d asks for.          *)

\* The built-in entries are merged over the user's.
SessionUnits == [kind |-> "once", run |-> "OncePerSession"]
Desired(m, b) == [id \in Ids |-> IF id \in b THEN SessionUnits ELSE m[id]]

\* Fault: only a changed command replaces the process, not a changed policy.
KeepsSpec(svc, d, gen) ==
    /\ d.kind = "service" /\ svc.decl.spec = d.spec
    /\ d.reload = "AlwaysRestart" => svc.started = gen

Keeps(svc, d, gen) ==
    /\ svc.decl = d
    /\ d.reload = "AlwaysRestart" => svc.started = gen

Kept(d, gen) == {id \in Running : Keeps(services[id], d[id], gen)}
Stopped(d, gen) == Running \ Kept(d, gen)

\* kill: the stopped children are killed and waited for.
\* Fault: the child is dropped, which neither kills nor reaps it.
KilledNone(stopped) == {}

Killed(stopped) == {services[id].child : id \in stopped}

\* Fault: a once entry of either policy is due in every generation.
OnceDueAlways(d, gen) ==
    {id \in Ids : d[id].kind = "once" /\ onceRuns[id] # gen}

OnceDue(d, gen) ==
    {id \in Ids : /\ d[id].kind = "once"
                  /\ \/ onceRuns[id] = 0
                     \/ /\ d[id].run = "OncePerConfigVersion"
                        /\ onceRuns[id] # gen}

\* Fault: a service that was given up is started by the next reconcile.
ServiceDueAlways(d, gen) ==
    {id \in Ids \ Kept(d, gen) : d[id].kind = "service"}

\* Stopping a service clears its suppression.
ServiceDue(d, gen) ==
    {id \in Ids \ Kept(d, gen) :
        d[id].kind = "service" /\ (id \in Running \/ suppressed[id] # gen)}

Record(onces, gen) == [id \in Ids |-> IF id \in onces THEN gen ELSE onceRuns[id]]

\* ensure_process_timer.
EnsureTimer ==
    IF timer = "armed" \/ (DOMAIN services' = {} /\ detached' = {})
    THEN timer' = timer
    ELSE \/ timer' = "armed"
         \/ TimerFails /\ timer' = "refused"

\* reconcile_processes with a manifest that changed.  The fire-and-forget
\* children extra come first; of the entries that are due, those in up start.
Reconcile(d, gen, extra) ==
    LET kept == Kept(d, gen)
        stopped == Stopped(d, gen)
        killed == Killed(stopped)
    IN  \E up \in SUBSET (ServiceDue(d, gen) \cup OnceDue(d, gen)) :
        \E child \in Children(up, (Idle \cup killed) \ extra) :
            LET started == up \cap ServiceDue(d, gen)
                onces == up \cap OnceDue(d, gen)
            IN  /\ services' = [id \in kept \cup started |->
                       IF id \in kept THEN services[id]
                       ELSE [decl |-> d[id], child |-> child[id], started |-> gen]]
                /\ suppressed' = [id \in Ids |->
                       IF id \in ServiceDue(d, gen) \ up THEN gen
                       ELSE IF id \in started \cup stopped THEN 0
                       ELSE suppressed[id]]
                /\ onceRuns' = Record(onces, gen)
                /\ ran' = [id \in Ids |-> IF id \in onces THEN ran[id] + 1 ELSE ran[id]]
                /\ detached' = detached \cup extra \cup {child[id] : id \in onces}
                /\ procs' = Forked(Reaped(procs, killed),
                                   extra \cup {child[id] : id \in up})
                /\ EnsureTimer

\* The same when the manifest did not change: only the spawns and the timer.
SpawnOnly(extra) ==
    /\ detached' = detached \cup extra
    /\ procs' = Forked(procs, extra)
    /\ UNCHANGED <<services, suppressed, onceRuns, ran>>
    /\ EnsureTimer

\* tomoe.spawn queues a command; the fork may fail.
Spawns == {extra \in SUBSET Idle : Cardinality(extra) <= MaxSpawns}
-----------------------------------------------------------------------------
(* tick: the supervision timer's body.                                     *)

ShouldRestart(policy, status) ==
    \/ policy = "OnExit"
    \/ policy = "OnFailure" /\ status = "failed"

\* Fault: the timer stops with the last service and forgets the others.
StillNeededForServices == DOMAIN services' # {}

\* needs_supervision after the tick.
StillNeeded == DOMAIN services' # {} \/ detached' # {}

Restarted(svc, pid) == [svc EXCEPT !.child = pid, !.started = generation]

\* Fault: fire-and-forget children are not polled.
DetachedUnpolled == {}

DetachedDone == {p \in detached : procs[p] \in Exited}

\* The exited services: those whose policy asks for it are started again.
ServicesDone == {id \in Running : procs[services[id].child] \in Exited}
ToRestart == {id \in ServicesDone :
    ShouldRestart(services[id].decl.restart, procs[services[id].child])}

Tick ==
    LET dead == DetachedDone \cup {services[id].child : id \in ServicesDone}
    IN  /\ timer = "armed"
        /\ phase = "running"
        /\ \E up \in SUBSET ToRestart :
           \E child \in Children(up, Idle \cup dead) :
              /\ services' = [id \in (Running \ ServicesDone) \cup up |->
                     IF id \in up THEN Restarted(services[id], child[id])
                     ELSE services[id]]
              /\ suppressed' = [id \in Ids |->
                     IF id \in ServicesDone \ up THEN generation ELSE suppressed[id]]
              /\ procs' = Forked(Reaped(procs, dead), {child[id] : id \in up})
        /\ detached' = detached \ DetachedDone
        /\ timer' = IF StillNeeded THEN "armed" ELSE "none"
        /\ UNCHANGED <<phase, manifest, builtins, generation, onceRuns, ran>>

-----------------------------------------------------------------------------
(* The compositor's entries into the supervisor.                           *)

Init ==
    /\ phase = "boot"
    /\ manifest = [id \in Ids |-> NoDecl]
    /\ builtins = {}
    /\ generation = 0
    /\ services = << >>
    /\ onceRuns = [id \in Ids |-> 0]
    /\ suppressed = [id \in Ids |-> 0]
    /\ detached = {}
    /\ timer = "none"
    /\ procs = [p \in Pids |-> "free"]
    /\ ran = [id \in Ids |-> 0]

Manifests == [Ids -> Declarable \cup {NoDecl}]

\* load_config: a config that fails to load keeps what it declared before.
LoadConfig ==
    /\ phase = "boot" /\ phase' = "loaded"
    /\ generation' = generation + 1
    /\ manifest' \in Manifests
    /\ \E extra \in Spawns : Reconcile(Desired(manifest', builtins), generation', extra)
    /\ UNCHANGED builtins

\* main: the backend is up, the built-in entries are declared.
DeclareBuiltins ==
    /\ phase = "loaded" /\ phase' = "running"
    /\ builtins' = BuiltinIds
    /\ Reconcile(Desired(manifest, builtins'), generation, {})
    /\ UNCHANGED <<manifest, generation>>

\* after_lua: an entry into Lua declared one more process, or only spawned.
LuaDeclares ==
    /\ phase = "running"
    /\ \E id \in Ids, d \in Declarable : manifest' = [manifest EXCEPT ![id] = d]
    /\ \E extra \in Spawns : Reconcile(Desired(manifest', builtins), generation, extra)
    /\ UNCHANGED <<phase, builtins, generation>>

LuaSpawns ==
    /\ phase = "running"
    /\ \E extra \in Spawns : SpawnOnly(extra)
    /\ UNCHANGED <<phase, manifest, builtins, generation>>

\* reload_config with a config that loads; one that does not changes nothing.
ReloadConfig ==
    /\ phase = "running"
    /\ generation < MaxGeneration
    /\ generation' = generation + 1
    /\ manifest' \in Manifests
    /\ \E extra \in Spawns : Reconcile(Desired(manifest', builtins), generation', extra)
    /\ UNCHANGED <<phase, builtins>>

\* The event loop ends: services are stopped, detached children left alone.
Shutdown ==
    /\ phase = "running" /\ phase' = "down"
    /\ procs' = Reaped(procs, Killed(Running))
    /\ services' = << >>
    /\ UNCHANGED <<manifest, builtins, generation, onceRuns, suppressed, detached,
                   timer, ran>>

\* A child exits on its own, with success or not.
ChildExits ==
    /\ \E p \in Pids, status \in Exited :
          procs[p] = "running" /\ procs' = [procs EXCEPT ![p] = status]
    /\ UNCHANGED <<phase, manifest, builtins, generation, services, onceRuns,
                   suppressed, detached, timer, ran>>

Next == LoadConfig \/ DeclareBuiltins \/ LuaDeclares \/ LuaSpawns \/ ReloadConfig
        \/ Tick \/ Shutdown \/ ChildExits

Spec == Init /\ [][Next]_vars

\* calloop fires a timer that stays armed, once a second; main goes on.
Fairness == WF_vars(Tick) /\ WF_vars(DeclareBuiltins)
FairSpec == Spec /\ Fairness
-----------------------------------------------------------------------------
(* Properties.                                                             *)

TypeOK ==
    /\ phase \in {"boot", "loaded", "running", "down"}
    /\ manifest \in Manifests
    /\ builtins \subseteq BuiltinIds
    /\ generation \in 0 .. MaxGeneration
    /\ Running \subseteq Ids
    /\ services \in [Running -> Service]
    /\ onceRuns \in [Ids -> 0 .. MaxGeneration]
    /\ suppressed \in [Ids -> 0 .. MaxGeneration]
    /\ detached \subseteq Pids
    /\ timer \in {"armed", "none", "refused"}
    /\ procs \in [Pids -> {"free", "running"} \cup Exited]
    /\ ran \in [Ids -> Nat]

\* Every process in the table, running or waiting to be reaped, has exactly one
\* owner that will stop or reap it, and no owner holds a process that is gone:
\* through stops, restarts, failed forks, reloads and the shutdown, no child is
\* leaked, reaped twice or run twice for the same service.
NoLostChild ==
    /\ \A p \in Pids :
          procs[p] # "free" <=> p \in detached \cup {services[id].child : id \in Running}
    /\ \A id \in Running : services[id].child \notin detached
    /\ \A i, j \in Running : services[i].child = services[j].child => i = j

\* The supervisor's own books, of the right types, and the kernel's process table
\* are the same account.
ProcessInv == TypeOK /\ NoLostChild

\* Between events the children match the manifest: a service that has a child is
\* declared as it was started, in this generation if it restarts on every reload,
\* and a declared service without a child was given up in this very generation.
FollowsManifest ==
    phase \in {"loaded", "running"} =>
        LET d == Desired(manifest, builtins)
        IN  /\ \A id \in Running :
                  /\ services[id].decl = d[id]
                  /\ d[id].reload = "AlwaysRestart" => services[id].started = generation
            /\ \A id \in Ids \ Running :
                  d[id].kind = "service" => suppressed[id] = generation

\* While there is a child to reap or to restart, the supervision timer runs, unless
\* the event loop refused it: the timer that dropped itself is always set again.
Supervised == Running # {} \/ detached # {} => timer # "none"

\* A once entry never runs twice in one configuration generation.
OncePerGeneration == \A id \in Ids : ran[id] <= generation

\* An entry declared once per session never runs again, whatever reloads, changes
\* of its declaration and failed starts came before.
OncePerSession ==
    [][\A id \in Ids : LET d == Desired(manifest', builtins')[id]
                       IN  d = SessionUnits /\ ran[id] > 0 => ran'[id] = ran[id]]_vars

\* A once entry runs as often as its policy says and no more, within a generation
\* and over all of them.
OncePerRun == []OncePerGeneration /\ OncePerSession

\* Each service id lives the life that ServiceLife promises.
ChildOf(id) == IF id \in Running THEN services[id].child ELSE NoPid
LiveChild(id) == id \in Running /\ procs[services[id].child] = "running"
Life(id) == INSTANCE ServiceLife WITH
                Decls <- Declarable \cup {NoDecl, SessionUnits},
                decl <- Desired(manifest, builtins)[id],
                child <- ChildOf(id),
                live <- LiveChild(id),
                retired <- suppressed[id] # 0 /\ suppressed[id] = generation
ServicesLive ==
    /\ \A id \in Ids : Life(id)!LifeInit
    /\ [][\A id \in Ids : [Life(id)!LifeNext]_(Life(id)!lifeVars)]_vars

\* A child that exited is reaped, or the compositor shuts down.
ExitedAreReaped ==
    \A p \in Pids : procs[p] \in Exited ~> (procs[p] \notin Exited \/ phase = "down")

=============================================================================
