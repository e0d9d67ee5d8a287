----------------------------- MODULE ServiceLife -----------------------------
(***************************************************************************)
(* What the process supervisor (process.rs) promises about one service id, *)
(* whatever the other entries of the manifest do: a process that runs is   *)
(* replaced only by a changed declaration or by a reload that asks for it, *)
(* an exit is answered by a restart or by retirement, and a retired        *)
(* service stays down until the configuration is loaded again.             *)
(***************************************************************************)
EXTENDS Naturals

CONSTANTS Pids, NoPid, Decls

VARIABLES decl,        \* what the manifest says of the id
          generation,  \* the configuration generation
          child,       \* the service's process, or NoPid
          live,        \* that process has not exited
          retired      \* not to be started again in this generation

lifeVars == <<decl, generation, child, live, retired>>

LifeInit == decl.kind = "none" /\ generation = 0 /\ child = NoPid /\ ~live /\ ~retired

\* The process survives a change of the manifest.
Survives ==
    /\ child # NoPid
    /\ decl' = decl
    /\ generation' # generation => decl.reload # "AlwaysRestart"

\* A service that is not running may be started.
Startable == decl'.kind = "service" /\ ~(retired /\ generation' = generation)

Start == child' \in Pids /\ live' /\ ~retired'
Retire == child' = NoPid /\ ~live' /\ retired'
Absent == child' = NoPid /\ ~live' /\ retired' = (retired /\ generation' = generation)

\* The manifest is declared afresh or in part: a reload, or a Lua entry.
Configure ==
    /\ generation' \in {generation, generation + 1}
    /\ decl' \in Decls
    /\ \/ Survives /\ UNCHANGED <<child, live, retired>>
       \/ ~Survives /\ Startable /\ (Start \/ Retire)
       \/ ~Survives /\ ~Startable /\ Absent

Exit == child # NoPid /\ live /\ ~live' /\ UNCHANGED <<decl, generation, child, retired>>

\* The supervisor notices the exit.
Supervise ==
    /\ child # NoPid /\ ~live
    /\ \/ decl.restart # "Never" /\ Start
       \/ Retire
    /\ UNCHANGED <<decl, generation>>

Quit == child' = NoPid /\ ~live' /\ UNCHANGED <<decl, generation, retired>>

LifeNext == Configure \/ Exit \/ Supervise \/ Quit

LifeSpec == LifeInit /\ [][LifeNext]_lifeVars
=============================================================================
