----------------------------- MODULE MCProcesses -----------------------------
EXTENDS Processes, TLC

\* A service of the given command and policies.
Svc(spec, restart, reload) ==
    [kind |-> "service", spec |-> spec, restart |-> restart, reload |-> reload]

\* Both kinds of once entry; services that share a command and differ in policy.
MCDeclarable ==
    {[kind |-> "once", run |-> r] : r \in RunPolicy}
    \cup {Svc("s1", "OnExit", "KeepIfUnchanged"), Svc("s1", "OnFailure", "AlwaysRestart")}

\* One entry of each kind.
MCOneOfEach == {SessionUnits, Svc("s1", "OnExit", "KeepIfUnchanged")}

\* Every service, of two commands.
MCServices == {Svc(s, p, r) : s \in Specs, p \in RestartPolicy, r \in ReloadPolicy}

\* Processes are interchangeable, and so are entries unless one is built in.
ProcessSymmetry == Permutations(Pids) \cup Permutations(Ids)
=============================================================================
