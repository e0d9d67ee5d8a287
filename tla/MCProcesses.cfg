\* Two entries of every kind, a process table that fills up, a timer that may fail.
CONSTANTS
    Ids = {a, b}
    Specs = {"s1"}
    Pids = {p1, p2, p3}
    NoPid = NoPid
    Declarable <- MCDeclarable
    BuiltinIds = {}
    TimerFails = TRUE
    MaxSpawns = 1
    MaxGeneration = 2
SYMMETRY ProcessSymmetry
SPECIFICATION Spec
INVARIANT ProcessInv
INVARIANT FollowsManifest
INVARIANT Supervised
PROPERTY OncePerRun
PROPERTY ServicesLive
CHECK_DEADLOCK FALSE
