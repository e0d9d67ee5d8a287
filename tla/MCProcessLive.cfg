\* An entry of the user's and one that the compositor also declares, under fairness.
CONSTANTS
    Ids = {a, b}
    Specs = {"s1"}
    Pids = {p1, p2, p3}
    NoPid = NoPid
    Declarable <- MCOneOfEach
    BuiltinIds = {b}
    TimerFails = FALSE
    MaxSpawns = 1
    MaxGeneration = 2
SPECIFICATION FairSpec
PROPERTIES ExitedAreReaped
CHECK_DEADLOCK FALSE
