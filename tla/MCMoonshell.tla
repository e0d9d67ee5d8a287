---------------------------- MODULE MCMoonshell ----------------------------
(***************************************************************************)
(* moonshell: the shell and its services, which meet in the snapshots only. *)
(* A behaviour explores one part while the others stand still: a service,   *)
(* the engine, the watcher or the surfaces.                                 *)
(***************************************************************************)
EXTENDS Services, Moonshell, TLC

VARIABLE scene

CONSTANTS c1, c2, a1, a2, p1, p2, t1, t2, u1, w1

VARIABLES frame, screen

\* Rows of three things on two canvases, the second at a scale of 1.5; and a
\* line of text in a column that is too narrow for it.
L == INSTANCE Layout WITH Absent <- Nothing
Sized(x, y) == [x |-> x, y |-> y]
Box(kind, x, y, bg, children) ==
    [L!Element(kind, L!NoSize, Nothing) EXCEPT !.fixed = Sized(x, y), !.bg = bg, !.children = children]
Square(x, y, bg) == Box("vbox", x, y, bg, <<>>)
Row(how, children) ==
    [L!Element("hbox", L!NoSize, Nothing) EXCEPT !.justify = how, !.align = how, !.gap = 1,
        !.padding = IF how = "end" THEN 1 ELSE 0, !.children = children]
First  == {Square(1, 1, "red"), Square(2, 1, "red"), Square(1, 1, "blue")}
Second == {L!Element("spacer", L!NoSize, Nothing), L!Element("text", Sized(2, 1), "red"),
           L!Element("separator", Sized(1, 0), "blue")}
Third  == {Box("hbox", 1, 1, Nothing, <<Square(1, 1, "red"), Square(3, 2, "blue")>>),
           Box("stack", 2, 1, "blue", <<Square(1, 1, "red"), Square(1, 1, "blue")>>)}
Fitting == {Row(how, <<x, y, z>>) : how \in {"start", "center", "end"}, x \in First, y \in Second, z \in Third}
Narrow  == {Row("start", <<Box("vbox", 2, 2, Nothing, <<L!Element("text", Sized(n, 1), "red")>>)>>) : n \in {2, 5}}
MCTrees == Fitting \cup Narrow
MCCanvases == {[width |-> 8, height |-> 3, scale |-> 4], [width |-> 9, height |-> 4, scale |-> 6]}
Drawn == INSTANCE Drawing WITH Trees <- MCTrees, Canvases <- MCCanvases, Absent <- Nothing

\* How much of the world changes, by service.
Changes == [battery |-> 3, network |-> 3, mpris |-> 2, tray |-> 4, notifications |-> 4]
ShellScenes == {"engine", "watcher", "surfaces"}

MCSymmetry == Permutations(Players) \cup Permutations(Aps)

\* What stands still.
NotDrawn == frame = Nothing /\ screen = Nothing
BusIdle == BusInit /\ service = Nothing /\ world = Nothing /\ model = Nothing
ShellIdle ==
    /\ windows = <<>> /\ nextId = 1 /\ server = <<>> /\ plugged = 0 /\ outputs = 0
    /\ events = <<>> /\ happened = 0 /\ stage = "over"
    /\ vm = 1 /\ ctx = EmptyCtx /\ late = FALSE /\ armed = {} /\ latest = 0 /\ facade = 0
    /\ disk = [root |-> 1, sub |-> 0, file |-> 1] /\ loaded = disk
    /\ missed = {} /\ watched = {} /\ dirs = {} /\ inotify = <<>>
    /\ callbacks = {} /\ scheduled = FALSE

Plain == ctx.timers = {} /\ ctx.execs = 0
FewPlayers ==
    /\ \A p \in Players : world[p].track = t1
    /\ Cardinality({p \in Players : world[p].on # "named"}) <= 1
    /\ Cardinality({p \in Players : world[p].status = "Playing"}) <= 1

Parts ==
    \/ ServicesInit /\ scene = service /\ ShellIdle
       /\ (scene = "network" => \A a \in Aps : world.strength[a] = 1)
       /\ (scene = "mpris" => FewPlayers)
    \/ scene \in ShellScenes /\ MoonshellInit /\ BusIdle
       /\ (scene = "engine" => plugged = 0 /\ disk.sub = 0)
       /\ (scene = "watcher" => Plain /\ plugged = 0 /\ ctx.pending = <<>>)
       /\ (scene = "surfaces" => Plain /\ disk.sub = 0 /\ ~ctx.quit /\ ~ctx.reload /\ ctx.watches = {})

Init ==
    \/ Parts /\ NotDrawn
    \/ scene \in {"drawing", "overhang"} /\ Drawn!DrawingInit /\ BusIdle /\ ShellIdle

\* Within the bounds of the scene.
Engine == /\ plugged' = plugged /\ disk' = disk /\ vm' <= 2 /\ (ctx'.reload => vm' = 1)
Watches == /\ Plain' /\ plugged' = plugged /\ latest' = latest /\ ctx'.pending = <<>>
Shows == /\ Plain' /\ disk' = disk /\ latest' = latest /\ ctx'.watches = {}
         /\ ~ctx'.reload /\ ~ctx'.quit /\ nextId' + Len(ctx'.pending) <= 2

Next ==
    /\ UNCHANGED scene
    /\ \/ /\ ServicesNext /\ changes' <= Changes[service]
          /\ UNCHANGED <<shell, frame, screen>>
       \/ /\ MoonshellNext
          /\ \/ scene = "engine" /\ Engine
             \/ scene = "watcher" /\ Watches
             \/ scene = "surfaces" /\ Shows
          /\ UNCHANGED <<bus, frame, screen>>
       \/ /\ scene \in {"drawing", "overhang"} /\ Drawn!DrawingNext
          /\ scene = "drawing" => ToSet(frame'.root.children) \subseteq Fitting
          /\ UNCHANGED <<bus, shell>>

Spec == Init /\ [][Next]_<<scene, bus, shell, frame, screen>>

\* What was drawn, in the scenes that are drawn.
FrameShown         == scene = "drawing" => Drawn!ScreenShowsFrame
Undamaged          == Drawn!ScreenShowsFrame
=============================================================================
