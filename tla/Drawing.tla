------------------------------ MODULE Drawing ------------------------------
(***************************************************************************)
(* moonshell-render: each tree a callback returns is compared with the one  *)
(* before; the compositor takes over the pixels the comparison reports, and *)
(* no other.                                                                *)
(***************************************************************************)
EXTENDS Layout

CONSTANTS Trees,   \* what the render callback may return
          Canvases \* [width, height: pixels, scale: quarters]

VARIABLES frame, \* Scene.prev
          screen \* the pixels the compositor has of the surface

drawing == <<frame, screen>>

-----------------------------------------------------------------------------
\* scene.rs

Around(boxes) == Box(Least({b.x0 : b \in boxes}), Least({b.y0 : b \in boxes}),
                     Most({b.x1 : b \in boxes}), Most({b.y1 : b \in boxes}))
Edges(rect) == Box(rect.at.x, rect.at.y, rect.at.x + rect.size.x, rect.at.y + rect.size.y)

\* Fault: a node's rectangle is taken for all it paints.
OwnRect(n) == Edges(n.rect)

\* Children may overflow their container.
RECURSIVE Within(_)
Within(n) == {Edges(n.rect)} \cup UNION {Within(n.children[i]) : i \in DOMAIN n.children}
Bounds(n) == Around(Within(n))

\* Containers that are equal but for what is in their children.
Shell(el) == [el EXCEPT !.children = Len(@)]
SameShell(a, b) == a.kind \in Containers /\ Shell(a) = Shell(b)

RECURSIVE Diff(_, _, _, _)
Diff(oe, on, ne, nn) ==
    IF oe = ne /\ on = nn THEN {}
    ELSE IF SameShell(oe, ne) /\ on.rect = nn.rect
    THEN UNION {Diff(oe.children[i], on.children[i], ne.children[i], nn.children[i]) : i \in DOMAIN oe.children}
    ELSE {Bounds(on), Bounds(nn)}

\* Rounded, one pixel wider on each side, on the canvas.
ToPixels(b, canvas) ==
    Box(Most({Round(b.x0) - 1, 0}), Most({Round(b.y0) - 1, 0}),
        Least({Round(b.x1) + 1, canvas.width}), Least({Round(b.y1) + 1, canvas.height}))
Empty(b) == b.x1 <= b.x0 \/ b.y1 <= b.y0

\* The order of the merging does not change its end.
Overlap(a, b) == a.x0 < b.x1 /\ b.x0 < a.x1 /\ a.y0 < b.y1 /\ b.y0 < a.y1
RECURSIVE Coalesce(_)
Coalesce(boxes) ==
    LET pairs == {pair \in boxes \X boxes : pair[1] # pair[2] /\ Overlap(pair[1], pair[2])}
    IN  IF pairs = {} THEN boxes
        ELSE LET pair == CHOOSE q \in pairs : TRUE
             IN  Coalesce((boxes \ {pair[1], pair[2]}) \cup {Around({pair[1], pair[2]})})

\* SceneDamage::Rects, or none of them for SceneDamage::None
Damage(old, new) ==
    LET boxes == {ToPixels(b, new.canvas) : b \in Diff(old.root, old.layout, new.root, new.layout)}
    IN  Coalesce({b \in boxes : ~Empty(b)})

\* The window's own stack around what the callback returns, alone when it fails.
BuildRoot(trees) == [Element("stack", NoSize, Absent) EXCEPT !.bg = "window", !.children = trees]

\* Scene::render for a painter, and the commit of what it reports: a surface
\* that lost its content drops the frame first.
Render ==
    \E trees \in {<<>>} \cup {<<tree>> : tree \in Trees}, canvas \in Canvases :
        LET root == BuildRoot(trees)
            new  == [root |-> root, canvas |-> canvas, layout |-> Compute(root, canvas)]
            kept == frame # Absent /\ screen # Absent /\ frame.canvas = canvas
        IN  /\ screen' = IF ~kept THEN Draw(new)
                         ELSE LET damage == Damage(frame, new)
                                  drawn  == Draw(new)
                              IN  [p \in Pixels(canvas) |->
                                      IF \E b \in damage : Covers(b, p) THEN drawn[p] ELSE screen[p]]
            /\ frame' = new

\* The surface is mapped anew: its content is gone.
Remap == screen # Absent /\ screen' = Absent /\ UNCHANGED frame

DrawingInit == frame = Absent /\ screen = Absent
DrawingNext == Render \/ Remap

-----------------------------------------------------------------------------
\* The pixels on screen are those of a drawing of the whole frame: the regions
\* reported with each frame cover all that changed since the frame before.
ScreenShowsFrame == screen # Absent => screen = Draw(frame)
=============================================================================
