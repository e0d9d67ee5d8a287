------------------------------- MODULE Layout -------------------------------
(***************************************************************************)
(* moonshell-render: how a tree of elements is laid out and drawn.  Lengths *)
(* are quarters of a pixel, so that a scale of 1.5 and a half of what is    *)
(* left over stay exact.                                                    *)
(***************************************************************************)
EXTENDS Integers, Sequences, FiniteSets, SequencesExt

CONSTANT Absent \* no frame, no content, no colour

Unset == -1
Containers == {"hbox", "vbox", "stack"}
Axes == {"x", "y"}
Across(axis) == IF axis = "x" THEN "y" ELSE "x"
Main(el) == IF el.kind = "hbox" THEN "x" ELSE "y"

NoSize == [a \in Axes |-> 0]

\* An element with the default style; size is what the kind's own fields give.
Element(kind, size, ink) ==
    [kind |-> kind, size |-> size, ink |-> ink, track |-> Absent, value |-> 0,
     bg |-> Absent, fixed |-> [x |-> Unset, y |-> Unset], grow |-> IF kind = "spacer" THEN 1 ELSE 0,
     gap |-> 0, padding |-> 0, justify |-> "start", align |-> "start", children |-> <<>>]

Sum(f) == FoldSeq(LAMBDA a, b : a + b, 0, f)
Most(S) == CHOOSE n \in S : \A m \in S : m <= n
Least(S) == CHOOSE n \in S : \A m \in S : n <= m
Ceil(n) == -((-n) \div 4) * 4
Round(n) == (n + 2) \div 4

-----------------------------------------------------------------------------
\* layout.rs: sizes from the leaves up, then places from the root down.

\* Text and icons take whole pixels, an image its own.
LeafSize(el, scale) ==
    [a \in Axes |-> CASE el.kind \in {"text", "icon"}         -> Ceil(el.size[a] * scale)
                      [] el.kind \in {"separator", "circular"} -> el.size[a] * scale
                      [] el.kind = "image"                     -> el.size[a] * 4
                      [] OTHER                                 -> 0]

Gaps(el, scale) == IF el.children = <<>> THEN 0 ELSE el.gap * scale * (Len(el.children) - 1)

RECURSIVE Measure(_, _)
Measure(el, scale) ==
    LET sizes == [i \in DOMAIN el.children |-> Measure(el.children[i], scale)]
        widest(a) == Most({0} \cup {sizes[i][a] : i \in DOMAIN sizes})
        own == CASE el.kind \in {"hbox", "vbox"} ->
                        [a \in Axes |-> 2 * el.padding * scale +
                            IF a = Main(el) THEN Sum([i \in DOMAIN sizes |-> sizes[i][a]]) + Gaps(el, scale)
                            ELSE widest(a)]
                 [] el.kind = "stack" -> [a \in Axes |-> widest(a)]
                 [] OTHER             -> LeafSize(el, scale)
    IN  [a \in Axes |-> IF el.fixed[a] = Unset THEN own[a] ELSE el.fixed[a] * scale]

\* Where the leftover of an axis puts what is shorter.
Offset(how, leftover) == CASE how = "start"  -> 0
                           [] how = "center" -> leftover \div 2
                           [] how = "end"    -> leftover

\* The rectangles of a row or column's children: nothing shrinks along it,
\* and across it only what is wider than the box.
FlexRects(el, rect, scale) ==
    LET main  == Main(el)
        cross == Across(main)
        pad   == el.padding * scale
        inner == [a \in Axes |-> Most({0, rect.size[a] - 2 * pad})]
        kids  == el.children
        base  == [i \in DOMAIN kids |-> Measure(kids[i], scale)]
        grown == Sum([i \in DOMAIN kids |-> kids[i].grow])
        leftover == Most({0, inner[main] - Sum([i \in DOMAIN kids |-> base[i][main]]) - Gaps(el, scale)})
        length(i) == base[i][main] + IF kids[i].grow > 0 THEN (leftover * kids[i].grow) \div grown ELSE 0
        start(i) == rect.at[main] + pad + (IF grown > 0 THEN 0 ELSE Offset(el.justify, leftover))
                    + Sum([j \in 1..(i - 1) |-> length(j) + el.gap * scale])
        breadth(i) == IF kids[i].kind = "separator" THEN inner[cross] ELSE Least({base[i][cross], inner[cross]})
        side(i) == rect.at[cross] + pad + Offset(el.align, inner[cross] - breadth(i))
    IN  [i \in DOMAIN kids |->
            [at   |-> [a \in Axes |-> IF a = main THEN start(i) ELSE side(i)],
             size |-> [a \in Axes |-> IF a = main THEN length(i) ELSE breadth(i)]]]

\* LayoutNode
RECURSIVE Place(_, _, _)
Place(el, rect, scale) ==
    LET rects == IF el.kind = "stack" THEN [i \in DOMAIN el.children |-> rect]
                 ELSE FlexRects(el, rect, scale)
    IN  [rect |-> rect,
         children |-> [i \in DOMAIN el.children |-> Place(el.children[i], rects[i], scale)]]

Compute(root, canvas) ==
    Place(root, [at   |-> [x |-> 0, y |-> 0],
                 size |-> [x |-> 4 * canvas.width, y |-> 4 * canvas.height]], canvas.scale)

-----------------------------------------------------------------------------
\* draw.rs

\* A box of pixels [x0, x1) by [y0, y1); edges are rounded, not sizes.
Box(x0, y0, x1, y1) == [x0 |-> x0, y0 |-> y0, x1 |-> x1, y1 |-> y1]
Rounded(rect) ==
    Box(Round(rect.at.x), Round(rect.at.y),
        Round(rect.at.x + rect.size.x), Round(rect.at.y + rect.size.y))
Covers(box, p) == box.x0 <= p[1] /\ p[1] < box.x1 /\ box.y0 <= p[2] /\ p[2] < box.y1

Coat(box, ink) == <<[box |-> box, ink |-> ink]>>

\* What an element paints itself; a line of text is not clipped to its box.
Painted(el, box, scale) ==
    CASE el.kind = "text" ->
            Coat(Box(box.x0, box.y0, box.x0 + Ceil(el.size.x * scale) \div 4,
                     box.y0 + Ceil(el.size.y * scale) \div 4), el.ink)
      [] el.kind \in {"separator", "image", "icon", "circular"} -> Coat(box, el.ink)
      [] el.kind = "progress" ->
            Coat(box, el.track) \o
            Coat([box EXCEPT !.x1 = box.x0 + ((box.x1 - box.x0) * el.value * 2 + 100) \div 200], el.ink)
      [] OTHER -> <<>>

RECURSIVE Coats(_, _, _)
Coats(el, node, scale) ==
    LET box == Rounded(node.rect)
    IN  (IF el.bg = Absent THEN <<>> ELSE Coat(box, el.bg))
        \o Painted(el, box, scale)
        \o FlattenSeq([i \in DOMAIN el.children |-> Coats(el.children[i], node.children[i], scale)])

Pixels(canvas) == (0..(canvas.width - 1)) \X (0..(canvas.height - 1))

\* The canvas is cleared and drawn whole.
Draw(f) ==
    LET coats == Coats(f.root, f.layout, f.canvas.scale)
    IN  [p \in Pixels(f.canvas) |->
            LET over == {i \in DOMAIN coats : Covers(coats[i].box, p)}
            IN  IF over = {} THEN Absent ELSE coats[Most(over)].ink]
=============================================================================
