---------------------------- MODULE LayoutCells ----------------------------
(***************************************************************************)
(* The layout that is applied after a sidebar is closed                    *)
(* (sidebar/layout.rs layout_without_sidebar): its cell is taken out of    *)
(* the tree of cells tmux reported and the rest is stretched over the      *)
(* window, in proportion.  A cell is [kind, sx, sy, x, y, kids, id], kind  *)
(* is "leaf", "lr" (side by side) or "tb" (stacked).                       *)
(***************************************************************************)
EXTENDS Integers, Sequences, FiniteSets, SequencesExt

CONSTANTS
    Layouts,  \* the layouts tmux may report
    Side,     \* the id of the sidebar's pane
    MaxNested \* bound: how deep the cells of a layout are nested

VARIABLES
    before,   \* the layout
    after     \* {} or what was computed: the layout to apply, <<>> when it refuses

cellVars == <<before, after>>

\* A cell and those below it: what a function that descends a layout is defined on.
Nested(c) ==
    LET level[n \in 0..MaxNested] == IF n = 0 THEN {c} ELSE UNION {Range(d.kids) : d \in level[n - 1]}
    IN  UNION {level[n] : n \in 0..MaxNested}

Leaves(c) ==
    LET leaves[d \in Nested(c)] ==
            IF d.kind = "leaf" THEN <<d>> ELSE FlattenSeq([i \in DOMAIN d.kids |-> leaves[d.kids[i]]])
    IN  leaves[c]
layout_contains_pane(c, id) == \E i \in DOMAIN Leaves(c) : Leaves(c)[i].id = id

\* A node left with one child becomes that child, one left with none vanishes.
collapse_removed_layout_cell(c, kids) == IF Len(kids) <= 1 THEN kids ELSE <<[c EXCEPT !.kids = kids]>>
remove_layout_pane(c, id) ==
    LET left[d \in Nested(c)] ==
            IF d.kind = "leaf" THEN IF d.id = id THEN <<>> ELSE <<d>>
            ELSE collapse_removed_layout_cell(d, FlattenSeq([i \in DOMAIN d.kids |-> left[d.kids[i]]]))
    IN  left[c]

Total(sizes) == FoldSeq(LAMBDA a, b : a + b, 0, sizes)

\* Everyone gets one column and a share of the others in proportion; what the division leaves over goes
\* to the largest remainders, the last of equal ones first.
Share(sizes, total) ==
    LET n == Len(sizes)
        sum == Total(sizes)
        weighted(i) == (total - n) * sizes[i]
    IN  [i \in 1..n |-> [size |-> 1 + weighted(i) \div sum, over |-> weighted(i) % sum]]
allocate_proportional(sizes, total) ==
    LET n == Len(sizes)
        share == Share(sizes, total)
        left == total - Total([i \in 1..n |-> share[i].size])
        ahead(i) == {j \in 1..n : share[j].over > share[i].over \/ (share[j].over = share[i].over /\ j > i)}
    IN  IF Total(sizes) = total THEN sizes
        ELSE [i \in 1..n |-> share[i].size + (IF Cardinality(ahead(i)) < left THEN 1 ELSE 0)]

size_without_borders(size, n) == size - (n - 1)

\* The empty sequence stands for the error of a window too small for its panes.
resize_layout_cell(cell, width, height) ==
    LET resized[c \in Nested(cell), sx \in Nat, sy \in Nat, x \in Nat, y \in Nat] ==
        LET n == Len(c.kids)
            lr == c.kind = "lr"
            room == size_without_borders(IF lr THEN sx ELSE sy, n)
            sizes == allocate_proportional([i \in 1..n |-> IF lr THEN c.kids[i].sx ELSE c.kids[i].sy], room)
            off(i) == Total(SubSeq(sizes, 1, i - 1)) + i - 1
            kid(i) == IF lr THEN resized[c.kids[i], sizes[i], sy, x + off(i), y]
                      ELSE resized[c.kids[i], sx, sizes[i], x, y + off(i)]
            here == [c EXCEPT !.sx = sx, !.sy = sy, !.x = x, !.y = y]
        IN  CASE c.kind = "leaf" -> <<here>>
              [] c.kind # "leaf" /\ room < n -> <<>>
              [] OTHER -> LET kids == [i \in 1..n |-> kid(i)]
                          IN  IF \E i \in 1..n : kids[i] = <<>> THEN <<>>
                              ELSE <<[here EXCEPT !.kids = [i \in 1..n |-> kids[i][1]]]>>
    IN  resized[cell, width, height, 0, 0]

layout_without_sidebar(c) ==
    LET content == remove_layout_pane(c, Side)
    IN  IF content = <<>> THEN <<>> ELSE resize_layout_cell(content[1], c.sx, c.sy)

CellsInit == before \in Layouts /\ after = {}

CloseSidebarCell ==
    /\ after = {} /\ layout_contains_pane(before, Side)
    /\ after' = {layout_without_sidebar(before)} /\ UNCHANGED before

-----------------------------------------------------------------------------
\* A layout tmux accepts: children fill their cell exactly, side by side with one column between them.
FillsCell(c) ==
    LET n == Len(c.kids)
    IN  /\ c.sx >= 1 /\ c.sy >= 1
        /\ c.kind = "lr" =>
              /\ Total([i \in 1..n |-> c.kids[i].sx]) + n - 1 = c.sx
              /\ \A i \in 1..n : c.kids[i].sy = c.sy /\ c.kids[i].y = c.y
              /\ c.kids[1].x = c.x /\ \A i \in 1..n - 1 : c.kids[i + 1].x = c.kids[i].x + c.kids[i].sx + 1
        /\ c.kind = "tb" =>
              /\ Total([i \in 1..n |-> c.kids[i].sy]) + n - 1 = c.sy
              /\ \A i \in 1..n : c.kids[i].sx = c.sx /\ c.kids[i].x = c.x
              /\ c.kids[1].y = c.y /\ \A i \in 1..n - 1 : c.kids[i + 1].y = c.kids[i].y + c.kids[i].sy + 1
Fits(c) == \A d \in Nested(c) : FillsCell(d)

\* No pane becomes smaller than a pane beside it that was smaller.
SameOrder(cell, new) ==
    LET same[c \in Nested(cell), d \in Nested(new)] ==
        \A i, j \in DOMAIN c.kids :
            /\ (c.kind = "lr" /\ c.kids[i].sx > c.kids[j].sx) => d.kids[i].sx >= d.kids[j].sx
            /\ (c.kind = "tb" /\ c.kids[i].sy > c.kids[j].sy) => d.kids[i].sy >= d.kids[j].sy
            /\ same[c.kids[i], d.kids[i]]
    IN  same[cell, new]

LeafNames(c) == LET l == Leaves(c) IN [i \in DOMAIN l |-> l[i].id]

\* Closing the sidebar of any layout leaves the other panes, in their order and relative sizes, in a
\* layout that fills the window.
CellsSound ==
    /\ Fits(before)
    /\ \A new \in after :
          /\ new # <<>> /\ Fits(new[1])
          /\ new[1].sx = before.sx /\ new[1].sy = before.sy
          /\ LeafNames(new[1]) = SelectSeq(LeafNames(before), LAMBDA i : i # Side)
          /\ SameOrder(remove_layout_pane(before, Side)[1], new[1])
=============================================================================
