----------------------------- MODULE MCSurfaces -----------------------------
(* What the user sees and what is kept on disk, on small instances: one run *)
(* takes the steps of one part, chosen in the initial state; the others     *)
(* keep their state.                                                        *)
EXTENDS SidebarRows, SidebarLayout, LayoutCells, StoreReset, RunEvidence, TLC

CONSTANTS n1, n2, w1, w2

VARIABLE part

surfaceVars == <<part, catVars, rowVars, layoutVars, cellVars, storeVars, vars>>

Parts == {"categories", "rows", "layout", "cells", "store", "evidence"}

(* Three configurations: none, one category for both repositories, one for  *)
(* each, the second listed first.                                           *)
Unranked == [n \in {0, 1, 2} |-> 9]
OneCategory == [names |-> {1}, rule |-> (1 :> 1) @@ (2 :> 1), rank |-> Unranked]
MCConfigs ==
    {OneCategory, [names |-> {}, rule |-> (1 :> 0) @@ (2 :> 0), rank |-> Unranked],
     [names |-> {1, 2}, rule |-> (1 :> 1) @@ (2 :> 2), rank |-> [Unranked EXCEPT ![2] = 1]]}
MCRepos == (1 :> 1) @@ (2 :> 1) @@ (3 :> 2)

(* Layouts five lines high: a full-height sidebar beside a pane and a       *)
(* column of two, and a sidebar below another pane.                         *)
Pane(id, sx, sy, x, y) ==
    [kind |-> "leaf", id |-> id, sx |-> sx, sy |-> sy, x |-> x, y |-> y, kids |-> <<>>]
Node(kind, sx, sy, x, y, kids) ==
    [kind |-> kind, id |-> 0, sx |-> sx, sy |-> sy, x |-> x, y |-> y, kids |-> kids]
Column(ids, sx, top, x) ==
    Node("tb", sx, 5, x, 0, <<Pane(ids[1], sx, top, x, 0), Pane(ids[2], sx, 4 - top, x, top + 1)>>)
MCLayouts ==
    {Node("lr", s + a + b + 2, 5, 0, 0,
          <<Pane(Side, s, 5, 0, 0), Pane(1, a, 5, s + 1, 0), Column(<<2, 3>>, b, t, s + a + 2)>>) :
       s \in 1..3, a \in 1..6, b \in 1..6, t \in 1..3}
    \cup
    {Node("lr", a + b + c + 2, 5, 0, 0,
          <<Column(<<1, Side>>, a, t, 0), Pane(2, b, 5, a + 1, 0), Pane(3, c, 5, a + b + 2, 0)>>) :
       a \in 1..3, b \in 1..3, c \in 1..3, t \in 1..3}

(* A part that takes no step starts in one state.                           *)
SurfacesInit ==
    /\ part \in Parts
    /\ RowsInit /\ LayoutInit /\ CellsInit /\ StoreInit /\ Init
    /\ part = "categories" \/ catCfg.active = OneCategory
    /\ hooksOn.window /\ win[w1] # {}
    /\ part = "layout" \/ (win[w1] = {1})
    /\ part = "cells" \/ before = CHOOSE l \in MCLayouts : TRUE

(* Three changes of the panes, keys and requests, without a save that fails *)
(* or a restart; of the two agents of one repository the second stays idle. *)
RowsStep ==
    /\ rowSpent.panes + rowSpent.keys + catSpent.intents < 3
    /\ RowsNext
    /\ pane'[2] = pane[2]
    /\ catSpent'.intents <= 1 /\ catSpent'.saves = 0 /\ catSpent'.reloads = 0

(* Two commands or changes of the windows.                                  *)
LayoutStep == LayoutNext /\ layUsed'.cmds + layUsed'.world <= 2

(* The turns are interchangeable: the first run is that of n1.  A crash or  *)
(* a failed write.                                                          *)
EvidenceStep == Next /\ crashes' + faults' <= 1 /\ (known = {} => known' \subseteq {n1})

SurfacesNext ==
    /\ UNCHANGED part
    /\ CASE part = "categories" -> CatNext /\ UNCHANGED rowVars
         [] part = "rows" -> RowsStep
         [] OTHER -> UNCHANGED <<catVars, rowVars>>
    /\ IF part = "layout" THEN LayoutStep ELSE UNCHANGED layoutVars
    /\ IF part = "cells" THEN CloseSidebarCell ELSE UNCHANGED cellVars
    /\ IF part = "store" THEN StoreNext ELSE UNCHANGED storeVars
    /\ IF part = "evidence" THEN EvidenceStep ELSE UNCHANGED vars

SurfacesSpec == SurfacesInit /\ [][SurfacesNext]_surfaceVars

-----------------------------------------------------------------------------
(* Properties: each module's own, of the part that runs (and CategoriesKept *)
(* of Categories, of every part).                                           *)

(* Every agent has one row, categories partition the repositories, windows  *)
(* have one prepared sidebar, and closing one leaves a layout tmux accepts. *)
SidebarsSound ==
    /\ part = "categories" => PartitionOfRepos
    /\ part = "rows" => RowsSound
    /\ part = "layout" => LayoutSound
    /\ part = "cells" => CellsSound

(* What is on disk can be opened and is of one generation, and the records  *)
(* of runs agree with the bodies beside them.                               *)
FilesSound ==
    /\ part = "store" => StoreResetSound
    /\ part = "evidence" => TypeOK /\ BodiesMatch /\ FilesBounded

(* What no step does: move what a request does not name, show an empty      *)
(* filter, close a content pane.  (AnswerFinal of RunEvidence says what no  *)
(* step does to the record of a run.)                                       *)
SurfacesStep == OnlyWhatIsNamed /\ FilterShowsSomething /\ ContentKept

(* What must happen, under the fairness of SidebarLayout for its processes  *)
(* (guarded by the part, which is the same there and cheaper to check).     *)
LayoutSettles ==
    part = "layout" /\ (\A h \in Hand : WF_layoutVars(part = "layout" /\ LayoutProgress(h)))
        => LonelyCloses /\ CommandsEnd
=============================================================================
