----------------------------- MODULE PaneSwitch -----------------------------
(* Directional pane switching: the geometry that chooses a target, and the  *)
(* two control commands (capture, then a guarded select) between which the  *)
(* user, tmux and other triggers can change the window.                     *)
EXTENDS Naturals, FiniteSets

CONSTANTS
    MaxMoves,    \* bound: changes of the window by others
    MaxRequests  \* bound: switch requests

VARIABLES
    window,   \* external: layout, active pane, cursor, pids, hidden panes
    request,  \* the request option, and how far the trigger thread is
    moves, requests, \* bounds
    switched  \* history: switches applied, and the last one

psVars == <<window, request, moves, requests, switched>>

Direction == {"left", "right", "up", "down"}
PaneId == {"a", "b", "c", "d"}
PaneGone == "none"
NoTarget_ == [pane |-> PaneGone, pid |-> 0, cycle |-> FALSE, direction |-> "left",
              source |-> PaneGone]

(* Windows of tmux: panes are rectangles with one cell between neighbours.  *)
Rect(left, top, width, height) ==
    [left |-> left, top |-> top, width |-> width, height |-> height]
Layouts ==
    {[a |-> Rect(0, 0, 4, 4), b |-> Rect(5, 0, 4, 4), c |-> Rect(0, 5, 4, 4),
      d |-> Rect(5, 5, 4, 4)],
     [b |-> Rect(0, 0, 4, 9), a |-> Rect(5, 0, 4, 9), c |-> Rect(10, 0, 4, 9)],
     [a |-> Rect(0, 0, 4, 9), b |-> Rect(5, 0, 4, 4), c |-> Rect(5, 5, 4, 4),
      d |-> Rect(10, 0, 4, 9)],
     [b |-> Rect(0, 0, 2, 4), c |-> Rect(3, 0, 6, 4), a |-> Rect(0, 5, 9, 4)],
     [a |-> Rect(0, 0, 9, 9)]}

-----------------------------------------------------------------------------
(* choose_target.  A rectangle has left, top, width and height.             *)

axis_distance(position, start, size) ==
    IF position < start THEN start - position
    ELSE IF position < start + size THEN 0 ELSE position - (start + size - 1)

AbsoluteX(w, p) == w.layout[p].left + (IF w.x < w.layout[p].width THEN w.x
                                       ELSE w.layout[p].width - 1)
AbsoluteY(w, p) == w.layout[p].top + (IF w.y < w.layout[p].height THEN w.y
                                      ELSE w.layout[p].height - 1)

CrossDistance(w, source, p, d) ==
    IF d \in {"left", "right"}
    THEN axis_distance(AbsoluteY(w, source), w.layout[p].top, w.layout[p].height)
    ELSE axis_distance(AbsoluteX(w, source), w.layout[p].left, w.layout[p].width)

CrossStart(w, p, d) ==
    IF d \in {"left", "right"} THEN w.layout[p].top ELSE w.layout[p].left

(* Panes that are aligned with the cursor; the one-cell border belongs to   *)
(* both its neighbours.  Sidebars and floating panes never count.           *)
Aligned(w, source, d) ==
    {p \in DOMAIN w.layout \ {source} :
        p \notin w.hidden /\ CrossDistance(w, source, p, d) <= 1}

(* The gap between source and p when p lies in the direction.               *)
Ahead(w, source, p, d) ==
    LET s == w.layout[source]
        t == w.layout[p]
    IN CASE d = "left"  -> t.left < s.left /\ t.left + t.width <= s.left
         [] d = "right" -> t.left > s.left /\ s.left + s.width <= t.left
         [] d = "up"    -> t.top < s.top /\ t.top + t.height <= s.top
         [] d = "down"  -> t.top > s.top /\ s.top + s.height <= t.top

Gap(w, source, p, d) ==
    LET s == w.layout[source]
        t == w.layout[p]
    IN CASE d = "left"  -> s.left - (t.left + t.width)
         [] d = "right" -> t.left - (s.left + s.width)
         [] d = "up"    -> s.top - (t.top + t.height)
         [] d = "down"  -> t.top - (s.top + s.height)

EdgePosition(w, p, d) ==
    LET t == w.layout[p]
    IN CASE d = "left" -> t.left + t.width [] d = "right" -> t.left
         [] d = "up" -> t.top + t.height [] d = "down" -> t.top

Before(a, b) ==   \* lexicographic order of scores
    \E i \in DOMAIN a : a[i] < b[i] /\ \A j \in 1..(i - 1) : a[j] = b[j]

Score(w, source, p, d) ==
    <<Gap(w, source, p, d), CrossDistance(w, source, p, d), CrossStart(w, p, d)>>

(* Wrapping around takes the pane at the far edge: the largest position     *)
(* going left or up, the smallest going right or down.                      *)
EdgeScore(w, source, p, d) ==
    <<IF d \in {"left", "up"} THEN 1000 - EdgePosition(w, p, d) ELSE EdgePosition(w, p, d),
      CrossDistance(w, source, p, d), CrossStart(w, p, d)>>

(* Panes are scanned in order and a later one must be strictly better; the  *)
(* order of ids stands for the order of the rows.                           *)
First(S, better(_, _)) ==
    CHOOSE p \in S : \A q \in S : ~better(q, p)

choose_target(w, source, d) ==
    LET ahead == {p \in Aligned(w, source, d) : Ahead(w, source, p, d)}
        all == Aligned(w, source, d)
    IN IF ahead # {}
       THEN [pane |-> First(ahead, LAMBDA p, q :
                        Before(Score(w, source, p, d), Score(w, source, q, d))),
             cycle |-> FALSE]
       ELSE IF all # {}
       THEN [pane |-> First(all, LAMBDA p, q :
                        Before(EdgeScore(w, source, p, d), EdgeScore(w, source, q, d))),
             cycle |-> TRUE]
       ELSE [pane |-> PaneGone, cycle |-> FALSE]

-----------------------------------------------------------------------------
(* The window changes under the request.                                    *)

NoWindow == [layout |-> [p \in {} |-> Rect(0, 0, 0, 0)], active |-> PaneGone, x |-> 0, y |-> 0,
             pid |-> [p \in PaneId |-> 1], hidden |-> {}]

Open ==
    /\ window = NoWindow
    /\ \E l \in Layouts, x \in {0, 8}, y \in {0, 4, 8}, h \in {{}, {"b"}, {"b", "c"}} :
          window' = [NoWindow EXCEPT !.layout = l, !.active = "a", !.x = x, !.y = y,
                                     !.hidden = h]
    /\ UNCHANGED <<request, moves, requests, switched>>

Move(p) ==
    /\ moves < MaxMoves /\ p \in DOMAIN window.layout \ {window.active}
    /\ \/ window' = [window EXCEPT !.active = p]
       \/ window' = [window EXCEPT !.pid[p] = @ + 1]
       \/ window' = [window EXCEPT !.hidden = @ \cup {p}]
    /\ moves' = moves + 1
    /\ UNCHANGED <<request, requests, switched>>

(* A key binding writes the request of the active pane and signals; a       *)
(* second key press overwrites it.                                          *)
Press(d) ==
    /\ requests < MaxRequests /\ window.active # PaneGone
    /\ request' = [request EXCEPT !.option = [direction |-> d, pane |-> window.active,
                                              pid |-> window.pid[window.active]],
                                  !.signal = TRUE]
    /\ requests' = requests + 1
    /\ UNCHANGED <<window, moves, switched>>

(* handle_pane_switch_trigger reads the option.                             *)
Trigger ==
    /\ request.signal /\ request.step = "idle"
    /\ request' = [request EXCEPT !.signal = FALSE, !.step = "capture", !.current = request.option]
    /\ UNCHANGED <<window, moves, requests, switched>>

(* pane_switch up to prepare: capture the window; a source that has gone or *)
(* is not active any more is stale.                                         *)
Capture ==
    /\ request.step = "capture"
    /\ LET c == request.current
           t == choose_target(window, c.pane, c.direction)
       IN IF window.pid[c.pane] # c.pid \/ window.active # c.pane \/ t.pane = PaneGone
          THEN request' = [request EXCEPT !.step = "idle"]
          ELSE request' = [request EXCEPT !.step = "apply",
                    !.target = [pane |-> t.pane, pid |-> window.pid[t.pane],
                                cycle |-> t.cycle, direction |-> c.direction,
                                source |-> c.pane]]
    /\ UNCHANGED <<window, moves, requests, switched>>

(* The guarded command: source still active and the same process, target    *)
(* still the same process and not hidden; or a lost connection.             *)
SourceGuard(r) == window.active = r.target.source /\ window.pid[r.target.source] = r.current.pid
TargetGuard(r) == window.pid[r.target.pane] = r.target.pid /\ r.target.pane \notin window.hidden

Apply_ ==
    /\ request.step = "apply"
    /\ \/ /\ SourceGuard(request) /\ TargetGuard(request)
          /\ window' = [window EXCEPT !.active = request.target.pane]
          /\ switched' = [count |-> switched.count + 1, last |-> request.target, from |-> window]
       \/ UNCHANGED <<window, switched>>
    /\ request' = [request EXCEPT !.step = "idle"]
    /\ UNCHANGED <<moves, requests>>

-----------------------------------------------------------------------------
PsInit ==
    /\ window = NoWindow
    /\ request = [option |-> [direction |-> "left", pane |-> "a", pid |-> 0], signal |-> FALSE,
                  step |-> "idle", current |-> [direction |-> "left", pane |-> "a", pid |-> 0],
                  target |-> NoTarget_]
    /\ moves = 0 /\ requests = 0
    /\ switched = [count |-> 0, last |-> NoTarget_, from |-> window]

PsNext ==
    \/ Open
    \/ \E p \in PaneId : Move(p)
    \/ \E d \in Direction : Press(d)
    \/ Trigger \/ Capture \/ Apply_

PsSpec == PsInit /\ [][PsNext]_psVars

-----------------------------------------------------------------------------
(* Properties.                                                              *)

(* Between the edges a and b of two intervals, some part of p.              *)
Between(w, source, target, p, d) ==
    /\ p \notin {source, target} \cup w.hidden
    /\ CrossDistance(w, source, p, d) = 0
    /\ Ahead(w, source, p, d) /\ Ahead(w, p, target, d)

(* A switch goes to a pane the user can see, in the direction asked for and *)
(* with nothing between, and wraps around only when nothing lies that way;  *)
(* a key press switches at most once, whatever request overwrites another   *)
(* (choose_target, prepare, handle_pane_switch_trigger).                    *)
SwitchesToNeighbour ==
    /\ switched.count <= requests
    /\ switched.count > 0 =>
        LET w == switched.from
            t == switched.last
        IN /\ t.pane \in DOMAIN w.layout \ (w.hidden \cup {t.source})
           /\ ~t.cycle => Ahead(w, t.source, t.pane, t.direction)
           /\ ~\E p \in DOMAIN w.layout : Between(w, t.source, t.pane, p, t.direction)
           /\ t.cycle => ~\E p \in DOMAIN w.layout \ w.hidden :
                            /\ CrossDistance(w, t.source, p, t.direction) = 0
                            /\ Ahead(w, t.source, p, t.direction)
=============================================================================
