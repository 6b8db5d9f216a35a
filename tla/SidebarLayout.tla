--------------------------- MODULE SidebarLayout ---------------------------
(***************************************************************************)
(* The commands that open, close and reserve the sidebar of a tmux window  *)
(* (cli/sidebar.rs, sidebar/layout.rs).  Every command is a process of its *)
(* own and a sequence of tmux calls; between two calls other commands, the *)
(* hooks of tmux and the user act on the same windows.                     *)
(*                                                                         *)
(* tmux is external: what a call does is taken from how the commands use   *)
(* it.  A call on a window or pane that is gone fails, and the command     *)
(* ends with the error.                                                    *)
(***************************************************************************)
EXTENDS Naturals, Sequences, FiniteSets, FiniteSetsExt, SequencesExt

CONSTANTS
    Win,          \* windows
    LayoutCmds,   \* the commands the users run
    Hand,         \* command processes
    MaxLayoutCmds,\* bound: commands users run
    MaxWindowOps  \* bound: windows and panes that appear or exit

ASSUME LayoutAssumption ==
    /\ IsFiniteSet(Win) /\ IsFiniteSet(Hand)
    /\ LayoutCmds \subseteq {"open", "close", "toggle", "toggle_all", "focus_toggle", "rail", "prepare",
                             "layout_applied", "auto_all"}
    /\ {MaxLayoutCmds, MaxWindowOps} \subseteq Nat

VARIABLES
    made,    \* the panes ever created: [side, marked, rail, locked]
    win,     \* Win -> its panes, none when the window does not exist
    focus,   \* Win -> its active pane
    hooksOn, \* which of the auto-all hooks are set
    hand,    \* Hand -> the command it runs
    due,     \* commands the hooks started and no process runs yet
    layUsed  \* what the bounds count

layoutVars == <<made, win, focus, hooksOn, hand, due, layUsed>>

Rest == [cmd |-> "none"]
Working(h) == hand[h].cmd # "none"
Locked(h) == hand[h].cmd \in {"prepare", "layout_applied", "auto_all"}
Holder(w) == {h \in Hand : Working(h) /\ Locked(h) /\ hand[h].w = w /\ hand[h].at \notin {"enabled", "lock"}}

Marked(w) == {p \in win[w] : made[p].marked}
\* The first marked pane tmux lists, or none: the pane on the far left, the one created last.
find_sidebar_pane(w) == IF Marked(w) = {} THEN 0 ELSE Max(Marked(w))

(***************************************************************************)
(* Steps of a process.                                                     *)
(***************************************************************************)
Become(h, r) == hand' = [hand EXCEPT ![h] = r]
At(h, a) == hand[h].cmd # "none" /\ hand[h].at = a
To(h, a) == [hand[h] EXCEPT !.at = a]
Alive(w) == win[w] # {}
World == <<made, win, focus, hooksOn>>

\* toggle --all: the next window of the list, and the sidebar that was found there.
NextWindow(r, todo, closing) ==
    IF todo = <<>> THEN [r EXCEPT !.at = "hooks", !.closing = closing]
    ELSE [r EXCEPT !.at = IF closing THEN "capture" ELSE "split", !.closing = closing,
                   !.w = Head(todo)[1], !.side = Head(todo)[2], !.todo = Tail(todo)]

\* What follows when a sidebar is open or closed: the next window of toggle --all, the answer of a
\* prepared layout, or the end.
Following(h) ==
    CASE hand[h].cmd = "toggle_all" -> NextWindow(hand[h], hand[h].todo, hand[h].closing)
      [] Locked(h) -> To(h, "reply")
      [] OTHER -> Rest

capture_window_layout(h, next) ==
    Become(h, IF Alive(hand[h].w) THEN [To(h, next) EXCEPT !.layout = win[hand[h].w]] ELSE Rest)

\* open_unchecked: split the window, mark the new pane, set its width.
split_window(h) ==
    LET w == hand[h].w
        p == Len(made) + 1
    IN  /\ At(h, "split") /\ UNCHANGED <<hooksOn, due, layUsed>>
        /\ IF ~Alive(w) THEN Become(h, Rest) /\ UNCHANGED <<made, win, focus>>
           ELSE /\ made' = Append(made, [side |-> TRUE, marked |-> FALSE, rail |-> FALSE, locked |-> Locked(h)])
                /\ win' = [win EXCEPT ![w] = @ \cup {p}]
                /\ focus' = IF Locked(h) \/ hand[h].cmd = "toggle_all" THEN focus ELSE [focus EXCEPT ![w] = p]
                /\ Become(h, [To(h, "mark") EXCEPT !.side = p, !.reserved = @ \cup {p}])

mark_sidebar(h) ==
    /\ At(h, "mark") /\ UNCHANGED <<win, focus, hooksOn, due, layUsed>>
    /\ IF hand[h].side \in win[hand[h].w]
       THEN made' = [made EXCEPT ![hand[h].side].marked = TRUE] /\ Become(h, To(h, "size"))
       ELSE Become(h, Rest) /\ UNCHANGED made

size_sidebar(h) ==
    /\ At(h, "size") /\ UNCHANGED <<win, focus, hooksOn, due, layUsed>>
    /\ IF hand[h].side \in win[hand[h].w]
       THEN made' = [made EXCEPT ![hand[h].side].rail = FALSE] /\ Become(h, Following(h))
       ELSE Become(h, Rest) /\ UNCHANGED made

\* close_sidebar_pane: the layout is read before the pane is killed and the rest of it applied after,
\* which tmux refuses when the window has another number of panes by then.
kill_pane(h) ==
    LET w == hand[h].w
        p == hand[h].side
    IN  /\ At(h, "kill") /\ UNCHANGED <<made, hooksOn, due, layUsed>>
        /\ IF p \notin win[w] THEN Become(h, Rest) /\ UNCHANGED <<win, focus>>
           ELSE /\ win' = [win EXCEPT ![w] = @ \ {p}]
                /\ focus' = [focus EXCEPT ![w] = IF @ = p /\ win'[w] # {} THEN Min(win'[w]) ELSE @]
                /\ Become(h, IF hand[h].cmd \in {"layout_changed", "layout_applied"} THEN Rest
                             ELSE IF hand[h].layout = {p} THEN Following(h) ELSE To(h, "restore"))

capture_before_close(h) ==
    /\ At(h, "capture") /\ UNCHANGED <<World, due, layUsed>>
    /\ IF hand[h].side \in win[hand[h].w] THEN capture_window_layout(h, "kill") ELSE Become(h, Rest)

select_layout(h) ==
    /\ At(h, "restore") /\ UNCHANGED <<World, due, layUsed>>
    /\ Become(h, IF Cardinality(win[hand[h].w]) = Cardinality(hand[h].layout) - 1 THEN Following(h) ELSE Rest)

(***************************************************************************)
(* The commands.                                                           *)
(***************************************************************************)
Unlocked(c) == c \notin {"prepare", "layout_applied", "auto_all"}
Undisturbed(w) == ~\E g \in Hand : Working(g) /\ Unlocked(hand[g].cmd) /\ hand[g].w \in {w} \cup
                                     (IF hand[g].cmd = "toggle_all" THEN Win ELSE {})
NewCommand(cmd, w) == [cmd |-> cmd, w |-> w, side |-> 0, listed |-> {}, todo |-> <<>>, layout |-> {},
                       reserved |-> {}, closing |-> FALSE, anchor |-> 0, clean |-> Undisturbed(w),
                       at |-> CASE cmd \in {"prepare", "layout_applied"} -> "lock"
                                [] cmd = "auto_all" -> "enabled"
                                [] cmd = "toggle_all" -> "windows"
                                [] cmd = "layout_changed" -> "panes"
                                [] OTHER -> "find"]

Start(h, c, w) ==
    hand' = [g \in Hand |-> IF g = h THEN NewCommand(c, w)
                            ELSE IF Working(g) /\ Locked(g) /\ Unlocked(c) /\ (hand[g].w = w \/ c = "toggle_all")
                            THEN [hand[g] EXCEPT !.clean = FALSE] ELSE hand[g]]

\* open, close, toggle, focus-toggle and rail begin with the sidebar they find.
find_sidebar(h) ==
    LET w == hand[h].w
        c == hand[h].cmd
        s == find_sidebar_pane(w)
        found == [hand[h] EXCEPT !.side = s]
    IN  /\ At(h, "find") /\ UNCHANGED <<World, due, layUsed>>
        /\ Become(h, CASE ~Alive(w) -> Rest
                       [] s = 0 -> IF c \in {"close", "rail"} THEN Rest
                                   ELSE IF c = "focus_toggle" THEN [found EXCEPT !.cmd = "open"]
                                   ELSE [found EXCEPT !.at = "split"]
                       [] c = "open" -> [found EXCEPT !.at = "select"]
                       [] c = "focus_toggle" -> [found EXCEPT !.at = "active"]
                       [] c = "rail" -> [found EXCEPT !.at = "rail"]
                       [] OTHER -> [found EXCEPT !.at = "capture"])

focus_toggle_existing(h) ==
    LET w == hand[h].w
    IN  /\ At(h, "active") /\ UNCHANGED <<World, due, layUsed>>
        /\ Become(h, IF ~Alive(w) THEN Rest
                     ELSE To(h, IF focus[w] = hand[h].side THEN "capture" ELSE "select"))

select_pane(h) ==
    /\ At(h, "select") /\ UNCHANGED <<made, win, hooksOn, due, layUsed>>
    /\ focus' = IF hand[h].side \in win[hand[h].w] THEN [focus EXCEPT ![hand[h].w] = hand[h].side] ELSE focus
    /\ Become(h, Rest)

rail(h) ==
    /\ At(h, "rail") /\ UNCHANGED <<win, focus, hooksOn, due, layUsed>>
    /\ made' = IF hand[h].side \in win[hand[h].w] THEN [made EXCEPT ![hand[h].side].rail = ~@] ELSE made
    /\ Become(h, Rest)

\* toggle --all: list the windows, then find the sidebar of each in turn; close them all when every
\* window had one, otherwise open the missing ones; then set or remove the hooks.
toggle_all(h) ==
    /\ At(h, "windows") /\ UNCHANGED <<World, due, layUsed>>
    /\ Become(h, [To(h, "scan") EXCEPT !.listed = {w \in Win : Alive(w)}])

toggle_each(h) ==
    LET rest == hand[h].listed
        w == CHOOSE v \in rest : TRUE
        all == hand[h].todo # <<>> /\ \A i \in DOMAIN hand[h].todo : hand[h].todo[i][2] # 0
    IN  /\ At(h, "scan") /\ UNCHANGED <<World, due, layUsed>>
        /\ Become(h, IF rest # {} /\ Alive(w)
                     THEN [hand[h] EXCEPT !.listed = @ \ {w}, !.todo = Append(@, <<w, find_sidebar_pane(w)>>)]
                     ELSE IF rest # {} THEN Rest
                     ELSE NextWindow(hand[h], IF all THEN hand[h].todo
                                              ELSE SelectSeq(hand[h].todo, LAMBDA v : v[2] = 0), all))

set_auto_hooks(h) ==
    LET on == ~hand[h].closing
    IN  /\ UNCHANGED <<made, win, focus, due, layUsed>>
        /\ \/ /\ At(h, "hooks")
              /\ hooksOn' = [hooksOn EXCEPT !.window = on] /\ Become(h, To(h, "hooks2"))
           \/ /\ At(h, "hooks2")
              /\ hooksOn' = [hooksOn EXCEPT !.exit = on] /\ Become(h, Rest)

(***************************************************************************)
(* prepare_layout_inner, under the lock of the window: the hook of a new   *)
(* window (layout_applied), the creation of a session (auto_all) and       *)
(* layout managers (prepare).                                              *)
(***************************************************************************)
acquire_prepare_lock(h) ==
    /\ At(h, "lock") /\ Holder(hand[h].w) = {}
    /\ UNCHANGED <<World, due, layUsed>> /\ Become(h, To(h, "panes"))

capture_prepare_panes(h) ==
    LET w == hand[h].w
        c == hand[h].cmd
        content == win[w] \ Marked(w)
        seen == [hand[h] EXCEPT !.layout = win[w], !.reserved = Marked(w),
                                !.todo = SetToSeq({<<w, p>> : p \in {s \in Marked(w) : made[s].rail}}),
                                !.anchor = IF content = {} THEN 0 ELSE Min(content)]
    IN  /\ At(h, "panes") /\ Locked(h) /\ UNCHANGED <<World, due, layUsed>>
        /\ Become(h, CASE ~Alive(w) -> Rest
                       [] Alive(w) /\ content = {} ->
                            IF c = "layout_applied" /\ Cardinality(win[w]) = 1
                            THEN [seen EXCEPT !.at = "kill", !.side = Min(win[w])] ELSE Rest
                       [] content # {} /\ Marked(w) = {} ->
                            [seen EXCEPT !.at = IF c = "prepare" THEN "auto" ELSE "split"]
                       [] OTHER -> [seen EXCEPT !.at = "widths"])

\* auto_all asks before it takes the lock, prepare when it finds no sidebar.
auto_all_enabled(h) ==
    /\ UNCHANGED <<World, due, layUsed>>
    /\ \/ At(h, "enabled") /\ Become(h, IF hooksOn.window THEN To(h, "lock") ELSE Rest)
       \/ At(h, "auto") /\ Become(h, To(h, IF hooksOn.window THEN "split" ELSE "reply"))

\* The panes the listing under the lock found too narrow are resized, one after the other.
reconcile_sidebar_widths(h) ==
    LET narrow == hand[h].todo
        p == Head(narrow)[2]
    IN  /\ At(h, "widths") /\ UNCHANGED <<win, focus, hooksOn, due, layUsed>>
        /\ IF Alive(hand[h].w) /\ narrow = <<>> THEN Become(h, To(h, "reply")) /\ UNCHANGED made
           ELSE IF narrow = <<>> \/ p \notin win[hand[h].w] THEN Become(h, Rest) /\ UNCHANGED made
           ELSE made' = [made EXCEPT ![p].rail = FALSE] /\ Become(h, [hand[h] EXCEPT !.todo = Tail(@)])

prepare_layout(h) == At(h, "reply") /\ Become(h, Rest) /\ UNCHANGED <<World, due, layUsed>>

(* Mutant: the sidebar is not counted among the panes that are left.        *)
M_layout_changed(h) ==
    LET w == hand[h].w
        s == find_sidebar_pane(w)
    IN  /\ ~Locked(h) /\ UNCHANGED <<World, due, layUsed>>
        /\ \/ At(h, "panes") /\ capture_window_layout(h, "lonely")
           \/ At(h, "lonely") /\ Become(h, IF s # 0 /\ hand[h].layout = {}
                                           THEN [To(h, "kill") EXCEPT !.side = s] ELSE Rest)

\* layout_changed, the hook of an exited pane: close a sidebar that is alone.
layout_changed(h) ==
    LET w == hand[h].w
        s == find_sidebar_pane(w)
    IN  /\ ~Locked(h) /\ UNCHANGED <<World, due, layUsed>>
        /\ \/ At(h, "panes") /\ capture_window_layout(h, "lonely")
           \/ At(h, "lonely") /\ Become(h, IF s # 0 /\ hand[h].layout = {s}
                                           THEN [To(h, "kill") EXCEPT !.side = s] ELSE Rest)

CommandStep(h) ==
    \/ find_sidebar(h) \/ focus_toggle_existing(h) \/ select_pane(h) \/ rail(h)
    \/ toggle_all(h) \/ toggle_each(h) \/ set_auto_hooks(h)
    \/ acquire_prepare_lock(h) \/ capture_prepare_panes(h) \/ auto_all_enabled(h)
    \/ reconcile_sidebar_widths(h) \/ prepare_layout(h) \/ layout_changed(h)
    \/ split_window(h) \/ mark_sidebar(h) \/ size_sidebar(h)
    \/ capture_before_close(h) \/ kill_pane(h) \/ select_layout(h)

(***************************************************************************)
(* tmux and the users.                                                     *)
(***************************************************************************)
UseUp(kind, bound) == layUsed[kind] < bound /\ layUsed' = [layUsed EXCEPT ![kind] = @ + 1]

\* The sidebar process marks its own pane when it starts.
attach ==
    /\ \E w \in Win : \E p \in win[w] : made[p].side /\ ~made[p].marked /\ made' = [made EXCEPT ![p].marked = TRUE]
    /\ UNCHANGED <<win, focus, hooksOn, hand, due, layUsed>>

run_sidebar_command(h, c, w) ==
    /\ ~Working(h) /\ Alive(w) /\ UseUp("cmds", MaxLayoutCmds)
    /\ Start(h, c, w) /\ UNCHANGED <<World, due>>

StartDue(h, d) ==
    /\ ~Working(h) /\ d \in due
    /\ Start(h, d[1], d[2]) /\ due' = due \ {d} /\ UNCHANGED <<World, layUsed>>

Content == [side |-> FALSE, marked |-> FALSE, rail |-> FALSE, locked |-> FALSE]

NewWindow(w) ==
    /\ ~Alive(w) /\ UseUp("world", MaxWindowOps)
    /\ made' = Append(made, Content)
    /\ win' = [win EXCEPT ![w] = {Len(made) + 1}] /\ focus' = [focus EXCEPT ![w] = Len(made) + 1]
    /\ due' = due \cup (IF hooksOn.window THEN {<<"layout_applied", w>>} ELSE {})
    /\ UNCHANGED <<hooksOn, hand>>

PaneExits(w, p) ==
    /\ p \in win[w] /\ UseUp("world", MaxWindowOps)
    /\ win' = [win EXCEPT ![w] = @ \ {p}]
    /\ focus' = [focus EXCEPT ![w] = IF @ = p /\ win'[w] # {} THEN Min(win'[w]) ELSE @]
    /\ due' = due \cup (IF hooksOn.exit THEN {<<"layout_changed", w>>} ELSE {})
    /\ UNCHANGED <<made, hooksOn, hand>>

\* One window is there, with or without a sidebar, which may be a rail.
LayoutInit ==
    /\ \E w \in Win, n \in 1..2, r \in BOOLEAN :
          /\ win = [v \in Win |-> IF v = w THEN 1..n ELSE {}]
          /\ made = SubSeq(<<Content, [side |-> TRUE, marked |-> TRUE, rail |-> r, locked |-> FALSE]>>, 1, n)
    /\ focus = [w \in Win |-> 1]
    /\ hooksOn \in {[window |-> b, exit |-> b] : b \in BOOLEAN}
    /\ hand = [h \in Hand |-> Rest] /\ due = {} /\ layUsed = [cmds |-> 0, world |-> 0]

LayoutProgress(h) == CommandStep(h) \/ \E d \in due : StartDue(h, d)

LayoutNext ==
    \/ \E h \in Hand : LayoutProgress(h)
    \/ \E h \in Hand, c \in LayoutCmds, w \in Win : run_sidebar_command(h, c, w)
    \/ attach
    \/ \E w \in Win : NewWindow(w) \/ \E p \in win[w] : PaneExits(w, p)

LayoutFairness == \A h \in Hand : WF_layoutVars(LayoutProgress(h))
LayoutSpec == LayoutInit /\ [][LayoutNext]_layoutVars /\ LayoutFairness

-----------------------------------------------------------------------------
(***************************************************************************)
(* Properties.                                                             *)
(***************************************************************************)
Sides(w) == {p \in win[w] : made[p].side}

\* README.md:352: preparing a layout is idempotent with the hook of new windows: the lock leaves a
\* window with one sidebar however many of them run at once.
PrepareOpensOne == \A w \in Win : Cardinality({p \in Sides(w) : made[p].locked}) <= 1

\* README.md:349: when `ready` is answered the panes it names that have not exited are sidebars of
\* the configured width, and the anchor is a content pane, unless a command without the lock was at
\* work in the window.
ReadyIsReady ==
    \A h \in Hand : (At(h, "reply") /\ hand[h].clean) =>
        /\ \A p \in hand[h].reserved \cap win[hand[h].w] : made[p].marked /\ ~made[p].rail
        /\ ~made[hand[h].anchor].side

LayoutSound == PrepareOpensOne /\ ReadyIsReady

\* A command closes sidebars and nothing else.
ContentKept ==
    [][\A w \in Win : \A p \in win[w] \ win'[w] : made[p].side \/ layUsed'.world > layUsed.world]_layoutVars

\* A sidebar left alone is closed by the hook of the pane that exited.
LonelyCloses ==
    \A w \in Win : (<<"layout_changed", w>> \in due /\ Cardinality(win[w]) = 1 /\ Marked(w) = win[w]) ~>
                   (~\E p \in win[w] : win[w] = {p} /\ made[p].marked)

\* Every command ends.
CommandsEnd == \A h \in Hand : Working(h) ~> ~Working(h)
=============================================================================
