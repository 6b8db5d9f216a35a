----------------------------- MODULE SidebarTui -----------------------------
(***************************************************************************)
(* The sidebars of one tmux server and what they share through the daemon  *)
(* (sidebar/tui.rs, sidebar/tui/*, sidebar/client.rs; the daemon's side in *)
(* daemon/server/mutations/sidebar.rs and daemon/runtime.rs).  Every       *)
(* sidebar runs one loop: take the newest snapshot, merge what the others  *)
(* changed, send what its user changed, take the messages of its control   *)
(* socket, draw, and read one terminal event.  Requests are sent by worker *)
(* threads, one per kind, whose answers come back to the loop.             *)
(*                                                                         *)
(* One turn of the loop is one action: it only talks to the rest through   *)
(* channels it drains.  A preference has two values, the scroll position   *)
(* travels with the selection and is left out, and a row is the repository *)
(* or an agent pane.  SidebarRows has the full projection of the rows.     *)
(***************************************************************************)
EXTENDS Naturals, Sequences, FiniteSets, SequencesExt

CONSTANTS
    Tui,         \* sidebars
    SbPane,      \* agent panes, all of one repository
    Home,        \* Tui -> SbPane: the pane each sidebar was opened from
    RepoRow,     \* the row of the repository
    NoRow,       \* no selection
    RowOrder,    \* the rows from top to bottom
    FieldOrder,  \* the shared preferences ("scope", "mode", "filter"), in the order they are sent
    MaxKeys,     \* bound: keys pressed or sent through the control sockets
    MaxWorld,    \* bound: panes that change, appear or vanish, diagnostics
    MaxLoss,     \* bound: requests that fail or whose answer is lost, dropped subscriptions
    MaxRestarts  \* bound: daemon restarts

ASSUME TuiAssumption ==
    /\ IsFiniteSet(Tui) /\ Home \in [Tui -> SbPane]
    /\ RepoRow \notin SbPane /\ NoRow \notin SbPane \cup {RepoRow}
    /\ "filter" \in Range(FieldOrder)
    /\ Range(RowOrder) = SbPane \cup {RepoRow}
    /\ {MaxKeys, MaxWorld, MaxLoss, MaxRestarts} \subseteq Nat

VARIABLES
    hub,  \* what the daemon keeps and publishes
    saved,   \* the preference file
    feed,    \* Tui -> the last update of its subscription
    tui,     \* Tui -> the loop's local state and its channels
    seen,    \* SbPane -> the latest question any sidebar has drawn for its user
    spent    \* what the bounds count

tuiVars == <<hub, saved, feed, tui, seen, spent>>

PrefField == Range(FieldOrder)
Worker == {"pref", "nav", "pin", "mark", "ack", "cat"}
Saved(d) == [prefs |-> d.prefs, over |-> d.over, pins |-> d.pins]

(***************************************************************************)
(* What a sidebar shows.  With the filter on only panes with an            *)
(* unacknowledged question are rows; the repository's row is there when it *)
(* has a row below it, and hides those when it is collapsed.  A repository *)
(* is open and an agent closed unless the row is in the overrides.         *)
(***************************************************************************)
Asks(snap, p) == p \in snap.panes /\ snap.asked[p] > snap.acked[p]

pane_matches_filter(snap, prefs, p) == prefs["filter"] = 1 => Asks(snap, p)

Listed(snap, prefs) == {p \in snap.panes : pane_matches_filter(snap, prefs, p)}

ListRows(snap, prefs, over) ==
    SelectSeq(RowOrder, LAMBDA r :
        IF r = RepoRow THEN Listed(snap, prefs) # {}
        ELSE r \in Listed(snap, prefs) /\ RepoRow \notin over)

RowsOf(s) == ListRows(s.snap[1], s.prefs, s.over)

Chats(s) == Range(RowsOf(s)) \ {RepoRow}

\* What one frame depends on.
project_view(s) ==
    [rows |-> RowsOf(s), open |-> s.over, sel |-> s.sel,
     asks |-> {p \in SbPane : Asks(s.snap[1], p)}]

\* The question the selected row shows, with the order it was drawn with.
displayed_target(s) ==
    IF s.sel \in Chats(s) /\ Asks(s.snap[1], s.sel)
    THEN <<[pane |-> s.sel, order |-> s.snap[1].asked[s.sel]]>>
    ELSE <<>>

Dirty(s, changed) == [s EXCEPT !.dirty = @ \/ changed]
Send(s, w, request) == [s EXCEPT !.jobs[w] = Append(@, request)]

(***************************************************************************)
(* The steps of one turn of the loop, in their order.                      *)
(***************************************************************************)
drain_snapshot_updates(s, update) ==
    Dirty([s EXCEPT !.conn = update.conn, !.snap = update.snap],
          update.conn # s.conn \/ update.snap # s.snap)

seed_persisted_sidebar_preferences(s) ==
    LET p == s.snap[1] IN
    [s EXCEPT !.prefs = p.prefs, !.queuedPrefs = p.prefs, !.remotePrefs = p.prefs,
              !.over = p.over, !.expView = p.over, !.remoteExp = <<p.over>>]

\* The row of the pane the sidebar was opened from, found without the filter.
select_context_agent(s, p) ==
    LET found == p \in s.snap[1].panes /\ RepoRow \notin s.over
    IN  [s EXCEPT !.sel = IF found THEN p ELSE NoRow]

Seeded(s, home) ==
    LET a   == select_context_agent(seed_persisted_sidebar_preferences(s), home)
        nav == s.snap[1].nav
    IN  IF s.seeded THEN s
        ELSE [a EXCEPT !.seeded = TRUE, !.navRev = nav.rev,
                       !.sel = IF nav.rev > 0 THEN nav.sel ELSE @,
                       !.queuedNav = IF nav.rev > 0 THEN <<nav.sel>> ELSE @]

\* A field the user changed since it was last queued keeps the user's value.
apply_remote_sidebar_preferences(s) ==
    LET remote == s.snap[1].prefs
        mine   == {f \in PrefField : s.prefs[f] # s.queuedPrefs[f]}
        next   == [f \in PrefField |-> IF f \in mine THEN s.prefs[f] ELSE remote[f]]
        queued == [f \in PrefField |-> IF f \in mine THEN s.queuedPrefs[f] ELSE remote[f]]
    IN  IF s.remotePrefs = remote THEN s
        ELSE Dirty([s EXCEPT !.prefs = next, !.remotePrefs = remote, !.queuedPrefs = queued],
                   next # s.prefs)

apply_remote_navigation(s) ==
    LET nav == s.snap[1].nav IN
    IF nav.rev <= s.navRev THEN s
    ELSE Dirty([s EXCEPT !.sel = nav.sel, !.navRev = nav.rev, !.queuedNav = <<nav.sel>>],
               nav.sel # s.sel)

clear_stale_pane_selection(s) ==
    LET stale == s.sel \in SbPane \ s.snap[1].panes
    IN  Dirty([s EXCEPT !.sel = IF stale THEN NoRow ELSE @], stale)

\* The answers of the workers.
drain_mark_complete_results(s) ==
    Dirty([s EXCEPT !.marks = @ \ {s.answers["mark"][i].pane : i \in DOMAIN s.answers["mark"]}],
          s.answers["mark"] # <<>>)

drain_pane_pin_results(s) ==
    Dirty([s EXCEPT !.pinning = @ \ {s.answers["pin"][i].pane : i \in DOMAIN s.answers["pin"]}],
          s.answers["pin"] # <<>>)

DrainAck(s) ==
    Dirty([s EXCEPT !.acking = @ /\ s.answers["ack"] = <<>>], s.answers["ack"] # <<>>)

DrainPreferenceResults(s) ==
    LET failed == \E i \in DOMAIN s.answers["pref"] :
                      ~s.answers["pref"][i].ok /\ s.answers["pref"][i].request.op = "expand"
    IN  Dirty([s EXCEPT !.remoteExp = IF failed THEN <<>> ELSE @], s.answers["pref"] # <<>>)

apply_category_intent_result(s, answer) ==
    [s EXCEPT !.dialog = IF answer.ok THEN [phase |-> "none", id |-> 0]
                         ELSE [@ EXCEPT !.phase = "editing"]]

\* The request of a dialog has one answer.
DrainCategoryResults(s) ==
    LET answers == s.answers["cat"]
        mine    == {i \in DOMAIN answers : answers[i].id # 0 /\ answers[i].id = s.dialog.id}
    IN  Dirty(IF s.dialog.phase # "saving" \/ mine = {} THEN s
              ELSE apply_category_intent_result(s, answers[CHOOSE i \in mine : TRUE]),
              answers # <<>>)

DrainNavigationResults(s) ==
    LET failed == {i \in DOMAIN s.answers["nav"] : ~s.answers["nav"][i].ok}
    IN  Dirty([s EXCEPT !.queuedNav =
                  IF \E i \in failed : @ = <<s.answers["nav"][i].request>> THEN <<>> ELSE @],
              failed # {})

DrainAnswers(s) ==
    LET first == DrainPreferenceResults(drain_pane_pin_results(DrainAck(drain_mark_complete_results(s))))
    IN  [DrainNavigationResults(DrainCategoryResults(first)) EXCEPT !.answers = [w \in Worker |-> <<>>]]

\* Rows opened or closed since the last turn are sent one by one; without a
\* connection the local change is undone instead.
QueueExpansion(s) ==
    LET changed == SelectSeq(RowOrder, LAMBDA r : (r \in s.over) # (r \in s.expView))
        intent(r) == [op |-> "expand", row |-> r, over |-> r \in s.over]
        remote == s.snap[1].over
    IN  IF s.conn # "connected"
        THEN [s EXCEPT !.over = remote, !.expView = remote, !.remoteExp = <<remote>>,
                       !.queuedPrefs = s.prefs]
        ELSE [s EXCEPT !.jobs["pref"] = @ \o [i \in DOMAIN changed |-> intent(changed[i])],
                       !.expView = s.over]

AdoptExpansion(s) ==
    LET remote == s.snap[1].over IN
    IF s.remoteExp = <<remote>> THEN s
    ELSE Dirty([s EXCEPT !.over = remote, !.expView = remote, !.remoteExp = <<remote>>], TRUE)

QueuePreferences(s) ==
    LET changed == SelectSeq(FieldOrder, LAMBDA f : s.prefs[f] # s.queuedPrefs[f])
        intent(f) == [op |-> "set", field |-> f, value |-> s.prefs[f]]
    IN  IF s.conn # "connected" THEN s
        ELSE [s EXCEPT !.jobs["pref"] = @ \o [i \in DOMAIN changed |-> intent(changed[i])],
                       !.queuedPrefs = s.prefs]

QueueNavigation(s) ==
    IF s.conn # "connected" \/ s.queuedNav = <<s.sel>> THEN s
    ELSE [Send(s, "nav", s.sel) EXCEPT !.queuedNav = <<s.sel>>]

(***************************************************************************)
(* Keys.  The same keys come from the terminal and, some of them, from the *)
(* control socket.                                                         *)
(***************************************************************************)
Key ==
    [do : {"cycle"}, field : PrefField] \cup [do : {"move"}, row : SbPane \cup {RepoRow}]
    \cup [do : {"expand", "mark", "ack", "pin", "reorder", "open", "submit", "esc"}]
ControlKey ==
    [do : {"cycle"}, field : PrefField] \cup [do : {"focus"}, pane : SbPane]
    \cup [do : {"expand", "ack", "pin", "reorder"}]

\* A filter nothing matches is skipped, which leaves the All filter.
apply_local_sidebar_key(s, k) ==
    CASE k.do = "cycle" ->
            IF k.field = "filter" /\ s.prefs["filter"] = 0
               /\ ~\E p \in SbPane : Asks(s.snap[1], p)
            THEN s ELSE [s EXCEPT !.prefs[k.field] = 1 - @]
      [] k.do = "move" -> IF k.row \in Range(RowsOf(s)) THEN [s EXCEPT !.sel = k.row] ELSE s
      [] k.do = "expand" ->
            IF s.sel = NoRow THEN s
            ELSE [s EXCEPT !.over = IF s.sel \in @ THEN @ \ {s.sel} ELSE @ \cup {s.sel}]

\* The version marked complete is the one in the snapshot on the screen.
queue_mark_complete(s) ==
    IF s.sel \notin Chats(s) \/ s.sel \in s.marks THEN s
    ELSE [Send(s, "mark", [pane |-> s.sel, ver |-> s.snap[1].ver[s.sel]])
             EXCEPT !.marks = @ \cup {s.sel}]

\* What is acknowledged was fixed when it was drawn.
queue_ack(s) ==
    IF s.conn # "connected" \/ s.acking \/ s.target = <<>> THEN s
    ELSE [Send(s, "ack", s.target[1]) EXCEPT !.acking = TRUE]

queue_pane_pin_for_selection(s) ==
    IF s.sel \notin Chats(s) \/ s.sel \in s.pinning THEN s
    ELSE [Send(s, "pin", [op |-> "pin", pane |-> s.sel, on |-> s.sel \notin s.snap[1].pins])
             EXCEPT !.pinning = @ \cup {s.sel}]

\* An agent is moved by a preference, a repository by a category request.
queue_reorder(s) ==
    IF s.conn # "connected" \/ s.prefs["filter"] # 0 \/ s.sel \notin Range(RowsOf(s)) THEN s
    ELSE IF s.sel = RepoRow THEN Send(s, "cat", 0)
         ELSE IF Cardinality(Chats(s)) < 2 THEN s
              ELSE Send(s, "pref", [op |-> "order", pane |-> s.sel])

begin_category_edit(s) == [s EXCEPT !.dialog = [phase |-> "editing", id |-> 0], !.dirty = TRUE]

handle_category_edit_key(s, k) ==
    Dirty(CASE s.dialog.phase = "saving" -> s
            [] s.dialog.phase = "editing" /\ k.do = "esc" ->
                  [s EXCEPT !.dialog = [phase |-> "none", id |-> 0]]
            [] s.dialog.phase = "editing" /\ k.do = "submit" ->
                  [Send(s, "cat", s.nextId) EXCEPT !.dialog = [phase |-> "saving", id |-> s.nextId],
                                                   !.nextId = @ + 1]
            [] OTHER -> s, TRUE)

Press(s, k) ==
    CASE k.do = "mark"    -> queue_mark_complete(s)
      [] k.do = "ack"     -> Dirty(queue_ack(s), TRUE)
      [] k.do = "pin"     -> queue_pane_pin_for_selection(s)
      [] k.do = "reorder" -> queue_reorder(s)
      [] k.do = "open"    -> begin_category_edit(s)
      [] k.do \in {"submit", "esc"} -> s
      [] OTHER            -> apply_local_sidebar_key(s, k)

Changed(s, a) == a.sel # s.sel \/ a.prefs # s.prefs \/ a.over # s.over

\* A message of the control socket.
drain_control_messages(s, k) ==
    LET a == CASE k.do = "focus" ->
                    IF k.pane \in s.snap[1].panes THEN select_context_agent(s, k.pane) ELSE s
               [] k.do = "pin" -> IF s.conn = "connected" THEN queue_pane_pin_for_selection(s) ELSE s
               [] k.do = "ack" -> queue_ack(s)
               [] OTHER -> Press(s, k)
    IN  Dirty(a, Changed(s, a))

\* The frame; a degraded connection that lost its rows shows the last ones.
Draw(s) ==
    LET frame == project_view(s)
        shown == IF frame.rows = <<>> /\ s.conn = "degraded" THEN [frame EXCEPT !.rows = s.known]
                 ELSE frame
    IN  IF ~s.dirty THEN s
        ELSE [s EXCEPT !.dirty = FALSE, !.drawn = <<shown>>, !.target = displayed_target(s),
                       !.known = IF frame.rows # <<>> THEN frame.rows
                                 ELSE IF s.conn = "connected" THEN <<>> ELSE @]

\* The states after the steps before the draw, one in every set.
After(S, Step(_)) == {Step(s) : s \in S}
Merged(s, t) ==
    LET seed(a) == Seeded(a, Home[t])
        taken   == After(After(After(After({s}, seed), apply_remote_sidebar_preferences),
                               apply_remote_navigation), clear_stale_pane_selection)
    IN  After(After(After(After(After(taken, DrainAnswers), QueueExpansion), AdoptExpansion),
                    QueuePreferences), QueueNavigation)

\* Mutant: requests about rows the daemon does not have are carried out.
M_apply_intent(d, q) ==
    CASE q.op = "set" -> [d EXCEPT !.prefs[q.field] = q.value]
      [] q.op = "expand" -> [d EXCEPT !.over = IF q.over THEN @ \cup {q.row} ELSE @ \ {q.row}]
      [] q.op = "pin" -> [d EXCEPT !.pins = IF q.on THEN @ \cup {q.pane} ELSE @ \ {q.pane}]
      [] q.op = "order" -> d

(***************************************************************************)
(* The daemon's side of the requests.                                      *)
(***************************************************************************)
\* Requests about rows the daemon does not have are accepted and do nothing.
apply_intent(d, q) ==
    LET known == d.panes \cup (IF d.panes = {} THEN {} ELSE {RepoRow})
    IN  CASE q.op = "set" -> [d EXCEPT !.prefs[q.field] = q.value]
          [] q.op = "expand" /\ q.row \in known ->
                [d EXCEPT !.over = IF q.over THEN @ \cup {q.row} ELSE @ \ {q.row}]
          [] q.op = "pin" /\ q.pane \in d.panes ->
                [d EXCEPT !.pins = IF q.on THEN @ \cup {q.pane} ELSE @ \ {q.pane}]
          [] OTHER -> d

replace_sidebar_navigation(d, sel) ==
    IF d.nav.sel = sel THEN d ELSE [d EXCEPT !.nav = [rev |-> @.rev + 1, sel |-> sel]]

\* Marking complete is fenced by the version, acknowledging by the order.
MarkComplete(d, q) ==
    IF q.pane \in d.panes /\ d.ver[q.pane] = q.ver
    THEN [d EXCEPT !.ver[q.pane] = @ + 1, !.marked = @ \cup {q}] ELSE d
AckQuestionNotice(d, q) ==
    IF q.pane \in d.panes /\ q.order > d.acked[q.pane] THEN [d EXCEPT !.acked[q.pane] = q.order]
    ELSE d

Applied(d, w, t, q) ==
    CASE w \in {"pref", "pin"} -> apply_intent(d, q)
      [] w = "nav"  -> replace_sidebar_navigation(d, q)
      [] w = "mark" -> MarkComplete(d, q)
      [] w = "ack"  -> AckQuestionNotice(d, q)
      [] w = "cat"  -> [d EXCEPT !.cats = IF q = 0 THEN @ ELSE @ \cup {<<t, q>>}]

Answer(w, q, ok) ==
    CASE w \in {"pin", "mark"} -> [pane |-> q.pane, ok |-> ok]
      [] w = "cat" -> [id |-> q, ok |-> ok]
      [] OTHER -> [request |-> q, ok |-> ok]

(***************************************************************************)
(* Init and the actions.                                                   *)
(***************************************************************************)
NoPrefs == [f \in PrefField |-> 0]
NewTui ==
    [seeded |-> FALSE, conn |-> "connecting", snap |-> <<>>, prefs |-> NoPrefs, over |-> {},
     sel |-> NoRow, queuedPrefs |-> NoPrefs, remotePrefs |-> NoPrefs, expView |-> {},
     remoteExp |-> <<>>, navRev |-> 0, queuedNav |-> <<>>, dirty |-> TRUE, drawn |-> <<>>,
     known |-> <<>>, target |-> <<>>, acking |-> FALSE, marks |-> {}, pinning |-> {},
     dialog |-> [phase |-> "none", id |-> 0], nextId |-> 1, ready |-> FALSE,
     jobs |-> [w \in Worker |-> <<>>], answers |-> [w \in Worker |-> <<>>]]

NewDaemon ==
    [prefs |-> NoPrefs, over |-> {}, pins |-> {}, nav |-> [rev |-> 0, sel |-> NoRow],
     panes |-> SbPane, ver |-> [p \in SbPane |-> 0], asked |-> [p \in SbPane |-> 0],
     acked |-> [p \in SbPane |-> 0], degraded |-> FALSE, cats |-> {}, marked |-> {}]

TuiInit ==
    /\ hub = NewDaemon
    /\ saved = Saved(NewDaemon)
    /\ feed = [t \in Tui |-> [snap |-> <<>>, conn |-> "connecting"]]
    /\ tui = [t \in Tui |-> NewTui]
    /\ seen = [p \in SbPane |-> 0]
    /\ spent = [keys |-> 0, world |-> 0, loss |-> 0, restarts |-> 0]

Spend(kind) == spent' = [spent EXCEPT ![kind] = @ + 1]

\* What the sidebars are sent: the ghosts are not part of it.
Snapshot == [hub EXCEPT !.cats = {}, !.marked = {}, !.degraded = FALSE]
ConnOf == IF hub.degraded THEN "degraded" ELSE "connected"

\* The subscription delivers the newest snapshot; older ones are superseded.
Publish(t) ==
    /\ feed[t] # [snap |-> <<Snapshot>>, conn |-> ConnOf]
    /\ feed' = [feed EXCEPT ![t] = [snap |-> <<Snapshot>>, conn |-> ConnOf]]
    /\ UNCHANGED <<hub, saved, tui, seen, spent>>

\* Ghost: the newest question a frame showed on the selected row.
Watched(s) ==
    [p \in SbPane |-> IF s.target # <<>> /\ s.target[1].pane = p /\ s.target[1].order > seen[p]
                      THEN s.target[1].order ELSE seen[p]]

\* One turn of the loop up to the terminal event, with or without a control
\* message to take.
run_loop(t, messages) ==
    /\ feed[t].snap # <<>>
    /\ \E s \in Merged(drain_snapshot_updates(tui[t], feed[t]), t) :
       \E a \in {Draw(drain_control_messages(s, k)) : k \in messages}
                  \cup (IF messages = {} THEN {Draw(s)} ELSE {}) :
          /\ tui' = [tui EXCEPT ![t] = [a EXCEPT !.ready = TRUE]]
          /\ seen' = Watched(a)
    /\ UNCHANGED <<hub, saved, feed>>

QuietTurn(t) == run_loop(t, {}) /\ UNCHANGED spent
ControlTurn(t) == spent.keys < MaxKeys /\ run_loop(t, ControlKey) /\ Spend("keys")

\* The terminal event read at the end of a turn.
ReadEvent(t) ==
    LET s == tui[t] IN
    /\ s.ready /\ spent.keys < MaxKeys
    /\ \E k \in Key :
          LET a == IF s.dialog.phase # "none" THEN handle_category_edit_key(s, k) ELSE Press(s, k)
          IN  /\ a # s
              /\ tui' = [tui EXCEPT ![t] = [Dirty(a, Changed(s, a)) EXCEPT !.ready = FALSE]]
    /\ Spend("keys")
    /\ UNCHANGED <<hub, saved, feed, seen>>

\* What a worker does after a request it could not finish: the preferences
\* and the selections that wait behind it are dropped, category requests
\* are answered as cancelled.
AfterFailure(w, rest) ==
    CASE w \in {"pref", "nav"} -> [jobs |-> <<>>, answers |-> <<>>]
      [] w = "cat" -> [jobs |-> <<>>, answers |-> [i \in DOMAIN rest |-> Answer("cat", rest[i], FALSE)]]
      [] OTHER -> [jobs |-> rest, answers |-> <<>>]

\* The selection worker sends only the newest request.
RequestOf(w, queue) == IF w = "nav" THEN queue[Len(queue)] ELSE queue[1]
RestOf(w, queue) == IF w = "nav" THEN <<>> ELSE Tail(queue)

\* A request that is answered; one about an old version is answered as stale.
Serve(t, w) ==
    LET queue == tui[t].jobs[w]
        q     == RequestOf(w, queue)
        after == Applied(hub, w, t, q)
        fine  == w = "mark" => after # hub
    IN  /\ queue # <<>>
        /\ hub' = after
        /\ saved' = IF w \in {"pref", "pin"} THEN Saved(after) ELSE saved
        /\ tui' = [tui EXCEPT ![t].jobs[w] = RestOf(w, queue),
                              ![t].answers[w] = Append(@, Answer(w, q, fine))]
        /\ UNCHANGED <<feed, seen, spent>>

\* The selection that fails may be an older one: what came behind it while it
\* was sent is then dropped with it.
Failing(w, queue) == IF w = "nav" THEN DOMAIN queue ELSE {1}

\* A request that fails, is refused, or is applied and its answer lost.  A
\* preference file may have been replaced although its save failed.
ServeFails(t, w) ==
    LET queue == tui[t].jobs[w]
        then  == AfterFailure(w, RestOf(w, queue))
    IN  /\ queue # <<>> /\ spent.loss < MaxLoss
        /\ \E i \in Failing(w, queue) :
              LET after == Applied(hub, w, t, queue[i])
                  file  == IF w \in {"pref", "pin"} THEN Saved(after) ELSE saved
              IN  /\ \E out \in {<<hub, saved>>, <<hub, file>>, <<after, file>>} :
                        hub' = out[1] /\ saved' = out[2]
                  /\ tui' = [tui EXCEPT ![t].jobs[w] = then.jobs,
                                        ![t].answers[w] =
                                            Append(@, Answer(w, queue[i], FALSE)) \o then.answers]
        /\ Spend("loss")
        /\ UNCHANGED <<feed, seen>>

\* The subscription ends and is opened again by the next Publish.
Drop(t) ==
    /\ spent.loss < MaxLoss /\ feed[t].conn # "connecting"
    /\ feed' = [feed EXCEPT ![t].conn = "disconnected"]
    /\ Spend("loss")
    /\ UNCHANGED <<hub, saved, tui, seen>>

\* The rest of the daemon: a pane's record changes, a pane asks, a pane
\* goes and its pin with it, a diagnostic comes or goes.
World ==
    /\ spent.world < MaxWorld
    /\ \/ \E p \in hub.panes : hub' = [hub EXCEPT !.ver[p] = @ + 1] /\ UNCHANGED saved
       \/ \E p \in hub.panes :
             hub' = [hub EXCEPT !.ver[p] = @ + 1, !.asked[p] = @ + 1] /\ UNCHANGED saved
       \/ \E p \in hub.panes :
             /\ hub' = [hub EXCEPT !.panes = @ \ {p}, !.pins = @ \ {p}]
             /\ saved' = Saved(hub')
       \/ hub' = [hub EXCEPT !.degraded = ~@] /\ UNCHANGED saved
    /\ Spend("world")
    /\ UNCHANGED <<feed, tui, seen>>

\* The preferences come back from the file; the selection and its revision
\* were never saved.
RestartDaemon ==
    /\ spent.restarts < MaxRestarts
    /\ LET pins == saved.pins \cap hub.panes
           back == [hub EXCEPT !.prefs = saved.prefs, !.over = saved.over, !.pins = pins,
                                  !.nav = NewDaemon.nav, !.degraded = FALSE]
       IN  hub' = back /\ saved' = Saved(back)
    /\ feed' = [t \in Tui |-> [feed[t] EXCEPT !.conn = IF @ = "connecting" THEN @ ELSE "disconnected"]]
    /\ Spend("restarts")
    /\ UNCHANGED <<tui, seen>>

TuiNext ==
    \/ \E t \in Tui : Publish(t) \/ QuietTurn(t) \/ ControlTurn(t) \/ ReadEvent(t) \/ Drop(t)
    \/ \E t \in Tui, w \in Worker : Serve(t, w) \/ ServeFails(t, w)
    \/ World \/ RestartDaemon

\* The loops turn, the workers work and the subscriptions deliver.
TuiProgress(t) ==
    Publish(t) \/ QuietTurn(t) \/ \E w \in Worker : Serve(t, w)

TuiFairness == \A t \in Tui : WF_tuiVars(TuiProgress(t))
TuiSpec == TuiInit /\ [][TuiNext]_tuiVars /\ TuiFairness

-----------------------------------------------------------------------------
(***************************************************************************)
(* Properties.                                                             *)
(***************************************************************************)
\* Whenever a connected loop reads a terminal event, the rows on the screen are the rows the event
\* will be looked up in ("click hit-testing must use exactly what was drawn"), whatever arrived since
\* the last frame.  (Without a connection the loop undoes an expansion and does not redraw.)
DrawnIsCurrent ==
    \A t \in Tui : tui[t].ready /\ tui[t].conn = "connected" => tui[t].drawn = <<project_view(tui[t])>>

\* A question is only acknowledged up to what some sidebar had drawn, with the pane selected.
AckOnlyShown == \A p \in SbPane : hub.acked[p] <= seen[p]

\* A pin request that races with its pane's end leaves no pin behind.
PinsArePanes == hub.pins \subseteq hub.panes

\* The sidebars never show or act on something their user could not see.
SidebarSound == DrawnIsCurrent /\ AckOnlyShown /\ PinsArePanes

\* A category dialog closes by itself only when the daemon saved its own request, and a preference
\* its user changed and the loop has not sent yet is not undone by a turn that takes no further key.
UserInputKept ==
    [][\A t \in Tui :
        LET s == tui[t] IN
        /\ (s.dialog.phase = "saving" /\ tui'[t].dialog.phase = "none")
              => <<t, s.dialog.id>> \in hub.cats
        /\ (s.seeded /\ ~s.ready /\ tui'[t].ready /\ spent' = spent)
              => \A f \in PrefField : s.prefs[f] # s.queuedPrefs[f] => tui'[t].prefs[f] = s.prefs[f]
      ]_tuiVars

\* A dialog that is saving is answered, with any request before it failing, and every change of the
\* selection reaches every sidebar if no request is lost and the daemon is not restarted.
DialogAnswered == \A t \in Tui : (tui[t].dialog.phase = "saving") ~> (tui[t].dialog.phase # "saving")
SelectionSpreads ==
    <>[](\/ spent.loss > 0 \/ spent.restarts > 0 \/ hub.degraded
         \/ \A t \in Tui : tui[t].sel = hub.nav.sel)
SidebarsSettle == DialogAnswered /\ SelectionSpreads

\* README.md:284: "Scope, presentation, filter, manual order, expansion, selection, and scrolling are
\* shared by all sidebars on the same tmux server."
SelectionShared == <>[](hub.degraded \/ \A t, u \in Tui : tui[t].sel = tui[u].sel)
=============================================================================
