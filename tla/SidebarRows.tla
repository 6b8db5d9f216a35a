---------------------------- MODULE SidebarRows ----------------------------
(***************************************************************************)
(* The rows a sidebar shows (sidebar/tree.rs project_sidebar), from the    *)
(* panes, the categories of Categories and the view its user chose, and    *)
(* the requests that depend on the rows (sidebar/state.rs).                *)
(*                                                                         *)
(* A row is [id, kind, depth, count]; its label and colours are left out.  *)
(* The detail rows under an expanded agent are its question, if it has     *)
(* one, and one row for the rest of its data.                              *)
(***************************************************************************)
EXTENDS Categories

CONSTANTS
    Agent,        \* agent panes, numbers: their pane ids
    AgentRepo,    \* Agent -> RepoKey
    SidebarRepo,  \* the repository of the sidebar's own session
    MaxPaneSteps, \* bound: changes of the panes
    MaxViewKeys,  \* bound: keys
    MaxAt         \* bound: activity times

ASSUME RowsAssumption ==
    Agent \subseteq Nat /\ AgentRepo \in [Agent -> RepoKey] /\ {MaxPaneSteps, MaxViewKeys, MaxAt} \subseteq Nat

VARIABLES
    pane,   \* Agent -> [badge, ask, at, triage, more]
    view,   \* the sidebar's state
    prefs,  \* [pins, manual] of the preferences
    rowSpent

rowVars == <<pane, view, prefs, rowSpent>>

Badge == <<"blocked", "limited", "working", "done", "unknown", "idle">>
chat_sort_bucket(p) == Position(Badge, pane[p].badge)
pane_matches_attention_filter(p) == pane[p].badge = "blocked" \/ pane[p].ask

FilterOrder == <<"all", "attention", "limited", "working", "done", "idle">>
matches_filter(p, f) ==
    CASE f = "all" -> TRUE
      [] f = "attention" -> pane_matches_attention_filter(p)
      [] OTHER -> pane[p].badge = f

CategoryOf(p) == resolve_membership(catCfg.active, cat, AgentRepo[p])

\* Lexicographic order of equally long tuples of numbers.
Less(s, t) == \E i \in DOMAIN s : s[i] < t[i] /\ \A j \in 1..i - 1 : s[j] = t[j]
Flag(b) == IF b THEN 0 ELSE 1
AtEnd == 99

manual_position(p) == IF p \in Range(prefs.manual) THEN Position(prefs.manual, p) ELSE AtEnd

\* Pinned first, then the badge, then the latest activity.
compare_agent_panes(p, q) ==
    LET pinned(a) == a \in prefs.pins
        key(a) == <<Flag(pinned(a)), IF pinned(a) THEN manual_position(a) ELSE 0, chat_sort_bucket(a),
                    MaxAt - pane[a].at, manual_position(a), a>>
    IN  Less(key(p), key(q))
order_agent_panes(S) == SetToSortSeq(S, compare_agent_panes)

(***************************************************************************)
(* Rows.                                                                   *)
(***************************************************************************)
Row(id, kind, depth, count) == [id |-> id, kind |-> kind, depth |-> depth, count |-> count]
is_expanded(v, id) == id \notin v.collapsed

push_chat_detail_rows(p, depth) ==
    LET kinds == (IF pane[p].ask THEN <<"question">> ELSE <<>>) \o (IF pane[p].more THEN <<"rest">> ELSE <<>>)
    IN  [i \in DOMAIN kinds |-> Row(<<"detail", p, kinds[i]>>, "detail", depth, 0)]

push_chat_row(v, p, depth, extra) ==
    <<Row(<<"chat", p>>, "chat", depth, 1)>>
    \o (IF <<"chat", p>> \in v.collapsed THEN extra \o push_chat_detail_rows(p, depth + 1) ELSE <<>>)

ChatRows(v, panes, depth) == FlattenSeq([i \in DOMAIN panes |-> push_chat_row(v, panes[i], depth, <<>>)])

order_repo_groups(groups, v) ==
    LET at(g) == IF g[2] \in Range(StoredOrder(cat, g[1])) THEN Position(StoredOrder(cat, g[1]), g[2]) ELSE AtEnd
        pinned(g) == \E p \in g[3] : p \in prefs.pins
        key(g) == <<Flag(pinned(g)), at(g), g[1], g[2]>>
    IN  SetToSortSeq(groups, LAMBDA a, b : Less(key(a), key(b)))

\* A group is <<category, repository, its panes>>.
repo_rows(groups, v, depth) ==
    LET sorted == order_repo_groups(groups, v)
        id(g) == <<"repo", g[1], g[2]>>
        part(g) == <<Row(id(g), "repo", depth, Cardinality(g[3]))>>
                   \o (IF is_expanded(v, id(g)) THEN ChatRows(v, order_agent_panes(g[3]), depth + 1) ELSE <<>>)
    IN  [i \in DOMAIN sorted |-> [group |-> sorted[i], rows |-> part(sorted[i])]]

Joined(chunks) == FlattenSeq([i \in DOMAIN chunks |-> chunks[i].rows])

\* With the All filter every repository of the category has a row, in the
\* category's order; the pinned ones come first, and get an empty row too.
merge_category_repository_rows(n, chunks, v) ==
    LET pinned(k) == \E p \in k.group[3] : p \in prefs.pins
        rest == SelectSeq(chunks, LAMBDA k : ~pinned(k))
        all  == ordered_repos(catCfg.active, cat, knownCategory, n)
        slot(r) == LET at == {i \in DOMAIN rest : rest[i].group[2] = r}
                   IN  IF at # {} THEN rest[CHOOSE i \in at : TRUE].rows
                       ELSE <<Row(<<"repo", n, r>>, "repo", 1, 0)>>
        others == SelectSeq(rest, LAMBDA k : k.group[2] \notin Range(all))
    IN  IF v.filter # "all" THEN Joined(chunks)
        ELSE Joined(SelectSeq(chunks, pinned)) \o FlattenSeq([i \in DOMAIN all |-> slot(all[i])])
             \o Joined(others)

category_rows(groups, v) ==
    LET order == effective_category_order(catCfg.active, cat)
        names == {g[1] : g \in groups} \cup (IF v.filter = "all" THEN Range(order) ELSE {})
        panes(n) == UNION {g[3] : g \in {h \in groups : h[1] = n}}
        pinned(n) == \E p \in panes(n) : p \in prefs.pins
        key(n) == <<Flag(pinned(n)), Position(order, n)>>
        sorted == SetToSortSeq(names, LAMBDA a, b : Less(key(a), key(b)))
        chunks(n) == repo_rows({g \in groups : g[1] = n}, v, 1)
        part(n) == <<Row(<<"category", n>>, "category", 0, Cardinality(panes(n)))>>
                   \o (IF is_expanded(v, <<"category", n>>)
                       THEN merge_category_repository_rows(n, chunks(n), v) ELSE <<>>)
    IN  FlattenSeq([i \in DOMAIN sorted |-> part(sorted[i])])

Zone(v, name, panes, extra) ==
    IF panes = <<>> THEN <<>>
    ELSE <<Row(<<"zone", name>>, "zone", 0, Len(panes))>>
         \o FlattenSeq([i \in DOMAIN panes |-> push_chat_row(v, panes[i], 1, extra[panes[i]])])

triage_zone_rows(v, panes) ==
    LET origin == [p \in Agent |-> <<Row(<<"detail", p, "origin">>, "detail", 2, 0)>>]
    IN  Zone(v, "triage", panes, origin)

Sections == <<"pinned", "blocked", "questions", "limited", "done", "working", "unknown", "idle">>
\* Mutant: a question is in its section and in that of its badge.
M_InSection(p, key) ==
    CASE key = "pinned" -> p \in prefs.pins
      [] key = "questions" -> p \notin prefs.pins /\ pane[p].ask /\ pane[p].badge # "blocked"
      [] OTHER -> p \notin prefs.pins /\ pane[p].badge = key

InSection(p, key) ==
    CASE key = "pinned" -> p \in prefs.pins
      [] key = "questions" -> p \notin prefs.pins /\ pane[p].ask /\ pane[p].badge # "blocked"
      [] OTHER -> p \notin prefs.pins /\ pane[p].badge = key /\ (key = "blocked" \/ ~pane[p].ask)

priority_rows(v, panes) ==
    LET sorted == order_agent_panes(panes)
        none == [p \in Agent |-> <<>>]
        section(key) == Zone(v, key, SelectSeq(sorted, LAMBDA p : InSection(p, key)), none)
    IN  FlattenSeq([i \in DOMAIN Sections |-> section(Sections[i])])

flat_rows(v, panes) == ChatRows(v, order_agent_panes(panes), 0)

InScope(v) == {p \in Agent : v.scope = "current" => CategoryOf(p) = v.category}

badge_counts(v, f) == Cardinality({p \in InScope(v) : matches_filter(p, f)})

\* Agents that need triage leave their place for the zone at the top, unless
\* they are pinned.
build_rows_from_groups(v) ==
    LET scope  == InScope(v)
        match(S) == {p \in S : matches_filter(p, v.filter)}
        triage == {p \in scope : pane[p].triage /\ p \notin prefs.pins}
        fleet  == match(scope \ triage)
        groups == {<<n, r, {p \in fleet : CategoryOf(p) = n /\ AgentRepo[p] = r}>> :
                      n \in AllCats, r \in RepoKey}
        full   == {g \in groups : g[3] # {}}
        zone   == triage_zone_rows(v, order_agent_panes(match(triage)))
    IN  CASE v.mode = "priority" -> priority_rows(v, match(scope))
          [] v.mode = "flat" -> zone \o flat_rows(v, fleet)
          [] v.mode = "tree" /\ v.scope = "current" -> zone \o Joined(repo_rows(full, v, 0))
          [] OTHER -> zone \o category_rows(full, v)

Ids(rows) == {rows[i].id : i \in DOMAIN rows}
row_refs(rows) == SelectSeq(rows, LAMBDA r : r.kind \notin {"detail", "zone"})

(***************************************************************************)
(* Keys and requests.                                                      *)
(***************************************************************************)
\* The daemon knows the rows of a sidebar that shows everything.
DefaultView == [scope |-> "all", mode |-> "tree", filter |-> "all", collapsed |-> {},
                category |-> Uncategorized, sel |-> <<>>]

move_selection(v, rows, down) ==
    LET here == {i \in DOMAIN rows : rows[i].id = v.sel}
        last == Len(rows)
        next == IF here = {} THEN (IF down THEN 1 ELSE last)
                ELSE LET i == Min(here)
                     IN  IF down THEN (IF i < last THEN i + 1 ELSE i) ELSE (IF i > 1 THEN i - 1 ELSE i)
    IN  IF rows = <<>> THEN v ELSE [v EXCEPT !.sel = rows[next].id]

toggle_expanded(v, id) ==
    [v EXCEPT !.sel = id, !.collapsed = IF id \in @ THEN @ \ {id} ELSE @ \cup {id}]

filter_is_available(v, f) == f = "all" \/ badge_counts(v, f) > 0

\* Mutant: filters that no agent matches are not passed over.
M_cycle_filter(v, forward) ==
    LET n == Len(FilterOrder)
        i == Position(FilterOrder, v.filter)
    IN  [v EXCEPT !.filter = FilterOrder[(IF forward THEN i % n ELSE (i + n - 2) % n) + 1]]

\* The next filter that some agent in scope matches.
cycle_filter(v, forward) ==
    LET n == Len(FilterOrder)
        from == Position(FilterOrder, v.filter)
        step(k) == FilterOrder[((IF forward THEN from - 1 + k ELSE from - 1 + n * k - k) % n) + 1]
        ok(k) == filter_is_available(v, step(k))
    IN  [v EXCEPT !.filter = step(CHOOSE k \in 1..n : ok(k) /\ \A j \in 1..k - 1 : ~ok(j))]

focus_attention(v, rows, forward) ==
    LET chats == SelectSeq(rows, LAMBDA r : r.kind = "chat" /\ pane_matches_attention_filter(r.id[2]))
        n == Len(chats)
        here == {i \in DOMAIN chats : chats[i].id = v.sel}
        i == IF here = {} THEN (IF forward THEN n ELSE 1) ELSE CHOOSE j \in here : TRUE
    IN  IF n = 0 THEN v
        ELSE [v EXCEPT !.sel = chats[IF forward THEN (i % n) + 1 ELSE ((i + n - 2) % n) + 1].id]

move_relative_chat(order, p, q, up) ==
    LET rest == Without(order, p)
        j == Position(rest, q)
    IN  IF j # 0 THEN InsertAt(rest, IF up THEN j ELSE j + 1, p)
        ELSE rest \o (IF up THEN <<p, q>> ELSE <<q, p>>)

\* An agent is moved past the agent the sidebar shows next to it.
MoveChat(v, rows, up) ==
    LET chats == SelectSeq(rows, LAMBDA r : r.kind = "chat")
        here == {i \in DOMAIN chats : chats[i].id = v.sel}
        i == CHOOSE j \in here : TRUE
        j == IF up THEN i - 1 ELSE i + 1
    IN  IF v.filter # "all" \/ here = {} \/ j \notin DOMAIN chats THEN prefs
        ELSE [prefs EXCEPT !.manual = move_relative_chat(@, chats[i].id[2], chats[j].id[2], up)]

\* Scope follows the category of the sidebar's own session.
refresh_current_category(v, cfg, c) == [v EXCEPT !.category = resolve_membership(cfg, c, SidebarRepo)]

RowSpend(kind, bound) == rowSpent[kind] < bound /\ rowSpent' = [rowSpent EXCEPT ![kind] = @ + 1]

RowsInit ==
    /\ CatInit
    /\ pane \in [Agent -> {[badge |-> "idle", ask |-> FALSE, at |-> 0, triage |-> FALSE, more |-> TRUE]}]
    /\ view = refresh_current_category(DefaultView, catCfg.active, cat) /\ prefs = [pins |-> {}, manual |-> <<>>]
    /\ rowSpent = [panes |-> 0, keys |-> 0]

\* A pane's state changes: triage is the daemon's attention zone, which an
\* agent enters when it starts to need its user and leaves later.
PaneChanges ==
    /\ RowSpend("panes", MaxPaneSteps)
    /\ \E p \in Agent, b \in Range(Badge), ask \in BOOLEAN, t \in BOOLEAN :
          /\ t => pane[p].triage \/ b = "blocked"
          /\ pane' = [pane EXCEPT ![p] = [@ EXCEPT !.badge = b, !.ask = ask, !.triage = t,
                                                   !.at = IF @ < MaxAt THEN @ + 1 ELSE @]]
    /\ UNCHANGED <<view, prefs>>

ViewKey ==
    /\ RowSpend("keys", MaxViewKeys)
    /\ \E rows \in {build_rows_from_groups(view)}, down \in BOOLEAN :
         view' \in {move_selection(view, row_refs(rows), down), focus_attention(view, rows, down),
                   cycle_filter(view, down)}
                 \cup {toggle_expanded(view, id) : id \in Ids(row_refs(rows))}
                 \cup {[view EXCEPT !.filter = f] : f \in {g \in Range(FilterOrder) : filter_is_available(view, g)}}
                 \cup {[view EXCEPT !.mode = m] : m \in {"tree", "priority", "flat"}}
                 \cup {[view EXCEPT !.scope = s] : s \in {"all", "current"}}
    /\ UNCHANGED <<pane, prefs>>

\* Pinning and moving an agent are refused when the daemon has no row for it.
PreferenceKey ==
    /\ RowSpend("keys", MaxViewKeys)
    /\ \/ \E p \in Agent : /\ <<"chat", p>> \in Ids(build_rows_from_groups(DefaultView))
                           /\ prefs' = [prefs EXCEPT !.pins = IF p \in @ THEN @ \ {p} ELSE @ \cup {p}]
       \/ \E up \in BOOLEAN : prefs' = MoveChat(view, build_rows_from_groups(view), up)
    /\ UNCHANGED <<pane, view>>

CategoryStep ==
    /\ CatNext /\ UNCHANGED <<pane, prefs, rowSpent>>
    /\ view' = refresh_current_category(view, catCfg'.active, cat')

RowsNext == CategoryStep \/ ((PaneChanges \/ ViewKey \/ PreferenceKey) /\ UNCHANGED catVars)

RowsSpec == RowsInit /\ [][RowsNext]_<<catVars, rowVars>>

-----------------------------------------------------------------------------
(***************************************************************************)
(* Properties.                                                             *)
(***************************************************************************)
Shown == build_rows_from_groups(view)
ChatsOf(rows) == SelectSeq(rows, LAMBDA r : r.kind = "chat")

\* An agent is hidden by its filter and scope, or by a closed row above it, and by nothing else:
\* whatever is pinned, needs triage or asks, it has exactly one row.
Visible(p) ==
    /\ p \in InScope(view) /\ matches_filter(p, view.filter)
    /\ (view.mode = "tree" /\ ~(pane[p].triage /\ p \notin prefs.pins)) =>
          /\ <<"repo", CategoryOf(p), AgentRepo[p]>> \notin view.collapsed
          /\ view.scope = "all" => <<"category", CategoryOf(p)>> \notin view.collapsed
EveryAgentOnce(rows) ==
    /\ IsInjective(ChatsOf(rows))
    /\ Ids(ChatsOf(rows)) = {<<"chat", p>> : p \in {q \in Agent : Visible(q)}}

\* The rows form a tree: a row is at most one level below the row before it, and a detail row is
\* below its own agent.
TreeShaped(rows) ==
    \A i \in DOMAIN rows :
        /\ rows[i].depth > 0 => i > 1 /\ rows[i - 1].depth >= rows[i].depth - 1
        /\ rows[i].kind = "detail" => \E j \in 1..i - 1 : rows[j].id = <<"chat", rows[i].id[2]>>

\* The number on a zone, category or repository is the number of agents below it, when all the rows
\* below it are open.
Below(rows, i) ==
    LET ends == {j \in i + 1..Len(rows) : rows[j].depth <= rows[i].depth} \cup {Len(rows) + 1}
    IN  i + 1..Min(ends) - 1
CountsAddUp(rows) ==
    \A i \in DOMAIN rows :
        LET below == Below(rows, i)
            closed == \E j \in below \cup {i} : rows[j].kind # "chat" /\ rows[j].id \in view.collapsed
        IN  (rows[i].kind \notin {"detail", "chat"} /\ ~closed)
                => rows[i].count = Cardinality({j \in below : rows[j].kind = "chat"})

\* README.md:270: pinned agents come first in Priority and Flat (after the triage zone), and in each
\* repository of the tree.
PinnedFirst(rows) ==
    LET chats == ChatsOf(rows)
        zone(p) == view.mode # "priority" /\ pane[p].triage /\ p \notin prefs.pins
    IN  \A i, j \in DOMAIN chats :
          LET p == chats[i].id[2]
              q == chats[j].id[2]
              together == view.mode # "tree" \/ AgentRepo[p] = AgentRepo[q]
          IN  (p \in prefs.pins /\ q \notin prefs.pins /\ ~zone(q) /\ together) => i < j

\* What a user reads off the rows is true of the agents.
RowsSound ==
    LET rows == Shown IN EveryAgentOnce(rows) /\ TreeShaped(rows) /\ CountsAddUp(rows) /\ PinnedFirst(rows)

\* Cycling never ends on a filter without agents, so the list it leaves the user with is not empty.
FilterShowsSomething ==
    [][(view'.filter # view.filter /\ view'.filter # "all") => badge_counts(view, view'.filter) > 0]_rowVars

\* sidebar/tree.rs:2790-2797 (and README.md:270): with a pinned agent the tree of all categories lists
\* each repository once.
RepositoriesOnce ==
    LET repos == SelectSeq(Shown, LAMBDA r : r.kind = "repo")
    IN  IsInjective([i \in DOMAIN repos |-> repos[i].id])
=============================================================================
