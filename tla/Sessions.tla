------------------------------ MODULE Sessions ------------------------------
(***************************************************************************)
(* The commands that move tmux clients between sessions: category and      *)
(* session cycling with the session each client last used in a category    *)
(* (session/mod.rs), the project selector (project/mod.rs), the session    *)
(* manager's switch, create and kill (session_manager/mod.rs) and the      *)
(* clicks and keys of the status line, which name what was drawn            *)
(* (statusline/navigation.rs).  A command is a sequence of tmux calls;     *)
(* other clients, the hook of a session change and the user come between.  *)
(* Sessions are listed by name, categories in their configured order.      *)
(* The manager's Kill Server (session_manager/kill_server.rs) has state of *)
(* its own and the last section of the module.                             *)
(***************************************************************************)
EXTENDS Naturals, Sequences, SequencesExt, FiniteSets, FiniteSetsExt

CONSTANTS
    SClient,      \* tmux clients
    SName,        \* names of sessions, ordered
    SCategory,    \* categories, ordered; 0 is uncategorized
    MemoryKey,    \* SCategory -> client_memory_key; two categories may share one
    SWindow,      \* windows of a session
    MaxNavs,      \* bound: commands
    MaxShifts     \* bound: placements changed and sessions ended by others

ASSUME SessionsAssumption ==
    /\ IsFiniteSet(SName) /\ SName \subseteq Nat \ {0} /\ SCategory \subseteq Nat /\ 0 \in SCategory
    /\ DOMAIN MemoryKey = SCategory /\ {MaxNavs, MaxShifts} \subseteq Nat
    /\ SWindow # {} /\ SWindow \subseteq Nat \ {0}

VARIABLES
    sessions,   \* SName -> its windows ({}: no such session), whether it has a project path, its mirror
    placement,  \* SName -> the category of the project of that name
    attached,   \* SClient -> session it shows; 0: detached
    memory,     \* SClient -> what @vde_client_<client>_<key> holds; 0: nothing
    changed,    \* SClient -> client-session-changed hooks in tmux's queue
    nav,        \* SClient -> its command
    drawn,      \* the sessions of a status line as last drawn
    navUsed

sessionVars == <<sessions, placement, attached, memory, changed, nav, drawn, navUsed>>

NoSession == [wins |-> {}, path |-> FALSE, mirror |-> <<>>]
NoNav == [at |-> "idle", op |-> "none", arg |-> 0, listed |-> {}, cats |-> [s \in SName |-> 0],
          target |-> 0, kills |-> {}, spared |-> {}]

Exists(s) == sessions[s].wins # {}
Living == {s \in SName : Exists(s)}
\* resolve_session_categories: a session without a project path is uncategorized.
resolve_session_categories == [s \in SName |-> IF sessions[s].path THEN placement[s] ELSE 0]
SortedNames(S) == SetToSortSeq(S, <)
SessionAt(c, a) == nav[c].at = a
NavGoto(c, r, a) == nav' = [nav EXCEPT ![c] = [r EXCEPT !.at = a]]
NavFails(c) == nav' = [nav EXCEPT ![c] = NoNav]

\* sessions_in_category, categories_with_sessions and adjacent_resolved_category over what was listed.
OfCategory(r, k) == {s \in r.listed : r.cats[s] = k}
InCategory(r, k) == SortedNames(OfCategory(r, k))
Adjacent(seq, x, dir) ==
    LET i == CHOOSE j \in DOMAIN seq : seq[j] = x
    IN  seq[1 + ((i - 1 + (IF dir = "next" THEN 1 ELSE Len(seq) - 1)) % Len(seq))]

list_sessions(c, op, arg) ==
    /\ SessionAt(c, "idle") /\ attached[c] # 0
    /\ navUsed.navs < MaxNavs /\ navUsed' = [navUsed EXCEPT !.navs = @ + 1]
    /\ NavGoto(c, [NoNav EXCEPT !.op = op, !.arg = arg, !.listed = Living, !.cats = resolve_session_categories],
               "listed")
    /\ UNCHANGED <<sessions, placement, attached, memory, changed, drawn>>

\* The session this client last used there, if it still is one of that category; otherwise the first.
use_category_for_client_from_sessions(c, r, k) ==
    LET remembered == memory[c][MemoryKey[k]]
        there == OfCategory(r, k)
    IN  IF remembered \in there THEN {remembered}
        ELSE {s \in there : \A x \in there : s <= x}

cycle_session_resolved(c, r) ==
    IF attached[c] \notin r.listed THEN {}
    ELSE {Adjacent(InCategory(r, r.cats[attached[c]]), attached[c], r.arg)}

use_adjacent_category_resolved(c, r) ==
    IF attached[c] \notin r.listed THEN {}
    ELSE LET occupied == SetToSortSeq({r.cats[s] : s \in r.listed}, <)
         IN  use_category_for_client_from_sessions(c, r, Adjacent(occupied, r.cats[attached[c]], r.arg))

\* Where the command is going.
Choose(c) ==
    LET r == nav[c]
        to == CASE r.op = "category" -> use_category_for_client_from_sessions(c, r, r.arg)
                [] r.op = "adjacent" -> use_adjacent_category_resolved(c, r)
                [] r.op = "cycle"    -> cycle_session_resolved(c, r)
                [] r.op = "select"   -> {r.arg}
    IN  /\ SessionAt(c, "listed") /\ r.op \in {"category", "adjacent", "cycle", "select"}
        /\ IF to = {} THEN NavFails(c)
           ELSE nav' = [nav EXCEPT ![c].target = CHOOSE s \in to : TRUE, ![c].at = "switch"]
        /\ UNCHANGED <<sessions, placement, attached, memory, changed, drawn, navUsed>>

\* switch-client -c client -t =name: ; it fails if the session is gone.  tmux queues the hook.
switch_client_for_client(c) ==
    /\ SessionAt(c, "switch") /\ UNCHANGED <<sessions, placement, memory, drawn, navUsed>>
    /\ IF attached[c] = 0 \/ nav[c].target \notin Living THEN NavFails(c) /\ UNCHANGED <<attached, changed>>
       ELSE /\ attached' = [attached EXCEPT ![c] = nav[c].target]
            /\ changed' = IF attached[c] = nav[c].target THEN changed
                          ELSE [changed EXCEPT ![c] = Append(@, nav[c].target)]
            /\ IF nav[c].op = "kill" THEN NavGoto(c, nav[c], "kill")
               ELSE IF nav[c].op \in {"cycle", "project", "new"} THEN NavGoto(c, nav[c], "remember") ELSE NavFails(c)

remember_session_for_client(c) ==
    /\ SessionAt(c, "remember") /\ NavFails(c)
    /\ memory' = [memory EXCEPT ![c][MemoryKey[nav[c].cats[nav[c].target]]] = nav[c].target]
    /\ UNCHANGED <<sessions, placement, attached, changed, drawn, navUsed>>

\* switch_project_with_category: the session of the project, made if there is none of that name,
\* gets its project and the mirror of its category; a command that finds it gone fails.
switch_project_with_category(c) ==
    LET r == nav[c]
        s == r.arg
    IN  /\ SessionAt(c, "listed") /\ r.op = "project"
        /\ IF (s \in r.listed) # Exists(s) THEN NavFails(c) /\ UNCHANGED sessions
           ELSE /\ sessions' = [sessions EXCEPT ![s] = [wins |-> IF Exists(s) THEN @.wins ELSE {Min(SWindow)},
                                                        path |-> TRUE, mirror |-> <<placement[s]>>]]
                /\ nav' = [nav EXCEPT ![c].target = s, ![c].cats[s] = placement[s], ![c].at = "switch"]
        /\ UNCHANGED <<placement, attached, memory, changed, drawn, navUsed>>

\* create_session_for_client_resolved: tmux picks the name; the session belongs to the working directory.
create_session_for_client_resolved(c) ==
    /\ SessionAt(c, "listed") /\ nav[c].op = "new"
    /\ \E s \in SName \ Living :
         /\ sessions' = [sessions EXCEPT ![s] = [wins |-> {Min(SWindow)}, path |-> TRUE, mirror |-> <<placement[s]>>]]
         /\ nav' = [nav EXCEPT ![c].target = s, ![c].cats[s] = placement[s], ![c].at = "switch"]
    /\ UNCHANGED <<placement, attached, memory, changed, drawn, navUsed>>

\* create_and_switch_session of the session manager: no project, no mirror.
create_and_switch_session(c) ==
    /\ SessionAt(c, "listed") /\ nav[c].op = "create"
    /\ \E s \in SName \ Living :
         /\ sessions' = [sessions EXCEPT ![s] = [NoSession EXCEPT !.wins = {Min(SWindow)}]]
         /\ nav' = [nav EXCEPT ![c].target = s, ![c].at = "switch"]
    /\ UNCHANGED <<placement, attached, memory, changed, drawn, navUsed>>

(***************************************************************************)
(* kill_selection: sel holds <<session, 0>> for a session's row and        *)
(* <<session, window>> for a window's, and they are killed in the order of *)
(* the rows.  A client in a session it is about to touch is moved away     *)
(* first.                                                                  *)
(***************************************************************************)
kill_selection(c, sel) ==
    LET targets == {e[1] : e \in {x \in sel : x[2] = 0}}
        affected == {e[1] : e \in sel}
        spared == nav[c].listed \ affected
        second == (nav[c].listed \ targets) \ {attached[c]}
        kills == {e \in sel : e[2] = 0 \/ e[1] \notin targets}
        next(fallback) == [nav[c] EXCEPT !.kills = kills, !.spared = spared, !.target = fallback]
    IN  /\ SessionAt(c, "listed") /\ nav[c].op = "kill"
        /\ IF attached[c] \notin affected THEN NavGoto(c, next(0), "kill")
           ELSE IF spared # {} THEN NavGoto(c, next(Min(spared)), "switch")
           ELSE IF second # {} THEN NavGoto(c, next(Min(second)), "switch")
           ELSE NavGoto(c, next(0), "kill")
        /\ UNCHANGED <<sessions, placement, attached, memory, changed, drawn, navUsed>>

\* A session ends with its last window and takes the clients that show it along.
SessionAfter(s, w) == IF w = 0 \/ sessions[s].wins = {w} THEN NoSession ELSE [sessions[s] EXCEPT !.wins = @ \ {w}]
Ended(s, after) == attached' = [d \in SClient |-> IF attached[d] = s /\ after.wins = {} THEN 0 ELSE attached[d]]

RowBefore(a, b) == a[1] < b[1] \/ (a[1] = b[1] /\ a[2] < b[2])
IsThere(e) == Exists(e[1]) /\ (e[2] # 0 => e[2] \in sessions[e[1]].wins)

KillOne(c) ==
    /\ SessionAt(c, "kill") /\ UNCHANGED <<placement, memory, changed, drawn, navUsed>>
    /\ \/ nav[c].kills = {} /\ NavFails(c) /\ UNCHANGED <<sessions, attached>>
       \/ \E e \in nav[c].kills :
            /\ \A f \in nav[c].kills : f = e \/ RowBefore(e, f)
            /\ IF ~IsThere(e) THEN NavFails(c) /\ UNCHANGED <<sessions, attached>>
               ELSE /\ nav' = [nav EXCEPT ![c].kills = @ \ {e}]
                    /\ sessions' = [sessions EXCEPT ![e[1]] = SessionAfter(e[1], e[2])]
                    /\ Ended(e[1], SessionAfter(e[1], e[2]))

(***************************************************************************)
(* The status line: a key or a click names the position or the session     *)
(* that was drawn, which may be long gone.                                 *)
(***************************************************************************)
displayed_targets == drawn
switch_statusline_session(c, i) ==
    /\ SessionAt(c, "idle") /\ attached[c] # 0 /\ i \in DOMAIN displayed_targets
    /\ navUsed.navs < MaxNavs /\ navUsed' = [navUsed EXCEPT !.navs = @ + 1]
    /\ NavGoto(c, [NoNav EXCEPT !.op = "select", !.target = displayed_targets[i]], "switch")
    /\ UNCHANGED <<sessions, placement, attached, memory, changed, drawn>>
cycle_statusline_session(c, dir) ==
    /\ SessionAt(c, "idle") /\ attached[c] # 0 /\ attached[c] \in Range(displayed_targets)
    /\ navUsed.navs < MaxNavs /\ navUsed' = [navUsed EXCEPT !.navs = @ + 1]
    /\ NavGoto(c, [NoNav EXCEPT !.op = "select", !.target = Adjacent(displayed_targets, attached[c], dir)], "switch")
    /\ UNCHANGED <<sessions, placement, attached, memory, changed, drawn>>

(***************************************************************************)
(* The hook, the mirrors and the world.                                    *)
(***************************************************************************)
\* on_client_session_changed: the mirror says under which category; a session without one is an error.
on_client_session_changed(c) ==
    /\ changed[c] # <<>> /\ changed' = [changed EXCEPT ![c] = Tail(@)]
    /\ LET s == Head(changed[c])
       IN  memory' = IF sessions[s].mirror = <<>> THEN memory
                     ELSE [memory EXCEPT ![c][MemoryKey[sessions[s].mirror[1]]] = s]
    /\ UNCHANGED <<sessions, placement, attached, nav, drawn, navUsed>>

\* A placement changes; sync_session_category_mirrors follows later.
Place ==
    /\ navUsed.shifts < MaxShifts /\ navUsed' = [navUsed EXCEPT !.shifts = @ + 1]
    /\ \E s \in SName, k \in SCategory \ {0} : placement[s] # k /\ placement' = [placement EXCEPT ![s] = k]
    /\ UNCHANGED <<sessions, attached, memory, changed, nav, drawn>>
sync_session_category_mirrors ==
    /\ sessions' = [s \in SName |-> IF Exists(s) THEN [sessions[s] EXCEPT !.mirror = <<resolve_session_categories[s]>>]
                                    ELSE sessions[s]]
    /\ sessions' # sessions
    /\ UNCHANGED <<placement, attached, memory, changed, nav, drawn, navUsed>>

\* Another user ends a session; the status line is drawn again.
EndSession ==
    /\ navUsed.shifts < MaxShifts /\ navUsed' = [navUsed EXCEPT !.shifts = @ + 1]
    /\ \E s \in Living : sessions' = [sessions EXCEPT ![s] = NoSession] /\ Ended(s, NoSession)
    /\ UNCHANGED <<placement, memory, changed, nav, drawn>>
Redraw ==
    /\ drawn # SortedNames(Living) /\ drawn' = SortedNames(Living)
    /\ UNCHANGED <<sessions, placement, attached, memory, changed, nav, navUsed>>

\* Selections of the manager: one or two rows of what was listed.
Selection(r) ==
    LET rows == r.listed \X ({0} \cup SWindow) IN {{a, b} : a, b \in rows}

SessionsInit ==
    /\ \E up \in SUBSET SName :
         /\ up # {}
         /\ sessions = [s \in SName |-> IF s \in up THEN [wins |-> SWindow, path |-> s # Min(SName), mirror |-> <<>>]
                                        ELSE NoSession]
         /\ attached \in [SClient -> up]
         /\ drawn = SortedNames(up)
    /\ placement = [s \in SName |-> 1 + (s % Max(SCategory))]
    /\ memory = [c \in SClient |-> [k \in {MemoryKey[x] : x \in SCategory} |-> 0]]
    /\ changed = [c \in SClient |-> <<>>] /\ nav = [c \in SClient |-> NoNav]
    /\ navUsed = [navs |-> 0, shifts |-> 0]

NavSteps(c) ==
    \/ Choose(c) \/ switch_client_for_client(c) \/ remember_session_for_client(c)
    \/ switch_project_with_category(c) \/ create_and_switch_session(c)
    \/ create_session_for_client_resolved(c)
    \/ (\E sel \in Selection(nav[c]) : kill_selection(c, sel)) \/ KillOne(c)
    \/ on_client_session_changed(c)
NavCommands(c) ==
    \/ \E k \in SCategory : list_sessions(c, "category", k)
    \/ \E d \in {"next", "previous"}, op \in {"adjacent", "cycle"} : list_sessions(c, op, d)
    \/ \E s \in SName : list_sessions(c, "project", s) \/ (s \in Living /\ list_sessions(c, "select", s))
    \/ list_sessions(c, "create", 0) \/ list_sessions(c, "new", 0) \/ list_sessions(c, "kill", 0)
    \/ \E i \in DOMAIN drawn : switch_statusline_session(c, i)
    \/ \E d \in {"next", "previous"} : cycle_statusline_session(c, d)

SessionsNext ==
    \/ \E c \in SClient : NavSteps(c) \/ NavCommands(c)
    \/ Place \/ sync_session_category_mirrors \/ EndSession \/ Redraw
SessionsSpec == SessionsInit /\ [][SessionsNext]_sessionVars

-----------------------------------------------------------------------------
(***************************************************************************)
(* Properties.                                                             *)
(***************************************************************************)
\* The command for a category never lands in another one, whatever the memory of the client says: it
\* may be stale, of a session that has ended, or of a category that shares the key.
CategoryHonoured ==
    \A c \in SClient : (SessionAt(c, "switch") /\ nav[c].op = "category") =>
        nav[c].target \in nav[c].listed /\ nav[c].cats[nav[c].target] = nav[c].arg

\* A client that shows a session shows one that exists.
ShowsExisting == \A c \in SClient : attached[c] # 0 => Exists(attached[c])

SessionsSound == CategoryHonoured /\ ShowsExisting

\* Killing rows of the manager never throws its own client out of tmux as long as a session was listed
\* that no selected row touches, whatever other clients end meanwhile.
ClientKeepsSession ==
    [][\A c \in SClient : (KillOne(c) /\ attached[c] # 0 /\ attached'[c] = 0) => nav[c].spared = {}]_sessionVars

-----------------------------------------------------------------------------
(***************************************************************************)
(* Kill Server of the session manager (session_manager/kill_server.rs):    *)
(* disable the daemon, interrupt every pane, terminate the process groups  *)
(* found on the panes, kill the ones that survive, and only then kill the  *)
(* tmux server.  The groups come, go and ignore signals meanwhile; the     *)
(* server exits by itself when its last pane does and may be started       *)
(* again.  A process group number is not reused.                           *)
(***************************************************************************)
CONSTANTS
    Group,        \* process groups
    SelfGroup,    \* the session manager's own
    ServerGroup,  \* the tmux server's
    MaxServers,   \* bound: incarnations of the tmux server
    MaxOpsFailed  \* bound: calls that fail

ASSUME KillServerAssumption ==
    /\ IsFiniteSet(Group) /\ {SelfGroup, ServerGroup} \subseteq Group /\ {MaxServers, MaxOpsFailed} \subseteq Nat

VARIABLES
    server,   \* the incarnation behind the socket; 0: none
    group,    \* Group -> "unborn", "up" on a pane, "elsewhere" or "dead"
    killer,   \* the command
    opsFailed

killVars == <<server, group, killer, opsFailed>>

Workload == Group \ {SelfGroup, ServerGroup}
NewKiller == [at |-> "resolve", server |-> 0, todo |-> {}, groups |-> {}, survivors |-> {},
              signalled |-> {}, disabled |-> FALSE, verified |-> 0, killed |-> {}]

KillerAt(a) == killer.at = a
KillGoto(r, a) == killer' = [r EXCEPT !.at = a]
GroupsChange == <<server, group, opsFailed>>

\* Any call of the operations may fail; the command ends there and reports what it had done.
failure ==
    /\ opsFailed < MaxOpsFailed /\ opsFailed' = opsFailed + 1
    /\ ~KillerAt("done") /\ ~KillerAt("failed") /\ ~KillerAt("kill_failed")
    /\ KillGoto(killer, "failed") /\ UNCHANGED <<server, group>>

resolve_server ==
    /\ KillerAt("resolve")
    /\ IF server = 0 THEN KillGoto(killer, "failed") ELSE KillGoto([killer EXCEPT !.server = server], "groups")
    /\ UNCHANGED GroupsChange

\* collect_process_groups_from_table: every group on the listed panes, the popup's own and the server's
\* taken out.
process_groups == {g \in Group : group[g] = "up"} \ {SelfGroup, ServerGroup}

InitialGroups == KillerAt("groups") /\ KillGoto(killer, "disable") /\ UNCHANGED GroupsChange

disable_daemon ==
    /\ KillerAt("disable") /\ KillGoto([killer EXCEPT !.disabled = TRUE], "refresh") /\ UNCHANGED GroupsChange

\* Ctrl-C and its wait pass before the groups are read again.
RefreshGroups ==
    /\ KillerAt("refresh") /\ UNCHANGED GroupsChange
    /\ KillGoto([killer EXCEPT !.groups = process_groups, !.todo = process_groups], "term")

Signal(g, next) ==
    [killer EXCEPT !.todo = @ \ {g}, !.signalled = @ \cup {g}, !.at = next]

\* SIGTERM: the group ends, now or later, or ignores it.
send_term ==
    /\ KillerAt("term") /\ UNCHANGED <<server, opsFailed>>
    /\ IF killer.todo = {} THEN KillGoto([killer EXCEPT !.todo = killer.groups], "alive") /\ UNCHANGED group
       ELSE \E g \in killer.todo :
              /\ killer' = Signal(g, "term")
              /\ group' \in {group, [group EXCEPT ![g] = "dead"]}

\* process_group_alive after the wait.
process_group_alive ==
    /\ KillerAt("alive") /\ UNCHANGED GroupsChange
    /\ IF killer.todo = {} THEN KillGoto([killer EXCEPT !.todo = killer.survivors], "kill")
       ELSE \E g \in killer.todo :
              KillGoto([killer EXCEPT !.todo = @ \ {g},
                                      !.survivors = IF group[g] = "dead" THEN @ ELSE @ \cup {g}], "alive")

send_kill ==
    /\ KillerAt("kill") /\ UNCHANGED <<server, opsFailed>>
    /\ IF killer.todo = {} THEN KillGoto([killer EXCEPT !.todo = killer.survivors], "verify") /\ UNCHANGED group
       ELSE \E g \in killer.todo :
              /\ killer' = Signal(g, "kill")
              /\ group' \in {group, [group EXCEPT ![g] = "dead"]}

\* A group that outlives SIGKILL and the wait ends the command.
VerifyDead ==
    /\ KillerAt("verify") /\ UNCHANGED GroupsChange
    /\ IF killer.todo = {} THEN KillGoto(killer, "presence")
       ELSE \E g \in killer.todo :
              IF group[g] = "dead" THEN KillGoto([killer EXCEPT !.todo = @ \ {g}], "verify")
              ELSE KillGoto(killer, "failed")

\* server_presence_for_runner: absent, the same incarnation, or another one, which is an error.
server_presence(from, absent, present) ==
    /\ KillerAt(from) /\ UNCHANGED GroupsChange
    /\ IF server = 0 THEN KillGoto(killer, absent)
       ELSE IF server = killer.server THEN KillGoto([killer EXCEPT !.verified = server], present)
       ELSE KillGoto(killer, "failed")

\* tmux kill-server: the server behind the socket, whichever it is by now; an error if there is none.
kill_server ==
    /\ KillerAt("kill_server")
    /\ \/ /\ server # 0 /\ server' = 0
          /\ group' = [g \in Group |->
                       IF g = ServerGroup \/ (group[g] = "up" /\ g # SelfGroup) THEN "dead" ELSE group[g]]
          /\ KillGoto([killer EXCEPT !.killed = @ \cup {server}], "done")
       \/ server = 0 /\ KillGoto(killer, "kill_failed") /\ UNCHANGED <<server, group>>
    /\ UNCHANGED opsFailed

clean_kill_server ==
    \/ resolve_server \/ InitialGroups \/ disable_daemon \/ RefreshGroups \/ send_term
    \/ process_group_alive \/ send_kill \/ VerifyDead \/ kill_server
    \/ server_presence("presence", "done", "kill_server")
    \/ server_presence("kill_failed", "done", "failed")

\* A group starts on a pane or leaves its terminal, or ends by itself.
GroupMoves ==
    /\ \E g \in Workload :
         \/ group[g] = "unborn" /\ server # 0 /\ group' = [group EXCEPT ![g] = "up"]
         \/ group[g] = "up" /\ group' = [group EXCEPT ![g] = "elsewhere"]
         \/ group[g] \in {"up", "elsewhere"} /\ group' = [group EXCEPT ![g] = "dead"]
    /\ UNCHANGED <<server, killer, opsFailed>>

\* The server exits when no pane is left (the popup's goes with it), and is started again.
ServerMoves ==
    /\ \/ server # 0 /\ (\A g \in Workload : group[g] # "up")
          /\ server' = 0 /\ group' = [group EXCEPT ![ServerGroup] = "dead"]
       \/ server = 0 /\ ~KillerAt("resolve") /\ killer.server < MaxServers
          /\ killer.killed = {} /\ server' = killer.server + 1 /\ UNCHANGED group
    /\ UNCHANGED <<killer, opsFailed>>

KillInit ==
    /\ server = 1 /\ killer = NewKiller /\ opsFailed = 0
    /\ group \in [Group -> {"unborn", "up"}]
    /\ group[SelfGroup] = "up" /\ group[ServerGroup] = "up"

KillNext == clean_kill_server \/ failure \/ GroupMoves \/ ServerMoves
KillSpec == KillInit /\ [][KillNext]_killVars

-----------------------------------------------------------------------------
(***************************************************************************)
(* Properties.                                                             *)
(***************************************************************************)
\* A finished Kill Server leaves nothing behind: the server it identified is gone and every process
\* group it asked to terminate is dead, those that detached from the terminal meanwhile included.
NothingLeft ==
    KillerAt("done") => server # killer.server /\ \A g \in killer.groups : group[g] = "dead"

\* It never signals itself or the server, whose panes could then not be cleaned up, and it kills no
\* server before it has recognised that incarnation.
OnlyTheWorkload ==
    /\ killer.signalled \subseteq Workload
    /\ killer.killed # {} => killer.verified = killer.server
    /\ killer.killed # {} => killer.disabled

KillSound == NothingLeft /\ OnlyTheWorkload
=============================================================================
