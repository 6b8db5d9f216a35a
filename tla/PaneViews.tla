----------------------------- MODULE PaneViews -----------------------------
(* What clients look at, and what that does to unread panes: observations   *)
(* of client focus that complete out of order, peek leases that keep a pane *)
(* unread while it is only peeked at, sidebar jumps run by a worker, and    *)
(* the topology that is replaced by polls and fenced by refreshes.          *)
EXTENDS Naturals, Sequences, FiniteSets

CONSTANTS
    VClient,      \* tmux clients
    VPane,        \* panes
    Proxies,      \* pairs <<source, target>>: focus on source shows target
    VStart,       \* pane every client starts in
    NoView,       \* no pane: a client that is detached or not eligible
    MaxSeq,       \* bound: witness observations
    MaxWork,      \* bound: moves, occurrences, refreshes, jobs and timeouts
    MaxErrors     \* bound: jobs that time out after tmux has switched

ASSUME ViewsAssumption ==
    /\ VStart \in VPane /\ NoView \notin VPane
    /\ Proxies \subseteq VPane \X VPane
    /\ {MaxSeq, MaxWork, MaxErrors} \subseteq Nat

VARIABLES
    focus, own,        \* external: pane of each client, and whether its user chose it
    panesAlive,             \* external: panes that exist
    topo, topoFloor,   \* topology and topology_observation_floor
    lease, views,      \* peek_leases, views.clients
    unread,            \* latest occurrence per pane and how it was read
    seq,               \* witness_observation_seq
    obs,               \* the poll worker and the view refresh thread
    mutations,         \* mutations waiting in the queue
    job,               \* the sidebar worker
    saw, chosen,       \* history: order last seen in focus, in focus by choice
    answered,          \* history: panes a client got a PaneResult about
    used               \* bounds

pvVars == <<focus, own, panesAlive, topo, topoFloor, lease, views, unread, seq, obs, mutations,
            job, saw, chosen, answered, used>>

Spare == used.focus + used.order + used.jobs + used.errors < MaxWork

NoLease == [kind |-> "none"]
Active(target, last) == [kind |-> "active", target |-> target, last |-> last]
Pending(op, prev, cand) == [kind |-> "pending", op |-> op, prev |-> prev, cand |-> cand]

Protects(l, p) ==
    \/ l.kind = "pending" /\ (l.prev = p \/ p \in l.cand)
    \/ l.kind = "active" /\ l.target = p

(* focus_proxy_target and its inverse; agents are present in every pane.    *)
Shows(p) == {p} \cup {t \in VPane : <<p, t>> \in Proxies}
focus_equivalent_panes(p) == {q \in VPane : p \in Shows(q)}

-----------------------------------------------------------------------------
(* Leases.                                                                  *)

Pruned(l, panes) ==
    LET prev == IF l.prev \in panes THEN l.prev ELSE NoView
    IN IF l.cand \cap panes = {} /\ prev = NoView THEN NoLease
       ELSE Pending(l.op, prev, l.cand \cap panes)

(* reconcile_peek_leases: an observation that began no later than the last  *)
(* decisive one cannot end an active lease.                                 *)
ReconcileLease(l, at, s, panes) ==
    CASE l.kind = "none" -> l
      [] l.kind # "none" /\ at = NoView -> NoLease
      [] l.kind = "pending" /\ at # NoView -> Pruned(l, panes)
      [] l.kind = "active" /\ at # NoView ->
            IF l.target \notin panes THEN NoLease
            ELSE IF s <= l.last THEN l
            ELSE IF at = l.target THEN Active(l.target, s) ELSE NoLease

reconcile_peek_leases(ls, w, s, panes) ==
    [c \in VClient |-> ReconcileLease(ls[c], w[c], s, panes)]

clear_peeks_for_read_panes(ls, read, except) ==
    [c \in VClient |-> IF c \notin except /\ \E p \in read : Protects(ls[c], p)
                       THEN NoLease ELSE ls[c]]

read_authorized_panes(ls, w) ==
    UNION {{p \in Shows(w[c]) : ~Protects(ls[c], p)} : c \in {d \in VClient : w[d] # NoView}}

(* restore_peek_after_failure: back to the previous target only when a      *)
(* fresh witness still shows it.                                            *)
Restored(ls, c, op, w, s) ==
    IF ls[c].kind # "pending" THEN ls
    ELSE IF ls[c].op # op THEN ls
    ELSE [ls EXCEPT ![c] = IF @.prev \in topo /\ w[c] = @.prev
                           THEN Active(@.prev, s) ELSE NoLease]

(* The part of replace_topology that touches leases.                        *)
LeasesIn(ls, panes) ==
    [c \in VClient |->
        CASE ls[c].kind = "none" -> NoLease
          [] ls[c].kind = "active" -> IF ls[c].target \in panes THEN ls[c] ELSE NoLease
          [] ls[c].kind = "pending" -> Pruned(ls[c], panes)]

-----------------------------------------------------------------------------
(* Outside: users and tmux.                                                 *)

Focus(c, p) ==
    /\ Spare /\ p \in panesAlive \cup {NoView} /\ p # focus[c]
    /\ focus' = [focus EXCEPT ![c] = p]
    /\ own' = [own EXCEPT ![c] = TRUE]
    /\ used' = [used EXCEPT !.focus = @ + 1]
    /\ UNCHANGED <<panesAlive, topo, topoFloor, lease, views, unread, seq, obs, mutations, job, answered>>

(* A pane closes, or one is created.                                        *)
PaneChanges(p) ==
    /\ Spare /\ \A c \in VClient : focus[c] # p
    /\ panesAlive' = IF p \in panesAlive THEN panesAlive \ {p} ELSE panesAlive \cup {p}
    /\ answered' = answered \ {p}
    /\ used' = [used EXCEPT !.focus = @ + 1]
    /\ UNCHANGED <<focus, own, topo, topoFloor, lease, views, unread, seq, obs, mutations, job>>

-----------------------------------------------------------------------------
(* Observers: the poll reads its base, numbers itself, asks tmux, and sends *)
(* the answer after it has captured panes; the refresh thread does the same *)
(* without a base.                                                          *)

Observer == {"poll", "refresh"}
IdleObs == [step |-> "idle", base |-> [c \in VClient |-> NoView], through |-> 0, seq |-> 0,
            witnesses |-> [c \in VClient |-> NoView], panes |-> {}]

(* Base, unread order and number are read one after the other; reading the  *)
(* base earlier only makes it differ from the views more often.             *)
begin_witness_observation(k) ==
    /\ obs[k].step = "idle" /\ seq < MaxSeq
    /\ seq' = seq + 1
    /\ obs' = [obs EXCEPT ![k] = [IdleObs EXCEPT !.step = "numbered",
                                    !.base = IF k = "poll" THEN views ELSE @,
                                                 !.through = used.order, !.seq = seq + 1]]
    /\ UNCHANGED <<focus, own, panesAlive, topo, topoFloor, lease, views, unread, mutations, job,
                   answered, used>>

query_client_witnesses(k) ==
    /\ obs[k].step = "numbered"
    /\ \/ obs' = [obs EXCEPT ![k].step = "asked", ![k].witnesses = focus, ![k].panes = panesAlive]
       \/ obs' = [obs EXCEPT ![k] = IdleObs]    \* the query failed
    /\ UNCHANGED <<focus, own, panesAlive, topo, topoFloor, lease, views, unread, seq, mutations, job,
                   answered, used>>

ObserveSend(k) ==
    /\ obs[k].step = "asked"
    /\ mutations' = Append(mutations, [kind |-> k, obs |-> obs[k]])
    /\ obs' = [obs EXCEPT ![k] = IdleObs]
    /\ UNCHANGED <<focus, own, panesAlive, topo, topoFloor, lease, views, unread, seq, job, answered,
                   used>>

-----------------------------------------------------------------------------
(* Mutations.                                                               *)

\* Mutant: occurrences newer than the observation are marked read too.
M_ReadIntents(panes, through) == {p \in panes \cap VPane : unread[p].order > 0 /\ ~unread[p].read}

(* pane_read_intents_for_panes: focused panes whose occurrence is not newer *)
(* than the observation.                                                    *)
ReadIntents(panes, through) ==
    {p \in panes \cap VPane : unread[p].order > 0 /\ ~unread[p].read /\ unread[p].order <= through}

(* reconcile_views_with_witnesses over leases ls and topology t; the views  *)
(* are kept when a witness is outside the topology, after the reads.        *)
ReconcileViews(ls, t, o, checked) ==
    IF checked /\ o.base # views
    THEN lease' = ls /\ UNCHANGED <<views, unread>>
    ELSE LET l == reconcile_peek_leases(ls, o.witnesses, o.seq, t)
             reads == ReadIntents(read_authorized_panes(l, o.witnesses), o.through)
         IN /\ lease' = clear_peeks_for_read_panes(l, reads, {})
            /\ unread' = [p \in VPane |-> IF p \in reads
                                          THEN [unread[p] EXCEPT !.read = TRUE, !.by = "view"]
                                          ELSE unread[p]]
            /\ views' = IF \A c \in VClient : o.witnesses[c] \in t \cup {NoView}
                        THEN o.witnesses ELSE views

Head_(k) == mutations # <<>> /\ Head(mutations).kind = k
Popped == mutations' = Tail(mutations)

(* apply_observation_poll_projection: topology, then views.                 *)
apply_topology_observation(o) == o.seq > topoFloor

ApplyPoll ==
    /\ Head_("poll") /\ Popped
    /\ LET o == Head(mutations).obs
       IN IF apply_topology_observation(o)
          THEN /\ topo' = o.panes /\ topoFloor' = o.seq
               /\ ReconcileViews(IF topo = o.panes THEN lease ELSE LeasesIn(lease, o.panes),
                                 o.panes, o, TRUE)
          ELSE UNCHANGED <<topo, topoFloor>> /\ ReconcileViews(lease, topo, o, TRUE)
    /\ UNCHANGED <<focus, own, panesAlive, seq, obs, job, answered, used>>

(* CurrentViewsReplacement.                                                 *)
ApplyViews ==
    /\ Head_("refresh") /\ Popped
    /\ ReconcileViews(lease, topo, Head(mutations).obs, FALSE)
    /\ UNCHANGED <<focus, own, panesAlive, topo, topoFloor, seq, obs, job, answered, used>>

(* refresh_full_topology, or targeted_pane_refresh for one pane, which is   *)
(* what answers a client; both fence observations in flight.                *)
RefreshTopology(p) ==
    /\ Spare /\ p \in panesAlive
    /\ \/ topo' = panesAlive
       \/ topo' = topo \cup {p}
    /\ topoFloor' = IF seq > topoFloor THEN seq ELSE topoFloor
    /\ lease' = LeasesIn(lease, topo')
    /\ answered' = answered \cup {p}
    /\ used' = [used EXCEPT !.order = @ + 1]
    /\ UNCHANGED <<focus, own, panesAlive, views, unread, seq, obs, mutations, job>>

(* A pane event that creates an unread occurrence asks who can see the pane *)
(* (unread_visibility_for_event); the query may be unavailable.             *)
NewUnread(p) ==
    /\ Spare /\ seq < MaxSeq /\ p \in topo \cap panesAlive
    /\ used' = [used EXCEPT !.order = @ + 1]
    /\ seq' = seq + 1
    /\ \/ LET l == reconcile_peek_leases(lease, focus, seq + 1, topo)
              visible == read_authorized_panes(l, focus) \cap focus_equivalent_panes(p) # {}
          IN /\ lease' = IF visible
                         THEN clear_peeks_for_read_panes(l, focus_equivalent_panes(p), {}) ELSE l
             /\ unread' = [unread EXCEPT ![p] = [order |-> used.order + 1, read |-> visible,
                                                 by |-> IF visible THEN "view" ELSE "none"]]
       \/ unread' = [unread EXCEPT ![p] = [order |-> used.order + 1, read |-> FALSE, by |-> "none"]]
          /\ lease' = lease
    /\ UNCHANGED <<focus, own, panesAlive, topo, topoFloor, views, obs, mutations, job, answered>>

-----------------------------------------------------------------------------
(* Sidebar commands and their worker.                                       *)

IdleJob == [step |-> "idle", kind |-> "jump", client |-> CHOOSE c \in VClient : TRUE, op |-> 0,
            source |-> VStart, cand |-> {}, result |-> "none", target |-> NoView, floor |-> 0]

begin_peek(ls, c, cand, op) ==
    [ls EXCEPT ![c] = Pending(op, IF @.kind = "active" THEN @.target ELSE NoView, cand)]

Schedule(kind, c, source, cand) ==
    job' = [IdleJob EXCEPT !.step = "queued", !.kind = kind, !.client = c, !.op = used.jobs + 1,
                           !.source = source, !.cand = cand]

PeekPane(c, p) ==
    /\ Spare /\ seq < MaxSeq /\ focus[c] # NoView /\ p # focus[c]
    /\ used' = [used EXCEPT !.jobs = @ + 1]
    /\ seq' = seq + 1
    /\ LET l == reconcile_peek_leases(lease, focus, seq + 1, topo)
           begun == begin_peek(l, c, {p}, used.jobs + 1)
       IN IF p \notin topo \/ l[c].kind = "pending" THEN lease' = l /\ job' = job
          ELSE \/ job.step = "idle" /\ lease' = begun /\ Schedule("peek", c, focus[c], {p})
               \/ job.step # "idle" /\ job' = job    \* queue full
                  /\ lease' = Restored(begun, c, used.jobs + 1, focus, seq + 1)
    /\ UNCHANGED <<focus, own, panesAlive, topo, topoFloor, views, unread, obs, mutations, answered>>

(* commit_read_peek_state: known panes that are still unread.               *)
AdvanceCandidates(target) ==
    {p \in topo \ {target} : unread[p].order > 0 /\ ~unread[p].read}

(* ReadPeek: mark the active target read and go on to the next unread pane. *)
ReadPeek(c) ==
    /\ Spare /\ seq <= MaxSeq /\ focus[c] # NoView /\ job.step = "idle"
    /\ used' = [used EXCEPT !.jobs = @ + 1]
    /\ seq' = seq + 1
    /\ LET l == reconcile_peek_leases(lease, focus, seq + 1, topo)
           cleared == clear_peeks_for_read_panes(l, {focus[c]}, {c})
           cand == AdvanceCandidates(focus[c])
       IN IF l[c].kind = "active" /\ l[c].target = focus[c]
          THEN /\ unread' = [unread EXCEPT ![focus[c]].read = TRUE, ![focus[c]].by = "asked"]
               /\ IF cand = {}
                  THEN lease' = [cleared EXCEPT ![c] = Active(focus[c], seq + 1)] /\ job' = job
                  ELSE /\ lease' = begin_peek(cleared, c, cand, used.jobs + 1)
                       /\ Schedule("advance", c, focus[c], cand)
          ELSE lease' = l /\ UNCHANGED <<unread, job>>
    /\ UNCHANGED <<focus, own, panesAlive, topo, topoFloor, views, obs, mutations, answered>>

(* JumpPane and JumpLatestUnread: the client is the only one the views show *)
(* at the source.                                                           *)
unique_eligible_client_pid(source) == {c \in VClient : views[c] = source}
Jump(c, cand) ==
    /\ Spare /\ job.step = "idle" /\ focus[c] # NoView
    /\ unique_eligible_client_pid(focus[c]) = {c}
    /\ cand # {} /\ cand \subseteq topo
    /\ Schedule("jump", c, focus[c], cand)
    /\ used' = [used EXCEPT !.jobs = @ + 1]
    /\ UNCHANGED <<focus, own, panesAlive, topo, topoFloor, lease, views, unread, seq, obs, mutations,
                   answered>>

(* Guards that tmux evaluates with the switch: the pane is still the same   *)
(* process, and the client still looks at the source.                       *)
Available(j) == j.cand \cap panesAlive
AtSource(j) == focus[j.client] = j.source

(* jump_to_first_available_pane: panes that are gone are skipped, a client  *)
(* that has left the source ends the job, and a command may time out with   *)
(* or without effect.                                                       *)
RunJob ==
    /\ job.step = "queued"
    /\ \/ /\ AtSource(job)
          /\ \E p \in Available(job) :
                /\ focus' = [focus EXCEPT ![job.client] = p]
                /\ own' = [own EXCEPT ![job.client] = (job.kind = "jump")]
                /\ \/ job' = [job EXCEPT !.step = "ran", !.result = "ok", !.target = p]
                      /\ UNCHANGED used
                   \/ job' = [job EXCEPT !.step = "ran", !.result = "failed"]
                      /\ Spare /\ used.errors < MaxErrors
                      /\ used' = [used EXCEPT !.errors = @ + 1]
       \/ /\ Available(job) # {} /\ ~AtSource(job)
          /\ job' = [job EXCEPT !.step = "ran", !.result = "moved"]
          /\ UNCHANGED <<focus, own, used>>
       \/ /\ Available(job) = {}
          /\ job' = [job EXCEPT !.step = "ran", !.result = "failed"]
          /\ UNCHANGED <<focus, own, used>>
    /\ UNCHANGED <<panesAlive, topo, topoFloor, lease, views, unread, seq, obs, mutations, answered>>

ReportJob ==
    /\ job.step = "ran"
    /\ mutations' = Append(mutations, [kind |-> "done", job |-> [job EXCEPT !.floor = seq]])
    /\ job' = IdleJob
    /\ UNCHANGED <<focus, own, panesAlive, topo, topoFloor, lease, views, unread, seq, obs, answered,
                   used>>

activate_peek(ls, j) ==
    IF ls[j.client].kind # "pending" THEN ls
    ELSE IF ls[j.client].op = j.op /\ j.target \in topo
         THEN [ls EXCEPT ![j.client] = Active(j.target, j.floor)] ELSE ls

(* SidebarEffectCompleted; a successful jump enqueues a reconciliation,     *)
(* whose observation is made when it is applied.                            *)
ApplyDone ==
    /\ Head_("done")
    /\ LET j == Head(mutations).job
       IN \/ /\ j.kind # "jump" /\ j.result = "ok"
             /\ lease' = activate_peek(lease, j) /\ Popped /\ UNCHANGED seq
          \/ /\ j.kind # "jump" /\ j.result = "failed" /\ seq < MaxSeq
             /\ seq' = seq + 1
             /\ lease' = Restored(lease, j.client, j.op, focus, seq + 1) /\ Popped
          \/ /\ j.kind # "jump" /\ j.result = "moved"
             /\ lease' = Restored(lease, j.client, j.op, [c \in VClient |-> NoView], 0)
             /\ Popped /\ UNCHANGED seq
          \/ /\ j.kind = "jump" /\ j.result = "ok"
             /\ lease' = [lease EXCEPT ![j.client] = NoLease]
             /\ mutations' = Append(Tail(mutations), [kind |-> "views"]) /\ UNCHANGED seq
          \/ j.kind = "jump" /\ j.result # "ok" /\ Popped /\ UNCHANGED <<lease, seq>>
    /\ UNCHANGED <<focus, own, panesAlive, topo, topoFloor, views, unread, obs, job, answered, used>>

(* ReconcileViews (initial_view_reconciliation).                            *)
ApplyReconcile ==
    /\ Head_("views") /\ Popped /\ seq < MaxSeq
    /\ seq' = seq + 1
    /\ ReconcileViews(lease, topo, [IdleObs EXCEPT !.witnesses = focus, !.seq = seq + 1,
                                                   !.through = used.order], FALSE)
    /\ UNCHANGED <<focus, own, panesAlive, topo, topoFloor, obs, job, answered, used>>

-----------------------------------------------------------------------------
PvInit ==
    /\ focus = [c \in VClient |-> VStart] /\ own = [c \in VClient |-> TRUE]
    /\ panesAlive = VPane /\ topo = VPane /\ topoFloor = 0
    /\ lease = [c \in VClient |-> NoLease] /\ views = [c \in VClient |-> VStart]
    /\ unread = [p \in VPane |-> [order |-> 0, read |-> TRUE, by |-> "none"]]
    /\ seq = 0 /\ obs = [k \in Observer |-> IdleObs] /\ mutations = <<>> /\ job = IdleJob
    /\ saw = [p \in VPane |-> 0] /\ chosen = [p \in VPane |-> 0]
    /\ answered = {}
    /\ used = [focus |-> 0, order |-> 0, jobs |-> 0, errors |-> 0]

Looked(at, p) == at # NoView /\ p \in Shows(at)

PvStep ==
    \/ \E c \in VClient, p \in VPane \cup {NoView} : Focus(c, p)
    \/ \E p \in VPane : PaneChanges(p) \/ RefreshTopology(p) \/ NewUnread(p)
    \/ \E k \in Observer : \/ begin_witness_observation(k)
                           \/ query_client_witnesses(k) \/ ObserveSend(k)
    \/ ApplyPoll \/ ApplyViews \/ ApplyDone \/ ApplyReconcile
    \/ \E c \in VClient : ReadPeek(c)
    \/ \E c \in VClient, p \in VPane : PeekPane(c, p) \/ Jump(c, {p})
    \/ \E c \in VClient : Jump(c, {p \in topo : ~unread[p].read})
    \/ RunJob \/ ReportJob

PvNext ==
    /\ PvStep
    /\ saw' = [p \in VPane |-> IF \E c \in VClient : Looked(focus'[c], p)
                               THEN unread'[p].order ELSE saw[p]]
    /\ chosen' = [p \in VPane |-> IF \E c \in VClient : own'[c] /\ Looked(focus'[c], p)
                                  THEN unread'[p].order ELSE chosen[p]]

PvSpec == PvInit /\ [][PvNext]_pvVars

-----------------------------------------------------------------------------
(* Properties.                                                              *)

PvTypeOK ==
    /\ focus \in [VClient -> VPane \cup {NoView}] /\ views \in [VClient -> VPane \cup {NoView}]
    /\ topo \subseteq VPane /\ topoFloor <= seq /\ seq \in 0..(MaxSeq + 2)
    /\ \A c \in VClient : lease[c].kind \in {"none", "pending", "active"}

(* An occurrence is read by an observation only if the pane was in focus    *)
(* after the occurrence was created, however late the observation is        *)
(* applied (pane_read_intents_for_panes, unread_visibility_for_event).      *)
ReadWasFocused ==
    \A p \in VPane : unread[p].read /\ unread[p].by = "view" => unread[p].order <= saw[p]

(* A pane a client was told about stays known while it exists: no           *)
(* observation made before the answer takes it away again                   *)
(* (replace_topology_and_fence_observations, apply_topology_observation).   *)
AnsweredStaysKnown == answered \subseteq topo

(* The invariants of views and topology together.                           *)
ViewsSound == PvTypeOK /\ ReadWasFocused /\ AnsweredStaysKnown

(* The observation being applied does not list the client as eligible; such *)
(* a lease ends whatever the number of the observation.                     *)
Unlisted(c) ==
    \E k \in Observer : Head_(k) /\ Head(mutations).obs.witnesses[c] = NoView

(* An active peek ends only because its client moved by itself or was not   *)
(* listed, or its target left the topology, or a pane that focus on the     *)
(* target shows was read: never because an observation made before the      *)
(* jump shows the client still at the source                                *)
(* (reconcile_peek_leases, witness_observation_floor).                      *)
PeekEndsForAReason ==
    [][\A c \in VClient :
        lease[c].kind = "active" /\ lease'[c].kind = "none" =>
            \/ own[c] \/ Unlisted(c) \/ lease[c].target \notin topo'
            \/ \E p \in Shows(lease[c].target) : unread'[p].by # "none"]_pvVars

(* "They move the invoking client to the next or previous visible agent     *)
(* without wrapping, and keep the agent unread (peek)": an observation      *)
(* reads a pane only if a user went to it by choice.                        *)
PeekKeepsUnread ==
    \A p \in VPane : unread[p].read /\ unread[p].by = "view" => unread[p].order <= chosen[p]
=============================================================================
