-------------------------- MODULE DaemonCoreProofs --------------------------
(* Proofs about the daemon's own threads (MCDaemonCore): peeks and reads,    *)
(* view hooks, directional switches, task summaries, the resynchronisation   *)
(* with Codex, and the steps of the daemon as a whole.                       *)
(* The modules share no state, so each has its own inductive invariant; the  *)
(* theorems at the end combine them.                                         *)
EXTENDS DaemonViewProofs, WellFoundedInduction
-----------------------------------------------------------------------------
(* PaneViews: the shapes of its records.                                     *)

Places == VPane \cup {NoView}
LeaseRec ==
    [kind : {"none"}] \cup [kind : {"active"}, target : VPane, last : Nat]
    \cup [kind : {"pending"}, op : Nat, prev : Places, cand : SUBSET VPane]
ObsRec ==
    [step : {"idle", "numbered", "asked"}, base : [VClient -> Places], through : Nat, seq : Nat,
     witnesses : [VClient -> Places], panes : SUBSET VPane]
JobRec ==
    [step : {"idle", "queued", "ran"}, kind : {"jump", "peek", "advance"},
     client : VClient \cup {IdleJob.client}, op : Nat, source : Places, cand : SUBSET VPane,
     result : {"none", "ok", "failed", "moved"}, target : Places, floor : Nat]
MutationRec ==
    [kind : Observer, obs : ObsRec] \cup [kind : {"done"}, job : JobRec] \cup [kind : {"views"}]

PvShapes ==
    /\ focus \in [VClient -> Places] /\ own \in [VClient -> BOOLEAN]
    /\ panesAlive \subseteq VPane /\ topo \subseteq VPane /\ topoFloor \in Nat
    /\ lease \in [VClient -> LeaseRec] /\ views \in [VClient -> Places]
    /\ unread \in [VPane -> [order : Nat, read : BOOLEAN, by : {"none", "view", "asked"}]]
    /\ seq \in Nat /\ obs \in [Observer -> ObsRec] /\ mutations \in Seq(MutationRec)
    /\ job \in JobRec
    /\ job.step # "idle" => job.client \in VClient
    /\ saw \in [VPane -> Nat] /\ answered \subseteq VPane
    /\ used \in [focus : Nat, order : Nat, jobs : Nat, errors : Nat]

(* The observations that have asked tmux and are not applied yet.            *)
Flight ==
    {obs[k] : k \in {h \in Observer : obs[h].step = "asked"}}
    \cup {mutations[i].obs : i \in {j \in DOMAIN mutations : mutations[j].kind \in Observer}}

(* The places of the queue that hold a finished job.                         *)
Finished == {i \in DOMAIN mutations : mutations[i].kind = "done"}

(* Numbers are handed out in order: of observations, occurrences and jobs.   *)
NumbersRise ==
    /\ topoFloor <= seq /\ seq <= MaxSeq + 1
    /\ \A k \in Observer : obs[k].seq <= seq /\ obs[k].through <= used.order
    /\ \A o \in Flight : o.seq <= seq /\ o.through <= used.order
    /\ \A p \in VPane : unread[p].order <= used.order
    /\ \A c \in VClient : /\ lease[c].kind = "active" => lease[c].last <= seq
                          /\ lease[c].kind = "pending" => lease[c].op <= used.jobs
    /\ job.op <= used.jobs
    /\ \A i \in Finished : /\ mutations[i].job.op <= used.jobs
                           /\ mutations[i].job.floor <= seq
                           /\ mutations[i].job.client \in VClient
                           /\ job.step # "idle" => mutations[i].job.op < job.op
    /\ \A i, j \in Finished : i <= j => mutations[i].job.op <= mutations[j].job.op

(* What was looked at when an observation was made is remembered.            *)
LooksRemembered ==
    /\ \A c \in VClient, p \in VPane : Looked(focus[c], p) => saw[p] = unread[p].order
    /\ \A o \in Flight, c \in VClient, p \in VPane :
          Looked(o.witnesses[c], p) /\ unread[p].order <= o.through => unread[p].order <= saw[p]

(* An observation that may still replace the topology lists every pane a     *)
(* client was told about.                                                    *)
AnswersListed ==
    /\ answered \subseteq panesAlive
    /\ \A o \in Flight : o.seq > topoFloor => answered \subseteq o.panes

(* A client whose place nobody chose is where its peek was decided, and the  *)
(* observations after the decision show it there.                            *)
ShownAt(c, p, s) == focus[c] = p /\ \A o \in Flight : o.seq > s => o.witnesses[c] = p
Awaits(c, op) == lease[c].kind = "pending" /\ lease[c].op = op
Peeks(j) == j.kind # "jump"
PeeksHold ==
    /\ \A c \in VClient :
          lease[c].kind = "active" /\ ~own[c] => ShownAt(c, lease[c].target, lease[c].last)
    /\ \A i \in Finished :
          LET j == mutations[i].job
          IN /\ Peeks(j) /\ j.result = "ok" /\ Awaits(j.client, j.op) /\ ~own[j.client] =>
                   ShownAt(j.client, j.target, j.floor)
             /\ ~Peeks(j) /\ j.result = "ok" /\ ~own[j.client] =>
                   /\ lease[j.client].kind # "active"
                   /\ lease[j.client].kind = "pending" => lease[j.client].op > j.op
    /\ job.step # "idle" /\ Peeks(job) =>
          /\ lease[job.client].kind # "active"
          /\ lease[job.client].kind = "pending" => lease[job.client].op = job.op
          /\ job.step = "ran" /\ job.result = "ok" /\ ~own[job.client] =>
                focus[job.client] = job.target
    /\ job.step = "ran" /\ ~Peeks(job) /\ job.result = "ok" => own[job.client]

PvInv ==
    /\ PvShapes /\ NumbersRise /\ LooksRemembered /\ AnswersListed /\ PeeksHold
    /\ ReadWasFocused /\ AnsweredStaysKnown

-----------------------------------------------------------------------------
(* What the operators on leases return.                                      *)

LEMMA PrunedLease ==
    ASSUME NEW l \in LeaseRec, l.kind = "pending", NEW known
    PROVE  /\ Pruned(l, known) \in LeaseRec
           /\ \/ Pruned(l, known).kind = "none"
              \/ Pruned(l, known).kind = "pending" /\ Pruned(l, known).op = l.op
<1>. DEFINE prev == IF l.prev \in known THEN l.prev ELSE NoView
<1>2. prev \in Places /\ l.cand \cap known \in SUBSET VPane BY DEF Places, LeaseRec
<1>3. \/ Pruned(l, known) = [kind |-> "none"]
      \/ Pruned(l, known) = [kind |-> "pending", op |-> l.op, prev |-> prev,
                             cand |-> l.cand \cap known]
  BY DEF Pruned, NoLease, Pending
<1>. HIDE DEF prev
<1>. QED BY <1>2, <1>3 DEF LeaseRec

LEMMA NoLeaseIs == NoLease \in LeaseRec /\ NoLease.kind = "none" BY DEF NoLease, LeaseRec

LEMMA ActiveLease ==
    ASSUME NEW t \in VPane, NEW s \in Nat
    PROVE  /\ Active(t, s) \in LeaseRec /\ Active(t, s).kind = "active"
           /\ Active(t, s).target = t /\ Active(t, s).last = s
  BY DEF Active, LeaseRec

LEMMA PendingLease ==
    ASSUME NEW op \in Nat, NEW prev \in Places, NEW cand \in SUBSET VPane
    PROVE  /\ Pending(op, prev, cand) \in LeaseRec /\ Pending(op, prev, cand).kind = "pending"
           /\ Pending(op, prev, cand).op = op /\ Pending(op, prev, cand).prev = prev
  BY DEF Pending, LeaseRec

LEMMA LeaseFields ==
    ASSUME NEW l \in LeaseRec
    PROVE  /\ l.kind \in {"none", "active", "pending"}
           /\ l.kind = "none" => l = NoLease
           /\ l.kind = "active" => l.target \in VPane /\ l.last \in Nat
           /\ l.kind = "pending" => l.op \in Nat /\ l.prev \in Places /\ l.cand \in SUBSET VPane
  BY DEF LeaseRec, NoLease

(* A reconciled lease ends, stays, or is confirmed by an observation.        *)
Confirmed(l, m, at, s) ==
    /\ l.kind = "active" /\ m.kind = "active" /\ m.target = l.target /\ at # NoView
    /\ \/ m = l /\ s <= l.last
       \/ m.last = s /\ s > l.last /\ at = l.target
Lapsed(l, at, s, known) ==
    l.kind = "active" => \/ at = NoView \/ l.target \notin known
                         \/ s > l.last /\ at # l.target

LEMMA ReconciledLease ==
    ASSUME NEW l \in LeaseRec, NEW at \in Places, NEW s \in Nat, NEW known
    PROVE  LET m == ReconcileLease(l, at, s, known)
           IN /\ m \in LeaseRec
              /\ \/ m.kind = "none" /\ Lapsed(l, at, s, known)
                 \/ l.kind = "pending" /\ m.kind = "pending" /\ m.op = l.op
                 \/ Confirmed(l, m, at, s) /\ l.target \in known
<1>. DEFINE m == ReconcileLease(l, at, s, known)
<1>1. CASE l.kind = "none" BY <1>1 DEF ReconcileLease, Lapsed
<1>2. CASE l.kind # "none" /\ at = NoView BY <1>2, NoLeaseIs DEF ReconcileLease, Lapsed
<1>3. CASE l.kind = "pending" /\ at # NoView BY <1>3, PrunedLease DEF ReconcileLease, Lapsed
<1>4. CASE l.kind = "active" /\ at # NoView
  BY <1>4, LeaseFields, NoLeaseIs, ActiveLease DEF ReconcileLease, Lapsed, Confirmed
<1>. QED BY LeaseFields, <1>1, <1>2, <1>3, <1>4

LEMMA ReconciledLeases ==
    ASSUME NEW ls \in [VClient -> LeaseRec], NEW w \in [VClient -> Places], NEW s \in Nat, NEW known
    PROVE  LET new == reconcile_peek_leases(ls, w, s, known)
           IN /\ new \in [VClient -> LeaseRec]
              /\ \A c \in VClient :
                    \/ new[c].kind = "none" /\ Lapsed(ls[c], w[c], s, known)
                    \/ ls[c].kind = "pending" /\ new[c].kind = "pending" /\ new[c].op = ls[c].op
                    \/ Confirmed(ls[c], new[c], w[c], s) /\ ls[c].target \in known
  BY ReconciledLease DEF reconcile_peek_leases

(* Clearing ends leases that protect a pane which was read.                  *)
LEMMA ClearedLeases ==
    ASSUME NEW ls \in [VClient -> LeaseRec], NEW read, NEW except
    PROVE  LET new == clear_peeks_for_read_panes(ls, read, except)
           IN /\ new \in [VClient -> LeaseRec]
              /\ \A c \in VClient :
                    \/ new[c] = ls[c]
                    \/ /\ new[c].kind = "none" /\ c \notin except
                       /\ ls[c].kind = "active" => ls[c].target \in read
  BY NoLeaseIs DEF clear_peeks_for_read_panes, Protects

(* Leases in a new topology.                                                 *)
LEMMA TopologyLeases ==
    ASSUME NEW ls \in [VClient -> LeaseRec], NEW known
    PROVE  /\ LeasesIn(ls, known) \in [VClient -> LeaseRec]
           /\ \A c \in VClient :
                 \/ /\ LeasesIn(ls, known)[c].kind = "none"
                    /\ ls[c].kind = "active" => ls[c].target \notin known
                 \/ /\ ls[c].kind = "pending" /\ LeasesIn(ls, known)[c].kind = "pending"
                    /\ LeasesIn(ls, known)[c].op = ls[c].op
                 \/ ls[c].kind = "active" /\ LeasesIn(ls, known)[c] = ls[c]
<1>. DEFINE new == LeasesIn(ls, known)
            case(c) == \/ /\ new[c].kind = "none"
                          /\ ls[c].kind = "active" => ls[c].target \notin known
                       \/ /\ ls[c].kind = "pending" /\ new[c].kind = "pending"
                          /\ new[c].op = ls[c].op
                       \/ ls[c].kind = "active" /\ new[c] = ls[c]
<1>1. ASSUME NEW c \in VClient PROVE new[c] \in LeaseRec /\ case(c)
  BY LeaseFields, NoLeaseIs, PrunedLease DEF LeasesIn
<1>. DEFINE kept(c) == CASE ls[c].kind = "none" -> NoLease
                     [] ls[c].kind = "active" ->
                           IF ls[c].target \in known THEN ls[c] ELSE NoLease
                     [] ls[c].kind = "pending" -> Pruned(ls[c], known)
<1>2. new = [c \in VClient |-> kept(c)] BY DEF LeasesIn
<1>3. new \in [VClient -> LeaseRec]
  <2>. HIDE DEF kept, new
  <2>. QED BY <1>2, <1>1
<1>. QED BY <1>1, <1>3

-----------------------------------------------------------------------------
(* What the steps of the views have in common.                               *)

(* No lease of this step is new: each ends, stays pending, or stays active   *)
(* for the same target.                                                      *)
Lowers ==
    \A c \in VClient :
        \/ lease'[c].kind = "none"
        \/ /\ lease[c].kind = "pending" /\ lease'[c].kind = "pending"
           /\ lease'[c].op = lease[c].op
        \/ /\ lease[c].kind = "active" /\ lease'[c].kind = "active"
           /\ lease'[c].target = lease[c].target /\ lease'[c].last >= lease[c].last

(* The finished jobs of the queue stay, d places further in front.           *)
QueueShift(d) == \A i \in Finished' : i + d \in Finished /\ mutations'[i] = mutations[i + d]

(* No observation is new but one of this moment.                             *)
FlightStep == \A o \in Flight' : o \in Flight \/ o.witnesses = focus'

(* Occurrences keep their order or are newer than every observation.         *)
UnreadStep == \A p \in VPane : \/ unread'[p].order = unread[p].order
                               \/ unread'[p].order > used.order

(* A pane is read by a view that is remembered or present.                   *)
ReadStep ==
    \A p \in VPane : unread'[p].read /\ unread'[p].by = "view" =>
        \/ unread'[p] = unread[p] \/ unread'[p].order <= saw[p]
        \/ \E c \in VClient : Looked(focus'[c], p)

SawStep ==
    saw' = [p \in VPane |-> IF \E c \in VClient : Looked(focus'[c], p)
                            THEN unread'[p].order ELSE saw[p]]

(* Why an active peek may end in this step.                                  *)
PeekEndStep ==
    \A c \in VClient :
        lease[c].kind = "active" /\ lease'[c].kind = "none" =>
            \/ own[c] \/ Unlisted(c) \/ lease[c].target \notin topo'
            \/ \E p \in Shows(lease[c].target) : unread'[p].by # "none"

LEMMA FlightShapes == ASSUME PvShapes PROVE Flight \subseteq ObsRec
  BY LenProperties, ElementOfSeq DEF PvShapes, MutationRec, Observer, Flight

LEMMA FinishedShapes ==
    ASSUME PvShapes
    PROVE  \A i \in Finished : i \in DOMAIN mutations /\ mutations[i].job \in JobRec
                               /\ mutations[i].kind = "done" /\ i \in Nat
<1>2. \A m \in MutationRec : m.kind = "done" => m.job \in JobRec BY DEF MutationRec, Observer
<1>. QED BY LenProperties, ElementOfSeq, <1>2 DEF Finished, PvShapes

LEMMA NumbersKeep ==
    ASSUME PvShapes, PvShapes', NumbersRise, NEW d \in Nat, QueueShift(d),
           seq <= seq', seq' <= MaxSeq + 1, topoFloor' <= seq',
           used.order <= used'.order, used.jobs <= used'.jobs,
           \A k \in Observer : obs'[k].seq <= seq' /\ obs'[k].through <= used'.order,
           \A o \in Flight' : o \in Flight \/ (o.seq <= seq' /\ o.through <= used'.order),
           \A p \in VPane : unread'[p].order <= used'.order,
           \A c \in VClient : /\ lease'[c].kind = "active" => lease'[c].last <= seq'
                              /\ lease'[c].kind = "pending" => lease'[c].op <= used'.jobs,
           job'.op <= used'.jobs,
           job'.step # "idle" => \A i \in Finished : mutations[i].job.op < job'.op
    PROVE  NumbersRise'
<1>0. /\ seq \in Nat /\ seq' \in Nat /\ used.order \in Nat /\ used'.order \in Nat
      /\ used.jobs \in Nat /\ used'.jobs \in Nat
  BY DEF PvShapes
<1>3. \A i \in Finished' : /\ mutations'[i].job.op <= used'.jobs
                           /\ mutations'[i].job.floor <= seq'
                           /\ mutations'[i].job.client \in VClient
                           /\ job'.step # "idle" => mutations'[i].job.op < job'.op
  BY <1>0, FinishedShapes DEF QueueShift, JobRec, NumbersRise
<1>4. \A i, j \in Finished' : i <= j => mutations'[i].job.op <= mutations'[j].job.op
  <2>. SUFFICES ASSUME NEW i \in Finished', NEW j \in Finished', i <= j
                PROVE  mutations'[i].job.op <= mutations'[j].job.op
    OBVIOUS
  <2>1. i \in Nat /\ j \in Nat BY LenProperties DEF Finished, PvShapes
  <2>. QED BY <2>1 DEF NumbersRise, QueueShift
<1>. QED BY FlightShapes, <1>0, <1>3, <1>4 DEF NumbersRise, ObsRec

LEMMA LooksKeep ==
    ASSUME PvShapes, PvShapes', NumbersRise, LooksRemembered, SawStep, FlightStep, UnreadStep
    PROVE  LooksRemembered'
<1>2. ASSUME NEW o \in Flight', NEW c \in VClient, NEW p \in VPane,
             Looked(o.witnesses[c], p), unread'[p].order <= o.through
      PROVE  unread'[p].order <= saw'[p]
  <2>0. unread'[p].order \in Nat /\ unread[p].order \in Nat /\ saw[p] \in Nat /\ used.order \in Nat BY DEF PvShapes
  <2>1. CASE o.witnesses = focus' BY <1>2, <2>0, <2>1 DEF SawStep
  <2>2. CASE o \in Flight
    BY <2>2, FlightShapes, <1>2, <2>0 DEF ObsRec, NumbersRise, UnreadStep, LooksRemembered, SawStep
  <2>. QED BY <2>1, <2>2 DEF FlightStep
<1>. QED BY <1>2 DEF LooksRemembered, SawStep

LEMMA ReadsKeep ==
    ASSUME PvShapes, PvShapes', ReadWasFocused, SawStep, ReadStep
    PROVE  ReadWasFocused'
<1>. SUFFICES ASSUME NEW p \in VPane, unread'[p].read, unread'[p].by = "view"
              PROVE  unread'[p].order <= saw'[p]
  BY DEF ReadWasFocused
<1>0. unread'[p].order \in Nat /\ unread[p].order \in Nat /\ saw[p] \in Nat BY DEF PvShapes
<1>. QED BY <1>0 DEF ReadStep, ReadWasFocused, SawStep

(* ShownAt in the next state.                                                *)
ShownNext(c, p, s) == focus'[c] = p /\ \A o \in Flight' : o.seq > s => o.witnesses[c] = p

(* What PeeksHold says in the next state, one clause at a time.              *)
LEMMA PeeksNext ==
    ASSUME \A c \in VClient :
              lease'[c].kind = "active" /\ ~own'[c] =>
                 ShownNext(c, lease'[c].target, lease'[c].last),
           \A i \in Finished' :
              LET j == mutations'[i].job
              IN /\ /\ Peeks(j) /\ j.result = "ok" /\ ~own'[j.client]
                    /\ lease'[j.client].kind = "pending" /\ lease'[j.client].op = j.op
                    => ShownNext(j.client, j.target, j.floor)
                 /\ ~Peeks(j) /\ j.result = "ok" /\ ~own'[j.client] =>
                    /\ lease'[j.client].kind # "active"
                    /\ lease'[j.client].kind = "pending" => lease'[j.client].op > j.op,
           job'.step # "idle" /\ Peeks(job') =>
              /\ lease'[job'.client].kind # "active"
              /\ lease'[job'.client].kind = "pending" => lease'[job'.client].op = job'.op
              /\ job'.step = "ran" /\ job'.result = "ok" /\ ~own'[job'.client] =>
                    focus'[job'.client] = job'.target,
           job'.step = "ran" /\ ~Peeks(job') /\ job'.result = "ok" => own'[job'.client]
    PROVE  PeeksHold'
  BY DEF PeeksHold, ShownNext, ShownAt, Awaits, Peeks

LEMMA PeeksLower ==
    ASSUME PvShapes, PvShapes', NumbersRise, PeeksHold, Lowers, NEW d \in Nat, QueueShift(d),
           UNCHANGED <<focus, own, job>>, \A o \in Flight' : o \in Flight
    PROVE  PeeksHold'
<1>0. \A c \in VClient : lease[c] \in LeaseRec /\ lease'[c] \in LeaseRec BY DEF PvShapes
<1>1. ASSUME NEW c \in VClient, lease'[c].kind = "active", ~own'[c]
      PROVE  ShownNext(c, lease'[c].target, lease'[c].last)
  BY <1>1, <1>0, LeaseFields, FlightShapes DEF Lowers, PeeksHold, ObsRec, ShownAt, ShownNext
<1>2. ASSUME NEW i \in Finished'
      PROVE  LET j == mutations'[i].job
              IN /\ /\ Peeks(j) /\ j.result = "ok" /\ ~own'[j.client]
                    /\ lease'[j.client].kind = "pending" /\ lease'[j.client].op = j.op
                    => ShownNext(j.client, j.target, j.floor)
                 /\ ~Peeks(j) /\ j.result = "ok" /\ ~own'[j.client] =>
                    /\ lease'[j.client].kind # "active"
                    /\ lease'[j.client].kind = "pending" => lease'[j.client].op > j.op
  <2>. DEFINE j == mutations[i + d].job
  <2>1. i + d \in Finished /\ mutations'[i].job = j BY DEF QueueShift
  <2>3. /\ Peeks(j) /\ j.result = "ok" /\ Awaits(j.client, j.op) /\ ~own[j.client] =>
              ShownAt(j.client, j.target, j.floor)
        /\ ~Peeks(j) /\ j.result = "ok" /\ ~own[j.client] =>
              /\ lease[j.client].kind # "active"
              /\ lease[j.client].kind = "pending" => lease[j.client].op > j.op
    BY <2>1 DEF PeeksHold
  <2>4. /\ lease'[j.client].kind = "pending" =>
              lease[j.client].kind = "pending" /\ lease'[j.client].op = lease[j.client].op
        /\ lease'[j.client].kind = "active" => lease[j.client].kind = "active"
    BY <2>1 DEF Lowers, NumbersRise
  <2>. HIDE DEF j
  <2>. QED BY <2>1, <2>3, <2>4 DEF ShownAt, ShownNext, Awaits
<1>. QED BY <1>1, <1>2, PeeksNext DEF PeeksHold, Lowers, PvShapes

(* Taking a mutation from the queue (and perhaps asking for a                *)
(* reconciliation) moves the others to the front.                            *)
LEMMA QueueTaken ==
    ASSUME PvShapes, mutations # <<>>, UNCHANGED obs,
           mutations' = Tail(mutations) \/ mutations' = Append(Tail(mutations), [kind |-> "views"])
    PROVE  /\ mutations' \in Seq(MutationRec) /\ QueueShift(1)
           /\ \A o \in Flight' : o \in Flight
           /\ 1 \in DOMAIN mutations /\ Head(mutations) = mutations[1]
           /\ Head(mutations) \in MutationRec
<1>1. /\ mutations \in Seq(MutationRec)
      /\ Head(mutations) \in MutationRec /\ Tail(mutations) \in Seq(MutationRec)
      /\ Head(mutations) = mutations[1] /\ 1 \in DOMAIN mutations
      /\ \A i \in DOMAIN Tail(mutations) :
            i + 1 \in DOMAIN mutations /\ Tail(mutations)[i] = mutations[i + 1]
  BY Taken_ DEF PvShapes
<1>3. /\ mutations' \in Seq(MutationRec)
      /\ \A i \in DOMAIN mutations' :
            \/ i \in DOMAIN Tail(mutations) /\ mutations'[i] = Tail(mutations)[i]
            \/ mutations'[i] = [kind |-> "views"]
  <2>. DEFINE q == Tail(mutations)
  <2>1. CASE mutations' = q BY <1>1, <2>1
  <2>2. CASE mutations' = Append(q, [kind |-> "views"])
    <3>1. q \in Seq(MutationRec) BY <1>1
    <3>. HIDE DEF q
    <3>. QED BY <2>2, <3>1, Appended DEF q, MutationRec
  <2>. QED BY <2>1, <2>2
<1>6. \A o \in Flight' : o \in Flight BY <1>1, <1>3 DEF Flight, Observer
<1>. QED BY <1>1, <1>3, <1>6 DEF QueueShift, Finished

LEMMA QueueKept ==
    ASSUME PvShapes, UNCHANGED mutations
    PROVE  mutations' \in Seq(MutationRec) /\ QueueShift(0)
  BY FinishedShapes DEF PvShapes, QueueShift, Finished

LEMMA ObserversKept ==
    ASSUME UNCHANGED <<obs, mutations>>
    PROVE  \A o \in Flight' : o \in Flight
  BY DEF Flight

(* read_authorized_panes: what the clients of the observation look at.       *)
LEMMA AuthorizedLooked ==
    ASSUME NEW ls, NEW w \in [VClient -> Places]
    PROVE  \A p \in read_authorized_panes(ls, w) : \E c \in VClient : Looked(w[c], p)
  BY DEF read_authorized_panes, Looked

LEMMA ShowsPanes == \A p \in VPane : Shows(p) \subseteq VPane /\ p \in Shows(p) BY DEF Shows

(* What reconcile_views_with_witnesses does to leases, views and reads.      *)
Reconciled(ls, t, o) ==
    /\ lease' \in [VClient -> LeaseRec] /\ views' \in [VClient -> Places]
    /\ unread' \in [VPane -> [order : Nat, read : BOOLEAN, by : {"none", "view", "asked"}]]
    /\ \A p \in VPane :
          /\ unread'[p].order = unread[p].order
          /\ \/ unread'[p] = unread[p]
             \/ /\ unread'[p].by = "view" /\ unread[p].order <= o.through
                /\ \E c \in VClient : Looked(o.witnesses[c], p)
    /\ \A c \in VClient :
          \/ lease'[c] = ls[c]
          \/ /\ lease'[c].kind = "none"
             /\ ls[c].kind = "active" => \/ Lapsed(ls[c], o.witnesses[c], o.seq, t)
                                         \/ unread'[ls[c].target].by = "view"
          \/ ls[c].kind = "pending" /\ lease'[c].kind = "pending" /\ lease'[c].op = ls[c].op
          \/ /\ ls[c].kind = "active" /\ lease'[c].kind = "active"
             /\ lease'[c].target = ls[c].target
             /\ lease'[c].last = o.seq /\ o.seq > ls[c].last

LEMMA Reconciling ==
    ASSUME PvShapes, NEW ls \in [VClient -> LeaseRec], NEW t,
           NEW o, o.witnesses \in [VClient -> Places], o.seq \in Nat, o.through \in Nat,
           NEW checked \in BOOLEAN, ReconcileViews(ls, t, o, checked)
    PROVE  Reconciled(ls, t, o)
<1>0. /\ views \in [VClient -> Places]
      /\ unread \in [VPane -> [order : Nat, read : BOOLEAN, by : {"none", "view", "asked"}]]
  BY DEF PvShapes
<1>1. CASE checked /\ o.base # views BY <1>1, <1>0 DEF ReconcileViews, Reconciled
<1>2. CASE ~(checked /\ o.base # views)
  <2>. DEFINE l == reconcile_peek_leases(ls, o.witnesses, o.seq, t)
              reads == ReadIntents(read_authorized_panes(l, o.witnesses), o.through)
  <2>1. /\ lease' = clear_peeks_for_read_panes(l, reads, {})
        /\ unread' = [p \in VPane |-> IF p \in reads
                                      THEN [unread[p] EXCEPT !.read = TRUE, !.by = "view"]
                                      ELSE unread[p]]
        /\ views' = IF \A c \in VClient : o.witnesses[c] \in t \cup {NoView}
                    THEN o.witnesses ELSE views
    BY <1>2 DEF ReconcileViews
  <2>2. /\ l \in [VClient -> LeaseRec]
        /\ \A c \in VClient :
              \/ l[c].kind = "none" /\ Lapsed(ls[c], o.witnesses[c], o.seq, t)
              \/ ls[c].kind = "pending" /\ l[c].kind = "pending" /\ l[c].op = ls[c].op
              \/ Confirmed(ls[c], l[c], o.witnesses[c], o.seq) /\ ls[c].target \in t
    BY ReconciledLeases
  <2>3. \A p \in reads : /\ p \in VPane /\ unread[p].order <= o.through
                         /\ \E c \in VClient : Looked(o.witnesses[c], p)
    BY AuthorizedLooked DEF ReadIntents
  <2>. HIDE DEF l, reads
  <2>4. /\ lease' \in [VClient -> LeaseRec]
        /\ \A c \in VClient :
              \/ lease'[c] = l[c]
              \/ lease'[c].kind = "none" /\ (l[c].kind = "active" => l[c].target \in reads)
    <3>. DEFINE new == clear_peeks_for_read_panes(l, reads, {})
    <3>1. /\ new \in [VClient -> LeaseRec]
          /\ \A c \in VClient :
                \/ new[c] = l[c]
                \/ /\ new[c].kind = "none" /\ c \notin {}
                   /\ l[c].kind = "active" => l[c].target \in reads
      BY <2>2, ClearedLeases
    <3>. HIDE DEF new
    <3>. QED BY <2>1, <3>1 DEF new
  <2>5. /\ unread' \in [VPane -> [order : Nat, read : BOOLEAN, by : {"none", "view", "asked"}]]
        /\ \A p \in VPane :
              /\ unread'[p].order = unread[p].order
              /\ p \in reads => unread'[p].by = "view"
              /\ p \notin reads => unread'[p] = unread[p]
    BY <1>0, <2>1
  <2>7. \A c \in VClient : ls[c].kind = "none" => ls[c] = NoLease BY LeaseFields
  <2>8. ASSUME NEW c \in VClient
        PROVE  \/ lease'[c] = ls[c]
               \/ /\ lease'[c].kind = "none"
                  /\ ls[c].kind = "active" => \/ Lapsed(ls[c], o.witnesses[c], o.seq, t)
                                              \/ unread'[ls[c].target].by = "view"
               \/ ls[c].kind = "pending" /\ lease'[c].kind = "pending" /\ lease'[c].op = ls[c].op
               \/ /\ ls[c].kind = "active" /\ lease'[c].kind = "active"
                  /\ lease'[c].target = ls[c].target
                  /\ lease'[c].last = o.seq /\ o.seq > ls[c].last
    BY <2>2, <2>3, <2>5, <2>4 DEF Confirmed
  <2>. QED BY <2>3, <2>4, <2>5, <1>0, <2>1, <2>8 DEF Reconciled
<1>. QED BY <1>1, <1>2

(* All but ReadWasFocused, which needs more of the proxies.                  *)
PvCore ==
    /\ PvShapes /\ NumbersRise /\ LooksRemembered /\ AnswersListed /\ PeeksHold
    /\ AnsweredStaysKnown

LEMMA SawShapes ==
    ASSUME PvShapes, SawStep,
           unread' \in [VPane -> [order : Nat, read : BOOLEAN, by : {"none", "view", "asked"}]]
    PROVE  saw' \in [VPane -> Nat]
  BY DEF PvShapes, SawStep

(* A step that ends or keeps leases, and neither moves a client nor touches  *)
(* the sidebar's worker.                                                     *)
LEMMA LoweringStep ==
    ASSUME PvCore, PvShapes', SawStep, UNCHANGED <<focus, own, job>>, Lowers,
           NEW d \in Nat, QueueShift(d), \A o \in Flight' : o \in Flight, UnreadStep,
           seq <= seq', seq' <= MaxSeq + 1, topoFloor' <= seq',
           used.order <= used'.order, used.jobs <= used'.jobs,
           \A k \in Observer : obs'[k].seq <= seq' /\ obs'[k].through <= used'.order,
           \A p \in VPane : unread'[p].order <= used'.order,
           \A c \in VClient : lease'[c].kind = "active" => lease'[c].last <= seq',
           AnswersListed', AnsweredStaysKnown'
    PROVE  PvCore'
<1>0. used.jobs \in Nat /\ used'.jobs \in Nat BY DEF PvCore, PvShapes
<1>1. \A c \in VClient : lease'[c].kind = "pending" => lease'[c].op <= used'.jobs
  <2>1. \A c \in VClient : lease[c].kind = "pending" => lease[c].op \in Nat /\ lease[c].op <= used.jobs
    BY LeaseFields DEF PvCore, PvShapes, NumbersRise
  <2>. QED BY <1>0, <2>1 DEF Lowers
<1>2. /\ job'.op <= used'.jobs
      /\ job'.step # "idle" => \A i \in Finished : mutations[i].job.op < job'.op
  BY <1>0 DEF PvCore, PvShapes, JobRec, NumbersRise
<1>5. PeeksHold' BY PeeksLower DEF PvCore
<1>. QED BY <1>0, <1>1, <1>2, NumbersKeep, LooksKeep, <1>5 DEF PvCore, FlightStep

LEMMA SameLeases ==
    ASSUME PvCore, UNCHANGED lease
    PROVE  Lowers /\ PeekEndStep
           /\ \A c \in VClient : lease[c].kind = "active" => lease[c].last \in Nat
  BY LeaseFields DEF PvCore, PvShapes, Lowers, PeekEndStep

LEMMA SameReads ==
    ASSUME PvCore, UNCHANGED unread
    PROVE  UnreadStep /\ ReadStep
  BY DEF UnreadStep, ReadStep

LEMMA SameAnswers ==
    ASSUME PvCore, UNCHANGED <<answered, panesAlive, topo, topoFloor>>,
           \A o \in Flight' : o \in Flight
    PROVE  AnswersListed' /\ AnsweredStaysKnown'
  BY DEF PvCore, AnswersListed, AnsweredStaysKnown

(* The numbers a step finds when it leaves them alone.                       *)
LEMMA Numbers ==
    ASSUME PvCore
    PROVE  /\ seq \in Nat /\ topoFloor \in Nat /\ topoFloor <= seq /\ MaxSeq \in Nat
           /\ seq <= MaxSeq + 1 /\ seq <= seq
           /\ used.order \in Nat /\ used.jobs \in Nat /\ used.focus \in Nat /\ used.errors \in Nat
           /\ \A k \in Observer : /\ obs[k] \in ObsRec /\ obs[k].seq \in Nat
                                  /\ obs[k].through \in Nat
                                  /\ obs[k].seq <= seq /\ obs[k].through <= used.order
           /\ \A p \in VPane : unread[p].order \in Nat /\ unread[p].order <= used.order
           /\ \A c \in VClient : /\ lease[c] \in LeaseRec
                                 /\ lease[c].kind = "active" =>
                                       lease[c].last \in Nat /\ lease[c].last <= seq
  BY LeaseFields, ViewsAssumption DEF PvCore, PvShapes, ObsRec, NumbersRise

(* A pane shown through a proxy is not a proxy itself: the editor of an      *)
(* agent's prompt is no agent that has an editor (focus_proxy_target).       *)
NoProxyChains == \A p, q, r \in VPane : <<p, q>> \in Proxies => <<q, r>> \notin Proxies

PvKept == PvCore' /\ PeekEndStep /\ (NoProxyChains => ReadStep)

LEMMA PaneChangesStep ==
    ASSUME PvCore, SawStep, NEW p \in VPane, PaneChanges(p)
    PROVE  PvKept
<1>1. /\ UNCHANGED <<focus, own, topo, topoFloor, lease, views, unread, seq, obs, mutations, job>>
      /\ panesAlive' = IF p \in panesAlive THEN panesAlive \ {p} ELSE panesAlive \cup {p}
      /\ answered' = answered \ {p}
      /\ used' = [used EXCEPT !.focus = @ + 1]
  BY DEF PaneChanges
<1>. DEFINE n == used.focus + 1
<1>2. n \in Nat /\ used' = [used EXCEPT !.focus = n] BY <1>1, Numbers
<1>. HIDE DEF n
<1>3. /\ used' \in [focus : Nat, order : Nat, jobs : Nat, errors : Nat]
      /\ used'.order = used.order /\ used'.jobs = used.jobs
  BY <1>2 DEF PvCore, PvShapes
<1>4. PvShapes' BY <1>1, <1>3, SawShapes DEF PvCore, PvShapes
<1>6. AnswersListed' /\ AnsweredStaysKnown' BY <1>1, ObserversKept DEF PvCore, AnswersListed, AnsweredStaysKnown
<1>7. QueueShift(0) /\ Lowers /\ PeekEndStep /\ UnreadStep /\ ReadStep
  BY <1>1, QueueKept, SameLeases, SameReads DEF PvCore
<1>8. PvCore' BY <1>1, <1>3, <1>4, ObserversKept, <1>6, <1>7, LoweringStep, Numbers
<1>. QED BY <1>7, <1>8 DEF PvKept

LEMMA BeginStep ==
    ASSUME PvCore, SawStep, NEW k \in Observer, begin_witness_observation(k)
    PROVE  PvKept
<1>. DEFINE n == seq + 1
            o == [IdleObs EXCEPT !.step = "numbered", !.base = IF k = "poll" THEN views ELSE @,
                                 !.through = used.order, !.seq = n]
<1>1. /\ UNCHANGED <<focus, own, panesAlive, topo, topoFloor, lease, views, unread, mutations, job,
                     answered, used>>
      /\ seq' = n /\ seq < MaxSeq /\ obs' = [obs EXCEPT ![k] = o]
  BY DEF begin_witness_observation
<1>2. n \in Nat /\ n <= MaxSeq + 1 /\ seq <= n /\ topoFloor <= n BY <1>1, Numbers
<1>3. o \in ObsRec /\ o.step = "numbered" /\ o.seq = n /\ o.through = used.order
  <2>. DEFINE none == [c \in VClient |-> NoView]
              b == IF k = "poll" THEN views ELSE none
  <2>1. none \in [VClient -> Places] /\ views \in [VClient -> Places] BY DEF Places, PvCore, PvShapes
  <2>2. b \in [VClient -> Places] /\ used.order \in Nat BY <2>1, Numbers
  <2>3. o = [step |-> "numbered", base |-> b, through |-> used.order, seq |-> n,
             witnesses |-> none, panes |-> {}]
    <3>1. IdleObs = [step |-> "idle", base |-> none, through |-> 0, seq |-> 0,
                     witnesses |-> none, panes |-> {}]
      BY DEF IdleObs
    <3>. HIDE DEF none
    <3>2. o = [IdleObs EXCEPT !.step = "numbered", !.base = b, !.through = used.order, !.seq = n] BY <3>1
    <3>. HIDE DEF b, o, n
    <3>. QED BY <3>1, <3>2
  <2>. HIDE DEF none, b, o, n
  <2>. QED BY <1>2, <2>1, <2>2, <2>3 DEF ObsRec
<1>. HIDE DEF n, o
<1>4. /\ obs' \in [Observer -> ObsRec] /\ obs'[k] = o
      /\ \A h \in Observer : h # k => obs'[h] = obs[h]
  BY <1>1, <1>3 DEF PvCore, PvShapes
<1>5. PvShapes' BY <1>1, <1>2, <1>4, SawShapes DEF PvCore, PvShapes
<1>6. \A x \in Flight' : x \in Flight BY <1>1, <1>3, <1>4 DEF Flight
<1>7. QueueShift(0) /\ Lowers /\ PeekEndStep /\ UnreadStep /\ ReadStep
      /\ AnswersListed' /\ AnsweredStaysKnown'
  BY <1>1, <1>6, QueueKept, SameLeases, SameReads, SameAnswers DEF PvCore
<1>10. PvCore' BY <1>1, <1>2, <1>5, <1>6, <1>7, <1>3, <1>4, Numbers, LoweringStep
<1>. QED BY <1>7, <1>10 DEF PvKept

LEMMA IdleObservation ==
    IdleObs \in ObsRec /\ IdleObs.seq = 0 /\ IdleObs.through = 0 /\ IdleObs.step = "idle"
<1>. DEFINE none == [c \in VClient |-> NoView]
<1>1. none \in [VClient -> Places] BY DEF Places
<1>2. IdleObs = [step |-> "idle", base |-> none, through |-> 0, seq |-> 0,
                 witnesses |-> none, panes |-> {}]
  BY DEF IdleObs
<1>. HIDE DEF none
<1>. QED BY <1>1, <1>2 DEF ObsRec

(* The answer of tmux: the observation is of this moment.                    *)
LEMMA QueryStep ==
    ASSUME PvCore, SawStep, NEW k \in Observer, query_client_witnesses(k)
    PROVE  PvKept
<1>. DEFINE o == [obs[k] EXCEPT !.step = "asked", !.witnesses = focus, !.panes = panesAlive]
<1>1. /\ UNCHANGED <<focus, own, panesAlive, topo, topoFloor, lease, views, unread, seq, mutations,
                     job, answered, used>>
      /\ obs' = [obs EXCEPT ![k] = o] \/ obs' = [obs EXCEPT ![k] = IdleObs]
  BY DEF query_client_witnesses, PvCore, PvShapes
<1>3. /\ o \in ObsRec /\ o.step = "asked" /\ o.witnesses = focus /\ o.panes = panesAlive
      /\ o.seq = obs[k].seq /\ o.through = obs[k].through
  BY DEF ObsRec, PvCore, PvShapes
<1>. HIDE DEF o
<1>4. IdleObs \in ObsRec /\ IdleObs.seq = 0 /\ IdleObs.through = 0 /\ IdleObs.step = "idle" BY IdleObservation
<1>5. /\ obs' \in [Observer -> ObsRec] /\ obs'[k] \in {o, IdleObs}
      /\ \A h \in Observer : h # k => obs'[h] = obs[h]
  BY <1>1, <1>3, <1>4 DEF PvCore, PvShapes
<1>6. PvShapes' BY <1>1, <1>5, SawShapes DEF PvCore, PvShapes
<1>7. \A x \in Flight' : x \in Flight \/ x = o BY <1>1, <1>4, <1>5 DEF Flight
<1>8. QueueShift(0) /\ Lowers /\ PeekEndStep /\ UnreadStep /\ ReadStep /\ FlightStep
  BY <1>1, <1>3, <1>7, QueueKept, SameLeases, SameReads DEF PvCore, FlightStep
<1>9. NumbersRise' BY <1>1, <1>3, <1>4, <1>5, Numbers, <1>7, <1>6, <1>8, NumbersKeep DEF PvCore, NumbersRise
<1>12. PeeksHold'
  BY <1>1, <1>3, <1>7, PeeksNext DEF Finished, ShownAt, ShownNext, PvCore, PeeksHold, NumbersRise, Awaits
<1>. QED
  BY <1>8, <1>6, <1>9, LooksKeep, <1>1, <1>3, <1>7, <1>12 DEF PvKept, PvCore, AnswersListed, AnsweredStaysKnown

LEMMA SendStep ==
    ASSUME PvCore, SawStep, NEW k \in Observer, ObserveSend(k)
    PROVE  PvKept
<1>. DEFINE m == [kind |-> k, obs |-> obs[k]]
<1>1. /\ UNCHANGED <<focus, own, panesAlive, topo, topoFloor, lease, views, unread, seq, job,
                     answered, used>>
      /\ mutations' = Append(mutations, m) /\ obs' = [obs EXCEPT ![k] = IdleObs]
      /\ obs[k].step = "asked"
  BY DEF ObserveSend
<1>2. obs \in [Observer -> ObsRec] /\ mutations \in Seq(MutationRec) BY DEF PvCore, PvShapes
<1>3. m \in MutationRec /\ m.kind = k /\ m.obs = obs[k] /\ k # "done" BY <1>2 DEF MutationRec, Observer
<1>. HIDE DEF m
<1>4. /\ mutations' \in Seq(MutationRec)
      /\ \A i \in DOMAIN mutations' :
            \/ i \in DOMAIN mutations /\ mutations'[i] = mutations[i]
            \/ mutations'[i] = m
  BY <1>1, <1>2, <1>3, Appended
<1>5. /\ obs' \in [Observer -> ObsRec] /\ obs'[k] = IdleObs
      /\ \A h \in Observer : h # k => obs'[h] = obs[h]
  BY <1>1, <1>2, IdleObservation
<1>6. PvShapes' BY <1>1, <1>4, <1>5, SawShapes DEF PvCore, PvShapes
<1>7. \A o \in Flight' : o \in Flight BY <1>1, <1>3, <1>4, <1>5, IdleObservation DEF Flight
<1>8. QueueShift(0) BY <1>3, <1>4, FinishedShapes DEF Finished, PvCore, QueueShift
<1>9. Lowers /\ PeekEndStep /\ UnreadStep /\ ReadStep /\ AnswersListed' /\ AnsweredStaysKnown'
  BY <1>1, <1>7, SameLeases, SameReads, SameAnswers
<1>. QED BY <1>9, <1>1, <1>6, <1>7, <1>8, <1>5, Numbers, IdleObservation, LoweringStep DEF PvKept

LEMMA RefreshStep ==
    ASSUME PvCore, SawStep, NEW p \in VPane, RefreshTopology(p)
    PROVE  PvKept
<1>. DEFINE n == used.order + 1
<1>1. /\ UNCHANGED <<focus, own, panesAlive, views, unread, seq, obs, mutations, job>>
      /\ p \in panesAlive /\ (topo' = panesAlive \/ topo' = topo \cup {p})
      /\ topoFloor' = IF seq > topoFloor THEN seq ELSE topoFloor
      /\ lease' = LeasesIn(lease, topo')
      /\ answered' = answered \cup {p}
      /\ used' = [used EXCEPT !.order = n]
  BY DEF RefreshTopology
<1>2. n \in Nat /\ n > used.order BY Numbers
<1>. HIDE DEF n
<1>3. /\ used' \in [focus : Nat, order : Nat, jobs : Nat, errors : Nat]
      /\ used'.order = n /\ used'.jobs = used.jobs
  BY <1>1, <1>2 DEF PvCore, PvShapes
<1>4. /\ lease' \in [VClient -> LeaseRec]
      /\ \A c \in VClient :
            \/ lease'[c].kind = "none" /\ (lease[c].kind = "active" => lease[c].target \notin topo')
            \/ /\ lease[c].kind = "pending" /\ lease'[c].kind = "pending"
               /\ lease'[c].op = lease[c].op
            \/ lease[c].kind = "active" /\ lease'[c] = lease[c]
  <2>1. lease \in [VClient -> LeaseRec] BY DEF PvCore, PvShapes
  <2>. QED BY <1>1, <2>1, TopologyLeases
<1>5. topoFloor' = seq BY <1>1, Numbers
<1>6. PvShapes' BY <1>1, <1>3, <1>4, <1>5, SawShapes DEF PvCore, PvShapes
<1>7. \A o \in Flight' : o \in Flight BY <1>1, ObserversKept
<1>8. AnswersListed' /\ AnsweredStaysKnown'
  BY Numbers, FlightShapes, <1>1, <1>5, <1>7 DEF PvCore, NumbersRise, ObsRec, AnswersListed, AnsweredStaysKnown
<1>9. Lowers /\ PeekEndStep BY <1>4, Numbers DEF Lowers, PeekEndStep
<1>10. UnreadStep /\ ReadStep /\ QueueShift(0) BY <1>1, SameReads, QueueKept DEF PvCore
<1>11. /\ \A h \in Observer : obs'[h].seq <= seq' /\ obs'[h].through <= used'.order
       /\ \A q \in VPane : unread'[q].order <= used'.order
       /\ \A c \in VClient : lease'[c].kind = "active" => lease'[c].last <= seq'
  BY <1>1, <1>2, <1>3, <1>4, Numbers
<1>12. PvCore' BY <1>1, <1>2, <1>3, <1>5, <1>6, <1>7, <1>8, <1>9, <1>10, <1>11, LoweringStep, Numbers
<1>. QED BY <1>9, <1>10, <1>12 DEF PvKept

(* What a reconciliation with one observation does to peeks and reads.       *)
LEMMA ReconciledSteps ==
    ASSUME PvCore, UNCHANGED focus, NEW ls \in [VClient -> LeaseRec],
           \A c \in VClient :
              \/ ls[c] = lease[c]
              \/ ls[c].kind = "none" /\ (lease[c].kind = "active" => lease[c].target \notin topo')
              \/ lease[c].kind = "pending" /\ ls[c].kind = "pending" /\ ls[c].op = lease[c].op,
           NEW o, o \in Flight \/ o.witnesses = focus, Reconciled(ls, topo', o),
           o.seq \in Nat, o.through \in Nat, o.seq <= seq', seq' \in Nat, seq <= seq',
           \A c \in VClient : o.witnesses[c] = NoView => Unlisted(c) \/ o.witnesses = focus
    PROVE  /\ Lowers /\ PeekEndStep /\ UnreadStep /\ ReadStep
           /\ \A c \in VClient : lease'[c].kind = "active" => lease'[c].last <= seq'
           /\ \A p \in VPane : unread'[p].order <= used.order
<1>1. ASSUME NEW c \in VClient
      PROVE  /\ \/ lease'[c].kind = "none"
                \/ /\ lease[c].kind = "pending" /\ lease'[c].kind = "pending"
                   /\ lease'[c].op = lease[c].op
                \/ /\ lease[c].kind = "active" /\ lease'[c].kind = "active"
                   /\ lease'[c].target = lease[c].target /\ lease'[c].last >= lease[c].last
             /\ lease'[c].kind = "active" => lease'[c].last <= seq'
  BY Numbers, LeaseFields DEF Reconciled
<1>2. ASSUME NEW c \in VClient, lease[c].kind = "active", lease'[c].kind = "none", ~own[c],
             ~Unlisted(c), lease[c].target \in topo'
      PROVE  \E p \in Shows(lease[c].target) : unread'[p].by # "none"
  BY <1>2, Numbers, LeaseFields, ViewsAssumption, ShowsPanes DEF PvCore, PeeksHold, ShownAt, Reconciled, Lapsed
<1>. QED BY <1>1, <1>2, Numbers DEF Lowers, PeekEndStep, UnreadStep, Reconciled, ReadStep, PvCore, LooksRemembered

(* The observation at the head of the queue.                                 *)
LEMMA HeadObservation ==
    ASSUME PvCore, NEW k \in Observer, Head_(k)
    PROVE  LET o == Head(mutations).obs
           IN /\ o \in Flight /\ o \in ObsRec /\ o.witnesses \in [VClient -> Places]
              /\ o.seq \in Nat /\ o.through \in Nat /\ o.panes \in SUBSET VPane /\ o.seq <= seq
              /\ \A c \in VClient : o.witnesses[c] = NoView => Unlisted(c)
<1>3. Head(mutations).obs \in Flight BY Taken_ DEF Flight, Head_, PvCore, PvShapes
<1>. QED BY <1>3, FlightShapes DEF ObsRec, PvCore, Unlisted, NumbersRise

LEMMA ApplyPollStep == ASSUME PvCore, SawStep, ApplyPoll PROVE PvKept
<1>. DEFINE o == Head(mutations).obs
            ls == IF apply_topology_observation(o) /\ topo # o.panes
                  THEN LeasesIn(lease, o.panes) ELSE lease
<1>0. mutations # <<>> /\ mutations' = Tail(mutations)
      /\ UNCHANGED <<focus, own, panesAlive, seq, obs, job, answered, used>>
  BY DEF ApplyPoll, Head_, Popped
<1>1. /\ o \in Flight /\ o.witnesses \in [VClient -> Places]
      /\ o.seq \in Nat /\ o.through \in Nat /\ o.panes \in SUBSET VPane /\ o.seq <= seq
      /\ \A c \in VClient : o.witnesses[c] = NoView => Unlisted(c)
  BY HeadObservation DEF ApplyPoll, Observer
<1>2. /\ apply_topology_observation(o) => topo' = o.panes /\ topoFloor' = o.seq
      /\ ~apply_topology_observation(o) => UNCHANGED <<topo, topoFloor>>
      /\ ReconcileViews(ls, topo', o, TRUE)
  BY DEF ApplyPoll
<1>3. /\ lease \in [VClient -> LeaseRec]
      /\ topo' \in SUBSET VPane /\ topoFloor' \in Nat /\ topoFloor' <= seq
  BY <1>1, <1>2, Numbers DEF PvCore, PvShapes
<1>4. /\ ls \in [VClient -> LeaseRec]
      /\ \A c \in VClient :
            \/ ls[c] = lease[c]
            \/ ls[c].kind = "none" /\ (lease[c].kind = "active" => lease[c].target \notin topo')
            \/ lease[c].kind = "pending" /\ ls[c].kind = "pending" /\ ls[c].op = lease[c].op
  BY <1>2, <1>3, TopologyLeases
<1>. HIDE DEF ls, o
<1>5. Reconciled(ls, topo', o) BY <1>1, <1>2, <1>4, Reconciling DEF PvCore
<1>6. mutations' \in Seq(MutationRec) /\ QueueShift(1) /\ \A x \in Flight' : x \in Flight
  BY <1>0, QueueTaken DEF PvCore
<1>7. PvShapes' BY <1>0, <1>3, <1>5, <1>6, SawShapes DEF PvCore, PvShapes, Reconciled
<1>8. /\ Lowers /\ PeekEndStep /\ UnreadStep /\ ReadStep
      /\ \A c \in VClient : lease'[c].kind = "active" => lease'[c].last <= seq'
      /\ \A p \in VPane : unread'[p].order <= used.order
  BY <1>0, <1>1, <1>4, <1>5, ReconciledSteps, Numbers
<1>9. AnswersListed' /\ AnsweredStaysKnown'
  <2>1. CASE apply_topology_observation(o)
    <3>1. answered \subseteq o.panes /\ topoFloor' = o.seq /\ o.seq > topoFloor /\ topo' = o.panes
      BY <1>1, <1>2, <2>1 DEF PvCore, AnswersListed, apply_topology_observation
    <3>2. \A x \in Flight : x.seq \in Nat /\ (x.seq > topoFloor' => x.seq > topoFloor)
      BY <1>1, <3>1, Numbers, FlightShapes DEF PvCore, ObsRec
    <3>. QED BY <1>0, <1>6, <3>1, <3>2 DEF PvCore, AnswersListed, AnsweredStaysKnown
  <2>2. CASE ~apply_topology_observation(o) BY <1>0, <1>2, <1>6, <2>2, SameAnswers
  <2>. QED BY <2>1, <2>2
<1>10. used.jobs <= used'.jobs /\ used.order <= used'.order BY <1>0, Numbers
<1>. QED BY <1>8, <1>0, <1>3, <1>6, <1>7, <1>9, <1>10, LoweringStep, Numbers DEF PvKept

LEMMA ApplyViewsStep == ASSUME PvCore, SawStep, ApplyViews PROVE PvKept
<1>. DEFINE o == Head(mutations).obs
<1>0. /\ mutations # <<>> /\ mutations' = Tail(mutations)
      /\ UNCHANGED <<focus, own, panesAlive, topo, topoFloor, seq, obs, job, answered, used>>
      /\ ReconcileViews(lease, topo, o, FALSE)
  BY DEF ApplyViews, Head_, Popped
<1>1. /\ o \in Flight /\ o.witnesses \in [VClient -> Places]
      /\ o.seq \in Nat /\ o.through \in Nat /\ o.panes \in SUBSET VPane /\ o.seq <= seq
      /\ \A c \in VClient : o.witnesses[c] = NoView => Unlisted(c)
  BY HeadObservation DEF ApplyViews, Observer
<1>. HIDE DEF o
<1>3. Reconciled(lease, topo, o) /\ Reconciled(lease, topo', o)
  BY <1>0, <1>1, Reconciling DEF PvCore, Reconciled, PvShapes
<1>5. PvShapes' BY <1>0, <1>3, QueueTaken, SawShapes DEF PvCore, PvShapes, Reconciled
<1>6. /\ Lowers /\ PeekEndStep /\ UnreadStep /\ ReadStep
      /\ \A c \in VClient : lease'[c].kind = "active" => lease'[c].last <= seq'
      /\ \A p \in VPane : unread'[p].order <= used.order
  BY <1>0, <1>1, <1>3, ReconciledSteps, Numbers DEF PvCore, PvShapes
<1>8. PvCore' BY <1>0, QueueTaken, <1>5, <1>6, SameAnswers, LoweringStep, Numbers DEF PvCore
<1>. QED BY <1>6, <1>8 DEF PvKept

LEMMA FocusStep ==
    ASSUME PvCore, SawStep, NEW c \in VClient, NEW p \in VPane \cup {NoView}, Focus(c, p)
    PROVE  PvKept
<1>. DEFINE n == used.focus + 1
<1>1. /\ UNCHANGED <<panesAlive, topo, topoFloor, lease, views, unread, seq, obs, mutations, job,
                     answered>>
      /\ focus' = [focus EXCEPT ![c] = p] /\ own' = [own EXCEPT ![c] = TRUE]
      /\ used' = [used EXCEPT !.focus = n]
  BY DEF Focus
<1>2. n \in Nat BY Numbers
<1>. HIDE DEF n
<1>3. /\ used' \in [focus : Nat, order : Nat, jobs : Nat, errors : Nat]
      /\ used'.order = used.order /\ used'.jobs = used.jobs
  BY <1>1, <1>2 DEF PvCore, PvShapes
<1>4. /\ focus' \in [VClient -> Places] /\ own' \in [VClient -> BOOLEAN] /\ own'[c] = TRUE
      /\ \A d \in VClient : d # c => focus'[d] = focus[d] /\ own'[d] = own[d]
  BY <1>1 DEF PvCore, PvShapes, Places
<1>5. PvShapes' BY <1>1, <1>3, <1>4, SawShapes DEF PvCore, PvShapes
<1>6. /\ \A o \in Flight' : o \in Flight
      /\ QueueShift(0) /\ Lowers /\ PeekEndStep /\ UnreadStep /\ ReadStep
  BY <1>1, ObserversKept, QueueKept, SameLeases, SameReads DEF PvCore
<1>10. PeeksHold'
  <2>1. \A d \in VClient : ~own'[d] => ~own[d] /\ focus'[d] = focus[d] BY <1>4
  <2>2. \A d \in VClient : \A q, s : ~own'[d] /\ ShownAt(d, q, s) => ShownNext(d, q, s)
    BY <1>6, <2>1 DEF ShownAt, ShownNext
  <2>3. ASSUME NEW d \in VClient, lease'[d].kind = "active", ~own'[d]
        PROVE  ShownNext(d, lease'[d].target, lease'[d].last)
    BY <1>1, <2>1, <2>2, <2>3 DEF PvCore, PeeksHold
  <2>4. ASSUME NEW i \in Finished'
        PROVE  LET j == mutations'[i].job
              IN /\ /\ Peeks(j) /\ j.result = "ok" /\ ~own'[j.client]
                    /\ lease'[j.client].kind = "pending" /\ lease'[j.client].op = j.op
                    => ShownNext(j.client, j.target, j.floor)
                 /\ ~Peeks(j) /\ j.result = "ok" /\ ~own'[j.client] =>
                    /\ lease'[j.client].kind # "active"
                    /\ lease'[j.client].kind = "pending" => lease'[j.client].op > j.op
    BY <1>1, <2>1, <2>2, <2>4 DEF PvCore, PeeksHold, NumbersRise, Awaits, Finished
  <2>. QED BY <2>3, <2>4, <1>1, <2>1, PeeksNext DEF PvCore, PeeksHold, PvShapes
<1>11. PvCore'
  BY <1>5, <1>1, <1>6, SameAnswers, <1>3, NumbersKeep, Numbers, LooksKeep, <1>10 DEF PvCore, NumbersRise, FlightStep
<1>. QED BY <1>6, <1>11 DEF PvKept

(* The reconciliation of one of the daemon's own mutations: its observation  *)
(* is made when it is applied.                                               *)
LEMMA ApplyReconcileStep == ASSUME PvCore, SawStep, ApplyReconcile PROVE PvKept
<1>. DEFINE n == seq + 1
            o == [IdleObs EXCEPT !.witnesses = focus, !.seq = n, !.through = used.order]
<1>0. /\ mutations # <<>> /\ mutations' = Tail(mutations) /\ seq < MaxSeq /\ seq' = n
      /\ UNCHANGED <<focus, own, panesAlive, topo, topoFloor, obs, job, answered, used>>
      /\ ReconcileViews(lease, topo, o, FALSE)
  BY DEF ApplyReconcile, Head_, Popped
<1>1. n \in Nat /\ n <= MaxSeq + 1 /\ seq <= n /\ topoFloor <= n BY <1>0, Numbers
<1>2. o.witnesses = focus /\ o.seq = n /\ o.through = used.order BY DEF IdleObs
<1>3. focus \in [VClient -> Places] /\ lease \in [VClient -> LeaseRec] /\ used.order \in Nat
  BY Numbers DEF PvCore, PvShapes
<1>. HIDE DEF o, n
<1>4. Reconciled(lease, topo, o) /\ Reconciled(lease, topo', o)
  BY <1>0, <1>1, <1>2, <1>3, Reconciling DEF PvCore, Reconciled
<1>6. PvShapes' BY <1>0, <1>1, <1>4, QueueTaken, SawShapes DEF PvCore, PvShapes, Reconciled
<1>7. /\ Lowers /\ PeekEndStep /\ UnreadStep /\ ReadStep
      /\ \A c \in VClient : lease'[c].kind = "active" => lease'[c].last <= seq'
      /\ \A p \in VPane : unread'[p].order <= used.order
  <2>1. /\ o.seq \in Nat /\ o.through \in Nat /\ o.seq <= seq' /\ seq' \in Nat /\ seq <= seq'
        /\ o.witnesses = focus
    BY <1>0, <1>1, <1>2, <1>3, Numbers
  <2> QED BY <1>0, <1>3, <1>4, <2>1, ReconciledSteps
<1>9. \A k \in Observer : obs'[k].seq <= seq' /\ obs'[k].through <= used'.order BY <1>0, <1>1, Numbers
<1>10. PvCore' BY <1>0, <1>1, QueueTaken, <1>6, <1>7, SameAnswers, <1>9, LoweringStep, Numbers DEF PvCore
<1>. QED BY <1>7, <1>10 DEF PvKept

(* What an observation made at this moment leaves of the leases.             *)
FreshLeases(ls) ==
    /\ ls \in [VClient -> LeaseRec]
    /\ \A c \in VClient :
          \/ ls[c].kind = "none" /\ (lease[c].kind = "active" => own[c] \/ lease[c].target \notin topo)
          \/ /\ lease[c].kind = "pending" /\ ls[c].kind = "pending" /\ ls[c].op = lease[c].op
          \/ /\ lease[c].kind = "active" /\ ls[c].kind = "active"
             /\ ls[c].target = lease[c].target /\ ls[c].last = seq + 1
             /\ focus[c] = ls[c].target /\ ls[c].target \in topo /\ ls[c].target \in VPane

LEMMA ObservedNow == ASSUME PvCore PROVE FreshLeases(reconcile_peek_leases(lease, focus, seq + 1, topo))
<1>. DEFINE ls == reconcile_peek_leases(lease, focus, seq + 1, topo)
<1>1. /\ lease \in [VClient -> LeaseRec] /\ focus \in [VClient -> Places] /\ seq \in Nat
      /\ seq + 1 \in Nat
  BY Numbers DEF PvCore, PvShapes
<1>2. /\ ls \in [VClient -> LeaseRec]
      /\ \A c \in VClient :
            \/ ls[c].kind = "none" /\ Lapsed(lease[c], focus[c], seq + 1, topo)
            \/ lease[c].kind = "pending" /\ ls[c].kind = "pending" /\ ls[c].op = lease[c].op
            \/ Confirmed(lease[c], ls[c], focus[c], seq + 1) /\ lease[c].target \in topo
  BY <1>1, ReconciledLeases
<1>. HIDE DEF ls
<1>3. ASSUME NEW c \in VClient, Lapsed(lease[c], focus[c], seq + 1, topo), lease[c].kind = "active"
      PROVE  own[c] \/ lease[c].target \notin topo
  BY <1>3, Numbers, LeaseFields, ViewsAssumption DEF PvCore, PeeksHold, ShownAt, Lapsed
<1>4. ASSUME NEW c \in VClient, Confirmed(lease[c], ls[c], focus[c], seq + 1),
             lease[c].target \in topo
      PROVE  /\ lease[c].kind = "active" /\ ls[c].kind = "active"
             /\ ls[c].target = lease[c].target /\ ls[c].last = seq + 1
             /\ focus[c] = ls[c].target /\ ls[c].target \in topo /\ ls[c].target \in VPane
  BY <1>4, Numbers, LeaseFields, <1>1 DEF Confirmed
<1>. QED BY <1>2, <1>3, <1>4 DEF ls, FreshLeases

(* A new occurrence of a pane in sight ends the peeks at it.                 *)
LEMMA NewUnreadStep == ASSUME PvCore, SawStep, NEW p \in VPane, NewUnread(p) PROVE PvKept
<1>. DEFINE n == used.order + 1
            l == reconcile_peek_leases(lease, focus, seq + 1, topo)
            seen == read_authorized_panes(l, focus) \cap focus_equivalent_panes(p)
            new == [order |-> n, read |-> seen # {},
                    by |-> IF seen # {} THEN "view" ELSE "none"]
            unseen == [order |-> n, read |-> FALSE, by |-> "none"]
<1>1. /\ UNCHANGED <<focus, own, panesAlive, topo, topoFloor, views, obs, mutations, job, answered>>
      /\ seq < MaxSeq /\ seq' = seq + 1 /\ used' = [used EXCEPT !.order = n]
      /\ \/ /\ lease' = IF seen # {} THEN clear_peeks_for_read_panes(l, focus_equivalent_panes(p), {})
                        ELSE l
            /\ unread' = [unread EXCEPT ![p] = new]
         \/ unread' = [unread EXCEPT ![p] = unseen] /\ lease' = lease
  BY DEF NewUnread
<1>2. n \in Nat /\ n > used.order BY Numbers
<1>3. FreshLeases(l) BY ObservedNow
<1>4. seen # {} => \E c \in VClient, q \in VPane : Looked(focus[c], q) /\ p \in Shows(q)
  BY AuthorizedLooked DEF PvCore, PvShapes, focus_equivalent_panes
<1>. HIDE DEF n, l, seen
<1>5. /\ used' \in [focus : Nat, order : Nat, jobs : Nat, errors : Nat]
      /\ used'.order = n /\ used'.jobs = used.jobs
  BY <1>1, <1>2 DEF PvCore, PvShapes
<1>6. /\ unread' \in [VPane -> [order : Nat, read : BOOLEAN, by : {"none", "view", "asked"}]]
      /\ unread'[p].order = n
      /\ \A q \in VPane : q # p => unread'[q] = unread[q]
      /\ unread'[p].read /\ unread'[p].by = "view" => seen # {}
      /\ lease' # lease /\ seen # {} => unread'[p].by = "view"
  <2>1. unread \in [VPane -> [order : Nat, read : BOOLEAN, by : {"none", "view", "asked"}]] BY DEF PvCore, PvShapes
  <2>2. new \in [order : Nat, read : BOOLEAN, by : {"none", "view", "asked"}]
        /\ unseen \in [order : Nat, read : BOOLEAN, by : {"none", "view", "asked"}]
        /\ new.order = n /\ unseen.order = n /\ ~unseen.read
        /\ (new.read => seen # {}) /\ (seen # {} => new.by = "view")
    BY <1>2
  <2>. HIDE DEF new, unseen
  <2>. QED BY <1>1, <2>1, <2>2
<1>. HIDE DEF new, unseen
<1>7. /\ lease' \in [VClient -> LeaseRec]
      /\ \A c \in VClient :
            \/ lease'[c] = lease[c] \/ lease'[c] = l[c]
            \/ /\ lease'[c].kind = "none" /\ lease' # lease /\ seen # {}
               /\ l[c].kind = "active" => l[c].target \in focus_equivalent_panes(p)
  <2>1. lease \in [VClient -> LeaseRec] /\ l \in [VClient -> LeaseRec] BY <1>3 DEF PvCore, PvShapes, FreshLeases
  <2>2. CASE lease' = lease \/ lease' = l BY <2>1, <2>2
  <2>3. CASE /\ lease' = clear_peeks_for_read_panes(l, focus_equivalent_panes(p), {})
             /\ seen # {} /\ lease' # lease
    <3>. DEFINE m == clear_peeks_for_read_panes(l, focus_equivalent_panes(p), {})
    <3>. HIDE DEF m
    <3>. QED BY <2>3, <2>1, ClearedLeases
  <2>. QED BY <1>1, <2>2, <2>3
<1>8. PvShapes'
  <2>1. saw' \in [VPane -> Nat] /\ seq' \in Nat BY <1>1, <1>6, SawShapes, Numbers DEF PvCore
  <2>. QED BY <1>1, <1>5, <1>6, <1>7, <2>1 DEF PvCore, PvShapes
<1>10. UnreadStep /\ QueueShift(0) /\ AnswersListed' /\ AnsweredStaysKnown'
  BY <1>2, <1>6, <1>1, ObserversKept, QueueKept, SameAnswers DEF UnreadStep, PvCore
<1>11. Lowers BY Numbers, LeaseFields, <1>3, <1>7 DEF FreshLeases, Lowers
<1>12. \A c \in VClient : lease'[c].kind = "active" => lease'[c].last <= seq'
  BY <1>1, Numbers, <1>3, <1>7 DEF FreshLeases
<1>14. NoProxyChains => ReadStep
  BY <1>6, <1>4, <1>1 DEF ReadStep, Looked, PvCore, PvShapes, Places, NoProxyChains, Shows
<1>15. /\ \A k \in Observer : obs'[k].seq <= seq' /\ obs'[k].through <= used'.order
       /\ \A q \in VPane : unread'[q].order <= used'.order
       /\ seq <= seq' /\ seq' <= MaxSeq + 1 /\ topoFloor' <= seq'
       /\ used.order <= used'.order /\ used.jobs <= used'.jobs
  BY <1>1, <1>2, <1>5, <1>6, Numbers
<1>17. PvCore' BY <1>8, <1>1, ObserversKept, <1>10, <1>11, <1>12, <1>15, LoweringStep
<1>. QED BY <1>1, <1>3, <1>7, <1>6, <1>14, <1>17 DEF PvKept, PeekEndStep, FreshLeases, focus_equivalent_panes

(* What the commands of the sidebar have in common: leases are brought up to *)
(* date with an observation of this moment.                                  *)
LoweredNow(ls) ==
    /\ ls \in [VClient -> LeaseRec]
    /\ \A c \in VClient :
          \/ ls[c].kind = "none"
          \/ lease[c].kind = "pending" /\ ls[c].kind = "pending" /\ ls[c].op = lease[c].op
          \/ /\ lease[c].kind = "active" /\ ls[c].kind = "active"
             /\ ls[c].target = lease[c].target /\ ls[c].last = seq + 1
Command ==
    /\ UNCHANGED <<focus, own, panesAlive, topo, topoFloor, views, obs, mutations, answered>>
    /\ seq' = seq + 1 /\ seq' <= MaxSeq + 1
    /\ used' = [used EXCEPT !.jobs = used.jobs + 1]
    /\ unread' \in [VPane -> [order : Nat, read : BOOLEAN, by : {"none", "view", "asked"}]]
    /\ \A p \in VPane : unread'[p].order = unread[p].order

LEMMA CommandSteps ==
    ASSUME PvCore, SawStep, Command
    PROVE  /\ used' \in [focus : Nat, order : Nat, jobs : Nat, errors : Nat]
           /\ used'.order = used.order /\ used'.jobs = used.jobs + 1 /\ used.jobs <= used'.jobs
           /\ saw' \in [VPane -> Nat] /\ seq' \in Nat /\ seq <= seq' /\ topoFloor' <= seq'
           /\ \A o \in Flight' : o \in Flight
           /\ QueueShift(0) /\ UnreadStep /\ AnswersListed' /\ AnsweredStaysKnown'
           /\ \A k \in Observer : obs'[k].seq <= seq' /\ obs'[k].through <= used'.order
           /\ \A p \in VPane : unread'[p].order <= used'.order
<1>. DEFINE n == used.jobs + 1
<1>1. n \in Nat /\ used.jobs <= n /\ used' = [used EXCEPT !.jobs = n] /\ used.order \in Nat BY Numbers DEF Command
<1>2. used'.order = used.order /\ used'.jobs = n
      /\ used' \in [focus : Nat, order : Nat, jobs : Nat, errors : Nat]
  <2>. HIDE DEF n
  <2>. QED BY <1>1 DEF PvCore, PvShapes
<1>4. \A o \in Flight' : o \in Flight BY ObserversKept DEF Command
<1>5. QueueShift(0) /\ AnswersListed' /\ AnsweredStaysKnown' BY <1>4, QueueKept, SameAnswers DEF PvCore, Command
<1>6. UnreadStep BY DEF UnreadStep, Command
<1>7. \A p \in VPane : unread'[p].order <= used'.order BY <1>2, Numbers DEF Command
<1>8. seq' \in Nat /\ seq <= seq' /\ topoFloor' <= seq' BY Numbers DEF Command
<1>9. \A k \in Observer : obs'[k].seq <= seq' /\ obs'[k].through <= used'.order BY <1>2, Numbers DEF Command
<1>. QED BY <1>1, <1>2, SawShapes, <1>4, <1>5, <1>6, <1>7, <1>8, <1>9 DEF Command, PvCore

LEMMA CommandLowers ==
    ASSUME PvCore, SawStep, Command, LoweredNow(lease'), UNCHANGED job
    PROVE  PvCore'
<1>2. Lowers BY Numbers DEF Lowers, LoweredNow
<1>3. \A c \in VClient : lease'[c].kind = "active" => lease'[c].last <= seq' BY CommandSteps DEF LoweredNow, Command
<1>4. UNCHANGED <<focus, own, job>> /\ seq' <= MaxSeq + 1 /\ used.order <= used'.order
  BY CommandSteps, Numbers DEF Command
<1>. QED BY CommandSteps, <1>2, <1>3, <1>4, LoweringStep DEF PvCore, PvShapes, Command, LoweredNow

(* A command that hands a peek to the worker makes its client's lease        *)
(* pending with the number of that job.                                      *)
LEMMA CommandSchedules ==
    ASSUME PvCore, SawStep, Command, NEW ls, LoweredNow(ls), NEW c \in VClient,
           NEW kind \in {"peek", "advance"}, NEW source \in Places, NEW cand \in SUBSET VPane,
           job.step = "idle", lease' = begin_peek(ls, c, cand, used.jobs + 1),
           Schedule(kind, c, source, cand)
    PROVE  PvCore' /\ \A d \in VClient : lease'[d].kind = "none" => d # c /\ lease'[d] = ls[d]
<1>. DEFINE n == used.jobs + 1
            prev == IF ls[c].kind = "active" THEN ls[c].target ELSE NoView
            x == Pending(n, prev, cand)
<1>1. n \in Nat /\ used.jobs < n /\ used'.jobs = n BY CommandSteps, Numbers
<1>2. ls \in [VClient -> LeaseRec] BY DEF LoweredNow
<1>3. prev \in Places BY <1>2, LeaseFields DEF Places
<1>4. x \in LeaseRec /\ x.kind = "pending" /\ x.op = n
  <2>. HIDE DEF n, prev
  <2>. QED BY <1>1, <1>3, PendingLease
<1>5. lease' = [ls EXCEPT ![c] = x] BY <1>2 DEF begin_peek
<1>6. /\ job' \in JobRec /\ job'.step = "queued" /\ job'.client = c /\ Peeks(job') /\ job'.op = n
  <2>1. job' = [step |-> "queued", kind |-> kind, client |-> c, op |-> n, source |-> source,
                cand |-> cand, result |-> "none", target |-> NoView, floor |-> 0]
    <3>. DEFINE a == CHOOSE e \in VClient : TRUE
    <3>. HIDE DEF a
    <3>2. job' = [IdleJob EXCEPT !.step = "queued", !.kind = kind, !.client = c, !.op = n,
                                 !.source = source, !.cand = cand]
      BY DEF Schedule
    <3>. HIDE DEF n
    <3>. QED BY <3>2 DEF IdleJob
  <2>. HIDE DEF n
  <2>. QED BY <1>1, <2>1 DEF JobRec, Peeks, Places
<1>. HIDE DEF n, x
<1>7. /\ lease' \in [VClient -> LeaseRec] /\ lease'[c] = x
      /\ \A d \in VClient : d # c => lease'[d] = ls[d]
  BY <1>2, <1>4, <1>5
<1>8. PvShapes' BY <1>6, <1>7, CommandSteps DEF PvCore, PvShapes, Command
<1>9. \A i \in Finished : /\ mutations[i].job.op \in Nat /\ mutations[i].job.op <= used.jobs
                          /\ mutations[i].job.op < n
  BY FinishedShapes, <1>1, Numbers DEF PvCore, NumbersRise, JobRec
<1>10. NumbersRise'
  <2>3. job'.op <= used'.jobs
        /\ (job'.step # "idle" => \A i \in Finished : mutations[i].job.op < job'.op)
    BY <1>1, <1>6, <1>9
  <2>. QED
    BY <1>8, Numbers, LeaseFields, CommandSteps, <1>1, <1>4, <1>7, <2>3, NumbersKeep DEF PvCore, Command,
      LoweredNow, NumbersRise
<1>12. PeeksHold'
  <2>0. Finished' = Finished /\ UNCHANGED <<focus, own, mutations>> BY DEF Finished, Command
  <2>1. ASSUME NEW d \in VClient, lease'[d].kind = "active", ~own'[d]
        PROVE  ShownNext(d, lease'[d].target, lease'[d].last)
    <3>2. /\ lease[d].kind = "active" /\ lease'[d].target = lease[d].target
          /\ lease'[d].last = seq + 1
      BY <2>1, <1>4, <1>7 DEF LoweredNow
    <3>4. \A o \in Flight' : ~(o.seq > lease'[d].last)
      BY <3>2, FlightShapes, CommandSteps, Numbers DEF PvCore, NumbersRise, ObsRec
    <3>. QED BY <2>0, <2>1, <3>2, <3>4 DEF PvCore, PeeksHold, ShownAt, ShownNext
  <2>2. ASSUME NEW i \in Finished'
        PROVE  LET j == mutations'[i].job
              IN /\ /\ Peeks(j) /\ j.result = "ok" /\ ~own'[j.client]
                    /\ lease'[j.client].kind = "pending" /\ lease'[j.client].op = j.op
                    => ShownNext(j.client, j.target, j.floor)
                 /\ ~Peeks(j) /\ j.result = "ok" /\ ~own'[j.client] =>
                    /\ lease'[j.client].kind # "active"
                    /\ lease'[j.client].kind = "pending" => lease'[j.client].op > j.op
    <3>. DEFINE j == mutations[i].job
    <3>1. i \in Finished /\ mutations'[i].job = j BY <2>0
    <3>2. j.client \in VClient /\ j.op \in Nat /\ j.op < n BY <1>9, <3>1 DEF PvCore, NumbersRise
    <3>. HIDE DEF j
    <3>4. CASE j.client = c BY <1>1, <1>4, <1>7, <2>0, <3>1, <3>2, <3>4
    <3>5. CASE j.client # c
      BY <1>7, <3>2, <3>5, <2>0, <3>1, CommandSteps DEF LoweredNow, ShownAt, ShownNext, Awaits, PvCore, PeeksHold
    <3>. QED BY <3>4, <3>5
  <2>. QED BY <2>1, <2>2, <1>4, <1>6, <1>7, PeeksNext
<1>. QED BY <1>8, <1>10, CommandSteps, LooksKeep, <1>12, <1>4, <1>7 DEF PvCore, FlightStep

LEMMA FreshAreLowered ==
    ASSUME NEW ls, FreshLeases(ls)
    PROVE  /\ LoweredNow(ls)
           /\ \A c \in VClient : lease[c].kind = "active" /\ ls[c].kind = "none" =>
                 own[c] \/ lease[c].target \notin topo
  BY DEF FreshLeases, LoweredNow

(* Giving a peek back at once, as its worker is busy, leaves the lease as    *)
(* the observation of this moment confirms it.                               *)
LEMMA GivenBack ==
    ASSUME PvCore, NEW ls, FreshLeases(ls), NEW c \in VClient, ls[c].kind # "pending",
           NEW op \in Nat, NEW cand \in SUBSET VPane
    PROVE  LET new == Restored(begin_peek(ls, c, cand, op), c, op, focus, seq + 1)
           IN /\ new \in [VClient -> LeaseRec]
              /\ \A d \in VClient : d # c => new[d] = ls[d]
              /\ ls[c].kind = "none" => new[c] = ls[c]
              /\ ls[c].kind = "active" => /\ new[c].kind = "active" /\ new[c].target = ls[c].target
                                          /\ new[c].last = seq + 1
<1>. DEFINE prev == IF ls[c].kind = "active" THEN ls[c].target ELSE NoView
            x == Pending(op, prev, cand)
            begun == begin_peek(ls, c, cand, op)
            back == IF x.prev \in topo /\ focus[c] = x.prev
                    THEN Active(x.prev, seq + 1) ELSE NoLease
            new == Restored(begun, c, op, focus, seq + 1)
<1>1. ls \in [VClient -> LeaseRec] /\ seq + 1 \in Nat /\ topo \subseteq VPane
  BY Numbers DEF FreshLeases, PvCore, PvShapes
<1>2. begun = [ls EXCEPT ![c] = x] BY <1>1 DEF begin_peek
<1>3. prev \in Places BY <1>1, LeaseFields DEF Places
<1>4. x \in LeaseRec /\ x.kind = "pending" /\ x.op = op /\ x.prev = prev
  <2>. HIDE DEF prev
  <2>. QED BY <1>3, PendingLease
<1>5. begun \in [VClient -> LeaseRec] /\ begun[c] = x /\ \A d \in VClient : d # c => begun[d] = ls[d]
  <2>. HIDE DEF x, begun
  <2>. QED BY <1>1, <1>2, <1>4
<1>6. new = [begun EXCEPT ![c] = back]
  <2>2. new = [begun EXCEPT ![c] = IF begun[c].prev \in topo /\ focus[c] = begun[c].prev
                                   THEN Active(begun[c].prev, seq + 1) ELSE NoLease]
    <3>. HIDE DEF begun
    <3>. QED BY <1>5, <1>4 DEF Restored
  <2>. HIDE DEF begun, new, x
  <2>. QED BY <1>5, <2>2
<1>7. /\ back \in LeaseRec
      /\ ls[c].kind = "none" => back = NoLease /\ ls[c] = NoLease
      /\ ls[c].kind = "active" => /\ back.kind = "active" /\ back.target = ls[c].target
                                  /\ back.last = seq + 1
  <2>1. CASE ls[c].kind = "none"
    <3>2. back = NoLease
      <4>. HIDE DEF x
      <4>. QED BY <1>1, <1>4, <2>1, ViewsAssumption
    <3>. QED BY <1>1, <2>1, <3>2, NoLeaseIs, LeaseFields
  <2>2. CASE ls[c].kind = "active"
    <3>3. back = Active(ls[c].target, seq + 1)
      <4>. HIDE DEF x
      <4>. QED BY <2>2, <1>4 DEF FreshLeases
    <3>. HIDE DEF back
    <3>. QED BY <1>1, <2>2, <3>3, ActiveLease DEF FreshLeases
  <2>. QED BY <2>1, <2>2, <1>1, LeaseFields
<1>. HIDE DEF x, back, begun, new
<1>. QED BY <1>7, <1>5, <1>6 DEF new, begun

LEMMA PeekPaneStep ==
    ASSUME PvCore, SawStep, NEW c \in VClient, NEW p \in VPane, PeekPane(c, p)
    PROVE  PvKept
<1>. DEFINE n == used.jobs + 1
            l == reconcile_peek_leases(lease, focus, seq + 1, topo)
            begun == begin_peek(l, c, {p}, n)
<1>1. /\ UNCHANGED <<focus, own, panesAlive, topo, topoFloor, views, unread, obs, mutations,
                     answered>>
      /\ seq < MaxSeq /\ seq' = seq + 1 /\ used' = [used EXCEPT !.jobs = n]
      /\ \/ lease' = l /\ job' = job
         \/ /\ job.step = "idle" /\ lease' = begun /\ Schedule("peek", c, focus[c], {p})
            /\ focus[c] # NoView
         \/ /\ job' = job /\ l[c].kind # "pending"
            /\ lease' = Restored(begun, c, n, focus, seq + 1)
  BY DEF PeekPane
<1>2. FreshLeases(l) /\ LoweredNow(l) /\ n \in Nat
      /\ \A d \in VClient : lease[d].kind = "active" /\ l[d].kind = "none" =>
            own[d] \/ lease[d].target \notin topo
  BY ObservedNow, FreshAreLowered, Numbers
<1>3. Command BY <1>1, Numbers DEF Command, PvCore, PvShapes
<1>4. ReadStep BY <1>1 DEF ReadStep
<1>. HIDE DEF l, n
<1>5. CASE lease' = l /\ job' = job BY <1>2, <1>5, <1>3, CommandLowers, <1>1, <1>4 DEF PeekEndStep, PvKept
<1>6. CASE job.step = "idle" /\ lease' = begun /\ Schedule("peek", c, focus[c], {p})
  <2>1. focus[c] \in Places /\ {p} \in SUBSET VPane BY DEF PvCore, PvShapes
  <2>2. PvCore' /\ \A d \in VClient : lease'[d].kind = "none" => d # c /\ lease'[d] = l[d]
    BY <1>2, <1>3, <1>6, <2>1, CommandSchedules DEF n
  <2>. QED BY <1>4, <2>2, <1>1, <1>2 DEF PvKept, PeekEndStep
<1>7. CASE /\ job' = job /\ l[c].kind # "pending"
           /\ lease' = Restored(begun, c, n, focus, seq + 1)
  BY <1>2, <1>7, GivenBack, LeaseFields, <1>4, <1>3, CommandLowers, <1>1 DEF LoweredNow, FreshLeases, PvKept,
    PeekEndStep
<1>. QED BY <1>1, <1>5, <1>6, <1>7

LEMMA ReadPeekStep == ASSUME PvCore, SawStep, NEW c \in VClient, ReadPeek(c) PROVE PvKept
<1>. DEFINE n == used.jobs + 1
            l == reconcile_peek_leases(lease, focus, seq + 1, topo)
            at == focus[c]
            cleared == clear_peeks_for_read_panes(l, {at}, {c})
            cand == AdvanceCandidates(at)
            confirmed == Active(at, seq + 1)
            confirming == l[c].kind = "active" /\ l[c].target = at
<1>1. /\ UNCHANGED <<focus, own, panesAlive, topo, topoFloor, views, obs, mutations, answered>>
      /\ seq <= MaxSeq /\ seq' = seq + 1 /\ used' = [used EXCEPT !.jobs = n] /\ job.step = "idle"
      /\ at # NoView
      /\ \/ /\ confirming
            /\ unread' = [unread EXCEPT ![at].read = TRUE, ![at].by = "asked"]
            /\ \/ lease' = [cleared EXCEPT ![c] = confirmed] /\ job' = job
               \/ lease' = begin_peek(cleared, c, cand, n) /\ Schedule("advance", c, at, cand)
         \/ lease' = l /\ UNCHANGED <<unread, job>>
  BY DEF ReadPeek
<1>2. FreshLeases(l) /\ LoweredNow(l) /\ n \in Nat /\ seq + 1 \in Nat /\ l \in [VClient -> LeaseRec]
      /\ \A d \in VClient : lease[d].kind = "active" /\ l[d].kind = "none" =>
            own[d] \/ lease[d].target \notin topo
  BY ObservedNow, FreshAreLowered, Numbers DEF FreshLeases
<1>3. at \in VPane /\ at \in Places BY <1>1 DEF PvCore, PvShapes, Places
<1>4. cand \in SUBSET VPane BY DEF AdvanceCandidates, PvCore, PvShapes
<1>. HIDE DEF l, n, at, cand
<1>5. CASE lease' = l /\ UNCHANGED <<unread, job>>
  <2>1. Command BY <1>1, <1>5, Numbers DEF Command, PvCore, PvShapes, n
  <2>3. PvCore' BY <1>5, <2>1, <1>2, CommandLowers
  <2>. QED BY <2>3, <1>1, <1>2, <1>5 DEF PvKept, PeekEndStep, ReadStep
<1>6. CASE /\ confirming
           /\ unread' = [unread EXCEPT ![at].read = TRUE, ![at].by = "asked"]
           /\ \/ lease' = [cleared EXCEPT ![c] = confirmed] /\ job' = job
              \/ lease' = begin_peek(cleared, c, cand, n) /\ Schedule("advance", c, at, cand)
  <2>1. /\ unread' \in [VPane -> [order : Nat, read : BOOLEAN, by : {"none", "view", "asked"}]]
        /\ \A p \in VPane : unread'[p].order = unread[p].order
        /\ unread'[at].by = "asked" /\ \A p \in VPane : p # at => unread'[p] = unread[p]
    <3>1. unread \in [VPane -> [order : Nat, read : BOOLEAN, by : {"none", "view", "asked"}]]
      BY DEF PvCore, PvShapes
    <3>. QED BY <1>3, <1>6, <3>1
  <2>2. Command BY <1>1, <2>1, Numbers DEF Command, n
  <2>4. /\ cleared \in [VClient -> LeaseRec]
        /\ \A d \in VClient :
              \/ cleared[d] = l[d]
              \/ /\ cleared[d].kind = "none" /\ d # c
                 /\ l[d].kind = "active" => l[d].target = at
    <3>1. /\ cleared \in [VClient -> LeaseRec]
          /\ \A d \in VClient :
                \/ cleared[d] = l[d]
                \/ /\ cleared[d].kind = "none" /\ d \notin {c}
                   /\ l[d].kind = "active" => l[d].target \in {at}
      BY <1>2, ClearedLeases
    <3>. HIDE DEF cleared
    <3>. QED BY <3>1
  <2>. HIDE DEF cleared
  <2>5. LoweredNow(cleared) BY <1>2, <2>4 DEF LoweredNow
  <2>7. ASSUME \A d \in VClient : lease[d].kind = "active" /\ lease'[d].kind = "none" =>
                  lease'[d] = cleared[d]
        PROVE  PeekEndStep
    BY <1>1, <1>3, <2>1, <1>2, <2>4, <2>7, ShowsPanes DEF PeekEndStep, FreshLeases
  <2>8. CASE lease' = [cleared EXCEPT ![c] = confirmed] /\ job' = job
    <3>1. /\ confirmed \in LeaseRec /\ confirmed.kind = "active" /\ confirmed.target = at
          /\ confirmed.last = seq + 1
      BY <1>2, <1>3, ActiveLease
    <3>. HIDE DEF confirmed
    <3>4. PvCore' BY <2>2, <2>8, <1>6, <1>2, <2>5, <3>1, <2>4, CommandLowers DEF LoweredNow
    <3>. QED BY <2>1, <2>7, <3>1, <2>4, <2>8, <3>4 DEF PvKept, ReadStep
  <2>9. CASE lease' = begin_peek(cleared, c, cand, n) /\ Schedule("advance", c, at, cand)
    BY <1>1, <1>3, <1>4, <2>2, <2>5, <2>9, CommandSchedules, <2>1, <2>7 DEF n, PvKept, ReadStep
  <2>. QED BY <1>6, <2>8, <2>9
<1>. QED BY <1>1, <1>5, <1>6

(* Steps that leave the leases alone and change only the sidebar's worker.   *)
WorkerTurn ==
    UNCHANGED <<panesAlive, topo, topoFloor, lease, views, unread, seq, obs, mutations, answered>>

LEMMA WorkerTurns ==
    ASSUME PvCore, SawStep, WorkerTurn, job' \in JobRec,
           job'.step # "idle" => job'.client \in VClient,
           focus' \in [VClient -> Places], own' \in [VClient -> BOOLEAN],
           used' \in [focus : Nat, order : Nat, jobs : Nat, errors : Nat],
           used'.order = used.order, used.jobs <= used'.jobs, job'.op <= used'.jobs,
           job'.step # "idle" => \A i \in Finished : mutations[i].job.op < job'.op,
           \A c \in VClient : ~own'[c] => \/ ~own[c] /\ focus'[c] = focus[c]
                                          \/ job.step # "idle" /\ Peeks(job) /\ job.client = c,
           job'.step # "idle" /\ Peeks(job') =>
              /\ lease'[job'.client].kind # "active"
              /\ lease'[job'.client].kind = "pending" => lease'[job'.client].op = job'.op
              /\ job'.step = "ran" /\ job'.result = "ok" /\ ~own'[job'.client] =>
                    focus'[job'.client] = job'.target,
           job'.step = "ran" /\ ~Peeks(job') /\ job'.result = "ok" => own'[job'.client]
    PROVE  PvKept
<1>2. PvShapes' BY SawShapes DEF WorkerTurn, PvCore, PvShapes
<1>3. \A o \in Flight' : o \in Flight BY ObserversKept DEF WorkerTurn
<1>4. QueueShift(0) /\ PeekEndStep /\ UnreadStep /\ ReadStep /\ AnswersListed' /\ AnsweredStaysKnown'
  BY <1>3, QueueKept, SameLeases, SameReads, SameAnswers DEF PvCore, WorkerTurn
<1>5. NumbersRise'
  <2>3. \A d \in VClient : /\ lease'[d].kind = "active" => lease'[d].last <= seq'
                           /\ lease'[d].kind = "pending" => lease'[d].op <= used'.jobs
    BY <1>2, Numbers, LeaseFields DEF WorkerTurn, PvShapes, PvCore, NumbersRise
  <2>. QED BY <1>2, <1>3, <1>4, <2>3, NumbersKeep, Numbers DEF PvCore, WorkerTurn
<1>7. PeeksHold'
  <2>0. Finished' = Finished /\ UNCHANGED <<lease, mutations>> BY DEF Finished, WorkerTurn
  <2>3. ASSUME NEW c \in VClient, lease'[c].kind = "active", ~own'[c]
        PROVE  ShownNext(c, lease'[c].target, lease'[c].last)
    BY <2>0, <1>3, <2>3 DEF PvCore, PeeksHold, ShownAt, ShownNext
  <2>4. ASSUME NEW i \in Finished'
        PROVE  LET j == mutations'[i].job
              IN /\ /\ Peeks(j) /\ j.result = "ok" /\ ~own'[j.client]
                    /\ lease'[j.client].kind = "pending" /\ lease'[j.client].op = j.op
                    => ShownNext(j.client, j.target, j.floor)
                 /\ ~Peeks(j) /\ j.result = "ok" /\ ~own'[j.client] =>
                    /\ lease'[j.client].kind # "active"
                    /\ lease'[j.client].kind = "pending" => lease'[j.client].op > j.op
    <3>. DEFINE j == mutations[i].job
    <3>1. i \in Finished /\ mutations'[i].job = j BY <2>0
    <3>2. /\ j.client \in VClient /\ j.op \in Nat /\ job.op \in Nat
          /\ job.step # "idle" => j.op < job.op
      BY <3>1, FinishedShapes DEF PvCore, PvShapes, NumbersRise, JobRec
    <3>. HIDE DEF j
    <3>4. CASE job.step # "idle" /\ Peeks(job) /\ job.client = j.client
      BY <2>0, <3>1, <3>2, <3>4 DEF PvCore, PeeksHold
    <3>5. CASE ~own'[j.client] /\ ~own[j.client] /\ focus'[j.client] = focus[j.client]
      BY <2>0, <1>3, <3>1, <3>2, <3>5 DEF Awaits, ShownAt, ShownNext, PvCore, PeeksHold
    <3>. QED BY <3>1, <3>2, <3>4, <3>5
  <2>. QED BY <2>3, <2>4, PeeksNext
<1>. QED BY <1>2, <1>4, <1>5, <1>3, LooksKeep, <1>7 DEF PvKept, PvCore, FlightStep

LEMMA JumpStep ==
    ASSUME PvCore, SawStep, NEW c \in VClient, NEW cand, Jump(c, cand)
    PROVE  PvKept
<1>. DEFINE n == used.jobs + 1
<1>1. /\ WorkerTurn /\ UNCHANGED <<focus, own>> /\ used' = [used EXCEPT !.jobs = n]
      /\ job.step = "idle" /\ cand \in SUBSET VPane
      /\ Schedule("jump", c, focus[c], cand)
  BY DEF Jump, WorkerTurn, PvCore, PvShapes
<1>2. n \in Nat /\ used.jobs < n BY Numbers
<1>3. /\ job' \in JobRec /\ job'.step = "queued" /\ job'.client = c /\ ~Peeks(job') /\ job'.op = n
  <2>. DEFINE source == focus[c]
  <2>1. source \in Places /\ NoView \in Places BY DEF PvCore, PvShapes, Places
  <2>2. job' = [step |-> "queued", kind |-> "jump", client |-> c, op |-> n, source |-> source,
                cand |-> cand, result |-> "none", target |-> NoView, floor |-> 0]
    <3>. DEFINE a == CHOOSE e \in VClient : TRUE
    <3>. HIDE DEF a
    <3>2. job' = [IdleJob EXCEPT !.step = "queued", !.kind = "jump", !.client = c, !.op = n,
                                 !.source = source, !.cand = cand]
      BY <1>1 DEF Schedule
    <3>. HIDE DEF n, source
    <3>. QED BY <3>2 DEF IdleJob
  <2>. HIDE DEF n, source
  <2>. QED BY <1>1, <1>2, <2>1, <2>2 DEF JobRec, Peeks
<1>. HIDE DEF n
<1>4. /\ used' \in [focus : Nat, order : Nat, jobs : Nat, errors : Nat]
      /\ used'.order = used.order /\ used'.jobs = n
  BY <1>1, <1>2 DEF PvCore, PvShapes
<1>6. /\ focus' \in [VClient -> Places] /\ own' \in [VClient -> BOOLEAN]
      /\ \A d \in VClient : ~own'[d] => ~own[d] /\ focus'[d] = focus[d]
      /\ used.jobs <= used'.jobs /\ job'.op <= used'.jobs
  BY <1>1, <1>2, <1>3, <1>4, Numbers DEF PvCore, PvShapes
<1>. QED BY <1>1, <1>3, <1>4, FinishedShapes, <1>2, Numbers, <1>6, WorkerTurns DEF PvCore, NumbersRise, JobRec

LEMMA RunJobStep == ASSUME PvCore, SawStep, RunJob PROVE PvKept
<1>1. /\ WorkerTurn /\ job.step = "queued"
      /\ \/ \E p \in VPane :
               /\ focus' = [focus EXCEPT ![job.client] = p]
               /\ own' = [own EXCEPT ![job.client] = (job.kind = "jump")]
               /\ \/ job' = [job EXCEPT !.step = "ran", !.result = "ok", !.target = p]
                     /\ UNCHANGED used
                  \/ job' = [job EXCEPT !.step = "ran", !.result = "failed"]
                     /\ used' = [used EXCEPT !.errors = @ + 1]
         \/ \E r \in {"moved", "failed"} :
               /\ job' = [job EXCEPT !.step = "ran", !.result = r]
               /\ UNCHANGED <<focus, own, used>>
  BY DEF RunJob, WorkerTurn, Available, PvCore, PvShapes
<1>2. /\ job \in JobRec /\ job.client \in VClient
      /\ focus \in [VClient -> Places] /\ own \in [VClient -> BOOLEAN]
      /\ used \in [focus : Nat, order : Nat, jobs : Nat, errors : Nat]
  BY <1>1 DEF PvCore, PvShapes
<1>3. /\ job.op \in Nat /\ job.op <= used.jobs
      /\ \A i \in Finished : mutations[i].job.op < job.op
  BY <1>1, <1>2 DEF PvCore, NumbersRise, JobRec
<1>6. ASSUME NEW p \in VPane,
             focus' = [focus EXCEPT ![job.client] = p],
             own' = [own EXCEPT ![job.client] = (job.kind = "jump")],
             \/ job' = [job EXCEPT !.step = "ran", !.result = "ok", !.target = p] /\ UNCHANGED used
             \/ /\ job' = [job EXCEPT !.step = "ran", !.result = "failed"]
                /\ used' = [used EXCEPT !.errors = @ + 1]
      PROVE  PvKept
  <2>1. /\ job' \in JobRec /\ job'.step = "ran" /\ job'.client = job.client
        /\ job'.kind = job.kind /\ job'.op = job.op
        /\ job'.result = "ok" => job'.target = p
    <3>1. CASE job' = [job EXCEPT !.step = "ran", !.result = "ok", !.target = p] BY <1>2, <3>1 DEF JobRec, Places
    <3>2. CASE job' = [job EXCEPT !.step = "ran", !.result = "failed"] BY <1>2, <3>2 DEF JobRec
    <3>. QED BY <1>6, <3>1, <3>2
  <2>3. /\ used' \in [focus : Nat, order : Nat, jobs : Nat, errors : Nat]
        /\ used'.order = used.order /\ used'.jobs = used.jobs
    <3>. DEFINE n == used.errors + 1
    <3>. HIDE DEF n
    <3>. QED BY <1>2, <1>6
  <2>5. job'.step # "idle" /\ Peeks(job') =>
              /\ lease'[job'.client].kind # "active"
              /\ lease'[job'.client].kind = "pending" => lease'[job'.client].op = job'.op
              /\ job'.step = "ran" /\ job'.result = "ok" /\ ~own'[job'.client] =>
                    focus'[job'.client] = job'.target
    BY <1>1, <2>1, <1>2, <1>6 DEF Peeks, PvCore, PeeksHold, WorkerTurn, Places
  <2>7. /\ job'.step # "idle" => job'.client \in VClient
        /\ used.jobs <= used'.jobs /\ job'.op <= used'.jobs
        /\ \A i \in Finished : mutations[i].job.op < job'.op
    BY <1>2, <1>3, <2>1, <2>3, Numbers
  <2>. QED BY <1>1, <2>1, <1>2, <1>6, <2>3, <2>5, <2>7, WorkerTurns DEF Peeks, Places
<1>7. ASSUME NEW r \in {"moved", "failed"}, job' = [job EXCEPT !.step = "ran", !.result = r],
             UNCHANGED <<focus, own, used>>
      PROVE  PvKept
  <2>1. /\ job' \in JobRec /\ job'.step = "ran" /\ job'.client = job.client
        /\ job'.kind = job.kind /\ job'.op = job.op /\ job'.result # "ok"
    BY <1>2, <1>7 DEF JobRec
  <2>2. /\ job'.step # "idle" => job'.client \in VClient
        /\ used.jobs <= used'.jobs /\ job'.op <= used'.jobs
        /\ \A i \in Finished : mutations[i].job.op < job'.op
    BY <1>2, <1>3, <1>7, <2>1, Numbers
  <2>4. job'.step # "idle" /\ Peeks(job') =>
              /\ lease'[job'.client].kind # "active"
              /\ lease'[job'.client].kind = "pending" => lease'[job'.client].op = job'.op
              /\ job'.step = "ran" /\ job'.result = "ok" /\ ~own'[job'.client] =>
                    focus'[job'.client] = job'.target
    BY <1>1, <2>1 DEF Peeks, PvCore, PeeksHold, WorkerTurn
  <2>. QED BY <1>1, <2>1, <2>2, <1>2, <1>7, <2>4, WorkerTurns
<1>. QED BY <1>1, <1>6, <1>7

(* A job is reported with the number of the last observation.                *)
LEMMA ReportJobStep == ASSUME PvCore, SawStep, ReportJob PROVE PvKept
<1>. DEFINE j == [job EXCEPT !.floor = seq]
            m == [kind |-> "done", job |-> j]
            k == Len(mutations) + 1
<1>1. /\ UNCHANGED <<focus, own, panesAlive, topo, topoFloor, lease, views, unread, seq, obs, answered,
                     used>>
      /\ job.step = "ran" /\ mutations' = Append(mutations, m) /\ job' = IdleJob
  BY DEF ReportJob
<1>2. /\ job \in JobRec /\ job.client \in VClient /\ mutations \in Seq(MutationRec) BY <1>1 DEF PvCore, PvShapes
<1>3. /\ j \in JobRec /\ j.client = job.client /\ j.kind = job.kind /\ j.op = job.op
      /\ j.result = job.result /\ j.target = job.target /\ j.floor = seq
  BY Numbers, <1>2 DEF JobRec
<1>4. IdleJob \in JobRec /\ IdleJob.step = "idle" /\ IdleJob.op = 0
  <2>. DEFINE a == CHOOSE e \in VClient : TRUE
  <2>. HIDE DEF a
  <2>. QED BY ViewsAssumption DEF JobRec, Places, IdleJob
<1>. HIDE DEF j
<1>5. m \in MutationRec /\ m.kind = "done" /\ m.job = j BY <1>3 DEF MutationRec
<1>. HIDE DEF m
<1>6. /\ mutations' \in Seq(MutationRec) /\ DOMAIN mutations' = DOMAIN mutations \cup {k}
      /\ DOMAIN mutations = 1..Len(mutations) /\ Len(mutations) \in Nat
      /\ \A i \in DOMAIN mutations : mutations'[i] = mutations[i]
      /\ mutations'[k] = m
  BY <1>1, <1>2, <1>5, Appended
<1>. DEFINE n == Len(mutations)
<1>. HIDE DEF n
<1>7. k = n + 1 /\ n \in Nat /\ DOMAIN mutations = 1..n BY <1>6 DEF n
<1>. HIDE DEF k
<1>8. /\ Finished' = Finished \cup {k}
      /\ \A i \in Finished : mutations'[i] = mutations[i] /\ i \in 1..n
      /\ mutations'[k].job = j
  BY <1>5, <1>6, <1>7 DEF Finished
<1>9. \A o \in Flight' : o \in Flight BY <1>1, <1>5, <1>6 DEF Flight, Observer
<1>11. PeekEndStep /\ UnreadStep /\ ReadStep /\ AnswersListed' /\ AnsweredStaysKnown'
  BY <1>1, <1>9, SameLeases, SameReads, SameAnswers
<1>12. NumbersRise'
  <2>1. /\ job.op \in Nat /\ job.op <= used.jobs
        /\ \A i \in Finished : /\ mutations[i].job.op \in Nat /\ mutations[i].job.op <= used.jobs
                               /\ mutations[i].job.floor <= seq /\ mutations[i].job.client \in VClient
                               /\ mutations[i].job.op < job.op
    BY <1>1, <1>2, FinishedShapes DEF PvCore, NumbersRise, JobRec
  <2>2. \A i \in Finished' : /\ mutations'[i].job.op <= used'.jobs
                             /\ mutations'[i].job.floor <= seq'
                             /\ mutations'[i].job.client \in VClient
                             /\ job'.step # "idle" => mutations'[i].job.op < job'.op
    BY <1>1, <1>8, <2>1, <1>2, <1>3, Numbers, <1>4
  <2>4. /\ \A o \in Flight' : o.seq <= seq' /\ o.through <= used'.order
        /\ \A c \in VClient : /\ lease'[c].kind = "active" => lease'[c].last <= seq'
                              /\ lease'[c].kind = "pending" => lease'[c].op <= used'.jobs
        /\ job'.op <= used'.jobs
    BY <1>1, <1>4, <1>9, Numbers DEF PvCore, NumbersRise
  <2>5. /\ topoFloor' <= seq' /\ seq' <= MaxSeq + 1
        /\ \A h \in Observer : obs'[h].seq <= seq' /\ obs'[h].through <= used'.order
        /\ \A p \in VPane : unread'[p].order <= used'.order
    BY <1>1, Numbers
  <2>. QED BY <2>2, <1>3, <1>8, <2>1, <1>7, <2>4, <2>5 DEF NumbersRise, PvCore
<1>14. PeeksHold'
  <2>1. \A c \in VClient : \A q, s : ShownAt(c, q, s) => ShownNext(c, q, s) BY <1>1, <1>9 DEF ShownAt, ShownNext
  <2>2. ASSUME NEW c \in VClient, lease'[c].kind = "active", ~own'[c]
        PROVE  ShownNext(c, lease'[c].target, lease'[c].last)
    BY <1>1, <2>1, <2>2 DEF PvCore, PeeksHold
  <2>3. ASSUME NEW i \in Finished'
        PROVE  LET r == mutations'[i].job
              IN /\ /\ Peeks(r) /\ r.result = "ok" /\ ~own'[r.client]
                    /\ lease'[r.client].kind = "pending" /\ lease'[r.client].op = r.op
                    => ShownNext(r.client, r.target, r.floor)
                 /\ ~Peeks(r) /\ r.result = "ok" /\ ~own'[r.client] =>
                    /\ lease'[r.client].kind # "active"
                    /\ lease'[r.client].kind = "pending" => lease'[r.client].op > r.op
    <3>1. CASE i \in Finished BY <1>8, <3>1, <1>1, <2>1 DEF PvCore, NumbersRise, PeeksHold, Awaits
    <3>2. CASE i = k
      <4>2. \A o \in Flight' : ~(o.seq > seq) BY FlightShapes, <1>9, Numbers DEF PvCore, NumbersRise, ObsRec
      <4>4. Peeks(j) <=> Peeks(job) BY <1>3 DEF Peeks
      <4>. QED BY <1>1, <1>3, <1>8, <3>2, <4>2, <4>4 DEF ShownNext, PvCore, PeeksHold
    <3>. QED BY <1>8, <3>1, <3>2
  <2>. QED BY <2>2, <2>3, <1>1, <1>4, PeeksNext
<1>. QED
  BY <1>1, SawShapes, <1>4, <1>6, <1>11, <1>12, <1>9, LooksKeep, <1>14 DEF PvKept, PvCore, FlightStep, PvShapes

(* What the completion of a peek decides for the lease that awaits it.       *)
LEMMA DecidedStep ==
    ASSUME PvCore, SawStep, mutations # <<>>, Head(mutations).kind = "done",
           Peeks(Head(mutations).job), Awaits(Head(mutations).job.client, Head(mutations).job.op),
           mutations' = Tail(mutations), seq' \in {seq, seq + 1}, seq' <= MaxSeq + 1,
           UNCHANGED <<focus, own, panesAlive, topo, topoFloor, views, unread, obs, job, answered,
                       used>>,
           NEW x \in LeaseRec, x.kind # "pending",
           x.kind = "active" => x.last <= seq',
           x.kind = "active" /\ ~own[Head(mutations).job.client] =>
              ShownAt(Head(mutations).job.client, x.target, x.last),
           lease' = [lease EXCEPT ![Head(mutations).job.client] = x]
    PROVE  PvKept
<1>. DEFINE j == Head(mutations).job
            c == j.client
<1>1. /\ mutations' \in Seq(MutationRec) /\ QueueShift(1)
      /\ \A o \in Flight' : o \in Flight
      /\ 1 \in DOMAIN mutations /\ Head(mutations) = mutations[1]
      /\ Head(mutations) \in MutationRec
  BY QueueTaken DEF PvCore
<1>2. 1 \in Finished /\ mutations[1].job = j BY <1>1 DEF Finished
<1>3. /\ c \in VClient /\ j.op \in Nat /\ job.op \in Nat
      /\ job.step # "idle" => j.op < job.op
      /\ \A i \in Finished : /\ mutations[i].job.op \in Nat
                             /\ 1 <= i => j.op <= mutations[i].job.op
  BY <1>2, FinishedShapes DEF PvCore, PvShapes, NumbersRise, JobRec
<1>4. lease[c].kind = "pending" /\ lease[c].op = j.op BY DEF Awaits
<1>. HIDE DEF j, c
<1>5. /\ lease' \in [VClient -> LeaseRec] /\ lease'[c] = x
      /\ \A d \in VClient : d # c => lease'[d] = lease[d]
  BY <1>3 DEF PvCore, PvShapes, c, j
<1>6. seq' \in Nat /\ seq <= seq' /\ topoFloor <= seq' BY Numbers
<1>7. PvShapes' BY SawShapes, <1>1, <1>5, <1>6 DEF PvCore, PvShapes
<1>10. NumbersRise'
  <2>1. \A d \in VClient : /\ lease'[d].kind = "active" => lease'[d].last <= seq'
                           /\ lease'[d].kind = "pending" => lease'[d].op <= used'.jobs
    BY <1>6, Numbers, <1>5 DEF PvCore, NumbersRise
  <2>2. \A h \in Observer : obs'[h].seq <= seq' /\ obs'[h].through <= used'.order BY <1>6, Numbers
  <2>4. used.order <= used'.order /\ used.jobs <= used'.jobs /\ topoFloor' <= seq'
        /\ \A p \in VPane : unread'[p].order <= used'.order
    BY <1>6, Numbers
  <2>. QED BY <1>1, <1>6, <1>7, <2>1, <2>2, <2>4, NumbersKeep DEF PvCore, NumbersRise
<1>12. PeeksHold'
  <2>2. ASSUME NEW d \in VClient, lease'[d].kind = "active", ~own'[d]
        PROVE  ShownNext(d, lease'[d].target, lease'[d].last)
    BY <1>3, <1>5, <1>1, <2>2 DEF c, j, PvCore, PeeksHold, ShownAt, ShownNext
  <2>3. ASSUME NEW i \in Finished'
        PROVE  LET r == mutations'[i].job
              IN /\ /\ Peeks(r) /\ r.result = "ok" /\ ~own'[r.client]
                    /\ lease'[r.client].kind = "pending" /\ lease'[r.client].op = r.op
                    => ShownNext(r.client, r.target, r.floor)
                 /\ ~Peeks(r) /\ r.result = "ok" /\ ~own'[r.client] =>
                    /\ lease'[r.client].kind # "active"
                    /\ lease'[r.client].kind = "pending" => lease'[r.client].op > r.op
    <3>. DEFINE r == mutations[i + 1].job
    <3>1. i + 1 \in Finished /\ mutations'[i].job = r BY <1>1 DEF QueueShift
    <3>2. r.client \in VClient /\ r.op \in Nat /\ j.op <= r.op
      BY <1>1, LenProperties, <1>3, <3>1 DEF Finished, PvCore, NumbersRise
    <3>3. /\ Peeks(r) /\ r.result = "ok" /\ Awaits(r.client, r.op) /\ ~own[r.client] =>
                ShownAt(r.client, r.target, r.floor)
          /\ ~Peeks(r) /\ r.result = "ok" /\ ~own[r.client] =>
                /\ lease[r.client].kind # "active"
                /\ lease[r.client].kind = "pending" => lease[r.client].op > r.op
      BY <3>1 DEF PvCore, PeeksHold
    <3>. HIDE DEF r
    <3>4. CASE r.client = c
      <4>1. ~(~Peeks(r) /\ r.result = "ok" /\ ~own[r.client]) BY <1>3, <1>4, <3>2, <3>3, <3>4
      <4>. QED BY <1>5, <3>1, <3>2, <3>4, <4>1
    <3>5. CASE r.client # c BY <1>5, <1>1, <3>1, <3>2, <3>3, <3>5 DEF Awaits, ShownAt, ShownNext
    <3>. QED BY <3>4, <3>5
  <2>4. job'.step # "idle" /\ Peeks(job') =>
              /\ lease'[job'.client].kind # "active"
              /\ lease'[job'.client].kind = "pending" => lease'[job'.client].op = job'.op
              /\ job'.step = "ran" /\ job'.result = "ok" /\ ~own'[job'.client] =>
                    focus'[job'.client] = job'.target
    BY <1>3, <1>4, <1>5 DEF PvCore, PvShapes, PeeksHold
  <2>. QED BY <2>2, <2>3, <2>4, PeeksNext DEF PvCore, PeeksHold
<1>. QED
  BY <1>7, <1>1, SameReads, SameAnswers, <1>4, <1>5, <1>10, LooksKeep, <1>12 DEF PvKept, PvCore, PeekEndStep,
    FlightStep

(* The completion of a sidebar job.                                          *)
LEMMA ApplyDoneStep == ASSUME PvCore, SawStep, ApplyDone PROVE PvKept
<1>. DEFINE j == Head(mutations).job
            c == j.client
<1>1. /\ mutations # <<>> /\ Head(mutations).kind = "done"
      /\ UNCHANGED <<focus, own, panesAlive, topo, topoFloor, views, unread, obs, job, answered, used>>
      /\ \/ /\ Peeks(j) /\ j.result = "ok" /\ lease' = activate_peek(lease, j)
            /\ mutations' = Tail(mutations) /\ seq' = seq
         \/ /\ Peeks(j) /\ seq < MaxSeq /\ seq' = seq + 1 /\ mutations' = Tail(mutations)
            /\ lease' = Restored(lease, j.client, j.op, focus, seq + 1)
         \/ /\ Peeks(j) /\ mutations' = Tail(mutations) /\ seq' = seq
            /\ lease' = Restored(lease, j.client, j.op, [d \in VClient |-> NoView], 0)
         \/ /\ ~Peeks(j) /\ j.result = "ok" /\ lease' = [lease EXCEPT ![c] = NoLease]
            /\ mutations' = Append(Tail(mutations), [kind |-> "views"]) /\ seq' = seq
         \/ lease' = lease /\ seq' = seq /\ mutations' = Tail(mutations)
  BY DEF ApplyDone, Head_, Popped, Peeks
<1>2. /\ mutations' \in Seq(MutationRec) /\ QueueShift(1)
      /\ \A o \in Flight' : o \in Flight
      /\ 1 \in DOMAIN mutations /\ Head(mutations) = mutations[1]
  BY <1>1, QueueTaken DEF PvCore
<1>3. 1 \in Finished /\ mutations[1].job = j BY <1>1, <1>2 DEF Finished
<1>4. /\ j \in JobRec /\ c \in VClient /\ j.op \in Nat /\ j.floor \in Nat /\ j.floor <= seq
      /\ lease \in [VClient -> LeaseRec] /\ lease[c] \in LeaseRec
      /\ topo \subseteq VPane
  BY <1>3, FinishedShapes DEF PvCore, PvShapes, NumbersRise, JobRec
<1>5. /\ Peeks(j) /\ j.result = "ok" /\ Awaits(c, j.op) /\ ~own[c] => ShownAt(c, j.target, j.floor)
      /\ ~Peeks(j) /\ j.result = "ok" /\ ~own[c] => lease[c].kind # "active"
  BY <1>3 DEF PvCore, PeeksHold
<1>6. UnreadStep /\ ReadStep /\ AnswersListed' /\ AnsweredStaysKnown' BY <1>1, <1>2, SameReads, SameAnswers
<1>. HIDE DEF j, c
(* A step that changes no lease but one that ends.                           *)
<1>7. ASSUME Lowers, PeekEndStep, lease' \in [VClient -> LeaseRec], seq' \in {seq, seq + 1},
             seq' <= MaxSeq + 1,
             \A d \in VClient : lease'[d].kind = "active" => lease'[d].last <= seq'
      PROVE  PvKept
  <2>1. /\ seq' \in Nat /\ seq <= seq' /\ topoFloor' <= seq'
        /\ used.order <= used'.order /\ used.jobs <= used'.jobs
        /\ \A k \in Observer : obs'[k].seq <= seq' /\ obs'[k].through <= used'.order
        /\ \A p \in VPane : unread'[p].order <= used'.order
    BY <1>1, <1>7, Numbers
  <2>3. UNCHANGED <<focus, own, job>> BY <1>1
  <2>4. PvCore' BY <1>2, <1>6, <1>7, <2>1, <1>1, SawShapes, <2>3, LoweringStep DEF PvCore, PvShapes
  <2>. QED BY <1>6, <1>7, <2>4 DEF PvKept
<1>8. ASSUME UNCHANGED lease, seq' \in {seq, seq + 1}, seq' <= MaxSeq + 1 PROVE PvKept
  BY <1>8, SameLeases, Numbers, <1>4, <1>7
<1>9. ASSUME NEW x \in LeaseRec, x.kind # "pending", Awaits(c, j.op), Peeks(j),
             seq' \in {seq, seq + 1}, seq' <= MaxSeq + 1, mutations' = Tail(mutations),
             x.kind = "active" => x.last <= seq',
             x.kind = "active" /\ ~own[c] => ShownAt(c, x.target, x.last),
             lease' = [lease EXCEPT ![c] = x]
      PROVE  PvKept
  BY <1>1, <1>9, DecidedStep DEF j, c
<1>10. seq \in Nat /\ seq <= MaxSeq + 1 /\ MaxSeq \in Nat BY Numbers
<1>11. CASE /\ Peeks(j) /\ j.result = "ok" /\ lease' = activate_peek(lease, j)
            /\ mutations' = Tail(mutations) /\ seq' = seq
  <2>2. CASE lease' = lease BY <1>8, <1>10, <1>11, <2>2
  <2>3. CASE /\ Awaits(c, j.op) /\ j.target \in topo
             /\ lease' = [lease EXCEPT ![c] = Active(j.target, j.floor)]
    <3>. DEFINE x == Active(j.target, j.floor)
    <3>1. x \in LeaseRec /\ x.kind = "active" /\ x.target = j.target /\ x.last = j.floor BY <1>4, <2>3, ActiveLease
    <3>. HIDE DEF x
    <3>2. ~own[c] => ShownAt(c, x.target, x.last) BY <1>5, <1>11, <2>3, <3>1
    <3>. QED BY <1>4, <1>9, <1>10, <1>11, <2>3, <3>1, <3>2 DEF x
  <2>. QED BY <1>11, <2>2, <2>3 DEF activate_peek, Awaits, c
<1>12. CASE /\ Peeks(j) /\ seq < MaxSeq /\ seq' = seq + 1 /\ mutations' = Tail(mutations)
            /\ lease' = Restored(lease, j.client, j.op, focus, seq + 1)
  <2>. DEFINE y == lease[c].prev
              n == seq + 1
              x == IF y \in topo /\ focus[c] = y THEN Active(y, n) ELSE NoLease
  <2>2. seq' \in {seq, seq + 1} /\ seq' <= MaxSeq + 1 /\ n \in Nat /\ seq' = n BY <1>10, <1>12
  <2>3. CASE lease' = lease BY <1>8, <2>2, <2>3
  <2>4. CASE Awaits(c, j.op) /\ lease' = [lease EXCEPT ![c] = x]
    <3>. HIDE DEF y, n
    <3>1. /\ x \in LeaseRec
          /\ \/ x.kind = "none"
             \/ x.kind = "active" /\ x.target = y /\ x.last = n /\ focus[c] = y
      <4>1. CASE y \in topo /\ focus[c] = y
        <5>1. x = Active(y, n) BY <4>1
        <5>. HIDE DEF x
        <5>. QED BY <1>4, <2>2, <4>1, <5>1, ActiveLease
      <4>2. CASE ~(y \in topo /\ focus[c] = y) BY <4>2, NoLeaseIs
      <4>. QED BY <4>1, <4>2
    <3>. HIDE DEF x
    <3>. QED BY <1>9, <1>12, <2>2, <2>4, <3>1, FlightShapes, <1>10 DEF ShownAt, PvCore, NumbersRise, ObsRec, n
  <2>. QED BY <1>4, <1>12, <2>3, <2>4 DEF Restored, Awaits, c
<1>13. CASE /\ Peeks(j) /\ mutations' = Tail(mutations) /\ seq' = seq
            /\ lease' = Restored(lease, j.client, j.op, [d \in VClient |-> NoView], 0)
  <2>1. lease' = lease \/ (Awaits(c, j.op) /\ lease' = [lease EXCEPT ![c] = NoLease])
    <3>. DEFINE w == [d \in VClient |-> NoView]
    <3>. HIDE DEF w
    <3>. QED BY <1>4, ViewsAssumption, <1>13 DEF Restored, Awaits, c
  <2>3. CASE lease' = lease BY <1>8, <1>10, <1>13, <2>3
  <2>4. CASE Awaits(c, j.op) /\ lease' = [lease EXCEPT ![c] = NoLease] BY <1>9, <1>13, <1>10, <2>4, NoLeaseIs
  <2>. QED BY <2>1, <2>3, <2>4
<1>14. CASE /\ ~Peeks(j) /\ j.result = "ok" /\ lease' = [lease EXCEPT ![c] = NoLease]
            /\ seq' = seq
  BY <1>4, <1>14, NoLeaseIs, Numbers, LeaseFields, <1>5, <1>10, <1>7 DEF Lowers, PeekEndStep
<1>15. CASE lease' = lease /\ seq' = seq BY <1>8, <1>10, <1>15
<1>. QED BY <1>1, <1>11, <1>12, <1>13, <1>14, <1>15

-----------------------------------------------------------------------------
(* The invariant of the views and what it gives.                             *)

LEMMA PvStart == PvInit => PvCore /\ ReadWasFocused
<1>. SUFFICES ASSUME PvInit PROVE PvCore /\ ReadWasFocused OBVIOUS
<1>1. /\ VStart \in VPane /\ NoView \notin VPane /\ MaxSeq \in Nat BY ViewsAssumption
<1>2. IdleJob \in JobRec /\ IdleJob.step = "idle" /\ IdleJob.op = 0
  <2>. DEFINE a == CHOOSE e \in VClient : TRUE
  <2>. HIDE DEF a
  <2>. QED BY <1>1 DEF JobRec, Places, IdleJob
<1>4. Flight = {} /\ Finished = {} BY IdleObservation DEF PvInit, Flight, Finished
<1>6. NumbersRise BY <1>1, <1>2, NoLeaseIs, <1>4, IdleObservation DEF PvInit, NumbersRise
<1>7. LooksRemembered /\ AnswersListed /\ AnsweredStaysKnown
  BY <1>4 DEF PvInit, LooksRemembered, AnswersListed, AnsweredStaysKnown
<1>8. PeeksHold BY <1>2, NoLeaseIs, <1>4 DEF PvInit, PeeksHold
<1>. QED
  BY EmptySeq, NoLeaseIs, IdleObservation, <1>1, <1>2, <1>6, <1>7, <1>8 DEF PvCore, PvInit, PvShapes, Places,
    ReadWasFocused

LEMMA PvSteps ==
    ASSUME PvCore, [PvNext]_pvVars
    PROVE  PvCore' /\ PeekEndStep /\ (NoProxyChains /\ ReadWasFocused => ReadWasFocused')
<1>1. CASE UNCHANGED pvVars
  <2>1. PvCore' /\ (ReadWasFocused => ReadWasFocused')
    BY <1>1 DEF pvVars, PvCore, PvShapes, NumbersRise, LooksRemembered, AnswersListed, PeeksHold,
      AnsweredStaysKnown, ReadWasFocused, Flight, Finished, ShownAt, Awaits
  <2>. QED BY <2>1, <1>1, SameLeases DEF pvVars
<1>2. CASE PvNext
  <2>0. SawStep BY <1>2 DEF PvNext, SawStep
  <2>1. PvKept
    <3>1. ASSUME NEW c \in VClient, NEW p \in VPane \cup {NoView}, Focus(c, p) PROVE PvKept BY <2>0, <3>1, FocusStep
    <3>2. ASSUME NEW p \in VPane, PaneChanges(p) \/ RefreshTopology(p) \/ NewUnread(p) PROVE PvKept
      BY <2>0, <3>2, PaneChangesStep, RefreshStep, NewUnreadStep
    <3>3. ASSUME NEW k \in Observer, \/ begin_witness_observation(k)
                                     \/ query_client_witnesses(k) \/ ObserveSend(k)
          PROVE  PvKept
      BY <2>0, <3>3, BeginStep, QueryStep, SendStep
    <3>4. CASE ApplyPoll \/ ApplyViews \/ ApplyDone \/ ApplyReconcile
      BY <2>0, <3>4, ApplyPollStep, ApplyViewsStep, ApplyDoneStep, ApplyReconcileStep
    <3>5. ASSUME NEW c \in VClient, ReadPeek(c) PROVE PvKept BY <2>0, <3>5, ReadPeekStep
    <3>6. ASSUME NEW c \in VClient, NEW p \in VPane, PeekPane(c, p) PROVE PvKept BY <2>0, <3>6, PeekPaneStep
    <3>7. ASSUME NEW c \in VClient, NEW cand, Jump(c, cand) PROVE PvKept BY <2>0, <3>7, JumpStep
    <3>8. CASE RunJob \/ ReportJob BY <2>0, <3>8, RunJobStep, ReportJobStep
    <3>. QED BY <3>1, <3>2, <3>3, <3>4, <3>5, <3>6, <3>7, <3>8, <1>2 DEF PvStep, PvNext
  <2>. QED BY <2>1, <2>0, ReadsKeep DEF PvKept, PvCore
<1>. QED BY <1>1, <1>2

LEMMA PvInvariant == PvSpec => []PvCore
<1>1. PvInit => PvCore BY PvStart
<1>2. PvCore /\ [PvNext]_pvVars => PvCore' BY PvSteps
<1>. QED BY <1>1, <1>2, PTL DEF PvSpec

(* The part of the daemon that keeps the views takes PaneViews' steps.       *)
LEMMA ViewsPart == CoreSpec => PvSpec
<1>1. CoreInit => PvInit BY DEF CoreInit
<1>2. [CoreNext]_coreVars => [PvNext]_pvVars BY DEF CoreNext, coreVars, pvVars
<1>. QED BY <1>1, <1>2, PTL DEF CoreSpec, PvSpec

(* An active peek ends only for a reason, whichever observation is applied.  *)
LEMMA PeeksEndForAReason == PvSpec => PeekEndsForAReason
<1>1. PvCore /\ [PvNext]_pvVars => [PeekEndStep]_pvVars BY PvSteps
<1>. QED BY <1>1, PvInvariant, PTL DEF PvSpec, PeekEndsForAReason, PeekEndStep

LEMMA ViewsSoundLemma == ASSUME NoProxyChains PROVE PvSpec => []ViewsSound
<1>1. PvInit => PvCore /\ ReadWasFocused BY PvStart
<1>2. PvCore /\ ReadWasFocused /\ [PvNext]_pvVars => (PvCore /\ ReadWasFocused)' BY PvSteps
<1>3. PvCore /\ ReadWasFocused => ViewsSound
  BY Numbers, LeaseFields DEF PvCore, PvShapes, Places, ViewsSound, PvTypeOK
<1>. QED BY <1>1, <1>2, <1>3, PTL DEF PvSpec

(* What no step of the daemon does: take a revision back, end a peek without *)
(* a reason.                                                                 *)
THEOREM CoreStepsHold == CoreSpec => CoreSteps
<1>1. CoreSpec => RevisionsRise BY StreamPart, RevisionsKeepRising, PTL
<1>2. CoreSpec => PeekEndsForAReason BY ViewsPart, PeeksEndForAReason, PTL
<1>. QED BY <1>1, <1>2, PTL DEF CoreSteps

-----------------------------------------------------------------------------
(* ViewHooks: events, the refresh threads that race, and hook slots.         *)

HookRec ==
    [step : {"none", "parse", "try", "bump", "claim", "done", "lost"}, attempts : Nat, saw : Nat]
ThreadRec ==
    [pc : {"dead", "load", "sleep", "query", "check", "release", "recheck", "reclaim"}, gen : Nat]
VhShapes ==
    /\ world \in Nat /\ heard \in Nat /\ refreshGeneration \in Nat /\ shown \in Nat
    /\ running \in BOOLEAN /\ spoiled \in BOOLEAN
    /\ hook \in [HookEvent -> HookRec] /\ accepted \in [HookEvent -> Nat]
    /\ thread \in [HookEvent -> ThreadRec]

Delivered(e) == hook[e].step \in {"bump", "claim", "done"}
Counted(e) == hook[e].step \in {"claim", "done"}
Seen(e) == spoiled \/ shown >= hook[e].saw

(* An event is counted once, and the newest change that was heard of is that *)
(* of a delivered event.                                                     *)
EventsCounted ==
    /\ \A e \in HookEvent :
          /\ hook[e].attempts <= MaxAttempts /\ hook[e].saw <= world
          /\ accepted[e] = IF Delivered(e) THEN 1 ELSE 0
    /\ heard = 0 \/ \E e \in HookEvent : Delivered(e) /\ hook[e].saw = heard

(* The flag is up exactly while some thread refreshes, and one does.         *)
FlagHeld ==
    /\ running <=> \E t \in HookEvent : Refreshing(t)
    /\ \A t, u \in HookEvent : Refreshing(t) /\ Refreshing(u) => t = u
    /\ \A t \in HookEvent : thread[t].gen <= refreshGeneration

(* A thread that may still leave without another query has shown what was    *)
(* counted before it loaded the generation; what is counted and not shown    *)
(* has a thread that will.                                                   *)
Leaving(t) ==
    thread[t].pc \in {"check", "release", "recheck"} /\ thread[t].gen = refreshGeneration
CountedShown ==
    /\ \A e, t \in HookEvent : Counted(e) /\ Leaving(t) => Seen(e)
    /\ \A e \in HookEvent :
          hook[e].step = "done" => Seen(e) \/ \E t \in HookEvent : thread[t].pc # "dead"

SlotValue == {"missing", "owned", "foreign"}
EditorRec == [step : {"idle", "install", "remove", "verify", "verify_gone"},
              saw : [HookSlot -> SlotValue], result : {"none", "installed", "removed", "failed"}]
SlotsKept ==
    /\ slot \in [HookSlot -> SlotValue] /\ editor \in EditorRec
    /\ ForeignLeftAlone
    /\ editor.step = "install" => \A s \in HookSlot : editor.saw[s] # "foreign"

VhInv == VhShapes /\ EventsCounted /\ FlagHeld /\ CountedShown /\ SlotsKept

(* Steps of the hook commands up to the acceptance of the event.             *)
LEMMA VhCommandKeeps ==
    ASSUME VhInv, UNCHANGED refreshVars, UNCHANGED slotVars, hook' \in [HookEvent -> HookRec],
           \A e \in HookEvent : hook'[e].step \in {"claim", "done"} => hook'[e] = hook[e]
    PROVE  FlagHeld' /\ CountedShown' /\ SlotsKept'
  BY DEF refreshVars, slotVars, VhInv, FlagHeld, Refreshing, SlotsKept, ForeignLeftAlone, CountedShown, Counted,
    Seen, Leaving

LEMMA FocusChangesStep == ASSUME VhInv, NEW e \in HookEvent, FocusChanges(e) PROVE VhInv'
<1>. DEFINE w == world + 1
            h == [step |-> "parse", attempts |-> 0, saw |-> w]
<1>1. /\ hook[e].step = "none" /\ world' = w /\ hook' = [hook EXCEPT ![e] = h]
      /\ UNCHANGED <<accepted, heard>> /\ UNCHANGED refreshVars /\ UNCHANGED slotVars
  BY DEF FocusChanges
<1>2. w \in Nat /\ h \in HookRec /\ h.step = "parse" /\ h.attempts = 0 /\ h.saw = w
      /\ world < w /\ world \in Nat
  BY DEF VhInv, VhShapes, HookRec
<1>. HIDE DEF w, h
<1>3. /\ hook' \in [HookEvent -> HookRec] /\ hook'[e] = h
      /\ \A d \in HookEvent : d # e => hook'[d] = hook[d]
  BY <1>1, <1>2 DEF VhInv, VhShapes
<1>. QED
  BY <1>1, <1>2, <1>3, HooksAssumption, VhCommandKeeps DEF VhInv, VhShapes, refreshVars, HookRec, EventsCounted,
    Delivered

(* Parsing, the deadline, and a failed attempt: the event is not delivered.  *)
LEMMA StillUndelivered ==
    ASSUME VhInv, NEW e \in HookEvent, NEW h \in HookRec, hook[e].step \in {"parse", "try"},
           h.step \in {"try", "lost"}, h.attempts <= MaxAttempts, h.saw = hook[e].saw,
           hook' = [hook EXCEPT ![e] = h], UNCHANGED <<world, accepted, heard>>,
           UNCHANGED refreshVars, UNCHANGED slotVars
    PROVE  VhInv'
  BY VhCommandKeeps DEF VhInv, VhShapes, refreshVars, Delivered, EventsCounted

LEMMA ParseStep == ASSUME VhInv, NEW e \in HookEvent, parse_hook_view_snapshot(e) PROVE VhInv'
<1>1. PICK s \in {"try", "lost"} : hook' = [hook EXCEPT ![e].step = s] BY DEF parse_hook_view_snapshot
<1>. DEFINE h == [hook[e] EXCEPT !.step = s]
<1>3. hook' = [hook EXCEPT ![e] = h] BY <1>1 DEF VhInv, VhShapes
<1>4. h \in HookRec /\ h.step = s /\ h.attempts = hook[e].attempts /\ h.saw = hook[e].saw
  BY DEF HookRec, VhInv, VhShapes
<1>. HIDE DEF h
<1>. QED BY <1>3, <1>4, StillUndelivered DEF parse_hook_view_snapshot, VhInv, EventsCounted

LEMMA DeadlineStep == ASSUME VhInv, NEW e \in HookEvent, ensure_view_hook_deadline(e) PROVE VhInv'
<1>. DEFINE h == [hook[e] EXCEPT !.step = "lost"]
<1>2. hook' = [hook EXCEPT ![e] = h] BY DEF ensure_view_hook_deadline, VhInv, VhShapes
<1>3. h \in HookRec /\ h.step = "lost" /\ h.attempts = hook[e].attempts /\ h.saw = hook[e].saw
  BY DEF HookRec, VhInv, VhShapes
<1>. HIDE DEF h
<1>. QED BY <1>2, <1>3, StillUndelivered DEF ensure_view_hook_deadline, VhInv, EventsCounted

LEMMA AttemptStep == ASSUME VhInv, NEW e \in HookEvent, Attempt(e) PROVE VhInv'
<1>. DEFINE n == hook[e].attempts + 1
            tried == [hook[e] EXCEPT !.attempts = n]
            lost == [tried EXCEPT !.step = "lost"]
            sent == [tried EXCEPT !.step = "bump"]
<1>0. hook \in [HookEvent -> HookRec] /\ hook[e] \in HookRec /\ accepted \in [HookEvent -> Nat]
      /\ hook[e].step = "try" /\ hook[e].attempts \in Nat /\ MaxAttempts \in Nat
      /\ hook[e].attempts < MaxAttempts /\ hook[e].saw \in Nat /\ hook[e].saw <= world
  BY HooksAssumption DEF VhInv, VhShapes, HookRec, EventsCounted, Attempt
<1>1. /\ \/ /\ accepted' = [accepted EXCEPT ![e] = @ + 1]
            /\ hook' = [hook EXCEPT ![e] = sent]
         \/ /\ hook' = [hook EXCEPT ![e] = tried] \/ hook' = [hook EXCEPT ![e] = lost]
            /\ UNCHANGED accepted
      /\ heard' = IF accepted' # accepted /\ hook[e].saw > heard THEN hook[e].saw ELSE heard
      /\ UNCHANGED world /\ UNCHANGED refreshVars /\ UNCHANGED slotVars
  BY DEF Attempt, may_retry
<1>2. n \in Nat /\ n <= MaxAttempts BY <1>0
<1>. HIDE DEF n
<1>3. tried \in HookRec /\ tried.step = "try" /\ tried.attempts = n /\ tried.saw = hook[e].saw
  BY <1>0, <1>2 DEF HookRec
<1>. HIDE DEF tried
<1>4. /\ lost \in HookRec /\ lost.step = "lost" /\ lost.attempts = n /\ lost.saw = hook[e].saw
      /\ sent \in HookRec /\ sent.step = "bump" /\ sent.attempts = n /\ sent.saw = hook[e].saw
  BY <1>3 DEF HookRec
<1>. HIDE DEF lost, sent
<1>5. CASE /\ hook' = [hook EXCEPT ![e] = tried] \/ hook' = [hook EXCEPT ![e] = lost]
           /\ UNCHANGED accepted
  BY <1>1, <1>5, <1>0, <1>2, <1>3, <1>4, StillUndelivered
<1>6. CASE accepted' = [accepted EXCEPT ![e] = @ + 1] /\ hook' = [hook EXCEPT ![e] = sent]
  BY <1>0, <1>4, <1>6, <1>1, <1>2, VhCommandKeeps DEF VhInv, EventsCounted, Delivered, VhShapes, refreshVars
<1>. QED BY <1>1, <1>5, <1>6

(* Counting an event: every thread that loaded the generation must look      *)
(* again.                                                                    *)
LEMMA BumpStep == ASSUME VhInv, NEW e \in HookEvent, Bump(e) PROVE VhInv'
<1>. DEFINE h == [hook[e] EXCEPT !.step = "claim"]
            g == refreshGeneration + 1
<1>0. hook \in [HookEvent -> HookRec] /\ hook[e] \in HookRec /\ refreshGeneration \in Nat
      /\ \A t \in HookEvent : thread[t].gen \in Nat /\ thread[t].gen <= refreshGeneration
  BY DEF VhInv, VhShapes, ThreadRec, FlagHeld
<1>1. /\ hook[e].step = "bump" /\ hook' = [hook EXCEPT ![e] = h] /\ refreshGeneration' = g
      /\ UNCHANGED <<world, accepted, heard, running, thread, shown, spoiled>>
      /\ UNCHANGED slotVars
  BY <1>0 DEF Bump
<1>2. g \in Nat /\ \A t \in HookEvent : thread[t].gen < g BY <1>0
<1>3. h \in HookRec /\ h.step = "claim" /\ h.attempts = hook[e].attempts /\ h.saw = hook[e].saw BY <1>0 DEF HookRec
<1>. HIDE DEF h, g
<1>7. FlagHeld' BY <1>0, <1>1, <1>2 DEF VhInv, FlagHeld, Refreshing
<1>8. CountedShown' BY <1>0, <1>1, <1>2, <1>3 DEF Leaving, VhInv, CountedShown, Seen
<1>9. SlotsKept' BY <1>1 DEF VhInv, SlotsKept, ForeignLeftAlone, slotVars
<1>. QED BY <1>1, <1>2, <1>0, <1>3, <1>7, <1>8, <1>9 DEF VhInv, VhShapes, Delivered, EventsCounted

(* Becoming the refresher, or leaving it to the thread that is.              *)
LEMMA ClaimStep == ASSUME VhInv, NEW e \in HookEvent, Claim(e) PROVE VhInv'
<1>. DEFINE h == [hook[e] EXCEPT !.step = "done"]
            r == [pc |-> "load", gen |-> 0]
<1>0. hook \in [HookEvent -> HookRec] /\ hook[e] \in HookRec /\ refreshGeneration \in Nat
      /\ thread \in [HookEvent -> ThreadRec]
  BY DEF VhInv, VhShapes
<1>1. /\ hook[e].step = "claim" /\ hook' = [hook EXCEPT ![e] = h] /\ running' = TRUE
      /\ thread' = IF running THEN thread ELSE [thread EXCEPT ![e] = r]
      /\ UNCHANGED <<world, accepted, heard, refreshGeneration, shown, spoiled>>
      /\ UNCHANGED slotVars
  BY <1>0 DEF Claim
<1>2. h \in HookRec /\ h.step = "done" /\ h.attempts = hook[e].attempts /\ h.saw = hook[e].saw BY <1>0 DEF HookRec
<1>3. r \in ThreadRec /\ r.pc = "load" /\ r.gen = 0 BY DEF ThreadRec
<1>. HIDE DEF h, r
<1>5. /\ thread' \in [HookEvent -> ThreadRec]
      /\ running => thread' = thread
      /\ ~running => thread'[e] = r /\ \A t \in HookEvent : t # e => thread'[t] = thread[t]
  BY <1>0, <1>1, <1>3
<1>8. FlagHeld' BY <1>1, <1>5, <1>3, <1>0 DEF VhInv, FlagHeld, Refreshing
<1>9. CountedShown'
  BY <1>1, <1>2, <1>0, <1>3, <1>5 DEF Counted, Seen, Leaving, VhInv, FlagHeld, Refreshing, CountedShown
<1>10. SlotsKept' BY <1>1 DEF VhInv, SlotsKept, ForeignLeftAlone, slotVars
<1>. QED BY <1>1, <1>0, <1>2, <1>5, <1>8, <1>9, <1>10 DEF VhInv, VhShapes, Delivered, EventsCounted

(* A thread's step: where it goes, and what must hold for the flag and the   *)
(* events not to be lost.                                                    *)
LEMMA ThreadMoves ==
    ASSUME VhInv, NEW t \in HookEvent, NEW r \in ThreadRec, thread' = [thread EXCEPT ![t] = r],
           r.gen <= refreshGeneration, running' \in BOOLEAN,
           shown' = shown \/ shown' = world, spoiled' \in BOOLEAN,
           UNCHANGED <<world, hook, accepted, heard, refreshGeneration>>, UNCHANGED slotVars,
           \/ running' = running /\ (Refreshing(t) <=> Refreshing(t)')
           \/ ~running /\ running' /\ Refreshing(t)'
           \/ Refreshing(t) /\ ~running' /\ ~Refreshing(t)',
           \A e \in HookEvent : Counted(e) => (Seen(e) => Seen(e)'),
           Leaving(t)' => Leaving(t) \/ (\A e \in HookEvent : Counted(e) => Seen(e)'),
           r.pc = "dead" => \/ \A e \in HookEvent : Counted(e) => Seen(e)
                            \/ \E u \in HookEvent : u # t /\ thread[u].pc # "dead"
    PROVE  VhInv'
  BY DEF VhInv, VhShapes, EventsCounted, Delivered, Refreshing, FlagHeld, Counted, Leaving, CountedShown, SlotsKept,
    ForeignLeftAlone, slotVars

LEMMA ThreadSteps == ASSUME VhInv, NEW t \in HookEvent, ThreadStep(t) PROVE VhInv'
<1>0. /\ thread \in [HookEvent -> ThreadRec] /\ thread[t] \in ThreadRec
      /\ thread[t].gen \in Nat /\ thread[t].gen <= refreshGeneration /\ refreshGeneration \in Nat
      /\ UNCHANGED <<world, hook, accepted, heard, refreshGeneration>> /\ UNCHANGED slotVars
      /\ running \in BOOLEAN /\ spoiled \in BOOLEAN /\ shown \in Nat /\ world \in Nat
  BY DEF ThreadStep, VhInv, VhShapes, ThreadRec, FlagHeld
<1>. DEFINE to(pc) == [thread[t] EXCEPT !.pc = pc]
<1>1. \A pc \in {"dead", "load", "sleep", "query", "check", "release", "recheck", "reclaim"} :
         to(pc) \in ThreadRec /\ to(pc).pc = pc /\ to(pc).gen = thread[t].gen
  BY <1>0 DEF ThreadRec
<1>2. \A pc : thread' = [thread EXCEPT ![t].pc = pc] => thread' = [thread EXCEPT ![t] = to(pc)] BY <1>0
<1>. HIDE DEF to
<1>3. \A r \in ThreadRec : thread' = [thread EXCEPT ![t] = r] => thread'[t] = r BY <1>0
<1>4. \A e \in HookEvent : UNCHANGED <<shown, spoiled>> => (Seen(e)' <=> Seen(e)) BY <1>0 DEF Seen
<1>5. CASE Load(t)
  <2>. DEFINE r == [pc |-> "sleep", gen |-> refreshGeneration]
  <2>1. r \in ThreadRec /\ r.pc = "sleep" /\ r.gen = refreshGeneration BY <1>0 DEF ThreadRec
  <2>2. thread[t].pc = "load" /\ thread' = [thread EXCEPT ![t] = r]
        /\ UNCHANGED <<running, shown, spoiled>>
    BY <1>5 DEF Load
  <2>. HIDE DEF r
  <2>4. r.gen <= refreshGeneration /\ r.pc # "dead" /\ running' \in BOOLEAN
        /\ (shown' = shown \/ shown' = world) /\ spoiled' \in BOOLEAN
    BY <1>0, <2>1, <2>2
  <2>. QED BY <1>0, <2>1, <2>2, <1>3, <2>4, <1>4, ThreadMoves DEF Refreshing, Leaving
<1>6. CASE Debounced(t)
  <2>1. PICK pc \in {"query", "load"} :
          thread[t].pc = "sleep" /\ thread' = [thread EXCEPT ![t] = to(pc)]
          /\ UNCHANGED <<running, shown, spoiled>>
    BY <1>2, <1>6 DEF Debounced, Goes
  <2>2. Refreshing(t) /\ Refreshing(t)' /\ ~Leaving(t)' BY <1>1, <1>3, <2>1 DEF Refreshing, Leaving
  <2>. QED BY <1>0, <1>1, <1>4, <2>1, <2>2, ThreadMoves
<1>7. CASE Query(t)
  <2>1. thread[t].pc = "query" /\ thread' = [thread EXCEPT ![t] = to("check")]
        /\ running' = running
        /\ \/ shown' = world /\ spoiled' = FALSE
           \/ shown' = shown /\ spoiled' = TRUE
    BY <1>2, <1>7 DEF Query, Goes
  <2>. QED BY <1>0, <1>1, <2>1, <1>3, ThreadMoves DEF Refreshing, Seen, VhInv, EventsCounted
<1>8. CASE Check(t)
  <2>1. PICK pc \in {"release", "load"} :
          thread[t].pc = "check" /\ thread' = [thread EXCEPT ![t] = to(pc)]
          /\ UNCHANGED <<running, shown, spoiled>>
    BY <1>2, <1>8 DEF Check, Goes
  <2>2. Refreshing(t) /\ Refreshing(t)' /\ (Leaving(t)' => Leaving(t))
    BY <1>0, <1>1, <1>3, <2>1 DEF Refreshing, Leaving
  <2>. QED BY <1>0, <1>1, <1>4, <2>1, <2>2, ThreadMoves
<1>9. CASE ReleaseRefresh(t)
  <2>1. thread[t].pc = "release" /\ thread' = [thread EXCEPT ![t] = to("recheck")]
        /\ running' = FALSE /\ UNCHANGED <<shown, spoiled>>
    BY <1>2, <1>9 DEF ReleaseRefresh, Goes
  <2>2. Refreshing(t) /\ ~Refreshing(t)' /\ (Leaving(t)' => Leaving(t))
    BY <1>0, <1>1, <1>3, <2>1 DEF Refreshing, Leaving
  <2>. QED BY <1>0, <1>1, <1>4, <2>1, <2>2, ThreadMoves
<1>10. CASE Recheck(t)
  <2>1. /\ thread[t].pc = "recheck" /\ UNCHANGED <<running, shown, spoiled>>
        /\ \/ thread[t].gen = refreshGeneration /\ thread' = [thread EXCEPT ![t] = to("dead")]
           \/ thread' = [thread EXCEPT ![t] = to("reclaim")]
    BY <1>2, <1>10 DEF Recheck, Goes
  <2>2. ~Refreshing(t) /\ ~Refreshing(t)' /\ ~Leaving(t)' BY <1>1, <1>3, <2>1 DEF Refreshing, Leaving
  <2>3. CASE thread[t].gen = refreshGeneration /\ thread' = [thread EXCEPT ![t] = to("dead")]
    BY <2>1, <2>3, <1>0, <1>1, <1>4, <2>2, ThreadMoves DEF VhInv, CountedShown, Leaving
  <2>4. CASE thread' = [thread EXCEPT ![t] = to("reclaim")] BY <1>0, <1>1, <1>4, <2>1, <2>2, <2>4, ThreadMoves
  <2>. QED BY <2>1, <2>3, <2>4
<1>11. CASE Reclaim(t)
  <2>1. /\ thread[t].pc = "reclaim" /\ running' = TRUE /\ UNCHANGED <<shown, spoiled>>
        /\ running => thread' = [thread EXCEPT ![t] = to("dead")]
        /\ ~running => thread' = [thread EXCEPT ![t] = to("load")]
    BY <1>2, <1>11 DEF Reclaim, Goes
  <2>2. CASE running BY <1>1, <1>3, <2>1, <2>2, <1>0, <1>4, ThreadMoves DEF Refreshing, Leaving, VhInv, FlagHeld
  <2>3. CASE ~running
    <3>1. Refreshing(t)' /\ ~Leaving(t)' BY <1>1, <1>3, <2>1, <2>3 DEF Refreshing, Leaving
    <3>. QED BY <1>0, <1>1, <1>4, <2>1, <2>3, <3>1, ThreadMoves
  <2>. QED BY <1>0, <2>2, <2>3
<1>. QED BY <1>5, <1>6, <1>7, <1>8, <1>9, <1>10, <1>11 DEF ThreadStep

(* Hook slots.                                                               *)
LEMMA RestKeeps ==
    ASSUME VhInv, Rest, SlotsKept'
    PROVE  VhInv'
  BY DEF Rest, refreshVars, VhInv, VhShapes, EventsCounted, FlagHeld, CountedShown, Delivered, Counted, Seen,
    Leaving, Refreshing

LEMMA SlotSteps == ASSUME VhInv, SlotNext PROVE VhInv'
<1>0. /\ slot \in [HookSlot -> SlotValue] /\ editor \in EditorRec
      /\ editor.saw \in [HookSlot -> SlotValue]
      /\ \A s \in taken : editor.saw[s] # "foreign"
      /\ editor.step = "install" => \A s \in HookSlot : editor.saw[s] # "foreign"
  BY DEF VhInv, SlotsKept, EditorRec, ForeignLeftAlone
<1>1. ASSUME NEW s \in HookSlot, UserSets(s) PROVE VhInv'
  BY <1>1, <1>0, RestKeeps DEF UserSets, SlotValue, SlotsKept, ForeignLeftAlone
<1>2. ASSUME NEW what \in {"install", "remove"}, Inspect(what) PROVE VhInv'
  <2>2. CASE what = "install" /\ \E s \in HookSlot : slot[s] = "foreign"
    BY <1>0, <1>2, <2>2, RestKeeps DEF Inspect, SlotsKept, ForeignLeftAlone
  <2>3. CASE ~(what = "install" /\ \E s \in HookSlot : slot[s] = "foreign")
    <3>. DEFINE r == [step |-> what, saw |-> slot, result |-> "none"]
    <3>1. editor' = r BY <1>2, <2>3 DEF Inspect
    <3>. HIDE DEF r
    <3>. QED BY <1>0, <1>2, <2>3, <3>1, RestKeeps DEF SlotsKept, ForeignLeftAlone, Inspect, EditorRec
  <2>. QED BY <2>2, <2>3
<1>3. CASE hook_install_args
  <2>. DEFINE r == [editor EXCEPT !.step = "verify"]
  <2>1. editor' = r /\ editor.step = "install" /\ Rest BY <1>3 DEF hook_install_args
  <2>2. r \in EditorRec /\ r.saw = editor.saw /\ r.step = "verify" BY <1>0 DEF EditorRec
  <2>. HIDE DEF r
  <2>. QED BY <1>0, <2>1, <2>2, <1>3, RestKeeps DEF SlotsKept, ForeignLeftAlone, hook_install_args, Taken, SlotValue
<1>4. CASE hook_uninstall_args
  <2>. DEFINE r == [editor EXCEPT !.step = "verify_gone"]
  <2>1. editor' = r /\ Rest BY <1>4 DEF hook_uninstall_args
  <2>2. r \in EditorRec /\ r.saw = editor.saw /\ r.step = "verify_gone" BY <1>0 DEF EditorRec
  <2>. HIDE DEF r
  <2>4. \A s \in taken' : editor.saw[s] # "foreign" BY <1>0, <1>4 DEF hook_uninstall_args, Taken
  <2>. QED
    BY <1>0, <2>1, <2>2, <1>4, <2>4, RestKeeps DEF SlotsKept, ForeignLeftAlone, hook_uninstall_args, SlotValue
<1>5. CASE VerifyHooks
  <2>1. PICK x \in {"installed", "removed", "failed"} :
           editor' = [editor EXCEPT !.step = "idle", !.result = x]
    BY <1>5 DEF VerifyHooks
  <2>. DEFINE r == [editor EXCEPT !.step = "idle", !.result = x]
  <2>. HIDE DEF r
  <2>. QED BY <1>0, <1>5, <2>1, RestKeeps DEF SlotsKept, ForeignLeftAlone, VerifyHooks, EditorRec
<1>6. CASE monitor_hooks BY <1>0, <1>6, RestKeeps DEF monitor_hooks, SlotsKept, ForeignLeftAlone
<1>. QED BY <1>1, <1>2, <1>3, <1>4, <1>5, <1>6 DEF SlotNext

LEMMA VhStart == VhInit => VhInv
<1>. SUFFICES ASSUME VhInit PROVE VhInv OBVIOUS
<1>1. /\ hook \in [HookEvent -> HookRec] /\ thread \in [HookEvent -> ThreadRec]
      /\ accepted \in [HookEvent -> Nat]
      /\ \A e \in HookEvent : /\ hook[e].step = "none" /\ hook[e].attempts = 0 /\ hook[e].saw = 0
                              /\ thread[e].pc = "dead" /\ thread[e].gen = 0 /\ accepted[e] = 0
  BY DEF VhInit, HookRec, ThreadRec, DeadThread
<1>3. EventsCounted BY HooksAssumption, <1>1 DEF VhInit, EventsCounted, Delivered
<1>4. FlagHeld BY <1>1 DEF VhInit, FlagHeld, Refreshing
<1>5. CountedShown BY <1>1 DEF VhInit, CountedShown, Leaving, Counted
<1>6. SlotsKept
  <2>. DEFINE r == [step |-> "idle", saw |-> slot, result |-> "none"]
  <2>2. editor = r BY DEF VhInit
  <2>. HIDE DEF r
  <2>. QED BY <2>2 DEF SlotsKept, ForeignLeftAlone, VhInit, SlotValue, EditorRec
<1>. QED BY <1>1, <1>3, <1>4, <1>5, <1>6 DEF VhInv, VhInit, VhShapes

LEMMA VhSteps == ASSUME VhInv, [VhNext]_vhVars PROVE VhInv'
<1>1. CASE DeliveryNext
  BY <1>1, FocusChangesStep, ParseStep, DeadlineStep, AttemptStep, BumpStep, ClaimStep, ThreadSteps DEF DeliveryNext
<1>2. CASE SlotNext BY <1>2, SlotSteps
<1>3. CASE UNCHANGED vhVars
  BY <1>3 DEF vhVars, VhInv, VhShapes, EventsCounted, FlagHeld, CountedShown, Delivered, Counted, Seen, Leaving,
    Refreshing, SlotsKept, ForeignLeftAlone
<1>. QED BY <1>1, <1>2, <1>3 DEF VhNext

LEMMA VhInvSound == VhInv => HooksSound
<1>. SUFFICES ASSUME VhInv PROVE HooksSound OBVIOUS
<1>1. OneRefresher
  <2>. DEFINE busy == {t \in HookEvent : Refreshing(t)}
  <2>1. \A t, u \in busy : t = u BY DEF VhInv, FlagHeld
  <2>2. Cardinality(busy) <= 1 BY FS_EmptySet, <2>1, FS_Singleton
  <2>. QED BY <2>2 DEF VhInv, FlagHeld, OneRefresher
<1>. QED
  BY <1>1 DEF HooksSound, NoChangeForgotten, VhInv, VhShapes, EventsCounted, Delivered, CountedShown, Seen,
    AcceptedOnce, SlotsKept

(* One change of focus is accepted at most once and shown, one thread        *)
(* refreshes, and no foreign hook is overwritten that was seen.              *)
THEOREM HooksKept == VhSpec => []HooksSound
<1>1. VhInit => VhInv BY VhStart
<1>2. VhInv /\ [VhNext]_vhVars => VhInv' BY VhSteps
<1>3. VhInv => HooksSound BY VhInvSound
<1>. QED BY <1>1, <1>2, <1>3, PTL DEF VhSpec

-----------------------------------------------------------------------------
(* PaneSwitch: the neighbour that is chosen, and the guarded switch to it.   *)

LayoutOk(l) ==
    /\ DOMAIN l \subseteq PaneId
    /\ \A p \in DOMAIN l :
          /\ l[p].left \in Nat /\ l[p].top \in Nat
          /\ l[p].width \in Nat \ {0} /\ l[p].height \in Nat \ {0}

RectRec == [left : Nat, top : Nat, width : Nat \ {0}, height : Nat \ {0}]

LEMMA LayoutsOk == \A l \in Layouts : LayoutOk(l)
<1>1. \A x, y \in Nat : \A z, u \in Nat \ {0} : Rect(x, y, z, u) \in RectRec BY DEF Rect, RectRec
<1>2. \A l : DOMAIN l \subseteq PaneId /\ (\A p \in DOMAIN l : l[p] \in RectRec) => LayoutOk(l)
  BY DEF LayoutOk, RectRec
<1>3. LayoutOk([a |-> Rect(0, 0, 4, 4),
              b |-> Rect(5, 0, 4, 4),
              c |-> Rect(0, 5, 4, 4),
              d |-> Rect(5, 5, 4, 4)])
  <2>. DEFINE l == [a |-> Rect(0, 0, 4, 4),
              b |-> Rect(5, 0, 4, 4),
              c |-> Rect(0, 5, 4, 4),
              d |-> Rect(5, 5, 4, 4)]
  <2>1. DOMAIN l = {"a", "b", "c", "d"} OBVIOUS
  <2>2. l["a"] \in RectRec BY <1>1
  <2>3. l["b"] \in RectRec BY <1>1
  <2>4. l["c"] \in RectRec BY <1>1
  <2>5. l["d"] \in RectRec BY <1>1
  <2>. HIDE DEF l
  <2>6. LayoutOk(l) BY <1>2, <2>1, <2>2, <2>3, <2>4, <2>5 DEF PaneId
  <2>. QED BY <2>6 DEF l
<1>4. LayoutOk([b |-> Rect(0, 0, 4, 9),
              a |-> Rect(5, 0, 4, 9),
              c |-> Rect(10, 0, 4, 9)])
  <2>. DEFINE l == [b |-> Rect(0, 0, 4, 9),
              a |-> Rect(5, 0, 4, 9),
              c |-> Rect(10, 0, 4, 9)]
  <2>1. DOMAIN l = {"b", "a", "c"} OBVIOUS
  <2>2. l["b"] \in RectRec BY <1>1
  <2>3. l["a"] \in RectRec BY <1>1
  <2>4. l["c"] \in RectRec BY <1>1
  <2>. HIDE DEF l
  <2>5. LayoutOk(l) BY <1>2, <2>1, <2>2, <2>3, <2>4 DEF PaneId
  <2>. QED BY <2>5 DEF l
<1>5. LayoutOk([a |-> Rect(0, 0, 4, 9),
              b |-> Rect(5, 0, 4, 4),
              c |-> Rect(5, 5, 4, 4),
              d |-> Rect(10, 0, 4, 9)])
  <2>. DEFINE l == [a |-> Rect(0, 0, 4, 9),
              b |-> Rect(5, 0, 4, 4),
              c |-> Rect(5, 5, 4, 4),
              d |-> Rect(10, 0, 4, 9)]
  <2>1. DOMAIN l = {"a", "b", "c", "d"} OBVIOUS
  <2>2. l["a"] \in RectRec BY <1>1
  <2>3. l["b"] \in RectRec BY <1>1
  <2>4. l["c"] \in RectRec BY <1>1
  <2>5. l["d"] \in RectRec BY <1>1
  <2>. HIDE DEF l
  <2>6. LayoutOk(l) BY <1>2, <2>1, <2>2, <2>3, <2>4, <2>5 DEF PaneId
  <2>. QED BY <2>6 DEF l
<1>6. LayoutOk([b |-> Rect(0, 0, 2, 4),
              c |-> Rect(3, 0, 6, 4),
              a |-> Rect(0, 5, 9, 4)])
  <2>. DEFINE l == [b |-> Rect(0, 0, 2, 4),
              c |-> Rect(3, 0, 6, 4),
              a |-> Rect(0, 5, 9, 4)]
  <2>1. DOMAIN l = {"b", "c", "a"} OBVIOUS
  <2>2. l["b"] \in RectRec BY <1>1
  <2>3. l["c"] \in RectRec BY <1>1
  <2>4. l["a"] \in RectRec BY <1>1
  <2>. HIDE DEF l
  <2>5. LayoutOk(l) BY <1>2, <2>1, <2>2, <2>3, <2>4 DEF PaneId
  <2>. QED BY <2>5 DEF l
<1>7. LayoutOk([a |-> Rect(0, 0, 9, 9)])
  <2>. DEFINE l == [a |-> Rect(0, 0, 9, 9)]
  <2>1. DOMAIN l = {"a"} OBVIOUS
  <2>2. l["a"] \in RectRec BY <1>1
  <2>. HIDE DEF l
  <2>. QED BY <1>2, <2>1, <2>2 DEF l, PaneId
<1>. QED BY <1>3, <1>4, <1>5, <1>6, <1>7 DEF Layouts

(* Scores are compared like words.                                           *)
LEMMA BeforeTriples ==
    ASSUME NEW a1 \in Int, NEW a2 \in Int, NEW a3 \in Int,
           NEW b1 \in Int, NEW b2 \in Int, NEW b3 \in Int
    PROVE  Before(<<a1, a2, a3>>, <<b1, b2, b3>>) <=>
              \/ a1 < b1
              \/ a1 = b1 /\ a2 < b2
              \/ a1 = b1 /\ a2 = b2 /\ a3 < b3
<1>. DEFINE s == <<a1, a2, a3>>
            t == <<b1, b2, b3>>
<1>1. /\ DOMAIN s = {1, 2, 3}
      /\ s[1] = a1 /\ s[2] = a2 /\ s[3] = a3 /\ t[1] = b1 /\ t[2] = b2 /\ t[3] = b3
  OBVIOUS
<1>. HIDE DEF s, t
<1>3. Before(s, t) <=> \/ s[1] < t[1]
                       \/ s[2] < t[2] /\ s[1] = t[1]
                       \/ s[3] < t[3] /\ s[1] = t[1] /\ s[2] = t[2]
  BY <1>1 DEF Before
<1>. QED BY <1>1, <1>3 DEF s, t

(* A set of panes that are compared has one that no other is better than.    *)
LEMMA OneIsFirst ==
    ASSUME NEW S \in SUBSET PaneId, S # {}, NEW R,
           \A p \in S : <<p, p>> \notin R,
           \A p, q, r \in S : <<p, q>> \in R /\ <<q, r>> \in R => <<p, r>> \in R
    PROVE  \E p \in S : \A q \in S : <<q, p>> \notin R
<1>. DEFINE Least(T) == \E p \in T : \A q \in T : <<q, p>> \notin R
<1>1. ASSUME NEW T \in SUBSET S, NEW e \in S, T = {} \/ Least(T) PROVE Least(T \cup {e}) BY <1>1
<1>. HIDE DEF Least
<1>2. ASSUME NEW T \in SUBSET S, NEW e, T = {} \/ Least(T)
      PROVE  (T \cup (S \cap {e}) = {}) \/ Least(T \cup (S \cap {e}))
  BY <1>1, <1>2
<1>. DEFINE A == {} \cup (S \cap {"a"})
            B == A \cup (S \cap {"b"})
            C == B \cup (S \cap {"c"})
            D == C \cup (S \cap {"d"})
<1>3. A \in SUBSET S /\ (A = {} \/ Least(A)) BY <1>2
<1>4. B \in SUBSET S /\ (B = {} \/ Least(B))
  <2>. HIDE DEF A
  <2>. QED BY <1>2, <1>3
<1>5. C \in SUBSET S /\ (C = {} \/ Least(C))
  <2>. HIDE DEF A, B
  <2>. QED BY <1>2, <1>4
<1>6. D = {} \/ Least(D)
  <2>. HIDE DEF A, B, C
  <2>. QED BY <1>2, <1>5
<1>7. D = S BY DEF PaneId
<1>8. Least(S)
  <2>. HIDE DEF D
  <2>. QED BY <1>6, <1>7
<1>. QED BY <1>8 DEF Least

(* A window whose geometry can be computed with.                             *)
WindowOk(w) == LayoutOk(w.layout) /\ w.x \in Nat /\ w.y \in Nat

LEMMA ScoresAreNumbers ==
    ASSUME NEW w, WindowOk(w), NEW s \in DOMAIN w.layout, NEW p \in DOMAIN w.layout,
           NEW d \in Direction
    PROVE  /\ Gap(w, s, p, d) \in Int /\ CrossDistance(w, s, p, d) \in Int
           /\ CrossStart(w, p, d) \in Int /\ EdgePosition(w, p, d) \in Int
           /\ 1000 - EdgePosition(w, p, d) \in Int
<1>. DEFINE S == w.layout[s]
            T == w.layout[p]
<1>5. Gap(w, s, p, d) \in Int /\ EdgePosition(w, p, d) \in Int
  BY DEF Gap, EdgePosition, Direction, WindowOk, LayoutOk
<1>. QED BY <1>5 DEF CrossStart, axis_distance, CrossDistance, AbsoluteX, AbsoluteY, WindowOk, LayoutOk

(* A pane that lies between is closer than the pane behind it.               *)
LEMMA BetweenIsCloser ==
    ASSUME NEW w, WindowOk(w), NEW s \in DOMAIN w.layout, NEW p \in DOMAIN w.layout,
           NEW q \in DOMAIN w.layout, NEW d \in Direction, Ahead(w, s, p, d), Ahead(w, p, q, d)
    PROVE  Gap(w, s, p, d) < Gap(w, s, q, d)
<1>. DEFINE S == w.layout[s]
            P == w.layout[p]
            Q == w.layout[q]
<1>1. /\ S.left \in Nat /\ S.top \in Nat /\ S.width \in Nat \ {0} /\ S.height \in Nat \ {0}
      /\ P.left \in Nat /\ P.top \in Nat /\ P.width \in Nat \ {0} /\ P.height \in Nat \ {0}
      /\ Q.left \in Nat /\ Q.top \in Nat /\ Q.width \in Nat \ {0} /\ Q.height \in Nat \ {0}
  BY DEF WindowOk, LayoutOk
<1>2. CASE d = "left" BY <1>2, <1>1 DEF Ahead, Gap
<1>3. CASE d = "right" BY <1>3, <1>1 DEF Ahead, Gap
<1>4. CASE d = "up" BY <1>4, <1>1 DEF Ahead, Gap
<1>5. CASE d = "down" BY <1>5, <1>1 DEF Ahead, Gap
<1>. QED BY <1>2, <1>3, <1>4, <1>5 DEF Direction

(* What the chosen target t is for a source in a window, whatever else is    *)
(* hidden meanwhile.                                                         *)
Chosen(w, s, t, cycle, d) ==
    /\ t \in DOMAIN w.layout \ {s}
    /\ ~cycle => Ahead(w, s, t, d)
    /\ ~\E p \in DOMAIN w.layout : Between(w, s, t, p, d)
    /\ cycle => ~\E p \in DOMAIN w.layout \ w.hidden :
                     CrossDistance(w, s, p, d) = 0 /\ Ahead(w, s, p, d)

(* The best of some panes, by scores that are triples of numbers.            *)
LEMMA BestExists ==
    ASSUME NEW S \in SUBSET PaneId, S # {}, NEW f \in [S -> Int], NEW g \in [S -> Int],
           NEW h \in [S -> Int]
    PROVE  \E p \in S : \A q \in S : ~Before(<<f[q], g[q], h[q]>>, <<f[p], g[p], h[p]>>)
<1>. DEFINE less(p, q) == \/ f[p] < f[q]
                          \/ f[p] = f[q] /\ g[p] < g[q]
                          \/ f[p] = f[q] /\ g[p] = g[q] /\ h[p] < h[q]
            R == {pq \in S \X S : less(pq[1], pq[2])}
<1>1. \A p, q \in S : Before(<<f[p], g[p], h[p]>>, <<f[q], g[q], h[q]>>) <=> less(p, q) BY BeforeTriples
<1>3. \A p, q \in S : <<p, q>> \in R <=> less(p, q) OBVIOUS
<1>4. /\ \A p \in S : ~less(p, p)
      /\ \A p, q, r \in S : less(p, q) /\ less(q, r) => less(p, r)
  OBVIOUS
<1>. HIDE DEF less, R
<1>5. /\ \A p \in S : <<p, p>> \notin R
      /\ \A p, q, r \in S : <<p, q>> \in R /\ <<q, r>> \in R => <<p, r>> \in R
  BY <1>3, <1>4
<1>. QED BY <1>1, <1>3, <1>5, OneIsFirst

LEMMA TargetIsNeighbour ==
    ASSUME NEW w, WindowOk(w), NEW s \in DOMAIN w.layout, NEW d \in Direction,
           choose_target(w, s, d).pane # PaneGone
    PROVE  LET t == choose_target(w, s, d)
           IN /\ Chosen(w, s, t.pane, t.cycle, d) /\ t.pane \in PaneId /\ t.cycle \in BOOLEAN
<1>. DEFINE t == choose_target(w, s, d)
            all == Aligned(w, s, d)
            ahead == {p \in all : Ahead(w, s, p, d)}
            near(p, q) == Before(Score(w, s, p, d), Score(w, s, q, d))
            edge(p, q) == Before(EdgeScore(w, s, p, d), EdgeScore(w, s, q, d))
<1>1. /\ ahead # {} => t = [pane |-> CHOOSE p \in ahead : \A q \in ahead : ~near(q, p),
                            cycle |-> FALSE]
      /\ ahead = {} /\ all # {} => t = [pane |-> CHOOSE p \in all : \A q \in all : ~edge(q, p),
                                        cycle |-> TRUE]
      /\ ahead = {} /\ all = {} => t = [pane |-> PaneGone, cycle |-> FALSE]
  BY DEF choose_target, First
<1>2. all \subseteq DOMAIN w.layout \ {s} /\ ahead \subseteq all /\ all \subseteq PaneId
  BY DEF Aligned, WindowOk, LayoutOk
<1>3. \A p \in DOMAIN w.layout \ (w.hidden \cup {s}) :
         CrossDistance(w, s, p, d) = 0 /\ Ahead(w, s, p, d) => p \in ahead
  BY DEF Aligned
<1>4. ahead \subseteq {p \in DOMAIN w.layout : Ahead(w, s, p, d)} BY <1>2
<1>. HIDE DEF all, t
<1>5. CASE ahead # {}
  <2>. DEFINE f == [p \in ahead |-> Gap(w, s, p, d)]
              g == [p \in ahead |-> CrossDistance(w, s, p, d)]
              h == [p \in ahead |-> CrossStart(w, p, d)]
  <2>1. f \in [ahead -> Int] /\ g \in [ahead -> Int] /\ h \in [ahead -> Int] BY <1>4, ScoresAreNumbers
  <2>2. \A p, q \in ahead :
           near(p, q) <=> Before(<<f[p], g[p], h[p]>>, <<f[q], g[q], h[q]>>)
    BY DEF Score
  <2>. HIDE DEF f, g, h, near, ahead
  <2>3. ahead \in SUBSET PaneId BY <1>2
  <2>4. \E p \in ahead : \A q \in ahead : ~near(q, p) BY <1>5, <2>1, <2>2, <2>3, BestExists
  <2>5. t.pane \in ahead /\ (\A q \in ahead : ~near(q, t.pane)) /\ t.cycle = FALSE BY <1>1, <1>5, <2>4
  <2>6. Ahead(w, s, t.pane, d) /\ t.pane \in DOMAIN w.layout \ {s} BY <1>2, <1>4, <2>5
  <2>7. ASSUME NEW p \in DOMAIN w.layout, Between(w, s, t.pane, p, d) PROVE FALSE
    <3>3. near(p, t.pane)
      <4>1. /\ Gap(w, s, p, d) \in Int /\ CrossDistance(w, s, p, d) \in Int
            /\ CrossStart(w, p, d) \in Int /\ Gap(w, s, t.pane, d) \in Int
            /\ CrossDistance(w, s, t.pane, d) \in Int /\ CrossStart(w, t.pane, d) \in Int
        BY <2>6, ScoresAreNumbers
      <4>. QED BY <2>6, <2>7, BetweenIsCloser, <4>1, BeforeTriples DEF near, Score, Between
    <3>. QED BY <2>5, <1>3, <2>7, <3>3 DEF Between
  <2>. QED BY <2>5, <2>6, <2>7, <2>3 DEF Chosen, t
<1>6. CASE ahead = {}
  <2>. DEFINE f == [p \in all |-> IF d \in {"left", "up"} THEN 1000 - EdgePosition(w, p, d)
                                  ELSE EdgePosition(w, p, d)]
              g == [p \in all |-> CrossDistance(w, s, p, d)]
              h == [p \in all |-> CrossStart(w, p, d)]
  <2>1. f \in [all -> Int] /\ g \in [all -> Int] /\ h \in [all -> Int] BY <1>2, ScoresAreNumbers
  <2>2. \A p, q \in all : edge(p, q) <=> Before(<<f[p], g[p], h[p]>>, <<f[q], g[q], h[q]>>) BY DEF EdgeScore
  <2>. HIDE DEF f, g, h, edge, ahead
  <2>3. all # {} BY <1>1, <1>6 DEF t
  <2>4. \E p \in all : \A q \in all : ~edge(q, p)
    <3>1. all \in SUBSET PaneId BY <1>2
    <3>. QED BY <2>1, <2>2, <2>3, <3>1, BestExists
  <2>5. t.pane \in all /\ t.cycle = TRUE BY <1>1, <1>6, <2>3, <2>4
  <2>6. \A p \in DOMAIN w.layout \ w.hidden :
           ~(CrossDistance(w, s, p, d) = 0 /\ Ahead(w, s, p, d))
    <3>1. ~Ahead(w, s, s, d)
      <4>2. ~(w.layout[s].left < w.layout[s].left) /\ ~(w.layout[s].left > w.layout[s].left)
            /\ ~(w.layout[s].top < w.layout[s].top) /\ ~(w.layout[s].top > w.layout[s].top)
        BY DEF WindowOk, LayoutOk
      <4>. QED BY <4>2 DEF Direction, Ahead
    <3>. QED BY <1>3, <1>6, <3>1
  <2>. QED BY <1>2, <2>5, <2>6 DEF Chosen, t, Between
<1>. QED BY <1>5, <1>6

WindowRec ==
    [layout : Layouts \cup {NoWindow.layout}, active : PaneId \cup {PaneGone}, x : Nat, y : Nat,
     pid : [PaneId -> Nat], hidden : SUBSET PaneId]
ReqRec == [direction : Direction, pane : PaneId, pid : Nat]
TargetRec ==
    [pane : PaneId \cup {PaneGone}, pid : Nat, cycle : BOOLEAN, direction : Direction,
     source : PaneId \cup {PaneGone}]
RequestRec ==
    [option : ReqRec, signal : BOOLEAN, step : {"idle", "capture", "apply"}, current : ReqRec,
     target : TargetRec]
SwitchedRec == [count : Nat, last : TargetRec, from : WindowRec]
PsShapes ==
    /\ window \in WindowRec /\ request \in RequestRec /\ switched \in SwitchedRec
    /\ requests \in Nat

Und(c) == IF c THEN 1 ELSE 0   \* a request that waits or is under way

(* The window is closed or its active pane is one of its panes; what was     *)
(* chosen is still the neighbour, since panes only become hidden; every key  *)
(* press is waiting, under way, or has switched at most once.                *)
PsInv ==
    /\ PsShapes
    /\ \/ window.active = PaneGone /\ DOMAIN window.layout = {}
       \/ window.active \in DOMAIN window.layout
    /\ request.step = "apply" =>
          Chosen(window, request.target.source, request.target.pane, request.target.cycle,
                 request.target.direction)
    /\ switched.count + Und(request.signal) + Und(request.step # "idle") <= requests
    /\ switched.count > 0 =>
          /\ Chosen(switched.from, switched.last.source, switched.last.pane,
                    switched.last.cycle, switched.last.direction)
          /\ switched.last.pane \notin switched.from.hidden

LEMMA PsInvSound == PsInv => SwitchesToNeighbour
  BY DEF PsInv, PsShapes, SwitchedRec, Und, Chosen, SwitchesToNeighbour

(* The geometry does not depend on the active pane, the processes or on what *)
(* is hidden.                                                                *)
LEMMA HidingKeepsChoice ==
    ASSUME NEW v, NEW w, v.layout = w.layout, v.x = w.x, v.y = w.y, w.hidden \subseteq v.hidden,
           NEW s, NEW t, NEW c, NEW d, Chosen(w, s, t, c, d)
    PROVE  Chosen(v, s, t, c, d)
<1>3. \A p : Between(v, s, t, p, d) => Between(w, s, t, p, d)
  BY DEF Between, CrossDistance, AbsoluteX, AbsoluteY, Ahead
<1>. QED BY <1>3 DEF Chosen, CrossDistance, AbsoluteX, AbsoluteY, Ahead

(* A step of the window alone.                                               *)
LEMMA WindowMoves ==
    ASSUME PsInv, UNCHANGED <<request, requests, switched>>, window' \in WindowRec,
           window'.layout = window.layout, window'.x = window.x, window'.y = window.y,
           window.hidden \subseteq window'.hidden,
           window'.active = window.active \/ window'.active \in DOMAIN window.layout
    PROVE  PsInv'
<1>. DEFINE v == window'
<1>4. request' = request /\ requests' = requests /\ switched' = switched OBVIOUS
<1>6. (switched.count > 0 =>
          /\ Chosen(switched.from, switched.last.source, switched.last.pane,
                    switched.last.cycle, switched.last.direction)
          /\ switched.last.pane \notin switched.from.hidden)'
  BY <1>4 DEF PsInv
<1>7. (switched.count + Und(request.signal) + Und(request.step # "idle") <= requests)' BY <1>4 DEF PsInv, Und
<1>. QED BY HidingKeepsChoice, <1>4, <1>6, <1>7 DEF PsInv, PsShapes

LEMMA OpenStep == ASSUME PsInv, Open PROVE PsInv'
<1>1. PICK l \in Layouts, x \in {0, 8}, y \in {0, 4, 8}, h \in {{}, {"b"}, {"b", "c"}} :
         window' = [NoWindow EXCEPT !.layout = l, !.active = "a", !.x = x, !.y = y, !.hidden = h]
  BY DEF Open
<1>2. window = NoWindow /\ request' = request /\ requests' = requests /\ switched' = switched BY DEF Open
<1>3. window' \in WindowRec /\ window'.layout = l /\ window'.active = "a"
  <2>1. NoWindow \in WindowRec
    <3>. DEFINE q == [p \in PaneId |-> 1]
                m == [p \in {} |-> Rect(0, 0, 0, 0)]
    <3>. HIDE DEF q, m
    <3>. QED BY DEF WindowRec, NoWindow
  <2>2. l \in Layouts /\ "a" \in PaneId /\ x \in Nat /\ y \in Nat /\ h \in SUBSET PaneId BY DEF PaneId
  <2>. HIDE DEF PaneId
  <2>. QED BY <1>1, <2>1, <2>2 DEF WindowRec
<1>8. (switched.count > 0 =>
          /\ Chosen(switched.from, switched.last.source, switched.last.pane,
                    switched.last.cycle, switched.last.direction)
          /\ switched.last.pane \notin switched.from.hidden)'
  BY <1>2 DEF PsInv
<1>9. (switched.count + Und(request.signal) + Und(request.step # "idle") <= requests)' BY <1>2 DEF PsInv, Und
<1>. QED BY <1>2, <1>3, <1>8, <1>9 DEF PsInv, Layouts, Chosen, NoWindow, PsShapes

LEMMA MoveStep == ASSUME PsInv, NEW p \in PaneId, Move(p) PROVE PsInv'
<1>0. window \in WindowRec /\ p \in DOMAIN window.layout
      /\ UNCHANGED <<request, requests, switched>>
  BY DEF PsInv, PsShapes, Move
<1>1. CASE window' = [window EXCEPT !.active = p] BY <1>0, <1>1, WindowMoves DEF WindowRec
<1>2. CASE window' = [window EXCEPT !.pid[p] = @ + 1]
  <2>. DEFINE n == [window.pid EXCEPT ![p] = @ + 1]
  <2>. HIDE DEF n
  <2>3. /\ window' \in WindowRec /\ window'.layout = window.layout /\ window'.x = window.x
        /\ window'.y = window.y /\ window'.hidden = window.hidden
        /\ window'.active = window.active
    BY <1>0, <1>2 DEF WindowRec
  <2>. QED BY <1>0, <2>3, WindowMoves
<1>3. CASE window' = [window EXCEPT !.hidden = @ \cup {p}] BY <1>0, <1>3, WindowMoves DEF WindowRec
<1>. QED BY <1>1, <1>2, <1>3 DEF Move

(* A step of the request alone that does not prepare a switch.               *)
LEMMA RequestMoves ==
    ASSUME PsInv, UNCHANGED <<window, switched>>, request' \in RequestRec, requests' \in Nat,
           request'.step # "apply",
           Und(request'.signal) + Und(request'.step # "idle") + requests
              <= Und(request.signal) + Und(request.step # "idle") + requests'
    PROVE  PsInv'
<1>2. window' = window /\ switched' = switched OBVIOUS
<1>3. \A c \in BOOLEAN : Und(c) \in Nat BY DEF Und
<1>4. (switched.count + Und(request.signal) + Und(request.step # "idle") <= requests)'
  <2>. DEFINE a == Und(request.signal)
              b == Und(request.step # "idle")
              c == Und(request'.signal)
              d == Und(request'.step # "idle")
              n == switched.count
  <2>1. a \in Nat /\ b \in Nat /\ c \in Nat /\ d \in Nat /\ n \in Nat /\ requests \in Nat
    BY DEF PsInv, PsShapes, RequestRec, SwitchedRec, Und
  <2>. DEFINE q == requests
              r == requests'
  <2>0. q \in Nat /\ r \in Nat /\ n + a + b <= q /\ c + d + q <= a + b + r BY <2>1 DEF PsInv
  <2>. HIDE DEF a, b, c, d, n, q, r
  <2>3. n + c + d <= r BY ONLY <2>0, <2>1
  <2>. QED BY <1>2, <2>3 DEF Und, n, c, d, r
<1>. QED BY <1>4, <1>2 DEF PsInv, PsShapes

LEMMA PressStep == ASSUME PsInv, NEW d \in Direction, Press(d) PROVE PsInv'
<1>0. request \in RequestRec /\ window \in WindowRec /\ requests \in Nat BY DEF PsInv, PsShapes
<1>. DEFINE o == [direction |-> d, pane |-> window.active, pid |-> window.pid[window.active]]
            r == [request EXCEPT !.option = o, !.signal = TRUE]
<1>1. o \in ReqRec BY <1>0 DEF Press, ReqRec, WindowRec
<1>2. request' = r /\ requests' = requests + 1 /\ UNCHANGED <<window, switched>> BY DEF Press
<1>. HIDE DEF o
<1>3. r \in RequestRec /\ r.signal = TRUE /\ r.step = request.step
      /\ r.target = request.target
  BY <1>0, <1>1 DEF RequestRec
<1>. HIDE DEF r
<1>4. CASE request.step # "apply" BY <1>0, <1>2, <1>3, <1>4, RequestMoves DEF Und
<1>5. CASE request.step = "apply" BY <1>2, <1>3, <1>0, <1>5 DEF PsInv, PsShapes, SwitchedRec, Und
<1>. QED BY <1>4, <1>5

LEMMA TriggerStep == ASSUME PsInv, Trigger PROVE PsInv'
<1>0. request \in RequestRec /\ requests \in Nat BY DEF PsInv, PsShapes
<1>. DEFINE r == [request EXCEPT !.signal = FALSE, !.step = "capture", !.current = request.option]
<1>1. r \in RequestRec /\ r.signal = FALSE /\ r.step = "capture" BY <1>0 DEF RequestRec
<1>2. request' = r /\ request.signal /\ request.step = "idle"
      /\ UNCHANGED <<window, requests, switched>>
  BY DEF Trigger
<1>. HIDE DEF r
<1>. QED BY <1>0, <1>1, <1>2, RequestMoves DEF Und

LEMMA WindowsOk == \A w \in WindowRec : WindowOk(w) BY LayoutsOk DEF LayoutOk, NoWindow, WindowRec, WindowOk

LEMMA CaptureStep == ASSUME PsInv, Capture PROVE PsInv'
<1>. DEFINE c == request.current
            t == choose_target(window, c.pane, c.direction)
            g == [pane |-> t.pane, pid |-> window.pid[t.pane], cycle |-> t.cycle,
                  direction |-> c.direction, source |-> c.pane]
            stale == [request EXCEPT !.step = "idle"]
            prepared == [request EXCEPT !.step = "apply", !.target = g]
<1>0. request \in RequestRec /\ requests \in Nat /\ window \in WindowRec /\ c \in ReqRec
  BY DEF PsInv, PsShapes, RequestRec
<1>1. /\ request.step = "capture" /\ UNCHANGED <<window, requests, switched>>
      /\ \/ request' = stale
         \/ window.active = c.pane /\ t.pane # PaneGone /\ request' = prepared
  BY DEF Capture
<1>2. CASE request' = stale
  <2>1. stale \in RequestRec /\ stale.step = "idle" /\ stale.signal = request.signal BY <1>0 DEF RequestRec
  <2>. HIDE DEF stale
  <2>. QED BY <1>0, <1>1, <1>2, <2>1, RequestMoves DEF Und
<1>3. CASE window.active = c.pane /\ t.pane # PaneGone /\ request' = prepared
  <2>. HIDE DEF c
  <2>3. Chosen(window, c.pane, t.pane, t.cycle, c.direction) /\ t.pane \in PaneId
        /\ t.cycle \in BOOLEAN
    BY <1>0, <1>3, WindowsOk, TargetIsNeighbour DEF PsInv, PaneId, PaneGone, ReqRec
  <2>. HIDE DEF t
  <2>4. g \in TargetRec /\ g.pane = t.pane /\ g.cycle = t.cycle /\ g.direction = c.direction
        /\ g.source = c.pane
    BY <1>0, <2>3 DEF WindowRec, TargetRec, ReqRec
  <2>. HIDE DEF g
  <2>5. /\ prepared \in RequestRec /\ prepared.step = "apply" /\ prepared.target = g
        /\ prepared.signal = request.signal
    BY <1>0, <2>4 DEF RequestRec
  <2>. HIDE DEF prepared
  <2>6. /\ window' = window /\ requests' = requests /\ switched' = switched
        /\ request' \in RequestRec /\ request'.step = "apply" /\ request'.target = g
        /\ request'.signal = request.signal
    BY <1>1, <1>3, <2>5
  <2>10. (request.step = "apply" =>
            Chosen(window, request.target.source, request.target.pane, request.target.cycle,
                   request.target.direction))'
    BY <2>3, <2>4, <2>6
  <2>11. (\/ window.active = PaneGone /\ DOMAIN window.layout = {}
          \/ window.active \in DOMAIN window.layout)'
    BY <2>6 DEF PsInv
  <2>. QED BY <1>0, <2>6, <1>1, <2>10, <2>11 DEF PsInv, PsShapes, Und
<1>. QED BY <1>1, <1>2, <1>3

LEMMA ApplyStep == ASSUME PsInv, Apply_ PROVE PsInv'
<1>. DEFINE r == [request EXCEPT !.step = "idle"]
            s == [count |-> switched.count + 1, last |-> request.target, from |-> window]
            w == [window EXCEPT !.active = request.target.pane]
<1>0. /\ request \in RequestRec /\ requests \in Nat /\ window \in WindowRec
      /\ switched \in SwitchedRec
  BY DEF PsInv, PsShapes
<1>1. /\ request.step = "apply" /\ request' = r /\ requests' = requests
      /\ \/ TargetGuard(request) /\ window' = w /\ switched' = s
         \/ window' = window /\ switched' = switched
  BY DEF Apply_
<1>2. r \in RequestRec /\ r.step = "idle" /\ r.signal = request.signal BY <1>0 DEF RequestRec
<1>. HIDE DEF r
<1>3. CASE window' = window /\ switched' = switched BY <1>0, <1>1, <1>2, <1>3, RequestMoves DEF Und
<1>4. CASE TargetGuard(request) /\ window' = w /\ switched' = s
  <2>1. request.target \in TargetRec /\ request.target.pane \notin window.hidden
    BY <1>0, <1>4 DEF RequestRec, TargetGuard
  <2>2. s \in SwitchedRec /\ s.count = switched.count + 1 /\ s.last = request.target
        /\ s.from = window
    BY <1>0, <2>1 DEF SwitchedRec
  <2>3. w \in WindowRec /\ w.layout = window.layout /\ w.active = request.target.pane
    BY <1>0, <2>1 DEF WindowRec, TargetRec
  <2>. HIDE DEF s, w
  <2>5. (\/ window.active = PaneGone /\ DOMAIN window.layout = {}
         \/ window.active \in DOMAIN window.layout)'
    BY <1>4, <1>1, <2>3 DEF Chosen, PsInv
  <2>6. (switched.count > 0 =>
            /\ Chosen(switched.from, switched.last.source, switched.last.pane,
                      switched.last.cycle, switched.last.direction)
            /\ switched.last.pane \notin switched.from.hidden)'
    BY <1>4, <1>1, <2>1, <2>2 DEF PsInv
  <2>8. request'.step # "apply" BY <1>1, <1>2
  <2>. QED BY <1>0, <1>1, <1>2, <1>4, <2>2, <2>3, <2>5, <2>6, <2>8 DEF PsInv, Und, SwitchedRec, PsShapes
<1>. QED BY <1>1, <1>3, <1>4

LEMMA PsStart == PsInit => PsInv
<1>. SUFFICES ASSUME PsInit PROVE PsInv OBVIOUS
<1>1. NoWindow \in WindowRec /\ NoWindow.active = PaneGone /\ DOMAIN NoWindow.layout = {}
  <2>. DEFINE q == [p \in PaneId |-> 1]
              m == [p \in {} |-> Rect(0, 0, 0, 0)]
  <2>. HIDE DEF q, m
  <2>. QED BY DEF WindowRec, NoWindow
<1>. DEFINE o == [direction |-> "left", pane |-> "a", pid |-> 0]
<1>3. o \in ReqRec BY DEF ReqRec, Direction, PaneId
<1>. HIDE DEF o
<1>5. PsShapes /\ request.step = "idle" /\ request.signal = FALSE /\ switched.count = 0
  BY <1>1, <1>3 DEF PsShapes, RequestRec, SwitchedRec, NoTarget_, TargetRec, Direction, PsInit, o
<1>. QED BY <1>1, <1>5 DEF PsInv, Und, PsInit, o

LEMMA PsSteps == ASSUME PsInv, [PsNext]_psVars PROVE PsInv'
  BY OpenStep, MoveStep, PressStep, TriggerStep, CaptureStep, ApplyStep DEF psVars, PsInv, PsShapes, Und, PsNext

(* A directional switch goes to the nearest pane the person can see, wraps   *)
(* around only when there is none, and happens at most once for a key press. *)
THEOREM NeighbourSwitches == PsSpec => []SwitchesToNeighbour
<1>1. PsInit => PsInv BY PsStart
<1>2. PsInv /\ [PsNext]_psVars => PsInv' BY PsSteps
<1>3. PsInv => SwitchesToNeighbour BY PsInvSound
<1>. QED BY <1>1, <1>2, <1>3, PTL DEF PsSpec

-----------------------------------------------------------------------------
(* TaskSummary.  The context a pane would be summarised for is its print;   *)
(* every job and answer carries the print it was asked for together with    *)
(* the prompts themselves; and the last request of a pane is always its     *)
(* youngest job, wherever that is.                                          *)

Replies == SumText \cup {NoText}
Prints == {NoPrint} \cup (Seq(SumText) \X Replies)
SumKey == [who : Nat, print : Prints]
SummaryShape == [print : Prints, about : Prints, outcome : {"none", "generated", "failed"}]
ContextShape ==
    [who : Nat, agent : {"claude", "other"}, running : BOOLEAN, said : Replies, prompts : Seq(SumText),
     reply : Replies, private : BOOLEAN, print : Prints, summary : SummaryShape, asked : Prints]
SumJob == [pane : SumPane, key : SumKey, input : Prints]
SumAnswer == [pane : SumPane, key : SumKey, about : Prints, outcome : {"generated", "failed"}]

SumTypes ==
    /\ context \in [SumPane -> ContextShape]
    /\ requested \in [SumPane -> SumKey]
    /\ summaryJobs \in Seq(SumJob)
    /\ debounced \in [SumPane -> SumJob \cup {NoSummaryJob}]
    /\ model \in SumJob \cup {NoSummaryJob}
    /\ summarised \in Seq(SumAnswer)
    /\ sumSpent \in [steps : Nat, restarts : Nat, lost : Nat]

(* What a job or an answer is about is what its key names.                  *)
AboutItsKey(key, about) == key.print # NoPrint /\ about = key.print
(* The prompts of a context make its print, unless they were not kept; what *)
(* it is summarised by was about the print it bears.                        *)
ContextGood(c) ==
    /\ summary_input(c) \in {NoPrint, c.print}
    /\ c.summary.print # NoPrint => c.summary.about = c.summary.print
SumAbout ==
    /\ \A p \in SumPane : ContextGood(context[p])
    /\ \A i \in DOMAIN summaryJobs : AboutItsKey(summaryJobs[i].key, summaryJobs[i].input)
    /\ \A p \in SumPane :
          debounced[p] # NoSummaryJob => debounced[p].pane = p /\ AboutItsKey(debounced[p].key, debounced[p].input)
    /\ model # NoSummaryJob => AboutItsKey(model.key, model.input)
    /\ \A i \in DOMAIN summarised : AboutItsKey(summarised[i].key, summarised[i].about)

(* The request of a pane is its youngest job, running or answered.          *)
Tracked(p) ==
    \/ requested[p] = NoKey
    \/ \E i \in DOMAIN summaryJobs :
          /\ summaryJobs[i].pane = p /\ summaryJobs[i].key = requested[p]
          /\ \A j \in DOMAIN summaryJobs : j > i => summaryJobs[j].pane # p
    \/ /\ \A i \in DOMAIN summaryJobs : summaryJobs[i].pane # p
       /\ \/ debounced[p] # NoSummaryJob /\ debounced[p].key = requested[p]
          \/ /\ debounced[p] = NoSummaryJob
             /\ \/ model # NoSummaryJob /\ model.pane = p /\ model.key = requested[p]
                \/ \E i \in DOMAIN summarised : summarised[i].pane = p /\ summarised[i].key = requested[p]

(* A context a Run asked about is summarised, or is the one requested.      *)
AskedFor(c, key) ==
    c.asked # NoPrint /\ c.asked = c.print => current_summary(c) \/ key = RequestKey(c)

SumInv ==
    /\ SumTypes /\ SumAbout
    /\ sumSpent.lost = 0 => \A p \in SumPane : Tracked(p) /\ AskedFor(context[p], requested[p])

LEMMA PushTyped ==
    ASSUME NEW s \in Seq(SumText), NEW t \in SumText
    PROVE  push_prompt(s, t) \in Seq(SumText)
  BY AppendProperties, HeadTailProperties DEF push_prompt

LEMMA FingerTyped ==
    ASSUME NEW s \in Seq(SumText), NEW r \in Replies
    PROVE  fingerprint(s, r) \in Prints
  BY DEF fingerprint, Prints

LEMMA ObservedIs ==
    ASSUME NEW c \in ContextShape, ContextGood(c), NEW t \in SumText, NEW b \in BOOLEAN, NEW r \in Replies,
           NEW d, d = observe_prompt(c, t, b, r)
    PROVE  /\ d \in ContextShape /\ ContextGood(d)
           /\ d.who = c.who /\ d.agent = c.agent /\ d.running = c.running /\ d.said = c.said
           /\ d.summary = c.summary /\ d.asked = c.asked
  BY PushTyped, FingerTyped DEF ContextShape, observe_prompt, summary_input, ContextGood

LEMMA NewRecordIs ==
    ASSUME NEW who \in Nat, NEW agent \in {"claude", "other"}, NEW d, d = NewRecord(who, agent)
    PROVE  /\ d \in ContextShape /\ ContextGood(d) /\ d.asked = NoPrint /\ d.who = who /\ d.agent = agent
           /\ d.prompts = << >> /\ d.reply = NoText
  BY DEF NoSummary, SummaryShape, Prints, NewRecord, Replies, ContextShape, summary_input, fingerprint, ContextGood

LEMMA KeyIs ==
    ASSUME NEW c \in ContextShape
    PROVE  /\ RequestKey(c) \in SumKey /\ RequestKey(c).print = c.print /\ RequestKey(c).who = c.who
           /\ c.print # NoPrint => RequestKey(c) # NoKey
  BY DEF ContextShape, NoKey, RequestKey, SumKey

LEMMA JobIsNone == NoSummaryJob.key = NoKey /\ NoKey.print = NoPrint /\ NoKey \in SumKey
  BY DEF NoSummaryJob, NoKey, SumKey, Prints

LEMMA AboutIsJob ==
    ASSUME NEW j, AboutItsKey(j.key, j.input)
    PROVE  j # NoSummaryJob
  BY JobIsNone DEF AboutItsKey

LEMMA SumInits == SumInit => SumInv
  BY NewRecordIs, JobIsNone DEF SumInit, SumTypes, SumAbout, Tracked, AskedFor, SumInv

(* A pane's context moves while its jobs stay; its request may be forgotten.*)
LEMMA ContextKeeps ==
    ASSUME SumInv, NEW p \in SumPane, NEW d \in ContextShape, ContextGood(d),
           NEW k \in {requested[p], NoKey},
           context' = [context EXCEPT ![p] = d], requested' = [requested EXCEPT ![p] = k],
           UNCHANGED workVars,
           sumSpent' \in [steps : Nat, restarts : Nat, lost : Nat], sumSpent'.lost = sumSpent.lost,
           sumSpent.lost = 0 => AskedFor(d, k)
    PROVE  SumInv'
  BY JobIsNone DEF SumInv, workVars, SumTypes, SumAbout, Tracked

LEMMA StepSpends ==
    ASSUME SumTypes, Step
    PROVE  sumSpent' \in [steps : Nat, restarts : Nat, lost : Nat] /\ sumSpent'.lost = sumSpent.lost
  BY DEF SumTypes, Step

LEMMA CompleteRunKeeps == ASSUME SumInv, NEW p \in SumPane, CompleteRun(p) PROVE SumInv'
<1>0. SumTypes /\ SumAbout /\ context \in [SumPane -> ContextShape] /\ requested \in [SumPane -> SumKey]
  BY DEF SumInv, SumTypes
<1>1. PICK t \in Replies : context' = [context EXCEPT ![p].running = FALSE, ![p].said = t]
  BY DEF CompleteRun, Replies
<1>2. PICK no \in BOOLEAN : no = FALSE OBVIOUS
<1>3. PICK c \in ContextShape : c = context[p] BY <1>0
<1>4. PICK d : d = [c EXCEPT !.running = no, !.said = t] OBVIOUS
<1>5. context' = [context EXCEPT ![p] = d] BY <1>0, <1>1, <1>2, <1>3, <1>4
<1>8. sumSpent.lost = 0 => AskedFor(d, requested[p])
  BY <1>3, <1>4 DEF SumInv, AskedFor, current_summary, RequestKey, ContextShape
<1>9. requested' = [requested EXCEPT ![p] = requested[p]] BY <1>0 DEF CompleteRun
<1>10. UNCHANGED workVars /\ Step BY DEF CompleteRun
<1> QED
  BY <1>0, <1>5, <1>4, <1>3, <1>8, <1>9, <1>10, StepSpends, ContextKeeps DEF SumAbout, ContextGood, summary_input,
    ContextShape

LEMMA SessionKeeps == ASSUME SumInv, NEW p \in SumPane, AgentSessionStarted(p) PROVE SumInv'
<1>0. SumTypes /\ SumAbout /\ context \in [SumPane -> ContextShape] /\ requested \in [SumPane -> SumKey]
      /\ sumSpent.steps \in Nat
  BY DEF SumInv, SumTypes
<1>1. PICK agent \in {"claude", "other"}, resumed \in SumText \cup {NoText} :
         context' = [context EXCEPT ![p] =
             IF resumed = NoText THEN NewRecord(sumSpent.steps + 1, agent)
             ELSE observe_prompt(NewRecord(sumSpent.steps + 1, agent), resumed, FALSE, NoText)]
  BY DEF AgentSessionStarted
<1>2. PICK c : c = NewRecord(sumSpent.steps + 1, agent) OBVIOUS
<1>4. PICK d : d = IF resumed = NoText THEN c ELSE observe_prompt(c, resumed, FALSE, NoText) OBVIOUS
<1>5. d \in ContextShape /\ ContextGood(d) /\ d.asked = NoPrint
  <2>1. CASE resumed = NoText BY <1>0, <1>2, NewRecordIs, <1>4, <2>1
  <2>2. CASE resumed # NoText
    <3>1. PICK no \in BOOLEAN, r \in Replies : no = FALSE /\ r = NoText BY DEF Replies
    <3>3. d = observe_prompt(c, resumed, no, r) BY <1>4, <2>2, <3>1
    <3> QED BY <1>0, <1>2, NewRecordIs, <2>2, <3>3, ObservedIs
  <2> QED BY <2>1, <2>2
<1>9. UNCHANGED workVars /\ Step BY DEF AgentSessionStarted
<1> QED BY <1>0, <1>5, <1>1, <1>2, <1>4, <1>9, StepSpends, ContextKeeps DEF AskedFor, AgentSessionStarted

LEMMA RemovedKeeps == ASSUME SumInv, NEW p \in SumPane, PaneRemoved(p) PROVE SumInv'
<1>1. PICK d : d = NewRecord(0, "other") OBVIOUS
<1>4. AskedFor(d, NoKey) BY <1>1, NewRecordIs DEF AskedFor
<1> QED BY <1>1, NewRecordIs, <1>4, StepSpends, ContextKeeps DEF SumInv, PaneRemoved

(* A Run's context, and the summary it asks for.                            *)
BegunRun(p, t, kind) ==
    LET c == context[p]
        reply == IF c.running THEN c.reply ELSE c.said
        seen == IF kind = "none" THEN c ELSE observe_prompt(c, t, kind = "private", reply)
    IN [seen EXCEPT !.running = TRUE, !.said = IF c.running THEN @ ELSE NoText,
                    !.asked = IF c.agent = "claude" /\ Len(summaryJobs) < SummaryQueue
                              THEN summary_input(seen) ELSE NoPrint]

LEMMA BegunRunIs ==
    ASSUME SumInv, NEW p \in SumPane, NEW t \in SumText, NEW kind, NEW d, d = BegunRun(p, t, kind)
    PROVE  /\ d \in ContextShape /\ ContextGood(d)
           /\ d.asked # NoPrint =>
                 d.agent = "claude" /\ Len(summaryJobs) < SummaryQueue /\ d.asked = summary_input(d)
<1>1. PICK c \in ContextShape : c = context[p] BY DEF SumTypes, SumInv
<1>3. PICK r \in Replies : r = IF c.running THEN c.reply ELSE c.said BY DEF ContextShape
<1>4. PICK e : e = IF kind = "none" THEN c ELSE observe_prompt(c, t, kind = "private", r) OBVIOUS
<1>5. e \in ContextShape /\ ContextGood(e) /\ e.agent = c.agent
  <2>1. CASE kind = "none" BY <1>1, <1>4, <2>1 DEF SumAbout, SumInv
  <2>2. CASE kind # "none"
    <3>1. PICK b \in BOOLEAN : b = (kind = "private") OBVIOUS
    <3>2. e = observe_prompt(c, t, b, r) BY <1>4, <2>2, <3>1
    <3> QED BY <1>1, <3>2, ObservedIs DEF SumAbout, SumInv
  <2> QED BY <2>1, <2>2
<1>6. PICK yes \in BOOLEAN, s \in Replies : yes = TRUE /\ s = IF c.running THEN e.said ELSE NoText
  BY <1>5 DEF ContextShape, Replies
<1>8. PICK a \in Prints : a = IF c.agent = "claude" /\ Len(summaryJobs) < SummaryQueue THEN summary_input(e) ELSE NoPrint
  BY <1>5, FingerTyped DEF Prints, summary_input, ContextShape
<1>9. d = [e EXCEPT !.running = yes, !.said = s, !.asked = a] BY <1>1, <1>3, <1>4, <1>6, <1>8 DEF BegunRun
<1> QED BY <1>5, <1>8, <1>9 DEF ContextGood, summary_input, ContextShape

LEMMA BeginRunKeeps ==
    ASSUME SumInv, NEW p \in SumPane, NEW t \in SumText, NEW kind, BeginRun(p, t, kind)
    PROVE  SumInv'
<1>0. SumTypes /\ SumAbout /\ context \in [SumPane -> ContextShape] /\ requested \in [SumPane -> SumKey]
      /\ summaryJobs \in Seq(SumJob)
  BY DEF SumInv, SumTypes
<1>1. PICK d : d = BegunRun(p, t, kind) OBVIOUS
<1>2. /\ d \in ContextShape /\ ContextGood(d)
      /\ d.asked # NoPrint => d.agent = "claude" /\ Len(summaryJobs) < SummaryQueue /\ d.asked = summary_input(d)
  BY <1>1, BegunRunIs
<1>3. /\ context' = [context EXCEPT ![p] = d] /\ Step
      /\ UNCHANGED <<debounced, model, summarised>>
      /\ IF schedule_task_summary(d, p)
         THEN /\ requested' = [requested EXCEPT ![p] = RequestKey(d)]
              /\ summaryJobs' = Append(summaryJobs, [pane |-> p, key |-> RequestKey(d), input |-> summary_input(d)])
         ELSE UNCHANGED <<requested, summaryJobs>>
  BY <1>1 DEF BeginRun, BegunRun
<1>4. CASE ~schedule_task_summary(d, p)
  BY <1>2, <1>4, <1>0, <1>3, StepSpends, ContextKeeps DEF schedule_task_summary, AskedFor, workVars
<1>5. CASE schedule_task_summary(d, p)
  <2>1. PICK j : j = [pane |-> p, key |-> RequestKey(d), input |-> summary_input(d)] OBVIOUS
  <2>3. j \in SumJob /\ AboutItsKey(j.key, j.input) /\ j.pane = p /\ j.key = RequestKey(d) /\ RequestKey(d) \in SumKey
    BY <1>2, KeyIs, <2>1, <1>5 DEF SumJob, AboutItsKey, schedule_task_summary, ContextGood, ContextShape
  <2>4. requested' = [requested EXCEPT ![p] = RequestKey(d)] /\ summaryJobs' = Append(summaryJobs, j)
    BY <1>3, <1>5, <2>1
  <2>5. PICK n \in Nat : n = Len(summaryJobs) BY <1>0
  <2>6. /\ summaryJobs' \in Seq(SumJob) /\ DOMAIN summaryJobs = 1..n /\ DOMAIN summaryJobs' = 1..(n + 1)
        /\ \A i \in 1..n : summaryJobs'[i] = summaryJobs[i]
        /\ summaryJobs'[n + 1] = j
    BY <1>0, <2>3, <2>4, <2>5, AppendProperties, LenProperties
  <2>7. /\ \A q \in SumPane : context'[q] = IF q = p THEN d ELSE context[q]
        /\ \A q \in SumPane : requested'[q] = IF q = p THEN RequestKey(d) ELSE requested[q]
    BY <1>0, <1>3, <2>4
  <2>10. ASSUME sumSpent'.lost = 0, NEW q \in SumPane
         PROVE  Tracked(q)' /\ AskedFor(context'[q], requested'[q])
    <3>0. Tracked(q) /\ AskedFor(context[q], requested[q]) BY <1>0, <1>3, <2>10, StepSpends DEF SumInv
    <3>1. CASE q = p BY <2>7, <3>1, <2>3, <2>6 DEF AskedFor, Tracked
    <3>2. CASE q # p BY <2>7, <3>0, <3>2, <2>3, <2>6, <1>3 DEF Tracked
    <3> QED BY <3>1, <3>2
  <2> QED BY <1>0, <1>2, <1>3, <2>3, <2>4, <2>6, StepSpends, <2>7, <2>10 DEF SumInv, SumTypes, SumAbout
<1> QED BY <1>4, <1>5

LEMMA LeastOf ==
    ASSUME NEW T, T \subseteq Nat, T # {}
    PROVE  \E x \in T : \A y \in T : x <= y
<1>1. PICK i \in T : \A k \in T : ~ (<<k, i>> \in OpToRel(<, Nat))
  <2> HIDE DEF OpToRel
  <2> QED BY NatLessThanWellFounded, WFMin
<1>2. \A k \in T : ~ (k < i) BY <1>1 DEF OpToRel
<1> QED BY <1>2

LEMMA GreatestOf ==
    ASSUME NEW b \in Nat, NEW S, S \subseteq 0..b, S # {}
    PROVE  Max(S) \in S /\ \A y \in S : Max(S) >= y
<1> DEFINE T == {n \in 0..b : b - n \in S}
<1>1. T \subseteq Nat /\ T # {}
  <2>1. PICK x \in S : TRUE OBVIOUS
  <2>2. b - x \in T BY <2>1
  <2> QED BY <2>2
<1>2. PICK i \in T : \A k \in T : i <= k BY <1>1, LeastOf
<1>3. b - i \in S /\ \A y \in S : b - i >= y
  <2>1. ASSUME NEW y \in S PROVE b - i >= y
    <3>1. b - y \in T OBVIOUS
    <3> QED BY <3>1, <1>2
  <2> QED BY <2>1, <1>2
<1> QED BY <1>3 DEF Max

(* The last job of a pane in the channel.                                   *)
LEMMA LastJob ==
    ASSUME SumTypes, NEW p \in SumPane, Jobs(p) # {}, NEW m, m = Max(Jobs(p))
    PROVE  /\ m \in DOMAIN summaryJobs /\ summaryJobs[m].pane = p /\ summaryJobs[m] \in SumJob
           /\ upsert_pending(p) = summaryJobs[m]
           /\ \A k \in DOMAIN summaryJobs : k > m => summaryJobs[k].pane # p
<1>1. PICK n \in Nat : DOMAIN summaryJobs = 1..n BY LenProperties DEF SumTypes
<1>2. PICK S : S = Jobs(p) OBVIOUS
<1>3. S \subseteq 0..n /\ S # {} BY <1>1, <1>2 DEF Jobs
<1>4. m \in S /\ \A y \in S : m >= y BY <1>2, <1>3, GreatestOf
<1>7. ASSUME NEW k \in DOMAIN summaryJobs, k > m PROVE summaryJobs[k].pane # p
  BY <1>2, <1>1, <1>4, <1>3, <1>7 DEF Jobs
<1>8. upsert_pending(p) = summaryJobs[m] BY DEF upsert_pending
<1> QED BY <1>2, <1>4, ElementOfSeq, LenProperties, <1>7, <1>8 DEF Jobs, SumTypes

LEMMA ReceiveKeeps == ASSUME SumInv, ReceiveJobs PROVE SumInv'
<1>0. SumTypes /\ SumAbout BY DEF SumInv
<1>1. /\ debounced' = [p \in SumPane |-> upsert_pending(p)] /\ summaryJobs' = <<>> /\ model = NoSummaryJob
      /\ UNCHANGED <<context, requested, model, summarised, sumSpent>>
  BY DEF ReceiveJobs
<1>2. ASSUME NEW p \in SumPane
      PROVE  /\ debounced'[p] \in SumJob \cup {NoSummaryJob}
             /\ debounced'[p] # NoSummaryJob =>
                   debounced'[p].pane = p /\ AboutItsKey(debounced'[p].key, debounced'[p].input)
             /\ sumSpent.lost = 0 => Tracked(p)'
  <2>0. debounced'[p] = upsert_pending(p) /\ DOMAIN summaryJobs' = {} BY <1>1
  <2>1. CASE Jobs(p) = {} BY <2>0, <2>1, <1>0, <1>1 DEF upsert_pending, Jobs, SumTypes, SumAbout, SumInv, Tracked
  <2>2. CASE Jobs(p) # {}
    <3>1. PICK m : m = Max(Jobs(p)) OBVIOUS
    <3>2. /\ m \in DOMAIN summaryJobs /\ summaryJobs[m].pane = p /\ summaryJobs[m] \in SumJob
          /\ debounced'[p] = summaryJobs[m]
          /\ \A k \in DOMAIN summaryJobs : k > m => summaryJobs[k].pane # p
      BY <1>0, <2>0, <2>2, <3>1, LastJob
    <3>4. ASSUME sumSpent.lost = 0 PROVE Tracked(p)'
      BY <3>4, <1>0, LenProperties, <3>2, AboutIsJob, <1>1, <2>0 DEF SumInv, SumTypes, Tracked, SumAbout
    <3> QED BY <3>2, <1>0, <3>4 DEF SumAbout
  <2> QED BY <2>1, <2>2
<1>5. ASSUME sumSpent'.lost = 0, NEW q \in SumPane
      PROVE  Tracked(q)' /\ AskedFor(context'[q], requested'[q])
  BY <1>1, <1>5, <1>2 DEF SumInv
<1> QED BY <1>0, <1>1, <1>2, <1>5 DEF SumInv, SumTypes, SumAbout

LEMMA DueKeeps == ASSUME SumInv, NEW p \in SumPane, JobIsDue(p) PROVE SumInv'
<1>0. SumTypes /\ SumAbout /\ debounced \in [SumPane -> SumJob \cup {NoSummaryJob}] BY DEF SumInv, SumTypes
<1>1. /\ model = NoSummaryJob /\ debounced[p] # NoSummaryJob
      /\ model' = debounced[p] /\ debounced' = [debounced EXCEPT ![p] = NoSummaryJob]
      /\ UNCHANGED <<context, requested, summaryJobs, summarised, sumSpent>>
  BY DEF JobIsDue
<1>6. ASSUME sumSpent'.lost = 0, NEW q \in SumPane
      PROVE  Tracked(q)' /\ AskedFor(context'[q], requested'[q])
  BY <1>1, <1>6, <1>0 DEF SumInv, Tracked, SumAbout
<1> QED BY <1>0, <1>1, <1>6 DEF SumInv, SumTypes, SumAbout

LEMMA SummaryKeeps == ASSUME SumInv, generate_summary PROVE SumInv'
<1>0. SumTypes /\ SumAbout BY DEF SumInv
<1>1. PICK outcome \in {"generated", "failed"} :
         summarised' = Append(summarised, [pane |-> model.pane, key |-> model.key,
                                           about |-> model.input, outcome |-> outcome])
  BY DEF generate_summary
<1>2. /\ model # NoSummaryJob /\ model' = NoSummaryJob
      /\ UNCHANGED <<context, requested, summaryJobs, debounced, sumSpent>>
  BY DEF generate_summary
<1>3. PICK a : a = [pane |-> model.pane, key |-> model.key, about |-> model.input, outcome |-> outcome] OBVIOUS
<1>4. model \in SumJob /\ AboutItsKey(model.key, model.input) /\ summarised \in Seq(SumAnswer)
  BY <1>0, <1>2 DEF SumTypes, SumAbout
<1>5. a \in SumAnswer /\ a.pane = model.pane /\ a.key = model.key /\ AboutItsKey(a.key, a.about)
  BY <1>3, <1>4 DEF SumJob, SumAnswer, AboutItsKey
<1>6. PICK n \in Nat : n = Len(summarised) BY <1>4
<1>7. /\ summarised' \in Seq(SumAnswer) /\ DOMAIN summarised = 1..n /\ DOMAIN summarised' = 1..(n + 1)
      /\ \A i \in 1..n : summarised'[i] = summarised[i]
      /\ summarised'[n + 1] = a
  BY <1>1, <1>3, <1>4, <1>5, <1>6, AppendProperties, LenProperties
<1>9. SumAbout' BY <1>5, <1>7, <1>0, <1>2 DEF SumAbout
<1>10. ASSUME sumSpent'.lost = 0, NEW q \in SumPane
       PROVE  Tracked(q)' /\ AskedFor(context'[q], requested'[q])
  BY <1>2, <1>10, <1>7, <1>5 DEF SumInv, Tracked
<1> QED BY <1>0, <1>2, <1>7, <1>9, <1>10 DEF SumInv, SumTypes

(* An answer leaves the queue of answers.                                   *)
LEMMA AnswerLeaves ==
    ASSUME SumTypes, SumAbout, summarised # <<>>, summarised' = Tail(summarised)
    PROVE  /\ summarised' \in Seq(SumAnswer) /\ Head(summarised) \in SumAnswer
           /\ AboutItsKey(Head(summarised).key, Head(summarised).about)
           /\ \A i \in DOMAIN summarised' : AboutItsKey(summarised'[i].key, summarised'[i].about)
           /\ \A i \in DOMAIN summarised :
                 summarised[i] = Head(summarised) \/ \E k \in DOMAIN summarised' : summarised'[k] = summarised[i]
<1>1. PICK n \in Nat : n = Len(summarised) /\ DOMAIN summarised = 1..n BY LenProperties DEF SumTypes
<1>2. summarised \in Seq(SumAnswer) /\ n # 0 BY <1>1, EmptySeq DEF SumTypes
<1>3. /\ summarised' \in Seq(SumAnswer) /\ Head(summarised) \in SumAnswer /\ Head(summarised) = summarised[1]
      /\ Len(summarised') = n - 1 /\ \A i \in 1..(n - 1) : summarised'[i] = summarised[i + 1]
  BY <1>1, <1>2, HeadTailProperties
<1>6. AboutItsKey(Head(summarised).key, Head(summarised).about) BY <1>1, <1>2, <1>3 DEF SumAbout
<1>8. ASSUME NEW i \in 1..n, i # 1 PROVE \E k \in DOMAIN summarised' : summarised'[k] = summarised[i]
  <2>1. i - 1 \in 1..(n - 1) /\ (i - 1) + 1 = i BY <1>8
  <2> QED BY <1>3, LenProperties, <2>1
<1> QED BY <1>1, <1>3, <1>6, LenProperties, <1>8 DEF SumAbout

LEMMA CompletedKeeps == ASSUME SumInv, TaskSummaryCompleted PROVE SumInv'
<1>0. SumTypes /\ SumAbout /\ context \in [SumPane -> ContextShape] /\ requested \in [SumPane -> SumKey]
  BY DEF SumInv, SumTypes
<1>1. PICK a : a = Head(summarised) OBVIOUS
<1>2. PICK p : p = a.pane OBVIOUS
<1>3. /\ summarised # <<>> /\ summarised' = Tail(summarised)
      /\ UNCHANGED <<summaryJobs, debounced, model>>
  BY DEF TaskSummaryCompleted
<1>4. /\ summarised' \in Seq(SumAnswer) /\ a \in SumAnswer /\ AboutItsKey(a.key, a.about)
      /\ \A i \in DOMAIN summarised' : AboutItsKey(summarised'[i].key, summarised'[i].about)
      /\ \A i \in DOMAIN summarised :
            summarised[i] = a \/ \E k \in DOMAIN summarised' : summarised'[k] = summarised[i]
  BY <1>0, <1>1, <1>3, AnswerLeaves
<1>5. p \in SumPane /\ a.key \in SumKey /\ a.about \in Prints /\ a.outcome \in {"generated", "failed"}
  BY <1>2, <1>4 DEF SumAnswer
<1>6. PICK c \in ContextShape : c = context[p] BY <1>0, <1>5
<1>8. PICK k : k = IF requested[p] = a.key THEN NoKey ELSE requested[p] OBVIOUS
<1>9. requested' = [requested EXCEPT ![p] = k] /\ k \in SumKey
  BY <1>1, <1>2, <1>0, <1>5, <1>8, JobIsNone DEF TaskSummaryCompleted
<1>10. PICK s : s = [print |-> a.key.print, about |-> a.about, outcome |-> a.outcome] OBVIOUS
<1>11. s \in SummaryShape /\ s.print = a.key.print /\ s.about = s.print
  BY <1>4, <1>5, <1>10 DEF SummaryShape, SumKey, AboutItsKey
<1>12. PICK e : e = [c EXCEPT !.summary = s] OBVIOUS
<1>13. /\ e \in ContextShape /\ e.summary = s /\ e.print = c.print /\ e.prompts = c.prompts /\ e.reply = c.reply
       /\ e.asked = c.asked /\ e.who = c.who
  BY <1>11, <1>12 DEF ContextShape
<1>15. PICK d \in {c, e} :
         /\ context' = [context EXCEPT ![p] = d]
         /\ \/ sumSpent' = sumSpent /\ (RequestKey(c) = a.key => d = e)
            \/ sumSpent' = [sumSpent EXCEPT !.lost = @ + 1]
  BY <1>1, <1>2, <1>0, <1>5, <1>6, <1>10, <1>12 DEF TaskSummaryCompleted
<1>16. d \in ContextShape /\ ContextGood(d)
  BY <1>0, <1>5, <1>6, <1>13, <1>11 DEF ContextGood, summary_input, SumAbout
<1>17. /\ \A q \in SumPane : context'[q] = IF q = p THEN d ELSE context[q]
       /\ \A q \in SumPane : requested'[q] = IF q = p THEN k ELSE requested[q]
  BY <1>0, <1>9, <1>15
<1>18. /\ sumSpent' \in [steps : Nat, restarts : Nat, lost : Nat]
       /\ sumSpent'.lost = 0 => sumSpent.lost = 0 /\ sumSpent' = sumSpent
  BY <1>0, <1>15 DEF SumTypes
<1>21. ASSUME sumSpent'.lost = 0, NEW q \in SumPane
       PROVE  Tracked(q)' /\ AskedFor(context'[q], requested'[q])
  <2>1. Tracked(q) /\ AskedFor(context[q], requested[q]) BY <1>18, <1>21 DEF SumInv
  <2>3. AskedFor(context'[q], requested'[q])
    <3>1. CASE q # p BY <1>17, <2>1, <3>1
    <3>2. CASE q = p /\ RequestKey(c) = a.key
      BY <1>13, <1>15, <1>17, <1>18, <1>21, <3>2, <1>6, <1>11, KeyIs DEF AskedFor, current_summary
    <3>3. CASE q = p /\ RequestKey(c) # a.key
      BY <1>6, <2>1, <3>3, <1>8, <1>13, <1>1, <1>2, <1>5, <1>17 DEF AskedFor, RequestKey, TaskSummaryCompleted
    <3> QED BY <3>1, <3>2, <3>3
  <2> QED BY <1>2, <1>8, <1>17, <1>4, <1>3, <2>1, <2>3 DEF Tracked
<1> QED BY <1>0, <1>3, <1>4, <1>9, <1>15, <1>16, <1>18, <1>17, <1>21 DEF SumInv, SumTypes, SumAbout

LEMMA DropsKeep == ASSUME SumInv, ForwarderDrops PROVE SumInv'
  BY AnswerLeaves DEF SumInv, ForwarderDrops, SumTypes, SumAbout

LEMMA RestoredIs ==
    ASSUME NEW c \in ContextShape, ContextGood(c), NEW d, d = RestoredContext(c)
    PROVE  d \in ContextShape /\ ContextGood(d) /\ d.asked = NoPrint
<1>1. NoText \in Replies /\ NoPrint \in Prints /\ << >> \in Seq(SumText) BY DEF Replies, Prints
<1>2. CASE c.private BY <1>2, <1>1 DEF RestoredContext, ContextShape, summary_input, fingerprint, ContextGood
<1>3. CASE ~c.private BY <1>3, <1>1 DEF RestoredContext, ContextShape, ContextGood, summary_input
<1> QED BY <1>2, <1>3

LEMMA RestartKeeps == ASSUME SumInv, DaemonRestarts PROVE SumInv'
<1>1. /\ sumSpent' = [sumSpent EXCEPT !.restarts = @ + 1]
      /\ context' = [p \in SumPane |-> RestoredContext(context[p])]
      /\ requested' = [p \in SumPane |-> NoKey]
      /\ summaryJobs' = <<>> /\ debounced' = [p \in SumPane |-> NoSummaryJob] /\ model' = NoSummaryJob
      /\ summarised' = <<>>
  BY DEF DaemonRestarts
<1>2. ASSUME NEW p \in SumPane
      PROVE  context'[p] \in ContextShape /\ ContextGood(context'[p]) /\ context'[p].asked = NoPrint
  BY RestoredIs, <1>1 DEF SumTypes, SumAbout, SumInv
<1>5. ASSUME NEW q \in SumPane PROVE Tracked(q)' /\ AskedFor(context'[q], requested'[q])
  BY <1>1, <1>2 DEF Tracked, AskedFor
<1> QED BY <1>1, <1>2, JobIsNone, <1>5 DEF SumInv, SumAbout, SumTypes

LEMMA SumStep == SumInv /\ [SumNext]_sumVars => SumInv'
<1> SUFFICES ASSUME SumInv, [SumNext]_sumVars PROVE SumInv' OBVIOUS
<1>1. CASE UNCHANGED sumVars BY <1>1 DEF sumVars, SumInv, SumTypes, SumAbout, Tracked
<1>2. CASE SumNext
  <2>1. CASE SumProgress BY ReceiveKeeps, DueKeeps, SummaryKeeps, CompletedKeeps, <2>1 DEF SumProgress, WorkerSteps
  <2>2. CASE ForwarderDrops BY <2>2, DropsKeep
  <2>3. CASE DaemonRestarts BY <2>3, RestartKeeps
  <2>4. ASSUME NEW p \in SumPane, CompleteRun(p) PROVE SumInv' BY <2>4, CompleteRunKeeps
  <2>5. ASSUME NEW p \in SumPane, AgentSessionStarted(p) PROVE SumInv' BY <2>5, SessionKeeps
  <2>6. ASSUME NEW p \in SumPane, PaneRemoved(p) PROVE SumInv' BY <2>6, RemovedKeeps
  <2>7. ASSUME NEW p \in SumPane, NEW t \in SumText, NEW kind \in {"public", "private", "none"}, BeginRun(p, t, kind)
        PROVE  SumInv'
    BY <2>7, BeginRunKeeps
  <2> QED BY <1>2, <2>1, <2>2, <2>3, <2>4, <2>5, <2>6, <2>7 DEF SumNext
<1> QED BY <1>1, <1>2

LEMMA SumGivesSound == SumInv => SummariesSound
<1> SUFFICES ASSUME SumInv PROVE SummariesSound OBVIOUS
<1>0. SumTypes /\ SumAbout BY DEF SumInv
<1>2. ShownIsCurrent BY <1>0 DEF SumAbout, ContextGood, current_summary, ShownIsCurrent
<1>3. AnsweredWhenQuiet
  <2>1. ASSUME SummariesInFlight = {NoSummaryJob}, summarised = <<>>, sumSpent.lost = 0, NEW p \in SumPane,
               context[p].asked # NoPrint, context[p].asked = context[p].print
        PROVE  current_summary(context[p])
    <3>2. CASE requested[p] = RequestKey(context[p])
      <4>2. \A i \in DOMAIN summaryJobs : summaryJobs[i] = NoSummaryJob BY <2>1 DEF SummariesInFlight, ToSet
      <4>3. \A i \in DOMAIN summaryJobs : summaryJobs[i] # NoSummaryJob BY <1>0, AboutIsJob DEF SumAbout
      <4>4. debounced[p] = NoSummaryJob /\ model = NoSummaryJob BY <2>1 DEF SummariesInFlight
      <4>5. DOMAIN summarised = {} BY <2>1
      <4> QED BY <2>1, <1>0, <3>2, KeyIs, <4>2, <4>3, <4>4, <4>5 DEF Tracked, SumInv, SumTypes
    <3> QED BY <2>1, <3>2 DEF AskedFor, SumInv
  <2> QED BY <2>1 DEF AnsweredWhenQuiet
<1> QED
  BY <1>0, <1>2, <1>3 DEF SummariesSound, Loading, NoKey, RequestKey, SumInv, SummariesInFlight, ToSet, SumAbout,
    Tracked, SpinnerIsWork

(* The spinner of a row stands for a summary in work, the summary shown was *)
(* written from the prompts that are the pane's context now, and when the   *)
(* worker is idle every context a Run asked about has its answer.           *)
THEOREM SummariesAreSound == SumSpec => []SummariesSound
<1>1. SumSpec => []SumInv BY SumInits, SumStep, PTL DEF SumSpec
<1> QED BY <1>1, SumGivesSound, PTL

-----------------------------------------------------------------------------
(* What a recursion over an interval computes: it exists, and what holds at *)
(* its first index and goes on to the next one holds at every index.        *)

LEMMA OnInterval ==
    ASSUME NEW a \in Nat, NEW b \in Nat, a <= b, NEW T, a \in T,
           \A i \in a..b : i # a /\ i - 1 \in T => i \in T
    PROVE  a..b \subseteq T
<1> DEFINE Bad == {i \in a..b : i \notin T}
<1>1. SUFFICES ASSUME Bad # {} PROVE FALSE OBVIOUS
<1>2. PICK k \in Bad : \A y \in Bad : k <= y
  <2>1. Bad \subseteq Nat OBVIOUS
  <2> HIDE DEF Bad
  <2> QED BY <1>1, <2>1, LeastOf
<1> QED BY <1>2

FollowsTo(h, a, n, x, G) == h = [i \in a..n |-> IF i = a THEN x ELSE G[<<h[i - 1], i>>]]

LEMMA FollowGrows ==
    ASSUME NEW S, NEW x \in S, NEW G \in [S \X Nat -> S], NEW a \in Nat, NEW n \in Nat, a <= n,
           NEW h \in [a..n -> S], FollowsTo(h, a, n, x, G)
    PROVE  \E g \in [a..(n + 1) -> S] : FollowsTo(g, a, n + 1, x, G)
<1>1. PICK y \in S : y = G[<<h[n], n + 1>>] OBVIOUS
<1>2. PICK g : g = [i \in a..(n + 1) |-> IF i = n + 1 THEN y ELSE h[i]] OBVIOUS
<1>3. g \in [a..(n + 1) -> S] /\ \A i \in a..n : g[i] = h[i] BY <1>2
<1>5. ASSUME NEW i \in a..(n + 1) PROVE g[i] = IF i = a THEN x ELSE G[<<g[i - 1], i>>]
  <2>1. CASE i = n + 1
    <3>1. i # a /\ i - 1 = n /\ i - 1 \in a..n /\ g[i] = y BY <1>2, <2>1
    <3> QED BY <1>1, <2>1, <3>1, <1>3
  <2>2. CASE i # n + 1
    <3>1. i \in a..n /\ g[i] = h[i] BY <1>3, <2>2
    <3>2. i # a => i - 1 \in a..n /\ g[i - 1] = h[i - 1] BY <1>3, <3>1
    <3> QED BY <3>1, <3>2 DEF FollowsTo
  <2> QED BY <2>1, <2>2
<1> QED BY <1>3, <1>5 DEF FollowsTo

LEMMA FollowExists ==
    ASSUME NEW S, NEW x \in S, NEW G \in [S \X Nat -> S], NEW a \in Nat, NEW b \in Nat, a <= b
    PROVE  \E h \in [a..b -> S] : FollowsTo(h, a, b, x, G)
<1> DEFINE T == {n \in a..b : \E h \in [a..n -> S] : FollowsTo(h, a, n, x, G)}
<1>1. a \in T
  <2>1. PICK h : h = [i \in a..a |-> x] OBVIOUS
  <2> QED BY <2>1 DEF FollowsTo
<1>2. ASSUME NEW i \in a..b, i # a, i - 1 \in T PROVE i \in T
  <2>1. i - 1 \in Nat /\ a <= i - 1 /\ (i - 1) + 1 = i BY <1>2
  <2>2. PICK h \in [a..(i - 1) -> S] : FollowsTo(h, a, i - 1, x, G) BY <1>2
  <2>3. \E g \in [a..((i - 1) + 1) -> S] : FollowsTo(g, a, (i - 1) + 1, x, G) BY <2>1, <2>2, FollowGrows
  <2> QED BY <2>1, <2>3
<1>3. a..b \subseteq T
  <2> HIDE DEF T
  <2> QED BY <1>1, <1>2, OnInterval
<1> QED BY <1>3

-----------------------------------------------------------------------------
(* CodexResync.  A cursor that is still trusted knows of the records before *)
(* it what its turns say: which are started, which are over and how.        *)

EndKinds == {"complete", "error", "abort"}
RecordKinds == {"meta", "start", "rollback"} \cup EndKinds
Digests == {Canonical, Foreign}
RolloutRec == [kind : RecordKinds, turn : Nat, session : Digests, source : {"root", "fork", "child", "none"}]
RolloutShape == [ino : Nat, recs : Seq(RolloutRec), half : BOOLEAN, cut : BOOLEAN]
CursorTurn == [turn : Nat, end : {"open"} \cup EndKinds]
CursorShape == [ino : Nat, at : Nat, header : BOOLEAN, unknown : BOOLEAN, turns : Seq(CursorTurn)]
RootLocator == [path : RolloutFile, ino : Nat, session : Digests, need : {"warm", "idle", "quiet"}]

ResyncTypes ==
    /\ disk \in [RolloutFile -> RolloutShape]
    /\ codexOpen \in SUBSET RolloutFile /\ IsFiniteSet(codexOpen)
    /\ DOMAIN readers \subseteq ReaderKey /\ readers = [k \in DOMAIN readers |-> readers[k]]
    /\ \A k \in DOMAIN readers : readers[k] \in CursorShape
    /\ reading.todo \in Seq(RootLocator) /\ reading.roots \in SUBSET RolloutFile

(* What the header says.                                                    *)
HeaderRead(c, recs, n, s) ==
    /\ n = 0 => ~c.header /\ c.turns = <<>>
    /\ n > 0 => c.header /\ recs[1].session = s /\ recs[1].source # "child"
    /\ \A j \in 1..n : recs[j].kind # "rollback" /\ (j > 1 => recs[j].kind # "meta")
    /\ n > 0 => recs[1].kind = "meta"
(* The turns listed are those started, and those closed are over.           *)
TurnsRead(c, recs, n) ==
    /\ \A i \in DOMAIN c.turns : \E j \in 1..n : recs[j].kind = "start" /\ recs[j].turn = c.turns[i].turn
    /\ \A j \in 1..n : recs[j].kind # "meta" => \E i \in DOMAIN c.turns : c.turns[i].turn = recs[j].turn
    /\ \A i \in DOMAIN c.turns : c.turns[i].end # "open" =>
          \E j \in 1..n : recs[j].kind \in EndKinds /\ recs[j].turn = c.turns[i].turn
    /\ \A i \in DOMAIN c.turns, j \in 1..n :
          recs[j].kind \in EndKinds /\ recs[j].turn = c.turns[i].turn => c.turns[i].end = recs[j].kind
(* A turn starts once, and the last one is listed last.                     *)
LastRead(c, recs, n) ==
    /\ \A j, k \in 1..n : recs[j].kind = "start" /\ recs[k].kind = "start" /\ recs[j].turn = recs[k].turn => j = k
    /\ \A j \in 1..n :
          recs[j].kind = "start" /\ (\A i \in (j + 1)..n : recs[i].kind # "start")
              => c.turns # <<>> /\ Last(c.turns).turn = recs[j].turn
ReadTo(c, recs, n, s) ==
    ~c.unknown => HeaderRead(c, recs, n, s) /\ TurnsRead(c, recs, n) /\ LastRead(c, recs, n)

(* Turns are written one at a time, and end with a record of their own.     *)
WellWritten(f) ==
    /\ \A j \in DOMAIN f.recs : f.recs[j].kind \in EndKinds =>
          /\ j > 1
          /\ \/ f.recs[j - 1].kind = "rollback"
             \/ f.recs[j - 1].kind = "start" /\ f.recs[j - 1].turn = f.recs[j].turn
    /\ ~f.cut => /\ \A t, u \in OpenTurns(f) : t = u
                 /\ \A t \in OpenTurns(f) :
                       \/ Last(f.recs).kind = "rollback"
                       \/ Last(f.recs).kind = "start" /\ Last(f.recs).turn = t
(* The cursor of a path's file, whatever was read with it.                  *)
CursorFits(c, f, s) ==
    /\ c.ino <= f.ino
    /\ c.ino = f.ino /\ ~f.cut => c.at <= Length(f)
    /\ c.ino = f.ino /\ c.at <= Length(f) => ReadTo(c, f.recs, c.at \div 2, s)

ResyncInv ==
    /\ ResyncTypes
    /\ \A p \in RolloutFile : WellWritten(disk[p])
    /\ \A k \in DOMAIN readers : CursorFits(readers[k], disk[k[1]], k[2])
    /\ \A i \in DOMAIN reading.todo : <<reading.todo[i].path, reading.todo[i].session>> \in DOMAIN readers
    /\ reading.truth

Opened(c, t) == Append(c.turns, [turn |-> t, end |-> "open"])
Ended(c, r) == [i \in DOMAIN c.turns |-> IF c.turns[i].turn = r.turn THEN [c.turns[i] EXCEPT !.end = r.kind] ELSE c.turns[i]]

(* A record breaks the cursor, or is one of the three it takes.             *)
LEMMA RecordCases ==
    ASSUME NEW c \in CursorShape, NEW r \in RolloutRec, NEW s, NEW d, d = apply_record(c, r, s), ~d.unknown
    PROVE  /\ ~c.unknown
           /\ \/ /\ ~c.header /\ d = [c EXCEPT !.header = TRUE]
                 /\ r.kind = "meta" /\ r.session = s /\ r.source # "child"
              \/ /\ c.header /\ r.kind = "start" /\ d = [c EXCEPT !.turns = Opened(c, r.turn)]
                 /\ \A i \in DOMAIN c.turns : c.turns[i].turn # r.turn
              \/ /\ c.header /\ r.kind \in EndKinds /\ d = [c EXCEPT !.turns = Ended(c, r)]
                 /\ \E i \in DOMAIN c.turns : c.turns[i].turn = r.turn /\ c.turns[i].end = "open"
  BY DEF Broken, CursorShape, apply_record, Opened, RolloutRec, RecordKinds, Ended

LEMMA EndedIs ==
    ASSUME NEW c \in CursorShape, NEW r \in RolloutRec, r.kind \in EndKinds, NEW ts, ts = Ended(c, r)
    PROVE  /\ ts \in Seq(CursorTurn) /\ DOMAIN ts = DOMAIN c.turns /\ Len(ts) = Len(c.turns)
           /\ \A i \in DOMAIN c.turns : ts[i].turn = c.turns[i].turn
           /\ \A i \in DOMAIN c.turns : c.turns[i].turn = r.turn => ts[i].end = r.kind
           /\ \A i \in DOMAIN c.turns : c.turns[i].turn # r.turn => ts[i].end = c.turns[i].end
<1>1. PICK n \in Nat : n = Len(c.turns) /\ DOMAIN c.turns = 1..n BY LenProperties DEF CursorShape
<1>2. \A i \in 1..n : c.turns[i] \in CursorTurn BY <1>1, ElementOfSeq DEF CursorShape
<1>4. ASSUME NEW i \in 1..n
      PROVE  /\ ts[i] \in CursorTurn /\ ts[i].turn = c.turns[i].turn
             /\ c.turns[i].turn = r.turn => ts[i].end = r.kind
             /\ c.turns[i].turn # r.turn => ts[i].end = c.turns[i].end
  BY <1>1, <1>2 DEF Ended, CursorTurn
<1>7. ts \in Seq(CursorTurn) /\ Len(ts) = n BY <1>1, <1>4, SeqDef, LenProperties DEF Ended
<1> QED BY <1>1, <1>4, <1>7 DEF Ended

LEMMA OpenedIs ==
    ASSUME NEW c \in CursorShape, NEW t \in Nat, NEW ts, ts = Opened(c, t), NEW n, n = Len(c.turns)
    PROVE  /\ n \in Nat /\ DOMAIN c.turns = 1..n /\ DOMAIN ts = 1..(n + 1)
           /\ ts \in Seq(CursorTurn) /\ Last(ts) = ts[n + 1] /\ ts # <<>>
           /\ \A i \in 1..n : ts[i] = c.turns[i]
           /\ ts[n + 1].turn = t /\ ts[n + 1].end = "open"
  BY LenProperties, AppendProperties, EmptySeq DEF CursorTurn, CursorShape, Opened, Last

LEMMA RecordApplied ==
    ASSUME NEW c \in CursorShape, NEW r \in RolloutRec, NEW s, NEW d, d = apply_record(c, r, s)
    PROVE  d \in CursorShape /\ d.ino = c.ino /\ d.at = c.at /\ (c.unknown => d.unknown)
<1>0. PICK yes \in BOOLEAN : yes = TRUE OBVIOUS
<1>1. CASE d = Broken(c) BY <1>0, <1>1 DEF Broken, CursorShape
<1>2. CASE d # Broken(c)
  <2>1. CASE c.unknown BY <2>1 DEF apply_record
  <2>2. CASE ~c.unknown /\ ~c.header BY <1>0, <1>2, <2>2 DEF apply_record, CursorShape
  <2>3. CASE ~c.unknown /\ c.header /\ r.kind = "start"
    BY <1>2, <2>3, OpenedIs DEF apply_record, Opened, RolloutRec, CursorShape
  <2>4. CASE ~c.unknown /\ c.header /\ r.kind # "start"
    <3>1. PICK ts : ts = Ended(c, r) OBVIOUS
    <3>3. r.kind \in EndKinds BY <2>4, <1>2 DEF RolloutRec, RecordKinds, apply_record
    <3>6. d = [c EXCEPT !.turns = ts] BY <1>2, <2>4, <3>1 DEF Ended, apply_record
    <3> QED BY <2>4, <3>6, <3>1, <3>3, EndedIs DEF CursorShape
  <2> QED BY <2>1, <2>2, <2>3, <2>4
<1> QED BY <1>1, <1>2

LEMMA ReadOn ==
    ASSUME NEW c \in CursorShape, NEW recs \in Seq(RolloutRec), NEW n \in Nat, n + 1 \in DOMAIN recs, NEW s,
           NEW d, d = apply_record(c, recs[n + 1], s), ReadTo(c, recs, n, s)
    PROVE  ReadTo(d, recs, n + 1, s)
<1> SUFFICES ASSUME ~d.unknown
             PROVE  HeaderRead(d, recs, n + 1, s) /\ TurnsRead(d, recs, n + 1) /\ LastRead(d, recs, n + 1)
  BY DEF ReadTo
<1>1. PICK r \in RolloutRec : r = recs[n + 1] BY ElementOfSeq, LenProperties
<1>3. HeaderRead(c, recs, n, s) /\ TurnsRead(c, recs, n) /\ LastRead(c, recs, n) BY <1>1, RecordCases DEF ReadTo
<1>4. (n = 0) = ~c.header /\ 1..(n + 1) = 1..n \cup {n + 1} BY <1>3 DEF HeaderRead
<1>8. /\ \A i \in DOMAIN c.turns : \E j \in 1..n : recs[j].kind = "start" /\ recs[j].turn = c.turns[i].turn
      /\ \A j \in 1..n : recs[j].kind # "meta" => \E i \in DOMAIN c.turns : c.turns[i].turn = recs[j].turn
      /\ \A i \in DOMAIN c.turns : c.turns[i].end # "open" =>
            \E j \in 1..n : recs[j].kind \in EndKinds /\ recs[j].turn = c.turns[i].turn
      /\ \A i \in DOMAIN c.turns, j \in 1..n :
            recs[j].kind \in EndKinds /\ recs[j].turn = c.turns[i].turn => c.turns[i].end = recs[j].kind
  BY <1>3 DEF TurnsRead
<1>5. CASE /\ ~c.header /\ d = [c EXCEPT !.header = TRUE]
           /\ r.kind = "meta" /\ r.session = s /\ r.source # "child"
  BY <1>4, <1>5, <1>3, EmptySeq, <1>1 DEF CursorShape, HeaderRead, TurnsRead, EndKinds, LastRead
<1>6. CASE /\ c.header /\ r.kind = "start" /\ d = [c EXCEPT !.turns = Opened(c, r.turn)]
           /\ \A i \in DOMAIN c.turns : c.turns[i].turn # r.turn
  <2>0. PICK ts, m : ts = Opened(c, r.turn) /\ m = Len(c.turns) OBVIOUS
  <2>2. /\ m \in Nat /\ DOMAIN c.turns = 1..m /\ DOMAIN ts = 1..(m + 1)
        /\ Last(ts) = ts[m + 1] /\ ts # <<>>
        /\ \A i \in 1..m : ts[i] = c.turns[i]
        /\ ts[m + 1].turn = r.turn /\ ts[m + 1].end = "open"
    BY <2>0, OpenedIs DEF RolloutRec
  <2>8. /\ \A i \in 1..m : \E j \in 1..n : recs[j].kind = "start" /\ recs[j].turn = c.turns[i].turn
        /\ \A j \in 1..n : recs[j].kind # "meta" => \E i \in 1..m : c.turns[i].turn = recs[j].turn
        /\ \A i \in 1..m : c.turns[i].end # "open" =>
              \E j \in 1..n : recs[j].kind \in EndKinds /\ recs[j].turn = c.turns[i].turn
        /\ \A i \in 1..m, j \in 1..n :
              recs[j].kind \in EndKinds /\ recs[j].turn = c.turns[i].turn => c.turns[i].end = recs[j].kind
    BY <1>8, <2>2
  <2>3. d.header /\ d.turns = ts BY <1>6, <2>0 DEF CursorShape
  <2>5. TurnsRead(d, recs, n + 1)
    <3>1. \A i \in 1..(m + 1) : \E j \in 1..(n + 1) : recs[j].kind = "start" /\ recs[j].turn = ts[i].turn
      <4>1. ASSUME NEW i \in 1..(m + 1)
            PROVE  \E j \in 1..(n + 1) : recs[j].kind = "start" /\ recs[j].turn = ts[i].turn
        <5>1. CASE i = m + 1 BY <1>1, <1>6, <2>2, <5>1
        <5>2. CASE i # m + 1 BY <2>2, <5>2, <2>8
        <5> QED BY <5>1, <5>2
      <4> QED BY <4>1
    <3>2. \A j \in 1..(n + 1) : recs[j].kind # "meta" => \E i \in 1..(m + 1) : ts[i].turn = recs[j].turn
      <4>1. ASSUME NEW j \in 1..(n + 1), recs[j].kind # "meta"
            PROVE  \E i \in 1..(m + 1) : ts[i].turn = recs[j].turn
        <5>1. CASE j = n + 1 BY <2>2, <1>1, <5>1
        <5>2. CASE j # n + 1 BY <2>8, <2>2, <4>1, <5>2
        <5> QED BY <5>1, <5>2
      <4> QED BY <4>1
    <3>3. \A i \in 1..(m + 1) : ts[i].end # "open" =>
              \E j \in 1..(n + 1) : recs[j].kind \in EndKinds /\ recs[j].turn = ts[i].turn
      <4>1. ASSUME NEW i \in 1..(m + 1), ts[i].end # "open"
            PROVE  \E j \in 1..(n + 1) : recs[j].kind \in EndKinds /\ recs[j].turn = ts[i].turn
        BY <2>2, <4>1, <2>8
      <4> QED BY <4>1
    <3>4. \A i \in 1..(m + 1), j \in 1..(n + 1) :
              recs[j].kind \in EndKinds /\ recs[j].turn = ts[i].turn => ts[i].end = recs[j].kind
      <4>1. ASSUME NEW i \in 1..(m + 1), NEW j \in 1..(n + 1), recs[j].kind \in EndKinds, recs[j].turn = ts[i].turn
            PROVE  ts[i].end = recs[j].kind
        <5>1. j \in 1..n BY <1>1, <1>6, <4>1 DEF EndKinds
        <5>2. CASE i = m + 1
          <6>1. PICK k \in 1..m : c.turns[k].turn = recs[j].turn BY <2>8, <2>2, <4>1, <5>1 DEF EndKinds
          <6> QED BY <1>6, <2>2, <4>1, <5>2, <6>1
        <5>3. CASE i # m + 1
          <6>2. ts[i] = c.turns[i] BY <2>2, <5>3
          <6> QED BY <2>8, <4>1, <5>1, <2>2, <5>3, <6>2
        <5> QED BY <5>2, <5>3
      <4> QED BY <4>1
    <3>5. DOMAIN d.turns = 1..(m + 1) BY <2>2, <2>3
    <3> QED BY <2>3, <3>1, <3>2, <3>3, <3>4, <3>5 DEF TurnsRead
  <2>6. LastRead(d, recs, n + 1)
    <3>1. ASSUME NEW j \in 1..(n + 1), recs[j].kind = "start", \A i \in (j + 1)..(n + 1) : recs[i].kind # "start"
          PROVE  ts # <<>> /\ Last(ts).turn = recs[j].turn
      BY <1>1, <1>6, <3>1, <2>2
    <3>2. ASSUME NEW j \in 1..(n + 1), NEW k \in 1..(n + 1), recs[j].kind = "start", recs[k].kind = "start",
                 recs[j].turn = recs[k].turn
          PROVE  j = k
      <4>1. ASSUME NEW i \in 1..n, recs[i].kind = "start" PROVE recs[i].turn # r.turn BY <1>8, <4>1, <1>6
      <4>2. CASE j \in 1..n /\ k \in 1..n BY <1>3, <3>2, <4>2 DEF LastRead
      <4>3. CASE j = n + 1 /\ k \in 1..n BY <1>1, <3>2, <4>1, <4>3
      <4>4. CASE k = n + 1 /\ j \in 1..n BY <1>1, <3>2, <4>1, <4>4
      <4> QED BY <1>4, <4>2, <4>3, <4>4
    <3> QED BY <2>3, <3>1, <3>2 DEF LastRead
  <2> QED BY <1>1, <1>3, <1>4, <1>6, <2>3, <2>5, <2>6 DEF HeaderRead
<1>7. CASE /\ c.header /\ r.kind \in EndKinds /\ d = [c EXCEPT !.turns = Ended(c, r)]
           /\ \E i \in DOMAIN c.turns : c.turns[i].turn = r.turn /\ c.turns[i].end = "open"
  <2>0. PICK ts : ts = Ended(c, r) OBVIOUS
  <2>1. PICK o \in DOMAIN c.turns : c.turns[o].turn = r.turn /\ c.turns[o].end = "open" BY <1>7
  <2>2. /\ ts \in Seq(CursorTurn) /\ DOMAIN ts = DOMAIN c.turns /\ Len(ts) = Len(c.turns)
        /\ \A i \in DOMAIN c.turns : ts[i].turn = c.turns[i].turn
        /\ \A i \in DOMAIN c.turns : c.turns[i].turn = r.turn => ts[i].end = r.kind
        /\ \A i \in DOMAIN c.turns : c.turns[i].turn # r.turn => ts[i].end = c.turns[i].end
    BY <1>7, <2>0, EndedIs
  <2>3. d.header /\ d.turns = ts BY <1>7, <2>0 DEF CursorShape
  <2>5. n + 1 \in 1..(n + 1) /\ 1..n \subseteq 1..(n + 1) OBVIOUS
  <2>6. TurnsRead(d, recs, n + 1)
    <3>2. \A j \in 1..(n + 1) : recs[j].kind # "meta" => \E i \in DOMAIN c.turns : ts[i].turn = recs[j].turn
      BY <1>1, <2>1, <2>2, <1>8
    <3>3. \A i \in DOMAIN c.turns : ts[i].end # "open" =>
              \E j \in 1..(n + 1) : recs[j].kind \in EndKinds /\ recs[j].turn = ts[i].turn
      <4>1. ASSUME NEW i \in DOMAIN c.turns, ts[i].end # "open"
            PROVE  \E j \in 1..(n + 1) : recs[j].kind \in EndKinds /\ recs[j].turn = ts[i].turn
        <5>1. CASE c.turns[i].turn = r.turn BY <1>1, <1>7, <2>2, <2>5, <5>1
        <5>2. CASE c.turns[i].turn # r.turn
          <6>2. PICK j \in 1..n : recs[j].kind \in EndKinds /\ recs[j].turn = c.turns[i].turn
            BY <1>8, <2>2, <4>1, <5>2
          <6> QED BY <2>2, <4>1, <5>2, <6>2
        <5> QED BY <5>1, <5>2
      <4> QED BY <4>1
    <3>4. \A i \in DOMAIN c.turns, j \in 1..(n + 1) :
              recs[j].kind \in EndKinds /\ recs[j].turn = ts[i].turn => ts[i].end = recs[j].kind
      BY <1>1, <2>2, <1>8, <2>1 DEF EndKinds
    <3> QED BY <2>2, <2>3, <1>8, <2>5, <3>2, <3>3, <3>4 DEF TurnsRead
  <2>7. LastRead(d, recs, n + 1)
    <3>1. ASSUME NEW j \in 1..(n + 1), recs[j].kind = "start", \A i \in (j + 1)..(n + 1) : recs[i].kind # "start"
          PROVE  ts # <<>> /\ Last(ts).turn = recs[j].turn
      BY <1>3, <3>1, <1>1, <1>7, <2>2, LenProperties, EmptySeq DEF LastRead, EndKinds, Last, CursorShape
    <3>2. ASSUME NEW j \in 1..(n + 1), NEW k \in 1..(n + 1), recs[j].kind = "start", recs[k].kind = "start",
                 recs[j].turn = recs[k].turn
          PROVE  j = k
      BY <1>1, <1>4, <1>7, <3>2, <1>3 DEF EndKinds, LastRead
    <3> QED BY <2>3, <3>1, <3>2 DEF LastRead
  <2> QED BY <1>1, <1>3, <1>4, <1>7, <2>3, <2>6, <2>7 DEF HeaderRead, EndKinds
<1>9. d = apply_record(c, r, s) BY <1>1
<1> QED BY <1>5, <1>6, <1>7, <1>9, RecordCases

LEMMA HalfIs ==
    ASSUME NEW x \in Nat
    PROVE  x \div 2 \in Nat /\ 2 * (x \div 2) <= x /\ x < 2 * (x \div 2) + 2
  OBVIOUS

LEMMA LengthIs ==
    ASSUME NEW f \in RolloutShape, NEW n, n = Len(f.recs)
    PROVE  /\ n \in Nat /\ DOMAIN f.recs = 1..n /\ Length(f) \in Nat
           /\ 2 * n <= Length(f) /\ Length(f) <= 2 * n + 1 /\ (Length(f) = 2 * n => ~f.half)
  BY LenProperties DEF RolloutShape, Length

LEMMA FeedIs ==
    ASSUME NEW c \in CursorShape, NEW f \in RolloutShape, NEW to \in Nat, c.at <= to, to <= Length(f), NEW s,
           ReadTo(c, f.recs, c.at \div 2, s), NEW d, d = feed(c, f, to, s)
    PROVE  d \in CursorShape /\ d.ino = c.ino /\ d.at = to /\ ReadTo(d, f.recs, to \div 2, s)
<1> DEFINE a == c.at \div 2
           b == to \div 2
           read == CHOOSE h : h = [i \in a..b |-> IF i = a THEN c ELSE apply_record(h[i - 1], f.recs[i], s)]
<1>1. PICK n : n = Len(f.recs) OBVIOUS
<1>2. c.at \in Nat /\ f.recs \in Seq(RolloutRec) BY DEF CursorShape, RolloutShape
<1>3. a \in Nat /\ b \in Nat /\ a <= b /\ b <= n /\ n \in Nat /\ DOMAIN f.recs = 1..n
  BY <1>1, <1>2, HalfIs, LengthIs
<1>4. \A i \in 1..n : f.recs[i] \in RolloutRec BY <1>2, <1>3, ElementOfSeq, LenProperties
<1>5. \E h : h = [i \in a..b |-> IF i = a THEN c ELSE apply_record(h[i - 1], f.recs[i], s)]
  <2>1. PICK G : G = [w \in CursorShape \X Nat |-> IF w[2] \in 1..n THEN apply_record(w[1], f.recs[w[2]], s) ELSE w[1]]
    OBVIOUS
  <2>3. PICK h \in [a..b -> CursorShape] : FollowsTo(h, a, b, c, G)
    <3> HIDE DEF a, b
    <3> QED BY <1>3, <1>4, RecordApplied, <2>1, FollowExists
  <2>5. ASSUME NEW i \in a..b, i # a PROVE G[<<h[i - 1], i>>] = apply_record(h[i - 1], f.recs[i], s)
    BY <1>3, <2>5, <2>3, <2>1
  <2> QED BY <2>3, <2>5 DEF FollowsTo
<1>6. read = [i \in a..b |-> IF i = a THEN c ELSE apply_record(read[i - 1], f.recs[i], s)] BY <1>5
<1>7. d = [read[b] EXCEPT !.at = to] BY DEF feed
<1> HIDE DEF read
<1> DEFINE T == {i \in a..b : read[i] \in CursorShape /\ read[i].ino = c.ino /\ ReadTo(read[i], f.recs, i, s)}
<1>8. a \in T BY <1>3, <1>6
<1>9. ASSUME NEW i \in a..b, i # a, i - 1 \in T PROVE i \in T BY <1>9, <1>4, <1>3, RecordApplied, <1>2, ReadOn, <1>6
<1>10. b \in T
  <2>1. a..b \subseteq T
    <3> HIDE DEF T, a, b
    <3> QED BY <1>3, <1>8, <1>9, OnInterval
  <2> QED BY <1>3, <2>1
<1>11. PICK e \in CursorShape : e = read[b] /\ e.ino = c.ino /\ ReadTo(e, f.recs, b, s) BY <1>10
<1> QED BY <1>7, <1>11 DEF ReadTo, HeaderRead, TurnsRead, LastRead, CursorShape

(* The turns open for a trusted cursor are those open in what it has read.  *)
OpenOf(c) ==
    {t \in {c.turns[i].turn : i \in DOMAIN c.turns} : \E i \in DOMAIN c.turns : c.turns[i] = [turn |-> t, end |-> "open"]}

LEMMA StartedTurns ==
    ASSUME NEW f, NEW t
    PROVE  t \in TurnsOf(f) <=> \E j \in DOMAIN f.recs : f.recs[j].kind = "start" /\ f.recs[j].turn = t
  BY DEF TurnsOf

LEMMA TrustedOpen ==
    ASSUME NEW c \in CursorShape, NEW recs \in Seq(RolloutRec), NEW n \in Nat, n <= Len(recs), NEW s,
           ~c.unknown, ReadTo(c, recs, n, s), NEW g, g.recs = SubSeq(recs, 1, n)
    PROVE  OpenOf(c) = OpenTurns(g)
<1>1. HeaderRead(c, recs, n, s) /\ TurnsRead(c, recs, n) BY DEF ReadTo
<1>2. DOMAIN g.recs = 1..n /\ \A j \in 1..n : g.recs[j] = recs[j] BY SubSeqProperties, LenProperties
<1>3. ASSUME NEW i \in DOMAIN c.turns
      PROVE  c.turns[i] \in CursorTurn
  BY ElementOfSeq, LenProperties DEF CursorShape
<1>4. ASSUME NEW t \in OpenOf(c) PROVE t \in OpenTurns(g)
  <2>1. PICK i \in DOMAIN c.turns : c.turns[i] = [turn |-> t, end |-> "open"] BY <1>4 DEF OpenOf
  <2>3. t \in TurnsOf(g) BY <1>1, <1>2, <2>1, StartedTurns DEF TurnsRead
  <2>4. ASSUME NEW j \in 1..n, recs[j].kind \in EndKinds, recs[j].turn = t PROVE FALSE
    BY <1>1, <2>1, <2>4 DEF TurnsRead, EndKinds
  <2> QED BY <2>3, <1>2, <2>4 DEF OpenTurns, Ends, EndKinds
<1>5. ASSUME NEW t \in OpenTurns(g) PROVE t \in OpenOf(c)
  <2>2. PICK j \in 1..n : recs[j].kind = "start" /\ recs[j].turn = t BY <1>2, <1>5, StartedTurns DEF OpenTurns
  <2>3. PICK i \in DOMAIN c.turns : c.turns[i].turn = t BY <1>1, <2>2 DEF TurnsRead
  <2>4. c.turns[i].end = "open"
    <3>1. ASSUME NEW k \in 1..n, recs[k].kind \in EndKinds, recs[k].turn = t PROVE FALSE
      BY <1>2, <1>5, <3>1 DEF Ends, EndKinds, OpenTurns
    <3> QED BY <1>1, <2>3, <3>1 DEF TurnsRead
  <2> QED BY <2>3, <1>3, <2>4 DEF OpenOf, CursorTurn
<1> QED BY <1>4, <1>5

(* What a cursor at the end of its file calls closed, the file calls closed.*)
LEMMA QuietCursor ==
    ASSUME NEW f \in RolloutShape, WellWritten(f), NEW c \in CursorShape, NEW s, quiescent(c),
           c.at = Length(f), c.at % 2 = 0, ReadTo(c, f.recs, c.at \div 2, s)
    PROVE  Quiet(f, s) /\ (idle(c) => CompletedLast(f))
<1>1. PICK n : n = Len(f.recs) OBVIOUS
<1>2. /\ n \in Nat /\ DOMAIN f.recs = 1..n /\ f.recs \in Seq(RolloutRec)
      /\ 2 * n <= c.at /\ c.at <= 2 * n + 1 /\ (c.at = 2 * n => ~f.half) /\ c.at \in Nat
  BY <1>1, LengthIs DEF RolloutShape, CursorShape
<1>3. c.at = 2 * n /\ c.at \div 2 = n BY <1>2
<1>4. HeaderRead(c, f.recs, n, s) /\ TurnsRead(c, f.recs, n) /\ LastRead(c, f.recs, n) /\ ~c.unknown /\ c.header
      /\ \A i \in DOMAIN c.turns : c.turns[i].end # "open"
  BY <1>3 DEF ReadTo, quiescent
<1>5. /\ n > 0 /\ f.recs[1].session = s /\ f.recs[1].source # "child" /\ f.recs[1].kind = "meta"
      /\ \A j \in 1..n : f.recs[j].kind # "rollback" /\ (j > 1 => f.recs[j].kind # "meta")
  BY <1>2, <1>4 DEF HeaderRead
<1>6. f.recs # <<>> /\ Last(f.recs) = f.recs[n] BY <1>1, <1>2, <1>5, EmptySeq DEF Last
<1>7. OpenTurns(f) = {}
  <2>2. ReadTo(c, f.recs, n, s) BY <1>3
  <2>4. OpenOf(c) = {} BY <1>4 DEF OpenOf
  <2> QED BY <1>1, <1>2, <1>4, SubSeqProperties, SeqEqual, <2>2, TrustedOpen, <2>4
<1>9. ASSUME idle(c) PROVE CompletedLast(f)
  <2>2. PICK m \in DOMAIN c.turns : Last(c.turns) = c.turns[m]
    BY <1>9, LenProperties, EmptySeq DEF CursorShape, Last, idle
  <2>3. PICK j \in 1..n : f.recs[j].kind \in EndKinds /\ f.recs[j].turn = c.turns[m].turn BY <1>4 DEF TurnsRead
  <2>4. n > 1
    <3>1. f.recs[1].kind \notin EndKinds BY <1>5 DEF EndKinds
    <3>2. j # 1 BY <2>3, <3>1
    <3> QED BY <1>2, <3>2
  <2>5. f.recs[n] \in RolloutRec BY <1>1, <1>2, <1>5, ElementOfSeq
  <2>6. f.recs[n].kind \notin {"meta", "rollback"} BY <1>2, <1>5, <2>4
  <2>7. f.recs[n].kind # "start"
    <3>1. ASSUME f.recs[n].kind = "start" PROVE FALSE
      <4>2. f.recs[n].turn \in TurnsOf(f) BY <3>1, <1>2, <1>5, StartedTurns
      <4>4. PICK k \in 1..n : f.recs[k].kind \in EndKinds /\ f.recs[k].turn = f.recs[n].turn
        BY <1>2, <1>7, <4>2 DEF Ends, EndKinds, OpenTurns
      <4>5. k > 1 /\ k - 1 \in 1..n /\ f.recs[k - 1].kind = "start" /\ f.recs[k - 1].turn = f.recs[k].turn
        <5>2. k - 1 \in 1..n BY <1>2, <4>4 DEF WellWritten
        <5> QED BY <1>2, <4>4, <5>2, <1>5 DEF WellWritten
      <4>6. k - 1 = n BY <1>2, <1>4, <1>5, <3>1, <4>4, <4>5 DEF LastRead
      <4> QED BY <1>2, <4>4, <4>6
    <3> QED BY <3>1
  <2>8. f.recs[n].kind \in EndKinds BY <2>5, <2>6, <2>7 DEF RolloutRec, RecordKinds
  <2>9. n - 1 \in 1..n /\ f.recs[n - 1].kind = "start" /\ f.recs[n - 1].turn = f.recs[n].turn
    BY <1>2, <1>5, <2>4, <2>8 DEF WellWritten
  <2>11. Last(c.turns).turn = f.recs[n - 1].turn BY <1>4, <2>9, <1>2, <2>7 DEF LastRead
  <2>12. c.turns[m].end = f.recs[n].kind BY <1>2, <1>5, <2>2, <2>9, <2>11, <1>4, <2>8 DEF TurnsRead
  <2> QED BY <1>6, <1>9, <2>2, <2>12 DEF CompletedLast, idle
<1> QED BY <1>2, <1>3, <1>5, <1>6, <1>7, <1>9 DEF Quiet

LEMMA ReadPrefix ==
    ASSUME NEW c, NEW s, NEW m \in Nat, NEW recs, NEW more, \A j \in 1..m : more[j] = recs[j], ReadTo(c, recs, m, s)
    PROVE  ReadTo(c, more, m, s)
  BY DEF ReadTo, HeaderRead, TurnsRead, LastRead

(* A file that grows, or is cut, keeps the cursors it fits.                 *)
LEMMA FitsKept ==
    ASSUME NEW f \in RolloutShape, NEW g \in RolloutShape, NEW c \in CursorShape, NEW s, CursorFits(c, f, s), g.ino = f.ino,
           \/ ~f.cut /\ Length(f) <= Length(g) /\ \A j \in 1..Len(f.recs) : g.recs[j] = f.recs[j]
           \/ g.cut /\ Length(g) <= Length(f) /\ \A j \in 1..Len(g.recs) : g.recs[j] = f.recs[j]
    PROVE  CursorFits(c, g, s)
<1>1. c.at \in Nat /\ Length(f) \in Nat /\ Length(g) \in Nat /\ Len(f.recs) \in Nat /\ Len(g.recs) \in Nat
      /\ Length(f) <= 2 * Len(f.recs) + 1 /\ Length(g) <= 2 * Len(g.recs) + 1
  BY LengthIs DEF CursorShape
<1>2. PICK m \in Nat : m = c.at \div 2 /\ 2 * m <= c.at BY <1>1, HalfIs
<1>4. ASSUME c.ino = g.ino, c.at <= Length(g) PROVE ReadTo(c, g.recs, c.at \div 2, s)
  <2>2. ReadTo(c, f.recs, m, s) BY <1>2, <1>4, <1>1 DEF CursorFits
  <2>3. m <= Len(f.recs) /\ m <= Len(g.recs) BY <1>1, <1>2, <1>4 DEF CursorFits
  <2>4. \A j \in 1..m : g.recs[j] = f.recs[j] BY <1>1, <2>3
  <2> QED BY <1>2, <2>2, <2>4, ReadPrefix
<1> QED BY <1>1, <1>4 DEF CursorFits

LEMMA NextIsRec ==
    ASSUME NEW f \in RolloutShape, NEW r \in NextRecords(f)
    PROVE  /\ r \in RolloutRec
           /\ r.kind = "meta" => f.recs = <<>>
           /\ r.kind = "start" => OpenTurns(f) = {}
           /\ r.kind \in EndKinds => r.turn \in OpenTurns(f)
<1>1. CASE f.recs = <<>> BY <1>1 DEF NextRecords, RolloutRec, RecordKinds, Digests, EndKinds
<1>2. CASE f.recs # <<>>
  <2>2. OpenTurns(f) \subseteq Nat
    <3>1. ASSUME NEW t \in OpenTurns(f) PROVE t \in Nat
      <4>1. PICK j \in DOMAIN f.recs : f.recs[j].turn = t BY <3>1, StartedTurns DEF OpenTurns
      <4>2. f.recs[j] \in RolloutRec BY LenProperties, <4>1, ElementOfSeq DEF RolloutShape
      <4> QED BY <4>1, <4>2 DEF RolloutRec
    <3> QED BY <3>1
  <2>3. PICK kind \in RecordKinds \ {"meta"}, t \in Nat :
           r = Record(kind, t) /\ (kind = "start" => OpenTurns(f) = {}) /\ (kind \in EndKinds => t \in OpenTurns(f))
    BY <2>2, LenProperties, <1>2 DEF RecordKinds, EndKinds, NextRecords, RolloutShape
  <2> QED BY <2>3 DEF Record, RolloutRec, Digests
<1> QED BY <1>1, <1>2

(* The second file has one record more.                                     *)
OneMore(f, g, n, r) ==
    /\ n \in Nat /\ DOMAIN f.recs = 1..n /\ DOMAIN g.recs = 1..(n + 1) /\ g.recs[n + 1] = r
    /\ \A j \in 1..n : g.recs[j] = f.recs[j]

LEMMA AppendOpens ==
    ASSUME NEW f, NEW g, NEW n, NEW r, OneMore(f, g, n, r), NEW u \in OpenTurns(g)
    PROVE  /\ u \in OpenTurns(f) \/ (r.kind = "start" /\ u = r.turn)
           /\ r.kind \in EndKinds => u # r.turn
  BY StartedTurns DEF OneMore, OpenTurns, Ends, EndKinds

WithRecord(f, r, no) == [f EXCEPT !.recs = Append(@, r), !.half = no]
CutBack(f, yes, no) == [f EXCEPT !.recs = Front(@), !.half = no, !.cut = yes]

(* A file grows, or is cut back, by the rules.                              *)
GrowsTo(f, g) ==
    /\ g \in RolloutShape /\ WellWritten(g) /\ g.ino = f.ino
    /\ Length(f) <= Length(g) /\ \A j \in 1..Len(f.recs) : g.recs[j] = f.recs[j]
CutsTo(f, g) ==
    /\ g \in RolloutShape /\ WellWritten(g) /\ g.ino = f.ino /\ g.cut
    /\ Length(g) <= Length(f) /\ \A j \in 1..Len(g.recs) : g.recs[j] = f.recs[j]

LEMMA FileGrows ==
    ASSUME NEW f \in RolloutShape, WellWritten(f), ~f.cut, NEW r \in NextRecords(f), NEW no \in BOOLEAN, no = FALSE,
           f.half, NEW g, g = WithRecord(f, r, no)
    PROVE  GrowsTo(f, g)
<1>1. PICK n : n = Len(f.recs) OBVIOUS
<1>2. f.recs \in Seq(RolloutRec) /\ n \in Nat /\ DOMAIN f.recs = 1..n BY <1>1, LengthIs DEF RolloutShape
<1>3. /\ r \in RolloutRec /\ (r.kind = "meta" => f.recs = <<>>)
      /\ r.kind = "start" => OpenTurns(f) = {}
      /\ r.kind \in EndKinds => r.turn \in OpenTurns(f)
  BY NextIsRec
<1>4. PICK rs : rs = Append(f.recs, r) OBVIOUS
<1>5. /\ rs \in Seq(RolloutRec) /\ Len(rs) = n + 1 /\ DOMAIN rs = 1..(n + 1) /\ rs[n + 1] = r
      /\ \A j \in 1..n : rs[j] = f.recs[j]
  BY <1>1, <1>2, <1>3, <1>4, AppendProperties, LenProperties
<1>7. g \in RolloutShape /\ g.ino = f.ino /\ g.recs = rs /\ g.half = no /\ g.cut = f.cut
  BY <1>5, <1>4 DEF RolloutShape, WithRecord
<1>11. ASSUME NEW j \in 1..(n + 1), rs[j].kind \in EndKinds
       PROVE  /\ j > 1
              /\ \/ rs[j - 1].kind = "rollback"
                 \/ rs[j - 1].kind = "start" /\ rs[j - 1].turn = rs[j].turn
  <2>1. CASE j = n + 1 BY <1>3, <1>5, <1>11, <2>1, StartedTurns, <1>2, <1>1 DEF OpenTurns, Last, WellWritten
  <2>2. CASE j \in 1..n BY <1>2, <2>2, <1>5, <1>11 DEF WellWritten
  <2> QED BY <1>2, <2>1, <2>2
<1>12. ASSUME NEW u \in OpenTurns(g)
       PROVE  /\ u \in OpenTurns(f) \/ (r.kind = "start" /\ u = r.turn)
              /\ r.kind \in EndKinds => u # r.turn
  <2>1. OneMore(f, g, n, r) BY <1>2, <1>5, <1>7 DEF OneMore
  <2> QED BY <1>12, <2>1, AppendOpens
<1>14. r.kind = "start" => \A u \in OpenTurns(g) : u = r.turn BY <1>3, <1>12
<1>15. r.kind = "meta" => OpenTurns(g) = {} BY EmptySeq, StartedTurns, <1>3, <1>12 DEF OpenTurns
<1>16. r.kind = "rollback" => OpenTurns(g) \subseteq OpenTurns(f) BY <1>12
<1>17. r.kind \in EndKinds \cup {"start", "meta", "rollback"} BY <1>3 DEF RolloutRec, RecordKinds
<1>18. /\ \A t, u \in OpenTurns(g) : t = u
       /\ \A t \in OpenTurns(g) : \/ Last(g.recs).kind = "rollback"
                                  \/ Last(g.recs).kind = "start" /\ Last(g.recs).turn = t
  BY <1>3, <1>12, <1>15, <1>5, <1>7, <1>14, <1>16, <1>17 DEF Last, EndKinds, WellWritten
<1>19. WellWritten(g) BY <1>5, <1>7, <1>11, <1>18 DEF WellWritten
<1> QED BY <1>1, <1>5, <1>7, <1>2, <1>19 DEF GrowsTo, Length

LEMMA FileCut ==
    ASSUME NEW f \in RolloutShape, WellWritten(f), f.recs # <<>>, NEW no \in BOOLEAN, no = FALSE, NEW yes \in BOOLEAN, yes = TRUE,
           NEW g, g = CutBack(f, yes, no)
    PROVE  CutsTo(f, g)
<1>1. PICK n : n = Len(f.recs) OBVIOUS
<1>2. f.recs \in Seq(RolloutRec) /\ n \in Nat /\ DOMAIN f.recs = 1..n /\ n # 0
  BY <1>1, LengthIs, EmptySeq DEF RolloutShape
<1>3. PICK rs : rs = Front(f.recs) OBVIOUS
<1>4. rs \in Seq(RolloutRec) /\ Len(rs) = n - 1 /\ \A j \in 1..(n - 1) : rs[j] = f.recs[j]
  BY <1>2, <1>1, <1>3, SubSeqProperties DEF Front
<1>6. g \in RolloutShape /\ g.ino = f.ino /\ g.recs = rs /\ g.half = no /\ g.cut = yes
  BY <1>4, <1>3 DEF RolloutShape, CutBack
<1>8. Length(g) <= Length(f)
  <2>1. Length(g) = 2 * (n - 1) BY <1>2, <1>4, <1>6 DEF Length
  <2> QED BY <1>2, <2>1, <1>1, LengthIs
<1>9. ASSUME NEW j \in 1..(n - 1), rs[j].kind \in EndKinds
      PROVE  /\ j > 1
             /\ \/ rs[j - 1].kind = "rollback"
                \/ rs[j - 1].kind = "start" /\ rs[j - 1].turn = rs[j].turn
  <2>4. rs[j - 1] = f.recs[j - 1] BY <1>4, <1>2, <1>9 DEF WellWritten
  <2> QED BY <1>2, <1>4, <1>9, <2>4 DEF WellWritten
<1>10. WellWritten(g) BY <1>6, <1>4, LenProperties, <1>9 DEF WellWritten
<1> QED BY <1>4, <1>6, <1>8, <1>10 DEF CutsTo

LEMMA DiskMoves ==
    ASSUME ResyncInv, NEW p \in RolloutFile, NEW g \in RolloutShape, WellWritten(g), disk' = [disk EXCEPT ![p] = g],
           \A c \in CursorShape, s \in Digests : CursorFits(c, disk[p], s) => CursorFits(c, g, s),
           codexOpen' \in SUBSET RolloutFile, IsFiniteSet(codexOpen'), UNCHANGED <<readers, reading>>
    PROVE  ResyncInv'
  BY DEF ResyncInv, ResyncTypes, ReaderKey, Digests

LEMMA ReadersMove ==
    ASSUME ResyncInv, UNCHANGED diskVars,
           DOMAIN readers' \subseteq ReaderKey, readers' = [k \in DOMAIN readers' |-> readers'[k]],
           \A k \in DOMAIN readers' : readers'[k] \in CursorShape /\ CursorFits(readers'[k], disk[k[1]], k[2]),
           reading'.todo \in Seq(RootLocator), reading'.roots \in SUBSET RolloutFile, reading'.truth,
           \A i \in DOMAIN reading'.todo : <<reading'.todo[i].path, reading'.todo[i].session>> \in DOMAIN readers'
    PROVE  ResyncInv'
  BY DEF diskVars, ResyncInv, ResyncTypes

LEMMA NewCursorFits ==
    ASSUME NEW f \in RolloutShape, NEW s, NEW c, c = NewCursor(f.ino)
    PROVE  c \in CursorShape /\ c.ino = f.ino /\ CursorFits(c, f, s)
<1>0. PICK no \in BOOLEAN : no = FALSE OBVIOUS
<1>1. PICK i \in Nat : i = f.ino BY DEF RolloutShape
<1>4. 0 <= Length(f)
  <2>1. PICK n : n = Len(f.recs) OBVIOUS
  <2> QED BY <2>1, LengthIs
<1> QED BY <1>1, <1>0, <1>4 DEF CursorFits, ReadTo, HeaderRead, TurnsRead, LastRead, CursorShape, NewCursor

LEMMA ListOf ==
    ASSUME NEW S, IsFiniteSet(S)
    PROVE  \E n \in Nat : SetToSeq(S) \in [1..n -> S]
  BY FS_CardinalityType DEF ExistsBijection, Bijection, Injection, IsInjective, SetToSeq

(* The locators of a set of roots.                                          *)
Located(S, need) == [i \in DOMAIN SetToSeq(S) |-> Locator(SetToSeq(S)[i], need)]
LocatesNow(todo) == todo \in Seq(RootLocator) /\ \A i \in DOMAIN todo : todo[i].ino = disk[todo[i].path].ino

LEMMA LocatorIs ==
    ASSUME ResyncTypes, NEW p \in RolloutFile, disk[p].recs # <<>>, NEW need \in {"warm", "idle", "quiet"},
           NEW e, e = Locator(p, need)
    PROVE  e \in RootLocator /\ e.ino = disk[p].ino /\ e.path = p /\ e.session = Header(p).session /\ e.need = need
<1>3. disk[p].recs[1] \in RolloutRec BY LenProperties, EmptySeq, ElementOfSeq DEF RolloutShape, ResyncTypes
<1> QED BY <1>3 DEF Locator, RootLocator, Header, RolloutRec, RolloutShape, ResyncTypes

LEMMA LocatedIs ==
    ASSUME ResyncTypes, NEW S, S \subseteq RolloutFile, IsFiniteSet(S), \A p \in S : disk[p].recs # <<>>,
           NEW need \in {"warm", "idle", "quiet"}
    PROVE  LocatesNow(Located(S, need))
  BY ListOf, LocatorIs, SeqDef DEF Located, LocatesNow

(* The cursors kept for a list of roots, and those begun.                   *)
RetainedWell(R, todo) ==
    /\ DOMAIN R \subseteq ReaderKey /\ R = [k \in DOMAIN R |-> R[k]]
    /\ \A k \in DOMAIN R : R[k] \in CursorShape /\ CursorFits(R[k], disk[k[1]], k[2])
    /\ \A i \in DOMAIN todo : <<todo[i].path, todo[i].session>> \in DOMAIN R

LEMMA Retained ==
    ASSUME ResyncInv, NEW todo, LocatesNow(todo)
    PROVE  RetainedWell(retain_roots(todo), todo)
<1> DEFINE K == {<<e.path, e.session>> : e \in ToSet(todo)}
           now == [k \in K |-> CHOOSE e \in ToSet(todo) : <<e.path, e.session>> = k]
           R == [k \in K |-> IF k \in DOMAIN readers /\ readers[k].ino = now[k].ino THEN readers[k]
                             ELSE NewCursor(now[k].ino)]
<1>1. retain_roots(todo) = R BY DEF retain_roots
<1>2. ASSUME NEW e \in ToSet(todo) PROVE e \in RootLocator /\ e.ino = disk[e.path].ino
  BY ElementOfSeq, LenProperties DEF ToSet, LocatesNow
<1>3. ResyncTypes BY DEF ResyncInv
<1>4. ASSUME NEW k \in K
      PROVE  k \in ReaderKey /\ R[k] \in CursorShape /\ CursorFits(R[k], disk[k[1]], k[2])
  <2>2. PICK e \in ToSet(todo) : e = now[k] /\ <<e.path, e.session>> = k OBVIOUS
  <2>3. e.path \in RolloutFile /\ e.session \in Digests /\ e.ino = disk[e.path].ino BY <1>2, <2>2 DEF RootLocator
  <2>4. k \in ReaderKey /\ k[1] = e.path /\ k[2] = e.session BY <2>2, <2>3 DEF ReaderKey, Digests
  <2>5. R[k] = IF k \in DOMAIN readers /\ readers[k].ino = e.ino THEN readers[k] ELSE NewCursor(e.ino) BY <2>2
  <2> HIDE DEF R, now, K
  <2>6. CASE k \in DOMAIN readers /\ readers[k].ino = e.ino BY <1>3, <2>4, <2>5, <2>6 DEF ResyncInv, ResyncTypes
  <2>7. CASE ~(k \in DOMAIN readers /\ readers[k].ino = e.ino)
    BY <1>3, <2>3, NewCursorFits, <2>5, <2>7, <2>4 DEF ResyncTypes
  <2> QED BY <2>6, <2>7
<1>5. \A i \in DOMAIN todo : <<todo[i].path, todo[i].session>> \in K BY DEF ToSet
<1>6. DOMAIN R = K /\ R = [k \in K |-> R[k]] OBVIOUS
<1> HIDE DEF R, now, K
<1> QED BY <1>1, <1>4, <1>5, <1>6 DEF RetainedWell

LEMMA WritesKeeps == ASSUME ResyncInv, Writes PROVE ResyncInv'
<1>0. ResyncTypes /\ disk \in [RolloutFile -> RolloutShape] BY DEF ResyncInv, ResyncTypes
<1>1. UNCHANGED <<codexOpen, owner, readers, reading>> BY DEF Writes
<1>2. PICK p \in codexOpen :
        /\ ~disk[p].cut
        /\ \/ ~disk[p].half /\ disk' = [disk EXCEPT ![p].half = TRUE]
           \/ /\ disk[p].half
              /\ \E r \in NextRecords(disk[p]) :
                     disk' = [disk EXCEPT ![p].recs = Append(@, r), ![p].half = FALSE]
  BY DEF Writes
<1>3. p \in RolloutFile /\ codexOpen' \in SUBSET RolloutFile /\ IsFiniteSet(codexOpen')
  BY <1>0, <1>1 DEF ResyncTypes
<1>4. PICK f \in RolloutShape : f = disk[p] BY <1>0, <1>3
<1>5. WellWritten(f) /\ ~f.cut BY <1>2, <1>3, <1>4 DEF ResyncInv
<1>6. PICK yes \in BOOLEAN, no \in BOOLEAN : yes = TRUE /\ no = FALSE OBVIOUS
<1>7. CASE ~f.half /\ disk' = [disk EXCEPT ![p].half = TRUE]
  <2>1. PICK g : g = [f EXCEPT !.half = yes] OBVIOUS
  <2>2. disk' = [disk EXCEPT ![p] = g] BY <1>0, <1>3, <1>4, <1>6, <1>7, <2>1
  <2>3. g \in RolloutShape /\ g.recs = f.recs /\ g.ino = f.ino /\ g.cut = f.cut /\ g.half
    BY <1>6, <2>1 DEF RolloutShape
  <2>4. WellWritten(g) BY <2>3, <1>5 DEF OpenTurns, TurnsOf, Ends, WellWritten
  <2>6. \A c \in CursorShape, s \in Digests : CursorFits(c, f, s) => CursorFits(c, g, s)
    BY <1>5, <2>3, LengthIs, <1>7, FitsKept DEF Length
  <2> QED BY <1>1, <1>3, <1>4, <2>2, <2>3, <2>4, <2>6, DiskMoves
<1>8. ASSUME f.half, NEW r \in NextRecords(f), disk' = [disk EXCEPT ![p].recs = Append(@, r), ![p].half = FALSE]
      PROVE  ResyncInv'
  <2>1. PICK g : g = WithRecord(f, r, no) OBVIOUS
  <2>2. disk' = [disk EXCEPT ![p] = g] BY <1>0, <1>3, <1>4, <1>6, <1>8, <2>1 DEF WithRecord
  <2>3. /\ g \in RolloutShape /\ WellWritten(g) /\ g.ino = f.ino
        /\ Length(f) <= Length(g) /\ \A j \in 1..Len(f.recs) : g.recs[j] = f.recs[j]
    <3>1. GrowsTo(f, g) BY <1>5, <1>6, <1>8, <2>1, FileGrows
    <3> QED BY <3>1 DEF GrowsTo
  <2> QED BY <1>1, <1>3, <1>4, <2>2, <2>3, <1>5, FitsKept, DiskMoves
<1> QED BY <1>2, <1>4, <1>7, <1>8

LEMMA DiskKeeps == ASSUME ResyncInv, DiskChanges PROVE ResyncInv'
<1>0. ResyncTypes /\ disk \in [RolloutFile -> RolloutShape] /\ codexOpen \in SUBSET RolloutFile /\ IsFiniteSet(codexOpen)
  BY DEF ResyncInv, ResyncTypes
<1>1. UNCHANGED <<readers, reading>> BY DEF DiskChanges
<1>2. CASE UNCHANGED disk /\ codexOpen' \subseteq codexOpen
  BY <1>0, <1>2, FS_Subset, <1>1 DEF ResyncInv, ResyncTypes
<1>3. ASSUME NEW p \in RolloutFile, disk' = [disk EXCEPT ![p] = [NoFile EXCEPT !.ino = disk[p].ino + 1]],
             codexOpen' = codexOpen \cup {p}
      PROVE  ResyncInv'
  <2>1. PICK f \in RolloutShape : f = disk[p] BY <1>0
  <2>2. PICK no \in BOOLEAN, i \in Nat : no = FALSE /\ i = f.ino + 1
    <3>1. f.ino + 1 \in Nat /\ FALSE \in BOOLEAN BY DEF RolloutShape
    <3> QED BY <3>1
  <2>3. PICK g : g = [NoFile EXCEPT !.ino = disk[p].ino + 1] OBVIOUS
  <2>4. g = [ino |-> i, recs |-> <<>>, half |-> no, cut |-> no] BY <2>1, <2>2, <2>3 DEF NoFile
  <2>5. g \in RolloutShape /\ g.ino = f.ino + 1 /\ g.recs = <<>> BY <2>2, <2>4 DEF RolloutShape
  <2>6. WellWritten(g) BY <2>5, StartedTurns DEF OpenTurns, WellWritten
  <2>7. \A c \in CursorShape, s \in Digests : CursorFits(c, f, s) => CursorFits(c, g, s)
    BY <2>5 DEF CursorFits, CursorShape, RolloutShape
  <2>8. codexOpen' \in SUBSET RolloutFile /\ IsFiniteSet(codexOpen') BY <1>0, <1>3, FS_AddElement
  <2> QED BY <1>1, <2>1, <2>5, <2>6, <2>7, <2>8, <1>3, <2>3, DiskMoves
<1>4. ASSUME NEW p \in RolloutFile, disk[p].recs # <<>>, UNCHANGED <<codexOpen, owner>>,
             disk' = [disk EXCEPT ![p].recs = Front(@), ![p].half = FALSE, ![p].cut = TRUE]
      PROVE  ResyncInv'
  <2>1. PICK f \in RolloutShape : f = disk[p] BY <1>0
  <2>2. PICK yes \in BOOLEAN, no \in BOOLEAN : yes = TRUE /\ no = FALSE OBVIOUS
  <2>3. PICK g : g = CutBack(f, yes, no) OBVIOUS
  <2>4. disk' = [disk EXCEPT ![p] = g] BY <1>0, <1>4, <2>1, <2>2, <2>3 DEF CutBack
  <2>6. /\ g \in RolloutShape /\ WellWritten(g) /\ g.ino = f.ino /\ g.cut
        /\ Length(g) <= Length(f) /\ \A j \in 1..Len(g.recs) : g.recs[j] = f.recs[j]
    <3>2. CutsTo(f, g) BY <2>2, <2>3, <2>1, <1>4, FileCut DEF ResyncInv
    <3> QED BY <3>2 DEF CutsTo
  <2> QED BY <1>1, <2>1, <2>4, <2>6, FitsKept, <1>0, <1>4, DiskMoves
<1> QED BY <1>2, <1>3, <1>4 DEF DiskChanges

LEMMA PollKeeps == ASSUME ResyncInv, poll PROVE ResyncInv'
<1>0. ResyncTypes /\ codexOpen \in SUBSET RolloutFile /\ IsFiniteSet(codexOpen) BY DEF ResyncInv, ResyncTypes
<1>1. PICK roots : roots = IF roots_from_paths(codexOpen) THEN RootPaths(codexOpen) ELSE {} OBVIOUS
<1>2. PICK todo : todo = Located(roots, "warm") OBVIOUS
<1>3. /\ readers' = IF roots_from_paths(codexOpen) THEN retain_roots(todo) ELSE readers
      /\ reading' = [NoReading EXCEPT !.kind = "poll", !.roots = codexOpen, !.todo = todo]
      /\ UNCHANGED diskVars
  BY <1>1, <1>2 DEF poll, Located
<1>5. LocatesNow(todo) BY <1>0, <1>2, <1>1, FS_Subset, LocatedIs DEF RootPaths, roots_from_paths, HeadersKnown
<1>8. CASE roots_from_paths(codexOpen)
  BY <1>3, <1>5, <1>8, Retained, <1>0, ReadersMove DEF RetainedWell, NoReading, LocatesNow
<1>9. CASE ~roots_from_paths(codexOpen)
  <2>2. DOMAIN todo = {} BY FS_EmptySet, ListOf, <1>2, <1>1, <1>3, <1>9 DEF Located
  <2>3. /\ DOMAIN readers \subseteq ReaderKey /\ readers = [k \in DOMAIN readers |-> readers[k]]
        /\ \A k \in DOMAIN readers : readers[k] \in CursorShape /\ CursorFits(readers[k], disk[k[1]], k[2])
    BY DEF ResyncInv, ResyncTypes
  <2> QED BY <1>0, <1>3, <1>5, <1>1, <1>9, <2>2, <2>3, ReadersMove DEF NoReading, LocatesNow
<1> QED BY <1>8, <1>9

LEMMA PromptKeeps == ASSUME ResyncInv, verify_prompt_roots PROVE ResyncInv'
<1>1. PICK roots : roots = RootPaths(codexOpen) OBVIOUS
<1>2. PICK todo : todo = Located(roots, "quiet") OBVIOUS
<1>3. /\ UNCHANGED diskVars
      /\ \/ UNCHANGED <<readers, reading>>
         \/ /\ roots_from_paths(codexOpen) /\ readers' = retain_roots(todo)
            /\ reading' = [NoReading EXCEPT !.kind = "prompt", !.roots = roots, !.todo = todo]
  BY <1>1, <1>2 DEF verify_prompt_roots, Located
<1>4. CASE UNCHANGED <<readers, reading>> BY <1>3, <1>4 DEF diskVars, ResyncInv, ResyncTypes
<1>5. CASE /\ roots_from_paths(codexOpen) /\ readers' = retain_roots(todo)
           /\ reading' = [NoReading EXCEPT !.kind = "prompt", !.roots = roots, !.todo = todo]
  <2>1. roots \subseteq codexOpen /\ \A p \in roots : disk[p].recs # <<>>
    BY <1>1, <1>5 DEF RootPaths, roots_from_paths, HeadersKnown
  <2>2. IsFiniteSet(roots) /\ roots \subseteq RolloutFile BY <2>1, FS_Subset DEF ResyncInv, ResyncTypes
  <2>3. LocatesNow(todo) BY <1>2, <2>1, <2>2, LocatedIs DEF ResyncInv, ResyncTypes
  <2>4. PICK R : R = retain_roots(todo) OBVIOUS
  <2> QED BY <1>3, <2>2, <1>5, <2>3, <2>4, Retained, ReadersMove DEF RetainedWell, NoReading, LocatesNow
<1> QED BY <1>3, <1>4, <1>5

LocatedAt(p) ==
    LET e == Locator(p, "idle")
        k == <<p, e.session>>
    IN /\ reading' = [reading EXCEPT !.kind = "session", !.todo = <<e>>]
       /\ readers' = [j \in DOMAIN readers \cup {k} |->
              IF j = k /\ (k \notin DOMAIN readers \/ readers[k].ino # e.ino)
              THEN NewCursor(e.ino) ELSE readers[j]]

LEMMA LocatorKeeps == ASSUME ResyncInv, locator_from_paths PROVE ResyncInv'
<1>0. ResyncTypes /\ reading.roots \in SUBSET RolloutFile BY DEF ResyncInv, ResyncTypes
<1>2. CASE owner = 1 /\ session_locator(reading.roots)
  <2>1. PICK p : p = CHOOSE q \in RootPaths(reading.roots) : Header(q).session = Canonical OBVIOUS
  <2>3. PICK e : e = Locator(p, "idle") OBVIOUS
  <2>4. p \in RolloutFile /\ e \in RootLocator /\ e.ino = disk[p].ino /\ e.path = p
    BY <1>0, <1>2, <2>1, <2>3, LocatorIs DEF session_locator, HeadersKnown, RootPaths
  <2>5. PICK k : k = <<p, e.session>> OBVIOUS
  <2>6. k \in ReaderKey /\ k[1] = p BY <2>4, <2>5 DEF RootLocator, ReaderKey, Digests
  <2>7. /\ reading' = [reading EXCEPT !.kind = "session", !.todo = <<e>>]
        /\ readers' = [j \in DOMAIN readers \cup {k} |->
                      IF j = k /\ (k \notin DOMAIN readers \/ readers[k].ino # e.ino)
                      THEN NewCursor(e.ino) ELSE readers[j]]
    <3>1. LocatedAt(CHOOSE q \in RootPaths(reading.roots) : Header(q).session = Canonical)
      BY <1>2 DEF locator_from_paths, LocatedAt
    <3>2. LocatedAt(p) BY <2>1, <3>1, Zenon
    <3> QED BY <2>3, <2>5, <3>2 DEF LocatedAt
  <2>8. /\ DOMAIN readers \subseteq ReaderKey
        /\ \A j \in DOMAIN readers : readers[j] \in CursorShape /\ CursorFits(readers[j], disk[j[1]], j[2])
        /\ reading.truth
    BY DEF ResyncInv, ResyncTypes
  <2>9. DOMAIN readers' = DOMAIN readers \cup {k} /\ DOMAIN readers' \subseteq ReaderKey
        /\ readers' = [j \in DOMAIN readers' |-> readers'[j]]
    BY <2>6, <2>7, <2>8
  <2>10. ASSUME NEW j \in DOMAIN readers' PROVE readers'[j] \in CursorShape /\ CursorFits(readers'[j], disk[j[1]], j[2])
    <3>1. CASE j = k /\ (k \notin DOMAIN readers \/ readers[k].ino # e.ino)
      BY <1>0, <2>4, NewCursorFits, <2>7, <2>9, <3>1, <2>6 DEF ResyncTypes
    <3>2. CASE ~(j = k /\ (k \notin DOMAIN readers \/ readers[k].ino # e.ino)) BY <2>7, <2>9, <3>2, <2>8
    <3> QED BY <3>1, <3>2
  <2>11. reading'.todo = <<e>> /\ reading'.roots = reading.roots /\ reading'.truth = reading.truth BY <2>7
  <2>13. \A i \in DOMAIN reading'.todo : <<reading'.todo[i].path, reading'.todo[i].session>> \in DOMAIN readers'
    BY <2>4, <2>5, <2>9, <2>11
  <2> QED BY <1>0, <2>8, <2>9, <2>10, <2>11, <2>4, <2>13, ReadersMove DEF locator_from_paths
<1>3. CASE ~(owner = 1 /\ session_locator(reading.roots))
  <2>2. reading'.todo = <<>> /\ reading'.roots = {} /\ reading'.truth /\ DOMAIN reading'.todo = {}
    BY <1>3 DEF NoReading, locator_from_paths
  <2>3. <<>> \in Seq(RootLocator) OBVIOUS
  <2>4. /\ DOMAIN readers \subseteq ReaderKey /\ readers = [j \in DOMAIN readers |-> readers[j]]
        /\ \A j \in DOMAIN readers : readers[j] \in CursorShape /\ CursorFits(readers[j], disk[j[1]], j[2])
    BY DEF ResyncInv, ResyncTypes
  <2> QED BY <1>3, <2>2, <2>3, <2>4, ReadersMove DEF locator_from_paths
<1> QED BY <1>2, <1>3

LEMMA BrokenFits ==
    ASSUME NEW c \in CursorShape, NEW f, NEW s, CursorFits(c, f, s), NEW d, d = Broken(c)
    PROVE  d \in CursorShape /\ CursorFits(d, f, s) /\ d.unknown /\ d.at = c.at
  BY DEF Broken, CursorShape, CursorFits, ReadTo

(* What the head of the list of roots is.                                   *)
HeadOf(e, k, c, f) ==
    /\ e = Head(reading.todo) /\ k = <<e.path, e.session>> /\ c = readers[k] /\ f = disk[e.path]
    /\ e \in RootLocator /\ k \in DOMAIN readers /\ k[1] = e.path /\ k[2] = e.session
    /\ c \in CursorShape /\ f \in RolloutShape /\ WellWritten(f) /\ CursorFits(c, f, e.session)

LEMMA HeadIs ==
    ASSUME ResyncInv, reading.todo # <<>>
    PROVE  \E e, k, c, f : HeadOf(e, k, c, f)
<1>0. ResyncTypes BY DEF ResyncInv
<1>1. PICK e : e = Head(reading.todo) OBVIOUS
<1>2. reading.todo \in Seq(RootLocator) /\ 1 \in DOMAIN reading.todo /\ e = reading.todo[1] /\ e \in RootLocator
  BY <1>0, EmptySeq, LenProperties, <1>1, ElementOfSeq DEF ResyncTypes
<1>3. PICK k : k = <<e.path, e.session>> OBVIOUS
<1>5. PICK c : c = readers[k] OBVIOUS
<1>6. PICK f : f = disk[e.path] OBVIOUS
<1> QED BY <1>1, <1>2, <1>3, <1>5, <1>6, <1>0 DEF HeadOf, ResyncInv, ResyncTypes, RootLocator

(* One cursor moves.                                                        *)
LEMMA CursorMoves ==
    ASSUME ResyncInv, UNCHANGED diskVars, NEW e, NEW k, NEW c, NEW f, HeadOf(e, k, c, f),
           NEW d \in CursorShape, CursorFits(d, f, e.session), readers' = [readers EXCEPT ![k] = d],
           reading'.todo \in Seq(RootLocator), reading'.roots \in SUBSET RolloutFile, reading'.truth,
           \A i \in DOMAIN reading'.todo : <<reading'.todo[i].path, reading'.todo[i].session>> \in DOMAIN readers
    PROVE  ResyncInv'
  BY ReadersMove DEF ResyncInv, ResyncTypes, HeadOf

LEMMA SliceKeeps == ASSUME ResyncInv, ReadSlice PROVE ResyncInv'
<1>1. reading.todo # <<>> /\ UNCHANGED diskVars /\ reading' = [reading EXCEPT !.stat = TRUE] BY DEF ReadSlice
<1>2. PICK e, k, c, f : HeadOf(e, k, c, f) BY <1>1, HeadIs
<1>4. reading'.todo = reading.todo /\ reading'.roots = reading.roots /\ reading'.truth = reading.truth BY <1>1
<1>6. c \in CursorShape /\ f \in RolloutShape /\ CursorFits(c, f, e.session) /\ c = readers[k] /\ k \in DOMAIN readers
  BY <1>2 DEF HeadOf
<1>7. ASSUME NEW d \in CursorShape, CursorFits(d, f, e.session), readers' = [readers EXCEPT ![k] = d] PROVE ResyncInv'
  BY <1>1, <1>2, <1>4, <1>7, CursorMoves DEF ResyncInv, ResyncTypes
<1>8. CASE readers' = [readers EXCEPT ![k] = Broken(@)] BY <1>6, <1>8, BrokenFits, <1>7
<1>9. CASE ~c.unknown /\ matches_current_file(c, f)
           /\ \E to \in c.at..Length(f) : readers' = [readers EXCEPT ![k] = feed(@, f, to, e.session)]
  <2>1. PICK to \in c.at..Length(f) : readers' = [readers EXCEPT ![k] = feed(@, f, to, e.session)] BY <1>9
  <2>2. PICK d : d = feed(c, f, to, e.session) OBVIOUS
  <2>3. readers' = [readers EXCEPT ![k] = d]
    <3>1. readers' = [readers EXCEPT ![k] = feed(readers[k], f, to, e.session)] BY <2>1, Zenon
    <3>2. feed(readers[k], f, to, e.session) = d BY <1>6, <2>2, Zenon
    <3> QED BY <3>1, <3>2
  <2>4. Length(f) \in Nat /\ c.at \in Nat /\ to \in Nat /\ c.at <= to /\ to <= Length(f)
    <3>1. Length(f) \in Nat BY <1>6, LengthIs
    <3> QED BY <3>1, <1>6 DEF CursorShape
  <2>5. c.ino = f.ino /\ ReadTo(c, f.recs, c.at \div 2, e.session)
    BY <1>6, <1>9, <2>4 DEF matches_current_file, CursorFits
  <2>6. d \in CursorShape /\ d.ino = c.ino /\ d.at = to /\ ReadTo(d, f.recs, to \div 2, e.session)
    BY <1>6, <2>2, <2>4, <2>5, FeedIs
  <2> QED BY <1>7, <2>3, <2>6, <1>6, <2>5, <2>4 DEF RolloutShape, CursorFits
<1> QED BY <1>2, <1>8, <1>9 DEF ReadSlice, HeadOf

LEMMA StatKeeps == ASSUME ResyncInv, ReadStat PROVE ResyncInv'
<1>1. reading.todo # <<>> /\ UNCHANGED diskVars BY DEF ReadStat
<1>2. PICK e, k, b, f : HeadOf(e, k, b, f) BY <1>1, HeadIs
<1>3. PICK c : c = IF matches_current_file(b, f) THEN b ELSE Broken(b) OBVIOUS
<1>4. PICK good \in BOOLEAN : good <=> (Quiet(f, e.session) /\ (e.need = "idle" => CompletedLast(f))) OBVIOUS
<1>5. /\ readers' = [readers EXCEPT ![k] = c]
      /\ \/ reading' = [reading EXCEPT !.stat = FALSE]
         \/ reading' = [reading EXCEPT !.stat = FALSE, !.todo = Tail(reading.todo)]
         \/ reading' = NoReading
         \/ /\ c.at = Length(f) /\ c.at % 2 = 0 /\ (IF e.need = "idle" THEN idle(c) ELSE quiescent(c))
            /\ reading' = [reading EXCEPT !.stat = FALSE, !.todo = Tail(reading.todo), !.verdict = TRUE,
                              !.truth = @ /\ (Quiet(f, e.session) /\ (e.need = "idle" => CompletedLast(f)))]
  BY <1>2, <1>3 DEF ReadStat, HeadOf
<1>6. /\ reading.todo \in Seq(RootLocator) /\ reading.roots \in SUBSET RolloutFile /\ reading.truth
      /\ \A i \in DOMAIN reading.todo : <<reading.todo[i].path, reading.todo[i].session>> \in DOMAIN readers
  BY DEF ResyncInv, ResyncTypes
<1>7. /\ b \in CursorShape /\ f \in RolloutShape /\ WellWritten(f) /\ CursorFits(b, f, e.session)
      /\ b = readers[k] /\ k \in DOMAIN readers
  BY <1>2 DEF HeadOf
<1>8. c \in CursorShape /\ CursorFits(c, f, e.session) /\ (matches_current_file(b, f) => c = b)
      /\ (~matches_current_file(b, f) => c.unknown)
  BY <1>3, <1>7, BrokenFits
<1>9. ASSUME reading'.todo \in Seq(RootLocator), reading'.roots \in SUBSET RolloutFile, reading'.truth,
             \A i \in DOMAIN reading'.todo : <<reading'.todo[i].path, reading'.todo[i].session>> \in DOMAIN readers
      PROVE  ResyncInv'
  BY <1>1, <1>2, <1>5, <1>8, <1>9, CursorMoves
<1>10. PICK rest : rest = Tail(reading.todo) OBVIOUS
<1>11. rest \in Seq(RootLocator) /\ \A i \in DOMAIN rest : <<rest[i].path, rest[i].session>> \in DOMAIN readers
  <2>1. /\ Len(reading.todo) \in Nat /\ DOMAIN reading.todo = 1..Len(reading.todo)
        /\ rest \in Seq(RootLocator) /\ Len(rest) = Len(reading.todo) - 1
        /\ \A i \in 1..(Len(reading.todo) - 1) : rest[i] = reading.todo[i + 1]
    BY <1>1, <1>6, <1>10, HeadTailProperties, LenProperties
  <2>3. ASSUME NEW i \in DOMAIN rest PROVE <<rest[i].path, rest[i].session>> \in DOMAIN readers
    <3>1. rest[i] = reading.todo[i + 1] /\ i + 1 \in DOMAIN reading.todo BY <2>1, LenProperties
    <3> QED BY <1>6, <3>1
  <2> QED BY <2>1, <2>3
<1>12. CASE reading' = [reading EXCEPT !.stat = FALSE] BY <1>12, <1>6, <1>9
<1>13. CASE reading' = [reading EXCEPT !.stat = FALSE, !.todo = Tail(reading.todo)]
  BY <1>10, <1>13, <1>6, <1>9, <1>11
<1>14. CASE reading' = NoReading BY <1>14, <1>9 DEF NoReading
<1>15. CASE /\ c.at = Length(f) /\ c.at % 2 = 0 /\ (IF e.need = "idle" THEN idle(c) ELSE quiescent(c))
            /\ reading' = [reading EXCEPT !.stat = FALSE, !.todo = Tail(reading.todo), !.verdict = TRUE,
                              !.truth = @ /\ (Quiet(f, e.session) /\ (e.need = "idle" => CompletedLast(f)))]
  <2>5. Quiet(f, e.session) /\ (e.need = "idle" => CompletedLast(f))
    BY <1>15, <1>7, <1>8, LengthIs, QuietCursor DEF idle, CursorFits, matches_current_file, CursorShape, quiescent
  <2>7. reading'.truth = (reading.truth /\ (Quiet(f, e.session) /\ (e.need = "idle" => CompletedLast(f)))) BY <1>15
  <2>8. reading'.truth BY <1>6, <2>5, <2>7
  <2> QED BY <1>6, <1>9, <1>11, <1>10, <1>15, <2>8
<1> QED BY <1>5, <1>12, <1>13, <1>14, <1>15

LEMMA ResyncStarts == ASSUME ResyncInit PROVE ResyncInv
  BY FS_EmptySet DEF ResyncInit, NoReading, NoFile, RolloutShape, OpenTurns, TurnsOf, WellWritten, ResyncInv,
    ResyncTypes

LEMMA ResyncKeeps == ASSUME ResyncInv, [ResyncNext]_resyncVars PROVE ResyncInv'
<1>1. CASE UNCHANGED resyncVars BY <1>1 DEF resyncVars, ResyncInv, ResyncTypes, WellWritten, CursorFits, OpenTurns
<1>2. CASE VerdictUsed BY <1>2, ReadersMove DEF VerdictUsed, NoReading, ResyncInv, ResyncTypes
<1> QED
  BY <1>1, <1>2, WritesKeeps, DiskKeeps, PollKeeps, LocatorKeeps, PromptKeeps, SliceKeeps, StatKeeps DEF ResyncNext

LEMMA ResyncIsSafe == ASSUME ResyncInv PROVE ResyncSound
<1>2. ASSUME NEW k \in DOMAIN readers, ~readers[k].unknown, readers[k].ino = disk[k[1]].ino, ~disk[k[1]].cut
      PROVE  OpenOf(readers[k]) = OpenTurns([disk[k[1]] EXCEPT !.recs = SubSeq(@, 1, readers[k].at \div 2)])
  <2>1. PICK c \in CursorShape : c = readers[k] BY DEF ResyncInv, ResyncTypes
  <2>2. PICK f \in RolloutShape : f = disk[k[1]] BY DEF ResyncInv, ResyncTypes, ReaderKey
  <2>3. CursorFits(c, f, k[2]) /\ ~c.unknown /\ c.ino = f.ino /\ ~f.cut BY <1>2, <2>1, <2>2 DEF ResyncInv
  <2>5. PICK n \in Nat : n = c.at \div 2 /\ n <= Len(f.recs) BY <2>3, LengthIs, HalfIs DEF CursorFits, CursorShape
  <2>6. PICK g : g = [f EXCEPT !.recs = SubSeq(@, 1, n)] OBVIOUS
  <2>8. OpenOf(c) = OpenTurns(g) BY <2>3, <2>5, <2>6, TrustedOpen DEF CursorFits, RolloutShape
  <2> QED BY <2>1, <2>2, <2>5, <2>6, <2>8
<1>3. CursorIsPrefix BY <1>2, Zenon DEF CursorIsPrefix, OpenOf
<1> QED BY <1>3 DEF ResyncSound, ResyncInv, VerdictHolds

(* Codex resynchronisation never vouches for what it has not read: a session*)
(* is called idle, and a prompt let through, only on files a fresh reading  *)
(* would call closed too, and a cursor that is still trusted has read a     *)
(* prefix of the file it was made for.                                      *)
THEOREM ResyncIsSound == ResyncSpec => []ResyncSound
<1>1. ResyncSpec => []ResyncInv BY ResyncStarts, ResyncKeeps, PTL DEF ResyncSpec
<1> QED BY <1>1, ResyncIsSafe, PTL

-----------------------------------------------------------------------------
(* The parts together.                                                       *)

LEMMA SwitchPart == CoreSpec => PsSpec
<1>1. CoreInit => PsInit BY DEF CoreInit
<1>2. [CoreNext]_coreVars => [PsNext]_psVars BY DEF CoreNext, coreVars, psVars
<1>. QED BY <1>1, <1>2, PTL DEF CoreSpec, PsSpec

LEMMA HooksPart == CoreSpec => VhSpec
<1>1. CoreInit => VhInit BY DEF CoreInit
<1>2. [CoreNext]_coreVars => [VhNext]_vhVars BY DEF coreVars, CoreNext, VhNext
<1>. QED BY <1>1, <1>2, PTL DEF CoreSpec, VhSpec

(* Where a client looks is sound in every state of the daemon: switches, the *)
(* views with their peeks, and the delivery of a change of focus.            *)
THEOREM FocusIsSound == ASSUME NoProxyChains PROVE CoreSpec => []FocusSound
<1>1. CoreSpec => []SwitchesToNeighbour BY SwitchPart, NeighbourSwitches, PTL
<1>2. CoreSpec => []ViewsSound BY ViewsPart, ViewsSoundLemma, PTL
<1>3. CoreSpec => []HooksSound BY HooksPart, HooksKept, PTL
<1>4. SwitchesToNeighbour /\ ViewsSound /\ HooksSound => FocusSound BY DEF FocusSound
<1>. QED BY <1>1, <1>2, <1>3, <1>4, PTL

LEMMA SummaryPart == CoreSpec => SumSpec
<1>1. CoreInit => SumInit
  BY DEF CoreInit
<1>2. [CoreNext]_coreVars => [SumNext]_sumVars
  BY DEF CoreNext, coreVars, sumVars
<1>. QED BY <1>1, <1>2, PTL DEF CoreSpec, SumSpec

LEMMA ResyncPart == CoreSpec => ResyncSpec
<1>1. CoreInit => ResyncInit
  BY DEF CoreInit
<1>2. [CoreNext]_coreVars => [ResyncNext]_resyncVars
  BY DEF CoreNext, coreVars, resyncVars
<1>. QED BY <1>1, <1>2, PTL DEF CoreSpec, ResyncSpec

(* What the daemon's workers do to each other's results in the composed      *)
(* daemon: all of WorkSound but the capture worker.                          *)
THEOREM WorkPartsAreSound == CoreSpec => [](QueueSound /\ SummariesSound /\ ResyncSound)
  BY QueuePart, QueueIsSound, SummaryPart, SummariesAreSound, ResyncPart, ResyncIsSound, PTL
=============================================================================
