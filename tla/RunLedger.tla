------------------------------ MODULE RunLedger ------------------------------
(***************************************************************************)
(* The ledger of Agent Runs of one pane: the run records on disk, the      *)
(* in-memory indexes of AgentRuntime that say which run is current, the    *)
(* pane record the sidebar and the API read, and the handlers that keep    *)
(* the three together: provider hooks, agent session changes, operator     *)
(* completion, and a daemon that may die between two of their writes.      *)
(*                                                                         *)
(* Every handler runs on the one mutation worker and is one action.  It    *)
(* first writes run records and then the pane record, so a crash or a      *)
(* failed pane write leaves a prefix of its writes; the prefixes are       *)
(* explicit outcomes.  The Codex process of the pane stays the same and    *)
(* alive: what changes is its provider session.  Runs are never dropped by *)
(* retention here.  Running, Waiting and Error are one phase, "active":    *)
(* the ledger treats them alike.                                           *)
(***************************************************************************)
EXTENDS Naturals, FiniteSets

CONSTANTS
    Turn,          \* provider turn keys; a turn has at most one run
    NoTurn, NoRun, NoToken, NoPane,
    MaxSess,       \* bound on provider sessions
    MaxEpoch,      \* bound on agent epochs
    MaxHooks,      \* bound on hooks the provider emits
    MaxCrash,      \* bound on daemon crashes
    MaxFault,      \* bound on failed writes of the pane record
    StartsUnbound, \* was the pane discovered by a process scan, before any hook?
    Reorder        \* may hook processes overtake each other?

ASSUME ConstantsAssumption ==
    /\ NoTurn \notin Turn
    /\ MaxSess \in Nat \ {0} /\ MaxEpoch \in Nat \ {0} /\ MaxHooks \in Nat
    /\ MaxCrash \in Nat /\ MaxFault \in Nat
    /\ StartsUnbound \in BOOLEAN /\ Reorder \in BOOLEAN

VARIABLES
    runs,    \* disk: the run of each turn
    pane,    \* disk: the canonical pane record
    current, \* memory: current_by_binding, one run per binding
    latest,  \* memory: current_by_pane
    daemon,  \* "up" or "down"
    token,   \* operator: the recovery precondition it was issued
    agent,   \* external: the provider's session and its latest turn
    turns,   \* external: the session each turn was started in
    hooks,   \* external: hooks on their way to the daemon
    emitted, \* external: how many hooks were emitted
    crashes, faults

ledger  == <<runs, current, latest>>
outside == <<agent, turns, hooks, emitted>>
vars    == <<ledger, pane, daemon, token, outside, crashes, faults>>

NoSess == 0

RunRecord == [epoch : Nat, sess : Nat, seq : Nat \ {0}, rev : Nat \ {0}, active : BOOLEAN,
              by : {"nobody", "provider", "operator"}, stopped : BOOLEAN]
PaneRecord == [epoch : Nat, sess : Nat, seq : Nat, done : Nat, running : BOOLEAN,
               run : Turn \cup {NoTurn}, rev : Nat]
TokenRecord == [turn : Turn, run : RunRecord, pane : PaneRecord \cup {NoPane}]
Hook == [no : Nat, sess : Nat, kind : {"SessionStart"}, turn : {NoTurn}]
        \cup [no : Nat, sess : Nat, kind : {"Prompt", "Activity", "Stop"}, turn : Turn]

ASSUME RecordsAssumption ==
    NoRun \notin RunRecord /\ NoPane \notin PaneRecord /\ NoToken \notin TokenRecord

TypeOK ==
    /\ runs \in [Turn -> RunRecord \cup {NoRun}]
    /\ pane \in PaneRecord
    /\ current \subseteq Turn /\ latest \in Turn \cup {NoTurn}
    /\ daemon \in {"up", "down"}
    /\ token \in TokenRecord \cup {NoToken}
    /\ agent \in [sess : Nat, turn : Turn \cup {NoTurn}]
    /\ turns \in [Turn -> Nat]
    /\ hooks \subseteq Hook
    /\ emitted \in Nat /\ crashes \in Nat /\ faults \in Nat

FirstPane(sess) == [epoch |-> 1, sess |-> sess, seq |-> 0, done |-> 0, running |-> FALSE,
                    run |-> NoTurn, rev |-> 0]

Init ==
    /\ runs = [n \in Turn |-> NoRun]
    /\ pane = FirstPane(IF StartsUnbound THEN NoSess ELSE 1)
    /\ current = {} /\ latest = NoTurn
    /\ daemon = "up"
    /\ token = NoToken
    /\ agent = [sess |-> 1, turn |-> NoTurn]
    /\ turns = [n \in Turn |-> NoSess]
    /\ hooks = {} /\ emitted = 0
    /\ crashes = 0 /\ faults = 0

-----------------------------------------------------------------------------
(* The ledger L = [runs, current, latest].                                  *)

Ledger == [runs |-> runs, current |-> current, latest |-> latest]

(* The part of an AgentBinding that can change here. *)
Binding(r) == <<r.epoch, r.sess>>
PaneBinding == <<pane.epoch, pane.sess>>

Earlier(r, q) == r.epoch < q.epoch \/ (r.epoch = q.epoch /\ r.seq <= q.seq)

(* index_run: a run becomes current for its binding unless a later one is;  *)
(* then it becomes current for the pane unless a later one is.              *)
Indexed(L, n) ==
    LET r == L.runs[n]
        rivals == {m \in L.current : Binding(L.runs[m]) = Binding(r)}
    IN
    IF \E m \in rivals : m # n /\ L.runs[m].seq >= r.seq
    THEN L
    ELSE [L EXCEPT !.current = (@ \ rivals) \cup {n},
                   !.latest = IF @ = NoTurn \/ Earlier(L.runs[@], r) THEN n ELSE @]

Saved(L, n, r) == Indexed([L EXCEPT !.runs[n] = r], n)

(* end_unresolved_run: a run that is still active ends without an outcome. *)
Over(r) == [r EXCEPT !.active = FALSE, !.rev = @ + 1]
Ended(L, n) == IF L.runs[n].active THEN Saved(L, n, Over(L.runs[n])) ELSE L

(* Mutant: a new binding leaves the run of the replaced one alone. *)
RetiredForgotten(L, b) ==
    IF L.latest = NoTurn \/ Binding(L.runs[L.latest]) = b THEN L
    ELSE [L EXCEPT !.current = @ \ {L.latest}, !.latest = NoTurn]

(* retire_replaced_bindings_for_pane: evidence for binding b ends the       *)
(* pane's current run if that run belongs to another binding.               *)
Retired(L, b) ==
    IF L.latest = NoTurn \/ Binding(L.runs[L.latest]) = b THEN L
    ELSE [Ended(L, L.latest) EXCEPT !.current = @ \ {L.latest}, !.latest = NoTurn]

(* Mutant: an operator's completion is overwritten by a later Stop. *)
ObservedOverwrites(r, kind) ==
    IF kind = "Stop"
    THEN [r EXCEPT !.rev = @ + 1, !.active = FALSE, !.stopped = TRUE, !.by = "provider"]
    ELSE [r EXCEPT !.rev = @ + 1]

(* apply_observation: a Stop completes a run nobody has resolved; anything  *)
(* else is evidence, and never revives a run that has ended.                *)
Observed(r, kind) ==
    IF kind = "Stop"
    THEN [r EXCEPT !.rev = @ + 1, !.active = FALSE, !.stopped = TRUE,
                   !.by = IF @ = "nobody" THEN "provider" ELSE @]
    ELSE [r EXCEPT !.rev = @ + 1]

(* Mutant: the first run of an epoch has sequence 0. *)
FirstRecordFromZero(b, seq) ==
    [epoch |-> b[1], sess |-> b[2], seq |-> seq - 1, rev |-> 1, active |-> TRUE,
     by |-> "nobody", stopped |-> FALSE]

(* new_run_from_observation. *)
FirstRecord(b, seq) ==
    [epoch |-> b[1], sess |-> b[2], seq |-> seq, rev |-> 1, active |-> TRUE,
     by |-> "nobody", stopped |-> FALSE]

(* Mutant: the run a new run of its binding follows stays active. *)
SupersededNone(L, b) == {}

(* The active run of binding b that a new run of b ends first. *)
Superseded(L, b) == {m \in L.current : Binding(L.runs[m]) = b /\ L.runs[m].active}

(* Mutant: the sequence the pane proposes is not checked. *)
SequenceFreeUnchecked(L, b, seq) == TRUE

(* The current run of binding b has not used sequence seq. *)
SequenceFree(L, b, seq) ==
    \A m \in L.current : Binding(L.runs[m]) = b => L.runs[m].seq < seq

EndedAll(L, S) ==
    [L EXCEPT !.runs = [m \in Turn |-> IF m \in S THEN Over(L.runs[m]) ELSE L.runs[m]]]

-----------------------------------------------------------------------------
(* The pane record.                                                         *)

(* begin_agent_epoch *)
NextEpoch(p, sess) == [FirstPane(sess) EXCEPT !.epoch = p.epoch + 1]

(* begin_run and activity_observed, through start_new_run: the run sequence *)
(* advances only if the pane's last run is complete.                        *)
Begun(p, sess) ==
    IF p.seq = p.done
    THEN [p EXCEPT !.sess = sess, !.seq = @ + 1, !.run = NoTurn, !.rev = 0, !.running = TRUE]
    ELSE [p EXCEPT !.sess = sess, !.running = TRUE]

(* complete_run: whatever run is open completes, whichever turn stopped. *)
Completed(p) ==
    IF p.seq = p.done THEN p ELSE [p EXCEPT !.done = p.seq, !.running = FALSE]

(* The pane event that a hook carries. *)
PaneEvent(p, h) == IF h.kind = "Stop" THEN Completed(p) ELSE Begun(p, h.sess)

(* reconcile_current_run for run n with record r: the pane's own current    *)
(* run wins if it is later, or the same run at a later revision.            *)
Superior(p, n, r, R) ==
    /\ p.run # NoTurn
    /\ \/ R[p.run].seq > r.seq
       \/ p.run # n /\ R[p.run].seq = r.seq
       \/ p.run = n /\ p.rev > r.rev

(* Mutant: the pane keeps the revision it showed before. *)
ShownOldRevision(p, n, r) ==
    [p EXCEPT !.seq = IF r.seq > @ THEN r.seq ELSE @,
              !.done = IF r.active THEN r.seq - 1 ELSE r.seq,
              !.running = r.active,
              !.run = n, !.rev = IF p.run = n THEN @ ELSE r.rev]

Shown(p, n, r) ==
    [p EXCEPT !.seq = IF r.seq > @ THEN r.seq ELSE @,
              !.done = IF r.active THEN r.seq - 1 ELSE r.seq,
              !.running = r.active,
              !.run = n, !.rev = r.rev]

(* project_current_run, only for the pane's own binding. *)
Projected(p, n, R) ==
    IF <<p.epoch, p.sess>> = Binding(R[n]) /\ ~Superior(p, n, R[n], R)
    THEN Shown(p, n, R[n]) ELSE p

-----------------------------------------------------------------------------
(* The writes of a handler.                                                 *)

(* The daemon dies with the run records as R and the pane record as p. *)
DieWith(R, p) ==
    /\ crashes < MaxCrash /\ crashes' = crashes + 1
    /\ daemon' = "down"
    /\ runs' = R /\ pane' = p
    /\ current' = {} /\ latest' = NoTurn
    /\ UNCHANGED faults

Become(L) == runs' = L.runs /\ current' = L.current /\ latest' = L.latest

(* The handler turns the ledger into L after the intermediate run records   *)
(* Partial, then writes the pane records of P in order.  A failed pane      *)
(* write ends the handler; the daemon may die after any write.              *)
Write(Partial, L, p1, p2) ==
    \/ Become(L) /\ pane' = p2 /\ UNCHANGED <<daemon, crashes, faults>>
    \/ /\ faults < MaxFault /\ faults' = faults + 1
       /\ Become(L) /\ pane' \in {pane, p1}
       /\ UNCHANGED <<daemon, crashes>>
    \/ \E R \in Partial : DieWith(R, pane)
    \/ \E p \in {pane, p1} : DieWith(L.runs, p)

(* A hook that reaches the daemon. *)
Arrives(h) ==
    /\ daemon = "up" /\ h \in hooks
    /\ Reorder \/ \A g \in hooks : h.no <= g.no
    /\ hooks' = hooks \ {h}
    /\ UNCHANGED <<token, agent, turns, emitted>>

(* provider_binding_record: the pane's session, or a prompt that binds a    *)
(* pane without one.                                                        *)
BindingFits(h) == pane.sess = h.sess \/ (pane.sess = NoSess /\ h.kind = "Prompt")

(* A session that starts, is cleared or is resumed begins a new agent epoch. *)
SessionStart(h) ==
    /\ h.kind = "SessionStart" /\ Arrives(h)
    /\ pane' = NextEpoch(pane, h.sess)
    /\ UNCHANGED <<ledger, daemon, crashes, faults>>

(* The first prompt or activity of a turn: a new run with the pane's next   *)
(* sequence, unless that sequence is taken.                                 *)
NewRun(h) ==
    LET n   == h.turn
        b   == <<pane.epoch, h.sess>>
        L1  == Retired(Ledger, b)
        old == Superseded(L1, b)
        L2  == EndedAll(L1, old)
        L3  == Saved(L2, n, FirstRecord(b, pane.seq + 1))
        p1  == PaneEvent(pane, h)
    IN
    /\ h.kind \in {"Prompt", "Activity"} /\ Arrives(h)
    /\ runs[n] = NoRun /\ BindingFits(h)
    /\ SequenceFree(L1, b, pane.seq + 1)
    /\ Write({L1.runs, L2.runs}, L3, p1, Projected(p1, n, L3.runs))

(* Evidence of a turn that has its run; a run that has ended keeps its      *)
(* phase and the pane only catches up with it (EvidenceOnly).               *)
MoreEvidence(h) ==
    LET n  == h.turn
        L1 == Retired(Ledger, <<pane.epoch, h.sess>>)
        L2 == Saved(L1, n, Observed(L1.runs[n], h.kind))
        p1 == IF h.kind = "Stop" \/ L2.runs[n].active THEN PaneEvent(pane, h) ELSE pane
    IN
    /\ h.kind # "SessionStart" /\ Arrives(h)
    /\ runs[n] # NoRun /\ BindingFits(h)
    /\ ~(h.kind = "Stop" /\ runs[n].stopped)
    /\ Write({L1.runs}, L2, p1, Projected(p1, n, L2.runs))

(* A second Stop of a turn has the event reference of the first: it is      *)
(* counted, whatever the pane's session is now, and the pane is completed   *)
(* again unless it has moved on (pane_needs_durable_run_projection).        *)
NeedsProjection(n, R) ==
    /\ PaneBinding = Binding(R[n])
    /\ \/ pane.run = n
       \/ pane.run = NoTurn /\ pane.seq <= R[n].seq
       \/ pane.run # NoTurn /\ pane.seq < R[n].seq

Conflicting(n, R) ==
    PaneBinding = Binding(R[n]) /\ pane.run \notin {n, NoTurn} /\ pane.seq = R[n].seq

RepeatedStop(h) ==
    LET n  == h.turn
        L  == Saved(Ledger, n, [runs[n] EXCEPT !.rev = @ + 1])
        R  == [runs EXCEPT ![n].rev = @ + 1]
        p1 == Completed(pane)
    IN
    /\ h.kind = "Stop" /\ Arrives(h)
    /\ runs[n] # NoRun /\ runs[n].stopped
    /\ \/ /\ NeedsProjection(n, R)
          /\ Write({}, L, p1, Projected(p1, n, R))
       \/ /\ ~NeedsProjection(n, R) /\ ~Conflicting(n, R)
          /\ Write({}, L, pane, pane)
       \/ Conflicting(n, R) /\ DieWith(R, pane)

(* A Stop without a retained run, and a new turn whose sequence is taken,   *)
(* are refused, but only after they have retired a replaced binding.        *)
RefusedLate(h) ==
    LET b == <<pane.epoch, h.sess>> IN
    /\ h.kind # "SessionStart" /\ Arrives(h)
    /\ runs[h.turn] = NoRun /\ BindingFits(h)
    /\ h.kind = "Stop" \/ ~SequenceFree(Retired(Ledger, b), b, pane.seq + 1)
    /\ Become(Retired(Ledger, b))
    /\ UNCHANGED <<pane, daemon, crashes, faults>>

(* A hook that is lost, or whose session is not the pane's. *)
Refused(h) ==
    /\ h \in hooks
    /\ hooks' = hooks \ {h}
    /\ UNCHANGED <<ledger, pane, daemon, token, agent, turns, emitted, crashes, faults>>

-----------------------------------------------------------------------------
(* The operator: agent_run_check reads the run, then the pane, and issues a *)
(* precondition; apply_resolve_agent_run compares it with what is there     *)
(* when it is used.                                                         *)

CheckRun(n) ==
    /\ daemon = "up" /\ token = NoToken
    /\ runs[n] # NoRun /\ runs[n].by = "nobody"
    /\ token' = [turn |-> n, run |-> runs[n], pane |-> NoPane]
    /\ UNCHANGED <<ledger, pane, daemon, outside, crashes, faults>>

CheckPane ==
    /\ daemon = "up" /\ token # NoToken /\ token.pane = NoPane
    /\ PaneBinding = Binding(token.run)
    /\ pane.run = token.turn /\ pane.rev = token.run.rev
    /\ token' = [token EXCEPT !.pane = pane]
    /\ UNCHANGED <<ledger, pane, daemon, outside, crashes, faults>>

(* Mutant: the run's revision and the pane are not compared. *)
FreshAlways(t) == TRUE

Fresh(t) ==
    /\ t.run.rev = runs[t.turn].rev
    /\ t.pane = pane
    /\ pane.run = t.turn /\ pane.rev = t.run.rev

Resolve ==
    LET n == token.turn
        r == [runs[n] EXCEPT !.rev = @ + 1, !.active = FALSE, !.by = "operator"]
        L == Saved(Ledger, n, r)
    IN
    /\ daemon = "up" /\ token # NoToken /\ token.pane # NoPane
    /\ runs[n].by = "nobody" /\ Fresh(token)
    /\ Write({}, L, pane, Projected(pane, n, L.runs))
    /\ token' = NoToken
    /\ UNCHANGED outside

(* The precondition expires, or is refused as stale. *)
Withdraw ==
    /\ token # NoToken /\ token' = NoToken
    /\ UNCHANGED <<ledger, pane, daemon, outside, crashes, faults>>

-----------------------------------------------------------------------------
(* The provider (external): it works on one turn at a time, and a turn may  *)
(* be interrupted without a Stop.                                           *)

Emit(kind, n, s) ==
    /\ emitted < MaxHooks /\ emitted' = emitted + 1
    /\ hooks' = hooks \cup {[no |-> emitted, kind |-> kind, turn |-> n, sess |-> s]}
    /\ UNCHANGED <<ledger, pane, daemon, token, crashes, faults>>

(* A prompt starts a turn; a goal continuation starts one without a prompt. *)
StartTurn(n) ==
    /\ turns[n] = NoSess
    /\ turns' = [turns EXCEPT ![n] = agent.sess]
    /\ agent' = [agent EXCEPT !.turn = n]
    /\ \E kind \in {"Prompt", "Activity"} : Emit(kind, n, agent.sess)

(* Tools, permission requests, steering prompts and stops of the turn. *)
Work ==
    /\ agent.turn # NoTurn
    /\ \E kind \in {"Prompt", "Activity", "Stop"} : Emit(kind, agent.turn, agent.sess)
    /\ UNCHANGED <<turns, agent>>

ChangeSession(s) ==
    /\ pane.epoch + Cardinality({h \in hooks : h.kind = "SessionStart"}) < MaxEpoch
    /\ agent' = [sess |-> s, turn |-> NoTurn]
    /\ Emit("SessionStart", NoTurn, s)
    /\ UNCHANGED turns

-----------------------------------------------------------------------------
(* Crash and restart.                                                       *)

Crash ==
    /\ daemon = "up"
    /\ DieWith(runs, pane)
    /\ UNCHANGED <<token, outside>>

(* No two runs of a binding have the same sequence: index_run refuses to    *)
(* rebuild the indexes of a store that has two.                             *)
SequencesUnique ==
    \A n, m \in Turn :
        /\ runs[n] # NoRun /\ runs[m] # NoRun /\ n # m
        /\ Binding(runs[n]) = Binding(runs[m])
        => runs[n].seq # runs[m].seq

(* The runs rebuild_indexes finds current: the last one of every binding. *)
LastRuns ==
    {n \in Turn : /\ runs[n] # NoRun
                  /\ \A m \in Turn : /\ runs[m] # NoRun
                                     /\ Binding(runs[m]) = Binding(runs[n])
                                     => runs[m].seq <= runs[n].seq}

(* Mutant: runs of other bindings are not ended by a restart. *)
RestartedForgotten == runs

(* reconcile_panes_after_restart: last runs of other bindings end. *)
Restarted ==
    [n \in Turn |-> IF /\ n \in LastRuns /\ runs[n].active
                       /\ Binding(runs[n]) # PaneBinding
                    THEN Over(runs[n]) ELSE runs[n]]

(* AgentRuntime::open, the reconciliation of the runs with the panes, and   *)
(* the repair of the pane record.                                           *)
Restart ==
    LET live == {n \in LastRuns : Binding(runs[n]) = PaneBinding} IN
    /\ daemon = "down" /\ SequencesUnique
    /\ daemon' = "up"
    /\ runs' = Restarted
    /\ current' = live
    /\ \/ /\ live = {} /\ latest' = NoTurn
          /\ pane' = [pane EXCEPT !.run = NoTurn, !.rev = 0]
       \/ \E n \in live : /\ latest' = n
                          /\ pane' = Projected(pane, n, Restarted)
    /\ UNCHANGED <<token, outside, crashes, faults>>

-----------------------------------------------------------------------------
HookStep(h) ==
    \/ SessionStart(h) \/ NewRun(h) \/ MoreEvidence(h) \/ RepeatedStop(h)
    \/ RefusedLate(h) \/ Refused(h)

Operator == \/ \E n \in Turn : CheckRun(n)
            \/ CheckPane \/ Resolve \/ Withdraw

Provider ==
    \/ \E n \in Turn : StartTurn(n)
    \/ Work
    \/ \E s \in 1..MaxSess : ChangeSession(s)

Next ==
    \/ \E h \in hooks : HookStep(h)
    \/ Operator
    \/ Provider
    \/ Crash
    \/ Restart

Spec == Init /\ [][Next]_vars

-----------------------------------------------------------------------------
(* Properties.                                                              *)

(* The pane has at most one execution-active run, whichever turns, sessions *)
(* and epochs the runs on disk belong to.                                   *)
OneActiveRun ==
    \A n, m \in Turn :
        runs[n] # NoRun /\ runs[m] # NoRun /\ runs[n].active /\ runs[m].active => n = m

(* While the daemon serves, every active run can be found: it is the        *)
(* current run of the pane, so the next prompt, a replaced session or the   *)
(* operator can end it.                                                     *)
ActiveIsCurrent ==
    daemon = "up" => \A n \in Turn :
        runs[n] # NoRun /\ runs[n].active => n \in current /\ latest = n

(* AGENT_API.md, status `done`: "At least one run completed and no run is   *)
(* active".                                                                 *)
PaneDone == pane.seq > 0 /\ pane.seq = pane.done /\ ~pane.running

DoneMeansInactive ==
    daemon = "up" /\ PaneDone => \A n \in Turn : runs[n] # NoRun => ~runs[n].active

(* While the daemon serves and no pane write has failed, the pane shows the *)
(* last run of its binding at its present revision: working while it is     *)
(* active, and otherwise complete up to it.                                 *)
PaneShowsRun ==
    daemon = "up" /\ PaneBinding[2] # NoSess =>
        \A n \in LastRuns : Binding(runs[n]) = PaneBinding =>
            /\ pane.run = n /\ pane.rev = runs[n].rev /\ pane.seq = runs[n].seq
            /\ pane.running = runs[n].active
            /\ pane.done = IF runs[n].active THEN pane.seq - 1 ELSE pane.seq

(* A run that has ended never becomes active again, and who resolved it     *)
(* never changes: neither a late hook nor a restart nor the operator        *)
(* rewrites the outcome.                                                    *)
OutcomeFinal ==
    [][\A n \in Turn : runs[n] # NoRun =>
          /\ ~runs[n].active => ~runs'[n].active
          /\ runs[n].by # "nobody" => runs'[n].by = runs[n].by]_vars

(* The operator completes exactly the run it looked at: no hook touched the *)
(* run or the pane in between.                                              *)
OperatorSawIt ==
    [][\A n \in Turn :
          runs[n] # NoRun /\ runs'[n].by = "operator" /\ runs[n].by # "operator" =>
              token # NoToken /\ token.run = runs[n] /\ token.pane = pane]_vars

=============================================================================
