---------------------------- MODULE PaneReducer ----------------------------
(* The canonical state of one pane: hook events of an agent, in any order   *)
(* and from any session, and observations of its process and screen that    *)
(* were frozen earlier, are reduced one at a time (pane_state/reducer.rs).   *)
(* A reduction that yields an invalid state is rejected as a whole.         *)
EXTENDS Naturals, Sequences

CONSTANTS
    RSession,    \* provider sessions
    BgTask,      \* Claude background tasks
    Helper,      \* subagents
    MaxEpoch,    \* bound: agent epochs
    MaxRunSeq,   \* bound: runs of an epoch
    MaxInputs    \* bound: hook events, marks, restarts and process changes

Agents == {"claude", "codex"}
Unbound == "unbound"

ASSUME ReducerAssumption == {MaxEpoch, MaxRunSeq, MaxInputs} \subseteq Nat /\ Unbound \notin RSession

VARIABLES
    pane,       \* PaneState, or Empty
    tracker,    \* CaptureTrackerSnapshot
    flight,     \* the frozen observation that is under way
    process,    \* external: the agent process of the pane and its identity
    rejected,   \* history: some hook event was refused as StateInvariantViolation
    polls,      \* history: polls applied in a row since the process left
    inputs      \* inputs so far, under MaxInputs

reducerVars == <<pane, tracker, flight, process, rejected, polls, inputs>>

Input == inputs < MaxInputs /\ inputs' = inputs + 1

Empty == [agent |-> "none"]
Exists(p) == p.agent # "none"

new_state(agent, session, verified, armed) ==
    [agent |-> agent, session |-> session, epoch |-> 1, present |-> TRUE,
     verified |-> verified, armed |-> armed, life |-> "idle", run |-> 0, done |-> 0,
     helpers |-> {}, tasks |-> [t \in BgTask |-> "none"], faults |-> <<>>,
     paused |-> FALSE, unread |-> "read"]

(* PaneState: present and verified are agent_present and scan_verified,     *)
(* armed is initial_completion_armed, life the lifecycle, run and done the  *)
(* sequences of the current and of the last completed run.                  *)
UnreadReasons == {"read", "waiting", "error", "completed"}
Lifes == {"idle", "running", "waiting", "limited", "error", "launch", "conflict",
          "invalid", "ended"}
PaneState ==
    [agent : Agents, session : RSession \cup {Unbound}, epoch : 1..MaxEpoch,
     present : BOOLEAN, verified : BOOLEAN, armed : BOOLEAN, life : Lifes,
     run : 0..MaxRunSeq, done : 0..MaxRunSeq, helpers : SUBSET Helper,
     tasks : [BgTask -> {"none", "pending", "delivered", "cancelled"}],
     faults : Seq([reason : Lifes, key : BgTask \cup {"session"}, reported : BOOLEAN]),
     paused : BOOLEAN, unread : UnreadReasons]

IsError(l) == l \notin {"idle", "running", "waiting", "limited"}
NoTracker == [match |-> FALSE, hook |-> FALSE, verify |-> FALSE, absence |-> 0,
              kind |-> "none", streak |-> 0, print |-> 0, rebase |-> FALSE, last |-> 0]
reset_tracker(last) == [NoTracker EXCEPT !.match = TRUE, !.last = last]

-----------------------------------------------------------------------------
(* ClaudeBackgroundState.                                                   *)

Cleared(p) == [p EXCEPT !.tasks = [t \in BgTask |-> "none"], !.faults = <<>>,
                        !.paused = FALSE]

blocks_completion(p) == (\E t \in BgTask : p.tasks[t] = "pending") \/ p.faults # <<>>

Tracking(p) == blocks_completion(p) \/ \E t \in BgTask : p.tasks[t] # "none"

HasFault(p, reason, key) ==
    \E i \in DOMAIN p.faults : p.faults[i].reason = reason /\ p.faults[i].key = key

fault(p, reason, key) ==
    IF HasFault(p, reason, key) THEN p
    ELSE [p EXCEPT !.faults = Append(@, [reason |-> reason, key |-> key, reported |-> FALSE])]

DropFaults(p, gone) ==
    LET Key(f) == <<f.reason, f.key>>
        kept[n \in 0..Len(p.faults)] ==
            IF n = 0 THEN << >>
            ELSE IF Key(p.faults[n]) \in gone THEN kept[n - 1]
            ELSE Append(kept[n - 1], p.faults[n])
    IN [p EXCEPT !.faults = kept[Len(p.faults)]]

clear_task_faults(p, t) == DropFaults(p, (Lifes \ {"launch"}) \X {t})

-----------------------------------------------------------------------------
(* Transitions of a run.                                                    *)

begin_agent_epoch(p, agent, session, verified) ==
    [new_state(agent, session, verified, FALSE) EXCEPT
        !.epoch = p.epoch + 1,
        !.unread = IF p.unread \in {"waiting", "error"} THEN "read" ELSE p.unread]

start_new_run(p) ==
    IF p.run = p.done
    THEN [Cleared(p) EXCEPT !.run = @ + 1, !.helpers = {}, !.armed = FALSE]
    ELSE [p EXCEPT !.armed = FALSE]

activity_observed(p) == [start_new_run(p) EXCEPT !.life = "running", !.paused = FALSE]

wait_requested(p, life) == [start_new_run(p) EXCEPT !.life = life]

complete_run(p, unarmed) ==
    IF \/ p.helpers # {}
       \/ Tracking(p)
       \/ p.run = 0 /\ ~p.armed /\ ~unarmed
       \/ p.run > 0 /\ p.run = p.done
    THEN p
    ELSE LET n == IF p.run = 0 THEN 1 ELSE p.run
         IN [Cleared(p) EXCEPT !.run = n, !.done = n, !.life = "idle", !.armed = FALSE]

mark_done(p) ==
    LET n == IF p.run = p.done THEN p.run + 1 ELSE p.run
    IN [Cleared(p) EXCEPT !.run = n, !.done = n, !.life = "idle", !.armed = FALSE,
                          !.helpers = {}]

FirstFault(p) ==
    LET new == {i \in DOMAIN p.faults : ~p.faults[i].reported}
        i == IF new = {} THEN 1 ELSE CHOOSE j \in new : \A k \in new : j <= k
    IN p.faults[i].reason

\* Mutant: an awaited background result does not hold the run open.
M_apply_claude_stop(p, initial) ==
    IF p.helpers # {} THEN p ELSE complete_run(Cleared(p), initial)

(* A parent stop holds the run open while a background result is awaited or *)
(* a subagent still works.                                                  *)
apply_claude_stop(p, initial) ==
    IF blocks_completion(p)
    THEN [p EXCEPT !.paused = TRUE,
                   !.life = IF p.faults = <<>> THEN "running" ELSE FirstFault(p)]
    ELSE IF p.helpers # {} THEN p ELSE complete_run(Cleared(p), initial)

end_claude_tracking(p) ==
    IF Tracking(p)
    THEN [fault(Cleared(p), "ended", "session") EXCEPT
            !.life = IF p.life = "limited" THEN @ ELSE "ended"]
    ELSE Cleared(p)

confirm_absent(p) ==
    LET q == IF Tracking(p) THEN end_claude_tracking(p)
             ELSE IF p.run > p.done THEN complete_run(p, FALSE) ELSE p
    IN [q EXCEPT !.present = FALSE, !.verified = TRUE]

-----------------------------------------------------------------------------
(* Explicit events.                                                         *)

ClaudeEvents ==
    [kind : {"registered", "conflict", "launch", "stopped", "notified", "garbled"},
     task : BgTask] \cup [kind : {"ended"}, task : {"session"}]
PlainEvents ==
    [kind : {"start", "compact", "activity", "wait", "limit", "fail", "stop",
             "idle", "attention"}, task : {"none"}]
HelperEvents == [kind : {"helper_on", "helper_off"}, task : Helper]

EpochEvidence(e) ==
    e.kind \in {"registered", "conflict", "launch", "stopped", "notified", "garbled",
                "start", "activity", "wait", "limit", "fail"}
is_completion(e) == e.kind \in {"stop", "attention"}
is_completion_for_state(p, e) ==
    \/ e.kind = "stop"
    \/ /\ e.kind \in {"idle", "attention"}
       /\ p.run > p.done \/ (p.armed /\ is_completion(e))

apply_claude_tool_result(p, e) ==
    LET t == e.task
        known == p.tasks[t] # "none"
        settled(q) == DropFaults(q, {<<"launch", t>>})
    IN CASE e.kind = "registered" ->
                settled(IF known THEN p ELSE [p EXCEPT !.tasks[t] = "pending"])
         [] e.kind = "conflict" ->
                settled(IF known THEN fault(p, "conflict", t)
                        ELSE [p EXCEPT !.tasks[t] = "pending"])
         [] e.kind = "launch" -> fault(p, "launch", t)
         [] e.kind = "stopped" ->
                IF known THEN clear_task_faults([p EXCEPT !.tasks[t] = "cancelled"], t) ELSE p

apply_notification(p, e) ==
    LET t == e.task
        ownFault == \E i \in DOMAIN p.faults : p.faults[i].reason = p.life
        q == IF p.life \in {"running", "idle"} \/ ownFault
             THEN activity_observed(p) ELSE [p EXCEPT !.paused = FALSE]
    IN IF q.tasks[t] = "none" THEN q
       ELSE IF e.kind = "notified"
       THEN clear_task_faults([q EXCEPT !.tasks[t] =
                                 IF @ = "cancelled" THEN @ ELSE "delivered"], t)
       ELSE IF q.tasks[t] = "pending" THEN fault(q, "invalid", t) ELSE q

apply_regular_explicit_event(p, e, initial) ==
    CASE e.kind \in {"registered", "conflict", "launch", "stopped"} ->
            apply_claude_tool_result(activity_observed(p), e)
      [] e.kind \in {"notified", "garbled"} -> apply_notification(p, e)
      [] e.kind = "ended" -> end_claude_tracking(p)
      [] e.kind = "activity" -> activity_observed(p)
      [] e.kind = "wait" -> wait_requested(p, "waiting")
      [] e.kind = "limit" -> wait_requested(p, "limited")
      [] e.kind = "fail" -> wait_requested(p, "error")
      [] e.kind = "stop" -> IF p.agent = "claude" THEN apply_claude_stop(p, initial)
                            ELSE complete_run(p, initial)
      [] e.kind \in {"idle", "attention"} ->
            IF \/ p.run > p.done
               \/ p.armed /\ p.run = 0 /\ e.kind = "attention"
               \/ initial
            THEN complete_run(p, initial) ELSE p
      [] e.kind = "helper_on" -> [p EXCEPT !.helpers = @ \cup {e.task}]
      [] e.kind = "helper_off" -> [p EXCEPT !.helpers = @ \ {e.task}]
      [] OTHER -> p

interruption_needs_terminal_verification(p, agent, session, e) ==
    /\ p.agent = "claude" /\ p.agent = agent /\ p.session = session
    /\ p.done > 0 /\ p.run = p.done
    /\ e.kind \in {"fail", "limit"}

Stale == [ok |-> FALSE, pane |-> Empty, tracker |-> NoTracker]
Accept(p, t) == [ok |-> TRUE, pane |-> p, tracker |-> t]

(* The six identities of an explicit event for an existing state.           *)
ByIdentity(p, agent, session, e) ==
    LET exact == p.agent = agent /\ p.session = session
        unbound == p.agent = agent /\ p.session = Unbound
        evidence == EpochEvidence(e)
        completion == is_completion_for_state(p, e)
        Do(q) == Accept(apply_regular_explicit_event(q, e, FALSE), NoTracker)
        Anew(verified) == Do(begin_agent_epoch(p, agent, session, verified))
    IN IF exact /\ p.present THEN Do(p)
       ELSE IF unbound /\ p.present
       THEN IF evidence \/ (completion /\ p.armed)
            THEN Do([p EXCEPT !.session = session]) ELSE Accept(p, NoTracker)
       ELSE IF p.present
       THEN IF evidence /\ tracker.match /\ tracker.streak >= 2 /\ tracker.kind = agent
            THEN Anew(TRUE) ELSE Stale
       ELSE IF evidence THEN Anew(FALSE)
       ELSE IF exact /\ completion
       THEN LET r == Do(p)
            IN [r EXCEPT !.pane.present = FALSE, !.pane.verified = TRUE]
       ELSE Stale

TrackerAfter(p, q, e, agent, session) ==
    LET exact == p.agent = agent /\ p.session = session /\ p.present
        base == IF q.epoch # p.epoch THEN reset_tracker(0)
                ELSE IF tracker.match THEN tracker ELSE reset_tracker(tracker.last)
    IN [base EXCEPT !.hook = @ \/ (agent = "codex" /\ (exact \/ EpochEvidence(e))),
                    !.verify = FALSE, !.absence = 0, !.kind = "none", !.streak = 0,
                    !.rebase = @ \/ q.done > p.done]

reduce_explicit(p, agent, session, e) ==
    IF ~Exists(p)
    THEN IF e.kind = "compact" THEN Stale
         ELSE IF ~(EpochEvidence(e) \/ is_completion(e)) THEN Accept(p, tracker)
         ELSE LET q == apply_regular_explicit_event(new_state(agent, session, FALSE, FALSE),
                                                    e, TRUE)
              IN Accept(q, [reset_tracker(0) EXCEPT
                              !.hook = agent = "codex" \/ e.kind = "start",
                              !.rebase = q.done > 0])
    ELSE IF e.kind = "compact"
    THEN IF p.agent = agent /\ p.session = session /\ p.present THEN Accept(p, tracker) ELSE Stale
    ELSE IF e.kind = "start"
    THEN Accept(begin_agent_epoch(p, agent, session, FALSE),
                [reset_tracker(0) EXCEPT !.hook = TRUE])
    ELSE IF interruption_needs_terminal_verification(p, agent, session, e)
    THEN Accept(p, [tracker EXCEPT !.verify = TRUE])
    ELSE LET r == ByIdentity(p, agent, session, e)
         IN IF ~r.ok THEN Stale
            ELSE [r EXCEPT !.tracker = TrackerAfter(p, r.pane, e, agent, session)]

-----------------------------------------------------------------------------
(* Observations: the poll freezes state and tracker, looks at processes and *)
(* perhaps at the screen, and its result is reduced later.                  *)

Screens == {"same", "changed", "modal", "limit", "error", "old"}

classify_presence(p, kind) ==
    IF kind # "none" THEN kind
    ELSE IF Exists(p) /\ ~p.verified THEN "unknown" ELSE "absent"

(* Which screens the capture mode of a pane can report.                     *)
capture_mode(p, t, presence) ==
    IF presence = "unknown" THEN "none"
    ELSE IF Exists(p) /\ t.verify /\ p.agent = "claude" THEN "terminal"
    ELSE IF presence # "absent"
            /\ (~Exists(p) \/ ~p.present \/ p.agent # presence \/ ~t.match \/ ~t.hook)
    THEN "full"
    ELSE IF ~Exists(p) \/ p.run = p.done \/ p.life = "limited" THEN "none"
    ELSE IF presence = "absent" THEN "limit"
    ELSE IF presence = p.agent /\ p.life = "running" THEN "terminal" ELSE "none"

infer_capture(p, t, mode, screen) ==
    IF mode = "none" THEN "none"
    ELSE IF screen = "limit" THEN "limit"
    ELSE IF mode = "limit" THEN "no_change"
    ELSE IF screen = "error" /\ Exists(p) /\ p.agent = "claude" THEN "error"
    ELSE IF mode = "terminal" \/ t.rebase \/ t.print = 0 THEN "no_change"
    ELSE IF screen = "modal" THEN "modal"
    ELSE IF screen = "changed" THEN "activity"
    ELSE IF screen = "old" /\ Exists(p) /\ p.life = "running" THEN "completed"
    ELSE "no_change"

apply_capture(p, t, infer) ==
    IF infer = "none" THEN Accept(p, t)
    ELSE IF t.rebase /\ infer \notin {"limit", "error"}
    THEN Accept(p, [t EXCEPT !.verify = FALSE, !.print = 1, !.rebase = FALSE])
    ELSE Accept(
        CASE infer = "limit" -> wait_requested(p, "limited")
          [] infer = "error" -> wait_requested(p, "error")
          [] infer = "modal" /\ (p.agent # "codex" \/ p.run > p.done) ->
                wait_requested(p, "waiting")
          [] infer = "activity" /\ ~blocks_completion(p) /\ t.print # 0 /\ p.run > p.done ->
                activity_observed(p)
          [] infer = "completed" /\ p.life = "running" -> complete_run(p, FALSE)
          [] OTHER -> p,
        [t EXCEPT !.verify = FALSE, !.print = 1, !.rebase = FALSE])

Absence(r) ==
    IF r.tracker.absence + 1 >= 2
    THEN Accept(confirm_absent(r.pane), [r.tracker EXCEPT !.absence = 0])
    ELSE Accept(r.pane, [r.tracker EXCEPT !.absence = @ + 1])

(* Another agent's process is in the pane.                                  *)
Replacement(p, t, kind) ==
    LET r == IF p.verified THEN Absence(Accept(p, t)) ELSE Accept(p, t)
        streak == IF t.kind # kind THEN 1 ELSE IF t.streak > 1 THEN 2 ELSE t.streak + 1
    IN [r EXCEPT !.tracker.kind = kind, !.tracker.streak = streak]

reduce_observation(p, t, o) ==
    LET born == [reset_tracker(o.id) EXCEPT !.print = IF o.infer = "none" THEN 0 ELSE 1]
        calm == [t EXCEPT !.kind = "none", !.streak = 0]
        successor == Accept(begin_agent_epoch(p, o.presence, Unbound, TRUE), born)
    IN IF ~Exists(p)
       THEN IF o.presence \in Agents
            THEN Accept(new_state(o.presence, Unbound, TRUE, TRUE), born) ELSE Accept(p, t)
       ELSE IF o.presence = "unknown" THEN Accept(p, [calm EXCEPT !.absence = 0])
       ELSE IF o.presence = "absent"
       THEN LET r == apply_capture(p, calm, o.infer) IN IF p.verified THEN Absence(r) ELSE r
       ELSE IF ~p.present THEN successor
       ELSE IF o.presence = p.agent
       THEN IF t.last # 0 /\ o.id # t.last THEN successor
            ELSE apply_capture([p EXCEPT !.verified = TRUE],
                               [calm EXCEPT !.absence = 0, !.last = o.id], o.infer)
       ELSE Replacement(p, t, o.presence)

-----------------------------------------------------------------------------
(* reduce: the unread mark, then the validity of the whole state.           *)

apply_unread_transition(p, q, e, visible) ==
    LET own == {i \in DOMAIN q.faults : q.faults[i].reason = q.life}
        news == {i \in own : ~q.faults[i].reported}
        told == IF news = {} THEN q
                ELSE LET i == CHOOSE j \in news : \A k \in news : j <= k
                     IN [q EXCEPT !.faults[i].reported = TRUE]
        same == Exists(p) /\ p.epoch = q.epoch
        reason == IF q.life \in {"waiting", "limited"}
                  THEN IF same /\ p.life \in {"waiting", "limited"} THEN "none" ELSE "waiting"
                  ELSE IF IsError(q.life) /\ (news # {} \/ ~(same /\ IsError(p.life)))
                  THEN "error"
                  ELSE IF q.done > (IF same THEN p.done ELSE 0) THEN "completed" ELSE "none"
    IN IF own # {} /\ news = {} THEN q
       ELSE IF reason = "none" THEN told
       ELSE [told EXCEPT !.unread = IF visible \/ e = "mark_done" THEN "read" ELSE reason]

validate(p) ==
    /\ p.done <= p.run /\ p.run - p.done <= 1
    /\ blocks_completion(p) => p.life # "idle"
    /\ p.agent # "claude" => ~Tracking(p)
    /\ (p.life = "idle") <=> (p.run = p.done)
    /\ ~p.present => p.verified /\ p.life \in {"idle", "limited", "ended"}
    /\ p.armed => p.life = "idle" /\ p.run = 0 /\ p.verified /\ p.session = Unbound

Bounded(q) == Exists(q) => q.epoch <= MaxEpoch /\ q.run <= MaxRunSeq

Nothing == [presence |-> "none", infer |-> "none", id |-> 0]

Reduce(r, e) ==
    \E visible \in BOOLEAN :
        LET q == IF r.pane = pane THEN pane ELSE apply_unread_transition(pane, r.pane, e, visible)
        IN IF Exists(q) /\ ~validate(q)
           THEN rejected' = TRUE /\ UNCHANGED <<pane, tracker, flight>>
           ELSE /\ Bounded(q)
                /\ pane' = q /\ tracker' = r.tracker
                /\ flight' = IF q = pane /\ r.tracker = tracker THEN flight ELSE Nothing
                /\ UNCHANGED rejected

Explicit(agent, session, e) ==
    LET r == reduce_explicit(pane, agent, session, e)
    IN /\ r.ok
       /\ Reduce(r, e.kind)
       /\ Input /\ polls' = 0 /\ UNCHANGED process

MarkDone ==
    /\ Exists(pane) /\ (pane.run > pane.done \/ pane.run < MaxRunSeq)
    /\ Reduce(Accept(mark_done(pane), [tracker EXCEPT !.rebase = TRUE]), "mark_done")
    /\ Input /\ polls' = 0 /\ UNCHANGED process

MarkPaneRead ==
    /\ Exists(pane) /\ pane.unread # "read"
    /\ pane' = [pane EXCEPT !.unread = "read"]
    /\ flight' = Nothing
    /\ Input
    /\ UNCHANGED <<tracker, process, rejected, polls>>

(* freeze_observation_dispatch and run_observation_poll.                    *)
Observe(screen, complete) ==
    /\ flight = Nothing
    /\ LET presence == IF complete THEN classify_presence(pane, process.kind) ELSE "unknown"
           mode == capture_mode(pane, tracker, presence)
       IN flight' = [presence |-> presence, id |-> process.id,
                     infer |-> infer_capture(pane, tracker, mode, screen)]
    /\ UNCHANGED <<pane, tracker, process, rejected, polls, inputs>>

ApplyObservation ==
    /\ flight # Nothing
    /\ LET r == reduce_observation(pane, tracker, flight)
           q == IF r.pane = pane THEN pane
                ELSE apply_unread_transition(pane, r.pane, "observation", FALSE)
       IN IF Exists(q) /\ ~validate(q)
          THEN UNCHANGED <<pane, tracker>>
          ELSE Bounded(q) /\ pane' = q /\ tracker' = r.tracker
    /\ flight' = Nothing
    /\ polls' = IF process.kind # "none" \/ flight.presence # "absent" THEN 0
                ELSE IF polls < 2 THEN polls + 1 ELSE 2
    /\ UNCHANGED <<process, rejected, inputs>>

(* External: the agent's process starts, exits or is replaced.              *)
ProcessChanges ==
    /\ \E k \in Agents \cup {"none"}, i \in 1..2 :
          /\ process' = [kind |-> k, id |-> IF k = "none" THEN 0 ELSE i]
          /\ process' # process
    /\ Input /\ polls' = 0
    /\ UNCHANGED <<pane, tracker, flight, rejected>>

(* hydrate: a restarted daemon reads the saved pane and a new tracker.      *)
Hydrate ==
    /\ Exists(pane)
    /\ tracker' = reset_tracker(tracker.last) /\ tracker' # tracker
    /\ flight' = Nothing /\ polls' = 0
    /\ Input
    /\ UNCHANGED <<pane, process, rejected>>

-----------------------------------------------------------------------------
ReducerInit ==
    /\ pane = Empty /\ tracker = NoTracker /\ flight = Nothing
    /\ process = [kind |-> "none", id |-> 0] /\ rejected = FALSE /\ polls = 0
    /\ inputs = 0

ReducerNext ==
    \/ \E agent \in Agents, session \in RSession :
          \E e \in PlainEvents \cup HelperEvents : Explicit(agent, session, e)
    \/ \E session \in RSession, e \in ClaudeEvents : Explicit("claude", session, e)
    \/ MarkDone \/ MarkPaneRead
    \/ \E screen \in Screens, complete \in BOOLEAN : Observe(screen, complete)
    \/ ApplyObservation \/ ProcessChanges \/ Hydrate

ReducerSpec == ReducerInit /\ [][ReducerNext]_reducerVars

-----------------------------------------------------------------------------
(* No sequence of hook events makes a state that the reducer's own check    *)
(* refuses, so none is lost; and an agent without running subagents whose   *)
(* process was missed by two polls in a row is absent.                      *)
ReducerSound ==
    /\ Exists(pane) => pane \in PaneState
    /\ ~rejected
    /\ polls = 2 /\ Exists(pane) /\ pane.verified /\ pane.helpers = {} => ~pane.present

(* A run is closed over an awaited background result only by the user, and  *)
(* a result that is still awaited goes away only with its session, its run  *)
(* or its agent.                                                            *)
AwaitedHoldsRun ==
    [][ /\ Exists(pane) /\ pane'.epoch = pane.epoch /\ pane'.done > pane.done
        /\ blocks_completion(pane)
        => inputs' > inputs /\ pane'.unread = "read" /\ tracker'.rebase ]_reducerVars

(* README: an agent leaves Limited "when its process exits".                *)
LimitedEnds ==
    ~(polls = 2 /\ Exists(pane) /\ pane.verified /\ pane.life = "limited")
=============================================================================
