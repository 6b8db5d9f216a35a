----------------------------- MODULE PaneSignals ------------------------------
(***************************************************************************)
(* What the daemon derives from the changes of one pane's canonical record *)
(* and who relies on it: the bounded transition history, the attention     *)
(* (triage) list and the flash (pane_state/store.rs), the notification     *)
(* that is queued when the pane becomes Blocked and revalidated when it    *)
(* runs (mutations/pane.rs, effects/mod.rs), the file the record is kept   *)
(* in (pane_state/snapshot.rs), and `vt agent wait`, which follows the     *)
(* coalesced snapshots (api/agent/read_wait.rs).                           *)
(*                                                                         *)
(* The reducer is the subject of PaneReducer; here it is any change of the *)
(* fields that the signals are derived from.  Changes of other panes only  *)
(* matter because they share the transition history.                       *)
(***************************************************************************)
EXTENDS Integers, Sequences

CONSTANTS
    HistoryCap,  \* MAX_DIAGNOSTICS: transitions kept
    ChannelCap,  \* notifications the worker's channel holds
    MaxRevision, \* bound: revisions of a record
    MaxStates,   \* bound: records created for the pane
    MaxTrouble   \* bound: failed writes, restarts, transitions of other panes

ASSUME SignalsAssumption ==
    /\ HistoryCap \in Nat \ {0} /\ ChannelCap \in Nat \ {0}
    /\ MaxRevision \in Nat /\ MaxStates \in Nat \ {0} /\ MaxTrouble \in Nat

VARIABLES
    rec,      \* the canonical record, or Gone
    disk,     \* the record in the snapshot file
    moves,    \* the transition history
    signals,  \* what is derived: generation, triage, calm, flash, jobs
    channel,  \* jobs handed to the notification worker
    wait,     \* the `agent wait` in progress
    past,     \* history variable: every version the record has had
    lost,     \* history variable: a transition was pushed out of the history
    states, trouble

signalVars == <<rec, disk, moves, signals, channel, wait, past, lost, states, trouble>>

Gone == [id |-> 0, rev |-> 0, life |-> "none", runSeq |-> 0, completed |-> 0,
         unread |-> FALSE, present |-> FALSE]
Fresh(i) == [Gone EXCEPT !.id = i, !.rev = 1, !.life = "idle", !.present = TRUE]

version(r) == [id |-> r.id, rev |-> r.rev]
NoVersion == version(Gone)

\* resolve_badge and record_badge: the unread completion is what tells Done from Idle.
resolve_badge(r) ==
    CASE r.life = "idle" -> IF r.unread THEN "done" ELSE "idle"
      [] OTHER -> r.life

\* agent_status: what the API calls the same record.
agent_status(r) == IF r.life = "idle" /\ r.completed > 0 THEN "done" ELSE r.life

Quiet == [generation |-> NoVersion, triage |-> FALSE, calm |-> 0, flash |-> 0, jobs |-> <<>>]
NoWait == [at |-> "idle", until |-> {}, base |-> NoVersion, expected |-> 0, explicit |-> FALSE,
           seen |-> 0, out |-> "none", outRev |-> 0]

Seen(r) == [version |-> version(r), status |-> agent_status(r), completed |-> r.completed]
Remember(r) == past' = past \cup {Seen(r)}
Trouble == trouble < MaxTrouble /\ trouble' = trouble + 1

(***************************************************************************)
(* hydrate: a restart keeps the file, and nothing that is derived.         *)
(***************************************************************************)
hydrate(r) ==
    IF r.life = "blocked" THEN [Quiet EXCEPT !.generation = version(r), !.triage = TRUE] ELSE Quiet

SignalsInit ==
    /\ rec \in {Fresh(1), [Fresh(1) EXCEPT !.life = "running", !.runSeq = 1]}
    /\ disk = rec
    /\ moves = <<>> /\ signals = hydrate(rec) /\ channel = <<>>
    /\ wait = NoWait
    /\ past = {Seen(rec)} /\ lost = FALSE
    /\ states = 1 /\ trouble = 0

(***************************************************************************)
(* The reducer's candidates.                                               *)
(***************************************************************************)
Candidates(r) ==
    LET c == [r EXCEPT !.rev = @ + 1]
    IN     {c}
      \cup (CASE r.life = "idle" -> {[c EXCEPT !.life = "running", !.runSeq = @ + 1],
                                     [c EXCEPT !.unread = FALSE]}
              [] r.life = "running" -> {[c EXCEPT !.life = "blocked"], [c EXCEPT !.life = "limited"]}
              [] OTHER -> {[c EXCEPT !.life = "running"]})
      \cup (IF r.life = "idle" THEN {}
            ELSE {[c EXCEPT !.life = "idle", !.completed = r.runSeq, !.unread = TRUE,
                            !.present = p] : p \in BOOLEAN})

\* push_back and pop_front of the transition history.
Push(entry) ==
    LET all == Append(moves, entry)
        over == Len(all) - HistoryCap
    IN /\ moves' = IF over > 0 THEN SubSeq(all, over + 1, Len(all)) ELSE all
       /\ lost' = (lost \/ over > 0)

Transition(r) == [version |-> version(r), to |-> resolve_badge(r), completed |-> r.completed]

\* derive_candidate_projection without the history.
derive_candidate_projection(s, before, after) ==
    LET blocked == resolve_badge(after) = "blocked"
        changed == resolve_badge(before) # resolve_badge(after)
    IN [generation |-> CASE changed /\ blocked -> version(after)
                         [] ~blocked \/ before.id # after.id -> NoVersion
                         [] OTHER -> s.generation,
        triage |-> s.triage \/ blocked,
        calm |-> IF blocked THEN 0 ELSE s.calm,
        flash |-> IF changed THEN 2 ELSE s.flash,
        jobs |-> IF changed /\ blocked THEN Append(s.jobs, version(after)) ELSE s.jobs]

(***************************************************************************)
(* project_current_run: the durable run's pointer, and the lifecycle it    *)
(* implies, under a revision of its own.  No transition is derived.        *)
(***************************************************************************)
reconcile_current_run(r, seq, active) ==
    LET c == [r EXCEPT !.rev = @ + 1, !.runSeq = seq]
    IN IF active
       THEN [c EXCEPT !.life = IF @ = "idle" THEN "running" ELSE @, !.completed = seq - 1]
       ELSE [c EXCEPT !.life = "idle", !.completed = seq, !.unread = @ \/ r.completed < seq]

(***************************************************************************)
(* save_snapshot: a write that fails after the rename leaves the new file  *)
(* under a memory that kept the old record.                                *)
(***************************************************************************)
SaveFails(r) == Trouble /\ disk' \in {disk, r}

\* drain_notification_jobs: a job goes to the worker when the record still has the
\* job's version; a full channel drops it.
Drained(jobs, r) ==
    LET due == SelectSeq(jobs, LAMBDA v : v = version(r))
        room == ChannelCap - Len(channel)
    IN IF Len(due) <= room THEN due ELSE SubSeq(due, 1, room)

\* finish_pane_event_projection.
Publish(after, derived) ==
    /\ channel' = channel \o Drained(derived.jobs, after)
    /\ signals' = [derived EXCEPT !.jobs = <<>>]

\* apply_pane_event_mutation for an event without, and with, a durable run.
ApplyEvent(c) ==
    LET derived == derive_candidate_projection(signals, rec, c)
        projected == reconcile_current_run(c, c.runSeq, c.completed < c.runSeq)
    IN /\ rec # Gone /\ rec.present /\ c \in Candidates(rec)
       /\ \/ /\ rec' = c /\ disk' = c
             /\ Push(Transition(c)) /\ Publish(c, derived)
             /\ Remember(c) /\ UNCHANGED trouble
          \/ /\ c.runSeq > 0
             /\ rec' = projected /\ disk' = projected
             /\ Push(Transition(c)) /\ Publish(projected, derived)
             /\ past' = past \cup {Seen(c), Seen(projected)} /\ UNCHANGED trouble
          \/ \* the event's write fails: nothing of it is kept in memory
             /\ SaveFails(c)
             /\ UNCHANGED <<rec, moves, lost, signals, channel, past>>
          \/ \* the run's write fails: the event stays, the jobs are not drained
             /\ c.runSeq > 0 /\ SaveFails(projected)
             /\ rec' = c /\ Push(Transition(c)) /\ signals' = derived
             /\ Remember(c) /\ UNCHANGED channel
       /\ UNCHANGED <<wait, states>>

\* project_provider_run_evidence_only, and the projection of a run resolved by hand: the
\* pane's run, which has not ended unless the pane says so, or one it has not heard of.
ProjectRun(seq, active) ==
    LET c == reconcile_current_run(rec, seq, active)
    IN /\ rec # Gone /\ seq \in {rec.runSeq, rec.runSeq + 1} \ {0}
       /\ active => seq > rec.completed
       /\ \/ /\ rec' = c /\ disk' = c /\ Remember(c)
             /\ Publish(c, signals)
             /\ UNCHANGED trouble
          \/ SaveFails(c) /\ UNCHANGED <<rec, past, signals, channel>>
       /\ UNCHANGED <<moves, lost, wait, states>>

\* The agent's process is gone, or another agent took the pane (a new epoch).
AgentLeaves ==
    LET c == [rec EXCEPT !.rev = @ + 1, !.present = FALSE]
    IN /\ rec # Gone /\ rec.present
       /\ rec' = c /\ disk' = c /\ Push(Transition(c))
       /\ Publish(c, derive_candidate_projection(signals, rec, c)) /\ Remember(c)
       /\ UNCHANGED <<wait, states, trouble>>

AgentReplaced ==
    LET c == [Fresh(states + 1) EXCEPT !.rev = rec.rev + 1]
    IN /\ rec # Gone /\ states < MaxStates
       /\ states' = states + 1
       /\ rec' = c /\ disk' = c /\ Push(Transition(c))
       /\ Publish(c, derive_candidate_projection(signals, rec, c)) /\ Remember(c)
       /\ UNCHANGED <<wait, trouble>>

remove_absent_pane ==
    /\ rec # Gone
    /\ \/ rec' = Gone /\ disk' = Gone /\ signals' = [Quiet EXCEPT !.jobs = signals.jobs]
          /\ UNCHANGED trouble
       \/ SaveFails(Gone) /\ UNCHANGED <<rec, signals>>
    /\ UNCHANGED <<moves, lost, channel, wait, past, states>>

\* A transition of another pane takes a place in the shared history.
OtherPane ==
    /\ Trouble
    /\ Push([version |-> NoVersion, to |-> "none", completed |-> 0])
    /\ channel' = channel \o Drained(signals.jobs, rec)
    /\ signals' = [signals EXCEPT !.jobs = <<>>]
    /\ UNCHANGED <<rec, disk, wait, past, states>>

\* Mutant: the calm polls are counted again from nothing each time.
M_advance_poll_projection ==
    /\ signals' = [signals EXCEPT !.calm = 0, !.flash = IF @ <= 1 THEN 0 ELSE @ - 1]
    /\ signals' # signals
    /\ UNCHANGED <<rec, disk, moves, channel, wait, past, lost, states, trouble>>

\* A poll: two calm ones in a row take the pane off the attention list.
advance_poll_projection ==
    LET out == signals.triage /\ resolve_badge(rec) # "blocked" /\ signals.calm >= 1
    IN /\ signals' = [signals EXCEPT
              !.triage = @ /\ ~out,
              !.calm = IF out \/ ~signals.triage \/ resolve_badge(rec) = "blocked" THEN 0 ELSE @ + 1,
              !.flash = IF @ <= 1 THEN 0 ELSE @ - 1]
       /\ signals' # signals
       /\ UNCHANGED <<rec, disk, moves, channel, wait, past, lost, states, trouble>>

\* Mutant: the occurrence is not compared with the one that was announced.
M_notification_is_current(v) == rec.present /\ rec.id = v.id

(***************************************************************************)
(* The notification worker.                                                *)
(***************************************************************************)
notification_is_current(v) ==
    /\ signals.generation = v
    /\ rec.present /\ rec.id = v.id /\ resolve_badge(rec) = "blocked"

\* Revalidated, then run: the command is under way once the job leaves the channel.
Notify ==
    /\ channel # <<>>
    /\ channel' = Tail(channel)
    /\ UNCHANGED <<rec, disk, moves, signals, wait, past, lost, states, trouble>>

Restart ==
    /\ Trouble
    /\ rec' = disk /\ signals' = hydrate(disk)
    /\ past' = {Seen(disk)}
    /\ moves' = <<>> /\ channel' = <<>>
    /\ wait' = NoWait /\ lost' = FALSE
    /\ UNCHANGED <<disk, states>>

(***************************************************************************)
(* vt agent wait.                                                          *)
(***************************************************************************)
Statuses == {"running", "blocked", "limited", "done", "idle"}

Mine(v) == v.id = wait.base.id

EventStatus(e) == IF e.to = "idle" /\ e.completed > 0 THEN "done" ELSE e.to

\* The first transition after the last revision looked at that answers the wait.
Answers(e) ==
    /\ Mine(e.version) /\ e.version.rev > wait.seen
    /\ \/ EventStatus(e) \in wait.until /\ (EventStatus(e) # "done" \/ e.completed >= wait.expected)
       \/ "done" \in wait.until /\ e.completed >= wait.expected
match_wait_event == {k \in 1..Len(moves) : Answers(moves[k])}

match_current_wait_status(until, base, expected, explicit, initial) ==
    IF "done" \in until /\ rec.completed >= expected THEN "done"
    ELSE IF /\ agent_status(rec) \in until
            /\ ~(agent_status(rec) = "done" /\ explicit)
            /\ initial \/ rec.rev > base.rev
         THEN agent_status(rec) ELSE "none"

\* Every revision since the last look has its transition, or the wait gives up.
verify_wait_history_coverage ==
    \/ wait.until \subseteq {"done"}
    \/ \A v \in (wait.seen + 1)..rec.rev : \E k \in 1..Len(moves) :
           Mine(moves[k].version) /\ moves[k].version.rev = v

EndWait(out, rev) == wait' = [wait EXCEPT !.at = "over", !.out = out, !.outRev = rev]

\* subscribe, resolve and the first turn of the loop, which only looks at the state.
StartWait(until, after) ==
    LET explicit == after >= 0
        expected == IF explicit THEN after + 1
                    ELSE IF rec.runSeq > rec.completed THEN rec.runSeq ELSE rec.completed + 1
        begun == [at |-> "waiting", until |-> until, base |-> version(rec), expected |-> expected,
                  explicit |-> explicit, seen |-> rec.rev, out |-> "none", outRev |-> 0]
        now == match_current_wait_status(until, version(rec), expected, explicit, TRUE)
    IN /\ wait.at = "idle"
       /\ rec # Gone /\ rec.present /\ after <= rec.completed
       /\ wait' = IF now # "none" THEN [begun EXCEPT !.at = "over", !.out = now, !.outRev = rec.rev]
                  ELSE begun
       /\ UNCHANGED <<rec, disk, moves, signals, channel, past, lost, states, trouble>>

\* A later turn: history first, then the state, then the coverage of the history.
NextSnapshot ==
    LET now == match_current_wait_status(wait.until, wait.base, wait.expected, wait.explicit, FALSE)
    IN /\ wait.at = "waiting" /\ version(rec) # [id |-> wait.base.id, rev |-> wait.seen]
       /\ CASE match_wait_event # {} ->
                 LET first == moves[CHOOSE k \in match_wait_event : \A j \in match_wait_event : k <= j]
                 IN EndWait(IF EventStatus(first) \in wait.until
                               /\ (EventStatus(first) # "done" \/ first.completed >= wait.expected)
                            THEN EventStatus(first) ELSE "done", first.version.rev)
            [] match_wait_event = {} /\ rec.id # wait.base.id -> EndWait("stale_reference", 0)
            [] match_wait_event = {} /\ rec.id = wait.base.id /\ now # "none" -> EndWait(now, rec.rev)
            [] OTHER ->
                 IF ~verify_wait_history_coverage THEN EndWait("event_history_lost", 0)
                 ELSE IF ~rec.present THEN EndWait("stale_reference", 0)
                 ELSE wait' = [wait EXCEPT !.seen = rec.rev]
       /\ UNCHANGED <<rec, disk, moves, signals, channel, past, lost, states, trouble>>

WaitEnds ==
    /\ wait.at = "over" \/ wait.at = "waiting"
    /\ wait' = NoWait
    /\ UNCHANGED <<rec, disk, moves, signals, channel, past, lost, states, trouble>>

\* What happens to the record; what is done about it; who waits for it.
RecordSteps ==
    \/ \E c \in Candidates(rec) : rec.rev + 1 < MaxRevision /\ ApplyEvent(c)
    \/ \E a \in BOOLEAN, q \in {rec.runSeq, rec.runSeq + 1} :
           rec.rev < MaxRevision /\ ProjectRun(q, a)
    \/ rec.rev < MaxRevision /\ (AgentLeaves \/ AgentReplaced)
    \/ remove_absent_pane \/ OtherPane \/ Restart
NotifySteps == advance_poll_projection \/ Notify
WaitSteps ==
    \/ \E u \in {{"done"}, {"blocked"}, {"done", "limited"}, {"running"}}, a \in -1..1 :
           StartWait(u, a)
    \/ NextSnapshot \/ WaitEnds

SignalsNext == RecordSteps \/ NotifySteps \/ WaitSteps
SignalsFairness == WF_signalVars(advance_poll_projection)
SignalsSpec == SignalsInit /\ [][SignalsNext]_signalVars

(***************************************************************************)
(* Properties.                                                             *)
(***************************************************************************)

\* A Blocked pane is on the attention list, whatever order of events, polls, failed
\* writes and restarts led there.
AttentionKept == resolve_badge(rec) = "blocked" => signals.triage

\* A notification that passes the worker's check is about the occurrence that is still
\* open: the pane has been Blocked in every version since the one that announced it.
NotifiedWhileOpen ==
    channel # <<>> /\ notification_is_current(Head(channel)) =>
        \A r \in past :
            /\ r.version.id = rec.id
            /\ r.version.rev \in Head(channel).rev..rec.rev
            => r.status = "blocked"

\* A wait that is still waiting has not let an answer go by: no version that it has
\* looked past had a status that it waits for, coalesced snapshots notwithstanding.
NothingSkipped ==
    wait.at = "waiting" =>
        \A r \in past :
            r.version.id = wait.base.id /\ r.version.rev \in (wait.base.rev + 1)..wait.seen =>
                /\ r.status \notin wait.until \ {"done"}
                /\ "done" \in wait.until => r.completed < wait.expected

\* And what a wait reports did happen, to the agent that it was pinned to.
ReportHappened ==
    wait.at = "over" /\ wait.out \in Statuses =>
        \E r \in past :
            /\ r.version = [id |-> wait.base.id, rev |-> wait.outRev]
            /\ \/ r.status = wait.out
               \/ wait.out = "done" /\ r.completed >= wait.expected

SignalsSound == AttentionKept /\ NotifiedWhileOpen /\ NothingSkipped /\ ReportHappened

\* A pane that stays out of Blocked leaves the attention list (two polls).
AttentionEnds == signals.triage ~> (~signals.triage \/ resolve_badge(rec) = "blocked")

\* README.md, Notifications: "Run an external command whenever an agent enters Blocked".
\* Not so for a pane with a durable run: the run's projection moves the record to another
\* version before the job is drained, and the job is dropped as missing its target.
BlockedIsNotified ==
    [][resolve_badge(rec) # "blocked" /\ resolve_badge(rec') = "blocked"
           /\ Len(channel) < ChannelCap /\ trouble' = trouble
       => Len(channel') = Len(channel) + 1]_signalVars

\* AGENT_API.md: a wait fails with event_history_lost "if bounded history can no longer
\* prove a transient result".  It also fails when nothing was dropped.
HistoryLostMeansDropped == wait.out = "event_history_lost" => lost
===============================================================================
