---------------------------- MODULE TaskSummary ----------------------------
(* Task summaries: the prompts of an agent form a bounded context whose     *)
(* fingerprint names it; a new Run asks a worker thread for a summary of    *)
(* that context; the worker debounces, keeps the latest job of each pane    *)
(* and runs a model; its answer comes back through the mutation queue and   *)
(* applies only to the context it was asked for. Private prompts live in    *)
(* the daemon's memory alone.                                               *)
EXTENDS Naturals, SequencesExt

CONSTANTS
    SumPane,            \* panes
    SumText,            \* prompts and responses
    NoText,             \* no response
    MaxContextPrompts,  \* MAX_TASK_CONTEXT_PROMPTS
    SummaryQueue,       \* WORKER_QUEUE_CAPACITY
    MaxSumSteps,        \* bound: events of agents
    MaxSumFaults        \* bound: restarts, full queues and failed commits

VARIABLES
    context,     \* per pane: record identity, agent, run, prompts, summary
    requested,   \* pending_task_summaries: the key asked for, per pane
    summaryJobs,        \* the worker's channel
    debounced,   \* the worker's pending jobs, at most one per pane
    model,       \* the job whose model is running
    summarised,    \* completions on their way to the mutation queue
    sumSpent     \* bounds: [steps, restarts, lost]

sumVars == <<context, requested, summaryJobs, debounced, model, summarised, sumSpent>>
workVars == <<summaryJobs, debounced, model, summarised>>

NoPrint == <<>>
NoKey == [who |-> 0, print |-> NoPrint]
NoSummaryJob == [pane |-> NoText, key |-> NoKey, input |-> NoPrint]
NoSummary == [print |-> NoPrint, about |-> NoPrint, outcome |-> "none"]

\* One number stands for the pair state_id and agent_epoch.
NewRecord(who, agent) ==
    [who |-> who, agent |-> agent, running |-> FALSE, said |-> NoText, prompts |-> <<>>,
     reply |-> NoText, private |-> FALSE, print |-> NoPrint, summary |-> NoSummary,
     asked |-> NoPrint]   \* history: the context of the last Run's request

-----------------------------------------------------------------------------
(* TaskContextState.                                                        *)

fingerprint(prompts, reply) == IF prompts = <<>> THEN NoPrint ELSE <<prompts, reply>>

push_prompt(prompts, t) ==
    IF prompts # <<>> /\ Last(prompts) = t THEN prompts
    ELSE LET all == Append(prompts, t)
         IN IF Len(all) > MaxContextPrompts THEN Tail(all) ELSE all

\* A context that once held a private prompt stays private.
observe_prompt(c, t, private, reply) ==
    LET prompts == push_prompt(c.prompts, t)
    IN [c EXCEPT !.prompts = prompts, !.reply = reply, !.private = @ \/ private,
                 !.print = fingerprint(prompts, reply)]

\* What a restarted daemon reads back: a private context is only its print.
RestoredContext(c) ==
    IF c.private THEN [c EXCEPT !.prompts = <<>>, !.reply = NoText, !.asked = NoPrint]
    ELSE [c EXCEPT !.asked = NoPrint]

current_summary(c) == c.print # NoPrint /\ c.summary.print = c.print

RequestKey(c) == [who |-> c.who, print |-> c.print]

\* summary_input: the evidence itself, gone for a restored private context.
summary_input(c) == fingerprint(c.prompts, c.reply)

-----------------------------------------------------------------------------
(* The coordinator's side.                                                  *)

schedule_task_summary(c, p) ==
    /\ c.agent = "claude" /\ ~current_summary(c) /\ requested[p] # RequestKey(c)
    /\ summary_input(c) # NoPrint /\ Len(summaryJobs) < SummaryQueue

Step == sumSpent.steps < MaxSumSteps /\ sumSpent' = [sumSpent EXCEPT !.steps = @ + 1]

\* A new Run of the pane observes its prompt (public, private or none) with
\* the response it answers, and asks for a summary.
BeginRun(p, t, kind) ==
    /\ context[p].who # 0 /\ Step
    /\ LET c == context[p]
           reply == IF c.running THEN c.reply ELSE c.said
           seen == IF kind = "none" THEN c ELSE observe_prompt(c, t, kind = "private", reply)
           c1 == [seen EXCEPT !.running = TRUE, !.said = IF c.running THEN @ ELSE NoText,
                              !.asked = IF c.agent = "claude" /\ Len(summaryJobs) < SummaryQueue
                                        THEN summary_input(seen) ELSE NoPrint]
       IN /\ context' = [context EXCEPT ![p] = c1]
          /\ IF schedule_task_summary(c1, p)
             THEN /\ requested' = [requested EXCEPT ![p] = RequestKey(c1)]
                  /\ summaryJobs' = Append(summaryJobs, [pane |-> p, key |-> RequestKey(c1),
                                           input |-> summary_input(c1)])
             ELSE UNCHANGED <<requested, summaryJobs>>
    /\ UNCHANGED <<debounced, model, summarised>>

CompleteRun(p) ==
    /\ context[p].running /\ Step
    /\ \E t \in SumText \cup {NoText} :
           context' = [context EXCEPT ![p].running = FALSE, ![p].said = t]
    /\ UNCHANGED <<requested, workVars>>

\* A new agent in the pane: begin_agent_epoch forgets the context; a resumed
\* session brings its last prompt, which asks for nothing.
AgentSessionStarted(p) ==
    /\ Step
    /\ \E agent \in {"claude", "other"}, resumed \in SumText \cup {NoText} :
           LET c == NewRecord(sumSpent.steps + 1, agent)
           IN context' = [context EXCEPT ![p] =
                  IF resumed = NoText THEN c ELSE observe_prompt(c, resumed, FALSE, NoText)]
    /\ UNCHANGED <<requested, workVars>>

PaneRemoved(p) ==
    /\ context[p].who # 0 /\ Step
    /\ context' = [context EXCEPT ![p] = NewRecord(0, "other")]
    /\ requested' = [requested EXCEPT ![p] = NoKey]
    /\ UNCHANGED workVars

Fault == sumSpent.lost + sumSpent.restarts < MaxSumFaults

\* A completion applies to the record and context it was asked for; the
\* commit of the record may fail, after the request was forgotten.
TaskSummaryCompleted ==
    /\ summarised # <<>>
    /\ LET a == Head(summarised)
           p == a.pane
           fits == RequestKey(context[p]) = a.key
       IN /\ requested' = IF requested[p] = a.key THEN [requested EXCEPT ![p] = NoKey]
                          ELSE requested
          /\ \/ /\ context' = IF fits
                       THEN [context EXCEPT ![p].summary =
                                 [print |-> a.key.print, about |-> a.about,
                                  outcome |-> a.outcome]]
                       ELSE context
                /\ UNCHANGED sumSpent
             \/ fits /\ Fault /\ sumSpent' = [sumSpent EXCEPT !.lost = @ + 1] /\ UNCHANGED context
    /\ summarised' = Tail(summarised)
    /\ UNCHANGED <<summaryJobs, debounced, model>>

\* The mutation queue is full: the forwarder logs and goes on.
ForwarderDrops ==
    /\ summarised # <<>> /\ Fault /\ sumSpent' = [sumSpent EXCEPT !.lost = @ + 1]
    /\ summarised' = Tail(summarised) /\ UNCHANGED <<context, requested, summaryJobs, debounced, model>>

DaemonRestarts ==
    /\ Fault /\ sumSpent' = [sumSpent EXCEPT !.restarts = @ + 1]
    /\ context' = [p \in SumPane |-> RestoredContext(context[p])]
    /\ requested' = [p \in SumPane |-> NoKey]
    /\ summaryJobs' = <<>> /\ debounced' = [p \in SumPane |-> NoSummaryJob] /\ model' = NoSummaryJob
    /\ summarised' = <<>>

-----------------------------------------------------------------------------
(* The worker thread.                                                       *)

\* The last job of the pane in the channel replaces the one that waits.
Jobs(p) == {i \in DOMAIN summaryJobs : summaryJobs[i].pane = p}
upsert_pending(p) == IF Jobs(p) = {} THEN debounced[p] ELSE summaryJobs[Max(Jobs(p))]

ReceiveJobs ==
    /\ model = NoSummaryJob /\ summaryJobs # <<>>
    /\ debounced' = [p \in SumPane |-> upsert_pending(p)] /\ summaryJobs' = <<>>
    /\ UNCHANGED <<context, requested, model, summarised, sumSpent>>

JobIsDue(p) ==
    /\ model = NoSummaryJob /\ debounced[p] # NoSummaryJob
    /\ model' = debounced[p] /\ debounced' = [debounced EXCEPT ![p] = NoSummaryJob]
    /\ UNCHANGED <<context, requested, summaryJobs, summarised, sumSpent>>

\* Mutant: a job that fails is not reported.
M_generate_summary ==
    /\ model # NoSummaryJob
    /\ summarised' \in {summarised, Append(summarised, [pane |-> model.pane, key |-> model.key,
                                         about |-> model.input, outcome |-> "generated"])}
    /\ model' = NoSummaryJob
    /\ UNCHANGED <<context, requested, summaryJobs, debounced, sumSpent>>

\* The model answers in time with a valid summary, or the job fails: it
\* could not start, timed out, exited with an error or said nothing usable.
generate_summary ==
    /\ model # NoSummaryJob
    /\ \E outcome \in {"generated", "failed"} :
           summarised' = Append(summarised, [pane |-> model.pane, key |-> model.key,
                                         about |-> model.input, outcome |-> outcome])
    /\ model' = NoSummaryJob
    /\ UNCHANGED <<context, requested, summaryJobs, debounced, sumSpent>>

SumInit ==
    /\ context = [p \in SumPane |-> NewRecord(0, "other")]
    /\ requested = [p \in SumPane |-> NoKey]
    /\ summaryJobs = <<>> /\ debounced = [p \in SumPane |-> NoSummaryJob] /\ model = NoSummaryJob
    /\ summarised = <<>> /\ sumSpent = [steps |-> 0, restarts |-> 0, lost |-> 0]

WorkerSteps == ReceiveJobs \/ (\E p \in SumPane : JobIsDue(p)) \/ generate_summary
SumProgress == WorkerSteps \/ TaskSummaryCompleted

SumNext ==
    \/ SumProgress \/ ForwarderDrops \/ DaemonRestarts
    \/ \E p \in SumPane :
           \/ CompleteRun(p) \/ AgentSessionStarted(p) \/ PaneRemoved(p)
           \/ \E t \in SumText, kind \in {"public", "private", "none"} : BeginRun(p, t, kind)

SumSpec == SumInit /\ [][SumNext]_sumVars

(* The worker thread runs, a model answers or times out, and the mutation   *)
(* queue is worked off.                                                     *)
SumFairness == WF_sumVars(SumProgress)

-----------------------------------------------------------------------------
(* Properties.                                                              *)

\* projection: the row shows a spinner while the key asked for is current.
Loading(p) ==
    context[p].who # 0 /\ ~current_summary(context[p]) /\ requested[p] = RequestKey(context[p])

SummariesInFlight == ToSet(summaryJobs) \cup {debounced[p] : p \in SumPane} \cup {model}

(* A spinner stands for work: unless a completion was lost, the very        *)
(* context of the pane is queued, running or answered.                      *)
SpinnerIsWork ==
    \A p \in SumPane : Loading(p) /\ sumSpent.lost = 0 =>
        \/ \E j \in SummariesInFlight : j.pane = p /\ j.key = requested[p]
        \/ \E a \in ToSet(summarised) : a.pane = p /\ a.key = requested[p]

(* The text shown was written from exactly the prompts of the current agent *)
(* that are the pane's context now, never from older ones.                  *)
ShownIsCurrent ==
    \A p \in SumPane : current_summary(context[p]) =>
        /\ context[p].summary.about = context[p].print
        /\ summary_input(context[p]) \in {NoPrint, context[p].print}

(* When nothing is left to do, every context a Run asked about is           *)
(* summarised or has its failure recorded.                                  *)
AnsweredWhenQuiet ==
    SummariesInFlight = {NoSummaryJob} /\ summarised = <<>> /\ sumSpent.lost = 0 =>
        \A p \in SumPane : context[p].asked # NoPrint /\ context[p].asked = context[p].print =>
            current_summary(context[p])

SummariesSound == SpinnerIsWork /\ ShownIsCurrent /\ AnsweredWhenQuiet

(* A spinner ends, unless the completion it waits for was lost.             *)
SpinnersEnd ==
    \A p \in SumPane : [](Loading(p) => <>(~Loading(p) \/ sumSpent.lost > 0))
=============================================================================
