--------------------------- MODULE MutationQueue ---------------------------
(* How a request becomes a state change: the router that numbers            *)
(* mutations, the bootstrap FIFO, the bounded queue, the one mutation       *)
(* worker, deferred answers of sidebar effects, and the ways the daemon     *)
(* stops.  What a mutation does to the state is not modelled here, only     *)
(* that it is applied (applied is a history variable).                      *)
(*                                                                          *)
(* A thread that routes a request holds the router lock from its last look  *)
(* at the shutdown flag to the end of its enqueue (router # Free); internal *)
(* enqueues hold it for one step.  Stopping is not atomic: a stopper sets   *)
(* the flag, passes the router lock, then clears the queue and answers the  *)
(* waiters, while clients and the worker go on.                             *)
EXTENDS Naturals, Sequences, SequencesExt, FiniteSets

CONSTANTS
    Client,      \* connections that submit one request each
    Free,        \* nobody holds the router lock
    MaxQueue,    \* V2_MUTATION_QUEUE_CAPACITY
    MaxFifo,     \* V2_BOOTSTRAP_FIFO_CAPACITY
    MaxJobs,     \* capacity of the sidebar worker's channel
    MaxTicks     \* bound: ticks that fall due

ASSUME QueueAssumption ==
    /\ MaxQueue \in Nat \ {0} /\ MaxFifo \in Nat \ {0} /\ MaxJobs \in Nat
    /\ MaxTicks \in Nat
    /\ Free \notin Client

VARIABLES
    phase,       \* "installing", "hydrating", "serving", or the process is "exited"
    boot,        \* where bootstrap_v2_runtime is
    batch,       \* FIFO entries the bootstrap thread has taken
    reconciled,  \* initial_reconciliation_queued
    router,      \* who holds the router lock
    fatal,       \* V2Router::fatal
    shutdown, ready,  \* the coordinator's two flags
    nextSeq,
    fifo, queue, \* accepted mutations before and after Serving
    worker,      \* the mutation worker: idle, its mutation, or gone
    waiters,     \* accepted numbers with a channel
    deferred,    \* accepted numbers answered by a later completion
    jobs,        \* effects the sidebar worker has to run
    completions, \* effects it ran
    tickPending, \* question_tick_pending / capacity_tick_pending
    ticker,      \* the tick thread: idle, or between the flag and the enqueue
    ticks,       \* bound: ticks so far
    timeouts,    \* whether the prompt timeout worker still runs
    stopper,     \* progress of begin_shutdown and fail_stop by their callers
    client,      \* each connection's request and answer
    applied      \* history: accepted numbers in the order they were applied

routerVars == <<phase, boot, batch, reconciled, router, fatal, nextSeq, fifo>>
sidebarVars == <<deferred, jobs, completions>>
tickVars == <<tickPending, ticker, ticks, timeouts>>
stopVars == <<shutdown, ready, stopper>>
mqVars == <<routerVars, queue, worker, waiters, sidebarVars, tickVars, stopVars,
            client, applied>>

(* What clients submit; view events are acknowledged without a waiter.      *)
Request == {"mutate", "view", "effect", "shutdown"}
Internal == {"tick", "timeouts", "reconcile", "completed"}
Accepted == [seq : Nat, kind : Request \cup Internal, of : Nat]
Stopper == {"worker", "signal", "monitor"}
Idle == [seq |-> 0, kind |-> "idle", of |-> 0]
Gone == [seq |-> 0, kind |-> "gone", of |-> 0]

Seqs(s) == {s[i].seq : i \in DOMAIN s}
Kinds(s) == {s[i].kind : i \in DOMAIN s}
Serving == phase = "serving"
Full == Len(queue) + (IF worker.kind \in {"idle", "gone"} THEN 0 ELSE 1) >= MaxQueue

(* The answer reaches every client that waits for one of the numbers.       *)
Answer(seqs, ans) ==
    client' = [c \in Client |->
        IF client[c].st = "waiting" /\ client[c].seq \in seqs \cap waiters
        THEN [client[c] EXCEPT !.st = "answered", !.ans = ans] ELSE client[c]]

(* ProductionV2Coordinator::complete                                        *)
complete(seq, ans) == Answer({seq}, ans) /\ waiters' = waiters \ {seq}

-----------------------------------------------------------------------------
(* Requests.                                                                *)

Refuse(c, ans) ==
    client' = [client EXCEPT ![c].st = "answered", ![c].ans = ans]

(* route_external up to the router's decision; it keeps the lock when the   *)
(* request is accepted.                                                     *)
RouteCheck(c) ==
    /\ client[c].st = "idle" /\ phase # "exited" /\ router = Free
    /\ \/ shutdown /\ Refuse(c, "not_ready") /\ UNCHANGED router
       \/ /\ ~shutdown
          /\ \/ Serving /\ Full
             \/ ~Serving /\ Len(fifo) >= MaxFifo
          /\ Refuse(c, "queue_full") /\ UNCHANGED router
       \/ /\ ~shutdown
          /\ IF Serving THEN ~Full ELSE Len(fifo) < MaxFifo
          /\ \E k \in Request :
                client' = [client EXCEPT ![c].st = "routing", ![c].kind = k]
          /\ router' = c
    /\ UNCHANGED <<phase, boot, batch, reconciled, fatal, nextSeq, fifo, queue, worker,
                   waiters, sidebarVars, tickVars, stopVars, applied>>

(* V2Router::route and enqueue_locked under the router lock: the number,    *)
(* the waiter and the place in the queue are given together.  A view event  *)
(* is answered at once by a serving daemon, in bootstrap it waits.          *)
RouteEnqueue(c) ==
    LET m == [seq |-> nextSeq, kind |-> client[c].kind, of |-> 0] IN
    /\ router = c /\ phase # "exited"
    /\ nextSeq' = nextSeq + 1
    /\ IF Serving THEN queue' = Append(queue, m) /\ UNCHANGED fifo
                  ELSE fifo' = Append(fifo, m) /\ UNCHANGED queue
    /\ IF client[c].kind = "view" /\ Serving
       THEN /\ client' = [client EXCEPT ![c].st = "answered", ![c].ans = "queued"]
            /\ UNCHANGED waiters
       ELSE /\ client' = [client EXCEPT ![c].st = "waiting", ![c].seq = nextSeq]
            /\ waiters' = waiters \cup {nextSeq}
    /\ router' = Free
    /\ UNCHANGED <<phase, boot, batch, reconciled, fatal, worker, sidebarVars, tickVars,
                   stopVars, applied>>

(* enqueue_internal: accept returns true, a full queue or a stop false.     *)
Accepts == ~shutdown /\ (IF Serving THEN ~Full ELSE Len(fifo) < MaxFifo)

Enqueue(kind, of) ==
    LET m == [seq |-> nextSeq, kind |-> kind, of |-> of] IN
    /\ nextSeq' = nextSeq + 1
    /\ IF Serving THEN queue' = Append(queue, m) /\ UNCHANGED fifo
                  ELSE fifo' = Append(fifo, m) /\ UNCHANGED queue

enqueue_internal(kind, of) ==
    /\ router = Free /\ phase # "exited" /\ ~fatal
    /\ Accepts /\ Enqueue(kind, of)
    /\ UNCHANGED <<phase, boot, batch, reconciled, router, fatal, worker, waiters>>

-----------------------------------------------------------------------------
(* Applying.  A mutation is applied by the bootstrap thread or the worker,  *)
(* never by both.                                                           *)

(* apply_production_mutation as far as the queue sees it: a sidebar effect  *)
(* is handed to the sidebar worker and its answer deferred, a completion    *)
(* answers the effect it belongs to, a tick clears its flag, and a shutdown *)
(* request starts begin_graceful_shutdown.                                  *)
Apply(m) ==
    /\ applied' = Append(applied, m.seq)
    /\ tickPending' = (tickPending /\ m.kind # "tick")
    /\ IF m.kind = "effect" /\ Len(jobs) < MaxJobs
       THEN jobs' = Append(jobs, m.seq) /\ deferred' = deferred \cup {m.seq}
       ELSE /\ deferred' = deferred \ (IF m.kind = "completed" THEN {m.of} ELSE {})
            /\ UNCHANGED jobs
    /\ stopper' = IF m.kind = "shutdown" THEN [stopper EXCEPT !["worker"] = "begun"]
                                         ELSE stopper
    /\ IF m.kind = "completed" THEN complete(m.of, "done")
                               ELSE UNCHANGED <<client, waiters>>

(* bootstrap_v2_runtime: the hooks are installed and hydration begins.      *)
begin_hydration ==
    /\ boot = "install" /\ router = Free /\ phase = "installing"
    /\ phase' = "hydrating" /\ boot' = "take"
    /\ UNCHANGED <<batch, reconciled, router, fatal, nextSeq, fifo, queue, worker, waiters,
                   sidebarVars, tickVars, stopVars, client, applied>>

take_bootstrap_fifo ==
    /\ boot = "take" /\ router = Free /\ phase # "exited"
    /\ batch' = fifo /\ fifo' = <<>> /\ boot' = "apply"
    /\ UNCHANGED <<phase, reconciled, router, fatal, nextSeq, queue, worker, waiters,
                   sidebarVars, tickVars, stopVars, client, applied>>

BootApply ==
    /\ boot = "apply" /\ batch # <<>> /\ phase # "exited"
    /\ Apply(Head(batch))
    /\ boot' = "answer"
    /\ UNCHANGED <<phase, batch, reconciled, router, fatal, nextSeq, fifo, queue, worker,
                   completions, ticker, ticks, timeouts, shutdown, ready>>

(* A shutdown applied here runs begin_shutdown to its end before the answer.*)
BootAnswer ==
    LET m == Head(batch) IN
    /\ boot = "answer" /\ phase # "exited"
    /\ stopper["worker"] \in {"none", "done"}
    /\ IF m.seq \in deferred THEN UNCHANGED <<client, waiters>>
       ELSE complete(m.seq, IF m.kind = "shutdown" THEN "accepted" ELSE "done")
    /\ batch' = Tail(batch) /\ boot' = "apply"
    /\ UNCHANGED <<phase, reconciled, router, fatal, nextSeq, fifo, queue, worker,
                   sidebarVars, tickVars, stopVars, applied>>

Exits ==
    /\ phase' = "exited"
    /\ client' = [c \in Client |-> IF client[c].st \in {"waiting", "routing"}
                     THEN [client[c] EXCEPT !.st = "answered", !.ans = "closed"] ELSE client[c]]

(* Once per start RefreshTopology and ReconcileViews join the FIFO; a       *)
(* stopped router ends the process instead, a full FIFO drops them.         *)
InitialReconciliation ==
    /\ boot = "apply" /\ batch = <<>> /\ ~reconciled /\ router = Free /\ phase # "exited"
    /\ IF fatal
       THEN Exits /\ UNCHANGED <<boot, reconciled, nextSeq, fifo, queue>>
       ELSE /\ reconciled' = TRUE /\ boot' = "take"
            /\ IF Len(fifo) < MaxFifo THEN Enqueue("reconcile", 0)
                                      ELSE UNCHANGED <<nextSeq, fifo, queue>>
            /\ UNCHANGED <<phase, client>>
    /\ UNCHANGED <<batch, router, fatal, worker, waiters, sidebarVars, tickVars, stopVars,
                   applied>>

enter_serving_if_bootstrap_empty ==
    /\ boot = "apply" /\ batch = <<>> /\ reconciled /\ router = Free /\ phase = "hydrating"
    /\ IF fifo = <<>> THEN phase' = "serving" /\ boot' = "done" /\ worker' = Idle
                      ELSE boot' = "take" /\ UNCHANGED <<phase, worker>>
    /\ UNCHANGED <<batch, reconciled, router, fatal, nextSeq, fifo, queue, waiters,
                   sidebarVars, tickVars, stopVars, client, applied>>

(* start_v2_mutation_worker: pop, apply, answer.                            *)
WorkerPop ==
    /\ worker = Idle /\ phase # "exited"
    /\ IF shutdown THEN worker' = Gone /\ UNCHANGED queue
       ELSE queue # <<>> /\ worker' = Head(queue) /\ queue' = Tail(queue)
    /\ UNCHANGED <<routerVars, waiters, sidebarVars, tickVars, stopVars, client, applied>>

WorkerApply ==
    /\ worker.kind \in Request \cup Internal /\ phase # "exited"
    /\ worker.seq \notin ToSet(applied)
    /\ Apply(worker)
    /\ UNCHANGED <<routerVars, queue, worker, completions, ticker, ticks, timeouts,
                   shutdown, ready>>

WorkerComplete ==
    /\ worker.kind \in Request \cup Internal /\ phase # "exited"
    /\ worker.seq \in ToSet(applied)
    /\ worker.kind = "shutdown" => stopper["worker"] = "done"
    /\ IF worker.seq \in deferred THEN UNCHANGED <<client, waiters>>
       ELSE complete(worker.seq, IF worker.kind = "shutdown" THEN "accepted" ELSE "done")
    /\ ready' = (ready \/ worker.kind = "shutdown")
    /\ worker' = Idle
    /\ UNCHANGED <<routerVars, queue, sidebarVars, tickVars, shutdown, stopper, applied>>

-----------------------------------------------------------------------------
(* Background threads.                                                      *)

(* start_sidebar_tmux_worker: an effect takes at most two seconds, whatever *)
(* tmux answers.                                                            *)
SidebarWorker ==
    /\ jobs # <<>> /\ phase # "exited"
    /\ completions' = Append(completions, Head(jobs)) /\ jobs' = Tail(jobs)
    /\ UNCHANGED <<routerVars, queue, worker, waiters, deferred, tickVars, stopVars, client,
                   applied>>

(* start_sidebar_completion_forwarder: a completion that does not fit stops *)
(* the daemon, because a client waits for it.  It starts with Serving.      *)
ForwardCompletion ==
    /\ completions # <<>> /\ boot = "done" /\ ~shutdown
    /\ \/ enqueue_internal("completed", Head(completions)) /\ UNCHANGED stopper
       \/ /\ ~Accepts /\ router = Free /\ stopper["monitor"] = "none" /\ phase # "exited"
          /\ stopper' = [stopper EXCEPT !["monitor"] = "failing"]
          /\ UNCHANGED <<routerVars, queue, worker, waiters>>
    /\ completions' = Tail(completions)
    /\ UNCHANGED <<deferred, jobs, tickVars, shutdown, ready, client, applied>>

(* enqueue_tick_once: the flag first, the queue second, the flag back when  *)
(* the queue refuses.                                                       *)
TickDue ==
    /\ ticker = "idle" /\ ~tickPending /\ ticks < MaxTicks /\ boot = "done" /\ ~shutdown
    /\ tickPending' = TRUE /\ ticker' = "flagged" /\ ticks' = ticks + 1
    /\ UNCHANGED <<routerVars, queue, worker, waiters, sidebarVars, timeouts, stopVars,
                   client, applied>>

EnqueueTick ==
    /\ ticker = "flagged"
    /\ \/ enqueue_internal("tick", 0) /\ UNCHANGED tickPending
       \/ /\ ~Accepts /\ router = Free /\ phase # "exited"
          /\ tickPending' = FALSE
          /\ UNCHANGED <<routerVars, queue, worker, waiters>>
    /\ ticker' = "idle"
    /\ UNCHANGED <<sidebarVars, ticks, timeouts, stopVars, client, applied>>

(* start_agent_prompt_timeout_worker: an expired dispatch is queued; the    *)
(* worker ends for good when the queue refuses it.                          *)
PromptTimeout ==
    /\ timeouts /\ boot = "done" /\ ticks < MaxTicks /\ ~shutdown
    /\ ticks' = ticks + 1
    /\ \/ enqueue_internal("timeouts", 0) /\ UNCHANGED timeouts
       \/ /\ ~Accepts /\ router = Free /\ phase # "exited"
          /\ timeouts' = FALSE
          /\ UNCHANGED <<routerVars, queue, worker, waiters>>
    /\ UNCHANGED <<sidebarVars, tickPending, ticker, stopVars, client, applied>>

-----------------------------------------------------------------------------
(* Stopping.                                                                *)

(* SIGTERM, and the monitor that finds the tmux server gone.                *)
Signal ==
    /\ stopper["signal"] = "none" /\ phase # "exited"
    /\ stopper' = [stopper EXCEPT !["signal"] = "begun"]
    /\ UNCHANGED <<routerVars, queue, worker, waiters, sidebarVars, tickVars, shutdown, ready,
                   client, applied>>

MonitorFails ==
    /\ stopper["monitor"] = "none" /\ boot = "done" /\ ~shutdown /\ phase # "exited"
    /\ stopper' = [stopper EXCEPT !["monitor"] = "failing"]
    /\ UNCHANGED <<routerVars, queue, worker, waiters, sidebarVars, tickVars, shutdown, ready,
                   client, applied>>

(* begin_shutdown and fail_stop set the flag; fail_stop is ready at once.   *)
SetShutdown(s) ==
    /\ stopper[s] \in {"begun", "failing"} /\ phase # "exited"
    /\ shutdown' = TRUE /\ ready' = (ready \/ stopper[s] = "failing")
    /\ stopper' = [stopper EXCEPT ![s] = "flagged"]
    /\ UNCHANGED <<routerVars, queue, worker, waiters, sidebarVars, tickVars, client, applied>>

(* mark_fatal: whoever was routing has finished, nobody is accepted after.  *)
mark_fatal(s) ==
    /\ stopper[s] = "flagged" /\ router = Free /\ phase # "exited"
    /\ fatal' = TRUE
    /\ stopper' = [stopper EXCEPT ![s] = "fatal"]
    /\ UNCHANGED <<phase, boot, batch, reconciled, router, nextSeq, fifo, queue, worker,
                   waiters, sidebarVars, tickVars, shutdown, ready, client, applied>>

(* The queue is cleared, which nobody looks at any more, and every waiter   *)
(* is answered but the one of the shutdown request itself; a signal is      *)
(* ready when this is done.                                                 *)
AnswerWaiters(s) ==
    LET current == IF s # "worker" THEN {}
                   ELSE IF boot = "done" THEN {worker.seq} ELSE {Head(batch).seq} IN
    /\ stopper[s] = "fatal" /\ phase # "exited"
    /\ queue' = <<>>
    /\ Answer(waiters \ current, "stopped") /\ waiters' = waiters \cap current
    /\ ready' = (ready \/ s = "signal")
    /\ stopper' = [stopper EXCEPT ![s] = "done"]
    /\ UNCHANGED <<routerVars, worker, sidebarVars, tickVars, shutdown, applied>>

(* wait_for_shutdown returns and the process ends; its sockets close.       *)
Exit ==
    /\ ready /\ boot = "done" /\ phase # "exited"
    /\ Exits
    /\ UNCHANGED <<boot, batch, reconciled, router, fatal, nextSeq, fifo, queue, worker,
                   waiters, sidebarVars, tickVars, stopVars, applied>>

-----------------------------------------------------------------------------
MqInit ==
    /\ phase = "installing" /\ boot = "install" /\ batch = <<>> /\ reconciled = FALSE
    /\ router = Free /\ fatal = FALSE /\ shutdown = FALSE /\ ready = FALSE
    /\ nextSeq = 1 /\ fifo = <<>> /\ queue = <<>> /\ worker = Gone
    /\ waiters = {} /\ deferred = {} /\ jobs = <<>> /\ completions = <<>>
    /\ tickPending = FALSE /\ ticker = "idle" /\ ticks = 0 /\ timeouts = TRUE
    /\ stopper = [s \in Stopper |-> "none"]
    /\ client = [c \in Client |-> [st |-> "idle", kind |-> "mutate", seq |-> 0, ans |-> "none"]]
    /\ applied = <<>>

Bootstrap == begin_hydration \/ take_bootstrap_fifo \/ BootApply \/ BootAnswer
                \/ InitialReconciliation \/ enter_serving_if_bootstrap_empty
WorkerStep == WorkerPop \/ WorkerApply \/ WorkerComplete
StopStep(s) == SetShutdown(s) \/ mark_fatal(s) \/ AnswerWaiters(s)

MqNext ==
    \/ \E c \in Client : RouteCheck(c) \/ RouteEnqueue(c)
    \/ Bootstrap \/ WorkerStep
    \/ SidebarWorker \/ ForwardCompletion
    \/ TickDue \/ EnqueueTick \/ PromptTimeout
    \/ Signal \/ MonitorFails
    \/ \E s \in Stopper : StopStep(s)
    \/ Exit

MqSpec == MqInit /\ [][MqNext]_mqVars

(* Threads run: the bootstrap thread, the worker, the sidebar worker and    *)
(* its forwarder, a stopper and the main thread take the steps they can.    *)
(* Nothing is assumed of clients, ticks, signals or the tmux server.        *)
MqFairness ==
    /\ WF_mqVars(Bootstrap) /\ WF_mqVars(WorkerStep)
    /\ WF_mqVars(SidebarWorker) /\ WF_mqVars(ForwardCompletion) /\ WF_mqVars(Exit)
    /\ \A s \in Stopper : WF_mqVars(StopStep(s))
    /\ \A c \in Client : WF_mqVars(RouteEnqueue(c))

MqFairSpec == MqSpec /\ MqFairness

-----------------------------------------------------------------------------
(* Properties.                                                              *)

MqTypeOK ==
    /\ phase \in {"installing", "hydrating", "serving", "exited"}
    /\ boot \in {"install", "take", "apply", "answer", "done"}
    /\ router \in Client \cup {Free}
    /\ {fatal, shutdown, ready, reconciled, tickPending, timeouts} \subseteq BOOLEAN
    /\ nextSeq \in Nat /\ ticks \in 0..MaxTicks /\ ticker \in {"idle", "flagged"}
    /\ \A s \in {fifo, queue, batch} : ToSet(s) \subseteq Accepted
    /\ worker \in Accepted \cup {Idle, Gone}
    /\ waiters \cup deferred \cup ToSet(jobs) \cup ToSet(completions) \subseteq Nat
    /\ stopper \in [Stopper -> {"none", "begun", "failing", "flagged", "fatal", "done"}]
    /\ \A c \in Client : client[c].st \in {"idle", "routing", "waiting", "answered"}
    /\ ToSet(applied) \subseteq Nat

(* The accepted numbers that somebody is still going to answer: they wait   *)
(* for their turn, are being applied, or their effect or its completion is  *)
(* under way.                                                               *)
InHand ==
    Seqs(fifo) \cup Seqs(queue) \cup Seqs(batch) \cup {worker.seq}
        \cup ToSet(jobs) \cup ToSet(completions)
        \cup {m.of : m \in ToSet(queue) \cup ToSet(fifo) \cup ToSet(batch) \cup {worker}}

Stopping == \E s \in Stopper : stopper[s] \notin {"none", "done"}

(* Nobody waits for an answer that nobody will give: a client that waits    *)
(* has a waiter, and its mutation is in hand or a stopper is about to       *)
(* answer it, however shutdown, bootstrap and the queue's limit interleave. *)
WaitersServed ==
    \A c \in Client : client[c].st = "waiting" =>
        /\ client[c].seq \in waiters
        /\ client[c].seq \in InHand \/ Stopping

(* Mutations are applied in the order they were accepted and at most once,  *)
(* across the hand-over from the bootstrap FIFO to the worker.              *)
AppliedInOrder ==
    \A i \in 2..Len(applied) : applied[i - 1] < applied[i]

(* A pending flag always has a tick behind it: a refused enqueue takes the  *)
(* flag back, so that a full queue never silences the ticks for good.       *)
TickNotLost ==
    tickPending => \/ ticker = "flagged"
                   \/ "tick" \in Kinds(queue) \cup Kinds(fifo) \cup Kinds(batch) \cup {worker.kind}
                   \/ shutdown

(* An answered request was applied; a request refused with QueueFull or     *)
(* NotReady was not, and never will be.                                     *)
AnswersHonest ==
    \A c \in Client : client[c].st = "answered" =>
        /\ client[c].ans \in {"done", "accepted"} => client[c].seq \in ToSet(applied)
        /\ client[c].ans \in {"queue_full", "not_ready"} => client[c].seq = 0

QueueSound == MqTypeOK /\ WaitersServed /\ AppliedInOrder /\ TickNotLost /\ AnswersHonest

(* A shutdown accepted by the serving daemon ends the process.              *)
ShutdownCompletes ==
    (boot = "done" /\ worker.kind = "shutdown" /\ worker.seq \in ToSet(applied))
        ~> phase = "exited"

(* Every client that waits is answered, or the process ends.                *)
EveryoneAnswered ==
    \A c \in Client : client[c].st = "waiting" ~> client[c].st = "answered"

(* While the daemon serves, expired dispatches are reported: the worker     *)
(* that looks for them keeps running.                                       *)
DeadlinesReported == Serving /\ ~shutdown => timeouts
=============================================================================
