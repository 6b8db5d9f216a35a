----------------------------- MODULE PromptClient -----------------------------
(***************************************************************************)
(* `vt agent request` and the waits on what it started: processes that     *)
(* share one request-state file under a lock (cli/agent_request.rs), start *)
(* an idempotent prompt Operation and poll it (api/agent/dispatch.rs,      *)
(* durable.rs, operation.rs, run.rs).  Any process may be killed at any    *)
(* step and run again, requests may be applied after their sender gave up, *)
(* and answers may be lost.  The daemon is reduced to its contract: an     *)
(* Operation per identifier that is dispatched at most once                *)
(* (PromptDispatch shows that the daemon keeps it).                        *)
(*                                                                         *)
(* A prompt is identified with its digest.  A directory, a lock or a file  *)
(* that is not private to the user is one of the failures of File system   *)
(* steps; a fault of any kind costs one of MaxFaults.                      *)
(***************************************************************************)
EXTENDS Naturals, FiniteSets

CONSTANTS
    Proc,        \* processes
    Prompt,      \* prompts a caller may supply
    MaxPromptCommands, \* bound: commands started
    MaxSends,    \* bound: start requests written in full
    MaxFaults    \* bound: crashes, failed writes, fatal answers

ASSUME ClientAssumption ==
    /\ IsFiniteSet(Proc) /\ IsFiniteSet(Prompt)
    /\ MaxPromptCommands \in Nat /\ MaxSends \in Nat /\ MaxFaults \in Nat

VARIABLES
    file,     \* the request-state file
    lock,     \* who holds the sidecar lock: a set of at most one process
    proc,     \* Proc -> what the process is doing
    wire,     \* start requests written and not yet read by the daemon
    ops,      \* the daemon's Operations, by identifier
    fresh,    \* identifiers generated
    sends, promptCommands, mishaps

clientVars == <<file, lock, proc, wire, ops, fresh, sends, promptCommands, mishaps>>

Ids == 1..MaxPromptCommands
Supplied == Prompt \cup {"none"}
Absent == [phase |-> "absent", id |-> 0, prompt |-> "none"]
NoOperation == [state |-> "absent", prompt |-> "none", delivered |-> 0,
                abandoned |-> FALSE, run |-> "none"]
DispatchStates == {"prepared", "started", "confirmed", "unknown", "rejected"}

(***************************************************************************)
(* What a command prints: what may have happened and what to do next.      *)
(***************************************************************************)
Printed(side, advice) == [side |-> side, advice |-> advice]
Silent == Printed("nothing", "nothing")
Confirmed == Printed("confirmed", "done")
prompt_wait_timeout == Printed("possible", "inspect_manually")
prompt_before_dispatch_timeout == Printed("none", "retry_same_request")
daemon_api_error == Printed("none", "retry_same_request")
RequestStateBusy == Printed("none", "wait_then_retry")
request_state_invalid == Printed("none", "fix_request")

ClientIdle == [cmd |-> "none", at |-> "idle", supplied |-> "none", id |-> 0, prompt |-> "none",
         late |-> FALSE, reached |-> FALSE, sent |-> 0, seen |-> NoOperation,
         follow |-> FALSE, out |-> Silent]

(***************************************************************************)
(* Init: no file, nobody running, an empty store of Operations.            *)
(***************************************************************************)
ClientInit ==
    /\ file = Absent
    /\ lock = {}
    /\ proc = [c \in Proc |-> ClientIdle]
    /\ wire = {}
    /\ ops = [i \in Ids |-> NoOperation]
    /\ fresh = 0 /\ sends = 0 /\ promptCommands = 0 /\ mishaps = 0

Fault == mishaps < MaxFaults /\ mishaps' = mishaps + 1

\* The process prints its answer, ends, and the lock goes with it.
Finish(c, out) ==
    /\ proc' = [proc EXCEPT ![c] = [ClientIdle EXCEPT !.cmd = proc[c].cmd, !.id = proc[c].id,
                                                !.seen = proc[c].seen,
                                                !.follow = proc[c].follow, !.out = out]]
    /\ lock' = lock \ {c}

ClientGoto(c, at) == proc' = [proc EXCEPT ![c].at = at]

(***************************************************************************)
(* vt agent request: validate_request has accepted the arguments.          *)
(***************************************************************************)
Request(c, supplied) ==
    /\ proc[c].at = "idle" /\ promptCommands < MaxPromptCommands
    /\ promptCommands' = promptCommands + 1
    /\ proc' = [proc EXCEPT ![c] = [ClientIdle EXCEPT !.cmd = "request", !.at = "lock",
                                                !.supplied = supplied]]
    /\ UNCHANGED <<file, lock, wire, ops, fresh, sends, mishaps>>

\* flock(LOCK_EX | LOCK_NB): a second process is turned away at once.
acquire(c) ==
    /\ proc[c].at = "lock"
    /\ \/ lock = {} /\ lock' = {c} /\ ClientGoto(c, "read")
       \/ lock # {} /\ Finish(c, RequestStateBusy)
    /\ UNCHANGED <<file, wire, ops, fresh, sends, promptCommands, mishaps>>

\* The file's intent must be the caller's: a mismatch prints without starting anything.
validate_intent(state, supplied) == supplied \in {"none", state.prompt}

\* Mutant: a file that already knows its Operation starts it once more.
M_Adopt(c, state) ==
    IF validate_intent(state, proc[c].supplied)
    THEN /\ proc' = [proc EXCEPT ![c].id = state.id, ![c].prompt = state.prompt, ![c].at = "start"]
         /\ UNCHANGED lock
    ELSE Finish(c, request_state_invalid)

\* An active file starts (or starts again); one whose Operation is known only observes it.
Adopt(c, state) ==
    IF validate_intent(state, proc[c].supplied)
    THEN /\ proc' = [proc EXCEPT ![c].id = state.id, ![c].prompt = state.prompt,
                                 ![c].at = IF state.phase = "active" THEN "start" ELSE "resume"]
         /\ UNCHANGED lock
    ELSE Finish(c, request_state_invalid)

read_state_if_present(c) ==
    /\ proc[c].at = "read"
    /\ \/ /\ file.phase = "absent" /\ proc[c].supplied = "none"
          /\ Finish(c, request_state_invalid)
          /\ UNCHANGED fresh
       \/ /\ file.phase = "absent" /\ proc[c].supplied # "none"
          /\ fresh' = fresh + 1
          /\ proc' = [proc EXCEPT ![c].id = fresh + 1, ![c].at = "publish"]
          /\ UNCHANGED lock
       \/ file.phase # "absent" /\ Adopt(c, file) /\ UNCHANGED fresh
    /\ UNCHANGED <<file, wire, ops, sends, promptCommands, mishaps>>

\* Mutant: a failed publish is treated as done by a fresh identifier that is never stored.
M_publish_initial_state(c) ==
    /\ proc[c].at = "publish"
    /\ proc' = [proc EXCEPT ![c].prompt = proc[c].supplied, ![c].at = "start"]
    /\ \/ file' = [phase |-> "active", id |-> proc[c].id, prompt |-> proc[c].supplied]
          /\ UNCHANGED mishaps
       \/ Fault /\ UNCHANGED file
    /\ UNCHANGED <<lock, wire, ops, fresh, sends, promptCommands>>

\* Temporary file, hard link, fsync of the directory.  When only the fsync fails the
\* file is there for the next run although this one gives up.
publish_initial_state(c) ==
    LET mine == [phase |-> "active", id |-> proc[c].id, prompt |-> proc[c].supplied]
        winner == IF file.phase = "absent" THEN mine ELSE file
    IN /\ proc[c].at = "publish"
       /\ \/ file' = winner /\ Adopt(c, winner) /\ UNCHANGED mishaps
          \/ file' \in {file, winner} /\ Fault /\ Finish(c, request_state_invalid)
       /\ UNCHANGED <<wire, ops, fresh, sends, promptCommands>>

(***************************************************************************)
(* agent_prompt: the loop that starts the Operation.                       *)
(***************************************************************************)
\* The deadline passes.
Expire(c) ==
    /\ proc[c].at \in {"start", "sent", "poll", "resume"} /\ ~proc[c].late
    /\ proc' = [proc EXCEPT ![c].late = TRUE]
    /\ UNCHANGED <<file, lock, wire, ops, fresh, sends, promptCommands, mishaps>>

\* A failed connection and a request that was not written in full change nothing.
SendStart(c) ==
    /\ proc[c].at = "start" /\ ~proc[c].late /\ sends < MaxSends
    /\ sends' = sends + 1
    /\ wire' = wire \cup {[id |-> proc[c].id, prompt |-> proc[c].prompt, serial |-> sends + 1]}
    /\ proc' = [proc EXCEPT ![c].at = "sent", ![c].sent = sends + 1]
    /\ UNCHANGED <<file, lock, ops, fresh, promptCommands, mishaps>>

\* No answer to a request written in full: the same request is sent again later.
ClientLosesAnswer(c) ==
    /\ proc[c].at = "sent"
    /\ proc' = [proc EXCEPT ![c].at = "start", ![c].reached = TRUE, ![c].sent = 0]
    /\ UNCHANGED <<file, lock, wire, ops, fresh, sends, promptCommands, mishaps>>

GiveUpStart(c) ==
    /\ proc[c].at = "start" /\ proc[c].late
    /\ Finish(c, IF proc[c].reached THEN prompt_wait_timeout ELSE prompt_before_dispatch_timeout)
    /\ UNCHANGED <<file, wire, ops, fresh, sends, promptCommands, mishaps>>

operation_is_terminal(op) == op.state \in {"confirmed", "unknown", "rejected"}

\* Whose answer it is: the process still waiting on the connection that carried it.
Waiting(r) == {c \in Proc : proc[c].at = "sent" /\ proc[c].sent = r.serial}

\* The daemon reads a start request; the Operation is created or found again.
StartAgentPrompt(r) ==
    LET op == IF ops[r.id].state = "absent"
              THEN [NoOperation EXCEPT !.state = "prepared", !.prompt = r.prompt]
              ELSE ops[r.id]
    IN /\ r \in wire
       /\ wire' = wire \ {r}
       /\ ops' = [ops EXCEPT ![r.id] = op]
       /\ \/ proc' = [c \in Proc |->
                         IF c \notin Waiting(r) THEN proc[c]
                         ELSE [proc[c] EXCEPT !.seen = op,
                                 !.at = IF operation_is_terminal(op) THEN "settle" ELSE "poll"]]
          \/ UNCHANGED proc
       /\ UNCHANGED <<file, lock, fresh, sends, promptCommands, mishaps>>

\* ... or refuses it.  The caller is told that nothing happened.
RefuseStart(r) ==
    /\ r \in wire /\ Fault
    /\ wire' = wire \ {r}
    /\ \/ \E c \in Waiting(r) : Finish(c, daemon_api_error)
       \/ Waiting(r) = {} /\ UNCHANGED <<proc, lock>>
    /\ UNCHANGED <<file, ops, fresh, sends, promptCommands>>

(***************************************************************************)
(* The daemon's side of an Operation (external).                           *)
(***************************************************************************)
Deliver(i) ==
    /\ ops[i].state = "prepared"
    /\ \/ ops' = [ops EXCEPT ![i].state = "started", ![i].delivered = @ + 1]
       \/ ops' = [ops EXCEPT ![i].state = "started"]
       \/ ops' = [ops EXCEPT ![i].state = "rejected"]
    /\ UNCHANGED <<file, lock, proc, wire, fresh, sends, promptCommands, mishaps>>

Decide(i) ==
    /\ \/ /\ ops[i].state \in {"started", "unknown"} /\ ops[i].delivered > 0 /\ ~ops[i].abandoned
          /\ ops' = [ops EXCEPT ![i].state = "confirmed", ![i].run = "working"]
       \/ /\ ops[i].state = "started"
          /\ ops' = [ops EXCEPT ![i].state = "unknown"]
    /\ UNCHANGED <<file, lock, proc, wire, fresh, sends, promptCommands, mishaps>>

RunMoves(i) ==
    /\ ops[i].run = "working"
    /\ \E to \in {"blocked", "done", "ended"} : ops' = [ops EXCEPT ![i].run = to]
    /\ UNCHANGED <<file, lock, proc, wire, fresh, sends, promptCommands, mishaps>>

\* The operator gives up on an Operation whose delivery stayed unknown.
agent_operation_abandon(i) ==
    /\ ops[i].state = "unknown" /\ ~ops[i].abandoned
    /\ ops' = [ops EXCEPT ![i].abandoned = TRUE]
    /\ UNCHANGED <<file, lock, proc, wire, fresh, sends, promptCommands, mishaps>>

(***************************************************************************)
(* Waits: wait_for_operation and wait_for_run.                             *)
(***************************************************************************)
Wait(c, cmd, i, follow) ==
    /\ proc[c].at = "idle" /\ promptCommands < MaxPromptCommands
    /\ ops[i].state # "absent" /\ (cmd = "run_wait" => ops[i].run # "none")
    /\ promptCommands' = promptCommands + 1
    /\ proc' = [proc EXCEPT ![c] = [ClientIdle EXCEPT !.cmd = cmd, !.at = "poll", !.id = i,
                                                !.follow = follow]]
    /\ UNCHANGED <<file, lock, wire, ops, fresh, sends, mishaps>>

run_wait_matches(op, untilCompleted) ==
    IF untilCompleted THEN op.run = "done" ELSE op.run # "working"

operation_wait_matches(op, followUnknown) ==
    \/ op.state \in {"confirmed", "rejected"}
    \/ op.state = "unknown" /\ (~followUnknown \/ op.abandoned)

WaitMatches(p, op) ==
    IF p.cmd = "run_wait" THEN run_wait_matches(op, p.follow)
                          ELSE operation_wait_matches(op, p.follow)

operation_terminal_error(op) ==
    IF op.state = "rejected" THEN Printed("none", "refresh_target")
                             ELSE Printed("possible", "inspect_manually")

\* What the deadline means depends on the last Operation record the poll has read.
DeadlineReport(p) ==
    IF p.cmd = "run_wait" THEN Printed("none", "wait_again")
    ELSE CASE p.seen.state = "prepared" -> prompt_before_dispatch_timeout
           [] p.seen.state = "unknown" -> operation_terminal_error(p.seen)
           [] OTHER -> prompt_wait_timeout

\* A request writes down the Operation it has seen, unless that is still before dispatch.
receipt_makes_request_observation_only(op) == op.state \notin {"absent", "prepared"}
Remembers(c) == proc[c].cmd = "request" /\ receipt_makes_request_observation_only(proc[c].seen)
                /\ file.phase = "active"

\* Mutant: the loop only looks at its deadline after a failed query.
M_Poll(c) ==
    LET op == ops[proc[c].id]
    IN /\ proc[c].at = "poll"
       /\ \/ /\ WaitMatches(proc[c], op)
             /\ proc' = [proc EXCEPT ![c].at = "settle", ![c].seen = op]
             /\ UNCHANGED <<lock, mishaps>>
          \/ /\ ~WaitMatches(proc[c], op)
             /\ proc' = [proc EXCEPT ![c].seen = op]
             /\ UNCHANGED <<lock, mishaps>>
          \/ proc[c].late /\ Fault /\ ClientGoto(c, "timeout") /\ UNCHANGED lock
          \/ Fault /\ Finish(c, daemon_api_error)
       /\ UNCHANGED <<file, wire, ops, fresh, sends, promptCommands>>

\* One turn of the loop.  A retryable error of the query (the last disjunct but one)
\* keeps the older record; any other error ends the wait.
Poll(c) ==
    LET op == ops[proc[c].id]
        next == IF proc[c].late THEN "timeout" ELSE "poll"
    IN /\ proc[c].at = "poll"
       /\ \/ /\ WaitMatches(proc[c], op)
             /\ proc' = [proc EXCEPT ![c].at = "settle", ![c].seen = op]
             /\ UNCHANGED <<lock, mishaps>>
          \/ /\ ~WaitMatches(proc[c], op)
             /\ proc' = [proc EXCEPT ![c].at = next, ![c].seen = op]
             /\ UNCHANGED <<lock, mishaps>>
          \/ proc[c].late /\ ClientGoto(c, "timeout") /\ UNCHANGED <<lock, mishaps>>
          \/ Fault /\ Finish(c, daemon_api_error)
       /\ UNCHANGED <<file, wire, ops, fresh, sends, promptCommands>>

\* agent_prompt_resume: the first query has no retry and its record is checked
\* against the file's identifier, target and digest.
agent_prompt_resume(c) ==
    LET op == ops[proc[c].id]
    IN /\ proc[c].at = "resume"
       /\ \/ /\ proc' = [proc EXCEPT ![c].seen = op,
                           ![c].at = IF operation_is_terminal(op) THEN "settle" ELSE "poll"]
             /\ UNCHANGED <<lock, mishaps>>
          \/ Fault /\ Finish(c, daemon_api_error)
       /\ UNCHANGED <<file, wire, ops, fresh, sends, promptCommands>>

\* What the command prints once its wait is over.
Outcome(p) ==
    IF p.at = "timeout" THEN DeadlineReport(p)
    ELSE IF p.cmd = "run_wait" \/ p.seen.state = "confirmed" THEN Confirmed
    ELSE operation_terminal_error(p.seen)

Settle(c) ==
    /\ proc[c].at \in {"settle", "timeout"} /\ ~Remembers(c)
    /\ Finish(c, Outcome(proc[c]))
    /\ UNCHANGED <<file, wire, ops, fresh, sends, promptCommands, mishaps>>

persistence_after_operation(op) ==
    CASE op.state = "rejected" -> Printed("none", "refresh_target")
      [] op.state = "confirmed" -> Printed("confirmed", "inspect_manually")
      [] OTHER -> Printed("possible", "inspect_manually")

\* remember_operation and replace_state: temporary file, rename, fsync.  A failure
\* leaves the old file, or the new one when only the fsync failed.
remember_operation(c) ==
    LET known == [file EXCEPT !.phase = "known"]
    IN /\ proc[c].at \in {"settle", "timeout"} /\ Remembers(c)
       /\ \/ file' = known /\ Finish(c, Outcome(proc[c])) /\ UNCHANGED mishaps
          \/ /\ file' \in {file, known} /\ Fault
             /\ Finish(c, persistence_after_operation(proc[c].seen))
       /\ UNCHANGED <<wire, ops, fresh, sends, promptCommands>>

\* The process dies; the kernel releases its lock, its requests stay on the wire.
ClientCrash(c) ==
    /\ proc[c].at # "idle" /\ Fault
    /\ proc' = [proc EXCEPT ![c] = ClientIdle]
    /\ lock' = lock \ {c}
    /\ UNCHANGED <<file, wire, ops, fresh, sends, promptCommands>>

ClientSteps(c) ==
    \/ acquire(c) \/ read_state_if_present(c) \/ publish_initial_state(c)
    \/ Expire(c) \/ SendStart(c) \/ ClientLosesAnswer(c) \/ GiveUpStart(c)
    \/ Poll(c) \/ agent_prompt_resume(c) \/ Settle(c) \/ remember_operation(c)

ClientNext ==
    \/ \E c \in Proc, s \in Supplied : Request(c, s)
    \/ \E c \in Proc, i \in Ids, cmd \in {"operation_wait", "run_wait"}, f \in BOOLEAN :
           Wait(c, cmd, i, f)
    \/ \E c \in Proc : ClientSteps(c) \/ ClientCrash(c)
    \/ \E r \in wire : StartAgentPrompt(r) \/ RefuseStart(r)
    \/ \E i \in Ids : Deliver(i) \/ Decide(i) \/ RunMoves(i) \/ agent_operation_abandon(i)

ClientSpec == ClientInit /\ [][ClientNext]_clientVars

\* Local steps are taken and deadlines pass; no answer of the daemon is assumed.
ClientProgress(c) ==
    \/ acquire(c) \/ read_state_if_present(c) \/ publish_initial_state(c)
    \/ Expire(c) \/ GiveUpStart(c) \/ (proc[c].at = "sent" /\ ClientLosesAnswer(c))
    \/ (proc[c].late /\ Poll(c)) \/ (proc[c].late /\ agent_prompt_resume(c))
    \/ Settle(c) \/ remember_operation(c)
ClientFairness == \A c \in Proc : WF_clientVars(ClientProgress(c))

(***************************************************************************)
(* Properties.                                                             *)
(***************************************************************************)

\* However often the request is run, killed, retried or raced by another process, its
\* prompt reaches the agent at most once, under the one identifier the file holds, and
\* with the prompt the file was created with; a process that holds a stale view of the
\* file never gets past the lock; and what a command printed is still true: confirmed
\* means delivered, and the advice to address a new target (refresh_target) is given
\* only for a prompt that was never delivered and never will be.
RequestSound ==
    /\ Cardinality(lock) <= 1
    /\ \A i \in Ids : ops[i].state # "absent" =>
           i = file.id /\ ops[i].prompt = file.prompt /\ ops[i].delivered <= 1
    /\ \A c \in Proc :
           LET op == ops[proc[c].id]
           IN /\ proc[c].out.side = "confirmed" => op.delivered = 1
              /\ proc[c].out.advice = "refresh_target" => op.state = "rejected" /\ op.delivered = 0
              /\ proc[c].out.advice = "done" /\ proc[c].cmd = "run_wait" /\ proc[c].follow
                     => op.run = "done"

\* Once the file names a known Operation no process writes another start request, so a
\* later run can only observe (execute's OperationKnown arm).
KnownOnlyObserves == [][file.phase = "known" => sends' = sends /\ file' = file]_clientVars

\* Every command ends, with the daemon up, down or silent: its loops all look at the
\* deadline and nobody waits for the lock.
EveryCommandEnds == \A c \in Proc : proc[c].at # "idle" ~> proc[c].at = "idle"
===============================================================================
