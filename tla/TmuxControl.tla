---------------------------- MODULE TmuxControl ----------------------------
(* The daemon's tmux control-mode connection: callers of execute_until, the *)
(* supervisor that connects, syncs, runs one command at a time and          *)
(* reconnects, one reader thread per connection, and shutdown.              *)
(*                                                                          *)
(* All events go through one bounded channel.  A killed connection leaves a *)
(* reader behind that still delivers what tmux had written: lines carry the *)
(* generation of their connection.  A response block is a begin and an end  *)
(* line; its text is the number of the command it answers.                  *)
EXTENDS Naturals, Sequences, SequencesExt, FiniteSets

CONSTANTS
    Caller,          \* threads that execute commands
    MaxEvents,       \* QUEUE_CAPACITY
    MaxCommand,      \* bound: commands executed
    MaxGeneration    \* bound: connections made

ASSUME ControlAssumption == {MaxEvents, MaxGeneration} \subseteq Nat

VARIABLES
    health,      \* what callers see
    supervisor,  \* where the supervisor is, and the command it runs
    generation,  \* the latest connection
    alive,       \* whether the latest control client process lives
    pipe,        \* lines written by each connection and not yet read
    stdin,       \* the command written to the latest connection, or 0
    events,      \* the channel
    caller,      \* execute_until
    commands,    \* bound, and numbers the commands
    stopping     \* shutdown: "no", "asked", "sent", "given_up"

tcVars == <<health, supervisor, generation, alive, pipe, stdin, events, caller, commands,
            stopping>>

Generation == 1..MaxGeneration
Job(c, n) == [type |-> "job", caller |-> c, command |-> n]
ShutdownEvent == [type |-> "shutdown"]
Line(g, kind, n) == [type |-> "line", generation |-> g, kind |-> kind, of |-> n]

NoJob == [caller |-> "nobody", command |-> 0]
Result(kind, n) == [kind |-> kind, of |-> n]

At(where) == supervisor.at = where
Answer_(c, n, result) ==
    [caller EXCEPT ![c] = IF @.st = "waiting" /\ @.command = n
                          THEN [st |-> "idle", command |-> n, result |-> result] ELSE @]

-----------------------------------------------------------------------------
(* execute_until                                                            *)

Execute(c) ==
    /\ caller[c].st = "idle" /\ commands < MaxCommand /\ stopping = "no"
    /\ commands' = commands + 1
    /\ LET n == commands + 1
           refused == health # "ready" \/ Len(events) >= MaxEvents \/ At("gone")
       IN IF refused
          THEN caller' = [caller EXCEPT ![c] = [st |-> "idle", command |-> n,
                                                result |-> Result("refused", 0)]]
               /\ UNCHANGED events
          ELSE caller' = [caller EXCEPT ![c] = [st |-> "waiting", command |-> n,
                                                result |-> Result("none", 0)]]
               /\ events' = Append(events, Job(c, n))
    /\ UNCHANGED <<health, supervisor, generation, alive, pipe, stdin, stopping>>

(* recv_timeout: the deadline, or a worker that dropped the sender.         *)
CallerTimeout(c) ==
    /\ caller[c].st = "waiting"
    /\ caller' = [caller EXCEPT ![c].st = "idle", ![c].result = Result("deadline", 0)]
    /\ UNCHANGED <<health, supervisor, generation, alive, pipe, stdin, events, commands,
                   stopping>>

-----------------------------------------------------------------------------
(* TmuxControlHandle::shutdown                                              *)

ShutdownStart ==
    /\ stopping = "no" /\ stopping' = "asked"
    /\ UNCHANGED <<health, supervisor, generation, alive, pipe, stdin, events, caller,
                   commands>>

ShutdownSend ==
    /\ stopping = "asked" /\ (Len(events) < MaxEvents \/ At("gone"))
    /\ stopping' = "sent"
    /\ events' = IF At("gone") THEN events ELSE Append(events, ShutdownEvent)
    /\ UNCHANGED <<health, supervisor, generation, alive, pipe, stdin, caller, commands>>

(* The channel stayed full for the whole wait.                              *)
ShutdownGivesUp_ ==
    /\ stopping = "asked" /\ Len(events) >= MaxEvents
    /\ stopping' = "given_up"
    /\ UNCHANGED <<health, supervisor, generation, alive, pipe, stdin, events, caller,
                   commands>>

-----------------------------------------------------------------------------
(* tmux and the reader threads.                                             *)

(* The control client runs a command, or exits.  A command that fails ends  *)
(* its block with another word and is answered alike.                       *)
TmuxWrites ==
    /\ alive
    /\ \/ /\ stdin # 0
          /\ pipe' = [pipe EXCEPT ![generation] =
                @ \o <<Line(generation, "begin", stdin), Line(generation, "end", stdin)>>]
          /\ stdin' = 0 /\ UNCHANGED alive
       \/ /\ alive' = FALSE /\ stdin' = 0
          /\ pipe' = [pipe EXCEPT ![generation] = Append(@, Line(generation, "eof", 0))]
    /\ UNCHANGED <<health, supervisor, generation, events, caller, commands, stopping>>

(* read_lines: a blocking send.                                             *)
ReaderSends(g) ==
    /\ pipe[g] # <<>> /\ (Len(events) < MaxEvents \/ At("gone"))
    /\ events' = IF At("gone") THEN events ELSE Append(events, Head(pipe[g]))
    /\ pipe' = [pipe EXCEPT ![g] = Tail(@)]
    /\ UNCHANGED <<health, supervisor, generation, alive, stdin, caller, commands, stopping>>

-----------------------------------------------------------------------------
(* The supervisor.                                                          *)

Supervise(at, command) == supervisor' = [at |-> at, command |-> command, block |-> 0]

(* poison: the process is killed; what it wrote stays in the pipe.          *)
Poison ==
    /\ alive' = FALSE /\ stdin' = 0
    /\ pipe' = IF alive THEN [pipe EXCEPT ![generation] = Append(@, Line(generation, "eof", 0))]
               ELSE pipe

(* The top of the loop and spawn_connection.                                *)
Connect_ ==
    /\ At("connect")
    /\ IF stopping # "no"
       THEN /\ Supervise("gone", NoJob) /\ health' = "degraded"
            /\ UNCHANGED <<generation, alive, pipe, stdin>>
       ELSE \/ /\ generation < MaxGeneration
               /\ generation' = generation + 1
               /\ alive' = TRUE /\ stdin' = 0 /\ health' = "starting"
               /\ \E end \in {"end", "error"} :
                     pipe' = [pipe EXCEPT ![generation'] =
                        <<Line(generation', "begin", 0), Line(generation', end, 0)>>]
               /\ Supervise("sync", NoJob)
            \/ /\ Supervise("drain", NoJob) /\ health' = "degraded"
               /\ UNCHANGED <<generation, alive, pipe, stdin>>
    /\ UNCHANGED <<events, caller, commands, stopping>>

(* A connection is given up: poison, fail_queued, wait_to_retry.            *)
Reconnect == Supervise("drain", NoJob) /\ health' = "degraded" /\ Poison

(* fail_queued and wait_to_retry: jobs are refused, lines and a shutdown    *)
(* met by fail_queued are dropped; the latter is seen as the flag.          *)
Drain ==
    /\ At("drain")
    /\ caller' = [c \in Caller |->
          IF \E i \in DOMAIN events : events[i].type = "job" /\ events[i].caller = c
                                      /\ events[i].command = caller[c].command
                                      /\ caller[c].st = "waiting"
          THEN [caller[c] EXCEPT !.st = "idle", !.result = Result("degraded", 0)] ELSE caller[c]]
    /\ events' = <<>>
    /\ Supervise("retry", NoJob)
    /\ UNCHANGED <<health, generation, alive, pipe, stdin, commands, stopping>>

RetryEvent ==
    /\ At("retry") /\ events # <<>>
    /\ LET e == Head(events) IN
       /\ caller' = IF e.type = "job" THEN Answer_(e.caller, e.command, Result("degraded", 0)) ELSE caller
       /\ IF e.type = "shutdown" THEN Supervise("gone", NoJob) ELSE UNCHANGED supervisor
    /\ events' = Tail(events)
    /\ UNCHANGED <<health, generation, alive, pipe, stdin, commands, stopping>>

RetryOver ==
    /\ At("retry") /\ Supervise("connect", NoJob)
    /\ UNCHANGED <<health, generation, alive, pipe, stdin, events, caller, commands, stopping>>

(* BlockParser::push on a line of the current generation.                   *)
Ours(e) == e.type = "line" /\ e.generation = generation
BreaksBlock(e) == \/ e.kind = "eof"
                  \/ e.kind = "begin" /\ supervisor.block # 0
Opens(e) == e.kind = "begin" /\ supervisor.block = 0
Closes(e) == e.kind \in {"end", "error"} /\ supervisor.block # 0
                /\ e.of = supervisor.block - 1

(* sync_connection: the block of attach-session.                            *)
SyncEvent ==
    /\ At("sync") /\ events # <<>>
    /\ LET e == Head(events) IN
       /\ caller' = IF e.type = "job" THEN Answer_(e.caller, e.command, Result("starting", 0)) ELSE caller
       /\ IF e.type = "shutdown"
          THEN Supervise("gone", NoJob) /\ health' = "degraded" /\ Poison
          ELSE IF Ours(e) /\ (BreaksBlock(e) \/ (Closes(e) /\ e.kind = "error")) THEN Reconnect
          ELSE /\ IF Ours(e) /\ Closes(e) THEN Supervise("ready", NoJob) /\ health' = "ready"
                  ELSE IF Ours(e) /\ Opens(e)
                  THEN supervisor' = [supervisor EXCEPT !.block = e.of + 1] /\ UNCHANGED health
                  ELSE UNCHANGED <<supervisor, health>>
               /\ UNCHANGED <<alive, pipe, stdin>>
    /\ events' = Tail(events)
    /\ UNCHANGED <<generation, commands, stopping>>

SyncTimeout ==
    /\ At("sync") /\ Reconnect
    /\ UNCHANGED <<generation, events, caller, commands, stopping>>

(* run_ready without a command: lines are read and dropped.                 *)
ReadyEvent ==
    /\ At("ready") /\ events # <<>>
    /\ LET e == Head(events) IN
       \/ /\ e.type = "job" /\ alive
          /\ Supervise("busy", [caller |-> e.caller, command |-> e.command])
          /\ stdin' = e.command
          /\ UNCHANGED <<health, alive, pipe, caller>>
       \/ /\ e.type = "job" /\ ~alive
          /\ caller' = Answer_(e.caller, e.command, Result("degraded", 0))
          /\ Reconnect
       \/ /\ e.type = "shutdown"
          /\ Supervise("gone", NoJob) /\ health' = "degraded" /\ Poison /\ UNCHANGED caller
       \/ /\ e.type = "line"
          /\ IF Ours(e) /\ e.kind = "eof" THEN Reconnect
             ELSE UNCHANGED <<supervisor, health, alive, pipe, stdin>>
          /\ UNCHANGED caller
    /\ events' = Tail(events)
    /\ UNCHANGED <<generation, commands, stopping>>

FailCurrent(result) == Answer_(supervisor.command.caller, supervisor.command.command, result)

(* run_ready with a command: its block answers it, another job is refused.  *)
BusyEvent ==
    /\ At("busy") /\ events # <<>>
    /\ LET e == Head(events) IN
       \/ /\ e.type = "job"
          /\ caller' = Answer_(e.caller, e.command, Result("queue_full", 0))
          /\ UNCHANGED <<supervisor, health, alive, pipe, stdin>>
       \/ /\ e.type = "shutdown"
          /\ caller' = FailCurrent(Result("unavailable", 0))
          /\ Supervise("gone", NoJob) /\ health' = "degraded" /\ Poison
       \/ /\ Ours(e) /\ BreaksBlock(e)
          /\ caller' = FailCurrent(Result("unavailable", 0)) /\ Reconnect
       \/ /\ Ours(e) /\ Closes(e)
          /\ caller' = FailCurrent(Result(e.kind, e.of))
          /\ Supervise("ready", NoJob)
          /\ UNCHANGED <<health, alive, pipe, stdin>>
       \/ /\ Ours(e) /\ Opens(e)
          /\ supervisor' = [supervisor EXCEPT !.block = e.of + 1]
          /\ UNCHANGED <<caller, health, alive, pipe, stdin>>
       \/ /\ e.type = "line" /\ ~Ours(e)
          /\ UNCHANGED <<supervisor, caller, health, alive, pipe, stdin>>
    /\ events' = Tail(events)
    /\ UNCHANGED <<generation, commands, stopping>>

(* The deadline of the running command: its block may still come, so the    *)
(* connection cannot be used for another command.                           *)
BusyDeadline ==
    /\ At("busy")
    /\ caller' = FailCurrent(Result("deadline", 0)) /\ Reconnect
    /\ UNCHANGED <<generation, events, commands, stopping>>

-----------------------------------------------------------------------------
TcInit ==
    /\ health = "starting" /\ supervisor = [at |-> "connect", command |-> NoJob, block |-> 0]
    /\ generation = 0 /\ alive = FALSE
    /\ pipe = [g \in Generation |-> <<>>]
    /\ stdin = 0 /\ events = <<>>
    /\ caller = [c \in Caller |-> [st |-> "idle", command |-> 0, result |-> Result("none", 0)]]
    /\ commands = 0 /\ stopping = "no"

SupervisorStep ==
    \/ Connect_ \/ Drain \/ RetryEvent \/ RetryOver \/ SyncEvent \/ ReadyEvent \/ BusyEvent

TcNext ==
    \/ SupervisorStep \/ SyncTimeout \/ BusyDeadline \/ TmuxWrites
    \/ \E c \in Caller : Execute(c) \/ CallerTimeout(c)
    \/ \E g \in Generation : ReaderSends(g)
    \/ ShutdownStart \/ ShutdownSend \/ ShutdownGivesUp_

TcSpec == TcInit /\ [][TcNext]_tcVars

(* The supervisor and the readers run and a retry delay passes; tmux is not *)
(* assumed to do anything.                                                  *)
TcFairness ==
    /\ WF_tcVars(SupervisorStep) /\ WF_tcVars(ShutdownSend)
    /\ WF_tcVars(\E g \in Generation : ReaderSends(g))
    /\ WF_tcVars(SyncTimeout) /\ WF_tcVars(BusyDeadline)
TcFairSpec == TcSpec /\ TcFairness

-----------------------------------------------------------------------------
(* Properties.                                                              *)

(* A caller that is answered gets the output of its own command, though     *)
(* readers of dead connections still send lines and a timed out command can *)
(* still produce its block (generation check, reconnect at the deadline).   *)
AnswerIsOwn ==
    \A c \in Caller : caller[c].result.kind \in {"end", "error"} =>
        caller[c].result.of = caller[c].command

(* When the supervisor has left, no control client of it lives; health is   *)
(* ready only while a connection serves.                                    *)
NoOrphanClient ==
    /\ At("gone") => ~alive
    /\ alive => supervisor.at \in {"sync", "ready", "busy"}
    /\ health = "ready" => supervisor.at \in {"ready", "busy"}
    /\ Len(events) <= MaxEvents

(* A shutdown that got its event into the channel ends the supervisor, also *)
(* when a reconnect drops the event, and a failed connection is always      *)
(* retried or ended.                                                        *)
ControlStops == (stopping = "sent") ~> At("gone")

ControlSound == AnswerIsOwn /\ NoOrphanClient
=============================================================================
