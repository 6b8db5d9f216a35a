----------------------------- MODULE AgentInput -----------------------------
(* The terminal input of the agent API: agent send, steer, send-keys and    *)
(* start, and pane split.  A call resolves an exact reference in one        *)
(* snapshot, verifies it against the live pane and process, hands tmux one  *)
(* guarded command, and verifies the target again before it reports.  The   *)
(* pane, its processes and the daemon go their own way between any two of   *)
(* these steps.  A caller that fails follows the error's retry action.      *)
EXTENDS Naturals, Sequences, FiniteSets

CONSTANTS
    MaxCalls,    \* bound: calls of the caller, retries included
    MaxChanges,  \* bound: changes of the pane the caller did not make
    MaxFailed    \* bound: failed connections, spawns and answers

ASSUME InputAssumption == {MaxCalls, MaxChanges, MaxFailed} \subseteq Nat

VARIABLES
    screen,   \* external: the pane: pid, foreground command, copy mode, agent
    listed,   \* the daemon's snapshot of it: identity and canonical status
    paneInstance, \* the daemon instance
    call,     \* the API call: step, what it resolved, its report
    mux,      \* the guarded command tmux has accepted and not run, or Quiet
    typed,    \* history: what tmux typed: call, process, and whether Enter
    changes, failed

inputVars == <<screen, listed, paneInstance, call, mux, typed, changes, failed>>

Provider == {"codex", "claude", "opencode"}
Shell == {"zsh"}
Operation == {"send", "steer", "keys", "start", "split"}
(* "unsure" is an idle agent whose badge is Unknown.                        *)
AgentStatus == {"working", "blocked", "limited", "done", "idle", "unsure"}

-----------------------------------------------------------------------------
(* Errors.  A code carries the side effect "none" and its default action    *)
(* unless the call attaches the dispatch context.                           *)

RefreshCodes == {"stale_reference", "agent_not_found", "dispatch_rejected", "target_replaced"}
WaitCodes == {"resource_limit", "agent_busy", "agent_blocked", "agent_limited", "timeout",
              "agent_not_input_owner", "exact_identity_unavailable"}
RestartCodes == {"daemon_unavailable", "daemon_query_failed", "stale_daemon"}

default_retry_action(code) ==
    CASE code \in RefreshCodes -> "refresh_target"
      [] code \in WaitCodes -> "wait_then_retry"
      [] code \in RestartCodes -> "restart_observation"
      [] code = "delivery_unknown" -> "inspect_manually"
      [] OTHER -> "never"

api_error(code) == [code |-> code, side |-> "none", retry |-> default_retry_action(code)]
with_dispatch_context(code, side, retry) == [code |-> code, side |-> side, retry |-> retry]
after_dispatch_error == with_dispatch_context("delivery_unknown", "confirmed", "inspect_manually")
agent_start_timeout == with_dispatch_context("timeout", "confirmed", "inspect_manually")
apply_terminal_mutation(outcome) ==
    IF outcome = "Rejected"
    THEN with_dispatch_context("dispatch_rejected", "none", "refresh_target")
    ELSE with_dispatch_context("delivery_unknown", "possible", "inspect_manually")
Success == [code |-> "ok", side |-> "confirmed", retry |-> "never"]

-----------------------------------------------------------------------------
(* guards.rs.                                                               *)

provider_capabilities ==
    [codex    |-> [dispatch |-> "durable", steer |-> TRUE, ready |-> "any"],
     claude   |-> [dispatch |-> "guarded_terminal", steer |-> TRUE, ready |-> "session"],
     opencode |-> [dispatch |-> "guarded_terminal", steer |-> FALSE, ready |-> "any"]]

AgentIdentity(l) == [pid |-> l.pid, epoch |-> l.epoch, proc |-> l.proc]
supported_shell(command) == command \in Shell

(* from_pane and require_same_agent: the canonical state of the snapshot    *)
(* and the process it lists.                                                *)
require_same_agent(l, id) == l.present /\ l.proc # 0 /\ AgentIdentity(l) = id
require_same_pane(l, pid) == l.pid = pid
(* tmux and the process table, asked directly.                              *)
require_live_pane_instance(pid) == screen.pid = pid
verify_live_agent_process(id) == screen.proc = id.proc
verify_agent_input_owner(id) == screen.proc = id.proc /\ screen.fg = screen.kind
verify_agent_input_target(id) ==
    /\ require_live_pane_instance(id.pid)
    /\ verify_live_agent_process(id)
    /\ verify_agent_input_owner(id)
agent_start_readiness_matches(l) ==
    provider_capabilities[l.kind].ready = "session" => l.session

-----------------------------------------------------------------------------
(* dispatch.rs: which agents an operation accepts.                          *)

agent_send(l) ==
    IF provider_capabilities[l.kind].dispatch # "guarded_terminal" THEN "unsupported_provider"
    ELSE CASE l.status = "working" -> "agent_busy"
           [] l.status = "blocked" -> "agent_blocked"
           [] l.status = "limited" -> "agent_limited"
           [] l.status = "unsure" -> "invalid_target"
           [] OTHER -> "ok"
agent_steer(l) ==
    CASE l.status = "blocked" -> "agent_blocked"
      [] l.status = "limited" -> "agent_limited"
      [] l.status # "working" -> "invalid_target"
      [] ~provider_capabilities[l.kind].steer -> "unsupported_provider"
      [] OTHER -> "ok"
agent_send_keys(l) == IF l.status = "blocked" THEN "ok" ELSE "invalid_target"
agent_start(l) ==
    CASE l.present -> "agent_busy"
      [] ~supported_shell(l.fg) -> "invalid_target"
      [] OTHER -> "ok"

Refusal(op, l) ==
    CASE op = "send" -> agent_send(l)
      [] op = "steer" -> agent_steer(l)
      [] op = "keys" -> agent_send_keys(l)
      [] op = "start" -> agent_start(l)
      [] op = "split" -> "ok"

ToAgent(op) == op \in {"send", "steer", "keys"}

-----------------------------------------------------------------------------
(* Calls.                                                                   *)

Quiet == [call |-> 0]
Nobody == [pid |-> 0, epoch |-> 0, proc |-> 0]
NoReport == [code |-> "none", side |-> "none", retry |-> "none"]
Ready == [n |-> 0, op |-> "send", at |-> "idle", id |-> Nobody, fg |-> "none", seen |-> 0,
          slow |-> FALSE, first |-> Nobody, report |-> NoReport]

Step(at) == call' = [call EXCEPT !.at = at]
Report(error) == call' = [call EXCEPT !.at = "done", !.report = error]
MayFail == failed < MaxFailed /\ failed' = failed + 1
PaneChanges == <<screen, listed, paneInstance, changes>>

(* The caller names the agent or pane it last saw in a snapshot.  Only      *)
(* Claude's image paths take the paste, settle, Enter route.                *)
Call(op, slow) ==
    /\ call.at = "idle"
    /\ ToAgent(op) => listed.present /\ listed.proc # 0
    /\ slow => op \in {"send", "steer"} /\ listed.kind = "claude"
    /\ call' = [Ready EXCEPT !.n = 1, !.op = op, !.at = "connect", !.slow = slow,
                   !.id = AgentIdentity(listed)]
    /\ UNCHANGED <<PaneChanges, mux, typed, failed>>

(* A caller that does what the error says: it waits, restarts its           *)
(* observation or refreshes the target, and repeats the request.  A target  *)
(* refreshed is again the pane's agent or the pane.                         *)
Retry ==
    /\ call.at = "done" /\ call.n < MaxCalls
    /\ call.report.retry \in {"wait_then_retry", "restart_observation", "refresh_target"}
    /\ ToAgent(call.op) => listed.present /\ listed.proc # 0
    /\ call' = [call EXCEPT !.n = @ + 1, !.at = "connect", !.report = NoReport, !.first = Nobody,
                   !.id = IF call.report.retry = "refresh_target" THEN AgentIdentity(listed) ELSE @]
    /\ UNCHANGED <<PaneChanges, mux, typed, failed>>

(* ApiConnection::connect, and the errors of the handshake: the daemon is   *)
(* away, or all its connection slots are taken.                             *)
connect ==
    /\ call.at = "connect"
    /\ \/ call' = [call EXCEPT !.at = "resolve", !.seen = paneInstance] /\ UNCHANGED failed
       \/ MayFail /\ \E code \in {"daemon_unavailable", "resource_limit"} : Report(api_error(code))
    /\ UNCHANGED <<PaneChanges, mux, typed>>

(* query_snapshot, resolve_agent or resolve_pane, the status guards.  The   *)
(* expected foreground command of the guard is the snapshot's.              *)
resolve_agent ==
    /\ call.at = "resolve"
    /\ IF ToAgent(call.op) /\ ~require_same_agent(listed, call.id)
       THEN Report(api_error(IF require_same_pane(listed, call.id.pid) /\ listed.present
                                /\ listed.epoch = call.id.epoch /\ listed.proc = 0
                             THEN "exact_identity_unavailable" ELSE "stale_reference"))
       ELSE IF ~require_same_pane(listed, call.id.pid) THEN Report(api_error("stale_reference"))
       ELSE IF Refusal(call.op, listed) # "ok" THEN Report(api_error(Refusal(call.op, listed)))
       ELSE call' = [call EXCEPT !.at = "verify", !.fg = listed.fg]
    /\ UNCHANGED <<PaneChanges, mux, typed, failed>>

Verified == IF ToAgent(call.op) THEN verify_agent_input_target(call.id)
            ELSE require_live_pane_instance(call.id.pid)

(* The tmux client does not start, or starts and is given the command.      *)
run_with_input ==
    /\ call.at = "verify"
    /\ IF ~Verified
       THEN Report(api_error("stale_reference")) /\ UNCHANGED <<mux, failed>>
       ELSE \/ /\ mux' = [call |-> call.n, keys |-> FALSE]
               /\ Step("tmux") /\ UNCHANGED failed
            \/ MayFail /\ Report(apply_terminal_mutation("Rejected")) /\ UNCHANGED mux
    /\ UNCHANGED <<PaneChanges, typed>>

-----------------------------------------------------------------------------
(* tmux runs the guarded command: server and pane, foreground command       *)
(* except for a split, and copy mode left, all in one command sequence.  A  *)
(* pane of another server is here a pane with another pid.                  *)

exact_pane_guard ==
    /\ screen.pid = call.id.pid
    /\ call.op # "split" => screen.fg = call.fg

Typing == [n |-> mux.call, enter |-> mux.keys \/ ~call.slow,
           proc |-> IF screen.fg = screen.kind THEN screen.proc ELSE 0]

(* A refused Enter leaves the pasted text behind; any other mismatch leaves *)
(* nothing.                                                                 *)
Mismatch == apply_terminal_mutation(IF mux.keys /\ call.slow THEN "DeliveryUnknown" ELSE "Rejected")

(* The client reads the marker, or loses its answer with the command given: *)
(* the command is then run all the same.                                    *)
GuardedCommand ==
    /\ mux # Quiet
    /\ mux' = Quiet
    /\ IF exact_pane_guard
       THEN /\ screen' = [screen EXCEPT !.mode = IF call.op = "split" THEN @ ELSE FALSE,
                             !.fg = IF call.op = "start" THEN "claude" ELSE @,
                             !.kind = IF call.op = "start" THEN "claude" ELSE @,
                             !.proc = IF call.op = "start" THEN screen.last + 1 ELSE @,
                             !.last = IF call.op = "start" THEN @ + 1 ELSE @]
            /\ typed' = Append(typed, Typing)
            /\ IF call.at = "tmux" THEN Step("applied") ELSE UNCHANGED call
       ELSE /\ UNCHANGED <<screen, typed>>
            /\ IF call.at = "tmux"
               THEN Report(Mismatch)
               ELSE UNCHANGED call
    /\ UNCHANGED <<listed, paneInstance, changes, failed>>

LoseAnswer ==
    /\ call.at = "tmux" /\ mux # Quiet /\ MayFail
    /\ Report(apply_terminal_mutation("DeliveryUnknown"))
    /\ UNCHANGED <<PaneChanges, mux, typed>>

(* submit_text_when_settled: the paste is in the composer, or the ten       *)
(* seconds pass; Enter is a guarded command of its own.                     *)
submit_text_when_settled ==
    /\ call.at = "applied" /\ call.slow /\ ~typed[Len(typed)].enter
    /\ \/ mux' = [call |-> call.n, keys |-> TRUE] /\ Step("tmux") /\ UNCHANGED failed
       \/ MayFail /\ Report(apply_terminal_mutation("DeliveryUnknown")) /\ UNCHANGED mux
    /\ UNCHANGED <<PaneChanges, typed>>

Entered == call.at = "applied" /\ typed[Len(typed)].enter

(* send-keys reports at once; send and steer reconnect and look again.  The *)
(* errors of the reconnection and of the query are reported as they are.    *)
after_reconnect ==
    \/ /\ paneInstance = call.seen /\ UNCHANGED failed
       /\ IF require_same_agent(listed, call.id) /\ verify_live_agent_process(call.id)
          THEN Report(Success) ELSE Report(after_dispatch_error)
    \/ paneInstance # call.seen /\ Report(api_error("stale_daemon")) /\ UNCHANGED failed
    \/ MayFail /\ \E code \in {"daemon_unavailable", "resource_limit", "daemon_query_failed"} :
                     Report(api_error(code))

Revalidate ==
    /\ Entered
    /\ \/ call.op = "keys" /\ Report(Success) /\ UNCHANGED failed
       \/ call.op \in {"send", "steer"} /\ after_reconnect
    /\ UNCHANGED <<PaneChanges, mux, typed>>

(* agent start and pane split ask the daemon to look at tmux again.         *)
refresh_canonical_topology_after_dispatch ==
    /\ Entered /\ call.op \in {"start", "split"}
    /\ \/ /\ paneInstance = call.seen
          /\ Step(IF call.op = "start" THEN "ready" ELSE "listed")
          /\ listed' = [listed EXCEPT !.pid = screen.pid, !.fg = screen.fg]
          /\ UNCHANGED failed
       \/ paneInstance # call.seen /\ Report(after_dispatch_error) /\ UNCHANGED <<listed, failed>>
       \/ MayFail /\ Report(after_dispatch_error) /\ UNCHANGED listed
    /\ UNCHANGED <<screen, paneInstance, changes, mux, typed>>

(* pane split waits for the new pane to be listed over fresh connections.   *)
pane_split ==
    /\ call.at = "listed"
    /\ \/ paneInstance = call.seen /\ Report(Success) /\ UNCHANGED failed
       \/ paneInstance # call.seen /\ Report(api_error("stale_daemon")) /\ UNCHANGED failed
       \/ MayFail /\ \E error \in {api_error("daemon_unavailable"), agent_start_timeout} :
                        Report(error)
    /\ UNCHANGED <<PaneChanges, mux, typed>>

Owner == [pid |-> listed.pid, epoch |-> listed.epoch, proc |-> listed.proc]

(* agent start: the snapshot shows the agent ready and it owns the input.   *)
AwaitReadiness ==
    /\ call.at = "ready"
    /\ \/ /\ paneInstance = call.seen /\ require_same_pane(listed, call.id.pid)
          /\ listed.present /\ UNCHANGED failed
          /\ IF listed.kind # "claude" THEN Report(after_dispatch_error)
             ELSE /\ agent_start_readiness_matches(listed) /\ listed.proc # 0
                  /\ IF verify_agent_input_owner(Owner)
                     THEN call' = [call EXCEPT !.at = "confirm", !.first = Owner]
                     ELSE Report(after_dispatch_error)
       \/ paneInstance = call.seen /\ listed.pid # call.id.pid /\ Report(after_dispatch_error)
          /\ UNCHANGED failed
       \/ paneInstance # call.seen /\ Report(after_dispatch_error) /\ UNCHANGED failed
       \/ MayFail /\ Report(agent_start_timeout)
    /\ UNCHANGED <<PaneChanges, mux, typed>>

(* After 50 ms it looks again over a fresh connection: the same identity,   *)
(* or another round.                                                        *)
SameTwice == Owner = call.first
ConfirmReadiness ==
    /\ call.at = "confirm"
    /\ \/ paneInstance # call.seen /\ Report(after_dispatch_error)
       \/ /\ paneInstance = call.seen
          /\ IF ~require_same_pane(listed, call.id.pid) \/ (listed.present /\ listed.kind # "claude")
             THEN Report(after_dispatch_error)
             ELSE IF ~listed.present \/ listed.proc = 0 \/ ~agent_start_readiness_matches(listed)
                     \/ ~SameTwice
             THEN Step("ready")
             ELSE IF verify_agent_input_owner(Owner) THEN Report(Success)
             ELSE Report(after_dispatch_error)
    /\ UNCHANGED <<PaneChanges, mux, typed, failed>>

-----------------------------------------------------------------------------
(* The pane and the daemon.                                                 *)

Change(s) ==
    /\ changes < MaxChanges /\ changes' = changes + 1
    /\ screen' = s /\ UNCHANGED <<listed, paneInstance, call, mux, typed, failed>>

AgentExits == screen.proc # 0 /\ Change([screen EXCEPT !.proc = 0, !.fg = "zsh"])
AgentStarts(kind) ==
    /\ screen.proc = 0 /\ screen.fg = "zsh"
    /\ Change([screen EXCEPT !.proc = screen.last + 1, !.last = @ + 1, !.fg = kind, !.kind = kind])
PaneRespawns ==
    Change([screen EXCEPT !.pid = @ + 1, !.proc = 0, !.fg = "zsh", !.mode = FALSE])
OtherForeground ==
    /\ screen.proc # 0
    /\ Change([screen EXCEPT !.fg = IF screen.fg = "vim" THEN screen.kind ELSE "vim"])
CopyMode == ~screen.mode /\ Change([screen EXCEPT !.mode = TRUE])

(* The daemon observes the pane.  A new process, or a new session in the    *)
(* same process, is a new agent epoch; the process may not be the only      *)
(* candidate, and is then not listed.                                       *)
Observe(status, session, unique) ==
    LET fresh == screen.proc # 0 /\ screen.proc # listed.proc
    IN /\ screen.proc = 0 => unique
       /\ listed' = [pid |-> screen.pid, fg |-> screen.fg,
                     kind |-> IF screen.proc = 0 THEN listed.kind ELSE screen.kind,
                     present |-> screen.proc # 0,
                     proc |-> IF unique THEN screen.proc ELSE 0,
                     epoch |-> IF fresh THEN listed.epoch + 1 ELSE listed.epoch,
                     status |-> status, session |-> session]
       /\ listed' # listed
       /\ changes < MaxChanges /\ changes' = changes + 1
       /\ UNCHANGED <<screen, paneInstance, call, mux, typed, failed>>

DaemonRestarts ==
    /\ changes < MaxChanges /\ changes' = changes + 1
    /\ paneInstance' = paneInstance + 1
    /\ UNCHANGED <<screen, listed, call, mux, typed, failed>>

(* The pane holds an idle Claude, or only a shell.                          *)
InputInit ==
    /\ \E agent \in {0, 1} : LET fg == IF agent = 1 THEN "claude" ELSE "zsh" IN
         /\ screen = [pid |-> 1, fg |-> fg, mode |-> FALSE, kind |-> "claude", proc |-> agent,
                      last |-> 1]
         /\ listed = [pid |-> 1, fg |-> fg, kind |-> "claude", present |-> agent = 1,
                      proc |-> agent, epoch |-> 1, status |-> "idle", session |-> agent = 1]
    /\ paneInstance = 1 /\ call = Ready /\ mux = Quiet /\ typed = <<>>
    /\ changes = 0 /\ failed = 0

InputNext ==
    \/ \E op \in Operation, slow \in BOOLEAN : Call(op, slow)
    \/ Retry \/ connect \/ resolve_agent \/ run_with_input \/ GuardedCommand \/ LoseAnswer
    \/ submit_text_when_settled \/ Revalidate \/ refresh_canonical_topology_after_dispatch
    \/ pane_split \/ AwaitReadiness \/ ConfirmReadiness
    \/ AgentExits \/ PaneRespawns \/ OtherForeground \/ CopyMode \/ DaemonRestarts
    \/ \E kind \in Provider : AgentStarts(kind)
    \/ \E status \in AgentStatus, session, unique \in BOOLEAN : Observe(status, session, unique)

InputSpec == InputInit /\ [][InputNext]_inputVars

-----------------------------------------------------------------------------
TypedBy(n) == {i \in DOMAIN typed : typed[i].n = n}

(* A call that reports success of a send or a steer typed its text and one  *)
(* Enter, and every key of it reached the very process the reference names: *)
(* the guard only knows the pane and the command, and the identity checks   *)
(* on both sides of it close the gap.  That takes a snapshot that listed    *)
(* the agent's own command: with another program in the foreground then and *)
(* again when tmux looks, and not while the call looks itself, the guard    *)
(* lets the keys go to that program.                                        *)
ReportsHonest ==
    /\ call.at = "done" /\ call.report.code = "ok" /\ call.op \in {"send", "steer"} =>
         /\ Cardinality(TypedBy(call.n)) = IF call.slow THEN 2 ELSE 1
         /\ call.fg \in Provider => \A i \in TypedBy(call.n) : typed[i].proc = call.id.proc
(* A call refused with no side effect before dispatch typed nothing, and    *)
(* nothing of it is typed later.                                            *)
    /\ call.at = "done" /\ call.report.code \in {"dispatch_rejected", "stale_reference"} =>
         TypedBy(call.n) = {} /\ mux.call # call.n

(* AGENT_API.md:465: steer uses the "foreground input-owner" guards of the  *)
(* durable dispatch.  Not so with the command of the snapshot: see above.   *)
KeysReachTheAgent ==
    call.at = "done" /\ call.report.code = "ok" /\ call.op \in {"send", "steer"} =>
        \A i \in TypedBy(call.n) : typed[i].proc = call.id.proc

(* Post-dispatch uncertainty is never an invitation to send again: a caller *)
(* that follows the retry action of every error types its prompt once.      *)
AdviceNeverRepeats ==
    Cardinality({typed[i].n : i \in DOMAIN typed}) <= 1
=============================================================================
