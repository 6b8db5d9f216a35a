--------------------------- MODULE PromptDispatch ---------------------------
(***************************************************************************)
(* Durable prompt dispatch: the Operation records of agent_state, the      *)
(* in-memory dispatch fence, the prompt handler of the mutation worker     *)
(* (daemon/server/mutations/agent.rs), the guarded tmux dispatch, and the  *)
(* provider hooks that link a Run to an Operation.                         *)
(*                                                                         *)
(* The daemon applies every mutation on ONE worker thread, so a handler is *)
(* one action unless the outside world can act in the middle of it.  The   *)
(* prompt handler is the exception: it hands the body to a tmux client and *)
(* waits, so it is split at the points where it waits or where the daemon  *)
(* may die having already written.  A write that fails, and a crash        *)
(* between two writes of one handler, are explicit outcomes.               *)
(*                                                                         *)
(* A Target stands for the stable part of an Operation's binding (server,  *)
(* pane instance, pane state id, agent kind, agent process): a replaced    *)
(* process is another Target.  Only Codex can be dispatched to, so the     *)
(* provider checks on the agent kind are always true here.  The prompts    *)
(* are ordinary ones: their operations are staged without a session.  The  *)
(* re-sends of Codex capacity recovery, which pin the session and need a   *)
(* failed run instead of an idle agent, are not modelled here.             *)
(***************************************************************************)
EXTENDS Naturals, FiniteSets

CONSTANTS
    Op,             \* operation ids, chosen by callers
    Target,         \* stable dispatch targets
    Prompt,         \* prompt bodies, told apart by their digests
    Turn,           \* provider turn keys
    TargetOf,       \* the target of an operation's request
    PromptOf,       \* the prompt of an operation's request
    NoOp, NoRec, NoRun, NoTurn,
    MaxSess,        \* bound on provider sessions of a target
    MaxCrash,       \* bound on daemon crashes
    MaxFault,       \* bound on failed writes
    ConfirmFaults   \* may the write that confirms a linked operation fail?

ASSUME ConstantsAssumption ==
    /\ TargetOf \in [Op -> Target]
    /\ PromptOf \in [Op -> Prompt]
    /\ NoOp \notin Op
    /\ NoTurn \notin Turn
    /\ MaxSess \in Nat \ {0} /\ MaxCrash \in Nat /\ MaxFault \in Nat
    /\ ConfirmFaults \in BOOLEAN

VARIABLES
    ops,      \* disk: operations directory
    prompts,  \* disk: staged prompt bodies
    runs,     \* disk: runs directory (a Run is named by its turn)
    pane,     \* disk: the canonical pane record of each target
    fence,    \* memory: in_flight_by_binding
    worker,   \* memory: where the prompt handler stands
    daemon,   \* "up", "booting" or "down"
    expired,  \* operations whose confirmation deadline has passed
    tmux,     \* external: the guarded dispatch command of each operation
    agent,    \* external: the provider process of each target
    turns,    \* external: the turns the provider has started
    hooks,    \* external: hook processes that have not reached the daemon
    sent,     \* history: how often the body of each operation was pasted
    crashes, faults

disk    == <<ops, prompts, runs, pane>>
memory  == <<fence, worker>>
outside == <<tmux, agent, turns, hooks, sent>>
vars    == <<disk, memory, daemon, expired, outside, crashes, faults>>

NoSess == 0

(* DispatchState.  "Abandoned" is DeliveryUnknown with the operator's       *)
(* receipt (OperationRecord::operator_abandoned).                           *)
DispatchState == {"Prepared", "DispatchStarted", "PromptConfirmed",
                  "DeliveryUnknown", "Rejected", "Abandoned"}

OperationRecord == [st : DispatchState, epoch : Nat, sess : Nat, seq : Nat,
                    run : Turn \cup {NoTurn}]
RunRecord == [target : Target, op : Op \cup {NoOp}, epoch : Nat, sess : Nat,
              seq : Nat, active : BOOLEAN, stopped : BOOLEAN]
PaneRecord == [epoch : Nat, sess : Nat, seq : Nat, busy : BOOLEAN]
TurnRecord == [target : Target, sess : Nat, prompt : Prompt]
Hook == [kind : {"SessionStart"}, target : Target, sess : Nat, turn : {NoTurn}]
        \cup [kind : {"UserPromptSubmit", "Stop"}, target : Target, sess : Nat, turn : Turn]
Idle == [pc |-> "idle", op |-> NoOp]

State(o) == IF ops[o] = NoRec THEN "None" ELSE ops[o].st

(* OperationRecord::in_flight and prompt_staging_required. *)
InFlight(o) == State(o) \in {"Prepared", "DispatchStarted"}

(* OperationRecord::dispatch_fenced. *)
Fenced(o) == State(o) \in {"Prepared", "DispatchStarted", "DeliveryUnknown"}

ASSUME RecordsAssumption ==
    /\ NoRec \notin OperationRecord
    /\ NoRun \notin RunRecord
    /\ NoTurn \notin TurnRecord

TypeOK ==
    /\ ops \in [Op -> OperationRecord \cup {NoRec}]
    /\ prompts \subseteq Op
    /\ runs \in [Turn -> RunRecord \cup {NoRun}]
    /\ pane \in [Target -> PaneRecord]
    /\ fence \in [Target -> Op \cup {NoOp}]
    /\ worker \in {Idle} \cup [pc : {"prepared", "dispatching", "awaiting"}, op : Op]
    /\ daemon \in {"up", "booting", "down"}
    /\ expired \subseteq Op
    /\ tmux \in [Op -> {"none", "spawned", "ran", "refused"}]
    /\ agent \in [Target -> [sess : Nat, inbox : SUBSET Op]]
    /\ turns \in [Turn -> TurnRecord \cup {NoTurn}]
    /\ hooks \subseteq Hook
    /\ sent \in [Op -> Nat]
    /\ crashes \in Nat /\ faults \in Nat

NoFence == [t \in Target |-> NoOp]

(* A fresh store, a serving daemon, and in every target an idle Codex whose *)
(* session the pane record already knows (RunLedger models the other case). *)
Init ==
    /\ ops = [o \in Op |-> NoRec]
    /\ prompts = {}
    /\ runs = [n \in Turn |-> NoRun]
    /\ pane = [t \in Target |-> [epoch |-> 1, sess |-> 1, seq |-> 0, busy |-> FALSE]]
    /\ fence = NoFence
    /\ worker = Idle
    /\ daemon = "up"
    /\ expired = {}
    /\ tmux = [o \in Op |-> "none"]
    /\ agent = [t \in Target |-> [sess |-> 1, inbox |-> {}]]
    /\ turns = [n \in Turn |-> NoTurn]
    /\ hooks = {}
    /\ sent = [o \in Op |-> 0]
    /\ crashes = 0 /\ faults = 0

-----------------------------------------------------------------------------
(* Failed writes and crashes. *)

Fault == faults < MaxFault /\ faults' = faults + 1
NoFault == UNCHANGED faults

CrashNow ==
    /\ crashes < MaxCrash
    /\ crashes' = crashes + 1
    /\ daemon' = "down"
    /\ fence' = NoFence
    /\ worker' = Idle

Serving == daemon = "up" /\ worker = Idle

(* release_dispatch_fence: only the owner's own entry is removed. *)
Release(f, o) == IF f[TargetOf[o]] = o THEN [f EXCEPT ![TargetOf[o]] = NoOp] ELSE f

-----------------------------------------------------------------------------
(* AgentRuntime::settle_dispatch, for a set S of operations that all move   *)
(* to states given by `to`.  The record is saved, the fence of a rejected   *)
(* operation is released, and the staged body is deleted; the deletion may  *)
(* fail after the record is saved, which leaves the body behind.            *)

(* save_operation of a settled record. *)
Settled(S, to) == [o \in Op |-> IF o \in S THEN [ops[o] EXCEPT !.st = to[o]] ELSE ops[o]]

SettledFence(S, to) ==
    [t \in Target |-> IF \E o \in S : to[o] = "Rejected" /\ TargetOf[o] = t /\ fence[t] = o
                      THEN NoOp ELSE fence[t]]

SettleSaved(S, to) ==
    /\ ops' = Settled(S, to)
    /\ fence' = SettledFence(S, to)
    /\ \/ prompts' = prompts \ S /\ NoFault
       \/ \E o \in S : prompts' = prompts \ (S \ {o}) /\ Fault

(* Mutant: the body is deleted before the settled record is saved. *)
settle_dispatchDeletesFirst(o, st) ==
    \/ SettleSaved({o}, [x \in Op |-> st])
    \/ Fault /\ prompts' = prompts \ {o} /\ UNCHANGED <<ops, fence>>

settle_dispatch(o, st) ==
    \/ SettleSaved({o}, [x \in Op |-> st])
    \/ Fault /\ UNCHANGED <<ops, fence, prompts>>

-----------------------------------------------------------------------------
(* The prompt handler, apply_prompt_inner.                                  *)

(* resolve_prompt_target_inner: the agent reference must still name the     *)
(* pane's epoch, the agent must be idle with no unfinished turn, and the    *)
(* operation expects the pane's next run sequence.  Composer, transcript    *)
(* and hook-health checks are observations of the outside: a handler that   *)
(* finds one failing returns without changing anything.                     *)
Expected(o) ==
    LET p == pane[TargetOf[o]] IN
    [st |-> "Prepared", epoch |-> p.epoch, sess |-> NoSess, seq |-> p.seq + 1, run |-> NoTurn]

TargetReady(o) == ~pane[TargetOf[o]].busy

(* prepared_operation_matches_target and agent_prompt_identity_matches. *)
TargetMatches(o) == TargetReady(o) /\ ops[o] = Expected(o)

(* prepare_operation: the fence must be free; the body is staged, then the  *)
(* record is saved, then the fence is taken.  If saving fails the body is   *)
(* deleted again (and that deletion's own failure is ignored).              *)
prepare_operation(o) ==
    /\ Serving /\ ops[o] = NoRec /\ TargetReady(o)
    /\ fence[TargetOf[o]] = NoOp
    /\ \/ /\ ops' = [ops EXCEPT ![o] = Expected(o)]
          /\ prompts' = prompts \cup {o}
          /\ fence' = [fence EXCEPT ![TargetOf[o]] = o]
          /\ worker' = [pc |-> "prepared", op |-> o]
          /\ NoFault
       \/ /\ Fault
          /\ prompts' \in {prompts, prompts \ {o}, prompts \cup {o}}
          /\ UNCHANGED <<ops, fence, worker>>
    /\ UNCHANGED <<runs, pane, daemon, expired, outside, crashes>>

(* The same request again, while its operation is still Prepared and not    *)
(* expired, resumes the guarded dispatch if the target is unchanged.        *)
ResumePrepared(o) ==
    /\ Serving /\ State(o) = "Prepared" /\ o \notin expired /\ TargetMatches(o)
    /\ worker' = [pc |-> "prepared", op |-> o]
    /\ UNCHANGED <<disk, fence, daemon, expired, outside, crashes, faults>>

(* reject_prepared_retry_if_expired, and the two rejections of a Prepared   *)
(* operation whose target no longer resolves or no longer matches.          *)
RejectPreparedRetry(o) ==
    /\ Serving /\ State(o) = "Prepared"
    /\ settle_dispatch(o, "Rejected")
    /\ UNCHANGED <<runs, pane, worker, daemon, expired, outside, crashes>>

(* reject_pre_dispatch: the pane lock is busy, the process or input owner   *)
(* changed, or the pane precondition no longer holds.                       *)
RejectPreDispatch ==
    /\ worker.pc = "prepared"
    /\ settle_dispatch(worker.op, "Rejected")
    /\ worker' = Idle
    /\ UNCHANGED <<runs, pane, daemon, expired, outside, crashes>>

(* Mutant: dispatch_started is not saved before tmux is spawned. *)
mark_dispatch_startedUnsaved ==
    /\ worker.pc = "prepared"
    /\ TargetMatches(worker.op)
    /\ worker' = [worker EXCEPT !.pc = "dispatching"]
    /\ UNCHANGED <<ops, prompts, runs, pane, fence, daemon, expired, outside, crashes, faults>>

(* mark_dispatch_started is saved BEFORE tmux is spawned.  If the save      *)
(* fails, the operation stays Prepared and nothing is sent; if only the     *)
(* staged body cannot be read back, it stays DispatchStarted.               *)
mark_dispatch_started ==
    LET o == worker.op
        started == [ops EXCEPT ![o].st = "DispatchStarted"]
    IN
    /\ worker.pc = "prepared"
    /\ TargetMatches(o)
    /\ \/ ops' = started /\ worker' = [worker EXCEPT !.pc = "dispatching"] /\ NoFault
       \/ ops' \in {ops, started} /\ worker' = Idle /\ Fault
    /\ UNCHANGED <<prompts, runs, pane, fence, daemon, expired, outside, crashes>>

(* dispatch_prompt_inner: the pane command query, then one tmux client that *)
(* checks the server and pane identity and pastes the body.                 *)
SpawnTmux ==
    /\ worker.pc = "dispatching"
    /\ worker' = [worker EXCEPT !.pc = "awaiting"]
    /\ tmux' = [tmux EXCEPT ![worker.op] = "spawned"]
    /\ UNCHANGED <<disk, fence, daemon, expired, agent, turns, hooks, sent, crashes, faults>>

(* DispatchOutcome::Rejected before the spawn. *)
RejectBeforeSpawn ==
    /\ worker.pc = "dispatching"
    /\ settle_dispatch(worker.op, "Rejected")
    /\ worker' = Idle
    /\ UNCHANGED <<runs, pane, daemon, expired, outside, crashes>>

(* The command runs in the tmux server: it may run late, after the daemon   *)
(* stopped waiting or died, or never.                                       *)
TmuxRun(o) ==
    /\ tmux[o] = "spawned"
    /\ tmux' = [tmux EXCEPT ![o] = "ran"]
    /\ agent' = [agent EXCEPT ![TargetOf[o]].inbox = @ \cup {o}]
    /\ sent' = [sent EXCEPT ![o] = @ + 1]
    /\ UNCHANGED <<disk, memory, daemon, expired, turns, hooks, crashes, faults>>

TmuxRefuse(o) ==
    /\ tmux[o] = "spawned"
    /\ tmux' = [tmux EXCEPT ![o] = "refused"]
    /\ UNCHANGED <<disk, memory, daemon, expired, agent, turns, hooks, sent, crashes, faults>>

(* Mutant: the worker goes idle but keeps the operation of the last request. *)
AwaitSubmittedKeepsOp ==
    /\ worker.pc = "awaiting" /\ tmux[worker.op] = "ran"
    /\ worker' = [worker EXCEPT !.pc = "idle"]
    /\ UNCHANGED <<disk, fence, daemon, expired, outside, crashes, faults>>

(* DispatchOutcome::Submitted: the record is only read back. *)
AwaitSubmitted ==
    /\ worker.pc = "awaiting" /\ tmux[worker.op] = "ran"
    /\ worker' = Idle
    /\ UNCHANGED <<disk, fence, daemon, expired, outside, crashes, faults>>

(* DispatchOutcome::Rejected: a mismatch marker came back. *)
AwaitRejected ==
    /\ worker.pc = "awaiting" /\ tmux[worker.op] = "refused"
    /\ settle_dispatch(worker.op, "Rejected")
    /\ worker' = Idle
    /\ UNCHANGED <<runs, pane, daemon, expired, outside, crashes>>

(* DispatchOutcome::DeliveryUnknown: an error after the spawn, or no        *)
(* marker; the command may have run or may still run.                       *)
AwaitUnknown ==
    /\ worker.pc = "awaiting"
    /\ settle_dispatch(worker.op, "DeliveryUnknown")
    /\ worker' = Idle
    /\ UNCHANGED <<runs, pane, daemon, expired, outside, crashes>>

-----------------------------------------------------------------------------
(* Deadlines and the operator.                                              *)

DeadlinePasses(o) ==
    /\ ops[o] # NoRec /\ o \notin expired
    /\ expired' = expired \cup {o}
    /\ UNCHANGED <<disk, memory, daemon, outside, crashes, faults>>

(* Mutant: every expired operation is rejected, a started one as well. *)
TimeoutStateRejects(o) == "Rejected"

(* The deadline's target state: settle_expired_dispatches. *)
TimeoutState(o) == IF State(o) = "Prepared" THEN "Rejected" ELSE "DeliveryUnknown"

(* Mutant: only a Prepared operation times out. *)
settle_expired_dispatchesPrepared ==
    LET due == {o \in expired : State(o) = "Prepared" /\ fence[TargetOf[o]] = o} IN
    /\ Serving /\ due # {}
    /\ SettleSaved(due, [o \in Op |-> "Rejected"])
    /\ UNCHANGED <<runs, pane, worker, daemon, expired, outside, crashes>>

(* The timeout mutation settles every expired operation the FENCE lists;    *)
(* the first failed write ends the handler, so any part of them may be      *)
(* settled.                                                                 *)
settle_expired_dispatches ==
    LET due == {o \in expired : InFlight(o) /\ fence[TargetOf[o]] = o}
        to  == [o \in Op |-> TimeoutState(o)]
    IN
    /\ Serving /\ due # {}
    /\ \/ SettleSaved(due, to)
       \/ \E S \in SUBSET due : /\ Fault
                                /\ ops' = Settled(S, to)
                                /\ fence' = SettledFence(S, to)
                                /\ prompts' = prompts \ S
    /\ UNCHANGED <<runs, pane, worker, daemon, expired, outside, crashes>>

(* Mutant: an operation still in flight can be abandoned. *)
abandon_operationInFlight(o) ==
    /\ Serving /\ Fenced(o)
    /\ ops' = [ops EXCEPT ![o].st = "Abandoned"]
    /\ fence' = Release(fence, o)
    /\ prompts' = prompts \ {o}
    /\ UNCHANGED <<runs, pane, worker, daemon, expired, outside, crashes, faults>>

(* abandon_operation: only an unlinked DeliveryUnknown, and not when a Run  *)
(* that was already saved carries the operation's id.                       *)
abandon_operation(o) ==
    /\ Serving /\ State(o) = "DeliveryUnknown"
    /\ \A n \in Turn : runs[n] # NoRun => runs[n].op # o
    /\ ops' = [ops EXCEPT ![o].st = "Abandoned"]
    /\ fence' = Release(fence, o)
    /\ prompts' = prompts \ {o}
    /\ UNCHANGED <<runs, pane, worker, daemon, expired, outside, crashes, faults>>

-----------------------------------------------------------------------------
(* Provider hooks: AgentRuntime::apply_provider_observation and the pane    *)
(* projection of its result.                                                *)

(* operation_binding_matches_agent. *)
BindingMatches(r, epoch, sess) ==
    IF r.epoch = epoch THEN r.sess \in {NoSess, sess} ELSE r.epoch + 1 = epoch

(* operation_run_sequence_matches_agent. *)
SequenceMatches(r, epoch, seq) ==
    IF r.epoch = epoch THEN r.seq = seq ELSE r.epoch + 1 = epoch /\ seq = 1

(* Mutant: any prompt is taken for the operation's own. *)
matching_operationAnyPrompt(t, epoch, sess, seq, p) ==
    LET o == fence[t] IN
    IF /\ o # NoOp
       /\ State(o) \in {"DispatchStarted", "DeliveryUnknown"}
       /\ BindingMatches(ops[o], epoch, sess)
       /\ SequenceMatches(ops[o], epoch, seq)
    THEN o ELSE NoOp

(* matching_operation: the operation that holds the target's fence, if the  *)
(* prompt hook is the evidence it waits for.                                *)
matching_operation(t, epoch, sess, seq, p) ==
    LET o == fence[t] IN
    IF /\ o # NoOp
       /\ State(o) \in {"DispatchStarted", "DeliveryUnknown"}
       /\ PromptOf[o] = p
       /\ BindingMatches(ops[o], epoch, sess)
       /\ SequenceMatches(ops[o], epoch, seq)
    THEN o ELSE NoOp

Confirmable(o) == o # NoOp /\ State(o) \in {"DispatchStarted", "DeliveryUnknown"}

ConfirmedBy(o, n) == o # NoOp /\ State(o) = "PromptConfirmed" /\ ops[o].run = n

(* confirm_linked_operation on disk: confirmation rebinds the operation to  *)
(* the run's session and epoch.  Its error returns leave the state alone.   *)
ConfirmRecord(n, r) ==
    LET o == r.op IN
    /\ ops' = IF Confirmable(o)
              THEN [ops EXCEPT ![o].st = "PromptConfirmed", ![o].run = n,
                               ![o].epoch = r.epoch, ![o].sess = r.sess]
              ELSE ops
    /\ prompts' = IF Confirmable(o) \/ ConfirmedBy(o, n) THEN prompts \ {o} ELSE prompts

(* confirm_linked_operation for run n (record r). *)
confirm_linked_operation(n, r) ==
    /\ ConfirmRecord(n, r)
    /\ fence' = IF Confirmable(r.op) \/ ConfirmedBy(r.op, n) THEN Release(fence, r.op) ELSE fence

(* ... and whether it returns without an error. *)
ConfirmOk(n, r) == r.op = NoOp \/ Confirmable(r.op) \/ ConfirmedBy(r.op, n)

(* PaneState::reconcile_current_run. *)
Project(p, r) ==
    IF p.epoch = r.epoch /\ p.sess = r.sess /\ r.seq >= p.seq
    THEN [p EXCEPT !.seq = r.seq, !.busy = r.active]
    ELSE p

(* The last run of a binding: current_by_binding. *)
BindingRuns(t, epoch, sess) ==
    {n \in Turn : /\ runs[n] # NoRun /\ runs[n].target = t
                  /\ runs[n].epoch = epoch /\ runs[n].sess = sess}

(* An earlier run of the same binding ends when the next one starts.  A new *)
(* epoch's first hook also ends the run of the binding it replaces          *)
(* (retire_replaced_bindings_for_pane).                                     *)
EndOthers(t) ==
    [m \in Turn |-> IF runs[m] # NoRun /\ runs[m].target = t
                    THEN [runs[m] EXCEPT !.active = FALSE] ELSE runs[m]]

Delivered(h) == hooks' \in {hooks, hooks \ {h}}

(* Saving a new run r of turn n: first the run, then the operation, then    *)
(* the pane.  A failed write ends the handler where it stands, and the      *)
(* daemon may die between any two of the writes.                            *)
SaveRun(n, r) ==
    /\ runs' = [EndOthers(r.target) EXCEPT ![n] = r]
    /\ \/ /\ confirm_linked_operation(n, r)
          /\ \/ pane' = [pane EXCEPT ![r.target] = Project(@, r)] /\ NoFault
             \/ UNCHANGED pane /\ Fault
          /\ UNCHANGED <<worker, daemon, crashes>>
       \/ /\ ConfirmFaults /\ Fault
          /\ UNCHANGED <<ops, prompts, pane, fence, worker, daemon, crashes>>
       \/ /\ CrashNow
          /\ ConfirmRecord(n, r) \/ UNCHANGED <<ops, prompts>>
          /\ UNCHANGED <<pane, faults>>

(* The first UserPromptSubmit of a turn: it must carry the pane's session   *)
(* and its run sequence must be new for the binding.  The match also asks   *)
(* observed_at >= updated_at of the wall clock, which may step back: then   *)
(* the run is saved without a link.                                         *)
NewRun(h) ==
    LET n == h.turn
        p == pane[h.target]
        match == matching_operation(h.target, p.epoch, p.sess, p.seq + 1, turns[n].prompt)
    IN
    /\ Serving /\ h \in hooks /\ h.kind = "UserPromptSubmit"
    /\ runs[n] = NoRun
    /\ p.sess = h.sess
    /\ \A m \in BindingRuns(h.target, p.epoch, p.sess) : runs[m].seq < p.seq + 1
    /\ Delivered(h)
    /\ \E o \in {match, NoOp} :
          SaveRun(n, [target |-> h.target, op |-> o, epoch |-> p.epoch, sess |-> p.sess,
                      seq |-> p.seq + 1, active |-> TRUE, stopped |-> FALSE])
    /\ UNCHANGED <<expired, tmux, agent, turns, sent>>

(* begin_run on a pane whose last run is complete opens the next sequence.  *)
Begun(p) == IF p.busy THEN p ELSE [p EXCEPT !.seq = @ + 1, !.busy = TRUE]

(* A further UserPromptSubmit of a turn that has its run (a steering prompt *)
(* or a late one): the operation is confirmed again and the pane shows the  *)
(* run again; it begins a run only if the turn's run is still active.       *)
SameTurnPrompt(h) ==
    LET r == runs[h.turn]
        p == pane[h.target]
    IN
    /\ Serving /\ h \in hooks /\ h.kind = "UserPromptSubmit"
    /\ r # NoRun /\ p.sess = h.sess
    /\ Delivered(h)
    /\ confirm_linked_operation(h.turn, r)
    /\ pane' = IF ConfirmOk(h.turn, r)
               THEN [pane EXCEPT ![h.target] = Project(IF r.active THEN Begun(p) ELSE p, r)]
               ELSE pane
    /\ UNCHANGED <<runs, worker, daemon, expired, tmux, agent, turns, sent, crashes, faults>>

(* Is the pane busy after complete_run for record r?  The first Stop of a   *)
(* turn completes whatever run the pane has open, a repeated one nothing.   *)
(* A pane that is ahead of r may show r at an older sequence and then stays *)
(* open; which, depends on the current run of the pane (RunLedger).         *)
BusyAfterStop(p, r) ==
    IF r.stopped THEN {p.busy} ELSE IF r.seq < p.seq THEN {FALSE, p.busy} ELSE {FALSE}

(* Stop: attributed to its turn's run, which ends; the linked operation is  *)
(* confirmed (repairing a confirmation that failed) and the pane completes. *)
(* A repeated Stop is recognised by its event reference before the pane's   *)
(* session is compared.                                                     *)
Stop(h) ==
    LET n == h.turn
        p == pane[h.target]
        r == [runs[n] EXCEPT !.active = FALSE, !.stopped = TRUE]
    IN
    /\ Serving /\ h \in hooks /\ h.kind = "Stop"
    /\ runs[n] # NoRun
    /\ runs[n].stopped \/ p.sess = h.sess
    /\ Delivered(h)
    /\ runs' = [runs EXCEPT ![n] = r]
    /\ confirm_linked_operation(n, r)
    /\ \E b \in BusyAfterStop(p, runs[n]) :
          pane' = IF ConfirmOk(n, r)
                  THEN [pane EXCEPT ![h.target] = Project([p EXCEPT !.busy = b], r)]
                  ELSE pane
    /\ UNCHANGED <<worker, daemon, expired, tmux, agent, turns, sent, crashes, faults>>

(* A Stop whose turn has no retained run: it only retires the run of a      *)
(* binding the pane has left (retire_replaced_bindings_for_pane).           *)
UnattributedStop(h) ==
    LET p == pane[h.target] IN
    /\ Serving /\ h \in hooks /\ h.kind = "Stop"
    /\ runs[h.turn] = NoRun
    /\ p.sess = h.sess
    /\ hooks' = hooks \ {h}
    /\ runs' = [m \in Turn |->
                  IF /\ runs[m] # NoRun /\ runs[m].target = h.target
                     /\ <<runs[m].epoch, runs[m].sess>> # <<p.epoch, p.sess>>
                  THEN [runs[m] EXCEPT !.active = FALSE] ELSE runs[m]]
    /\ UNCHANGED <<ops, prompts, pane, memory, daemon, expired, tmux, agent, turns, sent,
                   crashes, faults>>

(* SessionStart: the pane record begins a new agent epoch (begin_agent_epoch). *)
SessionStart(h) ==
    /\ Serving /\ h \in hooks /\ h.kind = "SessionStart"
    /\ hooks' = hooks \ {h}
    /\ pane' = [pane EXCEPT ![h.target] =
                   [epoch |-> @.epoch + 1, sess |-> h.sess, seq |-> 0, busy |-> FALSE]]
    /\ UNCHANGED <<ops, prompts, runs, memory, daemon, expired, tmux, agent, turns, sent,
                   crashes, faults>>

(* A hook process that cannot reach the daemon, or whose event the daemon   *)
(* refuses (foreign session, sequence already allocated, no retained run).  *)
HookLost(h) ==
    /\ h \in hooks
    /\ hooks' = hooks \ {h}
    /\ UNCHANGED <<disk, memory, daemon, expired, tmux, agent, turns, sent, crashes, faults>>

-----------------------------------------------------------------------------
(* The provider (external).                                                 *)

StartTurn(n, t, p) ==
    /\ turns[n] = NoTurn
    /\ turns' = [turns EXCEPT ![n] = [target |-> t, sess |-> agent[t].sess, prompt |-> p]]
    /\ hooks' = hooks \cup {[kind |-> "UserPromptSubmit", target |-> t,
                             sess |-> agent[t].sess, turn |-> n]}

AgentTakesInput(t, n, o) ==
    /\ o \in agent[t].inbox
    /\ StartTurn(n, t, PromptOf[o])
    /\ agent' = [agent EXCEPT ![t].inbox = @ \ {o}]
    /\ UNCHANGED <<disk, memory, daemon, expired, tmux, sent, crashes, faults>>

HumanPrompt(t, n, p) ==
    /\ StartTurn(n, t, p)
    /\ UNCHANGED <<disk, memory, daemon, expired, tmux, agent, sent, crashes, faults>>

AgentStops(n) ==
    /\ turns[n] # NoTurn
    /\ hooks' = hooks \cup {[kind |-> "Stop", target |-> turns[n].target,
                             sess |-> turns[n].sess, turn |-> n]}
    /\ UNCHANGED <<disk, memory, daemon, expired, tmux, agent, turns, sent, crashes, faults>>

AgentRollsOver(t) ==
    /\ agent[t].sess < MaxSess
    /\ agent' = [agent EXCEPT ![t].sess = @ + 1]
    /\ hooks' = hooks \cup {[kind |-> "SessionStart", target |-> t,
                             sess |-> agent[t].sess + 1, turn |-> NoTurn]}
    /\ UNCHANGED <<disk, memory, daemon, expired, tmux, turns, sent, crashes, faults>>

-----------------------------------------------------------------------------
(* Crash and restart.                                                       *)

Crash ==
    /\ daemon # "down"
    /\ CrashNow
    /\ UNCHANGED <<disk, expired, outside, faults>>

(* open_or_initialize deletes unreferenced bodies and refuses a store in    *)
(* which a Prepared or DispatchStarted operation has lost its body.         *)
BodiesPresent == \A o \in Op : InFlight(o) => o \in prompts

(* Mutant: only in-flight operations are fenced again, not ambiguous ones. *)
ReindexedInFlight(f, t) ==
    LET F == {o \in Op : InFlight(o) /\ TargetOf[o] = t} IN
    IF F = {} THEN f[t] = NoOp ELSE f[t] \in F

(* rebuild_indexes: the fence is read back from the fenced operations; were *)
(* there two for one target, either might win.                              *)
Reindexed(f, t) ==
    LET F == {o \in Op : Fenced(o) /\ TargetOf[o] = t} IN
    IF F = {} THEN f[t] = NoOp ELSE f[t] \in F

(* AgentRuntime::open up to rebuild_indexes. *)
Boot ==
    /\ daemon = "down" /\ BodiesPresent
    /\ daemon' = "booting"
    /\ prompts' = {o \in prompts : InFlight(o)}
    /\ fence' \in {f \in [Target -> Op \cup {NoOp}] : \A t \in Target : Reindexed(f, t)}
    /\ UNCHANGED <<ops, runs, pane, worker, expired, outside, crashes, faults>>

(* Runs whose operation is not yet confirmed by them. *)
Unconfirmed == {n \in Turn : /\ runs[n] # NoRun /\ runs[n].op # NoOp
                             /\ State(runs[n].op) # "PromptConfirmed"}

(* reconcile_in_flight_after_restart, first every linked run ... *)
BootConfirm(n) ==
    /\ daemon = "booting" /\ n \in Unconfirmed
    /\ ConfirmOk(n, runs[n])
    /\ confirm_linked_operation(n, runs[n])
    /\ UNCHANGED <<runs, pane, worker, daemon, expired, outside, crashes, faults>>

(* ... then every fenced operation that was interrupted. *)
Interrupted == {o \in Op : /\ fence[TargetOf[o]] = o
                           /\ \/ State(o) = "DispatchStarted"
                              \/ State(o) = "Prepared" /\ o \in expired}

BootSettle(o) ==
    /\ daemon = "booting" /\ Unconfirmed = {} /\ o \in Interrupted
    /\ SettleSaved({o}, [x \in Op |-> TimeoutState(x)])
    /\ UNCHANGED <<runs, pane, worker, daemon, expired, outside, crashes>>

(* A run every linked operation of which can be confirmed by it. *)
LinksAuthoritative ==
    \A n \in Turn : runs[n] # NoRun => ConfirmOk(n, runs[n])

(* reconcile_panes_after_restart, then the repair of the pane records: a    *)
(* run of another binding has ended, and the pane shows its binding's last  *)
(* run.                                                                     *)
LastRun(t) ==
    LET B == BindingRuns(t, pane[t].epoch, pane[t].sess) IN
    {n \in B : \A m \in B : runs[m].seq <= runs[n].seq}

LiveRun(n) ==
    LET r == runs[n] IN r.epoch = pane[r.target].epoch /\ r.sess = pane[r.target].sess

BootDone ==
    /\ daemon = "booting" /\ Unconfirmed = {} /\ Interrupted = {}
    /\ LinksAuthoritative
    /\ daemon' = "up"
    /\ runs' = [n \in Turn |-> IF runs[n] # NoRun /\ ~LiveRun(n)
                               THEN [runs[n] EXCEPT !.active = FALSE] ELSE runs[n]]
    /\ pane' = [t \in Target |->
                  IF LastRun(t) = {} THEN pane[t]
                  ELSE Project(pane[t], runs[CHOOSE n \in LastRun(t) : TRUE])]
    /\ UNCHANGED <<ops, prompts, memory, expired, outside, crashes, faults>>

-----------------------------------------------------------------------------
Handler(o) ==
    \/ prepare_operation(o) \/ ResumePrepared(o) \/ RejectPreparedRetry(o)
    \/ abandon_operation(o) \/ DeadlinePasses(o)

Dispatch ==
    \/ RejectPreDispatch \/ mark_dispatch_started
    \/ SpawnTmux \/ RejectBeforeSpawn
    \/ AwaitSubmitted \/ AwaitRejected \/ AwaitUnknown

HookStep(h) ==
    \/ NewRun(h) \/ SameTurnPrompt(h) \/ Stop(h) \/ UnattributedStop(h)
    \/ SessionStart(h) \/ HookLost(h)

Provider(t) ==
    \/ \E n \in Turn : \/ \E o \in Op : AgentTakesInput(t, n, o)
                       \/ \E p \in Prompt : HumanPrompt(t, n, p)
    \/ AgentRollsOver(t)

Restart ==
    \/ Boot \/ BootDone
    \/ \E n \in Turn : BootConfirm(n)
    \/ \E o \in Op : BootSettle(o)

Next ==
    \/ \E o \in Op : Handler(o) \/ TmuxRun(o) \/ TmuxRefuse(o)
    \/ Dispatch
    \/ settle_expired_dispatches
    \/ \E h \in hooks : HookStep(h)
    \/ \E t \in Target : Provider(t)
    \/ \E n \in Turn : AgentStops(n)
    \/ Crash
    \/ Restart

Spec == Init /\ [][Next]_vars

(* The worker thread always finishes the prompt handler (the tmux client it *)
(* waits for has a timeout), time passes, the ten-second deadline wakes the *)
(* timeout mutation, and a client that finds no daemon starts one.  Nothing *)
(* is assumed of the provider, of tmux, of hooks or of callers.             *)
Fairness ==
    /\ WF_vars(Dispatch)
    /\ \A o \in Op : WF_vars(DeadlinePasses(o))
    /\ WF_vars(settle_expired_dispatches)
    /\ WF_vars(Restart)

FairSpec == Spec /\ Fairness

-----------------------------------------------------------------------------
(* Properties.                                                              *)

(* The contract's view: the dispatch state a caller reads.                  *)
status == [o \in Op |-> State(o)]

Contract == INSTANCE DispatchContract
                WITH Op <- Op, TargetOf <- TargetOf, status <- status, sent <- sent

(* The dispatch protocol implements the contract callers rely on.           *)
ImplementsContract == Contract!ContractSpec

Linked(o) == {n \in Turn : runs[n] # NoRun /\ runs[n].op = o}

(* A prompt body is pasted into its pane at most once, whatever the daemon  *)
(* crashes, retries or resumes ("never resends it automatically").          *)
AtMostOnce == \A o \in Op : sent[o] <= 1

(* An operation reported as rejected was not sent, and no tmux client that  *)
(* could still send it is left running.                                     *)
RejectedNotSent ==
    \A o \in Op : State(o) = "Rejected" => sent[o] = 0 /\ tmux[o] # "spawned"

(* While the daemon serves, the in-memory fence of a target holds exactly   *)
(* the operation whose record on disk is fenced: no operation is fenced out *)
(* of existence, and no two dispatches to one target are outstanding.       *)
FenceMatchesStore ==
    daemon = "up" => \A o \in Op : Fenced(o) <=> fence[TargetOf[o]] = o

(* AgentRuntime::open succeeds on every store a crash can leave behind:     *)
(* every in-flight operation has its body, and the links from runs to an    *)
(* operation can all be confirmed, one run per operation.                   *)
StoreReopens ==
    /\ BodiesPresent
    /\ LinksAuthoritative
    /\ \A o \in Op : Cardinality(Linked(o)) <= 1

(* A confirmed operation has the run that confirms it, of the same target,  *)
(* submitted with the same prompt, and carries that run's binding.          *)
ConfirmedByRun ==
    \A o \in Op : State(o) = "PromptConfirmed" =>
        LET n == ops[o].run IN
        /\ n \in Linked(o)
        /\ runs[n].target = TargetOf[o]
        /\ turns[n].prompt = PromptOf[o]
        /\ runs[n].epoch = ops[o].epoch /\ runs[n].sess = ops[o].sess

(* The inductive core: why the three invariants above hold.  A tmux client  *)
(* exists only for an operation whose dispatch_started is durable, and is   *)
(* refused for certain before the operation may become rejected.            *)
ClientsAreStarted ==
    \A o \in Op :
        /\ status[o] \in {"None", "Prepared"} => tmux[o] = "none"
        /\ status[o] = "Rejected" => tmux[o] \in {"none", "refused"}
        /\ sent[o] = IF tmux[o] = "ran" THEN 1 ELSE 0

(* What the prompt handler knows of the operation it works on.              *)
HandlerKnows ==
    worker # Idle =>
        /\ daemon = "up"
        /\ worker.pc = "prepared" => status[worker.op] = "Prepared"
        /\ worker.pc \in {"dispatching", "awaiting"} => status[worker.op] = "DispatchStarted"
        /\ worker.pc = "dispatching" => tmux[worker.op] = "none"

(* The fence of a live daemon, and what it leaves on disk for the next one. *)
FenceExact ==
    /\ daemon # "down" =>
          \A o \in Op : status[o] \in Contract!Outstanding <=> fence[TargetOf[o]] = o
    /\ \A o, x \in Op :
          /\ status[o] \in Contract!Outstanding /\ status[x] \in Contract!Outstanding
          /\ TargetOf[o] = TargetOf[x]
          => o = x

(* Every in-flight operation has its body on disk.                          *)
DispatchInv ==
    /\ ClientsAreStarted
    /\ HandlerKnows
    /\ FenceExact
    /\ BodiesPresent

(* Every operation leaves prepared and dispatch_started: a caller that      *)
(* polls sees it settle, through any bounded number of crashes and faults.  *)
EverythingSettles == \A o \in Op : InFlight(o) ~> ~InFlight(o)

=============================================================================
