------------------------ MODULE PromptDispatchProofs ------------------------
(***************************************************************************)
(* Theorems about PromptDispatch for every set of operations, targets and  *)
(* turns, and every number of crashes and failed writes.                   *)
(***************************************************************************)
EXTENDS PromptDispatch, FiniteSetTheorems, TLAPS

-----------------------------------------------------------------------------
(* Types.                                                                   *)

(* A settled, failed or abandoned operation is still a record. *)
LEMMA SettleType ==
    ASSUME TypeOK, NEW S \in SUBSET Op,
           NEW to \in [Op -> DispatchState],
           \A o \in S : ops[o] # NoRec
    PROVE  /\ Settled(S, to) \in [Op -> OperationRecord \cup {NoRec}]
           /\ SettledFence(S, to) \in [Target -> Op \cup {NoOp}]
<1>1. ops \in [Op -> OperationRecord \cup {NoRec}] BY DEF TypeOK
<1>2. ASSUME NEW o \in S PROVE [ops[o] EXCEPT !.st = to[o]] \in OperationRecord BY <1>1, <1>2 DEF OperationRecord
<1>3. Settled(S, to) \in [Op -> OperationRecord \cup {NoRec}] BY <1>1, <1>2 DEF Settled
<1>4. SettledFence(S, to) \in [Target -> Op \cup {NoOp}] BY DEF TypeOK, SettledFence
<1> QED BY <1>3, <1>4

(* Saving the settled records of a set of operations keeps the types. *)
LEMMA SettleSavedType ==
    ASSUME TypeOK, NEW S \in SUBSET Op, NEW to \in [Op -> DispatchState],
           \A o \in S : ops[o] # NoRec, SettleSaved(S, to)
    PROVE  /\ ops' \in [Op -> OperationRecord \cup {NoRec}]
           /\ fence' \in [Target -> Op \cup {NoOp}]
           /\ prompts' \subseteq Op
           /\ faults' \in Nat
<1>1. prompts \subseteq Op /\ faults \in Nat BY DEF TypeOK
<1>2. prompts' \subseteq Op /\ faults' \in Nat BY <1>1 DEF SettleSaved, Fault, NoFault
<1> QED BY <1>2, SettleType DEF SettleSaved

(* settle_dispatch of one operation keeps the types, also when it fails. *)
LEMMA SettleDispatchType ==
    ASSUME TypeOK, NEW o \in Op, ops[o] # NoRec,
           NEW st \in DispatchState, settle_dispatch(o, st)
    PROVE  /\ ops' \in [Op -> OperationRecord \cup {NoRec}]
           /\ fence' \in [Target -> Op \cup {NoOp}]
           /\ prompts' \subseteq Op
           /\ faults' \in Nat
<1>1. CASE SettleSaved({o}, [x \in Op |-> st]) BY <1>1, SettleSavedType
<1>2. CASE Fault /\ UNCHANGED <<ops, fence, prompts>> BY <1>2, faults + 1 \in Nat DEF TypeOK, Fault
<1> QED BY <1>1, <1>2 DEF settle_dispatch

(* An operation whose state can be read has a record. *)
LEMMA HasRecord ==
    ASSUME NEW o \in Op, State(o) # "None"
    PROVE  ops[o] # NoRec
  BY DEF State

(* What the handler works on while it is not idle. *)
LEMMA WorkerOp ==
    ASSUME TypeOK, worker # Idle
    PROVE  worker.op \in Op /\ worker.pc \in {"prepared", "dispatching", "awaiting"}
  BY DEF TypeOK

(* The fresh store is well typed. *)
LEMMA InitType == ASSUME ConstantsAssumption, Init PROVE TypeOK
  BY ConstantsAssumption DEF Init, TypeOK, PaneRecord, NoFence, Idle

(* The caller's and the operator's handlers. *)
LEMMA HandlerType ==
    ASSUME ConstantsAssumption, TypeOK, NEW o \in Op, Handler(o)
    PROVE  TypeOK'
<1> USE ConstantsAssumption
<1>1. CASE prepare_operation(o)
  <2>1. Expected(o) \in OperationRecord BY DEF TypeOK, Expected, OperationRecord, PaneRecord, DispatchState, NoSess
  <2>2. faults' \in Nat BY <1>1 DEF prepare_operation, TypeOK, Fault, NoFault
  <2>3. /\ ops' \in [Op -> OperationRecord \cup {NoRec}]
        /\ fence' \in [Target -> Op \cup {NoOp}]
        /\ worker' \in {Idle} \cup [pc : {"prepared", "dispatching", "awaiting"}, op : Op]
        /\ prompts' \subseteq Op
    <3>1. ops' = [ops EXCEPT ![o] = Expected(o)] \/ ops' = ops BY <1>1 DEF prepare_operation
    <3>2. ops' \in [Op -> OperationRecord \cup {NoRec}] BY <2>1, <3>1 DEF TypeOK
    <3>3. fence' \in [Target -> Op \cup {NoOp}]
      <4>1. fence' = [fence EXCEPT ![TargetOf[o]] = o] \/ fence' = fence BY <1>1 DEF prepare_operation
      <4>2. fence \in [Target -> Op \cup {NoOp}] BY DEF TypeOK
      <4> QED BY <4>1, <4>2
    <3>4. worker' \in {Idle} \cup [pc : {"prepared", "dispatching", "awaiting"}, op : Op]
      BY <1>1 DEF prepare_operation, TypeOK
    <3>5. prompts' \subseteq Op BY <1>1 DEF prepare_operation, TypeOK
    <3> QED BY <3>2, <3>3, <3>4, <3>5
  <2> QED BY <1>1, <2>2, <2>3 DEF prepare_operation, TypeOK, outside
<1>2. CASE ResumePrepared(o) BY <1>2 DEF ResumePrepared, TypeOK, disk, outside
<1>3. CASE RejectPreparedRetry(o)
  BY <1>3, HasRecord, SettleDispatchType DEF RejectPreparedRetry, DispatchState, TypeOK, outside
<1>4. CASE abandon_operation(o)
  <2>1. ops[o] \in OperationRecord BY <1>4, HasRecord DEF abandon_operation, TypeOK
  <2>2. ops' \in [Op -> OperationRecord \cup {NoRec}]
    BY <2>1, <1>4 DEF OperationRecord, DispatchState, abandon_operation, TypeOK
  <2> QED BY <1>4, <2>2 DEF abandon_operation, Release, TypeOK, outside
<1>5. CASE DeadlinePasses(o) BY <1>5 DEF DeadlinePasses, TypeOK, disk, memory, outside
<1> QED BY <1>1, <1>2, <1>3, <1>4, <1>5 DEF Handler

(* The rest of the prompt handler. *)
LEMMA DispatchType ==
    ASSUME ConstantsAssumption, TypeOK, HandlerKnows, Dispatch
    PROVE  TypeOK'
<1> USE ConstantsAssumption
<1>0. PICK o \in Op : o = worker.op /\ worker # Idle /\ worker.pc # "idle"
  BY WorkerOp DEF Dispatch, RejectPreDispatch, mark_dispatch_started, SpawnTmux, RejectBeforeSpawn, AwaitSubmitted,
    AwaitRejected, AwaitUnknown, Idle
<1>a. ops[o] # NoRec BY <1>0, WorkerOp, HasRecord DEF HandlerKnows, status
<1>b. {"Rejected", "DeliveryUnknown"} \subseteq DispatchState BY DEF DispatchState
<1>1. CASE RejectPreDispatch BY <1>1, <1>0, <1>a, <1>b, SettleDispatchType DEF RejectPreDispatch, TypeOK, outside
<1>2. CASE mark_dispatch_started
  <2>1. [ops[o] EXCEPT !.st = "DispatchStarted"] \in OperationRecord
    <3>1. ops[o] \in OperationRecord BY <1>a DEF TypeOK
    <3> QED BY <3>1 DEF OperationRecord, DispatchState
  <2>2. [ops EXCEPT ![o].st = "DispatchStarted"] \in [Op -> OperationRecord \cup {NoRec}] BY <2>1 DEF TypeOK
  <2>3. ops' \in [Op -> OperationRecord \cup {NoRec}] BY <1>2, <1>0, <2>2 DEF mark_dispatch_started, TypeOK
  <2>4. /\ faults' \in Nat
        /\ worker' \in {Idle} \cup [pc : {"prepared", "dispatching", "awaiting"}, op : Op]
    <3>1. faults' \in Nat BY <1>2 DEF mark_dispatch_started, TypeOK, Fault, NoFault
    <3>2. worker' \in {Idle} \cup [pc : {"prepared", "dispatching", "awaiting"}, op : Op]
      BY <1>2, <1>0 DEF mark_dispatch_started, TypeOK
    <3> QED BY <3>1, <3>2
  <2> QED BY <1>2, <2>3, <2>4 DEF mark_dispatch_started, TypeOK, outside
<1>3. CASE SpawnTmux BY <1>3, <1>0 DEF SpawnTmux, TypeOK, disk
<1>4. CASE RejectBeforeSpawn BY <1>4, <1>0, <1>a, <1>b, SettleDispatchType DEF RejectBeforeSpawn, TypeOK, outside
<1>5. CASE AwaitSubmitted BY <1>5 DEF AwaitSubmitted, TypeOK, disk, outside
<1>6. CASE AwaitRejected BY <1>6, <1>0, <1>a, <1>b, SettleDispatchType DEF AwaitRejected, TypeOK, outside
<1>7. CASE AwaitUnknown BY <1>7, <1>0, <1>a, <1>b, SettleDispatchType DEF AwaitUnknown, TypeOK, outside
<1> QED BY <1>1, <1>2, <1>3, <1>4, <1>5, <1>6, <1>7 DEF Dispatch

(* Confirming the operation of a run keeps the records well formed. *)
LEMMA ConfirmType ==
    ASSUME ConstantsAssumption, TypeOK, NEW n \in Turn, NEW r \in RunRecord,
           ConfirmRecord(n, r)
    PROVE  /\ ops' \in [Op -> OperationRecord \cup {NoRec}]
           /\ prompts' \subseteq Op
           /\ Release(fence, r.op) \in [Target -> Op \cup {NoOp}] \/ r.op = NoOp
<1>0. r.op \in Op \cup {NoOp} /\ r.epoch \in Nat /\ r.sess \in Nat BY DEF RunRecord
<1>1. CASE Confirmable(r.op)
  <2>1. r.op \in Op /\ ops[r.op] \in OperationRecord BY <1>0, <1>1, HasRecord DEF Confirmable, TypeOK
  <2> DEFINE c == [ops[r.op] EXCEPT !.st = "PromptConfirmed", !.run = n,
                                    !.epoch = r.epoch, !.sess = r.sess]
  <2>2. c \in OperationRecord BY <1>0, <2>1 DEF OperationRecord, DispatchState
  <2>3. ops' = [ops EXCEPT ![r.op] = c] BY <1>1, <2>1 DEF ConfirmRecord, TypeOK
  <2> HIDE DEF c
  <2> QED BY <2>1, <2>2, <2>3, ConstantsAssumption DEF ConfirmRecord, TypeOK, Release
<1>2. CASE ~Confirmable(r.op) BY <1>0, <1>2, ConstantsAssumption DEF ConfirmRecord, TypeOK, Release
<1> QED BY <1>1, <1>2

(* The same with the fence that confirm_linked_operation releases. *)
LEMMA ConfirmLinkedType ==
    ASSUME ConstantsAssumption, TypeOK, NEW n \in Turn, NEW r \in RunRecord,
           confirm_linked_operation(n, r)
    PROVE  /\ ops' \in [Op -> OperationRecord \cup {NoRec}]
           /\ prompts' \subseteq Op
           /\ fence' \in [Target -> Op \cup {NoOp}]
  BY ConfirmType DEF confirm_linked_operation, TypeOK, Confirmable, ConfirmedBy

(* A pane record that a run is projected onto is still a pane record. *)
LEMMA ProjectType ==
    ASSUME NEW p \in PaneRecord, NEW r \in RunRecord
    PROVE  Project(p, r) \in PaneRecord
  BY DEF Project, PaneRecord, RunRecord

(* A pane record that begins a run is still a pane record. *)
LEMMA BegunType ==
    ASSUME NEW p \in PaneRecord
    PROVE  Begun(p) \in PaneRecord
<1>1. ASSUME NEW k \in Nat
      PROVE  [p EXCEPT !.seq = k, !.busy = TRUE] \in PaneRecord
  BY DEF PaneRecord
<1>2. p.seq + 1 \in Nat BY DEF PaneRecord
<1> QED BY <1>1, <1>2 DEF Begun

(* A run that ends or is stopped is still a run. *)
LEMMA EndedType ==
    ASSUME TypeOK
    PROVE  \A m \in Turn : runs[m] # NoRun =>
               /\ [runs[m] EXCEPT !.active = FALSE] \in RunRecord
               /\ [runs[m] EXCEPT !.active = FALSE, !.stopped = TRUE] \in RunRecord
<1>1. ASSUME NEW r \in RunRecord
      PROVE  /\ [r EXCEPT !.active = FALSE] \in RunRecord
             /\ [r EXCEPT !.active = FALSE, !.stopped = TRUE] \in RunRecord
  BY DEF RunRecord
<1> QED BY <1>1 DEF TypeOK

(* Provider hooks. *)
LEMMA HookType ==
    ASSUME ConstantsAssumption, RecordsAssumption, TypeOK, NEW h \in hooks, HookStep(h)
    PROVE  TypeOK'
<1> USE ConstantsAssumption
<1>0. h \in Hook /\ h.target \in Target /\ h.sess \in Nat BY DEF TypeOK, Hook
<1>a. ASSUME h.kind # "SessionStart" PROVE h.turn \in Turn BY <1>0, <1>a DEF Hook
<1>b. ASSUME Delivered(h) PROVE hooks' \subseteq Hook BY <1>b DEF Delivered, TypeOK
<1>c. pane[h.target] \in PaneRecord BY <1>0 DEF TypeOK
<1>1. CASE NewRun(h)
  <2>0. h.turn \in Turn BY <1>1, <1>a DEF NewRun
  <2> DEFINE p == pane[h.target]
             rec(o) == [target |-> h.target, op |-> o, epoch |-> p.epoch, sess |-> p.sess,
                        seq |-> p.seq + 1, active |-> TRUE, stopped |-> FALSE]
  <2>1. PICK o \in Op \cup {NoOp} : SaveRun(h.turn, rec(o)) BY <1>0, <1>1 DEF matching_operation, TypeOK, NewRun
  <2> DEFINE r == rec(o)
  <2>2. r \in RunRecord BY <1>0, <1>c DEF RunRecord, PaneRecord
  <2>3. SaveRun(h.turn, r) BY <2>1
  <2>4. r.target = h.target OBVIOUS
  <2> HIDE DEF r, rec, p
  <2>5. runs' \in [Turn -> RunRecord \cup {NoRun}] BY EndedType, <2>0, <2>2, <2>3 DEF EndOthers, TypeOK, SaveRun
  <2>6. pane' \in [Target -> PaneRecord] BY <1>c, <2>2, <2>4, ProjectType, <2>3 DEF SaveRun, TypeOK
  <2>7. crashes' \in Nat /\ faults' \in Nat /\ daemon' \in {"up", "booting", "down"}
    BY <2>3 DEF SaveRun, CrashNow, Fault, NoFault, TypeOK
  <2>8. /\ ops' \in [Op -> OperationRecord \cup {NoRec}]
        /\ prompts' \subseteq Op
    BY <2>0, <2>2, <2>3, ConfirmType, ConfirmLinkedType DEF SaveRun, TypeOK
  <2>9. /\ fence' \in [Target -> Op \cup {NoOp}]
        /\ worker' \in {Idle} \cup [pc : {"prepared", "dispatching", "awaiting"}, op : Op]
    BY <2>0, <2>2, <2>3, ConfirmLinkedType DEF SaveRun, CrashNow, NoFence, TypeOK
  <2> QED BY <1>1, <1>b, <2>5, <2>6, <2>7, <2>8, <2>9 DEF NewRun, TypeOK
<1>2. CASE SameTurnPrompt(h)
  <2>0. h.turn \in Turn /\ runs[h.turn] \in RunRecord BY <1>2, <1>a DEF SameTurnPrompt, TypeOK
  <2> DEFINE p == IF runs[h.turn].active THEN Begun(pane[h.target]) ELSE pane[h.target]
  <2>a. p \in PaneRecord BY <1>c, BegunType
  <2>1. Project(p, runs[h.turn]) \in PaneRecord BY <2>a, <2>0, ProjectType
  <2>2. pane' \in [Target -> PaneRecord] BY <1>2, <2>1 DEF SameTurnPrompt, TypeOK
  <2>3. confirm_linked_operation(h.turn, runs[h.turn]) BY <1>2 DEF SameTurnPrompt
  <2> QED BY <1>2, <1>b, <2>0, <2>2, <2>3, ConfirmLinkedType DEF SameTurnPrompt, TypeOK
<1>3. CASE Stop(h)
  <2> DEFINE r == [runs[h.turn] EXCEPT !.active = FALSE, !.stopped = TRUE]
  <2>0. h.turn \in Turn /\ runs[h.turn] \in RunRecord BY <1>3, <1>a DEF Stop, TypeOK
  <2>1. r \in RunRecord BY <2>0 DEF RunRecord
  <2>3. confirm_linked_operation(h.turn, r) /\ runs' = [runs EXCEPT ![h.turn] = r] BY <1>3 DEF Stop
  <2>4. pane' \in [Target -> PaneRecord]
    <3>1. PICK b \in BusyAfterStop(pane[h.target], runs[h.turn]) :
            \/ pane' = pane
            \/ pane' = [pane EXCEPT ![h.target] =
                          Project([pane[h.target] EXCEPT !.busy = b], r)]
      BY <1>3 DEF Stop
    <3>2. b \in BOOLEAN BY <3>1, <1>c DEF BusyAfterStop, PaneRecord
    <3>3. [pane[h.target] EXCEPT !.busy = b] \in PaneRecord BY <3>2, <1>c DEF PaneRecord
    <3>4. Project([pane[h.target] EXCEPT !.busy = b], r) \in PaneRecord BY <2>1, <3>3, ProjectType
    <3> QED BY <3>1, <3>4 DEF TypeOK
  <2> HIDE DEF r
  <2>5. runs' \in [Turn -> RunRecord \cup {NoRun}] BY <2>1, <2>3 DEF TypeOK
  <2> QED BY <1>3, <1>b, <2>0, <2>1, <2>3, <2>4, <2>5, ConfirmLinkedType DEF Stop, TypeOK
<1>4. CASE UnattributedStop(h) BY <1>4, EndedType DEF UnattributedStop, TypeOK, memory
<1>5. CASE SessionStart(h) BY <1>0, <1>c, <1>5 DEF PaneRecord, SessionStart, TypeOK, memory
<1>6. CASE HookLost(h) BY <1>6 DEF HookLost, TypeOK, disk, memory
<1> QED BY <1>1, <1>2, <1>3, <1>4, <1>5, <1>6 DEF HookStep

(* The provider process and its turns. *)
LEMMA ProviderType ==
    ASSUME ConstantsAssumption, RecordsAssumption, TypeOK,
           (\E t \in Target : Provider(t)) \/ (\E n \in Turn : AgentStops(n))
    PROVE  TypeOK'
<1> USE ConstantsAssumption
<1>0. ASSUME NEW t \in Target PROVE agent[t].sess \in Nat /\ agent[t].inbox \in SUBSET Op BY <1>0 DEF TypeOK
<1>1. ASSUME NEW t \in Target, NEW n \in Turn, NEW p \in Prompt, StartTurn(n, t, p)
      PROVE  turns' \in [Turn -> TurnRecord \cup {NoTurn}] /\ hooks' \subseteq Hook
  BY <1>0, <1>1 DEF TurnRecord, Hook, StartTurn, TypeOK
<1>2. ASSUME NEW t \in Target, NEW n \in Turn, NEW o \in Op, AgentTakesInput(t, n, o)
      PROVE  TypeOK'
  <2>1. PromptOf[o] \in Prompt /\ StartTurn(n, t, PromptOf[o]) BY <1>2 DEF AgentTakesInput
  <2>2. agent' \in [Target -> [sess : Nat, inbox : SUBSET Op]] BY <1>0, <1>2 DEF TypeOK, AgentTakesInput
  <2> QED BY <1>2, <1>1, <2>1, <2>2 DEF AgentTakesInput, TypeOK, disk, memory
<1>3. ASSUME NEW t \in Target, NEW n \in Turn, NEW p \in Prompt, HumanPrompt(t, n, p)
      PROVE  TypeOK'
  BY <1>3, <1>1 DEF HumanPrompt, TypeOK, disk, memory
<1>4. ASSUME NEW t \in Target, AgentRollsOver(t) PROVE TypeOK'
  BY <1>0, <1>4 DEF Hook, TypeOK, AgentRollsOver, disk, memory
<1>5. ASSUME NEW n \in Turn, AgentStops(n) PROVE TypeOK'
  BY <1>5 DEF AgentStops, TypeOK, TurnRecord, Hook, disk, memory
<1> QED BY <1>2, <1>3, <1>4, <1>5 DEF Provider

(* tmux, deadlines, crashes and restarts. *)
LEMMA OtherType ==
    ASSUME ConstantsAssumption, RecordsAssumption, TypeOK,
           \/ \E o \in Op : TmuxRun(o) \/ TmuxRefuse(o)
           \/ settle_expired_dispatches
           \/ Crash
           \/ Restart
    PROVE  TypeOK'
<1> USE ConstantsAssumption
<1>1. ASSUME NEW o \in Op, TmuxRun(o) PROVE TypeOK'
  <2>1. agent' \in [Target -> [sess : Nat, inbox : SUBSET Op]]
    <3> DEFINE t == TargetOf[o]
    <3>1. t \in Target /\ agent[t] \in [sess : Nat, inbox : SUBSET Op] BY DEF TypeOK
    <3>2. [agent[t] EXCEPT !.inbox = agent[t].inbox \cup {o}] \in [sess : Nat, inbox : SUBSET Op] BY <3>1
    <3> QED BY <1>1, <3>1, <3>2 DEF TmuxRun, TypeOK
  <2>2. sent' \in [Op -> Nat] /\ tmux' \in [Op -> {"none", "spawned", "ran", "refused"}] BY <1>1 DEF TmuxRun, TypeOK
  <2> QED BY <1>1, <2>1, <2>2 DEF TmuxRun, TypeOK, disk, memory
<1>2. ASSUME NEW o \in Op, TmuxRefuse(o) PROVE TypeOK' BY <1>2 DEF TmuxRefuse, TypeOK, disk, memory
<1>0. [o \in Op |-> TimeoutState(o)] \in [Op -> DispatchState] BY DEF TimeoutState, DispatchState
<1>3. CASE settle_expired_dispatches
  <2> DEFINE due == {o \in expired : InFlight(o) /\ fence[TargetOf[o]] = o}
             to  == [o \in Op |-> TimeoutState(o)]
  <2>1. due \in SUBSET Op /\ \A o \in due : ops[o] # NoRec BY HasRecord DEF TypeOK, InFlight
  <2>2. \/ SettleSaved(due, to)
        \/ \E S \in SUBSET due : /\ Fault
                                 /\ ops' = Settled(S, to)
                                 /\ fence' = SettledFence(S, to)
                                 /\ prompts' = prompts \ S
    BY <1>3 DEF settle_expired_dispatches
  <2> HIDE DEF due, to
  <2>3. to \in [Op -> DispatchState] BY <1>0 DEF to
  <2>4. /\ ops' \in [Op -> OperationRecord \cup {NoRec}]
        /\ fence' \in [Target -> Op \cup {NoOp}]
        /\ prompts' \subseteq Op
        /\ faults' \in Nat
    <3>1. CASE SettleSaved(due, to) BY <2>1, <2>3, <3>1, SettleSavedType
    <3>2. ASSUME NEW S \in SUBSET due, Fault, ops' = Settled(S, to),
                 fence' = SettledFence(S, to), prompts' = prompts \ S
          PROVE  <2>4!1 /\ <2>4!2 /\ <2>4!3 /\ <2>4!4
      <4>1. S \in SUBSET Op /\ \A o \in S : ops[o] # NoRec BY <2>1
      <4>2. faults' \in Nat /\ prompts' \subseteq Op BY <3>2 DEF Fault, TypeOK
      <4> QED BY <2>3, <3>2, <4>1, <4>2, SettleType
    <3> QED BY <2>2, <3>1, <3>2
  <2> QED BY <1>3, <2>4 DEF settle_expired_dispatches, TypeOK, outside
<1>4. CASE Crash BY <1>4 DEF Crash, CrashNow, NoFence, TypeOK, disk, outside
<1>5. CASE Boot BY <1>5 DEF Boot, TypeOK, outside
<1>6. ASSUME NEW n \in Turn, BootConfirm(n) PROVE TypeOK'
  BY <1>6, ConfirmLinkedType DEF BootConfirm, Unconfirmed, TypeOK, outside
<1>7. ASSUME NEW o \in Op, BootSettle(o) PROVE TypeOK'
  <2>1. ops[o] # NoRec BY <1>7, HasRecord DEF BootSettle, Interrupted
  <2>2. SettleSaved({o}, [x \in Op |-> TimeoutState(x)]) BY <1>7 DEF BootSettle
  <2> DEFINE to == [x \in Op |-> TimeoutState(x)]
  <2> HIDE DEF to
  <2>3. /\ ops' \in [Op -> OperationRecord \cup {NoRec}]
        /\ fence' \in [Target -> Op \cup {NoOp}]
        /\ prompts' \subseteq Op
        /\ faults' \in Nat
    BY <1>0, <2>2, <2>1, SettleSavedType DEF to
  <2> QED BY <1>7, <2>3 DEF BootSettle, TypeOK, outside
<1>8. CASE BootDone BY <1>8, EndedType, ProjectType DEF BootDone, TypeOK, LastRun, BindingRuns, memory, outside
<1> QED BY <1>1, <1>2, <1>3, <1>4, <1>5, <1>6, <1>7, <1>8 DEF Restart

-----------------------------------------------------------------------------
(* The state a caller reads.  From here on the proofs speak of status and   *)
(* not of the records.                                                      *)

Status == Contract!Status
Outstanding == Contract!Outstanding

(* What status says of the records, and of the bodies they need. *)
LEMMA StatusType ==
    ASSUME TypeOK
    PROVE  /\ status \in [Op -> Status]
           /\ \A o \in Op : status[o] = State(o)
           /\ \A o \in Op : status[o] # "None" <=> ops[o] # NoRec
           /\ BodiesPresent <=>
                \A o \in Op : status[o] \in {"Prepared", "DispatchStarted"} => o \in prompts
  BY DEF TypeOK, OperationRecord, State, DispatchState, Status, Contract!Status, status, BodiesPresent, InFlight

(* A step that saves no operation leaves the status as it was. *)
LEMMA StatusStutters == ASSUME UNCHANGED ops PROVE status' = status BY DEF status, State

(* save_operation with a new record r of operation o. *)
LEMMA StatusSaved ==
    ASSUME RecordsAssumption, TypeOK, NEW o \in Op, NEW r \in OperationRecord,
           ops' = [ops EXCEPT ![o] = r]
    PROVE  status' = [status EXCEPT ![o] = r.st]
  BY RecordsAssumption DEF State, TypeOK, status

(* Saving a record in which only the dispatch state changed. *)
LEMMA StatusMoved ==
    ASSUME RecordsAssumption, TypeOK, NEW o \in Op, ops[o] # NoRec, NEW st \in DispatchState,
           ops' = [ops EXCEPT ![o].st = st]
    PROVE  status' = [status EXCEPT ![o] = st]
<1> DEFINE r == [ops[o] EXCEPT !.st = st]
<1>1. ops[o] \in OperationRecord BY DEF TypeOK
<1>2. r \in OperationRecord /\ r.st = st BY <1>1 DEF OperationRecord
<1>3. ops' = [ops EXCEPT ![o] = r] OBVIOUS
<1> HIDE DEF r
<1> QED BY <1>2, <1>3, StatusSaved

(* Saving the settled records of a set of operations. *)
LEMMA StatusSettled ==
    ASSUME RecordsAssumption, TypeOK, NEW S \in SUBSET Op, NEW to \in [Op -> DispatchState],
           \A o \in S : ops[o] # NoRec, ops' = Settled(S, to)
    PROVE  status' = [o \in Op |-> IF o \in S THEN to[o] ELSE status[o]]
<1>1. ASSUME NEW o \in Op PROVE State(o)' = IF o \in S THEN to[o] ELSE State(o)
  <2>1. CASE o \in S
    <3>1. ops[o] \in OperationRecord BY <2>1 DEF TypeOK
    <3>2. [ops[o] EXCEPT !.st = to[o]] \in OperationRecord /\ [ops[o] EXCEPT !.st = to[o]].st = to[o]
      BY <3>1 DEF OperationRecord
    <3>3. ops'[o] = [ops[o] EXCEPT !.st = to[o]] BY <2>1 DEF Settled
    <3>4. ops'[o] # NoRec /\ ops'[o].st = to[o] BY <3>2, <3>3, RecordsAssumption
    <3> QED BY <2>1, <3>4 DEF State
  <2>2. CASE o \notin S BY <2>2 DEF State, Settled
  <2> QED BY <2>1, <2>2
<1> QED BY <1>1 DEF status

(* One operation settles, completely or not at all. *)
LEMMA SettleDispatchStatus ==
    ASSUME ConstantsAssumption, RecordsAssumption, TypeOK, NEW o \in Op, ops[o] # NoRec,
           NEW st \in DispatchState, settle_dispatch(o, st)
    PROVE  \/ /\ status' = [status EXCEPT ![o] = st]
              /\ fence' = IF st = "Rejected" THEN Release(fence, o) ELSE fence
              /\ prompts \ {o} \subseteq prompts'
           \/ UNCHANGED <<status, fence, prompts>>
<1>1. CASE SettleSaved({o}, [x \in Op |-> st])
  <2> DEFINE to == [x \in Op |-> st]
  <2>1. to \in [Op -> DispatchState] /\ to[o] = st OBVIOUS
  <2>2. ops' = Settled({o}, to) /\ fence' = SettledFence({o}, to) BY <1>1 DEF SettleSaved
  <2>3. prompts \ {o} \subseteq prompts' BY <1>1 DEF SettleSaved
  <2> HIDE DEF to
  <2>4. status' = [status EXCEPT ![o] = st]
    <3>1. status' = [x \in Op |-> IF x \in {o} THEN to[x] ELSE status[x]] BY <2>1, <2>2, StatusSettled
    <3>2. status' = [x \in Op |-> IF x = o THEN st ELSE status[x]] BY <2>1, <3>1
    <3> QED BY <3>2, StatusType, Zenon
  <2>5. CASE st = "Rejected"
    <3>1. fence' = Release(fence, o)
      <4>1. fence' = [t \in Target |-> IF TargetOf[o] = t /\ fence[t] = o THEN NoOp ELSE fence[t]]
        BY <2>1, <2>2, <2>5 DEF SettledFence
      <4>2. fence \in [Target -> Op \cup {NoOp}] /\ TargetOf[o] \in Target BY ConstantsAssumption DEF TypeOK
      <4> QED BY <4>1, <4>2 DEF Release
    <3> QED BY <2>3, <2>4, <2>5, <3>1
  <2>6. CASE st # "Rejected" BY <2>1, <2>2, <2>6, <2>3, <2>4 DEF SettledFence, TypeOK
  <2> QED BY <2>5, <2>6
<1>2. CASE Fault /\ UNCHANGED <<ops, fence, prompts>> BY <1>2, StatusStutters
<1> QED BY <1>1, <1>2 DEF settle_dispatch

(* Confirmation moves the operation of the run, if it still can. *)
LEMMA ConfirmStatus ==
    ASSUME ConstantsAssumption, RecordsAssumption, TypeOK, NEW n \in Turn,
           NEW r \in RunRecord, ConfirmRecord(n, r)
    PROVE  /\ IF Confirmable(r.op)
              THEN /\ r.op \in Op
                   /\ status[r.op] \in {"DispatchStarted", "DeliveryUnknown"}
                   /\ status' = [status EXCEPT ![r.op] = "PromptConfirmed"]
              ELSE status' = status
           /\ \A o \in Op : status'[o] \in {"Prepared", "DispatchStarted"} /\ o \in prompts
                              => o \in prompts'
<1>0. r.op \in Op \cup {NoOp} BY DEF RunRecord
<1>1. CASE Confirmable(r.op)
  <2>1. r.op \in Op /\ ops[r.op] # NoRec BY <1>0, <1>1, HasRecord DEF Confirmable
  <2>2. status[r.op] \in {"DispatchStarted", "DeliveryUnknown"} BY <1>1, <2>1, StatusType DEF Confirmable
  <2> DEFINE c == [ops[r.op] EXCEPT !.st = "PromptConfirmed", !.run = n,
                                    !.epoch = r.epoch, !.sess = r.sess]
  <2>3. c \in OperationRecord /\ c.st = "PromptConfirmed"
    <3>1. ops[r.op] \in OperationRecord /\ r.epoch \in Nat /\ r.sess \in Nat BY <2>1 DEF TypeOK, RunRecord
    <3> QED BY <3>1 DEF OperationRecord, DispatchState
  <2>4. ops' = [ops EXCEPT ![r.op] = c] BY <1>1, <2>1 DEF ConfirmRecord, TypeOK
  <2> HIDE DEF c
  <2>5. status' = [status EXCEPT ![r.op] = "PromptConfirmed"] BY <2>1, <2>3, <2>4, StatusSaved
  <2>6. prompts' = prompts \ {r.op} BY <1>1 DEF ConfirmRecord
  <2> QED BY <1>1, <2>1, <2>2, <2>5, <2>6, StatusType
<1>2. CASE ~Confirmable(r.op) BY <1>2, StatusStutters, <1>0, StatusType DEF ConfirmRecord, ConfirmedBy
<1> QED BY <1>1, <1>2

-----------------------------------------------------------------------------
(* The inductive core, one lemma per way a step can touch it.               *)

(* Its four parts over status, prompts and the fence. *)
LEMMA CoreNext ==
    ASSUME TypeOK', ClientsAreStarted', HandlerKnows', FenceExact',
           \A o \in Op : status'[o] \in {"Prepared", "DispatchStarted"} => o \in prompts'
    PROVE  DispatchInv'
  BY DEF status, DispatchInv, BodiesPresent, InFlight

(* No operation moves. *)
LEMMA CoreStutters ==
    ASSUME TypeOK, TypeOK', DispatchInv, HandlerKnows', status' = status,
           UNCHANGED <<tmux, sent, fence, daemon>>,
           \A o \in Op : status[o] \in {"Prepared", "DispatchStarted"} /\ o \in prompts
                           => o \in prompts'
    PROVE  DispatchInv'
  BY StatusType, CoreNext DEF DispatchInv, ClientsAreStarted, FenceExact

(* One outstanding operation moves while the daemon is alive: its fence is  *)
(* kept exactly as long as it stays outstanding.                            *)
LEMMA CoreMoves ==
    ASSUME ConstantsAssumption, TypeOK, TypeOK', DispatchInv, HandlerKnows',
           NEW o \in Op, NEW st \in Status \ {"None", "Prepared"},
           status[o] \in Outstanding,
           status' = [status EXCEPT ![o] = st],
           daemon # "down",
           fence' = IF st \in Outstanding THEN fence ELSE Release(fence, o),
           UNCHANGED <<tmux, sent, daemon>>,
           st = "Rejected" => tmux[o] \in {"none", "refused"},
           \A x \in Op : status'[x] \in {"Prepared", "DispatchStarted"} /\ x \in prompts
                           => x \in prompts',
           st = "DispatchStarted" => status[o] = "Prepared"
    PROVE  DispatchInv'
  BY StatusType, ConstantsAssumption, CoreNext DEF DispatchInv, ClientsAreStarted, FenceExact, Outstanding, Release,
    TypeOK

-----------------------------------------------------------------------------
(* Every step keeps the inductive core and is a step of the contract.       *)

ContractStep == [Contract!ContractNext]_(Contract!contractVars)

(* A step a caller cannot see is a stutter of the contract. *)
LEMMA ContractStutters == ASSUME status' = status, sent' = sent PROVE ContractStep
  BY DEF ContractStep, Contract!contractVars

(* The moves of one operation, as the contract sees them. *)
LEMMA ContractMoves ==
    ASSUME NEW o \in Op, NEW st \in Status, sent' = sent, status \in [Op -> Status],
           status' = [status EXCEPT ![o] = st],
           \/ status[o] = "Prepared" /\ st = "DispatchStarted"
           \/ status[o] \in {"Prepared", "DispatchStarted"} /\ st = "Rejected" /\ sent[o] = 0
           \/ status[o] = "DispatchStarted" /\ st = "DeliveryUnknown"
           \/ status[o] \in {"DispatchStarted", "DeliveryUnknown"} /\ st = "PromptConfirmed"
           \/ status[o] = "DeliveryUnknown" /\ st = "Abandoned"
    PROVE  ContractStep
  BY DEF ContractStep, Contract!ContractNext, Contract!Start, Contract!Move, Contract!MaySettle, Status,
    Contract!Settle, Contract!Confirm, Contract!Abandon

(* One operation settles: rejected for certain, or uncertain. *)
LEMMA SettleStep ==
    ASSUME ConstantsAssumption, RecordsAssumption, TypeOK, TypeOK', DispatchInv, HandlerKnows',
           NEW o \in Op, NEW st \in {"Rejected", "DeliveryUnknown"}, settle_dispatch(o, st),
           UNCHANGED <<tmux, sent, daemon>>, daemon # "down",
           \/ /\ st = "Rejected" /\ status[o] \in {"Prepared", "DispatchStarted"}
              /\ tmux[o] \in {"none", "refused"}
           \/ st = "DeliveryUnknown" /\ status[o] = "DispatchStarted"
    PROVE  DispatchInv' /\ ContractStep
  BY StatusType, CoreMoves, ContractMoves, CoreStutters, ContractStutters, SettleDispatchStatus DEF Status,
    Contract!Status, Outstanding, Contract!Outstanding, DispatchState, DispatchInv, ClientsAreStarted

(* A run's operation is confirmed while the daemon is alive. *)
LEMMA ConfirmStep ==
    ASSUME ConstantsAssumption, RecordsAssumption, TypeOK, TypeOK', DispatchInv,
           NEW n \in Turn, NEW r \in RunRecord, confirm_linked_operation(n, r),
           worker = Idle, UNCHANGED <<tmux, sent, daemon, worker>>, daemon # "down"
    PROVE  DispatchInv' /\ ContractStep
<1>0. HandlerKnows' BY DEF HandlerKnows
<1>1. ConfirmRecord(n, r) BY DEF confirm_linked_operation
<1>2. \A o \in Op : status'[o] \in {"Prepared", "DispatchStarted"} /\ o \in prompts
                      => o \in prompts'
  BY <1>1, ConfirmStatus
<1>3. CASE Confirmable(r.op)
  BY <1>1, <1>3, ConfirmStatus, <1>0, <1>2, CoreMoves, StatusType, ContractMoves DEF confirm_linked_operation,
    Status, Contract!Status, Outstanding, Contract!Outstanding
<1>4. CASE ~Confirmable(r.op)
  <2>1. status' = status BY <1>1, <1>4, ConfirmStatus
  <2>2. fence' = fence
    BY StatusType, <1>4 DEF ConfirmedBy, RunRecord, Outstanding, Contract!Outstanding, DispatchInv, FenceExact,
      confirm_linked_operation, Release
  <2>3. DispatchInv' BY <1>0, <1>2, <2>1, <2>2, CoreStutters
  <2> QED BY <2>1, <2>3, ContractStutters
<1> QED BY <1>3, <1>4

(* The caller's and the operator's handlers. *)
LEMMA HandlerStep ==
    ASSUME ConstantsAssumption, RecordsAssumption, TypeOK, TypeOK', DispatchInv,
           NEW o \in Op, Handler(o)
    PROVE  DispatchInv' /\ ContractStep
<1> USE ConstantsAssumption, RecordsAssumption
<1>0. /\ status \in [Op -> Status] /\ status[o] = State(o)
      /\ \A x \in Op : status[x] \in Outstanding <=> status[x] \in {"Prepared", "DispatchStarted", "DeliveryUnknown"}
  BY StatusType DEF Outstanding, Contract!Outstanding
<1>1. CASE prepare_operation(o)
  <2>0. /\ daemon = "up" /\ worker = Idle /\ status[o] = "None"
        /\ fence[TargetOf[o]] = NoOp
        /\ UNCHANGED <<daemon, tmux, sent>>
    BY <1>0, <1>1, StatusType DEF prepare_operation, Serving, outside
  <2>1. CASE /\ ops' = [ops EXCEPT ![o] = Expected(o)]
             /\ prompts' = prompts \cup {o}
             /\ fence' = [fence EXCEPT ![TargetOf[o]] = o]
             /\ worker' = [pc |-> "prepared", op |-> o]
    <3>1. status' = [status EXCEPT ![o] = "Prepared"]
      <4>1. Expected(o) \in OperationRecord /\ Expected(o).st = "Prepared"
        BY DEF TypeOK, Expected, OperationRecord, PaneRecord, DispatchState, NoSess
      <4> QED BY <2>1, <4>1, StatusSaved
    <3>2. \A x \in Op : TargetOf[x] = TargetOf[o] => status[x] \notin Outstanding
      BY <2>0 DEF DispatchInv, FenceExact, Outstanding
    <3>3. ContractStep
      BY <2>0, <3>1, <3>2 DEF ContractStep, Contract!ContractNext, Contract!Prepare, Contract!Move, Outstanding
    <3>4. ClientsAreStarted' BY <1>0, <2>0, <3>1 DEF DispatchInv, ClientsAreStarted
    <3>5. HandlerKnows' BY <1>0, <2>0, <2>1, <3>1 DEF HandlerKnows, Idle
    <3>6. FenceExact'
      BY <2>0, <1>0, <2>1, <3>1, <3>2 DEF DispatchInv, FenceExact, Outstanding, TypeOK, Contract!Outstanding
    <3>7. \A x \in Op : status'[x] \in {"Prepared", "DispatchStarted"} => x \in prompts'
      BY <1>0, <2>1, <3>1, StatusType DEF DispatchInv
    <3> QED BY <3>3, <3>4, <3>5, <3>6, <3>7, CoreNext
  <2>2. CASE /\ prompts' \in {prompts, prompts \ {o}, prompts \cup {o}}
             /\ UNCHANGED <<ops, fence, worker>>
    BY <2>2, StatusStutters, <2>0, CoreStutters, ContractStutters DEF HandlerKnows
  <2> QED BY <1>1, <2>1, <2>2 DEF prepare_operation
<1>2. CASE ResumePrepared(o)
  BY <1>0, <1>2, StatusStutters, CoreStutters, ContractStutters DEF ResumePrepared, disk, outside, Serving,
    HandlerKnows
<1>3. CASE RejectPreparedRetry(o)
  BY <1>0, <1>3, SettleStep DEF RejectPreparedRetry, Serving, outside, HandlerKnows, DispatchInv, ClientsAreStarted
<1>4. CASE abandon_operation(o)
  <2>1. /\ daemon = "up" /\ worker = Idle /\ status[o] = "DeliveryUnknown" /\ ops[o] # NoRec
        /\ ops' = [ops EXCEPT ![o].st = "Abandoned"]
        /\ fence' = Release(fence, o) /\ prompts' = prompts \ {o}
        /\ UNCHANGED <<tmux, sent, daemon, worker>>
    BY <1>0, <1>4, HasRecord DEF abandon_operation, Serving, outside
  <2>2. "Abandoned" \in DispatchState /\ "Abandoned" \in Status \ {"None", "Prepared"}
        /\ "Abandoned" \notin Outstanding /\ status[o] \in Outstanding
    BY <2>1 DEF DispatchState, Status, Contract!Status, Outstanding, Contract!Outstanding
  <2>3. status' = [status EXCEPT ![o] = "Abandoned"] BY <2>1, <2>2, StatusMoved
  <2>4. HandlerKnows' BY <2>1 DEF HandlerKnows
  <2>5. \A x \in Op : status'[x] \in {"Prepared", "DispatchStarted"} /\ x \in prompts
                        => x \in prompts'
    BY <1>0, <2>1, <2>3
  <2>6. DispatchInv' BY <2>1, <2>2, <2>3, <2>4, <2>5, CoreMoves
  <2>7. ContractStep BY <1>0, <2>1, <2>2, <2>3, ContractMoves
  <2> QED BY <2>6, <2>7
<1>5. CASE DeadlinePasses(o)
  BY <1>5, StatusStutters, CoreStutters, ContractStutters DEF DeadlinePasses, disk, memory, outside, DispatchInv,
    HandlerKnows
<1> QED BY <1>1, <1>2, <1>3, <1>4, <1>5 DEF Handler

(* The rest of the prompt handler, from its checks to the outcome of tmux. *)
LEMMA DispatchStep ==
    ASSUME ConstantsAssumption, RecordsAssumption, TypeOK, TypeOK', DispatchInv, Dispatch
    PROVE  DispatchInv' /\ ContractStep
<1> USE ConstantsAssumption, RecordsAssumption
<1>0. PICK o \in Op : o = worker.op /\ worker # Idle /\ worker.pc # "idle"
  BY WorkerOp DEF Dispatch, RejectPreDispatch, mark_dispatch_started, SpawnTmux, RejectBeforeSpawn, AwaitSubmitted,
    AwaitRejected, AwaitUnknown, Idle
<1>a. /\ daemon = "up" /\ status \in [Op -> Status]
      /\ worker.pc = "prepared" => status[o] = "Prepared" /\ tmux[o] = "none"
      /\ worker.pc \in {"dispatching", "awaiting"} => status[o] = "DispatchStarted"
      /\ worker.pc = "dispatching" => tmux[o] = "none"
  BY <1>0, StatusType DEF DispatchInv, HandlerKnows, ClientsAreStarted
<1>b. ASSUME worker' = Idle PROVE HandlerKnows' BY <1>b DEF HandlerKnows
<1>1. CASE RejectPreDispatch BY <1>0, <1>a, <1>b, <1>1, SettleStep DEF RejectPreDispatch, outside
<1>2. CASE mark_dispatch_started
  <2>0. UNCHANGED <<tmux, sent, daemon, fence, prompts>> /\ worker.pc = "prepared"
    BY <1>2 DEF mark_dispatch_started, outside
  <2>1. ops[o] # NoRec /\ "DispatchStarted" \in DispatchState BY <1>a, <2>0, StatusType DEF DispatchState
  <2>2. CASE ops' = [ops EXCEPT ![o].st = "DispatchStarted"]
    <3>1. status' = [status EXCEPT ![o] = "DispatchStarted"] BY <2>1, <2>2, StatusMoved
    <3>2. worker' = Idle \/ worker' = [worker EXCEPT !.pc = "dispatching"] BY <1>2 DEF mark_dispatch_started
    <3>3. HandlerKnows' BY <1>0, <1>a, <2>0, <3>1, <1>b, <3>2 DEF TypeOK, HandlerKnows
    <3>4. /\ "DispatchStarted" \in Status \ {"None", "Prepared"}
          /\ "DispatchStarted" \in Outstanding /\ status[o] \in Outstanding
      BY <1>a, <2>0 DEF Status, Contract!Status, Outstanding, Contract!Outstanding
    <3>5. DispatchInv' BY <1>a, <2>0, <3>1, <3>3, <3>4, CoreMoves
    <3>6. ContractStep BY <1>a, <2>0, <3>1, <3>4, ContractMoves
    <3> QED BY <3>5, <3>6
  <2>3. CASE ops' = ops /\ worker' = Idle BY <1>b, <2>0, <2>3, StatusStutters, CoreStutters, ContractStutters
  <2> QED BY <1>0, <1>2, <2>2, <2>3 DEF mark_dispatch_started
<1>3. CASE SpawnTmux
  BY <1>0, <1>3, StatusStutters, <1>a, StatusType, CoreNext, ContractStutters DEF SpawnTmux, disk, DispatchInv,
    ClientsAreStarted, TypeOK, HandlerKnows, FenceExact
<1>4. CASE RejectBeforeSpawn BY <1>0, <1>a, <1>b, <1>4, SettleStep DEF RejectBeforeSpawn, outside
<1>5. CASE AwaitSubmitted
  BY <1>5, <1>b, StatusStutters, CoreStutters, ContractStutters DEF AwaitSubmitted, disk, outside
<1>6. CASE AwaitRejected BY <1>0, <1>a, <1>b, <1>6, SettleStep DEF AwaitRejected, outside
<1>7. CASE AwaitUnknown BY <1>0, <1>a, <1>b, <1>7, SettleStep DEF AwaitUnknown, outside
<1> QED BY <1>1, <1>2, <1>3, <1>4, <1>5, <1>6, <1>7 DEF Dispatch

(* Several expired or interrupted operations settle. *)
LEMMA SettleManyStep ==
    ASSUME ConstantsAssumption, RecordsAssumption, TypeOK, TypeOK', DispatchInv, HandlerKnows',
           NEW S \in SUBSET Op, NEW to, to = [o \in Op |-> TimeoutState(o)],
           \A o \in S : InFlight(o), daemon # "down",
           ops' = Settled(S, to), fence' = SettledFence(S, to),
           prompts \ S \subseteq prompts',
           UNCHANGED <<tmux, sent, daemon>>
    PROVE  DispatchInv' /\ ContractStep
<1> USE ConstantsAssumption, RecordsAssumption
<1>0. /\ status \in [Op -> Status]
      /\ \A o \in S : ops[o] # NoRec /\ status[o] \in {"Prepared", "DispatchStarted"}
  BY StatusType DEF InFlight
<1>1. /\ to \in [Op -> DispatchState]
      /\ \A o \in S : to[o] = IF status[o] = "Prepared" THEN "Rejected" ELSE "DeliveryUnknown"
  BY StatusType DEF TimeoutState, DispatchState
<1>2. status' = [o \in Op |-> IF o \in S THEN to[o] ELSE status[o]] BY <1>0, <1>1, StatusSettled
<1>3. ClientsAreStarted' BY <1>0, <1>1, <1>2 DEF DispatchInv, ClientsAreStarted
<1>4. FenceExact'
  <2>1. \A x \in Op : /\ status'[x] \in Outstanding => status[x] \in Outstanding
                      /\ status[x] \in Outstanding /\ status'[x] \notin Outstanding
                           => x \in S /\ to[x] = "Rejected"
                      /\ x \in S /\ to[x] = "Rejected" => status'[x] \notin Outstanding
    BY <1>0, <1>1, <1>2 DEF Outstanding, Contract!Outstanding
  <2>2. \A x \in Op : status[x] \in Outstanding <=> fence[TargetOf[x]] = x
    BY DEF DispatchInv, FenceExact, Outstanding
  <2>3. ASSUME NEW x \in Op
        PROVE  status'[x] \in Outstanding <=> fence'[TargetOf[x]] = x
    <3>1. CASE fence[TargetOf[x]] = x
      <4>1. fence'[TargetOf[x]] = IF x \in S /\ to[x] = "Rejected" THEN NoOp ELSE x
        <5>1. fence'[TargetOf[x]] =
                IF \E o \in S : to[o] = "Rejected" /\ TargetOf[o] = TargetOf[x]
                                                 /\ fence[TargetOf[x]] = o
                THEN NoOp ELSE fence[TargetOf[x]]
          BY DEF SettledFence
        <5> QED BY <3>1, <5>1, Zenon
      <4> QED BY <2>1, <2>2, <3>1, <4>1
    <3>2. CASE fence[TargetOf[x]] # x BY <3>2, <2>1, <2>2 DEF SettledFence, TypeOK
    <3> QED BY <3>1, <3>2
  <2>4. \A x, y \in Op : /\ status'[x] \in Outstanding /\ status'[y] \in Outstanding
                         /\ TargetOf[x] = TargetOf[y]
                         => x = y
    BY <2>3
  <2> QED BY <2>3, <2>4 DEF FenceExact, Outstanding
<1>5. \A x \in Op : status'[x] \in {"Prepared", "DispatchStarted"} => x \in prompts'
  BY <1>0, <1>1, <1>2, StatusType DEF DispatchInv
<1>6. DispatchInv' BY <1>3, <1>4, <1>5, CoreNext
<1>7. ContractStep
  BY <1>2, <1>0, <1>1 DEF DispatchInv, ClientsAreStarted, Contract!MaySettle, Status, Contract!Status,
    DispatchState, ContractStep, Contract!ContractNext, Contract!Settle
<1> QED BY <1>6, <1>7

(* The daemon dies, having perhaps confirmed the operation of a run.  The   *)
(* fence dies with it; that no target has two outstanding operations is     *)
(* what the disk keeps of it.                                               *)
LEMMA CrashStep ==
    ASSUME ConstantsAssumption, RecordsAssumption, TypeOK, TypeOK', DispatchInv, CrashNow,
           UNCHANGED <<tmux, sent>>,
           \/ UNCHANGED <<ops, prompts>>
           \/ \E n \in Turn, r \in RunRecord : ConfirmRecord(n, r)
    PROVE  DispatchInv' /\ ContractStep
<1> USE ConstantsAssumption, RecordsAssumption
<1>0. status \in [Op -> Status] /\ daemon' = "down" /\ worker' = Idle BY StatusType DEF CrashNow
<1>1. /\ \/ status' = status
         \/ \E o \in Op : /\ status[o] \in {"DispatchStarted", "DeliveryUnknown"}
                          /\ status' = [status EXCEPT ![o] = "PromptConfirmed"]
      /\ \A o \in Op : status'[o] \in {"Prepared", "DispatchStarted"} /\ o \in prompts
                         => o \in prompts'
  BY StatusStutters, ConfirmStatus
<1>2. ContractStep BY <1>0, <1>1, ContractMoves, ContractStutters DEF Status, Contract!Status
<1>3. ClientsAreStarted' BY <1>0, <1>1 DEF DispatchInv, ClientsAreStarted
<1>4. HandlerKnows' BY <1>0 DEF HandlerKnows
<1>5. FenceExact' BY <1>0, <1>1 DEF Outstanding, Contract!Outstanding, DispatchInv, FenceExact
<1>6. \A x \in Op : status'[x] \in {"Prepared", "DispatchStarted"} => x \in prompts'
  BY <1>0, <1>1, StatusType DEF DispatchInv
<1> QED BY <1>2, <1>3, <1>4, <1>5, <1>6, CoreNext

(* Provider hooks: only the confirmation of a linked operation matters. *)
LEMMA HookCoreStep ==
    ASSUME ConstantsAssumption, RecordsAssumption, TypeOK, TypeOK', DispatchInv,
           NEW h \in hooks, HookStep(h)
    PROVE  DispatchInv' /\ ContractStep
<1> USE ConstantsAssumption, RecordsAssumption
<1>0. /\ h.target \in Target
      /\ h.kind # "SessionStart" => h.turn \in Turn
  BY DEF TypeOK, Hook
<1>1. ASSUME UNCHANGED <<ops, prompts, fence, worker, daemon, tmux, sent>>
      PROVE  DispatchInv' /\ ContractStep
  BY <1>1, StatusStutters, CoreStutters, ContractStutters DEF DispatchInv, HandlerKnows
<1>2. CASE NewRun(h)
  <2>0. h.turn \in Turn /\ worker = Idle /\ daemon = "up" /\ UNCHANGED <<tmux, sent>>
    BY <1>0, <1>2 DEF NewRun, Serving
  <2> DEFINE p == pane[h.target]
             rec(o) == [target |-> h.target, op |-> o, epoch |-> p.epoch, sess |-> p.sess,
                        seq |-> p.seq + 1, active |-> TRUE, stopped |-> FALSE]
  <2>1. PICK o \in Op \cup {NoOp} : SaveRun(h.turn, rec(o)) BY <1>0, <1>2 DEF matching_operation, TypeOK, NewRun
  <2> DEFINE r == rec(o)
  <2>2. r \in RunRecord BY <1>0 DEF RunRecord, PaneRecord, TypeOK
  <2>3. SaveRun(h.turn, r) BY <2>1
  <2> HIDE DEF r, rec, p
  <2>4. CASE confirm_linked_operation(h.turn, r) /\ UNCHANGED <<worker, daemon>> BY <2>0, <2>2, <2>4, ConfirmStep
  <2>5. CASE UNCHANGED <<ops, prompts, fence, worker, daemon>> BY <1>1, <2>0, <2>5
  <2>6. CASE CrashNow /\ (ConfirmRecord(h.turn, r) \/ UNCHANGED <<ops, prompts>>) BY <2>0, <2>2, <2>6, CrashStep
  <2> QED BY <2>3, <2>4, <2>5, <2>6 DEF SaveRun
<1>3. CASE SameTurnPrompt(h) BY <1>0, <1>3, ConfirmStep DEF SameTurnPrompt, TypeOK, Serving
<1>4. CASE Stop(h)
  <2> DEFINE r == [runs[h.turn] EXCEPT !.active = FALSE, !.stopped = TRUE]
  <2>1. h.turn \in Turn /\ r \in RunRecord BY <1>0, <1>4, EndedType DEF Stop
  <2>2. /\ worker = Idle /\ daemon = "up" /\ UNCHANGED <<tmux, sent, daemon, worker>>
        /\ confirm_linked_operation(h.turn, r)
    BY <1>4 DEF Stop, Serving
  <2> HIDE DEF r
  <2> QED BY <2>1, <2>2, ConfirmStep
<1>5. CASE UnattributedStop(h) BY <1>1, <1>5 DEF UnattributedStop, memory
<1>6. CASE SessionStart(h) BY <1>1, <1>6 DEF SessionStart, memory
<1>7. CASE HookLost(h) BY <1>1, <1>7 DEF HookLost, disk, memory
<1> QED BY <1>2, <1>3, <1>4, <1>5, <1>6, <1>7 DEF HookStep

(* The provider process touches nothing of the daemon's. *)
LEMMA ProviderStep ==
    ASSUME ConstantsAssumption, RecordsAssumption, TypeOK, TypeOK', DispatchInv,
           \/ \E t \in Target : Provider(t)
           \/ \E n \in Turn : AgentStops(n)
    PROVE  DispatchInv' /\ ContractStep
  BY StatusStutters, CoreStutters, ContractStutters DEF Provider, AgentTakesInput, HumanPrompt, AgentRollsOver,
    AgentStops, disk, memory, DispatchInv, HandlerKnows

(* The tmux server: the body is pasted, or refused for certain. *)
LEMMA TmuxStep ==
    ASSUME ConstantsAssumption, RecordsAssumption, TypeOK, TypeOK', DispatchInv,
           NEW o \in Op, TmuxRun(o) \/ TmuxRefuse(o)
    PROVE  DispatchInv' /\ ContractStep
<1>0. /\ tmux[o] = "spawned" /\ UNCHANGED <<ops, prompts, fence, worker, daemon>>
      /\ status \in [Op -> Status]
  BY StatusType DEF TmuxRun, TmuxRefuse, disk, memory
<1>1. status' = status BY <1>0, StatusStutters
<1>2. /\ sent[o] = 0
      /\ status[o] \in {"DispatchStarted", "DeliveryUnknown", "Abandoned", "PromptConfirmed"}
  BY <1>0 DEF DispatchInv, ClientsAreStarted, Status, Contract!Status
<1>3. HandlerKnows' BY <1>0, WorkerOp, <1>1 DEF TmuxRun, TmuxRefuse, TypeOK, DispatchInv, HandlerKnows
<1>4. FenceExact' BY <1>0, <1>1 DEF DispatchInv, FenceExact
<1>5. \A x \in Op : status'[x] \in {"Prepared", "DispatchStarted"} => x \in prompts'
  BY <1>0, <1>1, StatusType DEF DispatchInv
<1>6. CASE TmuxRun(o)
  <2>1. tmux' = [tmux EXCEPT ![o] = "ran"] /\ sent' = [sent EXCEPT ![o] = 1] BY <1>2, <1>6 DEF TmuxRun
  <2>2. ContractStep BY <1>1, <1>2, <2>1 DEF ContractStep, Contract!ContractNext, Contract!Deliver
  <2>3. ClientsAreStarted' BY <1>1, <1>2, <2>1 DEF DispatchInv, ClientsAreStarted, TypeOK
  <2> QED BY <1>3, <1>4, <1>5, <2>2, <2>3, CoreNext
<1>7. CASE TmuxRefuse(o)
  BY <1>7, <1>1, <1>2, <1>3, <1>4, <1>5, CoreNext, ContractStutters DEF TmuxRefuse, DispatchInv, ClientsAreStarted,
    TypeOK
<1> QED BY <1>6, <1>7

(* The fence is read back from the disk: since no target has two            *)
(* outstanding operations, it is read back exactly.                         *)
LEMMA BootStep ==
    ASSUME ConstantsAssumption, RecordsAssumption, TypeOK, TypeOK', DispatchInv, Boot
    PROVE  DispatchInv' /\ ContractStep
<1> USE ConstantsAssumption, RecordsAssumption
<1>0. /\ daemon = "down" /\ daemon' = "booting" /\ UNCHANGED <<ops, worker, tmux, sent>>
      /\ prompts' = {o \in prompts : InFlight(o)}
  BY DEF Boot, outside
<1>1. status' = status /\ worker = Idle BY <1>0, StatusStutters DEF DispatchInv, HandlerKnows
<1>2. ClientsAreStarted' BY <1>0, <1>1 DEF DispatchInv, ClientsAreStarted
<1>3. HandlerKnows' BY <1>0, <1>1 DEF HandlerKnows
<1>4. FenceExact'
  <2>1. \A x, y \in Op : /\ status[x] \in Outstanding /\ status[y] \in Outstanding
                         /\ TargetOf[x] = TargetOf[y]
                         => x = y
    BY DEF DispatchInv, FenceExact, Outstanding
  <2>2. \A x \in Op : Fenced(x) <=> status[x] \in Outstanding
    BY StatusType DEF Fenced, Outstanding, Contract!Outstanding
  <2>3. ASSUME NEW x \in Op
        PROVE  status[x] \in Outstanding <=> fence'[TargetOf[x]] = x
    <3> DEFINE F == {o \in Op : Fenced(o) /\ TargetOf[o] = TargetOf[x]}
    <3>1. IF F = {} THEN fence'[TargetOf[x]] = NoOp ELSE fence'[TargetOf[x]] \in F BY DEF Boot, Reindexed
    <3> QED BY <2>1, <2>2, <3>1
  <2> QED BY <1>1, <2>1, <2>3 DEF FenceExact, Outstanding
<1>5. \A x \in Op : status'[x] \in {"Prepared", "DispatchStarted"} => x \in prompts'
  BY <1>0, <1>1, StatusType DEF DispatchInv, InFlight
<1> QED BY <1>0, <1>1, <1>2, <1>3, <1>4, <1>5, CoreNext, ContractStutters

(* Deadlines, crashes and restarts. *)
LEMMA RestartStep ==
    ASSUME ConstantsAssumption, RecordsAssumption, TypeOK, TypeOK', DispatchInv,
           settle_expired_dispatches \/ Crash \/ Restart
    PROVE  DispatchInv' /\ ContractStep
<1> USE ConstantsAssumption, RecordsAssumption
<1>0. ASSUME worker = Idle, worker' = worker PROVE HandlerKnows' BY <1>0 DEF HandlerKnows
<1>1. CASE settle_expired_dispatches
  <2> DEFINE due == {o \in expired : InFlight(o) /\ fence[TargetOf[o]] = o}
             to  == [o \in Op |-> TimeoutState(o)]
  <2>1. due \in SUBSET Op /\ \A o \in due : InFlight(o) BY DEF TypeOK
  <2>2. /\ \/ SettleSaved(due, to)
           \/ \E S \in SUBSET due : /\ Fault
                                    /\ ops' = Settled(S, to)
                                    /\ fence' = SettledFence(S, to)
                                    /\ prompts' = prompts \ S
        /\ worker = Idle /\ worker' = worker /\ daemon # "down"
        /\ UNCHANGED <<tmux, sent, daemon>>
    BY <1>1 DEF settle_expired_dispatches, Serving, outside
  <2> HIDE DEF due
  <2>3. \E S \in SUBSET due : /\ ops' = Settled(S, to)
                              /\ fence' = SettledFence(S, to)
                              /\ prompts \ S \subseteq prompts'
    BY <2>2 DEF SettleSaved
  <2>4. PICK S \in SUBSET due : /\ ops' = Settled(S, to)
                                /\ fence' = SettledFence(S, to)
                                /\ prompts \ S \subseteq prompts'
    BY <2>3
  <2>5. S \in SUBSET Op /\ \A o \in S : InFlight(o) BY <2>1
  <2>6. HandlerKnows' BY <1>0, <2>2
  <2> QED BY <2>2, <2>4, <2>5, <2>6, SettleManyStep
<1>2. CASE Crash BY <1>2, CrashStep DEF Crash, disk, outside
<1>3. CASE Boot BY <1>3, BootStep
<1>4. ASSUME NEW n \in Turn, BootConfirm(n) PROVE DispatchInv' /\ ContractStep
  BY <1>4, ConfirmStep DEF BootConfirm, outside, Unconfirmed, TypeOK, DispatchInv, HandlerKnows
<1>5. ASSUME NEW o \in Op, BootSettle(o) PROVE DispatchInv' /\ ContractStep
  <2> DEFINE to == [x \in Op |-> TimeoutState(x)]
  <2>1. /\ daemon = "booting" /\ SettleSaved({o}, to) /\ InFlight(o)
        /\ UNCHANGED <<tmux, sent, daemon, worker>>
    BY <1>5 DEF BootSettle, outside, Interrupted, InFlight
  <2>2. /\ ops' = Settled({o}, to) /\ fence' = SettledFence({o}, to)
        /\ prompts \ {o} \subseteq prompts'
    BY <2>1 DEF SettleSaved
  <2>3. HandlerKnows' BY <1>0, <2>1 DEF DispatchInv, HandlerKnows
  <2>4. {o} \in SUBSET Op /\ \A x \in {o} : InFlight(x) BY <2>1
  <2> QED BY <2>1, <2>2, <2>3, <2>4, SettleManyStep
<1>6. CASE BootDone
  BY <1>6, StatusStutters, <1>0, StatusType, CoreNext, ContractStutters DEF BootDone, memory, outside, DispatchInv,
    HandlerKnows, ClientsAreStarted, FenceExact
<1> QED BY <1>1, <1>2, <1>3, <1>4, <1>5, <1>6 DEF Restart

-----------------------------------------------------------------------------
(* The theorems.                                                            *)

(* Every step keeps the types; the handler's own steps need HandlerKnows. *)
LEMMA NextTyped ==
    ASSUME ConstantsAssumption, RecordsAssumption, TypeOK, DispatchInv, [Next]_vars
    PROVE  TypeOK'
  BY HandlerType, DispatchType, HookType, ProviderType, OtherType DEF DispatchInv, TypeOK, vars, disk, memory,
    outside, Next

(* Every step keeps the inductive core and implements the contract. *)
LEMMA NextKeepsCore ==
    ASSUME ConstantsAssumption, RecordsAssumption, TypeOK, DispatchInv, [Next]_vars
    PROVE  DispatchInv' /\ ContractStep
<1>0. TypeOK' BY NextTyped
<1>1. CASE UNCHANGED vars
  BY <1>1, StatusStutters, <1>0, CoreStutters, ContractStutters DEF vars, disk, memory, outside, DispatchInv,
    HandlerKnows
<1>2. CASE Next BY <1>0, <1>2, HandlerStep, DispatchStep, HookCoreStep, ProviderStep, TmuxStep, RestartStep DEF Next
<1> QED BY <1>1, <1>2

(* The inductive core holds of the fresh store. *)
LEMMA InitCore == ASSUME ConstantsAssumption, Init PROVE DispatchInv /\ Contract!ContractInit
<1> USE ConstantsAssumption
<1>1. \A o \in Op : ops[o] = NoRec /\ fence[TargetOf[o]] = NoOp BY DEF Init, NoFence
<1>2. status = [o \in Op |-> "None"] BY <1>1 DEF status, State
<1>3. ClientsAreStarted BY <1>2 DEF Init, ClientsAreStarted
<1>4. HandlerKnows BY DEF Init, HandlerKnows
<1>5. FenceExact BY <1>1, <1>2 DEF FenceExact, Contract!Outstanding
<1>6. BodiesPresent BY <1>1 DEF BodiesPresent, InFlight, State
<1>7. Contract!ContractInit BY <1>2 DEF Init, Contract!ContractInit
<1> QED BY <1>3, <1>4, <1>5, <1>6, <1>7 DEF DispatchInv

(* The inductive invariant: the handler, the fence, the staged bodies and   *)
(* the tmux clients agree with the operation records in every state.        *)
THEOREM DispatchInvariant == Spec => [](TypeOK /\ DispatchInv)
<1>1. Init => TypeOK /\ DispatchInv BY ConstantsAssumption, InitType, InitCore
<1>2. TypeOK /\ DispatchInv /\ [Next]_vars => (TypeOK /\ DispatchInv)'
  BY ConstantsAssumption, RecordsAssumption, NextTyped, NextKeepsCore
<1> QED BY <1>1, <1>2, PTL DEF Spec

(* Every variable keeps its type. *)
THEOREM TypeCorrect == Spec => []TypeOK BY DispatchInvariant, PTL

(* Over every crash, failed write, retry and late tmux command, a prompt    *)
(* body reaches its pane at most once.                                      *)
THEOREM DeliversAtMostOnce == Spec => []AtMostOnce
<1>1. TypeOK /\ DispatchInv => AtMostOnce BY DEF DispatchInv, ClientsAreStarted, AtMostOnce
<1> QED BY <1>1, DispatchInvariant, PTL

(* An operation the daemon reports as rejected was never pasted and never   *)
(* will be.                                                                 *)
THEOREM RejectedMeansNotSent == Spec => []RejectedNotSent
<1>1. TypeOK /\ DispatchInv => RejectedNotSent BY StatusType DEF DispatchInv, ClientsAreStarted, RejectedNotSent
<1> QED BY <1>1, DispatchInvariant, PTL

(* While the daemon serves, its fence lists exactly the operations whose    *)
(* records on disk are fenced, so no target has two dispatches outstanding. *)
THEOREM FenceIsTheStores == Spec => []FenceMatchesStore
<1>1. TypeOK /\ DispatchInv => FenceMatchesStore
  BY StatusType DEF Fenced, Contract!Outstanding, DispatchInv, FenceExact, FenceMatchesStore
<1> QED BY <1>1, DispatchInvariant, PTL

(* The whole protocol, with its crashes and retries, implements the         *)
(* contract a caller reads.                                                 *)
THEOREM Refinement == Spec => ImplementsContract
<1>1. Init => Contract!ContractInit BY ConstantsAssumption, InitCore
<1>2. TypeOK /\ DispatchInv /\ [Next]_vars => [Contract!ContractNext]_(Contract!contractVars)
  BY ConstantsAssumption, RecordsAssumption, NextKeepsCore DEF ContractStep
<1> QED BY <1>1, <1>2, DispatchInvariant, PTL DEF Spec, ImplementsContract, Contract!ContractSpec
-----------------------------------------------------------------------------
(* The links between operations and runs: a confirmed operation has its     *)
(* run, and the store a crash leaves behind can always be opened again.     *)

(* The write that confirms a linked operation succeeds, unless the daemon   *)
(* dies before it.  (When it may fail on its own, StoreReopens is false.)   *)
ConfirmsAtOnce == ~ConfirmFaults

-----------------------------------------------------------------------------
(* The inductive invariant of the links.                                    *)

Linking(n, o) == runs[n] # NoRun /\ runs[n].op = o

(* What a run says of the operation it is linked to.                        *)
LinkGood(n, o) ==
    /\ State(o) \in {"DispatchStarted", "DeliveryUnknown", "PromptConfirmed"}
    /\ runs[n].target = TargetOf[o]
    /\ turns[n] # NoTurn /\ turns[n].prompt = PromptOf[o]
    /\ State(o) = "PromptConfirmed" =>
          ops[o].run = n /\ ops[o].epoch = runs[n].epoch /\ ops[o].sess = runs[n].sess

LinksGood == \A o \in Op, n \in Turn : Linking(n, o) => LinkGood(n, o)
OneLink == \A o \in Op, n, m \in Turn : Linking(n, o) /\ Linking(m, o) => n = m
ConfirmedLinked ==
    \A o \in Op : State(o) = "PromptConfirmed" => ops[o].run \in Turn /\ Linking(ops[o].run, o)

(* Only a crash separates a link from its confirmation, and the next daemon *)
(* confirms it before it serves: hence no second run of the operation.      *)
UpConfirmed ==
    daemon = "up" => \A o \in Op, n \in Turn : Linking(n, o) => State(o) = "PromptConfirmed"

(* A fence is held by an operation of that target; a prompt hook is sent    *)
(* after its turn began.                                                    *)
FenceOwn == \A t \in Target : fence[t] \in Op => TargetOf[fence[t]] = t
HooksTold == \A h \in hooks : h.kind = "UserPromptSubmit" => turns[h.turn] # NoTurn

LinkInv == LinksGood /\ OneLink /\ ConfirmedLinked /\ UpConfirmed /\ FenceOwn /\ HooksTold

-----------------------------------------------------------------------------
(* What a step may do to runs, turns and operations.                        *)

(* Runs stay, and stay linked as they are; turns stay.                      *)
RunsKept ==
    \A n \in Turn : IF runs[n] = NoRun THEN runs'[n] = NoRun
                    ELSE /\ runs'[n] # NoRun /\ runs'[n].op = runs[n].op
                         /\ runs'[n].target = runs[n].target
                         /\ runs'[n].epoch = runs[n].epoch /\ runs'[n].sess = runs[n].sess

TurnsKept == \A n \in Turn : turns[n] # NoTurn => turns'[n] = turns[n]

(* An operation changes only while nothing is linked to it.                 *)
Free(o) == State(o) # "PromptConfirmed" /\ \A n \in Turn : ~Linking(n, o)
OpsKept == \A o \in Op : ops'[o] = ops[o] \/ (Free(o) /\ State(o)' # "PromptConfirmed")

(* While the daemon serves, an unconfirmed operation is free.               *)
LEMMA UpFree ==
    ASSUME LinkInv, daemon = "up", NEW o \in Op, State(o) # "PromptConfirmed" PROVE Free(o)
  BY DEF LinkInv, UpConfirmed, Free

(* Such steps keep the links.                                               *)
LEMMA LinksKept ==
    ASSUME ConstantsAssumption, LinkInv, RunsKept, TurnsKept, OpsKept,
           daemon' = "up" => daemon = "up" \/ Unconfirmed = {}
    PROVE  LinksGood' /\ OneLink' /\ ConfirmedLinked' /\ UpConfirmed'
<1>1. \A o \in Op, n \in Turn : Linking(n, o)' <=> Linking(n, o) BY DEF RunsKept, Linking
<1>2. ASSUME NEW o \in Op, NEW n \in Turn, Linking(n, o) PROVE ops'[o] = ops[o] BY <1>2 DEF OpsKept, Free
<1>3. ASSUME NEW o \in Op, ops'[o] = ops[o] PROVE State(o)' = State(o) BY <1>3 DEF State
<1>4. LinksGood' BY <1>1, <1>2, <1>3 DEF LinkInv, LinksGood, LinkGood, TurnsKept, RunsKept, Linking
<1>5. OneLink' BY <1>1 DEF LinkInv, OneLink
<1>6. ConfirmedLinked' BY <1>3 DEF OpsKept, LinkInv, ConfirmedLinked, RunsKept, Linking
<1>7. UpConfirmed'
  BY <1>1, <1>2, <1>3, ConstantsAssumption DEF LinkInv, UpConfirmed, Unconfirmed, Linking, ConstantsAssumption
<1> QED BY <1>4, <1>5, <1>6, <1>7

(* A fence is given up, or taken by an operation of its target.             *)
LEMMA FenceStays ==
    ASSUME ConstantsAssumption, LinkInv,
           \A t \in Target : fence'[t] \in {fence[t], NoOp} \/ TargetOf[fence'[t]] = t
    PROVE  FenceOwn'
  BY ConstantsAssumption DEF ConstantsAssumption, LinkInv, FenceOwn

(* Only the start of a turn sends a prompt hook.                            *)
LEMMA HooksStay ==
    ASSUME TypeOK, LinkInv, TurnsKept,
           \A h \in hooks' : h \in hooks \/ h.kind # "UserPromptSubmit" \/ turns'[h.turn] # NoTurn
    PROVE  HooksTold'
  BY DEF TypeOK, Hook, LinkInv, HooksTold, TurnsKept

(* The usual case: no run, turn or hook changes.                            *)
LEMMA OnlyOps ==
    ASSUME ConstantsAssumption, TypeOK, LinkInv, OpsKept,
           \A t \in Target : fence'[t] \in {fence[t], NoOp} \/ TargetOf[fence'[t]] = t,
           runs' = runs, turns' = turns, hooks' = hooks,
           daemon' = "up" => daemon = "up" \/ Unconfirmed = {}
    PROVE  LinkInv'
  BY LinksKept, FenceStays, HooksStay DEF RunsKept, TurnsKept, LinkInv

(* Saving the settled records of free operations.                           *)
LEMMA SettledOps ==
    ASSUME RecordsAssumption, TypeOK, NEW S \in SUBSET Op, NEW to \in [Op -> DispatchState],
           \A o \in S : ops[o] # NoRec /\ Free(o) /\ to[o] # "PromptConfirmed",
           ops' = Settled(S, to), fence' = SettledFence(S, to)
    PROVE  /\ OpsKept
           /\ \A t \in Target : fence'[t] \in {fence[t], NoOp}
<1>1. ASSUME NEW o \in S PROVE State(o)' # "PromptConfirmed" BY StatusSettled, <1>1 DEF status
<1>2. \A o \in Op \ S : ops'[o] = ops[o] BY DEF Settled
<1> QED BY <1>1, <1>2 DEF OpsKept, SettledFence

LEMMA SettleOps ==
    ASSUME RecordsAssumption, TypeOK, NEW o \in Op, NEW st \in DispatchState,
           ops[o] # NoRec, Free(o), st # "PromptConfirmed", settle_dispatch(o, st)
    PROVE  /\ OpsKept
           /\ \A t \in Target : fence'[t] \in {fence[t], NoOp}
<1>1. CASE SettleSaved({o}, [x \in Op |-> st])
  <2> DEFINE to == [x \in Op |-> st]
             S == {o}
  <2>1. to \in [Op -> DispatchState] /\ S \in SUBSET Op
        /\ \A x \in S : ops[x] # NoRec /\ Free(x) /\ to[x] # "PromptConfirmed"
    OBVIOUS
  <2>2. ops' = Settled(S, to) /\ fence' = SettledFence(S, to) BY <1>1 DEF SettleSaved
  <2> HIDE DEF to, S
  <2> QED BY <2>1, <2>2, SettledOps
<1>2. CASE UNCHANGED <<ops, fence>> BY <1>2 DEF OpsKept
<1> QED BY <1>1, <1>2 DEF settle_dispatch

-----------------------------------------------------------------------------
(* The steps that leave the links alone.                                    *)

(* A handler called by a client or the operator.                            *)
LEMMA HandlerLinks ==
    ASSUME ConstantsAssumption, RecordsAssumption, TypeOK, LinkInv, NEW o \in Op, Handler(o)
    PROVE  LinkInv'
<1>1. CASE prepare_operation(o)
  BY <1>1, UpFree, OnlyOps, ConstantsAssumption DEF prepare_operation, Serving, State, Expected, TypeOK, OpsKept,
    outside, ConstantsAssumption
<1>2. CASE ResumePrepared(o) BY <1>2, OnlyOps DEF ResumePrepared, OpsKept, disk, outside
<1>3. CASE RejectPreparedRetry(o)
  BY <1>3, UpFree, SettleOps, OnlyOps DEF RejectPreparedRetry, Serving, State, DispatchState, outside
<1>4. CASE abandon_operation(o)
  BY <1>4, UpFree, StatusMoved, OnlyOps DEF abandon_operation, Serving, State, DispatchState, status, OpsKept,
    TypeOK, Release, outside
<1>5. CASE DeadlinePasses(o) BY <1>5, OnlyOps DEF DeadlinePasses, OpsKept, disk, memory, outside
<1> QED BY <1>1, <1>2, <1>3, <1>4, <1>5 DEF Handler

(* The rest of the prompt handler works on an operation without a run.      *)
LEMMA DispatchLinks ==
    ASSUME ConstantsAssumption, RecordsAssumption, TypeOK, DispatchInv, LinkInv, Dispatch
    PROVE  LinkInv'
<1>0. PICK o \in Op : o = worker.op /\ worker # Idle /\ worker.pc # "idle"
  BY WorkerOp DEF Dispatch, RejectPreDispatch, mark_dispatch_started, SpawnTmux, RejectBeforeSpawn, AwaitSubmitted,
    AwaitRejected, AwaitUnknown, Idle
<1>1. daemon = "up" /\ State(o) \in {"Prepared", "DispatchStarted"} /\ ops[o] # NoRec
  BY <1>0, WorkerOp DEF DispatchInv, HandlerKnows, status, State
<1>2. Free(o) /\ "Rejected" \in DispatchState /\ "DeliveryUnknown" \in DispatchState
      /\ "DispatchStarted" \in DispatchState
  BY <1>1, UpFree DEF DispatchState
<1>3. CASE RejectPreDispatch \/ RejectBeforeSpawn \/ AwaitRejected \/ AwaitUnknown
  BY <1>0, <1>1, <1>2, <1>3, SettleOps, OnlyOps DEF RejectPreDispatch, RejectBeforeSpawn, AwaitRejected,
    AwaitUnknown, outside
<1>4. CASE mark_dispatch_started
  <2>1. ASSUME ops' = [ops EXCEPT ![o].st = "DispatchStarted"] PROVE OpsKept
    <3>1. status' = [status EXCEPT ![o] = "DispatchStarted"] BY <1>1, <1>2, <2>1, StatusMoved
    <3>2. State(o)' # "PromptConfirmed" BY <3>1 DEF status
    <3> QED BY <1>2, <2>1, <3>2 DEF OpsKept, TypeOK
  <2>2. OpsKept BY <1>0, <1>4, <2>1 DEF mark_dispatch_started, OpsKept
  <2> QED BY <1>4, <2>2, OnlyOps DEF mark_dispatch_started, outside
<1>5. CASE SpawnTmux \/ AwaitSubmitted BY <1>5, OnlyOps DEF SpawnTmux, AwaitSubmitted, OpsKept, disk, outside
<1> QED BY <1>3, <1>4, <1>5 DEF Dispatch

(* The timeout mutation.                                                    *)
LEMMA ExpiryLinks ==
    ASSUME ConstantsAssumption, RecordsAssumption, TypeOK, LinkInv, settle_expired_dispatches
    PROVE  LinkInv'
<1> DEFINE due == {o \in expired : InFlight(o) /\ fence[TargetOf[o]] = o}
           to == [o \in Op |-> TimeoutState(o)]
<1>1. daemon = "up" BY DEF settle_expired_dispatches, Serving
<1>2. to \in [Op -> DispatchState] /\ \A o \in Op : to[o] # "PromptConfirmed" BY DEF TimeoutState, DispatchState
<1>3. due \subseteq Op /\ \A o \in due : ops[o] # NoRec /\ Free(o) BY <1>1, UpFree DEF TypeOK, InFlight, State
<1>4. PICK S \in SUBSET due : ops' = Settled(S, to) /\ fence' = SettledFence(S, to)
  BY DEF settle_expired_dispatches, SettleSaved
<1>5. UNCHANGED <<runs, turns, hooks, daemon>> BY DEF settle_expired_dispatches, outside
<1> HIDE DEF due, to
<1>6. OpsKept /\ \A t \in Target : fence'[t] \in {fence[t], NoOp} BY <1>2, <1>3, <1>4, SettledOps
<1> QED BY <1>5, <1>6, OnlyOps

(* What happens outside the daemon.                                         *)
LEMMA OutsideLinks ==
    ASSUME ConstantsAssumption, RecordsAssumption, TypeOK, LinkInv,
           \/ \E o \in Op : TmuxRun(o) \/ TmuxRefuse(o)
           \/ \E t \in Target : Provider(t)
           \/ \E n \in Turn : AgentStops(n)
           \/ Crash
    PROVE  LinkInv'
<1>1. CASE \E o \in Op : TmuxRun(o) \/ TmuxRefuse(o) BY <1>1, OnlyOps DEF TmuxRun, TmuxRefuse, OpsKept, disk, memory
<1>2. CASE Crash BY <1>2, OnlyOps, ConstantsAssumption DEF Crash, CrashNow, NoFence, OpsKept, disk, outside
<1>3. ASSUME UNCHANGED <<disk, memory, daemon>>, TurnsKept,
             \A h \in hooks' : h \in hooks \/ h.kind # "UserPromptSubmit" \/ turns'[h.turn] # NoTurn
      PROVE  LinkInv'
  BY <1>3, LinksKept, FenceStays, HooksStay DEF RunsKept, OpsKept, disk, LinkInv, memory
<1>4. ASSUME NEW n \in Turn, NEW t \in Target, NEW p \in Prompt, StartTurn(n, t, p),
             UNCHANGED <<disk, memory, daemon>>
      PROVE  LinkInv'
  <2> DEFINE r == [target |-> t, sess |-> agent[t].sess, prompt |-> p]
  <2>1. turns[n] = NoTurn /\ turns' = [turns EXCEPT ![n] = r] BY <1>4 DEF StartTurn
  <2>2. r # NoTurn BY RecordsAssumption DEF TypeOK, TurnRecord
  <2>3. turns'[n] # NoTurn /\ TurnsKept BY <2>1, <2>2 DEF TurnsKept, TypeOK
  <2>4. \A h \in hooks' : h \in hooks \/ h.turn = n BY <1>4 DEF StartTurn
  <2> QED BY <1>3, <1>4, <2>3, <2>4
<1>5. ASSUME NEW t \in Target, Provider(t) PROVE LinkInv'
  BY <1>4, ConstantsAssumption, <1>3, <1>5 DEF AgentTakesInput, ConstantsAssumption, HumanPrompt, AgentRollsOver,
    TurnsKept, Provider
<1>6. ASSUME NEW n \in Turn, AgentStops(n) PROVE LinkInv' BY <1>3, <1>6 DEF AgentStops, TurnsKept
<1> QED BY <1>1, <1>2, <1>5, <1>6

(* Hooks that save no new run.  Their run, if they have one, is linked to a *)
(* confirmed operation, which a second confirmation does not change.        *)
LEMMA UpConfirmsNothing ==
    ASSUME ConstantsAssumption, LinkInv, daemon = "up", NEW n \in Turn, runs[n] # NoRun,
           runs[n].op \in Op \cup {NoOp}, NEW r, r.op = runs[n].op, confirm_linked_operation(n, r)
    PROVE  OpsKept /\ \A t \in Target : fence'[t] \in {fence[t], NoOp}
<1>1. ~Confirmable(r.op) BY DEF Confirmable, LinkInv, UpConfirmed, Linking
<1>2. ops' = ops BY <1>1 DEF confirm_linked_operation, ConfirmRecord
<1>3. \A t \in Target : fence'[t] \in {fence[t], NoOp}
  BY ConstantsAssumption DEF confirm_linked_operation, Release, ConfirmedBy, ConstantsAssumption
<1> QED BY <1>2, <1>3 DEF OpsKept

LEMMA HookLinks ==
    ASSUME ConstantsAssumption, RecordsAssumption, TypeOK, LinkInv, NEW h \in hooks, HookStep(h), ~NewRun(h)
    PROVE  LinkInv'
<1>0. \A n \in Turn : runs[n] # NoRun => runs[n].op \in Op \cup {NoOp} BY DEF TypeOK, RunRecord
<1>1. SUFFICES /\ RunsKept /\ OpsKept /\ UNCHANGED <<turns, daemon>> /\ hooks' \subseteq hooks
               /\ \A t \in Target : fence'[t] \in {fence[t], NoOp}
  BY LinksKept, FenceStays, HooksStay DEF TurnsKept, LinkInv
<1>2. CASE SameTurnPrompt(h)
  BY <1>2, <1>0, UpConfirmsNothing DEF SameTurnPrompt, Serving, TypeOK, Hook, Delivered, RunsKept
<1>3. CASE Stop(h)
  <2> DEFINE n == h.turn
             r == [runs[n] EXCEPT !.active = FALSE, !.stopped = TRUE]
  <2>1. daemon = "up" /\ n \in Turn /\ runs[n] # NoRun /\ runs[n] \in RunRecord
    BY <1>3 DEF Stop, Serving, TypeOK, Hook
  <2>2. r \in RunRecord /\ r.op = runs[n].op /\ r.target = runs[n].target
        /\ r.epoch = runs[n].epoch /\ r.sess = runs[n].sess
    BY <2>1 DEF RunRecord
  <2>3. r # NoRun BY <2>2, RecordsAssumption
  <2>4. runs' = [runs EXCEPT ![n] = r] /\ confirm_linked_operation(n, r) BY <1>3 DEF Stop
  <2>5. UNCHANGED <<turns, daemon>> /\ hooks' \subseteq hooks BY <1>3 DEF Stop, Delivered
  <2> HIDE DEF n, r
  <2>6. OpsKept /\ \A t \in Target : fence'[t] \in {fence[t], NoOp} BY <1>0, <2>1, <2>2, <2>4, UpConfirmsNothing
  <2>7. RunsKept BY <2>1, <2>2, <2>3, <2>4 DEF RunsKept, TypeOK
  <2> QED BY <2>5, <2>6, <2>7
<1>4. CASE UnattributedStop(h)
  <2>1. \A m \in Turn : runs[m] # NoRun =>
           /\ [runs[m] EXCEPT !.active = FALSE] # NoRun
           /\ [runs[m] EXCEPT !.active = FALSE].op = runs[m].op
           /\ [runs[m] EXCEPT !.active = FALSE].target = runs[m].target
           /\ [runs[m] EXCEPT !.active = FALSE].epoch = runs[m].epoch
           /\ [runs[m] EXCEPT !.active = FALSE].sess = runs[m].sess
    BY EndedType, RecordsAssumption DEF TypeOK, RunRecord
  <2>2. \A m \in Turn : \/ runs'[m] = runs[m]
                        \/ runs[m] # NoRun /\ runs'[m] = [runs[m] EXCEPT !.active = FALSE]
    BY <1>4 DEF UnattributedStop
  <2>3. RunsKept
    <3>1. ASSUME NEW m \in Turn, runs[m] # NoRun, runs'[m] = [runs[m] EXCEPT !.active = FALSE]
          PROVE  /\ runs'[m] # NoRun /\ runs'[m].op = runs[m].op
                 /\ runs'[m].target = runs[m].target
                 /\ runs'[m].epoch = runs[m].epoch /\ runs'[m].sess = runs[m].sess
      BY <2>1, <3>1, Zenon
    <3> QED BY <2>2, <3>1 DEF RunsKept
  <2> QED BY <1>4, <2>3 DEF UnattributedStop, OpsKept, memory
<1>5. CASE SessionStart(h) BY <1>5 DEF SessionStart, RunsKept, OpsKept, memory
<1>6. CASE HookLost(h) BY <1>6 DEF HookLost, RunsKept, OpsKept, disk, memory
<1> QED BY <1>2, <1>3, <1>4, <1>5, <1>6 DEF HookStep

-----------------------------------------------------------------------------
(* The steps that make a link or confirm one.                               *)

(* The operation a new run is linked to is free, and of its target.         *)
LEMMA Matched ==
    ASSUME ConstantsAssumption, TypeOK, LinkInv, daemon = "up",
           NEW t \in Target, NEW epoch, NEW sess, NEW seq, NEW p,
           NEW o \in Op, o = matching_operation(t, epoch, sess, seq, p)
    PROVE  /\ State(o) \in {"DispatchStarted", "DeliveryUnknown"} /\ Free(o)
           /\ TargetOf[o] = t /\ PromptOf[o] = p
  BY ConstantsAssumption, UpFree DEF ConstantsAssumption, matching_operation, LinkInv, FenceOwn

(* Confirming operation o for run n: its record, and no other.              *)
LEMMA Confirmed ==
    ASSUME RecordsAssumption, TypeOK, NEW n \in Turn, NEW r \in RunRecord, ConfirmRecord(n, r),
           r.op \in Op, State(r.op) \in {"DispatchStarted", "DeliveryUnknown"}, r.op # NoOp
    PROVE  /\ State(r.op)' = "PromptConfirmed"
           /\ ops'[r.op].run = n /\ ops'[r.op].epoch = r.epoch /\ ops'[r.op].sess = r.sess
           /\ \A x \in Op \ {r.op} : ops'[x] = ops[x]
<1>1. ops[r.op] \in OperationRecord BY DEF State, TypeOK
<1> DEFINE o == r.op
           v == ops[o]
           e == r.epoch
           s == r.sess
           c == [v EXCEPT !.st = "PromptConfirmed", !.run = n, !.epoch = e, !.sess = s]
<1>2. ops' = [ops EXCEPT ![o] = c] BY DEF ConfirmRecord, Confirmable
<1>3. v \in OperationRecord /\ e \in Nat /\ s \in Nat /\ "PromptConfirmed" \in DispatchState
  BY <1>1 DEF RunRecord, DispatchState
<1> HIDE DEF v, e, s
<1>4. c \in OperationRecord /\ c.st = "PromptConfirmed" /\ c.run = n /\ c.epoch = e /\ c.sess = s
  BY <1>3 DEF OperationRecord
<1> HIDE DEF c
<1>5. ops'[o] = c /\ c # NoRec BY <1>2, <1>4, RecordsAssumption DEF TypeOK
<1> QED BY <1>2, <1>4, <1>5 DEF State, e, s

(* A new run r of turn n.                                                   *)
LEMMA SavedLinks ==
    ASSUME ConstantsAssumption, RecordsAssumption, ConfirmsAtOnce, TypeOK, TypeOK', LinkInv, daemon = "up",
           NEW n \in Turn, NEW r \in RunRecord, runs[n] = NoRun, turns[n] # NoTurn,
           r.op = NoOp \/ /\ r.op \in Op /\ Free(r.op) /\ r.target = TargetOf[r.op]
                          /\ State(r.op) \in {"DispatchStarted", "DeliveryUnknown"}
                          /\ turns[n].prompt = PromptOf[r.op],
           SaveRun(n, r), UNCHANGED turns, hooks' \subseteq hooks
    PROVE  LinkInv'
<1>1. NoOp \notin Op /\ r # NoRun BY ConstantsAssumption, RecordsAssumption DEF ConstantsAssumption
<1>2. runs'[n] = r /\ \A m \in Turn \ {n} :
         runs'[m] = IF runs[m] # NoRun /\ runs[m].target = r.target
                    THEN [runs[m] EXCEPT !.active = FALSE] ELSE runs[m]
  BY DEF SaveRun, EndOthers
<1>3. \A m \in Turn \ {n} :
         /\ runs[m] = NoRun => runs'[m] = NoRun
         /\ runs[m] # NoRun =>
               /\ runs'[m] # NoRun /\ runs'[m].op = runs[m].op /\ runs'[m].target = runs[m].target
               /\ runs'[m].epoch = runs[m].epoch /\ runs'[m].sess = runs[m].sess
  <2> DEFINE e(m) == [runs[m] EXCEPT !.active = FALSE]
  <2>1. \A m \in Turn : runs[m] # NoRun =>
           /\ e(m) # NoRun /\ e(m).op = runs[m].op /\ e(m).target = runs[m].target
           /\ e(m).epoch = runs[m].epoch /\ e(m).sess = runs[m].sess
    BY EndedType, RecordsAssumption DEF TypeOK, RunRecord
  <2>2. \A m \in Turn \ {n} : runs'[m] = runs[m] \/ (runs[m] # NoRun /\ runs'[m] = e(m)) BY <1>2
  <2> HIDE DEF e
  <2>3. ASSUME NEW m \in Turn \ {n}, runs[m] # NoRun
        PROVE  /\ runs'[m] # NoRun /\ runs'[m].op = runs[m].op /\ runs'[m].target = runs[m].target
               /\ runs'[m].epoch = runs[m].epoch /\ runs'[m].sess = runs[m].sess
    BY <2>1, <2>2, <2>3
  <2>4. ASSUME NEW m \in Turn \ {n}, runs[m] = NoRun PROVE runs'[m] = NoRun BY <2>2, <2>4
  <2> QED BY <2>3, <2>4
<1>4. \A o \in Op, m \in Turn : Linking(m, o)' <=> Linking(m, o) \/ (m = n /\ o = r.op)
  BY <1>1, <1>2, <1>3 DEF Linking
<1>5. \A o \in Op \ {r.op} : ops'[o] = ops[o] /\ State(o)' = State(o)
  BY DEF SaveRun, confirm_linked_operation, ConfirmRecord, Confirmable, State, TypeOK
<1>6. \/ daemon' = "up" /\ ConfirmRecord(n, r)
      \/ daemon' = "down" /\ (ConfirmRecord(n, r) \/ ops' = ops)
  BY DEF SaveRun, confirm_linked_operation, CrashNow, ConfirmsAtOnce
<1>7. FenceOwn' BY FenceStays DEF SaveRun, confirm_linked_operation, CrashNow, NoFence, Release, TypeOK
<1>8. HooksTold' BY HooksStay DEF TurnsKept
<1>9. CASE r.op = NoOp
  <2>1. ops' = ops BY <1>9 DEF SaveRun, confirm_linked_operation, ConfirmRecord, Confirmable
  <2>2. \A o \in Op, m \in Turn : Linking(m, o)' <=> Linking(m, o) BY <1>1, <1>4, <1>9
  <2>3. \A o \in Op, m \in Turn : LinkGood(m, o) /\ Linking(m, o) => LinkGood(m, o)'
    BY <1>3, <2>1, <1>1, <1>9 DEF LinkGood, Linking, State
  <2>4. \A o \in Op : State(o)' = State(o) BY <2>1 DEF State
  <2>5. LinksGood' /\ OneLink' /\ UpConfirmed' BY <2>2, <2>3, <2>4 DEF LinkInv, LinksGood, OneLink, UpConfirmed
  <2>6. ConfirmedLinked' BY <2>1, <2>2, <2>4 DEF LinkInv, ConfirmedLinked
  <2> QED BY <1>7, <1>8, <2>5, <2>6 DEF LinkInv
<1>10. CASE r.op \in Op
  <2> DEFINE o == r.op
  <2>0. Free(o) /\ o # NoOp /\ State(o) \in {"DispatchStarted", "DeliveryUnknown"}
        /\ r.target = TargetOf[o] /\ turns[n].prompt = PromptOf[o]
    BY <1>1, <1>10
  <2>1. \/ /\ State(o)' = "PromptConfirmed"
           /\ ops'[o].run = n /\ ops'[o].epoch = r.epoch /\ ops'[o].sess = r.sess
        \/ State(o)' = State(o) /\ daemon' = "down"
    BY <1>10, <2>0, Confirmed, <1>6 DEF State
  <2>2. LinkGood(n, o)' BY <1>2, <2>0, <2>1 DEF LinkGood
  <2>3. \A m \in Turn : Linking(m, o)' <=> m = n BY <1>4, <1>10, <2>0 DEF Free
  <2>4. \A x \in Op \ {o}, m \in Turn : Linking(m, x)' <=> Linking(m, x) BY <1>4
  <2>5. \A x \in Op \ {o}, m \in Turn : LinkGood(m, x) /\ Linking(m, x) => LinkGood(m, x)'
    BY <1>1, <1>3, <1>5 DEF LinkGood, Linking
  <2>6. LinksGood' /\ OneLink' BY <2>2, <2>3, <2>4, <2>5 DEF LinkInv, LinksGood, OneLink
  <2>7. UpConfirmed' BY <1>5, <2>1, <2>4 DEF LinkInv, UpConfirmed
  <2>8. ASSUME NEW x \in Op, State(x)' = "PromptConfirmed"
        PROVE  (ops[x].run \in Turn /\ Linking(ops[x].run, x))'
    BY <2>0, <2>1, <2>3, <2>8, <1>5, <2>4 DEF LinkInv, ConfirmedLinked
  <2>9. ConfirmedLinked' BY <2>8 DEF ConfirmedLinked
  <2> QED BY <1>7, <1>8, <2>6, <2>7, <2>9 DEF LinkInv
<1> QED BY <1>9, <1>10

(* The first prompt hook of a turn.                                         *)
LEMMA NewRunLinks ==
    ASSUME ConstantsAssumption, RecordsAssumption, ConfirmsAtOnce, TypeOK, TypeOK', LinkInv,
           NEW h \in hooks, NewRun(h)
    PROVE  LinkInv'
<1> DEFINE n == h.turn
           p == pane[h.target]
<1>1. daemon = "up" /\ h.kind = "UserPromptSubmit" /\ runs[n] = NoRun /\ n \in Turn
      /\ h.target \in Target /\ hooks' \subseteq hooks /\ turns' = turns
  BY DEF NewRun, Serving, TypeOK, Hook, Delivered
<1>2. turns[n] # NoTurn BY <1>1 DEF LinkInv, HooksTold
<1>3. p \in PaneRecord BY <1>1 DEF TypeOK
<1>4. PICK o \in {matching_operation(h.target, p.epoch, p.sess, p.seq + 1, turns[n].prompt), NoOp} :
         SaveRun(n, [target |-> h.target, op |-> o, epoch |-> p.epoch, sess |-> p.sess,
                     seq |-> p.seq + 1, active |-> TRUE, stopped |-> FALSE])
  BY DEF NewRun
<1>5. o \in Op \cup {NoOp} BY <1>1, <1>4 DEF matching_operation, TypeOK
<1> DEFINE r == [target |-> h.target, op |-> o, epoch |-> p.epoch, sess |-> p.sess,
                 seq |-> p.seq + 1, active |-> TRUE, stopped |-> FALSE]
<1>6. r \in RunRecord /\ r.op = o /\ r.target = h.target BY <1>1, <1>3, <1>5 DEF RunRecord, PaneRecord
<1>7. o \in Op => /\ State(o) \in {"DispatchStarted", "DeliveryUnknown"} /\ Free(o)
                  /\ TargetOf[o] = h.target /\ PromptOf[o] = turns[n].prompt
  BY <1>1, <1>4, Matched, ConstantsAssumption DEF ConstantsAssumption
<1>8. SaveRun(n, r) BY <1>4
<1> HIDE DEF r, p, n
<1> QED BY <1>1, <1>2, <1>5, <1>6, <1>7, <1>8, SavedLinks

-----------------------------------------------------------------------------
(* Restart.                                                                 *)

(* A link that a crash left unconfirmed is confirmed by the next daemon.    *)
LEMMA BootConfirmLinks ==
    ASSUME ConstantsAssumption, RecordsAssumption, TypeOK, LinkInv, NEW n \in Turn, BootConfirm(n)
    PROVE  LinkInv'
<1>1. daemon = "booting" /\ UNCHANGED <<runs, turns, hooks, daemon>> /\ NoOp \notin Op
  BY ConstantsAssumption DEF BootConfirm, outside, ConstantsAssumption
<1>2. PICK r \in RunRecord, o \in Op :
         r = runs[n] /\ o = r.op /\ Linking(n, o) /\ State(o) # "PromptConfirmed"
  BY DEF BootConfirm, Unconfirmed, TypeOK, RunRecord, Linking
<1>3. LinkGood(n, o) /\ State(o) \in {"DispatchStarted", "DeliveryUnknown"} BY <1>2 DEF LinkInv, LinksGood, LinkGood
<1>4. confirm_linked_operation(n, r) /\ ConfirmRecord(n, r) BY <1>2 DEF BootConfirm, confirm_linked_operation
<1>5. /\ State(o)' = "PromptConfirmed"
      /\ ops'[o].run = n /\ ops'[o].epoch = r.epoch /\ ops'[o].sess = r.sess
      /\ \A x \in Op \ {o} : ops'[x] = ops[x]
  BY <1>1, <1>2, <1>3, <1>4, Confirmed
<1>6. \A x \in Op, m \in Turn : Linking(m, x)' <=> Linking(m, x) BY <1>1 DEF Linking
<1>7. LinkGood(n, o)' BY <1>1, <1>2, <1>3, <1>5 DEF LinkGood
<1>8. \A x \in Op \ {o} : State(x)' = State(x) BY <1>5 DEF State
<1>9. \A x \in Op \ {o}, m \in Turn : LinkGood(m, x) => LinkGood(m, x)' BY <1>1, <1>5, <1>8 DEF LinkGood
<1>10. \A m \in Turn : Linking(m, o) => m = n BY <1>2 DEF LinkInv, OneLink
<1>11. LinksGood' /\ OneLink' /\ UpConfirmed'
  BY <1>1, <1>6, <1>7, <1>9, <1>10 DEF LinkInv, LinksGood, OneLink, UpConfirmed
<1>12. ASSUME NEW x \in Op, State(x)' = "PromptConfirmed"
       PROVE  (ops[x].run \in Turn /\ Linking(ops[x].run, x))'
  BY <1>2, <1>5, <1>6, <1>8, <1>12 DEF LinkInv, ConfirmedLinked
<1>13. FenceOwn' BY <1>4, FenceStays DEF confirm_linked_operation, Release, TypeOK
<1>14. HooksTold' BY <1>1, HooksStay DEF TurnsKept
<1> QED BY <1>11, <1>12, <1>13, <1>14 DEF LinkInv, ConfirmedLinked

(* The other steps of a restart.                                            *)
LEMMA RestartLinks ==
    ASSUME ConstantsAssumption, RecordsAssumption, TypeOK, LinkInv, Restart
    PROVE  LinkInv'
<1>1. CASE Boot BY <1>1, OnlyOps DEF Boot, Reindexed, OpsKept, outside
<1>2. CASE BootDone
  <2>1. \A n \in Turn : \/ runs'[n] = runs[n]
                        \/ runs[n] # NoRun /\ runs'[n] = [runs[n] EXCEPT !.active = FALSE]
    BY <1>2 DEF BootDone
  <2>2. \A m \in Turn : runs[m] # NoRun =>
           /\ [runs[m] EXCEPT !.active = FALSE] # NoRun
           /\ [runs[m] EXCEPT !.active = FALSE].op = runs[m].op
           /\ [runs[m] EXCEPT !.active = FALSE].target = runs[m].target
           /\ [runs[m] EXCEPT !.active = FALSE].epoch = runs[m].epoch
           /\ [runs[m] EXCEPT !.active = FALSE].sess = runs[m].sess
    BY EndedType, RecordsAssumption DEF TypeOK, RunRecord
  <2>3. RunsKept /\ TurnsKept /\ OpsKept /\ UNCHANGED <<fence, hooks, turns>> /\ Unconfirmed = {}
    BY <1>2, <2>1, <2>2 DEF BootDone, RunsKept, TurnsKept, OpsKept, memory, outside
  <2> QED BY <2>3, LinksKept, FenceStays, HooksStay DEF LinkInv
<1>3. ASSUME NEW o \in Op, BootSettle(o) PROVE LinkInv'
  <2> DEFINE to == [x \in Op |-> TimeoutState(x)]
             S == {o}
  <2>1. to \in [Op -> DispatchState] /\ \A x \in Op : to[x] # "PromptConfirmed" BY DEF TimeoutState, DispatchState
  <2>2. Unconfirmed = {} /\ State(o) \in {"Prepared", "DispatchStarted"} /\ ops[o] # NoRec
    BY <1>3 DEF BootSettle, Interrupted, State
  <2>3. Free(o) BY <2>2, ConstantsAssumption DEF Free, Linking, Unconfirmed, ConstantsAssumption
  <2>4. ops' = Settled(S, to) /\ fence' = SettledFence(S, to) BY <1>3 DEF BootSettle, SettleSaved
  <2>5. UNCHANGED <<runs, turns, hooks, daemon>> BY <1>3 DEF BootSettle, outside
  <2>6. S \in SUBSET Op /\ \A x \in S : x = o OBVIOUS
  <2> HIDE DEF to, S
  <2>7. OpsKept /\ \A t \in Target : fence'[t] \in {fence[t], NoOp} BY <2>1, <2>2, <2>3, <2>4, <2>6, SettledOps
  <2> QED BY <2>5, <2>7, OnlyOps
<1> QED BY <1>1, <1>2, <1>3, BootConfirmLinks DEF Restart

-----------------------------------------------------------------------------
(* The initial state and every step.                                        *)

LEMMA InitLinks == ASSUME ConstantsAssumption, Init PROVE LinkInv
  BY ConstantsAssumption DEF Init, LinkInv, LinksGood, OneLink, ConfirmedLinked, UpConfirmed, FenceOwn, HooksTold,
    Linking, State, NoFence, ConstantsAssumption

LEMMA NextLinks ==
    ASSUME ConstantsAssumption, RecordsAssumption, ConfirmsAtOnce, TypeOK, DispatchInv, LinkInv,
           [Next]_vars
    PROVE  LinkInv'
<1>1. TypeOK' BY NextTyped
<1>2. CASE UNCHANGED vars BY <1>2, OnlyOps DEF vars, disk, memory, outside, OpsKept
<1>3. ASSUME NEW h \in hooks, HookStep(h) PROVE LinkInv' BY <1>1, <1>3, HookLinks, NewRunLinks
<1> QED BY <1>2, <1>3, HandlerLinks, DispatchLinks, ExpiryLinks, OutsideLinks, RestartLinks DEF Next

(* Links between runs and operations are sound in every state: at most one  *)
(* run per operation, of its target and prompt, and confirmed before the    *)
(* daemon serves again (apply_provider_observation,                         *)
(* confirm_linked_operation, reconcile_in_flight_after_restart).            *)
THEOREM LinkInvariant == ASSUME ConfirmsAtOnce PROVE Spec => []LinkInv
<1>1. Init => LinkInv BY InitLinks, ConstantsAssumption
<1>2. TypeOK /\ DispatchInv /\ LinkInv /\ [Next]_vars => LinkInv'
  BY NextLinks, ConstantsAssumption, RecordsAssumption
<1> QED BY <1>1, <1>2, DispatchInvariant, PTL DEF Spec

(* A confirmed operation has its run, of its own target and prompt, and     *)
(* carries the binding of that run (confirm_linked_operation).              *)
THEOREM ConfirmedHasItsRun == ASSUME ConfirmsAtOnce PROVE Spec => []ConfirmedByRun
<1>1. LinkInv => ConfirmedByRun
  BY DEF ConfirmedByRun, LinkInv, ConfirmedLinked, LinksGood, LinkGood, Linked, Linking
<1> QED BY <1>1, LinkInvariant, PTL

(* Whatever a crash leaves behind, AgentRuntime::open accepts it: bodies    *)
(* are there, and every link can be confirmed, one run per operation.       *)
THEOREM StoreAlwaysReopens == ASSUME ConfirmsAtOnce PROVE Spec => []StoreReopens
<1>1. TypeOK /\ LinkInv => LinksAuthoritative
  BY ConstantsAssumption DEF LinksAuthoritative, TypeOK, RunRecord, LinkInv, LinksGood, Linking, LinkGood,
    ConfirmOk, Confirmable, ConfirmedBy, ConstantsAssumption
<1>2. LinkInv => \A o \in Op : Cardinality(Linked(o)) <= 1
  <2> SUFFICES ASSUME LinkInv, NEW o \in Op PROVE Cardinality(Linked(o)) <= 1 OBVIOUS
  <2>1. CASE Linked(o) = {} BY <2>1, FS_EmptySet
  <2>2. CASE Linked(o) # {}
    <3>1. PICK n \in Turn : n \in Linked(o) BY <2>2 DEF Linked
    <3>2. Linked(o) = {n} BY <3>1 DEF LinkInv, OneLink, Linked, Linking
    <3> QED BY <3>2, FS_Singleton
  <2> QED BY <2>1, <2>2
<1>3. TypeOK /\ DispatchInv /\ LinkInv => StoreReopens BY <1>1, <1>2 DEF StoreReopens, DispatchInv
<1> QED BY <1>3, DispatchInvariant, LinkInvariant, PTL
=============================================================================
