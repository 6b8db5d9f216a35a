-------------------------- MODULE DispatchContract --------------------------
(***************************************************************************)
(* What durable prompt dispatch promises to a caller, without processes,   *)
(* files, hooks or crashes: the dispatch state a caller can read of each   *)
(* operation, and how often its prompt has reached the pane.               *)
(*                                                                         *)
(* A prompt is delivered at most once, and only after dispatch_started is  *)
(* durable; an operation that was rejected was not and will never be       *)
(* delivered; a target has at most one operation outstanding; and          *)
(* prompt_confirmed, rejected and abandoned are final.                     *)
(***************************************************************************)
EXTENDS Naturals

CONSTANTS Op, TargetOf

VARIABLES status, sent

contractVars == <<status, sent>>

Status == {"None", "Prepared", "DispatchStarted", "PromptConfirmed",
           "DeliveryUnknown", "Rejected", "Abandoned"}

(* OperationRecord::dispatch_fenced *)
Outstanding == {"Prepared", "DispatchStarted", "DeliveryUnknown"}

ContractInit ==
    /\ status = [o \in Op |-> "None"]
    /\ sent = [o \in Op |-> 0]

Move(o, from, to) ==
    /\ status[o] \in from
    /\ status' = [status EXCEPT ![o] = to]
    /\ UNCHANGED sent

Prepare(o) ==
    /\ \A x \in Op : TargetOf[x] = TargetOf[o] => status[x] \notin Outstanding
    /\ Move(o, {"None"}, "Prepared")

Start(o) == Move(o, {"Prepared"}, "DispatchStarted")

(* The body reaches the pane: at once, or late, after the daemon gave up.  *)
Deliver(o) ==
    /\ status[o] \in {"DispatchStarted", "DeliveryUnknown", "Abandoned", "PromptConfirmed"}
    /\ sent[o] = 0
    /\ sent' = [sent EXCEPT ![o] = 1]
    /\ UNCHANGED status

(* One or several operations settle: rejected only if nothing was sent,    *)
(* and uncertain only once the dispatch had started.                       *)
MaySettle(o, to) ==
    \/ to = "Rejected" /\ status[o] \in {"Prepared", "DispatchStarted"} /\ sent[o] = 0
    \/ to = "DeliveryUnknown" /\ status[o] = "DispatchStarted"

Settle ==
    /\ status' \in [Op -> Status]
    /\ \A o \in Op : status'[o] # status[o] => MaySettle(o, status'[o])
    /\ UNCHANGED sent

Confirm(o) == Move(o, {"DispatchStarted", "DeliveryUnknown"}, "PromptConfirmed")

Abandon(o) == Move(o, {"DeliveryUnknown"}, "Abandoned")

ContractNext ==
    \/ \E o \in Op : Prepare(o) \/ Start(o) \/ Deliver(o) \/ Confirm(o) \/ Abandon(o)
    \/ Settle

ContractSpec == ContractInit /\ [][ContractNext]_contractVars
=============================================================================
