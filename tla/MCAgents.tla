------------------------------ MODULE MCAgents ------------------------------
(* What the daemon makes of its agents, on small instances: one run takes   *)
(* the steps of one part, chosen in the initial state; the others keep      *)
(* their state.                                                             *)
EXTENDS PaneReducer, PaneSignals, QuestionNotices, QuestionResolver, CapacityRetry,
        HookDelivery, TLC

CONSTANTS c1, c2

VARIABLE part

agentsVars == <<part, reducerVars, signalVars, noticeVars, resolverVars, capVars, hookVars>>

Parts == {"reducer", "notify", "wait", "notices", "asking", "faults", "capacity",
          "hooks"}

(* c1 holds one question, c2 two.                                           *)
MCItems == (c1 :> 1) @@ (c2 :> 2)

(* A part that takes no step starts in one state.                           *)
AgentsInit ==
    /\ part \in Parts
    /\ ReducerInit /\ SignalsInit /\ NoticesInit /\ ResolverInit /\ CapInit /\ HookInit
    /\ part \in {"notify", "wait"} \/ rec.life = "idle"
    /\ part = "capacity" \/ enabledBy

(* Two questions and no fault, or one question and a fault.                 *)
AskingStep == ResolverNext /\ faults' = 0
FaultStep == ResolverNext /\ hook'[2].at = "idle"

AgentsNext ==
    /\ UNCHANGED part
    /\ IF part = "reducer" THEN ReducerNext ELSE UNCHANGED reducerVars
    /\ CASE part = "notify" -> RecordSteps \/ NotifySteps
         [] part = "wait" -> RecordSteps \/ WaitSteps
         [] OTHER -> UNCHANGED signalVars
    /\ IF part = "notices" THEN NoticesNext ELSE UNCHANGED noticeVars
    /\ CASE part = "asking" -> AskingStep
         [] part = "faults" -> FaultStep
         [] OTHER -> UNCHANGED resolverVars
    /\ IF part = "capacity" THEN CapNext ELSE UNCHANGED capVars
    /\ IF part = "hooks" THEN HookNext ELSE UNCHANGED hookVars

AgentsSpec == AgentsInit /\ [][AgentsNext]_agentsVars

(* The poller and the events of one pane alone.                             *)
NotifySpec == AgentsInit /\ part = "notify" /\ [][AgentsNext]_agentsVars

-----------------------------------------------------------------------------
(* Properties: each module's own, of the part that runs.                    *)

(* The pane's record is one that the reducer accepts, no hook event of any  *)
(* order is refused, and what is derived from the record (the attention     *)
(* list, a notification, an answer to agent wait) was so in a version of it.*)
PanesSound ==
    /\ part = "reducer" => ReducerSound
    /\ part \in {"notify", "wait"} => SignalsSound

(* A question leaves the list only for a reason, and promises about it      *)
(* survive restarts; resumes after a capacity failure are bounded; a hook   *)
(* event is applied once, to the pane its agent lives in.                   *)
ReportsSound ==
    /\ part = "notices" => NoticesSound
    /\ part = "capacity" => ResumesBounded
    /\ part = "hooks" => AgentHooksSound

(* What no step does: close a run over an awaited result, acknowledge a     *)
(* question that was not answered, resume another turn than the failed one. *)
AgentSteps == AwaitedHoldsRun /\ OnlyAnsweredAcked /\ ResumesOnlyTheFailedTurn

(* What must happen, under the fairness each module states for its threads  *)
(* (guarded by the part, which is the same there and cheaper to check).     *)
AgentsSettle ==
    /\ part = "notify" /\ WF_signalVars(part = "notify" /\ advance_poll_projection)
          => AttentionEnds
    /\ part = "notices" /\ WF_noticeVars(part = "notices" /\ NoticesProgress) => BacklogWritten
    /\ part = "faults" /\ WF_resolverVars(part = "faults" /\ ResolverProgress) => CandidatesEnd
=============================================================================
