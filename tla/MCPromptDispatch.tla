-------------------------- MODULE MCPromptDispatch --------------------------
(* PromptDispatch on two small instances, chosen in the initial state.      *)
EXTENDS PromptDispatch, TLC

CONSTANTS o1, o2, t1, t2, p1, p2, n1, n2

VARIABLE part

dispatchVars == <<part, vars>>

(* Both requests carry the prompt p1 for the same pane.                     *)
SameTarget == [o \in Op |-> t1]
SamePrompt == [o \in Op |-> p1]

(* Two requests for an agent that stays in one session and has one turn.    *)
RequestsStep ==
    /\ Next
    /\ agent'[t1].sess = agent[t1].sess
    /\ \A n \in Turn : turns'[n] # NoTurn => n = n1 /\ turns'[n].prompt = p1

(* One request, two turns and two sessions; no write fails.  The turns are  *)
(* interchangeable, so n1 is the first; only it stops, before a crash.      *)
RolloverStep ==
    /\ Next
    /\ ops'[o2] = NoRec /\ faults' = 0
    /\ turns[n1] = NoTurn => turns'[n2] = NoTurn
    /\ \A h \in hooks' : h.kind = "Stop" => h.turn = n1 /\ crashes' = 0

DispatchInit == Init /\ part \in {"requests", "rollover"}

DispatchNext ==
    /\ UNCHANGED part
    /\ IF part = "requests" THEN RequestsStep ELSE RolloverStep

(* Neither step restricts the actions that are fair.                        *)
DispatchSpec == DispatchInit /\ [][DispatchNext]_dispatchVars /\ Fairness

(* Every behaviour of the instance of the .cfg.                             *)
AnySpec == DispatchInit /\ part = "rollover" /\ [][Next /\ UNCHANGED part]_dispatchVars
=============================================================================
