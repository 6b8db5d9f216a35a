----------------------------- MODULE ViewHooks -----------------------------
(* View hooks: tmux runs a hook command for every change of focus; the      *)
(* command delivers one event with at most three attempts; the daemon       *)
(* answers each event by scheduling a refresh of its views, debounced by a  *)
(* generation counter and a running flag that several threads race on.      *)
(* Hook slots themselves are installed, monitored and removed by commands   *)
(* that look before they write.                                             *)
EXTENDS Naturals, FiniteSets

CONSTANTS
    HookEvent,     \* hook commands, one per change of focus
    HookSlot,      \* indexed hooks of the tmux server
    MaxAttempts,   \* VIEW_HOOK_MAX_ATTEMPTS
    MaxFailures,   \* bound: failed connections, lost answers and failed queries
    MaxEdits       \* bound: hooks set by the user, installs and removals

ASSUME HooksAssumption ==
    /\ MaxAttempts \in Nat \ {0} /\ MaxFailures \in Nat /\ MaxEdits \in Nat

VARIABLES
    world,      \* external: how often focus has changed
    hook,       \* hook command per event: step, attempts, what it saw
    accepted,   \* history: deliveries the daemon accepted, per event
    heard,      \* history: newest change an accepted event stands for
    refreshGeneration, running, thread,   \* schedule_current_view_refresh
    shown,      \* newest change the views reflect
    spoiled,    \* history: the last refresh query failed
    slot,       \* external: missing, owned or foreign
    editor,     \* the command that edits hooks: its step and inspection
    taken,      \* history: foreign hooks the current command overwrote
    reported,   \* hook health of the last monitor
    edits, failures  \* bounds

vhVars == <<world, hook, accepted, heard, refreshGeneration, running, thread, shown, spoiled, slot,
            editor, taken, reported, edits, failures>>
refreshVars == <<refreshGeneration, running, thread, shown, spoiled>>
slotVars == <<slot, editor, taken, reported, edits>>

DeadThread == [pc |-> "dead", gen |-> 0]

-----------------------------------------------------------------------------
(* run_view_hook_command and deliver_view_event_with_contract.              *)

FocusChanges(e) ==
    /\ hook[e].step = "none"
    /\ world' = world + 1
    /\ hook' = [hook EXCEPT ![e] = [step |-> "parse", attempts |-> 0, saw |-> world + 1]]
    /\ UNCHANGED <<accepted, heard, failures>> /\ UNCHANGED <<refreshVars, slotVars>>

(* The frame tmux expanded into the command's arguments may be malformed or *)
(* contradict itself (window, session and panes are expanded one by one).   *)
parse_hook_view_snapshot(e) ==
    /\ hook[e].step = "parse"
    /\ \/ hook' = [hook EXCEPT ![e].step = "try"] /\ UNCHANGED failures
       \/ /\ failures < MaxFailures /\ failures' = failures + 1
          /\ hook' = [hook EXCEPT ![e].step = "lost"]
    /\ UNCHANGED <<world, accepted, heard>> /\ UNCHANGED <<refreshVars, slotVars>>

(* The 500 ms deadline is checked before every stage and every attempt.     *)
ensure_view_hook_deadline(e) ==
    /\ hook[e].step \in {"parse", "try"} /\ failures < MaxFailures
    /\ failures' = failures + 1
    /\ hook' = [hook EXCEPT ![e].step = "lost"]
    /\ UNCHANGED <<world, accepted, heard>> /\ UNCHANGED <<refreshVars, slotVars>>

may_retry(h, stage) == stage = "before" /\ h.attempts < MaxAttempts

(* An attempt fails before the whole frame was written, or after it; an     *)
(* ambiguous delivery is never repeated.                                    *)
Attempt(e) ==
    /\ hook[e].step = "try" /\ hook[e].attempts < MaxAttempts
    /\ LET h == [hook[e] EXCEPT !.attempts = @ + 1]
       IN \/ /\ accepted' = [accepted EXCEPT ![e] = @ + 1]
             /\ hook' = [hook EXCEPT ![e] = [h EXCEPT !.step = "bump"]]
             /\ UNCHANGED failures
          \/ /\ failures < MaxFailures /\ failures' = failures + 1
             /\ hook' = [hook EXCEPT ![e] =
                            IF may_retry(h, "before") THEN h ELSE [h EXCEPT !.step = "lost"]]
             /\ UNCHANGED accepted
          \/ /\ failures < MaxFailures /\ failures' = failures + 1
             /\ accepted' = [accepted EXCEPT ![e] = @ + 1]
             /\ hook' = [hook EXCEPT ![e] =
                            [h EXCEPT !.step = IF may_retry(h, "after") THEN "try" ELSE "bump"]]
    /\ heard' = IF accepted' # accepted /\ hook[e].saw > heard THEN hook[e].saw ELSE heard
    /\ UNCHANGED world /\ UNCHANGED <<refreshVars, slotVars>>

(* schedule_current_view_refresh in the connection handler: count, then try *)
(* to become the refresher.                                                 *)
Bump(e) ==
    /\ hook[e].step = "bump"
    /\ refreshGeneration' = refreshGeneration + 1
    /\ hook' = [hook EXCEPT ![e].step = "claim"]
    /\ UNCHANGED <<world, accepted, heard, running, thread, shown, spoiled, failures>>
    /\ UNCHANGED slotVars

Claim(e) ==
    /\ hook[e].step = "claim"
    /\ hook' = [hook EXCEPT ![e].step = "done"]
    /\ running' = TRUE
    /\ thread' = IF running THEN thread ELSE [thread EXCEPT ![e] = [pc |-> "load", gen |-> 0]]
    /\ UNCHANGED <<world, accepted, heard, refreshGeneration, shown, spoiled, failures>>
    /\ UNCHANGED slotVars

-----------------------------------------------------------------------------
(* The refresh thread; a thread is named after the event that spawned it.   *)

Goes(t, from, to) ==
    /\ thread[t].pc = from
    /\ thread' = [thread EXCEPT ![t].pc = to]

Load(t) ==
    /\ thread[t].pc = "load"
    /\ thread' = [thread EXCEPT ![t] = [pc |-> "sleep", gen |-> refreshGeneration]]
    /\ UNCHANGED <<running, shown, spoiled, failures>>

Debounced(t) ==
    /\ Goes(t, "sleep", IF refreshGeneration = thread[t].gen THEN "query" ELSE "load")
    /\ UNCHANGED <<running, shown, spoiled, failures>>

Query(t) ==
    /\ Goes(t, "query", "check")
    /\ \/ shown' = world /\ spoiled' = FALSE /\ UNCHANGED failures
       \/ /\ failures < MaxFailures /\ failures' = failures + 1
          /\ spoiled' = TRUE /\ UNCHANGED shown
    /\ UNCHANGED running

Check(t) ==
    /\ Goes(t, "check", IF refreshGeneration = thread[t].gen THEN "release" ELSE "load")
    /\ UNCHANGED <<running, shown, spoiled, failures>>

ReleaseRefresh(t) ==
    /\ Goes(t, "release", "recheck")
    /\ running' = FALSE
    /\ UNCHANGED <<shown, spoiled, failures>>

Recheck(t) ==
    /\ Goes(t, "recheck", IF refreshGeneration = thread[t].gen THEN "dead" ELSE "reclaim")
    /\ UNCHANGED <<running, shown, spoiled, failures>>

Reclaim(t) ==
    /\ Goes(t, "reclaim", IF running THEN "dead" ELSE "load")
    /\ running' = TRUE
    /\ UNCHANGED <<shown, spoiled, failures>>

ThreadStep(t) ==
    /\ \/ Load(t) \/ Debounced(t) \/ Query(t) \/ Check(t)
       \/ ReleaseRefresh(t) \/ Recheck(t) \/ Reclaim(t)
    /\ UNCHANGED <<world, hook, accepted, heard, refreshGeneration>> /\ UNCHANGED slotVars

-----------------------------------------------------------------------------
(* Hook slots.                                                              *)

Rest == UNCHANGED <<world, hook, accepted, heard, failures>> /\ UNCHANGED refreshVars

UserSets(s) ==
    /\ edits < MaxEdits
    /\ \E v \in {"missing", "foreign"} : slot' = [slot EXCEPT ![s] = v]
    /\ edits' = edits + 1 /\ UNCHANGED <<editor, taken, reported>> /\ Rest

(* preflight_hooks or the first query of uninstall_hooks; a collision ends  *)
(* an install before it writes.                                             *)
Inspect(what) ==
    /\ editor.step = "idle" /\ edits < MaxEdits
    /\ editor' = IF what = "install" /\ \E s \in HookSlot : slot[s] = "foreign"
                 THEN editor
                 ELSE [step |-> what, saw |-> slot, result |-> "none"]
    /\ edits' = edits + 1 /\ taken' = {}
    /\ UNCHANGED <<slot, reported>> /\ Rest

Taken == {s \in HookSlot : slot[s] = "foreign" /\ slot'[s] # "foreign"}

hook_install_args ==
    /\ editor.step = "install"
    /\ slot' = [s \in HookSlot |-> "owned"]
    /\ editor' = [editor EXCEPT !.step = "verify"]
    /\ taken' = Taken /\ UNCHANGED <<reported, edits>> /\ Rest

hook_uninstall_args ==
    /\ editor.step = "remove"
    /\ slot' = [s \in HookSlot |-> IF editor.saw[s] = "owned" THEN "missing" ELSE slot[s]]
    /\ editor' = [editor EXCEPT !.step = "verify_gone"]
    /\ taken' = Taken /\ UNCHANGED <<reported, edits>> /\ Rest

slotHealth == IF \A s \in HookSlot : slot[s] = "owned" THEN "healthy" ELSE "degraded"

VerifyHooks ==
    /\ \/ /\ editor.step = "verify"
          /\ editor' = [editor EXCEPT !.step = "idle", !.result =
                            IF slotHealth = "healthy" THEN "installed" ELSE "failed"]
       \/ /\ editor.step = "verify_gone"
          /\ editor' = [editor EXCEPT !.step = "idle", !.result =
                IF /\ \A s \in HookSlot : editor.saw[s] = "owned" => slot[s] = "missing"
                   /\ \A s \in HookSlot : editor.saw[s] # "foreign"
                THEN "removed" ELSE "failed"]
    /\ UNCHANGED <<slot, taken, reported, edits>> /\ Rest

monitor_hooks ==
    /\ reported # slotHealth
    /\ reported' = slotHealth
    /\ UNCHANGED <<slot, editor, taken, edits>> /\ Rest

-----------------------------------------------------------------------------
VhInit ==
    /\ world = 0
    /\ hook = [e \in HookEvent |-> [step |-> "none", attempts |-> 0, saw |-> 0]]
    /\ accepted = [e \in HookEvent |-> 0] /\ heard = 0
    /\ refreshGeneration = 0 /\ running = FALSE /\ thread = [e \in HookEvent |-> DeadThread]
    /\ shown = 0 /\ spoiled = FALSE
    /\ slot = [s \in HookSlot |-> "missing"]
    /\ editor = [step |-> "idle", saw |-> slot, result |-> "none"]
    /\ taken = {} /\ reported = "degraded"
    /\ edits = 0 /\ failures = 0

DeliveryNext ==
    \E e \in HookEvent : \/ FocusChanges(e) \/ parse_hook_view_snapshot(e)
                         \/ ensure_view_hook_deadline(e) \/ Attempt(e) \/ Bump(e)
                         \/ Claim(e) \/ ThreadStep(e)

SlotNext ==
    \/ \E s \in HookSlot : UserSets(s)
    \/ \E what \in {"install", "remove"} : Inspect(what)
    \/ hook_install_args \/ hook_uninstall_args \/ VerifyHooks \/ monitor_hooks

VhNext == DeliveryNext \/ SlotNext

VhSpec == VhInit /\ [][VhNext]_vhVars

-----------------------------------------------------------------------------
(* Properties.                                                              *)

Refreshing(t) == thread[t].pc \in {"load", "sleep", "query", "check", "release"}

(* One thread refreshes at a time, and it holds the running flag, whatever  *)
(* handlers and a thread that is just leaving race for it                   *)
(* (schedule_current_view_refresh).                                         *)
OneRefresher ==
    /\ Cardinality({t \in HookEvent : Refreshing(t)}) <= 1
    /\ (\E t \in HookEvent : Refreshing(t)) => running

(* No change of focus is forgotten: when handlers and threads have come to  *)
(* rest, the views are at least as new as every event that was accepted,    *)
(* unless the last query failed.                                            *)
NoChangeForgotten ==
    (/\ \A e \in HookEvent : hook[e].step \notin {"bump", "claim"} /\ thread[e].pc = "dead")
        => spoiled \/ shown >= heard

(* An event is accepted at most once although its sender retries            *)
(* (ViewDeliveryContract::may_retry).                                       *)
AcceptedOnce == \A e \in HookEvent : accepted[e] <= 1 /\ hook[e].attempts <= MaxAttempts

(* A command overwrites or removes no foreign hook that was there when it   *)
(* looked; one the user sets between the look and the write is lost         *)
(* (preflight_hooks, hook_uninstall_args).                                  *)
ForeignLeftAlone == \A s \in taken : editor.saw[s] # "foreign"

(* The view hook machinery as a whole.                                      *)
HooksSound == OneRefresher /\ NoChangeForgotten /\ AcceptedOnce /\ ForeignLeftAlone

(* What the scheduler owes: handlers and the refresh thread keep running.   *)
VhProgress(e) == Bump(e) \/ Claim(e) \/ ThreadStep(e)
VhFairness == \A e \in HookEvent : WF_vhVars(VhProgress(e))

(* Every accepted event is eventually shown, or the query made for it has   *)
(* failed.                                                                  *)
EventShown == \A n \in 1..Cardinality(HookEvent) : (heard >= n) ~> (shown >= n \/ spoiled)
=============================================================================
