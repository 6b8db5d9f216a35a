---------------------------- MODULE HookDelivery ----------------------------
(***************************************************************************)
(* `vt hook` (cli/hook.rs): a process an agent starts for each of its hook *)
(* events. It proves which pane the agent lives in (hook/ownership.rs),    *)
(* turns the payload into one pane event and one provider observation      *)
(* (hook/adapter.rs, hook/provider.rs), connects to the daemon and sends   *)
(* them in one frame (daemon/protocol/v2.rs). While it works the pane may  *)
(* be respawned, the agent replaced and the daemon restarted. What the     *)
(* question journal adds to a Codex hook is in QuestionResolver.           *)
(***************************************************************************)
EXTENDS Naturals, FiniteSets

CONSTANTS
    HookProc,       \* hook processes
    MaxHookFaults,  \* bound: torn writes, lost answers and expired deadlines
    MaxHookWorld    \* bound: panes respawned, agents replaced, daemons restarted

ASSUME HookDeliveryAssumption ==
    IsFiniteSet(HookProc) /\ {MaxHookFaults, MaxHookWorld} \subseteq Nat

VARIABLES
    paneGen,   \* the pane's present process (pane_pid)
    agentGen,  \* the agent's present process (start token)
    serving,   \* the daemon: [id, up, mode]
    hookProc,  \* HookProc -> [at, load, chain, pane, agent, owner, aim, conn, event, obs]
    hookFrame,     \* HookProc -> what is on its connection: "none", "torn", "full", "answered", "closed"
    taken,     \* HookProc -> what the daemon applied: [times, pane, event, obs]
    hookSpent  \* [faults, world]

hookVars == <<paneGen, agentGen, serving, hookProc, hookFrame, taken, hookSpent>>

(***************************************************************************)
(* Payloads, as far as the adapters tell them apart.                       *)
(***************************************************************************)
Detail(event) ==
    CASE event = "UserPromptSubmit" -> {"text", "notifications"}
      [] event = "PostToolUse" -> {"progress", "background", "other"}
      [] event = "Notification" -> {"permission_prompt", "other"}
      [] event = "StopFailure" -> {"rate_limit", "error", "unsupported"}
      [] event = "SessionStart" -> {"known_source", "other"}
      [] event = "emit" -> {"report", "empty", "conflict"}
      [] OTHER -> {"other"}
CodexEvents == {"SessionStart", "UserPromptSubmit", "PreToolUse", "PostToolUse", "PermissionRequest",
                "Stop", "SubagentStart", "SubagentStop"}
ClaudeHookEvents == (CodexEvents \ {"PermissionRequest"}) \cup {"Notification", "StopFailure", "SessionEnd", "TaskCreated"}
Origins(provider) ==
    CASE provider = "codex" -> {"parent", "nonparent", "unverified"}
      [] provider = "claude" -> {"parent", "nonparent"}
      [] OTHER -> {"parent"}
EventsOf(provider) ==
    CASE provider = "codex" -> CodexEvents [] provider = "claude" -> ClaudeHookEvents [] OTHER -> {"emit"}
Payloads ==
    UNION {UNION {[provider : {v}, event : {e}, origin : Origins(v), detail : Detail(e), valid : BOOLEAN] :
                    e \in EventsOf(v)} : v \in {"codex", "claude", "emit"}}

(***************************************************************************)
(* The adapters. "none": nothing to send. "invalid": the command fails.    *)
(***************************************************************************)
is_guarded_claude_lifecycle_event(e) ==
    e \in {"UserPromptSubmit", "SessionStart", "Stop", "StopFailure", "Notification", "PreToolUse", "PostToolUse", "SessionEnd"}
is_guarded_codex_lifecycle_event(e) ==
    e \in {"UserPromptSubmit", "SessionStart", "Stop", "PermissionRequest", "PreToolUse", "PostToolUse"}

claude_stop_failure_event(d) ==
    CASE d = "rate_limit" -> "wait" [] d = "error" -> "fail" [] OTHER -> "invalid"

claude_typed_event_from_json(p) ==
    IF p.origin = "nonparent" /\ is_guarded_claude_lifecycle_event(p.event) THEN "none"
    ELSE CASE p.event = "SessionStart" -> IF p.detail = "known_source" THEN "session" ELSE "invalid"
           [] p.event = "UserPromptSubmit" -> IF p.detail = "notifications" THEN "notifications" ELSE "begin"
           [] p.event = "PostToolUse" -> IF p.detail = "background" THEN "tool_result" ELSE "activity"
           [] p.event = "PreToolUse" -> "activity"
           [] p.event = "Notification" -> IF p.detail = "permission_prompt" THEN "wait" ELSE "none"
           [] p.event = "Stop" -> "stop"
           [] p.event = "SessionEnd" -> "ended"
           [] p.event = "StopFailure" -> claude_stop_failure_event(p.detail)
           [] OTHER -> "none"

\* Progress carried by the subagent and task hooks and by the results of the task tools.
claude_progress_event_from_input(p) ==
    \/ p.event \in {"SubagentStart", "SubagentStop"}
    \/ p.origin = "parent" /\ (p.event = "TaskCreated" \/ (p.event = "PostToolUse" /\ p.detail = "progress"))

\* A background tool result keeps its event and takes the progress along; any other event gives way to it.
claude_typed_event_from_input(p) ==
    LET typed == claude_typed_event_from_json(p)
    IN  IF typed \in {"invalid", "tool_result"} THEN typed
        ELSE IF claude_progress_event_from_input(p) THEN "progress" ELSE typed

codex_typed_event_from_json(p) ==
    IF p.origin # "parent" /\ is_guarded_codex_lifecycle_event(p.event) THEN "none"
    ELSE CASE p.event = "SessionStart" -> IF p.detail = "known_source" THEN "session" ELSE "invalid"
           [] p.event = "UserPromptSubmit" -> "begin"
           [] p.event \in {"PreToolUse", "PostToolUse"} -> "activity"
           [] p.event = "PermissionRequest" -> "wait"
           [] p.event = "Stop" -> "stop"
           [] OTHER -> "none"

\* The plan, goal and worktree tools are guarded on their own: their event is built before the others.
codex_aux_event_from_input(p) ==
    CASE p.event = "PostToolUse" /\ p.detail = "progress" -> IF p.origin = "parent" THEN "activity_progress" ELSE "none"
      [] p.event \in {"SubagentStart", "SubagentStop"} -> "progress"
      [] OTHER -> "none"
codex_typed_event_from_input(p) ==
    IF codex_aux_event_from_input(p) # "none" THEN codex_aux_event_from_input(p) ELSE codex_typed_event_from_json(p)

generic_typed_event(p) ==
    CASE p.detail = "conflict" -> "invalid" [] p.detail = "empty" -> "none" [] OTHER -> "report"

\* The durable half of an event; only Codex hooks send it, and only along with a pane event.
observation_from_json(p) ==
    IF p.provider # "codex" THEN "none"
    ELSE CASE p.event = "SessionStart" -> "SessionStart"
           [] p.event = "UserPromptSubmit" -> "UserPromptSubmit"
           [] p.event \in {"PreToolUse", "PostToolUse"} -> "Activity"
           [] p.event = "PermissionRequest" -> "Waiting"
           [] p.event = "Stop" -> "Stop"
           [] OTHER -> "none"
typed_event(p) ==
    IF ~p.valid THEN "invalid"
    ELSE CASE p.provider = "codex" -> codex_typed_event_from_input(p)
           [] p.provider = "claude" -> claude_typed_event_from_input(p)
           [] OTHER -> generic_typed_event(p)

(***************************************************************************)
(* The hook process.                                                       *)
(***************************************************************************)
NoLoad == [provider |-> "none", event |-> "none", origin |-> "none", detail |-> "none", valid |-> FALSE]
NoOwner == [pane |-> 0, verified |-> FALSE]
NewProc == [at |-> "off", load |-> NoLoad, chain |-> "none", pane |-> 0, agent |-> 0, owner |-> NoOwner,
            aim |-> 0, conn |-> 0, event |-> "none", obs |-> "none"]
NothingTaken == [times |-> 0, pane |-> 0, event |-> "none", obs |-> "none"]

HookFault == hookSpent.faults < MaxHookFaults /\ hookSpent' = [hookSpent EXCEPT !.faults = @ + 1]
HookWorld == hookSpent.world < MaxHookWorld /\ hookSpent' = [hookSpent EXCEPT !.world = @ + 1]
At_(h, a) == hookProc[h].at = a
Ends(h, how) == hookProc' = [hookProc EXCEPT ![h].at = how]
Ended == {"off", "ok", "nothing", "dropped", "error"}

\* An agent starts the hook: embedded in the pane, from an app server several clients share, or from a
\* server that has left the pane whose TMUX_PANE it still has.
StartHook(h, load, chain) ==
    /\ At_(h, "off") /\ (load.provider # "codex" => chain = "embedded")
    /\ hookProc' = [hookProc EXCEPT ![h] = [NewProc EXCEPT
           !.at = IF load.provider = "codex" THEN "capture" ELSE "context",
           !.load = load, !.chain = chain, !.pane = paneGen, !.agent = agentGen]]
    /\ UNCHANGED <<paneGen, agentGen, serving, hookFrame, taken, hookSpent>>

\* CodexHookOwner::capture and verified: the lineage reaches the pane's root and has a Codex process.
Lineage(h) == hookProc[h].chain = "embedded" /\ hookProc[h].pane = paneGen /\ hookProc[h].agent = agentGen
capture(h) ==
    /\ At_(h, "capture")
    /\ hookProc' = [hookProc EXCEPT ![h].owner = [pane |-> paneGen, verified |-> Lineage(h)],
                                    ![h].at = IF Lineage(h) THEN "context" ELSE "dropped"]
    /\ UNCHANGED <<paneGen, agentGen, serving, hookFrame, taken, hookSpent>>

\* typed_hook_context: the pane as it is now, a daemon that answers, one connection to it.
typed_hook_context(h) ==
    /\ At_(h, "context")
    /\ \/ /\ serving.mode = "enabled" /\ serving.up
          /\ hookProc' = [hookProc EXCEPT ![h].aim = paneGen, ![h].conn = serving.id,
                                          ![h].at = IF hookProc[h].load.provider = "codex" THEN "owned" ELSE "build"]
       \/ serving.mode # "enabled" /\ Ends(h, "error")
    /\ hookFrame' = [hookFrame EXCEPT ![h] = "none"]
    /\ UNCHANGED <<paneGen, agentGen, serving, taken, hookSpent>>

\* The lineage is proved again right before each attempt, against the pane this attempt names.
still_owned(h) == hookProc[h].owner.verified /\ hookProc[h].owner.pane = hookProc[h].aim /\ Lineage(h)
Recheck_(h) ==
    /\ At_(h, "owned") /\ hookProc' = [hookProc EXCEPT ![h].at = IF still_owned(h) THEN "build" ELSE "dropped"]
    /\ UNCHANGED <<paneGen, agentGen, serving, hookFrame, taken, hookSpent>>

\* A Codex session start of unknown source tells the resolver only, and only if it is an observation.
run_hook_command(h) ==
    LET p == hookProc[h].load
        session == p.provider = "codex" /\ p.valid /\ p.event = "SessionStart" /\ p.detail = "other"
        event == IF session THEN "question_session" ELSE typed_event(p)
    IN  /\ At_(h, "build")
        /\ hookProc' = [hookProc EXCEPT
               ![h].at = CASE event = "invalid" -> "error" [] event = "none" -> "nothing" [] OTHER -> "write",
               ![h].event = event, ![h].obs = IF session THEN "none" ELSE observation_from_json(p)]
        /\ UNCHANGED <<paneGen, agentGen, serving, hookFrame, taken, hookSpent>>

\* request_with_stage: the daemon acts on a frame only once it has all of it.
retry_before_write(p) == p.provider = "codex" /\ p.event \in {"UserPromptSubmit", "Stop"}
write_client_message(h) ==
    /\ At_(h, "write")
    /\ \/ /\ serving.up /\ serving.id = hookProc[h].conn /\ UNCHANGED hookSpent
          /\ hookFrame' = [hookFrame EXCEPT ![h] = "full"] /\ hookProc' = [hookProc EXCEPT ![h].at = "read"]
       \/ /\ \/ HookFault
             \/ ~(serving.up /\ serving.id = hookProc[h].conn) /\ UNCHANGED hookSpent
          /\ hookFrame' = [hookFrame EXCEPT ![h] = "torn"]
          /\ hookProc' = [hookProc EXCEPT ![h].at = IF retry_before_write(hookProc[h].load) THEN "context" ELSE "error"]
    /\ UNCHANGED <<paneGen, agentGen, serving, taken>>

\* The answer, validate_typed_hook_response: a refused notice is an error whatever became of the event.
ReadAnswer(h) ==
    /\ At_(h, "read")
    /\ \/ hookFrame[h] = "answered" /\ Ends(h, "ok") /\ UNCHANGED hookSpent
       \/ hookFrame[h] \in {"refused", "closed"} /\ Ends(h, "error") /\ UNCHANGED hookSpent
    /\ UNCHANGED <<paneGen, agentGen, serving, hookFrame, taken>>

\* Eight seconds for the events a Run depends on, two for the others.
delivery_timeout(h) ==
    /\ hookProc[h].at \in {"context", "write", "read"} /\ HookFault /\ Ends(h, "error")
    /\ UNCHANGED <<paneGen, agentGen, serving, hookFrame, taken>>

\* The daemon takes the frame of a connection of its own; the answer may carry a refused notice.
TakeFrame(h) ==
    /\ hookFrame[h] = "full" /\ serving.up /\ serving.id = hookProc[h].conn
    /\ taken' = [taken EXCEPT ![h] = [times |-> @.times + 1, pane |-> hookProc[h].aim,
                                      event |-> hookProc[h].event, obs |-> hookProc[h].obs]]
    /\ \E how \in {"answered", "refused"} : hookFrame' = [hookFrame EXCEPT ![h] = how]
    /\ UNCHANGED <<paneGen, agentGen, serving, hookProc, hookSpent>>

(***************************************************************************)
(* The world.                                                              *)
(***************************************************************************)
\* A daemon that goes down closes its connections: frames not taken are lost, answers on their way too.
StopServing ==
    /\ serving.up /\ HookWorld
    /\ serving' = [serving EXCEPT !.up = FALSE]
    /\ hookFrame' = [h \in HookProc |-> IF hookFrame[h] \in {"full", "answered", "refused"} THEN "closed" ELSE hookFrame[h]]
    /\ UNCHANGED <<paneGen, agentGen, hookProc, taken>>
Disable == serving' = [serving EXCEPT !.mode = "disabled"] /\ HookWorld
           /\ UNCHANGED <<paneGen, agentGen, hookProc, hookFrame, taken>>
\* ensure_daemon_live: a hook that finds no daemon starts one.
StartServing ==
    /\ ~serving.up /\ serving.mode = "enabled" /\ \E h \in HookProc : At_(h, "context")
    /\ serving' = [serving EXCEPT !.id = @ + 1, !.up = TRUE]
    /\ UNCHANGED <<paneGen, agentGen, hookProc, hookFrame, taken, hookSpent>>
RespawnPane == paneGen' = paneGen + 1 /\ agentGen' = agentGen + 1 /\ HookWorld
               /\ UNCHANGED <<serving, hookProc, hookFrame, taken>>
ReplaceAgent == agentGen' = agentGen + 1 /\ HookWorld /\ UNCHANGED <<paneGen, serving, hookProc, hookFrame, taken>>

HookInit ==
    /\ paneGen = 1 /\ agentGen = 1 /\ serving = [id |-> 1, up |-> TRUE, mode |-> "enabled"]
    /\ hookProc = [h \in HookProc |-> NewProc] /\ hookFrame = [h \in HookProc |-> "none"]
    /\ taken = [h \in HookProc |-> NothingTaken] /\ hookSpent = [faults |-> 0, world |-> 0]

HookSteps(h) ==
    \/ capture(h) \/ typed_hook_context(h) \/ Recheck_(h) \/ run_hook_command(h)
    \/ write_client_message(h) \/ ReadAnswer(h) \/ delivery_timeout(h) \/ TakeFrame(h)
HookNext ==
    \/ \E h \in HookProc :
          HookSteps(h) \/ \E load \in Payloads, chain \in {"embedded", "shared", "detached"} : StartHook(h, load, chain)
    \/ StopServing \/ StartServing \/ Disable \/ RespawnPane \/ ReplaceAgent
HookSpec == HookInit /\ [][HookNext]_hookVars

-----------------------------------------------------------------------------
(***************************************************************************)
(* Properties.                                                             *)
(***************************************************************************)
\* An event reaches the pane state once or not at all, whatever was retried, torn or lost.
TakenOnce == \A h \in HookProc : taken[h].times <= 1

\* What the process tells its agent is true: done means applied, dropped means never applied.
ExitHonest ==
    \A h \in HookProc : /\ At_(h, "ok") => taken[h].times = 1
                        /\ hookProc[h].at \in {"dropped", "nothing"} => taken[h].times = 0

\* A Codex event is applied to the pane its agent lives in, never to one that took over the pane id,
\* and never for a server that merely inherited TMUX_PANE.
RightPane ==
    \A h \in HookProc :
        taken[h].times > 0 /\ hookProc[h].load.provider = "codex"
        => taken[h].pane = hookProc[h].pane /\ hookProc[h].chain = "embedded"

\* A subagent moves its own progress rows, never the lifecycle or the durable Run of its parent.
OnlyParentSpeaks ==
    \A h \in HookProc :
        taken[h].times > 0 /\ hookProc[h].load.origin # "parent"
        => taken[h].event \in {"progress", "question_session"} /\ taken[h].obs = "none"

AgentHooksSound == TakenOnce /\ ExitHonest /\ RightPane /\ OnlyParentSpeaks
=============================================================================
