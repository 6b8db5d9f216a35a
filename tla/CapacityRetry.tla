---------------------------- MODULE CapacityRetry ---------------------------
(***************************************************************************)
(* Automatic resume after a Codex capacity error (daemon/server/capacity.rs *)
(* and codex_capacity.rs), for one pane. Detection, ticks and provider     *)
(* events are mutations of one queue; the person at the pane, Codex, its   *)
(* transcript, its hooks and the captured samples move between them. The   *)
(* paste itself is PromptDispatch; its last check and the key presses are  *)
(* one step here, as README says the two cannot be made one for Codex.     *)
(***************************************************************************)
EXTENDS Naturals

CONSTANTS
    MaxPrompts,     \* bound: turns
    MaxAgents,      \* bound: Codex sessions or processes
    MaxDisturbances \* bound: what a person or the world does in between

ASSUME CapacityRetryAssumption == {MaxPrompts, MaxAgents, MaxDisturbances} \subseteq Nat

Attempts == 3

VARIABLES
    turn,     \* Codex's latest turn: [no, by, outcome, told]; told: its prompt hook was delivered or lost
    codex,    \* the live session or process
    screen,   \* "working", "failure", "draft", "other"
    touched,  \* a client interacted with the pane since the failure was recorded
    notice,   \* a question waits
    paneRec,  \* the pane's record: [life, run, agent]
    locators, \* run -> "none", "eligible", "bound": the turn's transcript and whether it may start a chain
    chain,    \* [live, run, agent, attempts, due, frame, pending, reason, root]
    resume,   \* the resume Operation: "none", "started", "unknown", "confirmed"
    fencedAt, \* the agent whose last delivery is unknown, on disk
    pasted,   \* text pasted that Codex has not taken yet
    seen,     \* the sample on its way from the capture worker
    enabledBy,\* codex.capacity_auto_resume.enabled
    resumes,  \* resumes sent since the last prompt that was not one
    stirred   \* disturbances so far

capVars == <<turn, codex, screen, touched, notice, paneRec, locators, chain, resume, fencedAt, pasted, seen,
             enabledBy, resumes, stirred>>

Runs == 0..MaxPrompts
NoChain == [live |-> FALSE, run |-> 0, agent |-> 0, attempts |-> 0, due |-> FALSE, frame |-> 0, pending |-> FALSE,
            reason |-> "none", root |-> "none"]
NoSample == [ready |-> FALSE, hint |-> FALSE, working |-> FALSE, frame |-> 0]
Stir == stirred < MaxDisturbances /\ stirred' = stirred + 1

\* codex_capacity::frame: the rows above an empty composer, which end in the failure of this turn; 0: not such a screen.
frame == IF screen = "failure" THEN turn.no ELSE 0

\* read_terminal: what the transcript says of a run's turn; a newer turn makes it pending again.
read_terminal(run) == IF run = turn.no THEN turn.outcome ELSE "pending"

\* current: the record still shows this run of this agent.
current(c) == paneRec.agent = c.agent /\ paneRec.run = c.run

Waiting == chain.live /\ chain.reason = "none" /\ chain.due
RunningChain == chain.live /\ chain.reason = "none" /\ ~chain.due /\ ~chain.pending

Stopped(c, why) == IF c.live THEN [c EXCEPT !.reason = why, !.due = FALSE] ELSE c

(***************************************************************************)
(* The pane: a person, other programs and Codex.                           *)
(***************************************************************************)
Prompt(by) ==
    /\ turn.no < MaxPrompts /\ turn.told /\ ~pasted /\ turn.outcome # "pending"
    /\ turn' = [no |-> turn.no + 1, by |-> by, outcome |-> "pending", told |-> FALSE]
    /\ screen' = "working" /\ touched' = (touched \/ by = "person") /\ resumes' = 0
    /\ UNCHANGED <<codex, notice, paneRec, locators, chain, resume, fencedAt, pasted, seen, enabledBy, stirred>>

TakePaste ==
    /\ pasted /\ turn.no < MaxPrompts /\ turn.told
    /\ turn' = [no |-> turn.no + 1, by |-> "resume", outcome |-> "pending", told |-> FALSE]
    /\ screen' = "working" /\ pasted' = FALSE
    /\ UNCHANGED <<codex, touched, notice, paneRec, locators, chain, resume, fencedAt, seen, enabledBy, resumes, stirred>>

TurnEnds ==
    /\ turn.outcome = "pending" /\ turn.no > 0
    /\ \E o \in {"capacity", "error", "success"} :
         /\ turn' = [turn EXCEPT !.outcome = o]
         /\ screen' = IF o = "capacity" THEN "failure" ELSE "other"
    /\ UNCHANGED <<codex, touched, notice, paneRec, locators, chain, resume, fencedAt, pasted, seen, enabledBy, resumes, stirred>>

\* A person types a draft, erases one, or only looks around in the pane; a question comes or goes.
Disturb ==
    /\ Stir
    /\ \/ screen = "failure" /\ screen' = "draft" /\ touched' = TRUE /\ UNCHANGED notice
       \/ screen = "draft" /\ screen' = "failure" /\ touched' = TRUE /\ UNCHANGED notice
       \/ touched' = TRUE /\ UNCHANGED <<screen, notice>>
       \/ notice' = ~notice /\ UNCHANGED <<screen, touched>>
    /\ UNCHANGED <<turn, codex, paneRec, locators, chain, resume, fencedAt, pasted, seen, enabledBy, resumes>>

\* Codex is replaced or switches its session; its SessionStart hook may be lost.
NewSession(heard) ==
    /\ codex < MaxAgents /\ turn.told /\ codex' = codex + 1 /\ screen' = "other" /\ pasted' = FALSE /\ Stir
    /\ turn' = [turn EXCEPT !.outcome = "gone"]
    /\ IF heard
       THEN /\ paneRec' = [paneRec EXCEPT !.agent = codex + 1, !.life = "idle"]
            /\ chain' = Stopped(chain, IF chain.pending THEN "session_rollover_after_send" ELSE "session_start")
       ELSE UNCHANGED <<paneRec, chain>>
    /\ UNCHANGED <<touched, notice, locators, resume, fencedAt, seen, enabledBy, resumes>>

(***************************************************************************)
(* The daemon.                                                             *)
(***************************************************************************)
\* observe, on the prompt's hook: a prompt that is not a resume ends the chain; the resume it waited for
\* carries it on. Only what was not dispatched as a resume may start one.
observe(heard) ==
    LET automatic == turn.by = "resume"
        mine == chain.live /\ chain.reason = "none" /\ chain.pending /\ chain.agent = codex /\ resume = "started"
        next == CASE ~automatic -> NoChain
                  [] automatic /\ mine -> [chain EXCEPT !.run = turn.no, !.pending = FALSE, !.due = FALSE, !.frame = 0]
                  [] OTHER -> [Stopped(chain, "session_rollover_after_send") EXCEPT
                                  !.reason = IF chain.reason # "none" \/ ~chain.live THEN chain.reason ELSE @]
    IN  /\ turn.no > 0 /\ ~turn.told /\ turn' = [turn EXCEPT !.told = TRUE]
        /\ \/ /\ heard /\ paneRec' = [life |-> "running", run |-> turn.no, agent |-> codex] /\ chain' = next
              /\ resume' = IF automatic /\ resume = "started" THEN "confirmed" ELSE resume
              /\ \E b \in {"none", IF automatic THEN "bound" ELSE "eligible"} :
                   locators' = [r \in Runs |-> IF r = turn.no THEN b
                                     ELSE IF next.live /\ next.reason = "none" /\ r = next.run THEN locators[r]
                                     ELSE "none"]
              /\ UNCHANGED stirred
           \/ ~heard /\ Stir /\ UNCHANGED <<paneRec, chain, resume, locators>>
        /\ UNCHANGED <<codex, screen, touched, notice, fencedAt, pasted, seen, enabledBy, resumes>>

\* The Stop hook of a turn that ended well.
StopHook ==
    /\ paneRec.run = turn.no /\ turn.told /\ turn.outcome = "success" /\ paneRec.life = "running"
    /\ paneRec' = [paneRec EXCEPT !.life = "idle"]
    /\ UNCHANGED <<turn, codex, screen, touched, notice, locators, chain, resume, fencedAt, pasted, seen, enabledBy, resumes, stirred>>

\* A capture of the pane, which the daemon gets to see later.
Sample ==
    /\ ~seen.ready
    /\ seen' = [ready |-> TRUE, hint |-> screen \in {"failure", "draft"}, working |-> screen = "working", frame |-> frame]
    /\ UNCHANGED <<turn, codex, screen, touched, notice, paneRec, locators, chain, resume, fencedAt, pasted, enabledBy, resumes, stirred>>

\* A failure is recorded once per run; a chain waits for its delay, or stops because three were sent,
\* because the version is not supported or because the screen is not the plain failure.
Fail(c, now, supported) ==
    LET own == IF ~c.live /\ locators[paneRec.run] = "eligible"
               THEN [NoChain EXCEPT !.live = TRUE, !.run = paneRec.run, !.agent = paneRec.agent, !.root = turn.by]
               ELSE c
    IN  IF ~own.live \/ own.reason # "none" \/ own.run # paneRec.run THEN own
        ELSE IF own.attempts >= Attempts THEN [own EXCEPT !.reason = "attempt_limit"]
        ELSE IF ~supported \/ now = 0 THEN [own EXCEPT !.reason = "not_ready"]
        ELSE [own EXCEPT !.frame = now, !.due = TRUE]

\* detect_with, on a sample. The transcript and the final screen are read now, not when it was taken.
detect_with ==
    LET c == IF Waiting /\ chain.frame # seen.frame THEN Stopped(chain, "viewport_changed") ELSE chain
        outcome == read_terminal(paneRec.run)
        fresh == paneRec.life # "overload" /\ paneRec.run > 0
        ours == enabledBy /\ ((chain.live /\ chain.reason = "none" /\ chain.run = paneRec.run)
                              \/ locators[paneRec.run] = "eligible")
    IN  /\ seen.ready /\ seen' = NoSample
        /\ \/ /\ ~(seen.hint \/ (RunningChain /\ ~seen.working)) \/ paneRec.life = "idle" \/ paneRec.run = 0
              /\ chain' = c /\ UNCHANGED <<paneRec, touched, locators>>
           \/ /\ seen.hint \/ (RunningChain /\ ~seen.working)
              /\ paneRec.life # "idle" /\ paneRec.run > 0
              /\ \E found \in {TRUE, locators[paneRec.run] # "none"} :
                   \/ ~found /\ chain' = c /\ UNCHANGED <<paneRec, touched, locators>>
                   \/ /\ found
                      /\ locators' = [locators EXCEPT ![paneRec.run] = IF @ = "none" THEN "bound" ELSE @]
                      /\ \/ outcome \in {"error", "success", "gone"} /\ UNCHANGED <<paneRec, touched>>
                            /\ chain' = Stopped(c, IF outcome = "success" THEN "completed" ELSE "other_error")
                         \/ (outcome = "pending" \/ (outcome = "capacity" /\ ~fresh))
                            /\ chain' = c /\ UNCHANGED <<paneRec, touched>>
                         \/ /\ outcome = "capacity" /\ fresh
                            /\ paneRec' = [paneRec EXCEPT !.life = "overload"]
                            /\ touched' \in {FALSE, touched}
                            /\ \E supported \in BOOLEAN : chain' = IF ours THEN Fail(c, frame, supported) ELSE c
        /\ UNCHANGED <<turn, codex, screen, notice, resume, fencedAt, pasted, enabledBy, resumes, stirred>>

\* RecoveryCandidate::verify: the same failed run, session, transcript, screen, and nobody's attention.
verify == /\ paneRec.life = "overload" /\ codex = chain.agent /\ read_terminal(chain.run) = "capacity"
          /\ frame = chain.frame /\ ~touched /\ ~notice

\* apply_capacity_prompt_at: refused while an earlier delivery to this agent is open or unknown.
SendResume ==
    \/ /\ (fencedAt = chain.agent \/ resume = "started") /\ chain' = Stopped(chain, "binding_ambiguous")
       /\ UNCHANGED <<resume, fencedAt, pasted, resumes>>
    \/ /\ fencedAt # chain.agent /\ resume # "started"
       /\ \/ /\ chain' = [Stopped(chain, "dispatch_rejected") EXCEPT !.attempts = @ + 1, !.pending = TRUE]
             /\ UNCHANGED <<resume, fencedAt, pasted, resumes>>
          \/ /\ verify
             /\ chain' = [chain EXCEPT !.attempts = @ + 1, !.due = FALSE, !.pending = TRUE]
             /\ resume' = "started" /\ pasted' = TRUE /\ resumes' = resumes + 1 /\ UNCHANGED fencedAt
          \/ /\ verify
             /\ chain' = [Stopped(chain, "delivery_unknown") EXCEPT !.attempts = @ + 1, !.pending = TRUE]
             /\ resume' = "unknown" /\ fencedAt' = chain.agent /\ pasted' \in BOOLEAN /\ resumes' = resumes + 1

\* tick_with: one look at the chain a second, in the order the code asks.
tick_with ==
    /\ chain.live /\ chain.reason = "none"
    /\ \/ /\ ~current(chain) /\ chain' = Stopped(chain, "agent_identity_changed") /\ UNCHANGED <<resume, fencedAt, pasted, resumes>>
       \/ /\ current(chain) /\ ~enabledBy /\ chain' = Stopped(chain, "disabled") /\ UNCHANGED <<resume, fencedAt, pasted, resumes>>
       \/ /\ current(chain) /\ enabledBy /\ chain.pending /\ resume # "started"
          /\ chain' = Stopped(chain, IF resume = "confirmed" THEN "session_rollover_after_send" ELSE "delivery_unknown")
          /\ UNCHANGED <<resume, fencedAt, pasted, resumes>>
       \/ /\ current(chain) /\ enabledBy /\ ~chain.pending /\ ~chain.due /\ paneRec.life \in {"idle", "overload"}
          /\ chain' = Stopped(chain, IF paneRec.life = "idle" THEN "completed" ELSE "other_error")
          /\ UNCHANGED <<resume, fencedAt, pasted, resumes>>
       \/ current(chain) /\ enabledBy /\ ~chain.pending /\ chain.due /\ SendResume
    /\ UNCHANGED <<turn, codex, screen, touched, notice, paneRec, locators, seen, enabledBy, stirred>>

\* The Operation's deadline: a resume nobody confirmed is of unknown delivery.
ResumeDeadline ==
    /\ resume = "started" /\ resume' = "unknown" /\ fencedAt' = chain.agent
    /\ UNCHANGED <<turn, codex, screen, touched, notice, paneRec, locators, chain, pasted, seen, enabledBy, resumes, stirred>>

\* A restart keeps what is on disk: the record and an open Operation, which becomes unknown.
RestartDaemon ==
    /\ Stir /\ chain' = NoChain /\ locators' = [r \in Runs |-> "none"] /\ seen' = NoSample /\ enabledBy' \in BOOLEAN
    /\ resume' = IF resume = "started" THEN "unknown" ELSE resume
    /\ fencedAt' = IF resume = "started" THEN paneRec.agent ELSE fencedAt
    /\ UNCHANGED <<turn, codex, screen, touched, notice, paneRec, pasted, resumes>>

CapInit ==
    /\ turn = [no |-> 0, by |-> "person", outcome |-> "success", told |-> TRUE] /\ codex = 1 /\ screen = "other"
    /\ touched = FALSE /\ notice = FALSE /\ paneRec = [life |-> "idle", run |-> 0, agent |-> 1]
    /\ locators = [r \in Runs |-> "none"] /\ chain = NoChain /\ resume = "none" /\ fencedAt = 0 /\ pasted = FALSE
    /\ seen = NoSample /\ enabledBy \in BOOLEAN /\ resumes = 0 /\ stirred = 0

CapNext ==
    \/ Prompt("person") \/ Prompt("api") \/ TakePaste \/ TurnEnds \/ Disturb
    \/ \E heard \in BOOLEAN : NewSession(heard) \/ observe(heard)
    \/ StopHook \/ Sample \/ detect_with \/ tick_with \/ ResumeDeadline \/ RestartDaemon
CapSpec == CapInit /\ [][CapNext]_capVars

-----------------------------------------------------------------------------
(***************************************************************************)
(* Properties.                                                             *)
(***************************************************************************)
\* At most three resumes follow a prompt that was not one, across every chain and daemon.
ResumesBounded == resumes <= Attempts

\* A resume answers the failed turn the pane still shows, in the session it failed in, untouched since;
\* nothing is sent to an agent whose last delivery is unknown.
ResumesOnlyTheFailedTurn ==
    [][resumes' > resumes
       => /\ turn.outcome = "capacity" /\ screen = "failure" /\ chain.run = turn.no /\ codex = paneRec.agent
          /\ ~touched /\ ~notice /\ fencedAt # codex /\ ~pasted]_capVars

\* README.md: "Only prompts that a person sent while the current daemon was running can start a chain."
OnlyPeopleStart == chain.live => chain.root = "person"
=============================================================================
