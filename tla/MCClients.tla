----------------------------- MODULE MCClients ------------------------------
(* The processes around the daemon, on small instances: one run takes the   *)
(* steps of one part, chosen in the initial state; the others keep their    *)
(* state.                                                                   *)
EXTENDS AgentInput, PromptClient, SidebarTui, ActiveConfig, Sessions, TLC

CONSTANTS c1, c2, t1, t2, p1, prompt2

VARIABLE part

clientsVars == <<part, inputVars, clientVars, tuiVars, acVars, killVars, sessionVars>>

Parts == {"input", "request", "deadline", "sidebar", "config", "kill", "sessions"}

(* Both sidebars were opened from the one pane, below its repository.       *)
MCHome == (t1 :> p1) @@ (t2 :> p1)
MCRows == <<RepoRow, p1>>
MCFields == <<"scope", "filter">>

(* Both callers run in the environment "a"; categories 1 and 2 share a key. *)
MCEnv == (c1 :> "a") @@ (c2 :> "a")
MCKey == (0 :> 0) @@ (1 :> 1) @@ (2 :> 1)

(* A part that takes no step starts in one state.                           *)
ClientsInit ==
    /\ part \in Parts
    /\ InputInit /\ ClientInit /\ TuiInit /\ AcInit /\ KillInit /\ SessionsInit
    /\ part = "input" \/ listed.present
    /\ part = "config" \/ (running.env = "a" /\ running.exe = "new")
    /\ part = "kill" \/ \A g \in Group : group[g] = "up"
    /\ attached[c1] = 2 /\ attached[c2] = 3
    /\ part = "sessions" \/ Living = SName

(* The processes are interchangeable, and so are the prompts: c1 runs the   *)
(* first command, with the prompt prompt1.                                        *)
RequestStep ==
    /\ ClientNext
    /\ promptCommands = 0 /\ promptCommands' = 1
          => proc'[c2] = proc[c2] /\ proc'[c1].supplied # prompt2

(* For the deadlines one prompt, written once, tells as much as two.        *)
DeadlineStep == RequestStep /\ sends' <= 1 /\ \A c \in Proc : proc'[c].supplied # prompt2

(* Two happenings in all, the first one once both sidebars have started,    *)
(* the first key in t1.                                                     *)
Happened(s) == s.keys + s.world + s.loss + s.restarts
Started ==
    \A t \in Tui : /\ tui[t].ready /\ tui[t].snap = feed[t].snap /\ feed[t].snap = <<Snapshot>>
                   /\ \A w \in Worker : tui[t].jobs[w] = <<>> /\ tui[t].answers[w] = <<>>
SidebarStep ==
    /\ TuiNext
    /\ Happened(spent') <= 2
    /\ Happened(spent) = 0 /\ Happened(spent') = 1 => Started
    /\ spent.keys = 0 /\ spent'.keys = 1 => tui'[t2] = tui[t2]

(* Two commands or changes of the sessions, the first command by c1.        *)
SessionStep ==
    /\ SessionsNext
    /\ navUsed'.navs + navUsed'.shifts <= 2
    /\ navUsed.navs = 0 => nav'[c2] = nav[c2]

ClientsNext ==
    /\ UNCHANGED part
    /\ IF part = "input" THEN InputNext ELSE UNCHANGED inputVars
    /\ CASE part = "request" -> RequestStep
         [] part = "deadline" -> DeadlineStep
         [] OTHER -> UNCHANGED clientVars
    /\ IF part = "sidebar" THEN SidebarStep ELSE UNCHANGED tuiVars
    /\ IF part = "config" THEN AcNext ELSE UNCHANGED acVars
    /\ IF part = "kill" THEN KillNext ELSE UNCHANGED killVars
    /\ IF part = "sessions" THEN SessionStep ELSE UNCHANGED sessionVars

ClientsSpec == ClientsInit /\ [][ClientsNext]_clientsVars

(* The sidebars alone, with the fairness of their threads.                  *)
SidebarSpec == ClientsInit /\ part = "sidebar" /\ [][ClientsNext]_clientsVars /\ TuiFairness

-----------------------------------------------------------------------------
(* Properties: each module's own, of the part that runs.                    *)

(* What a command reports is true: of the keys it typed, of the Operation   *)
(* it asked for, of the configuration it acts on.                           *)
CommandsHonest ==
    /\ part = "input" => ReportsHonest
    /\ part \in {"request", "deadline"} => RequestSound
    /\ part = "config" => ActiveConfigSound

(* Screens and sessions: the sidebar acts on the rows it has drawn and      *)
(* acknowledges only what was shown, Kill Server leaves nothing behind and  *)
(* spares itself, a category switch lands in that category.                 *)
SessionsHonest ==
    /\ part = "sidebar" => SidebarSound
    /\ part = "kill" => KillSound
    /\ part = "sessions" => SessionsSound

(* What no step does: start a known Operation once more, take over another  *)
(* terminal's daemon, drop a user's input, throw a client out of tmux.      *)
ClientsStep == KnownOnlyObserves /\ NeverTakenOver /\ UserInputKept /\ ClientKeepsSession

(* What must happen, under the fairness each module states for its threads  *)
(* (guarded by the part, which is the same there and cheaper to check).     *)
ClientsSettle ==
    /\ part = "deadline" /\ (\A c \in Proc : WF_clientVars(part = "deadline" /\ ClientProgress(c)))
          => EveryCommandEnds
    /\ part = "sidebar" /\ (\A t \in Tui : WF_tuiVars(part = "sidebar" /\ TuiProgress(t)))
          => SidebarsSettle
    /\ part = "config" /\ (\A c \in Caller : WF_acVars(part = "config" /\ AcProgress(c)))
          => CallersEnd
=============================================================================
