# vde-tmux in TLA+

`vt` keeps one daemon per tmux server. The daemon watches coding agents that run
in tmux panes, records what they do (Agent Runs), sends them prompts (Dispatch
Operations), and shows their state in the sidebar and the status line. Around it
run short-lived commands, hook processes and sidebars. This directory models the
parts of all of them that must survive crashes, retries and interleavings, checks
them with TLC and proves the central ones with TLAPS.

Paths below are relative to the crate (`src/` of the repository). `PROJECT.json`
lists for every definition the lines it models, and the components, runs,
mutants, findings, hazards and theorems.

## 1. Inventory

### Processes and how they interact

* **Hook clients** (`hook/`, `cli/hook.rs`): one short-lived process per provider
  hook (prompt, stop, session start, ...). They connect to the daemon's socket
  and deliver one event. They are not ordered among each other and are not
  retried when the daemon is away.
* **API and CLI clients** (`api/`, `cli/`): start a prompt, poll an Operation,
  read and resolve Runs, manage the daemon.
* **The daemon** (`daemon/`): a listener with at most 64 connection threads, a
  bounded queue of sequenced mutations (1024), and **one** mutation worker
  (`daemon/server.rs`, `start_v2_mutation_worker`) that applies them one by one.
  Background workers (observation, capture, process, question, task summary,
  capacity, status push, prompt timeout) only enqueue mutations or write tmux
  options under their own lock.
* **tmux**: external. It runs commands after the client that issued them may be
  gone, and keeps options when the daemon stops.
* **The provider** (Codex, Claude Code): external. It starts turns, changes
  sessions, emits hooks.

### Components

| Component | State | Operations | Hard behaviour | What makes it correct |
| --- | --- | --- | --- | --- |
| Prompt dispatch (`agent_state/runtime.rs`, `daemon/server/mutations/agent.rs`, `daemon/agent_dispatch.rs`) | Operation records and prompt bodies on disk, in-flight fence in memory | prepare, start, await, settle, confirm, abandon, expire, reconcile | crash around a tmux command, retry, timeout against a late hook | a prompt is delivered at most once; `rejected` is honest; the fence is exact; everything settles |
| Run ledger (`agent_state/runtime.rs`, `reducer.rs`) | run records, `current_by_binding`, `current_by_pane` | observe a hook, retire, reconcile, resolve | hooks out of order, crash between Run and pane | one active Run, unique sequences, final outcomes, pane and ledger agree |
| Run evidence (`agent_state/reducer.rs`, `store.rs`) | references, revisions, artifact bodies | append, rotate, complete, store, evict, retain | limits, retries, crash between two files | a Stop finds room, answers final, bodies present |
| Daemon lifecycle (`daemon/lifecycle.rs`, `cli/daemon.rs`, `daemon/server/bootstrap.rs`) | socket, three file locks, lifecycle record, tmux marker | ensure, start, stop, force, disable, enable, reload | concurrent commands and processes, kills, deadlines | a daemon that is up is reachable; disabled means disabled |
| Pane state (`pane_state/`) | pane records, unread occurrences, attention, tasks | reduce an event, resolve, snapshot | stale versions, background jobs | status and unread follow the runs |
| Mutation coordinator (`daemon/server.rs`, `router.rs`, `framing.rs`) | queue, accepted sequence, waiters, phase | route, accept, apply, complete, shut down | full queue, shutdown with work queued | every accepted mutation is applied once and answered |
| Peek leases and pane reads (`daemon/runtime/peek.rs`, `mutations/pane.rs`) | lease per client | request, confirm, reconcile, end | observations older than the lease | a peek never reads a pane; a read never outruns its observation |
| Observation (`daemon/topology.rs`, `server/observation.rs`, `workers/`) | topology, observation sequence | batch, targeted refresh, capture | late and lost observations | an older observation never undoes a newer one |
| tmux control connection (`daemon/tmux_control.rs`) | connection, backoff | connect, read, reconnect | lost events | an observation follows every reconnect |
| Status push (`daemon/status_push.rs`, `session_badge.rs`) | known values, dirty keys, batch in flight | trigger, flush, complete, shut down | a timed-out batch may have been applied | options converge to the latest values |
| Question notices (`question_notice/`, `workers/question.rs`, `mutations/question.rs`) | journal, probes, turn order | ingest, probe, order, resolve | results out of order, restart | an answered question does not come back |
| Capacity retries (`daemon/server/capacity.rs`) | chain per pane | detect, schedule, resend, cancel | a human prompt races the resend | at most one resend pending per pane |
| Task summaries (`daemon/task_summary.rs`) | queue (64), cache | request, complete | late results | a result is applied to the task it was asked for |
| View hooks (`daemon/view_hooks.rs`) | tmux hook slots | install, verify, remove | foreign hooks in the array | only owned slots are touched |
| Categories (`category/`) | configured, dynamic and assigned categories, one file | intents, reload, save | reload between two requests, failed save | repositories are partitioned; an intent moves only what it names |
| Sidebar (`sidebar/`, `mutations/sidebar.rs`, `cli/sidebar.rs`) | rows, preferences, selection, windows with a sidebar pane | project, navigate, open, close, toggle | several sidebars and commands, daemon restart | a key acts on the row that was drawn; a content pane is never closed |
| Agent store (`agent_state/store.rs`) | files and the metadata of a generation | open, replace, reset offline | interruption between two files | one generation; no active Run is lost |
| Codex resync (`daemon/workers/codex_resync.rs`) | cursors into rollout files | read a slice, decide | truncation, replacement, append | a session called idle is idle |
| Agent API (`api/agent/`, `cli/agent_request.rs`) | request-state file | send, start, request, wait | pane changes between check and keys, killed and repeated commands | what is reported is true; an Operation is started once |
| Hook client (`hook/`, `cli/hook.rs`) | none | prove the pane, send one frame | respawned pane, dying process | an event is applied once, to the agent's own pane |
| Sessions (`session/`, `session_manager/`) | last session per client and category | cycle, switch, create, kill, Kill Server | other clients in between | a switch lands in its category; Kill Server leaves nothing |
| Protocol, statusline, windows, config, detection, git, conversation | none of their own, or external | parse, format, run tmux | - | - |

## 2. Plan

The order was: what loses or repeats a user's work first.

1. `DispatchContract`, `PromptDispatch`, `PromptDispatchProofs`: modelled, checked, proved.
2. `RunLedger`, `RunLedgerProofs`: modelled, checked, proved.
3. `RunEvidence`, `StoreReset`, `SurfacesProofs`: what is on disk and how it is replaced.
4. `DaemonLifecycle`, `DaemonLifecycleProofs`, `ActiveConfig`: who may run a daemon.
5. The daemon's threads: `MutationQueue`, `StatusPush`, `SnapshotStream`, `TmuxControl`,
   `PaneViews`, `PaneSwitch`, `ViewHooks`, `CaptureWorkers`, `CodexResync`, `TaskSummary`,
   with `DaemonViewProofs` and `DaemonCoreProofs` about all but the captures.
6. The agents: `PaneReducer`, `PaneSignals`, `QuestionNotices`, `QuestionResolver`,
   `CapacityRetry`, `HookDelivery`, with `AgentsProofs` about them.
7. The processes around the daemon: `AgentInput`, `PromptClient`, `SidebarTui`, `Sessions`
   (which also has the session manager's Kill Server), with `ClientsProofs`.
8. What is shown: `Categories`, `SidebarRows`, `SidebarLayout`, `LayoutCells`.

Left: section 5 says which properties are proved and which are only checked; the next
theorems are there. A write that reports a failure after its rename
(`agent_state/store.rs:1483`) has no model yet.

## 3. Modules

A module is one component: constants with their assumptions, variables, `Init`, one
action per handler or step, a next-state relation, a specification, its fairness and its
properties. What the mutation worker does without waiting is one action, since there is
one such worker (`MutationQueue` is the model of that rule; the modules of 1, 2, 3, 6
rely on it). Where a handler writes two files, waits for a process or gives up a lock,
it is cut there: the points where a crash or another actor can fall in are steps, or
outcomes of the action.

### PromptDispatch, DispatchContract

`DispatchContract` is what `AGENT_API.md` promises a caller: the state of each
Operation, and how often its prompt was delivered. `PromptDispatch` is the code:
disk (`ops`, `prompts`, `runs`, `pane`), daemon memory (`fence`, `worker`), tmux
(`tmux`, `sent`), the provider (`agent`, `turns`) and the hooks in flight. The prompt
handler waits for a tmux client, so it has its own program counter (`worker`):
`prepare_operation`, `mark_dispatch_started`, the dispatch and `settle_dispatch` are
separate steps. A tmux client that was spawned may run after the daemon died. `Boot` and
`BootDone` are `AgentRuntime::open` (`rebuild_indexes`,
`reconcile_in_flight_after_restart`).

### RunLedger

One pane with its agent. The run records, the two indexes of `AgentRuntime`, the
pane record and the hooks in flight; the actions are the hooks
(`apply_provider_observation`, then the pane write), a session or epoch change,
the operator's read and resolve (`resolve_operator_completed`, with the digest
and the pane fence it read before), crash and restart
(`reconcile_panes_after_restart`). A Run that was saved when the pane write fails is an
outcome of the hook's action.

### RunEvidence, StoreReset

`RunEvidence` is what a Run record remembers. `Saves` is the store's replacement rule
(`validate_run_replacement`, `validate_evidence_replacement`);
`append_provider_reference` rotates at the limit; a Stop with an answer is
`finish_provider_observation` with the steps of `store_artifact_candidate`
(evict, expire, write the body, write the record), any prefix of which a crash
or a failed write may leave. `Restart` is `cleanup_orphans` and the validation
on opening. `StoreReset` is the store as files: every write, unlink and rename of the
opening and of `vt agent storage reset` is a step, and each may be the last one.

### DaemonLifecycle, ActiveConfig

`DaemonLifecycle`: any number of `vt` commands and daemon processes around one tmux
server. A command is a program counter, and the accesses to shared state (marker, record,
socket, `.start.lock`, `.lock`, `.writer.lock`) are its steps. Every wait has a
deadline in the code, so `GiveUp`, `WaitDeadline` and `KillChild` may happen at any
time, and a probe may miss a daemon that is there. Comparing a socket's
identity and unlinking it are two adjacent system calls and one step here, as is
an update of the record, which has its own lock. Process liveness (`Alive`) is
exact, as the code compares start tokens. `off` is a history variable: a disable
has succeeded, and no enable overlapped or followed it. Health, generation and
error text of the record decide nothing modelled here and are left out; so are
the tmux view hooks, whose removal is taken to succeed. `ActiveConfig` is
`require_active_config`, by which a command obtains the configuration it may act on.

### The daemon's threads

| Module | State | Actions |
| --- | --- | --- |
| `MutationQueue` | router lock, bootstrap FIFO, bounded queue, waiters, phase, shutdown flag | routing in its steps, the worker, sidebar jobs and their deferred answers, three kinds of stopper |
| `StatusPush` | canonical frame, recorded values, dirty keys, batch, tmux options | trigger, render, batch with any part applied, failure, dead panes, stopped marker |
| `SnapshotStream` | revision, cached snapshot, streams, wire, subscriber | two publishers, heartbeats, stream limit, reconnect |
| `TmuxControl` | supervisor, connections by generation, channel, callers | connect, sync, one command at a time, deadline, reader, backoff, shutdown |
| `PaneViews` | observations in flight, leases, unread panes, topology | observe, poll, jump, read, reconcile, replace |
| `PaneSwitch` | window geometry, two control commands | capture, guarded select, the user's changes in between |
| `ViewHooks` | refresh generation and running flag, tmux hook slots | deliver with three attempts, bump, claim, refresh; install, monitor, remove |
| `CaptureWorkers` | pending keys, groups, budget, probes | ask, group, cut, capture, assemble, probe |
| `CodexResync` | rollout files, cursors | append, truncate, replace, read a slice, decide |
| `TaskSummary` | contexts, debounced jobs, spinners | prompt, ask, run, answer, lose |

### The agents

| Module | State | Actions |
| --- | --- | --- |
| `PaneReducer` | one pane record, run tracker, background work, helpers | each hook event and observation of `pane_state/reducer.rs`, in any order |
| `PaneSignals` | record version, history, attention list, notification job, snapshot file, `agent wait` | record change, drain, poll, write, wait |
| `QuestionNotices` | orders, replies, acknowledged prefix, sidecar file | ingest, reply, acknowledge, save with a torn marker, restart |
| `QuestionResolver` | journal and its lock, candidates, samples | hook, prompt, turn order, two samples, acknowledgement, deadline |
| `CapacityRetry` | chain of one pane, turn, screen, person | detect, schedule, tick, resume, cancel |
| `HookDelivery` | hook process, pane, agent, daemon | prove, connect, send, retry, die |

### The processes around the daemon

| Module | State | Actions |
| --- | --- | --- |
| `AgentInput` | a call, the pane, its process, what was typed | resolve, verify, guarded command, verify again, the advice followed |
| `PromptClient` | commands, lock, request-state file, Operations | each file operation, start, poll; killed anywhere |
| `SidebarTui` | two sidebars, the daemon's shared part, channels | one turn of the loop, worker threads, daemon restart |
| `Sessions` | sessions, clients, memory per category; Kill Server, process groups, servers | each command as its sequence of tmux calls; the escalation from SIGTERM to `kill-server` |

### What is shown

`Categories` (intents, reloads, the saved file) and `SidebarRows` (`project_sidebar`,
written as one expression over panes, categories and view). `SidebarLayout` is the
commands and hooks that open, prepare and close sidebar panes, `LayoutCells` the
stretching of a tmux layout, checked on every layout of a family. The code recurses into
the layout; the model walks it by depth, up to `MaxNested`.

## 4. Runs

Small instances; each bound names the case it is large enough for.

| Run | Instance | Checks |
| --- | --- | --- |
| `dispatch` | 2 Operations on one pane, 1 prompt, 1 crash, 1 failed write; or 1 Operation, 2 prompts, 2 turns, 2 sessions, 1 crash | `TypeOK`, `AtMostOnce`, `RejectedNotSent`, `FenceMatchesStore`, `StoreReopens`, `ConfirmedByRun`, refinement `ImplementsContract`, liveness `EverythingSettles` |
| `ledger_ordered` | 3 turns, 2 sessions, 3 epochs, 5 hooks in order, 1 crash | `TypeOK`, `DoneMeansInactive`, `PaneShowsRun`, `OperatorSawIt` |
| `ledger_reordered` | 2 turns, 2 sessions, 2 epochs, 4 hooks in any order, 1 crash, 1 failed pane write | `OneActiveRun`, `ActiveIsCurrent`, `SequencesUnique`, `OutcomeFinal` |
| `lifecycle_commands` | 2 concurrent commands, 3 in all, of all 7 kinds, 2 daemons, 1 killed process | `TypeOK`, `ReachableDaemon`, `ReloadHonorsDisable`, `StoppedIsStopped` |
| `daemon_core` | the ten modules of the daemon's threads, one at a time | `WorkSound`, `ViewSound`, `FocusSound`, `CoreSteps`, liveness `CoreSettles` |
| `agents` | the six modules of the agents, one at a time | `PanesSound`, `ReportsSound`, `AgentSteps`, liveness `AgentsSettle` |
| `clients` | the six modules of commands and sidebars, one at a time | `CommandsHonest`, `SessionsHonest`, `ClientsStep`, liveness `ClientsSettle` |
| `surfaces` | categories, rows, layouts, the store and run evidence, one at a time | `SidebarsSound`, `CategoriesKept`, `FilesSound`, `SurfacesStep`, `AnswerFinal`, liveness `LayoutSettles` |

Two Operations are enough for the races of the fence, which holds one Operation
per target; two sessions for a rollover; one crash at every possible point for
each recovery path, since a recovery leaves a state that a run without the crash
can reach; two turns for every pair of hooks that can overtake each other, three
where a middle one matters. Two commands see every interleaving of a check
and the change it misses; the third gives them a daemon to begin with.
Turns (and commands, daemons) are interchangeable, and symmetry is used in runs
without liveness properties. Deadlock is not checked: bounded environments stop.

`CategoriesKept` is about a category file that cannot be saved. The daemon reverts to what it had and
says so, but a failed save may have replaced the file before it failed. The ghost `ahead` keeps
the states that were reported as not saved; what the daemon shows and what it acknowledged must still
be the last state it reported as saved, and the file must hold that state or one of `ahead`. A restart
reads the file, so the property says what a restart may bring back: `OnlyWhatIsNamed` allows a
request reported as failed to come back with it, and nothing else.

**The runs with several modules.** The modules of `MCDaemonCore`, `MCAgents`,
`MCClients` and `MCSurfaces` share no variable, so a product of their behaviours would
show nothing more than each alone. The variable `part` is chosen in the initial state;
only that part takes steps, and every property is that of the part that runs
(`WorkSound` is `QueueSound` of `MutationQueue` when the queue runs, and so on; a module's
own properties are defined in it). The bounds in the four `.cfg` files are at most 2 actors of
a kind, queues of 1 or 2 places and one or two faults, so that a queue is full, a budget
is used up and a limit is reached by behaviours of a few steps. The MC modules narrow
some parts further and say so in a comment: one question and a fault or two
questions without one (`AskingStep`, `FaultStep`), the first command from the first
caller (`RequestStep`, `SessionStep`), one prompt where only the deadline matters
(`DeadlineStep`), two happenings after both sidebars have started (`SidebarStep`), two
commands over windows (`LayoutStep`), three changes before a projection (`RowsStep`), one crash or
failed write (`EvidenceStep`). In `PaneViews` one
pane is the editor of the other (`MCProxies`), so focus on it reads both. With one artifact file in `RunEvidence` every second answer
evicts, and with two references a third event of a turn finds no room. `LayoutCells` starts from
every layout of two families and checks the one operation on each.

Four runs expect a violation; each shows a place where the code does not do what a doc or a test
says, and `PROJECT.json` quotes the line.

| Run | Shows |
| --- | --- |
| `dispatch_lost_confirm` | a confirmation write that fails, then a session rollover: two Runs carry one `operation_id` and the store refuses to open |
| `evidence_rotates` | a turn with as many prompts as there is room for references: the reducer rotates the oldest prompt out to record the Stop, as its test wants, the store refuses the shifted list (`agent_state/store.rs:1260`), and the Stop is lost with its Run active |
| `blocked_notified` | an agent with a durable Run enters Blocked: projecting the Run moves the record's version, and the notification queued for it is dropped |
| `sidebar_shared` | after a daemon restart running sidebars ignore its navigation revisions, which start from 0 again: two sidebars keep different selections |

Where a passing run and a violation run concern the same property, the passing
one leaves out exactly the cause: `dispatch` has `ConfirmFaults = FALSE`. The violation
run uses `AnySpec` of `MCPromptDispatch`, which is `Spec` with the part fixed.

### Further disagreements

These are stated in the modules and can be reproduced by putting the named property
into a copy of the `.cfg` (with the constant given).

| Property | Module, `.cfg` | What TLC finds |
| --- | --- | --- |
| `SequencesUnique` | `RunLedger`, `LedgerReordered` with `StartsUnbound = TRUE` | a crash after the first Run of an unbound pane: sequence 1 is used twice (`agent_state/runtime.rs:752`; the test at 3615 says it cannot be) |
| `DoneMeansInactive` | `RunLedger`, `LedgerReordered` | a late Stop shows `done` while the next Run is active (`pane_state/reducer.rs:1349`; `AGENT_API.md:135`) |
| `CapacityIdempotent` | `RunEvidence`, `Surfaces` | a repeated overload report is refused after a failed pane write (`agent_state/runtime.rs:652`; the test at 1509) |
| `DisabledStaysStopped` | `DaemonLifecycle`, `LifecycleCommands` | an ensure waiting for the start lock starts a daemon after `disable` (`daemon/lifecycle.rs:989`; `README.md:649-650`) |
| `RepositoriesOnce` | `SidebarRows`, `Surfaces` | with a pinned agent its repository appears twice in the tree of all categories (`sidebar/tree.rs:548-628`; the test at 2790) |
| `NeighboursCanMove` | `Categories`, `Surfaces` | two adjacent repositories that cannot be exchanged because an unseen one is between them (`README.md:310`) |
| `KeysReachTheAgent` | `AgentInput`, `Clients` with `MaxChanges = 4` | the snapshot of a `steer` lists a program other than the agent in the foreground, and the guard lets the keys go to that program (`AGENT_API.md:465`, "foreground input-owner fences") |
| `AdviceNeverRepeats` | `AgentInput`, `Clients` | a caller that follows the advice of every error types its prompt twice |
| `OnlyPeopleStart` | `CapacityRetry`, `Agents` | a chain of resumes that no person's prompt started |
| `HistoryLostMeansDropped` | `PaneSignals`, `Agents` | `agent wait` fails with `event_history_lost` though no event was dropped |
| `LimitedEnds` | `PaneReducer`, `Agents` | an agent whose process has exited stays Limited |
| `DeadlinesReported` | `MutationQueue`, `DaemonCore` | a serving daemon whose timeout worker has ended |
| `PeekKeepsUnread` | `PaneViews`, `DaemonCore` with `MaxWork = 3` | a peeked pane is read although its user never chose it |

### Hazards covered in part

Two hazards of `PROJECT.json` have a wider reading than the properties listed with them.
`ReloadHonorsDisable` is about a reload that waits for the start lock; an ensure that waits there does
start a daemon after a disable (`DisabledStaysStopped` above), so the ensure path is not covered by a
passing property. Of the control connection (`daemon/tmux_control.rs:203`) the properties cover that a
caller gets its own answer, that every caller is answered, and that a stop leaves no client
behind. Notifications lost while it is down are made up by the next full
observation, which the model of the views takes at any time and for any reason; that such an observation
follows a reconnect is not modelled.

### Fairness

`EverythingSettles`: weak fairness of the prompt handler (its tmux client has a timeout),
of the passing of the deadline, of the timeout mutation
(`start_agent_prompt_timeout_worker` polls) and of the restart (any client that finds no
daemon starts one). Nothing is assumed of the provider, of tmux or of the callers.

Every module that states liveness has a fairness of its own (`MqFairness`, `SpFairness`,
`TcFairness`, ...): its threads run and its timers fire; of clients, ticks, signals, tmux and
models nothing is assumed. The exceptions are in `StatusPush`, where a batch does not fail
for ever (strong fairness: the code retries after every failure, and a tmux that never
answers shows nothing), and `SnapshotStream`, where a subscriber that tries to connect
again and again meets a free stream. In the runs with several modules the same
conditions are guarded by the part (`WF_mqVars(part = "queue" /\ Bootstrap)`), which says the same
of the part that runs and is cheaper to check.


## 5. Proofs

The theorems hold for every value of the constants that satisfies the named assumptions
of the modules; where one needs more, its statement says `ASSUME` and this section why.

### PromptDispatchProofs

Without further assumptions: `TypeCorrect`, `DispatchInvariant`, the invariants
`DeliversAtMostOnce`, `RejectedMeansNotSent` and `FenceIsTheStores`, and `Refinement`
(`Spec => ImplementsContract`).

`AtMostOnce` is not inductive: a state in which an Operation is `Prepared` while a
tmux command for it is running satisfies it, and its next step does not. The
inductive invariant says who may hold what:

* `ClientsAreStarted` - a tmux client exists only for an Operation whose
  `dispatch_started` is durable, a rejected Operation has none that can still run,
  and `sent` counts the clients that ran;
* `HandlerKnows` - what the handler believes about its Operation is what the disk says;
* `FenceExact` - the fence of a daemon in memory is exactly the set of outstanding
  Operations on disk, and no target has two;
* `BodiesPresent` - an in-flight Operation has its prompt body.

The argument first shows that every action either leaves the dispatch state of all
Operations alone or moves one of them along an edge of the contract
(`CoreStutters`, `CoreMoves`), with one lemma per handler (`SettleStep`,
`ConfirmStep`, `HandlerStep`, `DispatchStep`, ...) and one for the restart, where
several Operations move at once. The same lemmas give the refinement.

The links are about the two files a prompt hook writes, the Run and then its
Operation. `ConfirmedHasItsRun` and `StoreAlwaysReopens` are proved under
`ConfirmsAtOnce`: the second write does not fail by itself. That is the exact condition:
with it left out, the run `dispatch_lost_confirm` shows `StoreReopens` violated. A crash
between the two writes is allowed. The core of `LinkInv` is `UpConfirmed`: a linked but
unconfirmed Operation exists only while no daemon serves, since `Boot` confirms what it
finds linked before it serves; so the Operation that a serving daemon confirms has no
Run yet (`OneLink`).

### RunLedgerProofs

With hooks lost, late, repeated or out of order, crashes and failed
pane writes: `LedgerTypes`, `AtMostOneActive`, `ActiveIsFound`, and the action
properties `OutcomesStay` and `OperatorCompletesWhatItSaw`. `OneActiveRun` is not
inductive: a Stop that ends a Run by an index that does not point to the active one would leave two after the
next prompt. `LedgerInv` says that the active Run is the last of its binding, and that
the pane's binding has it if any has (`ActiveIsLast`, `ActiveOfPane`); that the ledger is at most
one Run ahead of the pane (`AtMostOneAhead`); that the indexes of a serving daemon
reach every Run the pane has not counted yet (`IndexOk`, `Reaches`); and that a
precondition an operator holds names a Run that has only moved on (`TokenOk`). One lemma
per handler shows the records of a step as `Grown`, `Moves` or `Silent`.

`SequencesOfBoundPane` assumes `~StartsUnbound`. A pane that was found without a binding
can get sequence 1 twice (section 4), so the condition is needed.

The theorems of the last part assume `Ordered`: hooks are handled in the order the provider sent
them, the pane is bound when it is found, and no pane write fails. Crashes and restarts are
allowed. Then `PaneShowsItsRun` and `DoneIsDone` hold. Each part of the condition is needed by
the code (`DoneMeansInactive` above fails when hooks overtake each other).
`OrderInv` describes the queue (a turn's prompt before its Stop, `QueueOk`), which Run the
next hook can be about (`LastOfPane`), and how far the pane may lag behind the
ledger between the two writes of a handler (`Lag`, `Shows`).

### DaemonLifecycleProofs

Without further assumptions, for any sets of commands and daemons, so for any
number of both, any number of kills, and every deadline passing at any time: `LifecycleTypes`,
`UpIsReachable`, `StopsAreComplete`, `ReloadStaysOut`. These are all properties of the
run `lifecycle_commands`.

`SocketInv`: from bind to return a daemon holds the instance lock (`LockHeld`) and until
it unlinks its socket the path is its own (`SocketKept`); a command that is about to
remove a stale socket holds that lock (`StaleGuarded`), and a command that is about to
reap or unlink has seen its process dead, which is final (`ReapsTheDead`). `ModeInv`: a disable
holds the start lock from its first change on (`DisableHolds`); a reload that can still
start a daemon holds that lock and has yet to read the marker again (`ReloadHolds`);
after a successful disable the marker stays set (`OffHolds`), because only an enable
comes to unset it (`OnlyEnableUnsets`).

### SurfacesProofs

`FilesAreSound` is `FilesSound` of the run `surfaces` for any numbers of turns, answers,
references, files, records and reset commands. `AnswersAreFinal` is its action property about the record of a run.

A handler writes several files, so the proof is about disks and not about states:
`DiskGood` says of one disk that its records have their type, that a record with an
artifact has seen the Stop with that answer, and that the files match and are few enough;
`Later` relates it to the disks that can follow. Each lemma shows that one write (a
record, a body, an eviction in its order, the removal of runs) leads from a good disk to
a good later one. A crash or a failed write then leaves one of these disks
(`Died`, `Lived`), whichever it is. `EvidenceInv` adds that a serving daemon knows every
run on disk (`KnowsAll`), which is why a new run never overwrites another. The
first write of a Stop is good because the retried answer is compared with the remembered
one (`Answered`).

`StoreInv` (`StoreReset`): whoever works on the files holds the instance lock (`LockHeld`); before
the first metadata there is no record (`FreshIsEmpty`); and a reset that clears has found
nothing active and made the store unusable first (`ClearsAtRest`). The last makes
`NothingActiveLost` inductive although the reset is killed between any two unlinks.

### DaemonViewProofs, DaemonCoreProofs

Three of the four safety properties of `daemon_core`, and all of the fourth but the capture worker. The modules the run composes share
no state, so each has its own invariant, and the steps of the daemon are steps of the
part that runs (`StreamPart`, `ControlPart`, `PushPart`, ...).

`ViewIsSound`, for any finite sets of sessions and panes, any callers and any bounds that are
numbers, combines `StreamKeeps`, `AnswersAreOwn` and `DisplayKeeps`:

* `SnapshotStream`, `SsInv`: what was built outside the cache lock is not newer than the
  canonical state (`CacheBehind`), and the frames on an open connection are of the process
  it was made to and not newer than its cache (`FramesBehind`).
* `TmuxControl`, `TcInv`: tmux is given one command at a time, so every word of the present
  connection that is still in the pipe or the channel is about the command in progress
  (`OfCommand`), and nothing follows the end of its block (`EndIsLast`); when the supervisor
  is ready for the next command there is no such word (`Silent`). Lines of older
  connections carry their generation and are skipped.
* `StatusPush`, `SpInv`: `RecordedIsShown` is not inductive without `PushOk`: a batch in
  flight is exactly what differs, because nothing changes what is wanted while the driver
  lock is held, so its end settles every key it wrote or leaves it dirty (`CompletedOk`).
  A state in which a difference is neither in flight nor pending is one whose revision is
  still to be pushed (`Settled`). Only dead targets that the daemon has not forgotten take
  the revision beyond its bound (`RevisionsCounted`).

`CoreStepsHold` and `FocusIsSound`, for any sets of clients, panes, events and slots:

* `PaneViews`, `PvCore`: the numbers of observations only rise (`NumbersRise`); what an
  observation in flight saw has been seen (`LooksRemembered`); while a peek its user did not
  leave is active, every observation numbered after its last decisive one shows the target
  (`PeeksHold`). The last makes the reason for ending a peek provable although
  observations are applied in any order: one that could end it for showing the source
  was numbered before the jump.
* `ViewHooks`, `VhInv`: the running flag is up exactly while one thread refreshes
  (`FlagHeld`); a thread that may leave without another query has shown all that was counted before
  it loaded the generation, and a finished handler's event is shown or has a
  thread that is still there (`CountedShown`).
* `PaneSwitch`, `PsInv`: a prepared target is the neighbour (`Chosen`) and stays it while
  the window changes, since a layout is fixed and panes only become hidden
  (`HidingKeepsChoice`). That the best of the candidates exists is `OneIsFirst`; that a pane in
  between has the smaller gap is `BetweenIsCloser`, where widths are positive.

`FocusIsSound` assumes `NoProxyChains`: a pane that is the editor of an agent's prompt is not
an agent with an editor of its own. `focus_proxy_target` follows one link and does not
forbid two; with two, a new occurrence on a pane two links away from the focus is read at once
(`unread_visibility_for_event`), which `ReadWasFocused` does not allow. The property `PeekEndsForAReason` names the panes that
focus on the target shows: a peek also ends when its target's proxied pane is read, which
TLC shows with two clients and one proxy.

`WorkPartsAreSound` is the part of `WorkSound` that is proved: `QueueIsSound`, `SummariesAreSound` and
`ResyncIsSound`, for any numbers of clients, panes, files, turns, requests and faults.

* `MutationQueue`, `MqInv`: the FIFO and its batch are used before the bootstrap is over and the queue after
  (`QueuesInTurn`); numbers rise from what was applied through the mutation at work, the batch, the FIFO and the
  queue (`NumbersInLine`); whoever waits for a number has an answer ahead of it, wherever that mutation lies
  (`ClientsServed`, `Awaited`), and whoever stops has set the flag (`StoppersFlagged`), so the last
  sweep misses nobody.
* `TaskSummary`, `SumInv`: jobs and summaries in the channels are about contexts the pane had (`SumAbout`), and a key
  that is requested has its job in the channel, at the debouncer or at the model, or its result
  on the way, as long as no completion was lost (`Tracked`, `AskedFor`).
* `CodexResync`, `ResyncInv`: a cursor of the present file that has not read past its end is what a fresh reading of
  the same prefix gives (`CursorFits`, `ReadTo`), and a file is written turn by turn (`WellWritten`). So a
  verdict of an old cursor is true of the file, and a file that was cut or replaced is seen
  by its inode or its length.

### AgentsProofs

All safety properties of the run `agents`, for any panes, calls with any numbers of questions, hook
processes and bounds: `PanesAreSound` (its parts are `ReducerIsSound` and `SignalsSpeakTruly`), `ReportsAreSound` (`QuestionsAreKept`,
`RetriesAreBounded`, `HooksDeliverOnce`) and `AgentsKeepTheirWord` (`AwaitedResultsHoldTheRun`,
`AcknowledgesOnlyAnswered`, `ResumesAnswerTheFailure`).

* `QuestionNotices`, `NoticesInv`: `FileGood` and `MemoryGood` say the same of the notices in the
  file and in memory (`BackedIn`): the order a call was given has a tracked question behind it or an
  answer, and whatever lies below the acknowledged order was answered or asked for. Only the
  file owes what was promised (`promised`, `told`); memory owes it as long as its last commit is known to be
  durable, since a torn commit leaves a marker in the file and the next start reads that file.
* `CapacityRetry`, `CapInv`: three resumes at most is not inductive. A chain that may still send has
  counted every resume since the last prompt (`ChainCounts`); a paste still lying in the pane
  belongs to a chain that sends no second one (`OnePaste`); what the daemon has seen is not
  ahead of Codex (`DaemonBehind`).
* `PaneReducer`, `ReducerInv`: what is saved and shown is a pane the reducer's check accepts (`KeptPane`), and a poll
  that missed the agent is counted in the tracker until it is away.
* `PaneSignals`, `SignalsInv`: the record in memory and the one on disk are good and not newer than what happened
  (`RecGood`, `PastGood`); what a notification or a wait refers to lies in that past (`OpenSince`, `WaitGood`).
* `QuestionResolver`, `ResolverInv`: a hook that has journaled a question, or reported it, vetoes the
  policy until the daemon knows it (`UnsettledVetoes`); what is recorded as answered was proven from the order of
  turns in the transcript (`ResolvedAreProven`, `TurnsInOrder`).
* `HookDelivery`, `HookInv`: `ProcGood` relates one process, its connection and what the daemon took
  from it; a whole frame is on the connection only at the steps that wait for the answer.

### ClientsProofs

`CommandsAreHonest`, `SessionsAreHonest` and `NoStepHarms` are the three safety properties of the
run `clients`, for any sets of commands, sidebars, panes, clients, sessions and process groups,
and any number of calls, faults and restarts. Each part has an invariant of its own:

* `ActiveConfig`, `AcInv`: `GrantedIsActive` needs that versions rise (`VersionsRise`), that whoever is past the
  start lock holds it (`LockHeld`), and that under the lock the answer of the daemon is still true of it (`Asked`).
* `PromptClient`, `ClientInv`: what a process knows of the request file is what the file says, whoever else comes
  (`ProcsFit`); the Operation of the file is the only one that can be started (`OpsFit`); a
  command generates one identifier at most (`Counted`), so no two Operations share one.
* `AgentInput`, `InputInv`: `KeysFit` counts what a call typed at each of its steps and what tmux still
  holds of it; `ReachFits` says that keys which missed the call's process met a pane that will never run that
  process again, which is why the verification after the keys is enough.
* `SidebarTui`, `SbInv`: a screen that will not be drawn again shows the rows the next key is read against
  (`OnScreen`); a question is acknowledged up to an order that was drawn (`Queues`, with `seen`); a category
  answered as saved is one the daemon saved (`CatAnswer`). One lemma per function of the
  loop's turn (`TakesSnapshot`, `SeedsOnce`, ...) says which fields it leaves alone.
* `Sessions`, `SessInv` and `KillInv`: a command that kills sessions has no row of one it spares and moves its
  clients to such a one first (`KillFits`); the escalation knows of every group whether it is dead or still on its
  list (`KillerKnows`), and kills the server whose identity it verified.

### Only model-checked

* `EverythingSettles`, `CoreSettles`, `AgentsSettle`, `ClientsSettle`, `LayoutSettles`:
  liveness under fairness is outside what the prover does.
* `CapturesSound`, the part of `WorkSound` about the capture worker: that every request gets its own screens, in
  order, from calls that were cut to the budget is a statement about folds over sequences of sequences.
* `SidebarsSound`, `CategoriesKept` and `SurfacesStep`: what they say of the order of repositories, of rows and of layouts rests on
  folds and filters over sequences and on the nesting of cells, which takes induction over data.

## 6. Not modelled

The components marked `not_modelled` in `PROJECT.json`, with the reason: the runtime
projection and its queries, which only read; configuration, detection, git and conversation, which parse
external state. In the modelled ones: byte limits, truncation and digests (a body is an
abstract value compared for equality), file permissions and symlink checks, wall-clock
order, framing of messages, diagnostics and wording, the text of options, prompts and
summaries. A failed write is taken to have had no effect, except in
`QuestionNotices`, whose journal distinguishes a commit that is not known to be durable; a
directory sync that fails after the rename (`agent_state/store.rs:1483`) is listed as a
hazard without a property. In `SidebarTui` the peek, read and jump keys, Esc and q are
left out, in `Categories` the recognition of a repeated event id
(`daemon/server/mutations/sidebar.rs:227-240`), since no client sends one twice (`sidebar/client.rs:174-214` and
`api/category.rs:144` make a new id for every request), in Kill Server (`Sessions`) the reuse of a process group number, in `DaemonLifecycle` the
automatic configuration reload.
