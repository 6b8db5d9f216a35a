-------------------------- MODULE DaemonLifecycle --------------------------
(***************************************************************************)
(* Who runs the daemon of one tmux server.  Any number of `vt` commands    *)
(* (ensure, stop, disable, enable, reload) and daemon processes share a    *)
(* socket path, three file locks, the lifecycle record and the tmux option *)
(* that marks the server as disabled; none of them sees the others except  *)
(* through these.                                                          *)
(*                                                                         *)
(* A command is a process with a program counter; what it does between two *)
(* accesses to shared state is one action.  Every wait has a deadline, so  *)
(* it may be given up at any time, and every probe may time out although a *)
(* daemon is there.  An update of the lifecycle record runs under its own  *)
(* lock and is atomic; comparing a socket's inode and unlinking it are two *)
(* adjacent system calls and atomic here.  Killed processes lose their     *)
(* locks and leave their files.                                            *)
(***************************************************************************)
EXTENDS Naturals, FiniteSets

CONSTANTS
    Client,     \* slots for vt commands that run at the same time
    Daemon,     \* daemon processes that can ever be started
    None,
    Command,    \* the commands in use
    MaxCommands,\* bound on commands ever run
    MaxDeaths   \* bound on commands interrupted and daemons killed from outside

Commands == {"ensure", "start", "stop", "force", "disable", "enable", "reload"}

ASSUME ConstantsAssumption ==
    /\ Client \cap Daemon = {} /\ None \notin Client \cup Daemon \cup Commands
    /\ Command \subseteq Commands
    /\ MaxCommands \in Nat /\ MaxDeaths \in Nat

VARIABLES
    marker,    \* tmux: is the disabled option set?
    record,    \* disk: the lifecycle record's desired mode and process
    socket,    \* disk: the daemon whose socket is at the path
    startLock, \* flock: .start.lock
    instance,  \* flock: the socket's .lock
    lease,     \* flock: .writer.lock
    daemon,    \* each daemon process: where it is
    client,    \* each command: what it runs, where it is, what it remembers
    off,       \* history: a disable succeeded, and no enable overlapped or followed it
    commands, deaths

files == <<marker, record, socket>>
locks == <<startLock, instance, lease>>
vars  == <<files, locks, daemon, client, off, commands, deaths>>

DaemonStep == {"unborn", "spawned", "leased", "bound", "live", "serving", "stopping",
               "unlinked", "cleared", "returned", "done", "exited"}
ClientStep == {"idle", "read_marker", "read_mode", "probe", "lock", "probe_again", "guard", "held",
               "stale", "spawn", "child", "reap_socket", "reap_record", "await_serving",
               "expect", "ask", "wait", "stuck", "kill", "unlink", "clear",
               "set_marker", "set_mode", "unset_marker", "unset_mode", "undo_mode"}

TypeOK ==
    /\ marker \in BOOLEAN
    /\ record \in [mode : {"Enabled", "Disabled"}, process : Daemon \cup {None}]
    /\ socket \in Daemon \cup {None}
    /\ startLock \in Client \cup {None}
    /\ instance \in Client \cup Daemon \cup {None}
    /\ lease \in Daemon \cup {None}
    /\ daemon \in [Daemon -> DaemonStep]
    /\ client \in [Client -> [cmd : Command \cup {None}, at : ClientStep, saw : Daemon \cup {None},
                              child : Daemon \cup {None}, answer : {"none", "no", "yes", "error"},
                              stage : 0..2]]
    /\ off \in BOOLEAN /\ commands \in Nat /\ deaths \in Nat

Idle == [cmd |-> None, at |-> "idle", saw |-> None, child |-> None, answer |-> "none", stage |-> 0]

Init ==
    /\ marker = FALSE /\ record = [mode |-> "Enabled", process |-> None] /\ socket = None
    /\ startLock = None /\ instance = None /\ lease = None
    /\ daemon = [d \in Daemon |-> "unborn"]
    /\ client = [c \in Client |-> Idle]
    /\ off = FALSE /\ commands = 0 /\ deaths = 0

-----------------------------------------------------------------------------
(* A daemon process (run_daemon).                                           *)

Alive(d) == d \in Daemon /\ daemon[d] \notin {"unborn", "exited"}

(* A probe can find a daemon that accepts connections on its socket. *)
Answers(d) == d \in Daemon /\ socket = d /\ daemon[d] \in {"live", "serving", "stopping"}

DaemonAt(d, from, to) == daemon[d] = from /\ daemon' = [daemon EXCEPT ![d] = to]

(* A process that is gone holds no lock. *)
Without(lock, p) == IF lock = p THEN None ELSE lock

(* LeasedCanonicalPaneStateRuntime::acquire: one try. *)
AcquireLease(d) ==
    /\ \/ lease = None /\ lease' = d /\ DaemonAt(d, "spawned", "leased")
       \/ lease # None /\ DaemonAt(d, "spawned", "returned") /\ UNCHANGED lease
    /\ UNCHANGED <<files, startLock, instance, client, off, commands, deaths>>

(* bind_daemon_listener. *)
BindListener(d) ==
    /\ \/ /\ instance = None /\ ~Alive(socket)
          /\ instance' = d /\ socket' = d /\ DaemonAt(d, "leased", "bound")
       \/ /\ instance # None \/ Alive(socket)
          /\ DaemonAt(d, "leased", "returned") /\ UNCHANGED <<instance, socket>>
    /\ UNCHANGED <<marker, record, startLock, lease, client, off, commands, deaths>>

(* initialize_runtime_daemon_post_bind: record the process, or take the    *)
(* socket away again and fail.                                              *)
PostBind(d) ==
    /\ \/ /\ DaemonAt(d, "bound", "live") /\ record' = [record EXCEPT !.process = d]
          /\ UNCHANGED <<socket, instance>>
       \/ /\ DaemonAt(d, "bound", "returned") /\ socket' = Without(socket, d)
          /\ instance' = Without(instance, d) /\ UNCHANGED record
    /\ UNCHANGED <<marker, startLock, lease, client, off, commands, deaths>>

(* bootstrap_v2_runtime; a failure or a signal leads to the same cleanup. *)
Bootstrap(d) ==
    /\ DaemonAt(d, "live", "serving")
    /\ UNCHANGED <<files, locks, client, off, commands, deaths>>

Stops(d) ==
    /\ DaemonAt(d, "live", "stopping") \/ DaemonAt(d, "serving", "stopping")
    /\ UNCHANGED <<files, locks, client, off, commands, deaths>>

(* RuntimeDaemonCleanup: its own socket, then its own entry in the record;  *)
(* a socket that is not its own ends the cleanup.                           *)
UnlinkSocket(d) ==
    /\ \/ /\ socket \in {d, None} /\ DaemonAt(d, "stopping", "unlinked") /\ socket' = None
       \/ /\ socket \notin {d, None} /\ DaemonAt(d, "stopping", "cleared") /\ UNCHANGED socket
    /\ UNCHANGED <<marker, record, locks, client, off, commands, deaths>>

ClearRecord(d) ==
    /\ DaemonAt(d, "unlinked", "cleared")
    /\ record' = [record EXCEPT !.process = Without(@, d)]
    /\ UNCHANGED <<marker, socket, locks, client, off, commands, deaths>>

(* run_runtime_daemon_server returns and drops the instance lock, ... *)
ReturnFromServer(d) ==
    /\ DaemonAt(d, "cleared", "returned") /\ instance' = Without(instance, d)
    /\ UNCHANGED <<files, startLock, lease, client, off, commands, deaths>>

(* ... run_daemon clears the record whatever process it names, ... *)
LastUpdate(d) ==
    /\ DaemonAt(d, "returned", "done") /\ record' = [record EXCEPT !.process = None]
    /\ UNCHANGED <<marker, socket, locks, client, off, commands, deaths>>

(* ... and the process exits, which frees the lease. *)
Exit(d) ==
    /\ DaemonAt(d, "done", "exited") /\ lease' = Without(lease, d)
    /\ UNCHANGED <<files, startLock, instance, client, off, commands, deaths>>

Gone(d) ==
    /\ daemon' = [daemon EXCEPT ![d] = "exited"]
    /\ instance' = Without(instance, d) /\ lease' = Without(lease, d)

Crash(d) ==
    /\ Alive(d) /\ deaths < MaxDeaths /\ deaths' = deaths + 1
    /\ Gone(d)
    /\ UNCHANGED <<files, startLock, client, off, commands>>

DaemonStepOf(d) ==
    \/ AcquireLease(d) \/ BindListener(d) \/ PostBind(d) \/ Bootstrap(d) \/ Stops(d)
    \/ UnlinkSocket(d) \/ ClearRecord(d) \/ ReturnFromServer(d) \/ LastUpdate(d)
    \/ Exit(d) \/ Crash(d)

-----------------------------------------------------------------------------
(* Commands.  At(c, from, to) moves command c; stage tells a repeated check  *)
(* from the first one, a failed enable that is being undone, and a disable   *)
(* that an enable overlaps.                                                  *)

At(c, from, to) == client[c].at = from /\ client' = [client EXCEPT ![c].at = to]

AtStage(c, from, to, n) ==
    client[c].at = from /\ client' = [client EXCEPT ![c].at = to, ![c].stage = n]

Unlocked(c) == startLock' = Without(startLock, c) /\ instance' = Without(instance, c)

End(c) == client' = [client EXCEPT ![c] = Idle] /\ Unlocked(c)

(* An error drops the locks and ends the command; enable first undoes what  *)
(* it did (rollback_failed_enable).                                         *)
Fails(c) ==
    IF client[c].cmd = "enable" /\ client[c].stage = 0
      THEN /\ client' = [client EXCEPT ![c].at = "set_marker", ![c].stage = 1, ![c].child = None]
           /\ Unlocked(c)
      ELSE End(c)

FirstStep == [ensure |-> "read_marker", start |-> "read_marker", reload |-> "read_marker", disable |-> "lock",
              stop |-> "expect", force |-> "expect", enable |-> "set_mode"]

Begin(c) ==
    /\ client[c].at = "idle" /\ commands < MaxCommands /\ commands' = commands + 1
    /\ \E cmd \in Command :
          /\ client' = [x \in Client |->
                IF x = c THEN [Idle EXCEPT !.cmd = cmd, !.at = FirstStep[cmd]]
                ELSE IF cmd = "enable" /\ client[x].cmd = "disable" THEN [client[x] EXCEPT !.stage = 1]
                ELSE client[x]]
          /\ off' = (off /\ cmd # "enable")
    /\ UNCHANGED <<files, locks, daemon, deaths>>

(* tmux_desired_mode, then read_lifecycle_record: two reads, and disabled   *)
(* by either ends the command.                                              *)
ReadMarker(c) ==
    /\ \/ ~marker /\ At(c, "read_marker", "read_mode") /\ UNCHANGED locks
       \/ marker /\ client[c].at = "read_marker" /\ End(c) /\ UNCHANGED lease
    /\ UNCHANGED <<files, daemon, off, commands, deaths>>

AfterMode(c) ==
    CASE client[c].cmd = "reload" -> <<"lock", "expect", "probe_again">>[client[c].stage + 1]
      [] client[c].cmd = "start" /\ client[c].stage = 0 -> "set_mode"
      [] OTHER -> "probe"

ReadMode(c) ==
    /\ \/ record.mode = "Enabled" /\ At(c, "read_mode", AfterMode(c)) /\ UNCHANGED locks
       \/ /\ client[c].at = "read_mode" /\ End(c) /\ UNCHANGED lease
          /\ \/ record.mode = "Disabled"
             \/ /\ client[c].cmd = "start" /\ client[c].stage = 0     \* already serving
                /\ Answers(socket) /\ daemon[socket] = "serving"
    /\ UNCHANGED <<files, daemon, off, commands, deaths>>

(* ensure_daemon_live_v2_for_incarnation_until_mode: a daemon that answers  *)
(* is enough; otherwise the start lock.  Only reload has a lock already.    *)
FoundLive(c, from) ==
    /\ client[c].at = from /\ Answers(socket)
    /\ client' = [client EXCEPT ![c].at = "await_serving", ![c].child = None]
    /\ instance' = Without(instance, c)
    /\ startLock' = IF client[c].cmd = "reload" THEN startLock ELSE Without(startLock, c)

Probe(c) ==
    /\ \/ FoundLive(c, "probe")
       \/ At(c, "probe", "lock") /\ UNCHANGED <<startLock, instance>>
    /\ UNCHANGED <<files, lease, daemon, off, commands, deaths>>

(* Mutant: the steps after the lock do not know about disable. *)
AfterLockPartial(c) ==
    CASE client[c].cmd = "reload"  -> "read_marker"
      [] client[c].cmd = "disable" -> None
      [] OTHER -> "probe_again"

AfterLock(c) ==
    CASE client[c].cmd = "reload"  -> "read_marker"
      [] client[c].cmd = "disable" -> "set_marker"
      [] OTHER -> "probe_again"

(* For disable, a history: does an enable overlap it? *)
LockStage(c) ==
    CASE client[c].cmd = "reload"  -> 1
      [] client[c].cmd = "disable" -> IF \E x \in Client : client[x].cmd = "enable" THEN 1 ELSE 0
      [] OTHER -> client[c].stage

(* Mutant: the lock excludes nobody. *)
LockShared(c) ==
    /\ startLock' = c
    /\ AtStage(c, "lock", AfterLock(c), LockStage(c))
    /\ UNCHANGED <<files, instance, lease, daemon, off, commands, deaths>>

Lock(c) ==
    /\ startLock = None /\ startLock' = c
    /\ AtStage(c, "lock", AfterLock(c), LockStage(c))
    /\ UNCHANGED <<files, instance, lease, daemon, off, commands, deaths>>

(* ensure_daemon_live_v2_with_start_lock. *)
ProbeAgain(c) ==
    /\ \/ FoundLive(c, "probe_again") \/ FoundLive(c, "held") \/ FoundLive(c, "child")
       \/ At(c, "probe_again", "guard") /\ UNCHANGED <<startLock, instance>>
    /\ UNCHANGED <<files, lease, daemon, off, commands, deaths>>

Guard(c) ==
    /\ \/ instance = None /\ instance' = c /\ At(c, "guard", "stale")
       \/ instance # None /\ At(c, "guard", "held") /\ UNCHANGED instance
    /\ UNCHANGED <<files, startLock, lease, daemon, off, commands, deaths>>

(* Under the instance lock a socket no process has open is removed. *)
RemoveStale(c) ==
    /\ \/ /\ ~Alive(socket) /\ socket' = None /\ At(c, "stale", "spawn")
          /\ instance' = None /\ UNCHANGED startLock
       \/ Alive(socket) /\ client[c].at = "stale" /\ Fails(c) /\ UNCHANGED socket
    /\ UNCHANGED <<marker, record, lease, daemon, off, commands, deaths>>

Spawn(c) ==
    /\ client[c].at = "spawn"
    /\ \E d \in Daemon :
          /\ daemon[d] = "unborn" /\ daemon' = [daemon EXCEPT ![d] = "spawned"]
          /\ client' = [client EXCEPT ![c].at = "child", ![c].child = d]
    /\ UNCHANGED <<files, locks, off, commands, deaths>>

(* The wait for the child ends with its exit, or with the deadline: then    *)
(* terminate_timed_out_spawn kills it and removes what it left.             *)
ChildExited(c) ==
    /\ client[c].at = "child" /\ ~Alive(client[c].child) /\ Fails(c)
    /\ UNCHANGED <<files, lease, daemon, off, commands, deaths>>

KillChild(c) ==
    /\ Alive(client[c].child) /\ Gone(client[c].child) /\ At(c, "child", "reap_socket")
    /\ UNCHANGED <<files, startLock, off, commands, deaths>>

(* Mutant: whatever socket is at the path. *)
ReapSocketAny(c) ==
    /\ At(c, "reap_socket", "reap_record") /\ socket' = None
    /\ UNCHANGED <<marker, record, locks, daemon, off, commands, deaths>>

(* Its socket, for a timed-out child only if the record names the child.    *)
ReapSocket(c) ==
    /\ At(c, "reap_socket", "reap_record")
    /\ socket' = IF startLock = c /\ record.process # client[c].child THEN socket
                 ELSE Without(socket, client[c].child)
    /\ UNCHANGED <<marker, record, locks, daemon, off, commands, deaths>>

ReapRecord(c) ==
    /\ client[c].at = "reap_record" /\ Fails(c)
    /\ record' = [record EXCEPT !.process = Without(@, client[c].child)]
    /\ UNCHANGED <<marker, socket, lease, daemon, off, commands, deaths>>

(* wait_for_daemon_serving, and the same wait in enable, which on its       *)
(* deadline kills the recorded daemon (terminate_recorded_startup).         *)
ServingNow(c) ==
    /\ client[c].at = "await_serving" /\ Answers(socket) /\ daemon[socket] = "serving"
    /\ IF client[c].cmd = "enable"
         THEN At(c, "await_serving", "unset_marker") /\ UNCHANGED <<startLock, instance>>
         ELSE End(c)
    /\ UNCHANGED <<files, lease, daemon, off, commands, deaths>>

KillRecorded(c) ==
    /\ client[c].cmd = "enable" /\ client[c].at = "await_serving"
    /\ Alive(record.process) /\ socket = record.process
    /\ Gone(record.process)
    /\ client' = [client EXCEPT ![c].at = "reap_socket", ![c].child = record.process]
    /\ UNCHANGED <<files, startLock, off, commands, deaths>>

(* A deadline, or a failed system call, at a step without cleanup. *)
GiveUp(c) ==
    /\ client[c].at \in {"lock", "probe_again", "guard", "held", "stale", "spawn", "await_serving"}
    /\ Fails(c)
    /\ UNCHANGED <<files, lease, daemon, off, commands, deaths>>

-----------------------------------------------------------------------------
(* Stopping a daemon (stop_daemon, reload_daemon_with_start_lock and        *)
(* shutdown_daemon_for_disabled_transition).                                 *)

(* The daemon is down: what the command does next. *)
AfterStop(c) ==
    CASE client[c].cmd = "reload" -> "read_marker"
      [] client[c].cmd = "enable" -> "undo_mode"
      [] OTHER -> "idle"

Stopped(c) ==
    /\ IF AfterStop(c) = "idle"
         THEN End(c)
         ELSE /\ client' = [client EXCEPT ![c].at = AfterStop(c), ![c].answer = "yes",
                                          ![c].saw = None,
                                          ![c].stage = IF client[c].cmd = "reload" THEN 2 ELSE 1]
              /\ UNCHANGED <<startLock, instance>>
    /\ off' = (off \/ (client[c].cmd = "disable" /\ client[c].stage = 0))

(* The stop failed; the rollback of an enable still updates the record. *)
StopFails(c) ==
    IF client[c].cmd = "enable"
      THEN /\ client' = [client EXCEPT ![c].at = "undo_mode", ![c].answer = "error", ![c].saw = None]
           /\ UNCHANGED <<startLock, instance>>
      ELSE End(c)

(* Which process is to go; reload also writes the mode it just checked. *)
Expect(c) ==
    /\ client[c].at = "expect"
    /\ client' = [client EXCEPT ![c].at = "ask", ![c].saw = record.process]
    /\ record' = IF client[c].cmd = "reload" THEN [record EXCEPT !.mode = "Enabled"] ELSE record
    /\ UNCHANGED <<marker, socket, locks, daemon, off, commands, deaths>>

(* request_shutdown: no connection, a refusal, or an accepted request. *)
Ask(c) ==
    /\ client[c].at = "ask"
    /\ \E answer \in {"no", "error", "yes"} :
          /\ client' = [client EXCEPT ![c].answer = answer,
                                      ![c].at = IF answer = "yes" THEN "wait" ELSE "stuck"]
          /\ answer # "no" => Answers(socket)
          /\ answer = "yes" => daemon[socket] \in {"serving", "stopping"}
          /\ daemon' = IF answer = "yes" THEN [daemon EXCEPT ![socket] = "stopping"] ELSE daemon
    /\ UNCHANGED <<files, locks, off, commands, deaths>>

(* remove_force_stopped_socket: only the socket of that very process. *)
RemoveStopped(p) == socket \in {p, None} /\ socket' = None

(* wait_for_daemon_stop: one round of the poll that sees everything gone. *)
Seen(c) == IF record.process # None THEN record.process ELSE client[c].saw

(* Mutant: the process is enough. *)
AllGoneByProcess(c) ==
    ~Alive(record.process) /\ ~Alive(client[c].saw) /\ UNCHANGED socket

AllGone(c) ==
    /\ ~Alive(record.process) /\ ~Alive(client[c].saw)
    /\ RemoveStopped(Seen(c))

WaitStopped(c) ==
    /\ At(c, "wait", "clear") /\ AllGone(c)
    /\ UNCHANGED <<marker, record, locks, daemon, off, commands, deaths>>

WaitDeadline(c) ==
    /\ At(c, "wait", "stuck")
    /\ UNCHANGED <<files, locks, daemon, off, commands, deaths>>

(* No graceful stop.  Who goes on to kill, and what counts as stopped       *)
(* already, differs by command.                                             *)
MayKill(c) ==
    \/ client[c].cmd = "force" /\ (client[c].answer = "no" => record.process # None)
    \/ client[c].cmd \in {"disable", "enable"} /\ Alive(record.process)

AlreadyStopped(c) ==
    CASE client[c].cmd = "reload" -> client[c].answer = "no" /\ record.process = None
      [] client[c].cmd = "stop"   -> client[c].answer = "no" /\ ~Alive(record.process)
      [] client[c].cmd = "force"  -> FALSE
      [] OTHER -> ~Alive(record.process) /\ (record.process = None => client[c].answer = "no")

Stuck(c) ==
    /\ client[c].at = "stuck"
    /\ \/ /\ MayKill(c) /\ At(c, "stuck", "kill")
          /\ UNCHANGED <<startLock, instance, socket, off>>
       \/ /\ AlreadyStopped(c) /\ record.process # None /\ RemoveStopped(record.process)
          /\ At(c, "stuck", "clear") /\ UNCHANGED <<startLock, instance, off>>
       \/ /\ AlreadyStopped(c) /\ record.process = None /\ UNCHANGED socket
          /\ IF client[c].cmd \in {"disable", "enable"} THEN Stopped(c)
             ELSE At(c, "stuck", "clear") /\ UNCHANGED <<startLock, instance, off>>
       \/ /\ ~MayKill(c)
          /\ AlreadyStopped(c) => record.process # None /\ socket \notin {record.process, None}
          /\ StopFails(c) /\ UNCHANGED <<socket, off>>
    /\ UNCHANGED <<marker, record, lease, daemon, commands, deaths>>

(* force_stop_verified: the recorded process, if the socket is its own. *)
Kill(c) ==
    /\ client[c].at = "kill"
    /\ \/ /\ Alive(record.process) /\ socket = record.process /\ Gone(record.process)
          /\ client' = [client EXCEPT ![c].at = "unlink", ![c].saw = record.process]
          /\ UNCHANGED startLock
       \/ StopFails(c) /\ UNCHANGED <<lease, daemon>>
    /\ UNCHANGED <<files, off, commands, deaths>>

Unlink(c) ==
    /\ client[c].at = "unlink"
    /\ \/ RemoveStopped(client[c].saw) /\ At(c, "unlink", "clear") /\ UNCHANGED <<startLock, instance>>
       \/ socket \notin {client[c].saw, None} /\ StopFails(c) /\ UNCHANGED socket
    /\ UNCHANGED <<marker, record, lease, daemon, off, commands, deaths>>

(* clear_process_identity, whatever process the record names by now. *)
Clear(c) ==
    /\ client[c].at = "clear" /\ Stopped(c) /\ record' = [record EXCEPT !.process = None]
    /\ UNCHANGED <<marker, socket, lease, daemon, commands, deaths>>

-----------------------------------------------------------------------------
(* The desired mode (execute_disabled_transition, finish_enable_transition, *)
(* rollback_failed_enable, start_daemon).                                    *)

SetMarker(c) ==
    /\ client[c].at = "set_marker"
    /\ \/ /\ marker' = TRUE /\ UNCHANGED <<startLock, instance>>
          /\ At(c, "set_marker", IF client[c].cmd = "disable" THEN "set_mode" ELSE "expect")
       \/ client[c].cmd = "disable" /\ End(c) /\ UNCHANGED marker
       \/ /\ client[c].cmd = "enable" /\ At(c, "set_marker", "expect")
          /\ UNCHANGED <<marker, startLock, instance>>
    /\ UNCHANGED <<record, socket, lease, daemon, off, commands, deaths>>

(* begin_transition; enable then installs the tmux hooks, or fails to. *)
NewMode(c) == IF client[c].cmd = "start" THEN "Enabled" ELSE "Disabled"

SetMode(c) ==
    /\ client[c].at = "set_mode"
    /\ \/ /\ record' = [record EXCEPT !.mode = NewMode(c)] /\ UNCHANGED <<startLock, instance>>
          /\ \/ client[c].cmd = "disable" /\ At(c, "set_mode", "expect")
             \/ client[c].cmd = "start" /\ AtStage(c, "set_mode", "read_marker", 1)
             \/ client[c].cmd = "enable" /\ At(c, "set_mode", "probe")
       \/ client[c].cmd = "enable" /\ record' = [record EXCEPT !.mode = NewMode(c)] /\ Fails(c)
       \/ client[c].cmd # "enable" /\ End(c) /\ UNCHANGED record
    /\ UNCHANGED <<marker, socket, lease, daemon, off, commands, deaths>>

UnsetMarker(c) ==
    /\ client[c].at = "unset_marker"
    /\ \/ marker' = FALSE /\ At(c, "unset_marker", "unset_mode") /\ UNCHANGED <<startLock, instance>>
       \/ Fails(c) /\ UNCHANGED marker
    /\ UNCHANGED <<record, socket, lease, daemon, off, commands, deaths>>

UnsetMode(c) ==
    /\ client[c].at = "unset_mode"
    /\ \/ record' = [record EXCEPT !.mode = "Enabled"] /\ End(c)
       \/ Fails(c) /\ UNCHANGED record
    /\ UNCHANGED <<marker, socket, lease, daemon, off, commands, deaths>>

(* apply_enable_rollback_record: the process goes only with a complete      *)
(* rollback, which also needs the marker and the hooks.                     *)
UndoMode(c) ==
    /\ client[c].at = "undo_mode" /\ End(c)
    /\ \E p \in {record.process} \cup (IF client[c].answer = "yes" THEN {None} ELSE {}) :
          record' = [mode |-> "Disabled", process |-> p]
    /\ UNCHANGED <<marker, socket, lease, daemon, off, commands, deaths>>

(* A killed command. *)
Interrupt(c) ==
    /\ client[c].at # "idle" /\ deaths < MaxDeaths /\ deaths' = deaths + 1
    /\ End(c)
    /\ UNCHANGED <<files, lease, daemon, off, commands>>

ClientStepOf(c) ==
    \/ Begin(c) \/ ReadMarker(c) \/ ReadMode(c) \/ Probe(c) \/ Lock(c) \/ ProbeAgain(c)
    \/ Guard(c) \/ RemoveStale(c) \/ Spawn(c) \/ ChildExited(c) \/ KillChild(c)
    \/ ReapSocket(c) \/ ReapRecord(c) \/ ServingNow(c) \/ KillRecorded(c) \/ GiveUp(c)
    \/ Expect(c) \/ Ask(c) \/ WaitStopped(c) \/ WaitDeadline(c) \/ Stuck(c) \/ Kill(c)
    \/ Unlink(c) \/ Clear(c) \/ SetMarker(c) \/ SetMode(c) \/ UnsetMarker(c)
    \/ UnsetMode(c) \/ UndoMode(c) \/ Interrupt(c)

Next == (\E d \in Daemon : DaemonStepOf(d)) \/ (\E c \in Client : ClientStepOf(c))

Spec == Init /\ [][Next]_vars

-----------------------------------------------------------------------------
(* Properties.                                                              *)

(* A daemon that accepted its socket and was not told to stop can be        *)
(* reached: no cleanup, by a command or by another daemon, ever unlinks the *)
(* socket of a daemon that is still up.                                     *)
ReachableDaemon == \A d \in Daemon : daemon[d] \in {"bound", "live", "serving"} => socket = d

(* Once disable has succeeded, a reload does not bring a daemon back, no    *)
(* matter when it began: a daemon born after that is the child of an ensure *)
(* or a start.                                                              *)
ReloadHonorsDisable ==
    [][\A c \in Client : off /\ client[c].cmd = "reload" => client'[c].at # "child"]_vars

(* When the wait for a shutdown reports success no daemon is up any more,   *)
(* even if the record lost or changed the process meanwhile.                *)
StoppedIsStopped ==
    [][\A c \in Client : client[c].at = "wait" /\ client'[c].at = "clear" =>
          \A d \in Daemon : daemon[d] \notin {"bound", "live", "serving", "stopping"}]_vars

(* README: with disable, unlike with stop, the daemon remains stopped.      *)
DisabledStaysStopped == off => \A d \in Daemon : daemon[d] # "serving"

=============================================================================
