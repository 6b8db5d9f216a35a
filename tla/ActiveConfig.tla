---------------------------- MODULE ActiveConfig ----------------------------
(***************************************************************************)
(* How a command gets the configuration it may act on (cli/mod.rs          *)
(* require_active_config): the one on disk, if the daemon runs with it.    *)
(* If it does not the command reloads the daemon, under the daemon's start *)
(* lock, unless another program, another environment or a busy daemon      *)
(* forbids it.  Users edit the file, run commands from terminals with      *)
(* different environments, stop, disable and upgrade the daemon meanwhile. *)
(*                                                                         *)
(* A configuration is <<version of the file, environment>>; its hash is    *)
(* itself.  Version 0 is a file that does not parse.                       *)
(***************************************************************************)
EXTENDS Naturals, FiniteSets

CONSTANTS
    Caller,      \* commands
    CallerEnv,   \* Caller -> the environment of its terminal
    CheckOnly,   \* commands that never reload
    MaxEdits,    \* bound: changes of the file
    MaxTurns     \* bound: restarts, upgrades, disablings and deaths of the daemon

NoOwner == "nobody"

ASSUME ActiveConfigAssumption ==
    /\ IsFiniteSet(Caller) /\ CheckOnly \subseteq Caller /\ DOMAIN CallerEnv = Caller
    /\ NoOwner \notin Caller
    /\ {MaxEdits, MaxTurns} \subseteq Nat

VARIABLES
    disk,      \* the version of the file
    running,   \* the daemon: [up, ver, env, exe, id, busy]
    configStartLock, \* the command that holds the start lock
    disabled,  \* the user has disabled the daemon
    caller,    \* Caller -> where its command is
    acUsed,    \* what the bounds count
    reloads    \* the reloads commands did by themselves

acVars == <<disk, running, configStartLock, disabled, caller, acUsed, reloads>>

Program == {"old", "new"}
Env == {CallerEnv[c] : c \in Caller} \cup {"elsewhere"}
NoCallerReport == [up |-> FALSE, ver |-> 0, env |-> "nowhere", exe |-> "new", id |-> 0, busy |-> FALSE]
\* cfg: the configuration the command loaded; reply: the daemon's last answer to QueryRuntimeInfo.
NewCommand == [at |-> "idle", cfg |-> <<>>, reply |-> NoCallerReport]

\* What the daemon loads in this environment.
Config(ver, env) == <<ver, env>>
ActiveOf(d) == Config(d.ver, d.env)

CallerGoto(c, r) == caller' = [caller EXCEPT ![c] = r]
AtStep(c, a) == caller[c].at = a
CallerStep(c, a) == [caller[c] EXCEPT !.at = a]
Ends(c, how) == CallerGoto(c, CallerStep(c, how)) /\ configStartLock' = IF configStartLock = c THEN NoOwner ELSE configStartLock
Outside == <<disk, running, disabled, acUsed, reloads>>

\* load_config_for_reload: the file as it is now, and the query that follows.
load_config_for_reload(c, from, to) ==
    /\ AtStep(c, from) /\ UNCHANGED Outside
    /\ IF disk = 0 THEN Ends(c, "refused")
       ELSE /\ CallerGoto(c, [CallerStep(c, to) EXCEPT !.cfg = Config(disk, CallerEnv[c])])
            /\ UNCHANGED configStartLock

\* query_active_config: the daemon's answer, or none.
QueryFirst(c) ==
    /\ AtStep(c, "query") /\ UNCHANGED Outside
    /\ LET same == running.up /\ ActiveOf(running) = caller[c].cfg
       IN  IF same THEN CallerGoto(c, [CallerStep(c, "granted") EXCEPT !.reply = running]) /\ UNCHANGED configStartLock
           ELSE IF c \in CheckOnly THEN Ends(c, "refused")
           ELSE CallerGoto(c, CallerStep(c, "mode")) /\ UNCHANGED configStartLock

Mode(c, from, to) ==
    /\ AtStep(c, from) /\ UNCHANGED Outside
    /\ IF disabled THEN Ends(c, "refused") ELSE CallerGoto(c, CallerStep(c, to)) /\ UNCHANGED configStartLock

acquire_daemon_reload_lock(c) ==
    /\ AtStep(c, "lock") /\ configStartLock = NoOwner
    /\ configStartLock' = c /\ CallerGoto(c, CallerStep(c, "mode_again")) /\ UNCHANGED Outside

\* Another command may have reloaded it while this one waited; then its configuration is the right one.
Again(c) ==
    /\ AtStep(c, "query_again") /\ UNCHANGED Outside
    /\ IF ~running.up THEN Ends(c, "refused")
       ELSE IF ActiveOf(running) = caller[c].cfg
       THEN /\ CallerGoto(c, [CallerStep(c, "granted") EXCEPT !.reply = running]) /\ configStartLock' = NoOwner
       ELSE CallerGoto(c, [CallerStep(c, "verify") EXCEPT !.reply = running]) /\ UNCHANGED configStartLock

\* The reload is refused when another program or environment runs the daemon, and when the file is the
\* one the daemon read.
verify_automatic_config_reload(c) ==
    /\ AtStep(c, "verify") /\ UNCHANGED Outside
    /\ IF \/ caller[c].reply.exe # "new" \/ caller[c].reply.env # CallerEnv[c]
          \/ caller[c].reply.ver = caller[c].cfg[1]
       THEN Ends(c, "refused") ELSE CallerGoto(c, CallerStep(c, "load_third")) /\ UNCHANGED configStartLock

\* The daemon stops only if it is the one that was asked and nothing is under way in it.
request_config_reload_shutdown(c) ==
    /\ AtStep(c, "shutdown") /\ UNCHANGED <<disk, disabled, acUsed>>
    /\ IF running.up /\ running.id = caller[c].reply.id /\ ~running.busy
       THEN /\ running' = [running EXCEPT !.up = FALSE] /\ reloads' = reloads + 1
            /\ CallerGoto(c, CallerStep(c, "spawn")) /\ UNCHANGED configStartLock
       ELSE Ends(c, "refused") /\ UNCHANGED <<running, reloads>>

Spawned(env) == [up |-> TRUE, ver |-> disk, env |-> env, exe |-> "new", id |-> running.id + 1, busy |-> FALSE]

\* The replacement reads the file again; if it cannot, or the old process outlives the deadline of
\* wait_for_daemon_stop, the daemon stays stopped.
Replace(c) ==
    /\ AtStep(c, "spawn") /\ UNCHANGED <<disk, disabled, acUsed, reloads>>
    /\ \/ Ends(c, "refused") /\ UNCHANGED running
       \/ disk # 0 /\ running' = Spawned(CallerEnv[c]) /\ CallerGoto(c, CallerStep(c, "load_last")) /\ UNCHANGED configStartLock

verify_active_config_hash(c) ==
    /\ AtStep(c, "query_last") /\ UNCHANGED Outside
    /\ IF running.up /\ ActiveOf(running) = caller[c].cfg
       THEN /\ CallerGoto(c, [CallerStep(c, "granted") EXCEPT !.reply = running]) /\ configStartLock' = NoOwner
       ELSE Ends(c, "refused")

require_active_config(c) ==
    \/ load_config_for_reload(c, "load", "query") \/ QueryFirst(c) \/ Mode(c, "mode", "lock")
    \/ acquire_daemon_reload_lock(c) \/ Mode(c, "mode_again", "load_again")
    \/ load_config_for_reload(c, "load_again", "query_again") \/ Again(c)
    \/ verify_automatic_config_reload(c)
    \/ load_config_for_reload(c, "load_third", "mode_last") \/ Mode(c, "mode_last", "shutdown")
    \/ request_config_reload_shutdown(c) \/ Replace(c)
    \/ load_config_for_reload(c, "load_last", "query_last") \/ verify_active_config_hash(c)

(***************************************************************************)
(* The rest of the system.                                                 *)
(***************************************************************************)
AcSpend(kind, bound) == acUsed[kind] < bound /\ acUsed' = [acUsed EXCEPT ![kind] = @ + 1]

RunCommand(c) ==
    /\ AtStep(c, "idle") /\ CallerGoto(c, CallerStep(c, "load"))
    /\ UNCHANGED <<disk, running, configStartLock, disabled, acUsed, reloads>>

Edit ==
    /\ AcSpend("edits", MaxEdits)
    /\ disk' \in {0, acUsed.edits + 2}
    /\ UNCHANGED <<running, configStartLock, disabled, caller, reloads>>

\* Work in the daemon begins or ends.
Work ==
    /\ running.up /\ AcSpend("turns", MaxTurns) /\ running' = [running EXCEPT !.busy = ~@]
    /\ UNCHANGED <<disk, configStartLock, disabled, caller, reloads>>

\* vt daemon start, stop, enable and disable, or a crash.
Lifecycle ==
    /\ AcSpend("turns", MaxTurns)
    /\ \/ running.up /\ running' = [running EXCEPT !.up = FALSE] /\ UNCHANGED disabled
       \/ ~running.up /\ configStartLock = NoOwner /\ ~disabled /\ disk # 0
          /\ \E e \in Env : running' = Spawned(e)
          /\ UNCHANGED disabled
       \/ disabled' = ~disabled /\ UNCHANGED running
    /\ UNCHANGED <<disk, configStartLock, caller, reloads>>

AcInit ==
    /\ disk = 1 /\ configStartLock = NoOwner /\ disabled = FALSE /\ reloads = 0
    /\ running \in [up : {TRUE}, ver : {1}, env : Env, exe : Program, id : {1},
                    busy : {FALSE}]
    /\ caller = [c \in Caller |-> NewCommand] /\ acUsed = [edits |-> 0, turns |-> 0]

AcProgress(c) == require_active_config(c)
AcNext == (\E c \in Caller : RunCommand(c) \/ require_active_config(c)) \/ Edit \/ Work \/ Lifecycle
AcFairness == \A c \in Caller : WF_acVars(AcProgress(c))
AcSpec == AcInit /\ [][AcNext]_acVars /\ AcFairness

-----------------------------------------------------------------------------
(***************************************************************************)
(* Properties.                                                             *)
(***************************************************************************)
\* A command acts on a configuration that is the file read in its own environment and that a daemon
\* reported to run with after that.
GrantedIsActive ==
    \A c \in Caller : AtStep(c, "granted") => /\ caller[c].cfg = ActiveOf(caller[c].reply)
                                              /\ caller[c].cfg[1] # 0 /\ caller[c].cfg[2] = CallerEnv[c]

\* However many commands meet the same stale daemon it is reloaded once for an edit.
OneReloadPerEdit == reloads <= acUsed.edits

ActiveConfigSound == GrantedIsActive /\ OneReloadPerEdit

\* cli/mod.rs:1432-1433: a command never starts a daemon that was not running, and never takes a daemon
\* over from another environment or program.
NeverTakenOver ==
    [][\A c \in Caller : (require_active_config(c) /\ running' # running) =>
            /\ ~running'.up => running.exe = "new" /\ running.env = CallerEnv[c] /\ ~running.busy
            /\ running'.up => AtStep(c, "spawn")]_acVars

\* Every command ends.
CallersEnd == \A c \in Caller : AtStep(c, "load") ~> caller[c].at \in {"granted", "refused"}
=============================================================================
