----------------------------- MODULE StoreReset -----------------------------
(***************************************************************************)
(* The agent state store as files (agent_state/store.rs), opened by the    *)
(* daemon and reset offline by `vt agent storage reset` (cli/agent.rs).    *)
(* Every change of the disk is a step; the daemon or the command may be    *)
(* interrupted (killed, or refused by the file system) between any two,    *)
(* and each is repeated by whoever comes next.                             *)
(***************************************************************************)
EXTENDS Naturals, FiniteSets

CONSTANTS
    Record,         \* names of record files: Runs, Operations and their bodies alike
    ResetCmd,       \* reset commands
    MaxGenerations, \* bound: generations made
    MaxStoreOps     \* bound: records written, starts and interruptions

ASSUME StoreResetAssumption ==
    /\ IsFiniteSet(Record) /\ IsFiniteSet(ResetCmd) /\ {MaxGenerations, MaxStoreOps} \subseteq Nat
    /\ ResetCmd \cap {"nobody", "daemon"} = {}

VARIABLES
    rootDir,  \* the store's directories exist
    meta,     \* state-meta.json: [st, gen, target]; gen 0: no file
    files,    \* Record -> [gen, active]; gen 0: no file
    instance, \* who holds the daemon instance lock
    opener,   \* the daemon: [at, gen]
    resetter, \* ResetCmd -> [at, mode, expect, target]
    codexLive,\* a Codex process runs in a pane
    maxGen,   \* generations made so far
    storeOps,
    lost      \* active records a reset removed

storeVars == <<rootDir, meta, files, instance, opener, resetter, codexLive, maxGen, storeOps, lost>>

NoHolder == "nobody"
Daemon == "daemon"
NoMeta == [st |-> "none", gen |-> 0, target |-> 0]
NoFile == [gen |-> 0, active |-> FALSE]
NoReset == [at |-> "idle", mode |-> "none", expect |-> 0, target |-> 0]
Present == {r \in Record : files[r].gen # 0}

OpSpend == storeOps < MaxStoreOps /\ storeOps' = storeOps + 1
FreshGen == maxGen < MaxGenerations /\ maxGen' = maxGen + 1

(***************************************************************************)
(* The daemon: open_or_initialize, then records come and go.               *)
(***************************************************************************)
\* A store whose root was there but not its metadata is not initialised again behind the user's back.
open_or_initialize ==
    /\ opener.at = "off" /\ instance = NoHolder /\ OpSpend
    /\ \/ ~rootDir /\ rootDir' = TRUE /\ instance' = Daemon /\ opener' = [opener EXCEPT !.at = "first_meta"]
       \/ rootDir /\ meta.st = "ready" /\ instance' = Daemon /\ UNCHANGED rootDir
          /\ opener' = [at |-> "open", gen |-> meta.gen]
       \/ rootDir /\ meta.st # "ready" /\ UNCHANGED <<instance, opener, rootDir>>
    /\ UNCHANGED <<meta, files, resetter, codexLive, maxGen, lost>>
FirstMeta ==
    /\ opener.at = "first_meta" /\ FreshGen
    /\ meta' = [st |-> "ready", gen |-> maxGen + 1, target |-> 0] /\ opener' = [at |-> "open", gen |-> maxGen + 1]
    /\ UNCHANGED <<rootDir, files, instance, resetter, codexLive, storeOps, lost>>

\* save_run, save_operation: a record of the open generation, written under a temporary name and renamed.
SaveRecord(r) ==
    /\ opener.at = "open" /\ OpSpend
    /\ \E a \in BOOLEAN :
         /\ a => codexLive
         /\ files' = [files EXCEPT ![r] = [gen |-> opener.gen, active |-> a]]
    /\ UNCHANGED <<rootDir, meta, instance, opener, resetter, codexLive, maxGen, lost>>

StopDaemon ==
    /\ opener.at # "off" /\ OpSpend /\ opener' = [at |-> "off", gen |-> 0] /\ instance' = NoHolder
    /\ UNCHANGED <<rootDir, meta, files, resetter, codexLive, maxGen, lost>>

CodexMoves ==
    /\ OpSpend /\ codexLive' = ~codexLive
    /\ UNCHANGED <<rootDir, meta, files, instance, opener, resetter, maxGen, lost>>

(***************************************************************************)
(* reset_storage_offline.                                                  *)
(***************************************************************************)
ResetAt(c, a) == resetter[c].at = a
ResetGoto(c, a) == resetter' = [resetter EXCEPT ![c].at = a]
ResetEnds(c, how) ==
    /\ resetter' = [resetter EXCEPT ![c] = [NoReset EXCEPT !.at = how]]
    /\ instance' = IF instance = c THEN NoHolder ELSE instance

RunReset(c) ==
    /\ ResetAt(c, "idle") /\ OpSpend
    /\ \E m \in {"bound", "recover"}, g \in 1..maxGen :
         /\ resetter' = [resetter EXCEPT ![c] = [at |-> "lock", mode |-> m, expect |-> g, target |-> 0]]
         /\ m = "recover" => g = 1
    /\ UNCHANGED <<rootDir, meta, files, instance, opener, codexLive, maxGen, lost>>

\* The instance lock proves that no daemon runs and keeps one from starting.
try_acquire_daemon_instance_lock(c) ==
    /\ ResetAt(c, "lock")
    /\ IF instance # NoHolder THEN ResetEnds(c, "refused") ELSE instance' = c /\ ResetGoto(c, "scan")
    /\ UNCHANGED <<rootDir, meta, files, opener, codexLive, maxGen, storeOps, lost>>

\* No pane may hold a live Codex process.
ScanPanes(c) ==
    /\ ResetAt(c, "scan")
    /\ IF codexLive THEN ResetEnds(c, "refused")
       ELSE ResetGoto(c, IF resetter[c].mode = "bound" THEN "mark" ELSE "recover") /\ UNCHANGED instance
    /\ UNCHANGED <<rootDir, meta, files, opener, codexLive, maxGen, storeOps, lost>>

ensure_reset_quiescent == \A r \in Present : ~files[r].active

\* reset_offline: the marker carries the generation to come, so that an interrupted reset is resumed
\* by a command that names the same generation.
reset_offline(c) ==
    LET same == meta.gen = resetter[c].expect
    IN  /\ ResetAt(c, "mark")
        /\ \/ /\ meta.st = "ready" /\ same /\ ensure_reset_quiescent /\ FreshGen
              /\ meta' = [meta EXCEPT !.st = "resetting", !.target = maxGen + 1]
              /\ resetter' = [resetter EXCEPT ![c].at = "clear", ![c].target = maxGen + 1] /\ UNCHANGED instance
           \/ /\ meta.st = "resetting" /\ same /\ UNCHANGED <<meta, maxGen, instance>>
              /\ resetter' = [resetter EXCEPT ![c].at = "clear", ![c].target = meta.target]
           \/ /\ \/ meta.st = "none" \/ ~same \/ (meta.st = "ready" /\ ~ensure_reset_quiescent)
              /\ ResetEnds(c, "refused") /\ UNCHANGED <<meta, maxGen>>
        /\ UNCHANGED <<rootDir, files, opener, codexLive, storeOps, lost>>

\* recover_uninitialized_offline: only where there is no valid metadata.
recover_uninitialized_offline(c) ==
    /\ ResetAt(c, "recover") /\ rootDir' = TRUE
    /\ \/ meta.st # "none" /\ ResetEnds(c, "refused") /\ UNCHANGED maxGen
       \/ meta.st = "none" /\ FreshGen /\ UNCHANGED instance
          /\ resetter' = [resetter EXCEPT ![c].at = "clear", ![c].target = maxGen + 1]
    /\ UNCHANGED <<meta, files, opener, codexLive, storeOps, lost>>

\* clear_directory_and_sync: one file after the other, then the metadata of the new generation.
clear_directory_and_sync(c) ==
    /\ ResetAt(c, "clear")
    /\ IF Present = {} THEN ResetGoto(c, "ready") /\ UNCHANGED <<files, lost>>
       ELSE /\ \E r \in Present : files' = [files EXCEPT ![r] = NoFile] /\ lost' = (lost \/ files[r].active)
            /\ UNCHANGED resetter
    /\ UNCHANGED <<rootDir, meta, instance, opener, codexLive, maxGen, storeOps>>
WriteReady(c) ==
    /\ ResetAt(c, "ready") /\ meta' = [st |-> "ready", gen |-> resetter[c].target, target |-> 0]
    /\ ResetEnds(c, "done")
    /\ UNCHANGED <<rootDir, files, opener, codexLive, maxGen, storeOps, lost>>

\* The command is killed or the file system refuses; the lock goes with it and the disk stays as it is.
Interrupt(c) ==
    /\ resetter[c].at \notin {"idle", "done", "refused"} /\ OpSpend /\ ResetEnds(c, "idle")
    /\ UNCHANGED <<rootDir, meta, files, opener, codexLive, maxGen, lost>>

reset_storage_offline(c) ==
    \/ try_acquire_daemon_instance_lock(c) \/ ScanPanes(c) \/ reset_offline(c)
    \/ recover_uninitialized_offline(c) \/ clear_directory_and_sync(c) \/ WriteReady(c)

StoreInit ==
    /\ rootDir = FALSE /\ meta = NoMeta /\ files = [r \in Record |-> NoFile] /\ instance = NoHolder
    /\ opener = [at |-> "off", gen |-> 0] /\ resetter = [c \in ResetCmd |-> NoReset]
    /\ codexLive = FALSE /\ maxGen = 0 /\ storeOps = 0 /\ lost = FALSE

StoreNext ==
    \/ open_or_initialize \/ FirstMeta \/ StopDaemon \/ CodexMoves
    \/ \E r \in Record : SaveRecord(r)
    \/ \E c \in ResetCmd : RunReset(c) \/ reset_storage_offline(c) \/ Interrupt(c)
StoreSpec == StoreInit /\ [][StoreNext]_storeVars

-----------------------------------------------------------------------------
(***************************************************************************)
(* Properties.                                                             *)
(***************************************************************************)
\* A store that can be opened holds records of its own generation only, wherever a reset was interrupted.
OneGeneration == meta.st = "ready" => \A r \in Present : files[r].gen = meta.gen

\* The daemon works on the generation the disk has: no reset happens under it.
DaemonOwnsStore == opener.at = "open" => meta.st = "ready" /\ meta.gen = opener.gen

\* A reset removes no record of work that is still going on.
NothingActiveLost == ~lost

StoreResetSound == OneGeneration /\ DaemonOwnsStore /\ NothingActiveLost
=============================================================================
