---------------------------- MODULE ClientsProofs ----------------------------
(***************************************************************************)
(* Proofs about the processes around the daemon, for every value of the    *)
(* constants: each part's inductive invariant, that its initial states     *)
(* have it and its steps keep it, and that the promises of its module      *)
(* follow; at the end the parts together, as MCClients composes them.      *)
(***************************************************************************)
EXTENDS MCClients, FiniteSetTheorems, SequenceTheorems, WellFoundedInduction, TLAPS

-----------------------------------------------------------------------------
(* ActiveConfig: the configuration a command acts on.                        *)

CallerSteps == {"idle", "load", "query", "mode", "lock", "granted", "refused"}
LockedSteps == {"mode_again", "load_again", "query_again", "verify", "load_third", "mode_last",
                "shutdown", "spawn", "load_last", "query_last"}
ReplyRec == [up : BOOLEAN, ver : Nat, env : Env \cup {"nowhere"}, exe : Program, id : Nat,
             busy : BOOLEAN]
CallerRec == [at : CallerSteps \cup LockedSteps, cfg : (Nat \X Env) \cup {<<>>}, reply : ReplyRec]

AcShapes ==
    /\ disk \in Nat /\ running \in ReplyRec /\ running.env \in Env
    /\ caller \in [Caller -> CallerRec]
    /\ acUsed \in [edits : Nat, turns : Nat] /\ reloads \in Nat /\ disabled \in BOOLEAN

(* The file only gets newer, the daemon has read it, and a daemon's version  *)
(* is one more than the reloads there have been.                             *)
VersionsRise ==
    /\ disk <= acUsed.edits + 1
    /\ running.ver >= 1 /\ running.ver <= acUsed.edits + 1
    /\ disk # 0 => running.ver <= disk
    /\ reloads <= acUsed.edits
    /\ running.up => reloads < running.ver
    /\ ~running.up /\ disk # 0 => reloads < disk

(* Whoever is past the lock holds it.                                        *)
LockHeld == \A c \in Caller : caller[c].at \in LockedSteps => configStartLock = c

(* A configuration once loaded is of the caller's environment and not newer  *)
(* than the file.                                                            *)
Loaded(c) ==
    /\ caller[c].cfg \in Nat \X Env
    /\ caller[c].cfg[1] # 0 /\ caller[c].cfg[2] = CallerEnv[c]
    /\ caller[c].cfg[1] <= acUsed.edits + 1 /\ (disk # 0 => caller[c].cfg[1] <= disk)
CfgLoaded == \A c \in Caller : caller[c].at \notin {"idle", "load", "refused"} => Loaded(c)

(* Under the lock the daemon is not replaced by anybody else: what it        *)
(* answered is still true of it, and it is not newer than what was loaded.   *)
SameDaemon(c) ==
    /\ running.id = caller[c].reply.id /\ running.ver = caller[c].reply.ver
    /\ running.exe = caller[c].reply.exe /\ running.env = caller[c].reply.env
Asked ==
    \A c \in Caller :
        /\ caller[c].at = "query_again" => running.ver <= caller[c].cfg[1]
        /\ caller[c].at \in {"verify", "load_third", "mode_last", "shutdown"} =>
              SameDaemon(c) /\ running.ver <= caller[c].cfg[1]
        /\ caller[c].at \in {"load_third", "mode_last", "shutdown"} =>
              /\ running.ver < caller[c].cfg[1]
              /\ running.exe = "new" /\ running.env = CallerEnv[c]

AcInv == AcShapes /\ VersionsRise /\ LockHeld /\ CfgLoaded /\ Asked /\ GrantedIsActive

LEMMA AcInitInv == AcInit => AcInv
<1> SUFFICES ASSUME AcInit PROVE AcInv OBVIOUS
<1>1. NewCommand \in CallerRec /\ NewCommand.at = "idle"
  BY DEF NewCommand, CallerRec, ReplyRec, NoCallerReport, Program, CallerSteps
<1>2. AcShapes
  <2>1. running \in ReplyRec
    <3>1. running \in [up : {TRUE}, ver : {1}, env : Env, exe : Program, id : {1}, busy : {FALSE}] BY DEF AcInit
    <3>2. {TRUE} \subseteq BOOLEAN /\ {FALSE} \subseteq BOOLEAN /\ {1} \subseteq Nat
          /\ Env \subseteq Env \cup {"nowhere"}
      OBVIOUS
    <3> QED BY <3>1, <3>2, Zenon DEF ReplyRec
  <2> QED BY <2>1, <1>1 DEF AcInit, AcShapes
<1> QED
  BY <1>2, <1>1 DEF AcInv, AcInit, VersionsRise, LockHeld, CfgLoaded, Asked, GrantedIsActive, AtStep, LockedSteps

(* What the record of a caller has to say when only it and the lock change.  *)
FitsDaemon(r) ==
    /\ running.id = r.reply.id /\ running.ver = r.reply.ver
    /\ running.exe = r.reply.exe /\ running.env = r.reply.env
    /\ running.ver <= r.cfg[1]
FitsLoaded(c, r) ==
    /\ r.cfg \in Nat \X Env
    /\ r.cfg[1] # 0 /\ r.cfg[2] = CallerEnv[c]
    /\ r.cfg[1] <= acUsed.edits + 1 /\ (disk # 0 => r.cfg[1] <= disk)
Fits(c, r) ==
    /\ r \in CallerRec
    /\ r.at \notin {"idle", "load", "refused"} => FitsLoaded(c, r)
    /\ r.at = "query_again" => running.ver <= r.cfg[1]
    /\ r.at \in {"verify", "load_third", "mode_last", "shutdown"} => FitsDaemon(r)
    /\ r.at \in {"load_third", "mode_last", "shutdown"} =>
          running.ver < r.cfg[1] /\ running.exe = "new" /\ running.env = CallerEnv[c]
    /\ r.at = "granted" => r.cfg = ActiveOf(r.reply)

LEMMA CallerMoves ==
    ASSUME AcInv, NEW c \in Caller, NEW r, CallerGoto(c, r), Fits(c, r),
           UNCHANGED <<disk, disabled, acUsed, running, reloads>>,
           r.at \in LockedSteps => configStartLock' = c,
           \/ configStartLock' = configStartLock \/ configStartLock = c
           \/ configStartLock = NoOwner /\ configStartLock' = c
    PROVE  AcInv'
<1>1. /\ caller' \in [Caller -> CallerRec] /\ caller'[c] = r
      /\ \A d \in Caller : d # c => caller'[d] = caller[d]
  BY DEF CallerGoto, AcInv, AcShapes, Fits
<1>5. Asked' BY <1>1 DEF AcInv, Asked, SameDaemon, Fits, FitsDaemon
<1>6. GrantedIsActive' BY <1>1 DEF AcInv, GrantedIsActive, AtStep, Fits, FitsLoaded, ActiveOf
<1> QED
  BY <1>1, ActiveConfigAssumption, <1>5, <1>6 DEF AcInv, AcShapes, VersionsRise, LockHeld, CfgLoaded, Loaded, Fits,
    FitsLoaded

LEMMA CallerEnvs == \A c \in Caller : CallerEnv[c] \in Env BY DEF Env

(* The record of a caller that changes a field.                              *)
LEMMA AtField ==
    ASSUME NEW r \in CallerRec, NEW a \in CallerSteps \cup LockedSteps
    PROVE  LET q == [r EXCEPT !.at = a]
           IN  q \in CallerRec /\ q.at = a /\ q.cfg = r.cfg /\ q.reply = r.reply
  BY DEF CallerRec

LEMMA CfgField ==
    ASSUME NEW r \in CallerRec, NEW v \in Nat \X Env
    PROVE  LET q == [r EXCEPT !.cfg = v]
           IN  q \in CallerRec /\ q.at = r.at /\ q.cfg = v /\ q.reply = r.reply
  BY DEF CallerRec

LEMMA ReplyField ==
    ASSUME NEW r \in CallerRec, NEW p \in ReplyRec
    PROVE  LET q == [r EXCEPT !.reply = p]
           IN  q \in CallerRec /\ q.at = r.at /\ q.cfg = r.cfg /\ q.reply = p
  BY DEF CallerRec

LEMMA Refused ==
    ASSUME AcInv, NEW c \in Caller, Ends(c, "refused"),
           UNCHANGED <<disk, disabled, acUsed, running, reloads>>
    PROVE  AcInv'
<1> DEFINE r == [caller[c] EXCEPT !.at = "refused"]
<1>2. r \in CallerRec /\ r.at = "refused" BY AtField DEF AcInv, AcShapes, CallerSteps
<1>3. CallerGoto(c, r) /\ (configStartLock' # configStartLock => configStartLock = c) BY DEF Ends, CallerStep
<1> HIDE DEF r
<1> QED BY <1>2, <1>3, CallerMoves DEF LockedSteps, Fits

LEMMA LoadKeeps ==
    ASSUME AcInv, NEW c \in Caller, NEW from, NEW to, load_config_for_reload(c, from, to),
           <<from, to>> \in {<<"load", "query">>, <<"load_again", "query_again">>,
                             <<"load_third", "mode_last">>, <<"load_last", "query_last">>}
    PROVE  AcInv'
<1>0. caller[c] \in CallerRec /\ disk \in Nat /\ UNCHANGED <<disk, disabled, acUsed, running, reloads>>
  BY DEF AcInv, AcShapes, load_config_for_reload, Outside
<1>1. CASE disk = 0 BY <1>0, <1>1, Refused DEF load_config_for_reload
<1>2. CASE disk # 0
  <2> DEFINE q == [caller[c] EXCEPT !.at = to]
             r == [q EXCEPT !.cfg = <<disk, CallerEnv[c]>>]
  <2>1. CallerGoto(c, r) /\ configStartLock' = configStartLock
    BY <1>2 DEF load_config_for_reload, CallerStep, Config
  <2>2. to \in CallerSteps \cup LockedSteps /\ <<disk, CallerEnv[c]>> \in Nat \X Env
    BY <1>0, CallerEnvs DEF CallerSteps, LockedSteps
  <2>3. /\ r \in CallerRec /\ r.at = to /\ r.cfg = <<disk, CallerEnv[c]>>
        /\ r.reply = caller[c].reply
    <3>1. q \in CallerRec /\ q.at = to /\ q.reply = caller[c].reply BY <1>0, <2>2, AtField
    <3> HIDE DEF q
    <3> QED BY <2>2, <3>1, CfgField
  <2> HIDE DEF r
  <2>4. r.cfg \in Nat \X Env /\ r.cfg[1] = disk /\ r.cfg[2] = CallerEnv[c] BY <1>0, <2>3, CallerEnvs
  <2>5. disk <= acUsed.edits + 1 /\ running.ver <= disk BY <1>2 DEF AcInv, VersionsRise
  <2>8. to = "mode_last" =>
          /\ SameDaemon(c) /\ running.ver < disk
          /\ running.exe = "new" /\ running.env = CallerEnv[c]
    BY <1>2, <1>0 DEF AcInv, Asked, CfgLoaded, Loaded, AcShapes, ReplyRec, load_config_for_reload, AtStep
  <2> QED
    <3>2. to = "mode_last" => FitsDaemon(r) BY <2>3, <2>4, <2>5, <2>8 DEF FitsDaemon, SameDaemon
    <3>3. Fits(c, r) BY <2>3, <2>4, <2>5, <2>8, <1>0, <1>2, <3>2 DEF Fits, FitsLoaded
    <3> QED BY <1>0, <2>1, <2>3, <3>3, CallerMoves DEF AcInv, LockHeld, LockedSteps, load_config_for_reload, AtStep
<1> QED BY <1>1, <1>2

(* A caller that only changes its step, or takes over the daemon's answer.   *)
LEMMA StepField ==
    ASSUME AcInv, NEW c \in Caller, NEW a \in CallerSteps \cup LockedSteps,
           caller[c].at \notin {"idle", "load", "refused"}
    PROVE  LET r == [caller[c] EXCEPT !.at = a]
               q == [r EXCEPT !.reply = running]
           IN  /\ r \in CallerRec /\ r.at = a /\ r.cfg = caller[c].cfg /\ r.reply = caller[c].reply
               /\ FitsLoaded(c, r)
               /\ q \in CallerRec /\ q.at = a /\ q.cfg = caller[c].cfg /\ q.reply = running
               /\ FitsLoaded(c, q)
<1> DEFINE r == [caller[c] EXCEPT !.at = a]
           q == [r EXCEPT !.reply = running]
<1>2. r \in CallerRec /\ r.at = a /\ r.cfg = caller[c].cfg /\ r.reply = caller[c].reply
  BY AtField DEF AcInv, AcShapes
<1> HIDE DEF r
<1>3. q \in CallerRec /\ q.at = a /\ q.cfg = caller[c].cfg /\ q.reply = running
  BY <1>2, ReplyField DEF AcInv, AcShapes
<1> HIDE DEF q
<1> QED BY <1>2, <1>3 DEF r, q, AcInv, CfgLoaded, Loaded, FitsLoaded

LEMMA QueryKeeps == ASSUME AcInv, NEW c \in Caller, QueryFirst(c) PROVE AcInv'
<1> DEFINE r == [caller[c] EXCEPT !.at = "granted"]
           q == [r EXCEPT !.reply = running]
           m == [caller[c] EXCEPT !.at = "mode"]
<1>0. UNCHANGED <<disk, disabled, acUsed, running, reloads>> /\ caller[c].at = "query"
  BY DEF QueryFirst, Outside, AtStep
<1>2. q \in CallerRec /\ q.at = "granted" /\ q.cfg = caller[c].cfg /\ q.reply = running
      /\ FitsLoaded(c, q)
  BY <1>0, StepField DEF CallerSteps
<1>3. m \in CallerRec /\ m.at = "mode" /\ FitsLoaded(c, m) BY <1>0, StepField DEF CallerSteps
<1>4. \/ CallerGoto(c, q) /\ ActiveOf(running) = caller[c].cfg /\ configStartLock' = configStartLock
      \/ Ends(c, "refused")
      \/ CallerGoto(c, m) /\ configStartLock' = configStartLock
  BY DEF QueryFirst, CallerStep
<1> HIDE DEF q, m
<1>5. CASE CallerGoto(c, q) /\ ActiveOf(running) = caller[c].cfg /\ configStartLock' = configStartLock
  BY <1>2, <1>5, <1>0, CallerMoves DEF Fits, LockedSteps
<1>6. CASE Ends(c, "refused") BY <1>0, <1>6, Refused
<1>7. CASE CallerGoto(c, m) /\ configStartLock' = configStartLock
  BY <1>3, <1>0, <1>7, CallerMoves DEF Fits, LockedSteps
<1> QED BY <1>4, <1>5, <1>6, <1>7

LEMMA ModeKeeps ==
    ASSUME AcInv, NEW c \in Caller, NEW from, NEW to, Mode(c, from, to),
           <<from, to>> \in {<<"mode", "lock">>, <<"mode_again", "load_again">>,
                             <<"mode_last", "shutdown">>}
    PROVE  AcInv'
<1> DEFINE r == [caller[c] EXCEPT !.at = to]
<1>0. UNCHANGED <<disk, disabled, acUsed, running, reloads>> /\ caller[c].at = from BY DEF Mode, Outside, AtStep
<1>2. r \in CallerRec /\ r.at = to /\ r.cfg = caller[c].cfg /\ r.reply = caller[c].reply
      /\ FitsLoaded(c, r)
  BY <1>0, StepField DEF CallerSteps, LockedSteps
<1>3. \/ Ends(c, "refused")
      \/ CallerGoto(c, r) /\ configStartLock' = configStartLock
  BY DEF Mode, CallerStep
<1> HIDE DEF r
<1>4. CASE CallerGoto(c, r) /\ configStartLock' = configStartLock
  BY <1>0, <1>2, <1>4, CallerMoves DEF AcInv, LockHeld, LockedSteps, Asked, SameDaemon, FitsDaemon, Fits
<1> QED BY <1>0, <1>3, <1>4, Refused

LEMMA AcquireKeeps == ASSUME AcInv, NEW c \in Caller, acquire_daemon_reload_lock(c) PROVE AcInv'
<1> DEFINE r == [caller[c] EXCEPT !.at = "mode_again"]
<1>1. r \in CallerRec /\ r.at = "mode_again" /\ FitsLoaded(c, r)
  BY StepField DEF LockedSteps, acquire_daemon_reload_lock, Outside, AtStep
<1>2. CallerGoto(c, r) /\ configStartLock = NoOwner /\ configStartLock' = c
  BY DEF acquire_daemon_reload_lock, CallerStep
<1> HIDE DEF r
<1> QED BY <1>2, <1>1, CallerMoves DEF acquire_daemon_reload_lock, Outside, AtStep, Fits

LEMMA AgainKeeps == ASSUME AcInv, NEW c \in Caller, Again(c) PROVE AcInv'
<1> DEFINE r == [caller[c] EXCEPT !.at = "granted"]
           q == [r EXCEPT !.reply = running]
           w == [caller[c] EXCEPT !.at = "verify"]
           v == [w EXCEPT !.reply = running]
<1>0. UNCHANGED <<disk, disabled, acUsed, running, reloads>> /\ caller[c].at = "query_again"
  BY DEF Again, Outside, AtStep
<1>2. q \in CallerRec /\ q.at = "granted" /\ q.cfg = caller[c].cfg /\ q.reply = running
      /\ FitsLoaded(c, q)
  BY <1>0, StepField DEF CallerSteps, LockedSteps
<1>3. v \in CallerRec /\ v.at = "verify" /\ v.cfg = caller[c].cfg /\ v.reply = running
      /\ FitsLoaded(c, v)
  BY <1>0, StepField DEF CallerSteps, LockedSteps
<1>4. \/ CallerGoto(c, q) /\ ActiveOf(running) = caller[c].cfg /\ configStartLock' = NoOwner
      \/ Ends(c, "refused")
      \/ CallerGoto(c, v) /\ configStartLock' = configStartLock
  BY DEF Again, CallerStep
<1> HIDE DEF q, v
<1>5. configStartLock = c /\ running.ver <= caller[c].cfg[1] BY <1>0 DEF AcInv, LockHeld, Asked, LockedSteps
<1>6. CASE CallerGoto(c, q) /\ ActiveOf(running) = caller[c].cfg /\ configStartLock' = NoOwner
  BY <1>2, <1>6, <1>0, <1>5, CallerMoves DEF Fits, LockedSteps
<1>7. CASE CallerGoto(c, v) /\ configStartLock' = configStartLock
  BY <1>3, <1>5, <1>0, <1>7, CallerMoves DEF Fits, FitsDaemon
<1> QED BY <1>0, <1>4, <1>6, <1>7, Refused

LEMMA VerifyKeeps == ASSUME AcInv, NEW c \in Caller, verify_automatic_config_reload(c) PROVE AcInv'
<1> DEFINE r == [caller[c] EXCEPT !.at = "load_third"]
<1>0. UNCHANGED <<disk, disabled, acUsed, running, reloads>> /\ caller[c].at = "verify"
  BY DEF verify_automatic_config_reload, Outside, AtStep
<1>1. r \in CallerRec /\ r.at = "load_third" /\ r.cfg = caller[c].cfg
      /\ r.reply = caller[c].reply /\ FitsLoaded(c, r)
  BY <1>0, StepField DEF LockedSteps
<1>2. \/ Ends(c, "refused")
      \/ /\ CallerGoto(c, r) /\ configStartLock' = configStartLock
         /\ caller[c].reply.exe = "new" /\ caller[c].reply.env = CallerEnv[c]
         /\ caller[c].reply.ver # caller[c].cfg[1]
  BY DEF verify_automatic_config_reload, CallerStep
<1> HIDE DEF r
<1>3. configStartLock = c /\ SameDaemon(c) /\ running.ver <= caller[c].cfg[1]
  BY <1>0 DEF AcInv, LockHeld, Asked, LockedSteps
<1>4. CASE /\ CallerGoto(c, r) /\ configStartLock' = configStartLock
           /\ caller[c].reply.exe = "new" /\ caller[c].reply.env = CallerEnv[c]
           /\ caller[c].reply.ver # caller[c].cfg[1]
  BY <1>1, <1>3, <1>4, <1>0, CallerMoves DEF AcInv, AcShapes, ReplyRec, FitsLoaded, FitsDaemon, SameDaemon, Fits
<1> QED BY <1>0, <1>2, <1>4, Refused

LEMMA HashKeeps == ASSUME AcInv, NEW c \in Caller, verify_active_config_hash(c) PROVE AcInv'
<1> DEFINE r == [caller[c] EXCEPT !.at = "granted"]
           q == [r EXCEPT !.reply = running]
<1>0. UNCHANGED <<disk, disabled, acUsed, running, reloads>> /\ caller[c].at = "query_last"
  BY DEF verify_active_config_hash, Outside, AtStep
<1>1. q \in CallerRec /\ q.at = "granted" /\ q.cfg = caller[c].cfg /\ q.reply = running
      /\ FitsLoaded(c, q)
  BY <1>0, StepField DEF CallerSteps
<1>2. \/ CallerGoto(c, q) /\ ActiveOf(running) = caller[c].cfg /\ configStartLock' = NoOwner
      \/ Ends(c, "refused")
  BY DEF verify_active_config_hash, CallerStep
<1> HIDE DEF q
<1>3. CASE CallerGoto(c, q) /\ ActiveOf(running) = caller[c].cfg /\ configStartLock' = NoOwner
  BY <1>0, <1>1, <1>3, CallerMoves DEF Fits, AcInv, LockHeld, LockedSteps
<1> QED BY <1>0, <1>2, <1>3, Refused

LEMMA RunCommandKeeps == ASSUME AcInv, NEW c \in Caller, RunCommand(c) PROVE AcInv'
<1> DEFINE r == [caller[c] EXCEPT !.at = "load"]
<1>1. r \in CallerRec /\ r.at = "load" BY AtField DEF AcInv, AcShapes, CallerSteps
<1>2. CallerGoto(c, r) /\ configStartLock' = configStartLock
      /\ UNCHANGED <<disk, disabled, acUsed, running, reloads>>
  BY DEF RunCommand, CallerStep
<1> HIDE DEF r
<1> QED BY <1>1, <1>2, CallerMoves DEF Fits, LockedSteps

(* A caller moves on under the lock while the daemon changes.                *)
LEMMA ShutdownKeeps ==
    ASSUME AcInv, NEW c \in Caller, request_config_reload_shutdown(c)
    PROVE  AcInv'
<1> DEFINE r == [caller[c] EXCEPT !.at = "spawn"]
           d == [running EXCEPT !.up = FALSE]
<1>0. UNCHANGED <<disk, disabled, acUsed>> /\ caller[c].at = "shutdown"
  BY DEF request_config_reload_shutdown, AtStep
<1>1. r \in CallerRec /\ r.at = "spawn" /\ r.cfg = caller[c].cfg
      /\ r.reply = caller[c].reply /\ FitsLoaded(c, r)
  BY <1>0, StepField DEF LockedSteps
<1>2. \/ Ends(c, "refused") /\ UNCHANGED <<running, reloads>>
      \/ /\ running' = d /\ reloads' = reloads + 1 /\ CallerGoto(c, r) /\ running.up
         /\ configStartLock' = configStartLock
  BY DEF request_config_reload_shutdown, CallerStep
<1>3. /\ d \in ReplyRec /\ d.up = FALSE /\ d.ver = running.ver /\ d.env = running.env
      /\ d.exe = running.exe /\ d.id = running.id
  BY DEF AcInv, AcShapes, ReplyRec
<1>4. /\ configStartLock = c /\ running.ver < caller[c].cfg[1]
      /\ caller[c].cfg[1] <= acUsed.edits + 1 /\ (disk # 0 => caller[c].cfg[1] <= disk)
      /\ caller[c].cfg[1] \in Nat
  BY <1>0 DEF AcInv, LockHeld, Asked, LockedSteps, CfgLoaded, Loaded
<1> HIDE DEF r, d
<1>5. CASE /\ running' = d /\ reloads' = reloads + 1 /\ CallerGoto(c, r) /\ running.up
           /\ configStartLock' = configStartLock
  <2>1. /\ caller' \in [Caller -> CallerRec] /\ caller'[c] = r
        /\ \A e \in Caller : e # c => caller'[e] = caller[e]
    BY <1>1, <1>5 DEF CallerGoto, AcInv, AcShapes
  <2>4. LockHeld' BY <1>4, <1>5, <2>1 DEF AcInv, LockHeld
  <2>5. CfgLoaded' BY <1>0, <1>1, <2>1 DEF AcInv, CfgLoaded, Loaded, FitsLoaded
  <2>6. Asked' BY <1>1, <1>3, <1>5, <2>1 DEF AcInv, Asked, SameDaemon
  <2>7. GrantedIsActive' BY <1>1, <2>1 DEF AcInv, GrantedIsActive, AtStep, ActiveOf, Config
  <2> QED BY <1>0, <1>3, <1>5, <2>1, <1>4, <2>4, <2>5, <2>6, <2>7 DEF AcInv, AcShapes, VersionsRise, ReplyRec
<1> QED BY <1>0, <1>2, <1>5, Refused

(* A daemon that starts reads the file as it is.                             *)
LEMMA SpawnedRec ==
    ASSUME AcInv, disk # 0, NEW e \in Env
    PROVE  /\ Spawned(e) \in ReplyRec /\ Spawned(e).up = TRUE /\ Spawned(e).ver = disk
           /\ Spawned(e).env = e
  BY DEF AcInv, AcShapes, ReplyRec, Spawned, Program

LEMMA ReplaceKeeps == ASSUME AcInv, NEW c \in Caller, Replace(c) PROVE AcInv'
<1> DEFINE r == [caller[c] EXCEPT !.at = "load_last"]
           d == Spawned(CallerEnv[c])
<1>0. UNCHANGED <<disk, disabled, acUsed, reloads>> /\ caller[c].at = "spawn" BY DEF Replace, AtStep
<1>1. r \in CallerRec /\ r.at = "load_last" /\ r.cfg = caller[c].cfg
      /\ r.reply = caller[c].reply /\ FitsLoaded(c, r)
  BY <1>0, StepField DEF LockedSteps
<1>2. \/ Ends(c, "refused") /\ UNCHANGED running
      \/ running' = d /\ disk # 0 /\ CallerGoto(c, r) /\ configStartLock' = configStartLock
  BY DEF Replace, CallerStep
<1>3. disk # 0 => d \in ReplyRec /\ d.up = TRUE /\ d.ver = disk /\ d.env \in Env BY SpawnedRec, CallerEnvs
<1>4. configStartLock = c BY <1>0 DEF AcInv, LockHeld, LockedSteps
<1> HIDE DEF r, d
<1>5. CASE running' = d /\ disk # 0 /\ CallerGoto(c, r) /\ configStartLock' = configStartLock
  <2>1. /\ caller' \in [Caller -> CallerRec] /\ caller'[c] = r
        /\ \A e \in Caller : e # c => caller'[e] = caller[e]
    BY <1>1, <1>5 DEF CallerGoto, AcInv, AcShapes
  <2>5. CfgLoaded' BY <1>0, <1>1, <2>1 DEF AcInv, CfgLoaded, Loaded, FitsLoaded
  <2>6. Asked' BY <1>1, <1>4, <2>1 DEF AcInv, LockHeld, LockedSteps, Asked
  <2>7. GrantedIsActive' BY <1>1, <2>1 DEF AcInv, GrantedIsActive, AtStep, ActiveOf, Config
  <2> QED BY <1>0, <1>3, <1>5, <2>1, <1>4, <2>5, <2>6, <2>7 DEF AcInv, LockHeld, AcShapes, VersionsRise, ReplyRec
<1> QED BY <1>0, <1>2, <1>5, Refused

LEMMA EditKeeps == ASSUME AcInv, Edit PROVE AcInv'
<1>1. /\ UNCHANGED <<running, configStartLock, disabled, caller, reloads>>
      /\ disk' \in {0, acUsed.edits + 2} /\ acUsed' = [acUsed EXCEPT !.edits = @ + 1]
  BY DEF Edit, AcSpend
<1>5. LockHeld' /\ Asked' /\ GrantedIsActive'
  BY <1>1 DEF AcInv, LockHeld, Asked, SameDaemon, GrantedIsActive, AtStep, ActiveOf, Config
<1>6. CfgLoaded' BY <1>1 DEF AcInv, CfgLoaded, Loaded, AcShapes
<1> QED BY <1>1, <1>5, <1>6 DEF AcInv, AcShapes, VersionsRise, ReplyRec

LEMMA TurnSpent ==
    ASSUME AcInv, AcSpend("turns", MaxTurns)
    PROVE  acUsed' \in [edits : Nat, turns : Nat] /\ acUsed'.edits = acUsed.edits
  BY DEF AcInv, AcShapes, AcSpend

(* The daemon changes but stays the one it was, busy, stopped or not.        *)
LEMMA DaemonMoves ==
    ASSUME AcInv, UNCHANGED <<disk, configStartLock, caller, reloads>>, disabled' \in BOOLEAN,
           acUsed' \in [edits : Nat, turns : Nat], acUsed'.edits = acUsed.edits,
           running' \in ReplyRec, running'.env \in Env, running'.ver = running.ver,
           running'.env = running.env, running'.exe = running.exe, running'.id = running.id,
           running'.up => running.up
    PROVE  AcInv'
  BY DEF AcInv, AcShapes, VersionsRise, ReplyRec, LockHeld, Asked, SameDaemon, GrantedIsActive, AtStep, ActiveOf,
    Config, CfgLoaded, Loaded

LEMMA WorkKeeps == ASSUME AcInv, Work PROVE AcInv'
<1> DEFINE d == [running EXCEPT !.busy = ~@]
<1>1. d \in ReplyRec /\ d.up = running.up /\ d.ver = running.ver /\ d.env = running.env
      /\ d.exe = running.exe /\ d.id = running.id
  BY DEF AcInv, AcShapes, ReplyRec
<1>2. running' = d /\ UNCHANGED <<disk, configStartLock, disabled, caller, reloads>>
      /\ AcSpend("turns", MaxTurns)
  BY DEF Work
<1> HIDE DEF d
<1> QED BY <1>1, <1>2, TurnSpent, DaemonMoves DEF AcInv, AcShapes

LEMMA LifecycleKeeps == ASSUME AcInv, Lifecycle PROVE AcInv'
<1> DEFINE d == [running EXCEPT !.up = FALSE]
<1>0. UNCHANGED <<disk, configStartLock, caller, reloads>> /\ AcSpend("turns", MaxTurns) BY DEF Lifecycle
<1>1. acUsed' \in [edits : Nat, turns : Nat] /\ acUsed'.edits = acUsed.edits BY <1>0, TurnSpent
<1>3. disabled \in BOOLEAN /\ running \in ReplyRec /\ running.env \in Env BY DEF AcInv, AcShapes
<1>4. CASE running' = d /\ disabled' = disabled
  <2>1. d \in ReplyRec /\ d.up = FALSE /\ d.ver = running.ver /\ d.env = running.env
        /\ d.exe = running.exe /\ d.id = running.id
    BY <1>3 DEF ReplyRec
  <2> HIDE DEF d
  <2> QED BY <1>0, <1>1, <1>3, <1>4, <2>1, DaemonMoves
<1>5. CASE disabled' = ~disabled /\ running' = running BY <1>0, <1>1, <1>3, <1>5, DaemonMoves
<1>6. CASE /\ ~running.up /\ configStartLock = NoOwner /\ disk # 0 /\ disabled' = disabled
           /\ \E e \in Env : running' = Spawned(e)
  <2>1. running' \in ReplyRec /\ running'.up = TRUE /\ running'.ver = disk /\ running'.env \in Env
    BY <1>6, SpawnedRec
  <2>2. AcShapes' BY <1>0, <1>1, <1>3, <1>6, <2>1 DEF AcInv, AcShapes
  <2>3. VersionsRise' BY <1>0, <1>1, <1>6, <2>1 DEF AcInv, AcShapes, VersionsRise, ReplyRec
  <2>5. Asked' BY <1>0, <1>6, ActiveConfigAssumption DEF AcInv, LockHeld, LockedSteps, Asked
  <2> QED
    BY <2>2, <2>3, <1>0, <1>1, <2>5 DEF AcInv, LockHeld, GrantedIsActive, AtStep, ActiveOf, Config, CfgLoaded,
      Loaded
<1> QED BY <1>4, <1>5, <1>6 DEF Lifecycle

LEMMA RequireKeeps == ASSUME AcInv, NEW c \in Caller, require_active_config(c) PROVE AcInv'
  BY LoadKeeps, ModeKeeps, QueryKeeps, AcquireKeeps, AgainKeeps, VerifyKeeps, ShutdownKeeps, ReplaceKeeps, HashKeeps
    DEF require_active_config

LEMMA AcStepInv == ASSUME AcInv, AcNext PROVE AcInv'
  BY RunCommandKeeps, RequireKeeps, EditKeeps, WorkKeeps, LifecycleKeeps DEF AcNext

LEMMA AcStutters == ASSUME AcInv, UNCHANGED acVars PROVE AcInv'
  BY DEF AcInv, AcShapes, VersionsRise, LockHeld, CfgLoaded, Loaded, Asked, SameDaemon, GrantedIsActive, AtStep,
    ActiveOf, Config, acVars

LEMMA AcSound == AcInv => ActiveConfigSound BY DEF AcInv, VersionsRise, ActiveConfigSound, OneReloadPerEdit

(* What a step of a command may do to the daemon.                            *)
LEMMA NoTakeover ==
    ASSUME AcInv, NEW c \in Caller, require_active_config(c), running' # running
    PROVE  /\ ~running'.up => running.exe = "new" /\ running.env = CallerEnv[c] /\ ~running.busy
           /\ running'.up => AtStep(c, "spawn")
<1>2. CASE request_config_reload_shutdown(c)
  BY <1>2 DEF request_config_reload_shutdown, AcInv, AcShapes, ReplyRec, AtStep, Asked
<1>3. CASE Replace(c) BY <1>3 DEF Replace, Spawned
<1> QED
  BY <1>2, <1>3 DEF require_active_config, load_config_for_reload, QueryFirst, Mode, acquire_daemon_reload_lock,
    Again, verify_automatic_config_reload, verify_active_config_hash, Outside

-----------------------------------------------------------------------------
(* Kill Server.                                                              *)

KillerSteps == {"resolve", "groups", "disable", "refresh", "term", "alive", "kill", "verify",
                "presence", "kill_server", "kill_failed", "done", "failed"}
KillerRec == [at : KillerSteps, server : Nat, todo : SUBSET Workload, groups : SUBSET Workload,
              survivors : SUBSET Workload, signalled : SUBSET Workload, disabled : BOOLEAN,
              verified : Nat, killed : SUBSET Nat]

Dies(g) == group[g] = "dead"

(* How far the command has come with the groups it asked to terminate, and   *)
(* what it knows of the server.                                              *)
KillerKnows ==
    /\ killer.at = "alive" =>
          \A g \in killer.groups : Dies(g) \/ g \in killer.survivors \/ g \in killer.todo
    /\ killer.at = "kill" => \A g \in killer.groups : Dies(g) \/ g \in killer.survivors
    /\ killer.at = "verify" => \A g \in killer.groups : Dies(g) \/ g \in killer.todo
    /\ killer.at \in {"presence", "kill_server", "kill_failed", "done"} =>
          \A g \in killer.groups : Dies(g)
    /\ killer.at \notin {"resolve", "failed"} => killer.server # 0
    /\ killer.at = "done" => server # killer.server
    /\ killer.at \in {"refresh", "term", "alive", "kill", "verify", "presence", "kill_server"} =>
          killer.disabled
    /\ killer.at = "kill_server" => killer.verified = killer.server
    /\ killer.killed # {} =>
          killer.at = "done" /\ killer.verified = killer.server /\ killer.disabled

KillShapes ==
    /\ server \in Nat /\ killer \in KillerRec
    /\ group \in [Group -> {"unborn", "up", "elsewhere", "dead"}]

KillInv == KillShapes /\ KillerKnows

LEMMA KillInitInv == KillInit => KillInv
  BY DEF KillInit, NewKiller, KillerRec, KillerSteps, KillShapes, KillInv, KillerKnows

LEMMA KillSoundHere == KillInv => KillSound
  BY DEF KillInv, KillShapes, KillerKnows, KillerRec, KillSound, NothingLeft, OnlyTheWorkload, KillerAt, Dies

(* The record of the command with the step it goes to.                       *)
LEMMA KillerAtField ==
    ASSUME NEW r \in KillerRec, NEW a \in KillerSteps
    PROVE  LET q == [r EXCEPT !.at = a]
           IN  /\ q \in KillerRec /\ q.at = a /\ q.server = r.server /\ q.todo = r.todo
               /\ q.groups = r.groups /\ q.survivors = r.survivors /\ q.signalled = r.signalled
               /\ q.disabled = r.disabled /\ q.verified = r.verified /\ q.killed = r.killed
  BY DEF KillerRec

(* The same command at another step.                                         *)
LEMMA KillerGoes ==
    ASSUME KillInv, NEW a \in KillerSteps, KillGoto(killer, a)
    PROVE  /\ killer' \in KillerRec /\ killer'.at = a /\ killer'.server = killer.server
           /\ killer'.todo = killer.todo /\ killer'.groups = killer.groups
           /\ killer'.survivors = killer.survivors /\ killer'.signalled = killer.signalled
           /\ killer'.disabled = killer.disabled /\ killer'.verified = killer.verified
           /\ killer'.killed = killer.killed
  BY KillerAtField DEF KillInv, KillShapes, KillGoto

LEMMA FailureKeeps ==
    ASSUME KillInv, KillGoto(killer, "failed"), UNCHANGED <<server, group>>, killer.at # "done"
    PROVE  KillInv'
  BY KillerGoes DEF KillerSteps, KillInv, KillShapes, KillerKnows

LEMMA ServerKeeps == ASSUME KillInv, resolve_server PROVE KillInv'
<1>1. CASE server = 0 BY <1>1, FailureKeeps DEF resolve_server, KillerAt, GroupsChange
<1>2. CASE server # 0
  <2> DEFINE r == [killer EXCEPT !.server = server]
  <2>1. r \in KillerRec /\ r.server = server /\ r.killed = killer.killed BY DEF KillInv, KillShapes, KillerRec
  <2>2. killer' = [r EXCEPT !.at = "groups"] /\ UNCHANGED <<server, group>> /\ killer.at = "resolve"
    BY <1>2 DEF resolve_server, KillGoto, GroupsChange, KillerAt
  <2> HIDE DEF r
  <2>0. "groups" \in KillerSteps BY DEF KillerSteps
  <2> QED BY <1>2, <2>2, <2>0, <2>1, KillerAtField DEF KillInv, KillShapes, KillerKnows
<1> QED BY <1>1, <1>2

LEMMA InitialGroupsKeeps == ASSUME KillInv, InitialGroups PROVE KillInv'
  BY KillerGoes DEF InitialGroups, KillerSteps, GroupsChange, KillInv, KillShapes, KillerKnows, KillerAt

LEMMA DisableKeeps == ASSUME KillInv, disable_daemon PROVE KillInv'
<1> DEFINE r == [killer EXCEPT !.disabled = TRUE]
<1>1. r \in KillerRec /\ r.disabled = TRUE /\ r.server = killer.server /\ r.killed = killer.killed
  BY DEF KillInv, KillShapes, KillerRec
<1>2. killer' = [r EXCEPT !.at = "refresh"] /\ UNCHANGED <<server, group>> /\ killer.at = "disable"
  BY DEF disable_daemon, KillGoto, GroupsChange, KillerAt
<1> HIDE DEF r
<1>3. killer' \in KillerRec /\ killer'.at = "refresh" /\ killer'.server = killer.server
      /\ killer'.killed = killer.killed /\ killer'.disabled = TRUE
  BY <1>1, <1>2, KillerAtField DEF KillerSteps
<1> QED BY <1>2, <1>3 DEF KillInv, KillShapes, KillerKnows

LEMMA RefreshKeeps == ASSUME KillInv, RefreshGroups PROVE KillInv'
<1> DEFINE r == [killer EXCEPT !.groups = process_groups, !.todo = process_groups]
<1>1. r \in KillerRec /\ r.disabled = killer.disabled /\ r.server = killer.server /\ r.killed = killer.killed
  BY DEF KillInv, KillShapes, KillerRec, process_groups, Workload
<1>2. killer' = [r EXCEPT !.at = "term"] /\ UNCHANGED <<server, group>> /\ killer.at = "refresh"
  BY DEF RefreshGroups, KillGoto, GroupsChange, KillerAt
<1> HIDE DEF r
<1>4. "term" \in KillerSteps BY DEF KillerSteps
<1> QED BY <1>2, <1>1, <1>4, KillerAtField DEF KillInv, KillShapes, KillerKnows

(* Starting over with the groups or with the survivors.                      *)
LEMMA TodoAgain ==
    ASSUME KillInv, NEW T \in SUBSET Workload, NEW a \in KillerSteps,
           KillGoto([killer EXCEPT !.todo = T], a)
    PROVE  /\ killer' \in KillerRec /\ killer'.at = a /\ killer'.server = killer.server
           /\ killer'.todo = T /\ killer'.groups = killer.groups
           /\ killer'.survivors = killer.survivors /\ killer'.signalled = killer.signalled
           /\ killer'.disabled = killer.disabled /\ killer'.verified = killer.verified
           /\ killer'.killed = killer.killed
<1> DEFINE r == [killer EXCEPT !.todo = T]
<1>1. /\ r \in KillerRec /\ r.server = killer.server /\ r.todo = T /\ r.groups = killer.groups
      /\ r.survivors = killer.survivors /\ r.signalled = killer.signalled
      /\ r.disabled = killer.disabled /\ r.verified = killer.verified /\ r.killed = killer.killed
  BY DEF KillInv, KillShapes, KillerRec
<1>2. killer' = [r EXCEPT !.at = a] BY DEF KillGoto
<1> HIDE DEF r
<1> QED BY <1>1, <1>2, KillerAtField

(* A group that is signalled, and may end.                                   *)
LEMMA SignalField ==
    ASSUME KillInv, NEW g \in killer.todo, NEW a \in KillerSteps, killer' = Signal(g, a)
    PROVE  /\ killer' \in KillerRec /\ killer'.at = a /\ killer'.server = killer.server
           /\ killer'.todo = killer.todo \ {g} /\ killer'.groups = killer.groups
           /\ killer'.survivors = killer.survivors
           /\ killer'.disabled = killer.disabled /\ killer'.verified = killer.verified
           /\ killer'.killed = killer.killed
<1> DEFINE r == [killer EXCEPT !.todo = @ \ {g}]
           q == [r EXCEPT !.signalled = @ \cup {g}]
<1>1. /\ r \in KillerRec /\ r.server = killer.server /\ r.todo = killer.todo \ {g}
      /\ r.groups = killer.groups /\ r.survivors = killer.survivors
      /\ r.disabled = killer.disabled /\ r.verified = killer.verified /\ r.killed = killer.killed
  BY DEF KillerRec, KillInv, KillShapes
<1>2. killer' = [q EXCEPT !.at = a] BY DEF Signal
<1> HIDE DEF r
<1>3. /\ q \in KillerRec /\ q.server = r.server /\ q.todo = r.todo
      /\ q.groups = r.groups /\ q.survivors = r.survivors
      /\ q.disabled = r.disabled /\ q.verified = r.verified /\ q.killed = r.killed
  BY <1>1 DEF KillerRec, KillInv, KillShapes
<1> HIDE DEF q
<1> QED BY <1>1, <1>2, <1>3, KillerAtField

LEMMA GroupEnds ==
    ASSUME KillInv, NEW g, group' \in {group, [group EXCEPT ![g] = "dead"]}
    PROVE  /\ group' \in [Group -> {"unborn", "up", "elsewhere", "dead"}]
           /\ \A h \in Group : Dies(h) => Dies(h)'
  BY DEF KillInv, KillShapes, Dies

LEMMA GroupsOfKiller ==
    KillInv => /\ killer.groups \subseteq Group /\ killer.todo \subseteq Workload
               /\ killer.survivors \subseteq Workload /\ killer.groups \subseteq Workload
  BY DEF KillInv, KillShapes, KillerRec, Workload

LEMMA TermKeeps == ASSUME KillInv, send_term PROVE KillInv'
<1>1. CASE killer.todo = {}
  BY <1>1, TodoAgain, GroupsOfKiller DEF send_term, KillerSteps, KillInv, KillShapes, KillerKnows, KillerAt
<1>2. CASE killer.todo # {}
  BY <1>2, SignalField, GroupEnds DEF send_term, KillerSteps, KillInv, KillShapes, KillerKnows, KillerAt
<1> QED BY <1>1, <1>2

LEMMA AliveKeeps == ASSUME KillInv, process_group_alive PROVE KillInv'
<1>1. CASE killer.todo = {}
  BY <1>1, TodoAgain, GroupsOfKiller DEF process_group_alive, KillerSteps, KillInv, KillShapes, KillerKnows, Dies,
    KillerAt, GroupsChange
<1>2. CASE killer.todo # {}
  <2>1. PICK g \in killer.todo :
           KillGoto([killer EXCEPT !.todo = @ \ {g},
                                   !.survivors = IF group[g] = "dead" THEN @ ELSE @ \cup {g}], "alive")
    BY <1>2 DEF process_group_alive
  <2> DEFINE S == IF group[g] = "dead" THEN killer.survivors ELSE killer.survivors \cup {g}
             r == [killer EXCEPT !.todo = @ \ {g}]
             q == [r EXCEPT !.survivors = S]
  <2>2. killer \in KillerRec /\ g \in Workload /\ S \in SUBSET Workload BY DEF KillInv, KillShapes, KillerRec
  <2>3. /\ r \in KillerRec /\ r.server = killer.server /\ r.todo = killer.todo \ {g}
        /\ r.groups = killer.groups /\ r.survivors = killer.survivors
        /\ r.disabled = killer.disabled /\ r.killed = killer.killed
    BY <2>2 DEF KillerRec
  <2>4. killer' = [q EXCEPT !.at = "alive"] BY <2>3, <2>2, <2>1 DEF KillerRec, KillGoto
  <2>5. /\ group[g] = "dead" \/ g \in S
        /\ killer.survivors \subseteq S
    OBVIOUS
  <2> HIDE DEF r, S
  <2>6. /\ q \in KillerRec /\ q.server = r.server /\ q.todo = r.todo
        /\ q.groups = r.groups /\ q.survivors = S
        /\ q.disabled = r.disabled /\ q.killed = r.killed
    BY <2>2, <2>3 DEF KillerRec
  <2> HIDE DEF q
  <2>7. /\ killer' \in KillerRec /\ killer'.at = "alive" /\ killer'.server = killer.server
        /\ killer'.todo = killer.todo \ {g} /\ killer'.groups = killer.groups
        /\ killer'.survivors = S /\ killer'.disabled = killer.disabled
        /\ killer'.killed = killer.killed
    <3>1. /\ killer' \in KillerRec /\ killer'.at = "alive" /\ killer'.server = q.server
          /\ killer'.todo = q.todo /\ killer'.groups = q.groups /\ killer'.survivors = q.survivors
          /\ killer'.disabled = q.disabled /\ killer'.killed = q.killed
      <4>1. q \in KillerRec /\ "alive" \in KillerSteps BY <2>6 DEF KillerSteps
      <4> QED BY ONLY <2>4, <4>1, KillerAtField
    <3> QED BY ONLY <2>3, <2>6, <3>1
  <2> QED BY <2>7, <2>5 DEF KillInv, KillShapes, KillerKnows, Dies, process_group_alive, KillerAt, GroupsChange
<1> QED BY <1>1, <1>2

LEMMA SendKillKeeps == ASSUME KillInv, send_kill PROVE KillInv'
  BY TodoAgain, GroupsOfKiller, SignalField, GroupEnds DEF send_kill, KillerAt, KillerSteps, KillInv, KillShapes,
    KillerKnows, Dies

LEMMA VerifyDeadKeeps == ASSUME KillInv, VerifyDead PROVE KillInv'
<1>0. killer.at = "verify" /\ UNCHANGED <<server, group>> BY DEF VerifyDead, KillerAt, GroupsChange
<1>1. CASE killer.todo = {} /\ KillGoto(killer, "presence")
  BY <1>1, KillerGoes, <1>0 DEF KillerSteps, KillInv, KillShapes, KillerKnows, Dies
<1>2. CASE \E g \in killer.todo :
              group[g] = "dead" /\ KillGoto([killer EXCEPT !.todo = @ \ {g}], "verify")
  <2>1. PICK g \in killer.todo :
           group[g] = "dead" /\ KillGoto([killer EXCEPT !.todo = @ \ {g}], "verify")
    BY <1>2
  <2>3. /\ killer' \in KillerRec /\ killer'.at = "verify" /\ killer'.server = killer.server
        /\ killer'.groups = killer.groups /\ killer'.todo = killer.todo \ {g}
        /\ killer'.disabled = killer.disabled /\ killer'.killed = killer.killed
    BY <2>1, TodoAgain, GroupsOfKiller DEF KillerSteps
  <2> QED BY <1>0, <2>1, <2>3 DEF KillInv, KillShapes, KillerKnows, Dies
<1>3. CASE KillGoto(killer, "failed") BY <1>0, <1>3, FailureKeeps
<1> QED BY <1>1, <1>2, <1>3 DEF VerifyDead

LEMMA PresenceKeeps ==
    ASSUME KillInv, NEW from, NEW absent, NEW present, server_presence(from, absent, present),
           <<from, absent, present>> \in {<<"presence", "done", "kill_server">>,
                                          <<"kill_failed", "done", "failed">>}
    PROVE  KillInv'
<1>0. killer.at = from /\ UNCHANGED <<server, group>> /\ absent = "done"
      /\ present \in {"kill_server", "failed"} /\ from \in {"presence", "kill_failed"}
  BY DEF server_presence, KillerAt, GroupsChange
<1>1. CASE server = 0 /\ KillGoto(killer, "done")
  BY <1>1, KillerGoes, <1>0 DEF KillerSteps, KillInv, KillShapes, KillerKnows, Dies
<1>2. CASE server = killer.server /\ KillGoto([killer EXCEPT !.verified = server], present)
  <2> DEFINE r == [killer EXCEPT !.verified = server]
  <2>1. /\ r \in KillerRec /\ r.server = killer.server /\ r.groups = killer.groups
        /\ r.disabled = killer.disabled /\ r.killed = killer.killed /\ r.verified = server
    BY DEF KillInv, KillShapes, KillerRec
  <2>2. killer' = [r EXCEPT !.at = present] /\ present \in KillerSteps BY <1>0, <1>2 DEF KillGoto, KillerSteps
  <2> HIDE DEF r
  <2> QED BY <1>0, <1>2, <2>1, <2>2, KillerAtField DEF KillInv, KillShapes, KillerKnows, Dies
<1>3. CASE KillGoto(killer, "failed") BY <1>0, <1>3, FailureKeeps
<1> QED BY <1>0, <1>1, <1>2, <1>3 DEF server_presence

LEMMA KillServerKeeps == ASSUME KillInv, kill_server PROVE KillInv'
<1>1. CASE server = 0 /\ KillGoto(killer, "kill_failed") /\ UNCHANGED <<server, group>>
  BY <1>1, KillerGoes DEF KillerSteps, KillInv, KillShapes, KillerKnows, Dies, kill_server, KillerAt
<1>2. CASE /\ server # 0 /\ server' = 0
           /\ group' = [g \in Group |->
                  IF g = ServerGroup \/ (group[g] = "up" /\ g # SelfGroup) THEN "dead" ELSE group[g]]
           /\ KillGoto([killer EXCEPT !.killed = @ \cup {server}], "done")
  <2> DEFINE r == [killer EXCEPT !.killed = @ \cup {server}]
  <2>1. /\ r \in KillerRec /\ r.server = killer.server /\ r.groups = killer.groups
        /\ r.disabled = killer.disabled /\ r.verified = killer.verified
    BY DEF KillInv, KillShapes, KillerRec
  <2>2. killer' = [r EXCEPT !.at = "done"] BY <1>2 DEF KillGoto
  <2> HIDE DEF r
  <2>3. /\ killer' \in KillerRec /\ killer'.server = killer.server
        /\ killer'.groups = killer.groups /\ killer'.at = "done"
        /\ killer'.disabled = killer.disabled /\ killer'.verified = killer.verified
    BY <2>1, <2>2, KillerAtField DEF KillerSteps
  <2> QED BY <1>2, <2>3, GroupsOfKiller DEF KillInv, KillShapes, KillerKnows, kill_server, KillerAt, Dies
<1> QED BY <1>1, <1>2 DEF kill_server

(* The groups and the server by themselves.                                  *)
LEMMA GroupMovesKeeps == ASSUME KillInv, GroupMoves PROVE KillInv'
  BY GroupsOfKiller DEF GroupMoves, KillInv, KillShapes, Dies, KillerKnows

LEMMA ServerMovesKeeps == ASSUME KillInv, ServerMoves PROVE KillInv'
  BY GroupEnds, GroupsOfKiller DEF ServerMoves, KillInv, KillShapes, KillerRec, KillerKnows

LEMMA KillStepInv == ASSUME KillInv, KillNext PROVE KillInv'
<1>1. CASE clean_kill_server
  <2>1. \/ resolve_server \/ InitialGroups \/ disable_daemon \/ RefreshGroups \/ send_term
        \/ process_group_alive \/ send_kill \/ VerifyDead \/ kill_server
        \/ server_presence("presence", "done", "kill_server")
        \/ server_presence("kill_failed", "done", "failed")
    BY <1>1 DEF clean_kill_server
  <2> QED
    BY <2>1, ServerKeeps, InitialGroupsKeeps, DisableKeeps, RefreshKeeps, TermKeeps, AliveKeeps, SendKillKeeps,
      VerifyDeadKeeps, KillServerKeeps, PresenceKeeps
<1>2. CASE failure BY <1>2, FailureKeeps DEF failure, KillerAt
<1> QED BY <1>1, <1>2, GroupMovesKeeps, ServerMovesKeeps DEF KillNext

LEMMA KillStutters == ASSUME KillInv, UNCHANGED killVars PROVE KillInv'
  BY DEF KillInv, KillShapes, KillerKnows, Dies, killVars

-----------------------------------------------------------------------------
(* PromptClient: the request file, the processes and their Operations.       *)

ProcSteps == {"idle", "lock", "read", "publish", "start", "sent", "poll", "resume", "settle", "timeout"}
OpStates == {"absent", "prepared", "started", "confirmed", "unknown", "rejected"}
OpRec == [state : OpStates, prompt : Supplied, delivered : Nat, abandoned : BOOLEAN,
          run : {"none", "working", "blocked", "done", "ended"}]
OutRec == [side : {"nothing", "confirmed", "possible", "none"},
           advice : {"nothing", "done", "inspect_manually", "retry_same_request",
                     "wait_then_retry", "fix_request", "refresh_target", "wait_again"}]
ProcRec == [cmd : {"none", "request", "operation_wait", "run_wait"}, at : ProcSteps,
            supplied : Supplied, id : Nat, prompt : Supplied, late : BOOLEAN, reached : BOOLEAN,
            sent : Nat, seen : OpRec, follow : BOOLEAN, out : OutRec]
FileRec == [phase : {"absent", "active", "known"}, id : Nat, prompt : Supplied]

ClientShapes ==
    /\ proc \in [Proc -> ProcRec] /\ ops \in [Ids -> OpRec] /\ file \in FileRec
    /\ wire \subseteq [id : Nat, prompt : Supplied, serial : Nat]
    /\ lock \subseteq Proc /\ {fresh, sends, promptCommands} \subseteq Nat

(* What the Operations are: of the file's identifier, delivered at most once.*)
OpFits(i, o, f) ==
    /\ o.state # "absent" => f.phase # "absent" /\ i = f.id /\ o.prompt = f.prompt
    /\ o.delivered <= 1
    /\ o.state \in {"absent", "prepared", "rejected"} => o.delivered = 0
    /\ o.state = "confirmed" => o.delivered = 1
    /\ o.run # "none" => o.state = "confirmed"
OpsFit == \A i \in Ids : OpFits(i, ops[i], file)

(* Whoever is past the lock is alone; it alone writes the file.              *)
ProcFits(c, p, f, os, l) ==
    /\ p.at \in {"lock", "read", "publish"} => p.seen.state = "absent"
    /\ p.at \in {"lock", "read", "publish", "start", "sent", "resume"} => p.cmd = "request"
    /\ p.cmd = "request" /\ p.at \notin {"idle", "lock"} => c \in l
    /\ p.at = "publish" => f.phase = "absent" /\ p.id \in Ids
    /\ p.at \in {"start", "sent"} => f.phase = "active" /\ p.id = f.id /\ p.prompt = f.prompt
    /\ p.at \in {"start", "sent", "resume", "poll", "settle", "timeout"} => p.id \in Ids
    /\ p.seen.state \in {"confirmed", "rejected"} => p.id \in Ids /\ os[p.id].state = p.seen.state
    /\ p.cmd = "run_wait" /\ p.at \in {"poll", "settle", "timeout"} => os[p.id].run # "none"
    /\ p.cmd = "run_wait" /\ p.at = "settle" /\ p.follow => os[p.id].run = "done"
    /\ p.at # "idle" => p.out.side # "confirmed" /\ p.out.advice \notin {"refresh_target", "done"}
    /\ p.out.side = "confirmed" => p.id \in Ids /\ os[p.id].delivered = 1
    /\ p.out.advice = "refresh_target" => p.id \in Ids /\ os[p.id].state = "rejected"
    /\ p.out.advice = "done" /\ p.cmd = "run_wait" /\ p.follow =>
          p.id \in Ids /\ os[p.id].run = "done"
ProcsFit == \A c \in Proc : ProcFits(c, proc[c], file, ops, lock)

FileFits ==
    /\ file.phase # "absent" => file.id \in Ids
    /\ \A r \in wire : file.phase # "absent" /\ r.id = file.id /\ r.prompt = file.prompt
    /\ \A a, b \in lock : a = b

(* A command generates one identifier at most.                               *)
Undecided == {c \in Proc : proc[c].cmd = "request" /\ proc[c].at \in {"lock", "read"}}
Counted == /\ fresh + Cardinality(Undecided) <= promptCommands
           /\ promptCommands <= MaxPromptCommands

ClientInv == ClientShapes /\ OpsFit /\ ProcsFit /\ FileFits /\ Counted

LEMMA ClientInitInv == ClientInit => ClientInv
<1> SUFFICES ASSUME ClientInit PROVE ClientInv OBVIOUS
<1>1. NoOperation \in OpRec /\ NoOperation.state = "absent" /\ NoOperation.delivered = 0
      /\ NoOperation.run = "none"
  BY DEF NoOperation, OpRec, OpStates, Supplied
<1>3. /\ ClientIdle \in ProcRec /\ ClientIdle.at = "idle" /\ ClientIdle.seen.state = "absent"
      /\ ClientIdle.out.side = "nothing" /\ ClientIdle.out.advice = "nothing"
      /\ ClientIdle.cmd = "none"
  BY <1>1 DEF ClientIdle, ProcRec, ProcSteps, Supplied, Silent, Printed, OutRec
<1>6. OpsFit /\ ProcsFit /\ FileFits
  BY <1>1, <1>3 DEF ClientInit, OpsFit, OpFits, ProcsFit, ProcFits, FileFits, Absent, FileRec, Supplied
<1>7. Counted
  <2>1. Undecided = {} BY <1>3 DEF ClientInit, Undecided
  <2> QED BY <2>1, FS_EmptySet, ClientAssumption DEF ClientInit, Counted
<1> QED BY <1>1, <1>3, <1>6, <1>7 DEF ClientInv, ClientInit, ClientShapes, Absent, FileRec, Supplied

LEMMA LockCard == ASSUME NEW S \in SUBSET Proc, \A a, b \in S : a = b PROVE Cardinality(S) <= 1
<1>1. CASE S = {} BY <1>1, FS_EmptySet
<1>2. CASE S # {} BY <1>2, FS_Singleton
<1> QED BY <1>1, <1>2

LEMMA RequestIsSound == ClientInv => RequestSound
  BY LockCard DEF ClientInv, ClientShapes, FileFits, OpsFit, OpFits, ProcsFit, ProcFits, RequestSound

(* What an Operation never takes back.                                       *)
OpGrows(o, q) ==
    /\ o.state \in {"confirmed", "rejected"} => q.state = o.state
    /\ o.run # "none" => q.run # "none"
    /\ o.run = "done" => q.run = "done"
    /\ o.delivered = 1 => q.delivered = 1

LEMMA Undisturbed ==
    ASSUME NEW d, NEW p, NEW f, NEW g, NEW os, NEW ns, NEW l, NEW m,
           ProcFits(d, p, f, os, l), d \in l => d \in m,
           f = g \/ d \notin l, \A i \in Ids : OpGrows(os[i], ns[i])
    PROVE  ProcFits(d, p, g, ns, m)
  BY DEF ProcFits, OpGrows

(* One process moves on: the others keep what fits them.                     *)
LEMMA ProcMoves ==
    ASSUME ClientInv, NEW c \in Proc, NEW p \in ProcRec, proc' = [proc EXCEPT ![c] = p],
           ProcFits(c, p, file', ops', lock'),
           \A d \in Proc : d # c => (d \in lock => d \in lock'),
           file' = file \/ c \in lock, \A i \in Ids : OpGrows(ops[i], ops'[i])
    PROVE  /\ proc' \in [Proc -> ProcRec] /\ ProcsFit' /\ proc'[c] = p
           /\ \A d \in Proc : d # c => proc'[d] = proc[d]
  BY Undisturbed DEF ClientInv, ClientShapes, FileFits, ProcsFit

LEMMA SameOps == ops' = ops => \A i \in Ids : OpGrows(ops[i], ops'[i]) BY DEF OpGrows

(* The commands still to decide on an identifier.                            *)
Deciding(p) == p.cmd = "request" /\ p.at \in {"lock", "read"}

LEMMA Counting ==
    ASSUME NEW S, IsFiniteSet(S), NEW T, NEW x, T \subseteq S \cup {x}
    PROVE  /\ Cardinality(T) \in Nat /\ Cardinality(S) \in Nat
           /\ Cardinality(T) <= Cardinality(S) + 1
           /\ T \subseteq S => Cardinality(T) <= Cardinality(S)
           /\ x \in S /\ T \subseteq S \ {x} => Cardinality(T) + 1 <= Cardinality(S)
<1>2. /\ IsFiniteSet(S \cup {x})
      /\ Cardinality(S \cup {x}) = IF x \in S THEN Cardinality(S) ELSE Cardinality(S) + 1
  BY FS_AddElement
<1>4. Cardinality(T) \in Nat BY <1>2, FS_Subset, FS_CardinalityType
<1>5. T \subseteq S => Cardinality(T) <= Cardinality(S) BY FS_Subset
<1>6. ASSUME x \in S, T \subseteq S \ {x} PROVE Cardinality(T) + 1 <= Cardinality(S)
  BY <1>6, FS_RemoveElement, FS_CardinalityType, <1>4, FS_Subset
<1> QED BY FS_CardinalityType, <1>2, FS_Subset, <1>4, <1>5, <1>6

LEMMA CountKept ==
    ASSUME ClientInv, NEW c \in Proc, NEW p \in ProcRec,
           proc' \in [Proc -> ProcRec], proc'[c] = p, \A d \in Proc : d # c => proc'[d] = proc[d],
           \/ /\ fresh' = fresh /\ promptCommands' = promptCommands
              /\ Deciding(p) => Deciding(proc[c])
           \/ /\ fresh' = fresh + 1 /\ promptCommands' = promptCommands
              /\ Deciding(proc[c]) /\ ~Deciding(p)
           \/ /\ fresh' = fresh /\ promptCommands' = promptCommands + 1
              /\ promptCommands < MaxPromptCommands
    PROVE  Counted'
<1>0. /\ IsFiniteSet(Undecided) /\ fresh \in Nat
      /\ promptCommands \in Nat /\ MaxPromptCommands \in Nat
  BY ClientAssumption, FS_Subset DEF Undecided, ClientInv, ClientShapes
<1>4. fresh' + Cardinality(Undecided') <= promptCommands' /\ promptCommands' <= MaxPromptCommands
  BY <1>0, Counting DEF ClientInv, Counted, Undecided, Deciding
<1> QED BY <1>4 DEF Counted

(* The file is written: created, or its Operation is known.                  *)
FileStep ==
    \/ file' = file
    \/ /\ file' \in FileRec /\ file'.phase # "absent" /\ file'.id \in Ids
       /\ file.phase # "absent" => file'.id = file.id /\ file'.prompt = file.prompt

LEMMA FileKeeps ==
    ASSUME ClientInv, FileStep, ops' = ops, wire' = wire
    PROVE  /\ OpsFit' /\ file' \in FileRec
           /\ file'.phase # "absent" => file'.id \in Ids
           /\ \A r \in wire' : file'.phase # "absent" /\ r.id = file'.id /\ r.prompt = file'.prompt
  BY DEF ClientInv, ClientShapes, OpsFit, OpFits, FileFits, FileStep

LEMMA StepKeeps ==
    ASSUME ClientInv, NEW c \in Proc, NEW p \in ProcRec, proc' = [proc EXCEPT ![c] = p],
           ProcFits(c, p, file', ops', lock'),
           \/ lock' = lock \/ lock' = lock \ {c}
           \/ lock = {} /\ lock' = {c},
           FileStep, file' = file \/ c \in lock, ops' = ops, wire' = wire, sends' = sends,
           \/ /\ fresh' = fresh /\ promptCommands' = promptCommands
              /\ Deciding(p) => Deciding(proc[c])
           \/ /\ fresh' = fresh + 1 /\ promptCommands' = promptCommands
              /\ Deciding(proc[c]) /\ ~Deciding(p)
           \/ /\ fresh' = fresh /\ promptCommands' = promptCommands + 1
              /\ promptCommands < MaxPromptCommands
    PROVE  ClientInv'
<1>4. /\ OpsFit' /\ file' \in FileRec
      /\ file'.phase # "absent" => file'.id \in Ids
      /\ \A r \in wire' : file'.phase # "absent" /\ r.id = file'.id /\ r.prompt = file'.prompt
  BY FileKeeps
<1>6. ClientShapes' BY SameOps, ProcMoves, <1>4 DEF ClientInv, ClientShapes
<1> QED BY SameOps, ProcMoves, CountKept, <1>4, <1>6 DEF ClientInv, FileFits

(* A command that ends prints something that is still true.                  *)
OutFits(p, out) ==
    /\ out.side = "confirmed" => p.id \in Ids /\ ops[p.id].delivered = 1
    /\ out.advice = "refresh_target" => p.id \in Ids /\ ops[p.id].state = "rejected"
    /\ out.advice = "done" /\ p.cmd = "run_wait" /\ p.follow =>
          p.id \in Ids /\ ops[p.id].run = "done"

LEMMA IdleRec ==
    /\ ClientIdle \in ProcRec /\ ClientIdle.at = "idle" /\ ClientIdle.seen.state = "absent"
    /\ ClientIdle.out.side = "nothing" /\ ClientIdle.out.advice = "nothing"
    /\ ClientIdle.cmd = "none" /\ ClientIdle.out \in OutRec
  BY DEF ClientIdle, ProcRec, ProcSteps, Supplied, NoOperation, OpRec, OpStates, Silent, Printed, OutRec

LEMMA FinishedRec ==
    ASSUME NEW p \in ProcRec, NEW out \in OutRec
    PROVE  LET q == [ClientIdle EXCEPT !.cmd = p.cmd, !.id = p.id, !.seen = p.seen,
                                       !.follow = p.follow, !.out = out]
           IN  /\ q \in ProcRec /\ q.at = "idle" /\ q.cmd = p.cmd /\ q.id = p.id
               /\ q.seen = p.seen /\ q.follow = p.follow /\ q.out = out
  BY IdleRec DEF ProcRec

LEMMA FinishKeeps ==
    ASSUME ClientInv, NEW c \in Proc, NEW out \in OutRec, Finish(c, out), OutFits(proc[c], out),
           FileStep, file' = file \/ c \in lock, ops' = ops, wire' = wire, sends' = sends,
           fresh' = fresh, promptCommands' = promptCommands
    PROVE  ClientInv'
<1> DEFINE q == [ClientIdle EXCEPT !.cmd = proc[c].cmd, !.id = proc[c].id, !.seen = proc[c].seen,
                                   !.follow = proc[c].follow, !.out = out]
<1>2. /\ q \in ProcRec /\ q.at = "idle" /\ q.cmd = proc[c].cmd /\ q.id = proc[c].id
      /\ q.seen = proc[c].seen /\ q.follow = proc[c].follow /\ q.out = out
  BY FinishedRec DEF ClientInv, ClientShapes
<1>3. proc' = [proc EXCEPT ![c] = q] /\ lock' = lock \ {c} BY DEF Finish
<1> HIDE DEF q
<1>4. PICK p \in ProcRec : p = q BY <1>2
<1>5. ProcFits(c, p, file', ops', lock') BY <1>2, <1>4 DEF OutFits, ProcFits, ClientInv, ProcsFit
<1> QED BY <1>3, <1>5, <1>2, <1>4, StepKeeps DEF Deciding

(* Nothing is known yet of what the commands print that fail before.         *)
LEMMA Printouts ==
    /\ {RequestStateBusy, request_state_invalid, daemon_api_error, prompt_wait_timeout,
        prompt_before_dispatch_timeout} \subseteq OutRec
    /\ \A out \in {RequestStateBusy, request_state_invalid, daemon_api_error, prompt_wait_timeout,
                   prompt_before_dispatch_timeout} :
          out.side # "confirmed" /\ out.advice \notin {"done", "refresh_target"}
  BY DEF RequestStateBusy, request_state_invalid, daemon_api_error, prompt_wait_timeout,
    prompt_before_dispatch_timeout, Printed, OutRec

LEMMA GivesUp ==
    ASSUME ClientInv, NEW c \in Proc, FileStep, file' = file \/ c \in lock,
           UNCHANGED <<ops, wire, sends, fresh, promptCommands>>,
           \E out \in {RequestStateBusy, request_state_invalid, daemon_api_error,
                       prompt_wait_timeout, prompt_before_dispatch_timeout} : Finish(c, out)
    PROVE  ClientInv'
  BY Printouts, FinishKeeps DEF OutFits

(* The record of a process that changes a field.                             *)
LEMMA ProcAt ==
    ASSUME NEW p \in ProcRec, NEW a \in ProcSteps
    PROVE  LET q == [p EXCEPT !.at = a]
           IN  /\ q \in ProcRec /\ q.at = a /\ q.cmd = p.cmd /\ q.id = p.id /\ q.prompt = p.prompt
               /\ q.seen = p.seen /\ q.follow = p.follow /\ q.out = p.out /\ q.late = p.late
  BY DEF ProcRec

LEMMA ProcSeen ==
    ASSUME NEW p \in ProcRec, NEW o \in OpRec
    PROVE  LET q == [p EXCEPT !.seen = o]
           IN  /\ q \in ProcRec /\ q.at = p.at /\ q.cmd = p.cmd /\ q.id = p.id /\ q.prompt = p.prompt
               /\ q.seen = o /\ q.follow = p.follow /\ q.out = p.out /\ q.late = p.late
  BY DEF ProcRec

LEMMA ProcId ==
    ASSUME NEW p \in ProcRec, NEW i \in Nat
    PROVE  LET q == [p EXCEPT !.id = i]
           IN  /\ q \in ProcRec /\ q.at = p.at /\ q.cmd = p.cmd /\ q.id = i /\ q.prompt = p.prompt
               /\ q.seen = p.seen /\ q.follow = p.follow /\ q.out = p.out /\ q.late = p.late
  BY DEF ProcRec

LEMMA ProcPrompt ==
    ASSUME NEW p \in ProcRec, NEW s \in Supplied
    PROVE  LET q == [p EXCEPT !.prompt = s]
           IN  /\ q \in ProcRec /\ q.at = p.at /\ q.cmd = p.cmd /\ q.id = p.id /\ q.prompt = s
               /\ q.seen = p.seen /\ q.follow = p.follow /\ q.out = p.out /\ q.late = p.late
  BY DEF ProcRec

LEMMA RequestKeeps == ASSUME ClientInv, NEW c \in Proc, NEW s \in Supplied, Request(c, s) PROVE ClientInv'
  BY IdleRec, StepKeeps DEF ProcRec, ProcSteps, Request, ProcFits, FileStep

LEMMA WaitKeeps ==
    ASSUME ClientInv, NEW c \in Proc, NEW i \in Ids, NEW cmd \in {"operation_wait", "run_wait"},
           NEW f \in BOOLEAN, Wait(c, cmd, i, f)
    PROVE  ClientInv'
<1>0. i \in Nat BY DEF Ids
<1>1. PICK p : p = [ClientIdle EXCEPT !.cmd = cmd, !.at = "poll", !.id = i, !.follow = f] OBVIOUS
<1> QED BY <1>0, <1>1, IdleRec, StepKeeps DEF FileStep, Wait, ProcFits, ProcRec, ProcSteps

LEMMA AcquireLockKeeps == ASSUME ClientInv, NEW c \in Proc, acquire(c) PROVE ClientInv'
<1>0. proc[c] \in ProcRec /\ ProcFits(c, proc[c], file, ops, lock)
      /\ UNCHANGED <<file, wire, ops, fresh, sends, promptCommands>> /\ proc[c].at = "lock"
  BY DEF ClientInv, ClientShapes, ProcsFit, acquire
<1>1. CASE lock = {} /\ lock' = {c} /\ ClientGoto(c, "read")
  <2>1. PICK p : p = [proc[c] EXCEPT !.at = "read"] OBVIOUS
  <2>2. /\ p \in ProcRec /\ p.at = "read" /\ p.cmd = proc[c].cmd /\ p.id = proc[c].id
        /\ p.seen = proc[c].seen /\ p.follow = proc[c].follow /\ p.out = proc[c].out
    BY <1>0, <2>1, ProcAt DEF ProcSteps
  <2> QED BY <1>0, <1>1, <2>2, <2>1, StepKeeps DEF FileStep, ClientGoto, ProcFits, Deciding
<1>2. CASE Finish(c, RequestStateBusy) BY <1>0, <1>2, GivesUp DEF FileStep
<1> QED BY <1>1, <1>2 DEF acquire

(* The file's Operation is adopted, whether the file was read or written.    *)
LEMMA AdoptKeeps ==
    ASSUME ClientInv, NEW c \in Proc, Adopt(c, file'), proc[c].at \in {"read", "publish"},
           file'.phase # "absent", file' \in FileRec, file'.id \in Ids,
           FileStep, UNCHANGED <<ops, wire, sends, fresh, promptCommands>>
    PROVE  ClientInv'
<1>0. proc[c] \in ProcRec /\ ProcFits(c, proc[c], file, ops, lock) /\ c \in lock
  BY DEF ClientInv, ClientShapes, ProcsFit, ProcFits
<1>1. CASE validate_intent(file', proc[c].supplied)
  <2> DEFINE a == IF file'.phase = "active" THEN "start" ELSE "resume"
             q == [proc[c] EXCEPT !.id = file'.id]
             r == [q EXCEPT !.prompt = file'.prompt]
  <2>1. PICK p : p = [r EXCEPT !.at = a] OBVIOUS
  <2>2. file'.id \in Nat /\ file'.prompt \in Supplied /\ a \in ProcSteps BY DEF FileRec, ProcSteps
  <2>3. /\ q \in ProcRec /\ q.cmd = proc[c].cmd /\ q.id = file'.id
        /\ q.seen = proc[c].seen /\ q.follow = proc[c].follow /\ q.out = proc[c].out
    BY <1>0, <2>2, ProcId
  <2>4. proc' = [proc EXCEPT ![c] = p] /\ lock' = lock BY <1>1, <2>1 DEF Adopt, ClientInv, ClientShapes
  <2> HIDE DEF q
  <2>5. /\ r \in ProcRec /\ r.cmd = proc[c].cmd /\ r.id = file'.id /\ r.prompt = file'.prompt
        /\ r.seen = proc[c].seen /\ r.follow = proc[c].follow /\ r.out = proc[c].out
    BY <2>2, <2>3, ProcPrompt
  <2> HIDE DEF r
  <2>6. /\ p \in ProcRec /\ p.cmd = proc[c].cmd /\ p.id = file'.id /\ p.prompt = file'.prompt
        /\ p.seen = proc[c].seen /\ p.follow = proc[c].follow /\ p.out = proc[c].out /\ p.at = a
    BY <2>1, <2>2, <2>5, ProcAt
  <2> QED BY <1>0, <2>4, <2>6, StepKeeps DEF ProcFits, Deciding
<1>2. CASE Finish(c, request_state_invalid) BY <1>0, <1>2, GivesUp
<1> QED BY <1>1, <1>2 DEF Adopt

LEMMA ReadKeeps == ASSUME ClientInv, NEW c \in Proc, read_state_if_present(c) PROVE ClientInv'
<1>0. proc[c] \in ProcRec /\ ProcFits(c, proc[c], file, ops, lock) /\ proc[c].at = "read" /\ c \in lock
      /\ UNCHANGED <<file, wire, ops, sends, promptCommands>> /\ FileStep
  BY DEF ClientInv, ClientShapes, ProcsFit, read_state_if_present, ProcFits, FileStep
<1>1. CASE Finish(c, request_state_invalid) /\ UNCHANGED fresh BY <1>0, <1>1, GivesUp
<1>2. CASE /\ file.phase = "absent" /\ fresh' = fresh + 1 /\ lock' = lock
           /\ proc' = [proc EXCEPT ![c].id = fresh + 1, ![c].at = "publish"]
  <2> DEFINE q == [proc[c] EXCEPT !.id = fresh + 1]
  <2>1. PICK p : p = [q EXCEPT !.at = "publish"] OBVIOUS
  <2>2. proc' = [proc EXCEPT ![c] = p] BY <1>2, <2>1 DEF ClientInv, ClientShapes
  <2>3. fresh + 1 \in Ids /\ fresh + 1 \in Nat
    <3>3. Cardinality(Undecided) \in Nat /\ Cardinality(Undecided) >= 1
      <4>1. Cardinality({}) \in Nat /\ Cardinality(Undecided) \in Nat
            /\ Cardinality({}) + 1 <= Cardinality(Undecided)
        BY ClientAssumption, <1>0, FS_Subset, Counting DEF Undecided, ProcFits
      <4> QED BY <4>1
    <3> QED BY ClientAssumption, <3>3 DEF ClientInv, Counted, Ids, ClientShapes
  <2>4. /\ q \in ProcRec /\ q.cmd = proc[c].cmd /\ q.id = fresh + 1
        /\ q.seen = proc[c].seen /\ q.follow = proc[c].follow /\ q.out = proc[c].out
    BY <1>0, <2>3, ProcId
  <2> HIDE DEF q
  <2>5. /\ p \in ProcRec /\ p.cmd = proc[c].cmd /\ p.id = fresh + 1 /\ p.at = "publish"
        /\ p.seen = proc[c].seen /\ p.follow = proc[c].follow /\ p.out = proc[c].out
    BY <2>1, <2>4, ProcAt DEF ProcSteps
  <2>6. ProcFits(c, p, file', ops', lock') /\ ~Deciding(p) /\ Deciding(proc[c])
    BY <1>0, <2>5, <1>2, <2>3 DEF ProcFits, Deciding
  <2> QED BY <1>0, <1>2, <2>2, <2>5, <2>6, StepKeeps
<1>3. CASE file.phase # "absent" /\ Adopt(c, file) /\ UNCHANGED fresh
  BY <1>0, <1>3, AdoptKeeps DEF ClientInv, ClientShapes, FileFits, Adopt
<1> QED BY <1>1, <1>2, <1>3 DEF read_state_if_present

LEMMA PublishKeeps == ASSUME ClientInv, NEW c \in Proc, publish_initial_state(c) PROVE ClientInv'
<1> DEFINE mine == [phase |-> "active", id |-> proc[c].id, prompt |-> proc[c].supplied]
           winner == IF file.phase = "absent" THEN mine ELSE file
<1>0. proc[c] \in ProcRec /\ ProcFits(c, proc[c], file, ops, lock) /\ proc[c].at = "publish" /\ c \in lock
      /\ UNCHANGED <<wire, ops, sends, fresh, promptCommands>>
  BY DEF ClientInv, ClientShapes, ProcsFit, publish_initial_state, ProcFits
<1>1. winner = mine /\ mine \in FileRec /\ mine.phase = "active" /\ mine.id \in Ids
      /\ file.phase = "absent"
  BY <1>0 DEF ProcFits, ProcRec, FileRec
<1>2. \/ file' = winner /\ Adopt(c, winner)
      \/ file' \in {file, winner} /\ Finish(c, request_state_invalid)
  BY DEF publish_initial_state
<1> HIDE DEF winner, mine
<1>4. CASE file' = winner /\ Adopt(c, winner) BY <1>4, <1>0, <1>1, AdoptKeeps DEF Adopt, FileStep
<1>5. CASE file' \in {file, winner} /\ Finish(c, request_state_invalid) BY <1>0, <1>1, <1>5, GivesUp DEF FileStep
<1> QED BY <1>2, <1>4, <1>5

LEMMA ExpireKeeps == ASSUME ClientInv, NEW c \in Proc, Expire(c) PROVE ClientInv'
<1>0. proc[c] \in ProcRec /\ ProcFits(c, proc[c], file, ops, lock)
      /\ UNCHANGED <<file, lock, wire, ops, fresh, sends, promptCommands>>
  BY DEF ClientInv, ClientShapes, ProcsFit, Expire
<1>1. PICK p : p = [proc[c] EXCEPT !.late = TRUE] OBVIOUS
<1> QED BY <1>0, <1>1, StepKeeps DEF FileStep, ProcRec, Expire, ProcFits, Deciding

LEMMA LosesKeeps == ASSUME ClientInv, NEW c \in Proc, ClientLosesAnswer(c) PROVE ClientInv'
<1>0. proc[c] \in ProcRec /\ ProcFits(c, proc[c], file, ops, lock) /\ proc[c].at = "sent"
      /\ UNCHANGED <<file, lock, wire, ops, fresh, sends, promptCommands>>
  BY DEF ClientInv, ClientShapes, ProcsFit, ClientLosesAnswer
<1> DEFINE q == [proc[c] EXCEPT !.at = "start"]
           r == [q EXCEPT !.reached = TRUE]
<1>1. PICK p : p = [r EXCEPT !.sent = 0] OBVIOUS
<1>2. proc' = [proc EXCEPT ![c] = p] BY <1>1 DEF ClientLosesAnswer, ClientInv, ClientShapes
<1>3. /\ q \in ProcRec /\ q.at = "start" /\ q.cmd = proc[c].cmd /\ q.id = proc[c].id
      /\ q.prompt = proc[c].prompt
      /\ q.seen = proc[c].seen /\ q.follow = proc[c].follow /\ q.out = proc[c].out
  BY <1>0, ProcAt DEF ProcSteps
<1> HIDE DEF q
<1>5. ProcFits(c, p, file', ops', lock') /\ ~Deciding(p) BY <1>0, <1>1, <1>3 DEF ProcFits, Deciding, ProcRec
<1> QED BY <1>0, <1>2, <1>1, <1>3, <1>5, StepKeeps DEF FileStep, ProcRec

LEMMA GiveUpKeeps == ASSUME ClientInv, NEW c \in Proc, GiveUpStart(c) PROVE ClientInv'
  BY GivesUp DEF GiveUpStart, FileStep

LEMMA SendKeeps == ASSUME ClientInv, NEW c \in Proc, SendStart(c) PROVE ClientInv'
<1>0. proc[c] \in ProcRec /\ ProcFits(c, proc[c], file, ops, lock) /\ proc[c].at = "start"
      /\ UNCHANGED <<file, lock, ops, fresh, promptCommands>>
  BY DEF ClientInv, ClientShapes, ProcsFit, SendStart
<1> DEFINE q == [proc[c] EXCEPT !.at = "sent"]
           m == [id |-> proc[c].id, prompt |-> proc[c].prompt, serial |-> sends + 1]
<1>1. PICK p : p = [q EXCEPT !.sent = sends + 1] OBVIOUS
<1>2. proc' = [proc EXCEPT ![c] = p] /\ sends' = sends + 1 /\ wire' = wire \cup {m} /\ sends \in Nat
  BY <1>1 DEF SendStart, ClientInv, ClientShapes
<1>3. /\ q \in ProcRec /\ q.at = "sent" /\ q.cmd = proc[c].cmd /\ q.id = proc[c].id
      /\ q.prompt = proc[c].prompt
      /\ q.seen = proc[c].seen /\ q.follow = proc[c].follow /\ q.out = proc[c].out
  BY <1>0, ProcAt DEF ProcSteps
<1>m. m.id = proc[c].id /\ m.prompt = proc[c].prompt /\ m \in [id : Nat, prompt : Supplied, serial : Nat]
  BY <1>0, <1>2 DEF ProcRec
<1> HIDE DEF q, m
<1>4. /\ p \in ProcRec /\ p.at = "sent" /\ p.cmd = proc[c].cmd /\ p.id = proc[c].id
      /\ p.prompt = proc[c].prompt
      /\ p.seen = proc[c].seen /\ p.follow = proc[c].follow /\ p.out = proc[c].out
  BY <1>1, <1>2, <1>3 DEF ProcRec
<1>5. ProcFits(c, p, file', ops', lock') /\ ~Deciding(p) BY <1>0, <1>4 DEF ProcFits, Deciding
<1>6. /\ proc' \in [Proc -> ProcRec] /\ ProcsFit' /\ proc'[c] = p
      /\ \A d \in Proc : d # c => proc'[d] = proc[d]
  BY <1>0, <1>2, <1>4, <1>5, SameOps, ProcMoves
<1>9. ClientShapes' BY <1>0, <1>2, <1>m, <1>6 DEF ClientInv, ClientShapes
<1> QED BY <1>6, <1>0, <1>4, <1>5, CountKept, <1>2, <1>m, <1>9 DEF ClientInv, ProcFits, OpsFit, FileFits

LEMMA PollKeeps == ASSUME ClientInv, NEW c \in Proc, Poll(c) PROVE ClientInv'
<1>0. proc[c] \in ProcRec /\ ProcFits(c, proc[c], file, ops, lock) /\ proc[c].at = "poll"
      /\ UNCHANGED <<file, wire, ops, fresh, sends, promptCommands>>
  BY DEF ClientInv, ClientShapes, ProcsFit, Poll
<1>1. proc[c].id \in Ids /\ ops[proc[c].id] \in OpRec BY <1>0 DEF ProcFits, ClientInv, ClientShapes
<1> DEFINE op == ops[proc[c].id]
<1>2. ASSUME NEW a \in {"settle", "timeout", "poll"}, a = "settle" => WaitMatches(proc[c], op),
             lock' = lock,
             proc' = [proc EXCEPT ![c].at = a, ![c].seen = op]
      PROVE  ClientInv'
  <2> DEFINE q == [proc[c] EXCEPT !.at = a]
  <2>1. PICK p : p = [q EXCEPT !.seen = op] OBVIOUS
  <2>2. proc' = [proc EXCEPT ![c] = p] BY <1>2, <2>1 DEF ClientInv, ClientShapes
  <2>3. /\ q \in ProcRec /\ q.at = a /\ q.cmd = proc[c].cmd /\ q.id = proc[c].id
        /\ q.prompt = proc[c].prompt
        /\ q.seen = proc[c].seen /\ q.follow = proc[c].follow /\ q.out = proc[c].out
    <3>1. a \in ProcSteps BY DEF ProcSteps
    <3> QED BY <1>0, <3>1, ProcAt
  <2> HIDE DEF q
  <2>4. /\ p \in ProcRec /\ p.at = a /\ p.cmd = proc[c].cmd /\ p.id = proc[c].id
        /\ p.prompt = proc[c].prompt
        /\ p.seen = op /\ p.follow = proc[c].follow /\ p.out = proc[c].out
    BY <1>1, <2>1, <2>3, ProcSeen
  <2>6. ProcFits(c, p, file', ops', lock') /\ ~Deciding(p)
    BY <1>0, <1>1, <1>2, <2>4 DEF ProcFits, Deciding, WaitMatches, run_wait_matches
  <2> QED BY <1>0, <1>2, <2>2, <2>4, <2>6, StepKeeps DEF FileStep
<1>3. CASE ClientGoto(c, "timeout") /\ lock' = lock
  <2>1. PICK p : p = [proc[c] EXCEPT !.at = "timeout"] OBVIOUS
  <2>2. /\ p \in ProcRec /\ p.at = "timeout" /\ p.cmd = proc[c].cmd /\ p.id = proc[c].id
        /\ p.seen = proc[c].seen /\ p.follow = proc[c].follow /\ p.out = proc[c].out
    BY <1>0, <2>1, ProcAt DEF ProcSteps
  <2> QED BY <1>0, <1>3, <2>2, <2>1, StepKeeps DEF FileStep, ClientGoto, ProcFits, Deciding
<1>4. CASE Finish(c, daemon_api_error) BY <1>0, <1>4, GivesUp DEF FileStep
<1>5. \/ /\ lock' = lock /\ WaitMatches(proc[c], op)
         /\ proc' = [proc EXCEPT ![c].at = "settle", ![c].seen = op]
      \/ /\ lock' = lock
         /\ proc' = [proc EXCEPT ![c].at = IF proc[c].late THEN "timeout" ELSE "poll", ![c].seen = op]
      \/ ClientGoto(c, "timeout") /\ lock' = lock
      \/ Finish(c, daemon_api_error)
  BY DEF Poll
<1> HIDE DEF op
<1>6. CASE /\ lock' = lock
           /\ proc' = [proc EXCEPT ![c].at = IF proc[c].late THEN "timeout" ELSE "poll", ![c].seen = op]
  BY <1>2, <1>6
<1> QED BY <1>2, <1>3, <1>4, <1>5, <1>6

LEMMA ResumeKeeps == ASSUME ClientInv, NEW c \in Proc, agent_prompt_resume(c) PROVE ClientInv'
<1>0. proc[c] \in ProcRec /\ ProcFits(c, proc[c], file, ops, lock) /\ proc[c].at = "resume"
      /\ UNCHANGED <<file, wire, ops, fresh, sends, promptCommands>>
  BY DEF ClientInv, ClientShapes, ProcsFit, agent_prompt_resume
<1>1. proc[c].id \in Ids /\ ops[proc[c].id] \in OpRec BY <1>0 DEF ProcFits, ClientInv, ClientShapes
<1> DEFINE op == ops[proc[c].id]
           a == IF operation_is_terminal(op) THEN "settle" ELSE "poll"
           q == [proc[c] EXCEPT !.seen = op]
<1>3. a \in {"settle", "poll"} OBVIOUS
<1>4. CASE proc' = [proc EXCEPT ![c].seen = op, ![c].at = a] /\ lock' = lock
  <2>1. PICK p : p = [q EXCEPT !.at = a] OBVIOUS
  <2>2. proc' = [proc EXCEPT ![c] = p] BY <1>4, <2>1 DEF ClientInv, ClientShapes
  <2>3. /\ q \in ProcRec /\ q.cmd = proc[c].cmd /\ q.id = proc[c].id
        /\ q.prompt = proc[c].prompt
        /\ q.seen = op /\ q.follow = proc[c].follow /\ q.out = proc[c].out
    BY <1>0, <1>1, ProcSeen
  <2> HIDE DEF q, a
  <2>4. /\ p \in ProcRec /\ p.at = a /\ p.cmd = proc[c].cmd /\ p.id = proc[c].id
        /\ p.prompt = proc[c].prompt
        /\ p.seen = op /\ p.follow = proc[c].follow /\ p.out = proc[c].out
    <3>1. a \in ProcSteps BY <1>3 DEF ProcSteps
    <3> QED BY <2>1, <2>3, <3>1, ProcAt
  <2>5. ProcFits(c, p, file', ops', lock') /\ ~Deciding(p) BY <1>0, <1>1, <1>3, <1>4, <2>4 DEF ProcFits, Deciding
  <2> QED BY <1>0, <1>4, <2>2, <2>4, <2>5, StepKeeps DEF FileStep
<1>5. CASE Finish(c, daemon_api_error) BY <1>0, <1>5, GivesUp DEF FileStep
<1> QED BY <1>4, <1>5 DEF agent_prompt_resume

(* What a wait that is over prints is true of the Operation.                 *)
LEMMA OutcomeTrue ==
    ASSUME ClientInv, NEW c \in Proc, proc[c].at \in {"settle", "timeout"}
    PROVE  Outcome(proc[c]) \in OutRec /\ OutFits(proc[c], Outcome(proc[c]))
<1> DEFINE p == proc[c]
           out == Outcome(p)
<1>2. out.side = "confirmed" => p.at = "settle" /\ (p.cmd = "run_wait" \/ p.seen.state = "confirmed")
  BY DEF Outcome, DeadlineReport, Printed, prompt_before_dispatch_timeout, operation_terminal_error,
    prompt_wait_timeout, Confirmed
<1>3. out.advice = "refresh_target" => p.seen.state = "rejected"
  BY DEF Outcome, DeadlineReport, Printed, prompt_before_dispatch_timeout, operation_terminal_error,
    prompt_wait_timeout, Confirmed
<1>4. out.advice = "done" => p.at = "settle"
  BY DEF Outcome, DeadlineReport, Printed, prompt_before_dispatch_timeout, operation_terminal_error,
    prompt_wait_timeout, Confirmed
<1> HIDE DEF out
<1>5. OutFits(p, out) BY <1>2, <1>3, <1>4 DEF OutFits, ProcFits, OpFits, ClientInv, ProcsFit, OpsFit
<1> QED
  BY <1>5 DEF out, Outcome, DeadlineReport, Printed, OutRec, prompt_before_dispatch_timeout,
    operation_terminal_error, prompt_wait_timeout, Confirmed

LEMMA SettleKeeps == ASSUME ClientInv, NEW c \in Proc, Settle(c) PROVE ClientInv'
  BY OutcomeTrue, FinishKeeps DEF Settle, FileStep

LEMMA RememberKeeps == ASSUME ClientInv, NEW c \in Proc, remember_operation(c) PROVE ClientInv'
<1> DEFINE known == [file EXCEPT !.phase = "known"]
<1>0. ProcFits(c, proc[c], file, ops, lock) /\ proc[c].at \in {"settle", "timeout"} /\ Remembers(c)
      /\ UNCHANGED <<wire, ops, fresh, sends, promptCommands>>
  BY DEF ClientInv, ProcsFit, remember_operation
<1>1. c \in lock /\ file.phase = "active" /\ file.id \in Ids /\ proc[c].id \in Ids
  BY <1>0 DEF ProcFits, Remembers, ClientInv, FileFits
<1>2. known \in FileRec /\ known.phase = "known" /\ known.id = file.id /\ known.prompt = file.prompt
  BY DEF ClientInv, ClientShapes, FileRec
<1>3. \/ file' = known /\ Finish(c, Outcome(proc[c]))
      \/ file' \in {file, known} /\ Finish(c, persistence_after_operation(proc[c].seen))
  BY DEF remember_operation
<1> HIDE DEF known
<1>4. FileStep BY <1>1, <1>2, <1>3 DEF FileStep
<1>5. CASE Finish(c, Outcome(proc[c])) BY <1>0, <1>1, <1>4, <1>5, OutcomeTrue, FinishKeeps
<1>6. CASE Finish(c, persistence_after_operation(proc[c].seen))
  <2> DEFINE out == persistence_after_operation(proc[c].seen)
  <2>1. out \in OutRec BY DEF persistence_after_operation, Printed, OutRec
  <2>2. /\ out.side = "confirmed" => proc[c].seen.state = "confirmed"
        /\ out.advice = "refresh_target" => proc[c].seen.state = "rejected"
        /\ out.advice # "done"
    BY DEF persistence_after_operation, Printed
  <2>3. Finish(c, out) BY <1>6
  <2> HIDE DEF out
  <2> QED BY <1>0, <1>1, <1>4, <2>1, <2>3, <2>2, FinishKeeps DEF OutFits, ProcFits, ClientInv, OpsFit, OpFits
<1> QED BY <1>3, <1>5, <1>6

LEMMA CrashKeeps == ASSUME ClientInv, NEW c \in Proc, ClientCrash(c) PROVE ClientInv'
  BY IdleRec, StepKeeps DEF ClientCrash, ProcFits, Deciding, FileStep

(* The daemon's side: Operations only grow.                                  *)
LEMMA OpMoves ==
    ASSUME ClientInv, NEW i \in Ids, NEW o \in OpRec, ops' = [ops EXCEPT ![i] = o],
           OpFits(i, o, file), OpGrows(ops[i], o), file' = file
    PROVE  /\ ops' \in [Ids -> OpRec] /\ OpsFit' /\ ops'[i] = o
           /\ \A j \in Ids : OpGrows(ops[j], ops'[j])
  BY DEF ClientInv, ClientShapes, OpsFit, OpGrows

LEMMA OpKeeps ==
    ASSUME ClientInv, NEW i \in Ids, NEW o \in OpRec, ops' = [ops EXCEPT ![i] = o],
           OpFits(i, o, file), OpGrows(ops[i], o),
           UNCHANGED <<file, lock, proc, wire, fresh, sends, promptCommands>>
    PROVE  ClientInv'
<1>1. /\ ops' \in [Ids -> OpRec] /\ OpsFit' /\ \A j \in Ids : OpGrows(ops[j], ops'[j]) BY OpMoves
<1>2. ASSUME NEW d \in Proc PROVE ProcFits(d, proc'[d], file', ops', lock')
  BY <1>1, Undisturbed DEF ClientInv, ProcsFit
<1> QED BY <1>1, <1>2 DEF ClientInv, ProcsFit, Counted, Undecided, FileFits, ClientShapes

LEMMA OpState ==
    ASSUME NEW o \in OpRec, NEW s \in OpStates
    PROVE  LET q == [o EXCEPT !.state = s]
           IN  /\ q \in OpRec /\ q.state = s /\ q.prompt = o.prompt
               /\ q.delivered = o.delivered /\ q.run = o.run
  BY DEF OpRec

LEMMA OpAbandoned ==
    ASSUME NEW o \in OpRec
    PROVE  LET q == [o EXCEPT !.abandoned = TRUE]
           IN  /\ q \in OpRec /\ q.state = o.state /\ q.prompt = o.prompt
               /\ q.delivered = o.delivered /\ q.run = o.run
  BY DEF OpRec

LEMMA DeliverKeeps == ASSUME ClientInv, NEW i \in Ids, Deliver(i) PROVE ClientInv'
<1>0. ops[i] \in OpRec /\ OpFits(i, ops[i], file) /\ ops[i].state = "prepared"
      /\ UNCHANGED <<file, lock, proc, wire, fresh, sends, promptCommands>>
  BY DEF ClientInv, ClientShapes, OpsFit, Deliver
<1>1. ops[i].delivered = 0 /\ ops[i].run = "none" BY <1>0 DEF OpFits
<1> DEFINE q == [ops[i] EXCEPT !.state = "started"]
           r == [ops[i] EXCEPT !.state = "rejected"]
<1>2. /\ q \in OpRec /\ q.state = "started" /\ q.prompt = ops[i].prompt
      /\ q.delivered = 0 /\ q.run = "none"
      /\ r \in OpRec /\ r.state = "rejected" /\ r.prompt = ops[i].prompt
      /\ r.delivered = 0 /\ r.run = "none"
  BY <1>0, <1>1, OpState DEF OpStates
<1>3. PICK o : /\ ops' = [ops EXCEPT ![i] = o]
               /\ o = q \/ o = r \/ o = [q EXCEPT !.delivered = 1]
  BY <1>1 DEF Deliver, ClientInv, ClientShapes
<1> HIDE DEF q, r
<1>5. OpFits(i, o, file) /\ OpGrows(ops[i], o) BY <1>0, <1>1, <1>2, <1>3 DEF OpFits, OpGrows, OpRec
<1> QED BY <1>0, <1>3, <1>2, <1>5, OpKeeps DEF OpRec

LEMMA DecideKeeps == ASSUME ClientInv, NEW i \in Ids, Decide(i) PROVE ClientInv'
<1>0. ops[i] \in OpRec /\ OpFits(i, ops[i], file)
      /\ UNCHANGED <<file, lock, proc, wire, fresh, sends, promptCommands>>
  BY DEF ClientInv, ClientShapes, OpsFit, Decide
<1> DEFINE q == [ops[i] EXCEPT !.state = "confirmed"]
           r == [ops[i] EXCEPT !.state = "unknown"]
<1>1. /\ q \in OpRec /\ q.state = "confirmed" /\ q.prompt = ops[i].prompt
      /\ q.delivered = ops[i].delivered /\ q.run = ops[i].run
      /\ r \in OpRec /\ r.state = "unknown" /\ r.prompt = ops[i].prompt
      /\ r.delivered = ops[i].delivered /\ r.run = ops[i].run
  BY <1>0, OpState DEF OpStates
<1>2. PICK o : /\ ops' = [ops EXCEPT ![i] = o]
               /\ \/ /\ o = [q EXCEPT !.run = "working"]
                     /\ ops[i].state \in {"started", "unknown"} /\ ops[i].delivered > 0
                  \/ o = r /\ ops[i].state = "started"
  BY DEF Decide, ClientInv, ClientShapes
<1>3. ops[i].state \in {"started", "unknown"} /\ ops[i].run = "none" /\ ops[i].delivered \in Nat
      /\ ops[i].delivered <= 1
  BY <1>0, <1>2 DEF OpFits, OpRec
<1> HIDE DEF q, r
<1>4. /\ o \in OpRec /\ o.prompt = ops[i].prompt /\ o.delivered = ops[i].delivered
      /\ \/ o.state = "confirmed" /\ o.run = "working" /\ ops[i].delivered > 0
         \/ o.state = "unknown" /\ o.run = "none"
  BY <1>1, <1>2, <1>3 DEF OpRec
<1>5. OpFits(i, o, file) /\ OpGrows(ops[i], o) BY <1>0, <1>3, <1>4 DEF OpFits, OpGrows
<1> QED BY <1>0, <1>2, <1>4, <1>5, OpKeeps

LEMMA RunMovesKeeps == ASSUME ClientInv, NEW i \in Ids, RunMoves(i) PROVE ClientInv'
<1>0. ops[i] \in OpRec /\ OpFits(i, ops[i], file) /\ ops[i].run = "working"
      /\ UNCHANGED <<file, lock, proc, wire, fresh, sends, promptCommands>>
  BY DEF ClientInv, ClientShapes, OpsFit, RunMoves
<1>1. PICK to \in {"blocked", "done", "ended"} : ops' = [ops EXCEPT ![i].run = to] BY DEF RunMoves
<1>2. PICK o : o = [ops[i] EXCEPT !.run = to] OBVIOUS
<1> QED BY <1>0, <1>1, <1>2, OpKeeps DEF OpRec, OpFits, OpGrows

LEMMA AbandonKeeps == ASSUME ClientInv, NEW i \in Ids, agent_operation_abandon(i) PROVE ClientInv'
  BY OpAbandoned, OpKeeps DEF ClientInv, ClientShapes, OpsFit, agent_operation_abandon, OpFits, OpGrows

LEMMA StartKeeps == ASSUME ClientInv, NEW r \in wire, StartAgentPrompt(r) PROVE ClientInv'
<1> DEFINE op == IF ops[r.id].state = "absent"
                 THEN [NoOperation EXCEPT !.state = "prepared", !.prompt = r.prompt]
                 ELSE ops[r.id]
<1>1. r.id \in Ids /\ r.id = file.id /\ r.prompt = file.prompt /\ file.phase # "absent"
      /\ r.prompt \in Supplied
  BY DEF ClientInv, ClientShapes, FileFits
<1>2. ops[r.id] \in OpRec /\ OpFits(r.id, ops[r.id], file) BY <1>1 DEF ClientInv, ClientShapes, OpsFit
<1>3. PICK o : o = op OBVIOUS
<1>4. /\ o \in OpRec /\ OpFits(r.id, o, file) /\ OpGrows(ops[r.id], o)
  <2>1. CASE ops[r.id].state = "absent"
    <3> DEFINE q == [NoOperation EXCEPT !.state = "prepared", !.prompt = r.prompt]
    <3>1. q \in OpRec /\ q.state = "prepared" /\ q.prompt = r.prompt /\ q.delivered = 0
          /\ q.run = "none"
      BY <1>1 DEF NoOperation, OpRec, OpStates
    <3>2. o = q BY <1>3, <2>1
    <3> HIDE DEF q
    <3> QED BY <1>1, <2>1, <3>1, <3>2, <1>2 DEF OpFits, OpGrows
  <2>2. CASE ops[r.id].state # "absent" BY <1>2, <1>3, <2>2 DEF OpGrows
  <2> QED BY <2>1, <2>2
<1>5. /\ ops' = [ops EXCEPT ![r.id] = o] /\ wire' = wire \ {r}
      /\ UNCHANGED <<file, lock, fresh, sends, promptCommands>>
  BY <1>3 DEF StartAgentPrompt
<1>6. /\ ops' \in [Ids -> OpRec] /\ OpsFit' /\ ops'[r.id] = o
      /\ \A j \in Ids : OpGrows(ops[j], ops'[j])
  BY <1>1, <1>4, <1>5, OpMoves
<1>7. ASSUME NEW d \in Proc PROVE ProcFits(d, proc[d], file', ops', lock')
  BY <1>6, Undisturbed, <1>5 DEF ClientInv, ProcsFit
<1> DEFINE Told(p) == [p EXCEPT !.seen = o, !.at = IF operation_is_terminal(o) THEN "settle" ELSE "poll"]
<1>8. \/ proc' = [c \in Proc |-> IF c \notin Waiting(r) THEN proc[c] ELSE Told(proc[c])]
      \/ proc' = proc
  BY <1>3 DEF StartAgentPrompt
<1>9. ASSUME NEW c \in Waiting(r)
      PROVE  /\ Told(proc[c]) \in ProcRec /\ ~Deciding(Told(proc[c]))
             /\ ProcFits(c, Told(proc[c]), file', ops', lock')
  <2>1. c \in Proc /\ proc[c] \in ProcRec /\ proc[c].at = "sent" BY DEF Waiting, ClientInv, ClientShapes
  <2> DEFINE a == IF operation_is_terminal(o) THEN "settle" ELSE "poll"
             q == [proc[c] EXCEPT !.seen = o]
  <2>3. PICK p : p = [q EXCEPT !.at = a] OBVIOUS
  <2>4. p = Told(proc[c]) BY <2>3
  <2>5. /\ q \in ProcRec /\ q.cmd = proc[c].cmd /\ q.id = proc[c].id
        /\ q.prompt = proc[c].prompt
        /\ q.seen = o /\ q.follow = proc[c].follow /\ q.out = proc[c].out
    BY <1>4, <2>1, ProcSeen
  <2>6. a \in {"settle", "poll"} /\ a \in ProcSteps BY DEF ProcSteps
  <2> HIDE DEF q, a, Told
  <2>7. /\ p \in ProcRec /\ p.at = a /\ p.cmd = proc[c].cmd /\ p.id = proc[c].id
        /\ p.prompt = proc[c].prompt
        /\ p.seen = o /\ p.follow = proc[c].follow /\ p.out = proc[c].out
    BY <2>3, <2>5, <2>6, ProcAt
  <2>9. ProcFits(c, p, file', ops', lock') /\ ~Deciding(p)
    BY <2>1, <1>7, <2>6, <2>7, <1>1, <1>5, <1>6 DEF ProcFits, Deciding
  <2> QED BY <2>4, <2>7, <2>9
<1> HIDE DEF op, Told
<1>10. /\ proc' \in [Proc -> ProcRec] /\ ProcsFit'
       /\ \A c \in Proc : proc'[c] = proc[c] \/ ~Deciding(proc'[c])
  <2>1. CASE proc' = [c \in Proc |-> IF c \notin Waiting(r) THEN proc[c] ELSE Told(proc[c])]
    <3>1. ASSUME NEW c \in Proc
          PROVE  /\ proc'[c] \in ProcRec /\ ProcFits(c, proc'[c], file', ops', lock')
                 /\ proc'[c] = proc[c] \/ ~Deciding(proc'[c])
      BY <2>1, <1>9, <1>7 DEF ClientInv, ClientShapes
    <3> HIDE DEF Told
    <3> QED BY <3>1, <2>1 DEF ProcsFit
  <2>2. CASE proc' = proc BY <1>7, <2>2 DEF ProcsFit, ClientInv, ClientShapes
  <2> QED BY <1>8, <2>1, <2>2
<1>11. Counted'
  <2>3. Cardinality(Undecided') <= Cardinality(Undecided) /\ Cardinality(Undecided) \in Nat
        /\ Cardinality(Undecided') \in Nat
    BY <1>10, ClientAssumption, FS_Subset, FS_CardinalityType DEF Undecided, Deciding
  <2> QED BY <1>5, <2>3 DEF ClientInv, ClientShapes, Counted
<1> QED BY <1>6, <1>10, <1>11, <1>5 DEF ClientInv, FileFits, ClientShapes

(* A request that is refused, or whose connection nobody waits on.           *)
LEMMA RefuseKeeps == ASSUME ClientInv, NEW r \in wire, RefuseStart(r) PROVE ClientInv'
<1>1. wire' = wire \ {r} /\ UNCHANGED <<file, ops, fresh, sends, promptCommands>> BY DEF RefuseStart
<1> DEFINE W == wire \ {r}
<1>2. OpsFit' /\ \A m \in wire' : file'.phase # "absent" /\ m.id = file'.id /\ m.prompt = file'.prompt
  BY <1>1 DEF ClientInv, OpsFit, FileFits
<1>3. CASE UNCHANGED <<proc, lock>>
  BY <1>1, <1>2, <1>3 DEF ClientInv, ClientShapes, ProcsFit, Counted, Undecided, FileFits
<1>4. CASE \E c \in Waiting(r) : Finish(c, daemon_api_error)
  <2>1. PICK c \in Waiting(r) : Finish(c, daemon_api_error) BY <1>4
  <2>2. c \in Proc /\ proc[c] \in ProcRec /\ ProcFits(c, proc[c], file, ops, lock)
    BY DEF Waiting, ClientInv, ClientShapes, ProcsFit
  <2>3. PICK p : p = [ClientIdle EXCEPT !.cmd = proc[c].cmd, !.id = proc[c].id, !.seen = proc[c].seen,
                                        !.follow = proc[c].follow, !.out = daemon_api_error]
    OBVIOUS
  <2>4. daemon_api_error \in OutRec /\ daemon_api_error.side # "confirmed"
        /\ daemon_api_error.advice \notin {"done", "refresh_target"}
    BY Printouts
  <2>5. /\ p \in ProcRec /\ p.at = "idle" /\ p.cmd = proc[c].cmd /\ p.id = proc[c].id
        /\ p.seen = proc[c].seen /\ p.follow = proc[c].follow /\ p.out = daemon_api_error
    BY <2>2, <2>3, <2>4, FinishedRec
  <2>7. ProcFits(c, p, file', ops', lock') /\ ~Deciding(p) BY <1>1, <2>2, <2>4, <2>5 DEF ProcFits, Deciding
  <2>8. /\ proc' \in [Proc -> ProcRec] /\ ProcsFit' /\ proc'[c] = p
        /\ \A d \in Proc : d # c => proc'[d] = proc[d]
    BY <2>1, <2>3, <1>1, <2>2, <2>5, <2>7, SameOps, ProcMoves DEF Finish
  <2> QED BY <1>2, <2>8, <1>1, <2>2, <2>5, <2>7, CountKept, <2>1, <2>3 DEF ClientInv, FileFits, ClientShapes, Finish
<1> QED BY <1>3, <1>4 DEF RefuseStart

LEMMA ClientStepInv == ASSUME ClientInv, ClientNext PROVE ClientInv'
<1>1. CASE \E c \in Proc, s \in Supplied : Request(c, s) BY <1>1, RequestKeeps
<1>2. CASE \E c \in Proc, i \in Ids, cmd \in {"operation_wait", "run_wait"}, f \in BOOLEAN :
              Wait(c, cmd, i, f)
  BY <1>2, WaitKeeps
<1>3. CASE \E c \in Proc : ClientSteps(c) \/ ClientCrash(c)
  <2>1. PICK c \in Proc : ClientSteps(c) \/ ClientCrash(c) BY <1>3
  <2> QED
    BY <2>1, CrashKeeps, AcquireLockKeeps, ReadKeeps, PublishKeeps, ExpireKeeps, SendKeeps, LosesKeeps, GiveUpKeeps,
      PollKeeps, ResumeKeeps, SettleKeeps, RememberKeeps DEF ClientSteps
<1>4. CASE \E r \in wire : StartAgentPrompt(r) \/ RefuseStart(r) BY <1>4, StartKeeps, RefuseKeeps
<1>5. CASE \E i \in Ids : Deliver(i) \/ Decide(i) \/ RunMoves(i) \/ agent_operation_abandon(i)
  BY <1>5, DeliverKeeps, DecideKeeps, RunMovesKeeps, AbandonKeeps
<1> QED BY <1>1, <1>2, <1>3, <1>4, <1>5 DEF ClientNext

LEMMA ClientStutters == ASSUME ClientInv, UNCHANGED clientVars PROVE ClientInv'
  BY DEF ClientInv, ClientShapes, OpsFit, ProcsFit, FileFits, Counted, Undecided, clientVars

(* Only a process that starts writes a request, and only under an active     *)
(* file; the file is written when it is absent or active.                    *)
LEMMA KnownObserves ==
    ASSUME ClientInv, ClientNext, file.phase = "known"
    PROVE  sends' = sends /\ file' = file
<1>4. CASE \E c \in Proc : ClientSteps(c)
  <2>1. PICK c \in Proc : ClientSteps(c) BY <1>4
  <2>2. ~publish_initial_state(c) /\ ~SendStart(c) /\ ~remember_operation(c)
    BY DEF publish_initial_state, SendStart, remember_operation, Remembers, ProcFits, ClientInv, ProcsFit
  <2> QED
    BY <2>1, <2>2 DEF ClientSteps, acquire, read_state_if_present, Expire, ClientLosesAnswer, GiveUpStart, Poll,
      agent_prompt_resume, Settle
<1>5. CASE ~(\E c \in Proc : ClientSteps(c))
  BY <1>5 DEF ClientNext, Request, Wait, ClientCrash, StartAgentPrompt, RefuseStart, Deliver, Decide, RunMoves,
    agent_operation_abandon
<1> QED BY <1>4, <1>5

-----------------------------------------------------------------------------
(* AgentInput: the keys of a call and what it reports.                       *)

CallSteps == {"idle", "connect", "resolve", "verify", "tmux", "applied", "ready", "listed",
              "confirm", "done"}
Command == Provider \cup {"zsh", "vim", "none"}
IdRec == [pid : Nat, epoch : Nat, proc : Nat]
Codes == {"none", "ok", "stale_reference", "agent_not_found", "dispatch_rejected", "target_replaced",
          "resource_limit", "agent_busy", "agent_blocked", "agent_limited", "timeout",
          "agent_not_input_owner", "exact_identity_unavailable", "daemon_unavailable",
          "daemon_query_failed", "stale_daemon", "delivery_unknown", "unsupported_provider",
          "invalid_target"}
ReportRec == [code : Codes, side : {"none", "confirmed", "possible"},
              retry : {"none", "refresh_target", "wait_then_retry", "restart_observation",
                       "inspect_manually", "never"}]
CallRec == [n : Nat, op : Operation, at : CallSteps, id : IdRec, fg : Command, seen : Nat,
            slow : BOOLEAN, first : IdRec, report : ReportRec]
ScreenRec == [pid : Nat, fg : Command, mode : BOOLEAN, kind : Provider, proc : Nat, last : Nat]
ListedRec == [pid : Nat, fg : Command, kind : Provider, present : BOOLEAN, proc : Nat, epoch : Nat,
              status : AgentStatus, session : BOOLEAN]
TypedRec == [n : Nat, enter : BOOLEAN, proc : Nat]

InputShapes ==
    /\ screen \in ScreenRec /\ listed \in ListedRec /\ paneInstance \in Nat
    /\ call \in CallRec /\ typed \in Seq(TypedRec)
    /\ mux = Quiet \/ mux \in [call : Nat, keys : BOOLEAN]

(* A process number is used once; an agent's command in the foreground is    *)
(* that of the pane's agent.                                                 *)
ScreenFits ==
    /\ screen.proc <= screen.last /\ listed.proc <= screen.last
    /\ screen.fg \in Provider => screen.fg = screen.kind

(* What the call has typed, and what tmux still holds of it.                 *)
Whole(last) == IF call.slow THEN {last - 1, last} ELSE {last}
KeysFit ==
    /\ \A i \in DOMAIN typed : typed[i].n <= call.n
    /\ call.at # "idle" => call.n >= 1
    /\ call.at \in {"idle", "connect", "resolve", "verify"} => TypedBy(call.n) = {} /\ mux = Quiet
    /\ call.at = "idle" => typed = <<>>
    /\ call.at = "tmux" =>
          /\ mux \in [call : Nat, keys : BOOLEAN] /\ mux.call = call.n
          /\ IF mux.keys THEN call.slow /\ TypedBy(call.n) = {Len(typed)} ELSE TypedBy(call.n) = {}
    /\ call.at = "applied" =>
          /\ mux = Quiet /\ Len(typed) >= 1
          /\ IF typed[Len(typed)].enter THEN TypedBy(call.n) = Whole(Len(typed))
             ELSE call.slow /\ TypedBy(call.n) = {Len(typed)}
    /\ call.at \in {"ready", "listed", "confirm"} => mux = Quiet /\ call.op \in {"start", "split"}
    /\ call.at = "done" =>
          /\ call.report.code = "ok" /\ call.op \in {"send", "steer"} =>
                TypedBy(call.n) = Whole(Len(typed))
          /\ call.report.code \in {"dispatch_rejected", "stale_reference"} =>
                TypedBy(call.n) = {} /\ mux = Quiet
          /\ mux # Quiet =>
                /\ mux.call = call.n /\ call.report.code = "delivery_unknown"
                /\ call.report.retry = "inspect_manually"

(* Keys that did not reach the call's process were typed to a pane that will *)
(* never run it again.                                                       *)
Sends == call.op \in {"send", "steer"} /\ call.at # "idle"
Missed(i) == typed[i].proc # call.id.proc
ReachFits ==
    /\ Sends => call.id.proc # 0 /\ call.id.proc <= screen.last
    /\ Sends /\ call.fg \in Provider /\ screen.proc = call.id.proc =>
          \A i \in TypedBy(call.n) : ~Missed(i)
    /\ Sends /\ call.fg \in Provider /\ call.at = "done" /\ call.report.code = "ok" =>
          \A i \in TypedBy(call.n) : ~Missed(i)

InputInv == InputShapes /\ ScreenFits /\ KeysFit /\ ReachFits

LEMMA ReadyRec == Ready \in CallRec /\ Ready.at = "idle" /\ Ready.n = 0
  BY DEF Ready, CallRec, CallSteps, Operation, Nobody, IdRec, NoReport, ReportRec, Codes, Command

LEMMA InputInitInv == InputInit => InputInv
  BY ReadyRec DEF InputInit, ScreenRec, ListedRec, Command, Provider, AgentStatus, ScreenFits, TypedBy, InputInv,
    InputShapes, KeysFit, ReachFits, Sends

LEMMA PairCard == ASSUME NEW n \in Int PROVE Cardinality({n - 1, n}) = 2 /\ Cardinality({n}) = 1
<1>1. IsFiniteSet({n}) /\ Cardinality({n}) = 1 BY FS_Singleton
<1>3. {n - 1, n} = {n} \cup {n - 1} OBVIOUS
<1> QED BY <1>1, FS_AddElement, <1>3

LEMMA ReportsAreHonest == InputInv => ReportsHonest
<1> SUFFICES ASSUME InputInv PROVE ReportsHonest OBVIOUS
<1>1. Len(typed) \in Int BY DEF InputInv, InputShapes
<1>2. ASSUME call.at = "done", call.report.code = "ok", call.op \in {"send", "steer"}
      PROVE  /\ Cardinality(TypedBy(call.n)) = IF call.slow THEN 2 ELSE 1
             /\ call.fg \in Provider => \A i \in TypedBy(call.n) : typed[i].proc = call.id.proc
  BY <1>2, <1>1, PairCard DEF InputInv, KeysFit, Whole, ReachFits, Sends, Missed
<1>3. ASSUME call.at = "done", call.report.code \in {"dispatch_rejected", "stale_reference"}
      PROVE  TypedBy(call.n) = {} /\ mux.call # call.n
  BY <1>3 DEF InputInv, InputShapes, KeysFit, CallRec, Quiet
<1> QED BY <1>2, <1>3 DEF ReportsHonest

-----------------------------------------------------------------------------
(* The pane and the daemon go their own way.                                 *)
ScreenGrows ==
    /\ screen' \in ScreenRec /\ screen'.last >= screen.last /\ screen'.proc <= screen'.last
    /\ screen'.proc = screen.proc \/ screen'.proc = 0 \/ screen'.proc > screen.last
    /\ screen'.fg \in Provider => screen'.fg = screen'.kind

LEMMA WorldKeeps ==
    ASSUME InputInv, ScreenGrows, listed' \in ListedRec, listed'.proc <= screen'.last,
           paneInstance' \in Nat, UNCHANGED <<call, mux, typed>>
    PROVE  InputInv'
<1>3. ReachFits'
  <2>1. /\ screen.last \in Nat /\ screen'.last \in Nat /\ call.id.proc \in Nat
        /\ screen'.proc \in Nat
    BY DEF InputInv, InputShapes, ScreenGrows, ScreenRec, CallRec, IdRec
  <2> QED BY <2>1 DEF InputInv, ReachFits, Sends, Missed, TypedBy, ScreenGrows
<1> QED BY <1>3 DEF InputInv, InputShapes, ScreenFits, ScreenGrows, KeysFit, TypedBy, Whole

LEMMA ChangeKeeps ==
    ASSUME InputInv, NEW s \in ScreenRec, Change(s), s.last >= screen.last, s.proc <= s.last,
           s.proc = screen.proc \/ s.proc = 0 \/ s.proc > screen.last,
           s.fg \in Provider => s.fg = s.kind
    PROVE  InputInv'
  BY WorldKeeps DEF Change, InputInv, InputShapes, ScreenFits, ScreenRec, ListedRec, ScreenGrows

(* One field of the pane at a time.                                          *)
LEMMA ScreenProc ==
    ASSUME NEW s \in ScreenRec, NEW p \in Nat
    PROVE  LET q == [s EXCEPT !.proc = p]
           IN q \in ScreenRec /\ q.proc = p /\ q.last = s.last /\ q.fg = s.fg /\ q.kind = s.kind
  BY DEF ScreenRec
LEMMA ScreenLast ==
    ASSUME NEW s \in ScreenRec, NEW p \in Nat
    PROVE  LET q == [s EXCEPT !.last = p]
           IN q \in ScreenRec /\ q.proc = s.proc /\ q.last = p /\ q.fg = s.fg /\ q.kind = s.kind
  BY DEF ScreenRec
LEMMA ScreenFg ==
    ASSUME NEW s \in ScreenRec, NEW f \in Command
    PROVE  LET q == [s EXCEPT !.fg = f]
           IN q \in ScreenRec /\ q.proc = s.proc /\ q.last = s.last /\ q.fg = f /\ q.kind = s.kind
  BY DEF ScreenRec
LEMMA ScreenKind ==
    ASSUME NEW s \in ScreenRec, NEW k \in Provider
    PROVE  LET q == [s EXCEPT !.kind = k]
           IN q \in ScreenRec /\ q.proc = s.proc /\ q.last = s.last /\ q.fg = s.fg /\ q.kind = k
  BY DEF ScreenRec
LEMMA ScreenMode ==
    ASSUME NEW s \in ScreenRec, NEW m \in BOOLEAN
    PROVE  LET q == [s EXCEPT !.mode = m]
           IN q \in ScreenRec /\ q.proc = s.proc /\ q.last = s.last /\ q.fg = s.fg /\ q.kind = s.kind
  BY DEF ScreenRec
LEMMA ScreenPid ==
    ASSUME NEW s \in ScreenRec, NEW p \in Nat
    PROVE  LET q == [s EXCEPT !.pid = p]
           IN q \in ScreenRec /\ q.proc = s.proc /\ q.last = s.last /\ q.fg = s.fg /\ q.kind = s.kind
  BY DEF ScreenRec

LEMMA CommandsOf == /\ "zsh" \in Command /\ "vim" \in Command /\ Provider \subseteq Command
                    /\ "zsh" \notin Provider /\ "vim" \notin Provider /\ "claude" \in Provider
  BY DEF Command, Provider

LEMMA ScreenMovesKeep ==
    ASSUME InputInv,
           \/ AgentExits \/ PaneRespawns \/ OtherForeground \/ CopyMode
           \/ \E kind \in Provider : AgentStarts(kind)
    PROVE  InputInv'
<1>0. screen \in ScreenRec /\ screen.proc <= screen.last /\ (screen.fg \in Provider => screen.fg = screen.kind)
      /\ screen.last \in Nat /\ screen.proc \in Nat /\ screen.pid \in Nat /\ screen.kind \in Provider
  BY DEF InputInv, InputShapes, ScreenFits, ScreenRec
<1>1. CASE AgentExits
  <2> DEFINE q1 == [screen EXCEPT !.proc = 0]
             q2 == [q1 EXCEPT !.fg = "zsh"]
             s == [screen EXCEPT !.proc = 0, !.fg = "zsh"]
  <2>1. q2 = s BY Zenon
  <2>2. q1 \in ScreenRec /\ q1.proc = 0 /\ q1.last = screen.last BY <1>0, ScreenProc
  <2> HIDE DEF q1
  <2>3. q2 \in ScreenRec /\ q2.proc = 0 /\ q2.last = screen.last /\ q2.fg = "zsh" BY <2>2, CommandsOf, ScreenFg
  <2>4. Change(s) BY <1>1 DEF AgentExits
  <2> HIDE DEF q2, s
  <2> QED BY <1>0, <2>1, <2>3, <2>4, CommandsOf, ChangeKeeps
<1>2. CASE \E kind \in Provider : AgentStarts(kind)
  <2>0. PICK kind \in Provider : AgentStarts(kind) BY <1>2
  <2> DEFINE q1 == [screen EXCEPT !.proc = screen.last + 1]
             q2 == [q1 EXCEPT !.last = screen.last + 1]
             q3 == [q2 EXCEPT !.fg = kind]
             q4 == [q3 EXCEPT !.kind = kind]
             s == [screen EXCEPT !.proc = screen.last + 1, !.last = @ + 1, !.fg = kind, !.kind = kind]
  <2>1. q4 = s BY <1>0 DEF ScreenRec
  <2>2. q1 \in ScreenRec /\ q1.proc = screen.last + 1 /\ q1.last = screen.last BY <1>0, ScreenProc
  <2> HIDE DEF q1
  <2>3. q2 \in ScreenRec /\ q2.proc = screen.last + 1 /\ q2.last = screen.last + 1 BY <1>0, <2>2, ScreenLast
  <2> HIDE DEF q2
  <2>4. q3 \in ScreenRec /\ q3.proc = screen.last + 1 /\ q3.last = screen.last + 1 /\ q3.fg = kind
    BY <2>3, CommandsOf, ScreenFg
  <2> HIDE DEF q3
  <2>5. q4 \in ScreenRec /\ q4.proc = screen.last + 1 /\ q4.last = screen.last + 1 /\ q4.fg = kind
        /\ q4.kind = kind
    BY <2>4, ScreenKind
  <2>6. Change(s) BY <2>0 DEF AgentStarts
  <2> HIDE DEF q4, s
  <2> QED BY <1>0, <2>1, <2>5, <2>6, ChangeKeeps
<1>3. CASE PaneRespawns
  <2> DEFINE q1 == [screen EXCEPT !.pid = screen.pid + 1]
             q2 == [q1 EXCEPT !.proc = 0]
             q3 == [q2 EXCEPT !.fg = "zsh"]
             q4 == [q3 EXCEPT !.mode = FALSE]
             s == [screen EXCEPT !.pid = @ + 1, !.proc = 0, !.fg = "zsh", !.mode = FALSE]
  <2>1. q4 = s BY <1>0 DEF ScreenRec
  <2>2. q1 \in ScreenRec /\ q1.last = screen.last BY <1>0, ScreenPid
  <2> HIDE DEF q1
  <2>3. q2 \in ScreenRec /\ q2.last = screen.last /\ q2.proc = 0 BY <2>2, ScreenProc
  <2> HIDE DEF q2
  <2>4. q3 \in ScreenRec /\ q3.last = screen.last /\ q3.proc = 0 /\ q3.fg = "zsh" BY <2>3, CommandsOf, ScreenFg
  <2> HIDE DEF q3
  <2>5. q4 \in ScreenRec /\ q4.last = screen.last /\ q4.proc = 0 /\ q4.fg = "zsh" BY <2>4, ScreenMode
  <2>6. Change(s) BY <1>3 DEF PaneRespawns
  <2> HIDE DEF q4, s
  <2> QED BY <1>0, <2>1, <2>5, <2>6, CommandsOf, ChangeKeeps
<1>4. CASE OtherForeground
  <2> DEFINE f == IF screen.fg = "vim" THEN screen.kind ELSE "vim"
             s == [screen EXCEPT !.fg = f]
  <2>1. f \in Command /\ (f \in Provider => f = screen.kind) BY <1>0, CommandsOf
  <2>2. Change(s) BY <1>4 DEF OtherForeground
  <2> HIDE DEF f
  <2>3. s \in ScreenRec /\ s.proc = screen.proc /\ s.last = screen.last /\ s.fg = f /\ s.kind = screen.kind
    BY <1>0, <2>1, ScreenFg
  <2> HIDE DEF s
  <2> QED BY <1>0, <2>1, <2>2, <2>3, ChangeKeeps
<1>5. CASE CopyMode
  <2> DEFINE s == [screen EXCEPT !.mode = TRUE]
  <2>1. s \in ScreenRec /\ s.proc = screen.proc /\ s.last = screen.last /\ s.fg = screen.fg
        /\ s.kind = screen.kind
    BY <1>0, ScreenMode
  <2>2. Change(s) BY <1>5 DEF CopyMode
  <2> HIDE DEF s
  <2> QED BY <1>0, <2>1, <2>2, ChangeKeeps
<1> QED BY <1>1, <1>2, <1>3, <1>4, <1>5

LEMMA ScreenStays == InputInv => (screen' = screen => ScreenGrows)
  BY DEF InputInv, InputShapes, ScreenFits, ScreenRec, ScreenGrows

LEMMA ObserveKeeps ==
    ASSUME InputInv, NEW status \in AgentStatus, NEW session \in BOOLEAN, NEW unique \in BOOLEAN,
           Observe(status, session, unique)
    PROVE  InputInv'
<1> DEFINE fresh1 == screen.proc # 0 /\ screen.proc # listed.proc
<1>1. /\ listed' = [pid |-> screen.pid, fg |-> screen.fg,
                    kind |-> IF screen.proc = 0 THEN listed.kind ELSE screen.kind,
                    present |-> screen.proc # 0,
                    proc |-> IF unique THEN screen.proc ELSE 0,
                    epoch |-> IF fresh1 THEN listed.epoch + 1 ELSE listed.epoch,
                    status |-> status, session |-> session]
      /\ UNCHANGED <<screen, paneInstance, call, mux, typed>>
  BY DEF Observe
<1>2. listed' \in ListedRec
  <2>1. screen.pid \in Nat /\ screen.fg \in Command /\ screen.kind \in Provider /\ screen.proc \in Nat
        /\ listed.kind \in Provider /\ listed.epoch \in Nat
    BY DEF ScreenRec, ListedRec, InputInv, InputShapes, ScreenFits
  <2> DEFINE k == IF screen.proc = 0 THEN listed.kind ELSE screen.kind
             b == (screen.proc # 0)
             q == IF unique THEN screen.proc ELSE 0
             e == IF fresh1 THEN listed.epoch + 1 ELSE listed.epoch
  <2>2. k \in Provider /\ b \in BOOLEAN /\ q \in Nat /\ e \in Nat BY <2>1
  <2>3. listed' = [pid |-> screen.pid, fg |-> screen.fg, kind |-> k, present |-> b, proc |-> q,
                   epoch |-> e, status |-> status, session |-> session]
    BY <1>1, Zenon
  <2> HIDE DEF k, b, q, e
  <2> QED BY <2>1, <2>2, <2>3, Zenon DEF ListedRec
<1> QED BY <1>1, <1>2, ScreenStays, WorldKeeps DEF ScreenRec, InputInv, InputShapes, ScreenFits

LEMMA RestartsKeep == ASSUME InputInv, DaemonRestarts PROVE InputInv'
  BY ScreenStays, WorldKeeps DEF DaemonRestarts, InputInv, InputShapes, ScreenFits

-----------------------------------------------------------------------------
(* The steps of a call that type nothing.                                    *)
SameCall == /\ call'.n = call.n /\ call'.op = call.op /\ call'.id = call.id /\ call'.slow = call.slow
            /\ call'.seen = call.seen
(* What those steps leave alone or only look at.                             *)
Looks == /\ UNCHANGED <<screen, typed>> /\ paneInstance' \in Nat
         /\ listed' \in ListedRec /\ listed'.proc <= screen.last

LEMMA StepFields ==
    ASSUME call \in CallRec, NEW at \in CallSteps, Step(at)
    PROVE  /\ call' \in CallRec /\ call'.at = at /\ SameCall /\ call'.fg = call.fg
           /\ call'.report = call.report
  BY DEF Step, CallRec, SameCall

LEMMA ReportFields ==
    ASSUME call \in CallRec, NEW error \in ReportRec, Report(error)
    PROVE  /\ call' \in CallRec /\ call'.at = "done" /\ SameCall /\ call'.fg = call.fg
           /\ call'.report = error
<1> DEFINE q == [call EXCEPT !.at = "done"]
<1>1. /\ q \in CallRec /\ q.at = "done" /\ q.fg = call.fg /\ q.n = call.n /\ q.op = call.op
      /\ q.id = call.id /\ q.slow = call.slow /\ q.seen = call.seen
  BY DEF CallRec, CallSteps
<1>2. call' = [q EXCEPT !.report = error] BY Zenon DEF Report
<1> HIDE DEF q
<1> QED BY <1>1, <1>2 DEF CallRec, SameCall

LEMMA LooksKeep ==
    ASSUME InputInv, Looks, call' \in CallRec, SameCall,
           mux' = Quiet \/ mux' \in [call : Nat, keys : BOOLEAN],
           call.at # "idle", call'.fg = call.fg \/ TypedBy(call.n) = {},
           call'.at = "done" /\ call'.report.code = "ok" /\ call.op \in {"send", "steer"} =>
               screen.proc = call.id.proc
    PROVE  /\ InputShapes' /\ ScreenFits' /\ ReachFits'
           /\ TypedBy(call.n)' = TypedBy(call.n) /\ call'.n >= 1
           /\ \A i \in DOMAIN typed' : typed'[i].n <= call'.n
  BY DEF TypedBy, Looks, SameCall, InputInv, InputShapes, ScreenFits, ReachFits, Sends, Missed, KeysFit

LEMMA ReportKeeps ==
    ASSUME InputInv, Looks, NEW error \in ReportRec, Report(error), call.at # "idle",
           mux' = Quiet \/ mux' \in [call : Nat, keys : BOOLEAN],
           error.code = "ok" /\ call.op \in {"send", "steer"} =>
               TypedBy(call.n) = Whole(Len(typed)) /\ screen.proc = call.id.proc,
           error.code \in {"dispatch_rejected", "stale_reference"} =>
               TypedBy(call.n) = {} /\ mux' = Quiet,
           mux' # Quiet => /\ mux'.call = call.n /\ error.code = "delivery_unknown"
                           /\ error.retry = "inspect_manually"
    PROVE  InputInv'
  BY ReportFields, LooksKeep DEF InputInv, InputShapes, Looks, SameCall, KeysFit, Whole

Unsettled == {"connect", "resolve", "verify"}
LEMMA CallStepKeeps ==
    ASSUME InputInv, Looks, call' \in CallRec, SameCall, call'.at \notin {"idle", "applied", "done"},
           call.at # "idle", call'.fg = call.fg \/ TypedBy(call.n) = {},
           mux' = Quiet \/ mux' \in [call : Nat, keys : BOOLEAN],
           call'.at \in Unsettled => TypedBy(call.n) = {} /\ mux' = Quiet,
           call'.at = "tmux" =>
               /\ mux' \in [call : Nat, keys : BOOLEAN] /\ mux'.call = call.n
               /\ IF mux'.keys THEN call.slow /\ TypedBy(call.n) = {Len(typed)}
                  ELSE TypedBy(call.n) = {},
           call'.at \in {"ready", "listed", "confirm"} =>
               mux' = Quiet /\ call.op \in {"start", "split"}
    PROVE  InputInv'
  BY LooksKeep DEF Looks, SameCall, KeysFit, Whole, Unsettled, InputInv

LEMMA ErrorsFit ==
    /\ \A code \in Codes \ {"none", "ok"} : api_error(code) \in ReportRec /\ api_error(code).code = code
    /\ Success \in ReportRec /\ Success.code = "ok"
    /\ after_dispatch_error \in ReportRec /\ after_dispatch_error.code = "delivery_unknown"
    /\ after_dispatch_error.retry = "inspect_manually"
    /\ agent_start_timeout \in ReportRec /\ agent_start_timeout.code = "timeout"
    /\ \A o \in {"Rejected", "DeliveryUnknown"} : apply_terminal_mutation(o) \in ReportRec
    /\ apply_terminal_mutation("Rejected").code = "dispatch_rejected"
    /\ apply_terminal_mutation("DeliveryUnknown").code = "delivery_unknown"
    /\ apply_terminal_mutation("DeliveryUnknown").retry = "inspect_manually"
<1>1. ASSUME NEW code \in Codes \ {"none", "ok"}
      PROVE  api_error(code) \in ReportRec /\ api_error(code).code = code
  <2>1. default_retry_action(code) \in {"none", "refresh_target", "wait_then_retry",
                                       "restart_observation", "inspect_manually", "never"}
    <3> DEFINE R == code \in RefreshCodes
               W == code \in WaitCodes
               S == code \in RestartCodes
    <3> HIDE DEF R, W, S
    <3>2. default_retry_action(code) =
            CASE R -> "refresh_target" [] W -> "wait_then_retry" [] S -> "restart_observation"
              [] code = "delivery_unknown" -> "inspect_manually" [] OTHER -> "never"
      BY Zenon DEF default_retry_action, R, W, S
    <3> QED BY <3>2 DEF RefreshCodes, WaitCodes, RestartCodes
  <2> QED BY <2>1 DEF api_error, ReportRec
<1> QED
  BY <1>1 DEF Success, after_dispatch_error, agent_start_timeout, with_dispatch_context, ReportRec, Codes,
    apply_terminal_mutation

LEMMA LooksHere ==
    InputInv => /\ (UNCHANGED <<PaneChanges, typed>> => Looks)
                /\ call \in CallRec /\ (mux = Quiet \/ mux \in [call : Nat, keys : BOOLEAN])
                /\ (UNCHANGED mux => (mux' = Quiet \/ mux' \in [call : Nat, keys : BOOLEAN]))
  BY DEF InputInv, InputShapes, ScreenFits, Looks, PaneChanges

-----------------------------------------------------------------------------
(* Each step of a call.                                                      *)
LEMMA IdentityFits ==
    InputInv => AgentIdentity(listed) \in IdRec /\ AgentIdentity(listed).proc = listed.proc
  BY DEF InputInv, InputShapes, ListedRec, IdRec, AgentIdentity

LEMMA CallKeeps ==
    ASSUME InputInv, NEW op \in Operation, NEW slow \in BOOLEAN, Call(op, slow)
    PROVE  InputInv'
<1> DEFINE Id == AgentIdentity(listed)
           q1 == [Ready EXCEPT !.n = 1]
           q2 == [q1 EXCEPT !.op = op]
           q3 == [q2 EXCEPT !.at = "connect"]
           q4 == [q3 EXCEPT !.slow = slow]
           q5 == [q4 EXCEPT !.id = Id]
<1>1. call' = q5 BY Zenon DEF Call
<1>2. Id \in IdRec /\ Id.proc = listed.proc BY IdentityFits
<1> HIDE DEF Id
<1>3. q1 \in CallRec /\ q1.n = 1 BY ReadyRec DEF CallRec
<1> HIDE DEF q1
<1>4. q2 \in CallRec /\ q2.n = 1 /\ q2.op = op BY <1>3 DEF CallRec
<1> HIDE DEF q2
<1>5. q3 \in CallRec /\ q3.n = 1 /\ q3.op = op /\ q3.at = "connect" BY <1>4 DEF CallRec, CallSteps
<1> HIDE DEF q3
<1>6. q4 \in CallRec /\ q4.n = 1 /\ q4.op = op /\ q4.at = "connect" BY <1>5 DEF CallRec
<1> HIDE DEF q4
<1>7. call' \in CallRec /\ call'.n = 1 /\ call'.op = op /\ call'.at = "connect" /\ call'.id = Id
  BY <1>1, <1>2, <1>6 DEF CallRec
<1> HIDE DEF q5
<1>8. /\ UNCHANGED <<PaneChanges, mux, typed>> /\ call.at = "idle"
      /\ ToAgent(op) => listed.present /\ listed.proc # 0
  BY DEF Call
<1>10. TypedBy(call.n)' = {} BY <1>8 DEF TypedBy, InputInv, KeysFit
<1> QED
  BY <1>7, <1>8, <1>10, <1>2 DEF InputInv, InputShapes, ScreenFits, PaneChanges, KeysFit, Sends, ToAgent, ReachFits

LEMMA RetryKeeps == ASSUME InputInv, Retry PROVE InputInv'
<1> DEFINE Id == IF call.report.retry = "refresh_target" THEN AgentIdentity(listed) ELSE call.id
           q1 == [call EXCEPT !.n = @ + 1]
           q2 == [q1 EXCEPT !.at = "connect"]
           q3 == [q2 EXCEPT !.report = NoReport]
           q4 == [q3 EXCEPT !.first = Nobody]
           q5 == [q4 EXCEPT !.id = Id]
<1>0. call \in CallRec /\ typed \in Seq(TypedRec) BY DEF InputInv, InputShapes
<1>1. call' = q5 BY Zenon, <1>0 DEF Retry, CallRec
<1>2. Id \in IdRec /\ (Id.proc = listed.proc \/ Id = call.id) BY <1>0, IdentityFits DEF CallRec
<1> HIDE DEF Id
<1>3. q1 \in CallRec /\ q1.n = call.n + 1 /\ q1.op = call.op BY <1>0 DEF CallRec
<1> HIDE DEF q1
<1>4. q2 \in CallRec /\ q2.n = call.n + 1 /\ q2.op = call.op /\ q2.at = "connect" BY <1>3 DEF CallRec, CallSteps
<1> HIDE DEF q2
<1>5. q3 \in CallRec /\ q3.n = call.n + 1 /\ q3.op = call.op /\ q3.at = "connect"
  BY <1>4 DEF NoReport, ReportRec, Codes, CallRec
<1> HIDE DEF q3
<1>6. q4 \in CallRec /\ q4.n = call.n + 1 /\ q4.op = call.op /\ q4.at = "connect" BY <1>5 DEF Nobody, IdRec, CallRec
<1> HIDE DEF q4
<1>7. call' \in CallRec /\ call'.n = call.n + 1 /\ call'.op = call.op /\ call'.at = "connect"
      /\ call'.id = Id
  BY <1>1, <1>2, <1>6 DEF CallRec
<1> HIDE DEF q5
<1>8. /\ UNCHANGED <<PaneChanges, mux, typed>> /\ call.at = "done"
      /\ call.report.retry # "inspect_manually"
      /\ ToAgent(call.op) => listed.present /\ listed.proc # 0
  BY DEF Retry
<1>a. call.n \in Nat /\ \A i \in DOMAIN typed : typed[i].n \in Nat
  <2>1. \A i \in DOMAIN typed : typed[i] \in TypedRec BY <1>0
  <2> QED BY <1>0, <2>1 DEF CallRec, TypedRec
<1>10. TypedBy(call.n)' = {} BY <1>7, <1>8, <1>a DEF TypedBy, InputInv, KeysFit
<1> QED
  BY <1>7, <1>8, <1>a, <1>10, <1>2 DEF InputInv, InputShapes, ScreenFits, PaneChanges, KeysFit, Sends, ToAgent,
    ReachFits

LEMMA ConnectKeeps == ASSUME InputInv, connect PROVE InputInv'
<1>0. call \in CallRec /\ Looks /\ call.at = "connect" /\ UNCHANGED mux BY LooksHere DEF connect, PaneChanges
<1>2. CASE call' = [call EXCEPT !.at = "resolve", !.seen = paneInstance]
  <2> DEFINE q == [call EXCEPT !.at = "resolve"]
  <2>1. q \in CallRec /\ q.at = "resolve" /\ q.n = call.n /\ q.op = call.op /\ q.id = call.id
        /\ q.slow = call.slow /\ q.fg = call.fg
    BY <1>0 DEF CallRec, CallSteps
  <2>2. call' = [q EXCEPT !.seen = paneInstance] /\ paneInstance \in Nat BY <1>2, Zenon DEF InputInv, InputShapes
  <2> HIDE DEF q
  <2>3. call' \in CallRec /\ call'.at = "resolve" /\ call'.n = call.n /\ call'.op = call.op
        /\ call'.id = call.id /\ call'.slow = call.slow /\ call'.fg = call.fg
    BY <2>1, <2>2 DEF CallRec
  <2>5. TypedBy(call.n)' = {} /\ typed' = typed /\ mux' = Quiet /\ screen' = screen
    BY <1>0, <2>3 DEF TypedBy, Looks, InputInv, KeysFit
  <2> QED BY <1>0, <2>3, <2>5 DEF InputInv, InputShapes, ScreenFits, Looks, KeysFit, ReachFits, Sends
<1>3. ASSUME NEW code \in {"daemon_unavailable", "resource_limit"}, Report(api_error(code))
      PROVE  InputInv'
  BY ErrorsFit, <1>0, <1>3, ReportKeeps DEF Codes, InputInv, KeysFit
<1> QED BY <1>2, <1>3 DEF connect

LEMMA RefusalFits ==
    ASSUME NEW l \in ListedRec, NEW op \in Operation
    PROVE  Refusal(op, l) \in Codes \ {"none", "dispatch_rejected", "stale_reference"}
<1>4. agent_start(l) \in Codes \ {"none", "dispatch_rejected", "stale_reference"} BY DEF agent_start, Codes
<1>5. "ok" \in Codes \ {"none", "dispatch_rejected", "stale_reference"} BY DEF Codes
<1> HIDE DEF agent_send, agent_steer, agent_send_keys, agent_start
<1> QED
  BY <1>4, <1>5 DEF Refusal, Operation, agent_send_keys, Codes, agent_send, AgentStatus, ListedRec, agent_steer

LEMMA ResolveKeeps == ASSUME InputInv, resolve_agent PROVE InputInv'
<1>0. call \in CallRec /\ Looks /\ call.at = "resolve" /\ UNCHANGED mux BY LooksHere DEF resolve_agent, PaneChanges
<1>2. ASSUME NEW code \in Codes \ {"none", "ok"}, Report(api_error(code))
      PROVE  InputInv'
  BY ErrorsFit, <1>0, <1>2, ReportKeeps DEF InputInv, KeysFit
<1>3. ASSUME call' = [call EXCEPT !.at = "verify", !.fg = listed.fg]
      PROVE  InputInv'
  <2> DEFINE q == [call EXCEPT !.at = "verify"]
  <2>1. q \in CallRec /\ q.at = "verify" /\ q.n = call.n /\ q.op = call.op /\ q.id = call.id
        /\ q.slow = call.slow /\ q.seen = call.seen
    BY <1>0 DEF CallRec, CallSteps
  <2>2. call' = [q EXCEPT !.fg = listed.fg] /\ listed.fg \in Command
    BY <1>3, Zenon DEF InputInv, InputShapes, ListedRec
  <2> HIDE DEF q
  <2> QED BY <1>0, <2>1, <2>2, CallStepKeeps DEF InputInv, KeysFit, CallRec, SameCall
<1>4. {"exact_identity_unavailable", "stale_reference"} \subseteq Codes \ {"none", "ok"} BY DEF Codes
<1>5. Refusal(call.op, listed) # "ok" => Refusal(call.op, listed) \in Codes \ {"none", "ok"}
  BY <1>0, RefusalFits DEF InputInv, InputShapes, CallRec
<1> DEFINE F == Refusal(call.op, listed)
           A == ToAgent(call.op) /\ ~require_same_agent(listed, call.id)
           B == require_same_pane(listed, call.id.pid)
           C == B /\ listed.present /\ listed.epoch = call.id.epoch /\ listed.proc = 0
<1>6. IF A THEN Report(api_error(IF C THEN "exact_identity_unavailable" ELSE "stale_reference"))
      ELSE IF ~B THEN Report(api_error("stale_reference"))
      ELSE IF F # "ok" THEN Report(api_error(F))
      ELSE call' = [call EXCEPT !.at = "verify", !.fg = listed.fg]
  BY Zenon DEF resolve_agent
<1> HIDE DEF A, B, C, F
<1>7. \/ \E code \in Codes \ {"none", "ok"} : Report(api_error(code))
      \/ call' = [call EXCEPT !.at = "verify", !.fg = listed.fg]
  BY <1>4, <1>5, <1>6, Zenon DEF F
<1> QED BY <1>2, <1>3, <1>7

LEMMA RunKeeps == ASSUME InputInv, run_with_input PROVE InputInv'
<1>0. call \in CallRec /\ Looks /\ call.at = "verify" BY LooksHere DEF run_with_input
<1>1. TypedBy(call.n) = {} /\ mux = Quiet BY <1>0 DEF InputInv, KeysFit
<1>2. CASE Report(api_error("stale_reference")) /\ UNCHANGED mux
  BY ErrorsFit, <1>0, <1>1, <1>2, ReportKeeps DEF Codes
<1>3. CASE Report(apply_terminal_mutation("Rejected")) /\ UNCHANGED mux BY <1>0, <1>1, <1>3, ErrorsFit, ReportKeeps
<1>4. CASE mux' = [call |-> call.n, keys |-> FALSE] /\ Step("tmux")
  BY <1>0, <1>4, StepFields, <1>1, CallStepKeeps DEF CallSteps, CallRec, Unsettled
<1> QED BY <1>2, <1>3, <1>4, Zenon DEF run_with_input

LEMMA LoseKeeps == ASSUME InputInv, LoseAnswer PROVE InputInv'
  BY LooksHere, ErrorsFit, ReportKeeps DEF LoseAnswer, InputInv, KeysFit

LEMMA SubmitKeeps == ASSUME InputInv, submit_text_when_settled PROVE InputInv'
<1>2. CASE mux' = [call |-> call.n, keys |-> TRUE] /\ Step("tmux")
  BY LooksHere, <1>2, StepFields, CallStepKeeps DEF CallSteps, CallRec, Unsettled, InputInv, KeysFit,
    submit_text_when_settled
<1>3. CASE Report(apply_terminal_mutation("DeliveryUnknown")) /\ UNCHANGED mux
  BY LooksHere, <1>3, ErrorsFit, ReportKeeps DEF InputInv, KeysFit, submit_text_when_settled
<1> QED BY <1>2, <1>3 DEF submit_text_when_settled

LEMMA EnteredFits ==
    InputInv /\ Entered => TypedBy(call.n) = Whole(Len(typed)) /\ mux = Quiet /\ call.at # "idle"
  BY DEF InputInv, KeysFit, Entered

LEMMA RevalidateKeeps == ASSUME InputInv, Revalidate PROVE InputInv'
<1>0. call \in CallRec /\ Looks /\ Entered /\ UNCHANGED mux BY LooksHere DEF Revalidate
<1>1. TypedBy(call.n) = Whole(Len(typed)) /\ mux = Quiet /\ mux' = Quiet /\ call.at # "idle" BY <1>0, EnteredFits
<1>2. CASE call.op = "keys" /\ Report(Success) BY <1>0, <1>1, <1>2, ErrorsFit, ReportKeeps
<1>3. CASE require_same_agent(listed, call.id) /\ verify_live_agent_process(call.id) /\ Report(Success)
  BY <1>3, <1>0, <1>1, ErrorsFit, ReportKeeps DEF verify_live_agent_process
<1>4. CASE Report(after_dispatch_error) BY <1>0, <1>1, <1>4, ErrorsFit, ReportKeeps
<1>5. ASSUME NEW code \in {"stale_daemon", "daemon_unavailable", "resource_limit", "daemon_query_failed"},
             Report(api_error(code))
      PROVE  InputInv'
  BY ErrorsFit, <1>0, <1>1, <1>5, ReportKeeps DEF Codes
<1>7. after_reconnect =>
        \/ require_same_agent(listed, call.id) /\ verify_live_agent_process(call.id) /\ Report(Success)
        \/ Report(after_dispatch_error)
        \/ \E code \in {"stale_daemon", "daemon_unavailable", "resource_limit", "daemon_query_failed"} :
              Report(api_error(code))
  <2> HIDE DEF Report, api_error
  <2> QED BY Zenon DEF after_reconnect
<1> QED BY <1>2, <1>3, <1>4, <1>5, <1>7 DEF Revalidate

LEMMA RefreshTopologyKeeps ==
    ASSUME InputInv, refresh_canonical_topology_after_dispatch PROVE InputInv'
<1>0. call \in CallRec /\ Entered /\ UNCHANGED <<mux, screen, typed, paneInstance>>
      /\ call.op \in {"start", "split"} /\ paneInstance \in Nat /\ screen \in ScreenRec
      /\ listed \in ListedRec /\ listed.proc <= screen.last
  BY DEF refresh_canonical_topology_after_dispatch, InputInv, InputShapes, ScreenFits
<1>2. CASE /\ Step(IF call.op = "start" THEN "ready" ELSE "listed")
           /\ listed' = [listed EXCEPT !.pid = screen.pid, !.fg = screen.fg]
  <2> DEFINE at1 == IF call.op = "start" THEN "ready" ELSE "listed"
             q1 == [listed EXCEPT !.pid = screen.pid]
             q2 == [q1 EXCEPT !.fg = screen.fg]
  <2>1. at1 \in CallSteps /\ at1 \in {"ready", "listed"} BY DEF CallSteps
  <2>2. Step(at1) BY <1>2
  <2> HIDE DEF at1
  <2>4. q1 \in ListedRec /\ q1.proc = listed.proc BY <1>0 DEF ListedRec, ScreenRec
  <2>5. listed' = q2 BY <1>2, Zenon
  <2> HIDE DEF q1
  <2>7. Looks BY <1>0, <2>4, <2>5 DEF Looks, ListedRec, ScreenRec
  <2> QED BY <1>0, EnteredFits, <2>1, <2>2, StepFields, <2>7, CallStepKeeps DEF Unsettled
<1>3. CASE Report(after_dispatch_error) /\ UNCHANGED listed
  BY <1>0, <1>3, EnteredFits, ErrorsFit, ReportKeeps DEF Looks
<1> QED BY <1>2, <1>3 DEF refresh_canonical_topology_after_dispatch

(* The steps after a start or a split: nothing of them is a send.            *)
LEMMA LateReportKeeps ==
    ASSUME InputInv, Looks, UNCHANGED mux, call.at \in {"ready", "listed", "confirm"},
           NEW error \in {after_dispatch_error, agent_start_timeout, Success,
                          api_error("stale_daemon"), api_error("daemon_unavailable")},
           Report(error)
    PROVE  InputInv'
  BY ErrorsFit, ReportKeeps DEF InputInv, KeysFit, Codes

LEMMA SplitKeeps == ASSUME InputInv, pane_split PROVE InputInv'
<1>1. \E error \in {after_dispatch_error, agent_start_timeout, Success,
                     api_error("stale_daemon"), api_error("daemon_unavailable")} : Report(error)
  <2> HIDE DEF Report, api_error, after_dispatch_error, agent_start_timeout, Success
  <2> QED BY Zenon DEF pane_split
<1> QED BY LooksHere, <1>1, LateReportKeeps DEF pane_split

LEMMA AwaitKeeps == ASSUME InputInv, AwaitReadiness PROVE InputInv'
<1>0. Looks /\ call.at = "ready" /\ UNCHANGED mux /\ call \in CallRec /\ Owner \in IdRec
  BY LooksHere DEF InputInv, InputShapes, ListedRec, IdRec, Owner, AwaitReadiness
<1>2. CASE call' = [call EXCEPT !.at = "confirm", !.first = Owner]
  <2> DEFINE q == [call EXCEPT !.at = "confirm"]
  <2>1. q \in CallRec /\ q.at = "confirm" /\ q.n = call.n /\ q.op = call.op /\ q.id = call.id
        /\ q.slow = call.slow /\ q.seen = call.seen /\ q.fg = call.fg
    BY <1>0 DEF CallRec, CallSteps
  <2>2. call' = [q EXCEPT !.first = Owner] BY <1>2, Zenon
  <2> HIDE DEF q
  <2> QED BY <1>0, <2>1, <2>2, CallStepKeeps DEF Unsettled, InputInv, KeysFit, CallRec, SameCall
<1>3. ASSUME NEW error \in {after_dispatch_error, agent_start_timeout}, Report(error)
      PROVE  InputInv'
  BY <1>0, <1>3, LateReportKeeps
<1>4. \/ call' = [call EXCEPT !.at = "confirm", !.first = Owner]
      \/ \E error \in {after_dispatch_error, agent_start_timeout} : Report(error)
  <2> HIDE DEF Report, after_dispatch_error, agent_start_timeout
  <2> QED BY Zenon DEF AwaitReadiness
<1> QED BY <1>2, <1>3, <1>4

LEMMA ConfirmKeeps == ASSUME InputInv, ConfirmReadiness PROVE InputInv'
<1>2. CASE Step("ready")
  BY LooksHere, <1>2, StepFields, CallStepKeeps DEF CallSteps, Unsettled, InputInv, KeysFit, ConfirmReadiness
<1>3. ASSUME NEW error \in {after_dispatch_error, Success}, Report(error)
      PROVE  InputInv'
  BY LooksHere, <1>3, LateReportKeeps DEF ConfirmReadiness
<1>4. \/ Step("ready") \/ \E error \in {after_dispatch_error, Success} : Report(error)
  <2> HIDE DEF Report, after_dispatch_error, Success, Step
  <2> QED BY Zenon DEF ConfirmReadiness
<1> QED BY <1>2, <1>3, <1>4

-----------------------------------------------------------------------------
(* tmux runs the guarded command.                                            *)
Running(op) == [screen EXCEPT !.mode = IF op = "split" THEN @ ELSE FALSE,
                    !.fg = IF op = "start" THEN "claude" ELSE @,
                    !.kind = IF op = "start" THEN "claude" ELSE @,
                    !.proc = IF op = "start" THEN screen.last + 1 ELSE @,
                    !.last = IF op = "start" THEN @ + 1 ELSE @]

LEMMA RunningScreen ==
    ASSUME InputInv, NEW op \in Operation, screen' = Running(op)
    PROVE  /\ ScreenGrows
           /\ op # "start" => screen'.proc = screen.proc /\ screen'.last = screen.last
<1>0. screen \in ScreenRec /\ screen.proc <= screen.last /\ (screen.fg \in Provider => screen.fg = screen.kind)
      /\ screen.last \in Nat /\ screen.proc \in Nat /\ screen.mode \in BOOLEAN
      /\ screen.fg \in Command /\ screen.kind \in Provider
  BY DEF InputInv, InputShapes, ScreenFits, ScreenRec
<1> DEFINE m == IF op = "split" THEN screen.mode ELSE FALSE
           f == IF op = "start" THEN "claude" ELSE screen.fg
           k == IF op = "start" THEN "claude" ELSE screen.kind
           p == IF op = "start" THEN screen.last + 1 ELSE screen.proc
           l == IF op = "start" THEN screen.last + 1 ELSE screen.last
<1>1. m \in BOOLEAN /\ f \in Command /\ k \in Provider /\ p \in Nat /\ l \in Nat
  <2>3. p \in Nat /\ l \in Nat BY <1>0
  <2> QED BY <1>0, CommandsOf, <2>3
<1>2. /\ l >= screen.last /\ p <= l /\ (f \in Provider => f = k)
      /\ p = screen.proc \/ p > screen.last
      /\ op # "start" => p = screen.proc /\ l = screen.last
  BY <1>0
<1> DEFINE q1 == [screen EXCEPT !.mode = m]
           q2 == [q1 EXCEPT !.fg = f]
           q3 == [q2 EXCEPT !.kind = k]
           q4 == [q3 EXCEPT !.proc = p]
           q5 == [q4 EXCEPT !.last = l]
<1>3. screen' = q5 BY <1>0 DEF Running, ScreenRec
<1> HIDE DEF m, f, k, p, l
<1>4. q1 \in ScreenRec BY <1>0, <1>1, ScreenMode
<1> HIDE DEF q1
<1>5. q2 \in ScreenRec /\ q2.fg = f BY <1>1, <1>4, ScreenFg
<1> HIDE DEF q2
<1>6. q3 \in ScreenRec /\ q3.fg = f /\ q3.kind = k BY <1>1, <1>5, ScreenKind
<1> HIDE DEF q3
<1>7. q4 \in ScreenRec /\ q4.fg = f /\ q4.kind = k /\ q4.proc = p BY <1>1, <1>6, ScreenProc
<1> HIDE DEF q4
<1>8. q5 \in ScreenRec /\ q5.fg = f /\ q5.kind = k /\ q5.proc = p /\ q5.last = l BY <1>1, <1>7, ScreenLast
<1> HIDE DEF q5
<1> QED BY <1>1, <1>2, <1>3, <1>8 DEF ScreenGrows

(* The history after one more typing of the call.                            *)
LEMMA TypedMore ==
    ASSUME NEW s \in Seq(TypedRec), NEW e \in TypedRec, NEW q, q = Append(s, e)
    PROVE  /\ q \in Seq(TypedRec) /\ Len(q) = Len(s) + 1 /\ Len(q) \in Nat /\ Len(s) \in Nat
           /\ q[Len(q)] = e
           /\ DOMAIN q = DOMAIN s \cup {Len(q)} /\ Len(q) \notin DOMAIN s
           /\ \A i \in DOMAIN s : q[i] = s[i]
  OBVIOUS

LEMMA GuardKeeps == ASSUME InputInv, GuardedCommand PROVE InputInv'
<1>0. /\ call \in CallRec /\ screen \in ScreenRec /\ typed \in Seq(TypedRec) /\ call.op \in Operation
      /\ listed \in ListedRec /\ listed.proc <= screen.last /\ paneInstance \in Nat
      /\ mux # Quiet /\ mux' = Quiet /\ mux \in [call : Nat, keys : BOOLEAN]
      /\ UNCHANGED <<listed, paneInstance>>
  BY DEF GuardedCommand, InputInv, InputShapes, ScreenFits, CallRec
<1>1. /\ mux.call = call.n
      /\ \/ call.at = "tmux"
         \/ call.at = "done" /\ call.report.code = "delivery_unknown"
  BY <1>0 DEF InputInv, KeysFit, CallRec, CallSteps
<1>2. CASE exact_pane_guard
  <2>1. /\ screen' = Running(call.op) /\ typed' = Append(typed, Typing)
        /\ IF call.at = "tmux" THEN Step("applied") ELSE UNCHANGED call
    BY <1>2, Zenon DEF GuardedCommand, Running
  <2>3. Typing \in TypedRec /\ Typing.n = call.n /\ Typing.enter = (mux.keys \/ ~call.slow)
    <3>1. call.n \in Nat /\ mux.keys \in BOOLEAN /\ call.slow \in BOOLEAN /\ screen.proc \in Nat
      BY <1>0 DEF CallRec, ScreenRec
    <3> DEFINE e == (mux.keys \/ ~call.slow)
               p == IF screen.fg = screen.kind THEN screen.proc ELSE 0
    <3>2. e \in BOOLEAN /\ p \in Nat BY <3>1
    <3>3. Typing = [n |-> call.n, enter |-> e, proc |-> p] BY <1>1, Zenon DEF Typing
    <3> HIDE DEF e, p
    <3>4. Typing \in TypedRec /\ Typing.n = call.n /\ Typing.enter = e BY <3>1, <3>2, <3>3, Zenon DEF TypedRec
    <3> QED BY <3>4 DEF e
  <2>4. /\ typed' \in Seq(TypedRec) /\ Len(typed') = Len(typed) + 1 /\ Len(typed) \in Nat
        /\ typed'[Len(typed')] = Typing
        /\ DOMAIN typed' = DOMAIN typed \cup {Len(typed')} /\ Len(typed') \notin DOMAIN typed
        /\ \A i \in DOMAIN typed : typed'[i] = typed[i]
    BY <1>0, <2>1, <2>3, TypedMore
  <2>5. call' \in CallRec /\ SameCall /\ call'.fg = call.fg /\ call'.report = call.report
        /\ call'.at = IF call.at = "tmux" THEN "applied" ELSE call.at
    BY <1>0, <2>1, StepFields DEF CallSteps, SameCall
  <2>6. TypedBy(call.n)' = TypedBy(call.n) \cup {Len(typed')} BY <2>5, <2>3, <2>4 DEF SameCall, TypedBy
  <2>8. KeysFit'
    <3>1. call.n \in Nat /\ call.n >= 1 /\ \A i \in DOMAIN typed' : typed'[i].n <= call.n
      BY <1>0, <1>1, <2>3, <2>4 DEF InputInv, KeysFit, CallRec
    <3>3. CASE call.at = "done" BY <1>0, <1>1, <2>5, <3>1, <3>3 DEF KeysFit, SameCall
    <3>4. CASE call.at = "tmux"
      <4>1. call'.at = "applied" /\ Len(typed') >= 1 /\ Len(typed') - 1 = Len(typed) BY <2>4, <2>5, <3>4
      <4> QED BY <1>0, <3>1, <2>5, <4>1, <2>3, <2>4, <2>6, <3>4 DEF KeysFit, Whole, SameCall, InputInv
    <3> QED BY <1>1, <3>3, <3>4
  <2>9. ReachFits'
    <3>1. CASE Sends'
      <4>1. Sends /\ call.op \in {"send", "steer"} /\ call'.id = call.id /\ call'.fg = call.fg
        BY <1>1, <2>5, <3>1 DEF Sends, SameCall
      <4>5. call.fg \in Provider /\ screen.proc = call.id.proc =>
              \A i \in TypedBy(call.n)' : typed'[i].proc = call.id.proc
        BY <4>1, <2>4, <2>6, <1>2 DEF TypedBy, InputInv, ReachFits, Missed, exact_pane_guard, ScreenFits, Typing
      <4> QED BY <4>1, <1>0, <2>1, RunningScreen, <1>1, <2>5, <4>5 DEF ReachFits, Missed, InputInv
    <3>2. CASE ~Sends' BY <3>2 DEF ReachFits
    <3> QED BY <3>1, <3>2
  <2> QED
    BY <1>0, <2>1, RunningScreen, <2>4, <2>5, <2>8, <2>9 DEF InputInv, ListedRec, ScreenRec, ScreenGrows,
      InputShapes, ScreenFits
<1>3. CASE ~exact_pane_guard
  <2>3. CASE call.at = "tmux"
    BY <2>3, <1>0, <1>3, ErrorsFit, ReportKeeps DEF InputInv, KeysFit, Mismatch, Looks, GuardedCommand
  <2>4. CASE call.at = "done"
    BY <1>0, <1>3, <2>4, <1>1 DEF TypedBy, InputInv, InputShapes, ScreenFits, ReachFits, Sends, Missed, KeysFit,
      GuardedCommand
  <2> QED BY <1>1, <2>3, <2>4
<1> QED BY <1>2, <1>3

(* Every step of the part.                                                   *)
LEMMA InputStepInv == ASSUME InputInv, InputNext PROVE InputInv'
<1>1. CASE \/ \E op \in Operation, slow \in BOOLEAN : Call(op, slow)
           \/ Retry \/ connect \/ resolve_agent \/ run_with_input \/ GuardedCommand \/ LoseAnswer
  BY <1>1, CallKeeps, RetryKeeps, ConnectKeeps, ResolveKeeps, RunKeeps, GuardKeeps, LoseKeeps
<1>2. CASE \/ submit_text_when_settled \/ Revalidate
           \/ refresh_canonical_topology_after_dispatch
           \/ pane_split \/ AwaitReadiness \/ ConfirmReadiness
  BY <1>2, SubmitKeeps, RevalidateKeeps, RefreshTopologyKeeps, SplitKeeps, AwaitKeeps, ConfirmKeeps
<1>3. CASE \/ AgentExits \/ PaneRespawns \/ OtherForeground \/ CopyMode
           \/ \E kind \in Provider : AgentStarts(kind)
  BY <1>3, ScreenMovesKeep
<1>4. CASE DaemonRestarts BY <1>4, RestartsKeep
<1>5. CASE \E status \in AgentStatus, session, unique \in BOOLEAN : Observe(status, session, unique)
  BY <1>5, ObserveKeeps
<1> QED BY <1>1, <1>2, <1>3, <1>4, <1>5 DEF InputNext

LEMMA InputStutters == ASSUME InputInv, UNCHANGED inputVars PROVE InputInv'
  BY DEF inputVars, InputInv, InputShapes, ScreenFits, KeysFit, ReachFits, Sends, Missed, TypedBy, Whole

-----------------------------------------------------------------------------
(* Sessions: what a client shows and where its command is going.             *)

SessionShaped(x) == x = [wins |-> x.wins, path |-> x.path, mirror |-> x.mirror]
NavShaped(r) == r = [at |-> r.at, op |-> r.op, arg |-> r.arg, listed |-> r.listed, cats |-> r.cats,
                     target |-> r.target, kills |-> r.kills, spared |-> r.spared]

(* A command that kills: no row of it is of a session it spares, and it is    *)
(* on its way to such a session or shows one, if there is one.               *)
KillFits(r, a) ==
    /\ r.at \in {"switch", "kill"} /\ r.op = "kill" =>
          \A e \in r.kills : e[1] \in SName /\ e[1] \notin r.spared
    /\ r.at = "switch" /\ r.op = "kill" /\ r.spared # {} => r.target \in r.spared
    /\ r.at = "kill" => /\ r.op = "kill"
                        /\ r.spared # {} /\ a # 0 => \A e \in r.kills : e[1] # a
NavFits(r, a) ==
    /\ NavShaped(r) /\ r.listed \subseteq SName
    /\ r.at = "switch" /\ r.op = "category" => r.target \in r.listed /\ r.cats[r.target] = r.arg
    /\ KillFits(r, a)

SessInv ==
    /\ sessions = [s \in SName |-> sessions[s]] /\ \A s \in SName : SessionShaped(sessions[s])
    /\ attached \in [SClient -> SName \cup {0}] /\ ShowsExisting
    /\ nav = [c \in SClient |-> nav[c]] /\ \A c \in SClient : NavFits(nav[c], attached[c])

LEMMA SessInvSound == SessInv => SessionsSound BY DEF SessInv, SessionsSound, CategoryHonoured, NavFits, SessionAt

LEMMA LeastSpared ==
    ASSUME NEW T, T \subseteq SName, T # {}
    PROVE  Min(T) \in T
<1>0. T \subseteq Nat BY SessionsAssumption
<1>1. PICK i \in T : \A j \in T : ~ (<<j, i>> \in OpToRel(<, Nat))
  <2> HIDE DEF OpToRel
  <2> QED BY <1>0, NatLessThanWellFounded, WFMin
<1>2. \A j \in T : ~ (j < i) BY <1>0, <1>1 DEF OpToRel
<1>3. \A j \in T : i <= j BY <1>0, <1>2
<1> QED BY <1>3 DEF Min

(* A command that has nothing to switch to and nothing to kill.              *)
LEMMA PlainFits ==
    ASSUME NEW r, NEW a, NavShaped(r), r.listed \subseteq SName, r.at \notin {"switch", "kill"}
    PROVE  NavFits(r, a)
  BY DEF NavFits, KillFits
LEMMA OtherFits ==
    ASSUME NEW r, NEW a, NavShaped(r), r.listed \subseteq SName, r.at # "kill",
           r.op \notin {"category", "kill"}
    PROVE  NavFits(r, a)
  BY DEF NavFits, KillFits
LEMMA DetachedFits == ASSUME NEW r, NEW a, NavFits(r, a) PROVE NavFits(r, 0) BY DEF NavFits, KillFits

LEMMA NoNavFits == NavShaped(NoNav) /\ NoNav.listed = {} /\ \A a : NavFits(NoNav, a)
  BY PlainFits DEF NoNav, NavShaped

LEMMA NavAtField ==
    ASSUME NEW r, NavShaped(r), NEW a
    PROVE  LET q == [r EXCEPT !.at = a]
           IN /\ NavShaped(q) /\ q.at = a /\ q.op = r.op /\ q.listed = r.listed /\ q.target = r.target
              /\ q.kills = r.kills /\ q.spared = r.spared /\ q.arg = r.arg /\ q.cats = r.cats
  BY DEF NavShaped
LEMMA NavTargetField ==
    ASSUME NEW r, NavShaped(r), NEW t
    PROVE  LET q == [r EXCEPT !.target = t]
           IN /\ NavShaped(q) /\ q.target = t /\ q.at = r.at /\ q.op = r.op /\ q.listed = r.listed
              /\ q.kills = r.kills /\ q.spared = r.spared /\ q.arg = r.arg /\ q.cats = r.cats
  BY DEF NavShaped
LEMMA NavCatsField ==
    ASSUME NEW r, NavShaped(r), NEW k
    PROVE  LET q == [r EXCEPT !.cats = k]
           IN NavShaped(q) /\ q.at = r.at /\ q.op = r.op /\ q.listed = r.listed
  BY DEF NavShaped
LEMMA NavKillsField ==
    ASSUME NEW r, NavShaped(r), NEW k
    PROVE  LET q == [r EXCEPT !.kills = k]
           IN /\ NavShaped(q) /\ q.kills = k /\ q.at = r.at /\ q.op = r.op /\ q.listed = r.listed
              /\ q.spared = r.spared /\ q.target = r.target
  BY DEF NavShaped
LEMMA NavSparedField ==
    ASSUME NEW r, NavShaped(r), NEW k
    PROVE  LET q == [r EXCEPT !.spared = k]
           IN /\ NavShaped(q) /\ q.spared = k /\ q.at = r.at /\ q.op = r.op /\ q.listed = r.listed
              /\ q.kills = r.kills /\ q.target = r.target
  BY DEF NavShaped
LEMMA NavOpField ==
    ASSUME NEW r, NavShaped(r), NEW o
    PROVE  LET q == [r EXCEPT !.op = o]
           IN NavShaped(q) /\ q.op = o /\ q.at = r.at /\ q.listed = r.listed
  BY DEF NavShaped

(* One command moves; the other clients' sessions stay or end.               *)
LEMMA NavMoves ==
    ASSUME SessInv, NEW c \in SClient, NEW q, nav' = [nav EXCEPT ![c] = q],
           attached' \in [SClient -> SName \cup {0}],
           \A d \in SClient \ {c} : attached'[d] \in {attached[d], 0},
           NavFits(q, attached'[c])
    PROVE  nav' = [d \in SClient |-> nav'[d]] /\ \A d \in SClient : NavFits(nav'[d], attached'[d])
<1>2. nav' = [d \in SClient |-> nav'[d]] /\ nav'[c] = q /\ \A d \in SClient \ {c} : nav'[d] = nav[d]
  <2> DEFINE N == nav
  <2> HIDE DEF N
  <2> QED BY DEF N, SessInv
<1>3. ASSUME NEW d \in SClient \ {c} PROVE NavFits(nav'[d], attached'[d]) BY <1>2, DetachedFits DEF SessInv
<1> QED BY <1>2, <1>3

LEMMA NavStays ==
    ASSUME SessInv, UNCHANGED nav, attached' \in [SClient -> SName \cup {0}],
           \A d \in SClient : attached'[d] \in {attached[d], 0}
    PROVE  nav' = [d \in SClient |-> nav'[d]] /\ \A d \in SClient : NavFits(nav'[d], attached'[d])
  BY DetachedFits DEF SessInv

(* A command of c that ends or goes on with nothing else changed.            *)
LEMMA NavOnly ==
    ASSUME SessInv, NEW c \in SClient, NEW q, nav' = [nav EXCEPT ![c] = q],
           UNCHANGED <<sessions, attached>>, NavFits(q, attached[c])
    PROVE  SessInv'
  BY NavMoves DEF SessInv, ShowsExisting, Exists

LEMMA FailKeeps ==
    ASSUME SessInv, NEW c \in SClient, NavFails(c), UNCHANGED <<sessions, attached>>
    PROVE  SessInv'
  BY NavOnly, NoNavFits DEF NavFails

LEMMA ThisNav == SessInv => \A c \in SClient : NavFits(nav[c], attached[c]) /\ NavShaped(nav[c])
                                            /\ nav[c].listed \subseteq SName
  BY DEF SessInv, NavFits

-----------------------------------------------------------------------------
(* The steps that only move a command.                                       *)
LEMMA ListKeeps ==
    ASSUME SessInv, NEW c \in SClient, NEW op, NEW arg, list_sessions(c, op, arg)
    PROVE  SessInv'
<1> DEFINE q1 == [NoNav EXCEPT !.op = op]
           q2 == [q1 EXCEPT !.arg = arg]
           q3 == [q2 EXCEPT !.listed = Living]
           q4 == [q3 EXCEPT !.cats = resolve_session_categories]
           q5 == [q4 EXCEPT !.at = "listed"]
<1>1. nav' = [nav EXCEPT ![c] = q5] BY Zenon DEF list_sessions, NavGoto
<1>2. NavShaped(q1) BY NoNavFits, NavOpField
<1> HIDE DEF q1
<1>3. NavShaped(q2) BY <1>2 DEF NavShaped
<1> HIDE DEF q2
<1>4. NavShaped(q3) /\ q3.listed = Living BY <1>3 DEF NavShaped
<1> HIDE DEF q3
<1>5. NavShaped(q4) /\ q4.listed = Living BY <1>4, NavCatsField
<1> HIDE DEF q4
<1>6. NavShaped(q5) /\ q5.listed \subseteq SName /\ q5.at = "listed" BY <1>5, NavAtField DEF Living
<1> HIDE DEF q5
<1> QED BY <1>1, <1>6, NavOnly, PlainFits DEF list_sessions

(* The target and the step of a command, in one assignment.                  *)
LEMMA TargetAt ==
    ASSUME SessInv, NEW c \in SClient, NEW t, NEW a,
           nav' = [nav EXCEPT ![c].target = t, ![c].at = a]
    PROVE  nav' = [nav EXCEPT ![c] = [[nav[c] EXCEPT !.target = t] EXCEPT !.at = a]]
  BY ThisNav DEF SessInv

LEMMA ChooseKeeps == ASSUME SessInv, NEW c \in SClient, Choose(c) PROVE SessInv'
<1> DEFINE r == nav[c]
           A == use_category_for_client_from_sessions(c, r, r.arg)
           B == use_adjacent_category_resolved(c, r)
           C == cycle_session_resolved(c, r)
           to == CASE r.op = "category" -> A [] r.op = "adjacent" -> B
                   [] r.op = "cycle" -> C [] r.op = "select" -> {r.arg}
<1>1. /\ r.op \in {"category", "adjacent", "cycle", "select"}
      /\ IF to = {} THEN NavFails(c)
         ELSE nav' = [nav EXCEPT ![c].target = CHOOSE s \in to : TRUE, ![c].at = "switch"]
      /\ UNCHANGED <<sessions, attached>>
  BY Zenon DEF Choose
<1>2. CASE to = {} BY <1>1, <1>2, FailKeeps
<1>3. CASE to # {}
  <2> DEFINE t == CHOOSE s \in to : TRUE
             q1 == [r EXCEPT !.target = t]
             q2 == [q1 EXCEPT !.at = "switch"]
  <2>1. t \in to BY <1>3
  <2>2. nav' = [nav EXCEPT ![c] = q2] BY <1>1, <1>3, TargetAt
  <2>3. r.op = "category" => t \in r.listed /\ r.cats[t] = r.arg
    <3>1. CASE r.op = "category"
      <4>1. to = A BY <3>1
      <4> HIDE DEF t, to
      <4> QED BY <2>1, <4>1 DEF OfCategory, use_category_for_client_from_sessions
    <3> QED BY <3>1
  <2> HIDE DEF t, to
  <2>5. NavShaped(q1) /\ q1.op = r.op /\ q1.listed = r.listed /\ q1.cats = r.cats /\ q1.arg = r.arg
        /\ q1.target = t
    BY ThisNav, NavTargetField
  <2> HIDE DEF q1
  <2>6. NavShaped(q2) /\ q2.op = r.op /\ q2.listed = r.listed /\ q2.cats = r.cats /\ q2.arg = r.arg
        /\ q2.target = t /\ q2.at = "switch"
    BY <2>5, NavAtField
  <2> HIDE DEF q2
  <2> QED BY <1>1, <2>2, <2>3, ThisNav, <2>6, NavOnly DEF NavFits, KillFits
<1> QED BY <1>2, <1>3

LEMMA RecallKeeps ==
    ASSUME SessInv, NEW c \in SClient, remember_session_for_client(c) PROVE SessInv'
  BY FailKeeps DEF remember_session_for_client

(* A click or a key of the status line.                                      *)
LEMMA DrawnKeeps ==
    ASSUME SessInv, NEW c \in SClient, NEW t,
           NavGoto(c, [NoNav EXCEPT !.op = "select", !.target = t], "switch"),
           UNCHANGED <<sessions, attached>>
    PROVE  SessInv'
<1> DEFINE q1 == [NoNav EXCEPT !.op = "select"]
           q2 == [q1 EXCEPT !.target = t]
           q3 == [q2 EXCEPT !.at = "switch"]
<1>1. nav' = [nav EXCEPT ![c] = q3] BY Zenon DEF NavGoto
<1>2. NavShaped(q1) /\ q1.op = "select" /\ q1.listed = {} BY NoNavFits, NavOpField
<1> HIDE DEF q1
<1>3. NavShaped(q2) /\ q2.op = "select" /\ q2.listed = {} BY <1>2, NavTargetField
<1> HIDE DEF q2
<1>4. NavShaped(q3) /\ q3.op = "select" /\ q3.listed \subseteq SName /\ q3.at # "kill" BY <1>3, NavAtField
<1> HIDE DEF q3
<1> QED BY <1>1, <1>4, NavOnly, OtherFits

(* The rows to kill are chosen; the client is moved away first.              *)
LEMMA KillSelectionKeeps ==
    ASSUME SessInv, NEW c \in SClient, NEW sel \in Selection(nav[c]), kill_selection(c, sel)
    PROVE  SessInv'
<1> DEFINE targets == {e[1] : e \in {x \in sel : x[2] = 0}}
           affected == {e[1] : e \in sel}
           spared == nav[c].listed \ affected
           second == (nav[c].listed \ targets) \ {attached[c]}
           kills == {e \in sel : e[2] = 0 \/ e[1] \notin targets}
           Q(f) == [nav[c] EXCEPT !.kills = kills, !.spared = spared, !.target = f]
<1>0. NavShaped(nav[c]) /\ nav[c].listed \subseteq SName /\ nav[c].op = "kill"
      /\ UNCHANGED <<sessions, attached>>
  BY ThisNav DEF kill_selection
<1>1. IF attached[c] \notin affected THEN NavGoto(c, Q(0), "kill")
      ELSE IF spared # {} THEN NavGoto(c, Q(Min(spared)), "switch")
      ELSE IF second # {} THEN NavGoto(c, Q(Min(second)), "switch")
      ELSE NavGoto(c, Q(0), "kill")
  BY Zenon DEF kill_selection
<1>2. /\ \A e \in kills : e[1] \in affected
      /\ \A e \in kills : e[1] \in SName /\ e[1] \notin spared
      /\ spared \subseteq SName
  BY <1>0 DEF Selection
<1> HIDE DEF kills, spared, affected, second, targets
<1>3. ASSUME NEW f, NEW a
      PROVE  LET q == [Q(f) EXCEPT !.at = a]
             IN /\ NavShaped(q) /\ q.at = a /\ q.op = "kill" /\ q.listed = nav[c].listed
                /\ q.kills = kills /\ q.spared = spared /\ q.target = f
  <2> DEFINE q1 == [nav[c] EXCEPT !.kills = kills]
             q2 == [q1 EXCEPT !.spared = spared]
             q3 == [q2 EXCEPT !.target = f]
             q4 == [q3 EXCEPT !.at = a]
  <2>1. NavShaped(q1) /\ q1.op = "kill" /\ q1.listed = nav[c].listed /\ q1.kills = kills BY <1>0, NavKillsField
  <2>2. Q(f) = q3 BY Zenon
  <2> HIDE DEF q1, Q
  <2>3. NavShaped(q2) /\ q2.op = "kill" /\ q2.listed = nav[c].listed /\ q2.kills = kills
        /\ q2.spared = spared
    BY <2>1, NavSparedField
  <2> HIDE DEF q2
  <2>4. NavShaped(q3) /\ q3.op = "kill" /\ q3.listed = nav[c].listed /\ q3.kills = kills
        /\ q3.spared = spared /\ q3.target = f
    BY <2>3, NavTargetField
  <2> HIDE DEF q3
  <2> QED BY <2>2, <2>4, NavAtField
<1>4. ASSUME NEW f, NEW a, NavGoto(c, Q(f), a),
             NavFits([Q(f) EXCEPT !.at = a], attached[c])
      PROVE  SessInv'
  BY <1>4, <1>0, NavOnly DEF NavGoto
<1> HIDE DEF Q
<1>5. CASE attached[c] \notin affected
  <2>2. NavFits([Q(0) EXCEPT !.at = "kill"], attached[c]) BY <1>0, <1>2, <1>3, <1>5 DEF NavFits, KillFits
  <2> QED BY <1>4, <1>1, <1>5, <2>2
<1>6. CASE attached[c] \in affected /\ spared # {}
  <2>3. NavFits([Q(Min(spared)) EXCEPT !.at = "switch"], attached[c])
    BY <1>0, <1>2, <1>3, <1>6, LeastSpared DEF NavFits, KillFits
  <2> QED BY <1>4, <1>1, <1>6, <2>3
<1>7. CASE attached[c] \in affected /\ spared = {}
  <2>2. ASSUME NEW f, NEW a \in {"switch", "kill"} PROVE NavFits([Q(f) EXCEPT !.at = a], attached[c])
    BY <1>0, <1>2, <1>3, <1>7 DEF NavFits, KillFits
  <2> QED BY <1>4, <1>1, <1>7, <2>2
<1> QED BY <1>5, <1>6, <1>7

-----------------------------------------------------------------------------
(* The steps that change the sessions or what a client shows.                *)

LEMMA NoSessionShaped == SessionShaped(NoSession) BY DEF SessionShaped, NoSession

LEMMA WinsShaped ==
    ASSUME NEW y, SessionShaped(y), NEW w
    PROVE  LET x == [y EXCEPT !.wins = w] IN SessionShaped(x) /\ x.wins = w
  BY DEF SessionShaped

(* One session gets windows: whatever a client shows still exists.           *)
LEMMA OpenedShows ==
    ASSUME SessInv, NEW s, NEW x, SessionShaped(x), x.wins # {},
           sessions' = [sessions EXCEPT ![s] = x], UNCHANGED attached
    PROVE  /\ sessions' = [n \in SName |-> sessions'[n]]
           /\ \A n \in SName : SessionShaped(sessions'[n])
           /\ attached' \in [SClient -> SName \cup {0}] /\ ShowsExisting'
  BY DEF SessInv, ShowsExisting, Exists

(* A session loses a window or all of them, and with the last its clients.   *)
LEMMA EndedShows ==
    ASSUME SessInv, NEW s, NEW x, SessionShaped(x), sessions' = [sessions EXCEPT ![s] = x], Ended(s, x)
    PROVE  /\ sessions' = [n \in SName |-> sessions'[n]]
           /\ \A n \in SName : SessionShaped(sessions'[n])
           /\ attached' \in [SClient -> SName \cup {0}] /\ ShowsExisting'
           /\ \A d \in SClient : attached'[d] \in {attached[d], 0}
<1>1. /\ attached \in [SClient -> SName \cup {0}]
      /\ \A c \in SClient : attached[c] # 0 => sessions[attached[c]].wins # {}
  BY DEF SessInv, ShowsExisting, Exists
<1>2. PICK S : S = sessions OBVIOUS
<1>5. /\ attached' \in [SClient -> SName \cup {0}]
      /\ \A d \in SClient : attached'[d] = attached[d] \/ attached'[d] = 0
      /\ \A d \in SClient : x.wins = {} /\ attached[d] = s => attached'[d] = 0
  <2> DEFINE gone == (x.wins = {})
  <2> HIDE DEF gone
  <2> QED BY <1>1 DEF gone, Ended
<1>6. ASSUME NEW c \in SClient, attached'[c] # 0 PROVE Exists(attached[c])'
  BY <1>1, <1>5, <1>6, <1>2 DEF Exists, SessInv
<1> QED BY <1>1, <1>2, <1>5, <1>6 DEF SessInv, ShowsExisting

LEMMA SwitchKeeps ==
    ASSUME SessInv, NEW c \in SClient, switch_client_for_client(c)
    PROVE  SessInv'
<1>1. CASE attached[c] = 0 \/ nav[c].target \notin Living BY <1>1, FailKeeps DEF switch_client_for_client
<1>2. CASE ~(attached[c] = 0 \/ nav[c].target \notin Living)
  <2> DEFINE r == nav[c]
             t == r.target
  <2>1. /\ r.at = "switch" /\ UNCHANGED sessions /\ t \in Living
        /\ attached' = [attached EXCEPT ![c] = t]
        /\ IF r.op = "kill" THEN NavGoto(c, r, "kill")
           ELSE IF r.op \in {"cycle", "project", "new"} THEN NavGoto(c, r, "remember") ELSE NavFails(c)
    BY <1>2, Zenon DEF switch_client_for_client, SessionAt
  <2>5. \E q : nav' = [nav EXCEPT ![c] = q] /\ NavFits(q, t)
    <3>1. NavShaped(r) /\ r.listed \subseteq SName /\ KillFits(r, attached[c]) BY ThisNav DEF NavFits
    <3>2. CASE r.op = "kill"
      <4> DEFINE q == [r EXCEPT !.at = "kill"]
      <4>1. nav' = [nav EXCEPT ![c] = q] BY <2>1, <3>2 DEF NavGoto
      <4>2. NavShaped(q) /\ q.at = "kill" /\ q.op = "kill" /\ q.listed = r.listed /\ q.kills = r.kills
            /\ q.spared = r.spared
        BY <3>1, <3>2, NavAtField
      <4> HIDE DEF q
      <4>4. \A e \in r.kills : e[1] \in SName /\ e[1] \notin r.spared BY <2>1, <3>1, <3>2 DEF KillFits
      <4>5. NavFits(q, t) BY <3>1, <4>2, <2>1, <3>2, <4>4 DEF NavFits, KillFits
      <4> QED BY <4>1, <4>5
    <3>3. CASE NavGoto(c, r, "remember")
      <4> DEFINE q == [r EXCEPT !.at = "remember"]
      <4>1. nav' = [nav EXCEPT ![c] = q] BY <3>3 DEF NavGoto
      <4>2. NavShaped(q) /\ q.at = "remember" /\ q.listed = r.listed BY <3>1, NavAtField
      <4> HIDE DEF q
      <4> QED BY <4>1, <3>1, <4>2, PlainFits
    <3>4. CASE NavFails(c) BY <3>4, NoNavFits DEF NavFails
    <3> QED BY <2>1, <3>2, <3>3, <3>4
  <2>6. PICK q : nav' = [nav EXCEPT ![c] = q] /\ NavFits(q, t) BY <2>5
  <2>8. sessions' = [s \in SName |-> sessions'[s]] /\ \A s \in SName : SessionShaped(sessions'[s])
    BY <2>1 DEF SessInv
  <2> QED BY <2>1, <2>6, NavMoves, <2>8 DEF SessInv, Living, ShowsExisting, Exists
<1> QED BY <1>1, <1>2

(* A session is opened for a command, which then switches to it.             *)
LEMMA OpenKeeps ==
    ASSUME SessInv, NEW c \in SClient, NEW s, NEW x, SessionShaped(x), x.wins # {},
           sessions' = [sessions EXCEPT ![s] = x], UNCHANGED attached,
           NEW q, nav' = [nav EXCEPT ![c] = q], NavFits(q, attached[c])
    PROVE  SessInv'
  BY OpenedShows, NavMoves DEF SessInv

(* Target, category and step of a command in one assignment.                 *)
Aimed(N, c, t, k) == [N EXCEPT ![c].target = t, ![c].cats[t] = k, ![c].at = "switch"]
LEMMA TargetCatAt ==
    ASSUME SessInv, NEW c \in SClient, NEW t, NEW k, nav' = Aimed(nav, c, t, k)
    PROVE  \E q : /\ nav' = [nav EXCEPT ![c] = q]
                  /\ NavShaped(q) /\ q.op = nav[c].op /\ q.listed = nav[c].listed /\ q.at = "switch"
<1>2. PICK N : N = nav OBVIOUS
<1>3. N = [d \in SClient |-> N[d]] /\ NavShaped(N[c]) BY ThisNav, <1>2 DEF SessInv
<1> DEFINE q1 == [N[c] EXCEPT !.target = t]
           K == [q1.cats EXCEPT ![t] = k]
           q2 == [q1 EXCEPT !.cats = K]
           q3 == [q2 EXCEPT !.at = "switch"]
<1>4. Aimed(N, c, t, k) = [N EXCEPT ![c] = q3] BY <1>3 DEF Aimed
<1>5. NavShaped(q1) /\ q1.op = N[c].op /\ q1.listed = N[c].listed BY <1>3, NavTargetField
<1> HIDE DEF q1, K
<1>6. NavShaped(q2) /\ q2.op = N[c].op /\ q2.listed = N[c].listed BY <1>5, NavCatsField
<1> HIDE DEF q2
<1>7. NavShaped(q3) /\ q3.op = N[c].op /\ q3.listed = N[c].listed /\ q3.at = "switch" BY <1>6, NavAtField
<1> HIDE DEF q3
<1> QED BY <1>2, <1>4, <1>7

LEMMA ProjectKeeps ==
    ASSUME SessInv, NEW c \in SClient, switch_project_with_category(c)
    PROVE  SessInv'
<1> DEFINE s == nav[c].arg
           x == [wins |-> IF Exists(s) THEN sessions[s].wins ELSE {Min(SWindow)}, path |-> TRUE,
                 mirror |-> <<placement[s]>>]
<1>1. nav[c].op = "project" /\ UNCHANGED attached BY DEF switch_project_with_category
<1>2. CASE NavFails(c) /\ UNCHANGED sessions BY <1>1, <1>2, FailKeeps
<1>3. CASE /\ sessions' = [sessions EXCEPT ![s] = [wins |-> IF Exists(s) THEN @.wins ELSE {Min(SWindow)},
                                                   path |-> TRUE, mirror |-> <<placement[s]>>]]
           /\ nav' = [nav EXCEPT ![c].target = s, ![c].cats[s] = placement[s], ![c].at = "switch"]
  <2>1. sessions' = [sessions EXCEPT ![s] = x] BY <1>3
  <2>2. SessionShaped(x) /\ x.wins # {} BY DEF SessionShaped, Exists
  <2>3. PICK q : /\ nav' = [nav EXCEPT ![c] = q]
                 /\ NavShaped(q) /\ q.op = nav[c].op /\ q.listed = nav[c].listed /\ q.at = "switch"
    BY <1>3, TargetCatAt DEF Aimed
  <2> HIDE DEF s, x
  <2> QED BY <1>1, <2>1, <2>2, <2>3, ThisNav, OtherFits, OpenKeeps
<1> QED BY <1>2, <1>3 DEF switch_project_with_category

LEMMA NewSessionKeeps ==
    ASSUME SessInv, NEW c \in SClient, create_session_for_client_resolved(c)
    PROVE  SessInv'
<1>1. PICK s \in SName \ Living :
         /\ sessions' = [sessions EXCEPT ![s] = [wins |-> {Min(SWindow)}, path |-> TRUE, mirror |-> <<placement[s]>>]]
         /\ nav' = [nav EXCEPT ![c].target = s, ![c].cats[s] = placement[s], ![c].at = "switch"]
  BY DEF create_session_for_client_resolved
<1> DEFINE x == [wins |-> {Min(SWindow)}, path |-> TRUE, mirror |-> <<placement[s]>>]
<1>3. SessionShaped(x) /\ x.wins # {} /\ sessions' = [sessions EXCEPT ![s] = x] BY <1>1 DEF SessionShaped
<1>4. PICK q : /\ nav' = [nav EXCEPT ![c] = q]
               /\ NavShaped(q) /\ q.op = nav[c].op /\ q.listed = nav[c].listed /\ q.at = "switch"
  BY <1>1, TargetCatAt DEF Aimed
<1> HIDE DEF x
<1> QED BY <1>3, <1>4, ThisNav, OtherFits, OpenKeeps DEF create_session_for_client_resolved

LEMMA CreateKeeps ==
    ASSUME SessInv, NEW c \in SClient, create_and_switch_session(c)
    PROVE  SessInv'
<1>1. PICK s \in SName \ Living :
         /\ sessions' = [sessions EXCEPT ![s] = [NoSession EXCEPT !.wins = {Min(SWindow)}]]
         /\ nav' = [nav EXCEPT ![c].target = s, ![c].at = "switch"]
  BY DEF create_and_switch_session
<1> DEFINE x == [NoSession EXCEPT !.wins = {Min(SWindow)}]
           q1 == [nav[c] EXCEPT !.target = s]
           q2 == [q1 EXCEPT !.at = "switch"]
<1>4. nav' = [nav EXCEPT ![c] = q2] BY <1>1, TargetAt
<1>5. NavShaped(q1) /\ q1.op = "create" /\ q1.listed \subseteq SName
  BY ThisNav, NavTargetField DEF create_and_switch_session
<1> HIDE DEF q1
<1>6. NavShaped(q2) /\ q2.op = "create" /\ q2.listed \subseteq SName /\ q2.at = "switch" BY <1>5, NavAtField
<1> HIDE DEF q2
<1>7. NavFits(q2, attached[c]) BY <1>6, OtherFits
<1> HIDE DEF x
<1> QED BY NoSessionShaped, WinsShaped, <1>1, <1>4, <1>7, OpenKeeps DEF create_and_switch_session

LEMMA AfterShaped ==
    ASSUME SessInv, NEW e
    PROVE  SessionAfter(e[1], e[2]) = NoSession
           \/ SessionAfter(e[1], e[2]) = [sessions[e[1]] EXCEPT !.wins = @ \ {e[2]}]
  BY DEF SessionAfter

LEMMA KillOneKeeps == ASSUME SessInv, NEW c \in SClient, KillOne(c) PROVE SessInv'
<1>1. CASE NavFails(c) /\ UNCHANGED <<sessions, attached>> BY <1>1, FailKeeps
<1>2. ASSUME NEW e \in nav[c].kills, IsThere(e),
             nav' = [nav EXCEPT ![c].kills = @ \ {e}],
             sessions' = [sessions EXCEPT ![e[1]] = SessionAfter(e[1], e[2])],
             Ended(e[1], SessionAfter(e[1], e[2]))
      PROVE  SessInv'
  <2> DEFINE q == [nav[c] EXCEPT !.kills = nav[c].kills \ {e}]
  <2>1. nav' = [nav EXCEPT ![c] = q] BY <1>2 DEF SessInv
  <2>2. e[1] \in SName BY ThisNav, <1>2 DEF NavFits, KillFits, KillOne, SessionAt
  <2>3. SessInv'
    <3> DEFINE x == SessionAfter(e[1], e[2])
    <3>1. SessionShaped(x) BY <2>2, NoSessionShaped, AfterShaped DEF SessInv, SessionShaped
    <3>2. /\ sessions' = [n \in SName |-> sessions'[n]]
          /\ \A n \in SName : SessionShaped(sessions'[n])
          /\ attached' \in [SClient -> SName \cup {0}] /\ ShowsExisting'
          /\ \A d \in SClient : attached'[d] \in {attached[d], 0}
      <4> HIDE DEF x
      <4> QED BY <3>1, <1>2, EndedShows DEF x
    <3>3. NavFits(q, attached'[c])
      <4>1. NavFits(nav[c], attached'[c]) /\ NavShaped(nav[c]) BY <3>2, ThisNav, DetachedFits
      <4>2. /\ NavShaped(q) /\ q.kills = nav[c].kills \ {e} /\ q.at = nav[c].at /\ q.op = nav[c].op
            /\ q.listed = nav[c].listed /\ q.spared = nav[c].spared /\ q.target = nav[c].target
            /\ q.cats = nav[c].cats /\ q.arg = nav[c].arg
        BY <4>1 DEF NavShaped
      <4> HIDE DEF q
      <4> QED BY <4>1, <4>2 DEF NavFits, KillFits
    <3>4. nav' = [d \in SClient |-> nav'[d]] /\ \A d \in SClient : NavFits(nav'[d], attached'[d])
      <4> HIDE DEF q
      <4> QED BY <2>1, <3>2, <3>3, NavMoves
    <3> QED BY <3>2, <3>4 DEF SessInv
  <2> QED BY <2>3
<1> QED BY <1>1, <1>2 DEF KillOne

LEMMA MirrorsKeep == ASSUME SessInv, sync_session_category_mirrors PROVE SessInv'
  BY DEF sync_session_category_mirrors, SessInv, SessionShaped, ShowsExisting, Exists

LEMMA EndKeeps == ASSUME SessInv, EndSession PROVE SessInv'
  BY EndedShows, NoSessionShaped, NavStays DEF EndSession, SessInv

LEMMA SessStays == ASSUME SessInv, UNCHANGED <<sessions, attached, nav>> PROVE SessInv'
  BY DEF SessInv, ShowsExisting, Exists

LEMMA SessInitInv == SessionsInit => SessInv
  BY SessionsAssumption, NoSessionShaped, NoNavFits DEF SessionsInit, SessionShaped, ShowsExisting, Exists, SessInv

LEMMA SessStepInv == ASSUME SessInv, SessionsNext PROVE SessInv'
<1>1. ASSUME NEW c \in SClient, NavSteps(c) PROVE SessInv'
  <2>1. CASE on_client_session_changed(c) BY <2>1, SessStays DEF on_client_session_changed
  <2> QED
    BY <1>1, <2>1, ChooseKeeps, SwitchKeeps, RecallKeeps, ProjectKeeps, CreateKeeps, NewSessionKeeps,
      KillSelectionKeeps, KillOneKeeps DEF NavSteps
<1>2. ASSUME NEW c \in SClient, NavCommands(c) PROVE SessInv'
  BY ListKeeps, DrawnKeeps, <1>2 DEF switch_statusline_session, cycle_statusline_session, NavCommands
<1>3. CASE Place BY <1>3, SessStays DEF Place
<1>4. CASE Redraw BY <1>4, SessStays DEF Redraw
<1> QED BY <1>1, <1>2, <1>3, <1>4, MirrorsKeep, EndKeeps DEF SessionsNext

LEMMA SessStutters == ASSUME SessInv, UNCHANGED sessionVars PROVE SessInv' BY SessStays DEF sessionVars

(* The body of ClientKeepsSession.                                           *)
LEMMA KillerKeepsSession ==
    ASSUME SessInv, NEW c \in SClient, KillOne(c), attached[c] # 0, attached'[c] = 0
    PROVE  nav[c].spared = {}
  BY ThisNav DEF KillOne, Ended, SessionAt, NavFits, KillFits

-----------------------------------------------------------------------------
(* The sidebars: what one turn of a loop changes and what it keeps.          *)

TuiFields == {"seeded", "conn", "snap", "prefs", "over", "sel", "queuedPrefs", "remotePrefs", "expView",
              "remoteExp", "navRev", "queuedNav", "dirty", "drawn", "known", "target", "acking", "marks",
              "pinning", "dialog", "nextId", "ready", "jobs", "answers"}
TuiShaped(s) ==
    /\ s = [f \in TuiFields |-> s[f]]
    /\ s.jobs = [w \in Worker |-> s.jobs[w]] /\ s.answers = [w \in Worker |-> s.answers[w]]

(* What the frame shows, and what a step may do to it: if it changes what a  *)
(* connected sidebar shows, the sidebar is drawn again.                      *)
SameView(s, q) == q.prefs = s.prefs /\ q.over = s.over /\ q.sel = s.sel
Redrawn(s, q) ==
    /\ s.dirty => q.dirty
    /\ ~q.dirty /\ q.conn = "connected" => SameView(s, q)

(* A step of the turn, but for the preferences, the dialog and the answers.  *)
Turn(s, q) ==
    /\ TuiShaped(q) /\ Redrawn(s, q)
    /\ q.snap = s.snap /\ q.conn = s.conn /\ q.drawn = s.drawn /\ q.target = s.target
    /\ q.seeded = s.seeded /\ q.nextId = s.nextId
    /\ q.jobs["ack"] = s.jobs["ack"] /\ q.jobs["cat"] = s.jobs["cat"]

LEMMA TurnsTwice == ASSUME NEW s, NEW q, NEW r, Turn(s, q), Turn(q, r) PROVE Turn(s, r)
  BY DEF Turn, Redrawn, SameView

LEMMA MergedIs ==
    ASSUME NEW s, NEW t, NEW q, q \in Merged(s, t)
    PROVE  q = QueueNavigation(QueuePreferences(AdoptExpansion(QueueExpansion(DrainAnswers(
                 clear_stale_pane_selection(apply_remote_navigation(
                   apply_remote_sidebar_preferences(Seeded(s, Home[t])))))))))
  BY Zenon DEF Merged, After

LEMMA RedrawFlag ==
    ASSUME NEW s, TuiShaped(s), NEW b
    PROVE  LET q == Dirty(s, b) IN
           /\ TuiShaped(q) /\ (s.dirty => q.dirty) /\ (b => q.dirty) /\ (~q.dirty => ~s.dirty /\ ~b)
           /\ \A f \in TuiFields \ {"dirty"} : q[f] = s[f]
  BY DEF TuiShaped, TuiFields, Dirty

LEMMA TakesSnapshot ==
    ASSUME NEW s, TuiShaped(s), NEW u
    PROVE  LET q == drain_snapshot_updates(s, u) IN
           /\ TuiShaped(q) /\ (s.dirty => q.dirty) /\ (~q.dirty => u.conn = s.conn /\ u.snap = s.snap)
           /\ q.conn = u.conn /\ q.snap = u.snap
           /\ \A f \in TuiFields \ {"conn", "snap", "dirty"} : q[f] = s[f]
<1> DEFINE a == [s EXCEPT !.conn = u.conn, !.snap = u.snap]
<1>1. /\ TuiShaped(a) /\ a.conn = u.conn /\ a.snap = u.snap /\ a.dirty = s.dirty
      /\ \A f \in TuiFields \ {"conn", "snap", "dirty"} : a[f] = s[f]
  BY DEF TuiShaped, TuiFields
<1> HIDE DEF a
<1> DEFINE b == u.conn # s.conn \/ u.snap # s.snap
           q == Dirty(a, b)
<1>2. drain_snapshot_updates(s, u) = q BY DEF drain_snapshot_updates, a
<1>3. /\ TuiShaped(q) /\ (a.dirty => q.dirty) /\ (~q.dirty => ~b)
      /\ \A f \in TuiFields \ {"dirty"} : q[f] = a[f]
  <2> HIDE DEF b
  <2> QED BY <1>1, RedrawFlag
<1> HIDE DEF q
<1>5. q.conn = u.conn /\ q.snap = u.snap BY <1>1, <1>3 DEF TuiFields
<1> QED BY <1>1, <1>2, <1>3, <1>5

LEMMA SeedsOnce ==
    ASSUME NEW s, TuiShaped(s), NEW p
    PROVE  LET q == Seeded(s, p) IN
           /\ s.seeded => q = s
           /\ TuiShaped(q) /\ q.dirty = s.dirty /\ (~s.seeded => q.seeded)
           /\ q.snap = s.snap /\ q.conn = s.conn /\ q.drawn = s.drawn /\ q.target = s.target
           /\ q.nextId = s.nextId /\ q.dialog = s.dialog /\ q.jobs = s.jobs /\ q.answers = s.answers
<1>1. CASE s.seeded BY <1>1 DEF Seeded
<1>2. CASE ~s.seeded
  <2> DEFINE a == seed_persisted_sidebar_preferences(s)
             b == select_context_agent(a, p)
             nav1 == s.snap[1].nav
  <2>0. PICK overs : overs = <<s.snap[1].over>> OBVIOUS
  <2>1. /\ TuiShaped(a) /\ a.dirty = s.dirty
        /\ \A f \in {"dirty", "snap", "conn", "drawn", "target", "nextId", "dialog", "jobs", "answers"} : a[f] = s[f]
    <3>3. \A f \in {"dirty", "snap", "conn", "drawn", "target", "nextId", "dialog", "jobs", "answers"} : a[f] = s[f]
      BY <2>0 DEF TuiFields, seed_persisted_sidebar_preferences, TuiShaped
    <3>4. a = [f \in TuiFields |-> a[f]] BY <2>0 DEF seed_persisted_sidebar_preferences, TuiShaped
    <3> QED BY <3>3, <3>4 DEF TuiShaped
  <2> HIDE DEF a
  <2>2. /\ TuiShaped(b)
        /\ \A f \in {"dirty", "snap", "conn", "drawn", "target", "nextId", "dialog", "jobs", "answers"} : b[f] = a[f]
    BY <2>1 DEF TuiShaped, TuiFields, select_context_agent
  <2> HIDE DEF b
  <2>3. Seeded(s, p) =
          [b EXCEPT !.seeded = TRUE, !.navRev = nav1.rev,
                    !.sel = IF nav1.rev > 0 THEN nav1.sel ELSE @,
                    !.queuedNav = IF nav1.rev > 0 THEN <<nav1.sel>> ELSE @]
    BY <1>2 DEF Seeded, a, b
  <2> HIDE DEF nav1
  <2>a. PICK x, y, z : x = nav1.rev /\ y = (IF nav1.rev > 0 THEN nav1.sel ELSE b.sel)
                       /\ z = (IF nav1.rev > 0 THEN <<nav1.sel>> ELSE b.queuedNav)
    OBVIOUS
  <2>4. LET q == Seeded(s, p) IN
        /\ TuiShaped(q) /\ q.seeded
        /\ \A f \in {"dirty", "snap", "conn", "drawn", "target", "nextId", "dialog", "jobs", "answers"} : q[f] = b[f]
    <3> DEFINE q == [b EXCEPT !.seeded = TRUE, !.navRev = x, !.sel = y, !.queuedNav = z]
    <3>1. TuiShaped(b) BY <2>2
    <3>2. TuiShaped(q) /\ q.seeded /\ \A f \in TuiFields \ {"seeded", "navRev", "sel", "queuedNav"} : q[f] = b[f]
      BY ONLY <3>1 DEF TuiShaped, TuiFields
    <3> HIDE DEF q
    <3>3. \A f \in {"dirty", "snap", "conn", "drawn", "target", "nextId", "dialog", "jobs", "answers"} : q[f] = b[f]
      BY ONLY <3>2 DEF TuiFields
    <3>4. Seeded(s, p) = q BY <2>3, <2>a DEF q
    <3> QED BY ONLY <3>2, <3>3, <3>4
  <2> QED BY <1>2, <2>1, <2>2, <2>4
<1> QED BY <1>1, <1>2

(* The last assignment of a step marks the frame dirty if the step says so.  *)
LEMMA ThenDirty ==
    ASSUME NEW s, TuiShaped(s), NEW a, TuiShaped(a), NEW b,
           a.dirty = s.dirty, a.snap = s.snap, a.conn = s.conn, a.drawn = s.drawn, a.target = s.target,
           a.seeded = s.seeded, a.nextId = s.nextId, a.jobs["ack"] = s.jobs["ack"],
           a.jobs["cat"] = s.jobs["cat"], ~b => SameView(s, a)
    PROVE  LET q == Dirty(a, b) IN
           Turn(s, q) /\ q.prefs = a.prefs /\ q.dialog = a.dialog /\ q.answers = a.answers
<1> DEFINE q == Dirty(a, b)
<1>1. /\ TuiShaped(q) /\ (a.dirty => q.dirty) /\ (~q.dirty => ~b)
      /\ \A f \in TuiFields \ {"dirty"} : q[f] = a[f]
  BY RedrawFlag
<1> HIDE DEF q
<1>4. Redrawn(s, q) BY <1>1 DEF Redrawn, SameView, TuiFields
<1> QED BY <1>1, <1>4 DEF Turn, q, TuiFields

LEMMA TurnStays == ASSUME NEW s, TuiShaped(s) PROVE Turn(s, s) BY DEF Turn, Redrawn, SameView

LEMMA TakesPreferences ==
    ASSUME NEW s, TuiShaped(s)
    PROVE  LET q == apply_remote_sidebar_preferences(s) IN
           /\ Turn(s, q) /\ q.dialog = s.dialog /\ q.answers = s.answers
           /\ \A f \in PrefField : s.prefs[f] # s.queuedPrefs[f] => q.prefs[f] = s.prefs[f]
<1> DEFINE remote == s.snap[1].prefs
           mine   == {f \in PrefField : s.prefs[f] # s.queuedPrefs[f]}
           next1  == [f \in PrefField |-> IF f \in mine THEN s.prefs[f] ELSE remote[f]]
           queued == [f \in PrefField |-> IF f \in mine THEN s.queuedPrefs[f] ELSE remote[f]]
           a == [s EXCEPT !.prefs = next1, !.remotePrefs = remote, !.queuedPrefs = queued]
           b == next1 # s.prefs
<1>1. apply_remote_sidebar_preferences(s) = IF s.remotePrefs = remote THEN s ELSE Dirty(a, b)
  BY DEF apply_remote_sidebar_preferences
<1>2. \A f \in PrefField : s.prefs[f] # s.queuedPrefs[f] => next1[f] = s.prefs[f] OBVIOUS
<1> HIDE DEF next1, remote, queued
<1>3. /\ TuiShaped(a) /\ a.prefs = next1 /\ a.dirty = s.dirty /\ a.snap = s.snap /\ a.conn = s.conn
      /\ a.drawn = s.drawn /\ a.target = s.target /\ a.seeded = s.seeded /\ a.nextId = s.nextId
      /\ a.jobs = s.jobs /\ a.over = s.over /\ a.sel = s.sel /\ a.dialog = s.dialog /\ a.answers = s.answers
  BY DEF TuiShaped, TuiFields
<1>4. ~b => SameView(s, a) BY <1>3 DEF SameView
<1> HIDE DEF a, b
<1>6. CASE s.remotePrefs = remote BY <1>1, <1>6, TurnStays
<1>7. CASE s.remotePrefs # remote BY <1>1, <1>7, <1>2, <1>3, <1>4, ThenDirty
<1> QED BY <1>6, <1>7

LEMMA TakesNavigation ==
    ASSUME NEW s, TuiShaped(s)
    PROVE  LET q == apply_remote_navigation(s) IN
           Turn(s, q) /\ q.prefs = s.prefs /\ q.dialog = s.dialog /\ q.answers = s.answers
<1> DEFINE nav1 == s.snap[1].nav
           a == [s EXCEPT !.sel = nav1.sel, !.navRev = nav1.rev, !.queuedNav = <<nav1.sel>>]
           b == nav1.sel # s.sel
<1>1. apply_remote_navigation(s) = IF nav1.rev <= s.navRev THEN s ELSE Dirty(a, b) BY DEF apply_remote_navigation
<1> HIDE DEF nav1
<1>2. PICK x : x = <<nav1.sel>> OBVIOUS
<1>4. /\ TuiShaped(a) /\ a.sel = nav1.sel /\ a.dirty = s.dirty /\ a.snap = s.snap /\ a.conn = s.conn
      /\ a.drawn = s.drawn /\ a.target = s.target /\ a.seeded = s.seeded /\ a.nextId = s.nextId
      /\ a.jobs = s.jobs /\ a.over = s.over /\ a.prefs = s.prefs /\ a.dialog = s.dialog
      /\ a.answers = s.answers
  <2>2. a = [f \in TuiFields |-> a[f]] BY <1>2 DEF TuiShaped
  <2>3. a.sel = nav1.sel /\ \A f \in TuiFields \ {"sel", "navRev", "queuedNav"} : a[f] = s[f]
    BY <1>2 DEF TuiFields, TuiShaped
  <2> HIDE DEF a
  <2> QED BY <2>2, <2>3 DEF TuiShaped, TuiFields
<1>5. ~b => SameView(s, a) BY <1>4 DEF SameView
<1> HIDE DEF a, b
<1>7. apply_remote_navigation(s) = s \/ apply_remote_navigation(s) = Dirty(a, b) BY <1>1
<1> QED BY <1>4, <1>5, ThenDirty, <1>7, TurnStays

LEMMA ClearsStale ==
    ASSUME NEW s, TuiShaped(s)
    PROVE  LET q == clear_stale_pane_selection(s) IN
           Turn(s, q) /\ q.prefs = s.prefs /\ q.dialog = s.dialog /\ q.answers = s.answers
<1> DEFINE stale == s.sel \in SbPane \ s.snap[1].panes
           x == IF stale THEN NoRow ELSE s.sel
           a == [s EXCEPT !.sel = x]
<1>1. clear_stale_pane_selection(s) = Dirty(a, stale) BY DEF clear_stale_pane_selection
<1>2. ~stale => x = s.sel OBVIOUS
<1> HIDE DEF stale, x
<1>4. /\ TuiShaped(a) /\ a.sel = x /\ a.dirty = s.dirty /\ a.snap = s.snap /\ a.conn = s.conn
      /\ a.drawn = s.drawn /\ a.target = s.target /\ a.seeded = s.seeded /\ a.nextId = s.nextId
      /\ a.jobs = s.jobs /\ a.over = s.over /\ a.prefs = s.prefs /\ a.dialog = s.dialog
      /\ a.answers = s.answers
  BY DEF TuiShaped, TuiFields
<1> HIDE DEF a
<1>6. LET q == Dirty(a, stale) IN
      Turn(s, q) /\ q.prefs = a.prefs /\ q.dialog = a.dialog /\ q.answers = a.answers
  BY <1>4, <1>2, ThenDirty DEF SameView
<1> QED BY <1>1, <1>4, <1>6
(* A step of the turn that touches none of what its user chose.              *)
StaysQuiet(s, q) == Turn(s, q) /\ q.prefs = s.prefs /\ q.dialog = s.dialog /\ q.answers = s.answers

LEMMA StaysQuietTwice ==
    ASSUME NEW s, NEW q, NEW r
    PROVE  StaysQuiet(s, q) /\ StaysQuiet(q, r) => StaysQuiet(s, r)
  BY TurnsTwice DEF StaysQuiet

LEMMA FlagsQuietly ==
    ASSUME NEW s, TuiShaped(s), NEW a, TuiShaped(a), NEW b,
           \A f \in {"dirty", "snap", "conn", "drawn", "target", "seeded", "nextId", "jobs", "over", "sel",
                     "prefs", "dialog", "answers"} : a[f] = s[f]
    PROVE  StaysQuiet(s, Dirty(a, b))
  BY ThenDirty DEF SameView, StaysQuiet

LEMMA DrainsMarks == ASSUME NEW s, TuiShaped(s) PROVE StaysQuiet(s, drain_mark_complete_results(s))
<1>1. PICK x : x = s.marks \ {s.answers["mark"][i].pane : i \in DOMAIN s.answers["mark"]} OBVIOUS
<1> DEFINE a == [s EXCEPT !.marks = x]
           b == s.answers["mark"] # <<>>
<1>2. drain_mark_complete_results(s) = Dirty(a, b) BY <1>1 DEF drain_mark_complete_results
<1>3. TuiShaped(a) /\ \A f \in TuiFields \ {"marks"} : a[f] = s[f] BY DEF TuiShaped, TuiFields
<1> HIDE DEF a, b
<1> QED BY <1>2, <1>3, FlagsQuietly DEF TuiFields

LEMMA DrainsPins == ASSUME NEW s, TuiShaped(s) PROVE StaysQuiet(s, drain_pane_pin_results(s))
<1>1. PICK x : x = s.pinning \ {s.answers["pin"][i].pane : i \in DOMAIN s.answers["pin"]} OBVIOUS
<1> DEFINE a == [s EXCEPT !.pinning = x]
           b == s.answers["pin"] # <<>>
<1>2. drain_pane_pin_results(s) = Dirty(a, b) BY <1>1 DEF drain_pane_pin_results
<1>3. TuiShaped(a) /\ \A f \in TuiFields \ {"pinning"} : a[f] = s[f] BY DEF TuiShaped, TuiFields
<1> HIDE DEF a, b
<1> QED BY <1>2, <1>3, FlagsQuietly DEF TuiFields

LEMMA DrainsAcks == ASSUME NEW s, TuiShaped(s) PROVE StaysQuiet(s, DrainAck(s))
<1>1. PICK x : x = (s.acking /\ s.answers["ack"] = <<>>) OBVIOUS
<1> DEFINE a == [s EXCEPT !.acking = x]
           b == s.answers["ack"] # <<>>
<1>2. DrainAck(s) = Dirty(a, b) BY <1>1 DEF DrainAck
<1>3. TuiShaped(a) /\ \A f \in TuiFields \ {"acking"} : a[f] = s[f] BY DEF TuiShaped, TuiFields
<1> HIDE DEF a, b
<1> QED BY <1>2, <1>3, FlagsQuietly DEF TuiFields

LEMMA DrainsPreferences == ASSUME NEW s, TuiShaped(s) PROVE StaysQuiet(s, DrainPreferenceResults(s))
<1> DEFINE lost == \E i \in DOMAIN s.answers["pref"] :
                         ~s.answers["pref"][i].ok /\ s.answers["pref"][i].request.op = "expand"
<1>1. PICK x : x = IF lost THEN <<>> ELSE s.remoteExp OBVIOUS
<1> DEFINE a == [s EXCEPT !.remoteExp = x]
           b == s.answers["pref"] # <<>>
<1>2. DrainPreferenceResults(s) = Dirty(a, b) BY <1>1 DEF DrainPreferenceResults
<1>3. TuiShaped(a) /\ \A f \in TuiFields \ {"remoteExp"} : a[f] = s[f] BY DEF TuiShaped, TuiFields
<1> HIDE DEF a, b
<1> QED BY <1>2, <1>3, FlagsQuietly DEF TuiFields

LEMMA DrainsNavigation == ASSUME NEW s, TuiShaped(s) PROVE StaysQuiet(s, DrainNavigationResults(s))
<1> DEFINE lost == {i \in DOMAIN s.answers["nav"] : ~s.answers["nav"][i].ok}
<1>1. PICK x : x = IF \E i \in lost : s.queuedNav = <<s.answers["nav"][i].request>> THEN <<>> ELSE s.queuedNav
  OBVIOUS
<1> DEFINE a == [s EXCEPT !.queuedNav = x]
           b == lost # {}
<1>2. DrainNavigationResults(s) = Dirty(a, b) BY <1>1 DEF DrainNavigationResults
<1>3. TuiShaped(a) /\ \A f \in TuiFields \ {"queuedNav"} : a[f] = s[f] BY DEF TuiShaped, TuiFields
<1> HIDE DEF a, b
<1> QED BY <1>2, <1>3, FlagsQuietly DEF TuiFields

(* The dialog of a turn: it stays, or an answer to its own request closes it *)
(* or opens it again.                                                        *)
Dialogs == [phase : {"none", "editing", "saving"}, id : Nat]
Mine(s, i) == s.answers["cat"][i].id # 0 /\ s.answers["cat"][i].id = s.dialog.id
Answered(s, d) ==
    \/ d = s.dialog
    \/ /\ s.dialog.phase = "saving" /\ d \in Dialogs
       /\ \E i \in DOMAIN s.answers["cat"] :
             Mine(s, i) /\ (d.phase = "none" => s.answers["cat"][i].ok)

LEMMA DrainsCategories ==
    ASSUME NEW s, TuiShaped(s), s.dialog \in Dialogs
    PROVE  LET q == DrainCategoryResults(s) IN
           /\ Turn(s, q) /\ q.prefs = s.prefs /\ q.answers = s.answers /\ q.dialog \in Dialogs
           /\ Answered(s, q.dialog)
<1> DEFINE mine == {i \in DOMAIN s.answers["cat"] : Mine(s, i)}
           j == CHOOSE i \in mine : TRUE
           a == IF s.dialog.phase # "saving" \/ mine = {} THEN s
                ELSE apply_category_intent_result(s, s.answers["cat"][j])
           b == s.answers["cat"] # <<>>
<1>1. DrainCategoryResults(s) = Dirty(a, b) BY DEF DrainCategoryResults, Mine
<1>2. /\ TuiShaped(a) /\ a.dialog \in Dialogs /\ Answered(s, a.dialog)
      /\ \A f \in TuiFields \ {"dialog"} : a[f] = s[f]
  <2>1. CASE s.dialog.phase # "saving" \/ mine = {} BY <2>1 DEF Answered
  <2>2. CASE s.dialog.phase = "saving" /\ mine # {}
    <3>1. PICK k : k = j OBVIOUS
    <3>2. k \in mine BY <2>2, <3>1
    <3> HIDE DEF j
    <3>3. PICK ok : ok = s.answers["cat"][k].ok OBVIOUS
    <3>4. PICK d : d = IF ok THEN [phase |-> "none", id |-> 0] ELSE [s.dialog EXCEPT !.phase = "editing"] OBVIOUS
    <3>5. a = [s EXCEPT !.dialog = d] BY <2>2, <3>1, <3>3, <3>4 DEF apply_category_intent_result
    <3> HIDE DEF a
    <3>8. Answered(s, d) BY <2>2, <3>2, <3>3, <3>4 DEF Answered, Dialogs
    <3> QED BY <3>4, <3>5, <3>8 DEF Dialogs, TuiShaped, TuiFields
  <2> QED BY <2>1, <2>2
<1> HIDE DEF a, b
<1>5. LET q == Dirty(a, b) IN
      Turn(s, q) /\ q.prefs = a.prefs /\ q.dialog = a.dialog /\ q.answers = a.answers
  BY <1>2, ThenDirty DEF SameView, TuiFields
<1> QED BY <1>1, <1>2, <1>5 DEF TuiFields

NoAnswers == [w \in Worker |-> <<>>]

LEMMA DrainsAnswers ==
    ASSUME NEW s, TuiShaped(s), s.dialog \in Dialogs
    PROVE  LET q == DrainAnswers(s) IN
           /\ Turn(s, q) /\ q.prefs = s.prefs /\ q.dialog \in Dialogs /\ Answered(s, q.dialog)
           /\ q.answers = NoAnswers
<1>1. PICK a : a = drain_mark_complete_results(s) OBVIOUS
<1>2. PICK b : b = DrainAck(a) OBVIOUS
<1>3. PICK c : c = drain_pane_pin_results(b) OBVIOUS
<1>4. PICK d : d = DrainPreferenceResults(c) OBVIOUS
<1>5. PICK e : e = DrainCategoryResults(d) OBVIOUS
<1>6. PICK n : n = DrainNavigationResults(e) OBVIOUS
<1>7. DrainAnswers(s) = [n EXCEPT !.answers = NoAnswers]
  BY <1>1, <1>2, <1>3, <1>4, <1>5, <1>6 DEF DrainAnswers, NoAnswers
<1>8. StaysQuiet(s, d)
  BY <1>1, DrainsMarks, <1>2, DrainsAcks, <1>3, DrainsPins, <1>4, DrainsPreferences, StaysQuietTwice DEF StaysQuiet,
    Turn
<1>9. /\ Turn(d, e) /\ e.prefs = d.prefs /\ e.answers = d.answers /\ e.dialog \in Dialogs
      /\ Answered(d, e.dialog)
  BY <1>5, <1>8, DrainsCategories DEF StaysQuiet, Turn
<1>12. Turn(s, n) /\ n.prefs = s.prefs /\ n.dialog = e.dialog
  BY <1>8, <1>9, <1>6, DrainsNavigation, TurnsTwice DEF StaysQuiet, Turn
<1> DEFINE q == [n EXCEPT !.answers = NoAnswers]
<1>13. TuiShaped(q) /\ q.answers = NoAnswers /\ \A f \in TuiFields \ {"answers"} : q[f] = n[f]
  BY <1>12 DEF Turn, TuiShaped, TuiFields, NoAnswers
<1> HIDE DEF q
<1> QED BY <1>7, <1>9, <1>8, <1>12, <1>13 DEF q, Answered, Mine, StaysQuiet, TuiFields, Turn, Redrawn, SameView

LEMMA QueuesExpansion == ASSUME NEW s, TuiShaped(s) PROVE StaysQuiet(s, QueueExpansion(s))
<1> DEFINE q == QueueExpansion(s)
<1>1. CASE s.conn # "connected"
  <2>1. PICK r : r = s.snap[1].over OBVIOUS
  <2>2. PICK x : x = <<r>> OBVIOUS
  <2> HIDE DEF q
  <2> QED BY <1>1, <2>1, <2>2 DEF StaysQuiet, Turn, Redrawn, q, TuiFields, TuiShaped, QueueExpansion
<1>2. CASE s.conn = "connected"
  <2>1. PICK x : q = [s EXCEPT !.jobs["pref"] = s.jobs["pref"] \o x, !.expView = s.over] BY <1>2 DEF QueueExpansion
  <2> HIDE DEF q
  <2>2. PICK y : y = s.jobs["pref"] \o x OBVIOUS
  <2>4. /\ TuiShaped(q) /\ \A f \in TuiFields \ {"jobs", "expView"} : q[f] = s[f]
        /\ q.jobs["ack"] = s.jobs["ack"] /\ q.jobs["cat"] = s.jobs["cat"]
    BY <2>1, <2>2 DEF TuiShaped, TuiFields, Worker
  <2> QED BY <2>4 DEF StaysQuiet, Turn, Redrawn, SameView, q, TuiFields
<1> QED BY <1>1, <1>2

LEMMA AdoptsExpansion == ASSUME NEW s, TuiShaped(s) PROVE StaysQuiet(s, AdoptExpansion(s))
<1>1. PICK r : r = s.snap[1].over OBVIOUS
<1>2. PICK x : x = <<r>> OBVIOUS
<1> DEFINE a == [s EXCEPT !.over = r, !.expView = r, !.remoteExp = x]
           q == Dirty(a, TRUE)
<1>3. AdoptExpansion(s) = s \/ AdoptExpansion(s) = q BY <1>1, <1>2 DEF AdoptExpansion
<1>4. TuiShaped(a) /\ \A f \in TuiFields \ {"over", "expView", "remoteExp"} : a[f] = s[f]
  BY DEF TuiShaped, TuiFields
<1> HIDE DEF a
<1>6. PICK b : b = TRUE OBVIOUS
<1>7. ~b => SameView(s, a) BY <1>6
<1>8. LET p == Dirty(a, b) IN
      Turn(s, p) /\ p.prefs = a.prefs /\ p.dialog = a.dialog /\ p.answers = a.answers
  BY <1>4, <1>7, ThenDirty DEF TuiFields
<1>9. Turn(s, q) /\ q.prefs = a.prefs /\ q.dialog = a.dialog /\ q.answers = a.answers BY <1>6, <1>8
<1> QED BY <1>3, <1>4, <1>9, TurnStays DEF StaysQuiet, TuiFields

LEMMA QueuesPreferences == ASSUME NEW s, TuiShaped(s) PROVE StaysQuiet(s, QueuePreferences(s))
<1> DEFINE q == QueuePreferences(s)
<1>1. CASE s.conn # "connected" BY <1>1, TurnStays DEF QueuePreferences, StaysQuiet
<1>2. CASE s.conn = "connected"
  <2>1. PICK x : q = [s EXCEPT !.jobs["pref"] = s.jobs["pref"] \o x, !.queuedPrefs = s.prefs]
    BY <1>2 DEF QueuePreferences
  <2> HIDE DEF q
  <2>2. PICK y : y = s.jobs["pref"] \o x OBVIOUS
  <2>4. /\ TuiShaped(q) /\ \A f \in TuiFields \ {"jobs", "queuedPrefs"} : q[f] = s[f]
        /\ q.jobs["ack"] = s.jobs["ack"] /\ q.jobs["cat"] = s.jobs["cat"]
    BY <2>1, <2>2 DEF TuiShaped, TuiFields, Worker
  <2> QED BY <2>4 DEF StaysQuiet, Turn, Redrawn, SameView, q, TuiFields
<1> QED BY <1>1, <1>2

LEMMA QueuesNavigation == ASSUME NEW s, TuiShaped(s) PROVE StaysQuiet(s, QueueNavigation(s))
<1> DEFINE q == QueueNavigation(s)
<1>1. PICK x, y : x = <<s.sel>> /\ y = Append(s.jobs["nav"], s.sel) OBVIOUS
<1> DEFINE a == [s EXCEPT !.jobs["nav"] = y]
           b == [a EXCEPT !.queuedNav = x]
<1>2. q = s \/ q = b BY <1>1 DEF QueueNavigation, Send
<1> HIDE DEF q
<1>3. /\ TuiShaped(b) /\ \A f \in TuiFields \ {"jobs", "queuedNav"} : b[f] = s[f]
      /\ b.jobs["ack"] = s.jobs["ack"] /\ b.jobs["cat"] = s.jobs["cat"]
  BY DEF TuiShaped, TuiFields, Worker
<1> HIDE DEF b
<1>6. StaysQuiet(s, b) BY <1>3 DEF StaysQuiet, Turn, Redrawn, SameView, TuiFields
<1> QED BY <1>2, <1>6, TurnStays DEF StaysQuiet, q

(* What a key or a message of the control socket does to a sidebar: it never *)
(* touches the snapshot or the screen, and asks to acknowledge only what was *)
(* drawn.                                                                    *)
Act(s, q) ==
    /\ TuiShaped(q) /\ q.snap = s.snap /\ q.conn = s.conn /\ q.drawn = s.drawn /\ q.target = s.target
    /\ q.seeded = s.seeded /\ q.answers = s.answers /\ q.ready = s.ready
    /\ s.dirty => q.dirty
    /\ \/ q.jobs["ack"] = s.jobs["ack"]
       \/ s.target # <<>> /\ q.jobs["ack"] = Append(s.jobs["ack"], s.target[1])
    /\ \/ q.jobs["cat"] = s.jobs["cat"]
       \/ q.jobs["cat"] = Append(s.jobs["cat"], 0)
       \/ q.jobs["cat"] = Append(s.jobs["cat"], s.nextId)
    /\ q.nextId \in {s.nextId, s.nextId + 1}
    /\ q.dialog \in Dialogs /\ (s.dialog.phase = "saving" => q.dialog = s.dialog)

(* Most keys leave the category dialog alone.                                *)
Tap(s, q) == Act(s, q) /\ q.dialog = s.dialog

LEMMA ActStays == ASSUME NEW s, TuiShaped(s), s.dialog \in Dialogs PROVE Tap(s, s) BY DEF Tap, Act

LEMMA ActFlags ==
    ASSUME NEW s, NEW a, Act(s, a), NEW b
    PROVE  LET q == Dirty(a, b) IN
           Act(s, q) /\ (~q.dirty => ~b) /\ q.sel = a.sel /\ q.prefs = a.prefs /\ q.over = a.over
           /\ q.dialog = a.dialog
<1> DEFINE q == Dirty(a, b)
<1>1. /\ TuiShaped(q) /\ (a.dirty => q.dirty) /\ (~q.dirty => ~b)
      /\ \A f \in TuiFields \ {"dirty"} : q[f] = a[f]
  BY RedrawFlag DEF Act
<1> HIDE DEF q
<1> QED BY <1>1 DEF q, TuiFields, Act

(* Only the row or the preferences change.                                   *)
LEMMA ViewAct ==
    ASSUME NEW s, TuiShaped(s), s.dialog \in Dialogs, NEW q, TuiShaped(q),
           \A f \in TuiFields \ {"sel", "prefs", "over", "marks", "pinning", "acking"} : q[f] = s[f]
    PROVE  Tap(s, q)
  BY DEF TuiFields, Tap, Act

LEMMA LocalKey ==
    ASSUME NEW s, TuiShaped(s), s.dialog \in Dialogs, NEW k,
           k.do = "cycle" \/ k.do = "move" \/ k.do = "expand"
    PROVE  Tap(s, apply_local_sidebar_key(s, k))
<1> DEFINE q == apply_local_sidebar_key(s, k)
<1>1. CASE k.do = "cycle"
  <2>1. PICK x : x = 1 - s.prefs[k.field] OBVIOUS
  <2>3. PICK z : z = [s.prefs EXCEPT ![k.field] = x] OBVIOUS
  <2> HIDE DEF q
  <2> QED BY <1>1, <2>1, <2>3, ViewAct DEF q, TuiShaped, TuiFields, apply_local_sidebar_key
<1>2. CASE k.do = "move"
  <2> HIDE DEF q
  <2> QED BY <1>2, ViewAct DEF q, TuiShaped, TuiFields, apply_local_sidebar_key
<1>3. CASE k.do = "expand"
  <2>1. PICK x : x = IF s.sel \in s.over THEN s.over \ {s.sel} ELSE s.over \cup {s.sel} OBVIOUS
  <2> HIDE DEF q
  <2> QED BY <1>3, <2>1, ViewAct DEF q, TuiShaped, TuiFields, apply_local_sidebar_key
<1> QED BY <1>1, <1>2, <1>3

(* A request that is sent: to one worker, with what that worker has pending. *)
LEMMA SendAct ==
    ASSUME NEW s, TuiShaped(s), s.dialog \in Dialogs, NEW w \in Worker, NEW r,
           w = "ack" => s.target # <<>> /\ r = s.target[1], w = "cat" => r = 0
    PROVE  Tap(s, Send(s, w, r)) /\ TuiShaped(Send(s, w, r))
<1> DEFINE q == Send(s, w, r)
<1>1. /\ TuiShaped(q) /\ \A f \in TuiFields \ {"jobs"} : q[f] = s[f]
      /\ q.jobs = [s.jobs EXCEPT ![w] = Append(s.jobs[w], r)]
  BY DEF Send, TuiShaped, TuiFields
<1> HIDE DEF q
<1>5. q.jobs["cat"] = s.jobs["cat"] \/ q.jobs["cat"] = Append(s.jobs["cat"], 0) BY <1>1 DEF TuiShaped, Worker
<1> QED BY <1>1, <1>5 DEF Tap, Act, q, TuiFields, TuiShaped, Worker

(* The bookkeeping next to it.                                               *)
LEMMA ThenAct ==
    ASSUME NEW s, NEW a, Tap(s, a), NEW q, TuiShaped(q),
           \A f \in TuiFields \ {"sel", "prefs", "over", "marks", "pinning", "acking"} : q[f] = a[f]
    PROVE  Tap(s, q)
  BY DEF TuiFields, Tap, Act

LEMMA MarkKey ==
    ASSUME NEW s, TuiShaped(s), s.dialog \in Dialogs PROVE Tap(s, queue_mark_complete(s))
<1>1. PICK r : r = [pane |-> s.sel, ver |-> s.snap[1].ver[s.sel]] OBVIOUS
<1>2. PICK x : x = s.marks \cup {s.sel} OBVIOUS
<1>3. PICK a : a = Send(s, "mark", r) OBVIOUS
<1>4. Tap(s, a) /\ TuiShaped(a) BY <1>3, SendAct DEF Worker
<1> DEFINE q == [a EXCEPT !.marks = x]
<1>6. queue_mark_complete(s) = s \/ queue_mark_complete(s) = q
  BY <1>1, <1>2, <1>3 DEF queue_mark_complete, Send, TuiShaped, TuiFields
<1>7. TuiShaped(q) /\ \A f \in TuiFields \ {"marks"} : q[f] = a[f] BY <1>4 DEF TuiShaped, TuiFields
<1> HIDE DEF q
<1> QED BY <1>6, <1>4, <1>7, ThenAct, ActStays

LEMMA AckKey ==
    ASSUME NEW s, TuiShaped(s), s.dialog \in Dialogs PROVE Tap(s, queue_ack(s))
<1>1. CASE s.conn # "connected" \/ s.acking \/ s.target = <<>> BY <1>1, ActStays DEF queue_ack
<1>2. CASE ~(s.conn # "connected" \/ s.acking \/ s.target = <<>>)
  <2>1. PICK a : a = Send(s, "ack", s.target[1]) OBVIOUS
  <2>2. Tap(s, a) /\ TuiShaped(a) BY <1>2, <2>1, SendAct DEF Worker
  <2> DEFINE q == [a EXCEPT !.acking = TRUE]
  <2>3. queue_ack(s) = q BY <1>2, <2>1 DEF queue_ack
  <2>4. TuiShaped(q) /\ \A f \in TuiFields \ {"acking"} : q[f] = a[f] BY <2>2 DEF TuiShaped, TuiFields
  <2> HIDE DEF q
  <2> QED BY <2>3, <2>2, <2>4, ThenAct
<1> QED BY <1>1, <1>2

LEMMA PinKey ==
    ASSUME NEW s, TuiShaped(s), s.dialog \in Dialogs PROVE Tap(s, queue_pane_pin_for_selection(s))
<1>1. PICK r : r = [op |-> "pin", pane |-> s.sel, on |-> s.sel \notin s.snap[1].pins] OBVIOUS
<1>2. PICK x : x = s.pinning \cup {s.sel} OBVIOUS
<1>3. PICK a : a = Send(s, "pin", r) OBVIOUS
<1>4. Tap(s, a) /\ TuiShaped(a) BY <1>3, SendAct DEF Worker
<1> DEFINE q == [a EXCEPT !.pinning = x]
<1>6. queue_pane_pin_for_selection(s) = s \/ queue_pane_pin_for_selection(s) = q
  BY <1>1, <1>2, <1>3 DEF queue_pane_pin_for_selection, Send, TuiShaped, TuiFields
<1>7. TuiShaped(q) /\ \A f \in TuiFields \ {"pinning"} : q[f] = a[f] BY <1>4 DEF TuiShaped, TuiFields
<1> HIDE DEF q
<1> QED BY <1>6, <1>4, <1>7, ThenAct, ActStays

LEMMA ReorderKey ==
    ASSUME NEW s, TuiShaped(s), s.dialog \in Dialogs PROVE Tap(s, queue_reorder(s))
  BY SendAct, ActStays DEF queue_reorder, Worker

LEMMA FocusKey ==
    ASSUME NEW s, TuiShaped(s), s.dialog \in Dialogs, NEW p PROVE Tap(s, select_context_agent(s, p))
<1>1. PICK x : select_context_agent(s, p) = [s EXCEPT !.sel = x] BY DEF select_context_agent
<1> DEFINE q == [s EXCEPT !.sel = x]
<1> HIDE DEF q
<1> QED BY <1>1, ViewAct DEF q, TuiShaped, TuiFields

LEMMA OpenKey ==
    ASSUME NEW s, TuiShaped(s), s.dialog.phase # "saving" PROVE Act(s, begin_category_edit(s))
<1>1. PICK d : d = [phase |-> "editing", id |-> 0] OBVIOUS
<1> DEFINE q == begin_category_edit(s)
<1>3. q = [s EXCEPT !.dialog = d, !.dirty = TRUE] BY <1>1 DEF begin_category_edit
<1> HIDE DEF q
<1>4. /\ TuiShaped(q) /\ q.dialog = d /\ q.dirty = TRUE
      /\ \A f \in TuiFields \ {"dialog", "dirty"} : q[f] = s[f]
  BY <1>3 DEF TuiShaped, TuiFields
<1> QED BY <1>1, <1>4 DEF Act, q, Dialogs, TuiFields

LEMMA DialogKey ==
    ASSUME NEW s, TuiShaped(s), s.dialog \in Dialogs, s.nextId \in Nat, NEW k
    PROVE  Act(s, handle_category_edit_key(s, k))
<1> DEFINE close == [phase |-> "none", id |-> 0]
           save  == [phase |-> "saving", id |-> s.nextId]
           a == [s EXCEPT !.dialog = close]
           b == [Send(s, "cat", s.nextId) EXCEPT !.dialog = save, !.nextId = @ + 1]
           q == handle_category_edit_key(s, k)
<1>1. \/ q = Dirty(s, TRUE)
      \/ s.dialog.phase = "editing" /\ q = Dirty(a, TRUE)
      \/ s.dialog.phase = "editing" /\ q = Dirty(b, TRUE)
  BY DEF handle_category_edit_key
<1>3. s.dialog.phase = "editing" => Act(s, a)
  <2>1. PICK d : d = close OBVIOUS
  <2>3. a = [s EXCEPT !.dialog = d] BY <2>1
  <2> HIDE DEF a
  <2>5. /\ a.snap = s.snap /\ a.conn = s.conn /\ a.drawn = s.drawn /\ a.target = s.target
        /\ a.seeded = s.seeded /\ a.nextId = s.nextId /\ a.jobs = s.jobs /\ a.dirty = s.dirty
        /\ a.answers = s.answers /\ a.ready = s.ready
    BY <2>3 DEF TuiFields, TuiShaped
  <2> QED BY <2>1, <2>3, <2>5 DEF Act, Dialogs, TuiShaped, TuiFields
<1>4. s.dialog.phase = "editing" => Act(s, b)
  <2>1. PICK d : d = save OBVIOUS
  <2>3. PICK x : x = Append(s.jobs["cat"], s.nextId) OBVIOUS
  <2>4. PICK m : m = s.nextId + 1 OBVIOUS
  <2> DEFINE c == [s EXCEPT !.jobs["cat"] = x]
  <2>5. c = Send(s, "cat", s.nextId) BY <2>3 DEF Send
  <2>6. /\ TuiShaped(c) /\ c.jobs["cat"] = x /\ c.jobs["ack"] = s.jobs["ack"]
        /\ \A f \in TuiFields \ {"jobs"} : c[f] = s[f]
    BY DEF TuiShaped, TuiFields, Worker
  <2> HIDE DEF c
  <2>8. b = [c EXCEPT !.dialog = d, !.nextId = m] BY <2>1, <2>4, <2>5, <2>6 DEF TuiFields
  <2> HIDE DEF b
  <2> QED BY <2>1, <2>3, <2>4, <2>6, <2>8 DEF Act, Dialogs, TuiFields, TuiShaped
<1> HIDE DEF a, b, q
<1>5. PICK yes : yes = TRUE OBVIOUS
<1>7. s.dialog.phase = "editing" => Act(s, Dirty(a, yes)) /\ Act(s, Dirty(b, yes)) BY <1>3, <1>4, ActFlags
<1> QED BY <1>1, <1>5, ActStays, ActFlags, <1>7 DEF q, Tap

LEMMA PressAct ==
    ASSUME NEW s, TuiShaped(s), s.dialog \in Dialogs, NEW k \in Key, k.do = "open" => s.dialog.phase # "saving"
    PROVE  Act(s, Press(s, k))
  BY MarkKey, AckKey, ActFlags, PinKey, ReorderKey, OpenKey, ActStays, LocalKey DEF Key, Press, Tap

LEMMA ControlAct ==
    ASSUME NEW s, TuiShaped(s), s.dialog \in Dialogs, NEW k \in ControlKey
    PROVE  LET q == drain_control_messages(s, k) IN Tap(s, q) /\ (~q.dirty => SameView(s, q))
<1> DEFINE a == CASE k.do = "focus" ->
                         IF k.pane \in s.snap[1].panes THEN select_context_agent(s, k.pane) ELSE s
                  [] k.do = "pin" -> IF s.conn = "connected" THEN queue_pane_pin_for_selection(s) ELSE s
                  [] k.do = "ack" -> queue_ack(s)
                  [] OTHER -> Press(s, k)
           b == Changed(s, a)
<1>1. drain_control_messages(s, k) = Dirty(a, b) BY DEF drain_control_messages
<1>3. Tap(s, a)
  <2>1. CASE k.do = "focus" BY <2>1, FocusKey, ActStays
  <2>2. CASE k.do = "pin" BY <2>2, PinKey, ActStays
  <2>3. CASE k.do = "ack" BY <2>3, AckKey
  <2>4. CASE k.do \in {"cycle", "expand", "reorder"}
    <3>1. a = Press(s, k) BY <2>4
    <3>3. k.do # "reorder" => Press(s, k) = apply_local_sidebar_key(s, k) BY <2>4 DEF Press
    <3> HIDE DEF a
    <3> QED BY <2>4, <3>1, <3>3, ReorderKey, LocalKey DEF Press
  <2> QED BY <2>1, <2>2, <2>3, <2>4 DEF ControlKey
<1> HIDE DEF a
<1>4. ~b => SameView(s, a) BY DEF Changed, SameView
<1> HIDE DEF b
<1> QED BY <1>1, <1>3, <1>4, ActFlags DEF SameView, Tap

LEMMA ViewSame ==
    ASSUME NEW s, NEW q, SameView(s, q), q.snap = s.snap
    PROVE  project_view(q) = project_view(s)
  BY DEF RowsOf, SameView, project_view

LEMMA Draws ==
    ASSUME NEW s, TuiShaped(s)
    PROVE  LET q == Draw(s) IN
           /\ TuiShaped(q) /\ ~q.dirty
           /\ ~s.dirty => q = s
           /\ s.dirty => q.target = displayed_target(s)
           /\ s.dirty /\ s.conn = "connected" => q.drawn = <<project_view(s)>>
           /\ \A f \in TuiFields \ {"dirty", "drawn", "target", "known"} : q[f] = s[f]
<1>1. CASE ~s.dirty BY <1>1 DEF Draw
<1>2. CASE s.dirty
  <2>1. PICK frame : frame = project_view(s) OBVIOUS
  <2>2. PICK shown : shown = IF frame.rows = <<>> /\ s.conn = "degraded" THEN [frame EXCEPT !.rows = s.known]
                             ELSE frame
    OBVIOUS
  <2>3. PICK x : x = IF frame.rows # <<>> THEN frame.rows ELSE IF s.conn = "connected" THEN <<>> ELSE s.known
    OBVIOUS
  <2>4. PICK y : y = displayed_target(s) OBVIOUS
  <2>5. PICK z : z = <<shown>> OBVIOUS
  <2> DEFINE q == [s EXCEPT !.dirty = FALSE, !.drawn = z, !.target = y, !.known = x]
  <2>6. Draw(s) = q BY <1>2, <2>1, <2>2, <2>3, <2>4, <2>5 DEF Draw
  <2>7. /\ TuiShaped(q) /\ q.dirty = FALSE /\ q.drawn = z /\ q.target = y
        /\ \A f \in TuiFields \ {"dirty", "drawn", "target", "known"} : q[f] = s[f]
    BY DEF TuiShaped, TuiFields
  <2> HIDE DEF q
  <2> QED BY <1>2, <2>4, <2>6, <2>7, <2>1, <2>2, <2>5
<1> QED BY <1>1, <1>2

(* What holds of one sidebar: the questions it shows or sends were drawn, a  *)
(* category request answered as done is one the daemon saved, and a screen   *)
(* that is not about to be drawn again shows the rows of the sidebar.        *)
SnapFits(x) == x # <<>> => x[1].panes \subseteq SbPane /\ x[1].asked \in [SbPane -> Nat]
ShownReq(sn) == {x \in [pane : SbPane, order : Nat] : x.order <= sn[x.pane]}
CatAnswer(t, cats) == {a \in [id : Nat, ok : BOOLEAN] : a.ok /\ a.id # 0 => <<t, a.id>> \in cats}
OnScreen(s) == s.seeded /\ ~s.dirty /\ s.conn = "connected" => s.drawn = <<project_view(s)>>
Queues(t, s, cats, sn) ==
    /\ s.target # <<>> => s.target[1] \in ShownReq(sn)
    /\ s.jobs["ack"] \in Seq(ShownReq(sn)) /\ s.jobs["cat"] \in Seq(Nat)
    /\ s.answers["cat"] \in Seq(CatAnswer(t, cats))
TuiFits(t, s, cats, sn) ==
    /\ TuiShaped(s) /\ s.dialog \in Dialogs /\ s.nextId \in Nat /\ SnapFits(s.snap)
    /\ Queues(t, s, cats, sn)
    /\ ~s.seeded => s.dirty
    /\ OnScreen(s)
    /\ s.ready => s.seeded /\ ~s.dirty

(* What the merge leaves of a sidebar, before the messages and the frame.    *)
Taken(s, u, q) ==
    /\ TuiShaped(q) /\ q.seeded /\ q.snap = u.snap /\ q.conn = u.conn
    /\ q.target = s.target /\ q.drawn = s.drawn /\ q.nextId = s.nextId
    /\ q.jobs["ack"] = s.jobs["ack"] /\ q.jobs["cat"] = s.jobs["cat"] /\ q.answers = NoAnswers
    /\ q.dialog \in Dialogs /\ Answered(s, q.dialog)
    /\ OnScreen(q)
    /\ s.seeded => \A f \in PrefField : s.prefs[f] # s.queuedPrefs[f] => q.prefs[f] = s.prefs[f]

LEMMA TurnMerges ==
    ASSUME NEW t, NEW s, TuiShaped(s), s.dialog \in Dialogs, ~s.seeded => s.dirty, OnScreen(s), NEW u,
           NEW q \in Merged(drain_snapshot_updates(s, u), t)
    PROVE  Taken(s, u, q)
<1>1. PICK a : a = drain_snapshot_updates(s, u) OBVIOUS
<1>2. PICK b : b = Seeded(a, Home[t]) OBVIOUS
<1>3. PICK c : c = apply_remote_sidebar_preferences(b) OBVIOUS
<1>4. PICK d : d = apply_remote_navigation(c) OBVIOUS
<1>5. PICK e : e = clear_stale_pane_selection(d) OBVIOUS
<1>6. PICK g : g = DrainAnswers(e) OBVIOUS
<1>7. PICK h : h = QueueExpansion(g) OBVIOUS
<1>8. PICK i : i = AdoptExpansion(h) OBVIOUS
<1>9. PICK j : j = QueuePreferences(i) OBVIOUS
<1>10. q = QueueNavigation(j)
  <2>1. q = QueueNavigation(QueuePreferences(AdoptExpansion(QueueExpansion(DrainAnswers(
                 clear_stale_pane_selection(apply_remote_navigation(
                   apply_remote_sidebar_preferences(Seeded(a, Home[t])))))))))
    BY <1>1, MergedIs
  <2> QED BY <2>1, <1>2, <1>3, <1>4, <1>5, <1>6, <1>7, <1>8, <1>9
<1>11. /\ TuiShaped(a) /\ (s.dirty => a.dirty) /\ (~a.dirty => u.conn = s.conn /\ u.snap = s.snap)
       /\ a.conn = u.conn /\ a.snap = u.snap
       /\ \A f \in TuiFields \ {"conn", "snap", "dirty"} : a[f] = s[f]
  BY <1>1, TakesSnapshot
<1>12. /\ a.prefs = s.prefs /\ a.over = s.over /\ a.sel = s.sel /\ a.queuedPrefs = s.queuedPrefs
       /\ a.target = s.target /\ a.drawn = s.drawn /\ a.nextId = s.nextId /\ a.jobs = s.jobs
       /\ a.answers = s.answers /\ a.dialog = s.dialog /\ a.seeded = s.seeded
  BY <1>11 DEF TuiFields
<1>13. /\ a.seeded => b = a
       /\ TuiShaped(b) /\ b.dirty = a.dirty /\ (~a.seeded => b.seeded)
       /\ b.snap = a.snap /\ b.conn = a.conn /\ b.drawn = a.drawn /\ b.target = a.target
       /\ b.nextId = a.nextId /\ b.dialog = a.dialog /\ b.jobs = a.jobs /\ b.answers = a.answers
  BY <1>2, <1>11, SeedsOnce
<1>14. /\ Turn(b, c) /\ c.dialog = b.dialog /\ c.answers = b.answers
       /\ \A f \in PrefField : b.prefs[f] # b.queuedPrefs[f] => c.prefs[f] = b.prefs[f]
  BY <1>3, <1>13, TakesPreferences
<1>15. Turn(c, d) /\ d.prefs = c.prefs /\ d.dialog = c.dialog /\ d.answers = c.answers
  BY <1>4, <1>14, TakesNavigation DEF Turn
<1>16. Turn(d, e) /\ e.prefs = d.prefs /\ e.dialog = d.dialog /\ e.answers = d.answers
  BY <1>5, <1>15, ClearsStale DEF Turn
<1>17. /\ Turn(e, g) /\ g.prefs = e.prefs /\ g.dialog \in Dialogs /\ Answered(e, g.dialog)
       /\ g.answers = NoAnswers
  BY <1>6, <1>12, <1>13, <1>14, <1>15, <1>16, DrainsAnswers DEF Turn
<1>18. Turn(b, g) /\ g.prefs = c.prefs BY <1>14, <1>15, <1>16, <1>17, TurnsTwice
<1>19. StaysQuiet(g, h) BY <1>7, <1>18, QueuesExpansion DEF Turn
<1>23. StaysQuiet(g, q)
  BY <1>19, <1>8, AdoptsExpansion, <1>9, QueuesPreferences, <1>10, QueuesNavigation, StaysQuietTwice DEF StaysQuiet,
    Turn
<1>24. Turn(b, q) /\ q.prefs = c.prefs /\ q.dialog = g.dialog BY <1>18, <1>23, TurnsTwice DEF StaysQuiet
<1>26. q.answers = NoAnswers BY <1>17, <1>23 DEF StaysQuiet
<1>27. Answered(s, q.dialog) /\ q.dialog \in Dialogs
  BY <1>12, <1>13, <1>14, <1>15, <1>16, <1>17, <1>24 DEF Answered, Mine
<1> QED BY <1>11, <1>12, <1>13, <1>24, ViewSame, <1>26, <1>27, <1>14 DEF Turn, Taken, OnScreen, Redrawn, SameView

LEMMA SeqGrows ==
    ASSUME NEW A, NEW B, A \subseteq B, NEW s \in Seq(A) PROVE s \in Seq(B)
  OBVIOUS

LEMMA QueuesGrow ==
    ASSUME NEW t, NEW s, NEW cats, NEW cats2, cats \subseteq cats2,
           NEW sn \in [SbPane -> Nat], NEW sn2 \in [SbPane -> Nat], \A p \in SbPane : sn[p] <= sn2[p],
           Queues(t, s, cats, sn)
    PROVE  Queues(t, s, cats2, sn2)
<1>2. CatAnswer(t, cats) \subseteq CatAnswer(t, cats2) BY DEF CatAnswer
<1> QED BY SeqGrows, <1>2 DEF Queues, ShownReq

LEMMA ActQueues ==
    ASSUME NEW t, NEW s, NEW q, NEW cats, NEW sn, Queues(t, s, cats, sn), s.nextId \in Nat, Act(s, q)
    PROVE  Queues(t, q, cats, sn) /\ q.nextId \in Nat
<1>1. q.jobs["ack"] \in Seq(ShownReq(sn))
  <2>1. CASE q.jobs["ack"] = s.jobs["ack"] BY <2>1 DEF Queues
  <2>2. CASE s.target # <<>> /\ q.jobs["ack"] = Append(s.jobs["ack"], s.target[1])
    BY <2>2, AppendProperties DEF Queues
  <2> QED BY <2>1, <2>2 DEF Act
<1>2. q.jobs["cat"] \in Seq(Nat)
  <2>1. PICK y : y = s.jobs["cat"] OBVIOUS
  <2>3. Append(y, 0) \in Seq(Nat) /\ Append(y, s.nextId) \in Seq(Nat) BY <2>1, AppendProperties DEF Queues
  <2> QED BY <2>1, <2>3 DEF Act, Queues
<1> QED BY <1>1, <1>2 DEF Act, Queues

LEMMA WatchedGrows ==
    ASSUME seen \in [SbPane -> Nat], NEW a,
           a.target # <<>> => a.target[1] \in [pane : SbPane, order : Nat]
    PROVE  /\ Watched(a) \in [SbPane -> Nat] /\ \A p \in SbPane : seen[p] <= Watched(a)[p]
           /\ a.target # <<>> => a.target[1] \in ShownReq(Watched(a))
  BY DEF Watched, ShownReq

(* A sidebar between the merge and the frame.                                *)
Mid(t, s, cats, sn) ==
    /\ TuiShaped(s) /\ s.dialog \in Dialogs /\ s.nextId \in Nat /\ SnapFits(s.snap)
    /\ Queues(t, s, cats, sn) /\ s.seeded /\ OnScreen(s)

LEMMA MergeMid ==
    ASSUME NEW t, NEW s, NEW cats, NEW sn, TuiFits(t, s, cats, sn), NEW u, SnapFits(u.snap),
           NEW q \in Merged(drain_snapshot_updates(s, u), t)
    PROVE  Mid(t, q, cats, sn) /\ q.snap = u.snap
<1>1. /\ TuiShaped(q) /\ q.seeded /\ q.snap = u.snap /\ q.conn = u.conn
      /\ q.target = s.target /\ q.drawn = s.drawn /\ q.nextId = s.nextId
      /\ q.jobs["ack"] = s.jobs["ack"] /\ q.jobs["cat"] = s.jobs["cat"] /\ q.answers = NoAnswers
      /\ q.dialog \in Dialogs /\ OnScreen(q)
  <2>1. TuiShaped(s) /\ s.dialog \in Dialogs /\ (~s.seeded => s.dirty) /\ OnScreen(s) BY DEF TuiFits
  <2>2. q \in Merged(drain_snapshot_updates(s, u), t) OBVIOUS
  <2>3. Taken(s, u, q) BY ONLY <2>1, <2>2, TurnMerges
  <2> QED BY <2>3 DEF Taken
<1> QED BY <1>1 DEF Mid, TuiFits, Queues, NoAnswers, Worker

LEMMA ControlMid ==
    ASSUME NEW t, NEW s, NEW cats, NEW sn, Mid(t, s, cats, sn), NEW k \in ControlKey
    PROVE  LET q == drain_control_messages(s, k) IN Mid(t, q, cats, sn) /\ q.snap = s.snap /\ q.dialog = s.dialog
  BY ControlAct, ActQueues, ViewSame DEF Mid, Tap, OnScreen, Act

Framed(s) == [Draw(s) EXCEPT !.ready = TRUE]

LEMMA FrameFits ==
    ASSUME NEW t, NEW s, NEW cats, seen \in [SbPane -> Nat], Mid(t, s, cats, seen), s.snap # <<>>
    PROVE  LET a == Draw(s)
               q == Framed(s)
           IN  /\ TuiFits(t, q, cats, Watched(a))
               /\ Watched(a) \in [SbPane -> Nat] /\ \A p \in SbPane : seen[p] <= Watched(a)[p]
               /\ q.prefs = s.prefs /\ q.dialog = s.dialog
<1>a. PICK a : a = Draw(s) OBVIOUS
<1>b. PICK q : q = [a EXCEPT !.ready = TRUE] OBVIOUS
<1>1. /\ TuiShaped(a) /\ ~a.dirty
      /\ ~s.dirty => a = s
      /\ s.dirty => a.target = displayed_target(s)
      /\ s.dirty /\ s.conn = "connected" => a.drawn = <<project_view(s)>>
      /\ \A f \in TuiFields \ {"dirty", "drawn", "target", "known"} : a[f] = s[f]
  BY <1>a, Draws DEF Mid
<1>2. TuiShaped(q) /\ q.ready = TRUE /\ \A f \in TuiFields \ {"ready"} : q[f] = a[f]
  BY <1>1, <1>b DEF TuiShaped, TuiFields
<1>4. /\ q.snap = s.snap /\ q.conn = s.conn /\ q.prefs = s.prefs /\ q.over = s.over /\ q.sel = s.sel
      /\ q.seeded = s.seeded /\ q.nextId = s.nextId /\ q.jobs = s.jobs /\ q.answers = s.answers
      /\ q.dialog = s.dialog /\ q.dirty = a.dirty /\ q.target = a.target /\ q.drawn = a.drawn
  BY <1>2, <1>1 DEF TuiFields
<1>6. /\ Watched(a) \in [SbPane -> Nat] /\ \A p \in SbPane : seen[p] <= Watched(a)[p]
      /\ a.target # <<>> => a.target[1] \in ShownReq(Watched(a))
  BY <1>1, WatchedGrows DEF Mid, Queues, ShownReq, displayed_target, Asks, SnapFits
<1>7. Queues(t, s, cats, Watched(a)) BY <1>6, QueuesGrow DEF Mid
<1>10. q.seeded /\ ~q.dirty BY <1>1, <1>4 DEF Mid
<1>11. TuiFits(t, q, cats, Watched(a))
  BY <1>2, <1>4, <1>6, <1>7, ViewSame, <1>1, <1>10 DEF TuiFits, Mid, SameView, OnScreen, Queues
<1> QED BY <1>a, <1>4, <1>6, <1>11, <1>b DEF Framed

Handled(s, a) == [Dirty(a, Changed(s, a)) EXCEPT !.ready = FALSE]

(* The event handled: what the sidebar is then.                              *)
FitsAfter(t, a, q, cats, sn) == TuiFits(t, q, cats, sn) /\ q.ready = FALSE /\ q.dialog = a.dialog

LEMMA EventFits ==
    ASSUME NEW t, NEW s, NEW cats, NEW sn, TuiFits(t, s, cats, sn), NEW a, Act(s, a)
    PROVE  FitsAfter(t, a, Handled(s, a), cats, sn)
<1>1. PICK b : b = Changed(s, a) OBVIOUS
<1>2. PICK c : c = Dirty(a, b) OBVIOUS
<1>3. Act(s, c) /\ (~c.dirty => ~b) /\ c.sel = a.sel /\ c.prefs = a.prefs /\ c.over = a.over BY <1>2, ActFlags
<1>5. PICK q : q = [c EXCEPT !.ready = FALSE] OBVIOUS
<1>6. TuiShaped(q) /\ q.ready = FALSE /\ \A f \in TuiFields \ {"ready"} : q[f] = c[f]
  <2>1. TuiShaped(c) BY <1>3 DEF Act
  <2> DEFINE r == [c EXCEPT !.ready = FALSE]
  <2>2. TuiShaped(r) /\ r.ready = FALSE /\ \A f \in TuiFields \ {"ready"} : r[f] = c[f]
    BY ONLY <2>1 DEF TuiShaped, TuiFields
  <2> QED BY <1>5, <2>2
<1>7. /\ q.snap = c.snap /\ q.conn = c.conn /\ q.prefs = c.prefs /\ q.over = c.over /\ q.sel = c.sel
      /\ q.seeded = c.seeded /\ q.nextId = c.nextId /\ q.jobs = c.jobs /\ q.answers = c.answers
      /\ q.dialog = c.dialog /\ q.dirty = c.dirty /\ q.target = c.target /\ q.drawn = c.drawn
  BY <1>6 DEF TuiFields
<1>8. Queues(t, c, cats, sn) /\ c.nextId \in Nat BY <1>3, ActQueues DEF TuiFits
<1>10. OnScreen(q)
  <2> SUFFICES ASSUME q.seeded, ~q.dirty, q.conn = "connected" PROVE q.drawn = <<project_view(q)>> BY DEF OnScreen
  <2>2. SameView(s, q) BY <1>1, <1>3, <1>7 DEF Changed, SameView
  <2> QED BY <1>3, <1>7, <2>2, ViewSame DEF Act, TuiFits, OnScreen
<1>11. q.snap = s.snap /\ q.seeded = s.seeded /\ (s.dirty => q.dirty) /\ q.dialog \in Dialogs BY <1>3, <1>7 DEF Act
<1>12. TuiFits(t, q, cats, sn) BY <1>6, <1>7, <1>8, <1>10, <1>11 DEF TuiFits, Queues
<1> QED BY <1>1, <1>2, <1>5, RedrawFlag, <1>6, <1>7, <1>12 DEF Handled, FitsAfter, Act, TuiFields

(* What a worker leaves of a sidebar: the rest of its queue and one answer.  *)
Served(s, w, j, a) == [s EXCEPT !.jobs[w] = j, !.answers[w] = a]

StillFits(t, s, q, cats, sn) == TuiFits(t, q, cats, sn) /\ q.dialog = s.dialog /\ q.ready = s.ready

LEMMA ServedFits ==
    ASSUME NEW t, NEW s, NEW cats, NEW cats2, cats \subseteq cats2, NEW sn \in [SbPane -> Nat],
           TuiFits(t, s, cats, sn), NEW w \in Worker, NEW j, NEW a,
           w = "ack" => j \in Seq(ShownReq(sn)),
           w = "cat" => j \in Seq(Nat) /\ a \in Seq(CatAnswer(t, cats2))
    PROVE  StillFits(t, s, Served(s, w, j, a), cats2, sn)
<1>1. PICK js : js = [s.jobs EXCEPT ![w] = j] OBVIOUS
<1>2. PICK as : as = [s.answers EXCEPT ![w] = a] OBVIOUS
<1> DEFINE q == Served(s, w, j, a)
<1>3. q = [s EXCEPT !.jobs = js, !.answers = as] BY <1>1, <1>2 DEF Served
<1>4. /\ js = [x \in Worker |-> js[x]] /\ js["ack"] = (IF w = "ack" THEN j ELSE s.jobs["ack"])
      /\ js["cat"] = (IF w = "cat" THEN j ELSE s.jobs["cat"])
      /\ as = [x \in Worker |-> as[x]] /\ as["cat"] = (IF w = "cat" THEN a ELSE s.answers["cat"])
  BY <1>1, <1>2 DEF TuiFits, TuiShaped, Worker
<1> HIDE DEF q
<1>5. /\ TuiShaped(q) /\ q.jobs = js /\ q.answers = as
      /\ \A f \in TuiFields \ {"jobs", "answers"} : q[f] = s[f]
  BY <1>3, <1>4 DEF TuiFits, TuiShaped, TuiFields
<1>7. Queues(t, s, cats2, sn) BY QueuesGrow DEF TuiFits
<1>8. Queues(t, q, cats2, sn) BY <1>4, <1>5, <1>7 DEF Queues, TuiFields
<1> QED BY <1>5, <1>8, ViewSame DEF TuiFits, StillFits, q, SameView, OnScreen, TuiFields

LEMMA FitsGrows ==
    ASSUME NEW t, NEW s, NEW cats, NEW cats2, cats \subseteq cats2,
           NEW sn \in [SbPane -> Nat], NEW sn2 \in [SbPane -> Nat], \A p \in SbPane : sn[p] <= sn2[p],
           TuiFits(t, s, cats, sn)
    PROVE  TuiFits(t, s, cats2, sn2)
  BY QueuesGrow DEF TuiFits

(* What the daemon keeps.                                                    *)
HubFields == {"prefs", "over", "pins", "nav", "panes", "ver", "asked", "acked", "degraded", "cats", "marked"}
HubFits(d) ==
    /\ d = [f \in HubFields |-> d[f]]
    /\ d.pins \subseteq d.panes /\ d.panes \subseteq SbPane
    /\ d.asked \in [SbPane -> Nat] /\ d.acked \in [SbPane -> Nat]

LEMMA AppliedFits ==
    ASSUME NEW d, HubFits(d), NEW w \in Worker, NEW t, NEW q, NEW sn \in [SbPane -> Nat],
           \A p \in SbPane : d.acked[p] <= sn[p], w = "ack" => q \in ShownReq(sn)
    PROVE  LET e == Applied(d, w, t, q) IN
           /\ HubFits(e) /\ d.cats \subseteq e.cats /\ \A p \in SbPane : e.acked[p] <= sn[p]
           /\ w = "cat" /\ q # 0 => <<t, q>> \in e.cats
<1> DEFINE e == Applied(d, w, t, q)
           Fine(x) == /\ HubFits(x) /\ d.cats \subseteq x.cats /\ \A p \in SbPane : x.acked[p] <= sn[p]
<1>0. Fine(d) OBVIOUS
<1>1. CASE w \in {"pref", "pin"}
  <2>2. PICK x : x = [d.prefs EXCEPT ![q.field] = q.value] OBVIOUS
  <2>3. PICK y : y = IF q.over THEN d.over \cup {q.row} ELSE d.over \ {q.row} OBVIOUS
  <2>4. PICK z : z = IF q.on THEN d.pins \cup {q.pane} ELSE d.pins \ {q.pane} OBVIOUS
  <2>6. q.pane \in d.panes => z \subseteq d.panes BY <2>4 DEF HubFits
  <2>7. Fine([d EXCEPT !.prefs = x]) /\ Fine([d EXCEPT !.over = y]) BY DEF HubFits, HubFields
  <2>8. z \subseteq d.panes => Fine([d EXCEPT !.pins = z]) BY DEF HubFits, HubFields
  <2>9. Fine(e) BY <1>0, <1>1, <2>2, <2>3, <2>4, <2>6, <2>7, <2>8 DEF Applied, apply_intent
  <2> QED BY <1>1, <2>9
<1>2. CASE w = "nav"
  <2>1. PICK x : e = d \/ e = [d EXCEPT !.nav = x] BY <1>2 DEF Applied, replace_sidebar_navigation
  <2> HIDE DEF e
  <2> QED BY <1>2, <1>0, <2>1 DEF e, HubFits, HubFields
<1>3. CASE w = "mark"
  <2>1. PICK x : x = [d.ver EXCEPT ![q.pane] = @ + 1] OBVIOUS
  <2>2. PICK y : y = d.marked \cup {q} OBVIOUS
  <2> HIDE DEF e
  <2> QED BY <1>3, <1>0, <2>1, <2>2 DEF e, HubFits, HubFields, Applied, MarkComplete
<1>4. CASE w = "ack"
  <2>2. PICK x : x = [d.acked EXCEPT ![q.pane] = q.order] OBVIOUS
  <2>3. e = d \/ e = [d EXCEPT !.acked = x] BY <1>4, <2>2 DEF Applied, AckQuestionNotice
  <2> HIDE DEF e
  <2>5. Fine(e) BY <1>0, <2>3, <1>4, <2>2 DEF HubFits, HubFields, ShownReq
  <2> QED BY <1>4, <2>5 DEF e
<1>5. CASE w = "cat"
  <2>1. PICK x : x = IF q = 0 THEN d.cats ELSE d.cats \cup {<<t, q>>} OBVIOUS
  <2>2. e = [d EXCEPT !.cats = x] BY <1>5, <2>1 DEF Applied
  <2> HIDE DEF e
  <2>4. Fine(e) /\ e.cats = x BY <2>2, <2>1 DEF HubFits, HubFields
  <2> QED BY <2>1, <2>4 DEF e
<1> QED BY <1>1, <1>2, <1>3, <1>4, <1>5 DEF Worker

-----------------------------------------------------------------------------
(* The invariant of the sidebars, and what each action does to it.           *)
FeedFits(u) == u = [f \in {"snap", "conn"} |-> u[f]] /\ SnapFits(u.snap)
SpentRec == [keys : Nat, world : Nat, loss : Nat, restarts : Nat]

HubInv == HubFits(hub) /\ seen \in [SbPane -> Nat] /\ \A p \in SbPane : hub.acked[p] <= seen[p]
FeedInv == feed = [t \in Tui |-> feed[t]] /\ \A t \in Tui : FeedFits(feed[t])
TuisInv == tui = [t \in Tui |-> tui[t]] /\ \A t \in Tui : TuiFits(t, tui[t], hub.cats, seen)
SbInv == HubInv /\ FeedInv /\ TuisInv /\ spent \in SpentRec

(* What a step may do to what a user typed.                                  *)
Kept(t, s, q, cats, same) ==
    /\ (s.dialog.phase = "saving" /\ q.dialog.phase = "none") => <<t, s.dialog.id>> \in cats
    /\ (s.seeded /\ ~s.ready /\ q.ready /\ same)
          => \A f \in PrefField : s.prefs[f] # s.queuedPrefs[f] => q.prefs[f] = s.prefs[f]
AllKept == \A t \in Tui : Kept(t, tui[t], tui'[t], hub.cats, spent' = spent)

LEMMA KeptSame ==
    ASSUME NEW t, NEW s, NEW q, q.dialog = s.dialog, q.ready = s.ready, NEW cats, NEW same
    PROVE  Kept(t, s, q, cats, same)
  BY DEF Kept

(* One sidebar takes a step, the daemon and the user's eyes only gain.       *)
LEMMA OneTui ==
    ASSUME TuisInv, NEW t \in Tui, NEW q, tui' = [tui EXCEPT ![t] = q],
           hub.cats \subseteq hub'.cats, seen \in [SbPane -> Nat], seen' \in [SbPane -> Nat],
           \A p \in SbPane : seen[p] <= seen'[p],
           TuiFits(t, q, hub'.cats, seen'), Kept(t, tui[t], q, hub.cats, spent' = spent)
    PROVE  TuisInv' /\ AllKept
  BY FitsGrows, KeptSame DEF TuisInv, AllKept

LEMMA NoTui ==
    ASSUME TuisInv, UNCHANGED tui, hub.cats \subseteq hub'.cats, UNCHANGED seen, seen \in [SbPane -> Nat]
    PROVE  TuisInv' /\ AllKept
  BY FitsGrows, KeptSame DEF TuisInv, AllKept

LEMMA PublishStep == ASSUME SbInv, NEW t \in Tui, Publish(t) PROVE SbInv' /\ AllKept
  BY NoTui DEF Publish, SbInv, HubInv, HubFits, HubFields, SnapFits, Snapshot, FeedFits, FeedInv

LEMMA DropStep == ASSUME SbInv, NEW t \in Tui, Drop(t) PROVE SbInv' /\ AllKept
<1>2. PICK u : u = [feed[t] EXCEPT !.conn = "disconnected"] OBVIOUS
<1>5. FeedInv' BY <1>2 DEF SbInv, FeedInv, FeedFits, Drop
<1> QED BY <1>5, NoTui DEF SbInv, HubInv, SpentRec, Spend, Drop

(* The daemon changes by itself: panes and records, never the questions      *)
(* acknowledged nor the categories saved.                                    *)
LEMMA WorldStep == ASSUME SbInv, World PROVE SbInv' /\ AllKept
<1>1. PICK h : h = hub OBVIOUS
<1>2. HubFits(h) BY <1>1 DEF SbInv, HubInv
<1>3. HubFits(hub') /\ hub'.cats = hub.cats /\ hub'.acked = hub.acked
  <2>1. CASE \E p \in hub.panes : hub' = [hub EXCEPT !.ver[p] = @ + 1] BY <2>1, <1>1, <1>2 DEF HubFits, HubFields
  <2>2. CASE \E p \in hub.panes : hub' = [hub EXCEPT !.ver[p] = @ + 1, !.asked[p] = @ + 1]
    <3>1. PICK p \in h.panes : hub' = [h EXCEPT !.ver[p] = @ + 1, !.asked[p] = @ + 1] BY <2>2, <1>1
    <3>2. PICK x : x = [h.ver EXCEPT ![p] = @ + 1] OBVIOUS
    <3>3. PICK y : y = [h.asked EXCEPT ![p] = @ + 1] OBVIOUS
    <3>5. y \in [SbPane -> Nat] BY <1>2, <3>3 DEF HubFits
    <3> QED BY <3>1, <3>2, <3>3, <1>2, <3>5, <1>1 DEF HubFits, HubFields
  <2>3. CASE \E p \in hub.panes : hub' = [hub EXCEPT !.panes = @ \ {p}, !.pins = @ \ {p}]
    <3>1. PICK p : hub' = [h EXCEPT !.panes = h.panes \ {p}, !.pins = h.pins \ {p}]
      BY <2>3, <1>1, <1>2 DEF HubFits, HubFields
    <3>2. PICK x, y : x = h.panes \ {p} /\ y = h.pins \ {p} OBVIOUS
    <3> QED BY <3>2, <1>2, <3>1, <1>1 DEF HubFits, HubFields
  <2>4. CASE hub' = [hub EXCEPT !.degraded = ~@] BY <2>4, <1>1, <1>2 DEF HubFits, HubFields
  <2> QED BY <2>1, <2>2, <2>3, <2>4 DEF World
<1>4. Spend("world") /\ UNCHANGED <<feed, tui, seen>> BY DEF World
<1> QED BY <1>3, <1>4, NoTui DEF SbInv, HubInv, FeedInv, SpentRec, Spend

LEMMA RestartStep == ASSUME SbInv, RestartDaemon PROVE SbInv' /\ AllKept
<1>1. PICK h : h = hub OBVIOUS
<1>3. PICK prefs, over, pins, nav1 :
        /\ pins = saved.pins \cap h.panes
        /\ hub' = [h EXCEPT !.prefs = prefs, !.over = over, !.pins = pins, !.nav = nav1, !.degraded = FALSE]
  BY <1>1 DEF RestartDaemon
<1>6. /\ feed' = [t \in Tui |-> [feed[t] EXCEPT !.conn = IF @ = "connecting" THEN @ ELSE "disconnected"]]
      /\ Spend("restarts") /\ UNCHANGED <<tui, seen>>
  BY DEF RestartDaemon
<1>9. spent' \in SpentRec BY <1>6 DEF SbInv, SpentRec, Spend
<1> QED BY <1>1, <1>3, <1>6, NoTui, <1>9 DEF SbInv, HubInv, FeedInv, FeedFits, HubFits, HubFields

LEMMA EventStep == ASSUME SbInv, NEW t \in Tui, ReadEvent(t) PROVE SbInv' /\ AllKept
<1>1. PICK s : s = tui[t] OBVIOUS
<1>2. TuiFits(t, s, hub.cats, seen) /\ s.ready BY <1>1 DEF SbInv, TuisInv, ReadEvent
<1>3. PICK k, a :
        /\ k \in Key
        /\ a = IF s.dialog.phase # "none" THEN handle_category_edit_key(s, k) ELSE Press(s, k)
        /\ tui' = [tui EXCEPT ![t] = [Dirty(a, Changed(s, a)) EXCEPT !.ready = FALSE]]
  BY <1>1 DEF ReadEvent
<1>4. Spend("keys") /\ UNCHANGED <<hub, saved, feed, seen>> BY DEF ReadEvent
<1>6. Act(s, a) BY <1>3, <1>2, DialogKey, PressAct DEF TuiFits
<1>7. PICK q : q = Handled(s, a) OBVIOUS
<1>8. TuiFits(t, q, hub.cats, seen) /\ q.ready = FALSE /\ q.dialog = a.dialog
  <2>1. PICK cats, sn : cats = hub.cats /\ sn = seen OBVIOUS
  <2>2. TuiFits(t, s, cats, sn) BY <1>2, <2>1
  <2>3. FitsAfter(t, a, Handled(s, a), cats, sn) BY ONLY <1>6, <2>2, EventFits
  <2> QED BY <2>1, <1>7, <2>3 DEF FitsAfter
<1>11. TuisInv' /\ AllKept
  <2>1. /\ hub.cats \subseteq hub'.cats /\ seen \in [SbPane -> Nat] /\ seen' \in [SbPane -> Nat]
        /\ \A p \in SbPane : seen[p] <= seen'[p]
    BY <1>4 DEF SbInv, HubInv
  <2>2. TuiFits(t, q, hub'.cats, seen') BY <1>4, <1>8
  <2> QED BY <1>1, <1>6, <1>8, <1>3, <1>7, <2>1, <2>2, OneTui DEF SbInv, Kept, Act, Handled
<1> QED BY <1>4, <1>11 DEF SbInv, HubInv, FeedInv, SpentRec, Spend

LEMMA LoopStep ==
    ASSUME SbInv, NEW t \in Tui, NEW messages, messages \in {{}, ControlKey},
           run_loop(t, messages), spent' \in SpentRec, messages # {} => spent' # spent
    PROVE  SbInv' /\ AllKept
<1>1. PICK s, u : s = tui[t] /\ u = feed[t] OBVIOUS
<1>2. TuiFits(t, s, hub.cats, seen) /\ SnapFits(u.snap) /\ u.snap # <<>> /\ seen \in [SbPane -> Nat]
  BY <1>1 DEF SbInv, TuisInv, FeedInv, FeedFits, HubInv, run_loop
<1>3. PICK q, m, a :
        /\ q \in Merged(drain_snapshot_updates(s, u), t) /\ a = Draw(m)
        /\ \/ m = q /\ messages = {}
           \/ \E k \in messages : m = drain_control_messages(q, k)
        /\ tui' = [tui EXCEPT ![t] = [a EXCEPT !.ready = TRUE]]
        /\ seen' = Watched(a)
  BY <1>1 DEF run_loop
<1>5. Mid(t, q, hub.cats, seen) /\ q.snap = u.snap BY <1>2, <1>3, MergeMid
<1>7. PICK r : r = Framed(m) OBVIOUS
<1>8. /\ TuiFits(t, r, hub.cats, Watched(a))
      /\ Watched(a) \in [SbPane -> Nat] /\ \A p \in SbPane : seen[p] <= Watched(a)[p]
      /\ r.prefs = m.prefs /\ r.dialog = m.dialog
  BY <1>2, <1>3, <1>5, ControlMid, <1>7, FrameFits
<1>9. Kept(t, s, r, hub.cats, spent' = spent)
  <2>1. Taken(s, u, q) BY <1>2, <1>3, TurnMerges DEF TuiFits
  <2> QED BY <1>8, <1>5, ControlMid, <1>3, <2>1, <1>2 DEF Kept, Taken, Answered, TuiFits, Queues, Mine, CatAnswer
<1>11. HubInv'
  <2>2. \A p \in SbPane : hub.acked[p] <= Watched(a)[p]
    <3> SUFFICES ASSUME NEW p \in SbPane PROVE hub.acked[p] <= Watched(a)[p] OBVIOUS
    <3>2. hub.acked[p] <= seen[p] /\ seen[p] <= Watched(a)[p] BY <1>8 DEF SbInv, HubInv
    <3> QED BY <1>2, <1>8, <3>2 DEF SbInv, HubInv, HubFits
  <2> QED BY <1>8, <1>3, <2>2 DEF SbInv, HubInv, run_loop
<1> QED BY <1>3, <1>7, <1>8, <1>1, <1>2, <1>9, OneTui, <1>11 DEF SbInv, FeedInv, Framed, run_loop

(* A worker takes a request: what is left, and what it answers.              *)
ServedIn(all, t, w, j, a) == [all EXCEPT ![t].jobs[w] = j, ![t].answers[w] = a]

LEMMA ServedAt ==
    ASSUME TuisInv, NEW t \in Tui, NEW w \in Worker, NEW j, NEW a
    PROVE  ServedIn(tui, t, w, j, a) = [tui EXCEPT ![t] = Served(tui[t], w, j, a)]
<1>1. PICK s : s = tui[t] OBVIOUS
<1>3. [s EXCEPT !.jobs[w] = j].answers = s.answers BY <1>1 DEF TuiShaped, TuiFields, TuisInv, TuiFits
<1> QED BY <1>1, <1>3 DEF TuisInv, Served, ServedIn

LEMMA RequestFits ==
    ASSUME NEW t, NEW s, NEW cats, NEW sn, TuiFits(t, s, cats, sn), NEW w \in Worker, s.jobs[w] # <<>>
    PROVE  LET q == RequestOf(w, s.jobs[w])
               rest == RestOf(w, s.jobs[w])
           IN  /\ w = "ack" => q \in ShownReq(sn) /\ rest \in Seq(ShownReq(sn))
               /\ w = "cat" => q \in Nat /\ rest \in Seq(Nat)
  BY DEF TuiFits, Queues, RequestOf, RestOf

LEMMA ServeStep == ASSUME SbInv, NEW t \in Tui, NEW w \in Worker, Serve(t, w) PROVE SbInv' /\ AllKept
<1>1. PICK s, q, j, fine, e :
        /\ s = tui[t] /\ q = RequestOf(w, s.jobs[w]) /\ j = RestOf(w, s.jobs[w])
        /\ e = Applied(hub, w, t, q) /\ fine = (w = "mark" => e # hub)
  OBVIOUS
<1>2. PICK a : a = Append(s.answers[w], Answer(w, q, fine)) OBVIOUS
<1>3. s.jobs[w] # <<>> /\ hub' = e /\ UNCHANGED <<feed, seen, spent>> BY <1>1 DEF Serve
<1>4. tui' = [tui EXCEPT ![t].jobs[w] = j, ![t].answers[w] = a]
  BY <1>1, <1>2 DEF Serve, SbInv, TuisInv, TuiFits, TuiShaped, TuiFields
<1>5. tui' = [tui EXCEPT ![t] = Served(s, w, j, a)]
  <2>1. ServedIn(tui, t, w, j, a) = [tui EXCEPT ![t] = Served(tui[t], w, j, a)] BY ServedAt DEF SbInv
  <2>2. s = tui[t] BY <1>1
  <2> QED BY ONLY <1>4, <2>1, <2>2 DEF ServedIn
<1>6. PICK cats, sn : cats = hub.cats /\ sn = seen OBVIOUS
<1>7. TuiFits(t, s, cats, sn) /\ sn \in [SbPane -> Nat] BY <1>1, <1>6 DEF SbInv, TuisInv, HubInv
<1>8. /\ w = "ack" => q \in ShownReq(sn) /\ j \in Seq(ShownReq(sn))
      /\ w = "cat" => q \in Nat /\ j \in Seq(Nat)
  BY <1>1, <1>3, <1>7, RequestFits
<1>9. /\ HubFits(e) /\ cats \subseteq e.cats /\ \A p \in SbPane : e.acked[p] <= sn[p]
      /\ w = "cat" /\ q # 0 => <<t, q>> \in e.cats
  BY <1>6, <1>8, <1>1, <1>7, AppliedFits DEF SbInv, HubInv
<1>10. w = "cat" => a \in Seq(CatAnswer(t, e.cats))
  <2> SUFFICES ASSUME w = "cat" PROVE a \in Seq(CatAnswer(t, e.cats)) OBVIOUS
  <2>1. PICK f : f = s.answers["cat"] OBVIOUS
  <2>3. CatAnswer(t, cats) \subseteq CatAnswer(t, e.cats) BY <1>9 DEF CatAnswer
  <2>4. f \in Seq(CatAnswer(t, e.cats)) BY <1>7, <2>1, <2>3, SeqGrows DEF TuiFits, Queues
  <2>6. q \in Nat /\ (q # 0 => <<t, q>> \in e.cats) BY <1>8, <1>9
  <2>7. [id |-> q, ok |-> TRUE] \in CatAnswer(t, e.cats) BY ONLY <2>6 DEF CatAnswer
  <2>8. a = Append(f, [id |-> q, ok |-> TRUE]) BY <1>2, <2>1, <1>1 DEF Answer
  <2> QED BY ONLY <2>4, <2>7, <2>8, AppendProperties
<1>11. PICK r : r = Served(s, w, j, a) OBVIOUS
<1>12. TuiFits(t, r, e.cats, sn) /\ r.dialog = s.dialog /\ r.ready = s.ready
  <2>1. PICK c2a : c2a = e.cats OBVIOUS
  <2>2. /\ cats \subseteq c2a
        /\ (w = "ack" => j \in Seq(ShownReq(sn)))
        /\ (w = "cat" => j \in Seq(Nat) /\ a \in Seq(CatAnswer(t, c2a)))
        /\ w \in Worker /\ TuiFits(t, s, cats, sn) /\ sn \in [SbPane -> Nat]
    BY <1>7, <1>8, <1>9, <1>10, <2>1
  <2>3. StillFits(t, s, Served(s, w, j, a), c2a, sn) BY ONLY <2>2, ServedFits
  <2> QED BY <1>11, <2>1, <2>3 DEF StillFits
<1>14. TuisInv' /\ AllKept
  <2>1. tui' = [tui EXCEPT ![t] = r] /\ hub.cats \subseteq hub'.cats /\ TuiFits(t, r, hub'.cats, seen')
    BY <1>3, <1>5, <1>6, <1>9, <1>11, <1>12
  <2>2. seen \in [SbPane -> Nat] /\ seen' \in [SbPane -> Nat] /\ \A p \in SbPane : seen[p] <= seen'[p]
    BY <1>3, <1>6, <1>7
  <2> QED BY <1>1, <1>12, KeptSame, <2>1, <2>2, OneTui DEF SbInv
<1> QED BY <1>3, <1>14, <1>6, <1>7, <1>9 DEF SbInv, FeedInv, HubInv

LEMMA FailStep == ASSUME SbInv, NEW t \in Tui, NEW w \in Worker, ServeFails(t, w) PROVE SbInv' /\ AllKept
<1>0. PICK n \in Failing(w, tui[t].jobs[w]) :
        LET queue == tui[t].jobs[w]
            then  == AfterFailure(w, RestOf(w, queue))
            after == Applied(hub, w, t, queue[n])
            written == IF w \in {"pref", "pin"} THEN Saved(after) ELSE saved
        IN  /\ \E out \in {<<hub, saved>>, <<hub, written>>, <<after, written>>} :
                  hub' = out[1] /\ saved' = out[2]
            /\ tui' = [tui EXCEPT ![t].jobs[w] = then.jobs,
                                  ![t].answers[w] = Append(@, Answer(w, queue[n], FALSE)) \o then.answers]
  BY Zenon DEF ServeFails
<1>1. PICK s, q, rest, j, g, e :
        /\ s = tui[t] /\ q = s.jobs[w][n] /\ rest = RestOf(w, s.jobs[w])
        /\ e = Applied(hub, w, t, q)
        /\ j = AfterFailure(w, rest).jobs /\ g = AfterFailure(w, rest).answers
  OBVIOUS
<1>21. hub' \in {hub, e} BY <1>0, <1>1
<1>22. tui' = [tui EXCEPT ![t].jobs[w] = j, ![t].answers[w] = Append(@, Answer(w, q, FALSE)) \o g]
  BY <1>0, <1>1
<1>20. w \in {"ack", "cat"} => q = RequestOf(w, s.jobs[w]) BY <1>0, <1>1 DEF Failing, RequestOf
<1>2. PICK a : a = Append(s.answers[w], Answer(w, q, FALSE)) \o g OBVIOUS
<1>3. s.jobs[w] # <<>> /\ hub' \in {hub, e} /\ UNCHANGED <<feed, seen>> /\ Spend("loss") BY <1>1, <1>21 DEF ServeFails
<1>4. tui' = [tui EXCEPT ![t].jobs[w] = j, ![t].answers[w] = a]
  BY <1>1, <1>2, <1>22 DEF SbInv, TuisInv, TuiFits, TuiShaped, TuiFields
<1>5. tui' = [tui EXCEPT ![t] = Served(s, w, j, a)]
  <2>1. ServedIn(tui, t, w, j, a) = [tui EXCEPT ![t] = Served(tui[t], w, j, a)] BY ServedAt DEF SbInv
  <2>2. s = tui[t] BY <1>1
  <2> QED BY ONLY <1>4, <2>1, <2>2 DEF ServedIn
<1>6. PICK cats, sn : cats = hub.cats /\ sn = seen OBVIOUS
<1>7. TuiFits(t, s, cats, sn) /\ sn \in [SbPane -> Nat] BY <1>1, <1>6 DEF SbInv, TuisInv, HubInv
<1>8. /\ w = "ack" => q \in ShownReq(sn) /\ rest \in Seq(ShownReq(sn))
      /\ w = "cat" => q \in Nat /\ rest \in Seq(Nat)
  BY <1>1, <1>3, <1>7, <1>20, RequestFits
<1>9. HubFits(hub') /\ cats \subseteq hub'.cats /\ \A p \in SbPane : hub'.acked[p] <= sn[p]
  BY <1>6, <1>8, <1>1, <1>7, AppliedFits, <1>3 DEF SbInv, HubInv
<1>10. PICK c2a : c2a = hub'.cats OBVIOUS
<1>12. w = "cat" => j \in Seq(Nat) /\ a \in Seq(CatAnswer(t, c2a))
  <2> SUFFICES ASSUME w = "cat" PROVE j \in Seq(Nat) /\ a \in Seq(CatAnswer(t, c2a)) OBVIOUS
  <2>1. j = <<>> /\ g = [i \in DOMAIN rest |-> Answer("cat", rest[i], FALSE)] BY <1>1 DEF AfterFailure
  <2>2. PICK f : f = s.answers["cat"] OBVIOUS
  <2>4. CatAnswer(t, cats) \subseteq CatAnswer(t, c2a) BY <1>9, <1>10 DEF CatAnswer
  <2>5. f \in Seq(CatAnswer(t, c2a)) BY <1>7, <2>2, <2>4, SeqGrows DEF TuiFits, Queues
  <2>8. g \in Seq(CatAnswer(t, c2a))
    <3>1. Len(rest) \in Nat /\ DOMAIN rest = 1..Len(rest) /\ \A i \in 1..Len(rest) : rest[i] \in Nat BY <1>8
    <3>3. g \in [1..Len(rest) -> CatAnswer(t, c2a)] BY <2>1, <3>1 DEF Answer, CatAnswer
    <3> QED BY <3>1, <3>3
  <2>9. PICK h : h = Append(f, Answer("cat", q, FALSE)) OBVIOUS
  <2>10. h \in Seq(CatAnswer(t, c2a)) BY <2>5, <1>8, <2>9, AppendProperties DEF Answer, CatAnswer
  <2>12. a = h \o g BY <1>2, <2>2, <2>9
  <2> QED BY <2>1, <2>8, <2>10, ConcatProperties, <2>12
<1>13. PICK r : r = Served(s, w, j, a) OBVIOUS
<1>14. TuiFits(t, r, c2a, sn) /\ r.dialog = s.dialog /\ r.ready = s.ready
  <2>1. /\ cats \subseteq c2a
        /\ (w = "ack" => j \in Seq(ShownReq(sn)))
        /\ (w = "cat" => j \in Seq(Nat) /\ a \in Seq(CatAnswer(t, c2a)))
        /\ w \in Worker /\ TuiFits(t, s, cats, sn) /\ sn \in [SbPane -> Nat]
    BY <1>7, <1>9, <1>10, <1>1, <1>8, <1>12 DEF AfterFailure
  <2>2. StillFits(t, s, Served(s, w, j, a), c2a, sn) BY ONLY <2>1, ServedFits
  <2> QED BY <1>13, <2>2 DEF StillFits
<1>16. TuisInv' /\ AllKept
  <2>1. tui' = [tui EXCEPT ![t] = r] /\ hub.cats \subseteq hub'.cats /\ TuiFits(t, r, hub'.cats, seen')
    BY <1>3, <1>5, <1>6, <1>9, <1>10, <1>13, <1>14
  <2>2. seen \in [SbPane -> Nat] /\ seen' \in [SbPane -> Nat] /\ \A p \in SbPane : seen[p] <= seen'[p]
    BY <1>3, <1>6, <1>7
  <2> QED BY <1>1, <1>14, KeptSame, <2>1, <2>2, OneTui DEF SbInv
<1> QED BY <1>3, <1>16, <1>6, <1>7, <1>9 DEF SbInv, FeedInv, HubInv, SpentRec, Spend

LEMMA SbInitInv == ASSUME TuiInit PROVE SbInv
<1>2. FeedInv BY DEF TuiInit, FeedInv, FeedFits, SnapFits
<1>3. PICK s : s = NewTui OBVIOUS
<1>4. TuiShaped(s) BY <1>3 DEF NewTui, TuiShaped, TuiFields
<1>6. s.dialog \in Dialogs BY <1>3 DEF Dialogs, NewTui, Worker
<1>7. \A t \in Tui : TuiFits(t, s, hub.cats, seen)
  BY <1>4, <1>3, <1>6 DEF TuiFits, SnapFits, Queues, OnScreen, NewTui, Worker
<1>8. TuisInv BY <1>3, <1>7 DEF TuiInit, TuisInv
<1> QED BY <1>2, <1>8 DEF TuiInit, SbInv, SpentRec, HubInv, HubFits, HubFields, NewDaemon

LEMMA SbStepInv == ASSUME SbInv, TuiNext PROVE SbInv' /\ AllKept
  BY PublishStep, LoopStep, EventStep, DropStep, ServeStep, FailStep, WorldStep, RestartStep DEF QuietTurn, SbInv,
    ControlTurn, Spend, SpentRec, TuiNext

LEMMA SbStutters == ASSUME SbInv, UNCHANGED tuiVars PROVE SbInv' BY DEF SbInv, HubInv, FeedInv, TuisInv, tuiVars

(* What the module promises follows.                                         *)
LEMMA SbSound == ASSUME SbInv PROVE SidebarSound
  BY DEF SbInv, TuisInv, TuiFits, OnScreen, DrawnIsCurrent, HubInv, AckOnlyShown, HubFits, PinsArePanes,
    SidebarSound

-----------------------------------------------------------------------------
(* The parts together: one of them takes steps, so every invariant stays.    *)

ClientsInv == InputInv /\ ClientInv /\ SbInv /\ AcInv /\ KillInv /\ SessInv

LEMMA ClientsInitInv == ASSUME ClientsInit PROVE ClientsInv
  BY InputInitInv, ClientInitInv, SbInitInv, AcInitInv, KillInitInv, SessInitInv DEF ClientsInit, ClientsInv

(* What a composed step is for each part.                                    *)
LEMMA PartSteps ==
    ASSUME [ClientsNext]_clientsVars
    PROVE  /\ part' = part
           /\ InputNext \/ UNCHANGED inputVars
           /\ ClientNext \/ UNCHANGED clientVars
           /\ TuiNext \/ UNCHANGED tuiVars
           /\ AcNext \/ UNCHANGED acVars
           /\ KillNext \/ UNCHANGED killVars
           /\ SessionsNext \/ UNCHANGED sessionVars
  BY DEF ClientsNext, RequestStep, DeadlineStep, SidebarStep, SessionStep, clientsVars

LEMMA ClientsStepInv == ASSUME ClientsInv, [ClientsNext]_clientsVars PROVE ClientsInv'
<1>3. SbInv' BY PartSteps, SbStepInv, SbStutters DEF ClientsInv
<1>4. AcInv' BY PartSteps, AcStepInv, AcStutters DEF ClientsInv
<1>5. KillInv' BY PartSteps, KillStepInv, KillStutters DEF ClientsInv
<1>6. SessInv' BY PartSteps, SessStepInv, SessStutters DEF ClientsInv
<1> QED
  BY PartSteps, InputStepInv, InputStutters, ClientStepInv, ClientStutters, <1>3, <1>4, <1>5, <1>6 DEF ClientsInv

LEMMA ClientsInvariant == ClientsSpec => []ClientsInv BY ClientsInitInv, ClientsStepInv, PTL DEF ClientsSpec

(* The answers of the commands are true: of the keys a call typed, of the    *)
(* one Operation of a request, of the configuration a command acts on.       *)
THEOREM CommandsAreHonest == ClientsSpec => []CommandsHonest
<1>1. ClientsInv => CommandsHonest BY ReportsAreHonest, RequestIsSound, AcSound DEF ClientsInv, CommandsHonest
<1> QED BY <1>1, ClientsInvariant, PTL

(* A connected sidebar reads its keys against the rows it has drawn, only    *)
(* questions that were shown are acknowledged and only panes are pinned;     *)
(* Kill Server leaves nothing behind; a switch lands in its category.        *)
THEOREM SessionsAreHonest == ClientsSpec => []SessionsHonest
<1>1. ClientsInv => SessionsHonest BY SbSound, KillSoundHere, SessInvSound DEF ClientsInv, SessionsHonest
<1> QED BY <1>1, ClientsInvariant, PTL

(* A known Operation is only observed.                                       *)
LEMMA OnlyObserves == ClientsSpec => KnownOnlyObserves
<1>1. ASSUME ClientsInv, [ClientsNext]_clientsVars
      PROVE  [file.phase = "known" => sends' = sends /\ file' = file]_clientVars
  BY <1>1, PartSteps, KnownObserves DEF ClientsInv
<1> QED BY <1>1, ClientsInvariant, PTL DEF ClientsSpec, KnownOnlyObserves

(* No command takes over the daemon of another environment or a busy one.    *)
TakesOverNothing ==
    \A c \in Caller : (require_active_config(c) /\ running' # running) =>
        /\ ~running'.up => running.exe = "new" /\ running.env = CallerEnv[c] /\ ~running.busy
        /\ running'.up => AtStep(c, "spawn")

LEMMA TakesOver == ClientsSpec => NeverTakenOver
<1>1. ASSUME ClientsInv PROVE TakesOverNothing BY <1>1, NoTakeover DEF ClientsInv, TakesOverNothing
<1>2. ASSUME ClientsInv, [ClientsNext]_clientsVars PROVE [TakesOverNothing]_acVars BY <1>1, <1>2
<1> QED BY <1>2, ClientsInvariant, PTL DEF ClientsSpec, NeverTakenOver, TakesOverNothing

(* A sidebar keeps what its user typed.                                      *)
LEMMA KeepsInput == ClientsSpec => UserInputKept
<1>1. ASSUME ClientsInv, [ClientsNext]_clientsVars PROVE [AllKept]_tuiVars
  BY <1>1, PartSteps, SbStepInv DEF ClientsInv
<1> QED BY <1>1, ClientsInvariant, PTL DEF ClientsSpec, UserInputKept, AllKept, Kept

(* A kill never throws the client that asks for it out of tmux.              *)
SparesClients ==
    \A c \in SClient : (KillOne(c) /\ attached[c] # 0 /\ attached'[c] = 0) => nav[c].spared = {}

LEMMA KeepsClients == ClientsSpec => ClientKeepsSession
<1>1. ASSUME ClientsInv PROVE SparesClients BY <1>1, KillerKeepsSession DEF ClientsInv, SparesClients
<1>2. ASSUME ClientsInv, [ClientsNext]_clientsVars PROVE [SparesClients]_sessionVars BY <1>1, <1>2
<1> QED BY <1>2, ClientsInvariant, PTL DEF ClientsSpec, ClientKeepsSession, SparesClients

(* What no step does: start a known Operation once more, take over another   *)
(* terminal's daemon, drop a user's input, throw a client out of tmux.       *)
THEOREM NoStepHarms == ClientsSpec => ClientsStep
  BY OnlyObserves, TakesOver, KeepsInput, KeepsClients DEF ClientsStep
=============================================================================
