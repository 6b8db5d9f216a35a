----------------------- MODULE DaemonLifecycleProofs -----------------------
(* Proofs about DaemonLifecycle, for any sets of commands and daemons and  *)
(* any bounds: no cleanup takes the socket of a daemon that is up, a        *)
(* shutdown reported as complete left no daemon up, and a reload does not   *)
(* bring back a daemon that a disable has stopped.                          *)
EXTENDS DaemonLifecycle, TLAPS

-----------------------------------------------------------------------------
(* Why the socket is safe.                                                  *)

(* From bind to return a daemon holds the instance lock of its socket.      *)
Holding == {"bound", "live", "serving", "stopping", "unlinked", "cleared"}
LockHeld == \A d \in Daemon : daemon[d] \in Holding => instance = d

(* Until it unlinks it itself, the socket at the path is its own.           *)
SocketKept ==
    \A d \in Daemon : daemon[d] \in {"bound", "live", "serving", "stopping"} => socket = d

(* A command removes a stale socket only while it holds the instance lock.  *)
StaleGuarded == \A c \in Client : client[c].at = "stale" => instance = c

(* What a command reaps or unlinks is the socket of a process it has seen   *)
(* dead, and the dead do not come back.                                     *)
ReapsTheDead ==
    \A c \in Client :
        /\ client[c].at = "reap_socket" =>
              client[c].child \in Daemon /\ daemon[client[c].child] = "exited"
        /\ client[c].at = "unlink" =>
              client[c].saw \in Daemon /\ daemon[client[c].saw] = "exited"

SocketInv == LockHeld /\ SocketKept /\ StaleGuarded /\ ReapsTheDead

-----------------------------------------------------------------------------
(* Why a reload honours a disable.                                          *)

(* A disable holds the start lock from its first change to its end.  Unless *)
(* an enable overlaps it, the marker stays set from then on.                *)
DisableStep == {"lock", "set_marker", "set_mode", "expect", "ask", "wait", "stuck", "kill",
                "unlink", "clear"}
NoEnable == \A x \in Client : client[x].cmd # "enable"
DisableHolds ==
    \A c \in Client : client[c].cmd = "disable" =>
        /\ client[c].at \in DisableStep
        /\ client[c].at # "lock" => startLock = c
        /\ client[c].at # "lock" /\ client[c].stage = 0 =>
              NoEnable /\ (client[c].at # "set_marker" => marker)

(* A reload past its lock holds the lock, and has yet to look again.        *)
ReloadStep == {"read_marker", "read_mode", "lock"}
ReloadHolds ==
    \A c \in Client : client[c].cmd = "reload" =>
        /\ client[c].stage = 0 => client[c].at \in ReloadStep
        /\ client[c].stage # 0 => startLock = c

(* Once a disable has succeeded the marker is set, nothing is about to      *)
(* remove it, and a reload gets no further than its second look.            *)
OffHolds ==
    off => /\ marker /\ NoEnable
           /\ \A c \in Client : client[c].cmd = "reload" =>
                 client[c].at \in ReloadStep /\ (client[c].stage # 0 => client[c].at = "read_marker")

(* Only an enable comes to remove the marker.                               *)
OnlyEnableUnsets == \A c \in Client : client[c].at = "unset_marker" => client[c].cmd = "enable"

ModeInv == DisableHolds /\ ReloadHolds /\ OffHolds /\ OnlyEnableUnsets

-----------------------------------------------------------------------------
(* Types.                                                                   *)

Waiting == [cmd : Command \cup {None}, at : ClientStep, saw : Daemon \cup {None},
            child : Daemon \cup {None}, answer : {"none", "no", "yes", "error"}, stage : 0..2]

(* A daemon's own steps.                                                    *)
LEMMA DaemonTypes == ASSUME TypeOK, NEW d \in Daemon, DaemonStepOf(d) PROVE TypeOK'
<1> USE DEF TypeOK, DaemonStep, DaemonAt, Without, files, locks
<1>1. CASE AcquireLease(d) BY <1>1 DEF AcquireLease
<1>2. CASE BindListener(d) BY <1>2 DEF BindListener, Alive
<1>3. CASE PostBind(d) BY <1>3 DEF PostBind
<1>4. CASE Bootstrap(d) BY <1>4 DEF Bootstrap
<1>5. CASE Stops(d) BY <1>5 DEF Stops
<1>6. CASE UnlinkSocket(d) BY <1>6 DEF UnlinkSocket
<1>7. CASE ClearRecord(d) BY <1>7 DEF ClearRecord
<1>8. CASE ReturnFromServer(d) BY <1>8 DEF ReturnFromServer
<1>9. CASE LastUpdate(d) BY <1>9 DEF LastUpdate
<1>10. CASE Exit(d) BY <1>10 DEF Exit
<1>11. CASE Crash(d) BY <1>11 DEF Crash, Gone, Alive
<1>12. QED BY <1>1, <1>2, <1>3, <1>4, <1>5, <1>6, <1>7, <1>8, <1>9, <1>10, <1>11 DEF DaemonStepOf

(* How a command moves, where more than its program counter changes.        *)
LEMMA EndType ==
    ASSUME client \in [Client -> Waiting], NEW c \in Client, End(c)
    PROVE  client' \in [Client -> Waiting]
  BY DEF ClientStep, End, Idle, Waiting

(* An error ends a command, or turns an enable back.                        *)
LEMMA FailsType ==
    ASSUME client \in [Client -> Waiting], NEW c \in Client, Fails(c)
    PROVE  client' \in [Client -> Waiting]
<1>1. CASE End(c) BY <1>1, EndType
<1>2. CASE ~End(c)
  <2> DEFINE v == client[c]
             n == 1
             w == [v EXCEPT !.at = "set_marker", !.stage = n, !.child = None]
  <2>3. v \in Waiting /\ n \in 0..2 OBVIOUS
  <2>4. w \in Waiting
    <3> HIDE DEF v, n
    <3> QED BY <2>3 DEF Waiting, ClientStep
  <2>5. QED BY <1>2, <2>4 DEF Fails, Waiting
<1>3. QED BY <1>1, <1>2

(* A shutdown that went well.                                               *)
LEMMA StoppedType ==
    ASSUME client \in [Client -> Waiting], NEW c \in Client, Stopped(c)
    PROVE  client' \in [Client -> Waiting]
<1>1. CASE End(c) BY <1>1, EndType
<1>2. CASE ~End(c)
  <2> DEFINE v == client[c]
             n == IF v.cmd = "reload" THEN 2 ELSE 1
             w == [v EXCEPT !.at = AfterStop(c), !.answer = "yes", !.saw = None, !.stage = n]
  <2>2. AfterStop(c) \in {"read_marker", "undo_mode", "idle"} BY Zenon DEF AfterStop
  <2>4. v \in Waiting /\ n \in 0..2 OBVIOUS
  <2>5. w \in Waiting
    <3> HIDE DEF v, n
    <3> QED BY <2>2, <2>4 DEF Waiting, ClientStep
  <2>6. QED BY <1>2, <2>5 DEF Stopped, Waiting
<1>3. QED BY <1>1, <1>2

(* A new command.                                                           *)
LEMMA BeginType ==
    ASSUME client \in [Client -> Waiting], NEW c \in Client, Begin(c)
    PROVE  client' \in [Client -> Waiting]
<1>1. PICK k \in Command : client' = [x \in Client |->
                IF x = c THEN [Idle EXCEPT !.cmd = k, !.at = FirstStep[k]]
                ELSE IF k = "enable" /\ client[x].cmd = "disable" THEN [client[x] EXCEPT !.stage = 1]
                ELSE client[x]]
  BY DEF Begin
<1>2. [Idle EXCEPT !.cmd = k, !.at = FirstStep[k]] \in Waiting
  <2> DEFINE i == Idle
             f == FirstStep[k]
  <2>1. f \in ClientStep BY ConstantsAssumption DEF FirstStep, ClientStep, ConstantsAssumption, Commands
  <2>3. i \in Waiting BY DEF Idle, Waiting, ClientStep
  <2> HIDE DEF i, f
  <2>5. QED BY <2>1, <2>3 DEF i, f, Waiting
<1>3. ASSUME NEW x \in Client PROVE [client[x] EXCEPT !.stage = 1] \in Waiting BY DEF Waiting
<1>4. QED BY <1>1, <1>2, <1>3

(* A command that gets the start lock.                                      *)
LEMMA LockType ==
    ASSUME client \in [Client -> Waiting], NEW c \in Client, Lock(c)
    PROVE  client' \in [Client -> Waiting]
<1> DEFINE w == [client[c] EXCEPT !.at = AfterLock(c), !.stage = LockStage(c)]
<1>1. AfterLock(c) \in ClientStep BY DEF AfterLock, ClientStep
<1>2. LockStage(c) \in 0..2 BY DEF LockStage, Waiting
<1>3. w \in Waiting BY <1>1, <1>2 DEF Waiting
<1>5. QED BY <1>3 DEF Lock, AtStage, Waiting

(* A shutdown that failed.                                                  *)
LEMMA StopFailsType ==
    ASSUME client \in [Client -> Waiting], NEW c \in Client, StopFails(c)
    PROVE  client' \in [Client -> Waiting]
  BY EndType DEF ClientStep, StopFails, Waiting

(* The end of a shutdown nobody answered.                                   *)
LEMMA StuckType ==
    ASSUME client \in [Client -> Waiting], NEW c \in Client, Stuck(c)
    PROVE  client' \in [Client -> Waiting]
  BY StoppedType, StopFailsType DEF ClientStep, At, Waiting, Stuck

(* A command's own steps.                                                   *)
LEMMA ClientTypes ==
    ASSUME TypeOK, NEW c \in Client, ClientStepOf(c) PROVE TypeOK'
<1>0. client \in [Client -> Waiting] BY DEF TypeOK, Waiting
<1>1. CASE Begin(c)
  <2>1. client' \in [Client -> Waiting] BY <1>0, <1>1, BeginType DEF Begin
  <2>2. QED BY <1>1, <2>1 DEF Begin, TypeOK, Waiting, files, locks
<1>2. CASE ReadMarker(c)
  BY <1>2 DEF ReadMarker, TypeOK, ClientStep, DaemonStep, At, AtStage, End, Unlocked, Fails, Idle, Without, files,
    locks
<1>3. CASE ReadMode(c)
  BY <1>3 DEF ReadMode, AfterMode, TypeOK, ClientStep, DaemonStep, At, AtStage, End, Unlocked, Fails, Idle, Without,
    files, locks
<1>4. CASE Probe(c)
  BY <1>4 DEF Probe, FoundLive, TypeOK, ClientStep, DaemonStep, At, AtStage, End, Unlocked, Fails, Idle, Without,
    files, locks
<1>5. CASE Lock(c) BY <1>0, <1>5, LockType DEF Lock, TypeOK, Waiting, files, locks
<1>6. CASE ProbeAgain(c)
  BY <1>6 DEF ProbeAgain, FoundLive, TypeOK, ClientStep, DaemonStep, At, AtStage, End, Unlocked, Fails, Idle,
    Without, files, locks
<1>7. CASE Guard(c)
  BY <1>7 DEF Guard, TypeOK, ClientStep, DaemonStep, At, AtStage, End, Unlocked, Fails, Idle, Without, files, locks
<1>8. CASE RemoveStale(c)
  BY <1>8 DEF RemoveStale, TypeOK, ClientStep, DaemonStep, At, AtStage, End, Unlocked, Fails, Idle, Without, files,
    locks
<1>9. CASE Spawn(c)
  <2>2. PICK d \in Daemon : client' = [client EXCEPT ![c].at = "child", ![c].child = d] BY <1>9 DEF Spawn
  <2> DEFINE v == client[c]
             w == [v EXCEPT !.at = "child", !.child = d]
  <2>4. v \in Waiting BY <1>0
  <2>5. w \in Waiting
    <3> HIDE DEF v
    <3> QED BY <2>4 DEF Waiting, ClientStep
  <2>6. client' \in [Client -> Waiting] BY <1>0, <2>2, <2>5 DEF Waiting
  <2>7. QED BY <1>9, <2>6 DEF Spawn, TypeOK, Waiting, DaemonStep, files, locks
<1>10. CASE ChildExited(c)
  BY <1>10 DEF ChildExited, TypeOK, ClientStep, DaemonStep, At, AtStage, End, Unlocked, Fails, Idle, Without, files,
    locks
<1>11. CASE KillChild(c)
  BY <1>11 DEF KillChild, Gone, Alive, TypeOK, ClientStep, DaemonStep, At, AtStage, End, Unlocked, Fails, Idle,
    Without, files, locks
<1>12. CASE ReapSocket(c)
  BY <1>12 DEF ReapSocket, TypeOK, ClientStep, DaemonStep, At, AtStage, End, Unlocked, Fails, Idle, Without, files,
    locks
<1>13. CASE ReapRecord(c)
  BY <1>13 DEF ReapRecord, TypeOK, ClientStep, DaemonStep, At, AtStage, End, Unlocked, Fails, Idle, Without, files,
    locks
<1>14. CASE ServingNow(c)
  BY <1>14 DEF ServingNow, TypeOK, ClientStep, DaemonStep, At, AtStage, End, Unlocked, Fails, Idle, Without, files,
    locks
<1>15. CASE KillRecorded(c)
  <2> DEFINE v == client[c]
             p == record.process
             w == [v EXCEPT !.at = "reap_socket", !.child = p]
  <2>0. p \in Daemon \cup {None} BY DEF TypeOK
  <2>4. v \in Waiting BY <1>0
  <2>5. w \in Waiting
    <3> HIDE DEF v, p
    <3> QED BY <2>0, <2>4 DEF Waiting, ClientStep
  <2>7. QED BY <1>15, <1>0, <2>5 DEF KillRecorded, Gone, Without, TypeOK, Waiting, DaemonStep, files, locks
<1>16. CASE GiveUp(c)
  BY <1>16 DEF GiveUp, TypeOK, ClientStep, DaemonStep, At, AtStage, End, Unlocked, Fails, Idle, Without, files,
    locks
<1>17. CASE Expect(c)
  <2> DEFINE v == client[c]
             p == record.process
             w == [v EXCEPT !.at = "ask", !.saw = p]
  <2>0. p \in Daemon \cup {None} BY DEF TypeOK
  <2>4. v \in Waiting BY <1>0
  <2>5. w \in Waiting
    <3> HIDE DEF v, p
    <3> QED BY <2>0, <2>4 DEF Waiting, ClientStep
  <2>7. QED BY <1>17, <1>0, <2>5 DEF Expect, TypeOK, Waiting, files, locks
<1>18. CASE Ask(c)
  BY <1>18 DEF Ask, Answers, TypeOK, ClientStep, DaemonStep, At, AtStage, End, Unlocked, Fails, Idle, Without,
    files, locks
<1>19. CASE WaitStopped(c)
  BY <1>19 DEF WaitStopped, AllGone, RemoveStopped, TypeOK, ClientStep, DaemonStep, At, AtStage, End, Unlocked,
    Fails, Idle, Without, files, locks
<1>20. CASE WaitDeadline(c)
  BY <1>20 DEF WaitDeadline, TypeOK, ClientStep, DaemonStep, At, AtStage, End, Unlocked, Fails, Idle, Without,
    files, locks
<1>21. CASE Stuck(c)
  <2>1. client' \in [Client -> Waiting] BY <1>0, <1>21, StuckType DEF Stuck
  <2>2. QED
    BY <1>21, <2>1 DEF Stuck, TypeOK, Waiting, files, locks, Stopped, StopFails, RemoveStopped, At, End, Unlocked,
      Without
<1>22. CASE Kill(c)
  <2>1. CASE StopFails(c) /\ UNCHANGED <<lease, daemon>>
    BY <1>0, <2>1, StopFailsType, <1>22 DEF Kill, StopFails, End, Unlocked, Without, TypeOK, Waiting, files, locks
  <2>2. CASE Gone(record.process) /\ UNCHANGED startLock
             /\ client' = [client EXCEPT ![c].at = "unlink", ![c].saw = record.process]
    <3> DEFINE v == client[c]
               p == record.process
               w == [v EXCEPT !.at = "unlink", !.saw = p]
    <3>2. v \in Waiting /\ p \in Daemon \cup {None} /\ "unlink" \in ClientStep BY <1>0 DEF TypeOK, ClientStep
    <3>3. w \in Waiting
      <4> HIDE DEF v, p
      <4> QED BY <3>2 DEF Waiting
    <3>5. QED BY <1>22, <2>2, <1>0, <3>3 DEF Kill, Gone, Without, TypeOK, Waiting, DaemonStep, files, locks
  <2>3. QED BY <1>22, <2>1, <2>2 DEF Kill
<1>23. CASE Unlink(c)
  <2>2. client' \in [Client -> Waiting] BY <1>0, <1>23, StopFailsType DEF Unlink, At, Waiting, ClientStep
  <2>3. QED
    BY <1>23, <2>2 DEF Unlink, RemoveStopped, StopFails, At, End, Unlocked, Without, TypeOK, Waiting, files, locks
<1>24. CASE Clear(c)
  BY <1>0, <1>24, StoppedType DEF Clear, TypeOK, Waiting, files, locks, Stopped, End, Unlocked, Without
<1>25. CASE SetMarker(c)
  <2>2. client' \in [Client -> Waiting] BY <1>0, <1>25, EndType DEF SetMarker, At, Waiting, ClientStep
  <2>3. QED BY <1>25, <2>2 DEF SetMarker, End, Unlocked, Without, TypeOK, Waiting, files, locks
<1>26. CASE SetMode(c)
  BY <1>26 DEF SetMode, NewMode, TypeOK, ClientStep, DaemonStep, At, AtStage, End, Unlocked, Fails, Idle, Without,
    files, locks
<1>27. CASE UnsetMarker(c)
  <2>2. client' \in [Client -> Waiting] BY <1>0, <1>27, FailsType DEF UnsetMarker, At, Waiting, ClientStep
  <2>3. QED BY <1>27, <2>2 DEF UnsetMarker, Fails, End, Unlocked, Without, TypeOK, Waiting, files, locks
<1>28. CASE UnsetMode(c)
  BY <1>28 DEF UnsetMode, TypeOK, ClientStep, DaemonStep, At, AtStage, End, Unlocked, Fails, Idle, Without, files,
    locks
<1>29. CASE UndoMode(c)
  BY <1>29 DEF UndoMode, TypeOK, ClientStep, DaemonStep, At, AtStage, End, Unlocked, Fails, Idle, Without, files,
    locks
<1>30. CASE Interrupt(c)
  BY <1>30 DEF Interrupt, TypeOK, ClientStep, DaemonStep, At, AtStage, End, Unlocked, Fails, Idle, Without, files,
    locks
<1>31. QED
  BY <1>1, <1>2, <1>3, <1>4, <1>5, <1>6, <1>7, <1>8, <1>9, <1>10, <1>11, <1>12, <1>13, <1>14, <1>15, <1>16, <1>17,
    <1>18, <1>19, <1>20, <1>21, <1>22, <1>23, <1>24, <1>25, <1>26, <1>27, <1>28, <1>29, <1>30 DEF ClientStepOf

-----------------------------------------------------------------------------
(* The socket.                                                              *)

Same(x) == /\ client'[x].cmd = client[x].cmd /\ client'[x].at = client[x].at
           /\ client'[x].saw = client[x].saw /\ client'[x].child = client[x].child

(* A command that begins tells the running disables of its enable, no more. *)
LEMMA BeginLeaves ==
    ASSUME client \in [Client -> Waiting], NEW c \in Client, Begin(c)
    PROVE  /\ \A x \in Client \ {c} : Same(x)
           /\ client'[c].at \in {"read_marker", "lock", "expect", "set_mode"}
<1>1. PICK k \in Command : client' = [x \in Client |->
                IF x = c THEN [Idle EXCEPT !.cmd = k, !.at = FirstStep[k]]
                ELSE IF k = "enable" /\ client[x].cmd = "disable" THEN [client[x] EXCEPT !.stage = 1]
                ELSE client[x]]
  BY DEF Begin
<1>5. client'[c].at = FirstStep[k] BY <1>1 DEF Idle
<1>6. ASSUME NEW x \in Client \ {c} PROVE Same(x) BY <1>1 DEF Same, Waiting
<1>7. QED BY ConstantsAssumption, <1>5, <1>6 DEF FirstStep, Commands, ConstantsAssumption

(* Every other step leaves the other commands alone.                        *)
LEMMA OthersStay ==
    ASSUME client \in [Client -> Waiting], NEW c \in Client, ClientStepOf(c), ~Begin(c)
    PROVE  \A x \in Client \ {c} : client'[x] = client[x]
<1>1. CASE ReadMarker(c) BY <1>1 DEF ReadMarker, At, End, Fails
<1>2. CASE ReadMode(c) BY <1>2 DEF ReadMode, At, End, Fails
<1>3. CASE Probe(c) BY <1>3 DEF Probe, FoundLive, At, End, Fails
<1>4. CASE Lock(c) BY <1>4 DEF Lock, AtStage, At, End, Fails
<1>5. CASE ProbeAgain(c) BY <1>5 DEF ProbeAgain, FoundLive, At, End, Fails
<1>6. CASE Guard(c) BY <1>6 DEF Guard, At, End, Fails
<1>7. CASE RemoveStale(c) BY <1>7 DEF RemoveStale, At, End, Fails
<1>8. CASE Spawn(c) BY <1>8 DEF Spawn, At, End, Fails
<1>9. CASE ChildExited(c) BY <1>9 DEF ChildExited, At, End, Fails
<1>10. CASE KillChild(c) BY <1>10 DEF KillChild, At, End, Fails
<1>11. CASE ReapSocket(c) BY <1>11 DEF ReapSocket, At, End, Fails
<1>12. CASE ReapRecord(c) BY <1>12 DEF ReapRecord, At, End, Fails
<1>13. CASE ServingNow(c) BY <1>13 DEF ServingNow, At, End, Fails
<1>14. CASE KillRecorded(c) BY <1>14 DEF KillRecorded, At, End, Fails
<1>15. CASE GiveUp(c) BY <1>15 DEF GiveUp, At, End, Fails
<1>16. CASE Expect(c) BY <1>16 DEF Expect, At, End, Fails
<1>17. CASE Ask(c) BY <1>17 DEF Ask, At, End, Fails
<1>18. CASE WaitStopped(c) BY <1>18 DEF WaitStopped, At, End, Fails
<1>19. CASE WaitDeadline(c) BY <1>19 DEF WaitDeadline, At, End, Fails
<1>20. CASE Stuck(c) BY <1>20 DEF Stuck, Stopped, StopFails, At, End, Fails
<1>21. CASE Kill(c) BY <1>21 DEF Kill, StopFails, At, End, Fails
<1>22. CASE Unlink(c) BY <1>22 DEF Unlink, StopFails, At, End, Fails
<1>23. CASE Clear(c) BY <1>23 DEF Clear, Stopped, At, End, Fails
<1>24. CASE SetMarker(c) BY <1>24 DEF SetMarker, At, End, Fails
<1>25. CASE SetMode(c) BY <1>25 DEF SetMode, AtStage, At, End, Fails
<1>26. CASE UnsetMarker(c) BY <1>26 DEF UnsetMarker, At, End, Fails
<1>27. CASE UnsetMode(c) BY <1>27 DEF UnsetMode, At, End, Fails
<1>28. CASE UndoMode(c) BY <1>28 DEF UndoMode, At, End, Fails
<1>29. CASE Interrupt(c) BY <1>29 DEF Interrupt, At, End, Fails
<1>30. QED
  BY <1>1, <1>2, <1>3, <1>4, <1>5, <1>6, <1>7, <1>8, <1>9, <1>10, <1>11, <1>12, <1>13, <1>14, <1>15, <1>16, <1>17,
    <1>18, <1>19, <1>20, <1>21, <1>22, <1>23, <1>24, <1>25, <1>26, <1>27, <1>28, <1>29 DEF ClientStepOf

(* In all: what a step leaves the other commands.                           *)
LEMMA SameOthers ==
    ASSUME client \in [Client -> Waiting], NEW c \in Client, ClientStepOf(c)
    PROVE  \A x \in Client \ {c} : Same(x)
  BY BeginLeaves, OthersStay DEF Same

(* Where a move, an end and a failure lead.                                 *)
LEMMA Goes ==
    ASSUME client \in [Client -> Waiting], NEW c \in Client
    PROVE  /\ \A from, to : At(c, from, to) => client'[c].at = to
           /\ \A from, to, n : AtStage(c, from, to, n) => client'[c].at = to
           /\ End(c) => client'[c].at = "idle" /\ instance' = Without(instance, c)
           /\ Fails(c) => client'[c].at \in {"idle", "set_marker"} /\ instance' = Without(instance, c)
           /\ StopFails(c) => client'[c].at \in {"idle", "undo_mode"}
                              /\ instance' \in {instance, Without(instance, c)}
           /\ Stopped(c) => client'[c].at \in {"idle", "undo_mode", "read_marker"}
                            /\ instance' \in {instance, Without(instance, c)}
<1>3. End(c) => client'[c].at = "idle" /\ instance' = Without(instance, c) BY DEF End, Idle, Unlocked
<1>5. StopFails(c) => client'[c].at \in {"idle", "undo_mode"}
                      /\ instance' \in {instance, Without(instance, c)}
  BY <1>3 DEF StopFails, Waiting
<1>6. ASSUME Stopped(c)
      PROVE  client'[c].at \in {"idle", "undo_mode", "read_marker"}
             /\ instance' \in {instance, Without(instance, c)}
  <2>1. AfterStop(c) \in {"idle", "undo_mode", "read_marker"} BY Zenon DEF AfterStop
  <2>2. QED BY <1>3, <1>6, <2>1 DEF Stopped, Waiting
<1>7. QED BY <1>3, <1>5, <1>6 DEF At, Waiting, AtStage, Fails, Unlocked

(* Where the check of the mode leads, by command and stage.                 *)
LEMMA ModeLeads ==
    ASSUME client \in [Client -> Waiting], NEW c \in Client
    PROVE  AfterMode(c) = IF client[c].cmd = "reload"
                            THEN IF client[c].stage = 0 THEN "lock"
                                 ELSE IF client[c].stage = 1 THEN "expect" ELSE "probe_again"
                            ELSE IF client[c].cmd = "start" /\ client[c].stage = 0 THEN "set_mode" ELSE "probe"
<1> DEFINE n == client[c].stage
<1>3. CASE client[c].cmd = "reload" BY <1>3 DEF AfterMode, Waiting
<1>4. CASE client[c].cmd = "start" /\ n = 0 BY <1>4 DEF AfterMode
<1>5. CASE client[c].cmd # "reload" /\ ~(client[c].cmd = "start" /\ n = 0) BY <1>5 DEF AfterMode
<1>6. QED BY <1>3, <1>4, <1>5

(* A command that touches neither sockets nor daemons, and at most gives up *)
(* the instance lock it holds itself.                                       *)
LEMMA Quiet ==
    ASSUME TypeOK, SocketInv, NEW c \in Client,
           \A x \in Client \ {c} : Same(x),
           client'[c].at \notin {"stale", "reap_socket", "unlink"},
           UNCHANGED <<socket, daemon>>, instance' \in {instance, Without(instance, c)}
    PROVE  SocketInv'
  BY ConstantsAssumption DEF SocketInv, LockHeld, SocketKept, Without, ConstantsAssumption, Holding, StaleGuarded,
    Same, ReapsTheDead

(* A daemon's own steps.                                                    *)
LEMMA DaemonKeepsSocket ==
    ASSUME TypeOK, SocketInv, NEW d \in Daemon, DaemonStepOf(d) PROVE SocketInv'
<1> USE ConstantsAssumption
        DEF SocketInv, LockHeld, SocketKept, StaleGuarded, ReapsTheDead, Holding, TypeOK,
            ConstantsAssumption, DaemonAt, Without, files, locks
<1>1. CASE AcquireLease(d) BY <1>1 DEF AcquireLease
<1>2. CASE BindListener(d) BY <1>2 DEF BindListener, Alive
<1>3. CASE PostBind(d) BY <1>3 DEF PostBind
<1>4. CASE Bootstrap(d) BY <1>4 DEF Bootstrap
<1>5. CASE Stops(d) BY <1>5 DEF Stops
<1>6. CASE UnlinkSocket(d) BY <1>6 DEF UnlinkSocket
<1>7. CASE ClearRecord(d) BY <1>7 DEF ClearRecord
<1>8. CASE ReturnFromServer(d) BY <1>8 DEF ReturnFromServer
<1>9. CASE LastUpdate(d) BY <1>9 DEF LastUpdate
<1>10. CASE Exit(d) BY <1>10 DEF Exit
<1>11. CASE Crash(d) BY <1>11 DEF Crash, Gone, Alive
<1>12. QED BY <1>1, <1>2, <1>3, <1>4, <1>5, <1>6, <1>7, <1>8, <1>9, <1>10, <1>11 DEF DaemonStepOf

(* The commands' steps that no socket depends on.                           *)
LEMMA QuietSteps ==
    ASSUME TypeOK, SocketInv, NEW c \in Client, ClientStepOf(c),
           Begin(c) \/ ReadMarker(c) \/ ReadMode(c) \/ Probe(c) \/ Lock(c) \/
           ProbeAgain(c) \/ ChildExited(c) \/ ReapRecord(c) \/ ServingNow(c) \/ GiveUp(c) \/
           Expect(c) \/ WaitDeadline(c) \/ Clear(c) \/ SetMarker(c) \/ SetMode(c) \/
           UnsetMarker(c) \/ UnsetMode(c) \/ UndoMode(c) \/ Interrupt(c)
    PROVE  SocketInv'
<1>1. client \in [Client -> Waiting] BY DEF TypeOK, Waiting
<1>3. SUFFICES /\ client'[c].at \notin {"stale", "reap_socket", "unlink"}
               /\ UNCHANGED <<socket, daemon>> /\ instance' \in {instance, Without(instance, c)}
  BY <1>1, SameOthers, Quiet
<1> USE <1>1, Goes DEF files, locks
<1>4. CASE Begin(c) BY <1>4, BeginLeaves DEF Begin
<1>5. CASE ReadMarker(c) BY <1>5 DEF ReadMarker
<1>6. CASE ReadMode(c) BY <1>6, ModeLeads DEF ReadMode
<1>7. CASE Probe(c) BY <1>7 DEF Probe, FoundLive, Waiting, AfterMode
<1>8. CASE Lock(c) BY <1>8 DEF Lock, AfterLock
<1>9. CASE ProbeAgain(c) BY <1>9 DEF ProbeAgain, FoundLive, Waiting
<1>10. CASE ChildExited(c) BY <1>10 DEF ChildExited
<1>11. CASE ReapRecord(c) BY <1>11 DEF ReapRecord
<1>12. CASE ServingNow(c) BY <1>12 DEF ServingNow
<1>13. CASE GiveUp(c) BY <1>13 DEF GiveUp
<1>14. CASE Expect(c) BY <1>14 DEF Expect, Waiting
<1>15. CASE WaitDeadline(c) BY <1>15 DEF WaitDeadline
<1>16. CASE Clear(c) BY <1>16 DEF Clear
<1>17. CASE SetMarker(c) BY <1>17 DEF SetMarker
<1>18. CASE SetMode(c) BY <1>18 DEF SetMode
<1>19. CASE UnsetMarker(c) BY <1>19 DEF UnsetMarker
<1>20. CASE UnsetMode(c) BY <1>20 DEF UnsetMode
<1>21. CASE UndoMode(c) BY <1>21 DEF UndoMode
<1>22. CASE Interrupt(c) BY <1>22 DEF Interrupt
<1>23. QED
  BY <1>4, <1>5, <1>6, <1>7, <1>8, <1>9, <1>10, <1>11, <1>12, <1>13, <1>14, <1>15, <1>16, <1>17, <1>18, <1>19,
    <1>20, <1>21, <1>22

(* A command that removes a socket, a process or a lock of its own.         *)
LEMMA LoudSteps ==
    ASSUME TypeOK, SocketInv, NEW c \in Client, ClientStepOf(c),
           Guard(c) \/ RemoveStale(c) \/ Spawn(c) \/ KillChild(c) \/ ReapSocket(c) \/ KillRecorded(c) \/
           Ask(c) \/ WaitStopped(c) \/ Stuck(c) \/ Kill(c) \/ Unlink(c)
    PROVE  SocketInv'
<1>1. client \in [Client -> Waiting] BY DEF TypeOK, Waiting
<1>2. \A x \in Client \ {c} : Same(x) BY <1>1, SameOthers
<1> USE <1>1, <1>2, Goes, ConstantsAssumption
        DEF SocketInv, LockHeld, SocketKept, StaleGuarded, ReapsTheDead, Same, Holding, Without,
            ConstantsAssumption,
            files, locks
<1>3. CASE Guard(c) BY <1>3 DEF Guard
<1>4. CASE RemoveStale(c) BY <1>4, Quiet DEF RemoveStale, At, Alive
<1>5. CASE Spawn(c)
  <2>1. PICK d \in Daemon :
              /\ daemon[d] = "unborn" /\ daemon' = [daemon EXCEPT ![d] = "spawned"]
              /\ client' = [client EXCEPT ![c].at = "child", ![c].child = d]
    BY <1>5 DEF Spawn
  <2>3. UNCHANGED <<instance, socket>> BY <1>5 DEF Spawn
  <2>5. ASSUME NEW p \in Daemon, daemon[p] = "exited" PROVE daemon'[p] = "exited" BY <2>1, <2>5 DEF TypeOK
  <2>7. QED BY <2>1, <2>3, <2>5 DEF Waiting, TypeOK
<1>6. CASE KillChild(c) BY <1>6 DEF KillChild, Alive, Gone, At, Waiting, TypeOK
<1>7. CASE ReapSocket(c) BY <1>7 DEF ReapSocket, At
<1>8. CASE KillRecorded(c) BY <1>8 DEF KillRecorded, Alive, Gone, Waiting, TypeOK
<1>9. CASE Ask(c) BY <1>9 DEF Ask, Answers, Waiting, TypeOK
<1>10. CASE WaitStopped(c) BY <1>10 DEF WaitStopped, AllGone, RemoveStopped, Seen, Alive
<1>11. CASE Stuck(c) BY <1>11 DEF Stuck, AlreadyStopped, RemoveStopped, Alive
<1>12. CASE Kill(c) BY <1>12 DEF Kill, Alive, Gone, Waiting, TypeOK
<1>13. CASE Unlink(c) BY <1>13 DEF Unlink, RemoveStopped, Alive
<1>14. QED BY <1>3, <1>4, <1>5, <1>6, <1>7, <1>8, <1>9, <1>10, <1>11, <1>12, <1>13

(* The initial state and every step.                                        *)
LEMMA InitTypes == Init => TypeOK
<1> SUFFICES ASSUME Init PROVE TypeOK OBVIOUS
<1>3. client \in [Client -> Waiting] BY DEF Init, Idle, Waiting, ClientStep, DaemonStep
<1>4. QED BY <1>3 DEF Init, TypeOK, Waiting, ClientStep, DaemonStep

(* Types, step by step.                                                     *)
LEMMA NextTypes == ASSUME TypeOK, [Next]_vars PROVE TypeOK'
  BY DaemonTypes, ClientTypes DEF Next, vars, files, locks, TypeOK

(* At first there is no socket.                                             *)
LEMMA InitSocket == Init => SocketInv
  BY DEF Init, SocketInv, LockHeld, SocketKept, StaleGuarded, ReapsTheDead, Idle, Holding

(* The socket, step by step.                                                *)
LEMMA NextSocket == ASSUME TypeOK, SocketInv, [Next]_vars PROVE SocketInv'
  BY QuietSteps, LoudSteps, DaemonKeepsSocket DEF ClientStepOf, vars, files, locks, SocketInv, LockHeld, SocketKept,
    StaleGuarded, ReapsTheDead, Next

(* The types of the lifecycle's state: the record, the socket, the locks,   *)
(* every daemon and every command.                                          *)
THEOREM LifecycleTypes == Spec => []TypeOK
<1>1. QED BY InitTypes, NextTypes, PTL DEF Spec

(* Sockets and locks belong to who the code believes they belong to         *)
(* (bind_daemon_listener, RuntimeDaemonCleanup, and every command's         *)
(* removal of a socket).                                                    *)
THEOREM SocketInvariant == Spec => []SocketInv
<1>1. QED BY InitSocket, NextSocket, LifecycleTypes, PTL DEF Spec

(* No cleanup, by a command or another daemon, takes away the socket of a   *)
(* daemon that is up.                                                       *)
THEOREM UpIsReachable == Spec => []ReachableDaemon
<1>1. SocketInv => ReachableDaemon BY DEF SocketInv, SocketKept, ReachableDaemon
<1>2. QED BY <1>1, SocketInvariant, PTL

(* Only a poll that sees everything gone ends a wait well.                  *)
LEMMA WaitEndsWell ==
    ASSUME client \in [Client -> Waiting], NEW c \in Client, ClientStepOf(c),
           client[c].at = "wait", client'[c].at = "clear"
    PROVE  WaitStopped(c)
<1> SUFFICES ASSUME ~WaitStopped(c) PROVE FALSE OBVIOUS
<1> USE Goes
<1>1. CASE Begin(c) BY <1>1 DEF Begin
<1>2. CASE ReadMarker(c) BY <1>2 DEF ReadMarker, At
<1>3. CASE ReadMode(c) BY <1>3 DEF ReadMode, At
<1>4. CASE Probe(c) BY <1>4 DEF Probe, FoundLive, At
<1>5. CASE Lock(c) BY <1>5 DEF Lock, AtStage
<1>6. CASE ProbeAgain(c) BY <1>6 DEF ProbeAgain, FoundLive, At
<1>7. CASE Guard(c) BY <1>7 DEF Guard, At
<1>8. CASE RemoveStale(c) BY <1>8 DEF RemoveStale, At
<1>9. CASE Spawn(c) BY <1>9 DEF Spawn
<1>10. CASE ChildExited(c) BY <1>10 DEF ChildExited
<1>11. CASE KillChild(c) BY <1>11 DEF KillChild, At
<1>12. CASE ReapSocket(c) BY <1>12 DEF ReapSocket, At
<1>13. CASE ReapRecord(c) BY <1>13 DEF ReapRecord
<1>14. CASE ServingNow(c) BY <1>14 DEF ServingNow
<1>15. CASE KillRecorded(c) BY <1>15 DEF KillRecorded
<1>16. CASE GiveUp(c) BY <1>16 DEF GiveUp
<1>17. CASE Expect(c) BY <1>17 DEF Expect
<1>18. CASE Ask(c) BY <1>18 DEF Ask
<1>19. CASE WaitDeadline(c) BY <1>19 DEF WaitDeadline, At
<1>20. CASE Stuck(c) BY <1>20 DEF Stuck, At
<1>21. CASE Kill(c) BY <1>21 DEF Kill
<1>22. CASE Unlink(c) BY <1>22 DEF Unlink
<1>23. CASE Clear(c) BY <1>23 DEF Clear
<1>24. CASE SetMarker(c) BY <1>24 DEF SetMarker, At
<1>25. CASE SetMode(c) BY <1>25 DEF SetMode, At, AtStage
<1>26. CASE UnsetMarker(c) BY <1>26 DEF UnsetMarker, At
<1>27. CASE UnsetMode(c) BY <1>27 DEF UnsetMode
<1>28. CASE UndoMode(c) BY <1>28 DEF UndoMode
<1>29. CASE Interrupt(c) BY <1>29 DEF Interrupt
<1>30. QED
  BY <1>1, <1>2, <1>3, <1>4, <1>5, <1>6, <1>7, <1>8, <1>9, <1>10, <1>11, <1>12, <1>13, <1>14, <1>15, <1>16, <1>17,
    <1>18, <1>19, <1>20, <1>21, <1>22, <1>23, <1>24, <1>25, <1>26, <1>27, <1>28, <1>29 DEF ClientStepOf

(* When stop reports that the daemon has stopped, no daemon is up           *)
(* (wait_for_daemon_stop), whatever the record says by then.                *)
THEOREM StopsAreComplete == Spec => StoppedIsStopped
<1>1. ASSUME TypeOK, SocketInv, [Next]_vars, NEW c \in Client,
             client[c].at = "wait", client'[c].at = "clear", NEW d \in Daemon
      PROVE  daemon[d] \notin {"bound", "live", "serving", "stopping"}
  <2>2. PICK x \in Client : ClientStepOf(x)
    <3>1. CASE UNCHANGED vars BY <1>1, <3>1 DEF vars
    <3>2. ASSUME NEW e \in Daemon, DaemonStepOf(e) PROVE FALSE
      BY <3>2, <1>1 DEF DaemonStepOf, AcquireLease, BindListener, PostBind, Bootstrap, Stops, UnlinkSocket,
        ClearRecord, ReturnFromServer, LastUpdate, Exit, Crash
    <3>3. QED BY <1>1, <3>1, <3>2 DEF Next
  <2>4. WaitStopped(c) BY <1>1, <2>2, SameOthers, WaitEndsWell DEF TypeOK, Waiting, Same
  <2>7. QED
    BY <1>1, <2>4, ConstantsAssumption DEF SocketInv, SocketKept, Alive, Seen, ConstantsAssumption, WaitStopped,
      AllGone, RemoveStopped
<1>2. TypeOK /\ SocketInv /\ [Next]_vars =>
        (\A c \in Client : client[c].at = "wait" /\ client'[c].at = "clear" =>
           \A d \in Daemon : daemon[d] \notin {"bound", "live", "serving", "stopping"})
  BY <1>1
<1>3. QED BY <1>2, LifecycleTypes, SocketInvariant, PTL DEF Spec, StoppedIsStopped

-----------------------------------------------------------------------------
(* Disable and reload.                                                      *)

(* A command goes on: what may change of it, of the marker and of the start *)
(* lock.                                                                    *)
Advances(c) ==
    /\ client'[c].cmd = client[c].cmd
    /\ client'[c].at = "unset_marker" => client[c].cmd = "enable"
    /\ marker => marker' \/ client[c].cmd = "enable"
    /\ startLock' \in {startLock, Without(startLock, c)}
    /\ client[c].cmd \in {"disable", "reload"} => startLock' = startLock
    /\ client[c].cmd = "disable" =>
          /\ client[c].at # "lock" /\ client'[c].at \in DisableStep \ {"lock", "set_marker"}
          /\ client'[c].stage = client[c].stage
          /\ client[c].at = "set_marker" => marker'
    /\ client[c].cmd = "reload" =>
          \/ client[c].at \notin ReloadStep /\ (client[c].stage # 0 => client'[c].stage # 0)
          \/ /\ client[c].at = "read_marker" /\ ~marker /\ client'[c].at = "read_mode"
             /\ client'[c].stage = client[c].stage
          \/ /\ client[c].at = "read_mode" /\ client'[c].stage = client[c].stage
             /\ client[c].stage = 0 => client'[c].at = "lock"

(* Such a step keeps every promise.                                         *)
LEMMA AdvanceKeeps ==
    ASSUME ModeInv, NEW c \in Client, Advances(c), off' = off,
           \A x \in Client \ {c} : client'[x] = client[x]
    PROVE  ModeInv'
  BY DEF Advances, NoEnable, Without, ModeInv, DisableHolds, ReloadHolds, ReloadStep, OffHolds, OnlyEnableUnsets

(* A command that ends takes its promises with it.                          *)
LEMMA EndKeepsMode ==
    ASSUME client \in [Client -> Waiting], ModeInv, NEW c \in Client, End(c),
           marker => marker' \/ client[c].cmd = "enable",
           off' = off \/ (client[c].cmd = "disable" /\ client[c].stage = 0 /\ client[c].at \in {"stuck", "clear"})
    PROVE  ModeInv'
  BY ConstantsAssumption DEF End, Idle, Unlocked, ConstantsAssumption, Commands, Without, NoEnable, ModeInv,
    DisableHolds, ReloadHolds, OnlyEnableUnsets, OffHolds

(* What a command that goes on keeps: its name, and mostly its stage.       *)
LEMMA Keeps ==
    ASSUME client \in [Client -> Waiting], NEW c \in Client
    PROVE  /\ \A from, to : At(c, from, to) =>
                 /\ client[c].at = from /\ client'[c].at = to
                 /\ client'[c].cmd = client[c].cmd /\ client'[c].stage = client[c].stage
           /\ \A from, to, n : AtStage(c, from, to, n) =>
                 /\ client[c].at = from /\ client'[c].at = to
                 /\ client'[c].cmd = client[c].cmd /\ client'[c].stage = n
           /\ \A from : FoundLive(c, from) =>
                 /\ client[c].at = from /\ client'[c].at = "await_serving"
                 /\ client'[c].cmd = client[c].cmd /\ client'[c].stage = client[c].stage
                 /\ startLock' \in {startLock, Without(startLock, c)}
                 /\ client[c].cmd = "reload" => startLock' = startLock
           /\ Fails(c) => \/ End(c)
                          \/ /\ client[c].cmd = "enable" /\ client'[c].cmd = "enable"
                             /\ startLock' = Without(startLock, c)
           /\ StopFails(c) => \/ End(c)
                              \/ /\ client[c].cmd = "enable" /\ client'[c].cmd = "enable"
                                 /\ startLock' = startLock
  BY DEF At, Waiting, AtStage, FoundLive, Fails, Unlocked, StopFails

(* The steps that go on or end, and nothing else.                           *)
LEMMA PlainStepsKeepMode ==
    ASSUME TypeOK, ModeInv, NEW c \in Client, ClientStepOf(c),
           ~Begin(c), ~Lock(c), ~Stuck(c), ~Clear(c)
    PROVE  ModeInv'
<1>1. client \in [Client -> Waiting] BY DEF TypeOK, Waiting
<1>3. client[c].at = "unset_marker" => client[c].cmd = "enable" BY DEF ModeInv, OnlyEnableUnsets
<1>4. client[c].cmd = "disable" => client[c].at \in DisableStep BY DEF ModeInv, DisableHolds
<1>5. SUFFICES /\ off' = off /\ (marker => marker' \/ client[c].cmd = "enable")
               /\ End(c) \/ Advances(c)
  BY <1>1, OthersStay, AdvanceKeeps, EndKeepsMode
<1> USE <1>1, <1>3, <1>4, Keeps DEF Advances, DisableStep, ReloadStep, files, locks
<1>6. CASE ReadMarker(c) BY <1>6 DEF ReadMarker
<1>7. CASE ReadMode(c) BY <1>7, ModeLeads DEF ReadMode
<1>8. CASE Probe(c) BY <1>8 DEF Probe
<1>9. CASE ProbeAgain(c) BY <1>9 DEF ProbeAgain
<1>10. CASE Guard(c) BY <1>10 DEF Guard
<1>11. CASE RemoveStale(c) BY <1>11 DEF RemoveStale
<1>12. CASE Spawn(c) BY <1>12 DEF Spawn, Waiting
<1>13. CASE ChildExited(c) BY <1>13 DEF ChildExited
<1>14. CASE KillChild(c) BY <1>14 DEF KillChild
<1>15. CASE ReapSocket(c) BY <1>15 DEF ReapSocket
<1>16. CASE ReapRecord(c) BY <1>16 DEF ReapRecord
<1>17. CASE ServingNow(c) BY <1>17 DEF ServingNow
<1>18. CASE KillRecorded(c) BY <1>18 DEF KillRecorded, Waiting
<1>19. CASE GiveUp(c) BY <1>19 DEF GiveUp
<1>20. CASE Expect(c) BY <1>20 DEF Expect, Waiting
<1>21. CASE Ask(c) BY <1>21 DEF Ask, Waiting
<1>22. CASE WaitStopped(c) BY <1>22 DEF WaitStopped
<1>23. CASE WaitDeadline(c) BY <1>23 DEF WaitDeadline
<1>24. CASE Kill(c) BY <1>24 DEF Kill, Waiting
<1>25. CASE Unlink(c) BY <1>25 DEF Unlink
<1>26. CASE SetMarker(c) BY <1>26 DEF SetMarker
<1>27. CASE SetMode(c) BY <1>27 DEF SetMode
<1>28. CASE UnsetMarker(c) BY <1>28 DEF UnsetMarker
<1>29. CASE UnsetMode(c) BY <1>29 DEF UnsetMode
<1>30. CASE UndoMode(c) BY <1>30 DEF UndoMode
<1>31. CASE Interrupt(c) BY <1>31 DEF Interrupt
<1>32. QED
  BY <1>6, <1>7, <1>8, <1>9, <1>10, <1>11, <1>12, <1>13, <1>14, <1>15, <1>16, <1>17, <1>18, <1>19, <1>20, <1>21,
    <1>22, <1>23, <1>24, <1>25, <1>26, <1>27, <1>28, <1>29, <1>30,
     <1>31 DEF ClientStepOf

(* The daemon is down: a disable has succeeded, a reload looks again.       *)
LEMMA StoppedKeepsMode ==
    ASSUME TypeOK, ModeInv, NEW c \in Client, ClientStepOf(c), ~Begin(c), Stopped(c),
           client[c].at \in {"stuck", "clear"}, UNCHANGED marker
    PROVE  ModeInv'
  BY OthersStay, EndKeepsMode, AdvanceKeeps DEF TypeOK, Waiting, Stopped, AfterStop, Advances, ReloadStep

(* A shutdown ends with the record cleared, ...                             *)
LEMMA ClearKeepsMode ==
    ASSUME TypeOK, ModeInv, NEW c \in Client, ClientStepOf(c), ~Begin(c), Clear(c) PROVE ModeInv'
  BY StoppedKeepsMode DEF Clear

(* ... or with nothing left to stop, or without success.                    *)
LEMMA StuckKeepsMode ==
    ASSUME TypeOK, ModeInv, NEW c \in Client, ClientStepOf(c), ~Begin(c), Stuck(c) PROVE ModeInv'
  BY OthersStay, StoppedKeepsMode, EndKeepsMode, Keeps, AdvanceKeeps DEF TypeOK, Waiting, Stuck, Advances,
    DisableStep, ReloadStep

(* The lock: nobody else is past it, and a disable learns of the enables.   *)
LEMMA LockKeepsMode ==
    ASSUME TypeOK, ModeInv, NEW c \in Client, ClientStepOf(c), ~Begin(c), Lock(c) PROVE ModeInv'
<1>3. startLock = None /\ startLock' = c /\ marker' = marker /\ off' = off /\ None \notin Client
  BY ConstantsAssumption DEF Lock, files, ConstantsAssumption
<1>4. client[c].at = "lock" /\ client'[c].at = AfterLock(c) /\ client'[c].cmd = client[c].cmd
      /\ client'[c].stage = LockStage(c)
  BY Keeps DEF Lock, TypeOK, Waiting
<1>7. ReloadHolds' /\ OffHolds'
  BY <1>4, OthersStay, <1>3 DEF AfterLock, LockStage, ModeInv, ReloadHolds, OffHolds, ReloadStep, NoEnable, TypeOK,
    Waiting
<1>9. QED
  BY <1>4, OthersStay, <1>3, <1>7 DEF ModeInv, OnlyEnableUnsets, AfterLock, LockStage, NoEnable, DisableHolds,
    DisableStep, TypeOK, Waiting

(* A command that begins promises nothing yet; an enable frees the disables *)
(* that run from theirs.                                                    *)
LEMMA BeginKeepsMode ==
    ASSUME TypeOK, ModeInv, NEW c \in Client, Begin(c) PROVE ModeInv'
<1>2. PICK k \in Command :
         /\ client' = [x \in Client |->
                IF x = c THEN [Idle EXCEPT !.cmd = k, !.at = FirstStep[k]]
                ELSE IF k = "enable" /\ client[x].cmd = "disable" THEN [client[x] EXCEPT !.stage = 1]
                ELSE client[x]]
         /\ off' = (off /\ k # "enable")
  BY DEF Begin
<1>3. client'[c].cmd = k /\ client'[c].at = FirstStep[k] /\ client'[c].stage = 0 BY <1>2 DEF Idle
<1>4. client'[c].at # "unset_marker"
      /\ (k = "disable" => client'[c].at = "lock") /\ (k = "reload" => client'[c].at = "read_marker")
  BY <1>3, BeginLeaves DEF FirstStep, TypeOK, Waiting
<1>5. \A x \in Client \ {c} :
         /\ client'[x].cmd = client[x].cmd /\ client'[x].at = client[x].at
         /\ client'[x].stage = IF k = "enable" /\ client[x].cmd = "disable" THEN 1 ELSE client[x].stage
  BY <1>2 DEF Waiting, TypeOK
<1>6. UNCHANGED <<marker, startLock>> BY DEF Begin, files, locks
<1>10. OffHolds' BY <1>2, <1>3, <1>4, <1>5, <1>6 DEF ModeInv, OffHolds, ReloadStep, TypeOK, NoEnable
<1>12. QED
  BY <1>3, <1>4, <1>5, <1>6, <1>10 DEF ModeInv, ReloadHolds, ReloadStep, DisableHolds, DisableStep, NoEnable,
    OnlyEnableUnsets

(* No daemon touches the marker, the start lock or a command.               *)
LEMMA DaemonLeavesMode ==
    ASSUME NEW d \in Daemon, DaemonStepOf(d) PROVE UNCHANGED <<marker, startLock, client, off>>
  BY DEF DaemonStepOf, AcquireLease, BindListener, PostBind, Bootstrap, Stops, UnlinkSocket, ClearRecord,
    ReturnFromServer, LastUpdate, Exit, Crash, files, locks

(* At first nobody has promised anything.                                   *)
LEMMA InitMode == Init => ModeInv BY ConstantsAssumption
DEF Init, ModeInv, DisableHolds, ReloadHolds, OffHolds, OnlyEnableUnsets, Idle,
    ConstantsAssumption, Commands

(* The mode, step by step.                                                  *)
LEMMA NextMode == ASSUME TypeOK, ModeInv, [Next]_vars PROVE ModeInv'
<1>1. ASSUME NEW c \in Client, ClientStepOf(c) PROVE ModeInv'
  BY <1>1, BeginKeepsMode, LockKeepsMode, StuckKeepsMode, ClearKeepsMode, PlainStepsKeepMode
<1>2. CASE UNCHANGED <<marker, startLock, client, off>>
  BY <1>2 DEF ModeInv, DisableHolds, ReloadHolds, OffHolds, OnlyEnableUnsets, NoEnable
<1>3. CASE UNCHANGED vars BY <1>2, <1>3 DEF vars, files, locks
<1>4. QED BY <1>1, <1>2, <1>3, DaemonLeavesMode DEF Next

(* Who holds the start lock, and what a disable and an enable make of the   *)
(* marker (execute_disabled_transition, finish_enable_transition,           *)
(* reload_daemon_with_start_lock).                                          *)
THEOREM ModeInvariant == Spec => []ModeInv
<1>1. QED BY InitMode, NextMode, LifecycleTypes, PTL DEF Spec

(* Only Spawn makes a command a parent.                                     *)
LEMMA OnlySpawn ==
    ASSUME client \in [Client -> Waiting], NEW c \in Client, ClientStepOf(c), client'[c].at = "child"
    PROVE  client[c].at = "spawn"
<1> SUFFICES ASSUME ~Spawn(c) PROVE FALSE BY DEF Spawn
<1> USE Goes
<1>1. CASE Begin(c) BY <1>1, BeginLeaves DEF Begin
<1>2. CASE ReadMarker(c) BY <1>2 DEF ReadMarker
<1>3. CASE ReadMode(c) BY <1>3, ModeLeads DEF ReadMode
<1>4. CASE Probe(c) BY <1>4 DEF Probe, FoundLive, Waiting
<1>5. CASE Lock(c) BY <1>5 DEF Lock, AfterLock
<1>6. CASE ProbeAgain(c) BY <1>6 DEF ProbeAgain, FoundLive, Waiting
<1>7. CASE Guard(c) BY <1>7 DEF Guard
<1>8. CASE RemoveStale(c) BY <1>8 DEF RemoveStale
<1>9. CASE ChildExited(c) BY <1>9 DEF ChildExited
<1>10. CASE KillChild(c) BY <1>10 DEF KillChild
<1>11. CASE ReapSocket(c) BY <1>11 DEF ReapSocket
<1>12. CASE ReapRecord(c) BY <1>12 DEF ReapRecord
<1>13. CASE ServingNow(c) BY <1>13 DEF ServingNow
<1>14. CASE KillRecorded(c) BY <1>14 DEF KillRecorded, Waiting
<1>15. CASE GiveUp(c) BY <1>15 DEF GiveUp
<1>16. CASE Expect(c) BY <1>16 DEF Expect, Waiting
<1>17. CASE Ask(c) BY <1>17 DEF Ask, Waiting
<1>18. CASE WaitStopped(c) BY <1>18 DEF WaitStopped
<1>19. CASE WaitDeadline(c) BY <1>19 DEF WaitDeadline
<1>20. CASE Stuck(c) BY <1>20 DEF Stuck
<1>21. CASE Kill(c) BY <1>21 DEF Kill, Waiting
<1>22. CASE Unlink(c) BY <1>22 DEF Unlink
<1>23. CASE Clear(c) BY <1>23 DEF Clear
<1>24. CASE SetMarker(c) BY <1>24 DEF SetMarker
<1>25. CASE SetMode(c) BY <1>25 DEF SetMode
<1>26. CASE UnsetMarker(c) BY <1>26 DEF UnsetMarker
<1>27. CASE UnsetMode(c) BY <1>27 DEF UnsetMode
<1>28. CASE UndoMode(c) BY <1>28 DEF UndoMode
<1>29. CASE Interrupt(c) BY <1>29 DEF Interrupt
<1>30. QED
  BY <1>1, <1>2, <1>3, <1>4, <1>5, <1>6, <1>7, <1>8, <1>9, <1>10, <1>11, <1>12, <1>13, <1>14, <1>15, <1>16, <1>17,
    <1>18, <1>19, <1>20, <1>21, <1>22, <1>23, <1>24, <1>25, <1>26, <1>27, <1>28, <1>29 DEF ClientStepOf

(* A reload that a disable has overtaken never brings a daemon back         *)
(* (reload_daemon_with_start_lock reads the desired mode again once it has   *)
(* the start lock).                                                         *)
THEOREM ReloadStaysOut == Spec => ReloadHonorsDisable
<1>1. ASSUME TypeOK, ModeInv, [Next]_vars, NEW c \in Client, off, client[c].cmd = "reload",
             client'[c].at = "child"
      PROVE  FALSE
  <2>2. client[c].at \notin {"spawn", "child"} BY <1>1 DEF ModeInv, OffHolds, ReloadStep
  <2>3. ASSUME NEW x \in Client, ClientStepOf(x) PROVE FALSE
    BY <1>1, <2>2, <2>3, SameOthers, OnlySpawn DEF Same, TypeOK, Waiting
  <2>4. CASE UNCHANGED client BY <1>1, <2>2, <2>4
  <2>5. QED BY <1>1, <2>3, <2>4, DaemonLeavesMode DEF Next, vars
<1>2. TypeOK /\ ModeInv /\ [Next]_vars =>
        (\A c \in Client : off /\ client[c].cmd = "reload" => client'[c].at # "child")
  BY <1>1
<1>3. QED BY <1>2, LifecycleTypes, ModeInvariant, PTL DEF Spec, ReloadHonorsDisable
=============================================================================
