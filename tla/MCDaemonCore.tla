---------------------------- MODULE MCDaemonCore ----------------------------
(* The daemon's own threads on small instances. The modules share no state  *)
(* here, so one run takes the steps of one part only: the part is chosen in *)
(* the initial state and the others keep theirs.                            *)
EXTENDS MutationQueue, StatusPush, SnapshotStream, TmuxControl, PaneSwitch, PaneViews,
        ViewHooks, CaptureWorkers, CodexResync, TaskSummary, TLC

CONSTANTS p1, p2

(* The first pane is the editor of the second.                               *)
MCProxies == {<<p1, p2>>}

VARIABLE part

coreVars == <<part, mqVars, spVars, ssVars, tcVars, psVars, pvVars, vhVars, captureVars,
              resyncVars, sumVars>>

Parts == {"queue", "push", "stream", "control", "switch", "views", "delivery", "slots",
          "capture", "resync", "summary"}

(* Screens asked for by the two requesters of CaptureWorkers.               *)
MCAsks == {<<p1>>, <<p2, p1>>}

CoreInit ==
    /\ part \in Parts
    /\ MqInit /\ SpInit /\ SsInit /\ TcInit /\ PsInit /\ PvInit /\ VhInit /\ CaptureInit
    /\ ResyncInit /\ SumInit

CoreNext ==
    /\ UNCHANGED part
    /\ IF part = "queue" THEN MqNext ELSE UNCHANGED mqVars
    /\ IF part = "push" THEN SpNext ELSE UNCHANGED spVars
    /\ IF part = "stream" THEN SsNext ELSE UNCHANGED ssVars
    /\ IF part = "control" THEN TcNext ELSE UNCHANGED tcVars
    /\ IF part = "switch" THEN PsNext ELSE UNCHANGED psVars
    /\ IF part = "views" THEN PvNext ELSE UNCHANGED pvVars
    /\ CASE part = "delivery" -> DeliveryNext
         [] part = "slots" -> SlotNext
         [] OTHER -> UNCHANGED vhVars
    /\ IF part = "capture" THEN CaptureNext ELSE UNCHANGED captureVars
    /\ IF part = "resync" THEN ResyncNext ELSE UNCHANGED resyncVars
    /\ IF part = "summary" THEN SumNext ELSE UNCHANGED sumVars

CoreSpec == CoreInit /\ [][CoreNext]_coreVars

-----------------------------------------------------------------------------
(* Properties: each module's own, of the part that runs.                    *)

(* What is asked of the daemon is answered as it was done: mutations are    *)
(* applied once and in order and every waiter is served, captures are those *)
(* of the pane asked for, a resynchronised session really is idle, and a    *)
(* summary belongs to the prompts it is shown with.                         *)
WorkSound ==
    /\ part = "queue" => QueueSound
    /\ part = "capture" => CapturesSound
    /\ part = "resync" => ResyncSound
    /\ part = "summary" => SummariesSound

(* What the daemon shows or believes of tmux is so: the status options, the *)
(* snapshots of subscribers, the answers of the control connection.         *)
ViewSound ==
    /\ part = "push" => DisplaySound
    /\ part = "stream" => StreamSound
    /\ part = "control" => ControlSound

(* Where a client looks: switches go to a neighbour, a peek marks read what *)
(* the person chose, and one change of focus is delivered at most once.     *)
FocusSound ==
    /\ part = "switch" => SwitchesToNeighbour
    /\ part = "views" => ViewsSound
    /\ part \in {"delivery", "slots"} => HooksSound

(* What no step does: a snapshot revision never goes back, a peek never     *)
(* ends but for the reasons it may.                                         *)
CoreSteps == RevisionsRise /\ PeekEndsForAReason

(* The fairness each module states for its threads, guarded by the part:    *)
(* the same for the part that runs, and cheaper to check.                   *)
Queue == part = "queue"
QueueFairness ==
    /\ WF_mqVars(Queue /\ Bootstrap) /\ WF_mqVars(Queue /\ WorkerStep)
    /\ WF_mqVars(Queue /\ SidebarWorker) /\ WF_mqVars(Queue /\ ForwardCompletion)
    /\ WF_mqVars(Queue /\ Exit)
    /\ \A s \in Stopper : WF_mqVars(Queue /\ StopStep(s))
    /\ \A c \in Client : WF_mqVars(Queue /\ RouteEnqueue(c))
Push == part = "push"
PushFairness ==
    /\ WF_spVars(Push /\ Drive) /\ WF_spVars(Push /\ BatchEnds) /\ WF_spVars(Push /\ Shutdown)
    /\ WF_spVars(Push /\ IntervalPasses) /\ SF_spVars(Push /\ ForgetDead)
    /\ SF_spVars(Push /\ BatchSucceeds) /\ SF_spVars(Push /\ BatchPaneMismatch)
Streams == part = "stream"
StreamFairness ==
    /\ WF_ssVars(Streams /\ Publish) /\ WF_ssVars(Streams /\ DiagnoseTooLarge)
    /\ WF_ssVars(Streams /\ Stream) /\ WF_ssVars(Streams /\ Backoff)
    /\ WF_ssVars(Streams /\ ReadFrame) /\ WF_ssVars(Streams /\ ReadEnd)
    /\ SF_ssVars(Streams /\ Connect)
Control == part = "control"
ControlFairness ==
    /\ WF_tcVars(Control /\ SupervisorStep) /\ WF_tcVars(Control /\ ShutdownSend)
    /\ WF_tcVars(Control /\ \E g \in Generation : ReaderSends(g))
    /\ WF_tcVars(Control /\ SyncTimeout) /\ WF_tcVars(Control /\ BusyDeadline)
Delivery == part = "delivery"
DeliveryFairness == \A e \in HookEvent : WF_vhVars(Delivery /\ VhProgress(e))
Summary == part = "summary"
SummaryFairness == WF_sumVars(Summary /\ SumProgress)

(* What must happen, under that fairness.                                   *)
CoreSettles ==
    /\ Queue /\ QueueFairness => ShutdownCompletes /\ EveryoneAnswered
    /\ Push /\ PushFairness => DisplayConverges
    /\ Streams /\ StreamFairness => SubscriberCatchesUp
    /\ Control /\ ControlFairness => ControlStops
    /\ Delivery /\ DeliveryFairness => EventShown
    /\ Summary /\ SummaryFairness => SpinnersEnd
=============================================================================
