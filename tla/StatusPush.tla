----------------------------- MODULE StatusPush -----------------------------
(* How the daemon keeps the tmux status options equal to its display        *)
(* projection: StatusPushState, the driver that renders a frame and writes  *)
(* one guarded batch at a time, the topology sync, and the stopped marker   *)
(* of a shutdown.                                                           *)
(*                                                                          *)
(* A batch can fail after tmux applied any part of it.  The category,       *)
(* sessions and windows options of a session behave alike and are one key.  *)
(* The driver lock is held while driver # "free" and by every step that     *)
(* requires it to be free.                                                  *)
EXTENDS Naturals, FiniteSets

CONSTANTS
    SpSession, SpPane,   \* tmux sessions and pane instances; never reused
    MaxRevision          \* bound: canonical snapshot revisions

ASSUME PushAssumption ==
    /\ IsFiniteSet(SpSession \cup SpPane) /\ "server" \notin SpSession \cup SpPane
    /\ MaxRevision \in Nat \ {0}

VARIABLES
    canon,      \* the canonical state: its revision and the frame it renders to
    push,       \* StatusPushState
    driver,     \* who holds status_push_driver, and for which step
    captured,   \* revision and frame read before rendering
    worker_,    \* the status push worker: which trigger is next, or "gone"
    stop,       \* progress of begin_shutdown, or a fail-stop
    tmux        \* external: targets that exist, and their options

spVars == <<canon, push, driver, captured, worker_, stop, tmux>>

-----------------------------------------------------------------------------
(* DisplayOptionKey and DisplayOptionValue                                  *)
Target == SpSession \cup SpPane
Global == <<"global", "server">>
Key == {Global} \cup ({"summary", "segments", "attention"} \X SpSession)
                \cup ({"pane"} \X SpPane)
IsTerminal(k) == k[1] \in {"global", "summary", "attention"}
Text == {"a", "b"}
Marker == "stopped"
Unset == "unset"
Absent == "absent"

(* build_display_frame: the legacy summary is always unset, every session   *)
(* has all its options, every pane its own.                                 *)
KeysOf(targets) == {k \in Key : k = Global \/ k[2] \in targets}
build_display_frame(targets, text) ==
    [k \in KeysOf(targets) |-> IF k = Global THEN Unset ELSE text[k]]

Keep(f, keys) == [k \in DOMAIN f \cap keys |-> f[k]]
Put(f, g) == [k \in DOMAIN f \cup DOMAIN g |-> IF k \in DOMAIN g THEN g[k] ELSE f[k]]
NoKeys == [k \in {} |-> Unset]

-----------------------------------------------------------------------------
(* StatusPushState                                                          *)

NewPush == [desired |-> NoKeys, dirty |-> {}, last_successful |-> NoKeys, last_revision |-> 0,
            due |-> TRUE, pending |-> FALSE, shutting_down |-> FALSE, in_flight |-> NoKeys]

InFlight(p) == DOMAIN p.in_flight # {}

(* A key whose last write failed is attempted again even when the value     *)
(* wanted now is the last one known to be shown.                            *)
Candidates(p) ==
    {k \in DOMAIN p.desired :
        /\ p.shutting_down => IsTerminal(k)
        /\ \/ k \in p.dirty
           \/ k \notin DOMAIN p.last_successful
           \/ p.last_successful[k] # p.desired[k]}

prepare_if_due(p) ==
    LET attempted == Keep(p.desired, Candidates(p)) IN
    IF InFlight(p) THEN p
    ELSE IF DOMAIN attempted = {} THEN [p EXCEPT !.pending = FALSE]
    ELSE IF ~p.due THEN p
    ELSE [p EXCEPT !.in_flight = attempted, !.due = FALSE, !.pending = FALSE]

accept_rendered_frame(p, f) ==
    [p EXCEPT !.desired = f, !.dirty = @ \cap DOMAIN f,
              !.last_successful = Keep(@, DOMAIN f)]

on_snapshot_revision(p, revision, f) ==
    IF p.shutting_down \/ revision <= p.last_revision THEN p
    ELSE prepare_if_due([accept_rendered_frame(p, f) EXCEPT
                            !.last_revision = revision, !.pending = TRUE])

flush_coalesced(p) == IF p.pending THEN prepare_if_due(p) ELSE p

remove_keys(p, keys) ==
    [p EXCEPT !.desired = Keep(@, DOMAIN @ \ keys), !.dirty = @ \ keys,
              !.last_successful = Keep(@, DOMAIN @ \ keys)]

retain_topology_targets(p, targets) == remove_keys(p, Key \ KeysOf(targets))

request_shutdown(p) ==
    LET last == [k \in {k \in DOMAIN p.desired \cup {Global} : IsTerminal(k)} |->
                    IF k[1] = "summary" THEN Marker ELSE Unset]
    IN prepare_if_due([p EXCEPT !.shutting_down = TRUE, !.desired = Put(@, last),
                                !.dirty = DOMAIN last, !.pending = TRUE])

\* Mutant: a failed batch leaves its keys clean, and keys that are no longer wanted are recorded.
M_complete_batch(p, succeeded) ==
    [p EXCEPT !.in_flight = NoKeys, !.pending = @ \/ ~succeeded,
              !.dirty = @ \ DOMAIN p.in_flight,
              !.last_successful = IF succeeded THEN Put(@, p.in_flight) ELSE @]

complete_batch(p, succeeded) ==
    LET keys == {k \in DOMAIN p.in_flight :
                    k \in DOMAIN p.desired /\ (p.shutting_down => IsTerminal(k))}
        dirty == IF succeeded THEN p.dirty \ keys ELSE p.dirty \cup keys
    IN [p EXCEPT !.in_flight = NoKeys, !.dirty = dirty,
                 !.last_successful = IF succeeded THEN Put(@, Keep(p.in_flight, keys)) ELSE @,
                 !.pending = @ \/ (~succeeded /\ dirty # {})]

-----------------------------------------------------------------------------
(* The tmux server (external).                                              *)

Dead(k) == k # Global /\ k[2] \notin tmux.alive

Write(f) == [tmux EXCEPT !.opts = [k \in Key |->
                IF k \in DOMAIN f /\ ~Dead(k) THEN f[k] ELSE @[k]]]

(* A session or a pane disappears before the daemon knows.                  *)
TargetDies(t) ==
    /\ t \in tmux.alive
    /\ tmux' = [alive |-> tmux.alive \ {t},
                opts |-> [k \in Key |-> IF k[2] = t THEN Absent ELSE tmux.opts[k]]]
    /\ UNCHANGED <<canon, push, driver, captured, worker_, stop>>

(* The minimum interval since the last attempt has passed.                  *)
IntervalPasses ==
    /\ ~push.due /\ push' = [push EXCEPT !.due = TRUE]
    /\ UNCHANGED <<canon, driver, captured, worker_, stop, tmux>>

-----------------------------------------------------------------------------
(* The mutation worker.                                                     *)

Alive == stop \notin {"failed", "done"}

(* Any mutation that changes what is displayed for a target.                *)
ContentChange(t) ==
    /\ Alive /\ canon.revision < MaxRevision
    /\ \E k \in DOMAIN canon.frame : k[2] = t
    /\ canon' = [revision |-> canon.revision + 1,
                 frame |-> [k \in DOMAIN canon.frame |->
                    IF k[2] = t THEN CHOOSE v \in Text : v # canon.frame[k]
                                ELSE canon.frame[k]]]
    /\ UNCHANGED <<push, driver, captured, worker_, stop, tmux>>

(* A mutation that changes the topology holds the driver lock while it is   *)
(* applied and drops the targets that left (sync_status_push_topology_      *)
(* targets_locked).  A new target is one that tmux has.                     *)
TopologyChange(t) ==
    /\ Alive /\ driver = "free"
    /\ t \in tmux.alive => canon.revision < MaxRevision
    /\ LET known == {u \in Target : \E k \in DOMAIN canon.frame : k[2] = u}
           next == IF t \in known THEN known \ {t} ELSE known \cup {t}
           text == [k \in Key |-> IF k \in DOMAIN canon.frame THEN canon.frame[k] ELSE "a"]
       IN /\ (t \in known) = (t \notin tmux.alive)
          /\ canon' = [revision |-> canon.revision + 1,
                       frame |-> build_display_frame(next, text)]
          /\ push' = retain_topology_targets(push, next)
    /\ UNCHANGED <<driver, captured, worker_, stop, tmux>>

-----------------------------------------------------------------------------
(* drive_status_push                                                        *)

After(w) == IF w = "snapshot" THEN "flush" ELSE "snapshot"

(* Snapshot trigger: skip a revision already pushed, else read the frame    *)
(* under the canonical state lock and release it before rendering.          *)
DriveSnapshot ==
    /\ worker_ = "snapshot" /\ driver = "free" /\ stop \in {"no", "asked", "marked"}
    /\ IF push.last_revision = canon.revision
       THEN worker_' = After(worker_) /\ UNCHANGED <<driver, captured>>
       ELSE captured' = canon /\ driver' = "rendering" /\ UNCHANGED worker_
    /\ UNCHANGED <<canon, push, stop, tmux>>

Rendered ==
    /\ driver = "rendering"
    /\ push' = on_snapshot_revision(push, captured.revision, captured.frame)
    /\ IF InFlight(push') THEN driver' = "writing" /\ UNCHANGED worker_
                          ELSE driver' = "free" /\ worker_' = After(worker_)
    /\ UNCHANGED <<canon, captured, stop, tmux>>

DriveFlush ==
    /\ worker_ = "flush" /\ driver = "free" /\ stop \in {"no", "asked", "marked"}
    /\ push' = flush_coalesced(push)
    /\ IF InFlight(push') THEN driver' = "writing" /\ UNCHANGED worker_
                          ELSE worker_' = After(worker_) /\ UNCHANGED driver
    /\ UNCHANGED <<canon, captured, stop, tmux>>

(* The worker sees the shutdown flag between two rounds.                    *)
WorkerLeaves ==
    /\ worker_ # "gone" /\ driver \notin {"rendering", "writing"}
    /\ stop \in {"done", "failed"}
    /\ worker_' = "gone"
    /\ UNCHANGED <<canon, push, driver, captured, stop, tmux>>

-----------------------------------------------------------------------------
(* execute_status_push_decision: who = "writing" for the worker, "marking"  *)
(* for the shutdown projection.                                             *)

Release ==
    IF driver = "writing" THEN driver' = "free" /\ worker_' = After(worker_)
                          ELSE driver' = "marker" /\ UNCHANGED worker_

BatchSucceeds ==
    /\ driver \in {"writing", "marking"}
    /\ \A k \in DOMAIN push.in_flight : ~Dead(k)
    /\ tmux' = Write(push.in_flight)
    /\ push' = complete_batch(push, TRUE)
    /\ Release /\ UNCHANGED <<canon, captured, stop>>

(* A dead target, a timeout or an unreachable server; tmux may have applied *)
(* the batch up to any kind of key (writes go in the order of the keys).    *)
Written(n) == {k \in Key : CASE k[1] = "global" -> n >= 1 [] k[1] = "summary" -> n >= 2
                              [] k[1] = "segments" -> n >= 3 [] k[1] = "attention" -> n >= 4
                              [] OTHER -> n >= 5}
BatchFails ==
    /\ driver \in {"writing", "marking"}
    /\ \E n \in 0..5 : tmux' = Write(Keep(push.in_flight, Written(n)))
    /\ push' = complete_batch(push, FALSE)
    /\ Release /\ UNCHANGED <<canon, captured, stop>>

(* A pane id that belongs to another process now: the rest was applied.     *)
BatchPaneMismatch ==
    /\ driver \in {"writing", "marking"}
    /\ \A k \in DOMAIN push.in_flight : Dead(k) => k[1] = "pane"
    /\ \E k \in DOMAIN push.in_flight :
          Dead(k) /\ push' = remove_keys(complete_batch(push, FALSE), {k})
    /\ tmux' = Write(push.in_flight)
    /\ Release /\ UNCHANGED <<canon, captured, stop>>

(* Another tmux server: nothing is written and the daemon fail-stops.       *)
BatchServerMismatch ==
    /\ driver \in {"writing", "marking"}
    /\ push' = complete_batch(push, FALSE)
    /\ stop' = "failed"
    /\ IF driver = "writing" THEN driver' = "free" /\ worker_' = After(worker_)
                             ELSE driver' = "free" /\ UNCHANGED worker_
    /\ UNCHANGED <<canon, captured, tmux>>

-----------------------------------------------------------------------------
(* begin_shutdown: write_status_shutdown_projection, then the flag.         *)

ShutdownAsked ==
    /\ stop = "no" /\ stop' = "asked"
    /\ UNCHANGED <<canon, push, driver, captured, worker_, tmux>>

ShutdownProjection ==
    /\ stop = "asked" /\ driver = "free"
    /\ push' = request_shutdown(push)
    /\ driver' = IF InFlight(push') THEN "marking" ELSE "marker"
    /\ UNCHANGED <<canon, captured, worker_, stop, tmux>>

(* The loop: flush until nothing is left or the two seconds are over.       *)
ShutdownFlush ==
    /\ driver = "marker" /\ stop = "asked"
    /\ push' = flush_coalesced(push)
    /\ IF InFlight(push') THEN driver' = "marking" /\ UNCHANGED stop
       ELSE \/ push'.pending /\ UNCHANGED <<driver, stop>>
            \/ ~push'.pending /\ driver' = "free" /\ stop' = "marked"
    /\ UNCHANGED <<canon, captured, worker_, tmux>>

ShutdownGivesUp ==
    /\ driver = "marker" /\ stop = "asked" /\ push.pending
    /\ driver' = "free" /\ stop' = "marked"
    /\ UNCHANGED <<canon, push, captured, worker_, tmux>>

ShutdownFlag ==
    /\ stop = "marked" /\ stop' = "done"
    /\ UNCHANGED <<canon, push, driver, captured, worker_, tmux>>

-----------------------------------------------------------------------------
SpInit ==
    /\ canon = [revision |-> 1, frame |-> build_display_frame(Target, [k \in Key |-> "a"])]
    /\ push = NewPush
    /\ driver = "free"
    /\ captured = [revision |-> 0, frame |-> NoKeys]
    /\ worker_ = "snapshot"
    /\ stop = "no"
    /\ tmux = [alive |-> Target, opts |-> [k \in Key |-> Absent]]

Drive == DriveSnapshot \/ Rendered \/ DriveFlush \/ WorkerLeaves
BatchEnds == BatchSucceeds \/ BatchFails \/ BatchPaneMismatch \/ BatchServerMismatch
Shutdown == ShutdownProjection \/ ShutdownFlush \/ ShutdownGivesUp \/ ShutdownFlag

SpNext ==
    \/ Drive \/ BatchEnds \/ Shutdown \/ ShutdownAsked \/ IntervalPasses
    \/ \E t \in Target : ContentChange(t) \/ TopologyChange(t) \/ TargetDies(t)

SpSpec == SpInit /\ [][SpNext]_spVars

(* The worker and the shutdown thread run, a batch ends within its second,  *)
(* the interval passes, an observation finds dead targets, and tmux does    *)
(* not fail every batch for ever.                                           *)
ForgetDead == \E t \in Target : t \notin tmux.alive /\ TopologyChange(t)
SpFairness ==
    /\ WF_spVars(Drive) /\ WF_spVars(BatchEnds) /\ WF_spVars(Shutdown)
    /\ WF_spVars(IntervalPasses) /\ SF_spVars(ForgetDead)
    /\ SF_spVars(BatchSucceeds) /\ SF_spVars(BatchPaneMismatch)
SpFairSpec == SpSpec /\ SpFairness

-----------------------------------------------------------------------------
(* Properties.                                                              *)

SpTypeOK ==
    /\ canon.revision \in 1..(MaxRevision + Cardinality(Target)) /\ DOMAIN canon.frame \subseteq Key
    /\ push.dirty \subseteq DOMAIN push.desired
    /\ DOMAIN push.last_successful \subseteq DOMAIN push.desired
    /\ push.last_revision \in 0..canon.revision
    /\ driver \in {"free", "rendering", "writing", "marker", "marking"}
    /\ stop \in {"no", "asked", "marked", "done", "failed"}
    /\ tmux.alive \subseteq Target
    /\ InFlight(push) = (driver \in {"writing", "marking"})

(* What the daemon believes to be shown is shown: a key that is recorded as *)
(* written and not dirty has that value in tmux, whatever part of earlier   *)
(* batches was applied (complete_batch, accept_rendered_frame).  After the  *)
(* shutdown projection this holds of the keys it still writes.              *)
RecordedIsShown ==
    \A k \in DOMAIN push.last_successful \ push.dirty :
        ~Dead(k) /\ k \notin DOMAIN push.in_flight /\ (push.shutting_down => IsTerminal(k)) => tmux.opts[k] = push.last_successful[k]

(* No difference is forgotten: while the worker runs, a key whose recorded  *)
(* value is not the wanted one is in flight, or a trigger or a newer        *)
(* revision will bring it back (pending_coalesced_trigger).                 *)
NoKeyForgotten ==
    Alive /\ Candidates(push) # {} =>
        InFlight(push) \/ push.pending \/ push.last_revision < canon.revision

(* After the shutdown projection only the summary, attention and legacy     *)
(* options are ever written, so a frame rendered before the shutdown cannot *)
(* overwrite it (shutting_down in on_snapshot_revision and prepare_if_due). *)
OnlyMarkerAfterShutdown ==
    push.shutting_down => \A k \in DOMAIN push.in_flight :
        IsTerminal(k) /\ push.in_flight[k] \in {Marker, Unset}

(* A shutdown projection that was not cut off at its two seconds leaves the *)
(* marker on every session the daemon displayed.                            *)
MarkerShown ==
    driver = "free" /\ stop \in {"marked", "done"} /\ ~push.pending =>
        \A k \in DOMAIN push.desired : k[1] = "summary" /\ ~Dead(k) => tmux.opts[k] = Marker

(* The safety of the status display: the parts above.                       *)
DisplaySound ==
    SpTypeOK /\ RecordedIsShown /\ NoKeyForgotten /\ OnlyMarkerAfterShutdown /\ MarkerShown

(* Once the canonical state settles, tmux shows exactly its frame, unless   *)
(* the daemon stops (the retry after a failed batch).                       *)
DisplayConverges ==
    []<>(\/ stop # "no"
         \/ \A k \in DOMAIN canon.frame : ~Dead(k) => tmux.opts[k] = canon.frame[k])
=============================================================================
