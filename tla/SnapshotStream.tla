--------------------------- MODULE SnapshotStream ---------------------------
(* How a resolved snapshot reaches a sidebar: publish_resolved_snapshot with *)
(* its cache, the subscription thread of the daemon with heartbeats and the  *)
(* limit on streaming connections, and the subscriber that reads, checks     *)
(* revisions and reconnects.                                                 *)
(*                                                                           *)
(* The content of a snapshot is its revision.  A snapshot can be too large   *)
(* for a frame: the cache then holds an error, and the stream ends.          *)
EXTENDS Naturals, Sequences

CONSTANTS
    StreamCapacity,     \* streaming connections the limiter admits
    MaxChange,          \* bound: canonical changes
    MaxRestart,         \* bound: daemon restarts
    MaxWire             \* bound: frames in the socket buffer

ASSUME StreamAssumption == StreamCapacity \in Nat

VARIABLES
    daemon,     \* one daemon process: instance, revision, cache, ...
    publisher,  \* publish_resolved_snapshot by the mutation worker and by a query
    streams,    \* subscription threads; the last one may serve the subscriber
    wire,       \* frames the subscriber has not read, and whether the end is closed
    subscriber, \* subscribe_v2
    changes     \* bound: changes so far

ssVars == <<daemon, publisher, streams, wire, subscriber, changes>>

Publisher == {"worker", "query"}
NoCache == [revision |-> 0, terminal |-> FALSE]
IdlePublisher == [at |-> "idle", revision |-> 0, big |-> FALSE]

(* A daemon after bootstrap: canonical state of revision 1, published.       *)
NewDaemon(instance, hash) ==
    [instance |-> instance, revision |-> 1, big |-> FALSE, hash |-> hash,
     cache |-> [revision |-> 1, terminal |-> FALSE],
     diagnosed |-> FALSE, reported |-> FALSE, shutdown |-> FALSE]

Frame(kind, revision) == [kind |-> kind, revision |-> revision, instance |-> daemon.instance]

-----------------------------------------------------------------------------
(* publish_resolved_snapshot                                                 *)

(* A mutation is applied; its worker then publishes.                         *)
Mutate ==
    /\ changes < MaxChange /\ ~daemon.shutdown /\ publisher["worker"].at = "idle"
    /\ \E big \in BOOLEAN :
          daemon' = [daemon EXCEPT !.revision = @ + 1, !.big = big]
    /\ changes' = changes + 1
    /\ publisher' = [publisher EXCEPT !["worker"].at = "check"]
    /\ UNCHANGED <<streams, wire, subscriber>>

(* FrameTooLargeProjection: one diagnostic, which is itself a change.        *)
DiagnoseTooLarge ==
    /\ daemon.reported /\ ~daemon.shutdown /\ publisher["worker"].at = "idle"
    /\ daemon' = [daemon EXCEPT !.reported = FALSE, !.diagnosed = TRUE,
                                !.revision = IF daemon.diagnosed THEN @ ELSE @ + 1]
    /\ publisher' = [publisher EXCEPT !["worker"].at = "check"]
    /\ UNCHANGED <<streams, wire, subscriber, changes>>

(* QueryResolvedSnapshot of some other client.                               *)
QuerySnapshot ==
    /\ publisher["query"].at = "idle" /\ ~daemon.shutdown
    /\ daemon.revision > daemon.cache.revision
    /\ publisher' = [publisher EXCEPT !["query"].at = "check"]
    /\ UNCHANGED <<daemon, streams, wire, subscriber, changes>>

(* The fast path compares revisions, the slow path builds the snapshot       *)
(* under the state lock.                                                     *)
PublishBuild(p) ==
    /\ publisher[p].at = "check"
    /\ publisher' = [publisher EXCEPT ![p] =
            IF daemon.cache.revision >= daemon.revision THEN IdlePublisher
            ELSE [at |-> "store", revision |-> daemon.revision, big |-> daemon.big]]
    /\ UNCHANGED <<daemon, streams, wire, subscriber, changes>>

\* Mutant: an older snapshot overwrites the newer one.
M_Superseded(p) == FALSE

(* Under the cache lock an older snapshot gives way to what is there.        *)
Superseded(p) == daemon.cache.revision >= publisher[p].revision

PublishStore(p) ==
    /\ publisher[p].at = "store"
    /\ daemon' = IF Superseded(p) THEN daemon
                 ELSE [daemon EXCEPT !.cache = [revision |-> publisher[p].revision,
                                                terminal |-> publisher[p].big],
                                     !.reported = @ \/ publisher[p].big]
    /\ publisher' = [publisher EXCEPT ![p] = IdlePublisher]
    /\ UNCHANGED <<streams, wire, subscriber, changes>>

-----------------------------------------------------------------------------
(* Subscriptions in the daemon: streams is a sequence of threads in the      *)
(* order they were admitted; only the last can have a live peer.             *)

Peer(i) == i = Len(streams) /\ subscriber.at = "streaming" /\ ~wire.closed

RemoveStream(i) == [j \in 1..(Len(streams) - 1) |-> IF j < i THEN streams[j] ELSE streams[j + 1]]

(* The peer has gone and the write fails: the permit is released.            *)
EndStream(i) == streams' = RemoveStream(i)

(* wait_for_snapshot_after returns a newer snapshot, the end, or a heartbeat *)
(* after an idle interval.                                                   *)
StreamSnapshot(i) ==
    /\ i \in DOMAIN streams /\ daemon.cache.revision > streams[i]
    /\ IF ~Peer(i) THEN EndStream(i) /\ UNCHANGED wire
       ELSE /\ Len(wire.frames) < MaxWire
            /\ wire' = [frames |-> Append(wire.frames,
                            Frame(IF daemon.cache.terminal THEN "error" ELSE "snapshot",
                                  daemon.cache.revision)),
                        closed |-> daemon.cache.terminal]
            /\ IF daemon.cache.terminal THEN EndStream(i)
               ELSE streams' = [streams EXCEPT ![i] = daemon.cache.revision]
    /\ UNCHANGED <<daemon, publisher, subscriber, changes>>

StreamHeartbeat(i) ==
    /\ i \in DOMAIN streams /\ daemon.cache.revision <= streams[i] /\ ~daemon.shutdown
    /\ IF ~Peer(i) THEN EndStream(i) /\ UNCHANGED wire
       ELSE /\ wire.frames = <<>>
            /\ wire' = [wire EXCEPT !.frames = <<Frame("heartbeat", daemon.cache.revision)>>]
            /\ UNCHANGED streams
    /\ UNCHANGED <<daemon, publisher, subscriber, changes>>

StreamEnds(i) ==
    /\ i \in DOMAIN streams /\ daemon.cache.revision <= streams[i] /\ daemon.shutdown
    /\ EndStream(i)
    /\ wire' = IF Peer(i) THEN [wire EXCEPT !.closed = TRUE] ELSE wire
    /\ UNCHANGED <<daemon, publisher, subscriber, changes>>

(* The write deadline passes with the buffer full: the frame is cut off.     *)
StreamWriteTimeout(i) ==
    /\ i \in DOMAIN streams /\ Peer(i) /\ Len(wire.frames) >= MaxWire
    /\ daemon.cache.revision > streams[i]
    /\ EndStream(i)
    /\ wire' = [frames |-> Append(wire.frames, Frame("cut", 0)), closed |-> TRUE]
    /\ UNCHANGED <<daemon, publisher, subscriber, changes>>

ShutdownFlagSet ==
    /\ ~daemon.shutdown /\ daemon.instance < MaxRestart
    /\ daemon' = [daemon EXCEPT !.shutdown = TRUE]
    /\ UNCHANGED <<publisher, streams, wire, subscriber, changes>>

(* The process ends, at a shutdown or a crash, and another one starts, with  *)
(* the same or another configuration; what was written stays readable.       *)
Restart ==
    /\ daemon.instance < MaxRestart
    /\ \E hash \in {"old", "new"} : daemon' = NewDaemon(daemon.instance + 1, hash)
    /\ publisher' = [p \in Publisher |-> IdlePublisher]
    /\ streams' = <<>>
    /\ wire' = [wire EXCEPT !.closed = TRUE]
    /\ UNCHANGED <<subscriber, changes>>

-----------------------------------------------------------------------------
(* subscribe_v2                                                              *)

Lose(update) == subscriber' = [subscriber EXCEPT !.at = "backoff", !.update = update]

(* verify_active_config_hash, hello, Subscribe: the permit, a published      *)
(* snapshot (QuerySnapshot stands for its publishing) and its frame.  An     *)
(* initial error frame ends the connection.                                  *)
Connect ==
    /\ subscriber.at = "connecting" /\ ~daemon.shutdown
    /\ IF daemon.hash # "old"
       THEN /\ subscriber' = [subscriber EXCEPT !.at = "ended", !.update = "config_changed"]
            /\ UNCHANGED <<streams, wire>>
       ELSE IF Len(streams) >= StreamCapacity
       THEN Lose("degraded") /\ UNCHANGED <<streams, wire>>
       ELSE /\ daemon.cache.revision >= daemon.revision
            /\ IF daemon.cache.terminal THEN Lose("degraded") /\ UNCHANGED <<streams, wire>>
               ELSE /\ streams' = Append(streams, daemon.cache.revision)
                    /\ wire' = [frames |-> <<Frame("snapshot", daemon.cache.revision)>>,
                                closed |-> FALSE]
                    /\ subscriber' = [at |-> "streaming", update |-> "connecting",
                                      last |-> 0, instance |-> daemon.instance]
    /\ UNCHANGED <<daemon, publisher, changes>>

(* The daemon is stopping or hydrating.                                      *)
ConnectFails ==
    /\ subscriber.at = "connecting" /\ daemon.shutdown
    /\ Lose("degraded")
    /\ UNCHANGED <<daemon, publisher, streams, wire, changes>>

Backoff ==
    /\ subscriber.at = "backoff"
    /\ subscriber' = [subscriber EXCEPT !.at = "connecting"]
    /\ UNCHANGED <<daemon, publisher, streams, wire, changes>>

(* read_next_snapshot_until                                                  *)
Adopts(f) == f.kind = "snapshot" /\ f.revision > subscriber.last
Protocol(f) == \/ f.kind \in {"error", "cut"}
               \/ f.kind = "heartbeat" /\ (\/ f.instance # subscriber.instance
                                           \/ f.revision < subscriber.last)
ReadFrame ==
    /\ subscriber.at = "streaming" /\ wire.frames # <<>>
    /\ LET f == Head(wire.frames) IN
       /\ wire' = IF Protocol(f) THEN [frames |-> <<>>, closed |-> TRUE]
                  ELSE [wire EXCEPT !.frames = Tail(@)]
       /\ IF Protocol(f) THEN Lose("degraded")
          ELSE IF Adopts(f)
          THEN subscriber' = [subscriber EXCEPT !.last = f.revision, !.update = "connected"]
          ELSE UNCHANGED subscriber
    /\ UNCHANGED <<daemon, publisher, streams, changes>>

ReadEnd ==
    /\ subscriber.at = "streaming" /\ wire.frames = <<>> /\ wire.closed
    /\ Lose("disconnected")
    /\ UNCHANGED <<daemon, publisher, streams, wire, changes>>

-----------------------------------------------------------------------------
SsInit ==
    /\ daemon = NewDaemon(0, "old")
    /\ publisher = [p \in Publisher |-> IdlePublisher]
    /\ streams = <<>>
    /\ wire = [frames |-> <<>>, closed |-> TRUE]
    /\ subscriber = [at |-> "connecting", update |-> "connecting", last |-> 0, instance |-> 0]
    /\ changes = 0

Publish == \E p \in Publisher : PublishBuild(p) \/ PublishStore(p)
Stream == \E i \in 1..StreamCapacity :
    StreamSnapshot(i) \/ StreamHeartbeat(i) \/ StreamEnds(i)
Subscribe == Connect \/ ConnectFails \/ Backoff \/ ReadFrame \/ ReadEnd
SsNext ==
    \/ Mutate \/ DiagnoseTooLarge \/ QuerySnapshot \/ Publish \/ Stream \/ Subscribe
    \/ ShutdownFlagSet \/ Restart
    \/ \E i \in 1..StreamCapacity : StreamWriteTimeout(i)

SsSpec == SsInit /\ [][SsNext]_ssVars

(* Every thread runs, and a heartbeat interval passes.                       *)
SsFairness ==
    /\ WF_ssVars(Publish) /\ WF_ssVars(DiagnoseTooLarge) /\ WF_ssVars(Stream)
    /\ WF_ssVars(Backoff) /\ WF_ssVars(ReadFrame) /\ WF_ssVars(ReadEnd)
    /\ SF_ssVars(Connect)
SsFairSpec == SsSpec /\ SsFairness

-----------------------------------------------------------------------------
(* Properties.                                                               *)

(* What a subscriber shows is a revision its daemon published, and frames    *)
(* on the way never announce more than the daemon has; a frame of another    *)
(* daemon process is never read (the socket ends with the process).          *)
StreamSound ==
    /\ Len(streams) <= StreamCapacity
    /\ daemon.cache.revision <= daemon.revision
    /\ subscriber.at = "streaming" /\ subscriber.instance = daemon.instance =>
          /\ subscriber.last <= daemon.cache.revision
          /\ ~wire.closed => Len(streams) > 0
    /\ \A i \in DOMAIN wire.frames :
          subscriber.at = "streaming" => wire.frames[i].instance = subscriber.instance
                                         \/ wire.frames[i].kind = "cut"

(* A published revision is never replaced by an older one, though two        *)
(* publishers build their snapshots outside the cache lock, and a subscriber *)
(* of one connection never goes back.                                        *)
RevisionsRise ==
    [][/\ daemon'.instance = daemon.instance =>
             daemon'.cache.revision >= daemon.cache.revision
       /\ subscriber.at = "streaming" /\ subscriber'.at = "streaming" =>
             subscriber'.last >= subscriber.last]_ssVars

(* A subscriber shows the newest revision again and again, unless the        *)
(* snapshot is too large, the daemon stops, or the configuration changed:    *)
(* a lost notification, a cut frame or an unreleased permit does not leave   *)
(* it behind for good.                                                       *)
SubscriberCatchesUp ==
    []<>(\/ daemon.shutdown \/ daemon.cache.terminal \/ daemon.big
         \/ subscriber.at = "ended"
         \/ subscriber.at = "streaming" /\ subscriber.last = daemon.revision)
=============================================================================
