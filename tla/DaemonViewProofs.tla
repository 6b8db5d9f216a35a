-------------------------- MODULE DaemonViewProofs --------------------------
(* Proofs about what the daemon shows or believes of tmux (MCDaemonCore):    *)
(* snapshots for subscribers, the control connection, the status options;    *)
(* and about the queue that its mutations go through.                        *)
(* The modules share no state, so each has its own inductive invariant; the  *)
(* theorem at the end combines them.  Each part is laid out alike: shapes,   *)
(* the invariant by named conjuncts, one lemma per step, what it gives.      *)
EXTENDS MCDaemonCore, FiniteSetTheorems, SequenceTheorems, TLAPS
-----------------------------------------------------------------------------
(* SnapshotStream.                                                           *)

FrameRec ==
    [kind : {"snapshot", "error", "heartbeat", "cut"}, revision : Nat, instance : Nat]
SsShapes ==
    /\ daemon \in [instance : Nat, revision : Nat, big : BOOLEAN, hash : {"old", "new"},
                   cache : [revision : Nat, terminal : BOOLEAN], diagnosed : BOOLEAN,
                   reported : BOOLEAN, shutdown : BOOLEAN]
    /\ publisher \in [Publisher -> [at : {"idle", "check", "store"}, revision : Nat,
                                    big : BOOLEAN]]
    /\ streams \in Seq(Nat)
    /\ wire \in [frames : Seq(FrameRec), closed : BOOLEAN]
    /\ subscriber \in [at : {"connecting", "streaming", "backoff", "ended"},
                       update : {"connecting", "connected", "degraded", "disconnected",
                                 "config_changed"},
                       last : Nat, instance : Nat]

(* What was built outside the cache lock, and what is cached, is not newer   *)
(* than the canonical state.                                                 *)
CacheBehind ==
    /\ daemon.cache.revision <= daemon.revision
    /\ \A p \in Publisher : publisher[p].revision <= daemon.revision

(* The subscriber's connection: to this process while it is open, and the    *)
(* frames on it are of the process it was made to.                           *)
FramesBehind ==
    /\ subscriber.instance <= daemon.instance
    /\ subscriber.at = "streaming" /\ ~wire.closed =>
          subscriber.instance = daemon.instance /\ Len(streams) > 0
    /\ subscriber.at = "streaming" /\ subscriber.instance = daemon.instance =>
          /\ subscriber.last <= daemon.cache.revision
          /\ \A i \in DOMAIN wire.frames : wire.frames[i].revision <= daemon.cache.revision
    /\ subscriber.at = "streaming" =>
          \A i \in DOMAIN wire.frames : wire.frames[i].instance = subscriber.instance
                                        \/ wire.frames[i].kind = "cut"

SsInv == SsShapes /\ CacheBehind /\ FramesBehind /\ Len(streams) <= StreamCapacity

(* A queue after one more entry, and after its first entry was taken.        *)
LEMMA Appended ==
    ASSUME NEW S, NEW q \in Seq(S), NEW e \in S
    PROVE  /\ Append(q, e) \in Seq(S) /\ Len(Append(q, e)) = Len(q) + 1
           /\ DOMAIN Append(q, e) = DOMAIN q \cup {Len(q) + 1}
           /\ DOMAIN q = 1..Len(q) /\ Len(q) \in Nat
           /\ \A i \in DOMAIN q : Append(q, e)[i] = q[i]
           /\ Append(q, e)[Len(q) + 1] = e
  BY AppendProperties, LenProperties

LEMMA Taken_ ==
    ASSUME NEW S, NEW q \in Seq(S), q # <<>>
    PROVE  /\ Head(q) \in S /\ Tail(q) \in Seq(S) /\ Len(Tail(q)) = Len(q) - 1
           /\ Head(q) = q[1] /\ 1 \in DOMAIN q
           /\ DOMAIN q = 1..Len(q) /\ Len(q) \in Nat
           /\ \A i \in DOMAIN Tail(q) : i + 1 \in DOMAIN q /\ Tail(q)[i] = q[i + 1]
  BY LenProperties, EmptySeq, HeadTailProperties, ElementOfSeq

LEMMA RemovedStream ==
    ASSUME streams \in Seq(Nat), NEW i \in DOMAIN streams
    PROVE  RemoveStream(i) \in Seq(Nat) /\ Len(RemoveStream(i)) = Len(streams) - 1
           /\ Len(streams) \in Nat /\ i \in 1..Len(streams)
<1>1. Len(streams) \in Nat /\ DOMAIN streams = 1..Len(streams)
      /\ \A j \in 1..Len(streams) : streams[j] \in Nat
  BY LenProperties, ElementOfSeq
<1>4. RemoveStream(i) \in Seq(Nat) BY <1>1, SeqDef DEF RemoveStream
<1>. DEFINE n == Len(streams) - 1
            m == Len(RemoveStream(i))
<1>5. 1..n = 1..m /\ m \in Nat /\ n \in Nat BY <1>1, <1>4, LenProperties DEF RemoveStream
<1>6. n = m
  <2>. HIDE DEF n, m
  <2>. QED BY <1>5
<1>. QED BY <1>1, <1>4, <1>6

LEMMA SsStart == ASSUME StreamCapacity \in Nat PROVE SsInit => SsInv
<1>. SUFFICES ASSUME SsInit PROVE SsInv OBVIOUS
<1>. USE DEF SsInit, NewDaemon, IdlePublisher, Publisher
<1>. QED BY EmptySeq DEF SsInv, SsShapes, CacheBehind, FramesBehind

(* Steps that leave the connection alone: a publisher's, the daemon's own.   *)
LEMMA SsDaemonSteps ==
    ASSUME SsInv, UNCHANGED <<streams, wire, subscriber>>, SsShapes', CacheBehind',
           daemon'.instance = daemon.instance, daemon'.cache.revision >= daemon.cache.revision
    PROVE  SsInv'
<1>1. FramesBehind'
  <2>1. \A i \in DOMAIN wire.frames : wire.frames[i] \in FrameRec BY LenProperties, ElementOfSeq DEF SsInv, SsShapes
  <2>. QED BY <2>1 DEF SsInv, SsShapes, FramesBehind, FrameRec
<1>. QED BY <1>1 DEF SsInv

LEMMA SsPublishing ==
    ASSUME SsInv, NEW p \in Publisher,
           Mutate \/ DiagnoseTooLarge \/ QuerySnapshot \/ ShutdownFlagSet
              \/ PublishBuild(p) \/ PublishStore(p)
    PROVE  SsInv' /\ UNCHANGED subscriber /\ daemon'.instance = daemon.instance
           /\ daemon'.cache.revision >= daemon.cache.revision
<1>. USE DEF SsInv, SsShapes, CacheBehind, Publisher, IdlePublisher
<1>1. UNCHANGED <<streams, wire, subscriber>>
  BY DEF Mutate, DiagnoseTooLarge, QuerySnapshot, ShutdownFlagSet, PublishBuild, PublishStore
<1>s. ASSUME daemon' \in [instance : Nat, revision : Nat, big : BOOLEAN, hash : {"old", "new"},
                   cache : [revision : Nat, terminal : BOOLEAN], diagnosed : BOOLEAN,
                   reported : BOOLEAN, shutdown : BOOLEAN],
             publisher' \in [Publisher -> [at : {"idle", "check", "store"}, revision : Nat,
                                           big : BOOLEAN]]
      PROVE  SsShapes'
  <2>1. SsShapes OBVIOUS
  <2>. HIDE DEF SsInv, CacheBehind, Publisher, IdlePublisher
  <2>. QED BY <1>1, <1>s, <2>1
<1>2. CASE Mutate
  <2>. DEFINE r == daemon.revision + 1
  <2>0. r \in Nat /\ r > daemon.revision OBVIOUS
  <2>1. PICK big \in BOOLEAN : daemon' = [daemon EXCEPT !.revision = r, !.big = big] BY <1>2 DEF Mutate
  <2>. HIDE DEF r
  <2>3. /\ daemon'.instance = daemon.instance /\ daemon'.cache = daemon.cache
        /\ daemon'.revision = r
        /\ daemon' \in [instance : Nat, revision : Nat, big : BOOLEAN, hash : {"old", "new"},
                   cache : [revision : Nat, terminal : BOOLEAN], diagnosed : BOOLEAN,
                   reported : BOOLEAN, shutdown : BOOLEAN]
    BY <2>0, <2>1
  <2>4. /\ \A q \in Publisher : publisher'[q].revision = publisher[q].revision
        /\ publisher' \in [Publisher -> [at : {"idle", "check", "store"}, revision : Nat,
                                         big : BOOLEAN]]
    <3>. DEFINE e == [publisher["worker"] EXCEPT !.at = "check"]
    <3>1. /\ e \in [at : {"idle", "check", "store"}, revision : Nat, big : BOOLEAN]
          /\ e.revision = publisher["worker"].revision
      OBVIOUS
    <3>2. publisher' = [publisher EXCEPT !["worker"] = e] BY <1>2 DEF Mutate
    <3>. HIDE DEF e
    <3>. QED BY <3>1, <3>2
  <2>. HIDE DEF SsInv, SsShapes, CacheBehind, Publisher, IdlePublisher
  <2>5. SsShapes' BY <1>s, <2>3, <2>4, Zenon
  <2>. QED BY <1>1, <2>3, <2>5, <2>0, <2>4, SsDaemonSteps DEF SsInv, SsShapes, CacheBehind
<1>3. CASE DiagnoseTooLarge
  <2>. DEFINE r == IF daemon.diagnosed THEN daemon.revision ELSE daemon.revision + 1
  <2>1. r \in Nat /\ r >= daemon.revision OBVIOUS
  <2>2. /\ daemon' = [daemon EXCEPT !.reported = FALSE, !.diagnosed = TRUE, !.revision = r]
        /\ publisher' = [publisher EXCEPT !["worker"].at = "check"]
    BY <1>3 DEF DiagnoseTooLarge
  <2>. HIDE DEF r
  <2>3. /\ daemon'.instance = daemon.instance /\ daemon'.cache = daemon.cache
        /\ daemon'.revision = r
        /\ daemon' \in [instance : Nat, revision : Nat, big : BOOLEAN, hash : {"old", "new"},
                   cache : [revision : Nat, terminal : BOOLEAN], diagnosed : BOOLEAN,
                   reported : BOOLEAN, shutdown : BOOLEAN]
    BY <2>1, <2>2
  <2>4. /\ \A q \in Publisher : publisher'[q].revision = publisher[q].revision
        /\ publisher' \in [Publisher -> [at : {"idle", "check", "store"}, revision : Nat,
                                         big : BOOLEAN]]
    <3>. DEFINE e == [publisher["worker"] EXCEPT !.at = "check"]
    <3>1. /\ e \in [at : {"idle", "check", "store"}, revision : Nat, big : BOOLEAN]
          /\ e.revision = publisher["worker"].revision
      OBVIOUS
    <3>. HIDE DEF e
    <3>. QED BY <3>1, <2>2
  <2>. HIDE DEF SsInv, SsShapes, CacheBehind, Publisher, IdlePublisher
  <2>5. SsShapes' BY <1>s, <2>3, <2>4, Zenon
  <2>. QED BY <1>1, <2>3, <2>5, <2>1, <2>4, SsDaemonSteps DEF SsInv, SsShapes, CacheBehind
<1>4. CASE QuerySnapshot BY <1>4, <1>1, SsDaemonSteps DEF QuerySnapshot
<1>5. CASE ShutdownFlagSet
  <2>1. SsShapes' /\ CacheBehind' /\ daemon'.instance = daemon.instance
        /\ daemon'.cache = daemon.cache
    BY <1>5 DEF ShutdownFlagSet
  <2>. QED BY <1>1, <2>1, SsDaemonSteps
<1>6. CASE PublishBuild(p) BY <1>6, <1>1, SsDaemonSteps DEF PublishBuild
<1>7. CASE PublishStore(p)
  <2>1. CASE Superseded(p) BY <1>7, <2>1, <1>1, SsDaemonSteps DEF PublishStore
  <2>2. CASE ~Superseded(p)
    <3>. DEFINE v == [revision |-> publisher[p].revision, terminal |-> publisher[p].big]
                w == daemon.reported \/ publisher[p].big
    <3>a. v \in [revision : Nat, terminal : BOOLEAN] /\ v.revision = publisher[p].revision
          /\ w \in BOOLEAN /\ daemon' = [daemon EXCEPT !.cache = v, !.reported = w]
      BY <1>7, <2>2 DEF PublishStore
    <3>. HIDE DEF v, w
    <3>b. /\ daemon'.instance = daemon.instance /\ daemon'.revision = daemon.revision
          /\ daemon'.cache = v
          /\ daemon' \in [instance : Nat, revision : Nat, big : BOOLEAN, hash : {"old", "new"},
                   cache : [revision : Nat, terminal : BOOLEAN], diagnosed : BOOLEAN,
                   reported : BOOLEAN, shutdown : BOOLEAN]
      BY <3>a
    <3>c. /\ \A q \in Publisher : publisher'[q].revision = publisher[q].revision
                                   \/ publisher'[q].revision = 0
          /\ publisher' \in [Publisher -> [at : {"idle", "check", "store"}, revision : Nat,
                                         big : BOOLEAN]]
      <4>1. /\ IdlePublisher \in [at : {"idle", "check", "store"}, revision : Nat, big : BOOLEAN]
            /\ IdlePublisher.revision = 0
        OBVIOUS
      <4>3. publisher \in [Publisher -> [at : {"idle", "check", "store"}, revision : Nat,
                                         big : BOOLEAN]]
        OBVIOUS
      <4>. HIDE DEF IdlePublisher, Publisher, SsInv, SsShapes, CacheBehind
      <4>. QED BY <4>1, <1>7, <2>2, <4>3 DEF PublishStore
    <3>4. publisher[p].revision >= daemon.cache.revision BY <2>2 DEF Superseded
    <3>. HIDE DEF SsInv, SsShapes, CacheBehind, Publisher, IdlePublisher
    <3>2. SsShapes' BY <1>s, <3>b, <3>c, Zenon
    <3>3. /\ daemon'.instance = daemon.instance
          /\ daemon'.cache.revision = publisher[p].revision
          /\ CacheBehind'
      <4>1. /\ publisher[p].revision <= daemon.revision /\ daemon.revision \in Nat
            /\ \A q \in Publisher : publisher[q].revision <= daemon.revision
        BY DEF SsInv, SsShapes, CacheBehind
      <4>. QED BY <3>a, <3>b, <4>1, <3>c DEF CacheBehind
    <3>. QED BY <1>1, <3>2, <3>3, <3>4, SsDaemonSteps
  <2>. QED BY <2>1, <2>2
<1>. QED BY <1>2, <1>3, <1>4, <1>5, <1>6, <1>7

(* Steps of the streaming threads: the subscriber and the cache keep.        *)
LEMMA SsStreamSteps ==
    ASSUME SsInv, UNCHANGED <<daemon, publisher, subscriber>>, StreamCapacity \in Nat,
           streams' \in Seq(Nat), Len(streams') <= Len(streams),
           wire' \in [frames : Seq(FrameRec), closed : BOOLEAN],
           subscriber.at = "streaming" /\ ~wire'.closed => Len(streams') > 0 /\ ~wire.closed,
           subscriber.at = "streaming" =>
              \A i \in DOMAIN wire'.frames :
                 \/ i \in DOMAIN wire.frames /\ wire'.frames[i] = wire.frames[i]
                 \/ /\ wire'.frames[i].revision <= daemon.cache.revision
                    /\ wire'.frames[i].instance = subscriber.instance
                       \/ wire'.frames[i].kind = "cut"
    PROVE  SsInv'
<1>2. Len(streams') <= StreamCapacity' BY LenProperties DEF SsInv, SsShapes
<1>3. FramesBehind' BY DEF SsInv, FramesBehind
<1>. QED BY <1>2, <1>3 DEF SsInv, SsShapes, CacheBehind

LEMMA SsStreaming ==
    ASSUME StreamCapacity \in Nat, SsInv, NEW i \in DOMAIN streams,
           StreamSnapshot(i) \/ StreamHeartbeat(i) \/ StreamEnds(i) \/ StreamWriteTimeout(i)
    PROVE  SsInv' /\ UNCHANGED <<daemon, subscriber>>
<1>0. /\ daemon.cache.revision \in Nat /\ daemon.instance \in Nat
      /\ daemon.cache.terminal \in BOOLEAN
      /\ streams \in Seq(Nat) /\ wire \in [frames : Seq(FrameRec), closed : BOOLEAN]
      /\ wire.frames \in Seq(FrameRec) /\ wire.closed \in BOOLEAN
      /\ subscriber.at = "streaming" /\ ~wire.closed =>
            subscriber.instance = daemon.instance /\ Len(streams) > 0
  BY DEF SsInv, SsShapes, FramesBehind
<1>1. UNCHANGED <<daemon, publisher, subscriber>>
  BY DEF StreamSnapshot, StreamHeartbeat, StreamEnds, StreamWriteTimeout
<1>2. RemoveStream(i) \in Seq(Nat) /\ Len(RemoveStream(i)) = Len(streams) - 1
      /\ Len(streams) \in Nat /\ i \in 1..Len(streams)
  BY <1>0, RemovedStream
<1>3. ASSUME ~Peer(i), EndStream(i), UNCHANGED wire
      PROVE  SsInv'
  BY <1>2, <1>3, <1>0, <1>1, SsStreamSteps DEF Peer, EndStream
<1>4. ASSUME Peer(i), NEW f \in FrameRec, f.revision <= daemon.cache.revision,
             f.instance = daemon.instance, NEW closed \in BOOLEAN,
             wire' = [frames |-> Append(wire.frames, f), closed |-> closed],
             streams' \in Seq(Nat), Len(streams') <= Len(streams),
             ~closed => Len(streams') > 0
      PROVE  SsInv'
  BY <1>0, <1>4, Appended, <1>1, SsStreamSteps DEF Peer
<1>5. CASE StreamSnapshot(i)
  <2>1. CASE ~Peer(i) BY <1>1, <1>3, <1>5, <2>1 DEF StreamSnapshot
  <2>2. CASE Peer(i)
    <3>. DEFINE f == Frame(IF daemon.cache.terminal THEN "error" ELSE "snapshot",
                           daemon.cache.revision)
                closed == daemon.cache.terminal
    <3>1. f \in FrameRec /\ f.revision = daemon.cache.revision /\ f.instance = daemon.instance
          /\ closed \in BOOLEAN
      BY <1>0 DEF Frame, FrameRec
    <3>2. wire' = [frames |-> Append(wire.frames, f), closed |-> closed] BY <1>5, <2>2 DEF StreamSnapshot
    <3>3. streams' \in Seq(Nat) /\ Len(streams') <= Len(streams)
          /\ (~closed => Len(streams') > 0)
      <4>1. CASE daemon.cache.terminal BY <1>2, <1>5, <2>2, <4>1 DEF StreamSnapshot, EndStream
      <4>2. CASE ~daemon.cache.terminal
        <5>1. streams' = [streams EXCEPT ![i] = daemon.cache.revision] BY <1>5, <2>2, <4>2 DEF StreamSnapshot
        <5>. QED BY <1>2, <1>0, <5>1, ExceptSeq
      <4>. QED BY <4>1, <4>2
    <3>. HIDE DEF f, closed
    <3>4. f.revision <= daemon.cache.revision BY <1>0, <3>1
    <3>5. SsInv' BY <1>4, <2>2, <3>1, <3>2, <3>3, <3>4, Zenon
    <3>. QED BY <1>1, <3>5
  <2>. QED BY <1>1, <2>1, <2>2
<1>6. CASE StreamHeartbeat(i)
  <2>1. CASE ~Peer(i) BY <1>1, <1>3, <1>6, <2>1 DEF StreamHeartbeat
  <2>2. CASE Peer(i)
    <3>. DEFINE f == Frame("heartbeat", daemon.cache.revision)
    <3>1. f \in FrameRec /\ f.revision = daemon.cache.revision /\ f.instance = daemon.instance
      BY <1>0 DEF Frame, FrameRec
    <3>2. wire.frames = <<>> /\ wire' = [wire EXCEPT !.frames = <<f>>] /\ UNCHANGED streams
      BY <1>6, <2>2 DEF StreamHeartbeat
    <3>. HIDE DEF f
    <3>4. wire' = [frames |-> Append(wire.frames, f), closed |-> wire.closed] BY <1>0, <3>2
    <3>5. streams' \in Seq(Nat) /\ Len(streams') <= Len(streams) /\ Len(streams') > 0 BY <1>0, <1>2, <3>2
    <3>6. f.revision <= daemon.cache.revision BY <1>0, <3>1
    <3>7. SsInv' BY <1>0, <1>4, <2>2, <3>1, <3>4, <3>5, <3>6, Zenon
    <3>. QED BY <1>1, <3>7
  <2>. QED BY <1>1, <2>1, <2>2
<1>7. CASE StreamEnds(i)
  <2>1. CASE ~Peer(i) BY <1>1, <1>3, <1>7, <2>1 DEF StreamEnds
  <2>2. CASE Peer(i)
    <3>3. streams' \in Seq(Nat) /\ Len(streams') <= Len(streams) BY <1>2, <1>7, <2>2 DEF EndStream, StreamEnds
    <3>. QED BY <1>1, <1>0, <1>7, <2>2, <3>3, SsStreamSteps DEF StreamEnds
  <2>. QED BY <1>1, <2>1, <2>2
<1>8. CASE StreamWriteTimeout(i)
  <2>1. Peer(i) /\ EndStream(i)
        /\ wire' = [frames |-> Append(wire.frames, Frame("cut", 0)), closed |-> TRUE]
    BY <1>8 DEF StreamWriteTimeout
  <2>. DEFINE f == Frame("cut", 0)
  <2>2. f \in FrameRec /\ f.revision = 0 /\ f.instance = daemon.instance BY <1>0 DEF Frame, FrameRec
  <2>3. wire' = [frames |-> Append(wire.frames, f), closed |-> TRUE] BY <2>1
  <2>. HIDE DEF f
  <2>4. streams' \in Seq(Nat) /\ Len(streams') <= Len(streams) /\ f.revision <= daemon.cache.revision
    BY <1>0, <1>2, <2>1, <2>2 DEF EndStream
  <2>. QED BY <1>1, <1>4, <2>1, <2>2, <2>3, <2>4
<1>. QED BY <1>1, <1>5, <1>6, <1>7, <1>8

LEMMA SsRestart ==
    ASSUME StreamCapacity \in Nat, SsInv, Restart
    PROVE  SsInv' /\ daemon'.instance # daemon.instance /\ UNCHANGED subscriber
<1>0. /\ daemon.instance \in Nat /\ wire \in [frames : Seq(FrameRec), closed : BOOLEAN] BY DEF SsInv, SsShapes
<1>. DEFINE n == daemon.instance + 1
<1>1. n \in Nat /\ n > daemon.instance BY <1>0
<1>2. PICK hash \in {"old", "new"} : daemon' = NewDaemon(n, hash) BY DEF Restart
<1>. HIDE DEF n
<1>3. /\ daemon'.instance = n /\ daemon'.revision = 1 /\ daemon'.cache.revision = 1
      /\ daemon' \in [instance : Nat, revision : Nat, big : BOOLEAN, hash : {"old", "new"},
                   cache : [revision : Nat, terminal : BOOLEAN], diagnosed : BOOLEAN,
                   reported : BOOLEAN, shutdown : BOOLEAN]
  BY <1>1, <1>2 DEF NewDaemon
<1>4. /\ wire' \in [frames : Seq(FrameRec), closed : BOOLEAN]
      /\ wire'.closed = TRUE /\ wire'.frames = wire.frames
  BY <1>0 DEF Restart
<1>5. /\ publisher' = [p \in Publisher |-> IdlePublisher] /\ streams' = <<>>
      /\ UNCHANGED subscriber
  BY DEF Restart
<1>7. SsShapes' BY <1>3, <1>4, <1>5, EmptySeq DEF SsInv, SsShapes, IdlePublisher
<1>9. FramesBehind' BY <1>0, <1>1, <1>3, <1>4, <1>5 DEF SsInv, SsShapes, FramesBehind
<1>. QED BY <1>1, <1>3, <1>5, <1>7, EmptySeq, <1>9 DEF SsInv, CacheBehind, IdlePublisher

LEMMA SsSubscribing ==
    ASSUME StreamCapacity \in Nat, SsInv, Subscribe
    PROVE  /\ SsInv' /\ UNCHANGED daemon
           /\ subscriber.at = "streaming" /\ subscriber'.at = "streaming" =>
                 subscriber'.last >= subscriber.last
<1>0. /\ UNCHANGED <<daemon, publisher>>
      /\ wire \in [frames : Seq(FrameRec), closed : BOOLEAN] /\ wire.frames \in Seq(FrameRec)
      /\ streams \in Seq(Nat)
  BY DEF SsInv, SsShapes, Subscribe, Connect, ConnectFails, Backoff, ReadFrame, ReadEnd
<1>1. CacheBehind' BY <1>0 DEF SsInv, CacheBehind
(* A subscriber that is not connected, or has just lost its connection.      *)
<1>2. ASSUME NEW at \in {"connecting", "backoff", "ended"},
             NEW update \in {"connecting", "connected", "degraded", "disconnected",
                             "config_changed"},
             subscriber' = [subscriber EXCEPT !.at = at, !.update = update],
             UNCHANGED streams, wire' \in [frames : Seq(FrameRec), closed : BOOLEAN]
      PROVE  SsInv' /\ subscriber'.at # "streaming"
  BY <1>2, <1>0, <1>1 DEF SsInv, SsShapes, FramesBehind
<1>3. CASE Connect
  <2>1. CASE daemon.hash # "old" BY <1>0, <1>2, <1>3, <2>1 DEF Connect
  <2>2. CASE daemon.hash = "old" /\ (Len(streams) >= StreamCapacity \/ daemon.cache.terminal)
    BY <1>0, <1>2, <1>3, <2>2 DEF Connect, Lose
  <2>3. CASE daemon.hash = "old" /\ ~(Len(streams) >= StreamCapacity \/ daemon.cache.terminal)
    <3>. DEFINE f == Frame("snapshot", daemon.cache.revision)
    <3>1. /\ streams' = Append(streams, daemon.cache.revision)
          /\ wire' = [frames |-> <<f>>, closed |-> FALSE]
          /\ subscriber' = [at |-> "streaming", update |-> "connecting", last |-> 0,
                            instance |-> daemon.instance]
          /\ subscriber.at = "connecting"
      BY <1>3, <2>3 DEF Connect
    <3>2. f \in FrameRec /\ f.revision = daemon.cache.revision /\ f.instance = daemon.instance
          /\ daemon.cache.revision \in Nat /\ daemon.instance \in Nat
      BY DEF SsInv, SsShapes, Frame, FrameRec
    <3>. HIDE DEF f
    <3>5. streams' \in Seq(Nat) /\ Len(streams') = Len(streams) + 1 /\ Len(streams) \in Nat
      BY <1>0, <3>1, <3>2, Appended
    <3>8. FramesBehind' BY <1>0, <3>1, <3>2, EmptySeq, <2>3, <3>5 DEF FramesBehind
    <3>. QED BY <1>0, <1>1, <3>1, <2>3, <3>5, <3>2, EmptySeq, <3>8 DEF SsInv, SsShapes
  <2>. QED BY <2>1, <2>2, <2>3 DEF SsInv, SsShapes
<1>4. CASE ConnectFails BY <1>0, <1>2, <1>4 DEF ConnectFails, Lose
<1>5. CASE Backoff
  <2>1. subscriber' = [subscriber EXCEPT !.at = "connecting", !.update = subscriber.update]
    BY <1>5 DEF Backoff, SsInv, SsShapes
  <2>. QED BY <1>0, <1>2, <2>1, <1>5 DEF Backoff, SsInv, SsShapes
<1>6. CASE ReadEnd BY <1>0, <1>2, <1>6 DEF ReadEnd, Lose
<1>7. CASE ReadFrame
  <2>. DEFINE f == Head(wire.frames)
  <2>1. /\ subscriber.at = "streaming" /\ wire.frames # <<>> /\ UNCHANGED streams
        /\ Protocol(f) => /\ wire' = [frames |-> <<>>, closed |-> TRUE]
                          /\ Lose("degraded")
        /\ ~Protocol(f) =>
              /\ wire' = [wire EXCEPT !.frames = Tail(@)]
              /\ Adopts(f) => subscriber' = [subscriber EXCEPT !.last = f.revision,
                                                               !.update = "connected"]
              /\ ~Adopts(f) => UNCHANGED subscriber
    BY <1>7 DEF ReadFrame
  <2>2. /\ f \in FrameRec /\ f = wire.frames[1] /\ 1 \in DOMAIN wire.frames
        /\ Tail(wire.frames) \in Seq(FrameRec)
        /\ \A k \in DOMAIN Tail(wire.frames) :
              k + 1 \in DOMAIN wire.frames /\ Tail(wire.frames)[k] = wire.frames[k + 1]
    BY <1>0, <2>1, Taken_
  <2>. HIDE DEF f
  <2>3. CASE Protocol(f)
    <3>2. wire' \in [frames : Seq(FrameRec), closed : BOOLEAN]
      <4>1. wire' = [frames |-> <<>>, closed |-> TRUE] BY <2>1, <2>3
      <4>. QED BY EmptySeq, <4>1
    <3>. QED BY <1>0, <1>2, <2>1, <3>2, <2>3 DEF Lose
  <2>4. CASE ~Protocol(f)
    <3>1. /\ wire' \in [frames : Seq(FrameRec), closed : BOOLEAN]
          /\ wire'.frames = Tail(wire.frames) /\ wire'.closed = wire.closed
      BY <1>0, <2>1, <2>2, <2>4
    <3>2. /\ f.revision \in Nat /\ subscriber.last \in Nat /\ daemon.cache.revision \in Nat
          /\ subscriber \in [at : {"connecting", "streaming", "backoff", "ended"},
                       update : {"connecting", "connected", "degraded", "disconnected",
                                 "config_changed"},
                       last : Nat, instance : Nat]
      BY <2>2 DEF SsInv, SsShapes, FrameRec
    <3>3. /\ subscriber' \in [at : {"connecting", "streaming", "backoff", "ended"},
                       update : {"connecting", "connected", "degraded", "disconnected",
                                 "config_changed"},
                       last : Nat, instance : Nat]
          /\ subscriber'.at = "streaming" /\ subscriber'.instance = subscriber.instance
          /\ subscriber'.last >= subscriber.last
          /\ subscriber'.last \in {subscriber.last, f.revision}
      <4>1. CASE Adopts(f)
        <5>. DEFINE r == f.revision
        <5>2. r \in Nat /\ r > subscriber.last
              /\ subscriber' = [subscriber EXCEPT !.last = r, !.update = "connected"]
          BY <3>2, <2>1, <2>4, <4>1 DEF Adopts
        <5>. HIDE DEF r
        <5>4. r >= subscriber.last BY <3>2, <5>2
        <5>. QED BY <2>1, <3>2, <5>2, <5>4 DEF r
      <4>2. CASE ~Adopts(f) BY <2>1, <2>4, <4>2, <3>2
      <4>. QED BY <4>1, <4>2
    <3>. QED BY <1>0, <1>1, <3>3, <2>1, <3>1, <2>2, <3>2 DEF SsInv, SsShapes, FramesBehind
  <2>. QED BY <2>3, <2>4
<1>. QED BY <1>3, <1>4, <1>5, <1>6, <1>7 DEF Subscribe

(* One step of the stream, whatever it is.                                   *)
RevisionStep ==
    /\ daemon'.instance = daemon.instance => daemon'.cache.revision >= daemon.cache.revision
    /\ subscriber.at = "streaming" /\ subscriber'.at = "streaming" =>
          subscriber'.last >= subscriber.last

LEMMA SsSteps ==
    ASSUME StreamCapacity \in Nat, SsInv, [SsNext]_ssVars
    PROVE  SsInv' /\ RevisionStep
<1>0. daemon.cache.revision \in Nat /\ subscriber.last \in Nat BY DEF SsInv, SsShapes
<1>1. CASE UNCHANGED ssVars BY <1>0, <1>1 DEF ssVars, SsInv, SsShapes, CacheBehind, FramesBehind, RevisionStep
<1>2. CASE Mutate \/ DiagnoseTooLarge \/ QuerySnapshot \/ ShutdownFlagSet
  BY <1>0, <1>2, SsPublishing DEF Publisher, RevisionStep
<1>3. CASE Publish BY <1>0, <1>3, SsPublishing DEF Publish, RevisionStep
<1>4. CASE \E i \in 1..StreamCapacity : StreamSnapshot(i) \/ StreamHeartbeat(i) \/ StreamEnds(i)
                                        \/ StreamWriteTimeout(i)
  BY <1>4, <1>0, SsStreaming DEF StreamSnapshot, StreamHeartbeat, StreamEnds, StreamWriteTimeout, RevisionStep
<1>5. CASE Restart BY <1>0, <1>5, SsRestart DEF RevisionStep
<1>6. CASE Subscribe BY <1>0, <1>6, SsSubscribing DEF RevisionStep
<1>. QED BY <1>1, <1>2, <1>3, <1>4, <1>5, <1>6 DEF SsNext, Stream

(* The part of the daemon that streams takes SnapshotStream's steps.         *)
LEMMA StreamPart == CoreSpec => SsSpec
<1>1. CoreInit => SsInit BY DEF CoreInit
<1>2. [CoreNext]_coreVars => [SsNext]_ssVars BY DEF CoreNext, coreVars, ssVars
<1>. QED BY <1>1, <1>2, PTL DEF CoreSpec, SsSpec

LEMMA StreamInvariant == SsSpec => []SsInv
<1>1. SsInit => SsInv BY SsStart, StreamAssumption
<1>2. SsInv /\ [SsNext]_ssVars => SsInv' BY SsSteps, StreamAssumption
<1>. QED BY <1>1, <1>2, PTL DEF SsSpec

(* What a subscriber shows was published by its daemon process, and the      *)
(* streaming threads stay within the limiter's capacity.                     *)
THEOREM StreamKeeps == SsSpec => []StreamSound
<1>1. SsInv => StreamSound BY DEF SsInv, CacheBehind, FramesBehind, StreamSound
<1>. QED BY <1>1, StreamInvariant, PTL

LEMMA RevisionsKeepRising == SsSpec => RevisionsRise
<1>1. SsInv /\ [SsNext]_ssVars => [RevisionStep]_ssVars BY SsSteps, StreamAssumption
<1>. QED BY <1>1, StreamInvariant, PTL DEF SsSpec, RevisionsRise, RevisionStep

-----------------------------------------------------------------------------
(* TmuxControl: the answer to a command is in its own block.                 *)

LineRec ==
    [type : {"line"}, generation : Nat, kind : {"begin", "end", "error", "eof"}, of : Nat]
EventRec == [type : {"job"}, caller : Caller, command : Nat] \cup [type : {"shutdown"}] \cup LineRec
AnswerRec ==
    [kind : {"none", "refused", "deadline", "degraded", "starting", "queue_full",
             "unavailable", "end", "error"}, of : Nat]
CallerRec == [st : {"idle", "waiting"}, command : Nat, result : AnswerRec]
SupervisorRec ==
    [at : {"connect", "drain", "retry", "sync", "ready", "busy", "gone"},
     command : [caller : Caller \cup {"nobody"}, command : Nat], block : Nat]
TcShapes ==
    /\ health \in {"starting", "ready", "degraded"} /\ supervisor \in SupervisorRec
    /\ generation \in Nat /\ generation <= MaxGeneration /\ alive \in BOOLEAN
    /\ pipe \in [Generation -> Seq(LineRec)] /\ stdin \in Nat /\ events \in Seq(EventRec)
    /\ caller \in [Caller -> CallerRec] /\ commands \in Nat

Linked == supervisor.at \in {"sync", "ready", "busy"}

(* Words of the latest connection: all its lines but the last one.           *)
Word(e, g) == e.type = "line" /\ e.generation = g /\ e.kind # "eof"
Silent ==
    /\ \A i \in DOMAIN events : ~Word(events[i], generation)
    /\ \A i \in DOMAIN pipe[generation] : ~Word(pipe[generation][i], generation)

(* A line carries the generation of its pipe, and no connection of the       *)
(* future has written any.                                                   *)
LinesKnown ==
    /\ \A g \in Generation : \A i \in DOMAIN pipe[g] : pipe[g][i].generation = g
    /\ \A g \in Generation : g > generation => pipe[g] = <<>>
    /\ \A i \in DOMAIN events : events[i].type = "line" => events[i].generation <= generation

(* The end of a block is the last word on the connection: the command after  *)
(* it is only written once it was read.                                      *)
EndIsLast ==
    /\ \A i \in DOMAIN events : Word(events[i], generation) /\ events[i].kind # "begin" =>
          /\ \A j \in DOMAIN events : j > i => ~Word(events[j], generation)
          /\ \A j \in DOMAIN pipe[generation] : ~Word(pipe[generation][j], generation)
    /\ \A i, j \in DOMAIN pipe[generation] :
          Word(pipe[generation][i], generation) /\ pipe[generation][i].kind # "begin" /\ j > i =>
             ~Word(pipe[generation][j], generation)

(* What is said while a command runs is said about it.                       *)
OfCommand(n) ==
    /\ \A i \in DOMAIN events : Word(events[i], generation) => events[i].of = n
    /\ \A i \in DOMAIN pipe[generation] :
          Word(pipe[generation][i], generation) => pipe[generation][i].of = n
OneCommand ==
    /\ Linked => generation > 0 /\ EndIsLast /\ (stdin # 0 => Silent)
    /\ ~Linked => ~alive
    /\ supervisor.at \in {"sync", "ready"} => stdin = 0
    /\ supervisor.at = "ready" => Silent
    /\ supervisor.at = "busy" =>
          /\ OfCommand(supervisor.command.command)
          /\ stdin \in {0, supervisor.command.command}
          /\ supervisor.block \in {0, supervisor.command.command + 1}

TcInv ==
    /\ TcShapes /\ LinesKnown /\ OneCommand /\ AnswerIsOwn
    /\ health = "ready" => supervisor.at \in {"ready", "busy"}
    /\ Len(events) <= MaxEvents

(* Taking an event leaves the words on the connection as they were, less the *)
(* one taken; after the end of a block there are none.                       *)
LEMMA WordsTaken ==
    ASSUME TcShapes, LinesKnown, Len(events) <= MaxEvents, MaxEvents \in Nat, events # <<>>,
           events' = Tail(events), pipe' = pipe, generation' = generation
    PROVE  /\ Head(events) \in EventRec
           /\ events' \in Seq(EventRec) /\ Len(events') <= MaxEvents /\ LinesKnown'
           /\ EndIsLast => EndIsLast'
           /\ Silent => Silent' /\ ~Word(Head(events), generation)
           /\ \A n \in Nat : OfCommand(n) =>
                 OfCommand(n)' /\ (Word(Head(events), generation) => Head(events).of = n)
           /\ EndIsLast /\ Word(Head(events), generation) /\ Head(events).kind # "begin" => Silent'
  BY Taken_, LenProperties DEF TcShapes, Word, Silent, OfCommand, EndIsLast, LinesKnown

(* An event taken from the channel, whatever happens to the pipes.           *)
LEMMA EventTaken ==
    ASSUME TcShapes, LinesKnown, Len(events) <= MaxEvents, MaxEvents \in Nat, events # <<>>,
           events' = Tail(events), generation' = generation
    PROVE  /\ Head(events) \in EventRec /\ events' \in Seq(EventRec)
           /\ Len(events') <= MaxEvents
           /\ \A i \in DOMAIN events' : events'[i].type = "line" =>
                  events'[i].generation <= generation'
  BY Taken_ DEF TcShapes, LinesKnown

(* A job or a shutdown sent into the channel says nothing.                   *)
LEMMA WordlessSent ==
    ASSUME TcShapes, LinesKnown, Len(events) < MaxEvents, MaxEvents \in Nat,
           NEW e \in EventRec, e.type # "line",
           events' = Append(events, e), pipe' = pipe, generation' = generation
    PROVE  /\ events' \in Seq(EventRec) /\ Len(events') <= MaxEvents /\ LinesKnown'
           /\ EndIsLast => EndIsLast'
           /\ Silent => Silent'
           /\ \A n \in Nat : OfCommand(n) => OfCommand(n)'
  BY Appended DEF TcShapes, Word, LinesKnown, EndIsLast, Silent, OfCommand

(* Giving a connection up: its process is dead and its lines stay known.     *)
LEMMA Poisoned ==
    ASSUME TcShapes, LinesKnown, generation > 0, Poison
    PROVE  /\ alive' = FALSE /\ stdin' = 0 /\ pipe' \in [Generation -> Seq(LineRec)]
           /\ \A g \in Generation : \A i \in DOMAIN pipe'[g] : pipe'[g][i].generation = g
           /\ \A g \in Generation : g > generation => pipe'[g] = <<>>
<1>1. CASE ~alive BY <1>1 DEF Poison, TcShapes, LinesKnown
<1>2. CASE alive
  <2>. DEFINE end == Line(generation, "eof", 0)
  <2>1. pipe \in [Generation -> Seq(LineRec)] /\ generation \in Generation /\ end \in LineRec
        /\ end.generation = generation
    BY DEF TcShapes, Generation, Line, LineRec
  <2>2. pipe' = [pipe EXCEPT ![generation] = Append(@, end)] BY <1>2 DEF Poison
  <2>. HIDE DEF end
  <2>3. /\ Append(pipe[generation], end) \in Seq(LineRec)
        /\ DOMAIN Append(pipe[generation], end)
              = DOMAIN pipe[generation] \cup {Len(pipe[generation]) + 1}
        /\ \A i \in DOMAIN pipe[generation] :
              Append(pipe[generation], end)[i] = pipe[generation][i]
        /\ Append(pipe[generation], end)[Len(pipe[generation]) + 1] = end
    BY <2>1, Appended
  <2>4. pipe'[generation] = Append(pipe[generation], end)
        /\ \A g \in Generation : g # generation => pipe'[g] = pipe[g]
    BY <2>1, <2>2
  <2>6. ASSUME NEW g \in Generation, NEW i \in DOMAIN pipe'[g] PROVE pipe'[g][i].generation = g
    <3>1. CASE g # generation BY <3>1, <2>4, <2>6 DEF LinesKnown
    <3>2. CASE g = generation BY <2>1, <2>3, <2>4, <3>2, <2>6 DEF LinesKnown
    <3>. QED BY <3>1, <3>2
  <2>7. ASSUME NEW g \in Generation, g > generation PROVE pipe'[g] = <<>>
    BY <2>7, <2>1, <2>4 DEF Generation, LinesKnown
  <2>. QED BY <1>2, <2>1, <2>2, <2>3, <2>6, <2>7 DEF Poison
<1>. QED BY <1>1, <1>2 DEF TcShapes

(* An answer belongs to the command it is given to.                          *)
LEMMA Answered ==
    ASSUME caller \in [Caller -> CallerRec], AnswerIsOwn, NEW c, NEW n \in Nat,
           NEW r \in AnswerRec,
           r.kind \in {"end", "error"} => r.of = n, caller' = Answer_(c, n, r)
    PROVE  caller' \in [Caller -> CallerRec] /\ AnswerIsOwn'
  BY DEF Answer_, CallerRec, AnswerIsOwn

LEMMA TcStart == ASSUME MaxGeneration \in Nat, MaxEvents \in Nat PROVE TcInit => TcInv
<1>. SUFFICES ASSUME TcInit PROVE TcInv OBVIOUS
<1>1. <<>> \in Seq(EventRec) /\ <<>> \in Seq(LineRec) /\ Len(<<>>) = 0 /\ DOMAIN <<>> = {} BY EmptySeq
<1>4. TcShapes
  <2>2. events \in Seq(EventRec) BY <1>1 DEF TcInit
  <2>3. generation \in Nat /\ generation <= MaxGeneration /\ stdin \in Nat /\ commands \in Nat BY DEF TcInit
  <2>4. health \in {"starting", "ready", "degraded"} /\ alive \in BOOLEAN BY DEF TcInit
  <2>. QED BY <1>1, <2>2, <2>3, <2>4 DEF TcShapes, TcInit, SupervisorRec, NoJob, CallerRec, AnswerRec, Result
<1>. QED BY <1>1, <1>4 DEF TcInv, TcInit, LinesKnown, OneCommand, Linked, AnswerIsOwn, Result

(* A step after which no connection serves.                                  *)
LEMMA TcUnlinked ==
    ASSUME TcInv, generation' = generation, commands' = commands,
           supervisor' \in SupervisorRec, supervisor'.at \notin {"sync", "ready", "busy"},
           health' \in {"starting", "degraded"}, alive' = FALSE, stdin' \in Nat,
           pipe' \in [Generation -> Seq(LineRec)], LinesKnown',
           events' \in Seq(EventRec), Len(events') <= MaxEvents,
           caller' \in [Caller -> CallerRec], AnswerIsOwn'
    PROVE  TcInv'
  BY DEF TcInv, TcShapes, OneCommand, Linked

(* A step that leaves the connection and what is said on it alone.           *)
LEMMA TcAside ==
    ASSUME TcInv, UNCHANGED <<health, supervisor, generation, alive, pipe, stdin>>,
           commands' \in Nat, events' \in Seq(EventRec), Len(events') <= MaxEvents,
           LinesKnown', EndIsLast => EndIsLast', Silent => Silent',
           \A n \in Nat : OfCommand(n) => OfCommand(n)',
           caller' \in [Caller -> CallerRec], AnswerIsOwn'
    PROVE  TcInv'
<1>2. OneCommand'
  <2>. DEFINE n == supervisor.command.command
  <2>3. supervisor.at = "busy" => OfCommand(n) /\ OfCommand(n)' BY DEF TcInv, OneCommand, TcShapes, SupervisorRec
  <2>. QED BY <2>3 DEF TcInv, OneCommand, Linked, OfCommand
<1>. QED BY <1>2 DEF TcInv, TcShapes

LEMMA ExecuteStep ==
    ASSUME TcInv, MaxEvents \in Nat, NEW c \in Caller, Execute(c) PROVE TcInv'
<1>. DEFINE n == commands + 1
            new == [st |-> "waiting", command |-> n, result |-> Result("none", 0)]
            old == [st |-> "idle", command |-> n, result |-> Result("refused", 0)]
<1>1. n \in Nat /\ new \in CallerRec /\ old \in CallerRec
      /\ new.result.kind = "none" /\ old.result.kind = "refused"
  BY DEF TcInv, TcShapes, CallerRec, AnswerRec, Result
<1>2. commands' = n /\ UNCHANGED <<health, supervisor, generation, alive, pipe, stdin>>
      /\ \/ caller' = [caller EXCEPT ![c] = old] /\ events' = events
         \/ /\ caller' = [caller EXCEPT ![c] = new] /\ Len(events) < MaxEvents
            /\ events' = Append(events, Job(c, n))
  BY LenProperties DEF TcInv, TcShapes, Execute
<1>. HIDE DEF new, old
<1>3. caller' \in [Caller -> CallerRec] /\ AnswerIsOwn' BY <1>2, <1>1 DEF TcInv, TcShapes, AnswerIsOwn
<1>4. CASE events' = events
  <2>. HIDE DEF n
  <2>. QED BY <1>1, <1>2, <1>3, <1>4, TcAside DEF TcInv, TcShapes, LinesKnown, EndIsLast, Silent, OfCommand
<1>5. CASE Len(events) < MaxEvents /\ events' = Append(events, Job(c, n))
  <2>. HIDE DEF n
  <2>. QED BY <1>1, <1>2, <1>3, <1>5, WordlessSent, TcAside DEF Job, EventRec, TcInv
<1>. QED BY <1>2, <1>4, <1>5

LEMMA CallerTimeoutStep ==
    ASSUME TcInv, NEW c \in Caller, CallerTimeout(c) PROVE TcInv'
<1>1. caller \in [Caller -> CallerRec] /\ AnswerIsOwn BY DEF TcInv, TcShapes
<1>. DEFINE late == Result("deadline", 0)
<1>2. caller'[c] = [caller[c] EXCEPT !.st = "idle", !.result = late]
      /\ \A d \in Caller : d # c => caller'[d] = caller[d]
  BY <1>1 DEF CallerTimeout
<1>3. caller'[c] \in CallerRec /\ caller'[c].result.kind = "deadline"
  <2>1. late \in AnswerRec /\ late.kind = "deadline" BY DEF AnswerRec, Result
  <2>2. caller[c] \in CallerRec BY <1>1
  <2>. HIDE DEF late
  <2>. QED BY <1>2, <2>1, <2>2 DEF CallerRec
<1>6. /\ events' \in Seq(EventRec) /\ Len(events') <= MaxEvents /\ LinesKnown'
      /\ EndIsLast => EndIsLast'
      /\ Silent => Silent'
      /\ \A m \in Nat : OfCommand(m) => OfCommand(m)'
  BY DEF CallerTimeout, TcInv, TcShapes, LinesKnown, EndIsLast, Silent, OfCommand
<1>7. UNCHANGED <<health, supervisor, generation, alive, pipe, stdin>> /\ commands' \in Nat
  BY DEF CallerTimeout, TcInv, TcShapes
<1>. QED BY <1>1, <1>2, <1>3, <1>6, <1>7, TcAside DEF CallerTimeout, AnswerIsOwn

LEMMA ShutdownSteps ==
    ASSUME TcInv, MaxEvents \in Nat, ShutdownStart \/ ShutdownSend \/ ShutdownGivesUp_
    PROVE  TcInv'
<1>1. UNCHANGED <<health, supervisor, generation, alive, pipe, stdin>> /\ commands' \in Nat
      /\ caller' \in [Caller -> CallerRec] /\ AnswerIsOwn'
  BY DEF ShutdownStart, ShutdownSend, ShutdownGivesUp_, TcInv, TcShapes, AnswerIsOwn
<1>2. CASE events' = events BY <1>1, <1>2, TcAside DEF TcInv, TcShapes, LinesKnown, EndIsLast, Silent, OfCommand
<1>3. CASE Len(events) < MaxEvents /\ events' = Append(events, ShutdownEvent)
  BY <1>1, <1>3, WordlessSent, TcAside DEF ShutdownEvent, EventRec, TcInv
<1>. QED BY <1>2, <1>3 DEF ShutdownStart, ShutdownSend, ShutdownGivesUp_

(* tmux answers the command it was given, when nothing else is being said,   *)
(* or ends its output.                                                       *)
LEMMA TmuxWritesStep ==
    ASSUME TcInv, TmuxWrites PROVE TcInv'
<1>. DEFINE q == pipe[generation]
            n == supervisor.command.command
<1>1. /\ Linked /\ generation \in Generation /\ stdin \in Nat /\ EndIsLast /\ LinesKnown
      /\ pipe \in [Generation -> Seq(LineRec)] /\ q \in Seq(LineRec)
      /\ stdin # 0 => Silent /\ supervisor.at = "busy" /\ stdin = n
      /\ UNCHANGED <<health, supervisor, generation, events, caller, commands>>
  BY DEF TcInv, TcShapes, OneCommand, TmuxWrites, Linked, Generation
<1>2. DOMAIN q = 1..Len(q) /\ Len(q) \in Nat BY <1>1, LenProperties
<1>3. ASSUME /\ pipe' \in [Generation -> Seq(LineRec)]
             /\ \A g \in Generation : g # generation => pipe'[g] = pipe[g]
             /\ \A i \in DOMAIN pipe'[generation] : pipe'[generation][i].generation = generation
             /\ alive' \in BOOLEAN /\ stdin' = 0 /\ EndIsLast'
             /\ supervisor.at = "ready" => Silent'
             /\ supervisor.at = "busy" => OfCommand(n)'
      PROVE  TcInv'
  BY <1>1, <1>3 DEF TcInv, TcShapes, Generation, LinesKnown, OfCommand, OneCommand, Linked, AnswerIsOwn
<1>4. CASE stdin # 0 /\ stdin' = 0 /\ alive' = alive
           /\ pipe' = [pipe EXCEPT ![generation] =
                 @ \o <<Line(generation, "begin", stdin), Line(generation, "end", stdin)>>]
  <2>. DEFINE a == Line(generation, "begin", stdin)
              b == Line(generation, "end", stdin)
  <2>1. /\ a \in LineRec /\ a.generation = generation /\ a.of = stdin /\ a.kind = "begin"
        /\ b \in LineRec /\ b.generation = generation /\ b.of = stdin /\ b.kind = "end"
    BY <1>1 DEF Line, LineRec, TcInv, TcShapes, Generation
  <2>2. pipe'[generation] = q \o <<a, b>>
        /\ \A g \in Generation : g # generation => pipe'[g] = pipe[g]
    BY <1>1, <1>4
  <2>. HIDE DEF a, b
  <2>4. /\ q \o <<a, b>> \in Seq(LineRec)
        /\ DOMAIN (q \o <<a, b>>) = 1..(Len(q) + 2)
        /\ \A i \in DOMAIN q : (q \o <<a, b>>)[i] = q[i]
        /\ (q \o <<a, b>>)[Len(q) + 1] = a /\ (q \o <<a, b>>)[Len(q) + 2] = b
    <3>. HIDE DEF q
    <3>. QED BY <1>2, <2>1, <1>1, ConcatProperties, LenProperties
  <2>5. \A i \in DOMAIN pipe'[generation] :
           \/ i \in DOMAIN q /\ pipe'[generation][i] = q[i]
           \/ i = Len(q) + 1 /\ pipe'[generation][i] = a
           \/ i = Len(q) + 2 /\ pipe'[generation][i] = b
    <3>. HIDE DEF q
    <3>2. ASSUME NEW i \in 1..(Len(q) + 2)
          PROVE  i \in DOMAIN q \/ i = Len(q) + 1 \/ i = Len(q) + 2
      BY <1>2
    <3>. QED BY <2>2, <2>4, <3>2
  <2>8. \A i \in DOMAIN pipe'[generation] : pipe'[generation][i].generation = generation
    BY <1>1, <2>1, <2>5 DEF LinesKnown
  <2>9. /\ \A i \in DOMAIN events' : ~Word(events'[i], generation')
        /\ \A i \in DOMAIN pipe'[generation] : Word(pipe'[generation][i], generation) =>
              /\ i \in {Len(q) + 1, Len(q) + 2} /\ pipe'[generation][i].of = n
              /\ pipe'[generation][i].kind # "begin" => i = Len(q) + 2
    BY <1>1, <2>1, <2>5, <1>4 DEF Silent
  <2>11. EndIsLast'
    <3>1. ASSUME NEW i \in DOMAIN pipe'[generation], NEW j \in DOMAIN pipe'[generation],
                 Word(pipe'[generation][i], generation), pipe'[generation][i].kind # "begin",
                 j > i
          PROVE  ~Word(pipe'[generation][j], generation)
      <4>1. i = Len(q) + 2 /\ j \in 1..(Len(q) + 2) BY <2>2, <2>4, <2>9, <3>1
      <4>. QED BY <1>2, <3>1, <4>1
    <3>. QED BY <1>1, <2>9, <3>1 DEF EndIsLast
  <2>. QED BY <1>1, <1>3, <1>4, <2>2, <2>4, <2>8, <2>9, <2>11 DEF TcInv, TcShapes, a, b, OfCommand
<1>5. CASE alive' = FALSE /\ stdin' = 0
           /\ pipe' = [pipe EXCEPT ![generation] = Append(@, Line(generation, "eof", 0))]
  <2>. DEFINE e == Line(generation, "eof", 0)
  <2>1. e \in LineRec /\ e.generation = generation /\ ~Word(e, generation)
    BY <1>1 DEF Line, LineRec, Word, TcInv, TcShapes, Generation
  <2>2. pipe'[generation] = Append(q, e)
        /\ \A g \in Generation : g # generation => pipe'[g] = pipe[g]
    BY <1>1, <1>5
  <2>. HIDE DEF e
  <2>3. /\ Append(q, e) \in Seq(LineRec)
        /\ DOMAIN Append(q, e) = DOMAIN q \cup {Len(q) + 1}
        /\ \A i \in DOMAIN q : Append(q, e)[i] = q[i]
        /\ Append(q, e)[Len(q) + 1] = e
    <3>. HIDE DEF q
    <3>. QED BY <1>1, <2>1, Appended
  <2>6. \A i \in DOMAIN pipe'[generation] : pipe'[generation][i].generation = generation
    BY <1>1, <2>1, <2>2, <2>3 DEF LinesKnown
  <2>7. /\ \A i \in DOMAIN events' : events'[i] = events[i] /\ i \in DOMAIN events
        /\ \A i \in DOMAIN pipe'[generation] : Word(pipe'[generation][i], generation) =>
              i \in DOMAIN q /\ pipe'[generation][i] = q[i]
    BY <1>1, <2>1, <2>2, <2>3
  <2>8. EndIsLast' BY <1>1, <2>7 DEF EndIsLast
  <2>9. (supervisor.at = "ready" => Silent') /\ (supervisor.at = "busy" => OfCommand(n)')
    BY <1>1, <2>7 DEF TcInv, OneCommand, Silent, OfCommand
  <2>. QED BY <1>1, <1>3, <1>5, <2>2, <2>3, <2>6, <2>8, <2>9 DEF e
<1>. QED BY <1>4, <1>5 DEF TmuxWrites

(* A reader moves the first line of its pipe to the end of the channel.      *)
LEMMA ReaderSendsStep ==
    ASSUME TcInv, MaxEvents \in Nat, NEW g \in Generation, ReaderSends(g) PROVE TcInv'
<1>. DEFINE q == pipe[g]
            e == Head(pipe[g])
            n == supervisor.command.command
<1>1. /\ UNCHANGED <<health, supervisor, generation, alive, stdin, caller, commands>>
      /\ pipe \in [Generation -> Seq(LineRec)] /\ q \in Seq(LineRec) /\ q # <<>>
      /\ events \in Seq(EventRec) /\ Len(events) <= MaxEvents /\ LinesKnown
      /\ n \in Nat /\ generation \in Nat
  BY DEF TcInv, TcShapes, ReaderSends, SupervisorRec
<1>2. /\ e \in LineRec /\ Tail(q) \in Seq(LineRec) /\ Len(Tail(q)) = Len(q) - 1
      /\ e = q[1] /\ 1 \in DOMAIN q /\ DOMAIN q = 1..Len(q) /\ Len(q) \in Nat
      /\ \A i \in DOMAIN Tail(q) : i + 1 \in DOMAIN q /\ Tail(q)[i] = q[i + 1]
  <2>. HIDE DEF q
  <2>. QED BY <1>1, Taken_ DEF q
<1>4. /\ pipe'[g] = Tail(q) /\ \A h \in Generation : h # g => pipe'[h] = pipe[h]
      /\ pipe' = [pipe EXCEPT ![g] = Tail(q)]
  BY <1>1 DEF ReaderSends
<1>5. pipe' \in [Generation -> Seq(LineRec)] BY <1>1, <1>2, <1>4
<1>6. e.generation = g /\ g <= generation BY <1>1, <1>2 DEF LinesKnown, Generation
<1>. HIDE DEF q, e
<1>7. /\ \A h \in Generation : \A i \in DOMAIN pipe'[h] : pipe'[h][i].generation = h
      /\ \A h \in Generation : h > generation => pipe'[h] = <<>>
  BY <1>1, <1>2, <1>4, <1>6 DEF LinesKnown, q, Generation
<1>8. AnswerIsOwn' /\ (health' = "ready" => supervisor'.at \in {"ready", "busy"}) BY <1>1 DEF TcInv, AnswerIsOwn
<1>9. CASE At("gone")
  BY <1>9, <1>1, <1>7, <1>5, <1>8 DEF ReaderSends, LinesKnown, TcInv, OneCommand, Linked, At, TcShapes
<1>10. CASE Len(events) < MaxEvents /\ events' = Append(events, e)
  <2>1. /\ Append(events, e) \in Seq(EventRec) /\ Len(Append(events, e)) = Len(events) + 1
        /\ DOMAIN Append(events, e) = DOMAIN events \cup {Len(events) + 1}
        /\ DOMAIN events = 1..Len(events) /\ Len(events) \in Nat
        /\ \A i \in DOMAIN events : Append(events, e)[i] = events[i]
        /\ Append(events, e)[Len(events) + 1] = e
    BY <1>2, <1>1, Appended DEF EventRec
  <2>3. LinesKnown' BY <1>1, <1>6, <1>7, <1>10, <2>1 DEF LinesKnown
  <2>4. \A i \in DOMAIN events' :
           \/ i \in DOMAIN events /\ events'[i] = events[i]
           \/ i = Len(events) + 1 /\ events'[i] = e
    BY <1>10, <2>1
  <2>5. CASE g # generation
    <3>1. ~Word(e, generation) BY <1>6, <2>5 DEF Word
    <3>2. pipe'[generation] = pipe[generation] \/ ~Linked BY <1>4, <2>5 DEF TcInv, TcShapes, OneCommand, Generation
    <3>5. OneCommand' BY <1>1, <2>4, <3>1, <3>2 DEF TcInv, OneCommand, Linked, OfCommand, EndIsLast, Silent
    <3>. QED BY <1>1, <1>5, <1>8, <1>10, <2>1, <2>3, <3>5 DEF TcInv, TcShapes
  <2>6. CASE g = generation
    <3>1. \A i \in DOMAIN pipe'[generation] :
             i \in Nat /\ i + 1 \in DOMAIN q /\ i + 1 > 1
             /\ pipe'[generation][i] = pipe[generation][i + 1]
      <4>2. \A i \in DOMAIN Tail(q) : i \in Nat /\ i + 1 > 1 BY <1>2, LenProperties
      <4>. QED BY <1>2, <1>4, <2>6, <4>2 DEF q
    <3>2. e = pipe[generation][1] /\ 1 \in DOMAIN pipe[generation]
          /\ \A i \in DOMAIN q : i \in DOMAIN pipe[generation]
      BY <1>2, <2>6 DEF q
    <3>3. EndIsLast => EndIsLast'
      <4>. SUFFICES ASSUME EndIsLast PROVE EndIsLast' OBVIOUS
      <4>1. ASSUME NEW i \in DOMAIN events', Word(events'[i], generation),
                   events'[i].kind # "begin"
            PROVE  /\ \A j \in DOMAIN events' : j > i => ~Word(events'[j], generation)
                   /\ \A j \in DOMAIN pipe'[generation] :
                         ~Word(pipe'[generation][j], generation)
        BY <4>1, <2>4, <3>1, <3>2, <2>1 DEF EndIsLast
      <4>2. ASSUME NEW i \in DOMAIN pipe'[generation], NEW j \in DOMAIN pipe'[generation],
                   Word(pipe'[generation][i], generation),
                   pipe'[generation][i].kind # "begin", j > i
            PROVE  ~Word(pipe'[generation][j], generation)
        BY <3>1, <3>2, <4>2 DEF EndIsLast
      <4>. QED BY <1>1, <4>1, <4>2 DEF EndIsLast
    <3>5. ASSUME NEW m \in Nat, OfCommand(m) PROVE OfCommand(m)'
      <4>2. \A i \in DOMAIN pipe'[generation] :
               Word(pipe'[generation][i], generation) => pipe'[generation][i].of = m
        BY <3>5, <3>1, <3>2 DEF OfCommand
      <4>. QED BY <1>1, <3>2, <3>5, <2>4, <4>2 DEF OfCommand
    <3>6. supervisor.at = "busy" => OfCommand(supervisor.command.command)'
      BY <1>1, <3>5 DEF TcInv, OneCommand, OfCommand
    <3>7. OneCommand' BY <1>1, <3>3, <2>4, <3>1, <3>2, <3>6 DEF TcInv, OneCommand, Linked, Silent
    <3>. QED BY <1>1, <1>5, <1>8, <1>10, <2>1, <2>3, <3>7 DEF TcInv, TcShapes
  <2>. QED BY <2>5, <2>6
<1>. QED BY <1>9, <1>10 DEF ReaderSends, e

(* spawn_connection, or another round of waiting.                            *)
LEMMA ConnectStep ==
    ASSUME TcInv, MaxGeneration \in Nat, Connect_ PROVE TcInv'
<1>1. /\ ~alive /\ generation \in Nat /\ stdin \in Nat /\ LinesKnown
      /\ events \in Seq(EventRec) /\ Len(events) <= MaxEvents
      /\ pipe \in [Generation -> Seq(LineRec)]
      /\ UNCHANGED <<events, caller, commands>>
      /\ caller' \in [Caller -> CallerRec] /\ AnswerIsOwn'
  BY DEF TcInv, TcShapes, OneCommand, Linked, Connect_, At, AnswerIsOwn
<1>3. CASE /\ UNCHANGED <<generation, alive, pipe, stdin>> /\ health' = "degraded"
           /\ Supervise("gone", NoJob) \/ Supervise("drain", NoJob)
  <2>1. supervisor' \in SupervisorRec /\ supervisor'.at \notin {"sync", "ready", "busy"}
    BY <1>3 DEF Supervise, SupervisorRec, NoJob
  <2>. QED BY <1>1, <1>3, <2>1, TcUnlinked DEF LinesKnown, TcInv, TcShapes
<1>4. CASE /\ generation < MaxGeneration /\ generation' = generation + 1
           /\ alive' = TRUE /\ stdin' = 0 /\ health' = "starting"
           /\ \E end \in {"end", "error"} :
                 pipe' = [pipe EXCEPT ![generation'] =
                    <<Line(generation', "begin", 0), Line(generation', end, 0)>>]
           /\ Supervise("sync", NoJob)
  <2>1. PICK end \in {"end", "error"} :
           pipe' = [pipe EXCEPT ![generation'] =
              <<Line(generation', "begin", 0), Line(generation', end, 0)>>]
    BY <1>4
  <2>. DEFINE a == Line(generation', "begin", 0)
              b == Line(generation', end, 0)
  <2>2. generation' \in Generation /\ generation' > generation /\ generation' <= MaxGeneration
        /\ generation' \in Nat /\ generation' > 0
    BY <1>1, <1>4 DEF TcInv, TcShapes, Generation
  <2>3. /\ a \in LineRec /\ a.generation = generation' /\ a.kind = "begin"
        /\ b \in LineRec /\ b.generation = generation' /\ b.kind # "begin"
    BY <2>1, <2>2 DEF Line, LineRec
  <2>4. pipe'[generation'] = <<a, b>>
        /\ \A g \in Generation : g # generation' => pipe'[g] = pipe[g]
    BY <1>1, <2>1, <2>2
  <2>5. pipe' = [pipe EXCEPT ![generation'] = <<a, b>>] BY <2>1
  <2>. HIDE DEF a, b
  <2>6. <<a, b>> \in Seq(LineRec) /\ DOMAIN <<a, b>> = 1..2
        /\ <<a, b>>[1] = a /\ <<a, b>>[2] = b
    BY <2>3
  <2>8. supervisor' \in SupervisorRec /\ supervisor'.at = "sync" BY <1>4 DEF Supervise, SupervisorRec, NoJob
  <2>10. LinesKnown'
    <3>1. \A i \in DOMAIN pipe'[generation'] : pipe'[generation'][i].generation = generation' BY <2>3, <2>4, <2>6
    <3>2. ASSUME NEW g \in Generation, g > generation' PROVE pipe'[g] = <<>>
      BY <1>1, <2>2, <3>2, <2>4 DEF Generation, LinesKnown
    <3>3. ASSUME NEW i \in DOMAIN events', events'[i].type = "line"
          PROVE  events'[i].generation <= generation'
      <4>1. events[i] \in EventRec /\ events[i].type = "line" /\ events[i].generation <= generation
        BY <1>1, <3>3, ElementOfSeq, LenProperties DEF LinesKnown
      <4>2. events[i].generation \in Nat BY <4>1 DEF EventRec, LineRec
      <4>. QED BY <1>1, <2>2, <4>1, <4>2
    <3>4. ASSUME NEW g \in Generation PROVE \A i \in DOMAIN pipe'[g] : pipe'[g][i].generation = g
      <4>1. CASE g = generation' BY <3>1, <4>1
      <4>2. CASE g # generation' BY <1>1, <2>4, <4>2 DEF LinesKnown
      <4>. QED BY <4>1, <4>2
    <3>. QED BY <3>2, <3>3, <3>4 DEF LinesKnown
  <2>11. EndIsLast'
    BY <1>1, ElementOfSeq, LenProperties, <2>2, <2>3, <2>4, <2>6 DEF LinesKnown, EventRec, LineRec, Word, EndIsLast
  <2>12. OneCommand' BY <1>4, <2>2, <2>8, <2>11 DEF OneCommand, Linked
  <2>. QED BY <1>1, <1>4, <2>2, <2>5, <2>6, <2>8, <2>10, <2>12 DEF TcInv, TcShapes
<1>. QED BY <1>3, <1>4 DEF Connect_

LEMMA DrainStep ==
    ASSUME TcInv, MaxEvents \in Nat, Drain PROVE TcInv'
<1>1. /\ ~alive /\ generation \in Nat /\ stdin \in Nat /\ LinesKnown /\ AnswerIsOwn
      /\ pipe \in [Generation -> Seq(LineRec)] /\ caller \in [Caller -> CallerRec]
      /\ health \in {"starting", "degraded"}
      /\ UNCHANGED <<health, generation, alive, pipe, stdin, commands>> /\ events' = <<>>
  BY DEF TcInv, TcShapes, OneCommand, Linked, Drain, At
<1>. DEFINE r == Result("degraded", 0)
<1>2. r \in AnswerRec /\ r.kind = "degraded" BY DEF Result, AnswerRec
<1>3. \A c \in Caller : caller'[c] = caller[c]
                        \/ caller'[c] = [caller[c] EXCEPT !.st = "idle", !.result = r]
  BY DEF Drain
<1>. HIDE DEF r
<1>5. ASSUME NEW c \in Caller
      PROVE  /\ caller'[c] \in CallerRec
             /\ caller'[c] = caller[c] \/ caller'[c].result.kind = "degraded"
  BY <1>1, <1>2, <1>3 DEF CallerRec
<1>9. LinesKnown' BY <1>1, EmptySeq DEF LinesKnown
<1>10. alive' = FALSE /\ stdin' \in Nat /\ pipe' \in [Generation -> Seq(LineRec)]
       /\ health' \in {"starting", "degraded"} /\ generation' = generation
       /\ commands' = commands /\ events' \in Seq(EventRec) /\ Len(events') <= MaxEvents
  BY <1>1, EmptySeq DEF TcInv, TcShapes
<1>. QED BY <1>1, <1>5, <1>9, <1>10, TcUnlinked DEF Drain, Supervise, SupervisorRec, NoJob, AnswerIsOwn

LEMMA RetrySteps ==
    ASSUME TcInv, MaxEvents \in Nat, RetryEvent \/ RetryOver PROVE TcInv'
<1>1. /\ ~alive /\ generation \in Nat /\ stdin \in Nat /\ LinesKnown /\ AnswerIsOwn
      /\ pipe \in [Generation -> Seq(LineRec)] /\ caller \in [Caller -> CallerRec]
      /\ health \in {"starting", "degraded"} /\ Len(events) <= MaxEvents /\ TcShapes
      /\ supervisor \in SupervisorRec /\ events \in Seq(EventRec) /\ At("retry")
      /\ UNCHANGED <<health, generation, alive, pipe, stdin, commands>>
  BY DEF TcInv, TcShapes, OneCommand, Linked, RetryEvent, RetryOver, At
<1>2. supervisor' \in SupervisorRec /\ supervisor'.at \notin {"sync", "ready", "busy"}
  BY <1>1 DEF RetryEvent, RetryOver, Supervise, SupervisorRec, NoJob, At
<1>4. CASE RetryOver BY <1>4, <1>1, <1>2, TcUnlinked DEF RetryOver, LinesKnown, AnswerIsOwn, TcShapes
<1>5. CASE RetryEvent
  <2>2. Head(events) \in EventRec /\ events' \in Seq(EventRec) /\ Len(events') <= MaxEvents
        /\ LinesKnown'
    BY <1>1, <1>5, WordsTaken DEF RetryEvent
  <2>3. caller' \in [Caller -> CallerRec] /\ AnswerIsOwn'
    <3>1. CASE Head(events).type = "job"
      <4>. DEFINE r == Result("degraded", 0)
      <4>2. r \in AnswerRec /\ (r.kind \in {"end", "error"} => r.of = Head(events).command) BY DEF Result, AnswerRec
      <4>3. caller' = Answer_(Head(events).caller, Head(events).command, r) BY <1>5, <3>1 DEF RetryEvent
      <4>. HIDE DEF r
      <4>. QED BY <1>1, <2>2, <3>1, <4>2, <4>3, Answered DEF EventRec, LineRec
    <3>2. CASE Head(events).type # "job" BY <1>5, <3>2, <1>1 DEF RetryEvent, AnswerIsOwn
    <3>. QED BY <3>1, <3>2
  <2>. QED BY <1>2, <1>1, <2>2, <2>3, TcUnlinked DEF TcShapes
<1>. QED BY <1>4, <1>5

(* Giving up: the process is killed and what it said is left to be dropped.  *)
LEMMA TcGivesUp ==
    ASSUME TcInv, Linked, Poison, health' = "degraded", generation' = generation,
           commands' = commands, NEW at \in {"drain", "gone"}, Supervise(at, NoJob),
           events' \in Seq(EventRec), Len(events') <= MaxEvents,
           \A i \in DOMAIN events' : events'[i].type = "line" =>
               events'[i].generation <= generation',
           caller' \in [Caller -> CallerRec], AnswerIsOwn'
    PROVE  TcInv'
<1>5. stdin' \in Nat /\ health' \in {"starting", "degraded"} BY Poisoned DEF TcInv, OneCommand
<1>. QED BY Poisoned, <1>5, TcUnlinked DEF LinesKnown, TcInv, OneCommand, Supervise, SupervisorRec, NoJob

(* A step on a connection that goes on serving.                              *)
LEMMA TcServes ==
    ASSUME TcInv, Linked, UNCHANGED <<generation, alive, pipe, commands>>,
           supervisor' \in SupervisorRec, supervisor'.at \in {"sync", "ready", "busy"},
           health' \in {"starting", "ready", "degraded"},
           health' = "ready" => supervisor'.at \in {"ready", "busy"},
           stdin' \in Nat, EndIsLast', stdin' # 0 => Silent',
           supervisor'.at \in {"sync", "ready"} => stdin' = 0,
           supervisor'.at = "ready" => Silent',
           NEW n \in Nat, supervisor'.command.command = n,
           supervisor'.at = "busy" => /\ OfCommand(n)' /\ stdin' \in {0, n}
                                      /\ supervisor'.block \in {0, n + 1},
           events' \in Seq(EventRec), Len(events') <= MaxEvents, LinesKnown',
           caller' \in [Caller -> CallerRec], AnswerIsOwn'
    PROVE  TcInv'
  BY DEF TcInv, TcShapes, OfCommand, OneCommand, Linked

LEMMA SyncSteps ==
    ASSUME TcInv, MaxEvents \in Nat, SyncEvent \/ SyncTimeout PROVE TcInv'
<1>1. /\ TcShapes /\ LinesKnown /\ AnswerIsOwn /\ Len(events) <= MaxEvents /\ At("sync")
      /\ Linked /\ EndIsLast /\ stdin = 0 /\ generation \in Nat /\ generation > 0
      /\ health \in {"starting", "degraded"}
      /\ supervisor \in SupervisorRec /\ caller \in [Caller -> CallerRec]
      /\ events \in Seq(EventRec) /\ generation' = generation /\ commands' = commands
  BY DEF TcInv, TcShapes, OneCommand, Linked, At, SyncEvent, SyncTimeout
<1>2. CASE SyncTimeout BY <1>2, <1>1, TcGivesUp DEF SyncTimeout, Reconnect, LinesKnown, AnswerIsOwn
<1>3. CASE SyncEvent
  <2>. DEFINE e == Head(events)
  <2>2. /\ e \in EventRec /\ events' \in Seq(EventRec) /\ Len(events') <= MaxEvents
        /\ \A i \in DOMAIN events' : events'[i].type = "line" =>
               events'[i].generation <= generation'
    BY <1>1, <1>3, EventTaken DEF SyncEvent
  <2>3. caller' \in [Caller -> CallerRec] /\ AnswerIsOwn'
    <3>1. CASE e.type = "job"
      <4>. DEFINE r == Result("starting", 0)
      <4>2. r \in AnswerRec /\ (r.kind \in {"end", "error"} => r.of = e.command) BY DEF Result, AnswerRec
      <4>3. caller' = Answer_(e.caller, e.command, r) BY <1>3, <3>1 DEF SyncEvent
      <4>. HIDE DEF r, e
      <4>. QED BY <1>1, <2>2, <3>1, <4>2, <4>3, Answered DEF EventRec, LineRec
    <3>2. CASE e.type # "job" BY <1>3, <3>2, <1>1 DEF SyncEvent, AnswerIsOwn
    <3>. QED BY <3>1, <3>2
  <2>4. CASE /\ Poison /\ health' = "degraded"
             /\ Supervise("drain", NoJob) \/ Supervise("gone", NoJob)
    <3>. HIDE DEF e
    <3>. QED BY <1>1, <2>2, <2>3, <2>4, TcGivesUp
  <2>5. CASE /\ UNCHANGED <<alive, pipe, stdin>>
             /\ \/ Ours(e) /\ Closes(e) /\ Supervise("ready", NoJob) /\ health' = "ready"
                \/ Ours(e) /\ Opens(e) /\ supervisor' = [supervisor EXCEPT !.block = e.of + 1]
                   /\ UNCHANGED health
                \/ UNCHANGED <<supervisor, health>>
    <3>1. /\ LinesKnown' /\ EndIsLast'
          /\ Word(e, generation) /\ e.kind # "begin" => Silent'
      BY <1>1, <1>3, <2>5, WordsTaken DEF SyncEvent
    <3>3. Ours(e) => e.of \in Nat BY <2>2 DEF Ours, EventRec, LineRec
    <3>. HIDE DEF e
    <3>4. /\ supervisor' \in SupervisorRec /\ supervisor'.at \in {"sync", "ready"}
          /\ supervisor'.at = "ready" => Silent'
          /\ health' = "ready" => supervisor'.at = "ready"
          /\ health' \in {"starting", "ready", "degraded"}
      BY <3>1, <1>1, <3>3, <2>5 DEF Supervise, NoJob, SupervisorRec, At, Ours, Closes, Word
    <3>5. PICK n \in Nat : supervisor'.command.command = n BY <3>4 DEF SupervisorRec
    <3>. QED BY <1>1, <2>2, <2>3, <3>1, <3>4, <3>5, <2>5, TcServes
  <2>6. \/ /\ Poison /\ health' = "degraded"
           /\ Supervise("drain", NoJob) \/ Supervise("gone", NoJob)
        \/ /\ UNCHANGED <<alive, pipe, stdin>>
           /\ \/ Ours(e) /\ Closes(e) /\ Supervise("ready", NoJob) /\ health' = "ready"
              \/ Ours(e) /\ Opens(e) /\ supervisor' = [supervisor EXCEPT !.block = e.of + 1]
                 /\ UNCHANGED health
              \/ UNCHANGED <<supervisor, health>>
    BY <1>3 DEF SyncEvent, Reconnect
  <2>. HIDE DEF e
  <2>. QED BY <2>4, <2>5, <2>6
<1>. QED BY <1>2, <1>3

LEMMA ReadyStep ==
    ASSUME TcInv, MaxEvents \in Nat, ReadyEvent PROVE TcInv'
<1>. DEFINE e == Head(events)
<1>1. /\ TcShapes /\ LinesKnown /\ AnswerIsOwn /\ Len(events) <= MaxEvents /\ At("ready")
      /\ Linked /\ EndIsLast /\ Silent /\ stdin = 0 /\ generation \in Nat /\ generation > 0
      /\ health \in {"starting", "ready", "degraded"}
      /\ supervisor \in SupervisorRec /\ caller \in [Caller -> CallerRec]
      /\ events \in Seq(EventRec) /\ generation' = generation /\ commands' = commands
      /\ events # <<>> /\ events' = Tail(events)
  BY DEF TcInv, TcShapes, OneCommand, Linked, At, ReadyEvent
<1>2. /\ e \in EventRec /\ events' \in Seq(EventRec) /\ Len(events') <= MaxEvents
      /\ \A i \in DOMAIN events' : events'[i].type = "line" =>
             events'[i].generation <= generation'
  BY <1>1, EventTaken
<1>3. \/ /\ e.type = "job" /\ alive
         /\ Supervise("busy", [caller |-> e.caller, command |-> e.command])
         /\ stdin' = e.command
         /\ UNCHANGED <<health, alive, pipe, caller>>
      \/ /\ e.type = "job"
         /\ caller' = Answer_(e.caller, e.command, Result("degraded", 0))
         /\ Supervise("drain", NoJob) /\ health' = "degraded" /\ Poison
      \/ /\ Supervise("drain", NoJob) \/ Supervise("gone", NoJob)
         /\ health' = "degraded" /\ Poison /\ UNCHANGED caller
      \/ UNCHANGED <<supervisor, health, alive, pipe, stdin, caller>>
  BY DEF ReadyEvent, Reconnect
<1>5. pipe' = pipe =>
         /\ LinesKnown' /\ EndIsLast' /\ Silent'
         /\ \A n \in Nat : OfCommand(n)'
  BY <1>1, WordsTaken DEF Silent, OfCommand
<1>. HIDE DEF e
<1>6. CASE /\ e.type = "job" /\ alive
           /\ Supervise("busy", [caller |-> e.caller, command |-> e.command])
           /\ stdin' = e.command
           /\ UNCHANGED <<health, alive, pipe, caller>>
  BY <1>2, <1>6, <1>1, <1>5, TcServes DEF Supervise, SupervisorRec, AnswerIsOwn, EventRec, LineRec
<1>7. CASE /\ e.type = "job"
           /\ caller' = Answer_(e.caller, e.command, Result("degraded", 0))
           /\ Supervise("drain", NoJob) /\ health' = "degraded" /\ Poison
  <2>. DEFINE r == Result("degraded", 0)
  <2>. HIDE DEF r
  <2>. QED BY <1>1, <1>2, <1>7, Answered, TcGivesUp DEF r, EventRec, LineRec, Result, AnswerRec
<1>8. CASE /\ Supervise("drain", NoJob) \/ Supervise("gone", NoJob)
           /\ health' = "degraded" /\ Poison /\ UNCHANGED caller
  BY <1>1, <1>8, <1>2, TcGivesUp DEF AnswerIsOwn
<1>9. CASE UNCHANGED <<supervisor, health, alive, pipe, stdin, caller>>
  BY <1>1, <1>9, <1>5, <1>2, TcServes DEF AnswerIsOwn, SupervisorRec, At
<1>. QED BY <1>3, <1>6, <1>7, <1>8, <1>9

LEMMA BusySteps ==
    ASSUME TcInv, MaxEvents \in Nat, BusyEvent \/ BusyDeadline PROVE TcInv'
<1>. DEFINE e == Head(events)
            m == supervisor.command.command
<1>1. PICK n \in Nat : n = m BY DEF TcInv, TcShapes, SupervisorRec
<1>2. /\ TcShapes /\ LinesKnown /\ AnswerIsOwn /\ Len(events) <= MaxEvents /\ At("busy")
      /\ Linked /\ EndIsLast /\ generation \in Nat /\ generation > 0
      /\ (stdin # 0 => Silent) /\ stdin \in {0, n} /\ stdin \in Nat
      /\ supervisor.block \in {0, n + 1}
      /\ health \in {"starting", "ready", "degraded"}
      /\ supervisor \in SupervisorRec /\ caller \in [Caller -> CallerRec]
      /\ events \in Seq(EventRec) /\ generation' = generation /\ commands' = commands
  BY <1>1 DEF TcInv, TcShapes, OneCommand, Linked, At, BusyEvent, BusyDeadline
<1>4. ASSUME NEW r \in AnswerRec, r.kind \in {"end", "error"} => r.of = n,
             caller' = FailCurrent(r)
      PROVE  caller' \in [Caller -> CallerRec] /\ AnswerIsOwn'
  BY <1>1, <1>2, <1>4, Answered DEF FailCurrent
<1>5. CASE BusyDeadline
  <2>. DEFINE r == Result("deadline", 0)
  <2>1. r \in AnswerRec /\ r.kind \notin {"end", "error"} BY DEF Result, AnswerRec
  <2>2. caller' = FailCurrent(r) /\ Supervise("drain", NoJob) /\ health' = "degraded" /\ Poison
        /\ events' = events
    BY <1>5 DEF BusyDeadline, Reconnect
  <2>. HIDE DEF r
  <2>. QED BY <1>2, <2>2, <1>4, <2>1, TcGivesUp DEF LinesKnown
<1>6. CASE BusyEvent
  <2>2. /\ e \in EventRec /\ events' \in Seq(EventRec) /\ Len(events') <= MaxEvents
        /\ \A i \in DOMAIN events' : events'[i].type = "line" =>
               events'[i].generation <= generation'
    BY <1>2, <1>6, EventTaken DEF BusyEvent
  <2>3. pipe' = pipe =>
           /\ LinesKnown' /\ EndIsLast' /\ (Silent => Silent' /\ ~Word(e, generation))
           /\ OfCommand(n)' /\ (Word(e, generation) => e.of = n)
           /\ Word(e, generation) /\ e.kind # "begin" => Silent'
    BY <1>2, <1>1, <1>6, WordsTaken DEF TcInv, OneCommand, At, BusyEvent, BusyDeadline
  <2>4. \/ /\ e.type = "job"
           /\ caller' = Answer_(e.caller, e.command, Result("queue_full", 0))
           /\ UNCHANGED <<supervisor, health, alive, pipe, stdin>>
        \/ /\ caller' = FailCurrent(Result("unavailable", 0))
           /\ Supervise("gone", NoJob) \/ Supervise("drain", NoJob)
           /\ health' = "degraded" /\ Poison
        \/ /\ Ours(e) /\ Closes(e)
           /\ caller' = FailCurrent(Result(e.kind, e.of))
           /\ Supervise("ready", NoJob)
           /\ UNCHANGED <<health, alive, pipe, stdin>>
        \/ /\ Ours(e) /\ Opens(e)
           /\ supervisor' = [supervisor EXCEPT !.block = e.of + 1]
           /\ UNCHANGED <<caller, health, alive, pipe, stdin>>
        \/ UNCHANGED <<supervisor, caller, health, alive, pipe, stdin>>
    BY <1>6 DEF BusyEvent, Reconnect
  <2>5. ASSUME UNCHANGED <<health, alive, pipe, stdin>>, supervisor'.at = "busy",
               supervisor' \in SupervisorRec, supervisor'.command = supervisor.command,
               supervisor'.block \in {0, n + 1},
               caller' \in [Caller -> CallerRec], AnswerIsOwn'
        PROVE  TcInv'
    <3>1. /\ UNCHANGED <<generation, alive, pipe, commands>>
          /\ health' \in {"starting", "ready", "degraded"}
          /\ supervisor'.at \in {"sync", "ready", "busy"}
          /\ supervisor'.at \in {"ready", "busy"} /\ supervisor'.at \notin {"sync", "ready"}
          /\ supervisor'.command.command = n /\ stdin' \in Nat /\ stdin' \in {0, n}
      BY <1>1, <1>2, <2>5
    <3>. HIDE DEF e, m
    <3>. QED BY <1>2, <2>2, <2>5, <3>1, <2>3, TcServes
  <2>. HIDE DEF m
  <2>6. CASE /\ e.type = "job"
             /\ caller' = Answer_(e.caller, e.command, Result("queue_full", 0))
             /\ UNCHANGED <<supervisor, health, alive, pipe, stdin>>
    <3>. DEFINE r == Result("queue_full", 0)
    <3>3. caller' = Answer_(e.caller, e.command, r) BY <2>6
    <3>. HIDE DEF r, e
    <3>4. caller' \in [Caller -> CallerRec] /\ AnswerIsOwn'
      BY <1>2, <2>2, <2>6, <3>3, Answered DEF EventRec, LineRec, Result, AnswerRec
    <3>. QED BY <1>2, <2>5, <2>6, <3>4 DEF At
  <2>7. CASE /\ caller' = FailCurrent(Result("unavailable", 0))
             /\ Supervise("gone", NoJob) \/ Supervise("drain", NoJob)
             /\ health' = "degraded" /\ Poison
    <3>. DEFINE r == Result("unavailable", 0)
    <3>1. r \in AnswerRec /\ r.kind \notin {"end", "error"} BY DEF Result, AnswerRec
    <3>2. caller' = FailCurrent(r) BY <2>7
    <3>. HIDE DEF r, e
    <3>. QED BY <1>2, <2>2, <2>7, <1>4, <3>1, <3>2, TcGivesUp
  <2>8. CASE /\ Ours(e) /\ Closes(e)
             /\ caller' = FailCurrent(Result(e.kind, e.of))
             /\ Supervise("ready", NoJob)
             /\ UNCHANGED <<health, alive, pipe, stdin>>
    <3>. DEFINE r == Result(e.kind, e.of)
    <3>1. Word(e, generation) /\ e.kind # "begin" /\ e.kind \in {"end", "error"} BY <2>8 DEF Ours, Closes, Word
    <3>. HIDE DEF r, e
    <3>5. caller' \in [Caller -> CallerRec] /\ AnswerIsOwn' BY <1>4, <3>1, <2>3, <2>8 DEF Result, AnswerRec
    <3>. QED BY <1>2, <2>2, <3>5, <2>3, <2>8, <3>1, TcServes DEF Supervise, NoJob, SupervisorRec
  <2>9. CASE /\ Ours(e) /\ Opens(e)
             /\ supervisor' = [supervisor EXCEPT !.block = e.of + 1]
             /\ UNCHANGED <<caller, health, alive, pipe, stdin>>
    <3>. HIDE DEF e
    <3>. QED BY <2>5, <2>9, <1>2, <2>3 DEF SupervisorRec, At, Ours, Opens, Word, AnswerIsOwn
  <2>10. CASE UNCHANGED <<supervisor, caller, health, alive, pipe, stdin>> BY <1>2, <2>10, <2>5 DEF AnswerIsOwn, At
  <2>. HIDE DEF e
  <2>. QED BY <2>4, <2>6, <2>7, <2>8, <2>9, <2>10
<1>. QED BY <1>5, <1>6

LEMMA TcSteps ==
    ASSUME MaxEvents \in Nat, MaxGeneration \in Nat, TcInv, [TcNext]_tcVars PROVE TcInv'
<1>1. CASE UNCHANGED tcVars
  BY <1>1, TcAside DEF tcVars, TcInv, TcShapes, LinesKnown, EndIsLast, Silent, OfCommand, AnswerIsOwn
<1>2. CASE SupervisorStep
  BY <1>2, ConnectStep, DrainStep, RetrySteps, SyncSteps, ReadyStep, BusySteps DEF SupervisorStep
<1>3. CASE TcNext /\ ~SupervisorStep
  BY <1>3, RetrySteps, SyncSteps, BusySteps, TmuxWritesStep, ExecuteStep, CallerTimeoutStep, ReaderSendsStep,
    ShutdownSteps DEF TcNext
<1>. QED BY <1>1, <1>2, <1>3

(* A caller is answered with the output of its own command; no control       *)
(* client outlives the supervisor; health is ready only while a connection   *)
(* serves; the channel keeps its capacity.                                   *)
THEOREM AnswersAreOwn == TcSpec => []ControlSound
<1>1. TcInit => TcInv BY TcStart, ControlAssumption
<1>2. TcInv /\ [TcNext]_tcVars => TcInv' BY TcSteps, ControlAssumption
<1>3. TcInv => ControlSound BY DEF TcInv, OneCommand, Linked, ControlSound, NoOrphanClient, At
<1>. QED BY <1>1, <1>2, <1>3, PTL DEF TcSpec

-----------------------------------------------------------------------------
(* StatusPush: what is recorded as shown is shown.                           *)

Value == Text \cup {Marker, Unset}
Options == UNION {[K -> Value] : K \in SUBSET Key}
PushRec ==
    [desired : Options, dirty : SUBSET Key, last_successful : Options, last_revision : Nat,
     due : BOOLEAN, pending : BOOLEAN, shutting_down : BOOLEAN, in_flight : Options]

(* Nothing differs, or something will bring the differences back.            *)
Settled(p) == Candidates(p) = {} \/ InFlight(p) \/ p.pending

(* The batch in flight is all that differs: nothing changes what is wanted   *)
(* while the driver lock is held.  Once the shutdown was projected only its  *)
(* marker is wanted, and it is not forgotten.                                *)
PushOk(p) ==
    /\ p \in PushRec
    /\ p.dirty \subseteq DOMAIN p.desired /\ DOMAIN p.last_successful \subseteq DOMAIN p.desired
    /\ InFlight(p) => /\ DOMAIN p.in_flight = Candidates(p)
                      /\ \A k \in DOMAIN p.in_flight : p.in_flight[k] = p.desired[k]
    /\ p.shutting_down =>
          /\ Settled(p)
          /\ \A k \in DOMAIN p.desired : IsTerminal(k) =>
                p.desired[k] = IF k[1] = "summary" THEN Marker ELSE Unset

Known == {u \in Target : \E k \in DOMAIN canon.frame : k[2] = u}
Forgotten == Target \ (tmux.alive \cup Known)

SpShapes ==
    /\ canon \in [revision : Nat, frame : Options] /\ canon.revision >= 1
    /\ captured \in [revision : Nat, frame : Options]
    /\ driver \in {"free", "rendering", "writing", "marker", "marking"}
    /\ stop \in {"no", "asked", "marked", "done", "failed"}
    /\ tmux \in [alive : SUBSET Target, opts : [Key -> Value \cup {Absent}]]
    /\ InFlight(push) = (driver \in {"writing", "marking"})

(* A revision beyond the bound is one dead target less to forget.            *)
RevisionsCounted ==
    /\ captured.revision <= canon.revision /\ push.last_revision <= canon.revision
    /\ DOMAIN canon.frame = KeysOf(Known)
    /\ canon.revision <= MaxRevision + Cardinality(Forgotten)

SpInv ==
    /\ SpShapes /\ PushOk(push) /\ RevisionsCounted /\ RecordedIsShown
    /\ Settled(push) \/ push.last_revision < canon.revision
    /\ driver \in {"marker", "marking"} \/ stop \in {"marked", "done"} => push.shutting_down

(* What the functions on options give.                                       *)
LEMMA KeepIs ==
    ASSUME NEW f \in Options, NEW S
    PROVE  /\ Keep(f, S) \in Options /\ DOMAIN Keep(f, S) = DOMAIN f \cap S
           /\ \A k \in DOMAIN Keep(f, S) : Keep(f, S)[k] = f[k]
<1>1. PICK K \in SUBSET Key : f \in [K -> Value] BY DEF Options
<1>2. Keep(f, S) \in [K \cap S -> Value] /\ DOMAIN f = K BY <1>1 DEF Keep
<1>. QED BY <1>2, <1>1 DEF Keep, Options

LEMMA PutIs ==
    ASSUME NEW f \in Options, NEW g \in Options
    PROVE  /\ Put(f, g) \in Options /\ DOMAIN Put(f, g) = DOMAIN f \cup DOMAIN g
           /\ \A k \in DOMAIN g : Put(f, g)[k] = g[k]
           /\ \A k \in DOMAIN f \ DOMAIN g : Put(f, g)[k] = f[k]
<1>1. PICK K \in SUBSET Key : f \in [K -> Value] BY DEF Options
<1>2. PICK L \in SUBSET Key : g \in [L -> Value] BY DEF Options
<1>5. Put(f, g) \in [K \cup L -> Value] BY <1>1, <1>2 DEF Put
<1>. QED BY <1>1, <1>2, <1>5 DEF Put, Options

LEMMA OptionsAre ==
    /\ NoKeys \in Options /\ DOMAIN NoKeys = {}
    /\ \A f \in Options : DOMAIN f \subseteq Key /\ \A k \in DOMAIN f : f[k] \in Value
    /\ \A K \in SUBSET Key : \A f \in [K -> Value] : f \in Options
  BY DEF NoKeys, Options

LEMMA CandidatesAre ==
    ASSUME NEW p \in PushRec
    PROVE  /\ Candidates(p) \subseteq DOMAIN p.desired
           /\ \A k \in DOMAIN p.desired : k \in Candidates(p) <=>
                 /\ p.shutting_down => IsTerminal(k)
                 /\ \/ k \in p.dirty
                    \/ k \notin DOMAIN p.last_successful
                    \/ p.last_successful[k] # p.desired[k]
  BY DEF Candidates

(* What is prepared is all that differs.                                     *)
Prepared(p, q) ==
    /\ q \in PushRec /\ q.desired = p.desired /\ q.dirty = p.dirty
    /\ q.last_successful = p.last_successful /\ q.last_revision = p.last_revision
    /\ q.shutting_down = p.shutting_down /\ Candidates(q) = Candidates(p)
    /\ InFlight(p) => q = p
    /\ ~InFlight(p) =>
          \/ /\ Candidates(p) = {} /\ ~InFlight(q)
          \/ /\ ~InFlight(q) /\ q.pending = p.pending
          \/ /\ InFlight(q) /\ DOMAIN q.in_flight = Candidates(p)
             /\ \A k \in DOMAIN q.in_flight : q.in_flight[k] = p.desired[k]

LEMMA PreparedIs ==
    ASSUME NEW p \in PushRec, NEW q, q = prepare_if_due(p)
    PROVE  Prepared(p, q)
<1>. DEFINE a == Keep(p.desired, Candidates(p))
<1>1. a \in Options /\ DOMAIN a = Candidates(p)
      /\ \A k \in DOMAIN a : a[k] = p.desired[k]
  <2>2. DOMAIN p.desired \cap Candidates(p) = Candidates(p) BY CandidatesAre
  <2>. QED BY <2>2, KeepIs DEF PushRec
<1>2. q = IF InFlight(p) THEN p
          ELSE IF DOMAIN a = {} THEN [p EXCEPT !.pending = FALSE]
          ELSE IF ~p.due THEN p
          ELSE [p EXCEPT !.in_flight = a, !.due = FALSE, !.pending = FALSE]
  BY DEF prepare_if_due
<1>. HIDE DEF a
<1>3. CASE q = p /\ (InFlight(p) \/ ~InFlight(q)) BY <1>3 DEF Prepared
<1>4. CASE DOMAIN a = {} /\ ~InFlight(p) /\ q = [p EXCEPT !.pending = FALSE]
  BY <1>4, <1>1 DEF PushRec, Candidates, InFlight, Prepared
<1>5. CASE DOMAIN a # {} /\ ~InFlight(p)
           /\ q = [p EXCEPT !.in_flight = a, !.due = FALSE, !.pending = FALSE]
  <2>1. /\ q \in PushRec /\ q.desired = p.desired /\ q.dirty = p.dirty
        /\ q.last_successful = p.last_successful /\ q.last_revision = p.last_revision
        /\ q.shutting_down = p.shutting_down /\ q.in_flight = a
    BY <1>1, <1>5 DEF PushRec
  <2>. QED BY <1>1, <1>5, <2>1 DEF Candidates, InFlight, Prepared
<1>. QED BY <1>2, <1>3, <1>4, <1>5 DEF Prepared

(* Preparing keeps a good state good and settles a pending one.              *)
LEMMA PreparedOk ==
    ASSUME NEW p \in PushRec, ~InFlight(p), p.pending,
           p.dirty \subseteq DOMAIN p.desired, DOMAIN p.last_successful \subseteq DOMAIN p.desired,
           p.shutting_down => \A k \in DOMAIN p.desired : IsTerminal(k) =>
               p.desired[k] = IF k[1] = "summary" THEN Marker ELSE Unset,
           NEW q, q = prepare_if_due(p)
    PROVE  PushOk(q) /\ Settled(q)
<1>1. /\ q \in PushRec /\ q.desired = p.desired /\ q.dirty = p.dirty
      /\ q.last_successful = p.last_successful /\ q.last_revision = p.last_revision
      /\ q.shutting_down = p.shutting_down /\ Candidates(q) = Candidates(p)
      /\ ~InFlight(p) =>
            \/ /\ Candidates(p) = {} /\ ~InFlight(q)
            \/ /\ ~InFlight(q) /\ q.pending = p.pending
            \/ /\ InFlight(q) /\ DOMAIN q.in_flight = Candidates(p)
               /\ \A k \in DOMAIN q.in_flight : q.in_flight[k] = p.desired[k]
  <2>1. Prepared(p, q) BY PreparedIs
  <2>. QED BY <2>1, Zenon DEF Prepared
<1>2. Settled(q) BY <1>1, Zenon DEF Settled
<1>3. q.dirty \subseteq DOMAIN q.desired /\ DOMAIN q.last_successful \subseteq DOMAIN q.desired BY <1>1
<1>4. InFlight(q) => /\ DOMAIN q.in_flight = Candidates(q)
                     /\ \A k \in DOMAIN q.in_flight : q.in_flight[k] = q.desired[k]
  BY <1>1, Zenon
<1>5. q.shutting_down => \A k \in DOMAIN q.desired : IsTerminal(k) =>
          q.desired[k] = IF k[1] = "summary" THEN Marker ELSE Unset
  BY <1>1
<1>. QED BY <1>1, <1>2, <1>3, <1>4, <1>5, Zenon DEF PushOk

LEMMA FlushOk ==
    ASSUME NEW p, PushOk(p), ~InFlight(p), NEW q, q = flush_coalesced(p)
    PROVE  /\ PushOk(q) /\ (Settled(p) => Settled(q)) /\ q.desired = p.desired
           /\ q.dirty = p.dirty /\ q.last_successful = p.last_successful
           /\ q.last_revision = p.last_revision /\ q.shutting_down = p.shutting_down
  BY PreparedOk, PreparedIs DEF flush_coalesced, PushOk, Prepared

LEMMA SnapshotOk ==
    ASSUME NEW p, PushOk(p), ~InFlight(p), NEW r \in Nat, NEW f \in Options,
           NEW q, q = on_snapshot_revision(p, r, f)
    PROVE  /\ PushOk(q) /\ q.last_revision \in {p.last_revision, r}
           /\ q = p \/ Settled(q)
           /\ q.dirty = p.dirty \cap DOMAIN q.desired \/ q = p
           /\ \A k \in DOMAIN q.last_successful :
                 k \in DOMAIN p.last_successful /\ q.last_successful[k] = p.last_successful[k]
           /\ q.shutting_down = p.shutting_down
<1>1. CASE p.shutting_down \/ r <= p.last_revision BY <1>1 DEF on_snapshot_revision
<1>2. CASE ~(p.shutting_down \/ r <= p.last_revision)
  <2>. DEFINE l == Keep(p.last_successful, DOMAIN f)
              d == p.dirty \cap DOMAIN f
              m == [accept_rendered_frame(p, f) EXCEPT !.last_revision = r, !.pending = TRUE]
  <2>1. p \in PushRec /\ p.last_successful \in Options BY DEF PushOk, PushRec
  <2>2. l \in Options /\ DOMAIN l = DOMAIN p.last_successful \cap DOMAIN f
        /\ \A k \in DOMAIN l : l[k] = p.last_successful[k]
    BY <2>1, KeepIs, Zenon
  <2>3. m = [p EXCEPT !.desired = f, !.dirty = d, !.last_successful = l,
                      !.last_revision = r, !.pending = TRUE]
    BY <2>1 DEF accept_rendered_frame, PushRec
  <2>4. q = prepare_if_due(m) BY <1>2 DEF on_snapshot_revision
  <2>. HIDE DEF l, m
  <2>5. /\ m \in PushRec /\ m.desired = f /\ m.dirty = d /\ m.last_successful = l
        /\ m.last_revision = r /\ m.pending /\ ~m.shutting_down /\ m.in_flight = p.in_flight
        /\ ~p.shutting_down
    <3>1. d \in SUBSET Key BY <2>1 DEF PushRec
    <3>. HIDE DEF d
    <3>. QED BY <1>2, <2>1, <2>2, <2>3, <3>1 DEF PushRec
  <2>7. PushOk(q) /\ Settled(q) BY <2>4, <2>5, <2>2, PreparedOk DEF InFlight
  <2>8. /\ q.desired = f /\ q.dirty = d /\ q.last_successful = l /\ q.last_revision = r
        /\ ~q.shutting_down
    BY <2>4, <2>5, PreparedIs DEF Prepared
  <2>. HIDE DEF d
  <2>. QED BY <2>2, <2>7, <2>8, <2>1, <2>5 DEF PushOk, PushRec, d
<1>. QED BY <1>1, <1>2

(* Forgetting keys leaves fewer that differ.                                 *)
LEMMA RemovedOk ==
    ASSUME NEW p, PushOk(p), ~InFlight(p), NEW S, NEW q, q = remove_keys(p, S)
    PROVE  /\ PushOk(q) /\ (Settled(p) => Settled(q)) /\ q.last_revision = p.last_revision
           /\ q.shutting_down = p.shutting_down /\ ~InFlight(q) /\ q.pending = p.pending
           /\ q.dirty = p.dirty \ S
           /\ \A k \in DOMAIN q.last_successful :
                 /\ k \in DOMAIN p.last_successful /\ k \notin S
                 /\ q.last_successful[k] = p.last_successful[k]
<1>. DEFINE w == Keep(p.desired, DOMAIN p.desired \ S)
            l == Keep(p.last_successful, DOMAIN p.last_successful \ S)
            d == p.dirty \ S
<1>1. p \in PushRec /\ p.last_successful \in Options /\ p.desired \in Options BY DEF PushOk, PushRec
<1>2. /\ l \in Options /\ DOMAIN l = DOMAIN p.last_successful \ S
      /\ \A k \in DOMAIN l : l[k] = p.last_successful[k]
      /\ w \in Options /\ DOMAIN w = DOMAIN p.desired \ S
      /\ \A k \in DOMAIN w : w[k] = p.desired[k]
  <2>2. /\ l \in Options
        /\ DOMAIN l = DOMAIN p.last_successful \cap (DOMAIN p.last_successful \ S)
        /\ \A k \in DOMAIN l : l[k] = p.last_successful[k]
    BY <1>1, KeepIs, Zenon
  <2>3. /\ w \in Options /\ DOMAIN w = DOMAIN p.desired \cap (DOMAIN p.desired \ S)
        /\ \A k \in DOMAIN w : w[k] = p.desired[k]
    BY <1>1, KeepIs, Zenon
  <2>. HIDE DEF l, w
  <2>. QED BY <2>2, <2>3
<1>3. q = [p EXCEPT !.desired = w, !.dirty = d, !.last_successful = l] BY <1>1 DEF remove_keys, PushRec
<1>. HIDE DEF w, l
<1>4. /\ q \in PushRec /\ q.desired = w /\ q.dirty = d /\ q.last_successful = l
      /\ q.last_revision = p.last_revision /\ q.pending = p.pending
      /\ q.shutting_down = p.shutting_down /\ q.in_flight = p.in_flight
  <2>1. d \in SUBSET Key BY <1>1 DEF PushRec
  <2>. HIDE DEF d
  <2>. QED BY <1>1, <1>2, <1>3, <2>1 DEF PushRec
<1>. QED BY <1>2, <1>4 DEF PushOk, InFlight, Settled, Candidates

(* The shutdown projection wants its marker, whatever was shown.             *)
LEMMA ShutdownOk ==
    ASSUME NEW p, PushOk(p), ~InFlight(p), NEW q, q = request_shutdown(p)
    PROVE  /\ PushOk(q) /\ Settled(q) /\ q.shutting_down /\ q.last_revision = p.last_revision
           /\ q.last_successful = p.last_successful
           /\ \A k \in DOMAIN q.last_successful : IsTerminal(k) => k \in q.dirty
<1>. DEFINE T == {k \in DOMAIN p.desired \cup {Global} : IsTerminal(k)}
            last == [k \in T |-> IF k[1] = "summary" THEN Marker ELSE Unset]
            w == Put(p.desired, last)
            m == [p EXCEPT !.shutting_down = TRUE, !.desired = w, !.dirty = DOMAIN last,
                           !.pending = TRUE]
<1>1. p \in PushRec /\ p.desired \in Options /\ DOMAIN p.desired \subseteq Key BY OptionsAre DEF PushOk, PushRec
<1>2. T \in SUBSET Key BY <1>1 DEF Key
<1>3. last \in Options /\ DOMAIN last = T BY <1>2, OptionsAre DEF Value
<1>4. /\ w \in Options /\ DOMAIN w = DOMAIN p.desired \cup T
      /\ \A k \in T : w[k] = IF k[1] = "summary" THEN Marker ELSE Unset
  <2>1. \A k \in T : last[k] = IF k[1] = "summary" THEN Marker ELSE Unset OBVIOUS
  <2>. HIDE DEF last, T
  <2>2. /\ w \in Options /\ DOMAIN w = DOMAIN p.desired \cup DOMAIN last
        /\ \A k \in DOMAIN last : w[k] = last[k]
    BY <1>1, <1>3, PutIs, Zenon
  <2>. HIDE DEF w
  <2>. QED BY <1>3, <2>1, <2>2
<1>5. q = prepare_if_due(m) BY <1>1 DEF request_shutdown, PushRec
<1>6. DOMAIN w \in SUBSET Key BY <1>1, <1>2, <1>4
<1>. HIDE DEF last, w
<1>7. /\ m \in PushRec /\ m.desired = w /\ m.dirty = T
      /\ m.last_successful = p.last_successful /\ m.last_revision = p.last_revision
      /\ m.pending /\ m.shutting_down /\ m.in_flight = p.in_flight
  <2>. HIDE DEF T
  <2>. QED BY <1>1, <1>2, <1>3, <1>4 DEF PushRec
<1>. HIDE DEF m
<1>9. PushOk(q) /\ Settled(q) BY <1>5, <1>7, <1>4, PreparedOk DEF PushOk, InFlight
<1>. QED BY <1>9, <1>5, <1>7, PreparedIs DEF PushOk, Prepared

(* The end of a batch: it is recorded, or all of it is to be written again.  *)
Completed(p, b, q) ==
    /\ PushOk(q) /\ Settled(q) /\ ~InFlight(q) /\ q.desired = p.desired
    /\ q.last_revision = p.last_revision /\ q.shutting_down = p.shutting_down
    /\ b => /\ q.dirty = p.dirty \ DOMAIN p.in_flight
            /\ DOMAIN q.last_successful = DOMAIN p.last_successful \cup DOMAIN p.in_flight
            /\ \A k \in DOMAIN p.in_flight : q.last_successful[k] = p.in_flight[k]
            /\ \A k \in DOMAIN p.last_successful \ DOMAIN p.in_flight :
                  q.last_successful[k] = p.last_successful[k]
    /\ ~b => /\ q.dirty = p.dirty \cup DOMAIN p.in_flight
             /\ q.last_successful = p.last_successful

LEMMA CompletedOk ==
    ASSUME NEW p, PushOk(p), InFlight(p), NEW b \in BOOLEAN, NEW q, q = complete_batch(p, b)
    PROVE  Completed(p, b, q)
<1>. DEFINE S == DOMAIN p.in_flight
            d == IF b THEN p.dirty \ S ELSE p.dirty \cup S
            l == IF b THEN Put(p.last_successful, Keep(p.in_flight, S)) ELSE p.last_successful
            g == p.pending \/ (~b /\ d # {})
<1>1. /\ p \in PushRec /\ p.last_successful \in Options /\ p.in_flight \in Options
      /\ p.desired \in Options /\ p.dirty \subseteq Key /\ S # {}
  BY DEF PushOk, PushRec, InFlight
<1>2. /\ S = Candidates(p) /\ S \subseteq DOMAIN p.desired /\ S \subseteq Key
      /\ \A k \in S : p.in_flight[k] = p.desired[k]
      /\ \A k \in S : p.shutting_down => IsTerminal(k)
  BY <1>1, CandidatesAre, OptionsAre DEF PushOk
<1>4. q = [p EXCEPT !.in_flight = NoKeys, !.dirty = d, !.last_successful = l, !.pending = g]
  BY <1>1, <1>2 DEF complete_batch, PushRec
<1>5. b => /\ l \in Options /\ DOMAIN l = DOMAIN p.last_successful \cup S
           /\ \A k \in S : l[k] = p.in_flight[k]
           /\ \A k \in DOMAIN p.last_successful \ S : l[k] = p.last_successful[k]
  <2>. DEFINE h == Keep(p.in_flight, S)
  <2>1. h \in Options /\ DOMAIN h = DOMAIN p.in_flight \cap S
        /\ \A k \in DOMAIN h : h[k] = p.in_flight[k]
    BY <1>1, KeepIs, Zenon
  <2>. HIDE DEF h
  <2>2. /\ Put(p.last_successful, h) \in Options
        /\ DOMAIN Put(p.last_successful, h) = DOMAIN p.last_successful \cup DOMAIN h
        /\ \A k \in DOMAIN h : Put(p.last_successful, h)[k] = h[k]
        /\ \A k \in DOMAIN p.last_successful \ DOMAIN h :
              Put(p.last_successful, h)[k] = p.last_successful[k]
    BY <1>1, <2>1, PutIs, Zenon
  <2>3. b => l = Put(p.last_successful, h) BY DEF h
  <2>. HIDE DEF l, S
  <2>. QED BY <2>1, <2>2, <2>3 DEF S
<1>6. ~b => l = p.last_successful OBVIOUS
<1>7. (b => d = p.dirty \ S) /\ (~b => d = p.dirty \cup S /\ g) /\ d \in SUBSET Key
      /\ g \in BOOLEAN
  <2>1. (b => d = p.dirty \ S) /\ (~b => d = p.dirty \cup S) /\ d \in SUBSET Key BY <1>1, <1>2
  <2>3. p.pending \in BOOLEAN BY <1>1 DEF PushRec
  <2>. HIDE DEF d
  <2>. QED BY <2>1, <1>1, <2>3
<1>. HIDE DEF d, l, g, S
<1>9. /\ q \in PushRec /\ q.desired = p.desired /\ q.dirty = d /\ q.last_successful = l
      /\ q.pending = g /\ q.last_revision = p.last_revision
      /\ q.shutting_down = p.shutting_down /\ q.in_flight = NoKeys
  BY <1>1, <1>4, <1>7, <1>5, <1>6, OptionsAre DEF PushRec
<1>12. Settled(q) BY <1>7, <1>9, <1>2, <1>5 DEF Settled, Candidates
<1>. QED BY <1>5, <1>6, <1>7, <1>9, OptionsAre, <1>12, <1>2 DEF S, Completed, InFlight, PushOk

LEMMA DueOk ==
    ASSUME NEW p, PushOk(p), NEW q, q = [p EXCEPT !.due = TRUE]
    PROVE  /\ PushOk(q) /\ (Settled(p) => Settled(q)) /\ InFlight(q) = InFlight(p)
           /\ q.dirty = p.dirty /\ q.last_successful = p.last_successful
           /\ q.last_revision = p.last_revision /\ q.shutting_down = p.shutting_down
           /\ q.in_flight = p.in_flight
  BY DEF PushOk, PushRec, Candidates, InFlight, Settled

(* The target a key is about, and the keys of the targets that are known.    *)
LEMMA KeyTargets ==
    /\ \A k \in Key : k = Global \/ k[2] \in Target
    /\ Global \in Key /\ Global[2] \notin Target
    /\ \A T \in SUBSET Target : {u \in Target : \E k \in KeysOf(T) : k[2] = u} = T
<1>2. Global \in Key /\ Global[2] \notin Target BY PushAssumption DEF Key, Global, Target
<1>3. ASSUME NEW T \in SUBSET Target, NEW u \in T PROVE \E k \in KeysOf(T) : k[2] = u
  <2>1. CASE u \in SpSession
    <3>2. <<"summary", u>> \in KeysOf(T) BY <2>1 DEF KeysOf, Key
    <3>. QED BY <2>1, <3>2 DEF Key
  <2>2. CASE u \in SpPane
    <3>2. <<"pane", u>> \in KeysOf(T) BY <2>2 DEF KeysOf, Key
    <3>. QED BY <2>2, <3>2 DEF Key
  <2>. QED BY <2>1, <2>2 DEF Target
<1>4. ASSUME NEW T \in SUBSET Target, NEW u \in Target, NEW k \in KeysOf(T), k[2] = u
      PROVE  u \in T
  BY <1>2, <1>4 DEF KeysOf
<1>. QED BY <1>2, <1>3, <1>4 DEF Key, Target

LEMMA CountForgotten ==
    ASSUME SpInv
    PROVE  /\ IsFiniteSet(Target) /\ IsFiniteSet(Forgotten) /\ Cardinality(Forgotten) \in Nat
           /\ \A T \in SUBSET Target :
                 /\ IsFiniteSet(T) /\ Cardinality(T) \in Nat
                 /\ Forgotten \subseteq T => Cardinality(Forgotten) <= Cardinality(T)
                 /\ Cardinality(T) <= Cardinality(Target)
                 /\ \A t \in T : t \notin Forgotten /\ T = Forgotten \cup {t} =>
                       Cardinality(T) = Cardinality(Forgotten) + 1
           /\ MaxRevision \in Nat /\ MaxRevision > 0 /\ canon.revision \in Nat
<1>2. \A T \in SUBSET Target : IsFiniteSet(T) /\ Cardinality(T) \in Nat
                               /\ Cardinality(T) <= Cardinality(Target)
  BY PushAssumption, FS_Subset, FS_CardinalityType DEF Target
<1>4. IsFiniteSet(Forgotten) /\ Cardinality(Forgotten) \in Nat BY <1>2 DEF Forgotten
<1>5. ASSUME NEW T \in SUBSET Target, Forgotten \subseteq T
      PROVE  Cardinality(Forgotten) <= Cardinality(T)
  BY <1>2, <1>5, FS_Subset
<1>6. ASSUME NEW T \in SUBSET Target, NEW t \in T, t \notin Forgotten, T = Forgotten \cup {t}
      PROVE  Cardinality(T) = Cardinality(Forgotten) + 1
  BY <1>4, <1>6, FS_AddElement
<1>7. canon.revision \in Nat BY DEF SpInv, SpShapes
<1>. QED BY PushAssumption, <1>2, <1>4, <1>5, <1>6, <1>7 DEF Target

LEMMA SpStart == SpInit => SpInv
<1>. SUFFICES ASSUME SpInit PROVE SpInv OBVIOUS
<1>3. canon.frame \in [KeysOf(Target) -> Value] /\ canon.revision = 1
      /\ canon = [revision |-> canon.revision, frame |-> canon.frame]
  BY DEF SpInit, build_display_frame, Value, Text, KeysOf
<1>4. canon.frame \in Options /\ DOMAIN canon.frame = KeysOf(Target) BY <1>3, OptionsAre DEF KeysOf
<1>5. Known = Target BY <1>4, KeyTargets DEF Known, KeysOf
<1>7. /\ push = NewPush /\ push \in PushRec /\ push.desired = NoKeys /\ push.dirty = {}
      /\ push.last_successful = NoKeys /\ push.in_flight = NoKeys /\ ~push.shutting_down
      /\ push.last_revision = 0
  <2>. HIDE DEF NoKeys, Options
  <2>. QED BY OptionsAre DEF SpInit, NewPush, PushRec
<1>8. ~InFlight(push) /\ Candidates(push) = {} /\ PushOk(push) /\ Settled(push)
  BY <1>7, OptionsAre DEF InFlight, Candidates, PushOk, Settled
<1>10. RevisionsCounted
  BY PushAssumption, <1>3, <1>4, <1>5, FS_Subset, FS_CardinalityType, <1>7 DEF SpInit, RevisionsCounted, Target,
    Forgotten
<1>. QED BY <1>8, <1>3, <1>4, OptionsAre, <1>10, <1>7 DEF SpInv, SpInit, InFlight, SpShapes, RecordedIsShown

(* A step that leaves the canonical state and tmux alone.                    *)
LEMMA SpAside ==
    ASSUME SpInv, UNCHANGED <<canon, tmux>>,
           captured' = captured \/ captured' = canon,
           PushOk(push'), push'.last_revision <= canon.revision,
           driver' \in {"free", "rendering", "writing", "marker", "marking"},
           stop' \in {"no", "asked", "marked", "done", "failed"},
           InFlight(push') = (driver' \in {"writing", "marking"}),
           Settled(push') \/ push'.last_revision < canon.revision,
           driver' \in {"marker", "marking"} \/ stop' \in {"marked", "done"} =>
               push'.shutting_down,
           \A k \in DOMAIN push'.last_successful \ push'.dirty :
               /\ k \notin DOMAIN push'.in_flight
               /\ push'.shutting_down => IsTerminal(k)
               => /\ k \in DOMAIN push.last_successful \ push.dirty
                  /\ push'.last_successful[k] = push.last_successful[k]
                  /\ k \notin DOMAIN push.in_flight
                  /\ push.shutting_down => IsTerminal(k)
    PROVE  SpInv'
<1>3. Known' = Known /\ Forgotten' = Forgotten BY DEF Known, Forgotten
<1>6. PushOk(push)' /\ (Settled(push)' \/ push'.last_revision < canon'.revision)
  BY DEF PushOk, Settled, Candidates, InFlight
<1>. QED BY <1>3, <1>6 DEF SpInv, RecordedIsShown, Dead, SpShapes, InFlight, RevisionsCounted

(* The worker: it renders what it captured, and flushes.                     *)
LEMMA DriveSteps ==
    ASSUME SpInv, Drive \/ IntervalPasses \/ ShutdownAsked \/ ShutdownFlag \/ ShutdownGivesUp
    PROVE  SpInv'
<1>1. /\ PushOk(push) /\ canon.revision \in Nat /\ push.last_revision <= canon.revision
      /\ captured.revision \in Nat /\ captured.frame \in Options
      /\ captured.revision <= canon.revision
      /\ driver \in {"free", "rendering", "writing", "marker", "marking"}
      /\ stop \in {"no", "asked", "marked", "done", "failed"}
      /\ InFlight(push) = (driver \in {"writing", "marking"})
      /\ Settled(push) \/ push.last_revision < canon.revision
      /\ driver \in {"marker", "marking"} \/ stop \in {"marked", "done"} => push.shutting_down
      /\ DOMAIN push.last_successful \subseteq DOMAIN push.desired
  BY DEF SpInv, SpShapes, RevisionsCounted, PushOk
<1>3. CASE /\ push' = push /\ UNCHANGED <<canon, tmux>>
           /\ captured' = captured \/ captured' = canon
           /\ stop' \in {"no", "asked", "marked", "done", "failed"}
           /\ driver' \in {"free", "rendering", "writing", "marker", "marking"}
           /\ (driver' \in {"writing", "marking"}) = (driver \in {"writing", "marking"})
           /\ driver' \in {"marker", "marking"} \/ stop' \in {"marked", "done"} =>
                 push.shutting_down
  BY <1>1, <1>3, SpAside
<1>4. CASE Rendered BY <1>1, <1>4, SnapshotOk, SpAside DEF Rendered, PushOk, InFlight
<1>5. CASE DriveFlush BY <1>1, <1>5, FlushOk, SpAside DEF DriveFlush, InFlight
<1>6. CASE IntervalPasses BY <1>6, <1>1, DueOk, SpAside DEF IntervalPasses
<1>7. CASE DriveSnapshot \/ WorkerLeaves \/ ShutdownAsked \/ ShutdownFlag \/ ShutdownGivesUp
  BY <1>7, <1>1, <1>3 DEF DriveSnapshot, WorkerLeaves, ShutdownAsked, ShutdownFlag, ShutdownGivesUp
<1>. QED BY <1>4, <1>5, <1>6, <1>7 DEF Drive

(* begin_shutdown projects its marker while it holds the driver lock.        *)
LEMMA ShutdownSteps_ ==
    ASSUME SpInv, ShutdownProjection \/ ShutdownFlush PROVE SpInv'
  BY ShutdownOk, SpAside, FlushOk DEF SpInv, SpShapes, RevisionsCounted, PushOk, ShutdownProjection, InFlight,
    ShutdownFlush

(* What a write leaves: the target's option, if it still exists.             *)
LEMMA WrittenIs ==
    ASSUME SpInv, NEW f \in Options, tmux' = Write(f)
    PROVE  /\ tmux' \in [alive : SUBSET Target, opts : [Key -> Value \cup {Absent}]]
           /\ tmux'.alive = tmux.alive
           /\ \A k \in Key : /\ Dead(k)' = Dead(k)
                             /\ k \in DOMAIN f /\ ~Dead(k) => tmux'.opts[k] = f[k]
                             /\ k \notin DOMAIN f => tmux'.opts[k] = tmux.opts[k]
<1>. DEFINE o == [k \in Key |-> IF k \in DOMAIN f /\ ~Dead(k) THEN f[k] ELSE tmux.opts[k]]
<1>1. tmux \in [alive : SUBSET Target, opts : [Key -> Value \cup {Absent}]] BY DEF SpInv, SpShapes
<1>3. o \in [Key -> Value \cup {Absent}] BY <1>1, OptionsAre
<1>4. tmux' = [tmux EXCEPT !.opts = o] BY <1>1 DEF Write
<1>5. \A k \in Key : /\ k \in DOMAIN f /\ ~Dead(k) => o[k] = f[k]
                     /\ k \notin DOMAIN f => o[k] = tmux.opts[k]
  OBVIOUS
<1>. HIDE DEF o
<1>6. tmux'.alive = tmux.alive /\ tmux'.opts = o
      /\ tmux' \in [alive : SUBSET Target, opts : [Key -> Value \cup {Absent}]]
  BY <1>1, <1>3, <1>4
<1>. QED BY <1>5, <1>6 DEF Dead

(* The end of a batch, whatever of it tmux has: what was written and what is *)
(* recorded agree, or the key is dirty.                                      *)
LEMMA BatchSteps ==
    ASSUME SpInv, BatchEnds PROVE SpInv'
<1>1. /\ PushOk(push) /\ canon.revision \in Nat /\ push.last_revision <= canon.revision
      /\ InFlight(push) /\ driver \in {"writing", "marking"} /\ RecordedIsShown
      /\ stop \in {"no", "asked", "marked", "done", "failed"}
      /\ driver = "marking" \/ stop \in {"marked", "done"} => push.shutting_down
      /\ UNCHANGED <<canon, captured>>
      /\ push.in_flight \in Options /\ DOMAIN push.in_flight \subseteq Key
      /\ DOMAIN push.desired \subseteq Key
      /\ DOMAIN push.last_successful \subseteq DOMAIN push.desired
      /\ tmux \in [alive : SUBSET Target, opts : [Key -> Value \cup {Absent}]]
  BY OptionsAre DEF SpInv, SpShapes, RevisionsCounted, PushOk, PushRec, BatchEnds, BatchSucceeds, BatchFails,
    BatchPaneMismatch, BatchServerMismatch
<1>2. ASSUME tmux' \in [alive : SUBSET Target, opts : [Key -> Value \cup {Absent}]],
             tmux'.alive = tmux.alive, PushOk(push'), Settled(push'), ~InFlight(push'),
             push'.last_revision = push.last_revision,
             push'.shutting_down = push.shutting_down, RecordedIsShown',
             driver' \in {"free", "marker"}, driver' = "marker" => driver = "marking",
             stop' = stop \/ stop' = "failed"
      PROVE  SpInv'
  <2>3. RevisionsCounted' BY <1>1, <1>2 DEF SpInv, RevisionsCounted, Known, Forgotten
  <2>5. driver' \in {"marker", "marking"} \/ stop' \in {"marked", "done"} =>
            push'.shutting_down
    BY <1>1, <1>2
  <2>. QED BY <1>2, <1>1, <2>3, <2>5 DEF SpInv, SpShapes, InFlight, PushOk, Settled, Candidates
<1>3. /\ driver = "writing" => driver' = "free"
      /\ driver = "marking" => driver' \in {"marker", "free"}
      /\ stop' = stop \/ stop' = "failed"
  BY <1>1 DEF BatchEnds, BatchSucceeds, BatchFails, BatchPaneMismatch, BatchServerMismatch, Release
<1>4. driver' \in {"free", "marker"} /\ (driver' = "marker" => driver = "marking") BY <1>1, <1>3
<1>5. CASE BatchSucceeds
  <2>2. /\ tmux' \in [alive : SUBSET Target, opts : [Key -> Value \cup {Absent}]]
        /\ tmux'.alive = tmux.alive
        /\ \A k \in Key : /\ Dead(k)' = Dead(k)
                          /\ k \in DOMAIN push.in_flight /\ ~Dead(k) =>
                                tmux'.opts[k] = push.in_flight[k]
                          /\ k \notin DOMAIN push.in_flight => tmux'.opts[k] = tmux.opts[k]
    BY <1>1, <1>5, WrittenIs DEF BatchSucceeds
  <2>3. /\ PushOk(push') /\ Settled(push') /\ ~InFlight(push')
        /\ push'.last_revision = push.last_revision
        /\ push'.shutting_down = push.shutting_down
        /\ push'.dirty = push.dirty \ DOMAIN push.in_flight
        /\ DOMAIN push'.last_successful
              = DOMAIN push.last_successful \cup DOMAIN push.in_flight
        /\ \A k \in DOMAIN push.in_flight : push'.last_successful[k] = push.in_flight[k]
        /\ \A k \in DOMAIN push.last_successful \ DOMAIN push.in_flight :
              push'.last_successful[k] = push.last_successful[k]
    <3>1. Completed(push, TRUE, push') BY <1>1, <1>5, CompletedOk DEF BatchSucceeds
    <3>. QED BY <3>1 DEF Completed
  <2>. QED BY <1>2, <1>3, <1>4, <2>2, <2>3, <1>1 DEF RecordedIsShown
<1>6. ASSUME NEW p, p = complete_batch(push, FALSE), NEW f \in Options,
             DOMAIN f \subseteq DOMAIN push.in_flight, tmux' = Write(f) \/ tmux' = tmux,
             DOMAIN push'.last_successful \subseteq DOMAIN p.last_successful,
             \A k \in DOMAIN push'.last_successful :
                 /\ push'.last_successful[k] = p.last_successful[k]
                 /\ k \in p.dirty => k \in push'.dirty,
             push'.shutting_down = p.shutting_down
      PROVE  /\ tmux' \in [alive : SUBSET Target, opts : [Key -> Value \cup {Absent}]]
             /\ tmux'.alive = tmux.alive /\ RecordedIsShown'
  <2>1. /\ tmux' \in [alive : SUBSET Target, opts : [Key -> Value \cup {Absent}]]
        /\ tmux'.alive = tmux.alive
        /\ \A k \in Key : /\ Dead(k)' = Dead(k)
                          /\ k \notin DOMAIN f => tmux'.opts[k] = tmux.opts[k]
    BY <1>6, WrittenIs, <1>1 DEF Dead
  <2>2. /\ p.dirty = push.dirty \cup DOMAIN push.in_flight
        /\ p.last_successful = push.last_successful
        /\ p.shutting_down = push.shutting_down
    <3>1. Completed(push, FALSE, p) BY <1>1, <1>6, CompletedOk
    <3>. QED BY <3>1 DEF Completed
  <2>3. RecordedIsShown'
    <3>. SUFFICES ASSUME NEW k \in DOMAIN push'.last_successful \ push'.dirty, ~Dead(k)',
                         push'.shutting_down => IsTerminal(k)
                  PROVE  tmux'.opts[k] = push'.last_successful[k]
      BY DEF RecordedIsShown
    <3>1. /\ k \in DOMAIN push.last_successful \ push.dirty /\ k \notin DOMAIN push.in_flight
          /\ push'.last_successful[k] = push.last_successful[k]
          /\ push.shutting_down => IsTerminal(k)
      <4>2. /\ k \in DOMAIN p.last_successful /\ k \notin p.dirty
            /\ push'.last_successful[k] = p.last_successful[k]
        BY <1>6
      <4>. QED BY <2>2, <4>2, <1>6
    <3>. QED BY <1>1, <3>1, <1>6, <2>1 DEF RecordedIsShown
  <2>. QED BY <2>1, <2>3
<1>7. CASE BatchFails \/ BatchServerMismatch
  <2>1. PICK n \in 0..5 : \/ tmux' = Write(Keep(push.in_flight, Written(n)))
                          \/ tmux' = tmux
    <3>1. CASE BatchFails BY <3>1 DEF BatchFails
    <3>2. CASE BatchServerMismatch BY <3>2 DEF BatchServerMismatch
    <3>. QED BY <1>7, <3>1, <3>2
  <2>. DEFINE f == Keep(push.in_flight, Written(n))
  <2>3. f \in Options /\ DOMAIN f = DOMAIN push.in_flight \cap Written(n) BY <1>1, KeepIs, Zenon
  <2>4. DOMAIN f \subseteq DOMAIN push.in_flight /\ (tmux' = Write(f) \/ tmux' = tmux) BY <2>1, <2>3
  <2>. HIDE DEF f
  <2>. QED
    BY <1>2, <1>3, <1>4, <1>6, <1>7, <2>3, <2>4, <1>1, CompletedOk DEF Completed, BatchFails, BatchServerMismatch
<1>8. CASE BatchPaneMismatch
  <2>1. PICK k \in DOMAIN push.in_flight :
           push' = remove_keys(complete_batch(push, FALSE), {k})
    BY <1>8 DEF BatchPaneMismatch
  <2>. DEFINE p == complete_batch(push, FALSE)
  <2>3. /\ PushOk(p) /\ Settled(p) /\ ~InFlight(p)
        /\ p.last_revision = push.last_revision /\ p.shutting_down = push.shutting_down
    BY <1>1, CompletedOk DEF Completed
  <2>4. push' = remove_keys(p, {k}) BY <2>1
  <2>5. p = complete_batch(push, FALSE) OBVIOUS
  <2>. HIDE DEF p
  <2>6. /\ PushOk(push') /\ (Settled(p) => Settled(push'))
        /\ push'.last_revision = p.last_revision
        /\ push'.shutting_down = p.shutting_down /\ ~InFlight(push')
        /\ push'.dirty = p.dirty \ {k}
        /\ \A j \in DOMAIN push'.last_successful :
              /\ j \in DOMAIN p.last_successful /\ j \notin {k}
              /\ push'.last_successful[j] = p.last_successful[j]
    BY <2>3, <2>4, RemovedOk
  <2>8. /\ tmux' \in [alive : SUBSET Target, opts : [Key -> Value \cup {Absent}]]
        /\ tmux'.alive = tmux.alive /\ RecordedIsShown'
    BY <1>1, <1>6, <1>8, <2>5, <2>6 DEF BatchPaneMismatch
  <2>. QED BY <1>2, <1>3, <1>4, <2>3, <2>6, <2>8
<1>. QED BY <1>5, <1>7, <1>8 DEF BatchEnds

(* A mutation changes what is displayed; one that changes the topology holds *)
(* the driver lock and forgets the targets that left.                        *)
LEMMA CanonSteps ==
    ASSUME SpInv, NEW t \in Target, ContentChange(t) \/ TopologyChange(t) PROVE SpInv'
<1>1. /\ PushOk(push) /\ canon.revision \in Nat /\ push.last_revision <= canon.revision
      /\ canon \in [revision : Nat, frame : Options] /\ RecordedIsShown
      /\ captured \in [revision : Nat, frame : Options]
      /\ captured.revision <= canon.revision /\ push.last_revision \in Nat
      /\ DOMAIN canon.frame = KeysOf(Known) /\ Known \in SUBSET Target
      /\ canon.revision <= MaxRevision + Cardinality(Forgotten)
      /\ DOMAIN canon.frame \subseteq Key /\ \A k \in DOMAIN canon.frame : canon.frame[k] \in Value
      /\ InFlight(push) = (driver \in {"writing", "marking"})
      /\ UNCHANGED <<driver, captured, stop, tmux>>
  BY OptionsAre DEF SpInv, SpShapes, RevisionsCounted, PushOk, PushRec, Known, ContentChange, TopologyChange
<1>2. ASSUME NEW K \in SUBSET Target, NEW f \in [KeysOf(K) -> Value],
             canon' = [revision |-> canon.revision + 1, frame |-> f]
      PROVE  /\ canon' \in [revision : Nat, frame : Options]
             /\ canon'.revision = canon.revision + 1 /\ Known' = K
             /\ DOMAIN canon'.frame = KeysOf(K)
  <2>2. f \in Options /\ DOMAIN f = KeysOf(K) BY OptionsAre DEF KeysOf
  <2>5. {u \in Target : \E k \in KeysOf(K) : k[2] = u} = K BY KeyTargets
  <2>. QED BY <2>2, <1>1, <1>2, <2>5 DEF Known
<1>3. ASSUME canon' \in [revision : Nat, frame : Options],
             canon'.revision = canon.revision + 1,
             DOMAIN canon'.frame = KeysOf(Known'),
             canon'.revision <= MaxRevision + Cardinality(Forgotten'),
             PushOk(push'), InFlight(push') = InFlight(push),
             push'.last_revision = push.last_revision,
             push'.shutting_down = push.shutting_down, RecordedIsShown'
      PROVE  SpInv'
  BY <1>1, <1>3 DEF InFlight, SpInv, SpShapes, RevisionsCounted, PushOk, Settled, Candidates
<1>4. CASE ContentChange(t)
  <2>. DEFINE f == [k \in DOMAIN canon.frame |->
                       IF k[2] = t THEN CHOOSE v \in Text : v # canon.frame[k]
                                   ELSE canon.frame[k]]
  <2>1. canon' = [revision |-> canon.revision + 1, frame |-> f]
        /\ canon.revision < MaxRevision /\ push' = push
    BY <1>4 DEF ContentChange
  <2>2. f \in [KeysOf(Known) -> Value] BY <1>1 DEF Value, Text
  <2>. HIDE DEF f
  <2>3. /\ canon' \in [revision : Nat, frame : Options]
        /\ canon'.revision = canon.revision + 1 /\ Known' = Known
        /\ DOMAIN canon'.frame = KeysOf(Known)
    BY <1>1, <1>2, <2>1, <2>2
  <2>. QED BY <1>1, <1>3, <2>1, <2>3, CountForgotten DEF RecordedIsShown, Dead, Forgotten
<1>5. CASE TopologyChange(t)
  <2>. DEFINE known == {u \in Target : \E k \in DOMAIN canon.frame : k[2] = u}
              next == IF t \in known THEN known \ {t} ELSE known \cup {t}
              text == [k \in Key |-> IF k \in DOMAIN canon.frame THEN canon.frame[k] ELSE "a"]
              f == build_display_frame(next, text)
  <2>1. /\ driver = "free" /\ (t \in tmux.alive => canon.revision < MaxRevision)
        /\ (t \in known) = (t \notin tmux.alive)
        /\ canon' = [revision |-> canon.revision + 1, frame |-> f]
        /\ push' = retain_topology_targets(push, next)
    BY <1>5 DEF TopologyChange
  <2>2. known = Known /\ next \in SUBSET Target BY DEF Known
  <2>3. f \in [KeysOf(next) -> Value]
    <3>1. \A k \in KeysOf(next) : k \in Key /\ text[k] \in Value BY <1>1 DEF Value, Text, KeysOf
    <3>. HIDE DEF next, text
    <3>. QED BY <3>1 DEF build_display_frame, Value
  <2>4. /\ t \in Known => next = Known \ {t} /\ t \notin tmux.alive
        /\ t \notin Known => next = Known \cup {t} /\ t \in tmux.alive
    BY <2>1, <2>2
  <2>. HIDE DEF f, next, known
  <2>6. /\ canon' \in [revision : Nat, frame : Options]
        /\ canon'.revision = canon.revision + 1 /\ Known' = next
        /\ DOMAIN canon'.frame = KeysOf(next)
    BY <1>2, <2>1, <2>2, <2>3
  <2>7. ~InFlight(push) BY <1>1, <2>1
  <2>8. /\ PushOk(push') /\ push'.last_revision = push.last_revision
        /\ push'.shutting_down = push.shutting_down /\ ~InFlight(push')
        /\ push'.dirty = push.dirty \ (Key \ KeysOf(next))
        /\ \A k \in DOMAIN push'.last_successful :
              /\ k \in DOMAIN push.last_successful /\ k \notin Key \ KeysOf(next)
              /\ push'.last_successful[k] = push.last_successful[k]
    BY <1>1, <2>1, <2>7, RemovedOk DEF retain_topology_targets
  <2>9. canon'.revision <= MaxRevision + Cardinality(Forgotten')
    <3>2. CASE t \in Known
      <4>1. /\ Forgotten' = Forgotten \cup {t} /\ t \notin Forgotten
            /\ Forgotten' \in SUBSET Target /\ t \in Forgotten'
        BY <2>4, <2>6, <1>1, <3>2 DEF Forgotten
      <4>. DEFINE F == Forgotten'
      <4>2. Cardinality(F) = Cardinality(Forgotten) + 1
        <5>1. F = Forgotten \cup {t} /\ F \in SUBSET Target /\ t \in F BY <4>1
        <5>. HIDE DEF F
        <5>. QED BY <4>1, <5>1, CountForgotten
      <4>. QED BY <1>1, <2>6, <4>2, CountForgotten
    <3>3. CASE t \notin Known
      <4>2. Cardinality(Forgotten') \in Nat
        <5>. DEFINE F == Forgotten'
        <5>. HIDE DEF F
        <5>. QED BY <1>1, CountForgotten DEF F, Forgotten
      <4>. QED BY <2>6, <4>2, <1>1, <2>1, <2>4, <3>3, CountForgotten
    <3>. QED BY <3>2, <3>3
  <2>. QED BY <1>3, <2>6, <2>8, <2>9, <2>7, <1>1 DEF RecordedIsShown, InFlight, Dead
<1>. QED BY <1>4, <1>5

(* A target dies before the daemon knows.                                    *)
LEMMA TargetDiesKeeps ==
    ASSUME SpInv, NEW t \in Target, TargetDies(t) PROVE SpInv'
<1>. DEFINE o == [k \in Key |-> IF k[2] = t THEN Absent ELSE tmux.opts[k]]
<1>1. /\ tmux \in [alive : SUBSET Target, opts : [Key -> Value \cup {Absent}]]
      /\ tmux' = [alive |-> tmux.alive \ {t}, opts |-> o]
      /\ UNCHANGED <<canon, push, driver, captured, stop>>
  BY DEF SpInv, SpShapes, TargetDies
<1>2. o \in [Key -> Value \cup {Absent}] /\ \A k \in Key : k[2] # t => o[k] = tmux.opts[k] BY <1>1
<1>. HIDE DEF o
<1>3. /\ tmux' \in [alive : SUBSET Target, opts : [Key -> Value \cup {Absent}]]
      /\ tmux'.alive = tmux.alive \ {t} /\ tmux'.opts = o
  BY <1>1, <1>2
<1>6. RevisionsCounted'
  <2>2. Cardinality(Forgotten') \in Nat /\ Cardinality(Forgotten) <= Cardinality(Forgotten')
        /\ Cardinality(Forgotten) \in Nat
    <3>. DEFINE F == Forgotten'
    <3>. HIDE DEF F
    <3>. QED BY <1>3, <1>1, CountForgotten DEF F, Forgotten, Known
  <2>4. canon'.revision <= MaxRevision + Cardinality(Forgotten')
    BY <1>1, <2>2, CountForgotten DEF SpInv, RevisionsCounted
  <2>. QED BY <1>1, <2>4 DEF SpInv, RevisionsCounted, Known
<1>7. RecordedIsShown' BY <1>1, OptionsAre, KeyTargets, <1>3, <1>2 DEF RecordedIsShown, SpInv, PushOk, PushRec, Dead
<1>. QED BY <1>1, <1>3, <1>6, <1>7 DEF SpInv, SpShapes, PushOk, InFlight, Settled, Candidates

LEMMA SpSteps == SpInv /\ [SpNext]_spVars => SpInv'
<1>. SUFFICES ASSUME SpInv, [SpNext]_spVars PROVE SpInv' OBVIOUS
<1>1. CASE Drive \/ IntervalPasses \/ ShutdownAsked \/ ShutdownFlag \/ ShutdownGivesUp BY <1>1, DriveSteps
<1>2. CASE ShutdownProjection \/ ShutdownFlush BY <1>2, ShutdownSteps_
<1>3. CASE BatchEnds BY <1>3, BatchSteps
<1>4. ASSUME NEW t \in Target, ContentChange(t) \/ TopologyChange(t) \/ TargetDies(t)
      PROVE  SpInv'
  BY <1>4, CanonSteps, TargetDiesKeeps
<1>5. CASE UNCHANGED spVars
  BY <1>5 DEF spVars, SpInv, SpShapes, PushOk, RevisionsCounted, RecordedIsShown, Settled, Known, Forgotten,
    Candidates, InFlight, Dead
<1>. QED BY <1>1, <1>2, <1>3, <1>4, <1>5 DEF SpNext, Shutdown

(* The properties of the status display follow.                              *)
LEMMA SpInvSound == SpInv => DisplaySound
<1>. SUFFICES ASSUME SpInv PROVE DisplaySound OBVIOUS
<1>1. /\ PushOk(push) /\ push \in PushRec /\ SpShapes /\ RevisionsCounted /\ RecordedIsShown
      /\ Settled(push) \/ push.last_revision < canon.revision
      /\ driver \in {"marker", "marking"} \/ stop \in {"marked", "done"} => push.shutting_down
  BY DEF SpInv, PushOk
<1>3. SpTypeOK
  BY CountForgotten, <1>1, OptionsAre DEF Forgotten, SpShapes, RevisionsCounted, SpTypeOK, PushOk, PushRec
<1>. QED
  BY <1>1, <1>3 DEF DisplaySound, NoKeyForgotten, Settled, OnlyMarkerAfterShutdown, InFlight, PushOk, Candidates,
    MarkerShown, SpShapes, IsTerminal, RecordedIsShown

(* What the daemon records as shown in tmux is shown, no difference is       *)
(* forgotten while the worker runs, and a shutdown writes its marker only,   *)
(* and on every session (complete_batch, prepare_if_due, request_shutdown),  *)
(* whatever part of a failed batch tmux applied.                             *)
THEOREM DisplayKeeps == SpSpec => []DisplaySound
<1>1. SpSpec => []SpInv BY SpStart, SpSteps, PTL DEF SpSpec
<1>. QED BY <1>1, SpInvSound, PTL

-----------------------------------------------------------------------------
(* MutationQueue: sequences of mutations and what is in them.               *)

LEMMA AppendedSet ==
    ASSUME NEW S, NEW s \in Seq(S), NEW x \in S
    PROVE  Append(s, x) \in Seq(S) /\ ToSet(Append(s, x)) = ToSet(s) \cup {x}
  BY AppendProperties, LenProperties DEF ToSet

LEMMA HeadTailSet ==
    ASSUME NEW S, NEW s \in Seq(S), s # <<>>
    PROVE  Head(s) \in S /\ Tail(s) \in Seq(S) /\ ToSet(s) = {Head(s)} \cup ToSet(Tail(s))
<1>1. /\ Head(s) = s[1] /\ Head(s) \in S /\ Tail(s) \in Seq(S) /\ Len(Tail(s)) = Len(s) - 1
      /\ \A i \in 1..Len(Tail(s)) : Tail(s)[i] = s[i + 1]
      /\ Len(s) \in Nat /\ Len(s) # 0 /\ DOMAIN s = 1..Len(s)
  BY HeadTailProperties, EmptySeq, LenProperties
<1>2. DOMAIN Tail(s) = 1..(Len(s) - 1) BY <1>1, LenProperties
<1>3. 1..Len(s) = {1} \cup {i + 1 : i \in 1..(Len(s) - 1)}
  <2>1. ASSUME NEW k \in 1..Len(s), k # 1 PROVE k \in {i + 1 : i \in 1..(Len(s) - 1)} BY <1>1, <2>1
  <2>2. \A i \in 1..(Len(s) - 1) : i + 1 \in 1..Len(s) BY <1>1
  <2>3. 1 \in 1..Len(s) BY <1>1
  <2> QED BY <2>1, <2>2, <2>3
<1>4. ToSet(s) = {s[1]} \cup {s[i + 1] : i \in 1..(Len(s) - 1)} BY <1>1, <1>3 DEF ToSet
<1>5. ToSet(Tail(s)) = {s[i + 1] : i \in 1..(Len(s) - 1)} BY <1>1, <1>2 DEF ToSet
<1> QED BY <1>1, <1>4, <1>5

LEMMA EmptyToSet == ToSet(<<>>) = {} BY DEF ToSet

LEMMA InSeq == ASSUME NEW S, NEW s \in Seq(S) PROVE ToSet(s) \subseteq S BY LenProperties, ElementOfSeq DEF ToSet

(* Mutations in the order of their numbers.                                 *)
InLine(s) == \A i, j \in DOMAIN s : i < j => s[i].seq < s[j].seq
Ascending(s) == \A i, j \in DOMAIN s : i < j => s[i] < s[j]

LEMMA AppendInLine ==
    ASSUME NEW s \in Seq(Accepted), InLine(s), NEW m \in Accepted,
           \A x \in ToSet(s) : x.seq < m.seq
    PROVE  InLine(Append(s, m))
  BY AppendProperties, LenProperties DEF InLine, ToSet

LEMMA TailInLine ==
    ASSUME NEW s \in Seq(Accepted), s # <<>>, InLine(s)
    PROVE  InLine(Tail(s)) /\ \A x \in ToSet(Tail(s)) : Head(s).seq < x.seq
<1>1. /\ Head(s) = s[1] /\ Tail(s) \in Seq(Accepted) /\ Len(Tail(s)) = Len(s) - 1
      /\ \A i \in 1..Len(Tail(s)) : Tail(s)[i] = s[i + 1]
      /\ Len(s) \in Nat /\ Len(s) # 0 /\ DOMAIN s = 1..Len(s)
  BY HeadTailProperties, EmptySeq, LenProperties
<1>3. ASSUME NEW i \in 1..(Len(s) - 1) PROVE s[1].seq < Tail(s)[i].seq BY <1>1, LenProperties DEF InLine
<1>4. ASSUME NEW i \in 1..(Len(s) - 1), NEW j \in 1..(Len(s) - 1), i < j PROVE Tail(s)[i].seq < Tail(s)[j].seq
  BY <1>1, <1>4 DEF InLine
<1> QED BY <1>1, LenProperties, <1>3, <1>4 DEF InLine, ToSet

LEMMA AppendAscending ==
    ASSUME NEW s \in Seq(Nat), Ascending(s), NEW n \in Nat, \A x \in ToSet(s) : x < n
    PROVE  Ascending(Append(s, n))
  BY AppendProperties, LenProperties DEF Ascending, ToSet

-----------------------------------------------------------------------------
(* MutationQueue: what holds of the queues, the numbers and the waiters.    *)

ClientRec ==
    [st : {"idle", "routing", "waiting", "answered"}, kind : Request, seq : Nat,
     ans : {"none", "not_ready", "queue_full", "queued", "done", "accepted", "stopped", "closed"}]

MqShapes ==
    /\ phase \in {"installing", "hydrating", "serving", "exited"}
    /\ boot \in {"install", "take", "apply", "answer", "done"}
    /\ router \in Client \cup {Free}
    /\ fatal \in BOOLEAN /\ shutdown \in BOOLEAN /\ ready \in BOOLEAN /\ reconciled \in BOOLEAN
    /\ tickPending \in BOOLEAN /\ timeouts \in BOOLEAN
    /\ nextSeq \in Nat \ {0} /\ ticks \in 0..MaxTicks /\ ticker \in {"idle", "flagged"}
    /\ fifo \in Seq(Accepted) /\ queue \in Seq(Accepted) /\ batch \in Seq(Accepted)
    /\ worker \in Accepted \cup {Idle, Gone}
    /\ waiters \subseteq Nat /\ deferred \subseteq Nat
    /\ jobs \in Seq(Nat) /\ completions \in Seq(Nat) /\ applied \in Seq(Nat)
    /\ stopper \in [Stopper -> {"none", "begun", "failing", "flagged", "fatal", "done"}]
    /\ client \in [Client -> ClientRec]

(* What has been applied, and what of the batch has not.                    *)
Done == ToSet(applied)
Remaining == IF boot = "answer" THEN Tail(batch) ELSE batch
Fresh == IF worker.seq \in Done THEN {} ELSE {worker}

(* The queue is used when the bootstrap is over, the FIFO and its batch     *)
(* before.                                                                  *)
QueuesInTurn ==
    /\ boot \in {"install", "take", "done"} => batch = <<>>
    /\ boot = "answer" => batch # <<>> /\ Head(batch).seq \in Done
    /\ boot = "done" => fifo = <<>> /\ phase \in {"serving", "exited"}
    /\ boot # "done" => queue = <<>> /\ worker = Gone /\ phase # "serving"

(* Numbers rise from what was applied through the mutation at work, the     *)
(* batch, the FIFO and the queue.                                           *)
Numbered(m) == 0 < m.seq /\ m.seq < nextSeq
NumbersInLine ==
    /\ InLine(fifo) /\ InLine(batch) /\ InLine(queue) /\ Ascending(applied)
    /\ \A n \in Done : 0 < n /\ n < nextSeq
    /\ \A m \in ToSet(fifo) \cup ToSet(batch) \cup ToSet(queue) : Numbered(m)
    /\ \A m \in ToSet(Remaining) \cup ToSet(fifo) \cup ToSet(queue), n \in Done : n < m.seq
    /\ \A x \in ToSet(batch), m \in ToSet(fifo) : x.seq < m.seq
    /\ worker \in Accepted =>
          /\ Numbered(worker)
          /\ worker.seq \in Done \/ \A n \in Done : n < worker.seq
          /\ \A m \in ToSet(queue) : worker.seq < m.seq

(* Only effects are deferred, and a completion is of one that was applied.  *)
EffectsKnown ==
    /\ \A m \in ToSet(fifo) \cup ToSet(batch) : m.of = 0 /\ m.kind # "completed"
    /\ \A m \in ToSet(queue) \cup {worker} : IF m.kind = "completed" THEN m.of \in Done ELSE m.of = 0
    /\ ToSet(jobs) \cup ToSet(completions) \cup deferred \subseteq Done
    /\ worker.seq \in deferred => worker.kind = "effect"
    /\ boot = "answer" /\ Head(batch).seq \in deferred => Head(batch).kind = "effect"

(* Who stops has set the flag; the mutation worker only stops for a request.*)
StoppersFlagged ==
    /\ \A s \in Stopper : stopper[s] \in {"flagged", "fatal", "done"} => shutdown
    /\ stopper["worker"] \notin {"none", "done"} =>
          \/ boot = "answer" /\ Head(batch).kind = "shutdown"
          \/ boot = "done" /\ worker.kind = "shutdown"

(* Where the answer to number n will come from.                             *)
InTurn(n) ==
    \E m \in ToSet(fifo) \cup ToSet(queue) \cup ToSet(batch) \cup {worker} : m.seq = n
InEffect(n) ==
    n \in ToSet(jobs) \cup ToSet(completions) \/ \E m \in ToSet(queue) \cup Fresh : m.of = n
Awaited(n) == Stopping \/ IF n \in deferred THEN InEffect(n) ELSE InTurn(n)
ClientServed(r) ==
    /\ r.st \in {"idle", "routing"} => r.seq = 0
    /\ r.st = "waiting" => 0 < r.seq /\ r.seq < nextSeq /\ r.seq \in waiters /\ Awaited(r.seq)
    /\ r.st = "answered" => /\ r.ans \in {"done", "accepted"} => r.seq \in Done
                            /\ r.ans \in {"queue_full", "not_ready"} => r.seq = 0
ClientsServed == \A c \in Client : ClientServed(client[c])

(* A tick that is pending has not been applied.                             *)
TickBehind ==
    tickPending => \/ ticker = "flagged" \/ shutdown
                   \/ \E m \in ToSet(queue) \cup ToSet(fifo) \cup ToSet(Remaining) \cup Fresh : m.kind = "tick"

MqInv ==
    /\ MqShapes /\ QueuesInTurn /\ NumbersInLine /\ EffectsKnown /\ StoppersFlagged /\ ClientsServed
    /\ TickBehind

LEMMA MqStart == MqInit => MqInv
<1> SUFFICES ASSUME MqInit PROVE MqInv OBVIOUS
<1>0. ToSet(fifo) = {} /\ ToSet(queue) = {} /\ ToSet(batch) = {} /\ Done = {} /\ ToSet(jobs) = {}
      /\ ToSet(completions) = {} /\ Remaining = <<>> /\ ToSet(Remaining) = {}
  BY EmptyToSet DEF MqInit, Done, Remaining
<1>1. MqShapes
  <2>4. /\ nextSeq \in Nat \ {0} /\ ticks \in 0..MaxTicks
        /\ router \in Client \cup {Free} /\ worker \in Accepted \cup {Idle, Gone}
    BY QueueAssumption DEF MqInit
  <2> QED BY EmptySeq, <2>4 DEF MqInit, MqShapes, ClientRec, Request
<1>3. NumbersInLine BY <1>0 DEF InLine, Ascending, MqInit, NumbersInLine, Gone, Accepted, Request, Internal
<1>6. ClientsServed BY DEF MqInit, ClientsServed, ClientServed
<1>7. TickBehind BY DEF MqInit, TickBehind
<1> QED
  BY <1>1, <1>3, <1>0, <1>6, <1>7 DEF MqInv, MqInit, QueuesInTurn, EffectsKnown, Gone, StoppersFlagged, Stopper

LEMMA WorkerKinds ==
    /\ Idle \notin Accepted /\ Gone \notin Accepted
    /\ \A m \in Accepted : m.kind \in Request \cup Internal /\ m.seq \in Nat /\ m.of \in Nat
    /\ \A m \in Accepted \cup {Idle, Gone} : m.kind \in Request \cup Internal => m \in Accepted
  BY DEF Idle, Gone, Accepted, Request, Internal

LEMMA MqInvSound == MqInv => QueueSound
<1> SUFFICES ASSUME MqInv PROVE QueueSound OBVIOUS
<1>2. WaitersServed
  <2> SUFFICES ASSUME NEW c \in Client, client[c].st = "waiting", ~Stopping
               PROVE client[c].seq \in waiters /\ client[c].seq \in InHand
    BY DEF WaitersServed, MqInv, ClientsServed, ClientServed
  <2> DEFINE n == client[c].seq
  <2>2. CASE n \in deferred BY <2>2 DEF Awaited, InEffect, InHand, Fresh, MqInv, ClientsServed, ClientServed
  <2>3. CASE n \notin deferred BY <2>3 DEF Awaited, InTurn, InHand, Seqs, ToSet, MqInv, ClientsServed, ClientServed
  <2> QED BY <2>2, <2>3
<1>3. AppliedInOrder BY LenProperties DEF AppliedInOrder, MqInv, MqShapes, NumbersInLine, Ascending
<1>4. TickNotLost
  BY HeadTailSet DEF TickNotLost, MqInv, TickBehind, MqShapes, QueuesInTurn, Remaining, Fresh, Kinds, ToSet
<1> QED
  BY InSeq, <1>2, <1>3, <1>4 DEF QueueSound, MqInv, MqShapes, ClientRec, MqTypeOK, ClientsServed, ClientServed,
    AnswersHonest, Done

-----------------------------------------------------------------------------
(* MutationQueue: what the steps keep.                                      *)

QueueVars == <<boot, batch, fifo, queue, worker, applied, nextSeq>>

LEMMA SameLine ==
    ASSUME MqInv, UNCHANGED QueueVars
    PROVE  /\ NumbersInLine' /\ Done' = Done /\ Remaining' = Remaining /\ Fresh' = Fresh
           /\ UNCHANGED phase => QueuesInTurn'
           /\ UNCHANGED <<jobs, completions, deferred>> => EffectsKnown'
           /\ UNCHANGED <<stopper, shutdown>> => StoppersFlagged'
           /\ UNCHANGED <<tickPending, ticker, shutdown>> => TickBehind'
  BY DEF QueueVars, Done, Remaining, Fresh, MqInv, NumbersInLine, Numbered, QueuesInTurn, EffectsKnown,
    StoppersFlagged, TickBehind

LEMMA SameAwaited ==
    ASSUME UNCHANGED QueueVars, UNCHANGED <<jobs, completions, deferred>>, Stopping => Stopping',
           NEW n, Awaited(n)
    PROVE  Awaited(n)'
  BY DEF QueueVars, Fresh, Done, InTurn, InEffect, Awaited

(* A client that stays as it is.                                            *)
LEMMA StillServed ==
    ASSUME MqInv, NEW c \in Client, client'[c] = client[c], Done \subseteq Done', nextSeq <= nextSeq',
           nextSeq' \in Nat,
           client[c].st = "waiting" => client[c].seq \in waiters' /\ Awaited(client[c].seq)'
    PROVE  ClientServed(client[c])'
  BY DEF MqInv, ClientsServed, MqShapes, ClientServed, ClientRec

LEMMA SameServed ==
    ASSUME MqInv, UNCHANGED QueueVars, UNCHANGED <<jobs, completions, deferred, client, waiters>>,
           Stopping => Stopping'
    PROVE  ClientsServed'
  BY SameAwaited, StillServed DEF ClientsServed, QueueVars, Done, MqInv, MqShapes, ClientServed

LEMMA AnswerIs ==
    ASSUME client \in [Client -> ClientRec], NEW S, NEW ans \in {"done", "accepted", "stopped"},
           Answer(S, ans)
    PROVE  /\ client' \in [Client -> ClientRec]
           /\ \A c \in Client :
                 IF client[c].st = "waiting" /\ client[c].seq \in S \cap waiters
                 THEN client'[c].st = "answered" /\ client'[c].seq = client[c].seq /\ client'[c].ans = ans
                 ELSE client'[c] = client[c]
  BY DEF ClientRec, Answer

LEMMA RestIs ==
    ASSUME MqShapes, QueuesInTurn
    PROVE  /\ Remaining \in Seq(Accepted) /\ ToSet(Remaining) \subseteq ToSet(batch)
           /\ boot = "answer" => ToSet(batch) = {Head(batch)} \cup ToSet(Remaining) /\ Remaining = Tail(batch)
           /\ boot # "answer" => Remaining = batch
  BY HeadTailSet DEF MqShapes, QueuesInTurn, Remaining

-----------------------------------------------------------------------------
(* Requests.                                                                *)

LEMMA RouteCheckStep == ASSUME MqInv, NEW c \in Client, RouteCheck(c) PROVE MqInv'
<1>1. UNCHANGED QueueVars /\ UNCHANGED <<jobs, completions, deferred, waiters, stopper, shutdown, phase, tickPending, ticker>>
  BY DEF RouteCheck, QueueVars, sidebarVars, stopVars, tickVars
<1>2. client[c] \in ClientRec /\ client[c].st = "idle" /\ client[c].seq = 0
  BY DEF MqInv, MqShapes, RouteCheck, ClientsServed, ClientServed
<1>3. /\ client' \in [Client -> ClientRec]
      /\ \A d \in Client \ {c} : client'[d] = client[d]
      /\ client'[c].seq = 0 /\ client'[c].st \in {"routing", "answered"}
      /\ client'[c].st = "answered" => client'[c].ans \in {"not_ready", "queue_full"}
  <2>3. client \in [Client -> ClientRec] BY DEF MqInv, MqShapes
  <2>4. ASSUME NEW a \in {"not_ready", "queue_full"}, Refuse(c, a)
        PROVE  client' = [client EXCEPT ![c] = [[client[c] EXCEPT !.st = "answered"] EXCEPT !.ans = a]]
    BY <2>3, <2>4 DEF Refuse
  <2>5. ASSUME NEW k \in Request, client' = [client EXCEPT ![c].st = "routing", ![c].kind = k]
        PROVE  client' = [client EXCEPT ![c] = [[client[c] EXCEPT !.st = "routing"] EXCEPT !.kind = k]]
    BY <2>3, <2>5
  <2>7. CASE \E a \in {"not_ready", "queue_full"} : Refuse(c, a)
    <3>1. PICK a \in {"not_ready", "queue_full"} : Refuse(c, a) BY <2>7
    <3>2. PICK q \in ClientRec : /\ q.st = "answered" /\ q.seq = client[c].seq /\ q.ans = a
                                 /\ client' = [client EXCEPT ![c] = q]
      BY <2>4, <3>1, <1>2 DEF ClientRec
    <3> QED BY <1>2, <2>3, <3>2
  <2>8. CASE \E k \in Request : client' = [client EXCEPT ![c].st = "routing", ![c].kind = k]
    <3>1. PICK q \in ClientRec : q.st = "routing" /\ q.seq = client[c].seq /\ client' = [client EXCEPT ![c] = q]
      BY <2>5, <2>8, <1>2 DEF ClientRec
    <3> QED BY <1>2, <2>3, <3>1
  <2> QED BY <2>7, <2>8 DEF RouteCheck
<1>6. ClientsServed'
  BY <1>3, <1>1, SameAwaited, StillServed DEF ClientsServed, ClientServed, QueueVars, Done, MqInv, MqShapes,
    Stopping
<1> QED BY <1>1, <1>3, <1>6, SameLine DEF MqInv, MqShapes, RouteCheck, QueueVars, sidebarVars, stopVars, tickVars

(* A mutation with the next number at the end of the line.                  *)
Joins(m) ==
    /\ m \in Accepted /\ m.seq = nextSeq /\ nextSeq' = nextSeq + 1
    /\ IF Serving THEN queue' = Append(queue, m) /\ UNCHANGED fifo
                  ELSE fifo' = Append(fifo, m) /\ UNCHANGED queue
    /\ UNCHANGED <<batch, worker, applied>>
    /\ boot' = boot \/ (boot = "apply" /\ boot' = "take" /\ batch = <<>>)
    /\ phase' = phase /\ phase # "exited"
    /\ IF m.kind = "completed" THEN Serving /\ m.of \in Done ELSE m.of = 0

LEMMA JoinsLine ==
    ASSUME MqInv, NEW m, Joins(m)
    PROVE  /\ fifo' \in Seq(Accepted) /\ queue' \in Seq(Accepted) /\ nextSeq' \in Nat \ {0}
           /\ Done' = Done /\ Fresh' = Fresh /\ Remaining' = Remaining /\ nextSeq < nextSeq'
           /\ IF Serving THEN ToSet(queue') = ToSet(queue) \cup {m} /\ fifo' = fifo
                         ELSE ToSet(fifo') = ToSet(fifo) \cup {m} /\ queue' = queue
           /\ QueuesInTurn' /\ NumbersInLine'
<1>1. /\ fifo \in Seq(Accepted) /\ queue \in Seq(Accepted) /\ nextSeq \in Nat \ {0} /\ m \in Accepted
      /\ ToSet(fifo) \subseteq Accepted /\ ToSet(queue) \subseteq Accepted /\ ToSet(batch) \subseteq Accepted
      /\ Done \subseteq Nat /\ ToSet(Remaining) \subseteq Accepted
  BY InSeq, RestIs DEF MqInv, MqShapes, Joins, Done
<1>2. /\ Append(queue, m) \in Seq(Accepted) /\ ToSet(Append(queue, m)) = ToSet(queue) \cup {m}
      /\ Append(fifo, m) \in Seq(Accepted) /\ ToSet(Append(fifo, m)) = ToSet(fifo) \cup {m}
  BY <1>1, AppendedSet
<1>3. /\ fifo' \in Seq(Accepted) /\ queue' \in Seq(Accepted) /\ nextSeq' \in Nat \ {0} /\ nextSeq < nextSeq'
      /\ IF Serving THEN ToSet(queue') = ToSet(queue) \cup {m} /\ fifo' = fifo
                    ELSE ToSet(fifo') = ToSet(fifo) \cup {m} /\ queue' = queue
  <2>1. nextSeq' \in Nat \ {0} /\ nextSeq < nextSeq' BY <1>1 DEF Joins
  <2>2. CASE Serving BY <1>1, <1>2, <2>1, <2>2 DEF Joins
  <2>3. CASE ~Serving BY <1>1, <1>2, <2>1, <2>3 DEF Joins
  <2> QED BY <2>2, <2>3
<1>4. Done' = Done /\ Fresh' = Fresh BY DEF Joins, Done, Fresh
<1>9. NumbersInLine'
  <2>3. InLine(fifo') /\ InLine(queue') /\ InLine(batch') /\ Ascending(applied')
    BY <1>1, AppendInLine DEF MqInv, NumbersInLine, Joins, Numbered
  <2>5. ASSUME NEW x \in ToSet(fifo) \cup ToSet(batch) \cup ToSet(queue) PROVE 0 < x.seq /\ x.seq < nextSeq'
    BY <1>1, <2>5, <1>3 DEF MqInv, NumbersInLine, Numbered, Accepted
  <2>7. \A x \in ToSet(fifo') \cup ToSet(batch') \cup ToSet(queue') : Numbered(x)'
    BY <1>3, <2>5, <1>1 DEF Numbered, Joins
  <2>8. \A x \in ToSet(Remaining) \cup ToSet(fifo') \cup ToSet(queue'), n \in Done : n < x.seq
    BY <1>1, <1>3 DEF MqInv, NumbersInLine, Joins
  <2>9. \A x \in ToSet(batch'), y \in ToSet(fifo') : x.seq < y.seq
    BY <1>1, <1>3 DEF MqInv, NumbersInLine, Joins, Numbered
  <2>10. worker \in Accepted =>
          /\ 0 < worker.seq /\ worker.seq < nextSeq'
          /\ worker.seq \in Done \/ \A n \in Done : n < worker.seq
          /\ \A x \in ToSet(queue') : worker.seq < x.seq
    BY <1>1, <1>3 DEF MqInv, NumbersInLine, Numbered, Accepted, Joins
  <2> QED BY <1>4, <2>3, <1>1, <1>3, <2>7, <2>8, <2>9, <2>10 DEF NumbersInLine, Numbered, Joins, Remaining, MqInv
<1> QED BY <1>3, <1>4, <1>9 DEF Joins, Remaining, MqInv, QueuesInTurn, Serving

LEMMA StillWaits ==
    ASSUME MqInv, NEW c \in Client, client'[c] = client[c], Done \subseteq Done', nextSeq <= nextSeq',
           nextSeq' \in Nat, NEW n, n = client[c].seq,
           client[c].st = "waiting" => n \in waiters' /\ Awaited(n)'
    PROVE  ClientServed(client[c])'
  BY StillServed

LEMMA Waits ==
    ASSUME MqInv, NEW c \in Client, client[c].st = "waiting"
    PROVE  client[c].seq \in waiters /\ Awaited(client[c].seq) /\ client[c].seq \in Nat /\ client[c].seq # 0
  BY DEF MqInv, ClientsServed, ClientServed, MqShapes, ClientRec

LEMMA JoinsAwaits ==
    ASSUME MqInv, NEW m, Joins(m), Stopping => Stopping', deferred' = deferred, jobs' = jobs,
           ToSet(completions) \subseteq ToSet(completions') \cup {m.of}
    PROVE  /\ \A n : n \in Nat /\ n # 0 /\ Awaited(n) => Awaited(n)'
           /\ m.seq \notin deferred' /\ Awaited(m.seq)'
<1>1. /\ Done' = Done /\ Fresh' = Fresh
      /\ IF Serving THEN ToSet(queue') = ToSet(queue) \cup {m} /\ fifo' = fifo
                    ELSE ToSet(fifo') = ToSet(fifo) \cup {m} /\ queue' = queue
      /\ batch' = batch /\ worker' = worker
  BY JoinsLine DEF Joins
<1>2. /\ ToSet(fifo') \cup ToSet(queue') = ToSet(fifo) \cup ToSet(queue) \cup {m}
      /\ ToSet(queue) \subseteq ToSet(queue')
  BY <1>1
<1>3. ASSUME NEW n, InTurn(n) PROVE InTurn(n)' BY <1>1, <1>2, <1>3 DEF InTurn
<1>5. ASSUME NEW n \in Nat \ {0}, InEffect(n) PROVE InEffect(n)' BY <1>1, <1>5, <1>2 DEF Joins, InEffect
<1> QED BY <1>1, <1>2, <1>3, <1>5 DEF Awaited, InTurn, MqInv, NumbersInLine, MqShapes, EffectsKnown, Joins

(* What a mutation that joins the line leaves as it was.                    *)
LEMMA JoinsKeeps ==
    ASSUME MqInv, NEW m, Joins(m)
    PROVE  /\ deferred' = deferred /\ jobs' = jobs
              /\ (m.kind = "completed" => completions # <<>> /\ m.of = Head(completions))
              /\ completions' = (IF m.kind = "completed" THEN Tail(completions) ELSE completions)
                 => EffectsKnown'
           /\ stopper' = stopper /\ shutdown' = shutdown => StoppersFlagged'
           /\ shutdown' = shutdown /\ (tickPending' => m.kind = "tick" \/ (tickPending /\ ticker' = ticker))
                 => TickBehind'
<1>0. completions \in Seq(Nat) /\ boot \in {"install", "take", "apply", "answer", "done"} BY DEF MqInv, MqShapes
<1>1. /\ Done' = Done /\ Fresh' = Fresh /\ Remaining' = Remaining
      /\ IF Serving THEN ToSet(queue') = ToSet(queue) \cup {m} /\ fifo' = fifo
                    ELSE ToSet(fifo') = ToSet(fifo) \cup {m} /\ queue' = queue
      /\ batch' = batch /\ worker' = worker
      /\ boot' = boot \/ (boot = "apply" /\ boot' = "take")
  BY JoinsLine DEF Joins
<1>2. ASSUME deferred' = deferred, jobs' = jobs,
             m.kind = "completed" => completions # <<>> /\ m.of = Head(completions),
             completions' = (IF m.kind = "completed" THEN Tail(completions) ELSE completions)
      PROVE  EffectsKnown'
  BY <1>0, <1>2, HeadTailSet, <1>1 DEF MqInv, EffectsKnown, Joins
<1>4. ASSUME shutdown' = shutdown, tickPending' => m.kind = "tick" \/ (tickPending /\ ticker' = ticker)
      PROVE  TickBehind'
  BY <1>1, <1>4 DEF MqInv, TickBehind
<1> QED BY <1>2, <1>1, <1>4 DEF MqInv, StoppersFlagged

LEMMA RouteEnqueueStep == ASSUME MqInv, NEW c \in Client, RouteEnqueue(c) PROVE MqInv'
<1>m. PICK m : m = [seq |-> nextSeq, kind |-> client[c].kind, of |-> 0] OBVIOUS
<1>0. client[c] \in ClientRec /\ client \in [Client -> ClientRec] /\ nextSeq \in Nat BY DEF MqInv, MqShapes
<1>1. m \in Accepted /\ m.seq = nextSeq /\ m.of = 0 /\ m.kind # "completed"
  BY <1>0, <1>m DEF Accepted, ClientRec, Request
<1>2. Joins(m) BY <1>1, <1>m DEF Joins, RouteEnqueue
<1>a. /\ UNCHANGED <<jobs, completions, deferred, stopper, shutdown, phase, tickPending, ticker>>
      /\ Stopping' = Stopping
  BY DEF RouteEnqueue, sidebarVars, stopVars, tickVars, Stopping
<1>3. /\ client' \in [Client -> ClientRec]
      /\ \A d \in Client \ {c} : client'[d] = client[d]
      /\ \/ client'[c].st = "answered" /\ client'[c].ans = "queued" /\ waiters' = waiters
         \/ client'[c].st = "waiting" /\ client'[c].seq = nextSeq /\ waiters' = waiters \cup {nextSeq}
  <2>1. LET q == [[client[c] EXCEPT !.st = "answered"] EXCEPT !.ans = "queued"] IN
        q \in ClientRec /\ q.st = "answered" /\ q.ans = "queued"
    BY <1>0 DEF ClientRec
  <2>2. LET q == [[client[c] EXCEPT !.st = "waiting"] EXCEPT !.seq = nextSeq] IN
        q \in ClientRec /\ q.st = "waiting" /\ q.seq = nextSeq
    BY <1>0 DEF ClientRec
  <2>4. PICK q \in ClientRec :
          /\ client' = [client EXCEPT ![c] = q]
          /\ \/ q.st = "answered" /\ q.ans = "queued" /\ waiters' = waiters
             \/ q.st = "waiting" /\ q.seq = nextSeq /\ waiters' = waiters \cup {nextSeq}
    BY <2>1, <2>2, <1>0 DEF RouteEnqueue
  <2> QED BY <1>0, <2>4
<1>4. MqShapes'
  <2>1. fifo' \in Seq(Accepted) /\ queue' \in Seq(Accepted) /\ nextSeq' \in Nat \ {0} /\ waiters' \subseteq Nat
    BY <1>0, <1>2, <1>3, JoinsLine DEF MqInv, MqShapes
  <2> QED BY <1>a, <1>3, <2>1 DEF MqInv, MqShapes, RouteEnqueue, sidebarVars, stopVars, tickVars
<1>6. ClientsServed'
  <2>1. Done' = Done /\ nextSeq < nextSeq' /\ nextSeq' \in Nat /\ nextSeq \in Nat /\ nextSeq <= nextSeq' /\ 0 < nextSeq
    BY <1>2, JoinsLine DEF MqInv, MqShapes
  <2>3. PICK k : k = nextSeq OBVIOUS
  <2> SUFFICES ASSUME NEW d \in Client PROVE ClientServed(client[d])' BY DEF ClientsServed
  <2>5. CASE d = c BY <1>3, <2>1, <2>3, <1>1, <1>2, <1>a, JoinsAwaits, <2>5 DEF ClientServed
  <2>6. CASE d # c BY <1>3, <2>6, <1>2, <1>a, JoinsAwaits, Waits, <2>1, StillWaits
  <2> QED BY <2>5, <2>6
<1> QED BY <1>4, <1>1, <1>2, <1>a, JoinsLine, JoinsKeeps, <1>6 DEF MqInv

-----------------------------------------------------------------------------
(* Applying.                                                                *)

(* Whose turn it is to be applied: the head of the batch, or the worker's.  *)
Turned(m) ==
    /\ m \in Accepted /\ Apply(m)
    /\ \/ boot = "apply" /\ batch # <<>> /\ m = Head(batch) /\ boot' = "answer"
       \/ boot = "done" /\ m = worker /\ m.seq \notin Done /\ boot' = boot
    /\ UNCHANGED <<phase, batch, fifo, queue, worker, nextSeq, completions, ticker, shutdown>>

LEMMA TurnedSets ==
    ASSUME MqInv, NEW m, Turned(m)
    PROVE  /\ applied' \in Seq(Nat) /\ Done' = Done \cup {m.seq} /\ m.seq \notin Done /\ m.seq # 0
           /\ Ascending(applied') /\ Numbered(m)
           /\ ToSet(Remaining) \subseteq ToSet(Remaining') \cup {m} /\ ToSet(Remaining') \subseteq ToSet(Remaining)
           /\ Fresh \subseteq Fresh' \cup {m} /\ Fresh' \subseteq Fresh
           /\ \A x \in ToSet(Remaining') \cup ToSet(fifo) \cup ToSet(queue) : m.seq < x.seq
           /\ (m = worker /\ worker \in Accepted) \/ (worker = Gone /\ m = Head(batch) /\ boot' = "answer")
<1>0. /\ m \in Accepted /\ m.seq \in Nat /\ applied \in Seq(Nat) /\ batch \in Seq(Accepted)
      /\ boot \in {"install", "take", "apply", "answer", "done"}
      /\ worker \in Accepted \cup {Idle, Gone}
  BY DEF MqInv, MqShapes, Turned, Accepted
<1>1. applied' \in Seq(Nat) /\ Done' = Done \cup {m.seq} BY <1>0, AppendedSet DEF Turned, Apply, Done
<1>2. CASE boot = "apply"
  <2>0. batch # <<>> /\ m = Head(batch) /\ boot' = "answer" /\ batch' = batch /\ worker' = worker BY <1>2 DEF Turned
  <2>1. Remaining = batch /\ Remaining' = Tail(batch) /\ worker = Gone
    BY <1>2, <2>0 DEF Remaining, MqInv, QueuesInTurn
  <2>2. ToSet(batch) = {m} \cup ToSet(Tail(batch)) /\ m \in ToSet(Remaining) BY <1>0, <2>0, <2>1, HeadTailSet
  <2>3. \A x \in ToSet(Tail(batch)) : m.seq < x.seq BY <1>0, <2>0, TailInLine DEF MqInv, NumbersInLine
  <2>5. m.seq \notin Done BY <1>0, <2>2 DEF MqInv, NumbersInLine
  <2>6. Numbered(m) BY <2>1, <2>2 DEF MqInv, NumbersInLine
  <2>7. \A x \in ToSet(fifo) : m.seq < x.seq BY <2>2 DEF MqInv, NumbersInLine
  <2>8. ToSet(queue) = {} BY <1>2, EmptyToSet DEF MqInv, QueuesInTurn
  <2>9. Ascending(applied') BY <1>0, <2>2, AppendAscending DEF MqInv, NumbersInLine, Turned, Apply, Done
  <2>10. m.seq # 0 BY <1>0, <2>6 DEF Numbered
  <2>11. Fresh = {Gone} /\ Fresh' = {Gone} BY <1>1, <2>0, <2>1, <2>10 DEF Fresh, Gone, MqInv, NumbersInLine
  <2> QED BY <1>1, <2>0, <2>1, <2>2, <2>3, <2>5, <2>6, <2>7, <2>8, <2>9, <2>10, <2>11
<1>3. CASE boot = "done"
  BY <1>3, EmptyToSet, <1>0, <1>1, AppendAscending DEF Turned, Remaining, MqInv, QueuesInTurn, NumbersInLine,
    Numbered, Fresh, Apply, Done
<1> QED BY <1>2, <1>3 DEF Turned

LEMMA TurnedLine == ASSUME MqInv, NEW m, Turned(m) PROVE QueuesInTurn' /\ NumbersInLine'
  BY TurnedSets, WorkerKinds DEF Turned, MqInv, QueuesInTurn, NumbersInLine, Numbered

LEMMA TurnedEffects ==
    ASSUME MqInv, NEW m, Turned(m)
    PROVE  /\ EffectsKnown' /\ jobs' \in Seq(Nat) /\ ToSet(jobs) \subseteq ToSet(jobs')
           /\ deferred' \subseteq deferred \cup {m.seq}
           /\ m.seq \in deferred' => m.kind = "effect" /\ m.seq \in ToSet(jobs')
           /\ deferred \subseteq deferred' \cup (IF m.kind = "completed" THEN {m.of} ELSE {})
           /\ m.kind = "completed" => m.of \in Done
<1>0. /\ Done' = Done \cup {m.seq} /\ m.seq \notin Done /\ m.seq # 0
      /\ (m = worker /\ worker \in Accepted) \/ (worker = Gone /\ m = Head(batch) /\ boot' = "answer")
      /\ m.seq \in Nat /\ jobs \in Seq(Nat)
  BY TurnedSets DEF Turned, Accepted, MqInv, MqShapes
<1>2. /\ Append(jobs, m.seq) \in Seq(Nat) /\ ToSet(Append(jobs, m.seq)) = ToSet(jobs) \cup {m.seq}
  BY <1>0, AppendedSet
<1>4. /\ jobs' \in Seq(Nat) /\ ToSet(jobs) \subseteq ToSet(jobs') /\ ToSet(jobs') \subseteq ToSet(jobs) \cup {m.seq}
      /\ deferred' \subseteq deferred \cup {m.seq}
      /\ m.seq \in deferred' => m.kind = "effect" /\ m.seq \in ToSet(jobs')
      /\ deferred \subseteq deferred' \cup (IF m.kind = "completed" THEN {m.of} ELSE {})
  BY <1>2, <1>0 DEF Turned, Apply, MqInv, EffectsKnown, NumbersInLine
<1>6. EffectsKnown' BY <1>0, <1>4 DEF MqInv, EffectsKnown, Gone, Turned, NumbersInLine
<1> QED BY <1>4, HeadTailSet, <1>6 DEF MqInv, EffectsKnown, MqShapes, Turned

LEMMA TurnedStops ==
    ASSUME MqInv, NEW m, Turned(m)
    PROVE  /\ StoppersFlagged' /\ (Stopping => Stopping') /\ TickBehind' /\ tickPending' \in BOOLEAN
           /\ stopper' \in [Stopper -> {"none", "begun", "failing", "flagged", "fatal", "done"}]
  BY TurnedSets DEF MqInv, MqShapes, Stopper, Turned, Apply, Stopping, StoppersFlagged, TickBehind

LEMMA TurnedServes ==
    ASSUME MqInv, NEW m, Turned(m)
    PROVE  ClientsServed' /\ client' \in [Client -> ClientRec] /\ waiters' \subseteq Nat
<1>0. client \in [Client -> ClientRec] /\ waiters \subseteq Nat /\ nextSeq \in Nat /\ nextSeq' = nextSeq
  BY DEF MqInv, MqShapes, Turned
<1>2. /\ waiters' = waiters \ (IF m.kind = "completed" THEN {m.of} ELSE {})
      /\ client' \in [Client -> ClientRec]
      /\ \A c \in Client :
            IF m.kind = "completed" /\ client[c].st = "waiting" /\ client[c].seq = m.of /\ m.of \in waiters
            THEN client'[c].st = "answered" /\ client'[c].seq = client[c].seq /\ client'[c].ans = "done"
            ELSE client'[c] = client[c]
  BY <1>0, AnswerIs DEF Turned, Apply, complete
<1>4. /\ ToSet(jobs) \subseteq ToSet(jobs')
      /\ deferred' \subseteq deferred \cup {m.seq}
      /\ m.seq \in deferred' => m.seq \in ToSet(jobs')
      /\ deferred \subseteq deferred' \cup (IF m.kind = "completed" THEN {m.of} ELSE {})
      /\ m.kind = "completed" => m.of \in Done
  BY TurnedEffects
<1>5. m.kind # "completed" => m.of = 0 BY HeadTailSet DEF MqInv, MqShapes, Turned, EffectsKnown
<1>6. ASSUME NEW n \in Nat, n # 0, Awaited(n), m.kind = "completed" => n # m.of PROVE Awaited(n)'
  BY TurnedStops, <1>4, <1>6, <1>5, TurnedSets DEF Awaited, InEffect, InTurn, Turned
<1>7. ClientsServed' BY <1>2, TurnedSets, <1>4, <1>0, Waits, <1>6, StillWaits DEF ClientsServed, ClientServed
<1> QED BY <1>0, <1>2, <1>7

-----------------------------------------------------------------------------
(* Bootstrap and the worker.                                                *)

(* Applying the mutation whose turn it is.                                  *)
LEMMA TurnedStep ==
    ASSUME MqInv, NEW m, Turned(m), UNCHANGED <<reconciled, router, fatal, ticks, timeouts, ready>>
    PROVE  MqInv'
<1>2. EffectsKnown' /\ jobs' \in Seq(Nat) /\ deferred' \subseteq deferred \cup {m.seq} BY TurnedEffects
<1>4. ClientsServed' /\ client' \in [Client -> ClientRec] /\ waiters' \subseteq Nat BY TurnedServes
<1>5. applied' \in Seq(Nat) /\ m.seq \in Nat BY TurnedSets DEF Turned, Accepted
<1>6. deferred' \subseteq Nat BY <1>2, <1>5 DEF MqInv, MqShapes
<1>7. boot' \in {"install", "take", "apply", "answer", "done"} BY DEF Turned, MqInv, MqShapes
<1>8. UNCHANGED <<phase, batch, fifo, queue, worker, nextSeq, completions, ticker, shutdown>> BY DEF Turned
<1>9. MqShapes' BY <1>2, TurnedStops, <1>4, <1>5, <1>6, <1>7, <1>8 DEF MqInv, MqShapes
<1> QED BY TurnedLine, <1>2, TurnedStops, <1>4, <1>9 DEF MqInv

LEMMA BootApplyStep == ASSUME MqInv, BootApply PROVE MqInv'
  BY HeadTailSet, TurnedStep DEF MqInv, MqShapes, BootApply, Turned

LEMMA WorkerApplyStep == ASSUME MqInv, WorkerApply PROVE MqInv'
  BY WorkerKinds, TurnedStep DEF MqInv, MqShapes, WorkerApply, QueuesInTurn, routerVars, Turned, Done

(* Some waiters are answered, the others still wait for somebody.           *)
LEMMA Settles ==
    ASSUME MqInv, NEW S, NEW ans \in {"done", "accepted", "stopped"}, Answer(S, ans), waiters' = waiters \ S,
           Done' = Done, nextSeq' = nextSeq, ans # "stopped" => S \subseteq Done,
           \A n \in waiters' : n \in Nat /\ n # 0 /\ Awaited(n) => Awaited(n)'
    PROVE  ClientsServed' /\ client' \in [Client -> ClientRec] /\ waiters' \subseteq Nat
<1>0. client \in [Client -> ClientRec] /\ waiters \subseteq Nat /\ nextSeq \in Nat BY DEF MqInv, MqShapes
<1>2. ASSUME NEW c \in Client PROVE ClientServed(client[c])' BY <1>0, AnswerIs, Waits, StillWaits DEF ClientServed
<1> QED BY <1>0, AnswerIs, <1>2 DEF ClientsServed

(* Nobody is answered, and whoever waits still waits for somebody.          *)
LEMMA KeepsWaiting ==
    ASSUME MqInv, UNCHANGED <<client, waiters>>, Done' = Done, nextSeq' \in Nat, nextSeq <= nextSeq',
           \A n \in waiters : n \in Nat /\ n # 0 /\ Awaited(n) => Awaited(n)'
    PROVE  ClientsServed'
  BY Waits, StillWaits DEF ClientsServed

(* The answer to the mutation just applied, unless it was deferred.         *)
Finishes(m) ==
    IF m.seq \in deferred THEN UNCHANGED <<client, waiters>>
    ELSE complete(m.seq, IF m.kind = "shutdown" THEN "accepted" ELSE "done")

LEMMA FinishesServes ==
    ASSUME MqInv, NEW m, Finishes(m), m.seq \in Done, UNCHANGED <<applied, nextSeq, deferred>>,
           \A n \in waiters : n \in Nat /\ n # 0 /\ Awaited(n) /\ ~(n = m.seq /\ n \notin deferred) => Awaited(n)'
    PROVE  ClientsServed' /\ client' \in [Client -> ClientRec] /\ waiters' \subseteq Nat
<1>0. /\ client \in [Client -> ClientRec] /\ waiters \subseteq Nat /\ nextSeq \in Nat /\ nextSeq' = nextSeq
      /\ Done' = Done /\ nextSeq <= nextSeq'
  BY DEF MqInv, MqShapes, Done
<1>1. CASE m.seq \in deferred BY <1>1, <1>0, KeepsWaiting DEF Finishes
<1>2. CASE m.seq \notin deferred BY <1>2, <1>0, Settles DEF Finishes, complete
<1> QED BY <1>1, <1>2

LEMMA BootAnswerStep == ASSUME MqInv, BootAnswer PROVE MqInv'
<1>m. PICK m : m = Head(batch) OBVIOUS
<1>0. /\ batch # <<>> /\ m.seq \in Done /\ worker = Gone /\ batch \in Seq(Accepted)
      /\ Remaining = Tail(batch) /\ m \in Accepted /\ Tail(batch) \in Seq(Accepted)
      /\ ToSet(batch) = {m} \cup ToSet(Tail(batch))
  BY <1>m, HeadTailSet DEF MqInv, MqShapes, QueuesInTurn, BootAnswer, Remaining
<1>1. /\ UNCHANGED <<phase, fifo, queue, worker, nextSeq, jobs, completions, deferred, tickPending, ticker>>
      /\ UNCHANGED <<shutdown, stopper, applied>>
      /\ boot = "answer" /\ boot' = "apply" /\ batch' = Tail(batch) /\ stopper["worker"] \in {"none", "done"}
  BY DEF BootAnswer, sidebarVars, tickVars, stopVars
<1>2. Remaining' = Remaining /\ Done' = Done /\ Fresh' = Fresh BY <1>0, <1>1 DEF Remaining, Done, Fresh
<1>4. ASSUME NEW n \in waiters, n \in Nat, n # 0, Awaited(n), ~(n = m.seq /\ n \notin deferred)
      PROVE  Awaited(n)'
  BY <1>1, <1>2, <1>4, <1>0 DEF Stopping, InEffect, InTurn, Awaited
<1>5. ClientsServed' /\ client' \in [Client -> ClientRec] /\ waiters' \subseteq Nat
  BY <1>0, <1>1, <1>m, <1>4, FinishesServes DEF BootAnswer, Finishes
<1>6. MqShapes' BY <1>0, <1>1, <1>5 DEF BootAnswer, sidebarVars, tickVars, stopVars, MqInv, MqShapes
<1>10. StoppersFlagged' BY <1>1 DEF MqInv, StoppersFlagged
<1>11. TickBehind' BY <1>1, <1>2 DEF MqInv, TickBehind
<1> QED
  BY <1>5, <1>6, <1>1, <1>0, TailInLine, <1>2, <1>10, <1>11 DEF MqInv, QueuesInTurn, NumbersInLine, Numbered,
    EffectsKnown

LEMMA WorkerCompleteStep == ASSUME MqInv, WorkerComplete PROVE MqInv'
<1>m. PICK m : m = worker OBVIOUS
<1>0. m \in Accepted /\ m.seq \in Done /\ boot = "done"
  BY <1>m, WorkerKinds DEF MqInv, MqShapes, WorkerComplete, QueuesInTurn, Done
<1>1. /\ UNCHANGED <<phase, boot, batch, fifo, queue, nextSeq, jobs, completions, deferred, tickPending, ticker>>
      /\ UNCHANGED <<shutdown, stopper, applied>> /\ worker' = Idle
  BY DEF WorkerComplete, routerVars, sidebarVars, tickVars
<1>2. Remaining' = Remaining /\ Done' = Done /\ Fresh = {} BY <1>0, <1>1, <1>m DEF Remaining, Done, Fresh
<1>4. ASSUME NEW n \in waiters, n \in Nat, n # 0, Awaited(n), ~(n = m.seq /\ n \notin deferred)
      PROVE  Awaited(n)'
  BY <1>1, <1>2, <1>4, <1>m DEF Stopping, InEffect, Awaited, InTurn
<1>5. ClientsServed' /\ client' \in [Client -> ClientRec] /\ waiters' \subseteq Nat
  BY <1>0, <1>1, <1>m, <1>4, FinishesServes DEF WorkerComplete, Finishes
<1>8. NumbersInLine' BY <1>1, <1>2, WorkerKinds DEF MqInv, NumbersInLine, Numbered
<1>9. EffectsKnown' BY <1>1, <1>2 DEF MqInv, NumbersInLine, EffectsKnown, Idle
<1>11. TickBehind' BY <1>1, <1>2 DEF MqInv, TickBehind
<1> QED
  BY <1>5, <1>1, <1>0, <1>8, <1>9, <1>11 DEF MqInv, WorkerComplete, MqShapes, routerVars, tickVars, QueuesInTurn,
    StoppersFlagged

LEMMA WorkerPopStep == ASSUME MqInv, WorkerPop PROVE MqInv'
<1>0. boot = "done" /\ worker = Idle BY DEF MqInv, QueuesInTurn, WorkerPop, Idle, Gone
<1>1. /\ UNCHANGED <<phase, boot, batch, fifo, nextSeq, jobs, completions, deferred, tickPending, ticker>>
      /\ UNCHANGED <<shutdown, stopper, applied, waiters, client>>
      /\ UNCHANGED <<reconciled, router, fatal, ready, ticks, timeouts>>
  BY DEF WorkerPop, routerVars, sidebarVars, tickVars, stopVars
<1>2. Remaining' = Remaining /\ Done' = Done /\ 0 \notin Done /\ deferred \subseteq Done /\ Stopping' = Stopping
  BY <1>1 DEF Remaining, Done, MqInv, NumbersInLine, EffectsKnown, Stopping
<1>3. PICK w : w = worker' OBVIOUS
<1>4. /\ queue' \in Seq(Accepted) /\ InLine(queue') /\ ToSet(queue') \subseteq ToSet(queue)
      /\ w.seq \notin Done
      /\ \/ w = Gone /\ queue' = queue
         \/ w \in ToSet(queue) /\ ToSet(queue) = {w} \cup ToSet(queue') /\ w \in Accepted
            /\ \A x \in ToSet(queue') : w.seq < x.seq
  <2>0. queue \in Seq(Accepted) /\ InLine(queue) /\ \A x \in ToSet(queue), n \in Done : n < x.seq
    BY DEF MqInv, MqShapes, NumbersInLine
  <2>1. CASE shutdown BY <1>2, <1>3, <2>0, <2>1 DEF WorkerPop, Gone
  <2>2. CASE ~shutdown
    <3>2. w \in Accepted /\ Tail(queue) \in Seq(Accepted) /\ ToSet(queue) = {w} \cup ToSet(Tail(queue))
      BY <2>0, <1>3, <2>2, HeadTailSet DEF WorkerPop
    <3>4. w.seq \notin Done BY <2>0, <3>2 DEF Accepted
    <3> QED BY <1>3, <2>2, <3>2, <2>0, TailInLine, <3>4 DEF WorkerPop
  <2> QED BY <2>1, <2>2
<1>5. Fresh = {Idle} /\ Fresh' = {w} BY <1>0, <1>2, <1>3, <1>4 DEF Fresh, Idle
<1>6. ASSUME NEW n \in waiters, n \in Nat, n # 0, Awaited(n) PROVE Awaited(n)'
  BY <1>5, <1>6, <1>4, <1>1, <1>0, <1>3, <1>2 DEF Idle, InEffect, InTurn, Awaited
<1>7. ClientsServed' BY <1>1, <1>2, <1>6, KeepsWaiting DEF MqInv, MqShapes
<1>10. NumbersInLine' BY <1>1, <1>3, <1>4, WorkerKinds, <1>2 DEF MqInv, NumbersInLine, Numbered
<1>11. EffectsKnown' BY <1>1, <1>2, <1>3, <1>4, <1>0 DEF MqInv, EffectsKnown, Gone
<1>13. TickBehind' BY <1>4, <1>5, <1>1, <1>2 DEF Idle, MqInv, TickBehind
<1> QED
  BY <1>7, <1>3, <1>4, <1>1, <1>0, <1>10, <1>11, <1>13 DEF MqInv, MqShapes, QueuesInTurn, StoppersFlagged, Idle

-----------------------------------------------------------------------------
(* Bootstrap moves on.                                                      *)

LEMMA HydrationStep == ASSUME MqInv, begin_hydration PROVE MqInv'
<1>1. /\ UNCHANGED <<batch, fifo, queue, worker, applied, nextSeq, jobs, completions, deferred>>
      /\ UNCHANGED <<client, waiters, stopper, shutdown, tickPending, ticker>>
      /\ UNCHANGED <<reconciled, router, fatal, ready, ticks, timeouts>>
      /\ boot = "install" /\ boot' = "take" /\ phase' = "hydrating"
  BY DEF begin_hydration, sidebarVars, tickVars, stopVars
<1>2. Remaining' = Remaining /\ Done' = Done /\ Fresh' = Fresh BY <1>1 DEF Remaining, Done, Fresh
<1>8. NumbersInLine' BY <1>1, <1>2 DEF MqInv, NumbersInLine, Numbered
<1>9. EffectsKnown' BY <1>1, <1>2 DEF MqInv, EffectsKnown
<1>10. StoppersFlagged' /\ TickBehind' BY <1>1, <1>2 DEF MqInv, StoppersFlagged, TickBehind
<1> QED
  BY <1>1, <1>2, KeepsWaiting, <1>8, <1>9, <1>10 DEF MqInv, MqShapes, QueuesInTurn, Awaited, Stopping, InTurn,
    InEffect

LEMMA TakeStep == ASSUME MqInv, take_bootstrap_fifo PROVE MqInv'
<1>1. /\ UNCHANGED <<phase, queue, worker, applied, nextSeq, jobs, completions, deferred>>
      /\ UNCHANGED <<client, waiters, stopper, shutdown, tickPending, ticker>>
      /\ UNCHANGED <<reconciled, router, fatal, ready, ticks, timeouts>>
      /\ boot = "take" /\ boot' = "apply" /\ batch' = fifo /\ fifo' = <<>>
  BY DEF take_bootstrap_fifo, sidebarVars, tickVars, stopVars
<1>2. batch = <<>> /\ fifo \in Seq(Accepted) /\ <<>> \in Seq(Accepted)
  BY <1>1, EmptySeq DEF MqInv, QueuesInTurn, MqShapes
<1>3. /\ Remaining = <<>> /\ Remaining' = fifo /\ Done' = Done /\ Fresh' = Fresh
      /\ ToSet(batch) = {} /\ ToSet(fifo') = {} /\ ToSet(Remaining) = {}
  BY <1>1, <1>2, EmptyToSet DEF Remaining, Done, Fresh
<1>6. ClientsServed' BY <1>1, <1>3, KeepsWaiting DEF InTurn, InEffect, Awaited, Stopping, MqInv, MqShapes
<1>10. EffectsKnown' BY <1>1, <1>3 DEF MqInv, EffectsKnown
<1>11. StoppersFlagged' BY <1>1 DEF MqInv, StoppersFlagged
<1>12. TickBehind' BY <1>1, <1>3 DEF MqInv, TickBehind
<1> QED
  BY <1>6, <1>1, <1>2, <1>3, <1>10, <1>11, <1>12 DEF MqInv, MqShapes, QueuesInTurn, InLine, NumbersInLine, Numbered

(* The batch is done and nothing joins: the next look at the FIFO.          *)
LEMMA AgainStep ==
    ASSUME MqInv, boot = "apply", boot' = "take", batch = <<>>,
           UNCHANGED <<phase, batch, fifo, queue, worker, applied, nextSeq, jobs, completions, deferred>>,
           UNCHANGED <<client, waiters, stopper, shutdown, tickPending, ticker>>,
           UNCHANGED <<router, fatal, ready, ticks, timeouts>>, reconciled' \in BOOLEAN
    PROVE  MqInv'
<1>2. Remaining' = Remaining /\ Done' = Done /\ Fresh' = Fresh BY DEF Remaining, Done, Fresh
<1>8. NumbersInLine' BY <1>2 DEF MqInv, NumbersInLine, Numbered
<1>9. EffectsKnown' BY <1>2 DEF MqInv, EffectsKnown
<1>10. StoppersFlagged' /\ TickBehind' BY <1>2 DEF MqInv, StoppersFlagged, TickBehind
<1> QED
  BY <1>2, KeepsWaiting, <1>8, <1>9, <1>10 DEF MqInv, MqShapes, QueuesInTurn, Awaited, Stopping, InTurn, InEffect

(* The process ends: its sockets close.                                     *)
LEMMA ExitsStep ==
    ASSUME MqInv, Exits,
           UNCHANGED <<boot, batch, fifo, queue, worker, applied, nextSeq, jobs, completions, deferred>>,
           UNCHANGED <<waiters, stopper, shutdown, tickPending, ticker>>,
           UNCHANGED <<reconciled, router, fatal, ready, ticks, timeouts>>
    PROVE  MqInv'
<1>1. UNCHANGED QueueVars /\ phase' = "exited" BY DEF QueueVars, Exits
<1>4. /\ client' \in [Client -> ClientRec]
      /\ \A c \in Client :
            IF client[c].st \in {"waiting", "routing"}
            THEN client'[c].st = "answered" /\ client'[c].ans = "closed"
            ELSE client'[c] = client[c]
  BY DEF MqInv, MqShapes, ClientRec, Exits
<1>6. MqShapes' BY <1>1, <1>4 DEF MqInv, MqShapes
<1> QED BY <1>1, SameLine, <1>4, <1>6 DEF MqInv, QueuesInTurn, ClientsServed, ClientServed

LEMMA ExitStep == ASSUME MqInv, Exit PROVE MqInv' BY ExitsStep DEF Exit, sidebarVars, tickVars, stopVars

(* What joins the line from inside the daemon keeps every waiter waiting.   *)
LEMMA JoinsStep ==
    ASSUME MqInv, NEW m, Joins(m), UNCHANGED <<client, waiters, deferred, jobs, router, fatal, ready, shutdown, stopper>>,
           m.kind = "completed" => completions # <<>> /\ m.of = Head(completions),
           completions' = (IF m.kind = "completed" THEN Tail(completions) ELSE completions),
           tickPending' => m.kind = "tick" \/ (tickPending /\ ticker' = ticker),
           tickPending' \in BOOLEAN, ticker' \in {"idle", "flagged"}, ticks' \in 0..MaxTicks,
           timeouts' \in BOOLEAN, reconciled' \in BOOLEAN
    PROVE  MqInv'
<1>1. QueuesInTurn' /\ NumbersInLine' /\ Done' = Done /\ nextSeq < nextSeq'
      /\ fifo' \in Seq(Accepted) /\ queue' \in Seq(Accepted) /\ nextSeq' \in Nat \ {0} /\ nextSeq \in Nat
  BY JoinsLine DEF MqInv, MqShapes
<1>4. completions' \in Seq(Nat) /\ ToSet(completions) \subseteq ToSet(completions') \cup {m.of}
  BY HeadTailSet DEF MqInv, MqShapes
<1>6. \A n : n \in Nat /\ n # 0 /\ Awaited(n) => Awaited(n)' BY <1>4, JoinsAwaits DEF Stopping
<1>8. MqShapes' BY <1>1, <1>4 DEF Joins, MqInv, MqShapes
<1> QED BY <1>1, JoinsKeeps, <1>6, KeepsWaiting, <1>8 DEF MqInv

LEMMA ReconciliationStep == ASSUME MqInv, InitialReconciliation PROVE MqInv'
<1>1. /\ UNCHANGED <<batch, router, fatal, worker, waiters, jobs, completions, deferred, applied>>
      /\ UNCHANGED <<stopper, shutdown, ready, tickPending, ticker, ticks, timeouts>>
      /\ boot = "apply" /\ batch = <<>> /\ phase # "exited"
  BY DEF InitialReconciliation, sidebarVars, tickVars, stopVars
<1>2. CASE fatal BY <1>2, <1>1, ExitsStep DEF InitialReconciliation
<1>3. CASE ~fatal /\ Len(fifo) < MaxFifo
  <2>1. PICK m : m = [seq |-> nextSeq, kind |-> "reconcile", of |-> 0] OBVIOUS
  <2>3. m \in Accepted /\ m.seq = nextSeq /\ m.of = 0 /\ m.kind = "reconcile"
    BY <2>1 DEF Accepted, Internal, MqInv, MqShapes
  <2>5. tickPending' \in BOOLEAN /\ ticker' \in {"idle", "flagged"} /\ ticks' \in 0..MaxTicks /\ timeouts' \in BOOLEAN
    BY <1>1 DEF MqInv, MqShapes
  <2> QED BY <1>1, <1>3, <2>3, <2>1, <2>5, JoinsStep DEF InitialReconciliation, Enqueue, Joins
<1>4. CASE ~fatal /\ ~(Len(fifo) < MaxFifo) BY <1>4, <1>1, AgainStep DEF InitialReconciliation
<1> QED BY <1>2, <1>3, <1>4

LEMMA ServingStep == ASSUME MqInv, enter_serving_if_bootstrap_empty PROVE MqInv'
<1>1. /\ UNCHANGED <<batch, router, fatal, waiters, jobs, completions, deferred, applied, nextSeq, fifo, queue>>
      /\ UNCHANGED <<stopper, shutdown, ready, tickPending, ticker, ticks, timeouts, client, reconciled>>
      /\ boot = "apply" /\ batch = <<>> /\ phase = "hydrating"
  BY DEF enter_serving_if_bootstrap_empty, sidebarVars, tickVars, stopVars
<1>2. CASE fifo # <<>> BY <1>2, <1>1, AgainStep DEF enter_serving_if_bootstrap_empty, MqInv, MqShapes
<1>3. CASE fifo = <<>>
  <2>1. phase' = "serving" /\ boot' = "done" /\ worker' = Idle BY <1>3 DEF enter_serving_if_bootstrap_empty
  <2>2. worker = Gone /\ queue = <<>> /\ 0 \notin Done /\ deferred \subseteq Done
    BY <1>1 DEF MqInv, QueuesInTurn, NumbersInLine, EffectsKnown
  <2>3. Remaining' = Remaining /\ Done' = Done /\ Fresh = {Gone} /\ Fresh' = {Idle}
    BY <1>1, <2>1, <2>2 DEF Remaining, Done, Fresh, Gone, Idle
  <2>4. ASSUME NEW n \in waiters, n \in Nat, n # 0, Awaited(n) PROVE Awaited(n)'
    BY <1>1, <2>2, <2>4, <2>3 DEF InTurn, Gone, InEffect, Awaited, Stopping
  <2>6. ClientsServed' BY <1>1, <2>3, <2>4, KeepsWaiting DEF MqInv, MqShapes
  <2>9. NumbersInLine' BY <1>1, <2>1, <2>3, WorkerKinds DEF MqInv, NumbersInLine, Numbered
  <2>10. EffectsKnown' BY <1>1, <2>1, <2>2, <2>3 DEF MqInv, EffectsKnown, Idle
  <2>12. TickBehind' BY <1>1, <2>3 DEF MqInv, TickBehind, Gone
  <2> QED BY <2>6, <1>1, <2>1, <1>3, <2>9, <2>10, <2>12 DEF MqInv, MqShapes, QueuesInTurn, StoppersFlagged
<1> QED BY <1>2, <1>3

-----------------------------------------------------------------------------
(* Background threads.                                                      *)

LEMMA SidebarStep == ASSUME MqInv, SidebarWorker PROVE MqInv'
<1>1. /\ UNCHANGED QueueVars
      /\ UNCHANGED <<phase, client, waiters, deferred, stopper, shutdown, ready, tickPending, ticker>>
      /\ UNCHANGED <<reconciled, router, fatal, ticks, timeouts>>
      /\ jobs # <<>> /\ jobs' = Tail(jobs) /\ completions' = Append(completions, Head(jobs))
  BY DEF SidebarWorker, QueueVars, routerVars, tickVars, stopVars
<1>5. /\ jobs' \in Seq(Nat) /\ completions' \in Seq(Nat)
      /\ ToSet(jobs') \cup ToSet(completions') = ToSet(jobs) \cup ToSet(completions)
  BY <1>1, HeadTailSet, AppendedSet DEF MqInv, MqShapes
<1>9. nextSeq' \in Nat /\ nextSeq <= nextSeq' BY <1>1 DEF MqInv, MqShapes, QueueVars
<1>10. ClientsServed' BY <1>1, SameLine, <1>5, <1>9, KeepsWaiting DEF InTurn, QueueVars, InEffect, Awaited, Stopping
<1>11. MqShapes' BY <1>1, <1>5 DEF MqInv, MqShapes, QueueVars
<1> QED BY <1>1, SameLine, <1>5, <1>10, <1>11 DEF MqInv, EffectsKnown, QueueVars

(* A mutation the daemon queues for itself.                                 *)
LEMMA InternalJoins ==
    ASSUME MqInv, NEW k \in Internal, NEW o \in Nat, enqueue_internal(k, o), applied' = applied,
           IF k = "completed" THEN boot = "done" /\ o \in Done ELSE o = 0,
           NEW m, m = [seq |-> nextSeq, kind |-> k, of |-> o]
    PROVE  Joins(m) /\ m.kind = k /\ m.of = o
  BY DEF Accepted, MqInv, MqShapes, QueuesInTurn, Serving, enqueue_internal, Enqueue, Joins

LEMMA ForwardStep == ASSUME MqInv, ForwardCompletion PROVE MqInv'
<1>1. /\ completions # <<>> /\ boot = "done" /\ completions' = Tail(completions)
      /\ UNCHANGED <<deferred, jobs, tickPending, ticker, ticks, timeouts, shutdown, ready, client, applied>>
  BY DEF ForwardCompletion, tickVars
<1>2. completions \in Seq(Nat) /\ stopper \in [Stopper -> {"none", "begun", "failing", "flagged", "fatal", "done"}]
      /\ "monitor" \in Stopper
  BY DEF MqInv, MqShapes, Stopper
<1>3. Head(completions) \in Nat /\ Tail(completions) \in Seq(Nat)
      /\ ToSet(completions) = {Head(completions)} \cup ToSet(Tail(completions))
  BY <1>1, <1>2, HeadTailSet
<1>5. CASE enqueue_internal("completed", Head(completions)) /\ UNCHANGED stopper
  <2>1. PICK m : m = [seq |-> nextSeq, kind |-> "completed", of |-> Head(completions)] OBVIOUS
  <2>3. Joins(m) /\ m.kind = "completed" /\ m.of = Head(completions)
    BY <1>1, <1>3, <1>5, <2>1, InternalJoins DEF MqInv, EffectsKnown, Internal
  <2> QED BY <1>1, <1>5, <2>3, JoinsStep DEF enqueue_internal, MqInv, MqShapes
<1>6. CASE /\ ~Accepts /\ router = Free /\ stopper["monitor"] = "none" /\ phase # "exited"
           /\ stopper' = [stopper EXCEPT !["monitor"] = "failing"]
           /\ UNCHANGED <<routerVars, queue, worker, waiters>>
  <2>1. UNCHANGED QueueVars /\ UNCHANGED <<phase, waiters, reconciled, router, fatal>>
    BY <1>1, <1>6 DEF QueueVars, routerVars
  <2>2. /\ stopper' \in [Stopper -> {"none", "begun", "failing", "flagged", "fatal", "done"}]
        /\ stopper'["monitor"] = "failing" /\ \A s \in Stopper \ {"monitor"} : stopper'[s] = stopper[s]
    BY <1>2, <1>6
  <2>7. \A n \in waiters : n \in Nat /\ n # 0 /\ Awaited(n) => Awaited(n)' BY <1>2, <2>2 DEF Awaited, Stopping
  <2>9. ClientsServed' BY <1>1, <2>1, SameLine, <2>7, KeepsWaiting DEF MqInv, MqShapes, QueueVars
  <2>10. MqShapes' BY <1>1, <1>3, <2>1, <2>2 DEF MqInv, MqShapes, QueueVars
  <2> QED
    BY <1>1, <2>1, SameLine, <1>3, <2>2, <2>9, <2>10 DEF MqInv, EffectsKnown, QueueVars, Stopper, StoppersFlagged
<1> QED BY <1>5, <1>6 DEF ForwardCompletion

(* Nothing moves but the ticks.                                             *)
LEMMA TickingStep ==
    ASSUME MqInv, UNCHANGED QueueVars, UNCHANGED <<phase, client, waiters, deferred, jobs, completions>>,
           UNCHANGED <<stopper, shutdown, ready, reconciled, router, fatal>>,
           tickPending' \in BOOLEAN, ticker' \in {"idle", "flagged"}, ticks' \in 0..MaxTicks, timeouts' \in BOOLEAN,
           tickPending' => ticker' = "flagged" \/ UNCHANGED <<tickPending, ticker>>
    PROVE  MqInv'
  BY SameLine, SameServed DEF Stopping, TickBehind, MqInv, MqShapes, QueueVars

LEMMA TickDueStep == ASSUME MqInv, TickDue PROVE MqInv'
  BY QueueAssumption, TickingStep DEF TickDue, QueueVars, routerVars, sidebarVars, stopVars, MqInv, MqShapes

LEMMA EnqueueTickStep == ASSUME MqInv, EnqueueTick PROVE MqInv'
<1>1. /\ UNCHANGED <<client, deferred, jobs, completions, stopper, shutdown, ready, applied, ticks, timeouts>>
      /\ ticker' = "idle"
  BY DEF EnqueueTick, sidebarVars, stopVars
<1>2. ticks' \in 0..MaxTicks /\ timeouts' \in BOOLEAN /\ ticker' \in {"idle", "flagged"} /\ tickPending \in BOOLEAN
  BY <1>1 DEF MqInv, MqShapes
<1>3. CASE enqueue_internal("tick", 0) /\ UNCHANGED tickPending
  <2>1. PICK m : m = [seq |-> nextSeq, kind |-> "tick", of |-> 0] OBVIOUS
  <2>5. tickPending' \in BOOLEAN /\ reconciled' \in BOOLEAN BY <1>2, <1>3 DEF MqInv, MqShapes, enqueue_internal
  <2> QED BY <1>1, <1>2, <1>3, <2>1, InternalJoins, <2>5, JoinsStep DEF enqueue_internal, Internal
<1>4. CASE /\ ~Accepts /\ router = Free /\ phase # "exited" /\ tickPending' = FALSE
           /\ UNCHANGED <<routerVars, queue, worker, waiters>>
  BY <1>1, <1>4, <1>2, TickingStep DEF QueueVars, routerVars
<1> QED BY <1>3, <1>4 DEF EnqueueTick

LEMMA PromptTimeoutStep == ASSUME MqInv, PromptTimeout PROVE MqInv'
<1>1. /\ UNCHANGED <<client, deferred, jobs, completions, stopper, shutdown, ready, applied, tickPending, ticker>>
      /\ ticks' = ticks + 1 /\ ticks < MaxTicks
  BY DEF PromptTimeout, sidebarVars, stopVars
<1>2. ticks' \in 0..MaxTicks /\ ticker' \in {"idle", "flagged"} /\ tickPending' \in BOOLEAN /\ timeouts \in BOOLEAN
  BY <1>1, QueueAssumption DEF MqInv, MqShapes
<1>3. CASE enqueue_internal("timeouts", 0) /\ UNCHANGED timeouts
  <2>1. PICK m : m = [seq |-> nextSeq, kind |-> "timeouts", of |-> 0] OBVIOUS
  <2>5. timeouts' \in BOOLEAN /\ reconciled' \in BOOLEAN BY <1>2, <1>3 DEF MqInv, MqShapes, enqueue_internal
  <2> QED BY <1>1, <1>2, <1>3, <2>1, InternalJoins, <2>5, JoinsStep DEF enqueue_internal, Internal
<1>4. CASE /\ ~Accepts /\ router = Free /\ phase # "exited" /\ timeouts' = FALSE
           /\ UNCHANGED <<routerVars, queue, worker, waiters>>
  BY <1>1, <1>4, <1>2, TickingStep DEF QueueVars, routerVars
<1> QED BY <1>3, <1>4 DEF PromptTimeout

-----------------------------------------------------------------------------
(* Stopping.                                                                *)

(* A stopper takes its next step: everybody who waits will be answered.     *)
LEMMA StoppingStep ==
    ASSUME MqInv, UNCHANGED QueueVars, UNCHANGED <<phase, client, waiters, deferred, jobs, completions>>,
           UNCHANGED <<reconciled, router, tickPending, ticker, ticks, timeouts>>,
           NEW s \in Stopper, NEW step \in {"begun", "failing", "flagged", "fatal"},
           stopper' = [stopper EXCEPT ![s] = step], shutdown' \in BOOLEAN, ready' \in BOOLEAN, fatal' \in BOOLEAN,
           shutdown => shutdown', step \in {"flagged", "fatal"} => shutdown',
           s = "worker" => stopper[s] \notin {"none", "done"}
    PROVE  MqInv'
  BY SameLine, KeepsWaiting DEF MqInv, MqShapes, Stopping, TickBehind, QueueVars, StoppersFlagged, Stopper, Awaited

LEMMA SignalStep == ASSUME MqInv, Signal PROVE MqInv'
  BY StoppingStep DEF Signal, QueueVars, routerVars, sidebarVars, tickVars, MqInv, MqShapes, Stopper

LEMMA MonitorStep == ASSUME MqInv, MonitorFails PROVE MqInv'
  BY StoppingStep DEF MonitorFails, QueueVars, routerVars, sidebarVars, tickVars, MqInv, MqShapes, Stopper

LEMMA SetShutdownStep == ASSUME MqInv, NEW s \in Stopper, SetShutdown(s) PROVE MqInv'
  BY StoppingStep DEF SetShutdown, QueueVars, routerVars, sidebarVars, tickVars, MqInv, MqShapes

LEMMA FatalStep == ASSUME MqInv, NEW s \in Stopper, mark_fatal(s) PROVE MqInv'
  BY StoppingStep DEF mark_fatal, QueueVars, sidebarVars, tickVars, MqInv, MqShapes, StoppersFlagged

(* Everybody is answered but the requester of the shutdown, whose mutation  *)
(* is still the one at work.                                                *)
LEMMA AnswerWaitersStep == ASSUME MqInv, NEW s \in Stopper, AnswerWaiters(s) PROVE MqInv'
<1>1. /\ UNCHANGED <<phase, boot, batch, fifo, worker, applied, nextSeq, jobs, completions, deferred>>
      /\ UNCHANGED <<reconciled, router, fatal, tickPending, ticker, ticks, timeouts, shutdown>>
      /\ queue' = <<>> /\ stopper[s] = "fatal" /\ stopper' = [stopper EXCEPT ![s] = "done"]
  BY DEF AnswerWaiters, routerVars, sidebarVars, tickVars
<1>2. PICK current : current = IF s # "worker" THEN {}
                               ELSE IF boot = "done" THEN {worker.seq} ELSE {Head(batch).seq}
  OBVIOUS
<1>3. PICK S : S = waiters \ current OBVIOUS
<1>5. Remaining' = Remaining /\ Done' = Done /\ Fresh' = Fresh /\ ToSet(queue') = {}
  BY <1>1, EmptyToSet DEF Remaining, Done, Fresh
<1>7. ASSUME NEW n \in waiters' PROVE Awaited(n)'
  BY <1>2, <1>3, <1>7, <1>1, HeadTailSet DEF MqInv, StoppersFlagged, QueuesInTurn, EffectsKnown, MqShapes, InTurn,
    Awaited, AnswerWaiters
<1>8. ClientsServed' /\ client' \in [Client -> ClientRec] /\ waiters' \subseteq Nat
  BY <1>7, <1>1, <1>2, <1>3, <1>5, Settles DEF AnswerWaiters
<1>11. NumbersInLine' BY <1>1, <1>5 DEF InLine, MqInv, NumbersInLine, Numbered
<1>13. StoppersFlagged' BY <1>1 DEF MqInv, StoppersFlagged, Stopper, MqShapes
<1>14. TickBehind' BY <1>1 DEF MqInv, StoppersFlagged, TickBehind
<1> QED
  BY <1>8, <1>1, EmptySeq, <1>5, <1>11, <1>13, <1>14 DEF MqInv, QueuesInTurn, AnswerWaiters, MqShapes, EffectsKnown

LEMMA MqSteps == MqInv /\ [MqNext]_mqVars => MqInv'
<1> SUFFICES ASSUME MqInv, [MqNext]_mqVars PROVE MqInv' OBVIOUS
<1>1. CASE UNCHANGED mqVars
  BY <1>1, TickingStep DEF mqVars, QueueVars, routerVars, sidebarVars, tickVars, stopVars, MqInv, MqShapes
<1>2. CASE \E c \in Client : RouteCheck(c) \/ RouteEnqueue(c) BY <1>2, RouteCheckStep, RouteEnqueueStep
<1>3. CASE Bootstrap
  BY <1>3, HydrationStep, TakeStep, BootApplyStep, BootAnswerStep, ReconciliationStep, ServingStep DEF Bootstrap
<1>4. CASE WorkerStep BY <1>4, WorkerPopStep, WorkerApplyStep, WorkerCompleteStep DEF WorkerStep
<1>5. CASE SidebarWorker \/ ForwardCompletion BY <1>5, SidebarStep, ForwardStep
<1>6. CASE TickDue \/ EnqueueTick \/ PromptTimeout BY <1>6, TickDueStep, EnqueueTickStep, PromptTimeoutStep
<1>7. CASE Signal \/ MonitorFails \/ Exit BY <1>7, SignalStep, MonitorStep, ExitStep
<1>8. CASE \E s \in Stopper : StopStep(s) BY <1>8, SetShutdownStep, FatalStep, AnswerWaitersStep DEF StopStep
<1> QED BY <1>1, <1>2, <1>3, <1>4, <1>5, <1>6, <1>7, <1>8 DEF MqNext

(* However requests, ticks, effects, bootstrap and the three ways to stop   *)
(* interleave: nobody waits for an answer that nobody will give, mutations  *)
(* are applied once and in the order of their numbers, a pending tick has   *)
(* one behind it, and what is answered as done was done.                    *)
THEOREM QueueIsSound == MqSpec => []QueueSound
<1>1. MqInit => MqInv BY MqStart
<1>2. MqInv /\ [MqNext]_mqVars => MqInv' BY MqSteps
<1>3. MqInv => QueueSound BY MqInvSound
<1> QED BY <1>1, <1>2, <1>3, PTL DEF MqSpec

-----------------------------------------------------------------------------
(* The daemon.                                                               *)

(* The steps of the daemon are steps of the part that runs.                  *)
LEMMA ControlPart == CoreSpec => TcSpec
<1>1. CoreInit => TcInit BY DEF CoreInit
<1>2. [CoreNext]_coreVars => [TcNext]_tcVars BY DEF CoreNext, coreVars, tcVars
<1>. QED BY <1>1, <1>2, PTL DEF CoreSpec, TcSpec

LEMMA PushPart == CoreSpec => SpSpec
<1>1. CoreInit => SpInit BY DEF CoreInit
<1>2. [CoreNext]_coreVars => [SpNext]_spVars BY DEF CoreNext, coreVars, spVars
<1>. QED BY <1>1, <1>2, PTL DEF CoreSpec, SpSpec

LEMMA QueuePart == CoreSpec => MqSpec
<1>1. CoreInit => MqInit BY DEF CoreInit
<1>2. [CoreNext]_coreVars => [MqNext]_mqVars BY DEF CoreNext, coreVars, mqVars
<1> QED BY <1>1, <1>2, PTL DEF CoreSpec, MqSpec

(* What the daemon shows or believes of tmux is so: the status options, the  *)
(* snapshots of subscribers and the answers of the control connection        *)
(* (status_push.rs, server.rs, control.rs), for any number of targets,       *)
(* subscribers, publishers and events.                                       *)
THEOREM ViewIsSound == CoreSpec => []ViewSound
<1>1. CoreSpec => []StreamSound BY StreamPart, StreamKeeps, PTL
<1>2. CoreSpec => []ControlSound BY AnswersAreOwn, ControlPart, PTL
<1>3. CoreSpec => []DisplaySound BY PushPart, DisplayKeeps, PTL
<1>4. StreamSound /\ ControlSound /\ DisplaySound => ViewSound BY DEF ViewSound
<1>. QED BY <1>1, <1>2, <1>3, <1>4, PTL
=============================================================================
