---------------------------- MODULE AgentsProofs ----------------------------
(* Proofs about what the daemon makes of its agents (MCAgents): the notices *)
(* of questions and their file, the resumes after a capacity failure, the   *)
(* delivery of hook events, the state of a pane that its reducer keeps and  *)
(* the signals derived from it, each for any bound and any set.             *)
EXTENDS MCAgents, FiniteSetTheorems, SequenceTheorems, WellFoundedInduction, TLAPS

-----------------------------------------------------------------------------
(* Question notices: what is in memory and what is in the file each keep    *)
(* that whatever they count as acknowledged was asked for or answered.      *)

LEMMA MinInSet ==
    ASSUME NEW T, T \subseteq Nat, T # {}
    PROVE  Min(T) \in T /\ \A y \in T : Min(T) <= y
<1>1. PICK i \in T : \A j \in T : ~ (<<j, i>> \in OpToRel(<, Nat))
  <2> HIDE DEF OpToRel
  <2> QED BY NatLessThanWellFounded, WFMin
<1>2. \A j \in T : ~ (j < i) BY <1>1 DEF OpToRel
<1>3. \A j \in T : i <= j BY <1>2
<1> QED BY <1>3 DEF Min

LEMMA MaxInSet ==
    ASSUME NEW b \in Nat, NEW S, S \subseteq 0..b, S # {}
    PROVE  Max(S) \in S /\ \A y \in S : Max(S) >= y
<1> DEFINE T == {n \in 0..b : b - n \in S}
<1>1. T \subseteq Nat /\ T # {}
  <2>1. PICK x \in S : TRUE OBVIOUS
  <2>2. b - x \in T BY <2>1
  <2> QED BY <2>2
<1>2. PICK i \in T : \A j \in T : i <= j BY <1>1, MinInSet
<1>3. b - i \in S /\ \A y \in S : b - i >= y
  <2>1. ASSUME NEW y \in S PROVE b - i >= y
    <3>1. b - y \in T OBVIOUS
    <3> QED BY <3>1, <1>2
  <2> QED BY <2>1, <1>2
<1> QED BY <1>3 DEF Max

Pair == [order : Orders, item : Item]
NoticeRecord ==
    [latest : Nat, acked : Nat, seen : SUBSET Key, tracked : SUBSET [order : Orders, call : Call],
     pending : SUBSET Pair, calls : SUBSET Call, blocked : BOOLEAN, dirty : BOOLEAN, waiting : BOOLEAN,
     memoryOnly : SUBSET Key, invalid : BOOLEAN]
FileRecord ==
    [kind : {"file"}, latest : Nat, acked : Nat, seen : SUBSET Key, tracked : SUBSET [order : Orders, call : Call],
     pending : SUBSET Pair, calls : SUBSET Call, blocked : BOOLEAN]
HistRecord ==
    [answered : SUBSET Pair, wanted : Nat, told : Nat, promised : SUBSET Key, faults : Nat, replies : Nat]
NoticesType ==
    /\ notices \in NoticeRecord
    /\ sidecar \in [file : FileRecord \cup {NoFile}, marker : {"none", "set", "torn"}]
    /\ replyJob \in [items : SUBSET Item, orders : SUBSET Pair, attempt : Nat]
    /\ shown \in Nat
    /\ hist \in HistRecord

(* An order that is acknowledged was asked for or answered.                 *)
Answered(H, o) == \E c \in Call : Items[c] > 0 /\ \A i \in ItemsOf(c) : [order |-> o, item |-> i] \in H.answered
Covered(H, a) == \A o \in Orders : o <= a /\ o > H.wanted => Answered(H, o)

(* What holds of the notices in memory and of those in the file.            *)
Backed(H, latest, acked, keys, tracked, pending) ==
    /\ acked <= latest /\ latest <= MaxIssued
    /\ IsFiniteSet(keys) /\ Cardinality(keys) = latest
    /\ Covered(H, acked)
    /\ \A t \in tracked : /\ Items[t.call] > 0
                          /\ \A i \in ItemsOf(t.call) :
                                [order |-> t.order, item |-> i] \in pending \/ [order |-> t.order, item |-> i] \in H.answered
BackedIn(H, n) == Backed(H, n.latest, n.acked, n.seen, n.tracked, n.pending)

FileGood(H, s) ==
    /\ s \in [file : FileRecord \cup {NoFile}, marker : {"none", "set", "torn"}]
    /\ s.file # NoFile => BackedIn(H, s.file) /\ H.promised \subseteq s.file.seen /\ H.told <= s.file.acked
    /\ s.file = NoFile => H.promised = {} /\ H.told = 0 /\ s.marker = "none"
MemoryGood(H, n) ==
    /\ n \in NoticeRecord /\ BackedIn(H, n)
    /\ ~n.invalid => H.promised \subseteq n.seen /\ H.told <= n.acked

NoticesInv ==
    /\ NoticesType /\ FileGood(hist, sidecar) /\ MemoryGood(hist, notices)
    /\ notices.invalid => sidecar.marker = "torn"
    /\ replyJob.orders \subseteq hist.answered

(* More history backs no less.                                              *)
Longer(H, G) == H.answered \subseteq G.answered /\ H.wanted <= G.wanted

LEMMA BackedLonger ==
    ASSUME NEW H \in HistRecord, NEW G \in HistRecord, Longer(H, G), NEW n, BackedIn(H, n) PROVE BackedIn(G, n)
  BY NoticesAssumption DEF Longer, Answered, HistRecord, Orders, BackedIn, Backed, Covered

LEMMA NoNoticesGood ==
    ASSUME NEW H \in HistRecord
    PROVE  /\ NoNotices \in NoticeRecord /\ BackedIn(H, NoNotices) /\ ~NoNotices.invalid /\ NoNotices.acked = 0
           /\ [NoNotices EXCEPT !.invalid = TRUE] \in NoticeRecord
           /\ BackedIn(H, [NoNotices EXCEPT !.invalid = TRUE])
           /\ [NoNotices EXCEPT !.invalid = TRUE].invalid
<1>1. /\ NoNotices \in NoticeRecord /\ ~NoNotices.invalid
      /\ NoNotices.latest = 0 /\ NoNotices.acked = 0 /\ NoNotices.seen = {} /\ NoNotices.tracked = {}
  BY DEF NoNotices, NoticeRecord
<1> DEFINE n == [NoNotices EXCEPT !.invalid = TRUE]
<1>2. /\ n \in NoticeRecord /\ n.invalid
      /\ n.latest = 0 /\ n.acked = 0 /\ n.seen = {} /\ n.tracked = {}
  BY <1>1 DEF NoticeRecord
<1>3. Covered(H, 0) /\ 0 <= MaxIssued /\ IsFiniteSet({}) /\ Cardinality({}) = 0
  BY NoticesAssumption, FS_EmptySet DEF Covered, Orders
<1> HIDE DEF n
<1>4. BackedIn(H, NoNotices) /\ BackedIn(H, n) BY <1>1, <1>2, <1>3 DEF BackedIn, Backed
<1> QED BY <1>1, <1>2, <1>4 DEF n

LEMMA NoticesInitInv == ASSUME NoticesInit PROVE NoticesInv
  BY NoNoticesGood DEF NoticesInit, HistRecord, NoticesType, NoFile, NoReply, FileGood, MemoryGood, NoticesInv

(* What a commit changes of the notices in memory.                          *)
LEMMA Committed ==
    ASSUME NEW n \in NoticeRecord, NEW outcome \in Outcomes
    PROVE  LET m == persist_commit(n, outcome) IN
           /\ m \in NoticeRecord /\ m.latest = n.latest /\ m.acked = n.acked /\ m.seen = n.seen
           /\ m.tracked = n.tracked /\ m.pending = n.pending /\ (m.invalid <=> n.invalid)
<1> DEFINE m == persist_commit(n, outcome)
<1>1. \/ m = [n EXCEPT !.waiting = TRUE]
      \/ m = [n EXCEPT !.dirty = FALSE, !.waiting = FALSE]
      \/ m = [n EXCEPT !.dirty = FALSE, !.waiting = FALSE, !.memoryOnly = {}]
  BY DEF persist_commit, Outcomes
<1> HIDE DEF m
<1>2. CASE m = [n EXCEPT !.waiting = TRUE] BY <1>2 DEF NoticeRecord, m
<1>3. CASE m = [n EXCEPT !.dirty = FALSE, !.waiting = FALSE] BY <1>3 DEF NoticeRecord, m
<1>4. CASE m = [n EXCEPT !.dirty = FALSE, !.waiting = FALSE, !.memoryOnly = {}] BY <1>4 DEF NoticeRecord, m
<1> QED BY <1>1, <1>2, <1>3, <1>4

LEMMA CommittedGood ==
    ASSUME NEW H, NEW n \in NoticeRecord, NEW outcome \in Outcomes, MemoryGood(H, n)
    PROVE  MemoryGood(H, persist_commit(n, outcome)) /\ (persist_commit(n, outcome).invalid <=> n.invalid)
  BY Committed DEF MemoryGood, BackedIn

(* What is renamed over the file.                                           *)
LEMMA RenamedGood ==
    ASSUME NEW H, NEW n \in NoticeRecord, BackedIn(H, n), H.promised \subseteq n.seen, H.told <= n.acked,
           NEW marker \in {"none", "set", "torn"}
    PROVE  FileGood(H, AfterRename(n, marker)) /\ AfterRename(n, marker).marker = marker
  BY DEF Snapshot, NoticeRecord, FileRecord, NoFile, AfterRename, FileGood, BackedIn

LEMMA WrittenGood ==
    ASSUME NEW H, NEW n \in NoticeRecord, NEW outcome \in Outcomes, FileGood(hist, sidecar),
           IF outcome = "failed" THEN FileGood(H, sidecar)
           ELSE BackedIn(H, n) /\ H.promised \subseteq n.seen /\ H.told <= n.acked
    PROVE  FileGood(H, Write(n, outcome)) /\ (sidecar.marker = "torn" => Write(n, outcome).marker = "torn")
  BY RenamedGood DEF Write

(* A history that only grows where nothing is written.                      *)
LEMMA FileLonger ==
    ASSUME NEW H \in HistRecord, NEW G \in HistRecord, Longer(H, G), G.promised = H.promised, G.told = H.told,
           NEW s, FileGood(H, s)
    PROVE  FileGood(G, s)
  BY BackedLonger DEF FileGood

LEMMA MemoryLonger ==
    ASSUME NEW H \in HistRecord, NEW G \in HistRecord, Longer(H, G), G.promised = H.promised, G.told = H.told,
           NEW n, MemoryGood(H, n)
    PROVE  MemoryGood(G, n)
  BY BackedLonger DEF MemoryGood

(* A question takes the next order; a repeated call is not tracked anymore. *)
LEMMA RegisterGood ==
    ASSUME NoticesAssumption, NEW H, NEW n \in NoticeRecord, BackedIn(H, n), NEW order \in Orders, NEW call \in Call
    PROVE  LET r == register_reply_items(n, order, call) IN
           /\ r \in NoticeRecord /\ r.latest = n.latest /\ r.acked = n.acked /\ r.seen = n.seen
           /\ (r.invalid <=> n.invalid) /\ BackedIn(H, r)
<1> DEFINE r == register_reply_items(n, order, call)
           gone == [n EXCEPT !.tracked = {o \in @ : o.call # call},
                             !.pending = {p \in @ : p.item \notin ItemsOf(call)}]
           blocked == [n EXCEPT !.blocked = TRUE, !.tracked = {}, !.pending = {}]
           plain == [n EXCEPT !.calls = @ \cup {call}]
           more == [n EXCEPT !.calls = @ \cup {call},
                             !.tracked = @ \cup {[order |-> order, call |-> call]},
                             !.pending = @ \cup {[order |-> order, item |-> i] : i \in ItemsOf(call)}]
           Fine(m) == /\ m \in NoticeRecord /\ m.latest = n.latest /\ m.acked = n.acked /\ m.seen = n.seen
                      /\ (m.invalid <=> n.invalid) /\ BackedIn(H, m)
<1>3. Fine(n) OBVIOUS
<1>4. Fine(gone)
  <2>1. /\ gone \in NoticeRecord /\ gone.latest = n.latest /\ gone.acked = n.acked /\ gone.seen = n.seen
        /\ (gone.invalid <=> n.invalid)
        /\ gone.tracked = {o \in n.tracked : o.call # call}
        /\ gone.pending = {p \in n.pending : p.item \notin ItemsOf(call)}
    BY DEF NoticeRecord
  <2> HIDE DEF gone
  <2>2. ASSUME NEW t \in gone.tracked, NEW i \in ItemsOf(t.call)
        PROVE  [order |-> t.order, item |-> i] \in gone.pending \/ [order |-> t.order, item |-> i] \in H.answered
    BY <2>1 DEF ItemsOf, BackedIn, Backed
  <2> QED BY <2>1, <2>2 DEF BackedIn, Backed
<1>5. Fine(blocked) BY DEF NoticeRecord, BackedIn, Backed
<1>6. Fine(plain) BY DEF NoticeRecord, BackedIn, Backed
<1>7. ASSUME Items[call] # 0 PROVE Fine(more)
  <2>1. {[order |-> order, item |-> i] : i \in ItemsOf(call)} \subseteq Pair BY DEF Pair, ItemsOf, Item
  <2> DEFINE add == {[order |-> order, item |-> i] : i \in ItemsOf(call)}
             tr == n.tracked \cup {[order |-> order, call |-> call]}
             pe == n.pending \cup add
             ca == n.calls \cup {call}
  <2>5. tr \subseteq [order : Orders, call : Call] /\ pe \subseteq Pair /\ ca \subseteq Call
    BY <2>1 DEF NoticeRecord
  <2>6. more = [n EXCEPT !.calls = ca, !.tracked = tr, !.pending = pe] OBVIOUS
  <2>7. /\ more \in NoticeRecord /\ more.latest = n.latest /\ more.acked = n.acked /\ more.seen = n.seen
        /\ (more.invalid <=> n.invalid) /\ more.tracked = tr /\ more.pending = pe
    <3> HIDE DEF tr, pe, ca, more
    <3> QED BY <2>5, <2>6 DEF NoticeRecord
  <2>3. Items[call] > 0 BY <1>7, NoticesAssumption
  <2> HIDE DEF more
  <2>4. BackedIn(H, more) BY <2>7, <2>3 DEF BackedIn, Backed
  <2> QED BY <2>7, <2>4
<1> QED BY <1>3, <1>4, <1>5, <1>6, <1>7 DEF register_reply_items

LEMMA IssuedGood ==
    ASSUME NoticesInv, NEW k \in Key, k \notin notices.seen, notices.latest < MaxIssued
    PROVE  LET n == Issued(k) IN
           /\ n \in NoticeRecord /\ BackedIn(hist, n) /\ n.seen = notices.seen \cup {k} /\ n.acked = notices.acked
           /\ (n.invalid <=> notices.invalid) /\ MemoryGood(hist, n)
<1> DEFINE order == notices.latest + 1
           n == [notices EXCEPT !.latest = order, !.seen = @ \cup {k}, !.memoryOnly = @ \cup {k}, !.dirty = TRUE]
<1>1. /\ notices \in NoticeRecord /\ notices.latest \in Nat /\ MaxIssued \in Nat /\ notices.acked \in Nat
      /\ order \in Orders
  BY NoticesAssumption DEF NoticesInv, MemoryGood, NoticeRecord, Orders
<1>2. /\ n \in NoticeRecord /\ n.latest = notices.latest + 1 /\ n.seen = notices.seen \cup {k}
      /\ n.acked = notices.acked /\ n.tracked = notices.tracked /\ n.pending = notices.pending
      /\ (n.invalid <=> notices.invalid)
  <2> DEFINE se == notices.seen \cup {k}
             me == notices.memoryOnly \cup {k}
  <2>1. se \subseteq Key /\ me \subseteq Key /\ order \in Nat /\ order = notices.latest + 1 BY <1>1 DEF NoticeRecord
  <2>2. n = [notices EXCEPT !.latest = order, !.seen = se, !.memoryOnly = me, !.dirty = TRUE] OBVIOUS
  <2>3. /\ n \in NoticeRecord /\ n.latest = order /\ n.seen = se
        /\ n.acked = notices.acked /\ n.tracked = notices.tracked /\ n.pending = notices.pending
        /\ (n.invalid <=> notices.invalid)
    <3> HIDE DEF se, me, order, n
    <3> QED BY <1>1, <2>1, <2>2 DEF NoticeRecord
  <2> QED BY <2>1, <2>3
<1>3. Issued(k) = register_reply_items(n, order, k.call) BY DEF Issued
<1> HIDE DEF n
<1>4. IsFiniteSet(n.seen) /\ Cardinality(n.seen) = n.latest
  <2>1. IsFiniteSet(notices.seen) /\ Cardinality(notices.seen) = notices.latest
    BY DEF NoticesInv, MemoryGood, BackedIn, Backed
  <2> QED BY <1>2, <2>1, FS_AddElement
<1>5. BackedIn(hist, n) BY <1>1, <1>2, <1>4 DEF NoticesInv, MemoryGood, BackedIn, Backed
<1>6. k.call \in Call BY DEF Key
<1> HIDE DEF order
<1>7. /\ Issued(k) \in NoticeRecord /\ Issued(k).acked = n.acked /\ Issued(k).seen = n.seen
      /\ (Issued(k).invalid <=> n.invalid) /\ BackedIn(hist, Issued(k))
  BY <1>1, <1>2, <1>3, <1>5, <1>6, RegisterGood, NoticesAssumption
<1> QED BY <1>2, <1>7 DEF NoticesInv, MemoryGood

(* What a step that saves leaves behind.                                    *)
LEMMA SavedStep ==
    ASSUME NoticesInv, NEW n \in NoticeRecord, NEW m \in NoticeRecord, NEW outcome \in Outcomes, NEW G \in HistRecord,
           ~notices.invalid, ~m.invalid, Longer(hist, G), MemoryGood(G, m),
           IF outcome = "failed" THEN G.promised = hist.promised /\ G.told = hist.told
           ELSE BackedIn(G, n) /\ G.promised \subseteq n.seen /\ G.told <= n.acked,
           notices' = m, sidecar' = Write(n, outcome), hist' = G,
           replyJob' \in [items : SUBSET Item, orders : SUBSET Pair, attempt : Nat],
           replyJob'.orders \subseteq hist.answered, UNCHANGED shown
    PROVE  NoticesInv'
  BY FileLonger, WrittenGood DEF NoticesInv, NoticesType, FileGood, Longer

LEMMA IssueKeeps ==
    ASSUME NoticesInv, NEW k \in Key, NEW outcome \in Outcomes, Issue(k, outcome) PROVE NoticesInv'
<1>1. /\ Issued(k) \in NoticeRecord /\ BackedIn(hist, Issued(k)) /\ Issued(k).seen = notices.seen \cup {k}
      /\ Issued(k).acked = notices.acked /\ ~Issued(k).invalid /\ MemoryGood(hist, Issued(k))
  BY IssuedGood DEF Issue
<1> DEFINE n == Issued(k)
<1>2. CASE notices.waiting
  <2> HIDE DEF n
  <2> QED BY <1>1, <1>2 DEF NoticesInv, NoticesType, n, Issue
<1>3. CASE ~notices.waiting
  <2> DEFINE G == [hist EXCEPT !.faults = Faults(outcome), !.promised =
                     IF outcome = "committed" THEN @ \cup {k} ELSE @]
             m == persist_commit(n, outcome)
  <2>1. /\ notices' = m /\ sidecar' = Write(n, outcome) /\ hist' = G /\ UNCHANGED <<replyJob, shown>>
        /\ ~notices.invalid
    BY <1>3 DEF Issue
  <2>2. /\ G \in HistRecord /\ G.answered = hist.answered /\ G.wanted = hist.wanted /\ G.told = hist.told
        /\ G.promised \subseteq hist.promised \cup {k} /\ (outcome = "failed" => G.promised = hist.promised)
    <3> DEFINE pr == IF outcome = "committed" THEN hist.promised \cup {k} ELSE hist.promised
               fa == Faults(outcome)
    <3>1. pr \subseteq Key /\ fa \in Nat /\ pr \subseteq hist.promised \cup {k} /\ (outcome = "failed" => pr = hist.promised)
      BY DEF NoticesInv, NoticesType, HistRecord, Faults
    <3>2. G = [hist EXCEPT !.faults = fa, !.promised = pr] /\ hist \in HistRecord BY DEF NoticesInv, NoticesType
    <3> HIDE DEF pr, fa, G
    <3> QED BY <3>1, <3>2 DEF HistRecord
  <2> HIDE DEF G
  <2>3. /\ m \in NoticeRecord /\ m.latest = n.latest /\ m.acked = n.acked /\ m.seen = n.seen
        /\ m.tracked = n.tracked /\ m.pending = n.pending /\ (m.invalid <=> n.invalid)
    BY <1>1, Committed
  <2> HIDE DEF m, n
  <2>4. hist \in HistRecord /\ Longer(hist, G) BY <2>2 DEF NoticesInv, NoticesType, HistRecord, Longer
  <2>6. BackedIn(G, n) /\ G.promised \subseteq n.seen /\ G.told <= n.acked
    BY <2>1, <2>2, <2>4, <1>1, BackedLonger DEF NoticesInv, MemoryGood, n
  <2>7. MemoryGood(G, m) BY <2>3, <2>6 DEF MemoryGood, BackedIn
  <2>8. /\ replyJob' \in [items : SUBSET Item, orders : SUBSET Pair, attempt : Nat]
        /\ replyJob'.orders \subseteq hist.answered
    BY <2>1 DEF NoticesInv, NoticesType
  <2> QED BY <2>1, <2>2, <2>3, <2>4, <1>1, <2>6, <2>7, <2>8, SavedStep DEF n
<1> QED BY <1>2, <1>3

(* The notices as they are, saved once more.                                *)
LEMMA SaveAgain ==
    ASSUME NoticesInv, NEW outcome \in Outcomes, ~notices.invalid, NEW P, P \subseteq notices.seen,
           notices' = persist_commit(notices, outcome), sidecar' = Write(notices, outcome),
           hist' = [hist EXCEPT !.faults = Faults(outcome), !.promised = IF outcome = "committed" THEN @ \cup P ELSE @],
           UNCHANGED <<replyJob, shown>>
    PROVE  NoticesInv'
<1> DEFINE G == [hist EXCEPT !.faults = Faults(outcome), !.promised = IF outcome = "committed" THEN @ \cup P ELSE @]
           m == persist_commit(notices, outcome)
<1>1. notices \in NoticeRecord /\ hist \in HistRecord BY DEF NoticesInv, NoticesType
<1>2. /\ G \in HistRecord /\ G.answered = hist.answered /\ G.wanted = hist.wanted /\ G.told = hist.told
      /\ G.promised \subseteq hist.promised \cup P /\ (outcome = "failed" => G.promised = hist.promised)
  <2> DEFINE pr == IF outcome = "committed" THEN hist.promised \cup P ELSE hist.promised
             fa == Faults(outcome)
  <2>1. pr \subseteq Key /\ fa \in Nat /\ pr \subseteq hist.promised \cup P /\ (outcome = "failed" => pr = hist.promised)
    BY <1>1 DEF HistRecord, NoticeRecord, Faults
  <2>2. G = [hist EXCEPT !.faults = fa, !.promised = pr] OBVIOUS
  <2> HIDE DEF pr, fa, G
  <2> QED BY <1>1, <2>1, <2>2 DEF HistRecord
<1>3. /\ m \in NoticeRecord /\ m.latest = notices.latest /\ m.acked = notices.acked /\ m.seen = notices.seen
      /\ m.tracked = notices.tracked /\ m.pending = notices.pending /\ (m.invalid <=> notices.invalid)
  BY <1>1, Committed
<1>4. notices' = m /\ hist' = G OBVIOUS
<1> HIDE DEF G, m
<1>5. Longer(hist, G) BY <1>1, <1>2 DEF HistRecord, Longer
<1>6. BackedIn(G, notices) /\ G.promised \subseteq notices.seen /\ G.told <= notices.acked
  BY <1>1, <1>2, <1>5, BackedLonger DEF NoticesInv, MemoryGood
<1>7. MemoryGood(G, m) BY <1>3, <1>6 DEF MemoryGood, BackedIn
<1>8. /\ replyJob' \in [items : SUBSET Item, orders : SUBSET Pair, attempt : Nat]
      /\ replyJob'.orders \subseteq hist.answered
  BY DEF NoticesInv, NoticesType
<1> QED BY <1>1, <1>2, <1>3, <1>4, <1>5, <1>6, <1>7, <1>8, SavedStep

LEMMA IssueAgainKeeps ==
    ASSUME NoticesInv, NEW k \in Key, NEW outcome \in Outcomes, IssueAgain(k, outcome) PROVE NoticesInv'
  BY SaveAgain DEF IssueAgain

LEMMA ReconcileKeeps ==
    ASSUME NoticesInv, NEW outcome \in Outcomes, reconcile(outcome) PROVE NoticesInv'
<1> DEFINE P == {} \cap Key
<1>1. hist' = [hist EXCEPT !.faults = Faults(outcome), !.promised = IF outcome = "committed" THEN @ \cup P ELSE @]
  <2>2. hist.promised \cup P = hist.promised OBVIOUS
  <2> HIDE DEF P
  <2> QED BY <2>2 DEF HistRecord, reconcile, NoticesInv, NoticesType
<1>2. P \subseteq notices.seen OBVIOUS
<1>3. /\ ~notices.invalid /\ notices' = persist_commit(notices, outcome) /\ sidecar' = Write(notices, outcome)
      /\ UNCHANGED <<replyJob, shown>>
  BY DEF reconcile
<1> HIDE DEF P
<1> QED BY <1>1, <1>2, <1>3, SaveAgain

(* An acknowledgement passes orders that were asked for or answered.        *)
LEMMA PassedGood ==
    ASSUME NEW H \in HistRecord, NEW n \in NoticeRecord, BackedIn(H, n), NEW through \in Nat, n.acked <= through,
           through <= n.latest, Covered(H, through), ~n.invalid, H.promised \subseteq n.seen, H.told <= through
    PROVE  /\ MemoryGood(H, Passed(n, through)) /\ (Passed(n, through).invalid <=> n.invalid)
           /\ [n EXCEPT !.acked = through] \in NoticeRecord /\ BackedIn(H, [n EXCEPT !.acked = through])
           /\ [n EXCEPT !.acked = through].seen = n.seen /\ [n EXCEPT !.acked = through].acked = through
<1> DEFINE a == [n EXCEPT !.acked = through]
           tr == {o \in n.tracked : o.order > through}
           pe == {p \in n.pending : p.order > through}
           p == [n EXCEPT !.acked = through, !.tracked = tr, !.pending = pe]
<1>1. /\ a \in NoticeRecord /\ a.acked = through /\ a.latest = n.latest /\ a.seen = n.seen
      /\ a.tracked = n.tracked /\ a.pending = n.pending
  BY DEF NoticeRecord
<1>2. BackedIn(H, a)
  <2> HIDE DEF a
  <2> QED BY <1>1 DEF BackedIn, Backed
<1>3. tr \subseteq n.tracked /\ pe \subseteq n.pending OBVIOUS
<1>4. /\ p \in NoticeRecord /\ p.acked = through /\ p.latest = n.latest /\ p.seen = n.seen
      /\ p.tracked = tr /\ p.pending = pe /\ (p.invalid <=> n.invalid)
  <2> HIDE DEF tr, pe
  <2> QED BY <1>3 DEF NoticeRecord
<1>5. BackedIn(H, p)
  <2>1. ASSUME NEW t \in tr, NEW i \in ItemsOf(t.call)
        PROVE  [order |-> t.order, item |-> i] \in pe \/ [order |-> t.order, item |-> i] \in H.answered
    BY DEF BackedIn, Backed
  <2>2. \A t \in tr : Items[t.call] > 0 BY DEF BackedIn, Backed
  <2> HIDE DEF p, tr, pe
  <2> QED BY <1>4, <2>1, <2>2 DEF BackedIn, Backed
<1>6. Passed(n, through) = p BY DEF Passed
<1> HIDE DEF p, a
<1> QED BY <1>1, <1>2, <1>4, <1>5, <1>6 DEF MemoryGood, a

LEMMA AcknowledgeKeeps ==
    ASSUME NoticesInv, NEW outcome \in Outcomes, acknowledge(outcome) PROVE NoticesInv'
<1> DEFINE wa == IF shown > hist.wanted THEN shown ELSE hist.wanted
           to == IF outcome = "failed" THEN hist.told ELSE shown
           fa == Faults(outcome)
           G == [hist EXCEPT !.faults = fa, !.wanted = wa, !.told = to]
           n == [notices EXCEPT !.acked = shown]
           m == persist_commit(Passed(notices, shown), outcome)
<1>1. /\ ~notices.invalid /\ shown > notices.acked /\ shown <= notices.latest /\ UNCHANGED <<replyJob, shown>>
      /\ hist' = G
  BY DEF acknowledge
<1>2. /\ notices \in NoticeRecord /\ hist \in HistRecord /\ shown \in Nat /\ hist.wanted \in Nat /\ hist.told \in Nat
      /\ hist.faults \in Nat /\ notices.acked \in Nat /\ BackedIn(hist, notices)
      /\ hist.promised \subseteq notices.seen /\ hist.told <= notices.acked
  BY <1>1 DEF NoticesInv, NoticesType, MemoryGood, HistRecord, NoticeRecord
<1>3. /\ G \in HistRecord /\ G.answered = hist.answered /\ G.wanted = wa /\ G.told = to /\ G.promised = hist.promised
  <2>1. wa \in Nat /\ to \in Nat /\ fa \in Nat BY <1>2 DEF Faults
  <2> HIDE DEF wa, to, fa
  <2> QED BY <1>2, <2>1 DEF HistRecord
<1>4. wa >= shown /\ wa >= hist.wanted /\ wa \in Nat /\ to <= shown BY <1>1, <1>2
<1> HIDE DEF G
<1>5. Longer(hist, G) BY <1>3, <1>4 DEF Longer
<1>7. Covered(G, shown) BY <1>2, <1>3, <1>4, NoticesAssumption DEF Covered, Orders
<1>8. /\ MemoryGood(G, Passed(notices, shown)) /\ ~Passed(notices, shown).invalid
      /\ n \in NoticeRecord /\ BackedIn(G, n) /\ n.seen = notices.seen /\ n.acked = shown
  BY <1>1, <1>2, <1>3, <1>4, <1>5, BackedLonger, <1>7, PassedGood
<1>9. /\ replyJob' \in [items : SUBSET Item, orders : SUBSET Pair, attempt : Nat]
      /\ replyJob'.orders \subseteq hist.answered
  BY <1>1 DEF NoticesInv, NoticesType
<1>10. CASE outcome = "failed"
  BY <1>10, <1>2, <1>3, <1>5, MemoryLonger, FileLonger, <1>1 DEF acknowledge, NoticesInv, NoticesType
<1>11. CASE outcome # "failed"
  <2>1. notices' = m /\ sidecar' = Write(n, outcome) BY <1>11 DEF acknowledge
  <2>2. MemoryGood(G, m) /\ ~m.invalid /\ m \in NoticeRecord BY <1>8, CommittedGood DEF MemoryGood
  <2> HIDE DEF m, n
  <2> QED BY <1>1, <1>2, <1>3, <1>4, <1>5, <1>8, <1>9, <1>11, <2>1, <2>2, SavedStep
<1> QED BY <1>10, <1>11

(* Replies are matched with orders that are tracked.                        *)
LEMMA OrderOfTracked ==
    ASSUME NoticesInv, NEW i, OrderOf(i) # 0 PROVE OrderOf(i) \in Orders
<1> DEFINE fits == {o \in notices.tracked : o.order > notices.acked /\ i \in ItemsOf(o.call)}
           T == {o.order : o \in fits}
<1>2. T \subseteq Orders /\ Orders \subseteq Nat
  BY NoticesAssumption DEF Orders, NoticesInv, NoticesType, NoticeRecord
<1>4. T # {} BY DEF OrderOf
<1>5. Min(T) \in T
  <2> HIDE DEF T
  <2> QED BY <1>2, <1>4, MinInSet
<1> QED BY <1>2, <1>5 DEF OrderOf

LEMMA MatchKeeps ==
    ASSUME NoticesInv, NEW items \in SUBSET Item, match_reply_orders(items) PROVE NoticesInv'
<1> DEFINE pairs == {[order |-> OrderOf(i), item |-> i] : i \in items}
           G == [hist EXCEPT !.answered = @ \cup pairs, !.replies = @ + 1]
<1>1. /\ replyJob' = [items |-> items, orders |-> pairs, attempt |-> 0] /\ hist' = G
      /\ UNCHANGED <<notices, sidecar, shown>> /\ \A i \in items : OrderOf(i) # 0
  BY DEF match_reply_orders
<1>2. pairs \subseteq Pair BY <1>1, OrderOfTracked DEF Pair
<1>3. hist \in HistRecord BY DEF NoticesInv, NoticesType
<1>4. /\ G \in HistRecord /\ G.answered = hist.answered \cup pairs /\ G.wanted = hist.wanted
      /\ G.promised = hist.promised /\ G.told = hist.told
  <2> DEFINE an == hist.answered \cup pairs
             re == hist.replies + 1
  <2>1. an \subseteq Pair /\ re \in Nat BY <1>2, <1>3 DEF HistRecord
  <2>2. G = [hist EXCEPT !.answered = an, !.replies = re] OBVIOUS
  <2> HIDE DEF an, re, G, pairs
  <2>3. /\ G \in HistRecord /\ G.answered = an /\ G.wanted = hist.wanted
        /\ G.promised = hist.promised /\ G.told = hist.told
    BY <1>3, <2>1, <2>2 DEF HistRecord
  <2> QED BY <2>3 DEF an
<1> HIDE DEF G, pairs
<1>6. MemoryGood(G, notices) /\ FileGood(G, sidecar)
  BY <1>3, <1>4, MemoryLonger, FileLonger DEF NoticesInv, HistRecord, Longer
<1>7. /\ replyJob' \in [items : SUBSET Item, orders : SUBSET Pair, attempt : Nat]
      /\ replyJob'.orders = pairs
  BY <1>1, <1>2
<1> QED BY <1>1, <1>4, <1>6, <1>7 DEF NoticesInv, NoticesType

LEMMA QuietNoticesKeep ==
    ASSUME NoticesInv, retry_reply \/ RetryIntervalPasses \/ Look \/ UNCHANGED noticeVars PROVE NoticesInv'
<1>1. CASE retry_reply BY <1>1 DEF retry_reply, NoReply, NoticesInv, NoticesType
<1>2. CASE RetryIntervalPasses
  <2> DEFINE m == [notices EXCEPT !.waiting = FALSE]
  <2>1. /\ m \in NoticeRecord /\ m.latest = notices.latest /\ m.acked = notices.acked /\ m.seen = notices.seen
        /\ m.tracked = notices.tracked /\ m.pending = notices.pending /\ (m.invalid <=> notices.invalid)
    BY DEF NoticesInv, NoticesType, NoticeRecord
  <2>2. notices' = m BY <1>2 DEF RetryIntervalPasses
  <2> HIDE DEF m
  <2>3. MemoryGood(hist, m) BY <2>1 DEF NoticesInv, MemoryGood, BackedIn
  <2> QED BY <1>2, <2>1, <2>2, <2>3 DEF RetryIntervalPasses, NoticesInv, NoticesType
<1>3. CASE Look BY <1>3 DEF Look, NoticesInv, NoticesType, NoticeRecord
<1>4. CASE UNCHANGED noticeVars BY <1>4 DEF noticeVars, NoticesInv, NoticesType
<1> QED BY <1>1, <1>2, <1>3, <1>4

(* Consecutive orders with no pending item are answered.                    *)
LEMMA PrefixCovered ==
    ASSUME NEW H \in HistRecord, NEW n \in NoticeRecord, BackedIn(H, n)
    PROVE  Prefix(n) \in Nat /\ n.acked <= Prefix(n) /\ Prefix(n) <= n.latest /\ Covered(H, Prefix(n))
<1> DEFINE Done(o) == (\E t \in n.tracked : t.order = o) /\ \A p \in n.pending : p.order # o
           S == {o \in n.acked..n.latest : \A k \in (n.acked + 1)..o : Done(k)}
<1>1. n.acked \in Nat /\ n.latest \in Nat /\ n.acked <= n.latest BY DEF BackedIn, Backed, NoticeRecord
<1>2. n.acked \in S BY <1>1
<1>3. S \subseteq 0..n.latest BY <1>1
<1>4. Prefix(n) \in S
  <2>1. Prefix(n) = Max(S) BY DEF Prefix
  <2> HIDE DEF S
  <2> QED BY <1>1, <1>2, <1>3, <2>1, MaxInSet
<1> HIDE DEF Done
<1>6. ASSUME NEW o \in Orders, o <= Prefix(n), o > H.wanted PROVE Answered(H, o)
  BY NoticesAssumption, <1>6, <1>1, <1>4 DEF Orders, BackedIn, Backed, Covered, Done, NoticeRecord, Answered
<1> QED BY <1>1, <1>4, <1>6 DEF Covered

LEMMA RepliesKeep ==
    ASSUME NoticesInv, NEW outcome \in Outcomes, acknowledge_reply_orders(outcome) PROVE NoticesInv'
<1> DEFINE due == {p \in replyJob.orders : p.order > notices.acked}
           n == Settled(notices, due)
           through == Prefix(n)
           to == IF outcome = "failed" \/ through <= hist.told THEN hist.told ELSE through
           fa == Faults(outcome)
           G == [hist EXCEPT !.faults = fa, !.told = to]
           w == [n EXCEPT !.acked = through]
           m == persist_commit(Passed(n, through), outcome)
<1>1. /\ notices \in NoticeRecord /\ hist \in HistRecord /\ BackedIn(hist, notices) /\ ~notices.invalid
      /\ hist.promised \subseteq notices.seen /\ hist.told <= notices.acked /\ hist.told \in Nat /\ hist.faults \in Nat
      /\ notices.acked \in Nat
  BY DEF NoticesInv, NoticesType, MemoryGood, acknowledge_reply_orders, HistRecord, NoticeRecord
<1>2. due \subseteq hist.answered BY DEF NoticesInv
<1>3. /\ n \in NoticeRecord /\ n.latest = notices.latest /\ n.acked = notices.acked /\ n.seen = notices.seen
      /\ n.tracked = notices.tracked /\ n.pending = notices.pending \ due /\ (n.invalid <=> notices.invalid)
  <2> HIDE DEF due
  <2> DEFINE pe == notices.pending \ due
  <2>1. pe \subseteq Pair /\ n = [notices EXCEPT !.pending = pe] BY <1>1 DEF NoticeRecord, Settled
  <2> HIDE DEF pe, n
  <2>2. /\ n \in NoticeRecord /\ n.latest = notices.latest /\ n.acked = notices.acked /\ n.seen = notices.seen
        /\ n.tracked = notices.tracked /\ n.pending = pe /\ (n.invalid <=> notices.invalid)
    BY <1>1, <2>1 DEF NoticeRecord
  <2> QED BY <2>2 DEF pe
<1>4. replyJob' = NoReply /\ UNCHANGED shown BY DEF acknowledge_reply_orders
<1>5. \/ UNCHANGED <<notices, sidecar, hist>>
      \/ /\ hist' = G
         /\ IF outcome = "failed" THEN UNCHANGED <<notices, sidecar>>
            ELSE notices' = m /\ sidecar' = Write(w, outcome)
  <2> DEFINE known == \A p \in due : \E o \in notices.tracked :
                        o.order = p.order /\ p.item \in ItemsOf(o.call)
  <2>1. IF due = {} \/ ~known \/ (n = notices /\ through = n.acked)
        THEN outcome = "committed" /\ UNCHANGED <<notices, sidecar, hist>>
        ELSE /\ Faulty(outcome)
             /\ IF outcome = "failed" THEN UNCHANGED <<notices, sidecar>>
                ELSE notices' = m /\ sidecar' = Write(w, outcome)
             /\ hist' = [hist EXCEPT !.faults = fa, !.told =
                           IF outcome = "failed" \/ through <= @ THEN @ ELSE through]
    BY Zenon DEF acknowledge_reply_orders
  <2>2. [hist EXCEPT !.faults = fa, !.told = IF outcome = "failed" \/ through <= @ THEN @ ELSE through] = G OBVIOUS
  <2> HIDE DEF known, due, n, through, m, w, fa, G
  <2>3. \/ UNCHANGED <<notices, sidecar, hist>>
        \/ /\ hist' = G
           /\ IF outcome = "failed" THEN UNCHANGED <<notices, sidecar>>
              ELSE notices' = m /\ sidecar' = Write(w, outcome)
    BY <2>1, <2>2
  <2> QED BY <2>3
<1> HIDE DEF due, n
<1>6. BackedIn(hist, n) BY <1>1, <1>2, <1>3 DEF BackedIn, Backed
<1>7. through \in Nat /\ n.acked <= through /\ through <= n.latest /\ Covered(hist, through)
  BY <1>1, <1>3, <1>6, PrefixCovered
<1> HIDE DEF through
<1>8. to \in Nat /\ fa \in Nat /\ to <= through /\ (outcome = "failed" => to = hist.told)
  BY <1>1, <1>3, <1>7 DEF Faults
<1> HIDE DEF to, fa
<1>9. /\ G \in HistRecord /\ G.answered = hist.answered /\ G.wanted = hist.wanted /\ G.told = to
      /\ G.promised = hist.promised
  BY <1>1, <1>8 DEF HistRecord
<1> HIDE DEF G
<1>10. Longer(hist, G) BY <1>1, <1>9 DEF HistRecord, Longer
<1>12. /\ MemoryGood(G, Passed(n, through)) /\ ~Passed(n, through).invalid
       /\ w \in NoticeRecord /\ BackedIn(G, w) /\ w.seen = n.seen /\ w.acked = through
  BY <1>1, <1>3, <1>7, <1>8, <1>9, <1>6, <1>10, BackedLonger, PassedGood DEF Covered, Answered
<1>13. /\ replyJob' \in [items : SUBSET Item, orders : SUBSET Pair, attempt : Nat]
       /\ replyJob'.orders = {}
  BY <1>4 DEF NoReply
<1>14. CASE UNCHANGED <<notices, sidecar, hist>> BY <1>4, <1>13, <1>14 DEF NoticesInv, NoticesType
<1>15. CASE hist' = G /\ outcome = "failed" /\ UNCHANGED <<notices, sidecar>>
  BY <1>1, <1>8, <1>9, <1>10, <1>15, MemoryLonger, FileLonger, <1>4, <1>13 DEF NoticesInv, NoticesType
<1>16. CASE hist' = G /\ outcome # "failed" /\ notices' = m /\ sidecar' = Write(w, outcome)
  <2>1. MemoryGood(G, m) /\ ~m.invalid /\ m \in NoticeRecord BY <1>12, CommittedGood DEF MemoryGood
  <2> HIDE DEF m, w
  <2>2. /\ G.promised \subseteq w.seen /\ G.told <= w.acked /\ replyJob'.orders \subseteq hist.answered
    BY <1>1, <1>3, <1>8, <1>9, <1>12, <1>13
  <2> QED BY <1>1, <1>4, <1>9, <1>10, <1>12, <1>13, <1>16, <2>1, <2>2, SavedStep
<1> QED BY <1>5, <1>14, <1>15, <1>16

(* A file that is opened again gives back what it backs.                    *)
LEMMA LoadedGood ==
    ASSUME NEW H \in HistRecord, NEW s, FileGood(H, s)
    PROVE  MemoryGood(H, load(s)) /\ (load(s).invalid => s.marker = "torn")
<1>1. CASE s.marker = "torn" BY <1>1, NoNoticesGood DEF load, MemoryGood
<1>2. CASE s.marker # "torn" /\ s.file = NoFile BY <1>2, NoNoticesGood DEF load, FileGood, MemoryGood
<1>3. CASE s.marker # "torn" /\ s.file # NoFile
  <2> DEFINE f == s.file
             tr == {o \in f.tracked : o.order > f.acked}
             pe == {p \in f.pending : p.order > f.acked}
             r == [NoNotices EXCEPT !.latest = f.latest, !.acked = f.acked, !.seen = f.seen, !.tracked = tr,
                     !.pending = pe, !.calls = f.calls, !.blocked = f.blocked]
  <2>1. load(s) = r BY <1>3 DEF load
  <2>2. f \in FileRecord /\ BackedIn(H, f) /\ H.promised \subseteq f.seen /\ H.told <= f.acked BY <1>3 DEF FileGood
  <2>3. tr \subseteq f.tracked /\ pe \subseteq f.pending OBVIOUS
  <2>4. NoNotices \in NoticeRecord /\ ~NoNotices.invalid BY NoNoticesGood
  <2>5. /\ r \in NoticeRecord /\ r.latest = f.latest /\ r.acked = f.acked /\ r.seen = f.seen /\ r.tracked = tr
        /\ r.pending = pe /\ ~r.invalid
    <3> HIDE DEF tr, pe, f
    <3> QED BY <2>2, <2>3, <2>4 DEF FileRecord, NoticeRecord
  <2>6. ASSUME NEW t \in tr, NEW i \in ItemsOf(t.call)
        PROVE  [order |-> t.order, item |-> i] \in pe \/ [order |-> t.order, item |-> i] \in H.answered
    BY <2>2 DEF BackedIn, Backed
  <2>7. \A t \in tr : Items[t.call] > 0 BY <2>2 DEF BackedIn, Backed
  <2> HIDE DEF r, tr, pe, f
  <2>8. BackedIn(H, r) BY <2>2, <2>5, <2>6, <2>7 DEF BackedIn, Backed
  <2> QED BY <2>1, <2>2, <2>5, <2>8 DEF MemoryGood
<1> QED BY <1>1, <1>2, <1>3

LEMMA NoticesRestartKeeps ==
    ASSUME NoticesInv, NEW at \in Breaks, NoticesRestart(at) PROVE NoticesInv'
<1> DEFINE asked == shown > notices.acked /\ shown <= notices.latest
           marker == IF sidecar.marker = "none" /\ at = "in_marker" THEN "torn" ELSE sidecar.marker
<1>1. PICK through \in {notices.acked} \cup IF asked THEN {shown} ELSE {} :
         /\ sidecar' = IF at = "before_rename" \/ notices.invalid THEN sidecar
                       ELSE AfterRename([notices EXCEPT !.acked = through], marker)
         /\ hist' = [hist EXCEPT !.faults = @ + 1,
                       !.wanted = IF through > notices.acked /\ through > @ THEN through ELSE @]
  BY DEF NoticesRestart
<1> DEFINE wa == IF through > notices.acked /\ through > hist.wanted THEN through ELSE hist.wanted
           fa == hist.faults + 1
           G == [hist EXCEPT !.faults = fa, !.wanted = wa]
           n == [notices EXCEPT !.acked = through]
<1>2. /\ notices \in NoticeRecord /\ hist \in HistRecord /\ hist.faults \in Nat /\ hist.wanted \in Nat
      /\ notices.acked \in Nat /\ notices.latest \in Nat /\ BackedIn(hist, notices) /\ shown \in Nat /\ hist.told \in Nat
      /\ notices.acked <= notices.latest
  BY DEF NoticesInv, NoticesType, MemoryGood, HistRecord, NoticeRecord, BackedIn, Backed
<1>3. through \in Nat /\ notices.acked <= through /\ through <= notices.latest BY <1>2
<1>4. hist' = G BY <1>1
<1>5. wa \in Nat /\ wa >= hist.wanted /\ (through > notices.acked => wa >= through) /\ fa \in Nat BY <1>2, <1>3
<1> HIDE DEF wa, fa
<1>6. /\ G \in HistRecord /\ G.answered = hist.answered /\ G.wanted = wa /\ G.promised = hist.promised
      /\ G.told = hist.told
  BY <1>2, <1>5 DEF HistRecord
<1> HIDE DEF G
<1>8. FileGood(G, sidecar')
  <2>1. CASE at = "before_rename" \/ notices.invalid
    BY <1>1, <2>1, <1>2, <1>6, <1>5, FileLonger DEF NoticesInv, Longer
  <2>2. CASE ~(at = "before_rename" \/ notices.invalid)
    <3>1. sidecar' = AfterRename(n, marker) BY <1>1, <2>2
    <3>2. BackedIn(G, notices) BY <1>2, <1>6, <1>5, BackedLonger DEF Longer
    <3>4. G.promised \subseteq notices.seen /\ G.told <= through
      BY <1>2, <1>3, <1>6, <2>2 DEF NoticesInv, MemoryGood
    <3>5. n \in NoticeRecord /\ BackedIn(G, n) /\ n.seen = notices.seen /\ n.acked = through
      BY <1>2, <1>3, <1>6, <2>2, <3>2, <1>5, NoticesAssumption, <3>4, PassedGood DEF BackedIn, Backed, Covered,
        Orders
    <3>6. marker \in {"none", "set", "torn"} BY DEF NoticesInv, NoticesType
    <3> HIDE DEF n, marker
    <3> QED BY <3>1, <3>4, <3>5, <3>6, RenamedGood
  <2> QED BY <2>1, <2>2
<1>9. notices' = load(sidecar') /\ replyJob' = NoReply /\ UNCHANGED shown BY DEF NoticesRestart
<1>10. MemoryGood(G, notices') /\ (notices'.invalid => sidecar'.marker = "torn") BY <1>6, <1>8, <1>9, LoadedGood
<1>11. /\ replyJob' \in [items : SUBSET Item, orders : SUBSET Pair, attempt : Nat]
       /\ replyJob'.orders = {}
  BY <1>9 DEF NoReply
<1>12. NoticesType' BY <1>2, <1>4, <1>6, <1>8, <1>9, <1>10, <1>11 DEF NoticesType, FileGood, MemoryGood
<1> QED BY <1>4, <1>8, <1>10, <1>11, <1>12 DEF NoticesInv

LEMMA NoticesStep == ASSUME NoticesInv, [NoticesNext]_noticeVars PROVE NoticesInv'
  BY IssueKeeps, IssueAgainKeeps, MatchKeeps, QuietNoticesKeep, AcknowledgeKeeps, RepliesKeep, ReconcileKeeps,
    NoticesRestartKeeps DEF NoticesNext

LEMMA NoticesAreSound == ASSUME NoticesInv PROVE NoticesSound
  BY DEF NoticesInv, MemoryGood, BackedIn, Backed, Covered, NoticesType, NoticeRecord, HistRecord, NoticesSound,
    Answered

(* A question leaves the list only for a reason, what was reported as saved *)
(* survives restarts, and a file that the daemon wrote can be opened.       *)
THEOREM QuestionsAreKept == NoticesSpec => []NoticesSound
  BY NoticesInitInv, NoticesStep, NoticesAreSound, PTL DEF NoticesSpec

-----------------------------------------------------------------------------
(* Capacity retries: at most three resumes follow a prompt, because a chain *)
(* that could send another one counts them all, and only a turn that was    *)
(* not a resume starts a chain.                                             *)

Reasons ==
    {"none", "completed", "other_error", "disabled", "agent_identity_changed", "binding_ambiguous",
     "dispatch_rejected", "delivery_unknown", "session_rollover_after_send", "session_start",
     "viewport_changed", "attempt_limit", "not_ready"}
Prompters == {"person", "api", "resume"}
TurnRecord ==
    [no : Runs, by : Prompters, outcome : {"pending", "capacity", "error", "success", "gone"}, told : BOOLEAN]
PaneRecord == [life : {"idle", "running", "overload"}, run : Runs, agent : Nat]
ChainRecord ==
    [live : BOOLEAN, run : Runs, agent : Nat, attempts : 0..Attempts, due : BOOLEAN, frame : Nat,
     pending : BOOLEAN, reason : Reasons, root : Prompters \cup {"none"}]
CapType ==
    /\ turn \in TurnRecord
    /\ paneRec \in PaneRecord
    /\ locators \in [Runs -> {"none", "eligible", "bound"}]
    /\ chain \in ChainRecord
    /\ codex \in Nat /\ resumes \in Nat /\ stirred \in Nat

(* What the daemon has seen is not ahead of Codex.                          *)
DaemonBehind ==
    /\ paneRec.run <= turn.no /\ chain.run <= turn.no
    /\ turn.no = 0 => turn.told
    /\ paneRec.run = turn.no => turn.told
    /\ \A r \in Runs : locators[r] = "eligible" => r <= turn.no
    /\ pasted => turn.told

(* A chain that may send has counted every resume since the last prompt.    *)
ChainCounts ==
    /\ resumes <= Attempts
    /\ chain.live /\ chain.reason = "none" /\ (chain.run = turn.no \/ chain.pending)
          => resumes <= chain.attempts
    /\ chain.due => chain.attempts < Attempts /\ chain.frame # 0
    /\ locators[turn.no] = "eligible" /\ ~chain.live => resumes = 0
    /\ ~turn.told /\ turn.by # "resume" => resumes = 0

(* While a paste lies in the pane nothing may send a second one.            *)
OnePaste ==
    pasted => \/ chain.live /\ (chain.reason # "none" \/ chain.pending)
              \/ ~chain.live /\ \A r \in Runs : locators[r] # "eligible"

CapInv == CapType /\ DaemonBehind /\ ChainCounts /\ OnePaste

LEMMA CapFields ==
    ASSUME CapType
    PROVE  /\ MaxPrompts \in Nat /\ Runs \subseteq Nat
           /\ turn.no \in Runs /\ paneRec.run \in Runs /\ chain.run \in Runs
           /\ turn.no \in Nat /\ paneRec.run \in Nat /\ chain.run \in Nat
           /\ chain.attempts \in 0..Attempts /\ chain.attempts \in Nat /\ chain.frame \in Nat
           /\ paneRec.agent \in Nat /\ chain.agent \in Nat
  BY CapacityRetryAssumption DEF CapType, TurnRecord, PaneRecord, ChainRecord, Runs, Attempts

LEMMA CapInitInv == ASSUME CapacityRetryAssumption, CapInit PROVE CapInv
  BY DEF CapacityRetryAssumption, CapInit, CapInv, CapType, DaemonBehind, ChainCounts, OnePaste, ChainRecord,
    TurnRecord, PaneRecord, Prompters, Reasons, NoChain, Runs, Attempts

LEMMA PromptKeeps ==
    ASSUME CapInv, NEW by \in {"person", "api"}, Prompt(by) PROVE CapInv'
<1>2. CapType' BY CapacityRetryAssumption DEF Prompt, CapInv, CapType, TurnRecord, Prompters, Runs
<1>3. turn'.no = turn.no + 1 /\ turn'.no \in Nat /\ turn.no \in Nat /\ ~turn'.told /\ ~pasted'
  BY CapacityRetryAssumption DEF Prompt, CapInv, CapType, TurnRecord, Prompters, Runs
<1>5. ChainCounts' BY <1>3 DEF Prompt, CapInv, ChainCounts, CapType, Runs, ChainRecord, Attempts
<1> QED BY <1>2, <1>3, CapFields, <1>5 DEF CapInv, OnePaste, Prompt, DaemonBehind

LEMMA TakePasteKeeps == ASSUME CapInv, TakePaste PROVE CapInv'
<1>1. turn' \in TurnRecord BY CapacityRetryAssumption DEF TakePaste, CapInv, CapType, TurnRecord, Prompters, Runs
<1>2. CapType' BY <1>1 DEF TakePaste, CapInv, CapType
<1>3. /\ turn'.no = turn.no + 1 /\ turn'.no \in Nat /\ turn.no \in Nat /\ ~turn'.told /\ ~pasted'
      /\ turn'.by = "resume"
  BY CapacityRetryAssumption DEF TakePaste, CapInv, CapType, TurnRecord, Prompters, Runs
<1>6. ChainCounts'
  BY <1>3, <1>1, <1>2, CapFields DEF TakePaste, CapInv, ChainCounts, DaemonBehind, CapType, TurnRecord, Runs
<1> QED BY <1>2, <1>3, CapFields, <1>6 DEF CapInv, OnePaste, TakePaste, DaemonBehind

LEMMA TurnEndsKeeps == ASSUME CapInv, TurnEnds PROVE CapInv'
  BY DEF TurnEnds, CapInv, CapType, TurnRecord, DaemonBehind, ChainCounts, OnePaste

LEMMA DisturbKeeps == ASSUME CapInv, Disturb PROVE CapInv'
  BY DEF Disturb, Stir, CapInv, CapType, DaemonBehind, ChainCounts, OnePaste

(* A chain that is stopped keeps its count and its run.                     *)
LEMMA StoppedChain ==
    ASSUME NEW c \in ChainRecord, NEW why \in Reasons
    PROVE  LET s == Stopped(c, why) IN
           /\ s \in ChainRecord /\ s.run = c.run /\ s.attempts = c.attempts /\ s.live = c.live
           /\ s.pending = c.pending /\ s.frame = c.frame /\ s.agent = c.agent
           /\ s.due => c.due
           /\ c.live => s.reason = why /\ ~s.due
           /\ ~c.live => s = c
<1>1. CASE c.live
  <2> DEFINE s == [c EXCEPT !.reason = why, !.due = FALSE]
  <2>1. /\ s \in ChainRecord /\ s.run = c.run /\ s.attempts = c.attempts /\ s.live = c.live
        /\ s.pending = c.pending /\ s.frame = c.frame /\ s.agent = c.agent /\ s.reason = why /\ ~s.due
    BY DEF ChainRecord, Reasons
  <2>2. Stopped(c, why) = s BY <1>1 DEF Stopped
  <2> QED BY <1>1, <2>1, <2>2
<1>2. CASE ~c.live BY <1>2 DEF Stopped
<1> QED BY <1>1, <1>2

LEMMA StopKeeps ==
    ASSUME CapInv, NEW why \in Reasons, why # "none", chain' = Stopped(chain, why),
           UNCHANGED <<turn, locators, pasted, resumes>>,
           paneRec' \in PaneRecord, paneRec'.run = paneRec.run,
           codex' \in Nat, stirred' \in Nat
    PROVE  CapInv'
  BY StoppedChain DEF CapInv, CapType, DaemonBehind, ChainCounts, OnePaste

LEMMA NewSessionKeeps ==
    ASSUME CapInv, NEW reaches \in BOOLEAN, NewSession(reaches) PROVE CapInv'
<1>1. /\ turn' \in TurnRecord /\ turn'.no = turn.no /\ turn'.told = turn.told /\ turn'.by = turn.by
      /\ codex' \in Nat /\ stirred' \in Nat
  <2>1. turn' = [turn EXCEPT !.outcome = "gone"] /\ codex' = codex + 1 /\ stirred' = stirred + 1
    BY DEF NewSession, Stir
  <2>2. turn \in TurnRecord /\ codex \in Nat /\ stirred \in Nat BY DEF CapInv, CapType
  <2> QED BY <2>1, <2>2 DEF TurnRecord
<1>2. CASE ~reaches BY <1>1, <1>2 DEF NewSession, CapInv, CapType, DaemonBehind, ChainCounts, OnePaste
<1>3. CASE reaches
  <2> DEFINE why == IF chain.pending THEN "session_rollover_after_send" ELSE "session_start"
  <2>1. why \in Reasons /\ why # "none" BY DEF Reasons
  <2>2. paneRec' \in PaneRecord /\ paneRec'.run = paneRec.run
    BY <1>1, <1>3 DEF NewSession, CapInv, CapType, PaneRecord
  <2>3. chain' = Stopped(chain, why) /\ ~pasted' /\ UNCHANGED <<locators, resumes>> BY <1>3 DEF NewSession
  <2> HIDE DEF why
  <2>4. CapType' BY <1>1, <2>1, <2>2, <2>3, StoppedChain DEF CapInv, CapType
  <2>5. DaemonBehind' /\ ChainCounts' /\ OnePaste'
    BY <1>1, <2>1, <2>2, <2>3, StoppedChain DEF CapInv, CapType, DaemonBehind, ChainCounts, OnePaste
  <2> QED BY <2>4, <2>5 DEF CapInv
<1> QED BY <1>2, <1>3

(* A prompt's hook: only a resume that was waited for carries a chain on.   *)
LEMMA ObserveKeeps ==
    ASSUME CapInv, NEW reaches \in BOOLEAN, observe(reaches) PROVE CapInv'
<1>1. /\ turn' \in TurnRecord /\ turn'.no = turn.no /\ turn'.told /\ turn'.by = turn.by /\ ~turn.told
      /\ ~pasted /\ ~pasted' /\ codex' = codex /\ resumes' = resumes /\ turn.no > 0
  BY DEF observe, CapInv, CapType, TurnRecord, DaemonBehind
<1>2. CASE UNCHANGED <<paneRec, chain, resume, locators>> /\ Stir
  BY <1>2, <1>1 DEF Stir, CapInv, CapType, ChainCounts, DaemonBehind, OnePaste
<1> DEFINE automatic == turn.by = "resume"
           mine == chain.live /\ chain.reason = "none" /\ chain.pending /\ chain.agent = codex /\ resume = "started"
           next == CASE ~automatic -> NoChain
                     [] automatic /\ mine -> [chain EXCEPT !.run = turn.no, !.pending = FALSE, !.due = FALSE, !.frame = 0]
                     [] OTHER -> [Stopped(chain, "session_rollover_after_send") EXCEPT
                                  !.reason = IF chain.reason # "none" \/ ~chain.live THEN chain.reason ELSE @]
<1>3. CASE ~(UNCHANGED <<paneRec, chain, resume, locators>> /\ Stir)
  <2>1. /\ paneRec' = [life |-> "running", run |-> turn.no, agent |-> codex] /\ chain' = next
        /\ stirred' = stirred
    BY <1>3 DEF observe
  <2>2. PICK b \in {"none", IF automatic THEN "bound" ELSE "eligible"} :
           locators' = [r \in Runs |-> IF r = turn.no THEN b
                               ELSE IF next.live /\ next.reason = "none" /\ r = next.run THEN locators[r]
                               ELSE "none"]
    BY <1>3 DEF observe
  <2>3. /\ locators' \in [Runs -> {"none", "eligible", "bound"}]
        /\ \A r \in Runs : locators'[r] = "eligible" => (r = turn.no /\ ~automatic) \/ locators[r] = "eligible"
        /\ automatic => locators'[turn.no] # "eligible"
    <3>2. locators \in [Runs -> {"none", "eligible", "bound"}] /\ turn.no \in Runs BY CapFields DEF CapInv, CapType
    <3>3. \A r \in Runs : (r = turn.no => locators'[r] = b)
                          /\ (r # turn.no => locators'[r] = locators[r] \/ locators'[r] = "none")
      <4> HIDE DEF next
      <4> QED BY <2>2
    <3>4. DOMAIN locators' = Runs BY <2>2
    <3>5. locators' = [r \in Runs |-> locators'[r]]
      <4> HIDE DEF next
      <4> QED BY <2>2
    <3> HIDE DEF next
    <3>6. locators' \in [Runs -> {"none", "eligible", "bound"}] BY <2>2, <3>2, <3>3, <3>5
    <3> QED BY <2>2, <3>2, <3>3, <3>6
  <2>4. paneRec' \in PaneRecord /\ paneRec'.run = turn.no BY <2>1, CapFields DEF CapInv, CapType, PaneRecord
  <2>5. CASE ~automatic
    <3>2. chain' \in ChainRecord /\ ~chain'.live /\ chain'.run = 0 /\ ~chain'.due
      BY <2>1, <2>5, CapFields DEF NoChain, ChainRecord, Reasons, Runs, CapInv, Attempts
    <3>3. resumes = 0 BY <1>1, <2>5 DEF CapInv, ChainCounts
    <3> HIDE DEF next, automatic
    <3>4. CapType' BY <1>1, <2>1, <2>3, <2>4, <3>2 DEF CapInv, CapType
    <3> QED
      BY <1>1, <2>3, <2>4, <3>2, <3>3, <3>4, CapFields DEF CapInv, DaemonBehind, ChainCounts, OnePaste, Attempts
  <2>6. CASE automatic /\ mine
    <3>2. /\ chain' \in ChainRecord /\ chain'.live /\ chain'.run = turn.no /\ ~chain'.due
          /\ chain'.attempts = chain.attempts
      BY <2>1, <2>6, CapFields DEF ChainRecord, CapInv, CapType
    <3>3. resumes <= chain.attempts BY <2>6 DEF CapInv, ChainCounts
    <3> HIDE DEF next, mine, automatic
    <3>4. CapType' BY <1>1, <2>1, <2>3, <2>4, <3>2 DEF CapInv, CapType
    <3>5. locators'[turn.no] # "eligible" /\ turn'.no = turn.no BY <1>1, <2>3, <2>6
    <3> QED BY <1>1, <2>3, <2>4, <3>2, <3>3, <3>4, <3>5, CapFields DEF CapInv, DaemonBehind, ChainCounts, OnePaste
  <2>7. CASE automatic /\ ~mine
    <3> DEFINE s == Stopped(chain, "session_rollover_after_send")
    <3> DEFINE v == IF chain.reason # "none" \/ ~chain.live THEN chain.reason ELSE s.reason
    <3>1. chain' = [s EXCEPT !.reason = v] BY <2>1, <2>7
    <3>2. /\ s \in ChainRecord /\ s.run = chain.run /\ s.attempts = chain.attempts /\ s.live = chain.live
          /\ s.pending = chain.pending /\ s.frame = chain.frame /\ (s.due => chain.due)
          /\ (s.live => chain.live) /\ (chain.live => s.reason # "none")
      BY StoppedChain DEF Reasons, CapInv, CapType
    <3>8. v \in Reasons /\ (chain.live => v # "none") BY <3>2 DEF ChainRecord, CapInv, CapType
    <3> HIDE DEF s, v, next, mine
    <3>4. /\ chain' \in ChainRecord /\ chain'.run = chain.run /\ chain'.attempts = chain.attempts
          /\ chain'.frame = chain.frame /\ (chain'.due => chain.due)
          /\ (chain'.live => chain'.reason # "none")
      BY <3>1, <3>2, <3>8 DEF ChainRecord
    <3>5. CapType' BY <1>1, <2>1, <2>3, <2>4, <3>4 DEF CapInv, CapType
    <3>6. locators'[turn.no] # "eligible" /\ turn'.no = turn.no /\ turn'.by = "resume" BY <1>1, <2>3, <2>7
    <3> HIDE DEF automatic
    <3>9. DaemonBehind' BY <1>1, <2>4, <3>4, <3>5, <3>6, <2>3, CapFields DEF CapInv, DaemonBehind
    <3> QED BY <3>5, <3>9, <1>1, <3>4, <3>6 DEF CapInv, ChainCounts, OnePaste
  <2> QED BY <2>5, <2>6, <2>7
<1> QED BY <1>2, <1>3

LEMMA StopHookKeeps == ASSUME CapInv, StopHook PROVE CapInv'
  BY DEF StopHook, CapInv, CapType, PaneRecord, DaemonBehind, ChainCounts, OnePaste

LEMMA SampleKeeps == ASSUME CapInv, Sample PROVE CapInv'
  BY DEF Sample, CapInv, CapType, DaemonBehind, ChainCounts, OnePaste

LEMMA DeadlineKeeps == ASSUME CapInv, ResumeDeadline PROVE CapInv'
  BY DEF ResumeDeadline, CapInv, CapType, DaemonBehind, ChainCounts, OnePaste

LEMMA RestartKeeps == ASSUME CapInv, RestartDaemon PROVE CapInv'
  BY CapFields DEF RestartDaemon, Stir, NoChain, ChainRecord, Reasons, Runs, CapInv, CapType, Attempts,
    DaemonBehind, ChainCounts, OnePaste

(* What a look at a sample may make of the chain: it goes on, is stopped or *)
(* waits; a new one starts for a run whose prompt was no resume.            *)
Grows(c, d) ==
    /\ d \in ChainRecord
    /\ d.due => d.attempts < Attempts /\ d.frame # 0
    /\ c.live => /\ d.live /\ d.run = c.run /\ d.attempts = c.attempts
                 /\ (d.pending <=> c.pending) /\ (d.reason = "none" => c.reason = "none")
    /\ ~c.live => \/ ~d.live /\ d.run = c.run
                  \/ /\ d.live /\ locators[d.run] = "eligible" /\ d.run = paneRec.run
                     /\ d.attempts = 0 /\ ~d.pending

LEMMA GrowsKeeps ==
    ASSUME CapInv, Grows(chain, chain'), UNCHANGED <<turn, pasted, resumes, codex, stirred>>,
           paneRec' \in PaneRecord, paneRec'.run = paneRec.run,
           locators' \in [Runs -> {"none", "eligible", "bound"}],
           \A r \in Runs : locators'[r] = "eligible" <=> locators[r] = "eligible"
    PROVE  CapInv'
  BY CapFields DEF Grows, CapInv, CapType, DaemonBehind, ChainCounts, OnePaste

LEMMA FailGrows ==
    ASSUME CapInv, NEW c \in ChainRecord, Grows(chain, c), c.live <=> chain.live, ~chain.live => c = chain,
           NEW now \in Nat, NEW supported \in BOOLEAN
    PROVE  Grows(chain, Fail(c, now, supported))
<1> DEFINE new == [NoChain EXCEPT !.live = TRUE, !.run = paneRec.run, !.agent = paneRec.agent, !.root = turn.by]
           own == IF ~c.live /\ locators[paneRec.run] = "eligible" THEN new ELSE c
           r == Fail(c, now, supported)
<1>1. /\ new \in ChainRecord /\ new.live /\ new.run = paneRec.run /\ new.attempts = 0 /\ ~new.pending
      /\ ~new.due /\ new.reason = "none"
  <2>1. NoChain \in ChainRecord /\ NoChain.attempts = 0 /\ ~NoChain.pending /\ ~NoChain.due /\ NoChain.reason = "none"
    BY CapFields DEF CapInv, NoChain, ChainRecord, Reasons, Attempts, Runs
  <2>2. paneRec.run \in Runs /\ paneRec.agent \in Nat /\ turn.by \in Prompters
    BY CapFields DEF CapInv, CapType, TurnRecord
  <2> QED BY <2>1, <2>2 DEF ChainRecord
<1>2. own \in ChainRecord /\ Grows(chain, own)
  <2> HIDE DEF new
  <2>1. CASE ~c.live /\ locators[paneRec.run] = "eligible" BY <1>1, <2>1 DEF Grows
  <2>2. CASE ~(~c.live /\ locators[paneRec.run] = "eligible") BY <2>2
  <2> QED BY <2>1, <2>2
<1>3. r = IF ~own.live \/ own.reason # "none" \/ own.run # paneRec.run THEN own
          ELSE IF own.attempts >= Attempts THEN [own EXCEPT !.reason = "attempt_limit"]
          ELSE IF ~supported \/ now = 0 THEN [own EXCEPT !.reason = "not_ready"]
          ELSE [own EXCEPT !.frame = now, !.due = TRUE]
  BY DEF Fail
<1>4. Grows(chain, r)
  <2> HIDE DEF own, r, new
  <2>1. own.attempts \in Nat BY <1>2 DEF ChainRecord, Attempts
  <2>2. CASE r = own BY <1>2, <2>2
  <2>3. CASE own.reason = "none" /\ r = [own EXCEPT !.reason = "attempt_limit"]
    BY <1>2, <2>3 DEF ChainRecord, Reasons, Grows
  <2>4. CASE own.reason = "none" /\ r = [own EXCEPT !.reason = "not_ready"]
    BY <1>2, <2>4 DEF ChainRecord, Reasons, Grows
  <2>5. CASE own.attempts < Attempts /\ now # 0 /\ r = [own EXCEPT !.frame = now, !.due = TRUE]
    BY <1>2, <2>5 DEF ChainRecord, Grows
  <2> QED BY <1>3, <2>1, <2>2, <2>3, <2>4, <2>5 DEF Attempts
<1> QED BY <1>4

LEMMA StopGrows ==
    ASSUME CapInv, NEW why \in Reasons, why # "none"
    PROVE  Grows(chain, chain) /\ Grows(chain, Stopped(chain, why))
  BY StoppedChain DEF Grows, CapInv, CapType, ChainCounts

LEMMA DetectKeeps == ASSUME CapInv, detect_with PROVE CapInv'
<1> DEFINE c == IF Waiting /\ chain.frame # seen.frame THEN Stopped(chain, "viewport_changed") ELSE chain
<1>1. /\ c \in ChainRecord /\ Grows(chain, c) /\ (c.live <=> chain.live) /\ (~chain.live => c = chain)
  BY StopGrows, StoppedChain DEF Reasons, CapInv, CapType
<1>3. \A why \in {"completed", "other_error"} : Grows(chain, Stopped(c, why))
  <2> HIDE DEF c
  <2> QED BY <1>1, StoppedChain DEF Grows, Reasons
<1>5. \A supported \in BOOLEAN : Grows(chain, Fail(c, frame, supported))
  <2> HIDE DEF c
  <2> QED BY <1>1, CapFields, FailGrows DEF frame, CapInv
<1>6. Grows(chain, chain')
  <2> HIDE DEF Grows, Fail, frame
  <2> DEFINE outcome == read_terminal(paneRec.run)
  <2>1. \/ chain' = c
        \/ chain' = Stopped(c, IF outcome = "success" THEN "completed" ELSE "other_error")
        \/ \E supported \in BOOLEAN : chain' = Fail(c, frame, supported)
    BY DEF detect_with
  <2>2. (IF outcome = "success" THEN "completed" ELSE "other_error") \in {"completed", "other_error"} OBVIOUS
  <2> HIDE DEF c, outcome
  <2> QED BY <1>1, <1>3, <1>5, <2>1, <2>2
<1>8. /\ locators' \in [Runs -> {"none", "eligible", "bound"}]
      /\ \A r \in Runs : locators'[r] = "eligible" <=> locators[r] = "eligible"
  BY CapFields DEF detect_with, CapInv, CapType
<1> QED BY <1>6, <1>8, GrowsKeeps DEF detect_with, CapInv, CapType, PaneRecord

(* A tick: what is sent is counted before anything else can be sent.        *)
LEMMA SendKeeps ==
    ASSUME CapInv, chain.live, chain.reason = "none", current(chain), ~chain.pending, chain.due, SendResume,
           UNCHANGED <<turn, codex, paneRec, locators, stirred>>
    PROVE  /\ CapInv'
           /\ resumes' > resumes => ~pasted /\ fencedAt # chain.agent /\ verify
<1>1. /\ chain.attempts < Attempts /\ chain.frame # 0 /\ ~pasted /\ chain \in ChainRecord
      /\ chain.attempts + 1 \in 0..Attempts
  BY CapFields DEF CapInv, CapType, ChainCounts, OnePaste, Attempts
<1>2. CASE chain' = Stopped(chain, "binding_ambiguous") /\ UNCHANGED <<resume, fencedAt, pasted, resumes>>
  BY <1>2, StopKeeps, CapFields DEF Reasons, CapInv, CapType
<1>3. CASE /\ chain' = [Stopped(chain, "dispatch_rejected") EXCEPT !.attempts = @ + 1, !.pending = TRUE]
           /\ UNCHANGED <<resume, fencedAt, pasted, resumes>>
  <2>1. /\ chain' \in ChainRecord /\ chain'.live /\ chain'.reason = "dispatch_rejected" /\ ~chain'.due
        /\ chain'.run = chain.run
    BY <1>1, <1>3 DEF Stopped, ChainRecord, Reasons
  <2> QED BY <1>1, <1>3, <2>1, CapFields DEF CapInv, CapType, DaemonBehind, ChainCounts, OnePaste
<1>4. ASSUME verify, fencedAt # chain.agent, resumes' = resumes + 1,
             pasted' \in BOOLEAN, chain' \in ChainRecord, chain'.live, ~chain'.due, chain'.pending, chain'.run = chain.run,
             chain'.attempts = chain.attempts + 1
      PROVE  CapInv' /\ (resumes' > resumes => ~pasted /\ fencedAt # chain.agent /\ verify)
  BY <1>4, <1>1, CapFields DEF verify, read_terminal, CapInv, CapType, ChainCounts, DaemonBehind, current, OnePaste,
    Attempts
<1>5. CASE /\ verify /\ fencedAt # chain.agent
           /\ chain' = [chain EXCEPT !.attempts = @ + 1, !.due = FALSE, !.pending = TRUE]
           /\ resume' = "started" /\ pasted' = TRUE /\ resumes' = resumes + 1
  BY <1>1, <1>5, <1>4 DEF ChainRecord
<1>6. CASE /\ verify /\ fencedAt # chain.agent
           /\ chain' = [Stopped(chain, "delivery_unknown") EXCEPT !.attempts = @ + 1, !.pending = TRUE]
           /\ resume' = "unknown" /\ pasted' \in BOOLEAN /\ resumes' = resumes + 1
  BY <1>1, <1>6, <1>4 DEF Stopped, ChainRecord, Reasons
<1> QED BY <1>2, <1>3, <1>5, <1>6 DEF SendResume

LEMMA TickKeeps == ASSUME CapInv, tick_with PROVE CapInv'
  BY SendKeeps, StopKeeps DEF tick_with, CapInv, CapType, Reasons

LEMMA CapStep == ASSUME CapInv, [CapNext]_capVars PROVE CapInv'
<1>1. CASE UNCHANGED capVars BY <1>1 DEF capVars, CapInv, CapType, DaemonBehind, ChainCounts, OnePaste
<1>2. CASE CapNext
  BY <1>2, PromptKeeps, TakePasteKeeps, TurnEndsKeeps, DisturbKeeps, NewSessionKeeps, ObserveKeeps, StopHookKeeps,
    SampleKeeps, DetectKeeps, TickKeeps, DeadlineKeeps, RestartKeeps DEF CapNext
<1> QED BY <1>1, <1>2

(* At most three resumes follow a prompt that a person or a program gave.   *)
THEOREM RetriesAreBounded == CapSpec => []ResumesBounded
<1>1. CapInv => ResumesBounded BY DEF CapInv, ChainCounts, ResumesBounded
<1>2. CapInit => CapInv BY CapInitInv, CapacityRetryAssumption
<1> QED BY <1>1, <1>2, CapStep, PTL DEF CapSpec

(* What a step that sends a resume found.                                   *)
ResumeFound ==
    resumes' > resumes
       => /\ turn.outcome = "capacity" /\ screen = "failure" /\ chain.run = turn.no /\ codex = paneRec.agent
          /\ ~touched /\ ~notice /\ fencedAt # codex /\ ~pasted

LEMMA ResumeFoundOnSteps == ASSUME CapInv, CapNext PROVE ResumeFound
<1>2. CASE resumes' = resumes \/ resumes' = 0 BY <1>2 DEF ResumeFound, CapInv, CapType
<1>3. CASE tick_with /\ ~(resumes' = resumes \/ resumes' = 0)
  BY <1>3, SendKeeps DEF tick_with, CapInv, ChainCounts, ResumeFound, verify, read_terminal, frame, current
<1> QED
  BY <1>2, <1>3 DEF CapNext, Prompt, TakePaste, TurnEnds, Disturb, NewSession, observe, StopHook, Sample,
    detect_with, ResumeDeadline, RestartDaemon

(* A resume answers the failed turn the pane still shows, in the session it *)
(* failed in, untouched since, and never over text that lies in the pane.   *)
THEOREM ResumesAnswerTheFailure == CapSpec => ResumesOnlyTheFailedTurn
<1>1. CapInv /\ [CapNext]_capVars => [ResumeFound]_capVars BY ResumeFoundOnSteps
<1>2. CapInit => CapInv BY CapInitInv, CapacityRetryAssumption
<1> QED BY <1>1, <1>2, CapStep, PTL DEF CapSpec, ResumesOnlyTheFailedTurn, ResumeFound

-----------------------------------------------------------------------------
(* Hook delivery: a frame is written whole at most once, after the lineage  *)
(* was proved for the pane it names, so it is taken at most once.           *)

ProcStates ==
    {"off", "capture", "context", "owned", "build", "write", "read", "ok", "nothing", "dropped", "error"}
EventNames ==
    {"none", "invalid", "session", "begin", "notifications", "tool_result", "activity", "wait", "fail", "stop",
     "ended", "progress", "activity_progress", "report", "question_session"}
ObservationNames == {"none", "SessionStart", "UserPromptSubmit", "Activity", "Waiting", "Stop"}
ProcRecord ==
    [at : ProcStates, load : Payloads \cup {NoLoad}, chain : {"none", "embedded", "shared", "detached"},
     pane : Nat, agent : Nat, owner : [pane : Nat, verified : BOOLEAN], aim : Nat, conn : Nat,
     event : EventNames, obs : ObservationNames]
FrameStates == {"none", "torn", "full", "answered", "refused", "closed"}
TakenRecord == [times : Nat, pane : Nat, event : EventNames, obs : ObservationNames]

(* Whether a whole frame of this process is or was on a connection.         *)
Sent(f) == f \in {"full", "answered", "refused", "closed"}

(* One process, its connection and what was taken from it.                  *)
ProcGood(p, f, t) ==
    /\ Sent(f) => p.at \in {"read", "ok", "error"}
    /\ p.at \in {"read", "ok"} => Sent(f)
    /\ f = "full" => t.times = 0
    /\ f \in {"answered", "refused"} => t.times = 1
    /\ t.times > 0 => t.times = 1 /\ Sent(f) /\ t.pane = p.aim /\ t.event = p.event /\ t.obs = p.obs
    /\ p.at = "ok" => t.times = 1
    /\ p.owner.verified => p.owner.pane = p.pane
    /\ p.load.provider = "codex" /\ (p.at \in {"build", "write"} \/ Sent(f))
          => p.aim = p.pane /\ p.chain = "embedded"
    /\ p.load.origin # "parent" /\ (p.at = "write" \/ Sent(f))
          => p.event \in {"progress", "question_session"} /\ p.obs = "none"

HookType ==
    /\ paneGen \in Nat /\ agentGen \in Nat
    /\ serving \in [id : Nat, up : BOOLEAN, mode : {"enabled", "disabled"}]
    /\ hookProc \in [HookProc -> ProcRecord]
    /\ hookFrame \in [HookProc -> FrameStates]
    /\ taken \in [HookProc -> TakenRecord]

HookGood == \A h \in HookProc : ProcGood(hookProc[h], hookFrame[h], taken[h])
HookInv == HookType /\ HookGood

LEMMA EventsNamed ==
    ASSUME NEW p \in Payloads
    PROVE  typed_event(p) \in EventNames /\ observation_from_json(p) \in ObservationNames
  BY DEF typed_event, codex_typed_event_from_input, codex_aux_event_from_input, codex_typed_event_from_json,
    claude_typed_event_from_input, claude_typed_event_from_json, claude_stop_failure_event, generic_typed_event,
    observation_from_json, EventNames, ObservationNames

LEMMA PayloadFields ==
    ASSUME NEW p \in Payloads
    PROVE  /\ p.provider \in {"codex", "claude", "emit"} /\ p.event \in EventsOf(p.provider)
           /\ p.origin \in Origins(p.provider)
  BY DEF Payloads

(* A subagent's event is progress, and carries no observation.              *)
LEMMA OthersProgressOnly ==
    ASSUME NEW p \in Payloads, p.origin # "parent", typed_event(p) \notin {"invalid", "none"},
           ~(p.provider = "codex" /\ p.valid /\ p.event = "SessionStart" /\ p.detail = "other")
    PROVE  typed_event(p) = "progress" /\ observation_from_json(p) = "none"
<1>1. CASE p.provider = "codex"
  BY <1>1, PayloadFields DEF EventsOf, typed_event, codex_typed_event_from_input, codex_aux_event_from_input,
    codex_typed_event_from_json, is_guarded_codex_lifecycle_event, CodexEvents, observation_from_json
<1>2. CASE p.provider = "claude"
  BY <1>2, PayloadFields DEF Origins, EventsOf, typed_event, claude_typed_event_from_input,
    claude_typed_event_from_json, claude_progress_event_from_input, is_guarded_claude_lifecycle_event,
    ClaudeHookEvents, CodexEvents, observation_from_json
<1>3. CASE p.provider = "emit" BY <1>3, PayloadFields DEF Origins
<1> QED BY <1>1, <1>2, <1>3, PayloadFields

LEMMA HookInitInv == ASSUME HookInit PROVE HookInv
  BY DEF HookInit, HookInv, HookType, HookGood, ProcGood, Sent, NewProc, NoLoad, NoOwner, NothingTaken, ProcRecord,
    ProcStates, EventNames, ObservationNames, FrameStates, TakenRecord

(* Only one process moves.                                                  *)
LEMMA ProcMoves ==
    ASSUME HookInv, NEW h \in HookProc, NEW p \in ProcRecord, NEW f \in FrameStates,
           hookProc' = [hookProc EXCEPT ![h] = p], hookFrame' = [hookFrame EXCEPT ![h] = f],
           UNCHANGED <<paneGen, agentGen, serving, taken>>, ProcGood(p, f, taken[h])
    PROVE  HookInv'
  BY DEF HookInv, HookType, HookGood

LEMMA StartHookKeeps ==
    ASSUME HookInv, NEW h \in HookProc, NEW pay \in Payloads, NEW chain_ \in {"embedded", "shared", "detached"},
           StartHook(h, pay, chain_)
    PROVE  HookInv'
<1> DEFINE p == [NewProc EXCEPT
           !.at = IF pay.provider = "codex" THEN "capture" ELSE "context",
           !.load = pay, !.chain = chain_, !.pane = paneGen, !.agent = agentGen]
<1>1. hookProc' = [hookProc EXCEPT ![h] = p] /\ hookFrame' = [hookFrame EXCEPT ![h] = hookFrame[h]]
  BY DEF StartHook, HookInv, HookType
<1>2. p \in ProcRecord /\ p.at \in {"capture", "context"} /\ ~p.owner.verified
  BY DEF NewProc, NoOwner, ProcRecord, ProcStates, EventNames, ObservationNames, HookInv, HookType
<1> HIDE DEF p
<1>3. ProcGood(p, hookFrame[h], taken[h])
  BY <1>2 DEF HookInv, HookType, HookGood, StartHook, At_, TakenRecord, ProcGood, Sent
<1> QED BY <1>1, <1>2, <1>3, ProcMoves DEF StartHook, HookInv, HookType

(* The process of a hook, as a step finds it.                               *)
LEMMA ProcIs ==
    ASSUME HookInv, NEW h \in HookProc
    PROVE  /\ hookProc[h] \in ProcRecord /\ hookFrame[h] \in FrameStates /\ taken[h] \in TakenRecord
           /\ ProcGood(hookProc[h], hookFrame[h], taken[h])
           /\ hookFrame = [hookFrame EXCEPT ![h] = hookFrame[h]]
           /\ taken[h].times \in Nat
  BY DEF HookInv, HookType, HookGood, TakenRecord

LEMMA CaptureKeeps == ASSUME HookInv, NEW h \in HookProc, capture(h) PROVE HookInv'
<1> DEFINE p == [hookProc[h] EXCEPT !.owner = [pane |-> paneGen, verified |-> Lineage(h)],
                                   !.at = IF Lineage(h) THEN "context" ELSE "dropped"]
<1>1. hookProc' = [hookProc EXCEPT ![h] = p] /\ hookFrame' = [hookFrame EXCEPT ![h] = hookFrame[h]]
  BY ProcIs DEF capture
<1>2. /\ p \in ProcRecord /\ p.at \in {"context", "dropped"} /\ (p.owner.verified => p.owner.pane = p.pane)
      /\ p.load = hookProc[h].load
  <2>1. /\ hookProc[h] \in ProcRecord /\ paneGen \in Nat /\ Lineage(h) \in BOOLEAN
        /\ (Lineage(h) => hookProc[h].pane = paneGen)
    BY ProcIs DEF HookInv, HookType, Lineage
  <2> HIDE DEF Lineage
  <2> QED BY <2>1 DEF ProcRecord, ProcStates
<1> HIDE DEF p
<1>3. ProcGood(p, hookFrame[h], taken[h]) BY <1>2, ProcIs DEF ProcGood, Sent, capture, At_
<1> QED BY <1>1, <1>2, <1>3, ProcIs, ProcMoves DEF capture

(* An end that is told to nobody, or that follows the daemon's answer.      *)
LEMMA EndsKeeps ==
    ASSUME HookInv, NEW h \in HookProc, NEW how \in ProcStates, NEW f \in FrameStates, Ends(h, how),
           hookFrame' = [hookFrame EXCEPT ![h] = f], UNCHANGED <<paneGen, agentGen, serving, taken>>,
           \/ how = "error" /\ f \in {hookFrame[h], "none"} /\ (Sent(hookFrame[h]) => f = hookFrame[h])
           \/ how = "ok" /\ f = hookFrame[h] /\ f = "answered"
    PROVE  HookInv'
<1> DEFINE p == [hookProc[h] EXCEPT !.at = how]
<1>1. hookProc' = [hookProc EXCEPT ![h] = p] BY DEF Ends
<1>2. /\ p \in ProcRecord /\ p.at = how /\ p.load = hookProc[h].load /\ p.owner = hookProc[h].owner
      /\ p.pane = hookProc[h].pane /\ p.aim = hookProc[h].aim /\ p.chain = hookProc[h].chain
      /\ p.event = hookProc[h].event /\ p.obs = hookProc[h].obs
  BY ProcIs DEF ProcRecord
<1> HIDE DEF p
<1>3. ProcGood(p, f, taken[h]) BY <1>2, ProcIs DEF ProcGood, Sent
<1> QED BY <1>1, <1>2, <1>3, ProcMoves

LEMMA ContextKeeps == ASSUME HookInv, NEW h \in HookProc, typed_hook_context(h) PROVE HookInv'
<1>1. ~Sent(hookFrame[h]) BY ProcIs DEF ProcGood, typed_hook_context, At_
<1>2. CASE Ends(h, "error") BY <1>1, <1>2, EndsKeeps DEF typed_hook_context, FrameStates, ProcStates
<1>3. CASE ~Ends(h, "error")
  <2> DEFINE p == [hookProc[h] EXCEPT !.aim = paneGen, !.conn = serving.id,
                                     !.at = IF hookProc[h].load.provider = "codex" THEN "owned" ELSE "build"]
  <2>1. hookProc' = [hookProc EXCEPT ![h] = p] /\ hookFrame' = [hookFrame EXCEPT ![h] = "none"]
    BY <1>3, ProcIs DEF typed_hook_context
  <2>2. /\ p \in ProcRecord /\ p.load = hookProc[h].load /\ p.owner = hookProc[h].owner
        /\ p.pane = hookProc[h].pane /\ p.at = IF hookProc[h].load.provider = "codex" THEN "owned" ELSE "build"
    <3>1. hookProc[h] \in ProcRecord /\ paneGen \in Nat /\ serving.id \in Nat BY ProcIs DEF HookInv, HookType
    <3>2. PICK n, m, a : n = paneGen /\ m = serving.id
                         /\ a = IF hookProc[h].load.provider = "codex" THEN "owned" ELSE "build"
      OBVIOUS
    <3>3. n \in Nat /\ m \in Nat /\ a \in ProcStates BY <3>1, <3>2 DEF ProcStates
    <3>4. p = [hookProc[h] EXCEPT !.aim = n, !.conn = m, !.at = a] BY <3>2
    <3> QED BY <3>1, <3>2, <3>3, <3>4 DEF ProcRecord
  <2> HIDE DEF p
  <2>3. ProcGood(p, "none", taken[h]) BY <1>1, <2>2, ProcIs DEF ProcGood, Sent
  <2> QED BY <2>1, <2>2, <2>3, ProcMoves DEF typed_hook_context, FrameStates
<1> QED BY <1>2, <1>3

LEMMA RecheckKeeps == ASSUME HookInv, NEW h \in HookProc, Recheck_(h) PROVE HookInv'
<1> DEFINE p == [hookProc[h] EXCEPT !.at = IF still_owned(h) THEN "build" ELSE "dropped"]
<1>1. hookProc' = [hookProc EXCEPT ![h] = p] /\ hookFrame' = [hookFrame EXCEPT ![h] = hookFrame[h]]
  BY ProcIs DEF Recheck_
<1>2. /\ p \in ProcRecord /\ p.at = IF still_owned(h) THEN "build" ELSE "dropped"
      /\ p.load = hookProc[h].load /\ p.owner = hookProc[h].owner
      /\ p.pane = hookProc[h].pane /\ p.aim = hookProc[h].aim /\ p.chain = hookProc[h].chain
      /\ p.event = hookProc[h].event /\ p.obs = hookProc[h].obs
  BY ProcIs DEF ProcRecord, ProcStates
<1>4. hookProc[h].at = "owned" BY DEF Recheck_, At_
<1> HIDE DEF p
<1>5. ProcGood(p, hookFrame[h], taken[h])
  <2> HIDE DEF still_owned
  <2> QED BY <1>2, <1>4, ProcIs DEF ProcGood, Sent, still_owned, Lineage
<1> QED BY <1>1, <1>2, <1>5, ProcIs, ProcMoves DEF Recheck_

(* What a process that has a load knows of it.                              *)
LEMMA BuildKeeps == ASSUME HookInv, NEW h \in HookProc, run_hook_command(h) PROVE HookInv'
<1> DEFINE l == hookProc[h].load
           session == l.provider = "codex" /\ l.valid /\ l.event = "SessionStart" /\ l.detail = "other"
           event == IF session THEN "question_session" ELSE typed_event(l)
           obs == IF session THEN "none" ELSE observation_from_json(l)
           at == CASE event = "invalid" -> "error" [] event = "none" -> "nothing" [] OTHER -> "write"
           p == [hookProc[h] EXCEPT !.at = at, !.event = event, !.obs = obs]
<1>1. hookProc' = [hookProc EXCEPT ![h] = p] /\ hookFrame' = [hookFrame EXCEPT ![h] = hookFrame[h]]
  BY ProcIs DEF run_hook_command
<1>2. event \in EventNames /\ obs \in ObservationNames
  BY EventsNamed, ProcIs DEF EventNames, ObservationNames, NoLoad, typed_event, observation_from_json, ProcRecord
<1>3. event \notin {"invalid", "none"} /\ l.origin # "parent" => event \in {"progress", "question_session"} /\ obs = "none"
  BY OthersProgressOnly, ProcIs DEF NoLoad, typed_event, ProcRecord
<1>4. /\ at \in {"error", "nothing", "write"} /\ (at = "write" => event \notin {"invalid", "none"})
  <2> HIDE DEF event
  <2> QED OBVIOUS
<1> HIDE DEF event, obs, at, session
<1>5. /\ p \in ProcRecord /\ p.at = at /\ p.load = l /\ p.owner = hookProc[h].owner
      /\ p.pane = hookProc[h].pane /\ p.aim = hookProc[h].aim /\ p.chain = hookProc[h].chain
      /\ p.event = event /\ p.obs = obs
  BY <1>2, <1>4, ProcIs DEF ProcRecord, ProcStates
<1>6. hookProc[h].at = "build" BY DEF run_hook_command, At_
<1> HIDE DEF p
<1>7. ProcGood(p, hookFrame[h], taken[h]) BY <1>3, <1>4, <1>5, <1>6, ProcIs DEF ProcGood, Sent
<1> QED BY <1>1, <1>5, <1>7, ProcIs, ProcMoves DEF run_hook_command

LEMMA WriteKeeps == ASSUME HookInv, NEW h \in HookProc, write_client_message(h) PROVE HookInv'
<1> DEFINE again == IF retry_before_write(hookProc[h].load) THEN "context" ELSE "error"
<1>1. PICK at \in {"read", "context", "error"}, f \in {"full", "torn"} :
         /\ hookProc' = [hookProc EXCEPT ![h].at = at] /\ hookFrame' = [hookFrame EXCEPT ![h] = f]
         /\ at = "read" <=> f = "full"
  BY DEF write_client_message
<1> DEFINE p == [hookProc[h] EXCEPT !.at = at]
<1>2. hookProc' = [hookProc EXCEPT ![h] = p] BY <1>1
<1>3. /\ p \in ProcRecord /\ p.at = at /\ p.load = hookProc[h].load /\ p.owner = hookProc[h].owner
      /\ p.pane = hookProc[h].pane /\ p.aim = hookProc[h].aim /\ p.chain = hookProc[h].chain
      /\ p.event = hookProc[h].event /\ p.obs = hookProc[h].obs
  BY ProcIs DEF ProcRecord, ProcStates
<1>4. hookProc[h].at = "write" /\ f \in FrameStates BY DEF write_client_message, At_, FrameStates
<1> HIDE DEF p
<1>5. ProcGood(p, f, taken[h]) BY <1>1, <1>3, <1>4, ProcIs DEF ProcGood, Sent
<1> QED BY <1>1, <1>2, <1>3, <1>4, <1>5, ProcMoves DEF write_client_message

LEMMA ReadKeeps == ASSUME HookInv, NEW h \in HookProc, ReadAnswer(h) \/ delivery_timeout(h) PROVE HookInv'
  BY EndsKeeps, ProcIs DEF ReadAnswer, delivery_timeout, ProcStates

(* The daemon takes a frame that is whole and was not taken before.         *)
LEMMA TakeKeeps == ASSUME HookInv, NEW h \in HookProc, TakeFrame(h) PROVE HookInv'
<1> DEFINE p == hookProc[h]
           t == [times |-> taken[h].times + 1, pane |-> p.aim, event |-> p.event, obs |-> p.obs]
<1>1. taken' = [taken EXCEPT ![h] = t] BY DEF TakeFrame
<1>2. PICK how \in {"answered", "refused"} : hookFrame' = [hookFrame EXCEPT ![h] = how] BY DEF TakeFrame
<1>4. /\ t \in TakenRecord /\ t.times = 1 /\ t.pane = p.aim /\ t.event = p.event /\ t.obs = p.obs
  BY ProcIs DEF ProcRecord, TakenRecord, TakeFrame, ProcGood
<1> HIDE DEF t
<1>5. ProcGood(p, how, t) BY ProcIs, <1>4 DEF ProcGood, Sent, TakeFrame
<1>6. HookType' BY <1>1, <1>2, <1>4 DEF HookInv, HookType, TakeFrame, FrameStates
<1>7. HookGood' BY <1>1, <1>2, <1>5 DEF HookInv, HookType, HookGood, TakeFrame
<1> QED BY <1>6, <1>7 DEF HookInv

LEMMA StopServingKeeps == ASSUME HookInv, StopServing PROVE HookInv'
<1>2. ASSUME NEW h \in HookProc PROVE ProcGood(hookProc[h], hookFrame'[h], taken[h])
  BY ProcIs DEF StopServing, ProcGood, Sent
<1> QED BY <1>2 DEF HookInv, HookGood, StopServing, HookType, FrameStates

LEMMA WorldKeeps ==
    ASSUME HookInv, Disable \/ StartServing \/ RespawnPane \/ ReplaceAgent \/ UNCHANGED hookVars PROVE HookInv'
<1>2. /\ paneGen' \in Nat /\ agentGen' \in Nat
      /\ serving' \in [id : Nat, up : BOOLEAN, mode : {"enabled", "disabled"}]
  <2>1. paneGen' \in Nat /\ agentGen' \in Nat
    BY DEF Disable, StartServing, RespawnPane, ReplaceAgent, hookVars, HookInv, HookType
  <2>3. CASE serving' = serving BY <2>1, <2>3 DEF HookInv, HookType
  <2>4. CASE serving' = [serving EXCEPT !.mode = "disabled"] BY <2>1, <2>4 DEF HookInv, HookType
  <2>5. CASE serving' = [serving EXCEPT !.id = @ + 1, !.up = TRUE]
    <3>1. serving \in [id : Nat, up : BOOLEAN, mode : {"enabled", "disabled"}] /\ serving.id + 1 \in Nat
      BY DEF HookInv, HookType
    <3>2. serving' = [serving EXCEPT !.id = serving.id + 1, !.up = TRUE] BY <2>5
    <3>3. serving' \in [id : Nat, up : BOOLEAN, mode : {"enabled", "disabled"}] BY <3>1, <3>2
    <3> QED BY <2>1, <3>3
  <2> QED BY <2>3, <2>4, <2>5 DEF Disable, StartServing, RespawnPane, ReplaceAgent, hookVars
<1> QED BY <1>2 DEF HookInv, HookType, HookGood, Disable, StartServing, RespawnPane, ReplaceAgent, hookVars

LEMMA HookStep == ASSUME HookInv, [HookNext]_hookVars PROVE HookInv'
  BY StartHookKeeps, CaptureKeeps, ContextKeeps, RecheckKeeps, BuildKeeps, WriteKeeps, ReadKeeps, TakeKeeps,
    StopServingKeeps, WorldKeeps DEF HookNext, HookSteps

LEMMA HooksAreSound == ASSUME HookInv PROVE AgentHooksSound
  BY ProcIs DEF ProcGood, AgentHooksSound, TakenOnce, ExitHonest, RightPane, OnlyParentSpeaks, At_

(* An event is applied once or not at all, to the pane its agent lives in,  *)
(* and a subagent's event never moves its parent's lifecycle.               *)
THEOREM HooksDeliverOnce == HookSpec => []AgentHooksSound BY HookInitInv, HookStep, HooksAreSound, PTL DEF HookSpec

-----------------------------------------------------------------------------
(* PaneReducer: dropping faults.                                            *)

FaultRec == [reason : Lifes, key : BgTask \cup {"session"}, reported : BOOLEAN]

(* What is kept of the first n faults, given what is kept of fewer.         *)
KeptStep(s, gone, g, i) ==
    IF i = 0 THEN << >>
    ELSE IF <<s[i].reason, s[i].key>> \in gone THEN g[i - 1] ELSE Append(g[i - 1], s[i])
KeptUpTo(s, gone, g, n) == g = [i \in 0..n |-> KeptStep(s, gone, g, i)]

(* A prefix has its kept faults when every shorter prefix has.              *)
LEMMA KeptGrows ==
    ASSUME NEW s, NEW gone, NEW n \in Nat, NEW g, KeptUpTo(s, gone, g, n)
    PROVE  \E h : KeptUpTo(s, gone, h, n + 1)
<1>1. PICK x : x = KeptStep(s, gone, g, n + 1) OBVIOUS
<1>2. PICK h : h = [i \in 0..(n + 1) |-> IF i = n + 1 THEN x ELSE g[i]] OBVIOUS
<1>4. \A i \in 0..n : g[i] = KeptStep(s, gone, g, i) BY DEF KeptUpTo
<1>5. ASSUME NEW i \in 0..(n + 1) PROVE h[i] = KeptStep(s, gone, h, i)
  <2>1. i = 0 \/ (i # 0 /\ i - 1 \in 0..n) BY <1>5
  <2>2. CASE i = n + 1 BY <1>2, <2>1, <2>2, <1>1 DEF KeptStep
  <2>3. CASE i # n + 1 BY <1>2, <2>3, <2>1, <1>4 DEF KeptStep
  <2> QED BY <2>2, <2>3
<1>7. [i \in 0..(n + 1) |-> h[i]] = [i \in 0..(n + 1) |-> KeptStep(s, gone, h, i)] BY <1>5
<1> QED BY <1>2, <1>7 DEF KeptUpTo

LEMMA KeptExists ==
    ASSUME NEW s, NEW gone, NEW n \in Nat
    PROVE  \E g : KeptUpTo(s, gone, g, n)
<1> DEFINE Without == {k \in Nat : ~ \E g : KeptUpTo(s, gone, g, k)}
<1>1. SUFFICES ASSUME Without # {} PROVE FALSE OBVIOUS
<1>2. PICK k \in Without : \A y \in Without : k <= y
  <2>1. Without \subseteq Nat OBVIOUS
  <2> HIDE DEF Without
  <2> QED BY <1>1, <2>1, MinInSet
<1>3. CASE k = 0
  <2>1. PICK g : g = [i \in 0..0 |-> << >>] OBVIOUS
  <2>3. KeptUpTo(s, gone, g, 0) BY <2>1 DEF KeptUpTo, KeptStep
  <2> QED BY <1>3, <2>3
<1>4. CASE k # 0 BY <1>2, <1>4, KeptGrows
<1> QED BY <1>3, <1>4

(* What is kept is a sequence of faults that were there.                    *)
LEMMA KeptAreFaults ==
    ASSUME NEW s \in Seq(FaultRec), NEW gone, NEW g, KeptUpTo(s, gone, g, Len(s)),
           NEW n \in 0..Len(s)
    PROVE  /\ g[n] \in Seq(FaultRec)
           /\ \A i \in DOMAIN g[n] : \E j \in DOMAIN s : g[n][i] = s[j]
<1> DEFINE Fine(k) == /\ g[k] \in Seq(FaultRec)
                      /\ \A i \in DOMAIN g[k] : \E j \in DOMAIN s : g[k][i] = s[j]
           Bad == {k \in 0..Len(s) : ~Fine(k)}
<1>1. SUFFICES ASSUME Bad # {} PROVE FALSE OBVIOUS
<1>0. Len(s) \in Nat /\ DOMAIN s = 1..Len(s) BY LenProperties
<1>2. PICK k \in Bad : \A y \in Bad : k <= y
  <2>1. Bad \subseteq Nat BY <1>0
  <2> HIDE DEF Bad
  <2> QED BY <1>1, <2>1, MinInSet
<1>4. CASE k = 0
  <2>1. g[k] = << >> BY <1>2, <1>4 DEF KeptStep, KeptUpTo
  <2>2. << >> \in Seq(FaultRec) /\ DOMAIN << >> = {} BY EmptySeq
  <2> QED BY <1>2, <2>1, <2>2
<1>5. CASE k # 0
  <2>1. k - 1 \in 0..Len(s) /\ k \in DOMAIN s /\ s[k] \in FaultRec BY <1>0, <1>2, <1>5, ElementOfSeq
  <2>3. Fine(k - 1) BY <2>1, <1>0, <1>2
  <2>4. PICK r : r = g[k - 1] OBVIOUS
  <2>5. CASE g[k] = r BY <1>2, <2>3, <2>4, <2>5
  <2>6. CASE g[k] = Append(r, s[k])
    <3>2. /\ Append(r, s[k]) \in Seq(FaultRec) /\ Len(Append(r, s[k])) = Len(r) + 1
          /\ \A i \in 1..Len(r) : Append(r, s[k])[i] = r[i]
          /\ Append(r, s[k])[Len(r) + 1] = s[k]
      BY <2>1, <2>3, <2>4, AppendProperties
    <3>3. DOMAIN Append(r, s[k]) = 1..(Len(r) + 1) /\ DOMAIN r = 1..Len(r) /\ Len(r) \in Nat
      BY <2>3, <2>4, <3>2, LenProperties
    <3>4. ASSUME NEW i \in 1..(Len(r) + 1) PROVE \E j \in DOMAIN s : Append(r, s[k])[i] = s[j]
      <4>1. CASE i = Len(r) + 1 BY <2>1, <3>2, <4>1
      <4>2. CASE i # Len(r) + 1
        <5>1. i \in DOMAIN r BY <3>3, <4>2
        <5> QED BY <2>3, <2>4, <3>2, <3>3, <5>1
      <4> QED BY <4>1, <4>2
    <3> QED BY <1>2, <2>6, <3>2, <3>3, <3>4
  <2> QED BY <1>2, <1>5, <2>4, <2>5, <2>6 DEF KeptStep, KeptUpTo
<1> QED BY <1>4, <1>5

(* The shape of a pane's state; how far its counters go is bounded apart.   *)
PaneShape ==
    [agent : Agents, session : RSession \cup {Unbound}, epoch : Nat \ {0},
     present : BOOLEAN, verified : BOOLEAN, armed : BOOLEAN, life : Lifes,
     run : Nat, done : Nat, helpers : SUBSET Helper,
     tasks : [BgTask -> {"none", "pending", "delivered", "cancelled"}],
     faults : Seq(FaultRec), paused : BOOLEAN, unread : UnreadReasons]

(* Dropping leaves faults of the pane.                                      *)
DropsSome(p, gone) ==
    \E s \in Seq(FaultRec) :
       /\ DropFaults(p, gone) = [p EXCEPT !.faults = s]
       /\ \A i \in DOMAIN s : \E j \in DOMAIN p.faults : s[i] = p.faults[j]

LEMMA Dropping == ASSUME NEW p \in PaneShape, NEW gone PROVE DropsSome(p, gone)
<1> DEFINE Body(h, i) ==
        IF i = 0 THEN << >>
        ELSE IF <<p.faults[i].reason, p.faults[i].key>> \in gone THEN h[i - 1]
        ELSE Append(h[i - 1], p.faults[i])
           kept == CHOOSE h : h = [i \in 0..Len(p.faults) |-> Body(h, i)]
<1>3. \E h : KeptUpTo(p.faults, gone, h, Len(p.faults)) BY LenProperties, KeptExists DEF PaneShape
<1>4. KeptUpTo(p.faults, gone, kept, Len(p.faults)) BY <1>3 DEF KeptUpTo, KeptStep
<1>5. /\ kept[Len(p.faults)] \in Seq(FaultRec)
      /\ \A i \in DOMAIN kept[Len(p.faults)] : \E j \in DOMAIN p.faults : kept[Len(p.faults)][i] = p.faults[j]
  <2> HIDE DEF kept
  <2> QED BY LenProperties, <1>4, KeptAreFaults DEF PaneShape
<1> QED BY <1>5 DEF DropsSome, DropFaults

-----------------------------------------------------------------------------
(* PaneReducer: what every step keeps of a pane's state.                    *)

FaultReasons == {"conflict", "launch", "invalid", "ended"}

(* A run at most is open; what a background task left behind belongs to an  *)
(* open run of Claude, and all that an absent agent left is that it ended;  *)
(* an armed completion is of a run that has not begun; subagents are of a   *)
(* session.                                                                 *)
Sane(p) ==
    /\ p \in PaneShape
    /\ p.done <= p.run /\ p.run <= p.done + 1
    /\ p.run = p.done => ~Tracking(p)
    /\ \A i \in DOMAIN p.faults : p.faults[i].reason \in FaultReasons
    /\ ~p.present => \A i \in DOMAIN p.faults : p.faults[i].reason = "ended"
    /\ ~p.present => \A t \in BgTask : p.tasks[t] = "none"
    /\ p.agent # "claude" => ~Tracking(p)
    /\ p.armed => p.run = 0 /\ p.helpers = {}
    /\ p.session = Unbound => p.helpers = {}

(* The lifecycle agrees with the run and the presence.                      *)
Fits(p) ==
    /\ p.life = "idle" <=> p.run = p.done
    /\ ~p.present => p.verified /\ p.life \in {"idle", "limited", "ended"}

(* The same agent, seen the same way.                                       *)
Like(q, p) ==
    /\ q.agent = p.agent /\ q.session = p.session /\ q.epoch = p.epoch
    /\ q.present = p.present /\ q.verified = p.verified /\ q.unread = p.unread
(* The same background work.                                                *)
SameWork(q, p) == q.tasks = p.tasks /\ q.faults = p.faults

LEMMA Clears ==
    ASSUME NEW p \in PaneShape
    PROVE  /\ Cleared(p) \in PaneShape /\ ~Tracking(Cleared(p)) /\ Like(Cleared(p), p)
           /\ Cleared(p).faults = << >> /\ Cleared(p).tasks = [t \in BgTask |-> "none"]
           /\ Cleared(p).run = p.run /\ Cleared(p).done = p.done /\ Cleared(p).life = p.life
           /\ Cleared(p).helpers = p.helpers /\ Cleared(p).armed = p.armed
  BY EmptySeq DEF Cleared, PaneShape, Like, Tracking, blocks_completion

(* Without background work, there is nothing to clear.                      *)
LEMMA NothingToClear ==
    ASSUME NEW p \in PaneShape, ~Tracking(p)
    PROVE  p.faults = << >> /\ p.tasks = [t \in BgTask |-> "none"]
  BY DEF PaneShape, Tracking, blocks_completion

(* Two states with the same background work track the same.                 *)
LEMMA WorkTracks ==
    ASSUME NEW p, NEW q, SameWork(q, p)
    PROVE  (Tracking(q) <=> Tracking(p)) /\ (blocks_completion(q) <=> blocks_completion(p))
  BY DEF SameWork, Tracking, blocks_completion

(* start_new_run opens a run and leaves the background work as it is: of a  *)
(* closed run there is none.                                                *)
LEMMA Starts ==
    ASSUME NEW p, Sane(p), NEW q, q = start_new_run(p)
    PROVE  /\ Sane(q) /\ Like(q, p) /\ SameWork(q, p)
           /\ q.done = p.done /\ q.run = q.done + 1 /\ ~q.armed /\ q.life = p.life
           /\ q.helpers \subseteq p.helpers
<1>0. p \in PaneShape BY DEF Sane
<1>1. CASE p.run = p.done
  <2>1. PICK a : a = Cleared(p) OBVIOUS
  <2>2. PICK b : b = [a EXCEPT !.run = a.run + 1] OBVIOUS
  <2>3. PICK c : c = [b EXCEPT !.helpers = {}] OBVIOUS
  <2>5. /\ a \in PaneShape /\ Like(a, p) /\ a.faults = p.faults /\ a.tasks = p.tasks
        /\ a.run = p.run /\ a.done = p.done /\ a.life = p.life
    BY <1>0, <1>1, <2>1, Clears, NothingToClear DEF Sane
  <2>6. /\ b \in PaneShape /\ Like(b, a) /\ b.faults = a.faults /\ b.tasks = a.tasks
        /\ b.run = a.run + 1 /\ b.done = a.done /\ b.life = a.life
    BY <2>2, <2>5 DEF PaneShape, Like
  <2>7. /\ c \in PaneShape /\ Like(c, b) /\ c.faults = b.faults /\ c.tasks = b.tasks
        /\ c.run = b.run /\ c.done = b.done /\ c.life = b.life /\ c.helpers = {}
    BY <2>3, <2>6 DEF PaneShape, Like
  <2>8. /\ q \in PaneShape /\ Like(q, c) /\ q.faults = c.faults /\ q.tasks = c.tasks
        /\ q.run = c.run /\ q.done = c.done /\ q.life = c.life /\ q.helpers = {} /\ ~q.armed
    BY <1>1, <2>1, <2>2, <2>3, <2>7 DEF PaneShape, Like, start_new_run
  <2>9. Like(q, p) /\ SameWork(q, p) /\ q.done = p.done /\ q.run = p.done + 1 /\ p.done \in Nat /\ q.life = p.life
    BY <1>0, <1>1, <2>5, <2>6, <2>7, <2>8 DEF Like, SameWork, PaneShape
  <2> QED BY <2>8, <2>9, <1>1, WorkTracks DEF Sane, Tracking, blocks_completion, Like
<1>2. CASE p.run # p.done
  <2>2. /\ q \in PaneShape /\ Like(q, p) /\ q.faults = p.faults /\ q.tasks = p.tasks
        /\ q.run = p.run /\ q.done = p.done /\ q.life = p.life /\ q.helpers = p.helpers /\ ~q.armed
    BY <1>0, <1>2 DEF PaneShape, Like, start_new_run
  <2>4. Sane(q) BY <2>2, WorkTracks DEF Sane, Like, SameWork
  <2> QED BY <2>2, <2>4, <1>0, <1>2 DEF SameWork, Sane, PaneShape
<1> QED BY <1>1, <1>2

LEMMA LifeMoves ==
    ASSUME NEW p, Sane(p), NEW l \in Lifes, NEW q, q = [p EXCEPT !.life = l]
    PROVE  /\ Sane(q) /\ Like(q, p) /\ SameWork(q, p) /\ q.life = l
           /\ q.done = p.done /\ q.run = p.run /\ q.armed = p.armed /\ q.helpers = p.helpers
  BY WorkTracks DEF Sane, PaneShape, Like, SameWork

LEMMA PauseMoves ==
    ASSUME NEW p, Sane(p), NEW b \in BOOLEAN, NEW q, q = [p EXCEPT !.paused = b]
    PROVE  /\ Sane(q) /\ Like(q, p) /\ SameWork(q, p) /\ q.life = p.life
           /\ q.done = p.done /\ q.run = p.run /\ q.armed = p.armed /\ q.helpers = p.helpers
  BY WorkTracks DEF Sane, PaneShape, Like, SameWork

(* wait_requested and activity_observed: the run is open, and runs or waits.*)
LEMMA Waits ==
    ASSUME NEW p, Sane(p), NEW l \in Lifes, NEW q, q = wait_requested(p, l)
    PROVE  /\ Sane(q) /\ Like(q, p) /\ SameWork(q, p)
           /\ q.done = p.done /\ q.run = q.done + 1 /\ ~q.armed /\ q.life = l
           /\ q.helpers \subseteq p.helpers
  BY Starts, LifeMoves DEF wait_requested, Like, SameWork

LEMMA Acts ==
    ASSUME NEW p, Sane(p), NEW q, q = activity_observed(p)
    PROVE  /\ Sane(q) /\ Like(q, p) /\ SameWork(q, p)
           /\ q.done = p.done /\ q.run = q.done + 1 /\ ~q.armed /\ q.life = "running"
<1>1. PICK a : a = wait_requested(p, "running") OBVIOUS
<1>2. q = [a EXCEPT !.paused = FALSE] BY <1>1 DEF wait_requested, activity_observed
<1>4. /\ Sane(a) /\ Like(a, p) /\ SameWork(a, p)
      /\ a.done = p.done /\ a.run = a.done + 1 /\ ~a.armed /\ a.life = "running"
  BY <1>1, Waits DEF Lifes
<1>5. /\ Sane(q) /\ Like(q, a) /\ SameWork(q, a) /\ q.life = a.life
      /\ q.done = a.done /\ q.run = a.run /\ q.armed = a.armed
  BY <1>2, <1>4, PauseMoves, FALSE \in BOOLEAN
<1> QED BY <1>4, <1>5 DEF Like, SameWork

(* A run that ends leaves nothing behind.                                   *)
RunOver(q, p) ==
    /\ Like(q, p) /\ ~Tracking(q) /\ q.run = q.done /\ q.life = "idle" /\ ~q.armed
    /\ q.done > 0

LEMMA RunCloses ==
    ASSUME NEW p, p \in PaneShape, NEW n \in Nat, n > 0, NEW q,
           p.session = Unbound => p.helpers = {},
           q = [Cleared(p) EXCEPT !.run = n, !.done = n, !.life = "idle", !.armed = FALSE]
    PROVE  /\ Sane(q) /\ RunOver(q, p) /\ q.done = n /\ q.helpers = p.helpers
<1>1. PICK a : a = Cleared(p) OBVIOUS
<1>2. PICK b : b = [a EXCEPT !.run = n] OBVIOUS
<1>3. PICK c : c = [b EXCEPT !.done = n] OBVIOUS
<1>4. PICK d : d = [c EXCEPT !.life = "idle"] OBVIOUS
<1>5. q = [d EXCEPT !.armed = FALSE] BY <1>1, <1>2, <1>3, <1>4
<1>6. a \in PaneShape /\ ~Tracking(a) /\ Like(a, p) /\ a.helpers = p.helpers BY <1>1, Clears
<1>7. b \in PaneShape /\ SameWork(b, a) /\ Like(b, a) /\ b.helpers = a.helpers /\ b.run = n
  BY <1>2, <1>6 DEF PaneShape, SameWork, Like
<1>8. c \in PaneShape /\ SameWork(c, a) /\ Like(c, b) /\ c.helpers = b.helpers /\ c.run = n /\ c.done = n
  BY <1>3, <1>7 DEF PaneShape, SameWork, Like
<1>9. /\ d \in PaneShape /\ SameWork(d, a) /\ Like(d, c) /\ d.helpers = c.helpers /\ d.run = n /\ d.done = n
      /\ d.life = "idle"
  BY <1>4, <1>8 DEF PaneShape, SameWork, Like, Lifes
<1>10. /\ q \in PaneShape /\ SameWork(q, a) /\ Like(q, d) /\ q.helpers = d.helpers /\ q.run = n /\ q.done = n
       /\ q.life = "idle" /\ ~q.armed
  BY <1>5, <1>9 DEF PaneShape, SameWork, Like
<1>11. ~Tracking(q) BY <1>6, <1>10, WorkTracks
<1>12. Like(q, p) /\ q.helpers = p.helpers BY <1>6, <1>7, <1>8, <1>9, <1>10 DEF Like
<1>13. q.faults = << >> BY <1>10, <1>11, NothingToClear
<1>16. \A t \in BgTask : q.tasks[t] = "none" BY <1>11 DEF Tracking
<1>14. q.done <= q.run /\ q.run <= q.done + 1 BY <1>10
<1>15. Sane(q) BY <1>10, <1>11, <1>12, <1>13, <1>14, <1>16 DEF Sane, Like
<1> QED BY <1>10, <1>11, <1>12, <1>15 DEF RunOver

(* complete_run does nothing, or ends the run of an agent without subagents *)
(* and without background work.                                             *)
Holds(p, unarmed) ==
    \/ p.helpers # {} \/ Tracking(p)
    \/ p.run = 0 /\ ~p.armed /\ ~unarmed
    \/ p.run > 0 /\ p.run = p.done

LEMMA Completes ==
    ASSUME NEW p, Sane(p), NEW unarmed \in BOOLEAN, NEW q, q = complete_run(p, unarmed)
    PROVE  /\ Sane(q)
           /\ Holds(p, unarmed) => q = p
           /\ ~Holds(p, unarmed) => RunOver(q, p) /\ q.helpers = {}
<1>1. CASE Holds(p, unarmed) BY <1>1 DEF Holds, complete_run
<1>2. CASE ~Holds(p, unarmed)
  <2>1. PICK n : n = IF p.run = 0 THEN 1 ELSE p.run OBVIOUS
  <2>2. q = [Cleared(p) EXCEPT !.run = n, !.done = n, !.life = "idle", !.armed = FALSE]
    BY <1>2, <2>1 DEF Holds, complete_run
  <2>3. p \in PaneShape /\ (p.session = Unbound => p.helpers = {}) /\ p.helpers = {} BY <1>2 DEF Sane, Holds
  <2>4. n \in Nat /\ n > 0 BY <2>1, <2>3 DEF PaneShape
  <2>5. p \in PaneShape /\ (p.session = Unbound => p.helpers = {}) BY <2>3
  <2>6. Sane(q) /\ RunOver(q, p) /\ q.helpers = p.helpers BY ONLY <2>2, <2>4, <2>5, RunCloses
  <2> QED BY <1>2, <2>3, <2>6
<1> QED BY <1>1, <1>2

-----------------------------------------------------------------------------
(* Background work of an open run of Claude.                                *)

(* Everything but the background work is the same.                          *)
Alike(q, p) ==
    /\ Like(q, p) /\ q.life = p.life /\ q.run = p.run /\ q.done = p.done
    /\ q.armed = p.armed /\ q.helpers = p.helpers
OfClaude(p) == Sane(p) /\ p.agent = "claude" /\ p.run # p.done

LEMMA NewWork ==
    ASSUME NEW p, OfClaude(p), NEW q \in PaneShape, Alike(q, p),
           \A i \in DOMAIN q.faults : q.faults[i].reason \in FaultReasons,
           ~p.present => \A i \in DOMAIN q.faults : q.faults[i].reason = "ended",
           ~p.present => q.tasks = p.tasks
    PROVE  OfClaude(q)
  BY DEF OfClaude, Sane, Alike, Like

LEMMA GainsFault ==
    ASSUME NEW p, OfClaude(p), NEW r \in FaultReasons, NEW k \in BgTask \cup {"session"},
           ~p.present => r = "ended", NEW q, q = fault(p, r, k)
    PROVE  /\ OfClaude(q) /\ Alike(q, p) /\ q.tasks = p.tasks /\ q.faults # << >>
           /\ \A i \in DOMAIN q.faults :
                 q.faults[i].reason = r \/ \E j \in DOMAIN p.faults : q.faults[i] = p.faults[j]
<1>1. CASE HasFault(p, r, k) BY <1>1 DEF fault, HasFault, Alike, Like
<1>2. CASE ~HasFault(p, r, k)
  <2>1. PICK f : f = [reason |-> r, key |-> k, reported |-> FALSE] OBVIOUS
  <2>2. f \in FaultRec /\ f.reason = r BY <2>1 DEF FaultRec, FaultReasons, Lifes
  <2>3. PICK s : s = Append(p.faults, f) OBVIOUS
  <2>4. q = [p EXCEPT !.faults = s] BY <1>2, <2>1, <2>3 DEF fault
  <2>5. /\ s \in Seq(FaultRec) /\ s # << >>
        /\ \A i \in DOMAIN s : s[i] = f \/ \E j \in DOMAIN p.faults : s[i] = p.faults[j]
    BY <2>2, AppendProperties, <2>3, LenProperties DEF OfClaude, Sane, PaneShape
  <2>6. q \in PaneShape /\ Alike(q, p) /\ q.tasks = p.tasks /\ q.faults = s
    BY <2>5, <2>4 DEF PaneShape, Alike, Like, OfClaude, Sane
  <2>8. \A i \in DOMAIN s : s[i].reason \in FaultReasons /\ (~p.present => s[i].reason = "ended")
    BY <2>2, <2>5 DEF OfClaude, Sane
  <2> QED BY <2>2, <2>5, <2>6, <2>8, NewWork
<1> QED BY <1>1, <1>2

LEMMA LosesFaults ==
    ASSUME NEW p, OfClaude(p), NEW gone, NEW q, q = DropFaults(p, gone)
    PROVE  /\ OfClaude(q) /\ Alike(q, p) /\ q.tasks = p.tasks
           /\ \A i \in DOMAIN q.faults : \E j \in DOMAIN p.faults : q.faults[i] = p.faults[j]
<1>1. PICK s \in Seq(FaultRec) :
        /\ DropFaults(p, gone) = [p EXCEPT !.faults = s]
        /\ \A i \in DOMAIN s : \E j \in DOMAIN p.faults : s[i] = p.faults[j]
  <2>1. DropsSome(p, gone) BY Dropping DEF OfClaude, Sane
  <2> QED BY ONLY <2>1 DEF DropsSome
<1>2. q \in PaneShape /\ Alike(q, p) /\ q.tasks = p.tasks /\ q.faults = s
  BY <1>1 DEF PaneShape, Alike, Like, OfClaude, Sane
<1>4. \A i \in DOMAIN s : s[i].reason \in FaultReasons /\ (~p.present => s[i].reason = "ended")
  BY <1>1 DEF OfClaude, Sane
<1> QED BY <1>1, <1>2, <1>4, NewWork

LEMMA TaskMoves ==
    ASSUME NEW p, OfClaude(p), p.present, NEW t \in BgTask, NEW v \in {"none", "pending", "delivered", "cancelled"},
           NEW q, q = [p EXCEPT !.tasks[t] = v]
    PROVE  OfClaude(q) /\ Alike(q, p) /\ q.faults = p.faults
  BY NewWork DEF OfClaude, Sane, PaneShape, Alike, Like

LEMMA AlikeChain ==
    ASSUME NEW p, NEW q, NEW r, Alike(q, p), Alike(r, q) PROVE Alike(r, p)
  BY DEF Alike, Like

(* A task is settled, its launch failed, or it was stopped.                 *)
LEMMA ToolResults ==
    ASSUME NEW p, OfClaude(p), p.present, NEW e \in ClaudeEvents,
           e.kind \in {"registered", "conflict", "launch", "stopped"},
           NEW q, q = apply_claude_tool_result(p, e)
    PROVE  OfClaude(q) /\ Alike(q, p)
<1>1. e.task \in BgTask BY DEF ClaudeEvents
<1>2. CASE e.kind \in {"registered", "conflict"}
  <2>1. PICK a : a = IF p.tasks[e.task] # "none" THEN (IF e.kind = "registered" THEN p ELSE fault(p, "conflict", e.task))
                     ELSE [p EXCEPT !.tasks[e.task] = "pending"]
    OBVIOUS
  <2>3. OfClaude(a) /\ Alike(a, p)
    <3>1. CASE a = p BY <3>1 DEF Alike, Like
    <3>2. CASE a = fault(p, "conflict", e.task) BY <1>1, <3>2, GainsFault DEF FaultReasons
    <3>3. CASE a = [p EXCEPT !.tasks[e.task] = "pending"] BY <1>1, <3>3, TaskMoves
    <3> QED BY <2>1, <3>1, <3>2, <3>3
  <2>4. OfClaude(q) /\ Alike(q, a) BY <1>2, <2>1, <2>3, LosesFaults DEF apply_claude_tool_result
  <2> QED BY <2>3, <2>4, AlikeChain
<1>3. CASE e.kind = "launch" BY <1>3, <1>1, GainsFault DEF apply_claude_tool_result, FaultReasons
<1>4. CASE e.kind = "stopped"
  <2>1. PICK a : a = [p EXCEPT !.tasks[e.task] = "cancelled"] OBVIOUS
  <2>3. OfClaude(a) /\ Alike(a, p)
    BY <1>1, <2>1, TaskMoves, "cancelled" \in {"none", "pending", "delivered", "cancelled"}
  <2>4. CASE q = p BY <2>4 DEF Alike, Like
  <2>5. CASE q = DropFaults(a, (Lifes \ {"launch"}) \X {e.task}) BY <2>3, <2>5, LosesFaults, AlikeChain
  <2> QED BY <1>4, <2>1, <2>4, <2>5 DEF apply_claude_tool_result, clear_task_faults
<1> QED BY <1>2, <1>3, <1>4

-----------------------------------------------------------------------------
(* What an event makes of a state.                                          *)

(* The pane of the same agent; an awaited result holds its run open.        *)
Result(q, p) ==
    /\ Sane(q) /\ Fits(q) /\ ~q.armed /\ Like(q, p)
    /\ blocks_completion(p) => q.done = p.done

LEMMA ArmedIsFresh ==
    ASSUME NEW p, Sane(p), p.armed PROVE p.run = 0 /\ p.done = 0 /\ ~Tracking(p) /\ p.helpers = {}
  BY DEF Sane, PaneShape

LEMMA Blocked ==
    ASSUME NEW p, Sane(p), Tracking(p)
    PROVE  p.agent = "claude" /\ p.run # p.done /\ ~p.armed /\ OfClaude(p)
  BY ArmedIsFresh DEF Sane, OfClaude

LEMMA BlocksTracks == ASSUME NEW p, blocks_completion(p) PROVE Tracking(p) BY DEF Tracking

LEMMA FirstOfFaults ==
    ASSUME NEW p, Sane(p), p.faults # << >>
    PROVE  FirstFault(p) \in FaultReasons /\ (~p.present => FirstFault(p) = "ended")
<1>2. DOMAIN p.faults = 1..Len(p.faults) /\ Len(p.faults) \in Nat /\ Len(p.faults) # 0
  BY LenProperties, EmptySeq DEF Sane, PaneShape
<1>3. PICK new : new = {i \in DOMAIN p.faults : ~p.faults[i].reported} OBVIOUS
<1>4. PICK i : i = IF new = {} THEN 1 ELSE CHOOSE j \in new : \A k \in new : j <= k OBVIOUS
<1>6. i \in DOMAIN p.faults
  <2>1. CASE new = {} BY <1>2, <1>4, <2>1
  <2>2. CASE new # {}
    <3>1. new \subseteq Nat BY <1>2, <1>3
    <3>2. Min(new) \in new /\ i = Min(new) BY <1>4, <2>2, <3>1, MinInSet DEF Min
    <3> QED BY <1>3, <3>2
  <2> QED BY <2>1, <2>2
<1> QED BY <1>3, <1>4, <1>6 DEF Sane, FirstFault

LEMMA ClearKeepsSane ==
    ASSUME NEW p, Sane(p)
    PROVE  Sane(Cleared(p)) /\ Alike(Cleared(p), p) /\ ~Tracking(Cleared(p))
  BY Clears DEF Sane, Tracking, Like, Alike

LEMMA CompletesFit ==
    ASSUME NEW p, Sane(p), Fits(p), NEW unarmed \in BOOLEAN, NEW q, q = complete_run(p, unarmed)
    PROVE  Result(q, p)
  BY Completes, ArmedIsFresh, BlocksTracks DEF Holds, Result, Like, RunOver, Fits

LEMMA Stops ==
    ASSUME NEW p, Sane(p), Fits(p), p.agent = "claude", NEW unarmed \in BOOLEAN,
           NEW q, q = apply_claude_stop(p, unarmed)
    PROVE  Result(q, p)
<1>1. CASE blocks_completion(p)
  <2>1. PICK l : l = IF p.faults = << >> THEN "running" ELSE FirstFault(p) OBVIOUS
  <2>2. PICK a : a = [p EXCEPT !.paused = TRUE] OBVIOUS
  <2>3. q = [a EXCEPT !.life = l] BY <1>1, <2>1, <2>2 DEF apply_claude_stop
  <2>5. l \in Lifes /\ l # "idle" /\ (~p.present => l = "ended")
    BY <1>1, <2>1, FirstOfFaults DEF blocks_completion, Sane, Lifes, FaultReasons
  <2>6. Sane(a) /\ Alike(a, p) BY <2>2, PauseMoves, TRUE \in BOOLEAN DEF Alike
  <2>7. Sane(q) /\ Like(q, a) /\ q.life = l /\ q.done = a.done /\ q.run = a.run /\ q.armed = a.armed
    BY <2>3, <2>5, <2>6, LifeMoves
  <2> QED BY <1>1, Blocked, BlocksTracks, <2>5, <2>6, <2>7 DEF Result, Fits, Alike, Like
<1>2. CASE ~blocks_completion(p) /\ p.helpers # {} BY <1>2, ArmedIsFresh DEF apply_claude_stop, Result, Like
<1>3. CASE ~blocks_completion(p) /\ p.helpers = {}
  BY <1>3, ClearKeepsSane, CompletesFit DEF apply_claude_stop, Alike, Like, Fits, Result
<1> QED BY <1>1, <1>2, <1>3

(* The session ends: work that was awaited leaves only that it ended.       *)
LEMMA TrackingEnds ==
    ASSUME NEW p, Sane(p), NEW q, q = end_claude_tracking(p)
    PROVE  /\ Sane(q) /\ Like(q, p) /\ q.run = p.run /\ q.done = p.done /\ q.armed = p.armed
           /\ q.helpers = p.helpers
           /\ \A t \in BgTask : q.tasks[t] = "none"
           /\ \A i \in DOMAIN q.faults : q.faults[i].reason = "ended"
           /\ Tracking(p) => q.life \in {"limited", "ended"}
           /\ ~Tracking(p) => q.life = p.life /\ ~Tracking(q)
<1>1. PICK c : c = Cleared(p) OBVIOUS
<1>2. Sane(c) /\ Alike(c, p) /\ ~Tracking(c) BY <1>1, ClearKeepsSane
<1>3. c.faults = << >> /\ \A t \in BgTask : c.tasks[t] = "none" BY <1>2 DEF Tracking, blocks_completion
<1>4. CASE ~Tracking(p) BY <1>1, <1>4, <1>2, <1>3 DEF end_claude_tracking, Alike
<1>5. CASE Tracking(p)
  BY <1>1, <1>5, <1>2, Blocked, GainsFault, <1>3, LifeMoves DEF end_claude_tracking, OfClaude, Alike, Like,
    FaultReasons, Lifes, SameWork
<1> QED BY <1>4, <1>5

(* A background task reports: the agent runs again, or it stays as it was.  *)
LEMMA Notices ==
    ASSUME NEW p, Sane(p), Fits(p), p.present, p.agent = "claude", NEW e \in ClaudeEvents,
           e.kind \in {"notified", "garbled"}, NEW q, q = apply_notification(p, e)
    PROVE  Result(q, p)
<1>1. PICK a : a = IF p.life \in {"running", "idle"} \/ \E i \in DOMAIN p.faults : p.faults[i].reason = p.life
                   THEN activity_observed(p) ELSE [p EXCEPT !.paused = FALSE]
  OBVIOUS
<1>3. OfClaude(a) /\ Like(a, p) /\ a.life # "idle" /\ ~a.armed /\ a.done = p.done
  <2>1. CASE a = activity_observed(p)
    <3>1. /\ Sane(a) /\ Like(a, p) /\ a.done = p.done /\ a.run = a.done + 1 /\ ~a.armed /\ a.life = "running"
      BY <2>1, Acts
    <3>3. a.run # a.done BY <3>1 DEF Sane, PaneShape
    <3> QED BY <3>1, <3>3 DEF OfClaude, Like
  <2>2. CASE a = [p EXCEPT !.paused = FALSE] /\ p.life \notin {"running", "idle"}
    <3>1. /\ Sane(a) /\ Like(a, p) /\ a.life = p.life /\ a.done = p.done /\ a.run = p.run /\ a.armed = p.armed
      BY <2>2, PauseMoves, FALSE \in BOOLEAN
    <3>3. ~p.armed BY <2>2, ArmedIsFresh DEF Fits
    <3> QED BY <2>2, <3>1, <3>3 DEF OfClaude, Like, Fits
  <2> QED BY <1>1, <2>1, <2>2
<1>4. OfClaude(q) /\ Alike(q, a)
  <2>1. CASE q = a BY <1>3, <2>1 DEF Alike, Like
  <2>2. CASE q = fault(a, "invalid", e.task)
    <3>1. "invalid" \in FaultReasons /\ e.task \in BgTask \cup {"session"} /\ a.present
      BY <1>3 DEF FaultReasons, Like, ClaudeEvents
    <3> QED BY <1>3, <2>2, <3>1, GainsFault
  <2>3. CASE q # a /\ q # fault(a, "invalid", e.task)
    <3>1. PICK v : v = IF a.tasks[e.task] = "cancelled" THEN a.tasks[e.task] ELSE "delivered" OBVIOUS
    <3>2. PICK b : b = [a EXCEPT !.tasks[e.task] = v] OBVIOUS
    <3>3. q = DropFaults(b, (Lifes \ {"launch"}) \X {e.task})
      BY <1>1, <2>3, <3>1, <3>2 DEF clear_task_faults, apply_notification
    <3>4. v \in {"none", "pending", "delivered", "cancelled"} /\ a.present BY <1>3, <3>1 DEF Like
    <3>5. OfClaude(b) /\ Alike(b, a) BY <1>3, <3>2, <3>4, TaskMoves DEF ClaudeEvents
    <3> QED BY <3>5, <3>3, LosesFaults, AlikeChain
  <2> QED BY <2>1, <2>2, <2>3
<1> QED BY <1>3, <1>4 DEF Result, Fits, OfClaude, Alike, Like

REvents == PlainEvents \cup HelperEvents \cup ClaudeEvents

LEMMA WaitFits ==
    ASSUME NEW p, Sane(p), p.present, NEW l \in Lifes, l # "idle", NEW q, q = wait_requested(p, l)
    PROVE  Result(q, p)
<1>1. /\ Sane(q) /\ Like(q, p) /\ q.done = p.done /\ q.run = q.done + 1 /\ ~q.armed /\ q.life = l BY Waits
<1>3. q.run # q.done BY <1>1 DEF Sane, PaneShape
<1> QED BY <1>1, <1>3 DEF Result, Fits, Like

LEMMA ActFits ==
    ASSUME NEW p, Sane(p), p.present, NEW q, q = activity_observed(p)
    PROVE  Result(q, p) /\ q.run # q.done
<1>1. /\ Sane(q) /\ Like(q, p) /\ q.done = p.done /\ q.run = q.done + 1 /\ ~q.armed /\ q.life = "running" BY Acts
<1>3. q.run # q.done BY <1>1 DEF Sane, PaneShape
<1> QED BY <1>1, <1>3 DEF Result, Fits, Like

(* A subagent starts or ends.                                               *)
LEMMA HelperFits ==
    ASSUME NEW p, Sane(p), Fits(p), ~p.armed, p.session # Unbound, NEW h \in SUBSET Helper,
           NEW q, q = [p EXCEPT !.helpers = h]
    PROVE  Result(q, p)
  BY WorkTracks DEF Sane, PaneShape, Like, SameWork, Result, Fits

(* Every event makes of a state that fits one that fits, unarmed: a state   *)
(* is armed until the first event of its run, and an agent that is away is  *)
(* told of completions only.                                                *)
LEMMA EventFitting ==
    ASSUME NEW p, Sane(p), Fits(p), p.session # Unbound, NEW e \in REvents,
           e \in ClaudeEvents => p.agent = "claude",
           p.armed => (EpochEvidence(e) /\ e.kind # "start") \/ is_completion_for_state(p, e),
           ~p.present => is_completion_for_state(p, e),
           NEW initial \in BOOLEAN, NEW q, q = apply_regular_explicit_event(p, e, initial)
    PROVE  Result(q, p)
<1>1. CASE e.kind \in {"registered", "conflict", "launch", "stopped"}
  <2>1. e \in ClaudeEvents /\ p.agent = "claude" /\ p.present
    BY <1>1 DEF REvents, PlainEvents, HelperEvents, is_completion_for_state
  <2>2. PICK a : a = activity_observed(p) OBVIOUS
  <2>4. Result(a, p) /\ a.run # a.done BY <2>1, <2>2, ActFits
  <2>5. OfClaude(a) /\ a.present BY <2>1, <2>4 DEF OfClaude, Result, Like
  <2>6. OfClaude(q) /\ Alike(q, a) BY <1>1, <2>1, <2>2, <2>5, ToolResults DEF apply_regular_explicit_event
  <2> QED BY <2>4, <2>6 DEF Result, OfClaude, Alike, Like, Fits
<1>2. CASE e.kind \in {"notified", "garbled"}
  BY <1>2, Notices DEF REvents, PlainEvents, HelperEvents, is_completion_for_state, apply_regular_explicit_event
<1>3. CASE e.kind = "ended"
  BY <1>3, TrackingEnds DEF is_completion_for_state, EpochEvidence, is_completion, apply_regular_explicit_event,
    Sane, Result, Fits, Like
<1>4. CASE e.kind = "activity" BY <1>4, ActFits DEF is_completion_for_state, apply_regular_explicit_event
<1>5. CASE e.kind \in {"wait", "limit", "fail"}
  BY <1>5, WaitFits DEF is_completion_for_state, apply_regular_explicit_event, Lifes
<1>6. CASE e.kind = "stop" BY <1>6, Stops, CompletesFit DEF apply_regular_explicit_event
<1>7. CASE e.kind \in {"idle", "attention"}
  BY <1>7, CompletesFit, ArmedIsFresh DEF apply_regular_explicit_event, EpochEvidence, is_completion_for_state,
    is_completion, Result, Like
<1>8. CASE e.kind \in {"helper_on", "helper_off"}
  BY <1>8, HelperFits DEF is_completion_for_state, EpochEvidence, is_completion, REvents, PlainEvents, ClaudeEvents,
    HelperEvents, Sane, PaneShape, apply_regular_explicit_event
<1>9. CASE e.kind \in {"start", "compact"}
  BY <1>9 DEF is_completion_for_state, EpochEvidence, is_completion, apply_regular_explicit_event, Result, Like
<1> QED BY <1>1, <1>2, <1>3, <1>4, <1>5, <1>6, <1>7, <1>8, <1>9 DEF REvents, PlainEvents, HelperEvents, ClaudeEvents

-----------------------------------------------------------------------------
(* States that the reducer's own check accepts.                             *)

GoodPane(p) ==
    /\ Sane(p) /\ Fits(p)
    /\ p.armed => p.life = "idle" /\ p.run = 0 /\ p.verified /\ p.session = Unbound

LEMMA GoodIsValid == ASSUME NEW p, GoodPane(p) PROVE validate(p)
  BY BlocksTracks DEF GoodPane, Sane, PaneShape, Fits, validate

LEMMA ValidIsGood == ASSUME NEW p, Sane(p), validate(p) PROVE GoodPane(p) BY DEF GoodPane, Fits, validate

LEMMA ResultIsGood == ASSUME NEW p, NEW q, Result(q, p) PROVE GoodPane(q) BY DEF Result, GoodPane

LEMMA FreshFits ==
    ASSUME NEW agent \in Agents, NEW session \in RSession \cup {Unbound}, NEW verified \in BOOLEAN,
           NEW armed \in BOOLEAN, NEW q, q = new_state(agent, session, verified, armed)
    PROVE  /\ Sane(q) /\ Fits(q) /\ q.present /\ q.agent = agent /\ q.session = session
           /\ q.armed = armed /\ q.verified = verified /\ q.run = 0 /\ q.life = "idle" /\ q.epoch = 1
  BY EmptySeq DEF new_state, PaneShape, Lifes, UnreadReasons, Tracking, blocks_completion, Sane, Fits

LEMMA EpochFits ==
    ASSUME NEW p, Sane(p), NEW agent \in Agents, NEW session \in RSession \cup {Unbound},
           NEW verified \in BOOLEAN, NEW q, q = begin_agent_epoch(p, agent, session, verified)
    PROVE  /\ Sane(q) /\ Fits(q) /\ q.present /\ q.agent = agent /\ q.session = session /\ ~q.armed
           /\ q.epoch # p.epoch
<1>1. PICK a : a = new_state(agent, session, verified, FALSE) OBVIOUS
<1>2. PICK n : n = p.epoch + 1 OBVIOUS
<1>3. PICK u : u = IF p.unread \in {"waiting", "error"} THEN "read" ELSE p.unread OBVIOUS
<1>4. PICK b : b = [a EXCEPT !.epoch = n] OBVIOUS
<1>6. Sane(a) /\ Fits(a) /\ a.present /\ a.agent = agent /\ a.session = session /\ ~a.armed
  <2>1. PICK f \in BOOLEAN : f = FALSE OBVIOUS
  <2>2. a = new_state(agent, session, verified, f) BY <1>1, <2>1
  <2> QED BY <2>1, <2>2, FreshFits
<1>7. n \in Nat \ {0} /\ n # p.epoch /\ u \in UnreadReasons BY <1>2, <1>3 DEF Sane, PaneShape, UnreadReasons
<1>8. /\ b \in PaneShape /\ SameWork(b, a) /\ b.agent = a.agent /\ b.session = a.session /\ b.present = a.present
      /\ b.verified = a.verified /\ b.armed = a.armed /\ b.life = a.life /\ b.run = a.run /\ b.done = a.done
      /\ b.helpers = a.helpers /\ b.epoch = n
  BY <1>4, <1>6, <1>7 DEF Sane, PaneShape, SameWork
<1>9. /\ q \in PaneShape /\ SameWork(q, a) /\ q.agent = a.agent /\ q.session = a.session /\ q.present = a.present
      /\ q.verified = a.verified /\ q.armed = a.armed /\ q.life = a.life /\ q.run = a.run /\ q.done = a.done
      /\ q.helpers = a.helpers /\ q.epoch = n
  BY <1>1, <1>2, <1>3, <1>4, <1>7, <1>8 DEF PaneShape, SameWork, begin_agent_epoch
<1>11. Sane(q) /\ Fits(q) BY <1>6, <1>9, WorkTracks DEF Sane, SameWork, Fits
<1> QED BY <1>6, <1>7, <1>9, <1>11

(* A session is known for the first time.                                   *)
LEMMA BindFits ==
    ASSUME NEW p, Sane(p), Fits(p), NEW session \in RSession, NEW q, q = [p EXCEPT !.session = session]
    PROVE  /\ Sane(q) /\ Fits(q) /\ q.session = session /\ SameWork(q, p) /\ q.agent = p.agent
           /\ q.present = p.present /\ q.armed = p.armed /\ q.run = p.run /\ q.done = p.done /\ q.epoch = p.epoch
  BY WorkTracks, ReducerAssumption DEF Sane, PaneShape, SameWork, ReducerAssumption, Fits

-----------------------------------------------------------------------------
(* Explicit events.                                                         *)

(* A pane as good as p was, of which a run closes over no awaited result.   *)
Follows(q, p) ==
    /\ GoodPane(q)
    /\ q.epoch = p.epoch /\ blocks_completion(p) => q.done = p.done

LEMMA ResultFollows ==
    ASSUME NEW p, NEW a, NEW q, Result(q, a), a.epoch = p.epoch, a.done = p.done, SameWork(a, p)
    PROVE  Follows(q, p)
  BY WorkTracks, ResultIsGood DEF Follows, Result

LEMMA NewEpochFollows ==
    ASSUME NEW p, NEW a, NEW q, Result(q, a), a.epoch # p.epoch
    PROVE  Follows(q, p)
  BY ResultIsGood DEF Follows, Result, Like

LEMMA ByIdentityFollows ==
    ASSUME NEW p, GoodPane(p), NEW agent \in Agents, NEW session \in RSession,
           NEW e \in REvents, e.kind # "start", e.kind # "compact", e \in ClaudeEvents => agent = "claude",
           NEW r, r = ByIdentity(p, agent, session, e), r.ok
    PROVE  Follows(r.pane, p) /\ r = Accept(r.pane, NoTracker)
<1>0. Sane(p) /\ Fits(p) /\ session # Unbound /\ (p.armed => p.session = Unbound)
  BY ReducerAssumption DEF ReducerAssumption, GoodPane
<1>a. \A x, t : Accept(x, t).pane = x /\ Accept(x, t).tracker = t /\ Accept(x, t).ok BY DEF Accept
<1>d. FALSE \in BOOLEAN /\ TRUE \in BOOLEAN OBVIOUS
<1>1. CASE p.agent = agent /\ p.session = session /\ p.present
  <2>1. PICK q : q = apply_regular_explicit_event(p, e, FALSE) OBVIOUS
  <2>4. Result(q, p) BY <1>0, <1>1, <1>d, <2>1, EventFitting
  <2>5. Follows(q, p) BY <2>4, ResultFollows DEF SameWork
  <2> QED BY <1>a, <1>1, <2>1, <2>5 DEF ByIdentity
<1>2. CASE p.agent = agent /\ p.session = Unbound /\ p.present
  <2>1. CASE EpochEvidence(e) \/ (is_completion_for_state(p, e) /\ p.armed)
    <3>1. PICK a : a = [p EXCEPT !.session = session] OBVIOUS
    <3>2. PICK q : q = apply_regular_explicit_event(a, e, FALSE) OBVIOUS
    <3>4. /\ Sane(a) /\ Fits(a) /\ a.session = session /\ SameWork(a, p) /\ a.agent = p.agent
          /\ a.present = p.present /\ a.armed = p.armed /\ a.run = p.run /\ a.done = p.done /\ a.epoch = p.epoch
      BY <1>0, <3>1, BindFits
    <3>6. Result(q, a) BY <1>0, <1>2, <1>d, <2>1, <3>2, <3>4, EventFitting DEF is_completion_for_state
    <3>7. Follows(q, p) BY <3>4, <3>6, ResultFollows
    <3> QED BY <1>a, <1>0, <1>2, <2>1, <3>1, <3>2, <3>7 DEF ByIdentity
  <2>2. CASE ~(EpochEvidence(e) \/ (is_completion_for_state(p, e) /\ p.armed))
    BY <1>0, <1>2, <2>2, <1>a DEF ByIdentity, Follows
  <2> QED BY <2>1, <2>2
<1>3. CASE ~(p.agent = agent /\ p.session = session /\ p.present) /\ ~(p.agent = agent /\ p.session = Unbound /\ p.present)
           /\ EpochEvidence(e)
  <2>1. PICK v \in BOOLEAN : v = p.present BY <1>0 DEF Sane, PaneShape
  <2>2. PICK a : a = begin_agent_epoch(p, agent, session, v) OBVIOUS
  <2>3. PICK q : q = apply_regular_explicit_event(a, e, FALSE) OBVIOUS
  <2>4. r = Accept(q, NoTracker) BY <1>3, <2>1, <2>2, <2>3 DEF ByIdentity, Stale
  <2>5. /\ Sane(a) /\ Fits(a) /\ a.present /\ a.agent = agent /\ a.session = session /\ ~a.armed
        /\ a.epoch # p.epoch
    BY <1>0, <2>2, EpochFits
  <2>6. Result(q, a) BY <1>0, <1>d, <2>3, <2>5, EventFitting
  <2>7. Follows(q, p) BY <2>5, <2>6, NewEpochFollows
  <2> QED BY <1>a, <2>4, <2>7
<1>4. CASE ~p.present /\ ~EpochEvidence(e) /\ p.agent = agent /\ p.session = session /\ is_completion_for_state(p, e)
  <2>1. PICK q : q = apply_regular_explicit_event(p, e, FALSE) OBVIOUS
  <2>4. Result(q, p) BY <1>0, <1>4, <1>d, <2>1, EventFitting
  <2>5. q \in PaneShape /\ q.present = FALSE /\ q.verified = TRUE
    BY <1>4, <1>0, <2>4 DEF Result, Sane, Fits, PaneShape, Like
  <2>6. [[q EXCEPT !.present = FALSE] EXCEPT !.verified = TRUE] = q BY <2>5 DEF PaneShape
  <2>7. r = Accept(q, NoTracker) BY <1>4, <2>1, <2>6 DEF Accept, ByIdentity
  <2>8. Follows(q, p) BY <2>4, ResultFollows DEF SameWork
  <2> QED BY <1>a, <2>7, <2>8
<1>5. CASE ~(p.agent = agent /\ p.session = session /\ p.present) /\ ~(p.agent = agent /\ p.session = Unbound /\ p.present)
           /\ ~EpochEvidence(e)
           /\ ~(~p.present /\ p.agent = agent /\ p.session = session /\ is_completion_for_state(p, e))
  BY <1>5 DEF ByIdentity, Stale
<1> QED BY <1>1, <1>2, <1>3, <1>4, <1>5

TrackerRec ==
    [match : BOOLEAN, hook : BOOLEAN, verify : BOOLEAN, absence : Nat, kind : Agents \cup {"none"},
     streak : Nat, print : Nat, rebase : BOOLEAN, last : Nat]

LEMMA NoTrackerFits == NoTracker \in TrackerRec /\ NoTracker.absence = 0 BY DEF NoTracker, TrackerRec

LEMMA ResetFits == ASSUME NEW n \in Nat PROVE reset_tracker(n) \in TrackerRec /\ reset_tracker(n).absence = 0
  BY DEF reset_tracker, NoTracker, TrackerRec

LEMMA TrackerAfterFits ==
    ASSUME tracker \in TrackerRec, NEW p, NEW q, NEW e, NEW agent, NEW session
    PROVE  TrackerAfter(p, q, e, agent, session) \in TrackerRec
<1>1. PICK base : base = IF q.epoch # p.epoch THEN reset_tracker(0)
                         ELSE IF tracker.match THEN tracker ELSE reset_tracker(tracker.last)
  OBVIOUS
<1>2. base \in TrackerRec BY <1>1, ResetFits DEF TrackerRec
<1>6. PICK x, y : /\ x = (base.hook \/ (agent = "codex" /\ ((p.agent = agent /\ p.session = session /\ p.present) \/ EpochEvidence(e))))
                  /\ y = (base.rebase \/ q.done > p.done)
  OBVIOUS
<1>7. TrackerAfter(p, q, e, agent, session) =
        [base EXCEPT !.hook = x, !.verify = FALSE, !.absence = 0, !.kind = "none", !.streak = 0, !.rebase = y]
  BY <1>1, <1>6 DEF TrackerAfter
<1>8. x \in BOOLEAN /\ y \in BOOLEAN BY <1>6
<1>9. PICK b : b = [base EXCEPT !.verify = FALSE, !.absence = 0, !.kind = "none", !.streak = 0] OBVIOUS
<1>10. b \in TrackerRec BY <1>2, <1>9 DEF TrackerRec
<1>11. PICK c : c = [b EXCEPT !.hook = x] OBVIOUS
<1>13. TrackerAfter(p, q, e, agent, session) = [c EXCEPT !.rebase = y] BY <1>2, <1>7, <1>9, <1>11 DEF TrackerRec
<1> QED BY <1>8, <1>10, <1>11, <1>13 DEF TrackerRec

LEMMA ExplicitFollows ==
    ASSUME NEW p, Exists(p) => GoodPane(p), tracker \in TrackerRec, NEW agent \in Agents, NEW session \in RSession,
           NEW e \in REvents, e \in ClaudeEvents => agent = "claude",
           NEW r, r = reduce_explicit(p, agent, session, e), r.ok
    PROVE  /\ r.tracker \in TrackerRec
           /\ Exists(p) => Follows(r.pane, p)
           /\ ~Exists(p) => r.pane = p \/ GoodPane(r.pane)
<1>a. \A x, t : Accept(x, t).pane = x /\ Accept(x, t).tracker = t BY DEF Accept
<1>b. ~Stale.ok BY DEF Stale
<1>e. session # Unbound BY ReducerAssumption DEF ReducerAssumption
<1>1. CASE ~Exists(p) /\ (e.kind = "compact" \/ ~(EpochEvidence(e) \/ is_completion(e)))
  <2>1. r = Stale \/ r = Accept(p, tracker) BY <1>1 DEF reduce_explicit
  <2> QED BY <1>1, <1>a, <1>b, <2>1
<1>2. CASE ~Exists(p) /\ e.kind # "compact" /\ (EpochEvidence(e) \/ is_completion(e))
  <2>1. PICK a : a = new_state(agent, session, FALSE, FALSE) OBVIOUS
  <2>2. PICK q : q = apply_regular_explicit_event(a, e, TRUE) OBVIOUS
  <2>3. PICK x, y : x = (agent = "codex" \/ e.kind = "start") /\ y = (q.done > 0) OBVIOUS
  <2>4. r = Accept(q, [reset_tracker(0) EXCEPT !.hook = x, !.rebase = y])
    BY <1>2, <2>1, <2>2, <2>3 DEF reduce_explicit
  <2>5. Sane(a) /\ Fits(a) /\ a.present /\ a.agent = agent /\ a.session = session /\ ~a.armed
    <3>1. PICK f \in BOOLEAN : f = FALSE OBVIOUS
    <3>2. a = new_state(agent, session, f, f) BY <2>1, <3>1
    <3> QED BY <3>1, <3>2, FreshFits
  <2>6. Result(q, a) BY <1>e, <2>2, <2>5, EventFitting
  <2>7. x \in BOOLEAN /\ y \in BOOLEAN BY <2>3
  <2>8. [reset_tracker(0) EXCEPT !.hook = x, !.rebase = y] \in TrackerRec
    BY <2>7 DEF reset_tracker, NoTracker, TrackerRec
  <2> QED BY <1>2, <1>a, <2>4, <2>6, <2>8, ResultIsGood
<1>3. CASE Exists(p) /\ e.kind = "compact" BY <1>3, <1>a, <1>b DEF reduce_explicit, Follows
<1>4. CASE Exists(p) /\ e.kind = "start"
  <2>1. PICK q : q = begin_agent_epoch(p, agent, session, FALSE) OBVIOUS
  <2>2. r = Accept(q, [reset_tracker(0) EXCEPT !.hook = TRUE]) BY <1>4, <2>1 DEF reduce_explicit
  <2>3. Sane(q) /\ Fits(q) /\ ~q.armed /\ q.epoch # p.epoch
    <3>1. PICK f \in BOOLEAN : f = FALSE OBVIOUS
    <3>2. q = begin_agent_epoch(p, agent, session, f) /\ Sane(p) BY <1>4, <2>1, <3>1 DEF GoodPane
    <3>3. session \in RSession \cup {Unbound} OBVIOUS
    <3> QED BY <3>2, <3>3, EpochFits
  <2>4. [reset_tracker(0) EXCEPT !.hook = TRUE] \in TrackerRec BY DEF reset_tracker, NoTracker, TrackerRec
  <2> QED BY <1>4, <1>a, <2>2, <2>3, <2>4 DEF Follows, GoodPane
<1>5. CASE Exists(p) /\ e.kind \notin {"compact", "start"} /\ interruption_needs_terminal_verification(p, agent, session, e)
  <2>1. r = Accept(p, [tracker EXCEPT !.verify = TRUE]) BY <1>5 DEF reduce_explicit
  <2>2. [tracker EXCEPT !.verify = TRUE] \in TrackerRec BY DEF TrackerRec
  <2> QED BY <1>5, <1>a, <2>1, <2>2 DEF Follows
<1>6. CASE Exists(p) /\ e.kind \notin {"compact", "start"} /\ ~interruption_needs_terminal_verification(p, agent, session, e)
  <2>1. PICK s : s = ByIdentity(p, agent, session, e) OBVIOUS
  <2>3. s.ok BY <1>b, <1>6, <2>1 DEF reduce_explicit
  <2>4. Follows(s.pane, p) /\ s = Accept(s.pane, NoTracker) BY <1>6, <2>1, <2>3, ByIdentityFollows
  <2>5. PICK x, t : x = s.pane /\ t = TrackerAfter(p, s.pane, e, agent, session) OBVIOUS
  <2>7. r = Accept(x, t) BY <2>4, <2>5, <1>6, <2>1, <2>3 DEF Accept, reduce_explicit
  <2> QED BY <1>6, <1>a, <2>4, <2>5, TrackerAfterFits, <2>7
<1> QED BY <1>1, <1>2, <1>3, <1>4, <1>5, <1>6

-----------------------------------------------------------------------------
(* The unread mark, and the user's own mark.                                *)

LEMMA ReportedFits ==
    ASSUME NEW q, Sane(q), NEW i \in DOMAIN q.faults, NEW x, x = [q EXCEPT !.faults[i].reported = TRUE]
    PROVE  /\ Sane(x) /\ Alike(x, q) /\ x.tasks = q.tasks
<1>1. PICK f : f = [q.faults[i] EXCEPT !.reported = TRUE] OBVIOUS
<1>2. PICK s : s = [q.faults EXCEPT ![i] = f] OBVIOUS
<1>4. q.faults \in Seq(FaultRec) /\ q \in PaneShape BY DEF Sane, PaneShape
<1>5. q.faults[i] \in FaultRec BY <1>4, ElementOfSeq, LenProperties
<1>6. f \in FaultRec /\ f.reason = q.faults[i].reason BY <1>1, <1>5 DEF FaultRec
<1>7. s \in Seq(FaultRec) /\ DOMAIN s = DOMAIN q.faults BY <1>2, <1>4, <1>6, ExceptSeq, LenProperties
<1>9. x \in PaneShape /\ Alike(x, q) /\ x.tasks = q.tasks /\ x.faults = s
  BY <1>1, <1>2, <1>4, <1>7 DEF PaneShape, Alike, Like
<1>11. Tracking(x) /\ Tracking(q) BY <1>9, <1>4, <1>7, EmptySeq DEF Tracking, blocks_completion
<1>12. \A j \in DOMAIN x.faults : /\ x.faults[j].reason \in FaultReasons
                                  /\ ~q.present => x.faults[j].reason = "ended"
  BY <1>7, <1>2, <1>6, <1>9 DEF Sane
<1> QED BY <1>9, <1>11, <1>12 DEF Sane, Alike, Like

LEMMA UnreadFits ==
    ASSUME NEW q, Sane(q), NEW u \in UnreadReasons, NEW x, x = [q EXCEPT !.unread = u]
    PROVE  /\ Sane(x) /\ SameWork(x, q) /\ x.agent = q.agent /\ x.session = q.session /\ x.epoch = q.epoch
           /\ x.present = q.present /\ x.verified = q.verified /\ x.armed = q.armed /\ x.life = q.life
           /\ x.run = q.run /\ x.done = q.done /\ x.helpers = q.helpers /\ x.unread = u
  BY WorkTracks DEF Sane, PaneShape, SameWork

(* apply_unread_transition changes what is unread and reported, no more.    *)
Marked(x, q) ==
    /\ Sane(x) /\ x.agent = q.agent /\ x.session = q.session /\ x.epoch = q.epoch
    /\ x.present = q.present /\ x.verified = q.verified /\ x.armed = q.armed /\ x.life = q.life
    /\ x.run = q.run /\ x.done = q.done /\ x.helpers = q.helpers

LEMMA Marks ==
    ASSUME NEW p, NEW q, Sane(q), NEW e, NEW visible, NEW x, x = apply_unread_transition(p, q, e, visible)
    PROVE  Marked(x, q)
<1>1. PICK own : own = {i \in DOMAIN q.faults : q.faults[i].reason = q.life} OBVIOUS
<1>2. PICK news : news = {i \in own : ~q.faults[i].reported} OBVIOUS
<1> DEFINE told == IF news = {} THEN q
                   ELSE [q EXCEPT !.faults[CHOOSE j \in news : \A k \in news : j <= k].reported = TRUE]
<1>4. Sane(told) /\ Alike(told, q)
  <2>1. CASE news = {} BY <2>1 DEF Alike, Like
  <2>2. CASE news # {}
    <3>1. news \subseteq Nat /\ news \subseteq DOMAIN q.faults BY <1>1, <1>2, LenProperties DEF Sane, PaneShape
    <3>2. PICK i : i = CHOOSE j \in news : \A k \in news : j <= k OBVIOUS
    <3>4. told = [q EXCEPT !.faults[i].reported = TRUE] BY <2>2, <3>2
    <3> QED BY <3>1, <2>2, <3>2, MinInSet, <3>4, ReportedFits DEF Min
  <2> QED BY <2>1, <2>2
<1>5. PICK reason \in UnreadReasons \cup {"none"} :
        x = IF own # {} /\ news = {} THEN q
            ELSE IF reason = "none" THEN told
            ELSE [told EXCEPT !.unread = IF visible \/ e = "mark_done" THEN "read" ELSE reason]
  <2>1. PICK same : same <=> (Exists(p) /\ p.epoch = q.epoch) OBVIOUS
  <2>2. PICK reason : reason = IF q.life \in {"waiting", "limited"}
                  THEN IF (Exists(p) /\ p.epoch = q.epoch) /\ p.life \in {"waiting", "limited"} THEN "none" ELSE "waiting"
                  ELSE IF IsError(q.life) /\ (news # {} \/ ~((Exists(p) /\ p.epoch = q.epoch) /\ IsError(p.life)))
                  THEN "error"
                  ELSE IF q.done > (IF Exists(p) /\ p.epoch = q.epoch THEN p.done ELSE 0) THEN "completed" ELSE "none"
    OBVIOUS
  <2>a. x = apply_unread_transition(p, q, e, visible) OBVIOUS
  <2>3. x = IF own # {} /\ news = {} THEN q
            ELSE IF reason = "none" THEN told
            ELSE [told EXCEPT !.unread = IF visible \/ e = "mark_done" THEN "read" ELSE reason]
    BY ONLY <1>1, <1>2, <2>2, <2>a DEF apply_unread_transition
  <2> QED BY <2>3, <2>2 DEF UnreadReasons
<1> HIDE DEF told
<1>6. CASE x = q BY <1>6 DEF Marked
<1>7. CASE x = told BY <1>4, <1>7 DEF Marked, Alike, Like
<1>8. CASE x # q /\ x # told BY <1>5, <1>8, <1>4, UnreadFits DEF UnreadReasons, Marked, Alike, Like
<1> QED BY <1>6, <1>7, <1>8

LEMMA MarkedGood ==
    ASSUME NEW x, NEW q, Marked(x, q)
    PROVE  /\ GoodPane(q) => GoodPane(x)
           /\ validate(x) => GoodPane(x)
  BY ValidIsGood DEF Marked, GoodPane, Fits

(* mark_done closes the run, whatever the agent awaits.                     *)
LEMMA UserCloses ==
    ASSUME NEW p, GoodPane(p), NEW q, q = mark_done(p)
    PROVE  GoodPane(q) /\ q.life = "idle" /\ q.faults = << >> /\ Like(q, p) /\ q.done > 0
<1>1. PICK n : n = IF p.run = p.done THEN p.run + 1 ELSE p.run OBVIOUS
<1>2. PICK a : a = [Cleared(p) EXCEPT !.run = n, !.done = n, !.life = "idle", !.armed = FALSE] OBVIOUS
<1>3. q = [a EXCEPT !.helpers = {}] BY <1>1, <1>2 DEF mark_done
<1>4. p \in PaneShape /\ n \in Nat /\ n > 0 /\ (p.session = Unbound => p.helpers = {})
  BY <1>1 DEF GoodPane, Sane, PaneShape
<1>5. Sane(a) /\ RunOver(a, p) BY <1>2, <1>4, RunCloses
<1>7. /\ q \in PaneShape /\ SameWork(q, a) /\ Like(q, a) /\ q.run = a.run /\ q.done = a.done /\ q.life = a.life
      /\ q.helpers = {} /\ q.armed = a.armed
  BY <1>3, <1>5 DEF Sane, PaneShape, SameWork, Like
<1>9. q.faults = << >> BY <1>5, <1>7, WorkTracks, NothingToClear DEF RunOver
<1>10. Sane(q) BY <1>5, <1>7, WorkTracks DEF Sane, SameWork, Like
<1> QED BY <1>5, <1>7, <1>9, <1>10 DEF GoodPane, Fits, RunOver, Like

-----------------------------------------------------------------------------
(* Observations.                                                            *)

Infers == {"none", "limit", "no_change", "error", "modal", "activity", "completed"}
QuietInfers == {"none", "limit", "no_change", "error"}

(* What the screen says leaves the agent and what it awaits as they are.    *)
CapturedAs(r, p, t, infer) ==
    /\ r.tracker \in TrackerRec /\ r.tracker.absence = t.absence
    /\ r = Accept(r.pane, r.tracker)
    /\ Sane(r.pane) /\ Like(r.pane, p) /\ (blocks_completion(p) => r.pane.done = p.done)
    /\ infer \in QuietInfers /\ r.pane # p =>
          /\ SameWork(r.pane, p) /\ r.pane.run = r.pane.done + 1 /\ ~r.pane.armed
          /\ r.pane.life \in {"limited", "error"} /\ r.pane.helpers \subseteq p.helpers

LEMMA Captures ==
    ASSUME NEW p, Sane(p), NEW t \in TrackerRec, NEW infer \in Infers, NEW r, r = apply_capture(p, t, infer)
    PROVE  CapturedAs(r, p, t, infer)
<1>a. \A x, y : Accept(x, y).pane = x /\ Accept(x, y).tracker = y BY DEF Accept
<1>b. Like(p, p) BY DEF Like
<1>1. CASE infer = "none" BY <1>1, <1>a, <1>b DEF apply_capture, CapturedAs
<1>2. CASE infer # "none"
  <2>1. PICK u : u = [t EXCEPT !.verify = FALSE, !.print = 1, !.rebase = FALSE] OBVIOUS
  <2>2. u \in TrackerRec /\ u.absence = t.absence BY <2>1 DEF TrackerRec
  <2>4. CASE r = Accept(p, u) BY <1>a, <1>b, <2>2, <2>4 DEF CapturedAs
  <2>5. ASSUME NEW l \in {"limited", "error", "waiting"}, r = Accept(wait_requested(p, l), u),
               infer \in QuietInfers => l # "waiting"
        PROVE  CapturedAs(r, p, t, infer)
    BY <2>5, Waits, <1>a, <2>2 DEF Lifes, CapturedAs
  <2>6. CASE infer = "activity" /\ r = Accept(activity_observed(p), u)
    BY <1>a, <2>2, <2>6, Acts DEF QuietInfers, CapturedAs
  <2>7. CASE infer = "completed" /\ r = Accept(complete_run(p, FALSE), u)
    <3>1. PICK f \in BOOLEAN : f = FALSE OBVIOUS
    <3>2. PICK q : q = complete_run(p, f) OBVIOUS
    <3>4. blocks_completion(p) => Holds(p, f) BY BlocksTracks DEF Holds
    <3>5. Sane(q) /\ Like(q, p) /\ (blocks_completion(p) => q.done = p.done)
      BY <1>b, <3>2, Completes, <3>4 DEF RunOver
    <3>7. r.pane = q /\ r.tracker = u /\ r = Accept(r.pane, r.tracker) BY <1>a, <2>7, <3>1, <3>2
    <3> QED BY <2>2, <3>5, <3>7, <2>7 DEF CapturedAs, QuietInfers
  <2> QED BY <1>2, <2>1, <2>4, <2>5, <2>6, <2>7 DEF apply_capture, QuietInfers, Infers
<1> QED BY <1>1, <1>2

TakenAway(x) == [x EXCEPT !.present = FALSE, !.verified = TRUE]

(* Nothing is left of the background work but that it ended.                *)
WorkEnded(x) ==
    /\ \A t \in BgTask : x.tasks[t] = "none"
    /\ \A i \in DOMAIN x.faults : x.faults[i].reason = "ended"

(* The same pane, away.                                                     *)
AwayFrom(q, x) ==
    /\ Sane(q) /\ q.agent = x.agent /\ q.session = x.session /\ q.epoch = x.epoch
    /\ q.present = FALSE /\ q.verified = TRUE /\ q.armed = x.armed /\ q.life = x.life
    /\ q.run = x.run /\ q.done = x.done

LEMMA GoesAway ==
    ASSUME NEW x, Sane(x), WorkEnded(x)
    PROVE  AwayFrom(TakenAway(x), x)
  BY WorkTracks DEF Sane, PaneShape, SameWork, TakenAway, WorkEnded, AwayFrom

(* An agent without subagents goes away in a state the check accepts.       *)
LEMMA AbsenceFits ==
    ASSUME NEW c, Sane(c), NEW q, q = confirm_absent(c)
    PROVE  /\ Sane(q) /\ ~q.present /\ q.epoch = c.epoch /\ q.agent = c.agent
           /\ blocks_completion(c) => q.done = c.done
           /\ c.helpers = {} /\ (c.run = c.done => c.life = "idle" /\ (c.armed => c.session = Unbound)) => GoodPane(q)
<1>1. CASE Tracking(c)
  <2>1. PICK x : x = end_claude_tracking(c) OBVIOUS
  <2>4. /\ Sane(q) /\ q.agent = x.agent /\ q.epoch = x.epoch
        /\ q.present = FALSE /\ q.verified = TRUE /\ q.armed = x.armed /\ q.life = x.life
        /\ q.run = x.run /\ q.done = x.done
    <3>1. Sane(x) /\ WorkEnded(x) BY <1>1, <2>1, TrackingEnds DEF WorkEnded
    <3>2. AwayFrom(TakenAway(x), x) BY <3>1, GoesAway
    <3> QED BY <1>1, <2>1, <3>2 DEF AwayFrom, confirm_absent, TakenAway
  <2>5. c.run # c.done /\ ~c.armed BY <1>1, Blocked
  <2> QED BY <1>1, <2>1, TrackingEnds, <2>4, <2>5 DEF GoodPane, Fits, Like
<1>2. CASE ~Tracking(c)
  <2>1. PICK x : x = IF c.run > c.done THEN complete_run(c, FALSE) ELSE c OBVIOUS
  <2>4. /\ Sane(x) /\ ~Tracking(x) /\ x.epoch = c.epoch /\ x.agent = c.agent
        /\ x = c \/ RunOver(x, c)
        /\ c.run > c.done /\ c.helpers = {} => RunOver(x, c)
    <3>1. CASE ~(c.run > c.done) BY <1>2, <2>1, <3>1
    <3>2. CASE c.run > c.done
      <4>1. PICK f \in BOOLEAN : f = FALSE OBVIOUS
      <4>3. Sane(x) /\ (Holds(c, f) => x = c) /\ (~Holds(c, f) => RunOver(x, c)) BY <2>1, <3>2, <4>1, Completes
      <4>4. c.helpers = {} => ~Holds(c, f) BY <1>2, <3>2 DEF Holds, Sane, PaneShape
      <4> QED BY <1>2, <4>3, <4>4 DEF RunOver, Like
    <3> QED BY <3>1, <3>2
  <2>6. /\ Sane(q) /\ q.agent = x.agent /\ q.session = x.session /\ q.epoch = x.epoch
        /\ q.present = FALSE /\ q.verified = TRUE /\ q.armed = x.armed /\ q.life = x.life
        /\ q.run = x.run /\ q.done = x.done
    <3>1. Sane(x) /\ WorkEnded(x) BY <2>4, NothingToClear DEF WorkEnded, Sane
    <3>2. AwayFrom(TakenAway(x), x) BY <3>1, GoesAway
    <3> QED BY <1>2, <2>1, <3>2 DEF AwayFrom, confirm_absent, TakenAway
  <2>7. ASSUME c.helpers = {}, c.run = c.done => c.life = "idle" /\ (c.armed => c.session = Unbound)
        PROVE  GoodPane(q)
    <3>1. CASE c.run > c.done BY <2>4, <2>6, <2>7, <3>1 DEF RunOver, GoodPane, Fits
    <3>2. CASE ~(c.run > c.done) BY <2>1, <3>2, <2>6, <2>7 DEF GoodPane, Fits, Sane, PaneShape
    <3> QED BY <3>1, <3>2
  <2> QED BY <1>2, BlocksTracks, <2>4, <2>6, <2>7
<1> QED BY <1>1, <1>2

-----------------------------------------------------------------------------
(* A pane as sane as p was, of which a run closes over no awaited result.   *)
LooksLike(s, p) ==
    /\ s.tracker \in TrackerRec /\ Sane(s.pane)
    /\ s.pane.epoch = p.epoch /\ blocks_completion(p) => s.pane.done = p.done

LEMMA VerifiedFits ==
    ASSUME NEW p, Sane(p), NEW x, x = [p EXCEPT !.verified = TRUE]
    PROVE  Sane(x) /\ SameWork(x, p) /\ x.epoch = p.epoch /\ x.done = p.done
  BY WorkTracks DEF Sane, PaneShape, SameWork

LEMMA CapturedSeen ==
    ASSUME NEW p, NEW x, Sane(x), SameWork(x, p), x.epoch = p.epoch, x.done = p.done,
           NEW t \in TrackerRec, NEW infer \in Infers, NEW r, r = apply_capture(x, t, infer)
    PROVE  LooksLike(r, p)
  BY Captures, WorkTracks DEF CapturedAs, LooksLike

(* Absence: the second poll in a row that misses the agent takes it away.   *)
LEMMA AbsenceSeen ==
    ASSUME NEW c, Sane(c), NEW u \in TrackerRec, NEW s, s = Absence(Accept(c, u))
    PROVE  /\ s.tracker \in TrackerRec /\ s = Accept(s.pane, s.tracker)
           /\ u.absence = 0 => s.pane = c /\ s.tracker.absence = 1
           /\ u.absence # 0 => s.pane = confirm_absent(c)
<1>a. \A x, y : Accept(x, y).pane = x /\ Accept(x, y).tracker = y BY DEF Accept
<1>1. u.absence \in Nat BY DEF TrackerRec
<1>2. CASE u.absence = 0 BY <1>a, <1>2 DEF Absence, TrackerRec
<1>3. CASE u.absence # 0 BY <1>1, <1>3, <1>a DEF Absence, TrackerRec
<1> QED BY <1>2, <1>3

LEMMA GoneSeen ==
    ASSUME NEW p, NEW c, Sane(c), NEW u \in TrackerRec, NEW s, s = Absence(Accept(c, u)),
           c.epoch = p.epoch, blocks_completion(p) => blocks_completion(c) /\ c.done = p.done
    PROVE  LooksLike(s, p)
  BY AbsenceSeen, AbsenceFits DEF LooksLike

LEMMA ReplacedSeen ==
    ASSUME NEW p, Sane(p), NEW t \in TrackerRec, NEW kind \in Agents, NEW s, s = Replacement(p, t, kind)
    PROVE  LooksLike(s, p)
<1>a. \A x, y : Accept(x, y).pane = x /\ Accept(x, y).tracker = y BY DEF Accept
<1>1. PICK r : r = IF p.verified THEN Absence(Accept(p, t)) ELSE Accept(p, t) OBVIOUS
<1>2. LooksLike(r, p) /\ r = Accept(r.pane, r.tracker) BY <1>1, AbsenceSeen, GoneSeen, <1>a DEF LooksLike
<1>3. PICK x, y : x = r.pane /\ y = r.tracker OBVIOUS
<1>4. PICK n : n = IF t.kind # kind THEN 1 ELSE IF t.streak > 1 THEN 2 ELSE t.streak + 1 OBVIOUS
<1>5. n \in Nat BY <1>4 DEF TrackerRec
<1>6. PICK z : z = [[y EXCEPT !.kind = kind] EXCEPT !.streak = n] OBVIOUS
<1>7. y \in TrackerRec BY <1>2, <1>3 DEF LooksLike
<1>8. z \in TrackerRec BY <1>5, <1>6, <1>7 DEF TrackerRec
<1>9. s = Accept(x, z)
  <2>1. s = [r EXCEPT !.tracker.kind = kind, !.tracker.streak = n] BY <1>1, <1>4 DEF Replacement
  <2>2. r = [ok |-> TRUE, pane |-> x, tracker |-> y] BY <1>2, <1>3 DEF Accept
  <2>3. s = [ok |-> TRUE, pane |-> x, tracker |-> z] BY <1>6, <2>1, <2>2
  <2> QED BY <2>3 DEF Accept
<1> QED BY <1>a, <1>2, <1>3, <1>8, <1>9 DEF LooksLike

(* What two polls in a row that miss the agent make of its pane.            *)
Missed(s, p, t) ==
    /\ ~p.verified => ~s.pane.verified
    /\ ~p.present => ~s.pane.present
    /\ p.verified /\ p.present /\ t.absence = 0 => GoodPane(s.pane) /\ s.tracker.absence = 1
    /\ p.verified /\ t.absence # 0 =>
          /\ ~s.pane.present
          /\ p.present /\ p.helpers = {} => GoodPane(s.pane)

LEMMA MissedSeen ==
    ASSUME NEW p, GoodPane(p), NEW t \in TrackerRec, NEW infer \in QuietInfers,
           NEW r, r = apply_capture(p, t, infer),
           NEW s, s = IF p.verified THEN Absence(r) ELSE r
    PROVE  LooksLike(s, p) /\ Missed(s, p, t)
<1>0. Sane(p) /\ Fits(p) /\ infer \in Infers /\ p.run \in Nat /\ p.done \in Nat /\ p.helpers \subseteq Helper
  BY DEF GoodPane, Sane, PaneShape, QuietInfers, Infers
<1>1. PICK c, u : c = r.pane /\ u = r.tracker OBVIOUS
<1>2. /\ u \in TrackerRec /\ u.absence = t.absence /\ r = Accept(c, u)
      /\ Sane(c) /\ Like(c, p) /\ (blocks_completion(p) => c.done = p.done)
      /\ c # p => /\ SameWork(c, p) /\ c.run = c.done + 1 /\ ~c.armed
                  /\ c.life \in {"limited", "error"} /\ c.helpers \subseteq p.helpers
  BY <1>0, Captures, <1>1 DEF CapturedAs
<1>5. p.present => GoodPane(c) BY <1>0, <1>2 DEF GoodPane, Fits, Like, Sane, PaneShape
<1>6. c.run = c.done => c.life = "idle" /\ (c.armed => c.session = Unbound)
  BY <1>2 DEF GoodPane, Fits, Sane, PaneShape
<1>7. p.helpers = {} => c.helpers = {} BY <1>2
<1>8. CASE ~p.verified BY <1>2, <1>8 DEF Accept, LooksLike, Missed, Like
<1>9. CASE p.verified
  BY <1>2, <1>9, WorkTracks, GoneSeen, AbsenceSeen, AbsenceFits, <1>5, <1>6, <1>7 DEF Like, Missed
<1> QED BY <1>8, <1>9

Seeing == Agents \cup {"unknown", "absent"}
Frozen == {o \in [presence : Seeing, infer : Infers, id : Nat] : o.presence = "absent" => o.infer \in QuietInfers}

LEMMA BornFits ==
    ASSUME NEW o \in Frozen, NEW b, b = [reset_tracker(o.id) EXCEPT !.print = IF o.infer = "none" THEN 0 ELSE 1]
    PROVE  b \in TrackerRec
  BY DEF Frozen, reset_tracker, NoTracker, TrackerRec

LEMMA ObservationSeen ==
    ASSUME NEW p, Exists(p) => GoodPane(p), NEW t \in TrackerRec, NEW o \in Frozen,
           NEW s, s = reduce_observation(p, t, o)
    PROVE  /\ s.tracker \in TrackerRec
           /\ ~Exists(p) => (o.presence \in Agents /\ Sane(s.pane)) \/ s.pane = p
           /\ Exists(p) => Sane(s.pane) /\ (s.pane.epoch = p.epoch => LooksLike(s, p))
           /\ Exists(p) /\ o.presence = "absent" => LooksLike(s, p) /\ Missed(s, p, t)
<1>a. \A x, y : Accept(x, y).pane = x /\ Accept(x, y).tracker = y BY DEF Accept
<1>b. PICK born : born = [reset_tracker(o.id) EXCEPT !.print = IF o.infer = "none" THEN 0 ELSE 1] OBVIOUS
<1>d. PICK calm : calm = [t EXCEPT !.kind = "none", !.streak = 0] OBVIOUS
<1>e. calm \in TrackerRec /\ calm.absence = t.absence BY <1>d DEF TrackerRec
<1>f. PICK succ : succ = Accept(begin_agent_epoch(p, o.presence, Unbound, TRUE), born) OBVIOUS
<1>g. o.presence \in Seeing /\ o.infer \in Infers /\ o.id \in Nat /\ (o.presence = "absent" => o.infer \in QuietInfers)
  BY DEF Frozen
<1>h. {"unknown", "absent"} \cap Agents = {} BY DEF Agents
<1>i. TRUE \in BOOLEAN /\ Unbound \in RSession \cup {Unbound} OBVIOUS
<1>1. CASE ~Exists(p) /\ o.presence \in Agents
  <2>1. PICK q : q = new_state(o.presence, Unbound, TRUE, TRUE) OBVIOUS
  <2>2. s = Accept(q, born) BY <1>1, <1>b, <2>1 DEF reduce_observation
  <2>3. Sane(q)
    <3>1. PICK b \in BOOLEAN : b = TRUE OBVIOUS
    <3>2. PICK n \in RSession \cup {Unbound} : n = Unbound OBVIOUS
    <3>3. q = new_state(o.presence, n, b, b) BY <2>1, <3>1, <3>2
    <3> QED BY <1>1, <3>3, FreshFits
  <2> QED BY <1>1, <1>a, <1>b, BornFits, <2>2, <2>3
<1>2. CASE ~Exists(p) /\ o.presence \notin Agents BY <1>2, <1>a DEF reduce_observation
<1>3. CASE Exists(p) /\ o.presence = "unknown"
  <2>1. PICK u : u = [calm EXCEPT !.absence = 0] OBVIOUS
  <2>3. u \in TrackerRec BY <1>e, <2>1 DEF TrackerRec
  <2> QED BY <1>3, <1>a, <1>d, <2>1, <2>3 DEF LooksLike, GoodPane, reduce_observation
<1>4. CASE Exists(p) /\ o.presence = "absent"
  <2>1. PICK r : r = apply_capture(p, calm, o.infer) OBVIOUS
  <2>3. LooksLike(s, p) /\ Missed(s, p, calm) BY <1>4, <1>e, <1>g, <2>1, <1>d, MissedSeen DEF reduce_observation
  <2> QED BY <1>4, <2>3, <1>e DEF LooksLike, Missed
<1>5. CASE Exists(p) /\ o.presence \in Agents /\ s = succ
  <2>1. PICK q : q = begin_agent_epoch(p, o.presence, Unbound, TRUE) OBVIOUS
  <2>2. s = Accept(q, born) BY <1>5, <1>f, <2>1
  <2>3. Sane(q) /\ q.epoch # p.epoch
    <3>1. PICK b \in BOOLEAN : b = TRUE OBVIOUS
    <3>2. PICK n \in RSession \cup {Unbound} : n = Unbound OBVIOUS
    <3>3. q = begin_agent_epoch(p, o.presence, n, b) BY <2>1, <3>1, <3>2
    <3> QED BY <1>5, <3>3, EpochFits DEF GoodPane
  <2> QED BY <1>5, <1>a, <1>b, BornFits, <1>h, <2>2, <2>3
<1>6. CASE Exists(p) /\ o.presence \in Agents /\ o.presence = p.agent /\ s # succ
  <2>1. PICK x : x = [p EXCEPT !.verified = TRUE] OBVIOUS
  <2>2. PICK u : u = [calm EXCEPT !.absence = 0, !.last = o.id] OBVIOUS
  <2>3. s = apply_capture(x, u, o.infer) BY <1>6, <1>b, <1>d, <1>f, <1>h, <2>1, <2>2 DEF reduce_observation
  <2>4. u \in TrackerRec BY <1>e, <2>2, <1>g DEF TrackerRec
  <2>5. Sane(x) /\ SameWork(x, p) /\ x.epoch = p.epoch /\ x.done = p.done BY <1>6, <2>1, VerifiedFits DEF GoodPane
  <2>6. LooksLike(s, p) BY <1>g, <2>3, <2>4, <2>5, CapturedSeen
  <2> QED BY <1>6, <1>h, <2>6 DEF LooksLike
<1>7. CASE Exists(p) /\ o.presence \in Agents /\ o.presence # p.agent /\ s # succ
  <2>2. LooksLike(s, p) BY <1>7, <1>b, <1>f, <1>h, ReplacedSeen DEF GoodPane, reduce_observation
  <2> QED BY <1>7, <1>h, <2>2 DEF LooksLike
<1> QED BY <1>1, <1>2, <1>3, <1>4, <1>5, <1>6, <1>7, <1>g DEF Seeing

-----------------------------------------------------------------------------
(* The reducer.                                                             *)

(* What the saved and the shown pane is: one that the check accepts. Polls  *)
(* that missed the agent count in the tracker until it is away.             *)
KeptPane(p) == p = Empty \/ (GoodPane(p) /\ Bounded(p))

ReducerInv ==
    /\ KeptPane(pane) /\ ~rejected
    /\ tracker \in TrackerRec /\ polls \in 0..2 /\ inputs \in Nat
    /\ process.kind \in Agents \cup {"none"} /\ process.id \in Nat
    /\ flight = Nothing \/ flight \in Frozen
    /\ polls > 0 /\ Exists(pane) /\ pane.verified /\ pane.present => tracker.absence # 0
    /\ polls = 2 /\ Exists(pane) /\ pane.verified /\ pane.helpers = {} => ~pane.present

LEMMA EmptyIsNone == ~Exists(Empty) /\ \A q : Sane(q) => Exists(q) BY DEF Exists, Empty, Sane, PaneShape, Agents

LEMMA ReducerStarts == ReducerInit => ReducerInv BY NoTrackerFits DEF ReducerInit, ReducerInv, KeptPane

LEMMA InvIsSound ==
    ASSUME ReducerInv PROVE ReducerSound
  BY EmptyIsNone, ReducerAssumption DEF ReducerInv, KeptPane, GoodPane, Sane, Bounded, ReducerAssumption, PaneShape,
    PaneState, FaultRec, ReducerSound

(* A state the check accepts takes the place of the pane's.                 *)
LEMMA Takes ==
    ASSUME ReducerInv, NEW r, NEW e, r.tracker \in TrackerRec, r.pane = pane \/ GoodPane(r.pane), Reduce(r, e)
    PROVE  /\ pane' = pane \/ Marked(pane', r.pane)
           /\ KeptPane(pane') /\ ~rejected' /\ tracker' = r.tracker
           /\ flight' = Nothing \/ flight' \in Frozen
  BY Marks, MarkedGood, GoodIsValid, EmptyIsNone DEF Reduce, GoodPane, ReducerInv, KeptPane

(* AwaitedHoldsRun, of one step.                                            *)
HoldsRun ==
    Exists(pane) /\ pane'.epoch = pane.epoch /\ pane'.done > pane.done /\ blocks_completion(pane)
    => inputs' > inputs /\ pane'.unread = "read" /\ tracker'.rebase

LEMMA NothingCloses ==
    ASSUME ReducerInv, Exists(pane) /\ pane'.epoch = pane.epoch /\ blocks_completion(pane) => pane'.done = pane.done
    PROVE  HoldsRun
  BY EmptyIsNone DEF ReducerInv, KeptPane, GoodPane, Sane, PaneShape, HoldsRun

LEMMA InputCounts == ASSUME ReducerInv, Input PROVE inputs' \in Nat /\ inputs' > inputs BY DEF ReducerInv, Input

LEMMA ExplicitKeeps ==
    ASSUME ReducerInv, NEW agent \in Agents, NEW session \in RSession, NEW e \in REvents,
           e \in ClaudeEvents => agent = "claude", Explicit(agent, session, e)
    PROVE  ReducerInv' /\ HoldsRun
<1>1. PICK r : r = reduce_explicit(pane, agent, session, e) OBVIOUS
<1>2. r.ok /\ Reduce(r, e.kind) /\ Input /\ polls' = 0 /\ UNCHANGED process BY <1>1 DEF Explicit
<1>4. /\ r.tracker \in TrackerRec
      /\ Exists(pane) => Follows(r.pane, pane)
      /\ ~Exists(pane) => r.pane = pane \/ GoodPane(r.pane)
  BY <1>1, <1>2, EmptyIsNone, ExplicitFollows DEF ReducerInv, KeptPane
<1>6. PICK kind : kind = e.kind OBVIOUS
<1>7. Reduce(r, kind) BY <1>2, <1>6
<1>8. /\ pane' = pane \/ Marked(pane', r.pane)
      /\ KeptPane(pane') /\ ~rejected' /\ tracker' = r.tracker
      /\ flight' = Nothing \/ flight' \in Frozen
  BY <1>4, <1>7, Takes DEF Follows
<1>10. polls' \in 0..2 /\ ~(polls' > 0) /\ polls' # 2 BY <1>2
<1>11. KeptPane(pane)' BY <1>8 DEF KeptPane, GoodPane, Sane, Fits, Tracking, blocks_completion, Bounded, Exists
<1>12. ReducerInv' BY <1>2, <1>4, <1>8, InputCounts, <1>10, <1>11 DEF ReducerInv
<1> QED BY <1>12, <1>4, <1>8, NothingCloses DEF Follows, Marked

LEMMA MarkDoneKeeps ==
    ASSUME ReducerInv, MarkDone
    PROVE  ReducerInv' /\ HoldsRun
<1>1. PICK q, t : q = mark_done(pane) /\ t = [tracker EXCEPT !.rebase = TRUE] OBVIOUS
<1>2. PICK r : r = Accept(q, t) OBVIOUS
<1>3. r.pane = q /\ r.tracker = t BY <1>2 DEF Accept
<1>4. Exists(pane) /\ Reduce(r, "mark_done") /\ Input /\ polls' = 0 /\ UNCHANGED process BY <1>1, <1>2 DEF MarkDone
<1>5. GoodPane(pane) /\ t \in TrackerRec /\ t.rebase BY <1>1, <1>4, EmptyIsNone DEF ReducerInv, KeptPane, TrackerRec
<1>6. GoodPane(q) /\ q.life = "idle" /\ q.faults = << >> /\ Like(q, pane) /\ q.done > 0 BY <1>1, <1>5, UserCloses
<1>7. PICK kind : kind = "mark_done" OBVIOUS
<1>8. /\ pane' = pane \/ Marked(pane', r.pane)
      /\ KeptPane(pane') /\ ~rejected' /\ tracker' = r.tracker
      /\ flight' = Nothing \/ flight' \in Frozen
  BY <1>3, <1>4, <1>5, <1>6, <1>7, Takes
<1>10. polls' \in 0..2 /\ ~(polls' > 0) /\ polls' # 2 BY <1>4
<1>11. KeptPane(pane)' BY <1>8 DEF KeptPane, GoodPane, Sane, Fits, Tracking, blocks_completion, Bounded, Exists
<1>12. ReducerInv' BY <1>3, <1>4, <1>5, <1>8, InputCounts, <1>10, <1>11 DEF ReducerInv
<1>13. ASSUME pane'.done > pane.done, pane'.epoch = pane.epoch PROVE pane'.unread = "read"
  BY <1>4, <1>5, <1>13, <1>3, <1>8, <1>6, EmptySeq DEF Reduce, GoodPane, Sane, PaneShape, Marked, IsError,
    apply_unread_transition
<1> QED BY <1>3, <1>5, <1>8, <1>4, InputCounts, <1>12, <1>13 DEF HoldsRun

LEMMA MarkPaneReadKeeps ==
    ASSUME ReducerInv, MarkPaneRead
    PROVE  ReducerInv' /\ HoldsRun
<1>1. /\ Exists(pane) /\ pane' = [pane EXCEPT !.unread = "read"]
      /\ flight' = Nothing /\ Input /\ UNCHANGED <<tracker, process, rejected, polls>>
  BY DEF MarkPaneRead
<1>2. GoodPane(pane) /\ Bounded(pane) /\ Sane(pane) BY <1>1, EmptyIsNone DEF ReducerInv, KeptPane, GoodPane
<1>3. PICK x, u : x = [pane EXCEPT !.unread = u] /\ u = "read" OBVIOUS
<1>4. x = pane' /\ u \in UnreadReasons BY <1>1, <1>3 DEF UnreadReasons
<1>5. /\ Sane(x) /\ SameWork(x, pane) /\ x.agent = pane.agent /\ x.session = pane.session /\ x.epoch = pane.epoch
      /\ x.present = pane.present /\ x.verified = pane.verified /\ x.armed = pane.armed /\ x.life = pane.life
      /\ x.run = pane.run /\ x.done = pane.done /\ x.helpers = pane.helpers
  BY <1>2, <1>3, <1>4, UnreadFits
<1>8. KeptPane(pane)'
  BY <1>4, <1>2, <1>5 DEF KeptPane, GoodPane, Sane, Fits, Tracking, blocks_completion, Bounded, Exists
<1>9. pane'.present = pane.present /\ pane'.verified = pane.verified /\ pane'.helpers = pane.helpers
      /\ pane'.done = pane.done
  BY <1>4, <1>5
<1>10. ReducerInv' BY <1>1, InputCounts, <1>8, <1>9 DEF ReducerInv
<1> QED BY <1>9, <1>10, NothingCloses

LEMMA ScreensSay ==
    ASSUME NEW p, NEW t, NEW presence, NEW mode, mode = capture_mode(p, t, presence),
           NEW sc \in Screens, NEW infer, infer = infer_capture(p, t, mode, sc)
    PROVE  infer \in Infers /\ (presence = "absent" => infer \in QuietInfers)
  BY DEF capture_mode, infer_capture, Infers, QuietInfers

LEMMA PollKeeps ==
    ASSUME ReducerInv, NEW sc \in Screens, NEW complete \in BOOLEAN, Observe(sc, complete)
    PROVE  ReducerInv' /\ HoldsRun
<1>1. PICK presence : presence = IF complete THEN classify_presence(pane, process.kind) ELSE "unknown" OBVIOUS
<1>2. PICK mode : mode = capture_mode(pane, tracker, presence) OBVIOUS
<1>3. PICK infer : infer = infer_capture(pane, tracker, mode, sc) OBVIOUS
<1>4. /\ flight' = [presence |-> presence, id |-> process.id, infer |-> infer]
      /\ UNCHANGED <<pane, tracker, process, rejected, polls, inputs>>
  BY <1>1, <1>2, <1>3 DEF Observe
<1>6. infer \in Infers /\ (presence = "absent" => infer \in QuietInfers) BY <1>2, <1>3, ScreensSay
<1>7. flight' \in Frozen BY <1>4, <1>1, <1>6 DEF Frozen, ReducerInv, classify_presence, Seeing
<1>9. ReducerInv'
  BY <1>4, <1>7 DEF ReducerInv, KeptPane, GoodPane, Sane, Fits, Tracking, blocks_completion, Bounded, Exists
<1> QED BY <1>4, <1>9, NothingCloses

LEMMA ApplyObservationKeeps ==
    ASSUME ReducerInv, ApplyObservation
    PROVE  ReducerInv' /\ HoldsRun
<1>1. PICK o : o = flight OBVIOUS
<1>3. PICK r : r = reduce_observation(pane, tracker, o) OBVIOUS
<1>4. (Exists(pane) => GoodPane(pane)) /\ tracker \in TrackerRec BY EmptyIsNone DEF ReducerInv, KeptPane
<1>5. /\ r.tracker \in TrackerRec
      /\ ~Exists(pane) => (o.presence \in Agents /\ Sane(r.pane)) \/ r.pane = pane
      /\ Exists(pane) => Sane(r.pane) /\ (r.pane.epoch = pane.epoch => LooksLike(r, pane))
      /\ Exists(pane) /\ o.presence = "absent" => LooksLike(r, pane) /\ Missed(r, pane, tracker)
  BY <1>1, <1>3, <1>4, ObservationSeen DEF ApplyObservation, ReducerInv
<1>6. PICK q : q = IF r.pane = pane THEN pane ELSE apply_unread_transition(pane, r.pane, "observation", FALSE)
  OBVIOUS
<1>7. /\ IF Exists(q) /\ ~validate(q) THEN UNCHANGED <<pane, tracker>>
         ELSE Bounded(q) /\ pane' = q /\ tracker' = r.tracker
      /\ flight' = Nothing
      /\ polls' = IF process.kind # "none" \/ o.presence # "absent" THEN 0
                  ELSE IF polls < 2 THEN polls + 1 ELSE 2
      /\ UNCHANGED <<process, rejected, inputs>>
  BY <1>1, <1>3, <1>6 DEF ApplyObservation
<1>8. r.pane = pane \/ (Sane(r.pane) /\ Marked(q, r.pane)) BY <1>5, <1>6, Marks
<1>9. r.pane = pane => q = pane BY <1>6
<1>10. CASE Exists(q) /\ ~validate(q)
  <2>1. pane' = pane /\ tracker' = tracker BY <1>7, <1>10
  <2>2. Exists(pane) => ~GoodPane(r.pane) /\ r.pane # pane BY <1>4, <1>9, <1>10, GoodIsValid, <1>8, MarkedGood
  <2>3. polls' \in 0..2 /\ (polls' > 0 => o.presence = "absent") /\ (polls' = 2 => polls > 0) BY <1>7 DEF ReducerInv
  <2>4. ASSUME polls' > 0, Exists(pane), pane.verified, pane.present PROVE tracker.absence # 0
    BY <1>5, <2>2, <2>3, <2>4 DEF Missed
  <2>5. ASSUME polls' = 2, Exists(pane), pane.verified, pane.helpers = {} PROVE ~pane.present
    BY <2>3, <2>5, <1>5, <2>2 DEF ReducerInv, Missed
  <2>6. KeptPane(pane)'
    BY <2>1 DEF ReducerInv, KeptPane, GoodPane, Sane, Fits, Tracking, blocks_completion, Bounded, Exists
  <2>8. ReducerInv' BY <1>7, <2>1, <2>3, <2>4, <2>5, <2>6 DEF ReducerInv, Exists
  <2> QED BY <2>1, <2>8, NothingCloses
<1>11. CASE ~(Exists(q) /\ ~validate(q))
  <2>1. pane' = q /\ tracker' = r.tracker /\ Bounded(q) BY <1>7, <1>11
  <2>2. q = pane \/ (Marked(q, r.pane) /\ GoodPane(q)) BY <1>9, <1>8, EmptyIsNone, <1>11, MarkedGood DEF Marked
  <2>4. polls' \in 0..2 /\ (polls' > 0 => o.presence = "absent") /\ (polls' = 2 => polls > 0) BY <1>7 DEF ReducerInv
  <2>6. q.verified = r.pane.verified /\ q.present = r.pane.present BY <1>9, <1>8 DEF Marked
  <2>7. ASSUME o.presence = "absent", Exists(q) PROVE Exists(pane) /\ Missed(r, pane, tracker)
    BY <2>7, <1>5, <1>9 DEF Agents
  <2>8. ASSUME polls' > 0, Exists(q), q.verified, q.present PROVE r.tracker.absence # 0
    BY <2>4, <2>7, <2>8, <2>6 DEF Missed
  <2>9. ASSUME polls' = 2, Exists(q), q.verified PROVE ~q.present BY <2>4, <2>7, <2>9, <2>6 DEF Missed, ReducerInv
  <2>10. KeptPane(pane)'
    BY <2>1, <2>2 DEF KeptPane, GoodPane, Sane, Fits, Tracking, blocks_completion, Bounded, Exists, ReducerInv
  <2>12. ReducerInv' BY <1>5, <1>7, <2>1, <2>4, <2>8, <2>9, <2>10 DEF ReducerInv, Exists
  <2>13. ASSUME Exists(pane), pane'.epoch = pane.epoch, blocks_completion(pane) PROVE pane'.done = pane.done
    BY <2>1, <2>2, <2>13, <1>5 DEF Marked, LooksLike
  <2> QED BY <2>12, <2>13, NothingCloses
<1> QED BY <1>10, <1>11

LEMMA ProcessKeeps ==
    ASSUME ReducerInv, ProcessChanges
    PROVE  ReducerInv' /\ HoldsRun
  BY InputCounts, NothingCloses DEF ProcessChanges, ReducerInv, KeptPane, GoodPane, Sane, Fits, Tracking,
    blocks_completion, Bounded, Exists

LEMMA HydrateKeeps ==
    ASSUME ReducerInv, Hydrate
    PROVE  ReducerInv' /\ HoldsRun
<1>1. /\ tracker' = reset_tracker(tracker.last) /\ flight' = Nothing /\ polls' = 0 /\ Input
      /\ UNCHANGED <<pane, process, rejected>>
  BY DEF Hydrate
<1>3. inputs' \in Nat BY <1>1, InputCounts
<1>4. polls' \in 0..2 /\ ~(polls' > 0) /\ polls' # 2 BY <1>1
<1>5. KeptPane(pane)'
  BY <1>1 DEF ReducerInv, KeptPane, GoodPane, Sane, Fits, Tracking, blocks_completion, Bounded, Exists
<1>6. ReducerInv' BY <1>1, ResetFits, <1>3, <1>4, <1>5 DEF ReducerInv, TrackerRec
<1> QED BY <1>1, <1>6, NothingCloses

LEMMA IdleKeeps ==
    ASSUME ReducerInv, UNCHANGED reducerVars
    PROVE  ReducerInv' /\ HoldsRun
  BY NothingCloses DEF reducerVars, ReducerInv, KeptPane, GoodPane, Sane, Fits, Tracking, blocks_completion,
    Bounded, Exists

LEMMA ReducerKeeps ==
    ASSUME ReducerInv, ReducerNext \/ UNCHANGED reducerVars
    PROVE  ReducerInv' /\ HoldsRun
  BY ExplicitKeeps, PollKeeps, MarkDoneKeeps, MarkPaneReadKeeps, ApplyObservationKeeps, ProcessKeeps, HydrateKeeps,
    IdleKeeps DEF REvents, PlainEvents, HelperEvents, ClaudeEvents, Agents, ReducerNext

LEMMA ReducerStep == ReducerInv /\ [ReducerNext]_reducerVars => ReducerInv' BY ReducerKeeps

(* No sequence of hook events, marks, polls and restarts makes a state that *)
(* the reducer's own check refuses, and two polls in a row that miss the    *)
(* process of an agent without subagents leave it absent.                   *)
THEOREM ReducerIsSound == ReducerSpec => []ReducerSound
<1>1. ReducerInv => ReducerSound BY InvIsSound
<1> QED BY <1>1, ReducerStarts, ReducerStep, PTL DEF ReducerSpec

(* A run closes over an awaited background result only by the user's mark.  *)
THEOREM AwaitedResultsHoldTheRun == ReducerSpec => AwaitedHoldsRun
<1>1. ReducerInv /\ [ReducerNext]_reducerVars => [HoldsRun]_reducerVars BY ReducerKeeps
<1> QED BY <1>1, ReducerStarts, ReducerStep, PTL DEF ReducerSpec, AwaitedHoldsRun, HoldsRun

-----------------------------------------------------------------------------
(* Signals of a pane: what the record has been, and what was derived of it. *)

Versions == [id : Nat, rev : Nat]
Lives == {"idle", "running", "blocked", "limited"}
RecShape ==
    [id : Nat \ {0}, rev : Nat, life : Lives, runSeq : Nat, completed : Nat, unread : BOOLEAN, present : BOOLEAN]

(* A record: no run has ended that did not begin, what is unread has ended, *)
(* and an agent that is busy has a run.                                     *)
LiveRec(r) ==
    /\ r \in RecShape
    /\ r.completed <= r.runSeq
    /\ r.unread => r.completed > 0
    /\ r.life # "idle" => r.runSeq > 0
RecGood(r) == r = Gone \/ LiveRec(r)

(* The next version of the same record.                                     *)
NextOf(c, r) ==
    /\ LiveRec(c) /\ c.id = r.id /\ c.rev = r.rev + 1 /\ c.completed >= r.completed

(* Every version it has had, once, and none of a record yet to come.        *)
PastGood(r, P, n) ==
    /\ \A x \in P : x.version \in Versions /\ x.completed \in Nat /\ x.version.id <= n
    /\ \A x \in P : x.version.id = r.id => x.version.rev <= r.rev /\ x.completed <= r.completed
    /\ \A x, y \in P : x.version = y.version => x = y
    /\ \A x \in P : x.version.id = 0 => x = Seen(Gone)
    /\ r # Gone => Seen(r) \in P

(* A transition of this pane is one that a version of its record made.      *)
TransitionRec == [version : Versions, to : Lives \cup {"done", "none"}, completed : Nat]
Happened(e, P) ==
    e.version.id # 0 =>
       \E x \in P : x.version = e.version /\ x.completed = e.completed /\ x.status = EventStatus(e)
MovesGood(M, P) == M \in Seq(TransitionRec) /\ \A k \in 1..Len(M) : Happened(M[k], P)

(* A pane that is Blocked is on the list, and has been Blocked since the    *)
(* version its occurrence is named after.                                   *)
OpenSince(s, r, P) ==
    /\ DOMAIN s = {"generation", "triage", "calm", "flash", "jobs"} /\ s.generation \in Versions
    /\ r.life = "blocked" => s.triage
    /\ r.life = "blocked" /\ s.generation.id = r.id =>
          \A x \in P : x.version.id = r.id /\ x.version.rev >= s.generation.rev => x.status = "blocked"

Unmet(w, x) == x.status \notin w.until \ {"done"} /\ ("done" \in w.until => x.completed < w.expected)
Met(w, x) == x.status = w.out \/ (w.out = "done" /\ x.completed >= w.expected)

WaitShape ==
    [at : {"idle", "waiting", "over"}, until : SUBSET Statuses, base : Versions, expected : Int,
     explicit : BOOLEAN, seen : Nat, out : Statuses \cup {"none", "stale_reference", "event_history_lost"},
     outRev : Nat]
WaitGood(w, r, P, n) ==
    /\ w \in WaitShape
    /\ w.at = "waiting" =>
          /\ w.base.id # 0 /\ w.base.id <= n
          /\ r.id = w.base.id => w.seen <= r.rev
          /\ \A x \in P : x.version.id = w.base.id /\ x.version.rev > w.base.rev /\ x.version.rev <= w.seen
                          => Unmet(w, x)
    /\ w.at = "over" /\ w.out \in Statuses =>
          \E x \in P : x.version.id = w.base.id /\ x.version.rev = w.outRev /\ Met(w, x)

LEMMA GoneIs == Gone.id = 0 /\ Gone.rev = 0 /\ Gone.life = "none" /\ Gone.completed = 0 /\ ~Gone.present /\ RecGood(Gone)
  BY DEF Gone, RecGood

LEMMA LiveIs == ASSUME NEW r, LiveRec(r)
                PROVE  /\ r # Gone /\ r.id \in Nat \ {0} /\ r.rev \in Nat /\ r.completed \in Nat /\ r.runSeq \in Nat
                       /\ r.life \in Lives
  BY GoneIs DEF LiveRec, RecShape

LEMMA SeenIs == ASSUME NEW r
                PROVE  /\ Seen(r).version = [id |-> r.id, rev |-> r.rev] /\ Seen(r).version.id = r.id
                       /\ Seen(r).version.rev = r.rev /\ Seen(r).completed = r.completed
                       /\ Seen(r).status = agent_status(r)
  BY DEF Seen, version

(* What tells Done from Idle on the list agrees with what the API calls it. *)
LEMMA StatusIs ==
    ASSUME NEW r, LiveRec(r), NEW e, e = Transition(r)
    PROVE  /\ e \in TransitionRec /\ e.version = Seen(r).version /\ e.completed = r.completed
           /\ EventStatus(e) = Seen(r).status
           /\ (resolve_badge(r) = "blocked" <=> r.life = "blocked")
           /\ (agent_status(r) = "blocked" <=> r.life = "blocked")
  BY DEF LiveRec, RecShape, version, Versions, resolve_badge, Lives, Transition, TransitionRec, agent_status,
    EventStatus, Seen

LEMMA CandidatesNext ==
    ASSUME NEW r, LiveRec(r), NEW c \in Candidates(r)
    PROVE  NextOf(c, r)
<1>1. PICK b : b = [r EXCEPT !.rev = @ + 1] OBVIOUS
<1>3. NextOf(b, r) /\ b.runSeq = r.runSeq /\ b.life = r.life /\ b.completed = r.completed
  BY <1>1 DEF LiveRec, NextOf, RecShape
<1>5. CASE c = b BY <1>3, <1>5
<1>6. CASE c = [b EXCEPT !.life = "running", !.runSeq = @ + 1]
  <2>1. PICK n : n = b.runSeq + 1 OBVIOUS
  <2>2. b \in RecShape /\ b.runSeq \in Nat /\ n \in Nat BY <1>3, <2>1 DEF NextOf, LiveRec, RecShape
  <2>4. /\ c \in RecShape /\ c.id = b.id /\ c.rev = b.rev /\ c.runSeq = n /\ c.completed = b.completed
        /\ c.unread = b.unread
    BY <2>2, <1>6, <2>1 DEF RecShape, Lives
  <2>5. b.completed <= b.runSeq /\ b.completed \in Nat /\ (b.unread => b.completed > 0)
    BY <1>3 DEF NextOf, LiveRec, RecShape
  <2> QED BY <1>3, <2>4, <2>5, <2>1, <2>2 DEF NextOf, LiveRec
<1>7. CASE c = [b EXCEPT !.unread = FALSE] BY <1>3, <1>7 DEF NextOf, LiveRec, RecShape
<1>8. CASE r.life # "idle" /\ \E l \in {"blocked", "limited", "running"} : c = [b EXCEPT !.life = l]
  BY <1>8, <1>3 DEF NextOf, LiveRec, RecShape, Lives
<1>9. CASE r.life # "idle" /\ \E p \in BOOLEAN :
             c = [b EXCEPT !.life = "idle", !.completed = r.runSeq, !.unread = TRUE, !.present = p]
  <2>1. PICK p \in BOOLEAN : c = [b EXCEPT !.life = "idle", !.completed = r.runSeq, !.unread = TRUE, !.present = p]
    BY <1>9
  <2>2. r.runSeq > 0 /\ r.completed <= r.runSeq /\ r.runSeq \in Nat /\ r.completed \in Nat
    BY <1>9 DEF LiveRec, RecShape
  <2>3. /\ c \in RecShape /\ c.id = b.id /\ c.rev = b.rev /\ c.life = "idle" /\ c.runSeq = b.runSeq
        /\ c.completed = r.runSeq
    BY <1>3, <2>1, <2>2 DEF NextOf, LiveRec, RecShape, Lives
  <2> QED BY <1>3, <2>2, <2>3 DEF NextOf, LiveRec
<1> QED BY <1>1, <1>5, <1>6, <1>7, <1>8, <1>9 DEF Candidates

LEMMA ReconciledNext ==
    ASSUME NEW r, LiveRec(r), NEW seq \in Nat \ {0}, NEW active \in BOOLEAN, r.completed <= seq,
           active => seq > r.completed, NEW c, c = reconcile_current_run(r, seq, active)
    PROVE  NextOf(c, r) /\ (c.life = "blocked" => r.life = "blocked")
<1>1. PICK b : b = [r EXCEPT !.rev = @ + 1, !.runSeq = seq] OBVIOUS
<1>2. r \in RecShape /\ r.completed \in Nat /\ r.rev \in Nat BY DEF LiveRec, RecShape
<1>3. /\ b \in RecShape /\ b.rev = r.rev + 1 /\ b.runSeq = seq /\ b.life = r.life /\ b.completed = r.completed
      /\ b.id = r.id /\ b.unread = r.unread
  <2>1. PICK n : n = r.rev + 1 OBVIOUS
  <2>2. n \in Nat /\ b = [r EXCEPT !.rev = n, !.runSeq = seq] BY <1>1, <1>2, <2>1
  <2> QED BY <1>2, <2>1, <2>2 DEF RecShape
<1>4. CASE active
  <2>1. PICK l, n : l = (IF r.life = "idle" THEN "running" ELSE r.life) /\ n = seq - 1 OBVIOUS
  <2>3. l \in Lives \ {"idle"} /\ n \in Nat /\ n <= seq /\ n >= r.completed /\ (l = "blocked" => r.life = "blocked")
    BY <1>2, <1>4, <2>1 DEF RecShape, Lives
  <2>4. /\ c \in RecShape /\ c.id = b.id /\ c.rev = b.rev /\ c.life = l /\ c.runSeq = seq /\ c.completed = n
        /\ c.unread = b.unread
    BY <1>3, <1>1, <1>4, <2>1, <2>3 DEF RecShape, reconcile_current_run
  <2> QED BY <1>2, <1>3, <2>3, <2>4 DEF NextOf, LiveRec
<1>5. CASE ~active
  <2>1. PICK u : u = (r.unread \/ r.completed < seq) OBVIOUS
  <2>3. u \in BOOLEAN BY <2>1
  <2>4. /\ c \in RecShape /\ c.id = b.id /\ c.rev = b.rev /\ c.life = "idle" /\ c.runSeq = seq /\ c.completed = seq
    BY <1>3, <1>1, <1>5, <2>1, <2>3 DEF RecShape, Lives, reconcile_current_run
  <2> QED BY <1>2, <1>3, <2>4 DEF NextOf, LiveRec
<1> QED BY <1>4, <1>5

LEMMA PastGrows ==
    ASSUME NEW r, LiveRec(r), NEW n \in Nat, r.id <= n, NEW P, PastGood(r, P, n), NEW c, NextOf(c, r),
           NEW Q, Q = P \cup {Seen(c)}
    PROVE  PastGood(c, Q, n)
<1>1. c.id = r.id /\ c.rev = r.rev + 1 /\ c.completed >= r.completed /\ LiveRec(c) /\ c # Gone BY LiveIs DEF NextOf
<1>2. r.id \in Nat \ {0} /\ r.rev \in Nat /\ r.completed \in Nat /\ c.completed \in Nat /\ c.rev \in Nat
  BY <1>1, LiveIs
<1>3. PICK z : z = Seen(c) OBVIOUS
<1>4. z.version = [id |-> c.id, rev |-> c.rev] /\ z.version.id = c.id /\ z.version.rev = c.rev /\ z.completed = c.completed
  BY <1>3, SeenIs
<1>5. z.version \in Versions /\ z.version.id <= n /\ z.version.id # 0 BY <1>1, <1>2, <1>4 DEF Versions
<1>8. \A x \in P : x.version.id = c.id => x.version.rev \in Nat /\ x.version.rev < c.rev /\ x.completed <= c.completed
  <2> TAKE x \in P
  <2>1. HAVE x.version.id = c.id
  <2>2. x.version.rev \in Nat /\ x.completed \in Nat BY DEF Versions, PastGood
  <2> QED BY <1>1, <1>2, <2>1, <2>2 DEF PastGood
<1>10. \A x \in Q : x = z \/ x \in P BY <1>3
<1>11. \A x, y \in Q : x.version = y.version => x = y BY <1>2, <1>4, <1>8, <1>10 DEF PastGood
<1>12. \A x \in Q : x.version \in Versions /\ x.completed \in Nat /\ x.version.id <= n
  BY <1>2, <1>4, <1>5, <1>10 DEF PastGood
<1>14. \A x \in Q : x.version.id = 0 => x = Seen(Gone) BY <1>5, <1>10 DEF PastGood
<1>15. Seen(c) \in Q OBVIOUS
<1> QED BY <1>11, <1>12, <1>2, <1>8, <1>4, <1>10, <1>14, <1>15 DEF PastGood

LEMMA PastReplaced ==
    ASSUME NEW r, NEW n \in Nat, NEW P, PastGood(r, P, n), NEW c, LiveRec(c), c.id = n + 1,
           NEW Q, Q = P \cup {Seen(c)}
    PROVE  PastGood(c, Q, n + 1)
<1>1. c # Gone /\ c.rev \in Nat /\ c.completed \in Nat BY LiveIs
<1>3. PICK z : z = Seen(c) OBVIOUS
<1>4. z.version = [id |-> c.id, rev |-> c.rev] /\ z.version.id = c.id /\ z.version.rev = c.rev /\ z.completed = c.completed
  BY <1>3, SeenIs
<1>6. \A x \in P : x.version \in Versions /\ x.completed \in Nat /\ x.version.id <= n BY DEF PastGood
<1>7. \A x \in P : x.version.id <= n + 1 /\ x.version.id # c.id
  <2> TAKE x \in P
  <2> QED BY <1>6 DEF Versions
<1>10. \A x \in Q : x = z \/ x \in P BY <1>3
<1>11. \A x, y \in Q : x.version = y.version => x = y BY <1>4, <1>7, <1>10 DEF PastGood
<1>12. \A x \in Q : x.version \in Versions /\ x.completed \in Nat /\ x.version.id <= n + 1
  BY <1>1, <1>4, <1>6, <1>7, <1>10 DEF Versions
<1>14. \A x \in Q : x.version.id = 0 => x = Seen(Gone) BY <1>1, <1>4, <1>10 DEF PastGood, Versions
<1>15. Seen(c) \in Q OBVIOUS
<1> QED BY <1>11, <1>12, <1>1, <1>4, <1>7, <1>10, <1>14, <1>15 DEF PastGood

LEMMA PastOfGone ==
    ASSUME NEW r, NEW n, NEW P, PastGood(r, P, n)
    PROVE  PastGood(Gone, P, n)
<1>1. Seen(Gone).version.rev = 0 /\ Seen(Gone).completed = 0 BY SeenIs, GoneIs
<1>2. \A x \in P : x.version.id = Gone.id => x.version.rev <= Gone.rev /\ x.completed <= Gone.completed
  BY <1>1, GoneIs DEF PastGood
<1> QED BY <1>2 DEF PastGood

LEMMA PastAlone ==
    ASSUME NEW r, RecGood(r), NEW n \in Nat, r.id <= n
    PROVE  PastGood(r, {Seen(r)}, n)
<1>1. r.id \in Nat /\ r.rev \in Nat /\ r.completed \in Nat /\ (r.id = 0 => r = Gone) BY LiveIs, GoneIs DEF RecGood
<1>2. PICK z : z = Seen(r) OBVIOUS
<1>3. z.version = [id |-> r.id, rev |-> r.rev] /\ z.version.id = r.id /\ z.version.rev = r.rev /\ z.completed = r.completed
  BY <1>2, SeenIs
<1>5. z.version.id = 0 => z = Seen(Gone) BY <1>1, <1>2, <1>3
<1> QED BY <1>1, <1>2, <1>3, <1>5 DEF PastGood, Versions

-----------------------------------------------------------------------------
(* The history of transitions.                                              *)

LEMMA MovesLive == ASSUME NEW M, NEW P, MovesGood(M, P), NEW Q, P \subseteq Q PROVE MovesGood(M, Q)
  BY DEF MovesGood, Happened

LEMMA PushKeeps ==
    ASSUME NEW P, MovesGood(moves, P), NEW e \in TransitionRec, Happened(e, P), Push(e)
    PROVE  MovesGood(moves', P)
<1>1. PICK all : all = Append(moves, e) OBVIOUS
<1>2. PICK over : over = Len(all) - HistoryCap OBVIOUS
<1>3. moves' = IF over > 0 THEN SubSeq(all, over + 1, Len(all)) ELSE all BY <1>1, <1>2 DEF Push
<1>4. moves \in Seq(TransitionRec) /\ Len(moves) \in Nat BY LenProperties DEF MovesGood
<1>5. /\ all \in Seq(TransitionRec) /\ Len(all) = Len(moves) + 1
      /\ \A i \in 1..Len(moves) : all[i] = moves[i]
      /\ all[Len(moves) + 1] = e
  BY <1>1, <1>4, AppendProperties
<1>6. \A i \in 1..Len(all) : Happened(all[i], P)
  <2> TAKE i \in 1..Len(all)
  <2> QED BY <1>5, <1>4 DEF MovesGood
<1>7. CASE ~(over > 0) BY <1>3, <1>5, <1>6, <1>7 DEF MovesGood
<1>8. CASE over > 0
  BY SignalsAssumption, <1>2, <1>4, <1>5, <1>8, SubSeqProperties, <1>3, <1>6 DEF SignalsAssumption, MovesGood
<1> QED BY <1>7, <1>8

LEMMA PushOf ==
    ASSUME NEW P, MovesGood(moves, P), NEW c, LiveRec(c), Push(Transition(c)), NEW Q, Q = P \cup {Seen(c)}
    PROVE  MovesGood(moves', Q)
<1>1. PICK e : e = Transition(c) OBVIOUS
<1>3. Seen(c).completed = c.completed /\ Seen(c) \in Q BY SeenIs
<1>4. Happened(e, Q) BY <1>1, StatusIs, <1>3 DEF Happened
<1>5. MovesGood(moves, Q) BY MovesLive
<1> QED BY <1>1, StatusIs, <1>4, <1>5, PushKeeps

-----------------------------------------------------------------------------
(* What is derived.                                                         *)

LEMMA BadgeIs ==
    ASSUME NEW r, RecGood(r)
    PROVE  resolve_badge(r) = "blocked" <=> r.life = "blocked"
  BY GoneIs, StatusIs DEF resolve_badge, RecGood

LEMMA BlockedIs == ASSUME NEW r, LiveRec(r) PROVE Seen(r).status = "blocked" <=> r.life = "blocked"
<1>1. PICK e : e = Transition(r) OBVIOUS
<1>2. agent_status(r) = "blocked" <=> r.life = "blocked" BY <1>1, StatusIs
<1> QED BY <1>2, SeenIs

(* Derivation of an event's candidate: a new occurrence is named after it.  *)
LEMMA DeriveOpens ==
    ASSUME NEW s, NEW r, LiveRec(r), NEW n, NEW P, PastGood(r, P, n), OpenSince(s, r, P),
           NEW c, NextOf(c, r), NEW Q, Q = P \cup {Seen(c)},
           NEW d, d = derive_candidate_projection(s, r, c)
    PROVE  OpenSince(d, c, Q)
<1>1. LiveRec(c) /\ c.id = r.id /\ c.rev = r.rev + 1 /\ c.rev \in Nat /\ r.rev \in Nat /\ c.id \in Nat
  BY LiveIs DEF NextOf
<1>2. PICK blocked : blocked <=> resolve_badge(c) = "blocked" OBVIOUS
<1>3. PICK changed : changed <=> resolve_badge(r) # resolve_badge(c) OBVIOUS
<1>4. (blocked <=> c.life = "blocked") /\ (blocked /\ ~changed => r.life = "blocked")
  BY <1>1, <1>2, <1>3, BadgeIs DEF RecGood
<1>5. version(c) = [id |-> c.id, rev |-> c.rev] /\ version(c) \in Versions /\ NoVersion \in Versions
  BY <1>1, GoneIs DEF version, Versions, NoVersion
<1>6. /\ d.triage = (s.triage \/ blocked)
      /\ d.generation = IF blocked THEN (IF changed THEN version(c) ELSE s.generation) ELSE NoVersion
  BY <1>1, <1>2, <1>3 DEF derive_candidate_projection
<1>8. c.life = "blocked" => d.triage BY <1>4, <1>6
<1>9. ASSUME c.life = "blocked", d.generation.id = c.id, NEW x \in Q, x.version.id = c.id,
             x.version.rev >= d.generation.rev
      PROVE  x.status = "blocked"
  BY <1>1, <1>9, BlockedIs, <1>4, <1>5, <1>6 DEF PastGood, Versions, OpenSince
<1>10. DOMAIN d = {"generation", "triage", "calm", "flash", "jobs"} BY DEF derive_candidate_projection
<1> QED BY <1>5, <1>6, <1>8, <1>9, <1>10 DEF OpenSince

(* A run's projection names no occurrence and ends or keeps the open one.   *)
LEMMA ProjectionOpens ==
    ASSUME NEW s, NEW r, LiveRec(r), NEW P, OpenSince(s, r, P),
           NEW c, NextOf(c, r), c.life = "blocked" => r.life = "blocked", NEW Q, Q = P \cup {Seen(c)}
    PROVE  OpenSince(s, c, Q)
  BY BlockedIs DEF NextOf, OpenSince

LEMMA QuietOpens ==
    ASSUME NEW s, DOMAIN s = {"generation", "triage", "calm", "flash", "jobs"}, s.generation \in Versions,
           NEW r, r.life # "blocked", NEW P
    PROVE  OpenSince(s, r, P)
  BY DEF OpenSince

LEMMA HydratedOpens ==
    ASSUME NEW r, RecGood(r)
    PROVE  OpenSince(hydrate(r), r, {Seen(r)})
  BY GoneIs, LiveIs, BlockedIs, QuietOpens DEF RecGood, version, Versions, hydrate, Quiet, OpenSince, NoVersion

-----------------------------------------------------------------------------
(* vt agent wait.                                                           *)

(* A version that is new when the wait has looked at the one before.        *)
LEMMA WaitGrows ==
    ASSUME NEW w, NEW r, LiveRec(r), NEW n, NEW P, WaitGood(w, r, P, n), NEW c, NextOf(c, r),
           NEW Q, Q = P \cup {Seen(c)}
    PROVE  WaitGood(w, c, Q, n)
<1>2. PICK z : z = Seen(c) OBVIOUS
<1>3. z.version.id = c.id /\ z.version.rev = c.rev BY <1>2, SeenIs
<1>4. \A x \in Q : x = z \/ x \in P BY <1>2
<1>5. w \in WaitShape /\ w.seen \in Nat BY DEF WaitGood, WaitShape
<1>6. ASSUME w.at = "waiting" PROVE /\ w.base.id # 0 /\ w.base.id <= n
                                    /\ c.id = w.base.id => w.seen <= c.rev
                                    /\ \A x \in Q : x.version.id = w.base.id /\ x.version.rev > w.base.rev
                                                    /\ x.version.rev <= w.seen => Unmet(w, x)
  BY LiveIs, <1>6, <1>5, <1>3, <1>4 DEF WaitGood, NextOf
<1> QED BY <1>5, <1>6 DEF WaitGood

LEMMA WaitReplaced ==
    ASSUME NEW w, NEW r, NEW n \in Nat, NEW P, WaitGood(w, r, P, n), NEW c, c.id = n + 1,
           NEW Q, Q = P \cup {Seen(c)}
    PROVE  WaitGood(w, c, Q, n + 1)
<1>2. PICK z : z = Seen(c) OBVIOUS
<1>3. z.version.id = c.id BY <1>2, SeenIs
<1>4. \A x \in Q : x = z \/ x \in P BY <1>2
<1>5. w \in WaitShape /\ w.seen \in Nat /\ w.base.id \in Nat BY DEF WaitGood, WaitShape, Versions
<1>6. ASSUME w.at = "waiting" PROVE /\ w.base.id # 0 /\ w.base.id <= n + 1 /\ c.id # w.base.id
                                    /\ \A x \in Q : x.version.id = w.base.id /\ x.version.rev > w.base.rev
                                                    /\ x.version.rev <= w.seen => Unmet(w, x)
  BY <1>6, <1>5, <1>3, <1>4 DEF WaitGood
<1> QED BY <1>5, <1>6 DEF WaitGood

LEMMA WaitOfGone ==
    ASSUME NEW w, NEW r, NEW n, NEW P, WaitGood(w, r, P, n)
    PROVE  WaitGood(w, Gone, P, n)
  BY GoneIs DEF WaitGood

LEMMA NoWaitGood == ASSUME NEW r, NEW P, NEW n PROVE WaitGood(NoWait, r, P, n)
  BY GoneIs DEF NoVersion, version, Versions, WaitGood, WaitShape, NoWait

(* The status of the record now, as a wait sees it.                         *)
LEMMA CurrentMatches ==
    ASSUME NEW until \in SUBSET Statuses, NEW base, NEW expected, NEW explicit, NEW initial,
           NEW now, now = match_current_wait_status(until, base, expected, explicit, initial)
    PROVE  /\ now = "none" => ("done" \in until => ~(rec.completed >= expected))
           /\ now # "none" => /\ now \in Statuses
                              /\ now = agent_status(rec) \/ (now = "done" /\ rec.completed >= expected)
  BY DEF Statuses, match_current_wait_status

LEMMA JobsAside ==
    ASSUME NEW s, NEW r, NEW P, OpenSince(s, r, P), NEW j, NEW t, t = [s EXCEPT !.jobs = j]
    PROVE  OpenSince(t, r, P)
  BY DEF OpenSince

-----------------------------------------------------------------------------
(* What every step keeps.                                                   *)

SignalsInv ==
    /\ RecGood(rec) /\ RecGood(disk) /\ states \in Nat /\ rec.id <= states /\ disk.id <= states
    /\ PastGood(rec, past, states) /\ MovesGood(moves, past)
    /\ OpenSince(signals, rec, past) /\ WaitGood(wait, rec, past, states)

LEMMA FreshIs ==
    ASSUME NEW i \in Nat \ {0}, NEW f, f = Fresh(i)
    PROVE  LiveRec(f) /\ f.id = i /\ f.life = "idle" /\ f.completed = 0 /\ f.unread = FALSE /\ f.runSeq = 0
<1>1. PICK a : a = [Gone EXCEPT !.id = i] OBVIOUS
<1>2. PICK b : b = [a EXCEPT !.rev = 1] OBVIOUS
<1>3. PICK c : c = [b EXCEPT !.life = "idle"] OBVIOUS
<1>4. f = [c EXCEPT !.present = TRUE] BY <1>1, <1>2, <1>3 DEF Fresh
<1>6. b = [id |-> i, rev |-> 1, life |-> "none", runSeq |-> 0, completed |-> 0, unread |-> FALSE, present |-> FALSE]
  BY <1>2, <1>1 DEF Gone
<1>7. c = [id |-> i, rev |-> 1, life |-> "idle", runSeq |-> 0, completed |-> 0, unread |-> FALSE, present |-> FALSE]
  BY <1>3, <1>6
<1>8. f = [id |-> i, rev |-> 1, life |-> "idle", runSeq |-> 0, completed |-> 0, unread |-> FALSE, present |-> TRUE]
  BY <1>4, <1>7
<1> QED BY <1>8 DEF LiveRec, RecShape, Lives

LEMMA SignalsStart == SignalsInit => SignalsInv
<1> SUFFICES ASSUME SignalsInit PROVE SignalsInv OBVIOUS
<1>1. LiveRec(rec) /\ rec.id = 1
  <2>a. PICK i \in Nat \ {0} : i = 1 OBVIOUS
  <2>b. PICK f : f = Fresh(i) OBVIOUS
  <2>1. i = 1 /\ f = Fresh(i) BY <2>a, <2>b
  <2>2. /\ LiveRec(f) /\ f.id = i /\ f.completed = 0 /\ f.unread = FALSE BY <2>b, FreshIs
  <2>4. CASE rec = f BY <2>1, <2>2, <2>4
  <2>5. CASE rec = [f EXCEPT !.life = "running", !.runSeq = 1]
    <3>2. /\ rec \in RecShape /\ rec.id = f.id /\ rec.completed = f.completed /\ rec.unread = f.unread
          /\ rec.runSeq = 1
      BY <2>5, <2>2 DEF RecShape, Lives, LiveRec
    <3> QED BY <2>1, <2>2, <3>2 DEF LiveRec
  <2> QED BY <2>1, <2>4, <2>5 DEF SignalsInit
<1>2. /\ disk = rec /\ moves = << >> /\ signals = hydrate(rec) /\ wait = NoWait /\ past = {Seen(rec)} /\ states = 1
  BY DEF SignalsInit
<1>4. rec.id <= states /\ states \in Nat /\ RecGood(rec) BY <1>1, <1>2 DEF RecGood
<1> QED BY <1>2, EmptySeq, <1>4, PastAlone, HydratedOpens, NoWaitGood DEF SignalsInv, MovesGood

(* A new version of the record, remembered, and what is derived of it.      *)
LEMMA Advance ==
    ASSUME SignalsInv, rec # Gone, NEW c, NextOf(c, rec), NEW Q, Q = past \cup {Seen(c)}
    PROVE  /\ LiveRec(c) /\ c.id <= states
           /\ PastGood(c, Q, states) /\ WaitGood(wait, c, Q, states) /\ MovesGood(moves, Q)
           /\ OpenSince(derive_candidate_projection(signals, rec, c), c, Q)
           /\ (c.life = "blocked" => rec.life = "blocked") => OpenSince(signals, c, Q)
  BY PastGrows, WaitGrows, MovesLive, DeriveOpens, ProjectionOpens DEF SignalsInv, RecGood, NextOf

LEMMA LiveIsGood == ASSUME NEW r, LiveRec(r) PROVE RecGood(r) BY DEF RecGood

LEMMA SaveFailsKeeps ==
    ASSUME SignalsInv, NEW r, RecGood(r), r.id <= states, SaveFails(r)
    PROVE  RecGood(disk') /\ disk'.id <= states
  BY DEF SignalsInv, SaveFails

LEMMA ApplyEventKeeps ==
    ASSUME SignalsInv, NEW c, ApplyEvent(c)
    PROVE  SignalsInv'
<1>0. rec # Gone /\ c \in Candidates(rec) /\ wait' = wait /\ states' = states /\ states \in Nat
  BY DEF ApplyEvent, SignalsInv
<1>2. PICK d, q : /\ d = derive_candidate_projection(signals, rec, c)
                  /\ q = reconcile_current_run(c, c.runSeq, c.completed < c.runSeq)
  OBVIOUS
<1>3. PICK P : P = past \cup {Seen(c)} OBVIOUS
<1>4. /\ LiveRec(c) /\ c.id <= states /\ RecGood(c)
      /\ PastGood(c, P, states) /\ WaitGood(wait, c, P, states) /\ OpenSince(d, c, P)
  BY <1>0, CandidatesNext, <1>2, <1>3, Advance, LiveIsGood DEF SignalsInv, RecGood
<1>5. Push(Transition(c)) => MovesGood(moves', P) BY <1>3, <1>4, PushOf DEF SignalsInv
<1>6. ASSUME c.runSeq > 0
      PROVE  /\ LiveRec(q) /\ q.id <= states /\ RecGood(q) /\ NextOf(q, c) /\ (q.life = "blocked" => c.life = "blocked")
  <2>1. PICK a : a = (c.completed < c.runSeq) OBVIOUS
  <2>2. PICK s : s = c.runSeq OBVIOUS
  <2>4. q = reconcile_current_run(c, s, a) BY <1>2, <2>1, <2>2
  <2>6. s \in Nat \ {0} /\ c.completed <= s BY <1>6, <2>2, <1>4, LiveIs DEF LiveRec
  <2>7. a \in BOOLEAN /\ (a => s > c.completed)
    <3>1. a \in BOOLEAN BY <2>1
    <3>2. ASSUME a PROVE c.completed < c.runSeq BY <2>1, <3>2
    <3> QED BY <2>2, <1>4, LiveIs, <3>1, <3>2 DEF LiveRec
  <2>5. NextOf(q, c) /\ (q.life = "blocked" => c.life = "blocked") BY <1>4, <2>4, <2>6, <2>7, ReconciledNext
  <2> QED BY <1>4, <2>5, LiveIsGood DEF NextOf
<1>7. CASE /\ rec' = c /\ disk' = c /\ Push(Transition(c)) /\ Publish(c, d) /\ Remember(c)
  BY <1>3, <1>7, <1>4, JobsAside, <1>0, <1>5 DEF Remember, Publish, SignalsInv
<1>8. CASE /\ c.runSeq > 0 /\ rec' = q /\ disk' = q /\ Push(Transition(c)) /\ Publish(q, d)
           /\ past' = past \cup {Seen(c), Seen(q)}
  <2>1. PICK Q : Q = P \cup {Seen(q)} OBVIOUS
  <2>2. past' = Q /\ signals' = [d EXCEPT !.jobs = << >>] /\ P \subseteq Q BY <1>3, <1>8, <2>1 DEF Publish
  <2>3. PastGood(q, Q, states) BY <1>0, <1>4, <1>6, <1>8, <2>1, PastGrows
  <2>4. WaitGood(wait, q, Q, states) BY <1>4, <1>6, <1>8, <2>1, WaitGrows
  <2>6. OpenSince(signals', q, Q) BY <2>2, <1>4, <1>6, <1>8, <2>1, ProjectionOpens, JobsAside
  <2> QED BY <1>0, <1>6, <1>8, <2>2, <2>3, <2>4, <2>6, <1>5, MovesLive DEF SignalsInv
<1>9. CASE SaveFails(c) /\ UNCHANGED <<rec, moves, lost, signals, channel, past>>
  BY <1>0, <1>4, <1>9, SaveFailsKeeps DEF SignalsInv
<1>10. CASE /\ c.runSeq > 0 /\ SaveFails(q) /\ rec' = c /\ Push(Transition(c)) /\ signals' = d /\ Remember(c)
  BY <1>3, <1>10, <1>6, SaveFailsKeeps, <1>0, <1>4, <1>5 DEF Remember, SignalsInv
<1> QED BY <1>2, <1>7, <1>8, <1>9, <1>10 DEF ApplyEvent

LEMMA ProjectRunKeeps ==
    ASSUME SignalsInv, NEW seq, NEW active \in BOOLEAN, ProjectRun(seq, active)
    PROVE  SignalsInv'
<1>0. rec # Gone /\ wait' = wait /\ states' = states /\ states \in Nat /\ moves' = moves /\ LiveRec(rec)
  BY DEF ProjectRun, SignalsInv, RecGood
<1>1. PICK c : c = reconcile_current_run(rec, seq, active) OBVIOUS
<1>3. seq \in Nat \ {0} /\ rec.completed <= seq /\ (active => seq > rec.completed)
  BY <1>0, LiveIs DEF ProjectRun, LiveRec
<1>5. PICK P : P = past \cup {Seen(c)} OBVIOUS
<1>6. /\ LiveRec(c) /\ c.id <= states /\ RecGood(c) /\ MovesGood(moves, P)
      /\ PastGood(c, P, states) /\ WaitGood(wait, c, P, states) /\ OpenSince(signals, c, P)
  BY <1>0, <1>1, <1>3, ReconciledNext, <1>5, Advance, LiveIsGood
<1>7. CASE rec' = c /\ disk' = c /\ Remember(c) /\ Publish(c, signals)
  BY <1>5, <1>7, <1>6, JobsAside, <1>0 DEF Remember, Publish, SignalsInv
<1>8. CASE SaveFails(c) /\ UNCHANGED <<rec, past, signals, channel>>
  BY <1>0, <1>6, <1>8, SaveFailsKeeps DEF SignalsInv
<1> QED BY <1>1, <1>7, <1>8 DEF ProjectRun

LEMMA AgentLeavesKeeps ==
    ASSUME SignalsInv, AgentLeaves
    PROVE  SignalsInv'
<1>0. rec # Gone /\ wait' = wait /\ states' = states /\ states \in Nat /\ LiveRec(rec)
  BY DEF AgentLeaves, SignalsInv, RecGood
<1>1. PICK n : n = rec.rev + 1 OBVIOUS
<1>2. PICK c : c = [rec EXCEPT !.rev = n, !.present = FALSE] OBVIOUS
<1>3. /\ rec' = c /\ disk' = c /\ Push(Transition(c))
      /\ Publish(c, derive_candidate_projection(signals, rec, c)) /\ Remember(c)
  BY <1>1, <1>2 DEF AgentLeaves
<1>4. NextOf(c, rec)
  <2>1. rec \in RecShape /\ n \in Nat /\ rec.completed \in Nat BY <1>0, <1>1, LiveIs DEF LiveRec
  <2>2. /\ c \in RecShape /\ c.id = rec.id /\ c.rev = n /\ c.life = rec.life /\ c.runSeq = rec.runSeq
        /\ c.completed = rec.completed /\ c.unread = rec.unread
    BY <1>2, <2>1 DEF RecShape
  <2> QED BY <1>0, <1>1, <2>1, <2>2 DEF NextOf, LiveRec
<1>5. PICK P, d : P = past \cup {Seen(c)} /\ d = derive_candidate_projection(signals, rec, c) OBVIOUS
<1>6. /\ LiveRec(c) /\ c.id <= states /\ RecGood(c)
      /\ PastGood(c, P, states) /\ WaitGood(wait, c, P, states) /\ OpenSince(d, c, P)
  BY <1>0, <1>4, <1>5, Advance, LiveIsGood
<1>8. past' = P /\ signals' = [d EXCEPT !.jobs = << >>] BY <1>3, <1>5 DEF Remember, Publish
<1>9. OpenSince(signals', c, P) BY <1>6, <1>8, JobsAside
<1> QED BY <1>0, <1>3, <1>6, <1>5, PushOf, <1>8, <1>9 DEF SignalsInv

LEMMA AgentReplacedKeeps ==
    ASSUME SignalsInv, AgentReplaced
    PROVE  SignalsInv'
<1>0. rec # Gone /\ wait' = wait /\ states' = states + 1 /\ states \in Nat /\ LiveRec(rec)
  BY DEF AgentReplaced, SignalsInv, RecGood
<1>1. PICK n \in Nat \ {0} : n = states + 1 BY <1>0
<1>2. PICK f, v : f = Fresh(n) /\ v = rec.rev + 1 OBVIOUS
<1>3. PICK c : c = [f EXCEPT !.rev = v] OBVIOUS
<1>4. /\ rec' = c /\ disk' = c /\ Push(Transition(c))
      /\ Publish(c, derive_candidate_projection(signals, rec, c)) /\ Remember(c)
  BY <1>1, <1>2, <1>3 DEF AgentReplaced
<1>5. LiveRec(c) /\ c.id = n /\ c.life = "idle"
  <2>1. LiveRec(f) /\ f.id = n /\ f.life = "idle" BY <1>2, FreshIs
  <2>2. f \in RecShape /\ v \in Nat BY <1>0, <1>2, <2>1, LiveIs DEF LiveRec
  <2>3. /\ c \in RecShape /\ c.id = f.id /\ c.life = f.life /\ c.runSeq = f.runSeq
        /\ c.completed = f.completed /\ c.unread = f.unread
    BY <1>3, <2>2 DEF RecShape
  <2> QED BY <2>1, <2>3 DEF LiveRec
<1>6. PICK P, d : P = past \cup {Seen(c)} /\ d = derive_candidate_projection(signals, rec, c) OBVIOUS
<1>7. PastGood(c, P, n) /\ WaitGood(wait, c, P, n)
  BY <1>1, <1>5, <1>0, <1>6, PastReplaced, WaitReplaced DEF SignalsInv
<1>8. MovesGood(moves', P) BY <1>4, <1>5, <1>6, PushOf DEF SignalsInv
<1>9. past' = P /\ signals' = [d EXCEPT !.jobs = << >>] BY <1>4, <1>6 DEF Remember, Publish
<1>10. OpenSince(signals', c, P)
  BY <1>5, BadgeIs, LiveIsGood, <1>6, GoneIs, QuietOpens, <1>9, JobsAside DEF derive_candidate_projection,
    NoVersion, version, Versions
<1> QED BY <1>0, <1>1, <1>4, <1>5, <1>7, <1>8, <1>9, <1>10, LiveIsGood DEF SignalsInv

LEMMA RemoveKeeps ==
    ASSUME SignalsInv, remove_absent_pane
    PROVE  SignalsInv'
  BY GoneIs, PastOfGone, WaitOfGone, QuietOpens, JobsAside, SaveFailsKeeps DEF remove_absent_pane, SignalsInv,
    Quiet, NoVersion, version, Versions

LEMMA OtherPaneKeeps ==
    ASSUME SignalsInv, OtherPane
    PROVE  SignalsInv'
<1>1. PICK e : e = [version |-> NoVersion, to |-> "none", completed |-> 0] OBVIOUS
<1>3. e \in TransitionRec /\ e.version.id = 0 BY <1>1, GoneIs DEF TransitionRec, NoVersion, version, Versions
<1>4. MovesGood(moves', past) BY <1>1, <1>3, PushKeeps DEF SignalsInv, Happened, OtherPane
<1>5. OpenSince(signals', rec, past) BY JobsAside DEF SignalsInv, OtherPane
<1> QED BY <1>4, <1>5 DEF SignalsInv, OtherPane

LEMMA RestartKeepsSignals ==
    ASSUME SignalsInv, Restart
    PROVE  SignalsInv'
  BY EmptySeq, PastAlone, HydratedOpens, NoWaitGood DEF Restart, MovesGood, SignalsInv

LEMMA PollKeepsSignals ==
    ASSUME SignalsInv, advance_poll_projection
    PROVE  SignalsInv'
  BY BadgeIs DEF advance_poll_projection, SignalsInv, OpenSince

(* A wait that is over reports what happened.                               *)
LEMMA EndsGood ==
    ASSUME NEW w, w \in WaitShape, NEW out \in Statuses \cup {"none", "stale_reference", "event_history_lost"},
           NEW n \in Nat, NEW v, v = [w EXCEPT !.at = "over", !.out = out, !.outRev = n],
           NEW r, NEW P, NEW k,
           out \in Statuses =>
              \E x \in P : /\ x.version.id = w.base.id /\ x.version.rev = n
                           /\ x.status = out \/ (out = "done" /\ x.completed >= w.expected)
    PROVE  WaitGood(v, r, P, k)
  BY DEF WaitShape, WaitGood, Met

LEMMA StartWaitKeeps ==
    ASSUME SignalsInv, NEW until \in SUBSET Statuses, NEW after \in Int, StartWait(until, after)
    PROVE  SignalsInv'
<1>0. rec # Gone /\ UNCHANGED <<rec, disk, moves, signals, past, states>> /\ LiveRec(rec)
  BY DEF StartWait, SignalsInv, RecGood
<1>1. PICK explicit \in BOOLEAN : explicit = (after >= 0)
  <2>1. (after >= 0) \in BOOLEAN OBVIOUS
  <2> QED BY <2>1
<1>2. PICK expected : expected = IF explicit THEN after + 1
                                 ELSE IF rec.runSeq > rec.completed THEN rec.runSeq ELSE rec.completed + 1
  OBVIOUS
<1>3. rec.runSeq \in Nat /\ rec.completed \in Nat /\ rec.rev \in Nat /\ rec.id \in Nat \ {0} BY <1>0, LiveIs
<1>5. PICK b : b = version(rec) OBVIOUS
<1>6. b \in Versions /\ b.id = rec.id /\ b.rev = rec.rev BY <1>3, <1>5 DEF version, Versions
<1>7. PICK begun : begun = [at |-> "waiting", until |-> until, base |-> b, expected |-> expected,
                            explicit |-> explicit, seen |-> rec.rev, out |-> "none", outRev |-> 0]
  OBVIOUS
<1>8. PICK initial \in BOOLEAN : initial = TRUE OBVIOUS
<1>9. PICK now : now = match_current_wait_status(until, b, expected, explicit, initial) OBVIOUS
<1>10. wait' = IF now # "none" THEN [begun EXCEPT !.at = "over", !.out = now, !.outRev = rec.rev] ELSE begun
  BY <1>1, <1>2, <1>5, <1>7, <1>8, <1>9 DEF StartWait
<1>11. /\ begun \in WaitShape /\ begun.base = b /\ begun.expected = expected /\ begun.at = "waiting"
       /\ begun.seen = rec.rev
  BY <1>3, <1>2, <1>6, <1>7 DEF WaitShape
<1>12. CASE now # "none"
  <2>2. PICK x : x = Seen(rec) OBVIOUS
  <2>3. x \in past /\ x.version.id = rec.id /\ x.version.rev = rec.rev /\ x.status = agent_status(rec)
        /\ x.completed = rec.completed
    BY <1>0, <2>2, SeenIs DEF SignalsInv, PastGood
  <2>5. PICK w : w = wait' OBVIOUS
  <2>6. PICK n \in Nat : n = rec.rev BY <1>3
  <2>7. now \in Statuses \cup {"none", "stale_reference", "event_history_lost"} BY <1>9, <1>12, CurrentMatches
  <2>8. \E y \in past : /\ y.version.id = begun.base.id /\ y.version.rev = n
                        /\ y.status = now \/ (now = "done" /\ y.completed >= begun.expected)
    BY <1>6, <1>11, <1>9, <1>12, CurrentMatches, <2>3, <2>6
  <2>9. w = [begun EXCEPT !.at = "over", !.out = now, !.outRev = n] BY <1>10, <1>12, <2>5, <2>6
  <2>10. WaitGood(w, rec, past, states) BY <1>11, <2>7, <2>8, <2>9, EndsGood
  <2> QED BY <1>0, <2>5, <2>10 DEF SignalsInv
<1>13. CASE now = "none" BY <1>10, <1>13, <1>3, <1>6, <1>11, <1>0 DEF SignalsInv, PastGood, Versions, WaitGood
<1> QED BY <1>12, <1>13

(* A transition that answers the wait is of a version that happened.        *)
LEMMA AnswersHappened ==
    ASSUME SignalsInv, wait.at = "waiting", NEW k \in match_wait_event, NEW e, e = moves[k]
    PROVE  /\ Answers(e) /\ e.version.rev \in Nat
           /\ \E x \in past : /\ x.version.id = wait.base.id /\ x.version.rev = e.version.rev
                              /\ x.completed = e.completed /\ x.status = EventStatus(e)
<1>1. k \in 1..Len(moves) /\ Answers(e) BY DEF match_wait_event
<1>3. e \in TransitionRec BY <1>1, ElementOfSeq DEF SignalsInv, MovesGood
<1>4. e.version.id = wait.base.id /\ wait.base.id # 0 BY <1>1 DEF Answers, Mine, SignalsInv, WaitGood
<1>5. PICK x \in past : x.version = e.version /\ x.completed = e.completed /\ x.status = EventStatus(e)
  BY <1>1, <1>4 DEF Happened, SignalsInv, MovesGood
<1> QED BY <1>1, <1>3, <1>4, <1>5 DEF TransitionRec, Versions

(* The wait looks past the versions whose transitions do not answer it.     *)
LEMMA LooksPast ==
    ASSUME SignalsInv, wait.at = "waiting", match_wait_event = {}, rec.id = wait.base.id,
           "done" \in wait.until => ~(rec.completed >= wait.expected), verify_wait_history_coverage,
           NEW w, w = [wait EXCEPT !.seen = rec.rev]
    PROVE  WaitGood(w, rec, past, states)
<1>0. WaitGood(wait, rec, past, states) /\ PastGood(rec, past, states) BY DEF SignalsInv
<1>1. wait \in WaitShape /\ wait.base.id # 0 /\ wait.base.id <= states /\ wait.seen <= rec.rev BY <1>0 DEF WaitGood
<1>2. rec.rev \in Nat /\ rec.completed \in Nat BY LiveIs, GoneIs DEF SignalsInv, RecGood
<1>4. wait.seen \in Nat /\ wait.expected \in Int /\ wait.until \subseteq Statuses BY <1>1 DEF WaitShape
<1>5. ASSUME NEW x \in past, x.version.id = wait.base.id, x.version.rev > wait.base.rev, x.version.rev <= rec.rev
      PROVE  Unmet(wait, x)
  <2>0. x.version \in Versions /\ x.version.rev \in Nat /\ x.completed \in Nat /\ x.completed <= rec.completed
    BY <1>0, <1>5 DEF PastGood, Versions
  <2>1. CASE x.version.rev <= wait.seen BY <1>0, <1>5, <2>1 DEF WaitGood
  <2>2. CASE ~(x.version.rev <= wait.seen) /\ wait.until \subseteq {"done"} BY <2>2, <1>2, <1>4, <2>0 DEF Unmet
  <2>3. CASE ~(x.version.rev <= wait.seen) /\ ~(wait.until \subseteq {"done"})
    <3>2. PICK k \in 1..Len(moves) : Mine(moves[k].version) /\ moves[k].version.rev = x.version.rev
      BY <2>3, <1>2, <1>4, <1>5, <2>0 DEF verify_wait_history_coverage
    <3>3. PICK e : e = moves[k] OBVIOUS
    <3>4. ~Answers(e) /\ Mine(e.version) /\ e.version.rev = x.version.rev BY <3>2, <3>3 DEF match_wait_event
    <3>5. e.version.id = wait.base.id /\ Happened(e, past) /\ e \in TransitionRec
      BY <3>2, <3>3, <3>4, ElementOfSeq DEF Mine, SignalsInv, MovesGood
    <3>6. PICK y \in past : y.version = e.version /\ y.completed = e.completed /\ y.status = EventStatus(e)
      BY <1>1, <3>5 DEF Happened
    <3>8. y = x BY <1>0, <3>6, <1>5, <2>0, <3>4, <3>5 DEF PastGood, TransitionRec, Versions
    <3> QED BY <1>4, <2>0, <2>3, <3>4, <3>6, <3>8 DEF Unmet, Answers
  <2> QED BY <2>1, <2>2, <2>3
<1>6. \A x : Unmet(w, x) <=> Unmet(wait, x) BY <1>1, <1>2 DEF Unmet, WaitShape
<1> QED BY <1>1, <1>2, <1>5, <1>6 DEF WaitGood, WaitShape

LEMMA EndWaitKeeps ==
    ASSUME SignalsInv, NEW out \in Statuses \cup {"none", "stale_reference", "event_history_lost"},
           NEW n \in Nat, EndWait(out, n), UNCHANGED <<rec, disk, moves, signals, past, states>>,
           out \in Statuses =>
              \E x \in past : /\ x.version.id = wait.base.id /\ x.version.rev = n
                              /\ x.status = out \/ (out = "done" /\ x.completed >= wait.expected)
    PROVE  SignalsInv'
<1>1. PICK w : w = wait' OBVIOUS
<1>3. wait \in WaitShape BY DEF SignalsInv, WaitGood
<1>4. WaitGood(w, rec, past, states) BY <1>1, <1>3, EndsGood DEF EndWait
<1> QED BY <1>1, <1>4 DEF SignalsInv

LEMMA NextSnapshotKeeps ==
    ASSUME SignalsInv, NextSnapshot
    PROVE  SignalsInv'
<1>0. wait.at = "waiting" /\ UNCHANGED <<rec, disk, moves, signals, past, states>> BY DEF NextSnapshot
<1>2. PICK initial \in BOOLEAN : initial = FALSE OBVIOUS
<1>3. PICK now : now = match_current_wait_status(wait.until, wait.base, wait.expected, wait.explicit, initial)
  OBVIOUS
<1>4. /\ now = "none" => ("done" \in wait.until => ~(rec.completed >= wait.expected))
      /\ now # "none" => /\ now \in Statuses
                         /\ now = agent_status(rec) \/ (now = "done" /\ rec.completed >= wait.expected)
  BY <1>3, CurrentMatches DEF SignalsInv, WaitGood, WaitShape
<1>6. CASE match_wait_event # {}
  <2>1. PICK k : k = CHOOSE i \in match_wait_event : \A j \in match_wait_event : i <= j OBVIOUS
  <2>2. k \in match_wait_event
    <3>1. match_wait_event \subseteq Nat BY DEF match_wait_event
    <3> QED BY <1>6, <2>1, <3>1, MinInSet DEF Min
  <2>3. PICK e : e = moves[k] OBVIOUS
  <2>4. PICK out : out = IF EventStatus(e) \in wait.until
                            /\ (EventStatus(e) # "done" \/ e.completed >= wait.expected)
                         THEN EventStatus(e) ELSE "done"
    OBVIOUS
  <2>5. PICK n : n = e.version.rev OBVIOUS
  <2>7. /\ Answers(e) /\ n \in Nat
        /\ \E x \in past : /\ x.version.id = wait.base.id /\ x.version.rev = n
                           /\ x.completed = e.completed /\ x.status = EventStatus(e)
    BY <1>0, <2>2, <2>3, <2>5, AnswersHappened
  <2>8. out \in Statuses /\ (out = EventStatus(e) \/ (out = "done" /\ e.completed >= wait.expected))
    BY <2>4, <2>7 DEF Answers, Statuses, SignalsInv, WaitGood, WaitShape
  <2> QED BY <1>0, <1>6, <2>1, <2>3, <2>4, <2>5, <2>7, <2>8, EndWaitKeeps DEF NextSnapshot
<1>7. CASE match_wait_event = {} /\ rec.id # wait.base.id BY <1>7, <1>0, EndWaitKeeps DEF NextSnapshot, Statuses
<1>8. CASE match_wait_event = {} /\ rec.id = wait.base.id /\ now # "none"
  <2>2. PICK x : x = Seen(rec) OBVIOUS
  <2>4. x \in past /\ x.version.id = wait.base.id /\ x.version.rev = rec.rev /\ x.status = agent_status(rec)
        /\ x.completed = rec.completed
    BY <1>8, <2>2, <1>0, GoneIs, SeenIs DEF SignalsInv, PastGood, WaitGood
  <2>5. PICK n \in Nat : n = rec.rev BY LiveIs, GoneIs DEF SignalsInv, RecGood
  <2>6. now \in Statuses \cup {"none", "stale_reference", "event_history_lost"} /\ EndWait(now, n)
    BY <1>4, <1>8, <1>2, <1>3, <2>5 DEF NextSnapshot
  <2> QED BY <1>0, <1>4, <1>8, <2>4, <2>5, <2>6, EndWaitKeeps
<1>9. CASE match_wait_event = {} /\ rec.id = wait.base.id /\ now = "none"
  BY <1>2, <1>3, <1>9, <1>0, EndWaitKeeps, <1>4, LooksPast DEF NextSnapshot, SignalsInv, Statuses
<1> QED BY <1>6, <1>7, <1>8, <1>9

LEMMA SignalsKeep ==
    ASSUME SignalsInv, SignalsNext \/ UNCHANGED signalVars
    PROVE  SignalsInv'
<1>1. CASE UNCHANGED signalVars BY <1>1 DEF signalVars, SignalsInv
<1>2. CASE RecordSteps
  BY <1>2, ApplyEventKeeps, ProjectRunKeeps, AgentLeavesKeeps, AgentReplacedKeeps, RemoveKeeps, OtherPaneKeeps,
    RestartKeepsSignals DEF RecordSteps
<1>3. CASE NotifySteps BY <1>3, PollKeepsSignals DEF Notify, SignalsInv, NotifySteps
<1>4. CASE WaitSteps
  BY NoWaitGood, StartWaitKeeps, <1>4, NextSnapshotKeeps DEF WaitEnds, SignalsInv, Statuses, WaitSteps
<1> QED BY <1>1, <1>2, <1>3, <1>4 DEF SignalsNext

LEMMA SignalsAreSound == ASSUME SignalsInv PROVE SignalsSound
<1>2. ASSUME channel # << >>, notification_is_current(Head(channel)), NEW x \in past, x.version.id = rec.id,
             x.version.rev \in Head(channel).rev..rec.rev
      PROVE  x.status = "blocked"
  BY <1>2, BadgeIs DEF notification_is_current, SignalsInv, OpenSince, PastGood, Versions
<1>3. NotifiedWhileOpen BY <1>2 DEF NotifiedWhileOpen
<1>4. ASSUME wait.at = "waiting", NEW x \in past, x.version.id = wait.base.id,
             x.version.rev \in (wait.base.rev + 1)..wait.seen
      PROVE  Unmet(wait, x)
  BY <1>4 DEF SignalsInv, WaitGood, WaitShape, Versions
<1>5. NothingSkipped BY <1>4 DEF NothingSkipped, Unmet
<1>6. ASSUME wait.at = "over", wait.out \in Statuses
      PROVE  \E r \in past : r.version = [id |-> wait.base.id, rev |-> wait.outRev] /\ Met(wait, r)
  BY <1>6 DEF SignalsInv, WaitGood, PastGood, Versions
<1>7. ReportHappened BY <1>6 DEF ReportHappened, Met
<1> QED BY BadgeIs, <1>3, <1>5, <1>7 DEF SignalsSound, SignalsInv, OpenSince, AttentionKept

(* Whatever order of events, projections, failed writes and restarts: a     *)
(* pane that is Blocked is on the attention list, a notification is about   *)
(* the occurrence that is open, and a wait lets no answer go by and reports *)
(* only what happened.                                                      *)
THEOREM SignalsSpeakTruly == SignalsSpec => []SignalsSound
  BY SignalsStart, SignalsKeep, SignalsAreSound, PTL DEF SignalsSpec

-----------------------------------------------------------------------------
(* The automatic acknowledgement of questions.  The transcript starts each  *)
(* turn once and in order, so that a turn proved to be over before one      *)
(* prompt's turn is over before every later one's.  A session is trusted    *)
(* before its first question is asked and never again once it is not, so    *)
(* that a question which is neither in the journal nor settled has moved    *)
(* the epoch, closed the home or ended the trust.                           *)

HookAt == {"idle", "asked", "journaled", "failed", "reported", "saved", "unsaved", "done"}
TurnEvent == [event : {"start", "complete", "abort", "rollback"}, turn : Turns]
HookShape == [at : HookAt, turn : Nat, alive : BOOLEAN, order : Nat]
OpeningShape == [at : {"new", "read", "known"}, epoch : Nat, dirty : BOOLEAN]
JournalShape == [epoch : Nat, dirty : SUBSET Question]
OrderShape == [n : Nat \ {0}, turn : Nat, epoch : Nat, resolved : BOOLEAN]
PolicyShape ==
    [trust : {"none", "trusted", "unknown"}, epoch : Nat, orders : SUBSET OrderShape, home : Nat, closed : BOOLEAN]

QuestionTypes ==
    /\ transcript \in Seq(TurnEvent) /\ heard \subseteq Turns
    /\ hook \in [Question -> HookShape]
    /\ opening \in OpeningShape /\ journal \in JournalShape /\ policy \in PolicyShape
    /\ questionNotice \in [latest : Nat, acked : Nat] /\ questionNotice.acked <= questionNotice.latest
    /\ run \in [turn : Nat, life : {"idle", "running", "error"}]

(* A turn begins after every earlier one, and a prompt is heard in a turn   *)
(* that began; the run is of the latest of them.                            *)
Started(t) == Positions("start", t) # {}
TurnsInOrder ==
    /\ \A i \in DOMAIN transcript, j \in DOMAIN transcript :
          /\ transcript[i].event = "start" /\ transcript[j].event = "start"
          /\ transcript[i].turn < transcript[j].turn
          => i < j
    /\ \A t \in Turns, u \in Turns : u < t /\ Started(t) => Started(u)
    /\ \A t \in heard : Started(t) /\ t <= run.turn
    /\ run.turn # 0 => run.turn \in heard

(* The session is opened before its first turn, and its trust is decided    *)
(* then, of an epoch the journal has reached.                               *)
OpenedFirst ==
    /\ transcript # << >> => opening.at = "known"
    /\ opening.at = "known" => policy.trust # "none"
    /\ policy.closed => opening.at = "known"
    /\ opening.epoch <= journal.epoch /\ policy.epoch <= journal.epoch
    /\ \A q \in Question : hook[q].at # "idle" => transcript # << >>

OrdersIssued ==
    /\ \A o \in policy.orders : OrderIssued(o.n, o.turn)
    /\ \A q \in Question :
          hook[q].at \in {"idle", "asked", "journaled", "failed", "reported"} => hook[q].order = 0

ResolvedAreProven ==
    /\ \A o \in policy.orders : o.resolved => \E u \in heard : proves(o.turn, u)
    /\ checking.at # "none" => checking.f.turn \in heard
    /\ checking.at \in {"read", "checked"} =>
          \A t \in checking.proven : proves(t, checking.f.turn)

UnsettledVetoes ==
    \A q \in Question :
        /\ hook[q].at \in {"journaled", "saved", "unsaved"} =>
              policy.trust # "trusted" \/ q \in journal.dirty \/ journal.epoch > policy.epoch
        /\ hook[q].at = "reported" => policy.trust # "trusted" \/ policy.closed

ResolverInv ==
    /\ QuestionTypes /\ TurnsInOrder /\ OpenedFirst
    /\ OrdersIssued /\ ResolvedAreProven /\ UnsettledVetoes

LEMMA TranscriptAside ==
    ASSUME UNCHANGED transcript
    PROVE  /\ \A e, t : Positions(e, t)' = Positions(e, t)
           /\ \A t : Started(t)' <=> Started(t)
           /\ \A a, b : proves(a, b)' <=> proves(a, b)
  BY DEF Positions, Started, proves

LEMMA EvaluateMoves ==
    ASSUME QuestionTypes
    PROVE  /\ evaluate \in JournalShape /\ evaluate.epoch >= journal.epoch
           /\ evaluate.epoch = journal.epoch => evaluate = journal
           /\ evaluate.dirty = {} => evaluate.epoch > journal.epoch \/ journal.dirty = {}
  BY DEF QuestionTypes, JournalShape, evaluate

(* What the daemon's own steps do to the journal and the policy: the epoch  *)
(* only grows, an entry leaves the journal only as the epoch moves, trust   *)
(* is only lost, and a closed home stays closed while it is trusted.        *)
JournalMoves ==
    /\ journal' \in JournalShape /\ journal'.epoch >= journal.epoch
    /\ journal'.epoch = journal.epoch => journal.dirty \subseteq journal'.dirty
TrustMoves ==
    /\ policy' \in PolicyShape
    /\ policy'.epoch <= policy.epoch
    /\ policy'.closed => policy.closed
    /\ policy.trust # "none" => policy'.trust # "none"
    /\ policy'.trust = "trusted" =>
          policy.trust = "trusted" /\ policy'.epoch = policy.epoch /\ policy'.closed = policy.closed
CheckingGood ==
    /\ checking.at # "none" => checking.f.turn \in heard
    /\ checking.at \in {"read", "checked"} =>
          \A t \in checking.proven : proves(t, checking.f.turn)
OrdersGood(orders) ==
    \A o \in orders : OrderIssued(o.n, o.turn) /\ (o.resolved => \E u \in heard : proves(o.turn, u))
QuietStep ==
    /\ UNCHANGED <<transcript, heard, hook, opening>>
    /\ JournalMoves /\ TrustMoves /\ OrdersGood(policy'.orders) /\ CheckingGood'
    /\ questionNotice' \in [latest : Nat, acked : Nat] /\ questionNotice'.acked <= questionNotice'.latest
    /\ run' \in [turn : Nat, life : {"idle", "running", "error"}] /\ run'.turn = run.turn

LEMMA OrderAside ==
    ASSUME TurnsInOrder, UNCHANGED <<transcript, heard>>, run'.turn = run.turn
    PROVE  TurnsInOrder'
  BY TranscriptAside DEF TurnsInOrder

LEMMA QuietKeeps == ASSUME ResolverInv, QuietStep PROVE ResolverInv'
<1>0. QuestionTypes /\ TurnsInOrder /\ OpenedFirst /\ UnsettledVetoes BY DEF ResolverInv
<1>1. QuestionTypes' BY <1>0 DEF QuestionTypes, QuietStep, JournalMoves, TrustMoves
<1>3. OpenedFirst'
  BY <1>0 DEF QuestionTypes, QuietStep, JournalMoves, TrustMoves, JournalShape, PolicyShape, OpeningShape,
    OpenedFirst
<1>4. UnsettledVetoes'
  BY <1>0 DEF QuestionTypes, QuietStep, JournalMoves, TrustMoves, JournalShape, PolicyShape, UnsettledVetoes,
    OpenedFirst
<1>5. OrdersGood(policy.orders)' BY TranscriptAside DEF QuietStep, OrderIssued, OrdersGood
<1>6. \A q \in Question :
         hook'[q].at \in {"idle", "asked", "journaled", "failed", "reported"} => hook'[q].order = 0
  BY DEF QuietStep, ResolverInv, OrdersIssued
<1> QED
  BY <1>1, <1>0, OrderAside, <1>3, <1>4, <1>5, <1>6 DEF ResolverInv, OrdersIssued, ResolvedAreProven, OrdersGood,
    CheckingGood, QuietStep

LEMMA CheckingAside ==
    ASSUME CheckingGood, UNCHANGED <<transcript, heard>>, checking' \in {checking, NoWork}
    PROVE  CheckingGood'
  BY TranscriptAside DEF CheckingGood, NoWork

LEMMA JournalAside ==
    ASSUME QuestionTypes, journal' \in {journal, evaluate, bump} \cup {load_journal(d) : d \in SUBSET Question}
    PROVE  JournalMoves
  BY EvaluateMoves DEF QuestionTypes, JournalShape, bump, load_journal, JournalMoves

LEMMA PolicyAside ==
    ASSUME ResolverInv, policy' = policy
    PROVE  TrustMoves /\ OrdersGood(policy'.orders)
  BY DEF ResolverInv, QuestionTypes, PolicyShape, OrdersIssued, ResolvedAreProven, TrustMoves, OrdersGood

(* What moves only jobs, the lock and the journal.                          *)
LEMMA JobsKeep ==
    ASSUME ResolverInv, UNCHANGED <<transcript, heard, hook, opening, policy, questionNotice, run>>,
           JournalMoves, CheckingGood'
    PROVE  ResolverInv'
  BY PolicyAside, QuietKeeps DEF ResolverInv, QuietStep, QuestionTypes

LEMMA CheckingIsGood == ASSUME ResolverInv PROVE CheckingGood BY DEF ResolverInv, ResolvedAreProven, CheckingGood

LEMMA ReadTurnsKeeps == ASSUME ResolverInv, ReadTurns PROVE ResolverInv'
  BY CheckingIsGood, JournalAside, TranscriptAside, JobsKeep DEF ResolverInv, ReadTurns, asking, CheckingGood

LEMMA CheckOrderKeeps == ASSUME ResolverInv, CheckOrder PROVE ResolverInv'
<1>1. JournalMoves BY CheckingIsGood, JournalAside DEF CheckOrder, ResolverInv
<1>2. CheckingGood'
  <2>2. checking.f.turn \in heard /\ heard' = heard /\ \A t \in checking.proven : proves(t, checking.f.turn)
    BY CheckingIsGood DEF CheckOrder, CheckingGood, asking, ResolverInv
  <2>3. PICK a \in {"unknown", "retained", "checked"} : checking' = [checking EXCEPT !.at = a] BY DEF CheckOrder
  <2>4. checking'.f = checking.f /\ checking'.proven = checking.proven BY <2>3
  <2> QED BY TranscriptAside, <2>2, <2>4 DEF CheckingGood, CheckOrder, asking
<1> QED BY <1>1, <1>2, JobsKeep DEF CheckOrder, asking

LEMMA JobStepsKeep ==
    ASSUME ResolverInv,
           \/ \E s \in SampleCapture : SampleScreen(s)
           \/ AcquireGuard \/ ReapGuard \/ DropCompletion \/ DeadlinePasses \/ enqueue_tick_once \/ RecoverHome
           \/ \E d \in SUBSET Question : JournalBreaks(d)
    PROVE  ResolverInv'
<1>1. ASSUME UNCHANGED <<transcript, heard, hook, opening, policy, questionNotice, run>>,
             journal' \in {journal, evaluate, bump} \cup {load_journal(d) : d \in SUBSET Question},
             checking' \in {checking, NoWork}
      PROVE  ResolverInv'
  BY CheckingIsGood, <1>1, JournalAside, CheckingAside, JobsKeep DEF ResolverInv
<1>2. CASE \E s \in SampleCapture : SampleScreen(s) BY <1>1, <1>2 DEF SampleScreen, asking
<1>3. CASE AcquireGuard BY <1>1, <1>3 DEF AcquireGuard, asking
<1>4. CASE ReapGuard BY <1>1, <1>4 DEF ReapGuard, asking, jobs
<1>5. CASE DropCompletion BY <1>1, <1>5 DEF DropCompletion, asking
<1>6. CASE DeadlinePasses BY <1>1, <1>6 DEF DeadlinePasses, asking, jobs
<1>7. CASE enqueue_tick_once BY <1>1, <1>7 DEF enqueue_tick_once, asking, jobs
<1>8. CASE RecoverHome BY <1>1, <1>8 DEF RecoverHome, asking
<1>9. CASE \E d \in SUBSET Question : JournalBreaks(d)
  BY CheckingIsGood, <1>1, <1>9 DEF JournalBreaks, asking, jobs, QuestionTypes, JournalShape, ResolverInv
<1> QED BY <1>2, <1>3, <1>4, <1>5, <1>6, <1>7, <1>8, <1>9

LEMMA ResolverTickKeeps == ASSUME ResolverInv, Tick PROVE ResolverInv'
  BY CheckingIsGood, JournalAside, CheckingAside, JobsKeep DEF ResolverInv, Tick, Maintain, asking

(* The daemon's own steps on the policy.                                    *)
LEMMA UnknownMoves ==
    ASSUME ResolverInv
    PROVE  /\ unknown(policy) \in PolicyShape /\ unknown(policy).trust = "unknown"
           /\ unknown(policy).epoch = policy.epoch /\ unknown(policy).closed = policy.closed
           /\ unknown(policy).orders = policy.orders /\ unknown(policy).home = policy.home
  BY DEF ResolverInv, QuestionTypes, PolicyShape, unknown

LEMMA LessOrdersMove ==
    ASSUME ResolverInv, NEW p, p \in PolicyShape, policy' = p,
           p.trust \in {policy.trust, "unknown"}, p.epoch = policy.epoch, p.closed = policy.closed,
           \A o \in p.orders : OrderIssued(o.n, o.turn) /\ (o.resolved => \E u \in heard : proves(o.turn, u))
    PROVE  TrustMoves /\ OrdersGood(policy'.orders)
  BY DEF ResolverInv, QuestionTypes, PolicyShape, TrustMoves, OrdersGood

LEMMA OrdersAreGood ==
    ASSUME ResolverInv
    PROVE  \A o \in policy.orders : OrderIssued(o.n, o.turn) /\ (o.resolved => \E u \in heard : proves(o.turn, u))
  BY DEF ResolverInv, OrdersIssued, ResolvedAreProven

LEMMA TrustAside ==
    ASSUME ResolverInv, policy' \in {policy, unknown(policy)}
    PROVE  TrustMoves /\ OrdersGood(policy'.orders)
  BY UnknownMoves, OrdersAreGood, LessOrdersMove DEF ResolverInv, QuestionTypes

LEMMA AcknowledgedMoves ==
    ASSUME ResolverInv, NEW n, policy' = acknowledged(policy, n)
    PROVE  TrustMoves /\ OrdersGood(policy'.orders)
<1>2. PICK p \in {acknowledged(policy, n)} : policy' = p OBVIOUS
<1>3. /\ p \in PolicyShape /\ p.trust = policy.trust /\ p.epoch = policy.epoch /\ p.closed = policy.closed
      /\ p.orders \subseteq policy.orders
  BY <1>2 DEF acknowledged, PolicyShape, ResolverInv, QuestionTypes
<1> QED BY <1>2, <1>3, OrdersAreGood, LessOrdersMove

LEMMA ResolverRestartKeeps == ASSUME ResolverInv, ResolverRestart PROVE ResolverInv'
  BY CheckingIsGood, JournalAside, CheckingAside, QuietKeeps DEF ResolverInv, ResolverRestart, asking, TrustMoves,
    OrdersGood, QuestionTypes, PolicyShape, QuietStep

LEMMA RecoveredKeeps == ASSUME ResolverInv, HomeRecovered PROVE ResolverInv'
<1>0. QuestionTypes /\ CheckingGood BY CheckingIsGood DEF ResolverInv
<1>2. policy' = recovered(policy, recovery.ticket) /\ run' = run BY DEF HomeRecovered, Maintain
<1>3. TrustMoves /\ OrdersGood(policy'.orders)
  <2>1. CASE policy' = policy BY <2>1, TrustAside
  <2>2. CASE policy' = [unknown(policy) EXCEPT !.closed = FALSE] /\ policy.closed
    <3>1. PICK p \in {[unknown(policy) EXCEPT !.closed = FALSE]} : policy' = p BY <2>2
    <3>2. p \in PolicyShape /\ p.trust = "unknown" /\ p.epoch = policy.epoch /\ ~p.closed /\ p.orders = policy.orders
      BY <3>1, UnknownMoves DEF PolicyShape
    <3> QED BY <1>0, <3>1, <3>2, OrdersAreGood DEF TrustMoves, OrdersGood, QuestionTypes, PolicyShape
  <2> QED BY <1>2, <2>1, <2>2 DEF recovered
<1>4. QuietStep BY <1>0, JournalAside, CheckingAside, <1>2, <1>3 DEF QuietStep, QuestionTypes, HomeRecovered, asking
<1> QED BY <1>4, QuietKeeps

LEMMA UserAckKeeps == ASSUME ResolverInv, acknowledge_question PROVE ResolverInv'
  BY CheckingIsGood, JournalAside, CheckingAside, AcknowledgedMoves, QuietKeeps DEF ResolverInv,
    acknowledge_question, asking, jobs, Maintain, QuestionTypes, QuietStep

LEMMA RunEndsKeeps == ASSUME ResolverInv, NEW life \in {"idle", "error"}, RunEnds(life) PROVE ResolverInv'
  BY CheckingIsGood, JournalAside, CheckingAside, TrustAside, QuietKeeps DEF ResolverInv, RunEnds, asking, jobs,
    Maintain, QuestionTypes, QuietStep

(* The order worker's answer resolves only what its transcript proved.      *)
LEMMA ResolvedMoves ==
    ASSUME ResolverInv, NEW f, NEW proven, policy' = Resolved(policy, f, proven),
           f.turn \in heard, \A t \in proven : proves(t, f.turn)
    PROVE  TrustMoves /\ OrdersGood(policy'.orders)
<1>1. policy \in PolicyShape BY DEF ResolverInv, QuestionTypes
<1> DEFINE Proved(o) == IF o.n \in (f.acked + 1)..f.latest /\ o.turn # f.turn /\ o.turn \in proven
                        THEN [o EXCEPT !.resolved = TRUE] ELSE o
<1>2. PICK p \in {Resolved(policy, f, proven)} : policy' = p OBVIOUS
<1>3. p = [policy EXCEPT !.orders = {Proved(o) : o \in policy.orders}] BY <1>2 DEF Resolved
<1>4. ASSUME NEW o \in policy.orders
      PROVE  /\ Proved(o) \in OrderShape /\ Proved(o).n = o.n /\ Proved(o).turn = o.turn
             /\ Proved(o).resolved => o.resolved \/ o.turn \in proven
  BY <1>1 DEF PolicyShape, OrderShape
<1> HIDE DEF Proved
<1>5. p.orders = {Proved(o) : o \in policy.orders} BY <1>1, <1>3 DEF PolicyShape
<1>6. p \in PolicyShape /\ p.trust = policy.trust /\ p.epoch = policy.epoch /\ p.closed = policy.closed
  BY <1>4, <1>1, <1>3 DEF PolicyShape
<1> QED BY <1>2, <1>6, <1>4, <1>5, OrdersAreGood, LessOrdersMove

LEMMA OrderCompletedKeeps == ASSUME ResolverInv, order_completed PROVE ResolverInv'
  BY CheckingIsGood, JournalAside, CheckingAside, TrustAside, ResolvedMoves, QuietKeeps DEF ResolverInv,
    order_completed, asking, Maintain, CheckingGood, QuietStep, QuestionTypes

(* The proven prefix reaches as far as every order of it is resolved.       *)
LEMMA PrefixIs ==
    ASSUME NEW p, NEW f, f.acked \in Nat, f.latest \in Nat, f.acked <= f.latest
    PROVE  /\ prefix(p, f) \in f.acked..f.latest
           /\ \A n \in (f.acked + 1)..prefix(p, f) : \E o \in p.orders : o.n = n /\ o.resolved /\ o.epoch = f.epoch
<1> DEFINE Done(n) == \E o \in p.orders : o.n = n /\ o.resolved /\ o.epoch = f.epoch
           S == {k \in f.acked..f.latest : \A n \in (f.acked + 1)..k : Done(n)}
<1>a. PICK lo \in Nat, hi \in Nat : lo = f.acked /\ hi = f.latest /\ lo <= hi OBVIOUS
<1> HIDE DEF Done
<1>1. PICK T \in SUBSET (0..hi) : T = S
  <2>1. S \subseteq 0..hi BY <1>a
  <2> QED BY <2>1
<1>2. Max(T) \in T /\ \A y \in T : Max(T) >= y
  <2>1. hi \in Nat /\ T # {} BY <1>a, <1>1
  <2> QED BY ONLY <2>1, MaxInSet, T \subseteq 0..hi
<1>3. PICK k \in T : \A y \in T : k >= y BY <1>2
<1>5. k = f.latest \/ ~Done(k + 1) BY <1>a, <1>1, <1>3
<1>6. \E x \in f.acked..f.latest :
         /\ \A n \in (f.acked + 1)..x : \E o \in p.orders : o.n = n /\ o.resolved /\ o.epoch = f.epoch
         /\ x = f.latest \/ ~\E o \in p.orders : o.n = x + 1 /\ o.resolved /\ o.epoch = f.epoch
  BY <1>1, <1>5 DEF Done
<1> QED BY <1>6 DEF prefix

LEMMA CommitIs ==
    ASSUME ResolverInv, NEW f, NEW through, Commit(f, through), policy.epoch = f.epoch
    PROVE  /\ \/ policy' = policy /\ questionNotice' = questionNotice
              \/ /\ final_guard(f, through) /\ policy' = acknowledged(policy, through)
                 /\ questionNotice' = [questionNotice EXCEPT !.acked = through]
                 /\ through \in questionNotice.acked..questionNotice.latest
                 /\ \A n \in (questionNotice.acked + 1)..through :
                       \E o \in policy.orders : o.n = n /\ o.resolved
           /\ run' = run
  BY PrefixIs DEF Commit, Maintain, final_guard, ResolverInv, QuestionTypes

LEMMA ProbeCompletedKeeps == ASSUME ResolverInv, probe_completed PROVE ResolverInv'
<1>0. QuestionTypes /\ CheckingGood BY CheckingIsGood DEF ResolverInv
<1>2. JournalMoves /\ CheckingGood' BY <1>0, JournalAside, CheckingAside DEF probe_completed, asking
<1>4. \/ policy' = policy /\ questionNotice' = questionNotice
      \/ /\ policy' = acknowledged(policy, probing.through)
         /\ questionNotice' = [questionNotice EXCEPT !.acked = probing.through]
         /\ probing.through \in questionNotice.acked..questionNotice.latest
  BY CommitIs DEF fence_current, probe_completed, Maintain
<1>5. run' = run BY DEF Commit, Maintain, probe_completed
<1>6. TrustMoves /\ OrdersGood(policy'.orders) BY <1>4, TrustAside, AcknowledgedMoves
<1>7. questionNotice' \in [latest : Nat, acked : Nat] /\ questionNotice'.acked <= questionNotice'.latest
  BY <1>0, <1>4 DEF QuestionTypes
<1>8. QuietStep BY <1>0, <1>2, <1>5, <1>6, <1>7 DEF QuietStep, QuestionTypes, probe_completed, asking
<1> QED BY <1>8, QuietKeeps

(* A step of one question's hook: what it has been issued stays, its own    *)
(* entry may leave the journal, and trust is only lost.                     *)
HookMoves(q, h) ==
    /\ UNCHANGED <<transcript, heard, opening, run, checking>> /\ transcript # << >>
    /\ hook' = [hook EXCEPT ![q] = h] /\ h \in HookShape
    /\ hook[q].order # 0 => h.order = hook[q].order /\ h.turn = hook[q].turn
    /\ h.at \in {"idle", "asked", "journaled", "failed", "reported"} => h.order = 0
    /\ journal' \in JournalShape /\ journal'.epoch = journal.epoch
    /\ journal.dirty \subseteq journal'.dirty \cup {q}
    /\ policy' \in PolicyShape /\ policy'.epoch = policy.epoch
    /\ policy'.trust \in {policy.trust, "unknown"} /\ (policy.closed => policy'.closed)
    /\ \A o \in policy'.orders : o \in policy.orders \/ (~o.resolved /\ o.n = h.order /\ o.turn = h.turn)
    /\ h.at \in {"journaled", "saved", "unsaved"} => policy'.trust # "trusted" \/ q \in journal'.dirty
                                                       \/ journal'.epoch > policy'.epoch
    /\ h.at = "reported" => policy'.trust # "trusted" \/ policy'.closed
    /\ questionNotice' \in [latest : Nat, acked : Nat] /\ questionNotice'.acked <= questionNotice'.latest

LEMMA HookKeeps ==
    ASSUME ResolverInv, NEW q \in Question, NEW h, HookMoves(q, h)
    PROVE  ResolverInv'
<1>0. QuestionTypes /\ TurnsInOrder /\ OpenedFirst /\ UnsettledVetoes /\ OrdersIssued /\ ResolvedAreProven
  BY DEF ResolverInv
<1>2. \A r \in Question : hook'[r] = IF r = q THEN h ELSE hook[r] BY <1>0 DEF QuestionTypes, HookMoves
<1>3. QuestionTypes' BY <1>0 DEF QuestionTypes, HookMoves
<1>5. OpenedFirst' BY <1>0 DEF OpenedFirst, HookMoves
<1>6. UnsettledVetoes' BY <1>0, <1>2 DEF HookMoves, UnsettledVetoes
<1>7. OrdersIssued'
  <2>1. ASSUME NEW n \in Nat \ {0}, NEW t, OrderIssued(n, t) PROVE OrderIssued(n, t)'
    BY <2>1, <1>2 DEF OrderIssued, HookMoves
  <2>3. OrderIssued(h.order, h.turn)' BY <1>2 DEF OrderIssued
  <2>4. ASSUME NEW o \in policy'.orders PROVE OrderIssued(o.n, o.turn)'
    BY <1>0, <2>1, <1>3, <2>3 DEF OrdersIssued, HookMoves, QuestionTypes, PolicyShape, OrderShape
  <2>5. ASSUME NEW r \in Question, hook'[r].at \in {"idle", "asked", "journaled", "failed", "reported"}
        PROVE  hook'[r].order = 0
    BY <1>0, <1>2, <2>5 DEF OrdersIssued, HookMoves
  <2> QED BY <2>4, <2>5 DEF OrdersIssued
<1>8. ResolvedAreProven' BY TranscriptAside, <1>0 DEF HookMoves, ResolvedAreProven
<1> QED BY <1>3, <1>0, OrderAside, <1>5, <1>6, <1>7, <1>8 DEF ResolverInv, HookMoves

LEMMA HookTypes ==
    ASSUME ResolverInv, NEW q \in Question
    PROVE  /\ hook \in [Question -> HookShape] /\ hook[q] \in HookShape
           /\ policy \in PolicyShape /\ journal \in JournalShape
           /\ journal.epoch \in Nat /\ journal.dirty \subseteq Question /\ policy.epoch \in Nat
           /\ questionNotice \in [latest : Nat, acked : Nat] /\ questionNotice.acked <= questionNotice.latest
           /\ hook[q].at \in {"idle", "asked", "journaled", "failed", "reported"} => hook[q].order = 0
           /\ hook[q].at # "idle" => transcript # << >>
           /\ hook[q].at \in {"journaled", "saved", "unsaved"} =>
                 policy.trust # "trusted" \/ q \in journal.dirty \/ journal.epoch > policy.epoch
           /\ hook[q].at = "reported" => policy.trust # "trusted" \/ policy.closed
  BY DEF ResolverInv, QuestionTypes, OrdersIssued, OpenedFirst, UnsettledVetoes, JournalShape, PolicyShape

LEMMA AskKeeps == ASSUME ResolverInv, NEW q \in Question, NEW t \in Turns, Ask(q, t) PROVE ResolverInv'
<1>1. PICK h \in {[hook[q] EXCEPT !.at = "asked", !.turn = t]} : TRUE OBVIOUS
<1>3. hook' = [hook EXCEPT ![q] = h] /\ h \in HookShape /\ h.at = "asked" /\ h.order = 0
  <2>1. t \in Nat BY ResolverAssumption DEF Turns
  <2> QED BY <1>1, HookTypes, <2>1 DEF Ask, HookShape, HookAt
<1>4. transcript # << >> BY DEF Ask, Positions
<1>5. UNCHANGED <<transcript, heard, opening, run, checking, journal, policy, questionNotice>> BY DEF Ask, jobs
<1>6. HookMoves(q, h) BY HookTypes, <1>3, <1>4, <1>5 DEF HookMoves, Ask
<1> QED BY <1>6, HookKeeps

LEMMA InsertKeeps == ASSUME ResolverInv, NEW q \in Question, insert(q) PROVE ResolverInv'
<1>1. PICK h \in {[hook[q] EXCEPT !.at = "journaled"]} : TRUE OBVIOUS
<1>3. hook' = [hook EXCEPT ![q] = h] /\ h \in HookShape /\ h.at = "journaled" /\ h.order = 0
  BY <1>1, HookTypes DEF insert, HookShape, HookAt
<1>4. UNCHANGED <<transcript, heard, opening, run, checking, policy, questionNotice>> BY DEF insert, jobs
<1>5. /\ journal' \in JournalShape /\ journal'.epoch = journal.epoch
      /\ journal'.dirty = journal.dirty \cup {q}
  BY HookTypes DEF insert, JournalShape
<1>6. HookMoves(q, h) BY HookTypes, <1>3, <1>4, <1>5 DEF HookMoves, insert
<1> QED BY <1>6, HookKeeps

LEMMA InsertFailsKeeps == ASSUME ResolverInv, NEW q \in Question, InsertFails(q) PROVE ResolverInv'
  BY HookTypes, HookKeeps DEF InsertFails, HookShape, HookAt, jobs, HookMoves

LEMMA HookDiesKeeps == ASSUME ResolverInv, NEW q \in Question, HookDies(q) PROVE ResolverInv'
  BY HookTypes, HookKeeps DEF HookDies, HookShape, jobs, HookMoves

LEMMA PersistedKeeps == ASSUME ResolverInv, NEW q \in Question, persisted(q) PROVE ResolverInv'
  BY HookTypes, HookKeeps DEF persisted, HookShape, HookAt, jobs, JournalShape, HookMoves

LEMMA ReportKeeps ==
    ASSUME ResolverInv, NEW q \in Question, NEW known \in BOOLEAN, ReportFailure(q, known)
    PROVE  ResolverInv'
<1>1. PICK h \in {[hook[q] EXCEPT !.at = "reported"]} : TRUE OBVIOUS
<1>3. hook' = [hook EXCEPT ![q] = h] /\ h \in HookShape /\ h.at = "reported" /\ h.order = 0
  BY <1>1, HookTypes DEF ReportFailure, HookShape, HookAt
<1>4. UNCHANGED <<transcript, heard, opening, run, checking, questionNotice, journal>>
      /\ policy' = journal_failed(policy, known)
  BY DEF ReportFailure, jobs, Maintain
<1>5. /\ policy' \in PolicyShape /\ policy'.epoch = policy.epoch /\ policy'.orders = policy.orders
      /\ policy'.trust \in {policy.trust, "unknown"} /\ (policy.closed => policy'.closed)
      /\ policy'.trust # "trusted" \/ policy'.closed
  <2>2. CASE known BY <1>4, <2>2, UnknownMoves DEF journal_failed
  <2>3. CASE ~known
    <3>1. PICK yes \in BOOLEAN : yes = TRUE OBVIOUS
    <3>2. PICK p \in {[policy EXCEPT !.home = @ + 1, !.closed = yes]} : policy' = p
      BY <1>4, <2>3, <3>1 DEF journal_failed
    <3>4. /\ p \in PolicyShape /\ p.epoch = policy.epoch /\ p.orders = policy.orders
          /\ p.trust = policy.trust /\ p.closed = yes
      <4>1. PICK n \in Nat : n = policy.home + 1 BY HookTypes DEF PolicyShape
      <4>2. p = [policy EXCEPT !.home = n, !.closed = yes] BY <3>2, <4>1
      <4> QED BY HookTypes, <4>2 DEF PolicyShape
    <3> QED BY <3>1, <3>2, <3>4
  <2> QED BY <2>2, <2>3
<1>6. HookMoves(q, h) BY HookTypes, <1>3, <1>4, <1>5 DEF HookMoves, ReportFailure
<1> QED BY <1>6, HookKeeps

(* apply: a question that is delivered takes the next order; the resolver   *)
(* learns of it only when its hook is verified and in the journal.          *)
LEMMA DeliveredIs ==
    ASSUME ResolverInv, NEW q \in Question, NEW verdict \in Verdict, Deliver(q, verdict),
           NEW h, h = [hook[q] EXCEPT !.at = IF verdict \in {"unsaved", "rejected"} THEN "unsaved" ELSE "saved",
                                      !.order = IF verdict = "rejected" THEN 0 ELSE questionNotice.latest + 1]
    PROVE  /\ hook' = [hook EXCEPT ![q] = h] /\ h \in HookShape /\ h.at \in {"saved", "unsaved"}
           /\ hook[q].order = 0 /\ h.turn = hook[q].turn
           /\ verdict # "rejected" => h.order = questionNotice.latest + 1
           /\ questionNotice' \in [latest : Nat, acked : Nat] /\ questionNotice'.acked <= questionNotice'.latest
<1>3. questionNotice \in [latest : Nat, acked : Nat] /\ questionNotice.acked <= questionNotice.latest BY HookTypes
<1>4. /\ questionNotice' \in [latest : Nat, acked : Nat] /\ questionNotice'.acked <= questionNotice'.latest
      /\ verdict # "rejected" => questionNotice'.latest = questionNotice.latest + 1
  BY <1>3 DEF Deliver
<1>5. h \in HookShape /\ h.at \in {"saved", "unsaved"} /\ h.turn = hook[q].turn
      /\ (verdict # "rejected" => h.order = questionNotice.latest + 1)
  <2>1. hook[q] \in HookShape /\ questionNotice.latest + 1 \in Nat BY <1>3, HookTypes
  <2> QED BY <2>1 DEF HookShape, HookAt
<1>6. hook' = [hook EXCEPT ![q] = h] BY HookTypes, <1>4 DEF Deliver
<1> QED BY HookTypes, <1>4, <1>5, <1>6 DEF Deliver

LEMMA IssueIs ==
    ASSUME ResolverInv, NEW t \in Nat, NEW n \in Nat \ {0}, NEW p, p = issue(policy, t, n)
    PROVE  /\ p \in PolicyShape /\ p.epoch = policy.epoch /\ p.closed = policy.closed
           /\ p.trust \in {policy.trust, "unknown"}
           /\ \A o \in p.orders : o \in policy.orders \/ (~o.resolved /\ o.n = n /\ o.turn = t)
<1>1. policy \in PolicyShape /\ policy.epoch \in Nat BY DEF ResolverInv, QuestionTypes, PolicyShape
<1>2. CASE policy.trust = "trusted"
  <2>1. PICK x \in {[n |-> n, turn |-> t, epoch |-> policy.epoch, resolved |-> FALSE]} : TRUE OBVIOUS
  <2>a. PICK no \in BOOLEAN : no = FALSE OBVIOUS
  <2>b. x = [n |-> n, turn |-> t, epoch |-> policy.epoch, resolved |-> no] BY <2>1, <2>a
  <2>2. x \in OrderShape /\ ~x.resolved /\ x.n = n /\ x.turn = t BY <1>1, <2>a, <2>b DEF OrderShape
  <2>4. p.orders = policy.orders \cup {x} BY <1>1, <1>2, <2>1 DEF PolicyShape, issue
  <2>5. p \in PolicyShape /\ p.epoch = policy.epoch /\ p.closed = policy.closed /\ p.trust = policy.trust
    BY <1>1, <2>2, <1>2, <2>1 DEF PolicyShape, issue
  <2> QED BY <2>2, <2>4, <2>5
<1>3. CASE policy.trust # "trusted" BY <1>3, UnknownMoves DEF issue
<1> QED BY <1>2, <1>3

LEMMA DeliverKeeps ==
    ASSUME ResolverInv, NEW q \in Question, NEW verdict \in Verdict, Deliver(q, verdict)
    PROVE  ResolverInv'
<1>1. PICK h \in {[hook[q] EXCEPT !.at = IF verdict \in {"unsaved", "rejected"} THEN "unsaved" ELSE "saved",
                                  !.order = IF verdict = "rejected" THEN 0 ELSE questionNotice.latest + 1]} : TRUE
  OBVIOUS
<1>2. /\ hook' = [hook EXCEPT ![q] = h] /\ h \in HookShape /\ h.at \in {"saved", "unsaved"}
      /\ hook[q].order = 0 /\ h.turn = hook[q].turn
      /\ verdict # "rejected" => h.order = questionNotice.latest + 1
      /\ questionNotice' \in [latest : Nat, acked : Nat] /\ questionNotice'.acked <= questionNotice'.latest
  BY <1>1, DeliveredIs
<1>3. hook[q].at \in {"journaled", "failed", "reported"} /\ hook[q].turn \in Nat /\ questionNotice.latest + 1 \in Nat \ {0}
  BY HookTypes DEF Deliver, HookShape
<1>4. UNCHANGED <<transcript, heard, opening, run, checking, journal>> BY DEF Deliver, jobs, Maintain
<1>5. /\ policy' \in PolicyShape /\ policy'.epoch = policy.epoch /\ policy'.closed = policy.closed
      /\ policy'.trust \in {policy.trust, "unknown"}
      /\ \A o \in policy'.orders : o \in policy.orders \/ (~o.resolved /\ o.n = h.order /\ o.turn = h.turn)
      /\ hook[q].at # "journaled" => policy'.trust = "unknown"
  BY UnknownMoves, HookTypes, <1>3, IssueIs, <1>2 DEF Deliver, Maintain
<1>7. policy'.trust # "trusted" \/ q \in journal'.dirty \/ journal'.epoch > policy'.epoch BY <1>4, <1>5, HookTypes
<1>8. HookMoves(q, h) BY <1>2, <1>3, <1>4, <1>5, <1>7, HookTypes DEF HookMoves
<1> QED BY <1>8, HookKeeps

(* The transcript grows: what it proves, it goes on proving.                *)
LEMMA Appended ==
    ASSUME QuestionTypes, NEW e \in TurnEvent, transcript' = Append(transcript, e)
    PROVE  /\ transcript' \in Seq(TurnEvent) /\ transcript' # << >>
           /\ Len(transcript) \in Nat /\ DOMAIN transcript = 1..Len(transcript)
           /\ DOMAIN transcript' = 1..(Len(transcript) + 1)
           /\ \A i \in DOMAIN transcript : transcript'[i] = transcript[i]
           /\ transcript'[Len(transcript) + 1] = e
           /\ \A i \in DOMAIN transcript : transcript[i] \in TurnEvent
  BY DEF QuestionTypes

LEMMA PositionsGrow ==
    ASSUME QuestionTypes, NEW e \in TurnEvent, transcript' = Append(transcript, e), NEW k, NEW t
    PROVE  Positions(k, t)' = Positions(k, t) \cup (IF e.event = k /\ e.turn = t THEN {Len(transcript) + 1} ELSE {})
  BY Appended DEF Positions

LEMMA ProvesGrows ==
    ASSUME QuestionTypes, NEW e \in TurnEvent, transcript' = Append(transcript, e),
           NEW a, NEW b, proves(a, b),
           e.event = "abort" => Positions("complete", e.turn) = {}
    PROVE  proves(a, b)'
  BY PositionsGrow DEF proves

(* What holds of the policy and the journal is not about the transcript.    *)
LEMMA TranscriptKeeps ==
    ASSUME ResolverInv, NEW e \in TurnEvent, transcript' = Append(transcript, e), opening.at = "known",
           UNCHANGED <<hook, opening, journal, policy, questionNotice, run, heard, checking>>,
           e.event = "abort" => Positions("complete", e.turn) = {},
           TurnsInOrder'
    PROVE  ResolverInv'
<1>0. QuestionTypes /\ OpenedFirst /\ UnsettledVetoes /\ OrdersIssued /\ ResolvedAreProven BY DEF ResolverInv
<1>2. OpenedFirst' BY <1>0, Appended DEF OpenedFirst
<1>3. UnsettledVetoes' BY <1>0 DEF UnsettledVetoes
<1>4. OrdersIssued' BY <1>0 DEF OrderIssued, OrdersIssued
<1>5. ResolvedAreProven' BY <1>0, ProvesGrows DEF ResolvedAreProven
<1> QED BY <1>0, Appended, <1>2, <1>3, <1>4, <1>5 DEF ResolverInv, QuestionTypes

LEMMA StartTurnKeeps == ASSUME ResolverInv, NEW t \in Turns, StartTurn(t) PROVE ResolverInv'
<1>0. QuestionTypes /\ TurnsInOrder BY DEF ResolverInv
<1>1. PICK e \in {[event |-> "start", turn |-> t]} : TRUE OBVIOUS
<1>2. e \in TurnEvent /\ e.event = "start" /\ e.turn = t BY <1>1 DEF TurnEvent
<1>3. transcript' = Append(transcript, e) BY <1>1 DEF StartTurn, WriteJournal
<1>4. /\ UNCHANGED <<hook, opening, journal, policy, questionNotice, run, heard, checking>>
      /\ opening.at = "known" /\ ~Started(t) /\ \A u \in 1..(t - 1) : Started(u)
  BY DEF StartTurn, jobs, Started
<1>5. TurnsInOrder'
  <2>1. \A u : Started(u)' <=> Started(u) \/ u = t BY <1>0, <1>2, <1>3, PositionsGrow DEF Started
  <2>2. ASSUME NEW i \in DOMAIN transcript', NEW j \in DOMAIN transcript',
               transcript'[i].event = "start", transcript'[j].event = "start",
               transcript'[i].turn < transcript'[j].turn
        PROVE  i < j
    <3>1. CASE i \in DOMAIN transcript /\ j \in DOMAIN transcript
      BY <1>0, <1>2, <1>3, <2>2, <3>1, Appended DEF TurnsInOrder
    <3>2. CASE i \in DOMAIN transcript /\ j = Len(transcript) + 1 BY <1>0, <1>2, <1>3, <3>2, Appended
    <3>3. CASE i = Len(transcript) + 1 /\ j \in DOMAIN transcript
      BY <1>0, <1>2, <1>3, <3>3, Appended, <2>2, <1>4 DEF Started, Positions, TurnEvent, TurnsInOrder
    <3>4. CASE i = Len(transcript) + 1 /\ j = Len(transcript) + 1
      BY <1>0, <1>2, <1>3, <3>4, Appended, ResolverAssumption, <2>2 DEF Turns
    <3> QED BY <1>0, <1>2, <1>3, <3>1, <3>2, <3>3, <3>4, Appended
  <2> QED BY <1>0, <1>4, <2>1, <2>2, ResolverAssumption DEF TurnsInOrder, Turns
<1> QED BY <1>2, <1>3, <1>4, <1>5, TranscriptKeeps

LEMMA EndTurnKeeps ==
    ASSUME ResolverInv, NEW t \in Turns, NEW how \in {"complete", "abort", "rollback"}, EndTurn(t, how)
    PROVE  ResolverInv'
<1>1. PICK e \in {[event |-> how, turn |-> t]} : TRUE OBVIOUS
<1>2. e \in TurnEvent /\ e.event = how /\ e.turn = t BY <1>1 DEF TurnEvent
<1>3. transcript' = Append(transcript, e) BY <1>1 DEF EndTurn, WriteJournal
<1>4. /\ UNCHANGED <<hook, opening, journal, policy, questionNotice, run, heard, checking>>
      /\ Positions("complete", t) = {} /\ opening.at = "known"
  BY DEF EndTurn, jobs, Positions, OpenedFirst, ResolverInv
<1>5. TurnsInOrder' BY <1>2, <1>3, PositionsGrow, Appended, <1>4 DEF Started, TurnsInOrder, ResolverInv
<1> QED BY <1>2, <1>3, <1>4, <1>5, TranscriptKeeps

LEMMA OpenSessionKeeps == ASSUME ResolverInv, OpenSession PROVE ResolverInv'
<1>0. QuestionTypes /\ TurnsInOrder /\ OpenedFirst /\ UnsettledVetoes /\ OrdersIssued /\ ResolvedAreProven
  BY DEF ResolverInv
<1>1. /\ UNCHANGED <<transcript, hook, policy, questionNotice, run, heard, checking>>
      /\ journal' = evaluate /\ opening.at = "new" /\ transcript = << >>
      /\ opening' = [at |-> "read", epoch |-> evaluate.epoch, dirty |-> journal.dirty # {}]
  BY <1>0 DEF OpenSession, jobs, OpenedFirst
<1>2. evaluate \in JournalShape /\ evaluate.epoch >= journal.epoch /\ evaluate.epoch \in Nat /\ journal.epoch \in Nat
      /\ policy.epoch \in Nat
  BY <1>0, EvaluateMoves DEF JournalShape, PolicyShape, QuestionTypes
<1>4. QuestionTypes' BY <1>0, <1>1, <1>2 DEF QuestionTypes, OpeningShape
<1>6. OpenedFirst' BY <1>0, <1>1, <1>2 DEF OpenedFirst, OpeningShape
<1>7. UnsettledVetoes' /\ OrdersIssued' BY <1>0, <1>1 DEF OpenedFirst, OrderIssued, UnsettledVetoes, OrdersIssued
<1>8. ResolvedAreProven' BY <1>1, TranscriptAside, <1>0 DEF ResolvedAreProven
<1> QED BY <1>4, <1>0, <1>1, OrderAside, <1>6, <1>7, <1>8 DEF ResolverInv

LEMMA SessionPolicyIs ==
    ASSUME ResolverInv, NEW source, NEW verified \in BOOLEAN, NEW p,
           p = session_start(policy, source, opening, verified)
    PROVE  /\ p \in PolicyShape /\ p.orders = policy.orders /\ p.closed = policy.closed
           /\ \/ policy.trust # "none" /\ p.trust \in {policy.trust, "unknown"} /\ p.epoch = policy.epoch
              \/ policy.trust = "none" /\ ~policy.closed /\ p.trust # "none" /\ p.epoch = opening.epoch
  BY UnknownMoves DEF ResolverInv, QuestionTypes, OpenedFirst, OpeningShape, session_start, PolicyShape

LEMMA SessionStartsKeeps ==
    ASSUME ResolverInv, NEW source \in SessionSource, NEW verified \in BOOLEAN, SessionStarts(source, verified)
    PROVE  ResolverInv'
  BY SessionPolicyIs, OrderAside, TranscriptAside DEF ResolverInv, SessionStarts, jobs, Maintain, QuestionTypes,
    OpeningShape, OpenedFirst, UnsettledVetoes, OrderIssued, OrdersIssued, ResolvedAreProven

LEMMA PromptSubmittedKeeps == ASSUME ResolverInv, NEW t \in Turns, PromptSubmitted(t) PROVE ResolverInv'
<1>0. QuestionTypes /\ TurnsInOrder /\ OpenedFirst /\ UnsettledVetoes /\ OrdersIssued /\ ResolvedAreProven
  BY DEF ResolverInv
<1>1. /\ UNCHANGED <<transcript, hook, opening, journal, questionNotice>>
      /\ heard' = heard \cup {t} /\ Started(t) /\ \A u \in heard : u < t
  BY DEF PromptSubmitted, Started
<1>2. run' = [turn |-> t, life |-> "running"] /\ t \in Nat /\ t # 0
  BY ResolverAssumption DEF PromptSubmitted, Maintain, Turns
<1>4. PICK p \in {policy, unknown(policy)} : policy' = p BY DEF PromptSubmitted, Maintain
<1>5. /\ p \in PolicyShape /\ p.orders = policy.orders /\ p.closed = policy.closed /\ p.epoch = policy.epoch
      /\ p.trust \in {policy.trust, "unknown"}
  BY <1>0, <1>4, UnknownMoves DEF QuestionTypes
<1>6. QuestionTypes' BY <1>0, <1>1, <1>2, <1>4, <1>5 DEF QuestionTypes
<1>7. TurnsInOrder' BY <1>1, TranscriptAside, <1>0, <1>2, ResolverAssumption DEF TurnsInOrder, Turns, QuestionTypes
<1>9. UnsettledVetoes' BY <1>0, <1>1, <1>4, <1>5 DEF UnsettledVetoes
<1>10. OrdersIssued' BY <1>1, <1>0, <1>4, <1>5 DEF OrderIssued, OrdersIssued
<1>11. ResolvedAreProven'
  BY <1>1, TranscriptAside, <1>0, <1>4, <1>5 DEF PromptSubmitted, Candidate, ResolvedAreProven
<1> QED BY <1>6, <1>7, <1>0, <1>1, <1>4, <1>5, <1>9, <1>10, <1>11 DEF ResolverInv, OpenedFirst

LEMMA ResolverStarts == ResolverInit => ResolverInv
<1> SUFFICES ASSUME ResolverInit PROVE ResolverInv OBVIOUS
<1>1. transcript = << >> /\ heard = {} /\ DOMAIN transcript = {} BY DEF ResolverInit
<1>5. TurnsInOrder BY <1>1 DEF TurnsInOrder, Started, ResolverInit, Positions
<1>6. OpenedFirst BY <1>1 DEF OpenedFirst, ResolverInit
<1>7. OrdersIssued /\ ResolvedAreProven /\ UnsettledVetoes
  BY DEF OrdersIssued, ResolvedAreProven, UnsettledVetoes, ResolverInit, NoWork
<1> QED
  BY <1>1, <1>5, <1>6, <1>7 DEF ResolverInv, ResolverInit, HookShape, HookAt, OpeningShape, JournalShape,
    PolicyShape, QuestionTypes

LEMMA ResolverSteps == ResolverInv /\ [ResolverNext]_resolverVars => ResolverInv'
<1> SUFFICES ASSUME ResolverInv, [ResolverNext]_resolverVars PROVE ResolverInv' OBVIOUS
<1>1. CASE UNCHANGED resolverVars
  BY <1>1, JournalAside, CheckingIsGood, CheckingAside, JobsKeep DEF resolverVars, ResolverInv
<1>2. CASE Codex
  BY <1>2, StartTurnKeeps, EndTurnKeeps, PromptSubmittedKeeps, RunEndsKeeps, OpenSessionKeeps, SessionStartsKeeps
    DEF Codex
<1>3. CASE Hooks
  BY <1>3, JobStepsKeep, AskKeeps, InsertKeeps, InsertFailsKeeps, ReportKeeps, DeliverKeeps, PersistedKeeps,
    HookDiesKeeps DEF Hooks
<1>4. CASE ResolverProgress
  BY <1>4, ReadTurnsKeeps, CheckOrderKeeps, OrderCompletedKeeps, JobStepsKeep, ProbeCompletedKeeps,
    ResolverTickKeeps, RecoveredKeeps DEF ResolverProgress
<1>5. CASE acknowledge_question \/ ReapGuard \/ DropCompletion \/ ResolverRestart
  BY <1>5, UserAckKeeps, JobStepsKeep, ResolverRestartKeeps
<1> QED BY <1>1, <1>2, <1>3, <1>4, <1>5 DEF ResolverNext

AnsweredOnly ==
    Automatic =>
        /\ \A n \in (questionNotice.acked + 1)..questionNotice'.acked :
              \E t \in Turns : OrderIssued(n, t) /\ proves(t, run.turn)
        /\ \A q \in Question :
              hook[q].at \in {"journaled", "reported", "saved", "unsaved"}
                => hook[q].order > questionNotice'.acked

(* Only the completion of a probe acknowledges by itself.                   *)
LEMMA AutomaticIs ==
    ASSUME ResolverInv, [ResolverNext]_resolverVars, Automatic
    PROVE  probe_completed
<1>1. questionNotice' # questionNotice /\ questionNotice'.acked # questionNotice.acked /\ probing' # probing
  BY DEF Automatic, NoWork, ResolverInv, QuestionTypes
<1>2. ~UNCHANGED resolverVars BY <1>1 DEF resolverVars
<1>3. ~Codex BY <1>1 DEF Codex, StartTurn, EndTurn, PromptSubmitted, RunEnds, OpenSession, SessionStarts, jobs
<1>4. ~Hooks
  BY <1>1 DEF Hooks, JournalBreaks, Ask, insert, InsertFails, ReportFailure, Deliver, persisted, HookDies, jobs
<1>5. ~(acknowledge_question \/ ReapGuard \/ DropCompletion \/ ResolverRestart)
  BY <1>1 DEF acknowledge_question, ReapGuard, DropCompletion, ResolverRestart, jobs
<1> QED
  BY <1>1, <1>2, <1>3, <1>4, <1>5 DEF ResolverNext, ResolverProgress, ReadTurns, CheckOrder, order_completed,
    SampleScreen, AcquireGuard, DeadlinePasses, enqueue_tick_once, Tick, RecoverHome, HomeRecovered, jobs

LEMMA AcksOnlyAnswered ==
    ResolverInv /\ [ResolverNext]_resolverVars => AnsweredOnly
<1> SUFFICES ASSUME ResolverInv, [ResolverNext]_resolverVars, Automatic PROVE AnsweredOnly BY DEF AnsweredOnly
<1>0. QuestionTypes /\ TurnsInOrder /\ OpenedFirst /\ OrdersIssued /\ ResolvedAreProven /\ UnsettledVetoes
  BY DEF ResolverInv
<1>1. probe_completed /\ questionNotice' # questionNotice BY <1>0, AutomaticIs DEF QuestionTypes, Automatic
<1> DEFINE f == probing.f
<1>2. /\ fence_current(f) /\ lock = "probe" /\ Clean(f) /\ ProbeBindingCurrent(f) /\ Commit(f, probing.through)
  BY <1>1 DEF probe_completed
<1>4. /\ questionNotice' = [questionNotice EXCEPT !.acked = probing.through]
      /\ probing.through \in questionNotice.acked..questionNotice.latest
      /\ \A n \in (questionNotice.acked + 1)..probing.through : \E o \in policy.orders : o.n = n /\ o.resolved
  BY <1>1, <1>2, CommitIs DEF fence_current
<1>6. ASSUME NEW n \in (questionNotice.acked + 1)..questionNotice'.acked
      PROVE  \E t \in Turns : OrderIssued(n, t) /\ proves(t, run.turn)
  <2>1. PICK o \in policy.orders : o.n = n /\ o.resolved BY <1>4, <1>0, <1>6 DEF QuestionTypes
  <2>2. PICK u \in heard : proves(o.turn, u) BY <1>0, <2>1 DEF ResolvedAreProven
  <2>4. PICK s \in Positions("start", o.turn), c \in Positions("complete", o.turn), b \in Positions("start", u) :
           s < c /\ c < b
    BY <2>2 DEF proves
  <2>5. /\ s \in DOMAIN transcript /\ transcript[s].event = "start" /\ transcript[s].turn = o.turn
        /\ b \in DOMAIN transcript /\ transcript[b].event = "start" /\ transcript[b].turn = u
        /\ c \in DOMAIN transcript /\ DOMAIN transcript \subseteq Nat
        /\ o.turn \in Turns /\ u \in Turns /\ Turns \subseteq Nat
    <3>1. /\ s \in DOMAIN transcript /\ transcript[s].event = "start" /\ transcript[s].turn = o.turn
          /\ b \in DOMAIN transcript /\ transcript[b].event = "start" /\ transcript[b].turn = u
          /\ c \in DOMAIN transcript
      BY <2>4 DEF Positions
    <3>3. DOMAIN transcript \subseteq Nat /\ transcript[s] \in TurnEvent BY <3>1, <1>0 DEF QuestionTypes
    <3>4. Turns \subseteq Nat BY DEF Turns
    <3>5. o.turn \in Turns BY <3>1, <3>3 DEF TurnEvent
    <3> QED BY <3>1, <1>0, <3>3, <3>4, <3>5 DEF QuestionTypes
  <2>6. u <= run.turn /\ run.turn \in Nat /\ run.turn # 0 /\ run.turn \in heard /\ Started(run.turn)
    BY <1>0, <2>5 DEF TurnsInOrder, Turns, QuestionTypes
  <2>7. PICK d \in Positions("start", run.turn) : c < d
    BY <2>4, <2>6, <1>0, <2>5 DEF Started, Positions, TurnsInOrder
  <2>9. proves(o.turn, run.turn) BY <2>2, <2>4, <2>7, <2>5, <2>6, <1>0 DEF proves, TurnsInOrder
  <2> QED BY <1>0, <2>1, <2>5, <2>9 DEF OrdersIssued
<1>7. ASSUME NEW q \in Question, hook[q].at \in {"journaled", "reported", "saved", "unsaved"}
      PROVE  FALSE
  BY <1>2, <1>0, EvaluateMoves, <1>7 DEF Clean, QuestionTypes, OpenedFirst, JournalShape, PolicyShape,
    UnsettledVetoes, fence_current
<1> QED BY <1>6, <1>7 DEF AnsweredOnly

(* The daemon acknowledges by itself only questions of turns that were      *)
(* complete before the answering turn began, skips none, and never while a  *)
(* question that a hook journaled or reported has not reached it.           *)
THEOREM AcknowledgesOnlyAnswered == ResolverSpec => OnlyAnsweredAcked
<1>1. ResolverInv /\ [ResolverNext]_resolverVars => [AnsweredOnly]_resolverVars BY AcksOnlyAnswered
<1> QED BY <1>1, ResolverStarts, ResolverSteps, PTL DEF ResolverSpec, OnlyAnsweredAcked, AnsweredOnly

-----------------------------------------------------------------------------
(* The parts together.                                                      *)

ReportsInv == NoticesInv /\ CapInv /\ HookInv

LEMMA ReportsInit == ASSUME AgentsInit PROVE ReportsInv
  BY NoticesInitInv, CapInitInv, HookInitInv, CapacityRetryAssumption DEF AgentsInit, ReportsInv

LEMMA ReportsStep == ASSUME ReportsInv, [AgentsNext]_agentsVars PROVE ReportsInv'
  BY NoticesStep, CapStep, HookStep DEF AgentsNext, agentsVars, ReportsInv

(* A question leaves the list only for a reason, and promises about it      *)
(* survive restarts; resumes after a capacity failure are bounded; a hook   *)
(* event is applied once, to the pane its agent lives in.                   *)
THEOREM ReportsAreSound == AgentsSpec => []ReportsSound
<1>1. ReportsInv => ReportsSound
  BY NoticesAreSound, HooksAreSound DEF ReportsInv, ReportsSound, CapInv, ChainCounts, ResumesBounded
<1> QED BY <1>1, ReportsInit, ReportsStep, PTL DEF AgentsSpec

-----------------------------------------------------------------------------
(* The pane, in whichever part moves it: the reducer's, or one of the two   *)
(* readers of the signals.                                                  *)

LEMMA PanesInit == ASSUME AgentsInit PROVE ReducerInv /\ SignalsInv BY ReducerStarts, SignalsStart DEF AgentsInit

LEMMA PanesStep ==
    ASSUME ReducerInv, SignalsInv, [AgentsNext]_agentsVars PROVE ReducerInv' /\ SignalsInv'
  BY ReducerStep, SignalsKeep DEF AgentsNext, agentsVars, SignalsNext

(* The pane's record is one that the reducer accepts, no hook event of any  *)
(* order is refused, and what is derived from the record (the attention     *)
(* list, a notification, an answer to agent wait) was so in a version of it.*)
THEOREM PanesAreSound == AgentsSpec => []PanesSound
<1>1. ReducerInv /\ SignalsInv => PanesSound BY InvIsSound, SignalsAreSound DEF PanesSound
<1> QED BY <1>1, PanesInit, PanesStep, PTL DEF AgentsSpec

LEMMA ResolverAside == ASSUME [AgentsNext]_agentsVars PROVE [ResolverNext]_resolverVars
  BY DEF AgentsNext, agentsVars, AskingStep, FaultStep

(* What no step does: close a run over an awaited result, acknowledge a     *)
(* question that was not answered, resume another turn than the failed one. *)
THEOREM AgentsKeepTheirWord == AgentsSpec => AgentSteps
<1> DEFINE Inv == ReducerInv /\ SignalsInv /\ ReportsInv /\ ResolverInv
<1>1. AgentsInit => Inv BY PanesInit, ReportsInit, ResolverStarts DEF AgentsInit
<1>2. Inv /\ [AgentsNext]_agentsVars => Inv' BY PanesStep, ReportsStep, ResolverAside, ResolverSteps
<1>3. Inv /\ [AgentsNext]_agentsVars =>
        [HoldsRun]_reducerVars /\ [AnsweredOnly]_resolverVars /\ [ResumeFound]_capVars
  BY ReducerKeeps, ResolverAside, AcksOnlyAnswered, ResumeFoundOnSteps DEF AgentsNext, agentsVars, ReportsInv
<1> HIDE DEF Inv
<1> QED
  BY <1>1, <1>2, <1>3, PTL DEF AgentsSpec, AgentSteps, AwaitedHoldsRun, HoldsRun, OnlyAnsweredAcked, AnsweredOnly,
    ResumesOnlyTheFailedTurn, ResumeFound
=============================================================================
