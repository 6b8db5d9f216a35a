-------------------------- MODULE RunLedgerProofs ---------------------------
(***************************************************************************)
(* Theorems about RunLedger for every set of turns, every number of        *)
(* sessions, epochs, hooks, crashes and failed pane writes, whether hooks  *)
(* overtake each other or not.                                             *)
(***************************************************************************)
EXTENDS RunLedger, TLAPS

-----------------------------------------------------------------------------
(* The inductive invariant.  R is the run records on disk, p the pane, T    *)
(* the session of each turn, L a ledger.                                    *)

LedgerRecord == [runs : [Turn -> RunRecord \cup {NoRun}], current : SUBSET Turn,
                 latest : Turn \cup {NoTurn}]

(* A turn's run is there, is active, is of the pane's binding; two runs are *)
(* of one binding.                                                          *)
Has(R, n) == R[n] # NoRun
Active(R, n) == R[n] # NoRun /\ R[n].active
Of(R, n, p) == R[n].epoch = p.epoch /\ R[n].sess = p.sess
SameBinding(R, n, m) == R[n].epoch = R[m].epoch /\ R[n].sess = R[m].sess

(* A run belongs to a session its turn was started in and to an epoch the   *)
(* pane has had.                                                            *)
Born(R, p, T) ==
    /\ p.epoch >= 1
    /\ \A n \in Turn : Has(R, n) =>
          R[n].epoch >= 1 /\ R[n].epoch <= p.epoch /\ R[n].sess = T[n] /\ T[n] # NoSess

(* A pane that no session is bound to has not run anything; the runs whose  *)
(* pane write it missed are all first runs.                                 *)
UnboundIsFresh(R, p) ==
    p.sess = NoSess =>
        /\ p.epoch = 1 /\ p.seq = 0 /\ p.done = 0
        /\ \A n \in Turn : Has(R, n) => R[n].seq = 1

(* The ledger is at most one run ahead of the pane.                         *)
AtMostOneAhead(R, p) ==
    \A n \in Turn : Has(R, n) /\ Of(R, n, p) => R[n].seq <= p.seq + 1

(* The active run is the only one, and the last of its binding and epoch.   *)
ActiveIsLast(R) ==
    \A n, m \in Turn : Active(R, n) /\ Has(R, m) =>
        /\ Active(R, m) => n = m
        /\ R[m].epoch <= R[n].epoch
        /\ SameBinding(R, n, m) => R[m].seq <= R[n].seq

(* A run that was stopped is over, and its session is the only one of its   *)
(* epoch that has an active run or that the pane can show.                  *)
StoppedBound(R, p) ==
    \A n \in Turn : Has(R, n) /\ R[n].stopped =>
        /\ ~R[n].active
        /\ R[n].epoch = p.epoch => R[n].sess = p.sess
        /\ \A m \in Turn : Active(R, m) /\ R[m].epoch = R[n].epoch => R[m].sess = R[n].sess

(* The active run is of the pane's binding, or no run is.                   *)
ActiveOfPane(R, p) ==
    \A n, m \in Turn : Active(R, n) /\ Has(R, m) /\ Of(R, m, p) => Of(R, n, p)

(* Sequences are unique if the pane was bound when it was found.            *)
UniqueIfBound(R, p) ==
    ~StartsUnbound =>
        /\ p.sess # NoSess
        /\ \A n, m \in Turn : Has(R, n) /\ Has(R, m) /\ n # m /\ SameBinding(R, n, m)
                              => R[n].seq # R[m].seq

DiskOk(R, p, T) ==
    /\ Born(R, p, T) /\ UnboundIsFresh(R, p) /\ AtMostOneAhead(R, p) /\ ActiveIsLast(R)
    /\ StoppedBound(R, p) /\ ActiveOfPane(R, p) /\ UniqueIfBound(R, p)

(* The indexes name one run of a binding, and the active run is in them.    *)
IndexOk(L) ==
    /\ \A n \in L.current : Has(L.runs, n)
    /\ \A n, m \in L.current : SameBinding(L.runs, n, m) => n = m
    /\ L.latest = NoTurn \/ L.latest \in L.current
    /\ \A n \in Turn : Active(L.runs, n) => n \in L.current /\ L.latest = n

(* Every run of the pane's binding is one the pane has counted, or the      *)
(* index has one at least as late.                                          *)
Reaches(L, p) ==
    \A n \in Turn : Has(L.runs, n) /\ Of(L.runs, n, p) =>
        \/ L.runs[n].seq <= p.seq
        \/ \E c \in L.current : Of(L.runs, c, p) /\ L.runs[n].seq <= L.runs[c].seq

LedgerOk(L, p, T) == DiskOk(L.runs, p, T) /\ IndexOk(L) /\ Reaches(L, p)

(* Hooks name the session of their turn; the provider is in a session.      *)
HooksOk ==
    /\ agent.sess # NoSess
    /\ agent.turn # NoTurn => turns[agent.turn] = agent.sess
    /\ \A h \in hooks : h.sess # NoSess /\ (h.kind # "SessionStart" => h.sess = turns[h.turn])

(* A precondition names a run as it was; the run has moved on or is so.     *)
TokenOk ==
    token # NoToken =>
        LET n == token.turn IN
        /\ Has(runs, n)
        /\ runs[n].epoch = token.run.epoch /\ runs[n].sess = token.run.sess
        /\ runs[n].rev >= token.run.rev
        /\ runs[n].rev = token.run.rev => runs[n] = token.run
        /\ token.pane # NoPane => token.pane.epoch = token.run.epoch
                                  /\ token.pane.sess = token.run.sess

LedgerInv ==
    /\ TypeOK
    /\ DiskOk(runs, pane, turns)
    /\ daemon = "up" => LedgerOk(Ledger, pane, turns)
    /\ HooksOk
    /\ TokenOk

-----------------------------------------------------------------------------
(* The operators of the ledger.                                             *)

(* Two bindings are one if they agree on the epoch and on the session. *)
LEMMA BindingEq ==
    ASSUME NEW r, NEW q
    PROVE  Binding(r) = Binding(q) <=> r.epoch = q.epoch /\ r.sess = q.sess
  BY DEF Binding

(* The fields of a run that is there have their types. *)
LEMMA RunTypes ==
    ASSUME NEW R \in [Turn -> RunRecord \cup {NoRun}], NEW n \in Turn, Has(R, n)
    PROVE  /\ R[n] \in RunRecord
           /\ R[n].epoch \in Nat /\ R[n].sess \in Nat /\ R[n].seq \in Nat /\ R[n].rev \in Nat
           /\ R[n].active \in BOOLEAN /\ R[n].stopped \in BOOLEAN
  BY DEF Has, RunRecord

(* index_run either leaves the indexes, because a run of the binding is as  *)
(* late, or makes the run current for its binding, and perhaps for the pane. *)
LEMMA IndexedShape ==
    ASSUME NEW L \in LedgerRecord, NEW n \in Turn, Has(L.runs, n),
           \A m \in L.current : Has(L.runs, m),
           L.latest = NoTurn \/ L.latest \in L.current
    PROVE  /\ Indexed(L, n) \in LedgerRecord
           /\ Indexed(L, n).runs = L.runs
           /\ \/ /\ Indexed(L, n) = L
                 /\ \E m \in L.current : /\ m # n /\ SameBinding(L.runs, m, n)
                                         /\ L.runs[m].seq >= L.runs[n].seq
              \/ /\ \A m \in L.current :
                       m # n /\ SameBinding(L.runs, m, n) => L.runs[m].seq < L.runs[n].seq
                 /\ Indexed(L, n).current =
                       {m \in L.current : ~SameBinding(L.runs, m, n)} \cup {n}
                 /\ \/ /\ L.latest = NoTurn \/ Earlier(L.runs[L.latest], L.runs[n])
                       /\ Indexed(L, n).latest = n
                    \/ /\ L.latest # NoTurn /\ ~Earlier(L.runs[L.latest], L.runs[n])
                       /\ Indexed(L, n).latest = L.latest
<1> DEFINE r == L.runs[n]
           rivals == {m \in L.current : Binding(L.runs[m]) = Binding(r)}
           beaten == \E m \in rivals : m # n /\ L.runs[m].seq >= r.seq
           moved == [L EXCEPT !.current = (@ \ rivals) \cup {n},
                       !.latest = IF @ = NoTurn \/ Earlier(L.runs[@], r) THEN n ELSE @]
<1>1. /\ L.runs \in [Turn -> RunRecord \cup {NoRun}] /\ L.current \subseteq Turn
      /\ L.latest \in Turn \cup {NoTurn}
      /\ L = [runs |-> L.runs, current |-> L.current, latest |-> L.latest]
  BY DEF LedgerRecord
<1>3. \A m \in Turn : Binding(L.runs[m]) = Binding(r) <=> SameBinding(L.runs, m, n) BY BindingEq DEF SameBinding
<1>5. CASE beaten BY <1>1, <1>3, <1>5 DEF Indexed
<1>6. CASE ~beaten
  <2>2. (L.current \ rivals) \cup {n} = {m \in L.current : ~SameBinding(L.runs, m, n)} \cup {n} BY <1>1, <1>3
  <2>3. \A m \in L.current : m # n /\ SameBinding(L.runs, m, n) => L.runs[m].seq < r.seq
    BY <1>1, <1>3, RunTypes, <1>6
  <2>4. Indexed(L, n) = moved BY <1>6 DEF Indexed
  <2> QED BY <1>1, <2>2, <2>3, <2>4 DEF LedgerRecord
<1> QED BY <1>5, <1>6

-----------------------------------------------------------------------------
(* What a step may do to the records that are there.                        *)

Moves(r, q) ==
    \/ q = r
    \/ /\ q.epoch = r.epoch /\ q.sess = r.sess /\ q.seq = r.seq /\ q.rev > r.rev
       /\ q.active => r.active
       /\ r.by # "nobody" => q.by = r.by
       /\ r.stopped => q.stopped

Kept(R, Q) ==
    \A n \in Turn : (Has(R, n) <=> Has(Q, n)) /\ (Has(R, n) => Moves(R[n], Q[n]))

(* A run that is newly stopped is one the pane can show.                    *)
StopsFit(R, Q, p) ==
    \A n \in Turn : Has(Q, n) /\ Q[n].stopped /\ ~R[n].stopped =>
        /\ ~Q[n].active
        /\ Q[n].epoch = p.epoch => Q[n].sess = p.sess
        /\ \A m \in Turn : Active(Q, m) /\ Q[m].epoch = Q[n].epoch => Q[m].sess = Q[n].sess

(* Records that only move on keep the facts about the disk. *)
LEMMA KeptDisk ==
    ASSUME NEW R \in [Turn -> RunRecord \cup {NoRun}], NEW Q \in [Turn -> RunRecord \cup {NoRun}],
           NEW p \in PaneRecord, NEW T \in [Turn -> Nat],
           DiskOk(R, p, T), Kept(R, Q), StopsFit(R, Q, p)
    PROVE  DiskOk(Q, p, T)
<1>1. \A n \in Turn : Has(R, n) <=> Has(Q, n) BY DEF Kept
<1>2. \A n \in Turn : Has(Q, n) =>
         /\ Q[n].epoch = R[n].epoch /\ Q[n].sess = R[n].sess /\ Q[n].seq = R[n].seq
         /\ R[n].stopped => Q[n].stopped
         /\ Active(Q, n) => Active(R, n)
  BY DEF Kept, Moves, Active, Has
<1>6. ActiveIsLast(Q) BY <1>1, <1>2 DEF DiskOk, ActiveIsLast, SameBinding, Active, Has
<1>7. StoppedBound(Q, p) BY <1>1, <1>2 DEF StoppedBound, StopsFit, DiskOk, Active, Has
<1>8. ActiveOfPane(Q, p) BY <1>1, <1>2 DEF DiskOk, ActiveOfPane, Of, Active, Has
<1>9. UniqueIfBound(Q, p) BY <1>1, <1>2 DEF DiskOk, UniqueIfBound, SameBinding
<1> QED BY <1>1, <1>2, <1>6, <1>7, <1>8, <1>9 DEF DiskOk, Born, UnboundIsFresh, AtMostOneAhead, Of

(* Saving a record that is there moves it on and keeps the indexes exact,   *)
(* unless the active run is of another session of the same epoch.           *)
LEMMA SavedOk ==
    ASSUME NEW L \in LedgerRecord, NEW p \in PaneRecord, NEW T \in [Turn -> Nat],
           LedgerOk(L, p, T), NEW n \in Turn, Has(L.runs, n), NEW q \in RunRecord,
           Moves(L.runs[n], q),
           StopsFit(L.runs, [L.runs EXCEPT ![n] = q], p),
           \A a \in Turn : Active(L.runs, a) /\ L.runs[a].epoch = L.runs[n].epoch
                           => L.runs[a].sess = L.runs[n].sess
    PROVE  /\ Saved(L, n, q) \in LedgerRecord
           /\ Saved(L, n, q).runs = [L.runs EXCEPT ![n] = q]
           /\ Kept(L.runs, [L.runs EXCEPT ![n] = q])
           /\ LedgerOk(Saved(L, n, q), p, T)
<1> DEFINE R == L.runs
           Q == [R EXCEPT ![n] = q]
           M == [L EXCEPT !.runs[n] = q]
           S == Indexed(M, n)
<1>1. /\ R \in [Turn -> RunRecord \cup {NoRun}] /\ L.current \subseteq Turn
      /\ L.latest \in Turn \cup {NoTurn}
  BY DEF LedgerRecord
<1>2. /\ M \in LedgerRecord /\ M.runs = Q /\ M.current = L.current /\ M.latest = L.latest
      /\ Q \in [Turn -> RunRecord \cup {NoRun}]
  BY <1>1 DEF LedgerRecord
<1>3. q # NoRun /\ \A m \in Turn : Has(Q, m) <=> Has(R, m) BY <1>1, RecordsAssumption DEF Has
<1>4. Kept(R, Q) BY <1>1, <1>3 DEF Kept, Moves
<1>5. DiskOk(Q, p, T) BY <1>1, <1>2, <1>4, KeptDisk DEF LedgerOk
<1>6. \A m \in Turn : Has(Q, m) =>
         /\ Q[m].epoch = R[m].epoch /\ Q[m].sess = R[m].sess /\ Q[m].seq = R[m].seq
         /\ Active(Q, m) => Active(R, m)
  BY <1>4 DEF Kept, Moves, Active, Has
<1>8. IndexOk(L) /\ Reaches(L, p) /\ DiskOk(R, p, T) BY DEF LedgerOk
<1>9. /\ \A m \in L.current : Has(Q, m)
      /\ L.latest = NoTurn \/ L.latest \in L.current
      /\ Has(Q, n)
  BY <1>1, <1>3, <1>8 DEF IndexOk
<1>10. /\ S \in LedgerRecord /\ S.runs = Q
       /\ \/ /\ S = M
             /\ \E m \in L.current : m # n /\ SameBinding(Q, m, n) /\ Q[m].seq >= Q[n].seq
          \/ /\ \A m \in L.current : m # n /\ SameBinding(Q, m, n) => Q[m].seq < Q[n].seq
             /\ S.current = {m \in L.current : ~SameBinding(Q, m, n)} \cup {n}
             /\ \/ /\ L.latest = NoTurn \/ Earlier(Q[L.latest], Q[n])
                   /\ S.latest = n
                \/ /\ L.latest # NoTurn /\ ~Earlier(Q[L.latest], Q[n])
                   /\ S.latest = L.latest
  <2>1. /\ Indexed(M, n) \in LedgerRecord
        /\ Indexed(M, n).runs = M.runs
        /\ \/ /\ Indexed(M, n) = M
              /\ \E m \in M.current : /\ m # n /\ SameBinding(M.runs, m, n)
                                      /\ M.runs[m].seq >= M.runs[n].seq
           \/ /\ \A m \in M.current :
                    m # n /\ SameBinding(M.runs, m, n) => M.runs[m].seq < M.runs[n].seq
              /\ Indexed(M, n).current =
                    {m \in M.current : ~SameBinding(M.runs, m, n)} \cup {n}
              /\ \/ /\ M.latest = NoTurn \/ Earlier(M.runs[M.latest], M.runs[n])
                    /\ Indexed(M, n).latest = n
                 \/ /\ M.latest # NoTurn /\ ~Earlier(M.runs[M.latest], M.runs[n])
                    /\ Indexed(M, n).latest = M.latest
    BY <1>2, <1>9, IndexedShape
  <2> QED BY <1>2, <2>1
<1>11. \A m \in Turn : Has(Q, m) => Q[m].seq \in Nat /\ Q[m].epoch \in Nat BY <1>2, RunTypes
<1>12. CASE S = M
  <2> DEFINE C == L.current
             l == L.latest
  <2>1. S.current = C /\ S.latest = l /\ S.runs = Q BY <1>2, <1>12
  <2>2. IndexOk(S)
    <3>1. /\ \A m \in C : m \in Turn /\ Has(R, m) /\ Has(Q, m)
          /\ \A m, k \in C : SameBinding(R, m, k) => m = k
          /\ l = NoTurn \/ l \in C
          /\ \A m \in Turn : Active(R, m) => m \in C /\ l = m
      BY <1>1, <1>8, <1>9 DEF IndexOk
    <3> HIDE DEF Q, R, S, C, l
    <3>3. \A m \in Turn : Active(Q, m) => m \in C /\ l = m BY <1>6, <3>1 DEF Active, Has
    <3> QED BY <2>1, <3>1, <1>6, <3>3 DEF IndexOk, SameBinding
  <2>3. Reaches(S, p)
    <3>1. \A m \in Turn : Has(R, m) /\ Of(R, m, p) =>
             \/ R[m].seq <= p.seq
             \/ \E c \in C : Of(R, c, p) /\ R[m].seq <= R[c].seq
      BY <1>8 DEF Reaches
    <3>2. \A m \in C : m \in Turn /\ Has(Q, m) BY <1>1, <1>9
    <3>3. \A m \in Turn : Has(Q, m) => (Of(Q, m, p) <=> Of(R, m, p)) /\ Q[m].seq = R[m].seq BY <1>6 DEF Of
    <3> HIDE DEF Q, R, S, C, l
    <3> QED BY <1>3, <2>1, <3>1, <3>2, <3>3 DEF Reaches
  <2> QED BY <1>2, <1>4, <1>5, <1>10, <2>2, <2>3 DEF LedgerOk, Saved
<1>13. CASE /\ \A m \in L.current : m # n /\ SameBinding(Q, m, n) => Q[m].seq < Q[n].seq
            /\ S.current = {m \in L.current : ~SameBinding(Q, m, n)} \cup {n}
            /\ \/ /\ L.latest = NoTurn \/ Earlier(Q[L.latest], Q[n])
                  /\ S.latest = n
               \/ /\ L.latest # NoTurn /\ ~Earlier(Q[L.latest], Q[n])
                  /\ S.latest = L.latest
  <2>1. \A m \in S.current : Has(Q, m) BY <1>9, <1>13
  <2>2. ASSUME NEW a \in S.current, NEW b \in S.current, SameBinding(Q, a, b) PROVE a = b
    BY <1>1, <1>6, <1>8, <1>9, <1>13, <2>2 DEF IndexOk, SameBinding
  <2>3. S.latest = NoTurn \/ S.latest \in S.current BY <1>13, <1>1, <1>9, <1>11 DEF SameBinding, Earlier
  <2>4. ASSUME NEW a \in Turn, Active(Q, a) PROVE a \in S.current /\ S.latest = a
    <3>1. /\ Has(Q, a) /\ Active(R, a) /\ Q[a].epoch = R[a].epoch /\ Q[a].sess = R[a].sess
          /\ Q[a].seq = R[a].seq
      BY <1>6, <2>4 DEF Active, Has
    <3>2. a \in L.current /\ L.latest = a BY <1>8, <3>1 DEF IndexOk
    <3>3. CASE a = n BY <1>13, <3>2, <3>3
    <3>4. CASE a # n
      <4>1. /\ Q[n].epoch <= Q[a].epoch
            /\ SameBinding(Q, a, n) => Q[n].seq <= Q[a].seq
        BY <1>5, <1>9, <2>4 DEF DiskOk, ActiveIsLast
      <4> QED BY <1>13, <3>2, <3>4, <1>9, <1>11, <3>1, <4>1, <1>6, ConstantsAssumption DEF Earlier, SameBinding
    <3> QED BY <3>3, <3>4
  <2>5. IndexOk(S) BY <1>10, <2>1, <2>2, <2>3, <2>4 DEF IndexOk
  <2>6. ASSUME NEW m \in Turn, Has(Q, m), Of(Q, m, p)
        PROVE  \/ Q[m].seq <= p.seq
               \/ \E c \in S.current : Of(Q, c, p) /\ Q[m].seq <= Q[c].seq
    BY <1>3, <1>6, <2>6, <1>1, <1>9, <1>13, <1>11, <1>8 DEF Of, SameBinding, Reaches
  <2>7. Reaches(S, p) BY <1>10, <2>6 DEF Reaches
  <2> QED BY <1>2, <1>4, <1>5, <1>10, <2>5, <2>7 DEF LedgerOk, Saved
<1> QED BY <1>10, <1>12, <1>13

(* Some active records ended without an outcome, and nothing else happened. *)
Closed(R, Q) ==
    \A n \in Turn : Q[n] = R[n] \/ (Active(R, n) /\ Q[n] = Over(R[n]))

(* A run ended without an outcome keeps its place and is not active. *)
LEMMA OverType ==
    ASSUME NEW r \in RunRecord
    PROVE  /\ Over(r) \in RunRecord /\ Moves(r, Over(r)) /\ ~Over(r).active
           /\ Over(r).epoch = r.epoch /\ Over(r).sess = r.sess /\ Over(r).seq = r.seq
           /\ Over(r).by = r.by /\ Over(r).stopped = r.stopped
<1>1. /\ r.rev \in Nat /\ r.rev + 1 \in Nat \ {0} /\ r.rev + 1 > r.rev
      /\ Over(r) = [r EXCEPT !.active = FALSE, !.rev = r.rev + 1]
  BY DEF RunRecord, Over
<1> QED BY <1>1 DEF Moves, RunRecord

(* Runs ended without an outcome have moved on, and none is newly stopped. *)
LEMMA ClosedKept ==
    ASSUME NEW R \in [Turn -> RunRecord \cup {NoRun}], NEW Q, Closed(R, Q), NEW p
    PROVE  /\ Kept(R, Q) /\ StopsFit(R, Q, p)
           /\ \A n \in Turn : /\ Has(Q, n) <=> Has(R, n)
                              /\ Has(Q, n) => /\ Q[n].epoch = R[n].epoch /\ Q[n].sess = R[n].sess
                                              /\ Q[n].seq = R[n].seq /\ Q[n].by = R[n].by
                              /\ Active(Q, n) => Active(R, n)
  BY OverType, RecordsAssumption DEF Has, Active, Moves, Closed, Kept, StopsFit

(* retire_replaced_bindings_for_pane leaves only runs of the binding active. *)
LEMMA RetiredOk ==
    ASSUME NEW L \in LedgerRecord, NEW p \in PaneRecord, NEW T \in [Turn -> Nat],
           LedgerOk(L, p, T), NEW s \in Nat, s # NoSess, p.sess = s \/ p.sess = NoSess
    PROVE  LET N == Retired(L, <<p.epoch, s>>) IN
           /\ N \in LedgerRecord /\ Closed(L.runs, N.runs)
           /\ LedgerOk(N, p, T)
           /\ \A n \in Turn : Active(N.runs, n) => N.runs[n].epoch = p.epoch /\ N.runs[n].sess = s
           /\ N.latest # NoTurn => N.runs[N.latest].epoch = p.epoch /\ N.runs[N.latest].sess = s
<1> DEFINE b == <<p.epoch, s>>
           N == Retired(L, b)
           l == L.latest
           R == L.runs
<1>1. /\ R \in [Turn -> RunRecord \cup {NoRun}] /\ L.current \subseteq Turn
      /\ l \in Turn \cup {NoTurn}
      /\ IndexOk(L) /\ Reaches(L, p) /\ DiskOk(R, p, T)
  BY DEF LedgerRecord, LedgerOk
<1>2. \A n \in Turn : Active(R, n) => n \in L.current /\ l = n BY <1>1 DEF IndexOk
<1>3. CASE l = NoTurn \/ Binding(R[l]) = b BY <1>3, <1>2, ConstantsAssumption DEF Retired, Binding, Closed
<1>4. CASE ~(l = NoTurn \/ Binding(R[l]) = b)
  <2> DEFINE E == Ended(L, l)
  <2>1. l \in L.current /\ l \in Turn /\ Has(R, l) /\ R[l] \in RunRecord BY <1>1, <1>4, RunTypes DEF IndexOk
  <2>3. /\ E \in LedgerRecord /\ LedgerOk(E, p, T) /\ Closed(R, E.runs)
        /\ \A n \in Turn : ~Active(E.runs, n)
    <3>1. CASE ~R[l].active BY <3>1, <1>2 DEF Ended, Active, Closed
    <3>2. CASE R[l].active
      <4> DEFINE q == Over(R[l])
                 Q == [R EXCEPT ![l] = q]
      <4>3. Closed(R, Q) BY <1>1, <2>1, <3>2 DEF Closed, Active, Has
      <4>5. \A a \in Turn : Active(R, a) => a = l BY <1>2
      <4>6. E \in LedgerRecord /\ LedgerOk(E, p, T) /\ E.runs = Q
        BY <2>1, <3>2, OverType, <1>1, <4>3, ClosedKept, <4>5, SavedOk DEF Ended
      <4> QED BY <4>3, <4>6, <1>1, <2>1, OverType, <4>5 DEF Active
    <3> QED BY <3>1, <3>2
  <2>5. /\ N \in LedgerRecord /\ N.runs = E.runs /\ N.current = E.current \ {l}
        /\ N.latest = NoTurn
    BY <1>4, <2>3 DEF LedgerRecord, Retired
  <2> HIDE DEF E, N
  <2>7. ~Of(E.runs, l, p)
    <3>2. R[l].sess # NoSess BY <1>1, <2>1 DEF DiskOk, Born
    <3> QED BY <1>1, <2>1, <2>3, ClosedKept, <3>2, <1>4 DEF Of, Binding
  <2>9. LedgerOk(N, p, T) BY <2>3, <2>5, <2>7 DEF LedgerOk, IndexOk, LedgerRecord, Reaches
  <2> QED BY <2>3, <2>5, <2>9 DEF N
<1> QED BY <1>3, <1>4

(* The active runs that a new run of their binding follows are over. *)
LEMMA EndedAllOk ==
    ASSUME NEW L \in LedgerRecord, NEW p \in PaneRecord, NEW T \in [Turn -> Nat],
           LedgerOk(L, p, T), NEW s \in Nat,
           \A n \in Turn : Active(L.runs, n) => L.runs[n].epoch = p.epoch /\ L.runs[n].sess = s
    PROVE  LET N == EndedAll(L, Superseded(L, <<p.epoch, s>>)) IN
           /\ N \in LedgerRecord /\ Closed(L.runs, N.runs) /\ N.current = L.current
           /\ N.latest = L.latest
           /\ LedgerOk(N, p, T)
           /\ \A n \in Turn : ~Active(N.runs, n)
<1> DEFINE b == <<p.epoch, s>>
           S == Superseded(L, b)
           N == EndedAll(L, S)
           R == L.runs
           Q == [m \in Turn |-> IF m \in S THEN Over(R[m]) ELSE R[m]]
<1>1. /\ R \in [Turn -> RunRecord \cup {NoRun}] /\ L.current \subseteq Turn
      /\ L.latest \in Turn \cup {NoTurn}
      /\ IndexOk(L) /\ Reaches(L, p) /\ DiskOk(R, p, T)
  BY DEF LedgerRecord, LedgerOk
<1>2. \A n \in Turn : n \in S <=> Active(R, n) BY <1>1 DEF Binding, IndexOk, Superseded, Active, Has
<1>3. Closed(R, Q) BY <1>2 DEF Closed
<1>4. Q \in [Turn -> RunRecord \cup {NoRun}] BY <1>1, <1>2, RunTypes, OverType DEF Superseded, Active, Has
<1>5. N \in LedgerRecord /\ N.runs = Q /\ N.current = L.current /\ N.latest = L.latest
  BY <1>1, <1>4 DEF EndedAll, LedgerRecord
<1>6. \A n \in Turn : ~Active(Q, n) BY <1>1, <1>2, RunTypes, OverType DEF Active, Has
<1>8. \A n \in Turn : /\ Has(Q, n) <=> Has(R, n)
                      /\ Has(Q, n) => /\ Q[n].epoch = R[n].epoch /\ Q[n].sess = R[n].sess
                                      /\ Q[n].seq = R[n].seq
  BY <1>1, <1>3, ClosedKept
<1> HIDE DEF N, Q, S
<1>10. Reaches(N, p) BY <1>1, <1>8, <1>5 DEF IndexOk, Of, Reaches
<1>11. LedgerOk(N, p, T) /\ Closed(R, N.runs) /\ \A n \in Turn : ~Active(N.runs, n)
  BY <1>3, <1>5, <1>6, <1>1, <1>4, ClosedKept, KeptDisk, <1>8, <1>10 DEF LedgerOk, IndexOk, SameBinding
<1> QED BY <1>5, <1>11 DEF N, S

(* The run of a turn that had none becomes the active run of the pane. *)
LEMMA FirstOk ==
    ASSUME NEW L \in LedgerRecord, NEW p \in PaneRecord, NEW T \in [Turn -> Nat],
           LedgerOk(L, p, T), \A m \in Turn : ~Active(L.runs, m),
           NEW s \in Nat, s # NoSess, p.sess = s \/ p.sess = NoSess,
           NEW n \in Turn, ~Has(L.runs, n), T[n] = s,
           SequenceFree(L, <<p.epoch, s>>, p.seq + 1),
           L.latest # NoTurn => /\ L.runs[L.latest].epoch = p.epoch
                                /\ L.runs[L.latest].sess = s
    PROVE  LET q == FirstRecord(<<p.epoch, s>>, p.seq + 1)
               N == Saved(L, n, q)
           IN  /\ q \in RunRecord /\ q.active
               /\ q.epoch = p.epoch /\ q.sess = s /\ q.seq = p.seq + 1 /\ q.by = "nobody"
               /\ N \in LedgerRecord /\ N.runs = [L.runs EXCEPT ![n] = q]
               /\ LedgerOk(N, p, T)
<1> DEFINE q == FirstRecord(<<p.epoch, s>>, p.seq + 1)
           N == Saved(L, n, q)
           R == L.runs
           Q == [R EXCEPT ![n] = q]
           M == [L EXCEPT !.runs[n] = q]
<1>1. /\ R \in [Turn -> RunRecord \cup {NoRun}] /\ L.current \subseteq Turn
      /\ L.latest \in Turn \cup {NoTurn}
      /\ IndexOk(L) /\ Reaches(L, p) /\ DiskOk(R, p, T)
  BY DEF LedgerRecord, LedgerOk
<1>2. p.epoch \in Nat /\ p.seq \in Nat /\ p.seq + 1 \in Nat \ {0} /\ p.sess \in Nat BY DEF PaneRecord
<1>3. /\ q \in RunRecord /\ q.active /\ q.epoch = p.epoch /\ q.sess = s /\ q.seq = p.seq + 1
      /\ q.by = "nobody" /\ ~q.stopped
  BY <1>2 DEF FirstRecord, RunRecord
<1>4. /\ M \in LedgerRecord /\ M.runs = Q /\ M.current = L.current /\ M.latest = L.latest
      /\ Q \in [Turn -> RunRecord \cup {NoRun}] /\ Q[n] = q /\ Has(Q, n)
      /\ \A m \in Turn : m # n => Q[m] = R[m]
  BY <1>1, <1>3, RecordsAssumption DEF LedgerRecord, Has
<1>5. \A m \in Turn : Active(Q, m) <=> m = n BY <1>3, <1>4 DEF Active, Has
<1>6. \A m \in L.current : Has(R, m) /\ m # n /\ m \in Turn /\ Q[m] = R[m] /\ Has(Q, m)
  BY <1>1, <1>4 DEF IndexOk, Has
<1>7. \A m \in Turn : Has(Q, m) => m = n \/ (Has(R, m) /\ Q[m] = R[m]) BY <1>4 DEF Has
<1>8. \A m \in L.current : R[m].epoch = p.epoch /\ R[m].sess = s => R[m].seq < p.seq + 1
  BY <1>6, BindingEq DEF SequenceFree, Binding
<1>9. \A m \in Turn : Has(Q, m) => /\ Q[m].seq \in Nat /\ Q[m].epoch \in Nat /\ Q[m].seq >= 1
  BY <1>4 DEF Has, RunRecord
(* Every earlier run of the binding has an earlier sequence, but for those
   an unbound pane missed. *)
<1>10. ASSUME NEW m \in Turn, Has(R, m), R[m].epoch = p.epoch, R[m].sess = s
       PROVE  R[m].seq <= p.seq + 1 /\ (p.sess # NoSess => R[m].seq < p.seq + 1)
  <2>1. CASE p.sess = NoSess BY <1>1, <1>2, <1>10, <2>1 DEF DiskOk, UnboundIsFresh
  <2>2. CASE p.sess = s BY <1>2, <1>1, <1>10, RunTypes, <1>6, <1>8, <2>2 DEF Of, Reaches
  <2> QED BY <2>1, <2>2
<1> HIDE DEF q, M, Q, R
<1>11. DiskOk(Q, p, T)
  <2>1. Born(Q, p, T) BY <1>1, <1>2, <1>3, <1>4, <1>7 DEF DiskOk, Born
  <2>2. UnboundIsFresh(Q, p) BY <1>1, <1>2, <1>3, <1>4, <1>7 DEF DiskOk, UnboundIsFresh
  <2>3. AtMostOneAhead(Q, p) BY <1>1, <1>2, <1>3, <1>4, <1>7 DEF DiskOk, AtMostOneAhead, Of
  <2>4. ActiveIsLast(Q) BY <1>9, <1>3, <1>4, <1>5, <1>1, <1>7, <1>10 DEF ActiveIsLast, DiskOk, Born, SameBinding
  <2>5. StoppedBound(Q, p) BY <1>5, <1>1, <1>3, <1>4, <1>7 DEF StoppedBound, DiskOk, Born
  <2>6. ActiveOfPane(Q, p) BY <1>5, <1>3, <1>4, <1>1, <1>7 DEF ActiveOfPane, Of, DiskOk, Born
  <2>7. UniqueIfBound(Q, p) BY <1>2, <1>3, <1>4, <1>9, <1>10, <1>1, <1>7 DEF UniqueIfBound, DiskOk, SameBinding
  <2> QED BY <2>1, <2>2, <2>3, <2>4, <2>5, <2>6, <2>7 DEF DiskOk
<1>13. /\ N = Indexed(M, n) /\ N \in LedgerRecord /\ N.runs = Q
       /\ \A m \in L.current : m # n /\ SameBinding(Q, m, n) => Q[m].seq < Q[n].seq
       /\ N.current = {m \in L.current : ~SameBinding(Q, m, n)} \cup {n}
       /\ N.latest = n
  <2>2. ASSUME NEW m \in L.current, SameBinding(Q, m, n) PROVE Q[m].seq < Q[n].seq
    BY <1>3, <1>4, <1>6, <1>8, <2>2 DEF SameBinding
  <2>3. ASSUME L.latest # NoTurn PROVE Earlier(Q[L.latest], Q[n])
    BY <1>2, <1>3, <1>4, <1>6, <1>8, <1>9, <2>3, <1>1 DEF Earlier, R, IndexOk
  <2>4. /\ Indexed(M, n) \in LedgerRecord
        /\ Indexed(M, n).runs = M.runs
        /\ \/ /\ Indexed(M, n) = M
              /\ \E m \in M.current : /\ m # n /\ SameBinding(M.runs, m, n)
                                      /\ M.runs[m].seq >= M.runs[n].seq
           \/ /\ \A m \in M.current :
                    m # n /\ SameBinding(M.runs, m, n) => M.runs[m].seq < M.runs[n].seq
              /\ Indexed(M, n).current =
                    {m \in M.current : ~SameBinding(M.runs, m, n)} \cup {n}
              /\ \/ /\ M.latest = NoTurn \/ Earlier(M.runs[M.latest], M.runs[n])
                    /\ Indexed(M, n).latest = n
                 \/ /\ M.latest # NoTurn /\ ~Earlier(M.runs[M.latest], M.runs[n])
                    /\ Indexed(M, n).latest = M.latest
    BY <1>4, <1>6, <1>1, IndexedShape DEF IndexOk
  <2>5. ~ \E m \in M.current : /\ m # n /\ SameBinding(M.runs, m, n)
                               /\ M.runs[m].seq >= M.runs[n].seq
    BY <1>4, <1>6, <1>9, <2>2
  <2> QED BY <1>4, <2>2, <2>3, <2>4, <2>5 DEF Saved, M, q
<1>14. IndexOk(N) BY <1>13, <1>1, <1>6, <1>4, <1>5 DEF IndexOk, SameBinding, R
<1>15. Reaches(N, p)
  <2> SUFFICES ASSUME NEW m \in Turn, Has(Q, m), Of(Q, m, p)
               PROVE  \/ Q[m].seq <= p.seq
                      \/ \E c \in N.current : Of(Q, c, p) /\ Q[m].seq <= Q[c].seq
    BY <1>13 DEF Reaches
  <2>1. CASE m = n BY <1>9, <1>13, <2>1
  <2>2. CASE m # n
    <3>1. Has(R, m) /\ Of(R, m, p) /\ Q[m] = R[m] /\ R[m].seq \in Nat BY <1>7, <1>9, <2>2 DEF Of
    <3>2. CASE \E c \in L.current : Of(R, c, p) /\ R[m].seq <= R[c].seq
      BY <3>2, <1>6, <3>1, <1>13, <1>4, <1>9 DEF Of, SameBinding
    <3> QED BY <1>1, <3>1, <3>2 DEF Reaches, R
  <2> QED BY <2>1, <2>2
<1> QED BY <1>3, <1>11, <1>13, <1>14, <1>15 DEF LedgerOk, q, Q, R

-----------------------------------------------------------------------------
(* The pane record.                                                         *)

FreshIfUnbound(p) == p.sess = NoSess => p.epoch = 1 /\ p.seq = 0 /\ p.done = 0

(* Within an epoch the pane only moves on, and is bound at most once.       *)
Grows(p, q, s) ==
    /\ q \in PaneRecord /\ q.epoch = p.epoch /\ q.seq >= p.seq
    /\ \/ q.sess = p.sess /\ FreshIfUnbound(q)
       \/ p.sess = NoSess /\ q.sess = s /\ q.seq >= 1

(* Completing the pane's run lets the pane move on. *)
LEMMA CompletedGrows ==
    ASSUME NEW p \in PaneRecord, FreshIfUnbound(p), NEW s
    PROVE  Grows(p, Completed(p), s)
<1>1. /\ p.epoch \in Nat /\ p.sess \in Nat /\ p.seq \in Nat /\ p.done \in Nat
      /\ p.run \in Turn \cup {NoTurn} /\ p.rev \in Nat /\ p.running \in BOOLEAN
  BY DEF PaneRecord
<1>2. CASE p.seq = p.done BY <1>1, <1>2 DEF Completed, Grows
<1>3. CASE p.seq # p.done
  <2>2. /\ Completed(p) \in PaneRecord
        /\ Completed(p).epoch = p.epoch /\ Completed(p).sess = p.sess /\ Completed(p).seq = p.seq
    BY <1>1, <1>3 DEF PaneRecord, Completed
  <2> QED BY <1>1, <1>3, <2>2 DEF Grows, FreshIfUnbound
<1> QED BY <1>2, <1>3

(* Beginning a run lets the pane move on, and binds it. *)
LEMMA BegunGrows ==
    ASSUME NEW p \in PaneRecord, FreshIfUnbound(p), NEW s \in Nat, s # NoSess,
           p.sess = s \/ p.sess = NoSess
    PROVE  Grows(p, Begun(p, s), s)
<1>1. /\ p.epoch \in Nat /\ p.sess \in Nat /\ p.seq \in Nat /\ p.done \in Nat
      /\ p.run \in Turn \cup {NoTurn} /\ p.rev \in Nat /\ p.running \in BOOLEAN
  BY DEF PaneRecord
<1>2. CASE p.seq = p.done
  <2>2. Begun(p, s) = [epoch |-> p.epoch, sess |-> s, seq |-> p.seq + 1, done |-> p.done,
                       running |-> TRUE, run |-> NoTurn, rev |-> 0]
    BY <1>1, <1>2 DEF PaneRecord, Begun
  <2> QED BY <1>1, <2>2 DEF Grows, FreshIfUnbound, PaneRecord
<1>3. CASE p.seq # p.done
  <2>2. /\ Begun(p, s) \in PaneRecord
        /\ Begun(p, s).epoch = p.epoch /\ Begun(p, s).sess = s /\ Begun(p, s).seq = p.seq
    BY <1>1, <1>3 DEF PaneRecord, Begun
  <2> QED BY <1>1, <2>2, <1>3 DEF Grows, FreshIfUnbound
<1> QED BY <1>2, <1>3

(* project_current_run keeps the binding and never lowers the sequence. *)
LEMMA ProjectedGrows ==
    ASSUME NEW p \in PaneRecord, NEW q, NEW s, Grows(p, q, s),
           NEW R \in [Turn -> RunRecord \cup {NoRun}], NEW n \in Turn, Has(R, n),
           R[n].sess # NoSess
    PROVE  Grows(p, Projected(q, n, R), s)
<1> DEFINE r == R[n]
           t == Shown(q, n, r)
<1>2. r \in RunRecord /\ r.seq \in Nat /\ r.seq >= 1 /\ r.rev \in Nat /\ r.active \in BOOLEAN BY DEF Has, RunRecord
<1>4. r.seq - 1 \in Nat BY <1>2
<1>5. /\ t \in PaneRecord /\ t.epoch = q.epoch /\ t.sess = q.sess
      /\ t.seq = IF r.seq > q.seq THEN r.seq ELSE q.seq
  BY <1>2, <1>4 DEF PaneRecord, Grows, Shown
<1>6. CASE Projected(q, n, R) = q BY <1>6
<1>7. CASE Projected(q, n, R) = t /\ q.sess = r.sess BY <1>7, <1>2, <1>5 DEF PaneRecord, Grows, FreshIfUnbound
<1> QED BY <1>6, <1>7 DEF Projected, Binding

(* The ledger fits a pane that has moved on. *)
LEMMA GrowsOk ==
    ASSUME NEW L \in LedgerRecord, NEW p \in PaneRecord, NEW T \in [Turn -> Nat],
           LedgerOk(L, p, T), NEW q, NEW s \in Nat, s # NoSess, Grows(p, q, s),
           q.sess # p.sess => \A n \in Turn : Active(L.runs, n) =>
               L.runs[n].epoch = p.epoch /\ L.runs[n].sess = s
    PROVE  q \in PaneRecord /\ LedgerOk(L, q, T)
<1> DEFINE R == L.runs
<1>1. /\ R \in [Turn -> RunRecord \cup {NoRun}] /\ L.current \subseteq Turn
      /\ IndexOk(L) /\ Reaches(L, p) /\ DiskOk(R, p, T)
      /\ q \in PaneRecord /\ q.epoch = p.epoch /\ q.seq >= p.seq
      /\ p.seq \in Nat /\ q.seq \in Nat
  BY DEF LedgerRecord, LedgerOk, Grows, PaneRecord
<1>2. \A n \in Turn : Has(R, n) => R[n].seq \in Nat /\ R[n].sess # NoSess BY <1>1, RunTypes DEF DiskOk, Born
<1>3. Born(R, q, T) /\ ActiveIsLast(R) BY <1>1 DEF DiskOk, Born
<1>4. CASE q.sess = p.sess /\ FreshIfUnbound(q)
  BY <1>1, <1>4, <1>2, <1>3 DEF Of, DiskOk, UnboundIsFresh, FreshIfUnbound, AtMostOneAhead, StoppedBound,
    ActiveOfPane, UniqueIfBound, Reaches, LedgerOk
<1>5. CASE p.sess = NoSess /\ q.sess = s /\ q.seq >= 1
  BY <1>1, <1>5, <1>2, <1>3 DEF DiskOk, UnboundIsFresh, AtMostOneAhead, StoppedBound, ActiveOfPane, Of,
    UniqueIfBound, Reaches, LedgerOk
<1> QED BY <1>1, <1>4, <1>5 DEF Grows

-----------------------------------------------------------------------------
(* One lemma per handler: it keeps what the invariant says of the ledger    *)
(* and the pane, and moves the records of runs on.                          *)

LedgerPart ==
    /\ runs \in [Turn -> RunRecord \cup {NoRun}]
    /\ pane \in PaneRecord
    /\ current \subseteq Turn /\ latest \in Turn \cup {NoTurn}
    /\ daemon \in {"up", "down"}
    /\ crashes \in Nat /\ faults \in Nat
    /\ DiskOk(runs, pane, turns)
    /\ daemon = "up" => LedgerOk(Ledger, pane, turns)

(* Runs move on, and only an operator completes one as an operator.         *)
Grown(R, Q) == \A n \in Turn : Has(R, n) => Has(Q, n) /\ Moves(R[n], Q[n])
Silent(R, Q) == \A n \in Turn : Has(Q, n) /\ Q[n].by = "operator"
                               => Has(R, n) /\ R[n].by = "operator"

(* The ledger in memory has its type and shows the records on disk. *)
LEMMA LedgerTyped ==
    ASSUME LedgerPart
    PROVE  Ledger \in LedgerRecord /\ Ledger.runs = runs /\ Ledger.current = current
           /\ Ledger.latest = latest
  BY DEF LedgerPart, Ledger, LedgerRecord

(* The outcomes of a handler that writes runs and then the pane. *)
LEMMA WriteOk ==
    ASSUME ConstantsAssumption, LedgerPart, daemon = "up", NEW Partial, NEW L \in LedgerRecord,
           NEW p1, NEW p2,
           Write(Partial, L, p1, p2), turns' = turns, turns \in [Turn -> Nat],
           \A R \in Partial : R \in [Turn -> RunRecord \cup {NoRun}] /\ DiskOk(R, pane, turns),
           \A p \in {pane, p1, p2} : p \in PaneRecord /\ LedgerOk(L, p, turns)
    PROVE  LedgerPart' /\ runs' \in Partial \cup {L.runs}
  BY DEF LedgerRecord, LedgerOk, Become, Ledger, LedgerPart, DieWith, Write

-----------------------------------------------------------------------------
(* Moving on, step after step. *)
LEMMA MovesTrans ==
    ASSUME NEW r \in RunRecord, NEW q \in RunRecord, NEW t \in RunRecord, Moves(r, q), Moves(q, t)
    PROVE  Moves(r, t)
  BY DEF RunRecord, Moves

(* Two moves are one. *)
LEMMA GrownTrans ==
    ASSUME NEW R \in [Turn -> RunRecord \cup {NoRun}], NEW Q \in [Turn -> RunRecord \cup {NoRun}],
           NEW S \in [Turn -> RunRecord \cup {NoRun}],
           Grown(R, Q), Grown(Q, S), Silent(R, Q), Silent(Q, S)
    PROVE  Grown(R, S) /\ Silent(R, S)
  BY RunTypes, MovesTrans DEF Grown, Silent

(* Ending active runs without an outcome is silent growth. *)
LEMMA ClosedGrown ==
    ASSUME NEW R \in [Turn -> RunRecord \cup {NoRun}], NEW Q, Closed(R, Q)
    PROVE  Grown(R, Q) /\ Silent(R, Q)
  BY ClosedKept DEF Kept, Grown, Silent

(* Doing nothing is silent growth. *)
LEMMA SameGrown ==
    ASSUME NEW R
    PROVE  Grown(R, R) /\ Silent(R, R)
  BY DEF Grown, Silent, Moves

(* Adding a run that nobody completed is silent growth. *)
LEMMA AddedGrown ==
    ASSUME NEW R \in [Turn -> RunRecord \cup {NoRun}], NEW n \in Turn, ~Has(R, n),
           NEW q \in RunRecord, q.by = "nobody"
    PROVE  Grown(R, [R EXCEPT ![n] = q]) /\ Silent(R, [R EXCEPT ![n] = q])
  BY DEF Grown, Silent, Moves, Has

(* What a hook says, and what its event does to the pane. *)
LEMMA HookFacts ==
    ASSUME HooksOk, hooks \subseteq Hook, NEW h \in hooks
    PROVE  /\ h.sess \in Nat /\ h.sess # NoSess
           /\ h.kind # "SessionStart" => h.turn \in Turn /\ h.sess = turns[h.turn]
  BY DEF HooksOk, Hook

(* The event of a hook that fits the pane's binding lets the pane move on. *)
LEMMA EventGrows ==
    ASSUME NEW p \in PaneRecord, FreshIfUnbound(p), NEW h, h.sess \in Nat, h.sess # NoSess,
           p.sess = h.sess \/ (p.sess = NoSess /\ h.kind = "Prompt")
    PROVE  Grows(p, PaneEvent(p, h), h.sess)
  BY CompletedGrows, BegunGrows DEF PaneEvent

(* A pane left alone has moved on. *)
LEMMA SameGrows ==
    ASSUME NEW p \in PaneRecord, FreshIfUnbound(p), NEW s
    PROVE  Grows(p, p, s)
  BY DEF PaneRecord, Grows

(* An unbound pane has not run anything. *)
LEMMA PaneFresh ==
    ASSUME LedgerPart
    PROVE  FreshIfUnbound(pane)
  BY DEF LedgerPart, DiskOk, UnboundIsFresh, FreshIfUnbound

-----------------------------------------------------------------------------
(* The first evidence of a turn. *)
LEMMA NewRunOk ==
    ASSUME LedgerPart, HooksOk, hooks \subseteq Hook, turns \in [Turn -> Nat],
           NEW h \in hooks, NewRun(h)
    PROVE  LedgerPart' /\ Grown(runs, runs') /\ Silent(runs, runs')
<1> DEFINE n   == h.turn
           s   == h.sess
           b   == <<pane.epoch, s>>
           L1  == Retired(Ledger, b)
           L2  == EndedAll(L1, Superseded(L1, b))
           q   == FirstRecord(b, pane.seq + 1)
           L3  == Saved(L2, n, q)
           p1  == PaneEvent(pane, h)
           p2  == Projected(p1, n, L3.runs)
<1>1. /\ h.kind # "SessionStart" /\ h.kind # "Stop" /\ daemon = "up" /\ turns' = turns
      /\ runs[n] = NoRun /\ BindingFits(h)
      /\ SequenceFree(L1, b, pane.seq + 1)
      /\ Write({L1.runs, L2.runs}, L3, p1, p2)
  BY DEF NewRun, Arrives
<1>2. s \in Nat /\ s # NoSess /\ n \in Turn /\ turns[n] = s BY <1>1, HookFacts
<1>3. /\ pane.sess = s \/ (pane.sess = NoSess /\ h.kind = "Prompt")
      /\ pane.sess = s \/ pane.sess = NoSess
  BY <1>1 DEF BindingFits
<1>4. /\ Ledger \in LedgerRecord /\ Ledger.runs = runs
      /\ LedgerOk(Ledger, pane, turns)
      /\ pane \in PaneRecord /\ runs \in [Turn -> RunRecord \cup {NoRun}]
      /\ pane.epoch \in Nat /\ pane.seq \in Nat
  BY <1>1, LedgerTyped DEF LedgerPart, PaneRecord
<1>5. /\ L1 \in LedgerRecord /\ Closed(runs, L1.runs)
      /\ LedgerOk(L1, pane, turns)
      /\ \A m \in Turn : Active(L1.runs, m) => L1.runs[m].epoch = pane.epoch /\ L1.runs[m].sess = s
      /\ L1.latest # NoTurn => L1.runs[L1.latest].epoch = pane.epoch /\ L1.runs[L1.latest].sess = s
  BY <1>2, <1>3, <1>4, RetiredOk
<1> HIDE DEF L1
<1>6. /\ L2 \in LedgerRecord /\ Closed(L1.runs, L2.runs) /\ L2.current = L1.current
      /\ L2.latest = L1.latest
      /\ LedgerOk(L2, pane, turns)
      /\ \A m \in Turn : ~Active(L2.runs, m)
  BY <1>2, <1>4, <1>5, EndedAllOk
<1> HIDE DEF L2
<1>7. /\ L1.runs \in [Turn -> RunRecord \cup {NoRun}] /\ L2.runs \in [Turn -> RunRecord \cup {NoRun}]
      /\ L1.current \subseteq Turn /\ L1.latest \in Turn \cup {NoTurn}
  BY <1>5, <1>6 DEF LedgerRecord
<1>8. \A m \in Turn : /\ Has(L1.runs, m) <=> Has(runs, m)
                      /\ Has(L2.runs, m) <=> Has(L1.runs, m)
                      /\ Has(L2.runs, m) => /\ L2.runs[m].epoch = L1.runs[m].epoch
                                            /\ L2.runs[m].sess = L1.runs[m].sess
                                            /\ L2.runs[m].seq = L1.runs[m].seq
  BY <1>4, <1>5, <1>6, <1>7, ClosedKept
<1>9. ~Has(L2.runs, n) BY <1>1, <1>2, <1>8 DEF Has
<1>10. \A m \in L2.current : m \in Turn /\ Has(L2.runs, m) BY <1>6, <1>7 DEF LedgerOk, IndexOk
<1>11. SequenceFree(L2, b, pane.seq + 1) BY <1>1, <1>6, <1>8, <1>10 DEF SequenceFree, Binding
<1>12. L2.latest # NoTurn => L2.runs[L2.latest].epoch = pane.epoch /\ L2.runs[L2.latest].sess = s
  BY <1>6, <1>5, <1>8, <1>10 DEF LedgerOk, IndexOk
<1>13. /\ q \in RunRecord /\ q.active
       /\ q.epoch = pane.epoch /\ q.sess = s /\ q.seq = pane.seq + 1 /\ q.by = "nobody"
       /\ L3 \in LedgerRecord /\ L3.runs = [L2.runs EXCEPT ![n] = q]
       /\ LedgerOk(L3, pane, turns)
  BY <1>2, <1>3, <1>4, <1>6, <1>9, <1>11, <1>12, FirstOk
<1> HIDE DEF q, L3
<1>14. /\ L3.runs \in [Turn -> RunRecord \cup {NoRun}] /\ L3.runs[n] = q
       /\ \A m \in Turn : m # n => L3.runs[m] = L2.runs[m]
  BY <1>2, <1>7, <1>13
<1>15. /\ Has(L3.runs, n) /\ L3.runs[n].sess # NoSess
       /\ \A m \in Turn : Active(L3.runs, m) => L3.runs[m].epoch = pane.epoch /\ L3.runs[m].sess = s
  BY <1>2, <1>6, <1>13, <1>14, RecordsAssumption DEF Has, Active
<1>16. /\ Grows(pane, pane, s) /\ Grows(pane, p1, s) BY <1>1, <1>2, <1>3, <1>4, PaneFresh, SameGrows, EventGrows
<1> HIDE DEF p1
<1>17. Grows(pane, p2, s) BY <1>2, <1>4, <1>14, <1>15, <1>16, ProjectedGrows
<1> HIDE DEF p2
<1>18. \A p \in {pane, p1, p2} : p \in PaneRecord /\ LedgerOk(L3, p, turns)
  <2>1. ASSUME NEW p, Grows(pane, p, s) PROVE p \in PaneRecord /\ LedgerOk(L3, p, turns)
    BY <1>2, <1>4, <1>13, <1>15, <2>1, GrowsOk
  <2> QED BY <1>16, <1>17, <2>1
<1>19. \A R \in {L1.runs, L2.runs} : R \in [Turn -> RunRecord \cup {NoRun}] /\ DiskOk(R, pane, turns)
  BY <1>5, <1>6, <1>7 DEF LedgerOk
<1>20. LedgerPart' /\ runs' \in {L1.runs, L2.runs} \cup {L3.runs}
  BY <1>1, <1>13, <1>18, <1>19, WriteOk, ConstantsAssumption
<1>21. /\ Grown(runs, L1.runs) /\ Silent(runs, L1.runs)
       /\ Grown(L1.runs, L2.runs) /\ Silent(L1.runs, L2.runs)
  BY <1>4, <1>5, <1>6, <1>7, ClosedGrown
<1>23. Grown(runs, L2.runs) /\ Silent(runs, L2.runs) BY <1>4, <1>7, <1>21, GrownTrans
<1>24. Grown(runs, L3.runs) /\ Silent(runs, L3.runs)
  BY <1>4, <1>7, <1>14, <1>2, <1>9, <1>13, AddedGrown, <1>23, GrownTrans
<1> QED BY <1>20, <1>21, <1>23, <1>24

(* More evidence of a turn that has its run. *)
LEMMA ObservedOk ==
    ASSUME NEW r \in RunRecord, NEW kind
    PROVE  LET q == Observed(r, kind) IN
           /\ q \in RunRecord /\ Moves(r, q)
           /\ q.epoch = r.epoch /\ q.sess = r.sess
           /\ q.by = "operator" => r.by = "operator"
           /\ q.stopped /\ ~r.stopped => kind = "Stop" /\ ~q.active
<1>1. /\ r.epoch \in Nat /\ r.sess \in Nat /\ r.seq \in Nat \ {0} /\ r.rev \in Nat \ {0}
      /\ r.active \in BOOLEAN /\ r.stopped \in BOOLEAN /\ r.by \in {"nobody", "provider", "operator"}
      /\ r.rev + 1 \in Nat \ {0} /\ r.rev + 1 > r.rev
  BY DEF RunRecord
<1>2. CASE kind = "Stop"
  <2> DEFINE q == [r EXCEPT !.rev = r.rev + 1, !.active = FALSE, !.stopped = TRUE,
                            !.by = IF r.by = "nobody" THEN "provider" ELSE r.by]
  <2>1. Observed(r, kind) = q BY <1>2 DEF Observed
  <2>2. q \in RunRecord BY <1>1 DEF RunRecord
  <2>3. /\ q.epoch = r.epoch /\ q.sess = r.sess /\ q.seq = r.seq /\ q.rev = r.rev + 1
        /\ ~q.active /\ q.stopped /\ q.by = IF r.by = "nobody" THEN "provider" ELSE r.by
    BY DEF RunRecord
  <2>4. Moves(r, q)
    <3> HIDE DEF q
    <3> QED BY <1>1, <2>3 DEF Moves
  <2> HIDE DEF q
  <2> QED BY <1>1, <1>2, <2>1, <2>2, <2>3, <2>4
<1>3. CASE kind # "Stop"
  <2> DEFINE q == [r EXCEPT !.rev = r.rev + 1]
  <2> QED BY <1>1, <1>3 DEF Moves, Observed, RunRecord
<1> QED BY <1>2, <1>3

(* Replacing a run by one it may move to is silent growth. *)
LEMMA ChangedGrown ==
    ASSUME NEW R \in [Turn -> RunRecord \cup {NoRun}], NEW n \in Turn, Has(R, n),
           NEW q \in RunRecord, Moves(R[n], q), q.by = "operator" => R[n].by = "operator"
    PROVE  Grown(R, [R EXCEPT ![n] = q]) /\ Silent(R, [R EXCEPT ![n] = q])
  BY RecordsAssumption DEF Grown, Silent, Moves, Has

(* Evidence of a turn that has its run: the run is observed again, shown. *)
LEMMA MoreEvidenceOk ==
    ASSUME LedgerPart, HooksOk, hooks \subseteq Hook, turns \in [Turn -> Nat],
           NEW h \in hooks, MoreEvidence(h)
    PROVE  LedgerPart' /\ Grown(runs, runs') /\ Silent(runs, runs')
<1> DEFINE n   == h.turn
           s   == h.sess
           L1  == Retired(Ledger, <<pane.epoch, s>>)
           q   == Observed(L1.runs[n], h.kind)
           L2  == Saved(L1, n, q)
           p1  == IF h.kind = "Stop" \/ L2.runs[n].active THEN PaneEvent(pane, h) ELSE pane
           p2  == Projected(p1, n, L2.runs)
           Q   == [L1.runs EXCEPT ![n] = q]
<1>1. /\ h.kind # "SessionStart" /\ daemon = "up" /\ turns' = turns
      /\ runs[n] # NoRun /\ BindingFits(h)
      /\ Write({L1.runs}, L2, p1, p2)
  BY DEF MoreEvidence, Arrives
<1>2. s \in Nat /\ s # NoSess /\ n \in Turn /\ turns[n] = s BY <1>1, HookFacts
<1>3. /\ pane.sess = s \/ (pane.sess = NoSess /\ h.kind = "Prompt")
      /\ pane.sess = s \/ pane.sess = NoSess
      /\ h.kind = "Stop" => pane.sess = s
  BY <1>1 DEF BindingFits
<1>4. /\ Ledger \in LedgerRecord /\ Ledger.runs = runs
      /\ LedgerOk(Ledger, pane, turns)
      /\ pane \in PaneRecord /\ runs \in [Turn -> RunRecord \cup {NoRun}]
      /\ pane.epoch \in Nat /\ pane.seq \in Nat
  BY <1>1, LedgerTyped DEF LedgerPart, PaneRecord
<1>5. /\ L1 \in LedgerRecord /\ Closed(runs, L1.runs)
      /\ LedgerOk(L1, pane, turns)
      /\ \A m \in Turn : Active(L1.runs, m) => L1.runs[m].epoch = pane.epoch /\ L1.runs[m].sess = s
  BY <1>2, <1>3, <1>4, RetiredOk
<1> HIDE DEF L1
<1>6. L1.runs \in [Turn -> RunRecord \cup {NoRun}] BY <1>5 DEF LedgerRecord
<1>7. Has(L1.runs, n) /\ L1.runs[n].sess = s /\ L1.runs[n] \in RunRecord
  <2>1. Has(L1.runs, n) BY <1>1, <1>2, <1>4, <1>5, ClosedKept DEF Has
  <2> QED BY <1>2, <1>5, <1>6, <2>1, RunTypes DEF LedgerOk, DiskOk, Born
<1>8. /\ q \in RunRecord /\ Moves(L1.runs[n], q)
      /\ q.epoch = L1.runs[n].epoch /\ q.sess = L1.runs[n].sess
      /\ q.by = "operator" => L1.runs[n].by = "operator"
      /\ q.stopped /\ ~L1.runs[n].stopped => h.kind = "Stop" /\ ~q.active
  BY <1>7, ObservedOk
<1> HIDE DEF q
<1>9. Q[n] = q /\ \A m \in Turn : m # n => Q[m] = L1.runs[m] BY <1>2, <1>6
<1>10. \A m \in Turn : Active(Q, m) => Active(L1.runs, m) /\ Q[m].epoch = L1.runs[m].epoch
                                       /\ Q[m].sess = L1.runs[m].sess
  BY <1>7, <1>8, <1>9 DEF Active, Has, Moves
<1> HIDE DEF Q
<1>13. /\ L2 \in LedgerRecord /\ L2.runs = Q
       /\ LedgerOk(L2, pane, turns)
  BY <1>2, <1>4, <1>5, <1>7, <1>8, <1>9, <1>3, <1>10, SavedOk DEF Q, StopsFit
<1> HIDE DEF L2
<1>14. Q \in [Turn -> RunRecord \cup {NoRun}] /\ Has(Q, n) /\ Q[n].sess # NoSess
  BY <1>2, <1>7, <1>8, <1>9, <1>13, RecordsAssumption DEF LedgerRecord, Has
<1>15. Grows(pane, pane, s) /\ Grows(pane, p1, s) BY <1>2, <1>3, <1>4, PaneFresh, SameGrows, EventGrows
<1> HIDE DEF p1
<1>16. Grows(pane, p2, s) BY <1>2, <1>4, <1>13, <1>14, <1>15, ProjectedGrows
<1> HIDE DEF p2
<1>17. \A p \in {pane, p1, p2} : p \in PaneRecord /\ LedgerOk(L2, p, turns)
  BY <1>5, <1>10, <1>13, <1>2, <1>4, GrowsOk, <1>15, <1>16
<1>18. \A R \in {L1.runs} : R \in [Turn -> RunRecord \cup {NoRun}] /\ DiskOk(R, pane, turns)
  BY <1>5, <1>6 DEF LedgerOk
<1>19. LedgerPart' /\ runs' \in {L1.runs} \cup {L2.runs} BY <1>1, <1>13, <1>17, <1>18, WriteOk, ConstantsAssumption
<1>21. Grown(L1.runs, Q) /\ Silent(L1.runs, Q) BY <1>2, <1>6, <1>7, <1>8, ChangedGrown DEF Q
<1> QED BY <1>13, <1>19, <1>4, <1>5, ClosedGrown, <1>6, <1>14, <1>21, GrownTrans

(* The daemon dies with these records. *)
LEMMA DieOk ==
    ASSUME LedgerPart, turns' = turns, NEW R \in [Turn -> RunRecord \cup {NoRun}],
           NEW p \in PaneRecord, DiskOk(R, p, turns), DieWith(R, p)
    PROVE  LedgerPart' /\ runs' = R
  BY DEF LedgerPart, DieWith

(* The pane's session changes only when a prompt binds it. *)
LEMMA SameSession ==
    ASSUME NEW p \in PaneRecord
    PROVE  /\ Completed(p).sess = p.sess
           /\ \A n, R : Projected(p, n, R).sess = p.sess
  BY DEF Completed, PaneRecord, Projected, Shown

(* A run that moves on in place, and the pane that follows it. *)
LEMMA ChangedOk ==
    ASSUME LedgerPart, daemon = "up", turns' = turns, turns \in [Turn -> Nat],
           NEW n \in Turn, Has(runs, n), NEW q \in RunRecord, Moves(runs[n], q),
           StopsFit(runs, [runs EXCEPT ![n] = q], pane),
           \A a \in Turn : Active(runs, a) /\ runs[a].epoch = runs[n].epoch
                           => runs[a].sess = runs[n].sess,
           NEW p1, p1 \in {pane, Completed(pane)},
           NEW p2, p2 \in {p1, Projected(p1, n, [runs EXCEPT ![n] = q])},
           Write({}, Saved(Ledger, n, q), p1, p2) \/ DieWith([runs EXCEPT ![n] = q], pane)
    PROVE  LedgerPart' /\ runs' = [runs EXCEPT ![n] = q] /\ Grown(runs, runs')
<1> DEFINE L == Saved(Ledger, n, q)
           Q == [runs EXCEPT ![n] = q]
           s == runs[n].sess
<1>1. /\ Ledger \in LedgerRecord /\ Ledger.runs = runs
      /\ LedgerOk(Ledger, pane, turns) /\ DiskOk(runs, pane, turns)
      /\ pane \in PaneRecord /\ runs \in [Turn -> RunRecord \cup {NoRun}]
  BY LedgerTyped DEF LedgerPart
<1>2. L \in LedgerRecord /\ L.runs = Q /\ Kept(runs, Q) /\ LedgerOk(L, pane, turns)
  <2> DEFINE M == Ledger
  <2>1. /\ M \in LedgerRecord /\ M.runs = runs /\ LedgerOk(M, pane, turns)
        /\ L = Saved(M, n, q)
    BY <1>1
  <2> HIDE DEF M, L
  <2>2. /\ Has(M.runs, n) /\ Moves(M.runs[n], q)
        /\ StopsFit(M.runs, [M.runs EXCEPT ![n] = q], pane)
        /\ \A a \in Turn : Active(M.runs, a) /\ M.runs[a].epoch = M.runs[n].epoch
                           => M.runs[a].sess = M.runs[n].sess
    BY <2>1
  <2>3. /\ Saved(M, n, q) \in LedgerRecord
        /\ Saved(M, n, q).runs = [M.runs EXCEPT ![n] = q]
        /\ Kept(M.runs, [M.runs EXCEPT ![n] = q])
        /\ LedgerOk(Saved(M, n, q), pane, turns)
    BY <1>1, <2>1, <2>2, SavedOk
  <2> QED BY <2>1, <2>3
<1> HIDE DEF L
<1>3. s \in Nat /\ s # NoSess BY <1>1, RunTypes DEF DiskOk, Born
<1>4. Q \in [Turn -> RunRecord \cup {NoRun}] /\ Has(Q, n) /\ Q[n].sess # NoSess
  BY <1>1, <1>3, RecordsAssumption DEF Has, Moves
<1> HIDE DEF Q, s
<1>5. Grows(pane, p1, s) /\ p1.sess = pane.sess BY <1>1, PaneFresh, SameGrows, CompletedGrows, SameSession
<1>6. Grows(pane, p2, s) /\ p2.sess = pane.sess
  <2>1. p1 \in PaneRecord BY <1>5 DEF Grows
  <2>2. Grows(pane, Projected(p1, n, Q), s) /\ Projected(p1, n, Q).sess = pane.sess
    BY <1>1, <1>4, <1>5, <2>1, ProjectedGrows, SameSession
  <2> QED BY <1>5, <2>2 DEF Q
<1>7. \A p \in {pane, p1, p2} : p \in PaneRecord /\ LedgerOk(L, p, turns) BY <1>1, <1>2, <1>3, GrowsOk, <1>5, <1>6
<1>8. Grown(runs, Q) BY <1>2 DEF Kept, Grown
<1>9. CASE Write({}, L, p1, p2) BY <1>2, <1>7, <1>9, WriteOk, ConstantsAssumption, <1>8 DEF Q
<1>10. CASE DieWith(Q, pane) BY <1>2, <1>1, <1>4, <1>10, DieOk, <1>8 DEF LedgerOk, Q
<1> QED BY <1>9, <1>10 DEF L, Q

(* A second stop of a stopped run only writes a revision and the pane. *)
LEMMA RepeatedStopOk ==
    ASSUME LedgerPart, HooksOk, hooks \subseteq Hook, turns \in [Turn -> Nat],
           NEW h \in hooks, RepeatedStop(h)
    PROVE  LedgerPart' /\ Grown(runs, runs') /\ Silent(runs, runs')
<1> DEFINE n  == h.turn
           q  == [runs[n] EXCEPT !.rev = @ + 1]
           R  == [runs EXCEPT ![n].rev = @ + 1]
           L  == Saved(Ledger, n, q)
           Q  == [runs EXCEPT ![n] = q]
           p1 == Completed(pane)
<1>1. /\ h.kind = "Stop" /\ daemon = "up" /\ turns' = turns
      /\ runs[n] # NoRun /\ runs[n].stopped
      /\ \/ Write({}, L, p1, Projected(p1, n, R))
         \/ Write({}, L, pane, pane)
         \/ DieWith(R, pane)
  BY DEF RepeatedStop, Arrives
<1>2. n \in Turn /\ Has(runs, n) /\ runs[n] \in RunRecord
      /\ runs \in [Turn -> RunRecord \cup {NoRun}] /\ DiskOk(runs, pane, turns)
  BY <1>1, HookFacts DEF Has, LedgerPart
<1>3. R = Q BY <1>2
<1>4. /\ q \in RunRecord /\ Moves(runs[n], q)
      /\ q.stopped = runs[n].stopped /\ q.by = runs[n].by
  BY <1>2 DEF RunRecord, Moves
<1> HIDE DEF q
<1>6. \A a \in Turn : Active(runs, a) /\ runs[a].epoch = runs[n].epoch
                      => runs[a].sess = runs[n].sess
  BY <1>1, <1>2 DEF DiskOk, StoppedBound
<1>7. LedgerPart' /\ runs' = Q /\ Grown(runs, runs') BY <1>1, <1>2, <1>4, <1>6, ChangedOk, <1>3 DEF StopsFit
<1> QED BY <1>7, <1>2, <1>4, ChangedGrown

(* Late evidence that is refused only retires a replaced binding. *)
LEMMA RefusedLateOk ==
    ASSUME LedgerPart, HooksOk, hooks \subseteq Hook, turns \in [Turn -> Nat],
           NEW h \in hooks, RefusedLate(h)
    PROVE  LedgerPart' /\ Grown(runs, runs') /\ Silent(runs, runs')
<1> DEFINE L == Retired(Ledger, <<pane.epoch, h.sess>>)
<1>1. /\ h.kind # "SessionStart" /\ daemon = "up" /\ turns' = turns
      /\ BindingFits(h) /\ Become(L)
      /\ UNCHANGED <<pane, daemon, crashes, faults>>
  BY DEF RefusedLate, Arrives
<1>4. L \in LedgerRecord /\ Closed(runs, L.runs) /\ LedgerOk(L, pane, turns)
  BY <1>1, HookFacts, LedgerTyped, RetiredOk DEF BindingFits, LedgerPart
<1> HIDE DEF L
<1>7. Ledger' = L BY <1>1, <1>4 DEF Become, Ledger, LedgerRecord
<1>8. DiskOk(L.runs, pane, turns) BY <1>4 DEF LedgerOk
<1> QED BY <1>1, LedgerTyped, <1>4, <1>8, <1>7, ClosedGrown DEF Become, LedgerPart, LedgerRecord

(* A new epoch: no run is of it yet. *)
LEMMA SessionStartOk ==
    ASSUME LedgerPart, HooksOk, hooks \subseteq Hook, turns \in [Turn -> Nat],
           NEW h \in hooks, SessionStart(h)
    PROVE  LedgerPart' /\ Grown(runs, runs') /\ Silent(runs, runs')
<1> DEFINE q == NextEpoch(pane, h.sess)
<1>1. /\ daemon = "up" /\ turns' = turns /\ pane' = q
      /\ runs' = runs /\ current' = current /\ latest' = latest
      /\ UNCHANGED <<daemon, crashes, faults>>
  BY DEF SessionStart, Arrives, ledger
<1>2. h.sess \in Nat /\ h.sess # NoSess BY HookFacts
<1>3. /\ pane \in PaneRecord /\ runs \in [Turn -> RunRecord \cup {NoRun}] /\ pane.epoch \in Nat
      /\ DiskOk(runs, pane, turns) /\ IndexOk(Ledger) /\ Ledger.runs = runs
      /\ pane.epoch >= 1
  BY <1>1, LedgerTyped DEF LedgerPart, LedgerOk, PaneRecord, DiskOk, Born
<1>4. FirstPane(h.sess) \in PaneRecord /\ FirstPane(h.sess).sess = h.sess BY <1>2 DEF FirstPane, PaneRecord
<1>5. q \in PaneRecord /\ q.epoch = pane.epoch + 1 /\ q.sess = h.sess BY <1>3, <1>4 DEF NextEpoch, PaneRecord
<1> HIDE DEF q
<1>6. \A n \in Turn : Has(runs, n) => /\ runs[n].epoch \in Nat /\ runs[n].epoch <= pane.epoch
                                      /\ runs[n].epoch # q.epoch /\ ~Of(runs, n, q)
  BY <1>3, <1>5, RunTypes DEF DiskOk, Born, Of
<1>10. ActiveIsLast(runs) BY <1>3 DEF DiskOk
<1>11. StoppedBound(runs, q) BY <1>3, <1>6 DEF DiskOk, StoppedBound
<1>12. UniqueIfBound(runs, q) BY <1>2, <1>3, <1>5 DEF DiskOk, UniqueIfBound
<1>13. DiskOk(runs, q, turns)
  BY <1>3, <1>5, <1>6, <1>2, <1>10, <1>11, <1>12 DEF DiskOk, Born, UnboundIsFresh, AtMostOneAhead, ActiveOfPane
<1> QED BY <1>1, <1>5, <1>13, <1>3, <1>6, SameGrown DEF LedgerPart, Ledger, LedgerOk, Reaches

(* The operator completes a run the pane shows. *)
LEMMA ResolveOk ==
    ASSUME LedgerPart, TokenOk, token \in TokenRecord \cup {NoToken}, turns \in [Turn -> Nat],
           Resolve
    PROVE  /\ LedgerPart' /\ Grown(runs, runs')
           /\ \A m \in Turn : m # token.turn => runs'[m] = runs[m]
<1> DEFINE n == token.turn
           q == [runs[n] EXCEPT !.rev = @ + 1, !.active = FALSE, !.by = "operator"]
           Q == [runs EXCEPT ![n] = q]
           L == Saved(Ledger, n, q)
<1>1. /\ daemon = "up" /\ token # NoToken /\ token.pane # NoPane /\ turns' = turns
      /\ runs[n].by = "nobody" /\ Fresh(token)
      /\ Write({}, L, pane, Projected(pane, n, L.runs))
  BY DEF Resolve, outside
<1>2. /\ n \in Turn /\ Has(runs, n)
      /\ runs[n].epoch = token.run.epoch /\ runs[n].sess = token.run.sess
      /\ token.pane.epoch = token.run.epoch /\ token.pane.sess = token.run.sess
      /\ token.pane = pane
  BY <1>1 DEF TokenOk, TokenRecord, Fresh
<1>3. /\ Of(runs, n, pane)
      /\ runs \in [Turn -> RunRecord \cup {NoRun}] /\ DiskOk(runs, pane, turns)
      /\ runs[n] \in RunRecord
  BY <1>2 DEF Of, LedgerPart, Has
<1>4. q \in RunRecord /\ Moves(runs[n], q) /\ q.stopped = runs[n].stopped
  <2>1. runs[n].rev \in Nat \ {0} /\ runs[n].rev + 1 \in Nat \ {0} /\ runs[n].rev + 1 > runs[n].rev
    BY <1>3 DEF RunRecord
  <2>3. /\ q.epoch = runs[n].epoch /\ q.sess = runs[n].sess /\ q.seq = runs[n].seq
        /\ q.rev = runs[n].rev + 1 /\ ~q.active /\ q.stopped = runs[n].stopped
    BY <1>3 DEF RunRecord
  <2> QED BY <1>1, <2>1, <1>3, <2>3 DEF Moves, RunRecord
<1> HIDE DEF q
<1>5. StopsFit(runs, Q, pane) BY <1>2, <1>3, <1>4 DEF StopsFit
<1>6. \A a \in Turn : Active(runs, a) /\ runs[a].epoch = runs[n].epoch
                      => runs[a].sess = runs[n].sess
  BY <1>2, <1>3 DEF DiskOk, ActiveOfPane, Of
<1>7. L.runs = Q
  <2>1. Ledger.runs = runs /\ Ledger \in LedgerRecord /\ LedgerOk(Ledger, pane, turns)
        /\ pane \in PaneRecord
    BY <1>1, LedgerTyped DEF LedgerPart
  <2> QED BY <2>1, <1>2, <1>4, <1>5, <1>6, SavedOk
<1> QED BY <1>1, <1>2, <1>4, <1>5, <1>6, <1>7, ChangedOk, <1>3

(* The restart: indexes from the records on disk, then the pane from them. *)
LEMMA RestartOk ==
    ASSUME LedgerPart, turns \in [Turn -> Nat], Restart
    PROVE  LedgerPart' /\ Grown(runs, runs') /\ Silent(runs, runs')
<1> DEFINE live == {n \in LastRuns : Binding(runs[n]) = PaneBinding}
           Q == Restarted
           q0 == [pane EXCEPT !.run = NoTurn, !.rev = 0]
           L(l) == [runs |-> Q, current |-> live, latest |-> l]
<1>1. /\ daemon = "down" /\ SequencesUnique /\ daemon' = "up" /\ turns' = turns
      /\ runs' = Q /\ current' = live
      /\ \/ live = {} /\ latest' = NoTurn /\ pane' = q0
         \/ \E n \in live : latest' = n /\ pane' = Projected(pane, n, Q)
      /\ crashes' = crashes /\ faults' = faults
  BY DEF Restart, outside
<1>2. /\ pane \in PaneRecord /\ runs \in [Turn -> RunRecord \cup {NoRun}]
      /\ pane.epoch \in Nat /\ pane.seq \in Nat /\ pane.sess \in Nat
      /\ DiskOk(runs, pane, turns)
  BY DEF LedgerPart, PaneRecord
<1>3. /\ live \subseteq Turn
      /\ \A n \in Turn : n \in live <=> n \in LastRuns /\ Of(runs, n, pane)
      /\ \A n \in live : Has(runs, n)
  BY DEF LastRuns, Binding, PaneBinding, Of, Has
<1>4. \A n \in Turn : Has(runs, n) => runs[n].seq \in Nat /\ runs[n] \in RunRecord BY <1>2, RunTypes
<1>5. \A n, m \in live : n = m BY <1>3, <1>1, <1>4 DEF LastRuns, Has, SequencesUnique
<1>7. /\ Q \in [Turn -> RunRecord \cup {NoRun}] /\ Closed(runs, Q)
      /\ \A n \in Turn : Active(Q, n) => n \in live
  <2>1. ASSUME NEW n \in Turn
        PROVE  /\ Q[n] \in RunRecord \cup {NoRun}
               /\ Q[n] = runs[n] \/ (Active(runs, n) /\ Q[n] = Over(runs[n]))
               /\ Active(Q, n) => n \in live
    BY <1>4, OverType, <1>2 DEF LastRuns, Has, Active, Restarted, DiskOk, ActiveIsLast, Binding, SameBinding
  <2>2. Q = [n \in Turn |-> Q[n]] BY DEF Restarted
  <2> HIDE DEF Q
  <2> QED BY <2>1, <2>2 DEF Closed
<1> HIDE DEF Q
<1>8. /\ Kept(runs, Q) /\ StopsFit(runs, Q, pane)
      /\ \A n \in Turn : /\ Has(Q, n) <=> Has(runs, n)
                         /\ Has(Q, n) => /\ Q[n].epoch = runs[n].epoch /\ Q[n].sess = runs[n].sess
                                         /\ Q[n].seq = runs[n].seq
  BY <1>2, <1>7, ClosedKept
<1>9. DiskOk(Q, pane, turns) BY <1>2, <1>7, <1>8, KeptDisk
<1> HIDE DEF live
<1>11. ASSUME NEW l \in Turn \cup {NoTurn}, l = NoTurn => live = {}, l # NoTurn => l \in live
       PROVE  L(l) \in LedgerRecord /\ LedgerOk(L(l), pane, turns)
  <2>1. L(l).runs = Q /\ L(l).current = live /\ L(l).latest = l OBVIOUS
  <2>2. L(l) \in LedgerRecord BY <1>3, <1>7 DEF LedgerRecord
  <2>3. IndexOk(L(l))
    <3> HIDE DEF L
    <3> QED BY <1>5, <1>11, <2>1, <1>3, <1>8, <1>7 DEF IndexOk
  <2>4. Reaches(L(l), pane)
    <3>1. \A n \in Turn : Has(Q, n) => Q[n].seq \in Nat BY <1>7, RunTypes
    <3> HIDE DEF L
    <3> QED BY <1>4, <1>8, <1>2, <1>3, <2>1, <3>1 DEF Reaches, Of, DiskOk, AtMostOneAhead, Binding, LastRuns, Has
  <2> HIDE DEF L
  <2> QED BY <1>9, <2>1, <2>2, <2>3, <2>4 DEF LedgerOk
<1>12. Ledger' = L(latest') BY <1>1 DEF Ledger
<1>13. latest' \in Turn \cup {NoTurn} /\ pane' \in PaneRecord /\ LedgerOk(Ledger', pane', turns)
  <2>2. CASE live = {} /\ latest' = NoTurn /\ pane' = q0
    <3>2. /\ q0 \in PaneRecord /\ q0.epoch = pane.epoch /\ q0.sess = pane.sess /\ q0.seq = pane.seq
          /\ q0.done = pane.done
      BY <1>2 DEF PaneRecord
    <3> HIDE DEF L, q0
    <3>4. 1 \in Nat /\ 1 # NoSess BY DEF NoSess
    <3>5. q0 \in PaneRecord /\ LedgerOk(L(NoTurn), q0, turns)
      BY <1>2, <1>11, <2>2, ConstantsAssumption, <3>2, PaneFresh, <3>4, GrowsOk DEF Grows, FreshIfUnbound
    <3> QED BY <1>12, <2>2, <3>5
  <2>3. CASE \E n \in live : latest' = n /\ pane' = Projected(pane, n, Q)
    <3>1. PICK n \in live : latest' = n /\ pane' = Projected(pane, n, Q) BY <2>3
    <3>2. n \in Turn /\ Has(Q, n) BY <1>3, <1>8
    <3>4. Q[n].sess \in Nat /\ Q[n].sess # NoSess BY <1>7, <1>9, <3>2, RunTypes DEF DiskOk, Born
    <3>6. Grows(pane, Projected(pane, n, Q), Q[n].sess) /\ Projected(pane, n, Q).sess = pane.sess
      BY <1>2, <1>7, <3>2, <3>4, PaneFresh, SameGrows, ProjectedGrows, SameSession
    <3> HIDE DEF L
    <3> QED BY <1>12, <3>1, <3>2, <1>2, <1>11, ConstantsAssumption, <3>4, <3>6, GrowsOk
  <2> QED BY <1>1, <2>2, <2>3
<1>14. DiskOk(runs', pane', turns')
  <2>1. L(latest').runs = Q OBVIOUS
  <2> HIDE DEF L
  <2> QED BY <1>1, <1>12, <1>13, <2>1 DEF LedgerOk
<1> QED BY <1>1, <1>2, <1>7, <1>3, <1>13, <1>14, ClosedGrown DEF LedgerPart

-----------------------------------------------------------------------------
(* The steps together. *)

LedgerSame == UNCHANGED <<ledger, pane, daemon, crashes, faults>>

(* A step that leaves the ledger and the pane alone keeps their part. *)
LEMMA LedgerSameOk ==
    ASSUME LedgerPart, LedgerSame, \A n \in Turn : Has(runs, n) => turns'[n] = turns[n]
    PROVE  LedgerPart' /\ Grown(runs, runs') /\ Silent(runs, runs')
  BY LedgerTyped, SameGrown DEF LedgerSame, ledger, Ledger, LedgerPart, DiskOk, Born, LedgerOk

(* A precondition stays about a run that has moved on since it was read. *)
LEMMA TokenGrown ==
    ASSUME TokenOk, token \in TokenRecord \cup {NoToken}, token' = token,
           runs \in [Turn -> RunRecord \cup {NoRun}], runs' \in [Turn -> RunRecord \cup {NoRun}],
           Grown(runs, runs')
    PROVE  TokenOk'
<1> SUFFICES ASSUME token # NoToken
             PROVE  LET n == token.turn IN
                    /\ Has(runs', n)
                    /\ runs'[n].epoch = token.run.epoch /\ runs'[n].sess = token.run.sess
                    /\ runs'[n].rev >= token.run.rev
                    /\ runs'[n].rev = token.run.rev => runs'[n] = token.run
                    /\ token.pane # NoPane => token.pane.epoch = token.run.epoch
                                              /\ token.pane.sess = token.run.sess
  BY DEF TokenOk
<1> DEFINE n == token.turn
<1> QED BY RunTypes DEF Moves, Grown, TokenOk, TokenRecord, RunRecord

(* A step from a state with the invariant: what it may do to the runs, and  *)
(* what the operator's completion was based on.                             *)
SawIt ==
    \A n \in Turn : runs[n] # NoRun /\ runs'[n].by = "operator" /\ runs[n].by # "operator" =>
        token # NoToken /\ token.run = runs[n] /\ token.pane = pane

StepOk == LedgerPart' /\ Grown(runs, runs') /\ SawIt

(* A handler that completes nothing as an operator owes no precondition. *)
LEMMA SilentSaw ==
    ASSUME LedgerPart, LedgerPart', Grown(runs, runs'), Silent(runs, runs')
    PROVE  StepOk
  BY DEF StepOk, SawIt, Silent, Grown, Has

(* The parts of the invariant that the handlers use. *)
LEMMA LedgerInvPart ==
    ASSUME LedgerInv
    PROVE  /\ LedgerPart /\ HooksOk /\ TokenOk
           /\ hooks \subseteq Hook /\ turns \in [Turn -> Nat]
           /\ token \in TokenRecord \cup {NoToken}
           /\ agent \in [sess : Nat, turn : Turn \cup {NoTurn}] /\ emitted \in Nat
  BY DEF LedgerInv, TypeOK, LedgerPart

(* The invariant from its parts, after a step. *)
LEMMA InvFromParts ==
    ASSUME LedgerPart', HooksOk', TokenOk',
           (hooks \subseteq Hook)', (turns \in [Turn -> Nat])',
           (token \in TokenRecord \cup {NoToken})',
           (agent \in [sess : Nat, turn : Turn \cup {NoTurn}])', (emitted \in Nat)'
    PROVE  LedgerInv'
  BY DEF LedgerInv, TypeOK, LedgerPart

(* A delivered hook: one of the ways the daemon answers it. *)
LEMMA HookStepOk ==
    ASSUME LedgerInv, NEW h \in hooks, HookStep(h)
    PROVE  /\ StepOk /\ hooks' = hooks \ {h}
           /\ UNCHANGED <<token, agent, turns, emitted>>
<1> USE LedgerInvPart
<1>1. CASE SessionStart(h) BY <1>1, SessionStartOk, SilentSaw DEF SessionStart, Arrives
<1>2. CASE NewRun(h) BY <1>2, NewRunOk, SilentSaw DEF NewRun, Arrives
<1>3. CASE MoreEvidence(h) BY <1>3, MoreEvidenceOk, SilentSaw DEF MoreEvidence, Arrives
<1>4. CASE RepeatedStop(h) BY <1>4, RepeatedStopOk, SilentSaw DEF RepeatedStop, Arrives
<1>5. CASE RefusedLate(h) BY <1>5, RefusedLateOk, SilentSaw DEF RefusedLate, Arrives
<1>6. CASE Refused(h) BY <1>6, LedgerSameOk, SilentSaw DEF Refused, LedgerSame
<1> QED BY <1>1, <1>2, <1>3, <1>4, <1>5, <1>6 DEF HookStep

(* An operator reads a run and then completes what was read. *)
LEMMA OperatorOk ==
    ASSUME LedgerInv, Operator
    PROVE  /\ StepOk /\ TokenOk' /\ token' \in TokenRecord \cup {NoToken}
           /\ UNCHANGED outside
<1>1. /\ LedgerPart /\ TokenOk /\ turns \in [Turn -> Nat]
      /\ token \in TokenRecord \cup {NoToken}
      /\ runs \in [Turn -> RunRecord \cup {NoRun}] /\ pane \in PaneRecord
  BY LedgerInvPart DEF LedgerPart
<1>2. ASSUME LedgerSame, UNCHANGED outside PROVE StepOk BY <1>1, <1>2, LedgerSameOk, SilentSaw DEF outside
<1>3. ASSUME NEW n \in Turn, CheckRun(n)
      PROVE  /\ StepOk /\ TokenOk' /\ token' \in TokenRecord \cup {NoToken}
             /\ UNCHANGED outside
  <2> DEFINE t == [turn |-> n, run |-> runs[n], pane |-> NoPane]
  <2>1. /\ Has(runs, n) /\ token' = t /\ runs' = runs
        /\ LedgerSame /\ UNCHANGED outside
    BY <1>3 DEF CheckRun, Has, LedgerSame, ledger
  <2>3. t \in TokenRecord /\ t.turn = n /\ t.run = runs[n] /\ t.pane = NoPane
    BY <1>1, <2>1, RunTypes DEF TokenRecord
  <2> HIDE DEF t
  <2> QED BY <1>2, <2>1, <2>3, <1>1, RunTypes DEF TokenOk
<1>4. CASE CheckPane
  <2> DEFINE t == [token EXCEPT !.pane = pane]
  <2>1. /\ token # NoToken /\ token \in TokenRecord
        /\ pane.epoch = token.run.epoch /\ pane.sess = token.run.sess
        /\ token' = t /\ runs' = runs
        /\ LedgerSame /\ UNCHANGED outside
    BY <1>1, <1>4 DEF CheckPane, Binding, PaneBinding, LedgerSame, ledger
  <2>2. /\ t \in TokenRecord /\ t.turn = token.turn /\ t.run = token.run /\ t.pane = pane
    BY <1>1, <2>1 DEF TokenRecord
  <2> HIDE DEF t
  <2> QED BY <1>2, <2>1, <2>2, <1>1 DEF TokenOk
<1>5. CASE Resolve BY <1>1, <1>5, ResolveOk DEF Resolve, SawIt, TokenOk, Fresh, StepOk
<1>6. CASE Withdraw BY <1>2, <1>6 DEF Withdraw, LedgerSame, TokenOk, outside
<1> QED BY <1>3, <1>4, <1>5, <1>6 DEF Operator

(* The hook that is emitted names the session of its turn. *)
LEMMA EmitOk ==
    ASSUME LedgerInv, NEW kind \in {"Prompt", "Activity", "Stop", "SessionStart"},
           NEW n \in Turn \cup {NoTurn}, kind = "SessionStart" <=> n = NoTurn,
           NEW s \in Nat, s # NoSess, Emit(kind, n, s),
           \A m \in Turn : turns[m] # NoSess => turns'[m] = turns[m],
           n # NoTurn => turns'[n] = s
    PROVE  /\ StepOk /\ token' = token
           /\ hooks' \subseteq Hook /\ emitted' \in Nat
           /\ \A h \in hooks' : h.sess # NoSess /\ (h.kind # "SessionStart" => h.sess = turns'[h.turn])
<1> DEFINE new == [no |-> emitted, kind |-> kind, turn |-> n, sess |-> s]
<1>1. /\ LedgerPart /\ HooksOk /\ hooks \subseteq Hook /\ emitted \in Nat BY LedgerInvPart
<1>2. /\ LedgerSame /\ token' = token /\ emitted' = emitted + 1 /\ hooks' = hooks \cup {new} BY DEF Emit, LedgerSame
<1>3. new \in Hook /\ new.kind = kind /\ new.turn = n /\ new.sess = s BY <1>1, ConstantsAssumption DEF Hook
<1> HIDE DEF new
<1>5. \A h \in hooks : h.sess # NoSess /\ (h.kind # "SessionStart" => h.sess = turns'[h.turn]) BY <1>1, HookFacts
<1>6. StepOk BY <1>1, <1>2, LedgerSameOk, SilentSaw DEF LedgerPart, DiskOk, Born
<1> QED BY <1>1, <1>2, <1>3, <1>5, <1>6, ConstantsAssumption

(* The provider starts sessions and turns and its hooks are delivered. *)
LEMMA ProviderOk ==
    ASSUME LedgerInv, Provider
    PROVE  LedgerInv' /\ StepOk
<1>1. /\ LedgerPart /\ HooksOk /\ TokenOk /\ turns \in [Turn -> Nat]
      /\ token \in TokenRecord \cup {NoToken}
      /\ agent \in [sess : Nat, turn : Turn \cup {NoTurn}]
      /\ agent.sess # NoSess /\ agent.sess \in Nat
  BY LedgerInvPart DEF HooksOk
<1>2. ASSUME StepOk, token' = token, hooks' \subseteq Hook, emitted' \in Nat,
             \A h \in hooks' : h.sess # NoSess /\ (h.kind # "SessionStart" => h.sess = turns'[h.turn]),
             turns' \in [Turn -> Nat], agent' \in [sess : Nat, turn : Turn \cup {NoTurn}],
             agent'.sess # NoSess, agent'.turn # NoTurn => turns'[agent'.turn] = agent'.sess
      PROVE  LedgerInv'
  BY <1>2, <1>1, TokenGrown, InvFromParts DEF StepOk, LedgerPart, HooksOk
<1>3. ASSUME NEW n \in Turn, StartTurn(n) PROVE LedgerInv' /\ StepOk
  BY <1>3, <1>1, EmitOk, ConstantsAssumption, <1>2 DEF StartTurn
<1>4. ASSUME Work PROVE LedgerInv' /\ StepOk BY <1>1, <1>4, EmitOk, ConstantsAssumption, <1>2 DEF Work, HooksOk
<1>5. ASSUME NEW s \in 1..MaxSess, ChangeSession(s) PROVE LedgerInv' /\ StepOk
  BY <1>5, ConstantsAssumption, EmitOk, <1>1, <1>2 DEF ChangeSession, NoSess
<1> QED BY <1>3, <1>4, <1>5 DEF Provider

-----------------------------------------------------------------------------
(* Theorems.                                                                *)

(* An empty ledger of a pane just found has the invariant. *)
LEMMA InitInv == Init => LedgerInv
<1> SUFFICES ASSUME Init PROVE LedgerInv OBVIOUS
<1> DEFINE s0 == IF StartsUnbound THEN NoSess ELSE 1
<1>1. /\ runs = [n \in Turn |-> NoRun] /\ pane = FirstPane(s0)
      /\ current = {} /\ latest = NoTurn /\ daemon = "up" /\ token = NoToken
      /\ agent = [sess |-> 1, turn |-> NoTurn]
      /\ turns = [n \in Turn |-> NoSess] /\ hooks = {} /\ emitted = 0
      /\ crashes = 0 /\ faults = 0
  BY DEF Init
<1>3. /\ pane \in PaneRecord /\ pane.epoch = 1 /\ pane.seq = 0 /\ pane.done = 0 /\ pane.sess = s0
  BY <1>1 DEF FirstPane, PaneRecord, NoSess
<1>5. DiskOk(runs, pane, turns)
  BY <1>1, <1>3 DEF DiskOk, Born, UnboundIsFresh, AtMostOneAhead, ActiveIsLast, StoppedBound, ActiveOfPane,
    UniqueIfBound, NoSess, Has, Active
<1>7. LedgerOk(Ledger, pane, turns) BY <1>1, <1>5 DEF LedgerOk, IndexOk, Reaches, Has, Active, Ledger
<1> QED BY <1>1, <1>3, <1>5, <1>7 DEF LedgerInv, TypeOK, NoSess, HooksOk, TokenOk

(* Every step keeps the invariant. *)
LEMMA NextInv == LedgerInv /\ Next => LedgerInv' /\ StepOk
<1> SUFFICES ASSUME LedgerInv, Next PROVE LedgerInv' /\ StepOk OBVIOUS
<1>1. /\ LedgerPart /\ HooksOk /\ TokenOk
      /\ hooks \subseteq Hook /\ turns \in [Turn -> Nat]
      /\ token \in TokenRecord \cup {NoToken}
      /\ agent \in [sess : Nat, turn : Turn \cup {NoTurn}] /\ emitted \in Nat
  BY LedgerInvPart
<1>2. ASSUME StepOk, hooks' \subseteq hooks, UNCHANGED <<agent, turns, emitted>>,
             TokenOk', token' \in TokenRecord \cup {NoToken}
      PROVE  LedgerInv'
  BY <1>1, <1>2, InvFromParts DEF HooksOk, StepOk
<1>3. ASSUME StepOk, token' = token PROVE TokenOk' BY <1>1, <1>3, TokenGrown DEF LedgerPart, StepOk
<1>4. ASSUME NEW h \in hooks, HookStep(h) PROVE LedgerInv' /\ StepOk BY <1>4, HookStepOk, <1>1, <1>2, <1>3
<1>5. CASE Operator BY <1>5, OperatorOk, <1>2 DEF outside
<1>6. CASE Provider BY <1>6, ProviderOk
<1>7. CASE Crash BY <1>7, <1>1, DieOk, SameGrown, SilentSaw, <1>2, <1>3 DEF Crash, LedgerPart, outside
<1>8. CASE Restart BY <1>8, <1>1, RestartOk, SilentSaw, <1>2, <1>3 DEF Restart, outside
<1> QED BY <1>4, <1>5, <1>6, <1>7, <1>8 DEF Next

(* So does doing nothing. *)
LEMMA StutterInv == LedgerInv /\ UNCHANGED vars => LedgerInv'
  BY DEF LedgerInv, TypeOK, DiskOk, Born, UnboundIsFresh, AtMostOneAhead, ActiveIsLast, StoppedBound, ActiveOfPane,
    UniqueIfBound, LedgerOk, IndexOk, Reaches, Ledger, HooksOk, TokenOk, vars, ledger, outside

(* The inductive invariant holds in every reachable state. *)
THEOREM LedgerInvariant == Spec => []LedgerInv
<1>1. LedgerInv /\ [Next]_vars => LedgerInv' BY NextInv, StutterInv
<1> QED BY InitInv, <1>1, PTL DEF Spec

(* Every handler writes records and pane records of their types: sequences  *)
(* and revisions start at one, and a pane is only ever bound to sessions.   *)
THEOREM LedgerTypes == Spec => []TypeOK
<1>1. LedgerInv => TypeOK BY DEF LedgerInv
<1> QED BY <1>1, LedgerInvariant, PTL

(* At most one run of the pane is active, whatever crashes, fails to be     *)
(* written, is lost or overtakes.                                           *)
THEOREM AtMostOneActive == Spec => []OneActiveRun
<1>1. LedgerInv => OneActiveRun BY DEF LedgerInv, DiskOk, ActiveIsLast, OneActiveRun, Active, Has
<1> QED BY <1>1, LedgerInvariant, PTL

(* A serving daemon has the active run in its indexes. *)
THEOREM ActiveIsFound == Spec => []ActiveIsCurrent
<1>1. LedgerInv => ActiveIsCurrent
  BY LedgerTyped, LedgerInvPart DEF LedgerInv, LedgerOk, IndexOk, ActiveIsCurrent, Active
<1> QED BY <1>1, LedgerInvariant, PTL

(* A pane that was bound when it was found never gives a sequence twice, so *)
(* its store can always be opened.                                          *)
THEOREM SequencesOfBoundPane == ASSUME ~StartsUnbound PROVE Spec => []SequencesUnique
<1>1. LedgerInv => SequencesUnique
  BY BindingEq DEF LedgerInv, DiskOk, UniqueIfBound, SequencesUnique, SameBinding, Has
<1> QED BY <1>1, LedgerInvariant, PTL

(* An outcome is final. *)
THEOREM OutcomesStay == Spec => OutcomeFinal
<1> DEFINE Stays == \A n \in Turn : runs[n] # NoRun =>
                       /\ ~runs[n].active => ~runs'[n].active
                       /\ runs[n].by # "nobody" => runs'[n].by = runs[n].by
<1>1. LedgerInv /\ [Next]_vars => [Stays]_vars BY NextInv DEF StepOk, Grown, Moves, Has
<1> QED BY <1>1, LedgerInvariant, PTL DEF Spec, OutcomeFinal

(* The operator completes the run and the pane it looked at. *)
THEOREM OperatorCompletesWhatItSaw == Spec => OperatorSawIt
<1>1. LedgerInv /\ [Next]_vars => [SawIt]_vars BY NextInv DEF StepOk
<1> QED BY <1>1, LedgerInvariant, PTL DEF Spec, OperatorSawIt, SawIt

-----------------------------------------------------------------------------
(* What the pane shows.  The rest of this module is about a pane that was   *)
(* bound when it was found, hooks that are handled in the order they were   *)
(* emitted, and pane writes that do not fail; without any one of the three  *)
(* the pane can show something else, as the README says.                    *)

(* The conditions of the theorems that follow.                                *)
Ordered == ~StartsUnbound /\ ~Reorder /\ MaxFault = 0

-----------------------------------------------------------------------------
(* The inductive invariant.                                                 *)

(* The last run of its binding. *)
Last(R, n) ==
    Has(R, n) /\ \A m \in Turn : Has(R, m) /\ SameBinding(R, m, n) => R[m].seq <= R[n].seq

(* The hooks of a turn are together in the queue, nothing is behind those   *)
(* of the turn the provider works on, and nothing else is before those of a *)
(* turn that has its run.                                                   *)
QueueOk ==
    /\ \A h \in hooks : h.no < emitted
    /\ \A g, h \in hooks : g.no = h.no => g = h
    /\ \A g, k, h \in hooks : h.turn # NoTurn /\ g.turn = h.turn /\ g.no < k.no /\ k.no < h.no
                              => k.turn = h.turn
    /\ \A g, h \in hooks : agent.turn # NoTurn /\ h.turn = agent.turn /\ h.no < g.no
                           => g.turn = h.turn
    /\ \A g, h \in hooks : h.turn \in Turn /\ Has(runs, h.turn) /\ g.no < h.no
                           => g.turn = h.turn
    /\ agent.turn # NoTurn /\ Has(runs, agent.turn) => \A h \in hooks : h.turn = agent.turn

(* The run that hooks can still be about is the last of the pane's epoch.   *)
Busy(n) == n = agent.turn \/ \E h \in hooks : h.turn = n

LastOfPane ==
    \A n \in Turn : Has(runs, n) /\ Busy(n) => Last(runs, n) /\ runs[n].epoch = pane.epoch

(* The pane is never ahead of the runs.                                     *)
Lag(R, p) ==
    /\ p.run # NoTurn => Has(R, p.run) /\ Of(R, p.run, p) /\ p.rev <= R[p.run].rev
    /\ p.seq > 0 => \E n \in Turn : Has(R, n) /\ Of(R, n, p) /\ p.seq <= R[n].seq

(* The pane shows the last run of its binding.                              *)
Shows(R, p) ==
    \A n \in Turn : Last(R, n) /\ Of(R, n, p) =>
        /\ p.run = n /\ p.rev = R[n].rev /\ p.seq = R[n].seq
        /\ p.running = R[n].active
        /\ p.done = IF R[n].active THEN p.seq - 1 ELSE p.seq

OrderInv ==
    /\ LedgerInv
    /\ QueueOk
    /\ LastOfPane
    /\ Lag(runs, pane)
    /\ daemon = "up" => Shows(runs, pane)

(* No two runs of a binding have the same sequence.                         *)
Uniq(R) == \A n, m \in Turn : Has(R, n) /\ Has(R, m) /\ n # m /\ SameBinding(R, n, m)
                              => R[n].seq # R[m].seq

-----------------------------------------------------------------------------
(* The operators of the ledger again.                                       *)

(* Indexing a run changes no record. *)
LEMMA SavedRuns ==
    ASSUME NEW L \in LedgerRecord, NEW n \in Turn, NEW q
    PROVE  Saved(L, n, q).runs = [L.runs EXCEPT ![n] = q]
<1> DEFINE M == [L EXCEPT !.runs[n] = q]
<1>3. Indexed(M, n).runs = M.runs
  <2> DEFINE rivals == {m \in M.current : Binding(M.runs[m]) = Binding(M.runs[n])}
             I == [M EXCEPT !.current = (M.current \ rivals) \cup {n},
                            !.latest = IF M.latest = NoTurn \/ Earlier(M.runs[M.latest], M.runs[n])
                                       THEN n ELSE M.latest]
  <2> QED BY DEF Indexed, LedgerRecord
<1> QED BY <1>3 DEF Saved, LedgerRecord

(* Retiring a replaced binding leaves the runs of the new one alone. *)
LEMMA RetiredOthers ==
    ASSUME NEW L \in LedgerRecord, IndexOk(L), NEW b, NEW n \in Turn, Binding(L.runs[n]) = b
    PROVE  Retired(L, b).runs[n] = L.runs[n]
<1>1. CASE L.latest = NoTurn \/ Binding(L.runs[L.latest]) = b BY <1>1 DEF Retired
<1>2. CASE L.latest # NoTurn /\ Binding(L.runs[L.latest]) # b
  <2> DEFINE l == L.latest
             E == Ended(L, l)
             N == [E EXCEPT !.current = E.current \ {L.latest}, !.latest = NoTurn]
  <2>1. l \in Turn /\ l # n BY <1>2 DEF LedgerRecord
  <2>2. E.runs \in {L.runs, [L.runs EXCEPT ![l] = Over(L.runs[l])]} BY <2>1, SavedRuns DEF Ended
  <2>3. E.runs[n] = L.runs[n]
    <3> HIDE DEF E, l
    <3> QED BY <2>1, <2>2 DEF LedgerRecord
  <2> QED BY <2>3, <1>2 DEF Retired
<1> QED BY <1>1, <1>2

(* Runs that moved on, none of them new: the same are last and unique. *)
LEMMA KeptLast ==
    ASSUME NEW R \in [Turn -> RunRecord \cup {NoRun}], NEW Q, Kept(R, Q)
    PROVE  /\ \A n \in Turn : Has(Q, n) =>
                  Q[n].epoch = R[n].epoch /\ Q[n].sess = R[n].sess /\ Q[n].seq = R[n].seq
           /\ \A n \in Turn : Last(Q, n) <=> Last(R, n)
           /\ Uniq(R) => Uniq(Q)
  BY DEF Kept, Moves, Last, SameBinding, Uniq

(* Runs only move further ahead of the pane. *)
LEMMA LagGrown ==
    ASSUME NEW R \in [Turn -> RunRecord \cup {NoRun}], NEW Q \in [Turn -> RunRecord \cup {NoRun}],
           Grown(R, Q), NEW p \in PaneRecord, Lag(R, p)
    PROVE  Lag(Q, p)
  BY RunTypes DEF Grown, Moves, PaneRecord, Lag, Of

(* The pane still shows the last run when the runs of its binding stay. *)
LEMMA ShowsKept ==
    ASSUME NEW R \in [Turn -> RunRecord \cup {NoRun}], NEW Q, Kept(R, Q), NEW p, Shows(R, p),
           \A n \in Turn : Has(R, n) /\ Of(R, n, p) => Q[n] = R[n]
    PROVE  Shows(Q, p)
  BY KeptLast DEF Shows, Last, Of

(* The pane has not counted further than the last run of its binding. *)
LEMMA NotAhead ==
    ASSUME NEW R \in [Turn -> RunRecord \cup {NoRun}], NEW p \in PaneRecord, Lag(R, p),
           NEW n \in Turn, Last(R, n), Of(R, n, p)
    PROVE  /\ p.seq <= R[n].seq
           /\ p.run # NoTurn => R[p.run].seq <= R[n].seq
  BY RunTypes DEF PaneRecord, Last, SameBinding, Of, Lag

(* Projecting the last run of the pane's binding makes the pane show it. *)
LEMMA ProjectedShows ==
    ASSUME NEW R \in [Turn -> RunRecord \cup {NoRun}], Uniq(R), NEW p \in PaneRecord, Lag(R, p),
           NEW n \in Turn, Last(R, n), Of(R, n, p)
    PROVE  /\ Projected(p, n, R) \in PaneRecord
           /\ Projected(p, n, R).epoch = p.epoch /\ Projected(p, n, R).sess = p.sess
           /\ Lag(R, Projected(p, n, R)) /\ Shows(R, Projected(p, n, R))
<1> DEFINE r == R[n]
           t == Shown(p, n, r)
<1>1. /\ Has(R, n) /\ r \in RunRecord /\ r.seq \in Nat \ {0} /\ r.rev \in Nat
      /\ r.active \in BOOLEAN /\ r.epoch = p.epoch /\ r.sess = p.sess
  BY RunTypes DEF Last, Of, RunRecord
<1>2. /\ p.epoch \in Nat /\ p.sess \in Nat /\ p.seq \in Nat /\ p.done \in Nat
      /\ p.run \in Turn \cup {NoTurn} /\ p.rev \in Nat /\ p.running \in BOOLEAN
      /\ n # NoTurn
  BY ConstantsAssumption DEF PaneRecord
<1>5. Projected(p, n, R) = t
  BY <1>1, <1>2, RunTypes, NotAhead DEF Projected, Binding, Superior, Lag, Uniq, SameBinding, Of
<1>6. t = [epoch |-> p.epoch, sess |-> p.sess, seq |-> IF r.seq > p.seq THEN r.seq ELSE p.seq,
           done |-> IF r.active THEN r.seq - 1 ELSE r.seq, running |-> r.active,
           run |-> n, rev |-> r.rev]
  <2>2. t = [p EXCEPT !.seq = IF r.seq > p.seq THEN r.seq ELSE p.seq,
                      !.done = IF r.active THEN r.seq - 1 ELSE r.seq,
                      !.running = r.active, !.run = n, !.rev = r.rev]
    BY Zenon DEF Shown
  <2> HIDE DEF r, t
  <2> QED BY <2>2, <1>1, <1>2 DEF PaneRecord
<1>7. /\ t \in PaneRecord
      /\ t.epoch = p.epoch /\ t.sess = p.sess /\ t.seq = r.seq /\ t.run = n /\ t.rev = r.rev
      /\ t.running = r.active /\ t.done = IF r.active THEN t.seq - 1 ELSE t.seq
  BY <1>1, <1>2, NotAhead, <1>6 DEF PaneRecord
<1> HIDE DEF t
<1>9. Shows(R, t) BY <1>7, <1>1, RunTypes DEF Shows, Of, SameBinding, Last, Uniq
<1> QED BY <1>5, <1>7, <1>1, <1>9 DEF Lag, Of

(* What the writes of a handler leave behind when none of them fails. *)
LEMMA WriteOrder ==
    ASSUME MaxFault = 0, faults \in Nat, NEW Partial, NEW L, NEW p1, NEW p2,
           Write(Partial, L, p1, p2), daemon = "up",
           \A R \in Partial : Lag(R, pane),
           Lag(L.runs, pane), Lag(L.runs, p1), Lag(L.runs, p2), Shows(L.runs, p2),
           p1.epoch = pane.epoch, p2.epoch = pane.epoch
    PROVE  /\ Lag(runs', pane') /\ (daemon' = "up" => Shows(runs', pane'))
           /\ pane'.epoch = pane.epoch
           /\ runs' \in Partial \cup {L.runs}
  BY DEF Become, DieWith, Write

(* The event of a hook leaves the pane where it is, or opens the next run. *)
LEMMA EventShape ==
    ASSUME NEW p \in PaneRecord, NEW h, h.sess = p.sess, h.sess \in Nat
    PROVE  /\ PaneEvent(p, h) \in PaneRecord
           /\ PaneEvent(p, h).epoch = p.epoch /\ PaneEvent(p, h).sess = p.sess
           /\ \/ PaneEvent(p, h).seq = p.seq /\ PaneEvent(p, h).run = p.run
                 /\ PaneEvent(p, h).rev = p.rev
              \/ h.kind # "Stop" /\ p.seq = p.done /\ PaneEvent(p, h).seq = p.seq + 1
                 /\ PaneEvent(p, h).run = NoTurn
<1> DEFINE q == PaneEvent(p, h)
<1>1. /\ p.epoch \in Nat /\ p.sess \in Nat /\ p.seq \in Nat /\ p.done \in Nat
      /\ p.run \in Turn \cup {NoTurn} /\ p.rev \in Nat /\ p.running \in BOOLEAN
      /\ p = [epoch |-> p.epoch, sess |-> p.sess, seq |-> p.seq, done |-> p.done,
              running |-> p.running, run |-> p.run, rev |-> p.rev]
  BY DEF PaneRecord
<1>2. CASE h.kind = "Stop" /\ p.seq = p.done BY <1>2 DEF PaneEvent, Completed
<1>3. CASE h.kind = "Stop" /\ p.seq # p.done BY <1>3, <1>1 DEF PaneEvent, Completed, PaneRecord
<1>4. CASE h.kind # "Stop" /\ p.seq = p.done
  <2>1. q = [epoch |-> p.epoch, sess |-> h.sess, seq |-> p.seq + 1, done |-> p.done,
             running |-> TRUE, run |-> NoTurn, rev |-> 0]
    BY <1>4 DEF PaneEvent, Begun, PaneRecord
  <2> QED BY <1>1, <1>4, <2>1 DEF PaneRecord
<1>5. CASE h.kind # "Stop" /\ p.seq # p.done BY <1>5, <1>1 DEF PaneEvent, Begun, PaneRecord
<1> QED BY <1>2, <1>3, <1>4, <1>5

(* A pane that has not counted further than the last run of its binding is  *)
(* not ahead.                                                               *)
LEMMA EventLag ==
    ASSUME NEW R \in [Turn -> RunRecord \cup {NoRun}], NEW p \in PaneRecord, NEW q \in PaneRecord,
           Lag(R, p), q.epoch = p.epoch, q.sess = p.sess,
           \/ q.run = p.run /\ q.rev = p.rev
           \/ q.run = NoTurn,
           NEW n \in Turn, Has(R, n), Of(R, n, p), q.seq <= R[n].seq
    PROVE  Lag(R, q)
  BY DEF Of, Lag

-----------------------------------------------------------------------------
(* The queue of hooks.                                                      *)

(* What the invariant says beyond LedgerInv.                                *)
OrderPart ==
    /\ QueueOk /\ LastOfPane /\ Lag(runs, pane)
    /\ daemon = "up" => Shows(runs, pane)

(* Fewer hooks and no new run: the queue stays in order, and the runs that  *)
(* hooks can be about are fewer.                                            *)
LEMMA FewerHooks ==
    ASSUME QueueOk, LastOfPane, runs \in [Turn -> RunRecord \cup {NoRun}], Kept(runs, runs'),
           hooks' \subseteq hooks, agent' = agent, emitted' = emitted, pane'.epoch = pane.epoch,
           agent.turn \in Turn \cup {NoTurn}
    PROVE  QueueOk' /\ LastOfPane'
  BY KeptLast DEF Kept, QueueOk, Busy, LastOfPane

(* The first evidence of a turn is behind every hook about another run.     *)
LEMMA FirstHook ==
    ASSUME QueueOk, hooks \subseteq Hook, NEW h \in hooks, \A g \in hooks : h.no <= g.no,
           hooks' = hooks \ {h}, agent' = agent, emitted' = emitted,
           agent.turn \in Turn \cup {NoTurn},
           NEW n \in Turn, n = h.turn, ~Has(runs, n),
           \A m \in Turn : Has(runs', m) <=> m = n \/ Has(runs, m)
    PROVE  QueueOk' /\ \A m \in Turn : Has(runs', m) /\ Busy(m)' => m = n
  BY ConstantsAssumption DEF QueueOk, Hook, Busy

-----------------------------------------------------------------------------
(* One lemma per handler.                                                   *)

(* What the handlers know of a hook that arrives. *)
LEMMA ArrivalFacts ==
    ASSUME Ordered, LedgerInv, OrderPart, NEW h, Arrives(h)
    PROVE  /\ LedgerPart /\ HooksOk /\ hooks \subseteq Hook /\ turns \in [Turn -> Nat]
           /\ daemon = "up" /\ h \in hooks /\ \A g \in hooks : h.no <= g.no
           /\ hooks' = hooks \ {h} /\ agent' = agent /\ turns' = turns /\ emitted' = emitted
           /\ agent.turn \in Turn \cup {NoTurn}
           /\ faults \in Nat /\ MaxFault = 0
           /\ runs \in [Turn -> RunRecord \cup {NoRun}] /\ pane \in PaneRecord
           /\ pane.sess # NoSess /\ Uniq(runs)
           /\ Ledger \in LedgerRecord /\ Ledger.runs = runs /\ LedgerOk(Ledger, pane, turns)
           /\ h.sess \in Nat /\ h.sess # NoSess
           /\ h.kind # "SessionStart" => h.turn \in Turn /\ h.sess = turns[h.turn]
           /\ BindingFits(h) => h.sess = pane.sess
  BY LedgerInvPart, LedgerTyped, HookFacts DEF Arrives, Ordered, LedgerPart, DiskOk, UniqueIfBound, Uniq,
    BindingFits

(* Evidence about a run: the run is the last of the pane's binding. *)
LEMMA OfThisPane ==
    ASSUME Ordered, LedgerInv, OrderPart, NEW h \in hooks, h.kind # "SessionStart",
           Has(runs, h.turn), h.sess = pane.sess \/ runs[h.turn].stopped
    PROVE  Last(runs, h.turn) /\ Of(runs, h.turn, pane)
<1> DEFINE n == h.turn
<1>2. n \in Turn /\ h.sess = turns[n] BY LedgerInvPart, HookFacts
<1>4. Last(runs, n) /\ runs[n].epoch = pane.epoch BY <1>2 DEF OrderPart, LastOfPane, Busy
<1> QED BY <1>2, <1>4, LedgerInvPart DEF Of, LedgerPart, DiskOk, Born, StoppedBound

(* The runs after a replaced binding is retired. *)
LEMMA RetiredOrder ==
    ASSUME Ordered, LedgerInv, OrderPart, NEW h, Arrives(h), BindingFits(h)
    PROVE  LET L == Retired(Ledger, <<pane.epoch, h.sess>>) IN
           /\ L \in LedgerRecord /\ L.runs \in [Turn -> RunRecord \cup {NoRun}]
           /\ LedgerOk(L, pane, turns)
           /\ Kept(runs, L.runs) /\ Uniq(L.runs)
           /\ Lag(L.runs, pane) /\ Shows(L.runs, pane)
           /\ \A n \in Turn : Has(runs, n) /\ Of(runs, n, pane) => L.runs[n] = runs[n]
           /\ \A n \in Turn : Active(L.runs, n) =>
                 L.runs[n].epoch = pane.epoch /\ L.runs[n].sess = pane.sess
<1> DEFINE L == Retired(Ledger, <<pane.epoch, h.sess>>)
<1>1. /\ h.sess = pane.sess /\ h.sess \in Nat /\ h.sess # NoSess /\ daemon = "up"
      /\ Ledger \in LedgerRecord /\ Ledger.runs = runs /\ LedgerOk(Ledger, pane, turns)
      /\ runs \in [Turn -> RunRecord \cup {NoRun}] /\ pane \in PaneRecord
      /\ turns \in [Turn -> Nat] /\ Uniq(runs)
  BY ArrivalFacts
<1>2. /\ L \in LedgerRecord /\ Closed(runs, L.runs) /\ LedgerOk(L, pane, turns)
      /\ \A n \in Turn : Active(L.runs, n) =>
            L.runs[n].epoch = pane.epoch /\ L.runs[n].sess = h.sess
  <2> DEFINE M == Ledger
  <2> HIDE DEF M
  <2> QED BY <1>1, RetiredOk DEF M
<1>3. \A n \in Turn : Has(runs, n) /\ Of(runs, n, pane) => L.runs[n] = runs[n]
  <2> SUFFICES ASSUME NEW n \in Turn, Has(runs, n), Of(runs, n, pane)
               PROVE  L.runs[n] = runs[n]
    OBVIOUS
  <2> DEFINE M == Ledger
             b == <<pane.epoch, h.sess>>
  <2> HIDE DEF M, b
  <2> QED BY <1>1, RetiredOthers DEF M, b, LedgerOk, Binding, Of
<1> HIDE DEF L
<1>5. Kept(runs, L.runs) /\ Grown(runs, L.runs) BY <1>1, <1>2, ClosedKept, ClosedGrown
<1>8. Shows(L.runs, pane) BY <1>1, <1>3, <1>5, ShowsKept DEF OrderPart
<1> QED BY <1>1, <1>2, <1>3, <1>5, KeptLast, LagGrown, <1>8 DEF L, LedgerRecord, OrderPart

(* Two moves without a new run are one. *)
LEMMA KeptTrans ==
    ASSUME NEW R \in [Turn -> RunRecord \cup {NoRun}], NEW Q \in [Turn -> RunRecord \cup {NoRun}],
           NEW S \in [Turn -> RunRecord \cup {NoRun}], Kept(R, Q), Kept(Q, S)
    PROVE  Kept(R, S)
  BY RunTypes, MovesTrans DEF Kept

(* Replacing the record of a run by one it may move to adds no run. *)
LEMMA ChangedKept ==
    ASSUME NEW R \in [Turn -> RunRecord \cup {NoRun}], NEW n \in Turn, Has(R, n),
           NEW q \in RunRecord, Moves(R[n], q)
    PROVE  /\ [R EXCEPT ![n] = q] \in [Turn -> RunRecord \cup {NoRun}]
           /\ Kept(R, [R EXCEPT ![n] = q])
  BY RecordsAssumption DEF Kept, Moves, Has

(* Runs without a new one have moved on. *)
LEMMA KeptGrown ==
    ASSUME NEW R, NEW Q, Kept(R, Q)
    PROVE  Grown(R, Q)
  BY DEF Kept, Grown

(* The pane's last run has moved on, and the pane is brought up to date: p1 *)
(* is the pane after the event of a hook, R the runs before.                *)
LEMMA ShownAgain ==
    ASSUME NEW R \in [Turn -> RunRecord \cup {NoRun}], Uniq(R), NEW n \in Turn, Last(R, n),
           Of(R, n, pane), pane \in PaneRecord, Lag(R, pane),
           NEW Q \in [Turn -> RunRecord \cup {NoRun}], Kept(R, Q),
           NEW p1 \in PaneRecord, p1.epoch = pane.epoch, p1.sess = pane.sess, p1.seq = pane.seq,
           p1.run = pane.run, p1.rev = pane.rev
    PROVE  /\ Lag(Q, pane) /\ Lag(Q, p1) /\ Lag(Q, Projected(p1, n, Q))
           /\ Shows(Q, Projected(p1, n, Q)) /\ Projected(p1, n, Q).epoch = pane.epoch
  BY KeptLast, KeptGrown, LagGrown, NotAhead, EventLag, ProjectedShows DEF Of, Last

(* Evidence of a turn that has its run. *)
LEMMA MoreEvidenceOrder ==
    ASSUME Ordered, LedgerInv, OrderPart, NEW h \in hooks, MoreEvidence(h)
    PROVE  OrderPart'
<1> DEFINE n  == h.turn
           L1 == Retired(Ledger, <<pane.epoch, h.sess>>)
           q  == Observed(L1.runs[n], h.kind)
           L2 == Saved(L1, n, q)
           p1 == IF h.kind = "Stop" \/ L2.runs[n].active THEN PaneEvent(pane, h) ELSE pane
           Q  == [L1.runs EXCEPT ![n] = q]
           p2 == Projected(p1, n, Q)
<1>1. /\ Arrives(h) /\ BindingFits(h) /\ h.kind # "SessionStart" /\ Has(runs, n) BY DEF MoreEvidence, Has
<1>2. /\ daemon = "up" /\ hooks' = hooks \ {h} /\ agent' = agent /\ emitted' = emitted
      /\ agent.turn \in Turn \cup {NoTurn} /\ faults \in Nat /\ MaxFault = 0
      /\ runs \in [Turn -> RunRecord \cup {NoRun}] /\ pane \in PaneRecord
      /\ n \in Turn /\ h.sess = pane.sess /\ h.sess \in Nat
  BY <1>1, ArrivalFacts
<1>3. Last(runs, n) /\ Of(runs, n, pane) BY <1>1, <1>2, OfThisPane
<1>4. /\ L1 \in LedgerRecord /\ L1.runs \in [Turn -> RunRecord \cup {NoRun}]
      /\ Kept(runs, L1.runs) /\ Uniq(L1.runs)
      /\ Lag(L1.runs, pane) /\ L1.runs[n] = runs[n]
  BY <1>1, <1>2, <1>3, RetiredOrder
<1>5. Last(L1.runs, n) /\ Of(L1.runs, n, pane) /\ L1.runs[n] \in RunRecord
  BY <1>2, <1>3, <1>4, KeptLast, RunTypes DEF Of, Last
<1>6. q \in RunRecord /\ Moves(L1.runs[n], q) BY <1>5, ObservedOk
<1>7. L2.runs = Q BY <1>2, <1>4, SavedRuns
<1>8. Write({L1.runs}, L2, p1, p2) BY <1>7 DEF MoreEvidence
<1>10. /\ p1 \in PaneRecord /\ p1.epoch = pane.epoch /\ p1.sess = pane.sess
       /\ p1.seq = pane.seq /\ p1.run = pane.run /\ p1.rev = pane.rev
  <2>1. CASE p1 = pane BY <1>2, <2>1
  <2>2. CASE p1 = PaneEvent(pane, h) /\ (h.kind = "Stop" \/ L2.runs[n].active)
    <3>1. h.kind # "Stop" => pane.seq # pane.done
      <4>1. SUFFICES ASSUME h.kind # "Stop" PROVE pane.seq # pane.done OBVIOUS
      <4>3. runs[n].active BY <1>4, <1>6, <1>7, <1>2, <2>2, <4>1 DEF Moves
      <4> QED BY <1>2, <1>3, <4>3 DEF OrderPart, Shows, PaneRecord
    <3> QED BY <2>2, <1>2, <3>1, EventShape
  <2> QED BY <2>1, <2>2
<1> HIDE DEF q, p1
<1>11. /\ Kept(L1.runs, Q) /\ Q \in [Turn -> RunRecord \cup {NoRun}]
       /\ Lag(Q, pane) /\ Lag(Q, p1) /\ Lag(Q, p2) /\ Shows(Q, p2)
       /\ p2.epoch = pane.epoch
  <2>1. Kept(L1.runs, Q) /\ Q \in [Turn -> RunRecord \cup {NoRun}]
    <3> HIDE DEF L1
    <3> QED BY <1>2, <1>4, <1>5, <1>6, ChangedKept DEF Last
  <2> HIDE DEF L1, Q
  <2> QED BY <1>2, <1>4, <1>5, <1>10, <2>1, ShownAgain
<1> HIDE DEF L1, L2, Q, p2
<1> QED BY <1>2, <1>4, <1>7, <1>8, <1>10, <1>11, WriteOrder, KeptTrans, FewerHooks DEF OrderPart

(* A second Stop of a turn: the pane already shows the run, so it is shown  *)
(* again at its next revision.                                              *)
LEMMA RepeatedStopOrder ==
    ASSUME Ordered, LedgerInv, OrderPart, NEW h \in hooks, RepeatedStop(h)
    PROVE  OrderPart'
<1> DEFINE n  == h.turn
           q  == [runs[n] EXCEPT !.rev = @ + 1]
           R  == [runs EXCEPT ![n].rev = @ + 1]
           L  == Saved(Ledger, n, q)
           p1 == Completed(pane)
           p2 == Projected(p1, n, R)
<1>1. /\ Arrives(h) /\ h.kind = "Stop" /\ Has(runs, n) /\ runs[n].stopped
      /\ \/ NeedsProjection(n, R) /\ Write({}, L, p1, p2)
         \/ ~NeedsProjection(n, R) /\ Write({}, L, pane, pane)
         \/ DieWith(R, pane)
  BY DEF RepeatedStop, Has
<1>2. /\ daemon = "up" /\ hooks' = hooks \ {h} /\ agent' = agent /\ emitted' = emitted
      /\ agent.turn \in Turn \cup {NoTurn} /\ faults \in Nat /\ MaxFault = 0
      /\ runs \in [Turn -> RunRecord \cup {NoRun}] /\ pane \in PaneRecord
      /\ n \in Turn /\ Uniq(runs) /\ Ledger \in LedgerRecord /\ Ledger.runs = runs
  BY <1>1, ArrivalFacts
<1>3. Last(runs, n) /\ Of(runs, n, pane) /\ runs[n] \in RunRecord BY <1>1, <1>2, OfThisPane, RunTypes
<1>4. q \in RunRecord /\ Moves(runs[n], q)
  <2> DEFINE r == runs[n]
  <2>1. r \in RunRecord /\ r.rev + 1 \in Nat \ {0} /\ r.rev + 1 > r.rev
        /\ q = [r EXCEPT !.rev = r.rev + 1]
    BY <1>3 DEF RunRecord
  <2> HIDE DEF r
  <2>2. /\ q \in RunRecord /\ q.rev = r.rev + 1 /\ q.epoch = r.epoch /\ q.sess = r.sess
        /\ q.seq = r.seq /\ q.active = r.active /\ q.by = r.by /\ q.stopped = r.stopped
    <3> HIDE DEF q
    <3> QED BY <2>1 DEF RunRecord
  <2> HIDE DEF q
  <2> QED BY <2>1, <2>2 DEF Moves, r
<1>6. Kept(runs, R) /\ R \in [Turn -> RunRecord \cup {NoRun}]
  <2>1. /\ [runs EXCEPT ![n] = q] \in [Turn -> RunRecord \cup {NoRun}]
        /\ Kept(runs, [runs EXCEPT ![n] = q])
    <3> HIDE DEF q, n
    <3> QED BY <1>2, <1>3, <1>4, ChangedKept DEF Last
  <2> QED BY <1>2, <2>1
<1>7. L.runs = R
  <2>1. Saved(Ledger, n, q).runs = [Ledger.runs EXCEPT ![n] = q]
    <3> HIDE DEF q, n
    <3> QED BY <1>2, SavedRuns
  <2> QED BY <1>2, <2>1
<1>8. /\ p1 \in PaneRecord /\ p1.epoch = pane.epoch /\ p1.sess = pane.sess /\ p1.seq = pane.seq
      /\ p1.run = pane.run /\ p1.rev = pane.rev
  BY <1>2 DEF Completed, PaneRecord
<1>9. NeedsProjection(n, R)
  BY <1>2, <1>3, <1>1, <1>6, KeptLast DEF OrderPart, Shows, Kept, NeedsProjection, PaneBinding, Binding, Of
<1> HIDE DEF q, p1, R
<1>10. /\ Lag(R, pane) /\ Lag(R, p1) /\ Lag(R, p2) /\ Shows(R, p2) /\ p2.epoch = pane.epoch
  BY <1>2, <1>3, <1>6, <1>8, ShownAgain DEF OrderPart
<1> HIDE DEF L, p2
<1> QED BY <1>2, <1>7, <1>8, <1>10, WriteOrder, <1>1, <1>9, <1>6, FewerHooks DEF OrderPart, DieWith

(* A hook refused after it has retired a replaced binding. *)
LEMMA RefusedLateOrder ==
    ASSUME Ordered, LedgerInv, OrderPart, NEW h \in hooks, RefusedLate(h)
    PROVE  OrderPart'
<1> DEFINE L == Retired(Ledger, <<pane.epoch, h.sess>>)
<1>1. /\ Arrives(h) /\ BindingFits(h) /\ runs' = L.runs /\ pane' = pane BY DEF RefusedLate, Become
<1>3. Kept(runs, L.runs) /\ Lag(L.runs, pane) /\ Shows(L.runs, pane) BY <1>1, RetiredOrder
<1> HIDE DEF L
<1> QED BY <1>1, <1>3, ArrivalFacts, FewerHooks DEF OrderPart

(* A hook that is lost or refused, and every step that leaves hooks alone:  *)
(* the ledger and the pane stay.                                            *)
LEMMA SameOrder ==
    ASSUME LedgerInv, OrderPart, UNCHANGED <<runs, pane, agent, emitted>>,
           daemon' = daemon \/ daemon' = "down", hooks' \subseteq hooks
    PROVE  OrderPart'
  BY LedgerInvPart, FewerHooks DEF LedgerPart, Kept, Moves, OrderPart

(* A new epoch has no run yet, and nothing in the queue is about an old one. *)
LEMMA SessionStartOrder ==
    ASSUME Ordered, LedgerInv, OrderPart, NEW h \in hooks, SessionStart(h)
    PROVE  OrderPart'
<1> DEFINE q == NextEpoch(pane, h.sess)
<1>1. /\ Arrives(h) /\ h.kind = "SessionStart" /\ pane' = q /\ runs' = runs BY DEF SessionStart, ledger
<1>2. /\ LedgerPart /\ hooks \subseteq Hook /\ hooks' = hooks \ {h} /\ agent' = agent
      /\ emitted' = emitted /\ agent.turn \in Turn \cup {NoTurn}
      /\ \A g \in hooks : h.no <= g.no
      /\ runs \in [Turn -> RunRecord \cup {NoRun}] /\ pane \in PaneRecord
  BY <1>1, ArrivalFacts
<1>4. /\ q.epoch = pane.epoch + 1 /\ q.seq = 0 /\ q.run = NoTurn /\ pane.epoch \in Nat
  BY <1>2 DEF NextEpoch, FirstPane, PaneRecord
<1> HIDE DEF q
<1>7. Shows(runs', pane') BY <1>1, <1>2, RunTypes, <1>4 DEF Shows, Last, LedgerPart, DiskOk, Born, Of
<1>8. ASSUME NEW n \in Turn, Has(runs, n), Busy(n)' PROVE FALSE
  BY ConstantsAssumption, <1>1, <1>2, <1>8 DEF OrderPart, QueueOk, Busy, Hook
<1> QED BY <1>1, <1>4, <1>7, <1>8, <1>2 DEF OrderPart, Lag, LastOfPane, QueueOk

(* The runs a new run of the pane is added to. *)
LEMMA BeforeFirst ==
    ASSUME Ordered, LedgerInv, OrderPart, NEW h \in hooks, NewRun(h)
    PROVE  LET b  == <<pane.epoch, h.sess>>
               L1 == Retired(Ledger, b)
               L2 == EndedAll(L1, Superseded(L1, b))
           IN
           /\ L1.runs \in [Turn -> RunRecord \cup {NoRun}] /\ Kept(runs, L1.runs)
           /\ L2 \in LedgerRecord /\ L2.runs \in [Turn -> RunRecord \cup {NoRun}]
           /\ Kept(runs, L2.runs) /\ Uniq(L2.runs)
           /\ Lag(L1.runs, pane) /\ Lag(L2.runs, pane)
           /\ \A m \in Turn : Has(L2.runs, m) /\ Of(L2.runs, m, pane) =>
                                 L2.runs[m].seq <= pane.seq
<1> DEFINE b  == <<pane.epoch, h.sess>>
           L1 == Retired(Ledger, b)
           L2 == EndedAll(L1, Superseded(L1, b))
<1>1. /\ Arrives(h) /\ BindingFits(h) /\ SequenceFree(L1, b, pane.seq + 1) BY DEF NewRun
<1>2. /\ h.sess = pane.sess /\ h.sess \in Nat /\ turns \in [Turn -> Nat]
      /\ runs \in [Turn -> RunRecord \cup {NoRun}] /\ pane \in PaneRecord
  BY <1>1, ArrivalFacts
<1>3. /\ L1 \in LedgerRecord /\ L1.runs \in [Turn -> RunRecord \cup {NoRun}]
      /\ LedgerOk(L1, pane, turns)
      /\ Kept(runs, L1.runs) /\ Uniq(L1.runs) /\ Lag(L1.runs, pane)
      /\ \A n \in Turn : Active(L1.runs, n) =>
            L1.runs[n].epoch = pane.epoch /\ L1.runs[n].sess = pane.sess
  BY <1>1, RetiredOrder
<1>4. /\ L2 \in LedgerRecord /\ Closed(L1.runs, L2.runs) /\ L2.current = L1.current
      /\ LedgerOk(L2, pane, turns)
  <2> HIDE DEF L1
  <2> QED BY <1>2, <1>3, EndedAllOk
<1>5. \A m \in L1.current : Binding(L1.runs[m]) = b => L1.runs[m].seq < pane.seq + 1 BY <1>1 DEF SequenceFree
<1> HIDE DEF L1, L2
<1>6. L2.runs \in [Turn -> RunRecord \cup {NoRun}] /\ Kept(L1.runs, L2.runs)
  BY <1>3, <1>4, ClosedKept DEF LedgerRecord
<1>8. Uniq(L2.runs) BY <1>3, <1>6, KeptLast
<1>10. ASSUME NEW m \in Turn, Has(L2.runs, m), Of(L2.runs, m, pane)
       PROVE  L2.runs[m].seq <= pane.seq
  <2>1. L2.runs[m].seq \in Nat /\ pane.seq \in Nat BY <1>2, <1>6, <1>10, RunTypes DEF PaneRecord
  <2>2. CASE \E c \in L2.current : Of(L2.runs, c, pane) /\ L2.runs[m].seq <= L2.runs[c].seq
    BY <2>2, <1>4, <1>6, RunTypes, <1>3, KeptLast, <1>2, <1>5, <2>1 DEF LedgerOk, IndexOk, LedgerRecord, Binding, Of
  <2> QED BY <1>4, <1>10, <2>2 DEF LedgerOk, Reaches
<1> QED BY <1>3, <1>4, <1>6, <1>2, KeptTrans, <1>8, KeptGrown, LagGrown, <1>10 DEF L1, L2

(* The first evidence of a turn. *)
LEMMA NewRunOrder ==
    ASSUME Ordered, LedgerInv, OrderPart, NEW h \in hooks, NewRun(h)
    PROVE  OrderPart'
<1> DEFINE n  == h.turn
           b  == <<pane.epoch, h.sess>>
           L1 == Retired(Ledger, b)
           L2 == EndedAll(L1, Superseded(L1, b))
           r  == FirstRecord(b, pane.seq + 1)
           L3 == Saved(L2, n, r)
           p1 == PaneEvent(pane, h)
           Q  == [L2.runs EXCEPT ![n] = r]
           p2 == Projected(p1, n, Q)
<1>1. /\ Arrives(h) /\ BindingFits(h) /\ h.kind # "SessionStart" /\ ~Has(runs, n)
      /\ Write({L1.runs, L2.runs}, L3, p1, Projected(p1, n, L3.runs))
  BY DEF NewRun, Has
<1>2. /\ daemon = "up" /\ hooks' = hooks \ {h} /\ agent' = agent /\ emitted' = emitted
      /\ agent.turn \in Turn \cup {NoTurn} /\ faults \in Nat /\ MaxFault = 0
      /\ runs \in [Turn -> RunRecord \cup {NoRun}] /\ pane \in PaneRecord
      /\ n \in Turn /\ h.sess = pane.sess /\ h.sess \in Nat
      /\ hooks \subseteq Hook /\ \A g \in hooks : h.no <= g.no
  BY <1>1, ArrivalFacts
<1>3. /\ L1.runs \in [Turn -> RunRecord \cup {NoRun}] /\ Kept(runs, L1.runs)
      /\ L2 \in LedgerRecord /\ L2.runs \in [Turn -> RunRecord \cup {NoRun}]
      /\ Kept(runs, L2.runs) /\ Uniq(L2.runs)
      /\ Lag(L1.runs, pane) /\ Lag(L2.runs, pane)
      /\ \A m \in Turn : Has(L2.runs, m) /\ Of(L2.runs, m, pane) =>
                            L2.runs[m].seq <= pane.seq
  BY BeforeFirst
<1> HIDE DEF L1, L2
<1>4. ~Has(L2.runs, n) /\ \A m \in Turn : Has(L2.runs, m) <=> Has(runs, m) BY <1>1, <1>2, <1>3 DEF Kept
<1>5. /\ r \in RunRecord /\ r.by = "nobody" /\ r.seq = pane.seq + 1 /\ r # NoRun
      /\ r.epoch = pane.epoch /\ r.sess = pane.sess
      /\ pane.seq \in Nat /\ pane.epoch \in Nat /\ pane.sess \in Nat
  <2>2. r = [epoch |-> pane.epoch, sess |-> pane.sess, seq |-> pane.seq + 1, rev |-> 1,
             active |-> TRUE, by |-> "nobody", stopped |-> FALSE]
    BY <1>2 DEF FirstRecord
  <2>3. r \in RunRecord
    <3> HIDE DEF r
    <3> QED BY <1>2, <2>2 DEF RunRecord, PaneRecord
  <2> HIDE DEF r
  <2> QED BY <1>2, <2>3, <2>2, RecordsAssumption DEF PaneRecord
<1> HIDE DEF r
<1>6. L3.runs = Q BY <1>2, <1>3, SavedRuns
<1>7. /\ Q \in [Turn -> RunRecord \cup {NoRun}] /\ Q[n] = r
      /\ \A m \in Turn : m # n => Q[m] = L2.runs[m]
  BY <1>2, <1>3, <1>5
<1> HIDE DEF Q, L3
<1>9. /\ \A m \in Turn : Has(Q, m) <=> m = n \/ Has(runs, m)
      /\ Has(Q, n) /\ Of(Q, n, pane)
  BY <1>2, <1>4, <1>5, <1>7 DEF Has, Of
<1>10. ASSUME NEW m \in Turn, Has(Q, m), SameBinding(Q, m, n), m # n
       PROVE  Q[m].seq < Q[n].seq /\ Q[m].seq \in Nat
  BY <1>7, <1>9, <1>10, <1>3, RunTypes, <1>5 DEF Has, SameBinding, Of
<1>11. Last(Q, n) BY <1>5, <1>7, <1>9, <1>10 DEF Last
<1>13. Lag(Q, pane) BY <1>2, <1>3, <1>7, <1>4, <1>5, AddedGrown, LagGrown
<1>14. /\ p1 \in PaneRecord /\ p1.epoch = pane.epoch /\ p1.sess = pane.sess
       /\ \/ p1.seq = pane.seq /\ p1.run = pane.run /\ p1.rev = pane.rev
          \/ p1.seq = pane.seq + 1 /\ p1.run = NoTurn
  BY <1>2, EventShape
<1> HIDE DEF p1
<1>15. Lag(Q, p1) /\ Of(Q, n, p1) BY <1>5, <1>7, <1>14, <1>2, <1>9, <1>13, EventLag DEF Of
<1>16. Lag(Q, p2) /\ Shows(Q, p2) /\ p2.epoch = pane.epoch
  BY <1>2, <1>7, <1>11, <1>5, <1>10, <1>3, <1>14, <1>15, ProjectedShows DEF Uniq, SameBinding, Has
<1>17. Write({L1.runs, L2.runs}, L3, p1, p2) BY <1>1, <1>6
<1> HIDE DEF p2
<1>18. /\ Lag(runs', pane') /\ (daemon' = "up" => Shows(runs', pane'))
       /\ pane'.epoch = pane.epoch
       /\ runs' \in {L1.runs, L2.runs, Q}
  BY <1>2, <1>3, <1>6, <1>13, <1>14, <1>15, <1>16, <1>17, WriteOrder
<1>19. QueueOk' /\ LastOfPane'
  <2>1. CASE Kept(runs, runs') BY <1>2, <1>18, <2>1, FewerHooks DEF OrderPart
  <2>2. CASE runs' = Q
    <3>1. QueueOk' /\ \A m \in Turn : Has(runs', m) /\ Busy(m)' => m = n
      <4> HIDE DEF n
      <4> QED BY <1>1, <1>2, <1>9, <2>2, FirstHook DEF OrderPart, n
    <3> QED BY <1>5, <1>7, <1>11, <1>18, <2>2, <3>1 DEF LastOfPane
  <2> QED BY <1>3, <1>18, <2>1, <2>2
<1> QED BY <1>18, <1>19 DEF OrderPart

-----------------------------------------------------------------------------
(* The operator and a restart.                                              *)

(* Projecting any run never puts the pane ahead. *)
LEMMA ProjectedLag ==
    ASSUME NEW R \in [Turn -> RunRecord \cup {NoRun}], NEW p \in PaneRecord, Lag(R, p),
           NEW n \in Turn, Has(R, n)
    PROVE  /\ Lag(R, Projected(p, n, R))
           /\ Projected(p, n, R).epoch = p.epoch /\ Projected(p, n, R).sess = p.sess
<1> DEFINE t == [epoch |-> p.epoch, sess |-> p.sess,
                 seq |-> IF R[n].seq > p.seq THEN R[n].seq ELSE p.seq,
                 done |-> IF R[n].active THEN R[n].seq - 1 ELSE R[n].seq,
                 running |-> R[n].active, run |-> n, rev |-> R[n].rev]
<1>2. Shown(p, n, R[n]) = t
  <2> DEFINE r == R[n]
  <2>2. Shown(p, n, r) = [p EXCEPT !.seq = IF r.seq > p.seq THEN r.seq ELSE p.seq,
                      !.done = IF r.active THEN r.seq - 1 ELSE r.seq,
                      !.running = r.active, !.run = n, !.rev = r.rev]
    BY Zenon DEF Shown
  <2>3. t = [epoch |-> p.epoch, sess |-> p.sess,
                 seq |-> IF r.seq > p.seq THEN r.seq ELSE p.seq,
                 done |-> IF r.active THEN r.seq - 1 ELSE r.seq,
                 running |-> r.active, run |-> n, rev |-> r.rev]
    OBVIOUS
  <2> HIDE DEF r, t
  <2>4. Shown(p, n, r) = t BY <2>2, <2>3, RunTypes DEF PaneRecord
  <2> QED BY <2>4 DEF r
<1>3. /\ t.epoch = p.epoch /\ t.sess = p.sess /\ t.run = n /\ t.rev = R[n].rev
      /\ t.seq = R[n].seq \/ t.seq = p.seq
  OBVIOUS
<1> HIDE DEF t
<1>4. CASE <<p.epoch, p.sess>> = Binding(R[n]) /\ ~Superior(p, n, R[n], R)
  BY <1>2, <1>4, <1>3, RunTypes DEF Projected, Binding, Of, Lag, PaneRecord
<1>5. CASE ~(<<p.epoch, p.sess>> = Binding(R[n]) /\ ~Superior(p, n, R[n], R)) BY <1>5 DEF Projected
<1> QED BY <1>4, <1>5

(* The operator completes the run the pane shows. *)
LEMMA ResolveOrder ==
    ASSUME Ordered, LedgerInv, OrderPart, Resolve
    PROVE  OrderPart'
<1> DEFINE n == token.turn
           q == [runs[n] EXCEPT !.rev = @ + 1, !.active = FALSE, !.by = "operator"]
           L == Saved(Ledger, n, q)
           Q == [runs EXCEPT ![n] = q]
           p2 == Projected(pane, n, Q)
<1>1. /\ daemon = "up" /\ token # NoToken /\ runs[n].by = "nobody" /\ pane.run = n
      /\ Write({}, L, pane, Projected(pane, n, L.runs)) /\ UNCHANGED outside
  BY DEF Resolve, Fresh
<1>2. /\ LedgerPart /\ TokenOk /\ token \in TokenRecord \cup {NoToken}
      /\ runs \in [Turn -> RunRecord \cup {NoRun}] /\ pane \in PaneRecord
      /\ faults \in Nat /\ MaxFault = 0 /\ agent.turn \in Turn \cup {NoTurn}
      /\ Uniq(runs)
  BY LedgerInvPart DEF LedgerPart, Ordered, DiskOk, UniqueIfBound, Uniq
<1>3. n \in Turn /\ Has(runs, n) /\ runs[n] \in RunRecord BY <1>1, <1>2, RunTypes DEF TokenOk, TokenRecord
<1>5. q \in RunRecord /\ Moves(runs[n], q)
  <2> DEFINE r == runs[n]
  <2>1. r \in RunRecord /\ r.rev + 1 \in Nat \ {0} /\ r.rev + 1 > r.rev /\ r.by = "nobody"
        /\ q = [r EXCEPT !.rev = r.rev + 1, !.active = FALSE, !.by = "operator"]
    BY <1>1, <1>3 DEF RunRecord
  <2> HIDE DEF r
  <2>2. /\ q \in RunRecord /\ q.rev = r.rev + 1 /\ q.epoch = r.epoch /\ q.sess = r.sess
        /\ q.seq = r.seq /\ ~q.active /\ q.stopped = r.stopped
    <3> HIDE DEF q
    <3> QED BY <2>1 DEF RunRecord
  <2> HIDE DEF q
  <2> QED BY <2>1, <2>2 DEF Moves, r
<1> HIDE DEF q
<1>6. Kept(runs, Q) /\ Q \in [Turn -> RunRecord \cup {NoRun}]
  <2> HIDE DEF n
  <2> QED BY <1>2, <1>3, <1>5, ChangedKept
<1>7. L.runs = Q
  <2>1. Saved(Ledger, n, q).runs = [Ledger.runs EXCEPT ![n] = q]
    <3> HIDE DEF n
    <3> QED BY <1>3, <1>2, LedgerTyped, SavedRuns
  <2> QED BY <1>2, LedgerTyped, <2>1
<1> HIDE DEF Q, L
<1>8. Lag(Q, pane) /\ Lag(Q, p2) /\ p2.epoch = pane.epoch /\ p2.sess = pane.sess
  BY <1>2, <1>6, KeptGrown, LagGrown, <1>3, ProjectedLag DEF OrderPart, Kept
<1>9. Shows(Q, p2)
  BY <1>1, <1>3, ConstantsAssumption, <1>2, <1>6, ShownAgain, <1>8, KeptLast DEF OrderPart, Lag, Of, Last, Shows
<1>10. Write({}, L, pane, p2) BY <1>1, <1>7
<1> HIDE DEF p2
<1> QED BY <1>1, <1>2, <1>7, <1>8, <1>9, <1>10, WriteOrder, <1>6, FewerHooks DEF OrderPart, outside

(* A restart ends the runs of other bindings and repairs the pane. *)
LEMMA RestartOrder ==
    ASSUME Ordered, LedgerInv, OrderPart, Restart
    PROVE  OrderPart'
<1> DEFINE live == {n \in LastRuns : Binding(runs[n]) = PaneBinding}
           Q == Restarted
<1>1. /\ daemon' = "up" /\ runs' = Q /\ UNCHANGED outside
      /\ \/ live = {} /\ pane' = [pane EXCEPT !.run = NoTurn, !.rev = 0]
         \/ \E n \in live : pane' = Projected(pane, n, Q)
  BY DEF Restart
<1>2. /\ runs \in [Turn -> RunRecord \cup {NoRun}] /\ pane \in PaneRecord
      /\ agent.turn \in Turn \cup {NoTurn} /\ Uniq(runs)
  BY LedgerInvPart DEF LedgerPart, Ordered, DiskOk, UniqueIfBound, Uniq
<1>4. Closed(runs, Q) BY DEF Closed, Active, LastRuns, Restarted
<1>5. Q \in [Turn -> RunRecord \cup {NoRun}] BY <1>2, <1>4, RunTypes, OverType DEF Closed, Active, Has, Restarted
<1>6. Kept(runs, Q) BY <1>2, <1>4, ClosedKept
<1>7. \A n \in Turn : Last(runs, n) /\ Of(runs, n, pane) <=> n \in live
  BY BindingEq DEF Last, Of, SameBinding, LastRuns, PaneBinding, Binding, Has
<1> HIDE DEF Q, live
<1>8. Uniq(Q) /\ Lag(Q, pane) BY <1>2, <1>5, <1>6, KeptLast, KeptGrown, LagGrown DEF OrderPart
<1>10. ASSUME NEW n \in live, pane' = Projected(pane, n, Q)
       PROVE  Lag(Q, pane') /\ Shows(Q, pane') /\ pane'.epoch = pane.epoch
  BY <1>7, <1>2, <1>6, KeptLast, <1>5, <1>8, <1>10, ProjectedShows DEF live, LastRuns, Last, Of
<1>11. ASSUME live = {}, pane' = [pane EXCEPT !.run = NoTurn, !.rev = 0]
       PROVE  Lag(Q, pane') /\ Shows(Q, pane') /\ pane'.epoch = pane.epoch
  BY <1>2, <1>11, <1>8, <1>6, <1>7, KeptLast DEF PaneRecord, Of, Lag, Shows, Last
<1> QED BY <1>1, <1>10, <1>11, <1>2, <1>6, FewerHooks DEF OrderPart, outside

-----------------------------------------------------------------------------
(* The provider.                                                            *)

(* The provider emits a hook of turn n, which is NoTurn, has no hook and no *)
(* run, or is the turn it was working on.                                   *)
LEMMA EmitOrder ==
    ASSUME LedgerInv, OrderPart, NEW h, hooks' = hooks \cup {h}, h.no = emitted,
           emitted' = emitted + 1, h \in Hook, agent'.turn = h.turn,
           UNCHANGED <<runs, pane, daemon>>,
           \/ h.turn = NoTurn
           \/ h.turn = agent.turn
           \/ ~Has(runs, h.turn) /\ \A g \in hooks : g.turn # h.turn
    PROVE  OrderPart'
  BY LedgerInvPart, ConstantsAssumption DEF LedgerPart, Hook, OrderPart, QueueOk, Busy, LastOfPane

(* Every step. *)
LEMMA NextOrder ==
    ASSUME Ordered, LedgerInv, OrderPart, [Next]_vars
    PROVE  OrderPart'
<1>1. ASSUME NEW h \in hooks, HookStep(h) PROVE OrderPart'
  BY SameOrder, <1>1, SessionStartOrder, NewRunOrder, MoreEvidenceOrder, RepeatedStopOrder, RefusedLateOrder DEF
    Refused, ledger, HookStep
<1>2. CASE Operator BY ResolveOrder, <1>2, SameOrder DEF Operator, CheckRun, CheckPane, Withdraw, ledger, outside
<1>3. CASE Provider
  <2>1. /\ HooksOk /\ LedgerPart /\ hooks \subseteq Hook /\ emitted \in Nat
        /\ agent.turn \in Turn \cup {NoTurn} /\ agent.sess \in Nat
    BY LedgerInvPart
  <2>2. ASSUME NEW n \in Turn, StartTurn(n) PROVE OrderPart'
    <3>1. PICK kind \in {"Prompt", "Activity"} : Emit(kind, n, agent.sess) BY <2>2 DEF StartTurn
    <3> DEFINE h == [no |-> emitted, kind |-> kind, turn |-> n, sess |-> agent.sess]
    <3>2. /\ h \in Hook /\ h.no = emitted /\ h.turn = n BY <2>1 DEF Hook
    <3>3. /\ hooks' = hooks \cup {h} /\ emitted' = emitted + 1
          /\ UNCHANGED <<runs, pane, daemon>>
      BY <3>1 DEF Emit, ledger
    <3>4. agent'.turn = n /\ turns[n] = NoSess BY <2>2, LedgerInvPart DEF StartTurn
    <3>6. \A g \in hooks : g.turn # n BY <2>1, ConstantsAssumption, <3>4 DEF Hook, HooksOk
    <3> HIDE DEF h
    <3> QED BY <3>2, <3>3, <3>4, <2>1, <3>6, EmitOrder DEF LedgerPart, DiskOk, Born
  <2>3. CASE Work
    <3>1. PICK kind \in {"Prompt", "Activity", "Stop"} : Emit(kind, agent.turn, agent.sess) BY <2>3 DEF Work
    <3> DEFINE h == [no |-> emitted, kind |-> kind, turn |-> agent.turn, sess |-> agent.sess]
    <3>3. h \in Hook /\ h.no = emitted /\ h.turn = agent.turn BY <2>1, <2>3 DEF Hook, Work
    <3>4. /\ hooks' = hooks \cup {h} /\ emitted' = emitted + 1
          /\ UNCHANGED <<runs, pane, daemon>>
      BY <3>1 DEF Emit, ledger
    <3> HIDE DEF h
    <3> QED BY <2>1, <2>3, <3>3, <3>4, EmitOrder DEF Work
  <2>4. ASSUME NEW s \in 1..MaxSess, ChangeSession(s) PROVE OrderPart'
    <3> DEFINE h == [no |-> emitted, kind |-> "SessionStart", turn |-> NoTurn, sess |-> s]
    <3>3. h \in Hook /\ h.no = emitted /\ h.turn = NoTurn BY <2>1, ConstantsAssumption DEF Hook
    <3>4. /\ hooks' = hooks \cup {h} /\ emitted' = emitted + 1
          /\ UNCHANGED <<runs, pane, daemon>>
      BY <2>4 DEF Emit, ledger, ChangeSession
    <3> HIDE DEF h
    <3> QED BY <2>4, <3>3, <3>4, EmitOrder DEF ChangeSession
  <2> QED BY <1>3, <2>2, <2>3, <2>4 DEF Provider
<1>4. CASE Crash BY <1>4, SameOrder DEF Crash, DieWith, outside
<1>5. CASE Restart BY <1>5, RestartOrder
<1>6. CASE UNCHANGED vars BY <1>6, SameOrder DEF vars, ledger, outside
<1> QED BY <1>1, <1>2, <1>3, <1>4, <1>5, <1>6 DEF Next

-----------------------------------------------------------------------------
(* Theorems.                                                                *)

(* An empty queue and an empty ledger are in order. *)
LEMMA InitOrder == Init => OrderPart BY DEF Init, FirstPane, Has, QueueOk, OrderPart, LastOfPane, Lag, Shows, Last

(* The inductive invariant holds in every reachable state: the queue is in  *)
(* order, the pane is never ahead of the runs, and it shows the last one    *)
(* while the daemon serves.                                                 *)
THEOREM OrderInvariant == ASSUME Ordered PROVE Spec => []OrderInv
<1>1. OrderInv <=> LedgerInv /\ OrderPart BY DEF OrderInv, OrderPart
<1>3. (LedgerInv /\ OrderPart) /\ [Next]_vars => (LedgerInv /\ OrderPart)' BY NextInv, StutterInv, NextOrder
<1>4. Init => LedgerInv /\ OrderPart BY InitInv, InitOrder
<1>5. Spec => [](LedgerInv /\ OrderPart) BY <1>3, <1>4, PTL DEF Spec
<1> QED BY <1>1, <1>5, PTL

(* The pane shows the last run of its binding at its present revision.      *)
THEOREM PaneShowsItsRun == ASSUME Ordered PROVE Spec => []PaneShowsRun
<1>1. OrderInv => PaneShowsRun
  BY BindingEq DEF PaneShowsRun, LastRuns, Last, Has, SameBinding, Binding, PaneBinding, Of, OrderInv, Shows
<1> QED BY <1>1, OrderInvariant, PTL

(* A pane that reads done has no active run, of whatever session or epoch.  *)
THEOREM DoneIsDone == ASSUME Ordered PROVE Spec => []DoneMeansInactive
<1>1. OrderInv => DoneMeansInactive
  BY LedgerInvPart DEF DoneMeansInactive, Active, OrderInv, Lag, PaneDone, LedgerPart, DiskOk, ActiveOfPane,
    ActiveIsLast, Last, SameBinding, Has, Shows
<1> QED BY <1>1, OrderInvariant, PTL
=============================================================================
