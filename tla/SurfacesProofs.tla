--------------------------- MODULE SurfacesProofs ---------------------------
(***************************************************************************)
(* Theorems about the files behind the surfaces.  RunEvidence: what a      *)
(* saved run remembers is never forgotten, the answer of a completed turn  *)
(* is final, and the bodies on disk are those of the records, within the   *)
(* limit.  StoreReset: an interrupted opening or reset leaves one          *)
(* generation.  Together they are FilesSound of MCSurfaces.                *)
(***************************************************************************)
EXTENDS MCSurfaces, FiniteSetTheorems, SequenceTheorems, WellFoundedInduction, TLAPS

-----------------------------------------------------------------------------
(* What a disk looks like at every point between two writes.                *)

Files(B) == {n \in Turn : B[n] # NoBody}

(* Whoever has an artifact has seen the Stop with that answer.              *)
RecordGood(r) ==
    /\ r \in RunRecord
    /\ Len(r.refs) <= MaxRefs
    /\ r.artifact # "none" =>
          \E i \in DOMAIN r.refs : r.refs[i].what = "stop" /\ r.refs[i].answer = r.answer
    /\ r.artifact = "stored" => r.answer \in Answer

DiskType == [runs : [Turn -> RunRecord \cup {NoRun}], bodies : [Turn -> Answer \cup {NoBody}]]
RecordsGood(D) ==
    \A n \in Turn : D.runs[n] # NoRun =>
        /\ RecordGood(D.runs[n])
        /\ D.runs[n].artifact = "stored" => D.bodies[n] = D.runs[n].answer
FilesGood(B) == IsFiniteSet(Files(B)) /\ Cardinality(Files(B)) <= MaxFiles

DiskGood(D) == D \in DiskType /\ RecordsGood(D) /\ FilesGood(D.bodies)

(* A serving daemon knows every run, and its current run is on disk.        *)
KnowsAll == daemon = "up" => \A n \in Turn : runs[n] # NoRun => n \in known
CurrentKept == current # NoTurn => runs[current] \in RunRecord

EvidenceInv == DiskGood(Disk(runs, bodies)) /\ KnowsAll /\ CurrentKept

-----------------------------------------------------------------------------
(* What the next record of a run may look like.                             *)

Follows(r, q) ==
    /\ \A i \in DOMAIN r.refs :
          /\ i \in DOMAIN q.refs
          /\ q.refs[i].what = r.refs[i].what /\ q.refs[i].id = r.refs[i].id
          /\ q.refs[i].answer = r.refs[i].answer
    /\ r.artifact # "none" =>
          /\ q.answer = r.answer /\ q.artifact # "none"
          /\ r.artifact = "stored" => q.artifact \in {"stored", "expired"}
          /\ r.artifact = "expired" => q.artifact = "expired"

(* The runs that are on disk before and after. *)
AllFollow(R, Q) == \A n \in Turn : R[n] # NoRun /\ Q[n] # NoRun => Follows(R[n], Q[n])

LEMMA FollowsSelf == ASSUME NEW r PROVE Follows(r, r) BY DEF Follows

LEMMA FollowsOn ==
    ASSUME NEW r, NEW q, NEW s, Follows(r, q), Follows(q, s) PROVE Follows(r, s)
  BY DEF Follows

(* A change of one record. *)
LEMMA OneFollows ==
    ASSUME NEW R, R \in [Turn -> RunRecord \cup {NoRun}], NEW n \in Turn, NEW q, Follows(R[n], q)
    PROVE  AllFollow(R, [R EXCEPT ![n] = q])
  BY FollowsSelf DEF AllFollow

-----------------------------------------------------------------------------
(* Lists of references.                                                     *)

LEMMA LeastRotatable ==
    ASSUME NEW refs \in Seq(Reference), Rotatable(refs) # {}
    PROVE  \E i \in Rotatable(refs) : \A j \in Rotatable(refs) : i <= j
<1>1. Rotatable(refs) \subseteq Nat BY LenProperties DEF Rotatable
<1>2. PICK i \in Rotatable(refs) : \A j \in Rotatable(refs) : ~ (<<j, i>> \in OpToRel(<, Nat))
  <2> HIDE DEF OpToRel
  <2> QED BY <1>1, NatLessThanWellFounded, WFMin
<1>3. \A j \in Rotatable(refs) : ~ (j < i) BY <1>1, <1>2 DEF OpToRel
<1> QED BY <1>1, <1>3

(* Appending keeps the type and the limit and puts the reference last.      *)
LEMMA Appended ==
    ASSUME BoundsAssumption, NEW refs \in Seq(Reference), NEW ref \in Reference,
           Len(refs) <= MaxRefs, CanAppend(refs)
    PROVE  LET new == append_provider_reference(refs, ref) IN
           /\ new \in Seq(Reference) /\ Len(new) <= MaxRefs
           /\ Len(new) \in DOMAIN new /\ new[Len(new)] = ref
<1> DEFINE new == append_provider_reference(refs, ref)
<1>0. Len(refs) \in Nat /\ DOMAIN refs = 1..Len(refs) /\ MaxRefs \in Nat \ {0} BY LenProperties DEF BoundsAssumption
<1>1. CASE Len(refs) < MaxRefs BY <1>1, AppendProperties, <1>0, LenProperties DEF append_provider_reference
<1>2. CASE ~(Len(refs) < MaxRefs)
  <2> DEFINE k == CHOOSE i \in Rotatable(refs) : \A j \in Rotatable(refs) : i <= j
  <2>1. k \in Rotatable(refs) BY <1>2, LeastRotatable DEF CanAppend
  <2>2. k \in 1..Len(refs) /\ k \in Nat BY <1>0, <2>1 DEF Rotatable
  <2>3. new = Append(RemoveAt(refs, k), ref) BY <1>2 DEF append_provider_reference
  <2> HIDE DEF k
  <2> DEFINE front == SubSeq(refs, 1, k - 1)
             back == SubSeq(refs, k + 1, Len(refs))
  <2>4. front \in Seq(Reference) /\ Len(front) = k - 1 BY <1>0, <2>2, ElementOfSeq, SubSeqProperties
  <2>5. back \in Seq(Reference) /\ Len(back) = Len(refs) - k
    <3>1. \A i \in (k + 1)..Len(refs) : refs[i] \in Reference BY <1>0, <2>2, ElementOfSeq
    <3>2. k + 1 \in Int /\ Len(refs) \in Int BY <1>0, <2>2
    <3>3. /\ k + 1 <= Len(refs) => Len(back) = Len(refs) - (k + 1) + 1
          /\ ~(k + 1 <= Len(refs)) => Len(back) = 0
      BY <3>1, <3>2, SubSeqProperties
    <3>4. back \in Seq(Reference) BY <3>1, <3>2, SubSeqProperties
    <3> HIDE DEF back
    <3> DEFINE l == Len(refs)
               m == Len(back)
    <3>5. l \in Nat /\ k \in Nat /\ 1 <= k /\ k <= l BY <1>0, <2>2
    <3>6. (k + 1 <= l => m = l - (k + 1) + 1) /\ (~(k + 1 <= l) => m = 0) BY <3>3
    <3> HIDE DEF l, m
    <3>7. m = l - k BY <3>5, <3>6
    <3> QED BY <3>4, <3>7 DEF l, m
  <2> DEFINE rest == RemoveAt(refs, k)
  <2>6. rest = front \o back BY DEF RemoveAt
  <2> HIDE DEF front, back, rest, new
  <2>7. rest \in Seq(Reference) /\ Len(rest) = Len(front) + Len(back) BY <2>4, <2>5, <2>6, ConcatProperties
  <2>8. Len(rest) = Len(refs) - 1 /\ new = Append(rest, ref) BY <1>0, <2>2, <2>3, <2>4, <2>5, <2>7 DEF rest
  <2> QED BY <1>0, <2>2, <2>8, <2>7, AppendProperties, LenProperties DEF new
<1> QED BY <1>1, <1>2

-----------------------------------------------------------------------------
(* Records.                                                                 *)

LEMMA HookTypes ==
    ASSUME NEW h \in Hook
    PROVE  /\ h.turn \in Turn /\ h.id \in Nat /\ h.answer \in Answer \cup {NoAnswer}
           /\ h.what \in {"Prompt", "Stop"}
  BY DEF Hook

(* What a report leaves of the artifact. *)
SameArtifact(r, q) == q.artifact = r.artifact /\ q.answer = r.answer

(* A repeated report. *)
LEMMA RepeatedGood ==
    ASSUME NEW r, RecordGood(r), NEW i \in DOMAIN r.refs, NEW s \in Nat
    PROVE  LET q == Repeated(r, i, s) IN
           RecordGood(q) /\ Follows(r, q) /\ SameArtifact(r, q)
<1> DEFINE f == [r.refs[i] EXCEPT !.count = @ + 1]
           l == [r.refs EXCEPT ![i] = f]
           v == r.rev + 1
           q == Repeated(r, i, s)
<1>1. r \in RunRecord /\ r.refs \in Seq(Reference) /\ r.rev \in Nat \ {0} BY DEF RecordGood, RunRecord
<1>3. r.refs[i] \in Reference BY <1>1, LenProperties, ElementOfSeq
<1>4. /\ f \in Reference
      /\ f.what = r.refs[i].what /\ f.id = r.refs[i].id /\ f.answer = r.refs[i].answer
  BY <1>3 DEF Reference
<1>5. q = [r EXCEPT !.refs = l, !.rev = v, !.seen = s] /\ v \in Nat \ {0} BY <1>1 DEF Repeated, RunRecord
<1> HIDE DEF f, v
<1>6. l \in Seq(Reference) /\ Len(l) = Len(r.refs) /\ DOMAIN l = DOMAIN r.refs
  BY <1>1, LenProperties, <1>4, ExceptSeq
<1>7. \A j \in DOMAIN r.refs :
         l[j].what = r.refs[j].what /\ l[j].id = r.refs[j].id /\ l[j].answer = r.refs[j].answer
  BY <1>4
<1> HIDE DEF l, q
<1>8. /\ q \in RunRecord /\ q.refs = l
      /\ q.artifact = r.artifact /\ q.answer = r.answer
  BY <1>1, <1>5, <1>6 DEF RunRecord
<1> QED BY <1>8, <1>6, <1>7 DEF q, SameArtifact, Follows, RecordGood

(* What save_run accepts follows the record it replaces. *)
LEMMA SavedFollows ==
    ASSUME NEW r, RecordGood(r), NEW q, q \in RunRecord, Saves(r, q), SameArtifact(r, q)
    PROVE  RecordGood(q) /\ Follows(r, q)
<1>1. CASE q = r BY <1>1, FollowsSelf
<1>2. CASE Len(q.refs) <= MaxRefs /\ validate_evidence_replacement(r, q)
  BY <1>2, LenProperties DEF RecordGood, RunRecord, validate_evidence_replacement, Follows, SameArtifact
<1> QED BY <1>1, <1>2 DEF Saves

(* A first report of a prompt or a Stop. *)
LEMMA ObservedTypes ==
    ASSUME BoundsAssumption, NEW r, RecordGood(r), NEW h \in Hook, NEW s \in Nat, CanAppend(r.refs)
    PROVE  LET q == Observed(r, h, s) IN
           /\ q \in RunRecord /\ SameArtifact(r, q)
           /\ h.what = "Stop" =>
                 \E i \in DOMAIN q.refs : q.refs[i].what = "stop" /\ q.refs[i].answer = h.answer
<1>1. /\ r \in RunRecord /\ r.refs \in Seq(Reference) /\ Len(r.refs) <= MaxRefs
      /\ r.rev + 1 \in Nat \ {0}
  BY DEF RecordGood, RunRecord
<1>2. CASE h.what = "Prompt"
  <2> DEFINE ref == Ref("prompt_updated", h.id, NoAnswer)
             l == append_provider_reference(r.refs, ref)
             v == r.rev + 1
  <2>1. ref \in Reference BY HookTypes DEF Ref, Reference
  <2>2. l \in Seq(Reference) BY <1>1, <2>1, Appended
  <2>3. Observed(r, h, s) = [r EXCEPT !.refs = l, !.rev = v, !.seen = s] BY <1>1, <1>2 DEF Observed, RunRecord
  <2> HIDE DEF l, v
  <2> QED BY <1>1, <1>2, <2>2, <2>3 DEF RunRecord, SameArtifact, v
<1>3. CASE h.what = "Stop"
  <2> DEFINE ref == Ref("stop", 0, h.answer)
             l == append_provider_reference(r.refs, ref)
             v == r.rev + 1
             p == IF r.by = "nobody" THEN "Ended" ELSE r.phase
             b == IF r.by = "nobody" THEN "provider" ELSE r.by
             q == Observed(r, h, s)
  <2>1. ref \in Reference BY HookTypes DEF Ref, Reference
  <2>2. l \in Seq(Reference) /\ Len(l) \in DOMAIN l /\ l[Len(l)] = ref BY <1>1, <2>1, Appended
  <2>3. q = [r EXCEPT !.refs = l, !.rev = v, !.seen = s, !.phase = p, !.by = b]
    BY <1>1, <1>3 DEF Observed, RunRecord
  <2>4. p \in {"Running", "Error", "Ended"} /\ b \in {"nobody", "provider", "operator"} BY <1>1 DEF RunRecord
  <2>5. ref.what = "stop" /\ ref.answer = h.answer BY DEF Ref
  <2> HIDE DEF l, v, p, b, q, ref
  <2>6. q \in RunRecord /\ q.refs = l /\ SameArtifact(r, q) BY <1>1, <2>2, <2>3, <2>4 DEF RunRecord, SameArtifact, v
  <2> QED BY <2>2, <2>5, <2>6 DEF q
<1> QED BY <1>2, <1>3, HookTypes

(* The record of an accepted Stop: it has seen that answer, and if it had   *)
(* an artifact before it is the same answer.                                *)
Answered(r, a) ==
    /\ \E i \in DOMAIN r.refs : r.refs[i].what = "stop" /\ r.refs[i].answer = a
    /\ r.artifact # "none" => r.answer = a

LEMMA StopRecordGood ==
    ASSUME BoundsAssumption, NEW r, RecordGood(r), NEW h \in Hook, h.what = "Stop", NEW s \in Nat,
           StopAcceptable(r, h, s)
    PROVE  LET q == StopRecord(r, h, s) IN
           RecordGood(q) /\ Follows(r, q) /\ SameArtifact(r, q) /\ Answered(q, h.answer)
<1> DEFINE q == StopRecord(r, h, s)
<1>1. HookRefs(r, h) = {i \in DOMAIN r.refs : r.refs[i].what = "stop"} BY DEF HookRefs
<1>2. CASE HookRefs(r, h) = {}
  <2>1. q = Observed(r, h, s) /\ CanAppend(r.refs) /\ Saves(r, q) BY <1>2 DEF StopRecord, StopAcceptable
  <2>2. /\ q \in RunRecord /\ SameArtifact(r, q)
        /\ \E i \in DOMAIN q.refs : q.refs[i].what = "stop" /\ q.refs[i].answer = h.answer
    BY <2>1, ObservedTypes
  <2> HIDE DEF q
  <2>3. RecordGood(q) /\ Follows(r, q) BY <2>1, <2>2, SavedFollows
  <2>4. r.artifact = "none" BY <1>1, <1>2 DEF RecordGood
  <2> QED BY <2>2, <2>3, <2>4 DEF Answered, SameArtifact, q
<1>3. CASE HookRefs(r, h) # {}
  <2> DEFINE i == CHOOSE j \in HookRefs(r, h) : TRUE
  <2>1. i \in HookRefs(r, h) /\ i \in DOMAIN r.refs BY <1>1, <1>3
  <2>3. q = Repeated(r, i, s) BY <1>3 DEF StopRecord
  <2> HIDE DEF q, i
  <2>4. RecordGood(q) /\ Follows(r, q) /\ SameArtifact(r, q) BY <2>1, <2>3, RepeatedGood
  <2>5. i \in DOMAIN q.refs /\ q.refs[i].what = "stop" /\ q.refs[i].answer = h.answer
    BY <1>1, <2>1, <1>3, <2>4 DEF Follows, StopAcceptable
  <2> QED BY <2>4, <2>5, <1>1, <1>3 DEF Answered, SameArtifact, q, RecordGood, StopAcceptable
<1> QED BY <1>2, <1>3

(* The report of an overload. *)
LEMMA FailedGood ==
    ASSUME NEW r, RecordGood(r), NEW s \in Nat, Saves(r, Failed(r, s))
    PROVE  LET q == Failed(r, s) IN RecordGood(q) /\ Follows(r, q) /\ SameArtifact(r, q)
<1> DEFINE new == \A i \in DOMAIN r.refs : r.refs[i].what # "provider_overloaded"
           ref == Ref("provider_overloaded", 0, NoAnswer)
           l == IF new THEN Append(r.refs, ref) ELSE r.refs
           v == IF new \/ r.phase # "Error" THEN r.rev + 1 ELSE r.rev
           q == Failed(r, s)
<1>1. r \in RunRecord /\ r.refs \in Seq(Reference) /\ r.rev \in Nat \ {0} BY DEF RecordGood, RunRecord
<1>2. ref \in Reference BY DEF Ref, Reference
<1>3. l \in Seq(Reference) /\ v \in Nat \ {0} BY <1>1, <1>2, AppendProperties
<1>4. q = [r EXCEPT !.refs = l, !.rev = v, !.phase = "Error", !.seen = s] BY <1>1 DEF Failed, RunRecord
<1> HIDE DEF l, v, q
<1>5. q \in RunRecord /\ SameArtifact(r, q) BY <1>1, <1>3, <1>4 DEF RunRecord, SameArtifact
<1> QED BY <1>5, SavedFollows DEF q

(* The first record of a turn. *)
LEMMA NewRecordGood ==
    ASSUME BoundsAssumption, NEW seq \in Nat, NEW id \in Nat
    PROVE  RecordGood(NewRecord(seq, id)) /\ NewRecord(seq, id).artifact = "none"
<1> DEFINE ref == Ref("run_created", id, NoAnswer)
           l == <<ref>>
<1>1. ref \in Reference BY DEF Ref, Reference
<1> HIDE DEF ref
<1>2. l \in Seq(Reference) /\ Len(l) = 1 BY <1>1
<1> HIDE DEF l
<1>4. NewRecord(seq, id) \in RunRecord /\ NewRecord(seq, id).refs = l
      /\ NewRecord(seq, id).artifact = "none"
  BY <1>2 DEF RunRecord, NewRecord, l, ref
<1>5. Len(NewRecord(seq, id).refs) <= MaxRefs
  <2>1. 1 <= MaxRefs BY DEF BoundsAssumption
  <2> QED BY <1>2, <1>4, <2>1
<1> HIDE DEF RecordGood
<1> QED BY <1>4, <1>5 DEF RecordGood

-----------------------------------------------------------------------------
(* Disks.                                                                   *)

LEMMA DiskIs ==
    ASSUME NEW R, NEW B
    PROVE  Disk(R, B).runs = R /\ Disk(R, B).bodies = B
  BY DEF Disk

(* Fewer files. *)
LEMMA FewerFiles ==
    ASSUME BoundsAssumption, NEW B, FilesGood(B), NEW C, Files(C) \subseteq Files(B)
    PROVE  FilesGood(C)
  BY FS_Subset, FS_CardinalityType DEF FilesGood, BoundsAssumption

(* A record is replaced. *)
LEMMA PutRecord ==
    ASSUME NEW D, DiskGood(D), NEW n \in Turn, NEW q, RecordGood(q),
           q.artifact = "stored" => D.bodies[n] = q.answer
    PROVE  DiskGood(Disk([D.runs EXCEPT ![n] = q], D.bodies))
<1> DEFINE R == [D.runs EXCEPT ![n] = q]
<1>3. R \in [Turn -> RunRecord \cup {NoRun}] /\ R[n] = q /\ \A m \in Turn \ {n} : R[m] = D.runs[m]
  BY DEF RecordGood, DiskGood, DiskType
<1> HIDE DEF R
<1>7. DiskGood(Disk(R, D.bodies))
  <2> DEFINE E == Disk(R, D.bodies)
  <2>1. E.runs = R /\ E.bodies = D.bodies /\ E \in DiskType BY <1>3, DiskIs DEF Disk, DiskType, DiskGood
  <2> HIDE DEF E
  <2>2. DiskGood(E) BY <1>3, <2>1 DEF DiskGood, RecordsGood
  <2> QED BY <2>2 DEF E
<1> QED BY <1>7 DEF R

(* Records and bodies of some runs go, bodies after records.                *)
LEMMA Gone ==
    ASSUME BoundsAssumption, NEW D, DiskGood(D), NEW S, NEW T, T \subseteq S
    PROVE  DiskGood(Disk([n \in Turn |-> IF n \in S THEN NoRun ELSE D.runs[n]],
                         [n \in Turn |-> IF n \in T THEN NoBody ELSE D.bodies[n]]))
<1> DEFINE R == [n \in Turn |-> IF n \in S THEN NoRun ELSE D.runs[n]]
           B == [n \in Turn |-> IF n \in T THEN NoBody ELSE D.bodies[n]]
<1>2. R \in [Turn -> RunRecord \cup {NoRun}] /\ B \in [Turn -> Answer \cup {NoBody}] BY DEF DiskGood, DiskType
<1>3. \A m \in Turn : R[m] # NoRun => m \notin S /\ R[m] = D.runs[m] /\ B[m] = D.bodies[m] OBVIOUS
<1>4. Files(B) \subseteq Files(D.bodies) BY DEF Files
<1> HIDE DEF R, B
<1>7. \A m \in Turn : R[m] # NoRun =>
         /\ RecordGood(R[m])
         /\ R[m].artifact = "stored" => B[m] = R[m].answer
  BY <1>3 DEF DiskGood, RecordsGood
<1>8. DiskGood(Disk(R, B))
  <2> DEFINE E == Disk(R, B)
  <2>1. E.runs = R /\ E.bodies = B /\ E \in DiskType BY <1>2, DiskIs DEF Disk, DiskType
  <2> HIDE DEF E
  <2> QED BY <1>4, FewerFiles, <1>7, <2>1 DEF E, DiskGood, RecordsGood
<1> QED BY <1>8 DEF R, B

-----------------------------------------------------------------------------
(* A new run: the current one ends, others are removed, and it is saved.    *)

LEMMA EndCurrentGood ==
    ASSUME NEW D, DiskGood(D)
    PROVE  /\ DiskGood(Disk(EndCurrent(D.runs), D.bodies))
           /\ AllFollow(D.runs, EndCurrent(D.runs))
           /\ \A n \in Turn : EndCurrent(D.runs)[n] # NoRun => D.runs[n] # NoRun
           /\ \A n \in Turn : D.runs[n] \in RunRecord => EndCurrent(D.runs)[n] \in RunRecord
<1> DEFINE R == D.runs
           Q == EndCurrent(D.runs)
<1>1. R \in [Turn -> RunRecord \cup {NoRun}] BY DEF DiskGood, DiskType
<1>2. ASSUME NEW r, r \in RunRecord
      PROVE  LET q == [r EXCEPT !.phase = "Ended", !.rev = @ + 1] IN
             /\ q \in RunRecord /\ q.refs = r.refs /\ SameArtifact(r, q)
  <2> DEFINE v == r.rev + 1
             q == [r EXCEPT !.phase = "Ended", !.rev = v]
  <2>1. v \in Nat \ {0} BY <1>2 DEF RunRecord
  <2>2. q = [r EXCEPT !.phase = "Ended", !.rev = @ + 1] BY <1>2 DEF RunRecord
  <2> HIDE DEF v
  <2> QED BY <2>2, <1>2, <2>1 DEF RunRecord, SameArtifact
<1>3. ASSUME NEW n \in Turn
      PROVE  \/ Q[n] = R[n]
             \/ /\ R[n] # NoRun /\ Q[n] \in RunRecord /\ Q[n].refs = R[n].refs
                /\ SameArtifact(R[n], Q[n])
  <2>1. CASE n = current /\ R[n] # NoRun /\ Active(R[n])
    <3> DEFINE q == [R[n] EXCEPT !.phase = "Ended", !.rev = @ + 1]
    <3>2. q \in RunRecord /\ q.refs = R[n].refs /\ SameArtifact(R[n], q) BY <1>2, <1>1, <2>1
    <3>3. Q[n] = q BY <2>1 DEF EndCurrent
    <3> HIDE DEF q
    <3> QED BY <2>1, <3>2, <3>3
  <2>2. CASE ~(n = current /\ R[n] # NoRun /\ Active(R[n])) BY <2>2 DEF EndCurrent
  <2> QED BY <2>1, <2>2
<1>4. Q = [n \in Turn |-> Q[n]] BY DEF EndCurrent
<1> HIDE DEF Q, R
<1>5. Q \in [Turn -> RunRecord \cup {NoRun}] BY <1>1, <1>3, <1>4
<1>9. ASSUME NEW n \in Turn, Q[n] # NoRun
      PROVE  RecordGood(Q[n]) /\ (Q[n].artifact = "stored" => D.bodies[n] = Q[n].answer)
  BY <1>3, <1>9 DEF DiskGood, RecordsGood, R, RecordGood, SameArtifact
<1>10. DiskGood(Disk(Q, D.bodies))
  <2> DEFINE E == Disk(Q, D.bodies)
  <2>1. E.runs = Q /\ E.bodies = D.bodies BY DiskIs
  <2>2. E \in DiskType BY <1>5 DEF DiskGood, DiskType, Disk
  <2> HIDE DEF E
  <2>4. DiskGood(E) BY <1>9, <2>1, <2>2 DEF DiskGood, RecordsGood
  <2> QED BY <2>4 DEF E
<1> QED BY <1>3, FollowsSelf, <1>10 DEF Q, R, Follows, SameArtifact, AllFollow

(* Fewer records. *)
LEMMA FewerFollow ==
    ASSUME NEW R, NEW Q, AllFollow(R, Q),
           NEW P, \A n \in Turn : P[n] # NoRun => P[n] = Q[n]
    PROVE  AllFollow(R, P)
  BY DEF AllFollow

(* The disk on the way from the present one, of which only records in S may *)
(* be missing.                                                              *)
OnTheWay(D, S) ==
    /\ DiskGood(D) /\ AllFollow(runs, D.runs)
    /\ \A n \in Turn : D.runs[n] # NoRun => runs[n] # NoRun
    /\ \A n \in Turn \ S : runs[n] \in RunRecord => D.runs[n] \in RunRecord

LEMMA RemovalGood ==
    ASSUME BoundsAssumption, DiskGood(Disk(runs, bodies)), NEW S \in SUBSET Turn
    PROVE  LET steps == RemovalSteps(EndCurrent(runs), S) IN
           /\ \A i \in DOMAIN steps : OnTheWay(steps[i], S)
           /\ OnTheWay(Last(steps), S)
           /\ \A n \in S : Last(steps).runs[n] = NoRun
<1> DEFINE Q == EndCurrent(runs)
           none == [n \in Turn |-> IF n \in S THEN NoRun ELSE Q[n]]
           gone == [n \in Turn |-> IF n \in S THEN NoBody ELSE bodies[n]]
           same == [n \in Turn |-> IF n \in {} THEN NoBody ELSE bodies[n]]
           D1 == Disk(Q, bodies)
           D2 == Disk(none, bodies)
           D3 == Disk(none, gone)
           steps == RemovalSteps(EndCurrent(runs), S)
<1>2. /\ DiskGood(D1) /\ AllFollow(runs, Q)
      /\ \A n \in Turn : Q[n] # NoRun => runs[n] # NoRun
      /\ \A n \in Turn : runs[n] \in RunRecord => Q[n] \in RunRecord
  BY DiskIs, EndCurrentGood
<1>3. D1.runs = Q /\ D1.bodies = bodies BY DiskIs
<1>4. bodies = same BY DiskIs DEF DiskGood, DiskType
<1>5. steps = <<D1, D2, D3>> BY DEF RemovalSteps
<1>6. D2.runs = none /\ D2.bodies = bodies /\ D3.runs = none /\ D3.bodies = gone BY DiskIs
<1>7. /\ \A n \in Turn : none[n] # NoRun => none[n] = Q[n]
      /\ \A n \in Turn \ S : none[n] = Q[n]
      /\ \A n \in S : none[n] = NoRun
  OBVIOUS
<1> HIDE DEF Q, D1
<1>8. DiskGood(Disk(none, gone)) BY <1>2, <1>3, Gone
<1>9. DiskGood(Disk(none, same))
  <2> DEFINE T == {}
  <2>1. T \subseteq S OBVIOUS
  <2>2. same = [n \in Turn |-> IF n \in T THEN NoBody ELSE D1.bodies[n]] BY <1>3
  <2>3. none = [n \in Turn |-> IF n \in S THEN NoRun ELSE D1.runs[n]] BY <1>3
  <2> HIDE DEF T, none, same
  <2> QED BY <2>2, <2>3, <1>2, <2>1, Gone
<1> HIDE DEF none, gone, same
<1>10. DiskGood(D2) /\ DiskGood(D3) BY <1>4, <1>8, <1>9
<1> HIDE DEF D2, D3
<1>13. OnTheWay(D2, S) /\ OnTheWay(D3, S) BY <1>2, <1>6, <1>7, <1>10, FewerFollow DEF OnTheWay
<1> HIDE DEF steps
<1>15. \A n \in S : D3.runs[n] = NoRun BY <1>6, <1>7
<1> QED BY <1>2, <1>3, <1>13, <1>5, <1>15 DEF steps, OnTheWay, Last


-----------------------------------------------------------------------------
(* A step ends on a disk that is good and follows the one before.           *)

Sound == EvidenceInv' /\ AllFollow(runs, runs')

LEMMA Landed ==
    ASSUME NEW D, DiskGood(D), OnDisk(D) PROVE DiskGood(Disk(runs, bodies))'
  BY DEF DiskGood, DiskType, Disk, OnDisk, RecordsGood, FilesGood, Files, RecordGood

LEMMA Died ==
    ASSUME NEW D, DiskGood(D), AllFollow(runs, D.runs), DieWith(D) PROVE Sound
  BY Landed DEF DieWith, KnowsAll, CurrentKept, Sound, EvidenceInv, OnDisk

LEMMA Lived ==
    ASSUME EvidenceInv, NEW D, DiskGood(D), AllFollow(runs, D.runs), OnDisk(D),
           UNCHANGED <<daemon, known, current>>,
           \A n \in Turn : D.runs[n] # NoRun => runs[n] # NoRun,
           current # NoTurn => D.runs[current] \in RunRecord
    PROVE  Sound
  BY Landed DEF OnDisk, EvidenceInv, KnowsAll, CurrentKept, Sound

LEMMA NewRunStep ==
    ASSUME BoundsAssumption, TypeOK, EvidenceInv, NEW h \in Hook, NewRun(h)
    PROVE  Sound
<1> DEFINE n == h.turn
<1>1. /\ n \in Turn /\ n \notin known /\ daemon = "up" /\ runs[n] = NoRun
      /\ h.id \in Nat /\ DiskGood(Disk(runs, bodies))
  BY HookTypes DEF NewRun, EvidenceInv, KnowsAll
<1> DEFINE steps(S) == RemovalSteps(EndCurrent(runs), S)
           saved(S) == Disk([Last(steps(S)).runs EXCEPT ![n] = NewRecord(NextSeq, h.id)],
                            Last(steps(S)).bodies)
<1>2. PICK S \in SUBSET (Removable \ {n}) :
          \/ /\ OnDisk(saved(S)) /\ Lives
             /\ known' = (known \ S) \cup {n} /\ current' = n
          \/ /\ \E i \in DOMAIN steps(S) : OnDisk(steps(S)[i])
             /\ Fault /\ UNCHANGED <<known, current>>
          \/ \E D \in {steps(S)[i] : i \in DOMAIN steps(S)} \cup {saved(S)} : DieWith(D)
  BY DEF NewRun
<1>4. /\ \A i \in DOMAIN steps(S) : OnTheWay(steps(S)[i], S)
      /\ OnTheWay(Last(steps(S)), S)
      /\ \A m \in S : Last(steps(S)).runs[m] = NoRun
  BY <1>1, RemovalGood DEF Removable
<1> DEFINE E == Last(steps(S))
           q == NewRecord(NextSeq, h.id)
<1>6. RecordGood(q) /\ q.artifact = "none" BY <1>1, NewRecordGood DEF NextSeq, EvidenceInv, CurrentKept, RunRecord
<1>7. saved(S) = Disk([E.runs EXCEPT ![n] = q], E.bodies) OBVIOUS
<1> DEFINE V == saved(S)
<1> HIDE DEF steps, q, E, n
<1>8. DiskGood(E) /\ AllFollow(runs, E.runs) /\ \A m \in Turn : E.runs[m] # NoRun => runs[m] # NoRun
  BY <1>4 DEF OnTheWay, E
<1> HIDE DEF V, saved
<1>10. DiskGood(V) BY <1>1, <1>6, <1>7, <1>8, PutRecord DEF V
<1>13. V.runs[n] = q /\ \A m \in Turn \ {n} : V.runs[m] = E.runs[m]
  BY <1>1, <1>7, DiskIs, <1>8 DEF DiskGood, DiskType, V
<1>14. AllFollow(runs, V.runs) BY <1>1, <1>13, <1>8 DEF AllFollow
<1>15. CASE OnDisk(V) /\ Lives /\ known' = (known \ S) \cup {n} /\ current' = n
  <2>1. DiskGood(Disk(runs, bodies))' /\ runs' = V.runs BY <1>10, <1>15, Landed DEF OnDisk
  <2>2. KnowsAll' BY <1>8, <1>13, <2>1, <1>1, <1>4, <1>15 DEF EvidenceInv, KnowsAll, E
  <2> QED BY <1>14, <2>1, <2>2, <1>6, <1>13, <1>15 DEF Sound, EvidenceInv, CurrentKept, RecordGood
<1>16. CASE (\E i \in DOMAIN steps(S) : OnDisk(steps(S)[i])) /\ Fault /\ UNCHANGED <<known, current>>
  <2>1. PICK i \in DOMAIN steps(S) : OnDisk(steps(S)[i]) BY <1>16
  <2> DEFINE D == steps(S)[i]
  <2>2. OnTheWay(D, S) BY <1>4
  <2> HIDE DEF D
  <2>5. OnDisk(D) /\ UNCHANGED <<daemon, known, current>> BY <1>16, <2>1 DEF D, Fault
  <2> QED BY <2>2, <2>5, Lived DEF OnTheWay, EvidenceInv, CurrentKept, TypeOK, Removable
<1>17. CASE \E D \in {steps(S)[i] : i \in DOMAIN steps(S)} \cup {V} : DieWith(D)
  BY <1>17, <1>4, <1>10, <1>14, Died DEF OnTheWay
<1> QED BY <1>2, <1>15, <1>16, <1>17 DEF V, n

-----------------------------------------------------------------------------
(* Reports that change one record.                                          *)

(* The record of n becomes q. *)
LEMMA OneRecord ==
    ASSUME EvidenceInv, NEW n \in Turn, runs[n] # NoRun, NEW q, RecordGood(q), Follows(runs[n], q),
           q.artifact = "stored" => bodies[n] = q.answer
    PROVE  LET D == Disk([runs EXCEPT ![n] = q], bodies) IN
           /\ DiskGood(D) /\ AllFollow(runs, D.runs) /\ D.runs[n] = q
           /\ \A m \in Turn : D.runs[m] # NoRun => runs[m] # NoRun
           /\ current # NoTurn /\ current \in Turn => D.runs[current] \in RunRecord
<1> DEFINE C == Disk(runs, bodies)
           R == [runs EXCEPT ![n] = q]
           D == Disk(R, bodies)
<1>1. DiskGood(C) /\ C.runs = runs /\ C.bodies = bodies BY DiskIs DEF EvidenceInv
<1> HIDE DEF C
<1>5. AllFollow(runs, R) BY <1>1, OneFollows DEF DiskGood, DiskType
<1>6. D.runs = R BY DiskIs
<1>7. R[n] = q /\ \A m \in Turn \ {n} : R[m] = runs[m] BY <1>1 DEF DiskGood, DiskType
<1>8. q \in RunRecord /\ (current # NoTurn => runs[current] \in RunRecord)
  BY DEF RecordGood, EvidenceInv, CurrentKept
<1> HIDE DEF D, R
<1> QED BY <1>1, PutRecord, <1>5, <1>6, <1>7, <1>8 DEF D, R

LEMMA OneRecordStep ==
    ASSUME TypeOK, EvidenceInv, NEW n \in Turn, runs[n] # NoRun, NEW q, RecordGood(q),
           Follows(runs[n], q), SameArtifact(runs[n], q),
           runs' = [runs EXCEPT ![n] = q], UNCHANGED <<bodies, daemon, known, current>>
    PROVE  Sound
<1> DEFINE D == Disk([runs EXCEPT ![n] = q], bodies)
<1>1. q.artifact = "stored" => bodies[n] = q.answer
  <2>1. Disk(runs, bodies).runs = runs /\ Disk(runs, bodies).bodies = bodies BY DiskIs
  <2> QED BY <2>1 DEF EvidenceInv, DiskGood, RecordsGood, SameArtifact
<1>2. /\ DiskGood(D) /\ AllFollow(runs, D.runs) /\ D.runs[n] = q
      /\ \A m \in Turn : D.runs[m] # NoRun => runs[m] # NoRun
      /\ current # NoTurn /\ current \in Turn => D.runs[current] \in RunRecord
  BY <1>1, OneRecord, Zenon
<1>3. OnDisk(D) BY DiskIs DEF OnDisk
<1> HIDE DEF D
<1> QED BY <1>2, <1>3, Lived DEF TypeOK

LEMMA RunGood ==
    ASSUME EvidenceInv, NEW n \in Turn, runs[n] # NoRun
    PROVE  RecordGood(runs[n]) /\ (runs[n].artifact = "stored" => bodies[n] = runs[n].answer)
  BY DiskIs DEF EvidenceInv, DiskGood, RecordsGood

LEMMA StampsAreTimes == ASSUME NEW r, RecordGood(r), NEW s \in Stamps(r) PROVE s \in Nat
  BY DEF RecordGood, RunRecord, Stamps

LEMMA PromptStep ==
    ASSUME BoundsAssumption, TypeOK, EvidenceInv, NEW h \in Hook, SameTurnPrompt(h)
    PROVE  Sound
<1> DEFINE n == h.turn
           r == runs[n]
<1>1. n \in Turn /\ r # NoRun /\ UNCHANGED <<bodies, daemon, known, current>> BY HookTypes DEF SameTurnPrompt, Lives
<1>2. RecordGood(r) BY <1>1, RunGood
<1>3. PICK s \in Stamps(r) :
        \/ \E i \in HookRefs(r, h) : runs' = [runs EXCEPT ![n] = Repeated(r, i, s)]
        \/ /\ CanAppend(r.refs) /\ Saves(r, Observed(r, h, s))
           /\ runs' = [runs EXCEPT ![n] = Observed(r, h, s)]
        \/ UNCHANGED runs
  BY DEF SameTurnPrompt
<1> HIDE DEF n
<1>5. CASE \E i \in HookRefs(r, h) : runs' = [runs EXCEPT ![n] = Repeated(r, i, s)]
  <2>1. PICK i \in HookRefs(r, h) : runs' = [runs EXCEPT ![n] = Repeated(r, i, s)] BY <1>5
  <2> DEFINE q == Repeated(r, i, s)
  <2> HIDE DEF q
  <2> QED BY <1>1, <2>1, <1>2, StampsAreTimes, RepeatedGood, OneRecordStep DEF q, HookRefs
<1>6. CASE /\ CanAppend(r.refs) /\ Saves(r, Observed(r, h, s))
           /\ runs' = [runs EXCEPT ![n] = Observed(r, h, s)]
  <2> DEFINE q == Observed(r, h, s)
  <2>1. q \in RunRecord /\ SameArtifact(r, q) /\ Saves(r, q) BY <1>2, StampsAreTimes, <1>6, ObservedTypes
  <2>2. runs' = [runs EXCEPT ![n] = q] BY <1>6
  <2> HIDE DEF q
  <2> QED BY <1>1, <2>1, <2>2, <1>2, SavedFollows, OneRecordStep
<1>7. CASE UNCHANGED runs
  BY <1>1, <1>7, FollowsSelf DEF Sound, EvidenceInv, AllFollow, KnowsAll, CurrentKept, Disk, DiskGood, DiskType,
    RecordsGood, FilesGood, Files, RecordGood
<1> QED BY <1>3, <1>5, <1>6, <1>7

LEMMA OperatorStep ==
    ASSUME TypeOK, EvidenceInv, NEW n \in Turn, OperatorCompletes(n)
    PROVE  Sound
<1> DEFINE r == runs[n]
           v == r.rev + 1
           q == [r EXCEPT !.by = "operator", !.phase = "Ended", !.rev = v]
<1>3. r \in RunRecord /\ v \in Nat \ {0} BY RunGood DEF RecordGood, RunRecord, OperatorCompletes, Lives
<1>4. runs' = [runs EXCEPT ![n] = q] BY <1>3 DEF TypeOK, OperatorCompletes, RunRecord
<1> HIDE DEF v
<1>5. q \in RunRecord /\ q.refs = r.refs /\ SameArtifact(r, q) BY <1>3 DEF RunRecord, SameArtifact
<1> HIDE DEF q
<1>6. RecordGood(q) /\ Follows(r, q)
  BY RunGood, <1>5 DEF RecordGood, Follows, SameArtifact, OperatorCompletes, Lives
<1> QED BY <1>4, <1>5, <1>6, OneRecordStep DEF OperatorCompletes, Lives

-----------------------------------------------------------------------------
(* The artifact of a Stop.                                                  *)

(* E is a later disk than D: no run appears, and none changes but as it may. *)
Later(D, E) ==
    /\ DiskGood(E) /\ AllFollow(D.runs, E.runs)
    /\ \A m \in Turn : /\ E.runs[m] # NoRun => D.runs[m] # NoRun
                       /\ D.runs[m] \in RunRecord => E.runs[m] \in RunRecord

LEMMA LaterSelf == ASSUME NEW D, DiskGood(D) PROVE Later(D, D) BY FollowsSelf DEF Later, AllFollow

LEMMA LaterOn == ASSUME NEW D, NEW E, NEW F, Later(D, E), Later(E, F) PROVE Later(D, F)
  BY FollowsOn DEF Later, AllFollow

(* One record changes as it may. *)
LEMMA RecordLater ==
    ASSUME NEW D, DiskGood(D), NEW n \in Turn, D.runs[n] # NoRun, NEW q, RecordGood(q),
           Follows(D.runs[n], q), q.artifact = "stored" => D.bodies[n] = q.answer
    PROVE  Later(D, Disk([D.runs EXCEPT ![n] = q], D.bodies))
<1> DEFINE R == [D.runs EXCEPT ![n] = q]
           E == Disk(R, D.bodies)
<1>1. DiskGood(E) BY PutRecord
<1>2. D.runs \in [Turn -> RunRecord \cup {NoRun}] /\ q \in RunRecord BY DEF DiskGood, DiskType, RecordGood
<1>3. AllFollow(D.runs, R) BY <1>2, OneFollows
<1>4. R[n] = q /\ \A m \in Turn \ {n} : R[m] = D.runs[m] BY <1>2
<1>5. E.runs = R BY DiskIs
<1> HIDE DEF E, R
<1>6. Later(D, E) BY <1>1, <1>2, <1>3, <1>4, <1>5 DEF Later
<1> QED BY <1>6 DEF E, R

(* A file of a run whose record does not refer to it is written or removed. *)
LEMMA BodyLater ==
    ASSUME NEW D, DiskGood(D), NEW n \in Turn, D.runs[n] # NoRun => D.runs[n].artifact # "stored",
           NEW b \in Answer \cup {NoBody}, FilesGood([D.bodies EXCEPT ![n] = b])
    PROVE  Later(D, Disk(D.runs, [D.bodies EXCEPT ![n] = b]))
<1> DEFINE B == [D.bodies EXCEPT ![n] = b]
           E == Disk(D.runs, B)
<1>2. B \in [Turn -> Answer \cup {NoBody}] /\ \A m \in Turn \ {n} : B[m] = D.bodies[m] BY DEF DiskGood, DiskType
<1>3. E.runs = D.runs /\ E.bodies = B BY DiskIs
<1> HIDE DEF B
<1>4. E \in DiskType BY <1>2 DEF Disk, DiskType, DiskGood
<1> HIDE DEF E
<1>6. FilesGood(E.bodies) BY <1>3 DEF B
<1>7. DiskGood(E) BY <1>4, <1>2, <1>3, <1>6 DEF DiskGood, RecordsGood
<1> QED BY <1>3, <1>7, FollowsSelf DEF E, B, Later, AllFollow

(* The body of n is written: there is room for it.                          *)
LEMMA RoomForBody ==
    ASSUME BoundsAssumption, NEW D, DiskGood(D), NEW n \in Turn, NEW a \in Answer,
           Cardinality(Files(D.bodies) \ {n}) < MaxFiles
    PROVE  FilesGood([D.bodies EXCEPT ![n] = a])
<1> DEFINE B == [D.bodies EXCEPT ![n] = a]
           S == Files(D.bodies) \ {n}
<1>3. Files(B) = S \cup {n} BY DEF Files, DiskGood, DiskType, FilesGood, BoundsAssumption
<1>4. IsFiniteSet(S) /\ n \notin S BY FS_RemoveElement DEF DiskGood, DiskType, FilesGood
<1> HIDE DEF S, B
<1>5. IsFiniteSet(Files(B)) /\ Cardinality(Files(B)) = Cardinality(S) + 1 BY <1>3, <1>4, FS_AddElement
<1> QED BY <1>5, <1>4, FS_CardinalityType DEF FilesGood, B, BoundsAssumption, S

LEMMA UnreferredLater ==
    ASSUME NEW D, DiskGood(D), NEW v \in Turn, D.runs[v] # NoRun, D.runs[v].artifact = "stored"
    PROVE  LET E == Unreferred(D, v) IN
           /\ Later(D, E) /\ E.bodies = D.bodies /\ E.runs[v].artifact = "expired"
           /\ \A n \in Turn \ {v} : E.runs[n] = D.runs[n]
<1> DEFINE r == D.runs[v]
           w == r.rev + 1
           q == [r EXCEPT !.artifact = "expired", !.rev = w]
           E == Unreferred(D, v)
<1>1. D.runs \in [Turn -> RunRecord \cup {NoRun}] /\ D \in DiskType BY DEF DiskGood, DiskType
<1>3. r \in RunRecord /\ w \in Nat \ {0} BY DEF RecordGood, RunRecord, DiskGood, RecordsGood
<1>4. E = Disk([D.runs EXCEPT ![v] = q], D.bodies)
  <2> DEFINE p == [r EXCEPT !.artifact = "expired"]
             R == [D.runs EXCEPT ![v] = p]
             F == [D EXCEPT !.runs = R]
  <2>1. E = [F EXCEPT !.runs = [F.runs EXCEPT ![v] = [F.runs[v] EXCEPT !.rev = w]]] BY DEF Unreferred
  <2>2. F.runs = R /\ F = [runs |-> R, bodies |-> D.bodies] BY <1>1 DEF DiskType
  <2> HIDE DEF F
  <2>3. R[v] = p /\ q = [p EXCEPT !.rev = w] BY <1>1
  <2>4. [R EXCEPT ![v] = q] = [D.runs EXCEPT ![v] = q] BY <1>1
  <2> HIDE DEF R, p, q
  <2>5. E = [F EXCEPT !.runs = [R EXCEPT ![v] = q]] BY <2>1, <2>2, <2>3
  <2> QED BY <2>2, <2>4, <2>5 DEF Disk
<1> HIDE DEF w, E
<1>5. q \in RunRecord /\ q.refs = r.refs /\ q.answer = r.answer /\ q.artifact = "expired" BY <1>3 DEF RunRecord
<1> HIDE DEF q
<1>6. RecordGood(q) BY <1>5 DEF RecordGood, DiskGood, RecordsGood
<1> QED BY <1>1, <1>5, <1>4, <1>6, RecordLater, DiskIs DEF E, Follows

(* Eviction keeps the run that needs the file, and ends with room for it.   *)
Room(D, n) == Cardinality(Files(D.bodies) \ {n}) < MaxFiles
Evicted(D, E, n) == Later(D, E) /\ E.runs[n] = D.runs[n]

LEMMA FreedEvicts ==
    ASSUME BoundsAssumption, NEW D, DiskGood(D), NEW n \in Turn, NEW v \in Turn \ {n},
           D.runs[v].artifact # "stored", D.bodies[v] # NoBody
    PROVE  Evicted(D, Freed(D, v), n) /\ Room(Freed(D, v), n)
<1> DEFINE B == [D.bodies EXCEPT ![v] = NoBody]
           E == Freed(D, v)
           S == Files(D.bodies)
<1>1. D \in DiskType /\ D.bodies \in [Turn -> Answer \cup {NoBody}] /\ FilesGood(D.bodies) BY DEF DiskGood, DiskType
<1>2. E = Disk(D.runs, B) BY <1>1 DEF Freed, Disk, DiskType
<1>3. Files(B) = S \ {v} /\ v \in S BY <1>1 DEF Files
<1>4. IsFiniteSet(S) /\ Cardinality(S) <= MaxFiles /\ MaxFiles \in Nat BY <1>1 DEF FilesGood, BoundsAssumption
<1> HIDE DEF B, S, E
<1>7. E.runs = D.runs /\ E.bodies = B BY <1>2, DiskIs
<1>8. Cardinality(S \ {v}) = Cardinality(S) - 1 /\ IsFiniteSet(S \ {v}) BY <1>3, <1>4, FS_RemoveElement
<1>9. Cardinality((S \ {v}) \ {n}) <= Cardinality(S \ {v}) /\ IsFiniteSet((S \ {v}) \ {n}) BY <1>8, FS_Subset
<1>10. Cardinality(S) \in Nat /\ Cardinality((S \ {v}) \ {n}) \in Nat BY <1>4, <1>9, FS_CardinalityType
<1>11. Cardinality((S \ {v}) \ {n}) < MaxFiles
  <2>1. PICK a, b, c : a = Cardinality(S) /\ b = Cardinality(S \ {v}) /\ c = Cardinality((S \ {v}) \ {n}) OBVIOUS
  <2>2. a \in Nat /\ c \in Nat /\ b = a - 1 /\ c <= b /\ a <= MaxFiles /\ MaxFiles \in Nat
    BY <2>1, <1>4, <1>8, <1>9, <1>10
  <2>3. c < MaxFiles BY ONLY <2>2
  <2> QED BY <2>1, <2>3
<1>12. FilesGood(B) BY <1>1, <1>3, FewerFiles DEF S
<1>13. Later(D, E) BY <1>2, <1>12, BodyLater DEF B
<1> QED BY <1>3, <1>7, <1>11, <1>13 DEF Evicted, Room, E

LEMMA EvictionLater ==
    ASSUME BoundsAssumption, NEW D, DiskGood(D), NEW n \in Turn, NEW e \in EvictionSteps(D, n)
    PROVE  /\ \A i \in DOMAIN e : Evicted(D, e[i], n)
           /\ Evicted(D, Last(e), n) /\ Room(Last(e), n)
<1>2. CASE ~Full(D, n)
  <2>1. e = <<D>> BY <1>2 DEF EvictionSteps
  <2>3. IsFiniteSet(Files(D.bodies) \ {n}) BY FS_RemoveElement DEF DiskGood, FilesGood
  <2>4. Cardinality(Files(D.bodies) \ {n}) \in Nat /\ MaxFiles \in Nat
    BY <2>3, FS_CardinalityType DEF BoundsAssumption
  <2>5. Room(D, n) BY <1>2, <2>4 DEF Full, Stored, Room, Files
  <2> QED BY LaterSelf, <2>1, <2>5 DEF Evicted, Last
<1>3. CASE Full(D, n)
  <2>1. PICK v \in Victims(D, n) : e = <<D, Unreferred(D, v), Freed(Unreferred(D, v), v)>> BY <1>3 DEF EvictionSteps
  <2> DEFINE E == Unreferred(D, v)
             F == Freed(E, v)
  <2>2. v \in Turn \ {n} /\ D.runs[v] # NoRun /\ D.runs[v].artifact = "stored" BY DEF Victims
  <2>3. /\ Later(D, E) /\ E.bodies = D.bodies /\ E.runs[v].artifact = "expired"
        /\ E.runs[n] = D.runs[n]
    BY <2>2, UnreferredLater
  <2>5. D.bodies[v] # NoBody BY <2>2 DEF BoundsAssumption, DiskGood, RecordsGood, RecordGood
  <2> HIDE DEF E
  <2>6. Evicted(E, F, n) /\ Room(F, n) BY <2>2, <2>3, <2>5, FreedEvicts DEF Later
  <2> HIDE DEF F
  <2>9. DOMAIN e = {1, 2, 3} /\ e[1] = D /\ e[2] = E /\ e[3] = F /\ Last(e) = F BY <2>1 DEF Last, E, F
  <2> QED BY LaterSelf, <2>6, <2>3, LaterOn, <2>9 DEF Evicted
<1> QED BY <1>2, <1>3

(* The record learns of its artifact. *)
LEMMA WithArtifactLater ==
    ASSUME NEW D, DiskGood(D), NEW n \in Turn, D.runs[n] # NoRun,
           NEW a \in Answer \cup {NoAnswer}, Answered(D.runs[n], a),
           NEW st \in {"stored", "unavailable"},
           D.runs[n].artifact \in {"none", "unavailable"},
           st = "stored" => a \in Answer /\ D.bodies[n] = a
    PROVE  Later(D, WithArtifact(D, n, st, a))
<1> DEFINE r == D.runs[n]
           w == r.rev + 1
           q == [r EXCEPT !.artifact = st, !.answer = a, !.rev = w]
           E == WithArtifact(D, n, st, a)
<1>3. r \in RunRecord /\ w \in Nat \ {0} BY DEF RecordGood, RunRecord, DiskGood, RecordsGood
<1>4. E = Disk([D.runs EXCEPT ![n] = q], D.bodies)
  <2> DEFINE p == [r EXCEPT !.artifact = st]
             P == [D.runs EXCEPT ![n] = p]
             F == [D EXCEPT !.runs = P]
             o == [p EXCEPT !.answer = a]
             O == [P EXCEPT ![n] = o]
             G == [F EXCEPT !.runs = O]
  <2>1. P[n] = p /\ O[n] = o /\ [O EXCEPT ![n] = q] = [D.runs EXCEPT ![n] = q] BY DEF DiskGood, DiskType
  <2>2. q = [o EXCEPT !.rev = w] /\ O = [P EXCEPT ![n] = o] /\ o = [p EXCEPT !.answer = a] OBVIOUS
  <2> HIDE DEF P, O, p, o
  <2>4. F = [runs |-> P, bodies |-> D.bodies] BY DEF DiskType, DiskGood
  <2> HIDE DEF F
  <2>5. F = [runs |-> P, bodies |-> D.bodies] /\ G = [runs |-> O, bodies |-> D.bodies] BY <2>4
  <2> HIDE DEF G
  <2>6. F.runs = P /\ G.runs = O BY <2>5
  <2>7. E = [G EXCEPT !.runs = [G.runs EXCEPT ![n] = [G.runs[n] EXCEPT !.rev = w]]]
    <3>1. E = [[F EXCEPT !.runs = [F.runs EXCEPT ![n] = [F.runs[n] EXCEPT !.answer = a]]]
               EXCEPT !.runs = [[F EXCEPT !.runs = [F.runs EXCEPT ![n] = [F.runs[n] EXCEPT !.answer = a]]].runs
                                   EXCEPT ![n] = [[F EXCEPT !.runs = [F.runs EXCEPT ![n] = [F.runs[n] EXCEPT !.answer = a]]].runs[n]
                                                     EXCEPT !.rev = w]]]
      BY DEF WithArtifact, P, p, F
    <3> HIDE DEF E, w
    <3> QED BY <3>1, <2>1, <2>2, <2>6 DEF G
  <2> HIDE DEF w, q, E
  <2>8. E = [G EXCEPT !.runs = [O EXCEPT ![n] = q]] BY <2>1, <2>2, <2>6, <2>7
  <2> QED BY <2>5, <2>1, <2>8 DEF Disk
<1> HIDE DEF w, E
<1>5. q \in RunRecord /\ q.refs = r.refs /\ q.answer = a /\ q.artifact = st BY <1>3 DEF RunRecord
<1> HIDE DEF q
<1>6. RecordGood(q) BY <1>5 DEF RecordGood, Answered, DiskGood, RecordsGood
<1> QED BY <1>4, <1>5, <1>6, RecordLater DEF E, Follows, Answered

(* Every disk the artifact part of a Stop can leave.                        *)
LEMMA ArtifactStepsLater ==
    ASSUME BoundsAssumption, NEW D, DiskGood(D), NEW n \in Turn, D.runs[n] # NoRun,
           NEW a \in Answer \cup {NoAnswer}, NEW E \in ArtifactSteps(D, n, a)
    PROVE  Evicted(D, E, n)
<1>1. CASE E = D BY <1>1, LaterSelf DEF Evicted
<1>2. CASE E # D
  <2>2. PICK e \in EvictionSteps(D, n) :
           E \in {e[i] : i \in DOMAIN e} \cup {[Last(e) EXCEPT !.bodies[n] = a]}
    BY <1>2 DEF ArtifactSteps
  <2> DEFINE L == Last(e)
  <2>3. /\ \A i \in DOMAIN e : Evicted(D, e[i], n)
        /\ Evicted(D, L, n) /\ Room(L, n)
    BY EvictionLater
  <2>4. CASE E \in {e[i] : i \in DOMAIN e} BY <2>3, <2>4
  <2>5. CASE E = [L EXCEPT !.bodies[n] = a]
    <3> HIDE DEF L
    <3>1. DiskGood(L) /\ L.runs[n] = D.runs[n] BY <2>3 DEF Evicted, Later
    <3> DEFINE B == [L.bodies EXCEPT ![n] = a]
    <3>3. E = [L EXCEPT !.bodies = B] BY <2>5
    <3> HIDE DEF B
    <3>4. E = Disk(L.runs, B) BY <3>1, <3>3 DEF Disk, DiskGood, DiskType
    <3>7. Later(L, E) BY <1>2, <3>1, <3>4, <2>3, RoomForBody, BodyLater DEF B, Room, ArtifactSteps
    <3> QED BY <2>3, <3>1, <3>7, <3>4, DiskIs, LaterOn DEF Evicted
  <2> QED BY <2>2, <2>4, <2>5
<1> QED BY <1>1, <1>2

LEMMA WithArtifactEvicted ==
    ASSUME NEW D, NEW n \in Turn, D.runs[n] # NoRun, NEW E, Evicted(D, E, n),
           NEW a \in Answer \cup {NoAnswer}, Answered(D.runs[n], a),
           NEW st \in {"stored", "unavailable"},
           D.runs[n].artifact \in {"none", "unavailable"},
           st = "stored" => a \in Answer /\ E.bodies[n] = a
    PROVE  Later(D, WithArtifact(E, n, st, a))
  BY WithArtifactLater, LaterOn DEF Evicted, Later

LEMMA ArtifactDoneLater ==
    ASSUME BoundsAssumption, NEW D, DiskGood(D), NEW n \in Turn, D.runs[n] # NoRun,
           NEW a \in Answer \cup {NoAnswer}, Answered(D.runs[n], a), NEW E \in ArtifactDone(D, n, a)
    PROVE  Later(D, E)
<1>1. CASE E = D BY <1>1, LaterSelf
<1>2. CASE E # D
  <2>1. D.runs[n].artifact \notin {"stored", "expired"} BY <1>2 DEF ArtifactDone
  <2>2. D.runs[n].artifact \in {"none", "unavailable"} BY <2>1 DEF DiskGood, DiskType, RunRecord
  <2>4. CASE a = NoAnswer BY <1>2, <2>1, <2>4, <2>2, LaterSelf, WithArtifactEvicted DEF ArtifactDone, Evicted
  <2>5. CASE a # NoAnswer /\ EvictionSteps(D, n) = {}
    BY <2>1, <2>5, <2>2, LaterSelf, WithArtifactEvicted DEF ArtifactDone, Evicted
  <2>6. CASE a # NoAnswer /\ EvictionSteps(D, n) # {}
    <3>1. PICK e \in EvictionSteps(D, n) :
             E = WithArtifact([Last(e) EXCEPT !.bodies[n] = a], n, "stored", a)
      BY <2>1, <2>6 DEF ArtifactDone
    <3> DEFINE F == [Last(e) EXCEPT !.bodies[n] = a]
    <3>2. F \in ArtifactSteps(D, n, a) BY <2>1, <2>6 DEF ArtifactSteps
    <3>3. F.bodies[n] = a
      <4> DEFINE L == Last(e)
      <4> HIDE DEF L
      <4> QED BY EvictionLater DEF L, DiskType, Evicted, Later, DiskGood
    <3> HIDE DEF F
    <3> QED BY <3>1, <2>2, <2>6, <3>3, <3>2, ArtifactStepsLater, WithArtifactEvicted DEF F
  <2> QED BY <2>4, <2>5, <2>6
<1> QED BY <1>1, <1>2

LEMMA ArtifactFailedLater ==
    ASSUME BoundsAssumption, NEW D, DiskGood(D), NEW n \in Turn, D.runs[n] # NoRun,
           NEW a \in Answer \cup {NoAnswer}, Answered(D.runs[n], a), NEW E \in ArtifactFailed(D, n, a)
    PROVE  Later(D, E)
  BY ArtifactStepsLater, WithArtifactEvicted DEF Evicted, ArtifactFailed

LEMMA StopStep ==
    ASSUME BoundsAssumption, TypeOK, EvidenceInv, NEW h \in Hook, Stop(h)
    PROVE  Sound
<1> DEFINE n == h.turn
           r == runs[n]
           a == h.answer
<1>1. n \in Turn /\ r # NoRun /\ a \in Answer \cup {NoAnswer} /\ h.what = "Stop" BY HookTypes DEF Stop
<1> DEFINE D(s) == Disk([runs EXCEPT ![n] = StopRecord(r, h, s)], bodies)
<1>3. PICK s \in Stamps(r) :
         /\ StopAcceptable(r, h, s)
         /\ \/ /\ \E E \in ArtifactDone(D(s), n, a) : OnDisk(E)
               /\ UNCHANGED <<daemon, known, current>>
            \/ /\ \E E \in ArtifactFailed(D(s), n, a) : OnDisk(E)
               /\ UNCHANGED <<daemon, known, current>>
            \/ \E E \in ArtifactSteps(D(s), n, a) : DieWith(E)
  BY DEF Stop, Lives, Fault
<1>5. PICK p : p = StopRecord(r, h, s) OBVIOUS
<1>6. RecordGood(p) /\ Follows(r, p) /\ SameArtifact(r, p) /\ Answered(p, a)
  BY <1>1, RunGood, <1>3, StampsAreTimes, <1>5, StopRecordGood
<1>7. p.artifact = "stored" => bodies[n] = p.answer BY <1>1, RunGood, <1>6 DEF SameArtifact
<1> DEFINE C == Disk([runs EXCEPT ![n] = p], bodies)
<1>8. D(s) = C BY <1>5
<1> HIDE DEF n, a, D
<1>9. /\ DiskGood(C) /\ AllFollow(runs, C.runs) /\ C.runs[n] = p
      /\ \A m \in Turn : C.runs[m] # NoRun => runs[m] # NoRun
      /\ current # NoTurn /\ current \in Turn => C.runs[current] \in RunRecord
  BY <1>1, <1>6, <1>7, OneRecord, Zenon
<1> HIDE DEF C
<1>10. C.runs[n] # NoRun /\ Answered(C.runs[n], a) BY <1>6, <1>9, RecordsAssumption DEF RecordGood
<1>12. ASSUME NEW E, Later(C, E)
       PROVE  /\ DiskGood(E) /\ AllFollow(runs, E.runs)
              /\ \A m \in Turn : E.runs[m] # NoRun => runs[m] # NoRun
              /\ current # NoTurn => E.runs[current] \in RunRecord
  BY <1>12, <1>9, FollowsOn DEF Later, AllFollow, TypeOK
<1>13. CASE \E E \in ArtifactDone(C, n, a) \cup ArtifactFailed(C, n, a) :
               OnDisk(E) /\ UNCHANGED <<daemon, known, current>>
  BY <1>13, <1>1, <1>9, <1>10, ArtifactDoneLater, ArtifactFailedLater, <1>12, Lived
<1>14. CASE \E E \in ArtifactSteps(C, n, a) : DieWith(E)
  BY <1>14, <1>1, <1>9, <1>10, ArtifactStepsLater, <1>12, Died DEF Evicted
<1> QED BY <1>3, <1>8, <1>13, <1>14 DEF n, a

-----------------------------------------------------------------------------
(* The other steps.                                                         *)

LEMMA CapacityStep ==
    ASSUME TypeOK, EvidenceInv, CapacityFailure
    PROVE  Sound
<1> DEFINE n == current
           r == runs[n]
<1>1. n \in Turn /\ r # NoRun /\ n # NoTurn BY DEF CapacityFailure, TypeOK
<1>3. PICK s \in Stamps(r) :
        \/ /\ Saves(r, Failed(r, s)) /\ runs' = [runs EXCEPT ![n] = Failed(r, s)]
           /\ UNCHANGED bodies
           /\ \/ UNCHANGED <<daemon, known, current>>
              \/ DieWith(Disk(runs', bodies))
        \/ UNCHANGED <<runs, bodies, daemon, known, current>>
  BY DEF CapacityFailure, Lives, Fault, disk
<1>5. PICK q : q = Failed(r, s) OBVIOUS
<1> DEFINE D == Disk([runs EXCEPT ![n] = q], bodies)
<1>6. CASE Saves(r, q) /\ runs' = [runs EXCEPT ![n] = q] /\ UNCHANGED bodies
  <2>1. RecordGood(q) /\ Follows(r, q) /\ SameArtifact(r, q)
    BY <1>1, RunGood, StampsAreTimes, <1>5, <1>6, FailedGood
  <2>2. q.artifact = "stored" => bodies[n] = q.answer BY <1>1, RunGood, <2>1 DEF SameArtifact
  <2> HIDE DEF n
  <2>3. /\ DiskGood(D) /\ AllFollow(runs, D.runs) /\ D.runs[n] = q
        /\ \A m \in Turn : D.runs[m] # NoRun => runs[m] # NoRun
        /\ current # NoTurn /\ current \in Turn => D.runs[current] \in RunRecord
    BY <1>1, <2>1, <2>2, OneRecord, Zenon
  <2>4. D = Disk(runs', bodies) /\ OnDisk(D) BY <1>6, DiskIs DEF OnDisk
  <2> HIDE DEF D
  <2>6. CASE UNCHANGED <<daemon, known, current>> BY <2>3, <2>4, <2>6, Lived DEF TypeOK
  <2>7. CASE DieWith(Disk(runs', bodies)) BY <2>4, <2>7, <2>3, Died
  <2> QED BY <2>6, <2>7, <1>3
<1>7. CASE UNCHANGED <<runs, bodies, daemon, known, current>>
  BY <1>7, FollowsSelf DEF Sound, EvidenceInv, AllFollow, KnowsAll, CurrentKept, Disk, DiskGood, DiskType,
    RecordsGood, FilesGood, Files, RecordGood
<1> QED BY <1>3, <1>5, <1>6, <1>7

LEMMA QuietStep ==
    ASSUME EvidenceInv, UNCHANGED <<runs, bodies, daemon, known, current>> PROVE Sound
  BY FollowsSelf DEF Sound, EvidenceInv, AllFollow, KnowsAll, CurrentKept, Disk, DiskGood, DiskType, RecordsGood,
    FilesGood, Files, RecordGood

LEMMA CrashStep == ASSUME EvidenceInv, Crash PROVE Sound
<1> DEFINE D == Disk(runs, bodies)
<1> HIDE DEF D
<1> QED BY DiskIs, FollowsSelf, Died DEF AllFollow, EvidenceInv, Crash

LEMMA RestartStep ==
    ASSUME BoundsAssumption, EvidenceInv, Restart
    PROVE  Sound
<1> DEFINE B == [n \in Turn |-> IF runs[n] # NoRun /\ runs[n].artifact = "stored"
                                THEN bodies[n] ELSE NoBody]
           D == Disk(runs, bodies)
           E == Disk(runs, B)
<1>2. /\ runs' = runs /\ bodies' = B /\ known' = {n \in Turn : runs[n] # NoRun}
      /\ current' = NoTurn \/ current' \in known'
  BY DEF Restart
<1>3. runs \in [Turn -> RunRecord \cup {NoRun}] /\ bodies \in [Turn -> Answer \cup {NoBody}]
      /\ FilesGood(bodies)
  BY DiskIs DEF DiskGood, DiskType, EvidenceInv
<1>4. \A n \in Turn : runs[n] # NoRun =>
         /\ RecordGood(runs[n])
         /\ runs[n].artifact = "stored" => bodies[n] = runs[n].answer /\ B[n] = bodies[n]
  BY DiskIs DEF DiskGood, RecordsGood, EvidenceInv
<1>5. B \in [Turn -> Answer \cup {NoBody}] /\ Files(B) \subseteq Files(bodies) BY <1>3 DEF Files
<1>6. E.runs = runs /\ E.bodies = B BY DiskIs
<1> HIDE DEF B, D
<1>7. FilesGood(B) BY <1>3, <1>5, FewerFiles
<1>8. E \in DiskType BY <1>3, <1>5 DEF Disk, DiskType
<1> HIDE DEF E
<1>10. DiskGood(E) BY <1>4, <1>6, <1>7, <1>8 DEF DiskGood, RecordsGood
<1>12. KnowsAll' /\ CurrentKept' BY <1>2, <1>3 DEF KnowsAll, CurrentKept
<1>13. AllFollow(runs, runs') BY <1>2, FollowsSelf DEF AllFollow
<1> QED BY <1>2, <1>6, <1>10, Landed, <1>12, <1>13 DEF Sound, EvidenceInv, OnDisk

LEMMA SoundStep ==
    ASSUME TypeOK, EvidenceInv, [Next]_vars
    PROVE  Sound
<1> USE BoundsAssumption
<1>1. ASSUME NEW h \in Hook, NewRun(h) PROVE Sound BY <1>1, NewRunStep
<1>2. ASSUME NEW h \in Hook, SameTurnPrompt(h) PROVE Sound BY <1>2, PromptStep
<1>3. ASSUME NEW h \in Hook, Stop(h) PROVE Sound BY <1>3, StopStep
<1>4. ASSUME NEW h \in Hook, StopRefused(h) PROVE Sound BY <1>4, QuietStep DEF StopRefused, Lives, disk
<1>5. ASSUME CapacityFailure PROVE Sound BY <1>5, CapacityStep
<1>6. ASSUME NEW n \in Turn, OperatorCompletes(n) PROVE Sound BY <1>6, OperatorStep
<1>7. ASSUME Crash PROVE Sound BY <1>7, CrashStep
<1>8. ASSUME Restart PROVE Sound BY <1>8, RestartStep
<1>9. ASSUME UNCHANGED vars PROVE Sound BY <1>9, QuietStep DEF vars, disk
<1> QED BY <1>1, <1>2, <1>3, <1>4, <1>5, <1>6, <1>7, <1>8, <1>9 DEF Next

-----------------------------------------------------------------------------
(* Types.                                                                   *)

MemoryTypes ==
    /\ known \subseteq Turn /\ current \in Turn \cup {NoTurn}
    /\ paneError \in BOOLEAN /\ daemon \in {"up", "down"}
    /\ refused \subseteq {"Prompt", "Stop", "Capacity"}
    /\ crashes \in Nat /\ faults \in Nat

LEMMA TypesFollow == ASSUME EvidenceInv, MemoryTypes PROVE TypeOK
  BY DiskIs, RunGood DEF EvidenceInv, DiskGood, DiskType, RecordGood, MemoryTypes, TypeOK

LEMMA MemoryStep == ASSUME TypeOK, [Next]_vars PROVE MemoryTypes'
<1>1. MemoryTypes BY DEF TypeOK, MemoryTypes
<1>2. ASSUME NEW D, DieWith(D) PROVE
        /\ known' = {} /\ current' = NoTurn /\ daemon' = "down" /\ UNCHANGED <<paneError, faults>>
        /\ crashes' \in Nat
  BY <1>1, <1>2 DEF DieWith, MemoryTypes
<1>3. ASSUME Lives PROVE daemon' \in {"up", "down"} /\ crashes' \in Nat /\ faults' \in Nat
  BY <1>1, <1>3 DEF Lives, MemoryTypes
<1>4. ASSUME Fault PROVE daemon' \in {"up", "down"} /\ crashes' \in Nat /\ faults' \in Nat
  BY <1>1, <1>4 DEF Fault, MemoryTypes
<1>5. ASSUME NEW h \in Hook, NewRun(h) PROVE MemoryTypes'
  BY HookTypes, <1>5, <1>1, <1>2, <1>3, <1>4 DEF NewRun, MemoryTypes
<1>6. ASSUME NEW h \in Hook, SameTurnPrompt(h) PROVE MemoryTypes'
  BY <1>6, <1>1, <1>3 DEF SameTurnPrompt, MemoryTypes
<1>7. ASSUME NEW h \in Hook, Stop(h) PROVE MemoryTypes' BY <1>7, <1>1, <1>2, <1>3, <1>4 DEF Stop, MemoryTypes
<1>8. ASSUME NEW h \in Hook, StopRefused(h) PROVE MemoryTypes' BY <1>8, <1>1, <1>3 DEF StopRefused, MemoryTypes
<1>9. ASSUME CapacityFailure PROVE MemoryTypes' BY <1>9, <1>1, <1>2, <1>3, <1>4 DEF CapacityFailure, MemoryTypes
<1>10. ASSUME NEW n \in Turn, OperatorCompletes(n) PROVE MemoryTypes'
  BY <1>10, <1>1, <1>3 DEF OperatorCompletes, MemoryTypes
<1>11. ASSUME Crash PROVE MemoryTypes' BY <1>1, <1>2, <1>11 DEF Crash, MemoryTypes
<1>12. ASSUME Restart PROVE MemoryTypes' BY <1>12, <1>1 DEF Restart, MemoryTypes
<1>13. ASSUME UNCHANGED vars PROVE MemoryTypes' BY <1>1, <1>13 DEF vars, disk, MemoryTypes
<1> QED BY <1>5, <1>6, <1>7, <1>8, <1>9, <1>10, <1>11, <1>12, <1>13 DEF Next

-----------------------------------------------------------------------------
(* Theorems.                                                                *)

LEMMA EvidenceInit == ASSUME Init PROVE EvidenceInv /\ MemoryTypes
<1> DEFINE D == Disk(runs, bodies)
<1>1. D.runs = runs /\ D.bodies = bodies BY DiskIs
<1>2. D \in DiskType BY DEF Init, Disk, DiskType
<1> HIDE DEF D
<1>5. DiskGood(D)
  BY <1>1, <1>2, FS_EmptySet, BoundsAssumption DEF Init, DiskGood, RecordsGood, FilesGood, BoundsAssumption, Files
<1> QED BY <1>5 DEF Init, EvidenceInv, KnowsAll, CurrentKept, MemoryTypes, D

(* The inductive invariant: at every point between two writes every record  *)
(* is of its type, has seen the Stop its artifact is of, and has its body;  *)
(* a serving daemon knows every run on disk.                                *)
THEOREM EvidenceInvariant == Spec => [](TypeOK /\ EvidenceInv)
<1>1. Init => EvidenceInv /\ MemoryTypes BY EvidenceInit
<1>2. EvidenceInv /\ MemoryTypes => TypeOK BY TypesFollow
<1>3. EvidenceInv /\ MemoryTypes /\ [Next]_vars => (EvidenceInv /\ MemoryTypes)'
  BY <1>2, SoundStep, MemoryStep DEF Sound
<1> QED BY <1>1, <1>2, <1>3, PTL DEF Spec

(* A record that says its response is stored has that very body on disk, so *)
(* the store opens again after any crash and any failed write.              *)
THEOREM StoredMeansStored == Spec => []BodiesMatch
<1>1. EvidenceInv => BodiesMatch BY DiskIs DEF EvidenceInv, DiskGood, RecordsGood, BodiesMatch
<1> QED BY <1>1, EvidenceInvariant, PTL

(* The artifact files never exceed the limit.                               *)
THEOREM FilesStayBounded == Spec => []FilesBounded
<1>1. EvidenceInv => FilesBounded
  <2> SUFFICES ASSUME EvidenceInv PROVE FilesBounded OBVIOUS
  <2>2. FilesGood(bodies) BY DiskIs DEF EvidenceInv, DiskGood
  <2> QED BY <2>2 DEF FilesGood, Files, FilesBounded
<1> QED BY <1>1, EvidenceInvariant, PTL

(* The answer of a completed turn is final.                                 *)
THEOREM AnswersAreFinal == Spec => AnswerFinal
<1> DEFINE Final ==
        \A n \in Turn : runs[n] # NoRun /\ runs'[n] # NoRun /\ runs[n].artifact # "none" =>
          /\ runs'[n].answer = runs[n].answer
          /\ runs[n].artifact = "stored" => runs'[n].artifact \in {"stored", "expired"}
          /\ runs[n].artifact = "expired" => runs'[n].artifact = "expired"
<1>1. TypeOK /\ EvidenceInv /\ [Next]_vars => [Final]_vars BY SoundStep DEF Sound, AllFollow, Follows
<1> QED BY <1>1, EvidenceInvariant, PTL DEF Spec, AnswerFinal

-----------------------------------------------------------------------------
(* The store as files: the lock keeps the daemon and the resets apart, so   *)
(* nothing is written while a reset is under way, and a reset clears only   *)
(* what was found to be at rest.                                            *)

ResetRecord ==
    [at : {"idle", "lock", "scan", "mark", "recover", "clear", "ready", "done", "refused"},
     mode : {"none", "bound", "recover"}, expect : Nat, target : Nat]
StoreType ==
    /\ meta \in [st : {"none", "ready", "resetting"}, gen : Nat, target : Nat]
    /\ files \in [Record -> [gen : Nat, active : BOOLEAN]]
    /\ opener \in [at : {"off", "first_meta", "open"}, gen : Nat]
    /\ resetter \in [ResetCmd -> ResetRecord]
    /\ instance \in ResetCmd \cup {"nobody", "daemon"}
    /\ maxGen \in Nat /\ storeOps \in Nat

(* Whoever works on the files holds the instance lock.                      *)
UnderLock(c) == resetter[c].at \in {"scan", "mark", "recover", "clear", "ready"}
LockHeld ==
    /\ opener.at # "off" <=> instance = "daemon"
    /\ \A c \in ResetCmd : UnderLock(c) <=> instance = c

(* Before the first metadata there is no record.                            *)
FreshIsEmpty ==
    /\ meta.st = "none" => Present = {}
    /\ ~rootDir \/ opener.at = "first_meta" => meta.st = "none"
    /\ opener.at = "first_meta" => rootDir

(* A reset that clears has made the store unusable, or found it so, and     *)
(* nothing in it is active; what it completes is empty.                     *)
ClearsAtRest ==
    /\ meta.st = "resetting" => ensure_reset_quiescent
    /\ \A c \in ResetCmd : resetter[c].at \in {"clear", "ready"} => meta.st # "ready" /\ rootDir
    /\ \A c \in ResetCmd : resetter[c].at = "ready" => Present = {}

StoreInv == StoreType /\ LockHeld /\ FreshIsEmpty /\ ClearsAtRest /\ StoreResetSound

LEMMA StoreInitInv == ASSUME StoreInit PROVE StoreInv
<1>1. Present = {} BY DEF StoreInit, Present, NoFile
<1> QED
  BY <1>1, StoreResetAssumption DEF StoreInit, StoreResetAssumption, StoreInv, StoreType, ResetRecord, LockHeld,
    UnderLock, FreshIsEmpty, ClearsAtRest, StoreResetSound, OneGeneration, DaemonOwnsStore, NothingActiveLost,
    NoMeta, NoFile, NoReset, NoHolder, ensure_reset_quiescent

LEMMA OpenKeeps == ASSUME StoreInv, open_or_initialize PROVE StoreInv'
<1>1. UNCHANGED <<meta, files, resetter, codexLive, maxGen, lost>> /\ Present' = Present
  BY DEF open_or_initialize, Present
<1>3. LockHeld'
  BY <1>1, StoreResetAssumption DEF StoreResetAssumption, StoreInv, StoreType, ResetRecord, LockHeld, UnderLock,
    open_or_initialize, Daemon, NoHolder
<1>5. ClearsAtRest' /\ StoreResetSound'
  BY <1>1 DEF StoreInv, StoreType, ResetRecord, ClearsAtRest, ensure_reset_quiescent, StoreResetSound,
    OneGeneration, DaemonOwnsStore, NothingActiveLost, open_or_initialize
<1> QED BY <1>1, <1>3, <1>5 DEF StoreInv, StoreType, ResetRecord, open_or_initialize, OpSpend, Daemon, FreshIsEmpty

LEMMA FirstMetaKeeps == ASSUME StoreInv, FirstMeta PROVE StoreInv'
<1>1. /\ UNCHANGED <<rootDir, files, instance, resetter, codexLive, storeOps, lost>>
      /\ Present' = Present /\ Present = {} /\ rootDir
  BY DEF FirstMeta, Present, StoreInv, StoreType, ResetRecord, FreshIsEmpty
<1>4. FreshIsEmpty' /\ ClearsAtRest' /\ StoreResetSound'
  BY <1>1, StoreResetAssumption DEF StoreResetAssumption, StoreInv, StoreType, ResetRecord, LockHeld, UnderLock,
    FreshIsEmpty, ClearsAtRest, FirstMeta, StoreResetSound, OneGeneration, DaemonOwnsStore, NothingActiveLost,
    ensure_reset_quiescent
<1> QED BY <1>1, <1>4 DEF StoreInv, StoreType, ResetRecord, FirstMeta, FreshGen, LockHeld, UnderLock

LEMMA SaveRecordKeeps == ASSUME StoreInv, NEW r \in Record, SaveRecord(r) PROVE StoreInv'
<1>1. UNCHANGED <<rootDir, meta, instance, opener, resetter, codexLive, maxGen, lost>> BY DEF SaveRecord
<1>2. meta.st = "ready" /\ meta.gen = opener.gen /\ instance = "daemon"
  BY DEF SaveRecord, StoreInv, StoreResetSound, DaemonOwnsStore, LockHeld
<1>3. PICK a \in BOOLEAN : files' = [files EXCEPT ![r] = [gen |-> opener.gen, active |-> a]] BY DEF SaveRecord
<1>6. ClearsAtRest'
  BY <1>1, <1>2, StoreResetAssumption DEF StoreResetAssumption, StoreInv, LockHeld, UnderLock, ClearsAtRest
<1>7. StoreResetSound'
  BY <1>1, <1>2, <1>3 DEF StoreInv, StoreType, ResetRecord, StoreResetSound, OneGeneration, DaemonOwnsStore,
    NothingActiveLost, Present
<1> QED
  BY <1>1, <1>3, <1>2, <1>6, <1>7 DEF StoreInv, StoreType, ResetRecord, SaveRecord, OpSpend, LockHeld, UnderLock,
    FreshIsEmpty

LEMMA StopDaemonKeeps == ASSUME StoreInv, StopDaemon PROVE StoreInv'
<1>4. FreshIsEmpty' /\ ClearsAtRest' /\ StoreResetSound'
  BY DEF StoreInv, StoreType, ResetRecord, FreshIsEmpty, ClearsAtRest, ensure_reset_quiescent, StoreResetSound,
    OneGeneration, DaemonOwnsStore, NothingActiveLost, StopDaemon, Present
<1> QED
  BY StoreResetAssumption, <1>4 DEF StoreInv, StoreType, ResetRecord, StopDaemon, OpSpend, NoHolder,
    StoreResetAssumption, LockHeld, UnderLock, Present

LEMMA CodexMovesKeeps == ASSUME StoreInv, CodexMoves PROVE StoreInv'
<1>1. UNCHANGED <<rootDir, meta, files, instance, opener, resetter, maxGen, lost>> /\ Present' = Present
  BY DEF CodexMoves, Present
<1> QED
  BY <1>1 DEF StoreInv, StoreType, ResetRecord, LockHeld, UnderLock, FreshIsEmpty, ClearsAtRest,
    ensure_reset_quiescent, StoreResetSound, OneGeneration, DaemonOwnsStore, NothingActiveLost, CodexMoves, OpSpend

(* A command that goes on keeps its shape.                                  *)
LEMMA GotoShape ==
    ASSUME resetter \in [ResetCmd -> ResetRecord], NEW c \in ResetCmd,
           NEW at \in {"idle", "lock", "scan", "mark", "recover", "clear", "ready", "done", "refused"},
           resetter' = [resetter EXCEPT ![c].at = at]
    PROVE  resetter' \in [ResetCmd -> ResetRecord]
  BY DEF ResetRecord

(* A command that goes on to clear the directory keeps its shape.           *)
LEMMA ClearShape ==
    ASSUME resetter \in [ResetCmd -> ResetRecord], NEW c \in ResetCmd, NEW n \in Nat,
           resetter' = [resetter EXCEPT ![c].at = "clear", ![c].target = n]
    PROVE  resetter' \in [ResetCmd -> ResetRecord]
  BY DEF ResetRecord

(* A reset that only moves on, without touching the files or the metadata:  *)
(* what is left to show is the lock and what it is about to do.             *)
LEMMA ResetOnly ==
  ASSUME StoreInv, NEW c \in ResetCmd, UNCHANGED <<meta, files, opener, lost>>, StoreType',
         \A d \in ResetCmd \ {c} : resetter'[d] = resetter[d],
         rootDir' = rootDir \/ (rootDir' /\ opener.at # "first_meta"),
         (opener.at # "off" <=> instance' = "daemon") /\ (UnderLock(c)' <=> instance' = c),
         \A d \in ResetCmd \ {c} : instance' = d <=> instance = d,
         resetter'[c].at \in {"clear", "ready"} => meta.st # "ready" /\ rootDir',
         resetter'[c].at = "ready" => Present = {}
  PROVE StoreInv'
  BY DEF Present, StoreInv, LockHeld, UnderLock, FreshIsEmpty, StoreType, ResetRecord, ClearsAtRest,
    ensure_reset_quiescent, StoreResetSound, OneGeneration, DaemonOwnsStore, NothingActiveLost

LEMMA ResetEndsTo ==
  ASSUME StoreInv, NEW c \in ResetCmd, NEW how \in {"idle", "refused", "done"}, ResetEnds(c, how)
  PROVE /\ resetter'[c] = [at |-> how, mode |-> "none", expect |-> 0, target |-> 0]
        /\ \A d \in ResetCmd \ {c} : resetter'[d] = resetter[d]
        /\ resetter' \in [ResetCmd -> ResetRecord]
        /\ instance' \in ResetCmd \cup {"nobody", "daemon"}
        /\ instance' # c /\ (instance' = "daemon" <=> instance = "daemon")
        /\ \A d \in ResetCmd \ {c} : instance' = d <=> instance = d
  BY StoreResetAssumption DEF StoreResetAssumption, StoreInv, StoreType, ResetRecord, ResetEnds, NoReset, NoHolder

(* A reset that ends, refused or interrupted.                               *)
LEMMA ResetStops ==
  ASSUME StoreInv, NEW c \in ResetCmd, NEW how \in {"idle", "refused"}, ResetEnds(c, how),
         UNCHANGED <<meta, files, opener, lost, codexLive, maxGen>>, storeOps' \in Nat,
         rootDir' = rootDir \/ (rootDir' /\ opener.at # "first_meta")
  PROVE StoreInv'
  BY ResetEndsTo, ResetOnly DEF StoreInv, StoreType, ResetRecord, LockHeld, UnderLock

LEMMA RunResetKeeps == ASSUME StoreInv, NEW c \in ResetCmd, RunReset(c) PROVE StoreInv'
  BY ResetOnly DEF RunReset, StoreInv, StoreType, ResetRecord, OpSpend, LockHeld, UnderLock, ResetAt

LEMMA AcquireKeeps == ASSUME StoreInv, NEW c \in ResetCmd, try_acquire_daemon_instance_lock(c) PROVE StoreInv'
  BY ResetStops, GotoShape, StoreResetAssumption, ResetOnly DEF try_acquire_daemon_instance_lock, ResetAt, StoreInv,
    StoreType, ResetRecord, ResetGoto, StoreResetAssumption, LockHeld, NoHolder, UnderLock

LEMMA ScanKeeps == ASSUME StoreInv, NEW c \in ResetCmd, ScanPanes(c) PROVE StoreInv'
  BY ResetStops, GotoShape, ResetOnly DEF ScanPanes, ResetAt, StoreInv, StoreType, ResetRecord, ResetGoto, LockHeld,
    UnderLock

(* The marker: the store was at rest, or an earlier reset found it so.      *)
LEMMA MarkKeeps == ASSUME StoreInv, NEW c \in ResetCmd, reset_offline(c) PROVE StoreInv'
<1>1. UNCHANGED <<rootDir, files, opener, codexLive, storeOps, lost>> /\ resetter[c].at = "mark"
  BY DEF reset_offline, ResetAt
<1>3. instance = c /\ opener.at = "off"
  BY <1>1, StoreResetAssumption DEF StoreResetAssumption, StoreInv, LockHeld, UnderLock
<1>4. CASE /\ meta.st = "ready" /\ ensure_reset_quiescent /\ FreshGen
           /\ meta' = [meta EXCEPT !.st = "resetting", !.target = maxGen + 1]
           /\ resetter' = [resetter EXCEPT ![c].at = "clear", ![c].target = maxGen + 1] /\ UNCHANGED instance
  <2>1. meta'.st = "resetting" /\ maxGen + 1 \in Nat /\ maxGen' \in Nat
    BY <1>4 DEF StoreInv, StoreType, ResetRecord, FreshGen
  <2>2. resetter'[c].at = "clear" /\ \A d \in ResetCmd \ {c} : resetter'[d] = resetter[d]
    BY <1>4 DEF StoreInv, StoreType, ResetRecord
  <2>5. FreshIsEmpty' /\ ClearsAtRest'
    BY <1>1, <1>3, <1>4, <2>1, <2>2 DEF StoreInv, FreshIsEmpty, ClearsAtRest, Present, ensure_reset_quiescent
  <2>6. StoreResetSound'
    BY <1>1, <1>3, <2>1 DEF StoreInv, StoreResetSound, OneGeneration, DaemonOwnsStore, NothingActiveLost
  <2> QED
    BY <1>4, <2>1, ClearShape, <1>1, <1>3, <2>2, <2>5, <2>6 DEF StoreInv, StoreType, ResetRecord, LockHeld,
      UnderLock
<1>5. CASE /\ meta.st = "resetting" /\ UNCHANGED <<meta, maxGen, instance>>
           /\ resetter' = [resetter EXCEPT ![c].at = "clear", ![c].target = meta.target]
  <2>1. resetter'[c].at = "clear" /\ \A d \in ResetCmd \ {c} : resetter'[d] = resetter[d]
    BY <1>5 DEF StoreInv, StoreType, ResetRecord
  <2>4. rootDir BY <1>5 DEF StoreInv, FreshIsEmpty
  <2> QED
    BY <1>1, <1>5, <2>1, ClearShape, <1>3, StoreResetAssumption, <2>4, ResetOnly DEF StoreInv, StoreType,
      StoreResetAssumption, UnderLock
<1>6. CASE ResetEnds(c, "refused") /\ UNCHANGED <<meta, maxGen>>
  BY <1>1, <1>6, ResetStops DEF StoreInv, StoreType, ResetRecord
<1> QED BY <1>4, <1>5, <1>6 DEF reset_offline

LEMMA RecoverKeeps == ASSUME StoreInv, NEW c \in ResetCmd, recover_uninitialized_offline(c) PROVE StoreInv'
<1>1. UNCHANGED <<meta, files, opener, codexLive, storeOps, lost>> /\ resetter[c].at = "recover" /\ rootDir'
  BY DEF recover_uninitialized_offline, ResetAt
<1>2. instance = c /\ opener.at = "off" /\ c # "daemon"
  BY <1>1, StoreResetAssumption DEF StoreResetAssumption, StoreInv, LockHeld, UnderLock
<1>4. CASE ResetEnds(c, "refused") /\ UNCHANGED maxGen
  BY <1>1, <1>2, <1>4, ResetStops DEF StoreInv, StoreType, ResetRecord
<1>5. CASE /\ meta.st = "none" /\ FreshGen /\ UNCHANGED instance
           /\ resetter' = [resetter EXCEPT ![c].at = "clear", ![c].target = maxGen + 1]
  <2>1. maxGen + 1 \in Nat /\ maxGen' \in Nat BY <1>5 DEF StoreInv, StoreType, ResetRecord, FreshGen
  <2> QED BY <1>1, <1>2, <1>5, <2>1, ClearShape, ResetOnly DEF UnderLock, StoreInv, StoreType, ResetRecord
<1> QED BY <1>4, <1>5 DEF recover_uninitialized_offline

(* Clearing: what is removed is not active, and nobody opens the store.     *)
LEMMA ClearKeeps == ASSUME StoreInv, NEW c \in ResetCmd, clear_directory_and_sync(c) PROVE StoreInv'
<1>1. UNCHANGED <<rootDir, meta, instance, opener, codexLive, maxGen, storeOps>> /\ resetter[c].at = "clear"
  BY DEF clear_directory_and_sync, ResetAt
<1>2. instance = c /\ opener.at = "off" /\ c # "daemon" /\ meta.st # "ready" /\ rootDir
  BY <1>1, StoreResetAssumption DEF StoreResetAssumption, StoreInv, LockHeld, UnderLock, ClearsAtRest
<1>3. CASE Present = {}
  BY <1>3, GotoShape, <1>1, <1>2, ResetOnly DEF clear_directory_and_sync, ResetGoto, StoreInv, StoreType,
    ResetRecord, UnderLock
<1>4. CASE Present # {}
  <2>1. PICK r \in Present : files' = [files EXCEPT ![r] = NoFile] /\ lost' = (lost \/ files[r].active)
    BY <1>4 DEF clear_directory_and_sync
  <2>2. UNCHANGED resetter /\ r \in Record BY <1>4 DEF clear_directory_and_sync, Present
  <2>3. meta.st = "resetting" /\ ~files[r].active
    BY <1>2, <1>4 DEF StoreInv, StoreType, ResetRecord, FreshIsEmpty, ClearsAtRest, ensure_reset_quiescent
  <2>5. Present' \subseteq Present /\ \A s \in Present' : files'[s] = files[s]
    BY <2>1, <2>2 DEF StoreInv, StoreType, ResetRecord, Present, NoFile
  <2>7. FreshIsEmpty' BY <1>1, <2>5 DEF StoreInv, FreshIsEmpty
  <2>8. ClearsAtRest' BY <1>1, <2>2, <2>5 DEF StoreInv, ClearsAtRest, ensure_reset_quiescent
  <2>9. StoreResetSound'
    BY <1>1, <1>2, <2>1, <2>3 DEF StoreInv, StoreType, ResetRecord, StoreResetSound, OneGeneration, DaemonOwnsStore,
      NothingActiveLost
  <2> QED
    BY <1>1, <2>1, <2>2, <2>3, <2>7, <2>8, <2>9 DEF StoreInv, StoreType, ResetRecord, NoFile, LockHeld, UnderLock
<1> QED BY <1>3, <1>4

LEMMA WriteReadyKeeps == ASSUME StoreInv, NEW c \in ResetCmd, WriteReady(c) PROVE StoreInv'
<1>1. UNCHANGED <<rootDir, files, opener, codexLive, maxGen, storeOps, lost>> /\ resetter[c].at = "ready"
  BY DEF WriteReady, ResetAt
<1>2. instance = c /\ opener.at = "off" /\ Present = {} /\ Present' = Present
  BY <1>1, StoreResetAssumption DEF StoreResetAssumption, StoreInv, LockHeld, UnderLock, ClearsAtRest, Present
<1>3. meta' = [st |-> "ready", gen |-> resetter[c].target, target |-> 0] /\ ResetEnds(c, "done") BY DEF WriteReady
<1>8. \A d \in ResetCmd : ~(resetter'[d].at \in {"clear", "ready"})
  BY <1>2, <1>3, ResetEndsTo DEF StoreInv, LockHeld, UnderLock
<1>9. FreshIsEmpty' /\ ClearsAtRest' /\ StoreResetSound'
  BY <1>1, <1>2, <1>3, <1>8 DEF StoreInv, FreshIsEmpty, ClearsAtRest, StoreResetSound, OneGeneration,
    DaemonOwnsStore, NothingActiveLost, StoreType, ResetRecord
<1> QED BY <1>1, <1>3, ResetEndsTo, <1>9 DEF StoreInv, StoreType, ResetRecord, LockHeld, UnderLock

LEMMA InterruptKeeps == ASSUME StoreInv, NEW c \in ResetCmd, Interrupt(c) PROVE StoreInv'
  BY ResetStops DEF Interrupt, StoreInv, StoreType, ResetRecord, OpSpend

LEMMA StoreUnchanged == ASSUME StoreInv, UNCHANGED storeVars PROVE StoreInv'
  BY DEF storeVars, Present, StoreInv, StoreType, ResetRecord, LockHeld, UnderLock, FreshIsEmpty, ClearsAtRest,
    ensure_reset_quiescent, StoreResetSound, OneGeneration, DaemonOwnsStore, NothingActiveLost

LEMMA StoreStep == ASSUME StoreInv, [StoreNext]_storeVars PROVE StoreInv'
  BY OpenKeeps, FirstMetaKeeps, StopDaemonKeeps, CodexMovesKeeps, SaveRecordKeeps, RunResetKeeps, AcquireKeeps,
    ScanKeeps, MarkKeeps, RecoverKeeps, ClearKeeps, WriteReadyKeeps, InterruptKeeps, StoreUnchanged DEF StoreNext,
    reset_storage_offline

(* A store that opens is of one generation, the daemon works on the         *)
(* generation the disk has, and no reset removes work that goes on: between *)
(* any two writes, whoever is interrupted and whoever comes next.           *)
THEOREM StoreSurvivesResets == StoreSpec => []StoreResetSound
<1>1. StoreInv => StoreResetSound BY DEF StoreInv
<1> QED BY <1>1, StoreInitInv, StoreStep, PTL DEF StoreSpec

-----------------------------------------------------------------------------
(* The files of the surfaces run: the part that runs takes its own steps,   *)
(* the others keep their state.                                             *)

LEMMA SurfacesFiles == ASSUME SurfacesInit PROVE StoreInv /\ EvidenceInv /\ MemoryTypes
  BY StoreInitInv, EvidenceInit DEF SurfacesInit

LEMMA SurfacesFilesStep ==
  ASSUME StoreInv, EvidenceInv, MemoryTypes, [SurfacesNext]_surfaceVars
  PROVE (StoreInv /\ EvidenceInv /\ MemoryTypes)'
  BY StoreStep, TypesFollow, SoundStep, MemoryStep DEF SurfacesNext, surfaceVars, EvidenceStep, Sound

(* What is on disk can be opened and is of one generation, wherever a reset *)
(* was interrupted, and the records of runs agree with the bodies beside    *)
(* them, wherever a write was.                                              *)
THEOREM FilesAreSound == SurfacesSpec => []FilesSound
<1>1. StoreInv /\ EvidenceInv /\ MemoryTypes => FilesSound
  BY TypesFollow, DiskIs DEF FilesSound, StoreInv, EvidenceInv, DiskGood, RecordsGood, FilesGood, Files,
    BodiesMatch, FilesBounded
<1> QED BY <1>1, SurfacesFiles, SurfacesFilesStep, PTL DEF SurfacesSpec
=============================================================================
