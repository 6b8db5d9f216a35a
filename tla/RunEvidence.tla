----------------------------- MODULE RunEvidence -----------------------------
(***************************************************************************)
(* What a saved Agent Run remembers: the bounded list of provider event    *)
(* references that tells a retried hook from a new one, the outcome, and   *)
(* the response artifact whose body is a file of its own.  Runs of one     *)
(* pane compete for the artifact files and are removed by retention.       *)
(*                                                                         *)
(* AgentStateStore::save_run compares every record with the one it         *)
(* replaces and refuses a replacement that is not an append.  A handler is *)
(* one action; the files it writes one after the other are explicit, so a  *)
(* failed write or a crash leaves a prefix of them.  Times order nothing   *)
(* here: the wall clock may step back, so where the code sorts by time the *)
(* model lets any order happen.                                            *)
(***************************************************************************)
EXTENDS Naturals, FiniteSets, Sequences, SequencesExt

CONSTANTS
    Turn,         \* provider turns; a retained turn has one run
    Answer,       \* response bodies
    NoRun, NoTurn, NoAnswer, NoBody,
    MaxRefs,      \* RUN_EVENT_REFERENCE_MAX_COUNT
    MaxPrompts,   \* bound on the prompts the provider reports per turn
    MaxCount,     \* bound on deliveries of one hook
    MaxFiles,     \* ARTIFACT_STORE_MAX_FILES
    MaxRetained,  \* RUN_RETENTION_PER_PANE
    MaxRuns,      \* bound on runs ever started
    MaxSeen,      \* bound on distinct observation times of a run
    Capacity,     \* does Codex report that the model is overloaded?
    MaxCrash, MaxFault

ASSUME BoundsAssumption ==
    /\ NoTurn \notin Turn /\ NoAnswer \notin Answer /\ NoBody \notin Answer
    /\ MaxRefs \in Nat \ {0} /\ MaxPrompts \in Nat \ {0} /\ MaxCount \in Nat \ {0}
    /\ MaxFiles \in Nat \ {0} /\ MaxRetained \in Nat /\ MaxRuns \in Nat /\ MaxSeen \in Nat
    /\ Capacity \in BOOLEAN /\ MaxCrash \in Nat /\ MaxFault \in Nat

VARIABLES
    runs,      \* disk: the run of each turn
    bodies,    \* disk: the artifact file of each run
    known,     \* memory: the runs of turn_index and event_index
    current,   \* memory: current_by_pane
    paneError, \* disk: does the pane show the provider_overloaded error?
    daemon,
    refused,   \* history: reports refused although their run is retained
    crashes, faults

disk == <<runs, bodies>>
vars == <<disk, known, current, paneError, daemon, refused, crashes, faults>>

Reference == [what : {"run_created", "prompt_updated", "stop", "provider_overloaded"},
              id : Nat, answer : Answer \cup {NoAnswer}, count : Nat \ {0}]
RunRecord == [seq : Nat, refs : Seq(Reference), rev : Nat \ {0}, phase : {"Running", "Error", "Ended"},
              by : {"nobody", "provider", "operator"}, seen : Nat,
              artifact : {"none", "stored", "unavailable", "expired"},
              answer : Answer \cup {NoAnswer}]

ASSUME RecordsAssumption == NoRun \notin RunRecord

(* Whatever the provider reports may arrive at any time, in any order and   *)
(* again: the prompts of a turn by number, and a Stop with any answer (a    *)
(* stop hook that makes the agent continue gives one turn several).         *)
Hook == [what : {"Prompt"}, turn : Turn, id : 1..MaxPrompts, answer : {NoAnswer}]
        \cup [what : {"Stop"}, turn : Turn, id : {0}, answer : Answer \cup {NoAnswer}]

TypeOK ==
    /\ runs \in [Turn -> RunRecord \cup {NoRun}]
    /\ bodies \in [Turn -> Answer \cup {NoBody}]
    /\ known \subseteq Turn /\ current \in Turn \cup {NoTurn}
    /\ paneError \in BOOLEAN /\ daemon \in {"up", "down"}
    /\ refused \subseteq {"Prompt", "Stop", "Capacity"}
    /\ crashes \in Nat /\ faults \in Nat
    /\ \A n \in Turn : runs[n] # NoRun => Len(runs[n].refs) <= MaxRefs

Init ==
    /\ runs = [n \in Turn |-> NoRun]
    /\ bodies = [n \in Turn |-> NoBody]
    /\ known = {} /\ current = NoTurn
    /\ paneError = FALSE /\ daemon = "up"
    /\ refused = {}
    /\ crashes = 0 /\ faults = 0

-----------------------------------------------------------------------------
(* Records.                                                                 *)

(* RunRecord::execution_active. *)
Active(r) == r.by = "nobody" /\ r.phase # "Ended"

Ref(what, id, a) == [what |-> what, id |-> id, answer |-> a, count |-> 1]

(* A prompt is known by its ingress request, a Stop by its turn. *)
HookRefs(r, h) ==
    {i \in DOMAIN r.refs :
        IF h.what = "Stop" THEN r.refs[i].what = "stop"
        ELSE r.refs[i].what \in {"run_created", "prompt_updated"} /\ r.refs[i].id = h.id}

(* append_provider_reference: at the limit the oldest prompt_updated goes;  *)
(* without one nothing can be appended.                                     *)
Rotatable(refs) == {i \in DOMAIN refs : refs[i].what = "prompt_updated"}
CanAppend(refs) == Len(refs) < MaxRefs \/ Rotatable(refs) # {}

append_provider_reference(refs, ref) ==
    IF Len(refs) < MaxRefs THEN Append(refs, ref)
    ELSE Append(RemoveAt(refs, CHOOSE i \in Rotatable(refs) :
                                   \A j \in Rotatable(refs) : i <= j), ref)

(* The times observation may stamp a record with: at or after its last. *)
Stamps(r) == {s \in {r.seen, r.seen + 1} : s <= MaxSeen}

(* apply_observation. *)
Repeated(r, i, s) == [r EXCEPT !.refs[i].count = @ + 1, !.rev = @ + 1, !.seen = s]

Observed(r, h, s) ==
    IF h.what = "Prompt"
    THEN [r EXCEPT !.refs = append_provider_reference(@, Ref("prompt_updated", h.id, NoAnswer)),
                   !.rev = @ + 1, !.seen = s]
    ELSE [r EXCEPT !.refs = append_provider_reference(@, Ref("stop", 0, h.answer)),
                   !.rev = @ + 1, !.seen = s,
                   !.phase = IF r.by = "nobody" THEN "Ended" ELSE @,
                   !.by = IF @ = "nobody" THEN "provider" ELSE @]

(* Mutant: a new record has no revision yet. *)
NewRecordUnrevised(seq, id) ==
    [seq |-> seq, refs |-> <<Ref("run_created", id, NoAnswer)>>, rev |-> 0, phase |-> "Running",
     by |-> "nobody", seen |-> 0, artifact |-> "none", answer |-> NoAnswer]

(* new_run_from_observation. *)
NewRecord(seq, id) ==
    [seq |-> seq, refs |-> <<Ref("run_created", id, NoAnswer)>>, rev |-> 1, phase |-> "Running",
     by |-> "nobody", seen |-> 0, artifact |-> "none", answer |-> NoAnswer]

(* validate_evidence_replacement: position by position, a reference keeps   *)
(* its identity and its count does not fall.                                *)
validate_evidence_replacement(old, new) ==
    /\ Len(new.refs) >= Len(old.refs)
    /\ \A i \in DOMAIN old.refs :
          /\ new.refs[i].what = old.refs[i].what /\ new.refs[i].id = old.refs[i].id
          /\ new.refs[i].answer = old.refs[i].answer
          /\ new.refs[i].count >= old.refs[i].count

(* save_run over an existing record. *)
Saves(old, new) ==
    \/ new = old
    \/ /\ Len(new.refs) <= MaxRefs
       /\ new.rev = old.rev + 1
       /\ validate_evidence_replacement(old, new)

-----------------------------------------------------------------------------
(* Handlers and what they leave when they fail or die.                      *)

Disk(R, B) == [runs |-> R, bodies |-> B]

OnDisk(D) == runs' = D.runs /\ bodies' = D.bodies

Fault == faults < MaxFault /\ faults' = faults + 1 /\ UNCHANGED <<daemon, crashes>>

DieWith(D) ==
    /\ crashes < MaxCrash /\ crashes' = crashes + 1
    /\ daemon' = "down" /\ known' = {} /\ current' = NoTurn
    /\ OnDisk(D)
    /\ UNCHANGED <<paneError, faults>>

Lives == daemon' = daemon /\ UNCHANGED <<crashes, faults>>

(* The first prompt of a turn.  The pane's current run ends; retention      *)
(* removes ended runs until there is room: first their records, then their  *)
(* bodies; then the new record is saved and indexed.                        *)
Removable == {n \in Turn : runs[n] # NoRun /\ ~Active(runs[n]) /\ n # current}

(* collect_run_retention keeps MaxRetained historic runs, the current one   *)
(* included since it becomes historic; runs that are too old may go too.    *)
Collected(S) ==
    Cardinality(Removable \ S) <= IF current = NoTurn THEN MaxRetained ELSE MaxRetained - 1

EndCurrent(R) ==
    [n \in Turn |-> IF n = current /\ R[n] # NoRun /\ Active(R[n])
                    THEN [R[n] EXCEPT !.phase = "Ended", !.rev = @ + 1] ELSE R[n]]

(* Mutant: bodies are removed before the records that refer to them. *)
RemovalStepsBodiesFirst(R, S) ==
    LET none == [n \in Turn |-> IF n \in S THEN NoRun ELSE R[n]]
        gone == [n \in Turn |-> IF n \in S THEN NoBody ELSE bodies[n]]
    IN  <<Disk(R, bodies), Disk(R, gone), Disk(none, gone)>>

(* remove_runs_atomically. *)
RemovalSteps(R, S) ==
    LET none == [n \in Turn |-> IF n \in S THEN NoRun ELSE R[n]]
        gone == [n \in Turn |-> IF n \in S THEN NoBody ELSE bodies[n]]
    IN  <<Disk(R, bodies), Disk(none, bodies), Disk(none, gone)>>

(* The pane's next run sequence. *)
NextSeq == IF current = NoTurn THEN 1 ELSE runs[current].seq + 1

NewRun(h) ==
    LET n == h.turn IN
    /\ daemon = "up" /\ h.what = "Prompt" /\ n \notin known
    /\ NextSeq <= MaxRuns
    /\ \E S \in SUBSET (Removable \ {n}) :
          LET steps == RemovalSteps(EndCurrent(runs), S)
              saved == Disk([Last(steps).runs EXCEPT ![n] = NewRecord(NextSeq, h.id)], Last(steps).bodies)
          IN
          /\ Collected(S)
          /\ \/ /\ OnDisk(saved) /\ Lives
                /\ known' = (known \ S) \cup {n} /\ current' = n
                /\ paneError' = FALSE
             \/ /\ \E i \in DOMAIN steps : OnDisk(steps[i])
                /\ Fault /\ UNCHANGED <<known, current, paneError>>
             \/ \E D \in {steps[i] : i \in DOMAIN steps} \cup {saved} : DieWith(D)
    /\ UNCHANGED refused

(* A further prompt of a retained turn. *)
SameTurnPrompt(h) ==
    LET n == h.turn
        r == runs[n]
    IN
    /\ daemon = "up" /\ h.what = "Prompt" /\ n \in known /\ r # NoRun
    /\ \E s \in Stamps(r) :
          \/ \E i \in HookRefs(r, h) :
                /\ r.refs[i].count < MaxCount
                /\ runs' = [runs EXCEPT ![n] = Repeated(r, i, s)]
                /\ paneError' = (paneError /\ n # current)
                /\ UNCHANGED refused
          \/ /\ HookRefs(r, h) = {}
             /\ \/ /\ CanAppend(r.refs) /\ Saves(r, Observed(r, h, s))
                   /\ runs' = [runs EXCEPT ![n] = Observed(r, h, s)]
                   /\ paneError' = (paneError /\ n # current)
                   /\ UNCHANGED refused
                \/ /\ ~(CanAppend(r.refs) /\ Saves(r, Observed(r, h, s)))
                   /\ refused' = refused \cup {"Prompt"}
                   /\ UNCHANGED <<runs, paneError>>
    /\ Lives /\ UNCHANGED <<bodies, known, current>>

-----------------------------------------------------------------------------
(* Stop: the record, then the response body, then the record again with its *)
(* artifact (finish_provider_observation, store_artifact_candidate).        *)

Stored(D) == {n \in Turn : D.bodies[n] # NoBody}

(* ensure_artifact_capacity: with no file left, the artifact of another run *)
(* is expired, record first and body second.                                *)
Victims(D, n) == {v \in Turn \ {n} : D.runs[v] # NoRun /\ D.runs[v].artifact = "stored"}

Unreferred(D, v) ==
    [D EXCEPT !.runs[v].artifact = "expired", !.runs[v].rev = @ + 1]

Freed(D, v) == [D EXCEPT !.bodies[v] = NoBody]

(* Mutant: one file too many. *)
FullOffByOne(D, n) == Cardinality(Stored(D) \ {n}) > MaxFiles

Full(D, n) == Cardinality(Stored(D) \ {n}) >= MaxFiles

(* Mutant: the body of the evicted artifact is removed before its record says so. *)
EvictionStepsBodyFirst(D, n) ==
    IF ~Full(D, n) THEN {<<D>>}
    ELSE {<<D, Freed(D, v), Freed(Unreferred(D, v), v)>> : v \in Victims(D, n)}

EvictionSteps(D, n) ==
    IF ~Full(D, n) THEN {<<D>>}
    ELSE {<<D, Unreferred(D, v), Freed(Unreferred(D, v), v)>> : v \in Victims(D, n)}

WithArtifact(D, n, st, a) ==
    [D EXCEPT !.runs[n].artifact = st, !.runs[n].answer = a, !.runs[n].rev = @ + 1]

(* Every way in which the artifact part of a Stop can leave the disk, with  *)
(* the record saved as in D: all of it done, or a write failed or the       *)
(* daemon died on the way.  A body that cannot be stored is recorded as     *)
(* unavailable.                                                             *)
ArtifactDone(D, n, a) ==
    IF D.runs[n].artifact \in {"stored", "expired"} THEN {D}
    ELSE IF a = NoAnswer
    THEN {IF D.runs[n].artifact = "none" THEN WithArtifact(D, n, "unavailable", NoAnswer) ELSE D}
    ELSE IF EvictionSteps(D, n) = {} THEN {WithArtifact(D, n, "unavailable", a)}
    ELSE {WithArtifact([Last(e) EXCEPT !.bodies[n] = a], n, "stored", a) :
             e \in EvictionSteps(D, n)}

ArtifactSteps(D, n, a) ==
    IF D.runs[n].artifact \in {"stored", "expired"} \/ a = NoAnswer THEN {D}
    ELSE {D} \cup UNION {{e[i] : i \in DOMAIN e} \cup {[Last(e) EXCEPT !.bodies[n] = a]} :
                            e \in EvictionSteps(D, n)}

ArtifactFailed(D, n, a) ==
    ArtifactSteps(D, n, a)
    \cup {WithArtifact(E, n, "unavailable", a) :
             E \in {F \in ArtifactSteps(D, n, a) : /\ a # NoAnswer
                                                   /\ D.runs[n].artifact \in {"none", "unavailable"}
                                                   /\ F.bodies[n] = bodies[n]}}

(* The record a Stop saves, if it is accepted. *)
StopRecord(r, h, s) ==
    IF HookRefs(r, h) = {} THEN Observed(r, h, s)
    ELSE Repeated(r, CHOOSE i \in HookRefs(r, h) : TRUE, s)

(* Mutant: the answer of a repeated Stop is not compared. *)
StopAcceptableAnyAnswer(r, h, s) ==
    HookRefs(r, h) # {} \/ (CanAppend(r.refs) /\ Saves(r, StopRecord(r, h, s)))

StopAcceptable(r, h, s) ==
    IF HookRefs(r, h) = {} THEN CanAppend(r.refs) /\ Saves(r, StopRecord(r, h, s))
    ELSE \A i \in HookRefs(r, h) : r.refs[i].answer = h.answer

Stop(h) ==
    LET n == h.turn
        r == runs[n]
    IN
    /\ daemon = "up" /\ h.what = "Stop" /\ n \in known /\ r # NoRun
    /\ \A i \in HookRefs(r, h) : r.refs[i].count < MaxCount
    /\ \E s \in Stamps(r) :
          LET D == Disk([runs EXCEPT ![n] = StopRecord(r, h, s)], bodies) IN
          /\ StopAcceptable(r, h, s)
          /\ \/ /\ \E E \in ArtifactDone(D, n, h.answer) : OnDisk(E)
                /\ paneError' = (paneError /\ n # current /\ HookRefs(r, h) # {})
                /\ Lives /\ UNCHANGED <<known, current>>
             \/ /\ \E E \in ArtifactFailed(D, n, h.answer) : OnDisk(E)
                /\ Fault /\ UNCHANGED <<known, current, paneError>>
             \/ \E E \in ArtifactSteps(D, n, h.answer) : DieWith(E)
    /\ UNCHANGED refused

(* A Stop with another answer than the one remembered is a conflict; one    *)
(* that cannot be remembered is refused although its turn is over.          *)
StopRefused(h) ==
    LET r == runs[h.turn] IN
    /\ daemon = "up" /\ h.what = "Stop" /\ h.turn \in known /\ r # NoRun
    /\ \A s \in Stamps(r) : ~StopAcceptable(r, h, s)
    /\ refused' = IF HookRefs(r, h) = {} THEN refused \cup {"Stop"} ELSE refused
    /\ Lives /\ UNCHANGED <<disk, known, current, paneError>>

-----------------------------------------------------------------------------
(* capacity_failure: the transcript of the current turn ends in an overload *)
(* error and the pane does not show it yet.                                 *)
Failed(r, s) ==
    LET new == \A i \in DOMAIN r.refs : r.refs[i].what # "provider_overloaded" IN
    [r EXCEPT !.refs = IF new THEN Append(@, Ref("provider_overloaded", 0, NoAnswer)) ELSE @,
              !.rev = IF new \/ r.phase # "Error" THEN @ + 1 ELSE @,
              !.phase = "Error", !.seen = s]

CapacityFailure ==
    LET n == current
        r == runs[n]
    IN
    /\ Capacity /\ daemon = "up" /\ n # NoTurn
    /\ r # NoRun /\ Active(r) /\ ~(r.phase = "Error" /\ paneError)
    /\ \E s \in Stamps(r) :
          \/ /\ Saves(r, Failed(r, s))
             /\ runs' = [runs EXCEPT ![n] = Failed(r, s)]
             /\ UNCHANGED <<bodies, refused>>
             /\ \/ paneError' = TRUE /\ Lives /\ UNCHANGED <<known, current>>
                \/ Fault /\ UNCHANGED <<known, current, paneError>>
                \/ DieWith(Disk(runs', bodies))
          \/ /\ ~Saves(r, Failed(r, s))
             /\ refused' = refused \cup {"Capacity"}
             /\ Lives /\ UNCHANGED <<disk, known, current, paneError>>

(* resolve_operator_completed. *)
OperatorCompletes(n) ==
    /\ daemon = "up" /\ n \in known /\ runs[n] # NoRun /\ runs[n].by = "nobody"
    /\ runs' = [runs EXCEPT ![n].by = "operator", ![n].phase = "Ended", ![n].rev = @ + 1]
    /\ paneError' = (paneError /\ n # current)
    /\ Lives /\ UNCHANGED <<bodies, known, current, refused>>

Crash == daemon = "up" /\ DieWith(Disk(runs, bodies)) /\ UNCHANGED refused

(* validate_body_references *)
BodiesMatch ==
    \A n \in Turn : runs[n] # NoRun /\ runs[n].artifact = "stored" => bodies[n] = runs[n].answer

(* open_or_initialize removes bodies no record refers to; rebuild_indexes.  *)
(* The last run is current, and a restart keeps the error the pane shows.   *)
Restart ==
    /\ daemon = "down" /\ BodiesMatch
    /\ daemon' = "up"
    /\ bodies' = [n \in Turn |-> IF runs[n] # NoRun /\ runs[n].artifact = "stored"
                                 THEN bodies[n] ELSE NoBody]
    /\ known' = {n \in Turn : runs[n] # NoRun}
    /\ \/ known' = {} /\ current' = NoTurn
       \/ \E n \in known' : /\ \A m \in known' : runs[m].seq <= runs[n].seq
                            /\ current' = n
    /\ UNCHANGED <<runs, paneError, refused, crashes, faults>>

Next ==
    \/ \E h \in Hook : NewRun(h) \/ SameTurnPrompt(h) \/ Stop(h) \/ StopRefused(h)
    \/ CapacityFailure
    \/ \E n \in Turn : OperatorCompletes(n)
    \/ Crash \/ Restart

Spec == Init /\ [][Next]_vars

-----------------------------------------------------------------------------
(* Properties.  BodiesMatch, above: a record that says its response is      *)
(* stored has that very body on disk, through evictions, retention, failed  *)
(* writes and crashes, so the store opens again.                            *)

(* The artifact files, orphans of a crash included, never exceed the limit. *)
FilesBounded == Cardinality({n \in Turn : bodies[n] # NoBody}) <= MaxFiles

(* The answer of a completed turn is final: it may expire, and a body that  *)
(* could not be stored may be stored by a retry, but another answer never   *)
(* takes its place, and an expired one never comes back.                    *)
AnswerFinal ==
    [][\A n \in Turn : runs[n] # NoRun /\ runs'[n] # NoRun /\ runs[n].artifact # "none" =>
          /\ runs'[n].answer = runs[n].answer
          /\ runs[n].artifact = "stored" => runs'[n].artifact \in {"stored", "expired"}
          /\ runs[n].artifact = "expired" => runs'[n].artifact = "expired"]_vars

(* A Stop of a retained turn that has not stopped yet is never refused for  *)
(* want of room on its record, however many prompts the turn had: at the    *)
(* limit append_provider_reference rotates them out, and the run completes. *)
StopAccepted == "Stop" \notin refused

(* Reporting the overload of a turn again is accepted: the pane comes to    *)
(* show the error of its run after a crash or a failed pane write.          *)
CapacityIdempotent == "Capacity" \notin refused
=============================================================================
