-------------------------- MODULE QuestionResolver --------------------------
(* The automatic acknowledgement of Codex questions.  A question hook       *)
(* writes a journal entry before it tells the daemon and removes it when    *)
(* the daemon has saved the question; the daemon, seeing an ordinary prompt *)
(* of a later turn, checks the transcript's turn order, waits for the run   *)
(* to end, samples the screen twice and acknowledges the proven prefix.     *)
(* Every check takes the journal's lock, which travels with the worker's    *)
(* completion until the mutation takes it or its deadline frees it.         *)
EXTENDS Naturals, Sequences, FiniteSets

CONSTANTS
    MaxQuestions, \* bound: questions asked, each by a hook process of its own
    MaxTurn,     \* bound: turns of the session
    MaxQuestionEpoch,    \* bound: journal epochs
    MaxResolverFaults    \* bound: lost completions, failed writes, contended locks

ASSUME ResolverAssumption == {MaxQuestions, MaxTurn, MaxQuestionEpoch, MaxResolverFaults} \subseteq Nat

VARIABLES
    transcript,  \* the turn records Codex wrote, in order
    hook,        \* the hook process of each question
    opening,     \* the SessionStart hook: what it read of the journal
    journal,     \* [epoch, dirty]: the home-wide loss journal
    lock,        \* which completion holds the journal's lock
    policy,      \* the Resolver: trust, epoch, orders, home failure
    cand,        \* its candidate, or NoCand
    questionNotice,      \* [latest, acked]: orders issued and acknowledged
    run,         \* the run the daemon sees in the pane
    heard,       \* prompts whose hook the daemon has applied
    checking,    \* the order worker's job
    probing,     \* the probe worker's job
    recovery,    \* the home recovery job
    tick,        \* [pending, queued]: question_tick_pending and the queue
    faults       \* faults so far

resolverVars == <<transcript, hook, opening, journal, lock, policy, cand, questionNotice, run,
                  heard, checking, probing, recovery, tick, faults>>
asking == <<transcript, hook, opening, heard>>
jobs == <<checking, probing, recovery>>

Turns == 1..MaxTurn
Question == 1..MaxQuestions
NoCand == [gen |-> 0]
NoWork == [at |-> "none"]
Stage == {"checking", "armed", "probing"}
Session == [trust : {"none", "trusted", "unknown"}, epoch : 0..MaxQuestionEpoch]
Order == [n : 1..MaxQuestions, turn : Turns, epoch : 0..MaxQuestionEpoch, resolved : BOOLEAN]
SampleCapture == {"MatchedQuestion", "ActiveQuestion", "NormalComposer", "Ambiguous"}
SessionSource == {"Startup", "Resume", "Clear", "Fork", "Compact", "Unknown"}

Verdict == {"valid", "unverified", "unsaved", "rejected"}

Fault == faults < MaxResolverFaults /\ faults' = faults + 1
MayFail == faults' \in {faults, faults + 1} /\ faults' <= MaxResolverFaults
Failing == faults' > faults

-----------------------------------------------------------------------------
(* turn_order.rs: what the transcript proves.                               *)

Positions(event, turn) ==
    {i \in DOMAIN transcript : transcript[i].event = event /\ transcript[i].turn = turn}
RolledBack == \E i \in DOMAIN transcript : transcript[i].event = "rollback"

proves(issued, submitted) ==
    /\ issued # submitted /\ Positions("abort", issued) = {}
    /\ \E s \in Positions("start", issued), c \in Positions("complete", issued),
          b \in Positions("start", submitted) : s < c /\ c < b

WriteJournal(event, turn) == transcript' = Append(transcript, [event |-> event, turn |-> turn])

StartTurn(t) ==
    /\ opening.at = "known"    \* Codex waits for its SessionStart hook
    /\ Positions("start", t) = {} /\ \A u \in 1..(t - 1) : Positions("start", u) # {}
    /\ WriteJournal("start", t)
    /\ UNCHANGED <<hook, opening, journal, lock, policy, cand, questionNotice, run, heard, jobs, tick, faults>>

EndTurn(t, how) ==
    /\ Positions("start", t) # {} /\ ~RolledBack
    /\ Positions("complete", t) \cup Positions("abort", t) = {}
    /\ how # "complete" => faults < MaxResolverFaults
    /\ faults' = IF how = "complete" THEN faults ELSE faults + 1
    /\ WriteJournal(how, t)
    /\ UNCHANGED <<hook, opening, journal, lock, policy, cand, questionNotice, run, heard, jobs, tick>>

-----------------------------------------------------------------------------
(* journal.rs.                                                              *)

Dead(q) == ~hook[q].alive
Abandoned == {q \in journal.dirty : Dead(q)}

evaluate ==
    IF Abandoned = {} THEN journal
    ELSE [epoch |-> journal.epoch + 1, dirty |-> journal.dirty \ Abandoned]
bump == [journal EXCEPT !.epoch = @ + 1]
(* The lock file holds the epoch as well: a journal file that is missing,    *)
(* damaged or older than its lock file loads empty or stale, one epoch on.  *)
load_journal(dirty) == [epoch |-> journal.epoch + 1, dirty |-> dirty]
CanEvaluate == Abandoned # {} => journal.epoch < MaxQuestionEpoch

-----------------------------------------------------------------------------
(* Resolver.                                                                *)

unknown(p) == [p EXCEPT !.trust = "unknown"]

(* journal_failed: a report for a verified session makes its history        *)
(* unknown; any other closes the whole home until the epoch has moved.      *)
journal_failed(p, known) ==
    IF known THEN unknown(p) ELSE [p EXCEPT !.home = @ + 1, !.closed = TRUE]

recovered(p, ticket) ==
    IF p.closed /\ p.home = ticket THEN [unknown(p) EXCEPT !.closed = FALSE] ELSE p

session_start(p, source, opened, verified) ==
    IF p.closed THEN p
    ELSE IF p.trust # "none"
    THEN IF source \in {"Startup", "Compact"} /\ verified /\ ~opened.dirty /\ opened.epoch = p.epoch
         THEN p ELSE unknown(p)
    ELSE [p EXCEPT !.epoch = opened.epoch,
             !.trust = IF source = "Startup" /\ verified /\ ~opened.dirty
                       THEN "trusted" ELSE "unknown"]

issue(p, turn, order) ==
    IF p.trust = "trusted"
    THEN [p EXCEPT !.orders = @ \cup {[n |-> order, turn |-> turn, epoch |-> p.epoch,
                                       resolved |-> FALSE]}]
    ELSE unknown(p)

Ordinary(p, turn) ==
    {o \in p.orders : /\ o.n \in (questionNotice.acked + 1)..questionNotice.latest
                      /\ o.turn # turn /\ o.epoch = p.epoch}

Candidate(p, turn, gen) ==
    [gen |-> gen, turn |-> turn, epoch |-> p.epoch, acked |-> questionNotice.acked,
     latest |-> questionNotice.latest, issued |-> {o.turn : o \in Ordinary(p, turn)},
     stage |-> "checking", through |-> questionNotice.acked, samples |-> 0, normals |-> 0,
     pending |-> FALSE, expired |-> FALSE]

fence_current(f) ==
    /\ ~policy.closed /\ cand.gen = f.gen /\ f.gen # 0
    /\ policy.trust = "trusted" /\ policy.epoch = f.epoch

Resolved(p, f, proven) ==
    [p EXCEPT !.orders =
        {IF o.n \in (f.acked + 1)..f.latest /\ o.turn # f.turn /\ o.turn \in proven
         THEN [o EXCEPT !.resolved = TRUE] ELSE o : o \in p.orders}]

prefix(p, f) ==
    CHOOSE k \in f.acked..f.latest :
        /\ \A n \in (f.acked + 1)..k : \E o \in p.orders : o.n = n /\ o.resolved /\ o.epoch = f.epoch
        /\ k = f.latest \/ ~\E o \in p.orders : o.n = k + 1 /\ o.resolved /\ o.epoch = f.epoch

acknowledged(p, through) == [p EXCEPT !.orders = {o \in @ : o.n > through}]

(* checked: the proven orders are resolved, and the candidate is armed when *)
(* they make a prefix.                                                      *)
checked(p, f, c) ==
    IF prefix(p, f) = f.acked THEN NoCand
    ELSE [c EXCEPT !.stage = "armed", !.through = prefix(p, f), !.expired = FALSE]

(* sample: two normal screens in a row make the candidate ready to commit.  *)
Sampled(c) ==
    IF c.normals = 1 THEN [c EXCEPT !.normals = 2]
    ELSE [c EXCEPT !.normals = @ + 1, !.pending = FALSE]

(* eligible, as reevaluate and maintain call it after every mutation.       *)
eligible(c, r) ==
    IF c.gen = 0 \/ c.stage # "armed" \/ r.turn # c.turn THEN c
    ELSE IF r.life = "error" \/ c.expired THEN NoCand
    ELSE IF r.life = "idle" THEN [c EXCEPT !.stage = "probing", !.expired = FALSE] ELSE c

(* The candidate of a session that is no longer trusted is dropped.         *)
Kept(p, c) == IF p.trust = "trusted" /\ ~p.closed THEN c ELSE NoCand
Maintain(p, c, r) ==
    /\ policy' = p
    /\ cand' = eligible(Kept(p, c), r)
    /\ run' = r

-----------------------------------------------------------------------------
(* The hooks: PreparedHook, its delivery and persisted.                     *)

Ask(q, t) ==
    /\ hook[q].at = "idle" /\ \A r \in 1..(q - 1) : hook[r].at # "idle"
    /\ Positions("start", t) # {}
    /\ \A u \in Turns : u > t => Positions("start", u) = {}
    /\ hook' = [hook EXCEPT ![q] = [@ EXCEPT !.at = "asked", !.turn = t]]
    /\ UNCHANGED <<transcript, opening, journal, lock, policy, cand, questionNotice, run, heard, jobs, tick, faults>>

insert(q) ==
    /\ hook[q].at = "asked" /\ hook[q].alive /\ lock = "free"
    /\ journal' = [journal EXCEPT !.dirty = @ \cup {q}]
    /\ hook' = [hook EXCEPT ![q].at = "journaled"]
    /\ UNCHANGED <<transcript, opening, lock, policy, cand, questionNotice, run, heard, jobs, tick, faults>>

(* The lock stayed busy for LOCK_BUDGET, or the disk refused.               *)
InsertFails(q) ==
    /\ hook[q].at = "asked" /\ hook[q].alive
    /\ IF lock = "free" THEN Fault ELSE UNCHANGED faults
    /\ hook' = [hook EXCEPT ![q].at = "failed"]
    /\ UNCHANGED <<transcript, opening, journal, lock, policy, cand, questionNotice, run, heard, jobs, tick>>

ReportFailure(q, known) ==
    /\ hook[q].at = "failed" /\ hook[q].alive
    /\ hook' = [hook EXCEPT ![q].at = "reported"]
    /\ policy.home < MaxResolverFaults \/ known
    /\ Maintain(journal_failed(policy, known), cand, run)
    /\ UNCHANGED <<transcript, opening, journal, lock, questionNotice, heard, jobs, tick, faults>>

(* apply, then observe: the question takes an order and, when everything    *)
(* about the hook is verified, the resolver learns of it.                   *)
Deliver(q, verdict) ==
    LET failed == hook[q].at # "journaled"
        valid == verdict = "valid" /\ ~failed
    IN
    /\ hook[q].at \in {"journaled", "failed", "reported"} /\ hook[q].alive
    /\ IF verdict = "valid" THEN UNCHANGED faults ELSE Fault
    /\ questionNotice' = IF verdict = "rejected" THEN questionNotice ELSE [questionNotice EXCEPT !.latest = @ + 1]
    /\ hook' = [hook EXCEPT ![q] = [@ EXCEPT
            !.at = IF verdict \in {"unsaved", "rejected"} THEN "unsaved" ELSE "saved",
            !.order = IF verdict = "rejected" THEN 0 ELSE questionNotice'.latest]]
    /\ Maintain(IF failed \/ verdict = "unverified" THEN unknown(policy)
                ELSE IF verdict = "rejected" THEN policy
                ELSE issue(policy, hook[q].turn, questionNotice'.latest),
                IF verdict = "rejected" THEN cand ELSE NoCand, run)
    /\ UNCHANGED <<transcript, opening, journal, lock, heard, jobs, tick>>

persisted(q) ==
    /\ hook[q].at = "saved" /\ hook[q].alive /\ lock = "free"
    /\ journal' = [journal EXCEPT !.dirty = @ \ {q}]
    /\ hook' = [hook EXCEPT ![q] = [@ EXCEPT !.at = "done", !.alive = FALSE]]
    /\ UNCHANGED <<transcript, opening, lock, policy, cand, questionNotice, run, heard, jobs, tick, faults>>

(* A hook process may die, or give up on the lock, at any point.            *)
HookDies(q) ==
    /\ hook[q].at # "idle" /\ hook[q].alive
    /\ hook' = [hook EXCEPT ![q].alive = FALSE]
    /\ UNCHANGED <<transcript, opening, journal, lock, policy, cand, questionNotice, run, heard, jobs, tick, faults>>

JournalBreaks(dirty) ==
    /\ journal.epoch < MaxQuestionEpoch /\ lock = "free" /\ Fault
    /\ dirty \in {{}, journal.dirty}
    /\ journal' = load_journal(dirty)
    /\ UNCHANGED <<asking, lock, policy, cand, questionNotice, run, jobs, tick>>

(* The SessionStart hook reads the journal, and is heard of later.          *)
OpenSession ==
    /\ opening.at = "new" /\ lock = "free" /\ CanEvaluate
    /\ journal' = evaluate
    /\ opening' = [at |-> "read", epoch |-> evaluate.epoch, dirty |-> journal.dirty # {}]
    /\ UNCHANGED <<transcript, hook, lock, policy, cand, questionNotice, run, heard, jobs, tick, faults>>

SessionStarts(source, verified) ==
    /\ opening.at \in {"read", "known"}
    /\ (source # "Startup" \/ opening.at = "known" \/ ~verified) => faults < MaxResolverFaults
    /\ faults' = IF source # "Startup" \/ opening.at = "known" \/ ~verified
                 THEN faults + 1 ELSE faults
    /\ opening' = [opening EXCEPT !.at = "known"]
    /\ Maintain(session_start(policy, source, opening, verified),
                IF policy.trust = "none" THEN NoCand ELSE cand, run)
    /\ UNCHANGED <<transcript, hook, journal, lock, questionNotice, heard, jobs, tick>>

-----------------------------------------------------------------------------
(* The provider events the resolver watches.                                *)

(* observe of a UserPromptSubmit: ordinary, once per delivery.              *)
PromptSubmitted(t) ==
    LET r == [turn |-> t, life |-> "running"]
        c == Candidate(policy, t, t)
    IN
    /\ Positions("start", t) # {} /\ t \notin heard /\ \A u \in heard : u < t
    /\ heard' = heard \cup {t}
    /\ IF /\ policy.trust = "trusted" /\ ~policy.closed
          /\ questionNotice.acked < questionNotice.latest /\ Ordinary(policy, t) # {}
       THEN IF checking.at = "none"
            THEN /\ Maintain(policy, c, r)
                 /\ checking' = [at |-> "queued", f |-> c]
            ELSE Maintain(policy, NoCand, r) /\ UNCHANGED checking
       ELSE /\ Maintain(IF policy.trust = "trusted" THEN policy ELSE unknown(policy), NoCand, r)
            /\ UNCHANGED checking
    /\ UNCHANGED <<transcript, hook, opening, journal, lock, questionNotice, probing, recovery, tick, faults>>

RunEnds(life) ==
    /\ run.life = "running" /\ run.turn # 0
    /\ life = "error" => faults < MaxResolverFaults
    /\ faults' = IF life = "error" THEN faults + 1 ELSE faults
    /\ Maintain(policy, cand, [run EXCEPT !.life = life])
    /\ UNCHANGED <<asking, journal, lock, questionNotice, jobs, tick>>

(* acknowledge_with_runner: the user acknowledges what they see.            *)
acknowledge_question ==
    /\ questionNotice.acked < questionNotice.latest
    /\ questionNotice' = [questionNotice EXCEPT !.acked = questionNotice.latest]
    /\ Maintain(acknowledged(policy, questionNotice.latest), NoCand, run)
    /\ UNCHANGED <<asking, journal, lock, jobs, tick, faults>>

-----------------------------------------------------------------------------
(* The order worker.                                                        *)

ReadTurns ==
    /\ checking.at = "queued"
    /\ checking' =
        IF RolledBack THEN [checking EXCEPT !.at = "unknown"]
        ELSE LET found == {t \in checking.f.issued : proves(t, checking.f.turn)}
             IN IF found = {} THEN [checking EXCEPT !.at = "retained"]
                ELSE [at |-> "read", f |-> checking.f, proven |-> found]
    /\ UNCHANGED <<asking, journal, lock, policy, cand, questionNotice, run, probing, recovery, tick, faults>>

CheckOrder ==
    /\ checking.at = "read" /\ lock = "free" /\ CanEvaluate /\ MayFail
    /\ IF Failing THEN UNCHANGED <<journal, lock>> /\ checking' = [checking EXCEPT !.at = "retained"]
       ELSE /\ journal' = evaluate
            /\ checking' = [checking EXCEPT !.at =
                    IF evaluate.epoch # checking.f.epoch THEN "unknown"
                    ELSE IF evaluate.dirty # {} THEN "retained" ELSE "checked"]
            /\ lock' = IF checking'.at = "checked" THEN "order" ELSE "free"
    /\ UNCHANGED <<asking, policy, cand, questionNotice, run, probing, recovery, tick>>

Clean(f) == evaluate.dirty = {} /\ evaluate.epoch = f.epoch

order_completed ==
    LET f == checking.f
        held == lock = "order" /\ checking.at = "checked"
    IN
    /\ checking.at \in {"unknown", "retained", "checked"} /\ (held => CanEvaluate)
    /\ checking' = NoWork
    /\ lock' = IF lock = "order" THEN "free" ELSE lock
    /\ journal' = IF held /\ fence_current(f) THEN evaluate ELSE journal
    /\ UNCHANGED <<asking, questionNotice, probing, recovery, tick, faults>>
    /\ IF ~fence_current(f) THEN Maintain(policy, cand, run)
       ELSE IF checking.at = "unknown" THEN Maintain(unknown(policy), NoCand, run)
       ELSE IF \/ ~held \/ ~Clean(f) \/ cand.stage # "checking" \/ cand.expired
               \/ questionNotice.latest # f.latest \/ questionNotice.acked # f.acked
       THEN Maintain(policy, NoCand, run)
       ELSE LET p == Resolved(policy, f, checking.proven)
            IN Maintain(p, checked(p, f, cand), run)

-----------------------------------------------------------------------------
(* The probe workers.                                                       *)

SampleScreen(seen) ==
    /\ probing.at = "sample"
    /\ probing' = [probing EXCEPT !.at = "captured", !.normal = seen = "NormalComposer"]
    /\ UNCHANGED <<asking, journal, lock, policy, cand, questionNotice, run, checking, recovery, tick, faults>>

(* acquire_clean_guard, after a capture or for the commit.                  *)
AcquireGuard ==
    /\ probing.at \in {"captured", "commit"} /\ lock = "free" /\ CanEvaluate /\ MayFail
    /\ IF Failing THEN UNCHANGED <<journal, lock>> /\ probing' = [probing EXCEPT !.done = "failure"]
       ELSE /\ journal' = evaluate
            /\ probing' = [probing EXCEPT !.done = IF Clean(probing.f) THEN "guarded" ELSE "failure"]
            /\ lock' = IF Clean(probing.f) THEN "probe" ELSE "free"
    /\ probing.done = "no"
    /\ UNCHANGED <<asking, policy, cand, questionNotice, run, checking, recovery, tick>>

(* A guard whose deadline passes while it waits is released by the reaper.  *)
ReapGuard ==
    /\ lock # "free" /\ Fault
    /\ lock' = "free"
    /\ UNCHANGED <<asking, journal, policy, cand, questionNotice, run, jobs, tick>>

(* A completion that does not fit its channel or the mutation queue is      *)
(* dropped, and its guard with it.                                          *)
DropCompletion ==
    /\ Fault
    /\ \/ /\ checking.at \in {"unknown", "retained", "checked"}
          /\ checking' = NoWork /\ UNCHANGED probing
          /\ lock' = IF lock = "order" THEN "free" ELSE lock
       \/ /\ probing.at # "none" /\ probing.done # "no"
          /\ probing' = NoWork /\ UNCHANGED checking
          /\ lock' = IF lock = "probe" THEN "free" ELSE lock
    /\ UNCHANGED <<asking, journal, policy, cand, questionNotice, run, recovery, tick>>

ProbeBindingCurrent(f) == run.life = "idle" /\ run.turn = f.turn

final_guard(f, through) ==
    /\ fence_current(f) /\ questionNotice.latest = f.latest /\ questionNotice.acked = f.acked
    /\ prefix(policy, f) = through
    /\ cand.stage = "probing" /\ cand.normals = 2 /\ cand.pending
    /\ cand.through = through /\ ~cand.expired

(* acknowledge_until: the candidate ends whether the write commits or not.  *)
Commit(f, through) ==
    IF ~final_guard(f, through) \/ Failing
    THEN Maintain(policy, NoCand, run) /\ UNCHANGED questionNotice
    ELSE /\ questionNotice' = [questionNotice EXCEPT !.acked = through]
         /\ Maintain(acknowledged(policy, through), NoCand, run)

probe_completed ==
    LET f == probing.f
        held == lock = "probe" /\ probing.done = "guarded"
        usable == held /\ Clean(f) /\ ProbeBindingCurrent(f)
        current == cand.gen = f.gen /\ cand.stage = "probing" /\ cand.pending
                   /\ cand.samples = probing.id
    IN
    /\ probing.at # "none" /\ probing.done # "no" /\ (held => CanEvaluate) /\ MayFail
    /\ Failing => usable /\ probing.at = "commit"
    /\ lock' = IF lock = "probe" THEN "free" ELSE lock
    /\ journal' = IF held /\ fence_current(f) THEN evaluate ELSE journal
    /\ UNCHANGED <<asking, checking, recovery, tick>>
    /\ IF ~fence_current(f)
       THEN probing' = NoWork /\ Maintain(policy, cand, run) /\ UNCHANGED questionNotice
       ELSE IF probing.done = "failure" \/ ~usable
       THEN probing' = NoWork /\ Maintain(policy, NoCand, run) /\ UNCHANGED questionNotice
       ELSE IF probing.at = "commit"
       THEN probing' = NoWork /\ Commit(f, probing.through)
       ELSE /\ UNCHANGED questionNotice
            /\ IF ~current \/ cand.expired \/ ~probing.normal
               THEN probing' = NoWork /\ Maintain(policy, IF current \/ ~probing.normal
                                                          THEN NoCand ELSE cand, run)
               ELSE /\ Maintain(policy, Sampled(cand), run)
                    /\ probing' = IF cand.normals = 1
                                  THEN [at |-> "commit", f |-> f, id |-> probing.id, normal |-> FALSE,
                                        through |-> cand.through, done |-> "no"]
                                  ELSE NoWork

-----------------------------------------------------------------------------
(* The tick: deadlines, samples that are due, and home recovery.            *)

DeadlinePasses ==
    /\ cand.gen # 0 /\ ~cand.expired
    /\ cand' = [cand EXCEPT !.expired = TRUE]
    /\ UNCHANGED <<asking, journal, lock, policy, questionNotice, run, jobs, tick, faults>>

(* A recovery is asked for again 250 ms after the last one was.             *)
recovery_due == policy.closed /\ recovery.at = "none"
tick_due ==
    \/ recovery_due
    \/ cand.gen # 0 /\ (cand.expired \/ (cand.stage = "probing" /\ ~cand.pending))

enqueue_tick_once ==
    /\ tick_due /\ ~tick.pending /\ MayFail
    /\ tick' = IF Failing THEN tick ELSE [pending |-> TRUE, queued |-> TRUE]
    /\ UNCHANGED <<asking, journal, lock, policy, cand, questionNotice, run, jobs>>

Tick ==
    LET sampling == cand.gen # 0 /\ ~cand.expired /\ cand.stage = "probing"
                    /\ ~cand.pending /\ cand.samples < 3
        job == [at |-> "sample", f |-> cand, id |-> cand.samples + 1, normal |-> FALSE,
                through |-> cand.acked, done |-> "no"]
    IN
    /\ tick.queued
    /\ tick' = [pending |-> FALSE, queued |-> FALSE]
    /\ recovery' = IF recovery_due
                   THEN [at |-> "queued", ticket |-> policy.home] ELSE recovery
    /\ IF sampling /\ ProbeBindingCurrent(cand) /\ probing.at = "none"
       THEN /\ probing' = job
            /\ Maintain(policy, [cand EXCEPT !.samples = @ + 1, !.pending = TRUE], run)
       ELSE /\ UNCHANGED probing
            /\ Maintain(policy, IF sampling \/ (cand.gen # 0 /\ cand.expired) THEN NoCand ELSE cand, run)
    /\ UNCHANGED <<asking, journal, lock, questionNotice, checking, faults>>

RecoverHome ==
    /\ recovery.at = "queued" /\ MayFail
    /\ IF Failing THEN recovery' = NoWork /\ UNCHANGED journal
       ELSE /\ lock = "free" /\ journal.epoch < MaxQuestionEpoch
            /\ journal' = bump
            /\ recovery' = [recovery EXCEPT !.at = "bumped"]
    /\ UNCHANGED <<asking, lock, policy, cand, questionNotice, run, checking, probing, tick>>

HomeRecovered ==
    /\ recovery.at = "bumped"
    /\ recovery' = NoWork
    /\ Maintain(recovered(policy, recovery.ticket), cand, run)
    /\ UNCHANGED <<asking, journal, lock, questionNotice, checking, probing, tick, faults>>

(* A daemon that restarts remembers the saved notices and nothing else.     *)
ResolverRestart ==
    /\ policy.trust # "none" /\ Fault
    /\ policy' = [trust |-> "unknown", epoch |-> 0, orders |-> {}, home |-> policy.home, closed |-> FALSE]
    /\ cand' = NoCand /\ checking' = NoWork /\ probing' = NoWork /\ recovery' = NoWork
    /\ lock' = "free"
    /\ tick' = [pending |-> FALSE, queued |-> FALSE]
    /\ UNCHANGED <<asking, journal, questionNotice, run>>

-----------------------------------------------------------------------------
ResolverInit ==
    /\ transcript = << >> /\ heard = {} /\ faults = 0
    /\ hook = [q \in Question |-> [at |-> "idle", turn |-> 0, alive |-> TRUE, order |-> 0]]
    /\ opening = [at |-> "new", epoch |-> 0, dirty |-> FALSE]
    /\ journal = [epoch |-> 0, dirty |-> {}]
    /\ lock = "free"
    /\ policy = [trust |-> "none", epoch |-> 0, orders |-> {}, home |-> 0, closed |-> FALSE]
    /\ cand = NoCand
    /\ questionNotice = [latest |-> 0, acked |-> 0]
    /\ run = [turn |-> 0, life |-> "idle"]
    /\ checking = NoWork /\ probing = NoWork /\ recovery = NoWork
    /\ tick = [pending |-> FALSE, queued |-> FALSE]

Codex ==
    \/ \E t \in Turns : \/ StartTurn(t)
                        \/ \E how \in {"complete", "abort", "rollback"} : EndTurn(t, how)
                        \/ PromptSubmitted(t)
    \/ \E life \in {"idle", "error"} : RunEnds(life)
    \/ OpenSession
    \/ \E s \in SessionSource, v \in BOOLEAN : SessionStarts(s, v)

Hooks ==
    \/ \E d \in SUBSET Question : JournalBreaks(d)
    \/ \E q \in Question :
        \/ \E t \in Turns : Ask(q, t)
        \/ insert(q) \/ InsertFails(q)
        \/ \E known \in BOOLEAN : ReportFailure(q, known)
        \/ \E v \in Verdict : Deliver(q, v)
        \/ persisted(q) \/ HookDies(q)

ResolverProgress ==
    \/ ReadTurns \/ CheckOrder \/ order_completed
    \/ \E seen \in SampleCapture : SampleScreen(seen)
    \/ AcquireGuard \/ probe_completed
    \/ DeadlinePasses \/ enqueue_tick_once \/ Tick
    \/ RecoverHome \/ HomeRecovered

ResolverNext ==
    \/ Codex \/ Hooks \/ ResolverProgress
    \/ acknowledge_question \/ ReapGuard \/ DropCompletion \/ ResolverRestart

ResolverFairness == WF_resolverVars(ResolverProgress)
ResolverSpec == ResolverInit /\ [][ResolverNext]_resolverVars /\ ResolverFairness

-----------------------------------------------------------------------------
(* PROPERTIES                                                               *)

Automatic == questionNotice'.acked > questionNotice.acked /\ probing.at = "commit" /\ probing' = NoWork
OrderIssued(n, t) == \E q \in Question : hook[q].order = n /\ hook[q].turn = t

(* The daemon acknowledges by itself only questions of turns that were      *)
(* complete in the transcript before the answering turn began, skips none,  *)
(* and does so only when every question a hook has journaled or reported    *)
(* has reached it: a question lost on the way vetoes for good               *)
(* (probe_completed, final_guard, JournalGuard::evaluate).                  *)
OnlyAnsweredAcked ==
    [][Automatic =>
        /\ \A n \in (questionNotice.acked + 1)..questionNotice'.acked :
              \E t \in Turns : OrderIssued(n, t) /\ proves(t, run.turn)
        /\ \A q \in Question :
              hook[q].at \in {"journaled", "reported", "saved", "unsaved"}
                => hook[q].order > questionNotice'.acked]_resolverVars

(* Whatever completions are lost, ticks refused or guards reaped, a         *)
(* candidate always ends and a home that a failed journal write closed is   *)
(* opened again (enqueue_tick_once, due, recovery_due).                     *)
CandidatesEnd ==
    /\ (cand.gen # 0) ~> (cand.gen = 0)
    /\ policy.closed ~> ~policy.closed
=============================================================================
