-------------------------- MODULE QuestionNotices --------------------------
(* The question notices of one Codex process: each accepted question takes  *)
(* the next order, an acknowledgement moves a contiguous prefix, replies    *)
(* settle the items of the orders they were matched with, and everything is *)
(* saved in a sidecar file whose writes may fail or be cut by a crash.      *)
EXTENDS Naturals, FiniteSets, FiniteSetsExt

CONSTANTS
    Call,        \* tool-call identifiers; a provider may use one again
    Turn,        \* turns of the session
    Items,       \* [Call -> Nat]: how many questions a call holds
    MaxIssued,   \* MAX_KEYS_PER_OWNER, small
    MaxTracked,  \* MAX_TEXT_NOTICES_PER_OWNER, small
    MaxReplies,  \* bound: accepted replies
    MaxFaults    \* bound: writes that do not commit cleanly, and crashes

ASSUME NoticesAssumption ==
    /\ Items \in [Call -> Nat]
    /\ {MaxIssued, MaxTracked, MaxReplies, MaxFaults} \subseteq Nat

VARIABLES
    notices,   \* QuestionNotices in memory
    sidecar,   \* the saved Snapshot, or NoFile, and the .expected marker
    replyJob,  \* the reply job that is under way, with its frozen orders
    shown,     \* the summary a client holds: the order it would acknowledge
    hist       \* history: what was answered, asked for and promised

noticeVars == <<notices, sidecar, replyJob, shown, hist>>

Key == [turn : Turn, call : Call]
Item == UNION {{<<c, i>> : i \in 1..Items[c]} : c \in Call}
ItemsOf(c) == {<<c, i>> : i \in 1..Items[c]}
Orders == 1..MaxIssued

NoFile == [kind |-> "none"]
NoReply == [items |-> {}, orders |-> {}, attempt |-> 0]
NoNotices ==
    [latest |-> 0, acked |-> 0, seen |-> {}, tracked |-> {}, pending |-> {},
     calls |-> {}, blocked |-> FALSE, dirty |-> FALSE, waiting |-> FALSE,
     memoryOnly |-> {}, invalid |-> FALSE]

(* What the file keeps of the state.                                        *)
Snapshot(n) ==
    [kind |-> "file", latest |-> n.latest, acked |-> n.acked, seen |-> n.seen,
     tracked |-> n.tracked, pending |-> n.pending, calls |-> n.calls, blocked |-> n.blocked]

-----------------------------------------------------------------------------
(* save: the temporary file is renamed over the sidecar, then the marker is *)
(* made, then the directory is synchronised.                                *)
Outcomes == {"failed", "committed", "unknown"}
Breaks == {"before_rename", "before_marker", "in_marker"}

AfterRename(n, marker) == [file |-> Snapshot(n), marker |-> marker]

persist_commit(n, outcome) ==
    CASE outcome = "failed" -> [n EXCEPT !.waiting = TRUE]
      [] outcome = "unknown" -> [n EXCEPT !.dirty = FALSE, !.waiting = FALSE]
      [] outcome = "committed" ->
            [n EXCEPT !.dirty = FALSE, !.waiting = FALSE, !.memoryOnly = {}]

Write(n, outcome) ==
    IF outcome = "failed" THEN sidecar
    ELSE AfterRename(n, IF sidecar.marker = "torn" THEN "torn" ELSE "set")

Faulty(outcome) ==
    /\ outcome # "committed" => hist.faults < MaxFaults
    /\ sidecar.marker = "torn" => outcome # "committed"
Faults(outcome) == IF outcome = "committed" THEN hist.faults ELSE hist.faults + 1

(* open and load: a missing file is an error once the marker was made, and  *)
(* so is a marker that was cut while it was written.                        *)
load(s) ==
    IF s.marker = "torn" \/ (s.file = NoFile /\ s.marker = "set")
    THEN [NoNotices EXCEPT !.invalid = TRUE]
    ELSE IF s.file = NoFile THEN NoNotices
    ELSE LET live == {o \in s.file.tracked : o.order > s.file.acked}
         IN [NoNotices EXCEPT
                !.latest = s.file.latest, !.acked = s.file.acked, !.seen = s.file.seen,
                !.tracked = live, !.pending = {p \in s.file.pending : p.order > s.file.acked},
                !.calls = s.file.calls, !.blocked = s.file.blocked]

-----------------------------------------------------------------------------
(* issue_with_items.                                                        *)

register_reply_items(n, order, call) ==
    IF n.blocked THEN n
    ELSE IF call \in n.calls
    THEN [n EXCEPT !.tracked = {o \in @ : o.call # call},
                   !.pending = {p \in @ : p.item \notin ItemsOf(call)}]
    ELSE IF Cardinality(n.calls) >= MaxIssued
    THEN [n EXCEPT !.blocked = TRUE, !.tracked = {}, !.pending = {}]
    ELSE IF Items[call] = 0 \/ Cardinality(n.tracked) >= MaxTracked
    THEN [n EXCEPT !.calls = @ \cup {call}]
    ELSE [n EXCEPT !.calls = @ \cup {call},
                   !.tracked = @ \cup {[order |-> order, call |-> call]},
                   !.pending = @ \cup {[order |-> order, item |-> i] : i \in ItemsOf(call)}]

Issued(k) ==
    LET order == notices.latest + 1
        n == [notices EXCEPT !.latest = order, !.seen = @ \cup {k},
                             !.memoryOnly = @ \cup {k}, !.dirty = TRUE]
    IN register_reply_items(n, order, k.call)

(* Only the first delivery of a question takes an order; a repeated one is  *)
(* a duplicate, which is saved when it was only in memory.                  *)
Issue(k, outcome) ==
    /\ ~notices.invalid /\ k \notin notices.seen
    /\ notices.latest < MaxIssued
    /\ IF notices.waiting
       THEN /\ outcome = "failed"
            /\ notices' = Issued(k)
            /\ UNCHANGED <<sidecar, hist>>
       ELSE /\ Faulty(outcome)
            /\ notices' = persist_commit(Issued(k), outcome)
            /\ sidecar' = Write(Issued(k), outcome)
            /\ hist' = [hist EXCEPT !.faults = Faults(outcome), !.promised =
                          IF outcome = "committed" THEN @ \cup {k} ELSE @]
    /\ UNCHANGED <<replyJob, shown>>

IssueAgain(k, outcome) ==
    /\ ~notices.invalid /\ k \in notices.seen
    /\ k \in notices.memoryOnly
    /\ Faulty(outcome)
    /\ notices' = persist_commit(notices, outcome)
    /\ sidecar' = Write(notices, outcome)
    /\ hist' = [hist EXCEPT !.faults = Faults(outcome), !.promised =
                  IF outcome = "committed" THEN @ \cup {k} ELSE @]
    /\ UNCHANGED <<replyJob, shown>>

-----------------------------------------------------------------------------
(* acknowledge_until: an acknowledgement that was not renamed is undone.    *)

Passed(n, through) ==
    [n EXCEPT !.acked = through,
              !.tracked = {o \in @ : o.order > through},
              !.pending = {p \in @ : p.order > through}]

(* A client looks, and acknowledges what it saw, perhaps much later.        *)
Look == shown' = notices.latest /\ shown' # shown /\ UNCHANGED <<notices, sidecar, replyJob, hist>>

acknowledge(outcome) ==
    /\ ~notices.invalid /\ shown > notices.acked /\ shown <= notices.latest
    /\ Faulty(outcome)
    /\ IF outcome = "failed" THEN UNCHANGED <<notices, sidecar>>
       ELSE /\ notices' = persist_commit(Passed(notices, shown), outcome)
            /\ sidecar' = Write([notices EXCEPT !.acked = shown], outcome)
    /\ hist' = [hist EXCEPT !.faults = Faults(outcome),
                  !.wanted = IF shown > @ THEN shown ELSE @,
                  !.told = IF outcome = "failed" THEN @ ELSE shown]
    /\ UNCHANGED <<replyJob, shown>>

-----------------------------------------------------------------------------
(* Replies: matched with orders when they are accepted, applied after a     *)
(* worker has verified the owner.                                           *)

OrderOf(i) ==
    LET fits == {o \in notices.tracked : o.order > notices.acked /\ i \in ItemsOf(o.call)}
    IN IF fits = {} THEN 0 ELSE Min({o.order : o \in fits})

match_reply_orders(items) ==
    /\ ~notices.invalid /\ notices.acked < notices.latest
    /\ replyJob = NoReply /\ hist.replies < MaxReplies
    /\ \A i \in items : OrderOf(i) # 0
    /\ LET pairs == {[order |-> OrderOf(i), item |-> i] : i \in items}
       IN /\ replyJob' = [items |-> items, orders |-> pairs, attempt |-> 0]
          /\ hist' = [hist EXCEPT !.answered = @ \cup pairs, !.replies = @ + 1]
    /\ UNCHANGED <<notices, sidecar, shown>>

(* The owner check or the deadline fails: the same frozen job again, twice. *)
retry_reply ==
    /\ replyJob # NoReply
    /\ replyJob' = IF replyJob.attempt < 2 THEN [replyJob EXCEPT !.attempt = @ + 1] ELSE NoReply
    /\ UNCHANGED <<notices, sidecar, shown, hist>>

Settled(n, pairs) == [n EXCEPT !.pending = @ \ pairs]

\* Mutant: an answered order behind an open one counts as well.
M_Prefix(n) ==
    LET done == {o \in n.acked..n.latest : o = n.acked \/
                    \E t \in n.tracked : t.order = o /\ \A p \in n.pending : p.order # o}
    IN Max(done)

(* Consecutive orders whose items are all answered.                         *)
Prefix(n) ==
    LET Done(o) == (\E t \in n.tracked : t.order = o) /\ \A p \in n.pending : p.order # o
    IN Max({o \in n.acked..n.latest : \A k \in (n.acked + 1)..o : Done(k)})

acknowledge_reply_orders(outcome) ==
    /\ replyJob # NoReply /\ ~notices.invalid
    /\ replyJob' = NoReply
    /\ LET due == {p \in replyJob.orders : p.order > notices.acked}
           known == \A p \in due : \E o \in notices.tracked :
                        o.order = p.order /\ p.item \in ItemsOf(o.call)
           n == Settled(notices, due)
           through == Prefix(n)
       IN IF due = {} \/ ~known \/ (n = notices /\ through = n.acked)
          THEN outcome = "committed" /\ UNCHANGED <<notices, sidecar, hist>>
          ELSE /\ Faulty(outcome)
               /\ IF outcome = "failed" THEN UNCHANGED <<notices, sidecar>>
                  ELSE /\ notices' = persist_commit(Passed(n, through), outcome)
                       /\ sidecar' = Write([n EXCEPT !.acked = through], outcome)
               /\ hist' = [hist EXCEPT !.faults = Faults(outcome), !.told =
                             IF outcome = "failed" \/ through <= @ THEN @ ELSE through]
    /\ UNCHANGED shown

-----------------------------------------------------------------------------
(* reconcile, on every mutation and poll: a backlog is written again after  *)
(* RETRY_INTERVAL.                                                          *)
reconcile(outcome) ==
    /\ notices.dirty /\ ~notices.waiting /\ ~notices.invalid
    /\ Faulty(outcome)
    /\ notices' = persist_commit(notices, outcome)
    /\ sidecar' = Write(notices, outcome)
    /\ hist' = [hist EXCEPT !.faults = Faults(outcome)]
    /\ UNCHANGED <<replyJob, shown>>

RetryIntervalPasses ==
    /\ notices.waiting
    /\ notices' = [notices EXCEPT !.waiting = FALSE]
    /\ UNCHANGED <<sidecar, replyJob, shown, hist>>

(* The daemon dies, perhaps within a write, and another one opens the file. *)
(* Pending work is lost; the server and its Codex process live on.          *)
NoticesRestart(at) ==
    /\ hist.faults < MaxFaults
    /\ LET asked == shown > notices.acked /\ shown <= notices.latest
           marker == IF sidecar.marker = "none" /\ at = "in_marker" THEN "torn" ELSE sidecar.marker
       IN \E through \in {notices.acked} \cup IF asked THEN {shown} ELSE {} :
             /\ sidecar' = IF at = "before_rename" \/ notices.invalid THEN sidecar
                           ELSE AfterRename([notices EXCEPT !.acked = through], marker)
             /\ hist' = [hist EXCEPT !.faults = @ + 1,
                           !.wanted = IF through > notices.acked /\ through > @ THEN through ELSE @]
    /\ notices' = load(sidecar')
    /\ replyJob' = NoReply
    /\ UNCHANGED shown

NoticesInit ==
    /\ notices = NoNotices /\ sidecar = [file |-> NoFile, marker |-> "none"]
    /\ replyJob = NoReply /\ shown = 0
    /\ hist = [answered |-> {}, wanted |-> 0, told |-> 0, promised |-> {}, faults |-> 0,
               replies |-> 0]

NoticesNext ==
    \/ \E k \in Key, outcome \in Outcomes : Issue(k, outcome) \/ IssueAgain(k, outcome)
    \/ Look \/ retry_reply \/ RetryIntervalPasses
    \/ \E items \in SUBSET Item \ {{}} : match_reply_orders(items)
    \/ \E outcome \in Outcomes :
          acknowledge(outcome) \/ acknowledge_reply_orders(outcome) \/ reconcile(outcome)
    \/ \E at \in Breaks : NoticesRestart(at)

NoticesProgress == reconcile("committed") \/ RetryIntervalPasses
NoticesFairness == WF_noticeVars(NoticesProgress)
NoticesSpec == NoticesInit /\ [][NoticesNext]_noticeVars /\ NoticesFairness

-----------------------------------------------------------------------------
(* An order is acknowledged only when a client asked for it or for a later  *)
(* one after it was shown, or when every item of it was answered by replies *)
(* that were accepted for that very order; a question reported as persisted *)
(* and an acknowledgement reported as made survive restarts; and what is on *)
(* disk can be opened again unless the marker itself was cut.               *)
NoticesSound ==
    /\ \A o \in Orders : (o <= notices.acked /\ o > hist.wanted) =>
          \E c \in Call : Items[c] > 0 /\ \A i \in ItemsOf(c) :
              [order |-> o, item |-> i] \in hist.answered
    /\ ~notices.invalid =>
          /\ hist.promised \subseteq notices.seen
          /\ notices.acked >= hist.told
          /\ notices.latest = Cardinality(notices.seen)
    /\ notices.invalid => sidecar.marker = "torn"

(* Questions held only in memory reach the disk once it can be written.     *)
BacklogWritten == notices.dirty ~> (~notices.dirty \/ notices.invalid)
=============================================================================
