--------------------------- MODULE CaptureWorkers ---------------------------
(***************************************************************************)
(* The capture coordinator (daemon/workers/capture.rs): the screens of     *)
(* panes, read from tmux.  Requests that arrive in the same window share   *)
(* invocations of tmux, which are cut to what one command line can hold;   *)
(* the pieces are put together again per request.  Question probes use     *)
(* threads and a channel of their own and give way to normal captures.     *)
(* Panes close, respawn and change size, and the server may be replaced,   *)
(* between any two steps.                                                  *)
(***************************************************************************)
EXTENDS Naturals, Sequences, SequencesExt, FiniteSets

CONSTANTS
    Requester,      \* threads that ask for screens
    Prober,         \* threads that ask for a question probe
    CPane,          \* panes
    Asks,           \* the sequences of panes that may be asked for
    CaptureQueue,   \* DAEMON_OBSERVATION_CAPTURE_QUEUE_CAPACITY
    CallBudget,     \* what one invocation of tmux holds, a pane costing 1
    FrameCost,      \* what a request's part of a call costs beside its panes
    GroupScreens,   \* screens a group of requests may retain
    ProbeCap,       \* panes under probe at a time
    ProbeQueue,     \* the probe channel
    MaxAsks,        \* bound: requests and probes
    MaxPaneFaults   \* bound: panes and servers that change, calls that fail

ASSUME CaptureAssumption ==
    /\ IsFiniteSet(Requester) /\ IsFiniteSet(Prober) /\ Asks \subseteq Seq(CPane)
    /\ {CaptureQueue, CallBudget, GroupScreens, ProbeCap, ProbeQueue} \subseteq Nat \ {0}
    /\ {MaxAsks, MaxPaneFaults, FrameCost} \subseteq Nat

VARIABLES
    panes,     \* CPane -> its process; 0: closed
    sameTmux,  \* the server is the one this daemon belongs to
    asker,     \* Requester -> [at, want, got]
    normalPending,
    captureFifo,      \* the request channel
    captureBatch,     \* the coordinator's group
    probe,     \* Prober -> [at, pane, proc, class]
    probeFifo, \* the probe channel
    probed,    \* probe_panes
    capUsed

captureVars == <<panes, sameTmux, asker, normalPending, captureFifo, captureBatch, probe, probeFifo, probed, capUsed>>

NoAsk == [at |-> "idle", want |-> <<>>, got |-> <<>>]
NoProbe == [at |-> "idle", pane |-> CHOOSE p \in CPane : TRUE, proc |-> 0, class |-> "none", seen |-> 0]
NoBatch == [at |-> "none", from |-> <<>>, plan |-> <<>>, acc |-> <<>>, fatal |-> FALSE, kept |-> 0]

AskSpend == capUsed.asks < MaxAsks /\ capUsed' = [capUsed EXCEPT !.asks = @ + 1]
FaultSpend == capUsed.faults < MaxPaneFaults /\ capUsed' = [capUsed EXCEPT !.faults = @ + 1]

(***************************************************************************)
(* capture_plain_tails: count, then send; a full channel is an error.      *)
(***************************************************************************)
AskScreens(r) ==
    /\ asker[r].at = "idle" /\ AskSpend
    /\ \E w \in Asks : asker' = [asker EXCEPT ![r] = [at |-> "counted", want |-> w, got |-> <<>>]]
    /\ normalPending' = normalPending + 1
    /\ UNCHANGED <<panes, sameTmux, captureFifo, captureBatch, probe, probeFifo, probed>>
try_enqueue(r) ==
    /\ asker[r].at = "counted"
    /\ IF Len(captureFifo) < CaptureQueue
       THEN captureFifo' = Append(captureFifo, r) /\ asker' = [asker EXCEPT ![r].at = "waiting"] /\ UNCHANGED normalPending
       ELSE /\ asker' = [asker EXCEPT ![r] = [NoAsk EXCEPT !.at = "failed"]]
            /\ normalPending' = normalPending - 1 /\ UNCHANGED captureFifo
    /\ UNCHANGED <<panes, sameTmux, captureBatch, probe, probeFifo, probed, capUsed>>

\* The caller has its answer and may ask again.
TakeScreens(r) ==
    /\ asker[r].at \in {"ok", "failed"} /\ asker' = [asker EXCEPT ![r] = NoAsk]
    /\ UNCHANGED <<panes, sameTmux, normalPending, captureFifo, captureBatch, probe, probeFifo, probed, capUsed>>

(***************************************************************************)
(* start_capture_coordinator: the first request opens the window, the      *)
(* group runs when it closes.                                              *)
(***************************************************************************)
Coalesce ==
    /\ captureBatch.at \in {"none", "window"} /\ captureFifo # <<>>
    /\ captureBatch' = [captureBatch EXCEPT !.at = "window", !.from = Append(@, Head(captureFifo))] /\ captureFifo' = Tail(captureFifo)
    /\ UNCHANGED <<panes, sameTmux, asker, normalPending, probe, probeFifo, probed, capUsed>>

\* plan_capture_invocations: <<request, pane>> items in order, cut where the next one would no longer
\* fit; every request that has a part in a call costs its own frame.
CallCost(call) == Len(call) + FrameCost * Cardinality({e[1] : e \in Range(call)})
WithItem(calls, e) ==
    IF calls # <<>> /\ CallCost(Append(Last(calls), e)) <= CallBudget
    THEN Append(Front(calls), Append(Last(calls), e)) ELSE Append(calls, <<e>>)
plan_capture_invocations(wants) ==
    LET items == FlattenSeq([i \in DOMAIN wants |-> [k \in DOMAIN wants[i] |-> <<i, wants[i][k]>>]])
        plan[n \in 0..Len(items)] == IF n = 0 THEN <<>> ELSE WithItem(plan[n - 1], items[n])
    IN  plan[Len(items)]
\* A pane that needs more than one call holds fails the group before it starts.
Oversized(wants) == 1 + FrameCost > CallBudget /\ \E i \in DOMAIN wants : wants[i] # <<>>

StartGroup ==
    /\ captureBatch.at = "window"
    /\ LET wants == [i \in DOMAIN captureBatch.from |-> asker[captureBatch.from[i]].want]
       IN captureBatch' = [captureBatch EXCEPT
              !.at = "run", !.fatal = Oversized(wants),
              !.plan = IF Oversized(wants) THEN <<>> ELSE plan_capture_invocations(wants),
              !.acc = [i \in DOMAIN wants |-> [ok |-> TRUE, screens |-> <<>>]]]
    /\ UNCHANGED <<panes, sameTmux, asker, normalPending, captureFifo, probe, probeFifo, probed, capUsed>>

(***************************************************************************)
(* One invocation of execute_capture_group.  A pane that is gone, or whose *)
(* size changes while it is read (odd), fails the whole job of its         *)
(* request; tmux may also drop the jobs behind it, which fails the call.   *)
(* Another server is fatal to the group.                                   *)
(***************************************************************************)
\* The slice of a call that is one request's.
JobOf(call, i) ==
    LET its == {k \in DOMAIN call : call[k][1] = i}
    IN  IF its = {} THEN <<>> ELSE SubSeq(call, Min(its), Max(its))
Screen(e) == <<e[2], panes[e[2]]>>
parse_observation_job(call, i, odd) ==
    LET job == JobOf(call, i)
    IN  IF \E e \in Range(job) : panes[e[2]] = 0 \/ e[2] \in odd THEN [ok |-> FALSE, screens |-> <<>>]
        ELSE [ok |-> TRUE, screens |-> [k \in DOMAIN job |-> Screen(job[k])]]

\* A request that failed stays failed; its later pieces are dropped.
Merge(acc, res) == IF acc.ok /\ res.ok THEN [acc EXCEPT !.screens = @ \o res.screens] ELSE [ok |-> FALSE, screens |-> <<>>]

CallResults(call, results) ==
    LET jobs == {e[1] : e \in Range(call)}
        acc == [i \in DOMAIN captureBatch.acc |-> IF i \in jobs THEN Merge(captureBatch.acc[i], results[i]) ELSE captureBatch.acc[i]]
        kept == captureBatch.kept + Cardinality({k \in DOMAIN call : acc[call[k][1]].ok})
    IN  IF kept > GroupScreens THEN [captureBatch EXCEPT !.fatal = TRUE, !.plan = <<>>]
        ELSE [captureBatch EXCEPT !.acc = acc, !.kept = kept, !.plan = Tail(@)]

execute_capture_group ==
    LET call == Head(captureBatch.plan)
        none == [i \in DOMAIN captureBatch.acc |-> [ok |-> FALSE, screens |-> <<>>]]
        parsed(odd) == [i \in DOMAIN captureBatch.acc |-> parse_observation_job(call, i, odd)]
    IN  /\ captureBatch.at = "run" /\ captureBatch.plan # <<>>
        /\ \/ ~sameTmux /\ captureBatch' = [captureBatch EXCEPT !.fatal = TRUE, !.plan = <<>>] /\ UNCHANGED capUsed
           \/ sameTmux /\ captureBatch' = CallResults(call, parsed({})) /\ UNCHANGED capUsed
           \/ /\ sameTmux /\ \E e \in Range(call) : panes[e[2]] = 0
              /\ captureBatch' = CallResults(call, none) /\ UNCHANGED capUsed
           \/ sameTmux /\ FaultSpend /\ captureBatch' = CallResults(call, none)
           \/ sameTmux /\ FaultSpend /\ \E e \in Range(call) : captureBatch' = CallResults(call, parsed({e[2]}))
        /\ UNCHANGED <<panes, sameTmux, asker, normalPending, captureFifo, probe, probeFifo, probed>>

\* Every request of the group gets one reply; the count of pending requests follows.
Reply ==
    /\ captureBatch.at = "run" /\ captureBatch.plan = <<>>
    /\ asker' = [r \in Requester |->
         IF r \notin Range(captureBatch.from) THEN asker[r]
         ELSE LET res == captureBatch.acc[CHOOSE i \in DOMAIN captureBatch.from : captureBatch.from[i] = r]
              IN  IF captureBatch.fatal \/ ~res.ok THEN [asker[r] EXCEPT !.at = "failed"]
                  ELSE [asker[r] EXCEPT !.at = "ok", !.got = res.screens]]
    /\ captureBatch' = [captureBatch EXCEPT !.at = "replied"]
    /\ UNCHANGED <<panes, sameTmux, normalPending, captureFifo, probe, probeFifo, probed, capUsed>>
EndGroup ==
    /\ captureBatch.at = "replied" /\ normalPending' = normalPending - Len(captureBatch.from) /\ captureBatch' = NoBatch
    /\ UNCHANGED <<panes, sameTmux, asker, captureFifo, probe, probeFifo, probed, capUsed>>

(***************************************************************************)
(* capture_question: refused while normal captures are pending, when too   *)
(* many panes or this one are under probe, or when the channel is full.    *)
(* The caller waits until its deadline only; the registration of the pane  *)
(* lives as long as the probe itself.                                      *)
(***************************************************************************)
capture_question(c) ==
    /\ probe[c].at = "idle" /\ AskSpend
    /\ \E p \in CPane :
         /\ panes[p] # 0
         /\ IF normalPending # 0 \/ Cardinality(probed) >= ProbeCap \/ p \in probed
            THEN UNCHANGED <<probe, probed>>
            ELSE /\ probe' = [probe EXCEPT ![c] = [NoProbe EXCEPT !.at = "send", !.pane = p, !.proc = panes[p]]]
                 /\ probed' = probed \cup {p}
    /\ UNCHANGED <<panes, sameTmux, asker, normalPending, captureFifo, captureBatch, probeFifo>>
SendProbe(c) ==
    /\ probe[c].at = "send"
    /\ IF Len(probeFifo) < ProbeQueue
       THEN probeFifo' = Append(probeFifo, c) /\ probe' = [probe EXCEPT ![c].at = "queued"] /\ UNCHANGED probed
       ELSE /\ probe' = [probe EXCEPT ![c] = NoProbe] /\ probed' = probed \ {probe[c].pane}
            /\ UNCHANGED probeFifo
    /\ UNCHANGED <<panes, sameTmux, asker, normalPending, captureFifo, captureBatch, capUsed>>

\* A probe thread: it looks at the pending count again before it starts.
Running(c) == probe[c].at = "running"
TakeProbe(c) ==
    /\ probeFifo # <<>> /\ Head(probeFifo) = c /\ Cardinality({d \in Prober : Running(d)}) < ProbeQueue
    /\ probeFifo' = Tail(probeFifo)
    /\ IF normalPending # 0 THEN probe' = [probe EXCEPT ![c].at = "answered", ![c].class = "ambiguous"]
       ELSE probe' = [probe EXCEPT ![c].at = "running"]
    /\ UNCHANGED <<panes, sameTmux, asker, normalPending, captureFifo, captureBatch, probed, capUsed>>
\* classify_question_output: the server and the process of the pane are the ones asked for.
classify_question_output(c) ==
    IF sameTmux /\ panes[probe[c].pane] = probe[c].proc THEN {"question", "composer"} ELSE {"ambiguous"}
capture_question_viewport(c) ==
    /\ Running(c)
    /\ \E k \in classify_question_output(c) :
         probe' = [probe EXCEPT ![c].at = "answered", ![c].class = k, ![c].seen = panes[probe[c].pane]]
    /\ UNCHANGED <<panes, sameTmux, asker, normalPending, captureFifo, captureBatch, probeFifo, probed, capUsed>>
EndProbe(c) ==
    /\ probe[c].at = "answered" /\ probe' = [probe EXCEPT ![c] = NoProbe] /\ probed' = probed \ {probe[c].pane}
    /\ UNCHANGED <<panes, sameTmux, asker, normalPending, captureFifo, captureBatch, probeFifo, capUsed>>

(***************************************************************************)
(* The world.                                                              *)
(***************************************************************************)
PaneFault ==
    /\ FaultSpend
    /\ \/ \E p \in CPane, n \in {0, 2} : panes[p] # 0 /\ panes' = [panes EXCEPT ![p] = n] /\ UNCHANGED sameTmux
       \/ sameTmux /\ sameTmux' = FALSE /\ UNCHANGED panes
    /\ UNCHANGED <<asker, normalPending, captureFifo, captureBatch, probe, probeFifo, probed>>

CaptureInit ==
    /\ panes = [p \in CPane |-> 1] /\ sameTmux = TRUE
    /\ asker = [r \in Requester |-> NoAsk] /\ normalPending = 0 /\ captureFifo = <<>> /\ captureBatch = NoBatch
    /\ probe = [c \in Prober |-> NoProbe] /\ probeFifo = <<>> /\ probed = {} /\ capUsed = [asks |-> 0, faults |-> 0]

Coordinator == Coalesce \/ StartGroup \/ execute_capture_group \/ Reply \/ EndGroup
ProbeSteps(c) == SendProbe(c) \/ TakeProbe(c) \/ capture_question_viewport(c) \/ EndProbe(c)
CaptureProgress == Coordinator \/ (\E r \in Requester : try_enqueue(r)) \/ (\E c \in Prober : ProbeSteps(c))
CaptureNext ==
    \/ CaptureProgress \/ PaneFault
    \/ \E r \in Requester : AskScreens(r) \/ TakeScreens(r)
    \/ \E c \in Prober : capture_question(c)

-----------------------------------------------------------------------------
(***************************************************************************)
(* Properties.                                                             *)
(***************************************************************************)
\* A successful answer has one screen for every pane asked for, in that order, however the request was
\* cut into calls and whoever shared them.
AnswersComplete ==
    \A r \in Requester : asker[r].at = "ok" => [k \in DOMAIN asker[r].got |-> asker[r].got[k][1]] = asker[r].want

\* A call never exceeds what a tmux command line holds.
CallsFit == \A k \in DOMAIN captureBatch.plan : CallCost(captureBatch.plan[k]) <= CallBudget

\* The pending count is exact whenever nobody is in the middle of changing it: a count that is too high
\* would stop the question probes for good.
PendingExact ==
    normalPending = Len(captureFifo) + Len(captureBatch.from) + Cardinality({r \in Requester : asker[r].at = "counted"})

\* A pane is under probe exactly as long as a probe for it is on its way: a registration left behind
\* would never let the pane be probed again.
ProbesRegistered ==
    /\ probed = {probe[c].pane : c \in {d \in Prober : probe[d].at # "idle"}}
    /\ Cardinality(probed) <= ProbeCap
    /\ \A c, d \in Prober : (c # d /\ probe[c].at # "idle" /\ probe[d].at # "idle") => probe[c].pane # probe[d].pane

\* A probe says something only about the process it was asked about.
ProbesHonest ==
    \A c \in Prober : (probe[c].at = "answered" /\ probe[c].class # "ambiguous") => probe[c].seen = probe[c].proc

CapturesSound == AnswersComplete /\ CallsFit /\ PendingExact /\ ProbesRegistered /\ ProbesHonest

=============================================================================
