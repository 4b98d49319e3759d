----------------------------- MODULE ToolCalls -----------------------------
(***************************************************************************)
(* One assistant step's tool calls: the scheduler of agent-loop's          *)
(* tool-calls.ts and the part of each call's life that the ToolRuntime     *)
(* (tools/src/index.ts) runs: prepare, dispatch, body, finalize.           *)
(*                                                                         *)
(* The scheduler is one async function, cut at its awaits: pc = "classify",*)
(* "preparing", "committing", "finalizing", "racing" and "draining" are    *)
(* awaits; in between ("fill", "closing") it runs alone.  Tools, policies  *)
(* and whoever cancels the agent run whenever it waits, and an observer of *)
(* an append may cancel inside it.                                         *)
(***************************************************************************)
EXTENDS Naturals, Sequences, FiniteSets

CONSTANTS
    Planned,        \* number of tool calls in the assistant message
    MaxParallel     \* config.maxParallelToolCalls

ASSUME ToolCallsAssumption ==
    /\ Planned \in Nat
    /\ MaxParallel \in Nat \ {0}

VARIABLES
    class,          \* what ctx.tools.executionMode answers for each call now
    signal,         \* signal.aborted
    pc,             \* where the scheduler is
    base,           \* next: the first call of the current group
    last,           \* the last call of the current group
    mode,           \* the group's mode
    toStart,        \* nextToStart
    committed,      \* committed
    aborted,        \* runGroup's aborted
    inFlight,       \* inFlight's keys
    failed,         \* schedulerFailure is set
    stage,          \* where each call is; "post" and "final" are Slot.needsPost
    invoked,        \* state.bodyInvoked
    outcome,        \* the result each call has so far
    log,            \* the tool/call and tool/result events appended
    startedAs       \* history: what each call was classified as at its start

vars == <<class, signal, pc, base, last, mode, toStart, committed, aborted, inFlight, failed,
          stage, invoked, outcome, log, startedAs>>

Calls == 1..Planned
Modes == {"parallel", "exclusive"}
Outcomes == {"ok", "error", "notStarted", "aborted"}
Slots == {"post", "final"}
Stages == {"waiting", "refused", "gating", "dropped", "wrapping", "body", "post", "final", "broken",
           "done", "skipped"}
PCs == {"classify", "fill", "preparing", "committing", "finalizing", "racing", "draining",
        "closing", "returned", "threw"}
CallEvent(i) == [type |-> "tool/call", call |-> i, outcome |-> "none"]
ResultEvent(i, o) == [type |-> "tool/result", call |-> i, outcome |-> o]
Events == [type : {"tool/call", "tool/result"}, call : Calls, outcome : Outcomes \cup {"none"}]

\* Every variable has its type.
TypeOK ==
    /\ class \in [Calls -> Modes]
    /\ signal \in BOOLEAN
    /\ pc \in PCs
    /\ base \in 1..(Planned + 1) /\ last \in 0..Planned
    /\ mode \in Modes
    /\ toStart \in 1..(Planned + 1) /\ committed \in 1..(Planned + 1)
    /\ aborted \in BOOLEAN
    /\ inFlight \subseteq Calls
    /\ failed \in BOOLEAN
    /\ stage \in [Calls -> Stages]
    /\ invoked \in [Calls -> BOOLEAN]
    /\ outcome \in [Calls -> Outcomes \cup {"none"}]
    /\ log \in Seq(Events)
    /\ startedAs \in [Calls -> Modes \cup {"none"}]

Init ==
    /\ class \in [Calls -> Modes]
    /\ signal = FALSE
    /\ pc = "classify" /\ base = 1 /\ last = 0 /\ mode = "exclusive"
    /\ toStart = 1 /\ committed = 1
    /\ aborted = FALSE /\ inFlight = {} /\ failed = FALSE
    /\ stage = [i \in Calls |-> "waiting"]
    /\ invoked = [i \in Calls |-> FALSE]
    /\ outcome = [i \in Calls |-> "none"]
    /\ log = <<>>
    /\ startedAs = [i \in Calls |-> "none"]

callVars == <<stage, invoked, outcome, startedAs>>
groupVars == <<base, last, mode, toStart, committed, aborted, inFlight>>

Waits == pc \notin {"fill", "closing"}

\* A result is in i's slot, or decided what its dispatch resolved to.
Settle(i, o, slot) ==
    /\ stage' = [stage EXCEPT ![i] = slot]
    /\ outcome' = [outcome EXCEPT ![i] = o]

\* Mutation: never look whether the body ran.
CancelledBlind(i) == "notStarted"

\* cancellationResult: a success that the caller no longer wants.
Cancelled(i) == IF invoked[i] THEN "aborted" ELSE "notStarted"

(***************************************************************************)
(* The scheduler.                                                          *)
(***************************************************************************)
\* executeToolCalls takes the next group: one exclusive call, or everything
\* left behind a parallel one.
Classify ==
    /\ pc = "classify" /\ base <= Planned
    /\ mode' = class[base]
    /\ last' = IF class[base] = "parallel" THEN Planned ELSE base
    /\ toStart' = base /\ committed' = base
    /\ aborted' = signal
    /\ pc' = "fill"
    /\ UNCHANGED <<class, signal, base, inFlight, failed, log, callVars>>

Return ==
    /\ pc = "classify" /\ base > Planned
    /\ pc' = "returned"
    /\ UNCHANGED <<class, signal, failed, log, groupVars, callVars>>

\* Mutation: trust the classification the group began with.
CanStartStale ==
    /\ ~aborted
    /\ toStart <= last
    /\ Cardinality(inFlight) < MaxParallel

CanStart ==
    /\ ~aborted
    /\ toStart <= last
    /\ Cardinality(inFlight) < MaxParallel
    /\ toStart > base /\ mode = "parallel" => class[toStart] = "parallel"

\* fillPool starts a call: tool/call is appended, prepare runs to its gate.
\* Already aborted, perhaps by an observer of that append, it refuses.
Start ==
    /\ pc = "fill" /\ CanStart
    /\ log' = Append(log, CallEvent(toStart))
    /\ signal' \in {signal, TRUE}
    /\ stage' = [stage EXCEPT ![toStart] = IF signal' THEN "refused" ELSE "gating"]
    /\ startedAs' = [startedAs EXCEPT ![toStart] = class[toStart]]
    /\ pc' = "preparing"
    /\ UNCHANGED <<class, failed, invoked, outcome, groupVars>>

\* The pool is full, or nothing more may start now.
StopFilling ==
    /\ pc = "fill" /\ ~CanStart
    /\ pc' = IF inFlight = {} THEN "closing" ELSE "racing"
    /\ UNCHANGED <<class, signal, failed, log, groupVars, callVars>>

\* startCall after prepare: dispatch, or put the result into its slot.
Allowed ==
    /\ stage[toStart] = "gating" /\ ~signal
    /\ stage' = [stage EXCEPT ![toStart] = "wrapping"]
    /\ inFlight' = inFlight \cup {toStart}
    /\ UNCHANGED outcome

NotAllowed ==
    /\ \/ stage[toStart] = "refused" /\ Settle(toStart, "notStarted", "final")
       \/ stage[toStart] = "gating" /\ signal /\ Settle(toStart, "notStarted", "post")
       \/ stage[toStart] = "gating" /\ \E slot \in Slots : Settle(toStart, "error", slot)
    /\ UNCHANGED inFlight

Prepared ==
    /\ pc = "preparing" /\ ~failed
    /\ Allowed \/ NotAllowed
    /\ toStart' = toStart + 1
    /\ pc' = "committing"
    /\ UNCHANGED <<class, signal, failed, base, last, mode, committed, aborted, invoked, log,
                   startedAs>>

\* prepare rejected, or a dispatch did meanwhile: to the catch.
PrepareFails ==
    /\ pc = "preparing"
    /\ failed' = TRUE
    /\ stage' = [stage EXCEPT ![toStart] = "dropped"]
    /\ pc' = "draining"
    /\ UNCHANGED <<class, signal, invoked, outcome, startedAs, log, groupVars>>

\* commitReady: results leave their slots in model order only.
HasSlot == committed <= last /\ stage[committed] \in Slots

CommitResult(o) ==
    /\ log' = Append(log, ResultEvent(committed, o))
    /\ outcome' = [outcome EXCEPT ![committed] = o]
    /\ stage' = [stage EXCEPT ![committed] = "done"]
    /\ committed' = committed + 1
    /\ signal' \in {signal, TRUE}

Finish ==
    /\ pc = "committing" /\ HasSlot /\ stage[committed] = "final"
    /\ CommitResult(outcome[committed])
    /\ UNCHANGED <<class, failed, pc, base, last, mode, toStart, aborted, inFlight, invoked,
                   startedAs>>

Finalize ==
    /\ pc = "committing" /\ HasSlot /\ stage[committed] = "post"
    /\ pc' = "finalizing"
    /\ UNCHANGED <<class, signal, failed, log, groupVars, callVars>>

\* post-execute may block any result; it never turns a failure into a success.
Finalized ==
    /\ pc = "finalizing"
    /\ \/ CommitResult("error")
       \/ outcome[committed] # "ok" /\ CommitResult(outcome[committed])
       \/ outcome[committed] = "ok"
          /\ CommitResult(IF signal THEN Cancelled(committed) ELSE "ok")
    /\ pc' = "committing"
    /\ UNCHANGED <<class, failed, base, last, mode, toStart, aborted, inFlight, invoked,
                   startedAs>>

FinalizeFails ==
    /\ pc = "finalizing"
    /\ failed' = TRUE
    /\ pc' = "draining"
    /\ UNCHANGED <<class, signal, log, groupVars, callVars>>

\* Mutation: do not look at the signal again.
CommittedBlind ==
    /\ pc = "committing" /\ ~HasSlot
    /\ aborted' = aborted
    /\ pc' = IF failed THEN "draining" ELSE "fill"
    /\ UNCHANGED <<class, signal, failed, base, last, mode, toStart, committed, inFlight, log,
                   callVars>>

\* After commitReady: a failure goes to the catch, an abort stops the filling.
Committed ==
    /\ pc = "committing" /\ ~HasSlot
    /\ aborted' = (aborted \/ (~failed /\ signal))
    /\ pc' = IF failed THEN "draining" ELSE "fill"
    /\ UNCHANGED <<class, signal, failed, base, last, mode, toStart, committed, inFlight, log,
                   callVars>>

HasSettled(i) == stage[i] \in Slots \cup {"broken", "done"}

\* Mutation: leave the settled dispatch in the pool.
RaceKeeps ==
    /\ pc = "racing"
    /\ \E i \in inFlight : HasSettled(i) /\ inFlight' = inFlight
    /\ pc' = IF failed THEN "draining" ELSE "committing"
    /\ UNCHANGED <<class, signal, failed, base, last, mode, toStart, committed, aborted, log,
                   callVars>>

\* Promise.race gives one of the settled dispatches.
Race ==
    /\ pc = "racing"
    /\ \E i \in inFlight : HasSettled(i) /\ inFlight' = inFlight \ {i}
    /\ pc' = IF failed THEN "draining" ELSE "committing"
    /\ UNCHANGED <<class, signal, failed, base, last, mode, toStart, committed, aborted, log,
                   callVars>>

\* Mutation: rethrow without waiting for what still runs.
DrainedAtOnce ==
    /\ pc = "draining"
    /\ pc' = "threw"
    /\ UNCHANGED <<class, signal, failed, log, groupVars, callVars>>

\* The catch: Promise.allSettled, then rethrow.
Drained ==
    /\ pc = "draining" /\ \A i \in inFlight : HasSettled(i)
    /\ pc' = "threw"
    /\ UNCHANGED <<class, signal, failed, log, groupVars, callVars>>

\* The group is over; the calls it started are not the whole message.
Regroup ==
    /\ pc = "closing" /\ ~aborted
    /\ base' = toStart
    /\ pc' = "classify"
    /\ UNCHANGED <<class, signal, failed, last, mode, toStart, committed, aborted, inFlight, log,
                   callVars>>

\* Mutation: skip the whole group, not what it left.
SkippedPairsFromGroup ==
    [k \in 1..(2 * (Planned + 1 - base)) |->
        LET i == base + (k - 1) \div 2
        IN  IF k % 2 = 1 THEN CallEvent(i) ELSE ResultEvent(i, "notStarted")]

\* Aborted: every call not started gets its synthetic pair, those of this
\* group and then those behind it.
SkippedPairs ==
    [k \in 1..(2 * (Planned + 1 - toStart)) |->
        LET i == toStart + (k - 1) \div 2
        IN  IF k % 2 = 1 THEN CallEvent(i) ELSE ResultEvent(i, "notStarted")]

Skip ==
    /\ pc = "closing" /\ aborted
    /\ log' = log \o SkippedPairs
    /\ stage' = [i \in Calls |-> IF i >= toStart THEN "skipped" ELSE stage[i]]
    /\ outcome' = [i \in Calls |-> IF i >= toStart THEN "notStarted" ELSE outcome[i]]
    /\ pc' = "returned"
    /\ UNCHANGED <<class, signal, failed, invoked, startedAs, groupVars>>

Scheduler ==
    \/ Classify \/ Return \/ Start \/ StopFilling \/ Prepared \/ PrepareFails
    \/ Finish \/ Finalize \/ Finalized \/ FinalizeFails \/ Committed
    \/ Race \/ Drained \/ Regroup \/ Skip

(***************************************************************************)
(* Dispatched calls, the registry and the caller.                          *)
(***************************************************************************)
\* A tools/execute wrapper answers without running the body.
WrapperAnswers(i) ==
    /\ Waits /\ stage[i] = "wrapping"
    /\ \/ Settle(i, IF signal THEN "notStarted" ELSE "ok", "post")
       \/ \E slot \in Slots : Settle(i, "error", slot)
    /\ UNCHANGED <<class, signal, pc, failed, invoked, startedAs, log, groupVars>>

\* dispatchToolBody finds its signal aborted: the caller's, or the wrapper's own.
BodyRefused(i) ==
    /\ Waits /\ stage[i] = "wrapping"
    /\ Settle(i, "notStarted", "post")
    /\ UNCHANGED <<class, signal, pc, failed, invoked, startedAs, log, groupVars>>

BodyStarts(i) ==
    /\ Waits /\ stage[i] = "wrapping" /\ ~signal
    /\ stage' = [stage EXCEPT ![i] = "body"]
    /\ invoked' = [invoked EXCEPT ![i] = TRUE]
    /\ UNCHANGED <<class, signal, pc, failed, outcome, startedAs, log, groupVars>>

\* The body settles, and the wrappers around it: a success under an abort
\* becomes an abort; a wrapper that throws makes the result final.
BodyEnds(i) ==
    /\ Waits /\ stage[i] = "body"
    /\ \/ ~signal /\ Settle(i, "ok", "post")
       \/ Settle(i, "aborted", "post")
       \/ \E slot \in Slots : Settle(i, "error", slot)
    /\ UNCHANGED <<class, signal, pc, failed, invoked, startedAs, log, groupVars>>

\* The registry itself breaks: dispatch rejects.
Breaks(i) ==
    /\ Waits /\ stage[i] \in {"wrapping", "body"}
    /\ stage' = [stage EXCEPT ![i] = "broken"]
    /\ failed' = TRUE
    /\ UNCHANGED <<class, signal, pc, invoked, outcome, startedAs, log, groupVars>>

\* A plugin replaces a tool, or its classifier changes its mind; nobody asks
\* about a call that has started.
Reclassify(i) ==
    /\ Waits /\ stage[i] = "waiting"
    /\ class' = [class EXCEPT ![i] = IF @ = "parallel" THEN "exclusive" ELSE "parallel"]
    /\ UNCHANGED <<signal, pc, failed, log, groupVars, callVars>>

Abort ==
    /\ Waits /\ ~signal
    /\ signal' = TRUE
    /\ UNCHANGED <<class, pc, failed, log, groupVars, callVars>>

Dispatch(i) ==
    WrapperAnswers(i) \/ BodyRefused(i) \/ BodyStarts(i) \/ BodyEnds(i) \/ Breaks(i)

Over == pc \in {"returned", "threw"} /\ UNCHANGED vars

Next ==
    \/ Scheduler
    \/ \E i \in Calls : Dispatch(i)
    \/ pc \notin {"returned", "threw"} /\ (Abort \/ \E i \in Calls : Reclassify(i))
    \/ Over

Spec == Init /\ [][Next]_vars

\* Policies, wrappers and bodies settle and a continuation that may run does.
Fairness ==
    /\ WF_vars(Scheduler)
    /\ \A i \in 1..Planned : WF_vars(Dispatch(i))

FairSpec == Spec /\ Fairness

(***************************************************************************)
(* Properties                                                              *)
(***************************************************************************)
\* The transcript stays replayable: calls and results are appended in model
\* order, each kind without gaps or repeats, each result behind its call; and a
\* batch that returns, aborted or not, has answered every call of the message.
\* Only a scheduler failure leaves calls unanswered (commitReady,
\* appendSkippedToolCall).
ModelOrder ==
    /\ \A m, n \in DOMAIN log :
           m < n /\ log[m].type = log[n].type => log[m].call < log[n].call
    /\ \A n \in DOMAIN log : \A i \in 1..(log[n].call - 1) :
           \E m \in 1..(n - 1) : log[m].type = log[n].type /\ log[m].call = i
    /\ \A n \in DOMAIN log :
           log[n].type = "tool/result" => \E m \in 1..(n - 1) : log[m] = CallEvent(log[n].call)
    /\ pc = "returned" => \A i \in Calls :
           \E n \in DOMAIN log : log[n].type = "tool/result" /\ log[n].call = i

Running(i) == stage[i] \in {"wrapping", "body"}

\* Bodies overlap only if every one of them was classified parallel when it
\* started, and never more than the cap (runGroup, fillPool).  When the batch is
\* over, returned or thrown, nothing it started still runs.
Barriers ==
    /\ \A i, j \in Calls : Running(i) /\ Running(j) /\ i # j
                             => startedAs[i] = "parallel" /\ startedAs[j] = "parallel"
    /\ Cardinality({i \in Calls : Running(i)}) <= MaxParallel
    /\ pc \in {"returned", "threw"} => \A i \in Calls : ~Running(i) /\ stage[i] # "gating"

\* A result says "aborted before dispatch" only of a body that never ran and
\* "aborted" only of one that did: the model decides on it whether to retry.
HonestOutcome ==
    \A k \in DOMAIN log :
        /\ log[k].outcome = "notStarted" => ~invoked[log[k].call]
        /\ log[k].outcome = "aborted" => invoked[log[k].call]

\* After an abort no body begins, wherever its call was, and no further call is
\* recorded as started, only as skipped.
AbortStartsNothing == [][signal => invoked' = invoked /\ startedAs' = startedAs]_vars

\* The batch ends.
BatchEnds == <>(pc \in {"returned", "threw"})
=============================================================================
