--------------------------- MODULE ToolCalls_proofs ---------------------------
(***************************************************************************)
(* Proofs about the tool-call scheduler, for any number of calls and any   *)
(* pool size: the transcript is in model order and complete, exclusive     *)
(* calls run alone and the pool keeps its cap, outcomes are honest, and    *)
(* nothing starts after an abort.                                          *)
(***************************************************************************)
EXTENDS ToolCalls, FiniteSetTheorems, SequenceTheorems, TLAPS

-----------------------------------------------------------------------------
(* The inductive invariant.                                                *)

\* The calls of the current group that were dispatched or refused and whose
\* result is not in the log yet.
Pooled == {"wrapping", "body", "broken"} \cup Slots

\* Where the scheduler stands in its group.  What it waits for nobody but it
\* can move, so a failure of a running call never reaches "fill" or "closing".
Control ==
    /\ base <= committed /\ committed <= toStart
    /\ pc = "classify" => toStart = base
    /\ pc \notin {"classify", "returned"} => base <= last /\ toStart <= last + 1
    /\ pc \in {"classify", "closing", "returned"} => committed = toStart /\ inFlight = {}
    /\ pc \in {"classify", "fill", "closing", "returned"} => ~failed
    /\ pc = "preparing" => toStart <= last
    /\ pc \in {"committing", "finalizing", "racing"} => base < toStart
    /\ pc \notin {"classify", "returned"} /\ mode = "exclusive" => last = base
    /\ pc = "fill" => ~HasSlot
    /\ pc = "fill" /\ signal => aborted
    /\ pc = "fill" /\ toStart = base => class[base] = mode
    /\ pc = "finalizing" => committed < toStart /\ stage[committed] = "post"
    /\ pc = "returned" => \A i \in Calls : stage[i] \in {"done", "skipped"}

\* What a call's number says about where it is.
Places ==
    \A i \in Calls :
        /\ i < committed => stage[i] = "done"
        /\ committed <= i /\ i < toStart => stage[i] \in Pooled
        /\ i = toStart => IF pc = "preparing" THEN stage[i] \in {"refused", "gating"}
                          ELSE stage[i] \in {"waiting", "dropped", "skipped"}
        /\ i > toStart => stage[i] \in {"waiting", "skipped"}
        /\ stage[i] = "dropped" => pc \in {"draining", "threw"}
        /\ stage[i] = "skipped" => pc = "returned"

\* What runs is in flight, and so is whatever may still break the batch.
Flights ==
    /\ \A i \in inFlight : base <= i /\ i < toStart
    /\ \A i \in Calls : Running(i) => i \in inFlight
    /\ \A i \in Calls : stage[i] = "broken" => failed
    /\ Cardinality(inFlight) <= MaxParallel
    /\ pc = "preparing" => Cardinality(inFlight) < MaxParallel
    /\ pc = "preparing" /\ mode = "parallel" => startedAs[toStart] = "parallel"
    /\ pc = "threw" => \A i \in inFlight : ~Running(i)
    /\ pc \notin {"classify", "returned"} /\ mode = "parallel" =>
           \A i \in Calls : base <= i /\ stage[i] \in Pooled => startedAs[i] = "parallel"

\* What a call's result says of its body.
Told ==
    \A i \in Calls :
        /\ invoked[i] => stage[i] \in {"body", "broken", "done"} \cup Slots
        /\ stage[i] = "body" => invoked[i]
        /\ stage[i] \in Slots \cup {"done"} => outcome[i] # "none"
        /\ stage[i] \in Slots \cup {"done"} /\ outcome[i] = "notStarted" => ~invoked[i]
        /\ stage[i] \in Slots \cup {"done"} /\ outcome[i] = "aborted" => invoked[i]
        /\ stage[i] = "skipped" => outcome[i] = "notStarted"

\* The log is the history of the stages.
Recorded ==
    /\ \A n \in DOMAIN log :
           IF log[n].type = "tool/call"
           THEN log[n].outcome = "none" /\ stage[log[n].call] # "waiting"
           ELSE /\ stage[log[n].call] \in {"done", "skipped"}
                /\ log[n].outcome = outcome[log[n].call]
    /\ \A i \in Calls : stage[i] # "waiting" =>
           \E n \in DOMAIN log : log[n] = CallEvent(i)
    /\ \A i \in Calls : stage[i] \in {"done", "skipped"} =>
           \E n \in DOMAIN log : log[n].type = "tool/result" /\ log[n].call = i

\* What ModelOrder says of the log whether or not the batch is over.
InOrder ==
    /\ \A m, n \in DOMAIN log :
           m < n /\ log[m].type = log[n].type => log[m].call < log[n].call
    /\ \A n \in DOMAIN log : \A i \in 1..(log[n].call - 1) :
           \E m \in 1..(n - 1) : log[m].type = log[n].type /\ log[m].call = i
    /\ \A n \in DOMAIN log :
           log[n].type = "tool/result" => \E m \in 1..(n - 1) : log[m] = CallEvent(log[n].call)

IInv == TypeOK /\ Control /\ Places /\ Flights /\ Told /\ Recorded /\ InOrder

-----------------------------------------------------------------------------
(* Every step preserves each part of it.                                   *)

\* What the two appends write.
LEMMA EventTypes ==
    ASSUME NEW i \in Calls, NEW o \in Outcomes
    PROVE  CallEvent(i) \in Events /\ ResultEvent(i, o) \in Events
BY DEF Events, CallEvent, ResultEvent, Outcomes

\* What a call's settling does to its stage and outcome.
LEMMA SettleTypes ==
    ASSUME TypeOK, NEW i \in Calls, NEW o \in Outcomes, NEW slot \in Slots, Settle(i, o, slot)
    PROVE  stage' \in [Calls -> Stages] /\ outcome' \in [Calls -> Outcomes \cup {"none"}]
BY DEF TypeOK, Settle, Slots, Stages

\* What committing a result does.
LEMMA CommitTypes ==
    ASSUME TypeOK, committed \in Calls, NEW o \in Outcomes, CommitResult(o)
    PROVE  /\ stage' \in [Calls -> Stages] /\ outcome' \in [Calls -> Outcomes \cup {"none"}]
           /\ log' \in Seq(Events) /\ committed' \in 1..(Planned + 1) /\ signal' \in BOOLEAN
<1>1. ResultEvent(committed, o) \in Events
  BY EventTypes
<1>2. log' \in Seq(Events)
  BY <1>1 DEF TypeOK, CommitResult
<1>3. committed + 1 \in 1..(Planned + 1)
  BY ToolCallsAssumption DEF Calls
<1>4. stage' \in [Calls -> Stages] /\ outcome' \in [Calls -> Outcomes \cup {"none"}]
  BY DEF TypeOK, CommitResult, Stages
<1> QED
  BY <1>2, <1>3, <1>4 DEF TypeOK, CommitResult

\* The synthetic pairs of the calls not started, in model order.
LEMMA SkippedShape ==
    ASSUME TypeOK
    PROVE  /\ SkippedPairs \in Seq(Events)
           /\ Len(SkippedPairs) = 2 * (Planned + 1 - toStart)
           /\ \A k \in 1..Len(SkippedPairs) : \E i \in toStart..Planned :
                 \/ k = 2 * (i - toStart) + 1 /\ SkippedPairs[k] = CallEvent(i)
                 \/ k = 2 * (i - toStart) + 2 /\ SkippedPairs[k] = ResultEvent(i, "notStarted")
           /\ \A i \in toStart..Planned :
                 /\ 2 * (i - toStart) + 1 \in 1..Len(SkippedPairs)
                 /\ SkippedPairs[2 * (i - toStart) + 1] = CallEvent(i)
                 /\ 2 * (i - toStart) + 2 \in 1..Len(SkippedPairs)
                 /\ SkippedPairs[2 * (i - toStart) + 2] = ResultEvent(i, "notStarted")
<1> DEFINE top == 2 * (Planned + 1 - toStart)
           at(k) == toStart + ((k - 1) \div 2)
           pair(k) == IF k % 2 = 1 THEN CallEvent(at(k)) ELSE ResultEvent(at(k), "notStarted")
<1>1. toStart \in 1..(Planned + 1) /\ Planned \in Nat /\ top \in Nat
  BY ToolCallsAssumption DEF TypeOK
<1>2. SkippedPairs = [k \in 1..top |-> pair(k)]
  BY DEF SkippedPairs
<1>3. \A k \in 1..top :
         /\ at(k) \in toStart..Planned
         /\ k % 2 = 1 => k = 2 * (at(k) - toStart) + 1
         /\ k % 2 # 1 => k = 2 * (at(k) - toStart) + 2
  BY <1>1
<1>4. \A i \in toStart..Planned :
         /\ 2 * (i - toStart) + 1 \in 1..top /\ 2 * (i - toStart) + 2 \in 1..top
         /\ (2 * (i - toStart) + 1) % 2 = 1 /\ at(2 * (i - toStart) + 1) = i
         /\ (2 * (i - toStart) + 2) % 2 # 1 /\ at(2 * (i - toStart) + 2) = i
  BY <1>1
<1>5. \A k \in 1..top : at(k) \in Calls /\ pair(k) \in Events
  <2> SUFFICES ASSUME NEW k \in 1..top
               PROVE  at(k) \in Calls /\ pair(k) \in Events
    OBVIOUS
  <2>1. at(k) \in Calls
    BY <1>1, <1>3 DEF Calls
  <2> HIDE DEF at
  <2> QED
    BY <2>1, EventTypes DEF Outcomes
<1> HIDE DEF at, pair, top
<1>6. SkippedPairs \in Seq(Events) /\ Len(SkippedPairs) = top
  BY <1>1, <1>2, <1>5, IsASeq
<1> USE DEF pair
<1>7. \A k \in 1..top : \E i \in toStart..Planned :
         \/ k = 2 * (i - toStart) + 1 /\ SkippedPairs[k] = CallEvent(i)
         \/ k = 2 * (i - toStart) + 2 /\ SkippedPairs[k] = ResultEvent(i, "notStarted")
  BY <1>2, <1>3
<1>8. \A i \in toStart..Planned :
         /\ SkippedPairs[2 * (i - toStart) + 1] = CallEvent(i)
         /\ SkippedPairs[2 * (i - toStart) + 2] = ResultEvent(i, "notStarted")
  BY <1>2, <1>4
<1> QED
  BY <1>4, <1>6, <1>7, <1>8 DEF top

\* Every step keeps the ranges.
LEMMA TypeStep == ASSUME TypeOK, Control, Told, [Next]_vars PROVE TypeOK'
<1> USE ToolCallsAssumption DEF TypeOK, Calls, Modes, Outcomes, Slots, Stages, PCs
<1>1. CASE Classify
  BY <1>1 DEF Classify, callVars, groupVars
<1>2. CASE Return
  BY <1>2 DEF Return, callVars, groupVars
<1>3. CASE Start
  <2>1. toStart \in Calls
    BY <1>3 DEF Start, CanStart
  <2>2. log' \in Seq(Events)
    BY <1>3, <2>1, EventTypes DEF Start
  <2>3. stage' \in [Calls -> Stages] /\ startedAs' \in [Calls -> Modes \cup {"none"}]
    BY <1>3, <2>1 DEF Start
  <2> QED
    BY <1>3, <2>2, <2>3 DEF Start, groupVars
<1>4. CASE StopFilling
  BY <1>4 DEF StopFilling, callVars, groupVars
<1>5. CASE Prepared
  <2>1. toStart \in Calls /\ toStart + 1 \in 1..(Planned + 1)
    BY <1>5 DEF Prepared, Control
  <2>2. stage' \in [Calls -> Stages] /\ outcome' \in [Calls -> Outcomes \cup {"none"}]
    <3>1. CASE Allowed
      BY <3>1, <2>1 DEF Allowed
    <3>2. CASE NotAllowed
      <4>1. \E o \in Outcomes, slot \in Slots : Settle(toStart, o, slot)
        BY <3>2 DEF NotAllowed
      <4> QED
        BY <4>1, <2>1, SettleTypes
    <3> QED
      BY <1>5, <3>1, <3>2 DEF Prepared
  <2>3. inFlight' \subseteq Calls
    BY <1>5, <2>1 DEF Prepared, Allowed, NotAllowed
  <2> QED
    BY <1>5, <2>1, <2>2, <2>3 DEF Prepared
<1>6. CASE PrepareFails
  BY <1>6 DEF PrepareFails, callVars, groupVars
<1>7. CASE Finish
  <2>1. committed \in Calls /\ outcome[committed] \in Outcomes
    BY <1>7 DEF Finish, HasSlot, Told
  <2>2. CommitResult(outcome[committed])
    BY <1>7 DEF Finish
  <2> QED
    BY <1>7, <2>1, <2>2, CommitTypes DEF Finish
<1>8. CASE Finalize
  BY <1>8 DEF Finalize, callVars, groupVars
<1>9. CASE Finalized
  <2>1. committed \in Calls /\ outcome[committed] \in Outcomes
    BY <1>9 DEF Finalized, Control, Told
  <2>2. \E o \in Outcomes : CommitResult(o)
    <3>1. CASE CommitResult("error")
      BY <3>1
    <3>2. CASE CommitResult(outcome[committed])
      BY <3>2, <2>1
    <3>3. CASE CommitResult(IF signal THEN Cancelled(committed) ELSE "ok")
      BY <3>3 DEF Cancelled
    <3> QED
      BY <1>9, <3>1, <3>2, <3>3 DEF Finalized
  <2> QED
    BY <1>9, <2>1, <2>2, CommitTypes DEF Finalized
<1>10. CASE FinalizeFails
  BY <1>10 DEF FinalizeFails, callVars, groupVars
<1>11. CASE Committed
  BY <1>11 DEF Committed, callVars, groupVars
<1>12. CASE Race
  BY <1>12 DEF Race, callVars, groupVars
<1>13. CASE Drained
  BY <1>13 DEF Drained, callVars, groupVars
<1>14. CASE Regroup
  BY <1>14 DEF Regroup, callVars, groupVars
<1>15. CASE Skip
  <2>1. log' \in Seq(Events)
    BY <1>15, SkippedShape DEF Skip
  <2> QED
    BY <1>15, <2>1 DEF Skip, groupVars
<1>16. ASSUME NEW i \in Calls, WrapperAnswers(i) PROVE TypeOK'
  <2>1. \E o \in Outcomes, slot \in Slots : Settle(i, o, slot)
    BY <1>16 DEF WrapperAnswers
  <2> QED
    BY <1>16, <2>1, SettleTypes DEF WrapperAnswers, groupVars
<1>17. ASSUME NEW i \in Calls, BodyRefused(i) PROVE TypeOK'
  <2>1. \E o \in Outcomes, slot \in Slots : Settle(i, o, slot)
    BY <1>17 DEF BodyRefused
  <2> QED
    BY <1>17, <2>1, SettleTypes DEF BodyRefused, groupVars
<1>18. ASSUME NEW i \in Calls, BodyStarts(i) PROVE TypeOK'
  BY <1>18 DEF BodyStarts, callVars, groupVars
<1>19. ASSUME NEW i \in Calls, BodyEnds(i) PROVE TypeOK'
  <2>1. \E o \in Outcomes, slot \in Slots : Settle(i, o, slot)
    BY <1>19 DEF BodyEnds
  <2> QED
    BY <1>19, <2>1, SettleTypes DEF BodyEnds, groupVars
<1>20. ASSUME NEW i \in Calls, Breaks(i) PROVE TypeOK'
  BY <1>20 DEF Breaks, callVars, groupVars
<1>21. ASSUME NEW i \in Calls, Reclassify(i) PROVE TypeOK'
  BY <1>21 DEF Reclassify, callVars, groupVars
<1>22. CASE Abort
  BY <1>22 DEF Abort, callVars, groupVars
<1>23. CASE UNCHANGED vars
  BY <1>23 DEF vars, callVars, groupVars
<1> QED
  BY <1>1, <1>2, <1>3, <1>4, <1>5, <1>6, <1>7, <1>8, <1>9, <1>10, <1>11, <1>12,
     <1>13, <1>14, <1>15, <1>16, <1>17, <1>18, <1>19, <1>20, <1>21, <1>22, <1>23
     DEF Next, Scheduler, Dispatch, Over

\* What a step of a dispatched call is, whichever it is.
LEMMA DispatchFacts ==
    ASSUME IInv, NEW i \in Calls, Dispatch(i)
    PROVE  /\ stage[i] \in {"wrapping", "body"}
           /\ committed <= i /\ i < toStart /\ i \in inFlight
           /\ pc \notin {"classify", "fill", "closing", "returned", "threw"}
           /\ \E s \in Pooled : stage' = [stage EXCEPT ![i] = s]
           /\ stage'[i] = "broken" => failed'
           /\ failed => failed'
           /\ UNCHANGED <<class, signal, pc, startedAs, log, groupVars>>
<1> USE DEF Settle, Slots, Pooled
<1>1. stage[i] \in {"wrapping", "body"} /\ Waits
  BY DEF Dispatch, WrapperAnswers, BodyRefused, BodyStarts, BodyEnds, Breaks
<1>2. /\ \E s \in Pooled : stage' = [stage EXCEPT ![i] = s]
      /\ UNCHANGED <<class, signal, pc, startedAs, log, groupVars>>
  BY DEF Dispatch, WrapperAnswers, BodyRefused, BodyStarts, BodyEnds, Breaks
<1>3. i \in inFlight
  BY <1>1 DEF IInv, Flights, Running
<1>4. committed <= i /\ i < toStart
  BY <1>1 DEF IInv, Places, TypeOK, Calls
<1>5. pc \notin {"classify", "fill", "closing", "returned", "threw"}
  BY <1>1, <1>3 DEF IInv, Control, Flights, Running, Waits
<1>6. (stage'[i] = "broken" => failed') /\ (failed => failed')
  <2>1. CASE Breaks(i)
    BY <2>1 DEF Breaks
  <2>2. CASE WrapperAnswers(i) \/ BodyRefused(i) \/ BodyStarts(i) \/ BodyEnds(i)
    BY <2>2 DEF IInv, TypeOK, WrapperAnswers, BodyRefused, BodyStarts, BodyEnds
  <2> QED
    BY <2>1, <2>2 DEF Dispatch
<1> QED
  BY <1>1, <1>2, <1>3, <1>4, <1>5, <1>6

\* What a commit is, whether the result was final or had a policy to pass.
LEMMA CommitFacts ==
    ASSUME IInv, Finish \/ Finalized
    PROVE  /\ committed \in Calls /\ committed < toStart
           /\ stage[committed] \in Slots
           /\ \E o \in Outcomes :
                 /\ CommitResult(o)
                 /\ o = "notStarted" => ~invoked[committed]
                 /\ o = "aborted" => invoked[committed]
           /\ pc \in {"committing", "finalizing"} /\ pc' = "committing"
           /\ UNCHANGED <<class, failed, base, last, mode, toStart, aborted, inFlight, invoked,
                          startedAs>>
<1>1. committed \in Calls /\ committed < toStart /\ stage[committed] \in Slots
  <2>1. CASE Finish
    <3>1. committed \in Calls /\ stage[committed] = "final"
      BY <2>1, ToolCallsAssumption DEF Finish, HasSlot, IInv, TypeOK, Calls
    <3>2. committed < toStart
      BY <3>1 DEF IInv, Control, Places, Calls, TypeOK
    <3> QED
      BY <3>1, <3>2 DEF Slots
  <2>2. CASE Finalized
    BY <2>2, ToolCallsAssumption DEF Finalized, IInv, Control, TypeOK, Calls, Slots
  <2> QED
    BY <2>1, <2>2
<1>2. \E o \in Outcomes : /\ CommitResult(o)
                          /\ o = "notStarted" => ~invoked[committed]
                          /\ o = "aborted" => invoked[committed]
  <2>1. outcome[committed] \in Outcomes
    BY <1>1 DEF IInv, TypeOK, Told
  <2>2. /\ outcome[committed] = "notStarted" => ~invoked[committed]
        /\ outcome[committed] = "aborted" => invoked[committed]
    BY <1>1 DEF IInv, Told
  <2>3. CASE CommitResult(outcome[committed])
    BY <2>1, <2>2, <2>3
  <2>4. CASE CommitResult("error")
    BY <2>4 DEF Outcomes
  <2>5. CASE CommitResult(IF signal THEN Cancelled(committed) ELSE "ok")
    BY <2>5 DEF Outcomes, Cancelled
  <2> QED
    BY <2>3, <2>4, <2>5 DEF Finish, Finalized
<1>3. /\ pc \in {"committing", "finalizing"} /\ pc' = "committing"
      /\ UNCHANGED <<class, failed, base, last, mode, toStart, aborted, inFlight, invoked,
                     startedAs>>
  BY DEF Finish, Finalized
<1> QED
  BY <1>1, <1>2, <1>3

\* Every step keeps the scheduler where it belongs.
LEMMA ControlStep == ASSUME IInv, TypeOK', [Next]_vars PROVE Control'
<1>1. CASE Finish
  <2>1. IInv
    OBVIOUS
  <2>2. /\ committed \in Calls /\ committed < toStart
        /\ pc \in {"committing", "finalizing"} /\ pc' = "committing"
        /\ committed' = committed + 1 /\ stage' = [stage EXCEPT ![committed] = "done"]
        /\ UNCHANGED <<class, failed, base, last, mode, toStart, aborted, inFlight, startedAs>>
    BY <2>1, <1>1, CommitFacts DEF CommitResult
  <2> QED
    BY <2>1, <2>2 DEF IInv, TypeOK, Calls, Control, Places, Pooled, HasSlot, Slots
<1>2. CASE Finalized
  <2>1. IInv
    OBVIOUS
  <2>2. /\ committed \in Calls /\ committed < toStart
        /\ pc \in {"committing", "finalizing"} /\ pc' = "committing"
        /\ committed' = committed + 1 /\ stage' = [stage EXCEPT ![committed] = "done"]
        /\ UNCHANGED <<class, failed, base, last, mode, toStart, aborted, inFlight, startedAs>>
    BY <2>1, <1>2, CommitFacts DEF CommitResult
  <2> QED
    BY <2>1, <2>2 DEF IInv, TypeOK, Calls, Control, Places, Pooled, HasSlot, Slots
<1>3. ASSUME NEW i \in Calls, Dispatch(i) PROVE Control'
  <2>1. IInv
    OBVIOUS
  <2>2. /\ committed <= i /\ i < toStart /\ i \in inFlight
        /\ stage[i] \in {"wrapping", "body"}
        /\ pc \notin {"classify", "fill", "closing", "returned", "threw"}
        /\ UNCHANGED <<class, signal, pc, startedAs, base, last, mode, toStart, committed,
                       aborted, inFlight>>
    BY <2>1, <1>3, DispatchFacts DEF groupVars
  <2>3. PICK s \in Pooled : stage' = [stage EXCEPT ![i] = s]
    BY <2>1, <1>3, DispatchFacts
  <2>4. (stage'[i] = "broken" => failed') /\ (failed => failed')
    BY <2>1, <1>3, DispatchFacts
  <2> QED
    BY <2>1, <2>2, <2>3, <2>4 DEF IInv, TypeOK, Calls, Control, Places, Pooled, HasSlot, Slots
<1> USE ToolCallsAssumption DEF IInv, TypeOK, Calls, Modes, Control, Places, Flights, Running, Pooled, HasSlot
<1>4. CASE Classify
  BY <1>4 DEF Classify, Slots, callVars, groupVars
<1>5. CASE Return
  BY <1>5 DEF Return, callVars, groupVars
<1>6. CASE Start
  BY <1>6 DEF Start, CanStart, callVars, groupVars
<1>7. CASE StopFilling
  BY <1>7 DEF StopFilling, HasSlot, CanStart, callVars, groupVars
<1>8. CASE Prepared
  BY <1>8 DEF Prepared, Allowed, NotAllowed, Settle, Slots, HasSlot, callVars, groupVars
<1>9. CASE PrepareFails
  BY <1>9 DEF PrepareFails, callVars, groupVars
<1>10. CASE Finalize
  BY <1>10 DEF Finalize, HasSlot, Slots, callVars, groupVars
<1>11. CASE FinalizeFails
  BY <1>11 DEF FinalizeFails, callVars, groupVars
<1>12. CASE Committed
  BY <1>12 DEF Committed, HasSlot, callVars, groupVars
<1>13. CASE Race
  BY <1>13 DEF Race, callVars, groupVars
<1>14. CASE Drained
  BY <1>14 DEF Drained, callVars, groupVars
<1>15. CASE Regroup
  BY <1>15 DEF Regroup, callVars, groupVars
<1>16. CASE Skip
  BY <1>16 DEF Skip, callVars, groupVars
<1>17. ASSUME NEW i \in Calls, Reclassify(i) PROVE Control'
  BY <1>17 DEF Reclassify, Waits, callVars, groupVars
<1>18. CASE Abort
  BY <1>18 DEF Abort, Waits, callVars, groupVars
<1>19. CASE UNCHANGED vars
  BY <1>19 DEF vars, callVars, groupVars
<1> QED
  BY <1>4, <1>5, <1>6, <1>7, <1>8, <1>9, <1>1, <1>10, <1>2, <1>11, <1>12, <1>13,
     <1>14, <1>15, <1>16, <1>3, <1>17, <1>18, <1>19
     DEF Next, Scheduler, Over

\* Every step keeps the calls where they belong.
LEMMA PlacesStep == ASSUME IInv, TypeOK', [Next]_vars PROVE Places'
<1>1. CASE Finish
  <2>1. IInv
    OBVIOUS
  <2>2. /\ committed \in Calls /\ committed < toStart
        /\ pc \in {"committing", "finalizing"} /\ pc' = "committing"
        /\ committed' = committed + 1 /\ stage' = [stage EXCEPT ![committed] = "done"]
        /\ UNCHANGED <<class, failed, base, last, mode, toStart, aborted, inFlight, startedAs>>
    BY <2>1, <1>1, CommitFacts DEF CommitResult
  <2> QED
    BY <2>1, <2>2 DEF IInv, TypeOK, Calls, Control, Places, Pooled, HasSlot, Slots
<1>2. CASE Finalized
  <2>1. IInv
    OBVIOUS
  <2>2. /\ committed \in Calls /\ committed < toStart
        /\ pc \in {"committing", "finalizing"} /\ pc' = "committing"
        /\ committed' = committed + 1 /\ stage' = [stage EXCEPT ![committed] = "done"]
        /\ UNCHANGED <<class, failed, base, last, mode, toStart, aborted, inFlight, startedAs>>
    BY <2>1, <1>2, CommitFacts DEF CommitResult
  <2> QED
    BY <2>1, <2>2 DEF IInv, TypeOK, Calls, Control, Places, Pooled, HasSlot, Slots
<1>3. ASSUME NEW i \in Calls, Dispatch(i) PROVE Places'
  <2>1. IInv
    OBVIOUS
  <2>2. /\ committed <= i /\ i < toStart /\ i \in inFlight
        /\ stage[i] \in {"wrapping", "body"}
        /\ pc \notin {"classify", "fill", "closing", "returned", "threw"}
        /\ UNCHANGED <<class, signal, pc, startedAs, base, last, mode, toStart, committed,
                       aborted, inFlight>>
    BY <2>1, <1>3, DispatchFacts DEF groupVars
  <2>3. PICK s \in Pooled : stage' = [stage EXCEPT ![i] = s]
    BY <2>1, <1>3, DispatchFacts
  <2>4. (stage'[i] = "broken" => failed') /\ (failed => failed')
    BY <2>1, <1>3, DispatchFacts
  <2> QED
    BY <2>1, <2>2, <2>3, <2>4 DEF IInv, TypeOK, Calls, Control, Places, Pooled, HasSlot, Slots
<1> USE ToolCallsAssumption DEF IInv, TypeOK, Calls, Modes, Control, Places, Pooled, Slots, HasSlot
<1>4. CASE Classify
  BY <1>4 DEF Classify, Slots, callVars, groupVars
<1>5. CASE Return
  BY <1>5 DEF Return, callVars, groupVars
<1>6. CASE Start
  BY <1>6 DEF Start, CanStart, callVars, groupVars
<1>7. CASE StopFilling
  BY <1>7 DEF StopFilling, HasSlot, CanStart, callVars, groupVars
<1>8. CASE Prepared
  BY <1>8 DEF Prepared, Allowed, NotAllowed, Settle, Slots, HasSlot, callVars, groupVars
<1>9. CASE PrepareFails
  BY <1>9 DEF PrepareFails, callVars, groupVars
<1>10. CASE Finalize
  BY <1>10 DEF Finalize, HasSlot, Slots, callVars, groupVars
<1>11. CASE FinalizeFails
  BY <1>11 DEF FinalizeFails, callVars, groupVars
<1>12. CASE Committed
  BY <1>12 DEF Committed, HasSlot, callVars, groupVars
<1>13. CASE Race
  BY <1>13 DEF Race, callVars, groupVars
<1>14. CASE Drained
  BY <1>14 DEF Drained, callVars, groupVars
<1>15. CASE Regroup
  BY <1>15 DEF Regroup, callVars, groupVars
<1>16. CASE Skip
  BY <1>16 DEF Skip, callVars, groupVars
<1>17. ASSUME NEW i \in Calls, Reclassify(i) PROVE Places'
  BY <1>17 DEF Reclassify, Waits, callVars, groupVars
<1>18. CASE Abort
  BY <1>18 DEF Abort, Waits, callVars, groupVars
<1>19. CASE UNCHANGED vars
  BY <1>19 DEF vars, callVars, groupVars
<1> QED
  BY <1>4, <1>5, <1>6, <1>7, <1>8, <1>9, <1>1, <1>10, <1>2, <1>11, <1>12, <1>13,
     <1>14, <1>15, <1>16, <1>3, <1>17, <1>18, <1>19
     DEF Next, Scheduler, Over

\* Every step keeps what runs in flight, and the pool within its cap.
LEMMA FlightsStep == ASSUME IInv, TypeOK', [Next]_vars PROVE Flights'
<1>1. CASE Prepared
  <2>1. toStart \in Calls /\ toStart \notin inFlight /\ IsFiniteSet(inFlight)
    <3>1. IsFiniteSet(Calls)
      BY FS_Interval, ToolCallsAssumption DEF Calls
    <3>2. IsFiniteSet(inFlight)
      BY <3>1, FS_Subset DEF IInv, TypeOK
    <3>3. toStart \in Calls
      BY <1>1, ToolCallsAssumption DEF IInv, Prepared, Control, TypeOK, Calls
    <3>4. toStart \notin inFlight
      BY <3>3 DEF IInv, Flights, TypeOK
    <3> QED
      BY <3>2, <3>3, <3>4
  <2>2. Cardinality(inFlight') <= MaxParallel
    <3>1. CASE inFlight' = inFlight
      BY <3>1 DEF IInv, Flights
    <3>2. CASE inFlight' = inFlight \cup {toStart}
      <4>1. Cardinality(inFlight') = Cardinality(inFlight) + 1 /\ Cardinality(inFlight) \in Nat
        BY <2>1, <3>2, FS_AddElement, FS_CardinalityType
      <4> QED
        BY <4>1, <1>1, ToolCallsAssumption DEF IInv, Flights, Prepared
    <3> QED
      BY <1>1, <3>1, <3>2 DEF Prepared, Allowed, NotAllowed
  <2>3. /\ stage[toStart] \in {"refused", "gating"}
        /\ \E s \in Pooled : stage' = [stage EXCEPT ![toStart] = s]
        /\ stage'[toStart] \in {"wrapping", "body"} => inFlight' = inFlight \cup {toStart}
        /\ stage'[toStart] # "broken"
        /\ inFlight' \in {inFlight, inFlight \cup {toStart}}
    BY <1>1, <2>1 DEF IInv, TypeOK, Prepared, Allowed, NotAllowed, Settle, Slots, Pooled
  <2>4. /\ toStart' = toStart + 1 /\ pc = "preparing" /\ pc' = "committing"
        /\ UNCHANGED <<failed, base, mode, startedAs>>
    BY <1>1 DEF Prepared
  <2> QED
    BY <2>1, <2>2, <2>3, <2>4 DEF IInv, TypeOK, Control, Flights, Running, Pooled, Calls, Slots
<1>2. CASE Finish
  <2>1. IInv
    OBVIOUS
  <2>2. /\ committed \in Calls /\ committed < toStart
        /\ pc \in {"committing", "finalizing"} /\ pc' = "committing"
        /\ committed' = committed + 1 /\ stage' = [stage EXCEPT ![committed] = "done"]
        /\ UNCHANGED <<class, failed, base, last, mode, toStart, aborted, inFlight, startedAs>>
    BY <2>1, <1>2, CommitFacts DEF CommitResult
  <2> QED
    BY <2>1, <2>2 DEF IInv, TypeOK, Calls, Control, Places, Flights, Running, Pooled, HasSlot, Slots
<1>3. CASE Finalized
  <2>1. IInv
    OBVIOUS
  <2>2. /\ committed \in Calls /\ committed < toStart
        /\ pc \in {"committing", "finalizing"} /\ pc' = "committing"
        /\ committed' = committed + 1 /\ stage' = [stage EXCEPT ![committed] = "done"]
        /\ UNCHANGED <<class, failed, base, last, mode, toStart, aborted, inFlight, startedAs>>
    BY <2>1, <1>3, CommitFacts DEF CommitResult
  <2> QED
    BY <2>1, <2>2 DEF IInv, TypeOK, Calls, Control, Places, Flights, Running, Pooled, HasSlot, Slots
<1>4. CASE Race
  <2>1. PICK i \in inFlight : HasSettled(i) /\ inFlight' = inFlight \ {i}
    BY <1>4 DEF Race
  <2>2. IsFiniteSet(inFlight)
    <3>1. IsFiniteSet(Calls)
      BY FS_Interval, ToolCallsAssumption DEF Calls
    <3> QED
      BY <3>1, FS_Subset DEF IInv, TypeOK
  <2>3. Cardinality(inFlight') <= MaxParallel
    <3>1. Cardinality(inFlight') = Cardinality(inFlight) - 1 /\ Cardinality(inFlight) \in Nat
      BY <2>1, <2>2, FS_RemoveElement, FS_CardinalityType
    <3> QED
      BY <3>1, ToolCallsAssumption DEF IInv, Flights
  <2> QED
    BY <1>4, <2>1, <2>3 DEF Race, HasSettled, Slots, IInv, Flights, Running, callVars
<1>5. ASSUME NEW i \in Calls, Dispatch(i) PROVE Flights'
  <2>1. IInv
    OBVIOUS
  <2>2. /\ committed <= i /\ i < toStart /\ i \in inFlight
        /\ stage[i] \in {"wrapping", "body"}
        /\ pc \notin {"classify", "fill", "closing", "returned", "threw"}
        /\ UNCHANGED <<class, signal, pc, startedAs, base, last, mode, toStart, committed,
                       aborted, inFlight>>
    BY <2>1, <1>5, DispatchFacts DEF groupVars
  <2>3. PICK s \in Pooled : stage' = [stage EXCEPT ![i] = s]
    BY <2>1, <1>5, DispatchFacts
  <2>4. (stage'[i] = "broken" => failed') /\ (failed => failed')
    BY <2>1, <1>5, DispatchFacts
  <2> QED
    BY <2>1, <2>2, <2>3, <2>4 DEF IInv, TypeOK, Calls, Control, Places, Flights, Running, Pooled, HasSlot, Slots
<1> USE ToolCallsAssumption DEF IInv, TypeOK, Calls, Control, Places, Flights, Running, Pooled, HasSlot, Slots, Modes
<1>6. CASE Classify
  BY <1>6 DEF Classify, Slots, callVars, groupVars
<1>7. CASE Return
  BY <1>7 DEF Return, callVars, groupVars
<1>8. CASE Start
  BY <1>8 DEF Start, CanStart, callVars, groupVars
<1>9. CASE StopFilling
  BY <1>9 DEF StopFilling, HasSlot, CanStart, callVars, groupVars
<1>10. CASE PrepareFails
  BY <1>10 DEF PrepareFails, callVars, groupVars
<1>11. CASE Finalize
  BY <1>11 DEF Finalize, HasSlot, Slots, callVars, groupVars
<1>12. CASE FinalizeFails
  BY <1>12 DEF FinalizeFails, callVars, groupVars
<1>13. CASE Committed
  BY <1>13 DEF Committed, HasSlot, callVars, groupVars
<1>14. CASE Drained
  BY <1>14 DEF Drained, HasSettled, callVars, groupVars
<1>15. CASE Regroup
  BY <1>15 DEF Regroup, callVars, groupVars
<1>16. CASE Skip
  BY <1>16 DEF Skip, callVars, groupVars
<1>17. ASSUME NEW i \in Calls, Reclassify(i) PROVE Flights'
  BY <1>17 DEF Reclassify, Waits, callVars, groupVars
<1>18. CASE Abort
  BY <1>18 DEF Abort, Waits, callVars, groupVars
<1>19. CASE UNCHANGED vars
  BY <1>19 DEF vars, callVars, groupVars
<1> QED
  BY <1>6, <1>7, <1>8, <1>9, <1>1, <1>10, <1>2, <1>11, <1>3, <1>12, <1>13, <1>4,
     <1>14, <1>15, <1>16, <1>5, <1>17, <1>18, <1>19
     DEF Next, Scheduler, Over

\* A settled call is honest if its outcome is.
LEMMA SettleTold ==
    ASSUME IInv, NEW i \in Calls, NEW o \in Outcomes, NEW slot \in Slots, Settle(i, o, slot),
           o = "notStarted" => ~invoked[i],
           o = "aborted" => invoked[i],
           UNCHANGED invoked
    PROVE  Told'
BY DEF IInv, TypeOK, Settle, Slots, Outcomes, Told

\* Every step keeps outcomes honest.
LEMMA ToldStep == ASSUME IInv, TypeOK', [Next]_vars PROVE Told'
<1>1. CASE Prepared
  <2>1. toStart \in Calls
    BY <1>1, ToolCallsAssumption DEF Prepared, IInv, Control, TypeOK, Calls
  <2>2. UNCHANGED invoked
    BY <1>1 DEF Prepared
  <2>3. ~invoked[toStart]
    BY <1>1, <2>1 DEF Prepared, IInv, Told, Places, Slots
  <2>4. CASE Allowed
    BY <2>1, <2>2, <2>3, <2>4 DEF Allowed, IInv, TypeOK, Told, Slots
  <2>5. CASE NotAllowed
    <3>1. \E o \in Outcomes, slot \in Slots :
             Settle(toStart, o, slot) /\ o # "aborted"
      BY <2>5 DEF NotAllowed, Outcomes, Slots
    <3> QED
      BY <3>1, <2>1, <2>2, <2>3, SettleTold
  <2> QED
    BY <1>1, <2>4, <2>5 DEF Prepared
<1>2. CASE Finish
  <2>1. IInv
    OBVIOUS
  <2>2. PICK o \in Outcomes : /\ CommitResult(o)
                              /\ o = "notStarted" => ~invoked[committed]
                              /\ o = "aborted" => invoked[committed]
    BY <2>1, <1>2, CommitFacts
  <2>3. committed \in Calls /\ UNCHANGED invoked
    BY <2>1, <1>2, CommitFacts
  <2> QED
    BY <2>1, <2>2, <2>3 DEF CommitResult, IInv, TypeOK, Told, Outcomes, Slots
<1>3. CASE Finalized
  <2>1. IInv
    OBVIOUS
  <2>2. PICK o \in Outcomes : /\ CommitResult(o)
                              /\ o = "notStarted" => ~invoked[committed]
                              /\ o = "aborted" => invoked[committed]
    BY <2>1, <1>3, CommitFacts
  <2>3. committed \in Calls /\ UNCHANGED invoked
    BY <2>1, <1>3, CommitFacts
  <2> QED
    BY <2>1, <2>2, <2>3 DEF CommitResult, IInv, TypeOK, Told, Outcomes, Slots
<1>4. CASE Skip
  <2>1. \A i \in Calls : i >= toStart => stage[i] = "waiting"
    BY <1>4, ToolCallsAssumption DEF Skip, IInv, TypeOK, Places, Calls
  <2>2. /\ stage' = [i \in Calls |-> IF i >= toStart THEN "skipped" ELSE stage[i]]
        /\ outcome' = [i \in Calls |-> IF i >= toStart THEN "notStarted" ELSE outcome[i]]
        /\ UNCHANGED invoked
    BY <1>4 DEF Skip
  <2> QED
    BY <2>1, <2>2 DEF IInv, TypeOK, Told, Slots
<1>5. ASSUME NEW i \in Calls, WrapperAnswers(i) PROVE Told'
  <2>1. \E o \in Outcomes, slot \in Slots :
           /\ Settle(i, o, slot)
           /\ o = "notStarted" => ~invoked[i]
           /\ o = "aborted" => invoked[i]
    BY <1>5 DEF WrapperAnswers, IInv, Told, Outcomes, Slots
  <2>2. UNCHANGED invoked
    BY <1>5 DEF WrapperAnswers
  <2> QED
    BY <2>1, <2>2, SettleTold
<1>6. ASSUME NEW i \in Calls, BodyRefused(i) PROVE Told'
  <2>1. \E o \in Outcomes, slot \in Slots :
           /\ Settle(i, o, slot)
           /\ o = "notStarted" => ~invoked[i]
           /\ o = "aborted" => invoked[i]
    BY <1>6 DEF BodyRefused, IInv, Told, Outcomes, Slots
  <2>2. UNCHANGED invoked
    BY <1>6 DEF BodyRefused
  <2> QED
    BY <2>1, <2>2, SettleTold
<1>7. ASSUME NEW i \in Calls, BodyEnds(i) PROVE Told'
  <2>1. \E o \in Outcomes, slot \in Slots :
           /\ Settle(i, o, slot)
           /\ o = "notStarted" => ~invoked[i]
           /\ o = "aborted" => invoked[i]
    BY <1>7 DEF BodyEnds, IInv, Told, Outcomes, Slots
  <2>2. UNCHANGED invoked
    BY <1>7 DEF BodyEnds
  <2> QED
    BY <2>1, <2>2, SettleTold
<1> USE ToolCallsAssumption DEF IInv, TypeOK, Calls, Outcomes, Slots, Told, Places, Control, Pooled
<1>8. CASE Classify
  BY <1>8 DEF Classify, callVars, groupVars
<1>9. CASE Return
  BY <1>9 DEF Return, callVars, groupVars
<1>10. CASE Start
  <2>1. toStart \in Calls
    BY <1>10 DEF Start, CanStart
  <2>2. ~invoked[toStart]
    BY <1>10, <2>1 DEF Start, CanStart
  <2>3. \A i \in Calls : \/ i = toStart /\ stage'[i] \in {"refused", "gating"}
                         \/ i # toStart /\ stage'[i] = stage[i]
    BY <1>10 DEF Start
  <2>4. UNCHANGED <<invoked, outcome>>
    BY <1>10 DEF Start
  <2> QED
    BY <2>1, <2>2, <2>3, <2>4
<1>11. CASE StopFilling
  BY <1>11 DEF StopFilling, callVars, groupVars
<1>12. CASE PrepareFails
  <2>1. toStart \in Calls
    BY <1>12 DEF PrepareFails
  <2>2. ~invoked[toStart]
    BY <1>12, <2>1 DEF PrepareFails
  <2>3. \A i \in Calls : stage'[i] = IF i = toStart THEN "dropped" ELSE stage[i]
    BY <1>12 DEF PrepareFails
  <2>4. UNCHANGED <<invoked, outcome>>
    BY <1>12 DEF PrepareFails
  <2> QED
    BY <2>1, <2>2, <2>3, <2>4
<1>13. CASE Finalize
  BY <1>13 DEF Finalize, callVars, groupVars
<1>14. CASE FinalizeFails
  BY <1>14 DEF FinalizeFails, callVars, groupVars
<1>15. CASE Committed
  BY <1>15 DEF Committed, callVars, groupVars
<1>16. CASE Race
  BY <1>16 DEF Race, callVars, groupVars
<1>17. CASE Drained
  BY <1>17 DEF Drained, callVars, groupVars
<1>18. CASE Regroup
  BY <1>18 DEF Regroup, callVars, groupVars
<1>19. ASSUME NEW i \in Calls, BodyStarts(i) PROVE Told'
  BY <1>19 DEF BodyStarts, callVars, groupVars
<1>20. ASSUME NEW i \in Calls, Breaks(i) PROVE Told'
  BY <1>20 DEF Breaks, callVars, groupVars
<1>21. ASSUME NEW i \in Calls, Reclassify(i) PROVE Told'
  BY <1>21 DEF Reclassify, callVars, groupVars
<1>22. CASE Abort
  BY <1>22 DEF Abort, callVars, groupVars
<1>23. CASE UNCHANGED vars
  BY <1>23 DEF vars, callVars, groupVars
<1> QED
  BY <1>8, <1>9, <1>10, <1>11, <1>1, <1>12, <1>2, <1>13, <1>3, <1>14, <1>15, <1>16,
     <1>17, <1>18, <1>4, <1>5, <1>6, <1>19, <1>7, <1>20, <1>21, <1>22, <1>23
     DEF Next, Scheduler, Dispatch, Over

\* The events of the log, one by one.
LEMMA LogEvents ==
    ASSUME TypeOK
    PROVE  /\ Len(log) \in Nat /\ DOMAIN log = 1..Len(log)
           /\ \A n \in DOMAIN log :
                 /\ log[n].type \in {"tool/call", "tool/result"}
                 /\ log[n].call \in Calls
                 /\ log[n].outcome \in Outcomes \cup {"none"}
<1>1. \A n \in DOMAIN log : log[n] \in Events
  BY ElementOfSeq DEF TypeOK
<1>2. Len(log) \in Nat /\ DOMAIN log = 1..Len(log)
  BY DEF TypeOK
<1> QED
  BY <1>1, <1>2 DEF Events

\* A step that appends nothing, calls or answers nobody and changes no answer.
LEMMA OtherSteps ==
    ASSUME IInv, UNCHANGED log,
           \A i \in Calls : /\ stage'[i] = "waiting" <=> stage[i] = "waiting"
                            /\ stage'[i] \in {"done", "skipped"} <=> stage[i] \in {"done", "skipped"}
                            /\ stage[i] \in {"done", "skipped"} => outcome'[i] = outcome[i]
    PROVE  Recorded'
BY LogEvents DEF IInv, Recorded

\* One event more.
LEMMA Appends ==
    ASSUME TypeOK, NEW e \in Events, log' = Append(log, e)
    PROVE  /\ DOMAIN log = 1..Len(log) /\ Len(log) \in Nat
           /\ DOMAIN log' = 1..(Len(log) + 1)
           /\ \A n \in DOMAIN log : log'[n] = log[n]
           /\ log'[Len(log) + 1] = e
BY AppendProperties DEF TypeOK

\* What Skip appends: a pair for every call not started.
LEMMA SkipsAppend ==
    ASSUME TypeOK, Skip
    PROVE  /\ DOMAIN log = 1..Len(log) /\ Len(log) \in Nat
           /\ DOMAIN log' = 1..(Len(log) + 2 * (Planned + 1 - toStart))
           /\ \A n \in DOMAIN log : log'[n] = log[n]
           /\ \A n \in DOMAIN log' \ DOMAIN log : \E i \in toStart..Planned :
                 \/ n = Len(log) + 2 * (i - toStart) + 1 /\ log'[n] = CallEvent(i)
                 \/ n = Len(log) + 2 * (i - toStart) + 2 /\ log'[n] = ResultEvent(i, "notStarted")
           /\ \A i \in toStart..Planned :
                 /\ Len(log) + 2 * (i - toStart) + 1 \in DOMAIN log' \ DOMAIN log
                 /\ log'[Len(log) + 2 * (i - toStart) + 1] = CallEvent(i)
                 /\ Len(log) + 2 * (i - toStart) + 2 \in DOMAIN log' \ DOMAIN log
                 /\ log'[Len(log) + 2 * (i - toStart) + 2] = ResultEvent(i, "notStarted")
<1> DEFINE L == Len(log)
           s == SkippedPairs
<1>1. /\ log \in Seq(Events) /\ s \in Seq(Events) /\ log' = log \o s
      /\ toStart \in 1..(Planned + 1) /\ Planned \in Nat
      /\ Len(s) = 2 * (Planned + 1 - toStart)
  BY SkippedShape, ToolCallsAssumption DEF TypeOK, Skip
<1>2. /\ \A k \in 1..Len(s) : \E i \in toStart..Planned :
           \/ k = 2 * (i - toStart) + 1 /\ s[k] = CallEvent(i)
           \/ k = 2 * (i - toStart) + 2 /\ s[k] = ResultEvent(i, "notStarted")
      /\ \A i \in toStart..Planned :
           /\ 2 * (i - toStart) + 1 \in 1..Len(s) /\ s[2 * (i - toStart) + 1] = CallEvent(i)
           /\ 2 * (i - toStart) + 2 \in 1..Len(s)
           /\ s[2 * (i - toStart) + 2] = ResultEvent(i, "notStarted")
  BY SkippedShape
<1> HIDE DEF s
<1>3. /\ L \in Nat /\ Len(s) \in Nat /\ DOMAIN log = 1..L
      /\ DOMAIN log' = 1..(L + Len(s))
      /\ \A n \in 1..L : log'[n] = log[n]
      /\ \A k \in 1..Len(s) : L + k \in 1..(L + Len(s)) /\ log'[L + k] = s[k]
  <2>1. /\ L \in Nat /\ Len(s) \in Nat /\ DOMAIN log = 1..L
        /\ Len(log \o s) = L + Len(s) /\ log \o s \in Seq(Events)
    <3>1. L \in Nat /\ Len(s) \in Nat /\ DOMAIN log = 1..L
      BY <1>1
    <3>2. Len(log \o s) = L + Len(s)
      BY <1>1
    <3>3. log \o s \in Seq(Events)
      BY <1>1
    <3> QED
      BY <3>1, <3>2, <3>3
  <2>2. \A n \in 1..(L + Len(s)) : (log \o s)[n] = IF n <= L THEN log[n] ELSE s[n - L]
    BY <1>1, <2>1
  <2>3. \A n \in 1..L : log'[n] = log[n]
    BY <1>1, <2>1, <2>2
  <2>4. \A k \in 1..Len(s) : L + k \in 1..(L + Len(s)) /\ (L + k) - L = k /\ ~(L + k <= L)
    BY <2>1
  <2>5. \A k \in 1..Len(s) : L + k \in 1..(L + Len(s)) /\ log'[L + k] = s[k]
    BY <1>1, <2>2, <2>4
  <2> QED
    BY <1>1, <2>1, <2>3, <2>5
<1> HIDE DEF L
<1>4. ASSUME NEW n \in DOMAIN log' \ DOMAIN log
      PROVE  \E i \in toStart..Planned :
                \/ n = L + 2 * (i - toStart) + 1 /\ log'[n] = CallEvent(i)
                \/ n = L + 2 * (i - toStart) + 2 /\ log'[n] = ResultEvent(i, "notStarted")
  <2>1. n - L \in 1..Len(s) /\ L + (n - L) = n
    BY <1>3
  <2>2. log'[n] = s[n - L]
    BY <1>3, <2>1
  <2>3. PICK i \in toStart..Planned :
           \/ n - L = 2 * (i - toStart) + 1 /\ s[n - L] = CallEvent(i)
           \/ n - L = 2 * (i - toStart) + 2 /\ s[n - L] = ResultEvent(i, "notStarted")
    BY <1>2, <2>1
  <2>4. \/ n = L + 2 * (i - toStart) + 1 /\ log'[n] = CallEvent(i)
        \/ n = L + 2 * (i - toStart) + 2 /\ log'[n] = ResultEvent(i, "notStarted")
    <3>1. n \in Int /\ L \in Int /\ i \in Int /\ toStart \in Int
      BY <1>1, <1>3
    <3> QED
      BY <2>2, <2>3, <3>1
  <2> QED
    BY <2>4
<1>5. ASSUME NEW i \in toStart..Planned
      PROVE  /\ L + 2 * (i - toStart) + 1 \in DOMAIN log' \ DOMAIN log
             /\ log'[L + 2 * (i - toStart) + 1] = CallEvent(i)
             /\ L + 2 * (i - toStart) + 2 \in DOMAIN log' \ DOMAIN log
             /\ log'[L + 2 * (i - toStart) + 2] = ResultEvent(i, "notStarted")
  <2> DEFINE a == 2 * (i - toStart) + 1
             b == 2 * (i - toStart) + 2
  <2>1. a \in 1..Len(s) /\ b \in 1..Len(s) /\ s[a] = CallEvent(i) /\ s[b] = ResultEvent(i, "notStarted")
    BY <1>2
  <2>2. L + a = L + 2 * (i - toStart) + 1 /\ L + b = L + 2 * (i - toStart) + 2
    BY <1>1, <1>3
  <2> HIDE DEF a, b
  <2>3. L + a \in DOMAIN log' \ DOMAIN log /\ L + b \in DOMAIN log' \ DOMAIN log
    BY <1>3, <2>1
  <2>4. log'[L + a] = CallEvent(i) /\ log'[L + b] = ResultEvent(i, "notStarted")
    BY <1>3, <2>1
  <2> QED
    BY <2>2, <2>3, <2>4
<1> QED
  BY <1>1, <1>3, <1>4, <1>5 DEF L

\* What a start is: the first call nobody heard of enters the log.
LEMMA StartFacts ==
    ASSUME IInv, Start
    PROVE  /\ toStart \in Calls /\ stage[toStart] = "waiting"
           /\ \A i \in Calls : i < toStart => stage[i] # "waiting"
           /\ \A i \in Calls : i > toStart => stage[i] = "waiting"
           /\ CallEvent(toStart) \in Events
           /\ log' = Append(log, CallEvent(toStart))
           /\ \E s \in {"refused", "gating"} : stage' = [stage EXCEPT ![toStart] = s]
           /\ UNCHANGED outcome
<1>1. toStart \in Calls
  BY ToolCallsAssumption DEF IInv, TypeOK, Start, CanStart, Calls
<1>2. stage[toStart] = "waiting" /\ \A i \in Calls : i > toStart => stage[i] = "waiting"
  BY <1>1 DEF IInv, Places, Start
<1>3. \A i \in Calls : i < toStart => stage[i] # "waiting"
  BY DEF IInv, TypeOK, Places, Pooled, Slots, Calls
<1>4. CallEvent(toStart) \in Events
  BY <1>1, EventTypes DEF Outcomes
<1> QED
  BY <1>1, <1>2, <1>3, <1>4 DEF Start

\* What a commit does to the log: the first unanswered call is answered.
LEMMA AnswerFacts ==
    ASSUME IInv, Finish \/ Finalized
    PROVE  /\ committed \in Calls
           /\ stage[committed] \notin {"waiting", "done", "skipped"}
           /\ \A i \in Calls : stage[i] \in {"done", "skipped"} <=> i < committed
           /\ \E o \in Outcomes :
                 /\ ResultEvent(committed, o) \in Events
                 /\ log' = Append(log, ResultEvent(committed, o))
                 /\ outcome' = [outcome EXCEPT ![committed] = o]
           /\ stage' = [stage EXCEPT ![committed] = "done"]
<1>1. committed \in Calls /\ stage[committed] \in Slots /\ pc \in {"committing", "finalizing"}
  BY CommitFacts
<1>2. \A i \in Calls : stage[i] \in {"done", "skipped"} <=> i < committed
  BY <1>1 DEF IInv, TypeOK, Control, Places, Pooled, Slots, Calls
<1>3. PICK o \in Outcomes : CommitResult(o)
  BY CommitFacts
<1>4. ResultEvent(committed, o) \in Events
  BY <1>1, EventTypes
<1> QED
  BY <1>1, <1>2, <1>3, <1>4 DEF CommitResult, Slots

\* Every step keeps log and stages in agreement.
LEMMA RecordedStep == ASSUME IInv, [Next]_vars PROVE Recorded'
<1>1. CASE Classify
  BY <1>1, OtherSteps DEF Classify, callVars
<1>2. CASE Return
  BY <1>2, OtherSteps DEF Return, callVars
<1>3. CASE Start
  <2>1. /\ toStart \in Calls /\ stage[toStart] = "waiting"
        /\ CallEvent(toStart) \in Events /\ log' = Append(log, CallEvent(toStart))
        /\ UNCHANGED outcome
    BY <1>3, StartFacts
  <2>2. PICK s \in {"refused", "gating"} : stage' = [stage EXCEPT ![toStart] = s]
    BY <1>3, StartFacts
  <2>3. /\ DOMAIN log = 1..Len(log) /\ Len(log) \in Nat
        /\ DOMAIN log' = 1..(Len(log) + 1)
        /\ \A n \in DOMAIN log : log'[n] = log[n]
        /\ log'[Len(log) + 1] = CallEvent(toStart)
    BY <2>1, Appends DEF IInv
  <2>4. \A i \in Calls : stage'[i] = IF i = toStart THEN s ELSE stage[i]
    BY <2>1, <2>2 DEF IInv, TypeOK
  <2>5. Len(log) + 1 \in DOMAIN log' /\ \A n \in DOMAIN log : n \in DOMAIN log'
    BY <2>3
  <2>6. \A n \in DOMAIN log' :
           IF log'[n].type = "tool/call"
           THEN log'[n].outcome = "none" /\ stage'[log'[n].call] # "waiting"
           ELSE /\ stage'[log'[n].call] \in {"done", "skipped"}
                /\ log'[n].outcome = outcome'[log'[n].call]
    <3> SUFFICES ASSUME NEW n \in DOMAIN log'
                 PROVE  IF log'[n].type = "tool/call"
                        THEN log'[n].outcome = "none" /\ stage'[log'[n].call] # "waiting"
                        ELSE /\ stage'[log'[n].call] \in {"done", "skipped"}
                             /\ log'[n].outcome = outcome'[log'[n].call]
      OBVIOUS
    <3>1. CASE n = Len(log) + 1
      BY <3>1, <2>1, <2>2, <2>3, <2>4 DEF CallEvent
    <3>2. CASE n \in DOMAIN log
      BY <3>2, <2>1, <2>2, <2>3, <2>4, LogEvents DEF IInv, Recorded
    <3> QED
      BY <3>1, <3>2, <2>3
  <2>7. \A i \in Calls : stage'[i] # "waiting" =>
           \E n \in DOMAIN log' : log'[n] = CallEvent(i)
    BY <2>1, <2>3, <2>4, <2>5 DEF IInv, Recorded
  <2>8. \A i \in Calls : stage'[i] \in {"done", "skipped"} =>
           \E n \in DOMAIN log' : log'[n].type = "tool/result" /\ log'[n].call = i
    BY <2>2, <2>3, <2>4, <2>5 DEF IInv, Recorded
  <2> QED
    BY <2>6, <2>7, <2>8 DEF Recorded
<1>4. CASE StopFilling
  BY <1>4, OtherSteps DEF StopFilling, callVars
<1>5. CASE Prepared
  <2>1. toStart \in Calls /\ stage[toStart] \in {"refused", "gating"} /\ UNCHANGED log
    BY <1>5, ToolCallsAssumption DEF IInv, TypeOK, Prepared, Allowed, NotAllowed, Control, Calls
  <2>2. \E s \in Pooled : stage' = [stage EXCEPT ![toStart] = s]
    BY <1>5 DEF Prepared, Allowed, NotAllowed, Settle, Pooled, Slots
  <2>3. \A j \in Calls : j # toStart => outcome'[j] = outcome[j]
    BY <1>5 DEF Prepared, Allowed, NotAllowed, Settle, IInv, TypeOK
  <2> QED
    BY <2>1, <2>2, <2>3, OtherSteps DEF IInv, TypeOK, Pooled, Slots
<1>6. CASE PrepareFails
  <2>1. toStart \in Calls /\ stage[toStart] \in {"refused", "gating"}
    BY <1>6, ToolCallsAssumption DEF IInv, TypeOK, PrepareFails, Control, Places, Calls
  <2> QED
    BY <1>6, <2>1, OtherSteps DEF PrepareFails, IInv, TypeOK
<1>7. CASE Finish
  <2>1. /\ committed \in Calls /\ stage[committed] \notin {"waiting", "done", "skipped"}
        /\ stage' = [stage EXCEPT ![committed] = "done"]
    BY <1>7, AnswerFacts
  <2>2. PICK o \in Outcomes : /\ ResultEvent(committed, o) \in Events
                              /\ log' = Append(log, ResultEvent(committed, o))
                              /\ outcome' = [outcome EXCEPT ![committed] = o]
    BY <1>7, AnswerFacts
  <2>3. /\ DOMAIN log = 1..Len(log) /\ Len(log) \in Nat
        /\ DOMAIN log' = 1..(Len(log) + 1)
        /\ \A n \in DOMAIN log : log'[n] = log[n]
        /\ log'[Len(log) + 1] = ResultEvent(committed, o)
    BY <2>2, Appends DEF IInv
  <2>4. \A i \in Calls : /\ stage'[i] = IF i = committed THEN "done" ELSE stage[i]
                         /\ outcome'[i] = IF i = committed THEN o ELSE outcome[i]
    BY <2>1, <2>2 DEF IInv, TypeOK
  <2>5. Len(log) + 1 \in DOMAIN log' /\ \A n \in DOMAIN log : n \in DOMAIN log'
    BY <2>3
  <2>6. \A n \in DOMAIN log' :
           IF log'[n].type = "tool/call"
           THEN log'[n].outcome = "none" /\ stage'[log'[n].call] # "waiting"
           ELSE /\ stage'[log'[n].call] \in {"done", "skipped"}
                /\ log'[n].outcome = outcome'[log'[n].call]
    <3> SUFFICES ASSUME NEW n \in DOMAIN log'
                 PROVE  IF log'[n].type = "tool/call"
                        THEN log'[n].outcome = "none" /\ stage'[log'[n].call] # "waiting"
                        ELSE /\ stage'[log'[n].call] \in {"done", "skipped"}
                             /\ log'[n].outcome = outcome'[log'[n].call]
      OBVIOUS
    <3>1. CASE n = Len(log) + 1
      BY <3>1, <2>1, <2>3, <2>4 DEF ResultEvent
    <3>2. CASE n \in DOMAIN log
      BY <3>2, <2>1, <2>3, <2>4, LogEvents DEF IInv, Recorded
    <3> QED
      BY <3>1, <3>2, <2>3
  <2>7. \A i \in Calls : stage'[i] # "waiting" =>
           \E n \in DOMAIN log' : log'[n] = CallEvent(i)
    BY <2>1, <2>3, <2>4, <2>5 DEF IInv, Recorded
  <2>8. \A i \in Calls : stage'[i] \in {"done", "skipped"} =>
           \E n \in DOMAIN log' : log'[n].type = "tool/result" /\ log'[n].call = i
    BY <2>3, <2>4, <2>5 DEF IInv, Recorded, ResultEvent
  <2> QED
    BY <2>6, <2>7, <2>8 DEF Recorded
<1>8. CASE Finalize
  BY <1>8, OtherSteps DEF Finalize, callVars
<1>9. CASE Finalized
  <2>1. /\ committed \in Calls /\ stage[committed] \notin {"waiting", "done", "skipped"}
        /\ stage' = [stage EXCEPT ![committed] = "done"]
    BY <1>9, AnswerFacts
  <2>2. PICK o \in Outcomes : /\ ResultEvent(committed, o) \in Events
                              /\ log' = Append(log, ResultEvent(committed, o))
                              /\ outcome' = [outcome EXCEPT ![committed] = o]
    BY <1>9, AnswerFacts
  <2>3. /\ DOMAIN log = 1..Len(log) /\ Len(log) \in Nat
        /\ DOMAIN log' = 1..(Len(log) + 1)
        /\ \A n \in DOMAIN log : log'[n] = log[n]
        /\ log'[Len(log) + 1] = ResultEvent(committed, o)
    BY <2>2, Appends DEF IInv
  <2>4. \A i \in Calls : /\ stage'[i] = IF i = committed THEN "done" ELSE stage[i]
                         /\ outcome'[i] = IF i = committed THEN o ELSE outcome[i]
    BY <2>1, <2>2 DEF IInv, TypeOK
  <2>5. Len(log) + 1 \in DOMAIN log' /\ \A n \in DOMAIN log : n \in DOMAIN log'
    BY <2>3
  <2>6. \A n \in DOMAIN log' :
           IF log'[n].type = "tool/call"
           THEN log'[n].outcome = "none" /\ stage'[log'[n].call] # "waiting"
           ELSE /\ stage'[log'[n].call] \in {"done", "skipped"}
                /\ log'[n].outcome = outcome'[log'[n].call]
    <3> SUFFICES ASSUME NEW n \in DOMAIN log'
                 PROVE  IF log'[n].type = "tool/call"
                        THEN log'[n].outcome = "none" /\ stage'[log'[n].call] # "waiting"
                        ELSE /\ stage'[log'[n].call] \in {"done", "skipped"}
                             /\ log'[n].outcome = outcome'[log'[n].call]
      OBVIOUS
    <3>1. CASE n = Len(log) + 1
      BY <3>1, <2>1, <2>3, <2>4 DEF ResultEvent
    <3>2. CASE n \in DOMAIN log
      BY <3>2, <2>1, <2>3, <2>4, LogEvents DEF IInv, Recorded
    <3> QED
      BY <3>1, <3>2, <2>3
  <2>7. \A i \in Calls : stage'[i] # "waiting" =>
           \E n \in DOMAIN log' : log'[n] = CallEvent(i)
    BY <2>1, <2>3, <2>4, <2>5 DEF IInv, Recorded
  <2>8. \A i \in Calls : stage'[i] \in {"done", "skipped"} =>
           \E n \in DOMAIN log' : log'[n].type = "tool/result" /\ log'[n].call = i
    BY <2>3, <2>4, <2>5 DEF IInv, Recorded, ResultEvent
  <2> QED
    BY <2>6, <2>7, <2>8 DEF Recorded
<1>10. CASE FinalizeFails
  BY <1>10, OtherSteps DEF FinalizeFails, callVars
<1>11. CASE Committed
  BY <1>11, OtherSteps DEF Committed, callVars
<1>12. CASE Race
  BY <1>12, OtherSteps DEF Race, callVars
<1>13. CASE Drained
  BY <1>13, OtherSteps DEF Drained, callVars
<1>14. CASE Regroup
  BY <1>14, OtherSteps DEF Regroup, callVars
<1>15. CASE Skip
  <2>1. /\ DOMAIN log = 1..Len(log) /\ Len(log) \in Nat
        /\ DOMAIN log' = 1..(Len(log) + 2 * (Planned + 1 - toStart))
        /\ \A n \in DOMAIN log : log'[n] = log[n]
        /\ \A n \in DOMAIN log' \ DOMAIN log : \E i \in toStart..Planned :
              log'[n] = CallEvent(i) \/ log'[n] = ResultEvent(i, "notStarted")
        /\ \A i \in toStart..Planned : \E m, n \in DOMAIN log' :
              log'[m] = CallEvent(i) /\ log'[n] = ResultEvent(i, "notStarted")
    BY <1>15, SkipsAppend DEF IInv
  <2>2. DOMAIN log \subseteq DOMAIN log'
    BY <2>1, ToolCallsAssumption DEF IInv, TypeOK
  <2>3. /\ \A i \in Calls : i >= toStart <=> i \in toStart..Planned
        /\ \A i \in toStart..Planned : i \in Calls
        /\ \A i \in Calls : i >= toStart => stage[i] = "waiting"
    BY <1>15, ToolCallsAssumption DEF Skip, IInv, TypeOK, Places, Calls
  <2>4. \A i \in Calls :
           /\ stage'[i] = IF i \in toStart..Planned THEN "skipped" ELSE stage[i]
           /\ outcome'[i] = IF i \in toStart..Planned THEN "notStarted" ELSE outcome[i]
    BY <1>15, <2>3 DEF Skip
  <2>5. \A n \in DOMAIN log' :
           IF log'[n].type = "tool/call"
           THEN log'[n].outcome = "none" /\ stage'[log'[n].call] # "waiting"
           ELSE /\ stage'[log'[n].call] \in {"done", "skipped"}
                /\ log'[n].outcome = outcome'[log'[n].call]
    <3> SUFFICES ASSUME NEW n \in DOMAIN log'
                 PROVE  IF log'[n].type = "tool/call"
                        THEN log'[n].outcome = "none" /\ stage'[log'[n].call] # "waiting"
                        ELSE /\ stage'[log'[n].call] \in {"done", "skipped"}
                             /\ log'[n].outcome = outcome'[log'[n].call]
      OBVIOUS
    <3>1. CASE n \in DOMAIN log
      <4>1. log'[n] = log[n] /\ log[n].call \in Calls
        BY <3>1, <2>1, LogEvents DEF IInv
      <4>2. IF log[n].type = "tool/call"
            THEN log[n].outcome = "none" /\ stage[log[n].call] # "waiting"
            ELSE /\ stage[log[n].call] \in {"done", "skipped"}
                 /\ log[n].outcome = outcome[log[n].call]
        BY <3>1 DEF IInv, Recorded
      <4> QED
        BY <4>1, <4>2, <2>3, <2>4
    <3>2. CASE n \notin DOMAIN log
      <4>1. PICK i \in toStart..Planned :
               log'[n] = CallEvent(i) \/ log'[n] = ResultEvent(i, "notStarted")
        BY <3>2, <2>1
      <4>2. i \in Calls /\ stage'[i] = "skipped" /\ outcome'[i] = "notStarted"
        BY <2>3, <2>4
      <4> QED
        BY <4>1, <4>2 DEF CallEvent, ResultEvent
    <3> QED
      BY <3>1, <3>2
  <2>6. ASSUME NEW i \in Calls, i \notin toStart..Planned
        PROVE  /\ stage'[i] # "waiting" => \E n \in DOMAIN log' : log'[n] = CallEvent(i)
               /\ stage'[i] \in {"done", "skipped"} =>
                     \E n \in DOMAIN log' : log'[n].type = "tool/result" /\ log'[n].call = i
    BY <2>1, <2>2, <2>4, <2>6 DEF IInv, Recorded
  <2>7. ASSUME NEW i \in toStart..Planned
        PROVE  /\ \E n \in DOMAIN log' : log'[n] = CallEvent(i)
               /\ \E n \in DOMAIN log' : log'[n].type = "tool/result" /\ log'[n].call = i
    <3>1. PICK m \in DOMAIN log', n \in DOMAIN log' :
             log'[m] = CallEvent(i) /\ log'[n] = ResultEvent(i, "notStarted")
      BY <2>1
    <3>2. log'[n].type = "tool/result" /\ log'[n].call = i
      BY <3>1 DEF ResultEvent
    <3> QED
      BY <3>1, <3>2
  <2> QED
    BY <2>5, <2>6, <2>7 DEF Recorded
<1>16. ASSUME NEW i \in Calls, Dispatch(i) PROVE Recorded'
  <2>1. /\ stage[i] \in {"wrapping", "body"} /\ UNCHANGED log
        /\ \E s \in Pooled : stage' = [stage EXCEPT ![i] = s]
    BY <1>16, DispatchFacts
  <2>2. \A j \in Calls : j # i => outcome'[j] = outcome[j]
    BY <1>16 DEF Dispatch, WrapperAnswers, BodyRefused, BodyStarts, BodyEnds, Breaks, Settle,
              IInv, TypeOK
  <2> QED
    BY <2>1, <2>2, OtherSteps DEF IInv, TypeOK, Pooled, Slots
<1>17. ASSUME NEW i \in Calls, Reclassify(i) PROVE Recorded'
  BY <1>17, OtherSteps DEF Reclassify, callVars
<1>18. CASE Abort
  BY <1>18, OtherSteps DEF Abort, callVars
<1>19. CASE UNCHANGED vars
  BY <1>19, OtherSteps DEF vars
<1> QED
  BY <1>1, <1>2, <1>3, <1>4, <1>5, <1>6, <1>7, <1>8, <1>9, <1>10, <1>11, <1>12,
     <1>13, <1>14, <1>15, <1>16, <1>17, <1>18, <1>19
     DEF Next, Scheduler, Over

\* An event in its turn keeps the order: later than the others of its kind, which
\* are all there, and a result behind its call.
LEMMA OrderedAppend ==
    ASSUME IInv, NEW e \in Events, log' = Append(log, e),
           \A n \in DOMAIN log : log[n].type = e.type => log[n].call < e.call,
           \A i \in 1..(e.call - 1) : \E n \in DOMAIN log : log[n].type = e.type /\ log[n].call = i,
           e.type = "tool/result" => \E n \in DOMAIN log : log[n] = CallEvent(e.call)
    PROVE  InOrder'
<1>1. /\ DOMAIN log = 1..Len(log) /\ Len(log) \in Nat
      /\ DOMAIN log' = 1..(Len(log) + 1)
      /\ \A n \in DOMAIN log : log'[n] = log[n]
      /\ log'[Len(log) + 1] = e
  BY Appends DEF IInv
<1>2. \A m, n \in DOMAIN log' :
         m < n /\ log'[m].type = log'[n].type => log'[m].call < log'[n].call
  BY <1>1 DEF IInv, InOrder
<1>3. ASSUME NEW n \in DOMAIN log', NEW i \in 1..(log'[n].call - 1)
      PROVE  \E m \in 1..(n - 1) : log'[m].type = log'[n].type /\ log'[m].call = i
  <2>1. CASE n = Len(log) + 1
    BY <1>1, <1>3, <2>1
  <2>2. CASE n \in DOMAIN log
    <3>1. i \in 1..(log[n].call - 1)
      BY <1>1, <1>3, <2>2
    <3>2. PICK m \in 1..(n - 1) : log[m].type = log[n].type /\ log[m].call = i
      BY <2>2, <3>1 DEF IInv, InOrder
    <3>3. m \in DOMAIN log
      BY <1>1, <2>2
    <3> QED
      BY <1>1, <2>2, <3>2, <3>3
  <2> QED
    BY <1>1, <2>1, <2>2
<1>4. ASSUME NEW n \in DOMAIN log', log'[n].type = "tool/result"
      PROVE  \E m \in 1..(n - 1) : log'[m] = CallEvent(log'[n].call)
  <2>1. CASE n = Len(log) + 1
    BY <1>1, <1>4, <2>1
  <2>2. CASE n \in DOMAIN log
    <3>1. PICK m \in 1..(n - 1) : log[m] = CallEvent(log[n].call)
      BY <1>1, <1>4, <2>2 DEF IInv, InOrder
    <3>2. m \in DOMAIN log
      BY <1>1, <2>2
    <3> QED
      BY <1>1, <2>2, <3>1, <3>2
  <2> QED
    BY <1>1, <2>1, <2>2
<1> QED
  BY <1>2, <1>3, <1>4 DEF InOrder

\* Every step keeps the transcript in order.
LEMMA OrderStep == ASSUME IInv, [Next]_vars PROVE InOrder'
<1>1. CASE UNCHANGED log
  BY <1>1 DEF IInv, InOrder
<1>2. CASE Start
  <2>1. /\ toStart \in Calls /\ CallEvent(toStart) \in Events
        /\ log' = Append(log, CallEvent(toStart))
        /\ \A i \in Calls : stage[i] # "waiting" <=> i < toStart
    BY <1>2, StartFacts DEF IInv, TypeOK, Calls
  <2>2. ASSUME NEW n \in DOMAIN log, log[n].type = "tool/call"
        PROVE  log[n].call < toStart
    BY <2>1, <2>2, LogEvents DEF IInv, Recorded
  <2>3. \A i \in 1..(toStart - 1) : \E n \in DOMAIN log : log[n] = CallEvent(i)
    <3>1. \A i \in 1..(toStart - 1) : i \in Calls /\ i < toStart
      BY <2>1, ToolCallsAssumption DEF Calls
    <3> QED
      BY <2>1, <3>1 DEF IInv, Recorded
  <2> QED
    BY <2>1, <2>2, <2>3, OrderedAppend DEF CallEvent
<1>3. CASE Finish \/ Finalized
  <2>1. /\ committed \in Calls
        /\ stage[committed] # "waiting"
        /\ \A i \in Calls : stage[i] \in {"done", "skipped"} <=> i < committed
    BY <1>3, AnswerFacts
  <2>2. PICK o \in Outcomes : /\ ResultEvent(committed, o) \in Events
                              /\ log' = Append(log, ResultEvent(committed, o))
    BY <1>3, AnswerFacts
  <2>3. ASSUME NEW n \in DOMAIN log, log[n].type = "tool/result"
        PROVE  log[n].call < committed
    BY <2>1, <2>3, LogEvents DEF IInv, Recorded
  <2>4. \A i \in 1..(committed - 1) :
           \E n \in DOMAIN log : log[n].type = "tool/result" /\ log[n].call = i
    <3>1. \A i \in 1..(committed - 1) : i \in Calls /\ i < committed
      BY <2>1, ToolCallsAssumption DEF Calls
    <3> QED
      BY <2>1, <3>1 DEF IInv, Recorded
  <2>5. \E n \in DOMAIN log : log[n] = CallEvent(committed)
    BY <2>1 DEF IInv, Recorded
  <2> QED
    BY <2>2, <2>3, <2>4, <2>5, OrderedAppend DEF ResultEvent
<1>4. CASE Skip
  <2> DEFINE L == Len(log)
  <2>1. /\ DOMAIN log = 1..L /\ L \in Nat
        /\ DOMAIN log' = 1..(L + 2 * (Planned + 1 - toStart))
        /\ \A n \in DOMAIN log : log'[n] = log[n]
    BY <1>4, SkipsAppend DEF IInv
  <2>2. /\ \A n \in DOMAIN log' \ DOMAIN log : \E i \in toStart..Planned :
              \/ n = L + 2 * (i - toStart) + 1 /\ log'[n] = CallEvent(i)
              \/ n = L + 2 * (i - toStart) + 2 /\ log'[n] = ResultEvent(i, "notStarted")
        /\ \A i \in toStart..Planned :
              /\ L + 2 * (i - toStart) + 1 \in DOMAIN log' \ DOMAIN log
              /\ log'[L + 2 * (i - toStart) + 1] = CallEvent(i)
              /\ L + 2 * (i - toStart) + 2 \in DOMAIN log' \ DOMAIN log
              /\ log'[L + 2 * (i - toStart) + 2] = ResultEvent(i, "notStarted")
    BY <1>4, SkipsAppend DEF IInv
  <2>3. /\ toStart \in 1..(Planned + 1) /\ Planned \in Nat
        /\ \A i \in Calls : i < toStart => stage[i] \in {"done", "skipped"}
        /\ \A i \in Calls : i >= toStart => stage[i] = "waiting"
        /\ \A i \in 1..(toStart - 1) : i \in Calls
    BY <1>4, ToolCallsAssumption DEF Skip, IInv, TypeOK, Control, Places, Calls
  <2>4. \A n \in DOMAIN log : log[n].call \in Calls /\ log[n].call < toStart
                              /\ log[n].type \in {"tool/call", "tool/result"}
    <3> SUFFICES ASSUME NEW n \in DOMAIN log
                 PROVE  log[n].call \in Calls /\ log[n].call < toStart
                        /\ log[n].type \in {"tool/call", "tool/result"}
      OBVIOUS
    <3>1. log[n].call \in Calls /\ log[n].type \in {"tool/call", "tool/result"}
      BY LogEvents DEF IInv
    <3>2. stage[log[n].call] # "waiting"
      BY <3>1 DEF IInv, Recorded
    <3> QED
      BY <2>3, <3>1, <3>2 DEF Calls
  <2>5. \A i \in 1..(toStart - 1) :
           /\ \E n \in DOMAIN log : log[n] = CallEvent(i)
           /\ \E n \in DOMAIN log : log[n].type = "tool/result" /\ log[n].call = i
    BY <2>3 DEF IInv, Recorded
  <2> HIDE DEF L
  <2>6. ASSUME NEW m \in DOMAIN log', NEW n \in DOMAIN log', m < n, log'[m].type = log'[n].type
        PROVE  log'[m].call < log'[n].call
    <3>1. CASE n \in DOMAIN log
      BY <2>1, <2>6, <3>1 DEF IInv, InOrder
    <3>2. CASE n \notin DOMAIN log
      <4>1. PICK i \in toStart..Planned :
               \/ n = L + 2 * (i - toStart) + 1 /\ log'[n] = CallEvent(i)
               \/ n = L + 2 * (i - toStart) + 2 /\ log'[n] = ResultEvent(i, "notStarted")
        BY <2>2, <3>2
      <4>2. CASE m \in DOMAIN log
        BY <2>1, <2>3, <2>4, <4>1, <4>2 DEF CallEvent, ResultEvent, Calls
      <4>3. CASE m \notin DOMAIN log
        <5>1. PICK j \in toStart..Planned :
                 \/ m = L + 2 * (j - toStart) + 1 /\ log'[m] = CallEvent(j)
                 \/ m = L + 2 * (j - toStart) + 2 /\ log'[m] = ResultEvent(j, "notStarted")
          BY <2>2, <4>3
        <5> QED
          BY <2>1, <2>3, <2>6, <4>1, <5>1 DEF CallEvent, ResultEvent
      <4> QED
        BY <4>2, <4>3
    <3> QED
      BY <3>1, <3>2
  <2>7. ASSUME NEW n \in DOMAIN log', NEW i \in 1..(log'[n].call - 1)
        PROVE  \E m \in 1..(n - 1) : log'[m].type = log'[n].type /\ log'[m].call = i
    <3>1. CASE n \in DOMAIN log
      <4>1. PICK m \in 1..(n - 1) : log[m].type = log[n].type /\ log[m].call = i
        BY <2>1, <2>7, <3>1 DEF IInv, InOrder
      <4> QED
        BY <2>1, <3>1, <4>1
    <3>2. CASE n \notin DOMAIN log
      <4>1. PICK j \in toStart..Planned :
               \/ n = L + 2 * (j - toStart) + 1 /\ log'[n] = CallEvent(j)
               \/ n = L + 2 * (j - toStart) + 2 /\ log'[n] = ResultEvent(j, "notStarted")
        BY <2>2, <3>2
      <4>2. i \in 1..(j - 1)
        BY <2>7, <4>1 DEF CallEvent, ResultEvent
      <4>3. CASE i < toStart
        <5>1. i \in 1..(toStart - 1)
          BY <2>3, <4>2, <4>3
        <5>2. \E m \in DOMAIN log : log[m].type = log'[n].type /\ log[m].call = i
          BY <2>5, <4>1, <5>1 DEF CallEvent, ResultEvent
        <5>3. \A m \in DOMAIN log : m \in 1..(n - 1)
          BY <2>1, <2>3, <4>1
        <5> QED
          BY <2>1, <5>2, <5>3
      <4>4. CASE i >= toStart
        <5>1. i \in toStart..Planned /\ i < j
          BY <2>3, <4>2, <4>4
        <5>2. CASE n = L + 2 * (j - toStart) + 1 /\ log'[n] = CallEvent(j)
          <6>1. L + 2 * (i - toStart) + 1 \in 1..(n - 1)
            BY <2>1, <2>3, <5>1, <5>2
          <6>2. log'[L + 2 * (i - toStart) + 1] = CallEvent(i)
            BY <2>2, <5>1
          <6> QED
            BY <5>2, <6>1, <6>2 DEF CallEvent
        <5>3. CASE n = L + 2 * (j - toStart) + 2 /\ log'[n] = ResultEvent(j, "notStarted")
          <6>1. L + 2 * (i - toStart) + 2 \in 1..(n - 1)
            BY <2>1, <2>3, <5>1, <5>3
          <6>2. log'[L + 2 * (i - toStart) + 2] = ResultEvent(i, "notStarted")
            BY <2>2, <5>1
          <6> QED
            BY <5>3, <6>1, <6>2 DEF ResultEvent
        <5> QED
          BY <4>1, <5>2, <5>3
      <4> QED
        BY <2>3, <4>2, <4>3, <4>4
    <3> QED
      BY <3>1, <3>2
  <2>8. ASSUME NEW n \in DOMAIN log', log'[n].type = "tool/result"
        PROVE  \E m \in 1..(n - 1) : log'[m] = CallEvent(log'[n].call)
    <3>1. CASE n \in DOMAIN log
      <4>1. PICK m \in 1..(n - 1) : log[m] = CallEvent(log[n].call)
        BY <2>1, <2>8, <3>1 DEF IInv, InOrder
      <4> QED
        BY <2>1, <3>1, <4>1
    <3>2. CASE n \notin DOMAIN log
      <4>1. PICK i \in toStart..Planned :
               n = L + 2 * (i - toStart) + 2 /\ log'[n] = ResultEvent(i, "notStarted")
        BY <2>2, <2>8, <3>2 DEF CallEvent
      <4>2. L + 2 * (i - toStart) + 1 \in 1..(n - 1)
        BY <2>1, <2>3, <4>1
      <4>3. log'[L + 2 * (i - toStart) + 1] = CallEvent(i)
        BY <2>2
      <4> QED
        BY <4>1, <4>2, <4>3 DEF ResultEvent
    <3> QED
      BY <3>1, <3>2
  <2> QED
    BY <2>6, <2>7, <2>8 DEF InOrder
<1>5. [Next]_vars /\ ~(Start \/ Finish \/ Finalized \/ Skip) => UNCHANGED log
  BY DEF Next, Scheduler, Over, Classify, Return, StopFilling, Prepared, PrepareFails, Finalize,
         FinalizeFails, Committed, Race, Drained, Regroup, Dispatch, WrapperAnswers, BodyRefused,
         BodyStarts, BodyEnds, Breaks, Reclassify, Abort, vars
<1> QED
  BY <1>1, <1>2, <1>3, <1>4, <1>5

LEMMA Initially == Init => IInv
<1> SUFFICES ASSUME Init PROVE IInv
  OBVIOUS
<1>1. Planned \in Nat /\ MaxParallel \in Nat \ {0} /\ Cardinality({}) = 0
  BY ToolCallsAssumption, FS_EmptySet
<1>2. TypeOK
  <2>1. class \in [Calls -> Modes] /\ log \in Seq(Events)
    BY DEF Init
  <2>2. /\ base \in 1..(Planned + 1) /\ last \in 0..Planned
        /\ toStart \in 1..(Planned + 1) /\ committed \in 1..(Planned + 1)
    BY <1>1 DEF Init
  <2>3. /\ signal \in BOOLEAN /\ pc \in PCs /\ mode \in Modes
        /\ aborted \in BOOLEAN /\ inFlight \subseteq Calls /\ failed \in BOOLEAN
        /\ stage \in [Calls -> Stages] /\ invoked \in [Calls -> BOOLEAN]
    BY DEF Init, Stages, PCs, Modes
  <2>4. outcome \in [Calls -> Outcomes \cup {"none"}] /\ startedAs \in [Calls -> Modes \cup {"none"}]
    BY DEF Init
  <2> QED
    BY <2>1, <2>2, <2>3, <2>4 DEF TypeOK
<1>3. Control /\ Places
  BY <1>1 DEF Init, Control, Places, Calls, Pooled
<1>4. Flights
  BY <1>1 DEF Init, Flights, Running, Pooled, Slots
<1>5. Told /\ Recorded /\ InOrder
  BY DEF Init, Told, Recorded, InOrder, Slots
<1> QED
  BY <1>2, <1>3, <1>4, <1>5 DEF IInv

LEMMA Inductive == IInv /\ [Next]_vars => IInv'
<1> SUFFICES ASSUME IInv, [Next]_vars PROVE IInv'
  OBVIOUS
<1>1. TypeOK'
  BY TypeStep DEF IInv
<1> QED
  BY <1>1, ControlStep, PlacesStep, FlightsStep, ToldStep, RecordedStep, OrderStep DEF IInv

LEMMA Invariance == Spec => []IInv
BY Initially, Inductive, PTL DEF Spec

\* The scheduler's counters, stages and log are what their declarations say, for any
\* number of calls.
THEOREM TypeCorrect == Spec => []TypeOK
<1>1. IInv => TypeOK
  BY DEF IInv
<1> QED
  BY <1>1, Invariance, PTL

\* However dispatches, post-execute hooks and aborts fall, the transcript holds calls
\* and results in model order, each once and each result behind its call, and a
\* batch that returns has answered every call of the message.
THEOREM OrderCorrect == Spec => []ModelOrder
<1>1. IInv => ModelOrder
  <2> SUFFICES ASSUME IInv PROVE ModelOrder
    OBVIOUS
  <2>1. ASSUME pc = "returned", NEW i \in Calls
        PROVE  \E n \in DOMAIN log : log[n].type = "tool/result" /\ log[n].call = i
    BY <2>1 DEF IInv, Control, Recorded
  <2> QED
    BY <2>1 DEF IInv, InOrder, ModelOrder
<1> QED
  BY <1>1, Invariance, PTL

\* Two bodies run side by side only if both calls were classified parallel when they
\* started, never more than the cap do, and none is left when the batch is over.
THEOREM BarriersCorrect == Spec => []Barriers
<1>1. IInv => Barriers
  <2> SUFFICES ASSUME IInv PROVE Barriers
    OBVIOUS
  <2>1. ASSUME NEW i \in Calls, NEW j \in Calls, Running(i), Running(j), i # j
        PROVE  startedAs[i] = "parallel" /\ startedAs[j] = "parallel"
    <3>1. i \in inFlight /\ j \in inFlight
      BY <2>1 DEF IInv, Flights
    <3>2. base <= i /\ i < toStart /\ base <= j /\ j < toStart
      BY <3>1 DEF IInv, Flights
    <3>3. pc \notin {"classify", "returned"}
      BY <3>1 DEF IInv, Control
    <3>4. mode = "parallel"
      <4>1. last # base
        BY <2>1, <3>2, <3>3, ToolCallsAssumption DEF IInv, TypeOK, Control, Calls
      <4> QED
        BY <3>3, <4>1 DEF IInv, TypeOK, Modes, Control
    <3>5. stage[i] \in Pooled /\ stage[j] \in Pooled
      BY <2>1 DEF Running, Pooled
    <3> QED
      BY <3>2, <3>3, <3>4, <3>5 DEF IInv, Flights
  <2>2. Cardinality({i \in Calls : Running(i)}) <= MaxParallel
    <3> DEFINE runs == {i \in Calls : Running(i)}
    <3>1. IsFiniteSet(Calls)
      BY FS_Interval, ToolCallsAssumption DEF Calls
    <3>2. IsFiniteSet(inFlight) /\ runs \subseteq inFlight
      BY <3>1, FS_Subset DEF IInv, TypeOK, Flights
    <3>3. Cardinality(runs) <= Cardinality(inFlight)
      BY <3>2, FS_Subset
    <3>4. Cardinality(runs) \in Nat /\ Cardinality(inFlight) \in Nat
      BY <3>2, FS_Subset, FS_CardinalityType
    <3> HIDE DEF runs
    <3>5. Cardinality(runs) <= MaxParallel
      BY <3>3, <3>4, ToolCallsAssumption DEF IInv, Flights
    <3> QED
      BY <3>5 DEF runs
  <2>3. ASSUME pc \in {"returned", "threw"}, NEW i \in Calls
        PROVE  ~Running(i) /\ stage[i] # "gating"
    <3>1. ~Running(i)
      BY <2>3 DEF IInv, Control, Flights
    <3>2. stage[i] # "gating"
      BY <2>3, ToolCallsAssumption DEF IInv, TypeOK, Places, Pooled, Slots, Calls
    <3> QED
      BY <3>1, <3>2
  <2> QED
    BY <2>1, <2>2, <2>3 DEF Barriers
<1> QED
  BY <1>1, Invariance, PTL

\* A result in the log tells the truth about its call's body: "aborted before dispatch"
\* of one that never ran, "aborted" of one that did.
THEOREM HonestCorrect == Spec => []HonestOutcome
<1>1. IInv => HonestOutcome
  <2> SUFFICES ASSUME IInv, NEW k \in DOMAIN log
               PROVE  /\ log[k].outcome = "notStarted" => ~invoked[log[k].call]
                      /\ log[k].outcome = "aborted" => invoked[log[k].call]
    BY DEF HonestOutcome
  <2>1. log[k].call \in Calls /\ log[k].type \in {"tool/call", "tool/result"}
    BY LogEvents DEF IInv
  <2>2. CASE log[k].type = "tool/call"
    BY <2>2 DEF IInv, Recorded
  <2>3. CASE log[k].type # "tool/call"
    <3>1. stage[log[k].call] \in {"done", "skipped"} /\ log[k].outcome = outcome[log[k].call]
      BY <2>3 DEF IInv, Recorded
    <3> QED
      BY <2>1, <3>1 DEF IInv, Told, Slots
  <2> QED
    BY <2>2, <2>3
<1> QED
  BY <1>1, Invariance, PTL

\* Once the signal is set no body begins and no call is started any more.
THEOREM AbortCorrect == Spec => AbortStartsNothing
<1>1. IInv /\ [Next]_vars => [signal => invoked' = invoked /\ startedAs' = startedAs]_vars
  <2> SUFFICES ASSUME IInv, [Next]_vars, signal
               PROVE  invoked' = invoked /\ startedAs' = startedAs
    OBVIOUS
  <2>1. ~Start
    BY DEF Start, CanStart, IInv, Control
  <2>2. \A i \in Calls : ~BodyStarts(i)
    BY DEF BodyStarts
  <2> QED
    BY <2>1, <2>2 DEF Next, Scheduler, Over, Classify, Return, StopFilling, Prepared, PrepareFails,
       Finish, Finalize, Finalized, FinalizeFails, Committed, Race, Drained, Regroup, Skip,
       Dispatch, WrapperAnswers, BodyRefused, BodyEnds, Breaks, Reclassify, Abort, vars, callVars
<1> QED
  BY <1>1, Invariance, PTL DEF Spec, AbortStartsNothing

=============================================================================
