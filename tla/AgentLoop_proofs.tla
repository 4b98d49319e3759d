-------------------------- MODULE AgentLoop_proofs --------------------------
(***************************************************************************)
(* What holds of the agent driver for every number of messages, steps and  *)
(* nested calls.                                                           *)
(***************************************************************************)
EXTENDS AgentLoop, SequenceTheorems, TLAPS

(***************************************************************************)
(* Types.  The parts are proved one by one: each is about one sort of      *)
(* variables.                                                              *)
(***************************************************************************)
LEMMA PlacesStep == TypePlaces /\ [Next]_vars => TypePlaces'
<1> SUFFICES ASSUME TypePlaces, [Next]_vars PROVE TypePlaces'
  OBVIOUS
<1> USE DEF TypePlaces, PCs, turnVars, inboxVars, activityVars
<1>1. CASE Caller
  BY <1>1 DEF Caller, Send, RemoveMessage, CancelKeeping, Cancel, Dispose,
              AbortFromAppend, StartMaintenance, AbortNow, BeginActivity
<1>2. CASE Returns
  BY <1>2 DEF Returns, Wake, WakeDriver, BeginActivity, ClearPrompts,
              AbortActivity, AbortNow, Replay, Settle
<1>3. CASE Driver
  BY <1>3 DEF Driver, OpenTurn, RefuseTurn, ProposeFirst, Decide, Rejected,
              EmptyTurn, SettledTurn, EnterStep, StepReturns, StepThrows,
              OfferStop, ProposeNext, Stops, GoOn, Retire, AbortTurn, Fail,
              FailTurn, GoIdle, Claim, Suspend, TurnEnd
<1>4. CASE MaintenanceEnds
  BY <1>4 DEF MaintenanceEnds, BeginActivity
<1>5. CASE WhenIdle
  BY <1>5 DEF WhenIdle
<1>6. CASE UNCHANGED vars
  BY <1>6 DEF vars
<1> QED
  BY <1>1, <1>2, <1>3, <1>4, <1>5, <1>6 DEF Next

LEMMA AnswersStep == TypeAnswers /\ TypeFrames /\ [Next]_vars => TypeAnswers'
<1> SUFFICES ASSUME TypeAnswers, TypeFrames, [Next]_vars PROVE TypeAnswers'
  OBVIOUS
<1> USE DEF TypeAnswers, Causes, turnVars, inboxVars, activityVars
<1>1. CASE Caller
  BY <1>1 DEF Caller, Send, RemoveMessage, CancelKeeping, Cancel, Dispose,
              AbortFromAppend, StartMaintenance, AbortNow, BeginActivity
<1>2. CASE Returns
  <2>1. frames # <<>> => Head(frames) \in Frames
    BY DEF TypeFrames
  <2>2. frames # <<>> => Head(frames).cause \in Causes
    BY <2>1 DEF Frames
  <2> QED
    BY <1>2, <2>2 DEF Returns, Top, Wake, WakeDriver, BeginActivity, ClearPrompts,
                      AbortActivity, AbortNow, Replay, Settle
<1>3. CASE Driver
  BY <1>3 DEF Driver, OpenTurn, RefuseTurn, ProposeFirst, Decide, Rejected,
              EmptyTurn, SettledTurn, EnterStep, StepReturns, StepThrows,
              OfferStop, ProposeNext, Stops, GoOn, Retire, AbortTurn, Fail,
              FailTurn, GoIdle, Claim, Suspend, TurnEnd
<1>4. CASE MaintenanceEnds
  BY <1>4 DEF MaintenanceEnds, BeginActivity
<1>5. CASE WhenIdle
  BY <1>5 DEF WhenIdle
<1>6. CASE UNCHANGED vars
  BY <1>6 DEF vars
<1> QED
  BY <1>1, <1>2, <1>3, <1>4, <1>5, <1>6 DEF Next

LEMMA LatchStep == TypeLatch /\ [Next]_vars => TypeLatch'
<1> SUFFICES ASSUME TypeLatch, [Next]_vars PROVE TypeLatch'
  OBVIOUS
<1> USE DEF TypeLatch, turnVars, inboxVars, activityVars
<1>1. CASE Caller
  BY <1>1 DEF Caller, Send, RemoveMessage, CancelKeeping, Cancel, Dispose,
              AbortFromAppend, StartMaintenance, AbortNow, BeginActivity
<1>2. CASE Returns
  BY <1>2 DEF Returns, Wake, WakeDriver, BeginActivity, ClearPrompts,
              AbortActivity, AbortNow, Replay, Settle
<1>3. CASE Driver
  BY <1>3 DEF Driver, OpenTurn, RefuseTurn, ProposeFirst, Decide, Rejected,
              EmptyTurn, SettledTurn, EnterStep, StepReturns, StepThrows,
              OfferStop, ProposeNext, Stops, GoOn, Retire, AbortTurn, Fail,
              FailTurn, GoIdle, Claim, Suspend, TurnEnd
<1>4. CASE MaintenanceEnds
  BY <1>4 DEF MaintenanceEnds, BeginActivity
<1>5. CASE WhenIdle
  BY <1>5 DEF WhenIdle
<1>6. CASE UNCHANGED vars
  BY <1>6 DEF vars
<1> QED
  BY <1>1, <1>2, <1>3, <1>4, <1>5, <1>6 DEF Next

LEMMA ActivityStep == TypeActivity /\ [Next]_vars => TypeActivity'
<1> SUFFICES ASSUME TypeActivity, [Next]_vars PROVE TypeActivity'
  OBVIOUS
<1> USE DEF TypeActivity, turnVars, inboxVars, activityVars
<1>1. CASE Caller
  BY <1>1 DEF Caller, Send, RemoveMessage, CancelKeeping, Cancel, Dispose,
              AbortFromAppend, StartMaintenance, AbortNow, BeginActivity
<1>2. CASE Returns
  BY <1>2 DEF Returns, Wake, WakeDriver, BeginActivity, ClearPrompts,
              AbortActivity, AbortNow, Replay, Settle
<1>3. CASE Driver
  BY <1>3 DEF Driver, OpenTurn, RefuseTurn, ProposeFirst, Decide, Rejected,
              EmptyTurn, SettledTurn, EnterStep, StepReturns, StepThrows,
              OfferStop, ProposeNext, Stops, GoOn, Retire, AbortTurn, Fail,
              FailTurn, GoIdle, Claim, Suspend, TurnEnd
<1>4. CASE MaintenanceEnds
  BY <1>4 DEF MaintenanceEnds, BeginActivity
<1>5. CASE WhenIdle
  BY <1>5 DEF WhenIdle
<1>6. CASE UNCHANGED vars
  BY <1>6 DEF vars
<1> QED
  BY <1>1, <1>2, <1>3, <1>4, <1>5, <1>6 DEF Next

LEMMA CountsStep == TypeCounts /\ [Next]_vars => TypeCounts'
<1> SUFFICES ASSUME TypeCounts, [Next]_vars PROVE TypeCounts'
  OBVIOUS
<1> USE DEF TypeCounts, turnVars, inboxVars, activityVars
<1>1. CASE Caller
  BY <1>1 DEF Caller, Send, RemoveMessage, CancelKeeping, Cancel, Dispose,
              AbortFromAppend, StartMaintenance, AbortNow, BeginActivity
<1>2. CASE Returns
  BY <1>2, 0 \in Nat DEF Returns, Wake, WakeDriver, ClearPrompts,
              AbortActivity, AbortNow, Replay, Settle
<1>3. CASE Driver
  BY <1>3 DEF Driver, OpenTurn, RefuseTurn, ProposeFirst, Decide, Rejected,
              EmptyTurn, SettledTurn, EnterStep, StepReturns, StepThrows,
              OfferStop, ProposeNext, Stops, GoOn, Retire, AbortTurn, Fail,
              FailTurn, GoIdle, Claim, Suspend, TurnEnd
<1>4. CASE MaintenanceEnds
  BY <1>4, 0 \in Nat DEF MaintenanceEnds
<1>5. CASE WhenIdle
  BY <1>5 DEF WhenIdle
<1>6. CASE UNCHANGED vars
  BY <1>6 DEF vars
<1> QED
  BY <1>1, <1>2, <1>3, <1>4, <1>5, <1>6 DEF Next

LEMMA Pushed ==
  ASSUME NEW S, NEW s \in Seq(S), NEW e \in S
  PROVE  <<e>> \o s \in Seq(S)
OBVIOUS

LEMMA Popped ==
  ASSUME NEW S, NEW s \in Seq(S), s # <<>>
  PROVE  Head(s) \in S /\ Tail(s) \in Seq(S)
OBVIOUS

LEMMA Singleton ==
  ASSUME NEW S, NEW e \in S
  PROVE  <<e>> \in Seq(S)
OBVIOUS

LEMMA FrameType ==
  ASSUME NEW op \in Ops, NEW cause \in Causes, NEW msg \in Messages \cup {0},
         NEW flag \in BOOLEAN
  PROVE  Frame(op, cause, msg, flag) \in Frames
BY DEF Frame, Frames

LEMMA DriverFrame == Frame("driver", "user", 0, FALSE) \in Frames
BY FrameType DEF Ops, Causes

LEMMA WakeDriverFrames ==
  ASSUME NEW after, NEW rest \in Seq(Frames), WakeDriver(after, rest)
  PROVE  TypeFrames'
<1>1. CASE frames' = rest
  BY <1>1 DEF TypeFrames
<1>2. CASE frames' = <<Frame("driver", "user", 0, FALSE)>> \o rest
  BY <1>2, DriverFrame, Pushed DEF TypeFrames
<1> QED
  BY <1>1, <1>2 DEF WakeDriver

LEMMA FramesStep == TypeFrames /\ TypeHistory /\ [Next]_vars => TypeFrames'
<1> SUFFICES ASSUME TypeFrames, TypeHistory, [Next]_vars PROVE TypeFrames'
  OBVIOUS
<1> frames \in Seq(Frames)
  BY DEF TypeFrames
<1>p. frames # <<>> => Head(frames) \in Frames /\ Tail(frames) \in Seq(Frames)
  BY Popped
<1>0. CASE UNCHANGED frames
  BY <1>0 DEF TypeFrames
<1>1. ASSUME NEW target \in Targets, NEW wakeup \in BOOLEAN, Send(target, wakeup)
      PROVE  TypeFrames'
  <2> DEFINE after == wakeup /\ phase # "idle" /\ Aborted
  <2>1. sent + 1 \in Messages \cup {0} /\ after \in BOOLEAN
    BY <1>1, AgentLoopAssumption DEF Send, TypeHistory, Messages, Aborted
  <2>2. Frame("wake", "user", sent + 1, after) \in Frames
    BY <2>1, FrameType DEF Ops, Causes
  <2>3. <<Frame("wake", "user", sent + 1, after)>> \o frames \in Seq(Frames)
    BY <2>2, Pushed
  <2> QED
    BY <1>1, <2>3, <1>0 DEF Send, TypeFrames
<1>2. CASE Cancel \/ Dispose
  <2>1. \A c \in Causes : Frame("clear", c, 0, nextStep # <<>>) \in Frames
    BY FrameType DEF Ops
  <2>2. \A c \in Causes : <<Frame("clear", c, 0, nextStep # <<>>)>> \o frames \in Seq(Frames)
    BY <2>1, Pushed
  <2> QED
    BY <1>2, <2>2 DEF Cancel, Dispose, TypeFrames, Causes
<1>3. CASE Wake
  BY <1>3, <1>p, WakeDriverFrames DEF Wake, Top
<1>4. CASE ClearPrompts
  <2>1. Frame("abort", Head(frames).cause, 0, nextTurn # <<>>) \in Frames
    <3>1. Head(frames).cause \in Causes
      BY <1>4, <1>p DEF ClearPrompts, Top, Frames
    <3> QED
      BY <3>1, FrameType DEF Ops
  <2> QED
    BY <1>4, <1>p, <2>1, Pushed DEF ClearPrompts, Top, TypeFrames
<1>5. CASE AbortActivity \/ AbortFromAppend \/ CancelKeeping
  BY <1>5, <1>p DEF AbortActivity, AbortFromAppend, CancelKeeping, AbortNow, Top, TypeFrames
<1>6. CASE Replay
  BY <1>6, <1>0, WakeDriverFrames, <<>> \in Seq(Frames) DEF Replay
<1>7. CASE Suspend
  BY <1>7, <1>p DEF Suspend, TypeFrames
<1>8. CASE MaintenanceEnds
  <2>1. <<Frame("driver", "user", 0, FALSE)>> \in Seq(Frames)
    BY DriverFrame, Singleton
  <2> QED
    BY <1>8, <2>1, <1>0 DEF MaintenanceEnds, TypeFrames
<1>9. CASE UNCHANGED vars
  BY <1>9, <1>0 DEF vars
<1>10. CASE RefuseTurn \/ ProposeFirst \/ AbortTurn
  BY <1>10, <1>7, <1>0 DEF RefuseTurn, ProposeFirst, AbortTurn
<1> QED
  BY <1>0, <1>1, <1>2, <1>3, <1>4, <1>5, <1>6, <1>8, <1>9, <1>10
     DEF Next, Caller, Returns, Driver, RemoveMessage, StartMaintenance, Settle, WhenIdle,
         OpenTurn, Decide, Rejected, EmptyTurn, SettledTurn, EnterStep, StepReturns,
         StepThrows, OfferStop, ProposeNext, Stops, GoOn, Retire, Fail, FailTurn, GoIdle

LEMMA MarkType ==
  ASSUME NEW msgs, NEW what \in {"unsent", "pending", "claimed", "discarded"},
         TypeHistory, Mark(msgs, what)
  PROVE  TypeHistory'
BY DEF TypeHistory, Mark

LEMMA RemoveAtType ==
  ASSUME NEW S, NEW s \in Seq(S), NEW i \in DOMAIN s
  PROVE  RemoveAt(s, i) \in Seq(S)
<1>1. SubSeq(s, 1, i - 1) \in Seq(S) /\ SubSeq(s, i + 1, Len(s)) \in Seq(S)
  OBVIOUS
<1> QED
  BY <1>1 DEF RemoveAt

\* What a step may do to the two lists and the history of the messages.
LEMMA InboxCases ==
  ASSUME [Next]_vars
  PROVE  \/ UNCHANGED <<nextTurn, nextStep>> /\ UNCHANGED <<sent, fate>>
         \/ \E target \in Targets, wakeup \in BOOLEAN : Send(target, wakeup)
         \/ RemoveMessage
         \/ Cancel \/ Dispose \/ ClearPrompts
         \/ ProposeFirst \/ ProposeNext
BY DEF Next, vars, Caller, Returns, Driver, inboxVars, CancelKeeping, AbortFromAppend,
       StartMaintenance, Wake, AbortActivity, Replay, Settle, WhenIdle, MaintenanceEnds,
       OpenTurn, RefuseTurn, Decide, Rejected, EmptyTurn, SettledTurn, EnterStep, StepReturns,
       StepThrows, OfferStop, Stops, GoOn, Retire, AbortTurn, Fail, FailTurn, GoIdle

LEMMA InboxStep == TypeInbox /\ TypeHistory /\ [Next]_vars => TypeInbox'
<1> SUFFICES ASSUME TypeInbox, TypeHistory, [Next]_vars PROVE TypeInbox'
  OBVIOUS
<1> nextTurn \in Seq(Messages) /\ nextStep \in Seq(Messages)
  BY DEF TypeInbox
<1>1. ASSUME NEW target \in Targets, NEW wakeup \in BOOLEAN, Send(target, wakeup)
      PROVE  TypeInbox'
  <2>1. sent + 1 \in Messages
    BY <1>1, AgentLoopAssumption DEF Send, TypeHistory, Messages
  <2>2. Append(nextTurn, sent + 1) \in Seq(Messages) /\ Append(nextStep, sent + 1) \in Seq(Messages)
    BY <2>1
  <2>3. CASE UNCHANGED nextStep /\ nextTurn' = Append(nextTurn, sent + 1)
    BY <2>2, <2>3 DEF TypeInbox
  <2>4. CASE UNCHANGED nextTurn /\ nextStep' = Append(nextStep, sent + 1)
    BY <2>2, <2>4 DEF TypeInbox
  <2> QED
    BY <1>1, <2>3, <2>4 DEF Send
<1>2. CASE RemoveMessage
  BY <1>2, RemoveAtType DEF RemoveMessage, TypeInbox
<1>3. CASE Cancel \/ Dispose \/ ClearPrompts
  BY <1>3, <<>> \in Seq(Messages) DEF Cancel, Dispose, ClearPrompts, TypeInbox
<1>4. ASSUME NEW target, Claim(target) PROVE TypeInbox'
  BY <1>4, Popped, <<>> \in Seq(Messages) DEF Claim, TypeInbox
<1>5. CASE UNCHANGED <<nextTurn, nextStep>>
  BY <1>5 DEF TypeInbox
<1> QED
  BY <1>1, <1>2, <1>3, <1>4, <1>5, InboxCases DEF ProposeFirst, ProposeNext

\* What a step may do to the promises.
LEMMA OwedCases ==
  ASSUME [Next]_vars, UNCHANGED <<sent, fate>>
  PROVE  \/ owed' \subseteq owed \cup {Head(frames).msg} /\ owed' \subseteq owed \cup Pending
            /\ joined' \subseteq joined \cup Range(nextStep) /\ Wake
         \/ owed' \subseteq owed /\ joined' \subseteq joined
         \/ \E msgs : owed' = owed \ msgs /\ joined' = joined \ msgs
BY DEF Next, vars, Caller, Returns, Driver, inboxVars, CancelKeeping, AbortFromAppend, AbortNow,
       Send, RemoveMessage, Cancel, Dispose, ClearPrompts, Mark, Claim, ProposeFirst, ProposeNext,
       StartMaintenance, Wake, AbortActivity, Replay, Settle, WhenIdle, MaintenanceEnds,
       OpenTurn, RefuseTurn, Decide, Rejected, EmptyTurn, SettledTurn, EnterStep, StepReturns,
       StepThrows, OfferStop, Stops, GoOn, Retire, AbortTurn, Fail, FailTurn, GoIdle

LEMMA HistoryStep == TypeInbox /\ TypeHistory /\ [Next]_vars => TypeHistory'
<1> SUFFICES ASSUME TypeInbox, TypeHistory, [Next]_vars PROVE TypeHistory'
  OBVIOUS
<1> DEFINE Fates == {"unsent", "pending", "claimed", "discarded"}
<1>1. ASSUME NEW target \in Targets, NEW wakeup \in BOOLEAN, Send(target, wakeup)
      PROVE  TypeHistory'
  BY <1>1, AgentLoopAssumption DEF Send, TypeHistory, Messages
<1>2. ASSUME NEW msgs, NEW what \in Fates, Mark(msgs, what) PROVE TypeHistory'
  BY <1>2, MarkType
<1>3. CASE UNCHANGED <<sent, fate>>
  <2>1. Pending \subseteq Messages /\ Range(nextStep) \subseteq Messages
    BY DEF Pending, TypeInbox, Range
  <2>2. owed' \subseteq Messages /\ joined' \subseteq Messages
    BY <1>3, <2>1, OwedCases DEF TypeHistory
  <2> QED
    BY <1>3, <2>2 DEF TypeHistory
<1> QED
  BY <1>1, <1>2, <1>3, InboxCases
     DEF RemoveMessage, Cancel, Dispose, ClearPrompts, ProposeFirst, ProposeNext, Claim

\* The types of every variable, in every behaviour (AgentLoop: TypeOK).
THEOREM TypeCorrect == Spec => []TypeOK
<1>1. Init => TypeOK
  <2>1. <<>> \in Seq(Messages) /\ <<>> \in Seq(Frames)
    OBVIOUS
  <2> SUFFICES ASSUME Init PROVE TypeOK
    OBVIOUS
  <2>2. TypePlaces /\ TypeAnswers /\ TypeActivity
    BY DEF Init, TypePlaces, TypeAnswers, TypeActivity, PCs, Causes
  <2>3. TypeLatch
    BY DEF Init, TypeLatch
  <2>4. TypeCounts
    BY AgentLoopAssumption, 0 \in Nat DEF Init, TypeCounts
  <2>5. TypeInbox /\ TypeFrames
    BY <2>1 DEF Init, TypeInbox, TypeFrames
  <2>6. TypeHistory
    BY AgentLoopAssumption DEF Init, TypeHistory, Messages
  <2> QED
    BY <2>2, <2>3, <2>4, <2>5, <2>6 DEF TypeOK
<1>2. TypeOK /\ [Next]_vars => TypeOK'
  BY PlacesStep, AnswersStep, ActivityStep, LatchStep, CountsStep, InboxStep, FramesStep,
     HistoryStep DEF TypeOK
<1> QED
  BY <1>1, <1>2, PTL DEF Spec

(***************************************************************************)
(* The log.  A driver knows where it is from `turn` and `step` alone; the  *)
(* session knows it from the events.  The invariant says they agree.       *)
(***************************************************************************)
InTurn == pc \in {"opened", "preStep", "decided", "request", "stepEnded", "stopping", "failing"}

OpenTrace(next) ==
    [openTurn |-> turn, openStep |-> IF pc = "request" THEN step ELSE None,
     nextTurn |-> turn, nextStep |-> next, pendingCalls |-> {}]

ClosedTrace(next) ==
    [openTurn |-> None, openStep |-> None,
     nextTurn |-> turn + 1, nextStep |-> next, pendingCalls |-> {}]

LogInv ==
    /\ InTurn => trace = OpenTrace(IF pc = "request" THEN step ELSE step + 1)
    /\ ~InTurn => trace = ClosedTrace(trace.nextStep)
    /\ pc \in {"start", "opened"} => step = 0

LEMMA LogStart == Init => LogInv
BY AgentLoopAssumption DEF Init, LogInv, InTurn, ClosedTrace, Fresh, None

\* Only a driver, and whoever starts one, moves along the log.
LEMMA LogCases ==
  ASSUME TypePlaces, [Next]_vars
  PROVE  \/ UNCHANGED <<trace, turn, step, pc>>
         \/ UNCHANGED <<trace, turn>> /\ step' = 0 /\ pc' = "start" /\ ~InTurn
         \/ Driver
BY DEF Next, vars, Caller, Returns, inboxVars, turnVars, activityVars, TypePlaces, InTurn,
       CancelKeeping, AbortFromAppend, AbortNow, Send, RemoveMessage, Cancel, Dispose,
       ClearPrompts, StartMaintenance, Wake, WakeDriver, AbortActivity, Replay, Settle,
       WhenIdle, MaintenanceEnds

\* A driver's step leaves the log alone, or appends the one event its place
\* calls for, which the session accepts.
LEMMA LogDriver ==
  ASSUME TypeCounts, LogInv, Driver
  PROVE  LogInv' /\ (UNCHANGED trace \/ TraceNext)
<1> USE DEF TypeCounts, turnVars, inboxVars, activityVars
<1>0. USE DEF InTurn, OpenTrace, ClosedTrace, None
<1>1. CASE UNCHANGED <<trace, turn, step>> /\ InTurn' = InTurn
           /\ pc # "request" /\ pc' # "request" /\ pc' \notin {"start", "opened"}
  BY <1>1 DEF LogInv
<1>2. CASE GoOn \/ GoIdle \/ RefuseTurn \/ Retire
  BY <1>2 DEF GoOn, GoIdle, RefuseTurn, Retire, LogInv
<1>3. CASE OpenTurn
  <2>1. trace = ClosedTrace(trace.nextStep) /\ step = 0
    BY <1>3 DEF OpenTurn, LogInv
  <2>2. Follow(Event("turn/start", turn + 1, None, NoCall))
    BY <1>3, <2>1 DEF OpenTurn, Follow, Accepts, Event
  <2>0. trace' = Apply(trace, Event("turn/start", turn + 1, None, NoCall))
    BY <1>3 DEF OpenTurn
  <2>3. trace' = [openTurn |-> turn + 1, openStep |-> None, nextTurn |-> turn + 1,
                  nextStep |-> 1, pendingCalls |-> {}]
    <3>1. PICK n : trace = ClosedTrace(n)
      BY <2>1
    <3> QED
      BY <2>0, <3>1 DEF Apply, Event
  <2>4. LogInv'
    BY <1>3, <2>1, <2>3 DEF OpenTurn, LogInv
  <2>5. TraceNext
    BY <2>1, <2>2 DEF TraceNext
  <2> QED
    BY <2>4, <2>5
<1>4. CASE EnterStep
  <2>1. trace = OpenTrace(step + 1)
    BY <1>4 DEF EnterStep, LogInv
  <2>2. Follow(Event("step/start", turn, step + 1, NoCall))
    BY <1>4, <2>1 DEF EnterStep, Follow, Accepts, Event
  <2>3. trace' = [openTurn |-> turn, openStep |-> step + 1, nextTurn |-> turn,
                  nextStep |-> step + 1, pendingCalls |-> {}]
    BY <1>4, <2>1 DEF EnterStep, Apply, Event
  <2>4. LogInv'
    BY <1>4, <2>1, <2>3 DEF EnterStep, LogInv
  <2>5. TraceNext
    BY <2>1, <2>2 DEF TraceNext
  <2> QED
    BY <2>4, <2>5
<1>5. CASE StepReturns \/ StepThrows
  <2>1. trace = OpenTrace(step)
    BY <1>5 DEF StepReturns, StepThrows, LogInv
  <2>2. Follow(Event("step/end", turn, step, NoCall))
    BY <1>5, <2>1 DEF StepReturns, StepThrows, Follow, Accepts, Event, InOpenStep
  <2>3. trace' = [openTurn |-> turn, openStep |-> None, nextTurn |-> turn,
                  nextStep |-> step + 1, pendingCalls |-> {}]
    BY <1>5, <2>1 DEF StepReturns, StepThrows, Apply, Event
  <2>4. LogInv'
    BY <1>5, <2>1, <2>3 DEF StepReturns, StepThrows, LogInv
  <2>5. TraceNext
    BY <2>1, <2>2 DEF TraceNext
  <2> QED
    BY <2>4, <2>5
<1>6. CASE /\ Rejected \/ EmptyTurn \/ SettledTurn \/ Stops \/ AbortTurn \/ FailTurn
  <2>1. /\ trace = OpenTrace(step + 1) /\ pc' \in {"exit", "closed"}
        /\ TurnEnd /\ UNCHANGED <<turn, step>> /\ pc # "request"
    BY <1>6 DEF Rejected, EmptyTurn, SettledTurn, Stops, AbortTurn, FailTurn, LogInv
  <2>2. Follow(Event("turn/end", turn, None, NoCall))
    BY <1>6, <2>1 DEF TurnEnd, Follow, Accepts, Event, LogInv
  <2>3. trace' = [openTurn |-> None, openStep |-> None, nextTurn |-> turn + 1,
                  nextStep |-> step + 1, pendingCalls |-> {}]
    BY <2>1 DEF TurnEnd, Apply, Event
  <2>4. LogInv'
    BY <2>1, <2>3 DEF LogInv
  <2>5. TraceNext
    BY <2>1, <2>2 DEF TraceNext
  <2> QED
    BY <2>4, <2>5
<1>7. CASE ProposeFirst \/ Decide \/ OfferStop \/ ProposeNext \/ Fail
  BY <1>7, <1>1 DEF ProposeFirst, Decide, OfferStop, ProposeNext, Fail, LogInv, Claim
<1> QED
  BY <1>2, <1>3, <1>4, <1>5, <1>6, <1>7 DEF Driver

LEMMA LogStep == TypePlaces /\ TypeCounts /\ LogInv /\ [Next]_vars
                   => LogInv' /\ [TraceNext]_trace
<1> SUFFICES ASSUME TypePlaces, TypeCounts, LogInv, [Next]_vars
             PROVE  LogInv' /\ [TraceNext]_trace
  OBVIOUS
<1>1. CASE UNCHANGED <<trace, turn, step, pc>>
  BY <1>1 DEF LogInv, InTurn, OpenTrace, ClosedTrace
<1>2. CASE UNCHANGED <<trace, turn>> /\ step' = 0 /\ pc' = "start" /\ ~InTurn
  BY <1>2 DEF LogInv, InTurn, OpenTrace, ClosedTrace
<1> QED
  BY <1>1, <1>2, LogCases, LogDriver

\* What drivers append is a behaviour of the session's protocol: turns and
\* steps nest and are numbered without gaps (LogFollowsTrace).
THEOREM LogCorrect == Spec => LogFollowsTrace
<1>1. Init => TraceInit
  BY AgentLoopAssumption DEF Init, TraceInit, Fresh
<1> QED
  BY <1>1, LogStart, LogStep, TypeCorrect, PTL DEF Spec, LogFollowsTrace, TraceSpec, TypeOK

\* An aborted activity opens no turn and no step (AbortedOpensNothing).
THEOREM AbortedCorrect == Spec => AbortedOpensNothing
<1> DEFINE A == Aborted => trace'.openTurn \in {trace.openTurn, None}
                        /\ trace'.openStep \in {trace.openStep, None}
<1>1. TypePlaces /\ TypeCounts /\ LogInv /\ [Next]_vars => [A]_vars
  <2> SUFFICES ASSUME TypePlaces, TypeCounts, LogInv, [Next]_vars, Aborted
               PROVE  /\ trace'.openTurn \in {trace.openTurn, None}
                      /\ trace'.openStep \in {trace.openStep, None}
    OBVIOUS
  <2>1. CASE UNCHANGED trace
    BY <2>1
  <2>2. CASE Driver /\ ~UNCHANGED trace
    <3>1. \/ trace' = Apply(trace, Event("turn/end", turn, None, NoCall))
          \/ trace' = Apply(trace, Event("step/end", turn, step, NoCall))
      BY <2>2 DEF Driver, TurnEnd, turnVars, inboxVars, activityVars,
           OpenTurn, RefuseTurn, ProposeFirst, Decide, Rejected, EmptyTurn, SettledTurn,
           EnterStep, StepReturns, StepThrows, OfferStop, ProposeNext, Stops, GoOn, Retire,
           AbortTurn, Fail, FailTurn, GoIdle
    <3>2. trace \in [{"openTurn", "openStep", "nextTurn", "nextStep", "pendingCalls"} ->
                       {trace[f] : f \in {"openTurn", "openStep", "nextTurn", "nextStep",
                                          "pendingCalls"}}]
      BY DEF LogInv, OpenTrace, ClosedTrace
    <3> QED
      BY <3>1, <3>2 DEF Apply, Event
  <2> QED
    BY <2>1, <2>2, LogCases
<1> QED
  BY <1>1, LogStart, LogStep, TypeCorrect, PTL DEF Spec, AbortedOpensNothing, TypeOK

(***************************************************************************)
(* Promises.                                                               *)
(***************************************************************************)
IdleIsClean == phase = "idle" => abort = "none" /\ ~wake

LEMMA IdleStep == TypePlaces /\ IdleIsClean /\ [Next]_vars => IdleIsClean'
<1> SUFFICES ASSUME TypePlaces, IdleIsClean, [Next]_vars PROVE IdleIsClean'
  OBVIOUS
<1> USE DEF IdleIsClean, turnVars, inboxVars, activityVars
<1>1. CASE Caller
  BY <1>1 DEF Caller, Send, RemoveMessage, CancelKeeping, Cancel, Dispose,
              AbortFromAppend, StartMaintenance, AbortNow, BeginActivity, Mark
<1>2. CASE Returns
  BY <1>2 DEF Returns, Wake, WakeDriver, BeginActivity, ClearPrompts,
              AbortActivity, AbortNow, Replay, Settle, Mark
<1>3. CASE Driver
  BY <1>3 DEF Driver, OpenTurn, RefuseTurn, ProposeFirst, Decide, Rejected,
              EmptyTurn, SettledTurn, EnterStep, StepReturns, StepThrows,
              OfferStop, ProposeNext, Stops, GoOn, Retire, AbortTurn, Fail,
              FailTurn, GoIdle, Claim, Mark, Suspend, TurnEnd
<1>4. CASE MaintenanceEnds
  BY <1>4 DEF MaintenanceEnds, BeginActivity
<1>5. CASE WhenIdle
  BY <1>5 DEF WhenIdle
<1>6. CASE UNCHANGED vars
  BY <1>6 DEF vars
<1> QED
  BY <1>1, <1>2, <1>3, <1>4, <1>5, <1>6 DEF Next

\* The activity promise is open while anything is active.
ActivityInv == phase # "idle" => activity = "open"

LEMMA ActivityOpen == TypePlaces /\ ActivityInv /\ [Next]_vars => ActivityInv'
<1> SUFFICES ASSUME TypePlaces, ActivityInv, [Next]_vars PROVE ActivityInv'
  OBVIOUS
<1> USE DEF ActivityInv, TypePlaces, turnVars, inboxVars, activityVars
<1>1. CASE Caller
  BY <1>1 DEF Caller, Send, RemoveMessage, CancelKeeping, Cancel, Dispose,
              AbortFromAppend, StartMaintenance, AbortNow, BeginActivity, Mark
<1>2. CASE Returns
  BY <1>2 DEF Returns, Wake, WakeDriver, BeginActivity, ClearPrompts,
              AbortActivity, AbortNow, Replay, Settle, Mark
<1>3. CASE Driver
  BY <1>3 DEF Driver, OpenTurn, RefuseTurn, ProposeFirst, Decide, Rejected,
              EmptyTurn, SettledTurn, EnterStep, StepReturns, StepThrows,
              OfferStop, ProposeNext, Stops, GoOn, Retire, AbortTurn, Fail,
              FailTurn, GoIdle, Claim, Mark, Suspend, TurnEnd
<1>4. CASE MaintenanceEnds
  BY <1>4 DEF MaintenanceEnds, BeginActivity
<1>5. CASE WhenIdle
  BY <1>5 DEF WhenIdle
<1>6. CASE UNCHANGED vars
  BY <1>6 DEF vars
<1> QED
  BY <1>1, <1>2, <1>3, <1>4, <1>5, <1>6 DEF Next

\* Teardown goes on only when the agent is idle (TeardownFindsQuiet).
THEOREM TeardownCorrect == Spec => TeardownFindsQuiet
<1> DEFINE A == disposal' = "stopped" /\ disposal # "stopped" => phase = "idle"
<1>1. Init => ActivityInv
  BY DEF Init, ActivityInv
<1>2. ActivityInv /\ [Next]_vars => [A]_vars
  <2> SUFFICES ASSUME ActivityInv, [Next]_vars, disposal' = "stopped", disposal # "stopped"
               PROVE  phase = "idle"
    OBVIOUS
  <2>1. WhenIdle
    BY DEF Next, vars, Caller, Returns, Driver, inboxVars, turnVars, activityVars,
           CancelKeeping, AbortFromAppend, AbortNow, Send, RemoveMessage, Cancel, Dispose,
           ClearPrompts, ProposeFirst, ProposeNext, StartMaintenance, Wake, AbortActivity,
           Replay, Settle, MaintenanceEnds, OpenTurn, RefuseTurn, Decide, Rejected, EmptyTurn,
           SettledTurn, EnterStep, StepReturns, StepThrows, OfferStop, Stops, GoOn, Retire,
           AbortTurn, Fail, FailTurn, GoIdle
  <2> QED
    BY <2>1 DEF WhenIdle, AwaitedSettled, ActivityInv
<1> QED
  BY <1>1, <1>2, ActivityOpen, TypeCorrect, PTL DEF Spec, TeardownFindsQuiet, TypeOK

(***************************************************************************)
(* The inbox.  What the list operations do to the messages of a list, then *)
(* where a message is.                                                     *)
(***************************************************************************)
Distinct(s) == \A i, j \in DOMAIN s : s[i] = s[j] => i = j

LEMMA AppendMessages ==
  ASSUME NEW S, NEW s \in Seq(S), NEW e
  PROVE  /\ Range(Append(s, e)) = Range(s) \cup {e}
         /\ Distinct(s) /\ e \notin Range(s) => Distinct(Append(s, e))
<1> DEFINE t == Append(s, e)
<1>1. /\ Len(s) \in Nat /\ DOMAIN s = 1..Len(s) /\ DOMAIN t = 1..(Len(s) + 1)
      /\ t[Len(s) + 1] = e
      /\ \A k \in DOMAIN s : t[k] = s[k]
  OBVIOUS
<1>2. \A k \in DOMAIN t : k \in DOMAIN s \/ k = Len(s) + 1
  BY <1>1
<1>3. \A k \in DOMAIN s : k \in DOMAIN t
  BY <1>1
<1>4. Len(s) + 1 \in DOMAIN t
  BY <1>1
<1> HIDE DEF t
<1>5. Range(t) = Range(s) \cup {e}
  BY <1>1, <1>2, <1>3, <1>4 DEF Range
<1>6. ASSUME Distinct(s), e \notin Range(s) PROVE Distinct(t)
  BY <1>1, <1>2, <1>6 DEF Distinct, Range
<1> QED
  BY <1>5, <1>6 DEF t

LEMMA TailMessages ==
  ASSUME NEW S, NEW s \in Seq(S), s # <<>>
  PROVE  /\ Head(s) \in Range(s)
         /\ Range(s) \ {Head(s)} \subseteq Range(Tail(s)) /\ Range(Tail(s)) \subseteq Range(s)
         /\ Distinct(s) => Head(s) \notin Range(Tail(s)) /\ Distinct(Tail(s))
<1> DEFINE t == Tail(s)
<1>1. /\ Len(s) \in Nat \ {0} /\ DOMAIN s = 1..Len(s) /\ DOMAIN t = 1..(Len(s) - 1)
      /\ Head(s) = s[1]
      /\ \A k \in DOMAIN t : t[k] = s[k + 1]
  OBVIOUS
<1>2. \A k \in DOMAIN t : k + 1 \in DOMAIN s /\ k + 1 # 1
  BY <1>1
<1>3. \A k \in DOMAIN s : k = 1 \/ (k - 1 \in DOMAIN t /\ t[k - 1] = s[k])
  BY <1>1
<1>4. 1 \in DOMAIN s
  BY <1>1
<1>5. \A j, k \in DOMAIN t : j + 1 = k + 1 => j = k
  BY <1>1
<1> HIDE DEF t
<1>6. Range(s) \ {Head(s)} \subseteq Range(t) /\ Range(t) \subseteq Range(s) /\ Head(s) \in Range(s)
  BY <1>1, <1>2, <1>3, <1>4 DEF Range
<1>7. ASSUME Distinct(s) PROVE Head(s) \notin Range(t) /\ Distinct(t)
  BY <1>1, <1>2, <1>4, <1>5, <1>7 DEF Range, Distinct
<1> QED
  BY <1>6, <1>7 DEF t

\* What is left of a list without its i-th message.
LEMMA RemoveAtElements ==
  ASSUME NEW S, NEW s \in Seq(S), NEW i \in DOMAIN s
  PROVE  /\ DOMAIN RemoveAt(s, i) = 1..(Len(s) - 1)
         /\ \A k \in 1..(Len(s) - 1) : RemoveAt(s, i)[k] = IF k < i THEN s[k] ELSE s[k + 1]
<1> DEFINE left == SubSeq(s, 1, i - 1)
           right == SubSeq(s, i + 1, Len(s))
<1>1. /\ i \in 1..Len(s) /\ Len(s) \in Nat
      /\ left \in Seq(S) /\ right \in Seq(S)
      /\ Len(left) = i - 1 /\ Len(right) = Len(s) - i
  OBVIOUS
<1>2. \A k \in 1..(i - 1) : left[k] = s[k]
  BY <1>1
<1>3. \A k \in 1..(Len(s) - i) : right[k] = s[i + k]
  <2>1. i + 1 \in Int /\ Len(s) \in Int /\ \A k \in (i + 1)..Len(s) : s[k] \in S
    BY <1>1
  <2>2. \A k \in 1..(Len(s) - (i + 1) + 1) : right[k] = s[(i + 1) + k - 1]
    BY ONLY <2>1, SubSeqProperties, SMTT(60) DEF right
  <2>3. \A k \in 1..(Len(s) - i) :
           k \in 1..(Len(s) - (i + 1) + 1) /\ (i + 1) + k - 1 = i + k
    <3>1. i \in Int /\ Len(s) \in Int
      BY <1>1
    <3> QED
      BY ONLY <3>1
  <2> QED
    BY ONLY <2>2, <2>3
<1> HIDE DEF left, right
<1>4. DOMAIN (left \o right) = 1..(Len(s) - 1)
  BY <1>1
<1>5. ASSUME NEW k \in 1..(Len(s) - 1)
      PROVE  (left \o right)[k] = IF k < i THEN s[k] ELSE s[k + 1]
  <2>1. CASE k < i
    <3>1. (left \o right)[k] = left[k] /\ k \in 1..(i - 1)
      BY <1>1, <2>1
    <3> QED
      BY <3>1, <2>1, <1>2
  <2>2. CASE ~(k < i)
    <3>1. /\ (left \o right)[k] = right[k - (i - 1)]
          /\ k - (i - 1) \in 1..(Len(s) - i) /\ i + (k - (i - 1)) = k + 1
      BY <1>1, <2>2
    <3> QED
      BY <3>1, <2>2, <1>3
  <2> QED
    BY <2>1, <2>2
<1> QED
  BY <1>4, <1>5 DEF RemoveAt, left, right

LEMMA RemoveAtMessages ==
  ASSUME NEW S, NEW s \in Seq(S), NEW i \in DOMAIN s
  PROVE  /\ Range(s) \ {s[i]} \subseteq Range(RemoveAt(s, i))
         /\ Range(RemoveAt(s, i)) \subseteq Range(s)
         /\ Distinct(s) => s[i] \notin Range(RemoveAt(s, i)) /\ Distinct(RemoveAt(s, i))
<1> DEFINE t == RemoveAt(s, i)
           from(k) == IF k < i THEN k ELSE k + 1
<1>1. Len(s) \in Nat /\ DOMAIN s = 1..Len(s) /\ i \in 1..Len(s) /\ DOMAIN t = 1..(Len(s) - 1)
  BY RemoveAtElements
<1>2. \A k \in DOMAIN t : t[k] = s[from(k)] /\ from(k) \in DOMAIN s /\ from(k) # i
  BY <1>1, RemoveAtElements
<1>3. \A j, k \in DOMAIN t : from(j) = from(k) => j = k
  BY <1>1
<1>4. \A j \in DOMAIN s : j = i \/ \E k \in DOMAIN t : from(k) = j
  <2>1. \A j \in DOMAIN s : j < i => j \in DOMAIN t /\ from(j) = j
    BY <1>1
  <2>2. \A j \in DOMAIN s : j > i => j - 1 \in DOMAIN t /\ from(j - 1) = j
    BY <1>1
  <2>3. \A j \in DOMAIN s : j < i \/ j > i \/ j = i
    BY <1>1
  <2> HIDE DEF from
  <2> QED
    BY <2>1, <2>2, <2>3
<1> HIDE DEF t, from
<1>5. Range(s) \ {s[i]} \subseteq Range(t) /\ Range(t) \subseteq Range(s)
  BY <1>2, <1>4 DEF Range
<1>6. ASSUME Distinct(s) PROVE s[i] \notin Range(t) /\ Distinct(t)
  BY <1>1, <1>2, <1>3, <1>6 DEF Range, Distinct
<1> QED
  BY <1>5, <1>6 DEF t

\* Which messages are still in the inbox, and that no list holds one twice.
InboxHolds ==
    /\ Pending = {m \in Messages : fate[m] = "pending"}
    /\ Distinct(nextTurn) /\ Distinct(nextStep)
    /\ Range(nextTurn) \cap Range(nextStep) = {}
    /\ \A m \in Messages : m > sent => fate[m] = "unsent"

LEMMA InboxHoldsStep == TypeInbox /\ TypeHistory /\ InboxHolds /\ [Next]_vars => InboxHolds'
<1> SUFFICES ASSUME TypeInbox, TypeHistory, InboxHolds, [Next]_vars PROVE InboxHolds'
  OBVIOUS
<1>0. /\ nextTurn \in Seq(Messages) /\ nextStep \in Seq(Messages)
      /\ fate \in [Messages -> {"unsent", "pending", "claimed", "discarded"}]
      /\ Range(<<>>) = {} /\ Distinct(<<>>)
      /\ sent \in 0..MaxMessages /\ MaxMessages \in Nat
  BY AgentLoopAssumption DEF TypeInbox, TypeHistory, Range, Distinct
<1>a. \A m \in Messages : m > sent => m \notin Range(nextTurn) /\ m \notin Range(nextStep)
  BY DEF InboxHolds, Pending
\* Messages leave the lists as they are marked.
<1>b. ASSUME NEW msgs \in SUBSET Messages, NEW what \in {"claimed", "discarded"}, Mark(msgs, what),
             Range(nextTurn)' = Range(nextTurn) \ msgs, Range(nextStep)' = Range(nextStep) \ msgs,
             msgs \subseteq Range(nextTurn) \cup Range(nextStep),
             Distinct(nextTurn)', Distinct(nextStep)'
      PROVE  InboxHolds'
  <2>1. /\ \A m \in Messages : fate'[m] = IF m \in msgs THEN what ELSE fate[m]
        /\ sent' = sent
    BY <1>b DEF Mark
  <2>2. \A m \in msgs : ~(m > sent)
    BY <1>a, <1>b
  <2> QED
    BY <1>b, <2>1, <2>2 DEF InboxHolds, Pending
<1>1. ASSUME NEW target \in Targets, NEW wakeup \in BOOLEAN, Send(target, wakeup)
      PROVE  InboxHolds'
  <2> DEFINE m == sent + 1
  <2>1. m \in Messages /\ m > sent /\ \A k \in Messages : k > m => k > sent
    BY <1>0, <1>1 DEF Send, Messages
  <2>2. sent' = m /\ fate' = [fate EXCEPT ![m] = "pending"]
    BY <1>1 DEF Send
  <2>3. \/ nextTurn' = Append(nextTurn, m) /\ nextStep' = nextStep
        \/ nextStep' = Append(nextStep, m) /\ nextTurn' = nextTurn
    BY <1>1 DEF Send
  <2>4. m \notin Range(nextTurn) /\ m \notin Range(nextStep)
    BY <1>a, <2>1
  <2>5. \A k \in Messages : k > m => k # m
    BY <1>0 DEF Messages
  <2> HIDE DEF m
  <2>6. \A k \in Messages : fate'[k] = IF k = m THEN "pending" ELSE fate[k]
    BY <1>0, <2>2
  <2>7. \A k \in Messages : k > sent' => fate'[k] = "unsent"
    BY <2>1, <2>2, <2>5, <2>6 DEF InboxHolds
  <2>8. CASE nextTurn' = Append(nextTurn, m) /\ nextStep' = nextStep
    <3>1. Range(nextTurn)' = Range(nextTurn) \cup {m} /\ Distinct(nextTurn)'
      BY <1>0, <2>4, <2>8, AppendMessages DEF InboxHolds
    <3> QED
      BY <3>1, <2>1, <2>4, <2>6, <2>7, <2>8 DEF InboxHolds, Pending
  <2>9. CASE nextStep' = Append(nextStep, m) /\ nextTurn' = nextTurn
    <3>1. Range(nextStep)' = Range(nextStep) \cup {m} /\ Distinct(nextStep)'
      BY <1>0, <2>4, <2>9, AppendMessages DEF InboxHolds
    <3> QED
      BY <3>1, <2>1, <2>4, <2>6, <2>7, <2>9 DEF InboxHolds, Pending
  <2> QED
    BY <2>3, <2>8, <2>9
<1>c. Range(nextTurn) \subseteq Messages /\ Range(nextStep) \subseteq Messages
  BY <1>0 DEF Range
<1>2. CASE RemoveMessage
  <2>1. ASSUME NEW i \in DOMAIN nextTurn, nextTurn' = RemoveAt(nextTurn, i), UNCHANGED nextStep,
               Mark({nextTurn[i]}, "discarded")
        PROVE  InboxHolds'
    <3>0. nextTurn[i] \in Range(nextTurn)
      BY DEF Range
    <3>1. /\ Range(nextTurn)' = Range(nextTurn) \ {nextTurn[i]} /\ Distinct(nextTurn)'
          /\ nextTurn[i] \in Range(nextTurn)
      BY <1>0, <2>1, <3>0, RemoveAtMessages DEF InboxHolds
    <3>2. Range(nextStep)' = Range(nextStep) \ {nextTurn[i]} /\ Distinct(nextStep)'
      BY <2>1, <3>1 DEF InboxHolds
    <3> QED
      BY <1>b, <1>c, <2>1, <3>1, <3>2
  <2>2. ASSUME NEW i \in DOMAIN nextStep, nextStep' = RemoveAt(nextStep, i), UNCHANGED nextTurn,
               Mark({nextStep[i]}, "discarded")
        PROVE  InboxHolds'
    <3>0. nextStep[i] \in Range(nextStep)
      BY DEF Range
    <3>1. /\ Range(nextStep)' = Range(nextStep) \ {nextStep[i]} /\ Distinct(nextStep)'
          /\ nextStep[i] \in Range(nextStep)
      BY <1>0, <2>2, <3>0, RemoveAtMessages DEF InboxHolds
    <3>2. Range(nextTurn)' = Range(nextTurn) \ {nextStep[i]} /\ Distinct(nextTurn)'
      BY <2>2, <3>1 DEF InboxHolds
    <3> QED
      BY <1>b, <1>c, <2>2, <3>1, <3>2
  <2> QED
    BY <1>2, <2>1, <2>2 DEF RemoveMessage
<1>3. CASE Cancel \/ Dispose
  <2>1. nextStep' = <<>> /\ nextTurn' = nextTurn /\ Mark(Range(nextStep), "discarded")
    BY <1>3 DEF Cancel, Dispose
  <2>2. /\ Range(nextStep)' = Range(nextStep) \ Range(nextStep) /\ Distinct(nextStep)'
        /\ Range(nextTurn)' = Range(nextTurn) \ Range(nextStep) /\ Distinct(nextTurn)'
    BY <1>0, <2>1 DEF InboxHolds
  <2> QED
    BY <1>b, <1>c, <2>1, <2>2
<1>4. CASE ClearPrompts
  <2>1. nextTurn' = <<>> /\ nextStep' = nextStep /\ Mark(Range(nextTurn), "discarded")
    BY <1>4 DEF ClearPrompts
  <2>2. /\ Range(nextTurn)' = Range(nextTurn) \ Range(nextTurn) /\ Distinct(nextTurn)'
        /\ Range(nextStep)' = Range(nextStep) \ Range(nextTurn) /\ Distinct(nextStep)'
    BY <1>0, <2>1 DEF InboxHolds
  <2> QED
    BY <1>b, <1>c, <2>1, <2>2
<1>5. ASSUME NEW target, Claim(target) PROVE InboxHolds'
  <2> DEFINE prompts == IF target = "next-turn" /\ nextTurn # <<>> THEN {Head(nextTurn)} ELSE {}
             msgs == Range(nextStep) \cup prompts
  <2>1. /\ nextStep' = <<>> /\ Mark(msgs, "claimed")
        /\ nextTurn' = IF prompts # {} THEN Tail(nextTurn) ELSE nextTurn
    BY <1>5 DEF Claim
  <2>2. /\ prompts \subseteq Range(nextTurn)
        /\ Range(nextTurn)' = Range(nextTurn) \ prompts /\ Distinct(nextTurn)'
    BY <1>0, <2>1, TailMessages DEF InboxHolds
  <2> HIDE DEF prompts
  <2>3. /\ Range(nextTurn)' = Range(nextTurn) \ msgs
        /\ Range(nextStep)' = Range(nextStep) \ msgs /\ Distinct(nextStep)'
    BY <1>0, <2>1, <2>2 DEF InboxHolds
  <2>4. msgs \in SUBSET Messages /\ msgs \subseteq Range(nextTurn) \cup Range(nextStep)
    BY <1>c, <2>2
  <2> HIDE DEF msgs
  <2> QED
    BY <1>b, <2>1, <2>2, <2>3, <2>4
<1>6. CASE UNCHANGED <<nextTurn, nextStep>> /\ UNCHANGED <<sent, fate>>
  BY <1>6 DEF InboxHolds, Pending
<1> QED
  BY <1>1, <1>2, <1>3, <1>4, <1>5, <1>6, InboxCases DEF ProposeFirst, ProposeNext

\* A turn takes its one prompt in its first proposal.
OnePrompt == ordinary <= 1 /\ (pc = "opened" => ordinary = 0)

LEMMA OnePromptStep == TypeCounts /\ OnePrompt /\ [Next]_vars => OnePrompt'
<1> SUFFICES ASSUME TypeCounts, OnePrompt, [Next]_vars PROVE OnePrompt'
  OBVIOUS
<1> USE DEF OnePrompt
<1>1. CASE OpenTurn
  BY <1>1 DEF OpenTurn
<1>2. CASE ProposeFirst
  BY <1>2 DEF ProposeFirst, Claim
<1>3. CASE ProposeNext
  BY <1>3 DEF ProposeNext, Claim
<1>4. CASE UNCHANGED ordinary /\ (pc' = pc \/ pc' # "opened")
  BY <1>4
<1>5. OpenTurn \/ ProposeFirst \/ ProposeNext \/ (UNCHANGED ordinary /\ (pc' = pc \/ pc' # "opened"))
  BY DEF Next, vars, Caller, Returns, Driver, turnVars, CancelKeeping, AbortFromAppend,
         Send, RemoveMessage, Cancel, Dispose, ClearPrompts, StartMaintenance, Wake, WakeDriver,
         AbortActivity, Replay, Settle, WhenIdle, MaintenanceEnds, RefuseTurn, Decide, Rejected,
         EmptyTurn, SettledTurn, EnterStep, StepReturns, StepThrows, OfferStop, Stops, GoOn,
         Retire, AbortTurn, Fail, FailTurn, GoIdle
<1> QED
  BY <1>1, <1>2, <1>3, <1>4, <1>5

\* However callers, observers and the driver interleave, a message is in one place:
\* once in one of the lists, claimed, or discarded; and a turn takes one prompt.
THEOREM InboxCorrect == Spec => []ExactlyOnce
<1>1. Init => InboxHolds /\ OnePrompt
  BY AgentLoopAssumption DEF Init, InboxHolds, OnePrompt, Pending, Distinct, Range, Messages
<1>2. InboxHolds /\ OnePrompt => ExactlyOnce
  BY DEF InboxHolds, OnePrompt, ExactlyOnce, Distinct
<1> QED
  BY <1>1, <1>2, TypeCorrect, InboxHoldsStep, OnePromptStep, PTL DEF Spec, TypeOK

(***************************************************************************)
(* The promises.                                                           *)
(***************************************************************************)
OwedQueued == owed \subseteq Pending

LEMMA OwedQueuedStep == TypeInbox /\ OwedQueued /\ [Next]_vars => OwedQueued'
<1> SUFFICES ASSUME TypeInbox, OwedQueued, [Next]_vars PROVE OwedQueued'
  OBVIOUS
<1> nextTurn \in Seq(Messages) /\ nextStep \in Seq(Messages)
  BY DEF TypeInbox
<1> USE DEF OwedQueued, Pending
<1>0. Range(<<>>) = {}
  BY DEF Range
<1>1. ASSUME NEW target \in Targets, NEW wakeup \in BOOLEAN, Send(target, wakeup)
      PROVE  OwedQueued'
  BY <1>1, AppendMessages DEF Send
<1>2. CASE RemoveMessage
  BY <1>2, RemoveAtMessages DEF RemoveMessage, Mark
<1>3. CASE Cancel \/ Dispose \/ ClearPrompts
  BY <1>3, <1>0 DEF Cancel, Dispose, ClearPrompts, Mark
<1>4. ASSUME NEW target, Claim(target) PROVE OwedQueued'
  BY <1>4, <1>0, TailMessages DEF Claim, Mark
<1>5. CASE UNCHANGED <<nextTurn, nextStep>> /\ UNCHANGED <<sent, fate>>
  <2>1. owed' \subseteq owed \cup Pending
    BY <1>5, OwedCases
  <2> QED
    BY <1>5, <2>1
<1> QED
  BY <1>1, <1>2, <1>3, <1>4, <1>5, InboxCases DEF ProposeFirst, ProposeNext

DisposedOwesNothing == abort = "disposed" => owed = {}

LEMMA DisposedStep == IdleIsClean /\ DisposedOwesNothing /\ [Next]_vars => DisposedOwesNothing'
<1> SUFFICES ASSUME IdleIsClean, DisposedOwesNothing, [Next]_vars PROVE DisposedOwesNothing'
  OBVIOUS
<1> USE DEF DisposedOwesNothing, IdleIsClean, turnVars, inboxVars, activityVars
<1>1. CASE Caller
  BY <1>1 DEF Caller, Send, RemoveMessage, CancelKeeping, Cancel, Dispose,
              AbortFromAppend, StartMaintenance, AbortNow, Aborted, BeginActivity, Mark
<1>2. CASE Returns
  BY <1>2 DEF Returns, Wake, WakeDriver, Promised, Consumes, BeginActivity, ClearPrompts,
              AbortActivity, AbortNow, Aborted, Replay, Settle, Mark
<1>3. CASE Driver
  BY <1>3 DEF Driver, OpenTurn, RefuseTurn, ProposeFirst, Decide, Rejected,
              EmptyTurn, SettledTurn, EnterStep, StepReturns, StepThrows,
              OfferStop, ProposeNext, Stops, GoOn, Retire, AbortTurn, Fail,
              FailTurn, GoIdle, Claim, Mark, Suspend, TurnEnd
<1>4. CASE MaintenanceEnds
  BY <1>4 DEF MaintenanceEnds, BeginActivity
<1>5. CASE WhenIdle
  BY <1>5 DEF WhenIdle
<1>6. CASE UNCHANGED vars
  BY <1>6 DEF vars
<1> QED
  BY <1>1, <1>2, <1>3, <1>4, <1>5, <1>6 DEF Next

OwedLeads ==
    owed # {} => \/ phase = "running" /\ ~Aborted /\ pc # "exit"
                 \/ phase # "idle" /\ wake
                 \/ phase # "running" /\ leaving = "replay"

LEMMA NothingPending == TypeInbox /\ OwedQueued /\ ~HasPending => owed = {}
BY DEF TypeInbox, OwedQueued, Pending, HasPending, Range

\* Places of the driver where a step changes neither the phase nor the latch.
DriverMoves ==
    /\ phase = "running" /\ owed' \subseteq owed
    /\ UNCHANGED <<phase, abort, wake, leaving>>
    /\ Aborted \/ pc' # "exit" \/ owed' = {}

LEMMA DriverMovesCases ==
  ASSUME TypePlaces, TypeInbox, OwedQueued, Driver
  PROVE  DriverMoves \/ GoOn \/ GoIdle
<1> USE DEF DriverMoves, TypePlaces, PCs, turnVars, inboxVars, activityVars, Aborted
<1>1. CASE OpenTurn \/ RefuseTurn \/ Decide \/ SettledTurn \/ EnterStep \/ StepReturns
  BY <1>1 DEF OpenTurn, RefuseTurn, Decide, SettledTurn, EnterStep, StepReturns
<1>2. CASE StepThrows \/ OfferStop \/ Stops \/ Fail \/ AbortTurn
  BY <1>2 DEF StepThrows, OfferStop, Stops, Fail, AbortTurn
<1>3. CASE Rejected \/ EmptyTurn \/ FailTurn
  BY <1>3 DEF Rejected, EmptyTurn, FailTurn
<1>4. CASE ProposeFirst \/ ProposeNext
  BY <1>4 DEF ProposeFirst, ProposeNext, Claim, Mark
<1>5. CASE Retire
  <2>1. owed = {}
    BY <1>5, NothingPending DEF Retire
  <2> QED
    BY <1>5, <2>1 DEF Retire
<1> QED
  BY <1>1, <1>2, <1>3, <1>4, <1>5 DEF Driver

LEMMA OwedLeadsStep ==
  ASSUME TypePlaces, TypeInbox, TypeActivity, IdleIsClean, OwedQueued, DisposedOwesNothing,
         OwedLeads, [Next]_vars
  PROVE  OwedLeads'
<1>0. CASE owed' \subseteq owed /\ UNCHANGED <<phase, abort, wake, pc, leaving>>
  BY <1>0 DEF OwedLeads, Aborted
<1>1. CASE CancelKeeping \/ AbortActivity \/ AbortFromAppend
  <2>1. ASSUME NEW cause, NEW keep, NEW rest, AbortNow(cause, keep, rest), UNCHANGED <<phase, pc>>
        PROVE  OwedLeads'
    <3>1. CASE phase = "idle"
      BY <2>1, <3>1 DEF AbortNow, OwedLeads, Aborted
    <3>2. CASE phase # "idle" /\ (~keep \/ ~Aborted)
      BY <2>1, <3>2 DEF AbortNow, OwedLeads
    <3>3. CASE phase # "idle" /\ keep /\ Aborted
      BY <2>1, <3>3 DEF AbortNow, OwedLeads, Aborted
    <3> QED
      BY <3>1, <3>2, <3>3
  <2> QED
    BY <1>1, <2>1 DEF CancelKeeping, AbortActivity, AbortFromAppend, turnVars
<1>2. CASE Wake
  <2> DEFINE f == Head(frames)
  <2>1. WakeDriver(f.flag, Tail(frames)) /\ UNCHANGED leaving
        /\ owed' = IF Promised(f.flag) THEN owed \cup ({f.msg} \cap Pending) ELSE owed
    BY <1>2 DEF Wake
  <2>2. CASE phase = "idle"
    BY <2>1, <2>2 DEF WakeDriver, OwedLeads, Aborted
  <2>3. CASE phase # "idle" /\ ~Promised(f.flag)
    BY <2>1, <2>3 DEF WakeDriver, OwedLeads, Aborted
  <2>4. CASE phase = "maintenance" /\ Promised(f.flag)
    BY <2>1, <2>4 DEF WakeDriver, OwedLeads, Promised, Consumes
  <2>5. CASE phase = "running" /\ Promised(f.flag)
    BY <2>1, <2>5 DEF WakeDriver, OwedLeads, Promised, Consumes, Aborted
  <2> QED
    BY <2>2, <2>3, <2>4, <2>5 DEF TypePlaces
<1>3. CASE Replay
  <2>1. CASE leaving = "replay" /\ HasPending
    <3>1. WakeDriver(FALSE, <<>>) /\ leaving' = "settle" /\ UNCHANGED owed
      BY <1>3, <2>1 DEF Replay, inboxVars
    <3>2. CASE phase = "idle"
      BY <3>1, <3>2 DEF WakeDriver, OwedLeads, Aborted
    <3>3. CASE phase = "maintenance"
      BY <3>1, <3>3 DEF WakeDriver, OwedLeads, DisposedOwesNothing
    <3>4. CASE phase = "running"
      BY <3>1, <3>4 DEF WakeDriver, OwedLeads, Aborted
    <3> QED
      BY <3>2, <3>3, <3>4 DEF TypePlaces
  <2>2. CASE leaving = "replay" /\ ~HasPending
    BY <1>3, <2>2, NothingPending DEF Replay, OwedLeads, inboxVars
  <2>3. CASE leaving # "replay"
    BY <1>3, <2>3 DEF Replay, OwedLeads, inboxVars, Aborted
  <2> QED
    BY <2>1, <2>2, <2>3
<1>4. CASE DriverMoves
  BY <1>4 DEF DriverMoves, OwedLeads, Aborted
<1>5. CASE GoOn
  <2>1. phase' = "running" /\ abort' = "none" /\ pc' = "start"
    BY <1>5 DEF GoOn, TypePlaces
  <2> QED
    BY <2>1 DEF OwedLeads, Aborted
<1>6. CASE GoIdle
  BY <1>6 DEF GoIdle, OwedLeads, Aborted, inboxVars, TypePlaces
<1>7. CASE StartMaintenance
  BY <1>7 DEF StartMaintenance, OwedLeads, inboxVars
<1>8. CASE MaintenanceEnds
  <2>1. owed = {} \/ (wake /\ HasPending)
    <3>1. phase = "maintenance" /\ leaving = "none"
      BY <1>8 DEF MaintenanceEnds, Resumed
    <3>2. owed # {} => wake
      BY <3>1 DEF OwedLeads
    <3>3. owed # {} => HasPending
      BY NothingPending
    <3> QED
      BY <3>2, <3>3
  <2> QED
    BY <1>8, <2>1 DEF MaintenanceEnds, OwedLeads, inboxVars, Aborted
<1>9. CASE Driver
  BY <1>9, <1>4, <1>5, <1>6, DriverMovesCases
<1>10. CASE RemoveMessage \/ Cancel \/ Dispose \/ ClearPrompts
  BY <1>10, <1>0 DEF RemoveMessage, Cancel, Dispose, ClearPrompts, Mark, activityVars
<1>11. ASSUME NEW target, NEW wakeup, Send(target, wakeup) PROVE OwedLeads'
  BY <1>11, <1>0 DEF Send, activityVars
<1>12. CASE Settle
  BY <1>12 DEF Settle, inboxVars, OwedLeads, Aborted
<1>13. CASE WhenIdle \/ UNCHANGED vars
  BY <1>13, <1>0 DEF WhenIdle, vars, inboxVars
<1> QED
  BY <1>1, <1>2, <1>3, <1>7, <1>8, <1>9, <1>10, <1>11, <1>12, <1>13
     DEF Next, Caller, Returns

\* An agent that has gone quiet owes nobody a turn (QuietOwesNothing).
THEOREM QuietCorrect == Spec => []QuietOwesNothing
<1>1. Init => IdleIsClean /\ OwedQueued /\ DisposedOwesNothing /\ OwedLeads
  BY DEF Init, IdleIsClean, OwedQueued, DisposedOwesNothing, OwedLeads
<1>2. IdleIsClean /\ OwedLeads => QuietOwesNothing
  BY DEF QuietOwesNothing, Quiet, Resumed, IdleIsClean, OwedLeads
<1> QED
  BY <1>1, <1>2, TypeCorrect, IdleStep, OwedQueuedStep, DisposedStep, OwedLeadsStep, PTL
     DEF Spec, TypeOK

=============================================================================
