---------------------------- MODULE SessionTrace ----------------------------
(***************************************************************************)
(* The relations every session log must keep, as session/src/invariant.ts  *)
(* checks them one event at a time: validateEvent accepts or refuses the   *)
(* next event, applyTransition advances the bookkeeping.  The state        *)
(* machine at the end is the protocol a well-behaved log follows; other    *)
(* modules use it as the abstract specification of whatever appends.       *)
(***************************************************************************)
EXTENDS Naturals

VARIABLE trace      \* the SessionTrace record of one session

None == 0           \* openTurn / openStep = null: turns and steps count from 1

\* freshTrace, without lastSeq: the log numbers its own events.
Fresh == [openTurn |-> None, openStep |-> None, nextTurn |-> 1, nextStep |-> 1,
          pendingCalls |-> {}]

Event(type, turn, step, call) ==
    [type |-> type, turn |-> turn, step |-> step, call |-> call]

NoCall == "no call"

InOpenStep(tr, e) == tr.openTurn = e.turn /\ tr.openStep = e.step

\* validateEvent: may e be the next event of a log with trace tr?
Accepts(tr, e) ==
    CASE e.type = "turn/start" -> tr.openTurn = None /\ e.turn = tr.nextTurn
      [] e.type = "turn/end" -> tr.openTurn = e.turn /\ tr.openStep = None
      [] e.type = "step/start" ->
             tr.openTurn = e.turn /\ tr.openStep = None /\ e.step = tr.nextStep
      [] e.type \in {"step/end", "assistant/message", "tool/call"} -> InOpenStep(tr, e)
      [] e.type = "tool/result" -> InOpenStep(tr, e) /\ e.call \in tr.pendingCalls
      [] e.type = "tool/not-started" -> InOpenStep(tr, e)
      [] e.type = "request/header" -> tr.openTurn # None
      [] OTHER -> TRUE

\* applyTransition: the trace after e.
Apply(tr, e) ==
    CASE e.type = "turn/start" -> [tr EXCEPT !.openTurn = e.turn, !.nextStep = 1]
      [] e.type = "turn/end" -> [tr EXCEPT !.openTurn = None, !.nextTurn = @ + 1]
      [] e.type = "step/start" -> [tr EXCEPT !.openStep = e.step]
      [] e.type = "step/end" ->
             [tr EXCEPT !.openStep = None, !.nextStep = @ + 1, !.pendingCalls = {}]
      [] e.type = "tool/call" -> [tr EXCEPT !.pendingCalls = @ \cup {e.call}]
      [] e.type \in {"tool/result", "tool/not-started"} ->
             [tr EXCEPT !.pendingCalls = @ \ {e.call}]
      [] OTHER -> tr

(***************************************************************************)
(* Turn and step boundaries as a protocol.                                 *)
(***************************************************************************)
Follow(e) == Accepts(trace, e) /\ trace' = Apply(trace, e)

\* A fresh log, or a balanced one of any length that a resume loaded.
TraceInit ==
    /\ trace.nextTurn \in Nat \ {0}
    /\ trace = [Fresh EXCEPT !.nextTurn = trace.nextTurn]

TraceNext ==
    \E t \in {trace.openTurn, trace.nextTurn}, s \in {trace.openStep, trace.nextStep},
       type \in {"turn/start", "turn/end", "step/start", "step/end"} :
        Follow(Event(type, t, s, NoCall))

TraceSpec == TraceInit /\ [][TraceNext]_trace
=============================================================================
