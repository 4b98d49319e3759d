-------------------------- MODULE SessionRecovery --------------------------
(***************************************************************************)
(* Crash and resume of one persisted session.                              *)
(*                                                                         *)
(* While the session is live the agent loop appends events to an           *)
(* in-memory log, the write-behind makes prefixes of it durable one batch  *)
(* at a time (WriteBehind), and the checkpoint policy flushes before each  *)
(* request to the model and before each tool body.  A crash at any moment  *)
(* leaves the acknowledged prefix, some prefix of the batch being written  *)
(* and perhaps a torn record.  Resume loads what is left, synthesizes the  *)
(* events that close the interrupted turn (interruptedTurnClosers),        *)
(* commits truncation and closers, and reloads until nothing is left to    *)
(* repair.  It may crash, or fail, anywhere in between.                    *)
(***************************************************************************)
EXTENDS SessionTrace, Sequences, SequencesExt, FiniteSets

CONSTANTS MaxTurns, MaxSteps, MaxCalls,   \* bounds of the log
          MaxCrashes, MaxFaults,          \* bounds of the adversary
          Compressions                    \* subset of {"none", "zstd"}

ASSUME BoundsAssumption ==
    /\ {MaxTurns, MaxSteps, MaxCalls, MaxCrashes, MaxFaults} \subseteq Nat
    /\ Compressions \subseteq {"none", "zstd"}

VARIABLES
    log,            \* Session.events: the live in-memory log
    phase,          \* where the driver is: idle, turn, request, answer, calls, ending
    calls,          \* the calls of the current assistant message
    compression,    \* the jsonl backend's option
    disk, torn,     \* complete durable events; what follows the last of them
    inflight,       \* the batch being written by appendLines
    mode,           \* live, down, prepared, truncated, repairing
    source,         \* the PreparedSessionSource of this resume
    ran,            \* history: calls whose tool body started
    acked,          \* history: events some append has acknowledged
    shown,          \* history: the longest log a model request was built from
    plans,          \* history: the balanced logs this crash can lead to
    crashes, faults

driver == <<log, trace, phase, calls>>
store == <<disk, torn, inflight>>
history == <<ran, acked, shown, plans>>
budget == <<compression, crashes, faults>>
sessionVars == <<driver, store, mode, source, history, budget>>

(***************************************************************************)
(* Events.  A call is named by its turn, its step and its place in the     *)
(* assistant message; `by` records who appended a boundary, and is a       *)
(* history field the program does not have.                                *)
(***************************************************************************)
NoId == <<>>
CallId(t, s, i) == <<t, s, i>>

Entry(type, t, s) == [type |-> type, turn |-> t, step |-> s, call |-> NoId,
                      calls |-> <<>>, by |-> "loop"]
CallEntry(type, id) == [Entry(type, id[1], id[2]) EXCEPT !.call = id]
Repaired(e) == [e EXCEPT !.by = "repair"]

IsResult(e) == e.type \in {"tool/result", "tool/not-started"}

\* The trace after each number of the events.
Traces(tr, events) ==
    LET after[n \in 0..Len(events)] ==
            IF n = 0 THEN tr ELSE Apply(after[n - 1], events[n])
    IN  after

After(tr, events) == Traces(tr, events)[Len(events)]
TraceOf(events) == After(Fresh, events)

\* The turn of the last of these events, 0 when there is none.
TurnOfLast(events, places) == IF places = {} THEN 0 ELSE events[Max(places)].turn

\* An interrupted turn would not count.
LastTurnCompleted(events) ==
    TurnOfLast(events, {i \in DOMAIN events : events[i].type = "turn/end" /\ events[i].by = "loop"})

\* The driver's turn counter at resume: the last turn/start of the seed.
LastTurn(events) == TurnOfLast(events, {i \in DOMAIN events : events[i].type = "turn/start"})

(***************************************************************************)
(* interruptedTurnClosers.                                                 *)
(***************************************************************************)
\* Map.delete: the entry of that call goes, the others keep their order.
Delete(pending, id) ==
    LET places == {i \in DOMAIN pending : pending[i].id = id}
    IN  IF places = {} THEN pending ELSE RemoveAt(pending, CHOOSE i \in places : TRUE)

ScanEvent(s, e) ==
    CASE e.type = "turn/start" -> [openTurn |-> e.turn, openStep |-> None, pending |-> <<>>]
      [] e.type = "turn/end" -> [openTurn |-> None, openStep |-> None, pending |-> <<>>]
      [] e.type = "step/start" -> [s EXCEPT !.openStep = e.step]
      [] e.type = "step/end" -> [s EXCEPT !.openStep = None, !.pending = <<>>]
      [] e.type = "assistant/message" ->
             [s EXCEPT !.pending = @ \o [i \in DOMAIN e.calls |->
                                           [id |-> e.calls[i], started |-> FALSE]]]
      [] e.type = "tool/call" ->
             [s EXCEPT !.pending = [i \in DOMAIN @ |->
                 IF @[i].id = e.call THEN [@[i] EXCEPT !.started = TRUE] ELSE @[i]]]
      [] IsResult(e) -> [s EXCEPT !.pending = Delete(@, e.call)]
      [] OTHER -> s

Unread == [openTurn |-> None, openStep |-> None, pending |-> <<>>]

\* Results would not settle their calls.
ScanForgetsResults(events) ==
    LET read[n \in 0..Len(events)] ==
            IF n = 0 THEN Unread
            ELSE IF IsResult(events[n]) THEN read[n - 1] ELSE ScanEvent(read[n - 1], events[n])
    IN  read[Len(events)]

Scan(events) ==
    LET read[n \in 0..Len(events)] ==
            IF n = 0 THEN Unread ELSE ScanEvent(read[n - 1], events[n])
    IN  read[Len(events)]

\* TOOL_OUTCOME_UNKNOWN for a recorded call, TOOL_NOT_STARTED for any other.
CloseCall(p) == CallEntry(IF p.started THEN "tool/result" ELSE "tool/not-started", p.id)

Closers(events) ==
    LET s == Scan(events)
        results == [i \in DOMAIN s.pending |-> CloseCall(s.pending[i])]
        stepEnd == IF s.openStep = None THEN <<>>
                   ELSE <<Entry("step/end", s.openTurn, s.openStep)>>
        all == results \o stepEnd \o <<Entry("turn/end", s.openTurn, None)>>
    IN  IF s.openTurn = None THEN <<>> ELSE [i \in DOMAIN all |-> Repaired(all[i])]

Balanced(events) == events \o Closers(events)

-----------------------------------------------------------------------------
(***************************************************************************)
(* The live session.                                                       *)
(***************************************************************************)
NoTorn == [bytes |-> FALSE, events |-> <<>>]
NoSource == [events |-> <<>>, recovered |-> <<>>, torn |-> FALSE, closers |-> <<>>]

SessionInit ==
    /\ log = <<>> /\ trace = Fresh /\ phase = "idle" /\ calls = <<>>
    /\ compression \in Compressions
    /\ disk = <<>> /\ torn = NoTorn /\ inflight = <<>>
    /\ mode = "live" /\ source = NoSource
    /\ ran = {} /\ acked = <<>> /\ shown = <<>> /\ plans = {}
    /\ crashes = 0 /\ faults = 0

Live == mode = "live"

\* Session.append: every event passes the trace check and joins the log.
Appends(events) ==
    /\ log' = log \o events
    /\ trace' = After(trace, events)

\* A flush of the present log has resolved: SessionState.cursor = Len(disk).
Durable(length) == Len(disk) >= length

Turn == trace.openTurn
Step == trace.openStep

StartTurn ==
    /\ Live /\ phase = "idle" /\ LastTurn(log) < MaxTurns
    /\ Appends(<<Entry("turn/start", LastTurn(log) + 1, None)>>)
    /\ phase' = "turn"
    /\ UNCHANGED <<calls, store, mode, source, history, budget>>

\* agent/pre-step flushes what the previous step left, then the step opens.
StartStep ==
    /\ Live /\ phase = "turn" /\ trace.nextStep <= MaxSteps
    /\ Durable(Len(log))
    /\ Appends(<<Entry("step/start", Turn, trace.nextStep)>>)
    /\ phase' = "request"
    /\ UNCHANGED <<calls, store, mode, source, history, budget>>

\* llm/stream: afterCheckpoint flushes, and only then is the adapter asked.
Ask ==
    /\ Live /\ phase = "request"
    /\ Durable(Len(log))
    /\ shown' = log /\ phase' = "answer"
    /\ UNCHANGED <<log, trace, calls, store, mode, source, ran, acked, plans, budget>>

\* How many calls the model has asked for.
CallsAsked == FoldLeft(LAMBDA n, e : n + Len(e.calls), 0, log)

\* The stream ends in an assistant message with some tool calls.
Answer ==
    /\ Live /\ phase = "answer"
    /\ \E n \in 0..MaxCalls :
        /\ n + CallsAsked <= MaxCalls
        /\ LET ids == [i \in 1..n |-> CallId(Turn, Step, i)] IN
           Appends(<<[Entry("assistant/message", Turn, Step) EXCEPT !.calls = ids]>>)
        /\ calls' = [i \in 1..n |-> [life |-> "planned", need |-> 0]]
    /\ phase' = "calls"
    /\ UNCHANGED <<store, mode, source, history, budget>>

\* A flush that rejects, or an aborted request: the step ends without an answer.
RequestFails ==
    /\ Live /\ phase \in {"request", "answer"}
    /\ Appends(<<Entry("step/end", Turn, Step)>>)
    /\ phase' = "ending"
    /\ UNCHANGED <<calls, store, mode, source, history, budget>>

Becomes(i, life, need) == calls' = [calls EXCEPT ![i] = [life |-> life, need |-> need]]

Begun == {"waiting", "settled", "answered"}

NextIs(i, life, done) ==
    /\ Live /\ phase = "calls" /\ i \in DOMAIN calls /\ calls[i].life = life
    /\ \A j \in 1..(i - 1) : calls[j].life \in done

\* startCall: tool/call is appended, and the policy's wrapper asks for a flush.
RecordCall(i) ==
    /\ NextIs(i, "planned", Begun)
    /\ Appends(<<CallEntry("tool/call", CallId(Turn, Step, i))>>)
    /\ Becomes(i, "waiting", Len(log) + 1)
    /\ UNCHANGED <<phase, store, mode, source, history, budget>>

\* No flush before the body.
RunBodyAtOnce(i) ==
    /\ NextIs(i, "waiting", Begun)
    /\ ran' = ran \cup {CallId(Turn, Step, i)}
    /\ Becomes(i, "settled", 0)
    /\ UNCHANGED <<log, trace, phase, store, mode, source, acked, shown, plans, budget>>

\* The flush has resolved and the call is not aborted: next() runs the body,
\* and the call is settled once the body is.
RunBody(i) ==
    /\ NextIs(i, "waiting", Begun)
    /\ Durable(calls[i].need)
    /\ ran' = ran \cup {CallId(Turn, Step, i)}
    /\ Becomes(i, "settled", 0)
    /\ UNCHANGED <<log, trace, phase, store, mode, source, acked, shown, plans, budget>>

\* Aborted during the flush: abortedBeforeDispatchResult.
RefuseBody(i) ==
    /\ NextIs(i, "waiting", Begun)
    /\ Durable(calls[i].need)
    /\ Becomes(i, "settled", 0)
    /\ UNCHANGED <<log, trace, phase, store, mode, source, history, budget>>

\* commitReady: results are appended in the order of the message.
CommitResult(i) ==
    /\ NextIs(i, "settled", {"answered"})
    /\ Appends(<<CallEntry("tool/result", CallId(Turn, Step, i))>>)
    /\ Becomes(i, "answered", 0)
    /\ UNCHANGED <<phase, store, mode, source, history, budget>>

\* appendSkippedToolCall: an aborted batch records the call with its result.
SkipCall(i) ==
    /\ NextIs(i, "planned", {"answered"})
    /\ Appends(<<CallEntry("tool/call", CallId(Turn, Step, i)),
                 CallEntry("tool/result", CallId(Turn, Step, i))>>)
    /\ Becomes(i, "answered", 0)
    /\ UNCHANGED <<phase, store, mode, source, history, budget>>

\* The batch is answered, or the scheduler failed after draining what ran and
\* leaves the rest without results.
EndStep ==
    /\ Live /\ phase = "calls"
    /\ \A i \in DOMAIN calls : calls[i].life # "waiting"
    /\ Appends(<<Entry("step/end", Turn, Step)>>)
    /\ calls' = <<>>
    /\ \/ phase' = "turn"
          /\ \A i \in DOMAIN calls : calls[i].life = "answered"
       \/ phase' = "ending"
    /\ UNCHANGED <<store, mode, source, history, budget>>

EndTurn ==
    /\ Live /\ phase \in {"turn", "ending"}
    /\ Appends(<<Entry("turn/end", Turn, None)>>)
    /\ phase' = "idle"
    /\ UNCHANGED <<calls, store, mode, source, history, budget>>

-----------------------------------------------------------------------------
(***************************************************************************)
(* The write path: appendLines, or materialize for the first batch.        *)
(***************************************************************************)
StartBatch ==
    /\ Live /\ inflight = <<>> /\ Len(disk) < Len(log)
    /\ inflight' = SubSeq(log, Len(disk) + 1, Len(log))
    /\ UNCHANGED <<driver, disk, torn, mode, source, history, budget>>

\* handle.sync() returned: the batch is durable and acknowledged.
Acknowledged ==
    /\ disk' = disk \o inflight /\ acked' = disk'
    /\ inflight' = <<>>

BatchDone ==
    /\ Live /\ inflight # <<>>
    /\ Acknowledged
    /\ UNCHANGED <<driver, torn, mode, source, ran, shown, plans, budget>>

\* A write fails and is rolled back.  The barrier that asked for it rejects,
\* and with it every tool call waiting on that flush; a background write only
\* keeps its batch.
BatchFails ==
    /\ Live /\ inflight # <<>> /\ faults < MaxFaults
    /\ inflight' = <<>> /\ faults' = faults + 1
    /\ \/ calls' = [i \in DOMAIN calls |->
                       IF calls[i].life = "waiting" THEN [life |-> "settled", need |-> 0]
                       ELSE calls[i]]
       \/ UNCHANGED calls
    /\ UNCHANGED <<log, trace, phase, disk, torn, mode, source, history, compression, crashes>>

(***************************************************************************)
(* The crash.  Plain JSONL keeps every complete line of the batch; of a    *)
(* Zstandard frame only the whole counts, and what its prefix decodes to   *)
(* is recovered by the next load.  The first batch is published by link(), *)
(* whole or not at all.                                                    *)
(***************************************************************************)
Written(k) ==
    CASE k = Len(inflight) -> disk' = disk \o inflight /\ UNCHANGED torn
      [] k < Len(inflight) /\ disk = <<>> -> k = 0 /\ UNCHANGED <<disk, torn>>
      [] k < Len(inflight) /\ disk # <<>> /\ compression = "none" ->
             /\ disk' = disk \o SubSeq(inflight, 1, k)
             /\ torn' \in {torn, [bytes |-> TRUE, events |-> <<>>]}
      [] OTHER ->
             /\ torn' \in {[bytes |-> TRUE, events |-> SubSeq(inflight, 1, k)]}
                           \cup IF k = 0 THEN {torn} ELSE {}
             /\ UNCHANGED disk

Crash ==
    /\ crashes < MaxCrashes /\ crashes' = crashes + 1
    /\ \E k \in 0..Len(inflight) : Written(k)
    /\ inflight' = <<>> /\ mode' = "down"
    /\ log' = <<>> /\ trace' = Fresh /\ phase' = "idle" /\ calls' = <<>>
    /\ source' = NoSource
    /\ UNCHANGED <<ran, acked, shown, plans, compression, faults>>

-----------------------------------------------------------------------------
(***************************************************************************)
(* Resume: prepareCore and commitPrepared.                                 *)
(***************************************************************************)
\* Every balanced log this crash can end in: what a prefix of the torn
\* frame's events, lost or kept, is closed to.
Outcomes == {Balanced(disk \o SubSeq(torn.events, 1, k)) : k \in 0..Len(torn.events)}

Prepare ==
    /\ mode = "down" /\ disk # <<>>
    /\ LET stored == disk \o torn.events
       IN  source' = [events |-> stored, recovered |-> torn.events, torn |-> torn.bytes,
                      closers |-> Closers(stored)]
    /\ mode' = "prepared"
    /\ plans' = IF plans = {} THEN Outcomes ELSE plans
    /\ UNCHANGED <<driver, store, ran, acked, shown, budget>>

\* loadStored finds no artifact: a new session starts from nothing.
StartOver ==
    /\ mode = "down" /\ disk = <<>>
    /\ mode' = "live"
    /\ UNCHANGED <<driver, store, source, history, budget>>

NeedsRepair == source.torn \/ source.closers # <<>>

\* Cuts a complete record off, or (TruncateNothing) nothing.
TruncateTooFar ==
    /\ mode = "prepared" /\ source.torn
    /\ torn' = NoTorn /\ disk' = Front(disk)
    /\ mode' = "truncated"
    /\ UNCHANGED <<driver, inflight, source, history, budget>>

TruncateNothing ==
    /\ mode = "prepared" /\ source.torn
    /\ mode' = "truncated"
    /\ UNCHANGED <<driver, store, source, history, budget>>

\* repair: truncate to the last complete record or frame.
Truncate ==
    /\ mode = "prepared" /\ source.torn
    /\ torn' = NoTorn
    /\ mode' = "truncated"
    /\ UNCHANGED <<driver, disk, inflight, source, history, budget>>

\* Drops the events recovered from the torn frame.
StartRepairForgets ==
    /\ \/ mode = "truncated"
       \/ mode = "prepared" /\ ~source.torn /\ source.closers # <<>>
    /\ inflight' = source.closers
    /\ mode' = "repairing"
    /\ UNCHANGED <<driver, disk, torn, source, history, budget>>

\* appendLines(recoveredEvents and closers), when there are any.
StartRepair ==
    /\ \/ mode = "truncated"
       \/ mode = "prepared" /\ ~source.torn /\ source.closers # <<>>
    /\ inflight' = source.recovered \o source.closers
    /\ mode' = "repairing"
    /\ UNCHANGED <<driver, disk, torn, source, history, budget>>

\* The repair is committed: commitPrepared answers undefined, and the source
\* is dropped and loaded again.
RepairDone ==
    /\ mode = "repairing"
    /\ Acknowledged
    /\ mode' = "down" /\ source' = NoSource
    /\ UNCHANGED <<driver, torn, ran, shown, plans, budget>>

\* The append fails and is rolled back; load or prepare rejects.
RepairFails ==
    /\ mode = "repairing" /\ faults < MaxFaults
    /\ faults' = faults + 1
    /\ inflight' = <<>> /\ mode' = "down" /\ source' = NoSource
    /\ UNCHANGED <<driver, disk, torn, history, compression, crashes>>

\* Nothing to repair: the seeded session is published and the agent attached.
Resume ==
    /\ mode = "prepared" /\ ~NeedsRepair
    /\ log' = source.events /\ trace' = TraceOf(source.events)
    /\ mode' = "live" /\ source' = NoSource /\ plans' = {}
    /\ UNCHANGED <<phase, calls, store, ran, acked, shown, budget>>

Driver ==
    \/ StartTurn \/ StartStep \/ Ask \/ Answer \/ RequestFails
    \/ EndStep \/ EndTurn
    \/ \E i \in DOMAIN calls :
          RecordCall(i) \/ RunBody(i) \/ RefuseBody(i) \/ CommitResult(i) \/ SkipCall(i)

Writer == StartBatch \/ BatchDone \/ BatchFails

Recovery == Prepare \/ StartOver \/ Truncate \/ StartRepair \/ RepairDone \/ Resume

SessionNext == Driver \/ Writer \/ Recovery \/ RepairFails \/ Crash

SessionSpec == SessionInit /\ [][SessionNext]_sessionVars

\* Recovery gets on, and not by a crash or a fault: these are the steps of Recovery,
\* which has one wherever the session is not live.
GetsOn ==
    /\ ~Live
    /\ mode' \in {"live", "down", "prepared", "truncated", "repairing"} \ {mode}
    /\ UNCHANGED budget

\* Somebody keeps asking for the session, and storage answers.
FairSessionSpec == SessionSpec /\ WF_mode(GetsOn)

-----------------------------------------------------------------------------
(***************************************************************************)
(* Properties.                                                             *)
(***************************************************************************)
\* What a reader of the session sees: the live log, the balanced view of a
\* prepared one, or the complete events on disk.
Visible == IF Live THEN log
           ELSE IF mode = "prepared" THEN source.events \o source.closers
           ELSE disk

Legal(events) ==
    LET before == Traces(Fresh, events)
    IN  \A i \in DOMAIN events : Accepts(before[i - 1], events[i])

\* Whatever mix of the loop's events and synthetic closers a session log is
\* made of, across crashes in mid-step and in mid-repair, the trace invariant
\* accepts every event of it; a session ready to be resumed has no open turn.
LegalLog ==
    /\ Legal(Visible)
    /\ Live => trace = TraceOf(log)
    /\ mode = "prepared" => TraceOf(Visible).openTurn = None

\* A result that tells the model its call was never started is the truth: the
\* tool's body has not run, in this process or in any that crashed.  It is the
\* checkpoint before dispatch that makes the missing tool/call a proof.
HonestRecovery ==
    \A i \in DOMAIN Visible :
        Visible[i].type = "tool/not-started" => Visible[i].call \notin ran

\* Nothing that an append acknowledged, and nothing the model was ever shown, is
\* lost or changed by a crash, by a torn record, or by a repair that is itself cut
\* short; while the session is live the disk never runs ahead of its log.  However
\* often recovery is cut short and started again, it ends in a log the first load of
\* this crash could have ended in: in plain JSONL that is one log; a lost Zstandard
\* frame leaves the choice of how many of its unacknowledged events survive.
Kept ==
    /\ IsPrefix(acked, disk) /\ IsPrefix(acked, Visible)
    /\ IsPrefix(shown, Visible)
    /\ Live => IsPrefix(disk \o inflight, log)
    /\ mode = "prepared" => source.events \o source.closers \in plans

ResultsOf(id) == {i \in DOMAIN Visible : IsResult(Visible[i]) /\ Visible[i].call = id}

ClosedByRepair(t, s) ==
    \E i \in DOMAIN Visible :
        /\ Visible[i].type = "step/end" /\ Visible[i].by = "repair"
        /\ Visible[i].turn = t /\ Visible[i].step = s

\* A provider accepts the resumed transcript: its log is legal, every call of a
\* step that recovery closed has exactly one result, and none of any step has two.
Replayable ==
    /\ LegalLog
    /\ \A i \in DOMAIN Visible : \A k \in DOMAIN Visible[i].calls :
        LET id == Visible[i].calls[k]
        IN  /\ Cardinality(ResultsOf(id)) <= 1
            /\ ClosedByRepair(id[1], id[2]) => ResultsOf(id) # {}

\* When crashes and faults stop, a session that went down comes back.
ComesBack == []<>Live
=============================================================================
