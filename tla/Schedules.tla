------------------------------ MODULE Schedules ------------------------------
(***************************************************************************)
(* Durable reminders of one agent: packages/schedule/schedule/src, with    *)
(* runMaintenance and whenIdle of packages/core/agent-loop/src/agent.ts.   *)
(*                                                                         *)
(* The session log is the only state that lasts.  The tools append to it   *)
(* and a runtime derives one timer from it, both through a queue of        *)
(* transactions that suspend for a flush of the log.  A due reminder is    *)
(* presented to the agent while it is idle; a busy agent is waited for.    *)
(* Flushes fail, the runtime is disposed, the process crashes and the      *)
(* session is resumed from what reached the store.                         *)
(*                                                                         *)
(* The clock counts ticks and never goes back.  A change is the reminders  *)
(* it is about, each with an instant: its first target (create), the       *)
(* instant of the decision (dispatch), or the occurrence presented.        *)
(***************************************************************************)
EXTENDS Naturals, Sequences, FiniteSets, Folds, Functions, SequencesExt, FiniteSetsExt

CONSTANTS Once,          \* reminders presented once
          Repeating,     \* reminders with a fixed rate
          Interval,      \* the interval of a repeating reminder
          LastInstant,   \* the last instant that can be represented
          MaxTurns,      \* turns the user starts
          MaxCalls,      \* calls of the schedule tools
          MaxFailures,   \* flushes that fail
          MaxCrashes

ASSUME SchedulesAssumption ==
    /\ Once \cap Repeating = {} /\ IsFiniteSet(Once \cup Repeating)
    /\ Interval \in Nat \ {0}
    /\ {LastInstant, MaxTurns, MaxCalls, MaxFailures, MaxCrashes} \subseteq Nat

Reminders == Once \cup Repeating
Never == LastInstant + 1

VARIABLES
    log,        \* the reminders' part of the session log
    durable,    \* how much of it has reached the store
    now,        \* the wall clock
    mode,       \* the runtime: "live", "stopping", "stopped"; or the process is "down"
    phase,      \* the agent: "idle", "running" or "maintenance"
    aborted,    \* the running turn was cancelled
    timer,      \* the instant it is armed for, or Never
    run,        \* runRequested: "none", "queued", "returned" or "settling"
    requested,  \* a trigger to be drained
    idleWait,   \* waiting for the agent to be idle
    queue,      \* the transactions, the first running
    step,       \* where the first stands
    deferred,   \* what the last drive left to later activity of the agent: "none", its
                \* "preflight", the "handover" of a reminder, or the "record" of one
    kept,       \* reminders whose creation was acknowledged
    dropped,    \* reminders whose deletion was acknowledged
    turns, calls, failures, crashes

runtime == <<timer, run, requested>>
transactions == <<queue, step>>
answers == <<kept, dropped>>
counters == <<turns, calls, failures, crashes>>
vars == <<log, durable, now, mode, phase, aborted, runtime, idleWait, transactions,
          deferred, answers, counters>>

-----------------------------------------------------------------------------
(* The fold of the log.                                                    *)

Change(op, of) == [op |-> op, of |-> of]

\* resolveEveryOccurrence: the latest occurrence due at an instant.
Occurrence(target, at) == target + ((at - target) \div Interval) * Interval

\* Slip: A reminder presented on the dot keeps its target.
FollowingOrSame(target, at) == IF at = target THEN target ELSE Occurrence(target, at) + Interval

Following(target, at) == Occurrence(target, at) + Interval

\* dispatchedRecord, over the reminders of one dispatch.
Dispatched(active, of) ==
    LET next == [i \in DOMAIN of |-> Following(active[i], of[i])]
        over == {i \in DOMAIN of : i \in Once \/ next[i] > LastInstant}
    IN  [i \in DOMAIN active \ over |-> IF i \in DOMAIN of THEN next[i] ELSE active[i]]

Applied(active, change) ==
    CASE change.op = "create"   -> [i \in DOMAIN change.of \cup DOMAIN active |->
                                      IF i \in DOMAIN change.of THEN change.of[i] ELSE active[i]]
      [] change.op = "delete"   -> Restrict(active, DOMAIN active \ DOMAIN change.of)
      [] change.op = "dispatch" -> Dispatched(active, change.of)
      [] OTHER                  -> active

\* foldScheduleEvents: the active reminders and their targets; the ids ever used.
Active(l) ==
    LET after[n \in 0..Len(l)] == IF n = 0 THEN <<>> ELSE Applied(after[n - 1], l[n])
    IN  after[Len(l)]
Named(l, op) == UNION {DOMAIN c.of : c \in {c \in Range(l) : c.op = op}}

\* dueDecision: one due one-shot, or else every due repeating reminder.
DueOnce(active) == {i \in DOMAIN active \cap Once : active[i] <= now}
DueRepeating(active) == {i \in DOMAIN active \cap Repeating : active[i] <= now}
Due(active) == DueOnce(active) \cup DueRepeating(active)
Batches(active) ==
    IF DueOnce(active) = {} THEN {DueRepeating(active)}
    ELSE {{i} : i \in {i \in DueOnce(active) : \A j \in DueOnce(active) : active[i] <= active[j]}}

Earliest(active) ==
    IF DOMAIN active = {} THEN Never ELSE Min({active[i] : i \in DOMAIN active})

-----------------------------------------------------------------------------
(* The queue of transactions, and the triggers of a drive.                 *)

Transaction(op, of) == [op |-> op, of |-> of]
Drive == Transaction("drive", {})

Init ==
    /\ log = <<>>
    /\ durable = 0
    /\ now = 0
    /\ mode = "live"
    /\ phase = "idle"
    /\ aborted = FALSE
    /\ timer = Never
    /\ run = "queued"
    /\ requested = FALSE
    /\ idleWait = FALSE
    /\ queue = <<Drive>>
    /\ step = "start"
    /\ deferred = "none"
    /\ kept = {} /\ dropped = {}
    /\ turns = 0 /\ calls = 0 /\ failures = 0 /\ crashes = 0

Running(op) == queue # <<>> /\ Head(queue).op = op
Calling == queue # <<>> /\ Head(queue).op # "drive"
Subject == Head(queue).of

\* requestDrive, where the queue and the run are about to be q and r.  With no run
\* the first drive is queued at once.
RequestDrive(q, r) ==
    IF mode # "live"
    THEN queue' = q /\ run' = r /\ UNCHANGED <<timer, requested>>
    ELSE /\ timer' = Never
         /\ IF r = "none"
            THEN queue' = Append(q, Drive) /\ run' = "queued" /\ requested' = FALSE
            ELSE queue' = q /\ run' = r /\ requested' = TRUE

\* The runtime is left alone; the first transaction ends.
Ends == queue' = Tail(queue) /\ step' = "start"
DriveEnds == Ends /\ run' = "returned" /\ UNCHANGED requested

\* A tool whose answer leaves the runtime alone.
CallEnds == Ends /\ UNCHANGED runtime

\* flushSchedulePersistence, answered.  What a failed flush wrote is not known.
Flushed == durable' = Len(log)
FlushFails == failures < MaxFailures /\ failures' = failures + 1 /\ UNCHANGED durable

-----------------------------------------------------------------------------
(* Driving: driveOnce and the loop around it.                              *)

DriveStarts ==
    /\ Running("drive") /\ step = "start"
    /\ timer' = Never
    /\ IF mode = "live" THEN step' = "preflight" /\ UNCHANGED <<queue, run, requested>>
       ELSE DriveEnds
    /\ UNCHANGED <<log, durable, now, mode, phase, aborted, idleWait, deferred, answers, counters>>

DriveMisses ==
    /\ Running("drive") /\ step = "preflight"
    /\ FlushFails
    /\ deferred' = "preflight"
    /\ DriveEnds
    /\ UNCHANGED <<log, now, mode, phase, aborted, timer, idleWait, answers, turns, calls, crashes>>

\* Slip: The idle agent is waited for inside the transaction.
WaitsInside == FALSE

\* waitForIdle, once the transaction has ended.
WaitsForIdle == idleWait' = TRUE /\ DriveEnds /\ UNCHANGED <<log, phase, timer, failures>>

Arms(active) ==
    timer' = Earliest(active) /\ DriveEnds /\ UNCHANGED <<log, phase, idleWait, failures>>

Dispatches(batch) == [k \in 1..Cardinality(batch) |->
                        Change("dispatch", [i \in {SetToSeq(batch)[k]} |-> now])]

\* Slip: The dispatch is recorded before the reminder is handed over.
RecordsFirst(active, batch) ==
    log' = (log \o Dispatches(batch))
           \o <<Change("present", [i \in batch |-> Occurrence(active[i], now)])>>

\* The follow-up, then a dispatch for each reminder in it.
Records(active, batch) ==
    log' = (log \o <<Change("present", [i \in batch |-> Occurrence(active[i], now)])>>)
           \o Dispatches(batch)

\* runMaintenance, up to the settlement of its job.  The follow-up may be refused.
Claims(active) ==
    /\ \/ /\ \E batch \in Batches(active) : Records(active, batch)
          /\ step' = "claimed"
          /\ UNCHANGED failures
       \/ /\ failures < MaxFailures /\ failures' = failures + 1
          /\ step' = "refused"
          /\ UNCHANGED log
    /\ phase' = "maintenance"
    /\ UNCHANGED <<queue, runtime, idleWait>>

DriveDecides ==
    LET active == Active(log) IN
    /\ Running("drive") /\ step = "preflight"
    /\ Flushed
    /\ deferred' = "none"
    /\ \/ mode # "live" /\ DriveEnds /\ UNCHANGED <<log, phase, timer, idleWait, failures>>
       \/ mode = "live" /\ Due(active) = {} /\ Arms(active)
       \/ mode = "live" /\ Due(active) # {} /\ phase # "idle" /\ WaitsForIdle
       \/ mode = "live" /\ Due(active) # {} /\ phase = "idle" /\ Claims(active)
    /\ UNCHANGED <<now, mode, aborted, answers, turns, calls, crashes>>

\* The status stays idle through maintenance, so nobody is told of its end.  The
\* follow-up then wakes the agent and the dispatch is flushed; or it was refused, and
\* the drive is over.
MaintenanceEnds ==
    /\ phase = "maintenance"
    /\ aborted' = FALSE
    /\ \/ /\ step = "claimed"
          /\ phase' = "running" /\ step' = "barrier"
          /\ UNCHANGED <<queue, run, requested, deferred>>
       \/ /\ step = "refused"
          /\ phase' = "idle" /\ DriveEnds
          /\ deferred' = "handover"
    /\ UNCHANGED <<log, durable, now, mode, timer, idleWait, answers, counters>>

\* The dispatch is stored, and the drive asks for another; or its flush fails.
DriveSettles ==
    /\ Running("drive") /\ step = "barrier"
    /\ \/ /\ Flushed /\ UNCHANGED <<failures, deferred>>
          /\ RequestDrive(Tail(queue), "returned") /\ step' = "start"
       \/ FlushFails /\ deferred' = "record" /\ DriveEnds /\ UNCHANGED timer
    /\ UNCHANGED <<log, now, mode, phase, aborted, idleWait, answers, turns, calls, crashes>>

\* runRequested goes round, or returns.
RunLoops ==
    /\ run = "returned"
    /\ IF requested /\ mode = "live"
       THEN requested' = FALSE /\ queue' = Append(queue, Drive) /\ run' = "queued"
       ELSE run' = "settling" /\ UNCHANGED <<requested, queue>>
    /\ UNCHANGED <<log, durable, now, mode, phase, aborted, timer, idleWait, step, deferred,
                   answers, counters>>

\* Slip: A trigger that landed while the run was settling is forgotten.
RetireForgets ==
    /\ run = "settling"
    /\ run' = "none"
    /\ UNCHANGED <<log, durable, now, mode, phase, aborted, timer, requested, idleWait, transactions,
                   deferred, answers, counters>>

Retire ==
    /\ run = "settling"
    /\ IF requested THEN RequestDrive(queue, "none")
       ELSE run' = "none" /\ UNCHANGED <<timer, requested, queue>>
    /\ UNCHANGED <<log, durable, now, mode, phase, aborted, idleWait, step, deferred,
                   answers, counters>>

TimerFires ==
    /\ timer <= now
    /\ RequestDrive(queue, run)
    /\ UNCHANGED <<log, durable, now, mode, phase, aborted, idleWait, step, deferred,
                   answers, counters>>

\* Promise.race of the idle agent and the stop.
Awaited == phase = "idle" \/ mode # "live"

IdleWaitEnds ==
    /\ idleWait /\ Awaited
    /\ idleWait' = FALSE
    /\ RequestDrive(queue, run)
    /\ UNCHANGED <<log, durable, now, mode, phase, aborted, step, deferred, answers, counters>>

-----------------------------------------------------------------------------
(* The tools.                                                              *)

Call ==
    /\ phase = "running" /\ ~aborted /\ mode = "live"
    /\ calls < MaxCalls
    /\ calls' = calls + 1
    /\ \E t \in {Transaction("create", {}), Transaction("list", {})}
                  \cup {Transaction("delete", {i}) : i \in Named(log, "create")} :
          queue' = Append(queue, t)
    /\ UNCHANGED <<log, durable, now, mode, phase, aborted, runtime, idleWait, step, deferred,
                   answers, turns, failures, crashes>>

\* A call cancelled before its turn, or whose flush fails, answers so.
CallStarts ==
    /\ Calling /\ step = "start"
    /\ IF aborted THEN CallEnds ELSE step' = "preflight" /\ UNCHANGED <<queue, runtime>>
    /\ UNCHANGED <<log, durable, now, mode, phase, aborted, idleWait, deferred, answers, counters>>

CallUncertain ==
    /\ Calling /\ step \in {"preflight", "barrier"}
    /\ FlushFails
    /\ CallEnds
    /\ UNCHANGED <<log, now, mode, phase, aborted, idleWait, deferred,
                   answers, turns, calls, crashes>>

\* The first targets a new reminder may have, each in the future.
FirstTargets(i) ==
    IF i \in Once THEN (now + 1)..LastInstant ELSE {now + Interval} \cap (0..LastInstant)

\* What a call appends after its preflight.
Appends(op) ==
    CASE op = "create" -> \E i \in Reminders \ Named(log, "create") : \E target \in FirstTargets(i) :
                             log' = Append(log, Change("create", [j \in {i} |-> target]))
      [] op = "delete" -> /\ Subject \subseteq DOMAIN Active(log)
                          /\ log' = Append(log, Change("delete", [i \in Subject |-> now]))
      [] OTHER         -> FALSE

\* The preflight is answered: the runtime is told, and the call appends its change
\* or ends without one (a list, nothing to delete, a bad argument, cancelled).
CallProceeds ==
    /\ Calling /\ step = "preflight"
    /\ Flushed
    /\ \/ /\ ~aborted
          /\ Appends(Head(queue).op)
          /\ RequestDrive(queue, run)
          /\ step' = "barrier"
       \/ /\ Running("delete") => aborted \/ ~(Subject \subseteq DOMAIN Active(log))
          /\ RequestDrive(Tail(queue), run)
          /\ step' = "start"
          /\ UNCHANGED log
    /\ UNCHANGED <<now, mode, phase, aborted, idleWait, deferred, answers, counters>>

\* Slip: A change is acknowledged without its barrier.
UnflushedBarrier == UNCHANGED durable

Barrier == Flushed

CallSettles ==
    /\ Calling /\ step = "barrier"
    /\ Barrier
    /\ RequestDrive(Tail(queue), run)
    /\ step' = "start"
    /\ kept' = kept \cup (IF Running("create") THEN DOMAIN Last(log).of ELSE {})
    /\ dropped' = dropped \cup (IF Running("delete") THEN Subject ELSE {})
    /\ UNCHANGED <<log, now, mode, phase, aborted, idleWait, deferred, counters>>

-----------------------------------------------------------------------------
(* The agent, the clock, disposal, crash and resume.                       *)

TurnStarts ==
    /\ phase = "idle" /\ mode # "down" /\ turns < MaxTurns
    /\ turns' = turns + 1
    /\ phase' = "running"
    /\ UNCHANGED <<log, durable, now, mode, aborted, runtime, idleWait, transactions, deferred,
                   answers, calls, failures, crashes>>

Cancel ==
    /\ phase = "running" /\ ~aborted
    /\ aborted' = TRUE
    /\ UNCHANGED <<log, durable, now, mode, phase, runtime, idleWait, transactions, deferred,
                   answers, counters>>

\* Slip: The end of a turn is no trigger.
TurnEndsUnseen ==
    /\ phase = "running"
    /\ \A t \in Range(queue) : t = Drive
    /\ phase' = "idle" /\ aborted' = FALSE
    /\ UNCHANGED <<log, durable, now, mode, runtime, idleWait, transactions, deferred,
                   answers, counters>>

\* A turn outlives the calls it made.
TurnEnds ==
    /\ phase = "running"
    /\ \A t \in Range(queue) : t = Drive
    /\ phase' = "idle" /\ aborted' = FALSE
    /\ IF log # <<>> THEN RequestDrive(queue, run) ELSE UNCHANGED <<queue, runtime>>
    /\ UNCHANGED <<log, durable, now, mode, idleWait, step, deferred,
                   answers, counters>>

Tick ==
    /\ now < LastInstant
    /\ now' = now + 1
    /\ UNCHANGED <<log, durable, mode, phase, aborted, runtime, idleWait, transactions, deferred,
                   answers, counters>>

Dispose ==
    /\ mode = "live"
    /\ mode' = "stopping"
    /\ requested' = FALSE
    /\ timer' = Never
    /\ UNCHANGED <<log, durable, now, phase, aborted, run, idleWait, transactions, deferred,
                   answers, counters>>

\* The run and the wait in flight have settled.
Disposed ==
    /\ mode = "stopping" /\ run = "none" /\ ~idleWait
    /\ mode' = "stopped"
    /\ UNCHANGED <<log, durable, now, phase, aborted, runtime, idleWait, transactions, deferred,
                   answers, counters>>

\* The store is left with some of what was appended since the last flush.
Crash ==
    /\ mode # "down" /\ crashes < MaxCrashes
    /\ crashes' = crashes + 1
    /\ \E n \in durable..Len(log) : log' = SubSeq(log, 1, n) /\ durable' = n
    /\ mode' = "down"
    /\ phase' = "idle" /\ aborted' = FALSE
    /\ timer' = Never /\ run' = "none" /\ requested' = FALSE
    /\ idleWait' = FALSE /\ queue' = <<>> /\ step' = "start" /\ deferred' = "none"
    /\ UNCHANGED <<now, answers, turns, calls, failures>>

\* The session is resumed, and the runtime of its new agent starts.
Resume ==
    /\ mode = "down"
    /\ mode' = "live"
    /\ queue' = <<Drive>> /\ run' = "queued"
    /\ UNCHANGED <<log, durable, now, phase, aborted, timer, requested, idleWait, step, deferred,
                   answers, counters>>

-----------------------------------------------------------------------------
Driving ==
    \/ DriveStarts \/ DriveMisses \/ DriveDecides \/ MaintenanceEnds \/ DriveSettles
    \/ RunLoops \/ Retire
CallSteps == CallStarts \/ CallUncertain \/ CallProceeds \/ CallSettles

Next ==
    \/ Driving \/ TimerFires \/ IdleWaitEnds
    \/ Call \/ CallSteps
    \/ TurnStarts \/ Cancel \/ TurnEnds \/ Tick
    \/ Dispose \/ Disposed \/ Crash \/ Resume

Spec == Init /\ [][Next]_vars

\* Flushes are answered, promises and timers fire.  No turn need ever end.
FairSpec ==
    /\ Spec
    /\ WF_vars(Driving) /\ WF_vars(TimerFires) /\ WF_vars(IdleWaitEnds)
    /\ WF_vars(CallSteps) /\ WF_vars(Disposed)

-----------------------------------------------------------------------------
\* What a crash at this moment may leave in the store.
Recoverable == {SubSeq(log, 1, n) : n \in durable..Len(log)}

AtRest == mode = "live" /\ run = "none" /\ queue = <<>> /\ ~idleWait

\* No reminder waits for activity that the agent has yet to show.  A dispatch that was
\* not recorded waits for the end of the turn it started.
Attended == deferred = "none" \/ (deferred = "record" /\ phase = "idle")

\* A reminder the model was told is set cannot be lost, wherever a crash cuts the
\* log: it is active, or was deleted, or was presented; and no occurrence is marked
\* dispatched without having been presented.  Nor is one forgotten: at rest the timer
\* is armed for the earliest target, unless the last drive failed before it had looked
\* or could not hand over what is due, which waits for the agent's next activity.  Where
\* only the record of a dispatch failed, the end of the turn it started is enough.
NothingLost ==
    /\ AtRest /\ Attended => timer = Earliest(Active(log))
    /\ \A l \in Recoverable :
        /\ kept \subseteq DOMAIN Active(l) \cup Named(l, "delete") \cup Named(l, "present")
        /\ \A k \in DOMAIN l : l[k].op = "dispatch" =>
              \A i \in DOMAIN l[k].of : \E j \in 1..(k - 1) :
                  /\ l[j].op = "present" /\ i \in DOMAIN l[j].of
                  /\ l[j].of[i] <= l[k].of[i]
                  /\ i \in Repeating => l[k].of[i] - l[j].of[i] < Interval

\* A reminder the model was told is deleted stays deleted across a crash, and is
\* never presented again.
DeletionHolds ==
    \A l \in Recoverable :
        /\ dropped \cap DOMAIN Active(l) = {}
        /\ \A j, k \in DOMAIN l : j < k /\ l[j].op = "delete" /\ l[k].op = "present"
                                  => DOMAIN l[j].of \cap DOMAIN l[k].of = {}

\* An occurrence is presented twice only where a crash lost the record that it had
\* been dispatched.
PresentedOnce ==
    \A j, k \in DOMAIN log : j < k /\ log[j].op = "present" /\ log[k].op = "present" =>
        \A i \in DOMAIN log[j].of \cap DOMAIN log[k].of :
            log[j].of[i] = log[k].of[i] =>
                ~ \E m \in j..k : log[m].op = "dispatch" /\ i \in DOMAIN log[m].of

\* Where the agent is idle time and again, a due reminder does not stay due, unless
\* the runtime stops or a failed preflight or handover waits for activity.
DueIsPresented ==
    []<>(phase = "idle") =>
        \A i \in Reminders :
            []<>(\/ i \notin Due(Active(log)) \/ mode # "live"
                \/ deferred \in {"preflight", "handover"})

\* A tool call ends though its own turn keeps the agent busy, and disposal ends
\* though a turn may run on: no wait for the agent is inside a transaction.
WaitsEnd ==
    /\ []<>(\A t \in Range(queue) : t = Drive)
    /\ []<>(mode # "stopping")

=============================================================================
