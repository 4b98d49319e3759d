# Verification of the harness core

TLA+ models of the part of the harness that must not go wrong: the agent loop,
its tool calls, and the event log that makes a session survive a crash.  Each
module is translated from the TypeScript source named in its header;
`PROJECT.json` maps every definition to the lines it stands for.

## 1. The system

The harness is a plugin host (cordis) on one Node event loop.  An *agent* owns
an inbox and a driver; the driver turns queued messages into *turns* of *steps*,
each step asks a model and runs the tool calls of its answer.  Everything that
happens is appended to the *session*, an in-memory event log.  Persistence
listens to the log and writes it behind; after a crash the log is loaded,
repaired and a new driver resumes it.  Around the agents stand services that
start work of their own and must not outlive or miss an agent: background jobs,
subagents, reminders, the processes of MCP servers.

```
 send/steer/cancel        tools/execute         session/event
      |                        |                     |
      v                        v                     v
  Inbox --> ReactLoopAgent --> executeToolCalls --> Session.append --> SessionWriteBehind
               (AgentLoop)       (ToolCalls)       (SessionTrace)       (WriteBehind)
                   |                 |                                      |
                   +--- checkpoint policy: flush before request / body -----+
                                                                            v
     prepare/load/inspect <-- interruptedTurnClosers, commitRepair <-- jsonl / sqlite
       (Preparations)              (SessionRecovery)

 around an agent:  LocalJobRegistry    (Jobs)           notices, teardown
                   ContinuationManager (Subagents)      messages, residency
                   ScheduleRuntime     (Schedules)      maintenance, whenIdle
                   MCP supervisor      (McpConnection)  tools in the registry
```

| Component | State | Operations | Talks to | What is hard | Correct means |
|---|---|---|---|---|---|
| Agent driver, `core/agent-loop/src/agent.ts`, `core/agent/src/inbox.ts` | phase (idle, maintenance, running), turn and step counters, abort signal, wake latch, `activityDone`, two pending lists | send/steer/followup/inject, remove, cancel, runMaintenance, whenIdle, dispose; the driver's own steps | session (append), plugins (waterfalls), inbox observers | callers between any two awaits, and synchronous observers that call back in the middle of an operation | every promised wake is driven; each message ends in one place; an aborted activity opens nothing; disposal outlives every activity; the log stays well formed |
| Tool-call scheduler, `core/agent-loop/src/tool-calls.ts` | group, `nextToStart`, `committed`, in-flight map, slots, `schedulerFailure` | classify, fill the pool, commit ready results, drain, skip | tool registry, session | results in any order, reclassification, aborts and failures at every await | calls and results in model order, barriers, cap, all answered, nothing left running |
| Tool registry, `core/tools/src/index.ts` | cancellation state of each execution | prepare, dispatch, body, finalize | policies, wrappers, tools | abort against policy, wrapper and body | the reported outcome says truthfully whether the body ran |
| Session and its relations, `core/session/src` | the log; the invariant companion's trace | append, validateEvent, applyTransition | everything | events of several writers | turns, steps and calls nest and count without gaps |
| Write-behind, `session-persistence/src/write-behind.ts` | pending, timer, active write, barrier, deadline and pause flags | enqueue, flush, deadline, write settles | session/event, backend | promise reactions, timers, producers and flushes interleave; failed writes | nothing lost, repeated, reordered or forgotten; a resolved flush is durable |
| Coordinator and backends, `session-persistence/src/coordinator.ts`, `-jsonl`, `-sqlite` | cursor, prepared sources, file | create, append, load, prepare, inspect, repair, retire | write-behind, agent factory | crash between any two bytes, torn records, repair that crashes | acknowledged events survive; repair converges to one legal log |
| Preparations, `session-persistence/src/preparations.ts`, `coordinator.ts` | per-id entries: loading, ready, committing, reserved; the per-session chain and its cursor | prepare, load, inspect, public append, publish, release, retire | agent factory, queries | shared reads, exclusive reservation, revision checks, eviction, writers outside the process | one owner; a view holds what was in the log when it was asked for; every call ends |
| Checkpoint policy, `session-checkpoint-policy/src` | none | flush before step, request and tool body | write-behind | it is what makes recovery truthful | no side effect before its record is durable |
| Agent factory, `core/agent-loop/src/index.ts`, `core/agent/src/factory.ts` | scopes, registries | create, resume, dispose, rollback | session, coordinator | failure after each acquired resource | everything acquired is released |
| Background jobs, `jobs/jobs-local/src/index.ts` | records with status, owner, `reported` and waiters; owner cleanups | start, settle, read, kill, wait, disposeOwned, disposeAll | producers, owners' scopes, completion reporters | ends, aborts, deadlines and two kinds of teardown meet in one tick; producers that stop late or throw | each end is said exactly once; limits hold; no work outlives its owner |
| MCP client, `mcp/mcp-client/src/connection.ts`, `tools.ts` | current client, reconnect timer, failure counter, synchronisation chain, registered tools | connect, disconnect, reconnect, sync, give up, dispose | server process, tool registry | a close that is never seen, failures during a connect, list changes that outlive their connection, disposal anywhere | one server at a time, its tools and no others, restarts within a budget |
| Schedules, `schedule/schedule/src` | the reminders in the session log, one timer, a transaction queue | create, list, delete; drive, decide, present, dispatch | session, agent maintenance, write-behind | busy agents, failing flushes, a crash between presenting and recording, disposal | an acknowledged reminder is presented or deleted; a deleted one never; no tool call waits for its own turn |
| Subagents, `subagent/subagent/src/continuation.ts` | an epoch per resident child, child locks, settlement watchers, closing scopes | startContinuable, followup, interrupt, report, drainChildren, drainDescendants, drain | agents, sessions, agent factory | messages against settlement, closing against cold resume, notices that wake a parent | children are released before their owners; an accepted message is heard; drains end |
| Goals, approvals and questions, agent teams, LLM retry | registries of pending work | start, cancel, complete, retire | agents, timers | completion against cancel and teardown | each ends once, waiters are told |
| The rest (client, hosts, SDK, storage, tools' bodies, context) | views, files, wire formats | | | little concurrency of their own | |

`PROJECT.json` lists all of them under `components`, with the reason where a
part is not modelled, and under `hazards` the places where this code can go
wrong in a way tests hardly reach, with the properties that watch them.

## 2. Modules

| Module | Models | Lines |
|---|---|---|
| `SessionTrace` | the session invariant companion: `Accepts` = validateEvent, `Apply` = applyTransition, and the turn/step protocol `TraceSpec` | the abstract specification the driver implements and the yardstick of recovery |
| `AgentLoop` | driver, inbox, disposal | one action per stretch between awaits |
| `AgentLoop_proofs` | proofs about it | |
| `ToolCalls` | scheduler and call life | |
| `ToolCalls_proofs` | proofs about it | |
| `DurableQueue` | what persistence promises: a queue whose head is stored, and a flush that ends with nothing pending | abstract |
| `WriteBehind` | SessionWriteBehind, coordinator flush | implements `DurableQueue` |
| `SessionRecovery` | crash, load, repair, resume; uses `SessionTrace` | |
| `Durability_proofs` | proofs about `WriteBehind` and `SessionRecovery` | |
| `Jobs` | LocalJobRegistry, completion notices | one action per synchronous stretch |
| `Jobs_proofs` | proofs about it | |
| `Preparations` | SessionPreparations and the coordinator's chain, one session | |
| `Preparations_proofs` | proofs about it | |
| `McpConnection` | the connection supervisor and its tool synchronisation | one action per stretch between awaits |
| `McpConnection_proofs` | proofs about it | |
| `Schedules` | ScheduleRuntime, its transactions, the fold of the log, the tools | |
| `Schedules_proofs` | proofs about it | |
| `Subagents` | SubagentContinuationManager | one action per stretch between awaits |
| `Subagents_proofs` | proofs about it | |
| `MCSubagents` | a chain of children | |

How they meet: `AgentLoop` implements `SessionTrace`, which `SessionRecovery`
holds its logs to; `WriteBehind` implements `DurableQueue`.  The others cut their
neighbours down to what they read, and rely on what is shown of those:
`SessionRecovery` and `Schedules` on `FlushIsDurable`, `Subagents` and `Schedules`
on the agent's phases, latch and `whenIdle` (`TeardownFindsQuiet`, `OwedIsDriven`),
`Preparations` on a repair that converges (`Kept`).

The definitions whose comment begins with "Mutation" or "Slip" (`WhenIdleOnce`,
`ClosersSkipStep`, `GivesUpAtOnce` and so on) are plausible bugs, defined beside
what they would replace and used by no specification.

### AgentLoop

The driver is sequential, so `pc` is the await or append it is at.  Any caller
may run while the driver waits.  Inbox and phase notifications are synchronous
and observers may call back, so an operation that notifies is cut in two:
`frames` is the call stack, its entries the rest of the operations that are
inside a notification.  `Outside` says when a caller may run, `DriverRuns` when
the driver may.  `trace` is what the invariant companion makes of the events the
driver appends; turns and steps are appended nowhere else.  `Send(target,
wakeup)` is `followup`, `steer` and `inject`; `WakeDriver` is the latch, the idle
start or nothing; `GoIdle`, `Replay` and `Settle` are the three segments of
`kick`'s finally.  `owed` is the history variable behind the liveness claims:
messages for which a send with wake-up was accepted and that nothing has since
claimed, discarded or, by a rule the code documents, parked (a rejected step,
an error, a cancel that keeps the inbox, disposal).  `joined` is the narrower one
behind the finding of section 6: steering whose wake came while a live driver ran,
which that driver has yet to claim.

Left out: the request and its stream are one await (`StepReturns`,
`StepThrows`); inbox `prepend` and `replace`; replay of an inbox from a log; an
observer of `session/event` that clears a non-empty inbox, which throws because
append does not reenter.

### ToolCalls

`pc` is the await of `runGroup` and of its helpers, `stage[i]` where call i is:
refused or gating (ordered pre-execute), wrapping, body, then the slot waiting
for its ordered commit.  Tools may be reclassified whenever the scheduler
waits; the abort signal may fire between any two segments and inside an
observer of an append; policies, wrappers, bodies and post-policies answer,
fail or throw.  `log` holds the call and result events.

### WriteBehind and DurableQueue

A step is one job of the event loop: a producer or flush caller, a promise
reaction, a timer callback.  `stage`, `drain` and `continuing` are the reactions
that are queued.  Timers fire only when no reaction is queued, as in Node.

### SessionRecovery

One persisted session.  The live part is a driver with its boundaries, one
message with up to `MaxCalls` calls, which may overlap, and the checkpoints;
flush is the guard `Durable`, which `WriteBehind!FlushIsDurable` justifies.
`inflight` is the batch `appendLines` is writing; `Crash` keeps the durable
events, any prefix of that batch (a Zstandard frame counts whole, and a prefix
of it is `torn.events`, what its decoder recovers), and maybe torn bytes.
`Prepare`, `Truncate`, `StartRepair`, `RepairDone` and `Resume` are prepareCore
and commitPrepared with the backend's commitRepair, which may fail or crash at
each point.  `Closers` is interruptedTurnClosers as the same fold over the log; that fold
(`Scan`) and the trace of a log (`Traces`) are recursive functions over its prefixes.

Assumptions: one process uses a session at a time, so the revision check
always passes; bytes one load has seen stay on disk; a failed append is rolled
back.  The SQLite store repairs in one transaction and has a subset of these
behaviours.

### Jobs

An action is the synchronous stretch of a call or a reaction.  `producer` is
what the registry cannot see: the work, then the outcome its `done` carries
until the reaction `Settles` has run.  `waitState` separates the resolution of
a wait from its continuation, since aborts, deadlines and settlements meet
between the two; `Waiters` is the `waiters` counter.  A scope unloads
(`ScopeUnloads`), runs the cleanup effect (`DisposeOwned`) and awaits the jobs
it cancelled (`OwnedDrained`); `DisposeAll` and `AllDrained` are the two halves
of the service's disposal.  A cancel that throws in a teardown fails the record
and leaves the work to `orphans`, as the code logs.  `notices` and `told` are
history: what a completion reporter and callers have been told.

Left out: scoped controllers and listener layers, the session access fence,
jobs without owner, the wake budget and wording of notices, output limits.
A start while the service is being disposed cannot happen: producers take the
service with `ctx.get('jobs')`, which is then gone.

### Preparations

One stored session.  `chain` is the coordinator's per-id queue, whose head is the
operation that runs: the read of an entry (`LoadReads`), the commit of a repair
(`Commits`), the revision check of a prepare (`Checks`), a live write or a public
append (`AppendStarts`, `Adopts`, `Writes`), a retirement (`Retires`).  `pool` is
the entry of `SessionPreparations`, `call[c].on` the entry a call still holds a
reference to, which the pool may have replaced.  Between the operations of the
chain run the calls (`Loop`, `Reserve`, `Committed`, `Checked`), abort signals,
evictions by other sessions, disposal of the published session, and writers
outside the process.  A log is its revision and whether it ends in an open turn;
a repair and every write make a new revision.  `call[c].missing` is history: the
revisions from before the call that its answer does not hold.

Left out: `create()` and sessions that enter without a preparation (fresh or
hot-reloaded), `readFrom`, the order of the LRU (any ready entry may be evicted).

### McpConnection

A *generation* is one attempt and the client it made.  `attempt[g]` is where
`connectOnce` and the closing of its client stand, `server[g]` the process behind
it, `observed` the closes that were seen: `closeAndWait` gives up on one that is
not (`CloseTimesOut`), and then no generation may follow.  `queue` is
`syncChain`: the initial synchronisation of an attempt, those that list changes
ask for, and the disposal of the tools when the supervisor gives up.  A
synchronisation checks its generation once, when its turn comes (`SyncSkips`,
`SyncFetches`); what it fetched is registered whatever happened meanwhile
(`SyncSwaps`), and giving up queues the disposal behind it.  `uptime` is the stability timer,
`failed` the failures counted, `streak` the history variable that counts the
generations since a connection was last stable.  Dispose is cut at its four
awaits.

Left out: transports, tool definitions and their projection, calls, and the
`requests` of a connected client.

### Schedules

The log is the only state that lasts, `durable` how much of it the store has.
`queue` is the runtime's transaction queue, `step` where its first entry stands:
before, in, or behind its flush.  A *drive* flushes, decides (`DueOnce`,
`DueRepeating`), and in a maintenance job of the agent appends what it presents
and dispatches, flushing in between; a busy agent is waited for outside the
queue (`IdleWaitEnds`).  The agent's status is idle throughout maintenance, so its
end tells nobody anything (`MaintenanceEnds`); what triggers a drive is the start of
the runtime, a tool call, the end of a turn, the timer, the end of an idle wait, and
a dispatch that was stored.  A drive that fails therefore leaves what it was about to
later activity of the agent, as the package's README (line 112) documents; `deferred`
is history and says at which point: its preflight, the handover of a reminder, or the
record that one was dispatched.  `Active` is the fold of the log with the fixed-rate
arithmetic of `resolveEveryOccurrence`.  A crash keeps any prefix behind what is
durable.  `kept` and `dropped` are history: what the tools answered.

Left out: parsing of instants and zones, decoding of changes, forked and corrupt
logs, a dispatch append or an idle wait that throws and faults the runtime for good,
a clock set back, an inbox cancel that drops a presented reminder, the
segments of a timer longer than the host allows.

### Subagents

`epoch[k]` is the `Activation` of a child: being created or resumed, up, or
somewhere in its disposal (stopping its agent, the final flush, the release).
`line[k]` is the child's lock, a FIFO of calls and of watchers; `call[c].at` the
await a `startContinuable` or `followup` is at.  The watcher waits for the agent
to be quiet (`racing`), takes the lock (`queued`), looks again and either
disposes or goes back.  `poked` is the promise a changed child resolves: the
watcher captures it before it looks, so a poke in between is not missed.
A child is installed and submitted across a few microtasks, which run in order: no
child overtakes the parent it was installed under (`Foremost`).
`Disposes(ks, why)` is disposal of a set with everything owned below it, the
synchronous part of it before the first await; `Disposal(k)` its three awaits,
with `notifySettlement` in the last.  `agent[k]` is `AgentLoop` cut down to
phase, abort cause, latch and unread waking messages.  `epoch[k].lost` is
history: waking messages discarded with the agent.

Left out: several host roots and a root that leaves, the content of notices and
reports, messages that wake nobody, descriptors and policies, one-shot and
out-of-process runs, wakes by senders the manager does not account for.

## 3. Runs

| Run | Asks | Bounds | Why they are enough |
|---|---|---|---|
| `write_behind` | safety, refinement and liveness of the write path | 4 events, 2 flush callers | an event before, in, and behind a batch plus one enqueued during the drain; two callers share and reopen a barrier |
| `agent_loop` | what the driver owes, writes and ends | 2 messages, 2 steps, stack of 2, a log with one turn | one message is handled while another arrives, in any phase or inside an observer; a second step meets a cancel |
| `empty_turn` | violation, see section 6 | 2 messages, stack of 1 | |
| `tool_calls` | order, barriers, cap, outcomes, aborts, and that the batch ends | 3 calls, pool of 2 | a group of two, a barrier, and a call that waits for a slot |
| `session_recovery` | what crashes and repairs make of a log, and that they end | 2 turns of 1 step, 2 calls in the log, 2 crashes, 1 failure | a crash of the loop and one of its repair; one call recorded, one not; a turn behind a recovered one |
| `jobs` | who is told, who is released, limit, untended work, that disposals end | 2 jobs of one owner, 2 waits, limit of 1 | a second job is refused while the first works or stops and starts when it ended; two waits on one job abort and time out around its end; owner and service drain it at once |
| `preparations` | one owner, no stale answer, calls end | 2 preparers, a loader, an inspector, a public append; 2 revisions; 4 inputs: calls, aborts, the append, evictions, writes from outside | two preparers compete for one entry while a third call shares it, one of them commits the repair; an abort, a write, an eviction or an outsider comes between a read and its use; or two calls meet two of those |
| `preparations_contiguous` | violation, see section 6 | a load, 2 appends | |
| `mcp_connection` | one server, its tools, its budget, disposal | 2 reconnects, 1 stable connection, 2 list changes | the budget is spent, reset by a stable connection and spent again; a change is queued behind a synchronisation |
| `schedules` | nothing lost, deleted stays deleted, nothing twice, due ones presented, waits end | a one-shot and a repeating reminder, interval 2, instants to 3, 2 calls, 1 user turn, 1 failure, 1 crash | both are due together, the repeating one late or at its last instant; a crash falls between presenting and recording |
| `subagents` | residency and messages; quiet children, calls and drains end | a chain of 2 children, 3 calls, 3 inputs | a call on the child while its own child settles, while it is resumed, and while it is stopped |
| `subagents_woken` | violation, see section 6 | as `subagents` | |

Safety and liveness of a component are checked on one state graph.  Where two
kinds of disturbance do not need each other, they share a bound, which keeps that
graph small: `MaxInputs` in `Preparations` (calls made, signals fired, public
appends, evictions and writes from outside) and in `Subagents` (calls begun, reports,
maintenance tasks and host aborts), and in `SessionRecovery` `MaxCalls`, which
counts the calls of the whole log.  Calls of `Subagents`, and the preparing calls of
`Preparations`, begin in a fixed order, since nothing tells them apart before.

`CHECK_DEADLOCK FALSE` where the system may rest: an idle agent, a session
nobody uses.

### Properties

*Driver.* `ExactlyOnce`: a message is pending once, claimed or discarded, and two
queued prompts never share a turn.  `QuietOwesNothing` and `OwedIsDriven`: an
agent at rest owes no wake, and a promised message is eventually dealt with.
`AbortedOpensNothing`: an aborted activity opens no turn or step.
`ActivitiesEnd`: an aborted activity ends, and so does disposal.
`TeardownFindsQuiet`: disposal stops waiting exactly when no activity is left.
`LogFollowsTrace`: the driver implements `TraceSpec`.

*Tool calls.* `ModelOrder`: the transcript is replayable, in order and complete.
`Barriers`: exclusive calls run alone and the cap holds, across
reclassification, and a batch that is over left nothing running.
`HonestOutcome`: an aborted call's result tells whether its body ran.
`AbortStartsNothing`: after an abort nothing starts, nor is recorded as started.
`BatchEnds`.

*Write path.* `NoForgottenWork`, `FlushIsDurable`, `ImplementsQueue`, and
`EventuallyStored`, which includes that flushes settle.

*Recovery.* `Replayable`: whatever mix of real and synthetic events a log is, the
trace relations accept it (`Legal`), and each call of a recovered step has one
result.  `HonestRecovery`: "not started" is said only of a call whose body never
ran.  `Kept`: neither an acknowledged event nor a prompt the model saw is ever
missing, and interrupted repairs converge to a log the first one was heading
for.  `ComesBack`.

*Jobs.*  `NoSwallowedEnd` and `OneVoice`: a job's end is announced, told or
about to be returned, never announced to somebody who has it otherwise, and never
taken back.  `NoUntendedWork`: behind running work there is a record some teardown
will reach, whatever overlaps.  `CapacityHeld`: the limit is on work, not on
records that say "running".  `DrainEnds`.

*Preparations.*  `OneOwner`: of all who hold, run, drain or track the session
there is one, and what a holder would publish is the log, repaired, as this
process has written it.  `Truthful`: an answer misses nothing that was in the log
when it was asked for; only a view borrowed from a preparation may, and only what
others wrote.  `CallsEnd`.

*MCP.*  `OneServer`, `NoStrayTools`, `Supervised`: one process at a time; its
tools or none; somebody is looking after a lost connection, and a server that
crashes on and on is started a bounded number of times.  `DisposeEnds`.

*Schedules.*  `NothingLost`: what was acknowledged as set is active, deleted or
presented in whatever log a crash leaves, no occurrence is recorded without having
been presented, and the timer of a runtime at rest is that of the earliest target,
with three exceptions the code makes: the last drive's preflight failed, its handover
was refused, or the turn of a dispatch whose record failed still runs (`Attended`).
`DeletionHolds`, `PresentedOnce`: a deleted reminder stays silent, and a second
presentation needs a crash that lost the record of the first.  `DueIsPresented`: where
the agent is idle time and again a due reminder does not stay due, except after a
failed preflight or handover, which has no retry of its own.  `WaitsEnd`: no wait for the agent sits inside a transaction.

*Subagents.*  `ChildFirst`: an owner stays resident while what it owns does and
counts it, closing goes from the top down, and a drained lineage starts no turn.
`Heard`: a child that settles by itself drops no message.  `EpochsEnd`: quiet
children, calls and drains end; the escape in it, `Disturbed`, is the finding
`subagents_woken`.

### Fairness

Node runs every queued reaction, fires due timers and resumes every settled
await, so each continuation of the code has weak fairness. In `AgentLoop` a
continuation is disabled while another call is on the stack; the stack empties
again and again but the continuation is not continuously enabled, hence strong
fairness for `Driver`, `MaintenanceEnds` and `WhenIdle`: that is exactly "a
queued job runs once the stack is empty". Liveness further assumes what the code
cannot enforce: plugins, the model, tools, maintenance jobs and the storage
settle; in `SessionRecovery`, that somebody keeps asking for the session, so
that recovery, while it has a step, takes one (`GetsOn`); in `Jobs`, that a
producer whose cancel returned stops in the end (the registry's README calls the
others a known limitation). Callers, aborts, crashes and faults have no
fairness.

* `Jobs`: reactions on `done`, cleanups and both disposals; nothing is assumed of
  waits, which no disposal depends on.
* `Preparations`: operations of the chain, retirement and resumed calls run; who
  holds a session publishes or releases it, as the agent factory's `try` does.
* `McpConnection`: the reconnect timer, synchronisations, the steps of an attempt
  (each has a timeout) and of disposal.  Nothing is assumed of the server.
* `Schedules`: drives, the timer, the idle wait, call steps and disposal; no turn
  need end, which is what `WaitsEnd` is about.  `DueIsPresented` assumes in its
  formula an agent that is idle time and again.
* `Subagents`: aborted turns and maintenance end (`ActivitiesEnd`), watchers,
  disposals, calls and drains move on.  A turn nobody aborts may run forever; one
  that waits for its own tool call ends after it.

## 4. Proofs

`tlapm` checks these for every value of the constants (section 3's bounds
become arbitrary naturals).

*Durability_proofs, the write path.*  `IInv` strengthens the invariants with where a promise
chain may stand (`WriteShape`), what a failed write leaves behind
(`FailurePauses`) and who watches retained events (`Watched`).  `InOrder` alone
is not inductive because a failing write puts its batch back in front of a queue
whose owner is only known from the chain.  From it: `TypeCorrect`, `OrderCorrect`,
`TimerCorrect`, `NothingForgotten`, the action property `FlushCorrect`, and
`Refinement`, that the controller implements `DurableQueue`.

*Durability_proofs, crash and resume.*  The first half is about logs alone.
`Admits` is what the driver and the repair heed when they append an event, `Good`
says that each event of a log fits so after those before it, and `Coherent` is what
follows one event at a time: scan and trace of the log agree (`Aligned`), nothing in
it is ahead of them (`Behind`), the pending calls of the scan are the unanswered
ones (`Owed`), no call has two results (`OneResult`), none that was recorded is
reported as not started (`NoFalseStart`), and each call of a step that a repair
closed is answered (`Covered`).  `Good` is closed under prefixes, which is why it survives
any crash.  `CloseAll`: with its closers a log is good and has no open turn, and
however many of them are already there, the rest closes it to the same log; that
is why an interrupted repair may start again.

The second half is about the session.  `SessionInv` says where the driver stands in
its log (`Driven`; in a message with calls, `Matched` pairs the calls without an
answer with the pending ones of the scan), and how memory, disk, batch and torn record relate
(`Stored`).  `Target` is what the disk will hold when the step recovery stands at is
done; it is good (`Aimed`), and wherever its writing is cut, what is left is closed
to a log in `plans` (`Bound`).  `Reach`, the live log or the target, is the one
log of which all that can be on the disk is a prefix (`CrashLeaves`).  `Books` says
that what was acknowledged or shown is on the disk, and so is the record of every
call whose body ran.  From these: `KeptCorrect`, `HonestRecoveryCorrect`,
`ReplayableCorrect`, for any turns, steps, calls, crashes and failures, and either
compression.  `SessionInv` has been checked with TLC on the instance of
`session_recovery` too.

*AgentLoop_proofs.*  The type invariant is proved in parts, one lemma per sort of
variable.  `LogInv` says the trace is a function of `turn`, `step` and `pc`,
which gives `LogCorrect` (the driver implements `TraceSpec`) and, with the
guards' abort checks, `AbortedCorrect`.  `ActivityInv` (whoever is not idle has
an unsettled `activityDone`) gives `TeardownCorrect`.  `QuietCorrect` rests on
four facts: owed messages are pending, an idle agent has nothing latched, a
disposed agent owes nothing, and while something is owed either a driver that
has yet to look at the inbox, a latch, or a call on the stack leads to it.
`InboxCorrect` needs that nothing pending has been claimed or discarded and that
nothing is pending twice (`InboxHolds`); the lemmas before it say what appending,
taking the first and removing one does to the messages of a list.  `OnePrompt`
counts the queued prompts a turn has claimed between two of its boundaries.

*ToolCalls_proofs.*  `Control` says where the scheduler stands between its three
cursors `base`, `committed` and `toStart`, and `Places` that a call's number and
those cursors decide its stage: committed, in the pool, gating, or untouched.
`Flights` says that what runs is in flight, which gives the cap, and that all that
is in flight in a parallel group was classified as parallel when it was started:
without it a reclassified tool could break a barrier (`BarriersCorrect`).  `Told`
relates the outcome a call will report to whether its body was invoked, from
before its result is committed (`HonestCorrect`).  `Recorded` makes the log the
history of the stages and `InOrder` is the part of `ModelOrder` that holds while
the batch runs (`OrderCorrect`).

*Jobs_proofs.*  `NoUntendedWork` needs to know what the teardown knows:
`ScopeShape` (a scope past its cleanup has listed every live job of its owner),
`ServiceShape` (the same for the service) and `Tended` (a live record has a
producer that is still to settle it).  `ReportShape` ties `reported` to `told`
and to the waits that will return the end, from which `EndsAreTold` and the
action property `SaidOnce` follow.  `ActiveBounded` bounds the active records,
and `CapacityCorrect` then bounds the producers, which are among them.
`WaitsReleased`: every way to end a job releases its waits.

*McpConnection_proofs.*  That no two servers run side by side rests on the order
of generations (`Lineage`): only the last may run, have an attempt under way or be
connected to, and the next is started only behind a close that was seen (`Outage`).
The model names generations from a finite set; `Budget` and `Room` show that the
set never runs out, because the failures counted bound the generations since a
stable connection: that is `Supervised` as well.  `QueueShape` orders what may
stand in `syncChain` (an initial synchronisation is followed by changes of its own
generation, the disposal of the tools comes last), from which `Tools` follows: whose
tools are registered, and who will take them back.

*Subagents_proofs.*  `ChildFirst` is proved for any forest of children, any calls,
reports and tasks.  `Locked` says that a call works on a child only at the head of
that child's lock, so two never materialise or undo one epoch.  `Owning` and
`Announced` follow an owned child from its installation to its release.
`FromAbove` needs that disposal takes the whole owned subtree: the set a disposal
closes is defined as the least set closed under ownership, and `DisposeFacts` is
about that set.  `Drained` says what a closing scope never lets happen again:
nothing is admitted, latched or unaborted below it.  `Heard` stands on a second
layer, `Minded`: whoever can send a waking message to a child is an announced child
of its own (`Told`, `Untold`), so it is owned, and a child that owns one cannot have
settled (`Settled`).  `Eras` is about the child a call installs after its parent's
epoch has ended: it is owned by nobody, and is refused before it can be told
anything.  That argument needs the order of microtasks that `Foremost` states: the
attempt to prove `Heard` without it, for three levels of children, led to a run of
the model in which a child was told before its parent was, and there `Heard` fails.

*Preparations_proofs.*  `Reads`: what was read is no newer than the log.  `Queue`
says what the operations of the chain know of those who wait for them, `Reserved`
who reserved the entry, and that a call whose entry is gone lost it to a write that
made its source stale.  `Kept` is why a committed reservation cannot be overtaken:
the entry is still in the pool, and the state is tracked at the revision the call
read.  So the branch of `reserve` for an entry that went away after a successful
commit is never taken, and `OwnerCorrect` follows with `Owned`.  For
`TruthfulCorrect` a second invariant stands on the first: `Informed` (whoever
shares the pool's entry holds the pool's source, and what was found current is),
`Fresh` (the source lacks only what others wrote, unless a commit under way is
about to find out) and `Ordered`.  The last is about the chain: a check that
finds the log changed while such a commit waits was queued before it, when the
source was still fresh, or else it would run after it and find the entry gone.

*Schedules_proofs.*  `Active` is written as a recursive function over the prefixes
of the log.  The library's induction cannot be used here (it takes a predicate as
parameter); a least counterexample (`LeastNatural`) takes its place.  `Good` is the
invariant of the log: each of its prefixes is `Sound`.  A created reminder is active,
deleted or presented and a deleted one is not active (`Accounted`), and after a
dispatch the target is beyond all that was presented of the reminder (`Advanced`),
which is what keeps an occurrence from being presented again and rests on the
arithmetic of `OccurrenceIs`.  `Fits` is what a tool or a drive may append, and
`Batched` that each dispatch of a batch fits although the ones before it moved other
targets.  Being closed under prefixes, `Good` survives a crash wherever it cuts.
`Answered` ties the acknowledgements to what is in the store.  The second layer,
`Order`, is about the runtime: at most one drive is queued and only by a run that says
so, a call at its barrier wrote the last change, and a trigger is kept until a drive
has looked at the log (`Triggered`).  Behind a dispatch whose record fails, that
trigger is the end of the turn the handover started, which counts because the log by
then holds a schedule change: so at rest the timer is armed, but for the exceptions
`NothingLost` names.  From these:
`NothingLostCorrect`, `DeletionCorrect`, `PresentedOnceCorrect`, for any reminders,
interval, calls, failures and crashes.

Only model-checked: liveness (`EventuallyStored`, `OwedIsDriven`, `ActivitiesEnd`,
`BatchEnds`, `ComesBack`, `DrainEnds`, `CallsEnd`, `DisposeEnds`, `DueIsPresented`,
`WaitsEnd`, `EpochsEnd`), which rests on fairness and so on ENABLED, out of the
prover's reach.  Every invariant and every action property that a passing run checks
is stated by a theorem.

The constants' assumptions are only that bounds are natural numbers, a positive
pool size and reconnect budget as the configuration schemas require, a finite set
of job ids, that no child is its own parent, and in `Preparations` that calls,
appenders and entries of the pool have different names.

## 5. Plan

Done: `WriteBehind`, `AgentLoop`, `ToolCalls`, `SessionRecovery`, `Jobs`,
`Preparations`, `McpConnection`, `Schedules`, `Subagents`, and the proofs above.
Next, in order:

1. The abstract specification of a pool with ordered commit, and that `ToolCalls`
   implements it.
2. `Goals`: the goal service and its round driver (a reservation of a round is
   checked before and after the step's proposal; pause, resume, cancel, teardown).
3. `AgentFactory`: create, resume, dispose and rollback across session,
   persistence and registries; it composes `AgentLoop`'s disposal.
4. Approvals and questions with abort and teardown; the scoped controllers and
   listener layers of `Jobs`; agent teams; the retry policy of the model runtime.

## 6. Where code and documentation disagree

* `empty_turn`: `runtime-types.ts:127` says a running driver consumes steering at
  its next step boundary and only a rejected step leaves it parked, and `agent.ts:175`
  that live drivers claim queued work themselves.  A turn whose first proposal is
  rewritten to empty returns (`agent.ts:274`) without looking at the inbox again, so
  steering that came while the proposal was awaited stays parked until another wake.
  In the trace a prompt starts a turn, which claims it; a steer comes while the
  assembly is awaited; the proposal is then empty, and the agent goes idle with the
  steer in its inbox.
* `preparations_contiguous`: `coordinator.ts:697` states the contiguity contract:
  each event's seq continues the stored log.  A repair made for `load()` or
  `prepare()` (`coordinator.ts:948`) changes the log but not the cursor of a state
  the public `append()` had tracked; an append queued behind it passes the check
  with the position from before the repair and reuses the seqs of the closers.
* `subagents_woken`: `continuation.ts:1482` says a parent whose own teardown began
  must not be woken.  `notifySettlement` (`:1491`) asks only about closing scopes;
  `drainChildren` disposes a child and its subtree without closing one, so the
  notice of a grandchild starts a turn in the child being stopped, which
  `continuation.ts:1390` means to exclude before the final flush, and the stop
  then waits for that turn.

A smaller one has no run of its own: `agent.ts:177` says disposal never latches, so
that teardown waits on no model turn.  The latch asks for the abort's reason, and a
signal keeps its first, so after a user cancel a wake sent during disposal is latched
and replayed.  `DisposalNeverLatches` in `AgentLoop` states the comment; given to
`agent_loop` as a property it fails.

## 7. Not modelled

The table in section 1 and the `components` of `PROJECT.json` name what is left
out.  In short: the data of messages and requests, rendering, wire protocols,
operating-system effects of tools, and every component with a place in section
5's plan that has no module yet.  What each modelled component leaves out is said
at its place in section 2.
