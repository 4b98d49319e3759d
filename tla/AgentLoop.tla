----------------------------- MODULE AgentLoop -----------------------------
(***************************************************************************)
(* The driver of one agent: ReactLoopAgent (agent-loop/src/agent.ts), the  *)
(* Inbox it owns (agent/src/inbox.ts) and the part of disposal that stops  *)
(* it (agent-loop/src/index.ts).                                           *)
(*                                                                         *)
(* Everything runs on one event loop.  The driver is cut at its awaits;    *)
(* any caller may run while it waits.  A caller may also run inside a      *)
(* notification, because observers are called synchronously and may call   *)
(* back: `frames` is the stack of calls that are inside a notification.    *)
(* Observers of session/event cannot send or clear (Session.append refuses *)
(* to reenter) but may abort: AbortFromAppend.                             *)
(***************************************************************************)
EXTENDS Naturals, Sequences, SequencesExt

CONSTANTS
    MaxMessages,    \* bound: messages sent in one behaviour
    MaxSteps,       \* bound: steps the model asks for in one turn
    MaxDepth,       \* bound: nested calls from observers
    LastTurn        \* turns the session's log holds when the agent is built

ASSUME AgentLoopAssumption ==
    /\ MaxMessages \in Nat
    /\ MaxSteps \in Nat
    /\ MaxDepth \in Nat
    /\ LastTurn \in Nat

VARIABLES
    phase,          \* this.phase.kind
    turn,           \* phase.turn, phase.lastTurn while not running
    step,           \* phase.step
    abort,          \* phase.abort.signal.reason, "none" before it aborts
    wake,           \* phase.wakeRequested
    pc,             \* the await or append the driver is at
    decision,       \* what agent/pre-step answered
    ends,           \* turnEnds
    frames,         \* the stack of calls inside a notification, innermost first
    nextTurn,       \* inbox: prompts awaiting individual turns
    nextStep,       \* inbox: input awaiting the next step boundary
    trace,          \* SessionTrace of what the driver appended
    leaving,        \* where the finally of a retired driver or task stands
    activity,       \* whether this.activityDone has settled
    disposal,       \* how far the memoized dispose() got
    awaiting,       \* the activityDone that dispose's whenIdle() awaits
    sent,           \* history: number of messages sent
    fate,           \* history: what became of each message
    ordinary,       \* history: prompts claimed by the current turn
    owed,           \* history: waking messages the agent has promised to drive
    joined          \* history: steering a running driver has yet to consume

vars == <<phase, turn, step, abort, wake, pc, decision, ends, frames, nextTurn, nextStep,
          trace, leaving, activity, disposal, awaiting, sent, fate, ordinary, owed, joined>>

inboxVars == <<nextTurn, nextStep, sent, fate, owed, joined>>
turnVars == <<turn, step, decision, ends, trace, ordinary>>
activityVars == <<leaving, activity, disposal, awaiting>>

INSTANCE SessionTrace

Messages == 1..MaxMessages
Targets == {"next-turn", "next-step"}
Causes == {"user", "disposed"}
Ops == {"wake", "clear", "abort", "driver"}
Frames == [op : Ops, cause : Causes, msg : Messages \cup {0}, flag : BOOLEAN]
PCs == {"none", "start", "opened", "preStep", "decided", "request", "stepEnded",
        "stopping", "failing", "closed", "exit"}

TypePlaces ==
    /\ phase \in {"idle", "maintenance", "running"}
    /\ pc \in PCs
    /\ pc # "none" <=> phase = "running"

TypeAnswers ==
    /\ abort \in Causes \cup {"none"}
    /\ decision \in {"none", "reject", "empty", "enter"}
    /\ ends \in {"none", "completed", "max-tokens"}

TypeActivity ==
    /\ leaving \in {"none", "notified", "replay", "settle"}
    /\ activity \in {"open", "settled"}
    /\ disposal \in {"live", "cancelling", "awaiting", "stopped"}
    /\ awaiting \in {"nothing", "current", "retiring", "retired"}

TypeLatch == wake \in BOOLEAN

TypeCounts ==
    /\ turn \in Nat /\ step \in Nat /\ ordinary \in Nat

TypeInbox ==
    /\ nextTurn \in Seq(Messages)
    /\ nextStep \in Seq(Messages)

TypeFrames == frames \in Seq(Frames)

TypeHistory ==
    /\ sent \in 0..MaxMessages
    /\ fate \in [Messages -> {"unsent", "pending", "claimed", "discarded"}]
    /\ owed \subseteq Messages
    /\ joined \subseteq Messages

\* Every variable has its type, and a driver exists exactly while running.
TypeOK ==
    /\ TypePlaces /\ TypeAnswers /\ TypeActivity /\ TypeLatch
    /\ TypeCounts /\ TypeInbox /\ TypeFrames /\ TypeHistory

Init ==
    /\ phase = "idle" /\ turn = LastTurn /\ step = 0
    /\ abort = "none" /\ wake = FALSE
    /\ pc = "none" /\ decision = "none" /\ ends = "none"
    /\ frames = <<>>
    /\ nextTurn = <<>> /\ nextStep = <<>>
    /\ trace = [Fresh EXCEPT !.nextTurn = LastTurn + 1]
    /\ leaving = "none" /\ activity = "settled"
    /\ disposal = "live" /\ awaiting = "nothing"
    /\ sent = 0 /\ fate = [m \in Messages |-> "unsent"]
    /\ ordinary = 0 /\ owed = {} /\ joined = {}

Pending == Range(nextTurn) \cup Range(nextStep)
HasPending == nextTurn # <<>> \/ nextStep # <<>>
Aborted == abort # "none"

Frame(op, cause, msg, flag) == [op |-> op, cause |-> cause, msg |-> msg, flag |-> flag]
Top(op) == frames # <<>> /\ Head(frames).op = op

\* A caller may run: a job while the driver awaits, or an observer's callback
\* (clearing an empty list notifies nobody: flag FALSE).
Outside ==
    /\ pc \notin {"opened", "stepEnded", "closed"}
    /\ Len(frames) < MaxDepth
    /\ (Top("clear") \/ Top("abort")) => Head(frames).flag

\* A queued continuation may run: no call is on the stack, and a retired driver
\* is through with its finally.
Resumed == frames = <<>> /\ leaving = "none"

\* The driver may run: it is in its synchronous first segment, or was resumed.
DriverRuns == Resumed \/ Top("driver")

\* The driver's segment ends: whoever called wakeDriver continues.
Suspend == frames' = IF frames = <<>> THEN <<>> ELSE Tail(frames)

(***************************************************************************)
(* Inbox.                                                                  *)
(***************************************************************************)
Mark(msgs, what) ==
    /\ fate' = [m \in Messages |-> IF m \in msgs THEN what ELSE fate[m]]
    /\ owed' = owed \ msgs
    /\ joined' = joined \ msgs
    /\ UNCHANGED sent

\* Mutation: the claimed steering stays in the inbox.
ClaimKeepsSteering(target) ==
    LET prompts == IF target = "next-turn" /\ nextTurn # <<>> THEN {Head(nextTurn)} ELSE {}
    IN  /\ UNCHANGED nextStep
        /\ nextTurn' = IF prompts # {} THEN Tail(nextTurn) ELSE nextTurn
        /\ ordinary' = IF prompts # {} THEN ordinary + 1 ELSE ordinary
        /\ Mark(Range(nextStep) \cup prompts, "claimed")

\* claim: take the whole next-step list and, at a turn boundary, one prompt.
Claim(target) ==
    LET prompts == IF target = "next-turn" /\ nextTurn # <<>> THEN {Head(nextTurn)} ELSE {}
    IN  /\ nextStep' = <<>>
        /\ nextTurn' = IF prompts # {} THEN Tail(nextTurn) ELSE nextTurn
        /\ ordinary' = IF prompts # {} THEN ordinary + 1 ELSE ordinary
        /\ Mark(Range(nextStep) \cup prompts, "claimed")

\* remove (and replace, up to the new message, which is a Send): one message.
RemoveMessage ==
    /\ Outside
    /\ \/ \E i \in DOMAIN nextTurn :
            /\ nextTurn' = RemoveAt(nextTurn, i)
            /\ UNCHANGED nextStep
            /\ Mark({nextTurn[i]}, "discarded")
       \/ \E i \in DOMAIN nextStep :
            /\ nextStep' = RemoveAt(nextStep, i)
            /\ UNCHANGED nextTurn
            /\ Mark({nextStep[i]}, "discarded")
    /\ UNCHANGED <<phase, abort, wake, pc, frames, turnVars, activityVars>>

(***************************************************************************)
(* Sending and waking.                                                     *)
(***************************************************************************)
\* this.activityDone becomes a new promise; whenIdle() still awaits the old one.
BeginActivity ==
    /\ activity' = "open"
    /\ awaiting' = CASE awaiting = "current" /\ activity = "open" -> "retiring"
                     [] awaiting = "current" /\ activity = "settled" -> "retired"
                     [] OTHER -> awaiting

\* Mutation: latch behind maintenance only, not behind an aborted driver.
WakeDriverUnlatched(after, rest) ==
    \/ /\ phase = "idle"
       /\ phase' = "running" /\ abort' = "none" /\ wake' = FALSE
       /\ step' = 0 /\ pc' = "start"
       /\ frames' = <<Frame("driver", "user", 0, FALSE)>> \o rest
       /\ BeginActivity
    \/ /\ phase # "idle"
       /\ wake' = (wake \/ (phase = "maintenance" /\ abort # "disposed"))
       /\ frames' = rest
       /\ UNCHANGED <<phase, abort, step, pc, activity, awaiting>>

\* wakeDriver: reserve a driver, or latch the wake behind maintenance or an
\* aborted activity unless disposal aborted it.
WakeDriver(after, rest) ==
    \/ /\ phase = "idle"
       /\ phase' = "running" /\ abort' = "none" /\ wake' = FALSE
       /\ step' = 0 /\ pc' = "start"
       /\ frames' = <<Frame("driver", "user", 0, FALSE)>> \o rest
       /\ BeginActivity
    \/ /\ phase # "idle"
       /\ wake' = (wake \/ (abort # "disposed" /\ (phase = "maintenance" \/ after)))
       /\ frames' = rest
       /\ UNCHANGED <<phase, abort, step, pc, activity, awaiting>>

\* send up to the agent/inbox/inserted notification.  followup, steer and
\* inject are its presets; a tool's result context enters as the last of them.
Send(target, wakeup) ==
    LET m == sent + 1
        after == wakeup /\ phase # "idle" /\ Aborted
    IN  /\ Outside /\ sent < MaxMessages
        /\ sent' = m
        /\ fate' = [fate EXCEPT ![m] = "pending"]
        /\ IF after \/ target = "next-turn"
             THEN nextTurn' = Append(nextTurn, m) /\ UNCHANGED nextStep
             ELSE nextStep' = Append(nextStep, m) /\ UNCHANGED nextTurn
        /\ frames' = IF wakeup THEN <<Frame("wake", "user", m, after)>> \o frames ELSE frames
        /\ UNCHANGED <<phase, abort, wake, pc, turnVars, owed, joined, activityVars>>

\* A driver that runs and will look at the inbox again consumes the message itself.
Consumes == phase = "running" /\ ~Aborted /\ pc # "exit"

\* What a wake promises: an idle agent, maintenance and an aborted driver all
\* drive the message later, a live driver claims it.  A driver that has passed
\* its last look at the inbox ("exit") promises nothing, as the convergence
\* latch's design note says, nor does one that disposal aborted.
Promised(after) ==
    \/ phase = "idle"
    \/ phase = "maintenance" /\ abort # "disposed"
    \/ phase = "running" /\ Aborted /\ after /\ abort # "disposed"
    \/ Consumes

\* send after its notification.
Wake ==
    /\ Top("wake")
    /\ LET f == Head(frames)
       IN  /\ WakeDriver(f.flag, Tail(frames))
           /\ owed' = IF Promised(f.flag) THEN owed \cup ({f.msg} \cap Pending) ELSE owed
           /\ joined' = IF Consumes THEN joined \cup ({f.msg} \cap Range(nextStep)) ELSE joined
    /\ UNCHANGED <<turn, decision, ends, trace, ordinary, nextTurn, nextStep, sent, fate,
                   leaving, disposal>>

(***************************************************************************)
(* Cancelling.                                                             *)
(***************************************************************************)
\* The end of cancel: drop the latch with the inbox, abort the activity; the
\* first cause stays.  Input kept by an abort is parked until another wake.
\* dispose() goes on to whenIdle().
AbortNow(cause, keep, rest) ==
    /\ frames' = rest
    /\ wake' = (wake /\ (keep \/ phase = "idle"))
    /\ abort' = IF phase # "idle" /\ ~Aborted THEN cause ELSE abort
    /\ owed' = IF phase # "idle" /\ (~keep \/ ~Aborted) THEN {} ELSE owed
    /\ joined' = IF phase # "idle" /\ (~keep \/ ~Aborted) THEN {} ELSE joined
    /\ disposal' = IF cause = "disposed" THEN "awaiting" ELSE disposal
    /\ awaiting' = IF cause = "disposed" THEN "current" ELSE awaiting
    /\ UNCHANGED <<leaving, activity>>

\* cancel(cause, {keepInbox: true}); without an activity to abort, nothing.
CancelKeeping ==
    /\ Outside /\ phase # "idle" /\ ~Aborted
    /\ AbortNow("user", TRUE, frames)
    /\ UNCHANGED <<phase, pc, turnVars, nextTurn, nextStep, sent, fate>>

\* cancel(cause) up to the discard notifications of the next-step list; when
\* there is nothing to clear, to unlatch or to abort, nothing happens.
Cancel ==
    /\ Outside
    /\ HasPending \/ wake \/ (phase # "idle" /\ ~Aborted)
    /\ nextStep' = <<>>
    /\ Mark(Range(nextStep), "discarded")
    /\ frames' = <<Frame("clear", "user", 0, nextStep # <<>>)>> \o frames
    /\ UNCHANGED <<phase, abort, wake, pc, turnVars, nextTurn, activityVars>>

\* dispose(), memoized, is cancel({kind: 'disposed'}) and then whenIdle().
Dispose ==
    /\ Outside /\ disposal = "live"
    /\ disposal' = "cancelling"
    /\ nextStep' = <<>>
    /\ Mark(Range(nextStep), "discarded")
    /\ frames' = <<Frame("clear", "disposed", 0, nextStep # <<>>)>> \o frames
    /\ UNCHANGED <<phase, abort, wake, pc, turnVars, nextTurn, leaving, activity, awaiting>>

\* clear goes on with the next-turn list.
ClearPrompts ==
    /\ Top("clear")
    /\ nextTurn' = <<>>
    /\ Mark(Range(nextTurn), "discarded")
    /\ frames' = <<Frame("abort", Head(frames).cause, 0, nextTurn # <<>>)>> \o Tail(frames)
    /\ UNCHANGED <<phase, abort, wake, pc, turnVars, nextStep, activityVars>>

AbortActivity ==
    /\ Top("abort")
    /\ AbortNow(Head(frames).cause, FALSE, Tail(frames))
    /\ UNCHANGED <<phase, pc, turnVars, nextTurn, nextStep, sent, fate>>

\* A session/event observer of a driver's append aborts the activity: keeping
\* the inbox, or finding it empty (else clear appends, which throws).
AbortFromAppend ==
    /\ pc \in {"opened", "stepEnded", "closed"} /\ ~Aborted
    /\ \/ \E keep \in {TRUE, HasPending} : AbortNow("user", keep, frames)
       \/ ~HasPending /\ disposal = "live" /\ AbortNow("disposed", FALSE, frames)
    /\ UNCHANGED <<phase, pc, turnVars, nextTurn, nextStep, sent, fate>>

(***************************************************************************)
(* Maintenance.                                                            *)
(***************************************************************************)
\* runMaintenance; nobody starts a task on an agent being torn down.
StartMaintenance ==
    /\ Outside /\ phase = "idle" /\ disposal = "live"
    /\ phase' = "maintenance" /\ abort' = "none" /\ wake' = FALSE
    /\ BeginActivity
    /\ UNCHANGED <<pc, frames, turnVars, inboxVars, leaving, disposal>>

\* The task settles: back to idle (which nobody is told), replay a latched wake.
MaintenanceEnds ==
    /\ phase = "maintenance" /\ Resumed
    /\ abort' = "none" /\ wake' = FALSE
    /\ leaving' = "settle"
    /\ \/ /\ wake /\ HasPending
          /\ phase' = "running" /\ step' = 0 /\ pc' = "start"
          /\ frames' = <<Frame("driver", "user", 0, FALSE)>>
          /\ BeginActivity
       \/ /\ ~(wake /\ HasPending)
          /\ phase' = "idle"
          /\ UNCHANGED <<step, pc, frames, activity, awaiting>>
    /\ UNCHANGED <<turn, decision, ends, trace, ordinary, inboxVars, disposal>>

(***************************************************************************)
(* The driver.                                                             *)
(***************************************************************************)
\* turn() up to the turn/start append.
OpenTurn ==
    /\ pc = "start" /\ DriverRuns /\ ~Aborted
    /\ turn' = turn + 1
    /\ trace' = Apply(trace, Event("turn/start", turn + 1, None, NoCall))
    /\ ends' = "none" /\ ordinary' = 0
    /\ pc' = "opened"
    /\ UNCHANGED <<phase, step, abort, wake, decision, frames, inboxVars, activityVars>>

\* Mutation: contain the refusal inside the driver's loop instead of around it.
RefuseTurnAgain ==
    /\ pc = "start" /\ DriverRuns /\ Aborted
    /\ UNCHANGED pc /\ Suspend
    /\ UNCHANGED <<phase, abort, wake, turnVars, inboxVars, activityVars>>

\* turn() throws before it opens anything.
RefuseTurn ==
    /\ pc = "start" /\ DriverRuns /\ Aborted
    /\ pc' = "exit" /\ Suspend
    /\ UNCHANGED <<phase, abort, wake, turnVars, inboxVars, activityVars>>

\* preStep up to its first await, for the turn's first step.
ProposeFirst ==
    /\ pc = "opened" /\ ~Aborted
    /\ Claim("next-turn")
    /\ pc' = "preStep" /\ Suspend
    /\ UNCHANGED <<phase, abort, wake, turn, step, decision, ends, trace, activityVars>>

\* Prompt assembly and the agent/pre-step waterfall have answered.
Decide ==
    /\ pc = "preStep" /\ Resumed /\ ~Aborted
    /\ decision' \in {"reject", "empty", "enter"}
    /\ pc' = "decided"
    /\ UNCHANGED <<phase, turn, step, abort, wake, ends, frames, trace, ordinary,
                   inboxVars, activityVars>>

TurnEnd == trace' = Apply(trace, Event("turn/end", turn, None, NoCall))

\* The proposal is rejected: the turn ends blocked and what is queued stays
\* parked until the next wake.
Rejected ==
    /\ pc = "decided" /\ Resumed /\ decision = "reject"
    /\ TurnEnd
    /\ pc' = "exit"
    /\ owed' = IF Aborted THEN owed ELSE {}
    /\ joined' = IF Aborted THEN joined ELSE {}
    /\ UNCHANGED <<phase, turn, step, abort, wake, decision, ends, frames, ordinary,
                   nextTurn, nextStep, sent, fate, activityVars>>

\* Nothing entered the first step: the turn completes and the driver retires
\* without looking at the inbox again.
EmptyTurn ==
    /\ pc = "decided" /\ Resumed /\ decision = "empty" /\ ends = "none" /\ step = 0
    /\ TurnEnd
    /\ pc' = "exit"
    /\ owed' = IF Aborted THEN owed ELSE {}
    /\ UNCHANGED <<phase, turn, step, abort, wake, decision, ends, frames, ordinary,
                   nextTurn, nextStep, sent, fate, joined, activityVars>>

\* Nothing more to say after the turn's outcome is known.
SettledTurn ==
    /\ pc = "decided" /\ Resumed /\ decision = "empty" /\ ends # "none"
    /\ TurnEnd
    /\ pc' = "closed"
    /\ UNCHANGED <<phase, turn, step, abort, wake, decision, ends, frames, ordinary,
                   inboxVars, activityVars>>

\* Mutation: enter the step whatever happened since the waterfall answered.
EnterStepUnchecked ==
    /\ pc = "decided" /\ Resumed
    /\ \/ decision = "enter"
       \/ decision = "empty" /\ ends = "none" /\ step > 0
    /\ step' = step + 1
    /\ trace' = Apply(trace, Event("step/start", turn, step + 1, NoCall))
    /\ pc' = "request"
    /\ UNCHANGED <<phase, turn, abort, wake, decision, ends, frames, ordinary,
                   inboxVars, activityVars>>

\* The step opens, its messages become user/message events, step() begins.
EnterStep ==
    /\ pc = "decided" /\ Resumed /\ ~Aborted
    /\ \/ decision = "enter"
       \/ decision = "empty" /\ ends = "none" /\ step > 0
    /\ step' = step + 1
    /\ trace' = Apply(trace, Event("step/start", turn, step + 1, NoCall))
    /\ pc' = "request"
    /\ UNCHANGED <<phase, turn, abort, wake, decision, ends, frames, ordinary,
                   inboxVars, activityVars>>

\* step() returns: null after tool calls, completed, or max-tokens, which
\* stays once it was seen.  Request, stream, retries and tools are inside.
StepReturns ==
    /\ pc = "request" /\ Resumed
    /\ \E r \in {"none", "completed", "max-tokens"} :
        /\ r = "none" => step < MaxSteps
        /\ ends' = IF ends = "max-tokens" THEN ends ELSE r
    /\ trace' = Apply(trace, Event("step/end", turn, step, NoCall))
    /\ pc' = "stepEnded"
    /\ UNCHANGED <<phase, turn, step, abort, wake, decision, frames, ordinary,
                   inboxVars, activityVars>>

\* step() throws: its finally closes the step on the way to turn's catch.
StepThrows ==
    /\ pc = "request" /\ Resumed
    /\ trace' = Apply(trace, Event("step/end", turn, step, NoCall))
    /\ pc' = IF Aborted THEN "stepEnded" ELSE "failing"
    /\ UNCHANGED <<phase, turn, step, abort, wake, decision, ends, frames, ordinary,
                   inboxVars, activityVars>>

\* Offer the turn for stopping ...
OfferStop ==
    /\ pc = "stepEnded" /\ ~Aborted /\ ends # "none" /\ nextStep = <<>>
    /\ pc' = "stopping"
    /\ UNCHANGED <<phase, abort, wake, frames, turnVars, inboxVars, activityVars>>

\* ... or propose the next step with what was queued for it.
ProposeNext ==
    /\ \/ pc = "stepEnded" /\ (ends = "none" \/ nextStep # <<>>)
       \/ pc = "stopping" /\ Resumed /\ nextStep # <<>>
    /\ ~Aborted
    /\ Claim("next-step")
    /\ pc' = "preStep"
    /\ UNCHANGED <<phase, turn, step, abort, wake, decision, ends, frames, trace,
                   activityVars>>

\* Mutation: stop without looking at the steering that came meanwhile, and
\* retire.
StopsDeaf ==
    /\ pc = "stopping" /\ Resumed /\ ~Aborted
    /\ TurnEnd
    /\ pc' = "exit"
    /\ UNCHANGED <<phase, turn, step, abort, wake, decision, ends, frames, ordinary,
                   inboxVars, activityVars>>

\* agent/turn-stopping settled and queued no steering.
Stops ==
    /\ pc = "stopping" /\ Resumed /\ ~Aborted /\ nextStep = <<>>
    /\ TurnEnd
    /\ pc' = "closed"
    /\ UNCHANGED <<phase, turn, step, abort, wake, decision, ends, frames, ordinary,
                   inboxVars, activityVars>>

\* Mutation: reuse the step counter of the turn that just ended.
GoOnSameStep ==
    /\ pc = "closed" /\ HasPending
    /\ abort' = "none" /\ wake' = FALSE
    /\ pc' = "start"
    /\ UNCHANGED <<phase, turn, step, decision, ends, trace, ordinary, frames, inboxVars,
                   activityVars>>

\* After a normal end: another turn under a fresh controller ...
GoOn ==
    /\ pc = "closed" /\ HasPending
    /\ abort' = "none" /\ wake' = FALSE /\ step' = 0
    /\ pc' = "start"
    /\ UNCHANGED <<phase, turn, decision, ends, trace, ordinary, frames, inboxVars,
                   activityVars>>

\* ... or no more work.
Retire ==
    /\ pc = "closed" /\ ~HasPending
    /\ pc' = "exit"
    /\ UNCHANGED <<phase, abort, wake, turnVars, frames, inboxVars, activityVars>>

\* A check of the signal threw: turn/end says aborted.
AbortTurn ==
    /\ Aborted
    /\ \/ pc = "opened" /\ Suspend
       \/ /\ pc \in {"preStep", "stopping"} /\ Resumed /\ UNCHANGED frames
       \/ pc = "stepEnded" /\ UNCHANGED frames
       \/ /\ pc = "decided" /\ Resumed /\ UNCHANGED frames
          /\ \/ decision = "enter"
             \/ decision = "empty" /\ ends = "none" /\ step > 0
    /\ TurnEnd
    /\ pc' = "exit"
    /\ UNCHANGED <<phase, turn, step, abort, wake, decision, ends, ordinary, inboxVars,
                   activityVars>>

\* A plugin, the assembly or turn-stopping threw: agent/error is published.
Fail ==
    /\ pc \in {"preStep", "stopping"} /\ Resumed /\ ~Aborted
    /\ pc' = "failing"
    /\ UNCHANGED <<phase, abort, wake, frames, turnVars, inboxVars, activityVars>>

\* The turn ends with the error; what is queued stays parked.
FailTurn ==
    /\ pc = "failing" /\ Resumed
    /\ TurnEnd
    /\ pc' = "exit"
    /\ owed' = IF Aborted THEN owed ELSE {}
    /\ joined' = IF Aborted THEN joined ELSE {}
    /\ UNCHANGED <<phase, turn, step, abort, wake, decision, ends, frames, ordinary,
                   nextTurn, nextStep, sent, fate, activityVars>>

\* kick's finally up to the agent/status notification.
GoIdle ==
    /\ pc = "exit" /\ Resumed
    /\ phase' = "idle" /\ pc' = "none" /\ step' = 0
    /\ abort' = "none" /\ wake' = FALSE
    /\ leaving' = IF wake THEN "replay" ELSE "notified"
    /\ UNCHANGED <<turn, decision, ends, trace, ordinary, frames, inboxVars,
                   activity, disposal, awaiting>>

\* The rest of the finally: replay the latched wake unless the inbox is empty.
Replay ==
    /\ frames = <<>> /\ leaving \in {"notified", "replay"}
    /\ IF leaving = "replay" /\ HasPending
         THEN WakeDriver(FALSE, <<>>)
         ELSE UNCHANGED <<phase, abort, wake, step, pc, frames, activity, awaiting>>
    /\ leaving' = "settle"
    /\ UNCHANGED <<turn, decision, ends, trace, ordinary, inboxVars, disposal>>

\* The retired activity's promise settles: activityDone if nothing began since.
Settle ==
    /\ frames = <<>> /\ leaving = "settle"
    /\ leaving' = "none"
    /\ activity' = IF phase = "idle" THEN "settled" ELSE activity
    /\ awaiting' = IF awaiting = "retiring" THEN "retired" ELSE awaiting
    /\ UNCHANGED <<phase, abort, wake, pc, frames, turnVars, inboxVars, disposal>>

(***************************************************************************)
(* dispose() awaits whenIdle(): once more whenever another activity began. *)
(***************************************************************************)
AwaitedSettled == awaiting = "retired" \/ (awaiting = "current" /\ activity = "settled")

\* Mutation: await the activity that was current at the call, only once.
WhenIdleOnce ==
    /\ disposal = "awaiting" /\ Resumed /\ AwaitedSettled
    /\ awaiting' = "current"
    /\ disposal' = "stopped"
    /\ UNCHANGED <<phase, abort, wake, pc, frames, turnVars, inboxVars, leaving, activity>>

WhenIdle ==
    /\ disposal = "awaiting" /\ Resumed /\ AwaitedSettled
    /\ awaiting' = "current"
    /\ disposal' = IF awaiting = "current" THEN "stopped" ELSE "awaiting"
    /\ UNCHANGED <<phase, abort, wake, pc, frames, turnVars, inboxVars, leaving, activity>>

Caller ==
    \/ \E target \in Targets, wakeup \in BOOLEAN : Send(target, wakeup)
    \/ RemoveMessage \/ CancelKeeping \/ Cancel \/ Dispose \/ AbortFromAppend \/ StartMaintenance

\* The rest of a call whose observers have returned.
Returns == Wake \/ ClearPrompts \/ AbortActivity \/ Replay \/ Settle

Driver ==
    \/ OpenTurn \/ RefuseTurn \/ ProposeFirst \/ Decide
    \/ Rejected \/ EmptyTurn \/ SettledTurn \/ EnterStep
    \/ StepReturns \/ StepThrows \/ OfferStop \/ ProposeNext \/ Stops
    \/ GoOn \/ Retire \/ AbortTurn \/ Fail \/ FailTurn \/ GoIdle

Next == Caller \/ Returns \/ Driver \/ MaintenanceEnds \/ WhenIdle

Spec == Init /\ [][Next]_vars

\* Plugins, the model, tools and maintenance tasks settle and observers return;
\* a continuation stays queued while calls come and go on the stack, hence
\* strong fairness.  Callers owe nothing.
Fairness ==
    /\ WF_vars(Returns)
    /\ SF_vars(Driver)
    /\ SF_vars(MaintenanceEnds)
    /\ SF_vars(WhenIdle)

FairSpec == Spec /\ Fairness

(***************************************************************************)
(* Properties                                                              *)
(***************************************************************************)
Quiet == phase = "idle" /\ Resumed

\* A message is in exactly one place: pending once, or claimed, or discarded;
\* the two lists never share or repeat one, and a queued prompt is the sole
\* ordinary message of its turn (claim, clear, validate, followup).
ExactlyOnce ==
    /\ Pending = {m \in Messages : fate[m] = "pending"}
    /\ \A i, j \in DOMAIN nextTurn : nextTurn[i] = nextTurn[j] => i = j
    /\ \A i, j \in DOMAIN nextStep : nextStep[i] = nextStep[j] => i = j
    /\ Range(nextTurn) \cap Range(nextStep) = {}
    /\ ordinary <= 1

\* An agent that has gone quiet owes nobody a turn: every wake was driven,
\* cancelled or parked by a documented rule (wakeDriver, kick's finally).
QuietOwesNothing == Quiet => owed = {}

\* An aborted activity opens no further turn and no further step, whatever
\* its awaits were doing when the signal fired (throwIfAborted in turn).
AbortedOpensNothing ==
    [][Aborted => trace'.openTurn \in {trace.openTurn, None}
               /\ trace'.openStep \in {trace.openStep, None}]_vars

\* dispose() goes on to unwind the scope only when no driver and no
\* maintenance is left, not even one started meanwhile (whenIdle).
TeardownFindsQuiet == [][disposal' = "stopped" /\ disposal # "stopped" => phase = "idle"]_vars

\* What the driver appends keeps the relations of session/src/invariant.ts:
\* turns and steps nest and are numbered without gaps, across all drivers.
LogFollowsTrace == TraceSpec

\* A promise does not stand forever: the message is claimed or discarded, or its
\* turn's outcome parks it.
OwedIsDriven == \A m \in Messages : []<>(m \notin owed)

\* No activity stays aborted: it converges to another one or to idle (kick, turn).
\* Nor does disposal go on waiting: the activities it waits for end (whenIdle).
ActivitiesEnd ==
    /\ []<>~Aborted
    /\ []<>(disposal # "awaiting")

\* agent/src/runtime-types.ts: a running driver consumes the steering it is given
\* at its next step boundary; nothing but a rejected step, an error, a cancel or
\* disposal leaves that parked.
RunningDriverConsumes == Quiet => joined = {}

\* agent-loop/src/agent.ts: disposal never latches, so teardown waits on no
\* model turn.
DisposalNeverLatches == [][disposal = "awaiting" /\ wake' => wake]_vars
=============================================================================
