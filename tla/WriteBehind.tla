----------------------------- MODULE WriteBehind -----------------------------
(***************************************************************************)
(* The write path of one live session: SessionWriteBehind                  *)
(* (session-persistence/src/write-behind.ts) with the initialization and   *)
(* the flush entry the coordinator puts in front of it.                    *)
(*                                                                         *)
(* The code runs on one event loop, so a step of this model is one job:    *)
(* the code between two suspension points.  Promise reactions are jobs of  *)
(* their own.  A producer or a flush caller may run between any two of     *)
(* them; a timer may not, because timers wait for the reactions to drain.  *)
(***************************************************************************)
EXTENDS Naturals, Sequences

CONSTANTS
    MaxEvents,      \* bound: events the session appends in one behaviour
    MaxFlushers     \* bound: coordinator flush() calls awaiting initialization

ASSUME WriteBehindAssumption ==
    /\ MaxEvents \in Nat
    /\ MaxFlushers \in Nat

VARIABLES
    accepted,           \* history: every event the session handed over, in order
    durable,            \* the backend's stored log
    pending,            \* this.pending
    timers,             \* scheduled setTimeout callbacks
    handle,             \* this.timer # undefined
    stage,              \* this.active: "none", or how far its promise chain got
    batch,              \* the events captured by the active write
    background,         \* whether the active write was started in the background
    drain,              \* this.barrier and where drainBarrier stands
    deadlineExpired,
    automaticPaused,
    continuing,         \* a queued continueAutomatic reaction
    init,               \* live.init: the session's registration with the backend
    callers             \* coordinator.flush() calls that await live.init

vars == <<accepted, durable, pending, timers, handle, stage, batch, background,
          drain, deadlineExpired, automaticPaused, continuing, init, callers>>

queueVars == <<accepted, durable, pending>>
timerVars == <<timers, handle, deadlineExpired>>
writeVars == <<stage, batch, background>>

Stages == {"none", "writing", "wrote", "failed"}
Drains == {"idle", "overlap", "overlapped", "writing", "wrote", "threw"}

TypeQueues ==
    /\ accepted \in Seq(Nat)
    /\ durable \in Seq(Nat)
    /\ pending \in Seq(Nat)
    /\ batch \in Seq(Nat)

TypeCounts ==
    /\ timers \in Nat
    /\ callers \in 0..MaxFlushers

TypePlaces ==
    /\ stage \in Stages
    /\ drain \in Drains
    /\ init \in {"pending", "ready", "failed"}

TypeFlags ==
    /\ handle \in BOOLEAN
    /\ background \in BOOLEAN
    /\ deadlineExpired \in BOOLEAN
    /\ automaticPaused \in BOOLEAN
    /\ continuing \in BOOLEAN

\* Every variable has its type.
TypeOK == TypeQueues /\ TypeCounts /\ TypePlaces /\ TypeFlags

Init ==
    /\ accepted = <<>> /\ durable = <<>> /\ pending = <<>> /\ batch = <<>>
    /\ timers = 0 /\ handle = FALSE
    /\ stage = "none" /\ background = FALSE
    /\ drain = "idle"
    /\ deadlineExpired = FALSE /\ automaticPaused = FALSE
    /\ continuing = FALSE
    /\ init = "pending"
    /\ callers = 0

Barrier == drain # "idle"
Active == stage # "none"

(***************************************************************************)
(* Pieces shared by the actions.  An operator whose comment starts with    *)
(* "Mutation" is a plausible error of the definition after it: no action   *)
(* uses it, it shows that the properties notice the error.                 *)
(***************************************************************************)
\* A reaction is queued, so no timer callback can run yet.
ReactionQueued ==
    \/ stage \in {"wrote", "failed"}
    \/ continuing
    \/ drain \in {"overlapped", "wrote", "threw"}
    \/ callers > 0 /\ init # "pending"

\* setTimeout: the handle names the newest callback.
ArmTimer == timers' = timers + 1 /\ handle' = TRUE

CancelTimer ==
    /\ timers' = IF handle THEN timers - 1 ELSE timers
    /\ handle' = FALSE

CancelAutomaticWait ==
    /\ CancelTimer
    /\ deadlineExpired' = FALSE

\* startWrite: capture the pending prefix as the active batch.
StartWrite(inBackground) ==
    /\ batch' = pending
    /\ pending' = <<>>
    /\ stage' = "writing"
    /\ background' = inBackground
    /\ CancelAutomaticWait

\* drainBarrier's loop head: write what is pending or close the barrier.
DrainLoop ==
    \/ /\ pending # <<>>
       /\ StartWrite(FALSE)
       /\ drain' = "writing"
    \/ /\ pending = <<>>
       /\ drain' = "idle"
       /\ CancelAutomaticWait
       /\ UNCHANGED <<pending, writeVars>>

(***************************************************************************)
(* The producer and the flush callers.                                     *)
(***************************************************************************)
\* session/event: one frozen event enters the queue.
Enqueue ==
    /\ Len(accepted) < MaxEvents
    /\ accepted' = Append(accepted, Len(accepted) + 1)
    /\ pending' = Append(pending, Len(accepted) + 1)
    /\ \/ /\ Barrier
          /\ UNCHANGED <<timerVars, automaticPaused>>
       \/ /\ ~Barrier /\ automaticPaused
          /\ automaticPaused' = FALSE
          /\ deadlineExpired' = FALSE
          /\ ArmTimer
       \/ /\ ~Barrier /\ ~automaticPaused /\ pending = <<>>
          /\ ArmTimer
          /\ UNCHANGED <<deadlineExpired, automaticPaused>>
       \/ /\ ~Barrier /\ ~automaticPaused /\ pending # <<>>
          /\ UNCHANGED <<timerVars, automaticPaused>>
    /\ UNCHANGED <<durable, writeVars, drain, continuing, init, callers>>

\* coordinator.flush: cancel the batching wait and await initialization.
CallFlush ==
    /\ callers < MaxFlushers
    /\ callers' = callers + 1
    /\ CancelAutomaticWait
    /\ UNCHANGED <<queueVars, writeVars, drain, automaticPaused, continuing, init>>

\* Initialization failed: the caller's flush rejects without draining.
FlushRefused ==
    /\ callers > 0 /\ init = "failed"
    /\ callers' = callers - 1
    /\ CancelAutomaticWait
    /\ UNCHANGED <<queueVars, writeVars, drain, automaticPaused, continuing, init>>

\* Initialization is done: SessionWriteBehind.flush joins the open barrier ...
JoinBarrier ==
    /\ callers > 0 /\ init = "ready" /\ Barrier
    /\ callers' = callers - 1
    /\ UNCHANGED <<queueVars, timerVars, writeVars, drain, automaticPaused, continuing, init>>

\* ... or opens one and runs drainBarrier up to its first suspension.
OpenBarrier ==
    /\ callers > 0 /\ init = "ready" /\ ~Barrier
    /\ callers' = callers - 1
    /\ automaticPaused' = FALSE
    /\ \/ /\ Active
          /\ drain' = "overlap"
          /\ CancelAutomaticWait
          /\ UNCHANGED <<pending, writeVars>>
       \/ ~Active /\ DrainLoop
    /\ UNCHANGED <<accepted, durable, continuing, init>>

(***************************************************************************)
(* The automatic path.                                                     *)
(***************************************************************************)
\* Mutation: drop the deadline that found a write active.
OnDeadlineForgotten ==
    /\ timers > 0 /\ ~ReactionQueued
    /\ timers' = timers - 1 /\ handle' = FALSE
    /\ \/ Active /\ UNCHANGED <<deadlineExpired, pending, writeVars>>
       \/ /\ ~Active
          /\ batch' = pending /\ pending' = <<>>
          /\ stage' = "writing" /\ background' = TRUE
          /\ deadlineExpired' = FALSE
    /\ UNCHANGED <<accepted, durable, drain, automaticPaused, continuing, init, callers>>

\* A timeout callback that is no longer this.timer still runs onDeadline.
OnDeadline ==
    /\ timers > 0 /\ ~ReactionQueued
    /\ \/ /\ Active
          /\ deadlineExpired' = TRUE
          /\ timers' = timers - 1 /\ handle' = FALSE
          /\ UNCHANGED <<pending, writeVars>>
       \/ /\ ~Active
          /\ batch' = pending /\ pending' = <<>>
          /\ stage' = "writing" /\ background' = TRUE
          /\ timers' = timers - 1 /\ handle' = FALSE
          /\ deadlineExpired' = FALSE
    /\ UNCHANGED <<accepted, durable, drain, automaticPaused, continuing, init, callers>>

\* Mutation: spend the expired deadline without starting the next write.
ContinueAutomaticIdle ==
    /\ continuing
    /\ continuing' = FALSE
    /\ deadlineExpired' = FALSE
    /\ UNCHANGED <<queueVars, timers, handle, writeVars, drain, automaticPaused, init, callers>>

\* The reaction to a background write that succeeded.
ContinueAutomatic ==
    /\ continuing
    /\ continuing' = FALSE
    /\ \/ /\ Barrier \/ pending = <<>> \/ ~deadlineExpired
          /\ UNCHANGED <<pending, timerVars, writeVars>>
       \/ /\ ~Barrier /\ pending # <<>> /\ deadlineExpired
          /\ StartWrite(TRUE)
    /\ UNCHANGED <<accepted, durable, drain, automaticPaused, init, callers>>

(***************************************************************************)
(* The active write.  Its promise settles only after initialization and    *)
(* after every reaction queued before the write began; then its catch and  *)
(* finally reactions run one after the other.                              *)
(***************************************************************************)
WriteStores ==
    /\ stage = "writing" /\ init = "ready" /\ ~continuing
    /\ durable' = durable \o batch
    /\ batch' = <<>>
    /\ stage' = "wrote"
    /\ UNCHANGED <<accepted, pending, timerVars, background, drain,
                   automaticPaused, continuing, init, callers>>

\* Mutation: lose the failed batch.
WriteFailsDropping ==
    /\ stage = "writing" /\ init # "pending" /\ ~continuing
    /\ batch' = <<>>
    /\ stage' = "failed"
    /\ CancelAutomaticWait
    /\ automaticPaused' = TRUE
    /\ UNCHANGED <<queueVars, background, drain, continuing, init, callers>>

\* The catch reaction puts the batch back in front of what came later.
WriteFails ==
    /\ stage = "writing" /\ init # "pending" /\ ~continuing
    /\ pending' = batch \o pending
    /\ batch' = <<>>
    /\ stage' = "failed"
    /\ CancelAutomaticWait
    /\ automaticPaused' = TRUE
    /\ UNCHANGED <<accepted, durable, background, drain, continuing, init, callers>>

\* The finally reaction releases this.active and queues what awaited it.
WriteReleased ==
    /\ stage \in {"wrote", "failed"}
    /\ stage' = "none"
    /\ continuing' = (background /\ stage = "wrote")
    /\ drain' = CASE drain = "overlap" -> "overlapped"
                  [] drain = "writing" /\ stage = "wrote" -> "wrote"
                  [] drain = "writing" /\ stage = "failed" -> "threw"
                  [] OTHER -> drain
    /\ UNCHANGED <<queueVars, timerVars, batch, background, automaticPaused, init, callers>>

(***************************************************************************)
(* drainBarrier after its suspension points.  continueAutomatic reacts to  *)
(* the same promise and was registered first.                              *)
(***************************************************************************)
DrainAfterOverlap ==
    /\ drain = "overlapped" /\ ~continuing
    /\ automaticPaused' = FALSE
    /\ DrainLoop
    /\ UNCHANGED <<accepted, durable, continuing, init, callers>>

\* Mutation: close the barrier after one write, without looking again.
DrainAfterOneWrite ==
    /\ drain = "wrote"
    /\ drain' = "idle"
    /\ UNCHANGED <<queueVars, timerVars, writeVars, automaticPaused, continuing, init, callers>>

DrainAfterWrite ==
    /\ drain = "wrote"
    /\ DrainLoop
    /\ UNCHANGED <<accepted, durable, automaticPaused, continuing, init, callers>>

DrainRejects ==
    /\ drain = "threw"
    /\ drain' = "idle"
    /\ UNCHANGED <<queueVars, timerVars, writeVars, automaticPaused, continuing, init, callers>>

(***************************************************************************)
(* The coordinator registers the session with its backend.                 *)
(***************************************************************************)
InitSettles ==
    /\ init = "pending"
    /\ init' \in {"ready", "failed"}
    /\ UNCHANGED <<queueVars, timerVars, writeVars, drain, automaticPaused, continuing, callers>>

Next ==
    \/ Enqueue \/ CallFlush
    \/ FlushRefused \/ JoinBarrier \/ OpenBarrier
    \/ OnDeadline \/ ContinueAutomatic
    \/ WriteStores \/ WriteFails \/ WriteReleased
    \/ DrainAfterOverlap \/ DrainAfterWrite \/ DrainRejects
    \/ InitSettles

Spec == Init /\ [][Next]_vars

\* The event loop runs queued reactions in order and fires due timers; the
\* backend settles what it was asked.  Producers and callers owe nothing.
Fairness ==
    /\ WF_vars(FlushRefused \/ JoinBarrier \/ OpenBarrier)
    /\ WF_vars(ContinueAutomatic)
    /\ WF_vars(WriteReleased)
    /\ WF_vars(DrainAfterOverlap)
    /\ WF_vars(DrainAfterWrite)
    /\ WF_vars(DrainRejects)
    /\ WF_vars(OnDeadline)
    /\ WF_vars(WriteStores \/ WriteFails)
    /\ WF_vars(InitSettles)

FairSpec == Spec /\ Fairness

(***************************************************************************)
(* Properties                                                              *)
(***************************************************************************)
\* Every accepted event is stored, in the active write or pending, once and
\* in order: failures retain the batch ahead of later events (startWrite).
InOrder == accepted = durable \o batch \o pending

\* Retained events always have somebody who will write them: a timer, a write
\* or reaction under way, a flush caller; or the automatic path is paused by a
\* failed write, or initialization failed (enqueue, onDeadline, drainBarrier).
NoForgottenWork ==
    pending # <<>> =>
        \/ handle \/ Active \/ ReactionQueued \/ Barrier
        \/ callers > 0 \/ automaticPaused \/ init = "failed"

\* A barrier that closes without an error finds everything accepted stored,
\* whatever was enqueued while it drained (drainBarrier closes admission in
\* the job that observes the empty queue).
FlushIsDurable ==
    [][(Barrier /\ ~Barrier' /\ drain # "threw") => durable' = accepted']_vars

\* The stored log only ever grows by what was accepted and not yet stored.
Queue == INSTANCE DurableQueue WITH stored <- durable, flushing <- Barrier

ImplementsQueue == Queue!DQSpec

\* An accepted event becomes durable, or a failure is reported and the queue
\* pauses, or the session never got registered (continueAutomatic, onDeadline);
\* and nobody waits on a barrier for ever (drainBarrier).
EventuallyStored ==
    /\ \A n \in 1..MaxEvents :
        Len(accepted) >= n ~> (Len(durable) >= n \/ automaticPaused \/ init = "failed")
    /\ Barrier ~> ~Barrier
=============================================================================
