---------------------------- MODULE Preparations ----------------------------
(***************************************************************************)
(* Cold sessions: packages/session/session-persistence/src/preparations.ts *)
(* and the part of coordinator.ts that drives it.                          *)
(*                                                                         *)
(* One stored session, seen by calls that prepare it for a resume, load it *)
(* or inspect it.  They share one read (an entry of the pool); a preparing *)
(* or loading call then reserves the entry, commits the repair the read    *)
(* asked for, and holds the session until it is published or released.     *)
(* Everything that touches the log runs on the session's chain, one        *)
(* operation at a time, while the calls, their abort signals, the pool's   *)
(* evictions and writers outside this process go on between operations.    *)
(*                                                                         *)
(* The log is its revision and whether it ends in an open turn; a revision *)
(* stands for a length too, so a cursor is compared with it.  A revision   *)
(* check and what follows it in one operation are one step: a writer from  *)
(* outside that comes between is taken as coming right after.              *)
(***************************************************************************)
EXTENDS Naturals, Sequences, FiniteSets, SequencesExt

CONSTANTS Preparers, Loaders, Inspectors,  \* the calls, by their method
          Appenders,                       \* calls of the public append()
          Entries,                         \* names for entries of the pool
          MaxRevision,
          MaxInputs,                       \* bound: calls made, signals fired, public appends,
                                           \* evictions and writes from outside, in all
          None

Callers == Preparers \cup Loaders \cup Inspectors

\* Calls, appenders and entries are told apart by name.
ASSUME PreparationsAssumption ==
    /\ None \notin Callers \cup Appenders \cup Entries
    /\ Callers \cap Appenders = {} /\ Callers \cap Entries = {}

\* load() takes no signal.
Abortable == Preparers \cup Inspectors

VARIABLES
    log,        \* the stored log: [revision, open]
    outside,    \* revisions written by other processes
    chain,      \* the operations queued for this id; the first is running
    stage,      \* where a running append stands
    tracked,    \* the backend's state for the id: [known, cursor, owner]
    live,       \* the call whose session is published, or None
    retiring,   \* the call whose disposed session still drains, or None
    pool,       \* the pool's entry for the id: [entry, phase, source]
    call,       \* each call: where it stands (pc), the entry it works on and what
                \* that read (on, seen), its signal, how its operation settled, the
                \* revision it was made at and, answered, those of them it misses
    seqOf,      \* the position an append numbers its batch from
    inputs

logVars == <<log, outside>>
ownerVars == <<tracked, live, retiring>>
vars == <<logVars, chain, stage, ownerVars, pool, call, seqOf, inputs>>

Untracked == [known |-> FALSE, cursor |-> 0, owner |-> None]
NoEntry == [entry |-> None, phase |-> "none", source |-> None]
Idle == [pc |-> "idle", on |-> None, seen |-> None, aborted |-> FALSE, outcome |-> "none",
         since |-> 0, missing |-> {}]

Op(kind, who) == [kind |-> kind, of |-> who]
Queued(kind) == \E i \in DOMAIN chain : chain[i].kind = kind
Runner == Head(chain).of

\* A settled commit is reacted to in the same turn of the event loop: the next
\* operation may have started by then, but has read and written nothing.
Starting(kind) == chain # <<>> /\ Head(chain).kind = kind
Running(kind) == Starting(kind) /\ \A c \in Callers : call[c].pc # "committed"

\* isPreparedSourceCurrent
IsCurrent(source) == source.revision = log.revision

\* Entries nobody refers to any more.
Free == Entries \ ({pool.entry} \cup {call[c].on : c \in Callers} \cup {op.of : op \in ToSet(chain)})

Init ==
    /\ log \in [revision : {1}, open : BOOLEAN]
    /\ outside = {}
    /\ chain = <<>>
    /\ stage = "queued"
    /\ tracked = Untracked
    /\ live = None
    /\ retiring = None
    /\ pool = NoEntry
    /\ call = [c \in Callers |-> Idle]
    /\ seqOf = [a \in Appenders |-> 0]
    /\ inputs = 0

-----------------------------------------------------------------------------
(* The pool.                                                               *)

Ended == {"done", "borrowed", "failed"}
Aborted(c) == call[c].aborted
IsPooled(c) == pool.entry = call[c].on

\* The call moves on in f; starting over and ending it forgets what it read.
MovesTo(f, c, where) ==
    call' = [f EXCEPT ![c] =
                CASE where \in Ended -> [Idle EXCEPT !.pc = where]
                  [] where = "loop" -> [Idle EXCEPT !.pc = where, !.aborted = f[c].aborted,
                                                               !.since = f[c].since]
                  [] OTHER -> [@ EXCEPT !.pc = where]]
Goes(c, where) == MovesTo(call, c, where)

\* Answered with the view the call holds.
Answers(f, c, where) ==
    call' = [f EXCEPT ![c] = [Idle EXCEPT !.pc = where,
                                          !.missing = (f[c].seen.revision + 1)..f[c].since]]

\* Settling the reservation of the pool's entry, for those that wait for it.
Settled(f) ==
    [c \in Callers |-> IF f[c].on = pool.entry /\ f[c].pc = "settle"
                       THEN [f[c] EXCEPT !.pc = "read"] ELSE f[c]]

\* remove and makeReady do nothing to an entry that is no longer the pool's.
Removal(e) == pool' = IF pool.entry = e THEN NoEntry ELSE pool
Readiness(e) == pool' = IF pool.entry = e THEN [pool EXCEPT !.phase = "ready"] ELSE pool
SettledBy(e) == IF pool.entry = e THEN Settled(call) ELSE call

\* What comes at this session from elsewhere, within the bound.
Comes == inputs < MaxInputs /\ inputs' = inputs + 1

\* A later session's entry turning ready pushes this one out; an entry that is
\* loading, committing or reserved is never the one to go.
Evict ==
    /\ pool.phase = "ready"
    /\ Comes
    /\ pool' = NoEntry
    /\ UNCHANGED <<logVars, chain, stage, ownerVars, call, seqOf>>

-----------------------------------------------------------------------------
(* The calls, up to their read.                                            *)

\* Preparing calls are alike: they begin in a fixed order.
Call(c) ==
    /\ call[c].pc = "idle"
    /\ c \in Preparers => c = CHOOSE d \in Preparers : call[d].pc = "idle"
    /\ Comes
    /\ call' = [call EXCEPT ![c].pc = "loop", ![c].since = log.revision]
    /\ UNCHANGED <<logVars, chain, stage, ownerVars, pool, seqOf>>

\* entryFor: share the pool's entry, or start a read under a new one (Entries
\* bounds how many are in use at a time).
Share(c) ==
    IF pool # NoEntry
    THEN /\ call' = [call EXCEPT ![c].on = pool.entry, ![c].seen = pool.source,
                                 ![c].pc = IF pool.phase = "loading" THEN "result" ELSE "read"]
         /\ UNCHANGED <<chain, pool>>
    ELSE LET e == CHOOSE x \in Free : TRUE
         IN  /\ Free # {}
             /\ call' = [call EXCEPT ![c].on = e, ![c].pc = "result"]
             /\ pool' = [NoEntry EXCEPT !.entry = e, !.phase = "loading"]
             /\ chain' = Append(chain, Op("load", e))

\* The head of each method's loop.
Loop(c) ==
    /\ call[c].pc = "loop"
    /\ IF ~Aborted(c) /\ retiring = None /\ live = None
       THEN Share(c)
       ELSE /\ Goes(c, IF Aborted(c) THEN "failed"
                       ELSE IF retiring # None THEN "retire"
                       ELSE IF c \in Preparers THEN "failed"
                       ELSE IF c \in Loaders THEN "flush" ELSE "done")
            /\ UNCHANGED <<chain, pool>>
    /\ UNCHANGED <<logVars, stage, ownerVars, seqOf, inputs>>

\* loadLiveSnapshot: a flush of the live session, which may fail.
LoadsLive(c) ==
    /\ call[c].pc = "flush"
    /\ ~Queued("write")
    /\ \E where \in {"done", "failed"} : Goes(c, where)
    /\ UNCHANGED <<logVars, chain, stage, ownerVars, pool, seqOf, inputs>>

\* The operation c has queued, if any, is gone.
Drops(c) ==
    IF \E i \in DOMAIN chain : chain[i].of = c
    THEN \E i \in DOMAIN chain : chain[i].of = c /\ chain' = RemoveAt(chain, i)
    ELSE UNCHANGED chain

\* A signal ends the caller's own waits at once.  An operation of its own that
\* is queued will find the signal fired and do nothing: it is dropped here.
Abort(c) ==
    /\ call[c].pc \notin Ended \cup {"idle", "holding"}
    /\ ~Aborted(c)
    /\ Comes
    /\ Drops(c)
    /\ CASE call[c].pc \in {"retire", "result", "settle", "check"} ->
                Goes(c, "failed") /\ UNCHANGED pool
         [] call[c].pc = "commit" ->
                Removal(call[c].on) /\ MovesTo(SettledBy(call[c].on), c, "failed")
         [] OTHER -> call' = [call EXCEPT ![c].aborted = TRUE] /\ UNCHANGED pool
    /\ UNCHANGED <<logVars, stage, ownerVars, seqOf>>

-----------------------------------------------------------------------------
(* The calls, from their read on.                                          *)

\* Slip: An entry that is held already is reserved once more.
ReserveShared(c) ==
    /\ call[c].pc = "read" /\ c \notin Inspectors
    /\ IF ~IsPooled(c)
       THEN Goes(c, "loop") /\ UNCHANGED <<chain, pool>>
       ELSE IF Aborted(c)
       THEN Removal(pool.entry) /\ Goes(c, "failed") /\ UNCHANGED chain
       ELSE /\ pool' = [pool EXCEPT !.phase = "committing"]
            /\ chain' = Append(chain, Op("commit", c))
            /\ Goes(c, "commit")
    /\ UNCHANGED <<logVars, stage, ownerVars, seqOf, inputs>>

\* reserve: wait for the entry to be free, take it, and queue its commit.
Reserve(c) ==
    /\ call[c].pc = "read" /\ c \notin Inspectors
    /\ IF ~IsPooled(c)
       THEN Goes(c, "loop") /\ UNCHANGED <<chain, pool>>
       ELSE IF pool.phase # "ready"
       THEN Goes(c, "settle") /\ UNCHANGED <<chain, pool>>
       ELSE IF Aborted(c)
       THEN Removal(pool.entry) /\ Goes(c, "failed") /\ UNCHANGED chain
       ELSE /\ pool' = [pool EXCEPT !.phase = "committing"]
            /\ chain' = Append(chain, Op("commit", c))
            /\ Goes(c, "commit")
    /\ UNCHANGED <<logVars, stage, ownerVars, seqOf, inputs>>

\* Slip: An abort that came too late to stop the commit ends the call only.
CommittedKeepsPhase(c) ==
    /\ call[c].pc = "committed"
    /\ LET e == call[c].on
       IN  IF call[c].outcome # "committed" \/ ~(Aborted(c) \/ IsPooled(c))
           THEN /\ Removal(e)
                /\ MovesTo(SettledBy(e), c, IF call[c].outcome = "failed" THEN "failed" ELSE "loop")
           ELSE IF Aborted(c)
           THEN Goes(c, "failed") /\ UNCHANGED pool
           ELSE IF c \in Loaders
           THEN Removal(e) /\ Answers(SettledBy(e), c, "done")
           ELSE pool' = [pool EXCEPT !.phase = "reserved"] /\ Goes(c, "holding")
    /\ UNCHANGED <<logVars, chain, stage, ownerVars, seqOf, inputs>>

\* The rest of reserve, once the commit has settled: refused, or invalidated
\* meanwhile, the call starts over.  load discards what it reserved and answers
\* with it.
Committed(c) ==
    /\ call[c].pc = "committed"
    /\ LET e == call[c].on
       IN  IF call[c].outcome # "committed" \/ ~(Aborted(c) \/ IsPooled(c))
           THEN /\ Removal(e)
                /\ MovesTo(SettledBy(e), c, IF call[c].outcome = "failed" THEN "failed" ELSE "loop")
           ELSE IF Aborted(c)
           THEN Readiness(e) /\ MovesTo(SettledBy(e), c, "failed")
           ELSE IF c \in Loaders
           THEN Removal(e) /\ Answers(SettledBy(e), c, "done")
           ELSE pool' = [pool EXCEPT !.phase = "reserved"] /\ Goes(c, "holding")
    /\ UNCHANGED <<logVars, chain, stage, ownerVars, seqOf, inputs>>

\* inspect: the shared view is checked against the log before it is answered.
QueueCheck(c) ==
    /\ call[c].pc = "read" /\ c \in Inspectors
    /\ IF live # None \/ Aborted(c)
       THEN Goes(c, IF live # None THEN "done" ELSE "failed") /\ UNCHANGED chain
       ELSE Goes(c, "check") /\ chain' = Append(chain, Op("check", c))
    /\ UNCHANGED <<logVars, stage, ownerVars, pool, seqOf, inputs>>

\* Slip: A source somebody reserved is answered without the check.
CheckedLoosely(c) ==
    /\ call[c].pc = "checked"
    /\ IF live # None THEN Goes(c, "done") ELSE Answers(call, c, "done")
    /\ UNCHANGED <<logVars, chain, stage, ownerVars, pool, seqOf, inputs>>

\* A stale ready source is dropped and read again; one that is being committed
\* or is held is lent as it is.
Checked(c) ==
    /\ call[c].pc = "checked"
    /\ IF live # None
       THEN Goes(c, "done") /\ UNCHANGED pool
       ELSE IF call[c].outcome = "current"
       THEN Answers(call, c, "done") /\ UNCHANGED pool
       ELSE IF IsPooled(c) /\ pool.phase # "ready"
       THEN Answers(call, c, "borrowed") /\ UNCHANGED pool
       ELSE Removal(call[c].on) /\ Goes(c, "loop")
    /\ UNCHANGED <<logVars, chain, stage, ownerVars, seqOf, inputs>>

-----------------------------------------------------------------------------
(* What holds a prepared session.                                          *)

\* attachPrepared's condition.
Matches(c) == tracked.owner = None /\ tracked.cursor = call[c].seen.revision

\* Enter the registry and announce: the entry is consumed, the state is owned.
Publish(c) ==
    /\ call[c].pc = "holding" /\ live = None
    /\ IsPooled(c) /\ Matches(c)
    /\ live' = c
    /\ tracked' = [tracked EXCEPT !.owner = c]
    /\ Removal(call[c].on)
    /\ MovesTo(SettledBy(call[c].on), c, "done")
    /\ UNCHANGED <<logVars, chain, stage, retiring, seqOf, inputs>>

\* Leave without publishing; a session whose setup added events is not reused.
Release(c) ==
    /\ call[c].pc = "holding"
    /\ Readiness(call[c].on) \/ Removal(call[c].on)
    /\ MovesTo(SettledBy(call[c].on), c, "done")
    /\ UNCHANGED <<logVars, chain, stage, ownerVars, seqOf, inputs>>

\* Bounds the revisions there will be.
RoomToWrite ==
    log.revision + Cardinality({i \in DOMAIN chain : chain[i].kind \in {"write", "append"}})
        < MaxRevision

\* The live session's write controller, which also drains after disposal.
LiveWrite ==
    /\ live # None \/ (retiring # None /\ ~Queued("retire"))
    /\ RoomToWrite
    /\ chain' = Append(chain, Op("write", None))
    /\ UNCHANGED <<logVars, stage, ownerVars, pool, call, seqOf, inputs>>

Dispose ==
    /\ live # None /\ retiring = None
    /\ retiring' = live
    /\ live' = None
    /\ UNCHANGED <<logVars, chain, stage, tracked, pool, call, seqOf, inputs>>

Drained == retiring # None /\ ~Queued("write") /\ ~Queued("retire")

\* retireCore: flushed, it gives the state up as an operation of the chain.
QueueRetire ==
    /\ Drained
    /\ chain' = Append(chain, Op("retire", retiring))
    /\ UNCHANGED <<logVars, stage, ownerVars, pool, call, seqOf, inputs>>

\* The end of a retirement, for the calls that waited for it.
RetiredTo(where) ==
    /\ retiring' = None
    /\ call' = [c \in Callers |->
                   IF call[c].pc # "retire" THEN call[c]
                   ELSE IF where = "failed" THEN [Idle EXCEPT !.pc = "failed"]
                   ELSE [call[c] EXCEPT !.pc = where]]

\* The flush failed: the retirement is over and the state stays owned.
RetireFails ==
    /\ Drained
    /\ RetiredTo("failed")
    /\ UNCHANGED <<logVars, chain, stage, tracked, live, pool, seqOf, inputs>>

-----------------------------------------------------------------------------
(* The operations of the chain.                                            *)

\* prepareCore, and the reaction that fills the entry if it is still there.
LoadReads ==
    /\ Running("load")
    /\ pool' = IF pool.entry = Runner THEN [pool EXCEPT !.phase = "ready", !.source = log] ELSE pool
    /\ call' = [c \in Callers |->
                   IF call[c].on = Runner /\ call[c].pc = "result"
                   THEN [call[c] EXCEPT !.pc = "read", !.seen = log] ELSE call[c]]
    /\ chain' = Tail(chain)
    /\ UNCHANGED <<logVars, stage, ownerVars, seqOf, inputs>>

LoadFails ==
    /\ Running("load")
    /\ Removal(Runner)
    /\ call' = [c \in Callers |->
                   IF call[c].on = Runner /\ call[c].pc = "result"
                   THEN [Idle EXCEPT !.pc = IF c \in Inspectors /\ live # None THEN "done"
                                            ELSE "failed"]
                   ELSE call[c]]
    /\ chain' = Tail(chain)
    /\ UNCHANGED <<logVars, stage, ownerVars, seqOf, inputs>>

Settles(result, where) ==
    /\ call' = [call EXCEPT ![Runner].outcome = result, ![Runner].pc = where]
    /\ chain' = Tail(chain)

Repaired == [revision |-> log.revision + 1, open |-> FALSE]
Tracking(source) == [known |-> TRUE, cursor |-> source.revision, owner |-> None]

\* commitPrepared: a repair changes the log, so the call reads it again.
Commits ==
    /\ Running("commit")
    /\ LET source == call[Runner].seen
       IN  IF tracked.owner # None
           THEN Settles("failed", "committed") /\ UNCHANGED <<log, tracked>>
           ELSE IF ~IsCurrent(source)
           THEN Settles("stale", "committed") /\ UNCHANGED <<log, tracked>>
           ELSE IF source.open
           THEN Settles("stale", "committed") /\ log' = Repaired /\ UNCHANGED tracked
           ELSE Settles("committed", "committed") /\ tracked' = Tracking(source) /\ UNCHANGED log
    /\ UNCHANGED <<outside, stage, live, retiring, pool, seqOf, inputs>>

CommitFails ==
    /\ Running("commit")
    /\ Settles("failed", "committed")
    /\ UNCHANGED <<logVars, stage, ownerVars, pool, seqOf, inputs>>

Checks ==
    /\ Running("check")
    /\ Settles(IF IsCurrent(call[Runner].seen) THEN "current" ELSE "changed", "checked")
    /\ UNCHANGED <<logVars, stage, ownerVars, pool, seqOf, inputs>>

Retires ==
    /\ Running("retire")
    /\ tracked' = IF tracked.owner = Runner THEN Untracked ELSE tracked
    /\ RetiredTo("loop")
    /\ chain' = Tail(chain)
    /\ UNCHANGED <<logVars, stage, live, pool, seqOf, inputs>>

-----------------------------------------------------------------------------
(* Writes.                                                                 *)

\* append(): the caller numbers its batch from the log as it knows it.
QueueAppend(a) ==
    /\ seqOf[a] = 0
    /\ RoomToWrite /\ Comes
    /\ seqOf' = [seqOf EXCEPT ![a] = log.revision]
    /\ chain' = Append(chain, Op("append", a))
    /\ UNCHANGED <<logVars, stage, ownerVars, pool, call>>

\* Slip: A held session does not keep other writers out.
WritableAlways == TRUE

\* assertWritable
Writable == pool.phase \notin {"committing", "reserved"}

AppendEnds == chain' = Tail(chain) /\ stage' = "queued"
AppendGoes(where) == stage' = where /\ UNCHANGED chain

\* Up to the first wait: refused while an entry is held, adopting the log when
\* nothing tracks it, refused when the batch does not continue the cursor.
AppendStarts ==
    /\ Starting("append") /\ stage = "queued"
    /\ IF ~Writable THEN AppendEnds
       ELSE IF ~tracked.known THEN AppendGoes("adopting")
       ELSE IF tracked.cursor # seqOf[Runner] THEN AppendEnds
       ELSE AppendGoes("writing")
    /\ UNCHANGED <<logVars, ownerVars, pool, call, seqOf, inputs>>

\* One turn of adopt's loop: take the ready source or read the log, commit it.
Adopts ==
    /\ Running("append") /\ stage = "adopting"
    /\ LET ready == pool.phase = "ready"
           source == IF ready THEN pool.source ELSE log
       IN  /\ pool' = IF ready THEN NoEntry ELSE pool
           /\ IF ~IsCurrent(source)
              THEN AppendGoes("adopting") /\ UNCHANGED <<log, tracked>>
              ELSE IF source.open
              THEN log' = Repaired /\ AppendGoes("adopting") /\ UNCHANGED tracked
              ELSE /\ tracked' = Tracking(source)
                   /\ IF source.revision # seqOf[Runner] THEN AppendEnds ELSE AppendGoes("writing")
                   /\ UNCHANGED log
    /\ UNCHANGED <<outside, live, retiring, call, seqOf, inputs>>

Lengthens == \E ends \in BOOLEAN : log' = [revision |-> log.revision + 1, open |-> ends]

\* appendBatch, the cursor, and the entry that no longer tells the truth.
Writes ==
    /\ Running("write") \/ (Running("append") /\ stage = "writing")
    /\ Lengthens
    /\ tracked' = [tracked EXCEPT !.cursor = @ + 1]
    /\ pool' = NoEntry
    /\ call' = Settled(call)
    /\ AppendEnds
    /\ UNCHANGED <<outside, live, retiring, seqOf, inputs>>

\* The backend refuses a batch.
AppendFails ==
    /\ Running("append") /\ stage # "queued"
    /\ AppendEnds
    /\ UNCHANGED <<logVars, ownerVars, pool, call, seqOf, inputs>>

\* Another process writes the log.
WritesOutside ==
    /\ RoomToWrite /\ Comes
    /\ Lengthens
    /\ outside' = outside \cup {log.revision + 1}
    /\ UNCHANGED <<chain, stage, ownerVars, pool, call, seqOf>>

-----------------------------------------------------------------------------
ChainStep ==
    \/ LoadReads \/ LoadFails \/ Commits \/ CommitFails \/ Checks \/ Retires
    \/ AppendStarts \/ Adopts \/ Writes \/ AppendFails
Resumes(c) ==
    \/ Loop(c) \/ LoadsLive(c) \/ Reserve(c) \/ Committed(c) \/ QueueCheck(c) \/ Checked(c)
Holds(c) == Publish(c) \/ Release(c)
Retirement == QueueRetire \/ RetireFails

Done ==
    /\ \A c \in Callers : call[c].pc \in Ended \cup {"idle"}
    /\ chain = <<>>
    /\ UNCHANGED vars

Next ==
    \/ ChainStep \/ Retirement
    \/ \E c \in Callers : Call(c) \/ Resumes(c) \/ Holds(c)
    \/ \E c \in Abortable : Abort(c)
    \/ \E a \in Appenders : QueueAppend(a)
    \/ LiveWrite \/ Dispose \/ Evict \/ WritesOutside
    \/ Done

Spec == Init /\ [][Next]_vars

\* Reads, writes and reactions happen; what holds a session lets it go.
FairSpec ==
    /\ Spec
    /\ WF_vars(ChainStep) /\ WF_vars(Retirement)
    /\ \A c \in Callers : WF_vars(Resumes(c) \/ Holds(c))

-----------------------------------------------------------------------------
\* Every revision after r was written by another process.
OthersSince(r) == (r + 1)..log.revision \subseteq outside

\* At most one session of this identity is held, live, draining or left owning
\* the state.  A held one is still the pool's reserved entry, needs no repair and
\* matches the state it would be attached to, and nothing of this process was
\* written behind its back: attachPrepared never has a reason to refuse it.
OneOwner ==
    /\ Cardinality({c \in Callers : call[c].pc = "holding"}
                   \cup ({live, retiring, tracked.owner} \ {None})) <= 1
    /\ \A c \in Callers : call[c].pc = "holding" =>
          /\ IsPooled(c) /\ pool.phase = "reserved"
          /\ tracked.known /\ Matches(c)
          /\ ~call[c].seen.open
          /\ OthersSince(call[c].seen.revision)

\* A stored view that answers a call holds everything that was in the log when
\* the call was made.  Only a view lent from a preparation that is being
\* committed or held may miss something, and then only what others wrote.
Truthful ==
    \A c \in Callers :
       call[c].missing # {} => call[c].pc = "borrowed" /\ call[c].missing \subseteq outside

\* Every call ends, whatever is shared with it, evicted, invalidated, aborted or
\* retired meanwhile: none is made twice, so it is enough that time and again none
\* is under way.
CallsEnd == []<>(\A c \in Callers : call[c].pc \in Ended \cup {"idle"})

\* "Contiguity contract: each event's seq must continue the stored log": a batch
\* about to be written continues everything this process wrote.
Contiguous == stage = "writing" => OthersSince(tracked.cursor)

=============================================================================
