----------------------------- MODULE Subagents -----------------------------
(***************************************************************************)
(* Continuable subagents: SubagentContinuationManager of                   *)
(* packages/subagent/subagent/src/continuation.ts.                         *)
(*                                                                         *)
(* A child is resident for an epoch (an Activation): it is created or cold *)
(* resumed under the child's lock, accepts messages, and is settled by a   *)
(* watcher once it is quiet and owns no resident child; an ancestor, a     *)
(* team or a host may stop it at any point.  Release is child-first and    *)
(* tells the parent.  An action is a stretch between two awaits.           *)
(*                                                                         *)
(* Root stands for a parent the manager does not own, and is always live.  *)
(* An agent is AgentLoop cut down to what residency reads.  Messages that  *)
(* wake nobody (quiet reports, notices to a lineage that is closing) are   *)
(* left out, and so is whatever the calls' results say.                    *)
(***************************************************************************)
EXTENDS Naturals, Sequences, FiniteSets

CONSTANTS Root,
          Kids,         \* the children's durable ids
          ParentOf,     \* the durable direct parent of each
          Calls,        \* calls of startContinuable and followup
          MaxInputs     \* calls, reports that wake the parent, maintenance tasks, aborts

ASSUME SubagentsAssumption ==
    /\ Root \notin Kids
    /\ ParentOf \in [Kids -> Kids \cup {Root}]
    /\ \A k \in Kids : ParentOf[k] # k
    /\ Calls \cap Nat = {}
    /\ MaxInputs \in Nat

VARIABLES
    agent,      \* phase, abort cause, latched wake and unread waking messages of each
    epoch,      \* the Activation of each child
    watch,      \* where its settlement watcher stands
    poked,      \* children whose watcher's captured poke has been resolved
    line,       \* ChildLock: who holds the child's lock and who waits for it, a call
                \* or the watcher of an epoch
    call,       \* where each call stands
    known,      \* children whose session is in the store
    drain,      \* where drain() stands
    scope,      \* where drainDescendants(Root) stands
    inputs

residency == <<agent, epoch, watch, poked>>
vars == <<residency, line, call, known, drain, scope, inputs>>

Resting == [phase |-> "idle", abort |-> "none", latched |-> FALSE, unread |-> 0]
NoEpoch == [at |-> "none", era |-> 0, why |-> "none", announced |-> FALSE, calm |-> FALSE,
            owned |-> {}, lost |-> 0]
NoCall == [at |-> "none", op |-> "start", by |-> "host", kid |-> Root, era |-> 0,
           aborted |-> FALSE]

Init ==
    /\ agent = [k \in Kids |-> Resting]
    /\ epoch = [k \in Kids |-> NoEpoch]
    /\ watch = [k \in Kids |-> "none"]
    /\ poked = {}
    /\ line = [k \in Kids |-> <<>>]
    /\ call = [c \in Calls |-> NoCall]
    /\ known = {}
    /\ drain = "no" /\ scope = "no"
    /\ inputs = 0

Live(k) == epoch[k].at # "none"
Up(k) == epoch[k].at = "up"
Closing(k) == Live(k) /\ ~Up(k)

\* The parent of a child, if the manager owns it.
Owner(k) == {ParentOf[k]} \cap Kids

\* assertAdmitting: every lineage reaches Root.
Admitting == drain = "no" /\ scope = "no"

\* Slip: trust the agent's status.
StateByStatus(k) ==
    IF agent[k].phase = "running" THEN "running"
    ELSE IF epoch[k].owned # {} THEN "waiting" ELSE "settled"

\* stateOf.  Every unread waking message is in `accepted`.
StateOf(k) ==
    IF agent[k].phase = "running" \/ agent[k].unread > 0 THEN "running"
    ELSE IF epoch[k].owned # {} THEN "waiting" ELSE "settled"

\* What comes from outside, within bounds.
Spends == inputs < MaxInputs /\ inputs' = inputs + 1

-----------------------------------------------------------------------------
(* The children's agents.                                                  *)

\* A waking message: an idle agent starts a turn; maintenance and an aborted turn
\* latch the wake, unless disposal aborted them.
Woken(a) ==
    IF a.phase = "idle" THEN [a EXCEPT !.phase = "running", !.unread = @ + 1]
    ELSE [a EXCEPT !.unread = @ + 1,
                   !.latched = @ \/ /\ a.abort # "disposed"
                                    /\ (a.phase = "maintaining" \/ a.abort = "cancel")]

\* Slip: clear the inbox and let the activity end by itself.
CancelledSoftly(a, cause) == [a EXCEPT !.unread = 0, !.latched = FALSE]

\* cancel(cause), the inbox with it.
Cancelled(a, cause) ==
    [a EXCEPT !.unread = 0, !.latched = FALSE,
              !.abort = IF a.phase # "idle" /\ @ = "none" THEN cause ELSE @]

\* An activity ends, replaying a latched wake.
Rested(a) ==
    [a EXCEPT !.phase = IF a.latched /\ a.unread > 0 THEN "running" ELSE "idle",
              !.abort = "none", !.latched = FALSE]

\* Tool calls of k's turn that have not ended: the turn waits for them.
InFlight(k) == {c \in Calls : /\ call[c].by = "turn" /\ call[c].at \notin {"none", "done"}
                              /\ ParentOf[call[c].kid] = k}

Becomes(k, a) == agent' = [agent EXCEPT ![k] = a]

\* A turn claims what it finds of steering, and a prompt at its start.
Claims(k) ==
    /\ agent[k].phase = "running" /\ agent[k].abort = "none" /\ agent[k].unread > 0
    /\ \E left \in 0..(agent[k].unread - 1) : Becomes(k, [agent[k] EXCEPT !.unread = left])
    /\ poked' = poked \cup {k}
    /\ UNCHANGED <<epoch, watch, line, call, known, drain, scope, inputs>>

\* A turn ends.  One that is rejected or fails parks what it did not claim.
TurnEnds(k) ==
    /\ agent[k].phase = "running" /\ InFlight(k) = {}
    /\ Becomes(k, Rested(agent[k]))
    /\ UNCHANGED <<epoch, watch, poked, line, call, known, drain, scope, inputs>>

\* Compaction of a quiet child.
MaintenanceStarts(k) ==
    /\ Up(k) /\ agent[k].phase = "idle" /\ Spends
    /\ Becomes(k, [agent[k] EXCEPT !.phase = "maintaining"])
    /\ UNCHANGED <<epoch, watch, poked, line, call, known, drain, scope>>

MaintenanceEnds(k) ==
    /\ agent[k].phase = "maintaining"
    /\ Becomes(k, Rested(agent[k]))
    /\ UNCHANGED <<epoch, watch, poked, line, call, known, drain, scope, inputs>>

\* interrupt: the inbox is kept.
Interrupt(k) ==
    /\ Up(k) /\ agent[k].phase # "idle" /\ agent[k].abort = "none"
    /\ Becomes(k, [agent[k] EXCEPT !.abort = "cancel"])
    /\ UNCHANGED <<epoch, watch, poked, line, call, known, drain, scope, inputs>>

\* reportFrom with next-step delivery, from a tool of k's turn: steer the parent.
Report(k) ==
    /\ Up(k) /\ Admitting /\ Spends
    /\ agent[k].phase = "running" /\ agent[k].abort = "none"
    /\ \E p \in Owner(k) : Live(p) /\ Becomes(p, Woken(agent[p])) /\ poked' = poked \cup {p}
    /\ UNCHANGED <<epoch, watch, line, call, known, drain, scope>>

-----------------------------------------------------------------------------
(* Disposal.                                                               *)

\* dispose() recurs into the owned children that are up.
Recurs(all) == \A k \in all : \A c \in epoch[k].owned : Up(c) => c \in all

\* What the disposal of ks reaches: the least such set.
Reached(ks) == {k \in Kids : \A all \in SUBSET Kids : ks \subseteq all /\ Recurs(all) => k \in all}

\* dispose() of each of ks up to the first await: the cutoff and the cancellation,
\* top-down.
Disposes(ks, why) ==
    LET all == Reached({k \in ks : Up(k)})
    IN  /\ agent' = [k \in Kids |-> IF k \in all THEN Cancelled(agent[k], "cancel")
                                    ELSE agent[k]]
        /\ epoch' = [k \in Kids |->
                        IF k \in all THEN [epoch[k] EXCEPT !.at = "stopping", !.why = why,
                                                           !.lost = agent[k].unread]
                        ELSE epoch[k]]
        /\ watch' = [k \in Kids |-> IF k \in all THEN "none" ELSE watch[k]]
        /\ poked' = poked \ all

\* The whenIdle() that finishDisposal took resolves.
Quiets(k) ==
    /\ epoch[k].at = "stopping" /\ ~epoch[k].calm /\ agent[k].phase = "idle"
    /\ epoch' = [epoch EXCEPT ![k].calm = TRUE]
    /\ UNCHANGED <<agent, watch, poked, line, call, known, drain, scope, inputs>>

\* Every owned child is released: flush the final state.
Flushes(k) ==
    /\ epoch[k].at = "stopping" /\ epoch[k].calm /\ epoch[k].owned = {}
    /\ epoch' = [epoch EXCEPT ![k].at = "flushing"]
    /\ UNCHANGED <<agent, watch, poked, line, call, known, drain, scope, inputs>>

\* The flush settles, well or not: dispose of the handle.
Flushed(k) ==
    /\ epoch[k].at = "flushing"
    /\ Becomes(k, Cancelled(agent[k], "disposed"))
    /\ epoch' = [epoch EXCEPT ![k].at = "releasing", ![k].lost = @ + agent[k].unread]
    /\ UNCHANGED <<watch, poked, line, call, known, drain, scope, inputs>>

\* Slip: wake the parent whatever is closing.
InformedAlways(k) == IF epoch[k].announced THEN {p \in Owner(k) : Live(p)} ELSE {}

\* notifySettlement: who is woken.  A lineage that is closing is not.
Informed(k) == IF epoch[k].announced /\ Admitting THEN {p \in Owner(k) : Live(p)} ELSE {}

\* The epoch is over, and its agent gone.
Gone(k) ==
    [epoch[k] EXCEPT !.at = "none", !.announced = FALSE, !.calm = FALSE, !.owned = {},
                     !.lost = @ + agent[k].unread]

\* Slip: release the ownership first; the notice follows in a later stretch.
ReleasesFirst(k) ==
    \/ /\ epoch[k].at = "releasing" /\ agent[k].phase = "idle"
       /\ epoch' = [j \in Kids |-> IF j = k THEN [epoch[k] EXCEPT !.at = "telling"]
                                   ELSE [epoch[j] EXCEPT !.owned = @ \ {k}]]
       /\ poked' = poked \cup {j \in Kids : k \in epoch[j].owned}
       /\ UNCHANGED <<agent, watch, line, call, known, drain, scope, inputs>>
    \/ /\ epoch[k].at = "telling"
       /\ agent' = [j \in Kids |-> IF j = k THEN Resting
                                   ELSE IF j \in Informed(k) THEN Woken(agent[j])
                                   ELSE agent[j]]
       /\ epoch' = [epoch EXCEPT ![k] = Gone(k)]
       /\ poked' = poked \cup Informed(k)
       /\ UNCHANGED <<watch, line, call, known, drain, scope, inputs>>

\* The handle is disposed: tell the parent, then release the ownership.
Releases(k) ==
    /\ epoch[k].at = "releasing" /\ agent[k].phase = "idle"
    /\ agent' = [j \in Kids |-> IF j = k THEN Resting
                                ELSE IF j \in Informed(k) THEN Woken(agent[j]) ELSE agent[j]]
    /\ epoch' = [j \in Kids |-> IF j = k THEN Gone(k)
                                ELSE [epoch[j] EXCEPT !.owned = @ \ {k}]]
    /\ poked' = poked \cup Informed(k) \cup {j \in Kids : k \in epoch[j].owned}
    /\ UNCHANGED <<watch, line, call, known, drain, scope, inputs>>

Disposal(k) == Quiets(k) \/ Flushes(k) \/ Flushed(k) \/ Releases(k)

-----------------------------------------------------------------------------
(* The settlement watcher.                                                 *)

\* whenIdle() or the captured poke resolves: queue for the child's lock.
WatchRaces(k) ==
    /\ watch[k] = "racing"
    /\ agent[k].phase = "idle" \/ k \in poked
    /\ watch' = [watch EXCEPT ![k] = "queued"]
    /\ line' = [line EXCEPT ![k] = Append(@, epoch[k].era)]
    /\ UNCHANGED <<agent, epoch, poked, call, known, drain, scope, inputs>>

\* Inside the lock: settle, look again, or find that the epoch was disposed of.
WatchChecks(k) ==
    /\ line[k] # <<>> /\ Head(line[k]) \in Nat
    /\ line' = [line EXCEPT ![k] = Tail(@)]
    /\ IF ~Up(k) \/ Head(line[k]) # epoch[k].era THEN UNCHANGED residency
       ELSE IF StateOf(k) = "settled" THEN Disposes({k}, "settled")
       ELSE /\ UNCHANGED <<agent, epoch>>
            /\ IF agent[k].phase = "running"
               THEN watch' = [watch EXCEPT ![k] = "racing"] /\ poked' = poked \ {k}
               ELSE watch' = [watch EXCEPT ![k] = "resting"] /\ UNCHANGED poked
    /\ UNCHANGED <<call, known, drain, scope, inputs>>

\* The poke that was captured before the check resolves.
WatchPoked(k) ==
    /\ watch[k] = "resting" /\ k \in poked
    /\ watch' = [watch EXCEPT ![k] = "racing"]
    /\ poked' = poked \ {k}
    /\ UNCHANGED <<agent, epoch, line, call, known, drain, scope, inputs>>

Watching(k) == WatchRaces(k) \/ WatchChecks(k) \/ WatchPoked(k)

-----------------------------------------------------------------------------
(* Calls.                                                                  *)
At(c, at) == call' = [call EXCEPT ![c].at = at]
Over(c) == call' = [call EXCEPT ![c] = [NoCall EXCEPT !.at = "done"]]
Kid(c) == call[c].kid
Holds(c) == line[Kid(c)] # <<>> /\ Head(line[Kid(c)]) = c
Leaves(c) == line' = [line EXCEPT ![Kid(c)] = Tail(@)]
Ends(c) == Over(c) /\ Leaves(c)

\* The caller's signal: the abort of the turn whose tool calls.
Aborted(c) == IF call[c].by = "turn" THEN agent[ParentOf[Kid(c)]].abort # "none"
              ELSE call[c].aborted

\* The exact parent object is still registered.
ParentLive(c) ==
    \A p \in Owner(Kid(c)) : Live(p) /\ epoch[p].era = call[c].era

ParentClosing(c) == \E p \in Owner(Kid(c)) : Closing(p)

\* A start prepares first; a follow-up queues for the lock at once.
Opened(k, op, by) ==
    [at |-> IF op = "start" THEN "preparing" ELSE "queued", op |-> op, by |-> by, kid |-> k,
     aborted |-> FALSE, era |-> IF Owner(k) = {} THEN 0 ELSE epoch[ParentOf[k]].era]

\* The calls differ in name only.
Unmade == CHOOSE c \in Calls : call[c].at = "none"

\* A parent, or a host on behalf of a live one, starts a child or follows up.
Begin(c) ==
    /\ call[c].at = "none" /\ c = Unmade /\ Admitting /\ Spends
    /\ \E k \in Kids, op \in {"start", "followup"}, by \in {"turn", "host"} :
        /\ \A p \in Owner(k) : Live(p)
        /\ IF by = "turn"
           THEN \E p \in Owner(k) : agent[p].phase = "running" /\ agent[p].abort = "none"
           ELSE op = "start" => Owner(k) = {}
        /\ op = "start" => ~Live(k)
        /\ call' = [call EXCEPT ![c] = Opened(k, op, by)]
        /\ line' = IF op = "start" THEN line ELSE [line EXCEPT ![k] = Append(@, c)]
    /\ UNCHANGED <<residency, known, drain, scope>>

HostAborts(c) ==
    /\ call[c].by = "host" /\ call[c].at \notin {"none", "done"} /\ ~call[c].aborted
    /\ Spends
    /\ call' = [call EXCEPT ![c].aborted = TRUE]
    /\ UNCHANGED <<residency, line, known, drain, scope>>

\* The provider has answered: queue for the child's lock.
Prepared(c) ==
    /\ call[c].at = "preparing"
    /\ IF Aborted(c) \/ ~Admitting THEN Over(c) /\ UNCHANGED line
       ELSE At(c, "queued") /\ line' = [line EXCEPT ![Kid(c)] = Append(@, c)]
    /\ UNCHANGED <<residency, known, drain, scope, inputs>>

\* Slip: a caller that named the right parent once is still authorized.
RefusedUnlessStale(c) == Aborted(c) \/ ~Admitting \/ ~Up(Kid(c)) \/ ParentClosing(c)

\* submitAdmitted's checks.
Refused(c) == Aborted(c) \/ ~Admitting \/ ~Up(Kid(c)) \/ ~ParentLive(c) \/ ParentClosing(c)

\* submit: own the child, send, announce.
Accepts(c) ==
    /\ Becomes(Kid(c), Woken(agent[Kid(c)]))
    /\ epoch' = [k \in Kids |->
                    IF k = Kid(c) THEN [epoch[k] EXCEPT !.announced = TRUE]
                    ELSE IF k \in Owner(Kid(c)) THEN [epoch[k] EXCEPT !.owned = @ \cup {Kid(c)}]
                    ELSE epoch[k]]
    /\ poked' = poked \cup {Kid(c)}
    /\ UNCHANGED watch

\* startContinuable inside the lock: the id must be free.
StartProceeds(c) ==
    /\ call[c].at = "queued" /\ call[c].op = "start" /\ Holds(c)
    /\ IF Aborted(c) \/ ~Admitting \/ Live(Kid(c)) \/ Kid(c) \in known
       THEN Ends(c) ELSE At(c, "creating") /\ UNCHANGED line
    /\ UNCHANGED <<residency, known, drain, scope, inputs>>

\* followup inside the lock: by residency.
FollowupProceeds(c) ==
    /\ call[c].at = "queued" /\ call[c].op = "followup" /\ Holds(c)
    /\ IF ~Live(Kid(c)) THEN At(c, "inspecting") /\ UNCHANGED <<residency, line>>
       ELSE IF Closing(Kid(c)) THEN At(c, "awaiting") /\ UNCHANGED <<residency, line>>
       ELSE /\ Ends(c)
            /\ IF Refused(c) THEN UNCHANGED residency ELSE Accepts(c)
    /\ UNCHANGED <<known, drain, scope, inputs>>

\* The disposal it lost against is over: once more.
Awaited(c) ==
    /\ call[c].at = "awaiting" /\ ~Live(Kid(c))
    /\ IF ~Admitting \/ Aborted(c) THEN Ends(c)
       ELSE /\ At(c, "queued")
            /\ line' = [line EXCEPT ![Kid(c)] = Append(Tail(@), c)]
    /\ UNCHANGED <<residency, known, drain, scope, inputs>>

\* coldResume has read the child's session, if there is one.
Inspected(c) ==
    /\ call[c].at = "inspecting"
    /\ IF Aborted(c) \/ ~Admitting \/ ~ParentLive(c) \/ Kid(c) \notin known
       THEN Ends(c) ELSE At(c, "creating") /\ UNCHANGED line
    /\ UNCHANGED <<residency, known, drain, scope, inputs>>

CreationFails(c) ==
    /\ call[c].at = "creating"
    /\ Ends(c)
    /\ UNCHANGED <<residency, known, drain, scope, inputs>>

\* The next Activation of k.
NewEpoch(k, at) == [NoEpoch EXCEPT !.at = at, !.era = epoch[k].era + 1]

\* The handle is there: install the Activation, or roll it back.
Installs(c) ==
    /\ call[c].at = "creating"
    /\ known' = known \cup {Kid(c)}
    /\ IF Aborted(c) \/ ~Admitting \/ ParentClosing(c)
       THEN /\ At(c, "undoing")
            /\ epoch' = [epoch EXCEPT ![Kid(c)] = NewEpoch(Kid(c), "undoing")]
            /\ UNCHANGED <<watch, poked>>
       ELSE /\ At(c, "submitting")
            /\ epoch' = [k \in Kids |->
                            IF k = Kid(c) THEN NewEpoch(k, "up")
                            ELSE IF k \in Owner(Kid(c)) /\ Live(k)
                            THEN [epoch[k] EXCEPT !.owned = @ \cup {Kid(c)}] ELSE epoch[k]]
            /\ watch' = [watch EXCEPT ![Kid(c)] = "racing"]
            /\ poked' = poked \ {Kid(c)}
    /\ UNCHANGED <<agent, line, drain, scope, inputs>>

\* rollbackUnpublished
Undone(c) ==
    /\ call[c].at = "undoing"
    /\ epoch' = [epoch EXCEPT ![Kid(c)].at = "none"]
    /\ Becomes(Kid(c), Resting)
    /\ Ends(c)
    /\ UNCHANGED <<watch, poked, known, drain, scope, inputs>>

\* Microtasks are first in, first out: a child is installed and submitted no faster
\* than the parent that was installed before it.
Foremost(c) == \A d \in Calls : call[d].at = "submitting" => Kid(c) \notin epoch[Kid(d)].owned

\* submitMaterialized
Submits(c) ==
    /\ call[c].at = "submitting" /\ Foremost(c)
    /\ IF Refused(c) THEN At(c, "leaving") /\ Disposes({Kid(c)}, "refused") /\ UNCHANGED line
       ELSE Accepts(c) /\ Ends(c)
    /\ UNCHANGED <<known, drain, scope, inputs>>

\* The rejected child is gone.
Left(c) ==
    /\ call[c].at = "leaving" /\ ~Live(Kid(c))
    /\ Ends(c)
    /\ UNCHANGED <<residency, known, drain, scope, inputs>>

CallSteps(c) ==
    \/ Prepared(c) \/ StartProceeds(c) \/ FollowupProceeds(c) \/ Awaited(c) \/ Inspected(c)
    \/ Installs(c) \/ Undone(c) \/ Submits(c) \/ Left(c)

-----------------------------------------------------------------------------
(* Stopping.                                                               *)

\* drainChildren, for a team: stop selected children of Root.
StopTeammate(k) ==
    /\ ParentOf[k] = Root /\ Up(k)
    /\ Disposes({k}, "selected")
    /\ UNCHANGED <<line, call, known, drain, scope, inputs>>

Materializing == \E c \in Calls : call[c].at \in {"creating", "undoing"}

DrainStarts ==
    /\ drain = "no" /\ drain' = "barrier"
    /\ UNCHANGED <<residency, line, call, known, scope, inputs>>

\* Behind the materialization barrier.
DrainDisposes ==
    /\ drain = "barrier" /\ ~Materializing
    /\ drain' = "waiting"
    /\ Disposes(Kids, "drained")
    /\ UNCHANGED <<line, call, known, scope, inputs>>

DrainEnds ==
    /\ drain = "waiting" /\ \A k \in Kids : ~Live(k)
    /\ drain' = "done"
    /\ UNCHANGED <<residency, line, call, known, scope, inputs>>

\* drainDescendants(Root): dispose first, then wait for the barrier.
ScopeStarts ==
    /\ scope = "no" /\ scope' = "waiting"
    /\ Disposes(Kids, "drained")
    /\ UNCHANGED <<line, call, known, drain, inputs>>

ScopeEnds ==
    /\ scope = "waiting" /\ ~Materializing /\ \A k \in Kids : ~Live(k)
    /\ scope' = "done"
    /\ UNCHANGED <<residency, line, call, known, drain, inputs>>

Draining == DrainDisposes \/ DrainEnds \/ ScopeEnds

Next ==
    \/ DrainStarts \/ ScopeStarts \/ Draining
    \/ \E k \in Kids :
        \/ Claims(k) \/ TurnEnds(k) \/ MaintenanceStarts(k) \/ MaintenanceEnds(k)
        \/ Interrupt(k) \/ Report(k) \/ Disposal(k) \/ Watching(k) \/ StopTeammate(k)
    \/ \E c \in Calls : Begin(c) \/ HostAborts(c) \/ CreationFails(c) \/ CallSteps(c)

Spec == Init /\ [][Next]_vars

\* An aborted turn, maintenance, the watchers, disposals and calls make progress;
\* a turn that nobody aborts need not end.
FairSpec ==
    /\ Spec
    /\ WF_vars(Draining)
    /\ \A k \in Kids :
        /\ WF_vars(agent[k].abort # "none" /\ TurnEnds(k)) /\ WF_vars(MaintenanceEnds(k))
        /\ WF_vars(Disposal(k)) /\ WF_vars(Watching(k))
    /\ \A c \in Calls : WF_vars(CallSteps(c))

-----------------------------------------------------------------------------
Phases == {"idle", "running", "maintaining"}

Places == {"none", "up", "undoing", "stopping", "flushing", "releasing"}
Inside == {"inspecting", "awaiting", "creating", "undoing", "submitting", "leaving"}

Agents == [phase : Phases, abort : {"none", "cancel", "disposed"}, latched : BOOLEAN,
           unread : Nat]
Epochs == [at : Places, era : Nat, announced : BOOLEAN, calm : BOOLEAN,
           why : {"none", "settled", "refused", "selected", "drained"},
           owned : SUBSET Kids, lost : Nat]
Callers == [at : {"none", "preparing", "queued", "done"} \cup Inside,
            op : {"start", "followup"}, by : {"turn", "host"},
            kid : Kids \cup {Root}, era : Nat, aborted : BOOLEAN]

TypeOK ==
    /\ agent \in [Kids -> Agents]
    /\ epoch \in [Kids -> Epochs]
    /\ watch \in [Kids -> {"none", "racing", "queued", "resting"}]
    /\ call \in [Calls -> Callers]
    /\ line \in [Kids -> Seq(Calls \cup Nat)]
    /\ poked \subseteq Kids /\ known \subseteq Kids
    /\ drain \in {"no", "barrier", "waiting", "done"} /\ scope \in {"no", "waiting", "done"}
    /\ inputs \in Nat

\* A child that was ever sent a message has its owner resident for as long as it is
\* itself, and counted by it: a parent is never released under a working child.
\* Nothing below a closing child keeps working, and once its lineage is drained a
\* closing child starts no turn.
ChildFirst ==
    \A k \in Kids :
        /\ epoch[k].announced => \A p \in Owner(k) : Live(p) /\ k \in epoch[p].owned
        /\ Closing(k) => \A c \in epoch[k].owned : Closing(c)
        /\ Closing(k) /\ epoch[k].why = "drained" /\ agent[k].phase = "running"
             => agent[k].abort # "none"

\* A child that settles by itself drops no message: neither one a caller was told is
\* accepted, nor a report, nor the notice of its own last child.
Heard == \A k \in Kids : epoch[k].why = "settled" => epoch[k].lost = 0

\* continuation.ts:1482: a parent whose own teardown already began must not be woken.
NotWoken ==
    \A k \in Kids : Closing(k) /\ agent[k].phase = "running" => agent[k].abort # "none"

\* What NotWoken rules out, where a selected child is stopped.
Disturbed == \E k \in Kids : /\ Closing(k) /\ epoch[k].why = "selected"
                            /\ agent[k].phase = "running" /\ agent[k].abort = "none"

\* A quiet child without resident children is released or gets work; a call ends,
\* whatever it waits for; drains end.  A selected child that is woken while it is
\* stopped may hold up the last three for as long as its turn takes.
EpochsEnd ==
    /\ \A k \in Kids : []<>(~Up(k) \/ StateOf(k) # "settled")
    /\ []<>(\/ Disturbed
            \/ /\ \A c \in Calls : call[c].at \in {"none", "done"}
               /\ drain \in {"no", "done"} /\ scope \in {"no", "done"})
=============================================================================
