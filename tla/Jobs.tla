--------------------------------- MODULE Jobs ---------------------------------
(***************************************************************************)
(* Background jobs: packages/jobs/jobs-local/src/index.ts, the in-memory   *)
(* registry, with the completion reporter of packages/jobs/tool-jobs.      *)
(*                                                                         *)
(* A producer starts work that outlives its tool call.  The registry keeps *)
(* one record per job, hands it to callers that read, kill or wait, tells  *)
(* the owner when a job ends that nobody collected, and drains the jobs of *)
(* an owner or of the whole service when either is disposed.  Everything   *)
(* runs on one event loop: an action is the synchronous stretch of a call  *)
(* or of a promise reaction, and anything may run between two of them.     *)
(*                                                                         *)
(* The access fence is left out: a caller here is one the fence admits.    *)
(***************************************************************************)
EXTENDS Naturals, FiniteSets

CONSTANTS Ids,       \* the ids of jobs that may be started
          Agents,    \* the owners; every job here has one
          Waits,     \* calls of wait()
          MaxConcurrentJobsPerOwner,
          NoJob, NoAgent

ASSUME JobsAssumption ==
    /\ IsFiniteSet(Ids)
    /\ MaxConcurrentJobsPerOwner \in Nat
    /\ NoJob \notin Ids
    /\ NoAgent \notin Agents

VARIABLES
    store,      \* the ids the registry holds a record of
    owner,      \* owner of each record, kept for dropped ones too
    status,     \* status of each record
    reported,   \* records whose end needs no notice any more
    producer,   \* what stands behind each job: its work and its `done` promise
    asked,      \* producers whose cancel returned
    orphans,    \* producers whose cancel threw in a teardown
    waitJob,    \* the job a wait() call is about
    waitState,  \* where the call stands
    scope,      \* life of each owner's scope
    cleanups,   \* owners with an attached cleanup effect
    draining,   \* records an owner's cleanup awaits
    service,    \* life of the registry; its listeners close when it leaves "live"
    leaving,    \* records the disposal of the service awaits
    notices,    \* notices sent for each job
    told        \* jobs whose end, or request to end, a caller was told

recordVars == <<store, owner, status, reported>>
producerVars == <<producer, asked, orphans>>
waitVars == <<waitJob, waitState>>
lifeVars == <<scope, cleanups, draining, service, leaving>>
vars == <<recordVars, producerVars, waitVars, lifeVars, notices, told>>

Outcomes == {"completed", "killed", "failed"}
Terminal(j) == status[j] \in Outcomes
Live(j) == j \in store /\ status[j] \in {"running", "stopping"}

\* Slip: An aborted wait is uncounted only when the call continues.
WaitingUntilContinued(w) == waitState[w] # "idle"

\* `waiters`: calls that still count as someone to tell.
Waiting(w) == waitState[w] \in {"waiting", "timedOut", "released"}
Waiters(j) == {w \in Waits : waitJob[w] = j /\ Waiting(w)}

-----------------------------------------------------------------------------
Init ==
    /\ store = {}
    /\ owner = [j \in Ids |-> NoAgent]
    /\ status = [j \in Ids |-> "none"]
    /\ reported = {}
    /\ producer = [j \in Ids |-> "none"]
    /\ asked = {}
    /\ orphans = {}
    /\ waitJob = [w \in Waits |-> NoJob]
    /\ waitState = [w \in Waits |-> "idle"]
    /\ scope = [a \in Agents |-> "live"]
    /\ cleanups = {}
    /\ draining = [a \in Agents |-> {}]
    /\ service = "live"
    /\ leaving = {}
    /\ notices = [j \in Ids |-> 0]
    /\ told = {}

-----------------------------------------------------------------------------
(* Starting.                                                               *)

\* Slip: A scope that drains may still own jobs.
MayOwnLate(a) == scope[a] # "gone"

\* ensureOwnerCleanup: the owner must be registered, and a scope that unloads
\* takes no new effect.
MayOwn(a) ==
    \/ scope[a] = "live"
    \/ scope[a] = "unloading" /\ a \in cleanups

\* Slip: A job asked to stop no longer holds its place.
RunningOnly(a) == {j \in store : owner[j] = a /\ status[j] = "running"}

Active(a) == {j \in store : owner[j] = a /\ status[j] \in {"running", "stopping"}}

\* Admission counts authoritative records, not a counter of its own.
HasRoom(a) == Cardinality(Active(a)) < MaxConcurrentJobsPerOwner

Start(j, a) ==
    /\ service = "live"
    /\ status[j] = "none"
    /\ MayOwn(a)
    /\ cleanups' = cleanups \cup {a}
    /\ HasRoom(a)
    /\ store' = store \cup {j}
    /\ owner' = [owner EXCEPT ![j] = a]
    /\ status' = [status EXCEPT ![j] = "running"]
    /\ producer' = [producer EXCEPT ![j] = "working"]
    /\ UNCHANGED <<reported, asked, orphans, waitVars, scope, draining, service,
                   leaving, notices, told>>

\* The bucket is full or the starter throws: only the cleanup was attached.
StartFails(a) ==
    /\ service = "live"
    /\ MayOwn(a)
    /\ cleanups' = cleanups \cup {a}
    /\ UNCHANGED <<recordVars, producerVars, waitVars, scope, draining, service,
                   leaving, notices, told>>

-----------------------------------------------------------------------------
(* Settling.                                                               *)

\* The work ends and `done` settles; its reaction has not run yet.
Finish(j) ==
    /\ producer[j] = "working"
    /\ \E outcome \in Outcomes : producer' = [producer EXCEPT ![j] = outcome]
    /\ UNCHANGED <<recordVars, asked, orphans, waitVars, lifeVars, notices, told>>

\* The waits that settling the jobs of S releases.
Release(S) ==
    waitState' = [w \in Waits |->
        IF waitState[w] = "waiting" /\ waitJob[w] \in S THEN "released" ELSE waitState[w]]

\* A completion reporter is told unless the record is reported, and not at all
\* once the listeners are closed.
Notify(j) ==
    notices' = IF service = "live" /\ j \notin reported'
               THEN [notices EXCEPT ![j] = @ + 1] ELSE notices

\* Slip: Settlement does not ask whether anybody waits.
SettleUnasked(j, outcome) ==
    IF Terminal(j)
    THEN UNCHANGED <<status, reported, waitState, notices>>
    ELSE /\ status' = [status EXCEPT ![j] = outcome]
         /\ reported' = reported
         /\ Release({j})
         /\ Notify(j)

\* settle: the first terminal outcome is recorded, waiters released, and the
\* end announced.
Settle(j, outcome) ==
    IF Terminal(j)
    THEN UNCHANGED <<status, reported, waitState, notices>>
    ELSE /\ status' = [status EXCEPT ![j] = outcome]
         /\ reported' = IF Waiters(j) # {} THEN reported \cup {j} ELSE reported
         /\ Release({j})
         /\ Notify(j)

\* The reaction on `done`.
Settles(j) ==
    /\ producer[j] \in Outcomes
    /\ Settle(j, producer[j])
    /\ producer' = [producer EXCEPT ![j] = "over"]
    /\ UNCHANGED <<store, owner, asked, orphans, waitJob, lifeVars, told>>

-----------------------------------------------------------------------------
(* Callers.                                                                *)

\* read() or kill() of a record that ended.
Collect(j) ==
    /\ j \in store /\ Terminal(j)
    /\ reported' = reported \cup {j}
    /\ told' = told \cup {j}
    /\ UNCHANGED <<store, owner, status, producerVars, waitVars, lifeVars, notices>>

\* kill() of a live record; if the producer's cancel throws nothing changes.
Kill(j) ==
    /\ Live(j)
    /\ asked' = asked \cup {j}
    /\ status' = [status EXCEPT ![j] = "stopping"]
    /\ reported' = reported \cup {j}
    /\ told' = told \cup {j}
    /\ UNCHANGED <<store, owner, producer, orphans, waitVars, lifeVars, notices>>

\* wait() of a live record; of a terminal one it is a Collect.
Wait(w, j) ==
    /\ waitState[w] = "idle"
    /\ Live(j)
    /\ waitJob' = [waitJob EXCEPT ![w] = j]
    /\ waitState' = [waitState EXCEPT ![w] = "waiting"]
    /\ UNCHANGED <<recordVars, producerVars, lifeVars, notices, told>>

\* The deadline fires: the promise resolves, the call is counted until it
\* continues.
WaitTimesOut(w) ==
    /\ waitState[w] = "waiting"
    /\ waitState' = [waitState EXCEPT ![w] = "timedOut"]
    /\ UNCHANGED <<recordVars, producerVars, waitJob, lifeVars, notices, told>>

\* The caller aborts: the promise rejects and the call is uncounted at once.
WaitAborts(w) ==
    /\ waitState[w] = "waiting"
    /\ waitState' = [waitState EXCEPT ![w] = "rejected"]
    /\ UNCHANGED <<recordVars, producerVars, waitJob, lifeVars, notices, told>>

\* The call continues: it throws, or returns the record as it is now.
WaitReturns(w) ==
    /\ waitState[w] \in {"timedOut", "released", "rejected"}
    /\ waitState' = [waitState EXCEPT ![w] = "idle"]
    /\ LET j == waitJob[w] IN
       IF waitState[w] # "rejected" /\ Terminal(j)
       THEN reported' = reported \cup {j} /\ told' = told \cup {j}
       ELSE UNCHANGED <<reported, told>>
    /\ UNCHANGED <<store, owner, status, producerVars, waitJob, lifeVars, notices>>

-----------------------------------------------------------------------------
(* Teardown.                                                               *)

\* Slip: A cancel that throws leaves the record as it was.
CancelForTeardownLoose(S) ==
    LET live == {j \in S : ~Terminal(j)} IN
    \E thrown \in SUBSET live :
        /\ reported' = reported \cup live
        /\ asked' = asked \cup (live \ thrown)
        /\ orphans' = orphans \cup thrown
        /\ status' = [j \in Ids |-> IF j \in live \ thrown THEN "stopping" ELSE status[j]]
        /\ UNCHANGED <<store, owner, producer, waitVars, notices, told>>

\* cancelForTeardown: every live record of S is reported and cancelled.  A
\* cancel that throws fails the record on the spot and leaves the work behind.
CancelForTeardown(S) ==
    LET live == {j \in S : ~Terminal(j)} IN
    \E thrown \in SUBSET live :
        /\ reported' = reported \cup live
        /\ asked' = asked \cup (live \ thrown)
        /\ orphans' = orphans \cup thrown
        /\ status' = [j \in Ids |-> IF j \in thrown THEN "failed"
                                    ELSE IF j \in live THEN "stopping" ELSE status[j]]
        /\ Release(thrown)
        /\ UNCHANGED <<store, owner, producer, waitJob, notices, told>>

\* The scope of an owner begins to unload; its effects run a moment later.
ScopeUnloads(a) ==
    /\ scope[a] = "live"
    /\ scope' = [scope EXCEPT ![a] = "unloading"]
    /\ UNCHANGED <<recordVars, producerVars, waitVars, cleanups, draining, service,
                   leaving, notices, told>>

\* The cleanup effect: disposeOwned up to its await.
DisposeOwned(a) ==
    /\ scope[a] = "unloading"
    /\ a \in cleanups
    /\ scope' = [scope EXCEPT ![a] = "draining"]
    /\ cleanups' = cleanups \ {a}
    /\ LET owned == {j \in store : owner[j] = a} IN
       /\ draining' = [draining EXCEPT ![a] = owned]
       /\ CancelForTeardown(owned)
    /\ UNCHANGED <<service, leaving>>

\* Every record it awaited ended: the records are dropped.
OwnedDrained(a) ==
    /\ scope[a] = "draining"
    /\ \A j \in draining[a] : Terminal(j)
    /\ store' = store \ draining[a]
    /\ scope' = [scope EXCEPT ![a] = "gone"]
    /\ UNCHANGED <<owner, status, reported, producerVars, waitVars, cleanups,
                   draining, service, leaving, notices, told>>

\* The scope had no cleanup, or the service detached it.
NothingOwned(a) ==
    /\ scope[a] = "unloading"
    /\ a \notin cleanups
    /\ scope' = [scope EXCEPT ![a] = "gone"]
    /\ UNCHANGED <<recordVars, producerVars, waitVars, cleanups, draining, service,
                   leaving, notices, told>>

\* disposeAll up to its await: listeners close, everything live is cancelled.
DisposeAll ==
    /\ service = "live"
    /\ service' = "leaving"
    /\ leaving' = store
    /\ CancelForTeardown(store)
    /\ UNCHANGED <<scope, cleanups, draining>>

\* The rest of it: the store is emptied and the owners' effects are detached.
AllDrained ==
    /\ service = "leaving"
    /\ \A j \in leaving : Terminal(j)
    /\ service' = "gone"
    /\ store' = {}
    /\ cleanups' = {}
    /\ UNCHANGED <<owner, status, reported, producerVars, waitVars, scope,
                   draining, leaving, notices, told>>

-----------------------------------------------------------------------------
Next ==
    \/ \E j \in Ids, a \in Agents : Start(j, a)
    \/ \E a \in Agents : StartFails(a)
    \/ \E j \in Ids : Finish(j) \/ Settles(j) \/ Collect(j) \/ Kill(j)
    \/ \E w \in Waits : (\E j \in Ids : Wait(w, j)) \/ WaitTimesOut(w) \/ WaitAborts(w)
                        \/ WaitReturns(w)
    \/ \E a \in Agents : ScopeUnloads(a) \/ DisposeOwned(a) \/ OwnedDrained(a) \/ NothingOwned(a)
    \/ DisposeAll \/ AllDrained

Spec == Init /\ [][Next]_vars

\* Promise reactions run and timers fire.  A producer whose cancel returned
\* stops in the end: README.md calls the ones that do not a known limitation.
\* Nobody has to start, kill, abort or dispose anything.
FairSpec ==
    /\ Spec
    /\ \A j \in Ids : WF_vars(Settles(j)) /\ WF_vars(j \in asked /\ Finish(j))
    /\ \A a \in Agents : WF_vars(DisposeOwned(a) \/ OwnedDrained(a) \/ NothingOwned(a))
    /\ WF_vars(AllDrained)

-----------------------------------------------------------------------------
(* What must hold.                                                         *)

WaitStates == {"idle", "waiting", "timedOut", "released", "rejected"}
Scopes == {"live", "unloading", "draining", "gone"}

\* Every variable stays in its range, a record has an owner and a call a job.
TypeOK ==
    /\ store \in SUBSET Ids /\ reported \in SUBSET Ids /\ leaving \in SUBSET Ids
    /\ asked \in SUBSET Ids /\ orphans \in SUBSET Ids /\ told \in SUBSET Ids
    /\ owner \in [Ids -> Agents \cup {NoAgent}]
    /\ status \in [Ids -> {"none", "running", "stopping"} \cup Outcomes]
    /\ producer \in [Ids -> {"none", "working", "over"} \cup Outcomes]
    /\ waitJob \in [Waits -> Ids \cup {NoJob}]
    /\ waitState \in [Waits -> WaitStates]
    /\ scope \in [Agents -> Scopes]
    /\ cleanups \in SUBSET Agents
    /\ draining \in [Agents -> SUBSET Ids]
    /\ service \in {"live", "leaving", "gone"}
    /\ notices \in [Ids -> Nat]
    /\ \A j \in Ids : status[j] # "none" \/ producer[j] # "none" \/ j \in store =>
                           owner[j] \in Agents
    /\ \A w \in Waits : waitState[w] # "idle" => waitJob[w] \in Ids

\* The end of a job is never swallowed: while its owner and the registry last,
\* either a notice was sent, or a caller was told, or a wait() that will return
\* the terminal record is about to continue.  An abort that races the end in
\* the same tick must not count as a reader (jobs-local index.ts:239, :251).
NoSwallowedEnd ==
    \A j \in Ids :
        Terminal(j) /\ service = "live" /\ scope[owner[j]] \in {"live", "unloading"} =>
            \/ notices[j] > 0
            \/ j \in told
            \/ \E w \in Waits : waitJob[w] = j /\ waitState[w] \in {"timedOut", "released"}

\* Nor told twice over: a job has one end and one word of it.  A late `done`
\* never replaces a forced failure, no kill or teardown reopens what ended, and a
\* notice is the first and only word: no caller told, none waiting, and an owner
\* that is not being drained.
OneVoice ==
    [][\A j \in Ids :
           /\ Terminal(j) => status'[j] = status[j]
           /\ notices'[j] # notices[j] =>
                  /\ notices[j] = 0
                  /\ j \notin told
                  /\ Waiters(j) = {}
                  /\ scope[owner[j]] \in {"live", "unloading"}
                  /\ service = "live"]_vars

\* Admission limits work, not words: a job asked to stop still holds its place,
\* so an owner never has more producers at work than the limit, apart from
\* those a throwing cancel left behind.
CapacityHeld ==
    \A a \in Agents :
        Cardinality({j \in Ids : owner[j] = a /\ producer[j] = "working" /\ j \notin orphans})
            <= MaxConcurrentJobsPerOwner

\* Work is always tended: behind a running producer there is a live record, and
\* a teardown that will reach it or has reached it and waits for it.  So no job
\* survives its owner or the service, in whatever order they are disposed.
NoUntendedWork ==
    \A j \in Ids :
        producer[j] = "working" /\ j \notin orphans =>
            /\ Live(j)
            /\ owner[j] \in cleanups \/ j \in draining[owner[j]]
            /\ scope[owner[j]] # "gone" /\ service # "gone"
            /\ service = "leaving" => j \in leaving

\* No disposal stays under way if asked producers stop, even when a cancel throws.
DrainEnds ==
    /\ \A a \in Agents : []<>(scope[a] \notin {"unloading", "draining"})
    /\ []<>(service # "leaving")

===============================================================================
