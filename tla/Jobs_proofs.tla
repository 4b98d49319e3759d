----------------------------- MODULE Jobs_proofs ------------------------------
(***************************************************************************)
(* Proofs about the job registry, for any finite set of jobs, any owners,  *)
(* waits and limit: type correctness, that work is always tended, that the *)
(* end of a job is told exactly once, that the first outcome wins, and     *)
(* that admission bounds the work of an owner.                             *)
(***************************************************************************)
EXTENDS Jobs, FiniteSetTheorems, TLAPS

-----------------------------------------------------------------------------
(* The inductive invariant.                                                *)

Kept(a) == scope[a] \in {"live", "unloading"}
Begun(j) == status[j] \in {"running", "stopping"}

\* A job that began and has not ended is on record; nothing was said of it
\* unless a caller was told.
RecordShape ==
    \A j \in Ids :
        /\ status[j] = "none" <=> producer[j] = "none"
        /\ j \in store => status[j] # "none"
        /\ Begun(j) => j \in store
        /\ j \in reported => status[j] # "none"
        /\ j \in told => j \in reported
        /\ ~Terminal(j) => notices[j] = 0

\* A cleanup is attached only before it runs, and drains only once it ran.
ScopeShape ==
    \A a \in Agents :
        /\ a \in cleanups => Kept(a)
        /\ Kept(a) => draining[a] = {}

\* Whatever ends a job lets its waits go: none is left to its timer.
NoneLeftWaiting == \A w \in Waits : waitState[w] = "waiting" => ~Terminal(waitJob[w])

\* No record is made once the service leaves.
ServiceShape == service = "leaving" => store \subseteq leaving

\* A live job is reported for one of two reasons: a caller asked it to stop,
\* or a teardown did, which speaks for every job it reaches.
ReportShape ==
    \A j \in Ids :
        Begun(j) =>
            /\ j \in reported => j \in told \/ service # "live" \/ ~Kept(owner[j])
            /\ ~Kept(owner[j]) => j \in reported

\* A cleanup of the owner will reach every live job, or has and waits for it.
Tended == \A j \in Ids : Begun(j) => owner[j] \in cleanups \/ j \in draining[owner[j]]

\* The records admission counts never exceed the limit.
ActiveBounded == \A a \in Agents : Cardinality(Active(a)) <= MaxConcurrentJobsPerOwner

IInv == /\ TypeOK /\ RecordShape /\ ScopeShape /\ ServiceShape /\ ReportShape /\ Tended
        /\ NoUntendedWork /\ NoneLeftWaiting /\ NoSwallowedEnd /\ ActiveBounded

-----------------------------------------------------------------------------
(* Every step preserves each part of it.                                   *)

\* Every step keeps the ranges.
LEMMA TypeStep == ASSUME TypeOK, [Next]_vars PROVE TypeOK'
<1> USE DEF TypeOK, Outcomes, WaitStates, Scopes
<1>1. ASSUME NEW j \in Ids, NEW a \in Agents, Start(j, a) PROVE TypeOK'
  BY <1>1 DEF Start, MayOwn, lifeVars, waitVars
<1>2. ASSUME NEW a \in Agents, StartFails(a) PROVE TypeOK'
  BY <1>2 DEF StartFails, MayOwn, recordVars, producerVars, waitVars
<1>3. ASSUME NEW j \in Ids, Finish(j) PROVE TypeOK'
  BY <1>3 DEF Finish, recordVars, waitVars, lifeVars
<1>4. ASSUME NEW j \in Ids, Settles(j) PROVE TypeOK'
  <2>1. CASE Terminal(j)
    BY <1>4, <2>1 DEF Settles, Settle, lifeVars
  <2>2. CASE ~Terminal(j)
    <3>1. waitState' \in [Waits -> WaitStates]
      BY <1>4, <2>2 DEF Settles, Settle, Release
    <3>2. notices' \in [Ids -> Nat]
      BY <1>4, <2>2 DEF Settles, Settle, Notify
    <3> QED
      <4>1. /\ status' \in [Ids -> {"none", "running", "stopping"} \cup Outcomes]
            /\ \A k \in Ids : status'[k] # "none" => status[k] # "none" \/ k = j
            /\ producer' \in [Ids -> {"none", "working", "over"} \cup Outcomes]
        BY <1>4, <2>2 DEF Settles, Settle
      <4>2. /\ reported' \in SUBSET Ids
            /\ \A v \in Waits : waitState'[v] # "idle" => waitState[v] # "idle"
        BY <1>4, <2>2 DEF Settles, Settle, Release
      <4>3. UNCHANGED <<store, owner, asked, orphans, waitJob, lifeVars, told>>
        BY <1>4 DEF Settles
      <4>4. owner[j] \in Agents
        BY <1>4 DEF Settles
      <4>5. \A k \in Ids : status'[k] # "none" \/ producer'[k] # "none" \/ k \in store' =>
                            owner'[k] \in Agents
        BY <1>4, <4>1, <4>3, <4>4 DEF Settles
      <4> QED
        BY <3>1, <3>2, <4>1, <4>2, <4>3, <4>5 DEF lifeVars
  <2> QED
    BY <2>1, <2>2
<1>5. ASSUME NEW j \in Ids, Collect(j) PROVE TypeOK'
  BY <1>5 DEF Collect, producerVars, waitVars, lifeVars, Terminal
<1>6. ASSUME NEW j \in Ids, Kill(j) PROVE TypeOK'
  BY <1>6 DEF Kill, Live, waitVars, lifeVars
<1>7. ASSUME NEW w \in Waits, NEW j \in Ids, Wait(w, j) PROVE TypeOK'
  BY <1>7 DEF Wait, Live, recordVars, producerVars, lifeVars
<1>8. ASSUME NEW w \in Waits, WaitTimesOut(w) PROVE TypeOK'
  BY <1>8 DEF WaitTimesOut, recordVars, producerVars, lifeVars
<1>9. ASSUME NEW w \in Waits, WaitAborts(w) PROVE TypeOK'
  BY <1>9 DEF WaitAborts, recordVars, producerVars, lifeVars
<1>10. ASSUME NEW w \in Waits, WaitReturns(w) PROVE TypeOK'
  <2>1. waitState' \in [Waits -> WaitStates]
    BY <1>10 DEF WaitReturns
  <2>2. reported' \in SUBSET Ids /\ told' \in SUBSET Ids
    <3> DEFINE j == waitJob[w]
    <3>1. CASE waitState[w] # "rejected" /\ Terminal(j)
      BY <1>10, <3>1 DEF WaitReturns, Terminal
    <3>2. CASE ~(waitState[w] # "rejected" /\ Terminal(j))
      BY <1>10, <3>2 DEF WaitReturns
    <3> QED
      BY <3>1, <3>2
  <2> QED
    BY <1>10, <2>1, <2>2 DEF WaitReturns, producerVars, lifeVars
<1>11. ASSUME NEW a \in Agents, ScopeUnloads(a) PROVE TypeOK'
  BY <1>11 DEF ScopeUnloads, recordVars, producerVars, waitVars
<1>12. ASSUME NEW a \in Agents, DisposeOwned(a) PROVE TypeOK'
  BY <1>12 DEF DisposeOwned, CancelForTeardown, Release, Terminal
<1>13. ASSUME NEW a \in Agents, OwnedDrained(a) PROVE TypeOK'
  BY <1>13 DEF OwnedDrained, producerVars, waitVars, Terminal
<1>14. ASSUME NEW a \in Agents, NothingOwned(a) PROVE TypeOK'
  BY <1>14 DEF NothingOwned, recordVars, producerVars, waitVars
<1>15. CASE DisposeAll
  <2>1. waitState' \in [Waits -> WaitStates]
    BY <1>15 DEF DisposeAll, CancelForTeardown, Release
  <2>2. /\ status' \in [Ids -> {"none", "running", "stopping"} \cup Outcomes]
        /\ \A j \in Ids : status'[j] # "none" => status[j] # "none" \/ j \in store
    BY <1>15 DEF DisposeAll, CancelForTeardown
  <2>3. /\ reported' \in SUBSET Ids /\ asked' \in SUBSET Ids /\ orphans' \in SUBSET Ids
        /\ \A v \in Waits : waitState'[v] # "idle" => waitState[v] # "idle"
    BY <1>15 DEF DisposeAll, CancelForTeardown, Release
  <2>4. /\ UNCHANGED <<store, owner, producer, waitJob, notices, told, scope, cleanups,
                        draining>>
        /\ leaving' = store /\ service' = "leaving"
    BY <1>15 DEF DisposeAll, CancelForTeardown
  <2> QED
    BY <2>1, <2>2, <2>3, <2>4
<1>16. CASE AllDrained
  BY <1>16 DEF AllDrained, producerVars, waitVars, Terminal
<1>17. CASE UNCHANGED vars
  BY <1>17 DEF vars, recordVars, producerVars, waitVars, lifeVars
<1> QED
  BY <1>1, <1>2, <1>3, <1>4, <1>5, <1>6, <1>7, <1>8, <1>9, <1>10, <1>11, <1>12, <1>13,
       <1>14, <1>15, <1>16, <1>17 DEF Next

\* A job that began stays on record until it ends, and is silent until then.
LEMMA RecordStep ==
    ASSUME TypeOK, RecordShape, ServiceShape, [Next]_vars
    PROVE  RecordShape'
<1> USE DEF TypeOK, RecordShape, ServiceShape, Outcomes, Begun, Terminal, Live
<1>1. ASSUME NEW j \in Ids, NEW a \in Agents, Start(j, a) PROVE RecordShape'
  BY <1>1 DEF Start, MayOwn, lifeVars, waitVars
<1>2. ASSUME NEW a \in Agents, StartFails(a) PROVE RecordShape'
  BY <1>2 DEF StartFails, MayOwn, recordVars, producerVars, waitVars
<1>3. ASSUME NEW j \in Ids, Finish(j) PROVE RecordShape'
  BY <1>3 DEF Finish, recordVars, waitVars, lifeVars
<1>4. ASSUME NEW j \in Ids, Settles(j) PROVE RecordShape'
  BY <1>4 DEF Settles, Settle, Release, Notify, lifeVars, Waiters, Waiting
<1>5. ASSUME NEW j \in Ids, Collect(j) PROVE RecordShape'
  BY <1>5 DEF Collect, producerVars, waitVars, lifeVars
<1>6. ASSUME NEW j \in Ids, Kill(j) PROVE RecordShape'
  BY <1>6 DEF Kill, waitVars, lifeVars
<1>7. ASSUME NEW w \in Waits, NEW j \in Ids, Wait(w, j) PROVE RecordShape'
  BY <1>7 DEF Wait, recordVars, producerVars, lifeVars
<1>8. ASSUME NEW w \in Waits, WaitTimesOut(w) PROVE RecordShape'
  BY <1>8 DEF WaitTimesOut, recordVars, producerVars, lifeVars
<1>9. ASSUME NEW w \in Waits, WaitAborts(w) PROVE RecordShape'
  BY <1>9 DEF WaitAborts, recordVars, producerVars, lifeVars
<1>10. ASSUME NEW w \in Waits, WaitReturns(w) PROVE RecordShape'
  BY <1>10 DEF WaitReturns, producerVars, lifeVars
<1>11. ASSUME NEW a \in Agents, ScopeUnloads(a) PROVE RecordShape'
  BY <1>11 DEF ScopeUnloads, recordVars, producerVars, waitVars
<1>12. ASSUME NEW a \in Agents, DisposeOwned(a) PROVE RecordShape'
  BY <1>12 DEF DisposeOwned, CancelForTeardown, Release
<1>13. ASSUME NEW a \in Agents, OwnedDrained(a) PROVE RecordShape'
  BY <1>13 DEF OwnedDrained, producerVars, waitVars
<1>14. ASSUME NEW a \in Agents, NothingOwned(a) PROVE RecordShape'
  BY <1>14 DEF NothingOwned, recordVars, producerVars, waitVars
<1>15. CASE DisposeAll
  BY <1>15 DEF DisposeAll, CancelForTeardown, Release
<1>16. CASE AllDrained
  BY <1>16 DEF AllDrained, producerVars, waitVars
<1>17. CASE UNCHANGED vars
  BY <1>17 DEF vars, recordVars, producerVars, waitVars, lifeVars
<1> QED
  BY <1>1, <1>2, <1>3, <1>4, <1>5, <1>6, <1>7, <1>8, <1>9, <1>10, <1>11, <1>12, <1>13,
       <1>14, <1>15, <1>16, <1>17 DEF Next

\* A cleanup is detached before its scope drains.
LEMMA ScopeStep == ASSUME TypeOK, ScopeShape, [Next]_vars PROVE ScopeShape'
<1> USE DEF TypeOK, ScopeShape, Kept, Scopes
<1>1. ASSUME NEW j \in Ids, NEW a \in Agents, Start(j, a) PROVE ScopeShape'
  BY <1>1 DEF Start, MayOwn, lifeVars, waitVars
<1>2. ASSUME NEW a \in Agents, StartFails(a) PROVE ScopeShape'
  BY <1>2 DEF StartFails, MayOwn, recordVars, producerVars, waitVars
<1>3. ASSUME NEW j \in Ids, Finish(j) PROVE ScopeShape'
  BY <1>3 DEF Finish, recordVars, waitVars, lifeVars
<1>4. ASSUME NEW j \in Ids, Settles(j) PROVE ScopeShape'
  BY <1>4 DEF Settles, Settle, Release, Notify, lifeVars, Waiters, Waiting, Terminal
<1>5. ASSUME NEW j \in Ids, Collect(j) PROVE ScopeShape'
  BY <1>5 DEF Collect, producerVars, waitVars, lifeVars, Terminal
<1>6. ASSUME NEW j \in Ids, Kill(j) PROVE ScopeShape'
  BY <1>6 DEF Kill, Live, waitVars, lifeVars
<1>7. ASSUME NEW w \in Waits, NEW j \in Ids, Wait(w, j) PROVE ScopeShape'
  BY <1>7 DEF Wait, Live, recordVars, producerVars, lifeVars
<1>8. ASSUME NEW w \in Waits, WaitTimesOut(w) PROVE ScopeShape'
  BY <1>8 DEF WaitTimesOut, recordVars, producerVars, lifeVars
<1>9. ASSUME NEW w \in Waits, WaitAborts(w) PROVE ScopeShape'
  BY <1>9 DEF WaitAborts, recordVars, producerVars, lifeVars
<1>10. ASSUME NEW w \in Waits, WaitReturns(w) PROVE ScopeShape'
  BY <1>10 DEF WaitReturns, producerVars, lifeVars, Terminal
<1>11. ASSUME NEW a \in Agents, ScopeUnloads(a) PROVE ScopeShape'
  BY <1>11 DEF ScopeUnloads, recordVars, producerVars, waitVars
<1>12. ASSUME NEW a \in Agents, DisposeOwned(a) PROVE ScopeShape'
  BY <1>12 DEF DisposeOwned, CancelForTeardown, Release, Terminal
<1>13. ASSUME NEW a \in Agents, OwnedDrained(a) PROVE ScopeShape'
  BY <1>13 DEF OwnedDrained, producerVars, waitVars, Terminal
<1>14. ASSUME NEW a \in Agents, NothingOwned(a) PROVE ScopeShape'
  BY <1>14 DEF NothingOwned, recordVars, producerVars, waitVars
<1>15. CASE DisposeAll
  BY <1>15 DEF DisposeAll, CancelForTeardown, Release, Terminal
<1>16. CASE AllDrained
  BY <1>16 DEF AllDrained, producerVars, waitVars, Terminal
<1>17. CASE UNCHANGED vars
  BY <1>17 DEF vars, recordVars, producerVars, waitVars, lifeVars
<1> QED
  BY <1>1, <1>2, <1>3, <1>4, <1>5, <1>6, <1>7, <1>8, <1>9, <1>10, <1>11, <1>12, <1>13,
       <1>14, <1>15, <1>16, <1>17 DEF Next

\* The disposal of the service misses no record.
LEMMA ServiceStep == ASSUME TypeOK, ServiceShape, [Next]_vars PROVE ServiceShape'
<1> USE DEF ServiceShape
<1>1. ASSUME NEW j \in Ids, NEW a \in Agents, Start(j, a) PROVE ServiceShape'
  BY <1>1 DEF Start, MayOwn, lifeVars, waitVars
<1>2. ASSUME NEW a \in Agents, StartFails(a) PROVE ServiceShape'
  BY <1>2 DEF StartFails, MayOwn, recordVars, producerVars, waitVars
<1>3. ASSUME NEW j \in Ids, Finish(j) PROVE ServiceShape'
  BY <1>3 DEF Finish, recordVars, waitVars, lifeVars
<1>4. ASSUME NEW j \in Ids, Settles(j) PROVE ServiceShape'
  BY <1>4 DEF Settles, Settle, Release, Notify, lifeVars, Waiters, Waiting, Terminal
<1>5. ASSUME NEW j \in Ids, Collect(j) PROVE ServiceShape'
  BY <1>5 DEF Collect, producerVars, waitVars, lifeVars, Terminal
<1>6. ASSUME NEW j \in Ids, Kill(j) PROVE ServiceShape'
  BY <1>6 DEF Kill, Live, waitVars, lifeVars
<1>7. ASSUME NEW w \in Waits, NEW j \in Ids, Wait(w, j) PROVE ServiceShape'
  BY <1>7 DEF Wait, Live, recordVars, producerVars, lifeVars
<1>8. ASSUME NEW w \in Waits, WaitTimesOut(w) PROVE ServiceShape'
  BY <1>8 DEF WaitTimesOut, recordVars, producerVars, lifeVars
<1>9. ASSUME NEW w \in Waits, WaitAborts(w) PROVE ServiceShape'
  BY <1>9 DEF WaitAborts, recordVars, producerVars, lifeVars
<1>10. ASSUME NEW w \in Waits, WaitReturns(w) PROVE ServiceShape'
  BY <1>10 DEF WaitReturns, producerVars, lifeVars, Terminal
<1>11. ASSUME NEW a \in Agents, ScopeUnloads(a) PROVE ServiceShape'
  BY <1>11 DEF ScopeUnloads, recordVars, producerVars, waitVars
<1>12. ASSUME NEW a \in Agents, DisposeOwned(a) PROVE ServiceShape'
  BY <1>12 DEF DisposeOwned, CancelForTeardown, Release, Terminal
<1>13. ASSUME NEW a \in Agents, OwnedDrained(a) PROVE ServiceShape'
  BY <1>13 DEF OwnedDrained, producerVars, waitVars, Terminal
<1>14. ASSUME NEW a \in Agents, NothingOwned(a) PROVE ServiceShape'
  BY <1>14 DEF NothingOwned, recordVars, producerVars, waitVars
<1>15. CASE DisposeAll
  BY <1>15 DEF DisposeAll, CancelForTeardown, Release, Terminal
<1>16. CASE AllDrained
  BY <1>16 DEF AllDrained, producerVars, waitVars, Terminal
<1>17. CASE UNCHANGED vars
  BY <1>17 DEF vars, recordVars, producerVars, waitVars, lifeVars
<1> QED
  BY <1>1, <1>2, <1>3, <1>4, <1>5, <1>6, <1>7, <1>8, <1>9, <1>10, <1>11, <1>12, <1>13,
       <1>14, <1>15, <1>16, <1>17 DEF Next

\* Every live job keeps a cleanup that will reach it or waits for it.
LEMMA TendedStep ==
    ASSUME TypeOK, RecordShape, ScopeShape, ServiceShape, Tended, [Next]_vars
    PROVE  Tended'
<1> USE DEF TypeOK, RecordShape, ScopeShape, ServiceShape, Tended, Outcomes, Begun, Kept,
           Terminal, Live, Scopes
<1>1. ASSUME NEW j \in Ids, NEW a \in Agents, Start(j, a) PROVE Tended'
  BY <1>1 DEF Start, MayOwn, lifeVars, waitVars
<1>2. ASSUME NEW a \in Agents, StartFails(a) PROVE Tended'
  BY <1>2 DEF StartFails, MayOwn, recordVars, producerVars, waitVars
<1>3. ASSUME NEW j \in Ids, Finish(j) PROVE Tended'
  BY <1>3 DEF Finish, recordVars, waitVars, lifeVars
<1>4. ASSUME NEW j \in Ids, Settles(j) PROVE Tended'
  BY <1>4 DEF Settles, Settle, Release, Notify, lifeVars, Waiters, Waiting
<1>5. ASSUME NEW j \in Ids, Collect(j) PROVE Tended'
  BY <1>5 DEF Collect, producerVars, waitVars, lifeVars
<1>6. ASSUME NEW j \in Ids, Kill(j) PROVE Tended'
  BY <1>6 DEF Kill, waitVars, lifeVars
<1>7. ASSUME NEW w \in Waits, NEW j \in Ids, Wait(w, j) PROVE Tended'
  BY <1>7 DEF Wait, recordVars, producerVars, lifeVars
<1>8. ASSUME NEW w \in Waits, WaitTimesOut(w) PROVE Tended'
  BY <1>8 DEF WaitTimesOut, recordVars, producerVars, lifeVars
<1>9. ASSUME NEW w \in Waits, WaitAborts(w) PROVE Tended'
  BY <1>9 DEF WaitAborts, recordVars, producerVars, lifeVars
<1>10. ASSUME NEW w \in Waits, WaitReturns(w) PROVE Tended'
  BY <1>10 DEF WaitReturns, producerVars, lifeVars
<1>11. ASSUME NEW a \in Agents, ScopeUnloads(a) PROVE Tended'
  BY <1>11 DEF ScopeUnloads, recordVars, producerVars, waitVars
<1>12. ASSUME NEW a \in Agents, DisposeOwned(a) PROVE Tended'
  BY <1>12 DEF DisposeOwned, CancelForTeardown, Release
<1>13. ASSUME NEW a \in Agents, OwnedDrained(a) PROVE Tended'
  BY <1>13 DEF OwnedDrained, producerVars, waitVars
<1>14. ASSUME NEW a \in Agents, NothingOwned(a) PROVE Tended'
  BY <1>14 DEF NothingOwned, recordVars, producerVars, waitVars
<1>15. CASE DisposeAll
  BY <1>15 DEF DisposeAll, CancelForTeardown, Release
<1>16. CASE AllDrained
  BY <1>16 DEF AllDrained, producerVars, waitVars
<1>17. CASE UNCHANGED vars
  BY <1>17 DEF vars, recordVars, producerVars, waitVars, lifeVars
<1> QED
  BY <1>1, <1>2, <1>3, <1>4, <1>5, <1>6, <1>7, <1>8, <1>9, <1>10, <1>11, <1>12, <1>13,
       <1>14, <1>15, <1>16, <1>17 DEF Next

\* A live job is reported by a caller's kill or a teardown, by nothing else.
LEMMA ReportStep ==
    ASSUME TypeOK, RecordShape, ScopeShape, Tended, ReportShape, [Next]_vars
    PROVE  ReportShape'
<1> USE DEF TypeOK, RecordShape, ScopeShape, Tended, ReportShape, Outcomes, Begun, Kept,
           Terminal, Live, Scopes
<1>1. ASSUME NEW j \in Ids, NEW a \in Agents, Start(j, a) PROVE ReportShape'
  BY <1>1 DEF Start, MayOwn, lifeVars, waitVars
<1>2. ASSUME NEW a \in Agents, StartFails(a) PROVE ReportShape'
  BY <1>2 DEF StartFails, MayOwn, recordVars, producerVars, waitVars
<1>3. ASSUME NEW j \in Ids, Finish(j) PROVE ReportShape'
  BY <1>3 DEF Finish, recordVars, waitVars, lifeVars
<1>4. ASSUME NEW j \in Ids, Settles(j) PROVE ReportShape'
  BY <1>4 DEF Settles, Settle, Release, Notify, lifeVars, Waiters, Waiting
<1>5. ASSUME NEW j \in Ids, Collect(j) PROVE ReportShape'
  BY <1>5 DEF Collect, producerVars, waitVars, lifeVars
<1>6. ASSUME NEW j \in Ids, Kill(j) PROVE ReportShape'
  BY <1>6 DEF Kill, waitVars, lifeVars
<1>7. ASSUME NEW w \in Waits, NEW j \in Ids, Wait(w, j) PROVE ReportShape'
  BY <1>7 DEF Wait, recordVars, producerVars, lifeVars
<1>8. ASSUME NEW w \in Waits, WaitTimesOut(w) PROVE ReportShape'
  BY <1>8 DEF WaitTimesOut, recordVars, producerVars, lifeVars
<1>9. ASSUME NEW w \in Waits, WaitAborts(w) PROVE ReportShape'
  BY <1>9 DEF WaitAborts, recordVars, producerVars, lifeVars
<1>10. ASSUME NEW w \in Waits, WaitReturns(w) PROVE ReportShape'
  BY <1>10 DEF WaitReturns, producerVars, lifeVars
<1>11. ASSUME NEW a \in Agents, ScopeUnloads(a) PROVE ReportShape'
  BY <1>11 DEF ScopeUnloads, recordVars, producerVars, waitVars
<1>12. ASSUME NEW a \in Agents, DisposeOwned(a) PROVE ReportShape'
  BY <1>12 DEF DisposeOwned, CancelForTeardown, Release
<1>13. ASSUME NEW a \in Agents, OwnedDrained(a) PROVE ReportShape'
  BY <1>13 DEF OwnedDrained, producerVars, waitVars
<1>14. ASSUME NEW a \in Agents, NothingOwned(a) PROVE ReportShape'
  BY <1>14 DEF NothingOwned, recordVars, producerVars, waitVars
<1>15. CASE DisposeAll
  BY <1>15 DEF DisposeAll, CancelForTeardown, Release
<1>16. CASE AllDrained
  BY <1>16 DEF AllDrained, producerVars, waitVars
<1>17. CASE UNCHANGED vars
  BY <1>17 DEF vars, recordVars, producerVars, waitVars, lifeVars
<1> QED
  BY <1>1, <1>2, <1>3, <1>4, <1>5, <1>6, <1>7, <1>8, <1>9, <1>10, <1>11, <1>12, <1>13,
       <1>14, <1>15, <1>16, <1>17 DEF Next

\* Running work keeps its live record and its teardown.
LEMMA WorkStep ==
    ASSUME TypeOK, RecordShape, ScopeShape, ServiceShape, NoUntendedWork, [Next]_vars
    PROVE  NoUntendedWork'
<1> USE DEF TypeOK, RecordShape, ScopeShape, ServiceShape, NoUntendedWork, Outcomes, Begun,
           Kept, Terminal, Live, Scopes
<1>1. ASSUME NEW j \in Ids, NEW a \in Agents, Start(j, a) PROVE NoUntendedWork'
  BY <1>1 DEF Start, MayOwn, lifeVars, waitVars
<1>2. ASSUME NEW a \in Agents, StartFails(a) PROVE NoUntendedWork'
  BY <1>2 DEF StartFails, MayOwn, recordVars, producerVars, waitVars
<1>3. ASSUME NEW j \in Ids, Finish(j) PROVE NoUntendedWork'
  BY <1>3 DEF Finish, recordVars, waitVars, lifeVars
<1>4. ASSUME NEW j \in Ids, Settles(j) PROVE NoUntendedWork'
  BY <1>4 DEF Settles, Settle, Release, Notify, lifeVars, Waiters, Waiting
<1>5. ASSUME NEW j \in Ids, Collect(j) PROVE NoUntendedWork'
  BY <1>5 DEF Collect, producerVars, waitVars, lifeVars
<1>6. ASSUME NEW j \in Ids, Kill(j) PROVE NoUntendedWork'
  BY <1>6 DEF Kill, waitVars, lifeVars
<1>7. ASSUME NEW w \in Waits, NEW j \in Ids, Wait(w, j) PROVE NoUntendedWork'
  BY <1>7 DEF Wait, recordVars, producerVars, lifeVars
<1>8. ASSUME NEW w \in Waits, WaitTimesOut(w) PROVE NoUntendedWork'
  BY <1>8 DEF WaitTimesOut, recordVars, producerVars, lifeVars
<1>9. ASSUME NEW w \in Waits, WaitAborts(w) PROVE NoUntendedWork'
  BY <1>9 DEF WaitAborts, recordVars, producerVars, lifeVars
<1>10. ASSUME NEW w \in Waits, WaitReturns(w) PROVE NoUntendedWork'
  BY <1>10 DEF WaitReturns, producerVars, lifeVars
<1>11. ASSUME NEW a \in Agents, ScopeUnloads(a) PROVE NoUntendedWork'
  BY <1>11 DEF ScopeUnloads, recordVars, producerVars, waitVars
<1>12. ASSUME NEW a \in Agents, DisposeOwned(a) PROVE NoUntendedWork'
  BY <1>12 DEF DisposeOwned, CancelForTeardown, Release
<1>13. ASSUME NEW a \in Agents, OwnedDrained(a) PROVE NoUntendedWork'
  BY <1>13 DEF OwnedDrained, producerVars, waitVars
<1>14. ASSUME NEW a \in Agents, NothingOwned(a) PROVE NoUntendedWork'
  BY <1>14 DEF NothingOwned, recordVars, producerVars, waitVars
<1>15. CASE DisposeAll
  BY <1>15 DEF DisposeAll, CancelForTeardown, Release
<1>16. CASE AllDrained
  BY <1>16 DEF AllDrained, producerVars, waitVars
<1>17. CASE UNCHANGED vars
  BY <1>17 DEF vars, recordVars, producerVars, waitVars, lifeVars
<1> QED
  BY <1>1, <1>2, <1>3, <1>4, <1>5, <1>6, <1>7, <1>8, <1>9, <1>10, <1>11, <1>12, <1>13,
       <1>14, <1>15, <1>16, <1>17 DEF Next

\* A teardown that fails records lets their waits go.
LEMMA TeardownReleases ==
    ASSUME TypeOK, NoneLeftWaiting, NEW S \in SUBSET Ids, CancelForTeardown(S)
    PROVE  NoneLeftWaiting'
<1> USE DEF TypeOK, NoneLeftWaiting, Outcomes, Terminal
<1> DEFINE live == {j \in S : ~(status[j] \in Outcomes)}
<1>1. PICK thrown \in SUBSET live :
          /\ status' = [j \in Ids |-> IF j \in thrown THEN "failed"
                                      ELSE IF j \in live THEN "stopping" ELSE status[j]]
          /\ Release(thrown)
          /\ waitJob' = waitJob
  BY DEF CancelForTeardown
<1>2. ASSUME NEW v \in Waits, waitState'[v] = "waiting"
      PROVE  status'[waitJob'[v]] \notin Outcomes
  <2>1. waitState[v] = "waiting" /\ waitJob[v] \notin thrown
    BY <1>1, <1>2 DEF Release
  <2>2. waitJob[v] \in Ids /\ status[waitJob[v]] \notin Outcomes
    BY <2>1
  <2> QED
    BY <1>1, <2>1, <2>2
<1> QED
  BY <1>2

\* A job that ends, by its producer or by force, releases its waits.
LEMMA WaitStep == ASSUME TypeOK, NoneLeftWaiting, [Next]_vars PROVE NoneLeftWaiting'
<1> USE DEF TypeOK, NoneLeftWaiting, Outcomes, Terminal, Live
<1>1. ASSUME NEW j \in Ids, NEW a \in Agents, Start(j, a) PROVE NoneLeftWaiting'
  BY <1>1 DEF Start, MayOwn, lifeVars, waitVars
<1>2. ASSUME NEW a \in Agents, StartFails(a) PROVE NoneLeftWaiting'
  BY <1>2 DEF StartFails, MayOwn, recordVars, producerVars, waitVars
<1>3. ASSUME NEW j \in Ids, Finish(j) PROVE NoneLeftWaiting'
  BY <1>3 DEF Finish, recordVars, waitVars, lifeVars
<1>4. ASSUME NEW j \in Ids, Settles(j) PROVE NoneLeftWaiting'
  <2>1. CASE Terminal(j)
    BY <1>4, <2>1 DEF Settles, Settle
  <2>2. CASE ~Terminal(j)
    <3>1. waitState' = [v \in Waits |->
              IF waitState[v] = "waiting" /\ waitJob[v] = j THEN "released" ELSE waitState[v]]
      BY <1>4, <2>2 DEF Settles, Settle, Release
    <3>2. status' = [status EXCEPT ![j] = producer[j]] /\ waitJob' = waitJob
      BY <1>4, <2>2 DEF Settles, Settle
    <3> QED
      BY <3>1, <3>2
  <2> QED
    BY <2>1, <2>2
<1>5. ASSUME NEW j \in Ids, Collect(j) PROVE NoneLeftWaiting'
  BY <1>5 DEF Collect, producerVars, waitVars, lifeVars
<1>6. ASSUME NEW j \in Ids, Kill(j) PROVE NoneLeftWaiting'
  BY <1>6 DEF Kill, waitVars, lifeVars
<1>7. ASSUME NEW w \in Waits, NEW j \in Ids, Wait(w, j) PROVE NoneLeftWaiting'
  BY <1>7 DEF Wait, recordVars, producerVars, lifeVars
<1>8. ASSUME NEW w \in Waits, WaitTimesOut(w) PROVE NoneLeftWaiting'
  BY <1>8 DEF WaitTimesOut, recordVars, producerVars, lifeVars
<1>9. ASSUME NEW w \in Waits, WaitAborts(w) PROVE NoneLeftWaiting'
  BY <1>9 DEF WaitAborts, recordVars, producerVars, lifeVars
<1>10. ASSUME NEW w \in Waits, WaitReturns(w) PROVE NoneLeftWaiting'
  BY <1>10 DEF WaitReturns, producerVars, lifeVars
<1>11. ASSUME NEW a \in Agents, ScopeUnloads(a) PROVE NoneLeftWaiting'
  BY <1>11 DEF ScopeUnloads, recordVars, producerVars, waitVars
<1>12. ASSUME NEW a \in Agents, DisposeOwned(a) PROVE NoneLeftWaiting'
  <2>1. {j \in store : owner[j] = a} \in SUBSET Ids
    OBVIOUS
  <2> QED
    BY <1>12, <2>1, TeardownReleases DEF DisposeOwned
<1>13. ASSUME NEW a \in Agents, OwnedDrained(a) PROVE NoneLeftWaiting'
  BY <1>13 DEF OwnedDrained, producerVars, waitVars
<1>14. ASSUME NEW a \in Agents, NothingOwned(a) PROVE NoneLeftWaiting'
  BY <1>14 DEF NothingOwned, recordVars, producerVars, waitVars
<1>15. CASE DisposeAll
  BY <1>15, TeardownReleases DEF DisposeAll
<1>16. CASE AllDrained
  BY <1>16 DEF AllDrained, producerVars, waitVars
<1>17. CASE UNCHANGED vars
  BY <1>17 DEF vars, recordVars, producerVars, waitVars, lifeVars
<1> QED
  BY <1>1, <1>2, <1>3, <1>4, <1>5, <1>6, <1>7, <1>8, <1>9, <1>10, <1>11, <1>12, <1>13,
       <1>14, <1>15, <1>16, <1>17 DEF Next

\* An end that no notice was sent for has a caller who knows or is about to.
LEMMA SwallowStep ==
    ASSUME TypeOK, RecordShape, ReportShape, NoneLeftWaiting, NoSwallowedEnd, [Next]_vars
    PROVE  NoSwallowedEnd'
<1> USE DEF TypeOK, RecordShape, ReportShape, NoneLeftWaiting, NoSwallowedEnd, Outcomes,
           Begun, Kept, Terminal, Live
<1>1. ASSUME NEW j \in Ids, NEW a \in Agents, Start(j, a) PROVE NoSwallowedEnd'
  BY <1>1 DEF Start, MayOwn, lifeVars, waitVars
<1>2. ASSUME NEW a \in Agents, StartFails(a) PROVE NoSwallowedEnd'
  BY <1>2 DEF StartFails, MayOwn, recordVars, producerVars, waitVars
<1>3. ASSUME NEW j \in Ids, Finish(j) PROVE NoSwallowedEnd'
  BY <1>3 DEF Finish, recordVars, waitVars, lifeVars
<1>4. ASSUME NEW j \in Ids, Settles(j) PROVE NoSwallowedEnd'
  BY <1>4 DEF Settles, Settle, Release, Notify, lifeVars, Waiters, Waiting
<1>5. ASSUME NEW j \in Ids, Collect(j) PROVE NoSwallowedEnd'
  BY <1>5 DEF Collect, producerVars, waitVars, lifeVars
<1>6. ASSUME NEW j \in Ids, Kill(j) PROVE NoSwallowedEnd'
  BY <1>6 DEF Kill, waitVars, lifeVars
<1>7. ASSUME NEW w \in Waits, NEW j \in Ids, Wait(w, j) PROVE NoSwallowedEnd'
  BY <1>7 DEF Wait, recordVars, producerVars, lifeVars
<1>8. ASSUME NEW w \in Waits, WaitTimesOut(w) PROVE NoSwallowedEnd'
  BY <1>8 DEF WaitTimesOut, recordVars, producerVars, lifeVars
<1>9. ASSUME NEW w \in Waits, WaitAborts(w) PROVE NoSwallowedEnd'
  BY <1>9 DEF WaitAborts, recordVars, producerVars, lifeVars
<1>10. ASSUME NEW w \in Waits, WaitReturns(w) PROVE NoSwallowedEnd'
  BY <1>10 DEF WaitReturns, producerVars, lifeVars
<1>11. ASSUME NEW a \in Agents, ScopeUnloads(a) PROVE NoSwallowedEnd'
  BY <1>11 DEF ScopeUnloads, recordVars, producerVars, waitVars
<1>12. ASSUME NEW a \in Agents, DisposeOwned(a) PROVE NoSwallowedEnd'
  BY <1>12 DEF DisposeOwned, CancelForTeardown, Release
<1>13. ASSUME NEW a \in Agents, OwnedDrained(a) PROVE NoSwallowedEnd'
  BY <1>13 DEF OwnedDrained, producerVars, waitVars
<1>14. ASSUME NEW a \in Agents, NothingOwned(a) PROVE NoSwallowedEnd'
  BY <1>14 DEF NothingOwned, recordVars, producerVars, waitVars
<1>15. CASE DisposeAll
  BY <1>15 DEF DisposeAll, CancelForTeardown, Release
<1>16. CASE AllDrained
  BY <1>16 DEF AllDrained, producerVars, waitVars
<1>17. CASE UNCHANGED vars
  BY <1>17 DEF vars, recordVars, producerVars, waitVars, lifeVars
<1> QED
  BY <1>1, <1>2, <1>3, <1>4, <1>5, <1>6, <1>7, <1>8, <1>9, <1>10, <1>11, <1>12, <1>13,
       <1>14, <1>15, <1>16, <1>17 DEF Next

\* Only a start adds a record to those that count.
Shrinks == \A b \in Agents : {j \in store' : owner'[j] = b /\ status'[j] \in {"running",
     "stopping"}}
                                \subseteq Active(b)

\* Any step but a start only frees places.
LEMMA ShrinkStep ==
    ASSUME TypeOK, RecordShape, [Next]_vars
    PROVE  Shrinks \/ \E j \in Ids, a \in Agents : Start(j, a)
<1> USE DEF Shrinks, Active, TypeOK, RecordShape, Outcomes, Terminal, Live, Begun
<1>2. ASSUME NEW a \in Agents, StartFails(a) PROVE Shrinks
  BY <1>2 DEF StartFails, MayOwn, recordVars, producerVars, waitVars
<1>3. ASSUME NEW j \in Ids, Finish(j) PROVE Shrinks
  BY <1>3 DEF Finish, recordVars, waitVars, lifeVars
<1>4. ASSUME NEW j \in Ids, Settles(j) PROVE Shrinks
  BY <1>4 DEF Settles, Settle, Release, Notify, lifeVars, Waiters, Waiting
<1>5. ASSUME NEW j \in Ids, Collect(j) PROVE Shrinks
  BY <1>5 DEF Collect, producerVars, waitVars, lifeVars
<1>6. ASSUME NEW j \in Ids, Kill(j) PROVE Shrinks
  BY <1>6 DEF Kill, waitVars, lifeVars
<1>7. ASSUME NEW w \in Waits, NEW j \in Ids, Wait(w, j) PROVE Shrinks
  BY <1>7 DEF Wait, recordVars, producerVars, lifeVars
<1>8. ASSUME NEW w \in Waits, WaitTimesOut(w) PROVE Shrinks
  BY <1>8 DEF WaitTimesOut, recordVars, producerVars, lifeVars
<1>9. ASSUME NEW w \in Waits, WaitAborts(w) PROVE Shrinks
  BY <1>9 DEF WaitAborts, recordVars, producerVars, lifeVars
<1>10. ASSUME NEW w \in Waits, WaitReturns(w) PROVE Shrinks
  BY <1>10 DEF WaitReturns, producerVars, lifeVars
<1>11. ASSUME NEW a \in Agents, ScopeUnloads(a) PROVE Shrinks
  BY <1>11 DEF ScopeUnloads, recordVars, producerVars, waitVars
<1>12. ASSUME NEW a \in Agents, DisposeOwned(a) PROVE Shrinks
  BY <1>12 DEF DisposeOwned, CancelForTeardown, Release
<1>13. ASSUME NEW a \in Agents, OwnedDrained(a) PROVE Shrinks
  BY <1>13 DEF OwnedDrained, producerVars, waitVars
<1>14. ASSUME NEW a \in Agents, NothingOwned(a) PROVE Shrinks
  BY <1>14 DEF NothingOwned, recordVars, producerVars, waitVars
<1>15. CASE DisposeAll
  BY <1>15 DEF DisposeAll, CancelForTeardown, Release
<1>16. CASE AllDrained
  BY <1>16 DEF AllDrained, producerVars, waitVars
<1>17. CASE UNCHANGED vars
  BY <1>17 DEF vars, recordVars, producerVars, waitVars, lifeVars
<1> QED
  BY <1>2, <1>3, <1>4, <1>5, <1>6, <1>7, <1>8, <1>9, <1>10, <1>11, <1>12, <1>13, <1>14,
       <1>15, <1>16, <1>17 DEF Next

\* No step fills a bucket past the limit.
LEMMA ActiveStep ==
    ASSUME TypeOK, RecordShape, ActiveBounded, [Next]_vars
    PROVE  ActiveBounded'
<1> USE JobsAssumption
<1>1. \A b \in Agents : Active(b) \in SUBSET Ids /\ IsFiniteSet(Active(b))
                         /\ Cardinality(Active(b)) \in Nat
  BY FS_Subset, FS_CardinalityType DEF TypeOK, Active
<1>2. CASE Shrinks
  <2> SUFFICES ASSUME NEW b \in Agents PROVE Cardinality(Active(b)') <= MaxConcurrentJobsPerOwner
    BY DEF ActiveBounded
  <2>1. Active(b)' \subseteq Active(b)
    BY <1>2 DEF Shrinks, Active
  <2>2. IsFiniteSet(Active(b)') /\ Cardinality(Active(b)') \in Nat
        /\ Cardinality(Active(b)') <= Cardinality(Active(b))
    BY <1>1, <2>1, FS_Subset, FS_CardinalityType
  <2>3. Cardinality(Active(b)) <= MaxConcurrentJobsPerOwner
    BY DEF ActiveBounded
  <2> QED
    BY <1>1, <2>2, <2>3
<1>3. ASSUME NEW j \in Ids, NEW a \in Agents, Start(j, a) PROVE ActiveBounded'
  <2> SUFFICES ASSUME NEW b \in Agents PROVE Cardinality(Active(b)') <= MaxConcurrentJobsPerOwner
    BY DEF ActiveBounded
  <2>1. CASE b # a
    <3>1. Active(b)' = Active(b)
      BY <1>3, <2>1 DEF Active, Start, TypeOK, RecordShape
    <3> QED
      BY <3>1 DEF ActiveBounded
  <2>2. CASE b = a
    <3>1. Active(a)' = Active(a) \cup {j} /\ j \notin Active(a)
      BY <1>3 DEF Active, Start, TypeOK
    <3>2. Cardinality(Active(a)') = Cardinality(Active(a)) + 1
      BY <1>1, <3>1, FS_AddElement
    <3>3. Cardinality(Active(a)) < MaxConcurrentJobsPerOwner
      BY <1>3 DEF Start, HasRoom
    <3> QED
      BY <1>1, <2>2, <3>2, <3>3
  <2> QED
    BY <2>1, <2>2
<1> QED
  BY <1>2, <1>3, ShrinkStep

\* An empty registry satisfies the invariant.
LEMMA InitIInv == Init => IInv
<1> SUFFICES ASSUME Init PROVE IInv
  OBVIOUS
<1>1. TypeOK
  BY DEF Init, TypeOK, WaitStates, Scopes
<1>2. RecordShape /\ ScopeShape /\ ServiceShape /\ ReportShape /\ Tended
  BY DEF Init, RecordShape, ScopeShape, ServiceShape, ReportShape, Tended, Begun, Kept,
       Terminal, Outcomes
<1>3. NoUntendedWork /\ NoneLeftWaiting /\ NoSwallowedEnd
  BY DEF Init, NoUntendedWork, NoneLeftWaiting, NoSwallowedEnd, Terminal, Outcomes
<1>4. ActiveBounded
  <2> SUFFICES ASSUME NEW a \in Agents PROVE Cardinality(Active(a)) <= MaxConcurrentJobsPerOwner
    BY DEF ActiveBounded
  <2>1. Active(a) = {}
    BY DEF Init, Active
  <2>2. Cardinality(Active(a)) = 0
    BY <2>1, FS_EmptySet
  <2> QED
    BY <2>2, JobsAssumption
<1> QED
  BY <1>1, <1>2, <1>3, <1>4 DEF IInv

\* Every step preserves the invariant.
LEMMA NextIInv == IInv /\ [Next]_vars => IInv'
  BY TypeStep, RecordStep, ScopeStep, ServiceStep, TendedStep, ReportStep, WorkStep, WaitStep,
     SwallowStep, ActiveStep DEF IInv

\* The inductive invariant holds throughout.
THEOREM Invariance == Spec => []IInv
<1> QED
  BY InitIInv, NextIInv, PTL DEF Spec

-----------------------------------------------------------------------------
(* The results.                                                            *)

\* Every variable keeps its range, every record its owner.
THEOREM TypeCorrect == Spec => []TypeOK
<1>1. IInv => TypeOK
  BY DEF IInv
<1> QED
  BY <1>1, Invariance, PTL

\* While owner and registry last, the end of a job reaches somebody.
THEOREM EndsAreTold == Spec => []NoSwallowedEnd
<1>1. IInv => NoSwallowedEnd
  BY DEF IInv
<1> QED
  BY <1>1, Invariance, PTL

\* No job survives its owner or the service without a teardown waiting for it.
THEOREM WorkIsTended == Spec => []NoUntendedWork
<1>1. IInv => NoUntendedWork
  BY DEF IInv
<1> QED
  BY <1>1, Invariance, PTL

\* No wait is left behind by the end of its job.
THEOREM WaitsReleased == Spec => []NoneLeftWaiting
<1>1. IInv => NoneLeftWaiting
  BY DEF IInv
<1> QED
  BY <1>1, Invariance, PTL

\* An owner's producers at work never exceed the limit, orphans apart.
THEOREM CapacityCorrect == Spec => []CapacityHeld
<1>1. IInv => CapacityHeld
  <2> SUFFICES ASSUME IInv, NEW a \in Agents
               PROVE  Cardinality({j \in Ids : owner[j] = a /\ producer[j] = "working" /\ j \notin orphans})
                          <= MaxConcurrentJobsPerOwner
    BY DEF CapacityHeld
  <2> DEFINE working == {j \in Ids : owner[j] = a /\ producer[j] = "working" /\ j \notin orphans}
  <2>1. working \subseteq Active(a) /\ Active(a) \in SUBSET Ids
    BY DEF IInv, NoUntendedWork, Live, Active, TypeOK
  <2>2. IsFiniteSet(Active(a))
    BY <2>1, JobsAssumption, FS_Subset
  <2>3. Cardinality(working) <= Cardinality(Active(a)) /\ IsFiniteSet(working)
    BY <2>1, <2>2, FS_Subset
  <2>4. Cardinality(Active(a)) <= MaxConcurrentJobsPerOwner
    BY DEF IInv, ActiveBounded
  <2>5. Cardinality(working) \in Nat /\ Cardinality(Active(a)) \in Nat
    BY <2>2, <2>3, FS_CardinalityType
  <2> QED
    BY <2>3, <2>4, <2>5, JobsAssumption
<1> QED
  BY <1>1, Invariance, PTL

\* A recorded outcome stays.
Keeps == \A j \in Ids : Terminal(j) => status'[j] = status[j]

\* No step changes a terminal status.
LEMMA KeepStep == ASSUME TypeOK, RecordShape, [Next]_vars PROVE Keeps
<1> USE DEF Keeps, TypeOK, Outcomes, Terminal, RecordShape, Live
<1>1. ASSUME NEW j \in Ids, NEW a \in Agents, Start(j, a) PROVE Keeps
  BY <1>1 DEF Start, MayOwn, lifeVars, waitVars
<1>2. ASSUME NEW a \in Agents, StartFails(a) PROVE Keeps
  BY <1>2 DEF StartFails, MayOwn, recordVars, producerVars, waitVars
<1>3. ASSUME NEW j \in Ids, Finish(j) PROVE Keeps
  BY <1>3 DEF Finish, recordVars, waitVars, lifeVars
<1>4. ASSUME NEW j \in Ids, Settles(j) PROVE Keeps
  BY <1>4 DEF Settles, Settle, Release, Notify, lifeVars, Waiters, Waiting
<1>5. ASSUME NEW j \in Ids, Collect(j) PROVE Keeps
  BY <1>5 DEF Collect, producerVars, waitVars, lifeVars
<1>6. ASSUME NEW j \in Ids, Kill(j) PROVE Keeps
  BY <1>6 DEF Kill, waitVars, lifeVars
<1>7. ASSUME NEW w \in Waits, NEW j \in Ids, Wait(w, j) PROVE Keeps
  BY <1>7 DEF Wait, recordVars, producerVars, lifeVars
<1>8. ASSUME NEW w \in Waits, WaitTimesOut(w) PROVE Keeps
  BY <1>8 DEF WaitTimesOut, recordVars, producerVars, lifeVars
<1>9. ASSUME NEW w \in Waits, WaitAborts(w) PROVE Keeps
  BY <1>9 DEF WaitAborts, recordVars, producerVars, lifeVars
<1>10. ASSUME NEW w \in Waits, WaitReturns(w) PROVE Keeps
  BY <1>10 DEF WaitReturns, producerVars, lifeVars
<1>11. ASSUME NEW a \in Agents, ScopeUnloads(a) PROVE Keeps
  BY <1>11 DEF ScopeUnloads, recordVars, producerVars, waitVars
<1>12. ASSUME NEW a \in Agents, DisposeOwned(a) PROVE Keeps
  BY <1>12 DEF DisposeOwned, CancelForTeardown, Release
<1>13. ASSUME NEW a \in Agents, OwnedDrained(a) PROVE Keeps
  BY <1>13 DEF OwnedDrained, producerVars, waitVars
<1>14. ASSUME NEW a \in Agents, NothingOwned(a) PROVE Keeps
  BY <1>14 DEF NothingOwned, recordVars, producerVars, waitVars
<1>15. CASE DisposeAll
  BY <1>15 DEF DisposeAll, CancelForTeardown, Release
<1>16. CASE AllDrained
  BY <1>16 DEF AllDrained, producerVars, waitVars
<1>17. CASE UNCHANGED vars
  BY <1>17 DEF vars, recordVars, producerVars, waitVars, lifeVars
<1> QED
  BY <1>1, <1>2, <1>3, <1>4, <1>5, <1>6, <1>7, <1>8, <1>9, <1>10, <1>11, <1>12, <1>13,
       <1>14, <1>15, <1>16, <1>17 DEF Next

\* What a notice presupposes.
Heeds == \A j \in Ids : notices'[j] # notices[j] =>
             /\ notices[j] = 0
             /\ j \notin told
             /\ Waiters(j) = {}
             /\ scope[owner[j]] \in {"live", "unloading"}
             /\ service = "live"

\* The step that sends a notice finds nobody told and nobody waiting.
LEMMA HeedStep == ASSUME TypeOK, RecordShape, ReportShape, [Next]_vars PROVE Heeds
<1> USE DEF Heeds, TypeOK, Outcomes, Terminal, RecordShape, ReportShape, Begun, Kept
<1>1. ASSUME NEW j \in Ids, NEW a \in Agents, Start(j, a) PROVE Heeds
  BY <1>1 DEF Start, MayOwn, lifeVars, waitVars
<1>2. ASSUME NEW a \in Agents, StartFails(a) PROVE Heeds
  BY <1>2 DEF StartFails, MayOwn, recordVars, producerVars, waitVars
<1>3. ASSUME NEW j \in Ids, Finish(j) PROVE Heeds
  BY <1>3 DEF Finish, recordVars, waitVars, lifeVars
<1>4. ASSUME NEW j \in Ids, Settles(j) PROVE Heeds
  BY <1>4 DEF Settles, Settle, Release, Notify, lifeVars, Waiters, Waiting
<1>5. ASSUME NEW j \in Ids, Collect(j) PROVE Heeds
  BY <1>5 DEF Collect, producerVars, waitVars, lifeVars
<1>6. ASSUME NEW j \in Ids, Kill(j) PROVE Heeds
  BY <1>6 DEF Kill, Live, waitVars, lifeVars
<1>7. ASSUME NEW w \in Waits, NEW j \in Ids, Wait(w, j) PROVE Heeds
  BY <1>7 DEF Wait, Live, recordVars, producerVars, lifeVars
<1>8. ASSUME NEW w \in Waits, WaitTimesOut(w) PROVE Heeds
  BY <1>8 DEF WaitTimesOut, recordVars, producerVars, lifeVars
<1>9. ASSUME NEW w \in Waits, WaitAborts(w) PROVE Heeds
  BY <1>9 DEF WaitAborts, recordVars, producerVars, lifeVars
<1>10. ASSUME NEW w \in Waits, WaitReturns(w) PROVE Heeds
  BY <1>10 DEF WaitReturns, producerVars, lifeVars
<1>11. ASSUME NEW a \in Agents, ScopeUnloads(a) PROVE Heeds
  BY <1>11 DEF ScopeUnloads, recordVars, producerVars, waitVars
<1>12. ASSUME NEW a \in Agents, DisposeOwned(a) PROVE Heeds
  BY <1>12 DEF DisposeOwned, CancelForTeardown, Release
<1>13. ASSUME NEW a \in Agents, OwnedDrained(a) PROVE Heeds
  BY <1>13 DEF OwnedDrained, producerVars, waitVars
<1>14. ASSUME NEW a \in Agents, NothingOwned(a) PROVE Heeds
  BY <1>14 DEF NothingOwned, recordVars, producerVars, waitVars
<1>15. CASE DisposeAll
  BY <1>15 DEF DisposeAll, CancelForTeardown, Release
<1>16. CASE AllDrained
  BY <1>16 DEF AllDrained, producerVars, waitVars
<1>17. CASE UNCHANGED vars
  BY <1>17 DEF vars, recordVars, producerVars, waitVars, lifeVars
<1> QED
  BY <1>1, <1>2, <1>3, <1>4, <1>5, <1>6, <1>7, <1>8, <1>9, <1>10, <1>11, <1>12, <1>13,
       <1>14, <1>15, <1>16, <1>17 DEF Next

\* The first outcome of a job stays, and a notice is the only word of it.
THEOREM SaidOnce == Spec => OneVoice
<1>1. IInv /\ [Next]_vars => [\A j \in Ids :
           /\ Terminal(j) => status'[j] = status[j]
           /\ notices'[j] # notices[j] =>
                  /\ notices[j] = 0
                  /\ j \notin told
                  /\ Waiters(j) = {}
                  /\ scope[owner[j]] \in {"live", "unloading"}
                  /\ service = "live"]_vars
  <2>1. IInv /\ [Next]_vars => Keeps /\ Heeds
    BY KeepStep, HeedStep DEF IInv
  <2> QED
    BY <2>1 DEF Keeps, Heeds
<1> QED
  BY <1>1, Invariance, PTL DEF Spec, OneVoice
===============================================================================
