-------------------------- MODULE Subagents_proofs --------------------------
(***************************************************************************)
(* Proofs about continuable subagents, for any forest of children, any     *)
(* number of calls, reports and maintenance tasks: type correctness, that  *)
(* a parent outlives the children it works through, and that a child which *)
(* settles has dropped nothing it was told.                                *)
(***************************************************************************)
EXTENDS Subagents, FiniteSetTheorems, SequenceTheorems, TLAPS

-----------------------------------------------------------------------------
(* The inductive invariant.                                                *)

\* A call works inside the lock of its child, alone, and knows what it found there.
Locked ==
    \A c \in Calls :
        /\ call[c].at \notin {"none", "done"} => Kid(c) \in Kids
        /\ call[c].at \in Inside => Holds(c)
        /\ call[c].at \in {"inspecting", "creating"} => ~Live(Kid(c))
        /\ call[c].at = "undoing" => epoch[Kid(c)].at = "undoing"

\* Only a resident parent that still works, or waits for its children, owns any, and
\* they are resident.
Owning ==
    \A k \in Kids : \A c \in epoch[k].owned :
        /\ epoch[k].at \in {"up", "stopping"}
        /\ epoch[c].at \notin {"none", "undoing"}
        /\ ParentOf[c] = k

\* An announced child is resident and owned.
Announced ==
    \A k \in Kids : epoch[k].announced =>
        /\ epoch[k].at \notin {"none", "undoing"}
        /\ \A p \in Owner(k) : k \in epoch[p].owned

\* Closing comes from above.
FromAbove == \A k \in Kids : Closing(k) => \A c \in epoch[k].owned : Closing(c)

\* In a lineage that is drained nothing is woken: what runs was aborted, and nothing
\* is left to replay.
Drained ==
    \A k \in Kids : epoch[k].why = "drained" =>
        /\ ~Admitting
        /\ Closing(k) => ~agent[k].latched /\ (agent[k].phase # "idle" => agent[k].abort # "none")

IInv == TypeOK /\ Locked /\ Owning /\ Announced /\ FromAbove /\ Drained
-----------------------------------------------------------------------------
(* Facts the steps share.                                                  *)

\* What happens to an agent leaves an agent.
LEMMA AgentFacts ==
    ASSUME NEW a \in Agents
    PROVE  /\ Woken(a) \in Agents /\ Rested(a) \in Agents
           /\ \A cause \in {"cancel", "disposed"} :
                 /\ Cancelled(a, cause) \in Agents
                 /\ ~Cancelled(a, cause).latched
                 /\ Cancelled(a, cause).phase = a.phase
                 /\ a.phase # "idle" => Cancelled(a, cause).abort # "none"
           /\ ~a.latched => Rested(a).phase = "idle" /\ ~Rested(a).latched
<1> USE DEF Agents, Phases
<1>1. Woken(a) \in Agents
  <2> DEFINE n == a.unread + 1
  <2>0. n \in Nat
    OBVIOUS
  <2> HIDE DEF n
  <2>1. CASE a.phase = "idle"
    <3>1. Woken(a) = [a EXCEPT !.phase = "running", !.unread = n]
      BY <2>1 DEF Woken, n
    <3> QED
      BY <2>0, <3>1
  <2>2. CASE a.phase # "idle"
    <3> DEFINE l == a.latched \/ (a.abort # "disposed" /\ (a.phase = "maintaining" \/ a.abort = "cancel"))
    <3>1. Woken(a) = [a EXCEPT !.unread = n, !.latched = l] /\ l \in BOOLEAN
      BY <2>2 DEF Woken, n
    <3> HIDE DEF l
    <3> QED
      BY <2>0, <3>1
  <2> QED
    BY <2>1, <2>2
<1>2. Rested(a) \in Agents /\ (~a.latched => Rested(a).phase = "idle" /\ ~Rested(a).latched)
  BY DEF Rested
<1>3. ASSUME NEW cause \in {"cancel", "disposed"}
      PROVE  /\ Cancelled(a, cause) \in Agents
             /\ ~Cancelled(a, cause).latched
             /\ Cancelled(a, cause).phase = a.phase
             /\ a.phase # "idle" => Cancelled(a, cause).abort # "none"
  BY DEF Cancelled
<1> QED
  BY <1>1, <1>2, <1>3

\* A queue that is joined keeps its head; one that is left keeps the rest.
LEMMA LineFacts ==
    ASSUME NEW S, NEW l \in Seq(S), NEW x \in S
    PROVE  /\ Append(l, x) \in Seq(S)
           /\ l # <<>> => /\ Append(l, x) # <<>> /\ Head(Append(l, x)) = Head(l)
                          /\ Head(l) \in S /\ Tail(l) \in Seq(S)
                          /\ Append(Tail(l), x) \in Seq(S)
  OBVIOUS

\* A disposal reaches children that are up, with all that they own.
LEMMA Reach ==
    ASSUME TypeOK, NEW ks \in SUBSET Kids
    PROVE  LET all == Reached({k \in ks : Up(k)})
           IN  /\ \A k \in all : k \in Kids /\ Up(k)
               /\ \A k \in ks : Up(k) => k \in all
               /\ \A k \in all : \A c \in epoch[k].owned : Up(c) => c \in all
<1> DEFINE these == {k \in ks : Up(k)}
<1> DEFINE up == {k \in Kids : Up(k)}
<1>1. \A k \in Kids : epoch[k].owned \subseteq Kids
  BY DEF TypeOK, Epochs
<1>2. up \in SUBSET Kids /\ these \subseteq up /\ Recurs(up)
  BY <1>1 DEF Recurs
<1>3. \A k \in Reached(these) : k \in up
  BY <1>2 DEF Reached
<1>4. \A k \in these : k \in Reached(these)
  BY DEF Reached
<1>5. ASSUME NEW k \in Reached(these), NEW c \in epoch[k].owned, Up(c)
      PROVE  c \in Reached(these)
  <2>1. k \in Kids /\ c \in Kids
    BY <1>1, <1>3, <1>5
  <2>2. ASSUME NEW all \in SUBSET Kids, these \subseteq all, Recurs(all)
        PROVE  c \in all
    BY <1>5, <2>2 DEF Reached, Recurs
  <2> QED
    BY <2>1, <2>2 DEF Reached
<1> QED
  BY <1>3, <1>4, <1>5

\* What a disposal does, told of the set it reaches.
Stopped(all, why) ==
    /\ \A k \in all : Up(k) /\ \A c \in epoch[k].owned : Up(c) => c \in all
    /\ \A k \in Kids :
          /\ agent'[k] = IF k \in all THEN Cancelled(agent[k], "cancel") ELSE agent[k]
          /\ epoch'[k].owned = epoch[k].owned
          /\ epoch'[k].announced = epoch[k].announced
          /\ epoch'[k].at = IF k \in all THEN "stopping" ELSE epoch[k].at
          /\ epoch'[k].why = IF k \in all THEN why ELSE epoch[k].why

LEMMA DisposeFacts ==
    ASSUME TypeOK, NEW ks \in SUBSET Kids, NEW why, Disposes(ks, why)
    PROVE  \E all \in SUBSET Kids : Stopped(all, why)
<1> DEFINE all == Reached({k \in ks : Up(k)})
<1>1. all \in SUBSET Kids
  BY DEF Reached
<1>2. \A k \in all : Up(k) /\ \A c \in epoch[k].owned : Up(c) => c \in all
  BY Reach
<1>3. ASSUME NEW k \in Kids
      PROVE  /\ agent'[k] = IF k \in all THEN Cancelled(agent[k], "cancel") ELSE agent[k]
             /\ epoch'[k] = IF k \in all THEN [epoch[k] EXCEPT !.at = "stopping", !.why = why,
                                                               !.lost = agent[k].unread]
                            ELSE epoch[k]
  BY DEF Disposes
<1>4. ASSUME NEW k \in Kids
      PROVE  /\ epoch'[k].owned = epoch[k].owned
             /\ epoch'[k].announced = epoch[k].announced
             /\ epoch'[k].at = IF k \in all THEN "stopping" ELSE epoch[k].at
             /\ epoch'[k].why = IF k \in all THEN why ELSE epoch[k].why
  <2>1. epoch[k] \in Epochs
    BY DEF TypeOK
  <2> QED
    BY <1>3, <2>1 DEF Epochs
<1> HIDE DEF all
<1>5. Stopped(all, why)
  BY <1>2, <1>3, <1>4 DEF Stopped
<1> QED
  BY <1>1, <1>5

-----------------------------------------------------------------------------
(* The kinds of step, by what they do to the epochs.                       *)

\* A parent accepts, or a call is refused, only inside the lock.
Admits(c) == Accepts(c) /\ ~Refused(c) /\ Kid(c) \in Kids

StopReasons == {"settled", "refused", "selected", "drained"}

\* A disposal: whoever drains has closed the lineage.
Stops == \E ks \in SUBSET Kids, why \in StopReasons :
            Disposes(ks, why) /\ (why = "drained" => ~Admitting')

\* What an agent does by itself, and what is done to it from outside.
Moves(k) ==
    \/ Claims(k) \/ TurnEnds(k) \/ MaintenanceStarts(k) \/ MaintenanceEnds(k)
    \/ Interrupt(k) \/ Report(k)

LEMMA StepCases ==
    ASSUME IInv, Next
    PROVE  \/ UNCHANGED <<agent, epoch>>
           \/ Stops
           \/ \E k \in Kids : Moves(k) \/ Disposal(k)
           \/ \E c \in Calls : Admits(c) \/ Installs(c) \/ Undone(c)
<1> USE DEF residency
<1>1. CASE DrainStarts \/ ScopeStarts \/ Draining
  BY <1>1 DEF DrainStarts, ScopeStarts, Draining, DrainDisposes, DrainEnds, ScopeEnds, Stops,
              StopReasons, Admitting
<1>2. ASSUME NEW k \in Kids, Watching(k) \/ StopTeammate(k)
      PROVE  UNCHANGED <<agent, epoch>> \/ Stops
  BY <1>2 DEF Watching, WatchRaces, WatchChecks, WatchPoked, StopTeammate, Stops, StopReasons
<1>3. ASSUME NEW c \in Calls, Begin(c) \/ HostAborts(c) \/ CreationFails(c)
      PROVE  UNCHANGED <<agent, epoch>>
  BY <1>3 DEF Begin, HostAborts, CreationFails
<1>4. ASSUME NEW c \in Calls, CallSteps(c)
      PROVE  UNCHANGED <<agent, epoch>> \/ Stops \/ Admits(c) \/ Installs(c) \/ Undone(c)
  <2>1. call[c].at \notin {"none", "done"} => Kid(c) \in Kids
    BY DEF IInv, Locked
  <2>2. CASE Prepared(c) \/ StartProceeds(c) \/ Awaited(c) \/ Inspected(c) \/ Left(c)
    BY <2>2 DEF Prepared, StartProceeds, Awaited, Inspected, Left
  <2>3. CASE FollowupProceeds(c)
    BY <2>1, <2>3 DEF FollowupProceeds, Admits
  <2>4. CASE Submits(c)
    BY <2>1, <2>4 DEF Submits, Admits, Stops, StopReasons
  <2> QED
    BY <1>4, <2>2, <2>3, <2>4 DEF CallSteps
<1> QED
  BY <1>1, <1>2, <1>3, <1>4 DEF Next, Moves

\* Who owns whom, and where each stands.
Family == Owning /\ Announced /\ FromAbove

LEMMA OwnedAreKids == ASSUME TypeOK, NEW k \in Kids PROVE epoch[k].owned \subseteq Kids
  BY DEF TypeOK, Epochs

\* What a disposal does to who owns whom: nothing, and it goes all the way down.
LEMMA StopsKeepFamily == ASSUME TypeOK, Family, Stops PROVE Family'
<1>1. PICK ks \in SUBSET Kids, why \in StopReasons : Disposes(ks, why)
  BY DEF Stops
<1>2. PICK all \in SUBSET Kids : Stopped(all, why)
  <2>1. Disposes(ks, why)
    BY <1>1
  <2> QED
    BY <2>1, DisposeFacts
<1>3. \A k \in Kids : epoch[k].owned \subseteq Kids
  BY OwnedAreKids
<1>4. Owning'
  BY <1>2, <1>3 DEF Stopped, Family, Owning, Up
<1>5. Announced'
  BY <1>2, <1>3 DEF Stopped, Family, Announced, Owner, Up
<1>6. FromAbove'
  BY <1>2, <1>3 DEF Stopped, Family, FromAbove, Owning, Closing, Live, Up
<1> QED
  BY <1>4, <1>5, <1>6 DEF Family

\* A release takes a child that owns nobody out of the one set it is in.
LEMMA DisposalKeepsFamily == ASSUME TypeOK, Family, NEW k \in Kids, Disposal(k) PROVE Family'
<1>0. /\ \A j \in Kids : epoch[j] \in Epochs /\ epoch[j].owned \subseteq Kids
      /\ epoch \in [Kids -> Epochs]
  BY OwnedAreKids DEF TypeOK
<1>1. CASE Quiets(k)
  <2>1. ASSUME NEW j \in Kids
        PROVE  /\ epoch'[j].owned = epoch[j].owned /\ epoch'[j].at = epoch[j].at
               /\ epoch'[j].announced = epoch[j].announced
    BY <1>0, <1>1 DEF Quiets, Epochs
  <2> QED
    BY <1>0, <2>1 DEF Family, Owning, Announced, FromAbove, Owner, Closing, Live, Up
<1>2. CASE Flushes(k) \/ Flushed(k)
  <2>1. epoch[k].owned = {} /\ epoch[k].at \in {"stopping", "flushing"}
    BY <1>2 DEF Flushes, Flushed, Family, Owning
  <2>2. ASSUME NEW j \in Kids
        PROVE  /\ epoch'[j].owned = epoch[j].owned /\ epoch'[j].announced = epoch[j].announced
               /\ j # k => epoch'[j].at = epoch[j].at
    BY <1>0, <1>2 DEF Flushes, Flushed, Epochs
  <2>3. epoch'[k].at \in {"flushing", "releasing"}
    BY <1>0, <1>2 DEF Flushes, Flushed, Epochs
  <2>4. Owning'
    BY <1>0, <2>1, <2>2, <2>3 DEF Family, Owning
  <2>5. Announced'
    BY <1>0, <2>1, <2>2, <2>3 DEF Family, Announced, Owner
  <2>6. FromAbove'
    BY <1>0, <2>1, <2>2, <2>3 DEF Family, FromAbove, Closing, Live, Up
  <2> QED
    BY <2>4, <2>5, <2>6 DEF Family
<1>3. CASE Releases(k)
  <2>1. epoch[k].owned = {} /\ epoch[k].at = "releasing"
    BY <1>3 DEF Releases, Family, Owning
  <2>2. epoch'[k].at = "none" /\ epoch'[k].owned = {} /\ epoch'[k].announced = FALSE
    <3>1. epoch'[k] = Gone(k)
      BY <1>3 DEF Releases
    <3> QED
      BY <1>0, <3>1 DEF Gone, Epochs
  <2>3. ASSUME NEW j \in Kids \ {k}
        PROVE  /\ epoch'[j].owned = epoch[j].owned \ {k} /\ epoch'[j].at = epoch[j].at
               /\ epoch'[j].announced = epoch[j].announced
    <3>1. epoch'[j] = [epoch[j] EXCEPT !.owned = epoch[j].owned \ {k}]
      BY <1>3 DEF Releases
    <3> QED
      BY <1>0, <3>1 DEF Epochs
  <2>4. Owning'
    BY <1>0, <2>1, <2>2, <2>3 DEF Family, Owning
  <2>5. Announced'
    BY <1>0, <2>1, <2>2, <2>3 DEF Family, Announced, Owner
  <2>6. FromAbove'
    BY <1>0, <2>1, <2>2, <2>3 DEF Family, FromAbove, Closing, Live, Up
  <2> QED
    BY <2>4, <2>5, <2>6 DEF Family
<1> QED
  BY <1>1, <1>2, <1>3 DEF Disposal

\* A child is taken in by an owner that is up, if the manager owns it.
LEMMA AdmitsKeepsFamily == ASSUME TypeOK, Family, NEW c \in Calls, Admits(c) PROVE Family'
<1> DEFINE kid == Kid(c)
<1>0. \A j \in Kids : epoch[j] \in Epochs /\ epoch[j].owned \subseteq Kids
  BY OwnedAreKids DEF TypeOK
<1>1. /\ kid \in Kids /\ Up(kid) /\ Owner(kid) \subseteq Kids /\ kid \notin Owner(kid)
      /\ \A p \in Owner(kid) : p \in Kids /\ Up(p)
  BY SubagentsAssumption DEF Admits, Refused, ParentLive, ParentClosing, Closing, Live, Up, Owner
<1>2. ASSUME NEW k \in Kids
      PROVE  /\ epoch'[k].at = epoch[k].at
             /\ epoch'[k].owned = IF k \in Owner(kid) THEN epoch[k].owned \cup {kid}
                                  ELSE epoch[k].owned
             /\ epoch'[k].announced = IF k = kid THEN TRUE ELSE epoch[k].announced
  <2>1. epoch'[k] = IF k = kid THEN [epoch[k] EXCEPT !.announced = TRUE]
                    ELSE IF k \in Owner(kid) THEN [epoch[k] EXCEPT !.owned = epoch[k].owned \cup {kid}]
                    ELSE epoch[k]
    BY DEF Admits, Accepts
  <2> QED
    BY <1>0, <1>1, <2>1 DEF Epochs
<1> HIDE DEF kid
<1>3. Owning'
  <2> SUFFICES ASSUME NEW k \in Kids, NEW x \in epoch'[k].owned
               PROVE  /\ epoch'[k].at \in {"up", "stopping"}
                      /\ epoch'[x].at \notin {"none", "undoing"}
                      /\ ParentOf[x] = k
    BY DEF Owning
  <2>1. CASE x \in epoch[k].owned
    BY <1>0, <1>2, <2>1 DEF Family, Owning
  <2>2. CASE x = kid /\ k \in Owner(kid)
    BY <1>1, <1>2, <2>2 DEF Owner, Up
  <2> QED
    BY <1>2, <2>1, <2>2
<1>4. Announced'
  <2> SUFFICES ASSUME NEW k \in Kids, epoch'[k].announced
               PROVE  /\ epoch'[k].at \notin {"none", "undoing"}
                      /\ \A p \in Owner(k) : k \in epoch'[p].owned
    BY DEF Announced, Owner
  <2>1. CASE k = kid
    BY <1>1, <1>2, <2>1 DEF Up
  <2>2. CASE k # kid
    BY <1>2, <2>2 DEF Family, Announced, Owner
  <2> QED
    BY <2>1, <2>2
<1>5. FromAbove'
  BY <1>0, <1>1, <1>2 DEF Family, FromAbove, Owner, Closing, Live, Up
<1> QED
  BY <1>3, <1>4, <1>5 DEF Family

\* A new Activation owns nobody and is owned by a parent that is up; one that is
\* rolled back is owned by nobody.
LEMMA InstallsKeepsFamily == ASSUME TypeOK, Locked, Family, NEW c \in Calls, Installs(c) PROVE Family'
<1> DEFINE kid == Kid(c)
<1>0. \A j \in Kids : epoch[j] \in Epochs /\ epoch[j].owned \subseteq Kids
  BY OwnedAreKids DEF TypeOK
<1>1. /\ kid \in Kids /\ epoch[kid].at = "none" /\ ~epoch[kid].announced
      /\ epoch[kid].owned = {} /\ \A j \in Kids : kid \notin epoch[j].owned
  <2>1. kid \in Kids /\ epoch[kid].at = "none"
    BY DEF Installs, Locked, Live
  <2> HIDE DEF kid
  <2> QED
    BY <1>0, <2>1 DEF Family, Owning, Announced
<1>2. \A at : NewEpoch(kid, at).at = at /\ NewEpoch(kid, at).owned = {} /\ ~NewEpoch(kid, at).announced
  BY DEF NewEpoch, NoEpoch
<1>3. CASE Aborted(c) \/ ~Admitting \/ ParentClosing(c)
  <2>1. ASSUME NEW k \in Kids
        PROVE  epoch'[k] = IF k = kid THEN NewEpoch(kid, "undoing") ELSE epoch[k]
    BY <1>3 DEF Installs, TypeOK
  <2> HIDE DEF kid
  <2> QED
    BY <1>0, <1>1, <1>2, <2>1 DEF Family, Owning, Announced, FromAbove, Owner, Closing, Live, Up
<1>4. CASE ~(Aborted(c) \/ ~Admitting \/ ParentClosing(c))
  <2>1. Owner(kid) \subseteq Kids /\ \A p \in Owner(kid) : p # kid /\ (Live(p) => Up(p))
    BY <1>4, <1>1, SubagentsAssumption DEF ParentClosing, Closing, Owner
  <2>2. ASSUME NEW k \in Kids
        PROVE  epoch'[k] = IF k = kid THEN NewEpoch(k, "up")
                           ELSE IF k \in Owner(kid) /\ Live(k)
                           THEN [epoch[k] EXCEPT !.owned = epoch[k].owned \cup {kid}] ELSE epoch[k]
    BY <1>4 DEF Installs
  <2>3. ASSUME NEW k \in Kids \ {kid}
        PROVE  /\ epoch'[k].at = epoch[k].at /\ epoch'[k].announced = epoch[k].announced
               /\ epoch'[k].owned = IF k \in Owner(kid) /\ Live(k) THEN epoch[k].owned \cup {kid}
                                    ELSE epoch[k].owned
    BY <1>0, <2>2 DEF Epochs
  <2>4. epoch'[kid].at = "up" /\ epoch'[kid].owned = {} /\ ~epoch'[kid].announced
    BY <1>1, <1>2, <2>2
  <2> HIDE DEF kid
  <2>5. Owning'
    <3> SUFFICES ASSUME NEW k \in Kids, NEW x \in epoch'[k].owned
                 PROVE  /\ epoch'[k].at \in {"up", "stopping"}
                        /\ epoch'[x].at \notin {"none", "undoing"}
                        /\ ParentOf[x] = k
      BY DEF Owning
    <3>1. k # kid
      BY <2>4
    <3>2. CASE x \in epoch[k].owned
      <4>1. x \in Kids /\ x # kid
        BY <1>0, <1>1, <3>2
      <4>2. epoch'[k].at = epoch[k].at /\ epoch'[x].at = epoch[x].at
        BY <2>3, <3>1, <4>1
      <4> QED
        BY <3>2, <4>2 DEF Family, Owning
    <3>3. CASE x = kid /\ k \in Owner(kid) /\ Live(k)
      BY <2>1, <2>3, <2>4, <3>1, <3>3 DEF Owner, Up
    <3> QED
      BY <2>3, <3>1, <3>2, <3>3
  <2>6. Announced'
    <3> SUFFICES ASSUME NEW k \in Kids, epoch'[k].announced
                 PROVE  /\ epoch'[k].at \notin {"none", "undoing"}
                        /\ \A p \in Owner(k) : k \in epoch'[p].owned
      BY DEF Announced, Owner
    <3>1. k # kid /\ epoch[k].announced /\ epoch'[k].at = epoch[k].at
      BY <2>3, <2>4
    <3>2. ASSUME NEW p \in Owner(k) PROVE k \in epoch'[p].owned
      <4>1. p \in Kids /\ k \in epoch[p].owned
        BY <3>1 DEF Family, Announced, Owner
      <4>2. p # kid
        BY <1>1, <4>1
      <4> QED
        BY <2>3, <4>1, <4>2
    <3> QED
      BY <3>1, <3>2 DEF Family, Announced
  <2>7. FromAbove'
    <3> SUFFICES ASSUME NEW k \in Kids, Closing(k)', NEW x \in epoch'[k].owned PROVE Closing(x)'
      BY DEF FromAbove
    <3>1. k # kid /\ Closing(k)
      BY <2>3, <2>4 DEF Closing, Live, Up
    <3>2. x \in epoch[k].owned
      BY <2>1, <2>3, <3>1 DEF Closing
    <3> QED
      BY <1>0, <1>1, <2>3, <3>1, <3>2 DEF Family, FromAbove, Closing, Live, Up
  <2> QED
    BY <2>5, <2>6, <2>7 DEF Family
<1> QED
  BY <1>3, <1>4

LEMMA UndoneKeepsFamily == ASSUME TypeOK, Locked, Family, NEW c \in Calls, Undone(c) PROVE Family'
<1> DEFINE kid == Kid(c)
<1>0. \A j \in Kids : epoch[j] \in Epochs /\ epoch[j].owned \subseteq Kids
  BY OwnedAreKids DEF TypeOK
<1>1. kid \in Kids /\ epoch[kid].at = "undoing"
  BY DEF Undone, Locked
<1>2. ASSUME NEW k \in Kids
      PROVE  /\ epoch'[k].owned = epoch[k].owned /\ epoch'[k].announced = epoch[k].announced
             /\ epoch'[k].at = IF k = kid THEN "none" ELSE epoch[k].at
  <2>1. epoch'[k] = IF k = kid THEN [epoch[kid] EXCEPT !.at = "none"] ELSE epoch[k]
    BY DEF Undone, TypeOK
  <2> QED
    BY <1>0, <2>1 DEF Epochs
<1> HIDE DEF kid
<1>3. epoch[kid].owned = {} /\ ~epoch[kid].announced /\ \A j \in Kids : kid \notin epoch[j].owned
  BY <1>0, <1>1 DEF Family, Owning, Announced
<1> QED
  BY <1>0, <1>1, <1>2, <1>3 DEF Family, Owning, Announced, FromAbove, Owner, Closing, Live, Up

LEMMA FamilyKept == ASSUME IInv, Next PROVE Family'
<1>1. TypeOK /\ Locked /\ Family
  BY DEF IInv, Family
<1>2. CASE UNCHANGED epoch
  BY <1>1, <1>2 DEF Family, Owning, Announced, FromAbove, Owner, Closing, Live, Up
<1>3. ASSUME NEW k \in Kids, Moves(k) PROVE UNCHANGED epoch
  BY <1>3 DEF Moves, Claims, TurnEnds, MaintenanceStarts, MaintenanceEnds, Interrupt, Report
<1> QED
  BY <1>1, <1>2, <1>3, StepCases, StopsKeepFamily, DisposalKeepsFamily, AdmitsKeepsFamily,
     InstallsKeepsFamily, UndoneKeepsFamily

-----------------------------------------------------------------------------
(* Drained lineages stay quiet.                                            *)

\* A lineage that is closed stays closed.
LEMMA StaysClosed == ASSUME Next, ~Admitting PROVE ~Admitting'
<1> USE DEF Admitting
<1>1. CASE DrainStarts \/ ScopeStarts \/ Draining
  BY <1>1 DEF DrainStarts, ScopeStarts, Draining, DrainDisposes, DrainEnds, ScopeEnds
<1>2. ASSUME NEW k \in Kids,
             \/ Claims(k) \/ TurnEnds(k) \/ MaintenanceStarts(k) \/ MaintenanceEnds(k)
             \/ Interrupt(k) \/ Report(k) \/ Disposal(k) \/ Watching(k) \/ StopTeammate(k)
      PROVE  UNCHANGED <<drain, scope>>
  BY <1>2 DEF Claims, TurnEnds, MaintenanceStarts, MaintenanceEnds, Interrupt, Report, Disposal,
              Quiets, Flushes, Flushed, Releases, Watching, WatchRaces, WatchChecks, WatchPoked,
              StopTeammate
<1>3. ASSUME NEW c \in Calls, Begin(c) \/ HostAborts(c) \/ CreationFails(c) \/ CallSteps(c)
      PROVE  UNCHANGED <<drain, scope>>
  BY <1>3 DEF Begin, HostAborts, CreationFails, CallSteps, Prepared, StartProceeds,
              FollowupProceeds, Awaited, Inspected, Installs, Undone, Submits, Left
<1> QED
  BY <1>1, <1>2, <1>3 DEF Next

\* An agent that nothing wakes any more.
Hushed(a) == ~a.latched /\ (a.phase # "idle" => a.abort # "none")

\* No step wakes the agent of a child whose lineage was drained.
LEMMA DrainedKept == ASSUME IInv, Next PROVE Drained'
<1> SUFFICES ASSUME NEW k \in Kids, (epoch[k].why = "drained")'
             PROVE  ~Admitting' /\ (Closing(k)' => Hushed(agent'[k]))
  BY DEF Drained, Hushed
<1> USE DEF Closing, Live, Up
<1>1. TypeOK /\ Locked /\ Owning /\ Drained
  BY DEF IInv
<1>2. /\ epoch \in [Kids -> Epochs] /\ agent \in [Kids -> Agents]
      /\ epoch[k] \in Epochs /\ agent[k] \in Agents
  BY <1>1 DEF TypeOK
<1>3. epoch[k].why = "drained" => ~Admitting /\ ~Admitting' /\ (Closing(k) => Hushed(agent[k]))
  BY <1>1, StaysClosed DEF Drained, Hushed
<1>4. CASE UNCHANGED <<agent, epoch>>
  BY <1>3, <1>4
<1>5. ASSUME NEW j \in Kids, Moves(j) PROVE ~Admitting' /\ (Closing(k)' => Hushed(agent'[k]))
  <2>1. UNCHANGED epoch /\ ~Admitting
    BY <1>3, <1>5 DEF Moves, Claims, TurnEnds, MaintenanceStarts, MaintenanceEnds, Interrupt, Report
  <2>2. CASE Claims(j)
    <3>1. Closing(k) => k # j
      BY <1>3, <2>1, <2>2 DEF Claims, Hushed
    <3> QED
      BY <1>2, <1>3, <2>1, <2>2, <3>1 DEF Claims, Becomes
  <2>3. CASE TurnEnds(j) \/ MaintenanceEnds(j)
    <3>1. agent'[k] = IF k = j THEN Rested(agent[k]) ELSE agent[k]
      BY <1>2, <2>3 DEF TurnEnds, MaintenanceEnds, Becomes
    <3> QED
      BY <1>2, <1>3, <2>1, <3>1, AgentFacts DEF Hushed
  <2>4. CASE MaintenanceStarts(j) \/ Interrupt(j)
    <3>1. Closing(k) => k # j
      BY <2>4 DEF MaintenanceStarts, Interrupt
    <3> QED
      BY <1>2, <1>3, <2>1, <2>4, <3>1 DEF MaintenanceStarts, Interrupt, Becomes
  <2>5. ~Report(j)
    BY <2>1 DEF Report
  <2> QED
    BY <1>5, <2>2, <2>3, <2>4, <2>5 DEF Moves
<1>6. CASE Stops
  <2>1. PICK ks \in SUBSET Kids, why \in StopReasons :
          Disposes(ks, why) /\ (why = "drained" => ~Admitting')
    BY <1>6 DEF Stops
  <2>2. Disposes(ks, why)
    BY <2>1
  <2>3. PICK all \in SUBSET Kids : Stopped(all, why)
    BY <1>1, <2>2, DisposeFacts
  <2>4. CASE k \in all
    BY <1>2, <2>1, <2>3, <2>4, AgentFacts DEF Stopped, Hushed
  <2> QED
    BY <1>3, <2>3, <2>4 DEF Stopped
<1>7. ASSUME NEW j \in Kids, Disposal(j) PROVE ~Admitting' /\ (Closing(k)' => Hushed(agent'[k]))
  <2>1. CASE Quiets(j) \/ Flushes(j)
    <3>1. \/ epoch'[k] = epoch[k]
          \/ epoch'[k] = [epoch[k] EXCEPT !.calm = TRUE] /\ Closing(k)
          \/ epoch'[k] = [epoch[k] EXCEPT !.at = "flushing"] /\ Closing(k)
      BY <1>2, <2>1 DEF Quiets, Flushes
    <3>2. epoch'[k].why = epoch[k].why /\ (Closing(k)' => Closing(k))
      BY <1>2, <3>1 DEF Epochs
    <3>3. agent' = agent
      BY <2>1 DEF Quiets, Flushes
    <3> QED
      BY <1>3, <3>2, <3>3
  <2>2. CASE Flushed(j)
    <3>1. /\ epoch'[k].why = epoch[k].why
          /\ agent'[k] = IF k = j THEN Cancelled(agent[k], "disposed") ELSE agent[k]
          /\ Closing(k)' => Closing(k)
      BY <1>2, <2>2 DEF Flushed, Epochs, Becomes
    <3> QED
      BY <1>2, <1>3, <3>1, AgentFacts DEF Hushed
  <2>3. CASE Releases(j)
    <3>1. epoch'[j] = Gone(j) /\ Gone(j).at = "none" /\ Gone(j).why = epoch[j].why
      BY <1>2, <2>3 DEF Releases, Gone, Epochs
    <3>2. CASE k # j
      <4>1. /\ epoch'[k] = [epoch[k] EXCEPT !.owned = epoch[k].owned \ {j}]
            /\ agent'[k] = IF k \in Informed(j) THEN Woken(agent[k]) ELSE agent[k]
        BY <2>3, <3>2 DEF Releases
      <4>2. epoch'[k].why = epoch[k].why /\ epoch'[k].at = epoch[k].at
        BY <1>2, <4>1 DEF Epochs
      <4>3. k \notin Informed(j)
        BY <1>3, <4>2 DEF Informed
      <4> QED
        BY <1>3, <4>1, <4>2, <4>3
    <3> QED
      BY <1>3, <3>1, <3>2
  <2> QED
    BY <1>7, <2>1, <2>2, <2>3 DEF Disposal
<1>8. ASSUME NEW c \in Calls, Admits(c) PROVE ~Admitting' /\ (Closing(k)' => Hushed(agent'[k]))
  <2>1. Admitting
    BY <1>8 DEF Admits, Refused
  <2>2. epoch'[k].why = epoch[k].why
    <3>1. \/ epoch'[k] = [epoch[k] EXCEPT !.announced = TRUE]
          \/ epoch'[k] = [epoch[k] EXCEPT !.owned = epoch[k].owned \cup {Kid(c)}]
          \/ epoch'[k] = epoch[k]
      BY <1>8 DEF Admits, Accepts
    <3> QED
      BY <1>2, <3>1 DEF Epochs
  <2> QED
    BY <1>3, <2>1, <2>2
<1>9. ASSUME NEW c \in Calls, Installs(c) PROVE ~Admitting' /\ (Closing(k)' => Hushed(agent'[k]))
  <2>1. \A at : NewEpoch(Kid(c), at).why = "none"
    BY DEF NewEpoch, NoEpoch
  <2>2. k # Kid(c) /\ epoch'[k].why = epoch[k].why /\ epoch'[k].at = epoch[k].at
    <3>1. \/ k = Kid(c) /\ \E at \in {"up", "undoing"} : epoch'[k] = NewEpoch(Kid(c), at)
          \/ /\ k # Kid(c)
             /\ \/ epoch'[k] = [epoch[k] EXCEPT !.owned = epoch[k].owned \cup {Kid(c)}]
                \/ epoch'[k] = epoch[k]
      BY <1>2, <1>9 DEF Installs
    <3> QED
      BY <1>2, <2>1, <3>1 DEF Epochs
  <2>3. agent' = agent
    BY <1>9 DEF Installs
  <2> QED
    BY <1>3, <2>2, <2>3
<1>10. ASSUME NEW c \in Calls, Undone(c) PROVE ~Admitting' /\ (Closing(k)' => Hushed(agent'[k]))
  <2>1. CASE k = Kid(c)
    <3>1. epoch'[k] = [epoch[k] EXCEPT !.at = "none"]
      BY <1>2, <1>10, <2>1 DEF Undone
    <3>2. epoch'[k].at = "none" /\ epoch'[k].why = epoch[k].why
      BY <1>2, <3>1 DEF Epochs
    <3> QED
      BY <1>3, <3>2
  <2>2. CASE k # Kid(c)
    <3>1. epoch'[k] = epoch[k] /\ agent'[k] = agent[k]
      BY <1>2, <1>10, <2>2 DEF Undone, Becomes
    <3> QED
      BY <1>3, <3>1
  <2> QED
    BY <2>1, <2>2
<1> QED
  BY <1>4, <1>5, <1>6, <1>7, <1>8, <1>9, <1>10, StepCases

-----------------------------------------------------------------------------
(* The lock.                                                               *)

\* What Locked says of one call.
LockedAt(c) ==
    /\ call[c].at \notin {"none", "done"} => Kid(c) \in Kids
    /\ call[c].at \in Inside => Holds(c)
    /\ call[c].at \in {"inspecting", "creating"} => ~Live(Kid(c))
    /\ call[c].at = "undoing" => epoch[Kid(c)].at = "undoing"

\* The epochs a step leaves as they are, as far as the lock is concerned.
Stands(k) == (Live(k)' => Live(k)) /\ (epoch[k].at = "undoing" => epoch'[k].at = "undoing")

\* Only the call that holds a child's lock brings it up or takes it back.
LEMMA Standing ==
    ASSUME TypeOK, NEW k \in Kids,
           \/ UNCHANGED epoch \/ Stops
           \/ \E j \in Kids : Disposal(j)
           \/ \E c \in Calls : Admits(c) \/ (k # Kid(c) /\ (Installs(c) \/ Undone(c)))
    PROVE  Stands(k)
<1> USE DEF Stands, Live
<1>1. epoch[k] \in Epochs /\ epoch \in [Kids -> Epochs]
  BY DEF TypeOK
<1>2. CASE UNCHANGED epoch
  BY <1>2
<1>3. CASE Stops
  <2>1. PICK ks \in SUBSET Kids, why \in StopReasons : Disposes(ks, why)
    BY <1>3 DEF Stops
  <2>2. Disposes(ks, why)
    BY <2>1
  <2>3. PICK all \in SUBSET Kids : Stopped(all, why)
    BY <2>2, DisposeFacts
  <2> QED
    BY <2>3 DEF Stopped, Up
<1>4. ASSUME NEW j \in Kids, Disposal(j) PROVE Stands(k)
  <2>1. CASE Quiets(j)
    BY <1>1, <2>1 DEF Quiets, Epochs
  <2>2. CASE Flushes(j)
    BY <1>1, <2>2 DEF Flushes, Epochs
  <2>3. CASE Flushed(j)
    BY <1>1, <2>3 DEF Flushed, Epochs
  <2>4. CASE Releases(j)
    <3>1. IF k = j THEN epoch'[k] = Gone(k) /\ epoch[k].at = "releasing"
          ELSE epoch'[k] = [epoch[k] EXCEPT !.owned = epoch[k].owned \ {j}]
      BY <2>4 DEF Releases
    <3> QED
      BY <1>1, <3>1 DEF Gone, Epochs
  <2> QED
    BY <1>4, <2>1, <2>2, <2>3, <2>4 DEF Disposal
<1>5. ASSUME NEW c \in Calls, Admits(c) PROVE Stands(k)
  <2>1. \/ epoch'[k] = [epoch[k] EXCEPT !.announced = TRUE]
        \/ epoch'[k] = [epoch[k] EXCEPT !.owned = epoch[k].owned \cup {Kid(c)}]
        \/ epoch'[k] = epoch[k]
    BY <1>5 DEF Admits, Accepts
  <2> QED
    BY <1>1, <2>1 DEF Epochs
<1>6. ASSUME NEW c \in Calls, Installs(c), k # Kid(c) PROVE Stands(k)
  <2>1. \/ epoch'[k] = [epoch[k] EXCEPT !.owned = epoch[k].owned \cup {Kid(c)}]
        \/ epoch'[k] = epoch[k]
    BY <1>1, <1>6 DEF Installs
  <2> QED
    BY <1>1, <2>1 DEF Epochs
<1>7. ASSUME NEW c \in Calls, Undone(c), k # Kid(c) PROVE Stands(k)
  BY <1>1, <1>7 DEF Undone
<1> QED
  BY <1>2, <1>3, <1>4, <1>5, <1>6, <1>7

\* What a call may do to the line of child k: leave it, join it, or change it while
\* holding the lock.
LineSteps(c, k) ==
    \/ line' = line
    \/ line' = [line EXCEPT ![k] = Append(@, c)]
    \/ k = Kid(c) /\ Holds(c) /\ \E l : line' = [line EXCEPT ![k] = l]

\* The other calls find the lock as they left it.
LEMMA OthersLocked ==
    ASSUME TypeOK, Locked, NEW c \in Calls, NEW k \in Kids, LineSteps(c, k),
           \A j \in Kids : Stands(j) \/ (call[c].at \in Inside /\ j = Kid(c)),
           NEW d \in Calls, d # c, call'[d] = call[d]
    PROVE  LockedAt(d)'
<1>1. LockedAt(d) /\ LockedAt(c) /\ line \in [Kids -> Seq(Calls \cup Nat)] /\ Kid(d)' = Kid(d)
  BY DEF TypeOK, Locked, LockedAt, Kid
<1>2. CASE call[d].at \notin Inside
  BY <1>1, <1>2 DEF LockedAt, Inside
<1>3. CASE call[d].at \in Inside
  <2>1. Kid(d) \in Kids /\ Holds(d)
    BY <1>1, <1>3 DEF LockedAt, Inside
  <2>2. Kid(d) = Kid(c) => ~Holds(c)
    BY <2>1 DEF Holds
  <2>3. Stands(Kid(d))
    BY <1>1, <2>1, <2>2 DEF LockedAt
  <2>4. Holds(d)'
    <3>1. CASE Kid(d) = k
      <4>1. line'[Kid(d)] \in {line[Kid(d)], Append(line[Kid(d)], c)}
        BY <1>1, <2>1, <2>2, <3>1 DEF LineSteps
      <4>2. line[Kid(d)] \in Seq(Calls \cup Nat) /\ c \in Calls \cup Nat
        BY <1>1, <2>1
      <4>3. Append(line[Kid(d)], c) # <<>> /\ Head(Append(line[Kid(d)], c)) = Head(line[Kid(d)])
        BY <2>1, <4>2, LineFacts DEF Holds
      <4> QED
        BY <1>1, <2>1, <4>1, <4>3 DEF Holds
    <3>2. CASE Kid(d) # k
      <4>1. line'[Kid(d)] = line[Kid(d)]
        BY <1>1, <2>1, <3>2 DEF LineSteps
      <4> QED
        BY <1>1, <2>1, <4>1 DEF Holds
    <3> QED
      BY <3>1, <3>2
  <2> QED
    BY <1>1, <1>3, <2>1, <2>3, <2>4 DEF LockedAt, Stands
<1> QED
  BY <1>2, <1>3

\* A step that leaves the calls alone may lengthen a line, or take a watcher off its
\* head.
LEMMA WatchersLocked ==
    ASSUME TypeOK, Locked, UNCHANGED call, \A k \in Kids : Stands(k),
           \/ UNCHANGED line
           \/ \E k \in Kids : \/ \E x \in Nat : line' = [line EXCEPT ![k] = Append(@, x)]
                              \/ /\ line[k] # <<>> /\ Head(line[k]) \in Nat
                                 /\ line' = [line EXCEPT ![k] = Tail(@)]
    PROVE  Locked'
<1> SUFFICES ASSUME NEW d \in Calls PROVE LockedAt(d)'
  BY DEF Locked, LockedAt
<1>1. LockedAt(d) /\ line \in [Kids -> Seq(Calls \cup Nat)] /\ Kid(d)' = Kid(d) /\ call'[d] = call[d]
  BY DEF TypeOK, Locked, LockedAt, Kid
<1>2. CASE call[d].at \notin Inside
  BY <1>1, <1>2 DEF LockedAt, Inside
<1>3. CASE call[d].at \in Inside
  <2>1. Kid(d) \in Kids /\ Holds(d) /\ Head(line[Kid(d)]) \notin Nat
    BY <1>1, <1>3, SubagentsAssumption DEF LockedAt, Inside, Holds
  <2>2. Stands(Kid(d))
    BY <2>1
  <2>3. line[Kid(d)] \in Seq(Calls \cup Nat)
    BY <1>1, <2>1
  <2>4. \/ line'[Kid(d)] = line[Kid(d)]
        \/ \E x \in Nat : line'[Kid(d)] = Append(line[Kid(d)], x)
    BY <1>1, <2>1
  <2>5. Holds(d)'
    BY <1>1, <2>1, <2>3, <2>4, LineFacts DEF Holds
  <2> QED
    BY <1>1, <1>3, <2>1, <2>2, <2>5 DEF LockedAt, Stands
<1> QED
  BY <1>2, <1>3

\* A call moves on.
LEMMA MovedOn ==
    ASSUME TypeOK, Locked, NEW c \in Calls, NEW at, At(c, at), Kid(c) \in Kids,
           LineSteps(c, Kid(c)),
           \A j \in Kids : Stands(j) \/ (call[c].at \in Inside /\ j = Kid(c)),
           at \in Inside => Holds(c) /\ line' = line,
           at \in {"inspecting", "creating"} => ~Live(Kid(c))',
           at = "undoing" => epoch'[Kid(c)].at = "undoing"
    PROVE  Locked'
<1>1. call \in [Calls -> Callers] /\ call[c] \in Callers
  BY DEF TypeOK
<1>2. call'[c] = [call[c] EXCEPT !.at = at] /\ \A d \in Calls \ {c} : call'[d] = call[d]
  BY <1>1 DEF At
<1>3. call'[c].at = at /\ Kid(c)' = Kid(c)
  BY <1>1, <1>2 DEF Callers, Kid
<1>4. LockedAt(c)'
  <2>1. at \in Inside => Holds(c)'
    BY <1>3 DEF Holds
  <2> QED
    BY <1>3, <2>1 DEF LockedAt
<1>5. ASSUME NEW d \in Calls \ {c} PROVE LockedAt(d)'
  BY <1>2, <1>5, OthersLocked
<1> QED
  BY <1>4, <1>5 DEF Locked, LockedAt

\* A call is over, and has left the line if it held the lock.
LEMMA Finished ==
    ASSUME TypeOK, Locked, NEW c \in Calls, Over(c), Kid(c) \in Kids, LineSteps(c, Kid(c)),
           \A j \in Kids : Stands(j) \/ (call[c].at \in Inside /\ j = Kid(c))
    PROVE  Locked'
<1>1. call'[c] = [NoCall EXCEPT !.at = "done"] /\ \A d \in Calls \ {c} : call'[d] = call[d]
  BY DEF Over, TypeOK
<1>2. call'[c].at = "done"
  BY <1>1 DEF NoCall
<1>3. LockedAt(c)'
  BY <1>2 DEF LockedAt, Inside
<1>4. ASSUME NEW d \in Calls \ {c} PROVE LockedAt(d)'
  BY <1>1, OthersLocked
<1> QED
  BY <1>3, <1>4 DEF Locked, LockedAt

LEMMA CallsKeepLocked ==
    ASSUME IInv, NEW c \in Calls,
           Begin(c) \/ HostAborts(c) \/ CreationFails(c) \/ CallSteps(c)
    PROVE  Locked'
<1>1. TypeOK /\ Locked /\ LockedAt(c) /\ call[c] \in Callers
  BY DEF IInv, TypeOK, Locked, LockedAt
<1>2. Holds(c) /\ Leaves(c) => LineSteps(c, Kid(c))
  BY DEF Leaves, LineSteps
<1>3. UNCHANGED epoch => \A j \in Kids : Stands(j)
  BY <1>1, Standing
<1>4. CASE Begin(c)
  <2>1. PICK k \in Kids :
          /\ call' = [call EXCEPT ![c] = call'[c]]
          /\ call'[c].kid = k /\ call'[c].at \in {"preparing", "queued"}
          /\ LineSteps(c, k)
    <3>1. PICK k \in Kids, op \in {"start", "followup"}, by \in {"turn", "host"} :
            /\ call' = [call EXCEPT ![c] = Opened(k, op, by)]
            /\ line' = IF op = "start" THEN line ELSE [line EXCEPT ![k] = Append(@, c)]
      BY <1>4 DEF Begin
    <3> QED
      BY <1>1, <3>1 DEF LineSteps, TypeOK, Opened
  <2>2. LockedAt(c)'
    BY <2>1 DEF LockedAt, Inside, Kid
  <2>3. \A d \in Calls \ {c} : call'[d] = call[d]
    BY <1>1, <2>1 DEF TypeOK
  <2>4. \A j \in Kids : Stands(j)
    BY <1>3, <1>4 DEF Begin, residency
  <2>5. ASSUME NEW d \in Calls \ {c} PROVE LockedAt(d)'
    BY <1>1, <2>1, <2>3, <2>4, OthersLocked
  <2> QED
    BY <2>2, <2>5 DEF Locked, LockedAt
<1>5. CASE HostAborts(c)
  <2>1. /\ call'[c] = [call[c] EXCEPT !.aborted = TRUE]
        /\ \A d \in Calls \ {c} : call'[d] = call[d]
        /\ UNCHANGED <<epoch, line>>
    BY <1>1, <1>5 DEF HostAborts, residency, TypeOK
  <2>2. ASSUME NEW d \in Calls PROVE call'[d].at = call[d].at /\ call'[d].kid = call[d].kid
    BY <1>1, <2>1 DEF Callers
  <2> QED
    BY <1>1, <2>1, <2>2 DEF Locked, Holds, Live, Kid
<1>6. CASE Prepared(c)
  BY <1>1, <1>3, <1>6, MovedOn, Finished DEF Prepared, LockedAt, LineSteps, residency, Inside
<1>7. CASE StartProceeds(c)
  <2>1. Holds(c) /\ Kid(c) \in Kids /\ UNCHANGED epoch
    BY <1>1, <1>7 DEF StartProceeds, LockedAt, residency
  <2>2. CASE Ends(c)
    BY <1>1, <1>2, <1>3, <2>1, <2>2, Finished DEF Ends
  <2>3. CASE At(c, "creating") /\ UNCHANGED line /\ ~Live(Kid(c))
    <3>1. ~Live(Kid(c))'
      BY <1>1, <2>1, <2>3 DEF Live, Kid, At, Callers, TypeOK
    <3> QED
      BY <1>1, <1>3, <2>1, <2>3, <3>1, MovedOn DEF LineSteps, Live
  <2> QED
    BY <1>7, <2>2, <2>3 DEF StartProceeds
<1>8. CASE FollowupProceeds(c)
  <2>1. Holds(c) /\ Kid(c) \in Kids
    BY <1>1, <1>8 DEF FollowupProceeds, LockedAt
  <2>2. UNCHANGED epoch \/ Admits(c)
    BY <1>8, <2>1 DEF FollowupProceeds, Admits, residency
  <2>3. \A j \in Kids : Stands(j)
    BY <1>1, <2>2, Standing
  <2>4. CASE Ends(c)
    BY <1>1, <1>2, <2>1, <2>3, <2>4, Finished DEF Ends
  <2>5. CASE At(c, "awaiting") /\ UNCHANGED line
    BY <1>1, <2>1, <2>3, <2>5, MovedOn DEF LineSteps
  <2>6. CASE At(c, "inspecting") /\ UNCHANGED <<line, epoch>> /\ ~Live(Kid(c))
    <3>1. ~Live(Kid(c))'
      BY <1>1, <2>6 DEF Live, Kid, At, Callers, TypeOK
    <3> QED
      BY <1>1, <2>1, <2>3, <2>6, <3>1, MovedOn DEF LineSteps, Live
  <2> QED
    BY <1>8, <2>4, <2>5, <2>6 DEF FollowupProceeds, residency
<1>9. CASE Awaited(c) \/ Inspected(c) \/ CreationFails(c) \/ Left(c)
  <2>1. Holds(c) /\ Kid(c) \in Kids /\ UNCHANGED epoch
    BY <1>1, <1>9 DEF Awaited, Inspected, CreationFails, Left, LockedAt, Inside, residency
  <2>2. CASE Ends(c)
    BY <1>1, <1>2, <1>3, <2>1, <2>2, Finished DEF Ends
  <2>3. CASE At(c, "queued") /\ line' = [line EXCEPT ![Kid(c)] = Append(Tail(@), c)]
    BY <1>1, <1>3, <2>1, <2>3, MovedOn DEF LineSteps, Inside
  <2>4. CASE At(c, "creating") /\ UNCHANGED line /\ call[c].at = "inspecting"
    <3>1. ~Live(Kid(c))'
      BY <1>1, <2>1, <2>4 DEF LockedAt, Live, Kid, At, Callers, TypeOK
    <3> QED
      BY <1>1, <1>3, <2>1, <2>4, <3>1, MovedOn DEF LineSteps, Live
  <2> QED
    BY <1>9, <2>2, <2>3, <2>4 DEF Awaited, Inspected, CreationFails, Left
<1>10. CASE Installs(c)
  <2>1. Holds(c) /\ Kid(c) \in Kids /\ call[c].at \in Inside /\ UNCHANGED line
    BY <1>1, <1>10 DEF Installs, LockedAt, Inside
  <2>2. \A j \in Kids : Stands(j) \/ (call[c].at \in Inside /\ j = Kid(c))
    BY <1>1, <1>10, <2>1, Standing
  <2>3. CASE At(c, "submitting")
    BY <1>1, <2>1, <2>2, <2>3, MovedOn DEF LineSteps
  <2>4. CASE At(c, "undoing") /\ epoch' = [epoch EXCEPT ![Kid(c)] = NewEpoch(Kid(c), "undoing")]
    <3>1. epoch'[Kid(c)].at = "undoing"
      BY <1>1, <2>1, <2>4 DEF TypeOK, NewEpoch, NoEpoch
    <3> QED
      BY <1>1, <2>1, <2>2, <2>4, <3>1, MovedOn DEF LineSteps
  <2> QED
    BY <1>10, <2>3, <2>4 DEF Installs
<1>11. CASE Undone(c)
  <2>1. Holds(c) /\ Kid(c) \in Kids /\ call[c].at \in Inside /\ Ends(c)
    BY <1>1, <1>11 DEF Undone, LockedAt, Inside
  <2>2. \A j \in Kids : Stands(j) \/ (call[c].at \in Inside /\ j = Kid(c))
    BY <1>1, <1>11, <2>1, Standing
  <2> QED
    BY <1>1, <1>2, <2>1, <2>2, Finished DEF Ends
<1>12. CASE Submits(c)
  <2>1. Holds(c) /\ Kid(c) \in Kids
    BY <1>1, <1>12 DEF Submits, LockedAt, Inside
  <2>2. Stops \/ Admits(c)
    BY <1>12, <2>1 DEF Submits, Admits, Stops, StopReasons
  <2>3. \A j \in Kids : Stands(j)
    BY <1>1, <2>2, Standing
  <2>4. CASE At(c, "leaving") /\ UNCHANGED line
    BY <1>1, <2>1, <2>3, <2>4, MovedOn DEF LineSteps
  <2>5. CASE Ends(c)
    BY <1>1, <1>2, <2>1, <2>3, <2>5, Finished DEF Ends
  <2> QED
    BY <1>12, <2>4, <2>5 DEF Submits
<1> QED
  BY <1>4, <1>5, <1>6, <1>7, <1>8, <1>9, <1>10, <1>11, <1>12 DEF CallSteps

LEMMA LockedKept == ASSUME IInv, Next PROVE Locked'
<1>1. TypeOK /\ Locked
  BY DEF IInv
<1>2. CASE DrainStarts \/ ScopeStarts \/ Draining
  <2>1. UNCHANGED <<call, line>> /\ (UNCHANGED epoch \/ Stops)
    BY <1>2 DEF DrainStarts, ScopeStarts, Draining, DrainDisposes, DrainEnds, ScopeEnds, Stops,
                StopReasons, Admitting, residency
  <2> QED
    BY <1>1, <2>1, Standing, WatchersLocked
<1>3. ASSUME NEW k \in Kids, Moves(k) PROVE Locked'
  <2>1. UNCHANGED <<call, line, epoch>>
    BY <1>3 DEF Moves, Claims, TurnEnds, MaintenanceStarts, MaintenanceEnds, Interrupt, Report
  <2> QED
    BY <1>1, <2>1, Standing, WatchersLocked
<1>4. ASSUME NEW k \in Kids, Disposal(k) \/ StopTeammate(k) PROVE Locked'
  <2>1. UNCHANGED <<call, line>> /\ (Disposal(k) \/ Stops)
    BY <1>4 DEF Disposal, Quiets, Flushes, Flushed, Releases, StopTeammate, Stops, StopReasons
  <2> QED
    BY <1>1, <2>1, Standing, WatchersLocked
<1>5. ASSUME NEW k \in Kids, Watching(k) PROVE Locked'
  <2>1. UNCHANGED call /\ (UNCHANGED epoch \/ Stops)
    BY <1>5 DEF Watching, WatchRaces, WatchChecks, WatchPoked, Stops, StopReasons, residency
  <2>2. epoch[k].era \in Nat
    BY <1>1 DEF TypeOK, Epochs
  <2>3. \/ UNCHANGED line
        \/ \E x \in Nat : line' = [line EXCEPT ![k] = Append(@, x)]
        \/ line[k] # <<>> /\ Head(line[k]) \in Nat /\ line' = [line EXCEPT ![k] = Tail(@)]
    BY <1>5, <2>2 DEF Watching, WatchRaces, WatchChecks, WatchPoked
  <2> QED
    BY <1>1, <2>1, <2>3, Standing, WatchersLocked
<1> QED
  BY <1>2, <1>3, <1>4, <1>5, CallsKeepLocked DEF Next, Moves

-----------------------------------------------------------------------------
(* Types.                                                                  *)

\* Counters and sets in an epoch's record stay what they are.
LEMMA EpochFacts ==
    ASSUME NEW e \in Epochs
    PROVE  /\ \A at \in Places, why \in StopReasons, n \in Nat :
                 [e EXCEPT !.at = at, !.why = why, !.lost = n] \in Epochs
           /\ \A at \in Places, n \in Nat : [e EXCEPT !.at = at, !.lost = n] \in Epochs
           /\ \A at \in Places : [e EXCEPT !.at = at] \in Epochs
           /\ \A s \in SUBSET Kids : [e EXCEPT !.owned = s] \in Epochs
           /\ [e EXCEPT !.calm = TRUE] \in Epochs /\ [e EXCEPT !.announced = TRUE] \in Epochs
           /\ \A n \in Nat : [e EXCEPT !.at = "none", !.announced = FALSE, !.calm = FALSE,
                                       !.owned = {}, !.lost = n] \in Epochs
           /\ e.owned \subseteq Kids /\ e.lost \in Nat /\ e.era \in Nat
  BY DEF Epochs, Places, StopReasons

LEMMA NewEpochs == ASSUME TypeOK, NEW k \in Kids, NEW at \in Places PROVE NewEpoch(k, at) \in Epochs
<1>1. epoch[k].era + 1 \in Nat
  BY DEF TypeOK, Epochs
<1> QED
  BY <1>1 DEF NewEpoch, NoEpoch, Epochs, Places

\* The agents and the epochs keep their types.
LEMMA ResidencyTyped ==
    ASSUME IInv, Next PROVE agent' \in [Kids -> Agents] /\ epoch' \in [Kids -> Epochs]
<1> DEFINE Typed == agent' \in [Kids -> Agents] /\ epoch' \in [Kids -> Epochs]
<1>1. /\ TypeOK /\ Locked /\ agent \in [Kids -> Agents] /\ epoch \in [Kids -> Epochs]
      /\ \A k \in Kids : agent[k].unread \in Nat /\ epoch[k].lost \in Nat
  BY DEF IInv, TypeOK, Agents, Epochs
<1>2. \A n, m \in Nat : n + m \in Nat
  OBVIOUS
<1>3. CASE UNCHANGED <<agent, epoch>>
  BY <1>1, <1>3
<1>4. CASE Stops
  <2>1. PICK ks \in SUBSET Kids, why \in StopReasons : Disposes(ks, why)
    BY <1>4 DEF Stops
  <2>2. \A k \in Kids : [epoch[k] EXCEPT !.at = "stopping", !.why = why,
                                         !.lost = agent[k].unread] \in Epochs
    BY <1>1, EpochFacts DEF Places
  <2>3. \A k \in Kids : Cancelled(agent[k], "cancel") \in Agents
    BY <1>1, AgentFacts
  <2> QED
    BY <1>1, <2>1, <2>2, <2>3 DEF Disposes
<1>5. ASSUME NEW k \in Kids, Moves(k) PROVE Typed
  <2>1. UNCHANGED epoch
    BY <1>5 DEF Moves, Claims, TurnEnds, MaintenanceStarts, MaintenanceEnds, Interrupt, Report
  <2>2. CASE Claims(k)
    <3>1. PICK left \in 0..(agent[k].unread - 1) : Becomes(k, [agent[k] EXCEPT !.unread = left])
      BY <2>2 DEF Claims
    <3>2. left \in Nat
      BY <1>1
    <3>3. [agent[k] EXCEPT !.unread = left] \in Agents
      BY <1>1, <3>2 DEF Agents
    <3> QED
      BY <1>1, <2>1, <3>1, <3>3 DEF Becomes
  <2>3. CASE TurnEnds(k) \/ MaintenanceEnds(k)
    BY <1>1, <2>1, <2>3, AgentFacts DEF TurnEnds, MaintenanceEnds, Becomes
  <2>4. CASE MaintenanceStarts(k) \/ Interrupt(k)
    <3>1. /\ [agent[k] EXCEPT !.phase = "maintaining"] \in Agents
          /\ [agent[k] EXCEPT !.abort = "cancel"] \in Agents
      BY <1>1 DEF Agents, Phases
    <3> QED
      BY <1>1, <2>1, <2>4, <3>1 DEF MaintenanceStarts, Interrupt, Becomes
  <2>5. CASE Report(k)
    <3>1. PICK p \in Owner(k) : Becomes(p, Woken(agent[p]))
      BY <2>5 DEF Report
    <3>2. p \in Kids /\ Woken(agent[p]) \in Agents
      BY <1>1, AgentFacts DEF Owner
    <3> QED
      BY <1>1, <2>1, <3>1, <3>2 DEF Becomes
  <2> QED
    BY <1>5, <2>2, <2>3, <2>4, <2>5 DEF Moves
<1>6. ASSUME NEW k \in Kids, Disposal(k) PROVE Typed
  <2>1. CASE Quiets(k)
    BY <1>1, <2>1, EpochFacts DEF Quiets
  <2>2. CASE Flushes(k)
    BY <1>1, <2>2, EpochFacts DEF Flushes, Places
  <2>3. CASE Flushed(k)
    <3>1. [epoch[k] EXCEPT !.at = "releasing", !.lost = epoch[k].lost + agent[k].unread] \in Epochs
      BY <1>1, <1>2, EpochFacts DEF Places
    <3>2. Cancelled(agent[k], "disposed") \in Agents
      BY <1>1, AgentFacts
    <3>3. epoch' = [epoch EXCEPT ![k] = [epoch[k] EXCEPT !.at = "releasing",
                                            !.lost = epoch[k].lost + agent[k].unread]]
      BY <1>1, <2>3 DEF Flushed
    <3> QED
      BY <1>1, <2>3, <3>1, <3>2, <3>3 DEF Flushed, Becomes
  <2>4. CASE Releases(k)
    <3>1. Gone(k) \in Epochs
      <4>1. Gone(k) = [epoch[k] EXCEPT !.at = "none", !.announced = FALSE, !.calm = FALSE,
                          !.owned = {}, !.lost = epoch[k].lost + agent[k].unread]
        BY <1>1 DEF Gone
      <4>2. epoch[k].lost + agent[k].unread \in Nat
        BY <1>1, <1>2
      <4>3. epoch[k] \in Epochs
        BY <1>1
      <4> QED
        BY <4>1, <4>2, <4>3, EpochFacts
    <3>2. \A j \in Kids : [epoch[j] EXCEPT !.owned = epoch[j].owned \ {k}] \in Epochs
      BY <1>1, EpochFacts
    <3>3. Resting \in Agents /\ \A j \in Kids : Woken(agent[j]) \in Agents
      BY <1>1, AgentFacts DEF Resting, Agents, Phases
    <3>4. \A j \in Kids : epoch'[j] \in Epochs
      BY <2>4, <3>1, <3>2 DEF Releases
    <3>5. epoch' = [j \in Kids |-> epoch'[j]]
      BY <2>4 DEF Releases
    <3> QED
      BY <1>1, <2>4, <3>3, <3>4, <3>5 DEF Releases
  <2> QED
    BY <1>6, <2>1, <2>2, <2>3, <2>4 DEF Disposal
<1>7. ASSUME NEW c \in Calls, Admits(c) PROVE Typed
  <2>1. \A j \in Kids : /\ [epoch[j] EXCEPT !.announced = TRUE] \in Epochs
                        /\ [epoch[j] EXCEPT !.owned = epoch[j].owned \cup {Kid(c)}] \in Epochs
    BY <1>1, <1>7, EpochFacts DEF Admits
  <2>2. Kid(c) \in Kids /\ Woken(agent[Kid(c)]) \in Agents
    BY <1>1, <1>7, AgentFacts DEF Admits
  <2>3. epoch' = [j \in Kids |-> epoch'[j]] /\ \A j \in Kids : epoch'[j] \in Epochs
    BY <1>1, <1>7, <2>1 DEF Admits, Accepts
  <2> QED
    BY <1>1, <1>7, <2>2, <2>3 DEF Admits, Accepts, Becomes
<1>8. ASSUME NEW c \in Calls, Installs(c) PROVE Typed
  <2>1. Kid(c) \in Kids
    BY <1>1, <1>8 DEF Installs, Locked
  <2>2. \A at \in Places : NewEpoch(Kid(c), at) \in Epochs
    BY <1>1, <2>1, NewEpochs
  <2>3. \A j \in Kids : [epoch[j] EXCEPT !.owned = epoch[j].owned \cup {Kid(c)}] \in Epochs
    BY <1>1, <2>1, EpochFacts
  <2>4. epoch' = [j \in Kids |-> epoch'[j]] /\ \A j \in Kids : epoch'[j] \in Epochs
    BY <1>1, <1>8, <2>2, <2>3 DEF Installs, Places
  <2> QED
    BY <1>1, <1>8, <2>4 DEF Installs
<1>9. ASSUME NEW c \in Calls, Undone(c) PROVE Typed
  <2>1. Kid(c) \in Kids
    BY <1>1, <1>9 DEF Undone, Locked
  <2>2. Resting \in Agents /\ [epoch[Kid(c)] EXCEPT !.at = "none"] \in Epochs
    BY <1>1, <2>1, EpochFacts DEF Resting, Agents, Phases, Places
  <2> QED
    BY <1>1, <1>9, <2>2 DEF Undone, Becomes
<1> QED
  BY <1>3, <1>4, <1>5, <1>6, <1>7, <1>8, <1>9, StepCases

\* The rest of the children's state, and the counters.
Others ==
    /\ watch \in [Kids -> {"none", "racing", "queued", "resting"}]
    /\ poked \subseteq Kids /\ known \subseteq Kids
    /\ drain \in {"no", "barrier", "waiting", "done"} /\ scope \in {"no", "waiting", "done"}
    /\ inputs \in Nat

LEMMA DisposesTyped ==
    ASSUME TypeOK, NEW ks \in SUBSET Kids, NEW why, Disposes(ks, why)
    PROVE  watch' \in [Kids -> {"none", "racing", "queued", "resting"}] /\ poked' \subseteq Kids
  BY DEF Disposes, TypeOK

LEMMA OthersTyped == ASSUME IInv, Next PROVE Others'
<1>1. TypeOK /\ Others /\ Locked
  BY DEF IInv, TypeOK, Others
<1>2. CASE DrainStarts \/ ScopeStarts \/ Draining
  BY <1>1, <1>2, DisposesTyped
     DEF Others, DrainStarts, ScopeStarts, Draining, DrainDisposes, DrainEnds, ScopeEnds, residency
<1>3. ASSUME NEW k \in Kids, Moves(k) PROVE Others'
  BY <1>1, <1>3 DEF Others, Moves, Claims, TurnEnds, MaintenanceStarts, MaintenanceEnds, Interrupt,
                    Report, Owner, Spends
<1>4. ASSUME NEW k \in Kids, Disposal(k) PROVE Others'
  BY <1>1, <1>4 DEF Others, Disposal, Quiets, Flushes, Flushed, Releases, Informed, Owner
<1>5. ASSUME NEW k \in Kids, Watching(k) \/ StopTeammate(k) PROVE Others'
  BY <1>1, <1>5, DisposesTyped
     DEF Others, Watching, WatchRaces, WatchChecks, WatchPoked, StopTeammate, residency
<1>6. ASSUME NEW c \in Calls, Begin(c) \/ HostAborts(c) \/ CreationFails(c) PROVE Others'
  BY <1>1, <1>6 DEF Others, Begin, HostAborts, CreationFails, residency, Spends
<1>7. ASSUME NEW c \in Calls, CallSteps(c) PROVE Others'
  <2>1. call[c].at \notin {"none", "done"} => Kid(c) \in Kids
    BY <1>1 DEF Locked
  <2>2. CASE Prepared(c) \/ StartProceeds(c) \/ Awaited(c) \/ Inspected(c) \/ Left(c) \/ Undone(c)
    BY <1>1, <2>2 DEF Others, Prepared, StartProceeds, Awaited, Inspected, Left, Undone, residency
  <2>3. CASE FollowupProceeds(c) \/ Submits(c)
    BY <1>1, <2>1, <2>3, DisposesTyped DEF Others, FollowupProceeds, Submits, Accepts, residency
  <2>4. CASE Installs(c)
    BY <1>1, <2>1, <2>4 DEF Others, Installs
  <2> QED
    BY <1>7, <2>2, <2>3, <2>4 DEF CallSteps
<1> QED
  BY <1>2, <1>3, <1>4, <1>5, <1>6, <1>7 DEF Next, Moves

Items == Calls \cup Nat

\* A call that moves on, or is over, and a line that is joined or left, keep their types.
LEMMA CallsFacts ==
    ASSUME TypeOK, NEW c \in Calls
    PROVE  /\ \A at \in {"preparing", "queued"} \cup Inside : At(c, at) => call' \in [Calls -> Callers]
           /\ Over(c) => call' \in [Calls -> Callers]
<1>1. call \in [Calls -> Callers] /\ call[c] \in Callers
  BY DEF TypeOK
<1>2. ASSUME NEW at \in {"preparing", "queued"} \cup Inside, At(c, at)
      PROVE  call' \in [Calls -> Callers]
  <2>1. [call[c] EXCEPT !.at = at] \in Callers
    BY <1>1 DEF Callers
  <2>2. call' = [call EXCEPT ![c] = [call[c] EXCEPT !.at = at]]
    BY <1>1, <1>2 DEF At
  <2> QED
    BY <1>1, <2>1, <2>2
<1>3. [NoCall EXCEPT !.at = "done"] \in Callers
  BY DEF NoCall, Callers
<1> QED
  BY <1>1, <1>2, <1>3 DEF Over

LEMMA LinesFacts ==
    ASSUME TypeOK, NEW k \in Kids, NEW x \in Items
    PROVE  /\ line' = [line EXCEPT ![k] = Append(@, x)] => line' \in [Kids -> Seq(Items)]
           /\ line[k] # <<>> /\ line' = [line EXCEPT ![k] = Tail(@)] => line' \in [Kids -> Seq(Items)]
           /\ line[k] # <<>> /\ line' = [line EXCEPT ![k] = Append(Tail(@), x)] =>
                 line' \in [Kids -> Seq(Items)]
<1>1. line \in [Kids -> Seq(Items)] /\ line[k] \in Seq(Items)
  BY DEF TypeOK, Items
<1>2. /\ Append(line[k], x) \in Seq(Items)
      /\ line[k] # <<>> => Tail(line[k]) \in Seq(Items) /\ Append(Tail(line[k]), x) \in Seq(Items)
  BY <1>1, LineFacts
<1> QED
  BY <1>1, <1>2

LEMMA CallsTyped == ASSUME IInv, Next PROVE call' \in [Calls -> Callers] /\ line' \in [Kids -> Seq(Items)]
<1> DEFINE Typed == call' \in [Calls -> Callers] /\ line' \in [Kids -> Seq(Items)]
<1>1. /\ TypeOK /\ Locked /\ call \in [Calls -> Callers] /\ line \in [Kids -> Seq(Items)]
      /\ Calls \subseteq Items /\ Nat \subseteq Items
  BY DEF IInv, TypeOK, Items
<1>2. CASE UNCHANGED <<call, line>>
  BY <1>1, <1>2
<1>3. CASE DrainStarts \/ ScopeStarts \/ Draining
  BY <1>2, <1>3 DEF DrainStarts, ScopeStarts, Draining, DrainDisposes, DrainEnds, ScopeEnds
<1>4. ASSUME NEW k \in Kids, Moves(k) \/ Disposal(k) \/ StopTeammate(k) PROVE Typed
  BY <1>2, <1>4 DEF Moves, Claims, TurnEnds, MaintenanceStarts, MaintenanceEnds, Interrupt, Report,
                    Disposal, Quiets, Flushes, Flushed, Releases, StopTeammate
<1>5. ASSUME NEW k \in Kids, Watching(k) PROVE Typed
  <2>1. epoch[k].era \in Items
    BY <1>1 DEF TypeOK, Epochs
  <2>2. CASE WatchRaces(k)
    BY <1>1, <2>1, <2>2, LinesFacts DEF WatchRaces
  <2>3. CASE WatchChecks(k)
    BY <1>1, <2>1, <2>3, LinesFacts DEF WatchChecks
  <2>4. CASE WatchPoked(k)
    BY <1>2, <2>4 DEF WatchPoked
  <2> QED
    BY <1>5, <2>2, <2>3, <2>4 DEF Watching
<1>6. ASSUME NEW c \in Calls, Begin(c) PROVE Typed
  <2>1. PICK k \in Kids, op \in {"start", "followup"}, by \in {"turn", "host"} :
          /\ \A p \in Owner(k) : Live(p)
          /\ call' = [call EXCEPT ![c] = Opened(k, op, by)]
          /\ line' = IF op = "start" THEN line ELSE [line EXCEPT ![k] = Append(@, c)]
    BY <1>6 DEF Begin
  <2>2. (IF Owner(k) = {} THEN 0 ELSE epoch[ParentOf[k]].era) \in Nat
    BY <1>1 DEF Owner, TypeOK, Epochs
  <2>3. call' \in [Calls -> Callers]
    <3>1. Opened(k, op, by) \in Callers
      BY <2>2 DEF Opened, Callers
    <3> QED
      BY <1>1, <2>1, <3>1
  <2>4. line' \in [Kids -> Seq(Items)]
    BY <1>1, <2>1, LinesFacts
  <2> QED
    BY <2>3, <2>4
<1>7. ASSUME NEW c \in Calls, HostAborts(c) PROVE Typed
  <2>1. [call[c] EXCEPT !.aborted = TRUE] \in Callers
    BY <1>1 DEF Callers
  <2>2. call' = [call EXCEPT ![c] = [call[c] EXCEPT !.aborted = TRUE]] /\ line' = line
    BY <1>1, <1>7 DEF HostAborts
  <2> QED
    BY <1>1, <2>1, <2>2
<1>8. ASSUME NEW c \in Calls, CreationFails(c) \/ CallSteps(c) PROVE Typed
  <2>1. /\ call[c].at \notin {"none", "done"} => Kid(c) \in Kids
        /\ call[c].at \in Inside => Holds(c)
    BY <1>1 DEF Locked
  <2>2. Kid(c) \in Kids /\ Holds(c) /\ Ends(c) => Typed
    BY <1>1, CallsFacts, LinesFacts DEF Ends, Leaves, Holds
  <2>3. \A at \in {"preparing", "queued"} \cup Inside : At(c, at) /\ UNCHANGED line => Typed
    BY <1>1, CallsFacts
  <2>4. CASE Prepared(c)
    <3>1. Kid(c) \in Kids
      BY <2>1, <2>4 DEF Prepared
    <3>2. CASE Over(c) /\ UNCHANGED line
      BY <1>1, <3>2, CallsFacts
    <3>3. CASE At(c, "queued") /\ line' = [line EXCEPT ![Kid(c)] = Append(@, c)]
      BY <1>1, <3>1, <3>3, CallsFacts, LinesFacts
    <3> QED
      BY <2>4, <3>2, <3>3 DEF Prepared
  <2>5. CASE StartProceeds(c) \/ FollowupProceeds(c)
    <3>1. Kid(c) \in Kids /\ Holds(c)
      BY <2>1, <2>5 DEF StartProceeds, FollowupProceeds
    <3> QED
      BY <2>2, <2>3, <2>5, <3>1 DEF StartProceeds, FollowupProceeds, Inside
  <2>6. CASE Awaited(c)
    <3>1. Kid(c) \in Kids /\ Holds(c) /\ line[Kid(c)] # <<>>
      BY <2>1, <2>6 DEF Awaited, Inside, Holds
    <3>2. CASE At(c, "queued") /\ line' = [line EXCEPT ![Kid(c)] = Append(Tail(@), c)]
      BY <1>1, <3>1, <3>2, CallsFacts, LinesFacts
    <3> QED
      BY <2>2, <2>6, <3>1, <3>2 DEF Awaited
  <2>7. CASE Inspected(c) \/ CreationFails(c) \/ Installs(c)
    BY <2>1, <2>2, <2>3, <2>7 DEF Inspected, CreationFails, Installs, Inside
  <2>8. CASE Undone(c) \/ Submits(c) \/ Left(c)
    BY <2>1, <2>2, <2>3, <2>8 DEF Undone, Submits, Left, Inside
  <2> QED
    BY <1>8, <2>4, <2>5, <2>6, <2>7, <2>8 DEF CallSteps
<1> QED
  BY <1>3, <1>4, <1>5, <1>6, <1>7, <1>8 DEF Next, Moves

-----------------------------------------------------------------------------
(* Nothing a child was told is dropped when it settles: the second layer.  *)

\* An agent with nothing to do, and nothing to take up.
Quiet(k) == agent[k].phase # "running" /\ agent[k].unread = 0 /\ ~agent[k].latched

\* A child between its installation and its first message.
Handing(k) == \E c \in Calls : call[c].at = "submitting" /\ Kid(c) = k

\* Who is not resident is quiet.
Dormant == \A k \in Kids : epoch[k].at \in {"none", "undoing"} => Quiet(k)

\* A child that waits for its first message is quiet, and so far nobody was told of it
\* or of a child of its own.
Untold ==
    \A c \in Calls : call[c].at = "submitting" =>
        /\ Quiet(Kid(c)) /\ ~epoch[Kid(c)].announced
        /\ \A j \in epoch[Kid(c)].owned : ~epoch[j].announced

\* Any other child that is up was announced.
Told == \A k \in Kids : Up(k) => epoch[k].announced \/ Handing(k)

\* A call names its parent by the epoch it began in; the child it installs is owned by
\* that epoch or by none.
Eras ==
    \A c \in Calls : call[c].at \notin {"none", "done"} => \A p \in Owner(Kid(c)) :
        /\ call[c].era <= epoch[p].era
        /\ call[c].at = "submitting" /\ Up(Kid(c)) /\ Live(p) /\ call[c].era = epoch[p].era
              => Kid(c) \in epoch[p].owned

\* A child that settled lost nothing, and until it is gone nothing can reach it.
Settled ==
    \A k \in Kids :
        /\ epoch[k].at \in {"up", "undoing"} => epoch[k].why = "none"
        /\ epoch[k].why = "settled" =>
              /\ epoch[k].lost = 0
              /\ Live(k) => epoch[k].owned = {} /\ Quiet(k)

Minded == Dormant /\ Untold /\ Told /\ Eras /\ Settled

\* A call that is accepted: to a child that is up, by whoever holds the lock, or to the
\* child it has installed.
Accepting(c) ==
    /\ Accepts(c) /\ ~Refused(c) /\ Kid(c) \in Kids /\ Holds(c) /\ Over(c)
    /\ call[c].at = "queued" \/ (call[c].at = "submitting" /\ Foremost(c))

Settling(k) == StateOf(k) = "settled" /\ Disposes({k}, "settled")
Stopping == \E ks \in SUBSET Kids, why \in StopReasons \ {"settled"} : Disposes(ks, why)

\* The kinds of step again, with what an acceptance and a settlement know.
LEMMA FinerCases ==
    ASSUME IInv, Next
    PROVE  \/ UNCHANGED <<agent, epoch>>
           \/ Stopping
           \/ \E k \in Kids : Settling(k) \/ Moves(k) \/ Disposal(k)
           \/ \E c \in Calls : Accepting(c) \/ Installs(c) \/ Undone(c)
<1> USE DEF residency
<1>1. CASE DrainStarts \/ ScopeStarts \/ Draining
  BY <1>1 DEF DrainStarts, ScopeStarts, Draining, DrainDisposes, DrainEnds, ScopeEnds, Stopping,
              StopReasons
<1>2. ASSUME NEW k \in Kids, Watching(k)
      PROVE  UNCHANGED <<agent, epoch>> \/ Settling(k)
  BY <1>2 DEF Watching, WatchRaces, WatchChecks, WatchPoked, Settling
<1>3. ASSUME NEW k \in Kids, StopTeammate(k)
      PROVE  Stopping
  BY <1>3 DEF StopTeammate, Stopping, StopReasons
<1>4. ASSUME NEW c \in Calls, Begin(c) \/ HostAborts(c) \/ CreationFails(c)
      PROVE  UNCHANGED <<agent, epoch>>
  BY <1>4 DEF Begin, HostAborts, CreationFails
<1>5. ASSUME NEW c \in Calls, CallSteps(c)
      PROVE  UNCHANGED <<agent, epoch>> \/ Stopping \/ Accepting(c) \/ Installs(c) \/ Undone(c)
  <2>1. /\ call[c].at \notin {"none", "done"} => Kid(c) \in Kids
        /\ call[c].at \in Inside => Holds(c)
    BY DEF IInv, Locked
  <2>2. CASE Prepared(c) \/ StartProceeds(c) \/ Awaited(c) \/ Inspected(c) \/ Left(c)
    BY <2>2 DEF Prepared, StartProceeds, Awaited, Inspected, Left
  <2>3. CASE FollowupProceeds(c)
    BY <2>1, <2>3 DEF FollowupProceeds, Accepting, Ends
  <2>4. CASE Submits(c)
    BY <2>1, <2>4 DEF Submits, Accepting, Stopping, StopReasons, Inside, Ends
  <2> QED
    BY <1>5, <2>2, <2>3, <2>4 DEF CallSteps
<1> QED
  BY <1>1, <1>2, <1>3, <1>4, <1>5 DEF Next, Moves

\* What one step does to one epoch.
Stays(k) ==
    /\ epoch'[k].at = epoch[k].at /\ epoch'[k].why = epoch[k].why /\ epoch'[k].era = epoch[k].era
    /\ epoch'[k].lost = epoch[k].lost
Loses(k) ==
    /\ Stays(k) /\ epoch'[k].announced = epoch[k].announced
    /\ \E j \in Kids : Releases(j) /\ epoch'[k].owned = epoch[k].owned \ {j}
Gains(k) ==
    /\ Stays(k) /\ epoch'[k].announced = epoch[k].announced
    /\ Up(k)
    /\ \E c \in Calls : /\ Accepting(c) \/ Installs(c)
                        /\ k \in Owner(Kid(c)) /\ epoch'[k].owned = epoch[k].owned \cup {Kid(c)}
IsTold(k) ==
    /\ Stays(k) /\ epoch'[k].announced /\ epoch'[k].owned = epoch[k].owned
    /\ Up(k) /\ \E c \in Calls : Accepting(c) /\ Kid(c) = k
IsStopped(k) ==
    /\ Up(k)
    /\ epoch'[k].at = "stopping" /\ epoch'[k].announced = epoch[k].announced
    /\ epoch'[k].owned = epoch[k].owned /\ epoch'[k].era = epoch[k].era
    /\ epoch'[k].lost = agent[k].unread
    /\ agent'[k] = Cancelled(agent[k], "cancel")
    /\ epoch'[k].why = "settled" => StateOf(k) = "settled"
Closes(k) ==
    /\ Closing(k) /\ epoch'[k].at \in {"stopping", "flushing", "releasing"}
    /\ epoch'[k].why = epoch[k].why /\ epoch'[k].announced = epoch[k].announced
    /\ epoch'[k].owned = epoch[k].owned /\ epoch'[k].era = epoch[k].era
    /\ epoch'[k].lost \in {epoch[k].lost, epoch[k].lost + agent[k].unread}
IsGone(k) ==
    /\ Releases(k) /\ epoch[k].at = "releasing"
    /\ epoch'[k].at = "none" /\ ~epoch'[k].announced /\ epoch'[k].owned = {}
    /\ epoch'[k].why = epoch[k].why /\ epoch'[k].era = epoch[k].era
    /\ epoch'[k].lost = epoch[k].lost + agent[k].unread
    /\ agent'[k] = Resting
IsNew(k) ==
    \E c \in Calls :
        /\ Installs(c) /\ Kid(c) = k /\ epoch[k].at = "none"
        /\ epoch'[k].at \in {"up", "undoing"} /\ ~epoch'[k].announced /\ epoch'[k].owned = {}
        /\ epoch'[k].why = "none" /\ epoch'[k].era = epoch[k].era + 1
        /\ epoch'[k].at = "up" => call'[c].at = "submitting" /\ call'[c].kid = k
IsUndone(k) ==
    /\ \E c \in Calls : Undone(c) /\ Kid(c) = k
    /\ epoch[k].at = "undoing" /\ epoch'[k].at = "none" /\ agent'[k] = Resting
    /\ epoch'[k].why = epoch[k].why /\ epoch'[k].era = epoch[k].era
    /\ epoch'[k].announced = epoch[k].announced /\ epoch'[k].owned = epoch[k].owned

Turns(k) ==
    \/ epoch'[k] = epoch[k] \/ Loses(k) \/ Gains(k) \/ IsTold(k) \/ IsStopped(k) \/ Closes(k)
    \/ IsGone(k) \/ IsNew(k) \/ IsUndone(k)

LEMMA Disposed ==
    ASSUME TypeOK, NEW ks \in SUBSET Kids, NEW why \in StopReasons, Disposes(ks, why),
           why = "settled" => \E j \in Kids : ks = {j} /\ StateOf(j) = "settled",
           NEW k \in Kids
    PROVE  epoch'[k] = epoch[k] \/ IsStopped(k)
<1> DEFINE all == Reached({j \in ks : Up(j)})
<1>1. all \subseteq Kids /\ \A j \in all : Up(j)
  BY Reach DEF Reached
<1>2. /\ agent'[k] = IF k \in all THEN Cancelled(agent[k], "cancel") ELSE agent[k]
      /\ epoch'[k] = IF k \in all THEN [epoch[k] EXCEPT !.at = "stopping", !.why = why,
                                                        !.lost = agent[k].unread]
                     ELSE epoch[k]
  BY DEF Disposes
<1>3. ASSUME why = "settled", k \in all PROVE StateOf(k) = "settled"
  <2>1. PICK j \in Kids : ks = {j} /\ StateOf(j) = "settled"
    BY <1>3
  <2>2. epoch[j].owned = {}
    BY <2>1 DEF StateOf
  <2>3. Recurs({j}) /\ {i \in ks : Up(i)} \subseteq {j} /\ {j} \in SUBSET Kids
    BY <2>1, <2>2 DEF Recurs
  <2>4. k \in {j}
    BY <1>3, <2>3 DEF Reached
  <2> QED
    BY <2>1, <2>4
<1>4. epoch[k] \in Epochs
  BY DEF TypeOK
<1> HIDE DEF all
<1>5. CASE k \in all
  <2>1. epoch'[k] = [epoch[k] EXCEPT !.at = "stopping", !.why = why, !.lost = agent[k].unread]
    BY <1>2, <1>5
  <2>2. /\ epoch'[k].at = "stopping" /\ epoch'[k].why = why /\ epoch'[k].lost = agent[k].unread
        /\ epoch'[k].announced = epoch[k].announced /\ epoch'[k].owned = epoch[k].owned
        /\ epoch'[k].era = epoch[k].era
    BY <1>4, <2>1 DEF Epochs
  <2>3. agent'[k] = Cancelled(agent[k], "cancel") /\ Up(k)
    BY <1>1, <1>2, <1>5
  <2> QED
    BY <1>3, <1>5, <2>2, <2>3 DEF IsStopped
<1> QED
  BY <1>2, <1>5

LEMMA TurnsOf == ASSUME IInv, Next, NEW k \in Kids PROVE Turns(k)
<1> USE DEF Turns
<1>1. /\ TypeOK /\ Locked /\ Owning /\ epoch[k] \in Epochs
      /\ epoch \in [Kids -> Epochs] /\ agent \in [Kids -> Agents]
  BY DEF IInv, TypeOK
<1>2. CASE UNCHANGED <<agent, epoch>>
  BY <1>2
<1>3. CASE Stopping
  <2>1. PICK ks \in SUBSET Kids, why \in StopReasons \ {"settled"} : Disposes(ks, why)
    BY <1>3 DEF Stopping
  <2> QED
    BY <1>1, <2>1, Disposed
<1>4. ASSUME NEW j \in Kids, Settling(j) PROVE Turns(k)
  <2>1. Disposes({j}, "settled") /\ "settled" \in StopReasons /\ {j} \in SUBSET Kids
    BY <1>4 DEF Settling, StopReasons
  <2>2. \E i \in Kids : {j} = {i} /\ StateOf(i) = "settled"
    BY <1>4 DEF Settling
  <2> QED
    BY <1>1, <2>1, <2>2, Disposed
<1>5. ASSUME NEW j \in Kids, Moves(j) PROVE Turns(k)
  BY <1>5 DEF Moves, Claims, TurnEnds, MaintenanceStarts, MaintenanceEnds, Interrupt, Report
<1>6. ASSUME NEW j \in Kids, Quiets(j) \/ Flushes(j) PROVE Turns(k)
  <2>1. \/ epoch'[k] = epoch[k]
        \/ epoch'[k] = [epoch[k] EXCEPT !.calm = TRUE] /\ epoch[k].at = "stopping"
        \/ epoch'[k] = [epoch[k] EXCEPT !.at = "flushing"] /\ epoch[k].at = "stopping"
    BY <1>1, <1>6 DEF Quiets, Flushes
  <2> QED
    BY <1>1, <2>1 DEF Epochs, Closes, Closing, Live, Up
<1>7. ASSUME NEW j \in Kids, Flushed(j) PROVE Turns(k)
  <2>1. \/ epoch'[k] = epoch[k]
        \/ /\ epoch'[k] = [epoch[k] EXCEPT !.at = "releasing", !.lost = epoch[k].lost + agent[k].unread]
           /\ epoch[k].at = "flushing"
    BY <1>1, <1>7 DEF Flushed
  <2> QED
    BY <1>1, <2>1 DEF Epochs, Closes, Closing, Live, Up
<1>8. ASSUME NEW j \in Kids, Releases(j) PROVE Turns(k)
  <2>1. CASE k = j
    <3>1. epoch'[k] = Gone(k) /\ epoch[k].at = "releasing" /\ agent'[k] = Resting
      BY <1>8, <2>1 DEF Releases
    <3>2. Gone(k) = [epoch[k] EXCEPT !.at = "none", !.announced = FALSE, !.calm = FALSE,
                                     !.owned = {}, !.lost = epoch[k].lost + agent[k].unread]
      BY <1>1 DEF Gone
    <3>3. /\ epoch'[k].at = "none" /\ ~epoch'[k].announced /\ epoch'[k].owned = {}
          /\ epoch'[k].why = epoch[k].why /\ epoch'[k].era = epoch[k].era
          /\ epoch'[k].lost = epoch[k].lost + agent[k].unread
      BY <1>1, <3>1, <3>2 DEF Epochs
    <3> QED
      BY <1>8, <2>1, <3>1, <3>3 DEF IsGone
  <2>2. CASE k # j
    <3>1. epoch'[k] = [epoch[k] EXCEPT !.owned = epoch[k].owned \ {j}]
      BY <1>8, <2>2 DEF Releases
    <3>2. /\ Stays(k) /\ epoch'[k].announced = epoch[k].announced
          /\ epoch'[k].owned = epoch[k].owned \ {j}
      BY <1>1, <3>1 DEF Stays, Epochs
    <3> QED
      BY <1>8, <3>2 DEF Loses
  <2> QED
    BY <2>1, <2>2
<1>9. ASSUME NEW c \in Calls, Accepting(c) PROVE Turns(k)
  <2>1. epoch'[k] = IF k = Kid(c) THEN [epoch[k] EXCEPT !.announced = TRUE]
                    ELSE IF k \in Owner(Kid(c))
                    THEN [epoch[k] EXCEPT !.owned = epoch[k].owned \cup {Kid(c)}]
                    ELSE epoch[k]
    BY <1>9 DEF Accepting, Accepts
  <2>2. Up(Kid(c)) /\ \A p \in Owner(Kid(c)) : Up(p)
    BY <1>9 DEF Accepting, Refused, ParentLive, ParentClosing, Closing
  <2>3. CASE k = Kid(c)
    <3>1. Stays(k) /\ epoch'[k].announced /\ epoch'[k].owned = epoch[k].owned
      BY <1>1, <2>1, <2>3 DEF Epochs, Stays
    <3> QED
      BY <1>9, <2>2, <2>3, <3>1 DEF IsTold
  <2>4. CASE k # Kid(c) /\ k \in Owner(Kid(c))
    <3>1. /\ Stays(k) /\ epoch'[k].announced = epoch[k].announced
          /\ epoch'[k].owned = epoch[k].owned \cup {Kid(c)}
      BY <1>1, <2>1, <2>4 DEF Epochs, Stays
    <3> QED
      BY <1>9, <2>2, <2>4, <3>1 DEF Gains
  <2> QED
    BY <2>1, <2>3, <2>4
<1>10. ASSUME NEW c \in Calls, Installs(c) PROVE Turns(k)
  <2>1. Kid(c) \in Kids /\ epoch[Kid(c)].at = "none" /\ call[c] \in Callers
    BY <1>1, <1>10 DEF Installs, Locked, Live, TypeOK
  <2>2. CASE k = Kid(c)
    <3>1. \/ epoch'[k] = NewEpoch(k, "undoing")
          \/ epoch'[k] = NewEpoch(k, "up") /\ At(c, "submitting")
      BY <1>1, <1>10, <2>2 DEF Installs
    <3>2. \A at : /\ NewEpoch(k, at).at = at /\ ~NewEpoch(k, at).announced
                  /\ NewEpoch(k, at).owned = {} /\ NewEpoch(k, at).why = "none"
                  /\ NewEpoch(k, at).era = epoch[k].era + 1
      BY DEF NewEpoch, NoEpoch
    <3>3. At(c, "submitting") => call'[c].at = "submitting" /\ call'[c].kid = k
      BY <1>1, <2>1, <2>2 DEF At, Callers, TypeOK, Kid
    <3>4. epoch'[k].at = "up" => call'[c].at = "submitting" /\ call'[c].kid = k
      BY <3>1, <3>2, <3>3
    <3>5. /\ epoch'[k].at \in {"up", "undoing"} /\ ~epoch'[k].announced /\ epoch'[k].owned = {}
          /\ epoch'[k].why = "none" /\ epoch'[k].era = epoch[k].era + 1
      BY <3>1, <3>2
    <3> QED
      BY <1>10, <2>1, <2>2, <3>4, <3>5 DEF IsNew
  <2>3. CASE k # Kid(c)
    <3>1. \/ epoch'[k] = epoch[k]
          \/ /\ epoch'[k] = [epoch[k] EXCEPT !.owned = epoch[k].owned \cup {Kid(c)}]
             /\ k \in Owner(Kid(c)) /\ Live(k) /\ ~ParentClosing(c)
      BY <1>1, <1>10, <2>3 DEF Installs
    <3>2. CASE epoch'[k] = epoch[k]
      BY <3>2
    <3>3. CASE /\ epoch'[k] = [epoch[k] EXCEPT !.owned = epoch[k].owned \cup {Kid(c)}]
               /\ k \in Owner(Kid(c)) /\ Live(k) /\ ~ParentClosing(c)
      <4>1. Up(k)
        BY <3>3 DEF ParentClosing, Closing
      <4>2. /\ Stays(k) /\ epoch'[k].announced = epoch[k].announced
            /\ epoch'[k].owned = epoch[k].owned \cup {Kid(c)}
        BY <1>1, <3>3 DEF Epochs, Stays
      <4> QED
        BY <1>10, <3>3, <4>1, <4>2 DEF Gains
    <3> QED
      BY <3>1, <3>2, <3>3
  <2> QED
    BY <2>2, <2>3
<1>11. ASSUME NEW c \in Calls, Undone(c) PROVE Turns(k)
  <2>1. Kid(c) \in Kids /\ epoch[Kid(c)].at = "undoing"
    BY <1>1, <1>11 DEF Undone, Locked
  <2>2. CASE k = Kid(c)
    <3>1. epoch'[k] = [epoch[k] EXCEPT !.at = "none"] /\ agent'[k] = Resting
      BY <1>1, <1>11, <2>1, <2>2 DEF Undone, Becomes
    <3>2. /\ epoch'[k].at = "none" /\ epoch'[k].why = epoch[k].why /\ epoch'[k].era = epoch[k].era
          /\ epoch'[k].announced = epoch[k].announced /\ epoch'[k].owned = epoch[k].owned
      BY <1>1, <3>1 DEF Epochs
    <3> QED
      BY <1>11, <2>1, <2>2, <3>1, <3>2 DEF IsUndone
  <2>3. CASE k # Kid(c)
    BY <1>1, <1>11, <2>1, <2>3 DEF Undone
  <2> QED
    BY <2>2, <2>3
<1> QED
  BY <1>2, <1>3, <1>4, <1>5, <1>6, <1>7, <1>8, <1>9, <1>10, <1>11, FinerCases DEF Disposal

\* A call that is about to submit was so before, or has just installed its child.
CallKept(d) ==
    /\ call[d].at \notin {"none", "done"} /\ Kid(d)' = Kid(d) /\ call'[d].era = call[d].era
    /\ call'[d].at = "submitting" => call[d].at = "submitting" \/ Installs(d)
CallBegins(d) ==
    /\ UNCHANGED epoch /\ Kid(d)' \in Kids /\ call'[d].at \in {"preparing", "queued"}
    /\ \A p \in Owner(Kid(d)') : call'[d].era = epoch[p].era
CallTurns(d) == call'[d].at \in {"none", "done"} \/ CallKept(d) \/ CallBegins(d)

LEMMA CallTurnsOf == ASSUME IInv, Next, NEW d \in Calls PROVE CallTurns(d)
<1> USE DEF CallTurns
<1>1. call \in [Calls -> Callers] /\ call[d] \in Callers
  BY DEF IInv, TypeOK
<1>2. CASE UNCHANGED call
  BY <1>2 DEF CallKept, Kid
<1>3. CASE DrainStarts \/ ScopeStarts \/ Draining
  BY <1>2, <1>3 DEF DrainStarts, ScopeStarts, Draining, DrainDisposes, DrainEnds, ScopeEnds
<1>4. ASSUME NEW k \in Kids, Moves(k) \/ Disposal(k) \/ StopTeammate(k) \/ Watching(k)
      PROVE  CallTurns(d)
  BY <1>2, <1>4 DEF Moves, Claims, TurnEnds, MaintenanceStarts, MaintenanceEnds, Interrupt, Report,
                    Disposal, Quiets, Flushes, Flushed, Releases, StopTeammate, Watching, WatchRaces,
                    WatchChecks, WatchPoked
<1>5. ASSUME NEW c \in Calls, Begin(c) PROVE CallTurns(d)
  <2>1. PICK k \in Kids, op \in {"start", "followup"}, by \in {"turn", "host"} :
          call' = [call EXCEPT ![c] = Opened(k, op, by)]
    BY <1>5 DEF Begin
  <2>2. CASE d = c
    <3>1. call'[d] = Opened(k, op, by) /\ UNCHANGED epoch
      BY <1>1, <1>5, <2>1, <2>2 DEF Begin, residency
    <3>2. call'[d].at \in {"preparing", "queued"} /\ call'[d].kid = k
      BY <3>1 DEF Opened
    <3>3. \A p \in Owner(k) : p = ParentOf[k] /\ call'[d].era = epoch[p].era
      BY <3>1 DEF Opened, Owner
    <3> QED
      BY <3>1, <3>2, <3>3 DEF CallBegins, Kid
  <2>3. CASE d # c
    BY <1>1, <2>1, <2>3 DEF CallKept, Kid
  <2> QED
    BY <2>2, <2>3
<1>6. ASSUME NEW c \in Calls, HostAborts(c) PROVE CallTurns(d)
  <2>1. \/ call'[d] = call[d]
        \/ call'[d] = [call[d] EXCEPT !.aborted = TRUE] /\ call[d].at \notin {"none", "done"}
    BY <1>1, <1>6 DEF HostAborts
  <2> QED
    BY <1>1, <2>1 DEF CallKept, Kid, Callers
<1>7. ASSUME NEW c \in Calls, CreationFails(c) \/ CallSteps(c) PROVE CallTurns(d)
  <2>1. call[c].at \notin {"none", "done"}
    BY <1>7 DEF CreationFails, CallSteps, Prepared, StartProceeds, FollowupProceeds, Awaited,
                Inspected, Installs, Undone, Submits, Left
  <2>2. Over(c) => CallTurns(d)
    BY <1>1 DEF Over, NoCall, CallKept, Kid
  <2>3. ASSUME NEW at, At(c, at), at = "submitting" => Installs(c) PROVE CallTurns(d)
    <3>1. CASE d = c
      <4>1. call'[d] = [call[d] EXCEPT !.at = at]
        BY <1>1, <2>3, <3>1 DEF At
      <4>2. call'[d].at = at /\ call'[d].era = call[d].era /\ call'[d].kid = call[d].kid
        BY <1>1, <4>1 DEF Callers
      <4> QED
        BY <2>1, <2>3, <3>1, <4>2 DEF CallKept, Kid
    <3>2. CASE d # c
      BY <1>1, <2>3, <3>2 DEF At, CallKept, Kid
    <3> QED
      BY <3>1, <3>2
  <2>4. CASE CreationFails(c) \/ Prepared(c) \/ StartProceeds(c) \/ FollowupProceeds(c)
    BY <2>2, <2>3, <2>4 DEF CreationFails, Prepared, StartProceeds, FollowupProceeds, Ends
  <2>5. CASE Awaited(c) \/ Inspected(c) \/ Undone(c) \/ Submits(c) \/ Left(c)
    BY <2>2, <2>3, <2>5 DEF Awaited, Inspected, Undone, Submits, Left, Ends
  <2>6. CASE Installs(c)
    BY <2>3, <2>6 DEF Installs
  <2> QED
    BY <1>7, <2>4, <2>5, <2>6 DEF CallSteps
<1> QED
  BY <1>3, <1>4, <1>5, <1>6, <1>7 DEF Next, Moves

\* A child that leaves the hand-over has been told, or is no longer up.
LEMMA HandedOver ==
    ASSUME IInv, Next, NEW d \in Calls, call[d].at = "submitting", call'[d].at # "submitting"
    PROVE  epoch'[Kid(d)].announced \/ epoch'[Kid(d)].at # "up"
<1>1. TypeOK /\ call \in [Calls -> Callers] /\ Kid(d) \in Kids /\ epoch[Kid(d)] \in Epochs
  BY DEF IInv, TypeOK, Locked
<1>2. CASE UNCHANGED call
  BY <1>2
<1>3. CASE DrainStarts \/ ScopeStarts \/ Draining
  BY <1>2, <1>3 DEF DrainStarts, ScopeStarts, Draining, DrainDisposes, DrainEnds, ScopeEnds
<1>4. ASSUME NEW k \in Kids, Moves(k) \/ Disposal(k) \/ StopTeammate(k) \/ Watching(k)
      PROVE  FALSE
  BY <1>2, <1>4 DEF Moves, Claims, TurnEnds, MaintenanceStarts, MaintenanceEnds, Interrupt, Report,
                    Disposal, Quiets, Flushes, Flushed, Releases, StopTeammate, Watching, WatchRaces,
                    WatchChecks, WatchPoked
<1>5. ASSUME NEW c \in Calls, c # d, Begin(c) \/ HostAborts(c) \/ CreationFails(c) \/ CallSteps(c)
      PROVE  call'[d] = call[d]
  BY <1>1, <1>5 DEF Begin, HostAborts, CreationFails, CallSteps, Prepared, StartProceeds,
                    FollowupProceeds, Awaited, Inspected, Installs, Undone, Submits, Left, Ends, Over,
                    At
<1>6. CASE Begin(d) \/ HostAborts(d) \/ CreationFails(d) \/ CallSteps(d)
  <2>1. ~Begin(d) /\ ~CreationFails(d)
    BY DEF Begin, CreationFails
  <2>2. ~HostAborts(d)
    BY <1>1 DEF HostAborts, Callers
  <2>3. CallSteps(d) => Submits(d)
    BY DEF CallSteps, Prepared, StartProceeds, FollowupProceeds, Awaited, Inspected, Installs,
           Undone, Left
  <2>4. CASE Disposes({Kid(d)}, "refused")
    <3>1. PICK all \in SUBSET Kids : all = Reached({k \in {Kid(d)} : Up(k)})
      BY DEF Reached
    <3>2. Up(Kid(d)) => Kid(d) \in all
      BY <1>1, <3>1, Reach
    <3>3. epoch'[Kid(d)].at = IF Kid(d) \in all THEN "stopping" ELSE epoch[Kid(d)].at
      BY <1>1, <2>4, <3>1 DEF Disposes, Epochs
    <3> QED
      BY <1>1, <3>2, <3>3 DEF Up
  <2>5. CASE Accepts(d)
    BY <1>1, <2>5 DEF Accepts, Epochs
  <2> QED
    BY <1>6, <2>1, <2>2, <2>3, <2>4, <2>5 DEF Submits
<1> QED
  BY <1>3, <1>4, <1>5, <1>6 DEF Next, Moves

\* Whoever owns an announced child is up or on its way down from above, and is neither
\* settling nor waiting for its own first message.
LEMMA OwnerOfTold ==
    ASSUME IInv, Minded, NEW j \in Kids, epoch[j].announced, NEW k \in Owner(j)
    PROVE  /\ k \in Kids /\ k # j /\ j \in epoch[k].owned
           /\ epoch[k].at \in {"up", "stopping"}
           /\ epoch[k].why # "settled"
           /\ ~Handing(k)
<1>1. k \in Kids /\ k # j /\ j \in epoch[k].owned
  BY SubagentsAssumption DEF IInv, Announced, Owner
<1>2. epoch[k].at \in {"up", "stopping"}
  BY <1>1 DEF IInv, Owning
<1>3. epoch[k].why # "settled"
  BY <1>1, <1>2 DEF Minded, Settled, Live
<1>4. ~Handing(k)
  BY <1>1 DEF Minded, Untold, Handing
<1> QED
  BY <1>1, <1>2, <1>3, <1>4

\* One call at a time works on a child.
LEMMA Alone ==
    ASSUME IInv, NEW c \in Calls, NEW d \in Calls, call[d].at = "submitting", Kid(d) = Kid(c),
           Accepting(c) \/ Installs(c)
    PROVE  /\ Accepting(c) => d = c /\ call'[d].at = "done"
           /\ ~Installs(c)
<1>1. Holds(d)
  BY DEF IInv, Locked, Inside
<1>2. Installs(c) => Holds(c) /\ call[c].at = "creating"
  BY DEF Installs, IInv, Locked, Inside
<1>3. Accepting(c) => Holds(c)
  BY DEF Accepting
<1>4. d = c
  BY <1>1, <1>2, <1>3 DEF Holds
<1>5. Over(c) => call'[c].at = "done"
  BY DEF IInv, TypeOK, Over, NoCall
<1> QED
  BY <1>2, <1>4, <1>5 DEF Accepting

\* What can give a quiet agent something to do: an accepted call, or an announced child
\* of its own.
WokenBelow(k) ==
    \E j \in Kids : epoch[j].announced /\ k \in Owner(j) /\ (UNCHANGED epoch \/ Releases(j))
WokenByCall(k) == \E c \in Calls : Accepting(c) /\ Kid(c) = k

LEMMA QuietAgents ==
    ASSUME NEW a \in Agents, a.phase # "running", a.unread = 0, ~a.latched
    PROVE  /\ \A cause : /\ Cancelled(a, cause).phase # "running" /\ Cancelled(a, cause).unread = 0
                         /\ ~Cancelled(a, cause).latched
           /\ Rested(a).phase # "running" /\ Rested(a).unread = 0 /\ ~Rested(a).latched
<1>1. ASSUME NEW cause
      PROVE  /\ Cancelled(a, cause).phase # "running" /\ Cancelled(a, cause).unread = 0
             /\ ~Cancelled(a, cause).latched
  BY DEF Cancelled, Agents
<1>2. Rested(a).phase # "running" /\ Rested(a).unread = 0 /\ ~Rested(a).latched
  BY DEF Rested, Agents
<1> QED
  BY <1>1, <1>2

LEMMA Wakes ==
    ASSUME IInv, Minded, Next, NEW k \in Kids, Quiet(k)
    PROVE  Quiet(k)' \/ WokenByCall(k) \/ WokenBelow(k)
<1>1. agent \in [Kids -> Agents] /\ agent[k] \in Agents
  BY DEF IInv, TypeOK
<1>2. /\ agent'[k] = agent[k] => Quiet(k)'
      /\ \A cause : agent'[k] = Cancelled(agent[k], cause) => Quiet(k)'
      /\ agent'[k] = Rested(agent[k]) => Quiet(k)'
      /\ agent'[k] = Resting => Quiet(k)'
  BY <1>1, QuietAgents DEF Quiet, Resting
<1>3. CASE UNCHANGED <<agent, epoch>>
  BY <1>2, <1>3
<1>4. ASSUME NEW ks, NEW why, Disposes(ks, why) PROVE Quiet(k)'
  BY <1>2, <1>4 DEF Disposes
<1>5. ASSUME NEW j \in Kids, Claims(j) PROVE Quiet(k)'
  <2>1. j # k
    BY <1>5 DEF Claims, Quiet
  <2> QED
    BY <1>1, <1>2, <1>5, <2>1 DEF Claims, Becomes
<1>6. ASSUME NEW j \in Kids, TurnEnds(j) \/ MaintenanceEnds(j) PROVE Quiet(k)'
  BY <1>1, <1>2, <1>6 DEF TurnEnds, MaintenanceEnds, Becomes
<1>7. ASSUME NEW j \in Kids, MaintenanceStarts(j) PROVE Quiet(k)'
  <2>1. agent'[k] = agent[k] \/ agent'[k] = [agent[k] EXCEPT !.phase = "maintaining"]
    BY <1>1, <1>7 DEF MaintenanceStarts, Becomes
  <2> QED
    BY <1>1, <1>2, <2>1 DEF Quiet, Agents
<1>8. ASSUME NEW j \in Kids, Interrupt(j) PROVE Quiet(k)'
  <2>1. agent'[k] = agent[k] \/ agent'[k] = [agent[k] EXCEPT !.abort = "cancel"]
    BY <1>1, <1>8 DEF Interrupt, Becomes
  <2> QED
    BY <1>1, <1>2, <2>1 DEF Quiet, Agents
<1>9. ASSUME NEW j \in Kids, Report(j) PROVE Quiet(k)' \/ WokenBelow(k)
  <2>1. PICK p \in Owner(j) : Becomes(p, Woken(agent[p])) /\ UNCHANGED epoch
    BY <1>9 DEF Report
  <2>2. epoch[j].announced
    BY <1>9 DEF Report, Minded, Told, Untold, Handing, Quiet
  <2>3. p # k => agent'[k] = agent[k]
    BY <1>1, <2>1 DEF Becomes
  <2> QED
    BY <1>2, <2>1, <2>2, <2>3 DEF WokenBelow
<1>10. ASSUME NEW j \in Kids, Quiets(j) \/ Flushes(j) \/ Flushed(j) PROVE Quiet(k)'
  <2>1. agent'[k] = agent[k] \/ agent'[k] = Cancelled(agent[k], "disposed")
    BY <1>1, <1>10 DEF Quiets, Flushes, Flushed, Becomes
  <2> QED
    BY <1>2, <2>1
<1>11. ASSUME NEW j \in Kids, Releases(j) PROVE Quiet(k)' \/ WokenBelow(k)
  <2>1. k \notin Informed(j) => Quiet(k)'
    BY <1>2, <1>11 DEF Releases
  <2>2. k \in Informed(j) => WokenBelow(k)
    BY <1>11 DEF Informed, WokenBelow
  <2> QED
    BY <2>1, <2>2
<1>12. ASSUME NEW c \in Calls, Accepting(c) PROVE Quiet(k)' \/ WokenByCall(k)
  <2>1. Kid(c) # k => agent'[k] = agent[k]
    BY <1>1, <1>12 DEF Accepting, Accepts, Becomes
  <2> QED
    BY <1>2, <1>12, <2>1 DEF WokenByCall
<1>13. ASSUME NEW c \in Calls, Installs(c) \/ Undone(c) PROVE Quiet(k)'
  BY <1>1, <1>2, <1>13 DEF Installs, Undone, Becomes
<1> QED
  BY <1>3, <1>4, <1>5, <1>6, <1>7, <1>8, <1>9, <1>10, <1>11, <1>12, <1>13, FinerCases
     DEF Moves, Disposal, Stopping, Settling

\* A child is woken only while it is up, or on its way down without having settled.
LEMMA WokenWhere ==
    ASSUME IInv, Minded, NEW k \in Kids, WokenByCall(k) \/ WokenBelow(k)
    PROVE  epoch[k].at \in {"up", "stopping"} /\ epoch[k].why # "settled"
<1>1. ASSUME NEW c \in Calls, Accepting(c), Kid(c) = k
      PROVE  epoch[k].at = "up" /\ epoch[k].why # "settled"
  BY <1>1 DEF Accepting, Refused, Up, Minded, Settled
<1>2. WokenBelow(k) => epoch[k].at \in {"up", "stopping"} /\ epoch[k].why # "settled"
  BY OwnerOfTold DEF WokenBelow
<1> QED
  BY <1>1, <1>2 DEF WokenByCall

LEMMA DormantKept == ASSUME IInv, Minded, Next PROVE Dormant'
<1> SUFFICES ASSUME NEW k \in Kids, epoch'[k].at \in {"none", "undoing"} PROVE Quiet(k)'
  BY DEF Dormant, Quiet
<1>1. agent'[k] = Resting => Quiet(k)'
  BY DEF Quiet, Resting
<1>2. CASE epoch[k].at \in {"none", "undoing"} /\ ~IsNew(k)
  <2>1. Quiet(k)
    BY <1>2 DEF Minded, Dormant
  <2> QED
    BY <1>2, <2>1, Wakes, WokenWhere
<1>3. CASE IsNew(k)
  <2>1. Quiet(k) /\ agent' = agent
    BY <1>3 DEF IsNew, Minded, Dormant, Installs
  <2> QED
    BY <2>1 DEF Quiet
<1>4. CASE epoch[k].at \notin {"none", "undoing"} /\ ~IsNew(k)
  BY <1>1, <1>4, TurnsOf DEF Turns, Loses, Gains, IsTold, Stays, IsStopped, Closes, IsGone, IsUndone
<1> QED
  BY <1>2, <1>3, <1>4

LEMMA UntoldKept == ASSUME IInv, Minded, Next PROVE Untold'
<1> SUFFICES ASSUME NEW d \in Calls, call'[d].at = "submitting"
             PROVE  (/\ Quiet(Kid(d)) /\ ~epoch[Kid(d)].announced
                     /\ \A j \in epoch[Kid(d)].owned : ~epoch[j].announced)'
  BY DEF Untold
<1>1. CallKept(d)
  BY CallTurnsOf DEF CallTurns, CallBegins
<1>2. PICK k \in Kids : k = Kid(d) /\ k = Kid(d)'
  BY <1>1 DEF CallKept, IInv, Locked
<1>3. TypeOK /\ Locked /\ Owning /\ Announced /\ \A i \in Kids : epoch[i].owned \subseteq Kids
  BY OwnedAreKids DEF IInv
<1> SUFFICES /\ Quiet(k)' /\ ~epoch'[k].announced
             /\ \A j \in epoch'[k].owned : ~epoch'[j].announced
  BY <1>2 DEF Quiet, Kid
<1>4. CASE Installs(d)
  <2>1. epoch[k].at = "none" /\ Quiet(k) /\ agent' = agent
    BY <1>2, <1>3, <1>4 DEF Installs, Locked, Live, Minded, Dormant
  <2>2. \E at : epoch'[k] = NewEpoch(k, at)
    BY <1>2, <1>3, <1>4 DEF Installs, TypeOK
  <2>3. ~epoch'[k].announced /\ epoch'[k].owned = {}
    BY <2>2 DEF NewEpoch, NoEpoch
  <2> QED
    BY <2>1, <2>3 DEF Quiet
<1>5. CASE ~Installs(d)
  <2>1. /\ call[d].at = "submitting" /\ Quiet(k) /\ ~epoch[k].announced
        /\ \A j \in epoch[k].owned : ~epoch[j].announced
    BY <1>1, <1>2, <1>5 DEF CallKept, Minded, Untold
  <2>2. \A c \in Calls : Accepting(c) => Kid(c) # k
    BY <1>2, <2>1, Alone
  <2>3. Quiet(k)'
    <3>1. ~WokenBelow(k)
      BY <1>2, <2>1, OwnerOfTold DEF WokenBelow, Handing
    <3>2. ~WokenByCall(k)
      BY <2>2 DEF WokenByCall
    <3> QED
      BY <2>1, <3>1, <3>2, Wakes
  <2>4. ~epoch'[k].announced
    BY <2>1, <2>2, TurnsOf DEF Turns, Loses, Gains, IsTold, IsStopped, Closes, IsGone, IsNew, IsUndone
  <2>5. ASSUME NEW j \in epoch'[k].owned, epoch'[j].announced PROVE FALSE
    <3>1. Owning'
      BY FamilyKept DEF Family
    <3>2. /\ j \in epoch[k].owned \/ \E c \in Calls : /\ Accepting(c) \/ Installs(c)
                                                     /\ k \in Owner(Kid(c)) /\ Kid(c) = j
      BY <2>5, TurnsOf DEF Turns, Loses, Gains, IsTold, IsStopped, Closes, IsGone, IsNew, IsUndone
    <3>3. j \in Kids /\ k \in Owner(j)
      <4>1. j \in epoch[k].owned => j \in Kids /\ ParentOf[j] = k
        BY <1>3 DEF Owning
      <4>2. \A c \in Calls : Accepting(c) \/ Installs(c) => Kid(c) \in Kids
        BY <1>3 DEF Accepting, Installs, Locked
      <4> QED
        BY <3>2, <4>1, <4>2 DEF Owner
    <3>4. ~epoch[j].announced
      <4>1. epoch[j].announced => j \in epoch[k].owned
        BY <1>3, <3>3 DEF Announced
      <4> QED
        BY <2>1, <4>1
    <3>5. PICK c \in Calls : Accepting(c) /\ Kid(c) = j
      BY <2>5, <3>3, <3>4, TurnsOf
         DEF Turns, Loses, Gains, IsTold, IsStopped, Closes, IsGone, IsNew, IsUndone
    <3>6. Up(j) /\ Live(k) /\ epoch[k].era = call[c].era
      BY <3>3, <3>5 DEF Accepting, Refused, ParentLive
    <3>7. CASE call[c].at = "queued"
      <4>1. PICK e \in Calls : call[e].at = "submitting" /\ Kid(e) = j
        BY <3>3, <3>4, <3>6 DEF Minded, Told, Handing
      <4>2. e = c
        BY <3>5, <4>1, Alone
      <4> QED
        BY <3>7, <4>1, <4>2
    <3>8. CASE call[c].at = "submitting" /\ Foremost(c)
      <4>1. j \notin epoch[k].owned
        BY <1>2, <2>1, <3>5, <3>8 DEF Foremost
      <4>2. j \in epoch[k].owned
        BY <3>3, <3>5, <3>6, <3>8 DEF Minded, Eras
      <4> QED
        BY <4>1, <4>2
    <3> QED
      BY <3>5, <3>7, <3>8 DEF Accepting
  <2> QED
    BY <2>3, <2>4, <2>5
<1> QED
  BY <1>4, <1>5

LEMMA ToldKept == ASSUME IInv, Minded, Next PROVE Told'
<1> SUFFICES ASSUME NEW k \in Kids, epoch'[k].at = "up"
             PROVE  epoch'[k].announced \/ \E c \in Calls : call'[c].at = "submitting" /\ call'[c].kid = k
  BY DEF Told, Up, Handing, Kid
<1>1. CASE IsNew(k)
  BY <1>1 DEF IsNew
<1>2. CASE ~IsNew(k)
  <2>1. Up(k) /\ (epoch[k].announced => epoch'[k].announced)
    BY <1>2, TurnsOf DEF Turns, Loses, Gains, IsTold, Stays, IsStopped, Closes, IsGone, IsUndone, Up
  <2>2. ASSUME NEW d \in Calls, call[d].at = "submitting", Kid(d) = k
        PROVE  epoch'[k].announced \/ (call'[d].at = "submitting" /\ call'[d].kid = k)
    <3>1. CASE call'[d].at = "submitting"
      <4>1. CallKept(d)
        BY <3>1, CallTurnsOf DEF CallTurns, CallBegins
      <4> QED
        BY <2>2, <3>1, <4>1 DEF CallKept, Kid
    <3>2. CASE call'[d].at # "submitting"
      BY <2>2, <3>2, HandedOver
    <3> QED
      BY <3>1, <3>2
  <2> QED
    BY <2>1, <2>2 DEF Minded, Told, Handing
<1> QED
  BY <1>1, <1>2

LEMMA ErasKept == ASSUME IInv, Minded, Next PROVE Eras'
<1>0. TypeOK /\ Locked /\ \A i \in Kids : epoch[i].owned \subseteq Kids /\ epoch[i].era \in Nat
  BY OwnedAreKids DEF IInv, TypeOK, Epochs
<1>1. \A p \in Kids : epoch[p].era <= epoch'[p].era
  <2> TAKE p \in Kids
  <2>1. epoch'[p].era = epoch[p].era \/ epoch'[p].era = epoch[p].era + 1
    BY TurnsOf DEF Turns, Loses, Gains, IsTold, Stays, IsStopped, Closes, IsGone, IsNew, IsUndone
  <2> QED
    BY <1>0, <2>1
<1> SUFFICES ASSUME NEW d \in Calls, call'[d].at \notin {"none", "done"}, NEW p \in Owner(Kid(d)')
             PROVE  /\ call'[d].era <= epoch'[p].era
                    /\ call'[d].at = "submitting" /\ epoch'[Kid(d)'].at = "up"
                       /\ epoch'[p].at # "none" /\ call'[d].era = epoch'[p].era
                          => Kid(d)' \in epoch'[p].owned
  BY DEF Eras, Owner, Kid, Up, Live
<1>2. CASE CallBegins(d)
  <2>1. p \in Kids /\ call'[d].era = epoch[p].era /\ call'[d].at # "submitting"
    BY <1>2 DEF CallBegins, Owner
  <2> QED
    BY <1>1, <2>1
<1>3. CASE CallKept(d)
  <2>1. PICK k \in Kids : k = Kid(d) /\ k = Kid(d)'
    BY <1>3, <1>0 DEF CallKept, Locked
  <2>2. p \in Kids /\ p # k /\ p \in Owner(k) /\ p = ParentOf[k]
    BY <2>1, SubagentsAssumption DEF Owner
  <2>3. call'[d].era = call[d].era /\ call[d].era <= epoch[p].era /\ call[d].era \in Nat
    BY <1>3, <1>0, <2>1, <2>2 DEF CallKept, Minded, Eras, TypeOK, Callers
  <2>4. call'[d].era <= epoch'[p].era
    <3>1. epoch[p].era <= epoch'[p].era /\ epoch[p].era \in Nat
      BY <1>0, <1>1, <2>2
    <3>2. epoch'[p].era \in Nat
      <4>1. epoch'[p].era = epoch[p].era \/ epoch'[p].era = epoch[p].era + 1
        BY <2>2, TurnsOf DEF Turns, Loses, Gains, IsTold, Stays, IsStopped, Closes, IsGone, IsNew, IsUndone
      <4> QED
        BY <1>0, <2>2, <4>1
    <3> QED
      BY <2>3, <3>1, <3>2
  <2>5. ASSUME call'[d].at = "submitting", epoch'[k].at = "up", epoch'[p].at # "none",
               call'[d].era = epoch'[p].era
        PROVE  k \in epoch'[p].owned
    <3>1. ~IsNew(p) /\ epoch[p].at # "none" /\ epoch[p].era = call[d].era
      <4>1. epoch'[p].era = epoch[p].era \/ (IsNew(p) /\ epoch'[p].era = epoch[p].era + 1)
        BY <2>2, TurnsOf DEF Turns, Loses, Gains, IsTold, Stays, IsStopped, Closes, IsGone, IsNew, IsUndone
      <4>2. ~(call[d].era = epoch[p].era + 1)
        BY <1>0, <2>2, <2>3
      <4>3. epoch'[p].era = epoch[p].era /\ ~IsNew(p)
        BY <1>0, <2>2, <2>3, <2>5, <4>1, <4>2 DEF IsNew
      <4>4. epoch[p].at = "none" => epoch'[p].at = "none"
        BY <2>2, <4>3, TurnsOf
           DEF Turns, Loses, Gains, IsTold, Stays, IsStopped, Closes, IsGone, IsUndone, Closing, Live, Up
      <4> QED
        BY <2>3, <2>5, <4>3, <4>4
    <3>2. CASE Installs(d)
      <4>1. At(d, "undoing") => call'[d].at = "undoing"
        BY <1>0 DEF At, TypeOK, Callers
      <4>2. epoch'[p] = [epoch[p] EXCEPT !.owned = epoch[p].owned \cup {k}]
        <5>1. ~(Aborted(d) \/ ~Admitting \/ ParentClosing(d))
          BY <2>5, <3>2, <4>1 DEF Installs
        <5>2. epoch' = [i \in Kids |->
                          IF i = Kid(d) THEN NewEpoch(i, "up")
                          ELSE IF i \in Owner(Kid(d)) /\ Live(i)
                          THEN [epoch[i] EXCEPT !.owned = epoch[i].owned \cup {Kid(d)}] ELSE epoch[i]]
          BY <3>2, <5>1 DEF Installs
        <5>3. Live(p) /\ p \in Owner(Kid(d)) /\ p # Kid(d)
          BY <2>1, <2>2, <3>1 DEF Live
        <5> QED
          BY <2>1, <2>2, <5>2, <5>3
      <4> QED
        BY <1>0, <2>2, <4>2 DEF TypeOK, Epochs
    <3>3. CASE ~Installs(d)
      <4>1. call[d].at = "submitting"
        BY <1>3, <2>5, <3>3 DEF CallKept
      <4>2. ~IsNew(k)
        BY <2>1, <4>1, Alone DEF IsNew
      <4>3. epoch[k].at = "up" /\ ~Releases(k)
        <5>1. epoch[k].at = "up"
          BY <2>5, <4>2, TurnsOf
             DEF Turns, Loses, Gains, IsTold, Stays, IsStopped, Closes, IsGone, IsUndone
        <5> QED
          BY <5>1 DEF Releases
      <4>4. k \in epoch[p].owned
        BY <2>1, <2>2, <3>1, <4>1, <4>3 DEF Minded, Eras, Up, Live
      <4>5. \A j \in Kids : Releases(j) => j # k
        BY <4>3
      <4>6. ~IsGone(p)
        BY <2>5 DEF IsGone
      <4> QED
        BY <2>2, <3>1, <4>4, <4>5, <4>6, TurnsOf
           DEF Turns, Loses, Gains, IsTold, IsStopped, Closes, IsUndone
    <3> QED
      BY <3>2, <3>3
  <2> QED
    BY <2>1, <2>4, <2>5
<1> QED
  BY <1>2, <1>3, CallTurnsOf DEF CallTurns

LEMMA SettledKept == ASSUME IInv, Minded, Next PROVE Settled'
<1> SUFFICES ASSUME NEW k \in Kids
             PROVE  /\ epoch'[k].at \in {"up", "undoing"} => epoch'[k].why = "none"
                    /\ epoch'[k].why = "settled" =>
                          /\ epoch'[k].lost = 0
                          /\ epoch'[k].at # "none" => epoch'[k].owned = {} /\ Quiet(k)'
  BY DEF Settled, Live, Quiet
<1>0. agent[k] \in Agents
  BY DEF IInv, TypeOK
<1>1. /\ epoch[k].at \in {"up", "undoing"} => epoch[k].why = "none"
      /\ epoch[k].why = "settled" => /\ epoch[k].lost = 0
                                     /\ epoch[k].at # "none" => epoch[k].owned = {} /\ Quiet(k)
  BY DEF Minded, Settled, Live
<1>2. epoch[k].why = "settled" /\ epoch[k].at # "none" => Quiet(k)'
  BY <1>1, Wakes, WokenWhere
<1>3. CASE epoch'[k] = epoch[k] \/ Loses(k) \/ Gains(k) \/ IsTold(k)
  <2>1. Stays(k)
    BY <1>3 DEF Stays, Loses, Gains, IsTold
  <2>2. epoch[k].why = "settled" => epoch[k].at # "up"
    BY <1>1
  <2>3. epoch[k].why = "settled" /\ epoch[k].at # "none" => epoch'[k].owned = {}
    BY <1>1, <1>3, <2>2 DEF Loses, Gains, IsTold, Up
  <2> QED
    BY <1>1, <1>2, <2>1, <2>3 DEF Stays
<1>4. CASE IsStopped(k)
  <2>1. epoch'[k].why = "settled" =>
          agent[k].phase # "running" /\ agent[k].unread = 0 /\ epoch[k].owned = {}
    BY <1>0, <1>4 DEF IsStopped, StateOf, Agents
  <2>2. epoch'[k].why = "settled" => Quiet(k)'
    BY <1>0, <1>4, <2>1 DEF IsStopped, Quiet, Cancelled, Agents
  <2> QED
    BY <1>4, <2>1, <2>2 DEF IsStopped
<1>5. CASE Closes(k)
  <2>1. epoch[k].why = "settled" => epoch[k].lost = 0 /\ agent[k].unread = 0 /\ epoch[k].owned = {}
    BY <1>1, <1>5 DEF Closes, Closing, Live, Quiet
  <2> QED
    BY <1>2, <1>5, <2>1 DEF Closes, Closing, Live
<1>6. CASE IsGone(k)
  <2>1. epoch[k].why = "settled" => epoch[k].lost = 0 /\ agent[k].unread = 0
    BY <1>1, <1>6 DEF IsGone, Quiet
  <2> QED
    BY <1>6, <2>1 DEF IsGone
<1>7. CASE IsNew(k) \/ IsUndone(k)
  BY <1>1, <1>7 DEF IsNew, IsUndone
<1> QED
  BY <1>3, <1>4, <1>5, <1>6, <1>7, TurnsOf DEF Turns

LEMMA MindedInitially == Init => Minded
<1> SUFFICES ASSUME Init PROVE Minded
  OBVIOUS
<1>1. /\ \A k \in Kids : epoch[k] = NoEpoch /\ agent[k] = Resting
      /\ \A c \in Calls : call[c].at = "none"
  BY DEF Init, NoCall
<1> QED
  BY <1>1 DEF Minded, Dormant, Untold, Told, Eras, Settled, Quiet, NoEpoch, Resting, Up, Live

LEMMA MindedKept == IInv /\ Minded /\ [Next]_vars => Minded'
<1> SUFFICES ASSUME IInv, Minded, [Next]_vars PROVE Minded'
  OBVIOUS
<1>1. CASE Next
  BY <1>1, DormantKept, UntoldKept, ToldKept, ErasKept, SettledKept DEF Minded
<1>2. CASE UNCHANGED vars
  BY <1>2 DEF Minded, Dormant, Untold, Told, Eras, Settled, Quiet, Handing, Up, Live, Owner, Kid,
              vars, residency
<1> QED
  BY <1>1, <1>2

-----------------------------------------------------------------------------
(* The theorems.                                                           *)

LEMMA Initially == Init => IInv
<1> SUFFICES ASSUME Init PROVE IInv
  OBVIOUS
<1>1. NoEpoch \in Epochs /\ Resting \in Agents /\ NoCall \in Callers
  BY DEF NoEpoch, Epochs, Places, Resting, Agents, Phases, NoCall, Callers
<1>2. TypeOK
  BY <1>1 DEF Init, TypeOK
<1>3. /\ \A k \in Kids : epoch[k] = NoEpoch
      /\ \A c \in Calls : call[c].at = "none"
  BY DEF Init, NoCall
<1> QED
  BY <1>2, <1>3 DEF IInv, Locked, Owning, Announced, FromAbove, Drained, NoEpoch, Inside, Closing,
                    Live, Up

LEMMA Inductive == IInv /\ [Next]_vars => IInv'
<1> SUFFICES ASSUME IInv, [Next]_vars PROVE IInv'
  OBVIOUS
<1>1. CASE Next
  <2>1. TypeOK'
    BY <1>1, ResidencyTyped, OthersTyped, CallsTyped DEF TypeOK, Others, Items
  <2> QED
    BY <1>1, <2>1, LockedKept, FamilyKept, DrainedKept DEF IInv, Family
<1>2. CASE UNCHANGED vars
  BY <1>2 DEF IInv, TypeOK, Locked, Owning, Announced, FromAbove, Drained, vars, residency, Kid,
              Holds, Live, Up, Closing, Owner, Admitting
<1> QED
  BY <1>1, <1>2

LEMMA Invariance == Spec => []IInv
  BY Initially, Inductive, PTL DEF Spec

\* Every record, line and counter stays within its type, for any forest of children.
THEOREM TypeCorrect == Spec => []TypeOK
<1>1. IInv => TypeOK
  BY DEF IInv
<1> QED
  BY <1>1, Invariance, PTL

\* A parent outlives the children it works through, closing goes from the top down,
\* and a drained lineage starts no turn: for any forest of children and any calls.
THEOREM ChildFirstCorrect == Spec => []ChildFirst
<1>1. IInv => ChildFirst
  <2> SUFFICES ASSUME IInv, NEW k \in Kids
               PROVE  /\ epoch[k].announced => \A p \in Owner(k) : Live(p) /\ k \in epoch[p].owned
                      /\ Closing(k) => \A c \in epoch[k].owned : Closing(c)
                      /\ Closing(k) /\ epoch[k].why = "drained" /\ agent[k].phase = "running"
                           => agent[k].abort # "none"
    BY DEF ChildFirst
  <2>1. \A p \in Owner(k) : k \in epoch[p].owned => Live(p)
    BY DEF IInv, Owning, Owner, Live
  <2> QED
    BY <2>1 DEF IInv, Announced, FromAbove, Drained
<1> QED
  BY <1>1, Invariance, PTL

\* A child that settles by itself has dropped nothing it was told, for any forest of
\* children, any number of calls, reports and notices, in any order.
THEOREM HeardCorrect == Spec => []Heard
<1>1. Init => IInv /\ Minded
  BY Initially, MindedInitially
<1>2. IInv /\ Minded /\ [Next]_vars => (IInv /\ Minded)'
  BY Inductive, MindedKept
<1>3. Minded => Heard
  BY DEF Minded, Settled, Heard
<1> QED
  BY <1>1, <1>2, <1>3, PTL DEF Spec
=============================================================================
