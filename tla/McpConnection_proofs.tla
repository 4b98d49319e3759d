------------------------- MODULE McpConnection_proofs -------------------------
(***************************************************************************)
(* Proofs about the supervised MCP connection, for any reconnect budget    *)
(* and any number of stable connections and list changes: type             *)
(* correctness, that no two server processes run side by side, that the    *)
(* connection is looked after within its budget, and that the registry     *)
(* holds nobody else's tools.                                              *)
(***************************************************************************)
EXTENDS McpConnection, FiniteSetTheorems, SequenceTheorems, TLAPS

-----------------------------------------------------------------------------
(* The inductive invariant.                                                *)

\* Generations follow one another: only the last may run, be connected to, or
\* have an attempt under way.
Lineage ==
    /\ \A g \in Generations :
          /\ g > started => server[g] = "none" /\ attempt[g] = "none"
          /\ g < started => attempt[g] = "settled"
          /\ server[g] = "up" => g = started
          /\ g \in observed => server[g] = "gone"
    /\ attempt[started] # "none"
    /\ client \in {Nobody, started}

\* What is known while nobody is connected, and what a connected client is not.
Outage ==
    /\ client # Nobody => ~Disposed /\ ~timer /\ halted = "no"
    /\ ~Disposed /\ client = Nobody => attempt[started] = "settled" /\ (timer \/ halted # "no")
    /\ timer => ~Disposed /\ halted = "no" /\ started \in observed /\ uptime = "down"
    /\ client \in observed => attempt[client] # "settled"
    /\ disposal \in {"draining", "done"} \/ halted = "spent" => attempt[started] = "settled"

\* The generations since a stable connection never outnumber the failures counted.
Budget ==
    /\ client # Nobody \/ timer => failed <= MaxAttempts
    /\ client # Nobody => uptime = "stable" \/ streak <= failed + 1
    /\ timer => streak <= failed
    /\ uptime = "stable" => streak = 0
    /\ streak <= MaxAttempts + 1

\* Hence there are enough generations.
Room == started <= stable * (MaxAttempts + 1) + streak

\* An initial synchronisation is that of the attempt under way, and is followed by
\* changes of the same generation; the disposal of the tools comes last.
QueueShape ==
    /\ fetching => queue # <<>> /\ queue[1] # Clear
    /\ \A i \in 1..Len(queue) :
          /\ queue[i].kind = "initial" => attempt[queue[i].of] = "syncing"
          /\ queue[i] = Clear => i = Len(queue) /\ halted = "spent"
          /\ \A j \in 1..Len(queue) : i < j /\ queue[i].kind = "initial" =>
                queue[j].of = queue[i].of /\ queue[j].kind = "change"

\* Whose tools are registered, and who will take them back.
Tools ==
    /\ registered \subseteq disposers
    /\ \A g, h \in disposers : g = h
    /\ client # Nobody /\ (attempt[client] = "synced" \/ uptime # "down") =>
          registered \subseteq {client} /\ \A i \in 1..Len(queue) : queue[i].of = client
    /\ halted = "spent" => IF queue = <<>> THEN registered = {} ELSE queue[Len(queue)] = Clear
    /\ disposal = "done" => queue = <<>> /\ registered = {}

IInv == TypeOK /\ Lineage /\ Outage /\ Budget /\ Room /\ QueueShape /\ Tools

-----------------------------------------------------------------------------
(* Facts the steps share.                                                  *)

\* Generations are numbered by naturals, and there is one to begin with.
LEMMA Numbered == MaxGenerations \in Nat /\ 1 \in Generations /\ Generations \subseteq Nat \ {0}
<1>1. MaxAttempts + 1 \in Nat /\ MaxStable + 1 \in Nat /\ MaxAttempts + 1 >= 1 /\ MaxStable + 1 >= 1
  BY McpAssumption
<1>2. \A a, b \in Nat : a >= 1 /\ b >= 1 => a * b \in Nat /\ a * b >= 1
  OBVIOUS
<1> QED
  BY <1>1, <1>2 DEF MaxGenerations, Generations

\* What an item that is not a disposal looks like.
LEMMA Items == ASSUME NEW s \in Syncs PROVE s # Clear => s.of \in Generations /\ s.kind \in {"initial", "change"}
  BY DEF Syncs, Clear, Sync

\* The first of the queue leaves it.
LEMMA TailFacts ==
    ASSUME queue \in Seq(Syncs), queue # <<>>, queue' = Tail(queue)
    PROVE  /\ queue' \in Seq(Syncs) /\ Head(queue) = queue[1] /\ queue[1] \in Syncs
           /\ Len(queue) \in Nat \ {0} /\ Len(queue') = Len(queue) - 1
           /\ 1 \in 1..Len(queue)
           /\ \A i \in 1..Len(queue') : /\ queue'[i] = queue[i + 1] /\ i + 1 \in 1..Len(queue)
                                        /\ queue[i + 1] \in Syncs /\ i \in Nat /\ 1 < i + 1
                                        /\ i + 1 = Len(queue) => i = Len(queue')
<1>1. /\ queue' \in Seq(Syncs) /\ Head(queue) = queue[1] /\ queue[1] \in Syncs
      /\ Len(queue) \in Nat \ {0} /\ Len(queue') = Len(queue) - 1
      /\ \A i \in 1..Len(queue') : queue'[i] = queue[i + 1]
  OBVIOUS
<1>2. \A n, m \in Nat : n # 0 /\ m = n - 1 =>
         /\ 1 \in 1..n
         /\ \A i \in 1..m : i \in Nat /\ i + 1 \in 1..n /\ 1 < i + 1 /\ (i + 1 = n => i = m)
  OBVIOUS
<1>3. Len(queue') \in Nat
  BY <1>1
<1>4. \A j \in 1..Len(queue) : queue[j] \in Syncs
  OBVIOUS
<1> QED
  BY <1>1, <1>2, <1>3, <1>4

\* Something is queued.
LEMMA AppendFacts ==
    ASSUME queue \in Seq(Syncs), NEW s \in Syncs, queue' = Append(queue, s)
    PROVE  /\ queue' \in Seq(Syncs) /\ Len(queue) \in Nat /\ Len(queue') = Len(queue) + 1
           /\ queue'[Len(queue')] = s /\ queue' # <<>>
           /\ \A i \in 1..Len(queue) : queue'[i] = queue[i]
  OBVIOUS

\* A generation that goes down and is not the current one changes nothing; the
\* current one leaves nobody connected and ends in one of three ways.
LEMMA DownCases ==
    ASSUME NEW g \in Generations, GoesDown(g)
    PROVE  \/ ~IsCurrent(g) /\ UNCHANGED <<supervision, syncing>>
           \/ /\ IsCurrent(g) /\ client' = Nobody
              /\ UNCHANGED <<fetching, disposers, registered>>
              /\ \/ halted' = "disabled" /\ UNCHANGED <<timer, failed, uptime, queue>>
                 \/ /\ failed' = Spent /\ uptime' = "down" /\ UNCHANGED timer
                    /\ halted' = "spent" /\ Spent > MaxAttempts /\ queue' = Append(queue, Clear)
                 \/ /\ failed' = Spent /\ uptime' = "down" /\ timer' = TRUE
                    /\ ~(Spent > MaxAttempts) /\ UNCHANGED <<halted, queue>>
  BY DEF GoesDown, Reschedule, GivesUp, supervision, syncing

-----------------------------------------------------------------------------
(* Every step preserves each part.                                         *)

\* The step in which a generation is found down: its attempt has settled, or
\* settles now.
FoundDown(g) ==
    /\ attempt[g] \notin {"none", "syncing"}
    /\ g \in observed' /\ server[g] = "gone" /\ observed' \in {observed, observed \cup {g}}
    /\ attempt' = [attempt EXCEPT ![g] = "settled"]
    /\ GoesDown(g)
    /\ UNCHANGED <<enabled, server, started, leaving, counters>>

\* The steps of an attempt in which nothing goes down.
Moves(g) ==
    \/ Connects(g) /\ g \notin observed
    \/ ConnectFails(g)
    \/ Closed(g) /\ g \notin observed
    \/ CloseTimesOut(g)
    \/ Synced(g) /\ g \notin observed
    \/ Observe(g) /\ attempt[g] # "settled"

\* The steps of one generation, told apart by whether it is found down.
LEMMA GenerationCases ==
    ASSUME IInv, NEW g \in Generations, Attempting(g) \/ Observe(g)
    PROVE  Moves(g) \/ FoundDown(g)
<1> USE DEF IInv, TypeOK, Lineage, Settle, FoundDown, Moves, connection
<1>1. CASE Connects(g)
  BY <1>1 DEF Connects
<1>2. CASE ConnectFails(g)
  BY <1>2
<1>3. CASE Synced(g)
  BY <1>3 DEF Synced
<1>4. CASE Closed(g)
  BY <1>4 DEF Closed
<1>5. CASE CloseSeen(g)
  BY <1>5 DEF CloseSeen
<1>6. CASE CloseTimesOut(g)
  BY <1>6
<1>7. CASE Observe(g)
  <2>1. CASE attempt[g] = "settled"
    <3>1. attempt = [attempt EXCEPT ![g] = "settled"]
      BY <2>1
    <3> QED
      BY <1>7, <2>1, <3>1 DEF Observe
  <2> QED
    BY <1>7, <2>1
<1> QED
  BY <1>1, <1>2, <1>3, <1>4, <1>5, <1>6, <1>7 DEF Attempting

\* There is a generation left whenever the timer fires.
LEMMA Enough == ASSUME IInv, timer PROVE started + 1 \in Generations
<1> DEFINE K == MaxAttempts + 1
<1>1. /\ K \in Nat /\ MaxStable \in Nat /\ stable \in Nat /\ stable <= MaxStable
      /\ started \in Nat /\ streak \in Nat /\ failed \in Nat
  BY McpAssumption, Numbered DEF IInv, TypeOK
<1>2. started <= stable * K + streak /\ streak <= failed /\ failed <= MaxAttempts
  BY DEF IInv, Room, Budget
<1>3. \A a, b, k \in Nat : a <= b => a * k <= b * k
  OBVIOUS
<1>4. stable * K <= MaxStable * K /\ stable * K \in Nat /\ MaxStable * K \in Nat
  BY <1>1, <1>3
<1>5. K * (MaxStable + 1) = MaxStable * K + K
  BY <1>1
<1>6. started + 1 <= MaxStable * K + K
  <2> HIDE DEF K
  <2>1. K = MaxAttempts + 1 /\ MaxAttempts \in Nat
    BY McpAssumption DEF K
  <2> QED
    BY <1>1, <1>2, <1>4, <2>1
<1> QED
  BY <1>1, <1>5, <1>6, Numbered DEF Generations, MaxGenerations

\* The kinds of step.
LEMMA StepCases ==
    ASSUME IInv, [Next]_vars
    PROVE  \/ Reconnect \/ Stabilises \/ Dispose
           \/ \E g \in Generations : Moves(g) \/ FoundDown(g) \/ Dies(g) \/ ListChanged(g)
           \/ SyncSkips \/ SyncFetches \/ SyncFails \/ SyncSwaps \/ Clears
           \/ DisposeCloses \/ DisposeWaits \/ DisposeSettles \/ DisposeDrains
           \/ UNCHANGED vars
BY GenerationCases DEF Next, Syncing, Disposing

\* What a typed state holds, and a queued item that starts.
LEMMA HeadStarts ==
    ASSUME TypeOK, SyncStarts
    PROVE  /\ Head(queue) = queue[1] /\ queue # <<>> /\ queue[1] \in Syncs /\ queue[1] # Clear
           /\ queue[1].of \in Generations /\ queue[1].kind \in {"initial", "change"}
<1>1. queue \in Seq(Syncs) /\ queue # <<>>
  BY DEF TypeOK, SyncStarts
<1>2. Head(queue) = queue[1] /\ queue[1] \in Syncs
  BY <1>1
<1>3. queue[1] # Clear
  BY <1>2 DEF SyncStarts, Clear, Sync
<1> QED
  BY <1>1, <1>2, <1>3, Items

LEMMA TypeStep == ASSUME IInv, [Next]_vars PROVE TypeOK'
<1> USE DEF IInv, TypeOK, connection, supervision, syncing, leaving, counters
<1>0. Clear \in Syncs /\ \A g \in Generations : Sync(g, "initial") \in Syncs /\ Sync(g, "change") \in Syncs
  BY DEF Syncs, Sync
<1>1. CASE Reconnect
  <2>1. started + 1 \in Generations
    BY <1>1, Enough DEF Reconnect
  <2>2. streak' \in Nat
    BY <1>1 DEF Reconnect
  <2> QED
    BY <1>1, <2>1, <2>2 DEF Reconnect
<1>2. CASE Stabilises
  BY <1>2, McpAssumption DEF Stabilises
<1>3. CASE Dispose
  BY <1>3 DEF Dispose
<1>4. ASSUME NEW g \in Generations, Moves(g)
      PROVE  TypeOK'
  <2>1. CASE Connects(g) /\ g \notin observed
    <3>1. queue' = Append(queue, Sync(g, "initial"))
      BY <2>1 DEF Connects
    <3>2. queue' \in Seq(Syncs)
      BY <3>1, <1>0, AppendFacts
    <3> QED
      BY <2>1, <3>2 DEF Connects, Proceeds
  <2>2. CASE ConnectFails(g)
    BY <2>2 DEF ConnectFails, Proceeds
  <2>3. CASE Closed(g) /\ g \notin observed
    BY <2>3 DEF Closed, Proceeds
  <2>4. CASE CloseTimesOut(g)
    BY <2>4 DEF CloseTimesOut, Settle
  <2>5. CASE Synced(g) /\ g \notin observed
    BY <2>5 DEF Synced, Settle
  <2>6. CASE Observe(g) /\ attempt[g] # "settled"
    BY <2>6 DEF Observe
  <2> QED
    BY <1>4, <2>1, <2>2, <2>3, <2>4, <2>5, <2>6 DEF Moves
<1>5. ASSUME NEW g \in Generations, FoundDown(g)
      PROVE  TypeOK'
  <2> USE <1>5 DEF FoundDown
  <2>1. /\ attempt' \in [Generations -> {"none", "connecting", "syncing", "synced", "closing",
                                       "unclosed", "settled"}]
        /\ observed' \subseteq Generations
    OBVIOUS
  <2>2. CASE ~IsCurrent(g) /\ UNCHANGED <<supervision, syncing>>
    BY <2>1, <2>2
  <2>3. CASE IsCurrent(g) /\ ~UNCHANGED <<supervision, syncing>>
    <3>1. Spent \in 0..(MaxAttempts + 1)
      <4>1. client # Nobody
        BY <2>3, Numbered DEF IsCurrent, Nobody
      <4>2. failed \in Nat /\ failed <= MaxAttempts
        BY <4>1 DEF Budget
      <4> QED
        BY <4>2, McpAssumption DEF Spent
    <3>2. queue' \in Seq(Syncs)
      BY <2>3, <1>0, DownCases, AppendFacts
    <3>3. failed' \in 0..(MaxAttempts + 1)
      BY <2>3, <3>1, DownCases
    <3>4. /\ UNCHANGED <<fetching, disposers, registered>> /\ client' = Nobody
          /\ timer' \in BOOLEAN
          /\ uptime' \in {"down", "short", "stable"}
          /\ halted' \in {"no", "spent", "unclosed", "disabled"}
      BY <2>3, DownCases
    <3> QED
      BY <2>1, <3>2, <3>3, <3>4
  <2> QED
    BY <2>2, <2>3, DownCases
<1>6. ASSUME NEW g \in Generations, Dies(g)
      PROVE  TypeOK'
  BY <1>6 DEF Dies
<1>7. ASSUME NEW g \in Generations, ListChanged(g)
      PROVE  TypeOK'
  <2>1. queue' \in Seq(Syncs)
    BY <1>0, <1>7, AppendFacts DEF ListChanged
  <2> QED
    BY <1>7, <2>1, McpAssumption DEF ListChanged
<1>8. CASE SyncSkips
  BY <1>8, HeadStarts, TailFacts DEF SyncSkips, SyncStarts
<1>9. CASE SyncFetches
  BY <1>9 DEF SyncFetches
<1>10. CASE SyncFails
  BY <1>10, TailFacts DEF SyncFails, SyncEnds, QueueShape
<1>11. CASE SyncSwaps
  <2>1. /\ queue # <<>> /\ queue' = Tail(queue) /\ fetching' = FALSE
        /\ disposers' \in {disposers, {}, {Head(queue).of}}
        /\ registered' \in {registered \ disposers, (registered \ disposers) \cup {Head(queue).of}}
        /\ \/ UNCHANGED attempt
           \/ \E where \in {"synced", "closing"} :
                 attempt' = [attempt EXCEPT ![Head(queue).of] = where]
    BY <1>11 DEF SyncSwaps, SyncEnds, QueueShape
  <2>2. queue' \in Seq(Syncs) /\ Head(queue) \in Syncs /\ Head(queue) # Clear
    BY <1>11, <2>1, TailFacts DEF SyncSwaps, QueueShape
  <2>3. Head(queue).of \in Generations
    BY <2>2, Items
  <2>4. /\ attempt' \in [Generations -> {"none", "connecting", "syncing", "synced", "closing",
                                       "unclosed", "settled"}]
        /\ disposers' \subseteq Generations /\ registered' \subseteq Generations
    BY <2>1, <2>3
  <2>5. UNCHANGED <<enabled, server, observed, started, supervision, leaving, counters>>
    BY <1>11 DEF SyncSwaps
  <2> QED
    BY <2>1, <2>2, <2>4, <2>5
<1>12. CASE Clears
  BY <1>12, TailFacts DEF Clears
<1>13. CASE DisposeCloses \/ DisposeWaits \/ DisposeSettles \/ DisposeDrains
  BY <1>13 DEF DisposeCloses, DisposeWaits, DisposeSettles, DisposeDrains
<1>14. CASE UNCHANGED vars
  BY <1>14 DEF vars
<1> QED
  BY <1>1, <1>2, <1>3, <1>4, <1>5, <1>6, <1>7, <1>8, <1>9, <1>10, <1>11, <1>12, <1>13, <1>14, StepCases

\* An attempt that is neither to come nor over is the last one.
LEMMA Last ==
    ASSUME TypeOK, Lineage, NEW g \in Generations, attempt[g] # "none", attempt[g] # "settled"
    PROVE  g = started
BY Numbered DEF TypeOK, Lineage

\* The end of a synchronisation's turn: an initial one lets the attempt under way
\* go on, any other leaves the attempts alone.
LEMMA Turn ==
    ASSUME IInv, SyncSkips \/ SyncFails \/ SyncSwaps
    PROVE  /\ queue # <<>> /\ Head(queue) = queue[1] /\ queue' = Tail(queue)
           /\ queue[1] # Clear /\ queue[1].of \in Generations
           /\ UNCHANGED <<enabled, server, observed, started, supervision, leaving, counters>>
           /\ IF queue[1].kind = "initial"
              THEN /\ queue[1].of = started /\ attempt[started] = "syncing"
                   /\ \E where \in {"synced", "closing"} :
                         attempt' = [attempt EXCEPT ![started] = where]
              ELSE UNCHANGED attempt
<1> USE DEF IInv, TypeOK, Lineage, connection, supervision, syncing, leaving, counters
<1>1. queue # <<>> /\ queue \in Seq(Syncs) /\ queue[1] # Clear
  BY HeadStarts DEF SyncSkips, SyncFails, SyncSwaps, QueueShape
<1>2. Head(queue) = queue[1] /\ 1 \in 1..Len(queue) /\ queue[1] \in Syncs
  BY <1>1
<1>3. queue[1].of \in Generations /\ (queue[1].kind = "initial" => attempt[queue[1].of] = "syncing")
  BY <1>1, <1>2, Items DEF QueueShape
<1>4. queue[1].kind = "initial" => queue[1].of = started
  BY <1>3, Last
<1>5. UNCHANGED <<enabled, server, observed, started, supervision, leaving, counters>>
      /\ queue' = Tail(queue)
  BY DEF SyncSkips, SyncFails, SyncSwaps, SyncEnds
<1>6. IF queue[1].kind = "initial"
      THEN \E where \in {"synced", "closing"} : attempt' = [attempt EXCEPT ![queue[1].of] = where]
      ELSE UNCHANGED attempt
  BY <1>2 DEF SyncSkips, SyncFails, SyncSwaps, SyncEnds
<1> QED
  BY <1>1, <1>2, <1>3, <1>4, <1>5, <1>6

LEMMA LineageStep == ASSUME IInv, [Next]_vars PROVE Lineage'
<1> USE DEF IInv, TypeOK, Lineage, connection, supervision, syncing, leaving, counters
<1>0. Generations \subseteq Nat \ {0} /\ Nobody = 0 /\ started \in Generations
  BY Numbered DEF Nobody
<1>1. CASE Reconnect
  <2>1. started + 1 \in Generations
    BY <1>1, Enough DEF Reconnect
  <2>2. client = Nobody /\ attempt[started] = "settled" /\ server[started] = "gone"
    BY <1>1 DEF Reconnect, Outage
  <2> QED
    BY <1>0, <1>1, <2>1, <2>2 DEF Reconnect
<1>2. CASE Stabilises
  BY <1>2 DEF Stabilises
<1>3. CASE Dispose
  BY <1>3 DEF Dispose
<1>4. ASSUME NEW g \in Generations, Moves(g)
      PROVE  Lineage'
  <2>1. CASE Connects(g) /\ g \notin observed
    BY <1>0, <2>1, Last DEF Connects, Proceeds
  <2>2. CASE ConnectFails(g)
    BY <1>0, <2>2, Last DEF ConnectFails, Proceeds
  <2>3. CASE Closed(g) /\ g \notin observed
    BY <1>0, <2>3, Last DEF Closed, Proceeds
  <2>4. CASE CloseTimesOut(g)
    BY <1>0, <2>4, Last DEF CloseTimesOut, Settle
  <2>5. CASE Synced(g) /\ g \notin observed
    BY <1>0, <2>5, Last DEF Synced, Settle
  <2>6. CASE Observe(g) /\ attempt[g] # "settled"
    BY <1>0, <2>6, Last DEF Observe
  <2> QED
    BY <1>4, <2>1, <2>2, <2>3, <2>4, <2>5, <2>6 DEF Moves
<1>5. ASSUME NEW g \in Generations, FoundDown(g)
      PROVE  Lineage'
  BY <1>0, <1>5, DownCases DEF FoundDown
<1>6. ASSUME NEW g \in Generations, Dies(g)
      PROVE  Lineage'
  BY <1>0, <1>6 DEF Dies
<1>7. ASSUME NEW g \in Generations, ListChanged(g)
      PROVE  Lineage'
  BY <1>7 DEF ListChanged
<1>8. CASE SyncSkips \/ SyncFails \/ SyncSwaps
  BY <1>0, <1>8, Turn
<1>9. CASE SyncFetches \/ Clears
  BY <1>9 DEF SyncFetches, Clears
<1>10. CASE DisposeCloses \/ DisposeWaits \/ DisposeSettles \/ DisposeDrains
  BY <1>10 DEF DisposeCloses, DisposeWaits, DisposeSettles, DisposeDrains
<1>11. CASE UNCHANGED vars
  BY <1>11 DEF vars
<1> QED
  BY <1>1, <1>2, <1>3, <1>4, <1>5, <1>6, <1>7, <1>8, <1>9, <1>10, <1>11, StepCases

LEMMA OutageStep == ASSUME IInv, [Next]_vars PROVE Outage'
<1> USE DEF IInv, TypeOK, Lineage, Outage, Disposed, IsCurrent, connection, supervision, syncing,
            leaving, counters
<1>0. Generations \subseteq Nat \ {0} /\ Nobody = 0 /\ started \in Generations
  BY Numbered DEF Nobody
<1>1. CASE Reconnect
  <2>1. started + 1 \in Generations
    BY <1>1, Enough DEF Reconnect
  <2> QED
    BY <1>0, <1>1, <2>1 DEF Reconnect
<1>2. CASE Stabilises
  BY <1>2 DEF Stabilises
<1>3. CASE Dispose
  BY <1>0, <1>3 DEF Dispose
<1>4. ASSUME NEW g \in Generations, Moves(g)
      PROVE  Outage'
  <2>1. CASE Connects(g) /\ g \notin observed
    BY <1>0, <2>1, Last DEF Connects, Proceeds
  <2>2. CASE ConnectFails(g)
    BY <1>0, <2>2, Last DEF ConnectFails, Proceeds
  <2>3. CASE Closed(g) /\ g \notin observed
    BY <1>0, <2>3, Last DEF Closed, Proceeds
  <2>4. CASE CloseTimesOut(g)
    BY <1>0, <2>4, Last DEF CloseTimesOut, Settle
  <2>5. CASE Synced(g) /\ g \notin observed
    BY <1>0, <2>5, Last DEF Synced, Settle
  <2>6. CASE Observe(g) /\ attempt[g] # "settled"
    BY <1>0, <2>6, Last DEF Observe
  <2> QED
    BY <1>4, <2>1, <2>2, <2>3, <2>4, <2>5, <2>6 DEF Moves
<1>5. ASSUME NEW g \in Generations, FoundDown(g)
      PROVE  Outage'
  BY <1>0, <1>5, DownCases DEF FoundDown
<1>6. ASSUME NEW g \in Generations, Dies(g)
      PROVE  Outage'
  BY <1>0, <1>6 DEF Dies
<1>7. ASSUME NEW g \in Generations, ListChanged(g)
      PROVE  Outage'
  BY <1>7 DEF ListChanged
<1>8. CASE SyncSkips \/ SyncFails \/ SyncSwaps
  BY <1>0, <1>8, Turn
<1>9. CASE SyncFetches \/ Clears
  BY <1>9 DEF SyncFetches, Clears
<1>10. CASE DisposeCloses \/ DisposeWaits \/ DisposeSettles \/ DisposeDrains
  BY <1>10 DEF DisposeCloses, DisposeWaits, DisposeSettles, DisposeDrains
<1>11. CASE UNCHANGED vars
  BY <1>11 DEF vars
<1> QED
  BY <1>1, <1>2, <1>3, <1>4, <1>5, <1>6, <1>7, <1>8, <1>9, <1>10, <1>11, StepCases

LEMMA BudgetStep == ASSUME IInv, [Next]_vars PROVE Budget'
<1> USE DEF IInv, TypeOK, Lineage, Outage, Budget, Disposed, IsCurrent, connection, supervision, syncing,
            leaving, counters
<1>0. /\ Generations \subseteq Nat \ {0} /\ Nobody = 0 /\ started \in Generations
      /\ MaxAttempts \in Nat
  BY Numbered, McpAssumption DEF Nobody
<1>1. CASE Reconnect
  BY <1>0, <1>1 DEF Reconnect
<1>2. CASE Stabilises
  BY <1>0, <1>2 DEF Stabilises
<1>3. CASE Dispose
  BY <1>0, <1>3 DEF Dispose
<1>4. ASSUME NEW g \in Generations, Moves(g)
      PROVE  Budget'
  BY <1>0, <1>4 DEF Moves, Connects, ConnectFails, Closed, CloseTimesOut, Synced, Observe
<1>5. ASSUME NEW g \in Generations, FoundDown(g)
      PROVE  Budget'
  <2>1. CASE UNCHANGED <<supervision, syncing>>
    BY <1>5, <2>1 DEF FoundDown
  <2>2. CASE IsCurrent(g) /\ ~UNCHANGED <<supervision, syncing>>
    <3>1. client # Nobody /\ ~timer /\ failed \in Nat /\ failed <= MaxAttempts /\ streak \in Nat
      BY <1>0, <2>2
    <3>2. Spent \in Nat /\ streak <= Spent
      BY <1>0, <3>1 DEF Spent
    <3>3. streak' = streak /\ client' = Nobody
      BY <1>5, <2>2, DownCases DEF FoundDown
    <3>4. \/ ~timer' /\ UNCHANGED uptime
          \/ failed' = Spent /\ uptime' = "down" /\ (timer' => ~(Spent > MaxAttempts))
      BY <1>5, <2>2, <3>1, DownCases DEF FoundDown
    <3> QED
      BY <1>0, <3>1, <3>2, <3>3, <3>4
  <2> QED
    BY <1>5, <2>1, <2>2, DownCases DEF FoundDown
<1>6. ASSUME NEW g \in Generations, Dies(g) \/ ListChanged(g)
      PROVE  Budget'
  BY <1>6 DEF Dies, ListChanged
<1>7. CASE SyncSkips \/ SyncFails \/ SyncSwaps
  BY <1>7, Turn
<1>8. CASE SyncFetches \/ Clears
  BY <1>8 DEF SyncFetches, Clears
<1>9. CASE DisposeCloses \/ DisposeWaits \/ DisposeSettles \/ DisposeDrains
  BY <1>9 DEF DisposeCloses, DisposeWaits, DisposeSettles, DisposeDrains
<1>10. CASE UNCHANGED vars
  BY <1>10 DEF vars
<1> QED
  BY <1>1, <1>2, <1>3, <1>4, <1>5, <1>6, <1>7, <1>8, <1>9, <1>10, StepCases

LEMMA RoomStep == ASSUME IInv, [Next]_vars PROVE Room'
<1> USE DEF connection, supervision, syncing, leaving, counters
<1>0. /\ MaxAttempts \in Nat /\ started \in Nat /\ streak \in Nat /\ stable \in Nat
      /\ started <= stable * (MaxAttempts + 1) + streak /\ streak <= MaxAttempts + 1
  BY Numbered, McpAssumption DEF IInv, TypeOK, Budget, Room
<1>1. CASE Reconnect
  <2>1. started' = started + 1 /\ streak' = streak + 1 /\ stable' = stable
    BY <1>1 DEF Reconnect
  <2>2. stable * (MaxAttempts + 1) \in Nat
    BY <1>0
  <2> QED
    BY <1>0, <2>1, <2>2 DEF Room
<1>2. CASE Stabilises
  <2>1. started' = started /\ streak' = 0 /\ stable' = stable + 1
    BY <1>2 DEF Stabilises
  <2>2. \A a, k \in Nat : (a + 1) * k = a * k + k /\ a * k \in Nat
    OBVIOUS
  <2>3. stable' * (MaxAttempts + 1) = stable * (MaxAttempts + 1) + (MaxAttempts + 1)
        /\ stable * (MaxAttempts + 1) \in Nat
    BY <1>0, <2>1, <2>2
  <2> QED
    BY <1>0, <2>1, <2>3 DEF Room
<1>3. CASE UNCHANGED <<started, streak, stable>>
  BY <1>0, <1>3 DEF Room
<1>4. \/ Reconnect \/ Stabilises \/ UNCHANGED <<started, streak, stable>>
  <2>1. ASSUME NEW g \in Generations, Moves(g) \/ FoundDown(g) \/ Dies(g) \/ ListChanged(g)
        PROVE  UNCHANGED <<started, streak, stable>>
    BY <2>1 DEF Moves, FoundDown, Connects, ConnectFails, Closed, CloseTimesOut, Synced, Observe,
                Dies, ListChanged
  <2>2. ASSUME SyncSkips \/ SyncFetches \/ SyncFails \/ SyncSwaps \/ Clears
        PROVE  UNCHANGED <<started, streak, stable>>
    BY <2>2 DEF SyncSkips, SyncFetches, SyncFails, SyncSwaps, Clears
  <2>3. ASSUME Dispose \/ DisposeCloses \/ DisposeWaits \/ DisposeSettles \/ DisposeDrains
        PROVE  UNCHANGED <<started, streak, stable>>
    BY <2>3 DEF Dispose, DisposeCloses, DisposeWaits, DisposeSettles, DisposeDrains
  <2>4. UNCHANGED vars => UNCHANGED <<started, streak, stable>>
    BY DEF vars
  <2> QED
    BY <2>1, <2>2, <2>3, <2>4, StepCases
<1> QED
  BY <1>1, <1>2, <1>3, <1>4

\* Something joins the queue.
LEMMA QueueGrows ==
    ASSUME TypeOK, QueueShape, NEW s \in Syncs, queue' = Append(queue, s), UNCHANGED fetching,
           s.kind = "initial" => attempt'[s.of] = "syncing",
           s = Clear => halted' = "spent",
           \A i \in 1..Len(queue) : queue[i] # Clear,
           \A i \in 1..Len(queue) : queue[i].kind = "initial" =>
               attempt'[queue[i].of] = "syncing" /\ s.of = queue[i].of /\ s.kind = "change"
    PROVE  QueueShape'
<1>1. /\ Len(queue) \in Nat /\ Len(queue') = Len(queue) + 1
      /\ queue'[Len(queue')] = s /\ queue' # <<>>
      /\ \A i \in 1..Len(queue) : queue'[i] = queue[i]
  BY AppendFacts DEF TypeOK
<1>2. \A i \in 1..Len(queue') : i = Len(queue') \/ i \in 1..Len(queue)
  BY <1>1
<1>3. fetching' => queue' # <<>> /\ queue'[1] # Clear
  <2>1. queue # <<>> => 1 \in 1..Len(queue)
    BY DEF TypeOK
  <2> QED
    BY <1>1, <2>1 DEF QueueShape
<1>4. ASSUME NEW i \in 1..Len(queue')
      PROVE  /\ queue'[i].kind = "initial" => attempt'[queue'[i].of] = "syncing"
             /\ queue'[i] = Clear => i = Len(queue') /\ halted' = "spent"
  BY <1>1, <1>2
<1>5. ASSUME NEW i \in 1..Len(queue'), NEW j \in 1..Len(queue'), i < j, queue'[i].kind = "initial"
      PROVE  queue'[j].of = queue'[i].of /\ queue'[j].kind = "change"
  <2>1. i \in 1..Len(queue)
    BY <1>1, <1>5
  <2>2. CASE j = Len(queue')
    BY <1>1, <1>5, <2>1, <2>2
  <2>3. CASE j \in 1..Len(queue)
    BY <1>1, <1>5, <2>1, <2>3 DEF QueueShape
  <2> QED
    BY <1>2, <2>2, <2>3
<1> QED
  BY <1>3, <1>4, <1>5 DEF QueueShape

\* The first of the queue leaves it.
LEMMA QueueShrinks ==
    ASSUME TypeOK, QueueShape, queue # <<>>, queue' = Tail(queue), ~fetching', UNCHANGED halted,
           \A g \in Generations : attempt'[g] = attempt[g] \/ queue[1].kind = "initial"
    PROVE  QueueShape'
<1>1. /\ Len(queue) \in Nat \ {0} /\ 1 \in 1..Len(queue)
      /\ \A i \in 1..Len(queue') : /\ queue'[i] = queue[i + 1] /\ i + 1 \in 1..Len(queue)
                                   /\ queue[i + 1] \in Syncs /\ i \in Nat /\ 1 < i + 1
                                   /\ i + 1 = Len(queue) => i = Len(queue')
  BY TailFacts DEF TypeOK
<1>2. Clear.kind = "clear"
  BY DEF Clear, Sync
<1>3. ASSUME NEW i \in 1..Len(queue')
      PROVE  /\ queue'[i].kind = "initial" => attempt'[queue'[i].of] = "syncing"
             /\ queue'[i] = Clear => i = Len(queue') /\ halted' = "spent"
  <2>1. CASE queue[1].kind = "initial"
    <3>1. queue[i + 1].kind = "change"
      BY <1>1, <2>1 DEF QueueShape
    <3> QED
      BY <1>1, <1>2, <3>1
  <2>2. CASE queue[1].kind # "initial"
    <3>1. /\ queue[i + 1].kind = "initial" => attempt[queue[i + 1].of] = "syncing"
          /\ queue[i + 1] = Clear => i + 1 = Len(queue) /\ halted = "spent"
      BY <1>1 DEF QueueShape
    <3>2. queue[i + 1].kind = "initial" => queue[i + 1].of \in Generations
      BY <1>1, <1>2, Items
    <3>3. queue'[i] = queue[i + 1] /\ \A g \in Generations : attempt'[g] = attempt[g]
      BY <1>1, <2>2
    <3>4. queue'[i].kind = "initial" => attempt'[queue'[i].of] = "syncing"
      BY <3>1, <3>2, <3>3
    <3>5. queue'[i] = Clear => i = Len(queue') /\ halted' = "spent"
      BY <1>1, <3>1, <3>3
    <3> QED
      BY <3>4, <3>5
  <2> QED
    BY <2>1, <2>2
<1>4. ASSUME NEW i \in 1..Len(queue'), NEW j \in 1..Len(queue'), i < j, queue'[i].kind = "initial"
      PROVE  queue'[j].of = queue'[i].of /\ queue'[j].kind = "change"
  <2>1. i + 1 \in 1..Len(queue) /\ j + 1 \in 1..Len(queue) /\ i + 1 < j + 1
    BY <1>1, <1>4
  <2>2. queue[i + 1].kind = "initial"
    BY <1>1, <1>4
  <2>3. queue[j + 1].of = queue[i + 1].of /\ queue[j + 1].kind = "change"
    BY <2>1, <2>2 DEF QueueShape
  <2> QED
    BY <1>1, <2>3
<1> QED
  BY <1>3, <1>4 DEF QueueShape

LEMMA QueueStep == ASSUME IInv, [Next]_vars PROVE QueueShape'
<1> USE DEF connection, supervision, syncing, leaving, counters
<1>0. /\ Generations \subseteq Nat \ {0} /\ Nobody = 0 /\ started \in Generations
      /\ attempt \in [Generations -> {"none", "connecting", "syncing", "synced", "closing",
                                      "unclosed", "settled"}]
      /\ queue \in Seq(Syncs) /\ Clear.kind = "clear" /\ TypeOK /\ Lineage /\ Outage /\ QueueShape
  BY Numbered DEF Nobody, IInv, TypeOK, Clear, Sync
<1>1. ASSUME NEW i \in 1..Len(queue), queue[i].kind = "initial"
      PROVE  queue[i].of = started /\ attempt[started] = "syncing"
  <2>1. queue[i] \in Syncs /\ attempt[queue[i].of] = "syncing"
    BY <1>0, <1>1 DEF QueueShape
  <2>2. queue[i].of \in Generations
    BY <1>0, <1>1, <2>1, Items
  <2> QED
    BY <1>0, <2>1, <2>2, Last
<1>2. halted # "spent" => \A i \in 1..Len(queue) : queue[i] # Clear
  BY <1>0 DEF QueueShape
<1>3. ASSUME UNCHANGED <<queue, fetching>>,
             halted' = halted \/ halted # "spent",
             attempt[started] = "syncing" => attempt'[started] = "syncing"
      PROVE  QueueShape'
  BY <1>0, <1>1, <1>2, <1>3 DEF QueueShape
<1>4. CASE Reconnect
  <2>1. started + 1 \in Generations
    BY <1>4, Enough DEF Reconnect
  <2> QED
    BY <1>0, <1>3, <1>4, <2>1 DEF Reconnect
<1>5. CASE Stabilises
  BY <1>3, <1>5 DEF Stabilises
<1>6. CASE Dispose
  BY <1>3, <1>6 DEF Dispose
<1>7. ASSUME NEW g \in Generations, Moves(g)
      PROVE  QueueShape'
  <2>1. CASE Connects(g) /\ g \notin observed
    <3>1. g = started /\ attempt[started] = "connecting" /\ attempt'[started] = "syncing"
      BY <1>0, <2>1, Last DEF Connects, Proceeds
    <3>2. queue' = Append(queue, Sync(started, "initial")) /\ UNCHANGED fetching
      BY <2>1, <3>1 DEF Connects
    <3>3. Sync(started, "initial") \in Syncs /\ Sync(started, "initial").of = started
          /\ Sync(started, "initial").kind = "initial" /\ Sync(started, "initial") # Clear
      BY <1>0 DEF Sync, Syncs, Clear
    <3>4. halted # "spent"
      BY <1>0, <3>1 DEF Outage
    <3>5. \A i \in 1..Len(queue) : queue[i].kind # "initial"
      BY <1>1, <3>1
    <3> QED
      BY <1>0, <1>2, <3>1, <3>2, <3>3, <3>4, <3>5, QueueGrows
  <2>2. CASE ConnectFails(g)
    BY <1>0, <1>3, <2>2 DEF ConnectFails, Proceeds
  <2>3. CASE Closed(g) /\ g \notin observed
    BY <1>0, <1>3, <2>3 DEF Closed, Proceeds
  <2>4. CASE CloseTimesOut(g)
    <3>1. halted' = halted \/ halted # "spent"
      BY <1>0, <2>4 DEF CloseTimesOut, Outage, IsCurrent
    <3>2. attempt[started] = "syncing" => attempt'[started] = "syncing"
      BY <1>0, <2>4 DEF CloseTimesOut, Settle
    <3>3. UNCHANGED <<queue, fetching>>
      BY <2>4 DEF CloseTimesOut
    <3> QED
      BY <1>3, <3>1, <3>2, <3>3
  <2>5. CASE Synced(g) /\ g \notin observed
    BY <1>0, <1>3, <2>5 DEF Synced, Settle
  <2>6. CASE Observe(g) /\ attempt[g] # "settled"
    BY <1>0, <1>3, <2>6 DEF Observe
  <2> QED
    BY <1>7, <2>1, <2>2, <2>3, <2>4, <2>5, <2>6 DEF Moves
<1>8. ASSUME NEW g \in Generations, FoundDown(g)
      PROVE  QueueShape'
  <2>1. GoesDown(g) /\ (attempt[started] = "syncing" => attempt'[started] = "syncing")
    BY <1>0, <1>8 DEF FoundDown
  <2>2. CASE UNCHANGED <<queue, fetching>> /\ (halted' = halted \/ halted # "spent")
    BY <1>3, <2>1, <2>2
  <2>3. CASE IsCurrent(g) /\ queue' = Append(queue, Clear) /\ halted' = "spent" /\ UNCHANGED fetching
    <3>1. g = started /\ halted = "no" /\ attempt[started] # "syncing"
      BY <1>0, <1>8, <2>3 DEF IsCurrent, Outage, Lineage, FoundDown
    <3>2. Clear \in Syncs
      BY DEF Syncs
    <3>3. \A i \in 1..Len(queue) : queue[i].kind # "initial"
      BY <1>1, <3>1
    <3> QED
      BY <1>0, <1>2, <2>3, <3>1, <3>2, <3>3, QueueGrows
  <2>4. IsCurrent(g) => halted # "spent"
    BY <1>0, <1>8 DEF IsCurrent, Outage
  <2> QED
    BY <2>1, <2>2, <2>3, <2>4, DownCases
<1>9. ASSUME NEW g \in Generations, Dies(g)
      PROVE  QueueShape'
  BY <1>3, <1>9 DEF Dies
<1>10. ASSUME NEW g \in Generations, ListChanged(g)
       PROVE  QueueShape'
  <2>1. g = started /\ halted = "no" /\ queue' = Append(queue, Sync(g, "change"))
        /\ UNCHANGED <<fetching, attempt>>
    BY <1>0, <1>10 DEF ListChanged, IsCurrent, Outage, Lineage
  <2>2. Sync(g, "change") \in Syncs /\ Sync(g, "change").of = g
        /\ Sync(g, "change").kind = "change" /\ Sync(g, "change") # Clear
    BY <1>0 DEF Sync, Syncs, Clear
  <2> QED
    BY <1>0, <1>1, <1>2, <2>1, <2>2, QueueGrows
<1>11. CASE SyncSkips \/ SyncFails \/ SyncSwaps
  <2>1. ~fetching'
    BY <1>11 DEF SyncSkips, SyncStarts, SyncFails, SyncSwaps, SyncEnds
  <2>2. queue # <<>> /\ queue' = Tail(queue) /\ UNCHANGED halted
        /\ (queue[1].kind # "initial" => UNCHANGED attempt)
    BY <1>11, Turn
  <2> QED
    BY <1>0, <2>1, <2>2, QueueShrinks
<1>12. CASE SyncFetches
  BY <1>0, <1>12, HeadStarts DEF SyncFetches, QueueShape
<1>13. CASE Clears
  <2>1. queue # <<>> /\ queue' = Tail(queue) /\ Head(queue) = queue[1] /\ queue[1] = Clear
        /\ UNCHANGED <<halted, attempt, fetching>>
    BY <1>0, <1>13 DEF Clears
  <2>2. ~fetching
    BY <1>0, <2>1 DEF QueueShape
  <2> QED
    BY <1>0, <2>1, <2>2, QueueShrinks DEF IInv, TypeOK
<1>14. CASE DisposeCloses \/ DisposeWaits \/ DisposeSettles \/ DisposeDrains
  BY <1>3, <1>14 DEF DisposeCloses, DisposeWaits, DisposeSettles, DisposeDrains
<1>15. CASE UNCHANGED vars
  BY <1>3, <1>15 DEF vars
<1> QED
  BY <1>4, <1>5, <1>6, <1>7, <1>8, <1>9, <1>10, <1>11, <1>12, <1>13, <1>14, <1>15, StepCases

\* A turn ends: what is left of the queue, and its last item.
LEMMA Rest ==
    ASSUME queue \in Seq(Syncs), queue # <<>>, queue' = Tail(queue)
    PROVE  /\ queue' # <<>> => queue'[Len(queue')] = queue[Len(queue)]
           /\ queue' = <<>> => Len(queue) = 1
           /\ \A i \in 1..Len(queue') : \E j \in 1..Len(queue) : 1 < j /\ queue'[i] = queue[j]
<1>1. /\ queue' \in Seq(Syncs) /\ Len(queue) \in Nat \ {0} /\ Len(queue') = Len(queue) - 1
      /\ \A i \in 1..Len(queue') : queue'[i] = queue[i + 1] /\ i + 1 \in 1..Len(queue) /\ 1 < i + 1
  BY TailFacts
<1>2. queue' = <<>> => Len(queue') = 0
  OBVIOUS
<1>3. queue' # <<>> => Len(queue') \in 1..Len(queue')
  BY <1>1
<1>4. Len(queue') + 1 = Len(queue)
  BY <1>1
<1> QED
  BY <1>1, <1>2, <1>3, <1>4

LEMMA ToolsStep == ASSUME IInv, [Next]_vars PROVE Tools'
<1> USE DEF connection, supervision, syncing, leaving, counters
<1> DEFINE Served == attempt[client] = "synced" \/ uptime # "down"
<1>0. /\ Generations \subseteq Nat \ {0} /\ Nobody = 0 /\ started \in Generations
      /\ attempt \in [Generations -> {"none", "connecting", "syncing", "synced", "closing",
                                      "unclosed", "settled"}]
      /\ queue \in Seq(Syncs) /\ Clear.of = Nobody /\ TypeOK /\ Lineage /\ Outage /\ QueueShape /\ Tools
      /\ client \in {Nobody, started}
  BY Numbered DEF Nobody, IInv, TypeOK, Lineage, Clear, Sync
<1>1. ASSUME UNCHANGED <<queue, disposers, registered>>,
             halted' # "spent" \/ UNCHANGED halted,
             disposal' # "done" \/ UNCHANGED disposal,
             client' = Nobody \/ (client' = client /\ (Served' => Served))
      PROVE  Tools'
  BY <1>0, <1>1 DEF Tools
<1>2. CASE Reconnect
  <2>1. started + 1 \in Generations /\ started + 1 # started
    BY <1>0, <1>2, Enough DEF Reconnect
  <2>2. uptime = "down" /\ halted = "no" /\ ~Disposed
    BY <1>0, <1>2 DEF Reconnect, Outage
  <2> QED
    BY <1>0, <1>2, <2>1, <2>2 DEF Reconnect, Tools, Disposed
<1>3. CASE Stabilises
  BY <1>1, <1>3 DEF Stabilises
<1>4. CASE Dispose
  BY <1>1, <1>4 DEF Dispose
<1>5. ASSUME NEW g \in Generations, Moves(g)
      PROVE  Tools'
  <2>1. CASE Connects(g) /\ g \notin observed
    <3>1. /\ g = started /\ attempt[started] = "connecting" /\ attempt'[started] = "syncing"
          /\ queue' = Append(queue, Sync(started, "initial"))
          /\ UNCHANGED <<supervision, disposers, registered, leaving>>
      BY <1>0, <2>1, Last DEF Connects, Proceeds
    <3>2. Sync(started, "initial") \in Syncs /\ Sync(started, "initial").of = started
      BY <1>0 DEF Sync, Syncs
    <3>3. halted # "spent" /\ disposal # "done"
      BY <1>0, <3>1 DEF Outage
    <3>4. ASSUME client # Nobody, Served'
          PROVE  registered \subseteq {client} /\ \A i \in 1..Len(queue') : queue'[i].of = client
      <4>1. client = started /\ Served
        BY <1>0, <3>1, <3>4
      <4>2. registered \subseteq {client} /\ \A i \in 1..Len(queue) : queue[i].of = client
        BY <1>0, <3>4, <4>1 DEF Tools
      <4>3. /\ Len(queue) \in Nat /\ Len(queue') = Len(queue) + 1
            /\ queue'[Len(queue')] = Sync(started, "initial")
            /\ \A i \in 1..Len(queue) : queue'[i] = queue[i]
        BY <1>0, <3>1, <3>2, AppendFacts
      <4>4. \A i \in 1..Len(queue') : i = Len(queue') \/ i \in 1..Len(queue)
        BY <4>3
      <4> QED
        BY <3>2, <4>1, <4>2, <4>3, <4>4
    <3> QED
      BY <1>0, <3>1, <3>3, <3>4 DEF Tools
  <2>2. CASE ConnectFails(g)
    BY <1>0, <1>1, <2>2 DEF ConnectFails, Proceeds
  <2>3. CASE Closed(g) /\ g \notin observed
    BY <1>0, <1>1, <2>3 DEF Closed, Proceeds
  <2>4. CASE CloseTimesOut(g)
    <3>1. UNCHANGED <<queue, disposers, registered, disposal>>
          /\ (halted' # "spent" \/ UNCHANGED halted)
          /\ (client' = Nobody \/ UNCHANGED <<client, uptime>>)
      BY <2>4 DEF CloseTimesOut
    <3>2. client # Nobody /\ attempt'[client] = "synced" => attempt[client] = "synced"
      BY <1>0, <2>4 DEF CloseTimesOut, Settle
    <3> QED
      BY <1>1, <3>1, <3>2
  <2>5. CASE Synced(g) /\ g \notin observed
    <3>1. /\ UNCHANGED <<queue, disposers, registered, halted, client, disposal>>
          /\ attempt[g] = "synced" /\ attempt' = [attempt EXCEPT ![g] = "settled"]
          /\ uptime' = IF IsCurrent(g) THEN "short" ELSE uptime
      BY <2>5 DEF Synced, Settle
    <3>2. client # Nobody => (Served' => Served)
      BY <1>0, <3>1 DEF IsCurrent
    <3> QED
      BY <1>1, <3>1, <3>2
  <2>6. CASE Observe(g) /\ attempt[g] # "settled"
    BY <1>1, <2>6 DEF Observe
  <2> QED
    BY <1>5, <2>1, <2>2, <2>3, <2>4, <2>5, <2>6 DEF Moves
<1>6. ASSUME NEW g \in Generations, FoundDown(g)
      PROVE  Tools'
  <2>1. GoesDown(g) /\ UNCHANGED disposal /\ attempt' = [attempt EXCEPT ![g] = "settled"]
    BY <1>6 DEF FoundDown
  <2>2. CASE UNCHANGED <<supervision, syncing>>
    <3>1. client # Nobody => (Served' => Served)
      BY <1>0, <2>1, <2>2
    <3> QED
      BY <1>1, <2>1, <2>2, <3>1
  <2>3. CASE client' = Nobody /\ UNCHANGED <<queue, disposers, registered>>
             /\ (halted' # "spent" \/ UNCHANGED halted)
    BY <1>1, <2>1, <2>3
  <2>4. CASE IsCurrent(g) /\ client' = Nobody /\ queue' = Append(queue, Clear)
             /\ UNCHANGED <<disposers, registered>>
    <3>1. queue'[Len(queue')] = Clear /\ queue' # <<>>
      BY <1>0, <2>4, AppendFacts DEF Syncs
    <3>2. disposal' # "done"
      BY <2>1, <2>4 DEF IsCurrent, Disposed
    <3> QED
      BY <1>0, <2>4, <3>1, <3>2 DEF Tools
  <2> QED
    BY <2>1, <2>2, <2>3, <2>4, DownCases
<1>7. ASSUME NEW g \in Generations, Dies(g)
      PROVE  Tools'
  BY <1>1, <1>7 DEF Dies
<1>8. ASSUME NEW g \in Generations, ListChanged(g)
      PROVE  Tools'
  <2>1. /\ client = g /\ halted = "no" /\ disposal = "no" /\ queue' = Append(queue, Sync(g, "change"))
        /\ UNCHANGED <<supervision, attempt, disposers, registered, leaving>>
    BY <1>0, <1>8 DEF ListChanged, IsCurrent, Disposed, Outage
  <2>2. Sync(g, "change") \in Syncs /\ Sync(g, "change").of = g
    BY <1>0 DEF Sync, Syncs
  <2>3. /\ Len(queue) \in Nat /\ Len(queue') = Len(queue) + 1
        /\ queue'[Len(queue')] = Sync(g, "change")
        /\ \A i \in 1..Len(queue) : queue'[i] = queue[i]
    BY <1>0, <2>1, <2>2, AppendFacts
  <2>4. \A i \in 1..Len(queue') : i = Len(queue') \/ i \in 1..Len(queue)
    BY <2>3
  <2> QED
    BY <1>0, <2>1, <2>2, <2>3, <2>4 DEF Tools
<1>9. CASE SyncSkips \/ SyncFails \/ SyncSwaps
  <2>1. /\ queue # <<>> /\ Head(queue) = queue[1] /\ queue' = Tail(queue)
        /\ queue[1] # Clear /\ queue[1].of \in Generations /\ 1 \in 1..Len(queue)
        /\ UNCHANGED <<supervision, leaving>>
    BY <1>0, <1>9, Turn
  <2>2. /\ queue' # <<>> => queue'[Len(queue')] = queue[Len(queue)]
        /\ queue' = <<>> => Len(queue) = 1
        /\ \A i \in 1..Len(queue') : \E j \in 1..Len(queue) : 1 < j /\ queue'[i] = queue[j]
    BY <1>0, <2>1, Rest
  <2>3. \/ registered' = registered /\ disposers' = disposers
        \/ registered' = {} /\ disposers' \in {disposers, {}}
        \/ registered' = {queue[1].of} /\ disposers' = {queue[1].of}
    BY <1>0, <1>9, <2>1 DEF SyncSkips, SyncFails, SyncSwaps, Tools
  <2>4. registered' \subseteq disposers' /\ \A g, h \in disposers' : g = h
    BY <1>0, <2>3 DEF Tools
  <2>5. disposal' # "done"
    BY <1>0, <2>1 DEF Tools
  <2>6. halted' = "spent" => queue' # <<>> /\ queue'[Len(queue')] = Clear
    BY <1>0, <2>1, <2>2 DEF Tools
  <2>7. ASSUME client' # Nobody, Served'
        PROVE  registered' \subseteq {client'} /\ \A i \in 1..Len(queue') : queue'[i].of = client'
    <3>1. client' = client /\ client = started /\ ~Disposed
      BY <1>0, <2>1, <2>7 DEF Outage
    <3>2. CASE Served
      <4>1. registered \subseteq {client} /\ \A i \in 1..Len(queue) : queue[i].of = client
        BY <1>0, <3>1, <3>2, <2>7 DEF Tools
      <4> QED
        BY <2>1, <2>2, <2>3, <3>1, <4>1
    <3>3. CASE ~Served
      <4>1. /\ queue[1].kind = "initial" /\ queue[1].of = started
            /\ attempt[started] = "syncing" /\ attempt'[started] = "synced"
        BY <1>9, <2>1, <2>7, <3>1, <3>3, Turn
      <4>2. \A j \in 1..Len(queue) : 1 < j => queue[j].of = started
        BY <1>0, <2>1, <4>1 DEF QueueShape
      <4>3. SyncSwaps
        <5>1. ~SyncSkips
          BY <2>1, <3>1, <4>1 DEF SyncSkips, IsCurrent
        <5>2. ~SyncFails
          BY <1>0, <2>1, <4>1 DEF SyncFails, SyncEnds
        <5> QED
          BY <1>9, <5>1, <5>2
      <4>4. registered' \subseteq {started}
        BY <1>0, <2>1, <4>1, <4>3 DEF SyncSwaps, Tools
      <4> QED
        BY <2>2, <3>1, <4>2, <4>4
    <3> QED
      BY <3>2, <3>3
  <2> QED
    BY <2>4, <2>5, <2>6, <2>7 DEF Tools
<1>10. CASE SyncFetches
  BY <1>1, <1>10 DEF SyncFetches
<1>11. CASE Clears
  <2>1. /\ queue # <<>> /\ queue' = Tail(queue) /\ queue[1] = Clear /\ 1 \in 1..Len(queue)
        /\ registered' = registered \ disposers /\ disposers' = {}
        /\ UNCHANGED <<supervision, leaving>>
    BY <1>0, <1>11 DEF Clears
  <2>2. Len(queue) = 1 /\ halted = "spent"
    BY <1>0, <2>1 DEF QueueShape
  <2>3. queue' = <<>>
    BY <1>0, <2>1, <2>2
  <2>4. registered' = {} /\ client = Nobody
    BY <1>0, <2>1, <2>2 DEF Tools, Outage
  <2> QED
    BY <1>0, <2>1, <2>3, <2>4 DEF Tools
<1>12. CASE DisposeCloses \/ DisposeWaits \/ DisposeSettles
  BY <1>1, <1>12 DEF DisposeCloses, DisposeWaits, DisposeSettles
<1>13. CASE DisposeDrains
  BY <1>0, <1>13 DEF DisposeDrains, Tools
<1>14. CASE UNCHANGED vars
  BY <1>1, <1>14 DEF vars
<1> QED
  BY <1>2, <1>3, <1>4, <1>5, <1>6, <1>7, <1>8, <1>9, <1>10, <1>11, <1>12, <1>13, <1>14, StepCases

-----------------------------------------------------------------------------
(* The invariant, and what follows from it.                                *)

LEMMA Initially == Init => IInv
<1> SUFFICES ASSUME Init PROVE IInv
  OBVIOUS
<1>0. /\ 1 \in Generations /\ Generations \subseteq Nat \ {0} /\ MaxAttempts \in Nat /\ Nobody = 0
      /\ MaxStable \in Nat /\ MaxChanges \in Nat
  BY Numbered, McpAssumption DEF Nobody
<1>1. queue = <<>> /\ queue \in Seq(Syncs) /\ Len(queue) = 0
  BY DEF Init
<1>2. TypeOK
  <2>1. 0 \in 0..(MaxAttempts + 1) /\ 0 \in 0..MaxStable /\ 0 \in 0..MaxChanges
    BY <1>0
  <2>2. {enabled, timer, fetching} \subseteq BOOLEAN
    BY DEF Init
  <2> QED
    BY <1>0, <1>1, <2>1, <2>2 DEF Init, TypeOK
<1>3. Lineage /\ Outage /\ Budget
  BY <1>0 DEF Init, Lineage, Outage, Budget, Disposed
<1>4. Room
  BY <1>0 DEF Init, Room
<1>5. QueueShape /\ Tools
  BY <1>0, <1>1 DEF Init, QueueShape, Tools
<1> QED
  BY <1>2, <1>3, <1>4, <1>5 DEF IInv

LEMMA Inductive == IInv /\ [Next]_vars => IInv'
BY TypeStep, LineageStep, OutageStep, BudgetStep, RoomStep, QueueStep, ToolsStep DEF IInv

LEMMA Invariance == Spec => []IInv
<1>1. Init => IInv
  BY Initially
<1>2. IInv /\ [Next]_vars => IInv'
  BY Inductive
<1> QED
  BY <1>1, <1>2, PTL DEF Spec

\* The supervisor's state is what its declarations say: a generation number never
\* runs past what the budget allows, and a failure count never past the budget.
THEOREM TypeCorrect == Spec => []TypeOK
<1>1. IInv => TypeOK
  BY DEF IInv
<1> QED
  BY <1>1, Invariance, PTL

\* However closes, failures and timeouts fall, two server processes of one plugin
\* never run side by side.
THEOREM OneServerCorrect == Spec => []OneServer
<1>1. IInv => OneServer
  <2> SUFFICES ASSUME IInv PROVE OneServer
    OBVIOUS
  <2> DEFINE Running == {g \in Generations : server[g] = "up"}
  <2>1. Running \subseteq {started}
    BY DEF IInv, Lineage
  <2>2. IsFiniteSet({started}) /\ Cardinality({started}) = 1
    BY FS_Singleton
  <2>3. Cardinality(Running) <= 1
    BY <2>1, <2>2, FS_Subset
  <2> QED
    BY <2>3 DEF OneServer
<1> QED
  BY <1>1, Invariance, PTL

\* A live plugin without a connection is waiting to reconnect or has stopped for a
\* stated reason, and a server that crashes again and again is started no more
\* often than the budget allows.
THEOREM SupervisedCorrect == Spec => []Supervised
<1>1. IInv => Supervised
  BY DEF IInv, Outage, Budget, Supervised
<1> QED
  BY <1>1, Invariance, PTL

\* The registry holds one generation's tools at most, the connected one's once it
\* is established, and none once supervision has ended and the queue is empty.
THEOREM ToolsCorrect == Spec => []NoStrayTools
<1>1. IInv => NoStrayTools
  <2> SUFFICES ASSUME IInv PROVE NoStrayTools
    OBVIOUS
  <2>1. Cardinality(registered) <= 1
    <3>1. CASE registered = {}
      BY <3>1, FS_EmptySet
    <3>2. CASE registered # {}
      <4>1. PICK g \in registered : TRUE
        BY <3>2
      <4>2. registered \subseteq {g}
        BY <4>1 DEF IInv, Tools
      <4>3. IsFiniteSet({g}) /\ Cardinality({g}) = 1
        BY FS_Singleton
      <4> QED
        BY <4>2, <4>3, FS_Subset
    <3> QED
      BY <3>1, <3>2
  <2> QED
    BY <2>1 DEF IInv, Tools, NoStrayTools
<1> QED
  BY <1>1, Invariance, PTL

=============================================================================
