---------------------------- MODULE McpConnection ----------------------------
(***************************************************************************)
(* The supervised connection to one MCP server:                            *)
(* packages/mcp/mcp-client/src/connection.ts, with syncTools of tools.ts.  *)
(*                                                                         *)
(* Each attempt is a generation: a fresh client that starts the configured *)
(* server, connects, and queues a synchronisation that swaps the tools     *)
(* registered for the server.  A generation that goes down is followed by  *)
(* another after a delay, until the budget of an outage is spent.  The     *)
(* server may die at any time, a close may never be seen, list changes     *)
(* queue further synchronisations, and the plugin may be disposed at any   *)
(* point.  Everything runs on one event loop: an action is a stretch       *)
(* between two awaits.                                                     *)
(*                                                                         *)
(* The tools of a synchronisation are named by its generation.  Time is    *)
(* left out but for one thing: whether a connection outlasted the          *)
(* stability window.                                                       *)
(***************************************************************************)
EXTENDS Naturals, Sequences, FiniteSets

CONSTANTS MaxAttempts,   \* reconnect attempts of one outage
          MaxStable,     \* connections that outlast the stability window
          MaxChanges     \* changes of the tool list that are announced

ASSUME McpAssumption == MaxAttempts \in Nat \ {0} /\ MaxStable \in Nat /\ MaxChanges \in Nat

MaxGenerations == (MaxAttempts + 1) * (MaxStable + 1)
Generations == 1..MaxGenerations
Nobody == 0

VARIABLES
    enabled,    \* the policy: reconnect automatically
    server,     \* the process behind each generation
    observed,   \* generations whose close was seen (closeObserved)
    attempt,    \* where each connection attempt stands
    started,    \* generations so far
    client,     \* the current generation, or Nobody
    timer,      \* a reconnect timer is armed
    failed,     \* failedAttempts
    uptime,     \* of the current connection: "down", "short" or "stable"
    halted,     \* why no generation follows: "no", "spent", "unclosed", "disabled"
    queue,      \* syncChain: what is queued, the first running
    fetching,   \* the first has checked its generation and fetches the list
    disposers,  \* generations whose registrations `disposers` can undo
    registered, \* generations with tools in the registry
    disposal,   \* where dispose() stands
    closing,    \* the generation it closes
    streak,     \* generations started since a connection was last stable
    stable, changes

connection == <<server, observed, attempt, started>>
supervision == <<client, timer, failed, uptime, halted>>
syncing == <<queue, fetching, disposers, registered>>
leaving == <<disposal, closing>>
counters == <<streak, stable, changes>>
vars == <<enabled, connection, supervision, syncing, leaving, counters>>

Disposed == disposal # "no"
IsCurrent(g) == ~Disposed /\ client = g

Sync(g, kind) == [of |-> g, kind |-> kind]
Clear == Sync(Nobody, "clear")

Init ==
    /\ enabled \in BOOLEAN
    /\ server = [g \in Generations |-> IF g = 1 THEN "up" ELSE "none"]
    /\ observed = {}
    /\ attempt = [g \in Generations |-> IF g = 1 THEN "connecting" ELSE "none"]
    /\ started = 1
    /\ client = 1
    /\ timer = FALSE
    /\ failed = 0
    /\ uptime = "down"
    /\ halted = "no"
    /\ queue = <<>>
    /\ fetching = FALSE
    /\ disposers = {}
    /\ registered = {}
    /\ disposal = "no"
    /\ closing = Nobody
    /\ streak = 1
    /\ stable = 0
    /\ changes = 0

-----------------------------------------------------------------------------
(* Going down, and up again.                                               *)

\* failedAttempts after one more failure: only a stable connection resets it.
Spent == IF uptime = "stable" THEN 1 ELSE failed + 1

\* Slip: Giving up does not wait for its turn.
GivesUpAtOnce ==
    /\ registered' = registered \ disposers
    /\ disposers' = {}
    /\ UNCHANGED <<queue, fetching>>

\* The tools are taken back behind the synchronisations under way.
GivesUp == queue' = Append(queue, Clear) /\ UNCHANGED <<fetching, disposers, registered>>

\* scheduleReconnect
Reschedule ==
    IF ~enabled
    THEN halted' = "disabled" /\ UNCHANGED <<timer, failed, uptime, syncing>>
    ELSE /\ failed' = Spent
         /\ uptime' = "down"
         /\ IF Spent > MaxAttempts
            THEN halted' = "spent" /\ GivesUp /\ UNCHANGED timer
            ELSE timer' = TRUE /\ UNCHANGED <<halted, syncing>>

\* generationDown
GoesDown(g) ==
    IF IsCurrent(g) THEN client' = Nobody /\ Reschedule
    ELSE UNCHANGED <<supervision, syncing>>

\* The timer fires: a new generation, with a server process of its own.
Reconnect ==
    /\ timer
    /\ timer' = FALSE
    /\ started' = started + 1
    /\ client' = started + 1
    /\ server' = [server EXCEPT ![started + 1] = "up"]
    /\ attempt' = [attempt EXCEPT ![started + 1] = "connecting"]
    /\ streak' = streak + 1
    /\ UNCHANGED <<enabled, observed, failed, uptime, halted, syncing, leaving, stable, changes>>

Settle(g) == attempt' = [attempt EXCEPT ![g] = "settled"]
Proceeds(g, where) == attempt' = [attempt EXCEPT ![g] = where]

\* connect() resolves; a server already gone is noticed.
Connects(g) ==
    /\ attempt[g] = "connecting"
    /\ IF g \in observed
       THEN Settle(g) /\ GoesDown(g)
       ELSE /\ Proceeds(g, "syncing")
            /\ queue' = Append(queue, Sync(g, "initial"))
            /\ UNCHANGED <<supervision, fetching, disposers, registered>>
    /\ UNCHANGED <<enabled, server, observed, started, leaving, counters>>

ConnectFails(g) ==
    /\ attempt[g] = "connecting"
    /\ Proceeds(g, "closing")
    /\ UNCHANGED <<enabled, server, observed, started, supervision, syncing, leaving, counters>>

\* Slip: A failed generation is given up without seeing it close.
ClosedUnseen(g) ==
    /\ attempt[g] = "closing"
    /\ Settle(g) /\ GoesDown(g)
    /\ UNCHANGED <<enabled, server, observed, started, leaving, counters>>

\* close() of a failed attempt returns: go on at once if the close was seen.
Closed(g) ==
    /\ attempt[g] = "closing"
    /\ IF g \in observed
       THEN Settle(g) /\ GoesDown(g)
       ELSE Proceeds(g, "unclosed") /\ UNCHANGED <<supervision, syncing>>
    /\ UNCHANGED <<enabled, server, observed, started, leaving, counters>>

\* waitForClose: seen after all, or timed out, and then nothing may follow.
CloseSeen(g) ==
    /\ attempt[g] = "unclosed" /\ g \in observed
    /\ Settle(g) /\ GoesDown(g)
    /\ UNCHANGED <<enabled, server, observed, started, leaving, counters>>

CloseTimesOut(g) ==
    /\ attempt[g] = "unclosed" /\ g \notin observed
    /\ Settle(g)
    /\ IF IsCurrent(g)
       THEN client' = Nobody /\ halted' = "unclosed" /\ UNCHANGED <<timer, failed, uptime>>
       ELSE UNCHANGED supervision
    /\ UNCHANGED <<enabled, server, observed, started, syncing, leaving, counters>>

\* The process behind a generation is gone.
Dies(g) ==
    /\ server[g] = "up"
    /\ server' = [server EXCEPT ![g] = "gone"]
    /\ UNCHANGED <<enabled, observed, attempt, started, supervision, syncing, leaving, counters>>

\* onclose: an attempt that has not settled looks at it later.
Observe(g) ==
    /\ server[g] = "gone" /\ g \notin observed
    /\ observed' = observed \cup {g}
    /\ IF attempt[g] = "settled" THEN GoesDown(g) ELSE UNCHANGED <<supervision, syncing>>
    /\ UNCHANGED <<enabled, server, attempt, started, leaving, counters>>

\* The connection outlasts the window, as the next disconnect will find.
Stabilises ==
    /\ uptime = "short" /\ stable < MaxStable /\ ~Disposed
    /\ uptime' = "stable"
    /\ stable' = stable + 1
    /\ streak' = 0
    /\ UNCHANGED <<enabled, connection, client, timer, failed, halted, syncing, leaving, changes>>

-----------------------------------------------------------------------------
(* Synchronising the tools.                                                *)

\* A list change is announced, by a client that may have settled or not.
ListChanged(g) ==
    /\ IsCurrent(g) /\ server[g] = "up" /\ changes < MaxChanges
    /\ changes' = changes + 1
    /\ queue' = Append(queue, Sync(g, "change"))
    /\ UNCHANGED <<enabled, connection, supervision, fetching, disposers, registered, leaving,
                   streak, stable>>

SyncStarts ==
    /\ queue # <<>> /\ ~fetching /\ Head(queue).kind # "clear"

\* The turn of a synchronisation whose generation is no longer the current one:
\* it does nothing, and its attempt goes on as if it had succeeded.
SyncSkips ==
    /\ SyncStarts /\ ~IsCurrent(Head(queue).of)
    /\ queue' = Tail(queue)
    /\ attempt' = IF Head(queue).kind = "initial"
                  THEN [attempt EXCEPT ![Head(queue).of] = "synced"] ELSE attempt
    /\ UNCHANGED <<enabled, server, observed, started, supervision, fetching, disposers,
                   registered, leaving, counters>>

SyncFetches ==
    /\ SyncStarts /\ IsCurrent(Head(queue).of)
    /\ fetching' = TRUE
    /\ UNCHANGED <<enabled, connection, supervision, queue, disposers, registered, leaving,
                   counters>>

SyncEnds(where) ==
    /\ queue' = Tail(queue)
    /\ fetching' = FALSE
    /\ attempt' = IF Head(queue).kind = "initial"
                  THEN [attempt EXCEPT ![Head(queue).of] = where] ELSE attempt

\* The list could not be fetched: the tools stay as they are.
SyncFails ==
    /\ fetching
    /\ SyncEnds("closing")
    /\ UNCHANGED <<enabled, server, observed, started, supervision, disposers, registered,
                   leaving, counters>>

\* The swap: what `disposers` owned goes, the fetched list comes, all or nothing.
\* A name already taken leaves no tools of this server, and a strict start fails.
SyncSwaps ==
    /\ fetching
    /\ \/ /\ registered' = (registered \ disposers) \cup {Head(queue).of}
          /\ disposers' = {Head(queue).of}
          /\ SyncEnds("synced")
       \/ /\ registered' = registered \ disposers
          /\ \/ SyncEnds("synced") /\ disposers' = {}
             \/ /\ Head(queue) = Sync(1, "initial")
                /\ SyncEnds("closing") /\ UNCHANGED disposers
    /\ UNCHANGED <<enabled, server, observed, started, supervision, leaving, counters>>

\* The turn of the disposal that giving up queued.
Clears ==
    /\ queue # <<>> /\ Head(queue) = Clear
    /\ queue' = Tail(queue)
    /\ registered' = registered \ disposers
    /\ disposers' = {}
    /\ UNCHANGED <<enabled, connection, supervision, fetching, leaving, counters>>

\* Slip: A close that came during the synchronisation is forgotten.
SyncedAlways(g) ==
    /\ attempt[g] = "synced"
    /\ Settle(g)
    /\ uptime' = IF IsCurrent(g) THEN "short" ELSE uptime
    /\ UNCHANGED <<enabled, server, observed, started, client, timer, failed, halted, syncing,
                   leaving, counters>>

\* The rest of an attempt that connected and synchronised.
Synced(g) ==
    /\ attempt[g] = "synced"
    /\ Settle(g)
    /\ IF g \in observed THEN GoesDown(g)
       ELSE /\ uptime' = IF IsCurrent(g) THEN "short" ELSE uptime
            /\ UNCHANGED <<client, timer, failed, halted, syncing>>
    /\ UNCHANGED <<enabled, server, observed, started, leaving, counters>>

-----------------------------------------------------------------------------
(* Disposal.                                                               *)

\* Slip: The reconnect timer is left armed.
DisposeKeepsTimer ==
    /\ ~Disposed
    /\ closing' = client
    /\ client' = Nobody
    /\ disposal' = IF client = Nobody THEN "settling" ELSE "closing"
    /\ UNCHANGED <<enabled, connection, timer, failed, uptime, halted, syncing, counters>>

Dispose ==
    /\ ~Disposed
    /\ timer' = FALSE
    /\ closing' = client
    /\ client' = Nobody
    /\ disposal' = IF client = Nobody THEN "settling" ELSE "closing"
    /\ UNCHANGED <<enabled, connection, failed, uptime, halted, syncing, counters>>

\* close() returns, and its signal arrives or is waited for in vain.
DisposeCloses ==
    /\ disposal = "closing"
    /\ disposal' = IF closing \in observed THEN "settling" ELSE "unclosed"
    /\ UNCHANGED <<enabled, connection, supervision, syncing, closing, counters>>

DisposeWaits ==
    /\ disposal = "unclosed"
    /\ disposal' = "settling"
    /\ UNCHANGED <<enabled, connection, supervision, syncing, closing, counters>>

\* await settling: the last attempt made.
DisposeSettles ==
    /\ disposal = "settling" /\ attempt[started] = "settled"
    /\ disposal' = "draining"
    /\ UNCHANGED <<enabled, connection, supervision, syncing, closing, counters>>

\* await syncChain, then take back what is left.
DisposeDrains ==
    /\ disposal = "draining" /\ queue = <<>>
    /\ disposal' = "done"
    /\ registered' = registered \ disposers
    /\ disposers' = {}
    /\ UNCHANGED <<enabled, connection, supervision, queue, fetching, closing, counters>>

-----------------------------------------------------------------------------
Attempting(g) ==
    \/ Connects(g) \/ ConnectFails(g) \/ Synced(g)
    \/ Closed(g) \/ CloseSeen(g) \/ CloseTimesOut(g)
Syncing == SyncSkips \/ SyncFetches \/ SyncFails \/ SyncSwaps \/ Clears
Disposing == DisposeCloses \/ DisposeWaits \/ DisposeSettles \/ DisposeDrains

Next ==
    \/ Reconnect \/ Stabilises \/ Dispose
    \/ \E g \in Generations : Attempting(g) \/ Dies(g) \/ Observe(g) \/ ListChanged(g)
    \/ Syncing \/ Disposing

Spec == Init /\ [][Next]_vars

\* Timers fire, requests are answered or time out, queued work runs.  Nothing is
\* assumed of the server: it may live on, or go unseen.
FairSpec ==
    /\ Spec
    /\ WF_vars(Reconnect) /\ WF_vars(Syncing) /\ WF_vars(Disposing)
    /\ \A g \in Generations : WF_vars(Attempting(g))

-----------------------------------------------------------------------------
Syncs == [of : Generations, kind : {"initial", "change"}] \cup {Clear}

TypeOK ==
    /\ {enabled, timer, fetching} \subseteq BOOLEAN
    /\ server \in [Generations -> {"none", "up", "gone"}]
    /\ attempt \in [Generations -> {"none", "connecting", "syncing", "synced", "closing",
                                    "unclosed", "settled"}]
    /\ started \in Generations
    /\ {client, closing} \subseteq Generations \cup {Nobody}
    /\ failed \in 0..(MaxAttempts + 1)
    /\ uptime \in {"down", "short", "stable"}
    /\ halted \in {"no", "spent", "unclosed", "disabled"}
    /\ queue \in Seq(Syncs)
    /\ observed \subseteq Generations /\ disposers \subseteq Generations
    /\ registered \subseteq Generations
    /\ disposal \in {"no", "closing", "unclosed", "settling", "draining", "done"}
    /\ streak \in Nat /\ stable \in 0..MaxStable /\ changes \in 0..MaxChanges

\* Two server processes of one plugin never run side by side, however closes,
\* failures and timeouts fall.
OneServer == Cardinality({g \in Generations : server[g] = "up"}) <= 1

\* The registry holds at most one generation's tools, all of which can be taken
\* back; once a connection is established they are its own.  When the supervisor
\* has given up, or disposal is done, and nothing is queued, there are none.
NoStrayTools ==
    /\ registered \subseteq disposers
    /\ Cardinality(registered) <= 1
    /\ client # Nobody /\ uptime # "down" => registered \subseteq {client}
    /\ (halted = "spent" /\ queue = <<>>) \/ disposal = "done" => registered = {}

\* While the plugin is live the connection is looked after: without a client a
\* timer is armed or the supervisor has stopped for a stated reason, and a client
\* whose close was seen is not taken for a connected one.  A server that crashes
\* again and again, even one whose connections succeed for a moment, is started a
\* bounded number of times.
Supervised ==
    /\ ~Disposed => IF client = Nobody THEN timer \/ halted # "no"
                    ELSE client \in observed => attempt[client] # "settled"
    /\ streak <= MaxAttempts + 1

\* Disposal ends, whatever the server does, and nothing starts behind it.
DisposeEnds == Disposed ~> [](disposal = "done" /\ ~timer /\ client = Nobody)

=============================================================================
