------------------------- MODULE Preparations_proofs -------------------------
(***************************************************************************)
(* Proofs about shared preparations, for any number of calls, appenders    *)
(* and entries: at most one session of an identity is held, live, draining *)
(* or left owning the state, a held one still matches the log, and a view  *)
(* that answers a call misses nothing the call could have asked for.       *)
(***************************************************************************)
EXTENDS Preparations, FiniteSetTheorems, SequenceTheorems, TLAPS

-----------------------------------------------------------------------------
(* The inductive invariant.                                                *)

Logs == [revision : Nat, open : BOOLEAN]
Kinds == {"load", "commit", "check", "retire", "write", "append"}
Ops == [kind : Kinds, of : Callers \cup Entries \cup Appenders \cup {None}]
Phases == {"none", "loading", "ready", "committing", "reserved"}
Steps == {"idle", "loop", "retire", "flush", "result", "read", "settle", "commit", "committed",
          "check", "checked", "holding"} \cup Ended
CallStates == [pc : Steps, on : Entries \cup {None}, seen : Logs \cup {None}, aborted : BOOLEAN,
               outcome : {"none", "committed", "stale", "failed", "current", "changed"},
               since : Nat, missing : SUBSET Nat]

TypeOK ==
    /\ log \in Logs /\ outside \subseteq Nat
    /\ chain \in Seq(Ops)
    /\ stage \in {"queued", "adopting", "writing"}
    /\ tracked \in [known : BOOLEAN, cursor : Nat, owner : Callers \cup {None}]
    /\ live \in Callers \cup {None} /\ retiring \in Callers \cup {None}
    /\ pool \in [entry : Entries \cup {None}, phase : Phases, source : Logs \cup {None}]
    /\ call \in [Callers -> CallStates]
    /\ seqOf \in [Appenders -> Nat]

\* Where a call that went past its read stands, and where one that reserved does.
Past == {"read", "settle", "commit", "committed", "holding", "check", "checked"}
Reserving == {"commit", "committed", "holding"}

\* What was read is no newer than the log.
Reads ==
    /\ pool.entry = None \/ pool.phase = "none" => pool = NoEntry
    /\ pool.phase \in {"ready", "committing", "reserved"} =>
          pool.source \in Logs /\ pool.source.revision <= log.revision
    /\ \A c \in Callers : call[c].pc \in Past \cup {"result"} => call[c].on \in Entries
    /\ \A c \in Callers : call[c].pc \in Past =>
          call[c].seen \in Logs /\ call[c].seen.revision <= log.revision

\* What has been committed: the entry is still in the pool, and what the call saw
\* is what the log holds and the state tracks, but for what others wrote.
Committing(c) == call[c].pc = "committed" /\ call[c].outcome = "committed"

Kept(c) ==
    /\ IsPooled(c)
    /\ tracked.known /\ Matches(c)
    /\ ~call[c].seen.open
    /\ OthersSince(call[c].seen.revision)
    /\ stage = "queued"

\* Who reserved the entry.  A call whose entry is gone lost it to a write.
Reserved ==
    /\ \A c \in Callers : call[c].pc \in Reserving /\ IsPooled(c) =>
          pool.phase = IF call[c].pc = "holding" THEN "reserved" ELSE "committing"
    /\ \A c, d \in Callers :
          /\ call[c].pc \in Reserving /\ IsPooled(c)
          /\ call[d].pc \in Reserving /\ IsPooled(d)
          => c = d
    /\ \A c \in Callers : call[c].pc = "commit" /\ ~IsPooled(c) =>
          call[c].seen.revision < log.revision
    /\ \A c \in Callers : call[c].pc = "holding" \/ Committing(c) => Kept(c)

\* Nobody has two of these in the chain.
Single == {"load", "commit", "check", "retire"}

InChain(op) == \E i \in DOMAIN chain : chain[i] = op

\* What the operations of the chain say of those who wait for them.
OpHolds(op) ==
    /\ op.kind = "load" => op.of \in Entries /\ (pool.entry = op.of => pool.phase = "loading")
    /\ op.kind \in {"commit", "check"} => op.of \in Callers /\ call[op.of].pc = op.kind
    /\ op.kind = "retire" => op.of = retiring /\ retiring # None
    /\ op.kind = "write" => op.of = None /\ (live # None \/ retiring # None)
    /\ op.kind = "append" => op.of \in Appenders

Queue ==
    /\ \A i \in DOMAIN chain : OpHolds(chain[i])
    /\ \A i, j \in DOMAIN chain :
          chain[i] = chain[j] /\ chain[i].kind \in Single => i = j
    /\ \A i, j \in DOMAIN chain : ~(chain[i].kind = "retire" /\ chain[j].kind = "write")
    /\ stage # "queued" => chain # <<>> /\ chain[1].kind = "append"
    /\ stage = "adopting" => ~tracked.known

\* Who owns the state.
Owned ==
    /\ live # None => tracked.owner = live
    /\ retiring # None => tracked.owner = retiring /\ live = None
    /\ tracked.owner # None => tracked.known /\ call[tracked.owner].pc = "done"

IInv == TypeOK /\ Reads /\ Reserved /\ Queue /\ Owned

-----------------------------------------------------------------------------
(* What the updates of a call's state do.                                  *)

\* Somebody else's step does no more to a call than end its wait for the entry.
Bystander(d) ==
    /\ call'[d].on = call[d].on /\ call'[d].seen = call[d].seen
    /\ call'[d].outcome = call[d].outcome /\ call'[d].aborted = call[d].aborted
    /\ call'[d].since = call[d].since /\ call'[d].missing = call[d].missing
    /\ call'[d].pc = call[d].pc \/ (call[d].pc = "settle" /\ call'[d].pc = "read")

\* A step of one call.
Moves(c) ==
    /\ call' \in [Callers -> CallStates]
    /\ \A d \in Callers \ {c} : Bystander(d)

LEMMA IdleType == ASSUME NEW where \in Steps PROVE [Idle EXCEPT !.pc = where] \in CallStates
<1>1. Idle \in CallStates
  BY DEF Idle, CallStates, Steps
<1> QED
  BY <1>1 DEF CallStates

LEMMA SettledFacts ==
    ASSUME TypeOK, NEW e
    PROVE  /\ Settled(call) \in [Callers -> CallStates] /\ SettledBy(e) \in [Callers -> CallStates]
           /\ \A d \in Callers :
                 \/ Settled(call)[d] = call[d]
                 \/ call[d].pc = "settle" /\ Settled(call)[d] = [call[d] EXCEPT !.pc = "read"]
           /\ \A d \in Callers :
                 \/ SettledBy(e)[d] = call[d]
                 \/ call[d].pc = "settle" /\ SettledBy(e)[d] = [call[d] EXCEPT !.pc = "read"]
<1>1. call \in [Callers -> CallStates]
  BY DEF TypeOK
<1>2. \A t \in CallStates : [t EXCEPT !.pc = "read"] \in CallStates
  BY DEF CallStates, Steps
<1>3. \A d \in Callers : call[d] \in CallStates
  BY <1>1
<1>4. \A d \in Callers :
         Settled(call)[d] = IF call[d].on = pool.entry /\ call[d].pc = "settle"
                            THEN [call[d] EXCEPT !.pc = "read"] ELSE call[d]
  BY DEF Settled
<1>5. Settled(call) \in [Callers -> CallStates]
  <2> DEFINE g(d) == IF call[d].on = pool.entry /\ call[d].pc = "settle"
                     THEN [call[d] EXCEPT !.pc = "read"] ELSE call[d]
  <2>1. \A d \in Callers : g(d) \in CallStates
    BY <1>2, <1>3
  <2>2. Settled(call) = [d \in Callers |-> g(d)]
    BY DEF Settled
  <2> HIDE DEF g
  <2> QED
    BY <2>1, <2>2
<1> QED
  BY <1>1, <1>4, <1>5 DEF SettledBy

LEMMA MovedFrom ==
    ASSUME TypeOK, NEW c \in Callers, NEW e, NEW f \in {call, SettledBy(e)},
           call[c].pc # "settle" \/ f = call
    PROVE  /\ f \in [Callers -> CallStates] /\ f[c] = call[c]
           /\ \A d \in Callers :
                 f[d] = call[d] \/ (call[d].pc = "settle" /\ f[d] = [call[d] EXCEPT !.pc = "read"])
<1>1. CASE f = call
  BY <1>1 DEF TypeOK
<1>2. CASE f # call
  <2>1. f = SettledBy(e) /\ call[c].pc # "settle"
    BY <1>2
  <2>2. SettledBy(e) \in [Callers -> CallStates]
    BY SettledFacts
  <2>3. \A d \in Callers :
           \/ SettledBy(e)[d] = call[d]
           \/ call[d].pc = "settle" /\ SettledBy(e)[d] = [call[d] EXCEPT !.pc = "read"]
    BY SettledFacts
  <2> QED
    BY <2>1, <2>2, <2>3
<1> QED
  BY <1>1, <1>2

\* MovesTo, Goes and Answers: one call moves, the others are bystanders.
LEMMA MovesFacts ==
    ASSUME TypeOK, NEW c \in Callers, NEW where \in Steps, NEW e, NEW f \in {call, SettledBy(e)},
           MovesTo(f, c, where), call[c].pc # "settle" \/ f = call
    PROVE  /\ call' \in [Callers -> CallStates] /\ call'[c].pc = where
           /\ \A d \in Callers \ {c} : Bystander(d)
           /\ where \notin Ended \cup {"loop"} => call'[c] = [call[c] EXCEPT !.pc = where]
           /\ where \in Ended => call'[c].missing = {} /\ call'[c].since = 0
           /\ where = "loop" => call'[c].since = call[c].since /\ call'[c].missing = {}
<1>1. /\ f \in [Callers -> CallStates] /\ f[c] = call[c]
      /\ \A d \in Callers : f[d] = call[d] \/ (call[d].pc = "settle" /\ f[d] = [call[d] EXCEPT !.pc = "read"])
  BY MovedFrom
<1>2. call[c] \in CallStates /\ \A d \in Callers : call[d] \in CallStates
  BY DEF TypeOK
<1> DEFINE t == CASE where \in Ended -> [Idle EXCEPT !.pc = where]
                  [] where = "loop" -> [Idle EXCEPT !.pc = where, !.aborted = f[c].aborted,
                                                    !.since = f[c].since]
                  [] OTHER -> [f[c] EXCEPT !.pc = where]
<1>3. call' = [f EXCEPT ![c] = t]
  BY DEF MovesTo
<1>4. /\ t \in CallStates /\ t.pc = where
      /\ where \notin Ended \cup {"loop"} => t = [call[c] EXCEPT !.pc = where]
      /\ where \in Ended => t.missing = {} /\ t.since = 0
      /\ where = "loop" => t.since = call[c].since /\ t.missing = {}
  <2>1. CASE where \in Ended
    BY <2>1, IdleType DEF Idle, Ended
  <2>2. CASE where = "loop"
    BY <2>2, <1>1, <1>2 DEF CallStates, Ended, Idle
  <2>3. CASE where \notin Ended \cup {"loop"}
    BY <2>3, <1>1, <1>2 DEF CallStates
  <2> QED
    BY <2>1, <2>2, <2>3
<1> HIDE DEF t
<1>5. call' \in [Callers -> CallStates] /\ call'[c] = t /\ \A d \in Callers \ {c} : call'[d] = f[d]
  BY <1>1, <1>3, <1>4
<1>6. ASSUME NEW d \in Callers \ {c} PROVE Bystander(d)
  BY <1>1, <1>2, <1>5 DEF Bystander, CallStates
<1> QED
  BY <1>4, <1>5, <1>6

LEMMA AnswersFacts ==
    ASSUME TypeOK, NEW c \in Callers, NEW where \in Ended, NEW e, NEW f \in {call, SettledBy(e)},
           Answers(f, c, where), call[c].pc # "settle", call[c].seen \in Logs
    PROVE  /\ call' \in [Callers -> CallStates] /\ call'[c].pc = where
           /\ call'[c].missing = (call[c].seen.revision + 1)..call[c].since /\ call'[c].since = 0
           /\ \A d \in Callers \ {c} : Bystander(d)
<1>1. /\ f \in [Callers -> CallStates] /\ f[c] = call[c]
      /\ \A d \in Callers : f[d] = call[d] \/ (call[d].pc = "settle" /\ f[d] = [call[d] EXCEPT !.pc = "read"])
  BY MovedFrom
<1>2. \A d \in Callers : call[d] \in CallStates
  BY DEF TypeOK
<1> DEFINE gap == (call[c].seen.revision + 1)..call[c].since
           t == [Idle EXCEPT !.pc = where, !.missing = gap]
<1>3. call' = [f EXCEPT ![c] = t]
  BY <1>1 DEF Answers
<1>4. gap \in SUBSET Nat
  BY <1>2 DEF CallStates, Logs
<1> HIDE DEF gap
<1>5. t \in CallStates /\ t.pc = where /\ t.missing = gap /\ t.since = 0
  BY <1>4 DEF Idle, CallStates, Steps
<1> HIDE DEF t
<1>6. call' \in [Callers -> CallStates] /\ call'[c] = t /\ \A d \in Callers \ {c} : call'[d] = f[d]
  BY <1>1, <1>3, <1>5
<1>7. ASSUME NEW d \in Callers \ {c} PROVE Bystander(d)
  BY <1>1, <1>2, <1>6 DEF Bystander, CallStates
<1> QED
  BY <1>5, <1>6, <1>7 DEF gap

\* Whose reservation stands: the others have lost theirs.
LEMMA OnlyOne ==
    ASSUME IInv
    PROVE  /\ \A c \in Callers : call[c].pc \in Reserving /\ IsPooled(c) =>
                 /\ pool.phase \in {"committing", "reserved"}
                 /\ \A d \in Callers \ {c} : call[d].pc \in Reserving => ~IsPooled(d)
           /\ pool.phase \notin {"committing", "reserved"} =>
                 \A d \in Callers : call[d].pc \in Reserving => ~IsPooled(d)
BY DEF IInv, Reserved

\* A step in which nobody reserves: the calls in movers go somewhere else, the pool's
\* entry stays or goes with nobody holding it or with a write, and what has been
\* committed is still what the log and the state say.
LEMMA Frame ==
    ASSUME IInv, TypeOK', log.revision <= log'.revision,
           NEW movers \in SUBSET Callers,
           \A d \in Callers \ movers : Bystander(d),
           \A c \in movers :
              /\ call'[c].pc \notin Reserving
              /\ call'[c].pc \in Past \cup {"result"} => call'[c].on \in Entries
              /\ call'[c].pc \in Past => call'[c].seen \in Logs
                                         /\ call'[c].seen.revision <= log'.revision,
           \/ pool' = pool
           \/ \A d \in Callers \ movers : call[d].pc \in Reserving => ~IsPooled(d)
           \/ /\ pool' = NoEntry /\ log.revision < log'.revision
              /\ \A d \in Callers \ movers : ~(call[d].pc = "holding" \/ Committing(d)),
           pool'.entry \in {pool.entry, None} \/ \A d \in Callers \ movers : call[d].on # pool'.entry,
           pool' \in {pool, NoEntry} \/ (pool'.entry # None /\ pool'.phase # "none"),
           pool' = pool \/ (pool'.phase \in {"ready", "committing", "reserved"} =>
                               pool'.source \in Logs /\ pool'.source.revision <= log'.revision),
           \A d \in Callers \ movers : call[d].pc = "holding" \/ Committing(d) =>
              /\ tracked'.known /\ tracked'.owner = None
              /\ tracked'.cursor = call[d].seen.revision
              /\ (call[d].seen.revision + 1)..log'.revision \subseteq outside'
              /\ stage' = "queued"
    PROVE  Reads' /\ Reserved'
<1> USE PreparationsAssumption
<1>1. /\ log.revision \in Nat /\ log'.revision \in Nat
      /\ call \in [Callers -> CallStates] /\ call' \in [Callers -> CallStates]
  BY DEF IInv, TypeOK, Logs
<1>2. \A d \in Callers \ movers :
         /\ call'[d].pc \in Past => call[d].pc \in Past
         /\ call'[d].pc \in Past \cup {"result"} => call[d].pc \in Past \cup {"result"}
         /\ call'[d].pc \in Reserving \/ call[d].pc \in Reserving => call'[d].pc = call[d].pc
         /\ call'[d].on = call[d].on /\ call'[d].seen = call[d].seen
         /\ call'[d].outcome = call[d].outcome
  BY DEF Bystander, Past, Reserving
<1>3. Reads'
  <2>1. ASSUME pool'.entry = None \/ pool'.phase = "none" PROVE pool' = NoEntry
    BY <2>1 DEF IInv, Reads
  <2>2. ASSUME pool'.phase \in {"ready", "committing", "reserved"}
        PROVE  pool'.source \in Logs /\ pool'.source.revision <= log'.revision
    <3>1. CASE pool' = pool
      <4>1. pool.source \in Logs /\ pool.source.revision <= log.revision
        BY <2>2, <3>1 DEF IInv, Reads
      <4> QED
        BY <1>1, <3>1, <4>1 DEF Logs
    <3> QED
      BY <2>2, <3>1
  <2>3. ASSUME NEW c \in Callers, call'[c].pc \in Past \cup {"result"}
        PROVE  call'[c].on \in Entries
    BY <1>2, <2>3 DEF IInv, Reads
  <2>4. ASSUME NEW c \in Callers, call'[c].pc \in Past
        PROVE  call'[c].seen \in Logs /\ call'[c].seen.revision <= log'.revision
    <3>1. CASE c \in movers
      BY <2>4, <3>1
    <3>2. CASE c \notin movers
      <4>1. call[c].seen \in Logs /\ call[c].seen.revision <= log.revision
        BY <1>2, <2>4, <3>2 DEF IInv, Reads
      <4> QED
        BY <1>1, <1>2, <3>2, <4>1 DEF Logs
    <3> QED
      BY <3>1, <3>2
  <2> QED
    BY <2>1, <2>2, <2>3, <2>4 DEF Reads
<1>4. \A c \in Callers : call'[c].pc \in Reserving =>
         /\ c \notin movers /\ call[c].pc = call'[c].pc /\ call[c].on \in Entries /\ call'[c].on = call[c].on
         /\ call[c].seen \in Logs /\ call[c].seen = call'[c].seen /\ call[c].seen.revision <= log.revision
         /\ call[c].outcome = call'[c].outcome
  BY <1>2 DEF IInv, Reads, Reserving, Past
<1>5. \A c \in Callers : call'[c].pc \in Reserving /\ pool'.entry = call'[c].on =>
         pool' = pool /\ IsPooled(c)
  BY <1>4 DEF IsPooled, NoEntry
<1>6. \A c \in Callers : call[c].pc = "holding" \/ Committing(c) => Kept(c) /\ call[c].pc \in Reserving
  BY DEF IInv, Reserved, Reserving, Committing
<1>7. \A c \in Callers \ movers : call[c].pc = "holding" \/ Committing(c) => pool' = pool
  BY <1>6 DEF Kept
<1>8. ASSUME NEW c \in Callers, call'[c].pc \in Reserving, IsPooled(c)'
      PROVE  pool'.phase = IF call'[c].pc = "holding" THEN "reserved" ELSE "committing"
  BY <1>4, <1>5, <1>8 DEF IsPooled, IInv, Reserved
<1>9. ASSUME NEW c \in Callers, NEW d \in Callers, call'[c].pc \in Reserving, IsPooled(c)',
             call'[d].pc \in Reserving, IsPooled(d)'
      PROVE  c = d
  BY <1>4, <1>5, <1>9 DEF IsPooled, IInv, Reserved
<1>10. ASSUME NEW c \in Callers, call'[c].pc = "commit", ~IsPooled(c)'
       PROVE  call'[c].seen.revision < log'.revision
  <2>1. /\ c \notin movers /\ call[c].pc = "commit" /\ call'[c].on = call[c].on
        /\ call'[c].seen = call[c].seen /\ call[c].seen.revision <= log.revision
        /\ call[c].seen.revision \in Nat
    BY <1>4, <1>10 DEF Reserving, Logs
  <2>2. CASE IsPooled(c)
    BY <1>1, <1>10, <2>1, <2>2 DEF IsPooled, Reserving
  <2>3. CASE ~IsPooled(c)
    <3>1. call[c].seen.revision < log.revision
      BY <2>1, <2>3 DEF IInv, Reserved
    <3> QED
      BY <1>1, <2>1, <3>1
  <2> QED
    BY <2>2, <2>3
<1>11. ASSUME NEW c \in Callers, call'[c].pc = "holding" \/ Committing(c)'
       PROVE  Kept(c)'
  <2>1. /\ c \notin movers /\ (call[c].pc = "holding" \/ Committing(c))
        /\ call'[c].on = call[c].on /\ call'[c].seen = call[c].seen
    BY <1>4, <1>11 DEF Reserving, Committing
  <2>2. Kept(c) /\ pool' = pool
    BY <1>4, <1>6, <1>7, <1>11, <2>1 DEF Reserving, Committing
  <2> QED
    BY <1>4, <1>11, <2>1, <2>2 DEF Kept, IsPooled, Matches, OthersSince, Reserving, Committing
<1>12. Reserved'
  BY <1>8, <1>9, <1>10, <1>11 DEF Reserved
<1> QED
  BY <1>3, <1>12

LEMMA CallFacts ==
    ASSUME IInv, NEW c \in Callers, Call(c)
    PROVE  Moves(c) /\ call'[c].pc = "loop" /\ call[c].pc = "idle" /\ call'[c].since = log.revision
           /\ call'[c].missing = call[c].missing
<1>1. call[c] \in CallStates /\ log.revision \in Nat /\ call \in [Callers -> CallStates]
  BY DEF IInv, TypeOK, Logs
<1>2. call' = [call EXCEPT ![c].pc = "loop", ![c].since = log.revision] /\ call[c].pc = "idle"
  BY DEF Call
<1> DEFINE t == [call[c] EXCEPT !.pc = "loop", !.since = log.revision]
<1>3. t \in CallStates /\ t.pc = "loop" /\ t.since = log.revision /\ t.missing = call[c].missing
  BY <1>1 DEF CallStates, Steps
<1>4. call' = [call EXCEPT ![c] = t]
  BY <1>1, <1>2 DEF CallStates
<1> HIDE DEF t
<1> QED
  BY <1>1, <1>2, <1>3, <1>4 DEF Moves, Bystander

LEMMA ShareFacts ==
    ASSUME IInv, NEW c \in Callers, Share(c)
    PROVE  /\ Moves(c) /\ call'[c].since = call[c].since /\ call'[c].missing = call[c].missing
           /\ \/ /\ pool.entry \in Entries /\ UNCHANGED <<pool, chain>>
                 /\ call'[c].on = pool.entry
                 /\ IF pool.phase = "loading" THEN call'[c].pc = "result"
                    ELSE call'[c].pc = "read" /\ call'[c].seen = pool.source
              \/ /\ pool = NoEntry
                 /\ \E e \in Free : /\ call'[c].on = e /\ call'[c].pc = "result"
                                    /\ pool' = [entry |-> e, phase |-> "loading", source |-> None]
                                    /\ chain' = Append(chain, [kind |-> "load", of |-> e])
<1> USE PreparationsAssumption
<1>1. call[c] \in CallStates /\ call \in [Callers -> CallStates]
  BY DEF IInv, TypeOK
<1>2. /\ pool.entry \in Entries \cup {None} /\ pool.source \in Logs \cup {None}
      /\ pool # NoEntry => pool.entry \in Entries
  BY DEF IInv, TypeOK, Reads
<1>3. CASE pool # NoEntry
  <2> DEFINE t == [call[c] EXCEPT !.on = pool.entry, !.seen = pool.source,
                                  !.pc = IF pool.phase = "loading" THEN "result" ELSE "read"]
  <2>1. call' = [call EXCEPT ![c] = t] /\ UNCHANGED <<pool, chain>>
    BY <1>1, <1>3 DEF Share, CallStates
  <2>2. /\ t \in CallStates /\ t.on = pool.entry /\ t.seen = pool.source
        /\ t.pc = IF pool.phase = "loading" THEN "result" ELSE "read"
        /\ t.since = call[c].since /\ t.missing = call[c].missing
    BY <1>1, <1>2 DEF CallStates, Steps
  <2> HIDE DEF t
  <2> QED
    BY <1>1, <1>2, <1>3, <2>1, <2>2 DEF Moves, Bystander
<1>4. CASE pool = NoEntry
  <2> DEFINE e == CHOOSE x \in Free : TRUE
             t == [call[c] EXCEPT !.on = e, !.pc = "result"]
  <2>1. /\ e \in Free
        /\ call' = [call EXCEPT ![c].on = e, ![c].pc = "result"]
        /\ pool' = [NoEntry EXCEPT !.entry = e, !.phase = "loading"]
        /\ chain' = Append(chain, Op("load", e))
    BY <1>4 DEF Share
  <2> HIDE DEF e
  <2>2. call' = [call EXCEPT ![c] = t]
    BY <1>1, <2>1 DEF CallStates
  <2>3. e \in Entries
    BY <2>1 DEF Free
  <2>4. /\ t \in CallStates /\ t.on = e /\ t.pc = "result"
        /\ t.since = call[c].since /\ t.missing = call[c].missing
    BY <1>1, <2>3 DEF CallStates, Steps
  <2>5. pool' = [entry |-> e, phase |-> "loading", source |-> None]
    BY <2>1 DEF NoEntry
  <2> HIDE DEF t
  <2>6. Moves(c) /\ call'[c] = t
    BY <1>1, <2>2, <2>4 DEF Moves, Bystander
  <2> QED
    BY <1>4, <2>1, <2>4, <2>5, <2>6 DEF Op
<1> QED
  BY <1>3, <1>4

\* The same of MovesTo under the whole invariant.
LEMMA GoesFacts ==
    ASSUME IInv, NEW c \in Callers, NEW where \in Steps,
           Goes(c, where) \/ \E e : MovesTo(SettledBy(e), c, where) /\ call[c].pc # "settle"
    PROVE  /\ Moves(c) /\ call'[c].pc = where
           /\ where \notin Ended \cup {"loop"} => call'[c] = [call[c] EXCEPT !.pc = where]
           /\ where \in Ended => call'[c].missing = {} /\ call'[c].since = 0
           /\ where = "loop" => call'[c].since = call[c].since /\ call'[c].missing = {}
<1>1. CASE Goes(c, where)
  BY <1>1, MovesFacts DEF Goes, IInv, Moves
<1>2. ASSUME NEW e, MovesTo(SettledBy(e), c, where), call[c].pc # "settle"
      PROVE  /\ Moves(c) /\ call'[c].pc = where
             /\ where \notin Ended \cup {"loop"} => call'[c] = [call[c] EXCEPT !.pc = where]
             /\ where \in Ended => call'[c].missing = {} /\ call'[c].since = 0
             /\ where = "loop" => call'[c].since = call[c].since /\ call'[c].missing = {}
  BY <1>2, MovesFacts DEF IInv, Moves
<1> QED
  BY <1>1, <1>2

\* The first operation of the chain and who asked for it.
LEMMA OperationFacts ==
    ASSUME IInv, chain # <<>>
    PROVE  /\ Head(chain) = chain[1] /\ 1 \in DOMAIN chain /\ OpHolds(chain[1])
           /\ Tail(chain) \in Seq(Ops) /\ chain[1] \in Ops
BY DEF IInv, TypeOK, Queue

LEMMA SettlesFacts ==
    ASSUME IInv, chain # <<>>, Runner \in Callers,
           NEW result \in {"committed", "stale", "failed", "current", "changed"},
           NEW where \in Steps, Settles(result, where)
    PROVE  /\ Moves(Runner)
           /\ call'[Runner] = [call[Runner] EXCEPT !.outcome = result, !.pc = where]
<1>1. call[Runner] \in CallStates /\ call \in [Callers -> CallStates]
  BY DEF IInv, TypeOK
<1> DEFINE t == [call[Runner] EXCEPT !.outcome = result, !.pc = where]
<1>2. call' = [call EXCEPT ![Runner] = t]
  BY <1>1 DEF Settles, CallStates
<1>3. t \in CallStates
  BY <1>1 DEF CallStates
<1> HIDE DEF t
<1>4. call' \in [Callers -> CallStates] /\ call'[Runner] = t
      /\ \A d \in Callers \ {Runner} : call'[d] = call[d]
  BY <1>1, <1>2, <1>3
<1> QED
  BY <1>4 DEF Moves, Bystander, t

\* The chain keeps its order: nothing new, one more behind the others, the first one
\* gone, or one taken out.
LEMMA QueueSame ==
    ASSUME IInv, UNCHANGED chain,
           stage' = stage \/ (chain # <<>> /\ chain[1].kind = "append"),
           \A op \in Ops : InChain(op) => OpHolds(op)',
           stage' = "adopting" => ~tracked'.known
    PROVE  Queue'
<1>1. \A i \in DOMAIN chain : chain[i] \in Ops
  BY ElementOfSeq DEF IInv, TypeOK
<1>2. \A i \in DOMAIN chain' : OpHolds(chain[i])'
  <2> SUFFICES ASSUME NEW i \in DOMAIN chain, NEW op \in Ops, op = chain[i] PROVE OpHolds(op)'
    BY <1>1 DEF OpHolds
  <2> QED
    BY DEF InChain
<1> QED
  BY <1>2 DEF IInv, Queue

LEMMA QueueAppends ==
    ASSUME IInv, NEW op \in Ops, chain' = Append(chain, op), UNCHANGED stage,
           \A o \in Ops : o = op \/ InChain(o) => OpHolds(o)',
           op.kind \in Single => \A i \in DOMAIN chain : chain[i] # op,
           op.kind = "retire" => \A i \in DOMAIN chain : chain[i].kind # "write",
           op.kind = "write" => \A i \in DOMAIN chain : chain[i].kind # "retire",
           stage = "adopting" => ~tracked'.known
    PROVE  Queue'
<1>1. /\ DOMAIN chain = 1..Len(chain) /\ DOMAIN chain' = 1..(Len(chain) + 1) /\ Len(chain) \in Nat
      /\ \A i \in DOMAIN chain : chain'[i] = chain[i]
      /\ chain'[Len(chain) + 1] = op
      /\ chain # <<>> => 1 \in DOMAIN chain
      /\ chain' # <<>>
  <2>1. chain \in Seq(Ops)
    BY DEF IInv, TypeOK
  <2>2. /\ DOMAIN chain = 1..Len(chain) /\ Len(chain) \in Nat
        /\ chain # <<>> => 1 \in DOMAIN chain
    BY <2>1
  <2>3. /\ DOMAIN chain' = 1..(Len(chain) + 1)
        /\ \A i \in DOMAIN chain : chain'[i] = chain[i]
        /\ chain'[Len(chain) + 1] = op
    BY <2>1, AppendProperties
  <2>4. 1 \in DOMAIN chain'
    BY <2>2, <2>3
  <2> QED
    BY <2>2, <2>3, <2>4
<1>2. \A i \in DOMAIN chain' : i \in DOMAIN chain \/ (i = Len(chain) + 1 /\ chain'[i] = op)
  BY <1>1
<1>3. \A i \in DOMAIN chain : chain[i] \in Ops
  BY ElementOfSeq DEF IInv, TypeOK
<1>4. \A i \in DOMAIN chain' : OpHolds(chain[i])'
  <2> SUFFICES ASSUME NEW i \in DOMAIN chain', NEW o \in Ops, o = chain'[i] PROVE OpHolds(o)'
    BY <1>1, <1>2, <1>3 DEF OpHolds
  <2> QED
    BY <1>1, <1>2 DEF InChain
<1> QED
  BY <1>1, <1>2, <1>4 DEF IInv, Queue

LEMMA QueueTails ==
    ASSUME IInv, chain # <<>>, chain' = Tail(chain), stage' = "queued",
           \A op \in Ops : (\E i \in DOMAIN chain : i # 1 /\ chain[i] = op) => OpHolds(op)'
    PROVE  Queue'
<1>1. /\ DOMAIN chain = 1..Len(chain) /\ DOMAIN chain' = 1..(Len(chain) - 1) /\ Len(chain) \in Nat
      /\ \A i \in DOMAIN chain' : chain'[i] = chain[i + 1]
  BY DEF IInv, TypeOK
<1>2. \A i \in DOMAIN chain' : i + 1 \in DOMAIN chain /\ i + 1 # 1
  BY <1>1
<1>3. \A i, j \in DOMAIN chain' : i + 1 = j + 1 => i = j
  BY <1>1
<1>4. \A i \in DOMAIN chain : chain[i] \in Ops
  BY ElementOfSeq DEF IInv, TypeOK
<1>5. \A i \in DOMAIN chain' : OpHolds(chain[i])'
  <2> SUFFICES ASSUME NEW i \in DOMAIN chain', NEW o \in Ops, o = chain'[i] PROVE OpHolds(o)'
    BY <1>1, <1>2, <1>4 DEF OpHolds
  <2> QED
    BY <1>1, <1>2
<1>6. \A i, j \in DOMAIN chain' : chain'[i] = chain'[j] /\ chain'[i].kind \in Single => i = j
  BY <1>1, <1>2, <1>3 DEF IInv, Queue
<1>7. \A i, j \in DOMAIN chain' : ~(chain'[i].kind = "retire" /\ chain'[j].kind = "write")
  BY <1>1, <1>2 DEF IInv, Queue
<1> QED
  BY <1>5, <1>6, <1>7 DEF Queue

\* What is left of a sequence without its i-th element.
LEMMA RemoveAtElements ==
    ASSUME NEW S, NEW s \in Seq(S), NEW i \in DOMAIN s
    PROVE  /\ RemoveAt(s, i) \in Seq(S)
           /\ DOMAIN RemoveAt(s, i) = 1..(Len(s) - 1)
           /\ \A k \in 1..(Len(s) - 1) : RemoveAt(s, i)[k] = IF k < i THEN s[k] ELSE s[k + 1]
<1> DEFINE left == SubSeq(s, 1, i - 1)
           right == SubSeq(s, i + 1, Len(s))
<1>1. /\ i \in 1..Len(s) /\ Len(s) \in Nat
      /\ left \in Seq(S) /\ right \in Seq(S)
      /\ Len(left) = i - 1 /\ Len(right) = Len(s) - i
  OBVIOUS
<1>2. \A k \in 1..(i - 1) : left[k] = s[k]
  BY <1>1
<1>3. \A k \in 1..(Len(s) - i) : right[k] = s[i + k]
  <2>1. i + 1 \in Int /\ Len(s) \in Int /\ \A k \in (i + 1)..Len(s) : s[k] \in S
    BY <1>1
  <2>2. \A k \in 1..(Len(s) - (i + 1) + 1) : right[k] = s[(i + 1) + k - 1]
    BY ONLY <2>1, SubSeqProperties, SMTT(60) DEF right
  <2>3. \A k \in 1..(Len(s) - i) :
           k \in 1..(Len(s) - (i + 1) + 1) /\ (i + 1) + k - 1 = i + k
    <3>1. i \in Int /\ Len(s) \in Int
      BY <1>1
    <3> QED
      BY ONLY <3>1
  <2> QED
    BY ONLY <2>2, <2>3
<1> HIDE DEF left, right
<1>4. (left \o right) \in Seq(S) /\ DOMAIN (left \o right) = 1..(Len(s) - 1)
  BY <1>1
<1>5. ASSUME NEW k \in 1..(Len(s) - 1)
      PROVE  (left \o right)[k] = IF k < i THEN s[k] ELSE s[k + 1]
  <2>1. CASE k < i
    <3>1. (left \o right)[k] = left[k] /\ k \in 1..(i - 1)
      BY <1>1, <2>1
    <3> QED
      BY <3>1, <2>1, <1>2
  <2>2. CASE ~(k < i)
    <3>1. /\ (left \o right)[k] = right[k - (i - 1)]
          /\ k - (i - 1) \in 1..(Len(s) - i) /\ i + (k - (i - 1)) = k + 1
      BY <1>1, <2>2
    <3> QED
      BY <3>1, <2>2, <1>3
  <2> QED
    BY <2>1, <2>2
<1> QED
  BY <1>4, <1>5 DEF RemoveAt, left, right

LEMMA QueueDrops ==
    ASSUME IInv, NEW c \in Callers, Drops(c), call[c].pc # "done",
           UNCHANGED <<stage, tracked>>,
           \A op \in Ops : op.of # c /\ InChain(op) => OpHolds(op)'
    PROVE  chain' \in Seq(Ops) /\ Queue'
<1> USE PreparationsAssumption
<1>0. /\ chain \in Seq(Ops) /\ (stage = "adopting" => ~tracked.known)
      /\ \A i \in DOMAIN chain : OpHolds(chain[i]) /\ chain[i] \in Ops
  BY ElementOfSeq DEF IInv, TypeOK, Queue
<1>1. \A i \in DOMAIN chain : chain[i].of = c =>
         chain[i].kind \in {"commit", "check"} /\ chain[i] = [kind |-> call[c].pc, of |-> c]
  <2> SUFFICES ASSUME NEW i \in DOMAIN chain, chain[i].of = c
               PROVE  chain[i].kind \in {"commit", "check"} /\ chain[i] = [kind |-> call[c].pc, of |-> c]
    OBVIOUS
  <2>1. chain[i].kind # "retire"
    BY <1>0 DEF OpHolds, IInv, Owned
  <2>2. chain[i].kind \in {"commit", "check"}
    <3>1. chain[i].kind # "write"
      BY <1>0 DEF OpHolds, IInv, Queue
    <3> QED
      BY <1>0, <2>1, <3>1 DEF OpHolds, Ops, Kinds
  <2> QED
    BY <1>0, <2>2 DEF OpHolds, Ops
<1>2. CASE UNCHANGED chain /\ \A i \in DOMAIN chain : chain[i].of # c
  BY <1>0, <1>2, QueueSame DEF InChain
<1>3. ASSUME NEW k \in DOMAIN chain, chain[k].of = c, chain' = RemoveAt(chain, k)
      PROVE  chain' \in Seq(Ops) /\ Queue'
  <2> DEFINE from(i) == IF i < k THEN i ELSE i + 1
  <2>1. /\ DOMAIN chain = 1..Len(chain) /\ Len(chain) \in Nat /\ k \in 1..Len(chain)
        /\ chain' \in Seq(Ops) /\ DOMAIN chain' = 1..(Len(chain) - 1)
        /\ \A i \in DOMAIN chain' : chain'[i] = chain[from(i)]
    <3>1. /\ DOMAIN chain = 1..Len(chain) /\ Len(chain) \in Nat /\ k \in 1..Len(chain)
      BY <1>0
    <3>2. /\ chain' \in Seq(Ops) /\ DOMAIN chain' = 1..(Len(chain) - 1)
          /\ \A i \in 1..(Len(chain) - 1) : chain'[i] = IF i < k THEN chain[i] ELSE chain[i + 1]
      BY <1>0, <1>3, RemoveAtElements
    <3> QED
      BY <3>1, <3>2
  <2>2. /\ \A i \in DOMAIN chain' : from(i) \in DOMAIN chain /\ from(i) # k
        /\ \A i, j \in DOMAIN chain' : from(i) = from(j) => i = j
    BY <2>1
  <2>3. stage # "queued" => chain' # <<>> /\ from(1) = 1
    <3> SUFFICES ASSUME stage # "queued" PROVE chain' # <<>> /\ from(1) = 1
      OBVIOUS
    <3>1. k # 1
      BY <1>1, <1>3 DEF IInv, Queue
    <3>2. 1 \in DOMAIN chain'
      BY <2>1, <3>1
    <3> QED
      BY <2>1, <3>1, <3>2
  <2>4. \A i \in DOMAIN chain : i # k => chain[i].of # c
    <3> SUFFICES ASSUME NEW i \in DOMAIN chain, i # k, chain[i].of = c PROVE FALSE
      OBVIOUS
    <3>1. chain[i] = chain[k] /\ chain[i].kind \in Single
      BY <1>1, <1>3 DEF Single
    <3> QED
      BY <3>1 DEF IInv, Queue
  <2> HIDE DEF from
  <2>5. \A i \in DOMAIN chain' : OpHolds(chain[i])'
    <3> SUFFICES ASSUME NEW i \in DOMAIN chain', NEW o \in Ops, o = chain'[i] PROVE OpHolds(o)'
      BY <1>0, <2>1, <2>2 DEF OpHolds
    <3>1. o.of # c /\ InChain(o)
      BY <2>1, <2>2, <2>4 DEF InChain
    <3> QED
      BY <3>1
  <2>6. \A i, j \in DOMAIN chain' : chain'[i] = chain'[j] /\ chain'[i].kind \in Single => i = j
    BY <2>1, <2>2 DEF IInv, Queue
  <2>7. \A i, j \in DOMAIN chain' : ~(chain'[i].kind = "retire" /\ chain'[j].kind = "write")
    BY <2>1, <2>2 DEF IInv, Queue
  <2>8. stage' # "queued" => chain' # <<>> /\ chain'[1].kind = "append"
    <3> SUFFICES ASSUME stage # "queued" PROVE chain' # <<>> /\ chain'[1].kind = "append"
      OBVIOUS
    <3>1. 1 \in DOMAIN chain'
      BY <2>1, <2>3
    <3> QED
      BY <2>1, <2>3, <3>1 DEF IInv, Queue
  <2> QED
    BY <1>0, <2>1, <2>5, <2>6, <2>7, <2>8 DEF Queue
<1> QED
  BY <1>2, <1>3 DEF Drops

\* What an operation says stays true when the calls in movers go on.
LEMMA OpsFrame ==
    ASSUME IInv, NEW movers \in SUBSET Callers, \A d \in Callers \ movers : Bystander(d),
           NEW op \in Ops, OpHolds(op), UNCHANGED retiring,
           op.kind = "write" => live' = live \/ live' # None \/ retiring' # None,
           op.kind = "load" /\ pool'.entry = op.of => \/ pool'.phase = "loading"
                                                      \/ pool.entry = pool'.entry
                                                         /\ pool.phase = pool'.phase
                                                      \/ pool.entry = pool'.entry
                                                         /\ pool.phase # "loading",
           op.of \in movers => op.kind \notin {"commit", "check"}
    PROVE  OpHolds(op)'
BY DEF OpHolds, Bystander

LEMMA OwnedFrame ==
    ASSUME IInv, UNCHANGED ownerVars, NEW movers \in SUBSET Callers,
           \A d \in Callers \ movers : Bystander(d),
           \A c \in movers : call[c].pc # "done"
    PROVE  Owned'
BY DEF IInv, TypeOK, Owned, ownerVars, Bystander

\* A call that goes on to where nothing is reserved, taking its operation out of the
\* chain if it had one, and the pool's entry along if it was its own or nobody's.
LEMMA MovesOn ==
    ASSUME IInv, NEW c \in Callers, Moves(c), call[c].pc # "done",
           call'[c].pc \notin Reserving,
           call'[c].pc \in Past \cup {"result"} => call'[c].on \in Entries,
           call'[c].pc \in Past => call'[c].seen \in Logs /\ call'[c].seen.revision <= log.revision,
           \/ UNCHANGED chain /\ call[c].pc \notin {"commit", "check"}
           \/ Drops(c),
           UNCHANGED <<logVars, stage, ownerVars, seqOf>>,
           \/ pool' = pool
           \/ /\ \/ pool' = NoEntry
                 \/ /\ pool' = [pool EXCEPT !.phase = "ready"]
                    /\ pool.phase \in {"committing", "reserved"}
              /\ \A d \in Callers \ {c} : call[d].pc \in Reserving => ~IsPooled(d)
    PROVE  IInv'
<1> USE PreparationsAssumption
<1>1. /\ pool \in [entry : Entries \cup {None}, phase : Phases, source : Logs \cup {None}]
      /\ log \in Logs /\ log.revision \in Nat
      /\ tracked \in [known : BOOLEAN, cursor : Nat, owner : Callers \cup {None}]
      /\ pool.entry = None \/ pool.phase = "none" => pool = NoEntry
  BY DEF IInv, TypeOK, Logs, Reads
<1>2. /\ pool' \in [entry : Entries \cup {None}, phase : Phases, source : Logs \cup {None}]
      /\ pool'.entry \in {pool.entry, None}
      /\ pool' \in {pool, NoEntry} \/ (pool'.entry # None /\ pool'.phase # "none")
      /\ pool' = pool \/ (pool'.phase \in {"ready", "committing", "reserved"} =>
                             pool'.source \in Logs /\ pool'.source.revision <= log.revision)
  <2>1. CASE pool' = pool
    BY <1>1, <2>1
  <2>2. CASE pool' = NoEntry
    BY <1>1, <2>2 DEF NoEntry, Phases
  <2>3. CASE pool' = [pool EXCEPT !.phase = "ready"] /\ pool.phase \in {"committing", "reserved"}
    <3>1. pool.source \in Logs /\ pool.source.revision <= log.revision
      BY <2>3 DEF IInv, Reads
    <3> QED
      BY <1>1, <2>3, <3>1 DEF Phases, NoEntry
  <2> QED
    BY <2>1, <2>2, <2>3
<1>3. ASSUME NEW op \in Ops, OpHolds(op), op.of # c \/ call[c].pc \notin {"commit", "check"}
      PROVE  OpHolds(op)'
  <2>1. op.of \in {c} => op.kind \notin {"commit", "check"}
    BY <1>3 DEF OpHolds
  <2>2. op.kind = "load" /\ pool'.entry = op.of =>
           \/ pool.entry = pool'.entry /\ pool.phase = pool'.phase
           \/ pool.entry = pool'.entry /\ pool.phase # "loading"
    BY <1>1, <1>3 DEF OpHolds, NoEntry
  <2> DEFINE movers == {c}
  <2>3. /\ movers \in SUBSET Callers
        /\ \A d \in Callers \ movers : Bystander(d)
        /\ op.of \in movers => op.kind \notin {"commit", "check"}
        /\ UNCHANGED <<live, retiring>>
    BY <2>1 DEF Moves, ownerVars
  <2> HIDE DEF movers
  <2> QED
    BY <1>3, <2>2, <2>3, OpsFrame
<1>4. \A op \in Ops : InChain(op) => OpHolds(op)
  BY DEF InChain, IInv, Queue
<1>5. chain' \in Seq(Ops) /\ Queue'
  <2>1. CASE Drops(c)
    <3>1. \A op \in Ops : op.of # c /\ InChain(op) => OpHolds(op)'
      BY <1>3, <1>4
    <3> QED
      BY <2>1, <3>1, QueueDrops DEF ownerVars
  <2>2. CASE UNCHANGED chain /\ call[c].pc \notin {"commit", "check"}
    <3>1. \A op \in Ops : InChain(op) => OpHolds(op)'
      BY <1>3, <1>4, <2>2
    <3>2. stage = "adopting" => ~tracked'.known
      BY DEF IInv, Queue, ownerVars
    <3> QED
      BY <2>2, <3>1, <3>2, QueueSame DEF ownerVars, IInv, TypeOK
  <2> QED
    BY <2>1, <2>2
<1>6. TypeOK'
  BY <1>2, <1>5 DEF IInv, TypeOK, Moves, logVars, ownerVars
<1>7. ASSUME NEW d \in Callers \ {c}, call[d].pc = "holding" \/ Committing(d)
      PROVE  /\ tracked'.known /\ tracked'.owner = None
             /\ tracked'.cursor = call[d].seen.revision
             /\ (call[d].seen.revision + 1)..log'.revision \subseteq outside'
             /\ stage' = "queued"
  <2>1. Kept(d)
    BY <1>7 DEF IInv, Reserved
  <2> QED
    BY <2>1 DEF Kept, Matches, OthersSince, logVars, ownerVars
<1>8. Reads' /\ Reserved'
  <2>1. log' = log /\ log.revision <= log'.revision
    BY <1>1 DEF logVars
  <2> DEFINE movers == {c}
  <2>2. /\ movers \in SUBSET Callers
        /\ \A d \in Callers \ movers : Bystander(d)
        /\ \A x \in movers :
              /\ call'[x].pc \notin Reserving
              /\ call'[x].pc \in Past \cup {"result"} => call'[x].on \in Entries
              /\ call'[x].pc \in Past => call'[x].seen \in Logs
                                         /\ call'[x].seen.revision <= log'.revision
    BY <2>1 DEF Moves
  <2>3. /\ pool' = pool \/ \A d \in Callers \ movers : call[d].pc \in Reserving => ~IsPooled(d)
        /\ \A d \in Callers \ movers : call[d].pc = "holding" \/ Committing(d) =>
              /\ tracked'.known /\ tracked'.owner = None
              /\ tracked'.cursor = call[d].seen.revision
              /\ (call[d].seen.revision + 1)..log'.revision \subseteq outside'
              /\ stage' = "queued"
    BY <1>7
  <2> HIDE DEF movers
  <2> QED
    BY <1>2, <1>6, <2>1, <2>2, <2>3, Frame
<1>9. Owned'
  <2> DEFINE movers == {c}
  <2>1. /\ movers \in SUBSET Callers
        /\ \A d \in Callers \ movers : Bystander(d)
        /\ \A x \in movers : call[x].pc # "done"
    BY DEF Moves
  <2> HIDE DEF movers
  <2> QED
    BY <2>1, OwnedFrame
<1> QED
  BY <1>5, <1>6, <1>8, <1>9 DEF IInv

\* A step of the call that reserves the entry, or has reserved it.
LEMMA Solo ==
    ASSUME IInv, TypeOK', NEW c \in Callers, Moves(c), call[c].pc \in Past,
           call'[c].pc \in Reserving, call'[c].on = call[c].on, call'[c].seen = call[c].seen,
           log.revision <= log'.revision,
           pool'.entry = pool.entry, pool'.source = pool.source,
           ~IsPooled(c) => UNCHANGED <<logVars, tracked, stage, pool>> /\ call'[c].pc # "commit",
           IsPooled(c) =>
              /\ pool'.phase = IF call'[c].pc = "holding" THEN "reserved" ELSE "committing"
              /\ pool.phase \in {"ready", "committing", "reserved"}
              /\ \A d \in Callers \ {c} : call[d].pc \in Reserving => ~IsPooled(d),
           call'[c].pc = "holding" \/ (call'[c].pc = "committed" /\ call'[c].outcome = "committed") =>
              /\ IsPooled(c)
              /\ tracked'.known /\ tracked'.owner = None
              /\ tracked'.cursor = call[c].seen.revision /\ ~call[c].seen.open
              /\ (call[c].seen.revision + 1)..log'.revision \subseteq outside'
              /\ stage' = "queued"
    PROVE  Reads' /\ Reserved'
<1> USE PreparationsAssumption
<1>1. /\ log.revision \in Nat /\ log'.revision \in Nat
      /\ call[c].on \in Entries /\ call[c].seen \in Logs /\ call[c].seen.revision \in Nat
      /\ call[c].seen.revision <= log.revision
      /\ IsPooled(c) <=> pool'.entry = call'[c].on
  BY DEF IInv, TypeOK, Logs, Reads, Past, IsPooled
<1>2. \A d \in Callers \ {c} :
         /\ call'[d].pc \in Past => call[d].pc \in Past
         /\ call'[d].pc \in Past \cup {"result"} => call[d].pc \in Past \cup {"result"}
         /\ call'[d].pc \in Reserving \/ call[d].pc \in Reserving => call'[d].pc = call[d].pc
         /\ call'[d].on = call[d].on /\ call'[d].seen = call[d].seen
         /\ call'[d].outcome = call[d].outcome
         /\ IsPooled(d) <=> pool'.entry = call'[d].on
  BY DEF Moves, Bystander, Past, Reserving, IsPooled
<1>3. Reads'
  <2>1. ASSUME pool'.entry = None \/ pool'.phase = "none" PROVE pool' = NoEntry
    BY <1>1, <2>1 DEF IInv, Reads
  <2>2. ASSUME pool'.phase \in {"ready", "committing", "reserved"}
        PROVE  pool'.source \in Logs /\ pool'.source.revision <= log'.revision
    <3>1. pool.source \in Logs /\ pool.source.revision <= log.revision
      BY <2>2 DEF IInv, Reads
    <3> QED
      BY <1>1, <3>1 DEF Logs
  <2>3. ASSUME NEW d \in Callers, call'[d].pc \in Past \cup {"result"}
        PROVE  call'[d].on \in Entries
    BY <1>1, <1>2, <2>3 DEF IInv, Reads
  <2>4. ASSUME NEW d \in Callers, call'[d].pc \in Past
        PROVE  call'[d].seen \in Logs /\ call'[d].seen.revision <= log'.revision
    <3>1. CASE d = c
      BY <1>1, <3>1
    <3>2. CASE d # c
      <4>1. call[d].seen \in Logs /\ call[d].seen.revision <= log.revision
        BY <1>2, <2>4, <3>2 DEF IInv, Reads
      <4> QED
        BY <1>1, <1>2, <3>2, <4>1 DEF Logs
    <3> QED
      BY <3>1, <3>2
  <2> QED
    BY <2>1, <2>2, <2>3, <2>4 DEF Reads
<1>4. \A d \in Callers : IsPooled(d)' <=> pool'.entry = call'[d].on
  BY DEF IsPooled
<1>5. ASSUME NEW d \in Callers, call'[d].pc \in Reserving, IsPooled(d)'
      PROVE  pool'.phase = IF call'[d].pc = "holding" THEN "reserved" ELSE "committing"
  BY <1>1, <1>2, <1>4, <1>5 DEF IInv, Reserved
<1>6. ASSUME NEW x \in Callers, NEW d \in Callers, call'[x].pc \in Reserving, IsPooled(x)',
             call'[d].pc \in Reserving, IsPooled(d)'
      PROVE  x = d
  BY <1>1, <1>2, <1>4, <1>6 DEF IInv, Reserved
<1>7. ASSUME NEW d \in Callers, call'[d].pc = "commit", ~IsPooled(d)'
      PROVE  call'[d].seen.revision < log'.revision
  <2>1. d # c
    BY <1>1, <1>4, <1>7
  <2>2. /\ call[d].pc = "commit" /\ ~IsPooled(d) /\ call'[d].seen = call[d].seen
        /\ call[d].seen.revision \in Nat
    BY <1>2, <1>4, <1>7, <2>1 DEF Reserving, IInv, Reads, Past, Logs
  <2>3. call[d].seen.revision < log.revision
    BY <2>2 DEF IInv, Reserved
  <2> QED
    BY <1>1, <2>2, <2>3
<1>8. ASSUME NEW d \in Callers, call'[d].pc = "holding" \/ Committing(d)' PROVE Kept(d)'
  <2>1. CASE d = c
    BY <1>1, <1>4, <1>8, <2>1 DEF Kept, Committing, Matches, OthersSince
  <2>2. CASE d # c
    <3>1. /\ call[d].pc = "holding" \/ Committing(d)
          /\ call[d].pc \in Reserving /\ call'[d].seen = call[d].seen
      BY <1>2, <1>8, <2>2 DEF Committing, Reserving
    <3>2. Kept(d)
      BY <3>1 DEF IInv, Reserved
    <3>3. ~IsPooled(c)
      BY <2>2, <3>1, <3>2 DEF Kept
    <3>4. IsPooled(d)'
      BY <1>2, <1>4, <2>2, <3>2 DEF Kept
    <3>5. UNCHANGED <<logVars, tracked, stage>>
      BY <3>3
    <3> QED
      BY <3>1, <3>2, <3>4, <3>5 DEF Kept, Matches, OthersSince, logVars
  <2> QED
    BY <2>1, <2>2
<1>9. Reserved'
  BY <1>5, <1>6, <1>7, <1>8 DEF Reserved
<1> QED
  BY <1>3, <1>9

\* While a write, a retirement or an append is under way, nothing committed is held.
LEMMA Nobody ==
    ASSUME IInv, NEW d \in Callers, call[d].pc = "holding" \/ Committing(d)
    PROVE  /\ Kept(d) /\ tracked.owner = None /\ live = None /\ retiring = None /\ stage = "queued"
           /\ pool.phase \in {"committing", "reserved"}
           /\ \A op \in Ops : InChain(op) => op.kind \notin {"retire", "write"}
<1>1. Kept(d) /\ call[d].pc \in Reserving
  BY DEF IInv, Reserved, Reserving, Committing
<1>2. tracked.owner = None /\ live = None /\ retiring = None /\ stage = "queued"
  BY <1>1 DEF Kept, Matches, IInv, Owned
<1>3. pool.phase \in {"committing", "reserved"}
  BY <1>1 DEF Kept, IInv, Reserved
<1>4. \A op \in Ops : InChain(op) => OpHolds(op)
  BY DEF InChain, IInv, Queue
<1> QED
  BY <1>1, <1>2, <1>3, <1>4 DEF OpHolds

LEMMA CallStep == ASSUME IInv, NEW c \in Callers, Call(c) PROVE IInv'
BY CallFacts, MovesOn DEF Call, Past, Reserving, logVars

\* A call takes part in a read: the pool's, or one it starts.
LEMMA ShareStep ==
    ASSUME IInv, NEW c \in Callers, call[c].pc = "loop", Share(c),
           UNCHANGED <<logVars, stage, ownerVars, seqOf>>
    PROVE  IInv'
<1> USE PreparationsAssumption
<1>1. CASE /\ pool.entry \in Entries /\ UNCHANGED <<pool, chain>>
           /\ call'[c].on = pool.entry
           /\ IF pool.phase = "loading" THEN call'[c].pc = "result"
              ELSE call'[c].pc = "read" /\ call'[c].seen = pool.source
  <2>1. pool.phase # "loading" => pool.source \in Logs /\ pool.source.revision <= log.revision
    BY <1>1 DEF IInv, TypeOK, Reads, NoEntry, Phases
  <2>2. Moves(c)
    BY ShareFacts
  <2>3. call'[c].pc \in Past => call'[c].seen \in Logs /\ call'[c].seen.revision <= log.revision
    BY <1>1, <2>1 DEF Past
  <2>4. call'[c].pc \notin Reserving
    BY <1>1 DEF Reserving
  <2> QED
    BY <1>1, <2>2, <2>3, <2>4, MovesOn
<1>2. ASSUME pool = NoEntry, NEW e \in Free, call'[c].on = e, call'[c].pc = "result",
             pool' = [entry |-> e, phase |-> "loading", source |-> None],
             chain' = Append(chain, [kind |-> "load", of |-> e])
      PROVE  IInv'
  <2> DEFINE op == [kind |-> "load", of |-> e]
  <2>1. Moves(c)
    BY ShareFacts
  <2>2. /\ e \in Entries /\ op \in Ops /\ \A d \in Callers : call[d].on # e
        /\ \A i \in DOMAIN chain : chain[i].of # e
    <3>1. e \in Entries /\ \A d \in Callers : call[d].on # e
      BY <1>2 DEF Free
    <3>2. e \notin {o.of : o \in ToSet(chain)}
      BY <1>2 DEF Free
    <3>3. \A i \in DOMAIN chain : chain[i].of # e
      BY <3>2 DEF ToSet
    <3> QED
      BY <3>1, <3>3 DEF Ops, Kinds
  <2>3. /\ log \in Logs /\ log.revision \in Nat /\ log' = log /\ UNCHANGED <<tracked, live, retiring>>
        /\ tracked.known \in BOOLEAN /\ chain' = Append(chain, op) /\ UNCHANGED stage
    BY <1>2 DEF IInv, TypeOK, Logs, logVars, ownerVars
  <2>4. TypeOK'
    <3>1. pool' \in [entry : Entries \cup {None}, phase : Phases, source : Logs \cup {None}]
      BY <1>2, <2>2 DEF Phases
    <3>2. chain' \in Seq(Ops)
      BY <2>2, <2>3 DEF IInv, TypeOK
    <3> QED
      BY <2>1, <3>1, <3>2 DEF IInv, TypeOK, Moves, logVars, ownerVars
  <2> DEFINE movers == {c}
  <2>5. /\ movers \in SUBSET Callers
        /\ \A d \in Callers \ movers : Bystander(d)
        /\ \A x \in movers :
              /\ call[x].pc # "done"
              /\ call'[x].pc \notin Reserving
              /\ call'[x].pc \in Past \cup {"result"} => call'[x].on \in Entries
              /\ call'[x].pc \in Past => call'[x].seen \in Logs
                                         /\ call'[x].seen.revision <= log'.revision
    BY <1>2, <2>1, <2>2 DEF Moves, Reserving, Past
  <2>6. \A d \in Callers \ movers : call[d].pc \in Reserving => ~IsPooled(d)
    BY <1>2 DEF IInv, Reads, Reserving, Past, IsPooled, NoEntry
  <2>7. ASSUME NEW d \in Callers \ movers, call[d].pc = "holding" \/ Committing(d) PROVE FALSE
    BY <2>6, <2>7, Nobody DEF Kept, Committing, Reserving
  <2>8. ASSUME NEW o \in Ops, InChain(o) PROVE OpHolds(o)'
    <3>1. OpHolds(o) /\ o.of # e
      BY <2>2, <2>8 DEF InChain, IInv, Queue
    <3>2. o.of \in movers => o.kind \notin {"commit", "check"}
      BY <2>8, <3>1 DEF OpHolds
    <3> HIDE DEF movers
    <3> QED
      BY <1>2, <2>3, <2>5, <3>1, <3>2, OpsFrame
  <2>9. OpHolds(op)'
    BY <1>2, <2>2 DEF OpHolds
  <2>10. Queue'
    <3>1. op.kind = "load" /\ \A i \in DOMAIN chain : chain[i] # op
      BY <2>2
    <3>2. stage = "adopting" => ~tracked'.known
      BY <2>3 DEF IInv, Queue
    <3> HIDE DEF op
    <3> QED
      BY <2>2, <2>3, <2>8, <2>9, <3>1, <3>2, QueueAppends
  <2> HIDE DEF movers
  <2>11. Reads' /\ Reserved'
    <3>1. \A d \in Callers : call[d].on # pool'.entry
      BY <1>2, <2>2
    <3>2. pool'.entry # None /\ pool'.phase = "loading"
      BY <1>2, <2>2
    <3>3. log.revision <= log'.revision
      BY <2>3
    <3>4. \A d \in Callers \ movers : call[d].pc = "holding" \/ Committing(d) =>
             /\ tracked'.known /\ tracked'.owner = None
             /\ tracked'.cursor = call[d].seen.revision
             /\ (call[d].seen.revision + 1)..log'.revision \subseteq outside'
             /\ stage' = "queued"
      BY <2>7
    <3> QED
      BY <2>4, <2>5, <2>6, <3>1, <3>2, <3>3, <3>4, Frame
  <2>12. Owned'
    BY <2>5, OwnedFrame
  <2> QED
    BY <2>4, <2>10, <2>11, <2>12 DEF IInv
<1> QED
  BY <1>1, <1>2, ShareFacts

LEMMA LoopStep == ASSUME IInv, NEW c \in Callers, Loop(c) PROVE IInv'
<1>1. call[c].pc = "loop" /\ UNCHANGED <<logVars, stage, ownerVars, seqOf>>
  BY DEF Loop
<1>2. CASE Share(c)
  BY <1>1, <1>2, ShareStep
<1>3. ASSUME NEW where \in {"failed", "retire", "flush", "done"}, Goes(c, where), UNCHANGED <<chain, pool>>
      PROVE  IInv'
  <2>1. where \in Steps /\ where \notin Past \cup Reserving \cup {"result"}
    BY DEF Steps, Ended, Past, Reserving
  <2>2. Moves(c) /\ call'[c].pc = where
    BY <1>3, <2>1, GoesFacts
  <2> QED
    BY <1>1, <1>3, <2>1, <2>2, MovesOn
<1> QED
  BY <1>2, <1>3 DEF Loop

LEMMA LoadsLiveStep == ASSUME IInv, NEW c \in Callers, LoadsLive(c) PROVE IInv'
<1>1. PICK where \in {"done", "failed"} : Goes(c, where)
  BY DEF LoadsLive
<1>2. where \in Steps /\ where \notin Past \cup Reserving \cup {"result"}
  BY DEF Steps, Ended, Past, Reserving
<1>3. Moves(c) /\ call'[c].pc = where
  BY <1>1, <1>2, GoesFacts
<1> QED
  BY <1>2, <1>3, MovesOn DEF LoadsLive

\* A call gives up its own entry, or one that nobody holds, and goes where nothing
\* is reserved.
LEMMA Leaves ==
    ASSUME IInv, NEW c \in Callers, NEW e, NEW where \in {"failed", "loop", "done", "borrowed"},
           \/ Goes(c, where)
           \/ \E x : MovesTo(SettledBy(x), c, where) /\ call[c].pc # "settle"
           \/ /\ Answers(call, c, where) \/ \E x : Answers(SettledBy(x), c, where)
              /\ where \in Ended /\ call[c].pc \in Past \ {"settle"},
           call[c].pc # "done",
           \/ UNCHANGED pool
           \/ /\ \/ Removal(e)
                 \/ Readiness(e) /\ pool.phase \in {"committing", "reserved"}
              /\ pool.entry = e => \A d \in Callers \ {c} : call[d].pc \in Reserving => ~IsPooled(d),
           \/ UNCHANGED chain /\ call[c].pc \notin {"commit", "check"}
           \/ Drops(c),
           UNCHANGED <<logVars, stage, ownerVars, seqOf>>
    PROVE  IInv'
<1>1. where \in Steps /\ where \notin Past \cup Reserving \cup {"result"}
  BY DEF Steps, Ended, Past, Reserving
<1>2. Moves(c) /\ call'[c].pc = where
  <2>1. CASE Goes(c, where) \/ \E x : MovesTo(SettledBy(x), c, where) /\ call[c].pc # "settle"
    BY <1>1, <2>1, GoesFacts
  <2>2. CASE /\ Answers(call, c, where) \/ \E x : Answers(SettledBy(x), c, where)
             /\ where \in Ended /\ call[c].pc \in Past \ {"settle"}
    <3>1. call[c].seen \in Logs
      BY <2>2 DEF IInv, Reads
    <3> QED
      BY <2>2, <3>1, AnswersFacts DEF IInv, Moves
  <2> QED
    BY <2>1, <2>2
<1>3. \/ pool' = pool
      \/ /\ \/ pool' = NoEntry
            \/ /\ pool' = [pool EXCEPT !.phase = "ready"]
               /\ pool.phase \in {"committing", "reserved"}
         /\ \A d \in Callers \ {c} : call[d].pc \in Reserving => ~IsPooled(d)
  BY DEF Removal, Readiness
<1> QED
  BY <1>1, <1>2, <1>3, MovesOn

LEMMA AbortStep == ASSUME IInv, NEW c \in Callers, Abort(c) PROVE IInv'
<1>1. /\ Drops(c) /\ call[c].pc # "done" /\ call[c].pc \notin Ended \cup {"idle", "holding"}
      /\ UNCHANGED <<logVars, stage, ownerVars, seqOf>>
  BY DEF Abort, Ended
<1>2. CASE Goes(c, "failed") /\ UNCHANGED pool
  BY <1>1, <1>2, Leaves
<1>3. CASE /\ call[c].pc = "commit"
           /\ Removal(call[c].on) /\ MovesTo(SettledBy(call[c].on), c, "failed")
  <2>1. pool.entry = call[c].on => \A d \in Callers \ {c} : call[d].pc \in Reserving => ~IsPooled(d)
    BY <1>3, OnlyOne DEF IsPooled, Reserving
  <2> QED
    BY <1>1, <1>3, <2>1, Leaves
<1>4. CASE /\ call[c].pc \notin {"retire", "result", "settle", "check", "commit"}
           /\ call' = [call EXCEPT ![c].aborted = TRUE] /\ UNCHANGED pool
  <2>1. call \in [Callers -> CallStates] /\ call[c] \in CallStates
    BY DEF IInv, TypeOK
  <2> DEFINE t == [call[c] EXCEPT !.aborted = TRUE]
  <2>2. call' = [call EXCEPT ![c] = t]
    BY <1>4, <2>1 DEF CallStates
  <2>3. t \in CallStates /\ t.pc = call[c].pc /\ t.on = call[c].on /\ t.seen = call[c].seen
        /\ t.outcome = call[c].outcome
    BY <2>1 DEF CallStates
  <2> HIDE DEF t
  <2>4. Moves(c) /\ call'[c] = t
    BY <2>1, <2>2, <2>3 DEF Moves, Bystander
  <2>5. CASE call[c].pc # "committed"
    <3>1. call'[c].pc \notin Reserving
      BY <1>1, <1>4, <2>3, <2>4, <2>5 DEF Reserving
    <3>2. /\ call'[c].pc \in Past \cup {"result"} => call'[c].on \in Entries
          /\ call'[c].pc \in Past => call'[c].seen \in Logs
                                     /\ call'[c].seen.revision <= log.revision
      BY <2>3, <2>4 DEF IInv, Reads
    <3> QED
      BY <1>1, <1>4, <2>4, <3>1, <3>2, MovesOn
  <2>6. CASE call[c].pc = "committed"
    <3>1. /\ call'[c].pc = "committed" /\ call'[c].on = call[c].on /\ call'[c].seen = call[c].seen
          /\ call'[c].outcome = call[c].outcome
          /\ UNCHANGED <<log, outside, tracked, live, retiring, pool, stage>>
          /\ log.revision <= log'.revision
      BY <1>1, <1>4, <2>3, <2>4, <2>6 DEF logVars, ownerVars, IInv, TypeOK, Logs
    <3> DEFINE movers == {c}
    <3>2. /\ movers \in SUBSET Callers
          /\ \A d \in Callers \ movers : Bystander(d)
          /\ \A d \in movers : call[d].pc # "done" /\ d = c
      BY <2>4, <2>6 DEF Moves
    <3>3. ASSUME NEW op \in Ops, op.of # c, InChain(op) PROVE OpHolds(op)'
      <4>1. OpHolds(op)
        BY <3>3 DEF InChain, IInv, Queue
      <4>2. op.of \notin movers
        BY <3>3
      <4> HIDE DEF movers
      <4> QED
        BY <3>1, <3>2, <4>1, <4>2, OpsFrame
    <3>4. chain' \in Seq(Ops) /\ Queue'
      BY <1>1, <3>1, <3>3, QueueDrops
    <3>5. TypeOK'
      BY <1>1, <2>4, <3>1, <3>4 DEF IInv, TypeOK, Moves
    <3> HIDE DEF movers
    <3>6. Owned'
      BY <1>1, <3>2, OwnedFrame
    <3>7. call[c].pc \in Past /\ call[c].pc \in Reserving
      BY <2>6 DEF Past, Reserving
    <3>8. IsPooled(c) => /\ pool.phase = "committing"
                         /\ \A d \in Callers \ {c} : call[d].pc \in Reserving => ~IsPooled(d)
      BY <2>6, <3>7, OnlyOne DEF IInv, Reserved
    <3>9. Committing(c) => Kept(c)
      BY DEF IInv, Reserved
    <3>10. Reads' /\ Reserved'
      <4>1. call'[c].pc = "holding" \/ (call'[c].pc = "committed" /\ call'[c].outcome = "committed") =>
              /\ IsPooled(c)
              /\ tracked'.known /\ tracked'.owner = None
              /\ tracked'.cursor = call[c].seen.revision /\ ~call[c].seen.open
              /\ (call[c].seen.revision + 1)..log'.revision \subseteq outside'
              /\ stage' = "queued"
        BY <2>6, <3>1, <3>9 DEF Committing, Kept, Matches, OthersSince
      <4>2. ~IsPooled(c) => UNCHANGED <<logVars, tracked, stage, pool>> /\ call'[c].pc # "commit"
        BY <3>1 DEF logVars
      <4>3. call'[c].pc \in Reserving /\ pool'.entry = pool.entry /\ pool'.source = pool.source
        BY <3>1 DEF Reserving
      <4>4. IsPooled(c) =>
              /\ pool'.phase = IF call'[c].pc = "holding" THEN "reserved" ELSE "committing"
              /\ pool.phase \in {"ready", "committing", "reserved"}
              /\ \A d \in Callers \ {c} : call[d].pc \in Reserving => ~IsPooled(d)
        BY <3>1, <3>8
      <4> QED
        BY <2>4, <3>1, <3>5, <3>7, <4>1, <4>2, <4>3, <4>4, Solo
    <3> QED
      BY <3>4, <3>5, <3>6, <3>10 DEF IInv
  <2> QED
    BY <2>5, <2>6
<1> QED
  BY <1>2, <1>3, <1>4 DEF Abort

\* A call queues its operation.
LEMMA QueueOwn ==
    ASSUME IInv, NEW c \in Callers, Moves(c), NEW kind \in {"commit", "check"},
           call[c].pc = "read", call'[c].pc = kind,
           chain' = Append(chain, Op(kind, c)), UNCHANGED <<stage, ownerVars>>,
           pool' = pool \/ (pool'.entry = pool.entry /\ pool.phase # "loading")
    PROVE  chain' \in Seq(Ops) /\ Queue' /\ Owned'
<1> DEFINE op == [kind |-> kind, of |-> c]
<1>1. /\ op \in Ops /\ chain' = Append(chain, op) /\ chain \in Seq(Ops)
      /\ UNCHANGED <<tracked, live, retiring, stage>>
  BY DEF Ops, Kinds, Op, ownerVars, IInv, TypeOK
<1>2. \A i \in DOMAIN chain : chain[i] # op
  BY DEF IInv, Queue, OpHolds
<1> DEFINE movers == {c}
<1>3. /\ movers \in SUBSET Callers
      /\ \A d \in Callers \ movers : Bystander(d)
      /\ \A d \in movers : call[d].pc = "read" /\ call[d].pc # "done"
  BY DEF Moves
<1> HIDE DEF movers
<1>4. ASSUME NEW o \in Ops, InChain(o) PROVE OpHolds(o)'
  <2>1. OpHolds(o)
    BY <1>4 DEF InChain, IInv, Queue
  <2>2. o.of \in movers => o.kind \notin {"commit", "check"}
    BY <1>3, <2>1 DEF OpHolds
  <2> QED
    BY <1>1, <1>3, <1>4, <2>1, <2>2, OpsFrame
<1>5. OpHolds(op)'
  BY DEF OpHolds
<1>6. op.kind \notin {"retire", "write"}
  OBVIOUS
<1> HIDE DEF op
<1>7. stage = "adopting" => ~tracked'.known
  BY <1>1 DEF IInv, Queue
<1>8. Queue'
  BY <1>1, <1>2, <1>4, <1>5, <1>6, <1>7, QueueAppends
<1>9. Owned'
  BY <1>3, OwnedFrame
<1> QED
  BY <1>1, <1>8, <1>9

LEMMA ReserveStep == ASSUME IInv, NEW c \in Callers, Reserve(c) PROVE IInv'
<1>1. call[c].pc = "read" /\ UNCHANGED <<logVars, stage, ownerVars, seqOf>>
  BY DEF Reserve
<1>2. CASE Goes(c, "loop") /\ UNCHANGED <<chain, pool>>
  BY <1>1, <1>2, Leaves
<1>3. CASE Goes(c, "settle") /\ UNCHANGED <<chain, pool>>
  <2>1. "settle" \in Steps \ (Ended \cup {"loop"})
    BY DEF Steps, Ended
  <2>2. Moves(c) /\ call'[c] = [call[c] EXCEPT !.pc = "settle"]
    BY <1>3, <2>1, GoesFacts
  <2>3. call[c] \in CallStates
    BY DEF IInv, TypeOK
  <2>4. call'[c].pc = "settle" /\ call'[c].on = call[c].on /\ call'[c].seen = call[c].seen
    BY <2>2, <2>3 DEF CallStates
  <2>5. call[c].on \in Entries /\ call[c].seen \in Logs /\ call[c].seen.revision <= log.revision
    BY <1>1 DEF IInv, Reads, Past
  <2>6. call'[c].pc \notin Reserving
    BY <2>4 DEF Reserving
  <2> QED
    BY <1>1, <1>3, <2>2, <2>4, <2>5, <2>6, MovesOn
<1>4. CASE pool.phase = "ready" /\ Removal(pool.entry) /\ Goes(c, "failed") /\ UNCHANGED chain
  <2>1. \A d \in Callers \ {c} : call[d].pc \in Reserving => ~IsPooled(d)
    BY <1>4, OnlyOne
  <2> QED
    BY <1>1, <1>4, <2>1, Leaves
<1>5. CASE /\ IsPooled(c) /\ pool.phase = "ready"
           /\ pool' = [pool EXCEPT !.phase = "committing"]
           /\ chain' = Append(chain, Op("commit", c))
           /\ Goes(c, "commit")
  <2>1. "commit" \in Steps \ (Ended \cup {"loop"})
    BY DEF Steps, Ended
  <2>2. Moves(c) /\ call'[c] = [call[c] EXCEPT !.pc = "commit"]
    BY <1>5, <2>1, GoesFacts
  <2>3. call[c] \in CallStates /\ log' = log /\ log.revision <= log'.revision
    BY <1>1 DEF IInv, TypeOK, logVars, Logs
  <2>4. call'[c].pc = "commit" /\ call'[c].on = call[c].on /\ call'[c].seen = call[c].seen
    BY <2>2, <2>3 DEF CallStates
  <2>5. /\ pool' \in [entry : Entries \cup {None}, phase : Phases, source : Logs \cup {None}]
        /\ pool'.entry = pool.entry /\ pool'.source = pool.source /\ pool'.phase = "committing"
    BY <1>5 DEF IInv, TypeOK, Phases
  <2>6. \A d \in Callers \ {c} : call[d].pc \in Reserving => ~IsPooled(d)
    BY <1>5, OnlyOne
  <2>7. chain' \in Seq(Ops) /\ Queue' /\ Owned'
    BY <1>1, <1>5, <2>2, <2>4, <2>5, QueueOwn
  <2>8. TypeOK'
    BY <1>1, <2>2, <2>5, <2>7 DEF IInv, TypeOK, Moves, logVars, ownerVars
  <2>9. Reads' /\ Reserved'
    <3>1. call[c].pc \in Past /\ call'[c].pc \in Reserving
      BY <1>1, <2>4 DEF Past, Reserving
    <3> QED
      BY <1>5, <2>2, <2>3, <2>4, <2>5, <2>6, <2>8, <3>1, Solo
  <2> QED
    BY <2>7, <2>8, <2>9 DEF IInv
<1> QED
  BY <1>2, <1>3, <1>4, <1>5 DEF Reserve

LEMMA CommittedStep == ASSUME IInv, NEW c \in Callers, Committed(c) PROVE IInv'
<1> DEFINE e == call[c].on
<1>1. call[c].pc = "committed" /\ UNCHANGED <<logVars, chain, stage, ownerVars, seqOf>>
  BY DEF Committed
<1>2. call[c].pc \in Past \ {"settle"} /\ call[c].pc \in Reserving
  BY <1>1 DEF Past, Reserving
<1>3. pool.entry = e => /\ \A d \in Callers \ {c} : call[d].pc \in Reserving => ~IsPooled(d)
                        /\ pool.phase = "committing"
  BY <1>1, <1>2, OnlyOne DEF IsPooled, IInv, Reserved
<1> HIDE DEF e
<1>4. ASSUME NEW where \in {"failed", "loop"}, Removal(e), MovesTo(SettledBy(e), c, where) PROVE IInv'
  BY <1>1, <1>3, <1>4, Leaves
<1>5. CASE Readiness(e) /\ MovesTo(SettledBy(e), c, "failed")
  <2>1. UNCHANGED pool \/ (Readiness(e) /\ pool.phase \in {"committing", "reserved"})
    BY <1>3, <1>5 DEF Readiness
  <2> QED
    BY <1>1, <1>3, <1>5, <2>1, Leaves
<1>6. CASE Removal(e) /\ Answers(SettledBy(e), c, "done")
  <2>1. "done" \in Ended
    BY DEF Ended
  <2> QED
    BY <1>1, <1>2, <1>3, <1>6, <2>1, Leaves
<1>7. CASE /\ call[c].outcome = "committed" /\ IsPooled(c)
           /\ pool' = [pool EXCEPT !.phase = "reserved"] /\ Goes(c, "holding")
  <2>1. "holding" \in Steps \ (Ended \cup {"loop"})
    BY DEF Steps, Ended
  <2>2. Moves(c) /\ call'[c] = [call[c] EXCEPT !.pc = "holding"]
    BY <1>7, <2>1, GoesFacts
  <2>3. /\ call[c] \in CallStates /\ log' = log /\ log.revision <= log'.revision
        /\ UNCHANGED <<outside, tracked, live, retiring, stage, chain>>
    BY <1>1 DEF IInv, TypeOK, logVars, ownerVars, Logs
  <2>4. call'[c].pc = "holding" /\ call'[c].on = call[c].on /\ call'[c].seen = call[c].seen
    BY <2>2, <2>3 DEF CallStates
  <2>5. /\ pool' \in [entry : Entries \cup {None}, phase : Phases, source : Logs \cup {None}]
        /\ pool'.entry = pool.entry /\ pool'.source = pool.source /\ pool'.phase = "reserved"
    BY <1>7 DEF IInv, TypeOK, Phases
  <2>6. TypeOK'
    BY <1>1, <2>2, <2>5 DEF IInv, TypeOK, Moves, logVars, ownerVars
  <2>7. Kept(c)
    BY <1>1, <1>7 DEF IInv, Reserved, Committing
  <2>8. pool.phase = "committing"
        /\ \A d \in Callers \ {c} : call[d].pc \in Reserving => ~IsPooled(d)
    BY <1>3, <1>7 DEF IsPooled, e
  <2>9. Reads' /\ Reserved'
    <3>1. call'[c].pc \in Reserving
      BY <2>4 DEF Reserving
    <3>2. /\ tracked'.known /\ tracked'.owner = None
          /\ tracked'.cursor = call[c].seen.revision /\ ~call[c].seen.open
          /\ (call[c].seen.revision + 1)..log'.revision \subseteq outside'
          /\ stage' = "queued"
      BY <2>3, <2>7 DEF Kept, Matches, OthersSince
    <3> QED
      BY <1>2, <1>7, <2>2, <2>3, <2>4, <2>5, <2>6, <2>8, <3>1, <3>2, Solo
  <2> DEFINE movers == {c}
  <2>10. /\ movers \in SUBSET Callers
         /\ \A d \in Callers \ movers : Bystander(d)
         /\ \A d \in movers : call[d].pc = "committed" /\ call[d].pc # "done"
    BY <1>1, <2>2 DEF Moves
  <2> HIDE DEF movers
  <2>11. Owned'
    BY <1>1, <2>10, OwnedFrame
  <2>12. ASSUME NEW o \in Ops, InChain(o) PROVE OpHolds(o)'
    <3>1. OpHolds(o)
      BY <2>12 DEF InChain, IInv, Queue
    <3>2. o.of \in movers => o.kind \notin {"commit", "check"}
      BY <2>10, <3>1 DEF OpHolds
    <3> QED
      BY <2>3, <2>5, <2>8, <2>10, <3>1, <3>2, OpsFrame
  <2>13. Queue'
    <3>1. stage = "adopting" => ~tracked'.known
      BY <2>3 DEF IInv, Queue
    <3> QED
      BY <2>3, <2>12, <3>1, QueueSame
  <2> QED
    BY <2>6, <2>9, <2>11, <2>13 DEF IInv
<1> QED
  BY <1>4, <1>5, <1>6, <1>7 DEF Committed, e

LEMMA QueueCheckStep == ASSUME IInv, NEW c \in Callers, QueueCheck(c) PROVE IInv'
<1>1. call[c].pc = "read" /\ UNCHANGED <<logVars, stage, ownerVars, pool, seqOf>>
  BY DEF QueueCheck
<1>2. ASSUME NEW where \in {"done", "failed"}, Goes(c, where), UNCHANGED chain PROVE IInv'
  BY <1>1, <1>2, Leaves
<1>3. CASE Goes(c, "check") /\ chain' = Append(chain, Op("check", c))
  <2>1. "check" \in Steps \ (Ended \cup {"loop"})
    BY DEF Steps, Ended
  <2>2. Moves(c) /\ call'[c] = [call[c] EXCEPT !.pc = "check"]
    BY <1>3, <2>1, GoesFacts
  <2>3. /\ call[c] \in CallStates /\ log' = log /\ log.revision <= log'.revision /\ log.revision \in Nat
        /\ UNCHANGED <<outside, tracked, live, retiring, stage, pool>>
    BY <1>1 DEF IInv, TypeOK, logVars, ownerVars, Logs
  <2>4. call'[c].pc = "check" /\ call'[c].on = call[c].on /\ call'[c].seen = call[c].seen
    BY <2>2, <2>3 DEF CallStates
  <2>5. chain' \in Seq(Ops) /\ Queue' /\ Owned'
    BY <1>1, <1>3, <2>2, <2>4, QueueOwn
  <2>6. TypeOK'
    BY <1>1, <2>2, <2>5 DEF IInv, TypeOK, Moves, logVars, ownerVars
  <2>7. call[c].on \in Entries /\ call[c].seen \in Logs /\ call[c].seen.revision <= log.revision
    BY <1>1 DEF IInv, Reads, Past
  <2> DEFINE movers == {c}
  <2>8. /\ movers \in SUBSET Callers
        /\ \A d \in Callers \ movers : Bystander(d)
        /\ \A x \in movers :
              /\ call'[x].pc \notin Reserving
              /\ call'[x].pc \in Past \cup {"result"} => call'[x].on \in Entries
              /\ call'[x].pc \in Past => call'[x].seen \in Logs
                                         /\ call'[x].seen.revision <= log'.revision
    BY <2>2, <2>3, <2>4, <2>7 DEF Moves, Reserving
  <2>9. \A d \in Callers \ movers : call[d].pc = "holding" \/ Committing(d) =>
           /\ tracked'.known /\ tracked'.owner = None
           /\ tracked'.cursor = call[d].seen.revision
           /\ (call[d].seen.revision + 1)..log'.revision \subseteq outside'
           /\ stage' = "queued"
    BY <2>3, Nobody DEF Kept, Matches, OthersSince
  <2> HIDE DEF movers
  <2>10. Reads' /\ Reserved'
    BY <2>3, <2>6, <2>8, <2>9, Frame
  <2> QED
    BY <2>5, <2>6, <2>10 DEF IInv
<1> QED
  BY <1>2, <1>3 DEF QueueCheck

LEMMA CheckedStep == ASSUME IInv, NEW c \in Callers, Checked(c) PROVE IInv'
<1>1. call[c].pc = "checked" /\ UNCHANGED <<logVars, chain, stage, ownerVars, seqOf>>
  BY DEF Checked
<1>2. CASE Goes(c, "done") /\ UNCHANGED pool
  BY <1>1, <1>2, Leaves
<1>3. ASSUME NEW where \in {"done", "borrowed"}, Answers(call, c, where), UNCHANGED pool PROVE IInv'
  <2>1. where \in Ended /\ call[c].pc \in Past \ {"settle"}
    BY <1>1 DEF Ended, Past
  <2> QED
    BY <1>1, <1>3, <2>1, Leaves
<1>4. CASE ~(IsPooled(c) /\ pool.phase # "ready") /\ Removal(call[c].on) /\ Goes(c, "loop")
  <2>1. pool.entry = call[c].on => \A d \in Callers \ {c} : call[d].pc \in Reserving => ~IsPooled(d)
    BY <1>4, OnlyOne DEF IsPooled
  <2> QED
    BY <1>1, <1>4, <2>1, Leaves
<1> QED
  BY <1>2, <1>3, <1>4 DEF Checked

LEMMA ReleaseStep == ASSUME IInv, NEW c \in Callers, Release(c) PROVE IInv'
<1> DEFINE e == call[c].on
<1>1. /\ call[c].pc = "holding" /\ UNCHANGED <<logVars, chain, stage, ownerVars, seqOf>>
      /\ Readiness(e) \/ Removal(e)
      /\ MovesTo(SettledBy(e), c, "done")
  BY DEF Release
<1>2. pool.entry = e => /\ \A d \in Callers \ {c} : call[d].pc \in Reserving => ~IsPooled(d)
                        /\ pool.phase = "reserved"
  BY <1>1, OnlyOne DEF IsPooled, IInv, Reserved, Reserving
<1> HIDE DEF e
<1>3. \/ UNCHANGED pool
      \/ Removal(e)
      \/ Readiness(e) /\ pool.phase \in {"committing", "reserved"}
  BY <1>1, <1>2 DEF Readiness
<1> QED
  BY <1>1, <1>2, <1>3, Leaves

\* Published, the session owns the state: nobody else can have committed.
LEMMA PublishStep == ASSUME IInv, NEW c \in Callers, Publish(c) PROVE IInv'
<1> USE PreparationsAssumption
<1>1. /\ call[c].pc = "holding" /\ IsPooled(c) /\ Matches(c) /\ live' = c
      /\ tracked' = [tracked EXCEPT !.owner = c]
      /\ UNCHANGED <<log, outside, chain, stage, retiring, seqOf>>
  BY DEF Publish, logVars
<1>2. Removal(call[c].on) /\ MovesTo(SettledBy(call[c].on), c, "done")
  BY DEF Publish
<1>3. "done" \in Ended /\ "done" \in Steps
  BY DEF Ended, Steps
<1>4. Moves(c) /\ call'[c].pc = "done"
  BY <1>1, <1>2, <1>3, GoesFacts
<1>5. /\ Kept(c) /\ tracked.owner = None /\ live = None /\ retiring = None /\ stage = "queued"
      /\ tracked.known
  BY <1>1, Nobody DEF Kept
<1>6. /\ \A d \in Callers \ {c} : call[d].pc \in Reserving => ~IsPooled(d)
      /\ \A d \in Callers \ {c} : ~(call[d].pc = "holding" \/ Committing(d))
  <2>1. \A d \in Callers \ {c} : call[d].pc \in Reserving => ~IsPooled(d)
    BY <1>1, OnlyOne DEF Reserving
  <2> QED
    BY <2>1, Nobody DEF Kept, Reserving, Committing
<1>7. /\ log.revision <= log'.revision
      /\ tracked' \in [known : BOOLEAN, cursor : Nat, owner : Callers \cup {None}]
      /\ tracked'.known /\ tracked'.owner = c /\ c # None
      /\ pool' = NoEntry
  BY <1>1, <1>2, <1>5 DEF IInv, TypeOK, Logs, Removal, IsPooled
<1>8. TypeOK'
  BY <1>1, <1>4, <1>7 DEF IInv, TypeOK, Moves, NoEntry, Phases
<1> DEFINE movers == {c}
<1>9. /\ movers \in SUBSET Callers
      /\ \A d \in Callers \ movers : Bystander(d)
      /\ \A x \in movers : call[x].pc = "holding" /\ call'[x].pc = "done"
      /\ \A d \in Callers \ movers : call[d].pc \in Reserving => ~IsPooled(d)
      /\ \A d \in Callers \ movers : ~(call[d].pc = "holding" \/ Committing(d))
  BY <1>1, <1>4, <1>6 DEF Moves
<1> HIDE DEF movers
<1>10. Reads' /\ Reserved'
  <2>1. "done" \notin Reserving \cup Past \cup {"result"}
    BY DEF Reserving, Past
  <2>2. pool'.entry = None /\ pool'.phase = "none"
    BY <1>7 DEF NoEntry
  <2> QED
    BY <1>7, <1>8, <1>9, <2>1, <2>2, Frame
<1>11. ASSUME NEW o \in Ops, InChain(o) PROVE OpHolds(o)'
  <2>1. OpHolds(o)
    BY <1>11 DEF InChain, IInv, Queue
  <2>2. o.of \in movers => o.kind \notin {"commit", "check"}
    BY <1>9, <2>1 DEF OpHolds
  <2>3. o.kind = "load" => pool'.entry # o.of
    BY <1>7, <2>1 DEF OpHolds, NoEntry
  <2> QED
    BY <1>1, <1>7, <1>9, <2>1, <2>2, <2>3, OpsFrame
<1>12. Queue'
  BY <1>1, <1>5, <1>11, QueueSame
<1>13. Owned'
  BY <1>1, <1>4, <1>5, <1>7 DEF Owned
<1> QED
  BY <1>8, <1>10, <1>12, <1>13 DEF IInv

\* A step in which the calls in movers, if any, go where nothing is reserved, and
\* whatever has been committed is left as it is.
LEMMA Others ==
    ASSUME IInv, TypeOK', log.revision <= log'.revision, NEW movers \in SUBSET Callers,
           \A d \in Callers \ movers : Bystander(d),
           \A x \in movers :
              /\ call'[x].pc \notin Reserving
              /\ call'[x].pc \in Past \cup {"result"} => call'[x].on \in Entries
              /\ call'[x].pc \in Past => call'[x].seen \in Logs
                                         /\ call'[x].seen.revision <= log'.revision,
           \/ pool' = pool
           \/ pool' = NoEntry /\ \A d \in Callers \ movers : call[d].pc \in Reserving => ~IsPooled(d),
           \/ \A d \in Callers \ movers : ~(call[d].pc = "holding" \/ Committing(d))
           \/ /\ UNCHANGED <<tracked, stage>>
              /\ \A r \in Nat : OthersSince(r) => OthersSince(r)'
    PROVE  Reads' /\ Reserved'
<1>1. ASSUME NEW d \in Callers \ movers, call[d].pc = "holding" \/ Committing(d)
      PROVE  /\ tracked'.known /\ tracked'.owner = None
             /\ tracked'.cursor = call[d].seen.revision
             /\ (call[d].seen.revision + 1)..log'.revision \subseteq outside'
             /\ stage' = "queued"
  <2>1. Kept(d) /\ call[d].seen.revision \in Nat
    BY <1>1, Nobody DEF Committing, Past, IInv, Reads, Logs
  <2> QED
    BY <1>1, <2>1 DEF Kept, Matches, OthersSince
<1>2. pool' = pool \/ (pool'.entry = None /\ pool'.phase = "none")
  BY DEF NoEntry
<1> QED
  BY <1>1, <1>2, Frame

LEMMA EvictStep == ASSUME IInv, Evict PROVE IInv'
<1>1. /\ pool.phase = "ready" /\ pool' = NoEntry
      /\ UNCHANGED <<log, outside, chain, stage, tracked, live, retiring, call, seqOf>>
  BY DEF Evict, logVars, ownerVars
<1>2. TypeOK' /\ log.revision <= log'.revision
  BY <1>1 DEF IInv, TypeOK, NoEntry, Phases, Logs
<1> DEFINE movers == {}
<1>3. /\ movers \in SUBSET Callers /\ \A x \in movers : FALSE
      /\ \A d \in Callers \ movers : Bystander(d)
  BY <1>1 DEF Bystander
<1> HIDE DEF movers
<1>4. \A d \in Callers \ movers : call[d].pc \in Reserving => ~IsPooled(d)
  BY <1>1, OnlyOne
<1>5. Reads' /\ Reserved'
  <2>1. \A r \in Nat : OthersSince(r) => OthersSince(r)'
    BY <1>1 DEF OthersSince
  <2> QED
    BY <1>1, <1>2, <1>3, <1>4, <2>1, Others
<1>6. ASSUME NEW o \in Ops, InChain(o) PROVE OpHolds(o)'
  BY <1>1, <1>6, PreparationsAssumption DEF InChain, IInv, Queue, OpHolds, NoEntry
<1>7. Queue'
  BY <1>1, <1>6, QueueSame DEF IInv, Queue
<1>8. Owned'
  BY <1>1 DEF IInv, Owned
<1> QED
  BY <1>2, <1>5, <1>7, <1>8 DEF IInv

\* Somebody queues an operation that no call waits for.
LEMMA QueueOther ==
    ASSUME IInv, NEW op \in Ops, chain' = Append(chain, op), op.kind \in {"write", "append", "retire"},
           UNCHANGED <<logVars, stage, ownerVars, pool, call>>, seqOf' \in [Appenders -> Nat],
           OpHolds(op),
           op.kind = "retire" => ~Queued("write") /\ ~Queued("retire"),
           op.kind = "write" => ~Queued("retire")
    PROVE  IInv'
<1>1. /\ UNCHANGED <<log, outside, stage, tracked, live, retiring, pool, call>>
      /\ chain \in Seq(Ops)
  BY DEF logVars, ownerVars, IInv, TypeOK
<1>2. TypeOK' /\ log.revision <= log'.revision
  BY <1>1 DEF IInv, TypeOK, Logs
<1> DEFINE movers == {}
<1>3. /\ movers \in SUBSET Callers /\ \A x \in movers : FALSE
      /\ \A d \in Callers \ movers : Bystander(d)
  BY <1>1 DEF Bystander
<1> HIDE DEF movers
<1>4. Reads' /\ Reserved'
  <2>1. \A r \in Nat : OthersSince(r) => OthersSince(r)'
    BY <1>1 DEF OthersSince
  <2> QED
    BY <1>1, <1>2, <1>3, <2>1, Others
<1>5. ASSUME NEW o \in Ops, o = op \/ InChain(o) PROVE OpHolds(o)'
  <2>1. OpHolds(o)
    BY <1>5 DEF InChain, IInv, Queue
  <2> QED
    BY <1>1, <2>1 DEF OpHolds
<1>6. /\ op.kind \in Single => \A i \in DOMAIN chain : chain[i] # op
      /\ op.kind = "retire" => \A i \in DOMAIN chain : chain[i].kind # "write"
      /\ op.kind = "write" => \A i \in DOMAIN chain : chain[i].kind # "retire"
  BY DEF Single, Queued
<1>7. Queue'
  BY <1>1, <1>5, <1>6, QueueAppends DEF IInv, Queue
<1>8. Owned'
  BY <1>1 DEF IInv, Owned
<1> QED
  BY <1>2, <1>4, <1>7, <1>8 DEF IInv

LEMMA LiveWriteStep == ASSUME IInv, LiveWrite PROVE IInv'
<1> DEFINE op == [kind |-> "write", of |-> None]
<1>1. op \in Ops /\ chain' = Append(chain, op) /\ UNCHANGED <<logVars, stage, ownerVars, pool, call>>
      /\ seqOf' \in [Appenders -> Nat]
  BY DEF Ops, Kinds, Op, LiveWrite, IInv, TypeOK
<1>2. op.kind = "write" /\ OpHolds(op)
  BY DEF OpHolds, LiveWrite
<1>3. ~Queued("retire")
  BY DEF LiveWrite, Queued, IInv, Queue, OpHolds, Owned
<1> HIDE DEF op
<1> QED
  BY <1>1, <1>2, <1>3, QueueOther

LEMMA QueueRetireStep == ASSUME IInv, QueueRetire PROVE IInv'
<1> DEFINE op == [kind |-> "retire", of |-> retiring]
<1>1. op \in Ops /\ chain' = Append(chain, op) /\ UNCHANGED <<logVars, stage, ownerVars, pool, call>>
      /\ seqOf' \in [Appenders -> Nat]
  BY DEF Ops, Kinds, Op, QueueRetire, IInv, TypeOK
<1>2. op.kind = "retire" /\ OpHolds(op)
  BY DEF OpHolds, QueueRetire, Drained
<1>3. ~Queued("retire") /\ ~Queued("write")
  BY DEF QueueRetire, Drained
<1> HIDE DEF op
<1> QED
  BY <1>1, <1>2, <1>3, QueueOther

LEMMA QueueAppendStep == ASSUME IInv, NEW a \in Appenders, QueueAppend(a) PROVE IInv'
<1> DEFINE op == [kind |-> "append", of |-> a]
<1>1. op \in Ops /\ chain' = Append(chain, op) /\ UNCHANGED <<logVars, stage, ownerVars, pool, call>>
      /\ seqOf' \in [Appenders -> Nat]
  BY DEF Ops, Kinds, Op, QueueAppend, IInv, TypeOK, Logs
<1>2. op.kind = "append" /\ OpHolds(op)
  BY DEF OpHolds
<1> HIDE DEF op
<1> QED
  BY <1>1, <1>2, QueueOther

LEMMA DisposeStep == ASSUME IInv, Dispose PROVE IInv'
<1>1. /\ live # None /\ retiring = None /\ retiring' = live /\ live' = None
      /\ UNCHANGED <<log, outside, chain, stage, tracked, pool, call, seqOf>>
  BY DEF Dispose, logVars
<1>2. TypeOK' /\ log.revision <= log'.revision
  BY <1>1 DEF IInv, TypeOK, Logs
<1> DEFINE movers == {}
<1>3. /\ movers \in SUBSET Callers /\ \A x \in movers : FALSE
      /\ \A d \in Callers \ movers : Bystander(d)
  BY <1>1 DEF Bystander
<1> HIDE DEF movers
<1>4. Reads' /\ Reserved'
  <2>1. \A r \in Nat : OthersSince(r) => OthersSince(r)'
    BY <1>1 DEF OthersSince
  <2> QED
    BY <1>1, <1>2, <1>3, <2>1, Others
<1>5. ASSUME NEW o \in Ops, InChain(o) PROVE OpHolds(o)'
  <2>1. OpHolds(o)
    BY <1>5 DEF InChain, IInv, Queue
  <2> QED
    BY <1>1, <2>1 DEF OpHolds
<1>6. Queue'
  BY <1>1, <1>5, QueueSame DEF IInv, Queue
<1>7. Owned'
  BY <1>1 DEF IInv, Owned
<1> QED
  BY <1>2, <1>4, <1>6, <1>7 DEF IInv

LEMMA WritesOutsideStep == ASSUME IInv, WritesOutside PROVE IInv'
<1>1. /\ UNCHANGED <<chain, stage, tracked, live, retiring, pool, call, seqOf>>
      /\ log.revision \in Nat /\ outside' = outside \cup {log.revision + 1}
      /\ \E ends \in BOOLEAN : log' = [revision |-> log.revision + 1, open |-> ends]
  BY DEF WritesOutside, Lengthens, ownerVars, IInv, TypeOK, Logs
<1>2. log' \in Logs /\ log'.revision = log.revision + 1
  BY <1>1 DEF Logs
<1>3. TypeOK' /\ log.revision <= log'.revision
  <2>1. log.revision <= log'.revision /\ log.revision + 1 \in Nat
    BY <1>1, <1>2
  <2>2. outside' \subseteq Nat
    BY <1>1, <2>1 DEF IInv, TypeOK
  <2> QED
    BY <1>1, <1>2, <2>1, <2>2 DEF IInv, TypeOK
<1> DEFINE movers == {}
<1>4. /\ movers \in SUBSET Callers /\ \A x \in movers : FALSE
      /\ \A d \in Callers \ movers : Bystander(d)
  BY <1>1 DEF Bystander
<1> HIDE DEF movers
<1>5. Reads' /\ Reserved'
  <2>1. \A r \in Nat : OthersSince(r) => OthersSince(r)'
    <3> SUFFICES ASSUME NEW r \in Nat, (r + 1)..log.revision \subseteq outside, NEW q \in (r + 1)..log'.revision
                 PROVE  q \in outside'
      BY DEF OthersSince
    <3>1. q \in (r + 1)..log.revision \/ q = log.revision + 1
      BY <1>1, <1>2
    <3> QED
      BY <1>1, <3>1
  <2> QED
    BY <1>1, <1>3, <1>4, <2>1, Others
<1>6. ASSUME NEW o \in Ops, InChain(o) PROVE OpHolds(o)'
  <2>1. OpHolds(o)
    BY <1>6 DEF InChain, IInv, Queue
  <2> QED
    BY <1>1, <2>1 DEF OpHolds
<1>7. Queue'
  BY <1>1, <1>6, QueueSame DEF IInv, Queue
<1>8. Owned'
  BY <1>1 DEF IInv, Owned
<1> QED
  BY <1>3, <1>5, <1>7, <1>8 DEF IInv




\* The end of a retirement moves the calls that waited for it, and nobody else.
LEMMA RetiredFacts ==
    ASSUME IInv, NEW where \in {"failed", "loop"}, RetiredTo(where)
    PROVE  /\ retiring' = None /\ call' \in [Callers -> CallStates]
           /\ \A d \in Callers : IF call[d].pc = "retire" THEN call'[d].pc = where ELSE Bystander(d)
           /\ \A d \in Callers : call[d].pc = "retire" =>
                 /\ call'[d].since = 0 \/ call'[d].since = call[d].since
                 /\ call'[d].missing = {} \/ call'[d].missing = call[d].missing
<1> DEFINE t(d) == IF call[d].pc # "retire" THEN call[d]
                   ELSE IF where = "failed" THEN [Idle EXCEPT !.pc = "failed"]
                   ELSE [call[d] EXCEPT !.pc = where]
<1>1. \A d \in Callers : call[d] \in CallStates
  BY DEF IInv, TypeOK
<1>2. [Idle EXCEPT !.pc = "failed"] \in CallStates
  BY IdleType DEF Steps, Ended
<1>3. \A d \in Callers : /\ t(d) \in CallStates /\ (call[d].pc = "retire" => t(d).pc = where)
                         /\ t(d).since = 0 \/ t(d).since = call[d].since
                         /\ t(d).missing = {} \/ t(d).missing = call[d].missing
  <2> TAKE d \in Callers
  <2>1. CASE call[d].pc # "retire"
    BY <1>1, <2>1
  <2>2. CASE call[d].pc = "retire" /\ where = "failed"
    BY <1>2, <2>2 DEF Idle
  <2>3. CASE call[d].pc = "retire" /\ where = "loop"
    BY <1>1, <2>3 DEF CallStates, Steps
  <2> QED
    BY <2>1, <2>2, <2>3
<1>4. call' = [d \in Callers |-> t(d)] /\ retiring' = None
  BY DEF RetiredTo
<1>5. \A d \in Callers : call[d].pc # "retire" => t(d) = call[d]
  OBVIOUS
<1> HIDE DEF t
<1>6. call' \in [Callers -> CallStates] /\ \A d \in Callers : call'[d] = t(d)
  BY <1>3, <1>4
<1> QED
  BY <1>3, <1>4, <1>5, <1>6 DEF Bystander

LEMMA RetireFailsStep == ASSUME IInv, RetireFails PROVE IInv'
<1>1. /\ retiring # None /\ ~Queued("write") /\ ~Queued("retire") /\ RetiredTo("failed")
      /\ UNCHANGED <<log, outside, chain, stage, tracked, live, pool, seqOf>>
  BY DEF RetireFails, Drained, logVars
<1>2. /\ retiring' = None /\ call' \in [Callers -> CallStates]
      /\ \A d \in Callers : IF call[d].pc = "retire" THEN call'[d].pc = "failed" ELSE Bystander(d)
  BY <1>1, RetiredFacts
<1>3. TypeOK' /\ log.revision <= log'.revision
  BY <1>1, <1>2 DEF IInv, TypeOK, Logs
<1> DEFINE movers == {d \in Callers : call[d].pc = "retire"}
<1>4. /\ movers \in SUBSET Callers
      /\ \A d \in Callers \ movers : Bystander(d)
      /\ \A x \in movers : call[x].pc = "retire" /\ call'[x].pc = "failed"
  BY <1>2
<1> HIDE DEF movers
<1>5. Reads' /\ Reserved'
  <2>1. \A r \in Nat : OthersSince(r) => OthersSince(r)'
    BY <1>1 DEF OthersSince
  <2>2. "failed" \notin Reserving \cup Past \cup {"result"}
    BY DEF Reserving, Past
  <2> QED
    BY <1>1, <1>3, <1>4, <2>1, <2>2, Others
<1>6. ASSUME NEW o \in Ops, InChain(o) PROVE OpHolds(o)'
  <2>1. OpHolds(o) /\ o.kind \notin {"retire", "write"}
    BY <1>1, <1>6 DEF InChain, IInv, Queue, Queued
  <2>2. o.kind \in {"commit", "check"} => o.of \notin movers
    BY <1>4, <2>1 DEF OpHolds
  <2> QED
    BY <1>1, <1>4, <2>1, <2>2 DEF OpHolds, Bystander
<1>7. Queue'
  BY <1>1, <1>6, QueueSame DEF IInv, Queue
<1>8. Owned'
  BY <1>1, <1>2 DEF IInv, TypeOK, Owned, Bystander
<1> QED
  BY <1>3, <1>5, <1>7, <1>8 DEF IInv

\* The operation that runs, and those behind it: a call has no other one, and a
\* running append is what the stage is about.
LEMMA RunningFacts ==
    ASSUME IInv, NEW kind \in Kinds, Starting(kind)
    PROVE  /\ chain # <<>> /\ chain[1] \in Ops /\ OpHolds(chain[1]) /\ Tail(chain) \in Seq(Ops)
           /\ chain[1].kind = kind /\ chain[1].of = Runner /\ InChain(chain[1])
           /\ chain[1] = [kind |-> kind, of |-> Runner]
           /\ kind # "append" => stage = "queued"
           /\ \A o \in Ops : (\E i \in DOMAIN chain : i # 1 /\ chain[i] = o) =>
                 /\ OpHolds(o) /\ InChain(o)
                 /\ kind \in Single => o # chain[1]
<1>1. chain # <<>> /\ Head(chain).kind = kind
  BY DEF Starting
<1>2. /\ Head(chain) = chain[1] /\ 1 \in DOMAIN chain /\ OpHolds(chain[1])
      /\ Tail(chain) \in Seq(Ops) /\ chain[1] \in Ops
  BY <1>1, OperationFacts
<1>3. chain[1] = [kind |-> kind, of |-> Runner]
  BY <1>1, <1>2 DEF Ops, Runner
<1>4. \A o \in Ops : (\E i \in DOMAIN chain : i # 1 /\ chain[i] = o) =>
         /\ OpHolds(o) /\ InChain(o)
         /\ kind \in Single => o # chain[1]
  BY <1>1, <1>2 DEF IInv, Queue, InChain
<1>5. kind # "append" => stage = "queued"
  BY <1>1, <1>2 DEF IInv, Queue
<1>6. InChain(chain[1])
  BY <1>2 DEF InChain
<1> QED
  BY <1>1, <1>2, <1>3, <1>4, <1>5, <1>6 DEF Runner

\* The calls a read settles for: those waiting for its result.
LEMMA ReadersFacts ==
    ASSUME IInv, NEW e \in Entries, NEW t, \A c \in Callers : t[c] \in CallStates,
           call' = [c \in Callers |-> IF call[c].on = e /\ call[c].pc = "result" THEN t[c] ELSE call[c]]
    PROVE  /\ call' \in [Callers -> CallStates]
           /\ \A d \in Callers : IF call[d].on = e /\ call[d].pc = "result" THEN call'[d] = t[d]
                                 ELSE call'[d] = call[d] /\ Bystander(d)
<1>1. \A c \in Callers : call[c] \in CallStates
  BY DEF IInv, TypeOK
<1> QED
  BY <1>1 DEF Bystander

LEMMA LoadReadsStep == ASSUME IInv, LoadReads PROVE IInv'
<1> DEFINE e == Runner
<1>1. /\ Starting("load") /\ chain' = Tail(chain)
      /\ pool' = IF pool.entry = e THEN [pool EXCEPT !.phase = "ready", !.source = log] ELSE pool
      /\ UNCHANGED <<log, outside, stage, tracked, live, retiring, seqOf>>
  BY DEF LoadReads, Running, logVars, ownerVars
<1>2. call' = [c \in Callers |-> IF call[c].on = e /\ call[c].pc = "result"
                                 THEN [call[c] EXCEPT !.pc = "read", !.seen = log] ELSE call[c]]
  BY DEF LoadReads
<1> HIDE DEF e
<1>3. /\ chain # <<>> /\ Tail(chain) \in Seq(Ops) /\ e \in Entries /\ stage = "queued"
      /\ chain[1] = [kind |-> "load", of |-> e]
      /\ pool.entry = e => pool.phase = "loading"
      /\ \A o \in Ops : (\E i \in DOMAIN chain : i # 1 /\ chain[i] = o) => OpHolds(o) /\ o # chain[1]
  <2>1. "load" \in Kinds /\ "load" \in Single
    BY DEF Kinds, Single
  <2> QED
    BY <1>1, <2>1, RunningFacts DEF OpHolds, e
<1>4. /\ log \in Logs /\ log.revision \in Nat /\ log.revision <= log'.revision
      /\ pool \in [entry : Entries \cup {None}, phase : Phases, source : Logs \cup {None}]
      /\ \A d \in Callers : call[d] \in CallStates
  BY <1>1 DEF IInv, TypeOK, Logs
<1> DEFINE t == [c \in Callers |-> [call[c] EXCEPT !.pc = "read", !.seen = log]]
<1>5. /\ \A c \in Callers : t[c] \in CallStates
      /\ \A c \in Callers : t[c].pc = "read" /\ t[c].seen = log /\ t[c].on = call[c].on
      /\ call' = [c \in Callers |-> IF call[c].on = e /\ call[c].pc = "result" THEN t[c] ELSE call[c]]
  <2>1. \A c \in Callers : t[c] = [call[c] EXCEPT !.pc = "read", !.seen = log]
    OBVIOUS
  <2>2. call' = [c \in Callers |-> IF call[c].on = e /\ call[c].pc = "result" THEN t[c] ELSE call[c]]
    BY <1>2
  <2> HIDE DEF t
  <2>3. ASSUME NEW u \in CallStates
        PROVE  /\ [u EXCEPT !.pc = "read", !.seen = log] \in CallStates
               /\ [u EXCEPT !.pc = "read", !.seen = log].pc = "read"
               /\ [u EXCEPT !.pc = "read", !.seen = log].seen = log
               /\ [u EXCEPT !.pc = "read", !.seen = log].on = u.on
    BY <1>4 DEF CallStates, Steps
  <2>4. ASSUME NEW c \in Callers
        PROVE  t[c] \in CallStates /\ t[c].pc = "read" /\ t[c].seen = log /\ t[c].on = call[c].on
    <3>1. call[c] \in CallStates
      BY <1>4
    <3> QED
      BY <2>1, <2>3, <3>1
  <2> QED
    BY <2>2, <2>4
<1> HIDE DEF t
<1>6. /\ call' \in [Callers -> CallStates]
      /\ \A d \in Callers : IF call[d].on = e /\ call[d].pc = "result" THEN call'[d] = t[d]
                            ELSE Bystander(d)
  BY <1>3, <1>5, ReadersFacts
<1>7. /\ pool' \in [entry : Entries \cup {None}, phase : Phases, source : Logs \cup {None}]
      /\ pool'.entry = pool.entry
      /\ pool' = pool \/ (pool.entry = e /\ pool'.phase = "ready" /\ pool'.source = log)
  BY <1>1, <1>4 DEF Phases
<1>8. TypeOK'
  BY <1>1, <1>3, <1>6, <1>7 DEF IInv, TypeOK
<1> DEFINE movers == {d \in Callers : call[d].on = e /\ call[d].pc = "result"}
<1>9. /\ movers \in SUBSET Callers
      /\ \A d \in Callers \ movers : Bystander(d)
      /\ \A x \in movers : /\ call[x].pc = "result" /\ call'[x].pc = "read"
                           /\ call'[x].on = e /\ call'[x].seen = log
  BY <1>5, <1>6
<1> HIDE DEF movers
<1>10. Reads' /\ Reserved'
  <2>1. \A x \in movers :
           /\ call'[x].pc \notin Reserving
           /\ call'[x].pc \in Past \cup {"result"} => call'[x].on \in Entries
           /\ call'[x].pc \in Past => call'[x].seen \in Logs /\ call'[x].seen.revision <= log'.revision
    BY <1>1, <1>3, <1>4, <1>9 DEF Reserving
  <2>2. pool' = pool \/ \A d \in Callers \ movers : call[d].pc \in Reserving => ~IsPooled(d)
    BY <1>3, <1>7, OnlyOne
  <2>3. pool' \in {pool, NoEntry} \/ (pool'.entry # None /\ pool'.phase # "none")
    BY <1>3, <1>7, PreparationsAssumption
  <2>4. pool' = pool \/ (pool'.phase \in {"ready", "committing", "reserved"} =>
                            pool'.source \in Logs /\ pool'.source.revision <= log'.revision)
    BY <1>1, <1>4, <1>7
  <2>5. \A d \in Callers \ movers : call[d].pc = "holding" \/ Committing(d) =>
           /\ tracked'.known /\ tracked'.owner = None
           /\ tracked'.cursor = call[d].seen.revision
           /\ (call[d].seen.revision + 1)..log'.revision \subseteq outside'
           /\ stage' = "queued"
    BY <1>1, Nobody DEF Kept, Matches, OthersSince
  <2> QED
    BY <1>4, <1>7, <1>8, <1>9, <2>1, <2>2, <2>3, <2>4, <2>5, Frame
<1>11. ASSUME NEW o \in Ops, \E i \in DOMAIN chain : i # 1 /\ chain[i] = o PROVE OpHolds(o)'
  <2>1. OpHolds(o) /\ o # chain[1]
    BY <1>3, <1>11
  <2>2. o.kind \in {"commit", "check"} => o.of \notin movers
    BY <1>9, <2>1 DEF OpHolds
  <2>3. o.kind = "load" => o.of # e
    BY <1>3, <2>1 DEF Ops
  <2> QED
    BY <1>1, <1>7, <1>9, <2>1, <2>2, <2>3 DEF OpHolds, Bystander
<1>12. Queue'
  BY <1>1, <1>3, <1>11, QueueTails
<1>13. Owned'
  BY <1>1, <1>9, OwnedFrame DEF ownerVars
<1> QED
  BY <1>8, <1>10, <1>12, <1>13 DEF IInv

LEMMA LoadFailsStep == ASSUME IInv, LoadFails PROVE IInv'
<1> DEFINE e == Runner
<1>1. /\ Starting("load") /\ chain' = Tail(chain) /\ Removal(e)
      /\ UNCHANGED <<log, outside, stage, tracked, live, retiring, seqOf>>
  BY DEF LoadFails, Running, logVars, ownerVars
<1>2. call' = [c \in Callers |->
                 IF call[c].on = e /\ call[c].pc = "result"
                 THEN [Idle EXCEPT !.pc = IF c \in Inspectors /\ live # None THEN "done" ELSE "failed"]
                 ELSE call[c]]
  BY DEF LoadFails
<1> HIDE DEF e
<1>3. /\ chain # <<>> /\ Tail(chain) \in Seq(Ops) /\ e \in Entries /\ stage = "queued"
      /\ pool.entry = e => pool.phase = "loading"
      /\ \A o \in Ops : (\E i \in DOMAIN chain : i # 1 /\ chain[i] = o) => OpHolds(o)
  <2>1. "load" \in Kinds
    BY DEF Kinds
  <2> QED
    BY <1>1, <2>1, RunningFacts DEF OpHolds, e
<1> DEFINE t == [c \in Callers |-> [Idle EXCEPT !.pc = IF c \in Inspectors /\ live # None THEN "done"
                                                        ELSE "failed"]]
<1>4. /\ \A c \in Callers : t[c] \in CallStates
      /\ \A c \in Callers : t[c].pc \in {"done", "failed"}
      /\ call' = [c \in Callers |-> IF call[c].on = e /\ call[c].pc = "result" THEN t[c] ELSE call[c]]
  <2>1. [Idle EXCEPT !.pc = "done"] \in CallStates /\ [Idle EXCEPT !.pc = "failed"] \in CallStates
    BY IdleType DEF Steps, Ended
  <2> QED
    BY <1>2, <2>1 DEF Idle
<1> HIDE DEF t
<1>5. /\ call' \in [Callers -> CallStates]
      /\ \A d \in Callers : IF call[d].on = e /\ call[d].pc = "result" THEN call'[d] = t[d]
                            ELSE Bystander(d)
  BY <1>3, <1>4, ReadersFacts
<1>6. /\ pool' = pool \/ (pool' = NoEntry /\ pool.entry = e)
      /\ log.revision <= log'.revision
  BY <1>1 DEF Removal, IInv, TypeOK, Logs
<1>7. TypeOK'
  BY <1>1, <1>3, <1>5, <1>6 DEF IInv, TypeOK, NoEntry, Phases
<1> DEFINE movers == {d \in Callers : call[d].on = e /\ call[d].pc = "result"}
<1>8. /\ movers \in SUBSET Callers
      /\ \A d \in Callers \ movers : Bystander(d)
      /\ \A x \in movers : call[x].pc = "result" /\ call'[x].pc \in {"done", "failed"}
  BY <1>4, <1>5
<1> HIDE DEF movers
<1>9. Reads' /\ Reserved'
  <2>1. \A x \in movers : call'[x].pc \notin Reserving \cup Past \cup {"result"}
    BY <1>8 DEF Reserving, Past
  <2>2. \/ pool' = pool
        \/ pool' = NoEntry /\ \A d \in Callers \ movers : call[d].pc \in Reserving => ~IsPooled(d)
    BY <1>3, <1>6, OnlyOne
  <2>3. \A r \in Nat : OthersSince(r) => OthersSince(r)'
    BY <1>1 DEF OthersSince
  <2> QED
    BY <1>1, <1>6, <1>7, <1>8, <2>1, <2>2, <2>3, Others
<1>10. ASSUME NEW o \in Ops, \E i \in DOMAIN chain : i # 1 /\ chain[i] = o PROVE OpHolds(o)'
  <2>1. OpHolds(o)
    BY <1>3, <1>10
  <2>2. o.kind \in {"commit", "check"} => o.of \notin movers
    BY <1>8, <2>1 DEF OpHolds
  <2> QED
    BY <1>1, <1>6, <1>8, <2>1, <2>2, PreparationsAssumption DEF OpHolds, Bystander, NoEntry
<1>11. Queue'
  BY <1>1, <1>3, <1>10, QueueTails
<1>12. Owned'
  BY <1>1, <1>8, OwnedFrame DEF ownerVars
<1> QED
  BY <1>7, <1>9, <1>11, <1>12 DEF IInv

\* A commit that settles: the call goes on holding its reservation, if it still does,
\* and when it committed, the state is tracked at what it read.
LEMMA CommitSettles ==
    ASSUME IInv, Starting("commit"), NEW result \in {"committed", "stale", "failed"},
           Settles(result, "committed"),
           UNCHANGED <<outside, stage, live, retiring, pool, seqOf>>,
           log' \in Logs, log.revision <= log'.revision,
           tracked' = tracked \/ (tracked.owner = None /\ tracked' = Tracking(call[Runner].seen)),
           ~IsPooled(Runner) => UNCHANGED <<log, tracked>>,
           result = "committed" => /\ log' = log /\ IsCurrent(call[Runner].seen)
                                   /\ tracked.owner = None /\ tracked' = Tracking(call[Runner].seen)
                                   /\ ~call[Runner].seen.open /\ IsPooled(Runner)
    PROVE  IInv'
<1> USE PreparationsAssumption
<1> DEFINE c == Runner
<1>1. /\ chain # <<>> /\ Tail(chain) \in Seq(Ops) /\ c \in Callers /\ call[c].pc = "commit"
      /\ stage = "queued" /\ chain[1] = [kind |-> "commit", of |-> c]
      /\ \A o \in Ops : (\E i \in DOMAIN chain : i # 1 /\ chain[i] = o) => OpHolds(o) /\ o # chain[1]
  <2>1. "commit" \in Kinds /\ "commit" \in Single
    BY DEF Kinds, Single
  <2> QED
    BY <2>1, RunningFacts DEF OpHolds
<1>2. /\ Moves(c) /\ call'[c] = [call[c] EXCEPT !.outcome = result, !.pc = "committed"]
      /\ chain' = Tail(chain)
  <2>1. "committed" \in Steps
    BY DEF Steps
  <2> QED
    BY <1>1, <2>1, SettlesFacts DEF Settles
<1> HIDE DEF c
<1>3. call[c] \in CallStates /\ call[c].seen \in Logs /\ call[c].seen.revision \in Nat
  BY <1>1 DEF IInv, TypeOK, Reads, Past, Logs
<1>4. /\ call'[c].pc = "committed" /\ call'[c].outcome = result
      /\ call'[c].on = call[c].on /\ call'[c].seen = call[c].seen
  BY <1>2, <1>3 DEF CallStates
<1>5. /\ tracked' \in [known : BOOLEAN, cursor : Nat, owner : Callers \cup {None}]
      /\ tracked' = tracked \/ (tracked.owner = None /\ tracked'.owner = None /\ tracked'.known)
      /\ result = "committed" => /\ tracked'.known /\ tracked'.owner = None
                                 /\ tracked'.cursor = call[c].seen.revision
  <2>1. tracked \in [known : BOOLEAN, cursor : Nat, owner : Callers \cup {None}]
    BY DEF IInv, TypeOK
  <2>2. /\ Tracking(call[c].seen) \in [known : BOOLEAN, cursor : Nat, owner : Callers \cup {None}]
        /\ Tracking(call[c].seen).known /\ Tracking(call[c].seen).owner = None
        /\ Tracking(call[c].seen).cursor = call[c].seen.revision
    BY <1>3 DEF Tracking
  <2>3. /\ tracked' = tracked \/ (tracked.owner = None /\ tracked' = Tracking(call[c].seen))
        /\ result = "committed" => tracked' = Tracking(call[c].seen)
    BY DEF c
  <2> QED
    BY <2>1, <2>2, <2>3
<1>6. TypeOK'
  BY <1>1, <1>2, <1>5 DEF IInv, TypeOK, Moves
<1>7. Reads' /\ Reserved'
  <2>1. /\ call[c].pc \in Past /\ call[c].pc \in Reserving /\ call'[c].pc \in Reserving
        /\ call'[c].pc # "commit"
    BY <1>1, <1>4 DEF Past, Reserving
  <2>2. ~IsPooled(c) => UNCHANGED <<logVars, tracked, stage, pool>>
    BY DEF logVars, c
  <2>3. IsPooled(c) => /\ pool'.phase = IF call'[c].pc = "holding" THEN "reserved" ELSE "committing"
                       /\ pool.phase \in {"ready", "committing", "reserved"}
                       /\ \A d \in Callers \ {c} : call[d].pc \in Reserving => ~IsPooled(d)
    BY <1>1, <1>4, <2>1, OnlyOne DEF IInv, Reserved
  <2>4. call'[c].pc = "holding" \/ (call'[c].pc = "committed" /\ call'[c].outcome = "committed") =>
              /\ IsPooled(c)
              /\ tracked'.known /\ tracked'.owner = None
              /\ tracked'.cursor = call[c].seen.revision /\ ~call[c].seen.open
              /\ (call[c].seen.revision + 1)..log'.revision \subseteq outside'
              /\ stage' = "queued"
    <3> SUFFICES ASSUME result = "committed"
                 PROVE  /\ IsPooled(c) /\ ~call[c].seen.open /\ stage' = "queued"
                        /\ (call[c].seen.revision + 1)..log'.revision \subseteq outside'
      BY <1>4, <1>5
    <3>1. IsPooled(c) /\ ~call[c].seen.open /\ log' = log /\ call[c].seen.revision = log.revision
      BY DEF c, IsCurrent
    <3> QED
      BY <1>1, <1>3, <3>1
  <2>5. pool'.entry = pool.entry /\ pool'.source = pool.source
    OBVIOUS
  <2> QED
    BY <1>1, <1>2, <1>4, <1>6, <2>1, <2>2, <2>3, <2>4, <2>5, Solo
<1>8. ASSUME NEW o \in Ops, \E i \in DOMAIN chain : i # 1 /\ chain[i] = o PROVE OpHolds(o)'
  <2>1. OpHolds(o) /\ o # chain[1]
    BY <1>1, <1>8
  <2>2. o.kind \in {"commit", "check"} => o.of # c
    BY <1>1, <2>1 DEF OpHolds, Ops
  <2> QED
    BY <1>2, <2>1, <2>2 DEF OpHolds, Moves, Bystander
<1>9. Queue'
  BY <1>1, <1>2, <1>8, QueueTails
<1>10. Owned'
  BY <1>1, <1>2, <1>5 DEF IInv, TypeOK, Owned, Moves, Bystander
<1> QED
  BY <1>6, <1>7, <1>9, <1>10 DEF IInv

LEMMA CommitsStep == ASSUME IInv, Commits \/ CommitFails PROVE IInv'
<1> DEFINE c == Runner
           source == call[c].seen
<1>1. Starting("commit") /\ UNCHANGED <<outside, stage, live, retiring, pool, seqOf>>
  BY DEF Commits, CommitFails, Running, logVars, ownerVars
<1>2. c \in Callers /\ call[c].pc = "commit"
  <2>1. "commit" \in Kinds
    BY DEF Kinds
  <2> QED
    BY <1>1, <2>1, RunningFacts DEF OpHolds
<1>3. /\ log \in Logs /\ log.revision \in Nat /\ source \in Logs
      /\ ~IsPooled(c) => ~IsCurrent(source)
  BY <1>2 DEF IInv, TypeOK, Reads, Reserved, Past, Logs, IsCurrent
<1>4. ASSUME NEW result \in {"failed", "stale"}, Settles(result, "committed"), UNCHANGED <<log, tracked>>
      PROVE  IInv'
  BY <1>1, <1>3, <1>4, CommitSettles
<1>5. CASE Settles("stale", "committed") /\ IsCurrent(source) /\ log' = Repaired /\ UNCHANGED tracked
  <2>1. log' \in Logs /\ log.revision <= log'.revision
    BY <1>3, <1>5 DEF Repaired, Logs
  <2> QED
    BY <1>1, <1>3, <1>5, <2>1, CommitSettles
<1>6. CASE /\ Settles("committed", "committed") /\ IsCurrent(source) /\ ~source.open
           /\ tracked.owner = None /\ tracked' = Tracking(source) /\ UNCHANGED log
  <2>1. log' \in Logs /\ log.revision <= log'.revision
    BY <1>3, <1>6
  <2> QED
    BY <1>1, <1>3, <1>6, <2>1, CommitSettles
<1> QED
  BY <1>4, <1>5, <1>6 DEF Commits, CommitFails, logVars, ownerVars

LEMMA ChecksStep == ASSUME IInv, Checks PROVE IInv'
<1> DEFINE c == Runner
           result == IF IsCurrent(call[c].seen) THEN "current" ELSE "changed"
<1>1. /\ Starting("check") /\ Settles(result, "checked") /\ chain' = Tail(chain)
      /\ UNCHANGED <<log, outside, stage, tracked, live, retiring, pool, seqOf>>
  BY DEF Checks, Running, Settles, logVars, ownerVars
<1>2. /\ chain # <<>> /\ Tail(chain) \in Seq(Ops) /\ c \in Callers /\ call[c].pc = "check"
      /\ stage = "queued" /\ chain[1] = [kind |-> "check", of |-> c]
      /\ \A o \in Ops : (\E i \in DOMAIN chain : i # 1 /\ chain[i] = o) => OpHolds(o) /\ o # chain[1]
  <2>1. "check" \in Kinds /\ "check" \in Single
    BY DEF Kinds, Single
  <2> QED
    BY <1>1, <2>1, RunningFacts DEF OpHolds
<1>3. Moves(c) /\ call'[c] = [call[c] EXCEPT !.outcome = result, !.pc = "checked"]
  <2>1. "checked" \in Steps /\ result \in {"current", "changed"}
    BY DEF Steps
  <2> QED
    BY <1>1, <1>2, <2>1, SettlesFacts
<1> HIDE DEF c, result
<1>4. /\ call[c] \in CallStates /\ log.revision <= log'.revision
      /\ call[c].on \in Entries /\ call[c].seen \in Logs /\ call[c].seen.revision <= log.revision
  BY <1>1, <1>2 DEF IInv, TypeOK, Reads, Past, Logs
<1>5. call'[c].pc = "checked" /\ call'[c].on = call[c].on /\ call'[c].seen = call[c].seen
  BY <1>3, <1>4 DEF CallStates
<1>6. TypeOK'
  BY <1>1, <1>2, <1>3 DEF IInv, TypeOK, Moves
<1> DEFINE movers == {c}
<1>7. /\ movers \in SUBSET Callers
      /\ \A d \in Callers \ movers : Bystander(d)
      /\ \A x \in movers :
            /\ call[x].pc # "done"
            /\ call'[x].pc \notin Reserving
            /\ call'[x].pc \in Past \cup {"result"} => call'[x].on \in Entries
            /\ call'[x].pc \in Past => call'[x].seen \in Logs
                                       /\ call'[x].seen.revision <= log'.revision
  BY <1>1, <1>2, <1>3, <1>4, <1>5 DEF Moves, Reserving
<1> HIDE DEF movers
<1>8. Reads' /\ Reserved'
  <2>1. \A r \in Nat : OthersSince(r) => OthersSince(r)'
    BY <1>1 DEF OthersSince
  <2> QED
    BY <1>1, <1>4, <1>6, <1>7, <2>1, Others
<1>9. ASSUME NEW o \in Ops, \E i \in DOMAIN chain : i # 1 /\ chain[i] = o PROVE OpHolds(o)'
  <2>1. OpHolds(o) /\ o # chain[1]
    BY <1>2, <1>9
  <2>2. o.kind \in {"commit", "check"} => o.of # c
    BY <1>2, <2>1 DEF OpHolds, Ops
  <2> QED
    BY <1>1, <1>3, <2>1, <2>2 DEF OpHolds, Moves, Bystander
<1>10. Queue'
  BY <1>1, <1>2, <1>9, QueueTails
<1>11. Owned'
  BY <1>1, <1>7, OwnedFrame DEF ownerVars
<1> QED
  BY <1>6, <1>8, <1>10, <1>11 DEF IInv

LEMMA RetiresStep == ASSUME IInv, Retires PROVE IInv'
<1> USE PreparationsAssumption
<1>1. /\ Starting("retire") /\ RetiredTo("loop") /\ chain' = Tail(chain)
      /\ tracked' = IF tracked.owner = Runner THEN Untracked ELSE tracked
      /\ UNCHANGED <<log, outside, stage, live, pool, seqOf>>
  BY DEF Retires, Running, logVars
<1>2. /\ chain # <<>> /\ Tail(chain) \in Seq(Ops) /\ Runner = retiring /\ retiring # None
      /\ stage = "queued" /\ InChain(chain[1]) /\ chain[1] \in Ops /\ chain[1].kind = "retire"
      /\ 1 \in DOMAIN chain
      /\ \A o \in Ops : (\E i \in DOMAIN chain : i # 1 /\ chain[i] = o) => OpHolds(o) /\ o # chain[1]
      /\ chain[1] = [kind |-> "retire", of |-> retiring]
  <2>1. "retire" \in Kinds /\ "retire" \in Single
    BY DEF Kinds, Single
  <2> QED
    BY <1>1, <2>1, RunningFacts, OperationFacts DEF OpHolds
<1>3. /\ retiring' = None /\ call' \in [Callers -> CallStates]
      /\ \A d \in Callers : IF call[d].pc = "retire" THEN call'[d].pc = "loop" ELSE Bystander(d)
  BY <1>1, RetiredFacts
<1>4. tracked' = Untracked /\ live = None /\ live' = None /\ tracked'.owner = None
  BY <1>1, <1>2 DEF IInv, Owned, Untracked
<1>5. TypeOK' /\ log.revision <= log'.revision
  BY <1>1, <1>2, <1>3, <1>4 DEF IInv, TypeOK, Logs, Untracked
<1> DEFINE movers == {d \in Callers : call[d].pc = "retire"}
<1>6. /\ movers \in SUBSET Callers
      /\ \A d \in Callers \ movers : Bystander(d)
      /\ \A x \in movers : call[x].pc = "retire" /\ call'[x].pc = "loop"
  BY <1>3
<1> HIDE DEF movers
<1>7. Reads' /\ Reserved'
  <2>1. \A d \in Callers : ~(call[d].pc = "holding" \/ Committing(d))
    BY <1>2, Nobody
  <2>2. "loop" \notin Reserving \cup Past \cup {"result"}
    BY DEF Reserving, Past, Ended
  <2> QED
    BY <1>1, <1>5, <1>6, <2>1, <2>2, Others
<1>8. ASSUME NEW o \in Ops, \E i \in DOMAIN chain : i # 1 /\ chain[i] = o PROVE OpHolds(o)'
  <2>1. OpHolds(o) /\ o # chain[1]
    BY <1>2, <1>8
  <2>2. o.kind \notin {"retire", "write"}
    BY <1>2, <1>8, <2>1 DEF OpHolds, Ops, IInv, Queue
  <2>3. o.kind \in {"commit", "check"} => o.of \notin movers
    BY <1>6, <2>1 DEF OpHolds
  <2> QED
    BY <1>1, <1>6, <2>1, <2>2, <2>3 DEF OpHolds, Bystander
<1>9. Queue'
  BY <1>1, <1>2, <1>8, QueueTails
<1>10. Owned'
  BY <1>3, <1>4 DEF Owned
<1> QED
  BY <1>5, <1>7, <1>9, <1>10 DEF IInv

LEMMA AppendStartsStep == ASSUME IInv, AppendStarts PROVE IInv'
<1>1. /\ Starting("append") /\ stage = "queued"
      /\ UNCHANGED <<log, outside, tracked, live, retiring, pool, call, seqOf>>
  BY DEF AppendStarts, logVars, ownerVars
<1>2. /\ chain # <<>> /\ Tail(chain) \in Seq(Ops) /\ chain[1].kind = "append"
      /\ \A o \in Ops : (\E i \in DOMAIN chain : i # 1 /\ chain[i] = o) => OpHolds(o)
  <2>1. "append" \in Kinds
    BY DEF Kinds
  <2> QED
    BY <1>1, <2>1, RunningFacts
<1>3. \A o \in Ops : OpHolds(o) => OpHolds(o)'
  BY <1>1 DEF OpHolds
<1> DEFINE movers == {}
<1>4. /\ movers \in SUBSET Callers /\ \A x \in movers : FALSE
      /\ \A d \in Callers \ movers : Bystander(d)
      /\ log.revision <= log'.revision
  BY <1>1 DEF Bystander, IInv, TypeOK, Logs
<1> HIDE DEF movers
<1>5. \A r \in Nat : OthersSince(r) => OthersSince(r)'
  BY <1>1 DEF OthersSince
<1>6. Owned'
  BY <1>1 DEF IInv, Owned
<1>7. CASE AppendEnds
  <2>1. chain' = Tail(chain) /\ stage' = "queued"
    BY <1>7 DEF AppendEnds
  <2>2. TypeOK'
    BY <1>1, <1>2, <2>1 DEF IInv, TypeOK
  <2>3. Reads' /\ Reserved'
    BY <1>1, <1>4, <1>5, <2>1, <2>2, Others
  <2>4. Queue'
    BY <1>2, <1>3, <2>1, QueueTails
  <2> QED
    BY <1>6, <2>2, <2>3, <2>4 DEF IInv
<1>8. CASE Writable /\ (AppendGoes("writing") \/ (AppendGoes("adopting") /\ ~tracked.known))
  <2>1. /\ UNCHANGED chain /\ stage' \in {"writing", "adopting"}
        /\ stage' = "adopting" => ~tracked.known
    BY <1>8 DEF AppendGoes
  <2>2. TypeOK'
    BY <1>1, <2>1 DEF IInv, TypeOK
  <2>3. \A d \in Callers : ~(call[d].pc = "holding" \/ Committing(d))
    BY <1>8, Nobody DEF Writable
  <2>4. Reads' /\ Reserved'
    BY <1>1, <1>4, <2>2, <2>3, Others
  <2>5. \A o \in Ops : InChain(o) => OpHolds(o)'
    BY <1>3 DEF InChain, IInv, Queue
  <2>6. Queue'
    BY <1>1, <1>2, <2>1, <2>5, QueueSame
  <2> QED
    BY <1>6, <2>2, <2>4, <2>6 DEF IInv
<1> QED
  BY <1>7, <1>8 DEF AppendStarts

\* A running append: nothing is committed, and while it adopts, nothing is owned.
LEMMA AppendFacts ==
    ASSUME IInv, Starting("append"), stage # "queued"
    PROVE  /\ chain # <<>> /\ Tail(chain) \in Seq(Ops) /\ chain[1].kind = "append"
           /\ \A o \in Ops : (\E i \in DOMAIN chain : i # 1 /\ chain[i] = o) => OpHolds(o)
           /\ \A d \in Callers : ~(call[d].pc = "holding" \/ Committing(d))
           /\ stage = "adopting" => tracked.owner = None /\ live = None /\ retiring = None
<1>1. /\ chain # <<>> /\ Tail(chain) \in Seq(Ops) /\ chain[1].kind = "append"
      /\ \A o \in Ops : (\E i \in DOMAIN chain : i # 1 /\ chain[i] = o) => OpHolds(o)
  <2>1. "append" \in Kinds
    BY DEF Kinds
  <2> QED
    BY <2>1, RunningFacts
<1>2. \A d \in Callers : ~(call[d].pc = "holding" \/ Committing(d))
  BY Nobody
<1>3. stage = "adopting" => tracked.owner = None /\ live = None /\ retiring = None
  BY DEF IInv, Queue, Owned
<1> QED
  BY <1>1, <1>2, <1>3

LEMMA AdoptsStep == ASSUME IInv, Adopts PROVE IInv'
<1> USE PreparationsAssumption
<1> DEFINE ready == pool.phase = "ready"
           source == IF ready THEN pool.source ELSE log
<1>1. /\ Starting("append") /\ stage = "adopting"
      /\ UNCHANGED <<outside, live, retiring, call, seqOf>>
      /\ pool' = IF ready THEN NoEntry ELSE pool
  BY DEF Adopts, Running
<1>2. /\ chain # <<>> /\ Tail(chain) \in Seq(Ops) /\ chain[1].kind = "append"
      /\ \A o \in Ops : (\E i \in DOMAIN chain : i # 1 /\ chain[i] = o) => OpHolds(o)
      /\ \A d \in Callers : ~(call[d].pc = "holding" \/ Committing(d))
      /\ tracked.owner = None /\ live = None /\ retiring = None /\ ~tracked.known
  BY <1>1, AppendFacts DEF IInv, Queue
<1>3. source \in Logs /\ log \in Logs /\ log.revision \in Nat /\ source.revision \in Nat
  BY DEF IInv, TypeOK, Reads, Logs
<1>4. \/ AppendGoes("adopting") /\ UNCHANGED <<log, tracked>>
      \/ AppendGoes("adopting") /\ log' = Repaired /\ UNCHANGED tracked
      \/ AppendEnds \/ AppendGoes("writing")
  BY DEF Adopts
<1>5. \/ UNCHANGED <<log, tracked>>
      \/ log' = Repaired /\ UNCHANGED tracked
      \/ tracked' = Tracking(source) /\ UNCHANGED log
  BY DEF Adopts
<1> HIDE DEF source, ready
<1>6. log' \in Logs /\ log.revision <= log'.revision
  <2>1. Repaired \in Logs /\ log.revision <= Repaired.revision /\ log.revision <= log.revision
    BY <1>3 DEF Repaired, Logs
  <2> QED
    BY <1>3, <1>5, <2>1
<1>7. /\ tracked' \in [known : BOOLEAN, cursor : Nat, owner : Callers \cup {None}]
      /\ tracked'.owner = None
  <2>1. /\ Tracking(source) \in [known : BOOLEAN, cursor : Nat, owner : Callers \cup {None}]
        /\ Tracking(source).owner = None
    BY <1>3 DEF Tracking
  <2> QED
    BY <1>2, <1>5, <2>1 DEF IInv, TypeOK
<1>8. pool' = pool \/ (pool' = NoEntry /\ pool.phase = "ready")
  BY <1>1 DEF ready
<1>9. /\ stage' \in {"queued", "adopting", "writing"}
      /\ \/ chain' = Tail(chain) /\ stage' = "queued"
         \/ chain' = chain /\ (stage' = "adopting" => UNCHANGED tracked)
  BY <1>4 DEF AppendEnds, AppendGoes
<1>10. TypeOK'
  BY <1>1, <1>2, <1>6, <1>7, <1>8, <1>9 DEF IInv, TypeOK, NoEntry, Phases
<1> DEFINE movers == {}
<1>11. /\ movers \in SUBSET Callers /\ \A x \in movers : FALSE
       /\ \A d \in Callers \ movers : Bystander(d)
  BY <1>1 DEF Bystander
<1> HIDE DEF movers
<1>12. Reads' /\ Reserved'
  <2>1. \/ pool' = pool
        \/ pool' = NoEntry /\ \A d \in Callers \ movers : call[d].pc \in Reserving => ~IsPooled(d)
    BY <1>8, OnlyOne
  <2> QED
    BY <1>2, <1>6, <1>10, <1>11, <2>1, Others
<1>13. \A o \in Ops : OpHolds(o) => OpHolds(o)'
  BY <1>1, <1>8 DEF OpHolds, NoEntry
<1>14. Queue'
  <2>1. CASE chain' = Tail(chain) /\ stage' = "queued"
    BY <1>2, <1>13, <2>1, QueueTails
  <2>2. CASE chain' = chain /\ (stage' = "adopting" => UNCHANGED tracked)
    <3>1. \A o \in Ops : InChain(o) => OpHolds(o)'
      BY <1>13 DEF InChain, IInv, Queue
    <3> QED
      BY <1>2, <2>2, <3>1, QueueSame
  <2> QED
    BY <1>9, <2>1, <2>2
<1>15. Owned'
  BY <1>1, <1>2, <1>7 DEF Owned
<1> QED
  BY <1>10, <1>12, <1>14, <1>15 DEF IInv

LEMMA WritesStep == ASSUME IInv, Writes PROVE IInv'
<1> USE PreparationsAssumption
<1>1. /\ UNCHANGED <<outside, live, retiring, seqOf>> /\ pool' = NoEntry /\ call' = Settled(call)
      /\ chain' = Tail(chain) /\ stage' = "queued"
      /\ tracked' = [tracked EXCEPT !.cursor = @ + 1]
      /\ \E ends \in BOOLEAN : log' = [revision |-> log.revision + 1, open |-> ends]
  BY DEF Writes, AppendEnds, Lengthens
<1>2. Starting("write") \/ (Starting("append") /\ stage = "writing")
  BY DEF Writes, Running
<1>3. /\ chain # <<>> /\ Tail(chain) \in Seq(Ops)
      /\ \A o \in Ops : (\E i \in DOMAIN chain : i # 1 /\ chain[i] = o) => OpHolds(o)
      /\ \A d \in Callers : ~(call[d].pc = "holding" \/ Committing(d))
  <2>1. CASE Starting("write")
    <3>1. "write" \in Kinds
      BY DEF Kinds
    <3>2. /\ chain # <<>> /\ Tail(chain) \in Seq(Ops) /\ InChain(chain[1]) /\ chain[1].kind = "write"
          /\ chain[1] \in Ops
          /\ \A o \in Ops : (\E i \in DOMAIN chain : i # 1 /\ chain[i] = o) => OpHolds(o)
      BY <2>1, <3>1, RunningFacts
    <3> QED
      BY <3>2, Nobody
  <2>2. CASE Starting("append") /\ stage = "writing"
    BY <2>2, AppendFacts
  <2> QED
    BY <1>2, <2>1, <2>2
<1>4. /\ call' \in [Callers -> CallStates]
      /\ \A d \in Callers : Bystander(d)
  <2>1. /\ call' \in [Callers -> CallStates]
        /\ \A d \in Callers :
              \/ call'[d] = call[d]
              \/ call[d].pc = "settle" /\ call'[d] = [call[d] EXCEPT !.pc = "read"]
    BY <1>1, SettledFacts DEF IInv
  <2>2. \A d \in Callers : call[d] \in CallStates
    BY DEF IInv, TypeOK
  <2> QED
    BY <2>1, <2>2 DEF Bystander, CallStates
<1>5. /\ log \in Logs /\ log.revision \in Nat
      /\ log' \in Logs /\ log'.revision = log.revision + 1
  BY <1>1 DEF IInv, TypeOK, Logs
<1>6. log.revision < log'.revision /\ log.revision <= log'.revision
  BY <1>5
<1>7. /\ tracked' \in [known : BOOLEAN, cursor : Nat, owner : Callers \cup {None}]
      /\ tracked'.owner = tracked.owner /\ tracked'.known = tracked.known
  BY <1>1 DEF IInv, TypeOK
<1>8. TypeOK'
  BY <1>1, <1>3, <1>4, <1>5, <1>7 DEF IInv, TypeOK, NoEntry, Phases
<1> DEFINE movers == {}
<1>9. /\ movers \in SUBSET Callers /\ \A x \in movers : FALSE
      /\ \A d \in Callers \ movers : Bystander(d)
      /\ \A d \in Callers \ movers : ~(call[d].pc = "holding" \/ Committing(d))
  BY <1>3, <1>4
<1> HIDE DEF movers
<1>10. Reads' /\ Reserved'
  <2>1. pool' = NoEntry /\ pool'.entry = None /\ pool'.phase = "none"
    BY <1>1 DEF NoEntry
  <2> QED
    BY <1>6, <1>8, <1>9, <2>1, Frame
<1>11. \A o \in Ops : OpHolds(o) => OpHolds(o)'
  BY <1>1, <1>4 DEF OpHolds, NoEntry, Bystander
<1>12. Queue'
  BY <1>1, <1>3, <1>11, QueueTails
<1>13. Owned'
  BY <1>1, <1>4, <1>7 DEF IInv, TypeOK, Owned, Bystander
<1> QED
  BY <1>8, <1>10, <1>12, <1>13 DEF IInv

LEMMA AppendFailsStep == ASSUME IInv, AppendFails PROVE IInv'
<1>1. /\ Starting("append") /\ stage # "queued" /\ chain' = Tail(chain) /\ stage' = "queued"
      /\ UNCHANGED <<log, outside, tracked, live, retiring, pool, call, seqOf>>
  BY DEF AppendFails, AppendEnds, Running, logVars, ownerVars
<1>2. /\ chain # <<>> /\ Tail(chain) \in Seq(Ops)
      /\ \A o \in Ops : (\E i \in DOMAIN chain : i # 1 /\ chain[i] = o) => OpHolds(o)
      /\ \A d \in Callers : ~(call[d].pc = "holding" \/ Committing(d))
  BY <1>1, AppendFacts
<1>3. TypeOK' /\ log.revision <= log'.revision
  BY <1>1, <1>2 DEF IInv, TypeOK, Logs
<1> DEFINE movers == {}
<1>4. /\ movers \in SUBSET Callers /\ \A x \in movers : FALSE
      /\ \A d \in Callers \ movers : Bystander(d)
  BY <1>1 DEF Bystander
<1> HIDE DEF movers
<1>5. Reads' /\ Reserved'
  BY <1>1, <1>2, <1>3, <1>4, Others
<1>6. \A o \in Ops : OpHolds(o) => OpHolds(o)'
  BY <1>1 DEF OpHolds
<1>7. Queue'
  BY <1>1, <1>2, <1>6, QueueTails
<1>8. Owned'
  BY <1>1 DEF IInv, Owned
<1> QED
  BY <1>3, <1>5, <1>7, <1>8 DEF IInv

LEMMA StutterStep == ASSUME IInv, UNCHANGED vars PROVE IInv'
<1>1. UNCHANGED <<log, outside, chain, stage, tracked, live, retiring, pool, call, seqOf>>
  BY DEF vars, logVars, ownerVars
<1>2. TypeOK'
  BY <1>1 DEF IInv, TypeOK
<1> DEFINE movers == {}
<1>3. /\ movers \in SUBSET Callers /\ \A x \in movers : FALSE
      /\ \A d \in Callers \ movers : Bystander(d)
      /\ log.revision <= log'.revision
  BY <1>1 DEF Bystander, IInv, TypeOK, Logs
<1> HIDE DEF movers
<1>4. Reads' /\ Reserved'
  <2>1. \A r \in Nat : OthersSince(r) => OthersSince(r)'
    BY <1>1 DEF OthersSince
  <2> QED
    BY <1>1, <1>2, <1>3, <2>1, Others
<1>5. ASSUME NEW o \in Ops, InChain(o) PROVE OpHolds(o)'
  <2>1. OpHolds(o)
    BY <1>5 DEF InChain, IInv, Queue
  <2> QED
    BY <1>1, <2>1 DEF OpHolds
<1>6. Queue'
  BY <1>1, <1>5, QueueSame DEF IInv, Queue
<1>7. Owned'
  BY <1>1 DEF IInv, Owned
<1> QED
  BY <1>2, <1>4, <1>6, <1>7 DEF IInv

LEMMA Initially == Init => IInv
<1> SUFFICES ASSUME Init PROVE IInv
  OBVIOUS
<1> USE PreparationsAssumption
<1>1. /\ log \in Logs /\ outside = {} /\ chain = <<>> /\ stage = "queued" /\ tracked = Untracked
      /\ live = None /\ retiring = None /\ pool = NoEntry
      /\ call = [c \in Callers |-> Idle] /\ seqOf = [a \in Appenders |-> 0]
  BY DEF Init, Logs
<1>2. Idle \in CallStates /\ Idle.pc = "idle" /\ Idle.pc \notin Past \cup Reserving \cup {"result"}
  BY DEF Idle, CallStates, Steps, Past, Reserving
<1>3. \A c \in Callers : call[c] = Idle
  BY <1>1
<1>4. TypeOK
  BY <1>1, <1>2 DEF TypeOK, Untracked, NoEntry, Phases
<1>5. Reads /\ Reserved
  BY <1>1, <1>2, <1>3 DEF Reads, Reserved, Committing, NoEntry
<1>6. Queue /\ Owned
  BY <1>1 DEF Queue, Owned, Untracked
<1> QED
  BY <1>4, <1>5, <1>6 DEF IInv

LEMMA Inductive == IInv /\ [Next]_vars => IInv'
<1> SUFFICES ASSUME IInv, [Next]_vars PROVE IInv'
  OBVIOUS
<1>1. CASE ChainStep
  BY <1>1, LoadReadsStep, LoadFailsStep, CommitsStep, ChecksStep, RetiresStep, AppendStartsStep,
     AdoptsStep, WritesStep, AppendFailsStep DEF ChainStep
<1>2. CASE Retirement
  BY <1>2, QueueRetireStep, RetireFailsStep DEF Retirement
<1>3. ASSUME NEW c \in Callers, Call(c) \/ Resumes(c) \/ Holds(c) PROVE IInv'
  BY <1>3, CallStep, LoopStep, LoadsLiveStep, ReserveStep, CommittedStep, QueueCheckStep,
     CheckedStep, PublishStep, ReleaseStep DEF Resumes, Holds
<1>4. ASSUME NEW c \in Abortable, Abort(c) PROVE IInv'
  BY <1>4, AbortStep DEF Abortable, Callers
<1>5. ASSUME NEW a \in Appenders, QueueAppend(a) PROVE IInv'
  BY <1>5, QueueAppendStep
<1>6. CASE LiveWrite \/ Dispose \/ Evict \/ WritesOutside
  BY <1>6, LiveWriteStep, DisposeStep, EvictStep, WritesOutsideStep
<1>7. CASE Done \/ UNCHANGED vars
  BY <1>7, StutterStep DEF Done
<1> QED
  BY <1>1, <1>2, <1>3, <1>4, <1>5, <1>6, <1>7 DEF Next

LEMMA Invariance == Spec => []IInv
BY Initially, Inductive, PTL DEF Spec

\* Every variable keeps its type: the log, the chain, the state tracked for the id, the
\* pool's entry and the calls.
THEOREM TypeCorrect == Spec => []TypeOK
<1>1. IInv => TypeOK
  BY DEF IInv
<1> QED
  BY <1>1, Invariance, PTL

LEMMA OwnerHolds == ASSUME IInv PROVE OneOwner
<1> USE PreparationsAssumption
<1> DEFINE held == {c \in Callers : call[c].pc = "holding"}
           names == held \cup ({live, retiring, tracked.owner} \ {None})
<1>1. \A c \in held : /\ Kept(c) /\ pool.phase = "reserved"
                      /\ live = None /\ retiring = None /\ tracked.owner = None
  <2> TAKE c \in held
  <2>1. c \in Callers /\ call[c].pc = "holding"
    OBVIOUS
  <2>2. Kept(c) /\ live = None /\ retiring = None /\ tracked.owner = None
    BY <2>1, Nobody
  <2>3. pool.phase = "reserved"
    BY <2>1, <2>2 DEF Kept, IInv, Reserved, Reserving
  <2> QED
    BY <2>2, <2>3
<1>2. \A c, d \in held : c = d
  BY <1>1 DEF Kept, IInv, Reserved, Reserving
<1>3. \E x : names \subseteq {x}
  <2>1. CASE held = {}
    <3>1. names \subseteq {tracked.owner}
      BY <2>1 DEF IInv, Owned
    <3> QED
      BY <3>1
  <2>2. CASE held # {}
    <3>1. PICK c : c \in held
      BY <2>2
    <3>2. names \subseteq {c}
      BY <1>1, <1>2, <3>1
    <3> QED
      BY <3>2
  <2> QED
    BY <2>1, <2>2
<1>4. Cardinality(names) <= 1
  <2>1. PICK x : names \subseteq {x}
    BY <1>3
  <2> HIDE DEF names
  <2>2. IsFiniteSet({x}) /\ Cardinality({x}) = 1
    BY FS_Singleton
  <2>3. Cardinality(names) <= Cardinality({x})
    BY <2>1, <2>2, FS_Subset
  <2> QED
    BY <2>2, <2>3
<1>5. \A c \in Callers : call[c].pc = "holding" =>
         /\ IsPooled(c) /\ pool.phase = "reserved"
         /\ tracked.known /\ Matches(c)
         /\ ~call[c].seen.open
         /\ OthersSince(call[c].seen.revision)
  BY <1>1 DEF Kept
<1> QED
  BY <1>4, <1>5 DEF OneOwner

\* At most one session of an identity is held, live, draining or left owning the state,
\* for any number of calls, abort signals, appends, evictions and writers outside: what
\* reserve, publish, dispose and retireCore hand on is handed to one session only, and a
\* held one is never refused by attachPrepared.
THEOREM OwnerCorrect == Spec => []OneOwner
<1>1. IInv => OneOwner
  BY OwnerHolds
<1> QED
  BY <1>1, Invariance, PTL

-----------------------------------------------------------------------------
(* What the answers rest on.                                               *)

\* The revisions from before a call that what it read does not hold.
Gap(c) == (call[c].seen.revision + 1)..call[c].since

\* Of a call: what shares the pool's entry holds the pool's source, what was found
\* current is, and what was found changed lacks only what others wrote.
Informed(c) ==
    /\ call[c].since <= log.revision
    /\ call[c].pc \in Past /\ IsPooled(c) => call[c].seen = pool.source /\ pool.phase # "loading"
    /\ Committing(c) \/ (call[c].pc = "checked" /\ call[c].outcome = "current") =>
          call[c].since <= call[c].seen.revision
    /\ call[c].pc = "checked" /\ call[c].outcome # "current" /\ IsPooled(c) => Gap(c) \subseteq outside
    /\ call[c].missing # {} => call[c].pc = "borrowed" /\ call[c].missing \subseteq outside

\* The call whose reservation may have been overtaken by a repair.
Doubtful(d) ==
    /\ call[d].pc = "commit" \/ (call[d].pc = "committed" /\ call[d].outcome # "committed")
    /\ IsPooled(d)

\* Of the pool: somebody holds what is not ready, and its source lacks only what others
\* wrote, or a commit that is under way will find out.
Fresh ==
    /\ pool.phase \in {"committing", "reserved"} =>
          \E d \in Callers : call[d].pc \in Reserving /\ IsPooled(d)
    /\ pool.phase \in {"ready", "committing", "reserved"} =>
          OthersSince(pool.source.revision) \/ \E d \in Callers : Doubtful(d)

\* Of the chain: a commit waits in it, and a check that runs before it began while the
\* source was fresh.
Ahead(x, y) == \E i, j \in DOMAIN chain : i < j /\ chain[i] = x /\ chain[j] = y

Ordered ==
    /\ \A d \in Callers : call[d].pc = "commit" => InChain(Op("commit", d))
    /\ \A c, d \in Callers :
          Ahead(Op("check", c), Op("commit", d)) /\ IsPooled(c) /\ IsPooled(d) => Gap(c) \subseteq outside

TInv == (\A c \in Callers : Informed(c)) /\ Fresh /\ Ordered

\* What a step does to those it is not about: the pool's entry stays what it was, or is
\* none they work on; the chain keeps its commits, and none gets behind a check.
PoolKeeps(movers) ==
    \/ /\ pool'.entry = pool.entry /\ pool'.source = pool.source
       /\ pool'.phase = "loading" => pool.phase = "loading"
    \/ \A d \in Callers \ movers : call[d].pc \in Past => call[d].on # pool'.entry

ChainKeeps(movers) ==
    /\ \A d \in Callers \ movers : InChain(Op("commit", d)) => InChain(Op("commit", d))'
    /\ \A c, d \in Callers : Ahead(Op("check", c), Op("commit", d))' =>
                                 Ahead(Op("check", c), Op("commit", d))

\* The commits of the chain and what runs before them, when an operation is queued,
\* when the first is done, and when a call takes its own out.
LEMMA AheadAppends ==
    ASSUME chain \in Seq(Ops), NEW op \in Ops, chain' = Append(chain, op)
    PROVE  /\ \A o : InChain(o) => InChain(o)'
           /\ InChain(op)'
           /\ \A x, y : Ahead(x, y)' => Ahead(x, y) \/ (y = op /\ InChain(x))
<1>1. /\ DOMAIN chain = 1..Len(chain) /\ DOMAIN chain' = 1..(Len(chain) + 1) /\ Len(chain) \in Nat
      /\ \A i \in DOMAIN chain : chain'[i] = chain[i]
      /\ chain'[Len(chain) + 1] = op
  BY AppendProperties
<1>2. \A i \in DOMAIN chain : i \in DOMAIN chain'
  BY <1>1
<1>3. /\ \A o : InChain(o) => InChain(o)'
      /\ InChain(op)'
  BY <1>1, <1>2 DEF InChain
<1>4. \A i, j \in DOMAIN chain' : i < j => i \in DOMAIN chain /\ (j \in DOMAIN chain \/ j = Len(chain) + 1)
  BY <1>1
<1>5. \A x, y : Ahead(x, y)' => Ahead(x, y) \/ (y = op /\ InChain(x))
  BY <1>1, <1>4 DEF Ahead, InChain
<1> QED
  BY <1>3, <1>5

LEMMA AheadTails ==
    ASSUME chain \in Seq(Ops), chain # <<>>, chain' = Tail(chain)
    PROVE  /\ \A o : InChain(o) /\ o # chain[1] => InChain(o)'
           /\ \A x, y : Ahead(x, y)' => Ahead(x, y)
<1>1. /\ DOMAIN chain = 1..Len(chain) /\ DOMAIN chain' = 1..(Len(chain) - 1) /\ Len(chain) \in Nat
      /\ \A i \in DOMAIN chain' : chain'[i] = chain[i + 1]
  OBVIOUS
<1>2. \A i \in DOMAIN chain' : i + 1 \in DOMAIN chain
  BY <1>1
<1>3. \A i \in DOMAIN chain : i = 1 \/ (i - 1 \in DOMAIN chain' /\ (i - 1) + 1 = i)
  BY <1>1
<1>4. \A i, j \in DOMAIN chain' : i < j => i + 1 < j + 1
  BY <1>1
<1>5. \A o : InChain(o) /\ o # chain[1] => InChain(o)'
  BY <1>1, <1>3 DEF InChain
<1>6. \A x, y : Ahead(x, y)' => Ahead(x, y)
  BY <1>1, <1>2, <1>4 DEF Ahead
<1> QED
  BY <1>5, <1>6

LEMMA AheadDrops ==
    ASSUME chain \in Seq(Ops), NEW c, Drops(c)
    PROVE  /\ \A o : InChain(o) /\ o.of # c => InChain(o)'
           /\ \A x, y : Ahead(x, y)' => Ahead(x, y)
<1>1. CASE UNCHANGED chain
  BY <1>1 DEF InChain, Ahead
<1>2. ASSUME NEW k \in DOMAIN chain, chain[k].of = c, chain' = RemoveAt(chain, k)
      PROVE  /\ \A o : InChain(o) /\ o.of # c => InChain(o)'
             /\ \A x, y : Ahead(x, y)' => Ahead(x, y)
  <2> DEFINE from(i) == IF i < k THEN i ELSE i + 1
             to(i) == IF i < k THEN i ELSE i - 1
  <2>1. /\ DOMAIN chain = 1..Len(chain) /\ Len(chain) \in Nat /\ k \in 1..Len(chain)
        /\ DOMAIN chain' = 1..(Len(chain) - 1)
        /\ \A i \in DOMAIN chain' : chain'[i] = chain[from(i)]
    <3>1. /\ DOMAIN chain = 1..Len(chain) /\ Len(chain) \in Nat /\ k \in 1..Len(chain)
      OBVIOUS
    <3>2. /\ DOMAIN chain' = 1..(Len(chain) - 1)
          /\ \A i \in 1..(Len(chain) - 1) : chain'[i] = IF i < k THEN chain[i] ELSE chain[i + 1]
      BY <1>2, RemoveAtElements
    <3> QED
      BY <3>1, <3>2
  <2>2. /\ \A i \in DOMAIN chain' : from(i) \in DOMAIN chain
        /\ \A i, j \in DOMAIN chain' : i < j => from(i) < from(j)
        /\ \A i \in DOMAIN chain : i # k => to(i) \in DOMAIN chain' /\ from(to(i)) = i
    BY <2>1
  <2> HIDE DEF from, to
  <2>3. \A o : InChain(o) /\ o.of # c => InChain(o)'
    <3> SUFFICES ASSUME NEW o, InChain(o), o.of # c PROVE InChain(o)'
      OBVIOUS
    <3>1. PICK i \in DOMAIN chain : chain[i] = o
      BY DEF InChain
    <3>2. to(i) \in DOMAIN chain' /\ chain'[to(i)] = o
      BY <1>2, <2>1, <2>2, <3>1
    <3> QED
      BY <3>2 DEF InChain
  <2>4. \A x, y : Ahead(x, y)' => Ahead(x, y)
    BY <2>1, <2>2 DEF Ahead
  <2> QED
    BY <2>3, <2>4
<1> QED
  BY <1>1, <1>2 DEF Drops

\* What a step leaves of all this, when the calls in movers go on.
LEMMA InformedFrame ==
    ASSUME IInv, \A c \in Callers : Informed(c), IInv',
           log.revision <= log'.revision, outside \subseteq outside',
           NEW movers \in SUBSET Callers, \A d \in Callers \ movers : Bystander(d),
           PoolKeeps(movers), \A c \in movers : Informed(c)'
    PROVE  \A c \in Callers : Informed(c)'
<1> USE PreparationsAssumption
<1> SUFFICES ASSUME NEW d \in Callers, d \notin movers PROVE Informed(d)'
  OBVIOUS
<1>1. /\ call[d].since \in Nat /\ log.revision \in Nat /\ log'.revision \in Nat
  BY DEF IInv, TypeOK, CallStates, Logs
<1>2. /\ call'[d].on = call[d].on /\ call'[d].seen = call[d].seen /\ call'[d].since = call[d].since
      /\ call'[d].outcome = call[d].outcome /\ call'[d].missing = call[d].missing
      /\ call'[d].pc = call[d].pc \/ (call[d].pc = "settle" /\ call'[d].pc = "read")
  BY DEF Bystander
<1>3. /\ call'[d].pc \in Past => call[d].pc \in Past
      /\ call'[d].pc \in Past /\ IsPooled(d)' =>
            /\ IsPooled(d) /\ pool'.source = pool.source
            /\ pool'.phase = "loading" => pool.phase = "loading"
  BY <1>2 DEF PoolKeeps, IsPooled, Past
<1>4. call'[d].since <= log'.revision
  BY <1>1, <1>2 DEF Informed
<1>5. call'[d].pc \in Past /\ IsPooled(d)' => call'[d].seen = pool'.source /\ pool'.phase # "loading"
  BY <1>2, <1>3 DEF Informed
<1>6. Committing(d)' \/ (call'[d].pc = "checked" /\ call'[d].outcome = "current") =>
          call'[d].since <= call'[d].seen.revision
  BY <1>2 DEF Informed, Committing
<1>7. call'[d].pc = "checked" /\ call'[d].outcome # "current" /\ IsPooled(d)' => Gap(d)' \subseteq outside'
  BY <1>2, <1>3 DEF Informed, Gap, Past
<1>8. call'[d].missing # {} => call'[d].pc = "borrowed" /\ call'[d].missing \subseteq outside'
  BY <1>2 DEF Informed
<1> QED
  BY <1>4, <1>5, <1>6, <1>7, <1>8 DEF Informed

LEMMA OrderedFrame ==
    ASSUME IInv, Ordered, IInv', outside \subseteq outside',
           NEW movers \in SUBSET Callers, \A d \in Callers \ movers : Bystander(d),
           PoolKeeps(movers), ChainKeeps(movers),
           \A c \in movers : call'[c].pc # "commit" /\ ~(call[c].pc = "check" /\ call'[c].pc = "check")
    PROVE  Ordered'
<1>1. ASSUME NEW d \in Callers, call'[d].pc = "commit" PROVE InChain(Op("commit", d))'
  BY <1>1 DEF Ordered, ChainKeeps, Bystander
<1>2. ASSUME NEW c \in Callers, NEW d \in Callers, Ahead(Op("check", c), Op("commit", d))',
             IsPooled(c)', IsPooled(d)'
      PROVE  Gap(c)' \subseteq outside'
  <2>1. Ahead(Op("check", c), Op("commit", d))
    BY <1>2 DEF ChainKeeps
  <2>2. \A i \in DOMAIN chain : OpHolds(chain[i])
    BY DEF IInv, Queue
  <2>3. call[c].pc = "check" /\ call[d].pc = "commit"
    BY <2>1, <2>2 DEF Ahead, OpHolds, Op
  <2>4. call'[c].pc = "check" /\ call'[d].pc = "commit"
    <3>1. \A i \in DOMAIN chain' : OpHolds(chain[i])'
      BY DEF IInv, Queue
    <3>2. \A i \in DOMAIN chain' :
             chain'[i].kind \in {"commit", "check"} => call'[chain'[i].of].pc = chain'[i].kind
      BY <3>1 DEF OpHolds
    <3> QED
      BY <1>2, <3>2 DEF Ahead, Op
  <2>5. c \notin movers /\ d \notin movers
    BY <2>3, <2>4
  <2>6. IsPooled(c) /\ IsPooled(d)
    BY <1>2, <2>3, <2>5 DEF PoolKeeps, IsPooled, Bystander, Past
  <2>7. Gap(c) \subseteq outside
    BY <2>1, <2>6 DEF Ordered
  <2> QED
    BY <2>5, <2>7 DEF Gap, Bystander
<1> QED
  BY <1>1, <1>2 DEF Ordered

LEMMA Tells ==
    ASSUME IInv, TInv, IInv', log.revision <= log'.revision, outside \subseteq outside',
           NEW movers \in SUBSET Callers, \A d \in Callers \ movers : Bystander(d),
           PoolKeeps(movers), ChainKeeps(movers),
           \A c \in movers :
              /\ Informed(c)'
              /\ call'[c].pc # "commit" /\ ~(call[c].pc = "check" /\ call'[c].pc = "check"),
           Fresh'
    PROVE  TInv'
<1>1. \A c \in Callers : Informed(c)'
  BY InformedFrame DEF TInv
<1>2. Ordered'
  BY OrderedFrame DEF TInv
<1> QED
  BY <1>1, <1>2 DEF TInv

\* The pool is left alone, by calls that hold nothing of it.
LEMMA FreshFrame ==
    ASSUME IInv, Fresh,
           NEW movers \in SUBSET Callers, \A d \in Callers \ movers : Bystander(d),
           \/ pool' = NoEntry
           \/ /\ pool' = pool
              /\ \A c \in movers : ~(call[c].pc \in Reserving /\ IsPooled(c))
              /\ \A q \in Nat : OthersSince(q) => OthersSince(q)'
    PROVE  Fresh'
<1>1. CASE pool' = NoEntry
  BY <1>1 DEF Fresh, NoEntry
<1>2. CASE /\ pool' = pool
           /\ \A c \in movers : ~(call[c].pc \in Reserving /\ IsPooled(c))
           /\ \A q \in Nat : OthersSince(q) => OthersSince(q)'
  <2>1. ASSUME NEW d \in Callers, call[d].pc \in Reserving, IsPooled(d)
        PROVE  /\ call'[d].pc = call[d].pc /\ IsPooled(d)' /\ (Doubtful(d) => Doubtful(d)')
    BY <1>2, <2>1 DEF Bystander, IsPooled, Doubtful, Reserving
  <2>2. \A d \in Callers : Doubtful(d) => Doubtful(d)'
    BY <2>1 DEF Doubtful, Reserving
  <2>3. pool.phase \in {"ready", "committing", "reserved"} =>
           (OthersSince(pool.source.revision) => (OthersSince(pool.source.revision))')
    <3> SUFFICES ASSUME pool.phase \in {"ready", "committing", "reserved"}, OthersSince(pool.source.revision)
                 PROVE  (OthersSince(pool.source.revision))'
      OBVIOUS
    <3>1. pool.source.revision \in Nat
      BY DEF IInv, Reads, Logs
    <3> DEFINE q == pool.source.revision
    <3>2. OthersSince(q)' => (OthersSince(pool.source.revision))'
      BY <1>2
    <3> QED
      BY <1>2, <3>1 DEF OthersSince
  <2> QED
    BY <1>2, <2>1, <2>2, <2>3 DEF Fresh
<1> QED
  BY <1>1, <1>2

\* A step that is about no call: the chain loses its first operation or gets a new last
\* one, neither of them a commit, and the pool its entry, if anything.
LEMMA TellsStill ==
    ASSUME IInv, TInv, IInv', \A d \in Callers : Bystander(d),
           log.revision <= log'.revision, outside \subseteq outside',
           \/ pool' = NoEntry
           \/ pool' = pool /\ \A q \in Nat : OthersSince(q) => OthersSince(q)'
           \/ pool' = pool /\ Fresh',
           \/ UNCHANGED chain
           \/ chain # <<>> /\ chain' = Tail(chain) /\ chain[1].kind # "commit"
           \/ \E op \in Ops : op.kind # "commit" /\ chain' = Append(chain, op)
    PROVE  TInv'
<1> DEFINE movers == {}
<1>1. /\ movers \in SUBSET Callers /\ \A c \in movers : FALSE
      /\ \A d \in Callers \ movers : Bystander(d)
  OBVIOUS
<1> HIDE DEF movers
<1>2. PoolKeeps(movers)
  BY PreparationsAssumption DEF PoolKeeps, NoEntry, IInv, Reads
<1>3. Fresh'
  BY <1>1, FreshFrame DEF TInv
<1>4. /\ \A d \in Callers : InChain(Op("commit", d)) => InChain(Op("commit", d))'
      /\ \A c, d \in Callers : Ahead(Op("check", c), Op("commit", d))' =>
                                   Ahead(Op("check", c), Op("commit", d))
  <2>0. chain \in Seq(Ops)
    BY DEF IInv, TypeOK
  <2>1. CASE UNCHANGED chain
    BY <2>1 DEF InChain, Ahead
  <2>2. CASE chain # <<>> /\ chain' = Tail(chain) /\ chain[1].kind # "commit"
    BY <2>0, <2>2, AheadTails DEF Op
  <2>3. CASE \E op \in Ops : op.kind # "commit" /\ chain' = Append(chain, op)
    BY <2>0, <2>3, AheadAppends DEF Op
  <2> QED
    BY <2>1, <2>2, <2>3
<1>5. ChainKeeps(movers)
  BY <1>4 DEF ChainKeeps
<1> QED
  BY <1>1, <1>2, <1>3, <1>5, Tells

\* A call goes where it reserves and checks nothing.
LEMMA TellsGoes ==
    ASSUME IInv, TInv, IInv', NEW c \in Callers, Moves(c), Informed(c)',
           call'[c].pc \notin {"commit", "check"},
           UNCHANGED <<log, outside>>, PoolKeeps({c}), Fresh',
           \/ UNCHANGED chain /\ call[c].pc # "commit"
           \/ Drops(c)
    PROVE  TInv'
<1> DEFINE movers == {c}
<1>1. /\ movers \in SUBSET Callers
      /\ \A d \in Callers \ movers : Bystander(d)
      /\ \A d \in movers : /\ Informed(d)'
                           /\ call'[d].pc # "commit" /\ ~(call[d].pc = "check" /\ call'[d].pc = "check")
      /\ \A d \in Callers \ movers : d # c
      /\ PoolKeeps(movers)
  BY DEF Moves
<1> HIDE DEF movers
<1>2. /\ log.revision <= log'.revision /\ chain \in Seq(Ops)
  BY DEF IInv, TypeOK, Logs
<1>3. ChainKeeps(movers)
  <2>1. CASE UNCHANGED chain
    BY <2>1 DEF ChainKeeps, InChain, Ahead
  <2>2. CASE Drops(c)
    BY <1>1, <1>2, <2>2, AheadDrops DEF ChainKeeps, Op
  <2> QED
    BY <2>1, <2>2
<1> QED
  BY <1>1, <1>2, <1>3, Tells

LEMMA StillSteps ==
    ASSUME IInv, TInv, IInv',
           Evict \/ LiveWrite \/ QueueRetire \/ Dispose \/ WritesOutside \/ AppendStarts \/ AppendFails
           \/ (\E a \in Appenders : QueueAppend(a)) \/ UNCHANGED vars
    PROVE  TInv'
<1>1. chain \in Seq(Ops) /\ log.revision \in Nat
  BY DEF IInv, TypeOK, Logs
<1>2. CASE UNCHANGED <<log, outside>> /\ UNCHANGED call /\ (pool' = pool \/ pool' = NoEntry)
  <2>1. \A q \in Nat : OthersSince(q) => OthersSince(q)'
    BY <1>2 DEF OthersSince
  <2>2. \/ UNCHANGED chain
        \/ chain # <<>> /\ chain' = Tail(chain) /\ chain[1].kind # "commit"
        \/ \E op \in Ops : op.kind # "commit" /\ chain' = Append(chain, op)
    <3>1. CASE AppendStarts \/ AppendFails
      <4>1. chain # <<>> /\ chain[1].kind = "append" /\ (UNCHANGED chain \/ chain' = Tail(chain))
        BY <1>1, <3>1, OperationFacts
           DEF AppendStarts, AppendFails, Starting, Running, AppendEnds, AppendGoes
      <4> QED
        BY <4>1
    <3>2. CASE Evict \/ Dispose \/ WritesOutside \/ UNCHANGED vars
      BY <3>2 DEF Evict, Dispose, WritesOutside, vars
    <3>3. CASE LiveWrite \/ QueueRetire \/ (\E a \in Appenders : QueueAppend(a))
      BY <3>3 DEF LiveWrite, QueueRetire, QueueAppend, Op, Ops, Kinds, IInv, TypeOK
    <3> QED
      BY <3>1, <3>2, <3>3
  <2>3. \A d \in Callers : Bystander(d)
    BY <1>2 DEF Bystander
  <2>4. log.revision <= log'.revision /\ outside \subseteq outside'
    BY <1>1, <1>2
  <2> QED
    BY <1>2, <2>1, <2>2, <2>3, <2>4, TellsStill
<1>3. CASE WritesOutside
  <2>1. /\ outside' = outside \cup {log.revision + 1} /\ log'.revision = log.revision + 1
        /\ UNCHANGED <<pool, call, chain>>
    BY <1>3 DEF WritesOutside, Lengthens
  <2>2. \A q \in Nat : OthersSince(q) => OthersSince(q)'
    <3> SUFFICES ASSUME NEW q \in Nat, (q + 1)..log.revision \subseteq outside,
                        NEW k \in (q + 1)..log'.revision
                 PROVE  k \in outside'
      BY DEF OthersSince
    <3>1. k \in (q + 1)..log.revision \/ k = log.revision + 1
      BY <1>1, <2>1
    <3> QED
      BY <2>1, <3>1
  <2>3. \A d \in Callers : Bystander(d)
    BY <2>1 DEF Bystander
  <2>4. log.revision <= log'.revision /\ outside \subseteq outside'
    BY <1>1, <2>1
  <2> QED
    BY <2>1, <2>2, <2>3, <2>4, TellsStill
<1>4. WritesOutside \/ (UNCHANGED <<log, outside>> /\ UNCHANGED call /\ (pool' = pool \/ pool' = NoEntry))
  <2>1. CASE Evict
    BY <2>1 DEF Evict, logVars
  <2>2. CASE LiveWrite \/ QueueRetire \/ Dispose \/ AppendStarts \/ AppendFails
    BY <2>2 DEF LiveWrite, QueueRetire, Dispose, AppendStarts, AppendFails, logVars
  <2>3. CASE (\E a \in Appenders : QueueAppend(a)) \/ UNCHANGED vars
    BY <2>3 DEF QueueAppend, vars, logVars
  <2> QED
    BY <2>1, <2>2, <2>3
<1> QED
  BY <1>2, <1>3, <1>4

\* An adoption repairs the log behind the pool's entry only if that is being committed.
LEMMA AdoptsTells == ASSUME IInv, TInv, IInv', Adopts PROVE TInv'
<1>1. /\ Starting("append") /\ stage = "adopting" /\ UNCHANGED <<outside, call>>
      /\ pool' = NoEntry \/ (pool' = pool /\ pool.phase # "ready")
      /\ log' = log \/ log' = Repaired
      /\ UNCHANGED chain \/ chain' = Tail(chain)
  BY DEF Adopts, Running, AppendGoes, AppendEnds
<1>2. /\ chain # <<>> /\ chain[1].kind = "append"
      /\ \A d \in Callers : ~(call[d].pc = "holding" \/ Committing(d))
  BY <1>1, AppendFacts
<1>3. \A d \in Callers : Bystander(d)
  BY <1>1 DEF Bystander
<1>4. log.revision <= log'.revision
  BY <1>1 DEF Repaired, IInv, TypeOK, Logs
<1>5. CASE pool' = NoEntry
  BY <1>1, <1>2, <1>3, <1>4, <1>5, TellsStill
<1>6. CASE pool' = pool /\ pool.phase # "ready"
  <2>1. \A d \in Callers : IsPooled(d)' = IsPooled(d)
    BY <1>1, <1>6 DEF IsPooled
  <2>2. \A d \in Callers : call[d].pc \in Reserving /\ IsPooled(d) => Doubtful(d)'
    BY <1>1, <1>2, <2>1 DEF Reserving, Committing, Doubtful
  <2>3. Fresh'
    BY <1>1, <1>6, <2>1, <2>2 DEF TInv, Fresh
  <2> QED
    BY <1>1, <1>2, <1>3, <1>4, <1>6, <2>3, TellsStill
<1> QED
  BY <1>1, <1>5, <1>6

LEMMA WritesTells == ASSUME IInv, TInv, IInv', Writes PROVE TInv'
<1>1. /\ UNCHANGED outside /\ pool' = NoEntry /\ call' = Settled(call) /\ chain' = Tail(chain)
      /\ \E ends \in BOOLEAN : log' = [revision |-> log.revision + 1, open |-> ends]
      /\ Starting("write") \/ Starting("append")
  BY DEF Writes, AppendEnds, Lengthens, Running
<1>2. \A d \in Callers : Bystander(d)
  <2>1. \A d \in Callers :
           \/ call'[d] = call[d]
           \/ call[d].pc = "settle" /\ call'[d] = [call[d] EXCEPT !.pc = "read"]
    BY <1>1, SettledFacts DEF IInv
  <2>2. \A d \in Callers : call[d] \in CallStates
    BY DEF IInv, TypeOK
  <2> QED
    BY <2>1, <2>2 DEF Bystander, CallStates
<1>3. log.revision <= log'.revision
  BY <1>1 DEF IInv, TypeOK, Logs
<1>4. chain # <<>> /\ chain[1].kind # "commit"
  BY <1>1, OperationFacts DEF Starting
<1> QED
  BY <1>1, <1>2, <1>3, <1>4, TellsStill




\* A call leaves: what it no longer works on needs not be told of.
LEMMA Gone ==
    ASSUME IInv, NEW c \in Callers, call'[c].pc \notin Past, call'[c].since <= log'.revision,
           call'[c].missing = {}
    PROVE  Informed(c)'
BY DEF Informed, Committing, Past

\* A call goes where it reserves and checks nothing, and the pool loses the entry the
\* call works on, or keeps one the call has not reserved.
LEMMA LeavesTold ==
    ASSUME IInv, TInv, IInv', NEW c \in Callers, Moves(c), Informed(c)',
           call'[c].pc \notin {"commit", "check"},
           UNCHANGED <<log, outside>>,
           \/ Removal(call[c].on)
           \/ pool' = pool /\ ~(call[c].pc \in Reserving /\ IsPooled(c)),
           \/ UNCHANGED chain /\ call[c].pc # "commit"
           \/ Drops(c)
    PROVE  TInv'
<1>1. pool' = NoEntry \/ (pool' = pool /\ ~(call[c].pc \in Reserving /\ IsPooled(c)))
  BY DEF Removal, IsPooled
<1> DEFINE movers == {c}
<1>2. /\ movers \in SUBSET Callers
      /\ \A d \in Callers \ movers : Bystander(d)
      /\ \A d \in movers : d = c
  BY DEF Moves
<1>3. PoolKeeps({c})
  BY <1>1, PreparationsAssumption DEF PoolKeeps, NoEntry, IInv, Reads
<1> HIDE DEF movers
<1>4. Fresh'
  <2>1. \A q \in Nat : OthersSince(q) => OthersSince(q)'
    BY DEF OthersSince
  <2> QED
    BY <1>1, <1>2, <2>1, FreshFrame DEF TInv
<1> QED
  BY <1>3, <1>4, TellsGoes

LEMMA CallTells == ASSUME IInv, TInv, IInv', NEW c \in Callers, Call(c) PROVE TInv'
<1>1. /\ UNCHANGED <<log, outside, chain, pool>>
      /\ Moves(c) /\ call'[c].pc = "loop" /\ call[c].pc = "idle" /\ call'[c].since = log.revision
      /\ call'[c].missing = call[c].missing
  BY CallFacts DEF Call, logVars
<1>2. call'[c].missing = {}
  BY <1>1 DEF TInv, Informed
<1>3. call'[c].since <= log'.revision
  BY <1>1 DEF IInv, TypeOK, Logs
<1>4. call'[c].pc \notin Past
  BY <1>1 DEF Past
<1> QED
  BY <1>1, <1>2, <1>3, <1>4, Gone, LeavesTold DEF Reserving

\* A call that moves to where nothing is read keeps or forgets the revision it was made at.
LEMMA GoesTold ==
    ASSUME IInv, TInv, NEW c \in Callers, log' = log,
           NEW where \in {"failed", "done", "borrowed", "loop", "retire", "flush"},
           Goes(c, where) \/ \E e : MovesTo(SettledBy(e), c, where) /\ call[c].pc # "settle",
           call[c].missing = {}
    PROVE  Moves(c) /\ call'[c].pc = where /\ Informed(c)'
<1>1. where \in Steps /\ where \notin Past
  BY DEF Steps, Ended, Past
<1>2. /\ Moves(c) /\ call'[c].pc = where
      /\ where \notin Ended \cup {"loop"} => call'[c] = [call[c] EXCEPT !.pc = where]
      /\ where \in Ended => call'[c].missing = {} /\ call'[c].since = 0
      /\ where = "loop" => call'[c].since = call[c].since /\ call'[c].missing = {}
  BY <1>1, GoesFacts
<1>3. call[c] \in CallStates /\ log.revision \in Nat /\ call[c].since <= log.revision
  BY DEF IInv, TypeOK, Logs, TInv, Informed
<1>4. call'[c].missing = {} /\ call'[c].since <= log'.revision
  BY <1>2, <1>3 DEF CallStates
<1> QED
  BY <1>1, <1>2, <1>4, Gone

LEMMA NothingMissing ==
    ASSUME TInv, NEW c \in Callers, call[c].pc # "borrowed" PROVE call[c].missing = {}
BY DEF TInv, Informed

LEMMA LoadsLiveTells == ASSUME IInv, TInv, IInv', NEW c \in Callers, LoadsLive(c) PROVE TInv'
<1>1. /\ call[c].pc = "flush" /\ UNCHANGED <<log, outside, chain, pool>>
      /\ \E where \in {"done", "failed"} : Goes(c, where)
  BY DEF LoadsLive, logVars
<1>2. PICK where \in {"done", "failed"} : Goes(c, where)
  BY <1>1
<1>3. Moves(c) /\ call'[c].pc = where /\ Informed(c)'
  BY <1>1, <1>2, NothingMissing, GoesTold
<1> QED
  BY <1>1, <1>2, <1>3, LeavesTold DEF Reserving

\* A call that takes part in the pool's read holds what the pool holds.
LEMMA ShareTells ==
    ASSUME IInv, TInv, IInv', NEW c \in Callers, call[c].pc = "loop", Share(c),
           UNCHANGED <<log, outside>>
    PROVE  TInv'
<1> USE PreparationsAssumption
<1> DEFINE movers == {c}
<1>1. /\ Moves(c) /\ call'[c].since = call[c].since /\ call'[c].missing = call[c].missing
      /\ \/ /\ pool.entry \in Entries /\ UNCHANGED <<pool, chain>>
            /\ call'[c].on = pool.entry
            /\ IF pool.phase = "loading" THEN call'[c].pc = "result"
               ELSE call'[c].pc = "read" /\ call'[c].seen = pool.source
         \/ /\ pool = NoEntry
            /\ \E e \in Free : /\ call'[c].on = e /\ call'[c].pc = "result"
                               /\ pool' = [entry |-> e, phase |-> "loading", source |-> None]
                               /\ chain' = Append(chain, [kind |-> "load", of |-> e])
  BY ShareFacts
<1>2. /\ movers \in SUBSET Callers
      /\ \A d \in Callers \ movers : Bystander(d)
      /\ \A d \in movers : d = c
      /\ \A d \in Callers \ movers : d # c
  BY <1>1 DEF Moves
<1> HIDE DEF movers
<1>3. /\ log.revision \in Nat /\ log.revision <= log'.revision /\ outside \subseteq outside'
      /\ chain \in Seq(Ops)
      /\ call[c].since <= log.revision /\ call[c].missing = {}
  <2>1. call[c].missing = {}
    BY NothingMissing
  <2> QED
    BY <2>1 DEF IInv, TypeOK, Logs, TInv, Informed
<1>4. \A q \in Nat : OthersSince(q) => OthersSince(q)'
  BY DEF OthersSince
<1>5. call'[c].pc \in {"result", "read"}
  BY <1>1
<1>6. \A d \in movers : call'[d].pc # "commit" /\ ~(call[d].pc = "check" /\ call'[d].pc = "check")
  BY <1>2, <1>5
<1>7. CASE /\ pool.entry \in Entries /\ UNCHANGED <<pool, chain>>
           /\ call'[c].on = pool.entry
           /\ IF pool.phase = "loading" THEN call'[c].pc = "result"
              ELSE call'[c].pc = "read" /\ call'[c].seen = pool.source
  <2>1. Informed(c)'
    BY <1>1, <1>3, <1>7 DEF Informed, Committing, Past
  <2>2. PoolKeeps(movers) /\ ChainKeeps(movers)
    BY <1>7 DEF PoolKeeps, ChainKeeps, InChain, Ahead
  <2>3. Fresh'
    BY <1>2, <1>4, <1>7, FreshFrame DEF TInv, Reserving
  <2> QED
    BY <1>2, <1>3, <1>6, <2>1, <2>2, <2>3, Tells
<1>8. ASSUME pool = NoEntry,
             NEW e \in Free, call'[c].on = e, call'[c].pc = "result",
             pool' = [entry |-> e, phase |-> "loading", source |-> None],
             chain' = Append(chain, [kind |-> "load", of |-> e])
      PROVE  TInv'
  <2>1. Informed(c)'
    BY <1>1, <1>3, <1>8 DEF Informed, Committing, Past
  <2>2. PoolKeeps(movers)
    BY <1>8 DEF PoolKeeps, Free
  <2> DEFINE op == [kind |-> "load", of |-> e]
  <2>3. op \in Ops /\ chain' = Append(chain, op) /\ \A d \in Callers : op # Op("commit", d)
    BY <1>8 DEF Ops, Kinds, Op, Free
  <2> HIDE DEF op
  <2>4. ChainKeeps(movers)
    BY <1>3, <2>3, AheadAppends DEF ChainKeeps
  <2>5. Fresh'
    BY <1>8 DEF Fresh
  <2> QED
    BY <1>2, <1>3, <1>6, <2>1, <2>2, <2>4, <2>5, Tells
<1> QED
  BY <1>1, <1>7, <1>8

LEMMA LoopTells == ASSUME IInv, TInv, IInv', NEW c \in Callers, Loop(c) PROVE TInv'
<1>1. call[c].pc = "loop" /\ UNCHANGED <<log, outside>>
  BY DEF Loop, logVars
<1>2. CASE Share(c)
  BY <1>1, <1>2, ShareTells
<1>3. ASSUME NEW where \in {"failed", "retire", "flush", "done"}, Goes(c, where), UNCHANGED <<chain, pool>>
      PROVE  TInv'
  <2>1. Moves(c) /\ call'[c].pc = where /\ Informed(c)'
    BY <1>1, <1>3, NothingMissing, GoesTold
  <2> QED
    BY <1>1, <1>3, <2>1, LeavesTold DEF Reserving
<1> QED
  BY <1>2, <1>3 DEF Loop




\* A fired signal ends a wait, gives up a reservation, or is only remembered.
LEMMA AbortTells == ASSUME IInv, TInv, IInv', NEW c \in Callers, Abort(c) PROVE TInv'
<1>1. /\ Drops(c) /\ UNCHANGED <<log, outside>> /\ call[c].pc \notin Ended \cup {"idle", "holding"}
  BY DEF Abort, logVars
<1>2. CASE Goes(c, "failed") /\ UNCHANGED pool /\ call[c].pc \in {"retire", "result", "settle", "check"}
  <2>1. Moves(c) /\ call'[c].pc = "failed" /\ Informed(c)'
    BY <1>1, <1>2, NothingMissing, GoesTold DEF Ended
  <2>2. ~(call[c].pc \in Reserving)
    BY <1>2 DEF Reserving
  <2> QED
    BY <1>1, <1>2, <2>1, <2>2, LeavesTold
<1>3. CASE call[c].pc = "commit" /\ Removal(call[c].on) /\ MovesTo(SettledBy(call[c].on), c, "failed")
  <2>1. Moves(c) /\ call'[c].pc = "failed" /\ Informed(c)'
    BY <1>1, <1>3, NothingMissing, GoesTold DEF Ended
  <2> QED
    BY <1>1, <1>3, <2>1, LeavesTold
<1>4. CASE /\ call[c].pc \notin {"retire", "result", "settle", "check", "commit"}
           /\ call' = [call EXCEPT ![c].aborted = TRUE] /\ UNCHANGED pool
  <2>1. call \in [Callers -> CallStates] /\ call[c] \in CallStates /\ log.revision \in Nat
    BY DEF IInv, TypeOK, Logs
  <2>2. call'[c] = [call[c] EXCEPT !.aborted = TRUE] /\ \A d \in Callers \ {c} : call'[d] = call[d]
    BY <1>4, <2>1
  <2>3. /\ call'[c].pc = call[c].pc /\ call'[c].on = call[c].on /\ call'[c].seen = call[c].seen
        /\ call'[c].outcome = call[c].outcome /\ call'[c].since = call[c].since
        /\ call'[c].missing = call[c].missing
    BY <2>1, <2>2 DEF CallStates
  <2>4. \A d \in Callers :
           /\ call'[d].pc = call[d].pc /\ call'[d].on = call[d].on /\ call'[d].seen = call[d].seen
           /\ call'[d].outcome = call[d].outcome /\ call'[d].since = call[d].since
           /\ call'[d].missing = call[d].missing
    BY <2>2, <2>3
  <2>5. \A d \in Callers : Informed(d)'
    BY <1>1, <1>4, <2>4 DEF TInv, Informed, Committing, IsPooled, Gap
  <2>6. Fresh'
    <3>1. \A d \in Callers : (Doubtful(d)' <=> Doubtful(d)) /\ (IsPooled(d)' <=> IsPooled(d))
      BY <1>4, <2>4 DEF Doubtful, IsPooled
    <3> QED
      BY <1>1, <1>4, <2>4, <3>1 DEF TInv, Fresh, OthersSince
  <2>7. Ordered'
    <3>1. chain \in Seq(Ops)
      BY DEF IInv, TypeOK
    <3>2. /\ \A o : InChain(o) /\ o.of # c => InChain(o)'
          /\ \A x, y : Ahead(x, y)' => Ahead(x, y)
      BY <1>1, <3>1, AheadDrops
    <3>3. ASSUME NEW d \in Callers, call'[d].pc = "commit" PROVE InChain(Op("commit", d))'
      BY <1>4, <2>4, <3>2, <3>3 DEF TInv, Ordered, Op
    <3>4. ASSUME NEW x \in Callers, NEW d \in Callers, Ahead(Op("check", x), Op("commit", d))',
                 IsPooled(x)', IsPooled(d)'
          PROVE  Gap(x)' \subseteq outside'
      BY <1>1, <1>4, <2>4, <3>2, <3>4 DEF TInv, Ordered, IsPooled, Gap
    <3> QED
      BY <3>3, <3>4 DEF Ordered
  <2> QED
    BY <2>5, <2>6, <2>7 DEF TInv
<1> QED
  BY <1>2, <1>3, <1>4 DEF Abort

\* Reserved, what was ready lacks only what others wrote, and so does every check that is
\* already queued.
LEMMA ReserveTells == ASSUME IInv, TInv, IInv', NEW c \in Callers, Reserve(c) PROVE TInv'
<1>1. call[c].pc = "read" /\ UNCHANGED <<log, outside>>
  BY DEF Reserve, logVars
<1>2. ASSUME NEW where \in {"failed", "loop"}, Goes(c, where), UNCHANGED chain,
             pool' = pool \/ (IsPooled(c) /\ Removal(pool.entry))
      PROVE  TInv'
  <2>1. Moves(c) /\ call'[c].pc = where /\ Informed(c)'
    BY <1>1, <1>2, NothingMissing, GoesTold
  <2> QED
    BY <1>1, <1>2, <2>1, LeavesTold DEF Reserving, IsPooled
<1>3. CASE Goes(c, "settle") /\ UNCHANGED <<chain, pool>>
  <2>1. "settle" \in Steps \ (Ended \cup {"loop"})
    BY DEF Steps, Ended
  <2>2. Moves(c) /\ call'[c] = [call[c] EXCEPT !.pc = "settle"] /\ call[c] \in CallStates
    BY <1>3, <2>1, GoesFacts DEF IInv, TypeOK
  <2>3. /\ call'[c].pc = "settle" /\ call'[c].on = call[c].on /\ call'[c].seen = call[c].seen
        /\ call'[c].since = call[c].since /\ call'[c].missing = call[c].missing
    BY <2>2 DEF CallStates
  <2>4. Informed(c)'
    BY <1>1, <1>3, <2>3 DEF TInv, Informed, Committing, IsPooled, Past
  <2> QED
    BY <1>1, <1>3, <2>2, <2>3, <2>4, LeavesTold DEF Reserving
<1>4. CASE /\ IsPooled(c) /\ pool.phase = "ready"
           /\ pool' = [pool EXCEPT !.phase = "committing"]
           /\ chain' = Append(chain, Op("commit", c))
           /\ Goes(c, "commit")
  <2>1. "commit" \in Steps \ (Ended \cup {"loop"})
    BY DEF Steps, Ended
  <2>2. /\ Moves(c) /\ call'[c] = [call[c] EXCEPT !.pc = "commit"] /\ call[c] \in CallStates
        /\ chain \in Seq(Ops) /\ log \in Logs
        /\ pool \in [entry : Entries \cup {None}, phase : Phases, source : Logs \cup {None}]
    BY <1>4, <2>1, GoesFacts DEF IInv, TypeOK
  <2>3. /\ call'[c].pc = "commit" /\ call'[c].on = call[c].on /\ call'[c].seen = call[c].seen
        /\ call'[c].since = call[c].since /\ call'[c].missing = call[c].missing
    BY <2>2 DEF CallStates
  <2>4. pool'.entry = pool.entry /\ pool'.source = pool.source /\ pool'.phase = "committing"
    BY <1>4, <2>2
  <2>5. \A d \in Callers : ~Doubtful(d)
    BY <1>4, OnlyOne DEF Doubtful, Reserving
  <2>6. OthersSince(pool.source.revision)
    BY <1>4, <2>5 DEF TInv, Fresh
  <2>7. Informed(c)'
    BY <1>1, <2>3, <2>4 DEF TInv, Informed, Committing, IsPooled, Past
  <2> DEFINE movers == {c}
  <2>8. /\ movers \in SUBSET Callers /\ \A d \in Callers \ movers : Bystander(d)
        /\ \A d \in movers : Informed(d)'
        /\ PoolKeeps(movers)
        /\ log.revision <= log'.revision /\ outside \subseteq outside'
    BY <1>1, <2>2, <2>4, <2>7 DEF Moves, PoolKeeps, Logs
  <2> HIDE DEF movers
  <2>9. \A d \in Callers : Informed(d)'
    <3>1. \A d \in Callers : Informed(d)
      BY DEF TInv
    <3> QED
      BY <2>8, <3>1, InformedFrame
  <2>10. Fresh'
    <3>1. call'[c].pc \in Reserving /\ IsPooled(c)'
      BY <1>4, <2>3, <2>4 DEF Reserving, IsPooled
    <3>2. (OthersSince(pool.source.revision))'
      BY <1>1, <2>4, <2>6 DEF OthersSince
    <3> QED
      BY <3>1, <3>2 DEF Fresh
  <2>11. Ordered'
    <3> DEFINE op == Op("commit", c)
    <3>1. op \in Ops
      BY DEF Op, Ops, Kinds
    <3>2. /\ \A o : InChain(o) => InChain(o)'
          /\ InChain(op)'
          /\ \A x, y : Ahead(x, y)' => Ahead(x, y) \/ (y = op /\ InChain(x))
      BY <1>4, <2>2, <3>1, AheadAppends
    <3>3. ASSUME NEW d \in Callers, call'[d].pc = "commit" PROVE InChain(Op("commit", d))'
      BY <2>2, <3>2, <3>3 DEF TInv, Ordered, Moves, Bystander
    <3>4. ASSUME NEW x \in Callers, NEW d \in Callers, Ahead(Op("check", x), Op("commit", d))',
                 IsPooled(x)', IsPooled(d)'
          PROVE  Gap(x)' \subseteq outside'
      <4>1. \A i \in DOMAIN chain' : OpHolds(chain[i])'
        BY DEF IInv, Queue
      <4>2. call'[x].pc = "check"
        <5>1. \A i \in DOMAIN chain' :
                 chain'[i].kind \in {"commit", "check"} => call'[chain'[i].of].pc = chain'[i].kind
          BY <4>1 DEF OpHolds
        <5> QED
          BY <3>4, <5>1 DEF Ahead, Op
      <4>3. x # c /\ Bystander(x)
        BY <2>2, <2>3, <4>2 DEF Moves
      <4>4. /\ call[x].pc = "check" /\ IsPooled(x) /\ (IsPooled(d)' <=> IsPooled(d)) /\ Gap(x)' = Gap(x)
        <5>1. call[x].pc = "check" /\ call'[x].on = call[x].on /\ call'[x].seen = call[x].seen
              /\ call'[x].since = call[x].since
          BY <4>2, <4>3 DEF Bystander
        <5>2. call'[d].on = call[d].on
          BY <2>2, <2>3 DEF Moves, Bystander
        <5> QED
          BY <2>4, <3>4, <5>1, <5>2 DEF IsPooled, Gap
      <4>5. CASE Ahead(Op("check", x), Op("commit", d))
        BY <1>1, <3>4, <4>4, <4>5 DEF TInv, Ordered
      <4>6. CASE ~Ahead(Op("check", x), Op("commit", d))
        <5>1. /\ call[x].seen = pool.source /\ call[x].since <= log.revision
              /\ call[x].since \in Nat /\ log.revision \in Nat
              /\ pool.source.revision \in Nat
          BY <1>4, <4>4 DEF TInv, Informed, Past, IInv, TypeOK, CallStates, Logs, Reads
        <5>2. Gap(x) \subseteq (pool.source.revision + 1)..log.revision
          BY <5>1 DEF Gap
        <5> QED
          BY <1>1, <2>6, <4>4, <5>2 DEF OthersSince
      <4> QED
        BY <4>5, <4>6
    <3> QED
      BY <3>3, <3>4 DEF Ordered
  <2> QED
    BY <2>9, <2>10, <2>11 DEF TInv
<1> QED
  BY <1>2, <1>3, <1>4 DEF Reserve


\* The pool's entry turns ready again, held by nobody, its source still fresh.
LEMMA ReadiesTold ==
    ASSUME IInv, TInv, IInv', NEW c \in Callers, Moves(c), Informed(c)',
           call'[c].pc \notin {"commit", "check"}, call[c].pc # "commit",
           UNCHANGED <<log, outside, chain>>,
           Readiness(call[c].on), IsPooled(c) => OthersSince(pool.source.revision),
           call[c].pc \in Reserving
    PROVE  TInv'
<1>1. CASE IsPooled(c)
  <2>1. pool \in [entry : Entries \cup {None}, phase : Phases, source : Logs \cup {None}]
    BY DEF IInv, TypeOK
  <2>2. pool'.entry = pool.entry /\ pool'.source = pool.source /\ pool'.phase = "ready"
    BY <1>1, <2>1 DEF Readiness, IsPooled
  <2>3. PoolKeeps({c})
    BY <2>2 DEF PoolKeeps
  <2>4. Fresh'
    BY <1>1, <2>2 DEF Fresh, OthersSince
  <2> QED
    BY <2>3, <2>4, TellsGoes
<1>2. CASE ~IsPooled(c)
  <2>1. pool' = pool
    BY <1>2 DEF Readiness, IsPooled
  <2> QED
    BY <1>2, <2>1, LeavesTold
<1> QED
  BY <1>1, <1>2

\* An answer of the call's own view says what that lacks.
LEMMA AnswersTold ==
    ASSUME IInv, TInv, NEW c \in Callers, log' = log, outside' = outside,
           NEW where \in Ended, NEW e, Answers(call, c, where) \/ Answers(SettledBy(e), c, where),
           call[c].pc \in Past \ {"settle"},
           Gap(c) = {} \/ (where = "borrowed" /\ Gap(c) \subseteq outside)
    PROVE  Moves(c) /\ call'[c].pc = where /\ Informed(c)'
<1>1. call[c].seen \in Logs /\ log.revision \in Nat
  BY DEF IInv, Reads, TypeOK, Logs
<1>2. Moves(c) /\ call'[c].pc = where /\ call'[c].missing = Gap(c) /\ call'[c].since = 0
  BY <1>1, AnswersFacts DEF IInv, Moves, Gap
<1>3. where \notin Past
  BY DEF Ended, Past
<1> QED
  BY <1>1, <1>2, <1>3 DEF Informed, Committing, Past

LEMMA CommittedTells == ASSUME IInv, TInv, IInv', NEW c \in Callers, Committed(c) PROVE TInv'
<1> DEFINE e == call[c].on
<1>1. /\ call[c].pc = "committed" /\ UNCHANGED <<log, outside, chain>>
      /\ call[c].pc \in Reserving /\ call[c].pc \in Past
  BY DEF Committed, logVars, Reserving, Past
<1>2. ASSUME NEW where \in {"failed", "loop"}, Removal(e), MovesTo(SettledBy(e), c, where) PROVE TInv'
  <2>1. Moves(c) /\ call'[c].pc = where /\ Informed(c)'
    BY <1>1, <1>2, NothingMissing, GoesTold
  <2> QED
    BY <1>1, <1>2, <2>1, LeavesTold
<1>3. ASSUME call[c].outcome = "committed"
      PROVE  IsPooled(c) => OthersSince(pool.source.revision)
  <2>1. Kept(c)
    BY <1>1, <1>3 DEF Committing, IInv, Reserved
  <2> QED
    BY <1>1, <2>1 DEF Kept, TInv, Informed
<1>4. CASE call[c].outcome = "committed" /\ Readiness(e) /\ MovesTo(SettledBy(e), c, "failed")
  <2>1. Moves(c) /\ call'[c].pc = "failed" /\ Informed(c)'
    BY <1>1, <1>4, NothingMissing, GoesTold
  <2> QED
    BY <1>1, <1>3, <1>4, <2>1, ReadiesTold
<1>5. CASE call[c].outcome = "committed" /\ Removal(e) /\ Answers(SettledBy(e), c, "done")
  <2>1. /\ call[c].since <= call[c].seen.revision /\ call[c].since \in Nat
        /\ call[c].seen.revision \in Nat
    BY <1>1, <1>5 DEF TInv, Informed, Committing, IInv, TypeOK, CallStates, Reads, Logs
  <2>2. Gap(c) = {}
    BY <2>1 DEF Gap
  <2>3. Moves(c) /\ call'[c].pc = "done" /\ Informed(c)'
    BY <1>1, <1>5, <2>2, AnswersTold DEF Ended
  <2> QED
    BY <1>1, <1>5, <2>3, LeavesTold
<1>6. CASE /\ call[c].outcome = "committed" /\ IsPooled(c)
           /\ pool' = [pool EXCEPT !.phase = "reserved"] /\ Goes(c, "holding")
  <2>1. "holding" \in Steps \ (Ended \cup {"loop"})
    BY DEF Steps, Ended
  <2>2. /\ Moves(c) /\ call'[c] = [call[c] EXCEPT !.pc = "holding"] /\ call[c] \in CallStates
        /\ pool \in [entry : Entries \cup {None}, phase : Phases, source : Logs \cup {None}]
    BY <1>6, <2>1, GoesFacts DEF IInv, TypeOK
  <2>3. /\ call'[c].pc = "holding" /\ call'[c].on = call[c].on /\ call'[c].seen = call[c].seen
        /\ call'[c].since = call[c].since /\ call'[c].missing = call[c].missing
    BY <2>2 DEF CallStates
  <2>4. pool'.entry = pool.entry /\ pool'.source = pool.source /\ pool'.phase = "reserved"
    BY <1>6, <2>2
  <2>5. Informed(c)'
    BY <1>1, <2>3, <2>4 DEF TInv, Informed, Committing, IsPooled, Past
  <2>6. PoolKeeps({c})
    BY <2>4 DEF PoolKeeps
  <2>7. call'[c].pc \in Reserving /\ IsPooled(c)'
    BY <1>6, <2>3, <2>4 DEF Reserving, IsPooled
  <2>8. Fresh'
    BY <1>1, <1>3, <1>6, <2>4, <2>7 DEF Fresh, OthersSince
  <2> QED
    BY <1>1, <2>2, <2>3, <2>5, <2>6, <2>8, TellsGoes
<1> QED
  BY <1>2, <1>4, <1>5, <1>6 DEF Committed

LEMMA ReleaseTells == ASSUME IInv, TInv, IInv', NEW c \in Callers, Release(c) PROVE TInv'
<1> DEFINE e == call[c].on
<1>1. /\ call[c].pc = "holding" /\ UNCHANGED <<log, outside, chain>>
      /\ Readiness(e) \/ Removal(e)
      /\ MovesTo(SettledBy(e), c, "done")
      /\ call[c].pc \in Reserving /\ call[c].pc \in Past
  BY DEF Release, logVars, Reserving, Past
<1>2. Moves(c) /\ call'[c].pc = "done" /\ Informed(c)'
  BY <1>1, NothingMissing, GoesTold
<1>3. IsPooled(c) => OthersSince(pool.source.revision)
  <2>1. Kept(c)
    BY <1>1 DEF IInv, Reserved
  <2> QED
    BY <1>1, <2>1 DEF Kept, TInv, Informed
<1>4. CASE Readiness(e)
  BY <1>1, <1>2, <1>3, <1>4, ReadiesTold
<1>5. CASE Removal(e)
  BY <1>1, <1>2, <1>5, LeavesTold
<1> QED
  BY <1>1, <1>4, <1>5

LEMMA PublishTells == ASSUME IInv, TInv, IInv', NEW c \in Callers, Publish(c) PROVE TInv'
<1>1. /\ call[c].pc = "holding" /\ UNCHANGED <<log, outside, chain>>
      /\ Removal(call[c].on) /\ MovesTo(SettledBy(call[c].on), c, "done")
  BY DEF Publish, logVars
<1>2. Moves(c) /\ call'[c].pc = "done" /\ Informed(c)'
  BY <1>1, NothingMissing, GoesTold
<1> QED
  BY <1>1, <1>2, LeavesTold

\* What was found current lacks nothing, and what was found changed is answered only if it
\* is the pool's and held.
LEMMA CheckedTells == ASSUME IInv, TInv, IInv', NEW c \in Callers, Checked(c) PROVE TInv'
<1>1. /\ call[c].pc = "checked" /\ UNCHANGED <<log, outside, chain>>
      /\ call[c].pc \in Past \ {"settle"} /\ call[c].pc \notin Reserving
  BY DEF Checked, logVars, Past, Reserving
<1>2. ASSUME NEW where \in {"done", "loop"}, Goes(c, where), pool' = pool \/ Removal(call[c].on)
      PROVE  TInv'
  <2>1. Moves(c) /\ call'[c].pc = where /\ Informed(c)'
    BY <1>1, <1>2, NothingMissing, GoesTold
  <2> QED
    BY <1>1, <1>2, <2>1, LeavesTold
<1>3. ASSUME NEW where \in {"done", "borrowed"}, Answers(call, c, where), UNCHANGED pool,
             Gap(c) = {} \/ (where = "borrowed" /\ Gap(c) \subseteq outside)
      PROVE  TInv'
  <2>1. where \in Ended
    BY DEF Ended
  <2>2. Moves(c) /\ call'[c].pc = where /\ Informed(c)'
    BY <1>1, <1>3, <2>1, AnswersTold
  <2> QED
    BY <1>1, <1>3, <2>2, LeavesTold
<1>4. call[c].outcome = "current" => Gap(c) = {}
  <2>1. call[c].since \in Nat /\ call[c].seen.revision \in Nat
    BY <1>1 DEF IInv, TypeOK, CallStates, Reads, Past, Logs
  <2> QED
    BY <1>1, <2>1 DEF TInv, Informed, Gap
<1>5. call[c].outcome # "current" /\ IsPooled(c) => Gap(c) \subseteq outside
  BY <1>1 DEF TInv, Informed
<1> QED
  BY <1>2, <1>3, <1>4, <1>5 DEF Checked

LEMMA QueueCheckTells == ASSUME IInv, TInv, IInv', NEW c \in Callers, QueueCheck(c) PROVE TInv'
<1>1. call[c].pc = "read" /\ UNCHANGED <<log, outside, pool>>
  BY DEF QueueCheck, logVars
<1>2. ASSUME NEW where \in {"done", "failed"}, Goes(c, where), UNCHANGED chain PROVE TInv'
  <2>1. Moves(c) /\ call'[c].pc = where /\ Informed(c)'
    BY <1>1, <1>2, NothingMissing, GoesTold
  <2> QED
    BY <1>1, <1>2, <2>1, LeavesTold DEF Reserving
<1>3. CASE Goes(c, "check") /\ chain' = Append(chain, Op("check", c))
  <2>1. "check" \in Steps \ (Ended \cup {"loop"})
    BY DEF Steps, Ended
  <2>2. /\ Moves(c) /\ call'[c] = [call[c] EXCEPT !.pc = "check"] /\ call[c] \in CallStates
        /\ chain \in Seq(Ops) /\ log \in Logs
    BY <1>3, <2>1, GoesFacts DEF IInv, TypeOK
  <2>3. /\ call'[c].pc = "check" /\ call'[c].on = call[c].on /\ call'[c].seen = call[c].seen
        /\ call'[c].since = call[c].since /\ call'[c].missing = call[c].missing
    BY <2>2 DEF CallStates
  <2>4. Informed(c)'
    BY <1>1, <2>3 DEF TInv, Informed, Committing, IsPooled, Past
  <2> DEFINE movers == {c}
             op == Op("check", c)
  <2>5. /\ movers \in SUBSET Callers /\ \A d \in Callers \ movers : Bystander(d)
        /\ \A d \in movers : /\ Informed(d)'
                             /\ call'[d].pc # "commit" /\ ~(call[d].pc = "check" /\ call'[d].pc = "check")
                             /\ ~(call[d].pc \in Reserving /\ IsPooled(d))
        /\ log.revision <= log'.revision /\ outside \subseteq outside'
    <3>1. log.revision <= log'.revision /\ outside \subseteq outside'
      BY <1>1, <2>2 DEF Logs
    <3>2. \A d \in Callers \ movers : Bystander(d)
      BY <2>2 DEF Moves
    <3>3. \A d \in movers : d = c
      OBVIOUS
    <3> QED
      BY <1>1, <2>3, <2>4, <3>1, <3>2, <3>3 DEF Reserving
  <2>6. PoolKeeps(movers)
    BY <1>1 DEF PoolKeeps
  <2> HIDE DEF movers
  <2>7. op \in Ops /\ chain' = Append(chain, op) /\ \A d \in Callers : op # Op("commit", d)
    BY <1>3 DEF Ops, Kinds, Op
  <2> HIDE DEF op
  <2>8. ChainKeeps(movers)
    BY <2>2, <2>7, AheadAppends DEF ChainKeeps
  <2>9. Fresh'
    <3>1. \A q \in Nat : OthersSince(q) => OthersSince(q)'
      BY <1>1 DEF OthersSince
    <3> QED
      BY <1>1, <2>5, <3>1, FreshFrame DEF TInv
  <2> QED
    BY <2>5, <2>6, <2>8, <2>9, Tells
<1> QED
  BY <1>2, <1>3 DEF QueueCheck

LEMMA RetiredTells ==
    ASSUME IInv, TInv, IInv', NEW where \in {"failed", "loop"}, RetiredTo(where),
           UNCHANGED <<log, outside, pool>>,
           \/ UNCHANGED chain
           \/ chain # <<>> /\ chain' = Tail(chain) /\ chain[1].kind # "commit"
    PROVE  TInv'
<1>1. /\ \A d \in Callers : IF call[d].pc = "retire" THEN call'[d].pc = where ELSE Bystander(d)
      /\ \A d \in Callers : call[d].pc = "retire" =>
            /\ call'[d].since = 0 \/ call'[d].since = call[d].since
            /\ call'[d].missing = {} \/ call'[d].missing = call[d].missing
  BY RetiredFacts
<1>2. /\ log.revision \in Nat /\ log.revision <= log'.revision /\ outside \subseteq outside'
      /\ chain \in Seq(Ops)
  BY DEF IInv, TypeOK, Logs
<1> DEFINE movers == {d \in Callers : call[d].pc = "retire"}
<1>3. /\ movers \in SUBSET Callers
      /\ \A d \in Callers \ movers : Bystander(d)
      /\ \A d \in movers : d \in Callers /\ call[d].pc = "retire" /\ call'[d].pc = where
  BY <1>1
<1> HIDE DEF movers
<1>4. ASSUME NEW d \in movers PROVE Informed(d)'
  <2>1. d \in Callers /\ call[d].pc = "retire" /\ call'[d].pc = where
    BY <1>3
  <2>2. call[d].since <= log.revision /\ call[d].missing = {}
    BY <2>1 DEF TInv, Informed
  <2>3. call'[d].since <= log'.revision /\ call'[d].missing = {}
    BY <1>1, <1>2, <2>1, <2>2
  <2>4. where \notin Past
    BY DEF Past
  <2> QED
    BY <2>1, <2>3, <2>4, Gone
<1>5. \A d \in movers : /\ Informed(d)'
                        /\ call'[d].pc # "commit" /\ ~(call[d].pc = "check" /\ call'[d].pc = "check")
                        /\ ~(call[d].pc \in Reserving /\ IsPooled(d))
  BY <1>3, <1>4 DEF Reserving
<1>6. PoolKeeps(movers)
  BY DEF PoolKeeps
<1>7. ChainKeeps(movers)
  <2>1. CASE UNCHANGED chain
    BY <2>1 DEF ChainKeeps, InChain, Ahead
  <2>2. CASE chain # <<>> /\ chain' = Tail(chain) /\ chain[1].kind # "commit"
    BY <1>2, <2>2, AheadTails DEF ChainKeeps, Op
  <2> QED
    BY <2>1, <2>2
<1>8. Fresh'
  <2>1. \A q \in Nat : OthersSince(q) => OthersSince(q)'
    BY DEF OthersSince
  <2> QED
    BY <1>3, <1>5, <2>1, FreshFrame DEF TInv
<1> QED
  BY <1>2, <1>3, <1>5, <1>6, <1>7, <1>8, Tells

LEMMA RetireFailsTells == ASSUME IInv, TInv, IInv', RetireFails PROVE TInv'
BY RetiredTells DEF RetireFails, logVars

LEMMA RetiresTells == ASSUME IInv, TInv, IInv', Retires PROVE TInv'
<1>1. /\ Starting("retire") /\ RetiredTo("loop") /\ chain' = Tail(chain)
      /\ UNCHANGED <<log, outside, pool>>
  BY DEF Retires, Running, logVars
<1>2. chain # <<>> /\ chain[1].kind # "commit"
  BY <1>1, OperationFacts DEF Starting
<1> QED
  BY <1>1, <1>2, RetiredTells

\* A read fills the entry with the log as it is: nobody can have read it before.
LEMMA LoadReadsTells == ASSUME IInv, TInv, IInv', LoadReads PROVE TInv'
<1> DEFINE e == Runner
<1>1. /\ Starting("load") /\ chain' = Tail(chain)
      /\ pool' = IF pool.entry = e THEN [pool EXCEPT !.phase = "ready", !.source = log] ELSE pool
      /\ UNCHANGED <<log, outside>>
      /\ call' = [c \in Callers |-> IF call[c].on = e /\ call[c].pc = "result"
                                    THEN [call[c] EXCEPT !.pc = "read", !.seen = log] ELSE call[c]]
  BY DEF LoadReads, Running, logVars
<1>2. /\ chain # <<>> /\ chain[1].kind = "load" /\ e \in Entries
      /\ pool.entry = e => pool.phase = "loading"
  <2>1. "load" \in Kinds
    BY DEF Kinds
  <2> QED
    BY <1>1, <2>1, RunningFacts DEF OpHolds
<1> HIDE DEF e
<1>3. /\ log \in Logs /\ log.revision \in Nat /\ chain \in Seq(Ops)
      /\ pool \in [entry : Entries \cup {None}, phase : Phases, source : Logs \cup {None}]
      /\ \A d \in Callers : call[d] \in CallStates
  BY DEF IInv, TypeOK, Logs
<1>4. ASSUME NEW d \in Callers
      PROVE  IF call[d].on = e /\ call[d].pc = "result"
             THEN /\ call'[d].pc = "read" /\ call'[d].on = e /\ call'[d].seen = log
                  /\ call'[d].since = call[d].since /\ call'[d].missing = call[d].missing
             ELSE Bystander(d)
  <2>1. call[d] \in CallStates
    BY <1>3
  <2>2. CASE call[d].on = e /\ call[d].pc = "result"
    <3>1. call'[d] = [call[d] EXCEPT !.pc = "read", !.seen = log]
      BY <1>1, <2>2
    <3> QED
      BY <2>1, <2>2, <3>1 DEF CallStates
  <2>3. CASE ~(call[d].on = e /\ call[d].pc = "result")
    <3>1. call'[d] = call[d]
      BY <1>1, <2>3
    <3> QED
      BY <2>3, <3>1 DEF Bystander
  <2> QED
    BY <2>2, <2>3
<1> DEFINE movers == {d \in Callers : call[d].on = e /\ call[d].pc = "result"}
<1>5. /\ movers \in SUBSET Callers
      /\ \A d \in Callers \ movers : Bystander(d)
      /\ \A d \in movers : /\ d \in Callers /\ call[d].pc = "result"
                           /\ call'[d].pc = "read" /\ call'[d].on = e /\ call'[d].seen = log
                           /\ call'[d].since = call[d].since /\ call'[d].missing = call[d].missing
  BY <1>4
<1> HIDE DEF movers
<1>6. \/ pool' = pool /\ pool.entry # e
      \/ pool.entry = e /\ pool'.entry = e /\ pool'.phase = "ready" /\ pool'.source = log
  BY <1>1, <1>3
<1>7. ASSUME NEW d \in movers PROVE Informed(d)'
  <2>1. call[d].since <= log.revision /\ call[d].missing = {}
    BY <1>5 DEF TInv, Informed
  <2> QED
    BY <1>1, <1>5, <1>6, <2>1 DEF Informed, Committing, IsPooled
<1>8. \A d \in movers : /\ Informed(d)'
                        /\ call'[d].pc # "commit" /\ ~(call[d].pc = "check" /\ call'[d].pc = "check")
                        /\ ~(call[d].pc \in Reserving /\ IsPooled(d))
  BY <1>5, <1>7 DEF Reserving
<1>9. PoolKeeps(movers)
  <2>1. CASE pool.entry = e /\ pool'.entry = e
    <3>1. \A d \in Callers : call[d].pc \in Past => ~IsPooled(d)
      BY <1>2, <2>1 DEF TInv, Informed
    <3> QED
      BY <2>1, <3>1 DEF PoolKeeps, IsPooled
  <2>2. CASE pool' = pool
    BY <2>2 DEF PoolKeeps
  <2> QED
    BY <1>6, <2>1, <2>2
<1>10. ChainKeeps(movers)
  <2>1. chain' = Tail(chain)
    BY <1>1
  <2> QED
    BY <1>2, <1>3, <2>1, AheadTails DEF ChainKeeps, Op
<1>11. Fresh'
  <2>1. CASE pool' = pool
    <3>1. \A q \in Nat : OthersSince(q) => OthersSince(q)'
      BY <1>1 DEF OthersSince
    <3> QED
      BY <1>5, <1>8, <2>1, <3>1, FreshFrame DEF TInv
  <2>2. CASE pool'.phase = "ready" /\ pool'.source = log
    <3>1. (pool'.source.revision + 1)..log'.revision = {}
      <4>1. pool'.source.revision = log.revision /\ log'.revision = log.revision
        BY <1>1, <2>2
      <4> QED
        BY <1>3, <4>1
    <3>2. (OthersSince(pool.source.revision))'
      BY <3>1 DEF OthersSince
    <3> QED
      BY <2>2, <3>2 DEF Fresh
  <2> QED
    BY <1>6, <2>1, <2>2
<1>12. log.revision <= log'.revision /\ outside \subseteq outside'
  <2>1. log' = log /\ outside' = outside
    BY <1>1
  <2> QED
    BY <1>3, <2>1
<1> QED
  BY <1>5, <1>8, <1>9, <1>10, <1>11, <1>12, Tells

LEMMA LoadFailsTells == ASSUME IInv, TInv, IInv', LoadFails PROVE TInv'
<1> DEFINE e == Runner
<1>1. /\ Starting("load") /\ chain' = Tail(chain) /\ Removal(e)
      /\ UNCHANGED <<log, outside>>
      /\ call' = [c \in Callers |->
                    IF call[c].on = e /\ call[c].pc = "result"
                    THEN [Idle EXCEPT !.pc = IF c \in Inspectors /\ live # None THEN "done" ELSE "failed"]
                    ELSE call[c]]
  BY DEF LoadFails, Running, logVars
<1>2. chain # <<>> /\ chain[1].kind = "load"
  BY <1>1, OperationFacts DEF Starting
<1> HIDE DEF e
<1>3. /\ log.revision \in Nat /\ chain \in Seq(Ops)
      /\ log.revision <= log'.revision /\ outside \subseteq outside'
  BY <1>1 DEF IInv, TypeOK, Logs
<1>4. ASSUME NEW d \in Callers
      PROVE  IF call[d].on = e /\ call[d].pc = "result"
             THEN call'[d].pc \in {"done", "failed"} /\ call'[d].since = 0 /\ call'[d].missing = {}
             ELSE Bystander(d)
  <2>1. CASE call[d].on = e /\ call[d].pc = "result"
    BY <1>1, <2>1 DEF Idle
  <2>2. CASE ~(call[d].on = e /\ call[d].pc = "result")
    <3>1. call'[d] = call[d]
      BY <1>1, <2>2
    <3> QED
      BY <2>2, <3>1 DEF Bystander
  <2> QED
    BY <2>1, <2>2
<1> DEFINE movers == {d \in Callers : call[d].on = e /\ call[d].pc = "result"}
<1>5. /\ movers \in SUBSET Callers
      /\ \A d \in Callers \ movers : Bystander(d)
      /\ \A d \in movers : /\ d \in Callers /\ call[d].pc = "result" /\ call'[d].pc \in {"done", "failed"}
                           /\ call'[d].since = 0 /\ call'[d].missing = {}
  BY <1>4
<1> HIDE DEF movers
<1>6. \A d \in movers : /\ Informed(d)'
                        /\ call'[d].pc # "commit" /\ ~(call[d].pc = "check" /\ call'[d].pc = "check")
                        /\ ~(call[d].pc \in Reserving /\ IsPooled(d))
  <2> TAKE d \in movers
  <2>1. /\ d \in Callers /\ call[d].pc = "result" /\ call'[d].pc \in {"done", "failed"}
        /\ call'[d].since = 0 /\ call'[d].missing = {}
    BY <1>5
  <2>2. call'[d].pc \notin Past /\ call[d].pc \notin Reserving
    BY <2>1 DEF Past, Reserving
  <2>3. call'[d].since <= log'.revision
    BY <1>1, <1>3, <2>1
  <2>4. Informed(d)'
    BY <2>1, <2>2, <2>3, Gone
  <2> QED
    BY <2>1, <2>2, <2>4
<1>7. pool' = pool \/ pool' = NoEntry
  BY <1>1 DEF Removal
<1>8. PoolKeeps(movers)
  BY <1>7, PreparationsAssumption DEF PoolKeeps, NoEntry, IInv, Reads
<1>9. ChainKeeps(movers)
  BY <1>1, <1>2, <1>3, AheadTails DEF ChainKeeps, Op
<1>10. Fresh'
  <2>1. \A q \in Nat : OthersSince(q) => OthersSince(q)'
    BY <1>1 DEF OthersSince
  <2> QED
    BY <1>5, <1>6, <1>7, <2>1, FreshFrame DEF TInv
<1> QED
  BY <1>3, <1>5, <1>6, <1>8, <1>9, <1>10, Tells

\* A commit that settles leaves the source fresh, or is what makes it doubtful: it failed,
\* found the log changed, or repaired it.
LEMMA CommitsTells == ASSUME IInv, TInv, IInv', Commits \/ CommitFails PROVE TInv'
<1>1. /\ Starting("commit") /\ UNCHANGED <<outside, pool>>
      /\ \A d \in Callers : call[d].pc # "committed"
  BY DEF Commits, CommitFails, Running, logVars
<1>2. PICK c \in Callers : /\ c = Runner /\ chain # <<>> /\ call[c].pc = "commit"
                          /\ chain[1] = [kind |-> "commit", of |-> c]
  <2>1. "commit" \in Kinds
    BY DEF Kinds
  <2> QED
    BY <1>1, <2>1, RunningFacts DEF OpHolds
<1>3. \E r \in {"committed", "stale", "failed"} :
         /\ Settles(r, "committed")
         /\ log' = log \/ (log' = Repaired /\ r = "stale" /\ IsCurrent(call[c].seen))
         /\ r = "committed" => IsCurrent(call[c].seen) /\ log' = log
  BY <1>2 DEF Commits, CommitFails, logVars
<1>4. PICK r \in {"committed", "stale", "failed"} :
         /\ Settles(r, "committed")
         /\ log' = log \/ (log' = Repaired /\ r = "stale" /\ IsCurrent(call[c].seen))
         /\ r = "committed" => IsCurrent(call[c].seen) /\ log' = log
  BY <1>3
<1>5. /\ Moves(c) /\ call'[c] = [call[c] EXCEPT !.outcome = r, !.pc = "committed"]
      /\ chain' = Tail(chain)
  <2>1. "committed" \in Steps
    BY DEF Steps
  <2> QED
    BY <1>2, <1>4, <2>1, SettlesFacts DEF Settles
<1>6. /\ call[c] \in CallStates /\ call[c].seen \in Logs /\ call[c].seen.revision \in Nat
      /\ log \in Logs /\ log.revision \in Nat /\ chain \in Seq(Ops)
  BY <1>2 DEF IInv, TypeOK, Reads, Past, Logs
<1>7. /\ call'[c].pc = "committed" /\ call'[c].outcome = r
      /\ call'[c].on = call[c].on /\ call'[c].seen = call[c].seen
      /\ call'[c].since = call[c].since /\ call'[c].missing = call[c].missing
  BY <1>5, <1>6 DEF CallStates
<1>8. log.revision <= log'.revision /\ log'.revision \in Nat /\ outside \subseteq outside'
  BY <1>1, <1>4, <1>6 DEF Repaired
<1>9. Informed(c)'
  <2>1. /\ call[c].since <= log.revision /\ call[c].missing = {} /\ call[c].since \in Nat
        /\ IsPooled(c) => call[c].seen = pool.source /\ pool.phase # "loading"
    BY <1>2, <1>6 DEF TInv, Informed, Past, CallStates
  <2>2. call'[c].since <= log'.revision
    BY <1>6, <1>7, <1>8, <2>1
  <2>3. IsPooled(c)' => call'[c].seen = pool'.source /\ pool'.phase # "loading"
    BY <1>1, <1>7, <2>1 DEF IsPooled
  <2>4. r = "committed" => call'[c].since <= call'[c].seen.revision
    BY <1>4, <1>7, <2>1 DEF IsCurrent
  <2> QED
    BY <1>7, <2>1, <2>2, <2>3, <2>4 DEF Informed, Committing
<1>10. Fresh'
  <2>1. ASSUME NEW d \in Callers, call[d].pc \in Reserving, IsPooled(d)
        PROVE  call'[d].pc \in Reserving /\ IsPooled(d)'
    <3>1. CASE d = c
      BY <1>1, <1>7, <2>1, <3>1 DEF Reserving, IsPooled
    <3>2. CASE d # c
      <4>1. Bystander(d)
        BY <1>5, <3>2 DEF Moves
      <4> QED
        BY <1>1, <2>1, <4>1 DEF Bystander, Reserving, IsPooled
    <3> QED
      BY <3>1, <3>2
  <2>2. ASSUME NEW d \in Callers, Doubtful(d) PROVE Doubtful(d)' \/ (d = c /\ r = "committed")
    <3>1. CASE d = c
      BY <1>1, <1>7, <2>2, <3>1 DEF Doubtful, IsPooled
    <3>2. CASE d # c
      BY <1>1, <1>5, <2>2, <3>2 DEF Doubtful, IsPooled, Moves, Bystander
    <3> QED
      BY <3>1, <3>2
  <2>3. ASSUME pool.phase \in {"ready", "committing", "reserved"}
        PROVE  (OthersSince(pool.source.revision))' \/ \E d \in Callers : Doubtful(d)'
    <3>1. CASE log' # log
      <4>1. r = "stale" /\ IsCurrent(call[c].seen)
        BY <1>4, <3>1
      <4>2. IsPooled(c)
        BY <1>2, <1>6, <4>1 DEF IInv, Reserved, IsCurrent
      <4>3. Doubtful(c)'
        BY <1>1, <1>7, <4>1, <4>2 DEF Doubtful, IsPooled
      <4> QED
        BY <1>2, <4>3
    <3>2. CASE log' = log /\ OthersSince(pool.source.revision)
      BY <1>1, <3>2 DEF OthersSince
    <3>3. ASSUME log' = log, NEW d \in Callers, Doubtful(d)
          PROVE  (OthersSince(pool.source.revision))' \/ \E x \in Callers : Doubtful(x)'
      <4>1. CASE Doubtful(d)'
        BY <4>1
      <4>2. CASE d = c /\ r = "committed"
        <5>1. call[c].seen = pool.source /\ IsCurrent(call[c].seen)
          BY <1>2, <1>4, <3>3, <4>2 DEF TInv, Informed, Past, Doubtful
        <5> QED
          BY <1>1, <1>6, <3>3, <5>1 DEF OthersSince, IsCurrent
      <4> QED
        BY <2>2, <3>3, <4>1, <4>2
    <3> QED
      BY <2>3, <3>1, <3>2, <3>3 DEF TInv, Fresh
  <2> QED
    BY <1>1, <2>1, <2>3 DEF TInv, Fresh
<1> DEFINE movers == {c}
<1>11. /\ movers \in SUBSET Callers
       /\ \A d \in Callers \ movers : Bystander(d) /\ d # c
       /\ \A d \in movers : d = c
  BY <1>2, <1>5 DEF Moves
<1> HIDE DEF movers
<1>12. \A d \in movers : /\ Informed(d)'
                         /\ call'[d].pc # "commit" /\ ~(call[d].pc = "check" /\ call'[d].pc = "check")
  BY <1>7, <1>9, <1>11
<1>13. PoolKeeps(movers)
  BY <1>1 DEF PoolKeeps
<1>14. ChainKeeps(movers)
  <2>1. \A d \in Callers \ movers : Op("commit", d) # chain[1]
    BY <1>2, <1>11 DEF Op
  <2> QED
    BY <1>2, <1>5, <1>6, <2>1, AheadTails DEF ChainKeeps
<1> QED
  BY <1>8, <1>10, <1>11, <1>12, <1>13, <1>14, Tells

\* A check that finds the log changed, while a commit of the same source is in doubt,
\* was queued before it.
LEMMA ChecksTells == ASSUME IInv, TInv, IInv', Checks PROVE TInv'
<1>0. PICK r \in {"current", "changed"} :
         /\ r = IF IsCurrent(call[Runner].seen) THEN "current" ELSE "changed"
         /\ Settles(r, "checked")
  BY DEF Checks
<1>1. /\ Starting("check") /\ chain' = Tail(chain)
      /\ UNCHANGED <<log, outside, pool>>
      /\ \A d \in Callers : call[d].pc # "committed"
  BY DEF Checks, Running, Settles, logVars
<1>2. PICK c \in Callers : /\ c = Runner /\ chain # <<>> /\ call[c].pc = "check"
                          /\ chain[1] = [kind |-> "check", of |-> c]
  <2>1. "check" \in Kinds
    BY DEF Kinds
  <2> QED
    BY <1>1, <2>1, RunningFacts DEF OpHolds
<1>3. Moves(c) /\ call'[c] = [call[c] EXCEPT !.outcome = r, !.pc = "checked"]
  <2>1. "checked" \in Steps
    BY DEF Steps
  <2> QED
    BY <1>0, <1>2, <2>1, SettlesFacts
<1>4. /\ call[c] \in CallStates /\ call[c].since \in Nat /\ log.revision \in Nat /\ chain \in Seq(Ops)
      /\ call[c].on \in Entries /\ call[c].seen \in Logs /\ call[c].seen.revision \in Nat
      /\ log.revision <= log'.revision /\ outside \subseteq outside'
  <2>1. call[c] \in CallStates /\ log.revision \in Nat /\ chain \in Seq(Ops)
    BY DEF IInv, TypeOK, Logs
  <2>2. call[c].on \in Entries /\ call[c].seen \in Logs
    BY <1>2 DEF IInv, Reads, Past
  <2> QED
    BY <1>1, <2>1, <2>2 DEF CallStates, Logs
<1>5. /\ call'[c].pc = "checked" /\ call'[c].outcome = r /\ call'[c].on = call[c].on
      /\ call'[c].seen = call[c].seen /\ call'[c].since = call[c].since
      /\ call'[c].missing = call[c].missing
  BY <1>3, <1>4 DEF CallStates
<1>6. /\ call[c].since <= log.revision /\ call[c].missing = {}
      /\ IsPooled(c) => call[c].seen = pool.source /\ pool.phase # "loading"
  BY <1>2 DEF TInv, Informed, Past
<1>7. IsPooled(c) => Gap(c) \subseteq outside
  <2> SUFFICES ASSUME IsPooled(c) PROVE Gap(c) \subseteq outside
    OBVIOUS
  <2>1. pool.phase \in {"ready", "committing", "reserved"}
    BY <1>4, <1>6, PreparationsAssumption DEF IInv, TypeOK, Reads, Phases, IsPooled, NoEntry
  <2>2. CASE OthersSince(pool.source.revision)
    BY <1>4, <1>6, <2>2 DEF OthersSince, Gap
  <2>3. ASSUME NEW d \in Callers, Doubtful(d) PROVE Gap(c) \subseteq outside
    <3>1. call[d].pc = "commit" /\ IsPooled(d)
      BY <1>1, <2>3 DEF Doubtful
    <3>2. InChain(Op("commit", d))
      BY <3>1 DEF TInv, Ordered
    <3>3. PICK j \in DOMAIN chain : chain[j] = Op("commit", d)
      BY <3>2 DEF InChain
    <3>4. j # 1 /\ 1 \in DOMAIN chain /\ 1 < j
      BY <1>2, <1>4, <3>3 DEF Op
    <3>5. Ahead(Op("check", c), Op("commit", d))
      BY <1>2, <3>3, <3>4 DEF Ahead, Op
    <3> QED
      BY <1>2, <3>1, <3>5 DEF TInv, Ordered
  <2> QED
    BY <2>1, <2>2, <2>3 DEF TInv, Fresh
<1>8. Informed(c)'
  <2>1. r = "current" => call[c].since <= call[c].seen.revision
    BY <1>0, <1>2, <1>6 DEF IsCurrent
  <2>2. IsPooled(c)' => IsPooled(c)
    BY <1>1, <1>5 DEF IsPooled
  <2>3. Gap(c)' = Gap(c)
    BY <1>5 DEF Gap
  <2> QED
    BY <1>1, <1>5, <1>6, <1>7, <2>1, <2>2, <2>3 DEF Informed, Committing
<1> DEFINE movers == {c}
<1>9. /\ movers \in SUBSET Callers
      /\ \A d \in Callers \ movers : Bystander(d)
      /\ \A d \in movers : d = c
  BY <1>2, <1>3 DEF Moves
<1> HIDE DEF movers
<1>10. \A d \in movers : /\ Informed(d)'
                         /\ call'[d].pc # "commit" /\ ~(call[d].pc = "check" /\ call'[d].pc = "check")
                         /\ ~(call[d].pc \in Reserving /\ IsPooled(d))
  BY <1>2, <1>5, <1>8, <1>9 DEF Reserving
<1>11. PoolKeeps(movers)
  BY <1>1 DEF PoolKeeps
<1>12. ChainKeeps(movers)
  BY <1>1, <1>2, <1>4, AheadTails DEF ChainKeeps, Op
<1>13. Fresh'
  <2>1. \A q \in Nat : OthersSince(q) => OthersSince(q)'
    BY <1>1 DEF OthersSince
  <2> QED
    BY <1>1, <1>9, <1>10, <2>1, FreshFrame DEF TInv
<1> QED
  BY <1>4, <1>9, <1>10, <1>11, <1>12, <1>13, Tells

LEMMA TInitially == Init => TInv
<1> SUFFICES ASSUME Init PROVE TInv
  OBVIOUS
<1>1. /\ chain = <<>> /\ pool = NoEntry /\ call = [c \in Callers |-> Idle] /\ log.revision = 1
  BY DEF Init
<1>2. \A c \in Callers : call[c].pc = "idle" /\ call[c].since = 0 /\ call[c].missing = {}
  BY <1>1 DEF Idle
<1>3. \A c \in Callers : Informed(c)
  BY <1>1, <1>2 DEF Informed, Committing, Past
<1>4. Fresh /\ Ordered
  BY <1>1, <1>2 DEF Fresh, NoEntry, Ordered, Ahead
<1> QED
  BY <1>3, <1>4 DEF TInv

LEMMA TInductive == IInv /\ TInv /\ IInv' /\ [Next]_vars => TInv'
<1> SUFFICES ASSUME IInv, TInv, IInv', [Next]_vars PROVE TInv'
  OBVIOUS
<1>1. CASE ChainStep \/ Retirement
  BY <1>1, LoadReadsTells, LoadFailsTells, CommitsTells, ChecksTells, RetiresTells, StillSteps,
     AdoptsTells, WritesTells, RetireFailsTells DEF ChainStep, Retirement
<1>2. ASSUME NEW c \in Callers, Call(c) \/ Resumes(c) \/ Holds(c) \/ Abort(c) PROVE TInv'
  BY <1>2, CallTells, LoopTells, LoadsLiveTells, ReserveTells, CommittedTells, QueueCheckTells,
     CheckedTells, PublishTells, ReleaseTells, AbortTells DEF Resumes, Holds
<1>3. CASE \/ \E a \in Appenders : QueueAppend(a)
           \/ LiveWrite \/ Dispose \/ Evict \/ WritesOutside \/ UNCHANGED vars
  BY <1>3, StillSteps
<1> QED
  BY <1>1, <1>2, <1>3 DEF Next, Done, Abortable, Callers

\* What a call is answered with holds all that was in the log when the call was made;
\* only a view lent from a preparation under way may lack something, and then only
\* what other processes wrote: a check and a commit of the same source cannot
\* cross on the chain unnoticed.
THEOREM TruthfulCorrect == Spec => []Truthful
<1>1. Init => IInv /\ TInv
  BY Initially, TInitially
<1>2. (IInv /\ TInv) /\ [Next]_vars => (IInv /\ TInv)'
  BY Inductive, TInductive
<1>3. IInv /\ TInv => Truthful
  BY DEF TInv, Informed, Truthful
<1> QED
  BY <1>1, <1>2, <1>3, PTL DEF Spec

=============================================================================
