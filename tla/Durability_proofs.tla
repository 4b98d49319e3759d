--------------------------- MODULE Durability_proofs ---------------------------
(***************************************************************************)
(* Proofs about what is made durable, in two parts.                        *)
(*                                                                         *)
(* Crash and resume (SessionRecovery), for any number of turns, steps,     *)
(* calls, crashes and faults: nothing acknowledged or shown to the model   *)
(* is lost, every log a reader sees is one the trace invariant accepts     *)
(* with each call of a repaired step answered exactly once, and a result   *)
(* that says its call was never started is true.                           *)
(*                                                                         *)
(* The write path (WriteBehind), for every MaxEvents and MaxFlushers: no   *)
(* accepted event is lost, duplicated or reordered, only one timeout       *)
(* callback is ever scheduled, retained work is never forgotten, a         *)
(* resolved flush is durable, and the controller implements DurableQueue.  *)
(***************************************************************************)
EXTENDS SessionRecovery, WriteBehind, FiniteSetTheorems, SequenceTheorems, NaturalsInduction,
        WellFoundedInduction, TLAPS

\* The library's induction takes a predicate as parameter; a least counterexample
\* serves in its place.
LEMMA LeastNatural == ASSUME NEW T \in SUBSET Nat, T # {} PROVE \E n \in T : \A m \in T : n <= m
<1> DEFINE R == OpToRel(<, Nat)
<1>1. IsWellFoundedOn(R, Nat)
  BY NatLessThanWellFounded
<1>2. R = {ss \in Nat \X Nat : ss[1] < ss[2]}
  BY DEF OpToRel
<1>3. \A n, m \in Nat : n < m => <<n, m>> \in R
  BY <1>2
<1> HIDE DEF R
<1>4. PICK n \in T : \A m \in T : ~(<<m, n>> \in R)
  BY <1>1, WFMin
<1>5. \A m \in T : ~(m < n)
  BY <1>3, <1>4
<1>6. \A m \in T : n <= m
  BY <1>5
<1> QED
  BY <1>6


\* The trace after each of the first n events of a log.
TraceStages(tr, l, f, n) == f = [k \in 0..n |-> IF k = 0 THEN tr ELSE Apply(f[k - 1], l[k])]

\* A table of the traces after each number of events, row by row.
LEMMA TraceStageOf ==
    ASSUME NEW tr, NEW l, NEW n \in Nat, NEW f, TraceStages(tr, l, f, n)
    PROVE  \A k \in 0..n : f[k] = IF k = 0 THEN tr ELSE Apply(f[k - 1], l[k])
  BY DEF TraceStages

\* There is such a table for any number of events.
LEMMA TraceStagesExist == ASSUME NEW tr, NEW l, NEW n \in Nat PROVE \E f : TraceStages(tr, l, f, n)
<1> DEFINE T == {k \in Nat : ~ \E f : TraceStages(tr, l, f, k)}
<1> SUFFICES ASSUME T # {} PROVE FALSE
  OBVIOUS
<1>1. PICK k \in T : \A m \in T : k <= m
  <2>1. T \in SUBSET Nat
    OBVIOUS
  <2> HIDE DEF T
  <2> QED
    BY <2>1, LeastNatural
<1>2. k \in Nat /\ ~ \E f : TraceStages(tr, l, f, k)
  OBVIOUS
<1>3. k # 0
  <2> SUFFICES ASSUME k = 0 PROVE FALSE
    OBVIOUS
  <2> DEFINE g == [j \in 0..0 |-> tr]
  <2>1. g = [j \in 0..0 |-> IF j = 0 THEN tr ELSE Apply(g[j - 1], l[j])]
    OBVIOUS
  <2> QED
    BY <1>2, <2>1 DEF TraceStages
<1>4. k - 1 \in Nat /\ k - 1 \notin T
  BY <1>1, <1>2, <1>3
<1>5. PICK g : TraceStages(tr, l, g, k - 1)
  BY <1>4
<1> DEFINE h == [j \in 0..k |-> IF j = k THEN Apply(g[k - 1], l[k]) ELSE g[j]]
<1>6. \A j \in 0..(k - 1) : h[j] = g[j]
  BY <1>2
<1>7. \A j \in 0..k : h[j] = IF j = 0 THEN tr ELSE Apply(h[j - 1], l[j])
  <2> TAKE j \in 0..k
  <2>1. CASE j = k
    BY <1>2, <1>3, <1>6, <2>1
  <2>2. CASE j # k
    <3>1. j \in 0..(k - 1) /\ (j # 0 => j - 1 \in 0..(k - 1))
      BY <1>2, <2>2
    <3>2. g[j] = IF j = 0 THEN tr ELSE Apply(g[j - 1], l[j])
      BY <1>4, <1>5, <3>1 DEF TraceStages
    <3> QED
      BY <1>6, <3>1, <3>2
  <2> QED
    BY <2>1, <2>2
<1>8. h = [j \in 0..k |-> IF j = 0 THEN tr ELSE Apply(h[j - 1], l[j])]
  <2>1. h = [j \in 0..k |-> h[j]]
    OBVIOUS
  <2> HIDE DEF h
  <2> QED
    BY <1>7, <2>1
<1> QED
  BY <1>2, <1>8 DEF TraceStages

\* Traces is that table, and After its last row.
LEMMA TraceIs ==
    ASSUME NEW tr, NEW l, Len(l) \in Nat
    PROVE  \E f : TraceStages(tr, l, f, Len(l)) /\ After(tr, l) = f[Len(l)] /\ Traces(tr, l) = f
<1>1. \E f : TraceStages(tr, l, f, Len(l))
  BY TraceStagesExist
<1> QED
  BY <1>1 DEF After, Traces, TraceStages

\* No event leaves the trace as it was.
LEMMA TraceEmpty == \A tr : After(tr, <<>>) = tr
<1>1. Len(<<>>) = 0
  OBVIOUS
<1> TAKE tr
<1>2. PICK f : TraceStages(tr, <<>>, f, 0) /\ After(tr, <<>>) = f[0]
  BY <1>1, TraceIs
<1> QED
  BY <1>2 DEF TraceStages

\* One more event moves the trace by one step.
LEMMA TraceAppend ==
    ASSUME NEW tr, NEW S, NEW l \in Seq(S), NEW e \in S
    PROVE  After(tr, Append(l, e)) = Apply(After(tr, l), e)
<1> DEFINE m == Append(l, e)
<1> DEFINE n == Len(l)
<1>1. n \in Nat /\ Len(m) = n + 1 /\ m[n + 1] = e /\ \A k \in 1..n : l[k] = m[k]
  OBVIOUS
<1> HIDE DEF m
<1>2. PICK f : TraceStages(tr, l, f, n) /\ After(tr, l) = f[n]
  BY <1>1, TraceIs
<1>3. PICK g : TraceStages(tr, m, g, n + 1) /\ After(tr, m) = g[n + 1]
  BY <1>1, TraceIs
<1> HIDE DEF n
<1>4. g[n + 1] = Apply(g[n], e)
  <2>1. n + 1 \in 0..(n + 1) /\ n + 1 \in Nat /\ n + 1 # 0 /\ (n + 1) - 1 = n
    BY <1>1
  <2> QED
    BY <1>1, <1>3, <2>1 DEF TraceStages
<1>5. f[n] = g[n]
  <2>1. f[0] = g[0] /\ (\A k \in 1..n : f[k] = Apply(f[k - 1], l[k]))
        /\ (\A k \in 1..n : g[k] = Apply(g[k - 1], m[k]))
    BY <1>1, <1>2, <1>3 DEF TraceStages
  <2> DEFINE T == {k \in 0..n : f[k] # g[k]}
  <2> SUFFICES ASSUME T # {} PROVE FALSE
    BY <1>1
  <2>2. PICK k \in T : \A j \in T : k <= j
    <3>1. T \in SUBSET Nat
      BY <1>1
    <3> HIDE DEF T
    <3> QED
      BY <3>1, LeastNatural
  <2>3. k \in 1..n /\ f[k] # g[k]
    BY <2>1
  <2>4. k - 1 \in 0..n /\ k - 1 \notin T
    BY <1>1, <2>2, <2>3
  <2>5. f[k - 1] = g[k - 1] /\ l[k] = m[k]
    BY <1>1, <2>3, <2>4
  <2> QED
    BY <2>1, <2>3, <2>5
<1> QED
  BY <1>2, <1>3, <1>4, <1>5 DEF m

\* What the closers' scan holds after each of the first n events of a log.
ScanStages(l, f, n) == f = [k \in 0..n |-> IF k = 0 THEN Unread ELSE ScanEvent(f[k - 1], l[k])]

\* A table of the scans after each number of events, row by row.
LEMMA ScanStageOf ==
    ASSUME NEW l, NEW n \in Nat, NEW f, ScanStages(l, f, n)
    PROVE  \A k \in 0..n : f[k] = IF k = 0 THEN Unread ELSE ScanEvent(f[k - 1], l[k])
  BY DEF ScanStages

\* There is such a table for any number of events.
LEMMA ScanStagesExist == ASSUME NEW l, NEW n \in Nat PROVE \E f : ScanStages(l, f, n)
<1> DEFINE T == {k \in Nat : ~ \E f : ScanStages(l, f, k)}
<1> SUFFICES ASSUME T # {} PROVE FALSE
  OBVIOUS
<1>1. PICK k \in T : \A m \in T : k <= m
  <2>1. T \in SUBSET Nat
    OBVIOUS
  <2> HIDE DEF T
  <2> QED
    BY <2>1, LeastNatural
<1>2. k \in Nat /\ ~ \E f : ScanStages(l, f, k)
  OBVIOUS
<1>3. k # 0
  <2> SUFFICES ASSUME k = 0 PROVE FALSE
    OBVIOUS
  <2> DEFINE g == [j \in 0..0 |-> Unread]
  <2>1. g = [j \in 0..0 |-> IF j = 0 THEN Unread ELSE ScanEvent(g[j - 1], l[j])]
    OBVIOUS
  <2> QED
    BY <1>2, <2>1 DEF ScanStages
<1>4. k - 1 \in Nat /\ k - 1 \notin T
  BY <1>1, <1>2, <1>3
<1>5. PICK g : ScanStages(l, g, k - 1)
  BY <1>4
<1> DEFINE h == [j \in 0..k |-> IF j = k THEN ScanEvent(g[k - 1], l[k]) ELSE g[j]]
<1>6. \A j \in 0..(k - 1) : h[j] = g[j]
  BY <1>2
<1>7. \A j \in 0..k : h[j] = IF j = 0 THEN Unread ELSE ScanEvent(h[j - 1], l[j])
  <2> TAKE j \in 0..k
  <2>1. CASE j = k
    BY <1>2, <1>3, <1>6, <2>1
  <2>2. CASE j # k
    <3>1. j \in 0..(k - 1) /\ (j # 0 => j - 1 \in 0..(k - 1))
      BY <1>2, <2>2
    <3>2. g[j] = IF j = 0 THEN Unread ELSE ScanEvent(g[j - 1], l[j])
      BY <1>4, <1>5, <3>1 DEF ScanStages
    <3> QED
      BY <1>6, <3>1, <3>2
  <2> QED
    BY <2>1, <2>2
<1>8. h = [j \in 0..k |-> IF j = 0 THEN Unread ELSE ScanEvent(h[j - 1], l[j])]
  <2>1. h = [j \in 0..k |-> h[j]]
    OBVIOUS
  <2> HIDE DEF h
  <2> QED
    BY <1>7, <2>1
<1> QED
  BY <1>2, <1>8 DEF ScanStages

\* Scan is the last row of that table.
LEMMA ScanIs ==
    ASSUME NEW l, Len(l) \in Nat
    PROVE  \E f : ScanStages(l, f, Len(l)) /\ Scan(l) = f[Len(l)]
<1>1. \E f : ScanStages(l, f, Len(l))
  BY ScanStagesExist
<1> QED
  BY <1>1 DEF Scan, ScanStages

\* Nothing read, nothing known.
LEMMA ScanEmpty == Scan(<<>>) = Unread
<1>1. Len(<<>>) = 0
  OBVIOUS
<1>2. PICK f : ScanStages(<<>>, f, 0) /\ Scan(<<>>) = f[0]
  BY <1>1, ScanIs
<1> QED
  BY <1>2 DEF ScanStages

\* One more event moves the scan by one step.
LEMMA ScanAppend ==
    ASSUME NEW S, NEW l \in Seq(S), NEW e \in S
    PROVE  Scan(Append(l, e)) = ScanEvent(Scan(l), e)
<1> DEFINE m == Append(l, e)
<1> DEFINE n == Len(l)
<1>1. n \in Nat /\ Len(m) = n + 1 /\ m[n + 1] = e /\ \A k \in 1..n : l[k] = m[k]
  OBVIOUS
<1> HIDE DEF m
<1>2. PICK f : ScanStages(l, f, n) /\ Scan(l) = f[n]
  BY <1>1, ScanIs
<1>3. PICK g : ScanStages(m, g, n + 1) /\ Scan(m) = g[n + 1]
  BY <1>1, ScanIs
<1> HIDE DEF n
<1>4. g[n + 1] = ScanEvent(g[n], e)
  <2>1. n + 1 \in 0..(n + 1) /\ n + 1 \in Nat /\ n + 1 # 0 /\ (n + 1) - 1 = n
    BY <1>1
  <2> QED
    BY <1>1, <1>3, <2>1 DEF ScanStages
<1>5. f[n] = g[n]
  <2>1. f[0] = g[0] /\ (\A k \in 1..n : f[k] = ScanEvent(f[k - 1], l[k]))
        /\ (\A k \in 1..n : g[k] = ScanEvent(g[k - 1], m[k]))
    BY <1>1, <1>2, <1>3 DEF ScanStages
  <2> DEFINE T == {k \in 0..n : f[k] # g[k]}
  <2> SUFFICES ASSUME T # {} PROVE FALSE
    BY <1>1
  <2>2. PICK k \in T : \A j \in T : k <= j
    <3>1. T \in SUBSET Nat
      BY <1>1
    <3> HIDE DEF T
    <3> QED
      BY <3>1, LeastNatural
  <2>3. k \in 1..n /\ f[k] # g[k]
    BY <2>1
  <2>4. k - 1 \in 0..n /\ k - 1 \notin T
    BY <1>1, <2>2, <2>3
  <2>5. f[k - 1] = g[k - 1] /\ l[k] = m[k]
    BY <1>1, <2>3, <2>4
  <2> QED
    BY <2>1, <2>3, <2>5
<1> QED
  BY <1>2, <1>3, <1>4, <1>5 DEF m

-----------------------------------------------------------------------------
(* Prefixes and concatenations.                                            *)

\* The places of a prefix.
LEMMA PrefixIs ==
    ASSUME NEW S, NEW l \in Seq(S), NEW n \in 0..Len(l)
    PROVE  /\ SubSeq(l, 1, n) \in Seq(S)
           /\ Len(SubSeq(l, 1, n)) = n
           /\ \A k \in 1..n : SubSeq(l, 1, n)[k] = l[k]
<1>1. \A k \in 1..n : l[k] \in S
  OBVIOUS
<1>2. n \in Int /\ 1 \in Int
  OBVIOUS
<1> DEFINE p == SubSeq(l, 1, n)
<1>3. p \in Seq(S) /\ Len(p) = (IF 1 <= n THEN n - 1 + 1 ELSE 0)
      /\ \A k \in 1..(n - 1 + 1) : p[k] = l[1 + k - 1]
  BY <1>1, <1>2, SubSeqProperties
<1> HIDE DEF p
<1>4. Len(p) = n /\ \A k \in 1..n : p[k] = l[k]
  BY <1>3
<1> QED
  BY <1>3, <1>4 DEF p

\* A prefix cut shorter is a shorter prefix.
LEMMA PrefixOfPrefix ==
    ASSUME NEW S, NEW l \in Seq(S), NEW n \in 0..Len(l), NEW m \in 0..n
    PROVE  SubSeq(SubSeq(l, 1, n), 1, m) = SubSeq(l, 1, m)
<1> DEFINE p == SubSeq(l, 1, n)
<1>1. p \in Seq(S) /\ Len(p) = n /\ \A k \in 1..n : p[k] = l[k]
  BY PrefixIs
<1> HIDE DEF p
<1> DEFINE q == SubSeq(p, 1, m)
<1> DEFINE r == SubSeq(l, 1, m)
<1>2. q \in Seq(S) /\ Len(q) = m /\ \A k \in 1..m : q[k] = p[k]
  BY <1>1, PrefixIs
<1>3. r \in Seq(S) /\ Len(r) = m /\ \A k \in 1..m : r[k] = l[k]
  <2>1. m \in 0..Len(l)
    OBVIOUS
  <2> QED
    BY <2>1, PrefixIs
<1> HIDE DEF q, r
<1>4. q = r
  BY <1>1, <1>2, <1>3, SeqEqual
<1> QED
  BY <1>4 DEF p, q, r

\* A sequence cut at its length is itself.
LEMMA PrefixWhole == ASSUME NEW S, NEW l \in Seq(S) PROVE SubSeq(l, 1, Len(l)) = l
  BY SubSeqFull

\* Appending leaves the prefixes.
LEMMA PrefixOfAppend ==
    ASSUME NEW S, NEW l \in Seq(S), NEW c \in S, NEW n \in 0..Len(l)
    PROVE  SubSeq(Append(l, c), 1, n) = SubSeq(l, 1, n)
<1> DEFINE m == Append(l, c)
<1>1. m \in Seq(S) /\ Len(m) = Len(l) + 1 /\ \A k \in 1..Len(l) : m[k] = l[k]
  OBVIOUS
<1> HIDE DEF m
<1> DEFINE q == SubSeq(m, 1, n)
<1> DEFINE r == SubSeq(l, 1, n)
<1>2. q \in Seq(S) /\ Len(q) = n /\ \A k \in 1..n : q[k] = m[k]
  <2>1. n \in 0..Len(m)
    BY <1>1
  <2> QED
    BY <1>1, <2>1, PrefixIs
<1>3. r \in Seq(S) /\ Len(r) = n /\ \A k \in 1..n : r[k] = l[k]
  BY PrefixIs
<1> HIDE DEF q, r
<1>4. q = r
  BY <1>1, <1>2, <1>3, SeqEqual
<1> QED
  BY <1>4 DEF m, q, r

\* The next longer prefix appends the next event.
LEMMA PrefixGrows ==
    ASSUME NEW S, NEW l \in Seq(S), NEW n \in Nat, n < Len(l)
    PROVE  SubSeq(l, 1, n + 1) = Append(SubSeq(l, 1, n), l[n + 1])
<1> DEFINE p == SubSeq(l, 1, n)
<1>1. p \in Seq(S) /\ Len(p) = n /\ \A k \in 1..n : p[k] = l[k]
  <2>1. n \in 0..Len(l)
    OBVIOUS
  <2> QED
    BY <2>1, PrefixIs
<1> DEFINE q == SubSeq(l, 1, n + 1)
<1>2. q \in Seq(S) /\ Len(q) = n + 1 /\ \A k \in 1..(n + 1) : q[k] = l[k]
  <2>1. n + 1 \in 0..Len(l)
    OBVIOUS
  <2> QED
    BY <2>1, PrefixIs
<1> HIDE DEF p, q
<1> DEFINE r == Append(p, l[n + 1])
<1>3. l[n + 1] \in S
  OBVIOUS
<1>4. r \in Seq(S) /\ Len(r) = n + 1 /\ r[n + 1] = l[n + 1] /\ \A k \in 1..n : r[k] = p[k]
  BY <1>1, <1>3
<1> HIDE DEF r
<1>5. \A k \in 1..(n + 1) : q[k] = r[k]
  BY <1>1, <1>2, <1>4
<1>6. q = r
  BY <1>2, <1>4, <1>5, SeqEqual
<1> QED
  BY <1>6 DEF p, q, r

\* The places of a concatenation.
LEMMA JoinIs ==
    ASSUME NEW S, NEW l \in Seq(S), NEW m \in Seq(S)
    PROVE  /\ l \o m \in Seq(S)
           /\ Len(l \o m) = Len(l) + Len(m)
           /\ Len(l) \in Nat /\ Len(m) \in Nat
           /\ \A k \in 1..Len(l) : (l \o m)[k] = l[k]
           /\ \A k \in 1..Len(m) : (l \o m)[Len(l) + k] = m[k]
<1>1. l \o m \in Seq(S) /\ Len(l \o m) = Len(l) + Len(m) /\ Len(l) \in Nat /\ Len(m) \in Nat
  OBVIOUS
<1>2. \A k \in 1..Len(l) : (l \o m)[k] = l[k]
  OBVIOUS
<1>3. \A k \in 1..Len(m) : (l \o m)[Len(l) + k] = m[k]
  OBVIOUS
<1> QED
  BY <1>1, <1>2, <1>3

\* Sequences with the same places are the same.
LEMMA SameSeq ==
    ASSUME NEW S, NEW l \in Seq(S), NEW m \in Seq(S), Len(l) = Len(m), \A k \in 1..Len(l) : l[k] = m[k]
    PROVE  l = m
  BY SeqEqual

\* Where a concatenation is cut.
LEMMA PrefixOfJoin ==
    ASSUME NEW S, NEW l \in Seq(S), NEW m \in Seq(S)
    PROVE  /\ \A n \in 0..Len(l) : SubSeq(l \o m, 1, n) = SubSeq(l, 1, n)
           /\ \A n \in 0..Len(m) : SubSeq(l \o m, 1, Len(l) + n) = l \o SubSeq(m, 1, n)
<1> DEFINE lm == l \o m
<1>1. /\ lm \in Seq(S) /\ Len(lm) = Len(l) + Len(m) /\ Len(l) \in Nat /\ Len(m) \in Nat
      /\ \A k \in 1..Len(l) : lm[k] = l[k]
      /\ \A k \in 1..Len(m) : lm[Len(l) + k] = m[k]
  BY JoinIs
<1> HIDE DEF lm
<1>2. ASSUME NEW n \in 0..Len(l) PROVE SubSeq(lm, 1, n) = SubSeq(l, 1, n)
  <2> DEFINE p == SubSeq(lm, 1, n)
  <2> DEFINE q == SubSeq(l, 1, n)
  <2>1. p \in Seq(S) /\ Len(p) = n /\ \A k \in 1..n : p[k] = lm[k]
    <3>1. n \in 0..Len(lm)
      BY <1>1
    <3> QED
      BY <1>1, <3>1, PrefixIs
  <2>2. q \in Seq(S) /\ Len(q) = n /\ \A k \in 1..n : q[k] = l[k]
    BY PrefixIs
  <2> HIDE DEF p, q
  <2>3. p = q
    BY <1>1, <2>1, <2>2, SameSeq
  <2> QED
    BY <2>3 DEF p, q
<1>3. ASSUME NEW n \in 0..Len(m) PROVE SubSeq(lm, 1, Len(l) + n) = l \o SubSeq(m, 1, n)
  <2> DEFINE p == SubSeq(lm, 1, Len(l) + n)
  <2> DEFINE r == SubSeq(m, 1, n)
  <2> DEFINE q == l \o r
  <2>1. p \in Seq(S) /\ Len(p) = Len(l) + n /\ \A k \in 1..(Len(l) + n) : p[k] = lm[k]
    <3>1. Len(l) + n \in 0..Len(lm)
      BY <1>1
    <3> QED
      BY <1>1, <3>1, PrefixIs
  <2>2. r \in Seq(S) /\ Len(r) = n /\ \A k \in 1..n : r[k] = m[k]
    BY PrefixIs
  <2> HIDE DEF p, r
  <2>3. q \in Seq(S) /\ Len(q) = Len(l) + n /\ (\A k \in 1..Len(l) : q[k] = l[k])
        /\ \A k \in 1..n : q[Len(l) + k] = r[k]
    <3> DEFINE y == Len(r)
    <3>1. q \in Seq(S) /\ Len(q) = Len(l) + y /\ (\A k \in 1..Len(l) : q[k] = l[k])
          /\ \A k \in 1..y : q[Len(l) + k] = r[k]
      <4>1. r \in Seq(S)
        BY <2>2
      <4> QED
        BY ONLY l \in Seq(S), <4>1, JoinIs
    <3> HIDE DEF y, q
    <3>2. y = n
      BY <2>2 DEF y
    <3> QED
      BY <3>1, <3>2
  <2> HIDE DEF q
  <2>4. \A k \in 1..(Len(l) + n) : p[k] = q[k]
    <3> TAKE k \in 1..(Len(l) + n)
    <3>1. CASE k <= Len(l)
      BY <1>1, <2>1, <2>3, <3>1
    <3>2. CASE k > Len(l)
      <4>1. PICK j \in 1..n : k = Len(l) + j
        <5>1. k - Len(l) \in 1..n /\ k = Len(l) + (k - Len(l))
          BY <1>1, <3>2
        <5> QED
          BY <5>1
      <4>2. j \in 1..Len(m)
        OBVIOUS
      <4>3. p[k] = lm[Len(l) + j] /\ q[k] = r[j]
        BY <2>1, <2>3, <4>1
      <4>4. lm[Len(l) + j] = m[j] /\ r[j] = m[j]
        BY <1>1, <2>2, <4>2
      <4> QED
        BY <4>3, <4>4
    <3> QED
      BY <1>1, <3>1, <3>2
  <2>5. p = q
    BY <1>1, <2>1, <2>3, <2>4, SameSeq
  <2> QED
    BY <2>5 DEF p, q, r
<1> QED
  BY <1>2, <1>3 DEF lm

\* The library's prefix, by places.
LEMMA PrefixMeans ==
    ASSUME NEW S, NEW s \in Seq(S), NEW t \in Seq(S)
    PROVE  IsPrefix(s, t) <=> Len(s) <= Len(t) /\ \A k \in 1..Len(s) : s[k] = t[k]
<1>1. SubSeq(s, 1, Len(s)) = s /\ Len(s) \in Nat /\ Len(t) \in Nat
  BY PrefixWhole
<1>2. ASSUME Len(s) <= Len(t)
      PROVE  s = SubSeq(t, 1, Len(s)) <=> \A k \in 1..Len(s) : s[k] = t[k]
  <2>1. Len(s) \in 0..Len(t)
    BY <1>1, <1>2
  <2> DEFINE p == SubSeq(t, 1, Len(s))
  <2>2. p \in Seq(S) /\ Len(p) = Len(s) /\ \A k \in 1..Len(s) : p[k] = t[k]
    BY <2>1, PrefixIs
  <2> HIDE DEF p
  <2>3. s = p <=> \A k \in 1..Len(s) : s[k] = t[k]
    BY <2>2, SameSeq
  <2> QED
    BY <2>3 DEF p
<1> QED
  BY <1>1, <1>2 DEF IsPrefix

\* A prefix of a prefix is a prefix.
LEMMA PrefixChain ==
    ASSUME NEW S, NEW s \in Seq(S), NEW t \in Seq(S), NEW u \in Seq(S), IsPrefix(s, t), IsPrefix(t, u)
    PROVE  IsPrefix(s, u)
<1>1. Len(s) <= Len(t) /\ \A k \in 1..Len(s) : s[k] = t[k]
  BY PrefixMeans
<1>2. Len(t) <= Len(u) /\ \A k \in 1..Len(t) : t[k] = u[k]
  BY PrefixMeans
<1>3. Len(s) \in Nat /\ Len(t) \in Nat /\ Len(u) \in Nat
  OBVIOUS
<1>4. Len(s) <= Len(u) /\ \A k \in 1..Len(s) : s[k] = u[k]
  BY <1>1, <1>2, <1>3
<1> QED
  BY <1>4, PrefixMeans

\* What comes first in a concatenation is a prefix of it.
LEMMA PrefixJoin ==
    ASSUME NEW S, NEW s \in Seq(S), NEW t \in Seq(S) PROVE IsPrefix(s, s \o t) /\ IsPrefix(s, s)
<1> DEFINE st == s \o t
<1>1. st \in Seq(S) /\ Len(st) = Len(s) + Len(t) /\ Len(s) \in Nat /\ Len(t) \in Nat
      /\ \A k \in 1..Len(s) : st[k] = s[k]
  BY JoinIs
<1> HIDE DEF st
<1>2. Len(s) <= Len(st)
  BY <1>1
<1>3. IsPrefix(s, st) /\ IsPrefix(s, s)
  BY <1>1, <1>2, PrefixMeans
<1> QED
  BY <1>3 DEF st

\* A prefix is the sequence cut at its length; as long as the sequence, it is the sequence.
LEMMA PrefixCut ==
    ASSUME NEW S, NEW s \in Seq(S), NEW t \in Seq(S), IsPrefix(s, t)
    PROVE  /\ Len(s) \in 0..Len(t) /\ s = SubSeq(t, 1, Len(s))
           /\ Len(s) >= Len(t) => s = t
<1>1. SubSeq(s, 1, Len(s)) = s /\ SubSeq(t, 1, Len(t)) = t /\ Len(s) \in Nat /\ Len(t) \in Nat
  BY PrefixWhole
<1>2. Len(s) <= Len(t) /\ s = SubSeq(t, 1, Len(s))
  BY <1>1 DEF IsPrefix
<1> QED
  BY <1>1, <1>2

\* Nothing joined changes nothing.
LEMMA JoinEmpty == ASSUME NEW S, NEW l \in Seq(S) PROVE l \o <<>> = l /\ <<>> \o l = l
  BY ConcatEmptySeq

\* Concatenation is associative.
LEMMA JoinAssociates ==
    ASSUME NEW S, NEW l \in Seq(S), NEW m \in Seq(S), NEW n \in Seq(S)
    PROVE  (l \o m) \o n = l \o (m \o n)
  BY SMTT(30)

\* To join one event is to append it.
LEMMA JoinOne ==
    ASSUME NEW S, NEW l \in Seq(S), NEW e \in S
    PROVE  l \o <<e>> = Append(l, e) /\ <<e>> \in Seq(S) /\ Append(l, e) \in Seq(S)
  BY AppendIsConcat

-----------------------------------------------------------------------------
(* Events, and what one of them does to a trace and to a scan.             *)

Types == {"turn/start", "turn/end", "step/start", "step/end", "assistant/message",
          "tool/call", "tool/result", "tool/not-started"}
CallTypes == {"tool/call", "tool/result", "tool/not-started"}
CallIds == Nat \X Nat \X Nat
Records == [type : Types, turn : Nat, step : Nat, call : CallIds \cup {NoId},
            calls : Seq(CallIds), by : {"loop", "repair"}]

\* A call is named after its step, and after its place in the message that asks for it.
Entries == {e \in Records :
    /\ e.type \in CallTypes => e.call \in CallIds /\ e.call[1] = e.turn /\ e.call[2] = e.step
    /\ e.type = "assistant/message" =>
           \A k \in 1..Len(e.calls) : e.calls[k] = CallId(e.turn, e.step, k)
    /\ e.type # "assistant/message" => e.calls = <<>>}

TraceSet == [openTurn : Nat, openStep : Nat, nextTurn : Nat, nextStep : Nat,
             pendingCalls : SUBSET CallIds]
Waiting == [id : CallIds, started : BOOLEAN]
ScanSet == [openTurn : Nat, openStep : Nat, pending : Seq(Waiting)]

\* The fields of an event.
LEMMA EntryIs ==
    ASSUME NEW e \in Entries
    PROVE  /\ e \in Records /\ e.type \in Types /\ e.turn \in Nat /\ e.step \in Nat
           /\ e.calls \in Seq(CallIds) /\ e.by \in {"loop", "repair"}
           /\ e.type \in CallTypes => e.call \in CallIds /\ e.call[1] = e.turn /\ e.call[2] = e.step
           /\ e.type = "assistant/message" =>
                  \A k \in 1..Len(e.calls) : e.calls[k] = CallId(e.turn, e.step, k)
           /\ e.type # "assistant/message" => e.calls = <<>>
<1>1. e \in Records
  BY DEF Entries
<1>2. e.type \in Types /\ e.turn \in Nat /\ e.step \in Nat
      /\ e.calls \in Seq(CallIds) /\ e.by \in {"loop", "repair"}
  BY <1>1 DEF Records
<1> QED
  BY <1>1, <1>2 DEF Entries

\* What each type of event does to each field of the trace.
LEMMA TraceMoves ==
    ASSUME NEW tr \in TraceSet, NEW e \in Entries
    PROVE  /\ Apply(tr, e) \in TraceSet
           /\ e.type = "turn/start" =>
                 Apply(tr, e).openTurn = e.turn /\ Apply(tr, e).nextStep = 1
           /\ e.type # "turn/start" /\ e.type # "turn/end" => Apply(tr, e).openTurn = tr.openTurn
           /\ e.type = "turn/end" => Apply(tr, e).openTurn = None
           /\ Apply(tr, e).nextTurn = IF e.type = "turn/end" THEN tr.nextTurn + 1 ELSE tr.nextTurn
           /\ e.type = "step/start" => Apply(tr, e).openStep = e.step
           /\ e.type = "step/end" =>
                 Apply(tr, e).openStep = None /\ Apply(tr, e).nextStep = tr.nextStep + 1
           /\ e.type # "step/start" /\ e.type # "step/end" => Apply(tr, e).openStep = tr.openStep
           /\ e.type # "turn/start" /\ e.type # "step/end" => Apply(tr, e).nextStep = tr.nextStep
           /\ Apply(tr, e).pendingCalls =
                 CASE e.type = "step/end" -> {}
                   [] e.type = "tool/call" -> tr.pendingCalls \cup {e.call}
                   [] e.type \in {"tool/result", "tool/not-started"} -> tr.pendingCalls \ {e.call}
                   [] OTHER -> tr.pendingCalls
<1>1. e.type \in Types /\ e.turn \in Nat /\ e.step \in Nat /\ (e.type \in CallTypes => e.call \in CallIds)
  BY EntryIs
<1>2. CASE e.type = "turn/start"
  <2>1. Apply(tr, e) =
        [openTurn |-> e.turn, openStep |-> tr.openStep, nextTurn |-> tr.nextTurn,
         nextStep |-> 1, pendingCalls |-> tr.pendingCalls]
    BY <1>2 DEF Apply, TraceSet, None
  <2> QED
    BY <1>1, <1>2, <2>1 DEF TraceSet, None
<1>3. CASE e.type = "turn/end"
  <2>1. Apply(tr, e) =
        [openTurn |-> None, openStep |-> tr.openStep, nextTurn |-> tr.nextTurn + 1,
         nextStep |-> tr.nextStep, pendingCalls |-> tr.pendingCalls]
    BY <1>3 DEF Apply, TraceSet, None
  <2> QED
    BY <1>1, <1>3, <2>1 DEF TraceSet, None
<1>4. CASE e.type = "step/start"
  <2>1. Apply(tr, e) =
        [openTurn |-> tr.openTurn, openStep |-> e.step, nextTurn |-> tr.nextTurn,
         nextStep |-> tr.nextStep, pendingCalls |-> tr.pendingCalls]
    BY <1>4 DEF Apply, TraceSet, None
  <2> QED
    BY <1>1, <1>4, <2>1 DEF TraceSet, None
<1>5. CASE e.type = "step/end"
  <2>1. Apply(tr, e) =
        [openTurn |-> tr.openTurn, openStep |-> None, nextTurn |-> tr.nextTurn,
         nextStep |-> tr.nextStep + 1, pendingCalls |-> {}]
    BY <1>5 DEF Apply, TraceSet, None
  <2> QED
    BY <1>1, <1>5, <2>1 DEF TraceSet, None
<1>6. CASE e.type = "assistant/message"
  BY <1>1, <1>6 DEF Apply, TraceSet, None
<1>7. CASE e.type = "tool/call"
  BY <1>1, <1>7 DEF Apply, TraceSet, None, CallTypes
<1>8. CASE e.type \in {"tool/result", "tool/not-started"}
  BY <1>1, <1>8 DEF Apply, TraceSet, None, CallTypes
<1> QED
  BY <1>1, <1>2, <1>3, <1>4, <1>5, <1>6, <1>7, <1>8 DEF Types

\* Boundaries, as the scan reads them.
LEMMA ScanBounds ==
    ASSUME NEW s \in ScanSet, NEW e \in Entries
    PROVE  /\ e.type = "turn/start" => ScanEvent(s, e) =
                 [openTurn |-> e.turn, openStep |-> None, pending |-> <<>>]
           /\ e.type = "turn/end" => ScanEvent(s, e) = [openTurn |-> None, openStep |-> None, pending |-> <<>>]
           /\ e.type = "step/start" => ScanEvent(s, e) =
                 [openTurn |-> s.openTurn, openStep |-> e.step, pending |-> s.pending]
           /\ e.type = "step/end" => ScanEvent(s, e) =
                 [openTurn |-> s.openTurn, openStep |-> None, pending |-> <<>>]
           /\ e.type \notin {"turn/start", "turn/end", "step/start", "step/end"} =>
                 ScanEvent(s, e).openTurn = s.openTurn /\ ScanEvent(s, e).openStep = s.openStep
  BY DEF ScanEvent, ScanSet, IsResult

\* The pending calls of a message.
LEMMA ScanMessage ==
    ASSUME NEW s \in ScanSet, NEW e \in Entries, e.type = "assistant/message", s.pending = <<>>
    PROVE  LET q == ScanEvent(s, e).pending IN
           /\ q \in Seq(Waiting) /\ Len(q) = Len(e.calls)
           /\ \A k \in 1..Len(q) : q[k].id = e.calls[k] /\ q[k].started = FALSE
<1> DEFINE q == ScanEvent(s, e).pending
<1> DEFINE n == Len(e.calls)
<1>1. e.calls \in Seq(CallIds) /\ n \in Nat /\ DOMAIN e.calls = 1..n
  BY EntryIs
<1> DEFINE r == [i \in 1..n |-> [id |-> e.calls[i], started |-> FALSE]]
<1>2. q = <<>> \o r
  BY <1>1 DEF ScanEvent, ScanSet, IsResult
<1>3. r \in Seq(Waiting) /\ Len(r) = n /\ \A k \in 1..n : r[k].id = e.calls[k] /\ r[k].started = FALSE
  BY <1>1 DEF Waiting
<1> HIDE DEF r, n, q
<1>4. q = r
  BY <1>2, <1>3, JoinEmpty
<1> QED
  BY <1>3, <1>4 DEF n, q

\* A recorded call is marked.
LEMMA ScanCall ==
    ASSUME NEW s \in ScanSet, NEW e \in Entries, e.type = "tool/call"
    PROVE  LET q == ScanEvent(s, e).pending IN
           /\ q \in Seq(Waiting) /\ Len(q) = Len(s.pending)
           /\ \A k \in 1..Len(q) : /\ q[k].id = s.pending[k].id
                                   /\ q[k].started = (s.pending[k].started \/ s.pending[k].id = e.call)
<1> DEFINE q == ScanEvent(s, e).pending
<1> DEFINE p == s.pending
<1> DEFINE n == Len(p)
<1>1. p \in Seq(Waiting) /\ n \in Nat /\ DOMAIN p = 1..n /\ \A k \in 1..n : p[k] \in Waiting
  BY DEF ScanSet
<1>2. q = [i \in DOMAIN p |-> IF p[i].id = e.call THEN [p[i] EXCEPT !.started = TRUE] ELSE p[i]]
  BY DEF ScanEvent, ScanSet, IsResult
<1> HIDE DEF p, q
<1>3. \A k \in 1..n : q[k] = IF p[k].id = e.call THEN [p[k] EXCEPT !.started = TRUE] ELSE p[k]
  BY <1>1, <1>2
<1>4. \A k \in 1..n : q[k] \in Waiting /\ q[k].id = p[k].id /\ q[k].started = (p[k].started \/ p[k].id = e.call)
  BY <1>1, <1>3 DEF Waiting
<1>5. q \in [1..n -> Waiting]
  BY <1>1, <1>2, <1>4
<1>6. q \in Seq(Waiting) /\ Len(q) = n
  BY <1>1, <1>5
<1> QED
  BY <1>4, <1>6 DEF p, q

\* A result settles the first pending call: the others keep their order.
LEMMA ScanResult ==
    ASSUME NEW s \in ScanSet, NEW e \in Entries, IsResult(e), s.pending # <<>>, s.pending[1].id = e.call,
           \A j, k \in 1..Len(s.pending) : s.pending[j].id = s.pending[k].id => j = k
    PROVE  LET q == ScanEvent(s, e).pending IN
           /\ q \in Seq(Waiting) /\ Len(q) = Len(s.pending) - 1 /\ q = Tail(s.pending)
           /\ \A k \in 1..Len(q) : q[k] = s.pending[k + 1]
<1> DEFINE q == ScanEvent(s, e).pending
<1> DEFINE p == s.pending
<1> DEFINE n == Len(p)
<1>1. p \in Seq(Waiting) /\ n \in Nat /\ DOMAIN p = 1..n /\ p # <<>>
  BY DEF ScanSet
<1>2. q = Delete(p, e.call)
  BY DEF ScanEvent, ScanSet, IsResult
<1>3. p[1].id = e.call /\ \A j, k \in 1..n : p[j].id = p[k].id => j = k
  OBVIOUS
<1> HIDE DEF p, q
<1>4. n > 0 /\ 1 \in 1..n
  BY <1>1
<1>5. {i \in DOMAIN p : p[i].id = e.call} = {1}
  BY <1>1, <1>3, <1>4
<1>6. q = RemoveAt(p, 1)
  BY <1>2, <1>5 DEF Delete
<1>7. q = SubSeq(p, 1, 0) \o SubSeq(p, 2, n)
  BY <1>6 DEF RemoveAt
<1>8. SubSeq(p, 1, 0) = <<>> /\ SubSeq(p, 2, n) = Tail(p)
  BY <1>1, <1>4
<1>9. Tail(p) \in Seq(Waiting) /\ Len(Tail(p)) = n - 1 /\ \A k \in 1..(n - 1) : Tail(p)[k] = p[k + 1]
  BY <1>1, <1>4
<1>10. q = Tail(p)
  BY <1>7, <1>8, <1>9, JoinEmpty
<1> QED
  BY <1>9, <1>10 DEF p, q

-----------------------------------------------------------------------------
(* The last turn of a log.                                                 *)

\* A set of places that is not empty has a last one.
LEMMA GreatestPlace ==
    ASSUME NEW n \in Nat, NEW P \in SUBSET (1..n), P # {} PROVE \E x \in P : \A y \in P : x >= y
<1> DEFINE B == {k \in Nat : \A y \in P : y <= k}
<1>1. n \in B
  OBVIOUS
<1>2. PICK k \in B : \A j \in B : k <= j
  <2>1. B \in SUBSET Nat /\ B # {}
    BY <1>1
  <2> HIDE DEF B
  <2> QED
    BY <2>1, LeastNatural
<1>3. k \in P
  <2> SUFFICES ASSUME k \notin P PROVE FALSE
    OBVIOUS
  <2>1. PICK y \in P : TRUE
    OBVIOUS
  <2>2. k >= 1
    BY <2>1
  <2>3. k - 1 \in B
    BY <2>2
  <2> QED
    BY <1>2, <2>3
<1> QED
  BY <1>3

\* No turn was started in an empty log.
LEMMA LastTurnEmpty == LastTurn(<<>>) = 0
<1>1. DOMAIN <<>> = {}
  OBVIOUS
<1> QED
  BY <1>1 DEF LastTurn, TurnOfLast

\* Only turn/start changes the last turn.
LEMMA LastTurnAppend ==
    ASSUME NEW l \in Seq(Entries), NEW e \in Entries
    PROVE  LastTurn(Append(l, e)) = IF e.type = "turn/start" THEN e.turn ELSE LastTurn(l)
<1> DEFINE m == Append(l, e)
<1> DEFINE n == Len(l)
<1>1. n \in Nat /\ DOMAIN l = 1..n /\ DOMAIN m = 1..(n + 1) /\ m[n + 1] = e /\ \A k \in 1..n : m[k] = l[k]
  OBVIOUS
<1> HIDE DEF m, n
<1> DEFINE P == {i \in DOMAIN l : l[i].type = "turn/start"}
<1> DEFINE Q == {i \in DOMAIN m : m[i].type = "turn/start"}
<1>2. CASE e.type = "turn/start"
  <2>1. n + 1 \in Q /\ \A y \in Q : n + 1 >= y
    BY <1>1, <1>2
  <2>2. \A x \in Q : (\A y \in Q : x >= y) => x = n + 1
    BY <1>1, <2>1
  <2> HIDE DEF Q
  <2>3. Max(Q) = n + 1
    BY <2>1, <2>2 DEF Max
  <2>4. TurnOfLast(m, Q) = e.turn
    BY <1>1, <2>1, <2>3 DEF TurnOfLast
  <2> QED
    BY <1>2, <2>4 DEF LastTurn, Q, m
<1>3. CASE e.type # "turn/start"
  <2>1. P = Q /\ P \in SUBSET (1..n)
    <3>1. \A i \in Q : i \in P
      BY <1>1, <1>3
    <3>2. \A i \in P : i \in Q
      BY <1>1
    <3> QED
      BY <1>1, <3>1, <3>2
  <2> HIDE DEF P, Q
  <2>2. CASE P = {}
    <3>1. TurnOfLast(m, Q) = TurnOfLast(l, P)
      BY <2>1, <2>2 DEF TurnOfLast
    <3> QED
      BY <1>3, <3>1 DEF LastTurn, P, Q, m
  <2>3. CASE P # {}
    <3>1. \E x \in P : \A y \in P : x >= y
      BY <1>1, <2>1, <2>3, GreatestPlace
    <3>2. Max(P) \in P
      BY <3>1 DEF Max
    <3>3. m[Max(P)] = l[Max(P)]
      BY <1>1, <2>1, <3>2
    <3>4. TurnOfLast(m, Q) = TurnOfLast(l, P)
      BY <2>1, <2>3, <3>3 DEF TurnOfLast
    <3> QED
      BY <1>3, <3>4 DEF LastTurn, P, Q, m
  <2> QED
    BY <2>2, <2>3
<1> QED
  BY <1>2, <1>3

-----------------------------------------------------------------------------
(* What a log says, and the events that fit after it.                      *)

ResultIn(l, c) == \E i \in 1..Len(l) : IsResult(l[i]) /\ l[i].call = c
CalledIn(l, c) == \E i \in 1..Len(l) : l[i].type = "tool/call" /\ l[i].call = c
ClosedIn(l, t, s) == \E i \in 1..Len(l) : /\ l[i].type = "step/end" /\ l[i].by = "repair"
                                          /\ l[i].turn = t /\ l[i].step = s

\* The scan stands where the trace does, and numbers count up.
Aligned(tr, s, last) ==
    /\ tr.openTurn = s.openTurn /\ tr.openStep = s.openStep
    /\ tr.nextTurn # 0 /\ tr.nextStep # 0
    /\ s.openTurn = None => s.openStep = None /\ tr.nextTurn = last + 1
    /\ s.openTurn # None => s.openTurn = tr.nextTurn /\ last = tr.nextTurn
    /\ s.openStep # None => s.openStep = tr.nextStep

\* No event is of a turn or a step to come.
Behind(l, tr, s, last) ==
    \A i \in 1..Len(l) :
        /\ l[i].turn <= last
        /\ s.openTurn # None /\ l[i].turn = s.openTurn =>
               /\ l[i].step <= tr.nextStep
               /\ s.openStep = None => l[i].step < tr.nextStep

\* The pending calls are the unanswered ones of the open step, marked when recorded.
Owed(l, tr, s) ==
    /\ s.openStep = None => s.pending = <<>>
    /\ \A k \in 1..Len(s.pending) :
          /\ s.pending[k].id[1] = s.openTurn /\ s.pending[k].id[2] = s.openStep
          /\ ~ResultIn(l, s.pending[k].id)
          /\ s.pending[k].started <=> CalledIn(l, s.pending[k].id)
    /\ \A j, k \in 1..Len(s.pending) : s.pending[j].id = s.pending[k].id => j = k
    /\ \A c : c \in tr.pendingCalls <=> \E k \in 1..Len(s.pending) : s.pending[k].started /\ s.pending[k].id = c

OneResult(l) ==
    \A i, j \in 1..Len(l) : IsResult(l[i]) /\ IsResult(l[j]) /\ l[i].call = l[j].call => i = j

\* A call reported as not started was never recorded.
NoFalseStart(l) ==
    \A i, j \in 1..Len(l) : l[i].type = "tool/not-started" /\ l[j].type = "tool/call" => l[i].call # l[j].call

\* A call that was asked for is pending or answered while its step is open, and
\* answered when a repair closed the step.
Covered(l, s) ==
    \A i \in 1..Len(l) : l[i].type = "assistant/message" =>
        \A k \in 1..Len(l[i].calls) :
            /\ s.openStep # None /\ l[i].turn = s.openTurn /\ l[i].step = s.openStep =>
                   ResultIn(l, l[i].calls[k]) \/ \E p \in 1..Len(s.pending) : s.pending[p].id = l[i].calls[k]
            /\ ClosedIn(l, l[i].turn, l[i].step) => ResultIn(l, l[i].calls[k])

Coherent(l, tr, s, last) ==
    /\ tr \in TraceSet /\ s \in ScanSet /\ last \in Nat
    /\ Aligned(tr, s, last) /\ Behind(l, tr, s, last) /\ Owed(l, tr, s)
    /\ OneResult(l) /\ NoFalseStart(l) /\ Covered(l, s)

InStep == {"step/end", "assistant/message", "tool/call", "tool/result", "tool/not-started"}

\* What the driver and the repair heed when they append e to l.
Admits(l, tr, s, last, e) ==
    /\ e.type = "turn/start" => s.openTurn = None /\ e.turn = last + 1 /\ e.step = None
    /\ e.type \in {"turn/end", "step/start"} =>
           s.openTurn # None /\ e.turn = s.openTurn /\ s.openStep = None
    /\ e.type = "turn/end" => e.step = None
    /\ e.type = "step/start" => e.step = tr.nextStep
    /\ e.type \in InStep => s.openStep # None /\ e.turn = s.openTurn /\ e.step = s.openStep
    /\ e.type = "step/end" /\ e.by = "repair" => s.pending = <<>>
    /\ e.type = "assistant/message" =>
           /\ s.pending = <<>>
           /\ \A i \in 1..Len(l) : l[i].turn = e.turn /\ l[i].step = e.step => l[i].type = "step/start"
    /\ e.type = "tool/call" => \E k \in 1..Len(s.pending) : s.pending[k].id = e.call
    /\ IsResult(e) => /\ s.pending # <<>> /\ s.pending[1].id = e.call
                      /\ e.type = "tool/result" <=> s.pending[1].started

\* e is appended to l: the places of the longer log.
Grown(l, e, m) ==
    /\ Len(l) \in Nat /\ Len(m) = Len(l) + 1 /\ m[Len(l) + 1] = e
    /\ \A k \in 1..Len(l) : m[k] = l[k]

\* Append grows a log.
LEMMA GrownIs == ASSUME NEW S, NEW l \in Seq(S), NEW e \in S PROVE Grown(l, e, Append(l, e))
  BY DEF Grown

\* The places of a grown log are those it had, and one more.
LEMMA GrownPlaces ==
    ASSUME NEW l, NEW e, NEW m, Grown(l, e, m)
    PROVE  /\ \A k \in 1..Len(l) : k \in 1..Len(m) /\ m[k] = l[k]
           /\ Len(l) + 1 \in 1..Len(m) /\ m[Len(l) + 1] = e
           /\ \A k \in 1..Len(m) : k \in 1..Len(l) \/ k = Len(l) + 1
  BY DEF Grown

\* A grown log has the results it had, and perhaps one more.
LEMMA ResultGrown ==
    ASSUME NEW l, NEW e, NEW m, Grown(l, e, m), NEW c
    PROVE  ResultIn(m, c) <=> ResultIn(l, c) \/ (IsResult(e) /\ e.call = c)
  BY GrownPlaces DEF ResultIn

\* The same of the calls it records.
LEMMA CalledGrown ==
    ASSUME NEW l, NEW e, NEW m, Grown(l, e, m), NEW c
    PROVE  CalledIn(m, c) <=> CalledIn(l, c) \/ (e.type = "tool/call" /\ e.call = c)
  BY GrownPlaces DEF CalledIn

\* The same of the steps a repair has closed.
LEMMA ClosedGrown ==
    ASSUME NEW l, NEW e, NEW m, Grown(l, e, m), NEW t, NEW s
    PROVE  ClosedIn(m, t, s) <=> ClosedIn(l, t, s)
                                 \/ (e.type = "step/end" /\ e.by = "repair" /\ e.turn = t /\ e.step = s)
  BY GrownPlaces DEF ClosedIn

\* An event moves the scan's boundaries and its pending calls.
LEMMA ScanMoves ==
    ASSUME NEW l \in Seq(Entries), NEW e \in Entries, NEW tr, NEW s, NEW last,
           Coherent(l, tr, s, last), Admits(l, tr, s, last, e), NEW s2, s2 = ScanEvent(s, e)
    PROVE  /\ s2 \in ScanSet
           /\ s2.openTurn = IF e.type = "turn/start" THEN e.turn
                            ELSE IF e.type = "turn/end" THEN None ELSE s.openTurn
           /\ s2.openStep = IF e.type = "step/start" THEN e.step
                            ELSE IF e.type \in {"turn/start", "turn/end", "step/end"} THEN None ELSE s.openStep
           /\ e.type \in {"turn/start", "turn/end", "step/start", "step/end"} => s2.pending = <<>>
           /\ e.type = "assistant/message" =>
                 /\ Len(s2.pending) = Len(e.calls)
                 /\ \A k \in 1..Len(s2.pending) : s2.pending[k].id = e.calls[k] /\ ~s2.pending[k].started
           /\ e.type = "tool/call" =>
                 /\ Len(s2.pending) = Len(s.pending)
                 /\ \A k \in 1..Len(s2.pending) :
                       /\ s2.pending[k].id = s.pending[k].id
                       /\ s2.pending[k].started <=> (s.pending[k].started \/ s.pending[k].id = e.call)
           /\ IsResult(e) =>
                 /\ Len(s2.pending) = Len(s.pending) - 1 /\ s2.pending = Tail(s.pending)
                 /\ \A k \in 1..Len(s2.pending) : s2.pending[k] = s.pending[k + 1]
<1>1. s \in ScanSet /\ s.openTurn \in Nat /\ s.openStep \in Nat /\ s.pending \in Seq(Waiting)
  BY DEF Coherent, ScanSet
<1>2. e.type \in Types /\ e.turn \in Nat /\ e.step \in Nat
  BY EntryIs
<1>3. <<>> \in Seq(Waiting) /\ None \in Nat
  BY DEF None
<1>4. CASE e.type \in {"turn/start", "turn/end", "step/start", "step/end"}
  <2>1. e.type = "step/start" => s.pending = <<>>
    BY DEF Coherent, Owed, Admits
  <2>2. s2 =
        
         [openTurn |-> IF e.type = "turn/start" THEN e.turn ELSE IF e.type = "turn/end" THEN None ELSE s.openTurn,
              openStep |-> IF e.type = "step/start" THEN e.step ELSE None,
              pending |-> <<>>]
    BY <1>1, <1>4, <2>1, ScanBounds
  <2> QED
    BY <1>1, <1>2, <1>3, <1>4, <2>2 DEF ScanSet, IsResult
<1>5. CASE e.type \notin {"turn/start", "turn/end", "step/start", "step/end"}
  <2>1. s2.openTurn = s.openTurn /\ s2.openStep = s.openStep
    BY <1>1, <1>5, ScanBounds
  <2> DEFINE q == s2.pending
  <2>2. q = ScanEvent(s, e).pending
    OBVIOUS
  <2>3. s2 = [openTurn |-> s2.openTurn, openStep |-> s2.openStep, pending |-> q]
    BY <1>1, <1>2, <1>5 DEF ScanEvent, ScanSet, IsResult, Types
  <2> HIDE DEF q
  <2>4. CASE e.type = "assistant/message"
    <3>1. s.pending = <<>>
      BY <2>4 DEF Admits
    <3>2. q \in Seq(Waiting) /\ Len(q) = Len(e.calls)
          /\ \A k \in 1..Len(q) : q[k].id = e.calls[k] /\ q[k].started = FALSE
      BY <1>1, <2>2, <2>4, <3>1, ScanMessage
    <3>3. s2 \in ScanSet
      BY <1>1, <2>1, <2>3, <3>2 DEF ScanSet
    <3> QED
      BY <2>1, <2>4, <3>2, <3>3 DEF q, IsResult
  <2>5. CASE e.type = "tool/call"
    <3>2. q \in Seq(Waiting) /\ Len(q) = Len(s.pending)
          /\ \A k \in 1..Len(q) : /\ q[k].id = s.pending[k].id
                                  /\ q[k].started = (s.pending[k].started \/ s.pending[k].id = e.call)
      BY <1>1, <2>2, <2>5, ScanCall
    <3>3. s2 \in ScanSet
      BY <1>1, <2>1, <2>3, <3>2 DEF ScanSet
    <3> QED
      BY <2>1, <2>5, <3>2, <3>3 DEF q, IsResult
  <2>6. CASE IsResult(e)
    <3>1. s.pending # <<>> /\ s.pending[1].id = e.call
          /\ \A j, k \in 1..Len(s.pending) : s.pending[j].id = s.pending[k].id => j = k
      BY <2>6 DEF Admits, Coherent, Owed
    <3>2. q \in Seq(Waiting) /\ Len(q) = Len(s.pending) - 1 /\ q = Tail(s.pending)
          /\ \A k \in 1..Len(q) : q[k] = s.pending[k + 1]
      BY <1>1, <2>2, <2>6, <3>1, ScanResult
    <3>3. s2 \in ScanSet
      <4>1. q \in Seq(Waiting)
        BY <3>2
      <4> QED
        BY <1>1, <2>1, <2>3, <4>1 DEF ScanSet
    <3> QED
      BY <2>1, <2>6, <3>2, <3>3 DEF q, IsResult
  <2> QED
    BY <1>2, <1>5, <2>4, <2>5, <2>6 DEF Types, IsResult
<1> QED
  BY <1>4, <1>5

\* An event that fits leaves scan and trace aligned, and nothing ahead of them.
LEMMA AlignedAppend ==
    ASSUME NEW l \in Seq(Entries), NEW e \in Entries, NEW tr, NEW s, NEW last,
           Coherent(l, tr, s, last), Admits(l, tr, s, last, e),
           NEW s2, s2 = ScanEvent(s, e), NEW tr2, tr2 = Apply(tr, e),
           NEW last2, last2 = (IF e.type = "turn/start" THEN e.turn ELSE last),
           NEW m, Grown(l, e, m), m \in Seq(Entries)
    PROVE  /\ tr2 \in TraceSet /\ s2 \in ScanSet /\ last2 \in Nat
           /\ Aligned(tr2, s2, last2) /\ Behind(m, tr2, s2, last2)
<1>1. tr \in TraceSet /\ last \in Nat /\ s \in ScanSet /\ Aligned(tr, s, last) /\ Behind(l, tr, s, last)
  BY DEF Coherent
<1>2. /\ e.type \in Types /\ e.turn \in Nat /\ e.step \in Nat
  BY EntryIs
<1>3. tr2 \in TraceSet /\ s2 \in ScanSet /\ last2 \in Nat
  BY <1>1, <1>2, TraceMoves, ScanMoves
<1>4. /\ tr.openTurn \in Nat /\ tr.openStep \in Nat /\ tr.nextTurn \in Nat /\ tr.nextStep \in Nat
      /\ s.openTurn \in Nat /\ s.openStep \in Nat
  BY <1>1 DEF TraceSet, ScanSet
<1>5. /\ tr2.openTurn = IF e.type = "turn/start" THEN e.turn ELSE IF e.type = "turn/end" THEN None ELSE tr.openTurn
      /\ tr2.openStep = IF e.type = "step/start" THEN e.step ELSE IF e.type = "step/end" THEN None ELSE tr.openStep
      /\ tr2.nextTurn = IF e.type = "turn/end" THEN tr.nextTurn + 1 ELSE tr.nextTurn
      /\ tr2.nextStep = IF e.type = "turn/start" THEN 1 ELSE IF e.type = "step/end" THEN tr.nextStep + 1 ELSE tr.nextStep
  BY <1>1, <1>2, TraceMoves
<1>6. /\ s2.openTurn = IF e.type = "turn/start" THEN e.turn ELSE IF e.type = "turn/end" THEN None ELSE s.openTurn
      /\ s2.openStep = IF e.type = "step/start" THEN e.step
                       ELSE IF e.type \in {"turn/start", "turn/end", "step/end"} THEN None ELSE s.openStep
  BY ScanMoves
<1>7. /\ e.type = "turn/start" => s.openTurn = None /\ e.turn = last + 1 /\ e.step = None
      /\ e.type \in {"turn/end", "step/start"} => s.openTurn # None /\ e.turn = s.openTurn /\ s.openStep = None
      /\ e.type = "turn/end" => e.step = None
      /\ e.type = "step/start" => e.step = tr.nextStep
      /\ e.type \in InStep => s.openStep # None /\ e.turn = s.openTurn /\ e.step = s.openStep
  BY DEF Admits
<1>8. Aligned(tr2, s2, last2)
  BY <1>1, <1>2, <1>4, <1>5, <1>6, <1>7 DEF Aligned, None, Types, InStep
<1>9. Behind(m, tr2, s2, last2)
  <2> SUFFICES ASSUME NEW i \in 1..Len(m)
               PROVE  /\ m[i].turn <= last2
                      /\ s2.openTurn # None /\ m[i].turn = s2.openTurn =>
                           /\ m[i].step <= tr2.nextStep
                           /\ s2.openStep = None => m[i].step < tr2.nextStep
    BY DEF Behind
  <2>1. CASE i \in 1..Len(l)
    <3>1. m[i] = l[i] /\ l[i] \in Entries
      BY <2>1 DEF Grown
    <3>2. l[i].turn \in Nat /\ l[i].step \in Nat
      BY <3>1, EntryIs
    <3>3. /\ l[i].turn <= last
          /\ s.openTurn # None /\ l[i].turn = s.openTurn =>
                 /\ l[i].step <= tr.nextStep
                 /\ s.openStep = None => l[i].step < tr.nextStep
      BY <1>1, <2>1 DEF Behind
    <3> QED
      BY <1>1, <1>2, <1>4, <1>5, <1>6, <1>7, <3>1, <3>2, <3>3 DEF Aligned, None, Types, InStep
  <2>2. CASE i = Len(l) + 1
    <3>1. m[i] = e
      BY <2>2 DEF Grown
    <3> QED
      BY <1>1, <1>2, <1>4, <1>5, <1>6, <1>7, <3>1 DEF Aligned, None, Types, InStep
  <2> QED
    BY <2>1, <2>2, GrownPlaces
<1> QED
  BY <1>3, <1>8, <1>9

\* The pending calls after a message, a recorded call and a result.
LEMMA OwedMessage ==
    ASSUME NEW l \in Seq(Entries), NEW e \in Entries, NEW tr, NEW s, NEW last,
           Coherent(l, tr, s, last), Admits(l, tr, s, last, e), e.type = "assistant/message",
           NEW m, Grown(l, e, m)
    PROVE  Owed(m, Apply(tr, e), ScanEvent(s, e))
<1> DEFINE s2 == ScanEvent(s, e)
<1> DEFINE tr2 == Apply(tr, e)
<1>1. tr \in TraceSet /\ s \in ScanSet
  BY DEF Coherent
<1>2. /\ s2.openTurn = s.openTurn /\ s2.openStep = s.openStep /\ Len(s2.pending) = Len(e.calls)
      /\ \A k \in 1..Len(s2.pending) : s2.pending[k].id = e.calls[k] /\ ~s2.pending[k].started
  BY ScanMoves
<1>3. tr2.pendingCalls = tr.pendingCalls
  BY <1>1, TraceMoves
<1>4. /\ s.openStep # None /\ e.turn = s.openTurn /\ e.step = s.openStep /\ s.pending = <<>>
      /\ \A i \in 1..Len(l) : l[i].turn = e.turn /\ l[i].step = e.step => l[i].type = "step/start"
  BY DEF Admits, InStep
<1>5. tr.pendingCalls = {}
  <2>1. Len(s.pending) = 0
    BY <1>4
  <2>2. \A c : c \in tr.pendingCalls <=> \E k \in 1..Len(s.pending) : s.pending[k].started /\ s.pending[k].id = c
    BY DEF Coherent, Owed
  <2> QED
    BY <2>1, <2>2
<1>6. e.turn \in Nat /\ e.step \in Nat /\ \A k \in 1..Len(e.calls) : e.calls[k] = CallId(e.turn, e.step, k)
  BY EntryIs
<1> HIDE DEF s2, tr2
<1>7. \A k \in 1..Len(s2.pending) : s2.pending[k].id = <<e.turn, e.step, k>>
  BY <1>2, <1>6 DEF CallId
<1>8. ASSUME NEW k \in 1..Len(s2.pending), NEW i \in 1..Len(m), m[i].type \in CallTypes,
             m[i].call = s2.pending[k].id
      PROVE  FALSE
  <2>1. i \in 1..Len(l) /\ m[i] = l[i] /\ l[i] \in Entries
    <3>1. i # Len(l) + 1
      BY <1>8, GrownPlaces DEF CallTypes
    <3>2. i \in 1..Len(l)
      BY <3>1, GrownPlaces
    <3> QED
      BY <3>2, GrownPlaces
  <2>2. l[i].type \in CallTypes /\ l[i].call[1] = l[i].turn /\ l[i].call[2] = l[i].step
    BY <1>8, <2>1, EntryIs
  <2>3. l[i].turn = e.turn /\ l[i].step = e.step
    BY <1>7, <1>8, <2>1, <2>2
  <2> QED
    BY <1>4, <2>1, <2>2, <2>3 DEF CallTypes
<1>9. \A k \in 1..Len(s2.pending) : ~ResultIn(m, s2.pending[k].id) /\ ~CalledIn(m, s2.pending[k].id)
  BY <1>8 DEF ResultIn, CalledIn, IsResult, CallTypes
<1>10. \A j, k \in 1..Len(s2.pending) : s2.pending[j].id = s2.pending[k].id => j = k
  BY <1>7
<1>11. \A c : c \in tr2.pendingCalls <=> \E k \in 1..Len(s2.pending) : s2.pending[k].started /\ s2.pending[k].id = c
  BY <1>2, <1>3, <1>5
<1>12. \A k \in 1..Len(s2.pending) : s2.pending[k].id[1] = s2.openTurn /\ s2.pending[k].id[2] = s2.openStep
  BY <1>2, <1>4, <1>7
<1> QED
  BY <1>2, <1>4, <1>9, <1>10, <1>11, <1>12 DEF Owed, s2, tr2

\* A recorded call stays pending, marked as started.
LEMMA OwedCall ==
    ASSUME NEW l \in Seq(Entries), NEW e \in Entries, NEW tr, NEW s, NEW last,
           Coherent(l, tr, s, last), Admits(l, tr, s, last, e), e.type = "tool/call",
           NEW m, Grown(l, e, m)
    PROVE  Owed(m, Apply(tr, e), ScanEvent(s, e))
<1> DEFINE s2 == ScanEvent(s, e)
<1> DEFINE tr2 == Apply(tr, e)
<1>1. tr \in TraceSet /\ s \in ScanSet /\ Owed(l, tr, s)
  BY DEF Coherent
<1>2. /\ s2.openTurn = s.openTurn /\ s2.openStep = s.openStep /\ Len(s2.pending) = Len(s.pending)
      /\ \A k \in 1..Len(s2.pending) :
            /\ s2.pending[k].id = s.pending[k].id
            /\ s2.pending[k].started <=> (s.pending[k].started \/ s.pending[k].id = e.call)
  BY ScanMoves
<1>3. tr2.pendingCalls = tr.pendingCalls \cup {e.call}
  BY <1>1, TraceMoves
<1>4. s.openStep # None /\ \E k \in 1..Len(s.pending) : s.pending[k].id = e.call
  BY DEF Admits, InStep
<1>5. ~IsResult(e)
  BY DEF IsResult
<1> HIDE DEF s2, tr2
<1>6. \A k \in 1..Len(s2.pending) :
        /\ s2.pending[k].id[1] = s2.openTurn /\ s2.pending[k].id[2] = s2.openStep
        /\ ~ResultIn(m, s2.pending[k].id)
        /\ s2.pending[k].started <=> CalledIn(m, s2.pending[k].id)
  BY <1>1, <1>2, <1>5, ResultGrown, CalledGrown DEF Owed
<1>7. \A j, k \in 1..Len(s2.pending) : s2.pending[j].id = s2.pending[k].id => j = k
  BY <1>1, <1>2 DEF Owed
<1>8. \A c : c \in tr2.pendingCalls <=> \E k \in 1..Len(s2.pending) : s2.pending[k].started /\ s2.pending[k].id = c
  <2> TAKE c
  <2>1. c \in tr.pendingCalls <=> \E k \in 1..Len(s.pending) : s.pending[k].started /\ s.pending[k].id = c
    BY <1>1 DEF Owed
  <2> QED
    BY <1>2, <1>3, <1>4, <2>1
<1> QED
  BY <1>2, <1>4, <1>6, <1>7, <1>8 DEF Owed, s2, tr2

\* A result takes the first of the pending calls away.
LEMMA OwedResult ==
    ASSUME NEW l \in Seq(Entries), NEW e \in Entries, NEW tr, NEW s, NEW last,
           Coherent(l, tr, s, last), Admits(l, tr, s, last, e), IsResult(e),
           NEW m, Grown(l, e, m)
    PROVE  Owed(m, Apply(tr, e), ScanEvent(s, e))
<1> DEFINE s2 == ScanEvent(s, e)
<1> DEFINE tr2 == Apply(tr, e)
<1>1. tr \in TraceSet /\ s \in ScanSet /\ Owed(l, tr, s) /\ e.type \in {"tool/result", "tool/not-started"}
  BY DEF Coherent, IsResult
<1>2. /\ s2.openTurn = s.openTurn /\ s2.openStep = s.openStep
      /\ Len(s2.pending) = Len(s.pending) - 1
      /\ \A k \in 1..Len(s2.pending) : s2.pending[k] = s.pending[k + 1]
  BY <1>1, ScanMoves
<1>3. tr2.pendingCalls = tr.pendingCalls \ {e.call}
  BY <1>1, TraceMoves
<1>4. s.openStep # None /\ s.pending # <<>> /\ s.pending[1].id = e.call
  BY <1>1 DEF Admits, InStep
<1>5. e.type # "tool/call" /\ s.pending \in Seq(Waiting)
  BY <1>1 DEF ScanSet
<1>6. Len(s.pending) \in Nat /\ 1 \in 1..Len(s.pending)
  BY <1>4, <1>5
<1> HIDE DEF s2, tr2
<1>7. \A k \in 1..Len(s2.pending) : k + 1 \in 1..Len(s.pending) /\ k + 1 # 1 /\ s2.pending[k] = s.pending[k + 1]
  BY <1>2, <1>6
<1>8. \A k \in 1..Len(s.pending) : k # 1 => k - 1 \in 1..Len(s2.pending) /\ s2.pending[k - 1] = s.pending[k]
  <2> TAKE k \in 1..Len(s.pending)
  <2> HAVE k # 1
  <2>1. k - 1 \in 1..Len(s2.pending) /\ (k - 1) + 1 = k
    BY <1>2, <1>6
  <2> QED
    BY <1>2, <2>1
<1>9. \A j, k \in 1..Len(s.pending) : s.pending[j].id = s.pending[k].id => j = k
  BY <1>1 DEF Owed
<1>10. \A k \in 1..Len(s2.pending) : s2.pending[k].id # e.call
  BY <1>4, <1>6, <1>7, <1>9
<1>11. \A k \in 1..Len(s2.pending) :
        /\ s2.pending[k].id[1] = s2.openTurn /\ s2.pending[k].id[2] = s2.openStep
        /\ ~ResultIn(m, s2.pending[k].id)
        /\ s2.pending[k].started <=> CalledIn(m, s2.pending[k].id)
  <2> TAKE k \in 1..Len(s2.pending)
  <2>1. k + 1 \in 1..Len(s.pending) /\ s2.pending[k] = s.pending[k + 1]
    BY <1>7
  <2>2. /\ s.pending[k + 1].id[1] = s.openTurn /\ s.pending[k + 1].id[2] = s.openStep
        /\ ~ResultIn(l, s.pending[k + 1].id)
        /\ s.pending[k + 1].started <=> CalledIn(l, s.pending[k + 1].id)
    BY <1>1, <2>1 DEF Owed
  <2>3. s2.pending[k].id # e.call
    BY <1>10
  <2> QED
    BY <1>2, <1>5, <2>1, <2>2, <2>3, ResultGrown, CalledGrown
<1>12. \A j, k \in 1..Len(s2.pending) : s2.pending[j].id = s2.pending[k].id => j = k
  <2> TAKE j, k \in 1..Len(s2.pending)
  <2> HAVE s2.pending[j].id = s2.pending[k].id
  <2>1. j + 1 = k + 1
    BY <1>7, <1>9
  <2> QED
    BY <2>1
<1>13. \A c : c \in tr2.pendingCalls <=> \E k \in 1..Len(s2.pending) : s2.pending[k].started /\ s2.pending[k].id = c
  <2> TAKE c
  <2>1. c \in tr.pendingCalls <=> \E k \in 1..Len(s.pending) : s.pending[k].started /\ s.pending[k].id = c
    BY <1>1 DEF Owed
  <2>2. ASSUME c \in tr2.pendingCalls
        PROVE  \E k \in 1..Len(s2.pending) : s2.pending[k].started /\ s2.pending[k].id = c
    <3>1. c # e.call /\ \E k \in 1..Len(s.pending) : s.pending[k].started /\ s.pending[k].id = c
      BY <1>3, <2>1, <2>2
    <3>2. PICK k \in 1..Len(s.pending) : s.pending[k].started /\ s.pending[k].id = c
      BY <3>1
    <3>3. k # 1
      BY <1>4, <3>1, <3>2
    <3>4. k - 1 \in 1..Len(s2.pending) /\ s2.pending[k - 1] = s.pending[k]
      BY <1>8, <3>3
    <3> QED
      BY <3>2, <3>4
  <2>3. ASSUME NEW k \in 1..Len(s2.pending), s2.pending[k].started, s2.pending[k].id = c
        PROVE  c \in tr2.pendingCalls
    <3>1. k + 1 \in 1..Len(s.pending) /\ s2.pending[k] = s.pending[k + 1] /\ c # e.call
      BY <1>7, <1>10, <2>3
    <3>2. c \in tr.pendingCalls
      BY <2>1, <2>3, <3>1
    <3> QED
      BY <1>3, <3>1, <3>2
  <2> QED
    BY <2>2, <2>3
<1> QED
  BY <1>2, <1>4, <1>11, <1>12, <1>13 DEF Owed, s2, tr2

\* At a boundary nothing is pending.
LEMMA OwedBoundary ==
    ASSUME NEW l \in Seq(Entries), NEW e \in Entries, NEW tr, NEW s, NEW last,
           Coherent(l, tr, s, last), Admits(l, tr, s, last, e),
           e.type \in {"turn/start", "turn/end", "step/start", "step/end"},
           NEW m, Grown(l, e, m)
    PROVE  Owed(m, Apply(tr, e), ScanEvent(s, e))
<1> DEFINE s2 == ScanEvent(s, e)
<1> DEFINE tr2 == Apply(tr, e)
<1>1. tr \in TraceSet /\ s \in ScanSet /\ Owed(l, tr, s)
  BY DEF Coherent
<1>2. s2.pending = <<>> /\ Len(s2.pending) = 0
  <2>1. s2.pending = <<>>
    BY ScanMoves
  <2> QED
    BY <2>1
<1>3. tr2.pendingCalls = {}
  <2>1. e.type # "step/end" => s.openStep = None
    BY <1>1 DEF Admits, Coherent, Aligned
  <2>2. e.type # "step/end" => s.pending = <<>>
    BY <1>1, <2>1 DEF Owed
  <2>3. e.type # "step/end" => tr.pendingCalls = {}
    <3>1. s.pending = <<>> => Len(s.pending) = 0
      OBVIOUS
    <3>2. \A c : c \in tr.pendingCalls <=> \E k \in 1..Len(s.pending) : s.pending[k].started /\ s.pending[k].id = c
      BY <1>1 DEF Owed
    <3> QED
      BY <2>2, <3>1, <3>2
  <2>4. tr2.pendingCalls = IF e.type = "step/end" THEN {} ELSE tr.pendingCalls
    BY <1>1, TraceMoves
  <2> QED
    BY <2>3, <2>4
<1> HIDE DEF s2, tr2
<1>4. 1..Len(s2.pending) = {}
  BY <1>2
<1> QED
  BY <1>2, <1>3, <1>4 DEF Owed, s2, tr2

\* Whatever fits, the pending calls stay the unanswered ones.
LEMMA OwedAppend ==
    ASSUME NEW l \in Seq(Entries), NEW e \in Entries, NEW tr, NEW s, NEW last,
           Coherent(l, tr, s, last), Admits(l, tr, s, last, e), NEW m, Grown(l, e, m)
    PROVE  Owed(m, Apply(tr, e), ScanEvent(s, e))
<1>1. e.type \in Types
  BY EntryIs
<1>2. CASE e.type \in {"turn/start", "turn/end", "step/start", "step/end"}
  BY <1>2, OwedBoundary
<1>3. CASE e.type = "assistant/message"
  BY <1>3, OwedMessage
<1>4. CASE e.type = "tool/call"
  BY <1>4, OwedCall
<1>5. CASE IsResult(e)
  BY <1>5, OwedResult
<1> QED
  BY <1>1, <1>2, <1>3, <1>4, <1>5 DEF Types, IsResult

\* The call a result answers has none yet, and it was recorded exactly when its
\* result says so.
LEMMA HeadOwed ==
    ASSUME NEW l \in Seq(Entries), NEW e \in Entries, NEW tr, NEW s, NEW last,
           Coherent(l, tr, s, last), Admits(l, tr, s, last, e), IsResult(e)
    PROVE  /\ 1 \in 1..Len(s.pending) /\ s.pending[1].id = e.call
           /\ ~ResultIn(l, e.call)
           /\ CalledIn(l, e.call) <=> e.type = "tool/result"
           /\ e.type = "tool/result" => e.call \in tr.pendingCalls
<1>1. s \in ScanSet /\ Owed(l, tr, s)
  BY DEF Coherent
<1>2. s.pending \in Seq(Waiting)
  BY <1>1 DEF ScanSet
<1>3. s.pending # <<>> /\ s.pending[1].id = e.call /\ (e.type = "tool/result" <=> s.pending[1].started)
  BY DEF Admits
<1>4. 1 \in 1..Len(s.pending)
  BY <1>2, <1>3
<1> QED
  BY <1>1, <1>3, <1>4 DEF Owed

\* An event that fits gives no call a second result.
LEMMA OneResultAppend ==
    ASSUME NEW l \in Seq(Entries), NEW e \in Entries, NEW tr, NEW s, NEW last,
           Coherent(l, tr, s, last), Admits(l, tr, s, last, e), NEW m, Grown(l, e, m)
    PROVE  OneResult(m)
<1>1. OneResult(l)
  BY DEF Coherent
<1>2. IsResult(e) => ~ResultIn(l, e.call)
  BY HeadOwed
<1> SUFFICES ASSUME NEW i \in 1..Len(m), NEW j \in 1..Len(m), IsResult(m[i]), IsResult(m[j]), m[i].call = m[j].call
             PROVE  i = j
  BY DEF OneResult
<1>3. (i \in 1..Len(l) \/ i = Len(l) + 1) /\ (j \in 1..Len(l) \/ j = Len(l) + 1)
      /\ (\A k \in 1..Len(l) : m[k] = l[k]) /\ m[Len(l) + 1] = e
  BY GrownPlaces
<1>4. CASE i \in 1..Len(l) /\ j \in 1..Len(l)
  BY <1>1, <1>3, <1>4 DEF OneResult
<1>5. CASE i = Len(l) + 1 /\ j \in 1..Len(l)
  BY <1>2, <1>3, <1>5 DEF ResultIn
<1>6. CASE j = Len(l) + 1 /\ i \in 1..Len(l)
  BY <1>2, <1>3, <1>6 DEF ResultIn
<1> QED
  BY <1>3, <1>4, <1>5, <1>6

\* An event that fits neither records a call reported as not started nor denies a
\* recorded one.
LEMMA NoFalseStartAppend ==
    ASSUME NEW l \in Seq(Entries), NEW e \in Entries, NEW tr, NEW s, NEW last,
           Coherent(l, tr, s, last), Admits(l, tr, s, last, e), NEW m, Grown(l, e, m)
    PROVE  NoFalseStart(m)
<1>1. NoFalseStart(l) /\ Owed(l, tr, s)
  BY DEF Coherent
<1>2. e.type = "tool/not-started" => ~CalledIn(l, e.call)
  BY HeadOwed DEF IsResult
<1>3. e.type = "tool/call" => ~ResultIn(l, e.call)
  BY <1>1 DEF Admits, Owed
<1> SUFFICES ASSUME NEW i \in 1..Len(m), NEW j \in 1..Len(m), m[i].type = "tool/not-started",
                    m[j].type = "tool/call", m[i].call = m[j].call
             PROVE  FALSE
  BY DEF NoFalseStart
<1>4. (i \in 1..Len(l) \/ i = Len(l) + 1) /\ (j \in 1..Len(l) \/ j = Len(l) + 1)
      /\ (\A k \in 1..Len(l) : m[k] = l[k]) /\ m[Len(l) + 1] = e
  BY GrownPlaces
<1>5. CASE i \in 1..Len(l) /\ j \in 1..Len(l)
  BY <1>1, <1>4, <1>5 DEF NoFalseStart
<1>6. CASE i = Len(l) + 1 /\ j \in 1..Len(l)
  BY <1>2, <1>4, <1>6 DEF CalledIn
<1>7. CASE j = Len(l) + 1 /\ i \in 1..Len(l)
  BY <1>3, <1>4, <1>7 DEF ResultIn, IsResult
<1> QED
  BY <1>4, <1>5, <1>6, <1>7

\* An event that fits leaves every call that was asked for pending or answered.
LEMMA CoveredAppend ==
    ASSUME NEW l \in Seq(Entries), NEW e \in Entries, NEW tr, NEW s, NEW last,
           Coherent(l, tr, s, last), Admits(l, tr, s, last, e), NEW m, Grown(l, e, m)
    PROVE  Covered(m, ScanEvent(s, e))
<1> DEFINE s2 == ScanEvent(s, e)
<1>1. tr \in TraceSet /\ s \in ScanSet /\ last \in Nat /\ Aligned(tr, s, last) /\ Behind(l, tr, s, last) /\ Covered(l, s)
  BY DEF Coherent
<1>2. /\ s2.openTurn = IF e.type = "turn/start" THEN e.turn
                       ELSE IF e.type = "turn/end" THEN None ELSE s.openTurn
      /\ s2.openStep = IF e.type = "step/start" THEN e.step
                       ELSE IF e.type \in {"turn/start", "turn/end", "step/end"} THEN None ELSE s.openStep
      /\ e.type = "assistant/message" =>
            Len(s2.pending) = Len(e.calls) /\ \A k \in 1..Len(s2.pending) : s2.pending[k].id = e.calls[k]
      /\ e.type = "tool/call" =>
            Len(s2.pending) = Len(s.pending) /\ \A k \in 1..Len(s2.pending) : s2.pending[k].id = s.pending[k].id
      /\ IsResult(e) =>
            /\ Len(s2.pending) = Len(s.pending) - 1
            /\ \A k \in 1..Len(s2.pending) : s2.pending[k] = s.pending[k + 1]
  BY ScanMoves
<1>3. e.type \in Types /\ e.turn \in Nat /\ e.step \in Nat
  BY EntryIs
<1>4. s.pending \in Seq(Waiting) /\ Len(s.pending) \in Nat
  BY <1>1 DEF ScanSet
<1> HIDE DEF s2
<1> SUFFICES ASSUME NEW i \in 1..Len(m), m[i].type = "assistant/message", NEW k \in 1..Len(m[i].calls)
             PROVE  /\ s2.openStep # None /\ m[i].turn = s2.openTurn /\ m[i].step = s2.openStep =>
                         ResultIn(m, m[i].calls[k])
                         \/ \E p \in 1..Len(s2.pending) : s2.pending[p].id = m[i].calls[k]
                    /\ ClosedIn(m, m[i].turn, m[i].step) => ResultIn(m, m[i].calls[k])
  BY DEF Covered, s2
<1>5. i \in 1..Len(l) \/ i = Len(l) + 1
  BY GrownPlaces
<1>6. CASE i \in 1..Len(l)
  <2>1. m[i] = l[i] /\ l[i] \in Entries
    BY <1>6, GrownPlaces
  <2>2. /\ s.openStep # None /\ l[i].turn = s.openTurn /\ l[i].step = s.openStep =>
             ResultIn(l, l[i].calls[k])
             \/ \E p \in 1..Len(s.pending) : s.pending[p].id = l[i].calls[k]
        /\ ClosedIn(l, l[i].turn, l[i].step) => ResultIn(l, l[i].calls[k])
    BY <1>1, <1>6, <2>1 DEF Covered
  <2>3. l[i].turn \in Nat /\ l[i].step \in Nat
    BY <2>1, EntryIs
  <2>4. s2.openStep # None /\ l[i].turn = s2.openTurn /\ l[i].step = s2.openStep =>
             ResultIn(m, l[i].calls[k]) \/ \E p \in 1..Len(s2.pending) : s2.pending[p].id = l[i].calls[k]
    <3> SUFFICES ASSUME s2.openStep # None, l[i].turn = s2.openTurn, l[i].step = s2.openStep
                 PROVE  ResultIn(m, l[i].calls[k]) \/ \E p \in 1..Len(s2.pending) : s2.pending[p].id = l[i].calls[k]
      OBVIOUS
    <3>1. e.type \notin {"turn/start", "turn/end", "step/end"}
      BY <1>2
    <3>2. e.type # "step/start"
      <4> SUFFICES ASSUME e.type = "step/start" PROVE FALSE
        OBVIOUS
      <4>1. s2.openTurn = s.openTurn /\ s2.openStep = tr.nextStep /\ s.openTurn # None /\ s.openStep = None
        BY <1>2 DEF Admits
      <4>2. l[i].step < tr.nextStep
        BY <1>1, <1>6, <4>1 DEF Behind
      <4>3. tr.nextStep \in Nat
        BY <1>1 DEF TraceSet
      <4> QED
        BY <2>3, <4>1, <4>2, <4>3
    <3>3. s2.openTurn = s.openTurn /\ s2.openStep = s.openStep
      BY <1>2, <3>1, <3>2
    <3>4. ResultIn(l, l[i].calls[k]) \/ \E p \in 1..Len(s.pending) : s.pending[p].id = l[i].calls[k]
      BY <2>2, <3>3
    <3>5. CASE ResultIn(l, l[i].calls[k])
      BY <3>5, ResultGrown
    <3>6. CASE \E p \in 1..Len(s.pending) : s.pending[p].id = l[i].calls[k]
      <4>1. PICK p \in 1..Len(s.pending) : s.pending[p].id = l[i].calls[k]
        BY <3>6
      <4>2. e.type # "assistant/message"
        <5> SUFFICES ASSUME e.type = "assistant/message" PROVE FALSE
          OBVIOUS
        <5>1. s.pending = <<>>
          BY DEF Admits
        <5>2. Len(s.pending) = 0
          BY <5>1
        <5> QED
          BY <4>1, <5>2
      <4>3. CASE e.type = "tool/call"
        <5>1. p \in 1..Len(s2.pending) /\ s2.pending[p].id = s.pending[p].id
          BY <1>2, <4>3
        <5> QED
          BY <4>1, <5>1
      <4>4. CASE IsResult(e)
        <5>1. s.pending[1].id = e.call
          BY <4>4, HeadOwed
        <5>2. CASE p = 1
          <6>1. ResultIn(m, l[i].calls[k])
            BY <4>1, <4>4, <5>1, <5>2, ResultGrown
          <6> QED
            BY <6>1
        <5>3. CASE p # 1
          <6>1. p - 1 \in 1..Len(s2.pending) /\ (p - 1) + 1 = p
            BY <1>2, <1>4, <4>4, <5>3
          <6>2. s2.pending[p - 1] = s.pending[p]
            BY <1>2, <4>4, <6>1
          <6> QED
            BY <4>1, <6>1, <6>2
        <5> QED
          BY <5>2, <5>3
      <4> QED
        BY <1>3, <3>1, <3>2, <4>2, <4>3, <4>4 DEF Types, IsResult
    <3> QED
      BY <3>4, <3>5, <3>6
  <2>5. ClosedIn(m, l[i].turn, l[i].step) => ResultIn(m, l[i].calls[k])
    <3>1. CASE ClosedIn(l, l[i].turn, l[i].step)
      BY <2>2, <3>1, ResultGrown
    <3>2. CASE e.type = "step/end" /\ e.by = "repair" /\ e.turn = l[i].turn /\ e.step = l[i].step
      <4>1. s.pending = <<>> /\ s.openStep # None /\ e.turn = s.openTurn /\ e.step = s.openStep
        BY <3>2 DEF Admits, InStep
      <4>2. Len(s.pending) = 0
        BY <4>1
      <4>3. ResultIn(l, l[i].calls[k])
        BY <2>2, <3>2, <4>1, <4>2
      <4> QED
        BY <4>3, ResultGrown
    <3> QED
      BY <3>1, <3>2, ClosedGrown
  <2> QED
    BY <2>1, <2>4, <2>5
<1>7. CASE i = Len(l) + 1
  <2>1. m[i] = e /\ e.type = "assistant/message"
    BY <1>7, GrownPlaces
  <2>2. k \in 1..Len(s2.pending) /\ s2.pending[k].id = e.calls[k]
    BY <1>2, <2>1
  <2>3. ~ClosedIn(m, e.turn, e.step)
    <3> SUFFICES ASSUME ClosedIn(m, e.turn, e.step) PROVE FALSE
      OBVIOUS
    <3>1. ClosedIn(l, e.turn, e.step)
      BY <2>1, ClosedGrown
    <3>2. \A j \in 1..Len(l) : l[j].turn = e.turn /\ l[j].step = e.step => l[j].type = "step/start"
      BY <2>1 DEF Admits
    <3> QED
      BY <3>1, <3>2 DEF ClosedIn
  <2> QED
    BY <2>1, <2>2, <2>3
<1> QED
  BY <1>5, <1>6, <1>7

\* One event that fits keeps all that is said of a log.
LEMMA CoherentAppend ==
    ASSUME NEW l \in Seq(Entries), NEW e \in Entries, NEW tr, NEW s, NEW last,
           Coherent(l, tr, s, last), Admits(l, tr, s, last, e)
    PROVE  Coherent(Append(l, e), Apply(tr, e), ScanEvent(s, e),
                    IF e.type = "turn/start" THEN e.turn ELSE last)
<1> DEFINE m == Append(l, e)
<1> DEFINE last2 == IF e.type = "turn/start" THEN e.turn ELSE last
<1>1. Grown(l, e, m) /\ m \in Seq(Entries)
  BY GrownIs
<1> HIDE DEF m
<1>2. /\ Apply(tr, e) \in TraceSet /\ ScanEvent(s, e) \in ScanSet /\ last2 \in Nat
      /\ Aligned(Apply(tr, e), ScanEvent(s, e), last2)
      /\ Behind(m, Apply(tr, e), ScanEvent(s, e), last2)
  BY <1>1, AlignedAppend
<1>3. Owed(m, Apply(tr, e), ScanEvent(s, e))
  BY <1>1, OwedAppend
<1>4. OneResult(m)
  BY <1>1, OneResultAppend
<1>5. NoFalseStart(m)
  BY <1>1, NoFalseStartAppend
<1>6. Covered(m, ScanEvent(s, e))
  BY <1>1, CoveredAppend
<1> HIDE DEF last2
<1>7. Coherent(m, Apply(tr, e), ScanEvent(s, e), last2)
  BY <1>2, <1>3, <1>4, <1>5, <1>6 DEF Coherent
<1> QED
  BY <1>7 DEF m, last2

\* What the driver or the repair appends, validateEvent accepts.
LEMMA AdmittedAccepted ==
    ASSUME NEW l \in Seq(Entries), NEW e \in Entries, NEW tr, NEW s, NEW last,
           Coherent(l, tr, s, last), Admits(l, tr, s, last, e)
    PROVE  Accepts(tr, e)
<1>1. tr \in TraceSet /\ s \in ScanSet /\ Aligned(tr, s, last)
  BY DEF Coherent
<1>2. e.type \in Types
  BY EntryIs
<1>3. CASE e.type \in {"turn/start", "turn/end", "step/start"}
  BY <1>1, <1>3 DEF Admits, Aligned, Accepts, InOpenStep
<1>4. CASE e.type \in {"step/end", "assistant/message", "tool/call"}
  BY <1>1, <1>4 DEF Admits, Aligned, Accepts, InOpenStep, InStep
<1>5. CASE e.type = "tool/not-started"
  BY <1>1, <1>5 DEF Admits, Aligned, Accepts, InOpenStep, InStep
<1>6. CASE e.type = "tool/result"
  <2>1. e.call \in tr.pendingCalls
    BY <1>6, HeadOwed DEF IsResult
  <2> QED
    BY <1>1, <1>6, <2>1 DEF Admits, Aligned, Accepts, InOpenStep, InStep
<1> QED
  BY <1>2, <1>3, <1>4, <1>5, <1>6 DEF Types

Sound(l) == Coherent(l, TraceOf(l), Scan(l), LastTurn(l))
Fits(l, e) == Admits(l, TraceOf(l), Scan(l), LastTurn(l), e)

\* Every event fits after those before it.
Good(l) == \A n \in 1..Len(l) : Fits(SubSeq(l, 1, n - 1), l[n])

\* The empty log is sound.
LEMMA SoundEmpty == Sound(<<>>)
<1>1. TraceOf(<<>>) = Fresh /\ Scan(<<>>) = Unread /\ LastTurn(<<>>) = 0
  BY TraceEmpty, ScanEmpty, LastTurnEmpty DEF TraceOf
<1>2. Len(<<>>) = 0 /\ 1..Len(<<>>) = {} /\ 0 \in Nat /\ <<>> \in Seq(Waiting)
  OBVIOUS
<1>3. Fresh \in TraceSet /\ Unread \in ScanSet
  BY <1>2 DEF Fresh, TraceSet, Unread, ScanSet, None
<1>4. Aligned(Fresh, Unread, 0)
  BY DEF Aligned, Fresh, Unread, None
<1>5. Owed(<<>>, Fresh, Unread)
  <2>1. Unread.pending = <<>> /\ Fresh.pendingCalls = {}
    BY DEF Unread, Fresh
  <2> QED
    BY <1>2, <2>1 DEF Owed
<1>6. Behind(<<>>, Fresh, Unread, 0) /\ OneResult(<<>>) /\ NoFalseStart(<<>>) /\ Covered(<<>>, Unread)
  BY <1>2 DEF Behind, OneResult, NoFalseStart, Covered
<1> QED
  BY <1>1, <1>2, <1>3, <1>4, <1>5, <1>6 DEF Sound, Coherent

\* Trace, scan and last turn of a log with one more event.
LEMMA ReadAppend ==
    ASSUME NEW l \in Seq(Entries), NEW e \in Entries
    PROVE  /\ TraceOf(Append(l, e)) = Apply(TraceOf(l), e)
           /\ Scan(Append(l, e)) = ScanEvent(Scan(l), e)
           /\ LastTurn(Append(l, e)) = IF e.type = "turn/start" THEN e.turn ELSE LastTurn(l)
  BY TraceAppend, ScanAppend, LastTurnAppend DEF TraceOf

\* A sound log with an event that fits is sound.
LEMMA SoundAppend ==
    ASSUME NEW l \in Seq(Entries), NEW e \in Entries, Sound(l), Fits(l, e) PROVE Sound(Append(l, e))
  BY CoherentAppend, ReadAppend DEF Sound, Fits

\* Every event of the empty log fits.
LEMMA GoodEmpty == Good(<<>>)
<1>1. Len(<<>>) = 0 /\ 1..Len(<<>>) = {}
  OBVIOUS
<1> QED
  BY <1>1 DEF Good

\* Every event of a prefix fits when those of the log do.
LEMMA GoodPrefix ==
    ASSUME NEW l \in Seq(Entries), Good(l), NEW n \in 0..Len(l) PROVE Good(SubSeq(l, 1, n))
<1> DEFINE p == SubSeq(l, 1, n)
<1>1. Len(p) = n /\ \A k \in 1..n : p[k] = l[k]
  BY PrefixIs
<1>2. \A k \in 1..n : SubSeq(p, 1, k - 1) = SubSeq(l, 1, k - 1) /\ k \in 1..Len(l)
  BY PrefixOfPrefix
<1> HIDE DEF p
<1>3. Good(p)
  BY <1>1, <1>2 DEF Good
<1> QED
  BY <1>3 DEF p

\* Nor does an event that fits change that.
LEMMA GoodAppend ==
    ASSUME NEW l \in Seq(Entries), NEW e \in Entries, Good(l), Fits(l, e) PROVE Good(Append(l, e))
<1> DEFINE m == Append(l, e)
<1>1. Grown(l, e, m)
  BY GrownIs
<1>2. \A n \in 0..Len(l) : SubSeq(m, 1, n) = SubSeq(l, 1, n)
  BY PrefixOfAppend
<1>3. SubSeq(l, 1, Len(l)) = l
  BY PrefixWhole
<1> HIDE DEF m
<1>4. \A n \in 1..Len(m) : Fits(SubSeq(m, 1, n - 1), m[n])
  <2> TAKE n \in 1..Len(m)
  <2>1. n - 1 \in 0..Len(l) /\ (n \in 1..Len(l) \/ n = Len(l) + 1)
    BY <1>1 DEF Grown
  <2>2. SubSeq(m, 1, n - 1) = SubSeq(l, 1, n - 1)
    BY <1>2, <2>1
  <2>3. CASE n \in 1..Len(l)
    BY <1>1, <2>2, <2>3 DEF Good, Grown
  <2>4. CASE n = Len(l) + 1
    <3>1. n - 1 = Len(l) /\ m[n] = e
      BY <1>1, <2>4 DEF Grown
    <3> QED
      BY <1>3, <2>2, <3>1
  <2> QED
    BY <2>1, <2>3, <2>4
<1> QED
  BY <1>4 DEF Good, m

\* One event at a time: a log of which every event fits is sound.
LEMMA GoodSound == ASSUME NEW l \in Seq(Entries), Good(l) PROVE Sound(l)
<1> DEFINE T == {n \in 0..Len(l) : ~Sound(SubSeq(l, 1, n))}
<1>1. Len(l) \in Nat /\ SubSeq(l, 1, Len(l)) = l
  BY PrefixWhole
<1> SUFFICES ASSUME T # {} PROVE FALSE
  <2>1. Len(l) \in 0..Len(l)
    BY <1>1
  <2>2. T = {} => Sound(SubSeq(l, 1, Len(l)))
    BY <2>1
  <2> HIDE DEF T
  <2> QED
    BY <1>1, <2>2
<1>2. PICK n \in T : \A j \in T : n <= j
  <2>1. T \in SUBSET Nat
    BY <1>1
  <2> HIDE DEF T
  <2> QED
    BY <2>1, LeastNatural
<1>3. n \in 0..Len(l) /\ ~Sound(SubSeq(l, 1, n))
  OBVIOUS
<1>4. CASE n = 0
  <2>1. <<>> \in Seq(Entries) /\ SubSeq(l, 1, 0) = <<>>
    OBVIOUS
  <2> QED
    BY <1>3, <1>4, <2>1, SoundEmpty
<1>5. CASE n # 0
  <2>1. n - 1 \in 0..Len(l) /\ n - 1 \notin T /\ n - 1 \in Nat /\ n - 1 < Len(l) /\ (n - 1) + 1 = n /\ n \in 1..Len(l)
    BY <1>1, <1>2, <1>3, <1>5
  <2>2. Sound(SubSeq(l, 1, n - 1))
    BY <2>1
  <2>3. SubSeq(l, 1, n) = Append(SubSeq(l, 1, n - 1), l[n])
    BY <2>1, PrefixGrows
  <2>4. Fits(SubSeq(l, 1, n - 1), l[n]) /\ l[n] \in Entries
    BY <2>1 DEF Good
  <2>5. SubSeq(l, 1, n - 1) \in Seq(Entries)
    BY <2>1, PrefixIs
  <2> QED
    BY <1>3, <2>2, <2>3, <2>4, <2>5, SoundAppend
<1> QED
  BY <1>4, <1>5

\* The trace before each event, as Legal reads it.
LEMMA TraceOfPrefix ==
    ASSUME NEW l \in Seq(Entries), NEW n \in 0..Len(l)
    PROVE  Traces(Fresh, l)[n] = TraceOf(SubSeq(l, 1, n))
<1>1. Len(l) \in Nat
  OBVIOUS
<1>2. PICK f : TraceStages(Fresh, l, f, Len(l)) /\ Traces(Fresh, l) = f
  BY <1>1, TraceIs
<1>3. f[0] = Fresh /\ \A k \in 1..Len(l) : f[k] = Apply(f[k - 1], l[k])
  BY <1>1, <1>2 DEF TraceStages
<1> DEFINE T == {k \in 0..Len(l) : f[k] # TraceOf(SubSeq(l, 1, k))}
<1> SUFFICES ASSUME T # {} PROVE FALSE
  BY <1>2
<1>4. PICK k \in T : \A j \in T : k <= j
  <2>1. T \in SUBSET Nat
    BY <1>1
  <2> HIDE DEF T
  <2> QED
    BY <2>1, LeastNatural
<1>5. k \in 0..Len(l) /\ f[k] # TraceOf(SubSeq(l, 1, k))
  OBVIOUS
<1>6. CASE k = 0
  <2>1. SubSeq(l, 1, 0) = <<>>
    OBVIOUS
  <2> QED
    BY <1>3, <1>5, <1>6, <2>1, TraceEmpty DEF TraceOf
<1>7. CASE k # 0
  <2>1. k - 1 \in 0..Len(l) /\ k - 1 \notin T /\ k - 1 \in Nat /\ k - 1 < Len(l) /\ (k - 1) + 1 = k /\ k \in 1..Len(l)
    BY <1>1, <1>4, <1>5, <1>7
  <2>2. f[k - 1] = TraceOf(SubSeq(l, 1, k - 1))
    BY <2>1
  <2>3. SubSeq(l, 1, k) = Append(SubSeq(l, 1, k - 1), l[k]) /\ l[k] \in Entries
    BY <2>1, PrefixGrows
  <2>4. SubSeq(l, 1, k - 1) \in Seq(Entries)
    BY <2>1, PrefixIs
  <2>5. TraceOf(SubSeq(l, 1, k)) = Apply(TraceOf(SubSeq(l, 1, k - 1)), l[k])
    BY <2>3, <2>4, ReadAppend
  <2> QED
    BY <1>3, <1>5, <2>1, <2>2, <2>5
<1> QED
  BY <1>6, <1>7

\* The trace invariant accepts every event of such a log.
LEMMA GoodLegal == ASSUME NEW l \in Seq(Entries), Good(l) PROVE Legal(l)
<1> SUFFICES ASSUME NEW i \in DOMAIN l PROVE Accepts(Traces(Fresh, l)[i - 1], l[i])
  BY DEF Legal
<1>1. i \in 1..Len(l) /\ i - 1 \in 0..Len(l) /\ l[i] \in Entries
  OBVIOUS
<1> DEFINE p == SubSeq(l, 1, i - 1)
<1>2. p \in Seq(Entries) /\ Good(p) /\ Fits(p, l[i]) /\ Traces(Fresh, l)[i - 1] = TraceOf(p)
  BY <1>1, PrefixIs, GoodPrefix, TraceOfPrefix DEF Good
<1> HIDE DEF p
<1>3. Sound(p)
  BY <1>2, GoodSound
<1>4. Accepts(TraceOf(p), l[i])
  BY <1>1, <1>2, <1>3, AdmittedAccepted DEF Sound, Fits
<1> QED
  BY <1>2, <1>4

-----------------------------------------------------------------------------
(* The closers of an interrupted turn.                                     *)

Closing(type, t, s, id) ==
    [type |-> type, turn |-> t, step |-> s, call |-> id, calls |-> <<>>, by |-> "repair"]

\* The synthetic result of a pending call.
Settling(p) == Closing(IF p.started THEN "tool/result" ELSE "tool/not-started", p.id[1], p.id[2], p.id)

\* The closers are events of these shapes.
LEMMA ClosingIs ==
    /\ \A p \in Waiting : Repaired(CloseCall(p)) = Settling(p)
    /\ \A t, s : Repaired(Entry("step/end", t, s)) = Closing("step/end", t, s, NoId)
    /\ \A t, s : Repaired(Entry("turn/end", t, s)) = Closing("turn/end", t, s, NoId)
<1>1. \A t, s, type : Repaired(Entry(type, t, s)) = Closing(type, t, s, NoId)
  BY DEF Repaired, Entry, Closing
<1>2. \A type, id : Repaired(CallEntry(type, id)) = Closing(type, id[1], id[2], id)
  <2> TAKE type, id
  <2>1. CallEntry(type, id) =
        [type |-> type, turn |-> id[1], step |-> id[2], call |-> id, calls |-> <<>>, by |-> "loop"]
    BY DEF CallEntry, Entry
  <2> QED
    BY <2>1 DEF Repaired, Closing
<1> QED
  BY <1>1, <1>2 DEF CloseCall, Settling

\* The closers are events.
LEMMA ClosingEntry ==
    /\ \A p \in Waiting : Settling(p) \in Entries
    /\ \A t, s \in Nat : /\ Closing("step/end", t, s, NoId) \in Entries
                         /\ Closing("turn/end", t, s, NoId) \in Entries
<1>1. <<>> \in Seq(CallIds)
  OBVIOUS
<1>2. ASSUME NEW p \in Waiting PROVE Settling(p) \in Entries
  <2>1. p.id \in CallIds /\ p.id[1] \in Nat /\ p.id[2] \in Nat
    BY DEF Waiting, CallIds
  <2> DEFINE type == IF p.started THEN "tool/result" ELSE "tool/not-started"
  <2>2. type \in CallTypes /\ type \in Types /\ type # "assistant/message"
    BY DEF CallTypes, Types
  <2> HIDE DEF type
  <2>3. Closing(type, p.id[1], p.id[2], p.id) \in Records
    BY <1>1, <2>1, <2>2 DEF Closing, Records
  <2>4. Closing(type, p.id[1], p.id[2], p.id) \in Entries
    BY <2>1, <2>2, <2>3 DEF Entries, Closing
  <2> QED
    BY <2>4 DEF Settling, type
<1>3. ASSUME NEW t \in Nat, NEW s \in Nat, NEW type \in {"step/end", "turn/end"}
      PROVE  Closing(type, t, s, NoId) \in Entries
  <2>1. Closing(type, t, s, NoId) \in Records
    BY <1>1 DEF Closing, Records, Types
  <2> QED
    BY <2>1 DEF Entries, Closing, CallTypes
<1> QED
  BY <1>2, <1>3

\* The closers, by places.
LEMMA ClosersAre ==
    ASSUME NEW l \in Seq(Entries), NEW s, s = Scan(l), s \in ScanSet, s.openStep = None => s.pending = <<>>,
           NEW c, c = Closers(l)
    PROVE  /\ c \in Seq(Entries)
           /\ s.openTurn = None <=> c = <<>>
           /\ s.openTurn # None /\ s.openStep # None =>
                 /\ Len(c) = Len(s.pending) + 2
                 /\ \A k \in 1..Len(s.pending) : c[k] = Settling(s.pending[k])
                 /\ c[Len(s.pending) + 1] = Closing("step/end", s.openTurn, s.openStep, NoId)
                 /\ c[Len(s.pending) + 2] = Closing("turn/end", s.openTurn, None, NoId)
           /\ s.openTurn # None /\ s.openStep = None =>
                 Len(c) = 1 /\ c[1] = Closing("turn/end", s.openTurn, None, NoId)
<1> DEFINE p == s.pending
<1> DEFINE n == Len(p)
<1>1. p \in Seq(Waiting) /\ n \in Nat /\ DOMAIN p = 1..n /\ s.openTurn \in Nat /\ s.openStep \in Nat /\ None \in Nat
      /\ \A k \in 1..n : p[k] \in Waiting
  BY DEF ScanSet, None
<1>2. CASE s.openTurn = None
  <2>1. c = <<>>
    BY <1>2 DEF Closers
  <2>2. <<>> \in Seq(Entries)
    OBVIOUS
  <2> QED
    BY <1>2, <2>1, <2>2
<1>3. CASE s.openTurn # None
  <2> DEFINE results == [i \in DOMAIN p |-> CloseCall(p[i])]
  <2> DEFINE turnEnd == <<Entry("turn/end", s.openTurn, None)>>
  <2> DEFINE stepEnd == IF s.openStep = None THEN <<>> ELSE <<Entry("step/end", s.openTurn, s.openStep)>>
  <2> DEFINE all == results \o stepEnd \o turnEnd
  <2>1. c = [i \in DOMAIN all |-> Repaired(all[i])]
    BY <1>3 DEF Closers
  <2>2. DOMAIN results = 1..n /\ \A k \in 1..n : results[k] = CloseCall(p[k])
    BY <1>1
  <2> HIDE DEF p
  <2>3. CASE s.openStep # None
    <3> DEFINE a == Entry("step/end", s.openTurn, s.openStep)
    <3> DEFINE b == Entry("turn/end", s.openTurn, None)
    <3> DEFINE R == {CloseCall(p[k]) : k \in 1..n} \cup {a, b}
    <3>1. results \in Seq(R) /\ Len(results) = n
      BY <1>1, <2>2
    <3>2. stepEnd = <<a>> /\ turnEnd = <<b>> /\ <<a>> \in Seq(R) /\ <<b>> \in Seq(R)
      BY <2>3
    <3> HIDE DEF a, b, results, stepEnd, turnEnd, R
    <3>3. /\ all \in Seq(R) /\ Len(all) = n + 2 /\ DOMAIN all = 1..(n + 2)
          /\ \A k \in 1..n : all[k] = results[k]
          /\ all[n + 1] = a /\ all[n + 2] = b
      <4> DEFINE front == results \o stepEnd
      <4>1. front = Append(results, a) /\ front \in Seq(R)
        BY <3>1, <3>2, JoinOne
      <4>2. Len(front) = n + 1 /\ (\A k \in 1..n : front[k] = results[k]) /\ front[n + 1] = a
        BY <1>1, <3>1, <4>1
      <4> HIDE DEF front
      <4>3. front \o turnEnd = Append(front, b) /\ Append(front, b) \in Seq(R)
        BY <3>2, <4>1, JoinOne
      <4>4. all = Append(front, b)
        BY <4>3 DEF front
      <4> QED
        BY <1>1, <4>1, <4>2, <4>3, <4>4
    <3> HIDE DEF all
    <3>4. /\ DOMAIN c = 1..(n + 2)
          /\ \A k \in 1..n : c[k] = Repaired(CloseCall(p[k]))
          /\ c[n + 1] = Repaired(a) /\ c[n + 2] = Repaired(b)
      BY <1>1, <2>1, <2>2, <3>3
    <3>5. /\ \A k \in 1..n : c[k] = Settling(p[k])
          /\ c[n + 1] = Closing("step/end", s.openTurn, s.openStep, NoId)
          /\ c[n + 2] = Closing("turn/end", s.openTurn, None, NoId)
      BY <1>1, <3>4, ClosingIs DEF a, b
    <3>6. \A k \in 1..(n + 2) : c[k] \in Entries
      <4> TAKE k \in 1..(n + 2)
      <4>1. k \in 1..n \/ k = n + 1 \/ k = n + 2
        BY <1>1
      <4> QED
        BY <1>1, <3>5, <4>1, ClosingEntry
    <3>7. c \in [1..(n + 2) -> Entries]
      BY <2>1, <3>3, <3>4, <3>6
    <3>8. c \in Seq(Entries) /\ Len(c) = n + 2
      BY <1>1, <3>7
    <3>9. c # <<>>
      BY <1>1, <3>8
    <3> QED
      BY <1>3, <2>3, <3>5, <3>8, <3>9 DEF p
  <2>4. CASE s.openStep = None
    <3> DEFINE b == Entry("turn/end", s.openTurn, None)
    <3>1. p = <<>> /\ n = 0
      BY <2>4 DEF p
    <3>2. results = <<>>
      BY <3>1
    <3>3. all = <<b>>
      BY <2>4, <3>2
    <3> HIDE DEF results, stepEnd, turnEnd, all
    <3>4. c = [k \in 1..1 |-> Repaired(b)]
      <4> HIDE DEF b
      <4>1. DOMAIN all = 1..1 /\ \A k \in 1..1 : all[k] = b
        BY <3>3
      <4> QED
        BY <2>1, <4>1
    <3> HIDE DEF b
    <3>5. c[1] = Repaired(b) /\ c \in Seq({Repaired(b)}) /\ Len(c) = 1
      BY <3>4
    <3>6. Repaired(b) = Closing("turn/end", s.openTurn, None, NoId) /\ Repaired(b) \in Entries
      BY <1>1, ClosingIs, ClosingEntry DEF b
    <3>7. c \in Seq(Entries) /\ c # <<>>
      BY <3>5, <3>6
    <3> QED
      BY <1>3, <2>4, <3>5, <3>6, <3>7
  <2> QED
    BY <2>3, <2>4
<1> QED
  BY <1>2, <1>3

\* The places of a tail.
LEMMA TailIs ==
    ASSUME NEW S, NEW c \in Seq(S), c # <<>>
    PROVE  /\ Tail(c) \in Seq(S) /\ Len(c) \in Nat /\ Len(c) > 0 /\ Len(Tail(c)) = Len(c) - 1 /\ c[1] \in S
           /\ \A k \in 1..(Len(c) - 1) : Tail(c)[k] = c[k + 1]
  OBVIOUS

\* The first closer fits the log, and the others close what it leaves.
LEMMA CloseOne ==
    ASSUME NEW l \in Seq(Entries), Good(l), NEW c, c = Closers(l), c # <<>>
    PROVE  /\ c \in Seq(Entries) /\ c[1] \in Entries
           /\ Fits(l, c[1]) /\ Closers(Append(l, c[1])) = Tail(c)
<1> DEFINE s == Scan(l)
<1> DEFINE e == c[1]
<1> DEFINE m == Append(l, e)
<1> DEFINE s2 == Scan(m)
<1> DEFINE d == Closers(m)
<1>1. Coherent(l, TraceOf(l), s, LastTurn(l))
  BY GoodSound DEF Sound
<1>2. s \in ScanSet /\ Aligned(TraceOf(l), s, LastTurn(l)) /\ Owed(l, TraceOf(l), s)
  BY <1>1 DEF Coherent
<1>3. s.pending \in Seq(Waiting) /\ Len(s.pending) \in Nat /\ (s.openStep = None => s.pending = <<>>)
  BY <1>2 DEF ScanSet, Owed
<1> HIDE DEF s
<1>4. /\ c \in Seq(Entries) /\ s.openTurn # None
      /\ s.openStep # None =>
            /\ Len(c) = Len(s.pending) + 2
            /\ \A k \in 1..Len(s.pending) : c[k] = Settling(s.pending[k])
            /\ c[Len(s.pending) + 1] = Closing("step/end", s.openTurn, s.openStep, NoId)
            /\ c[Len(s.pending) + 2] = Closing("turn/end", s.openTurn, None, NoId)
      /\ s.openStep = None => Len(c) = 1 /\ c[1] = Closing("turn/end", s.openTurn, None, NoId)
  BY <1>2, <1>3, ClosersAre DEF s
<1>5. /\ Tail(c) \in Seq(Entries) /\ Len(c) \in Nat /\ Len(c) > 0 /\ Len(Tail(c)) = Len(c) - 1 /\ c[1] \in Entries
      /\ \A k \in 1..(Len(c) - 1) : Tail(c)[k] = c[k + 1]
  BY <1>4, TailIs
<1> HIDE DEF e
<1>6. e \in Entries
  BY <1>5 DEF e
<1>7. m \in Seq(Entries) /\ s2 = ScanEvent(s, e)
  BY <1>6, ReadAppend DEF s
<1> HIDE DEF m, s2, d
<1>8. ASSUME Fits(l, e)
      PROVE  /\ s2 \in ScanSet /\ (s2.openStep = None => s2.pending = <<>>)
             /\ d \in Seq(Entries)
             /\ s2.openTurn = None <=> d = <<>>
             /\ s2.openTurn # None /\ s2.openStep # None =>
                   /\ Len(d) = Len(s2.pending) + 2
                   /\ \A k \in 1..Len(s2.pending) : d[k] = Settling(s2.pending[k])
                   /\ d[Len(s2.pending) + 1] = Closing("step/end", s2.openTurn, s2.openStep, NoId)
                   /\ d[Len(s2.pending) + 2] = Closing("turn/end", s2.openTurn, None, NoId)
             /\ s2.openTurn # None /\ s2.openStep = None =>
                   Len(d) = 1 /\ d[1] = Closing("turn/end", s2.openTurn, None, NoId)
  <2>1. Sound(m)
    BY <1>6, <1>8, GoodSound, SoundAppend DEF m
  <2>2. s2 \in ScanSet /\ (s2.openStep = None => s2.pending = <<>>)
    BY <2>1 DEF Sound, Coherent, Owed, s2
  <2> QED
    BY <1>7, <2>2, ClosersAre DEF s2, d
<1>9. CASE s.openStep # None /\ s.pending # <<>>
  <2>1. 1 \in 1..Len(s.pending) /\ s.pending[1] \in Waiting
    BY <1>3, <1>9
  <2>2. e = Settling(s.pending[1])
    BY <1>4, <1>9, <2>1 DEF e
  <2>3. /\ e.type = IF s.pending[1].started THEN "tool/result" ELSE "tool/not-started"
        /\ e.turn = s.pending[1].id[1] /\ e.step = s.pending[1].id[2] /\ e.call = s.pending[1].id
    BY <2>2 DEF Settling, Closing
  <2>4. e.turn = s.openTurn /\ e.step = s.openStep
    BY <1>2, <2>1, <2>3 DEF Owed
  <2>5. Fits(l, e)
    BY <1>4, <1>9, <2>3, <2>4 DEF Fits, Admits, IsResult, InStep, s
  <2>6. IsResult(e)
    BY <2>3 DEF IsResult
  <2>7. /\ s2.openTurn = s.openTurn /\ s2.openStep = s.openStep
        /\ Len(s2.pending) = Len(s.pending) - 1
        /\ \A k \in 1..Len(s2.pending) : s2.pending[k] = s.pending[k + 1]
    BY <1>1, <1>6, <1>7, <2>3, <2>5, <2>6, ScanMoves DEF Fits, s
  <2>8. /\ d \in Seq(Entries) /\ Len(d) = Len(c) - 1
        /\ \A k \in 1..(Len(s.pending) - 1) : d[k] = Settling(s.pending[k + 1])
        /\ d[Len(s.pending)] = Closing("step/end", s.openTurn, s.openStep, NoId)
        /\ d[Len(s.pending) + 1] = Closing("turn/end", s.openTurn, None, NoId)
    <3>1. (Len(s.pending) - 1) + 1 = Len(s.pending) /\ (Len(s.pending) - 1) + 2 = Len(s.pending) + 1
      BY <1>3
    <3>2. /\ d \in Seq(Entries) /\ Len(d) = Len(s2.pending) + 2
          /\ \A k \in 1..Len(s2.pending) : d[k] = Settling(s2.pending[k])
          /\ d[Len(s2.pending) + 1] = Closing("step/end", s2.openTurn, s2.openStep, NoId)
          /\ d[Len(s2.pending) + 2] = Closing("turn/end", s2.openTurn, None, NoId)
      BY <1>4, <1>8, <1>9, <2>5, <2>7
    <3>3. Len(c) = Len(s.pending) + 2
      BY <1>4, <1>9
    <3> DEFINE n == Len(s.pending)
    <3> DEFINE r == Len(s2.pending)
    <3>4. n \in Nat /\ r = n - 1 /\ r + 1 = n /\ r + 2 = n + 1 /\ Len(c) = n + 2
      BY <1>3, <2>7, <3>3
    <3>5. \A k \in 1..r : d[k] = Settling(s.pending[k + 1])
      BY <2>7, <3>2
    <3>6. /\ Len(d) = r + 2
          /\ d[r + 1] = Closing("step/end", s2.openTurn, s2.openStep, NoId)
          /\ d[r + 2] = Closing("turn/end", s2.openTurn, None, NoId)
      BY <3>2
    <3> HIDE DEF n, r
    <3>7. /\ Len(d) = Len(c) - 1
          /\ \A k \in 1..(n - 1) : d[k] = Settling(s.pending[k + 1])
          /\ d[n] = Closing("step/end", s.openTurn, s.openStep, NoId)
          /\ d[n + 1] = Closing("turn/end", s.openTurn, None, NoId)
      BY <2>7, <3>4, <3>5, <3>6
    <3> QED
      BY <3>2, <3>7 DEF n
  <2>9. \A k \in 1..(Len(c) - 1) : d[k] = c[k + 1]
    <3> TAKE k \in 1..(Len(c) - 1)
    <3>1. Len(c) = Len(s.pending) + 2
      BY <1>4, <1>9
    <3>2. CASE k \in 1..(Len(s.pending) - 1)
      <4>1. k + 1 \in 1..Len(s.pending)
        BY <1>3, <3>2
      <4> QED
        BY <1>4, <1>9, <2>8, <3>2, <4>1
    <3>3. CASE k = Len(s.pending)
      BY <1>4, <1>9, <2>8, <3>3
    <3>4. CASE k = Len(s.pending) + 1
      <4>1. k + 1 = Len(s.pending) + 2
        BY <1>3, <3>4
      <4> QED
        BY <1>4, <1>9, <2>8, <3>4, <4>1
    <3> QED
      BY <1>3, <3>1, <3>2, <3>3, <3>4
  <2>10. d = Tail(c)
    BY <1>5, <2>8, <2>9, SameSeq
  <2> QED
    BY <1>4, <1>6, <2>5, <2>10 DEF d, m, e
<1>10. CASE s.openStep # None /\ s.pending = <<>>
  <2>1. Len(s.pending) = 0
    BY <1>10
  <2>2. Len(c) = 2 /\ c[1] = Closing("step/end", s.openTurn, s.openStep, NoId)
        /\ c[2] = Closing("turn/end", s.openTurn, None, NoId)
    BY <1>4, <1>10, <2>1
  <2>3. e.type = "step/end" /\ e.turn = s.openTurn /\ e.step = s.openStep
    BY <2>2 DEF Closing, e
  <2>4. Fits(l, e)
    BY <1>4, <1>10, <2>3 DEF Fits, Admits, IsResult, InStep, s
  <2>5. s2.openTurn = s.openTurn /\ s2.openStep = None
    BY <1>1, <1>6, <1>7, <2>3, <2>4, ScanMoves DEF Fits, s
  <2>6. d \in Seq(Entries) /\ Len(d) = 1 /\ d[1] = c[2]
    BY <1>4, <1>8, <2>2, <2>4, <2>5
  <2>7. d = Tail(c)
    <3> DEFINE t == Tail(c)
    <3>1. t \in Seq(Entries) /\ Len(t) = Len(c) - 1 /\ \A k \in 1..(Len(c) - 1) : t[k] = c[k + 1]
      BY <1>5
    <3> HIDE DEF t
    <3>2. Len(t) = 1 /\ t[1] = c[2]
      <4>1. Len(c) - 1 = 1 /\ 1 \in 1..1 /\ 1 + 1 = 2
        BY <2>2
      <4> QED
        BY <3>1, <4>1
    <3>3. \A k \in 1..Len(d) : d[k] = t[k]
      BY <2>6, <3>2
    <3>4. d = t
      BY <2>6, <3>1, <3>2, <3>3, SameSeq
    <3> QED
      BY <3>4 DEF t
  <2> QED
    BY <1>4, <1>6, <2>4, <2>7 DEF d, m, e
<1>11. CASE s.openStep = None
  <2>2. Len(c) = 1 /\ c[1] = Closing("turn/end", s.openTurn, None, NoId)
    BY <1>4, <1>11
  <2>3. e.type = "turn/end" /\ e.turn = s.openTurn /\ e.step = None
    BY <2>2 DEF Closing, e
  <2>4. Fits(l, e)
    BY <1>4, <1>11, <2>3 DEF Fits, Admits, IsResult, InStep, s
  <2>5. s2.openTurn = None
    BY <1>1, <1>6, <1>7, <2>3, <2>4, ScanMoves DEF Fits, s
  <2>6. d = <<>>
    BY <1>8, <2>4, <2>5
  <2>7. Tail(c) = <<>>
    <3> DEFINE t == Tail(c)
    <3>1. t \in Seq(Entries) /\ Len(t) = 0
      BY <1>5, <2>2
    <3> HIDE DEF t
    <3>2. t = <<>>
      BY <3>1
    <3> QED
      BY <3>2 DEF t
  <2> QED
    BY <1>4, <1>6, <2>4, <2>6, <2>7 DEF d, m, e
<1> QED
  BY <1>9, <1>10, <1>11

\* A log has closers exactly when a turn of it is open.
LEMMA ClosersOf ==
    ASSUME NEW l \in Seq(Entries), Good(l)
    PROVE  /\ Closers(l) \in Seq(Entries)
           /\ Closers(l) = <<>> <=> Scan(l).openTurn = None
           /\ TraceOf(l).openTurn = Scan(l).openTurn
<1> DEFINE s == Scan(l)
<1>1. Coherent(l, TraceOf(l), s, LastTurn(l))
  BY GoodSound DEF Sound
<1>2. s \in ScanSet /\ Aligned(TraceOf(l), s, LastTurn(l)) /\ (s.openStep = None => s.pending = <<>>)
  BY <1>1 DEF Coherent, Owed
<1>3. Closers(l) \in Seq(Entries) /\ (s.openTurn = None <=> Closers(l) = <<>>)
  BY <1>2, ClosersAre
<1> QED
  BY <1>2, <1>3 DEF Aligned

\* However many closers of a log are already there, the rest closes it the same.
Halfway(l, c, k) ==
    LET p == l \o SubSeq(c, 1, k) IN
    Good(p) /\ p \o Closers(p) = l \o c /\ Len(Closers(p)) = Len(c) - k

\* One closer more leaves the rest the same.
LEMMA CloseMore ==
    ASSUME NEW l \in Seq(Entries), NEW c \in Seq(Entries), NEW k \in 0..Len(c), k < Len(c), Halfway(l, c, k)
    PROVE  Halfway(l, c, k + 1)
<1> DEFINE p == l \o SubSeq(c, 1, k)
<1> DEFINE d == Closers(p)
<1> DEFINE q == l \o SubSeq(c, 1, k + 1)
<1>1. k \in Nat /\ k + 1 \in 0..Len(c) /\ Len(c) \in Nat /\ c[k + 1] \in Entries
  OBVIOUS
<1>2. SubSeq(c, 1, k) \in Seq(Entries) /\ Len(SubSeq(c, 1, k)) = k
      /\ SubSeq(c, 1, k + 1) = Append(SubSeq(c, 1, k), c[k + 1])
  BY <1>1, PrefixIs, PrefixGrows
<1>3. p \in Seq(Entries) /\ Len(p) = Len(l) + k /\ Len(l) \in Nat
  <2>1. Len(p) = Len(l) + Len(SubSeq(c, 1, k)) /\ p \in Seq(Entries) /\ Len(l) \in Nat
    BY <1>2, JoinIs
  <2> QED
    BY <1>2, <2>1
<1>4. Good(p) /\ p \o d = l \o c /\ Len(d) = Len(c) - k
  BY DEF Halfway
<1>5. q = Append(p, c[k + 1])
  <2> DEFINE a == SubSeq(c, 1, k)
  <2> DEFINE x == c[k + 1]
  <2>1. a \in Seq(Entries) /\ x \in Entries /\ q = l \o Append(a, x)
    BY <1>1, <1>2
  <2> HIDE DEF a, x, q
  <2>2. Append(a, x) = a \o <<x>> /\ <<x>> \in Seq(Entries)
    BY <2>1, JoinOne
  <2>3. (l \o a) \o <<x>> = l \o (a \o <<x>>)
    BY <2>1, <2>2, JoinAssociates
  <2>4. l \o a \in Seq(Entries)
    BY <2>1, JoinIs
  <2>5. (l \o a) \o <<x>> = Append(l \o a, x)
    BY <2>1, <2>4, JoinOne
  <2>6. q = Append(l \o a, x)
    BY <2>1, <2>2, <2>3, <2>5
  <2> QED
    BY <2>6 DEF a, x
<1> HIDE DEF p, d, q
<1>6. d \in Seq(Entries) /\ d = Closers(p)
  BY <1>3, <1>4, ClosersOf DEF d
<1>7. d # <<>>
  BY <1>1, <1>4, <1>6
<1>8. d[1] = c[k + 1]
  <2> DEFINE pd == p \o d
  <2> DEFINE lc == l \o c
  <2>1. \A j \in 1..Len(d) : pd[Len(p) + j] = d[j]
    BY <1>3, <1>6, JoinIs
  <2>2. \A j \in 1..Len(c) : lc[Len(l) + j] = c[j]
    BY JoinIs
  <2>3. pd = lc
    BY <1>4
  <2> HIDE DEF pd, lc
  <2>4. 1 \in 1..Len(d) /\ k + 1 \in 1..Len(c) /\ Len(p) + 1 = Len(l) + (k + 1)
    BY <1>1, <1>3, <1>4
  <2>5. pd[Len(p) + 1] = d[1]
    BY <2>1, <2>4
  <2>6. lc[Len(l) + (k + 1)] = c[k + 1]
    BY <2>2, <2>4
  <2> QED
    BY <2>3, <2>4, <2>5, <2>6
<1>9. d[1] \in Entries /\ Fits(p, d[1]) /\ Closers(Append(p, d[1])) = Tail(d)
  BY <1>3, <1>4, <1>6, <1>7, CloseOne
<1>10. Good(q) /\ Closers(q) = Tail(d)
  BY <1>3, <1>4, <1>5, <1>8, <1>9, GoodAppend
<1>11. q \o Tail(d) = p \o d
  <2> DEFINE x == d[1]
  <2> DEFINE t == Tail(d)
  <2>1. x \in Entries /\ t \in Seq(Entries) /\ q = Append(p, x)
    BY <1>5, <1>6, <1>7, <1>8, <1>9, TailIs
  <2>2. d = <<x>> \o t
    BY <1>6, <1>7
  <2> HIDE DEF x, t
  <2>3. q = p \o <<x>> /\ <<x>> \in Seq(Entries)
    BY <1>3, <2>1, JoinOne
  <2>4. (p \o <<x>>) \o t = p \o (<<x>> \o t)
    BY <1>3, <2>1, <2>3, JoinAssociates
  <2> QED
    BY <2>2, <2>3, <2>4 DEF t
<1>12. Len(Tail(d)) = Len(c) - (k + 1)
  BY <1>1, <1>4, <1>6, <1>7, TailIs
<1> QED
  BY <1>4, <1>10, <1>11, <1>12 DEF Halfway, q

\* So it is with any number of them.
LEMMA CloseSome ==
    ASSUME NEW l \in Seq(Entries), Good(l), NEW c, c = Closers(l)
    PROVE  \A k \in 0..Len(c) : Halfway(l, c, k)
<1> DEFINE T == {k \in 0..Len(c) : ~Halfway(l, c, k)}
<1>1. c \in Seq(Entries) /\ Len(c) \in Nat
  BY ClosersOf
<1> SUFFICES ASSUME T # {} PROVE FALSE
  OBVIOUS
<1>2. PICK k \in T : \A j \in T : k <= j
  <2>1. T \in SUBSET Nat
    BY <1>1
  <2> HIDE DEF T
  <2> QED
    BY <2>1, LeastNatural
<1>3. k \in 0..Len(c) /\ ~Halfway(l, c, k)
  OBVIOUS
<1>4. CASE k = 0
  <2>1. SubSeq(c, 1, 0) = <<>>
    OBVIOUS
  <2>2. l \o SubSeq(c, 1, 0) = l
    BY <2>1, JoinEmpty
  <2>3. Len(c) - 0 = Len(c)
    BY <1>1
  <2> QED
    BY <1>3, <1>4, <2>2, <2>3 DEF Halfway
<1>5. CASE k # 0
  <2>1. k - 1 \in 0..Len(c) /\ k - 1 \notin T /\ k - 1 < Len(c) /\ (k - 1) + 1 = k
    BY <1>1, <1>2, <1>3, <1>5
  <2>2. Halfway(l, c, k - 1)
    BY <2>1
  <2> QED
    BY <1>1, <1>3, <2>1, <2>2, CloseMore
<1> QED
  BY <1>4, <1>5

\* With all its closers a log is good and has no open turn, nothing is left to
\* close, and no cut of them changes what it is closed to.
LEMMA CloseAll ==
    ASSUME NEW l \in Seq(Entries), Good(l)
    PROVE  /\ Balanced(l) \in Seq(Entries) /\ Good(Balanced(l))
           /\ Closers(Balanced(l)) = <<>> /\ TraceOf(Balanced(l)).openTurn = None
           /\ \A k \in 0..Len(Closers(l)) : Balanced(l \o SubSeq(Closers(l), 1, k)) = Balanced(l)
<1> DEFINE c == Closers(l)
<1>1. c \in Seq(Entries) /\ Len(c) \in Nat /\ Len(c) \in 0..Len(c) /\ SubSeq(c, 1, Len(c)) = c
  BY ClosersOf, PrefixWhole
<1>2. \A k \in 0..Len(c) : Halfway(l, c, k)
  BY CloseSome
<1> HIDE DEF c
<1>3. l \o c \in Seq(Entries)
  BY <1>1, JoinIs
<1>4. Good(l \o c) /\ Len(Closers(l \o c)) = Len(c) - Len(c)
  BY <1>1, <1>2 DEF Halfway
<1>5. Closers(l \o c) \in Seq(Entries) /\ Len(Closers(l \o c)) = 0
  BY <1>1, <1>3, <1>4, ClosersOf
<1>6. Closers(l \o c) = <<>>
  <2> DEFINE d == Closers(l \o c)
  <2>1. d \in Seq(Entries) /\ Len(d) = 0
    BY <1>5
  <2> HIDE DEF d
  <2>2. d = <<>>
    BY <2>1
  <2> QED
    BY <2>2 DEF d
<1>7. TraceOf(l \o c).openTurn = None
  <2> DEFINE x == l \o c
  <2>1. x \in Seq(Entries) /\ Good(x) /\ Closers(x) = <<>>
    BY <1>3, <1>4, <1>6
  <2> HIDE DEF x
  <2>2. (Closers(x) = <<>> <=> Scan(x).openTurn = None) /\ TraceOf(x).openTurn = Scan(x).openTurn
    BY <2>1, ClosersOf
  <2>3. TraceOf(x).openTurn = None
    BY <2>1, <2>2
  <2> QED
    BY <2>3 DEF x
<1>8. \A k \in 0..Len(c) : Balanced(l \o SubSeq(c, 1, k)) = l \o c
  BY <1>2 DEF Halfway, Balanced
<1> QED
  BY <1>3, <1>4, <1>6, <1>7, <1>8 DEF Balanced, c

-----------------------------------------------------------------------------
(* The inductive invariant.                                                *)

Phases == {"idle", "turn", "request", "answer", "calls", "ending"}
Modes == {"live", "down", "prepared", "truncated", "repairing"}
Planned == [life : {"planned", "waiting", "settled", "answered"}, need : Nat]
Torns == [bytes : BOOLEAN, events : Seq(Entries)]
Sources == [events : Seq(Entries), recovered : Seq(Entries), torn : BOOLEAN, closers : Seq(Entries)]

Typed ==
    /\ log \in Seq(Entries) /\ disk \in Seq(Entries) /\ inflight \in Seq(Entries)
    /\ acked \in Seq(Entries) /\ shown \in Seq(Entries)
    /\ torn \in Torns /\ source \in Sources
    /\ calls \in Seq(Planned) /\ phase \in Phases /\ mode \in Modes

\* The live log is one the trace invariant accepts, and the trace is its own.
Logged == Good(log) /\ trace = TraceOf(log)

\* While the session is live, what is stored and what is being stored is its log.
LiveStore == Live => torn = NoTorn /\ IsPrefix(disk \o inflight, log)

\* While it is not, nobody drives it, and only a repair writes.
Resting ==
    ~Live => /\ log = <<>> /\ phase = "idle" /\ calls = <<>>
             /\ mode # "repairing" => inflight = <<>>

\* A torn record follows a complete one, and is cut off before a repair.
TornShape ==
    /\ ~torn.bytes => torn.events = <<>>
    /\ disk = <<>> => torn = NoTorn
    /\ mode \in {"truncated", "repairing"} => torn = NoTorn

\* The source is what was loaded, and the closers are those of what will be written back.
Sourced ==
    /\ mode = "prepared" =>
          /\ source.events = disk \o torn.events /\ source.recovered = torn.events
          /\ source.torn = torn.bytes /\ source.closers = Closers(disk \o torn.events)
    /\ mode = "truncated" => source.closers = Closers(disk \o source.recovered)

\* What the disk holds once the step recovery stands at is done.
Target ==
    IF mode = "truncated" THEN (disk \o source.recovered) \o source.closers
    ELSE IF mode = "repairing" THEN disk \o inflight
    ELSE disk \o torn.events

Aimed == ~Live => Good(Target)

\* Wherever the writing is cut, what is left is closed to a log this crash allows.
Bound ==
    /\ plans # {} => /\ ~Live /\ disk # <<>>
                     /\ \A n \in Len(disk)..Len(Target) : Balanced(SubSeq(Target, 1, n)) \in plans
    /\ mode \in {"prepared", "truncated", "repairing"} => plans # {}

\* Nothing acknowledged or shown is off the disk, and no body ran off the record.
Books ==
    /\ IsPrefix(acked, disk) /\ IsPrefix(shown, disk)
    /\ \A c \in ran : CalledIn(disk, c)

\* The calls of the message are answered in order: those that are not are the
\* pending ones, and one that waits names the place of its record.
Matched(s) ==
    /\ Len(s.pending) <= Len(calls)
    /\ \A i \in 1..Len(calls) :
          LET k == i - (Len(calls) - Len(s.pending)) IN
          /\ k <= 0 <=> calls[i].life = "answered"
          /\ k >= 1 => /\ s.pending[k].id = CallId(s.openTurn, s.openStep, i)
                       /\ s.pending[k].started <=> calls[i].life # "planned"
          /\ calls[i].life = "waiting" =>
                /\ calls[i].need \in 1..Len(log)
                /\ log[calls[i].need].type = "tool/call"
                /\ log[calls[i].need].call = CallId(s.openTurn, s.openStep, i)

\* Nothing but its start is known of the open step.
Opening(s) ==
    /\ s.openStep # None /\ s.pending = <<>>
    /\ \A i \in 1..Len(log) :
          log[i].turn = s.openTurn /\ log[i].step = s.openStep => log[i].type = "step/start"

\* Where the driver stands is where its log ends.
At(s) ==
    /\ phase = "idle" => s.openTurn = None
    /\ phase \in {"turn", "ending"} => s.openTurn # None /\ s.openStep = None
    /\ phase \in {"request", "answer"} => Opening(s)
    /\ phase = "calls" => s.openStep # None /\ Matched(s)
    /\ phase # "calls" => calls = <<>>

Driven == At(Scan(log))

Stored == LiveStore /\ Resting /\ TornShape /\ Sourced /\ Aimed /\ Bound

SessionInv == Typed /\ Logged /\ Stored /\ Books /\ Driven

-----------------------------------------------------------------------------
(* Events as the driver makes them.                                        *)

\* The fields of a boundary the loop appends.
LEMMA BoundaryEntry ==
    ASSUME NEW type \in {"turn/start", "turn/end", "step/start", "step/end"}, NEW t \in Nat, NEW s \in Nat
    PROVE  /\ Entry(type, t, s) \in Entries
           /\ Entry(type, t, s).type = type /\ Entry(type, t, s).turn = t /\ Entry(type, t, s).step = s
           /\ Entry(type, t, s).by = "loop"
<1> DEFINE e == Entry(type, t, s)
<1>1. e = [type |-> type, turn |-> t, step |-> s, call |-> NoId, calls |-> <<>>, by |-> "loop"]
  BY DEF Entry
<1>2. <<>> \in Seq(CallIds)
  OBVIOUS
<1>3. e \in Records
  BY <1>1, <1>2 DEF Records, Types
<1>4. e \in Entries
  BY <1>1, <1>3 DEF Entries, CallTypes
<1> QED
  BY <1>1, <1>4

\* The fields of a call and of a result the loop appends.
LEMMA CallEntryIs ==
    ASSUME NEW type \in {"tool/call", "tool/result"}, NEW t \in Nat, NEW s \in Nat, NEW i \in Nat
    PROVE  LET e == CallEntry(type, CallId(t, s, i)) IN
           e \in Entries /\ e.type = type /\ e.turn = t /\ e.step = s /\ e.call = CallId(t, s, i) /\ e.by = "loop"
<1> DEFINE e == CallEntry(type, CallId(t, s, i))
<1> DEFINE c == CallId(t, s, i)
<1>1. c[1] = t /\ c[2] = s /\ c \in CallIds
  BY DEF CallId, CallIds
<1> HIDE DEF c
<1>2. Entry(type, c[1], c[2]) =
      [type |-> type, turn |-> t, step |-> s, call |-> NoId, calls |-> <<>>, by |-> "loop"]
  BY <1>1 DEF Entry
<1>3. e = [type |-> type, turn |-> t, step |-> s, call |-> c, calls |-> <<>>, by |-> "loop"]
  BY <1>2 DEF CallEntry, c
<1>4. <<>> \in Seq(CallIds)
  OBVIOUS
<1> HIDE DEF e
<1>5. e \in Records
  BY <1>1, <1>3, <1>4 DEF Records, Types
<1>6. e \in Entries
  BY <1>1, <1>3, <1>5 DEF Entries, CallTypes
<1> QED
  BY <1>3, <1>6 DEF e, c

\* The message of a step that asks for n calls.
MessageOf(t, s, n) == [Entry("assistant/message", t, s) EXCEPT !.calls = [i \in 1..n |-> CallId(t, s, i)]]

\* The fields of an assistant message.
LEMMA MessageIs ==
    ASSUME NEW t \in Nat, NEW s \in Nat, NEW n \in Nat
    PROVE  LET e == MessageOf(t, s, n) IN
           /\ e \in Entries /\ e.type = "assistant/message" /\ e.turn = t /\ e.step = s
           /\ Len(e.calls) = n /\ \A k \in 1..n : e.calls[k] = CallId(t, s, k)
<1> DEFINE ids == [i \in 1..n |-> CallId(t, s, i)]
<1> DEFINE e == MessageOf(t, s, n)
<1>1. \A k \in 1..n : ids[k] = CallId(t, s, k) /\ CallId(t, s, k) \in CallIds
  BY DEF CallId, CallIds
<1>2. ids \in Seq(CallIds) /\ Len(ids) = n
  BY <1>1
<1> HIDE DEF ids
<1>3. e = [type |-> "assistant/message", turn |-> t, step |-> s, call |-> NoId, calls |-> ids, by |-> "loop"]
  BY DEF Entry, MessageOf, ids
<1> HIDE DEF e
<1>4. e \in Records
  BY <1>2, <1>3 DEF Records, Types
<1>5. e \in Entries
  BY <1>1, <1>2, <1>3, <1>4 DEF Entries, CallTypes
<1> QED
  BY <1>1, <1>2, <1>3, <1>5 DEF e, ids

\* One event that fits, or two, appended by Session.append.
Continues == /\ log' \in Seq(Entries) /\ Good(log') /\ trace' = TraceOf(log') /\ IsPrefix(log, log')

\* An event that fits joins the live log.
LEMMA AppendOne ==
    ASSUME log \in Seq(Entries), Logged, NEW e \in Entries, Fits(log, e), Appends(<<e>>)
    PROVE  log' = Append(log, e) /\ Continues
<1>1. log' = Append(log, e) /\ log' \in Seq(Entries)
  BY JoinOne DEF Appends
<1>2. trace' = Apply(trace, e)
  <2>1. <<e>> = Append(<<>>, e) /\ <<>> \in Seq(Entries)
    OBVIOUS
  <2>2. After(trace, Append(<<>>, e)) = Apply(After(trace, <<>>), e)
    BY <2>1, TraceAppend
  <2>3. After(trace, <<>>) = trace
    BY TraceEmpty
  <2> QED
    BY <2>1, <2>2, <2>3 DEF Appends
<1>3. TraceOf(log') = Apply(trace, e)
  BY <1>1, ReadAppend DEF Logged
<1>4. Good(log')
  BY <1>1, GoodAppend DEF Logged
<1>5. IsPrefix(log, log \o <<e>>)
  BY PrefixJoin, JoinOne
<1> QED
  BY <1>1, <1>2, <1>3, <1>4, <1>5 DEF Continues, Appends

\* So do two of them.
LEMMA AppendTwo ==
    ASSUME log \in Seq(Entries), Logged, NEW e \in Entries, NEW f \in Entries,
           Fits(log, e), Fits(Append(log, e), f), Appends(<<e, f>>)
    PROVE  log' = Append(Append(log, e), f) /\ Continues
<1> DEFINE m == Append(log, e)
<1>0. m \in Seq(Entries) /\ Good(m) /\ m = log \o <<e>> /\ <<e>> \in Seq(Entries) /\ <<f>> \in Seq(Entries)
  <2>1. m \in Seq(Entries) /\ m = log \o <<e>> /\ <<e>> \in Seq(Entries)
    BY JoinOne
  <2>2. <<f>> \in Seq(Entries)
    OBVIOUS
  <2>3. Good(m)
    BY GoodAppend DEF Logged
  <2> QED
    BY <2>1, <2>2, <2>3
<1>1. log' = Append(m, f)
  <2>1. <<e, f>> = <<e>> \o <<f>>
    <3>1. <<e, f>> = Append(<<e>>, f) /\ <<e>> \in Seq(Entries)
      OBVIOUS
    <3> QED
      BY <3>1, JoinOne
  <2>2. (log \o <<e>>) \o <<f>> = log \o (<<e>> \o <<f>>)
    BY <1>0, JoinAssociates
  <2>3. log' = m \o <<f>>
    BY <1>0, <2>1, <2>2 DEF Appends
  <2> HIDE DEF m
  <2> QED
    BY <1>0, <2>3, JoinOne
<1>2. trace' = Apply(Apply(trace, e), f)
  <2>1. <<e, f>> = Append(Append(<<>>, e), f) /\ <<>> \in Seq(Entries) /\ Append(<<>>, e) \in Seq(Entries)
    OBVIOUS
  <2>a. <<>> \in Seq(Entries)
    OBVIOUS
  <2>2. After(trace, Append(Append(<<>>, e), f)) = Apply(After(trace, Append(<<>>, e)), f)
    BY <2>1, TraceAppend
  <2>3. After(trace, Append(<<>>, e)) = Apply(After(trace, <<>>), e)
    BY <2>a, TraceAppend
  <2>4. After(trace, <<>>) = trace
    BY TraceEmpty
  <2> QED
    BY <2>1, <2>2, <2>3, <2>4 DEF Appends
<1>3. TraceOf(m) = Apply(trace, e)
  BY ReadAppend DEF Logged
<1> HIDE DEF m
<1>4. TraceOf(log') = Apply(Apply(trace, e), f) /\ Good(log') /\ log' \in Seq(Entries)
  <2>1. Fits(m, f)
    BY DEF m
  <2> QED
    BY <1>0, <1>1, <1>3, <2>1, ReadAppend, GoodAppend, JoinOne
<1>5. IsPrefix(log, log')
  <2>1. IsPrefix(log, log \o <<e>>) /\ IsPrefix(m, m \o <<f>>)
    BY <1>0, PrefixJoin
  <2>2. log' = m \o <<f>>
    BY <1>0, <1>1, JoinOne
  <2> QED
    BY <1>0, <1>4, <2>1, <2>2, PrefixChain
<1> QED
  BY <1>1, <1>2, <1>4, <1>5 DEF Continues, m

\* A session that was never used.
LEMMA InitSessionInv == SessionInit => SessionInv
<1> SUFFICES ASSUME SessionInit PROVE SessionInv
  OBVIOUS
<1> USE DEF SessionInit
<1>1. <<>> \in Seq(Entries) /\ <<>> \in Seq(Planned) /\ <<>> \o <<>> = <<>>
  OBVIOUS
<1>2. Typed
  BY <1>1 DEF Typed, Torns, NoTorn, Sources, NoSource, Phases, Modes
<1>3. Logged
  BY GoodEmpty, TraceEmpty DEF Logged, TraceOf
<1>4. IsPrefix(<<>>, <<>>)
  BY <1>1, PrefixJoin
<1>5. Stored
  <2>1. LiveStore
    BY <1>1, <1>4 DEF LiveStore
  <2>2. Resting /\ Sourced /\ Aimed /\ Bound
    BY DEF Resting, Sourced, Aimed, Bound, Live
  <2>3. TornShape
    BY DEF TornShape, NoTorn
  <2> QED
    BY <2>1, <2>2, <2>3 DEF Stored
<1>6. Books
  BY <1>4 DEF Books
<1>7. Driven
  BY ScanEmpty DEF Driven, At, Unread
<1> QED
  BY <1>2, <1>3, <1>5, <1>6, <1>7 DEF SessionInv

-----------------------------------------------------------------------------
(* The driver's steps.                                                     *)

\* The scan of a log with one more event.
LEMMA ScanNext ==
    ASSUME NEW l \in Seq(Entries), NEW e \in Entries, Good(l), Fits(l, e)
    PROVE  LET s == Scan(l)
               s2 == Scan(Append(l, e))
           IN  /\ s2.openTurn = IF e.type = "turn/start" THEN e.turn
                                ELSE IF e.type = "turn/end" THEN None ELSE s.openTurn
               /\ s2.openStep = IF e.type = "step/start" THEN e.step
                                ELSE IF e.type \in {"turn/start", "turn/end", "step/end"} THEN None ELSE s.openStep
               /\ e.type \in {"turn/start", "turn/end", "step/start", "step/end"} => s2.pending = <<>>
               /\ e.type = "assistant/message" =>
                     /\ Len(s2.pending) = Len(e.calls)
                     /\ \A k \in 1..Len(s2.pending) : s2.pending[k].id = e.calls[k] /\ ~s2.pending[k].started
               /\ e.type = "tool/call" =>
                     /\ Len(s2.pending) = Len(s.pending)
                     /\ \A k \in 1..Len(s2.pending) :
                           /\ s2.pending[k].id = s.pending[k].id
                           /\ s2.pending[k].started <=> (s.pending[k].started \/ s.pending[k].id = e.call)
               /\ IsResult(e) =>
                     /\ Len(s2.pending) = Len(s.pending) - 1
                     /\ \A k \in 1..Len(s2.pending) : s2.pending[k] = s.pending[k + 1]
<1> DEFINE s == Scan(l)
<1> DEFINE s2 == ScanEvent(s, e)
<1>1. Coherent(l, TraceOf(l), s, LastTurn(l)) /\ Admits(l, TraceOf(l), s, LastTurn(l), e)
  BY GoodSound DEF Sound, Fits
<1>2. Scan(Append(l, e)) = s2
  BY ReadAppend
<1> HIDE DEF s
<1>3. s2 = ScanEvent(s, e)
  OBVIOUS
<1> HIDE DEF s2
<1>4. /\ s2.openTurn = IF e.type = "turn/start" THEN e.turn
                       ELSE IF e.type = "turn/end" THEN None ELSE s.openTurn
      /\ s2.openStep = IF e.type = "step/start" THEN e.step
                       ELSE IF e.type \in {"turn/start", "turn/end", "step/end"} THEN None ELSE s.openStep
      /\ e.type \in {"turn/start", "turn/end", "step/start", "step/end"} => s2.pending = <<>>
  BY <1>1, <1>3, ScanMoves
<1>5. /\ e.type = "assistant/message" =>
            /\ Len(s2.pending) = Len(e.calls)
            /\ \A k \in 1..Len(s2.pending) : s2.pending[k].id = e.calls[k] /\ ~s2.pending[k].started
      /\ e.type = "tool/call" =>
            /\ Len(s2.pending) = Len(s.pending)
            /\ \A k \in 1..Len(s2.pending) :
                  /\ s2.pending[k].id = s.pending[k].id
                  /\ s2.pending[k].started <=> (s.pending[k].started \/ s.pending[k].id = e.call)
      /\ IsResult(e) =>
            /\ Len(s2.pending) = Len(s.pending) - 1
            /\ \A k \in 1..Len(s2.pending) : s2.pending[k] = s.pending[k + 1]
  BY <1>1, <1>3, ScanMoves
<1> QED
  BY <1>2, <1>4, <1>5 DEF s

\* Where the log and its trace stand.
LEMMA Stands ==
    ASSUME log \in Seq(Entries), Logged
    PROVE  LET s == Scan(log) IN
           /\ s \in ScanSet /\ s.openTurn \in Nat /\ s.openStep \in Nat /\ s.pending \in Seq(Waiting)
           /\ Len(s.pending) \in Nat
           /\ trace.openTurn = s.openTurn /\ trace.openStep = s.openStep
           /\ trace.nextStep \in Nat /\ trace.nextStep # 0 /\ LastTurn(log) \in Nat
           /\ s.openTurn = None => s.openStep = None
           /\ \A i \in 1..Len(log) : s.openTurn # None /\ s.openStep = None /\ log[i].turn = s.openTurn =>
                                         log[i].step \in Nat /\ log[i].step < trace.nextStep
<1> DEFINE s == Scan(log)
<1>1. Coherent(log, trace, s, LastTurn(log))
  BY GoodSound DEF Sound, Logged
<1>2. \A i \in 1..Len(log) : log[i] \in Entries
  OBVIOUS
<1>3. \A i \in 1..Len(log) : log[i].step \in Nat
  BY <1>2, EntryIs
<1> HIDE DEF s
<1>4. s \in ScanSet /\ trace \in TraceSet /\ LastTurn(log) \in Nat /\ Aligned(trace, s, LastTurn(log))
      /\ Behind(log, trace, s, LastTurn(log))
  BY <1>1 DEF Coherent
<1>5. s.openTurn \in Nat /\ s.openStep \in Nat /\ s.pending \in Seq(Waiting) /\ trace.nextStep \in Nat
  BY <1>4 DEF ScanSet, TraceSet
<1>6. Len(s.pending) \in Nat
  BY <1>5
<1>7. /\ trace.openTurn = s.openTurn /\ trace.openStep = s.openStep /\ trace.nextStep # 0
      /\ s.openTurn = None => s.openStep = None
  BY <1>4 DEF Aligned
<1>8. \A i \in 1..Len(log) : s.openTurn # None /\ s.openStep = None /\ log[i].turn = s.openTurn =>
                                 log[i].step < trace.nextStep
  BY <1>4 DEF Behind
<1> QED
  BY <1>3, <1>4, <1>5, <1>6, <1>7, <1>8 DEF s

\* What a step of the driver has to show: the store is not its own.
LEMMA DriverStays ==
    ASSUME SessionInv, Live, Continues, UNCHANGED <<store, mode, source, acked, plans>>,
           shown' \in Seq(Entries), calls' \in Seq(Planned), phase' \in Phases, Driven', Books'
    PROVE  SessionInv'
<1> USE DEF store
<1>1. Typed'
  BY DEF SessionInv, Typed, Continues
<1>2. Logged'
  BY DEF Logged, Continues
<1>3. LiveStore'
  <2>1. disk \o inflight \in Seq(Entries)
    BY JoinIs DEF SessionInv, Typed
  <2>2. IsPrefix(disk \o inflight, log) /\ torn = NoTorn /\ log \in Seq(Entries)
    BY DEF SessionInv, Stored, LiveStore, Typed
  <2>3. IsPrefix(disk \o inflight, log')
    BY <2>1, <2>2, PrefixChain DEF Continues
  <2> QED
    BY <2>2, <2>3 DEF LiveStore
<1>4. Stored'
  <2>1. Resting' /\ Sourced' /\ Aimed'
    BY DEF Resting, Sourced, Aimed, Live
  <2>2. TornShape'
    BY DEF SessionInv, Stored, TornShape
  <2>3. Bound'
    BY DEF SessionInv, Stored, Bound, Live
  <2> QED
    BY <1>3, <2>1, <2>2, <2>3 DEF Stored
<1> QED
  BY <1>1, <1>2, <1>4 DEF SessionInv

\* Books are kept when nothing they are about changes.
LEMMA BooksStay == ASSUME SessionInv, UNCHANGED <<disk, acked, shown, ran>> PROVE Books'
  BY DEF SessionInv, Books

\* A turn starts where none is open, with the next number.
LEMMA StartTurnKeeps == ASSUME SessionInv, StartTurn PROVE SessionInv'
<1> DEFINE s == Scan(log)
<1> DEFINE e == Entry("turn/start", LastTurn(log) + 1, None)
<1>0. log \in Seq(Entries) /\ Logged /\ Good(log) /\ shown \in Seq(Entries) /\ calls \in Seq(Planned)
  BY DEF SessionInv, Typed, Logged
<1>1. s.openTurn = None /\ calls = <<>>
  BY DEF SessionInv, Driven, At, StartTurn
<1>2. LastTurn(log) \in Nat
  BY <1>0, Stands
<1>3. e \in Entries /\ e.type = "turn/start" /\ e.turn = LastTurn(log) + 1 /\ e.step = None
  BY <1>2, BoundaryEntry DEF None
<1>a. Appends(<<e>>)
  BY DEF StartTurn
<1> HIDE DEF e
<1>4. Fits(log, e)
  BY <1>1, <1>3 DEF Fits, Admits, IsResult, InStep
<1>5. log' = Append(log, e) /\ Continues
  BY <1>0, <1>3, <1>4, <1>a, AppendOne
<1>6. Scan(log').openTurn = LastTurn(log) + 1 /\ Scan(log').openStep = None
  BY <1>0, <1>3, <1>4, <1>5, ScanNext
<1>7. Driven'
  BY <1>1, <1>2, <1>6 DEF Driven, At, StartTurn, None
<1>8. UNCHANGED <<store, mode, source, acked, plans, shown, ran, calls, disk>> /\ phase' \in Phases /\ Live
  BY DEF StartTurn, history, Phases, store
<1> QED
  BY <1>0, <1>5, <1>7, <1>8, BooksStay, DriverStays

\* The step that opens is new: nothing of it is in the log.
LEMMA StartStepKeeps == ASSUME SessionInv, StartStep PROVE SessionInv'
<1> DEFINE s == Scan(log)
<1> DEFINE e == Entry("step/start", Turn, trace.nextStep)
<1>0. log \in Seq(Entries) /\ Logged /\ Good(log) /\ shown \in Seq(Entries) /\ calls \in Seq(Planned)
  BY DEF SessionInv, Typed, Logged
<1>1. s.openTurn # None /\ s.openStep = None /\ calls = <<>>
  BY DEF SessionInv, Driven, At, StartStep
<1>2. /\ s.openTurn \in Nat /\ trace.openTurn = s.openTurn /\ trace.nextStep \in Nat /\ trace.nextStep # 0
      /\ \A i \in 1..Len(log) : s.openTurn # None /\ s.openStep = None /\ log[i].turn = s.openTurn =>
                                    log[i].step \in Nat /\ log[i].step < trace.nextStep
  BY <1>0, Stands
<1>3. e \in Entries /\ e.type = "step/start" /\ e.turn = s.openTurn /\ e.step = trace.nextStep
  BY <1>2, BoundaryEntry DEF Turn
<1>a. Appends(<<e>>)
  BY DEF StartStep
<1> HIDE DEF e
<1>4. Fits(log, e)
  <2>1. TraceOf(log) = trace
    BY <1>0 DEF Logged
  <2> QED
    BY <1>1, <1>3, <2>1 DEF Fits, Admits, IsResult, InStep
<1>5. log' = Append(log, e) /\ Continues
  BY <1>0, <1>3, <1>4, <1>a, AppendOne
<1> DEFINE s2 == Scan(log')
<1>6. s2.openTurn = s.openTurn /\ s2.openStep = trace.nextStep /\ s2.pending = <<>>
  BY <1>0, <1>3, <1>4, <1>5, ScanNext
<1>7. \A i \in 1..Len(log') : log'[i].turn = s2.openTurn /\ log'[i].step = s2.openStep =>
                                  log'[i].type = "step/start"
  <2>1. Grown(log, e, log')
    BY <1>0, <1>3, <1>5, GrownIs
  <2> HIDE DEF s, s2
  <2> SUFFICES ASSUME NEW i \in 1..Len(log'), log'[i].turn = s2.openTurn, log'[i].step = s2.openStep
               PROVE  log'[i].type = "step/start"
    OBVIOUS
  <2>2. CASE i \in 1..Len(log)
    <3>1. log'[i] = log[i]
      BY <2>1, <2>2, GrownPlaces
    <3>2. log[i].step \in Nat /\ log[i].step < trace.nextStep /\ log[i].step = trace.nextStep
      BY <1>1, <1>2, <1>6, <2>2, <3>1
    <3> QED
      BY <1>2, <3>2
  <2>3. CASE i = Len(log) + 1
    BY <1>3, <2>1, <2>3, GrownPlaces
  <2> QED
    BY <2>1, <2>2, <2>3, GrownPlaces
<1>8. Driven'
  <2>1. Opening(Scan(log))'
    BY <1>2, <1>6, <1>7 DEF Opening, None
  <2>2. phase' = "request" /\ calls' = <<>>
    BY <1>1 DEF StartStep
  <2> QED
    BY <2>1, <2>2 DEF Driven, At
<1>9. UNCHANGED <<store, mode, source, acked, plans, shown, ran, calls, disk>> /\ phase' \in Phases /\ Live
  BY DEF StartStep, history, Phases, store
<1> QED
  BY <1>0, <1>5, <1>8, <1>9, BooksStay, DriverStays

\* A request is sent when all of the log is stored: what it shows is on the disk.
LEMMA AskKeeps == ASSUME SessionInv, Ask PROVE SessionInv'
<1>1. /\ log \in Seq(Entries) /\ disk \in Seq(Entries) /\ inflight \in Seq(Entries)
      /\ calls \in Seq(Planned) /\ Logged /\ IsPrefix(disk \o inflight, log)
  BY DEF SessionInv, Typed, Stored, LiveStore, Ask
<1>2. disk \o inflight \in Seq(Entries) /\ IsPrefix(disk, disk \o inflight)
  BY <1>1, JoinIs, PrefixJoin
<1>3. IsPrefix(disk, log)
  BY <1>1, <1>2, PrefixChain
<1>4. disk = log
  BY <1>1, <1>3, PrefixCut DEF Ask, Durable
<1>5. IsPrefix(log, log)
  BY <1>1, PrefixJoin
<1>6. Books'
  BY <1>4, <1>5 DEF Books, SessionInv, Ask, store
<1>7. Continues
  BY <1>1, <1>5 DEF Ask, Continues, Logged
<1>8. Driven'
  BY DEF SessionInv, Driven, At, Ask, Opening
<1>9. /\ UNCHANGED <<store, mode, source, acked, plans>> /\ phase' \in Phases /\ Live
      /\ shown' \in Seq(Entries) /\ calls' \in Seq(Planned)
  BY <1>1 DEF Ask, Phases
<1> QED
  BY <1>6, <1>7, <1>8, <1>9, DriverStays

\* The message answers an open step of which nothing but the start is known.
LEMMA AnswerKeeps == ASSUME SessionInv, Answer PROVE SessionInv'
<1> DEFINE s == Scan(log)
<1>1. PICK n \in 0..MaxCalls :
        /\ LET ids == [i \in 1..n |-> CallId(Turn, Step, i)] IN
           Appends(<<[Entry("assistant/message", Turn, Step) EXCEPT !.calls = ids]>>)
        /\ calls' = [i \in 1..n |-> [life |-> "planned", need |-> 0]]
  BY DEF Answer
<1> DEFINE e == MessageOf(Turn, Step, n)
<1>2. log \in Seq(Entries) /\ Logged /\ Good(log) /\ shown \in Seq(Entries) /\ n \in Nat
  BY DEF SessionInv, Typed, Logged
<1>3. /\ s.openStep # None /\ s.pending = <<>>
      /\ \A i \in 1..Len(log) : log[i].turn = s.openTurn /\ log[i].step = s.openStep => log[i].type = "step/start"
  BY DEF SessionInv, Driven, At, Answer, Opening
<1>4. s.openTurn \in Nat /\ s.openStep \in Nat /\ Turn = s.openTurn /\ Step = s.openStep
  BY <1>2, Stands DEF Turn, Step
<1>5. /\ e \in Entries /\ e.type = "assistant/message" /\ e.turn = s.openTurn /\ e.step = s.openStep
      /\ Len(e.calls) = n /\ \A k \in 1..n : e.calls[k] = CallId(s.openTurn, s.openStep, k)
  <2>1. Turn \in Nat /\ Step \in Nat
    BY <1>4
  <2>2. /\ e \in Entries /\ e.type = "assistant/message" /\ e.turn = Turn /\ e.step = Step
        /\ Len(e.calls) = n /\ \A k \in 1..n : e.calls[k] = CallId(Turn, Step, k)
    BY <1>2, <2>1, MessageIs
  <2> HIDE DEF e, s
  <2> QED
    BY <1>4, <2>2
<1>a. Appends(<<e>>)
  BY <1>1 DEF e, MessageOf
<1> HIDE DEF e, s
<1>6. Fits(log, e)
  BY <1>3, <1>5 DEF Fits, Admits, IsResult, InStep, s
<1>7. log' = Append(log, e) /\ Continues
  BY <1>2, <1>5, <1>6, <1>a, AppendOne
<1> DEFINE s2 == Scan(log')
<1>8. /\ s2.openTurn = s.openTurn /\ s2.openStep = s.openStep /\ Len(s2.pending) = n
      /\ \A k \in 1..n : s2.pending[k].id = CallId(s.openTurn, s.openStep, k) /\ ~s2.pending[k].started
  <2>1. /\ s2.openTurn = s.openTurn /\ s2.openStep = s.openStep
        /\ Len(s2.pending) = Len(e.calls)
        /\ \A k \in 1..Len(s2.pending) : s2.pending[k].id = e.calls[k] /\ ~s2.pending[k].started
    BY <1>2, <1>5, <1>6, <1>7, ScanNext DEF s
  <2> HIDE DEF s2
  <2> QED
    BY <1>5, <2>1
<1>9. /\ calls' \in Seq(Planned) /\ Len(calls') = n
      /\ \A i \in 1..n : calls'[i].life = "planned"
  <2> DEFINE v == [life |-> "planned", need |-> 0]
  <2>1. v \in Planned /\ v.life = "planned"
    BY DEF Planned
  <2>2. calls' = [i \in 1..n |-> v]
    BY <1>1
  <2> HIDE DEF v
  <2>3. calls' \in Seq(Planned) /\ Len(calls') = n
    BY <1>2, <2>1, <2>2
  <2>4. \A i \in 1..n : calls'[i] = v
    BY <2>2
  <2> QED
    BY <2>1, <2>3, <2>4
<1> HIDE DEF s2
<1>10. Matched(Scan(log))'
  <2>1. \A i \in 1..n : i - (n - n) = i /\ i >= 1
    BY <1>2
  <2>2. Scan(log)' = s2 /\ Len(s2.pending) <= Len(calls')
    BY <1>2, <1>8, <1>9 DEF s2
  <2> QED
    BY <1>8, <1>9, <2>1, <2>2 DEF Matched
<1>11. Driven'
  <2>1. Scan(log') = s2 /\ phase' = "calls"
    BY DEF s2, Answer
  <2>2. s2.openStep # None
    BY <1>3, <1>8
  <2> QED
    BY <1>10, <2>1, <2>2 DEF Driven, At
<1>12. UNCHANGED <<store, mode, source, acked, plans, shown, ran, disk>> /\ phase' \in Phases /\ Live
  BY DEF Answer, history, Phases, store
<1> QED
  BY <1>2, <1>7, <1>9, <1>11, <1>12, BooksStay, DriverStays

\* A step ends: nothing of it is pending any more.
LEMMA StepEnds ==
    ASSUME SessionInv, Scan(log).openStep # None, Appends(<<Entry("step/end", Turn, Step)>>)
    PROVE  Continues /\ Scan(log').openTurn # None /\ Scan(log').openStep = None
<1> DEFINE s == Scan(log)
<1> DEFINE e == Entry("step/end", Turn, Step)
<1>1. log \in Seq(Entries) /\ Logged /\ Good(log)
  BY DEF SessionInv, Typed, Logged
<1>2. s.openTurn \in Nat /\ s.openStep \in Nat /\ Turn = s.openTurn /\ Step = s.openStep /\ s.openTurn # None
  BY <1>1, Stands DEF Turn, Step
<1>3. e \in Entries /\ e.type = "step/end" /\ e.turn = s.openTurn /\ e.step = s.openStep /\ e.by = "loop"
  BY <1>2, BoundaryEntry
<1> HIDE DEF e
<1>4. Fits(log, e)
  BY <1>3 DEF Fits, Admits, IsResult, InStep
<1>5. log' = Append(log, e) /\ Continues
  BY <1>1, <1>3, <1>4, AppendOne DEF e
<1> QED
  BY <1>1, <1>2, <1>3, <1>4, <1>5, ScanNext

\* The step of a failed request ends with no call pending.
LEMMA RequestFailsKeeps == ASSUME SessionInv, RequestFails PROVE SessionInv'
<1>1. Scan(log).openStep # None /\ calls = <<>> /\ calls \in Seq(Planned) /\ shown \in Seq(Entries)
  BY DEF SessionInv, Driven, At, RequestFails, Opening, Typed
<1>2. Continues /\ Scan(log').openTurn # None /\ Scan(log').openStep = None
  BY <1>1, StepEnds DEF RequestFails
<1>3. Driven'
  BY <1>1, <1>2 DEF Driven, At, RequestFails
<1>4. UNCHANGED <<store, mode, source, acked, plans, shown, ran, calls, disk>> /\ phase' \in Phases /\ Live
  BY DEF RequestFails, history, Phases, store
<1> QED
  BY <1>1, <1>2, <1>3, <1>4, BooksStay, DriverStays

\* A step ends, and whatever its calls are left with.
LEMMA EndStepKeeps == ASSUME SessionInv, EndStep PROVE SessionInv'
<1>1. Scan(log).openStep # None /\ shown \in Seq(Entries)
  BY DEF SessionInv, Driven, At, EndStep, Typed
<1>2. Continues /\ Scan(log').openTurn # None /\ Scan(log').openStep = None
  BY <1>1, StepEnds DEF EndStep
<1>3. calls' = <<>> /\ phase' \in {"turn", "ending"} /\ calls' \in Seq(Planned)
  BY DEF EndStep
<1>4. Driven'
  BY <1>2, <1>3 DEF Driven, At
<1>5. UNCHANGED <<store, mode, source, acked, plans, shown, ran, disk>> /\ phase' \in Phases /\ Live
  BY DEF EndStep, history, Phases, store
<1> QED
  BY <1>1, <1>2, <1>3, <1>4, <1>5, BooksStay, DriverStays

\* A turn ends between steps.
LEMMA EndTurnKeeps == ASSUME SessionInv, EndTurn PROVE SessionInv'
<1> DEFINE s == Scan(log)
<1> DEFINE e == Entry("turn/end", Turn, None)
<1>1. /\ log \in Seq(Entries) /\ Logged /\ Good(log) /\ shown \in Seq(Entries)
      /\ calls = <<>> /\ calls \in Seq(Planned) /\ s.openTurn # None /\ s.openStep = None
  BY DEF SessionInv, Typed, Logged, Driven, At, EndTurn
<1>2. s.openTurn \in Nat /\ Turn = s.openTurn
  BY <1>1, Stands DEF Turn
<1>3. e \in Entries /\ e.type = "turn/end" /\ e.turn = s.openTurn /\ e.step = None
  BY <1>2, BoundaryEntry DEF None
<1>a. Appends(<<e>>)
  BY DEF EndTurn
<1> HIDE DEF e
<1>4. Fits(log, e)
  BY <1>1, <1>3 DEF Fits, Admits, IsResult, InStep
<1>5. log' = Append(log, e) /\ Continues
  BY <1>1, <1>3, <1>4, <1>a, AppendOne
<1>6. Scan(log').openTurn = None
  BY <1>1, <1>3, <1>4, <1>5, ScanNext
<1>7. Driven'
  BY <1>1, <1>6 DEF Driven, At, EndTurn
<1>8. UNCHANGED <<store, mode, source, acked, plans, shown, ran, calls, disk>> /\ phase' \in Phases /\ Live
  BY DEF EndTurn, history, Phases, store
<1> QED
  BY <1>1, <1>5, <1>7, <1>8, BooksStay, DriverStays

\* A call of the message moves on; the others stay as they are.
LEMMA CallMoves ==
    ASSUME SessionInv, NEW i \in 1..Len(calls), NEW life \in {"planned", "waiting", "settled", "answered"},
           NEW need \in Nat, Becomes(i, life, need)
    PROVE  /\ calls' \in Seq(Planned) /\ Len(calls') = Len(calls) /\ Len(calls) \in Nat
           /\ calls'[i].life = life /\ calls'[i].need = need
           /\ \A j \in 1..Len(calls) : j # i => calls'[j] = calls[j]
<1> DEFINE v == [life |-> life, need |-> need]
<1>1. v \in Planned /\ v.life = life /\ v.need = need
  BY DEF Planned
<1>2. calls \in Seq(Planned) /\ calls' = [calls EXCEPT ![i] = v]
  BY DEF SessionInv, Typed, Becomes
<1> HIDE DEF v
<1> QED
  BY <1>1, <1>2

\* What the driver knows of the calls of the message.
LEMMA AtCalls ==
    ASSUME SessionInv, phase = "calls"
    PROVE  LET s == Scan(log) IN
           /\ log \in Seq(Entries) /\ Logged /\ Good(log) /\ shown \in Seq(Entries)
           /\ s.openTurn \in Nat /\ s.openStep \in Nat /\ s.openStep # None
           /\ Len(s.pending) \in Nat /\ Len(calls) \in Nat /\ DOMAIN calls = 1..Len(calls)
           /\ Turn = s.openTurn /\ Step = s.openStep
           /\ Len(s.pending) <= Len(calls)
           /\ \A i \in 1..Len(calls) :
                 LET k == i - (Len(calls) - Len(s.pending)) IN
                 /\ k <= 0 <=> calls[i].life = "answered"
                 /\ k >= 1 => /\ s.pending[k].id = CallId(s.openTurn, s.openStep, i)
                              /\ s.pending[k].started <=> calls[i].life # "planned"
           /\ \A i \in 1..Len(calls) : calls[i].life = "waiting" =>
                 /\ calls[i].need \in 1..Len(log)
                 /\ log[calls[i].need].type = "tool/call"
                 /\ log[calls[i].need].call = CallId(s.openTurn, s.openStep, i)
<1> DEFINE s == Scan(log)
<1>1. log \in Seq(Entries) /\ Logged /\ Good(log) /\ shown \in Seq(Entries) /\ calls \in Seq(Planned)
  BY DEF SessionInv, Typed, Logged
<1>2. Len(calls) \in Nat /\ DOMAIN calls = 1..Len(calls)
  BY <1>1
<1>3. s.openTurn \in Nat /\ s.openStep \in Nat /\ Len(s.pending) \in Nat /\ Turn = s.openTurn /\ Step = s.openStep
  BY <1>1, Stands DEF Turn, Step
<1> HIDE DEF s
<1>4. s.openStep # None /\ Matched(s)
  BY DEF SessionInv, Driven, At, s
<1>5. /\ Len(s.pending) <= Len(calls)
      /\ \A i \in 1..Len(calls) :
            LET k == i - (Len(calls) - Len(s.pending)) IN
            /\ k <= 0 <=> calls[i].life = "answered"
            /\ k >= 1 => /\ s.pending[k].id = CallId(s.openTurn, s.openStep, i)
                         /\ s.pending[k].started <=> calls[i].life # "planned"
  BY <1>4 DEF Matched
<1>6. \A i \in 1..Len(calls) : calls[i].life = "waiting" =>
          /\ calls[i].need \in 1..Len(log)
          /\ log[calls[i].need].type = "tool/call"
          /\ log[calls[i].need].call = CallId(s.openTurn, s.openStep, i)
  BY <1>4 DEF Matched
<1> QED
  BY <1>1, <1>2, <1>3, <1>4, <1>5, <1>6 DEF s

\* The first call without an answer is the first pending one.
LEMMA HeadCall ==
    ASSUME SessionInv, phase = "calls", NEW i \in 1..Len(calls), calls[i].life # "answered",
           \A j \in 1..(i - 1) : calls[j].life = "answered"
    PROVE  i - (Len(calls) - Len(Scan(log).pending)) = 1
<1> DEFINE n == Len(calls)
<1> DEFINE p == Len(Scan(log).pending)
<1>1. n \in Nat /\ p \in Nat /\ p <= n /\ \A j \in 1..n : j - (n - p) <= 0 <=> calls[j].life = "answered"
  BY AtCalls
<1> HIDE DEF n, p
<1>2. i \in 1..n
  BY DEF n
<1>3. i - (n - p) >= 1
  BY <1>1, <1>2
<1>4. i = 1 => i - (n - p) = 1
  BY <1>1, <1>3
<1>5. ASSUME i # 1 PROVE i - (n - p) = 1
  <2>1. i - 1 \in 1..n /\ i - 1 \in 1..(i - 1)
    BY <1>1, <1>2, <1>5
  <2>2. (i - 1) - (n - p) <= 0
    BY <1>1, <2>1
  <2> QED
    BY <1>1, <1>2, <1>3, <2>2
<1> QED
  BY <1>4, <1>5 DEF n, p

\* Places of the log keep what they hold.
LEMMA PlaceKept ==
    ASSUME NEW l \in Seq(Entries), NEW e \in Entries, NEW k \in 1..Len(l)
    PROVE  k \in 1..Len(Append(l, e)) /\ Append(l, e)[k] = l[k]
  BY GrownIs, GrownPlaces

\* The call is recorded, and waits for the place of its record to be durable.
LEMMA RecordCallKeeps == ASSUME SessionInv, NEW i \in DOMAIN calls, RecordCall(i) PROVE SessionInv'
<1> DEFINE s == Scan(log)
<1> DEFINE e == CallEntry("tool/call", CallId(Turn, Step, i))
<1> DEFINE n == Len(calls)
<1> DEFINE p == Len(s.pending)
<1>1. /\ phase = "calls" /\ Live /\ calls[i].life = "planned" /\ phase' = phase
      /\ Appends(<<e>>) /\ Becomes(i, "waiting", Len(log) + 1)
  BY DEF RecordCall, NextIs
<1>2. /\ log \in Seq(Entries) /\ Logged /\ Good(log) /\ shown \in Seq(Entries)
      /\ s.openTurn \in Nat /\ s.openStep \in Nat /\ s.openStep # None
      /\ p \in Nat /\ n \in Nat /\ i \in 1..n /\ p <= n
      /\ Turn = s.openTurn /\ Step = s.openStep
  BY <1>1, AtCalls
<1>3. \A j \in 1..n :
          /\ j - (n - p) <= 0 <=> calls[j].life = "answered"
          /\ j - (n - p) >= 1 => /\ s.pending[j - (n - p)].id = CallId(s.openTurn, s.openStep, j)
                                 /\ s.pending[j - (n - p)].started <=> calls[j].life # "planned"
  BY <1>1, AtCalls
<1>4. \A j \in 1..n : calls[j].life = "waiting" =>
          /\ calls[j].need \in 1..Len(log)
          /\ log[calls[j].need].type = "tool/call"
          /\ log[calls[j].need].call = CallId(s.openTurn, s.openStep, j)
  BY <1>1, AtCalls
<1>5. /\ e \in Entries /\ e.type = "tool/call" /\ e.turn = s.openTurn /\ e.step = s.openStep
      /\ e.call = CallId(s.openTurn, s.openStep, i)
  <2>1. Turn \in Nat /\ Step \in Nat /\ i \in Nat
    BY <1>2
  <2>2. e \in Entries /\ e.type = "tool/call" /\ e.turn = Turn /\ e.step = Step /\ e.call = CallId(Turn, Step, i)
    BY <2>1, CallEntryIs
  <2> HIDE DEF e
  <2> QED
    BY <1>2, <2>2
<1> HIDE DEF e
<1>6. Fits(log, e)
  <2>1. i - (n - p) \in 1..p /\ s.pending[i - (n - p)].id = e.call
    BY <1>1, <1>2, <1>3, <1>5
  <2> QED
    BY <1>2, <1>5, <2>1 DEF Fits, Admits, IsResult, InStep
<1>7. log' = Append(log, e) /\ Continues
  BY <1>1, <1>2, <1>5, <1>6, AppendOne
<1> DEFINE s2 == Scan(log')
<1>8. /\ s2.openTurn = s.openTurn /\ s2.openStep = s.openStep /\ Len(s2.pending) = p
      /\ \A k \in 1..p : /\ s2.pending[k].id = s.pending[k].id
                         /\ s2.pending[k].started <=> (s.pending[k].started \/ s.pending[k].id = e.call)
  BY <1>2, <1>5, <1>6, <1>7, ScanNext
<1>9. /\ calls' \in Seq(Planned) /\ Len(calls') = n
      /\ calls'[i].life = "waiting" /\ calls'[i].need = Len(log) + 1
      /\ \A j \in 1..n : j # i => calls'[j] = calls[j]
  BY <1>1, <1>2, CallMoves
<1>10. \A j \in 1..n : CallId(s.openTurn, s.openStep, j) = CallId(s.openTurn, s.openStep, i) => j = i
  BY DEF CallId
<1> HIDE DEF s, s2, n, p
<1>11. \A j \in 1..n :
           /\ j - (n - p) <= 0 <=> calls'[j].life = "answered"
           /\ j - (n - p) >= 1 => /\ s2.pending[j - (n - p)].id = CallId(s2.openTurn, s2.openStep, j)
                                  /\ s2.pending[j - (n - p)].started <=> calls'[j].life # "planned"
  <2> TAKE j \in 1..n
  <2> DEFINE k == j - (n - p)
  <2>1. k >= 1 => k \in 1..p
    BY <1>2
  <2>2. /\ k <= 0 <=> calls[j].life = "answered"
        /\ k >= 1 => /\ s.pending[k].id = CallId(s.openTurn, s.openStep, j)
                     /\ s.pending[k].started <=> calls[j].life # "planned"
    BY <1>3
  <2> HIDE DEF k
  <2>3. k >= 1 => /\ s2.pending[k].id = s.pending[k].id
                  /\ s2.pending[k].started <=> (s.pending[k].started \/ s.pending[k].id = e.call)
    BY <1>8, <2>1
  <2>4. k <= 0 <=> calls'[j].life = "answered"
    BY <1>1, <1>9, <2>2
  <2>5. k >= 1 => s2.pending[k].id = CallId(s2.openTurn, s2.openStep, j)
    BY <1>8, <2>2, <2>3
  <2>6. k >= 1 => (s2.pending[k].started <=> calls'[j].life # "planned")
    <3>1. CASE j = i
      <4>1. calls'[j].life = "waiting"
        BY <1>9, <3>1
      <4>2. k >= 1 => s.pending[k].id = e.call
        BY <1>5, <2>2, <3>1
      <4> QED
        BY <2>3, <4>1, <4>2
    <3>2. CASE j # i
      <4>1. calls'[j] = calls[j]
        BY <1>9, <3>2
      <4>2. k >= 1 => s.pending[k].id # e.call
        BY <1>5, <1>10, <2>2, <3>2
      <4> QED
        BY <2>2, <2>3, <4>1, <4>2
    <3> QED
      BY <3>1, <3>2
  <2> QED
    BY <2>4, <2>5, <2>6 DEF k
<1>12. \A j \in 1..n : calls'[j].life = "waiting" =>
           /\ calls'[j].need \in 1..Len(log')
           /\ log'[calls'[j].need].type = "tool/call"
           /\ log'[calls'[j].need].call = CallId(s2.openTurn, s2.openStep, j)
  <2> TAKE j \in 1..n
  <2>1. Grown(log, e, log')
    BY <1>2, <1>5, <1>7, GrownIs
  <2>2. CASE j = i
    BY <1>5, <1>8, <1>9, <2>1, <2>2, GrownPlaces
  <2>3. CASE j # i
    <3>1. calls'[j] = calls[j]
      BY <1>9, <2>3
    <3> QED
      BY <1>4, <1>8, <2>1, <3>1, GrownPlaces
  <2> QED
    BY <2>2, <2>3
<1>13. Driven'
  <2>1. Scan(log') = s2 /\ Len(s2.pending) <= Len(calls')
    BY <1>2, <1>8, <1>9 DEF s2
  <2>2. Matched(Scan(log))'
    BY <1>8, <1>9, <1>11, <1>12, <2>1 DEF Matched
  <2>3. s2.openStep # None /\ phase' = "calls"
    BY <1>1, <1>2, <1>8
  <2> QED
    BY <2>1, <2>2, <2>3 DEF Driven, At
<1>14. UNCHANGED <<store, mode, source, acked, plans, shown, ran, disk>> /\ phase' \in Phases
  BY <1>1 DEF RecordCall, history, Phases, store
<1> QED
  BY <1>1, <1>2, <1>7, <1>9, <1>13, <1>14, BooksStay, DriverStays

\* A waiting call is settled: nothing is appended.
LEMMA SettleKeeps ==
    ASSUME SessionInv, NEW i \in DOMAIN calls, NextIs(i, "waiting", Begun), Becomes(i, "settled", 0),
           UNCHANGED <<log, trace, phase, store, mode, source, acked, plans, shown>>, Books'
    PROVE  SessionInv'
<1> DEFINE s == Scan(log)
<1> DEFINE n == Len(calls)
<1> DEFINE p == Len(s.pending)
<1>1. phase = "calls" /\ Live /\ calls[i].life = "waiting" /\ log' = log
  BY DEF NextIs
<1>2. /\ log \in Seq(Entries) /\ Logged /\ shown \in Seq(Entries) /\ s.openStep # None
      /\ i \in 1..n /\ p <= n
  BY <1>1, AtCalls
<1>3. \A j \in 1..n :
          /\ j - (n - p) <= 0 <=> calls[j].life = "answered"
          /\ j - (n - p) >= 1 => /\ s.pending[j - (n - p)].id = CallId(s.openTurn, s.openStep, j)
                                 /\ s.pending[j - (n - p)].started <=> calls[j].life # "planned"
  BY <1>1, AtCalls
<1>4. \A j \in 1..n : calls[j].life = "waiting" =>
          /\ calls[j].need \in 1..Len(log)
          /\ log[calls[j].need].type = "tool/call"
          /\ log[calls[j].need].call = CallId(s.openTurn, s.openStep, j)
  BY <1>1, AtCalls
<1>5. /\ calls' \in Seq(Planned) /\ Len(calls') = n /\ calls'[i].life = "settled"
      /\ \A j \in 1..n : j # i => calls'[j] = calls[j]
  BY <1>2, CallMoves
<1>6. Continues
  BY <1>1, <1>2, PrefixJoin DEF Continues, Logged
<1> HIDE DEF s, n, p
<1>7. \A j \in 1..n :
          /\ j - (n - p) <= 0 <=> calls'[j].life = "answered"
          /\ j - (n - p) >= 1 => /\ s.pending[j - (n - p)].id = CallId(s.openTurn, s.openStep, j)
                                 /\ s.pending[j - (n - p)].started <=> calls'[j].life # "planned"
  <2> TAKE j \in 1..n
  <2>1. calls'[j].life = "answered" <=> calls[j].life = "answered"
    BY <1>1, <1>5
  <2>2. calls'[j].life = "planned" <=> calls[j].life = "planned"
    BY <1>1, <1>5
  <2> QED
    BY <1>3, <2>1, <2>2
<1>8. \A j \in 1..n : calls'[j].life = "waiting" =>
          /\ calls'[j].need \in 1..Len(log')
          /\ log'[calls'[j].need].type = "tool/call"
          /\ log'[calls'[j].need].call = CallId(s.openTurn, s.openStep, j)
  <2> TAKE j \in 1..n
  <2>1. calls'[j].life = "waiting" => calls'[j] = calls[j]
    BY <1>5
  <2> QED
    BY <1>1, <1>4, <2>1
<1>9. Driven'
  <2>1. Scan(log') = s /\ Len(s.pending) <= Len(calls')
    BY <1>1, <1>2, <1>5 DEF s, p
  <2>2. Matched(Scan(log))'
    BY <1>5, <1>7, <1>8, <2>1 DEF Matched, p
  <2>3. s.openStep # None /\ phase' = "calls"
    BY <1>1, <1>2
  <2> QED
    BY <2>1, <2>2, <2>3 DEF Driven, At
<1>10. UNCHANGED <<store, mode, source, acked, plans>> /\ phase' \in Phases /\ shown' \in Seq(Entries)
  BY <1>1, <1>2 DEF Phases
<1> QED
  BY <1>1, <1>5, <1>6, <1>9, <1>10, DriverStays

\* An aborted call is settled, and its body never runs.
LEMMA RefuseBodyKeeps == ASSUME SessionInv, NEW i \in DOMAIN calls, RefuseBody(i) PROVE SessionInv'
<1>1. UNCHANGED <<log, trace, phase, store, mode, source, acked, plans, shown, ran, disk>>
  BY DEF RefuseBody, history, store
<1> QED
  BY <1>1, BooksStay, SettleKeeps DEF RefuseBody

\* A body runs when the record of its call is on the disk.
LEMMA RunBodyKeeps == ASSUME SessionInv, NEW i \in DOMAIN calls, RunBody(i) PROVE SessionInv'
<1> DEFINE k == calls[i].need
<1>0. phase = "calls" /\ calls[i].life = "waiting" /\ Live
  BY DEF RunBody, NextIs
<1>1. /\ log \in Seq(Entries) /\ disk \in Seq(Entries) /\ inflight \in Seq(Entries)
      /\ IsPrefix(disk \o inflight, log)
  BY <1>0 DEF SessionInv, Typed, Stored, LiveStore
<1>2. k \in 1..Len(log) /\ log[k].type = "tool/call" /\ log[k].call = CallId(Turn, Step, i)
  <2>1. DOMAIN calls = 1..Len(calls)
    BY <1>0, AtCalls
  <2> QED
    BY <1>0, <2>1, AtCalls
<1>3. IsPrefix(disk, log)
  <2>1. disk \o inflight \in Seq(Entries) /\ IsPrefix(disk, disk \o inflight)
    BY <1>1, JoinIs, PrefixJoin
  <2> QED
    BY <1>1, <2>1, PrefixChain
<1>4. k <= Len(disk)
  BY DEF RunBody, Durable
<1> HIDE DEF k
<1>5. k \in 1..Len(disk) /\ disk[k] = log[k]
  <2>1. \A j \in 1..Len(disk) : disk[j] = log[j]
    BY <1>1, <1>3, PrefixMeans
  <2>2. Len(disk) \in Nat /\ Len(log) \in Nat
    BY <1>1
  <2> QED
    BY <1>2, <1>4, <2>1, <2>2
<1>6. CalledIn(disk, CallId(Turn, Step, i))
  BY <1>2, <1>5 DEF CalledIn
<1>7. UNCHANGED <<log, trace, phase, store, mode, source, acked, plans, shown, disk>>
      /\ ran' = ran \cup {CallId(Turn, Step, i)}
  BY DEF RunBody, store
<1>8. Books'
  BY <1>6, <1>7 DEF Books, SessionInv
<1> QED
  BY <1>7, <1>8, SettleKeeps DEF RunBody

\* The first pending call is answered: every other moves up.
LEMMA AnswerMatches ==
    ASSUME SessionInv, phase = "calls", NEW i \in 1..Len(calls),
           i - (Len(calls) - Len(Scan(log).pending)) = 1, Becomes(i, "answered", 0),
           IsPrefix(log, log'), log' \in Seq(Entries),
           Scan(log').openTurn = Scan(log).openTurn, Scan(log').openStep = Scan(log).openStep,
           Len(Scan(log').pending) = Len(Scan(log).pending) - 1,
           \A k \in 1..(Len(Scan(log).pending) - 1) :
               /\ Scan(log').pending[k].id = Scan(log).pending[k + 1].id
               /\ Scan(log').pending[k].started <=> Scan(log).pending[k + 1].started
    PROVE  Matched(Scan(log))' /\ Scan(log').openStep # None
<1> DEFINE s == Scan(log)
<1> DEFINE s2 == Scan(log')
<1> DEFINE n == Len(calls)
<1> DEFINE p == Len(s.pending)
<1> DEFINE q == Len(s2.pending)
<1>1. /\ log \in Seq(Entries) /\ s.openStep # None /\ p \in Nat /\ n \in Nat /\ i \in 1..n /\ p <= n
      /\ i - (n - p) = 1
  BY AtCalls
<1>2. \A j \in 1..n :
          /\ j - (n - p) <= 0 <=> calls[j].life = "answered"
          /\ j - (n - p) >= 1 => /\ s.pending[j - (n - p)].id = CallId(s.openTurn, s.openStep, j)
                                 /\ s.pending[j - (n - p)].started <=> calls[j].life # "planned"
  BY AtCalls
<1>3. \A j \in 1..n : calls[j].life = "waiting" =>
          /\ calls[j].need \in 1..Len(log)
          /\ log[calls[j].need].type = "tool/call"
          /\ log[calls[j].need].call = CallId(s.openTurn, s.openStep, j)
  BY AtCalls
<1>4. /\ Len(calls') = n /\ calls'[i].life = "answered"
      /\ \A j \in 1..n : j # i => calls'[j] = calls[j]
  BY <1>1, CallMoves
<1>5. /\ s2.openTurn = s.openTurn /\ s2.openStep = s.openStep /\ q = p - 1
      /\ \A k \in 1..(p - 1) : /\ s2.pending[k].id = s.pending[k + 1].id
                               /\ s2.pending[k].started <=> s.pending[k + 1].started
  OBVIOUS
<1>6. Len(log) <= Len(log') /\ \A k \in 1..Len(log) : log[k] = log'[k]
  BY <1>1, PrefixMeans
<1>7. Len(log) \in Nat /\ Len(log') \in Nat
  BY <1>1
<1> HIDE DEF s, s2, n, p, q
<1>8. \A j \in 1..n :
          /\ j - (n - q) <= 0 <=> calls'[j].life = "answered"
          /\ j - (n - q) >= 1 =>
                /\ s2.pending[j - (n - q)].id = CallId(s2.openTurn, s2.openStep, j)
                /\ s2.pending[j - (n - q)].started <=> calls'[j].life # "planned"
  <2> TAKE j \in 1..n
  <2> DEFINE k == j - (n - p)
  <2> DEFINE h == j - (n - q)
  <2>1. h + 1 = k /\ h \in Int /\ (k = 1 <=> j = i) /\ (h <= 0 <=> k <= 0 \/ k = 1)
      /\ (h >= 1 => k >= 1 /\ k # 1 /\ h \in 1..(p - 1))
    BY <1>1, <1>5
  <2>2. /\ k <= 0 <=> calls[j].life = "answered"
        /\ k >= 1 => /\ s.pending[k].id = CallId(s.openTurn, s.openStep, j)
                     /\ s.pending[k].started <=> calls[j].life # "planned"
    BY <1>2
  <2> HIDE DEF k, h
  <2>3. h <= 0 <=> calls'[j].life = "answered"
    BY <1>4, <2>1, <2>2
  <2>4. ASSUME h >= 1
        PROVE  /\ s2.pending[h].id = CallId(s2.openTurn, s2.openStep, j)
               /\ s2.pending[h].started <=> calls'[j].life # "planned"
    <3>1. calls'[j] = calls[j] /\ k >= 1 /\ h \in 1..(p - 1)
      BY <1>4, <2>1, <2>4
    <3>2. s2.pending[h].id = s.pending[k].id /\ (s2.pending[h].started <=> s.pending[k].started)
      BY <1>5, <2>1, <3>1
    <3> QED
      BY <1>5, <2>2, <3>1, <3>2
  <2> QED
    BY <2>3, <2>4 DEF h
<1>9. \A j \in 1..n : calls'[j].life = "waiting" =>
          /\ calls'[j].need \in 1..Len(log')
          /\ log'[calls'[j].need].type = "tool/call"
          /\ log'[calls'[j].need].call = CallId(s2.openTurn, s2.openStep, j)
  <2> TAKE j \in 1..n
  <2>1. calls'[j].life = "waiting" => calls'[j] = calls[j]
    BY <1>4
  <2> SUFFICES ASSUME calls'[j].life = "waiting"
               PROVE  /\ calls'[j].need \in 1..Len(log')
                      /\ log'[calls'[j].need].type = "tool/call"
                      /\ log'[calls'[j].need].call = CallId(s2.openTurn, s2.openStep, j)
    OBVIOUS
  <2> DEFINE m == calls[j].need
  <2>2. m \in 1..Len(log) /\ log[m].type = "tool/call" /\ log[m].call = CallId(s.openTurn, s.openStep, j)
        /\ calls'[j].need = m
    BY <1>3, <2>1
  <2> HIDE DEF m
  <2>3. m \in 1..Len(log') /\ log'[m] = log[m]
    BY <1>6, <1>7, <2>2
  <2> QED
    BY <1>5, <2>2, <2>3
<1>10. Len(s2.pending) <= Len(calls') /\ Scan(log') = s2
  BY <1>1, <1>4, <1>5 DEF s2, q
<1>11. Matched(Scan(log))'
  BY <1>4, <1>8, <1>9, <1>10 DEF Matched, q
<1> QED
  BY <1>1, <1>5, <1>10, <1>11

\* The call that is answered is the first pending one.
LEMMA CommitResultKeeps == ASSUME SessionInv, NEW i \in DOMAIN calls, CommitResult(i) PROVE SessionInv'
<1> DEFINE s == Scan(log)
<1> DEFINE e == CallEntry("tool/result", CallId(Turn, Step, i))
<1> DEFINE p == Len(s.pending)
<1>1. /\ phase = "calls" /\ Live /\ calls[i].life = "settled" /\ phase' = phase
      /\ \A j \in 1..(i - 1) : calls[j].life = "answered"
      /\ Appends(<<e>>) /\ Becomes(i, "answered", 0)
  BY DEF CommitResult, NextIs
<1>2. /\ log \in Seq(Entries) /\ Logged /\ Good(log) /\ shown \in Seq(Entries)
      /\ s.openTurn \in Nat /\ s.openStep \in Nat /\ s.openStep # None
      /\ p \in Nat /\ i \in 1..Len(calls) /\ p <= Len(calls) /\ Len(calls) \in Nat
      /\ Turn = s.openTurn /\ Step = s.openStep
  BY <1>1, AtCalls
<1>3. i - (Len(calls) - p) = 1
  BY <1>1, <1>2, HeadCall
<1>4. p >= 1 /\ s.pending[1].id = CallId(s.openTurn, s.openStep, i) /\ s.pending[1].started
  <2>1. LET k == i - (Len(calls) - p) IN
            k >= 1 => /\ s.pending[k].id = CallId(s.openTurn, s.openStep, i)
                      /\ s.pending[k].started <=> calls[i].life # "planned"
    BY <1>1, <1>2, AtCalls
  <2>2. p >= 1
    BY <1>2, <1>3
  <2> QED
    BY <1>1, <1>3, <2>1, <2>2
<1>5. /\ e \in Entries /\ e.type = "tool/result" /\ e.turn = s.openTurn /\ e.step = s.openStep
      /\ e.call = CallId(s.openTurn, s.openStep, i)
  <2>1. Turn \in Nat /\ Step \in Nat /\ i \in Nat
    BY <1>2
  <2>2. e \in Entries /\ e.type = "tool/result" /\ e.turn = Turn /\ e.step = Step /\ e.call = CallId(Turn, Step, i)
    BY <2>1, CallEntryIs
  <2> HIDE DEF e
  <2> QED
    BY <1>2, <2>2
<1> HIDE DEF e
<1>6. Fits(log, e)
  <2>1. s.pending # <<>> /\ IsResult(e)
    BY <1>4, <1>5 DEF IsResult
  <2> QED
    BY <1>2, <1>4, <1>5, <2>1 DEF Fits, Admits, InStep
<1>7. log' = Append(log, e) /\ Continues
  BY <1>1, <1>2, <1>5, <1>6, AppendOne
<1> DEFINE s2 == Scan(log')
<1>8. /\ s2.openTurn = s.openTurn /\ s2.openStep = s.openStep /\ Len(s2.pending) = p - 1
      /\ \A k \in 1..Len(s2.pending) : s2.pending[k] = s.pending[k + 1]
  <2>1. IsResult(e)
    BY <1>5 DEF IsResult
  <2> QED
    BY <1>2, <1>5, <1>6, <1>7, <2>1, ScanNext
<1>9. \A k \in 1..(p - 1) : /\ s2.pending[k].id = s.pending[k + 1].id
                            /\ s2.pending[k].started <=> s.pending[k + 1].started
  BY <1>8
<1>10. Matched(Scan(log))' /\ s2.openStep # None
  BY <1>1, <1>2, <1>3, <1>7, <1>8, <1>9, AnswerMatches DEF Continues
<1>11. Driven'
  BY <1>1, <1>10 DEF Driven, At
<1>12. calls' \in Seq(Planned)
  BY <1>1, <1>2, CallMoves
<1>13. UNCHANGED <<store, mode, source, acked, plans, shown, ran, disk>> /\ phase' \in Phases
  BY <1>1 DEF CommitResult, history, Phases, store
<1> QED
  BY <1>1, <1>2, <1>7, <1>11, <1>12, <1>13, BooksStay, DriverStays

\* An aborted call is recorded and answered at once.
LEMMA SkipCallKeeps == ASSUME SessionInv, NEW i \in DOMAIN calls, SkipCall(i) PROVE SessionInv'
<1> DEFINE s == Scan(log)
<1> DEFINE e == CallEntry("tool/call", CallId(Turn, Step, i))
<1> DEFINE f == CallEntry("tool/result", CallId(Turn, Step, i))
<1> DEFINE p == Len(s.pending)
<1>1. /\ phase = "calls" /\ Live /\ calls[i].life = "planned" /\ phase' = phase
      /\ \A j \in 1..(i - 1) : calls[j].life = "answered"
      /\ Appends(<<e, f>>) /\ Becomes(i, "answered", 0)
  BY DEF SkipCall, NextIs
<1>2. /\ log \in Seq(Entries) /\ Logged /\ Good(log) /\ shown \in Seq(Entries)
      /\ s.openTurn \in Nat /\ s.openStep \in Nat /\ s.openStep # None
      /\ p \in Nat /\ i \in 1..Len(calls) /\ p <= Len(calls) /\ Len(calls) \in Nat
      /\ Turn = s.openTurn /\ Step = s.openStep
  BY <1>1, AtCalls
<1>3. i - (Len(calls) - p) = 1
  BY <1>1, <1>2, HeadCall
<1>4. p >= 1
  BY <1>2, <1>3
<1>5. \A k \in 1..p : s.pending[k].id = CallId(s.openTurn, s.openStep, i) <=> k = 1
  <2> DEFINE n == Len(calls)
  <2>1. \A j \in 1..n : j - (n - p) >= 1 => s.pending[j - (n - p)].id = CallId(s.openTurn, s.openStep, j)
    BY <1>1, AtCalls
  <2>2. \A j \in 1..n : CallId(s.openTurn, s.openStep, j) = CallId(s.openTurn, s.openStep, i) <=> j = i
    BY DEF CallId
  <2>a. p \in Nat /\ n \in Nat /\ p <= n /\ i \in 1..n /\ i - (n - p) = 1
    BY <1>2, <1>3
  <2> HIDE DEF s, n, p
  <2> TAKE k \in 1..p
  <2> DEFINE j == k + (n - p)
  <2>3. j \in 1..n /\ j - (n - p) = k /\ (k = 1 <=> j = i)
    BY <2>a
  <2>4. s.pending[k].id = CallId(s.openTurn, s.openStep, j)
    BY <2>1, <2>3
  <2> QED
    BY <2>2, <2>3, <2>4
<1>6. /\ e \in Entries /\ e.type = "tool/call" /\ e.turn = s.openTurn /\ e.step = s.openStep
      /\ e.call = CallId(s.openTurn, s.openStep, i)
      /\ f \in Entries /\ f.type = "tool/result" /\ f.turn = s.openTurn /\ f.step = s.openStep
      /\ f.call = CallId(s.openTurn, s.openStep, i)
  <2>1. Turn \in Nat /\ Step \in Nat /\ i \in Nat
    BY <1>2
  <2>2. e \in Entries /\ e.type = "tool/call" /\ e.turn = Turn /\ e.step = Step /\ e.call = CallId(Turn, Step, i)
    BY <2>1, CallEntryIs
  <2>3. f \in Entries /\ f.type = "tool/result" /\ f.turn = Turn /\ f.step = Step /\ f.call = CallId(Turn, Step, i)
    BY <2>1, CallEntryIs
  <2> HIDE DEF e, f
  <2> QED
    BY <1>2, <2>2, <2>3
<1> HIDE DEF e, f
<1>7. Fits(log, e)
  <2>1. 1 \in 1..p /\ s.pending[1].id = e.call
    BY <1>2, <1>4, <1>5, <1>6
  <2> QED
    BY <1>2, <1>6, <2>1 DEF Fits, Admits, IsResult, InStep
<1> DEFINE m == Append(log, e)
<1> DEFINE s1 == Scan(m)
<1>8. m \in Seq(Entries) /\ Good(m)
  BY <1>2, <1>6, <1>7, GoodAppend, JoinOne
<1>9. /\ s1.openTurn = s.openTurn /\ s1.openStep = s.openStep /\ Len(s1.pending) = p
      /\ \A k \in 1..p : /\ s1.pending[k].id = s.pending[k].id
                         /\ s1.pending[k].started <=> (s.pending[k].started \/ s.pending[k].id = e.call)
  BY <1>2, <1>6, <1>7, ScanNext
<1>10. s1.pending[1].id = f.call /\ s1.pending[1].started /\ s1.pending # <<>>
  <2>1. 1 \in 1..p
    BY <1>2, <1>4
  <2> HIDE DEF s, s1, p
  <2>2. s.pending[1].id = CallId(s.openTurn, s.openStep, i)
    BY <1>5, <2>1
  <2> QED
    BY <1>4, <1>6, <1>9, <2>1, <2>2
<1>11. Fits(m, f)
  <2>1. IsResult(f)
    BY <1>6 DEF IsResult
  <2> QED
    BY <1>2, <1>6, <1>9, <1>10, <2>1 DEF Fits, Admits, InStep
<1>12. log' = Append(m, f) /\ Continues
  BY <1>1, <1>2, <1>6, <1>7, <1>11, AppendTwo
<1> DEFINE s2 == Scan(log')
<1>13. /\ s2.openTurn = s1.openTurn /\ s2.openStep = s1.openStep /\ Len(s2.pending) = p - 1
       /\ \A k \in 1..Len(s2.pending) : s2.pending[k] = s1.pending[k + 1]
  <2>1. IsResult(f)
    BY <1>6 DEF IsResult
  <2> HIDE DEF m
  <2> QED
    BY <1>6, <1>8, <1>9, <1>11, <1>12, <2>1, ScanNext
<1>14. \A k \in 1..(p - 1) : /\ s2.pending[k].id = s.pending[k + 1].id
                             /\ s2.pending[k].started <=> s.pending[k + 1].started
  <2> HIDE DEF s, s1, s2, p, m
  <2> TAKE k \in 1..(p - 1)
  <2>1. k + 1 \in 1..p /\ k + 1 # 1
    BY <1>2
  <2>2. s2.pending[k] = s1.pending[k + 1]
    BY <1>13
  <2>3. s.pending[k + 1].id # e.call
    BY <1>5, <1>6, <2>1
  <2> QED
    BY <1>9, <2>1, <2>2, <2>3
<1>15. s2.openTurn = s.openTurn /\ s2.openStep = s.openStep
  BY <1>9, <1>13
<1>16. Matched(Scan(log))' /\ s2.openStep # None
  BY <1>1, <1>2, <1>3, <1>12, <1>13, <1>14, <1>15, AnswerMatches DEF Continues
<1>17. Driven'
  BY <1>1, <1>16 DEF Driven, At
<1>18. calls' \in Seq(Planned)
  BY <1>1, <1>2, CallMoves
<1>19. UNCHANGED <<store, mode, source, acked, plans, shown, ran, disk>> /\ phase' \in Phases
  BY <1>1 DEF SkipCall, history, Phases, store
<1> QED
  BY <1>1, <1>2, <1>12, <1>17, <1>18, <1>19, BooksStay, DriverStays

\* Every step of the driver keeps the invariant.
LEMMA DriverKeeps == ASSUME SessionInv, Driver PROVE SessionInv'
<1>1. CASE StartTurn
  BY <1>1, StartTurnKeeps
<1>2. CASE StartStep
  BY <1>2, StartStepKeeps
<1>3. CASE Ask
  BY <1>3, AskKeeps
<1>4. CASE Answer
  BY <1>4, AnswerKeeps
<1>5. CASE RequestFails
  BY <1>5, RequestFailsKeeps
<1>6. CASE EndStep
  BY <1>6, EndStepKeeps
<1>7. CASE EndTurn
  BY <1>7, EndTurnKeeps
<1>8. CASE \E i \in DOMAIN calls :
               RecordCall(i) \/ RunBody(i) \/ RefuseBody(i) \/ CommitResult(i) \/ SkipCall(i)
  BY <1>8, RecordCallKeeps, RunBodyKeeps, RefuseBodyKeeps, CommitResultKeeps, SkipCallKeeps
<1> QED
  BY <1>1, <1>2, <1>3, <1>4, <1>5, <1>6, <1>7, <1>8 DEF Driver

-----------------------------------------------------------------------------
(* The write path.                                                         *)

\* What of a sequence follows one of its prefixes.
LEMMA PrefixRest ==
    ASSUME NEW S, NEW s \in Seq(S), NEW t \in Seq(S), IsPrefix(s, t)
    PROVE  SubSeq(t, Len(s) + 1, Len(t)) \in Seq(S) /\ s \o SubSeq(t, Len(s) + 1, Len(t)) = t
<1> DEFINE n == Len(s)
<1> DEFINE m == Len(t)
<1> DEFINE r == SubSeq(t, n + 1, m)
<1>1. n \in Nat /\ m \in Nat /\ n <= m /\ \A k \in 1..n : s[k] = t[k]
  BY PrefixMeans
<1>2. r \in Seq(S) /\ Len(r) = m - n /\ \A k \in 1..(m - n) : r[k] = t[n + k]
  BY <1>1
<1> DEFINE sr == s \o r
<1>3. /\ sr \in Seq(S) /\ Len(sr) = n + Len(r) /\ \A k \in 1..n : sr[k] = s[k]
      /\ \A k \in 1..Len(r) : sr[n + k] = r[k]
  BY <1>2, JoinIs
<1> HIDE DEF r, sr, n, m
<1>4. Len(sr) = m
  BY <1>1, <1>2, <1>3
<1>5. \A k \in 1..m : sr[k] = t[k]
  <2> TAKE k \in 1..m
  <2>2. CASE k \in 1..n
    BY <1>1, <1>3, <2>2
  <2>3. CASE k \notin 1..n
    <3>1. k - n \in 1..(m - n) /\ n + (k - n) = k
      BY <1>1, <2>3
    <3> QED
      BY <1>2, <1>3, <3>1
  <2> QED
    BY <2>2, <2>3
<1>6. sr = t
  BY <1>3, <1>4, <1>5, SameSeq DEF m
<1> QED
  BY <1>2, <1>6 DEF r, sr, n, m

\* What is on the disk stays there when the disk grows.
LEMMA CalledStays ==
    ASSUME NEW l \in Seq(Entries), NEW m \in Seq(Entries), IsPrefix(l, m), NEW c, CalledIn(l, c)
    PROVE  CalledIn(m, c)
<1>1. Len(l) <= Len(m) /\ \A k \in 1..Len(l) : l[k] = m[k]
  BY PrefixMeans
<1>2. Len(l) \in Nat /\ Len(m) \in Nat
  OBVIOUS
<1>3. PICK k \in 1..Len(l) : l[k].type = "tool/call" /\ l[k].call = c
  BY DEF CalledIn
<1>4. k \in 1..Len(m) /\ m[k] = l[k]
  BY <1>1, <1>2
<1> QED
  BY <1>3, <1>4 DEF CalledIn

\* Books are kept when the disk grows.
LEMMA BooksGrow ==
    ASSUME SessionInv, disk' \in Seq(Entries), IsPrefix(disk, disk'), acked' = acked \/ acked' = disk',
           UNCHANGED <<shown, ran>>
    PROVE  Books'
<1>1. disk \in Seq(Entries) /\ acked \in Seq(Entries) /\ shown \in Seq(Entries)
      /\ IsPrefix(acked, disk) /\ IsPrefix(shown, disk) /\ \A c \in ran : CalledIn(disk, c)
  BY DEF SessionInv, Typed, Books
<1>2. IsPrefix(acked, disk') /\ IsPrefix(shown, disk') /\ IsPrefix(disk', disk')
  BY <1>1, PrefixChain, PrefixJoin
<1>3. \A c \in ran : CalledIn(disk', c)
  BY <1>1, CalledStays
<1> QED
  BY <1>2, <1>3 DEF Books

\* What a step of the writer has to show.
LEMMA WriterStays ==
    ASSUME SessionInv, Live, UNCHANGED <<log, trace, phase, mode, torn, source, shown, ran, plans>>,
           disk' \in Seq(Entries), inflight' \in Seq(Entries), acked' \in Seq(Entries), calls' \in Seq(Planned),
           IsPrefix(disk' \o inflight', log), Books', Driven'
    PROVE  SessionInv'
<1>1. Typed'
  BY DEF SessionInv, Typed
<1>2. Logged'
  BY DEF SessionInv, Logged
<1>3. torn = NoTorn
  BY DEF SessionInv, Stored, LiveStore
<1>4. LiveStore' /\ Resting' /\ Sourced' /\ Aimed'
  BY <1>3 DEF LiveStore, Resting, Sourced, Aimed, Live
<1>5. TornShape'
  BY <1>3 DEF TornShape, NoTorn
<1>6. Bound'
  BY DEF SessionInv, Stored, Bound, Live
<1> QED
  BY <1>1, <1>2, <1>4, <1>5, <1>6 DEF SessionInv, Stored

\* Where the driver stands depends on the log, the phase and the calls alone.
LEMMA DrivenStays == ASSUME SessionInv, UNCHANGED <<log, phase, calls>> PROVE Driven'
  BY DEF SessionInv, Driven, At, Opening, Matched

\* While the session is live, disk and batch are the beginning of its log.
LEMMA StoreOf ==
    ASSUME SessionInv, Live
    PROVE  /\ log \in Seq(Entries) /\ disk \in Seq(Entries) /\ inflight \in Seq(Entries)
           /\ acked \in Seq(Entries) /\ calls \in Seq(Planned) /\ disk \o inflight \in Seq(Entries)
           /\ IsPrefix(disk \o inflight, log) /\ IsPrefix(disk, log) /\ IsPrefix(disk, disk \o inflight)
<1>1. /\ log \in Seq(Entries) /\ disk \in Seq(Entries) /\ inflight \in Seq(Entries)
      /\ acked \in Seq(Entries) /\ calls \in Seq(Planned) /\ IsPrefix(disk \o inflight, log)
  BY DEF SessionInv, Typed, Stored, LiveStore
<1>2. disk \o inflight \in Seq(Entries) /\ IsPrefix(disk, disk \o inflight)
  BY <1>1, JoinIs, PrefixJoin
<1> QED
  BY <1>1, <1>2, PrefixChain

\* The batch is what the log has and the disk has not.
LEMMA StartBatchKeeps == ASSUME SessionInv, StartBatch PROVE SessionInv'
<1>1. Live /\ inflight' = SubSeq(log, Len(disk) + 1, Len(log))
      /\ UNCHANGED <<log, trace, phase, calls, mode, disk, torn, source, shown, ran, acked, plans>>
  BY DEF StartBatch, driver, history
<1>2. inflight' \in Seq(Entries) /\ disk \o inflight' = log
  BY <1>1, StoreOf, PrefixRest
<1>3. IsPrefix(log, log)
  BY <1>1, StoreOf, PrefixJoin
<1>4. Books' /\ Driven'
  BY <1>1, BooksStay, DrivenStays
<1> QED
  BY <1>1, <1>2, <1>3, <1>4, StoreOf, WriterStays

\* The batch is durable and acknowledged.
LEMMA BatchDoneKeeps == ASSUME SessionInv, BatchDone PROVE SessionInv'
<1>1. /\ Live /\ disk' = disk \o inflight /\ acked' = disk' /\ inflight' = <<>>
      /\ UNCHANGED <<log, trace, phase, calls, mode, torn, source, shown, ran, plans>>
  BY DEF BatchDone, Acknowledged, driver
<1>2. disk' \in Seq(Entries) /\ IsPrefix(disk, disk') /\ IsPrefix(disk', log)
  BY <1>1, StoreOf
<1>3. disk' \o inflight' = disk' /\ inflight' \in Seq(Entries)
  BY <1>1, <1>2, JoinEmpty
<1>4. Books' /\ Driven'
  BY <1>1, <1>2, BooksGrow, DrivenStays
<1> QED
  BY <1>1, <1>2, <1>3, <1>4, StoreOf, WriterStays

\* A barrier that rejects settles the calls that wait for it.
LEMMA BatchFailsKeeps == ASSUME SessionInv, BatchFails PROVE SessionInv'
<1> DEFINE freed == [i \in DOMAIN calls |->
                        IF calls[i].life = "waiting" THEN [life |-> "settled", need |-> 0] ELSE calls[i]]
<1>1. /\ Live /\ inflight' = <<>> /\ (calls' = freed \/ calls' = calls)
      /\ UNCHANGED <<log, trace, phase, mode, disk, torn, source, shown, ran, acked, plans>>
  BY DEF BatchFails, history
<1>2. disk \o inflight' = disk /\ inflight' \in Seq(Entries)
  BY <1>1, StoreOf, JoinEmpty
<1>3. calls \in Seq(Planned) /\ DOMAIN calls = 1..Len(calls) /\ Len(calls) \in Nat
  BY <1>1, StoreOf
<1>4. /\ freed \in Seq(Planned) /\ Len(freed) = Len(calls)
      /\ \A i \in 1..Len(calls) :
            /\ calls[i].life = "waiting" => freed[i].life = "settled"
            /\ calls[i].life # "waiting" => freed[i] = calls[i]
  <2> DEFINE v == [life |-> "settled", need |-> 0]
  <2>1. v \in Planned /\ v.life = "settled"
    BY DEF Planned
  <2>2. freed = [i \in 1..Len(calls) |-> IF calls[i].life = "waiting" THEN v ELSE calls[i]]
    BY <1>3
  <2> HIDE DEF v, freed
  <2>3. \A i \in 1..Len(calls) : calls[i] \in Planned
    BY <1>3
  <2>4. freed \in [1..Len(calls) -> Planned]
    BY <2>1, <2>2, <2>3
  <2>5. freed \in Seq(Planned) /\ Len(freed) = Len(calls)
    BY <1>3, <2>4
  <2> QED
    BY <2>1, <2>2, <2>5
<1> HIDE DEF freed
<1>5. Driven'
  <2>1. CASE calls' = calls
    BY <1>1, <2>1, DrivenStays
  <2>2. CASE calls' = freed /\ phase # "calls"
    <3>1. calls = <<>>
      BY <2>2 DEF SessionInv, Driven, At
    <3>2. Len(freed) = 0 /\ freed \in Seq(Planned)
      BY <1>4, <3>1
    <3>3. calls' = calls
      BY <2>2, <3>1, <3>2
    <3> QED
      BY <1>1, <3>3, DrivenStays
  <2>3. CASE calls' = freed /\ phase = "calls"
    <3> DEFINE s == Scan(log)
    <3> DEFINE n == Len(calls)
    <3> DEFINE p == Len(s.pending)
    <3>1. s.openStep # None /\ p <= n
      BY <2>3, AtCalls
    <3>2. \A j \in 1..n :
              /\ j - (n - p) <= 0 <=> calls[j].life = "answered"
              /\ j - (n - p) >= 1 => /\ s.pending[j - (n - p)].id = CallId(s.openTurn, s.openStep, j)
                                     /\ s.pending[j - (n - p)].started <=> calls[j].life # "planned"
      BY <2>3, AtCalls
    <3>3. \A j \in 1..n : calls[j].life = "waiting" =>
              /\ calls[j].need \in 1..Len(log)
              /\ log[calls[j].need].type = "tool/call"
              /\ log[calls[j].need].call = CallId(s.openTurn, s.openStep, j)
      BY <2>3, AtCalls
    <3> HIDE DEF s, n, p
    <3>4. \A j \in 1..n : /\ freed[j].life = "answered" <=> calls[j].life = "answered"
                          /\ freed[j].life = "planned" <=> calls[j].life = "planned"
                          /\ freed[j].life = "waiting" => freed[j] = calls[j]
      BY <1>4 DEF n
    <3>5. \A j \in 1..n :
              /\ j - (n - p) <= 0 <=> freed[j].life = "answered"
              /\ j - (n - p) >= 1 => /\ s.pending[j - (n - p)].id = CallId(s.openTurn, s.openStep, j)
                                     /\ s.pending[j - (n - p)].started <=> freed[j].life # "planned"
      BY <3>2, <3>4
    <3>6. \A j \in 1..n : freed[j].life = "waiting" =>
              /\ freed[j].need \in 1..Len(log)
              /\ log[freed[j].need].type = "tool/call"
              /\ log[freed[j].need].call = CallId(s.openTurn, s.openStep, j)
      BY <3>3, <3>4
    <3>7. Scan(log') = s /\ Len(freed) = n /\ log' = log
      BY <1>1, <1>4 DEF s, n
    <3>8. Matched(Scan(log))'
      BY <2>3, <3>1, <3>5, <3>6, <3>7 DEF Matched, p
    <3> QED
      BY <1>1, <2>3, <3>1, <3>7, <3>8 DEF Driven, At
  <2> QED
    BY <1>1, <2>1, <2>2, <2>3
<1>6. Books' /\ calls' \in Seq(Planned)
  BY <1>1, <1>3, <1>4, BooksStay
<1> QED
  BY <1>1, <1>2, <1>5, <1>6, StoreOf, WriterStays

-----------------------------------------------------------------------------
(* The crash.                                                              *)

\* Everything that can be on the disk is a prefix of one good log.
Reach == IF Live THEN log ELSE Target

\* Nothing is torn.
LEMMA NoTornEvents == NoTorn.bytes = FALSE /\ NoTorn.events = <<>> /\ NoTorn \in Torns
<1>1. <<>> \in Seq(Entries)
  OBVIOUS
<1> QED
  BY <1>1 DEF NoTorn, Torns

\* The sorts of all that is stored and loaded.
LEMMA StoreTyped ==
    ASSUME SessionInv
    PROVE  /\ log \in Seq(Entries) /\ disk \in Seq(Entries) /\ inflight \in Seq(Entries)
           /\ acked \in Seq(Entries) /\ shown \in Seq(Entries) /\ torn \in Torns /\ torn.events \in Seq(Entries)
           /\ torn.bytes \in BOOLEAN
           /\ source \in Sources /\ source.events \in Seq(Entries) /\ source.recovered \in Seq(Entries)
           /\ source.closers \in Seq(Entries)
           /\ disk \o torn.events \in Seq(Entries) /\ disk \o inflight \in Seq(Entries)
           /\ disk \o source.recovered \in Seq(Entries)
           /\ (disk \o source.recovered) \o source.closers \in Seq(Entries) /\ Target \in Seq(Entries)
<1>1. /\ log \in Seq(Entries) /\ disk \in Seq(Entries) /\ inflight \in Seq(Entries)
      /\ acked \in Seq(Entries) /\ shown \in Seq(Entries) /\ torn \in Torns /\ source \in Sources
  BY DEF SessionInv, Typed
<1>2. /\ torn.events \in Seq(Entries) /\ torn.bytes \in BOOLEAN /\ source.events \in Seq(Entries)
      /\ source.recovered \in Seq(Entries) /\ source.closers \in Seq(Entries)
  BY <1>1 DEF Torns, Sources
<1>3. disk \o torn.events \in Seq(Entries)
  BY <1>1, <1>2, JoinIs
<1>4. disk \o inflight \in Seq(Entries)
  BY <1>1, JoinIs
<1>5. disk \o source.recovered \in Seq(Entries)
  BY <1>1, <1>2, JoinIs
<1>6. (disk \o source.recovered) \o source.closers \in Seq(Entries)
  BY <1>2, <1>5, JoinIs
<1>7. Target \in Seq(Entries)
  BY <1>3, <1>4, <1>6 DEF Target
<1> QED
  BY <1>1, <1>2, <1>3, <1>4, <1>5, <1>6, <1>7

\* The disk, the torn record and the batch are cut from that log.
LEMMA Reachable ==
    ASSUME SessionInv
    PROVE  /\ Reach \in Seq(Entries) /\ Good(Reach)
           /\ IsPrefix(disk, Reach) /\ IsPrefix(disk \o torn.events, Reach)
           /\ inflight # <<>> => torn = NoTorn /\ IsPrefix(disk \o inflight, Reach)
<1>1. /\ log \in Seq(Entries) /\ disk \in Seq(Entries) /\ inflight \in Seq(Entries)
      /\ disk \o torn.events \in Seq(Entries) /\ disk \o inflight \in Seq(Entries)
      /\ disk \o source.recovered \in Seq(Entries) /\ source.closers \in Seq(Entries)
      /\ (disk \o source.recovered) \o source.closers \in Seq(Entries) /\ Target \in Seq(Entries)
      /\ torn.events \in Seq(Entries) /\ source.recovered \in Seq(Entries)
  BY StoreTyped
<1>2. disk \o <<>> = disk
  BY <1>1, JoinEmpty
<1>3. CASE Live
  <2>1. Good(log) /\ torn = NoTorn /\ IsPrefix(disk \o inflight, log) /\ IsPrefix(disk, log)
    BY <1>3, StoreOf DEF SessionInv, Logged, Stored, LiveStore
  <2> QED
    BY <1>1, <1>2, <1>3, <2>1, NoTornEvents DEF Reach
<1>4. CASE ~Live
  <2>1. Good(Target) /\ Reach = Target
    BY <1>4 DEF SessionInv, Stored, Aimed, Reach
  <2>2. CASE mode = "truncated"
    <3>1. torn = NoTorn /\ inflight = <<>>
      BY <1>4, <2>2 DEF SessionInv, Stored, TornShape, Resting
    <3>2. IsPrefix(disk, disk \o source.recovered)
          /\ IsPrefix(disk \o source.recovered, (disk \o source.recovered) \o source.closers)
      BY <1>1, PrefixJoin
    <3>3. IsPrefix(disk, Target)
      BY <1>1, <2>2, <3>2, PrefixChain DEF Target
    <3> QED
      BY <1>1, <1>2, <2>1, <3>1, <3>3, NoTornEvents
  <2>3. CASE mode = "repairing"
    <3>1. torn = NoTorn
      BY <2>3 DEF SessionInv, Stored, TornShape
    <3>2. Target = disk \o inflight
      BY <2>3 DEF Target
    <3>3. IsPrefix(disk, Target) /\ IsPrefix(Target, Target)
      BY <1>1, <3>2, PrefixJoin
    <3> QED
      BY <1>1, <1>2, <2>1, <3>1, <3>2, <3>3, NoTornEvents
  <2>4. CASE mode \notin {"truncated", "repairing"}
    <3>1. inflight = <<>>
      BY <1>4, <2>4 DEF SessionInv, Stored, Resting
    <3>2. Target = disk \o torn.events
      BY <2>4 DEF Target
    <3>3. IsPrefix(disk, Target) /\ IsPrefix(Target, Target)
      BY <1>1, <3>2, PrefixJoin
    <3> QED
      BY <1>1, <2>1, <3>1, <3>2, <3>3
  <2> QED
    BY <2>2, <2>3, <2>4
<1> QED
  BY <1>3, <1>4

\* What a crash leaves: more of the batch, or none of it, then perhaps a torn record.
LEMMA CrashLeaves ==
    ASSUME SessionInv, NEW k \in 0..Len(inflight), Written(k)
    PROVE  /\ disk' \in Seq(Entries) /\ torn' \in Torns /\ IsPrefix(disk, disk')
           /\ disk' \o torn'.events \in Seq(Entries)
           /\ IsPrefix(disk' \o torn'.events, Reach)
           /\ ~torn'.bytes => torn'.events = <<>>
           /\ disk' = <<>> => torn' = NoTorn
<1> DEFINE cut == SubSeq(inflight, 1, k)
<1>1. /\ disk \in Seq(Entries) /\ inflight \in Seq(Entries) /\ torn \in Torns /\ torn.events \in Seq(Entries)
      /\ disk \o torn.events \in Seq(Entries) /\ disk \o inflight \in Seq(Entries)
  BY StoreTyped
<1>2. /\ ~torn.bytes => torn.events = <<>>
      /\ disk = <<>> => torn = NoTorn
  BY DEF SessionInv, Stored, TornShape
<1>3. /\ Reach \in Seq(Entries) /\ IsPrefix(disk, Reach) /\ IsPrefix(disk \o torn.events, Reach)
      /\ inflight # <<>> => torn = NoTorn /\ IsPrefix(disk \o inflight, Reach)
  BY Reachable
<1>4. disk \o <<>> = disk /\ IsPrefix(disk, disk) /\ <<>> \in Seq(Entries)
  BY <1>1, JoinEmpty, PrefixJoin
<1>5. cut \in Seq(Entries) /\ disk \o cut \in Seq(Entries) /\ IsPrefix(disk, disk \o cut)
      /\ IsPrefix(disk \o cut, disk \o inflight)
  <2>1. cut \in Seq(Entries)
    BY <1>1, PrefixIs
  <2>2. Len(disk) + k \in 0..Len(disk \o inflight) /\ SubSeq(disk \o inflight, 1, Len(disk) + k) = disk \o cut
    BY <1>1, JoinIs, PrefixOfJoin
  <2> HIDE DEF cut
  <2>3. disk \o cut \in Seq(Entries) /\ IsPrefix(disk, disk \o cut)
    BY <1>1, <2>1, JoinIs, PrefixJoin
  <2> DEFINE t == disk \o inflight
  <2> DEFINE h == Len(disk) + k
  <2>4. t \in Seq(Entries) /\ h \in 0..Len(t) /\ SubSeq(t, 1, h) = disk \o cut
    BY <1>1, <2>2
  <2> HIDE DEF t, h
  <2>5. Len(disk \o cut) = h /\ \A j \in 1..h : (disk \o cut)[j] = t[j]
    BY <2>4, PrefixIs
  <2>6. Len(disk \o cut) <= Len(t)
    BY <2>4, <2>5
  <2>7. IsPrefix(disk \o cut, t)
    BY <2>3, <2>4, <2>5, <2>6, PrefixMeans
  <2> QED
    BY <2>1, <2>3, <2>7 DEF t
<1> HIDE DEF cut
<1>6. CASE inflight = <<>>
  <2>1. k = Len(inflight)
    BY <1>6
  <2>2. disk' = disk \o inflight /\ torn' = torn
    BY <2>1 DEF Written
  <2> QED
    BY <1>1, <1>2, <1>3, <1>4, <1>6, <2>2
<1>7. CASE inflight # <<>>
  <2>1. torn.bytes = FALSE /\ torn.events = <<>> /\ IsPrefix(disk \o inflight, Reach) /\ torn = NoTorn
    BY <1>3, <1>7, NoTornEvents
  <2>2. IsPrefix(disk \o cut, Reach) /\ IsPrefix(disk, disk \o inflight)
    BY <1>1, <1>3, <1>5, <2>1, PrefixChain, PrefixJoin
  <2>3. CASE k = Len(inflight)
    <3>1. disk' = disk \o inflight /\ torn' = torn
      BY <2>3 DEF Written
    <3>2. disk' \o <<>> = disk'
      BY <1>1, <3>1, JoinEmpty
    <3> QED
      BY <1>1, <2>1, <2>2, <3>1, <3>2, NoTornEvents
  <2>4. CASE k # Len(inflight) /\ disk = <<>>
    <3>1. k < Len(inflight)
      BY <1>1, <2>4
    <3>2. disk' = disk /\ torn' = torn
      BY <2>4, <3>1 DEF Written
    <3> QED
      BY <1>1, <1>3, <1>4, <2>1, <3>2
  <2>5. CASE k # Len(inflight) /\ disk # <<>> /\ compression = "none"
    <3>1. k < Len(inflight)
      BY <1>1, <2>5
    <3>2. disk' = disk \o cut /\ torn' \in {torn, [bytes |-> TRUE, events |-> <<>>]}
      BY <2>5, <3>1 DEF Written, cut
    <3>3. torn' \in Torns /\ torn'.events = <<>>
      <4>1. CASE torn' = torn
        BY <1>1, <2>1, <4>1
      <4>2. CASE torn' = [bytes |-> TRUE, events |-> <<>>]
        BY <1>4, <4>2 DEF Torns
      <4> QED
        BY <3>2, <4>1, <4>2
    <3>4. disk' \o <<>> = disk'
      BY <1>5, <3>2, JoinEmpty
    <3>5. disk' # <<>>
      <4>1. Len(disk) <= Len(disk') /\ Len(disk) \in Nat /\ Len(disk) # 0
        BY <1>1, <1>5, <2>5, <3>2, PrefixMeans
      <4> QED
        BY <4>1
    <3> QED
      BY <1>5, <2>1, <2>2, <3>2, <3>3, <3>4, <3>5
  <2>6. CASE k # Len(inflight) /\ disk # <<>> /\ compression # "none"
    <3>1. k < Len(inflight)
      BY <1>1, <2>6
    <3>2. disk' = disk /\ torn' \in {[bytes |-> TRUE, events |-> cut]} \cup IF k = 0 THEN {torn} ELSE {}
      BY <2>6, <3>1 DEF Written, cut
    <3>3. CASE torn' = torn
      BY <1>1, <1>3, <1>4, <2>1, <2>6, <3>2, <3>3
    <3>4. CASE torn' = [bytes |-> TRUE, events |-> cut]
      <4>1. torn' \in Torns /\ torn'.events = cut /\ torn'.bytes
        BY <1>5, <3>4 DEF Torns
      <4> QED
        BY <1>1, <1>4, <1>5, <2>2, <2>6, <3>2, <4>1
    <3> QED
      BY <3>2, <3>3, <3>4
  <2> QED
    BY <2>3, <2>4, <2>5, <2>6
<1> QED
  BY <1>6, <1>7

\* A log cut short is closed to what the whole was, wherever it is cut again.
LEMMA BoundStays ==
    ASSUME NEW t \in Seq(Entries), NEW u \in Seq(Entries), IsPrefix(u, t),
           NEW d \in Nat, NEW h \in Nat, d <= h, NEW P,
           \A n \in d..Len(t) : Balanced(SubSeq(t, 1, n)) \in P
    PROVE  \A n \in h..Len(u) : Balanced(SubSeq(u, 1, n)) \in P
<1>1. Len(u) \in 0..Len(t) /\ u = SubSeq(t, 1, Len(u)) /\ Len(u) \in Nat /\ Len(t) \in Nat
  BY PrefixCut
<1> TAKE n \in h..Len(u)
<1>2. n \in d..Len(t) /\ n \in 0..Len(u)
  BY <1>1
<1>3. SubSeq(u, 1, n) = SubSeq(t, 1, n)
  BY <1>1, <1>2, PrefixOfPrefix
<1> QED
  BY <1>2, <1>3

\* Where nobody drives, the log is empty.
LEMMA RestDriven ==
    ASSUME log' = <<>>, phase' = "idle", calls' = <<>> PROVE Driven'
<1>1. Scan(log') = Unread /\ Unread.openTurn = None
  BY ScanEmpty DEF Unread
<1> QED
  BY <1>1 DEF Driven, At

\* What a step that leaves or keeps the session down has to show.
LEMMA RestStays ==
    ASSUME SessionInv, mode' \in Modes \ {"live"}, log' = <<>>, trace' = Fresh, phase' = "idle", calls' = <<>>,
           disk' \in Seq(Entries), inflight' \in Seq(Entries), torn' \in Torns, source' \in Sources,
           acked' \in Seq(Entries), shown' = shown, mode' # "repairing" => inflight' = <<>>,
           TornShape', Sourced', Aimed', Bound', Books'
    PROVE  SessionInv'
<1>1. <<>> \in Seq(Entries) /\ <<>> \in Seq(Planned) /\ "idle" \in Phases
  BY DEF Phases
<1>2. Typed'
  BY <1>1 DEF SessionInv, Typed
<1>3. Logged'
  BY GoodEmpty, TraceEmpty DEF Logged, TraceOf
<1>4. LiveStore' /\ Resting'
  BY DEF LiveStore, Resting, Live, Modes
<1>5. Driven'
  BY RestDriven
<1> QED
  BY <1>2, <1>3, <1>4, <1>5 DEF SessionInv, Stored

\* A crash leaves a prefix of what was on its way.
LEMMA CrashKeeps == ASSUME SessionInv, Crash PROVE SessionInv'
<1>1. PICK k \in 0..Len(inflight) : Written(k)
  BY DEF Crash
<1>2. /\ inflight' = <<>> /\ mode' = "down" /\ log' = <<>> /\ trace' = Fresh /\ phase' = "idle" /\ calls' = <<>>
      /\ source' = NoSource /\ UNCHANGED <<ran, acked, shown, plans>>
  BY DEF Crash
<1>3. /\ disk' \in Seq(Entries) /\ torn' \in Torns /\ IsPrefix(disk, disk')
      /\ disk' \o torn'.events \in Seq(Entries)
      /\ IsPrefix(disk' \o torn'.events, Reach)
      /\ ~torn'.bytes => torn'.events = <<>>
      /\ disk' = <<>> => torn' = NoTorn
  BY <1>1, CrashLeaves
<1>4. Target' = disk' \o torn'.events
  BY <1>2 DEF Target
<1>5. Reach \in Seq(Entries) /\ Good(Reach) /\ disk \in Seq(Entries) /\ acked \in Seq(Entries)
  BY Reachable, StoreTyped
<1>6. Aimed'
  <2> DEFINE t == disk' \o torn'.events
  <2>1. Len(t) \in 0..Len(Reach) /\ t = SubSeq(Reach, 1, Len(t))
    BY <1>3, <1>5, PrefixCut
  <2> HIDE DEF t
  <2>2. Good(t)
    BY <1>5, <2>1, GoodPrefix
  <2> QED
    BY <1>4, <2>2 DEF Aimed, t
<1>7. Bound'
  <2> SUFFICES ASSUME plans # {}
               PROVE  disk' # <<>> /\ \A n \in Len(disk')..Len(Target') : Balanced(SubSeq(Target', 1, n)) \in plans
    BY <1>2 DEF Bound, Live
  <2>1. /\ ~Live /\ disk # <<>> /\ Reach = Target
        /\ \A n \in Len(disk)..Len(Target) : Balanced(SubSeq(Target, 1, n)) \in plans
    BY DEF SessionInv, Stored, Bound, Reach
  <2>2. Len(disk) \in Nat /\ Len(disk') \in Nat /\ Len(disk) <= Len(disk') /\ Len(disk) # 0
    BY <1>3, <1>5, <2>1, PrefixMeans
  <2>3. disk' # <<>>
    BY <2>2
  <2> DEFINE u == disk' \o torn'.events
  <2>4. u \in Seq(Entries) /\ IsPrefix(u, Reach)
    BY <1>3
  <2> HIDE DEF u
  <2>5. \A n \in Len(disk)..Len(Reach) : Balanced(SubSeq(Reach, 1, n)) \in plans
    BY <2>1
  <2>6. \A n \in Len(disk')..Len(u) : Balanced(SubSeq(u, 1, n)) \in plans
    BY <1>5, <2>2, <2>4, <2>5, BoundStays
  <2> QED
    BY <1>4, <2>3, <2>6 DEF u
<1>8. TornShape' /\ Sourced'
  BY <1>2, <1>3 DEF TornShape, Sourced
<1>9. Books'
  BY <1>2, <1>3, BooksGrow
<1>10. <<>> \in Seq(Entries) /\ source' \in Sources /\ acked' \in Seq(Entries) /\ mode' \in Modes \ {"live"}
  <2>1. <<>> \in Seq(Entries)
    OBVIOUS
  <2> QED
    BY <1>2, <1>5, <2>1 DEF NoSource, Sources, Modes
<1> QED
  BY <1>2, <1>3, <1>6, <1>7, <1>8, <1>9, <1>10, RestStays

-----------------------------------------------------------------------------
(* Recovery.                                                               *)

\* What holds while the session is not live.
LEMMA DownOf ==
    ASSUME SessionInv, ~Live
    PROVE  /\ log = <<>> /\ trace = Fresh /\ phase = "idle" /\ calls = <<>>
           /\ mode # "repairing" => inflight = <<>>
           /\ ~torn.bytes => torn.events = <<>> /\ torn = NoTorn
           /\ disk = <<>> => torn = NoTorn
           /\ mode \in {"truncated", "repairing"} => torn = NoTorn
           /\ Good(Target)
           /\ plans # {} =>
                 /\ disk # <<>>
                 /\ \A n \in Len(disk)..Len(Target) : Balanced(SubSeq(Target, 1, n)) \in plans
           /\ mode \in {"prepared", "truncated", "repairing"} => plans # {}
<1>1. log = <<>> /\ phase = "idle" /\ calls = <<>> /\ (mode # "repairing" => inflight = <<>>)
  BY DEF SessionInv, Stored, Resting
<1>2. trace = Fresh
  BY <1>1, TraceEmpty DEF SessionInv, Logged, TraceOf
<1>3. /\ ~torn.bytes => torn.events = <<>>
      /\ disk = <<>> => torn = NoTorn
      /\ mode \in {"truncated", "repairing"} => torn = NoTorn
  BY DEF SessionInv, Stored, TornShape
<1>4. ~torn.bytes => torn = NoTorn
  <2>1. torn \in Torns
    BY StoreTyped
  <2>2. torn = [bytes |-> torn.bytes, events |-> torn.events] /\ torn.bytes \in BOOLEAN
    BY <2>1 DEF Torns
  <2> QED
    BY <1>3, <2>2 DEF NoTorn
<1>5. Good(Target)
  BY DEF SessionInv, Stored, Aimed
<1>6. /\ plans # {} =>
            /\ disk # <<>>
            /\ \A n \in Len(disk)..Len(Target) : Balanced(SubSeq(Target, 1, n)) \in plans
      /\ mode \in {"prepared", "truncated", "repairing"} => plans # {}
  BY DEF SessionInv, Stored, Bound
<1> QED
  BY <1>1, <1>2, <1>3, <1>4, <1>5, <1>6

\* The load's source is what is stored, and its plans all that a loss of the torn
\* record can lead to.
LEMMA PrepareKeeps == ASSUME SessionInv, Prepare PROVE SessionInv'
<1> DEFINE t == disk \o torn.events
<1>1. /\ mode = "down" /\ ~Live /\ disk # <<>> /\ mode' = "prepared"
      /\ source' = [events |-> t, recovered |-> torn.events, torn |-> torn.bytes, closers |-> Closers(t)]
      /\ plans' = IF plans = {} THEN Outcomes ELSE plans
      /\ UNCHANGED <<log, trace, phase, calls, disk, torn, inflight, ran, acked, shown>>
  BY DEF Prepare, Live, driver, store
<1>2. /\ t \in Seq(Entries) /\ disk \in Seq(Entries) /\ torn.events \in Seq(Entries) /\ torn \in Torns
      /\ acked \in Seq(Entries) /\ inflight \in Seq(Entries) /\ torn.bytes \in BOOLEAN
  BY StoreTyped
<1>3. Target = t /\ Target' = t
  BY <1>1 DEF Target
<1>4. /\ log = <<>> /\ trace = Fresh /\ phase = "idle" /\ calls = <<>> /\ inflight = <<>>
      /\ ~torn.bytes => torn.events = <<>>
      /\ Good(t)
      /\ plans # {} => \A n \in Len(disk)..Len(t) : Balanced(SubSeq(t, 1, n)) \in plans
  BY <1>1, <1>3, DownOf
<1>5. Closers(t) \in Seq(Entries)
  BY <1>2, <1>4, ClosersOf
<1>6. plans' # {} /\ \A n \in Len(disk)..Len(t) : Balanced(SubSeq(t, 1, n)) \in plans'
  <2>1. CASE plans # {}
    BY <1>1, <1>4, <2>1
  <2>2. CASE plans = {}
    <3> DEFINE d == Len(disk)
    <3> DEFINE r == Len(torn.events)
    <3>1. Len(t) = d + r /\ d \in Nat /\ r \in Nat
      BY <1>2, JoinIs
    <3>2. \A k \in 0..r : SubSeq(t, 1, d + k) = disk \o SubSeq(torn.events, 1, k)
      <4> TAKE k \in 0..r
      <4> QED
        BY <1>2, PrefixOfJoin
    <3>3. \A k \in 0..r : Balanced(disk \o SubSeq(torn.events, 1, k)) \in plans'
      BY <1>1, <2>2 DEF Outcomes
    <3> HIDE DEF d, r, t
    <3>4. 0 \in 0..r
      BY <3>1
    <3>5. \A n \in d..Len(t) : Balanced(SubSeq(t, 1, n)) \in plans'
      <4> TAKE n \in d..Len(t)
      <4>1. n - d \in 0..r /\ d + (n - d) = n
        BY <3>1
      <4> QED
        BY <3>2, <3>3, <4>1
    <3> QED
      BY <3>3, <3>4, <3>5 DEF d
  <2> QED
    BY <2>1, <2>2
<1> HIDE DEF t
<1>7. Aimed' /\ Bound'
  BY <1>1, <1>3, <1>4, <1>6 DEF Aimed, Bound, Live
<1>8. source' \in Sources
  BY <1>1, <1>2, <1>5 DEF Sources
<1>9. TornShape' /\ Sourced'
  BY <1>1, <1>4 DEF TornShape, Sourced, t
<1>10. Books'
  BY <1>1, BooksStay
<1> QED
  BY <1>1, <1>2, <1>4, <1>7, <1>8, <1>9, <1>10, RestStays DEF Modes

\* Nothing was stored, and nothing is planned.
LEMMA StartOverKeeps == ASSUME SessionInv, StartOver PROVE SessionInv'
<1>1. /\ mode = "down" /\ ~Live /\ disk = <<>> /\ mode' = "live"
      /\ UNCHANGED <<log, trace, phase, calls, disk, torn, inflight, source, ran, acked, shown, plans>>
  BY DEF StartOver, Live, driver, store, history
<1>2. log = <<>> /\ inflight = <<>> /\ torn = NoTorn /\ plans = {} /\ phase = "idle" /\ calls = <<>>
  BY <1>1, DownOf
<1>3. <<>> \o <<>> = <<>> /\ <<>> \in Seq(Entries)
  OBVIOUS
<1>4. IsPrefix(<<>>, <<>>)
  BY <1>3, PrefixJoin
<1>5. Typed' /\ Logged'
  BY <1>1 DEF SessionInv, Typed, Logged, Modes
<1>6. LiveStore' /\ Resting' /\ TornShape' /\ Sourced' /\ Aimed' /\ Bound'
  BY <1>1, <1>2, <1>3, <1>4 DEF LiveStore, Resting, TornShape, Sourced, Aimed, Bound, Live, NoTorn
<1>7. Books' /\ Driven'
  BY <1>1, <1>2, BooksStay, RestDriven
<1> QED
  BY <1>5, <1>6, <1>7 DEF SessionInv, Stored

\* With its closers, a log is cut and closed to nothing it was not closed to without them.
LEMMA PlansClosed ==
    ASSUME NEW l \in Seq(Entries), Good(l), NEW d \in Nat, d <= Len(l), NEW P,
           \A n \in d..Len(l) : Balanced(SubSeq(l, 1, n)) \in P
    PROVE  LET t == l \o Closers(l) IN
           t \in Seq(Entries) /\ Good(t) /\ \A n \in d..Len(t) : Balanced(SubSeq(t, 1, n)) \in P
<1> DEFINE c == Closers(l)
<1> DEFINE t == l \o c
<1>1. c \in Seq(Entries)
  BY ClosersOf
<1>2. t = Balanced(l)
  BY DEF Balanced
<1>3. t \in Seq(Entries) /\ Good(t) /\ \A k \in 0..Len(c) : Balanced(l \o SubSeq(c, 1, k)) = t
  BY <1>2, CloseAll
<1> HIDE DEF c
<1>4. Len(t) = Len(l) + Len(c) /\ Len(l) \in Nat /\ Len(c) \in Nat
  BY <1>1, JoinIs
<1>5. /\ \A n \in 0..Len(l) : SubSeq(t, 1, n) = SubSeq(l, 1, n)
      /\ \A k \in 0..Len(c) : SubSeq(t, 1, Len(l) + k) = l \o SubSeq(c, 1, k)
  <2>1. \A n \in 0..Len(l) : SubSeq(t, 1, n) = SubSeq(l, 1, n)
    BY <1>1, PrefixOfJoin
  <2>2. \A k \in 0..Len(c) : SubSeq(t, 1, Len(l) + k) = l \o SubSeq(c, 1, k)
    <3> TAKE k \in 0..Len(c)
    <3> QED
      BY <1>1, PrefixOfJoin
  <2> HIDE DEF t
  <2> QED
    BY <2>1, <2>2
<1>6. Balanced(l) \in P
  <2>1. SubSeq(l, 1, Len(l)) = l /\ Len(l) \in d..Len(l)
    BY <1>4, PrefixWhole
  <2> QED
    BY <2>1
<1> HIDE DEF t
<1>7. \A n \in d..Len(t) : Balanced(SubSeq(t, 1, n)) \in P
  <2> TAKE n \in d..Len(t)
  <2>1. CASE n <= Len(l)
    <3>1. n \in d..Len(l) /\ n \in 0..Len(l)
      BY <1>4, <2>1
    <3>2. SubSeq(t, 1, n) = SubSeq(l, 1, n)
      BY <1>5, <3>1
    <3> QED
      BY <3>1, <3>2
  <2>2. CASE n > Len(l)
    <3>1. n - Len(l) \in 0..Len(c) /\ Len(l) + (n - Len(l)) = n
      BY <1>4, <2>2
    <3>2. SubSeq(t, 1, n) = l \o SubSeq(c, 1, n - Len(l))
      BY <1>5, <3>1
    <3>3. Balanced(SubSeq(t, 1, n)) = t
      BY <1>3, <3>1, <3>2
    <3> QED
      BY <1>2, <1>6, <3>3
  <2> QED
    BY <1>4, <2>1, <2>2
<1> QED
  BY <1>3, <1>7 DEF t, c

\* What the truncation takes away the repair will write back, and its closers with it.
LEMMA TruncateKeeps == ASSUME SessionInv, Truncate PROVE SessionInv'
<1> DEFINE t == disk \o torn.events
<1>1. /\ mode = "prepared" /\ ~Live /\ mode' = "truncated" /\ torn' = NoTorn
      /\ UNCHANGED <<log, trace, phase, calls, disk, inflight, source, ran, acked, shown, plans>>
  BY DEF Truncate, Live, driver, history
<1>2. source.recovered = torn.events /\ source.closers = Closers(t)
  BY <1>1 DEF SessionInv, Stored, Sourced
<1>3. /\ t \in Seq(Entries) /\ disk \in Seq(Entries) /\ torn.events \in Seq(Entries)
      /\ acked \in Seq(Entries) /\ inflight \in Seq(Entries) /\ source \in Sources
  BY StoreTyped
<1>4. Target = t /\ Target' = t \o Closers(t)
  BY <1>1, <1>2 DEF Target
<1>5. /\ log = <<>> /\ trace = Fresh /\ phase = "idle" /\ calls = <<>> /\ inflight = <<>> /\ Good(t)
      /\ disk # <<>> /\ plans # {} /\ \A n \in Len(disk)..Len(t) : Balanced(SubSeq(t, 1, n)) \in plans
  BY <1>1, <1>4, DownOf
<1>6. Len(disk) \in Nat /\ Len(disk) <= Len(t)
  BY <1>3, JoinIs
<1> HIDE DEF t
<1>7. Good(t \o Closers(t)) /\ \A n \in Len(disk)..Len(t \o Closers(t)) : Balanced(SubSeq(t \o Closers(t), 1, n)) \in plans
  BY <1>3, <1>5, <1>6, PlansClosed
<1>8. Aimed' /\ Bound'
  BY <1>1, <1>4, <1>5, <1>7 DEF Aimed, Bound, Live
<1>9. TornShape' /\ Sourced'
  BY <1>1, <1>2, NoTornEvents DEF TornShape, Sourced, t
<1>10. Books'
  BY <1>1, BooksStay
<1> QED
  BY <1>1, <1>3, <1>5, <1>8, <1>9, <1>10, NoTornEvents, RestStays DEF Modes

\* The repair writes what completes the target.
LEMMA StartRepairKeeps == ASSUME SessionInv, StartRepair PROVE SessionInv'
<1> DEFINE l == disk \o source.recovered
<1> DEFINE c == source.closers
<1>1. /\ mode = "truncated" \/ (mode = "prepared" /\ ~source.torn)
      /\ ~Live /\ mode' = "repairing" /\ inflight' = source.recovered \o c
      /\ UNCHANGED <<log, trace, phase, calls, disk, torn, source, ran, acked, shown, plans>>
  BY DEF StartRepair, Live, driver, history
<1>2. /\ disk \in Seq(Entries) /\ source.recovered \in Seq(Entries) /\ c \in Seq(Entries) /\ l \in Seq(Entries)
      /\ acked \in Seq(Entries) /\ torn \in Torns /\ source \in Sources
  BY StoreTyped
<1>3. /\ log = <<>> /\ trace = Fresh /\ phase = "idle" /\ calls = <<>> /\ disk # <<>> /\ plans # {}
  BY <1>1, DownOf
<1>4. inflight' \in Seq(Entries) /\ disk \o inflight' = l \o c
  <2>1. source.recovered \o c \in Seq(Entries)
    BY <1>2, JoinIs
  <2>2. (disk \o source.recovered) \o c = disk \o (source.recovered \o c)
    <3> DEFINE r == source.recovered
    <3>1. r \in Seq(Entries) /\ c \in Seq(Entries) /\ disk \in Seq(Entries)
      BY <1>2
    <3> HIDE DEF r, c
    <3>2. (disk \o r) \o c = disk \o (r \o c)
      BY <3>1, JoinAssociates
    <3> QED
      BY <3>2 DEF r
  <2> HIDE DEF c
  <2> QED
    BY <1>1, <2>1, <2>2
<1>5. Target' = l \o c
  BY <1>1, <1>4 DEF Target
<1>6. torn = NoTorn /\ Good(l \o c) /\ \A n \in Len(disk)..Len(l \o c) : Balanced(SubSeq(l \o c, 1, n)) \in plans
  <2>1. CASE mode = "truncated"
    <3>1. Target = l \o c
      BY <2>1 DEF Target
    <3> QED
      BY <1>1, <1>3, <2>1, <3>1, DownOf
  <2>2. CASE mode = "prepared" /\ ~source.torn
    <3>1. source.recovered = torn.events /\ c = Closers(l) /\ ~torn.bytes
      BY <2>2 DEF SessionInv, Stored, Sourced
    <3>2. Target = l
      BY <2>2, <3>1 DEF Target
    <3>3. torn = NoTorn /\ Good(l) /\ \A n \in Len(disk)..Len(l) : Balanced(SubSeq(l, 1, n)) \in plans
      BY <1>1, <1>3, <3>1, <3>2, DownOf
    <3>4. Len(disk) \in Nat /\ Len(disk) <= Len(l)
      BY <1>2, JoinIs
    <3> HIDE DEF l, c
    <3> QED
      BY <1>2, <3>1, <3>3, <3>4, PlansClosed
  <2> QED
    BY <1>1, <2>1, <2>2
<1> HIDE DEF l, c
<1>7. Aimed' /\ Bound'
  BY <1>1, <1>3, <1>5, <1>6 DEF Aimed, Bound, Live
<1>8. TornShape' /\ Sourced'
  BY <1>1, <1>6, NoTornEvents DEF TornShape, Sourced
<1>9. Books'
  BY <1>1, BooksStay
<1> QED
  BY <1>1, <1>2, <1>3, <1>4, <1>7, <1>8, <1>9, RestStays DEF Modes

\* A repair is done, or rolled back: what is on the disk was on the way to its target.
LEMMA RepairEnds ==
    ASSUME SessionInv, mode = "repairing", mode' = "down", source' = NoSource, inflight' = <<>>,
           UNCHANGED <<log, trace, phase, calls, torn, ran, shown, plans>>,
           disk' = disk \/ disk' = disk \o inflight, acked' = acked \/ acked' = disk'
    PROVE  SessionInv'
<1>1. ~Live
  BY DEF Live
<1>2. /\ disk \in Seq(Entries) /\ disk \o inflight \in Seq(Entries) /\ acked \in Seq(Entries)
      /\ inflight \in Seq(Entries) /\ torn \in Torns
  BY StoreTyped
<1>3. IsPrefix(disk, disk \o inflight) /\ IsPrefix(disk, disk)
      /\ IsPrefix(disk \o inflight, disk \o inflight)
  BY <1>2, PrefixJoin
<1>4. disk' \in Seq(Entries) /\ acked' \in Seq(Entries) /\ IsPrefix(disk, disk') /\ IsPrefix(disk', disk \o inflight)
  BY <1>2, <1>3
<1>5. Target = disk \o inflight
  BY DEF Target
<1>6. /\ log = <<>> /\ trace = Fresh /\ phase = "idle" /\ calls = <<>> /\ torn = NoTorn
      /\ Good(disk \o inflight) /\ disk # <<>>
      /\ \A n \in Len(disk)..Len(disk \o inflight) : Balanced(SubSeq(disk \o inflight, 1, n)) \in plans
  BY <1>1, <1>5, DownOf
<1>7. Target' = disk'
  <2>1. disk' \o <<>> = disk'
    BY <1>4, JoinEmpty
  <2> QED
    BY <1>6, <2>1, NoTornEvents DEF Target
<1>8. Len(disk) \in Nat /\ Len(disk') \in Nat /\ Len(disk) <= Len(disk') /\ Len(disk) # 0
  BY <1>2, <1>4, <1>6, PrefixMeans
<1>9. Good(disk')
  <2> DEFINE t == disk \o inflight
  <2>1. Len(disk') \in 0..Len(t) /\ disk' = SubSeq(t, 1, Len(disk'))
    BY <1>2, <1>4, PrefixCut
  <2> HIDE DEF t
  <2>2. t \in Seq(Entries) /\ Good(t)
    BY <1>2, <1>6 DEF t
  <2> QED
    BY <2>1, <2>2, GoodPrefix
<1>10. \A n \in Len(disk')..Len(disk') : Balanced(SubSeq(disk', 1, n)) \in plans
  BY <1>2, <1>4, <1>6, <1>8, BoundStays
<1>11. Aimed' /\ Bound'
  <2>1. disk' # <<>>
    BY <1>8
  <2> QED
    BY <1>7, <1>9, <1>10, <2>1 DEF Aimed, Bound, Live
<1>12. TornShape' /\ Sourced'
  BY <1>6, NoTornEvents DEF TornShape, Sourced
<1>13. Books'
  BY <1>4, BooksGrow
<1>14. <<>> \in Seq(Entries) /\ source' \in Sources
  <2>1. <<>> \in Seq(Entries)
    OBVIOUS
  <2> QED
    BY <2>1 DEF NoSource, Sources
<1> QED
  BY <1>2, <1>4, <1>6, <1>11, <1>12, <1>13, <1>14, RestStays DEF Modes

\* The repair is committed.
LEMMA RepairDoneKeeps == ASSUME SessionInv, RepairDone PROVE SessionInv'
  BY RepairEnds DEF RepairDone, Acknowledged, driver

\* The repair is rolled back.
LEMMA RepairFailsKeeps == ASSUME SessionInv, RepairFails PROVE SessionInv'
  BY RepairEnds DEF RepairFails, driver, history

\* The session that needs no repair is the whole of what is stored, with no open turn.
LEMMA ResumeKeeps == ASSUME SessionInv, Resume PROVE SessionInv'
<1>1. /\ mode = "prepared" /\ ~Live /\ mode' = "live" /\ source.torn = FALSE /\ source.closers = <<>>
      /\ log' = source.events /\ trace' = TraceOf(source.events) /\ source' = NoSource /\ plans' = {}
      /\ UNCHANGED <<phase, calls, disk, torn, inflight, ran, acked, shown>>
  <2>1. source \in Sources
    BY StoreTyped
  <2>2. source.torn \in BOOLEAN
    BY <2>1 DEF Sources
  <2> QED
    BY <2>2 DEF Resume, NeedsRepair, Live, store
<1>2. /\ disk \in Seq(Entries) /\ inflight \in Seq(Entries) /\ acked \in Seq(Entries) /\ shown \in Seq(Entries)
      /\ torn \in Torns /\ torn.bytes \in BOOLEAN
  BY StoreTyped
<1>3. /\ source.events = disk \o torn.events /\ source.torn = torn.bytes
      /\ source.closers = Closers(disk \o torn.events)
  BY <1>1 DEF SessionInv, Stored, Sourced
<1>4. torn = NoTorn /\ phase = "idle" /\ calls = <<>> /\ inflight = <<>> /\ Good(Target)
  BY <1>1, <1>3, DownOf
<1>5. disk \o torn.events = disk /\ disk \o <<>> = disk
  BY <1>2, <1>4, JoinEmpty, NoTornEvents
<1>6. Target = disk /\ log' = disk /\ trace' = TraceOf(disk) /\ Closers(disk) = <<>>
  BY <1>1, <1>3, <1>5 DEF Target
<1>7. Good(disk) /\ Scan(disk).openTurn = None
  BY <1>2, <1>4, <1>6, ClosersOf
<1>8. Driven'
  BY <1>1, <1>4, <1>6, <1>7 DEF Driven, At
<1>9. Typed'
  <2>1. <<>> \in Seq(Entries)
    OBVIOUS
  <2>2. source' \in Sources
    BY <1>1, <2>1 DEF NoSource, Sources
  <2> QED
    BY <1>1, <1>2, <1>6, <2>2 DEF SessionInv, Typed, Modes
<1>10. Logged'
  BY <1>6, <1>7 DEF Logged
<1>11. IsPrefix(disk, disk)
  BY <1>2, PrefixJoin
<1>12. LiveStore' /\ Resting' /\ TornShape' /\ Sourced' /\ Aimed' /\ Bound'
  BY <1>1, <1>4, <1>5, <1>6, <1>11, NoTornEvents DEF LiveStore, Resting, TornShape, Sourced, Aimed, Bound, Live
<1>13. Books'
  BY <1>1, BooksStay
<1> QED
  BY <1>8, <1>9, <1>10, <1>12, <1>13 DEF SessionInv, Stored

-----------------------------------------------------------------------------
(* The theorems.                                                           *)

\* A step that changes nothing keeps the invariant.
LEMMA SessionStutters == ASSUME SessionInv, UNCHANGED sessionVars PROVE SessionInv'
<1>1. UNCHANGED <<log, trace, phase, calls, disk, torn, inflight, mode, source, ran, acked, shown, plans>>
  BY DEF sessionVars, driver, store, history
<1>2. Typed' /\ Logged'
  BY <1>1 DEF SessionInv, Typed, Logged
<1>3. LiveStore' /\ Resting' /\ TornShape' /\ Sourced' /\ Aimed' /\ Bound'
  BY <1>1 DEF SessionInv, Stored, LiveStore, Resting, TornShape, Sourced, Aimed, Bound, Target, Live
<1>4. Books' /\ Driven'
  BY <1>1, BooksStay, DrivenStays
<1> QED
  BY <1>2, <1>3, <1>4 DEF SessionInv, Stored

\* So does every step of driver, writer, recovery and crash.
LEMMA SessionKeeps == SessionInv /\ [SessionNext]_sessionVars => SessionInv'
<1> SUFFICES ASSUME SessionInv, [SessionNext]_sessionVars PROVE SessionInv'
  OBVIOUS
<1>1. CASE Driver
  BY <1>1, DriverKeeps
<1>2. CASE StartBatch
  BY <1>2, StartBatchKeeps
<1>3. CASE BatchDone
  BY <1>3, BatchDoneKeeps
<1>4. CASE BatchFails
  BY <1>4, BatchFailsKeeps
<1>5. CASE Crash
  BY <1>5, CrashKeeps
<1>6. CASE Prepare
  BY <1>6, PrepareKeeps
<1>7. CASE StartOver
  BY <1>7, StartOverKeeps
<1>8. CASE Truncate
  BY <1>8, TruncateKeeps
<1>9. CASE StartRepair
  BY <1>9, StartRepairKeeps
<1>10. CASE RepairDone
  BY <1>10, RepairDoneKeeps
<1>11. CASE RepairFails
  BY <1>11, RepairFailsKeeps
<1>12. CASE Resume
  BY <1>12, ResumeKeeps
<1>13. CASE UNCHANGED sessionVars
  BY <1>13, SessionStutters
<1> QED
  BY <1>1, <1>2, <1>3, <1>4, <1>5, <1>6, <1>7, <1>8, <1>9, <1>10, <1>11, <1>12, <1>13
     DEF SessionNext, Writer, Recovery

\* What a reader sees is one good log, and the disk is a prefix of it.
LEMMA VisibleIs ==
    ASSUME SessionInv
    PROVE  /\ Visible \in Seq(Entries) /\ Good(Visible) /\ IsPrefix(disk, Visible)
           /\ mode = "prepared" => /\ Visible = Balanced(disk \o torn.events)
                                   /\ Good(disk \o torn.events) /\ disk \o torn.events \in Seq(Entries)
<1>1. /\ disk \in Seq(Entries) /\ log \in Seq(Entries) /\ torn.events \in Seq(Entries)
      /\ disk \o torn.events \in Seq(Entries)
  BY StoreTyped
<1>2. CASE Live
  BY <1>1, <1>2, StoreOf DEF Visible, Live, SessionInv, Logged
<1>3. CASE mode = "prepared"
  <2> DEFINE t == disk \o torn.events
  <2>1. ~Live /\ source.events = t /\ source.closers = Closers(t) /\ Target = t
    BY <1>3 DEF Live, SessionInv, Stored, Sourced, Target
  <2>2. Good(t) /\ t \in Seq(Entries) /\ IsPrefix(disk, t)
    BY <1>1, <2>1, DownOf, PrefixJoin
  <2>3. Visible = Balanced(t) /\ Visible = t \o Closers(t)
    BY <1>3, <2>1 DEF Visible, Balanced
  <2> HIDE DEF t
  <2>4. Closers(t) \in Seq(Entries) /\ Balanced(t) \in Seq(Entries) /\ Good(Balanced(t))
    BY <2>2, ClosersOf, CloseAll
  <2>5. IsPrefix(t, t \o Closers(t))
    BY <2>2, <2>4, PrefixJoin
  <2>6. IsPrefix(disk, Visible)
    BY <1>1, <2>2, <2>3, <2>4, <2>5, PrefixChain
  <2> QED
    BY <2>2, <2>3, <2>4, <2>6 DEF t
<1>4. CASE ~Live /\ mode # "prepared"
  <2>1. Visible = disk
    BY <1>4 DEF Visible
  <2>2. Len(disk) \in 0..Len(Reach) /\ disk = SubSeq(Reach, 1, Len(disk)) /\ Reach \in Seq(Entries) /\ Good(Reach)
    BY <1>1, Reachable, PrefixCut
  <2>3. Good(disk)
    BY <2>2, GoodPrefix
  <2> QED
    BY <1>1, <1>4, <2>1, <2>3, PrefixJoin
<1> QED
  BY <1>2, <1>3, <1>4 DEF Live

\* The books, seen through what a reader sees.
LEMMA InvKept == SessionInv => Kept
<1> SUFFICES ASSUME SessionInv PROVE Kept
  OBVIOUS
<1>1. /\ disk \in Seq(Entries) /\ acked \in Seq(Entries) /\ shown \in Seq(Entries) /\ Visible \in Seq(Entries)
      /\ IsPrefix(disk, Visible)
  BY StoreTyped, VisibleIs
<1>2. IsPrefix(acked, disk) /\ IsPrefix(shown, disk)
  BY DEF SessionInv, Books
<1>3. IsPrefix(acked, Visible) /\ IsPrefix(shown, Visible)
  BY <1>1, <1>2, PrefixChain
<1>4. Live => IsPrefix(disk \o inflight, log)
  BY DEF SessionInv, Stored, LiveStore
<1>5. ASSUME mode = "prepared" PROVE source.events \o source.closers \in plans
  <2> DEFINE t == disk \o torn.events
  <2>1. ~Live /\ source.events = t /\ source.closers = Closers(t) /\ Target = t
    BY <1>5 DEF Live, SessionInv, Stored, Sourced, Target
  <2>2. \A n \in Len(disk)..Len(t) : Balanced(SubSeq(t, 1, n)) \in plans
    BY <1>5, <2>1, DownOf
  <2>3. t \in Seq(Entries) /\ Len(disk) \in Nat /\ Len(disk) <= Len(t) /\ Len(t) \in Nat
    BY <1>1, StoreTyped, JoinIs
  <2> HIDE DEF t
  <2>4. SubSeq(t, 1, Len(t)) = t
    BY <2>3, PrefixWhole
  <2>5. Balanced(t) \in plans
    <3>1. Len(t) \in Len(disk)..Len(t)
      BY <2>3
    <3> QED
      BY <2>2, <2>4, <3>1
  <2> QED
    BY <2>1, <2>5 DEF Balanced
<1> QED
  BY <1>2, <1>3, <1>4, <1>5 DEF Kept

\* A body that ran has its record on the disk, and a recorded call is never reported
\* as not started.
LEMMA InvHonest == SessionInv => HonestRecovery
<1> SUFFICES ASSUME SessionInv, NEW i \in DOMAIN Visible, Visible[i].type = "tool/not-started",
                    Visible[i].call \in ran
             PROVE  FALSE
  BY DEF HonestRecovery
<1>1. Visible \in Seq(Entries) /\ Good(Visible) /\ IsPrefix(disk, Visible) /\ disk \in Seq(Entries)
  BY StoreTyped, VisibleIs
<1> DEFINE v == Visible
<1>2. v \in Seq(Entries) /\ i \in 1..Len(v) /\ v[i].type = "tool/not-started" /\ v[i].call \in ran
      /\ Good(v) /\ IsPrefix(disk, v)
  BY <1>1
<1> HIDE DEF v
<1>3. CalledIn(v, v[i].call)
  <2>1. CalledIn(disk, v[i].call)
    BY <1>2 DEF SessionInv, Books
  <2> QED
    BY <1>1, <1>2, <2>1, CalledStays
<1>4. NoFalseStart(v)
  BY <1>2, GoodSound DEF Sound, Coherent
<1> QED
  BY <1>2, <1>3, <1>4 DEF CalledIn, NoFalseStart

\* A set of which any two members are the same has at most one.
LEMMA AtMostOne == ASSUME NEW A, \A x, y \in A : x = y PROVE Cardinality(A) <= 1
<1>1. CASE A = {}
  BY <1>1, FS_EmptySet
<1>2. CASE A # {}
  <2>1. PICK x \in A : A = {x}
    BY <1>2
  <2> QED
    BY <2>1, FS_Singleton
<1> QED
  BY <1>1, <1>2

\* A log of which every event fits is legal, and answers what a repair has closed.
LEMMA InvReplayable == SessionInv => Replayable
<1> SUFFICES ASSUME SessionInv PROVE Replayable
  OBVIOUS
<1> DEFINE v == Visible
<1>1. v \in Seq(Entries) /\ Good(v) /\ Legal(v) /\ Sound(v)
  BY VisibleIs, GoodLegal, GoodSound
<1>2. LegalLog
  <2>1. Live => trace = TraceOf(log)
    BY DEF SessionInv, Logged
  <2>2. mode = "prepared" => TraceOf(v).openTurn = None
    BY VisibleIs, CloseAll
  <2> QED
    BY <1>1, <2>1, <2>2 DEF LegalLog
<1>3. OneResult(v) /\ Covered(v, Scan(v))
  BY <1>1 DEF Sound, Coherent
<1>4. DOMAIN v = 1..Len(v)
  BY <1>1
<1>5. \A id : ResultsOf(id) = {i \in 1..Len(v) : IsResult(v[i]) /\ v[i].call = id}
  BY <1>4 DEF ResultsOf
<1>6. \A t, s : ClosedByRepair(t, s) <=> ClosedIn(v, t, s)
  BY <1>4 DEF ClosedByRepair, ClosedIn
<1> HIDE DEF v
<1>7. ASSUME NEW i \in 1..Len(v), NEW k \in DOMAIN v[i].calls
      PROVE  /\ Cardinality(ResultsOf(v[i].calls[k])) <= 1
             /\ ClosedByRepair(v[i].calls[k][1], v[i].calls[k][2]) => ResultsOf(v[i].calls[k]) # {}
  <2> DEFINE id == v[i].calls[k]
  <2>1. v[i] \in Entries
    BY <1>1, <1>7
  <2>2. /\ v[i].calls \in Seq(CallIds)
        /\ v[i].type = "assistant/message" =>
               \A h \in 1..Len(v[i].calls) : v[i].calls[h] = CallId(v[i].turn, v[i].step, h)
        /\ v[i].type # "assistant/message" => v[i].calls = <<>>
    BY <2>1, EntryIs
  <2>3. k \in 1..Len(v[i].calls) /\ v[i].type = "assistant/message"
    BY <1>7, <2>2
  <2>4. id[1] = v[i].turn /\ id[2] = v[i].step
    BY <2>2, <2>3 DEF CallId
  <2>5. Cardinality(ResultsOf(id)) <= 1
    <3>1. \A x, y \in ResultsOf(id) : x = y
      BY <1>3, <1>5 DEF OneResult
    <3> QED
      BY <3>1, AtMostOne
  <2>6. ClosedIn(v, v[i].turn, v[i].step) => ResultIn(v, id)
    BY <1>3, <1>7, <2>3 DEF Covered
  <2> HIDE DEF id
  <2>7. ClosedByRepair(id[1], id[2]) => ResultsOf(id) # {}
    BY <1>5, <1>6, <2>4, <2>6 DEF ResultIn
  <2> QED
    BY <2>5, <2>7 DEF id
<1>8. \A i \in DOMAIN v : \A k \in DOMAIN v[i].calls :
          /\ Cardinality(ResultsOf(v[i].calls[k])) <= 1
          /\ ClosedByRepair(v[i].calls[k][1], v[i].calls[k][2]) => ResultsOf(v[i].calls[k]) # {}
  BY <1>4, <1>7
<1> QED
  BY <1>2, <1>8 DEF Replayable, v

\* However turns, batches, failing writes, crashes and repairs follow each other, the
\* session stays where the inductive invariant says: memory, disk, batch and torn
\* record are cuts of one log of which every event fits after those before it.
THEOREM SessionInvariant == SessionSpec => []SessionInv
  BY InitSessionInv, SessionKeeps, PTL DEF SessionSpec

\* Nothing an append acknowledged and nothing a model request was built from is lost
\* or changed by a crash, a torn record or a repair cut short (appendLines, repair),
\* and recovery, however often it starts again, ends where the first load could.
THEOREM KeptCorrect == SessionSpec => []Kept
  BY SessionInvariant, InvKept, PTL

\* A result that interruptedTurnClosers marks as never started is true: no body of
\* that call ran, in this process or an earlier one, because the policy's wrapper
\* waits for the call's record to be durable before the body.
THEOREM HonestRecoveryCorrect == SessionSpec => []HonestRecovery
  BY SessionInvariant, InvHonest, PTL

\* Every log a reader sees, live, prepared or on disk, passes validateEvent event by
\* event; every call of a step that recovery closed has exactly one result, and no
\* call of any step has two.
THEOREM ReplayableCorrect == SessionSpec => []Replayable
  BY SessionInvariant, InvReplayable, PTL

-----------------------------------------------------------------------------
(* The write path: its inductive invariant.                                *)

\* Where a promise chain stands says who may still touch the queue.
WriteShape ==
    /\ stage # "writing" => batch = <<>>
    /\ drain \in {"overlapped", "wrote", "threw"} => stage = "none"
    /\ Active /\ ~Barrier => background
    /\ continuing /\ ~Barrier => stage = "none"
    /\ drain = "writing" => stage # "none" /\ ~background

\* A failed write leaves the automatic path paused, with no timeout scheduled,
\* until somebody resumes it.
FailurePauses ==
    /\ automaticPaused => ~handle
    /\ drain = "threw" => automaticPaused
    /\ drain = "writing" /\ stage = "failed" => automaticPaused

\* Without a barrier and a caller, retained events have a timer, an expired
\* deadline that the running write will honour, or a reported failure.
Watched ==
    pending # <<>> /\ ~Barrier /\ callers = 0 /\ init # "failed" =>
        \/ handle
        \/ automaticPaused
        \/ /\ deadlineExpired
           /\ continuing \/ (stage \in {"writing", "wrote"} /\ background)

\* this.timer names the only scheduled callback, no callback is armed with an
\* open barrier or an empty queue: no write starts beside another (armTimer).
TimerOwned ==
    /\ timers = IF handle THEN 1 ELSE 0
    /\ handle => pending # <<>> /\ ~Barrier

IInv == TypeOK /\ InOrder /\ TimerOwned /\ WriteShape /\ FailurePauses /\ Watched

-----------------------------------------------------------------------------
(* Facts about the queue as sequences.                                     *)

\* An event appended to what was accepted is one appended to what is pending.
LEMMA AppendAtTheEnd ==
    ASSUME TypeQueues, NEW e \in Nat
    PROVE  Append(durable \o batch \o pending, e) = durable \o batch \o Append(pending, e)
<1> DEFINE stored == durable \o batch
           queue == stored \o pending
<1>1. batch \in Seq(Nat) /\ pending \in Seq(Nat) /\ durable \in Seq(Nat)
  BY DEF TypeQueues
<1>2. stored \in Seq(Nat)
  BY <1>1, ConcatProperties
<1> HIDE DEF stored
<1>3. queue \in Seq(Nat) /\ <<e>> \in Seq(Nat)
  BY <1>1, <1>2, ConcatProperties
<1> HIDE DEF queue
<1>4. Append(queue, e) = queue \o <<e>>
  BY <1>3, AppendIsConcat
<1>5. Append(pending, e) = pending \o <<e>>
  BY <1>1, AppendIsConcat
<1>6. queue \o <<e>> = stored \o (pending \o <<e>>)
  BY ONLY <1>1, <1>2, <1>3, SMTT(30) DEF queue
<1> QED
  BY <1>4, <1>5, <1>6 DEF queue, stored

\* A queue with an event more is not empty.
LEMMA AppendNotEmpty == \A p \in Seq(Nat), e \in Nat : Append(p, e) # <<>>
<1> SUFFICES ASSUME NEW p \in Seq(Nat), NEW e \in Nat, Append(p, e) = <<>> PROVE FALSE
  OBVIOUS
<1>1. Len(Append(p, e)) = Len(p) + 1 /\ Len(p) \in Nat
  OBVIOUS
<1>2. Len(Append(p, e)) = 0
  OBVIOUS
<1> QED
  BY ONLY <1>1, <1>2

\* Putting a failed batch back in front of the queue keeps the order.
LEMMA RetainInFront ==
    ASSUME TypeQueues
    PROVE  durable \o batch \o pending = durable \o <<>> \o (batch \o pending)
<1>1. batch \in Seq(Nat) /\ pending \in Seq(Nat) /\ durable \in Seq(Nat)
  BY DEF TypeQueues
<1>2. durable \o <<>> = durable
  BY <1>1, ConcatEmptySeq
<1>3. (durable \o batch) \o pending = durable \o (batch \o pending)
  BY ONLY <1>1, SMTT(30)
<1> QED
  BY <1>2, <1>3

\* Capturing everything pending as the batch keeps the order.
LEMMA CaptureAll ==
    ASSUME TypeQueues
    PROVE  durable \o <<>> \o pending = durable \o pending \o <<>>
<1>1. pending \in Seq(Nat) /\ durable \in Seq(Nat)
  BY DEF TypeQueues
<1>2. durable \o pending \in Seq(Nat)
  BY <1>1, ConcatProperties
<1> QED
  BY <1>1, <1>2, ConcatEmptySeq

-----------------------------------------------------------------------------
(* The invariant holds initially and every step preserves each part of it. *)

USE DEF timerVars, writeVars, queueVars, Stages, Drains, Barrier, Active

\* The write path before anything is accepted.
LEMMA InitIInv == Init => IInv
<1> SUFFICES ASSUME Init PROVE IInv
  OBVIOUS
<1>1. <<>> \in Seq(Nat) /\ <<>> \o <<>> = <<>>
  BY EmptySeq, ConcatEmptySeq
<1>2. TypeQueues /\ InOrder
  BY <1>1 DEF Init, TypeQueues, InOrder
<1>3. TypeCounts
  BY WriteBehindAssumption DEF Init, TypeCounts
<1>4. TypePlaces
  BY DEF Init, TypePlaces
<1>5. TypeFlags
  BY DEF Init, TypeFlags
<1>6. TimerOwned /\ WriteShape /\ FailurePauses /\ Watched
  BY DEF Init, TimerOwned, WriteShape, FailurePauses, Watched
<1> QED
  BY <1>2, <1>3, <1>4, <1>5, <1>6 DEF IInv, TypeOK

\* The control state: flags, places and counts keep their types.
LEMMA TypeControlStep ==
    ASSUME TypeOK, TimerOwned, Next
    PROVE  TypeCounts' /\ TypePlaces' /\ TypeFlags'
<1> USE DEF Next, Enqueue, CallFlush, FlushRefused, JoinBarrier, OpenBarrier, OnDeadline,
            ContinueAutomatic, WriteStores, WriteFails, WriteReleased, DrainAfterOverlap,
            DrainAfterWrite, DrainRejects, InitSettles, ArmTimer, StartWrite, DrainLoop,
            CancelAutomaticWait, CancelTimer
<1>1. TypeCounts'
  BY WriteBehindAssumption DEF TypeOK, TypeCounts, TypeFlags, TimerOwned
<1>2. TypePlaces'
  BY DEF TypeOK, TypePlaces
<1>3. TypeFlags'
  BY DEF TypeOK, TypeFlags
<1> QED
  BY <1>1, <1>2, <1>3

\* The queues: what a step moves stays in order.  Only four kinds of step
\* touch them: an event arrives, a write captures, stores or fails.
LEMMA QueueStep ==
    ASSUME IInv, Next
    PROVE  TypeQueues' /\ InOrder'
<1>0. TypeQueues /\ InOrder /\ WriteShape
  BY DEF IInv, TypeOK
<1>t. /\ accepted \in Seq(Nat) /\ durable \in Seq(Nat)
      /\ batch \in Seq(Nat) /\ pending \in Seq(Nat)
  BY <1>0 DEF TypeQueues
<1> USE DEF TypeQueues
<1>1. CASE Enqueue
  <2>0. Len(accepted) + 1 \in Nat
    BY <1>t, LenProperties
  <2>1. PICK e \in Nat : /\ accepted' = Append(accepted, e)
                         /\ pending' = Append(pending, e)
                         /\ durable' = durable /\ batch' = batch
    BY <2>0, <1>1, Zenon DEF Enqueue
  <2>2. Append(accepted, e) \in Seq(Nat) /\ Append(pending, e) \in Seq(Nat)
    BY <1>t, AppendProperties, Zenon
  <2>3. Append(durable \o batch \o pending, e) = durable \o batch \o Append(pending, e)
    BY <1>0, AppendAtTheEnd
  <2>4. accepted = durable \o batch \o pending
    BY <1>0 DEF InOrder
  <2>5. InOrder'
    BY <2>1, <2>3, <2>4, Zenon DEF InOrder
  <2> QED
    BY <1>t, <2>1, <2>2, <2>5
<1>2. CASE WriteStores
  <2>1. durable \o batch \in Seq(Nat) /\ <<>> \in Seq(Nat)
    BY <1>t, ConcatProperties, EmptySeq, Zenon
  <2>2. (durable \o batch) \o <<>> = durable \o batch
    BY <2>1, ConcatEmptySeq
  <2> QED
    BY <1>0, <1>2, <2>1, <2>2 DEF WriteStores, InOrder
<1>3. CASE WriteFails
  <2>1. batch \o pending \in Seq(Nat) /\ <<>> \in Seq(Nat)
    BY <1>t, ConcatProperties, EmptySeq, Zenon
  <2>2. durable \o batch \o pending = durable \o <<>> \o (batch \o pending)
    BY <1>0, RetainInFront
  <2> QED
    BY <1>0, <1>3, <2>1, <2>2 DEF WriteFails, InOrder
<1>4. CASE /\ stage = "none" /\ batch' = pending /\ pending' = <<>>
           /\ UNCHANGED <<accepted, durable>>
  <2>1. batch = <<>>
    BY <1>0, <1>4 DEF WriteShape
  <2>2. durable \o <<>> \o pending = durable \o pending \o <<>>
    BY <1>0, CaptureAll
  <2>3. <<>> \in Seq(Nat)
    BY EmptySeq
  <2> QED
    BY <1>0, <1>4, <2>1, <2>2, <2>3 DEF InOrder
<1>5. CASE UNCHANGED <<accepted, durable, batch, pending>>
  BY <1>0, <1>5 DEF InOrder
<1>6. Next => \/ Enqueue \/ WriteStores \/ WriteFails
              \/ /\ stage = "none" /\ batch' = pending /\ pending' = <<>>
                 /\ UNCHANGED <<accepted, durable>>
              \/ UNCHANGED <<accepted, durable, batch, pending>>
  BY <1>0
     DEF Next, CallFlush, FlushRefused, JoinBarrier, OpenBarrier, OnDeadline,
         ContinueAutomatic, WriteReleased, DrainAfterOverlap, DrainAfterWrite,
         DrainRejects, InitSettles, StartWrite, DrainLoop, WriteShape
<1> QED
  BY <1>1, <1>2, <1>3, <1>4, <1>5, <1>6

\* The places: promise chain, barrier, timer and flags keep to each other.
LEMMA PlaceStep ==
    ASSUME IInv, Next
    PROVE  TimerOwned' /\ WriteShape' /\ FailurePauses' /\ Watched'
<1>1. Enqueue => pending' # <<>>
  <2>1. Len(accepted) + 1 \in Nat
    BY LenProperties DEF IInv, TypeOK, TypeQueues
  <2>2. Append(pending, Len(accepted) + 1) # <<>>
    BY <2>1, AppendNotEmpty, Zenon DEF IInv, TypeOK, TypeQueues
  <2> QED
    BY <2>2 DEF Enqueue
<1> USE DEF IInv, TypeOK, TypeCounts, TypePlaces, TypeFlags, TimerOwned, WriteShape,
            FailurePauses, Watched, ArmTimer, StartWrite, DrainLoop,
            CancelAutomaticWait, CancelTimer
<1>2. CASE Enqueue
  BY <1>2, <1>1 DEF Enqueue
<1>3. CASE CallFlush
  BY <1>3, WriteBehindAssumption DEF CallFlush
<1>4. CASE FlushRefused
  BY <1>4 DEF FlushRefused
<1>5. CASE JoinBarrier
  BY <1>5 DEF JoinBarrier
<1>6. CASE OpenBarrier
  BY <1>6 DEF OpenBarrier
<1>7. CASE OnDeadline
  BY <1>7 DEF OnDeadline, ReactionQueued
<1>8. CASE ContinueAutomatic
  BY <1>8 DEF ContinueAutomatic
<1>9. CASE WriteStores
  BY <1>9 DEF WriteStores
<1>10. CASE WriteFails
  BY <1>10 DEF WriteFails
<1>11. CASE WriteReleased
  BY <1>11 DEF WriteReleased
<1>12. CASE DrainAfterOverlap
  BY <1>12 DEF DrainAfterOverlap
<1>13. CASE DrainAfterWrite
  BY <1>13 DEF DrainAfterWrite
<1>14. CASE DrainRejects
  BY <1>14 DEF DrainRejects
<1>15. CASE InitSettles
  BY <1>15 DEF InitSettles
<1> QED
  BY <1>2, <1>3, <1>4, <1>5, <1>6, <1>7, <1>8, <1>9, <1>10, <1>11, <1>12, <1>13, <1>14, <1>15 DEF Next

\* Every step of the write path keeps the invariant.
LEMMA NextIInv == IInv /\ [Next]_vars => IInv'
<1> SUFFICES ASSUME IInv, [Next]_vars PROVE IInv'
  OBVIOUS
<1>1. CASE Next
  BY <1>1, TypeControlStep, QueueStep, PlaceStep DEF IInv, TypeOK
<1>2. CASE UNCHANGED vars
  BY <1>2
     DEF IInv, TypeOK, TypeQueues, TypeCounts, TypePlaces, TypeFlags, InOrder, TimerOwned,
         WriteShape, FailurePauses, Watched, vars
<1> QED
  BY <1>1, <1>2

-----------------------------------------------------------------------------
(* The theorems.                                                           *)

\* The inductive invariant of the write path.
LEMMA SpecIInv == Spec => []IInv
<1>1. Init => IInv
  BY InitIInv
<1>2. IInv /\ [Next]_vars => IInv'
  BY NextIInv
<1> QED
  BY <1>1, <1>2, PTL DEF Spec

\* Every variable of the write path keeps its type (fields of
\* SessionWriteBehind, live.init and the flush callers).
THEOREM TypeCorrect == Spec => []TypeOK
<1>1. IInv => TypeOK
  BY DEF IInv
<1> QED
  BY <1>1, SpecIInv, PTL

\* Nothing a session appended is lost, duplicated or reordered on its way to
\* the backend, whatever fails and whoever flushes (startWrite, enqueue).
THEOREM OrderCorrect == Spec => []InOrder
<1>1. IInv => InOrder
  BY DEF IInv
<1> QED
  BY <1>1, SpecIInv, PTL

\* At most one timeout callback is scheduled, it is the one this.timer names,
\* and none is while a barrier is open or the queue is empty (armTimer).
THEOREM TimerCorrect == Spec => []TimerOwned
<1>1. IInv => TimerOwned
  BY DEF IInv
<1> QED
  BY <1>1, SpecIInv, PTL

\* Retained events always have a timer, a write, a reaction, a caller or a
\* reported failure to answer for them (enqueue, onDeadline, continueAutomatic).
THEOREM NothingForgotten == Spec => []NoForgottenWork
<1>1. IInv => NoForgottenWork
  BY DEF IInv, TypeOK, TypeCounts, TypePlaces, WriteShape, Watched, NoForgottenWork, ReactionQueued
<1> QED
  BY <1>1, SpecIInv, PTL

\* A flush barrier that closes without an error leaves nothing undurable
\* (drainBarrier closes admission when it observes the empty queue).
THEOREM FlushCorrect == Spec => FlushIsDurable
<1> DEFINE A == (Barrier /\ ~Barrier' /\ drain # "threw") => durable' = accepted'
<1>1. IInv /\ IInv' /\ [Next]_vars => [A]_vars
  <2> SUFFICES ASSUME IInv, IInv', Next PROVE A
    OBVIOUS
  <2>1. Barrier /\ ~Barrier' /\ drain # "threw" => pending' = <<>> /\ stage' = "none"
    BY DEF IInv, TypeOK, TypePlaces, WriteShape, Next, Enqueue, CallFlush, FlushRefused,
           JoinBarrier, OpenBarrier, OnDeadline, ContinueAutomatic, WriteStores,
           WriteFails, WriteReleased, DrainAfterOverlap, DrainAfterWrite, DrainRejects,
           InitSettles, DrainLoop
  <2>2. pending' = <<>> /\ stage' = "none" => durable' = accepted'
    <3>1. accepted' = durable' \o batch' \o pending' /\ durable' \in Seq(Nat)
      BY DEF IInv, InOrder, TypeOK, TypeQueues
    <3>2. stage' = "none" => batch' = <<>>
      BY DEF IInv, WriteShape
    <3>3. durable' \o <<>> \o <<>> = durable'
      BY <3>1, ConcatEmptySeq
    <3> QED
      BY <3>1, <3>2, <3>3
  <2> QED
    BY <2>1, <2>2
<1> QED
  BY <1>1, SpecIInv, PTL DEF Spec, FlushIsDurable

\* Storing the captured batch extends the stored prefix of what was accepted.
LEMMA StoredPrefixGrows ==
    ASSUME NEW d \in Seq(Nat), NEW b \in Seq(Nat), NEW p \in Seq(Nat)
    PROVE  \E n \in Len(d)..Len(d \o b \o p) : d \o b = SubSeq(d \o b \o p, 1, n)
<1> DEFINE s == d \o b
           n == Len(s)
<1>1. s \in Seq(Nat) /\ n \in Nat /\ n = Len(d) + Len(b) /\ Len(d) \in Nat /\ Len(b) \in Nat
  BY ConcatProperties, LenProperties
<1>2. s \o p \in Seq(Nat) /\ Len(s \o p) = n + Len(p) /\ Len(p) \in Nat
  BY <1>1, ConcatProperties, LenProperties
<1>3. n \in Len(d)..Len(s \o p)
  BY <1>1, <1>2
<1>4. SubSeq(s \o p, 1, n) = s
  <2> HIDE DEF s
  <2> QED
    BY <1>1
<1> QED
  BY <1>3, <1>4

\* The write path implements the durable queue: the stored log is always a
\* prefix of what was accepted, and a flush resolves only when it is all of it.
THEOREM Refinement == Spec => ImplementsQueue
<1>1. Init => Queue!DQInit
  BY DEF Init, Queue!DQInit
<1>2. IInv /\ IInv' /\ [Next]_vars => [Queue!DQNext]_Queue!dqVars
  <2> SUFFICES ASSUME IInv, IInv', [Next]_vars PROVE [Queue!DQNext]_Queue!dqVars
    OBVIOUS
  <2> USE DEF Queue!DQNext, Queue!dqVars
  <2>1. CASE Enqueue
    BY <2>1 DEF Enqueue, Queue!Accept
  <2>2. CASE WriteStores
    <3>1. \E n \in Len(durable)..Len(accepted) : durable' = SubSeq(accepted, 1, n)
      <4>1. accepted = durable \o batch \o pending /\ durable' = durable \o batch
        BY <2>2 DEF IInv, InOrder, WriteStores
      <4>2. durable \in Seq(Nat) /\ batch \in Seq(Nat) /\ pending \in Seq(Nat)
        BY DEF IInv, TypeOK, TypeQueues
      <4> QED
        BY <4>1, <4>2, StoredPrefixGrows, Zenon
    <3> QED
      BY <2>2, <3>1 DEF WriteStores, Queue!Store
  <2>3. CASE UNCHANGED <<accepted, durable>> /\ ~Barrier /\ Barrier'
    BY <2>3 DEF Queue!OpenFlush
  <2>4. CASE UNCHANGED <<accepted, durable>> /\ Barrier /\ ~Barrier'
    BY <2>4 DEF Queue!RejectFlush
  <2>5. CASE UNCHANGED <<accepted, durable>> /\ (Barrier <=> Barrier')
    BY <2>5
  <2>6. [Next]_vars => Enqueue \/ WriteStores \/ UNCHANGED <<accepted, durable>>
    BY DEF vars, Next, CallFlush, FlushRefused, JoinBarrier, OpenBarrier, OnDeadline,
           ContinueAutomatic, WriteFails, WriteReleased, DrainAfterOverlap,
           DrainAfterWrite, DrainRejects, InitSettles
  <2> QED
    BY <2>1, <2>2, <2>3, <2>4, <2>5, <2>6
<1> QED
  BY <1>1, <1>2, SpecIInv, PTL DEF Spec, ImplementsQueue, Queue!DQSpec
=============================================================================
