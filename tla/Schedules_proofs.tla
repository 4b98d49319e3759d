-------------------------- MODULE Schedules_proofs --------------------------
(***************************************************************************)
(* Proofs about durable reminders, for any reminders, intervals, calls,    *)
(* failures and crashes: nothing acknowledged is lost or comes back, a     *)
(* runtime at rest has its timer armed unless its last drive left a        *)
(* reminder to later activity of the agent, and an occurrence that was     *)
(* dispatched is not presented again.                                      *)
(***************************************************************************)
EXTENDS Schedules, FiniteSetTheorems, SequenceTheorems, NaturalsInduction, WellFoundedInduction, TLAPS

-----------------------------------------------------------------------------
(* The fold of a log, one change at a time.                                *)

\* The library's induction takes a predicate as parameter; a least counterexample
\* serves in its place.
LEMMA LeastNatural == ASSUME NEW T \in SUBSET Nat, T # {} PROVE \E n \in T : \A m \in T : n <= m
<1> DEFINE R == OpToRel(<, Nat)
<1>1. IsWellFoundedOn(R, Nat)
  BY NatLessThanWellFounded
<1>2. R = {ss \in Nat \X Nat : ss[1] < ss[2]}
  BY DEF OpToRel
<1>3. \A n, m \in Nat : n < m => <<n, m>> \in R
  BY <1>2
<1> HIDE DEF R
<1>4. PICK n \in T : \A m \in T : ~(<<m, n>> \in R)
  BY <1>1, WFMin
<1>5. \A m \in T : ~(m < n)
  BY <1>3, <1>4
<1>6. \A m \in T : n <= m
  BY <1>5
<1> QED
  BY <1>6

\* What is active after each of the first n changes of a log.
Stages(l, f, n) == f = [k \in 0..n |-> IF k = 0 THEN <<>> ELSE Applied(f[k - 1], l[k])]

LEMMA StageOf ==
    ASSUME NEW l, NEW n \in Nat, NEW f, Stages(l, f, n), NEW k \in 0..n
    PROVE  f[k] = IF k = 0 THEN <<>> ELSE Applied(f[k - 1], l[k])
  BY DEF Stages

LEMMA StagesExist == ASSUME NEW l, NEW n \in Nat PROVE \E f : Stages(l, f, n)
<1> DEFINE T == {k \in Nat : ~ \E f : Stages(l, f, k)}
<1> SUFFICES ASSUME T # {} PROVE FALSE
  OBVIOUS
<1>1. PICK k \in T : \A m \in T : k <= m
  <2>1. T \in SUBSET Nat
    OBVIOUS
  <2> HIDE DEF T
  <2> QED
    BY <2>1, LeastNatural
<1>2. k \in Nat /\ ~ \E f : Stages(l, f, k)
  OBVIOUS
<1>3. k # 0
  <2> SUFFICES ASSUME k = 0 PROVE FALSE
    OBVIOUS
  <2> DEFINE g == [j \in 0..0 |-> <<>>]
  <2>1. g = [j \in 0..0 |-> IF j = 0 THEN <<>> ELSE Applied(g[j - 1], l[j])]
    OBVIOUS
  <2> QED
    BY <1>2, <2>1 DEF Stages
<1>4. k - 1 \in Nat /\ k - 1 \notin T
  BY <1>1, <1>2, <1>3
<1>5. PICK g : Stages(l, g, k - 1)
  BY <1>4
<1> DEFINE h == [j \in 0..k |-> IF j = k THEN Applied(g[k - 1], l[k]) ELSE g[j]]
<1>6. \A j \in 0..(k - 1) : h[j] = g[j]
  BY <1>2
<1>7. \A j \in 0..k : h[j] = IF j = 0 THEN <<>> ELSE Applied(h[j - 1], l[j])
  <2> TAKE j \in 0..k
  <2>1. CASE j = k
    BY <1>2, <1>3, <1>6, <2>1
  <2>2. CASE j # k
    <3>1. j \in 0..(k - 1) /\ (j # 0 => j - 1 \in 0..(k - 1))
      BY <1>2, <2>2
    <3>2. g[j] = IF j = 0 THEN <<>> ELSE Applied(g[j - 1], l[j])
      BY <1>4, <1>5, <3>1, StageOf
    <3> QED
      BY <1>6, <3>1, <3>2
  <2> QED
    BY <2>1, <2>2
<1>8. h = [j \in 0..k |-> IF j = 0 THEN <<>> ELSE Applied(h[j - 1], l[j])]
  <2>1. h = [j \in 0..k |-> h[j]]
    OBVIOUS
  <2> HIDE DEF h
  <2> QED
    BY <1>7, <2>1
<1> QED
  BY <1>2, <1>8 DEF Stages

\* Two logs that agree on their first n changes have the same first n stages.
LEMMA StagesAgree ==
    ASSUME NEW l, NEW m, NEW n \in Nat, NEW n1 \in Nat, NEW n2 \in Nat, n <= n1, n <= n2,
           \A k \in 1..n : l[k] = m[k],
           NEW f, NEW g, Stages(l, f, n1), Stages(m, g, n2)
    PROVE  f[n] = g[n]
<1> DEFINE T == {k \in 0..n : f[k] # g[k]}
<1> SUFFICES ASSUME T # {} PROVE FALSE
  OBVIOUS
<1>1. PICK k \in T : \A j \in T : k <= j
  <2>1. T \in SUBSET Nat
    OBVIOUS
  <2> HIDE DEF T
  <2> QED
    BY <2>1, LeastNatural
<1>2. k \in 0..n /\ k \in 0..n1 /\ k \in 0..n2 /\ f[k] # g[k]
  OBVIOUS
<1>3. f[k] = IF k = 0 THEN <<>> ELSE Applied(f[k - 1], l[k])
  BY <1>2, StageOf
<1>4. g[k] = IF k = 0 THEN <<>> ELSE Applied(g[k - 1], m[k])
  BY <1>2, StageOf
<1>5. CASE k = 0
  BY <1>2, <1>3, <1>4, <1>5
<1>6. CASE k # 0
  <2>1. k - 1 \in 0..n /\ k \in 1..n
    BY <1>2, <1>6
  <2>2. k - 1 \notin T
    BY <1>1, <2>1
  <2>3. f[k - 1] = g[k - 1] /\ l[k] = m[k]
    BY <2>1, <2>2
  <2> QED
    BY <1>2, <1>3, <1>4, <1>6, <2>3
<1> QED
  BY <1>5, <1>6

LEMMA ActiveIs ==
    ASSUME NEW l, Len(l) \in Nat PROVE \E f : Stages(l, f, Len(l)) /\ Active(l) = f[Len(l)]
<1>1. \E f : Stages(l, f, Len(l))
  BY StagesExist
<1> QED
  BY <1>1 DEF Active, Stages

LEMMA ActiveEmpty == Active(<<>>) = <<>>
<1>1. Len(<<>>) = 0
  OBVIOUS
<1>2. PICK f : Stages(<<>>, f, 0) /\ Active(<<>>) = f[0]
  BY <1>1, ActiveIs
<1> QED
  BY <1>2, StageOf

\* The last change is applied to what the others left.
LEMMA ActiveAppend ==
    ASSUME NEW S, NEW l \in Seq(S), NEW c \in S
    PROVE  Active(Append(l, c)) = Applied(Active(l), c)
<1> DEFINE m == Append(l, c)
<1> DEFINE n == Len(l)
<1>1. n \in Nat /\ Len(m) = n + 1 /\ m[n + 1] = c /\ \A k \in 1..n : l[k] = m[k]
  OBVIOUS
<1> HIDE DEF m
<1>2. PICK f : Stages(l, f, n) /\ Active(l) = f[n]
  BY <1>1, ActiveIs
<1>3. PICK g : Stages(m, g, n + 1) /\ Active(m) = g[n + 1]
  BY <1>1, ActiveIs
<1> HIDE DEF n
<1>4. g[n + 1] = Applied(g[n], c)
  <2>1. n + 1 \in 0..(n + 1) /\ n + 1 \in Nat /\ n + 1 # 0 /\ (n + 1) - 1 = n
    BY <1>1
  <2> QED
    BY <1>1, <1>3, <2>1, StageOf
<1>5. f[n] = g[n]
  <2>1. n + 1 \in Nat /\ n <= n /\ n <= n + 1
    BY <1>1
  <2> QED
    BY <1>1, <1>2, <1>3, <2>1, StagesAgree
<1> QED
  BY <1>2, <1>3, <1>4, <1>5 DEF m


-----------------------------------------------------------------------------
(* Changes, the reminders they name, and the instants of a fixed rate.     *)

Instants == UNION {[D -> Nat] : D \in SUBSET Reminders}
Changes == [op : {"create", "delete", "present", "dispatch"}, of : Instants]

LEMMA InstantsAre ==
    ASSUME NEW f
    PROVE  f \in Instants <=> /\ DOMAIN f \subseteq Reminders
                              /\ f = [i \in DOMAIN f |-> f[i]]
                              /\ \A i \in DOMAIN f : f[i] \in Nat
<1>1. ASSUME f \in Instants
      PROVE  DOMAIN f \subseteq Reminders /\ f = [i \in DOMAIN f |-> f[i]] /\ \A i \in DOMAIN f : f[i] \in Nat
  <2>1. PICK D \in SUBSET Reminders : f \in [D -> Nat]
    BY <1>1 DEF Instants
  <2> QED
    BY <2>1
<1>2. ASSUME DOMAIN f \subseteq Reminders, f = [i \in DOMAIN f |-> f[i]], \A i \in DOMAIN f : f[i] \in Nat
      PROVE  f \in Instants
  <2>1. f \in [DOMAIN f -> Nat]
    BY <1>2
  <2> QED
    BY <1>2, <2>1 DEF Instants
<1> QED
  BY <1>1, <1>2

LEMMA NamedIs ==
    ASSUME NEW l \in Seq(Changes), NEW op, NEW i
    PROVE  i \in Named(l, op) <=> \E k \in 1..Len(l) : l[k].op = op /\ i \in DOMAIN l[k].of
<1>1. DOMAIN l = 1..Len(l)
  OBVIOUS
<1> QED
  BY <1>1 DEF Named, Range

LEMMA NamedAppend ==
    ASSUME NEW l \in Seq(Changes), NEW c \in Changes, NEW op
    PROVE  Named(Append(l, c), op) = IF c.op = op THEN Named(l, op) \cup DOMAIN c.of ELSE Named(l, op)
<1> DEFINE m == Append(l, c)
<1>1. m \in Seq(Changes) /\ Len(m) = Len(l) + 1 /\ m[Len(l) + 1] = c /\ Len(l) \in Nat
      /\ \A k \in 1..Len(l) : m[k] = l[k]
  OBVIOUS
<1> HIDE DEF m
<1> SUFFICES ASSUME NEW i
             PROVE  i \in Named(m, op) <=> i \in (IF c.op = op THEN Named(l, op) \cup DOMAIN c.of ELSE Named(l, op))
  BY DEF m
<1>2. i \in Named(m, op) <=> \E k \in 1..(Len(l) + 1) : m[k].op = op /\ i \in DOMAIN m[k].of
  BY <1>1, NamedIs
<1>3. i \in Named(l, op) <=> \E k \in 1..Len(l) : l[k].op = op /\ i \in DOMAIN l[k].of
  BY NamedIs
<1>4. (\E k \in 1..(Len(l) + 1) : m[k].op = op /\ i \in DOMAIN m[k].of)
      <=> (\E k \in 1..Len(l) : l[k].op = op /\ i \in DOMAIN l[k].of) \/ (c.op = op /\ i \in DOMAIN c.of)
  <2>1. \A k \in 1..(Len(l) + 1) : k \in 1..Len(l) \/ k = Len(l) + 1
    BY <1>1
  <2>2. Len(l) + 1 \in 1..(Len(l) + 1) /\ \A k \in 1..Len(l) : k \in 1..(Len(l) + 1)
    BY <1>1
  <2> QED
    BY <1>1, <2>1, <2>2
<1> QED
  BY <1>2, <1>3, <1>4

\* The latest occurrence is not before the target, nor an interval before the instant.
LEMMA OccurrenceIs ==
    ASSUME NEW target \in Nat, NEW at \in Nat, target <= at
    PROVE  /\ Occurrence(target, at) \in Nat
           /\ target <= Occurrence(target, at) /\ Occurrence(target, at) <= at
           /\ at < Occurrence(target, at) + Interval
<1> DEFINE d == at - target
<1> DEFINE q == d \div Interval
<1>1. d \in Nat /\ Interval \in Nat /\ Interval > 0
  BY SchedulesAssumption
<1> HIDE DEF d
<1>2. q \in Nat /\ q * Interval \in Nat
  BY <1>1
<1>3. q * Interval <= d
  BY <1>1
<1>4. d < q * Interval + Interval
  BY <1>1
<1> HIDE DEF q
<1>5. Occurrence(target, at) = target + q * Interval
  BY DEF Occurrence, d, q
<1> DEFINE x == q * Interval
<1>6. x \in Nat /\ x <= d /\ d < x + Interval /\ Occurrence(target, at) = target + x
  BY <1>2, <1>3, <1>4, <1>5
<1> HIDE DEF x
<1> QED
  BY <1>1, <1>6 DEF d

-----------------------------------------------------------------------------
(* What is true of every log a schedule writes.                            *)

\* What a dispatch found presented: an occurrence less than an interval old.
HandedOver(l, k, i, at) ==
    \E j \in 1..(k - 1) :
        /\ l[j].op = "present" /\ i \in DOMAIN l[j].of
        /\ l[j].of[i] <= at
        /\ i \in Repeating => at - l[j].of[i] < Interval

\* A reminder that was created is active, was deleted or was presented; a deleted one
\* is not active.
Accounted(l) ==
    /\ Active(l) \in Instants
    /\ DOMAIN Active(l) \cup Named(l, "delete") \cup Named(l, "present") \subseteq Named(l, "create")
    /\ Named(l, "create") \subseteq DOMAIN Active(l) \cup Named(l, "delete") \cup Named(l, "present")
    /\ Named(l, "delete") \cap DOMAIN Active(l) = {}

Marked(l) ==
    \A k \in 1..Len(l) : l[k].op = "dispatch" =>
        \A i \in DOMAIN l[k].of : HandedOver(l, k, i, l[k].of[i])

Gone(l) ==
    \A j, k \in 1..Len(l) : j < k /\ l[j].op = "delete" /\ l[k].op = "present"
                            => DOMAIN l[j].of \cap DOMAIN l[k].of = {}

\* Once dispatched, a reminder's target is beyond all that was presented of it before.
Advanced(l) ==
    \A j, m \in 1..Len(l) : j < m /\ l[j].op = "present" /\ l[m].op = "dispatch" =>
        \A i \in DOMAIN l[j].of \cap DOMAIN l[m].of \cap DOMAIN Active(l) :
            l[j].of[i] < Active(l)[i]

Single(l) ==
    \A j, k \in 1..Len(l) : j < k /\ l[j].op = "present" /\ l[k].op = "present" =>
        \A i \in DOMAIN l[j].of \cap DOMAIN l[k].of :
            l[j].of[i] = l[k].of[i] =>
                ~ \E m \in j..k : l[m].op = "dispatch" /\ i \in DOMAIN l[m].of

Sound(l) == Accounted(l) /\ Marked(l) /\ Gone(l) /\ Advanced(l) /\ Single(l)

\* Nothing was presented ahead of an instant.
Past(l, t) ==
    \A j \in 1..Len(l) : l[j].op = "present" => \A i \in DOMAIN l[j].of : l[j].of[i] <= t

\* What the transactions append at an instant.
Fits(l, c, t) ==
    /\ c.op = "create" => DOMAIN c.of \cap Named(l, "create") = {}
    /\ c.op # "create" => DOMAIN c.of \subseteq DOMAIN Active(l)
    /\ c.op = "present" => \A i \in DOMAIN c.of : Active(l)[i] <= c.of[i] /\ c.of[i] <= t
    /\ c.op = "dispatch" => \A i \in DOMAIN c.of :
          Active(l)[i] <= c.of[i] /\ c.of[i] = t /\ HandedOver(l, Len(l) + 1, i, t)

\* What one change does to the active reminders.
LEMMA Created ==
    ASSUME NEW a \in Instants, NEW c \in Changes, c.op = "create"
    PROVE  /\ Applied(a, c) \in Instants
           /\ DOMAIN Applied(a, c) = DOMAIN a \cup DOMAIN c.of
           /\ \A i \in DOMAIN a \ DOMAIN c.of : Applied(a, c)[i] = a[i]
<1>1. Applied(a, c) = [i \in DOMAIN c.of \cup DOMAIN a |-> IF i \in DOMAIN c.of THEN c.of[i] ELSE a[i]]
  BY DEF Applied
<1>2. c.of \in Instants
  BY DEF Changes
<1>3. DOMAIN a \cup DOMAIN c.of \subseteq Reminders /\ (\A i \in DOMAIN a : a[i] \in Nat)
      /\ \A i \in DOMAIN c.of : c.of[i] \in Nat
  BY <1>2, InstantsAre
<1> DEFINE b == Applied(a, c)
<1>4. DOMAIN b = DOMAIN a \cup DOMAIN c.of /\ (\A i \in DOMAIN a \ DOMAIN c.of : b[i] = a[i])
      /\ b = [i \in DOMAIN b |-> b[i]] /\ \A i \in DOMAIN b : b[i] \in Nat
  BY <1>1, <1>3
<1>5. b \in Instants
  <2> HIDE DEF b
  <2> QED
    BY <1>3, <1>4, InstantsAre
<1> QED
  BY <1>4, <1>5

LEMMA Removed ==
    ASSUME NEW a \in Instants, NEW c \in Changes, c.op = "delete"
    PROVE  /\ Applied(a, c) \in Instants
           /\ DOMAIN Applied(a, c) = DOMAIN a \ DOMAIN c.of
           /\ \A i \in DOMAIN a \ DOMAIN c.of : Applied(a, c)[i] = a[i]
<1>1. Applied(a, c) = [i \in DOMAIN a \ DOMAIN c.of |-> a[i]]
  BY DEF Applied, Restrict
<1>2. DOMAIN a \subseteq Reminders /\ \A i \in DOMAIN a : a[i] \in Nat
  BY InstantsAre
<1> DEFINE b == Applied(a, c)
<1>3. DOMAIN b = DOMAIN a \ DOMAIN c.of /\ (\A i \in DOMAIN a \ DOMAIN c.of : b[i] = a[i])
      /\ b = [i \in DOMAIN b |-> b[i]] /\ \A i \in DOMAIN b : b[i] \in Nat
  BY <1>1, <1>2
<1>4. b \in Instants
  <2> HIDE DEF b
  <2> QED
    BY <1>2, <1>3, InstantsAre
<1> QED
  BY <1>3, <1>4

LEMMA Shown ==
    ASSUME NEW a, NEW c, c.op = "present" PROVE Applied(a, c) = a
  BY DEF Applied

LEMMA Moved ==
    ASSUME NEW a \in Instants, NEW c \in Changes, c.op = "dispatch", DOMAIN c.of \subseteq DOMAIN a,
           \A i \in DOMAIN c.of : a[i] <= c.of[i]
    PROVE  /\ Applied(a, c) \in Instants
           /\ DOMAIN a \ DOMAIN c.of \subseteq DOMAIN Applied(a, c)
           /\ DOMAIN Applied(a, c) \subseteq DOMAIN a
           /\ \A i \in DOMAIN a \ DOMAIN c.of : Applied(a, c)[i] = a[i]
           /\ \A i \in DOMAIN Applied(a, c) \cap DOMAIN c.of :
                 Applied(a, c)[i] > c.of[i] /\ Applied(a, c)[i] > a[i]
<1> DEFINE next == [i \in DOMAIN c.of |-> Following(a[i], c.of[i])]
<1> DEFINE over == {i \in DOMAIN c.of : i \in Once \/ next[i] > LastInstant}
<1>1. Applied(a, c) = [i \in DOMAIN a \ over |-> IF i \in DOMAIN c.of THEN next[i] ELSE a[i]]
  BY DEF Applied, Dispatched
<1>2. c.of \in Instants
  BY DEF Changes
<1>3. DOMAIN a \subseteq Reminders /\ (\A i \in DOMAIN a : a[i] \in Nat)
      /\ \A i \in DOMAIN c.of : c.of[i] \in Nat
  BY <1>2, InstantsAre
<1>4. \A i \in DOMAIN c.of : next[i] \in Nat /\ next[i] > c.of[i] /\ next[i] > a[i]
  <2> TAKE i \in DOMAIN c.of
  <2>1. a[i] \in Nat /\ c.of[i] \in Nat /\ a[i] <= c.of[i] /\ Interval \in Nat
    BY <1>3, SchedulesAssumption
  <2> DEFINE o == Occurrence(a[i], c.of[i])
  <2>2. o \in Nat /\ a[i] <= o /\ o <= c.of[i] /\ c.of[i] < o + Interval
    BY <2>1, OccurrenceIs
  <2>3. next[i] = o + Interval
    BY DEF Following
  <2> HIDE DEF o, next
  <2> QED
    BY <2>1, <2>2, <2>3
<1>5. over \subseteq DOMAIN c.of
  OBVIOUS
<1> HIDE DEF next, over
<1> DEFINE b == Applied(a, c)
<1>6. DOMAIN b = DOMAIN a \ over /\ \A i \in DOMAIN a \ over : b[i] = IF i \in DOMAIN c.of THEN next[i] ELSE a[i]
  BY <1>1
<1>7. b = [i \in DOMAIN b |-> b[i]]
  BY <1>1
<1>8. \A i \in DOMAIN b : b[i] \in Nat
  BY <1>3, <1>4, <1>6
<1>9. b \in Instants
  <2> HIDE DEF b
  <2> QED
    BY <1>3, <1>6, <1>7, <1>8, InstantsAre
<1> HIDE DEF b
<1>10. \A i \in DOMAIN b \cap DOMAIN c.of : b[i] > c.of[i] /\ b[i] > a[i]
  BY <1>4, <1>6
<1>11. DOMAIN a \ DOMAIN c.of \subseteq DOMAIN b /\ DOMAIN b \subseteq DOMAIN a
       /\ \A i \in DOMAIN a \ DOMAIN c.of : b[i] = a[i]
  BY <1>5, <1>6
<1> QED
  BY <1>9, <1>10, <1>11 DEF b

-----------------------------------------------------------------------------
(* A sound log stays so when a change that fits is appended.               *)

LEMMA PastAppend ==
    ASSUME NEW t \in Nat, NEW l \in Seq(Changes), NEW c \in Changes, Past(l, t), Fits(l, c, t)
    PROVE  Past(Append(l, c), t)
<1> DEFINE m == Append(l, c)
<1>1. Len(m) = Len(l) + 1 /\ m[Len(l) + 1] = c /\ Len(l) \in Nat /\ \A k \in 1..Len(l) : m[k] = l[k]
  OBVIOUS
<1> HIDE DEF m
<1>2. \A k \in 1..(Len(l) + 1) : k \in 1..Len(l) \/ k = Len(l) + 1
  BY <1>1
<1> QED
  BY <1>1, <1>2 DEF Past, Fits, m

LEMMA AccountedAppend ==
    ASSUME NEW t \in Nat, NEW l \in Seq(Changes), NEW c \in Changes, Sound(l), Fits(l, c, t)
    PROVE  Accounted(Append(l, c))
<1> DEFINE m == Append(l, c)
<1> DEFINE a == Active(l)
<1> DEFINE b == Active(m)
<1>1. m \in Seq(Changes)
  OBVIOUS
<1>2. b = Applied(a, c)
  BY ActiveAppend
<1>3. \A op : Named(m, op) = IF c.op = op THEN Named(l, op) \cup DOMAIN c.of ELSE Named(l, op)
  BY NamedAppend
<1>4. Accounted(l) /\ c.op \in {"create", "delete", "present", "dispatch"}
  BY DEF Sound, Changes
<1> HIDE DEF m
<1>5. a \in Instants
  BY <1>4 DEF Accounted
<1>6. /\ DOMAIN a \cup Named(l, "delete") \cup Named(l, "present") \subseteq Named(l, "create")
      /\ Named(l, "create") \subseteq DOMAIN a \cup Named(l, "delete") \cup Named(l, "present")
      /\ Named(l, "delete") \cap DOMAIN a = {}
  BY <1>4 DEF Accounted
<1> HIDE DEF a, b
<1>7. CASE c.op = "create"
  <2>1. b \in Instants /\ DOMAIN b = DOMAIN a \cup DOMAIN c.of
    BY <1>2, <1>5, <1>7, Created
  <2>2. DOMAIN c.of \cap Named(l, "create") = {}
    BY <1>7 DEF Fits
  <2>3. Named(m, "create") = Named(l, "create") \cup DOMAIN c.of /\ Named(m, "delete") = Named(l, "delete")
        /\ Named(m, "present") = Named(l, "present")
    BY <1>3, <1>7
  <2> QED
    BY <1>6, <2>1, <2>2, <2>3 DEF Accounted, b, m
<1>8. CASE c.op = "delete"
  <2>1. b \in Instants /\ DOMAIN b = DOMAIN a \ DOMAIN c.of
    BY <1>2, <1>5, <1>8, Removed
  <2>2. DOMAIN c.of \subseteq DOMAIN a
    BY <1>8 DEF Fits, a
  <2>3. Named(m, "create") = Named(l, "create") /\ Named(m, "delete") = Named(l, "delete") \cup DOMAIN c.of
        /\ Named(m, "present") = Named(l, "present")
    BY <1>3, <1>8
  <2> QED
    BY <1>6, <2>1, <2>2, <2>3 DEF Accounted, b, m
<1>9. CASE c.op = "present"
  <2>1. b = a
    BY <1>2, <1>9, Shown
  <2>2. DOMAIN c.of \subseteq DOMAIN a
    BY <1>9 DEF Fits, a
  <2>3. Named(m, "create") = Named(l, "create") /\ Named(m, "delete") = Named(l, "delete")
        /\ Named(m, "present") = Named(l, "present") \cup DOMAIN c.of
    BY <1>3, <1>9
  <2> QED
    BY <1>5, <1>6, <2>1, <2>2, <2>3 DEF Accounted, b, m
<1>10. CASE c.op = "dispatch"
  <2>1. DOMAIN c.of \subseteq DOMAIN a /\ \A i \in DOMAIN c.of : a[i] <= c.of[i]
    BY <1>10 DEF Fits, a
  <2>2. b \in Instants /\ DOMAIN a \ DOMAIN c.of \subseteq DOMAIN b /\ DOMAIN b \subseteq DOMAIN a
    BY <1>2, <1>5, <1>10, <2>1, Moved
  <2>3. Named(m, "create") = Named(l, "create") /\ Named(m, "delete") = Named(l, "delete")
        /\ Named(m, "present") = Named(l, "present")
    BY <1>3, <1>10
  <2>4. DOMAIN c.of \subseteq Named(l, "present")
    <3> SUFFICES ASSUME NEW i \in DOMAIN c.of PROVE i \in Named(l, "present")
      OBVIOUS
    <3>1. HandedOver(l, Len(l) + 1, i, t)
      BY <1>10 DEF Fits
    <3>2. PICK j \in 1..((Len(l) + 1) - 1) : l[j].op = "present" /\ i \in DOMAIN l[j].of
      BY <3>1 DEF HandedOver
    <3>3. j \in 1..Len(l)
      OBVIOUS
    <3> QED
      BY <3>2, <3>3, NamedIs
  <2> QED
    BY <1>6, <2>1, <2>2, <2>3, <2>4 DEF Accounted, b, m
<1> QED
  BY <1>4, <1>7, <1>8, <1>9, <1>10

LEMMA MarkedAppend ==
    ASSUME NEW t \in Nat, NEW l \in Seq(Changes), NEW c \in Changes, Sound(l), Fits(l, c, t)
    PROVE  Marked(Append(l, c))
<1> DEFINE m == Append(l, c)
<1>1. Len(m) = Len(l) + 1 /\ m[Len(l) + 1] = c /\ Len(l) \in Nat /\ \A k \in 1..Len(l) : m[k] = l[k]
  OBVIOUS
<1> HIDE DEF m
<1> SUFFICES ASSUME NEW k \in 1..(Len(l) + 1), m[k].op = "dispatch", NEW i \in DOMAIN m[k].of
             PROVE  HandedOver(m, k, i, m[k].of[i])
  BY <1>1 DEF Marked, m
<1>2. HandedOver(l, k, i, m[k].of[i])
  <2>1. CASE k \in 1..Len(l)
    BY <1>1, <2>1 DEF Sound, Marked
  <2>2. CASE k = Len(l) + 1
    BY <1>1, <2>2 DEF Fits
  <2> QED
    BY <1>1, <2>1, <2>2
<1>3. \A j \in 1..(k - 1) : m[j] = l[j]
  BY <1>1
<1> QED
  BY <1>2, <1>3 DEF HandedOver

LEMMA GoneAppend ==
    ASSUME NEW t \in Nat, NEW l \in Seq(Changes), NEW c \in Changes, Sound(l), Fits(l, c, t)
    PROVE  Gone(Append(l, c))
<1> DEFINE m == Append(l, c)
<1>1. Len(m) = Len(l) + 1 /\ m[Len(l) + 1] = c /\ Len(l) \in Nat /\ \A k \in 1..Len(l) : m[k] = l[k]
  OBVIOUS
<1> HIDE DEF m
<1> SUFFICES ASSUME NEW j \in 1..(Len(l) + 1), NEW k \in 1..(Len(l) + 1), j < k,
                    m[j].op = "delete", m[k].op = "present"
             PROVE  DOMAIN m[j].of \cap DOMAIN m[k].of = {}
  BY <1>1 DEF Gone, m
<1>2. j \in 1..Len(l) /\ m[j] = l[j]
  BY <1>1
<1>3. CASE k \in 1..Len(l)
  BY <1>1, <1>2, <1>3 DEF Sound, Gone
<1>4. CASE k = Len(l) + 1
  <2>1. DOMAIN c.of \subseteq DOMAIN Active(l)
    BY <1>1, <1>4 DEF Fits
  <2>2. DOMAIN l[j].of \subseteq Named(l, "delete")
    BY <1>2, NamedIs
  <2>3. Named(l, "delete") \cap DOMAIN Active(l) = {}
    BY DEF Sound, Accounted
  <2> QED
    BY <1>1, <1>2, <1>4, <2>1, <2>2, <2>3
<1> QED
  BY <1>1, <1>3, <1>4

LEMMA AdvancedAppend ==
    ASSUME NEW t \in Nat, NEW l \in Seq(Changes), NEW c \in Changes, Sound(l), Past(l, t), Fits(l, c, t)
    PROVE  Advanced(Append(l, c))
<1> DEFINE m == Append(l, c)
<1> DEFINE a == Active(l)
<1> DEFINE b == Active(m)
<1>1. Len(m) = Len(l) + 1 /\ m[Len(l) + 1] = c /\ Len(l) \in Nat /\ \A k \in 1..Len(l) : m[k] = l[k]
  OBVIOUS
<1>2. b = Applied(a, c)
  BY ActiveAppend
<1>3. a \in Instants /\ \A i \in DOMAIN a : a[i] \in Nat
  BY InstantsAre DEF Sound, Accounted
<1>4. \A j \in 1..Len(l) : l[j].of \in Instants /\ \A i \in DOMAIN l[j].of : l[j].of[i] \in Nat
  <2> TAKE j \in 1..Len(l)
  <2>1. l[j] \in Changes
    OBVIOUS
  <2>2. l[j].of \in Instants
    BY <2>1 DEF Changes
  <2> QED
    BY <2>2, InstantsAre
<1> HIDE DEF m
<1> SUFFICES ASSUME NEW j \in 1..(Len(l) + 1), NEW k \in 1..(Len(l) + 1), j < k,
                    m[j].op = "present", m[k].op = "dispatch",
                    NEW i \in DOMAIN m[j].of \cap DOMAIN m[k].of \cap DOMAIN b
             PROVE  m[j].of[i] < b[i]
  BY <1>1 DEF Advanced, m
<1>5. j \in 1..Len(l) /\ m[j] = l[j] /\ l[j].of[i] \in Nat
  BY <1>1, <1>4
<1>6. CASE k = Len(l) + 1
  <2>1. m[k] = c /\ c.op = "dispatch"
    BY <1>1, <1>6
  <2>2. DOMAIN c.of \subseteq DOMAIN a /\ (\A x \in DOMAIN c.of : a[x] <= c.of[x]) /\ c.of[i] = t
    BY <2>1 DEF Fits
  <2>3. b[i] > c.of[i] /\ b \in Instants
    BY <1>2, <1>3, <2>1, <2>2, Moved
  <2>4. b[i] \in Nat
    BY <2>3, InstantsAre
  <2>5. l[j].of[i] <= t
    BY <1>5 DEF Past
  <2> HIDE DEF b
  <2> QED
    BY <1>5, <2>2, <2>3, <2>4, <2>5
<1>7. CASE k \in 1..Len(l)
  <2>1. m[k] = l[k]
    BY <1>1, <1>7
  <2>2. i \in DOMAIN a => l[j].of[i] < a[i]
    BY <1>5, <1>7, <2>1 DEF Sound, Advanced
  <2>3. i \in Named(l, "present")
    BY <1>5, NamedIs
  <2>4. i \in Named(l, "create")
    BY <2>3 DEF Sound, Accounted
  <2> HIDE DEF a, b
  <2>5. CASE c.op = "create"
    <3>1. i \notin DOMAIN c.of
      BY <2>4, <2>5 DEF Fits
    <3>2. i \in DOMAIN a /\ b[i] = a[i]
      BY <1>2, <1>3, <2>5, <3>1, Created
    <3> QED
      BY <1>5, <2>2, <3>2
  <2>6. CASE c.op = "delete"
    BY <1>2, <1>3, <1>5, <2>2, <2>6, Removed
  <2>7. CASE c.op = "present"
    BY <1>2, <1>5, <2>2, <2>7, Shown
  <2>8. CASE c.op = "dispatch"
    <3>1. DOMAIN c.of \subseteq DOMAIN a /\ \A x \in DOMAIN c.of : a[x] <= c.of[x]
      BY <2>8 DEF Fits, a
    <3>2. /\ b \in Instants /\ DOMAIN b \subseteq DOMAIN a
          /\ \A x \in DOMAIN a \ DOMAIN c.of : b[x] = a[x]
          /\ \A x \in DOMAIN b \cap DOMAIN c.of : b[x] > a[x]
      BY <1>2, <1>3, <2>8, <3>1, Moved
    <3>3. i \in DOMAIN a /\ a[i] \in Nat /\ b[i] \in Nat /\ b[i] >= a[i]
      BY <1>3, <3>2, InstantsAre
    <3> QED
      BY <1>5, <2>2, <3>3
  <2> QED
    BY <2>5, <2>6, <2>7, <2>8 DEF Changes
<1> QED
  BY <1>1, <1>6, <1>7

LEMMA SingleAppend ==
    ASSUME NEW t \in Nat, NEW l \in Seq(Changes), NEW c \in Changes, Sound(l), Fits(l, c, t)
    PROVE  Single(Append(l, c))
<1> DEFINE m == Append(l, c)
<1>1. Len(m) = Len(l) + 1 /\ m[Len(l) + 1] = c /\ Len(l) \in Nat /\ \A k \in 1..Len(l) : m[k] = l[k]
  OBVIOUS
<1>2. c.of \in Instants /\ \A j \in 1..Len(l) : l[j].of \in Instants
  <2>1. \A j \in 1..Len(l) : l[j] \in Changes
    OBVIOUS
  <2> QED
    BY <2>1 DEF Changes
<1> HIDE DEF m
<1> SUFFICES ASSUME NEW j \in 1..(Len(l) + 1), NEW k \in 1..(Len(l) + 1), j < k,
                    m[j].op = "present", m[k].op = "present",
                    NEW i \in DOMAIN m[j].of \cap DOMAIN m[k].of, m[j].of[i] = m[k].of[i],
                    NEW x \in j..k, m[x].op = "dispatch", i \in DOMAIN m[x].of
             PROVE  FALSE
  BY <1>1 DEF Single, m
<1>3. j \in 1..Len(l) /\ m[j] = l[j]
  BY <1>1
<1>4. CASE k \in 1..Len(l)
  <2>1. m[k] = l[k] /\ x \in 1..Len(l) /\ m[x] = l[x]
    BY <1>1, <1>4
  <2>2. \A y \in j..k : ~(l[y].op = "dispatch" /\ i \in DOMAIN l[y].of)
    BY <1>3, <1>4, <2>1 DEF Sound, Single
  <2> QED
    BY <2>1, <2>2
<1>5. CASE k = Len(l) + 1
  <2>1. m[k] = c /\ c.op = "present"
    BY <1>1, <1>5
  <2>2. i \in DOMAIN Active(l) /\ Active(l)[i] <= c.of[i]
    BY <2>1 DEF Fits
  <2>3. x # j /\ x # k
    OBVIOUS
  <2>4. x \in 1..Len(l) /\ j < x /\ m[x] = l[x]
    BY <1>1, <1>3, <1>5, <2>3
  <2>5. l[j].of[i] < Active(l)[i]
    BY <1>3, <2>2, <2>4 DEF Sound, Advanced
  <2>6. Active(l)[i] \in Nat /\ c.of[i] \in Nat /\ l[j].of[i] = c.of[i]
    <3>1. Active(l) \in Instants
      BY DEF Sound, Accounted
    <3> QED
      BY <1>2, <1>3, <2>1, <2>2, <3>1, InstantsAre
  <2> QED
    BY <2>2, <2>5, <2>6
<1> QED
  BY <1>1, <1>4, <1>5

LEMMA SoundAppend ==
    ASSUME NEW t \in Nat, NEW l \in Seq(Changes), NEW c \in Changes, Sound(l), Past(l, t), Fits(l, c, t)
    PROVE  Sound(Append(l, c))
  BY AccountedAppend, MarkedAppend, GoneAppend, AdvancedAppend, SingleAppend DEF Sound

LEMMA SoundEmpty == Sound(<<>>)
<1>1. <<>> \in Seq(Changes) /\ Len(<<>>) = 0 /\ 1..0 = {}
  OBVIOUS
<1>2. \A op : Named(<<>>, op) = {}
  BY <1>1, NamedIs
<1>3. Active(<<>>) \in Instants /\ DOMAIN Active(<<>>) = {}
  <2>1. Active(<<>>) = <<>> /\ DOMAIN <<>> = {}
    BY ActiveEmpty
  <2>2. <<>> \in [{} -> Nat]
    OBVIOUS
  <2> QED
    BY <2>1, <2>2 DEF Instants
<1> QED
  BY <1>1, <1>2, <1>3 DEF Sound, Accounted, Marked, Gone, Advanced, Single

-----------------------------------------------------------------------------
(* What a crash may leave: a prefix of the log.                            *)

LEMMA PrefixIs ==
    ASSUME NEW l \in Seq(Changes), NEW n \in 0..Len(l)
    PROVE  /\ SubSeq(l, 1, n) \in Seq(Changes)
           /\ Len(SubSeq(l, 1, n)) = n
           /\ \A k \in 1..n : SubSeq(l, 1, n)[k] = l[k]
<1>1. \A k \in 1..n : l[k] \in Changes
  OBVIOUS
<1>2. n \in Int /\ 1 \in Int
  OBVIOUS
<1> DEFINE p == SubSeq(l, 1, n)
<1>3. p \in Seq(Changes) /\ Len(p) = (IF 1 <= n THEN n - 1 + 1 ELSE 0)
      /\ \A k \in 1..(n - 1 + 1) : p[k] = l[1 + k - 1]
  BY <1>1, <1>2, SubSeqProperties
<1> HIDE DEF p
<1>4. Len(p) = n /\ \A k \in 1..n : p[k] = l[k]
  BY <1>3
<1> QED
  BY <1>3, <1>4 DEF p

LEMMA PrefixOfPrefix ==
    ASSUME NEW l \in Seq(Changes), NEW n \in 0..Len(l), NEW m \in 0..n
    PROVE  SubSeq(SubSeq(l, 1, n), 1, m) = SubSeq(l, 1, m)
<1> DEFINE p == SubSeq(l, 1, n)
<1>1. p \in Seq(Changes) /\ Len(p) = n /\ \A k \in 1..n : p[k] = l[k]
  BY PrefixIs
<1> HIDE DEF p
<1> DEFINE q == SubSeq(p, 1, m)
<1> DEFINE r == SubSeq(l, 1, m)
<1>2. q \in Seq(Changes) /\ Len(q) = m /\ \A k \in 1..m : q[k] = p[k]
  BY <1>1, PrefixIs
<1>3. r \in Seq(Changes) /\ Len(r) = m /\ \A k \in 1..m : r[k] = l[k]
  <2>1. m \in 0..Len(l)
    OBVIOUS
  <2> QED
    BY <2>1, PrefixIs
<1> HIDE DEF q, r
<1>4. q = r
  BY <1>1, <1>2, <1>3, SeqEqual
<1> QED
  BY <1>4 DEF p, q, r

LEMMA PrefixWhole == ASSUME NEW l \in Seq(Changes) PROVE SubSeq(l, 1, Len(l)) = l
  BY SubSeqFull

LEMMA PrefixOfAppend ==
    ASSUME NEW l \in Seq(Changes), NEW c \in Changes, NEW n \in 0..Len(l)
    PROVE  SubSeq(Append(l, c), 1, n) = SubSeq(l, 1, n)
<1> DEFINE m == Append(l, c)
<1>1. m \in Seq(Changes) /\ Len(m) = Len(l) + 1 /\ \A k \in 1..Len(l) : m[k] = l[k]
  OBVIOUS
<1> HIDE DEF m
<1> DEFINE q == SubSeq(m, 1, n)
<1> DEFINE r == SubSeq(l, 1, n)
<1>2. q \in Seq(Changes) /\ Len(q) = n /\ \A k \in 1..n : q[k] = m[k]
  <2>1. n \in 0..Len(m)
    BY <1>1
  <2> QED
    BY <1>1, <2>1, PrefixIs
<1>3. r \in Seq(Changes) /\ Len(r) = n /\ \A k \in 1..n : r[k] = l[k]
  BY PrefixIs
<1> HIDE DEF q, r
<1>4. q = r
  BY <1>1, <1>2, <1>3, SeqEqual
<1> QED
  BY <1>4 DEF m, q, r

LEMMA PrefixGrows ==
    ASSUME NEW l \in Seq(Changes), NEW n \in Nat, n < Len(l)
    PROVE  SubSeq(l, 1, n + 1) = Append(SubSeq(l, 1, n), l[n + 1])
<1> DEFINE p == SubSeq(l, 1, n)
<1>1. p \in Seq(Changes) /\ Len(p) = n /\ \A k \in 1..n : p[k] = l[k]
  <2>1. n \in 0..Len(l)
    OBVIOUS
  <2> QED
    BY <2>1, PrefixIs
<1> DEFINE q == SubSeq(l, 1, n + 1)
<1>2. q \in Seq(Changes) /\ Len(q) = n + 1 /\ \A k \in 1..(n + 1) : q[k] = l[k]
  <2>1. n + 1 \in 0..Len(l)
    OBVIOUS
  <2> QED
    BY <2>1, PrefixIs
<1> HIDE DEF p, q
<1> DEFINE r == Append(p, l[n + 1])
<1>3. l[n + 1] \in Changes
  OBVIOUS
<1>4. r \in Seq(Changes) /\ Len(r) = n + 1 /\ r[n + 1] = l[n + 1] /\ \A k \in 1..n : r[k] = p[k]
  BY <1>1, <1>3
<1> HIDE DEF r
<1>5. \A k \in 1..(n + 1) : q[k] = r[k]
  BY <1>1, <1>2, <1>4
<1>6. q = r
  BY <1>2, <1>4, <1>5, SeqEqual
<1> QED
  BY <1>6 DEF p, q, r

\* Sound wherever it is cut.
Good(l) == \A n \in 0..Len(l) : Sound(SubSeq(l, 1, n))

LEMMA GoodEmpty == Good(<<>>)
<1>1. <<>> \in Seq(Changes) /\ Len(<<>>) = 0
  OBVIOUS
<1>2. SubSeq(<<>>, 1, 0) = <<>>
  BY <1>1, PrefixWhole
<1>3. \A n \in 0..0 : n = 0
  OBVIOUS
<1> QED
  BY <1>1, <1>2, <1>3, SoundEmpty DEF Good

LEMMA GoodNow == ASSUME NEW l \in Seq(Changes), Good(l) PROVE Sound(l)
<1>1. Len(l) \in 0..Len(l)
  OBVIOUS
<1> QED
  BY <1>1, PrefixWhole DEF Good

LEMMA GoodPrefix ==
    ASSUME NEW l \in Seq(Changes), Good(l), NEW n \in 0..Len(l) PROVE Good(SubSeq(l, 1, n))
<1>1. Len(SubSeq(l, 1, n)) = n
  BY PrefixIs
<1>2. \A m \in 0..n : SubSeq(SubSeq(l, 1, n), 1, m) = SubSeq(l, 1, m) /\ m \in 0..Len(l)
  BY PrefixOfPrefix
<1> QED
  BY <1>1, <1>2 DEF Good

LEMMA GoodAppend ==
    ASSUME NEW t \in Nat, NEW l \in Seq(Changes), NEW c \in Changes, Good(l), Past(l, t), Fits(l, c, t)
    PROVE  Good(Append(l, c)) /\ Past(Append(l, c), t)
<1>1. Sound(Append(l, c))
  BY GoodNow, SoundAppend
<1>2. Append(l, c) \in Seq(Changes) /\ Len(Append(l, c)) = Len(l) + 1
  OBVIOUS
<1> SUFFICES ASSUME NEW n \in 0..(Len(l) + 1) PROVE Sound(SubSeq(Append(l, c), 1, n))
  BY <1>2, PastAppend DEF Good
<1>3. CASE n = Len(l) + 1
  BY <1>1, <1>2, <1>3, PrefixWhole
<1>4. CASE n # Len(l) + 1
  <2>1. n \in 0..Len(l)
    BY <1>4
  <2> QED
    BY <2>1, PrefixOfAppend DEF Good
<1> QED
  BY <1>3, <1>4

LEMMA PastPrefix ==
    ASSUME NEW l \in Seq(Changes), NEW t, Past(l, t), NEW n \in 0..Len(l) PROVE Past(SubSeq(l, 1, n), t)
<1>1. Len(SubSeq(l, 1, n)) = n /\ \A k \in 1..n : SubSeq(l, 1, n)[k] = l[k] /\ k \in 1..Len(l)
  BY PrefixIs
<1> QED
  BY <1>1 DEF Past

LEMMA NamedGrows ==
    ASSUME NEW l \in Seq(Changes), NEW m \in Nat, NEW n \in 0..Len(l), m <= n, NEW op
    PROVE  Named(SubSeq(l, 1, m), op) \subseteq Named(SubSeq(l, 1, n), op)
<1>1. m \in 0..Len(l)
  OBVIOUS
<1> DEFINE p == SubSeq(l, 1, m)
<1> DEFINE q == SubSeq(l, 1, n)
<1>2. p \in Seq(Changes) /\ Len(p) = m /\ \A k \in 1..m : p[k] = l[k]
  BY <1>1, PrefixIs
<1>3. q \in Seq(Changes) /\ Len(q) = n /\ \A k \in 1..n : q[k] = l[k]
  BY PrefixIs
<1> HIDE DEF p, q
<1>4. \A k \in 1..m : k \in 1..n /\ p[k] = q[k]
  BY <1>2, <1>3
<1>5. \A i : i \in Named(p, op) => i \in Named(q, op)
  BY <1>2, <1>3, <1>4, NamedIs
<1> QED
  BY <1>5 DEF p, q

-----------------------------------------------------------------------------
(* A batch: it is presented, then each reminder in it is dispatched.       *)

LEMMA SetToSeqIs ==
    ASSUME NEW S, IsFiniteSet(S)
    PROVE  /\ Cardinality(S) \in Nat
           /\ SetToSeq(S) \in [1..Cardinality(S) -> S]
           /\ \A j, k \in 1..Cardinality(S) : SetToSeq(S)[j] = SetToSeq(S)[k] => j = k
<1>1. Cardinality(S) \in Nat /\ ExistsBijection(1..Cardinality(S), S)
  BY FS_CardinalityType
<1>2. PICK f : f \in Bijection(1..Cardinality(S), S)
  BY <1>1 DEF ExistsBijection
<1>3. f \in [1..Cardinality(S) -> S] /\ IsInjective(f)
  BY <1>2 DEF Bijection, Injection
<1>4. SetToSeq(S) \in [1..Cardinality(S) -> S] /\ IsInjective(SetToSeq(S))
  BY <1>3 DEF SetToSeq
<1> QED
  BY <1>1, <1>4 DEF IsInjective

\* What is due may be presented.
LEMMA Presents ==
    ASSUME NEW t \in Nat, NEW l \in Seq(Changes), Good(l),
           Past(l, t),
           NEW batch, batch \subseteq DOMAIN Active(l), \A i \in batch : Active(l)[i] <= t,
           NEW c \in Changes, c.op = "present", DOMAIN c.of = batch,
           \A i \in batch : c.of[i] = Occurrence(Active(l)[i], t)
    PROVE  /\ Good(Append(l, c)) /\ Past(Append(l, c), t) /\ Active(Append(l, c)) = Active(l)
           /\ \A i \in batch : c.of[i] \in Nat /\ c.of[i] <= t /\ t < c.of[i] + Interval
<1>1. Active(l) \in Instants
  BY GoodNow DEF Sound, Accounted
<1>2. DOMAIN Active(l) \subseteq Reminders /\ \A i \in DOMAIN Active(l) : Active(l)[i] \in Nat
  BY <1>1, InstantsAre
<1>3. \A i \in batch : /\ Occurrence(Active(l)[i], t) \in Nat
                       /\ Active(l)[i] <= Occurrence(Active(l)[i], t)
                       /\ Occurrence(Active(l)[i], t) <= t
                       /\ t < Occurrence(Active(l)[i], t) + Interval
  BY <1>2, OccurrenceIs
<1>8. Fits(l, c, t)
  BY <1>3 DEF Fits
<1>9. Good(Append(l, c)) /\ Past(Append(l, c), t)
  BY <1>8, GoodAppend
<1>10. Active(Append(l, c)) = Active(l)
  BY ActiveAppend, Shown
<1> QED
  BY <1>3, <1>9, <1>10

\* A reminder of the batch is dispatched where it was presented; the others are left.
LEMMA DispatchesOne ==
    ASSUME NEW t \in Nat, NEW l \in Seq(Changes), Good(l), Past(l, t),
           NEW i \in DOMAIN Active(l), Active(l)[i] <= t,
           NEW n \in 1..Len(l), l[n].op = "present", i \in DOMAIN l[n].of,
           l[n].of[i] \in Nat, l[n].of[i] <= t, t < l[n].of[i] + Interval,
           NEW c \in Changes, c.op = "dispatch", DOMAIN c.of = {i}, c.of[i] = t
    PROVE  /\ Good(Append(l, c)) /\ Past(Append(l, c), t)
           /\ \A x \in DOMAIN Active(l) \ {i} : /\ x \in DOMAIN Active(Append(l, c))
                                                /\ Active(Append(l, c))[x] = Active(l)[x]
<1>1. Active(l) \in Instants
  BY GoodNow DEF Sound, Accounted
<1>4. HandedOver(l, Len(l) + 1, i, t)
  <2>1. n \in 1..((Len(l) + 1) - 1)
    OBVIOUS
  <2> DEFINE o == l[n].of[i]
  <2>2. t - o < Interval
    <3>1. o \in Nat /\ t < o + Interval /\ Interval \in Nat
      BY SchedulesAssumption
    <3> HIDE DEF o
    <3> QED
      BY <3>1
  <2> QED
    BY <2>1, <2>2 DEF HandedOver
<1>5. Fits(l, c, t)
  BY <1>4 DEF Fits
<1>6. Good(Append(l, c)) /\ Past(Append(l, c), t)
  BY <1>5, GoodAppend
<1>7. Active(Append(l, c)) = Applied(Active(l), c)
  BY ActiveAppend
<1> DEFINE a == Active(l)
<1>8. a \in Instants /\ DOMAIN c.of \subseteq DOMAIN a /\ \A x \in DOMAIN c.of : a[x] <= c.of[x]
  BY <1>1
<1> HIDE DEF a
<1>9. \A x \in DOMAIN a \ DOMAIN c.of : x \in DOMAIN Applied(a, c) /\ Applied(a, c)[x] = a[x]
  BY <1>8, Moved
<1> QED
  BY <1>6, <1>7, <1>9 DEF a

\* A log m is l, a batch presented at t and its reminders dispatched in the order s.
Handles(m, l, t, batch, s) ==
    /\ batch \subseteq DOMAIN Active(l) /\ \A i \in batch : Active(l)[i] <= t
    /\ s \in Seq(batch) /\ \A j, k \in 1..Len(s) : s[j] = s[k] => j = k
    /\ Len(m) = Len(l) + 1 + Len(s) /\ SubSeq(m, 1, Len(l)) = l
    /\ LET c == m[Len(l) + 1] IN
        c.op = "present" /\ DOMAIN c.of = batch /\ \A i \in batch : c.of[i] = Occurrence(Active(l)[i], t)
    /\ \A k \in 1..Len(s) :
        LET c == m[Len(l) + 1 + k] IN c.op = "dispatch" /\ DOMAIN c.of = {s[k]} /\ c.of[s[k]] = t

\* Each dispatch of a batch finds its reminder due and handed over: the dispatches
\* before it were of others.
LEMMA Batched ==
    ASSUME NEW t \in Nat, NEW l \in Seq(Changes), Good(l), Past(l, t),
           NEW batch, NEW s, NEW m \in Seq(Changes), Handles(m, l, t, batch, s)
    PROVE  Good(m) /\ Past(m, t)
<1> DEFINE N == Len(s)
<1> DEFINE n == Len(l) + 1
<1> DEFINE p(k) == SubSeq(m, 1, n + k)
<1> DEFINE StillDue(a, k) == \A j \in (k + 1)..N : s[j] \in DOMAIN a /\ a[s[j]] <= t
<1> DEFINE P(k) == Good(p(k)) /\ Past(p(k), t) /\ StillDue(Active(p(k)), k)
<1> HIDE DEF p, StillDue
<1>1. /\ N \in Nat /\ n \in Nat /\ Len(m) = n + N /\ n = Len(l) + 1
      /\ \A k \in 1..N : s[k] \in batch /\ \A j \in 1..N : s[j] = s[k] => j = k
  BY DEF Handles
<1>6. \A k \in 0..N : p(k) \in Seq(Changes) /\ Len(p(k)) = n + k /\ \A x \in 1..(n + k) : p(k)[x] = m[x]
  <2> TAKE k \in 0..N
  <2>1. n + k \in 0..Len(m)
    BY <1>1
  <2> QED
    BY <2>1, PrefixIs DEF p
<1> DEFINE shown == m[n]
<1>7. /\ shown \in Changes /\ shown.op = "present" /\ DOMAIN shown.of = batch
      /\ \A i \in batch : shown.of[i] = Occurrence(Active(l)[i], t)
  <2>1. n \in 1..Len(m) /\ n = Len(l) + 1
    BY <1>1
  <2>2. shown \in Changes
    BY <2>1
  <2> QED
    BY <2>1, <2>2 DEF Handles
<1>2. /\ Good(Append(l, shown)) /\ Past(Append(l, shown), t)
      /\ Active(Append(l, shown)) = Active(l)
      /\ \A i \in batch : shown.of[i] \in Nat /\ shown.of[i] <= t /\ t < shown.of[i] + Interval
  <2>1. batch \subseteq DOMAIN Active(l) /\ \A i \in batch : Active(l)[i] <= t
    BY DEF Handles
  <2> HIDE DEF shown
  <2> QED
    BY <1>7, <2>1, Presents
<1> HIDE DEF N
<1>3. P(0)
  <2>1. p(0) = Append(l, shown)
    <3>1. Len(l) \in Nat /\ Len(l) < Len(m) /\ SubSeq(m, 1, Len(l)) = l /\ n + 0 = Len(l) + 1
      BY <1>1 DEF Handles
    <3>2. SubSeq(m, 1, Len(l) + 1) = Append(SubSeq(m, 1, Len(l)), m[Len(l) + 1])
      BY <3>1, PrefixGrows
    <3> QED
      BY <3>1, <3>2 DEF p
  <2>2. StillDue(Active(l), 0)
    BY <1>1 DEF Handles, StillDue
  <2> HIDE DEF shown
  <2> QED
    BY <1>2, <2>1, <2>2
<1> HIDE DEF n
<1>4. ASSUME NEW k \in 0..(N - 1), P(k) PROVE P(k + 1)
  <2> DEFINE q == p(k)
  <2> DEFINE c == m[n + (k + 1)]
  <2> DEFINE i == s[k + 1]
  <2>1. q \in Seq(Changes) /\ Len(q) = n + k /\ q[n] = shown
    <3>1. k \in 0..N /\ n \in 1..(n + k)
      BY <1>1
    <3> HIDE DEF P
    <3> QED
      BY <1>6, <3>1
  <2>2. p(k + 1) = Append(q, c)
    <3>1. n + k \in Nat /\ n + k < Len(m) /\ (n + k) + 1 = n + (k + 1)
      BY <1>1
    <3> QED
      BY <3>1, PrefixGrows DEF p
  <2>12. k + 1 \in 1..N /\ n + (k + 1) \in 1..Len(m) /\ k + 1 \in (k + 1)..N
    BY <1>1
  <2>3. c.op = "dispatch" /\ DOMAIN c.of = {i} /\ c.of[i] = t /\ i \in batch
    BY <1>1, <2>12 DEF Handles, N
  <2>10. c \in Changes
    BY <2>12
  <2>4. Good(q) /\ Past(q, t) /\ StillDue(Active(q), k)
    BY <1>4
  <2>5. i \in DOMAIN Active(q) /\ Active(q)[i] <= t
    BY <2>4, <2>12 DEF StillDue
  <2>6. \A j \in ((k + 1) + 1)..N : s[j] # i /\ j \in (k + 1)..N
    BY <1>1, <2>12
  <2>7. n \in 1..Len(q)
    BY <1>1, <2>1
  <2> HIDE DEF q, c, i, shown, P
  <2>11. /\ q[n].op = "present" /\ i \in DOMAIN q[n].of
         /\ q[n].of[i] \in Nat /\ q[n].of[i] <= t /\ t < q[n].of[i] + Interval
    BY <1>2, <1>7, <2>1, <2>3
  <2>8. /\ Good(Append(q, c)) /\ Past(Append(q, c), t)
        /\ \A x \in DOMAIN Active(q) \ {i} : /\ x \in DOMAIN Active(Append(q, c))
                                             /\ Active(Append(q, c))[x] = Active(q)[x]
    BY <2>1, <2>3, <2>4, <2>5, <2>7, <2>10, <2>11, DispatchesOne
  <2>9. StillDue(Active(Append(q, c)), k + 1)
    BY <2>4, <2>6, <2>8 DEF StillDue
  <2> QED
    BY <2>2, <2>8, <2>9 DEF P
<1>5. P(N)
  <2> HIDE DEF P
  <2> DEFINE T == {k \in 0..N : ~P(k)}
  <2> SUFFICES ASSUME T # {} PROVE FALSE
    BY <1>1
  <2>1. PICK k \in T : \A j \in T : k <= j
    <3>1. T \in SUBSET Nat
      OBVIOUS
    <3> HIDE DEF T
    <3> QED
      BY <3>1, LeastNatural
  <2>2. k \in 0..N /\ ~P(k) /\ k # 0
    BY <1>1, <1>3
  <2>3. k - 1 \in 0..(N - 1) /\ k - 1 \notin T /\ (k - 1) + 1 = k
    BY <1>1, <2>1, <2>2
  <2>4. P(k - 1)
    BY <1>1, <2>3
  <2>5. P((k - 1) + 1)
    BY <1>4, <2>3, <2>4
  <2> QED
    BY <2>2, <2>3, <2>5
<1> QED
  BY <1>1, <1>5, PrefixWhole DEF p

-----------------------------------------------------------------------------
(* The inductive invariant.                                                *)

Transactions == [op : {"drive", "create", "list", "delete"}, of : SUBSET Reminders]

\* The types the proof needs.
Stored == log \in Seq(Changes) /\ durable \in 0..Len(log) /\ now \in Nat
Queued == queue \in Seq(Transactions) /\ requested \in BOOLEAN /\ idleWait \in BOOLEAN

\* The log is sound wherever it is cut, and ahead of nothing.
Recorded == Good(log) /\ Past(log, now)

\* What the model was told is in the store.
Answered ==
    /\ kept \subseteq Named(SubSeq(log, 1, durable), "create")
    /\ dropped \subseteq Named(SubSeq(log, 1, durable), "delete")

\* A call at its barrier wrote the last change.
Writing ==
    Calling /\ step = "barrier" =>
        /\ log # <<>> /\ log[Len(log)].op = Head(queue).op
        /\ Running("delete") => DOMAIN log[Len(log)].of = Subject

\* A drive is queued once, by a run that says so.
OneDriveIn(q, r) ==
    /\ \A j, k \in 1..Len(q) : q[j].op = "drive" /\ q[k].op = "drive" => j = k
    /\ \A j \in 1..Len(q) : q[j].op = "drive" => r = "queued"

\* Where the agent is kept, and where nothing runs.
Placed ==
    /\ phase = "maintenance" => Running("drive") /\ step \in {"claimed", "refused"}
    /\ queue = <<>> => step = "start"
    /\ mode = "down" => queue = <<>> /\ run = "none" /\ phase = "idle"

\* A trigger is kept until a drive has looked at the log.  Once the turn that a handover
\* started is over, its end was a trigger: the log has the handover.
Triggered ==
    /\ mode = "live" /\ Running("drive") /\ step = "barrier" /\ phase # "running" => requested
    /\ mode = "live" /\ run = "none" => ~requested
    /\ mode = "live" /\ Attended /\ ~idleWait /\ ~requested /\ run # "queued" =>
          timer = Earliest(Active(log))
    /\ deferred = "record" \/ (Running("drive") /\ step \in {"claimed", "barrier"}) => log # <<>>

Books == Stored /\ Recorded /\ Answered
Order == Queued /\ Writing /\ OneDriveIn(queue, run) /\ Placed /\ Triggered
Inv == Books /\ Order

-----------------------------------------------------------------------------
(* The log and what was answered from it.                                  *)

LEMMA PastLater ==
    ASSUME NEW l \in Seq(Changes), NEW t \in Nat, NEW u \in Nat, t <= u, Past(l, t) PROVE Past(l, u)
<1> SUFFICES ASSUME NEW j \in 1..Len(l), l[j].op = "present", NEW i \in DOMAIN l[j].of
             PROVE  l[j].of[i] <= u
  BY DEF Past
<1>1. l[j] \in Changes
  OBVIOUS
<1>2. l[j].of \in Instants
  BY <1>1 DEF Changes
<1>3. l[j].of[i] \in Nat
  BY <1>2, InstantsAre
<1>4. l[j].of[i] <= t
  BY DEF Past
<1> QED
  BY <1>3, <1>4

LEMMA BooksKept ==
    ASSUME Books, log' = log, now' \in Nat, now' >= now, durable' \in {durable, Len(log)},
           kept' = kept, dropped' = dropped
    PROVE  Books'
<1>1. log \in Seq(Changes) /\ durable \in 0..Len(log) /\ now \in Nat /\ Good(log) /\ Past(log, now)
  BY DEF Books, Stored, Recorded
<1>2. durable' \in 0..Len(log) /\ durable <= durable' /\ durable \in Nat
  BY <1>1
<1>3. Past(log, now')
  BY <1>1, PastLater
<1>4. Named(SubSeq(log, 1, durable), "create") \subseteq Named(SubSeq(log, 1, durable'), "create")
  BY <1>1, <1>2, NamedGrows
<1>5. Named(SubSeq(log, 1, durable), "delete") \subseteq Named(SubSeq(log, 1, durable'), "delete")
  BY <1>1, <1>2, NamedGrows
<1>6. kept' \subseteq Named(SubSeq(log, 1, durable'), "create")
  BY <1>4 DEF Books, Answered
<1>7. dropped' \subseteq Named(SubSeq(log, 1, durable'), "delete")
  BY <1>5 DEF Books, Answered
<1> QED
  BY <1>1, <1>2, <1>3, <1>6, <1>7 DEF Books, Stored, Recorded, Answered

LEMMA BooksGrow ==
    ASSUME Books, log' \in Seq(Changes), Len(log') >= Len(log), SubSeq(log', 1, Len(log)) = log,
           Good(log'), Past(log', now), now' = now, durable' = Len(log),
           kept' = kept, dropped' = dropped
    PROVE  Books'
<1>1. log \in Seq(Changes) /\ durable \in 0..Len(log) /\ now \in Nat /\ Len(log) \in Nat
      /\ Len(log') \in Nat
  BY DEF Books, Stored
<1>2. SubSeq(log, 1, Len(log)) = log
  BY <1>1, PrefixWhole
<1>3. durable \in Nat /\ Len(log) \in 0..Len(log) /\ durable <= Len(log)
  BY <1>1
<1>4. Named(SubSeq(log, 1, durable), "create") \subseteq Named(SubSeq(log, 1, Len(log)), "create")
  BY <1>1, <1>3, NamedGrows
<1>5. Named(SubSeq(log, 1, durable), "delete") \subseteq Named(SubSeq(log, 1, Len(log)), "delete")
  BY <1>1, <1>3, NamedGrows
<1>6. kept' \subseteq Named(SubSeq(log', 1, durable'), "create")
  BY <1>2, <1>4 DEF Books, Answered
<1>7. dropped' \subseteq Named(SubSeq(log', 1, durable'), "delete")
  BY <1>2, <1>5 DEF Books, Answered
<1>8. durable' \in 0..Len(log')
  BY <1>1
<1> QED
  BY <1>1, <1>6, <1>7, <1>8 DEF Books, Stored, Recorded, Answered

\* One more change that fits.
LEMMA BooksAppend ==
    ASSUME Books, NEW c \in Changes, Fits(log, c, now), log' = Append(log, c), now' = now,
           durable' = Len(log), kept' = kept, dropped' = dropped
    PROVE  Books'
<1>1. log \in Seq(Changes) /\ now \in Nat /\ Good(log) /\ Past(log, now)
  BY DEF Books, Stored, Recorded
<1>2. Good(Append(log, c)) /\ Past(Append(log, c), now)
  BY <1>1, GoodAppend
<1>3. log' \in Seq(Changes) /\ Len(log') = Len(log) + 1 /\ Len(log) \in Nat /\ Len(log) \in 0..Len(log)
  BY <1>1
<1>4. SubSeq(log', 1, Len(log)) = log
  BY <1>1, <1>3, PrefixOfAppend, PrefixWhole
<1>5. Len(log') >= Len(log)
  BY <1>3
<1> QED
  BY <1>2, <1>3, <1>4, <1>5, BooksGrow

\* What a batch adds.
LEMMA BooksRecord ==
    ASSUME Books, NEW batch, batch \subseteq DOMAIN Active(log), \A i \in batch : Active(log)[i] <= now,
           Records(Active(log), batch), now' = now, durable' = Len(log), kept' = kept, dropped' = dropped
    PROVE  Books' /\ log' # <<>>
<1> DEFINE l == log
<1> DEFINE a == Active(log)
<1> DEFINE s == SetToSeq(batch)
<1> DEFINE N == Cardinality(batch)
<1> DEFINE shown == Change("present", [i \in batch |-> Occurrence(a[i], now)])
<1> DEFINE d == Dispatches(batch)
<1>1. l \in Seq(Changes) /\ now \in Nat /\ Good(l) /\ Past(l, now) /\ Len(l) \in Nat
  BY DEF Books, Stored, Recorded
<1>2. a \in Instants
  BY <1>1, GoodNow DEF Sound, Accounted
<1>3. DOMAIN a \subseteq Reminders /\ \A i \in DOMAIN a : a[i] \in Nat
  BY <1>2, InstantsAre
<1>4. batch \subseteq Reminders /\ IsFiniteSet(batch)
  BY <1>3, FS_Subset, SchedulesAssumption DEF Reminders
<1>5. N \in Nat /\ s \in [1..N -> batch] /\ \A j, k \in 1..N : s[j] = s[k] => j = k
  BY <1>4, SetToSeqIs
<1>6. s \in Seq(batch) /\ Len(s) = N
  <2> HIDE DEF s, N
  <2> QED
    BY <1>5
<1>7. \A i \in batch : Occurrence(a[i], now) \in Nat
  BY <1>1, <1>3, OccurrenceIs
<1>8. shown \in Changes /\ shown.op = "present" /\ DOMAIN shown.of = batch
      /\ \A i \in batch : shown.of[i] = Occurrence(a[i], now)
  <2>1. shown = [op |-> "present", of |-> [i \in batch |-> Occurrence(a[i], now)]]
    BY DEF Change
  <2>2. shown.of \in [batch -> Nat] /\ batch \in SUBSET Reminders
    BY <1>4, <1>7, <2>1
  <2>3. shown.of \in Instants
    BY <2>2 DEF Instants
  <2> QED
    BY <2>1, <2>3 DEF Changes
<1>9. d = [k \in 1..N |-> Change("dispatch", [i \in {s[k]} |-> now])]
  BY DEF Dispatches
<1> HIDE DEF a, s, N, shown, d
<1>10. \A k \in 1..N : d[k] \in Changes /\ d[k].op = "dispatch" /\ DOMAIN d[k].of = {s[k]} /\ d[k].of[s[k]] = now
  <2> TAKE k \in 1..N
  <2>1. d[k] = [op |-> "dispatch", of |-> [i \in {s[k]} |-> now]]
    BY <1>9 DEF Change
  <2>2. s[k] \in Reminders
    BY <1>4, <1>5
  <2>3. d[k].of \in [{s[k]} -> Nat] /\ {s[k]} \in SUBSET Reminders
    BY <1>1, <2>1, <2>2
  <2>4. d[k].of \in Instants
    BY <2>3 DEF Instants
  <2> QED
    BY <2>1, <2>4 DEF Changes
<1>11. d \in Seq(Changes) /\ Len(d) = N
  <2>1. d = [k \in 1..N |-> d[k]]
    BY <1>9
  <2>2. d \in [1..N -> Changes]
    BY <1>10, <2>1
  <2> QED
    BY <1>5, <2>2
<1> DEFINE p == Append(l, shown)
<1>12. log' = p \o d
  <2>1. log' = (l \o <<shown>>) \o d
    BY DEF Records, a, shown, d
  <2>2. l \o <<shown>> = Append(l, shown)
    BY <1>1, <1>8
  <2> QED
    BY <2>1, <2>2
<1>13. p \in Seq(Changes) /\ Len(p) = Len(l) + 1 /\ p[Len(l) + 1] = shown /\ \A k \in 1..Len(l) : p[k] = l[k]
  BY <1>1, <1>8
<1> HIDE DEF p
<1> DEFINE m == p \o d
<1>14. m \in Seq(Changes) /\ Len(m) = Len(l) + 1 + N /\ (\A k \in 1..(Len(l) + 1) : m[k] = p[k])
       /\ \A k \in 1..N : m[Len(l) + 1 + k] = d[k]
  <2>1. m \in Seq(Changes) /\ Len(m) = Len(p) + Len(d)
    BY <1>11, <1>13
  <2>2. \A k \in 1..(Len(p) + Len(d)) : m[k] = IF k <= Len(p) THEN p[k] ELSE d[k - Len(p)]
    BY <1>11, <1>13
  <2>3. \A k \in 1..(Len(l) + 1) : k \in 1..(Len(p) + Len(d)) /\ k <= Len(p)
    BY <1>1, <1>5, <1>11, <1>13
  <2>4. \A k \in 1..N : /\ Len(l) + 1 + k \in 1..(Len(p) + Len(d)) /\ ~(Len(l) + 1 + k <= Len(p))
                        /\ (Len(l) + 1 + k) - Len(p) = k
    BY <1>1, <1>5, <1>11, <1>13
  <2> HIDE DEF m
  <2> QED
    BY <1>11, <1>13, <2>1, <2>2, <2>3, <2>4
<1> HIDE DEF m
<1>15. SubSeq(m, 1, Len(l)) = l
  <2> DEFINE q == SubSeq(m, 1, Len(l))
  <2>1. Len(l) \in 0..Len(m)
    BY <1>1, <1>5, <1>14
  <2>2. q \in Seq(Changes) /\ Len(q) = Len(l) /\ \A k \in 1..Len(l) : q[k] = m[k]
    BY <1>14, <2>1, PrefixIs
  <2>3. \A k \in 1..Len(l) : m[k] = l[k]
    BY <1>1, <1>13, <1>14
  <2> HIDE DEF q
  <2>4. q = l
    BY <1>1, <2>2, <2>3, SeqEqual
  <2> QED
    BY <2>4 DEF q
<1>16. Handles(m, l, now, batch, s)
  <2>1. batch \subseteq DOMAIN Active(l) /\ \A i \in batch : Active(l)[i] <= now
    OBVIOUS
  <2>2. Len(l) + 1 \in 1..(Len(l) + 1)
    BY <1>1
  <2>3. m[Len(l) + 1] = shown
    BY <1>13, <1>14, <2>2
  <2>4. \A i \in batch : shown.of[i] = Occurrence(Active(l)[i], now)
    BY <1>8 DEF a
  <2> HIDE DEF l
  <2>5. Len(m) = Len(l) + 1 + Len(s)
    BY <1>6, <1>14
  <2>6. s \in Seq(batch) /\ \A j, k \in 1..Len(s) : s[j] = s[k] => j = k
    BY <1>5, <1>6
  <2>7. \A k \in 1..Len(s) : /\ m[Len(l) + 1 + k].op = "dispatch" /\ DOMAIN m[Len(l) + 1 + k].of = {s[k]}
                             /\ m[Len(l) + 1 + k].of[s[k]] = now
    BY <1>6, <1>10, <1>14
  <2>8. /\ m[Len(l) + 1].op = "present" /\ DOMAIN m[Len(l) + 1].of = batch
        /\ \A i \in batch : m[Len(l) + 1].of[i] = Occurrence(Active(l)[i], now)
    BY <1>8, <2>3, <2>4
  <2> QED
    BY <1>15, <2>1, <2>5, <2>6, <2>7, <2>8 DEF Handles
<1>17. Good(m) /\ Past(m, now)
  BY <1>1, <1>14, <1>16, Batched
<1>18. Len(m) >= Len(l) /\ m # <<>>
  BY <1>1, <1>5, <1>14
<1> QED
  BY <1>12, <1>14, <1>15, <1>17, <1>18, BooksGrow DEF m

\* A creation whose id is new, or a deletion of what is active, fits.
LEMMA AppendsFits ==
    ASSUME Books, Appends(Head(queue).op), Calling
    PROVE  \E c \in Changes : /\ Fits(log, c, now) /\ log' = Append(log, c) /\ c.op = Head(queue).op
                              /\ c.op # "present" /\ c.op # "dispatch"
                              /\ c.op = "delete" => DOMAIN c.of = Subject
<1>1. now \in Nat
  BY DEF Books, Stored
<1>2. CASE Head(queue).op = "create"
  <2>1. PICK i \in Reminders \ Named(log, "create") : \E target \in FirstTargets(i) :
            log' = Append(log, Change("create", [j \in {i} |-> target]))
    BY <1>2 DEF Appends
  <2>2. PICK target \in FirstTargets(i) : log' = Append(log, Change("create", [j \in {i} |-> target]))
    BY <2>1
  <2>3. target \in Nat
    <3>1. LastInstant \in Nat /\ Interval \in Nat
      BY SchedulesAssumption
    <3> QED
      BY <1>1, <3>1 DEF FirstTargets
  <2> DEFINE c == Change("create", [j \in {i} |-> target])
  <2>4. c.op = "create" /\ DOMAIN c.of = {i} /\ c = [op |-> "create", of |-> [j \in {i} |-> target]]
    BY DEF Change
  <2>5. [j \in {i} |-> target] \in [{i} -> Nat] /\ {i} \in SUBSET Reminders
    BY <2>1, <2>3
  <2>6. [j \in {i} |-> target] \in Instants
    BY <2>5 DEF Instants
  <2>7. c \in Changes
    BY <2>4, <2>6 DEF Changes
  <2>8. Fits(log, c, now)
    BY <2>1, <2>4 DEF Fits
  <2> HIDE DEF c
  <2> QED
    BY <1>2, <2>2, <2>4, <2>7, <2>8 DEF c
<1>3. CASE Head(queue).op = "delete"
  <2>1. Subject \subseteq DOMAIN Active(log) /\ log' = Append(log, Change("delete", [i \in Subject |-> now]))
    BY <1>3 DEF Appends
  <2> DEFINE c == Change("delete", [i \in Subject |-> now])
  <2>2. c.op = "delete" /\ DOMAIN c.of = Subject /\ c = [op |-> "delete", of |-> [i \in Subject |-> now]]
    BY DEF Change
  <2>3. Subject \in SUBSET Reminders
    <3>1. Active(log) \in Instants
      BY GoodNow DEF Books, Stored, Recorded, Sound, Accounted
    <3> QED
      BY <2>1, <3>1, InstantsAre
  <2>4. [i \in Subject |-> now] \in [Subject -> Nat]
    BY <1>1
  <2>5. [i \in Subject |-> now] \in Instants
    BY <2>3, <2>4 DEF Instants
  <2>6. c \in Changes
    BY <2>2, <2>5 DEF Changes
  <2>7. Fits(log, c, now)
    BY <2>1, <2>2 DEF Fits
  <2> HIDE DEF c
  <2> QED
    BY <1>3, <2>1, <2>2, <2>6, <2>7 DEF c
<1> QED
  BY <1>2, <1>3 DEF Appends

LEMMA DueIsActive ==
    ASSUME NEW active, NEW batch \in Batches(active), now \in Nat, active \in Instants
    PROVE  batch \subseteq DOMAIN active /\ \A i \in batch : active[i] <= now
  BY DEF Batches, DueOnce, DueRepeating

LEMMA BooksInit == Init => Books
<1> SUFFICES ASSUME Init PROVE Books
  OBVIOUS
<1>1. log = <<>> /\ log \in Seq(Changes) /\ Len(log) = 0 /\ durable \in 0..0 /\ now \in Nat
  BY DEF Init
<1>2. Good(log)
  BY <1>1, GoodEmpty
<1>3. Past(log, now)
  BY <1>1 DEF Past
<1> QED
  BY <1>1, <1>2, <1>3 DEF Init, Books, Stored, Recorded, Answered

\* A step that flushes or leaves the log alone.
LEMMA BooksLeft == ASSUME Books, log' = log, now' = now, durable' \in {durable, Len(log)}, UNCHANGED answers PROVE Books'
  BY BooksKept DEF answers, Books, Stored

LEMMA BooksDriving == ASSUME Books, Driving PROVE Books'
<1>1. CASE DriveStarts
  BY <1>1, BooksLeft DEF DriveStarts
<1>2. CASE DriveMisses
  BY <1>2, BooksLeft DEF DriveMisses, FlushFails
<1>3. CASE DriveDecides
  <2>1. now' = now /\ durable' = Len(log) /\ kept' = kept /\ dropped' = dropped
    BY <1>3 DEF DriveDecides, Flushed, answers
  <2>2. CASE log' = log
    BY <2>1, <2>2, BooksLeft DEF answers
  <2>3. CASE \E batch \in Batches(Active(log)) : Records(Active(log), batch)
    <3>1. PICK batch \in Batches(Active(log)) : Records(Active(log), batch)
      BY <2>3
    <3>2. now \in Nat /\ Active(log) \in Instants
      BY GoodNow DEF Books, Stored, Recorded, Sound, Accounted
    <3>3. batch \subseteq DOMAIN Active(log) /\ \A i \in batch : Active(log)[i] <= now
      BY <3>2, DueIsActive
    <3> QED
      BY <2>1, <3>1, <3>3, BooksRecord
  <2> QED
    BY <1>3, <2>2, <2>3 DEF DriveDecides, Arms, WaitsForIdle, Claims
<1>4. CASE MaintenanceEnds
  BY <1>4, BooksLeft DEF MaintenanceEnds
<1>5. CASE DriveSettles
  BY <1>5, BooksLeft DEF DriveSettles, Flushed, FlushFails
<1>6. CASE RunLoops
  BY <1>6, BooksLeft DEF RunLoops
<1>7. CASE Retire
  BY <1>7, BooksLeft DEF Retire
<1> QED
  BY <1>1, <1>2, <1>3, <1>4, <1>5, <1>6, <1>7 DEF Driving

\* The answer of a call at its barrier is about the last change, which is in the store.
LEMMA BooksCallSettles == ASSUME Books, Writing, CallSettles PROVE Books'
<1>1. log' = log /\ now' = now /\ durable' = Len(log)
      /\ kept' = kept \cup (IF Running("create") THEN DOMAIN Last(log).of ELSE {})
      /\ dropped' = dropped \cup (IF Running("delete") THEN Subject ELSE {})
  BY DEF CallSettles, Barrier, Flushed
<1>2. log # <<>> /\ log[Len(log)].op = Head(queue).op /\ (Running("delete") => DOMAIN log[Len(log)].of = Subject)
  BY DEF CallSettles, Writing
<1>3. log \in Seq(Changes) /\ durable \in 0..Len(log) /\ now \in Nat /\ Len(log) \in Nat
  BY DEF Books, Stored
<1>4. SubSeq(log, 1, Len(log)) = log
  BY <1>3, PrefixWhole
<1>5. durable \in Nat /\ Len(log) \in 0..Len(log) /\ durable <= Len(log)
  BY <1>3
<1>6. Named(SubSeq(log, 1, durable), "create") \subseteq Named(SubSeq(log, 1, Len(log)), "create")
  BY <1>3, <1>5, NamedGrows
<1>7. Named(SubSeq(log, 1, durable), "delete") \subseteq Named(SubSeq(log, 1, Len(log)), "delete")
  BY <1>3, <1>5, NamedGrows
<1>8. Len(log) \in 1..Len(log)
  BY <1>2, <1>3
<1>9. \A op, i : log[Len(log)].op = op /\ i \in DOMAIN log[Len(log)].of => i \in Named(log, op)
  BY <1>3, <1>8, NamedIs
<1>10. kept' \subseteq Named(log, "create")
  <2>1. kept \subseteq Named(log, "create")
    BY <1>4, <1>6 DEF Books, Answered
  <2>2. Running("create") => DOMAIN Last(log).of \subseteq Named(log, "create")
    BY <1>2, <1>9 DEF Running, Last
  <2> QED
    BY <1>1, <2>1, <2>2
<1>11. dropped' \subseteq Named(log, "delete")
  <2>1. dropped \subseteq Named(log, "delete")
    BY <1>4, <1>7 DEF Books, Answered
  <2>2. Running("delete") => Subject \subseteq Named(log, "delete")
    BY <1>2, <1>9 DEF Running
  <2> QED
    BY <1>1, <2>1, <2>2
<1>12. Stored' /\ Recorded' 
  BY <1>1, <1>3 DEF Books, Stored, Recorded
<1>13. Answered'
  BY <1>1, <1>4, <1>10, <1>11 DEF Answered
<1> QED
  BY <1>12, <1>13 DEF Books

LEMMA BooksCrash == ASSUME Books, Crash PROVE Books'
<1>1. PICK n \in durable..Len(log) : log' = SubSeq(log, 1, n) /\ durable' = n
  BY DEF Crash
<1>2. now' = now /\ kept' = kept /\ dropped' = dropped
  BY DEF Crash, answers
<1>3. log \in Seq(Changes) /\ durable \in 0..Len(log) /\ now \in Nat /\ Good(log) /\ Past(log, now)
  BY DEF Books, Stored, Recorded
<1>4. n \in 0..Len(log) /\ durable \in Nat /\ durable <= n
  BY <1>1, <1>3
<1>5. log' \in Seq(Changes) /\ Len(log') = n
  BY <1>1, <1>3, <1>4, PrefixIs
<1>6. Good(log') /\ Past(log', now)
  BY <1>1, <1>3, <1>4, GoodPrefix, PastPrefix
<1>7. n \in 0..n
  BY <1>4
<1>8. SubSeq(log', 1, durable') = SubSeq(log, 1, n)
  BY <1>1, <1>3, <1>4, <1>7, PrefixOfPrefix
<1>9. Named(SubSeq(log, 1, durable), "create") \subseteq Named(SubSeq(log, 1, n), "create")
  BY <1>3, <1>4, NamedGrows
<1>10. Named(SubSeq(log, 1, durable), "delete") \subseteq Named(SubSeq(log, 1, n), "delete")
  BY <1>3, <1>4, NamedGrows
<1>11. Answered'
  BY <1>2, <1>8, <1>9, <1>10 DEF Books, Answered
<1> QED
  BY <1>1, <1>2, <1>3, <1>5, <1>6, <1>7, <1>11 DEF Books, Stored, Recorded

LEMMA BooksNext == ASSUME Books, Writing, [Next]_vars PROVE Books'
<1>1. CASE Driving
  BY <1>1, BooksDriving
<1>2. CASE TimerFires
  BY <1>2, BooksLeft DEF TimerFires
<1>3. CASE IdleWaitEnds
  BY <1>3, BooksLeft DEF IdleWaitEnds
<1>4. CASE Call
  BY <1>4, BooksLeft DEF Call
<1>5. CASE CallStarts
  BY <1>5, BooksLeft DEF CallStarts
<1>6. CASE CallUncertain
  BY <1>6, BooksLeft DEF CallUncertain, FlushFails
<1>7. CASE CallProceeds
  <2>1. now' = now /\ durable' = Len(log) /\ kept' = kept /\ dropped' = dropped /\ Calling
    BY <1>7 DEF CallProceeds, Flushed, answers
  <2>2. CASE log' = log
    BY <2>1, <2>2, BooksLeft DEF answers
  <2>3. CASE Appends(Head(queue).op)
    BY <2>1, <2>3, AppendsFits, BooksAppend
  <2> QED
    BY <1>7, <2>2, <2>3 DEF CallProceeds
<1>8. CASE CallSettles
  BY <1>8, BooksCallSettles
<1>9. CASE TurnStarts
  BY <1>9, BooksLeft DEF TurnStarts
<1>10. CASE Cancel
  BY <1>10, BooksLeft DEF Cancel
<1>11. CASE TurnEnds
  BY <1>11, BooksLeft DEF TurnEnds
<1>12. CASE Tick
  <2>1. log' = log /\ durable' = durable /\ kept' = kept /\ dropped' = dropped /\ now' = now + 1
    BY <1>12 DEF Tick, answers
  <2>2. now \in Nat
    BY DEF Books, Stored
  <2> QED
    BY <2>1, <2>2, BooksKept
<1>13. CASE Dispose
  BY <1>13, BooksLeft DEF Dispose
<1>14. CASE Disposed
  BY <1>14, BooksLeft DEF Disposed
<1>15. CASE Crash
  BY <1>15, BooksCrash
<1>16. CASE Resume
  BY <1>16, BooksLeft DEF Resume
<1>17. CASE UNCHANGED vars
  BY <1>17, BooksLeft DEF vars
<1> QED
  BY <1>1, <1>2, <1>3, <1>4, <1>5, <1>6, <1>7, <1>8, <1>9, <1>10, <1>11, <1>12, <1>13, <1>14, <1>15, <1>16, <1>17
     DEF Next, CallSteps

-----------------------------------------------------------------------------
(* The queue of transactions, the run and its triggers.                    *)

LEMMA TailOf ==
    ASSUME NEW q \in Seq(Transactions), q # <<>>, NEW r, OneDriveIn(q, r)
    PROVE  /\ Head(q) \in Transactions /\ Head(q) = q[1] /\ Tail(q) \in Seq(Transactions)
           /\ OneDriveIn(Tail(q), r)
           /\ Head(q).op = "drive" => \A r2 : OneDriveIn(Tail(q), r2)
<1> DEFINE p == Tail(q)
<1>1. /\ Head(q) \in Transactions /\ Head(q) = q[1] /\ p \in Seq(Transactions)
      /\ Len(p) \in Nat /\ Len(q) = Len(p) + 1 /\ \A k \in 1..Len(p) : p[k] = q[k + 1]
  OBVIOUS
<1> HIDE DEF p
<1>2. \A k \in 1..Len(p) : p[k] = q[k + 1] /\ k + 1 \in 1..Len(q) /\ k + 1 # 1 /\ 1 \in 1..Len(q)
  BY <1>1
<1>3. \A j, k \in 1..Len(p) : p[j].op = "drive" /\ p[k].op = "drive" => j = k
  <2> TAKE j, k \in 1..Len(p)
  <2> HAVE p[j].op = "drive" /\ p[k].op = "drive"
  <2>1. j + 1 = k + 1
    BY <1>2 DEF OneDriveIn
  <2> QED
    BY <1>1, <2>1
<1>4. OneDriveIn(p, r)
  BY <1>2, <1>3 DEF OneDriveIn
<1>5. ASSUME Head(q).op = "drive", NEW r2 PROVE OneDriveIn(p, r2)
  BY <1>1, <1>2, <1>3, <1>5 DEF OneDriveIn
<1> QED
  BY <1>1, <1>4, <1>5 DEF p

LEMMA AppendOf ==
    ASSUME NEW q \in Seq(Transactions), NEW x \in Transactions, NEW r, OneDriveIn(q, r)
    PROVE  /\ Append(q, x) \in Seq(Transactions) /\ Append(q, x) # <<>>
           /\ q # <<>> => Head(Append(q, x)) = Head(q)
           /\ q = <<>> => Head(Append(q, x)) = x
           /\ x.op # "drive" => OneDriveIn(Append(q, x), r)
           /\ r # "queued" => OneDriveIn(Append(q, x), "queued")
<1> DEFINE p == Append(q, x)
<1>1. /\ p \in Seq(Transactions) /\ p # <<>> /\ Len(q) \in Nat /\ Len(p) = Len(q) + 1
      /\ p[Len(q) + 1] = x /\ \A k \in 1..Len(q) : p[k] = q[k]
  OBVIOUS
<1>2. (q # <<>> => Head(p) = Head(q)) /\ (q = <<>> => Head(p) = x)
  OBVIOUS
<1> HIDE DEF p
<1>3. \A k \in 1..Len(p) : k \in 1..Len(q) \/ k = Len(q) + 1
  BY <1>1
<1>4. ASSUME x.op # "drive" PROVE OneDriveIn(p, r)
  BY <1>1, <1>3, <1>4 DEF OneDriveIn
<1>5. ASSUME r # "queued" PROVE OneDriveIn(p, "queued")
  <2>1. \A k \in 1..Len(q) : q[k].op # "drive"
    BY <1>5 DEF OneDriveIn
  <2> QED
    BY <1>1, <1>3, <2>1 DEF OneDriveIn
<1> QED
  BY <1>1, <1>2, <1>4, <1>5 DEF p

LEMMA DriveIs == Drive \in Transactions /\ Drive.op = "drive"
  BY DEF Drive, Transaction, Transactions

\* A running drive is the run's.
LEMMA DriveRuns == ASSUME Order, Running("drive") PROVE run = "queued"
<1>1. queue \in Seq(Transactions) /\ queue # <<>> /\ queue[1].op = "drive" /\ 1 \in 1..Len(queue)
  BY DEF Order, Queued, Running
<1> QED
  BY <1>1 DEF Order, OneDriveIn

\* A trigger, with a queue of which the run is known.
LEMMA Requests ==
    ASSUME NEW q \in Seq(Transactions), NEW r, OneDriveIn(q, r), requested \in BOOLEAN, RequestDrive(q, r)
    PROVE  /\ queue' \in Seq(Transactions) /\ requested' \in BOOLEAN /\ OneDriveIn(queue', run')
           /\ q # <<>> => queue' # <<>> /\ Head(queue') = Head(q)
           /\ q = <<>> /\ queue' # <<>> => Head(queue') = Drive
           /\ mode = "live" => run' # "none" /\ (run' = "queued" \/ requested')
           /\ mode = "live" /\ r # "none" => requested' /\ run' = r
           /\ mode # "live" => queue' = q /\ run' = r
<1>1. CASE mode # "live"
  BY <1>1 DEF RequestDrive
<1>2. CASE mode = "live" /\ r = "none"
  <2>1. queue' = Append(q, Drive) /\ run' = "queued" /\ requested' = FALSE
    BY <1>2 DEF RequestDrive
  <2>2. /\ Append(q, Drive) \in Seq(Transactions) /\ Append(q, Drive) # <<>>
        /\ (q # <<>> => Head(Append(q, Drive)) = Head(q)) /\ (q = <<>> => Head(Append(q, Drive)) = Drive)
        /\ OneDriveIn(Append(q, Drive), "queued")
    BY <1>2, DriveIs, AppendOf
  <2> QED
    BY <1>2, <2>1, <2>2
<1>3. CASE mode = "live" /\ r # "none"
  BY <1>3 DEF RequestDrive
<1> QED
  BY <1>1, <1>2, <1>3

\* A trigger that leaves the transactions where they are.
LEMMA OrderPrompted ==
    ASSUME Order, RequestDrive(queue, run), step' = step, mode' = mode, idleWait' \in BOOLEAN,
           phase' = "maintenance" => phase = "maintenance", mode' = "down" => phase' = phase,
           log' = log, deferred' = deferred
    PROVE  Order'
<1>1. queue \in Seq(Transactions) /\ OneDriveIn(queue, run) /\ requested \in BOOLEAN
  BY DEF Order, Queued
<1>2. /\ queue' \in Seq(Transactions) /\ requested' \in BOOLEAN /\ OneDriveIn(queue', run')
      /\ queue # <<>> => queue' # <<>> /\ Head(queue') = Head(queue)
      /\ queue = <<>> /\ queue' # <<>> => Head(queue') = Drive
      /\ mode = "live" => run' # "none" /\ (run' = "queued" \/ requested')
      /\ mode = "live" /\ run # "none" => requested' /\ run' = run
      /\ mode # "live" => queue' = queue /\ run' = run
  BY <1>1, Requests
<1>3. Queued' /\ OneDriveIn(queue, run)'
  BY <1>2 DEF Queued
<1>4. Writing'
  <2> SUFFICES ASSUME Calling', step' = "barrier" PROVE Writing'
    BY DEF Writing
  <2>1. queue # <<>>
    BY DEF Order, Placed
  <2>2. Calling /\ Head(queue') = Head(queue) /\ log' = log
    BY <1>2, <2>1 DEF Calling
  <2> QED
    BY <2>2, <1>2, <2>1 DEF Order, Writing, Calling, Running, Subject
<1>5. Placed'
  <2>1. queue' = <<>> => step' = "start"
    BY <1>2 DEF Order, Placed
  <2>2. phase' = "maintenance" => (Running("drive"))' /\ step' \in {"claimed", "refused"}
    BY <1>2 DEF Order, Placed, Running
  <2>3. mode' = "down" => queue' = <<>> /\ run' = "none" /\ phase' = "idle"
    BY <1>2 DEF Order, Placed
  <2> QED
    BY <2>1, <2>2, <2>3 DEF Placed
<1>6. Triggered'
  <2>1. ASSUME mode' = "live", (Running("drive"))', step' = "barrier" PROVE requested'
    <3>1. queue # <<>>
      BY <2>1 DEF Order, Placed
    <3>2. Running("drive")
      BY <1>2, <2>1, <3>1 DEF Running
    <3> QED
      BY <1>2, <2>1, <3>2, DriveRuns
  <2>2. (Running("drive"))' /\ step' \in {"claimed", "barrier"} => log' # <<>>
    BY <1>2 DEF Order, Placed, Triggered, Running
  <2>3. deferred' = "record" => log' # <<>>
    BY DEF Order, Triggered
  <2> QED
    BY <1>2, <2>1, <2>2, <2>3 DEF Triggered
<1> QED
  BY <1>3, <1>4, <1>5, <1>6 DEF Order

\* The first transaction ends, with a trigger.
LEMMA OrderPassed ==
    ASSUME Order, queue # <<>>, NEW r, RequestDrive(Tail(queue), r), r = run \/ Running("drive"),
           step' = "start", mode' = mode, idleWait' = idleWait,
           phase' = "maintenance" => phase = "maintenance" /\ ~Running("drive"),
           log' = log, deferred' = deferred
    PROVE  Order'
<1>1. queue \in Seq(Transactions) /\ OneDriveIn(queue, run) /\ requested \in BOOLEAN /\ idleWait \in BOOLEAN
  BY DEF Order, Queued
<1>2. Tail(queue) \in Seq(Transactions) /\ OneDriveIn(Tail(queue), r)
  BY <1>1, TailOf DEF Running
<1> DEFINE q == Tail(queue)
<1>3. q \in Seq(Transactions) /\ OneDriveIn(q, r) /\ RequestDrive(q, r)
  BY <1>2
<1> HIDE DEF q
<1>4. /\ queue' \in Seq(Transactions) /\ requested' \in BOOLEAN /\ OneDriveIn(queue', run')
      /\ mode = "live" => run' # "none" /\ (run' = "queued" \/ requested')
  BY <1>1, <1>3, Requests
<1>5. Queued' /\ OneDriveIn(queue, run)'
  BY <1>1, <1>4 DEF Queued
<1>6. Writing'
  BY DEF Writing
<1>7. mode # "down"
  BY DEF Order, Placed
<1>8. phase' # "maintenance"
  BY DEF Order, Placed
<1>9. Placed'
  BY <1>7, <1>8 DEF Placed
<1>10. Triggered'
  BY <1>4 DEF Order, Triggered
<1> QED
  BY <1>5, <1>6, <1>9, <1>10 DEF Order

\* A trigger from the call that runs, which goes on.
LEMMA OrderRaised ==
    ASSUME Order, Calling, RequestDrive(queue, run), mode' = mode, idleWait' = idleWait,
           phase' # "maintenance", log' # <<>>,
           step' = "barrier" =>
               /\ log'[Len(log')].op = Head(queue).op
               /\ Running("delete") => DOMAIN log'[Len(log')].of = Subject
    PROVE  Order'
<1>1. queue \in Seq(Transactions) /\ OneDriveIn(queue, run) /\ requested \in BOOLEAN /\ idleWait \in BOOLEAN
      /\ queue # <<>>
  BY DEF Order, Queued, Calling
<1>2. /\ queue' \in Seq(Transactions) /\ requested' \in BOOLEAN /\ OneDriveIn(queue', run')
      /\ queue' # <<>> /\ Head(queue') = Head(queue)
      /\ mode = "live" => run' # "none" /\ (run' = "queued" \/ requested')
      /\ mode = "live" /\ run # "none" => requested'
  BY <1>1, Requests
<1>3. Queued' /\ OneDriveIn(queue, run)'
  BY <1>1, <1>2 DEF Queued
<1>4. Writing'
  BY <1>2 DEF Writing, Calling, Running, Subject
<1>5. Placed'
  BY <1>1, <1>2 DEF Order, Placed
<1>6. Triggered'
  <2>1. ~(Running("drive"))'
    BY <1>2 DEF Calling, Running
  <2> QED
    BY <1>2, <2>1 DEF Triggered
<1> QED
  BY <1>3, <1>4, <1>5, <1>6 DEF Order

\* A drive ends without a trigger, and the timer is armed or has no need to be.
LEMMA OrderDriveEnds ==
    ASSUME Order, Running("drive"), DriveEnds, mode' = mode,
           idleWait' \in BOOLEAN, phase' # "maintenance", deferred' = "record" => log' # <<>>,
           mode = "live" /\ Attended' /\ ~idleWait' /\ ~requested => timer' = Earliest(Active(log'))
    PROVE  Order'
<1>1. queue \in Seq(Transactions) /\ queue # <<>> /\ OneDriveIn(queue, run) /\ requested \in BOOLEAN
      /\ Head(queue).op = "drive"
  BY DEF Order, Queued, Running
<1>2. queue' = Tail(queue) /\ step' = "start" /\ run' = "returned" /\ requested' = requested
  BY DEF DriveEnds, Ends
<1>3. Tail(queue) \in Seq(Transactions) /\ OneDriveIn(Tail(queue), "returned")
  BY <1>1, TailOf
<1>4. Queued' /\ OneDriveIn(queue, run)'
  BY <1>1, <1>2, <1>3 DEF Queued
<1>5. Writing'
  BY <1>2 DEF Writing
<1>6. Placed'
  BY <1>1, <1>2 DEF Order, Placed
<1>7. Triggered'
  BY <1>2 DEF Triggered
<1> QED
  BY <1>4, <1>5, <1>6, <1>7 DEF Order

\* A call ends without a trigger.
LEMMA OrderCallEnds ==
    ASSUME Order, Calling, CallEnds,
           UNCHANGED <<log, mode, phase, idleWait, deferred>>
    PROVE  Order'
<1>1. queue \in Seq(Transactions) /\ queue # <<>> /\ OneDriveIn(queue, run) /\ requested \in BOOLEAN
      /\ idleWait \in BOOLEAN /\ Head(queue).op # "drive"
  BY DEF Order, Queued, Calling
<1>2. queue' = Tail(queue) /\ step' = "start" /\ run' = run /\ requested' = requested /\ timer' = timer
  BY DEF CallEnds, Ends, runtime
<1>3. Tail(queue) \in Seq(Transactions) /\ OneDriveIn(Tail(queue), run)
  BY <1>1, TailOf
<1>4. Queued' /\ OneDriveIn(queue, run)'
  BY <1>1, <1>2, <1>3 DEF Queued
<1>5. Writing'
  BY <1>2 DEF Writing
<1>6. Placed'
  BY <1>1, <1>2 DEF Order, Placed, Running
<1>7. Triggered'
  BY <1>2 DEF Order, Triggered, Attended
<1> QED
  BY <1>4, <1>5, <1>6, <1>7 DEF Order

\* A transaction starts, or something else moves.
LEMMA OrderKept ==
    ASSUME Order, UNCHANGED <<log, runtime, idleWait, queue, deferred>>,
           step' = step \/ (queue # <<>> /\ phase # "maintenance" /\ step' = "preflight"),
           phase' = phase \/ phase' = "running" \/ (phase' = "idle" /\ log = <<>>),
           mode' = "live" => mode = "live",
           mode' = "down" => mode = "down" /\ phase' = phase
    PROVE  Order'
<1>1. log' = log /\ queue' = queue /\ run' = run /\ requested' = requested /\ timer' = timer
      /\ idleWait' = idleWait /\ deferred' = deferred
  BY DEF runtime
<1>2. Queued' /\ OneDriveIn(queue, run)'
  BY <1>1 DEF Order, Queued, OneDriveIn
<1>3. Writing'
  BY <1>1 DEF Order, Writing, Calling, Running, Subject
<1>4. Placed'
  BY <1>1 DEF Order, Placed, Running
<1>5. Triggered'
  BY <1>1 DEF Order, Triggered, Attended, Running
<1> QED
  BY <1>2, <1>3, <1>4, <1>5 DEF Order

\* The run goes on, and may queue its next drive.
LEMMA OrderRuns ==
    ASSUME Order, run \notin {"none", "queued"}, UNCHANGED <<log, mode, phase, timer, idleWait, step, deferred>>,
           \/ queue' = queue /\ run' = "settling" /\ requested' = requested
           \/ queue' = queue /\ run' = "none" /\ requested' = requested /\ ~requested
           \/ queue' = Append(queue, Drive) /\ run' = "queued" /\ requested' \in BOOLEAN
    PROVE  Order'
<1>1. queue \in Seq(Transactions) /\ OneDriveIn(queue, run) /\ requested \in BOOLEAN /\ idleWait \in BOOLEAN
  BY DEF Order, Queued
<1>2. ~Running("drive")
  BY DriveRuns
<1>3. CASE queue' = queue /\ run' # "queued" /\ requested' = requested /\ (run' = "none" => ~requested)
  <2>1. OneDriveIn(queue', run')
    BY <1>1, <1>3 DEF OneDriveIn
  <2>2. Writing'
    BY <1>3 DEF Order, Writing, Calling, Running, Subject
  <2>3. Placed'
    BY <1>2, <1>3 DEF Order, Placed, Running
  <2>4. Triggered'
    BY <1>3, <1>2 DEF Order, Triggered, Attended, Running
  <2> QED
    BY <1>1, <1>3, <2>1, <2>2, <2>3, <2>4 DEF Order, Queued
<1>4. CASE queue' = Append(queue, Drive) /\ run' = "queued" /\ requested' \in BOOLEAN
  <2>1. /\ queue' \in Seq(Transactions) /\ queue' # <<>> /\ OneDriveIn(queue', run')
        /\ (queue # <<>> => Head(queue') = Head(queue)) /\ (queue = <<>> => Head(queue') = Drive)
    BY <1>1, <1>4, DriveIs, AppendOf
  <2>2. Writing'
    <3> SUFFICES ASSUME Calling', step' = "barrier" PROVE Writing'
      BY DEF Writing
    <3>1. queue # <<>>
      BY DEF Order, Placed
    <3> QED
      BY <2>1, <3>1 DEF Order, Writing, Calling, Running, Subject
  <2>3. Placed'
    BY <1>2, <2>1 DEF Order, Placed, Running
  <2>4. Triggered'
    <3>1. queue = <<>> => step' = "start"
      BY DEF Order, Placed
    <3>2. ~(Running("drive") /\ step \in {"claimed", "barrier"})'
      BY <1>2, <2>1, <3>1 DEF Running
    <3> QED
      BY <1>4, <3>2 DEF Order, Triggered
  <2> QED
    BY <1>1, <1>4, <2>1, <2>2, <2>3, <2>4 DEF Order, Queued
<1> QED
  BY <1>3, <1>4

LEMMA OrderInit == Init => Order
<1> SUFFICES ASSUME Init PROVE Order
  OBVIOUS
<1>1. queue = <<Drive>> /\ run = "queued" /\ step = "start" /\ mode = "live" /\ phase = "idle"
      /\ requested = FALSE /\ idleWait = FALSE /\ deferred = "none"
  BY DEF Init
<1>2. queue \in Seq(Transactions) /\ Len(queue) = 1 /\ queue # <<>>
  BY <1>1, DriveIs
<1>3. OneDriveIn(queue, run)
  BY <1>1, <1>2 DEF OneDriveIn
<1> QED
  BY <1>1, <1>2, <1>3 DEF Order, Queued, Writing, Placed, Triggered

\* The agent is kept and a batch or a refusal awaits the end of its maintenance.
LEMMA OrderClaims ==
    ASSUME Order, Running("drive"), mode = "live", Claims(Active(log)), mode' = mode,
           deferred' = "none", step' = "claimed" => log' # <<>>
    PROVE  Order'
<1>1. queue' = queue /\ run' = run /\ requested' = requested /\ idleWait' = idleWait
      /\ phase' = "maintenance" /\ step' \in {"claimed", "refused"}
  BY DEF Claims, runtime
<1>2. run = "queued"
  BY DriveRuns
<1>3. Queued' /\ OneDriveIn(queue, run)'
  BY <1>1 DEF Order, Queued, OneDriveIn
<1>4. Writing'
  BY <1>1 DEF Writing
<1>5. Placed'
  BY <1>1 DEF Placed, Running
<1>6. Triggered'
  BY <1>1, <1>2 DEF Triggered
<1> QED
  BY <1>3, <1>4, <1>5, <1>6 DEF Order

LEMMA OrderDriving == ASSUME Books, Order, Driving PROVE Order'
<1>1. CASE DriveStarts
  <2>1. Running("drive") /\ step = "start" /\ timer' = Never
        /\ UNCHANGED <<log, mode, phase, idleWait, deferred>> /\ phase # "maintenance"
    BY <1>1 DEF DriveStarts, Order, Placed
  <2>2. CASE mode = "live"
    <3>1. step' = "preflight" /\ queue' = queue /\ run' = run /\ requested' = requested
      BY <1>1, <2>2 DEF DriveStarts
    <3>2. run = "queued"
      BY <2>1, DriveRuns
    <3>3. Queued' /\ OneDriveIn(queue, run)'
      BY <2>1, <3>1 DEF Order, Queued, OneDriveIn
    <3>4. Writing' /\ Placed'
      BY <2>1, <3>1 DEF Order, Writing, Placed, Running
    <3>5. Triggered'
      BY <2>1, <3>1, <3>2 DEF Order, Triggered
    <3> QED
      BY <3>3, <3>4, <3>5 DEF Order
  <2>3. CASE mode # "live"
    <3>1. DriveEnds
      BY <1>1, <2>3 DEF DriveStarts
    <3>2. idleWait \in BOOLEAN /\ (deferred' = "record" => log' # <<>>)
      BY <2>1 DEF Order, Queued, Triggered
    <3> QED
      BY <2>1, <2>3, <3>1, <3>2, OrderDriveEnds
  <2> QED
    BY <2>2, <2>3
<1>2. CASE DriveMisses
  <2>1. Running("drive") /\ step = "preflight" /\ DriveEnds /\ deferred' = "preflight"
        /\ UNCHANGED <<mode, phase, idleWait>> /\ phase # "maintenance"
    BY <1>2 DEF DriveMisses, Order, Placed
  <2>2. idleWait \in BOOLEAN
    BY DEF Order, Queued
  <2> QED
    BY <2>1, <2>2, OrderDriveEnds DEF Attended
<1>3. CASE DriveDecides
  <2>1. Running("drive") /\ step = "preflight" /\ mode' = mode /\ deferred' = "none"
        /\ phase # "maintenance"
    BY <1>3 DEF DriveDecides, Order, Placed
  <2>2. idleWait \in BOOLEAN
    BY DEF Order, Queued
  <2>3. CASE mode # "live" /\ DriveEnds /\ UNCHANGED <<log, phase, timer, idleWait, failures>>
    BY <2>1, <2>2, <2>3, OrderDriveEnds
  <2>4. CASE Arms(Active(log))
    <3>1. timer' = Earliest(Active(log)) /\ DriveEnds /\ log' = log /\ phase' = phase /\ idleWait' = idleWait
      BY <2>4 DEF Arms
    <3>2. timer' = Earliest(Active(log'))
      BY <3>1
    <3> QED
      BY <2>1, <2>2, <3>1, <3>2, OrderDriveEnds
  <2>5. CASE WaitsForIdle
    <3>1. idleWait' = TRUE /\ DriveEnds /\ phase' = phase
      BY <2>5 DEF WaitsForIdle
    <3> QED
      BY <2>1, <3>1, OrderDriveEnds
  <2>6. CASE mode = "live" /\ Claims(Active(log))
    <3>1. CASE step' = "refused"
      BY <2>1, <2>6, <3>1, OrderClaims
    <3>2. CASE \E batch \in Batches(Active(log)) : Records(Active(log), batch)
      <4>1. PICK batch \in Batches(Active(log)) : Records(Active(log), batch)
        BY <3>2
      <4>2. now \in Nat /\ Active(log) \in Instants
        BY GoodNow DEF Books, Stored, Recorded, Sound, Accounted
      <4>3. batch \subseteq DOMAIN Active(log) /\ \A i \in batch : Active(log)[i] <= now
        BY <4>2, DueIsActive
      <4>4. now' = now /\ durable' = Len(log) /\ kept' = kept /\ dropped' = dropped
        BY <1>3 DEF DriveDecides, Flushed, answers
      <4>5. log' # <<>>
        BY <4>1, <4>3, <4>4, BooksRecord
      <4> QED
        BY <2>1, <2>6, <4>5, OrderClaims
    <3> QED
      BY <2>6, <3>1, <3>2 DEF Claims
  <2> QED
    BY <1>3, <2>3, <2>4, <2>5, <2>6 DEF DriveDecides
<1>4. CASE MaintenanceEnds
  <2>1. /\ Running("drive") /\ queue # <<>> /\ run = "queued" /\ mode # "down"
        /\ UNCHANGED <<log, mode, idleWait>>
    BY <1>4, DriveRuns DEF MaintenanceEnds, Order, Placed, Running
  <2>2. CASE step = "claimed"
    <3>1. /\ phase' = "running" /\ step' = "barrier" /\ UNCHANGED <<queue, run, requested, deferred>>
      BY <1>4, <2>2 DEF MaintenanceEnds
    <3>2. Queued' /\ OneDriveIn(queue, run)'
      BY <2>1, <3>1 DEF Order, Queued, OneDriveIn
    <3>3. Writing' /\ Placed'
      BY <2>1, <3>1 DEF Writing, Placed, Calling, Running
    <3>4. Triggered'
      BY <2>1, <2>2, <3>1 DEF Order, Triggered, Running
    <3> QED
      BY <3>2, <3>3, <3>4 DEF Order
  <2>3. CASE step = "refused"
    <3>1. phase' = "idle" /\ DriveEnds /\ deferred' = "handover"
      BY <1>4, <2>3 DEF MaintenanceEnds
    <3>2. idleWait \in BOOLEAN
      BY DEF Order, Queued
    <3> QED
      BY <2>1, <3>1, <3>2, OrderDriveEnds DEF Attended
  <2> QED
    BY <1>4, <2>2, <2>3 DEF MaintenanceEnds
<1>5. CASE DriveSettles
  <2>1. /\ Running("drive") /\ queue # <<>> /\ step = "barrier" /\ phase # "maintenance"
        /\ UNCHANGED <<log, mode, phase, idleWait>>
    BY <1>5 DEF DriveSettles, Running, Order, Placed
  <2>2. CASE RequestDrive(Tail(queue), "returned") /\ step' = "start" /\ deferred' = deferred
    BY <2>1, <2>2, OrderPassed
  <2>3. CASE deferred' = "record" /\ DriveEnds
    <3>1. mode = "live" /\ phase' = "idle" => requested
      BY <2>1 DEF Order, Triggered
    <3>2. idleWait \in BOOLEAN /\ log' # <<>>
      BY <2>1 DEF Order, Queued, Triggered
    <3> QED
      BY <2>1, <2>3, <3>1, <3>2, OrderDriveEnds DEF Attended
  <2> QED
    BY <1>5, <2>2, <2>3 DEF DriveSettles
<1>6. CASE RunLoops
  BY <1>6, OrderRuns DEF RunLoops
<1>7. CASE Retire
  <2>1. run = "settling" /\ UNCHANGED <<log, mode, phase, idleWait, step, deferred>>
    BY <1>7 DEF Retire
  <2>2. CASE ~requested
    BY <1>7, <2>1, <2>2, OrderRuns DEF Retire
  <2>3. CASE requested /\ mode # "live"
    <3>1. queue' = queue /\ run' = "none" /\ timer' = timer /\ requested' = requested
      BY <1>7, <2>3 DEF Retire, RequestDrive
    <3>2. ~Running("drive")
      BY <2>1, DriveRuns
    <3>3. OneDriveIn(queue', run') /\ Queued'
      BY <2>1, <3>1 DEF Order, OneDriveIn, Queued
    <3>4. Writing' /\ Placed' /\ Triggered'
      BY <2>1, <2>3, <3>1, <3>2 DEF Order, Writing, Placed, Triggered, Calling, Running, Subject
    <3> QED
      BY <3>3, <3>4 DEF Order
  <2>4. CASE requested /\ mode = "live"
    <3>1. queue' = Append(queue, Drive) /\ run' = "queued" /\ requested' = FALSE /\ timer' = Never
      BY <1>7, <2>4 DEF Retire, RequestDrive
    <3>2. ~Running("drive") /\ queue \in Seq(Transactions) /\ OneDriveIn(queue, run)
      BY <2>1, DriveRuns DEF Order, Queued
    <3>3. /\ queue' \in Seq(Transactions) /\ queue' # <<>> /\ OneDriveIn(queue', run')
          /\ (queue # <<>> => Head(queue') = Head(queue)) /\ (queue = <<>> => Head(queue') = Drive)
      BY <2>1, <3>1, <3>2, DriveIs, AppendOf
    <3>4. Queued'
      BY <2>1, <3>1, <3>3 DEF Order, Queued
    <3>5. queue = <<>> => step' = "start"
      BY <2>1 DEF Order, Placed
    <3>6. Writing'
      BY <2>1, <3>3, <3>5 DEF Order, Writing, Calling, Running, Subject
    <3>7. Placed'
      BY <2>1, <2>4, <3>2, <3>3 DEF Order, Placed, Running
    <3>8. Triggered'
      BY <2>1, <3>1, <3>2, <3>3, <3>5 DEF Order, Triggered, Running
    <3> QED
      BY <3>3, <3>4, <3>6, <3>7, <3>8 DEF Order
  <2> QED
    BY <2>2, <2>3, <2>4
<1> QED
  BY <1>1, <1>2, <1>3, <1>4, <1>5, <1>6, <1>7 DEF Driving

LEMMA OrderCalls == ASSUME Books, Order, Call \/ CallSteps PROVE Order'
<1>1. CASE Call
  <2>1. /\ phase = "running" /\ UNCHANGED <<log, mode, phase, runtime, idleWait, step, deferred>> /\ mode = "live"
        /\ \E t \in {Transaction("create", {}), Transaction("list", {})}
                    \cup {Transaction("delete", {i}) : i \in Named(log, "create")} : queue' = Append(queue, t)
    BY <1>1 DEF Call
  <2>2. Named(log, "create") \subseteq Reminders
    <3>1. log \in Seq(Changes)
      BY DEF Books, Stored
    <3> SUFFICES ASSUME NEW i \in Named(log, "create") PROVE i \in Reminders
      OBVIOUS
    <3>2. PICK k \in 1..Len(log) : i \in DOMAIN log[k].of
      BY <3>1, NamedIs
    <3>3. log[k] \in Changes
      BY <3>1
    <3>4. log[k].of \in Instants
      BY <3>3 DEF Changes
    <3> QED
      BY <3>2, <3>4, InstantsAre
  <2>3. PICK t \in Transactions : t.op # "drive" /\ queue' = Append(queue, t)
    <3>1. \A i \in Reminders : Transaction("delete", {i}) \in Transactions /\ Transaction("delete", {i}).op # "drive"
      BY DEF Transaction, Transactions
    <3>2. /\ Transaction("create", {}) \in Transactions /\ Transaction("create", {}).op # "drive"
          /\ Transaction("list", {}) \in Transactions /\ Transaction("list", {}).op # "drive"
      BY DEF Transaction, Transactions
    <3> QED
      BY <2>1, <2>2, <3>1, <3>2
  <2>4. queue \in Seq(Transactions) /\ OneDriveIn(queue, run)
    BY DEF Order, Queued
  <2>5. /\ queue' \in Seq(Transactions) /\ queue' # <<>> /\ OneDriveIn(queue', run)
        /\ (queue # <<>> => Head(queue') = Head(queue)) /\ (queue = <<>> => Head(queue') = t)
    BY <2>3, <2>4, AppendOf
  <2>6. run' = run /\ requested' = requested /\ timer' = timer
    BY <2>1 DEF runtime
  <2>7. queue = <<>> => step' = "start"
    BY <2>1 DEF Order, Placed
  <2>8. Queued' /\ OneDriveIn(queue, run)'
    BY <2>1, <2>5, <2>6 DEF Order, Queued
  <2>9. Writing'
    BY <2>1, <2>5, <2>7 DEF Order, Writing, Calling, Running, Subject
  <2>10. Placed'
    BY <2>1, <2>5 DEF Placed
  <2>11. Triggered'
    <3>1. (Running("drive"))' => Running("drive")
      BY <2>3, <2>5 DEF Running
    <3> QED
      BY <2>1, <2>6, <3>1 DEF Order, Triggered, Attended
  <2> QED
    BY <2>8, <2>9, <2>10, <2>11 DEF Order
<1>2. CASE CallStarts
  <2>1. Calling /\ queue # <<>> /\ UNCHANGED <<log, mode, phase, idleWait, deferred>>
    BY <1>2 DEF CallStarts, Calling
  <2>2. CASE CallEnds
    BY <2>1, <2>2, OrderCallEnds
  <2>3. CASE step' = "preflight" /\ UNCHANGED <<queue, runtime>>
    <3>1. phase # "maintenance"
      BY <2>1 DEF Order, Placed, Calling, Running
    <3> QED
      BY <2>1, <2>3, <3>1, OrderKept
  <2> QED
    BY <1>2, <2>2, <2>3 DEF CallStarts
<1>3. CASE CallUncertain
  BY <1>3, OrderCallEnds DEF CallUncertain
<1>4. CASE CallProceeds
  <2>1. Calling /\ queue # <<>> /\ UNCHANGED <<mode, phase, idleWait, deferred>>
    BY <1>4 DEF CallProceeds, Calling
  <2>2. phase # "maintenance"
    BY <2>1 DEF Order, Placed, Calling, Running
  <2>3. CASE Appends(Head(queue).op) /\ RequestDrive(queue, run) /\ step' = "barrier"
    <3>1. PICK c \in Changes : log' = Append(log, c) /\ c.op = Head(queue).op
                               /\ (c.op = "delete" => DOMAIN c.of = Subject)
      BY <2>1, <2>3, AppendsFits
    <3>2. log \in Seq(Changes)
      BY DEF Books, Stored
    <3>3. log' # <<>> /\ log'[Len(log')] = c
      BY <3>1, <3>2
    <3>4. Running("delete") => DOMAIN log'[Len(log')].of = Subject
      BY <3>1, <3>3 DEF Running
    <3> QED
      BY <2>1, <2>2, <2>3, <3>1, <3>3, <3>4, OrderRaised
  <2>4. CASE RequestDrive(Tail(queue), run) /\ step' = "start" /\ log' = log
    BY <2>1, <2>2, <2>4, OrderPassed
  <2> QED
    BY <1>4, <2>3, <2>4 DEF CallProceeds
<1>5. CASE CallSettles
  <2>1. Calling /\ queue # <<>> /\ RequestDrive(Tail(queue), run) /\ step' = "start"
        /\ UNCHANGED <<log, mode, phase, idleWait, deferred>>
    BY <1>5 DEF CallSettles, Calling
  <2>2. phase # "maintenance"
    BY <2>1 DEF Order, Placed, Calling, Running
  <2> QED
    BY <2>1, <2>2, OrderPassed
<1> QED
  BY <1>1, <1>2, <1>3, <1>4, <1>5 DEF CallSteps

LEMMA OrderCrash == ASSUME Order, Crash \/ Resume PROVE Order'
<1>1. CASE Crash
  <2>1. mode' = "down" /\ phase' = "idle" /\ run' = "none" /\ requested' = FALSE /\ idleWait' = FALSE
        /\ queue' = <<>> /\ step' = "start" /\ deferred' = "none"
    BY <1>1 DEF Crash
  <2>2. queue' \in Seq(Transactions) /\ Len(queue') = 0
    BY <2>1
  <2>3. OneDriveIn(queue', run')
    BY <2>2 DEF OneDriveIn
  <2>4. Writing' /\ Placed' /\ Triggered'
    BY <2>1 DEF Writing, Placed, Triggered
  <2> QED
    BY <2>1, <2>2, <2>3, <2>4 DEF Order, Queued
<1>2. CASE Resume
  <2>1. mode = "down" /\ mode' = "live" /\ queue' = <<Drive>> /\ run' = "queued"
        /\ UNCHANGED <<log, phase, requested, idleWait, step, deferred>>
    BY <1>2 DEF Resume
  <2>2. phase = "idle" /\ step = "start"
    BY <2>1 DEF Order, Placed
  <2>3. queue' \in Seq(Transactions) /\ Len(queue') = 1 /\ queue' # <<>>
    BY <2>1, DriveIs
  <2>4. OneDriveIn(queue', run')
    BY <2>1, <2>3 DEF OneDriveIn
  <2>5. Queued'
    BY <2>1, <2>3 DEF Order, Queued
  <2> QED
    BY <2>1, <2>2, <2>3, <2>4, <2>5 DEF Order, Writing, Placed, Triggered
<1> QED
  BY <1>1, <1>2

LEMMA OrderNext == ASSUME Books, Order, [Next]_vars PROVE Order'
<1>1. CASE Driving
  BY <1>1, OrderDriving
<1>2. CASE TimerFires
  BY <1>2, OrderPrompted DEF TimerFires, Order, Queued
<1>3. CASE IdleWaitEnds
  BY <1>3, OrderPrompted DEF IdleWaitEnds, Order, Queued
<1>4. CASE Call \/ CallSteps
  BY <1>4, OrderCalls
<1>5. CASE TurnStarts
  BY <1>5, OrderKept DEF TurnStarts, transactions
<1>6. CASE Cancel
  BY <1>6, OrderKept DEF Cancel, transactions
<1>7. CASE TurnEnds
  <2>1. phase = "running" /\ phase' = "idle" /\ UNCHANGED <<log, mode, idleWait, step, deferred>>
    BY <1>7 DEF TurnEnds
  <2>2. mode # "down" /\ idleWait \in BOOLEAN
    BY <2>1 DEF Order, Placed, Queued
  <2>3. CASE RequestDrive(queue, run)
    BY <2>1, <2>2, <2>3, OrderPrompted
  <2>4. CASE log = <<>> /\ UNCHANGED <<queue, runtime>>
    BY <2>1, <2>2, <2>4, OrderKept
  <2> QED
    BY <1>7, <2>3, <2>4 DEF TurnEnds
<1>8. CASE Tick
  BY <1>8, OrderKept DEF Tick, transactions
<1>9. CASE Dispose
  <2>1. mode = "live" /\ mode' = "stopping" /\ requested' = FALSE
        /\ UNCHANGED <<log, phase, run, idleWait, queue, step, deferred>>
    BY <1>9 DEF Dispose, transactions
  <2>2. Queued' /\ OneDriveIn(queue, run)'
    BY <2>1 DEF Order, Queued, OneDriveIn
  <2>3. Writing' /\ Placed' /\ Triggered'
    BY <2>1 DEF Order, Writing, Placed, Triggered, Calling, Running, Subject
  <2> QED
    BY <2>2, <2>3 DEF Order
<1>10. CASE Disposed
  BY <1>10, OrderKept DEF Disposed, transactions
<1>11. CASE Crash \/ Resume
  BY <1>11, OrderCrash
<1>12. CASE UNCHANGED vars
  BY <1>12, OrderKept DEF vars, transactions, runtime
<1> QED
  BY <1>1, <1>2, <1>3, <1>4, <1>5, <1>6, <1>7, <1>8, <1>9, <1>10, <1>11, <1>12 DEF Next

-----------------------------------------------------------------------------
LEMMA InvHolds == Spec => []Inv
<1>1. Init => Inv
  BY BooksInit, OrderInit DEF Inv
<1>2. Inv /\ [Next]_vars => Inv'
  <2> SUFFICES ASSUME Inv, [Next]_vars PROVE Inv'
    OBVIOUS
  <2>1. Books /\ Order /\ Writing
    BY DEF Inv, Order
  <2>2. Books'
    BY <2>1, BooksNext
  <2>3. Order'
    BY <2>1, OrderNext
  <2> QED
    BY <2>2, <2>3 DEF Inv
<1> QED
  BY <1>1, <1>2, PTL DEF Spec

\* What a crash may leave is sound, and has all that was acknowledged.
LEMMA Recovered ==
    ASSUME Inv, NEW l \in Recoverable
    PROVE  /\ l \in Seq(Changes) /\ Sound(l) /\ DOMAIN l = 1..Len(l)
           /\ kept \subseteq Named(l, "create") /\ dropped \subseteq Named(l, "delete")
<1>1. PICK n \in durable..Len(log) : l = SubSeq(log, 1, n)
  BY DEF Recoverable
<1>2. log \in Seq(Changes) /\ durable \in 0..Len(log) /\ Good(log)
  BY DEF Inv, Books, Stored, Recorded
<1>3. n \in 0..Len(log) /\ durable \in Nat /\ durable <= n
  BY <1>2
<1>4. l \in Seq(Changes) /\ Sound(l)
  BY <1>1, <1>2, <1>3, PrefixIs DEF Good
<1>5. DOMAIN l = 1..Len(l)
  BY <1>4
<1>6. Named(SubSeq(log, 1, durable), "create") \subseteq Named(l, "create")
  BY <1>1, <1>2, <1>3, NamedGrows
<1>7. Named(SubSeq(log, 1, durable), "delete") \subseteq Named(l, "delete")
  BY <1>1, <1>2, <1>3, NamedGrows
<1> QED
  BY <1>4, <1>5, <1>6, <1>7 DEF Inv, Books, Answered

\* Nothing the model was told is set is lost wherever a crash cuts the log: it is
\* active, deleted or presented; every dispatch was handed over before.  At rest the
\* timer is armed for the earliest target, except where the last drive's preflight or
\* handover failed, or the turn of a dispatch that was not recorded still runs.  The
\* tools of tools.ts, the drive of runtime.ts and the fold of domain.ts.
THEOREM NothingLostCorrect == Spec => []NothingLost
<1>1. Inv => NothingLost
  <2> SUFFICES ASSUME Inv PROVE NothingLost
    OBVIOUS
  <2>1. AtRest /\ Attended => timer = Earliest(Active(log))
    BY DEF Inv, Order, Triggered, AtRest
  <2>2. ASSUME NEW l \in Recoverable
        PROVE  kept \subseteq DOMAIN Active(l) \cup Named(l, "delete") \cup Named(l, "present")
    BY Recovered DEF Sound, Accounted
  <2>3. ASSUME NEW l \in Recoverable, NEW k \in DOMAIN l, l[k].op = "dispatch", NEW i \in DOMAIN l[k].of
        PROVE  \E j \in 1..(k - 1) :
                  /\ l[j].op = "present" /\ i \in DOMAIN l[j].of
                  /\ l[j].of[i] <= l[k].of[i]
                  /\ i \in Repeating => l[k].of[i] - l[j].of[i] < Interval
    <3>1. Sound(l) /\ k \in 1..Len(l)
      BY <2>3, Recovered
    <3>2. HandedOver(l, k, i, l[k].of[i])
      BY <2>3, <3>1 DEF Sound, Marked
    <3> QED
      BY <3>2 DEF HandedOver
  <2> QED
    BY <2>1, <2>2, <2>3 DEF NothingLost
<1> QED
  BY <1>1, InvHolds, PTL

\* A reminder the model was told is deleted stays deleted across a crash and is never
\* presented again.  schedule_delete of tools.ts, its barrier and the fold.
THEOREM DeletionCorrect == Spec => []DeletionHolds
<1>1. Inv => DeletionHolds
  <2> SUFFICES ASSUME Inv, NEW l \in Recoverable
               PROVE  /\ dropped \cap DOMAIN Active(l) = {}
                      /\ \A j, k \in DOMAIN l : j < k /\ l[j].op = "delete" /\ l[k].op = "present"
                                                => DOMAIN l[j].of \cap DOMAIN l[k].of = {}
    BY DEF DeletionHolds
  <2>1. Sound(l) /\ DOMAIN l = 1..Len(l) /\ dropped \subseteq Named(l, "delete")
    BY Recovered
  <2> QED
    BY <2>1 DEF Sound, Accounted, Gone
<1> QED
  BY <1>1, InvHolds, PTL

\* An occurrence is presented twice only where the record that it was dispatched was
\* lost.  The fixed rate of domain.ts and the order in which driveOnce writes.
THEOREM PresentedOnceCorrect == Spec => []PresentedOnce
<1>1. Inv => PresentedOnce
  <2> SUFFICES ASSUME Inv PROVE PresentedOnce
    OBVIOUS
  <2>1. log \in Seq(Changes) /\ Sound(log)
    BY GoodNow DEF Inv, Books, Stored, Recorded
  <2>2. DOMAIN log = 1..Len(log)
    BY <2>1
  <2> QED
    BY <2>1, <2>2 DEF Sound, Single, PresentedOnce
<1> QED
  BY <1>1, InvHolds, PTL
=============================================================================
