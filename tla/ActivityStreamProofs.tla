----------------------- MODULE ActivityStreamProofs -----------------------
(***************************************************************************)
(* Proofs about ActivityStream.tla and the WorkspaceRecords and PlanGraph  *)
(* under it, for any number of sessions, projects, tasks, drafts, requests *)
(* and broken connections.                                                 *)
(*                                                                         *)
(* Four arguments.  Ids: each request is counted for two, so a fresh one   *)
(* is always left and no two events share theirs; hence the events have    *)
(* distinct keys, finitely many, and sorting them by their rank lists them *)
(* all.  Locks: two sessions never hold conflicting ones, so the rows a    *)
(* request has read and locked are there when it commits, and a row, its   *)
(* event and its audit record change together.  The stream: what it has    *)
(* read is an increasing segment of the events, which a poll continues     *)
(* after the cursor and a broken connection shortens.  Plans: the versions *)
(* of a task are numbered by position, because whoever would flush one     *)
(* that another session has flushed waits for it; the first is committed   *)
(* before any run of the task, so one session develops it.                 *)
(*                                                                         *)
(* What Sorted and the recursive function in Ordered compute is proved for *)
(* every input with LeastNatural, an induction principle that takes a set  *)
(* where the library's take an operator.                                   *)
(***************************************************************************)
EXTENDS ActivityStream, FiniteSetTheorems, SequenceTheorems, TLAPS

\* The provers cannot instantiate the library's induction principles, which
\* take a predicate; that every set of numbers has a least one serves instead.
LEMMA LeastNatural ==
    ASSUME NEW T \in SUBSET Nat, T # {}
    PROVE  \E n \in T : \A m \in T : n <= m
<1>1. IsWellFoundedOn({p \in Nat \X Nat : p[1] < p[2]}, Nat)
  BY NatLessThanWellFounded DEF OpToRel
<1>2. PICK n \in T : \A m \in T : <<m, n>> \notin {p \in Nat \X Nat : p[1] < p[2]}
  BY <1>1, WFMin
<1>3. \A m \in T : ~(m < n)
  BY <1>2
<1> QED BY <1>3

-----------------------------------------------------------------------------
(* The order of events, and batches of them.                               *)

\* The keys the stream sorts by, and a sequence in their order.
Stamps == [at : Nat, id : Nat]
Increasing(s) == \A i, j \in DOMAIN s : i < j => Before(s[i], s[j])

Preceding(S, k) == {j \in S : Before(j, k)}

\* Before is a strict total order.
LEMMA BeforeOrders ==
    /\ \A j, k \in Stamps : j = k \/ Before(j, k) \/ Before(k, j)
    /\ \A j, k \in Stamps : ~(Before(j, k) /\ Before(k, j))
    /\ \A i, j, k \in Stamps : Before(i, j) /\ Before(j, k) => Before(i, k)
<1>1. \A j, k \in Stamps : j = k \/ Before(j, k) \/ Before(k, j)
  <2>1. SUFFICES ASSUME NEW j \in Stamps, NEW k \in Stamps, ~Before(j, k), ~Before(k, j)
                 PROVE  j = k
    OBVIOUS
  <2>2. j.at = k.at /\ j.id = k.id
    BY <2>1 DEF Stamps, Before
  <2> QED BY <2>2 DEF Stamps
<1>2. \A j, k \in Stamps : ~(Before(j, k) /\ Before(k, j))
  BY DEF Stamps, Before
<1>3. \A i, j, k \in Stamps : Before(i, j) /\ Before(j, k) => Before(i, k)
  BY DEF Stamps, Before
<1> QED BY <1>1, <1>2, <1>3

\* Every place among the keys of a finite set is some key's.
LEMMA RanksAreOnto ==
    ASSUME NEW S \in SUBSET Stamps, IsFiniteSet(S)
    PROVE  /\ Cardinality(S) \in Nat
           /\ \A k \in S : Cardinality(Preceding(S, k)) \in 0 .. Cardinality(S) - 1
           /\ \A j, k \in S : Before(j, k) =>
                 Cardinality(Preceding(S, j)) < Cardinality(Preceding(S, k))
           /\ \A n \in 0 .. Cardinality(S) - 1 : \E k \in S : Cardinality(Preceding(S, k)) = n
<1> DEFINE rank == [k \in S |-> Cardinality(Preceding(S, k))]
           n == Cardinality(S)
<1>1. /\ n \in Nat
      /\ \A T \in SUBSET S : IsFiniteSet(T) /\ Cardinality(T) \in Nat
  BY FS_CardinalityType, FS_Subset
<1>2. \A j, k \in S : Before(j, k) => rank[j] < rank[k]
  <2>1. SUFFICES ASSUME NEW j \in S, NEW k \in S, Before(j, k)
                 PROVE  Cardinality(Preceding(S, j)) < Cardinality(Preceding(S, k))
    OBVIOUS
  <2>2. /\ Preceding(S, j) \subseteq Preceding(S, k)
        /\ j \in Preceding(S, k) /\ j \notin Preceding(S, j)
    BY <2>1, BeforeOrders DEF Preceding
  <2>3. Preceding(S, j) \in SUBSET S /\ Preceding(S, k) \in SUBSET S
    BY DEF Preceding
  <2> QED BY <1>1, <2>2, <2>3, FS_Subset
<1>3. \A k \in S : rank[k] \in 0 .. n - 1
  <2>1. SUFFICES ASSUME NEW k \in S PROVE Cardinality(Preceding(S, k)) \in 0 .. n - 1
    OBVIOUS
  <2>2. Preceding(S, k) \in SUBSET S /\ k \notin Preceding(S, k)
    BY BeforeOrders DEF Preceding
  <2> QED BY <1>1, <2>2, FS_Subset
<1>4. rank \in Injection(S, 0 .. n - 1)
  <2>1. rank \in [S -> 0 .. n - 1]
    BY <1>3
  <2>2. \A j, k \in S : rank[j] = rank[k] => j = k
    BY <1>2, <1>3, BeforeOrders
  <2> HIDE DEF rank, n
  <2> QED BY <2>1, <2>2 DEF Injection, IsInjective
<1>5. IsFiniteSet(0 .. n - 1) /\ Cardinality(0 .. n - 1) = n
  <2> HIDE DEF n
  <2>1. n \in Nat /\ 0 \in Int /\ n - 1 \in Int
    BY <1>1
  <2>2. IsFiniteSet(0 .. n - 1) /\ Cardinality(0 .. n - 1) = IF 0 > n - 1 THEN 0 ELSE n - 1 - 0 + 1
    BY <2>1, FS_Interval, ZenonT(30)
  <2> QED BY <2>1, <2>2
<1>6. rank \in Surjection(S, 0 .. n - 1)
  BY <1>4, <1>5, FS_Injection
<1>7. \A m \in 0 .. n - 1 : \E k \in S : rank[k] = m
  BY <1>6 DEF Surjection
<1> QED BY <1>1, <1>2, <1>3, <1>7

\* Sorted lists a finite set, each key once and in order.
LEMMA SortedEnumerates ==
    ASSUME NEW S \in SUBSET Stamps, IsFiniteSet(S)
    PROVE  /\ Sorted(S) \in Seq(S)
           /\ Increasing(Sorted(S))
           /\ ToSet(Sorted(S)) = S
<1> DEFINE n == Cardinality(S)
           s == Sorted(S)
<1>1. /\ n \in Nat
      /\ \A k \in S : Cardinality(Preceding(S, k)) \in 0 .. n - 1
      /\ \A j, k \in S : Before(j, k) => Cardinality(Preceding(S, j)) < Cardinality(Preceding(S, k))
      /\ \A m \in 0 .. n - 1 : \E k \in S : Cardinality(Preceding(S, k)) = m
  BY RanksAreOnto
<1>2. s = [i \in 1 .. n |-> CHOOSE k \in S : Cardinality(Preceding(S, k)) = i - 1]
  BY DEF Sorted, Preceding
<1> HIDE DEF n, s
<1>3. \A i \in 1 .. n : s[i] \in S /\ Cardinality(Preceding(S, s[i])) = i - 1
  <2>1. SUFFICES ASSUME NEW i \in 1 .. n
                 PROVE  s[i] \in S /\ Cardinality(Preceding(S, s[i])) = i - 1
    OBVIOUS
  <2>2. \E k \in S : Cardinality(Preceding(S, k)) = i - 1
    BY <1>1
  <2>3. s[i] = CHOOSE k \in S : Cardinality(Preceding(S, k)) = i - 1
    BY <1>2
  <2> QED BY <2>2, <2>3, Zenon
<1>4. s \in Seq(S) /\ DOMAIN s = 1 .. n /\ Len(s) = n
  BY <1>1, <1>2, <1>3
<1>5. Increasing(s)
  <2>1. SUFFICES ASSUME NEW i \in 1 .. n, NEW j \in 1 .. n, i < j PROVE Before(s[i], s[j])
    BY <1>4 DEF Increasing
  <2>2. s[i] # s[j] /\ ~Before(s[j], s[i])
    BY <1>1, <1>3, <2>1
  <2> QED BY <1>3, <2>2, BeforeOrders
<1>6. ToSet(s) = S
  <2>1. \A k \in S : \E i \in 1 .. n : s[i] = k
    <3>1. TAKE k \in S
    <3> DEFINE i == Cardinality(Preceding(S, k)) + 1
    <3>2. i \in 1 .. n
      BY <1>1
    <3>3. s[i] = k
      BY <1>1, <1>3, <3>2, BeforeOrders
    <3> QED BY <3>2, <3>3
  <2> QED BY <1>3, <1>4, <2>1 DEF ToSet
<1> QED BY <1>4, <1>5, <1>6 DEF s
\* A segment of an ordered sequence misses nothing between its ends.
LEMMA SegmentIsContiguous ==
    ASSUME NEW s \in Seq(Stamps), Increasing(s),
           NEW d \in Nat, NEW m \in Nat, d + m <= Len(s),
           NEW b \in Seq(Stamps), Len(b) = m, \A i \in 1 .. m : b[i] = s[d + i]
    PROVE  /\ b \in Seq(ToSet(s)) /\ Increasing(b)
           /\ \A k \in ToSet(s) :
                 b # <<>> /\ Before(b[1], k) /\ Before(k, Last(b)) => k \in ToSet(b)
           /\ d = 0 => \A k \in ToSet(s) : b # <<>> /\ Before(k, Last(b)) => k \in ToSet(b)
<1>1. /\ DOMAIN s = 1 .. Len(s) /\ Len(s) \in Nat /\ DOMAIN b = 1 .. m
      /\ \A i \in DOMAIN s : s[i] \in Stamps /\ s[i] \in ToSet(s)
  BY DEF ToSet
<1>2. \A i \in 1 .. m : d + i \in 1 .. Len(s)
  BY <1>1
<1>3. b \in Seq(ToSet(s))
  BY <1>1, <1>2
<1>4. Increasing(b)
  <2>1. SUFFICES ASSUME NEW i \in 1 .. m, NEW j \in 1 .. m, i < j PROVE Before(b[i], b[j])
    BY <1>1 DEF Increasing
  <2>2. d + i < d + j
    BY <2>1
  <2> QED BY <1>1, <1>2, <2>2 DEF Increasing
<1>5. ASSUME NEW k \in ToSet(s), b # <<>>, d = 0 \/ Before(b[1], k), Before(k, Last(b))
      PROVE  k \in ToSet(b)
  <2>1. PICK i \in 1 .. Len(s) : k = s[i]
    BY <1>1 DEF ToSet
  <2>2. m >= 1 /\ Last(b) = s[d + m] /\ b[1] = s[d + 1]
    BY <1>1, <1>5 DEF Last
  <2>3. i < d + m
    <3>1. ~(d + m < i) /\ i # d + m
      BY <1>1, <1>2, <1>5, <2>1, <2>2, BeforeOrders DEF Increasing
    <3> QED BY <3>1
  <2>4. d < i
    <3>1. CASE d = 0
      BY <3>1
    <3>2. CASE Before(b[1], k)
      <4>1. d + 1 \in 1 .. Len(s) /\ Before(s[d + 1], s[i])
        BY <1>2, <2>1, <2>2, <3>2
      <4>2. ~(i < d + 1) /\ i # d + 1
        BY <1>1, <2>1, <4>1, BeforeOrders DEF Increasing
      <4> QED BY <4>2
    <3> QED BY <1>5, <3>1, <3>2
  <2>5. i - d \in 1 .. m /\ d + (i - d) = i
    BY <2>3, <2>4
  <2>6. b[i - d] = k
    BY <2>1, <2>5
  <2> QED BY <1>1, <2>5, <2>6 DEF ToSet
<1> QED BY <1>3, <1>4, <1>5

\* What a batch read from S after c is, and what the newest batch of S is.
Follows(b, S, c) ==
    /\ b \in Seq(S) /\ Increasing(b)
    /\ \A i \in DOMAIN b : Before(c, b[i])
    /\ \A k \in S : b # <<>> /\ Before(c, k) /\ Before(k, Last(b)) => k \in ToSet(b)

Contiguous(b, S) ==
    /\ b \in Seq(S) /\ Increasing(b)
    /\ \A k \in S : b # <<>> /\ Before(b[1], k) /\ Before(k, Last(b)) => k \in ToSet(b)

\* list_events_after: the next batch after a cursor.
LEMMA NextBatch ==
    ASSUME Keys \subseteq Stamps, IsFiniteSet(Keys), NEW c \in Stamps
    PROVE  Follows(list_events_after(c), Keys, c)
<1> DEFINE T == {k \in Keys : Before(c, k)}
           s == Sorted(T)
           m == IF Len(s) < BatchSize THEN Len(s) ELSE BatchSize
           b == list_events_after(c)
<1>1. T \subseteq Keys /\ T \in SUBSET Stamps /\ IsFiniteSet(T)
  BY FS_Subset
<1>2. s \in Seq(T) /\ Increasing(s) /\ ToSet(s) = T
  BY <1>1, SortedEnumerates
<1>3. b = SubSeq(s, 1, m)
  BY DEF list_events_after, Limit
<1>4. \A k \in T : Before(c, k)
  OBVIOUS
<1>5. \A k \in Keys : Before(c, k) => k \in T
  OBVIOUS
<1> HIDE DEF s, b, T
<1>6. s \in Seq(Stamps)
  BY <1>1, <1>2
<1>7. /\ m \in Nat /\ m <= Len(s) /\ b \in Seq(Stamps)
      /\ Len(b) = m /\ \A i \in 1 .. m : b[i] = s[0 + i]
  BY <1>3, <1>6, StreamAssumption
<1> HIDE DEF m
<1>8. /\ b \in Seq(T) /\ Increasing(b)
      /\ \A k \in T : b # <<>> /\ Before(k, Last(b)) => k \in ToSet(b)
  <2>1. 0 \in Nat /\ m \in Nat /\ 0 + m <= Len(s)
    BY <1>2, <1>7
  <2>2. /\ b \in Seq(ToSet(s)) /\ Increasing(b)
        /\ \A k \in ToSet(s) :
              b # <<>> /\ Before(k, Last(b)) => k \in ToSet(b)
    BY <1>2, <1>6, <1>7, <2>1, SegmentIsContiguous
  <2> QED BY <1>2, <2>2
<1>9. b \in Seq(Keys) /\ \A i \in DOMAIN b : b[i] \in T
  BY <1>1, <1>8
<1> QED BY <1>4, <1>5, <1>8, <1>9 DEF Follows, b

\* list_recent_events: the newest batch.
LEMMA RecentBatch ==
    ASSUME Keys \subseteq Stamps, IsFiniteSet(Keys)
    PROVE  Contiguous(list_recent_events, Keys)
<1> DEFINE s == Sorted(Keys)
           b == list_recent_events
           r == Reverse(s)
           m == IF Len(r) < BatchSize THEN Len(r) ELSE BatchSize
           d == Len(s) - m
<1>1. s \in Seq(Keys) /\ Increasing(s) /\ ToSet(s) = Keys
  BY SortedEnumerates
<1>2. b = Reverse(SubSeq(r, 1, m))
  BY DEF Limit, list_recent_events
<1> HIDE DEF s, b
<1>3. Len(r) = Len(s) /\ r \in Seq(Keys) /\ \A i \in 1 .. Len(s) : r[i] = s[Len(s) - i + 1]
  BY <1>1 DEF Reverse
<1> HIDE DEF r
<1>4. m \in Nat /\ m <= Len(s) /\ d \in Nat /\ d + m = Len(s)
  BY <1>1, <1>3, StreamAssumption
<1>5. Len(SubSeq(r, 1, m)) = m /\ \A i \in 1 .. m : SubSeq(r, 1, m)[i] = s[Len(s) - i + 1]
  BY <1>1, <1>3, <1>4
<1> HIDE DEF m
<1>6. b = [i \in 1 .. m |-> s[d + i]]
  <2>1. b = [i \in 1 .. m |-> SubSeq(r, 1, m)[m - i + 1]]
    BY <1>2, <1>5 DEF Reverse
  <2>2. \A i \in 1 .. m : m - i + 1 \in 1 .. m /\ Len(s) - (m - i + 1) + 1 = d + i
    BY <1>1, <1>4
  <2> QED BY <1>5, <2>1, <2>2
<1>7. s \in Seq(Stamps)
  BY <1>1
<1> HIDE DEF d
<1>8. d + m <= Len(s)
  BY <1>1, <1>4
<1>9. b \in Seq(Stamps) /\ Len(b) = m /\ \A i \in 1 .. m : b[i] = s[d + i]
  BY <1>4, <1>6, <1>7
<1> HIDE DEF r
<1>10. Increasing(s) /\ d \in Nat /\ m \in Nat
  BY <1>1, <1>4
<1>11. /\ b \in Seq(ToSet(s)) /\ Increasing(b)
      /\ \A k \in ToSet(s) :
            b # <<>> /\ Before(b[1], k) /\ Before(k, Last(b)) => k \in ToSet(b)
  BY <1>7, <1>8, <1>9, <1>10, SegmentIsContiguous
<1> QED BY <1>1, <1>11 DEF Contiguous, b

-----------------------------------------------------------------------------
(* Plan graphs.                                                            *)

\* A draft, as a sequence of steps.
Graph == Seq([step_key : Nat, depends_on : SUBSET Nat])

\* The loop of Ordered: the keys not yet given up, those of them that depend on
\* none of the others, and one turn.
Waiting(d, done) == {k \in StepKeys(d) : \A i \in DOMAIN done : done[i] # k}
Ready(d, done) == {k \in Waiting(d, done) : Dependencies(d, k) \cap Waiting(d, done) = {}}
Grown(d, done) ==
    IF Ready(d, done) = {} THEN done
    ELSE Append(done, CHOOSE k \in Ready(d, done) : \A j \in Ready(d, done) : k <= j)
Grows(d, m, f) == f = [n \in 0 .. m |-> IF n = 0 THEN <<>> ELSE Grown(d, f[n - 1])]

\* Ordered is what Len(d) turns of the loop leave: the recursive function exists,
\* for there is no least length without one.
LEMMA OrderUnfolds ==
    ASSUME NEW d \in Graph
    PROVE  \E f : Grows(d, Len(d), f) /\ Ordered(d) = f[Len(d)]
<1> DEFINE N == Len(d)
<1>1. N \in Nat
  BY DEF Graph
<1>2. \A m \in 0 .. N : \E f : Grows(d, m, f)
  <2> DEFINE T == {m \in 0 .. N : ~\E f : Grows(d, m, f)}
  <2>1. SUFFICES ASSUME T # {} PROVE FALSE
    OBVIOUS
  <2>2. PICK m \in T : \A k \in T : m <= k
    <3>1. T \in SUBSET Nat
      BY <1>1
    <3> QED BY <2>1, <3>1, LeastNatural
  <2>3. m \in Nat /\ m <= N
    BY <1>1
  <2>4. CASE m = 0
    <3>1. Grows(d, 0, [n \in 0 .. 0 |-> <<>>])
      BY DEF Grows
    <3> QED BY <2>4, <3>1
  <2>5. CASE m > 0
    <3>1. m - 1 \in 0 .. N /\ m - 1 \notin T
      BY <1>1, <2>2, <2>3, <2>5
    <3>2. PICK g : Grows(d, m - 1, g)
      BY <3>1
    <3> DEFINE h == [n \in 0 .. m |-> IF n = m THEN Grown(d, g[m - 1]) ELSE g[n]]
    <3>3. \A n \in 0 .. m : h[n] = IF n = 0 THEN <<>> ELSE Grown(d, h[n - 1])
      <4>1. TAKE n \in 0 .. m
      <4>2. CASE n = m
        <5>1. h[n] = Grown(d, g[m - 1]) /\ h[m - 1] = g[m - 1]
          BY <2>3, <2>5, <4>2
        <5> QED BY <2>5, <4>2, <5>1
      <4>3. CASE n # m
        <5>1. n \in 0 .. m - 1 /\ h[n] = g[n]
          BY <2>3, <4>3
        <5>2. n # 0 => n - 1 \in 0 .. m /\ n - 1 # m /\ h[n - 1] = g[n - 1]
          BY <2>3, <4>3
        <5>3. g[n] = IF n = 0 THEN <<>> ELSE Grown(d, g[n - 1])
          BY <3>2, <5>1 DEF Grows
        <5> QED BY <5>1, <5>2, <5>3
      <4> QED BY <4>2, <4>3
    <3>4. DOMAIN h = 0 .. m /\ h = [n \in 0 .. m |-> h[n]]
      OBVIOUS
    <3> HIDE DEF h
    <3>5. Grows(d, m, h)
      BY <3>3, <3>4 DEF Grows
    <3> QED BY <3>5
  <2> QED BY <2>3, <2>4, <2>5
<1>3. Grows(d, N, CHOOSE f : Grows(d, N, f))
  BY <1>1, <1>2
<1>4. Ordered(d) = (CHOOSE f : Grows(d, N, f))[N]
  BY DEF Ordered, Grows, Grown, Ready, Waiting
<1> QED BY <1>3, <1>4

\* Every dependency is a step of the draft.
Closed(d) == \A i \in DOMAIN d : d[i].depends_on \subseteq StepKeys(d)
\* What the loop keeps: no step twice, and every step after those it depends on.
Placed(d, s) ==
    /\ s \in Seq(StepKeys(d))
    /\ \A i, j \in DOMAIN s : s[i] = s[j] => i = j
    /\ Respects(s, d)

\* The parts of a draft.
LEMMA GraphTyped ==
    ASSUME NEW d \in Graph
    PROVE  /\ Len(d) \in Nat /\ DOMAIN d = 1 .. Len(d)
           /\ \A i \in DOMAIN d : d[i] \in [step_key : Nat, depends_on : SUBSET Nat]
           /\ StepKeys(d) \subseteq Nat
           /\ Closed(d) => \A k : Dependencies(d, k) \subseteq StepKeys(d)
<1>1. /\ Len(d) \in Nat /\ DOMAIN d = 1 .. Len(d)
      /\ \A i \in DOMAIN d : d[i] \in [step_key : Nat, depends_on : SUBSET Nat]
  <2>1. ASSUME NEW R, d \in Seq(R)
        PROVE  Len(d) \in Nat /\ DOMAIN d = 1 .. Len(d) /\ \A i \in DOMAIN d : d[i] \in R
    BY <2>1
  <2> QED BY <2>1, Zenon DEF Graph
<1> QED BY <1>1 DEF StepKeys, Dependencies, Closed

\* A turn of the loop keeps that, and adds a step as long as one is ready.
LEMMA GrownPlaces ==
    ASSUME NEW d \in Graph, Closed(d), NEW s, Placed(d, s)
    PROVE  /\ Placed(d, Grown(d, s))
           /\ Len(s) \in Nat
           /\ Len(Grown(d, s)) = IF Ready(d, s) = {} THEN Len(s) ELSE Len(s) + 1
<1>1. s \in Seq(StepKeys(d)) /\ Len(s) \in Nat /\ DOMAIN s = 1 .. Len(s)
  BY DEF Placed
<1>2. CASE Ready(d, s) = {}
  BY <1>1, <1>2 DEF Grown
<1>3. CASE Ready(d, s) # {}
  <2>1. Ready(d, s) \in SUBSET Nat
    BY GraphTyped DEF Ready, Waiting
  <2> DEFINE k == CHOOSE k \in Ready(d, s) : \A j \in Ready(d, s) : k <= j
  <2>2. k \in Ready(d, s)
    BY <1>3, <2>1, LeastNatural
  <2>3. Grown(d, s) = Append(s, k)
    BY <1>3 DEF Grown
  <2> HIDE DEF k
  <2>4. /\ k \in StepKeys(d) /\ \A i \in DOMAIN s : s[i] # k
        /\ \A x \in Dependencies(d, k) : \E i \in DOMAIN s : s[i] = x
    BY <2>2, GraphTyped DEF Ready, Waiting
  <2> DEFINE q == Append(s, k)
  <2>5. /\ q \in Seq(StepKeys(d)) /\ Len(q) = Len(s) + 1 /\ DOMAIN q = 1 .. Len(s) + 1
        /\ \A i \in 1 .. Len(s) : q[i] = s[i]
        /\ q[Len(s) + 1] = k
    BY <1>1, <2>4
  <2> HIDE DEF q
  <2>6. \A i, j \in DOMAIN q : q[i] = q[j] => i = j
    <3>1. \A i \in 1 .. Len(s) + 1 : i = Len(s) + 1 \/ i \in 1 .. Len(s)
      BY <1>1
    <3> QED BY <1>1, <2>4, <2>5, <3>1 DEF Placed
  <2>7. \A i \in DOMAIN q : Dependencies(d, q[i]) \subseteq {q[j] : j \in 1 .. i - 1}
    <3>1. SUFFICES ASSUME NEW i \in DOMAIN q, NEW x \in Dependencies(d, q[i])
                   PROVE  \E j \in 1 .. i - 1 : q[j] = x
      OBVIOUS
    <3>2. CASE i \in 1 .. Len(s)
      <4>1. PICK j \in 1 .. i - 1 : s[j] = x
        BY <1>1, <2>5, <3>1, <3>2 DEF Placed, Respects
      <4> QED BY <1>1, <2>5, <3>2, <4>1
    <3>3. CASE i = Len(s) + 1
      <4>1. PICK j \in DOMAIN s : s[j] = x
        BY <2>4, <2>5, <3>1, <3>3
      <4> QED BY <1>1, <2>5, <3>3, <4>1
    <3> QED BY <1>1, <2>5, <3>1, <3>2, <3>3
  <2>8. Placed(d, q)
    BY <2>5, <2>6, <2>7 DEF Placed, Respects
  <2> QED BY <1>1, <1>3, <2>3, <2>5, <2>8 DEF q
<1> QED BY <1>2, <1>3

\* So it holds after every turn.
LEMMA OrderPlaces ==
    ASSUME NEW d \in Graph, Closed(d), NEW f, Grows(d, Len(d), f)
    PROVE  /\ \A n \in 0 .. Len(d) : Placed(d, f[n])
           /\ f[0] = <<>>
           /\ \A n \in 1 .. Len(d) : f[n] = Grown(d, f[n - 1])
<1>1. Len(d) \in Nat
  BY GraphTyped
<1>2. f[0] = <<>> /\ \A n \in 1 .. Len(d) : f[n] = Grown(d, f[n - 1])
  BY <1>1 DEF Grows
<1> DEFINE T == {n \in 0 .. Len(d) : ~Placed(d, f[n])}
<1>3. ASSUME T # {} PROVE FALSE
  <2>1. PICK n \in T : \A m \in T : n <= m
    <3>1. T \in SUBSET Nat
      BY <1>1
    <3> QED BY <1>3, <3>1, LeastNatural
  <2>2. n \in 0 .. Len(d) /\ ~Placed(d, f[n])
    OBVIOUS
  <2>3. n # 0
    <3>1. Placed(d, <<>>)
      BY DEF Placed, Respects
    <3> QED BY <1>2, <2>2, <3>1
  <2>4. n - 1 \in 0 .. Len(d) /\ n \in 1 .. Len(d) /\ ~(n <= n - 1)
    BY <1>1, <2>2, <2>3
  <2>5. Placed(d, f[n - 1])
    BY <2>1, <2>4
  <2> QED BY <1>2, <2>2, <2>4, <2>5, GrownPlaces
<1> QED BY <1>2, <1>3

\* A draft has as many keys as steps.
LEMMA KeysCounted ==
    ASSUME NEW d \in Graph, WellFormed(d)
    PROVE  IsFiniteSet(StepKeys(d)) /\ Cardinality(StepKeys(d)) = Len(d)
<1> DEFINE N == Len(d)
           key == [i \in 1 .. N |-> d[i].step_key]
<1>1. N \in Nat /\ DOMAIN d = 1 .. N
  BY GraphTyped
<1>2. key \in [1 .. N -> StepKeys(d)] /\ \A k \in StepKeys(d) : \E i \in 1 .. N : key[i] = k
  BY <1>1 DEF StepKeys
<1>3. \A i, j \in 1 .. N : key[i] = key[j] => i = j
  BY <1>1 DEF WellFormed, IsInjective
<1> HIDE DEF key, N
<1>4. key \in Bijection(1 .. N, StepKeys(d))
  BY <1>2, <1>3 DEF Bijection, Injection, Surjection, IsInjective
<1>5. IsFiniteSet(1 .. N) /\ Cardinality(1 .. N) = N
  <2>1. 1 \in Int /\ N \in Int
    BY <1>1
  <2>2. IsFiniteSet(1 .. N) /\ Cardinality(1 .. N) = IF 1 > N THEN 0 ELSE N - 1 + 1
    BY <2>1, FS_Interval, ZenonT(30)
  <2> QED BY <1>1, <2>2
<1>6. IsFiniteSet(StepKeys(d)) /\ Cardinality(StepKeys(d)) = Cardinality(1 .. N)
  BY <1>4, <1>5, FS_Bijection, Zenon DEF ExistsBijection
<1> QED BY <1>5, <1>6 DEF N

\* A sequence that places as many steps as there are places them all.
LEMMA PlacedCounts ==
    ASSUME NEW d \in Graph, WellFormed(d), NEW s, Placed(d, s)
    PROVE  /\ Len(s) \in Nat /\ Len(s) <= Len(d)
           /\ Len(s) = Len(d) <=> ToSet(s) = StepKeys(d)
<1> DEFINE n == Len(s)
<1>1. s \in [1 .. n -> StepKeys(d)] /\ n \in Nat /\ DOMAIN s = 1 .. n
  BY DEF Placed
<1> HIDE DEF n
<1>2. s \in Injection(1 .. n, StepKeys(d))
  BY <1>1 DEF Placed, Injection, IsInjective
<1>3. IsFiniteSet(1 .. n) /\ Cardinality(1 .. n) = n
  <2>1. 1 \in Int /\ n \in Int
    BY <1>1
  <2>2. IsFiniteSet(1 .. n) /\ Cardinality(1 .. n) = IF 1 > n THEN 0 ELSE n - 1 + 1
    BY <2>1, FS_Interval, ZenonT(30)
  <2> QED BY <1>1, <2>2
<1>4. /\ n <= Len(d)
      /\ n = Len(d) <=> s \in Surjection(1 .. n, StepKeys(d))
  BY <1>2, <1>3, KeysCounted, FS_Injection
<1>5. s \in Surjection(1 .. n, StepKeys(d)) <=> ToSet(s) = StepKeys(d)
  BY <1>1 DEF Surjection, ToSet
<1> QED BY <1>1, <1>4, <1>5 DEF n

\* If all are placed, the first of a group depends on none of the group.
LEMMA PlacedIsAcyclic ==
    ASSUME NEW d \in Graph, NEW s, Placed(d, s), ToSet(s) = StepKeys(d)
    PROVE  Acyclic(d)
<1>1. SUFFICES ASSUME NEW group \in (SUBSET StepKeys(d)) \ {{}}
               PROVE  \E k \in group : Dependencies(d, k) \cap group = {}
  BY DEF Acyclic
<1> DEFINE T == {i \in DOMAIN s : s[i] \in group}
<1>2. DOMAIN s = 1 .. Len(s) /\ Len(s) \in Nat
  BY DEF Placed
<1>3. T \in SUBSET Nat
  BY <1>2
<1>4. T # {}
  <2>1. PICK k \in group : k \in ToSet(s)
    BY <1>1
  <2> QED BY <2>1 DEF ToSet
<1>5. PICK i \in T : \A j \in T : i <= j
  BY <1>3, <1>4, LeastNatural
<1>6. \A j \in 1 .. i - 1 : s[j] \notin group
  BY <1>2, <1>5
<1>7. Dependencies(d, s[i]) \subseteq {s[j] : j \in 1 .. i - 1}
  BY DEF Placed, Respects
<1> QED BY <1>6, <1>7

\* If no group depends on itself, some waiting step is always ready.
LEMMA AcyclicIsPlaced ==
    ASSUME NEW d \in Graph, WellFormed(d), Closed(d), Acyclic(d)
    PROVE  Len(Ordered(d)) = Len(d)
<1> DEFINE N == Len(d)
<1>1. PICK f : Grows(d, N, f) /\ Ordered(d) = f[N]
  BY OrderUnfolds
<1>2. /\ \A n \in 0 .. N : Placed(d, f[n])
      /\ f[0] = <<>> /\ \A n \in 1 .. N : f[n] = Grown(d, f[n - 1])
  BY <1>1, OrderPlaces
<1>3. N \in Nat
  BY GraphTyped
<1> DEFINE T == {n \in 0 .. N : Len(f[n]) # n}
<1>4. ASSUME T # {} PROVE FALSE
  <2>1. PICK n \in T : \A m \in T : n <= m
    <3>1. T \in SUBSET Nat
      BY <1>3
    <3> QED BY <1>4, <3>1, LeastNatural
  <2>2. n \in 0 .. N /\ Len(f[n]) # n
    OBVIOUS
  <2>3. n # 0
    BY <1>2, <2>2
  <2>4. n - 1 \in 0 .. N /\ n \in 1 .. N /\ ~(n <= n - 1) /\ n - 1 # N /\ n - 1 + 1 = n
    BY <1>3, <2>2, <2>3
  <2>5. Placed(d, f[n - 1]) /\ Len(f[n - 1]) = n - 1 /\ f[n] = Grown(d, f[n - 1])
    BY <1>2, <2>1, <2>4
  <2> PICK s : s = f[n - 1]
    OBVIOUS
  <2>6. ToSet(s) # StepKeys(d)
    BY <2>4, <2>5, PlacedCounts
  <2>7. s \in Seq(StepKeys(d))
    BY <2>5 DEF Placed
  <2>8. Waiting(d, s) # {} /\ Waiting(d, s) \in SUBSET StepKeys(d)
    BY <2>6, <2>7 DEF Waiting, ToSet
  <2>9. Ready(d, s) # {}
    BY <2>8 DEF Acyclic, Ready
  <2>10. Len(f[n]) = n
    BY <2>4, <2>5, <2>9, GrownPlaces
  <2> QED BY <2>2, <2>10
<1> QED BY <1>1, <1>3, <1>4

\* validate_graph accepts exactly the well-formed drafts whose dependencies are
\* steps of the draft and form no cycle, however many steps there are.
THEOREM AcceptsAcyclic ==
    ASSUME NEW d \in Graph
    PROVE  validate_graph(d) <=> WellFormed(d) /\ Closed(d) /\ Acyclic(d)
<1>1. ASSUME validate_graph(d) PROVE WellFormed(d) /\ Closed(d) /\ Acyclic(d)
  <2>1. WellFormed(d) /\ Closed(d) /\ Len(Ordered(d)) = Len(d)
    BY <1>1 DEF validate_graph, Closed
  <2>2. Placed(d, Ordered(d))
    BY <2>1, OrderUnfolds, OrderPlaces, GraphTyped
  <2> QED BY <2>1, <2>2, PlacedCounts, PlacedIsAcyclic
<1>2. ASSUME WellFormed(d), Closed(d), Acyclic(d) PROVE validate_graph(d)
  <2>1. ASSUME NEW i \in DOMAIN d, d[i].step_key \in d[i].depends_on PROVE FALSE
    <3> DEFINE k == d[i].step_key
    <3>1. k \in StepKeys(d) /\ k \in Dependencies(d, k)
      BY <2>1 DEF StepKeys, Dependencies
    <3> HIDE DEF k
    <3>2. {k} \in (SUBSET StepKeys(d)) \ {{}}
      <4>1. {k} \in SUBSET StepKeys(d) /\ {k} # {}
        BY <3>1, Zenon
      <4> QED BY <4>1, Zenon
    <3>3. \E j \in {k} : Dependencies(d, j) \cap {k} = {}
      BY <1>2, <3>2 DEF Acyclic
    <3> QED BY <3>1, <3>3
  <2> QED BY <1>2, <2>1, AcyclicIsPlaced DEF validate_graph, Closed
<1> QED BY <1>1, <1>2

\* The order of a valid draft is complete and respects its dependencies.
LEMMA OrderStands ==
    ASSUME NEW d \in Graph, validate_graph(d)
    PROVE  Acyclic(d) /\ Len(Ordered(d)) = Len(d) /\ Respects(Ordered(d), d)
<1>1. Closed(d) /\ Len(Ordered(d)) = Len(d)
  BY DEF validate_graph, Closed
<1>2. Placed(d, Ordered(d))
  BY <1>1, OrderUnfolds, OrderPlaces, GraphTyped
<1> QED BY <1>1, <1>2, AcceptsAcyclic DEF Placed

\* create_run rebuilds the draft a version was made of.
LEMMA Rebuilds ==
    ASSUME NEW d \in Graph, WellFormed(d)
    PROVE  Reread(Stored(d)) = d
<1> DEFINE N == Len(d)
           row(i) == [step_key |-> d[i].step_key, position |-> i]
           steps == Stored(d).steps
           edges == Stored(d).edges
<1>1. /\ N \in Nat /\ DOMAIN d = 1 .. N
      /\ \A i \in 1 .. N : d[i] \in [step_key : Nat, depends_on : SUBSET Nat]
  BY GraphTyped
<1>2. \A i, j \in 1 .. N : d[i].step_key = d[j].step_key => i = j
  BY <1>1 DEF WellFormed, IsInjective
<1>3. steps = {row(i) : i \in 1 .. N}
  BY <1>1 DEF Stored
<1>4. Cardinality(steps) = N
  <2> DEFINE g == [i \in 1 .. N |-> row(i)]
  <2>1. g \in [1 .. N -> steps] /\ \A s \in steps : \E i \in 1 .. N : g[i] = s
    BY <1>3
  <2>2. \A i, j \in 1 .. N : g[i] = g[j] => i = j
    OBVIOUS
  <2> HIDE DEF g, N, steps
  <2>3. g \in Bijection(1 .. N, steps)
    BY <2>1, <2>2 DEF Bijection, Injection, Surjection, IsInjective
  <2>4. IsFiniteSet(1 .. N) /\ Cardinality(1 .. N) = N
    <3>1. 1 \in Int /\ N \in Int
      BY <1>1
    <3>2. IsFiniteSet(1 .. N) /\ Cardinality(1 .. N) = IF 1 > N THEN 0 ELSE N - 1 + 1
      BY <3>1, FS_Interval, ZenonT(30)
    <3> QED BY <1>1, <3>2
  <2>5. Cardinality(1 .. N) = Cardinality(steps)
    BY <2>3, <2>4, FS_Bijection, Zenon DEF ExistsBijection
  <2> QED BY <2>4, <2>5
<1>5. ASSUME NEW i \in 1 .. N
      PROVE  /\ (CHOOSE s \in steps : s.position = i) = row(i)
             /\ {e[2] : e \in {x \in edges : x[1] = d[i].step_key}} = d[i].depends_on
  <2>1. \A s \in steps : s.position = i => s = row(i)
    BY <1>3
  <2>2. row(i) \in steps /\ row(i).position = i
    BY <1>3
  <2>3. edges = UNION {{d[j].step_key} \X d[j].depends_on : j \in 1 .. N}
    BY <1>1 DEF Stored
  <2> HIDE DEF edges, steps, row
  <2>4. (CHOOSE s \in steps : s.position = i) = row(i)
    BY <2>1, <2>2
  <2>5. \A x \in edges : \E j \in 1 .. N : x[1] = d[j].step_key /\ x[2] \in d[j].depends_on
    BY <2>3
  <2>6. \A y \in d[i].depends_on : <<d[i].step_key, y>> \in edges
    BY <2>3
  <2>7. \A x \in edges : x[1] = d[i].step_key => x[2] \in d[i].depends_on
    BY <1>2, <2>5
  <2>8. {e[2] : e \in {x \in edges : x[1] = d[i].step_key}} \subseteq d[i].depends_on
    BY <2>7
  <2>9. d[i].depends_on \subseteq {e[2] : e \in {x \in edges : x[1] = d[i].step_key}}
    <3>1. SUFFICES ASSUME NEW y \in d[i].depends_on
                   PROVE  \E e \in {x \in edges : x[1] = d[i].step_key} : y = e[2]
      OBVIOUS
    <3>2. <<d[i].step_key, y>> \in {x \in edges : x[1] = d[i].step_key}
      BY <2>6
    <3> QED BY <3>2
  <2> QED BY <2>4, <2>8, <2>9
<1> DEFINE key(i) == (CHOOSE s \in steps : s.position = i).step_key
<1>6. Reread(Stored(d)) =
          [i \in 1 .. N |-> [step_key |-> key(i),
                            depends_on |-> {e[2] : e \in {x \in edges : x[1] = key(i)}}]]
  BY <1>4 DEF Reread
<1>7. \A i \in 1 .. N : key(i) = d[i].step_key
  <2>1. TAKE i \in 1 .. N
  <2>2. (CHOOSE s \in steps : s.position = i) = row(i)
    BY <1>5
  <2>3. row(i).step_key = d[i].step_key
    OBVIOUS
  <2> HIDE DEF row, steps
  <2> QED BY <2>2, <2>3
<1> HIDE DEF key, edges
<1>8. \A i \in 1 .. N : Reread(Stored(d))[i] = d[i]
  <2>1. TAKE i \in 1 .. N
  <2>2. {e[2] : e \in {x \in edges : x[1] = d[i].step_key}} = d[i].depends_on
    BY <1>5
  <2>3. key(i) = d[i].step_key
    BY <1>7
  <2>4. Reread(Stored(d))[i] = [step_key |-> key(i),
                               depends_on |-> {e[2] : e \in {x \in edges : x[1] = key(i)}}]
    BY <1>6
  <2>5. Reread(Stored(d))[i] = [step_key |-> d[i].step_key, depends_on |-> d[i].depends_on]
    BY <2>2, <2>3, <2>4
  <2> QED BY <1>1, <2>5
<1>9. Reread(Stored(d)) = [i \in 1 .. N |-> Reread(Stored(d))[i]]
  BY <1>6
<1>10. d = [i \in 1 .. N |-> d[i]]
  BY <1>1 DEF Graph
<1> QED BY <1>8, <1>9, <1>10

-----------------------------------------------------------------------------
(* Requests.                                                               *)

Modes == {"key", "update", "share"}
Labels == {"idle", "write", "cascade", "log", "commit", "run", "handoff"}
RowIds == Projects \cup Tasks
Event == [kind : {"event"}, id : EventIds, at : Nat, about : RowIds \cup {None},
          project : Projects \cup {None}, task : Tasks \cup {None}]
Record == [kind : {"audit"}, about : RowIds]
Creating(r) == r.op \in {"create_project", "create_task"}
Deleting(r) == r.op \in {"delete_project", "delete_task"}

PlanRows == {Stored(d) : d \in Drafts \cup {DevelopmentPlan}}
PlanVersion == [version : Nat, rows : PlanRows]
RunRow == [version : Nat, request : BOOLEAN]

TypeOK ==
    /\ project \in [Projects -> Slugs \cup {"new", "gone"}]
    /\ task \in [Tasks -> Projects \cup {"new", "gone"}]
    /\ plans \in [Tasks -> Seq(PlanVersion)]
    /\ runs \in [Tasks -> Seq(RunRow)]
    /\ events \in SUBSET Event
    /\ audits \in [RowIds -> Nat] /\ updates \in [RowIds -> Nat]
    /\ clock \in Nat /\ begun \in 0 .. MaxRequests
    /\ pc \in [Sessions -> Labels]
    /\ req \in [Sessions -> Request]
    /\ number \in [Sessions -> Nat] /\ since \in [Sessions -> Nat]
    /\ held \in [Sessions -> SUBSET (RowIds \X Modes)]
    /\ staged \in [Sessions -> SUBSET (Event \cup Record)]

\* What a request carries, by its operation.
LEMMA RequestFits ==
    /\ NoRequest \in Request
    /\ \A r \in Request :
          /\ r.op \in {"create_project", "update_project", "delete_project", "create_task",
                       "update_task", "delete_task", "create_run", "create_plan",
                       "create_version", "develop", "report"}
          /\ r.op = "report" => r.project = None /\ r.task = None /\ r.slug = None
          /\ r.op \in {"create_project", "update_project", "delete_project"} =>
                r.project \in Projects /\ r.task = None
          /\ r.op \notin {"create_project", "update_project", "delete_project", "report"} =>
                r.project \in Projects /\ r.task \in Tasks
          /\ r.op = "create_project" => r.slug \in Slugs
          /\ r.slug = None \/ (r.slug \in Slugs /\ r.op \in {"create_project", "update_project"})
          /\ Planning(r) => r.draft \in Drafts \cup {DevelopmentPlan}
BY DEF Request, NoRequest, Planning

\* Ids, slugs and statuses are told apart.
LEMMA NamesDiffer ==
    /\ None \notin Projects /\ None \notin Tasks /\ None \notin Slugs
    /\ "new" \notin Projects /\ "gone" \notin Projects
    /\ "new" \notin Slugs /\ "gone" \notin Slugs
    /\ \A p \in Projects : p \notin Tasks
BY RecordsAssumption

\* The rest of the sessions stay as they are.
Same(b) ==
    /\ pc'[b] = pc[b] /\ req'[b] = req[b] /\ number'[b] = number[b]
    /\ since'[b] = since[b] /\ held'[b] = held[b] /\ staged'[b] = staged[b]

Others(a) ==
    /\ \A b \in Sessions \ {a} : Same(b)
    /\ pc' = [b \in Sessions |-> pc'[b]] /\ req' = [b \in Sessions |-> req'[b]]
    /\ number' = [b \in Sessions |-> number'[b]] /\ since' = [b \in Sessions |-> since'[b]]
    /\ held' = [b \in Sessions |-> held'[b]] /\ staged' = [b \in Sessions |-> staged'[b]]

\* What a step does to its own session.
Ended(a) ==
    /\ pc'[a] = "idle" /\ req'[a] = NoRequest /\ number'[a] = 0
    /\ since'[a] = 0 /\ held'[a] = {} /\ staged'[a] = {}
    /\ begun' = begun

Begins(a) ==
    /\ pc[a] = "idle" /\ req'[a] \in Request
    /\ req'[a].op = "create_project" => Unused(req'[a].project, project[req'[a].project])
    /\ req'[a].op = "create_task" => Unused(req'[a].task, task[req'[a].task])
    /\ Planning(req'[a]) => validate_graph(req'[a].draft)
    /\ number'[a] \in PlanNumbers(req'[a])
    /\ pc'[a] = CASE req'[a].op = "report" -> "log"
                  [] req'[a].op = "create_run" -> "run" [] OTHER -> "write"
    /\ since'[a] = clock + 1
    /\ held'[a] = held[a] /\ staged'[a] = staged[a]
    /\ begun < MaxRequests /\ begun' = begun + 1

Writes(a) ==
    /\ pc[a] = "write" /\ ~Blocked(a) /\ Accepted(req[a], number[a])
    /\ held'[a] = held[a] \cup Wants(a)
    /\ pc'[a] = CASE req[a].op = "delete_project" -> "cascade"
                  [] req[a].op = "delete_task"    -> "commit"
                  [] OTHER                        -> "log"
    /\ req'[a] = req[a] /\ number'[a] = number[a] /\ since'[a] = since[a]
    /\ staged'[a] = staged[a] /\ begun' = begun

Cascades(a) ==
    /\ pc[a] = "cascade" /\ ~Blocked(a)
    /\ held'[a] = held[a] \cup Wants(a) /\ pc'[a] = "commit"
    /\ req'[a] = req[a] /\ number'[a] = number[a] /\ since'[a] = since[a]
    /\ staged'[a] = staged[a] /\ begun' = begun

Logs(a) ==
    /\ pc[a] = "log" /\ ~Blocked(a)
    /\ held'[a] = held[a] \cup Wants(a) /\ pc'[a] = "commit"
    /\ req'[a] = req[a] /\ number'[a] = number[a] /\ since'[a] = since[a]
    /\ staged'[a] = IF Updating(req[a]) THEN NewRecord(a) ELSE NewEvents(a)
    /\ begun' = begun

Runs(a) ==
    /\ pc[a] = "run" /\ req[a].op = "develop"
    /\ pc'[a] = "handoff" /\ number'[a] = Len(runs'[req[a].task])
    /\ req'[a] = req[a] /\ since'[a] = since[a]
    /\ held'[a] = held[a] /\ staged'[a] = staged[a] /\ begun' = begun

\* What it does to the runs.
RunAdded(a) ==
    /\ pc[a] = "run" /\ (Ended(a) \/ Runs(a))
    /\ runs' = [runs EXCEPT ![req[a].task] = Append(@, [version |-> number[a], request |-> FALSE])]
RunHanded(a) ==
    /\ pc[a] = "handoff" /\ Ended(a)
    /\ runs' = [runs EXCEPT ![req[a].task][number[a]].request = TRUE]
RunsMove(a) ==
    \/ runs' = runs /\ pc'[a] # "handoff"
    \/ RunAdded(a) \/ RunHanded(a)

Step(a) == Ended(a) \/ Begins(a) \/ Writes(a) \/ Cascades(a) \/ Logs(a) \/ Runs(a)

\* Every step of RecordsStep is one of these, and changes no table but runs.
LEMMA StepIs ==
    ASSUME TypeOK, RecordsStep
    PROVE  /\ UNCHANGED <<project, task, plans, events, audits, updates>>
           /\ clock' \in {clock, clock + 1}
           /\ \E a \in Sessions : Step(a) /\ Others(a) /\ RunsMove(a)
<1>1. ASSUME NEW a \in Sessions, Release(a)
      PROVE  Ended(a) /\ clock' = clock /\ Others(a)
  BY <1>1 DEF TypeOK, Release, Goto, Ended, Others, Same
<1>2. ASSUME NEW a \in Sessions, Rollback(a)
      PROVE  /\ UNCHANGED <<project, task, plans, events, audits, updates>>
             /\ Ended(a) /\ clock' = clock /\ Others(a) /\ RunsMove(a)
  BY <1>1, <1>2 DEF Rollback, tables, RunsMove, Ended
<1>3. PICK a \in Sessions :
          \/ \E r \in Request : Begin(a, r)
          \/ Write(a) \/ Cascade(a) \/ append_event(a) \/ append_record(a) \/ LogFails(a)
          \/ create_run(a) \/ add_handoff(a) \/ Deadlock(a) \/ Die(a)
  BY DEF RecordsStep
<1>4. CASE \E r \in Request : Begin(a, r)
  <2>1. PICK r \in Request : Begin(a, r)
    BY <1>4
  <2>2. Begins(a) /\ Others(a)
    BY <2>1 DEF TypeOK, Begin, At, Goto, Begins, Others, Same
  <2>3. RunsMove(a)
    BY <2>1, <2>2 DEF Begin, tables, RunsMove, Begins
  <2> QED BY <2>1, <2>2, <2>3 DEF Begin, tables, Step
<1>5. CASE Write(a)
  <2>1. CASE Accepted(req[a], number[a])
    <3>1. Writes(a) /\ Others(a)
      BY <1>5, <2>1 DEF TypeOK, Write, At, Goto, Writes, Others, Same
    <3>2. RunsMove(a)
      BY <1>5, <2>1, <3>1 DEF Write, tables, RunsMove, Writes
    <3> QED BY <1>5, <2>1, <3>1, <3>2 DEF Write, tables, Step
  <2>2. CASE ~Accepted(req[a], number[a])
    BY <1>2, <1>5, <2>2 DEF Write, Step
  <2> QED BY <2>1, <2>2
<1>6. CASE Cascade(a)
  <2>1. CASE TasksOf(req[a].project) \cap Planned = {}
    <3>1. Cascades(a) /\ Others(a)
      BY <1>6, <2>1 DEF TypeOK, Cascade, At, Goto, Cascades, Others, Same
    <3>2. RunsMove(a)
      BY <1>6, <2>1, <3>1 DEF Cascade, tables, RunsMove, Cascades
    <3> QED BY <1>6, <2>1, <3>1, <3>2 DEF Cascade, tables, Step
  <2>2. CASE ~(TasksOf(req[a].project) \cap Planned = {})
    BY <1>2, <1>6, <2>2 DEF Cascade, Step
  <2> QED BY <2>1, <2>2
<1>7. CASE append_event(a) \/ append_record(a)
  <2>1. Logs(a) /\ Others(a)
    BY <1>7 DEF TypeOK, append_event, append_record, Logged, At, Goto, Logs, Others, Same
  <2>2. RunsMove(a)
    BY <1>7, <2>1 DEF append_event, append_record, Logged, tables, RunsMove, Logs
  <2> QED BY <1>7, <2>1, <2>2 DEF append_event, append_record, Logged, tables, Step
<1>8. CASE LogFails(a) \/ Deadlock(a) \/ Die(a)
  BY <1>2, <1>8 DEF LogFails, Deadlock, Die, Step
<1>9. CASE create_run(a)
  <2>1. CASE ~validate_graph(Reread(Rows(req[a].task, number[a])))
    BY <1>2, <1>9, <2>1 DEF create_run, Step
  <2>2. CASE validate_graph(Reread(Rows(req[a].task, number[a])))
    <3>1. /\ pc[a] = "run"
          /\ runs' = [runs EXCEPT ![req[a].task] =
                         Append(@, [version |-> number[a], request |-> FALSE])]
          /\ UNCHANGED <<project, task, plans, events, audits, updates>>
      BY <1>9, <2>2 DEF create_run, At
    <3>2. CASE req[a].op # "develop"
      <4>1. Release(a)
        BY <1>9, <2>2, <3>2 DEF create_run
      <4> QED BY <1>1, <3>1, <4>1 DEF Step, RunsMove, RunAdded
    <3>3. CASE req[a].op = "develop"
      <4>1. Runs(a) /\ Others(a) /\ clock' = clock
        BY <1>9, <2>2, <3>3 DEF TypeOK, create_run, At, Goto, Runs, Others, Same
      <4> QED BY <3>1, <4>1 DEF Step, RunsMove, RunAdded
    <3> QED BY <3>2, <3>3
  <2> QED BY <2>1, <2>2
<1>10. CASE add_handoff(a)
  BY <1>1, <1>10 DEF add_handoff, At, Step, RunsMove, RunHanded
<1> QED BY <1>3, <1>4, <1>5, <1>6, <1>7, <1>8, <1>9, <1>10

\* What a commit does to its session, and to the events.
Commits(a) ==
    /\ pc[a] = "commit"
    /\ events' = {Unlinked(e, Deleted(req[a])) : e \in events}
                 \cup {x \in staged[a] : x.kind = "event"}
    /\ \/ req[a].op # "develop" /\ Ended(a)
       \/ /\ req[a].op = "develop" /\ pc'[a] = "run" /\ req'[a] = req[a] /\ number'[a] = number[a]
          /\ since'[a] = since[a] /\ held'[a] = {} /\ staged'[a] = {} /\ begun' = begun

LEMMA CommitIs ==
    ASSUME TypeOK, NEW a \in Sessions, Commit(a)
    PROVE  Commits(a) /\ Others(a) /\ clock' = clock
<1>1. pc[a] = "commit" /\ events' = {Unlinked(e, Deleted(req[a])) : e \in events}
                                    \cup {x \in staged[a] : x.kind = "event"}
  BY DEF Commit, At
<1>2. CASE req[a].op # "develop"
  <2>1. Release(a)
    BY <1>2 DEF Commit
  <2> QED BY <1>1, <1>2, <2>1 DEF TypeOK, Release, Goto, Ended, Commits, Others, Same
<1>3. CASE req[a].op = "develop"
  <2>1. /\ Goto(a, "run")
        /\ held' = [held EXCEPT ![a] = {}]
        /\ staged' = [staged EXCEPT ![a] = {}]
        /\ UNCHANGED <<req, number, since, clock, begun>>
    BY <1>3 DEF Commit
  <2> QED BY <1>1, <1>3, <2>1 DEF TypeOK, Goto, Commits, Others, Same
<1> QED BY <1>2, <1>3

\* The labels a request passes.
LabelsFit ==
    \A a \in Sessions :
        /\ pc[a] = "idle" => req[a] = NoRequest /\ held[a] = {}
        /\ pc[a] = "write" => req[a].op \notin {"create_run", "report"}
        /\ pc[a] = "log" => req[a].op # "create_run" /\ ~Deleting(req[a])
        /\ pc[a] = "cascade" => req[a].op = "delete_project"
        /\ pc[a] = "commit" => req[a].op # "create_run"
        /\ pc[a] = "run" => req[a].op \in {"create_run", "develop"}
        /\ pc[a] = "handoff" => req[a].op = "develop"

\* What a request has flushed when it comes to its commit.
StagedFits ==
    \A a \in Sessions :
        /\ pc[a] # "commit" \/ Deleting(req[a]) => staged[a] = {}
        /\ pc[a] = "commit" /\ Updating(req[a]) => staged[a] = NewRecord(a)
        /\ pc[a] = "commit" /\ Creating(req[a]) => \E i \in EventIds : staged[a] =
              {[kind |-> "event", id |-> i, at |-> since[a], about |-> Subject(req[a]),
                project |-> req[a].project, task |-> req[a].task]}
        /\ pc[a] = "commit" /\ req[a].op = "report" => \A e \in staged[a] :
              e.kind = "event" /\ e.about = None /\ e.project = None /\ e.task = None

\* Locks are on rows.
LEMMA Wanted ==
    ASSUME TypeOK, NEW a \in Sessions, pc[a] # "run"
    PROVE  Wants(a) \subseteq RowIds \X Modes
<1>1. req[a] \in Request
  BY DEF TypeOK
<1> QED BY <1>1, RequestFits DEF Wants, Modes, RowIds, TasksOf, Planning

\* What a request flushes is typed.
LEMMA Flushed ==
    ASSUME TypeOK, NEW a \in Sessions
    PROVE  /\ NewEvents(a) \subseteq Event
           /\ Updating(req[a]) => NewRecord(a) \subseteq Record
<1>1. req[a] \in Request /\ since[a] \in Nat
  BY DEF TypeOK
<1>2. Subject(req[a]) \in RowIds \cup {None}
  BY <1>1, RequestFits DEF Subject, RowIds
<1>3. Updating(req[a]) => Subject(req[a]) \in RowIds
  BY <1>1, RequestFits DEF Subject, RowIds, Updating, Planning
<1>4. \A n : FreshIds(n) \subseteq EventIds
  BY DEF FreshIds
<1>5. req[a].project \in Projects \cup {None} /\ req[a].task \in Tasks \cup {None}
  BY <1>1, RequestFits
<1>6. NewEvents(a) \subseteq Event
  BY <1>1, <1>2, <1>4, <1>5 DEF NewEvents, Event
<1> QED BY <1>3, <1>6 DEF NewRecord, Record

\* So is the plan version it works with.
LEMMA NumbersTyped ==
    ASSUME TypeOK, NEW r \in Request
    PROVE  PlanNumbers(r) \subseteq Nat
<1>1. \A t \in Tasks : Versions(t) \subseteq Nat
  <2>1. TAKE t \in Tasks
  <2>2. plans[t] \in Seq(PlanVersion)
    BY DEF TypeOK
  <2>3. \A i \in DOMAIN plans[t] : plans[t][i] \in PlanVersion
    BY <2>2
  <2> QED BY <2>3 DEF Versions, PlanVersion
<1>2. r.op = "create_version" \/ r.op = "create_run" => r.task \in Tasks
  BY RequestFits
<1> QED BY <1>1, <1>2 DEF PlanNumbers

\* The initial tables are typed.
LEMMA InitTypes ==
    ASSUME RecordsInit
    PROVE  TypeOK
<1>1. PICK ps \in {{}, {CHOOSE p \in Projects : TRUE}}, slug \in Slugs :
          LET ts == IF ps = {} THEN {} ELSE {CHOOSE t \in Tasks : TRUE}
              created(i, x, p, t) == [kind |-> "event", id |-> i, at |-> 0, about |-> x,
                                      project |-> p, task |-> t]
          IN
          /\ project = [p \in Projects |-> IF p \in ps THEN slug ELSE "new"]
          /\ task = [t \in Tasks |-> IF t \in ts THEN CHOOSE p \in ps : TRUE ELSE "new"]
          /\ events = {created(1, p, p, None) : p \in ps}
                      \cup {created(2, t, task[t], t) : t \in ts}
  BY DEF RecordsInit
<1>2. (CHOOSE p \in Projects : TRUE) \in Projects /\ (CHOOSE t \in Tasks : TRUE) \in Tasks
  BY RecordsAssumption
<1>3. ps \subseteq Projects /\ (ps # {} => (CHOOSE p \in ps : TRUE) \in Projects)
  BY <1>1, <1>2
<1>4. /\ project \in [Projects -> Slugs \cup {"new", "gone"}]
      /\ task \in [Tasks -> Projects \cup {"new", "gone"}]
  BY <1>1, <1>2, <1>3
<1>5. events \in SUBSET Event
  <2>1. 1 \in EventIds /\ 2 \in EventIds
    BY RecordsAssumption
  <2>2. CASE ps = {}
    BY <1>1, <2>2
  <2>3. CASE ps # {}
    <3>1. PICK p \in Projects : ps = {p}
      BY <1>1, <1>2, <2>3
    <3>2. PICK t \in Tasks : t = CHOOSE x \in Tasks : TRUE
      BY <1>2
    <3>3. task[t] = p
      BY <1>1, <3>1, <3>2
    <3>4. events = {[kind |-> "event", id |-> 1, at |-> 0, about |-> p, project |-> p, task |-> None],
                    [kind |-> "event", id |-> 2, at |-> 0, about |-> t, project |-> p, task |-> t]}
      BY <1>1, <3>1, <3>2, <3>3
    <3> QED BY <2>1, <3>1, <3>2, <3>4 DEF Event, RowIds
  <2> QED BY <2>2, <2>3
<1>6. /\ plans \in [Tasks -> Seq(PlanVersion)]
      /\ runs \in [Tasks -> Seq(RunRow)]
  BY DEF RecordsInit
<1>7. /\ audits \in [RowIds -> Nat] /\ updates \in [RowIds -> Nat]
      /\ clock \in Nat /\ begun \in 0 .. MaxRequests
  BY RecordsAssumption DEF RecordsInit, RowIds
<1>8. /\ pc \in [Sessions -> Labels]
      /\ req \in [Sessions -> Request]
      /\ number \in [Sessions -> Nat] /\ since \in [Sessions -> Nat]
      /\ held \in [Sessions -> SUBSET (RowIds \X Modes)]
      /\ staged \in [Sessions -> SUBSET (Event \cup Record)]
  BY RequestFits DEF RecordsInit, Labels
<1> QED BY <1>4, <1>5, <1>6, <1>7, <1>8 DEF TypeOK

\* Every step but a commit keeps the types.
LEMMA StepTypes ==
    ASSUME TypeOK, RecordsStep
    PROVE  TypeOK'
<1>1. PICK a \in Sessions : Step(a) /\ Others(a)
  BY StepIs
<1>2. /\ UNCHANGED <<project, task, plans, events, audits, updates>>
      /\ clock' \in {clock, clock + 1}
  BY StepIs
<1>3. runs' \in [Tasks -> Seq(RunRow)]
  <2>1. ASSUME NEW b \in Sessions, create_run(b)
        PROVE  runs' \in [Tasks -> Seq(RunRow)]
    <3> DEFINE t == req[b].task
    <3>1. CASE UNCHANGED runs
      BY <3>1 DEF TypeOK
    <3>2. CASE runs' = [runs EXCEPT ![t] = Append(@, [version |-> number[b], request |-> FALSE])]
      <4>1. [version |-> number[b], request |-> FALSE] \in RunRow
        BY DEF TypeOK, RunRow
      <4>2. t \in Tasks => Append(runs[t], [version |-> number[b], request |-> FALSE])
                              \in Seq(RunRow)
        BY <4>1 DEF TypeOK
      <4> QED BY <3>2, <4>2 DEF TypeOK
    <3> QED BY <2>1, <3>1, <3>2 DEF create_run, Rollback, tables
  <2>2. ASSUME NEW b \in Sessions, add_handoff(b)
        PROVE  runs' \in [Tasks -> Seq(RunRow)]
    <3> DEFINE t == req[b].task
               n == number[b]
    <3>1. runs' = [x \in Tasks |-> IF x = t THEN [runs[x] EXCEPT ![n].request = TRUE] ELSE runs[x]]
      BY <2>2 DEF add_handoff, TypeOK
    <3> HIDE DEF t, n
    <3>2. ASSUME NEW x \in Tasks PROVE [runs[x] EXCEPT ![n].request = TRUE] \in Seq(RunRow)
      <4>1. runs[x] \in Seq(RunRow)
        BY DEF TypeOK
      <4>2. \A y \in RunRow : [y EXCEPT !.request = TRUE] \in RunRow
        BY DEF RunRow
      <4>3. DOMAIN runs[x] = 1 .. Len(runs[x]) /\ Len(runs[x]) \in Nat
            /\ \A i \in DOMAIN runs[x] : runs[x][i] \in RunRow
        BY <4>1
      <4>4. n \in DOMAIN runs[x] => [runs[x][n] EXCEPT !.request = TRUE] \in RunRow
        BY <4>2, <4>3
      <4>5. [runs[x] EXCEPT ![n].request = TRUE] =
                [i \in DOMAIN runs[x] |-> IF i = n THEN [runs[x][n] EXCEPT !.request = TRUE] ELSE runs[x][i]]
        OBVIOUS
      <4> DEFINE g(i) == IF i = n THEN [runs[x][n] EXCEPT !.request = TRUE] ELSE runs[x][i]
      <4>6. \A i \in 1 .. Len(runs[x]) : g(i) \in RunRow
        BY <4>3, <4>4
      <4> HIDE DEF g
      <4>7. [i \in 1 .. Len(runs[x]) |-> g(i)] \in Seq(RunRow)
        BY <4>3, <4>6
      <4> QED BY <4>3, <4>5, <4>7 DEF g
    <3> QED BY <3>1, <3>2 DEF TypeOK
  <2>3. CASE UNCHANGED runs
    BY <2>3 DEF TypeOK
  <2> QED BY <2>1, <2>2, <2>3 DEF RecordsStep, Begin, Write, Cascade, append_event, append_record,
                Logged, LogFails, Deadlock, Die, Rollback, tables
<1>4. /\ pc'[a] \in Labels /\ req'[a] \in Request /\ number'[a] \in Nat /\ since'[a] \in Nat
      /\ held'[a] \subseteq RowIds \X Modes /\ staged'[a] \subseteq Event \cup Record
      /\ begun' \in 0 .. MaxRequests
  <2>1. CASE Ended(a)
    BY <2>1, RequestFits DEF Ended, TypeOK, Labels
  <2>2. CASE Begins(a)
    <3>1. MaxRequests \in Nat /\ begun \in 0 .. MaxRequests /\ clock \in Nat
      BY RecordsAssumption DEF TypeOK
    <3>2. number'[a] \in Nat /\ pc'[a] \in Labels /\ req'[a] \in Request
      BY <2>2, NumbersTyped DEF Begins, Labels
    <3>3. begun' \in 0 .. MaxRequests /\ since'[a] \in Nat
      BY <2>2, <3>1 DEF Begins
    <3>4. held'[a] = held[a] /\ staged'[a] = staged[a]
      BY <2>2 DEF Begins
    <3> QED BY <3>2, <3>3, <3>4 DEF TypeOK
  <2>3. CASE Writes(a) \/ Cascades(a)
    BY <2>3, Wanted DEF Writes, Cascades, TypeOK, Labels
  <2>4. CASE Logs(a)
    BY <2>4, Wanted, Flushed DEF Logs, TypeOK, Labels
  <2>5. CASE Runs(a)
    <3>1. req[a].task \in Tasks
      BY <2>5, RequestFits DEF Runs, TypeOK
    <3> QED BY <1>3, <2>5, <3>1 DEF Runs, TypeOK, Labels
  <2> QED BY <1>1, <2>1, <2>2, <2>3, <2>4, <2>5 DEF Step
<1>5. /\ pc' \in [Sessions -> Labels]
      /\ req' \in [Sessions -> Request]
      /\ number' \in [Sessions -> Nat] /\ since' \in [Sessions -> Nat]
      /\ held' \in [Sessions -> SUBSET (RowIds \X Modes)]
      /\ staged' \in [Sessions -> SUBSET (Event \cup Record)]
  BY <1>1, <1>4 DEF Others, Same, TypeOK
<1>6. clock' \in Nat
  BY <1>2 DEF TypeOK
<1> QED BY <1>2, <1>3, <1>4, <1>5, <1>6 DEF TypeOK

\* A commit makes one record of an update, and none of anything else.
LEMMA CommitRecords ==
    ASSUME TypeOK, LabelsFit, StagedFits, NEW a \in Sessions, pc[a] = "commit", NEW x
    PROVE  Cardinality({y \in {z \in staged[a] : z.kind = "audit"} : y.about = x})
              = IF Updating(req[a]) /\ Subject(req[a]) = x THEN 1 ELSE 0
<1> DEFINE C == {y \in {z \in staged[a] : z.kind = "audit"} : y.about = x}
<1>1. req[a] \in Request /\ req[a].op # "create_run"
  BY DEF TypeOK, LabelsFit
<1>2. CASE Updating(req[a]) /\ Subject(req[a]) = x
  <2>1. C = {[kind |-> "audit", about |-> x]}
    BY <1>2 DEF StagedFits, NewRecord
  <2> QED BY <1>2, <2>1, FS_Singleton, Zenon
<1>3. CASE ~(Updating(req[a]) /\ Subject(req[a]) = x)
  <2>1. C = {}
    <3>1. CASE Updating(req[a])
      BY <1>3, <3>1 DEF StagedFits, NewRecord
    <3>2. CASE ~Updating(req[a])
      <4>1. Deleting(req[a]) \/ Creating(req[a]) \/ req[a].op = "report"
        BY <1>1, <3>2, RequestFits DEF Updating, Planning, Deleting, Creating
      <4>2. \A y \in staged[a] : y.kind = "event"
        BY <4>1 DEF StagedFits
      <4> QED BY <4>2
    <3> QED BY <3>1, <3>2
  <2> QED BY <1>3, <2>1, FS_EmptySet, Zenon
<1> QED BY <1>2, <1>3

\* What a commit does to the tables, row by row.
LEMMA CommitRows ==
    ASSUME TypeOK, LabelsFit, StagedFits, NEW a \in Sessions, Commit(a)
    PROVE  /\ project' \in [Projects -> Slugs \cup {"new", "gone"}]
           /\ task' \in [Tasks -> Projects \cup {"new", "gone"}]
           /\ audits' \in [RowIds -> Nat] /\ updates' \in [RowIds -> Nat]
           /\ \A p \in Projects :
                 project'[p] = IF p \in Deleted(req[a]) THEN "gone"
                               ELSE IF p = req[a].project /\ req[a].slug # None THEN req[a].slug
                               ELSE project[p]
           /\ \A t \in Tasks :
                 task'[t] = IF t \in Deleted(req[a]) THEN "gone"
                            ELSE IF t = req[a].task /\ req[a].op = "create_task" THEN req[a].project
                            ELSE task[t]
           /\ \A x \in RowIds : audits[x] = updates[x] => audits'[x] = updates'[x]
<1>1. req[a] \in Request /\ pc[a] = "commit"
  BY DEF TypeOK, Commit, At
<1>2. /\ project' = [p \in Projects |-> IF p \in Deleted(req[a]) THEN "gone"
                                         ELSE IF p = req[a].project /\ req[a].slug # None
                                         THEN req[a].slug ELSE project[p]]
      /\ task' = [t \in Tasks |-> IF t \in Deleted(req[a]) THEN "gone"
                                   ELSE IF t = req[a].task /\ req[a].op = "create_task"
                                   THEN req[a].project ELSE task[t]]
  BY DEF Commit
<1>3. req[a].slug # None => req[a].slug \in Slugs
  BY <1>1, RequestFits
<1>4. req[a].op = "create_task" => req[a].project \in Projects
  BY <1>1, RequestFits
<1>5. /\ project' \in [Projects -> Slugs \cup {"new", "gone"}]
      /\ task' \in [Tasks -> Projects \cup {"new", "gone"}]
  BY <1>2, <1>3, <1>4 DEF TypeOK
<1> DEFINE n(x) == IF Updating(req[a]) /\ Subject(req[a]) = x THEN 1 ELSE 0
<1>6. /\ audits' = [x \in RowIds |-> audits[x] + n(x)]
      /\ updates' = [x \in RowIds |-> updates[x] + n(x)]
  <2>1. DOMAIN audits = RowIds /\ DOMAIN updates = RowIds
    BY DEF TypeOK
  <2>2. audits' = [x \in RowIds |-> audits[x]
            + Cardinality({y \in {z \in staged[a] : z.kind = "audit"} : y.about = x})]
    BY <2>1 DEF Commit
  <2>3. updates' = [x \in RowIds |-> updates[x] + n(x)]
    BY <2>1 DEF Commit
  <2> QED BY <1>1, <2>2, <2>3, CommitRecords
<1>7. \A x \in RowIds : audits[x] \in Nat /\ updates[x] \in Nat /\ n(x) \in Nat
  BY DEF TypeOK
<1> HIDE DEF n
<1>8. audits' \in [RowIds -> Nat] /\ updates' \in [RowIds -> Nat]
  BY <1>6, <1>7
<1>9. \A x \in RowIds : audits[x] = updates[x] => audits'[x] = updates'[x]
  BY <1>6
<1> QED BY <1>2, <1>5, <1>8, <1>9

\* The plans are those there were, with the committed one at the end.
LEMMA CommitPlans ==
    ASSUME TypeOK, NEW a \in Sessions, Commit(a)
    PROVE  /\ runs' = runs
           /\ \A t \in Tasks :
                 plans'[t] = IF Planning(req[a]) /\ t = req[a].task
                             THEN Append(plans[t], [version |-> number[a], rows |-> Stored(req[a].draft)])
                             ELSE plans[t]
           /\ Planning(req[a]) =>
                 [version |-> number[a], rows |-> Stored(req[a].draft)] \in PlanVersion
           /\ plans' \in [Tasks -> Seq(PlanVersion)]
<1> DEFINE v == [version |-> number[a], rows |-> Stored(req[a].draft)]
<1>1. req[a] \in Request /\ number[a] \in Nat /\ plans \in [Tasks -> Seq(PlanVersion)]
  BY DEF TypeOK
<1>2. Planning(req[a]) => req[a].task \in Tasks /\ v \in PlanVersion
  <2>1. Planning(req[a]) => req[a].task \in Tasks /\ req[a].draft \in Drafts \cup {DevelopmentPlan}
    BY <1>1, RequestFits DEF Planning
  <2> QED BY <1>1, <2>1 DEF PlanVersion, PlanRows
<1>3. runs' = runs /\ plans' = IF ~Planning(req[a]) THEN plans
                               ELSE [plans EXCEPT ![req[a].task] = Append(@, v)]
  BY DEF Commit
<1> HIDE DEF v
<1>4. \A t \in Tasks : plans'[t] = IF Planning(req[a]) /\ t = req[a].task
                                   THEN Append(plans[t], v) ELSE plans[t]
  BY <1>1, <1>2, <1>3
<1>5. plans' \in [Tasks -> Seq(PlanVersion)]
  BY <1>1, <1>2, <1>3
<1> QED BY <1>2, <1>3, <1>4, <1>5 DEF v

\* Unlinking an event changes its links only.
LEMMA UnlinkedTyped ==
    ASSUME NEW e \in Event, NEW gone
    PROVE  /\ Unlinked(e, gone) \in Event
           /\ Unlinked(e, gone).id = e.id /\ Unlinked(e, gone).at = e.at
           /\ Unlinked(e, gone).about = e.about
           /\ Unlinked(e, gone).project = IF e.project \in gone THEN None ELSE e.project
           /\ Unlinked(e, gone).task = IF e.task \in gone THEN None ELSE e.task
BY DEF Unlinked, Event

\* A commit keeps the types.
LEMMA CommitTypes ==
    ASSUME TypeOK, LabelsFit, StagedFits, NEW a \in Sessions, Commit(a)
    PROVE  TypeOK'
<1>1. Commits(a) /\ Others(a) /\ clock' = clock
  BY CommitIs
<1>2. /\ pc'[a] \in Labels /\ req'[a] \in Request /\ number'[a] \in Nat /\ since'[a] \in Nat
      /\ held'[a] = {} /\ staged'[a] = {} /\ begun' = begun
  BY <1>1, RequestFits DEF Commits, Ended, TypeOK, Labels
<1>3. /\ pc' \in [Sessions -> Labels]
      /\ req' \in [Sessions -> Request]
      /\ number' \in [Sessions -> Nat] /\ since' \in [Sessions -> Nat]
      /\ held' \in [Sessions -> SUBSET (RowIds \X Modes)]
      /\ staged' \in [Sessions -> SUBSET (Event \cup Record)]
  BY <1>1, <1>2 DEF Others, Same, TypeOK
<1>4. events' \in SUBSET Event
  <2>1. \A e \in events : Unlinked(e, Deleted(req[a])) \in Event
    BY UnlinkedTyped DEF TypeOK
  <2>2. \A x \in staged[a] : x.kind = "event" => x \in Event
    BY DEF TypeOK, Record
  <2> QED BY <1>1, <2>1, <2>2 DEF Commits
<1>5. runs' \in [Tasks -> Seq(RunRow)]
  BY CommitPlans DEF TypeOK
<1> QED BY <1>1, <1>2, <1>3, <1>4, <1>5, CommitRows, CommitPlans DEF TypeOK

-----------------------------------------------------------------------------
(* Ids.                                                                    *)

\* An id names one event, committed or not.
IdsDiffer ==
    /\ \A e, f \in events : e.id = f.id => e = f
    /\ \A a, b \in Sessions : \A e \in staged[a], f \in staged[b] :
          e.kind = "event" /\ f.kind = "event" /\ e.id = f.id => a = b /\ e = f
    /\ \A a \in Sessions : \A e \in staged[a], f \in events : e.kind = "event" => e.id # f.id

\* The requests that may still flush events.
Pending == {a \in Sessions : pc[a] \in {"write", "log"} /\ ~Updating(req[a])}

\* The ids in use, and two for every request that may still flush events, are
\* counted by the requests made; so EventIds always has fresh ones.
Counted == IsFiniteSet(Pending) /\ Cardinality(UsedIds) + 2 * Cardinality(Pending) <= 2 * begun + 2

\* The ids in use, by membership.
LEMMA UsedIs ==
    /\ \A i : i \in UsedIds <=>
          \/ \E e \in events : e.id = i
          \/ \E b \in Sessions : \E x \in staged[b] : x.kind = "event" /\ x.id = i
    /\ \A i : i \in UsedIds' <=>
          \/ \E e \in events' : e.id = i
          \/ \E b \in Sessions : \E x \in staged'[b] : x.kind = "event" /\ x.id = i
BY DEF UsedIds

\* The ids in use are finitely many.
LEMMA UsedFinite ==
    ASSUME TypeOK
    PROVE  UsedIds \subseteq EventIds /\ IsFiniteSet(UsedIds) /\ Cardinality(UsedIds) \in Nat
<1>1. UsedIds \subseteq EventIds
  <2>1. \A e \in events : e.id \in EventIds
    BY DEF TypeOK, Event
  <2>2. \A b \in Sessions : \A x \in staged[b] : x.kind = "event" => x \in Event
    BY DEF TypeOK, Record
  <2>3. \A x \in Event : x.id \in EventIds
    BY DEF Event
  <2> QED BY UsedIs, <2>1, <2>2, <2>3
<1>2. IsFiniteSet(EventIds)
  BY RecordsAssumption
<1> QED BY <1>1, <1>2, FS_Subset, FS_CardinalityType

\* FreshIds(1) is one unused id; FreshIds(2) is at most two.
LEMMA FreshAre ==
    ASSUME TypeOK
    PROVE  /\ EventIds \ UsedIds # {} => \E i \in EventIds \ UsedIds : FreshIds(1) = {i}
           /\ \E i, k : FreshIds(2) \subseteq {i, k}
           /\ FreshIds(1) \subseteq FreshIds(2)
           /\ \A n : FreshIds(n) \subseteq EventIds \ UsedIds
<1> DEFINE F == EventIds \ UsedIds
           Below(i) == {j \in F : j < i}
<1>1. F \in SUBSET Nat /\ IsFiniteSet(F)
  <2>1. EventIds \in SUBSET Nat /\ IsFiniteSet(EventIds)
    BY RecordsAssumption
  <2> QED BY <2>1, FS_Subset
<1>2. \A n : FreshIds(n) = {i \in F : Cardinality(Below(i)) < n}
  BY DEF FreshIds
<1> HIDE DEF F
<1>3. \A i : IsFiniteSet(Below(i)) /\ Cardinality(Below(i)) \in Nat
  BY <1>1, FS_Subset, FS_CardinalityType
<1>4. ASSUME NEW i, NEW x, x \in Below(i) PROVE Cardinality(Below(i)) >= 1
  BY <1>3, <1>4, FS_EmptySet
<1>5. ASSUME NEW i, NEW x, NEW y, x # y, x \in Below(i), y \in Below(i)
      PROVE  Cardinality(Below(i)) >= 2
  <2>1. {x, y} \in SUBSET Below(i)
    BY <1>5
  <2>2. IsFiniteSet({x}) /\ Cardinality({x}) = 1 /\ {x} \cup {y} = {x, y}
    BY FS_Singleton
  <2>3. Cardinality({x, y}) = 2
    BY <1>5, <2>2, FS_AddElement
  <2>4. Cardinality({x, y}) <= Cardinality(Below(i))
    BY <1>3, <2>1, FS_Subset
  <2> QED BY <1>3, <2>3, <2>4
<1>6. CASE F = {}
  BY <1>2, <1>6 DEF F
<1>7. CASE F # {}
  <2>1. PICK i \in F : \A m \in F : i <= m
    BY <1>1, <1>7, LeastNatural
  <2>2. \A m \in F \ {i} : i \in Below(m)
    BY <1>1, <2>1
  <2>3. Cardinality(Below(i)) = 0
    <3>1. \A j \in F : ~(j < i)
      BY <1>1, <2>1
    <3>2. Below(i) = {}
      BY <3>1
    <3> QED BY <3>2, FS_EmptySet, Zenon
  <2>4. FreshIds(1) = {i}
    <3>1. \A m \in F \ {i} : ~(Cardinality(Below(m)) < 1)
      BY <1>3, <1>4, <2>2
    <3> HIDE DEF Below
    <3> QED BY <1>2, <2>1, <2>3, <3>1
  <2>5. \E x, k : FreshIds(2) \subseteq {x, k}
    <3>1. CASE F \ {i} = {}
      BY <1>2, <3>1
    <3>2. CASE F \ {i} # {}
      <4>1. PICK k \in F \ {i} : \A m \in F \ {i} : k <= m
        BY <1>1, <3>2, LeastNatural
      <4>2. \A m \in F \ {i, k} : i \in Below(m) /\ k \in Below(m) /\ i # k
        BY <1>1, <2>2, <4>1
      <4> HIDE DEF Below
      <4>3. \A m \in F \ {i, k} : Cardinality(Below(m)) >= 2
        BY <1>5, <4>2
      <4>4. \A m \in F \ {i, k} : ~(Cardinality(Below(m)) < 2)
        BY <1>3, <4>3
      <4> QED BY <1>2, <4>4
    <3> QED BY <3>1, <3>2
  <2>6. FreshIds(1) \subseteq FreshIds(2)
    <3> HIDE DEF Below
    <3> QED BY <1>2, <2>3, <2>4
  <2> QED BY <1>2, <2>1, <2>4, <2>5, <2>6 DEF F
<1> QED BY <1>6, <1>7

\* There is an id for every request that still needs one.
LEMMA IdsLast ==
    ASSUME TypeOK, Counted, NEW a \in Sessions, pc[a] = "log", ~Updating(req[a])
    PROVE  EventIds \ UsedIds # {}
<1>1. a \in Pending
  BY DEF Pending
<1>2. Cardinality(Pending) \in Nat /\ Cardinality(Pending) # 0
  BY <1>1, FS_CardinalityType, FS_EmptySet DEF Counted
<1>3. begun <= MaxRequests /\ begun \in Nat /\ MaxRequests \in Nat
  BY RecordsAssumption DEF TypeOK
<1>4. Cardinality(EventIds) >= 2 * MaxRequests + 2 /\ Cardinality(EventIds) \in Nat
  BY RecordsAssumption, FS_CardinalityType
<1>5. Cardinality(UsedIds) \in Nat /\ UsedIds \subseteq EventIds
  BY UsedFinite
<1>6. Cardinality(UsedIds) + 2 <= 2 * begun + 2
  BY <1>2, <1>3, <1>5 DEF Counted
<1>7. Cardinality(UsedIds) # Cardinality(EventIds)
  BY <1>3, <1>4, <1>5, <1>6
<1>8. UsedIds # EventIds
  BY <1>7
<1> QED BY <1>5, <1>8

\* A step keeps what a request has flushed at each label.
LEMMA StepLabels ==
    ASSUME TypeOK, LabelsFit, StagedFits, Counted, NEW a \in Sessions, Step(a), Others(a)
    PROVE  LabelsFit' /\ StagedFits'
<1>1. \A b \in Sessions \ {a} : Same(b)
  BY DEF Others
<1>2. req[a] \in Request
  BY DEF TypeOK
<1>3. /\ pc'[a] = "idle" => req'[a] = NoRequest /\ held'[a] = {}
      /\ pc'[a] = "write" => req'[a].op \notin {"create_run", "report"}
      /\ pc'[a] = "log" => req'[a].op # "create_run" /\ ~Deleting(req'[a])
      /\ pc'[a] = "cascade" => req'[a].op = "delete_project"
      /\ pc'[a] = "commit" => req'[a].op # "create_run"
      /\ pc'[a] = "run" => req'[a].op \in {"create_run", "develop"}
      /\ pc'[a] = "handoff" => req'[a].op = "develop"
  BY DEF Step, Ended, Begins, Writes, Cascades, Logs, Runs, LabelsFit, Deleting
<1>4. LabelsFit'
  BY <1>1, <1>3 DEF LabelsFit, Same
<1>5. /\ pc'[a] # "commit" \/ Deleting(req'[a]) => staged'[a] = {}
      /\ pc'[a] = "commit" /\ Updating(req'[a]) => staged'[a] = NewRecord(a)'
      /\ pc'[a] = "commit" /\ req'[a].op = "report" => \A e \in staged'[a] :
              e.kind = "event" /\ e.about = None /\ e.project = None /\ e.task = None
  <2>1. CASE Ended(a) \/ Begins(a) \/ Runs(a)
    BY <2>1 DEF Ended, Begins, Runs, StagedFits, LabelsFit
  <2>2. CASE Writes(a) \/ Cascades(a)
    BY <2>2 DEF Writes, Cascades, StagedFits, LabelsFit, Deleting, Updating, Planning
  <2>3. CASE Logs(a)
    <3>1. req[a].op = "report" => req[a].project = None /\ req[a].task = None
      BY <1>2, RequestFits
    <3> QED BY <2>3, <3>1 DEF Logs, LabelsFit, NewEvents, NewRecord, Subject, Updating, Planning
  <2> QED BY <2>1, <2>2, <2>3 DEF Step
<1>6. pc'[a] = "commit" /\ Creating(req'[a]) => \E i \in EventIds : staged'[a] =
              {[kind |-> "event", id |-> i, at |-> since'[a], about |-> Subject(req'[a]),
                project |-> req'[a].project, task |-> req'[a].task]}
  <2>1. CASE Ended(a) \/ Begins(a) \/ Runs(a)
    BY <2>1 DEF Ended, Begins, Runs
  <2>2. CASE Writes(a) \/ Cascades(a)
    BY <2>2 DEF Writes, Cascades, LabelsFit, Creating
  <2>3. CASE Logs(a)
    <3>1. SUFFICES ASSUME Creating(req[a])
                   PROVE  \E i \in EventIds : staged'[a] =
                              {[kind |-> "event", id |-> i, at |-> since[a], about |-> Subject(req[a]),
                                project |-> req[a].project, task |-> req[a].task]}
      BY <2>3 DEF Logs
    <3>2. ~Updating(req[a]) /\ req[a].op # "report" /\ pc[a] = "log"
      BY <2>3, <3>1 DEF Creating, Updating, Planning, Logs
    <3>3. PICK i \in EventIds : FreshIds(1) = {i}
      BY <3>2, IdsLast, FreshAre
    <3>4. staged'[a] = NewEvents(a)
      BY <2>3, <3>2 DEF Logs
    <3> QED BY <3>2, <3>3, <3>4 DEF NewEvents
  <2> QED BY <2>1, <2>2, <2>3 DEF Step
<1>7. StagedFits'
  BY <1>1, <1>5, <1>6 DEF StagedFits, Same, NewRecord
<1> QED BY <1>4, <1>7

\* So does a commit.
LEMMA CommitLabels ==
    ASSUME TypeOK, LabelsFit, StagedFits, NEW a \in Sessions, Commit(a)
    PROVE  LabelsFit' /\ StagedFits'
<1>1. Commits(a) /\ Others(a)
  BY CommitIs
<1> QED BY <1>1 DEF Commits, Ended, Others, Same, LabelsFit, StagedFits, Deleting, NewRecord

\* Only flushing an event uses ids, and only beginning adds to the pending.
LEMMA CountedKept ==
    ASSUME TypeOK, TypeOK', Counted, UsedIds' \subseteq UsedIds, Pending' \subseteq Pending,
           begun' = begun
    PROVE  Counted'
<1>1. /\ IsFiniteSet(Pending) /\ Cardinality(Pending) \in Nat
      /\ IsFiniteSet(UsedIds) /\ Cardinality(UsedIds) \in Nat
      /\ begun \in Nat
  BY UsedFinite, FS_CardinalityType DEF Counted, TypeOK
<1>2. IsFiniteSet(Pending') /\ Cardinality(Pending') <= Cardinality(Pending)
  BY <1>1, FS_Subset
<1>3. Cardinality(UsedIds') <= Cardinality(UsedIds)
  BY <1>1, FS_Subset
<1>4. Cardinality(Pending') \in Nat /\ Cardinality(UsedIds') \in Nat
  BY <1>1, <1>2, FS_Subset, FS_CardinalityType
<1> QED BY <1>1, <1>2, <1>3, <1>4 DEF Counted

\* Every step keeps the count of ids: what it flushes it had been counted for.
LEMMA StepCounted ==
    ASSUME TypeOK, TypeOK', LabelsFit, StagedFits, Counted, events' = events,
           NEW a \in Sessions, Step(a), Others(a)
    PROVE  Counted'
<1>1. \A b \in Sessions \ {a} : Same(b)
  BY DEF Others
<1>2. CASE Ended(a)
  <2>1. Pending' \subseteq Pending
    BY <1>1, <1>2 DEF Pending, Same, Ended
  <2>2. UsedIds' \subseteq UsedIds
    BY <1>1, <1>2, UsedIs DEF Same, Ended
  <2> QED BY <1>2, <2>1, <2>2, CountedKept DEF Ended
<1>3. CASE Begins(a)
  <2>1. Pending' \subseteq Pending \cup {a}
    BY <1>1 DEF Pending, Same
  <2>2. UsedIds' \subseteq UsedIds
    BY <1>1, <1>3, UsedIs DEF Same, Begins
  <2>3. /\ IsFiniteSet(Pending) /\ Cardinality(Pending) \in Nat
        /\ IsFiniteSet(UsedIds) /\ Cardinality(UsedIds) \in Nat
        /\ begun \in Nat
    <3>1. IsFiniteSet(Pending)
      BY DEF Counted
    <3>2. IsFiniteSet(UsedIds)
      BY UsedFinite
    <3>3. begun \in Nat
      BY DEF TypeOK
    <3> QED BY <3>1, <3>2, <3>3, FS_CardinalityType
  <2>4. IsFiniteSet(Pending \cup {a}) /\ Cardinality(Pending \cup {a}) <= Cardinality(Pending) + 1
    <3>1. /\ IsFiniteSet(Pending \cup {a})
          /\ Cardinality(Pending \cup {a})
                = IF a \in Pending THEN Cardinality(Pending) ELSE Cardinality(Pending) + 1
      BY <2>3, FS_AddElement, Zenon
    <3> QED BY <2>3, <3>1
  <2>5. IsFiniteSet(Pending') /\ Cardinality(Pending') \in Nat
        /\ Cardinality(Pending') <= Cardinality(Pending \cup {a})
    BY <2>1, <2>4, FS_Subset, FS_CardinalityType
  <2>6. Cardinality(UsedIds') <= Cardinality(UsedIds) /\ Cardinality(UsedIds') \in Nat
    BY <2>2, <2>3, FS_Subset, FS_CardinalityType
  <2>7. Cardinality(Pending \cup {a}) \in Nat
    BY <2>4, FS_CardinalityType
  <2>8. begun' = begun + 1
    BY <1>3 DEF Begins
  <2>9. Cardinality(UsedIds) + 2 * Cardinality(Pending) <= 2 * begun + 2
    BY DEF Counted
  <2> HIDE DEF Begins
  <2>10. Cardinality(UsedIds') + 2 * Cardinality(Pending') <= 2 * begun' + 2
    BY <2>3, <2>4, <2>5, <2>6, <2>7, <2>8, <2>9
  <2> QED BY <2>5, <2>10 DEF Counted
<1>4. CASE Writes(a) \/ Cascades(a) \/ Runs(a)
  <2>1. Pending' \subseteq Pending
    BY <1>1, <1>4 DEF Pending, Same, Writes, Cascades, Runs
  <2>2. UsedIds' \subseteq UsedIds
    BY <1>1, <1>4, UsedIs DEF Same, Writes, Cascades, Runs
  <2> QED BY <1>4, <2>1, <2>2, CountedKept DEF Writes, Cascades, Runs
<1>5. CASE Logs(a) /\ Updating(req[a])
  <2>1. Pending' \subseteq Pending
    BY <1>1, <1>5 DEF Pending, Same, Logs
  <2>2. UsedIds' \subseteq UsedIds
    BY <1>1, <1>5, UsedIs DEF Same, Logs, NewRecord
  <2> QED BY <1>5, <2>1, <2>2, CountedKept DEF Logs
<1>6. CASE Logs(a) /\ ~Updating(req[a])
  <2>1. a \in Pending /\ Pending' \subseteq Pending \ {a}
    BY <1>1, <1>6 DEF Pending, Same, Logs
  <2>2. UsedIds' \subseteq UsedIds \cup FreshIds(2)
    <3>1. \A x \in staged'[a] : x.id \in FreshIds(2)
      BY <1>6, FreshAre DEF Logs, NewEvents
    <3> QED BY <1>1, <3>1, UsedIs DEF Same
  <2>3. PICK i, k : FreshIds(2) \subseteq {i, k}
    BY FreshAre
  <2>4. /\ IsFiniteSet(Pending) /\ Cardinality(Pending) \in Nat
        /\ IsFiniteSet(UsedIds) /\ Cardinality(UsedIds) \in Nat
        /\ begun \in Nat
    <3>1. IsFiniteSet(Pending)
      BY DEF Counted
    <3>2. IsFiniteSet(UsedIds)
      BY UsedFinite
    <3>3. begun \in Nat
      BY DEF TypeOK
    <3> QED BY <3>1, <3>2, <3>3, FS_CardinalityType
  <2>5. IsFiniteSet(Pending \ {a}) /\ Cardinality(Pending \ {a}) = Cardinality(Pending) - 1
    BY <2>1, <2>4, FS_RemoveElement
  <2>6. IsFiniteSet(Pending') /\ Cardinality(Pending') \in Nat
        /\ Cardinality(Pending') <= Cardinality(Pending) - 1
    BY <2>1, <2>5, FS_Subset, FS_CardinalityType
  <2>7. Cardinality(UsedIds') \in Nat /\ Cardinality(UsedIds') <= Cardinality(UsedIds) + 2
    <3> DEFINE U == UsedIds \cup {i}
    <3>1. IsFiniteSet(U) /\ Cardinality(U) <= Cardinality(UsedIds) + 1
      BY <2>4, FS_AddElement, SMTT(40)
    <3>2. Cardinality(U) \in Nat
      BY <3>1, FS_CardinalityType
    <3>3. UsedIds' \subseteq U \cup {k}
      BY <2>2, <2>3
    <3> HIDE DEF U
    <3>4. IsFiniteSet(U \cup {k}) /\ Cardinality(U \cup {k}) <= Cardinality(U) + 1
      BY <3>1, <3>2, FS_AddElement
    <3>5. Cardinality(U \cup {k}) \in Nat /\ Cardinality(UsedIds') \in Nat
          /\ Cardinality(UsedIds') <= Cardinality(U \cup {k})
      BY <3>3, <3>4, FS_Subset, FS_CardinalityType
    <3> QED BY <2>4, <3>1, <3>2, <3>4, <3>5
  <2>8. begun' = begun
    BY <1>6 DEF Logs
  <2>9. Cardinality(UsedIds) + 2 * Cardinality(Pending) <= 2 * begun + 2
    BY DEF Counted
  <2>10. Cardinality(UsedIds') + 2 * Cardinality(Pending') <= 2 * begun' + 2
    BY <2>4, <2>6, <2>7, <2>8, <2>9
  <2> QED BY <2>6, <2>10 DEF Counted
<1> QED BY <1>2, <1>3, <1>4, <1>5, <1>6 DEF Step

\* What a step flushes has fresh ids.
LEMMA StepIds ==
    ASSUME TypeOK, LabelsFit, StagedFits, IdsDiffer, events' = events,
           NEW a \in Sessions, Step(a), Others(a)
    PROVE  IdsDiffer'
<1>1. \A b \in Sessions \ {a} : Same(b)
  BY DEF Others
<1>2. CASE staged'[a] = {} \/ staged'[a] = staged[a]
  BY <1>1, <1>2 DEF Same, IdsDiffer
<1>3. CASE Logs(a)
  <2>1. CASE Updating(req[a])
    <3>1. \A x \in staged'[a] : x.kind # "event"
      BY <1>3, <2>1 DEF Logs, NewRecord
    <3> QED BY <1>1, <3>1 DEF Same, IdsDiffer
  <2>2. CASE ~Updating(req[a])
    <3>1. staged'[a] = NewEvents(a)
      BY <1>3, <2>2 DEF Logs
    <3>2. \A x \in staged'[a] : x.id \notin UsedIds
      BY <3>1, FreshAre DEF NewEvents
    <3>3. \A x, y \in staged'[a] : x.id = y.id => x = y
      BY <3>1 DEF NewEvents
    <3>4. /\ \A x \in staged'[a] : \A f \in events : x.id # f.id
          /\ \A x \in staged'[a] : \A b \in Sessions : \A f \in staged[b] :
                f.kind = "event" => x.id # f.id
      BY <3>2, UsedIs
    <3> QED BY <1>1, <3>3, <3>4 DEF Same, IdsDiffer
  <2> QED BY <2>1, <2>2
<1> QED BY <1>2, <1>3 DEF Step, Ended, Begins, Writes, Cascades, Runs

\* A commit moves ids from the session to the table.
LEMMA CommitIds ==
    ASSUME TypeOK, TypeOK', IdsDiffer, Counted, NEW a \in Sessions, Commit(a)
    PROVE  IdsDiffer' /\ Counted'
<1>1. Commits(a) /\ \A b \in Sessions \ {a} : Same(b)
  BY CommitIs DEF Others
<1>2. staged'[a] = {}
  BY <1>1 DEF Commits, Ended
<1>3. \A f \in events' : \/ \E e \in events : f = Unlinked(e, Deleted(req[a])) /\ f.id = e.id
                         \/ f \in staged[a] /\ f.kind = "event"
  <2>1. \A e \in events : Unlinked(e, Deleted(req[a])).id = e.id
    BY UnlinkedTyped DEF TypeOK
  <2> QED BY <1>1, <2>1 DEF Commits
<1>4. IdsDiffer'
  BY <1>1, <1>2, <1>3 DEF Same, IdsDiffer
<1>5. UsedIds' \subseteq UsedIds
  BY <1>1, <1>2, <1>3, UsedIs DEF Same
<1>6. Pending' \subseteq Pending /\ begun' = begun
  BY <1>1 DEF Pending, Same, Commits, Ended
<1> QED BY <1>4, <1>5, <1>6, CountedKept

-----------------------------------------------------------------------------
(* Locks, and what they keep in place.                                     *)

\* No two sessions hold conflicting locks on a row.
LocksApart ==
    \A a, b \in Sessions : a # b =>
        \A w \in held[a], h \in held[b] : w[1] = h[1] => ~Conflicting(w[2], h[2])

\* A request that has locked a row relies on it: the project of a new task,
\* or the one it updates, stays; what it deletes had been created.
Pinned ==
    \A a \in Sessions :
        /\ pc[a] \in {"log", "commit"} /\ req[a].op \in {"create_task", "update_project"} =>
              (\E m \in Modes : <<req[a].project, m>> \in held[a]) /\ Live(req[a].project)
        /\ pc[a] \in {"cascade", "commit"} /\ req[a].op = "delete_project" =>
              <<req[a].project, "key">> \in held[a] /\ project[req[a].project] # "new"
        /\ pc[a] = "commit" /\ req[a].op = "delete_task" => task[req[a].task] # "new"

\* Nobody else touches the row that a request creates.
Creations ==
    /\ \A a \in Sessions :
          /\ req[a].op = "create_project" => project[req[a].project] = "new"
          /\ req[a].op = "create_task" => task[req[a].task] = "new"
    /\ \A a, b \in Sessions :
          Creating(req[a]) /\ Creating(req[b]) /\ Subject(req[a]) = Subject(req[b]) => a = b

\* A step takes locks only when none conflicts.
LEMMA StepLocks ==
    ASSUME TypeOK, LabelsFit, LocksApart, NEW a \in Sessions, Step(a), Others(a)
    PROVE  LocksApart'
<1>1. \A b \in Sessions \ {a} : Same(b)
  BY DEF Others
<1>2. CASE held'[a] = {} \/ held'[a] = held[a]
  BY <1>1, <1>2 DEF LocksApart, Same
<1>3. CASE ~Blocked(a) /\ held'[a] = held[a] \cup Wants(a)
  <2>1. \A b \in Sessions \ {a} : \A w \in Wants(a), h \in held[b] :
            w[1] = h[1] => ~Conflicting(w[2], h[2]) /\ ~Conflicting(h[2], w[2])
    BY <1>3 DEF Blocked, Waits, Conflicting
  <2> QED BY <1>1, <1>3, <2>1 DEF LocksApart, Same
<1> QED BY <1>2, <1>3 DEF Step, Ended, Begins, Writes, Cascades, Logs, Runs

\* A step that relies on a row has locked it.
LEMMA StepPinned ==
    ASSUME TypeOK, LabelsFit, Pinned, project' = project, task' = task,
           NEW a \in Sessions, Step(a), Others(a)
    PROVE  Pinned'
<1>1. \A b \in Sessions \ {a} : Same(b)
  BY DEF Others
<1>2. req[a] \in Request
  BY DEF TypeOK
<1>3. CASE Writes(a)
  <2>1. req'[a] = req[a] /\ pc[a] = "write" /\ Wants(a) \subseteq held'[a] /\ Accepted(req[a], number[a])
    BY <1>3 DEF Writes
  <2>2. req[a].op = "create_task" =>
            (\E m \in Modes : <<req[a].project, m>> \in held'[a]) /\ Live(req[a].project)
    BY <2>1 DEF Wants, Modes, Accepted, create_project, update_project, delete_project,
                create_task, update_task, delete_task, create_plan, Planning
  <2>3. req[a].op = "update_project" =>
            (\E m \in Modes : <<req[a].project, m>> \in held'[a]) /\ Live(req[a].project)
    BY <2>1 DEF Wants, Modes, Accepted, create_project, update_project, delete_project,
                create_task, update_task, delete_task, create_plan, Planning
  <2>4. req[a].op = "delete_project" =>
            <<req[a].project, "key">> \in held'[a] /\ project[req[a].project] # "new"
    <3>1. SUFFICES ASSUME req[a].op = "delete_project"
                   PROVE  <<req[a].project, "key">> \in held'[a] /\ project[req[a].project] # "new"
      OBVIOUS
    <3>2. Live(req[a].project)
      BY <2>1, <3>1 DEF Accepted, create_project, update_project, delete_project,
                create_task, update_task, delete_task, create_plan, Planning
    <3>3. Wants(a) = {<<req[a].project, "key">>}
      BY <2>1, <3>1 DEF Wants, Planning
    <3> QED BY <2>1, <3>2, <3>3, NamesDiffer DEF Live
  <2>5. req[a].op = "delete_task" => task[req[a].task] # "new"
    <3>1. SUFFICES ASSUME req[a].op = "delete_task" PROVE task[req[a].task] # "new"
      OBVIOUS
    <3>2. task[req[a].task] = req[a].project
      BY <2>1, <3>1 DEF Accepted, create_project, update_project, delete_project,
                create_task, update_task, delete_task, create_plan, Planning
    <3>3. req[a].project \in Projects
      BY <1>2, <3>1, RequestFits
    <3> QED BY <3>2, <3>3, NamesDiffer
  <2> QED BY <1>1, <2>1, <2>2, <2>3, <2>4, <2>5, ZenonT(60) DEF Pinned, Same, Live
<1>4. CASE Cascades(a) \/ Logs(a)
  <2>1. /\ req'[a] = req[a] /\ held[a] \subseteq held'[a] /\ pc'[a] = "commit"
        /\ \/ pc[a] = "cascade" /\ req[a].op = "delete_project"
           \/ pc[a] = "log" /\ req[a].op \notin {"delete_project", "delete_task"}
    BY <1>4 DEF Cascades, Logs, LabelsFit, Deleting
  <2> HIDE DEF Cascades, Logs
  <2>2. /\ req[a].op \in {"create_task", "update_project"} =>
              (\E m \in Modes : <<req[a].project, m>> \in held'[a]) /\ Live(req[a].project)
        /\ req[a].op = "delete_project" =>
              <<req[a].project, "key">> \in held'[a] /\ project[req[a].project] # "new"
        /\ req[a].op # "delete_task"
    BY <2>1 DEF Pinned
  <2> QED BY <1>1, <2>1, <2>2, ZenonT(60) DEF Pinned, Same, Live
<1>5. CASE Ended(a) \/ Begins(a) \/ Runs(a)
  <2>1. pc'[a] \notin {"cascade", "commit"}
    BY <1>5 DEF Ended, Begins, Runs
  <2>2. pc'[a] = "log" => req'[a].op = "report"
    BY <1>5 DEF Ended, Begins, Runs
  <2> QED BY <1>1, <2>1, <2>2, SMTT(40) DEF Pinned, Same, Live
<1> QED BY <1>3, <1>4, <1>5 DEF Step

\* A new request creates a row that nobody else has named.
LEMMA StepCreations ==
    ASSUME TypeOK, Creations, project' = project, task' = task,
           NEW a \in Sessions, Step(a), Others(a)
    PROVE  Creations'
<1>1. \A b \in Sessions \ {a} : Same(b)
  BY DEF Others
<1>2. CASE Ended(a)
  BY <1>1, <1>2 DEF Creations, Same, Ended, NoRequest, Creating
<1>3. CASE Begins(a)
  <2>1. req'[a] \in Request
    BY <1>3 DEF Begins
  <2>2. Creating(req'[a]) => \A b \in Sessions : Subject(req[b]) # Subject(req'[a])
    BY <1>3, <2>1, RequestFits, NamesDiffer DEF Begins, Creating, Unused, Subject
  <2>3. /\ req'[a].op = "create_project" => project[req'[a].project] = "new"
        /\ req'[a].op = "create_task" => task[req'[a].task] = "new"
    BY <1>3 DEF Begins, Unused
  <2> QED BY <1>1, <2>2, <2>3 DEF Creations, Same
<1>4. CASE req'[a] = req[a]
  BY <1>1, <1>4 DEF Creations, Same
<1> QED BY <1>2, <1>3, <1>4 DEF Step, Writes, Cascades, Logs, Runs

\* What a commit does to the status of a row.
StatusMoves(a) ==
    /\ \A p \in Projects :
          /\ p \in Deleted(req[a]) => project'[p] = "gone" /\ project[p] # "new"
          /\ p \notin Deleted(req[a]) /\ ~(req[a].op = "create_project" /\ p = req[a].project) =>
                /\ Live(p)' <=> Live(p)
                /\ project'[p] = "new" <=> project[p] = "new"
    /\ \A t \in Tasks :
          /\ t \in Deleted(req[a]) => task'[t] = "gone" /\ task[t] # "new"
          /\ t \notin Deleted(req[a]) /\ ~(req[a].op = "create_task" /\ t = req[a].task) =>
                task'[t] = task[t]
    /\ req[a].op = "create_project" =>
          /\ project[req[a].project] = "new" /\ project'[req[a].project] \in Slugs
          /\ Deleted(req[a]) = {}
    /\ req[a].op = "create_task" =>
          /\ task[req[a].task] = "new" /\ task'[req[a].task] = req[a].project
          /\ Live(req[a].project)
          /\ Deleted(req[a]) = {}

\* The locks make a commit change the status of its own rows only.
LEMMA CommitStatus ==
    ASSUME TypeOK, LabelsFit, StagedFits, LocksApart, Pinned, Creations, NEW a \in Sessions,
           Commit(a)
    PROVE  StatusMoves(a)
<1> DEFINE r == req[a]
<1>1. r \in Request /\ pc[a] = "commit"
  BY DEF TypeOK, Commit, At
<1>2. /\ \A p \in Projects :
            project'[p] = IF p \in Deleted(r) THEN "gone"
                          ELSE IF p = r.project /\ r.slug # None THEN r.slug ELSE project[p]
      /\ \A t \in Tasks :
            task'[t] = IF t \in Deleted(r) THEN "gone"
                       ELSE IF t = r.task /\ r.op = "create_task" THEN r.project ELSE task[t]
  BY CommitRows
<1>3. r.slug # None => r.slug \in Slugs /\ r.op \in {"create_project", "update_project"}
  BY <1>1, RequestFits
<1>4. /\ r.op = "create_project" => r.project \in Projects /\ r.slug \in Slugs /\ Deleted(r) = {}
      /\ r.op = "create_task" => r.task \in Tasks /\ r.project \in Projects /\ Deleted(r) = {}
  BY <1>1, RequestFits DEF Deleted
<1>5. \A p \in Projects : p \in Deleted(r) => r.op = "delete_project" /\ p = r.project
  <2>1. r.op = "delete_task" => r.task \in Tasks
    BY <1>1, RequestFits
  <2> QED BY <2>1, NamesDiffer DEF Deleted, TasksOf
<1>6. \A t \in Tasks : t \in Deleted(r) => task[t] # "new"
  <2>1. r.op = "delete_project" => r.project \in Projects
    BY <1>1, RequestFits
  <2>2. r.op = "delete_task" => task[r.task] # "new"
    BY <1>1 DEF Pinned
  <2> QED BY <2>1, <2>2, NamesDiffer DEF Deleted, TasksOf
<1>7. /\ r.op = "delete_project" => project[r.project] # "new"
      /\ r.op \in {"update_project", "create_task"} => Live(r.project)
      /\ r.op = "create_project" => project[r.project] = "new"
      /\ r.op = "create_task" => task[r.task] = "new"
  BY <1>1 DEF Pinned, Creations
<1> HIDE DEF r
<1>8. \A p \in Projects :
          /\ p \in Deleted(r) => project'[p] = "gone" /\ project[p] # "new"
          /\ p \notin Deleted(r) /\ ~(r.op = "create_project" /\ p = r.project) =>
                /\ Live(p)' <=> Live(p)
                /\ project'[p] = "new" <=> project[p] = "new"
  BY <1>2, <1>3, <1>5, <1>7, NamesDiffer DEF Live
<1>9. \A t \in Tasks :
          /\ t \in Deleted(r) => task'[t] = "gone" /\ task[t] # "new"
          /\ t \notin Deleted(r) /\ ~(r.op = "create_task" /\ t = r.task) => task'[t] = task[t]
  BY <1>2, <1>6
<1>10. r.op = "create_project" => project'[r.project] \in Slugs
  BY <1>2, <1>4, NamesDiffer
<1>11. r.op = "create_task" => task'[r.task] = r.project
  BY <1>2, <1>4
<1> QED BY <1>4, <1>7, <1>8, <1>9, <1>10, <1>11 DEF r, StatusMoves

\* A commit takes no row from under another request.
LEMMA CommitKeeps ==
    ASSUME TypeOK, LabelsFit, StagedFits, LocksApart, Pinned, Creations, NEW a \in Sessions,
           Commit(a)
    PROVE  LocksApart' /\ Pinned' /\ Creations'
<1>1. Commits(a) /\ \A b \in Sessions \ {a} : Same(b)
  BY CommitIs DEF Others
<1>2. held'[a] = {} /\ pc'[a] \in {"idle", "run"} /\ ~Creating(req'[a])
  BY <1>1 DEF Commits, Ended, NoRequest, Creating
<1>3. StatusMoves(a)
  BY CommitStatus
<1>4. LocksApart'
  BY <1>1, <1>2 DEF LocksApart, Same
<1>5. \A b \in Sessions : req[b] \in Request
  BY DEF TypeOK
<1>6. pc[a] = "commit"
  BY <1>1 DEF Commits
<1>7. \A p \in Projects : p \in Deleted(req[a]) => <<p, "key">> \in held[a]
  <2>1. req[a].op = "delete_task" => req[a].task \in Tasks
    BY <1>5, RequestFits
  <2>2. req[a].op = "delete_project" => <<req[a].project, "key">> \in held[a]
    BY <1>6 DEF Pinned
  <2> QED BY <2>1, <2>2, NamesDiffer DEF Deleted, TasksOf
<1>8. Pinned'
  <2>1. ASSUME NEW b \in Sessions \ {a}, pc[b] \in {"log", "commit"},
               req[b].op \in {"create_task", "update_project"}
        PROVE  (\E m \in Modes : <<req[b].project, m>> \in held[b]) /\ project'[req[b].project] \in Slugs
    <3>1. req[b].project \in Projects
      BY <1>5, <2>1, RequestFits
    <3>2. PICK m \in Modes : <<req[b].project, m>> \in held[b]
      BY <2>1 DEF Pinned
    <3>3. Live(req[b].project)
      BY <2>1 DEF Pinned
    <3>4. req[b].project \notin Deleted(req[a])
      BY <1>7, <3>1, <3>2 DEF LocksApart, Conflicting
    <3>5. ~(req[a].op = "create_project" /\ req[b].project = req[a].project)
      BY <1>3, <3>3, NamesDiffer DEF Live, StatusMoves
    <3> QED BY <1>3, <3>1, <3>2, <3>3, <3>4, <3>5 DEF StatusMoves, Live
  <2>2. ASSUME NEW b \in Sessions \ {a}, pc[b] \in {"cascade", "commit"},
               req[b].op = "delete_project"
        PROVE  <<req[b].project, "key">> \in held[b] /\ project'[req[b].project] # "new"
    <3>1. req[b].project \in Projects
      BY <1>5, <2>2, RequestFits
    <3>2. <<req[b].project, "key">> \in held[b] /\ project[req[b].project] # "new"
      BY <2>2 DEF Pinned
    <3> QED BY <1>3, <3>1, <3>2 DEF StatusMoves
  <2>3. ASSUME NEW b \in Sessions \ {a}, pc[b] = "commit", req[b].op = "delete_task"
        PROVE  task'[req[b].task] # "new"
    <3>1. req[b].task \in Tasks
      BY <1>5, <2>3, RequestFits
    <3>2. task[req[b].task] # "new"
      BY <2>3 DEF Pinned
    <3>3. req[a].op = "create_task" => req[a].project \in Projects
      BY <1>5, RequestFits
    <3> QED BY <1>3, <3>1, <3>2, <3>3, NamesDiffer DEF StatusMoves
  <2> QED BY <1>1, <1>2, <2>1, <2>2, <2>3, SMTT(40) DEF Pinned, Same, Live
<1>9. Creations'
  <2>1. ASSUME NEW b \in Sessions \ {a}, req[b].op = "create_project"
        PROVE  project'[req[b].project] = "new"
    <3>1. req[b].project \in Projects /\ req[b].task = None
      BY <1>5, <2>1, RequestFits
    <3>2. project[req[b].project] = "new"
      BY <2>1 DEF Creations
    <3>3. ~(req[a].op = "create_project" /\ req[b].project = req[a].project)
      <4>1. req[a].op = "create_project" => req[a].task = None
        BY <1>5, RequestFits
      <4> QED BY <2>1, <3>1, <4>1 DEF Creations, Creating, Subject
    <3> QED BY <1>3, <3>1, <3>2, <3>3 DEF StatusMoves
  <2>2. ASSUME NEW b \in Sessions \ {a}, req[b].op = "create_task"
        PROVE  task'[req[b].task] = "new"
    <3>1. req[b].task \in Tasks
      BY <1>5, <2>2, RequestFits
    <3>2. task[req[b].task] = "new"
      BY <2>2 DEF Creations
    <3>3. ~(req[a].op = "create_task" /\ req[b].task = req[a].task)
      BY <2>2, <3>1, NamesDiffer DEF Creations, Creating, Subject
    <3> QED BY <1>3, <3>1, <3>2, <3>3 DEF StatusMoves
  <2> QED BY <1>1, <1>2, <2>1, <2>2 DEF Creations, Creating, Same
<1> QED BY <1>4, <1>8, <1>9

-----------------------------------------------------------------------------
(* What is recorded.                                                       *)

\* A row was created exactly when one event says so; updates and audit records
\* agree.
OneEvent ==
    \A x \in RowIds :
        /\ Created(x) => \E e \in events : e.about = x /\ \A f \in events : f.about = x => f = e
        /\ ~Created(x) => \A e \in events : e.about # x
        /\ audits[x] = updates[x]

\* An event names the rows it is about exactly while they live.
Linked ==
    \A e \in events :
        /\ e.about \in Projects => e.project = (IF Alive(e.about) THEN e.about ELSE None)
        /\ e.about \in Tasks => e.task = (IF Alive(e.about) THEN e.about ELSE None)
        /\ e.project # None => Live(e.project)

\* A commit keeps the tables and what is recorded about them together.
LEMMA CommitRecorded ==
    ASSUME TypeOK, LabelsFit, StagedFits, LocksApart, Pinned, Creations, OneEvent, Linked,
           NEW a \in Sessions, Commit(a)
    PROVE  OneEvent' /\ Linked'
<1>1. StatusMoves(a)
  BY CommitStatus
<1> PICK r : r = req[a]
  OBVIOUS
<1> PICK gone : gone = Deleted(r)
  OBVIOUS
<1>2. /\ pc[a] = "commit" /\ r \in Request /\ r.op # "create_run"
      /\ events' = {Unlinked(e, gone) : e \in events} \cup {x \in staged[a] : x.kind = "event"}
  BY CommitIs DEF Commits, TypeOK, LabelsFit
<1>3. \A e \in events :
          /\ e \in Event
          /\ Unlinked(e, gone).about = e.about
          /\ Unlinked(e, gone).project = IF e.project \in gone THEN None ELSE e.project
          /\ Unlinked(e, gone).task = IF e.task \in gone THEN None ELSE e.task
  BY UnlinkedTyped DEF TypeOK
<1>4. \A x \in RowIds : (x \in Projects \/ x \in Tasks) /\ (x \in Projects => x \notin Tasks)
  BY NamesDiffer DEF RowIds
\* The row a request creates, and the event it flushes.
<1>5. CASE Creating(r)
  <2>1. PICK i \in EventIds : staged[a] =
              {[kind |-> "event", id |-> i, at |-> since[a], about |-> Subject(r),
                project |-> r.project, task |-> r.task]}
    BY <1>2, <1>5 DEF StagedFits
  <2> PICK new : new = [kind |-> "event", id |-> i, at |-> since[a], about |-> Subject(r),
                        project |-> r.project, task |-> r.task]
    OBVIOUS
  <2> PICK x : x = Subject(r)
    OBVIOUS
  <2>2. gone = {} /\ x \in RowIds /\ new.about = x /\ new.project = r.project /\ new.task = r.task
        /\ r.project \in Projects
    BY <1>2, <1>5, RequestFits, <1>1 DEF Creating, Subject, RowIds, StatusMoves
  <2>3. /\ r.op = "create_project" => x = r.project /\ x \in Projects
        /\ r.op = "create_task" => x = r.task /\ x \in Tasks
    BY <1>2, RequestFits, NamesDiffer DEF Subject
  <2>4. \A f \in events' : f = new \/ \E e \in events : f = Unlinked(e, gone)
    BY <1>2, <2>1
  <2>5. new \in events'
    BY <1>2, <2>1
  <2>6. ~Created(x) /\ Created(x)' /\ Alive(x)'
    <3>1. CASE r.op = "create_project"
      BY <1>1, <2>3, <3>1, NamesDiffer DEF Created, Alive, Live, StatusMoves
    <3>2. CASE r.op = "create_task"
      BY <1>1, <1>4, <2>2, <2>3, <3>2, NamesDiffer DEF Created, Alive, Live, StatusMoves
    <3> QED BY <1>5, <3>1, <3>2 DEF Creating
  <2>7. Live(r.project)'
    <3>1. CASE r.op = "create_project"
      BY <1>1, <3>1 DEF Live, StatusMoves
    <3>2. CASE r.op = "create_task"
      BY <1>1, <2>2, <3>2 DEF StatusMoves
    <3> QED BY <1>5, <3>1, <3>2 DEF Creating
  <2>8. \A y \in RowIds \ {x} : (Created(y)' <=> Created(y)) /\ (Alive(y)' <=> Alive(y))
    BY <1>1, <1>4, <2>2, <2>3 DEF Created, Alive, StatusMoves
  <2>9. \A p \in Projects : Live(p) => Live(p)'
    BY <1>1, <2>2, NamesDiffer DEF Live, StatusMoves
  <2>10. \A e \in events : Unlinked(e, gone).about = e.about /\ Unlinked(e, gone).project = e.project
                          /\ Unlinked(e, gone).task = e.task /\ Unlinked(e, gone) \in events'
                          /\ e.project \in Projects \cup {None} /\ e.about \in RowIds \cup {None}
    BY <1>2, <1>3, <2>2 DEF Event
  <2>11. \A e \in events : e.about # x
    BY <2>2, <2>6 DEF OneEvent
  <2>12. OneEvent'
    <3>1. ASSUME NEW y \in RowIds
          PROVE  /\ Created(y)' => \E e \in events' : e.about = y /\ \A f \in events' : f.about = y => f = e
                 /\ ~Created(y)' => \A e \in events' : e.about # y
      <4>1. CASE y = x
        BY <2>2, <2>4, <2>5, <2>6, <2>10, <2>11, <4>1
      <4>2. CASE y # x
        <5>1. CASE Created(y)
          <6>1. PICK e \in events : e.about = y /\ \A f \in events : f.about = y => f = e
            BY <5>1 DEF OneEvent
          <6>2. /\ Unlinked(e, gone) \in events' /\ Unlinked(e, gone).about = y
                /\ \A f \in events' : f.about = y => f = Unlinked(e, gone)
            BY <2>2, <2>4, <2>10, <4>2, <6>1
          <6> QED BY <2>8, <4>2, <5>1, <6>2
        <5>2. CASE ~Created(y)
          BY <2>2, <2>4, <2>8, <2>10, <4>2, <5>2 DEF OneEvent
        <5> QED BY <5>1, <5>2
      <4> QED BY <4>1, <4>2
    <3>2. \A y \in RowIds : audits'[y] = updates'[y]
      BY CommitRows DEF OneEvent
    <3> QED BY <3>1, <3>2 DEF OneEvent
  <2>13. Linked'
    <3>1. ASSUME NEW f \in events'
          PROVE  /\ f.about \in Projects => f.project = (IF Alive(f.about)' THEN f.about ELSE None)
                 /\ f.about \in Tasks => f.task = (IF Alive(f.about)' THEN f.about ELSE None)
                 /\ f.project # None => Live(f.project)'
      <4>1. CASE f = new
        <5>1. r.op \in {"create_project", "create_task"}
          BY <1>5 DEF Creating
        <5> QED BY <1>4, <2>2, <2>3, <2>6, <2>7, <4>1, <5>1
      <4>2. CASE \E e \in events : f = Unlinked(e, gone)
        <5>1. PICK e \in events : f = Unlinked(e, gone)
          BY <4>2
        <5>2. f.about = e.about /\ f.project = e.project /\ f.task = e.task /\ e.about # x
              /\ e.project \in Projects \cup {None} /\ e.about \in RowIds \cup {None}
          BY <2>10, <2>11, <5>1
        <5>3. /\ e.about \in Projects => e.project = (IF Alive(e.about) THEN e.about ELSE None)
              /\ e.about \in Tasks => e.task = (IF Alive(e.about) THEN e.about ELSE None)
              /\ e.project # None => Live(e.project)
          BY DEF Linked
        <5>4. e.about \in RowIds => (Alive(e.about)' <=> Alive(e.about))
          BY <2>8, <5>2
        <5>5. e.about \in Projects \/ e.about \in Tasks => e.about \in RowIds
          BY DEF RowIds
        <5> QED BY <2>9, <5>2, <5>3, <5>4, <5>5
      <4> QED BY <2>4, <4>1, <4>2
    <3> QED BY <3>1 DEF Linked
  <2> QED BY <2>12, <2>13
\* Nothing is created; what is deleted loses its links.
<1>6. CASE ~Creating(r)
  <2>1. \A f \in staged[a] : f.kind = "event" => f.about = None /\ f.project = None /\ f.task = None
    <3>1. Deleting(r) \/ Updating(r) \/ r.op = "report"
      BY <1>2, <1>6, RequestFits DEF Creating, Deleting, Updating, Planning
    <3> QED BY <1>2, <3>1 DEF StagedFits, NewRecord
  <2>2. /\ \A p \in Projects :
              /\ p \in gone => ~Live(p)' /\ project'[p] # "new" /\ project[p] # "new"
              /\ p \notin gone => (Live(p)' <=> Live(p)) /\ (project'[p] = "new" <=> project[p] = "new")
        /\ \A t \in Tasks :
              /\ t \in gone => task'[t] = "gone" /\ task[t] # "new"
              /\ t \notin gone => task'[t] = task[t]
    BY <1>1, <1>6, NamesDiffer DEF Creating, Live, StatusMoves
  <2>3. \A y \in RowIds : /\ Created(y)' <=> Created(y)
                          /\ Alive(y)' <=> Alive(y) /\ y \notin gone
    BY <1>4, <2>2, NamesDiffer DEF Created, Alive
  <2>4. \A e \in events : /\ Unlinked(e, gone) \in events'
                          /\ e.project \in Projects \cup {None} /\ e.about \in RowIds \cup {None}
                          /\ e.task \in Tasks \cup {None}
    BY <1>2, <1>3 DEF Event
  <2>5. \A f \in events' : \/ f.about = None /\ f.project = None /\ f.task = None
                         \/ \E e \in events : f = Unlinked(e, gone)
    BY <1>2, <2>1
  <2>6. None \notin RowIds /\ None \notin gone
    BY <1>2, RequestFits, NamesDiffer DEF RowIds, Deleted, TasksOf
  <2>7. OneEvent'
    <3>1. ASSUME NEW y \in RowIds
          PROVE  /\ Created(y)' => \E e \in events' : e.about = y /\ \A f \in events' : f.about = y => f = e
                 /\ ~Created(y)' => \A e \in events' : e.about # y
      <4>1. CASE Created(y)
        <5>1. PICK e \in events : e.about = y /\ \A f \in events : f.about = y => f = e
          BY <4>1 DEF OneEvent
        <5>2. /\ Unlinked(e, gone) \in events' /\ Unlinked(e, gone).about = y
              /\ \A f \in events' : f.about = y => f = Unlinked(e, gone)
          BY <1>3, <2>4, <2>5, <2>6, <5>1
        <5> QED BY <2>3, <4>1, <5>2
      <4>2. CASE ~Created(y)
        BY <1>3, <2>3, <2>5, <2>6, <4>2 DEF OneEvent
      <4> QED BY <4>1, <4>2
    <3>2. \A y \in RowIds : audits'[y] = updates'[y]
      BY CommitRows DEF OneEvent
    <3> QED BY <3>1, <3>2 DEF OneEvent
  <2>8. Linked'
    <3>1. ASSUME NEW f \in events'
          PROVE  /\ f.about \in Projects => f.project = (IF Alive(f.about)' THEN f.about ELSE None)
                 /\ f.about \in Tasks => f.task = (IF Alive(f.about)' THEN f.about ELSE None)
                 /\ f.project # None => Live(f.project)'
      <4>1. CASE f.about = None /\ f.project = None /\ f.task = None
        BY <4>1, NamesDiffer
      <4>2. CASE \E e \in events : f = Unlinked(e, gone)
        <5>1. PICK e \in events : f = Unlinked(e, gone)
          BY <4>2
        <5>2. /\ f.about = e.about
              /\ f.project = (IF e.project \in gone THEN None ELSE e.project)
              /\ f.task = (IF e.task \in gone THEN None ELSE e.task)
          BY <1>3, <5>1
        <5>3. /\ e.about \in Projects => e.project = (IF Alive(e.about) THEN e.about ELSE None)
              /\ e.about \in Tasks => e.task = (IF Alive(e.about) THEN e.about ELSE None)
              /\ e.project # None => Live(e.project)
          BY DEF Linked
        <5>4. /\ e.about \in Projects => e.about \in RowIds
              /\ e.about \in Tasks => e.about \in RowIds
          BY DEF RowIds
        <5>5. /\ e.about \in Projects => f.project = (IF Alive(e.about)' THEN e.about ELSE None)
              /\ e.about \in Tasks => f.task = (IF Alive(e.about)' THEN e.about ELSE None)
          BY <2>3, <2>6, <5>2, <5>3, <5>4
        <5>6. f.project # None => Live(f.project)'
          BY <2>2, <2>4, <5>2, <5>3
        <5> QED BY <5>2, <5>5, <5>6
      <4> QED BY <2>5, <4>1, <4>2
    <3> QED BY <3>1 DEF Linked
  <2> QED BY <2>7, <2>8
<1> QED BY <1>5, <1>6

\* The inductive invariant of the requests.
RecordsInv ==
    /\ TypeOK /\ LabelsFit /\ StagedFits
    /\ IdsDiffer /\ Counted
    /\ LocksApart /\ Pinned /\ Creations
    /\ OneEvent /\ Linked

\* It holds of an empty workspace, and of one with a project and its task.
LEMMA RecordsInitial == RecordsInit => RecordsInv
<1> SUFFICES ASSUME RecordsInit PROVE RecordsInv
  OBVIOUS
<1>1. TypeOK
  BY InitTypes
<1>2. /\ \A a \in Sessions : pc[a] = "idle" /\ req[a] = NoRequest /\ held[a] = {} /\ staged[a] = {}
      /\ begun = 0
  BY DEF RecordsInit
<1>3. LabelsFit /\ StagedFits /\ LocksApart /\ Pinned /\ Creations
  BY <1>2 DEF LabelsFit, StagedFits, LocksApart, Pinned, Creations, Creating, NoRequest, Updating,
     Planning
<1>4. /\ \A x \in RowIds : audits[x] = updates[x]
      /\ \/ /\ events = {}
            /\ \A p \in Projects : project[p] = "new"
            /\ \A t \in Tasks : task[t] = "new"
         \/ \E p \in Projects, t \in Tasks :
               /\ events = {[kind |-> "event", id |-> 1, at |-> 0, about |-> p, project |-> p, task |-> None],
                            [kind |-> "event", id |-> 2, at |-> 0, about |-> t, project |-> p, task |-> t]}
               /\ project[p] \in Slugs /\ \A q \in Projects \ {p} : project[q] = "new"
               /\ task[t] = p /\ \A u \in Tasks \ {t} : task[u] = "new"
  <2>1. PICK ps \in {{}, {CHOOSE p \in Projects : TRUE}}, slug \in Slugs :
          LET ts == IF ps = {} THEN {} ELSE {CHOOSE t \in Tasks : TRUE}
              created(i, x, p, t) == [kind |-> "event", id |-> i, at |-> 0, about |-> x,
                                      project |-> p, task |-> t]
          IN
          /\ project = [p \in Projects |-> IF p \in ps THEN slug ELSE "new"]
          /\ task = [t \in Tasks |-> IF t \in ts THEN CHOOSE p \in ps : TRUE ELSE "new"]
          /\ events = {created(1, p, p, None) : p \in ps}
                      \cup {created(2, t, task[t], t) : t \in ts}
    BY DEF RecordsInit
  <2>2. \A x \in RowIds : audits[x] = updates[x]
    BY DEF RecordsInit
  <2>3. CASE ps = {}
    BY <2>1, <2>2, <2>3
  <2>4. CASE ps # {}
    <3>1. PICK p \in Projects : ps = {p}
      BY <2>1, <2>4, RecordsAssumption
    <3>2. PICK t \in Tasks : t = CHOOSE x \in Tasks : TRUE
      BY RecordsAssumption
    <3>3. task[t] = p /\ \A u \in Tasks \ {t} : task[u] = "new"
      BY <2>1, <3>1, <3>2
    <3>4. events = {[kind |-> "event", id |-> 1, at |-> 0, about |-> p, project |-> p, task |-> None],
                    [kind |-> "event", id |-> 2, at |-> 0, about |-> t, project |-> p, task |-> t]}
      BY <2>1, <3>1, <3>2, <3>3, ZenonT(60)
    <3>5. project[p] \in Slugs /\ \A q \in Projects \ {p} : project[q] = "new"
      BY <2>1, <3>1
    <3> QED BY <2>2, <3>3, <3>4, <3>5
  <2> QED BY <2>3, <2>4
<1>5. OneEvent /\ Linked
  <2>1. CASE events = {} /\ (\A p \in Projects : project[p] = "new") /\ \A t \in Tasks : task[t] = "new"
    BY <1>4, <2>1 DEF OneEvent, Linked, Created, RowIds
  <2>2. ASSUME NEW p \in Projects, NEW t \in Tasks,
               events = {[kind |-> "event", id |-> 1, at |-> 0, about |-> p, project |-> p, task |-> None],
                         [kind |-> "event", id |-> 2, at |-> 0, about |-> t, project |-> p, task |-> t]},
               project[p] \in Slugs /\ \A q \in Projects \ {p} : project[q] = "new",
               task[t] = p /\ \A u \in Tasks \ {t} : task[u] = "new"
        PROVE  OneEvent /\ Linked
    <3>1. p # t
      BY NamesDiffer
    <3>2. \A x \in RowIds : Created(x) <=> x \in {p, t}
      BY <2>2, NamesDiffer DEF Created, RowIds
    <3>3. OneEvent
      BY <1>4, <2>2, <3>1, <3>2 DEF OneEvent
    <3>4. Alive(p) /\ Alive(t) /\ Live(p)
      BY <2>2, NamesDiffer DEF Alive, Live
    <3>5. Linked
      BY <2>2, <3>4, NamesDiffer DEF Linked
    <3> QED BY <3>3, <3>5
  <2> QED BY <1>4, <2>1, <2>2
<1>6. IdsDiffer
  BY <1>2, <1>4 DEF IdsDiffer
<1>7. Counted
  <2>1. Pending = {}
    BY <1>2 DEF Pending
  <2>2. UsedIds \subseteq {1, 2}
    BY <1>2, <1>4, UsedIs
  <2>3. IsFiniteSet({1, 2}) /\ Cardinality({1, 2}) = 2
    <3>1. IsFiniteSet({1}) /\ Cardinality({1}) = 1 /\ {1} \cup {2} = {1, 2}
      BY FS_Singleton
    <3> QED BY <3>1, FS_AddElement
  <2>4. Cardinality(UsedIds) \in Nat /\ Cardinality(UsedIds) <= 2
    BY <2>2, <2>3, FS_Subset, FS_CardinalityType, ZenonT(60)
  <2> QED BY <1>2, <2>1, <2>4, FS_EmptySet DEF Counted
<1> QED BY <1>1, <1>3, <1>5, <1>6, <1>7 DEF RecordsInv

\* Every step keeps it.
LEMMA RecordsNext ==
    ASSUME RecordsInv, [Next]_vars
    PROVE  RecordsInv'
<1>1. CASE RecordsStep
  <2>1. PICK a \in Sessions : Step(a) /\ Others(a)
    BY <1>1, StepIs DEF RecordsInv
  <2>2. UNCHANGED <<project, task, plans, events, audits, updates>>
    BY <1>1, StepIs DEF RecordsInv
  <2>3. TypeOK'
    BY <1>1, StepTypes DEF RecordsInv
  <2>4. LabelsFit' /\ StagedFits'
    BY <2>1, StepLabels DEF RecordsInv
  <2>5. IdsDiffer' /\ Counted'
    BY <2>1, <2>2, <2>3, StepIds, StepCounted DEF RecordsInv
  <2>6. LocksApart' /\ Pinned' /\ Creations'
    BY <2>1, <2>2, StepLocks, StepPinned, StepCreations DEF RecordsInv
  <2>7. OneEvent' /\ Linked'
    BY <2>2 DEF RecordsInv, OneEvent, Linked, Created, Alive, Live
  <2> QED BY <2>3, <2>4, <2>5, <2>6, <2>7 DEF RecordsInv
<1>2. CASE \E a \in Sessions : Commit(a)
  <2>1. PICK a \in Sessions : Commit(a)
    BY <1>2
  <2>2. TypeOK'
    BY <2>1, CommitTypes DEF RecordsInv
  <2> QED BY <2>1, <2>2, CommitLabels, CommitIds, CommitKeeps, CommitRecorded DEF RecordsInv
<1>3. CASE UNCHANGED recordVars
  <2>1. /\ UNCHANGED <<project, task, plans, runs, events, audits, updates, clock, begun>>
        /\ UNCHANGED <<pc, req, number, since, held, staged>>
    BY <1>3 DEF recordVars, tables, sessions
  <2>2. TypeOK'
    BY <2>1 DEF RecordsInv, TypeOK
  <2>3. LabelsFit' /\ StagedFits'
    BY <2>1 DEF RecordsInv, LabelsFit, StagedFits, NewRecord
  <2>4. IdsDiffer'
    BY <2>1 DEF RecordsInv, IdsDiffer
  <2>5. Counted'
    <3>1. UsedIds' = UsedIds /\ Pending' = Pending
      BY <2>1 DEF UsedIds, Pending
    <3> QED BY <2>1, <3>1 DEF RecordsInv, Counted
  <2>6. LocksApart' /\ Pinned' /\ Creations'
    BY <2>1 DEF RecordsInv, LocksApart, Pinned, Creations, Live
  <2>7. OneEvent' /\ Linked'
    BY <2>1 DEF RecordsInv, OneEvent, Linked, Created, Alive, Live
  <2> QED BY <2>2, <2>3, <2>4, <2>5, <2>6, <2>7 DEF RecordsInv
<1> QED BY <1>1, <1>2, <1>3 DEF Next, vars, CommitSeen, Open, Refuse, Poll, Deliver, Drop

\* It is an invariant.
LEMMA RecordsInvariant == Spec => []RecordsInv
<1>1. Init => RecordsInv
  BY RecordsInitial DEF Init
<1>2. RecordsInv /\ [Next]_vars => RecordsInv'
  BY RecordsNext
<1> QED BY <1>1, <1>2, PTL DEF Spec

\* Whatever fails, dies or deadlocks on the way, a project or a task was
\* created exactly when one event says so, every update has its audit
\* record, and an event keeps its links exactly while the rows they name
\* exist (append_event, append_record).
THEOREM RecordsAreTogether == Spec => []RecordedTogether
<1>1. RecordsInv => RecordedTogether
  <2>1. SUFFICES ASSUME RecordsInv, NEW x \in RowIds
                 PROVE  Cardinality({e \in events : e.about = x}) = (IF Created(x) THEN 1 ELSE 0)
    BY DEF RecordsInv, OneEvent, Linked, RecordedTogether, RowIds
  <2>2. CASE Created(x)
    <3>1. PICK e \in events : e.about = x /\ \A f \in events : f.about = x => f = e
      BY <2>1, <2>2 DEF RecordsInv, OneEvent
    <3>2. {f \in events : f.about = x} = {e}
      BY <3>1
    <3> QED BY <2>2, <3>2, FS_Singleton, Zenon
  <2>3. CASE ~Created(x)
    <3>1. {f \in events : f.about = x} = {}
      BY <2>1, <2>3 DEF RecordsInv, OneEvent
    <3> QED BY <2>3, <3>1, FS_EmptySet, Zenon
  <2> QED BY <2>2, <2>3
<1> QED BY <1>1, RecordsInvariant, PTL

-----------------------------------------------------------------------------
(* The stream.                                                             *)

\* What the stream has read of the table, sent or not.
Seen == received \o batch
\* Nothing between the first and the last of s is missing but what came late.
Gapless(s) ==
    \A e \in events :
        s # <<>> /\ Before(s[1], e) /\ Before(e, Last(s)) =>
            e.id \in {k.id : k \in ToSet(s)} \cup late

\* The inductive invariant of the stream.
StreamFits ==
    /\ conn \in {"opening", "open", "refused"}
    /\ received \in Seq(Keys) /\ batch \in Seq(Keys)
    /\ conn # "open" => batch = <<>>
    /\ conn = "open" => cursor = ResolvedCursor
    /\ Increasing(Seen) /\ Gapless(Seen)

\* The events are finitely many, each with its own key: ids are.
LEMMA KeysFinite ==
    ASSUME RecordsInv
    PROVE  Keys \subseteq Stamps /\ IsFiniteSet(Keys)
<1>1. \A e \in events : Key(e) \in Stamps /\ Key(e).id = e.id /\ e.id \in EventIds
  BY RecordsAssumption DEF RecordsInv, TypeOK, Event, Key, Stamps
<1>2. Keys \subseteq Stamps
  BY <1>1 DEF Keys
<1> DEFINE f == [k \in Keys |-> k.id]
<1>3. f \in [Keys -> EventIds]
  BY <1>1 DEF Keys
<1>4. \A j, k \in Keys : f[j] = f[k] => j = k
  BY <1>1 DEF RecordsInv, IdsDiffer, Keys
<1>5. f \in Injection(Keys, EventIds)
  <2> HIDE DEF f
  <2> QED BY <1>3, <1>4 DEF Injection, IsInjective
<1> QED BY <1>2, <1>5, FS_Injection, RecordsAssumption

\* The elements of a concatenation.
LEMMA Joined ==
    ASSUME NEW S, NEW r \in Seq(S), NEW b \in Seq(S)
    PROVE  /\ r \o b \in Seq(S) /\ Len(r \o b) = Len(r) + Len(b)
           /\ DOMAIN (r \o b) = 1 .. Len(r) + Len(b)
           /\ \A i \in 1 .. Len(r) : (r \o b)[i] = r[i]
           /\ \A i \in 1 .. Len(b) : (r \o b)[Len(r) + i] = b[i]
           /\ ToSet(r \o b) = ToSet(r) \cup ToSet(b)
           /\ r # <<>> => (r \o b)[1] = r[1]
           /\ b # <<>> => Last(r \o b) = Last(b)
           /\ r = <<>> => r \o b = b
           /\ b = <<>> => r \o b = r
<1>1. /\ r \o b \in Seq(S) /\ Len(r \o b) = Len(r) + Len(b)
      /\ \A i \in 1 .. Len(r) : (r \o b)[i] = r[i]
      /\ \A i \in 1 .. Len(b) : (r \o b)[Len(r) + i] = b[i]
  OBVIOUS
<1>2. ToSet(r \o b) = ToSet(r) \cup ToSet(b)
  <2> DEFINE q == r \o b
  <2>1. \A x \in ToSet(q) : x \in ToSet(r) \cup ToSet(b)
    <3>1. SUFFICES ASSUME NEW i \in 1 .. Len(r) + Len(b)
                   PROVE  q[i] \in ToSet(r) \cup ToSet(b)
      BY <1>1 DEF ToSet
    <3>2. CASE i <= Len(r)
      BY <1>1, <3>2 DEF ToSet
    <3>3. CASE i > Len(r)
      <4>1. i - Len(r) \in 1 .. Len(b) /\ Len(r) + (i - Len(r)) = i
        BY <3>3
      <4> QED BY <1>1, <4>1 DEF ToSet
    <3> QED BY <3>2, <3>3
  <2>2. \A i \in 1 .. Len(r) : r[i] \in ToSet(q)
    BY <1>1 DEF ToSet
  <2>3. \A i \in 1 .. Len(b) : b[i] \in ToSet(q)
    <3>1. \A i \in 1 .. Len(b) : Len(r) + i \in DOMAIN q
      BY <1>1
    <3> QED BY <1>1, <3>1 DEF ToSet
  <2> HIDE DEF q
  <2>4. \A x \in ToSet(r) : x \in ToSet(q)
    <3>1. SUFFICES ASSUME NEW i \in DOMAIN r PROVE r[i] \in ToSet(q)
      BY DEF ToSet
    <3> QED BY <2>2
  <2>5. \A x \in ToSet(b) : x \in ToSet(q)
    <3>1. SUFFICES ASSUME NEW i \in DOMAIN b PROVE b[i] \in ToSet(q)
      BY DEF ToSet
    <3> QED BY <2>3
  <2>6. q = r \o b
    BY DEF q
  <2> QED BY <2>1, <2>4, <2>5, <2>6
<1>3. r # <<>> => Len(r) > 0 /\ (r \o b)[1] = r[1]
  BY <1>1
<1>4. b # <<>> => Last(r \o b) = Last(b)
  <2>1. b # <<>> => Len(b) \in 1 .. Len(b)
    OBVIOUS
  <2> QED BY <1>1, <2>1 DEF Last
<1>5. (r = <<>> => r \o b = b) /\ (b = <<>> => r \o b = r)
  OBVIOUS
<1> QED BY <1>1, <1>2, <1>3, <1>4, <1>5

\* What the browser has is as good as what the stream has read.
LEMMA ReceivedFits ==
    ASSUME RecordsInv, StreamFits
    PROVE  Increasing(received) /\ Gapless(received)
<1>1. Keys \subseteq Stamps /\ received \in Seq(Keys) /\ batch \in Seq(Keys)
  BY KeysFinite DEF StreamFits
<1>2. Increasing(received)
  BY <1>1, Joined, SMTT(40) DEF StreamFits, Increasing, Seen
<1>3. SUFFICES ASSUME NEW e \in events, received # <<>>, Before(received[1], e),
                      Before(e, Last(received)), batch # <<>>
               PROVE  e.id \in {k.id : k \in ToSet(received)} \cup late
  <2>1. batch = <<>> => Seen = received
    BY <1>1, Joined DEF Seen
  <2> QED BY <1>2, <2>1 DEF StreamFits, Gapless
<1> DEFINE n == Len(received)
           m == Len(batch)
           l == received[n]
<1>4. /\ n \in Nat \ {0} /\ m \in Nat \ {0} /\ Last(received) = l
      /\ l \in Stamps /\ Key(e) \in Stamps /\ Key(e) \in Keys
  BY <1>1, <1>3 DEF Last, Keys
<1>5. \A i \in 1 .. m : Before(l, batch[i])
  <2>1. SUFFICES ASSUME NEW i \in 1 .. m PROVE Before(l, batch[i])
    OBVIOUS
  <2>2. /\ n \in 1 .. n /\ n \in DOMAIN Seen /\ n + i \in DOMAIN Seen /\ n < n + i
        /\ Seen[n] = received[n] /\ Seen[n + i] = batch[i]
    BY <1>1, <1>4, Joined DEF Seen
  <2> QED BY <2>2 DEF StreamFits, Increasing
<1>6. Before(Key(e), l)
  BY <1>3, <1>4 DEF Before, Key
<1>7. /\ Seen # <<>> /\ Seen[1] = received[1] /\ Last(Seen) = batch[m]
      /\ batch[m] \in Stamps /\ Before(l, batch[m])
  <2>1. Seen \in Seq(Keys) /\ Len(Seen) = n + m /\ Seen[1] = received[1] /\ Last(Seen) = Last(batch)
    BY <1>1, <1>3, Joined DEF Seen
  <2> QED BY <1>1, <1>3, <1>4, <1>5, <2>1 DEF Last
<1>8. Before(Key(e), batch[m])
  BY <1>4, <1>6, <1>7, BeforeOrders
<1>9. Before(e, Last(Seen))
  BY <1>7, <1>8 DEF Before, Key
<1>10. e.id \in {k.id : k \in ToSet(Seen)} \cup late
  BY <1>3, <1>7, <1>9 DEF StreamFits, Gapless
<1>11. ASSUME NEW k \in ToSet(batch) PROVE k.id # e.id
  <2>1. k \in Keys /\ Before(l, k) /\ k \in Stamps
    BY <1>1, <1>5 DEF ToSet
  <2>2. PICK f \in events : k = Key(f)
    BY <2>1 DEF Keys
  <2>3. k.id = e.id => f = e
    BY <2>2 DEF RecordsInv, IdsDiffer, Key
  <2> QED BY <1>4, <1>6, <2>1, <2>2, <2>3, BeforeOrders
<1>12. ToSet(Seen) = ToSet(received) \cup ToSet(batch)
  BY <1>1, Joined DEF Seen
<1> QED BY <1>10, <1>11, <1>12

\* A batch read after the cursor continues what has been read.
LEMMA PollFits ==
    ASSUME RecordsInv, StreamFits, Poll
    PROVE  Increasing(Seen)' /\ Gapless(Seen)' /\ batch' \in Seq(Keys)
<1>1. /\ Keys \subseteq Stamps /\ IsFiniteSet(Keys) /\ received \in Seq(Keys)
      /\ Increasing(received) /\ Gapless(received)
  BY KeysFinite, ReceivedFits DEF StreamFits
<1>2. UNCHANGED <<events, received, late>> /\ batch' = list_stream_batch /\ list_stream_batch # <<>>
  BY DEF Poll, recordVars, tables
<1>3. cursor = ResolvedCursor
  BY DEF Poll, StreamFits
<1> PICK b : b = list_stream_batch
  OBVIOUS
<1>4. CASE received = <<>>
  <2>1. Contiguous(b, Keys)
    BY <1>1, <1>3, <1>4, RecentBatch DEF ResolvedCursor, list_stream_batch
  <2>2. b \in Seq(Keys) /\ Seen' = b
    BY <1>1, <1>2, <1>4, <2>1, Joined DEF Contiguous, Seen
  <2>3. ASSUME NEW e \in events, Before(b[1], e), Before(e, Last(b))
        PROVE  e.id \in {k.id : k \in ToSet(b)}
    <3>1. Key(e) \in Keys /\ Before(b[1], Key(e)) /\ Before(Key(e), Last(b)) /\ Key(e).id = e.id
      BY <2>3 DEF Keys, Key, Before
    <3>2. Key(e) \in ToSet(b)
      BY <1>2, <2>1, <3>1 DEF Contiguous
    <3> QED BY <3>1, <3>2
  <2> QED BY <1>2, <2>1, <2>2, <2>3 DEF Contiguous, Gapless, Increasing
<1>5. CASE received # <<>>
  <2> DEFINE n == Len(received)
             c == received[n]
  <2>1. n \in Nat \ {0} /\ c \in Stamps /\ cursor = c /\ Last(received) = c /\ c # None
        /\ c \in ToSet(received)
    BY <1>1, <1>3, <1>5, StreamAssumption DEF ResolvedCursor, Last, Stamps, ToSet
  <2>2. Follows(b, Keys, c)
    BY <1>1, <2>1, NextBatch DEF list_stream_batch
  <2>3. b \in Seq(Keys) /\ b # <<>> /\ Seen' = received \o b
    BY <1>2, <2>2 DEF Follows, Seen
  <2>4. \A i \in 1 .. n, j \in 1 .. Len(b) : Before(received[i], b[j])
    <3>1. SUFFICES ASSUME NEW i \in 1 .. n, NEW j \in 1 .. Len(b) PROVE Before(received[i], b[j])
      OBVIOUS
    <3>2. received[i] \in Stamps /\ b[j] \in Stamps /\ Before(c, b[j])
      BY <1>1, <2>2, <2>3 DEF Follows
    <3>3. i = n \/ Before(received[i], c)
      BY <1>1, <2>1 DEF Increasing
    <3> QED BY <2>1, <3>2, <3>3, BeforeOrders
  <2>5. Increasing(received \o b)
    <3>1. SUFFICES ASSUME NEW i \in 1 .. n + Len(b), NEW j \in 1 .. n + Len(b), i < j
                   PROVE  Before((received \o b)[i], (received \o b)[j])
      BY <1>1, <2>3, Joined DEF Increasing
    <3>2. CASE j <= n
      BY <1>1, <2>1, <2>3, <3>1, <3>2, Joined DEF Increasing
    <3>3. CASE i <= n /\ j > n
      <4>1. j - n \in 1 .. Len(b) /\ n + (j - n) = j
        BY <2>1, <3>3
      <4>2. (received \o b)[i] = received[i] /\ (received \o b)[n + (j - n)] = b[j - n]
        BY <1>1, <2>3, <3>3, <4>1, Joined
      <4> QED BY <2>4, <3>3, <4>1, <4>2
    <3>4. CASE i > n
      <4>1. /\ j - n \in 1 .. Len(b) /\ n + (j - n) = j /\ i - n < j - n
            /\ i - n \in 1 .. Len(b) /\ n + (i - n) = i
        BY <2>1, <2>3, <3>1, <3>4
      <4>2. (received \o b)[n + (i - n)] = b[i - n] /\ (received \o b)[n + (j - n)] = b[j - n]
        BY <1>1, <2>3, <4>1, Joined
      <4>3. Before(b[i - n], b[j - n])
        BY <2>2, <2>3, <4>1 DEF Follows, Increasing
      <4> QED BY <4>1, <4>2, <4>3
    <3> QED BY <2>1, <3>2, <3>3, <3>4
  <2>6. ASSUME NEW e \in events, Before(received[1], e), Before(e, Last(b))
        PROVE  e.id \in {k.id : k \in ToSet(received) \cup ToSet(b)} \cup late
    <3>1. Key(e) \in Keys /\ Key(e) \in Stamps /\ Before(Key(e), Last(b)) /\ Key(e).id = e.id
      BY <1>1, <2>6 DEF Keys, Key, Before
    <3>2. CASE Key(e) = c
      BY <2>1, <3>1, <3>2
    <3>3. CASE Before(Key(e), c)
      <4>1. Before(e, Last(received))
        BY <2>1, <3>3 DEF Before, Key
      <4> QED BY <1>1, <1>5, <2>6, <4>1 DEF Gapless
    <3>4. CASE Before(c, Key(e))
      BY <2>2, <2>3, <3>1, <3>4 DEF Follows
    <3> QED BY <2>1, <3>1, <3>2, <3>3, <3>4, BeforeOrders
  <2>7. /\ (received \o b)[1] = received[1] /\ Last(received \o b) = Last(b)
        /\ ToSet(received \o b) = ToSet(received) \cup ToSet(b)
    BY <1>1, <1>5, <2>3, Joined
  <2>8. \A e \in events : Before((received \o b)[1], e) /\ Before(e, Last(received \o b)) =>
                             e.id \in {k.id : k \in ToSet(received \o b)} \cup late
    BY <2>6, <2>7
  <2>9. Increasing(Seen') /\ Increasing(Seen)' <=> Increasing(Seen')
    BY <2>3, <2>5 DEF Increasing
  <2> QED BY <1>2, <2>3, <2>5, <2>8 DEF Gapless, Increasing
<1> QED BY <1>4, <1>5

\* Every step of the stream and of the requests keeps StreamFits.
LEMMA StreamNext ==
    ASSUME RecordsInv, RecordsInv', StreamFits, [Next]_vars
    PROVE  StreamFits'
<1>1. received \in Seq(Keys) /\ batch \in Seq(Keys) /\ Keys \subseteq Stamps
  BY KeysFinite DEF StreamFits
<1>2. CASE UNCHANGED <<streamVars, late, events>>
  BY <1>2 DEF streamVars, StreamFits, Seen, Keys, Gapless, ResolvedCursor
<1>3. ASSUME NEW a \in Sessions, CommitSeen(a) PROVE StreamFits'
  <2>1. /\ events' = {Unlinked(e, Deleted(req[a])) : e \in events} \cup {x \in staged[a] : x.kind = "event"}
        /\ UNCHANGED <<conn, cursor, batch, received>>
        /\ late' = late \cup
              {x.id : x \in {y \in staged[a] : y.kind = "event" /\
                            \E k \in ToSet(received) \cup ToSet(batch) : Before(Key(y), k)}}
    BY <1>3 DEF CommitSeen, Commit, streamVars
  <2>2. \A e \in events : Unlinked(e, Deleted(req[a])).at = e.at /\ Unlinked(e, Deleted(req[a])).id = e.id
    BY UnlinkedTyped DEF RecordsInv, TypeOK
  <2>3. Keys \subseteq Keys'
    <3>1. ASSUME NEW e \in events PROVE Key(e) \in Keys'
      <4>1. Unlinked(e, Deleted(req[a])) \in events' /\ Key(Unlinked(e, Deleted(req[a]))) = Key(e)
        BY <2>1, <2>2 DEF Key
      <4> QED BY <4>1 DEF Keys
    <3> QED BY <3>1 DEF Keys
  <2>4. received \in Seq(Keys') /\ batch \in Seq(Keys')
    BY <1>1, <2>3
  <2>5. Seen' = Seen
    BY <2>1 DEF Seen
  <2>6. ASSUME NEW e \in events', Seen # <<>>, Before(Seen[1], e), Before(e, Last(Seen))
        PROVE  e.id \in {k.id : k \in ToSet(Seen)} \cup late'
    <3>1. CASE e \in staged[a] /\ e.kind = "event"
      <4>1. Last(Seen) \in ToSet(received) \cup ToSet(batch)
        <5>1. Seen \in Seq(Keys) /\ ToSet(Seen) = ToSet(received) \cup ToSet(batch)
          BY <1>1, Joined DEF Seen
        <5> QED BY <2>6, <5>1 DEF Last, ToSet
      <4>2. Before(Key(e), Last(Seen))
        BY <2>6 DEF Before, Key
      <4> QED BY <2>1, <3>1, <4>1, <4>2
    <3>2. CASE \E f \in events : e = Unlinked(f, Deleted(req[a]))
      <4>1. PICK f \in events : e.at = f.at /\ e.id = f.id
        BY <2>2, <3>2
      <4>2. Before(Seen[1], f) /\ Before(f, Last(Seen))
        BY <2>6, <4>1 DEF Before
      <4>3. f.id \in {k.id : k \in ToSet(Seen)} \cup late
        BY <2>6, <4>2 DEF StreamFits, Gapless
      <4> QED BY <2>1, <4>1, <4>3
    <3> QED BY <2>1, <3>1, <3>2
  <2>7. Gapless(Seen)'
    BY <2>5, <2>6 DEF Gapless
  <2>8. Increasing(Seen)'
    BY <2>5 DEF StreamFits, Increasing
  <2> QED BY <2>1, <2>4, <2>7, <2>8 DEF StreamFits, ResolvedCursor
<1>4. CASE Open
  <2>1. /\ conn' = "open" /\ cursor' = ResolvedCursor /\ UNCHANGED <<events, batch, received, late>>
    BY <1>4 DEF Open, recordVars, tables
  <2> QED BY <2>1 DEF StreamFits, Seen, Keys, Gapless, ResolvedCursor, Increasing
<1>5. CASE Refuse
  <2>1. /\ conn = "opening" /\ conn' = "refused" /\ UNCHANGED <<events, batch, received, late, cursor>>
    BY <1>5 DEF Refuse, recordVars, tables
  <2> QED BY <2>1 DEF StreamFits, Seen, Keys, Gapless, ResolvedCursor, Increasing
<1>6. CASE Poll
  <2>1. UNCHANGED <<events, received, conn, cursor, late>> /\ conn = "open"
    BY <1>6 DEF Poll, recordVars, tables
  <2>2. Keys' = Keys /\ ResolvedCursor' = ResolvedCursor
    BY <2>1 DEF Keys, ResolvedCursor
  <2> QED BY <1>6, <2>1, <2>2, PollFits DEF StreamFits
<1>7. CASE Deliver
  <2>1. /\ UNCHANGED <<events, conn, late>> /\ conn = "open" /\ batch # <<>>
        /\ received' = Append(received, Head(batch)) /\ cursor' = Head(batch) /\ batch' = Tail(batch)
    BY <1>7 DEF Deliver, recordVars, tables
  <2>2. /\ received' \in Seq(Keys) /\ batch' \in Seq(Keys) /\ received' # <<>>
        /\ Last(received') = Head(batch)
    BY <1>1, <2>1 DEF Last
  <2>3. Seen' = Seen
    BY <1>1, <2>1 DEF Seen
  <2>4. Keys' = Keys /\ ResolvedCursor' = Head(batch)
    BY <2>1, <2>2 DEF Keys, ResolvedCursor
  <2> QED BY <2>1, <2>2, <2>3, <2>4 DEF StreamFits, Gapless, Increasing
<1>8. CASE Drop
  <2>1. /\ UNCHANGED <<events, received, late>> /\ conn' = "opening" /\ batch' = <<>>
    BY <1>8 DEF Drop, recordVars, tables
  <2>2. Seen' = received
    BY <1>1, <2>1 DEF Seen
  <2>3. Increasing(received) /\ Gapless(received)
    BY ReceivedFits
  <2>4. Keys' = Keys /\ batch' \in Seq(Keys)
    BY <2>1 DEF Keys
  <2> QED BY <1>1, <2>1, <2>2, <2>3, <2>4 DEF StreamFits, Gapless, Increasing
<1>9. RecordsStep => UNCHANGED events
  BY StepIs DEF RecordsInv
<1>10. UNCHANGED vars => UNCHANGED <<streamVars, late, events>>
  BY DEF vars, recordVars, tables
<1> QED BY <1>2, <1>3, <1>4, <1>5, <1>6, <1>7, <1>8, <1>9, <1>10 DEF Next

\* It is an invariant, with that of the requests.
LEMMA StreamInvariant == Spec => [](RecordsInv /\ StreamFits)
<1>1. Init => StreamFits
  <2>1. SUFFICES ASSUME Init PROVE StreamFits
    OBVIOUS
  <2>2. conn = "opening" /\ batch = <<>> /\ received = <<>>
    BY <2>1 DEF Init
  <2>3. Seen = <<>>
    BY <2>2 DEF Seen
  <2> QED BY <2>2, <2>3 DEF StreamFits, Increasing, Gapless
<1>2. RecordsInv /\ RecordsInv' /\ StreamFits /\ [Next]_vars => StreamFits'
  BY StreamNext
<1> QED BY <1>1, <1>2, RecordsInvariant, PTL DEF Spec

\* Across polls, batches, broken connections and concurrent commits, the browser
\* receives committed events in the order of occurrence, and none twice
\* (stream_events and its cursor).
THEOREM ReceivedInOrder == Spec => []StreamIsOrdered
<1>1. RecordsInv /\ StreamFits => StreamIsOrdered
  <2>1. SUFFICES ASSUME RecordsInv, StreamFits PROVE StreamIsOrdered
    OBVIOUS
  <2>2. received \in Seq(Keys) /\ Increasing(received)
    BY <2>1, ReceivedFits DEF StreamFits
  <2> QED BY <2>2 DEF StreamIsOrdered, Increasing, ToSet
<1> QED BY <1>1, StreamInvariant, PTL

\* Between the first and the last event received nothing is missing but events
\* that committed behind one already read (list_events_after).
THEOREM OnlyLateMissed == Spec => []OnlyLateIsMissed
<1>1. RecordsInv /\ StreamFits => OnlyLateIsMissed
  BY ReceivedFits DEF OnlyLateIsMissed, Gapless, ReceivedIds
<1> QED BY <1>1, StreamInvariant, PTL

-----------------------------------------------------------------------------
(* Plans and runs.                                                         *)

\* The number of a task's newest version, for versions are numbered 1, 2, ...
NewestVersion(t) == Len(plans[t])
\* A request that has flushed its version.
Versioning(a) == Planning(req[a]) /\ pc[a] \in {"log", "commit"}
\* A development workflow that has committed its plan.
Developing(a) == req[a].op = "develop" /\ pc[a] \in {"run", "handoff"}
\* A run of the task has been handed the request.
Handed(t) == \E i \in DOMAIN runs[t] : runs[t][i].request

\* The number a request works with: what it read until it has flushed, the next
\* version from then on.
VersionFits(a) ==
    /\ Planning(req[a]) /\ pc[a] = "write" => number[a] \in 1 .. NewestVersion(req[a].task) + 1
    /\ Versioning(a) => number[a] = NewestVersion(req[a].task) + 1
    /\ req[a].op = "develop" /\ pc[a] \in {"write", "log", "commit", "run"} => number[a] = 1
    /\ pc[a] = "run" => number[a] \in 1 .. NewestVersion(req[a].task)

\* Versions are numbered in order, and one request at a time has flushed the next.
Numbered ==
    /\ \A t \in Tasks : \A i \in DOMAIN plans[t] : plans[t][i].version = i
    /\ \A a \in Sessions : VersionFits(a)
    /\ \A a, b \in Sessions :
          Versioning(a) /\ Versioning(b) /\ req[a].task = req[b].task => a = b

\* A development workflow between its commits: its task has a plan and no run has
\* been handed the request.
DevelopFits(a) ==
    Developing(a) =>
        \E t \in Tasks :
            /\ t = req[a].task /\ ~Handed(t) /\ NewestVersion(t) > 0
            /\ pc[a] = "handoff" => number[a] \in DOMAIN runs[t]

\* Runs are of versions there are; at most one is handed the request, by the one
\* session that may.
OneHandoff ==
    /\ \A t \in Tasks :
          /\ \A i \in DOMAIN runs[t] : runs[t][i].version \in 1 .. NewestVersion(t)
          /\ \A i, j \in DOMAIN runs[t] : runs[t][i].request /\ runs[t][j].request => i = j
    /\ \A a \in Sessions : DevelopFits(a)
    /\ \A a, b \in Sessions :
          Developing(a) /\ Developing(b) /\ req[a].task = req[b].task => a = b

\* Every version is stored from a draft that was validated.
Drawn ==
    /\ \A a \in Sessions : Planning(req[a]) => validate_graph(req[a].draft)
    /\ \A t \in Tasks : \A i \in DOMAIN plans[t] :
          \E d \in Drafts \cup {DevelopmentPlan} : validate_graph(d) /\ plans[t][i].rows = Stored(d)

\* The inductive invariant of plans and runs.
PlansInv == Numbered /\ OneHandoff /\ Drawn

\* The versions of a task are 1 .. NewestVersion.
LEMMA VersionsAre ==
    ASSUME TypeOK, Numbered, NEW t \in Tasks
    PROVE  NewestVersion(t) \in Nat /\ Versions(t) = 1 .. NewestVersion(t)
<1>1. plans[t] \in Seq(PlanVersion) /\ DOMAIN plans[t] = 1 .. Len(plans[t]) /\ Len(plans[t]) \in Nat
  BY DEF TypeOK
<1> QED BY <1>1 DEF Numbered, NewestVersion, Versions

\* Nobody flushes the version another session has flushed: it waits for it.
LEMMA StepNumbered ==
    ASSUME TypeOK, LabelsFit, Numbered, UNCHANGED <<plans, task>>,
           NEW a \in Sessions, Step(a), Others(a)
    PROVE  Numbered'
<1>1. \A b \in Sessions \ {a} : Same(b)
  BY DEF Others
<1>2. /\ \A b \in Sessions \ {a} : VersionFits(b)' /\ (Versioning(b)' <=> Versioning(b))
      /\ \A t \in Tasks : NewestVersion(t)' = NewestVersion(t)
  BY <1>1 DEF Same, VersionFits, Versioning, NewestVersion, Numbered
<1>3. req[a] \in Request /\ (req[a].task \in Tasks => NewestVersion(req[a].task) \in Nat)
  BY VersionsAre DEF TypeOK
<1>4. CASE Ended(a)
  <2>1. VersionFits(a)' /\ ~Versioning(a)'
    BY <1>4 DEF Ended, NoRequest, VersionFits, Versioning, Planning
  <2> QED BY <1>1, <1>2, <2>1 DEF Numbered, Same
<1>5. CASE Begins(a)
  <2>1. ~Versioning(a)'
    BY <1>5 DEF Begins, Versioning, Planning
  <2> DEFINE r == req'[a]
             t == r.task
  <2>2. r \in Request /\ number'[a] \in PlanNumbers(r)
        /\ pc'[a] = CASE r.op = "report" -> "log" [] r.op = "create_run" -> "run" [] OTHER -> "write"
    BY <1>5 DEF Begins
  <2>3. CASE Planning(r)
    <3>1. t \in Tasks /\ pc'[a] = "write"
      BY <2>2, <2>3, RequestFits DEF Planning
    <3>2. Versions(t) = 1 .. NewestVersion(t) /\ NewestVersion(t) \in Nat
      BY <3>1, VersionsAre
    <3>3. number'[a] \in 1 .. NewestVersion(t) + 1 /\ (r.op = "develop" => number'[a] = 1)
      BY <2>2, <2>3, <3>2 DEF PlanNumbers, Planning
    <3>4. VersionFits(a)'
      BY <1>2, <2>1, <3>1, <3>3 DEF VersionFits
    <3> QED BY <1>1, <1>2, <2>1, <3>4 DEF Numbered, Same
  <2>4. CASE ~Planning(r)
    <3>1. r.op # "develop"
      BY <2>4 DEF Planning
    <3>2. pc'[a] = "run" => t \in Tasks /\ number'[a] \in 1 .. NewestVersion(t)
      <4>1. SUFFICES ASSUME r.op = "create_run"
                     PROVE  t \in Tasks /\ number'[a] \in 1 .. NewestVersion(t)
        BY <2>2
      <4>2. t \in Tasks
        BY <2>2, <4>1, RequestFits
      <4> QED BY <2>2, <4>1, <4>2, VersionsAre DEF PlanNumbers
    <3>3. VersionFits(a)'
      BY <1>2, <2>1, <2>4, <3>1, <3>2 DEF VersionFits
    <3> QED BY <1>1, <1>2, <2>1, <3>3 DEF Numbered, Same
  <2> QED BY <2>3, <2>4
<1>6. CASE Writes(a)
  <2>1. /\ pc[a] = "write" /\ ~Blocked(a) /\ Accepted(req[a], number[a])
        /\ req'[a] = req[a] /\ number'[a] = number[a] /\ pc'[a] \in {"cascade", "commit", "log"}
    BY <1>6 DEF Writes
  <2>2. CASE ~Planning(req[a])
    <3>1. VersionFits(a)' /\ ~Versioning(a)'
      BY <2>1, <2>2 DEF VersionFits, Versioning, Planning
    <3> QED BY <1>1, <1>2, <3>1 DEF Numbered, Same
  <2>3. CASE Planning(req[a])
    <3> DEFINE t == req[a].task
    <3>1. t \in Tasks
      BY <1>3, <2>3, RequestFits DEF Planning
    <3>2. number[a] \notin Versions(t)
      BY <2>1, <2>3 DEF Accepted, create_project, update_project, delete_project,
            create_task, update_task, delete_task, create_plan, Planning
    <3>3. number[a] = NewestVersion(t) + 1
      BY <2>1, <2>3, <3>1, <3>2, VersionsAre DEF Numbered, VersionFits
    <3>4. VersionFits(a)'
      BY <1>2, <2>1, <2>3, <3>1, <3>3 DEF VersionFits, Numbered, Versioning
    <3>5. \A b \in Sessions \ {a} : Versioning(b) => req[b].task # t
      <4>1. SUFFICES ASSUME NEW b \in Sessions \ {a}, Versioning(b), req[b].task = t PROVE FALSE
        OBVIOUS
      <4>2. number[b] = number[a]
        BY <3>3, <4>1 DEF Numbered, VersionFits
      <4>3. Waits(a, b)
        BY <2>1, <2>3, <4>1, <4>2 DEF Waits, VersionWait, Versioning
      <4> QED BY <2>1, <4>3 DEF Blocked
    <3> QED BY <1>1, <1>2, <2>1, <3>4, <3>5 DEF Numbered, Same
  <2> QED BY <2>2, <2>3
<1>7. CASE Cascades(a) \/ Logs(a)
  <2>1. /\ req'[a] = req[a] /\ number'[a] = number[a] /\ pc'[a] = "commit"
        /\ pc[a] = "log" \/ (pc[a] = "cascade" /\ req[a].op = "delete_project")
    BY <1>7 DEF Cascades, Logs, LabelsFit
  <2>2. VersionFits(a)' /\ (Versioning(a)' <=> Versioning(a))
    BY <1>2, <1>3, <2>1, RequestFits DEF VersionFits, Versioning, Planning, Numbered
  <2> QED BY <1>1, <1>2, <2>1, <2>2 DEF Numbered, Same
<1>8. CASE Runs(a)
  <2>1. VersionFits(a)' /\ ~Versioning(a)'
    BY <1>8 DEF VersionFits, Versioning, Runs
  <2> QED BY <1>1, <1>2, <2>1 DEF Numbered, Same
<1> QED BY <1>4, <1>5, <1>6, <1>7, <1>8 DEF Step

\* A commit adds the next version, its own.
LEMMA CommitNumbered ==
    ASSUME TypeOK, LabelsFit, Numbered, NEW a \in Sessions, Commit(a)
    PROVE  Numbered' /\ \A t \in Tasks : NewestVersion(t) \in Nat /\ NewestVersion(t)' >= NewestVersion(t)
<1> PICK r, t : r = req[a] /\ t = r.task
  OBVIOUS
<1>1. \A b \in Sessions \ {a} : Same(b)
  BY CommitIs DEF Others
<1>2. r \in Request /\ \A u \in Tasks : NewestVersion(u) \in Nat
  BY VersionsAre DEF TypeOK
<1>3. pc[a] = "commit" /\ \/ Ended(a)
                          \/ /\ r.op = "develop" /\ pc'[a] = "run" /\ req'[a] = r
                             /\ number'[a] = number[a]
  BY CommitIs DEF Commits
<1>4. CASE ~Planning(r)
  <2>1. \A u \in Tasks : plans'[u] = plans[u] /\ NewestVersion(u)' = NewestVersion(u)
    BY <1>4, CommitPlans DEF NewestVersion
  <2>2. Ended(a)
    BY <1>3, <1>4 DEF Planning
  <2>3. VersionFits(a)' /\ ~Versioning(a)'
    BY <2>2 DEF Ended, NoRequest, VersionFits, Versioning, Planning
  <2>4. \A b \in Sessions \ {a} : VersionFits(b)' /\ (Versioning(b)' <=> Versioning(b))
    <3>1. SUFFICES ASSUME NEW b \in Sessions \ {a}
                   PROVE  VersionFits(b)' /\ (Versioning(b)' <=> Versioning(b))
      OBVIOUS
    <3>2. Same(b) /\ VersionFits(b) /\ req[b] \in Request
      BY <1>1 DEF Numbered, TypeOK
    <3>3. Planning(req[b]) \/ pc[b] = "run" => req[b].task \in Tasks
      BY <3>2, RequestFits DEF Planning, LabelsFit
    <3> QED BY <2>1, <3>2, <3>3 DEF Same, VersionFits, Versioning
  <2> QED BY <1>1, <1>2, <2>1, <2>3, <2>4 DEF Numbered, Same
<1>5. CASE Planning(r)
  <2> DEFINE v == [version |-> number[a], rows |-> Stored(r.draft)]
  <2>1. /\ t \in Tasks /\ plans'[t] = Append(plans[t], v) /\ plans[t] \in Seq(PlanVersion)
        /\ \A u \in Tasks \ {t} : plans'[u] = plans[u]
        /\ v \in PlanVersion /\ v.version = number[a]
    <3>1. t \in Tasks /\ plans \in [Tasks -> Seq(PlanVersion)]
      BY <1>2, <1>5, RequestFits DEF Planning, TypeOK
    <3> QED BY <1>5, <3>1, CommitPlans
  <2> HIDE DEF v
  <2>2. /\ NewestVersion(t)' = NewestVersion(t) + 1
        /\ \A u \in Tasks \ {t} : NewestVersion(u)' = NewestVersion(u)
    BY <2>1 DEF NewestVersion
  <2>3. Versioning(a) /\ number[a] = NewestVersion(t) + 1
    BY <1>3, <1>5 DEF Versioning, Numbered, VersionFits
  <2>4. \A u \in Tasks : \A i \in DOMAIN plans'[u] : plans'[u][i].version = i
    <3>1. \A i \in DOMAIN plans'[t] : plans'[t][i].version = i
      <4>1. DOMAIN plans'[t] = 1 .. NewestVersion(t) + 1 /\ DOMAIN plans[t] = 1 .. NewestVersion(t)
        BY <2>1 DEF NewestVersion
      <4>2. plans'[t][NewestVersion(t) + 1] = v
        BY <2>1 DEF NewestVersion
      <4>3. \A i \in 1 .. NewestVersion(t) : plans'[t][i] = plans[t][i]
        BY <2>1 DEF NewestVersion
      <4> QED BY <1>2, <2>1, <2>3, <4>1, <4>2, <4>3 DEF Numbered
    <3> QED BY <2>1, <3>1 DEF Numbered
  <2>5. VersionFits(a)' /\ ~Versioning(a)'
    <3>1. CASE Ended(a)
      BY <3>1 DEF Ended, NoRequest, VersionFits, Versioning, Planning
    <3>2. CASE ~Ended(a)
      <4>1. r.op = "develop" /\ pc'[a] = "run" /\ req'[a] = r /\ number'[a] = number[a]
        BY <1>3, <3>2
      <4>2. number[a] = 1
        BY <1>3, <4>1 DEF Numbered, VersionFits
      <4> QED BY <1>2, <2>1, <2>2, <4>1, <4>2 DEF VersionFits, Versioning
    <3> QED BY <3>1, <3>2
  <2>6. \A b \in Sessions \ {a} : VersionFits(b)' /\ (Versioning(b)' <=> Versioning(b))
    <3>1. SUFFICES ASSUME NEW b \in Sessions \ {a}
                   PROVE  VersionFits(b)' /\ (Versioning(b)' <=> Versioning(b))
      OBVIOUS
    <3>2. Same(b) /\ VersionFits(b) /\ req[b] \in Request
      BY <1>1 DEF Numbered, TypeOK
    <3>3. Planning(req[b]) \/ pc[b] = "run" => req[b].task \in Tasks
      BY <3>2, RequestFits DEF Planning, LabelsFit
    <3>4. Versioning(b)' <=> Versioning(b)
      BY <3>2 DEF Same, Versioning
    <3>5. Versioning(b) => req[b].task # t
      BY <2>3 DEF Numbered
    <3>6. \A u \in Tasks : NewestVersion(u)' >= NewestVersion(u)
      BY <1>2, <2>2
    <3> PICK u : u = req[b].task
      OBVIOUS
    <3>7. /\ Planning(req[b]) \/ pc[b] = "run" =>
                NewestVersion(u) \in Nat /\ NewestVersion(u)' \in Nat /\ NewestVersion(u)' >= NewestVersion(u)
          /\ Versioning(b) => NewestVersion(u)' = NewestVersion(u)
      BY <1>2, <2>2, <3>3, <3>5 DEF Versioning
    <3>8. NewestVersion(req[b].task)' = NewestVersion(u)' /\ NewestVersion(req[b].task) = NewestVersion(u)
      BY <3>2 DEF Same, NewestVersion
    <3>9. VersionFits(b)'
      BY <3>2, <3>4, <3>7, <3>8 DEF Same, VersionFits
    <3> QED BY <3>4, <3>9
  <2> QED BY <1>1, <1>2, <2>2, <2>4, <2>5, <2>6 DEF Numbered, Same
<1> QED BY <1>4, <1>5

\* Only validated drafts are asked for.
LEMMA StepDrawn ==
    ASSUME TypeOK, Drawn, UNCHANGED plans, NEW a \in Sessions, Step(a), Others(a)
    PROVE  Drawn'
<1>1. Planning(req'[a]) => validate_graph(req'[a].draft)
  BY DEF Step, Ended, Begins, Writes, Cascades, Logs, Runs, Drawn, NoRequest, Planning
<1> QED BY <1>1 DEF Others, Same, Drawn

\* So only these are stored.
LEMMA CommitDrawn ==
    ASSUME TypeOK, LabelsFit, Drawn, NEW a \in Sessions, Commit(a)
    PROVE  Drawn'
<1> PICK r, t : r = req[a] /\ t = r.task
  OBVIOUS
<1>1. \A b \in Sessions : Planning(req'[b]) => validate_graph(req'[b].draft)
  BY CommitIs DEF Commits, Ended, Others, Same, NoRequest, Planning, Drawn
<1>2. CASE ~Planning(r)
  <2>1. \A u \in Tasks : plans'[u] = plans[u]
    BY <1>2, CommitPlans
  <2> QED BY <1>1, <2>1 DEF Drawn
<1>3. CASE Planning(r)
  <2>1. t \in Tasks /\ r.draft \in Drafts \cup {DevelopmentPlan} /\ validate_graph(r.draft)
        /\ plans \in [Tasks -> Seq(PlanVersion)]
    BY <1>3, RequestFits DEF Planning, TypeOK, Drawn
  <2> PICK v : v = [version |-> number[a], rows |-> Stored(r.draft)]
    OBVIOUS
  <2>2. /\ plans'[t] = Append(plans[t], v) /\ plans[t] \in Seq(PlanVersion) /\ v \in PlanVersion
        /\ \A u \in Tasks \ {t} : plans'[u] = plans[u]
    BY <1>3, <2>1, CommitPlans
  <2>3. v.rows = Stored(r.draft)
    OBVIOUS
  <2>4. \A i \in DOMAIN plans'[t] : plans'[t][i] = v \/ (i \in DOMAIN plans[t] /\ plans'[t][i] = plans[t][i])
    BY <2>2
  <2>5. ASSUME NEW u \in Tasks, NEW i \in DOMAIN plans'[u]
        PROVE  \E d \in Drafts \cup {DevelopmentPlan} :
                  validate_graph(d) /\ plans'[u][i].rows = Stored(d)
    <3>1. CASE i \in DOMAIN plans[u] /\ plans'[u][i] = plans[u][i]
      BY <3>1 DEF Drawn
    <3>2. CASE plans'[u][i] = v
      BY <2>1, <2>3, <3>2
    <3> QED BY <2>2, <2>4, <2>5, <3>1, <3>2
  <2> QED BY <1>1, <2>5 DEF Drawn
<1> QED BY <1>2, <1>3

\* The runs of a task are a sequence.
LEMMA RunsTyped ==
    ASSUME TypeOK, NEW t \in Tasks
    PROVE  /\ runs[t] \in Seq(RunRow) /\ DOMAIN runs[t] = 1 .. Len(runs[t])
           /\ Len(runs[t]) \in Nat
           /\ \A i \in DOMAIN runs[t] : runs[t][i] \in RunRow
BY DEF TypeOK

\* A run is made of a version there is, and handed the request by the session
\* that made it.
LEMMA StepHandoff ==
    ASSUME TypeOK, LabelsFit, Numbered, OneHandoff, UNCHANGED plans,
           NEW a \in Sessions, Step(a), Others(a), RunsMove(a)
    PROVE  OneHandoff'
<1> PICK r, t : r = req[a] /\ t = r.task
  OBVIOUS
<1>1. /\ \A b \in Sessions \ {a} : Same(b) /\ (Developing(b)' <=> Developing(b)) /\ req'[b] = req[b]
      /\ \A u \in Tasks : NewestVersion(u)' = NewestVersion(u)
      /\ r \in Request
  BY DEF Others, Same, Developing, NewestVersion, TypeOK
<1>2. \A b \in Sessions : DevelopFits(b)
  BY DEF OneHandoff
<1>3. CASE runs' = runs /\ pc'[a] # "handoff"
  <2>1. ~Developing(a)'
    BY <1>3 DEF Step, Ended, Begins, Writes, Cascades, Logs, Runs, Developing
  <2>2. \A u \in Tasks : Handed(u)' <=> Handed(u)
    BY <1>3 DEF Handed
  <2>3. \A b \in Sessions : DevelopFits(b)'
    BY <1>1, <1>2, <1>3, <2>1, <2>2 DEF DevelopFits, Same
  <2> QED BY <1>1, <1>3, <2>1, <2>3 DEF OneHandoff
<1>4. CASE RunAdded(a)
  <2>1. /\ pc[a] = "run" /\ number[a] \in 1 .. NewestVersion(t)
        /\ runs' = [runs EXCEPT ![t] = Append(@, [version |-> number[a], request |-> FALSE])]
    BY <1>4 DEF RunAdded, Numbered, VersionFits
  <2>2. t \in Tasks
    BY <1>1, <2>1, RequestFits DEF LabelsFit
  <2> PICK v : v = [version |-> number[a], request |-> FALSE]
    OBVIOUS
  <2>3. v \in RunRow /\ v.version = number[a] /\ ~v.request
    BY DEF RunRow, TypeOK
  <2>4. /\ runs'[t] = Append(runs[t], v)
        /\ \A u \in Tasks \ {t} : runs'[u] = runs[u]
    BY <2>1, <2>2 DEF TypeOK
  <2>5. /\ DOMAIN runs'[t] = 1 .. Len(runs[t]) + 1 /\ Len(runs'[t]) = Len(runs[t]) + 1
        /\ runs'[t][Len(runs[t]) + 1] = v
        /\ \A i \in DOMAIN runs[t] : i \in DOMAIN runs'[t] /\ runs'[t][i] = runs[t][i]
        /\ \A i \in DOMAIN runs'[t] : i \in DOMAIN runs[t] \/ runs'[t][i] = v
    BY <2>2, <2>3, <2>4, RunsTyped
  <2>6. \A u \in Tasks : Handed(u)' => Handed(u)
    <3>1. \A i \in DOMAIN runs'[t] : runs'[t][i].request => i \in DOMAIN runs[t] /\ runs[t][i].request
      BY <2>3, <2>5
    <3> QED BY <2>4, <3>1 DEF Handed
  <2>7. \A u \in Tasks : DOMAIN runs[u] \subseteq DOMAIN runs'[u]
    BY <2>4, <2>5
  <2>8. \A b \in Sessions \ {a} : DevelopFits(b)'
    BY <1>1, <1>2, <2>6, <2>7 DEF DevelopFits, Same
  <2>9. \A u \in Tasks :
            /\ \A i \in DOMAIN runs'[u] : runs'[u][i].version \in 1 .. NewestVersion(u)'
            /\ \A i, j \in DOMAIN runs'[u] : runs'[u][i].request /\ runs'[u][j].request => i = j
    <3>1. TAKE u \in Tasks
    <3>2. CASE u = t
      <4>1. \A i \in DOMAIN runs'[t] : runs'[t][i].version \in 1 .. NewestVersion(t)
        BY <2>1, <2>2, <2>3, <2>5 DEF OneHandoff
      <4>2. \A i \in DOMAIN runs'[t] : runs'[t][i].request => i \in DOMAIN runs[t] /\ runs[t][i].request
        BY <2>3, <2>5
      <4> QED BY <1>1, <3>2, <4>1, <4>2 DEF OneHandoff
    <3>3. CASE u # t
      BY <1>1, <2>4, <3>3 DEF OneHandoff
    <3> QED BY <3>2, <3>3
  <2>10. CASE Ended(a)
    <3>1. ~Developing(a)'
      BY <2>10 DEF Ended, Developing
    <3> QED BY <1>1, <2>8, <2>9, <3>1 DEF OneHandoff, DevelopFits
  <2>11. CASE Runs(a)
    <3>1. /\ Developing(a) /\ Developing(a)' /\ req'[a] = r /\ r.op = "develop"
          /\ number'[a] = Len(runs'[t]) /\ pc'[a] = "handoff"
      BY <2>11 DEF Runs, Developing
    <3>2. number'[a] \in DOMAIN runs'[t]
      BY <2>2, <2>5, <3>1, RunsTyped
    <3>3. ~Handed(t)' /\ NewestVersion(t)' > 0
      BY <1>1, <1>2, <2>2, <2>6, <3>1 DEF DevelopFits
    <3>4. DevelopFits(a)'
      BY <2>2, <3>1, <3>2, <3>3 DEF DevelopFits
    <3> QED BY <1>1, <2>8, <2>9, <3>1, <3>4 DEF OneHandoff
  <2> QED BY <1>4, <2>10, <2>11 DEF RunAdded
<1>5. CASE RunHanded(a)
  <2>1. /\ Developing(a) /\ pc[a] = "handoff" /\ number[a] \in DOMAIN runs[t] /\ ~Handed(t)
        /\ runs' = [runs EXCEPT ![t][number[a]].request = TRUE] /\ Ended(a)
    BY <1>2, <1>5 DEF RunHanded, LabelsFit, Developing, DevelopFits
  <2>2. t \in Tasks
    BY <1>2, <2>1 DEF DevelopFits
  <2> PICK n : n = number[a]
    OBVIOUS
  <2>3. /\ DOMAIN runs'[t] = DOMAIN runs[t]
        /\ \A i \in DOMAIN runs[t] \ {n} : runs'[t][i] = runs[t][i]
        /\ runs'[t][n].version = runs[t][n].version
        /\ \A u \in Tasks \ {t} : runs'[u] = runs[u]
    BY <2>1, <2>2, RunsTyped DEF TypeOK, RunRow
  <2>4. \A u \in Tasks :
            /\ \A i \in DOMAIN runs'[u] : runs'[u][i].version \in 1 .. NewestVersion(u)'
            /\ \A i, j \in DOMAIN runs'[u] : runs'[u][i].request /\ runs'[u][j].request => i = j
    <3>1. TAKE u \in Tasks
    <3>2. CASE u = t
      <4>1. \A i \in DOMAIN runs'[t] : runs'[t][i].version \in 1 .. NewestVersion(t)
        BY <2>1, <2>2, <2>3, ZenonT(60) DEF OneHandoff
      <4>2. \A i \in DOMAIN runs'[t] : runs'[t][i].request => i = n
        BY <2>1, <2>3 DEF Handed
      <4> QED BY <1>1, <3>2, <4>1, <4>2
    <3>3. CASE u # t
      BY <1>1, <2>3, <3>3 DEF OneHandoff
    <3> QED BY <3>2, <3>3
  <2>5. ~Developing(a)'
    BY <2>1 DEF Ended, Developing
  <2>6. \A b \in Sessions \ {a} : Developing(b) => req[b].task \in Tasks \ {t}
    BY <1>2, <2>1 DEF OneHandoff, DevelopFits
  <2>7. \A u \in Tasks \ {t} : Handed(u)' <=> Handed(u)
    BY <2>3 DEF Handed
  <2>8. \A b \in Sessions : DevelopFits(b)'
    BY <1>1, <1>2, <2>3, <2>5, <2>6, <2>7 DEF DevelopFits, Same
  <2> QED BY <1>1, <2>4, <2>5, <2>8 DEF OneHandoff
<1> QED BY <1>3, <1>4, <1>5 DEF RunsMove

\* The first version of a task is committed before any run of it: whoever commits
\* it is the only one to develop it.
LEMMA CommitHandoff ==
    ASSUME TypeOK, LabelsFit, Numbered, OneHandoff, NEW a \in Sessions, Commit(a)
    PROVE  OneHandoff'
<1> PICK r, t : r = req[a] /\ t = r.task
  OBVIOUS
<1>1. /\ \A b \in Sessions \ {a} : Same(b) /\ (Developing(b)' <=> Developing(b)) /\ req'[b] = req[b]
      /\ runs' = runs /\ r \in Request
  BY CommitIs, CommitPlans DEF Others, Same, Developing, TypeOK
<1>2. \A b \in Sessions : DevelopFits(b)
  BY DEF OneHandoff
<1>3. /\ \A u \in Tasks : NewestVersion(u) \in Nat /\ NewestVersion(u)' \in Nat
                         /\ NewestVersion(u)' >= NewestVersion(u)
      /\ Planning(r) => t \in Tasks /\ NewestVersion(t)' = NewestVersion(t) + 1
  <2>1. \A u \in Tasks : plans[u] \in Seq(PlanVersion) /\ plans'[u] \in Seq(PlanVersion)
    BY CommitPlans DEF TypeOK
  <2>2. Planning(r) => t \in Tasks
    BY <1>1, RequestFits DEF Planning
  <2> PICK v : v = [version |-> number[a], rows |-> Stored(r.draft)]
    OBVIOUS
  <2>3. \A u \in Tasks : plans'[u] = IF Planning(r) /\ u = t THEN Append(plans[u], v) ELSE plans[u]
    BY CommitPlans
  <2>4. Planning(r) => v \in PlanVersion
    BY CommitPlans
  <2>5. ASSUME NEW u \in Tasks
        PROVE  Len(plans'[u]) = IF Planning(r) /\ u = t THEN Len(plans[u]) + 1 ELSE Len(plans[u])
    <3>1. plans[u] \in Seq(PlanVersion)
      BY <2>1
    <3>2. CASE Planning(r) /\ u = t
      <4>1. plans'[u] = Append(plans[u], v) /\ v \in PlanVersion
        BY <2>3, <2>4, <3>2
      <4> QED BY <3>1, <3>2, <4>1
    <3>3. CASE ~(Planning(r) /\ u = t)
      BY <2>3, <3>3
    <3> QED BY <3>2, <3>3
  <2>6. \A u \in Tasks : Len(plans[u]) \in Nat /\ Len(plans'[u]) \in Nat
    BY <2>1
  <2> QED BY <2>2, <2>5, <2>6 DEF NewestVersion
<1>4. \A u \in Tasks : Handed(u)' <=> Handed(u)
  BY <1>1 DEF Handed
<1>5. \A u \in Tasks :
          /\ \A i \in DOMAIN runs'[u] : runs'[u][i].version \in 1 .. NewestVersion(u)'
          /\ \A i, j \in DOMAIN runs'[u] : runs'[u][i].request /\ runs'[u][j].request => i = j
  BY <1>1, <1>3 DEF OneHandoff
<1>6. \A b \in Sessions \ {a} : DevelopFits(b)'
  BY <1>1, <1>2, <1>3, <1>4 DEF DevelopFits, Same
<1>7. pc[a] = "commit" /\ \/ Ended(a)
                          \/ r.op = "develop" /\ pc'[a] = "run" /\ req'[a] = r
  BY CommitIs DEF Commits
<1>8. CASE Ended(a)
  <2>1. ~Developing(a)'
    BY <1>8 DEF Ended, Developing
  <2> QED BY <1>1, <1>5, <1>6, <2>1 DEF OneHandoff, DevelopFits
<1>9. CASE r.op = "develop" /\ pc'[a] = "run" /\ req'[a] = r
  <2>1. Planning(r) /\ t \in Tasks /\ number[a] = 1 /\ number[a] = NewestVersion(t) + 1
    BY <1>3, <1>7, <1>9 DEF Planning, Numbered, VersionFits, Versioning
  <2>2. NewestVersion(t) = 0 /\ NewestVersion(t)' > 0
    BY <1>3, <2>1
  <2>3. ~Handed(t)
    BY <2>1, <2>2 DEF OneHandoff, Handed
  <2>4. \A b \in Sessions : Developing(b) => req[b].task # t
    BY <1>2, <2>2 DEF DevelopFits
  <2>5. DevelopFits(a)'
    BY <1>4, <1>9, <2>1, <2>2, <2>3 DEF DevelopFits
  <2> QED BY <1>1, <1>5, <1>6, <1>9, <2>4, <2>5 DEF OneHandoff
<1> QED BY <1>7, <1>8, <1>9

\* Every step keeps the invariant of plans and runs.
LEMMA PlansNext ==
    ASSUME RecordsInv, PlansInv, [Next]_vars
    PROVE  PlansInv'
<1>1. CASE RecordsStep
  <2>1. PICK a \in Sessions : Step(a) /\ Others(a) /\ RunsMove(a)
    BY <1>1, StepIs DEF RecordsInv
  <2>2. UNCHANGED <<task, plans>>
    BY <1>1, StepIs DEF RecordsInv
  <2> QED BY <2>1, <2>2, StepNumbered, StepHandoff, StepDrawn DEF RecordsInv, PlansInv
<1>2. CASE \E a \in Sessions : Commit(a)
  BY <1>2, CommitNumbered, CommitHandoff, CommitDrawn DEF RecordsInv, PlansInv
<1>3. CASE UNCHANGED recordVars
  <2>1. UNCHANGED <<plans, runs, pc, req, number>>
    BY <1>3 DEF recordVars, tables, sessions
  <2>2. Numbered'
    BY <2>1 DEF PlansInv, Numbered, VersionFits, Versioning, NewestVersion
  <2>3. OneHandoff'
    BY <2>1 DEF PlansInv, OneHandoff, DevelopFits, Developing, Handed, NewestVersion
  <2>4. Drawn'
    BY <2>1 DEF PlansInv, Drawn
  <2> QED BY <2>2, <2>3, <2>4 DEF PlansInv
<1> QED BY <1>1, <1>2, <1>3 DEF Next, vars, CommitSeen, Open, Refuse, Poll, Deliver, Drop

\* It is an invariant.
LEMMA PlansInvariant == Spec => []PlansInv
<1>1. Init => PlansInv
  <2>1. SUFFICES ASSUME Init PROVE PlansInv
    OBVIOUS
  <2>2. /\ \A t \in Tasks : plans[t] = <<>> /\ runs[t] = <<>>
        /\ \A a \in Sessions : pc[a] = "idle" /\ req[a] = NoRequest
    BY <2>1 DEF Init, RecordsInit
  <2> QED
    BY <2>2 DEF PlansInv, Numbered, OneHandoff, Drawn, VersionFits, Versioning, Developing,
       DevelopFits,
                      Planning, NoRequest
<1>2. RecordsInv /\ PlansInv /\ [Next]_vars => PlansInv'
  BY PlansNext
<1> QED BY <1>1, <1>2, RecordsInvariant, PTL DEF Spec

\* The drafts requests bring, and the fixed one, are graphs.
LEMMA DraftsAreGraphs == Drafts \cup {DevelopmentPlan} \subseteq Graph
<1>1. DevelopmentPlan \in Graph
  BY DEF DevelopmentPlan, Graph
<1> QED BY <1>1, RecordsAssumption DEF Graph

\* However many requests plan and develop a task at once, versions are numbered in
\* order, each is a graph a run can be made of and finish, every run is of a
\* version there is, and at most one is handed the development request
\* (latest_plan, the unique constraint, validate_graph and the three commits of
\* create_development_workflow).
THEOREM PlansAreSound == Spec => []PlansStand
<1>1. RecordsInv /\ PlansInv => PlansStand
  <2>1. SUFFICES ASSUME RecordsInv, PlansInv, NEW t \in Tasks
                 PROVE  /\ \A i \in DOMAIN plans[t] :
                              LET data == Reread(plans[t][i].rows) IN
                              /\ plans[t][i].version = i
                              /\ Acyclic(data) /\ Len(Ordered(data)) = Len(data)
                              /\ Respects(Ordered(data), data)
                        /\ \A i \in DOMAIN runs[t] : runs[t][i].version \in Versions(t)
                        /\ \A i, j \in DOMAIN runs[t] : runs[t][i].request /\ runs[t][j].request => i = j
    BY DEF PlansStand
  <2>2. ASSUME NEW i \in DOMAIN plans[t]
        PROVE  LET data == Reread(plans[t][i].rows) IN
               /\ plans[t][i].version = i
               /\ Acyclic(data) /\ Len(Ordered(data)) = Len(data)
               /\ Respects(Ordered(data), data)
    <3>1. PICK d \in Graph : validate_graph(d) /\ plans[t][i].rows = Stored(d)
      BY <2>1, <2>2, DraftsAreGraphs DEF PlansInv, Drawn
    <3>2. Reread(plans[t][i].rows) = d
      BY <3>1, Rebuilds DEF validate_graph
    <3> QED BY <2>1, <2>2, <3>1, <3>2, OrderStands DEF PlansInv, Numbered
  <2>3. \A i \in DOMAIN runs[t] : runs[t][i].version \in Versions(t)
    BY <2>1, VersionsAre DEF RecordsInv, PlansInv, OneHandoff
  <2>4. \A i, j \in DOMAIN runs[t] : runs[t][i].request /\ runs[t][j].request => i = j
    BY <2>1 DEF PlansInv, OneHandoff
  <2> QED BY <2>2, <2>3, <2>4
<1> QED BY <1>1, RecordsInvariant, PlansInvariant, PTL
=============================================================================
