----------------------- MODULE AgentPreparationProofs -----------------------
(***************************************************************************)
(* What AgentPreparation and the modules it extends guarantee for every    *)
(* value of their constants: any set of memories, models, routes, requests *)
(* and concurrent refreshes.                                               *)
(*                                                                         *)
(* The invariant has two parts.  CatalogInv says what each refresh that is *)
(* in flight holds of the rows it is to commit; Prepared says that past a  *)
(* step of execute the schema, the package and the route are what that     *)
(* step computed.  The lemmas before them are about the operators: the     *)
(* loops, the retrieval, the package and its filter, the ranking of        *)
(* targets, the compiled contract and the output budgets.                  *)
(***************************************************************************)
EXTENDS AgentPreparation, FiniteSetTheorems, SequenceTheorems, TLAPS

\* The provers cannot instantiate the library's induction principles, which
\* take a predicate; that every set of numbers has a least one serves instead.
LEMMA LeastNatural ==
    ASSUME NEW T \in SUBSET Nat, T # {}
    PROVE  \E n \in T : \A m \in T : n <= m
<1>1. IsWellFoundedOn({p \in Nat \X Nat : p[1] < p[2]}, Nat)
  BY NatLessThanWellFounded DEF OpToRel
<1>2. PICK n \in T : \A m \in T : <<m, n>> \notin {p \in Nat \X Nat : p[1] < p[2]}
  BY <1>1, WFMin
<1>3. \A m \in T : ~(m < n)
  BY <1>2
<1> QED BY <1>3

\* Hence a set that holds 0, and each number up to n whose predecessor it
\* holds, holds all of them.
LEMMA Counting ==
    ASSUME NEW n \in Nat, NEW T, 0 \in T, \A k \in 1 .. n : k - 1 \in T => k \in T
    PROVE  0 .. n \subseteq T
<1> DEFINE U == {k \in 0 .. n : k \notin T}
<1>1. SUFFICES ASSUME U # {} PROVE FALSE
  OBVIOUS
<1>2. PICK k \in U : \A m \in U : k <= m
  <2>1. U \in SUBSET Nat
    OBVIOUS
  <2> QED BY <1>1, <2>1, LeastNatural
<1>3. k \in 1 .. n
  OBVIOUS
<1>4. k - 1 \in 0 .. n /\ k - 1 \notin U
  BY <1>2, <1>3
<1> QED BY <1>3, <1>4

\* The least and the greatest of a few numbers.
LEMMA MinTwo ==
    ASSUME NEW a \in Int, NEW b \in Int
    PROVE  Min({a, b}) = IF a <= b THEN a ELSE b
BY DEF Min

LEMMA MinThree ==
    ASSUME NEW a \in Int, NEW b \in Int, NEW c \in Int
    PROVE  /\ Min({a, b, c}) \in {a, b, c}
           /\ Min({a, b, c}) <= a /\ Min({a, b, c}) <= b /\ Min({a, b, c}) <= c
<1>1. \E x \in {a, b, c} : \A y \in {a, b, c} : x =< y
  <2>1. CASE a <= b /\ a <= c
    BY <2>1
  <2>2. CASE b <= a /\ b <= c
    BY <2>2
  <2>3. CASE c <= a /\ c <= b
    BY <2>3
  <2> QED BY <2>1, <2>2, <2>3
<1>2. /\ Min({a, b, c}) \in {a, b, c}
      /\ \A y \in {a, b, c} : Min({a, b, c}) =< y
  BY <1>1, Zenon DEF Min
<1> QED BY <1>2

LEMMA MaxTwo ==
    ASSUME NEW a \in Int, NEW b \in Int
    PROVE  Max({a, b}) = IF a >= b THEN a ELSE b
BY DEF Max

-----------------------------------------------------------------------------
(* Loops.  Each FoldLeft of the model is a loop over a sequence; Turn is   *)
(* one turn of each, so that what they compute is unfolded once.           *)

Turn(loop, acc, x) ==
    CASE loop[1] = "weigh" -> acc + x.memory.bytes + x.retained + loop[2]
      [] loop[1] = "retain" -> acc + x.retained
      [] loop[1] = "owe" -> acc + x.omitted
      [] loop[1] = "add" -> AddResult(acc, x)
      [] loop[1] = "keep" -> IF Eligible(x.memory, loop[2]) THEN Append(acc, x) ELSE acc
      [] loop[1] = "constrain" -> apply_schema_constraint(acc, x)

\* The recursive function in FoldLeft, on the sets of places up to n.
Folds(loop, base, s, n, f) ==
    f = [S \in SUBSET (1 .. n) |->
            IF S = {} THEN base ELSE Turn(loop, f[S \ {Max(S)}], s[Max(S)])]

\* The value of a loop after each turn.
Unfolds(loop, base, s, result) ==
    \E g : /\ g[0] = base
           /\ \A k \in 1 .. Len(s) : g[k] = Turn(loop, g[k - 1], s[k])
           /\ result = g[Len(s)]

\* A set that ends with n + 1, and what is left of it without that end.
LEMMA MaxOfUpTo ==
    ASSUME NEW n \in Nat, NEW S \in SUBSET (1 .. n + 1), n + 1 \in S
    PROVE  Max(S) = n + 1 /\ S \ {Max(S)} \in SUBSET (1 .. n)
<1>1. \A y \in S : y \in Int /\ n + 1 >= y
  OBVIOUS
<1>2. \A x \in S : (\A y \in S : x >= y) => x = n + 1
  BY <1>1
<1>3. Max(S) = n + 1
  BY <1>1, <1>2 DEF Max
<1> QED BY <1>3

\* The function exists: there is no least n without one.
LEMMA FoldExists ==
    ASSUME NEW loop, NEW base, NEW s, NEW n \in Nat
    PROVE  \E f : Folds(loop, base, s, n, f)
<1> DEFINE T == {k \in Nat : \E f : Folds(loop, base, s, k, f)}
<1>1. 0 \in T
  <2>1. \A S \in SUBSET (1 .. 0) : S = {}
    OBVIOUS
  <2>2. Folds(loop, base, s, 0, [S \in SUBSET (1 .. 0) |-> base])
    BY <2>1 DEF Folds
  <2> QED BY <2>2
<1>2. ASSUME NEW k \in 1 .. n, k - 1 \in T PROVE k \in T
  <2>1. PICK f : Folds(loop, base, s, k - 1, f)
    BY <1>2
  <2> DEFINE h == [S \in SUBSET (1 .. k) |->
                     IF k \in S THEN Turn(loop, f[S \ {k}], s[k]) ELSE f[S]]
  <2>2. ASSUME NEW S \in SUBSET (1 .. k)
        PROVE  h[S] = IF S = {} THEN base ELSE Turn(loop, h[S \ {Max(S)}], s[Max(S)])
    <3>1. CASE k \in S
      <4>1. Max(S) = k /\ S \ {k} \in SUBSET (1 .. k - 1)
        <5>1. k - 1 \in Nat /\ (k - 1) + 1 = k
          OBVIOUS
        <5> QED BY <3>1, <5>1, MaxOfUpTo, SMTT(40)
      <4>2. S \ {k} \in SUBSET (1 .. k)
        OBVIOUS
      <4>3. h[S \ {k}] = f[S \ {k}]
        BY <4>2
      <4> QED BY <3>1, <4>1, <4>3
    <3>2. CASE k \notin S
      <4>1. S \in SUBSET (1 .. k - 1)
        BY <3>2
      <4>2. S \ {Max(S)} \in SUBSET (1 .. k) /\ k \notin S \ {Max(S)}
        BY <3>2
      <4>3. h[S] = f[S] /\ h[S \ {Max(S)}] = f[S \ {Max(S)}]
        BY <3>2, <4>2
      <4>4. f[S] = IF S = {} THEN base ELSE Turn(loop, f[S \ {Max(S)}], s[Max(S)])
        BY <2>1, <4>1 DEF Folds
      <4> QED BY <4>3, <4>4
    <3> QED BY <3>1, <3>2
  <2>3. DOMAIN h = SUBSET (1 .. k) /\ h = [S \in SUBSET (1 .. k) |-> h[S]]
    OBVIOUS
  <2> HIDE DEF h
  <2>4. Folds(loop, base, s, k, h)
    BY <2>2, <2>3 DEF Folds
  <2> QED BY <2>4
<1> HIDE DEF T
<1>3. 0 .. n \subseteq T
  BY <1>1, <1>2, Counting
<1> QED BY <1>3 DEF T

\* Read along the prefixes 1 .. n, the function is the sequence of results of
\* the loop's turns.
LEMMA FoldUnfolds ==
    ASSUME NEW loop, NEW base, NEW s, Len(s) \in Nat, NEW f, Folds(loop, base, s, Len(s), f)
    PROVE  Unfolds(loop, base, s, f[1 .. Len(s)])
<1> DEFINE g == [k \in 0 .. Len(s) |-> f[1 .. k]]
<1>1. g[0] = base
  <2>1. 1 .. 0 = {} /\ {} \in SUBSET (1 .. Len(s))
    OBVIOUS
  <2>2. f[{}] = base
    BY <2>1 DEF Folds
  <2> QED BY <2>1, <2>2
<1>2. ASSUME NEW k \in 1 .. Len(s) PROVE g[k] = Turn(loop, g[k - 1], s[k])
  <2>1. 1 .. k \in SUBSET (1 .. Len(s)) /\ 1 .. k # {}
    OBVIOUS
  <2>2. Max(1 .. k) = k
    <3>1. k - 1 \in Nat /\ k = (k - 1) + 1 /\ k \in 1 .. k
      OBVIOUS
    <3> QED BY <3>1, MaxOfUpTo
  <2>3. (1 .. k) \ {k} = 1 .. k - 1
    OBVIOUS
  <2>4. f[1 .. k] = Turn(loop, f[(1 .. k) \ {Max(1 .. k)}], s[Max(1 .. k)])
    BY <2>1 DEF Folds
  <2>5. g[k] = f[1 .. k] /\ g[k - 1] = f[1 .. k - 1]
    OBVIOUS
  <2> QED BY <2>2, <2>3, <2>4, <2>5
<1>3. g[Len(s)] = f[1 .. Len(s)]
  OBVIOUS
<1> HIDE DEF g
<1> QED BY <1>1, <1>2, <1>3 DEF Unfolds

\* The loops of the model, each an instance of FoldUnfolds: bytes, references
\* kept, references owed, the items of a package, those a filter keeps, and the
\* bounds a contract puts on the schema.
LEMMA WeightUnfolds ==
    ASSUME NEW R, NEW s \in Seq(R), NEW fixed
    PROVE  Unfolds(<<"weigh", fixed>>, 0, s, TotalWeight(s, fixed))
<1>1. DOMAIN s = 1 .. Len(s) /\ Len(s) \in Nat
  OBVIOUS
<1> DEFINE P(f) == f = [S \in SUBSET DOMAIN s |->
                          IF S = {} THEN 0
                          ELSE f[S \ {Max(S)}] + s[Max(S)].memory.bytes
                                + s[Max(S)].retained + fixed]
<1>2. \A f : P(f) <=> Folds(<<"weigh", fixed>>, 0, s, Len(s), f)
  BY <1>1 DEF Folds, Turn
<1>3. TotalWeight(s, fixed) = (CHOOSE f : P(f))[1 .. Len(s)]
  BY <1>1 DEF TotalWeight, FoldLeft, MapThenFoldSet
<1> HIDE DEF P
<1>4. \E f : P(f)
  BY <1>1, <1>2, FoldExists
<1>5. P(CHOOSE f : P(f))
  BY <1>4
<1> QED BY <1>1, <1>2, <1>3, <1>5, FoldUnfolds

\* The loop that fills a package begins without items.
Nothing == [items |-> <<>>, retained |-> 0, omitted |-> 0]

LEMMA ReferencesUnfold ==
    ASSUME NEW R, NEW s \in Seq(R)
    PROVE  Unfolds(<<"retain">>, 0, s, References(s))
<1>1. DOMAIN s = 1 .. Len(s) /\ Len(s) \in Nat
  OBVIOUS
<1> DEFINE P(f) == f = [S \in SUBSET DOMAIN s |->
                          IF S = {} THEN 0
                          ELSE f[S \ {Max(S)}] + s[Max(S)].retained]
<1>2. \A f : P(f) <=> Folds(<<"retain">>, 0, s, Len(s), f)
  BY <1>1 DEF Folds, Turn
<1>3. References(s) = (CHOOSE f : P(f))[1 .. Len(s)]
  BY <1>1 DEF References, FoldLeft, MapThenFoldSet
<1> HIDE DEF P
<1>4. \E f : P(f)
  BY <1>1, <1>2, FoldExists
<1>5. P(CHOOSE f : P(f))
  BY <1>4
<1> QED BY <1>1, <1>2, <1>3, <1>5, FoldUnfolds

LEMMA ReferencesOwedUnfold ==
    ASSUME NEW R, NEW s \in Seq(R)
    PROVE  Unfolds(<<"owe">>, 0, s, ReferencesOwed(s))
<1>1. DOMAIN s = 1 .. Len(s) /\ Len(s) \in Nat
  OBVIOUS
<1> DEFINE P(f) == f = [S \in SUBSET DOMAIN s |->
                          IF S = {} THEN 0
                          ELSE f[S \ {Max(S)}] + s[Max(S)].omitted]
<1>2. \A f : P(f) <=> Folds(<<"owe">>, 0, s, Len(s), f)
  BY <1>1 DEF Folds, Turn
<1>3. ReferencesOwed(s) = (CHOOSE f : P(f))[1 .. Len(s)]
  BY <1>1 DEF ReferencesOwed, FoldLeft, MapThenFoldSet
<1> HIDE DEF P
<1>4. \E f : P(f)
  BY <1>1, <1>2, FoldExists
<1>5. P(CHOOSE f : P(f))
  BY <1>4
<1> QED BY <1>1, <1>2, <1>3, <1>5, FoldUnfolds

LEMMA AddingUnfolds ==
    ASSUME NEW R, NEW s \in Seq(R)
    PROVE  Unfolds(<<"add">>, Nothing, s, FoldLeft(AddResult, Nothing, s))
<1>1. DOMAIN s = 1 .. Len(s) /\ Len(s) \in Nat
  OBVIOUS
<1> DEFINE P(f) == f = [S \in SUBSET DOMAIN s |->
                          IF S = {} THEN Nothing
                          ELSE AddResult(f[S \ {Max(S)}], s[Max(S)])]
<1>2. \A f : P(f) <=> Folds(<<"add">>, Nothing, s, Len(s), f)
  BY <1>1 DEF Folds, Turn
<1>3. FoldLeft(AddResult, Nothing, s) = (CHOOSE f : P(f))[1 .. Len(s)]
  BY <1>1 DEF FoldLeft, MapThenFoldSet
<1> HIDE DEF P
<1>4. \E f : P(f)
  BY <1>1, <1>2, FoldExists
<1>5. P(CHOOSE f : P(f))
  BY <1>4
<1> QED BY <1>1, <1>2, <1>3, <1>5, FoldUnfolds

LEMMA KeepingUnfolds ==
    ASSUME NEW R, NEW s \in Seq(R), NEW target
    PROVE  Unfolds(<<"keep", target>>, <<>>, s, Kept(s, target))
<1>1. DOMAIN s = 1 .. Len(s) /\ Len(s) \in Nat
  OBVIOUS
<1> DEFINE P(f) == f = [S \in SUBSET DOMAIN s |->
                          IF S = {} THEN <<>>
                          ELSE IF Eligible(s[Max(S)].memory, target)
                               THEN Append(f[S \ {Max(S)}], s[Max(S)])
                               ELSE f[S \ {Max(S)}]]
<1>2. \A f : P(f) <=> Folds(<<"keep", target>>, <<>>, s, Len(s), f)
  BY <1>1 DEF Folds, Turn
<1>3. Kept(s, target) = (CHOOSE f : P(f))[1 .. Len(s)]
  BY <1>1 DEF Kept, FoldLeft, MapThenFoldSet
<1> HIDE DEF P
<1>4. \E f : P(f)
  BY <1>1, <1>2, FoldExists
<1>5. P(CHOOSE f : P(f))
  BY <1>4
<1> QED BY <1>1, <1>2, <1>3, <1>5, FoldUnfolds

LEMMA ConstrainingUnfolds ==
    ASSUME NEW R, NEW s \in Seq(R)
    PROVE  Unfolds(<<"constrain">>, BaseSchema, s, FoldLeft(apply_schema_constraint, BaseSchema, s))
<1>1. DOMAIN s = 1 .. Len(s) /\ Len(s) \in Nat
  OBVIOUS
<1> DEFINE P(f) == f = [S \in SUBSET DOMAIN s |->
                          IF S = {} THEN BaseSchema
                          ELSE apply_schema_constraint(f[S \ {Max(S)}], s[Max(S)])]
<1>2. \A f : P(f) <=> Folds(<<"constrain">>, BaseSchema, s, Len(s), f)
  BY <1>1 DEF Folds, Turn
<1>3. FoldLeft(apply_schema_constraint, BaseSchema, s) = (CHOOSE f : P(f))[1 .. Len(s)]
  BY <1>1 DEF FoldLeft, MapThenFoldSet
<1> HIDE DEF P
<1>4. \E f : P(f)
  BY <1>1, <1>2, FoldExists
<1>5. P(CHOOSE f : P(f))
  BY <1>4
<1> QED BY <1>1, <1>2, <1>3, <1>5, FoldUnfolds

-----------------------------------------------------------------------------
(* The catalog.                                                            *)

Overlays == UNION {[I -> Rows] : I \in SUBSET Identities}
Transactions ==
    [pc : {"idle", "upserting", "staling", "done", "failed"}, listing : Seq(Models),
     next : Nat, writes : Overlays, snapshot : SUBSET Identities, todo : SUBSET Identities]

CatalogTyped ==
    /\ catalog \in [Identities -> Rows \cup {Absent}]
    /\ refresh \in [Refreshers -> Transactions]

\* A refresh that writes lists no model twice, and holds the rows it has
\* upserted; from the last UPDATE on, it holds as STALE the rows it has looked
\* at again, and those it has yet to look at are still in the catalog.
UpsertsHeld(r) ==
    LET txn == refresh[r]
    IN  /\ txn.pc = "idle" => txn.next = 1
        /\ txn.pc \in {"upserting", "staling"} =>
             /\ \A m, n \in DOMAIN txn.listing :
                   txn.listing[m].identity = txn.listing[n].identity => m = n
             /\ txn.next \in 1 .. Len(txn.listing) + 1
             /\ \A n \in 1 .. txn.next - 1 :
                   /\ Holds(r, txn.listing[n].identity)
                   /\ txn.writes[txn.listing[n].identity] = CatalogRow(txn.listing[n])

StaleHeld(r) ==
    LET txn == refresh[r]
    IN  txn.pc = "staling" =>
            /\ txn.next = Len(txn.listing) + 1
            /\ txn.todo \subseteq txn.snapshot
            /\ txn.snapshot \subseteq Identities \ Identifiers(txn.listing)
            /\ \A i \in txn.todo : Seen(r, i) # Absent
            /\ \A i \in txn.snapshot \ txn.todo :
                  Holds(r, i) /\ txn.writes[i].status = "STALE"

CatalogInv == CatalogTyped /\ \A r \in Refreshers : UpsertsHeld(r) /\ StaleHeld(r)

\* The rows a transaction has written stand over those of the catalog.
LEMMA OverlayIs ==
    ASSUME NEW w
    PROVE  w \in Overlays <=> DOMAIN w \subseteq Identities /\ w \in [DOMAIN w -> Rows]
BY DEF Overlays

\* What a row is told by, and what remains one.
LEMMA RowsAre ==
    /\ Absent \notin Rows
    /\ \A row \in Rows : [row EXCEPT !.status = "STALE"] \in Rows
    /\ \A row \in Rows \cup {Absent} : row.status = "AVAILABLE" => row \in Rows
    /\ \A model \in Models : CatalogRow(model) \in Rows
<1>1. Absent \notin Rows
  BY DEF Absent, Rows
<1>2. \A row \in Rows : [row EXCEPT !.status = "STALE"] \in Rows
  BY DEF Rows
<1>3. \A row \in Rows \cup {Absent} : row.status = "AVAILABLE" => row \in Rows
  BY DEF Absent
<1>4. \A model \in Models : CatalogRow(model) \in Rows
  BY DEF CatalogRow, Rows, Models, NoGrade
<1> QED BY <1>1, <1>2, <1>3, <1>4

\* What typing says of one transaction, and of the rows it sees.
LEMMA TransactionIs ==
    ASSUME CatalogTyped, NEW r \in Refreshers
    PROVE  /\ refresh[r] \in Transactions
           /\ refresh[r].listing \in Seq(Models)
           /\ Len(refresh[r].listing) \in Nat
           /\ DOMAIN refresh[r].listing = 1 .. Len(refresh[r].listing)
           /\ \A n \in DOMAIN refresh[r].listing : refresh[r].listing[n] \in Models
           /\ refresh[r].next \in Nat
           /\ refresh[r].writes \in Overlays
           /\ DOMAIN refresh[r].writes \subseteq Identities
           /\ \A i \in DOMAIN refresh[r].writes : refresh[r].writes[i] \in Rows
           /\ \A i \in Identities : Seen(r, i) \in Rows \cup {Absent}
           /\ \A i \in Identities : Holds(r, i) \/ catalog[i] # Absent => Seen(r, i) \in Rows
<1>1. /\ refresh[r] \in Transactions /\ refresh[r].listing \in Seq(Models)
      /\ refresh[r].next \in Nat /\ refresh[r].writes \in Overlays
  BY DEF CatalogTyped, Transactions
<1>2. /\ DOMAIN refresh[r].writes \subseteq Identities
      /\ \A i \in DOMAIN refresh[r].writes : refresh[r].writes[i] \in Rows
  BY <1>1, OverlayIs
<1>3. /\ \A i \in Identities : Seen(r, i) \in Rows \cup {Absent}
      /\ \A i \in Identities : Holds(r, i) \/ catalog[i] # Absent => Seen(r, i) \in Rows
  BY <1>2 DEF Seen, Holds, CatalogTyped
<1>4. /\ Len(refresh[r].listing) \in Nat
      /\ DOMAIN refresh[r].listing = 1 .. Len(refresh[r].listing)
      /\ \A n \in DOMAIN refresh[r].listing : refresh[r].listing[n] \in Models
  <2>1. ASSUME NEW s \in Seq(Models)
        PROVE  Len(s) \in Nat /\ DOMAIN s = 1 .. Len(s) /\ \A n \in DOMAIN s : s[n] \in Models
    OBVIOUS
  <2> QED BY <1>1, <2>1, Zenon
<1> QED BY <1>1, <1>2, <1>3, <1>4

\* A transaction that has not begun, and one that has been rolled back.
LEMMA IdleIs ==
    /\ NoWrites \in Overlays
    /\ IdleRefresh \in Transactions /\ IdleRefresh.pc = "idle" /\ IdleRefresh.next = 1
    /\ \A txn : Aborted(txn) \in Transactions /\ Aborted(txn).pc = "failed"
<1>1. NoWrites \in Overlays
  <2>1. DOMAIN NoWrites = {} /\ NoWrites \in [{} -> Rows]
    BY DEF NoWrites
  <2> QED BY <2>1, OverlayIs
<1>2. <<>> \in Seq(Models)
  OBVIOUS
<1>3. IdleRefresh \in Transactions /\ IdleRefresh.pc = "idle" /\ IdleRefresh.next = 1
  BY <1>1, <1>2 DEF IdleRefresh, Transactions
<1>4. \A txn : Aborted(txn) = [IdleRefresh EXCEPT !.pc = "failed"]
  BY DEF Aborted
<1>5. [IdleRefresh EXCEPT !.pc = "failed"] \in Transactions
      /\ [IdleRefresh EXCEPT !.pc = "failed"].pc = "failed"
  BY <1>3 DEF Transactions
<1> QED BY <1>1, <1>3, <1>4, <1>5

\* A listing with as many identities as models has none twice.
LEMMA ListedOnce ==
    ASSUME NEW s \in Seq(Models), Cardinality(Identifiers(s)) = Len(s),
           NEW m \in DOMAIN s, NEW n \in DOMAIN s, s[m].identity = s[n].identity
    PROVE  m = n
<1> DEFINE f == [k \in 1 .. Len(s) |-> s[k].identity]
<1>1. Len(s) \in Nat /\ DOMAIN s = 1 .. Len(s)
  OBVIOUS
<1>2. f \in Surjection(1 .. Len(s), Identifiers(s))
  BY <1>1 DEF Surjection, Identifiers
<1>3. IsFiniteSet(1 .. Len(s)) /\ Cardinality(1 .. Len(s)) = Len(s)
  <2>1. IsFiniteSet(1 .. Len(s))
        /\ Cardinality(1 .. Len(s)) = IF 1 > Len(s) THEN 0 ELSE Len(s) - 1 + 1
    <3>1. 1 \in Int /\ Len(s) \in Int
      BY <1>1
    <3> QED BY <3>1, FS_Interval, Zenon
  <2> QED BY <1>1, <2>1
<1> HIDE DEF f
<1>4. f \in Injection(1 .. Len(s), Identifiers(s))
  BY <1>2, <1>3, FS_Surjection
<1>5. \A j, k \in 1 .. Len(s) : f[j] = f[k] => j = k
  BY <1>4 DEF Injection, IsInjective
<1> QED BY <1>1, <1>5 DEF f

\* Write adds or replaces one row of a transaction and nothing else of it.
LEMMA WriteIs ==
    ASSUME NEW txn \in Transactions, NEW i \in Identities, NEW row \in Rows
    PROVE  /\ Write(txn, i, row) \in Transactions
           /\ DOMAIN Write(txn, i, row).writes = DOMAIN txn.writes \cup {i}
           /\ \A j \in DOMAIN txn.writes \cup {i} :
                 Write(txn, i, row).writes[j] = IF j = i THEN row ELSE txn.writes[j]
           /\ Write(txn, i, row).pc = txn.pc /\ Write(txn, i, row).listing = txn.listing
           /\ Write(txn, i, row).next = txn.next
           /\ Write(txn, i, row).snapshot = txn.snapshot /\ Write(txn, i, row).todo = txn.todo
<1> DEFINE w == [j \in DOMAIN txn.writes \cup {i} |-> IF j = i THEN row ELSE txn.writes[j]]
<1>1. txn.writes \in Overlays
  BY DEF Transactions
<1>2. w \in Overlays /\ DOMAIN w = DOMAIN txn.writes \cup {i}
  BY <1>1, OverlayIs
<1>3. Write(txn, i, row) = [txn EXCEPT !.writes = w]
  BY DEF Write
<1>4. \A j \in DOMAIN txn.writes \cup {i} : w[j] = IF j = i THEN row ELSE txn.writes[j]
  OBVIOUS
<1> HIDE DEF w
<1> QED BY <1>2, <1>3, <1>4 DEF Transactions

\* What refresh_provider leaves to the other refreshes: their transactions, and
\* the rows that are in the catalog.
LEMMA OthersHeld ==
    ASSUME CatalogInv, CatalogTyped', NEW r \in Refreshers,
           \A s \in Refreshers \ {r} : refresh'[s] = refresh[s],
           \A i \in Identities : catalog[i] # Absent => catalog'[i] # Absent,
           NEW s \in Refreshers \ {r}
    PROVE  UpsertsHeld(s)' /\ StaleHeld(s)'
<1>1. refresh'[s] = refresh[s] /\ UpsertsHeld(s) /\ StaleHeld(s) /\ CatalogTyped
  BY DEF CatalogInv
<1>2. UpsertsHeld(s)'
  BY <1>1 DEF UpsertsHeld, Holds
<1>3. ASSUME NEW i \in Identities, Seen(s, i) # Absent PROVE Seen(s, i)' # Absent
  BY <1>1, <1>3 DEF Seen, Holds
<1>4. refresh[s].todo \subseteq Identities
  BY TransactionIs, <1>1 DEF Transactions
<1>5. StaleHeld(s)'
  BY <1>1, <1>3, <1>4 DEF StaleHeld, Holds
<1> QED BY <1>2, <1>5

\* The statements of a refresh one by one: each keeps the catalog typed and
\* holds for r what the transaction holds.  A listing holds nothing yet.
LEMMA ListModelsHeld ==
    ASSUME CatalogInv, NEW r \in Refreshers, ListModels(r)
    PROVE  CatalogTyped' /\ UpsertsHeld(r)' /\ StaleHeld(r)'
<1>1. CatalogTyped /\ refresh[r] \in Transactions /\ catalog' = catalog
  BY TransactionIs DEF CatalogInv, ListModels
<1>2. Aborted(refresh[r]) \in Transactions /\ Aborted(refresh[r]).pc = "failed"
  BY IdleIs
<1>3. CASE refresh' = [refresh EXCEPT ![r] = Aborted(@)]
  <2>1. refresh'[r] = Aborted(refresh[r])
    BY <1>1, <1>3 DEF CatalogTyped
  <2>2. CatalogTyped'
    BY <1>1, <1>2, <1>3 DEF CatalogTyped
  <2> QED BY <1>2, <2>1, <2>2 DEF UpsertsHeld, StaleHeld
<1>4. ASSUME NEW listing \in Listings, Cardinality(Identifiers(listing)) = Len(listing),
             refresh[r].pc = "idle",
             refresh' = [refresh EXCEPT ![r] =
                            [@ EXCEPT !.pc = "upserting", !.listing = listing]]
      PROVE  CatalogTyped' /\ UpsertsHeld(r)' /\ StaleHeld(r)'
  <2>1. listing \in Seq(Models)
    BY CatalogAssumption
  <2>2. refresh'[r] = [refresh[r] EXCEPT !.pc = "upserting", !.listing = listing]
    BY <1>1, <1>4 DEF CatalogTyped
  <2>3. refresh'[r] \in Transactions
    BY <1>1, <2>1, <2>2 DEF Transactions
  <2>4. CatalogTyped'
    BY <1>1, <1>4, <2>2, <2>3 DEF CatalogTyped
  <2>5. refresh'[r].pc = "upserting" /\ refresh'[r].listing = listing /\ refresh'[r].next = 1
    <3>1. refresh[r].next = 1
      BY <1>4 DEF CatalogInv, UpsertsHeld
    <3> QED BY <1>1, <2>2, <3>1 DEF Transactions
  <2>6. \A m, n \in DOMAIN listing : listing[m].identity = listing[n].identity => m = n
    BY <1>4, <2>1, ListedOnce
  <2>7. Len(listing) \in Nat
    BY <2>1
  <2>8. UpsertsHeld(r)'
    BY <2>5, <2>6, <2>7 DEF UpsertsHeld
  <2> QED BY <2>4, <2>5, <2>8 DEF StaleHeld
<1>5. refresh[r].pc = "idle"
  BY DEF ListModels
<1> QED BY <1>3, <1>4, <1>5 DEF ListModels

\* An upsert holds the row of one model more.
LEMMA UpsertModelHeld ==
    ASSUME CatalogInv, NEW r \in Refreshers, UpsertModel(r)
    PROVE  CatalogTyped' /\ UpsertsHeld(r)' /\ StaleHeld(r)' /\ refresh'[r].pc = refresh[r].pc
<1> DEFINE txn == refresh[r]
           model == txn.listing[txn.next]
           row == CatalogRow(model)
           new == Write(txn, model.identity, row)
<1>1. /\ CatalogTyped /\ txn \in Transactions /\ catalog' = catalog
      /\ Len(txn.listing) \in Nat /\ DOMAIN txn.listing = 1 .. Len(txn.listing)
      /\ \A n \in DOMAIN txn.listing : txn.listing[n] \in Models
  BY TransactionIs DEF CatalogInv, UpsertModel
<1>2. /\ txn.pc = "upserting" /\ txn.next <= Len(txn.listing)
      /\ refresh' = [refresh EXCEPT ![r] = [new EXCEPT !.next = @ + 1]]
  BY DEF UpsertModel
<1>3. /\ txn.next \in DOMAIN txn.listing
      /\ \A m, n \in DOMAIN txn.listing :
            txn.listing[m].identity = txn.listing[n].identity => m = n
      /\ \A n \in 1 .. txn.next - 1 :
            /\ txn.listing[n].identity \in DOMAIN txn.writes
            /\ txn.writes[txn.listing[n].identity] = CatalogRow(txn.listing[n])
  BY <1>1, <1>2 DEF CatalogInv, UpsertsHeld, Holds
<1>4. model \in Models /\ model.identity \in Identities /\ row \in Rows
  BY <1>1, <1>3, RowsAre DEF Models
<1>5. /\ new \in Transactions
      /\ DOMAIN new.writes = DOMAIN txn.writes \cup {model.identity}
      /\ \A j \in DOMAIN txn.writes \cup {model.identity} :
            new.writes[j] = IF j = model.identity THEN row ELSE txn.writes[j]
      /\ new.pc = txn.pc /\ new.listing = txn.listing /\ new.next = txn.next
  BY <1>1, <1>4, WriteIs
<1> HIDE DEF new, row
<1>6. /\ refresh'[r] \in Transactions
      /\ refresh'[r].pc = "upserting" /\ refresh'[r].listing = txn.listing
      /\ refresh'[r].next = txn.next + 1 /\ refresh'[r].writes = new.writes
  <2>1. refresh'[r] = [new EXCEPT !.next = @ + 1]
    BY <1>1, <1>2 DEF CatalogTyped
  <2>2. new.next + 1 \in Nat
    BY <1>5 DEF Transactions
  <2> HIDE DEF txn
  <2> QED BY <1>2, <1>5, <2>1, <2>2 DEF Transactions
<1>7. CatalogTyped'
  BY <1>1, <1>2, <1>6 DEF CatalogTyped
<1>8. UpsertsHeld(r)'
  <2>1. ASSUME NEW n \in 1 .. txn.next
        PROVE  /\ txn.listing[n].identity \in DOMAIN new.writes
               /\ new.writes[txn.listing[n].identity] = CatalogRow(txn.listing[n])
    <3>1. CASE n = txn.next
      BY <1>5, <3>1 DEF row
    <3>2. CASE n # txn.next
      <4>1. n \in 1 .. txn.next - 1 /\ n \in DOMAIN txn.listing
        BY <1>1, <1>3, <3>2
      <4>2. txn.listing[n].identity # model.identity
        BY <1>3, <3>2, <4>1
      <4> QED BY <1>3, <1>5, <4>1, <4>2
    <3> QED BY <3>1, <3>2
  <2>2. txn.next + 1 \in 1 .. Len(txn.listing) + 1 /\ txn.next \in Nat
    BY <1>1, <1>3
  <2> HIDE DEF model
  <2>3. \A m, n \in DOMAIN txn.listing :
            txn.listing[m].identity = txn.listing[n].identity => m = n
    BY <1>3
  <2> HIDE DEF txn
  <2> QED BY <1>6, <2>1, <2>2, <2>3 DEF UpsertsHeld, Holds
<1> QED BY <1>2, <1>6, <1>7, <1>8 DEF StaleHeld

\* Once all models are upserted, the last UPDATE selects among the other rows.
LEMMA StartStalingHeld ==
    ASSUME CatalogInv, NEW r \in Refreshers, StartStaling(r)
    PROVE  CatalogTyped' /\ UpsertsHeld(r)' /\ StaleHeld(r)'
<1> DEFINE txn == refresh[r]
           missing == {i \in Identities \ Identifiers(txn.listing) :
                          /\ ProviderOf[i] = RefreshedProvider
                          /\ Seen(r, i).status = "AVAILABLE"}
<1>1. /\ CatalogTyped /\ txn \in Transactions /\ catalog' = catalog
      /\ Len(txn.listing) \in Nat /\ txn.next \in Nat
  BY TransactionIs DEF CatalogInv, StartStaling
<1>2. /\ txn.pc = "upserting" /\ txn.next > Len(txn.listing)
      /\ refresh' = [refresh EXCEPT ![r].pc = "staling", ![r].snapshot = missing,
                                    ![r].todo = missing]
  BY DEF StartStaling
<1>3. missing \subseteq Identities \ Identifiers(txn.listing)
  OBVIOUS
<1>4. \A i \in missing : Seen(r, i) # Absent
  BY DEF Absent
<1> HIDE DEF missing
<1>5. /\ refresh'[r] \in Transactions
      /\ refresh'[r].pc = "staling" /\ refresh'[r].listing = txn.listing
      /\ refresh'[r].next = txn.next /\ refresh'[r].writes = txn.writes
      /\ refresh'[r].snapshot = missing /\ refresh'[r].todo = missing
  BY <1>1, <1>2, <1>3 DEF CatalogTyped, Transactions
<1>6. CatalogTyped'
  BY <1>1, <1>2, <1>5 DEF CatalogTyped
<1>7. UpsertsHeld(r)'
  <2>1. /\ \A m, n \in DOMAIN txn.listing :
              txn.listing[m].identity = txn.listing[n].identity => m = n
        /\ txn.next \in 1 .. Len(txn.listing) + 1
        /\ \A n \in 1 .. txn.next - 1 :
              /\ txn.listing[n].identity \in DOMAIN txn.writes
              /\ txn.writes[txn.listing[n].identity] = CatalogRow(txn.listing[n])
    BY <1>2 DEF CatalogInv, UpsertsHeld, Holds
  <2> HIDE DEF txn
  <2> QED BY <1>5, <2>1 DEF UpsertsHeld, Holds
<1>8. txn.next = Len(txn.listing) + 1
  BY <1>1, <1>2 DEF CatalogInv, UpsertsHeld
<1>9. \A i \in missing : Seen(r, i)' # Absent
  BY <1>1, <1>4, <1>5 DEF Seen, Holds
<1> QED BY <1>3, <1>5, <1>6, <1>7, <1>8, <1>9 DEF StaleHeld

\* A row looked at again is STALE, and none of the upserted ones.
LEMMA MarkStaleHeld ==
    ASSUME CatalogInv, NEW r \in Refreshers, MarkStale(r)
    PROVE  CatalogTyped' /\ UpsertsHeld(r)' /\ StaleHeld(r)' /\ refresh'[r].pc = refresh[r].pc
<1> DEFINE txn == refresh[r]
<1>1. /\ CatalogTyped /\ txn \in Transactions /\ catalog' = catalog /\ txn.pc = "staling"
      /\ Len(txn.listing) \in Nat /\ DOMAIN txn.listing = 1 .. Len(txn.listing)
  BY TransactionIs DEF CatalogInv, MarkStale
<1>2. PICK i \in txn.todo :
        LET row == IF Seen(r, i).status = "AVAILABLE"
                   THEN [Seen(r, i) EXCEPT !.status = "STALE"]
                   ELSE Seen(r, i)
            written == Write(txn, i, row)
        IN  refresh' = [refresh EXCEPT ![r] = [written EXCEPT !.todo = @ \ {i}]]
  BY DEF MarkStale
<1> DEFINE row == IF Seen(r, i).status = "AVAILABLE"
                  THEN [Seen(r, i) EXCEPT !.status = "STALE"]
                  ELSE Seen(r, i)
           new == Write(txn, i, row)
<1>3. /\ txn.next = Len(txn.listing) + 1
      /\ txn.todo \subseteq txn.snapshot
      /\ txn.snapshot \subseteq Identities \ Identifiers(txn.listing)
      /\ \A j \in txn.todo : Seen(r, j) # Absent
      /\ \A j \in txn.snapshot \ txn.todo :
            j \in DOMAIN txn.writes /\ txn.writes[j].status = "STALE"
  BY <1>1 DEF CatalogInv, StaleHeld, Holds
<1>4. i \in Identities /\ Seen(r, i) \in Rows
  BY <1>1, <1>3, TransactionIs
<1>5. row \in Rows /\ row.status = "STALE"
  BY <1>4, RowsAre DEF Rows
<1>6. /\ new \in Transactions
      /\ DOMAIN new.writes = DOMAIN txn.writes \cup {i}
      /\ \A j \in DOMAIN txn.writes \cup {i} :
            new.writes[j] = IF j = i THEN row ELSE txn.writes[j]
      /\ new.pc = txn.pc /\ new.listing = txn.listing /\ new.next = txn.next
      /\ new.snapshot = txn.snapshot /\ new.todo = txn.todo
  BY <1>1, <1>4, <1>5, WriteIs
<1>7. refresh' = [refresh EXCEPT ![r] = [new EXCEPT !.todo = @ \ {i}]]
  BY <1>2
<1> HIDE DEF new, row
<1>8. /\ refresh'[r] \in Transactions
      /\ refresh'[r].pc = "staling" /\ refresh'[r].listing = txn.listing
      /\ refresh'[r].next = txn.next /\ refresh'[r].writes = new.writes
      /\ refresh'[r].snapshot = txn.snapshot /\ refresh'[r].todo = txn.todo \ {i}
  BY <1>1, <1>6, <1>7 DEF CatalogTyped, Transactions
<1>9. CatalogTyped'
  BY <1>1, <1>7, <1>8 DEF CatalogTyped
<1>10. UpsertsHeld(r)'
  <2>1. /\ \A m, n \in DOMAIN txn.listing :
              txn.listing[m].identity = txn.listing[n].identity => m = n
        /\ txn.next \in 1 .. Len(txn.listing) + 1
        /\ \A n \in 1 .. txn.next - 1 :
              /\ txn.listing[n].identity \in DOMAIN txn.writes
              /\ txn.writes[txn.listing[n].identity] = CatalogRow(txn.listing[n])
    BY <1>1 DEF CatalogInv, UpsertsHeld, Holds
  <2>2. ASSUME NEW n \in 1 .. txn.next - 1
        PROVE  /\ txn.listing[n].identity \in DOMAIN new.writes
               /\ new.writes[txn.listing[n].identity] = CatalogRow(txn.listing[n])
    <3>1. txn.listing[n].identity \in Identifiers(txn.listing)
      BY <1>1, <1>3 DEF Identifiers
    <3>2. txn.listing[n].identity # i
      BY <1>3, <3>1
    <3> QED BY <1>6, <2>1, <3>2
  <2> HIDE DEF txn
  <2> QED BY <1>8, <2>1, <2>2 DEF UpsertsHeld, Holds
<1>11. StaleHeld(r)'
  <2>1. ASSUME NEW j \in txn.snapshot \ (txn.todo \ {i})
        PROVE  j \in DOMAIN new.writes /\ new.writes[j].status = "STALE"
    BY <1>3, <1>5, <1>6
  <2>2. ASSUME NEW j \in txn.todo \ {i} PROVE Seen(r, j)' # Absent
    BY <1>1, <1>3, <1>6, <1>8 DEF Seen, Holds
  <2> HIDE DEF txn
  <2> QED BY <1>3, <1>8, <2>1, <2>2 DEF StaleHeld, Holds
<1> QED BY <1>1, <1>8, <1>9, <1>10, <1>11

\* A commit removes no row from the catalog; the transaction then holds none.
LEMMA CommitRefreshHeld ==
    ASSUME CatalogInv, NEW r \in Refreshers, CommitRefresh(r)
    PROVE  /\ CatalogTyped' /\ UpsertsHeld(r)' /\ StaleHeld(r)'
           /\ \A i \in Identities : catalog[i] # Absent => catalog'[i] # Absent
<1>1. CatalogTyped /\ refresh[r] \in Transactions
  BY TransactionIs DEF CatalogInv
<1>2. /\ catalog' = [i \in Identities |-> Seen(r, i)]
      /\ refresh' = [refresh EXCEPT ![r].pc = "done", ![r].writes = NoWrites]
  BY DEF CommitRefresh
<1>3. \A i \in Identities : /\ catalog'[i] \in Rows \cup {Absent}
                            /\ catalog[i] # Absent => catalog'[i] # Absent
  BY <1>1, <1>2, TransactionIs, RowsAre
<1>4. NoWrites \in Overlays
  BY IdleIs
<1>5. refresh'[r] \in Transactions /\ refresh'[r].pc = "done"
  BY <1>1, <1>2, <1>4 DEF CatalogTyped, Transactions
<1>6. CatalogTyped'
  BY <1>1, <1>2, <1>3, <1>5 DEF CatalogTyped
<1> QED BY <1>3, <1>5, <1>6 DEF UpsertsHeld, StaleHeld

\* A transaction rolled back holds nothing.
LEMMA RollbackHeld ==
    ASSUME CatalogInv, NEW r \in Refreshers, RollbackRefresh(r)
    PROVE  CatalogTyped' /\ UpsertsHeld(r)' /\ StaleHeld(r)'
<1>1. CatalogTyped /\ refresh[r] \in Transactions /\ catalog' = catalog
  BY TransactionIs DEF CatalogInv, RollbackRefresh
<1>2. Aborted(refresh[r]) \in Transactions /\ Aborted(refresh[r]).pc = "failed"
  BY IdleIs
<1>3. refresh'[r] = Aborted(refresh[r])
  BY <1>1 DEF CatalogTyped, RollbackRefresh
<1>4. CatalogTyped'
  BY <1>1, <1>2, <1>3 DEF CatalogTyped, RollbackRefresh
<1> QED BY <1>2, <1>3, <1>4 DEF UpsertsHeld, StaleHeld

\* Every statement of a refresh keeps what each of them holds.
LEMMA RefreshHeld ==
    ASSUME CatalogInv, NEW r \in Refreshers, refresh_provider(r)
    PROVE  CatalogInv'
<1>1. /\ CatalogTyped' /\ UpsertsHeld(r)' /\ StaleHeld(r)'
      /\ \A i \in Identities : catalog[i] # Absent => catalog'[i] # Absent
  BY ListModelsHeld, UpsertModelHeld, StartStalingHeld, MarkStaleHeld, CommitRefreshHeld,
     RollbackHeld
     DEF refresh_provider, ListModels, UpsertModel, StartStaling, MarkStale, RollbackRefresh
<1>2. \A s \in Refreshers \ {r} : refresh'[s] = refresh[s]
  BY DEF CatalogInv, CatalogTyped, refresh_provider, ListModels, UpsertModel, StartStaling,
         MarkStale, CommitRefresh, RollbackRefresh
<1>3. \A s \in Refreshers \ {r} : UpsertsHeld(s)' /\ StaleHeld(s)'
  BY <1>1, <1>2, OthersHeld
<1> QED BY <1>1, <1>3 DEF CatalogInv

\* Before any refresh there is no transaction.
LEMMA CatalogBegins == CatalogInit => CatalogInv
<1> SUFFICES ASSUME CatalogInit PROVE CatalogInv
  OBVIOUS
<1>1. IdleRefresh \in Transactions /\ IdleRefresh.pc = "idle" /\ IdleRefresh.next = 1
  BY IdleIs
<1>2. CatalogTyped
  BY <1>1, CatalogAssumption DEF CatalogInit, CatalogTyped
<1>3. \A r \in Refreshers : refresh[r] = IdleRefresh
  BY DEF CatalogInit
<1> QED BY <1>1, <1>2, <1>3 DEF CatalogInv, UpsertsHeld, StaleHeld
-----------------------------------------------------------------------------
(* Retrieval lists each memory found once, in order.                       *)

\* The order of a retrieval: newest first, and by id where that does not
\* decide.
LEMMA RetrievalOrders ==
    /\ \A a \in MemoryRecords : ~RetrievedBefore(a, a)
    /\ \A a, b, c \in MemoryRecords :
          RetrievedBefore(a, b) /\ RetrievedBefore(b, c) => RetrievedBefore(a, c)
    /\ \A a, b \in MemoryRecords :
          a.id # b.id => RetrievedBefore(a, b) \/ RetrievedBefore(b, a)
<1>1. \A a \in MemoryRecords : ~RetrievedBefore(a, a)
  BY DEF MemoryRecords, RetrievedBefore
<1>2. \A a \in MemoryRecords : a.importance \in Nat /\ a.since \in Nat /\ a.id \in Nat
  BY DEF MemoryRecords
<1>3. ASSUME NEW a \in MemoryRecords, NEW b \in MemoryRecords, NEW c \in MemoryRecords,
             RetrievedBefore(a, b), RetrievedBefore(b, c)
      PROVE  RetrievedBefore(a, c)
  BY <1>2, <1>3 DEF RetrievedBefore
<1>4. ASSUME NEW a \in MemoryRecords, NEW b \in MemoryRecords, a.id # b.id
      PROVE  RetrievedBefore(a, b) \/ RetrievedBefore(b, a)
  BY <1>2, <1>4 DEF RetrievedBefore
<1> QED BY <1>1, <1>3, <1>4

\* How many memories precede one is its rank, and every rank is taken.
LEMMA OrderEnumerates ==
    ASSUME NEW S \in SUBSET MemoryRecords, IsFiniteSet(S),
           \A a, b \in S : a.id = b.id => a = b
    PROVE  InOrder(S) \in Seq(S)
<1> DEFINE Earlier(m) == {other \in S : RetrievedBefore(other, m)}
           rank == [m \in S |-> Cardinality(Earlier(m))]
           n == Cardinality(S)
<1>1. /\ n \in Nat
      /\ \A T \in SUBSET S : IsFiniteSet(T) /\ Cardinality(T) \in Nat
  BY FS_CardinalityType, FS_Subset
<1>2. \A j, k \in S : RetrievedBefore(j, k) => rank[j] < rank[k]
  <2>1. SUFFICES ASSUME NEW j \in S, NEW k \in S, RetrievedBefore(j, k)
                 PROVE  Cardinality(Earlier(j)) < Cardinality(Earlier(k))
    OBVIOUS
  <2>2. Earlier(j) \subseteq Earlier(k) /\ j \in Earlier(k) /\ j \notin Earlier(j)
    BY <2>1, RetrievalOrders
  <2>3. Earlier(j) \in SUBSET S /\ Earlier(k) \in SUBSET S
    OBVIOUS
  <2> HIDE DEF Earlier
  <2> QED BY <1>1, <2>2, <2>3, FS_Subset
<1>3. \A k \in S : rank[k] \in 0 .. n - 1
  <2>1. SUFFICES ASSUME NEW k \in S PROVE Cardinality(Earlier(k)) \in 0 .. n - 1
    OBVIOUS
  <2>2. Earlier(k) \in SUBSET S /\ k \notin Earlier(k)
    BY RetrievalOrders
  <2> HIDE DEF Earlier
  <2> QED BY <1>1, <2>2, FS_Subset
<1>4. rank \in Injection(S, 0 .. n - 1)
  <2>1. rank \in [S -> 0 .. n - 1]
    BY <1>3
  <2>2. \A j, k \in S : j # k => RetrievedBefore(j, k) \/ RetrievedBefore(k, j)
    BY RetrievalOrders
  <2> HIDE DEF rank, n
  <2>3. \A j, k \in S : rank[j] = rank[k] => j = k
    BY <1>2, <1>3, <2>2
  <2> QED BY <2>1, <2>3 DEF Injection, IsInjective
<1>5. IsFiniteSet(0 .. n - 1) /\ Cardinality(0 .. n - 1) = n
  <2> HIDE DEF n
  <2>1. n \in Nat /\ 0 \in Int /\ n - 1 \in Int
    BY <1>1
  <2>2. IsFiniteSet(0 .. n - 1) /\ Cardinality(0 .. n - 1) = IF 0 > n - 1 THEN 0 ELSE n - 1 - 0 + 1
    BY <2>1, FS_Interval, ZenonT(60)
  <2> QED BY <2>1, <2>2
<1>6. rank \in Surjection(S, 0 .. n - 1)
  BY <1>4, <1>5, FS_Injection
<1> DEFINE Ranked(m, i) == Cardinality(Earlier(m)) = i - 1
           at(i) == CHOOSE m \in S : Ranked(m, i)
<1>7. \A i \in 1 .. n : at(i) \in S
  <2>1. SUFFICES ASSUME NEW i \in 1 .. n PROVE at(i) \in S
    OBVIOUS
  <2>2. i - 1 \in 0 .. n - 1
    BY <1>1
  <2>3. \E m \in S : Ranked(m, i)
    BY <1>6, <2>2 DEF Surjection
  <2> HIDE DEF Ranked
  <2> QED BY <2>3, Zenon
<1>8. InOrder(S) = [i \in 1 .. n |-> at(i)]
  BY DEF InOrder
<1> HIDE DEF n, at
<1> QED BY <1>1, <1>7, <1>8

\* A stored memory has passed MemoryCreate.
Stored == {m \in Memories : ValidMemory(m)}

\* A retrieval answers stored memories.
LEMMA RetrievedAre ==
    ASSUME store \subseteq Stored, IsFiniteSet(store), request \in Requests
    PROVE  /\ retrieve_memories(store, request) \in Seq(Stored)
           /\ Stored \subseteq MemoryRecords
<1> DEFINE S == {m \in store : Admissible(m, request)}
           s == InOrder(S)
           n == Min({request.limit, Len(s)})
<1>1. Stored \subseteq MemoryRecords /\ \A a, b \in Stored : a.id = b.id => a = b
  BY PreparationAssumption DEF Stored
<1>2. S \subseteq store /\ IsFiniteSet(S)
  BY FS_Subset
<1>3. s \in Seq(S)
  BY <1>1, <1>2, OrderEnumerates
<1>4. s \in Seq(Stored) /\ Len(s) \in Nat
  BY <1>2, <1>3
<1>5. request.limit \in Nat
  BY PreparationAssumption
<1>6. n \in 0 .. Len(s)
  BY <1>4, <1>5, MinTwo
<1>7. retrieve_memories(store, request) = SubSeq(s, 1, n)
  BY DEF retrieve_memories
<1> HIDE DEF s, n
<1>8. SubSeq(s, 1, n) \in Seq(Stored)
  BY <1>4, <1>6
<1> QED BY <1>1, <1>7, <1>8

-----------------------------------------------------------------------------
(* The package.                                                            *)

\* What each turn keeps, the loop keeps: T[n] is what may stand after n turns.
LEMMA LoopKeeps ==
    ASSUME NEW loop, NEW base, NEW s, Len(s) \in Nat, NEW result,
           Unfolds(loop, base, s, result),
           NEW T, base \in T[0],
           \A k \in 1 .. Len(s) : \A acc \in T[k - 1] : Turn(loop, acc, s[k]) \in T[k]
    PROVE  result \in T[Len(s)]
<1>1. PICK g : /\ g[0] = base
               /\ \A k \in 1 .. Len(s) : g[k] = Turn(loop, g[k - 1], s[k])
               /\ result = g[Len(s)]
  BY DEF Unfolds
<1> DEFINE U == {k \in 0 .. Len(s) : g[k] \in T[k]}
<1>2. 0 \in U
  BY <1>1
<1>3. ASSUME NEW k \in 1 .. Len(s), k - 1 \in U PROVE k \in U
  BY <1>1, <1>3
<1>4. 0 .. Len(s) \subseteq U
  <2> HIDE DEF U
  <2> QED BY <1>2, <1>3, Counting
<1> QED BY <1>1, <1>4

\* One element more is one turn more.
LEMMA LoopAppends ==
    ASSUME NEW loop, NEW base, NEW R, NEW s \in Seq(R), NEW x \in R, NEW a, NEW b,
           Unfolds(loop, base, s, a), Unfolds(loop, base, Append(s, x), b)
    PROVE  b = Turn(loop, a, x)
<1>1. PICK g : /\ g[0] = base
               /\ \A k \in 1 .. Len(s) : g[k] = Turn(loop, g[k - 1], s[k])
               /\ a = g[Len(s)]
  BY DEF Unfolds
<1>2. PICK h : /\ h[0] = base
               /\ \A k \in 1 .. Len(Append(s, x)) : h[k] = Turn(loop, h[k - 1], Append(s, x)[k])
               /\ b = h[Len(Append(s, x))]
  BY DEF Unfolds
<1>3. /\ Len(s) \in Nat /\ Len(Append(s, x)) = Len(s) + 1 /\ Append(s, x)[Len(s) + 1] = x
      /\ \A k \in 1 .. Len(s) : Append(s, x)[k] = s[k]
  OBVIOUS
<1> DEFINE U == {k \in 0 .. Len(s) : g[k] = h[k]}
<1>4. 0 \in U
  BY <1>1, <1>2, <1>3
<1>5. ASSUME NEW k \in 1 .. Len(s), k - 1 \in U PROVE k \in U
  <2>1. k \in 1 .. Len(Append(s, x)) /\ g[k - 1] = h[k - 1]
    BY <1>3, <1>5
  <2> QED BY <1>1, <1>2, <1>3, <2>1
<1>6. 0 .. Len(s) \subseteq U
  <2> HIDE DEF U
  <2> QED BY <1>3, <1>4, <1>5, Counting
<1>7. g[Len(s)] = h[Len(s)]
  BY <1>3, <1>6
<1>8. Len(s) + 1 \in 1 .. Len(s) + 1 /\ Len(s) + 1 - 1 = Len(s)
  BY <1>3
<1> QED BY <1>1, <1>2, <1>3, <1>7, <1>8

\* What a package may hold.
Groups == {"disputed"} \cup {m.kind : m \in Stored}
Items ==
    [memory : Stored, group : Groups, retained : 0 .. MaxReferencesPerItem, omitted : Nat]

\* The numbers of an item.
LEMMA ItemsAre ==
    ASSUME NEW item \in Items
    PROVE  /\ item.memory \in Stored /\ item.memory.bytes \in Nat /\ item.memory.refs \in Nat
           /\ item.retained \in Nat /\ item.omitted \in Nat
           /\ item.retained <= MaxReferencesPerItem
<1>1. item.memory \in MemoryRecords
  BY PreparationAssumption DEF Items, Stored
<1>2. item.memory.bytes \in Nat /\ item.memory.refs \in Nat
  BY <1>1 DEF MemoryRecords
<1> QED BY <1>2, BoundsAssumption DEF Items

\* The three totals of a package, of one without items and of one with an
\* item more.
LEMMA TotalsAppend ==
    ASSUME NEW s \in Seq(Items), NEW x \in Items, NEW fixed \in Nat
    PROVE  /\ TotalWeight(Append(s, x), fixed)
                = TotalWeight(s, fixed) + x.memory.bytes + x.retained + fixed
           /\ References(Append(s, x)) = References(s) + x.retained
           /\ ReferencesOwed(Append(s, x)) = ReferencesOwed(s) + x.omitted
<1>1. Append(s, x) \in Seq(Items)
  OBVIOUS
<1>2. TotalWeight(Append(s, x), fixed) = Turn(<<"weigh", fixed>>, TotalWeight(s, fixed), x)
  <2>1. /\ Unfolds(<<"weigh", fixed>>, 0, s, TotalWeight(s, fixed))
        /\ Unfolds(<<"weigh", fixed>>, 0, Append(s, x), TotalWeight(Append(s, x), fixed))
    BY <1>1, WeightUnfolds
  <2> QED BY <2>1, LoopAppends
<1>3. References(Append(s, x)) = Turn(<<"retain">>, References(s), x)
  BY <1>1, ReferencesUnfold, LoopAppends
<1>4. ReferencesOwed(Append(s, x)) = Turn(<<"owe">>, ReferencesOwed(s), x)
  BY <1>1, ReferencesOwedUnfold, LoopAppends
<1> QED BY <1>2, <1>3, <1>4 DEF Turn

\* An empty package weighs nothing.
LEMMA TotalsBegin ==
    ASSUME NEW fixed \in Nat
    PROVE  TotalWeight(<<>>, fixed) = 0 /\ References(<<>>) = 0 /\ ReferencesOwed(<<>>) = 0
<1>1. <<>> \in Seq(Items) /\ Len(<<>>) = 0
  OBVIOUS
<1>2. Unfolds(<<"weigh", fixed>>, 0, <<>>, TotalWeight(<<>>, fixed))
  BY <1>1, WeightUnfolds
<1>3. Unfolds(<<"retain">>, 0, <<>>, References(<<>>))
  BY <1>1, ReferencesUnfold
<1>4. Unfolds(<<"owe">>, 0, <<>>, ReferencesOwed(<<>>))
  BY <1>1, ReferencesOwedUnfold
<1> QED BY <1>1, <1>2, <1>3, <1>4 DEF Unfolds

\* The running totals of a package.
Running(s, fixed, w, ref, owe) ==
    /\ w[0] = 0 /\ ref[0] = 0 /\ owe[0] = 0
    /\ \A k \in 0 .. Len(s) : w[k] \in Nat /\ ref[k] \in Nat /\ owe[k] \in Nat
    /\ \A k \in 1 .. Len(s) :
          /\ w[k] = w[k - 1] + s[k].memory.bytes + s[k].retained + fixed
          /\ ref[k] = ref[k - 1] + s[k].retained
          /\ owe[k] = owe[k - 1] + s[k].omitted
    /\ TotalWeight(s, fixed) = w[Len(s)]
    /\ References(s) = ref[Len(s)] /\ ReferencesOwed(s) = owe[Len(s)]

\* The three totals of a sequence run over its items one by one, in Nat.
LEMMA TotalsRun ==
    ASSUME NEW s \in Seq(Items), NEW fixed \in Nat
    PROVE  \E w, ref, owe : Running(s, fixed, w, ref, owe)
<1>1. /\ Len(s) \in Nat /\ DOMAIN s = 1 .. Len(s)
      /\ \A k \in 1 .. Len(s) : s[k] \in Items
  OBVIOUS
<1>2. PICK w : /\ w[0] = 0 /\ TotalWeight(s, fixed) = w[Len(s)]
               /\ \A k \in 1 .. Len(s) : w[k] = Turn(<<"weigh", fixed>>, w[k - 1], s[k])
  BY WeightUnfolds DEF Unfolds
<1>3. PICK ref : /\ ref[0] = 0 /\ References(s) = ref[Len(s)]
                 /\ \A k \in 1 .. Len(s) : ref[k] = Turn(<<"retain">>, ref[k - 1], s[k])
  BY ReferencesUnfold DEF Unfolds
<1>4. PICK owe : /\ owe[0] = 0 /\ ReferencesOwed(s) = owe[Len(s)]
                 /\ \A k \in 1 .. Len(s) : owe[k] = Turn(<<"owe">>, owe[k - 1], s[k])
  BY ReferencesOwedUnfold DEF Unfolds
<1>5. \A k \in 1 .. Len(s) :
          /\ w[k] = w[k - 1] + s[k].memory.bytes + s[k].retained + fixed
          /\ ref[k] = ref[k - 1] + s[k].retained
          /\ owe[k] = owe[k - 1] + s[k].omitted
  BY <1>2, <1>3, <1>4 DEF Turn
<1> DEFINE U == {k \in 0 .. Len(s) : w[k] \in Nat /\ ref[k] \in Nat /\ owe[k] \in Nat}
<1>6. 0 \in U
  BY <1>1, <1>2, <1>3, <1>4
<1>7. ASSUME NEW k \in 1 .. Len(s), k - 1 \in U PROVE k \in U
  <2>1. s[k].memory.bytes \in Nat /\ s[k].retained \in Nat /\ s[k].omitted \in Nat
    BY <1>1, ItemsAre
  <2>2. w[k - 1] \in Nat /\ ref[k - 1] \in Nat /\ owe[k - 1] \in Nat
    BY <1>7
  <2>3. w[k] \in Nat /\ ref[k] \in Nat /\ owe[k] \in Nat
    <3>1. /\ w[k] = w[k - 1] + s[k].memory.bytes + s[k].retained + fixed
          /\ ref[k] = ref[k - 1] + s[k].retained
          /\ owe[k] = owe[k - 1] + s[k].omitted
      BY <1>5
    <3>2. w[k] \in Nat
      BY <2>1, <2>2, <3>1
    <3>3. ref[k] \in Nat
      BY <2>1, <2>2, <3>1, SMTT(40)
    <3>4. owe[k] \in Nat
      BY <2>1, <2>2, <3>1, SMTT(40)
    <3> QED BY <3>2, <3>3, <3>4
  <2> QED BY <1>1, <2>3
<1>8. 0 .. Len(s) \subseteq U
  <2> HIDE DEF U
  <2> QED BY <1>1, <1>6, <1>7, Counting
<1>9. \A k \in 0 .. Len(s) : w[k] \in Nat /\ ref[k] \in Nat /\ owe[k] \in Nat
  BY <1>8
<1> HIDE DEF U
<1>10. Running(s, fixed, w, ref, owe)
  BY <1>2, <1>3, <1>4, <1>5, <1>9 DEF Running
<1> QED BY <1>10

\* Hence they are numbers.
LEMMA TotalsTyped ==
    ASSUME NEW s \in Seq(Items), NEW fixed \in Nat
    PROVE  /\ TotalWeight(s, fixed) \in Nat
           /\ References(s) \in Nat /\ ReferencesOwed(s) \in Nat
           /\ PackageBytes(s) \in Nat /\ ProviderBytes(s) \in Nat
<1>1. ASSUME NEW n \in Nat
      PROVE  TotalWeight(s, n) \in Nat /\ References(s) \in Nat /\ ReferencesOwed(s) \in Nat
  <2>1. PICK w, ref, owe : Running(s, n, w, ref, owe)
    BY TotalsRun
  <2>2. Len(s) \in 0 .. Len(s)
    OBVIOUS
  <2> QED BY <2>1, <2>2 DEF Running
<1>2. TotalWeight(s, 0) \in Nat /\ TotalWeight(s, 1) \in Nat
  BY <1>1
<1>3. PackageHeader \in Nat /\ ProviderHeader \in Nat
  BY BoundsAssumption
<1>4. PackageBytes(s) \in Nat /\ ProviderBytes(s) \in Nat
  BY <1>2, <1>3 DEF PackageBytes, ProviderBytes
<1> QED BY <1>1, <1>4

\* An item keeps of its references what the package may still hold.
LEMMA ItemIs ==
    ASSUME NEW memory \in Stored, NEW remaining \in Nat
    PROVE  Item(memory, remaining) \in Items /\ Item(memory, remaining).retained <= remaining
<1>1. memory \in MemoryRecords
  BY PreparationAssumption DEF Stored
<1>2. memory.refs \in Nat
  BY <1>1 DEF MemoryRecords
<1> DEFINE retained == Min({memory.refs, MaxReferencesPerItem, remaining})
<1>3. MaxReferencesPerItem \in Nat
  BY BoundsAssumption
<1>4. /\ retained \in 0 .. MaxReferencesPerItem
      /\ retained <= remaining /\ retained <= memory.refs
  <2>1. /\ retained \in {memory.refs, MaxReferencesPerItem, remaining}
        /\ retained <= memory.refs /\ retained <= MaxReferencesPerItem /\ retained <= remaining
    <3>1. memory.refs \in Int /\ MaxReferencesPerItem \in Int /\ remaining \in Int
      BY <1>2, <1>3
    <3> QED BY <3>1, MinThree, Zenon
  <2> HIDE DEF retained
  <2> QED BY <1>2, <1>3, <2>1
<1> HIDE DEF retained
<1>5. Item(memory, remaining) =
        [memory |-> memory, group |-> Group(memory), retained |-> retained,
         omitted |-> memory.refs - retained]
  BY DEF Item, retained
<1>6. Group(memory) \in Groups
  BY DEF Group, Groups
<1>7. memory.refs - retained \in Nat
  BY <1>2, <1>3, <1>4
<1> QED BY <1>4, <1>5, <1>6, <1>7 DEF Items

\* What the greedy loop has after each turn: its two counts are the totals of
\* its items, which are within every bound.
Gathered ==
    {acc \in [items : Seq(Items), retained : Nat, omitted : Nat] :
        /\ References(acc.items) = acc.retained /\ acc.retained <= MaxReferences
        /\ ReferencesOwed(acc.items) = acc.omitted
        /\ Len(acc.items) <= MaxItems /\ PackageBytes(acc.items) <= MaxBytes}

\* The loop that fills a package stays within Gathered.
LEMMA NothingGathered == Nothing \in Gathered
<1>1. <<>> \in Seq(Items) /\ Len(<<>>) = 0
  OBVIOUS
<1>2. TotalWeight(<<>>, 1) = 0 /\ References(<<>>) = 0 /\ ReferencesOwed(<<>>) = 0
  BY TotalsBegin
<1>3. /\ MaxReferences \in Nat /\ MaxItems \in Nat /\ MaxBytes \in Nat
      /\ PackageHeader \in Nat /\ PackageHeader <= MaxBytes
  BY BoundsAssumption
<1>4. PackageBytes(<<>>) <= MaxBytes
  BY <1>2, <1>3 DEF PackageBytes
<1> QED BY <1>1, <1>2, <1>3, <1>4 DEF Nothing, Gathered

\* A turn adds at most one item, and only where the bounds leave room.
LEMMA GatheredKept ==
    ASSUME NEW acc \in Gathered, NEW memory \in Stored
    PROVE  /\ AddResult(acc, memory) \in Gathered
           /\ Len(AddResult(acc, memory).items) <= Len(acc.items) + 1
<1> DEFINE item == Item(memory, MaxReferences - acc.retained)
           more == Append(acc.items, item)
           new == [items |-> more, retained |-> acc.retained + item.retained,
                   omitted |-> acc.omitted + item.omitted]
<1>1. /\ acc.items \in Seq(Items) /\ acc.retained \in Nat /\ acc.omitted \in Nat
      /\ acc.retained <= MaxReferences /\ Len(acc.items) \in Nat
      /\ References(acc.items) = acc.retained /\ ReferencesOwed(acc.items) = acc.omitted
  BY DEF Gathered
<1>2. MaxReferences \in Nat /\ MaxItems \in Nat
  BY BoundsAssumption
<1>3. MaxReferences - acc.retained \in Nat
  BY <1>1, <1>2
<1>4. item \in Items /\ item.retained <= MaxReferences - acc.retained
  BY <1>3, ItemIs
<1> HIDE DEF item
<1>5. item.retained \in Nat /\ item.omitted \in Nat
  BY <1>4, ItemsAre
<1>6. /\ more \in Seq(Items) /\ Len(more) = Len(acc.items) + 1
      /\ References(more) = acc.retained + item.retained
      /\ ReferencesOwed(more) = acc.omitted + item.omitted
  BY <1>1, <1>4, TotalsAppend
<1>7. AddResult(acc, memory) =
        IF Len(acc.items) >= MaxItems \/ PackageBytes(more) > MaxBytes THEN acc ELSE new
  BY DEF AddResult, item
<1>8. CASE Len(acc.items) >= MaxItems \/ PackageBytes(more) > MaxBytes
  BY <1>1, <1>7, <1>8
<1>9. CASE ~(Len(acc.items) >= MaxItems \/ PackageBytes(more) > MaxBytes)
  <2>1. PackageBytes(more) \in Nat
    BY <1>6, TotalsTyped
  <2>2. MaxBytes \in Nat
    BY BoundsAssumption
  <2>3. PackageBytes(more) <= MaxBytes /\ Len(more) <= MaxItems
    BY <1>1, <1>2, <1>6, <1>9, <2>1, <2>2
  <2>4. acc.retained + item.retained \in Nat /\ acc.retained + item.retained <= MaxReferences
        /\ acc.omitted + item.omitted \in Nat
    BY <1>1, <1>2, <1>4, <1>5
  <2> HIDE DEF more
  <2>5. new \in Gathered
    BY <1>6, <2>3, <2>4 DEF Gathered
  <2>6. AddResult(acc, memory) = new
    BY <1>7, <1>9
  <2> QED BY <1>1, <1>6, <2>5, <2>6
<1> QED BY <1>8, <1>9

\* A package of what was found: within its bounds, its counts true, and no
\* shorter than what was found by more than it says.
Packages ==
    [items : Seq(Items), included : Nat, omitted : Nat, policyOmitted : Nat,
     referencesOmitted : Nat, bytes : Nat]
Sound(p, found) ==
    /\ p \in Packages
    /\ Len(p.items) <= MaxItems /\ References(p.items) <= MaxReferences
    /\ p.bytes = PackageBytes(p.items) /\ p.bytes <= MaxBytes
    /\ p.included = Len(p.items)
    /\ p.included + p.omitted = Len(found) /\ p.policyOmitted <= p.omitted
    /\ p.referencesOmitted >= ReferencesOwed(p.items)

\* The package assembled from what was retrieved is sound.
LEMMA AssembledIsSound ==
    ASSUME NEW found \in Seq(Stored)
    PROVE  Sound(assemble_context_package(found), found)
<1> DEFINE acc == FoldLeft(AddResult, Nothing, found)
           T == [n \in 0 .. Len(found) |-> {a \in Gathered : Len(a.items) <= n}]
           p == assemble_context_package(found)
<1>1. Len(found) \in Nat /\ \A k \in 1 .. Len(found) : found[k] \in Stored
  OBVIOUS
<1>2. acc \in T[Len(found)]
  <2>1. Unfolds(<<"add">>, Nothing, found, acc)
    BY AddingUnfolds
  <2>2. Nothing \in T[0]
    BY <1>1, NothingGathered DEF Nothing
  <2>3. ASSUME NEW k \in 1 .. Len(found), NEW a \in T[k - 1]
        PROVE  Turn(<<"add">>, a, found[k]) \in T[k]
    <3>1. k - 1 \in 0 .. Len(found) /\ k \in 0 .. Len(found)
      BY <1>1
    <3>2. a \in Gathered /\ Len(a.items) <= k - 1
      BY <3>1
    <3>3. Turn(<<"add">>, a, found[k]) = AddResult(a, found[k])
      BY DEF Turn
    <3>4. /\ AddResult(a, found[k]) \in Gathered
          /\ Len(AddResult(a, found[k]).items) <= Len(a.items) + 1
      BY <1>1, <3>2, GatheredKept
    <3>5. Len(a.items) \in Nat /\ Len(AddResult(a, found[k]).items) \in Nat
      BY <3>2, <3>4 DEF Gathered
    <3>6. Len(AddResult(a, found[k]).items) <= k
      BY <3>2, <3>4, <3>5
    <3> QED BY <3>1, <3>3, <3>4, <3>6
  <2> HIDE DEF T, acc
  <2> QED BY <1>1, <2>1, <2>2, <2>3, LoopKeeps
<1>3. acc \in Gathered /\ Len(acc.items) <= Len(found)
  BY <1>1, <1>2
<1>4. p = [items |-> acc.items, included |-> Len(acc.items),
           omitted |-> Len(found) - Len(acc.items), policyOmitted |-> 0,
           referencesOmitted |-> acc.omitted, bytes |-> PackageBytes(acc.items)]
  BY DEF assemble_context_package, Nothing
<1> HIDE DEF acc, p
<1>5. /\ acc.items \in Seq(Items) /\ Len(acc.items) \in Nat /\ acc.omitted \in Nat
      /\ References(acc.items) <= MaxReferences /\ Len(acc.items) <= MaxItems
      /\ ReferencesOwed(acc.items) = acc.omitted /\ PackageBytes(acc.items) <= MaxBytes
  BY <1>3 DEF Gathered
<1>6. /\ Len(found) - Len(acc.items) \in Nat
      /\ Len(acc.items) + (Len(found) - Len(acc.items)) = Len(found)
      /\ acc.omitted >= acc.omitted
  BY <1>1, <1>3, <1>5
<1>7. PackageBytes(acc.items) \in Nat
  BY <1>5, TotalsTyped
<1>8. p \in Packages
  BY <1>4, <1>5, <1>6, <1>7 DEF Packages
<1>9. Sound(p, found)
  BY <1>4, <1>5, <1>6, <1>8 DEF Sound
<1> QED BY <1>9 DEF p

\* What moves from one count to another leaves their sum.
LEMMA CountsMove ==
    /\ \A i, o, w \in Nat : (i - w) + (o + w) = i + o
    /\ \A x, y, w \in Nat : x <= y => x + w <= y + w
OBVIOUS

\* The filter keeps items, in no greater totals, that may go to the target.
LEMMA KeptAre ==
    ASSUME NEW s \in Seq(Items), NEW target, NEW fixed \in Nat
    PROVE  LET kept == Kept(s, target)
           IN  /\ kept \in Seq(Items) /\ Len(kept) <= Len(s)
               /\ \A n \in DOMAIN kept : Eligible(kept[n].memory, target)
               /\ TotalWeight(kept, fixed) <= TotalWeight(s, fixed)
               /\ References(kept) <= References(s) /\ ReferencesOwed(kept) <= ReferencesOwed(s)
<1>1. /\ Len(s) \in Nat /\ DOMAIN s = 1 .. Len(s)
      /\ \A k \in 1 .. Len(s) : s[k] \in Items
  OBVIOUS
<1>2. PICK w, ref, owe : Running(s, fixed, w, ref, owe)
  BY TotalsRun
<1> DEFINE Within(kept, n) ==
             /\ Len(kept) <= n
             /\ \A m \in DOMAIN kept : Eligible(kept[m].memory, target)
             /\ TotalWeight(kept, fixed) <= w[n]
             /\ References(kept) <= ref[n] /\ ReferencesOwed(kept) <= owe[n]
           T == [n \in 0 .. Len(s) |-> {kept \in Seq(Items) : Within(kept, n)}]
           kept == Kept(s, target)
<1>3. Unfolds(<<"keep", target>>, <<>>, s, kept)
  BY KeepingUnfolds
<1>4. <<>> \in T[0]
  <2>1. <<>> \in Seq(Items) /\ Len(<<>>) = 0 /\ DOMAIN <<>> = {}
    OBVIOUS
  <2>2. TotalWeight(<<>>, fixed) = 0 /\ References(<<>>) = 0 /\ ReferencesOwed(<<>>) = 0
    BY TotalsBegin
  <2>3. w[0] = 0 /\ ref[0] = 0 /\ owe[0] = 0
    BY <1>2 DEF Running
  <2>4. Within(<<>>, 0)
    BY <2>1, <2>2, <2>3
  <2> HIDE DEF Within
  <2> QED BY <1>1, <2>1, <2>4
<1>5. ASSUME NEW k \in 1 .. Len(s), NEW a \in T[k - 1]
      PROVE  Turn(<<"keep", target>>, a, s[k]) \in T[k]
  <2>1. k - 1 \in 0 .. Len(s) /\ k \in 0 .. Len(s) /\ s[k] \in Items
    BY <1>1
  <2>2. a \in Seq(Items) /\ Within(a, k - 1)
    BY <2>1
  <2>3. Turn(<<"keep", target>>, a, s[k])
          = IF Eligible(s[k].memory, target) THEN Append(a, s[k]) ELSE a
    BY DEF Turn
  <2>4. /\ w[k - 1] \in Nat /\ ref[k - 1] \in Nat /\ owe[k - 1] \in Nat
        /\ w[k] = w[k - 1] + s[k].memory.bytes + s[k].retained + fixed
        /\ ref[k] = ref[k - 1] + s[k].retained
        /\ owe[k] = owe[k - 1] + s[k].omitted
    BY <1>2, <2>1 DEF Running
  <2>5. s[k].memory.bytes \in Nat /\ s[k].retained \in Nat /\ s[k].omitted \in Nat
    BY <2>1, ItemsAre
  <2>6. /\ Len(a) \in Nat /\ TotalWeight(a, fixed) \in Nat
        /\ References(a) \in Nat /\ ReferencesOwed(a) \in Nat
    <3>1. a \in Seq(Items) /\ Len(a) \in Nat
      BY <2>2
    <3> QED BY <3>1, TotalsTyped
  <2>7. /\ Len(a) <= k - 1 /\ TotalWeight(a, fixed) <= w[k - 1]
        /\ References(a) <= ref[k - 1] /\ ReferencesOwed(a) <= owe[k - 1]
        /\ \A m \in DOMAIN a : Eligible(a[m].memory, target)
    BY <2>2
  <2>8. Len(a) <= k /\ Len(a) + 1 <= k
    BY <2>6, <2>7
  <2> HIDE DEF Within, T
  <2> DEFINE bytes == s[k].memory.bytes
             retained == s[k].retained
             omitted == s[k].omitted
             weight == TotalWeight(a, fixed)
  <2>9. weight <= w[k] /\ weight + bytes + retained + fixed <= w[k]
    <3>1. /\ w[k - 1] \in Nat /\ bytes \in Nat /\ retained \in Nat /\ weight \in Nat
          /\ weight <= w[k - 1] /\ w[k] = w[k - 1] + bytes + retained + fixed
      BY <2>4, <2>5, <2>6, <2>7
    <3> HIDE DEF bytes, retained, weight
    <3> QED BY <3>1
  <2>10. /\ References(a) <= ref[k] /\ References(a) + retained <= ref[k]
         /\ ReferencesOwed(a) <= owe[k] /\ ReferencesOwed(a) + omitted <= owe[k]
    <3>1. /\ ref[k - 1] \in Nat /\ owe[k - 1] \in Nat /\ retained \in Nat /\ omitted \in Nat
          /\ References(a) <= ref[k - 1] /\ ref[k] = ref[k - 1] + retained
          /\ ReferencesOwed(a) <= owe[k - 1] /\ owe[k] = owe[k - 1] + omitted
          /\ References(a) \in Nat /\ ReferencesOwed(a) \in Nat
      BY <2>4, <2>5, <2>6, <2>7
    <3> HIDE DEF retained, omitted
    <3> QED BY <3>1
  <2>11. CASE ~Eligible(s[k].memory, target)
    <3>1. Within(a, k)
      BY <2>7, <2>8, <2>9, <2>10 DEF Within
    <3> QED BY <2>1, <2>2, <2>3, <2>11, <3>1 DEF T
  <2>12. CASE Eligible(s[k].memory, target)
    <3>1. /\ Append(a, s[k]) \in Seq(Items) /\ Len(Append(a, s[k])) = Len(a) + 1
          /\ DOMAIN Append(a, s[k]) = 1 .. Len(a) + 1 /\ DOMAIN a = 1 .. Len(a)
          /\ \A m \in 1 .. Len(a) : Append(a, s[k])[m] = a[m]
          /\ Append(a, s[k])[Len(a) + 1] = s[k]
      BY <2>1, <2>2
    <3>2. /\ TotalWeight(Append(a, s[k]), fixed) = weight + bytes + retained + fixed
          /\ References(Append(a, s[k])) = References(a) + retained
          /\ ReferencesOwed(Append(a, s[k])) = ReferencesOwed(a) + omitted
      BY <2>1, <2>2, TotalsAppend
    <3>3. \A m \in DOMAIN Append(a, s[k]) : Eligible(Append(a, s[k])[m].memory, target)
      BY <2>6, <2>7, <2>12, <3>1
    <3>4. Within(Append(a, s[k]), k)
      BY <2>8, <2>9, <2>10, <3>1, <3>2, <3>3 DEF Within
    <3> QED BY <2>1, <2>3, <2>12, <3>1, <3>4 DEF T
  <2> QED BY <2>11, <2>12
<1>6. kept \in T[Len(s)]
  <2> HIDE DEF T, kept
  <2> QED BY <1>1, <1>3, <1>4, <1>5, LoopKeeps
<1>7. kept \in Seq(Items) /\ Within(kept, Len(s))
  BY <1>1, <1>6
<1>8. /\ TotalWeight(s, fixed) = w[Len(s)]
      /\ References(s) = ref[Len(s)] /\ ReferencesOwed(s) = owe[Len(s)]
  BY <1>2 DEF Running
<1> HIDE DEF kept
<1>9. /\ kept \in Seq(Items) /\ Len(kept) <= Len(s)
      /\ \A n \in DOMAIN kept : Eligible(kept[n].memory, target)
      /\ TotalWeight(kept, fixed) <= TotalWeight(s, fixed)
      /\ References(kept) <= References(s) /\ ReferencesOwed(kept) <= ReferencesOwed(s)
  BY <1>7, <1>8
<1> QED BY <1>9 DEF kept

\* The filtered package is sound for the same retrieval, holds only what may go
\* to the target, and is no longer for the provider.
LEMMA FilteredIsSound ==
    ASSUME NEW p, NEW found, Sound(p, found), NEW target
    PROVE  LET q == filter_context_package_for_target(p, target)
           IN  /\ Sound(q, found)
               /\ \A n \in DOMAIN q.items : Eligible(q.items[n].memory, target)
               /\ ProviderBytes(q.items) <= ProviderBytes(p.items)
<1> DEFINE kept == Kept(p.items, target)
           withheld == Len(p.items) - Len(kept)
           q == filter_context_package_for_target(p, target)
<1>1. p \in Packages /\ p.items \in Seq(Items) /\ p.included \in Nat /\ p.omitted \in Nat
      /\ p.policyOmitted \in Nat /\ p.referencesOmitted \in Nat
  BY DEF Sound, Packages
<1>2. /\ kept \in Seq(Items) /\ Len(kept) <= Len(p.items)
      /\ \A n \in DOMAIN kept : Eligible(kept[n].memory, target)
      /\ TotalWeight(kept, 0) <= TotalWeight(p.items, 0)
      /\ TotalWeight(kept, 1) <= TotalWeight(p.items, 1)
      /\ References(kept) <= References(p.items)
      /\ ReferencesOwed(kept) <= ReferencesOwed(p.items)
  <2>1. 0 \in Nat /\ 1 \in Nat
    OBVIOUS
  <2> QED BY <1>1, <2>1, KeptAre
<1>3. q = [p EXCEPT !.items = kept, !.included = p.included - withheld,
                    !.omitted = p.omitted + withheld,
                    !.policyOmitted = p.policyOmitted + withheld,
                    !.bytes = PackageBytes(kept)]
  BY DEF filter_context_package_for_target
<1> HIDE DEF kept, q
<1>4. /\ Len(p.items) \in Nat /\ Len(kept) \in Nat
      /\ TotalWeight(kept, 0) \in Nat /\ TotalWeight(kept, 1) \in Nat
      /\ TotalWeight(p.items, 0) \in Nat /\ TotalWeight(p.items, 1) \in Nat
      /\ References(kept) \in Nat /\ ReferencesOwed(kept) \in Nat
      /\ References(p.items) \in Nat /\ ReferencesOwed(p.items) \in Nat
      /\ PackageBytes(kept) \in Nat
  <2>1. Len(p.items) \in Nat /\ Len(kept) \in Nat
    BY <1>1, <1>2
  <2>2. ASSUME NEW s \in Seq(Items), NEW n \in Nat
        PROVE  /\ TotalWeight(s, n) \in Nat /\ References(s) \in Nat
               /\ ReferencesOwed(s) \in Nat /\ PackageBytes(s) \in Nat
    BY TotalsTyped
  <2>3. 0 \in Nat /\ 1 \in Nat
    OBVIOUS
  <2> QED BY <1>1, <1>2, <2>1, <2>2, <2>3
<1>5. /\ MaxItems \in Nat /\ MaxReferences \in Nat /\ MaxBytes \in Nat
      /\ PackageHeader \in Nat /\ ProviderHeader \in Nat
  BY BoundsAssumption
<1>6. withheld \in Nat /\ p.included - withheld = Len(kept)
  BY <1>1, <1>2, <1>4 DEF Sound
<1>7. p.omitted + withheld \in Nat /\ p.policyOmitted + withheld \in Nat
  <2>1. p.omitted \in Nat /\ p.policyOmitted \in Nat
    BY <1>1 DEF Packages
  <2> QED BY <1>6, <2>1, SMTT(40)
<1>8. q \in Packages
  BY <1>1, <1>2, <1>3, <1>4, <1>6, <1>7 DEF Packages
<1>9. /\ q.items = kept /\ q.included = p.included - withheld
      /\ q.omitted = p.omitted + withheld /\ q.policyOmitted = p.policyOmitted + withheld
      /\ q.bytes = PackageBytes(kept) /\ q.referencesOmitted = p.referencesOmitted
  BY <1>1, <1>3 DEF Packages
<1>10. /\ PackageBytes(kept) <= PackageBytes(p.items)
       /\ ProviderBytes(kept) <= ProviderBytes(p.items)
  BY <1>2, <1>4, <1>5 DEF PackageBytes, ProviderBytes
<1>11. PackageBytes(p.items) \in Nat /\ PackageBytes(p.items) <= MaxBytes
  BY <1>1, TotalsTyped DEF Sound
<1>12. /\ Len(kept) <= MaxItems /\ References(kept) <= MaxReferences
       /\ PackageBytes(kept) <= MaxBytes
  BY <1>2, <1>4, <1>5, <1>10, <1>11 DEF Sound
<1>13. /\ (p.included - withheld) + (p.omitted + withheld) = Len(found)
       /\ p.policyOmitted + withheld <= p.omitted + withheld
       /\ p.referencesOmitted >= ReferencesOwed(kept)
  <2>1. /\ p.included + p.omitted = Len(found) /\ p.policyOmitted <= p.omitted
        /\ p.referencesOmitted >= ReferencesOwed(p.items)
    BY DEF Sound
  <2> HIDE DEF withheld
  <2>2. (p.included - withheld) + (p.omitted + withheld) = p.included + p.omitted
    BY <1>1, <1>6, CountsMove, Zenon
  <2>3. p.policyOmitted + withheld <= p.omitted + withheld
    BY <1>1, <1>6, <2>1, CountsMove, Zenon
  <2>4. p.referencesOmitted >= ReferencesOwed(kept)
    BY <1>1, <1>2, <1>4, <2>1
  <2> QED BY <2>1, <2>2, <2>3, <2>4
<1>14. Sound(q, found)
  BY <1>6, <1>8, <1>9, <1>12, <1>13 DEF Sound
<1>15. \A n \in DOMAIN q.items : Eligible(q.items[n].memory, target)
  BY <1>2, <1>9
<1> QED BY <1>9, <1>10, <1>14, <1>15 DEF q

-----------------------------------------------------------------------------
(* Routing.                                                                *)

RoutableTargets ==
    [identity : Identities, managed : BOOLEAN, offered : BOOLEAN, target : Targets,
     window : Nat, maximum : Nat, capabilities : SUBSET STRING, grade : Nat,
     input : Nat \cup {Unpriced}, output : Nat \cup {Unpriced}, free : BOOLEAN]

\* A target of a canonicalized catalog is the route of its identity, or, for an
\* identity without one, its row.
LEMMA TargetsAre ==
    ASSUME NEW cat \in [Identities -> Rows \cup {Absent}], NEW t \in canonicalize_targets(cat)
    PROVE  /\ t \in RoutableTargets
           /\ \/ /\ t.identity \in DOMAIN Routes /\ t = RouteTarget(t.identity) /\ t.managed
              \/ /\ t.identity \in Identities \ DOMAIN Routes /\ cat[t.identity] \in Rows
                 /\ t = CatalogTarget(t.identity, cat[t.identity]) /\ ~t.managed
<1>1. ASSUME NEW i \in DOMAIN Routes, t = RouteTarget(i)
      PROVE  t \in RoutableTargets /\ t.identity = i /\ t.managed
  <2>1. Routes[i] \in ManagedRoutes /\ i \in Identities
    BY RouterAssumption
  <2> QED BY <1>1, <2>1 DEF RouteTarget, ManagedRoutes, RoutableTargets
<1>2. ASSUME NEW i \in Identities \ DOMAIN Routes, cat[i] # Absent,
             t = CatalogTarget(i, cat[i])
      PROVE  t \in RoutableTargets /\ t.identity = i /\ ~t.managed /\ cat[i] \in Rows
  <2>1. cat[i] \in Rows
    BY <1>2
  <2> QED BY <1>2, <2>1 DEF CatalogTarget, Rows, RoutableTargets
<1> QED BY <1>1, <1>2 DEF canonicalize_targets

\* Hence no identity has two.
LEMMA OneTargetEach ==
    ASSUME NEW cat \in [Identities -> Rows \cup {Absent}]
    PROVE  \A t, u \in canonicalize_targets(cat) : t.identity = u.identity => t = u
<1> SUFFICES ASSUME NEW t \in canonicalize_targets(cat), NEW u \in canonicalize_targets(cat),
                    t.identity = u.identity
             PROVE  t = u
  OBVIOUS
<1> QED BY TargetsAre

\* Of some candidates there is one whose component of the key is least.
LEMMA LeastCandidates ==
    ASSUME NEW M, M # {}, NEW f \in [M -> Nat]
    PROVE  {t \in M : \A u \in M : f[t] <= f[u]} # {}
<1> DEFINE T == {f[t] : t \in M}
<1>1. T \in SUBSET Nat /\ T # {}
  OBVIOUS
<1>2. PICK n \in T : \A m \in T : n <= m
  <2> HIDE DEF T
  <2> QED BY <1>1, LeastNatural
<1>3. PICK t \in M : f[t] = n
  OBVIOUS
<1>4. \A u \in M : f[t] <= f[u]
  BY <1>2, <1>3
<1> QED BY <1>4

\* A cost is a number, or the target has no price.
LEMMA CostIs ==
    ASSUME NEW t \in RoutableTargets, NEW data \in RoutingRequests
    PROVE  cost(t, data) \in Nat \cup {Unpriced}
<1>1. /\ t.input \in Nat \cup {Unpriced} /\ t.output \in Nat \cup {Unpriced}
      /\ data.context \in Nat /\ data.output \in Nat
  BY DEF RoutableTargets, RoutingRequests
<1>2. \A m, n \in Nat : m * n \in Nat
  OBVIOUS
<1>3. t.input # Unpriced => data.context * t.input \in Nat
  BY <1>1, <1>2
<1>4. t.output # Unpriced => data.output * t.output \in Nat
  BY <1>1, <1>2
<1>5. data.output # Unknown /\ t.output # Unpriced /\ t.input # Unpriced
      => data.context * t.input + data.output * t.output \in Nat
  BY <1>3, <1>4
<1>6. t.input # Unpriced => data.context * t.input + 0 \in Nat
  BY <1>3
<1> HIDE <1>2
<1> QED BY <1>5, <1>6 DEF cost

\* The key of a target: five numbers, the last of them its identity.
LEMMA KeyIs ==
    ASSUME NEW t \in RoutableTargets, NEW data \in RoutingRequests
    PROVE  LET k == rank_key(t, data)
           IN  /\ DOMAIN k = 1 .. 5
               /\ k[1] \in Nat /\ k[2] \in Nat /\ k[3] \in Nat /\ k[4] \in Nat /\ k[5] \in Nat
               /\ k[5] = t.identity
<1>1. cost(t, data) \in Nat \cup {Unpriced} /\ t.identity \in Nat
  BY CostIs, RouterAssumption DEF RoutableTargets
<1>2. (IF cost(t, data) = Unpriced THEN 0 ELSE cost(t, data)) \in Nat
  BY <1>1
<1> QED BY <1>1, <1>2 DEF rank_key

\* Precedes compares keys component by component.
LEMMA PrecedesWhere ==
    ASSUME NEW a, NEW b, DOMAIN a = 1 .. 5
    PROVE  Precedes(a, b) <=>
             \/ a[1] < b[1]
             \/ a[1] = b[1] /\ a[2] < b[2]
             \/ a[1] = b[1] /\ a[2] = b[2] /\ a[3] < b[3]
             \/ a[1] = b[1] /\ a[2] = b[2] /\ a[3] = b[3] /\ a[4] < b[4]
             \/ a[1] = b[1] /\ a[2] = b[2] /\ a[3] = b[3] /\ a[4] = b[4] /\ a[5] < b[5]
<1>1. /\ 1 .. 0 = {} /\ 1 .. 1 = {1} /\ 1 .. 2 = {1, 2} /\ 1 .. 3 = {1, 2, 3}
      /\ 1 .. 4 = {1, 2, 3, 4} /\ 1 .. 5 = {1, 2, 3, 4, 5}
  OBVIOUS
<1>2. 1 - 1 = 0 /\ 2 - 1 = 1 /\ 3 - 1 = 2 /\ 4 - 1 = 3 /\ 5 - 1 = 4
  OBVIOUS
<1>3. Precedes(a, b) <=>
        \E n \in {1, 2, 3, 4, 5} : a[n] < b[n] /\ \A m \in 1 .. n - 1 : a[m] = b[m]
  BY <1>1 DEF Precedes
<1> DEFINE At(n) == a[n] < b[n] /\ \A m \in 1 .. n - 1 : a[m] = b[m]
<1>4. /\ At(1) <=> a[1] < b[1]
      /\ At(2) <=> a[1] = b[1] /\ a[2] < b[2]
      /\ At(3) <=> a[1] = b[1] /\ a[2] = b[2] /\ a[3] < b[3]
      /\ At(4) <=> a[1] = b[1] /\ a[2] = b[2] /\ a[3] = b[3] /\ a[4] < b[4]
      /\ At(5) <=> a[1] = b[1] /\ a[2] = b[2] /\ a[3] = b[3] /\ a[4] = b[4] /\ a[5] < b[5]
  BY <1>1, <1>2
<1>5. Precedes(a, b) <=> At(1) \/ At(2) \/ At(3) \/ At(4) \/ At(5)
  BY <1>3
<1> HIDE DEF At
<1> QED BY <1>4, <1>5

\* A candidate precedes all others: minimise the components one after another.
LEMMA CheapestIs ==
    ASSUME NEW C \in SUBSET RoutableTargets, C # {},
           \A t, u \in C : t.identity = u.identity => t = u,
           NEW data \in RoutingRequests
    PROVE  /\ Cheapest(C, data) \in C
           /\ \A u \in C \ {Cheapest(C, data)} :
                 Precedes(rank_key(Cheapest(C, data), data), rank_key(u, data))
<1> DEFINE key(t) == rank_key(t, data)
           Least(M, n) == {t \in M : \A u \in M : key(t)[n] <= key(u)[n]}
           First(t) == \A u \in C \ {t} : Precedes(key(t), key(u))
<1>1. \A t \in C : /\ DOMAIN key(t) = 1 .. 5
                   /\ key(t)[1] \in Nat /\ key(t)[2] \in Nat /\ key(t)[3] \in Nat
                   /\ key(t)[4] \in Nat /\ key(t)[5] \in Nat /\ key(t)[5] = t.identity
  BY KeyIs
<1> HIDE DEF key
<1>2. ASSUME NEW M \in SUBSET C, M # {}, NEW n \in {1, 2, 3, 4, 5}
      PROVE  Least(M, n) # {} /\ Least(M, n) \subseteq M
  <2> DEFINE f == [t \in M |-> key(t)[n]]
  <2>1. f \in [M -> Nat]
    BY <1>1, <1>2
  <2>2. \A t \in M : f[t] = key(t)[n]
    OBVIOUS
  <2> HIDE DEF f
  <2>3. {t \in M : \A u \in M : f[t] <= f[u]} # {}
    BY <1>2, <2>1, LeastCandidates
  <2> QED BY <2>2, <2>3
<1> DEFINE M1 == Least(C, 1)
           M2 == Least(M1, 2)
           M3 == Least(M2, 3)
           M4 == Least(M3, 4)
           M5 == Least(M4, 5)
<1>3. M1 # {} /\ M1 \subseteq C
  BY <1>2
<1>4. M2 # {} /\ M2 \subseteq M1
  <2> HIDE DEF M1, Least
  <2> QED BY <1>2, <1>3
<1>5. M3 # {} /\ M3 \subseteq M2
  <2> HIDE DEF M1, M2, Least
  <2> QED BY <1>2, <1>3, <1>4
<1>6. M4 # {} /\ M4 \subseteq M3
  <2> HIDE DEF M1, M2, M3, Least
  <2> QED BY <1>2, <1>3, <1>4, <1>5
<1>7. M5 # {} /\ M5 \subseteq M4
  <2> HIDE DEF M1, M2, M3, M4, Least
  <2> QED BY <1>2, <1>3, <1>4, <1>5, <1>6
<1> HIDE DEF M1, M2, M3, M4, M5
<1>8. PICK t : t \in M5
  BY <1>7
<1>9. t \in C /\ t \in M1 /\ t \in M2 /\ t \in M3 /\ t \in M4
  BY <1>3, <1>4, <1>5, <1>6, <1>7, <1>8
<1>10. ASSUME NEW u \in C, u # t PROVE Precedes(key(t), key(u))
  <2>1. /\ key(t)[1] <= key(u)[1]
        /\ key(t)[1] = key(u)[1] => u \in M1
    BY <1>1, <1>9 DEF M1
  <2>2. u \in M1 => /\ key(t)[2] <= key(u)[2]
                    /\ key(t)[2] = key(u)[2] => u \in M2
    BY <1>1, <1>3, <1>9 DEF M2
  <2>3. u \in M2 => /\ key(t)[3] <= key(u)[3]
                    /\ key(t)[3] = key(u)[3] => u \in M3
    BY <1>1, <1>3, <1>4, <1>9 DEF M3
  <2>4. u \in M3 => /\ key(t)[4] <= key(u)[4]
                    /\ key(t)[4] = key(u)[4] => u \in M4
    BY <1>1, <1>3, <1>4, <1>5, <1>9 DEF M4
  <2>5. u \in M4 => key(t)[5] <= key(u)[5]
    BY <1>8 DEF M5
  <2>6. key(t)[5] # key(u)[5]
    BY <1>1, <1>9, <1>10
  <2>7. DOMAIN key(t) = 1 .. 5
    BY <1>1, <1>9
  <2>8. /\ key(t)[1] \in Nat /\ key(t)[2] \in Nat /\ key(t)[3] \in Nat
        /\ key(t)[4] \in Nat /\ key(t)[5] \in Nat
        /\ key(u)[1] \in Nat /\ key(u)[2] \in Nat /\ key(u)[3] \in Nat
        /\ key(u)[4] \in Nat /\ key(u)[5] \in Nat
    BY <1>1, <1>9
  <2>9. \/ key(t)[1] < key(u)[1]
        \/ key(t)[1] = key(u)[1] /\ key(t)[2] < key(u)[2]
        \/ key(t)[1] = key(u)[1] /\ key(t)[2] = key(u)[2] /\ key(t)[3] < key(u)[3]
        \/ /\ key(t)[1] = key(u)[1] /\ key(t)[2] = key(u)[2] /\ key(t)[3] = key(u)[3]
           /\ key(t)[4] < key(u)[4]
        \/ /\ key(t)[1] = key(u)[1] /\ key(t)[2] = key(u)[2] /\ key(t)[3] = key(u)[3]
           /\ key(t)[4] = key(u)[4] /\ key(t)[5] < key(u)[5]
    BY <2>1, <2>2, <2>3, <2>4, <2>5, <2>6, <2>8
  <2> QED BY <2>7, <2>9, PrecedesWhere
<1>11. First(t)
  BY <1>10
<1>12. Cheapest(C, data) = CHOOSE x \in C : First(x)
  BY DEF Cheapest, key
<1> HIDE DEF First
<1>13. (CHOOSE x \in C : First(x)) \in C /\ First(CHOOSE x \in C : First(x))
  BY <1>9, <1>11, Zenon
<1>14. Cheapest(C, data) \in C /\ First(Cheapest(C, data))
  BY <1>12, <1>13
<1> QED BY <1>14 DEF First, key

\* What simulate answers: no target when none is eligible, else one that is,
\* with the grade it is enforced at.
LEMMA SimulateIs ==
    ASSUME NEW cat \in [Identities -> Rows \cup {Absent}], NEW data \in RoutingRequests
    PROVE  LET C == EligibleTargets(cat, data)
               selected == simulate(cat, data).selected
           IN  /\ C \subseteq RoutableTargets
               /\ C = {} => selected = NoTarget
               /\ C # {} => \E t \in C :
                    /\ selected = [t EXCEPT !.grade = enforcement_grade(t)]
                    /\ selected # NoTarget
                    /\ \/ ~t.managed /\ t.identity = data.preferredModel
                       \/ \A u \in C \ {t} : Precedes(rank_key(t, data), rank_key(u, data))
<1> DEFINE C == EligibleTargets(cat, data)
           selected == simulate(cat, data).selected
<1>1. C \subseteq canonicalize_targets(cat)
  BY DEF EligibleTargets, Considered
<1>2. C \subseteq RoutableTargets /\ \A t, u \in C : t.identity = u.identity => t = u
  BY <1>1, TargetsAre, OneTargetEach
<1>3. C = {} => selected = NoTarget
  BY DEF simulate
<1>4. C # {} => selected = [Select(C, data) EXCEPT !.grade = enforcement_grade(Select(C, data))]
  BY DEF simulate
<1> HIDE DEF C, selected
<1>5. ASSUME C # {}
      PROVE  /\ Select(C, data) \in C
             /\ \/ ~Select(C, data).managed /\ Select(C, data).identity = data.preferredModel
                \/ \A u \in C \ {Select(C, data)} :
                      Precedes(rank_key(Select(C, data), data), rank_key(u, data))
  <2>1. CASE Preferred(C, data) # {}
    <3>1. Select(C, data) = CHOOSE t \in Preferred(C, data) : TRUE
      BY <2>1 DEF Select
    <3>2. (CHOOSE t \in Preferred(C, data) : TRUE) \in Preferred(C, data)
      BY <2>1
    <3>3. Select(C, data) \in Preferred(C, data)
      BY <3>1, <3>2
    <3> QED BY <3>3 DEF Preferred
  <2>2. CASE Preferred(C, data) = {}
    <3>1. Select(C, data) = Cheapest(C, data)
      BY <2>2 DEF Select
    <3> QED BY <1>2, <1>5, <3>1, CheapestIs
  <2> QED BY <2>1, <2>2
<1>6. ASSUME NEW t \in C, selected = [t EXCEPT !.grade = enforcement_grade(t)]
      PROVE  selected # NoTarget
  <2>1. selected.identity = t.identity /\ t.identity \in Identities
    BY <1>2, <1>6 DEF RoutableTargets
  <2>2. selected.identity # NoIdentity
    BY <2>1, RouterAssumption
  <2> QED BY <2>2 DEF NoTarget
<1>7. C # {} => \E t \in C :
         /\ selected = [t EXCEPT !.grade = enforcement_grade(t)]
         /\ selected # NoTarget
         /\ \/ ~t.managed /\ t.identity = data.preferredModel
            \/ \A u \in C \ {t} : Precedes(rank_key(t, data), rank_key(u, data))
  BY <1>4, <1>5, <1>6
<1> QED BY <1>2, <1>3, <1>7 DEF C, selected

\* A target that was chosen holds the context and has the capabilities.
LEMMA SelectedIs ==
    ASSUME NEW cat \in [Identities -> Rows \cup {Absent}], NEW data \in RoutingRequests,
           simulate(cat, data).selected # NoTarget
    PROVE  LET selected == simulate(cat, data).selected
           IN  /\ selected.window \in Nat /\ selected.maximum \in Nat
               /\ selected.window # Unknown => data.context <= selected.window
               /\ requirements(data) \subseteq selected.capabilities
<1> DEFINE selected == simulate(cat, data).selected
<1>1. PICK t \in EligibleTargets(cat, data) :
        /\ t \in RoutableTargets
        /\ selected = [t EXCEPT !.grade = enforcement_grade(t)]
  BY SimulateIs
<1>2. HoldsContext(t, data) /\ requirements(data) \subseteq t.capabilities
  BY <1>1 DEF EligibleTargets, Rejection
<1> HIDE DEF selected
<1>3. /\ selected.window = t.window /\ selected.maximum = t.maximum
      /\ selected.capabilities = t.capabilities
  BY <1>1 DEF RoutableTargets
<1>4. t.window \in Nat /\ t.maximum \in Nat /\ data.context \in Nat
  BY <1>1 DEF RoutableTargets, RoutingRequests
<1>5. t.window # Unknown => data.context <= t.window
  BY <1>2, <1>4 DEF HoldsContext
<1> QED BY <1>2, <1>3, <1>4, <1>5 DEF selected

\* The ranking of a request's candidates as their owner reads it.
LEMMA RankedCost ==
    ASSUME NEW t \in RoutableTargets, NEW u \in RoutableTargets, NEW data \in RoutingRequests,
           Precedes(rank_key(t, data), rank_key(u, data)), cost(u, data) # Unpriced
    PROVE  \/ data.policy = "PREFER_FREE" /\ ~u.free
           \/ cost(t, data) # Unpriced /\ cost(t, data) <= cost(u, data)
<1> DEFINE a == rank_key(t, data)
           b == rank_key(u, data)
<1>1. /\ DOMAIN a = 1 .. 5
      /\ cost(t, data) \in Nat \cup {Unpriced} /\ cost(u, data) \in Nat
      /\ a[3] \in Nat /\ b[3] \in Nat
  BY KeyIs, CostIs
<1>2. /\ a[1] = IF ~t.free /\ data.policy = "PREFER_FREE" THEN 1 ELSE 0
      /\ b[1] = IF ~u.free /\ data.policy = "PREFER_FREE" THEN 1 ELSE 0
      /\ a[2] = (IF cost(t, data) = Unpriced THEN 1 ELSE 0) /\ b[2] = 0
      /\ a[3] = (IF cost(t, data) = Unpriced THEN 0 ELSE cost(t, data))
      /\ b[3] = cost(u, data)
  BY DEF rank_key
<1> HIDE DEF a, b
<1>3. \/ a[1] < b[1]
      \/ a[1] = b[1] /\ a[2] < b[2]
      \/ a[1] = b[1] /\ a[2] = b[2] /\ a[3] <= b[3]
  <2>1. Precedes(a, b)
    BY DEF a, b
  <2> QED BY <1>1, <2>1, PrecedesWhere
<1>4. CASE a[1] < b[1]
  BY <1>2, <1>4
<1>5. CASE a[2] < b[2]
  BY <1>2, <1>5
<1>6. CASE a[2] = b[2] /\ a[3] <= b[3]
  BY <1>1, <1>2, <1>6
<1> QED BY <1>3, <1>4, <1>5, <1>6

-----------------------------------------------------------------------------
(* What RouteIsGuaranteed says of one request, in two halves.              *)

Meets(i, row, data) ==
    /\ row.status = "AVAILABLE"
    /\ row.window # Unknown /\ row.window >= data.context
    /\ requirements(data) \subseteq row.capabilities
    /\ IF i \in DOMAIN Qualifications /\ Qualifications[i].enabled
       THEN Qualifications[i].grade >= data.grade
       ELSE row.grade >= data.grade
    /\ data.policy = "FREE_ONLY" => row.free

Suits(selected, data) ==
    selected # NoTarget =>
        IF selected.identity \in DOMAIN Routes
        THEN LET own == Routes[selected.identity]
             IN  /\ own.enabled /\ own.grade >= data.grade
                 /\ requirements(data) \subseteq own.capabilities
        ELSE /\ Meets(selected.identity, catalog[selected.identity], data)
             /\ selected.grade >= data.grade

Outranks(selected, i, data) ==
    /\ selected # NoTarget
    /\ \/ data.policy = "PREFER_FREE" /\ selected.free
       \/ selected.identity = data.preferredModel
       \/ /\ cost(selected, data) # Unpriced
          /\ cost(selected, data) <= cost(CatalogTarget(i, catalog[i]), data)
       \/ data.policy = "PREFER_FREE" /\ ~catalog[i].free

\* A row is eligible exactly when it meets the request.
LEMMA RowEligible ==
    ASSUME CatalogTyped, NEW data \in RoutingRequests, NEW i \in Identities \ DOMAIN Routes,
           catalog[i] # Absent
    PROVE  LET t == CatalogTarget(i, catalog[i])
           IN  t \in EligibleTargets(catalog, data) <=>
                  Forced \in {NoIdentity, i} /\ Meets(i, catalog[i], data)
<1> DEFINE t == CatalogTarget(i, catalog[i])
<1>1. t \in canonicalize_targets(catalog)
  BY DEF canonicalize_targets
<1>2. catalog[i] \in Rows /\ data.grade \in Nat /\ data.context \in Nat
  BY DEF CatalogTyped, RoutingRequests
<1>3. /\ t.identity = i /\ t.managed = FALSE /\ t.offered = (catalog[i].status = "AVAILABLE")
      /\ t.window = catalog[i].window /\ t.capabilities = catalog[i].capabilities
      /\ t.grade = catalog[i].grade /\ t.free = catalog[i].free
  BY DEF CatalogTarget
<1>4. catalog[i].grade \in Nat /\ catalog[i].free \in BOOLEAN /\ catalog[i].window \in Nat
  BY <1>2 DEF Rows
<1> HIDE DEF t
<1>5. enforcement_grade(t) =
        IF i \in DOMAIN Qualifications /\ Qualifications[i].enabled
        THEN Qualifications[i].grade ELSE catalog[i].grade
  BY <1>3 DEF enforcement_grade, Qualified
<1>6. enforcement_grade(t) \in Nat
  BY <1>4, <1>5, RouterAssumption
<1>7. HoldsContext(t, data) <=> catalog[i].window # Unknown /\ catalog[i].window >= data.context
  BY <1>3 DEF HoldsContext
<1>8. (enforcement_grade(t) < data.grade) <=> ~(enforcement_grade(t) >= data.grade)
  BY <1>2, <1>6
<1>9. Rejection(t, data) = "NONE" <=>
        /\ HoldsContext(t, data) /\ requirements(data) \subseteq t.capabilities
        /\ ~(enforcement_grade(t) < data.grade)
        /\ ~(data.policy = "FREE_ONLY" /\ ~t.free)
  BY DEF Rejection
<1>10. t \in EligibleTargets(catalog, data) <=>
         t.offered /\ Forced \in {NoIdentity, t.identity} /\ Rejection(t, data) = "NONE"
  BY <1>1 DEF EligibleTargets, Considered
<1> QED BY <1>3, <1>5, <1>7, <1>8, <1>9, <1>10 DEF t, Meets

\* A selected target meets the request by its own declaration.
LEMMA SelectedSuits ==
    ASSUME CatalogTyped, NEW data \in RoutingRequests
    PROVE  Suits(simulate(catalog, data).selected, data)
<1> DEFINE selected == simulate(catalog, data).selected
<1> SUFFICES ASSUME selected # NoTarget PROVE Suits(selected, data)
  BY DEF Suits
<1>1. catalog \in [Identities -> Rows \cup {Absent}]
  BY DEF CatalogTyped
<1>2. PICK t \in EligibleTargets(catalog, data) :
        /\ t \in RoutableTargets
        /\ selected = [t EXCEPT !.grade = enforcement_grade(t)]
  BY <1>1, SimulateIs
<1> HIDE DEF selected
<1>3. selected.identity = t.identity /\ selected.grade = enforcement_grade(t)
  BY <1>2 DEF RoutableTargets
<1>4. t \in canonicalize_targets(catalog) /\ t.offered /\ Rejection(t, data) = "NONE"
  BY <1>2 DEF EligibleTargets, Considered
<1>5. requirements(data) \subseteq t.capabilities /\ ~(enforcement_grade(t) < data.grade)
  BY <1>4 DEF Rejection
<1>6. data.grade \in Nat
  BY DEF RoutingRequests
<1>7. CASE t.identity \in DOMAIN Routes /\ t = RouteTarget(t.identity)
  <2>1. Routes[t.identity] \in ManagedRoutes
    BY <1>7, RouterAssumption
  <2>2. /\ t.grade = Routes[t.identity].grade /\ t.managed
        /\ t.offered = Routes[t.identity].enabled
        /\ t.capabilities = Routes[t.identity].capabilities
    BY <1>7 DEF RouteTarget
  <2>3. enforcement_grade(t) = Routes[t.identity].grade
    BY <2>2 DEF enforcement_grade, Qualified
  <2>4. Routes[t.identity].grade \in Nat
    BY <2>1 DEF ManagedRoutes
  <2> QED BY <1>3, <1>4, <1>5, <1>6, <1>7, <2>2, <2>3, <2>4 DEF Suits
<1>8. CASE /\ t.identity \in Identities \ DOMAIN Routes /\ catalog[t.identity] \in Rows
           /\ t = CatalogTarget(t.identity, catalog[t.identity])
  <2>1. catalog[t.identity] # Absent
    BY <1>8, RowsAre
  <2>2. Meets(t.identity, catalog[t.identity], data)
    BY <1>2, <1>8, <2>1, RowEligible
  <2>3. enforcement_grade(t) \in Nat
    <3>1. t.grade \in Nat
      BY <1>2 DEF RoutableTargets
    <3> QED BY <3>1, RouterAssumption DEF enforcement_grade, Qualified
  <2>4. enforcement_grade(t) >= data.grade
    BY <1>5, <1>6, <2>3
  <2> QED BY <1>3, <1>8, <2>2, <2>4 DEF Suits
<1> QED BY <1>1, <1>4, <1>7, <1>8, TargetsAre

\* And no catalog row that also does has a lower known cost, unless the request
\* prefers the selected one.
LEMMA SelectedOutranks ==
    ASSUME CatalogTyped, NEW data \in RoutingRequests, NEW i \in Identities \ DOMAIN Routes,
           Forced \in {NoIdentity, i}, catalog[i] # Absent, Meets(i, catalog[i], data),
           cost(CatalogTarget(i, catalog[i]), data) # Unpriced
    PROVE  Outranks(simulate(catalog, data).selected, i, data)
<1> DEFINE selected == simulate(catalog, data).selected
           u == CatalogTarget(i, catalog[i])
           C == EligibleTargets(catalog, data)
<1>1. catalog \in [Identities -> Rows \cup {Absent}]
  BY DEF CatalogTyped
<1>2. u \in C /\ C \subseteq RoutableTargets
  BY <1>1, RowEligible, SimulateIs
<1>3. PICK t \in C :
        /\ selected = [t EXCEPT !.grade = enforcement_grade(t)] /\ selected # NoTarget
        /\ \/ ~t.managed /\ t.identity = data.preferredModel
           \/ \A x \in C \ {t} : Precedes(rank_key(t, data), rank_key(x, data))
  BY <1>1, <1>2, SimulateIs
<1>4. u.free = catalog[i].free
  BY DEF CatalogTarget
<1>5. cost(u, data) \in Nat
  BY <1>2, CostIs
<1> SUFFICES Outranks(selected, i, data)
  OBVIOUS
<1> HIDE DEF selected, u, C
<1>6. /\ selected.identity = t.identity /\ selected.free = t.free
      /\ selected.input = t.input /\ selected.output = t.output
  BY <1>2, <1>3 DEF RoutableTargets
<1>7. cost(selected, data) = cost(t, data)
  BY <1>6 DEF cost
<1>8. cost(u, data) # Unpriced
  BY DEF u
<1>9. CASE t.identity = data.preferredModel
  BY <1>3, <1>6, <1>9 DEF Outranks
<1>10. CASE t = u
  BY <1>3, <1>5, <1>7, <1>8, <1>10 DEF Outranks, u
<1>11. CASE t # u /\ Precedes(rank_key(t, data), rank_key(u, data))
  <2>1. \/ data.policy = "PREFER_FREE" /\ ~u.free
        \/ cost(t, data) # Unpriced /\ cost(t, data) <= cost(u, data)
    BY <1>2, <1>8, <1>11, RankedCost
  <2> QED BY <1>3, <1>4, <1>7, <2>1 DEF Outranks, u
<1> QED BY <1>2, <1>3, <1>9, <1>10, <1>11

\* Both halves, for every request.
LEMMA GuaranteeHolds == CatalogTyped => RouteIsGuaranteed
<1> SUFFICES ASSUME CatalogTyped PROVE RouteIsGuaranteed
  OBVIOUS
<1>1. Queries \subseteq RoutingRequests
  BY PreparationAssumption
<1>2. \A data \in Queries : Suits(simulate(catalog, data).selected, data)
  BY <1>1, SelectedSuits
<1>3. \A data \in Queries : \A i \in Identities \ DOMAIN Routes :
         /\ Forced \in {NoIdentity, i}
         /\ catalog[i] # Absent /\ Meets(i, catalog[i], data)
         /\ cost(CatalogTarget(i, catalog[i]), data) # Unpriced
         => Outranks(simulate(catalog, data).selected, i, data)
  BY <1>1, SelectedOutranks
<1> QED BY <1>2, <1>3, Zenon DEF RouteIsGuaranteed, Suits, Outranks, Meets

-----------------------------------------------------------------------------
(* The contract and the budget.                                            *)

\* The constraints that count are the first ones of the request.
LEMMA ContextualIs ==
    ASSUME NEW s \in Seq(Constraints)
    PROVE  /\ Contextual(s) \in Seq(Constraints)
           /\ DOMAIN Contextual(s) \subseteq DOMAIN s
           /\ \A n \in DOMAIN Contextual(s) : Contextual(s)[n] = s[n]
<1> DEFINE n == Min({MaxConstraints, Len(s)})
<1>1. n \in 0 .. Len(s) /\ Len(s) \in Nat
  BY ContractAssumption, MinTwo
<1>2. Contextual(s) = SubSeq(s, 1, n)
  BY DEF Contextual
<1> HIDE DEF n
<1>3. /\ SubSeq(s, 1, n) \in Seq(Constraints) /\ DOMAIN SubSeq(s, 1, n) = 1 .. n
      /\ \A k \in 1 .. n : SubSeq(s, 1, n)[k] = s[k]
  BY <1>1
<1>4. DOMAIN s = 1 .. Len(s)
  OBVIOUS
<1> QED BY <1>1, <1>2, <1>3, <1>4

\* A constraint whose list has its node for itself, and whose bound the answer
\* keeps, leaves a schema that admits the answer.
LEMMA ConstraintAdmits ==
    ASSUME NEW acc \in [Nodes -> [minItems : Nat, maxItems : Nat]], NEW result \in Results,
           NEW constraint \in Constraints, constraint.path \in Paths,
           \A p \in Paths : NodeOf[p] = NodeOf[constraint.path] => p = constraint.path,
           constraint_value_is_valid(constraint, result[constraint.path]),
           SchemaAdmits(acc, result)
    PROVE  /\ apply_schema_constraint(acc, constraint) \in [Nodes -> [minItems : Nat, maxItems : Nat]]
           /\ SchemaAdmits(apply_schema_constraint(acc, constraint), result)
<1> DEFINE node == NodeOf[constraint.path]
           v == constraint.value
           new == apply_schema_constraint(acc, constraint)
<1>1. node \in Nodes /\ v \in Nat /\ \A p \in Paths : NodeOf[p] \in Nodes
  BY DEF Nodes, Constraints
<1>2. /\ acc[node] \in [minItems : Nat, maxItems : Nat]
      /\ result[constraint.path] \in Nat
      /\ acc[node].minItems <= result[constraint.path]
      /\ result[constraint.path] <= acc[node].maxItems
  BY <1>1, ContractAssumption DEF SchemaAdmits, Results
<1>3. \E b \in [minItems : Nat, maxItems : Nat] :
        /\ new = [acc EXCEPT ![node] = b]
        /\ b.minItems <= result[constraint.path] /\ result[constraint.path] <= b.maxItems
  <2>1. CASE constraint.kind = "EXACT_ITEMS"
    <3> DEFINE b == [minItems |-> v, maxItems |-> v]
    <3>1. new = [acc EXCEPT ![node] = b]
      BY <2>1 DEF apply_schema_constraint
    <3>2. result[constraint.path] = v
      BY <2>1 DEF constraint_value_is_valid
    <3>3. b \in [minItems : Nat, maxItems : Nat] /\ b.minItems = v /\ b.maxItems = v /\ v <= v
      BY <1>1
    <3> HIDE DEF new, b
    <3> QED BY <3>1, <3>2, <3>3
  <2>2. CASE constraint.kind = "MIN_ITEMS"
    <3> DEFINE b == [acc[node] EXCEPT !.minItems = v]
    <3>1. new = [acc EXCEPT ![node] = b]
      BY <2>2 DEF apply_schema_constraint
    <3>2. result[constraint.path] >= v
      BY <2>2 DEF constraint_value_is_valid
    <3>3. /\ b \in [minItems : Nat, maxItems : Nat]
          /\ b.minItems = v /\ b.maxItems = acc[node].maxItems
      BY <1>1, <1>2
    <3> HIDE DEF new, b, node
    <3> QED BY <1>1, <1>2, <3>1, <3>2, <3>3
  <2>3. CASE constraint.kind = "MAX_ITEMS"
    <3> DEFINE b == [acc[node] EXCEPT !.maxItems = v]
    <3>1. new = [acc EXCEPT ![node] = b]
      BY <2>3 DEF apply_schema_constraint
    <3>2. result[constraint.path] <= v
      BY <2>3 DEF constraint_value_is_valid
    <3>3. /\ b \in [minItems : Nat, maxItems : Nat]
          /\ b.maxItems = v /\ b.minItems = acc[node].minItems
      BY <1>1, <1>2
    <3> HIDE DEF new, b, node
    <3> QED BY <1>1, <1>2, <3>1, <3>2, <3>3
  <2>4. CASE constraint.kind = "EMPTY"
    <3> DEFINE b == [acc[node] EXCEPT !.maxItems = 0]
    <3>1. new = [acc EXCEPT ![node] = b]
      BY <2>4 DEF apply_schema_constraint
    <3>2. result[constraint.path] = 0
      BY <2>4 DEF constraint_value_is_valid
    <3>3. /\ b \in [minItems : Nat, maxItems : Nat]
          /\ b.maxItems = 0 /\ b.minItems = acc[node].minItems
      BY <1>1, <1>2
    <3> HIDE DEF new, b, node
    <3>4. result[constraint.path] <= b.maxItems
      BY <3>2, <3>3
    <3>5. b.minItems <= result[constraint.path]
      BY <1>2, <3>3
    <3> QED BY <3>1, <3>3, <3>4, <3>5
  <2> QED BY <2>1, <2>2, <2>3, <2>4 DEF Constraints
<1>4. PICK b \in [minItems : Nat, maxItems : Nat] :
        /\ new = [acc EXCEPT ![node] = b]
        /\ b.minItems <= result[constraint.path] /\ result[constraint.path] <= b.maxItems
  BY <1>3
<1> HIDE DEF new
<1>5. new \in [Nodes -> [minItems : Nat, maxItems : Nat]]
  BY <1>1, <1>4
<1>6. ASSUME NEW p \in Paths
      PROVE  new[NodeOf[p]].minItems <= result[p] /\ result[p] <= new[NodeOf[p]].maxItems
  <2>1. CASE NodeOf[p] = node
    BY <1>1, <1>4, <2>1
  <2>2. CASE NodeOf[p] # node
    BY <1>1, <1>4, <2>2 DEF SchemaAdmits
  <2> QED BY <2>1, <2>2
<1>7. SchemaAdmits(new, result)
  BY <1>6 DEF SchemaAdmits
<1> QED BY <1>5, <1>7 DEF new

\* Hence the compiled schema admits what the validation accepts.
LEMMA CompiledAdmits ==
    ASSUME ListsApart, NEW r \in Requests, Representable(r.constraints), NEW result \in Results,
           validate_result_shape(result, r.constraints)
    PROVE  SchemaAdmits(compile_contract(r.constraints), result) /\ SchemaAdmits(BaseSchema, result)
<1> DEFINE s == Contextual(r.constraints)
           Schemas == {acc \in [Nodes -> [minItems : Nat, maxItems : Nat]] :
                          SchemaAdmits(acc, result)}
           T == [n \in 0 .. Len(s) |-> Schemas]
<1>1. r.constraints \in Seq(Constraints)
  BY PreparationAssumption
<1>2. /\ s \in Seq(Constraints)
      /\ \A n \in DOMAIN s : s[n] = r.constraints[n]
  BY <1>1, ContextualIs
<1>3. /\ Len(s) \in Nat /\ DOMAIN s = 1 .. Len(s)
      /\ \A n \in 1 .. Len(s) : s[n] \in Constraints
  <2> HIDE DEF s
  <2> QED BY <1>2
<1>4. \A n \in 1 .. Len(s) :
        /\ s[n].path \in Paths
        /\ \A p \in Paths : NodeOf[p] = NodeOf[s[n].path] => p = s[n].path
        /\ constraint_value_is_valid(s[n], result[s[n].path])
  BY <1>2, <1>3 DEF ListsApart, Representable, validate_result_shape
<1>5. BaseSchema \in Schemas
  <2>1. BaseSchema \in [Nodes -> [minItems : Nat, maxItems : Nat]]
    BY ContractAssumption DEF BaseSchema
  <2>2. ASSUME NEW p \in Paths
        PROVE  /\ BaseSchema[NodeOf[p]].minItems <= result[p]
               /\ result[p] <= BaseSchema[NodeOf[p]].maxItems
    <3>1. NodeOf[p] \in Nodes /\ result[p] \in 0 .. BaseMaximum
      BY DEF Nodes, Results
    <3> QED BY <3>1, ContractAssumption DEF BaseSchema
  <2> QED BY <2>1, <2>2 DEF SchemaAdmits
<1>6. ASSUME NEW k \in 1 .. Len(s), NEW acc \in T[k - 1]
      PROVE  Turn(<<"constrain">>, acc, s[k]) \in T[k]
  <2>1. k - 1 \in 0 .. Len(s) /\ k \in 0 .. Len(s)
    BY <1>3
  <2>2. acc \in Schemas
    BY <2>1
  <2>3. Turn(<<"constrain">>, acc, s[k]) = apply_schema_constraint(acc, s[k])
    BY DEF Turn
  <2> HIDE DEF s
  <2>4. apply_schema_constraint(acc, s[k]) \in Schemas
    BY <1>3, <1>4, <2>2, ConstraintAdmits
  <2> HIDE DEF Schemas
  <2> QED BY <2>1, <2>3, <2>4
<1>7. Unfolds(<<"constrain">>, BaseSchema, s, compile_contract(r.constraints))
  BY <1>2, ConstrainingUnfolds DEF compile_contract
<1>8. compile_contract(r.constraints) \in Schemas
  <2>1. 0 \in 0 .. Len(s) /\ Len(s) \in 0 .. Len(s)
    BY <1>3
  <2>2. BaseSchema \in T[0]
    BY <1>5, <2>1
  <2>3. compile_contract(r.constraints) \in T[Len(s)]
    <3> HIDE DEF T, s
    <3> QED BY <1>3, <1>6, <1>7, <2>2, LoopKeeps
  <2> HIDE DEF Schemas, s
  <2> QED BY <2>1, <2>3
<1> QED BY <1>5, <1>8

\* Neither budget is empty or leaves its limits, and the second is no smaller.
LEMMA BudgetsAre ==
    ASSUME NEW maximum \in Nat, NEW expected \in Nat
    PROVE  LET first == select_output_budget(expected, maximum, FALSE)
               second == select_output_budget(expected, maximum, TRUE)
           IN  /\ 1 <= first /\ first <= second /\ second <= SafetyCeiling
               /\ maximum # Unknown => second <= maximum
<1> DEFINE ceiling == IF maximum = 0 THEN SafetyCeiling ELSE Min({maximum, SafetyCeiling})
           Cut(n) == Max({1, Min({n, ceiling})})
<1>1. SafetyCeiling \in Nat \ {0}
  BY ContractAssumption
<1>2. /\ ceiling \in Nat /\ 1 <= ceiling /\ ceiling <= SafetyCeiling
      /\ maximum # 0 => ceiling <= maximum
  BY <1>1, MinTwo
<1>3. \A n \in Nat : Widened(n) \in Nat /\ n <= Widened(n)
  BY DEF Widened
<1> HIDE DEF ceiling
<1>4. ASSUME NEW m \in Nat, NEW n \in Nat, m <= n
      PROVE  1 <= Cut(m) /\ Cut(m) <= Cut(n) /\ Cut(n) <= ceiling
  <2>1. /\ Min({m, ceiling}) = IF m <= ceiling THEN m ELSE ceiling
        /\ Min({n, ceiling}) = IF n <= ceiling THEN n ELSE ceiling
    BY <1>2, MinTwo
  <2>2. /\ Cut(m) = IF 1 >= Min({m, ceiling}) THEN 1 ELSE Min({m, ceiling})
        /\ Cut(n) = IF 1 >= Min({n, ceiling}) THEN 1 ELSE Min({n, ceiling})
    BY <1>2, <2>1, MaxTwo
  <2> HIDE DEF Cut
  <2> QED BY <1>2, <1>4, <2>1, <2>2
<1>5. /\ Widened(expected) \in Nat /\ Widened(Widened(expected)) \in Nat
      /\ Widened(expected) <= Widened(Widened(expected))
  BY <1>3
<1>6. /\ select_output_budget(expected, maximum, FALSE) = Cut(Widened(expected))
      /\ select_output_budget(expected, maximum, TRUE) = Cut(Widened(Widened(expected)))
  BY DEF select_output_budget, ceiling
<1> HIDE DEF Cut
<1>7. Cut(Widened(expected)) \in Int /\ Cut(Widened(Widened(expected))) \in Int
  <2>1. ASSUME NEW n \in Nat PROVE Cut(n) \in Int
    <3>1. Min({n, ceiling}) \in Int
      BY <1>2, MinTwo
    <3> QED BY <3>1, MaxTwo DEF Cut
  <2> QED BY <1>5, <2>1
<1>8. /\ 1 <= Cut(Widened(expected))
      /\ Cut(Widened(expected)) <= Cut(Widened(Widened(expected)))
      /\ Cut(Widened(Widened(expected))) <= ceiling
  BY <1>4, <1>5
<1>9. /\ Cut(Widened(Widened(expected))) <= SafetyCeiling
      /\ maximum # 0 => Cut(Widened(Widened(expected))) <= maximum
  BY <1>1, <1>2, <1>7, <1>8
<1> QED BY <1>6, <1>8, <1>9 DEF Unknown

-----------------------------------------------------------------------------
(* The preparation.                                                        *)

\* What the routed model is known to offer the request.
Routed ==
    LET selected == route.selected
    IN  /\ selected.window \in Nat /\ selected.maximum \in Nat
        /\ selected.window # Unknown =>
             ContextOverhead + (IF request.memory THEN ProviderBytes(package.items) ELSE 0)
                <= selected.window
        /\ request.structured => "structured_output" \in selected.capabilities
        /\ request.memory =>
             \A n \in DOMAIN package.items : Eligible(package.items[n].memory, selected.target)

\* The stored memories are valid; past each of its steps, execute has the
\* schema, the package and the route it computed there.
Prepared ==
    /\ store \subseteq Stored /\ IsFiniteSet(store)
    /\ request \in Requests
    /\ pc \in {"compile", "retrieve", "route", "plan", "ready"} \cup
              (Failures \ {"native_structured_output_required"})
    /\ pc \in {"retrieve", "route", "plan", "ready"} =>
         Representable(request.constraints) /\ schema = compile_contract(request.constraints)
    /\ pc \in {"route", "plan", "ready"} /\ request.memory =>
         Sound(package, results) /\ Projectable(package)
    /\ pc \in {"plan", "ready"} => Routed

PreparationInv == CatalogInv /\ Prepared

\* The steps of execute one by one.  Before the first, nothing is computed.
LEMMA PreparationBegins == Init => PreparationInv
<1> SUFFICES ASSUME Init PROVE PreparationInv
  OBVIOUS
<1>1. CatalogInv
  BY CatalogBegins DEF Init
<1>2. store \subseteq Stored /\ IsFiniteSet(store)
  BY FS_EmptySet DEF Init
<1>3. request \in Requests /\ pc = "compile"
  BY DEF Init
<1> QED BY <1>1, <1>2, <1>3 DEF PreparationInv, Prepared

\* Memories may be stored at any time; what was computed does not look again.
LEMMA CreateMemoryKeeps ==
    ASSUME PreparationInv, NEW memory \in Memories, create_memory(memory)
    PROVE  PreparationInv'
<1>1. /\ store' = store \cup {memory} /\ memory \in Stored
      /\ catalog' = catalog /\ refresh' = refresh
      /\ request' = request /\ pc' = pc /\ schema' = schema /\ results' = results
      /\ package' = package /\ route' = route
  BY DEF create_memory, catalogVars, preparation, Stored
<1>2. store' \subseteq Stored /\ IsFiniteSet(store')
  BY <1>1, FS_AddElement DEF PreparationInv, Prepared
<1>3. CatalogInv'
  BY <1>1 DEF PreparationInv, CatalogInv, CatalogTyped, UpsertsHeld, StaleHeld, Holds, Seen
<1> QED BY <1>1, <1>2, <1>3 DEF PreparationInv, Prepared, Routed

\* So may the catalog change: the route was read before.
LEMMA RefreshKeeps ==
    ASSUME PreparationInv, NEW r \in Refreshers, Refresh(r)
    PROVE  PreparationInv'
<1>1. CatalogInv'
  BY RefreshHeld DEF PreparationInv, Refresh
<1>2. /\ store' = store /\ request' = request /\ pc' = pc /\ schema' = schema
      /\ results' = results /\ package' = package /\ route' = route
  BY DEF Refresh, preparation
<1> QED BY <1>1, <1>2 DEF PreparationInv, Prepared, Routed

\* A request whose constraints cannot be represented stops here.
LEMMA CompileKeeps ==
    ASSUME PreparationInv, CompileContract
    PROVE  PreparationInv'
<1>1. /\ catalog' = catalog /\ refresh' = refresh /\ store' = store /\ request' = request
  BY DEF CompileContract, catalogVars
<1>2. CatalogInv'
  BY <1>1 DEF PreparationInv, CatalogInv, CatalogTyped, UpsertsHeld, StaleHeld, Holds, Seen
<1>3. CASE /\ Representable(request.constraints)
           /\ schema' = compile_contract(request.constraints)
           /\ pc' = IF request.memory THEN "retrieve" ELSE "route"
  <2>1. pc' \in {"retrieve", "route"} /\ (pc' = "route" => ~request.memory)
    BY <1>3
  <2> QED BY <1>1, <1>2, <1>3, <2>1 DEF PreparationInv, Prepared
<1>4. CASE pc' = "raised"
  BY <1>1, <1>2, <1>4 DEF PreparationInv, Prepared, Failures
<1> QED BY <1>3, <1>4 DEF CompileContract

\* The package is assembled from one retrieval.
LEMMA RetrieveKeeps ==
    ASSUME PreparationInv, RetrieveContext
    PROVE  PreparationInv'
<1>1. /\ catalog' = catalog /\ refresh' = refresh /\ store' = store /\ request' = request
      /\ schema' = schema /\ pc = "retrieve"
  BY DEF RetrieveContext, catalogVars
<1>2. CatalogInv'
  BY <1>1 DEF PreparationInv, CatalogInv, CatalogTyped, UpsertsHeld, StaleHeld, Holds, Seen
<1> DEFINE found == retrieve_memories(store, request)
           full == assemble_context_package(found)
<1>3. CASE Projectable(full) /\ results' = found /\ package' = full /\ pc' = "route"
  <2>1. found \in Seq(Stored)
    BY RetrievedAre DEF PreparationInv, Prepared
  <2>2. Sound(full, found)
    BY <2>1, AssembledIsSound
  <2> HIDE DEF full, found
  <2>3. Sound(package', results') /\ Projectable(package')
    BY <1>3, <2>2
  <2>4. Sound(package, results)' /\ Projectable(package)'
    BY <2>3 DEF Sound, Projectable
  <2> QED BY <1>1, <1>2, <1>3, <2>4 DEF PreparationInv, Prepared
<1>4. CASE pc' = "memory_context_unavailable"
  BY <1>1, <1>2, <1>4 DEF PreparationInv, Prepared, Failures
<1> QED BY <1>3, <1>4 DEF RetrieveContext

\* What the router is asked, and that it is asked for the whole context.
LEMMA RoutingRequestIs ==
    ASSUME Prepared, pc = "route"
    PROVE  /\ routing_request \in RoutingRequests
           /\ ContextOverhead + (IF request.memory THEN ProviderBytes(package.items) ELSE 0)
                <= routing_request.context
           /\ request.structured => "structured_output" \in requirements(routing_request)
<1> DEFINE own == ContextOverhead + (IF request.memory THEN ProviderBytes(package.items) ELSE 0)
<1>1. request \in Requests /\ ContextOverhead \in Nat /\ ExpectedOutput \in Nat
  BY PreparationAssumption DEF Prepared
<1>2. /\ request.minimumContext \in Nat /\ request.capabilities \in SUBSET STRING
      /\ request.tools \in BOOLEAN /\ request.structured \in BOOLEAN /\ request.grade \in Nat
  BY <1>1, PreparationAssumption
<1>3. request.memory => ProviderBytes(package.items) \in Nat
  BY TotalsTyped DEF Prepared, Sound, Packages
<1>4. own \in Nat
  BY <1>1, <1>3
<1>5. ContextEstimate = Max({request.minimumContext, own})
  BY DEF ContextEstimate
<1> HIDE DEF own
<1>6. ContextEstimate \in Nat /\ own <= ContextEstimate
  BY <1>2, <1>4, <1>5, MaxTwo
<1>7. routing_request \in RoutingRequests
  BY <1>1, <1>2, <1>6 DEF routing_request, RoutingRequests, NoIdentity
<1>8. routing_request.context = ContextEstimate /\ routing_request.structured = request.structured
  BY DEF routing_request
<1>9. request.structured => "structured_output" \in requirements(routing_request)
  BY <1>8 DEF requirements
<1> QED BY <1>6, <1>7, <1>8, <1>9 DEF own

\* The route holds the context it was asked for; the filter then makes it
\* smaller.
LEMMA RouteKeeps ==
    ASSUME PreparationInv, RouteModel
    PROVE  PreparationInv'
<1> DEFINE outcome == simulate(catalog, routing_request)
           selected == outcome.selected
<1>1. /\ catalog' = catalog /\ refresh' = refresh /\ store' = store /\ request' = request
      /\ schema' = schema /\ results' = results /\ pc = "route" /\ route' = outcome
  BY DEF RouteModel, catalogVars
<1>2. CatalogInv'
  BY <1>1 DEF PreparationInv, CatalogInv, CatalogTyped, UpsertsHeld, StaleHeld, Holds, Seen
<1>3. CASE pc' \in {"contract_enforcement_unsatisfied", "no_suitable_model"}
  BY <1>1, <1>2, <1>3 DEF PreparationInv, Prepared, Failures
<1>4. CASE /\ selected # NoTarget /\ pc' = "plan"
           /\ package' = IF request.memory
                         THEN filter_context_package_for_target(package, selected.target)
                         ELSE package
  <2>1. Prepared /\ catalog \in [Identities -> Rows \cup {Absent}]
    BY DEF PreparationInv, CatalogInv, CatalogTyped
  <2>2. /\ routing_request \in RoutingRequests
        /\ ContextOverhead + (IF request.memory THEN ProviderBytes(package.items) ELSE 0)
             <= routing_request.context
        /\ request.structured => "structured_output" \in requirements(routing_request)
    BY <1>1, <2>1, RoutingRequestIs
  <2>3. /\ selected.window \in Nat /\ selected.maximum \in Nat
        /\ selected.window # Unknown => routing_request.context <= selected.window
        /\ requirements(routing_request) \subseteq selected.capabilities
    BY <1>4, <2>1, <2>2, SelectedIs
  <2>4. routing_request.context \in Nat /\ ContextOverhead \in Nat
    BY <2>2, PreparationAssumption DEF RoutingRequests
  <2>5. route'.selected = selected
    BY <1>1
  <2> HIDE DEF selected, outcome
  <2>6. CASE request.memory
    <3>1. Sound(package, results) /\ Projectable(package)
      BY <1>1, <2>1, <2>6 DEF Prepared
    <3> DEFINE q == filter_context_package_for_target(package, selected.target)
    <3>2. /\ Sound(q, results)
          /\ \A n \in DOMAIN q.items : Eligible(q.items[n].memory, selected.target)
          /\ ProviderBytes(q.items) <= ProviderBytes(package.items)
      BY <3>1, FilteredIsSound
    <3>3. package' = q
      BY <1>4, <2>6
    <3> HIDE DEF q
    <3>4. /\ ProviderBytes(q.items) \in Nat /\ ProviderBytes(package.items) \in Nat
          /\ MaxBytes \in Nat
      BY <3>1, <3>2, TotalsTyped, BoundsAssumption DEF Sound, Packages
    <3>5. Sound(package', results') /\ Projectable(package')
      BY <1>1, <3>1, <3>2, <3>3, <3>4 DEF Projectable
    <3>6. (Sound(package, results) /\ Projectable(package))'
      BY <3>5 DEF Sound, Projectable
    <3>7. selected.window # Unknown => ContextOverhead + ProviderBytes(q.items) <= selected.window
      BY <2>2, <2>3, <2>4, <2>6, <3>2, <3>4
    <3>8. Routed'
      BY <1>1, <2>2, <2>3, <2>5, <2>6, <3>2, <3>3, <3>7 DEF Routed
    <3> QED BY <1>1, <1>2, <1>4, <2>1, <3>6, <3>8 DEF PreparationInv, Prepared
  <2>7. CASE ~request.memory
    <3>1. selected.window # Unknown => ContextOverhead + 0 <= selected.window
      BY <2>2, <2>3, <2>4, <2>7
    <3>2. Routed'
      BY <1>1, <2>2, <2>3, <2>5, <2>7, <3>1 DEF Routed
    <3> QED BY <1>1, <1>2, <1>4, <2>1, <2>7, <3>2 DEF PreparationInv, Prepared
  <2> QED BY <2>6, <2>7
<1> QED BY <1>3, <1>4 DEF RouteModel

\* Planning changes nothing it reads.
LEMMA PlanKeeps ==
    ASSUME PreparationInv, SelectPlan
    PROVE  PreparationInv'
<1>1. /\ catalog' = catalog /\ refresh' = refresh /\ store' = store /\ request' = request
      /\ schema' = schema /\ results' = results /\ package' = package /\ route' = route
      /\ pc = "plan"
  BY DEF SelectPlan, catalogVars
<1>2. CatalogInv'
  BY <1>1 DEF PreparationInv, CatalogInv, CatalogTyped, UpsertsHeld, StaleHeld, Holds, Seen
<1>3. strategy # NoStrategy
  <2>1. request.structured => "structured_output" \in route.selected.capabilities
    BY <1>1 DEF PreparationInv, Prepared, Routed
  <2> QED BY <2>1 DEF strategy, select_generation_strategy, NoStrategy
<1>4. pc' = "ready"
  BY <1>3 DEF SelectPlan
<1> QED BY <1>1, <1>2, <1>4 DEF PreparationInv, Prepared, Routed

\* Hence every step keeps the invariant.
LEMMA PreparationKept == PreparationInv /\ [Next]_vars => PreparationInv'
<1> SUFFICES ASSUME PreparationInv, [Next]_vars PROVE PreparationInv'
  OBVIOUS
<1>1. CASE Next
  BY <1>1, CreateMemoryKeeps, RefreshKeeps, CompileKeeps, RetrieveKeeps, RouteKeeps, PlanKeeps
     DEF Next
<1>2. CASE UNCHANGED vars
  <2>1. CatalogInv'
    BY <1>2 DEF vars, PreparationInv, CatalogInv, CatalogTyped, UpsertsHeld, StaleHeld, Holds, Seen
  <2> QED BY <1>2, <2>1 DEF vars, PreparationInv, Prepared, Routed
<1> QED BY <1>1, <1>2

-----------------------------------------------------------------------------
(* The results.                                                            *)

\* Whatever other requests do meanwhile, execute has at each of its steps the
\* schema, the package and the route its earlier steps computed, only valid
\* memories are stored, and every refresh holds the rows it is to commit.
THEOREM PreparationInvariant == Spec => []PreparationInv
BY PreparationBegins, PreparationKept, PTL DEF Spec

\* A memory that is local, or RESTRICTED, reaches no remote model: the filter
\* runs on what was retrieved before the target was known.
THEOREM NothingDisclosed == Spec => []NoDisclosure
<1>1. PreparationInv => NoDisclosure
  <2> SUFFICES ASSUME PreparationInv, pc \in {"plan", "ready"},
                      NEW n \in DOMAIN generation_request.memory,
                      \/ generation_request.memory[n].memory.access = "LOCAL_ONLY"
                      \/ generation_request.memory[n].memory.sensitivity = "RESTRICTED"
               PROVE  route.selected.target = "LOCAL"
    BY DEF NoDisclosure
  <2>1. request.memory /\ n \in DOMAIN package.items
        /\ generation_request.memory = package.items
    <3>1. generation_request.memory = IF request.memory THEN package.items ELSE <<>>
      BY DEF generation_request
    <3>2. DOMAIN <<>> = {}
      OBVIOUS
    <3> QED BY <3>1, <3>2
  <2>2. Routed /\ Sound(package, results)
    BY <2>1 DEF PreparationInv, Prepared
  <2>3. Eligible(package.items[n].memory, route.selected.target)
    BY <2>1, <2>2 DEF Routed
  <2>4. package.items \in Seq(Items)
    BY <2>2 DEF Sound, Packages
  <2>5. package.items[n] \in Items
    BY <2>1, <2>4
  <2>6. package.items[n].memory \in Stored
    BY <2>5, ItemsAre
  <2>7. package.items[n].memory.access # "LOCAL_AND_REMOTE"
    BY <2>1, <2>6 DEF Stored, ValidMemory
  <2> QED BY <2>3, <2>7 DEF Eligible
<1> QED BY <1>1, PreparationInvariant, PTL

\* The package is within its bounds and its counts are true, before the filter
\* and after it.
THEOREM PackageBounded == Spec => []ContextIsBounded
<1>1. PreparationInv => ContextIsBounded
  <2> SUFFICES ASSUME PreparationInv, pc \in {"route", "plan", "ready"}, request.memory
               PROVE  /\ Len(package.items) <= MaxItems
                      /\ References(package.items) <= MaxReferences
                      /\ \A n \in DOMAIN package.items :
                            package.items[n].retained <= MaxReferencesPerItem
                      /\ package.bytes <= MaxBytes /\ Projectable(package)
                      /\ package.included = Len(package.items)
                      /\ package.included + package.omitted = Len(results)
                      /\ package.policyOmitted <= package.omitted
                      /\ package.referencesOmitted >= ReferencesOwed(package.items)
    BY DEF ContextIsBounded
  <2>1. Sound(package, results) /\ Projectable(package)
    BY DEF PreparationInv, Prepared
  <2>2. package.items \in Seq(Items)
    BY <2>1 DEF Sound, Packages
  <2>3. \A n \in DOMAIN package.items : package.items[n] \in Items
    BY <2>2
  <2>4. \A n \in DOMAIN package.items : package.items[n].retained <= MaxReferencesPerItem
    BY <2>3, ItemsAre
  <2> QED BY <2>1, <2>4 DEF Sound
<1> QED BY <1>1, PreparationInvariant, PTL

\* Where no constrained list shares its node of the schema, the plan made for
\* the routed model is one it can keep.
THEOREM PlanKept == ListsApart => (Spec => []PlanIsConsistent)
<1> SUFFICES ASSUME ListsApart PROVE Spec => []PlanIsConsistent
  OBVIOUS
<1>1. PreparationInv => PlanIsConsistent
  <2> SUFFICES ASSUME PreparationInv PROVE PlanIsConsistent
    OBVIOUS
  <2>1. pc # "native_structured_output_required"
    BY DEF PreparationInv, Prepared
  <2> DEFINE selected == route.selected
             first == generation_request.tokens
             recovery == budget(TRUE)
  <2>2. ASSUME pc = "ready"
        PROVE  /\ selected.window # Unknown =>
                     ContextOverhead + (IF request.memory
                        THEN ProviderBytes(package.items) ELSE 0) <= selected.window
               /\ \A result \in Results :
                     validate_result_shape(result, request.constraints)
                         => SchemaAdmits(generation_request.schema, result)
               /\ 1 <= first /\ first <= recovery /\ recovery <= SafetyCeiling
               /\ selected.maximum # Unknown => recovery <= selected.maximum
    <3>1. /\ Routed /\ request \in Requests /\ Representable(request.constraints)
          /\ schema = compile_contract(request.constraints)
      BY <2>2 DEF PreparationInv, Prepared
    <3>2. generation_request.schema \in {schema, BaseSchema}
      BY DEF generation_request
    <3>3. \A result \in Results :
             validate_result_shape(result, request.constraints)
                 => SchemaAdmits(generation_request.schema, result)
      BY <3>1, <3>2, CompiledAdmits
    <3>4. first = select_output_budget(ExpectedOutput, selected.maximum, FALSE)
      BY DEF generation_request, budget
    <3>5. recovery = select_output_budget(ExpectedOutput, selected.maximum, TRUE)
      BY DEF budget
    <3>6. ExpectedOutput \in Nat /\ selected.maximum \in Nat
      BY <3>1, PreparationAssumption DEF Routed
    <3>7. /\ 1 <= first /\ first <= recovery /\ recovery <= SafetyCeiling
          /\ selected.maximum # Unknown => recovery <= selected.maximum
      BY <3>4, <3>5, <3>6, BudgetsAre
    <3> QED BY <3>1, <3>3, <3>7 DEF Routed
  <2> QED BY <2>1, <2>2, Zenon DEF PlanIsConsistent
<1> QED BY <1>1, PreparationInvariant, PTL

\* In every catalog the refreshes can leave, routing chooses a target that
\* meets the request, and a cheapest one of those that do.
THEOREM RouteGuaranteed == Spec => []RouteIsGuaranteed
<1>1. PreparationInv => RouteIsGuaranteed
  BY GuaranteeHolds DEF PreparationInv, CatalogInv
<1> QED BY <1>1, PreparationInvariant, PTL

\* What a commit shows: the rows written for the listing, and STALE for every
\* row the last statement selected.
LEMMA CommitShows ==
    ASSUME CatalogInv, NEW r \in Refreshers, CommitRefresh(r)
    PROVE  /\ \A n \in DOMAIN refresh[r].listing :
                 catalog'[refresh[r].listing[n].identity] = CatalogRow(refresh[r].listing[n])
           /\ \A i \in refresh[r].snapshot : catalog'[i].status = "STALE"
<1> DEFINE txn == refresh[r]
<1>1. /\ CatalogTyped /\ Len(txn.listing) \in Nat /\ DOMAIN txn.listing = 1 .. Len(txn.listing)
      /\ \A n \in DOMAIN txn.listing : txn.listing[n] \in Models
      /\ txn \in Transactions
  BY TransactionIs DEF CatalogInv
<1>2. /\ txn.pc = "staling" /\ txn.todo = {}
      /\ catalog' = [i \in Identities |-> Seen(r, i)]
  BY DEF CommitRefresh
<1>3. /\ txn.next = Len(txn.listing) + 1
      /\ \A i \in txn.snapshot : Holds(r, i) /\ txn.writes[i].status = "STALE"
      /\ \A n \in 1 .. txn.next - 1 :
            /\ Holds(r, txn.listing[n].identity)
            /\ txn.writes[txn.listing[n].identity] = CatalogRow(txn.listing[n])
  BY <1>2 DEF CatalogInv, UpsertsHeld, StaleHeld
<1>4. ASSUME NEW n \in DOMAIN txn.listing
      PROVE  catalog'[txn.listing[n].identity] = CatalogRow(txn.listing[n])
  <2>1. txn.listing[n].identity \in Identities
    BY <1>1 DEF Models
  <2>2. n \in 1 .. txn.next - 1
    BY <1>1, <1>3
  <2> QED BY <1>2, <1>3, <2>1, <2>2 DEF Seen
<1>5. ASSUME NEW i \in txn.snapshot PROVE catalog'[i].status = "STALE"
  <2>1. i \in Identities
    BY <1>1 DEF Transactions
  <2> QED BY <1>2, <1>3, <2>1 DEF Seen
<1> QED BY <1>4, <1>5

\* A refresh commits exactly what the provider answered it, whatever the
\* others commit between its statements, and an aborted one nothing.
THEOREM CommitsSnapshot == Spec => RefreshIsSnapshot
<1> DEFINE Snapshot ==
      \A r \in Refreshers :
        /\ refresh[r].pc # "done" /\ refresh'[r].pc = "done" =>
             /\ \A n \in DOMAIN refresh[r].listing :
                   LET model == refresh[r].listing[n]
                   IN  catalog'[model.identity] = CatalogRow(model)
             /\ \A i \in refresh[r].snapshot : catalog'[i].status = "STALE"
        /\ refresh[r].pc # "failed" /\ refresh'[r].pc = "failed"
             => catalog' = catalog
<1>1. PreparationInv /\ [Next]_vars => [Snapshot]_vars
  <2> SUFFICES ASSUME PreparationInv, Next, NEW r \in Refreshers
               PROVE  /\ refresh[r].pc # "done" /\ refresh'[r].pc = "done" =>
                           /\ \A n \in DOMAIN refresh[r].listing :
                                 catalog'[refresh[r].listing[n].identity]
                                     = CatalogRow(refresh[r].listing[n])
                           /\ \A i \in refresh[r].snapshot : catalog'[i].status = "STALE"
                      /\ refresh[r].pc # "failed" /\ refresh'[r].pc = "failed"
                           => catalog' = catalog
    OBVIOUS
  <2>1. CatalogInv /\ CatalogTyped
    BY DEF PreparationInv, CatalogInv
  <2>2. CASE UNCHANGED catalogVars
    BY <2>2 DEF catalogVars
  <2>3. ASSUME NEW q \in Refreshers, refresh_provider(q), q # r
        PROVE  refresh'[r] = refresh[r]
    BY <2>1, <2>3 DEF CatalogTyped, refresh_provider, ListModels, UpsertModel, StartStaling,
                      MarkStale, CommitRefresh, RollbackRefresh
  <2>4. CASE CommitRefresh(r)
    <3>1. refresh'[r].pc = "done"
      BY <2>1, <2>4, TransactionIs DEF CommitRefresh, CatalogTyped, Transactions
    <3> QED BY <2>1, <2>4, <3>1, CommitShows
  <2>5. ASSUME refresh_provider(r), ~CommitRefresh(r)
        PROVE  catalog' = catalog /\ (refresh'[r].pc = "done" => refresh[r].pc = "done")
    <3>1. catalog' = catalog
      BY <2>5 DEF refresh_provider, ListModels, UpsertModel, StartStaling, MarkStale,
                  RollbackRefresh
    <3>2. CASE ListModels(r)
      <4>1. \/ refresh'[r] = Aborted(refresh[r])
            \/ \E listing \in Listings :
                 refresh'[r] = [refresh[r] EXCEPT !.pc = "upserting", !.listing = listing]
        BY <2>1, <3>2 DEF ListModels, CatalogTyped
      <4>2. refresh'[r].pc \in {"failed", "upserting"}
        BY <2>1, <4>1, IdleIs, TransactionIs DEF Transactions
      <4> QED BY <3>1, <4>2
    <3>3. CASE UpsertModel(r)
      <4>1. refresh'[r].pc = refresh[r].pc
        BY <2>1, <3>3, UpsertModelHeld
      <4> QED BY <3>1, <4>1
    <3>4. CASE StartStaling(r)
      <4>1. refresh'[r].pc = "staling"
        BY <2>1, <3>4, TransactionIs DEF StartStaling, CatalogTyped, Transactions
      <4> QED BY <3>1, <4>1
    <3>5. CASE MarkStale(r)
      <4>1. refresh'[r].pc = refresh[r].pc
        BY <2>1, <3>5, MarkStaleHeld
      <4> QED BY <3>1, <4>1
    <3>6. CASE RollbackRefresh(r)
      <4>1. refresh'[r] = Aborted(refresh[r])
        BY <2>1, <3>6 DEF RollbackRefresh, CatalogTyped
      <4>2. refresh'[r].pc = "failed"
        BY <4>1, IdleIs
      <4> QED BY <3>1, <4>2
    <3> QED BY <2>5, <3>1, <3>2, <3>3, <3>4, <3>5, <3>6 DEF refresh_provider
  <2>6. UNCHANGED catalogVars \/ \E q \in Refreshers : refresh_provider(q)
    BY DEF Next, create_memory, Refresh, CompileContract, RetrieveContext, RouteModel, SelectPlan
  <2> QED BY <2>2, <2>3, <2>4, <2>5, <2>6
<1> QED BY <1>1, PreparationInvariant, PTL DEF Spec, RefreshIsSnapshot

=============================================================================
