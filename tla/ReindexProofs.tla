---------------------------- MODULE ReindexProofs ----------------------------
(***************************************************************************)
(* Lemmas about the operators of Reindex: how many positions of a set lie  *)
(* below a position, what picking the positions of a set out of a vector   *)
(* gives, and where the items of a vector stand once it is reorganised.    *)
(***************************************************************************)
EXTENDS Reindex, FiniteSetTheorems, NaturalsInduction, WellFoundedInduction, TLAPS

(***************************************************************************)
(* Induction, as the existence of a least counterexample.                  *)
(***************************************************************************)
LessThan == {ss \in Nat \X Nat : ss[1] < ss[2]}

LEMMA LessThanWellFounded == IsWellFoundedOn(LessThan, Nat)
<1>1. LessThan = OpToRel(<, Nat)
  BY Zenon DEF OpToRel, LessThan
<1> QED
  BY <1>1, NatLessThanWellFounded

LEMMA LeastElement ==
    ASSUME NEW T \in SUBSET Nat, T # {}
    PROVE  \E m \in T : \A k \in T : m <= k
<1>1. PICK m \in T : \A k \in T : <<k, m>> \notin LessThan
  BY LessThanWellFounded, WFMin
<1>2. m \in Nat /\ \A k \in T : k \in Nat
  OBVIOUS
<1>3. \A k \in T : ~(k < m)
  BY <1>1, <1>2 DEF LessThan
<1>4. \A k \in T : m <= k
  BY <1>2, <1>3
<1> QED
  BY <1>4

(***************************************************************************)
(* Counting the positions of a set.                                        *)
(***************************************************************************)
LEMMA BelowFacts ==
    ASSUME NEW n \in Nat, NEW S \in SUBSET (1 .. n)
    PROVE  /\ IsFiniteSet(S) /\ Cardinality(S) \in Nat
           /\ \A p \in Int : Below(S, p) \in 0 .. Cardinality(S)
           /\ \A p \in S : Below(S, p + 1) = Below(S, p) + 1
           /\ \A p \in Int \ S : Below(S, p + 1) = Below(S, p)
           /\ Below(S, 1) = 0 /\ Below(S, n + 1) = Cardinality(S)
<1>0. \A q \in S : q \in Nat /\ 1 <= q /\ q <= n
  OBVIOUS
<1>1. IsFiniteSet(S) /\ Cardinality(S) \in Nat
  <2>1. IsFiniteSet(1 .. n)
    BY FS_Interval
  <2>2. IsFiniteSet(S)
    BY <2>1, FS_Subset
  <2> QED
    BY <2>2, FS_CardinalityType
<1>2. \A p \in Int : Below(S, p) \in 0 .. Cardinality(S)
  <2> TAKE p \in Int
  <2>1. {q \in S : q < p} \in SUBSET S
    OBVIOUS
  <2>2. /\ IsFiniteSet({q \in S : q < p})
        /\ Cardinality({q \in S : q < p}) <= Cardinality(S)
    BY <1>1, <2>1, FS_Subset
  <2>3. Cardinality({q \in S : q < p}) \in Nat
    BY <2>2, FS_CardinalityType
  <2> QED
    BY <1>1, <2>2, <2>3 DEF Below
<1>3. \A p \in S : Below(S, p + 1) = Below(S, p) + 1
  <2> TAKE p \in S
  <2>1. {q \in S : q < p + 1} = {q \in S : q < p} \cup {p}
    <3>1. \A q \in S : q < p + 1 <=> q < p \/ q = p
      BY <1>0
    <3> QED
      BY <3>1, Zenon
  <2>2. IsFiniteSet({q \in S : q < p}) /\ p \notin {q \in S : q < p}
    BY <1>1, FS_Subset
  <2> QED
    BY <2>1, <2>2, FS_AddElement DEF Below
<1>4. \A p \in Int \ S : Below(S, p + 1) = Below(S, p)
  <2> TAKE p \in Int \ S
  <2>1. {q \in S : q < p + 1} = {q \in S : q < p}
    <3>1. \A q \in S : q < p + 1 <=> q < p
      BY <1>0
    <3> QED
      BY <3>1, Zenon
  <2> QED
    BY <2>1 DEF Below
<1>5. Below(S, 1) = 0
  <2>1. {q \in S : q < 1} = {}
    <3>1. \A q \in S : ~(q < 1)
      BY <1>0
    <3> QED
      BY <3>1, Zenon
  <2> QED
    BY <2>1, FS_EmptySet DEF Below
<1>6. Below(S, n + 1) = Cardinality(S)
  <2>1. {q \in S : q < n + 1} = S
    <3>1. \A q \in S : q < n + 1
      BY <1>0
    <3> QED
      BY <3>1, Zenon
  <2> QED
    BY <2>1 DEF Below
<1> QED
  BY <1>1, <1>2, <1>3, <1>4, <1>5, <1>6

\* Below grows at the positions of the set: it numbers them, from 0, in order.
LEMMA BelowMonotone ==
    ASSUME NEW n \in Nat, NEW S \in SUBSET (1 .. n), NEW p \in S, NEW q \in Int, p < q
    PROVE  Below(S, p) < Below(S, q)
<1>0. \A x \in S : x \in Nat /\ 1 <= x /\ x <= n
  OBVIOUS
<1>1. p \in Int /\ Below(S, p + 1) = Below(S, p) + 1 /\ Below(S, p) \in Int
  BY BelowFacts
<1>2. {x \in S : x < p + 1} \in SUBSET {x \in S : x < q}
  <2>1. \A x \in S : x < p + 1 => x < q
    BY <1>0
  <2> QED
    BY <2>1, Zenon
<1>3. IsFiniteSet({x \in S : x < q})
  BY BelowFacts, FS_Subset
<1>4. Below(S, p + 1) <= Below(S, q)
  BY <1>2, <1>3, FS_Subset DEF Below
<1>5. Cardinality(S) \in Nat /\ Below(S, q) \in 0 .. Cardinality(S)
  BY BelowFacts
<1> QED
  BY <1>1, <1>4, <1>5

LEMMA BelowNumbers ==
    ASSUME NEW n \in Nat, NEW S \in SUBSET (1 .. n)
    PROVE  /\ \A p \in S : Below(S, p) + 1 \in 1 .. Cardinality(S)
           /\ \A p, q \in S : Below(S, p) = Below(S, q) => p = q
           /\ \A k \in 1 .. Cardinality(S) : \E p \in S : Below(S, p) + 1 = k
<1>1. \A p \in S : p \in Int /\ p < n + 1
  OBVIOUS
<1>2. \A p \in S : Below(S, p) + 1 \in 1 .. Cardinality(S)
  <2> TAKE p \in S
  <2>1. Below(S, p) < Below(S, n + 1)
    BY <1>1, BelowMonotone
  <2> QED
    BY <1>1, <2>1, BelowFacts
<1>3. \A p, q \in S : Below(S, p) = Below(S, q) => p = q
  <2>1. \A p, q \in S : p < q => Below(S, p) < Below(S, q)
    BY <1>1, BelowMonotone
  <2>2. \A p \in S : Below(S, p) \in Int
    BY <1>1, BelowFacts
  <2> QED
    BY <1>1, <2>1, <2>2
<1> DEFINE f == [p \in S |-> Below(S, p) + 1]
<1>4. f \in Injection(S, 1 .. Cardinality(S))
  <2>1. \A p \in S : Below(S, p) \in Int
    BY <1>1, BelowFacts
  <2>2. \A p, q \in S : f[p] = f[q] => p = q
    BY <1>3, <2>1
  <2>3. f \in [S -> 1 .. Cardinality(S)]
    BY <1>2
  <2> QED
    BY <2>2, <2>3 DEF Injection, IsInjective
<1>5. Cardinality(S) \in Nat
  BY BelowFacts
<1>6. IsFiniteSet(1 .. Cardinality(S)) /\ Cardinality(1 .. Cardinality(S)) = Cardinality(S)
  BY <1>5, FS_Interval
<1>7. f \in Surjection(S, 1 .. Cardinality(S))
  BY <1>4, <1>6, FS_Injection
<1>8. \A k \in 1 .. Cardinality(S) : \E p \in S : Below(S, p) + 1 = k
  BY <1>7 DEF Surjection
<1> QED
  BY <1>2, <1>3, <1>8

\* The same for the positions of a vector.
LEMMA PositionsBelow ==
    ASSUME NEW X, NEW v \in Seq(X), NEW S \in SUBSET (1 .. Len(v))
    PROVE  /\ Len(v) \in Nat /\ IsFiniteSet(S) /\ Cardinality(S) \in Nat
           /\ \A p \in S : p \in 1 .. Len(v) /\ p \in Int
           /\ \A p \in Int : Below(S, p) \in 0 .. Cardinality(S)
           /\ \A p \in Int : Below(S, p) \in Nat
           /\ \A p \in S : Below(S, p) \in Nat
           /\ \A p \in S : Below(S, p + 1) = Below(S, p) + 1
           /\ \A p \in Int \ S : Below(S, p + 1) = Below(S, p)
           /\ Below(S, 1) = 0 /\ Below(S, Len(v) + 1) = Cardinality(S)
           /\ \A p \in S, q \in Int : p < q => Below(S, p) < Below(S, q)
           /\ \A p \in S : Below(S, p) + 1 \in 1 .. Cardinality(S)
           /\ \A p, q \in S : Below(S, p) = Below(S, q) => p = q
           /\ \A k \in 1 .. Cardinality(S) : \E p \in S : Below(S, p) + 1 = k
<1>1. Len(v) \in Nat /\ \A p \in S : p \in 1 .. Len(v) /\ p \in Int
  OBVIOUS
<1>2. /\ IsFiniteSet(S) /\ Cardinality(S) \in Nat
      /\ \A p \in Int : Below(S, p) \in 0 .. Cardinality(S)
      /\ \A p \in S : Below(S, p + 1) = Below(S, p) + 1
      /\ \A p \in Int \ S : Below(S, p + 1) = Below(S, p)
      /\ Below(S, 1) = 0 /\ Below(S, Len(v) + 1) = Cardinality(S)
  BY <1>1, BelowFacts, Zenon
<1>3. \A p \in Int : Below(S, p) \in Nat
  BY <1>2
<1>4. \A p \in S, q \in Int : p < q => Below(S, p) < Below(S, q)
  BY <1>1, BelowMonotone, Zenon
<1>5. /\ \A p \in S : Below(S, p) + 1 \in 1 .. Cardinality(S)
      /\ \A p, q \in S : Below(S, p) = Below(S, q) => p = q
      /\ \A k \in 1 .. Cardinality(S) : \E p \in S : Below(S, p) + 1 = k
  BY <1>1, BelowNumbers, Zenon
<1> QED
  BY <1>1, <1>2, <1>3, <1>4, <1>5, Zenon

\* Sets that correspond one to one have the same size, and when the correspondence keeps
\* the order, corresponding positions have as many positions below them.
LEMMA OneToOneCounts ==
    ASSUME NEW S, IsFiniteSet(S), NEW T, NEW f \in [S -> T],
           \A p, q \in S : f[p] = f[q] => p = q,
           \A t \in T : \E p \in S : f[p] = t
    PROVE  Cardinality(T) = Cardinality(S)
<1>1. f \in Bijection(S, T)
  BY DEF Bijection, Injection, Surjection, IsInjective
<1>2. ExistsBijection(S, T)
  BY <1>1, Zenon DEF ExistsBijection
<1> QED
  BY <1>2, FS_Bijection

LEMMA MonotoneCounts ==
    ASSUME NEW n \in Nat, NEW S \in SUBSET (1 .. n), NEW m \in Nat, NEW T \in SUBSET (1 .. m),
           NEW f \in [S -> T],
           \A p, q \in S : p < q => f[p] < f[q],
           \A t \in T : \E p \in S : f[p] = t
    PROVE  \A p \in S : Below(T, f[p]) = Below(S, p)
<1>1. /\ \A p \in S : p \in Int /\ f[p] \in T
      /\ \A t \in T : t \in Int
  OBVIOUS
<1>2. /\ \A p \in S : f[p] \in Int
      /\ \A x, y \in Int : x < y => ~(y < x) /\ x # y
  <2>1. \A p \in S : f[p] \in Int
    BY <1>1
  <2>2. \A x, y \in Int : x < y => ~(y < x) /\ x # y
    OBVIOUS
  <2> QED
    BY <2>1, <2>2
<1>3. \A p, q \in S : f[p] < f[q] => p < q
  <2> SUFFICES ASSUME NEW p \in S, NEW q \in S, f[p] < f[q], ~(p < q) PROVE FALSE
    OBVIOUS
  <2>1. p = q \/ q < p
    BY <1>1
  <2>2. ~(f[q] < f[p]) /\ f[p] # f[q]
    BY <1>2
  <2> QED
    BY <2>1, <2>2
<1>4. \A p, q \in S : f[p] = f[q] => p = q
  <2> SUFFICES ASSUME NEW p \in S, NEW q \in S, f[p] = f[q], p # q PROVE FALSE
    OBVIOUS
  <2>1. p < q \/ q < p
    BY <1>1
  <2>2. f[p] < f[q] \/ f[q] < f[p]
    BY <2>1
  <2> QED
    BY <1>2, <2>2
<1>5. ASSUME NEW p \in S
      PROVE  Below(T, f[p]) = Below(S, p)
  <2> DEFINE A == {q \in S : q < p}
             B == {t \in T : t < f[p]}
             g == [q \in A |-> f[q]]
  <2>1. IsFiniteSet(A)
    BY BelowFacts, FS_Subset
  <2>2. g \in [A -> B]
    BY <1>1
  <2>3. \A q, r \in A : g[q] = g[r] => q = r
    BY <1>4
  <2>4. \A t \in B : \E q \in A : g[q] = t
    <3> TAKE t \in B
    <3>1. PICK q \in S : f[q] = t
      OBVIOUS
    <3>2. q < p
      BY <1>3, <3>1
    <3> QED
      BY <3>1, <3>2
  <2>5. Cardinality(B) = Cardinality(A)
    <3> HIDE DEF A, B, g
    <3> QED
      BY <2>1, <2>2, <2>3, <2>4, OneToOneCounts
  <2> QED
    BY <2>5 DEF Below
<1> QED
  BY <1>5

(***************************************************************************)
(* Pick: the loop builds, after n items, the picked ones among the first   *)
(* n, and so gives the item at a position p of S the place Below(S, p).    *)
(***************************************************************************)
PickStep(g, v, S) ==
    [n \in 0 .. Len(v) |->
        IF n = 0 THEN <<>>
        ELSE IF n \in S THEN Append(g[n - 1], v[n]) ELSE g[n - 1]]
Picked(v, S, n) ==
    [k \in 1 .. Below(S, n + 1) |-> v[CHOOSE p \in S : Below(S, p) + 1 = k]]

LEMMA PickedStep ==
    ASSUME NEW X, NEW v \in Seq(X), NEW S \in SUBSET (1 .. Len(v))
    PROVE  LET g == [n \in 0 .. Len(v) |-> Picked(v, S, n)] IN g = PickStep(g, v, S)
<1> DEFINE g == [n \in 0 .. Len(v) |-> Picked(v, S, n)]
<1>0. /\ Len(v) \in Nat /\ \A p \in S : Below(S, p) \in Nat
      /\ \A p \in Int : Below(S, p) \in Nat
      /\ \A p \in S : Below(S, p + 1) = Below(S, p) + 1
      /\ \A p \in Int \ S : Below(S, p + 1) = Below(S, p)
      /\ Below(S, 1) = 0
      /\ \A p, q \in S : Below(S, p) = Below(S, q) => p = q
  BY PositionsBelow
<1>1. Picked(v, S, 0) = <<>>
  <2>1. Below(S, 0 + 1) = 0
    BY <1>0
  <2> QED
    BY <2>1 DEF Picked
<1>2. ASSUME NEW n \in 1 .. Len(v), n \in S
      PROVE  Picked(v, S, n) = Append(Picked(v, S, n - 1), v[n])
  <2>1. /\ Below(S, n) \in Nat /\ Below(S, n + 1) = Below(S, n) + 1 /\ n - 1 + 1 = n
    BY <1>0, <1>2
  <2>2. Picked(v, S, n - 1) = [k \in 1 .. Below(S, n) |-> v[CHOOSE p \in S : Below(S, p) + 1 = k]]
    BY <2>1 DEF Picked
  <2>3. Picked(v, S, n) =
            [k \in 1 .. Below(S, n) + 1 |-> v[CHOOSE p \in S : Below(S, p) + 1 = k]]
    BY <2>1 DEF Picked
  <2>4. (CHOOSE p \in S : Below(S, p) + 1 = Below(S, n) + 1) = n
    <3>1. \A p \in S : Below(S, p) \in Int
      BY <1>0
    <3>2. \A p \in S : Below(S, p) + 1 = Below(S, n) + 1 => p = n
      BY <1>0, <1>2, <2>1, <3>1, BelowNumbers
    <3> QED
      BY <1>2, <3>2
  <2> DEFINE b == Below(S, n)
             w == [k \in 1 .. b |-> v[CHOOSE p \in S : Below(S, p) + 1 = k]]
             x == v[n]
  <2>5. Append(w, x) = [k \in 1 .. b + 1 |-> IF k = b + 1 THEN x ELSE w[k]]
    <3>1. b \in Nat
      BY <2>1
    <3> HIDE DEF b, x
    <3> QED
      BY <3>1
  <2> QED
    BY <2>1, <2>2, <2>3, <2>4, <2>5
<1>3. ASSUME NEW n \in 1 .. Len(v), n \notin S
      PROVE  Picked(v, S, n) = Picked(v, S, n - 1)
  <2>1. Below(S, n + 1) = Below(S, n) /\ n - 1 + 1 = n
    BY <1>0, <1>3
  <2> QED
    BY <2>1 DEF Picked
<1>4. \A n \in 0 .. Len(v) :
         g[n] = IF n = 0 THEN <<>>
                ELSE IF n \in S THEN Append(g[n - 1], v[n]) ELSE g[n - 1]
  <2> TAKE n \in 0 .. Len(v)
  <2>1. CASE n = 0
    BY <1>0, <1>1, <2>1
  <2>2. CASE n # 0
    <3>1. n \in 1 .. Len(v) /\ n - 1 \in 0 .. Len(v)
      BY <1>0, <2>2
    <3>2. g[n] = Picked(v, S, n) /\ g[n - 1] = Picked(v, S, n - 1)
      BY <3>1
    <3> HIDE DEF g
    <3> QED
      BY <1>2, <1>3, <2>2, <3>1, <3>2
  <2> QED
    BY <2>1, <2>2
<1> QED
  BY <1>4 DEF PickStep

LEMMA PickIsPicked ==
    ASSUME NEW X, NEW v \in Seq(X), NEW S \in SUBSET (1 .. Len(v))
    PROVE  Pick(v, S) = Picked(v, S, Len(v))
<1> DEFINE g == [n \in 0 .. Len(v) |-> Picked(v, S, n)]
           f == CHOOSE h : h = PickStep(h, v, S)
           differ == {n \in 0 .. Len(v) : f[n] # g[n]}
<1>0. Len(v) \in Nat
  OBVIOUS
<1>1. g = PickStep(g, v, S)
  BY PickedStep
<1>2. f = PickStep(f, v, S)
  BY <1>1, Zenon
<1>3. Pick(v, S) = f[Len(v)]
  BY DEF Pick, PickStep
<1>4. \A n \in 0 .. Len(v) :
         /\ f[n] = IF n = 0 THEN <<>>
                   ELSE IF n \in S THEN Append(f[n - 1], v[n]) ELSE f[n - 1]
         /\ g[n] = IF n = 0 THEN <<>>
                   ELSE IF n \in S THEN Append(g[n - 1], v[n]) ELSE g[n - 1]
  <2> HIDE DEF f, g
  <2> QED
    BY <1>1, <1>2, Zenon DEF PickStep
<1>5. differ = {}
  <2>1. SUFFICES ASSUME differ # {} PROVE FALSE
    OBVIOUS
  <2>2. differ \in SUBSET Nat
    BY <1>0
  <2>3. PICK n \in differ : \A k \in differ : n <= k
    <3> HIDE DEF differ
    <3> QED
      BY <2>1, <2>2, LeastElement
  <2>4. n \in 0 .. Len(v) /\ f[n] # g[n]
    <3> HIDE DEF f, g
    <3> QED
      OBVIOUS
  <2>5. n # 0
    <3> HIDE DEF f, g
    <3> QED
      BY <1>4, <2>4
  <2>6. n - 1 \in 0 .. Len(v) /\ n - 1 \notin differ
    <3>1. n \in Int /\ n - 1 \in 0 .. Len(v)
      BY <1>0, <2>4, <2>5
    <3>2. ~(n <= n - 1)
      BY <3>1
    <3> HIDE DEF differ
    <3> QED
      BY <2>3, <3>1, <3>2
  <2>7. f[n - 1] = g[n - 1]
    <3> HIDE DEF f, g
    <3> QED
      BY <2>6
  <2> HIDE DEF f, g, differ
  <2> QED
    BY <1>4, <2>4, <2>5, <2>7
<1>6. f[Len(v)] = g[Len(v)]
  <2>1. Len(v) \in 0 .. Len(v)
    BY <1>0
  <2> HIDE DEF f, g
  <2> QED
    BY <1>5, <2>1
<1> QED
  BY <1>0, <1>3, <1>6

LEMMA PickFacts ==
    ASSUME NEW X, NEW v \in Seq(X), NEW S \in SUBSET (1 .. Len(v))
    PROVE  /\ Pick(v, S) \in Seq(X)
           /\ Len(Pick(v, S)) = Cardinality(S)
           /\ \A p \in S : Pick(v, S)[Below(S, p) + 1] = v[p]
<1> DEFINE w == Picked(v, S, Len(v))
           at(k) == CHOOSE p \in S : Below(S, p) + 1 = k
<1>1. Len(v) \in Nat /\ Pick(v, S) = w
  BY PickIsPicked
<1>2. /\ Below(S, Len(v) + 1) = Cardinality(S) /\ Cardinality(S) \in Nat
      /\ \A p \in S : Below(S, p) \in Nat
      /\ \A p \in S : Below(S, p) + 1 \in 1 .. Cardinality(S)
      /\ \A p, q \in S : Below(S, p) = Below(S, q) => p = q
      /\ \A k \in 1 .. Cardinality(S) : \E p \in S : Below(S, p) + 1 = k
  BY PositionsBelow
<1>3. w = [k \in 1 .. Cardinality(S) |-> v[at(k)]]
  BY <1>2 DEF Picked
<1>4. \A k \in 1 .. Cardinality(S) : at(k) \in S /\ Below(S, at(k)) + 1 = k
  BY <1>2, Zenon
<1>5. \A k \in 1 .. Cardinality(S) : v[at(k)] \in X
  <2>1. \A p \in S : v[p] \in X
    OBVIOUS
  <2> HIDE DEF at
  <2> QED
    BY <1>4, <2>1
<1>6. \A p \in S : Below(S, p) + 1 \in 1 .. Cardinality(S) /\ at(Below(S, p) + 1) = p
  <2> TAKE p \in S
  <2> DEFINE q == at(Below(S, p) + 1)
  <2>1. Below(S, p) + 1 \in 1 .. Cardinality(S)
    BY <1>2
  <2> HIDE DEF at
  <2>2. q \in S /\ Below(S, q) + 1 = Below(S, p) + 1
    BY <1>4, <2>1
  <2> HIDE DEF q
  <2>3. q = p
    BY <1>2, <2>2
  <2> USE DEF q
  <2> QED
    BY <2>1, <2>3
<1> HIDE DEF w, at
<1>7. w \in Seq(X) /\ Len(w) = Cardinality(S)
  <2> DEFINE c == Cardinality(S)
  <2>1. c \in Nat /\ DOMAIN w = 1 .. c /\ w = [k \in 1 .. c |-> w[k]]
    BY <1>2, <1>3
  <2>2. \A k \in 1 .. c : w[k] \in X
    BY <1>3, <1>5
  <2> HIDE DEF c
  <2>3. w \in Seq(X) /\ Len(w) = c
    BY <2>1, <2>2
  <2> QED
    BY <2>3 DEF c
<1>8. \A p \in S : w[Below(S, p) + 1] = v[p]
  BY <1>3, <1>6
<1> QED
  BY <1>1, <1>7, <1>8

\* Picking the positions from a + 1 on drops the first a items.
LEMMA PickTail ==
    ASSUME NEW X, NEW v \in Seq(X), NEW a \in 0 .. Len(v)
    PROVE  /\ Len(Pick(v, a + 1 .. Len(v))) = Len(v) - a
           /\ \A k \in 1 .. Len(v) - a : Pick(v, a + 1 .. Len(v))[k] = v[a + k]
<1> DEFINE n == Len(v)
           S == a + 1 .. n
           w == Pick(v, S)
<1>1. n \in Nat /\ a \in Nat /\ a <= n /\ S \in SUBSET (1 .. n)
  OBVIOUS
<1>2. Len(w) = Cardinality(S) /\ \A p \in S : w[Below(S, p) + 1] = v[p]
  BY <1>1, PickFacts
<1>3. Cardinality(S) = n - a
  <2> HIDE DEF n
  <2>1. Cardinality(S) = IF a + 1 > n THEN 0 ELSE n - (a + 1) + 1
    BY <1>1, FS_Interval
  <2> HIDE DEF S
  <2> QED
    BY <1>1, <2>1
<1>4. ASSUME NEW k \in 1 .. n - a
      PROVE  w[k] = v[a + k]
  <2> HIDE DEF n
  <2> DEFINE p == a + k
  <2>1. p \in S /\ k \in Int /\ 1 <= k
    BY <1>1
  <2>2. {q \in S : q < p} = a + 1 .. a + k - 1
    <3>1. \A q \in S : q < p <=> q \in a + 1 .. a + k - 1
      BY <1>1, <2>1
    <3>2. \A q \in a + 1 .. a + k - 1 : q \in S
      BY <1>1, <2>1
    <3> HIDE DEF p, S
    <3> QED
      BY <3>1, <3>2, Zenon
  <2>3. Cardinality(a + 1 .. a + k - 1) = k - 1
    BY <1>1, <2>1, FS_Interval
  <2>4. Below(S, p) = k - 1
    <3> HIDE DEF p, S
    <3> QED
      BY <2>2, <2>3 DEF Below
  <2>5. k - 1 + 1 = k
    BY <2>1
  <2> HIDE DEF S, w
  <2> QED
    BY <1>2, <2>1, <2>4, <2>5
<1> QED
  BY <1>2, <1>3, <1>4

(***************************************************************************)
(* Where the items of a vector v stand in a vector w that holds the live   *)
(* ones, imports first: at their rank.                                     *)
(***************************************************************************)
Live(v) == LiveImportPositions(v) \cup LiveLocalPositions(v)
Compacts(w, v) ==
    /\ Len(w) = Cardinality(LiveImportPositions(v)) + Cardinality(LiveLocalPositions(v))
    /\ \A p \in Live(v) : Rank(v, p) \in Nat /\ Rank(v, p) + 1 \in 1 .. Len(w)
    /\ \A p \in Live(v) : w[Rank(v, p) + 1] = v[p]
    /\ \A p, q \in Live(v) : Rank(v, p) = Rank(v, q) => p = q
    /\ \A j \in 1 .. Len(w) : \E p \in Live(v) : Rank(v, p) + 1 = j
    /\ \A p \in LiveImportPositions(v) :
          /\ Rank(v, p) = Below(LiveImportPositions(v), p)
          /\ Rank(v, p) < Cardinality(LiveImportPositions(v))
    /\ \A p \in LiveLocalPositions(v) :
          /\ Rank(v, p) = Cardinality(LiveImportPositions(v)) + Below(LiveLocalPositions(v), p)
          /\ Cardinality(LiveImportPositions(v)) <= Rank(v, p)

LEMMA LivePositions ==
    ASSUME NEW X, NEW v \in Seq(X)
    PROVE  /\ LiveImportPositions(v) \in SUBSET (1 .. Len(v))
           /\ LiveLocalPositions(v) \in SUBSET (1 .. Len(v))
           /\ Len(v) \in Nat /\ DOMAIN v = 1 .. Len(v)
           /\ \A p \in LiveImportPositions(v) : p \notin LiveLocalPositions(v)
BY DEF LiveImportPositions, LiveLocalPositions

\* reorganize puts every live item at its rank, and nothing else.
LEMMA ReorganizeCompacts ==
    ASSUME NEW X, NEW v \in Seq(X)
    PROVE  Reorganize(v) \in Seq(X) /\ Compacts(Reorganize(v), v)
<1> DEFINE I == LiveImportPositions(v)
           L == LiveLocalPositions(v)
           a == Cardinality(I)
           b == Cardinality(L)
           x == Pick(v, I)
           y == Pick(v, L)
           w == x \o y
<1>1. I \in SUBSET (1 .. Len(v)) /\ L \in SUBSET (1 .. Len(v)) /\ \A p \in I : p \notin L
  BY LivePositions
<1>2. Live(v) = I \cup L /\ Reorganize(v) = w
  BY DEF Live, Reorganize
<1>3. \A p \in I : Rank(v, p) = Below(I, p)
  BY DEF Rank
<1>4. \A p \in L : Rank(v, p) = a + Below(L, p)
  BY <1>1 DEF Rank
<1> HIDE DEF I, L
<1>5. /\ a \in Nat
      /\ \A p \in I : Below(I, p) \in Nat /\ Below(I, p) + 1 \in 1 .. a
      /\ \A p, q \in I : Below(I, p) = Below(I, q) => p = q
      /\ \A k \in 1 .. a : \E p \in I : Below(I, p) + 1 = k
  BY <1>1, PositionsBelow
<1>6. /\ b \in Nat
      /\ \A p \in L : Below(L, p) \in Nat /\ Below(L, p) + 1 \in 1 .. b
      /\ \A p, q \in L : Below(L, p) = Below(L, q) => p = q
      /\ \A k \in 1 .. b : \E p \in L : Below(L, p) + 1 = k
  BY <1>1, PositionsBelow
<1>7. x \in Seq(X) /\ Len(x) = a /\ \A p \in I : x[Below(I, p) + 1] = v[p]
  BY <1>1, PickFacts
<1>8. y \in Seq(X) /\ Len(y) = b /\ \A p \in L : y[Below(L, p) + 1] = v[p]
  BY <1>1, PickFacts
<1> HIDE DEF a, b, x, y
<1>9. /\ w \in Seq(X) /\ Len(w) = a + b
      /\ \A k \in 1 .. a : w[k] = x[k]
      /\ \A k \in 1 .. b : w[a + k] = y[k]
  <2>1. x \in Seq(X) /\ y \in Seq(X) /\ Len(x) = a /\ Len(y) = b
    BY <1>7, <1>8
  <2>2. x \o y \in Seq(X) /\ Len(x \o y) = Len(x) + Len(y)
    BY <2>1
  <2>3. \A k \in 1 .. Len(x) : (x \o y)[k] = x[k]
    BY <2>1
  <2>4. \A k \in 1 .. Len(y) : (x \o y)[Len(x) + k] = y[k]
    BY <2>1
  <2>5. w = x \o y
    OBVIOUS
  <2> HIDE DEF w
  <2> QED
    BY <2>1, <2>2, <2>3, <2>4, <2>5
<1> HIDE DEF w
<1>0. a \in Nat /\ b \in Nat /\ Len(w) = a + b
  BY <1>5, <1>6, <1>9
<1>10. \A p \in I : /\ Rank(v, p) \in Nat /\ Rank(v, p) + 1 \in 1 .. Len(w)
                    /\ Rank(v, p) = Below(I, p) /\ Rank(v, p) < a
                    /\ w[Rank(v, p) + 1] = v[p]
  <2> TAKE p \in I
  <2> DEFINE r == Rank(v, p)
  <2>1. /\ r = Below(I, p) /\ r \in Nat /\ r + 1 \in 1 .. a /\ x[r + 1] = v[p]
    BY <1>3, <1>5, <1>7
  <2>2. w[r + 1] = v[p]
    BY <1>9, <2>1
  <2> HIDE DEF r
  <2>3. r < a /\ r + 1 \in 1 .. Len(w)
    BY <1>0, <2>1
  <2> USE DEF r
  <2> QED
    BY <2>1, <2>2, <2>3
<1>11. \A p \in L : /\ Rank(v, p) \in Nat /\ Rank(v, p) + 1 \in 1 .. Len(w)
                    /\ Rank(v, p) = a + Below(L, p) /\ a <= Rank(v, p)
                    /\ w[Rank(v, p) + 1] = v[p]
  <2> TAKE p \in L
  <2> DEFINE r == Rank(v, p)
             k == Below(L, p)
  <2>1. r = a + k /\ k \in Nat /\ k + 1 \in 1 .. b /\ y[k + 1] = v[p]
    BY <1>4, <1>6, <1>8
  <2> HIDE DEF r, k
  <2>2. w[a + (k + 1)] = v[p] /\ r + 1 = a + (k + 1)
    BY <1>5, <1>9, <2>1
  <2>3. w[r + 1] = v[p]
    BY <2>2
  <2>4. r \in Nat /\ a <= r /\ r + 1 \in 1 .. Len(w)
    BY <1>0, <2>1
  <2> QED
    BY <2>1, <2>3, <2>4 DEF r, k
<1>12. \A p, q \in I \cup L : Rank(v, p) = Rank(v, q) => p = q
  <2>1. \A p \in I, q \in L : Rank(v, p) # Rank(v, q)
    BY <1>5, <1>10, <1>11
  <2>2. \A p, q \in I : Rank(v, p) = Rank(v, q) => p = q
    BY <1>5, <1>10
  <2>3. \A p, q \in L : Rank(v, p) = Rank(v, q) => p = q
    BY <1>5, <1>6, <1>11
  <2> QED
    BY <2>1, <2>2, <2>3
<1>13. \A j \in 1 .. Len(w) : \E p \in I \cup L : Rank(v, p) + 1 = j
  <2> TAKE j \in 1 .. Len(w)
  <2>1. CASE j <= a
    <3>1. j \in 1 .. a
      BY <1>5, <1>6, <1>9, <2>1
    <3>2. PICK p \in I : Below(I, p) + 1 = j
      BY <1>5, <3>1
    <3> QED
      BY <1>10, <3>2
  <2>2. CASE ~(j <= a)
    <3>1. j - a \in 1 .. b /\ j \in Int
      BY <1>5, <1>6, <1>9, <2>2
    <3>2. PICK p \in L : Below(L, p) + 1 = j - a
      BY <1>6, <3>1
    <3> DEFINE k == Below(L, p)
    <3>3. Rank(v, p) = a + k /\ k \in Nat /\ k + 1 = j - a
      BY <1>6, <1>11, <3>2
    <3> HIDE DEF k
    <3>4. (a + k) + 1 = j
      BY <1>5, <3>1, <3>3
    <3>5. Rank(v, p) + 1 = j
      BY <3>3, <3>4
    <3> QED
      BY <3>5
  <2> QED
    BY <2>1, <2>2
<1>14. \A p \in I \cup L : /\ Rank(v, p) \in Nat /\ Rank(v, p) + 1 \in 1 .. Len(w)
                           /\ w[Rank(v, p) + 1] = v[p]
  BY <1>10, <1>11
<1>15. Compacts(w, v)
  BY <1>2, <1>9, <1>10, <1>11, <1>12, <1>13, <1>14, Zenon DEF Compacts, I, L, a, b
<1> QED
  BY <1>2, <1>9, <1>15

\* A vector without deleted items whose imports all precede its local items is in binary
\* order already.
LEMMA OrderedCompacts ==
    ASSUME NEW X, NEW v \in Seq(X),
           \A p \in 1 .. Len(v) : ~v[p].deleted,
           \A p, q \in 1 .. Len(v) : v[q].kind = "import" /\ p < q => v[p].kind = "import"
    PROVE  Compacts(v, v)
<1> DEFINE n == Len(v)
           I == LiveImportPositions(v)
           L == LiveLocalPositions(v)
           a == Cardinality(I)
           b == Cardinality(L)
<1>1. /\ n \in Nat /\ I \in SUBSET (1 .. n) /\ L \in SUBSET (1 .. n)
      /\ Live(v) = I \cup L
  BY LivePositions DEF Live
<1>2. /\ I \cup L = 1 .. n /\ I \cap L = {}
      /\ \A p \in I, q \in 1 .. n : q < p => q \in I
      /\ \A p \in L : p \notin I
  BY DEF LiveImportPositions, LiveLocalPositions
<1>3. \A p \in I : Rank(v, p) = Below(I, p)
  BY DEF Rank
<1>4. \A p \in L : Rank(v, p) = a + Below(L, p)
  BY <1>2 DEF Rank
<1> HIDE DEF n, I, L
<1>5. \A p \in 1 .. n : p \in Int /\ 1 <= p /\ p <= n /\ p - 1 \in Nat
  BY <1>1
<1>6. IsFiniteSet(I) /\ a \in Nat /\ IsFiniteSet(L) /\ b \in Nat
  BY <1>1, BelowFacts
<1>7. n = a + b
  <2>1. Cardinality(I \cup L) = a + b - Cardinality(I \cap L)
    BY <1>6, FS_Union
  <2>2. Cardinality(I \cap L) = 0
    BY <1>2, FS_EmptySet
  <2>3. Cardinality(1 .. n) = n
    BY <1>1, FS_Interval
  <2> HIDE DEF a, b
  <2>4. n = a + b - 0
    BY <1>2, <2>1, <2>2, <2>3, Zenon
  <2> QED
    BY <1>6, <2>4
<1>8. \A p \in I : Below(I, p) = p - 1
  <2> TAKE p \in I
  <2>1. p \in 1 .. n /\ p - 1 \in Nat
    BY <1>1, <1>5
  <2>2. \A q \in 1 .. n : q < p <=> q \in 1 .. p - 1
    BY <1>1, <1>5, <2>1
  <2>3. \A q \in 1 .. p - 1 : q \in 1 .. n
    BY <1>1, <1>5, <2>1
  <2>4. {q \in I : q < p} = 1 .. p - 1
    BY <1>1, <1>2, <2>1, <2>2, <2>3, Zenon
  <2>5. Cardinality(1 .. p - 1) = p - 1
    BY <2>1, FS_Interval
  <2> QED
    BY <2>4, <2>5 DEF Below
<1>9. \A p \in L : a + Below(L, p) = p - 1
  <2> TAKE p \in L
  <2> DEFINE K == {q \in L : q < p}
  <2>1. p \in 1 .. n /\ p - 1 \in Nat
    BY <1>1, <1>5
  <2>2. \A q \in 1 .. n : q < p <=> q \in 1 .. p - 1
    BY <1>1, <1>5, <2>1
  <2>3. \A q \in 1 .. p - 1 : q \in 1 .. n
    BY <1>1, <1>5, <2>1
  <2>4. \A q \in I : q < p
    <3>1. \A q \in I : p < q => p \in I
      BY <1>2, <2>1
    <3>2. \A q \in I : q \in Int /\ q # p
      BY <1>1, <1>2, <1>5
    <3> QED
      BY <1>2, <1>5, <2>1, <3>1, <3>2
  <2>5. I \cup K = 1 .. p - 1
    <3>1. \A q \in I \cup K : q \in 1 .. p - 1
      BY <1>1, <2>2, <2>4
    <3>2. \A q \in 1 .. p - 1 : q \in I \cup K
      BY <1>2, <2>2, <2>3
    <3> QED
      BY <3>1, <3>2, Zenon
  <2>6. I \cap K = {} /\ K \in SUBSET L
    BY <1>2
  <2>7. IsFiniteSet(K) /\ Cardinality(K) \in Nat
    BY <1>6, <2>6, FS_Subset, FS_CardinalityType
  <2>8. Cardinality(I \cup K) = a + Cardinality(K) - Cardinality(I \cap K)
    BY <1>6, <2>7, FS_Union
  <2>9. Cardinality(I \cap K) = 0
    BY <2>6, FS_EmptySet
  <2>10. Cardinality(1 .. p - 1) = p - 1
    BY <2>1, FS_Interval
  <2>11. Below(L, p) = Cardinality(K)
    BY DEF Below
  <2> DEFINE c == Cardinality(K)
  <2> HIDE DEF a, K
  <2>12. p - 1 = a + c - 0
    BY <2>5, <2>8, <2>9, <2>10, Zenon
  <2> HIDE DEF c
  <2>13. a + c = p - 1
    BY <1>6, <2>1, <2>7, <2>12 DEF c
  <2> QED
    BY <2>11, <2>13 DEF c
<1>10. \A p \in I \cup L : Rank(v, p) = p - 1
  BY <1>3, <1>4, <1>8, <1>9
<1>11. \A p \in I : p <= a
  <2> TAKE p \in I
  <2>1. Below(I, p) + 1 \in 1 .. a
    BY <1>1, BelowNumbers
  <2>2. Below(I, p) = p - 1 /\ p \in Int
    BY <1>1, <1>5, <1>8
  <2> HIDE DEF a
  <2> QED
    BY <1>6, <2>1, <2>2
<1>12. \A p \in L : a < p
  <2> TAKE p \in L
  <2>1. Below(L, p) + 1 \in 1 .. b
    BY <1>1, BelowNumbers
  <2>2. a + Below(L, p) = p - 1 /\ p \in Int
    BY <1>1, <1>5, <1>9
  <2>3. Below(L, p) \in Int
    <3>1. \A q \in Int : Below(L, q) \in 0 .. Cardinality(L)
      BY <1>1, BelowFacts
    <3> QED
      BY <2>2, <3>1
  <2> HIDE DEF a, b
  <2> QED
    BY <1>6, <2>1, <2>2, <2>3
<1> HIDE DEF a, b
<1>13. \A p \in I \cup L : /\ Rank(v, p) \in Nat /\ Rank(v, p) + 1 \in 1 .. n
                           /\ v[Rank(v, p) + 1] = v[p]
  <2> TAKE p \in I \cup L
  <2>1. p \in 1 .. n /\ Rank(v, p) = p - 1
    BY <1>2, <1>10
  <2>2. p - 1 \in Nat /\ p - 1 + 1 = p
    BY <1>1, <2>1
  <2> QED
    BY <2>1, <2>2
<1>14. \A p, q \in I \cup L : Rank(v, p) = Rank(v, q) => p = q
  BY <1>2, <1>5, <1>10
<1>15. \A j \in 1 .. n : \E p \in I \cup L : Rank(v, p) + 1 = j
  <2> TAKE j \in 1 .. n
  <2>1. j \in I \cup L /\ Rank(v, j) = j - 1 /\ j \in Int
    BY <1>2, <1>5, <1>10
  <2>2. Rank(v, j) + 1 = j
    BY <2>1
  <2> QED
    BY <2>1, <2>2
<1>16. \A p \in I : Rank(v, p) = Below(I, p) /\ Rank(v, p) < a
  <2> TAKE p \in I
  <2>1. Rank(v, p) = p - 1 /\ p \in Int /\ p <= a
    BY <1>1, <1>5, <1>10, <1>11
  <2>2. p - 1 < a
    BY <1>6, <2>1
  <2> QED
    BY <1>3, <2>1, <2>2
<1>17. \A p \in L : Rank(v, p) = a + Below(L, p) /\ a <= Rank(v, p)
  <2> TAKE p \in L
  <2>1. Rank(v, p) = p - 1 /\ p \in Int /\ a < p
    BY <1>1, <1>5, <1>10, <1>12
  <2>2. a <= p - 1
    BY <1>6, <2>1
  <2> QED
    BY <1>4, <2>1, <2>2
<1> QED
  BY <1>1, <1>7, <1>13, <1>14, <1>15, <1>16, <1>17, Zenon DEF Compacts, n, I, L, a, b

(***************************************************************************)
(* get_mapping_generic on such a vector, when IDs are positions: exactly   *)
(* the live items are mapped, each to its rank.                            *)
(***************************************************************************)
LEMMA MappingOfCompact ==
    ASSUME NEW X, NEW v \in Seq(X), NEW w, DOMAIN w = 1 .. Len(w), Compacts(w, v),
           \A p \in 1 .. Len(v) : v[p].id = p - 1
    PROVE  /\ DOMAIN GetMapping(w) = {p - 1 : p \in Live(v)}
           /\ \A p \in Live(v) : GetMapping(w)[p - 1] = Rank(v, p)
<1>1. \A p \in Live(v) : p \in 1 .. Len(v) /\ p \in Int
  BY LivePositions DEF Live
<1>2. \A p \in Live(v) : /\ Rank(v, p) \in Nat /\ Rank(v, p) + 1 \in 1 .. Len(w)
                         /\ w[Rank(v, p) + 1].id = p - 1
  <2> TAKE p \in Live(v)
  <2>1. w[Rank(v, p) + 1] = v[p] /\ Rank(v, p) \in Nat /\ Rank(v, p) + 1 \in 1 .. Len(w)
    BY DEF Compacts
  <2>2. v[p].id = p - 1
    BY <1>1
  <2> QED
    BY <2>1, <2>2
<1>3. \A j \in 1 .. Len(w) : \E p \in Live(v) : Rank(v, p) + 1 = j
  BY DEF Compacts
<1>4. {w[j].id : j \in DOMAIN w} = {p - 1 : p \in Live(v)}
  <2>1. \A j \in DOMAIN w : \E p \in Live(v) : w[j].id = p - 1
    BY <1>2, <1>3
  <2>2. \A p \in Live(v) : \E j \in DOMAIN w : w[j].id = p - 1
    BY <1>2
  <2> QED
    BY <2>1, <2>2
<1>5. ASSUME NEW p \in Live(v)
      PROVE  GetMapping(w)[p - 1] = Rank(v, p)
  <2> DEFINE r == Rank(v, p) + 1
             id == p - 1
             Last(j) == w[j].id = id /\ \A q \in DOMAIN w : w[q].id = id => q <= j
  <2>1. r \in DOMAIN w /\ w[r].id = id /\ r \in Int
    BY <1>2
  <2>2. \A q \in DOMAIN w : w[q].id = id => q = r
    <3> TAKE q \in DOMAIN w
    <3>1. PICK k \in Live(v) : Rank(v, k) + 1 = q
      BY <1>3
    <3>2. w[q].id = k - 1 /\ k \in Int /\ p \in Int
      BY <1>1, <1>2, <3>1
    <3> QED
      BY <3>1, <3>2
  <2>3. Last(r) /\ \A j \in DOMAIN w : Last(j) => j = r
    BY <2>1, <2>2
  <2>4. (CHOOSE j \in DOMAIN w : Last(j)) = r
    <3> HIDE DEF Last, r
    <3> QED
      BY <2>1, <2>3, Zenon
  <2>5. id \in {w[j].id : j \in DOMAIN w}
    BY <2>1
  <2>6. GetMapping(w)[id] = r - 1
    <3> HIDE DEF r, id
    <3> QED
      BY <2>4, <2>5 DEF GetMapping
  <2>7. r - 1 = Rank(v, p)
    BY <1>2
  <2> QED
    BY <2>6, <2>7
<1>6. DOMAIN GetMapping(w) = {w[j].id : j \in DOMAIN w}
  BY DEF GetMapping
<1> QED
  BY <1>4, <1>5, <1>6
=============================================================================
