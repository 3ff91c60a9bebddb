------------------------- MODULE ModuleEncodeProofs -------------------------
(***************************************************************************)
(* Theorems about what Module::encode_internal owes the caller of the API, *)
(* for every set of parsed modules and every bound.  The argument: the     *)
(* vector encode_internal works on holds every live item at its rank       *)
(* (ReindexProofs), the import section holds as many live imports of a     *)
(* space as the vector does (ModuleIRProofs), and so the index the         *)
(* encoder maps an ID to is the one the binary gives to that very item.    *)
(***************************************************************************)
EXTENDS ModuleNames, ModuleIRProofs, ReindexProofs

(***************************************************************************)
(* The vector and the mapping.                                             *)
(***************************************************************************)
LEMMA VectorCompacts ==
    ASSUME ModuleInv, NEW s \in Space
    PROVE  /\ items[s] \in Seq(Item) /\ Vector(s) \in Seq(Item)
           /\ Compacts(Vector(s), items[s])
<1>1. items[s] \in Seq(Item) /\ SettledIn(s) /\ recalc[s] \in BOOLEAN
  BY DEF ModuleInv, Linked, TypeOK, ItemsOK, Settled
<1>2. CASE recalc[s]
  BY <1>1, <1>2, ReorganizeCompacts DEF Vector, EncodedVector
<1>3. CASE ~recalc[s]
  <2>1. /\ \A p \in 1 .. Len(items[s]) : ~items[s][p].deleted
        /\ \A p, q \in 1 .. Len(items[s]) :
              items[s][q].kind = "import" /\ p < q => items[s][p].kind = "import"
    BY <1>1, <1>3 DEF SettledIn, InOrder
  <2>2. Compacts(items[s], items[s])
    BY <1>1, <2>1, OrderedCompacts
  <2> QED
    BY <1>1, <1>3, <2>2 DEF Vector, EncodedVector
<1> QED
  BY <1>1, <1>2, <1>3

LEMMA LiveIsLiveHandles ==
    ASSUME ItemsOK, NEW s \in Space
    PROVE  /\ LiveHandles(s) = {p - 1 : p \in Live(items[s])}
           /\ \A h \in LiveHandles(s) :
                 /\ h \in Int /\ h + 1 \in Live(items[s]) /\ At(s, h) = items[s][h + 1]
                 /\ h + 1 \in LiveImportPositions(items[s]) <=> IsImport(At(s, h))
                 /\ h + 1 \in LiveLocalPositions(items[s]) <=> IsLocal(At(s, h))
           /\ \A p \in Live(items[s]) :
                 p - 1 \in LiveHandles(s) /\ p \in Int /\ p - 1 + 1 = p
<1>1. /\ items[s] \in Seq(Item) /\ Len(items[s]) \in Nat /\ DOMAIN items[s] = 1 .. Len(items[s])
      /\ \A p \in 1 .. Len(items[s]) : items[s][p] \in Item
  BY DEF ItemsOK
<1>2. \A h \in Handles(s) : h \in Int /\ h + 1 \in 1 .. Len(items[s]) /\ At(s, h) = items[s][h + 1]
  BY <1>1 DEF Handles, At
<1>3. \A p \in 1 .. Len(items[s]) : p - 1 \in Handles(s) /\ p \in Int /\ p - 1 + 1 = p
  BY <1>1 DEF Handles
<1>4. \A p \in 1 .. Len(items[s]) :
         /\ p \in Live(items[s]) <=> ~items[s][p].deleted
         /\ p \in LiveImportPositions(items[s]) <=>
               ~items[s][p].deleted /\ items[s][p].kind = "import"
         /\ p \in LiveLocalPositions(items[s]) <=>
               ~items[s][p].deleted /\ items[s][p].kind # "import"
  BY <1>1 DEF Live, LiveImportPositions, LiveLocalPositions
<1>5. \A p \in Live(items[s]) : p \in 1 .. Len(items[s])
  BY <1>1 DEF Live, LiveImportPositions, LiveLocalPositions
<1>6. \A h \in LiveHandles(s) :
         /\ h \in Int /\ h + 1 \in Live(items[s]) /\ At(s, h) = items[s][h + 1]
         /\ h + 1 \in LiveImportPositions(items[s]) <=> IsImport(At(s, h))
         /\ h + 1 \in LiveLocalPositions(items[s]) <=> IsLocal(At(s, h))
  <2> TAKE h \in LiveHandles(s)
  <2>1. h \in Handles(s) /\ ~At(s, h).deleted
    BY DEF LiveHandles
  <2>2. h + 1 \in 1 .. Len(items[s]) /\ At(s, h) = items[s][h + 1] /\ h \in Int
    BY <1>2, <2>1
  <2>3. items[s][h + 1] \in Item
    BY <1>1, <2>2
  <2>4. IsLocal(At(s, h)) <=> At(s, h).kind # "import"
    BY <2>2, <2>3 DEF IsLocal, Item
  <2> QED
    BY <1>4, <2>1, <2>2, <2>4 DEF IsImport
<1>7. \A p \in Live(items[s]) :
         p - 1 \in LiveHandles(s) /\ p \in Int /\ p - 1 + 1 = p
  <2> TAKE p \in Live(items[s])
  <2>1. p - 1 \in Handles(s) /\ p \in Int /\ p - 1 + 1 = p /\ ~items[s][p].deleted
    BY <1>3, <1>4, <1>5
  <2>2. At(s, p - 1) = items[s][p]
    BY <2>1 DEF At
  <2> QED
    BY <2>1, <2>2 DEF LiveHandles
<1>8. \A h \in LiveHandles(s) : \E p \in Live(items[s]) : h = p - 1
  <2> TAKE h \in LiveHandles(s)
  <2> DEFINE k == h + 1
  <2>1. k \in Live(items[s]) /\ h = k - 1
    BY <1>6
  <2> HIDE DEF k
  <2> QED
    BY <2>1
<1>9. LiveHandles(s) = {p - 1 : p \in Live(items[s])}
  BY <1>7, <1>8
<1> QED
  BY <1>6, <1>7, <1>9

LEMMA MappingFacts ==
    ASSUME ModuleInv, NEW s \in Space, PositionIdsIn(s)
    PROVE  /\ DOMAIN Mapping(s) = LiveHandles(s)
           /\ \A h \in LiveHandles(s) : Mapping(s)[h] = Rank(items[s], h + 1)
<1> DEFINE v == items[s]
           w == Vector(s)
<1>1. v \in Seq(Item) /\ w \in Seq(Item) /\ Compacts(w, v) /\ ItemsOK
  BY VectorCompacts DEF ModuleInv, Linked, TypeOK
<1>2. \A p \in 1 .. Len(v) : v[p].id = p - 1
  <2> TAKE p \in 1 .. Len(v)
  <2>1. p - 1 \in Handles(s) /\ p - 1 + 1 = p
    BY <1>1 DEF Handles
  <2>2. At(s, p - 1) = v[p]
    BY <2>1 DEF At
  <2> QED
    BY <2>1, <2>2 DEF PositionIdsIn
<1>3. /\ LiveHandles(s) = {p - 1 : p \in Live(v)}
      /\ \A h \in LiveHandles(s) : h + 1 \in Live(v) /\ h \in Int
  BY <1>1, LiveIsLiveHandles
<1>4. Mapping(s) = GetMapping(w)
  BY DEF Mapping
<1> HIDE DEF v, w
<1>5. DOMAIN w = 1 .. Len(w)
  BY <1>1
<1>6. /\ DOMAIN GetMapping(w) = {p - 1 : p \in Live(v)}
      /\ \A p \in Live(v) : GetMapping(w)[p - 1] = Rank(v, p)
  BY <1>1, <1>2, <1>5, MappingOfCompact
<1>7. \A h \in LiveHandles(s) : GetMapping(w)[h] = Rank(v, h + 1)
  <2> TAKE h \in LiveHandles(s)
  <2> DEFINE k == h + 1
  <2>1. k \in Live(v) /\ k - 1 = h
    BY <1>3
  <2> HIDE DEF k
  <2>2. GetMapping(w)[h] = Rank(v, k)
    BY <1>6, <2>1
  <2> QED
    BY <2>2 DEF k
<1> QED
  BY <1>3, <1>4, <1>6, <1>7 DEF v

(***************************************************************************)
(* The import section and the vector count the same imports.               *)
(***************************************************************************)
\* The entries of the import section that are written for space s.
Written(s) == {i \in 1 .. Len(imports) : imports[i].kind = s /\ ~imports[i].deleted}
EntryOf(s) == [p \in LiveImportPositions(items[s]) |-> items[s][p].imp + 1]

LEMMA WrittenFacts ==
    ASSUME ModuleInv, NEW s \in Space
    PROVE  /\ EntryOf(s) \in [LiveImportPositions(items[s]) -> Written(s)]
           /\ \A p, q \in LiveImportPositions(items[s]) : EntryOf(s)[p] = EntryOf(s)[q] => p = q
           /\ \A p \in LiveImportPositions(items[s]) : items[s][p].imp \in Int
<1> DEFINE v == items[s]
           I == LiveImportPositions(v)
<1>1. /\ v \in Seq(Item) /\ Len(v) \in Nat /\ LinkedIn(v, imports, s) /\ Len(imports) \in Nat
  BY LinksBySpace DEF ModuleInv, Linked, TypeOK, ItemsOK, ImportsOK
<1>2. \A p \in I : p \in 1 .. Len(v) /\ v[p].kind = "import" /\ ~v[p].deleted
  BY <1>1 DEF LiveImportPositions
<1>3. \A p \in I : /\ v[p].imp \in 0 .. Len(imports) - 1
                   /\ imports[v[p].imp + 1].kind = s /\ ~imports[v[p].imp + 1].deleted
                   /\ \A q \in I : v[q].imp = v[p].imp => q = p
  BY <1>1, <1>2 DEF LinkedIn
<1> HIDE DEF v, I
<1>4. \A p \in I : v[p].imp \in Int /\ v[p].imp + 1 \in Written(s)
  <2> TAKE p \in I
  <2>1. v[p].imp \in 0 .. Len(imports) - 1
    BY <1>3
  <2>2. v[p].imp \in Int /\ v[p].imp + 1 \in 1 .. Len(imports)
    BY <1>1, <2>1
  <2> QED
    BY <1>3, <2>2 DEF Written
<1>5. \A p, q \in I : v[p].imp + 1 = v[q].imp + 1 => p = q
  BY <1>3, <1>4
<1>6. EntryOf(s) = [p \in I |-> v[p].imp + 1]
  BY DEF EntryOf, I, v
<1>7. /\ EntryOf(s) \in [I -> Written(s)]
      /\ \A p, q \in I : EntryOf(s)[p] = EntryOf(s)[q] => p = q
  BY <1>4, <1>5, <1>6
<1> QED
  BY <1>4, <1>7 DEF I, v

LEMMA EntryOfIsOnto ==
    ASSUME ModuleInv, NEW s \in Space, s # "func" \/ panic = NoPanic
    PROVE  \A i \in Written(s) : \E p \in LiveImportPositions(items[s]) : EntryOf(s)[p] = i
<1> TAKE i \in Written(s)
<1>1. /\ i \in 1 .. Len(imports) /\ imports[i].kind = s /\ ~imports[i].deleted
      /\ NoOrphanIn(items[s], imports, s) /\ items[s] \in Seq(Item)
  BY DEF Written, ModuleInv, Settled, SettledIn, Linked, TypeOK, ItemsOK
<1>2. PICK p \in 1 .. Len(items[s]) :
         items[s][p].kind = "import" /\ ~items[s][p].deleted /\ items[s][p].imp + 1 = i
  BY <1>1 DEF NoOrphanIn
<1>3. p \in LiveImportPositions(items[s])
  BY <1>1, <1>2 DEF LiveImportPositions
<1> QED
  BY <1>2, <1>3 DEF EntryOf

LEMMA WrittenCount ==
    ASSUME ModuleInv, NEW s \in Space, s # "func" \/ panic = NoPanic
    PROVE  Cardinality(Written(s)) = Cardinality(LiveImportPositions(items[s]))
<1>1. items[s] \in Seq(Item)
  BY DEF ModuleInv, Linked, TypeOK, ItemsOK
<1>2. LiveImportPositions(items[s]) \in SUBSET (1 .. Len(items[s])) /\ Len(items[s]) \in Nat
  BY <1>1, LivePositions
<1>3. IsFiniteSet(LiveImportPositions(items[s]))
  BY <1>2, BelowFacts
<1>4. /\ EntryOf(s) \in [LiveImportPositions(items[s]) -> Written(s)]
      /\ \A p, q \in LiveImportPositions(items[s]) : EntryOf(s)[p] = EntryOf(s)[q] => p = q
  BY WrittenFacts
<1>5. \A i \in Written(s) : \E p \in LiveImportPositions(items[s]) : EntryOf(s)[p] = i
  BY EntryOfIsOnto
<1> QED
  BY <1>3, <1>4, <1>5, OneToOneCounts

\* The entries the encoder writes for a space, in section order.
LEMMA EmittedImportsFacts ==
    ASSUME ModuleInv, NEW s \in Space
    PROVE  /\ EmittedImports(s) \in Seq(Nat)
           /\ Len(EmittedImports(s)) = Cardinality(Written(s))
           /\ \A i \in Written(s) : EmittedImports(s)[Below(Written(s), i) + 1] = i - 1
<1> DEFINE ids == ImportIds
           W == Written(s)
<1>1. Len(imports) \in Nat /\ DOMAIN imports = 1 .. Len(imports)
  BY DEF ModuleInv, Linked, TypeOK, ImportsOK
<1>2. ids \in Seq(Nat) /\ Len(ids) = Len(imports) /\ \A i \in 1 .. Len(imports) : ids[i] = i - 1
  BY <1>1 DEF ImportIds
<1>3. EmittedImports(s) = Pick(ids, W)
  BY <1>1 DEF EmittedImports, Written
<1>4. W \in SUBSET (1 .. Len(imports))
  BY DEF Written
<1> HIDE DEF ids, W
<1>5. W \in SUBSET (1 .. Len(ids))
  BY <1>2, <1>4
<1>6. /\ Pick(ids, W) \in Seq(Nat) /\ Len(Pick(ids, W)) = Cardinality(W)
      /\ \A i \in W : Pick(ids, W)[Below(W, i) + 1] = ids[i]
  BY <1>2, <1>5, PickFacts
<1>7. \A i \in W : ids[i] = i - 1
  BY <1>2, <1>4
<1> QED
  BY <1>3, <1>6, <1>7 DEF W
(***************************************************************************)
(* The emitted index space of s: as many imports as the vector starts      *)
(* with, then the local items of the vector.                               *)
(***************************************************************************)
LEMMA EmittedLocalsFacts ==
    ASSUME ModuleInv, NEW s \in Space
    PROVE  LET w == Vector(s)
               a == Cardinality(LiveImportPositions(items[s]))
           IN  /\ a \in Nat /\ Len(w) \in Nat /\ a <= Len(w)
               /\ \A j \in 1 .. Len(w) : a < j <=> LiveLocal(w[j])
               /\ Len(EmittedLocals(w, s)) = Len(w) - a
               /\ \A k \in 1 .. Len(w) - a : EmittedLocals(w, s)[k] = w[a + k]
<1> DEFINE v == items[s]
           w == Vector(s)
           I == LiveImportPositions(v)
           L == LiveLocalPositions(v)
           a == Cardinality(I)
<1>1. v \in Seq(Item) /\ w \in Seq(Item) /\ Compacts(w, v)
  BY VectorCompacts
<1>2. /\ I \in SUBSET (1 .. Len(v)) /\ L \in SUBSET (1 .. Len(v)) /\ Len(v) \in Nat
      /\ Live(v) = I \cup L
  BY <1>1, LivePositions DEF Live
<1>3. a \in Nat /\ Cardinality(L) \in Nat
  BY <1>2, BelowFacts
<1>4. Len(w) = a + Cardinality(L) /\ Len(w) \in Nat /\ DOMAIN w = 1 .. Len(w)
  BY <1>1 DEF Compacts
<1>5. a <= Len(w)
  BY <1>3, <1>4
<1>6. \A p \in I : v[p].kind = "import"
  BY DEF LiveImportPositions
<1>7. \A p \in L : v[p].kind = "local" /\ ~v[p].deleted
  <2> TAKE p \in L
  <2>1. v[p] \in Item /\ v[p].kind # "import" /\ ~v[p].deleted
    BY <1>1, <1>2 DEF LiveLocalPositions
  <2> QED
    BY <2>1 DEF Item
<1>8. /\ \A p \in I : Rank(v, p) < a
      /\ \A p \in L : a <= Rank(v, p)
      /\ \A p \in Live(v) : Rank(v, p) \in Nat /\ w[Rank(v, p) + 1] = v[p]
      /\ \A j \in 1 .. Len(w) : \E p \in Live(v) : Rank(v, p) + 1 = j
  BY <1>1 DEF Compacts
<1> HIDE DEF v, w, I, L, a
<1>9. \A j \in 1 .. Len(w) :
         IF a < j THEN w[j].kind = "local" /\ ~w[j].deleted ELSE w[j].kind = "import"
  <2> TAKE j \in 1 .. Len(w)
  <2>1. PICK p \in I \cup L : Rank(v, p) + 1 = j
    BY <1>2, <1>8
  <2> DEFINE r == Rank(v, p)
  <2>2. r \in Nat /\ r + 1 = j /\ w[j] = v[p]
    BY <1>2, <1>8, <2>1
  <2>3. CASE p \in I
    <3>1. r < a /\ v[p].kind = "import"
      BY <1>6, <1>8, <2>3
    <3> HIDE DEF r
    <3>2. ~(a < j)
      BY <1>3, <2>2, <3>1
    <3> QED
      BY <2>2, <3>1, <3>2
  <2>4. CASE p \in L
    <3>1. a <= r /\ v[p].kind = "local" /\ ~v[p].deleted
      BY <1>7, <1>8, <2>4
    <3> HIDE DEF r
    <3>2. a < j
      BY <1>3, <2>2, <3>1
    <3> QED
      BY <2>2, <3>1, <3>2
  <2> QED
    BY <2>1, <2>3, <2>4
<1>10. \A j \in 1 .. Len(w) : a < j <=> LiveLocal(w[j])
  BY <1>9 DEF LiveLocal, IsLocal
<1>11. {j \in DOMAIN w : IsLocal(w[j]) /\ (s = "memory" \/ ~w[j].deleted)} = a + 1 .. Len(w)
  <2>1. \A j \in 1 .. Len(w) : IsLocal(w[j]) /\ (s = "memory" \/ ~w[j].deleted) <=> a < j
    BY <1>9 DEF IsLocal
  <2>2. \A j \in 1 .. Len(w) : a < j <=> j \in a + 1 .. Len(w)
    BY <1>3, <1>4
  <2>3. \A j \in a + 1 .. Len(w) : j \in 1 .. Len(w)
    BY <1>3, <1>4
  <2> QED
    BY <1>4, <2>1, <2>2, <2>3, Zenon
<1>12. EmittedLocals(w, s) = Pick(w, a + 1 .. Len(w))
  BY <1>11 DEF EmittedLocals
<1>13. a \in 0 .. Len(w)
  BY <1>3, <1>4, <1>5
<1>14. /\ Len(Pick(w, a + 1 .. Len(w))) = Len(w) - a
       /\ \A k \in 1 .. Len(w) - a : Pick(w, a + 1 .. Len(w))[k] = w[a + k]
  BY <1>1, <1>13, PickTail
<1> QED
  BY <1>3, <1>4, <1>5, <1>10, <1>12, <1>14 DEF a, I, v, w

LEMMA SpaceFacts ==
    ASSUME ModuleInv, NEW s \in Space, s # "func" \/ panic = NoPanic
    PROVE  LET w == Vector(s)
               a == Cardinality(LiveImportPositions(items[s]))
           IN  /\ DOMAIN EmittedSpace(s) = 1 .. Len(w)
               /\ Len(EmittedImports(s)) = a
               /\ \A i \in 1 .. a : EmittedSpace(s)[i] = <<"import", EmittedImports(s)[i]>>
               /\ \A j \in a + 1 .. Len(w) : EmittedSpace(s)[j] = <<"local", w[j].id>>
<1> DEFINE w == Vector(s)
           a == Cardinality(LiveImportPositions(items[s]))
           imps == EmittedImports(s)
           locs == EmittedLocals(w, s)
           x == [i \in 1 .. Len(imps) |-> <<"import", imps[i]>>]
           y == [p \in 1 .. Len(locs) |-> <<"local", locs[p].id>>]
<1>1. /\ a \in Nat /\ Len(w) \in Nat /\ a <= Len(w)
      /\ Len(locs) = Len(w) - a
      /\ \A k \in 1 .. Len(w) - a : locs[k] = w[a + k]
  BY EmittedLocalsFacts
<1>2. Len(imps) = a
  BY EmittedImportsFacts, WrittenCount
<1>3. EmittedSpace(s) = x \o y
  BY DEF EmittedSpace, SpaceOf
<1> HIDE DEF w, a, imps, locs
<1>4. x = [i \in 1 .. a |-> <<"import", imps[i]>>]
  BY <1>2
<1>5. y = [p \in 1 .. Len(w) - a |-> <<"local", w[a + p].id>>]
  BY <1>1
<1> DEFINE b == Len(w) - a
           e == EmittedSpace(s)
<1>6. b \in Nat
  BY <1>1
<1> HIDE DEF b
<1> DEFINE T == {x[i] : i \in 1 .. a} \cup {y[i] : i \in 1 .. b}
<1>7. /\ x \in Seq(T) /\ Len(x) = a /\ \A i \in 1 .. a : x[i] = <<"import", imps[i]>>
      /\ y \in Seq(T) /\ Len(y) = b /\ \A k \in 1 .. b : y[k] = <<"local", w[a + k].id>>
  <2>1. \A i \in 1 .. a : x[i] = <<"import", imps[i]>>
    BY <1>4
  <2>2. \A k \in 1 .. b : y[k] = <<"local", w[a + k].id>>
    BY <1>5 DEF b
  <2>3. x = [i \in 1 .. a |-> x[i]] /\ y = [k \in 1 .. b |-> y[k]]
    BY <1>4, <1>5 DEF b
  <2> HIDE DEF x, y
  <2>4. x \in Seq(T) /\ Len(x) = a
    BY <1>1, <2>3
  <2>5. y \in Seq(T) /\ Len(y) = b
    BY <1>6, <2>3
  <2> QED
    BY <2>1, <2>2, <2>4, <2>5
<1> HIDE DEF x, y, T
<1>8. /\ e \in Seq(T) /\ Len(e) = a + b
      /\ \A i \in 1 .. a : e[i] = x[i]
      /\ \A k \in 1 .. b : e[a + k] = y[k]
  <2>1. x \in Seq(T) /\ y \in Seq(T) /\ Len(x) = a /\ Len(y) = b
    BY <1>7
  <2>2. x \o y \in Seq(T) /\ Len(x \o y) = Len(x) + Len(y)
    BY <2>1
  <2>3. \A i \in 1 .. Len(x) : (x \o y)[i] = x[i]
    BY <2>1
  <2>4. \A k \in 1 .. Len(y) : (x \o y)[Len(x) + k] = y[k]
    BY <2>1
  <2>5. e = x \o y
    BY <1>3
  <2> HIDE DEF e
  <2> QED
    BY <2>1, <2>2, <2>3, <2>4, <2>5
<1> HIDE DEF e
<1>9. a + b = Len(w)
  BY <1>1 DEF b
<1>10. DOMAIN e = 1 .. Len(w)
  BY <1>8, <1>9
<1>11. \A i \in 1 .. a : e[i] = <<"import", imps[i]>>
  BY <1>7, <1>8
<1>12. \A j \in a + 1 .. Len(w) : e[j] = <<"local", w[j].id>>
  <2> TAKE j \in a + 1 .. Len(w)
  <2> DEFINE k == j - a
  <2>1. k \in 1 .. b /\ a + k = j
    BY <1>1, <1>6, <1>9
  <2> HIDE DEF k
  <2>2. e[a + k] = <<"local", w[a + k].id>>
    BY <1>7, <1>8, <2>1
  <2> QED
    BY <2>1, <2>2
<1> QED
  BY <1>2, <1>10, <1>11, <1>12 DEF e, w, a, imps

(***************************************************************************)
(* Where the binary finds each live item.                                  *)
(***************************************************************************)
\* A local item stands at its rank.
LEMMA LocalsPlaced ==
    ASSUME ModuleInv, NEW s \in Space, s # "func" \/ panic = NoPanic,
           NEW p \in LiveLocalPositions(items[s])
    PROVE  /\ Rank(items[s], p) + 1 \in DOMAIN EmittedSpace(s)
           /\ EmittedSpace(s)[Rank(items[s], p) + 1] = <<"local", items[s][p].id>>
<1> DEFINE v == items[s]
           w == Vector(s)
           a == Cardinality(LiveImportPositions(v))
           e == EmittedSpace(s)
           r == Rank(v, p)
<1>1. p \in Live(v)
  BY DEF Live
<1>2. r \in Nat /\ r + 1 \in 1 .. Len(w) /\ w[r + 1] = v[p] /\ a <= r
  BY <1>1, VectorCompacts DEF Compacts
<1>3. /\ DOMAIN e = 1 .. Len(w) /\ a \in Nat /\ Len(w) \in Nat
      /\ \A j \in a + 1 .. Len(w) : e[j] = <<"local", w[j].id>>
  BY SpaceFacts, EmittedLocalsFacts
<1> HIDE DEF v, w, a, e, r
<1>4. r + 1 \in a + 1 .. Len(w)
  BY <1>2, <1>3
<1>5. e[r + 1] = <<"local", v[p].id>> /\ r + 1 \in DOMAIN e
  BY <1>2, <1>3, <1>4
<1> QED
  BY <1>5 DEF e, r, v

\* An imported item is found at its rank if, and only if, that is the number of entries
\* written before its import.
LEMMA ImportsPlaced ==
    ASSUME ModuleInv, NEW s \in Space, s # "func" \/ panic = NoPanic,
           NEW p \in LiveImportPositions(items[s])
    PROVE  /\ Rank(items[s], p) + 1 \in DOMAIN EmittedSpace(s)
           /\ EmittedSpace(s)[Rank(items[s], p) + 1] = <<"import", items[s][p].imp>> <=>
                 Rank(items[s], p) = Below(Written(s), EntryOf(s)[p])
<1> DEFINE v == items[s]
           I == LiveImportPositions(v)
           w == Vector(s)
           a == Cardinality(I)
           e == EmittedSpace(s)
           r == Rank(v, p)
           imps == EmittedImports(s)
           W == Written(s)
           i == v[p].imp + 1
           b == Below(W, i)
<1>1. p \in Live(v) /\ p \in I
  BY DEF Live
<1>2. r \in Nat /\ r + 1 \in 1 .. Len(w) /\ r < a
  BY <1>1, VectorCompacts DEF Compacts
<1>3. /\ DOMAIN e = 1 .. Len(w) /\ a \in Nat
      /\ \A j \in 1 .. a : e[j] = <<"import", imps[j]>>
  BY SpaceFacts, EmittedLocalsFacts
<1>4. EntryOf(s)[p] = i /\ i \in W /\ v[p].imp \in Int
  BY <1>1, WrittenFacts DEF EntryOf
<1>5. W \in SUBSET (1 .. Len(imports)) /\ Len(imports) \in Nat
  BY DEF Written, ModuleInv, Linked, TypeOK, ImportsOK
<1>6. Cardinality(W) = a /\ \A j \in W : imps[Below(W, j) + 1] = j - 1
  BY EmittedImportsFacts, WrittenCount
<1> HIDE DEF W
<1>7. /\ \A k \in 1 .. Cardinality(W) : \E j \in W : Below(W, j) + 1 = k
      /\ \A j \in W : j \in Int
  <2>1. \A k \in 1 .. Cardinality(W) : \E j \in W : Below(W, j) + 1 = k
    BY <1>5, BelowNumbers
  <2>2. \A j \in W : j \in Int
    BY <1>5
  <2> QED
    BY <2>1, <2>2
<1>8. b \in Int
  <2>1. \A x \in Int : Below(W, x) \in 0 .. Cardinality(W)
    BY <1>5, BelowFacts
  <2> QED
    BY <1>4, <1>7, <2>1, <1>6
<1>9. r + 1 \in 1 .. a
  BY <1>2, <1>3
<1>10. e[r + 1] = <<"import", imps[r + 1]>>
  BY <1>3, <1>9
<1>11. ASSUME r = b PROVE e[r + 1] = <<"import", v[p].imp>>
  <2>1. imps[r + 1] = i - 1
    BY <1>4, <1>6, <1>11
  <2>2. i - 1 = v[p].imp
    BY <1>4
  <2> QED
    BY <1>10, <2>1, <2>2
<1>12. ASSUME e[r + 1] = <<"import", v[p].imp>> PROVE r = b
  <2>1. imps[r + 1] = v[p].imp
    BY <1>10, <1>12
  <2>2. PICK j \in W : Below(W, j) + 1 = r + 1
    BY <1>6, <1>7, <1>9
  <2>3. imps[r + 1] = j - 1
    BY <1>6, <2>2
  <2>4. j = i
    BY <1>4, <1>7, <2>1, <2>3
  <2>5. b + 1 = r + 1
    BY <2>2, <2>4
  <2> HIDE DEF b, r
  <2> QED
    BY <1>2, <1>8, <2>5
<1> HIDE DEF e, r, b, i
<1>13. e[r + 1] = <<"import", v[p].imp>> <=> r = b
  BY <1>11, <1>12
<1>14. r + 1 \in DOMAIN e
  BY <1>2, <1>3
<1> QED
  BY <1>4, <1>13, <1>14 DEF e, r, b, i, v, W

\* The live imports of space s stand in the vector in import-section order.
InSectionOrder(s) ==
    \A p, q \in LiveImportPositions(items[s]) :
        p < q => items[s][p].imp < items[s][q].imp

LEMMA ImportsPlacedInOrder ==
    ASSUME ModuleInv, NEW s \in Space, s # "func" \/ panic = NoPanic
    PROVE  InSectionOrder(s) <=>
              \A p \in LiveImportPositions(items[s]) :
                 EmittedSpace(s)[Rank(items[s], p) + 1] = <<"import", items[s][p].imp>>
<1> DEFINE v == items[s]
           I == LiveImportPositions(v)
           n == Len(v)
           m == Len(imports)
           W == Written(s)
           f == EntryOf(s)
<1>1. I \in SUBSET (1 .. n) /\ n \in Nat /\ W \in SUBSET (1 .. m) /\ m \in Nat
  BY LivePositions DEF Written, ModuleInv, Linked, TypeOK, ImportsOK, ItemsOK
<1>2. /\ f \in [I -> W] /\ \A t \in W : \E p \in I : f[p] = t
      /\ \A p \in I : v[p].imp \in Int /\ f[p] = v[p].imp + 1
  BY WrittenFacts, EntryOfIsOnto DEF EntryOf
<1>3. \A p \in I : EmittedSpace(s)[Rank(v, p) + 1] = <<"import", v[p].imp>> <=>
                      Rank(v, p) = Below(W, f[p])
  BY ImportsPlaced
<1>4. \A p \in I : Rank(v, p) = Below(I, p)
  BY DEF Rank
<1>5. \A p \in I : p \in Int
  BY <1>1
<1>6. InSectionOrder(s) <=> \A p, q \in I : p < q => f[p] < f[q]
  <2>1. \A p, q \in I : f[p] < f[q] <=> v[p].imp < v[q].imp
    BY <1>2
  <2>2. InSectionOrder(s) <=> \A p, q \in I : p < q => v[p].imp < v[q].imp
    BY DEF InSectionOrder
  <2> HIDE DEF I, v, f
  <2> QED
    BY <2>1, <2>2
<1> HIDE DEF v, I, n, m, W, f
<1>7. ASSUME \A p, q \in I : p < q => f[p] < f[q]
      PROVE  \A p \in I : Below(W, f[p]) = Below(I, p)
  BY <1>1, <1>2, <1>7, MonotoneCounts
<1>8. ASSUME \A p \in I : Below(W, f[p]) = Below(I, p)
      PROVE  \A p, q \in I : p < q => f[p] < f[q]
  <2> TAKE p, q \in I
  <2> HAVE p < q
  <2>1. Below(I, p) < Below(I, q)
    BY <1>1, <1>5, BelowMonotone
  <2>2. /\ f[p] \in W /\ f[q] \in W /\ f[p] \in Int /\ f[q] \in Int
    BY <1>1, <1>2
  <2>3. Below(W, f[p]) < Below(W, f[q])
    BY <1>8, <2>1
  <2>4. Below(W, f[p]) \in Int /\ Below(W, f[q]) \in Int
    <3>1. \A x \in Int : Below(W, x) \in 0 .. Cardinality(W)
      BY <1>1, BelowFacts
    <3> QED
      BY <2>2, <3>1
  <2>5. f[q] < f[p] => Below(W, f[q]) < Below(W, f[p])
    BY <1>1, <2>2, BelowMonotone
  <2>6. f[q] # f[p]
    BY <2>3, <2>4
  <2>7. ~(f[q] < f[p])
    BY <2>3, <2>4, <2>5
  <2> QED
    BY <2>2, <2>6, <2>7
<1>9. (\A p, q \in I : p < q => f[p] < f[q]) <=> \A p \in I : Rank(v, p) = Below(W, f[p])
  BY <1>4, <1>7, <1>8
<1>10. InSectionOrder(s) <=>
          \A p \in I : EmittedSpace(s)[Rank(v, p) + 1] = <<"import", v[p].imp>>
  BY <1>3, <1>6, <1>9
<1> QED
  BY <1>10 DEF I, v
(***************************************************************************)
(* Handles: the encoded binary, read at the index a handle is mapped to.   *)
(***************************************************************************)
LEMMA LocalsResolve ==
    ASSUME ModuleInv, NEW s \in Space, s # "func" \/ panic = NoPanic, PositionIdsIn(s),
           NEW h \in LiveHandles(s), IsLocal(At(s, h))
    PROVE  Faithful(s, h)
<1> DEFINE p == h + 1
<1>1. ItemsOK
  BY DEF ModuleInv, Linked, TypeOK
<1>2. p \in LiveLocalPositions(items[s]) /\ At(s, h) = items[s][p]
  BY <1>1, LiveIsLiveHandles
<1>3. h \in DOMAIN Mapping(s) /\ Mapping(s)[h] = Rank(items[s], p)
  BY MappingFacts
<1>4. /\ Rank(items[s], p) + 1 \in DOMAIN EmittedSpace(s)
      /\ EmittedSpace(s)[Rank(items[s], p) + 1] = <<"local", items[s][p].id>>
  BY <1>2, LocalsPlaced
<1>5. Denotes(s, h) = <<"local", items[s][p].id>>
  BY <1>2 DEF Denotes, IsLocal, IsImport
<1> HIDE DEF p
<1> QED
  BY <1>3, <1>4, <1>5 DEF Faithful, Resolves

LEMMA ImportsResolve ==
    ASSUME ModuleInv, NEW s \in Space, s # "func" \/ panic = NoPanic, PositionIdsIn(s)
    PROVE  InSectionOrder(s) <=>
              \A h \in LiveHandles(s) : IsImport(At(s, h)) => Faithful(s, h)
<1> DEFINE v == items[s]
           I == LiveImportPositions(v)
           Found(p) == EmittedSpace(s)[Rank(v, p) + 1] = <<"import", v[p].imp>>
<1>1. ItemsOK
  BY DEF ModuleInv, Linked, TypeOK
<1>2. InSectionOrder(s) <=> \A p \in I : Found(p)
  BY ImportsPlacedInOrder
<1>3. ASSUME NEW h \in LiveHandles(s), IsImport(At(s, h))
      PROVE  h + 1 \in I /\ (Faithful(s, h) <=> Found(h + 1))
  <2> DEFINE p == h + 1
  <2>1. p \in I /\ At(s, h) = v[p]
    BY <1>1, <1>3, LiveIsLiveHandles
  <2>2. h \in DOMAIN Mapping(s) /\ Mapping(s)[h] = Rank(v, p)
    BY MappingFacts
  <2>3. Rank(v, p) + 1 \in DOMAIN EmittedSpace(s)
    BY <2>1, ImportsPlaced
  <2>4. Denotes(s, h) = <<"import", v[p].imp>>
    BY <1>3, <2>1 DEF Denotes
  <2> HIDE DEF p, v, I
  <2>5. Faithful(s, h) <=> Found(p)
    BY <2>2, <2>3, <2>4 DEF Faithful, Resolves
  <2> QED
    BY <2>1, <2>5 DEF p
<1>4. ASSUME NEW p \in I
      PROVE  p - 1 \in LiveHandles(s) /\ IsImport(At(s, p - 1)) /\ p - 1 + 1 = p
  <2>1. p \in Live(v)
    BY DEF Live
  <2>2. p - 1 \in LiveHandles(s) /\ p - 1 + 1 = p
    BY <1>1, <2>1, LiveIsLiveHandles
  <2>3. At(s, p - 1) = v[p]
    BY <2>2 DEF At
  <2>4. v[p].kind = "import"
    BY DEF LiveImportPositions
  <2> QED
    BY <2>2, <2>3, <2>4 DEF IsImport
<1> HIDE DEF I, Found
<1>5. (\A p \in I : Found(p)) => \A h \in LiveHandles(s) : IsImport(At(s, h)) => Faithful(s, h)
  BY <1>3
<1>6. ASSUME \A h \in LiveHandles(s) : IsImport(At(s, h)) => Faithful(s, h), NEW p \in I
      PROVE  Found(p)
  <2> DEFINE h == p - 1
  <2>1. h \in LiveHandles(s) /\ IsImport(At(s, h)) /\ h + 1 = p
    BY <1>4
  <2> HIDE DEF h
  <2> QED
    BY <1>3, <1>6, <2>1
<1> QED
  BY <1>2, <1>5, <1>6

LEMMA OrderOfHandles ==
    ASSUME ItemsOK
    PROVE  /\ \A s \in Space : Ascending(items[s]) => InSectionOrder(s)
           /\ AscendingFuncImports <=> InSectionOrder("func")
<1>1. ASSUME NEW s \in Space, Ascending(items[s]) PROVE InSectionOrder(s)
  <2>1. items[s] \in Seq(Item)
    BY DEF ItemsOK
  <2>2. \A p \in LiveImportPositions(items[s]) :
           p \in 1 .. Len(items[s]) /\ items[s][p].kind = "import"
    BY <2>1 DEF LiveImportPositions
  <2> QED
    BY <1>1, <2>2 DEF InSectionOrder, Ascending
<1> DEFINE v == items["func"]
           I == LiveImportPositions(v)
<1>2. "func" \in Space
  BY DEF Space
<1>3. \A h \in LiveHandles("func") :
         /\ h \in Int /\ At("func", h) = v[h + 1]
         /\ h + 1 \in I <=> IsImport(At("func", h))
  BY <1>2, LiveIsLiveHandles
<1>4. \A p \in I : p - 1 \in LiveHandles("func") /\ p \in Int /\ p - 1 + 1 = p
  BY <1>2, LiveIsLiveHandles DEF Live
<1>5. ASSUME AscendingFuncImports PROVE InSectionOrder("func")
  <2> SUFFICES ASSUME NEW p \in I, NEW q \in I, p < q PROVE v[p].imp < v[q].imp
    BY DEF InSectionOrder
  <2> DEFINE h == p - 1
             k == q - 1
  <2>1. /\ h \in LiveHandles("func") /\ k \in LiveHandles("func")
        /\ h + 1 = p /\ k + 1 = q /\ h < k
    BY <1>4
  <2> HIDE DEF h, k, I
  <2> QED
    BY <1>3, <1>5, <2>1 DEF AscendingFuncImports
<1>6. ASSUME InSectionOrder("func") PROVE AscendingFuncImports
  <2> SUFFICES ASSUME NEW h \in LiveHandles("func"), NEW k \in LiveHandles("func"),
                      IsImport(At("func", h)), IsImport(At("func", k)), h < k
               PROVE  At("func", h).imp < At("func", k).imp
    BY DEF AscendingFuncImports
  <2>1. /\ h + 1 \in I /\ k + 1 \in I /\ h + 1 < k + 1
        /\ At("func", h) = v[h + 1] /\ At("func", k) = v[k + 1]
    BY <1>3
  <2> QED
    BY <1>6, <2>1 DEF InSectionOrder
<1> QED
  BY <1>1, <1>5, <1>6

LEMMA NumberedFacts ==
    ASSUME ModuleInv
    PROVE  /\ PositionIdsIn("global") /\ PositionIdsIn("memory")
           /\ FuncIdsChecked => \A s \in Space : PositionIdsIn(s)
           /\ ItemsOK
<1>1. \A s \in NumberedSpaces : PositionIdsIn(s)
  BY DEF ModuleInv, Numbered
<1>2. "global" \in NumberedSpaces /\ "memory" \in NumberedSpaces
  BY DEF NumberedSpaces
<1>3. FuncIdsChecked => \A s \in Space : s \in NumberedSpaces
  BY DEF NumberedSpaces, Space
<1> QED
  BY <1>1, <1>2, <1>3 DEF ModuleInv, Linked, TypeOK

\* Globals and memories: whatever a handle stands for is what the binary gives it.
LEMMA GlobalsAndMemoriesResolve ==
    ASSUME ModuleInv, NEW s \in {"global", "memory"}, NEW h \in LiveHandles(s)
    PROVE  Faithful(s, h)
<1>1. s \in Space /\ s # "func" /\ PositionIdsIn(s) /\ ItemsOK
  BY NumberedFacts DEF Space
<1>2. Ascending(items[s])
  BY <1>1 DEF ModuleInv, Settled, SettledIn
<1>3. InSectionOrder(s)
  BY <1>1, <1>2, OrderOfHandles
<1>4. IsImport(At(s, h)) \/ IsLocal(At(s, h))
  <2>1. h \in Handles(s)
    BY DEF LiveHandles
  <2>2. At(s, h) \in Item
    BY <1>1, <2>1, ItemAt
  <2> QED
    BY <2>2 DEF Item, IsImport, IsLocal
<1> QED
  BY <1>1, <1>3, <1>4, LocalsResolve, ImportsResolve

(***************************************************************************)
(* Theorems.  What they say of functions they say of modules whose         *)
(* function IDs are positions: FuncIdsChecked is part of the properties.   *)
(***************************************************************************)
\* Exactly the live items keep an index, and it is the number of live items before them in
\* binary order (reorganize, get_mapping_generic).
THEOREM MappingExactHolds == Spec => []MappingExact
<1>1. ModuleInv => MappingExact
  BY NumberedFacts, MappingFacts DEF MappingExact
<1> QED
  BY <1>1, ModuleInvHolds, PTL

\* A live local item is itself in the binary, at the index its ID is mapped to.
THEOREM LocalsFaithfulHolds == Spec => []LocalsFaithful
<1>1. ModuleInv => LocalsFaithful
  BY NumberedFacts, LocalsResolve DEF LocalsFaithful
<1> QED
  BY <1>1, ModuleInvHolds, PTL

\* A live imported global or memory is the import it was created for, in every build and
\* for every parsed module.
THEOREM ImportsFaithfulHolds == Spec => []ImportsFaithful
<1>1. ModuleInv => ImportsFaithful
  BY GlobalsAndMemoriesResolve DEF ImportsFaithful
<1> QED
  BY <1>1, ModuleInvHolds, PTL

\* The imported functions are all found by their IDs if, and only if, they stand in the
\* vector in import-section order, which convert_local_fn_to_import does not keep.
THEOREM FuncImportsFaithfulHolds == Spec => []FuncImportsFaithfulIffAscending
<1>1. ASSUME ModuleInv, panic = NoPanic, FuncIdsChecked
      PROVE  FuncImportsFaithful <=> AscendingFuncImports
  <2>1. "func" \in Space /\ PositionIdsIn("func") /\ ItemsOK
    BY <1>1, NumberedFacts DEF Space
  <2>2. InSectionOrder("func") <=>
           \A h \in LiveHandles("func") : IsImport(At("func", h)) => Faithful("func", h)
    BY <1>1, <2>1, ImportsResolve
  <2>3. AscendingFuncImports <=> InSectionOrder("func")
    BY <2>1, OrderOfHandles
  <2> QED
    BY <1>1, <2>2, <2>3 DEF FuncImportsFaithful
<1>2. ModuleInv => FuncImportsFaithfulIffAscending
  BY <1>1 DEF FuncImportsFaithfulIffAscending
<1> QED
  BY <1>2, ModuleInvHolds, PTL
(***************************************************************************)
(* References and names.                                                   *)
(***************************************************************************)
\* The references of a module are typed.
LEMMA RefsTyped ==
    ASSUME TypeOK
    PROVE  /\ tables \in SUBSET Ref
           /\ \A s \in Space : RefsOf(s) \in SUBSET Ref
           /\ \A s \in Space : Refs(s, ExportedIds(s)) \in SUBSET Ref
           /\ \A i \in DOMAIN elements :
                 /\ Refs("func", elements[i].funcs) \in SUBSET Ref
                 /\ elements[i].exprs \in SUBSET Ref
           /\ \A d \in DOMAIN data :
                 /\ data[d].offset \in SUBSET Ref
                 /\ Refs("memory", {data[d].memory}) \in SUBSET Ref
<1>1. \A s \in Space : \A ids \in SUBSET Nat : Refs(s, ids) \in SUBSET Ref
  BY DEF Refs, Ref
<1>2. ASSUME NEW s \in Space PROVE RefsOf(s) \in SUBSET Ref
  <2>1. ASSUME NEW h \in LiveHandles(s) PROVE At(s, h).refs \in SUBSET Ref
    <3>1. h \in Handles(s)
      BY DEF LiveHandles
    <3>2. At(s, h) \in Item
      BY <3>1, ItemAt DEF TypeOK
    <3> QED
      BY <3>2 DEF Item
  <2> QED
    BY <2>1 DEF RefsOf
<1>3. ASSUME NEW s \in Space PROVE ExportedIds(s) \in SUBSET Nat
  <2>0. \A e \in DOMAIN exports : exports[e] \in Export
    BY DEF TypeOK
  <2>1. \A e \in DOMAIN exports : exports[e].index \in Nat
    BY <2>0 DEF Export
  <2> QED
    BY <2>1 DEF ExportedIds, LiveExports
<1>4. \A i \in DOMAIN elements : elements[i] \in Element
  BY DEF TypeOK
<1>5. \A d \in DOMAIN data : data[d] \in Data
  BY DEF TypeOK
<1>6. \A i \in DOMAIN elements : elements[i].funcs \in SUBSET Nat /\ elements[i].exprs \in SUBSET Ref
  BY <1>4 DEF Element
<1>7. \A d \in DOMAIN data : data[d].offset \in SUBSET Ref /\ {data[d].memory} \in SUBSET Nat
  BY <1>5 DEF Data
<1>8. tables \in SUBSET Ref /\ "func" \in Space /\ "memory" \in Space
  BY DEF TypeOK, Space
<1> QED
  BY <1>1, <1>2, <1>3, <1>6, <1>7, <1>8

LEMMA SequenceMade ==
    ASSUME NEW n \in Nat, NEW T, NEW f \in [1 .. n -> T]
    PROVE  f \in Seq(T) /\ Len(f) = n
OBVIOUS

LEMMA TwoParts ==
    ASSUME NEW T, NEW a \in Seq(T), NEW b \in Seq(T)
    PROVE  /\ a \o b \in Seq(T) /\ Len(a \o b) = Len(a) + Len(b)
           /\ \A i \in 1 .. Len(a) : (a \o b)[i] = a[i]
           /\ \A i \in 1 .. Len(b) : (a \o b)[Len(a) + i] = b[i]
OBVIOUS

LEMMA ThreeParts ==
    ASSUME NEW T, NEW a \in Seq(T), NEW b \in Seq(T), NEW c \in Seq(T), NEW z,
           z = a \o b \o c
    PROVE  /\ z \in Seq(T) /\ Len(z) = Len(a) + Len(b) + Len(c)
           /\ \A i \in 1 .. Len(a) : z[i] = a[i]
           /\ \A i \in 1 .. Len(b) : z[Len(a) + i] = b[i]
           /\ \A i \in 1 .. Len(c) : z[Len(a) + Len(b) + i] = c[i]
<1> DEFINE y == a \o b
<1>1. /\ y \in Seq(T) /\ Len(y) = Len(a) + Len(b)
      /\ \A i \in 1 .. Len(a) : y[i] = a[i]
      /\ \A i \in 1 .. Len(b) : y[Len(a) + i] = b[i]
  BY TwoParts
<1>2. z = y \o c
  OBVIOUS
<1> HIDE DEF y
<1>3. /\ z \in Seq(T) /\ Len(z) = Len(y) + Len(c)
      /\ \A i \in 1 .. Len(y) : z[i] = y[i]
      /\ \A i \in 1 .. Len(c) : z[Len(y) + i] = c[i]
  <2>1. /\ y \o c \in Seq(T) /\ Len(y \o c) = Len(y) + Len(c)
        /\ \A i \in 1 .. Len(y) : (y \o c)[i] = y[i]
        /\ \A i \in 1 .. Len(c) : (y \o c)[Len(y) + i] = c[i]
    <3>1. y \in Seq(T) /\ c \in Seq(T)
      BY <1>1
    <3> HIDE <1>1, <1>2
    <3> QED
      BY ONLY <3>1, TwoParts
  <2> QED
    BY ONLY <1>2, <2>1
<1>4. Len(a) \in Nat /\ Len(b) \in Nat
  OBVIOUS
<1>5. /\ \A i \in 1 .. Len(a) : i \in 1 .. Len(y)
      /\ \A i \in 1 .. Len(b) : Len(a) + i \in 1 .. Len(y)
  BY <1>1, <1>4
<1> QED
  BY <1>1, <1>3, <1>5

\* The sites, one by one.
LEMMA SitesListed ==
    ASSUME TypeOK
    PROVE  LET n == Len(elements)
           IN  /\ n \in Nat /\ DOMAIN elements = 1 .. n /\ DOMAIN Sites = 1 .. n + 5
               /\ Sites[1] = Site({}, tables) /\ Sites[2] = Site({}, RefsOf("global"))
               /\ Sites[3] = ExportSite
               /\ \A i \in 1 .. n : Sites[i + 3] = ElementSite(elements[i])
               /\ Sites[n + 4] = Site({}, RefsOf("func")) /\ Sites[n + 5] = DataSite
<1> DEFINE n == Len(elements)
           a == <<Site({}, tables), Site({}, RefsOf("global")), ExportSite>>
           b == [i \in DOMAIN elements |-> ElementSite(elements[i])]
           c == <<Site({}, RefsOf("func")), DataSite>>
           T == {a[1], a[2], a[3], c[1], c[2]} \cup {b[i] : i \in DOMAIN elements}
<1>1. n \in Nat /\ DOMAIN elements = 1 .. n
  BY DEF TypeOK
<1>2. a \in Seq(T) /\ Len(a) = 3 /\ c \in Seq(T) /\ Len(c) = 2
  OBVIOUS
<1>3. b \in Seq(T) /\ Len(b) = n
  <2>1. b \in [1 .. n -> T]
    BY <1>1
  <2> HIDE DEF b, T, n
  <2> QED
    BY <1>1, <2>1, SequenceMade
<1>4. Sites = a \o b \o c
  BY DEF Sites
<1>5. \A i \in 1 .. n : b[i] = ElementSite(elements[i])
  BY <1>1
<1>6. /\ a[1] = Site({}, tables) /\ a[2] = Site({}, RefsOf("global")) /\ a[3] = ExportSite
      /\ c[1] = Site({}, RefsOf("func")) /\ c[2] = DataSite
  OBVIOUS
<1> HIDE DEF a, b, c, T, n
<1>7. /\ Sites \in Seq(T) /\ Len(Sites) = 3 + n + 2
      /\ \A i \in 1 .. 3 : Sites[i] = a[i]
      /\ \A i \in 1 .. n : Sites[3 + i] = b[i]
      /\ \A i \in 1 .. 2 : Sites[3 + n + i] = c[i]
  <2> DEFINE z == Sites
  <2>1. z = a \o b \o c
    BY <1>4
  <2> HIDE DEF z
  <2>2. /\ z \in Seq(T) /\ Len(z) = Len(a) + Len(b) + Len(c)
        /\ \A i \in 1 .. Len(a) : z[i] = a[i]
        /\ \A i \in 1 .. Len(b) : z[Len(a) + i] = b[i]
        /\ \A i \in 1 .. Len(c) : z[Len(a) + Len(b) + i] = c[i]
    <3>1. a \in Seq(T) /\ b \in Seq(T) /\ c \in Seq(T)
      BY <1>2, <1>3
    <3> QED
      BY ONLY <2>1, <3>1, ThreeParts
  <2> QED
    BY <1>2, <1>3, <2>2 DEF z
<1>8. DOMAIN Sites = 1 .. n + 5
  BY <1>1, <1>7
<1>9. Sites[1] = a[1] /\ Sites[2] = a[2] /\ Sites[3] = a[3]
  BY <1>7
<1>10. Sites[n + 4] = c[1] /\ Sites[n + 5] = c[2]
  <2>1. Sites[3 + n + 1] = c[1] /\ Sites[3 + n + 2] = c[2]
    BY <1>7
  <2>2. 3 + n + 1 = n + 4 /\ 3 + n + 2 = n + 5
    BY <1>1
  <2> QED
    BY <2>1, <2>2
<1>11. \A i \in 1 .. n : Sites[i + 3] = ElementSite(elements[i])
  <2> TAKE i \in 1 .. n
  <2>1. i + 3 = 3 + i
    BY <1>1
  <2> QED
    BY <1>5, <1>7, <2>1
<1> QED
  BY <1>1, <1>6, <1>8, <1>9, <1>10, <1>11 DEF n

LEMMA UnionOfUnions ==
    ASSUME NEW I, NEW O, NEW M
    PROVE  UNION {O[d] \cup M[d] : d \in I} = (UNION {O[d] : d \in I}) \cup (UNION {M[d] : d \in I})
<1> DEFINE L == UNION {O[d] \cup M[d] : d \in I}
           R == (UNION {O[d] : d \in I}) \cup (UNION {M[d] : d \in I})
<1>1. ASSUME NEW x \in L PROVE x \in R
  <2>1. PICK d \in I : x \in O[d] \cup M[d]
    OBVIOUS
  <2> QED
    BY <2>1
<1>2. ASSUME NEW x \in R PROVE x \in L
  <2>1. PICK d \in I : x \in O[d] \/ x \in M[d]
    OBVIOUS
  <2> QED
    BY <2>1
<1> QED
  BY <1>1, <1>2

\* What the sites hold, put together.
LEMMA SitesHold ==
    ASSUME TypeOK
    PROVE  /\ \A i \in DOMAIN Sites : /\ Sites[i].unwrapped \in SUBSET ListedRefs
                                      /\ Sites[i].unwrapped \in SUBSET Ref
                                      /\ Sites[i].checked \in SUBSET Ref
           /\ SiteRefs = HeldRefs
           /\ {1, 2} \subseteq DOMAIN Sites /\ DOMAIN Sites \subseteq Nat
           /\ Sites[1] = Site({}, tables) /\ Sites[2] = Site({}, RefsOf("global"))
<1> DEFINE n == Len(elements)
           D == UNION {data[d].offset \cup Refs("memory", {data[d].memory}) : d \in DOMAIN data}
           X == Refs("func", ExportedIds("func")) \cup Refs("memory", ExportedIds("memory"))
<1>1. /\ n \in Nat /\ DOMAIN elements = 1 .. n /\ DOMAIN Sites = 1 .. n + 5
      /\ Sites[1] = Site({}, tables) /\ Sites[2] = Site({}, RefsOf("global"))
      /\ Sites[3] = ExportSite
      /\ \A i \in 1 .. n : Sites[i + 3] = ElementSite(elements[i])
      /\ Sites[n + 4] = Site({}, RefsOf("func")) /\ Sites[n + 5] = DataSite
  BY SitesListed
<1>2. \A x, y : Site(x, y).unwrapped = x /\ Site(x, y).checked = y
  BY DEF Site
<1>3. /\ Sites[1].unwrapped = {} /\ Sites[1].checked = tables
      /\ Sites[2].unwrapped = {} /\ Sites[2].checked = RefsOf("global")
      /\ Sites[3].unwrapped = X /\ Sites[3].checked = {}
      /\ Sites[n + 4].unwrapped = {} /\ Sites[n + 4].checked = RefsOf("func")
      /\ Sites[n + 5].unwrapped = {} /\ Sites[n + 5].checked = D
  <2>1. ExportSite = Site(X, {}) /\ DataSite = Site({}, D)
    BY DEF ExportSite, DataSite
  <2> HIDE DEF X, D
  <2>2. /\ Sites[1] = Site({}, tables) /\ Sites[2] = Site({}, RefsOf("global"))
        /\ Sites[3] = Site(X, {}) /\ Sites[n + 4] = Site({}, RefsOf("func"))
        /\ Sites[n + 5] = Site({}, D)
    BY <1>1, <2>1
  <2> HIDE DEF n
  <2> QED
    BY <1>2, <2>2
<1>4. \A i \in 1 .. n : /\ Sites[i + 3].unwrapped = Refs("func", elements[i].funcs)
                        /\ Sites[i + 3].checked = elements[i].exprs
  BY <1>1, <1>2 DEF ElementSite
<1>5. \A i \in DOMAIN Sites :
         i \in {1, 2, 3, n + 4, n + 5} \/ \E j \in 1 .. n : i = j + 3
  <2> TAKE i \in DOMAIN Sites
  <2>1. i \in {1, 2, 3, n + 4, n + 5} \/ i - 3 \in 1 .. n
    BY <1>1
  <2>2. i = (i - 3) + 3
    BY <1>1
  <2> QED
    BY <2>1, <2>2
<1>6. /\ 1 \in DOMAIN Sites /\ 2 \in DOMAIN Sites /\ 3 \in DOMAIN Sites
      /\ n + 4 \in DOMAIN Sites /\ n + 5 \in DOMAIN Sites
      /\ \A j \in 1 .. n : j + 3 \in DOMAIN Sites
  BY <1>1
<1>7. /\ X \in SUBSET Ref /\ D \in SUBSET Ref /\ tables \in SUBSET Ref
      /\ RefsOf("func") \in SUBSET Ref /\ RefsOf("global") \in SUBSET Ref
      /\ \A i \in 1 .. n : /\ Refs("func", elements[i].funcs) \in SUBSET Ref
                           /\ elements[i].exprs \in SUBSET Ref
  BY <1>1, RefsTyped DEF Space
<1>8. D = (UNION {data[d].offset : d \in DOMAIN data})
            \cup Refs("memory", {data[d].memory : d \in DOMAIN data})
  <2> DEFINE O == [d \in DOMAIN data |-> data[d].offset]
             M == [d \in DOMAIN data |-> Refs("memory", {data[d].memory})]
             D1 == UNION {O[d] \cup M[d] : d \in DOMAIN data}
             O1 == UNION {O[d] : d \in DOMAIN data}
             M1 == UNION {M[d] : d \in DOMAIN data}
  <2>1. D = D1 /\ UNION {data[d].offset : d \in DOMAIN data} = O1
    OBVIOUS
  <2>2. Refs("memory", {data[d].memory : d \in DOMAIN data}) = M1
    BY DEF Refs
  <2>3. D1 = O1 \cup M1
    <3> HIDE DEF O, M
    <3> QED
      BY ONLY UnionOfUnions
  <2> HIDE DEF O, M, D, D1, O1, M1
  <2> QED
    BY ONLY <2>1, <2>2, <2>3
<1>9. Refs("func", UNION {elements[i].funcs : i \in DOMAIN elements})
        = UNION {Refs("func", elements[i].funcs) : i \in 1 .. n}
  BY <1>1 DEF Refs
<1> DEFINE F == UNION {Refs("func", elements[i].funcs) : i \in 1 .. n}
           G == UNION {elements[i].exprs : i \in 1 .. n}
<1>10. ListedRefs = X \cup F
  BY <1>9 DEF ListedRefs
<1>11. HeldRefs = tables \cup RefsOf("global") \cup X \cup F \cup RefsOf("func") \cup G \cup D
  <2> DEFINE O == UNION {data[d].offset : d \in DOMAIN data}
             M == Refs("memory", {data[d].memory : d \in DOMAIN data})
             E == UNION {elements[i].exprs : i \in DOMAIN elements}
  <2>1. HeldRefs = (tables \cup RefsOf("global")) \cup ListedRefs \cup RefsOf("func")
                       \cup E \cup O \cup M
    BY DEF HeldRefs, InitialiserRefs
  <2>2. E = G
    BY <1>1
  <2>3. D = O \cup M
    BY <1>8
  <2> HIDE DEF X, F, G, D, O, M, E
  <2> QED
    BY ONLY <1>10, <2>1, <2>2, <2>3
<1>12. SiteRefs = tables \cup RefsOf("global") \cup X \cup F \cup RefsOf("func") \cup G \cup D
  <2> DEFINE A == tables \cup RefsOf("global") \cup X \cup F \cup RefsOf("func") \cup G \cup D
  <2> HIDE DEF X, D, n
  <2>1. ASSUME NEW i \in DOMAIN Sites PROVE Sites[i].unwrapped \cup Sites[i].checked \in SUBSET A
    <3>1. CASE i \in {1, 2, 3, n + 4, n + 5}
      BY <1>3, <3>1
    <3>2. ASSUME NEW j \in 1 .. n, i = j + 3
          PROVE  Sites[i].unwrapped \cup Sites[i].checked \in SUBSET A
      BY <1>4, <3>2
    <3> QED
      BY <1>5, <3>1, <3>2
  <2>2. SiteRefs \subseteq A
    BY <2>1 DEF SiteRefs
  <2>3. \A i \in DOMAIN Sites : Sites[i].unwrapped \cup Sites[i].checked \in SUBSET SiteRefs
    BY DEF SiteRefs
  <2>4. tables \cup RefsOf("global") \cup X \cup RefsOf("func") \cup D \in SUBSET SiteRefs
    BY <1>3, <1>6, <2>3
  <2>5. F \cup G \in SUBSET SiteRefs
    BY <1>4, <1>6, <2>3
  <2> QED
    BY <2>2, <2>4, <2>5
<1>13. ASSUME NEW i \in DOMAIN Sites
       PROVE  /\ Sites[i].unwrapped \in SUBSET ListedRefs
              /\ Sites[i].unwrapped \in SUBSET Ref /\ Sites[i].checked \in SUBSET Ref
  <2> HIDE DEF X, D, n
  <2>1. CASE i \in {1, 2, 3, n + 4, n + 5}
    BY <1>3, <1>7, <1>10, <2>1
  <2>2. ASSUME NEW j \in 1 .. n, i = j + 3
        PROVE  /\ Sites[i].unwrapped \in SUBSET ListedRefs
               /\ Sites[i].unwrapped \in SUBSET Ref /\ Sites[i].checked \in SUBSET Ref
    BY <1>4, <1>7, <1>10, <2>2
  <2> QED
    BY <1>5, <2>1, <2>2
<1> QED
  BY <1>1, <1>6, <1>11, <1>12, <1>13

LEMMA EncodesInv == ModuleInv => EncodesIffNoDanglingRef
<1>1. ASSUME ModuleInv, FuncIdsChecked
      PROVE  /\ EncodeOutcome = "ok" <=> ~Dangling(HeldRefs)
             /\ EncodeOutcome = "panic" => Dangling(ListedRefs)
             /\ Dangling(InitialiserRefs) => EncodeOutcome = "error"
  <2>1. TypeOK
    BY <1>1 DEF ModuleInv, Linked
  <2>2. \A s \in Space : DOMAIN Mapping(s) = LiveHandles(s)
    BY <1>1, NumberedFacts, MappingFacts
  <2>3. \A refs \in SUBSET Ref : Unmapped(refs) # {} <=> Dangling(refs)
    BY <2>2 DEF Unmapped, Dangling, Ref
  <2>4. /\ \A i \in DOMAIN Sites : /\ Sites[i].unwrapped \in SUBSET ListedRefs
                                   /\ Sites[i].unwrapped \in SUBSET Ref
                                   /\ Sites[i].checked \in SUBSET Ref
        /\ SiteRefs = HeldRefs
        /\ {1, 2} \subseteq DOMAIN Sites /\ DOMAIN Sites \subseteq Nat
        /\ Sites[1] = Site({}, tables) /\ Sites[2] = Site({}, RefsOf("global"))
    BY <2>1, SitesHold
  <2>5. \A i \in DOMAIN Sites :
           i \in FailingSites <=> Dangling(Sites[i].unwrapped \cup Sites[i].checked)
    BY <2>3, <2>4 DEF FailingSites
  <2>6. FailingSites = {} <=> ~Dangling(HeldRefs)
    <3>1. Dangling(SiteRefs) <=>
             \E i \in DOMAIN Sites : Dangling(Sites[i].unwrapped \cup Sites[i].checked)
      BY DEF SiteRefs, Dangling
    <3>2. FailingSites \subseteq DOMAIN Sites
      BY DEF FailingSites
    <3> QED
      BY <2>4, <2>5, <3>1, <3>2
  <2>7. ASSUME FailingSites # {}
        PROVE  FirstFailing \in FailingSites /\ \A j \in FailingSites : FirstFailing <= j
    <3>1. FailingSites \in SUBSET Nat
      BY <2>4 DEF FailingSites
    <3>2. \E i \in FailingSites : \A j \in FailingSites : i <= j
      BY <2>7, <3>1, LeastElement
    <3> HIDE <2>7
    <3> QED
      BY <3>2 DEF FirstFailing
  <2> DEFINE Panics == Unmapped(Sites[FirstFailing].unwrapped) # {}
  <2>8. /\ FailingSites = {} => EncodeOutcome = "ok"
        /\ FailingSites # {} /\ Panics => EncodeOutcome = "panic"
        /\ FailingSites # {} /\ ~Panics => EncodeOutcome = "error"
    BY DEF EncodeOutcome
  <2>9. EncodeOutcome = "ok" <=> ~Dangling(HeldRefs)
    BY <2>6, <2>8
  <2>10. ASSUME FailingSites # {}, Panics PROVE Dangling(ListedRefs)
    <3>1. FirstFailing \in DOMAIN Sites
      BY <2>7, <2>10 DEF FailingSites
    <3>2. Dangling(Sites[FirstFailing].unwrapped)
      BY <2>3, <2>4, <2>10, <3>1
    <3> QED
      BY <2>4, <3>1, <3>2 DEF Dangling
  <2>11. EncodeOutcome = "panic" => Dangling(ListedRefs)
    <3> HIDE DEF Panics
    <3> QED
      BY <2>8, <2>10
  <2>12. ASSUME Dangling(InitialiserRefs) PROVE EncodeOutcome = "error"
    <3>0. \A x, y : Site(x, y).unwrapped = x /\ Site(x, y).checked = y
      BY DEF Site
    <3>1. Dangling(tables) \/ Dangling(RefsOf("global"))
      BY <2>12 DEF Dangling, InitialiserRefs
    <3>2. 1 \in FailingSites \/ 2 \in FailingSites
      <4>1. /\ Sites[1].unwrapped \cup Sites[1].checked = tables
            /\ Sites[2].unwrapped \cup Sites[2].checked = RefsOf("global")
        BY <2>4, <3>0
      <4>2. 1 \in DOMAIN Sites /\ 2 \in DOMAIN Sites
        BY <2>4
      <4>3. CASE Dangling(tables)
        <5>1. Dangling(Sites[1].unwrapped \cup Sites[1].checked)
          BY <4>1, <4>3 DEF Dangling
        <5> QED
          BY <2>5, <4>2, <5>1
      <4>4. CASE Dangling(RefsOf("global"))
        <5>1. Dangling(Sites[2].unwrapped \cup Sites[2].checked)
          BY <4>1, <4>4 DEF Dangling
        <5> QED
          BY <2>5, <4>2, <5>1
      <4> QED
        BY <3>1, <4>3, <4>4
    <3>3. FirstFailing \in Nat /\ FirstFailing \in DOMAIN Sites /\ FirstFailing <= 2
      <4>1. FailingSites # {}
        BY <3>2
      <4>2. FirstFailing \in FailingSites /\ \A j \in FailingSites : FirstFailing <= j
        BY <2>7, <4>1
      <4>3. FirstFailing \in DOMAIN Sites
        BY <4>2 DEF FailingSites
      <4>4. FirstFailing \in Nat
        BY <2>4, <4>3
      <4> HIDE DEF FailingSites
      <4> QED
        BY <3>2, <4>2, <4>3, <4>4
    <3>4. FirstFailing = 1 \/ FirstFailing = 2
      <4>1. 0 \notin DOMAIN Sites
        BY <2>1, SitesListed
      <4> QED
        BY <3>3, <4>1
    <3>5. Sites[FirstFailing].unwrapped = {}
      BY <2>4, <3>0, <3>4
    <3>6. ~Panics
      BY <3>5 DEF Unmapped
    <3> QED
      BY <2>8, <3>2, <3>6
  <2> QED
    BY <2>9, <2>11, <2>12
<1> QED
  BY <1>1 DEF EncodesIffNoDanglingRef

\* Encoding succeeds exactly when nothing the module holds refers to a deleted item: the
\* mapping has no entry for one, and refuses nothing else (fix_id_mapping and its callers).
\* It panics only over an export or an element segment's list, and a deleted item in the
\* initialiser of a table or a global, which are written first, is always an error.
THEOREM EncodesIffNoDanglingRefHolds == Spec => []EncodesIffNoDanglingRef
BY EncodesInv, ModuleInvHolds, PTL

LEMMA AllResolve ==
    ASSUME ModuleInv, panic = NoPanic, FuncIdsChecked, AscendingFuncImports,
           NEW s \in Space, NEW h \in LiveHandles(s)
    PROVE  Faithful(s, h)
<1>1. PositionIdsIn(s) /\ ItemsOK /\ "func" \in Space /\ PositionIdsIn("func")
  BY NumberedFacts DEF Space
<1>2. CASE s # "func"
  BY <1>2, GlobalsAndMemoriesResolve DEF Space
<1>3. CASE s = "func"
  <2>1. InSectionOrder("func")
    BY <1>1, OrderOfHandles
  <2>2. IsImport(At(s, h)) \/ IsLocal(At(s, h))
    <3>1. h \in Handles(s)
      BY DEF LiveHandles
    <3>2. At(s, h) \in Item
      BY <1>1, <3>1, ItemAt
    <3> QED
      BY <3>2 DEF Item, IsImport, IsLocal
  <2> QED
    BY <1>1, <1>3, <2>1, <2>2, LocalsResolve, ImportsResolve
<1> QED
  BY <1>2, <1>3

\* A successful encoding emits every reference the module holds, initialisers, offsets and
\* the start function included, and the binary resolves each to what the ID stands for,
\* while the imported functions are in order.
THEOREM EmittedRefsFaithfulHolds == Spec => []EmittedRefsFaithful
<1>1. ASSUME ModuleInv, panic = NoPanic, FuncIdsChecked, EncodeOutcome = "ok",
             AscendingFuncImports
      PROVE  /\ \A r \in HeldRefs : \E e \in EmittedRefs : e[1] = r.space /\ e[2] = r.id
             /\ start \in LiveHandles("func") =>
                   \E e \in EmittedRefs : e[1] = "func" /\ e[2] = start
             /\ \A e \in EmittedRefs : Resolves(e[1], e[3], e[2])
  <2>1. "func" \in Space /\ TypeOK
    BY <1>1 DEF Space, ModuleInv, Linked
  <2>2. \A s \in Space : DOMAIN Mapping(s) = LiveHandles(s)
    BY <1>1, NumberedFacts, MappingFacts
  <2>3. SiteRefs = HeldRefs /\ HeldRefs \in SUBSET Ref
    BY <2>1, SitesHold DEF SiteRefs
  <2>4. \A s, ids : \A id \in ids \cap DOMAIN Mapping(s) :
           \E e \in Emit(s, ids) : e[1] = s /\ e[2] = id
    <3> TAKE s, ids
    <3> TAKE id \in ids \cap DOMAIN Mapping(s)
    <3>1. <<s, id, Mapping(s)[id]>> \in Emit(s, ids)
      BY DEF Emit
    <3>2. <<s, id, Mapping(s)[id]>>[1] = s /\ <<s, id, Mapping(s)[id]>>[2] = id
      OBVIOUS
    <3> QED
      BY <3>1, <3>2
  <2>5. ASSUME NEW r \in HeldRefs
        PROVE  \E e \in EmittedRefs : e[1] = r.space /\ e[2] = r.id
    <3> DEFINE s == r.space
               ids == {x.id : x \in {y \in SiteRefs : y.space = s}}
    <3>1. s \in Space
      BY <2>3 DEF Ref
    <3>2. r.id \in LiveHandles(s)
      <4>1. ~Dangling(HeldRefs)
        <5>1. EncodesIffNoDanglingRef
          BY <1>1, EncodesInv
        <5> QED
          BY <1>1, <5>1 DEF EncodesIffNoDanglingRef
      <4> QED
        BY <4>1 DEF Dangling
    <3>3. r.id \in ids \cap DOMAIN Mapping(s)
      BY <2>2, <2>3, <3>1, <3>2
    <3> HIDE DEF ids, s
    <3>4. PICK e \in Emit(s, ids) : e[1] = s /\ e[2] = r.id
      BY <2>4, <3>3
    <3>5. e \in EmittedRefs
      BY <3>1, <3>4 DEF EmittedRefs, ids
    <3> QED
      BY <3>4, <3>5 DEF s
  <2>6. ASSUME start \in LiveHandles("func")
        PROVE  \E e \in EmittedRefs : e[1] = "func" /\ e[2] = start
    <3>1. start \in {start} \cap DOMAIN Mapping("func")
      BY <2>1, <2>2, <2>6
    <3>2. PICK e \in Emit("func", {start}) : e[1] = "func" /\ e[2] = start
      BY <2>4, <3>1
    <3> QED
      BY <3>2 DEF EmittedRefs
  <2>7. ASSUME NEW e \in EmittedRefs PROVE Resolves(e[1], e[3], e[2])
    <3>0. \E s \in Space : \E ids : e \in Emit(s, ids)
      BY <2>1 DEF EmittedRefs
    <3>1. PICK s \in Space : \E ids : e \in Emit(s, ids)
      BY <3>0
    <3>1a. PICK ids : e \in Emit(s, ids)
      BY <3>1
    <3>2. PICK id \in ids \cap DOMAIN Mapping(s) : e = <<s, id, Mapping(s)[id]>>
      BY <3>1a DEF Emit
    <3>3. id \in LiveHandles(s)
      BY <2>2, <3>2
    <3>4. Faithful(s, id)
      BY <1>1, <3>3, AllResolve
    <3>5. e[1] = s /\ e[2] = id /\ e[3] = Mapping(s)[id]
      BY <3>2
    <3> QED
      BY <3>4, <3>5 DEF Faithful
  <2> QED
    BY <2>5, <2>6, <2>7
<1>2. ModuleInv => EmittedRefsFaithful
  BY <1>1 DEF EmittedRefsFaithful
<1> QED
  BY <1>2, ModuleInvHolds, PTL

\* While the vector has as many imported functions as were parsed, the range
\* resolve_special_instrumentation visits leaves no instrumented local function out,
\* compacted though the vector is.
THEOREM SpecialsResolvedHolds == Spec => []SpecialsResolvedWhileImportsRemain
<1>1. ASSUME ModuleInv,
             Cardinality(LiveImportPositions(items["func"])) >= impCount["func"] - impAdded["func"],
             NEW p \in 0 .. Len(Vector("func")) - 1,
             LiveLocal(Vector("func")[p + 1]), Vector("func")[p + 1].special
      PROVE  p \in ResolvedPositions
  <2> DEFINE a == Cardinality(LiveImportPositions(items["func"]))
             w == Vector("func")
             from == impCount["func"] - impAdded["func"]
  <2>1. "func" \in Space /\ from \in Int
    BY <1>1 DEF Space, ModuleInv, Linked, TypeOK
  <2>2. a \in Nat /\ Len(w) \in Nat /\ \A j \in 1 .. Len(w) : a < j <=> LiveLocal(w[j])
    BY <1>1, <2>1, EmittedLocalsFacts
  <2>3. from <= a /\ LiveLocal(w[p + 1]) /\ w[p + 1].special
    BY <1>1, <2>1, <2>2
  <2> HIDE DEF a, w, from
  <2>4. p \in 0 .. Len(w) - 1
    BY DEF w
  <2>5. p + 1 \in 1 .. Len(w)
    BY <2>2, <2>4
  <2>6. a < p + 1
    BY <2>2, <2>3, <2>5
  <2>7. p \in from .. Len(w) - 1
    BY <2>1, <2>2, <2>3, <2>4, <2>6
  <2> QED
    BY <2>3, <2>7 DEF ResolvedPositions, w, from, LiveLocal
<1>2. ModuleInv => SpecialsResolvedWhileImportsRemain
  BY <1>1 DEF SpecialsResolvedWhileImportsRemain, AllSpecialsResolved
<1> QED
  BY <1>2, ModuleInvHolds, PTL
(***************************************************************************)
(* Globals and memories implement StableHandles.                           *)
(***************************************************************************)
\* Resolved with its local functions spelled out.
ReadBack(s) ==
    [p \in DOMAIN items[s] |->
        IF p - 1 \notin DOMAIN Mapping(s) THEN Gone
        ELSE IF Mapping(s)[p - 1] + 1 \notin DOMAIN EmittedSpace(s) THEN <<"nothing">>
        ELSE EmittedSpace(s)[Mapping(s)[p - 1] + 1]]

LEMMA ResolvedIsReadBack == \A s : Resolved(s) = ReadBack(s)
<1> TAKE s
<1> DEFINE w == Vector(s)
           b == [mapping |-> Mapping(s), space |-> EmittedSpace(s)]
           encode == [v \in {w} |-> [mapping |-> GetMapping(v), space |-> SpaceOf(v, s)]]
           binary == encode[w]
           Read(x) == [p \in DOMAIN items[s] |->
                         IF p - 1 \notin DOMAIN x.mapping THEN Gone
                         ELSE IF x.mapping[p - 1] + 1 \notin DOMAIN x.space THEN <<"nothing">>
                         ELSE x.space[x.mapping[p - 1] + 1]]
           readBack == [x \in {binary} |-> Read(x)]
<1>1. Resolved(s) = readBack[binary]
  BY DEF Resolved
<1>2. readBack[binary] = Read(binary)
  <2> HIDE DEF binary, Read
  <2> QED
    OBVIOUS
<1>3. binary = b
  BY DEF Mapping, EmittedSpace
<1>4. Read(b) = ReadBack(s)
  BY DEF ReadBack
<1> QED
  BY <1>1, <1>2, <1>3, <1>4
LEMMA ResolvedIsBound ==
    ASSUME ModuleInv, NEW s \in {"global", "memory"}
    PROVE  Resolved(s) = Bound(s)
<1>1. s \in Space /\ ItemsOK /\ PositionIdsIn(s)
  BY NumberedFacts DEF Space
<1>2. items[s] \in Seq(Item) /\ DOMAIN items[s] = 1 .. Len(items[s]) /\ Len(items[s]) \in Nat
  BY <1>1 DEF ItemsOK
<1>3. DOMAIN Mapping(s) = LiveHandles(s)
  BY <1>1, MappingFacts
<1> DEFINE Read(p) == IF p - 1 \notin DOMAIN Mapping(s) THEN Gone
                      ELSE IF Mapping(s)[p - 1] + 1 \notin DOMAIN EmittedSpace(s)
                           THEN <<"nothing">>
                      ELSE EmittedSpace(s)[Mapping(s)[p - 1] + 1]
           Meant(p) == IF items[s][p].deleted THEN Gone ELSE Denotes(s, p - 1)
<1>4. ASSUME NEW p \in DOMAIN items[s]
      PROVE  Read(p) = Meant(p)
  <2> DEFINE h == p - 1
  <2>1. h \in Handles(s) /\ At(s, h) = items[s][p]
    <3>1. h \in Handles(s) /\ h + 1 = p
      BY <1>2 DEF Handles
    <3> QED
      BY <3>1 DEF At
  <2>2. h \in LiveHandles(s) <=> ~items[s][p].deleted
    BY <2>1 DEF LiveHandles
  <2>3. CASE items[s][p].deleted
    BY <1>3, <2>2, <2>3
  <2>4. CASE ~items[s][p].deleted
    <3>1. Faithful(s, h)
      BY <2>2, <2>4, GlobalsAndMemoriesResolve
    <3> QED
      BY <2>4, <3>1 DEF Faithful, Resolves
  <2> QED
    BY <2>3, <2>4
<1>5. ReadBack(s) = [p \in DOMAIN items[s] |-> Read(p)]
  BY DEF ReadBack
<1>6. Bound(s) = [p \in DOMAIN items[s] |-> Meant(p)]
  BY DEF Bound
<1> HIDE DEF Read, Meant
<1>7. ReadBack(s) = Bound(s)
  BY <1>4, <1>5, <1>6
<1> QED
  BY <1>7, ResolvedIsReadBack

\* What an item stands for.
Meaning(it) ==
    IF it.deleted THEN Gone
    ELSE IF it.kind = "import" THEN <<"import", it.imp>> ELSE <<"local", it.id>>

LEMMA SameItemSameMeaning == \A x, y : SameItem(x, y) => Meaning(x) = Meaning(y)
BY DEF SameItem, Meaning

LEMMA MeaningsDiffer ==
    /\ \A i, j : <<"import", i>> # <<"local", j>> /\ <<"import", i>> # Gone
                   /\ <<"local", i>> # Gone
    /\ \A i, j : <<"import", i>> = <<"import", j>> => i = j
    /\ \A i, j : <<"local", i>> = <<"local", j>> => i = j
BY DEF Gone

LEMMA BoundIsMeaning ==
    ASSUME NEW s, items[s] \in Seq(Item)
    PROVE  Bound(s) = [p \in 1 .. Len(items[s]) |-> Meaning(items[s][p])]
<1>1. DOMAIN items[s] = 1 .. Len(items[s]) /\ Len(items[s]) \in Nat
  OBVIOUS
<1>2. \A p \in 1 .. Len(items[s]) :
         (IF items[s][p].deleted THEN Gone ELSE Denotes(s, p - 1)) = Meaning(items[s][p])
  <2> TAKE p \in 1 .. Len(items[s])
  <2>1. p - 1 + 1 = p
    BY <1>1
  <2>2. At(s, p - 1) = items[s][p]
    BY <2>1 DEF At
  <2> QED
    BY <2>2 DEF Meaning, Denotes, IsImport
<1> QED
  BY <1>1, <1>2 DEF Bound

LEMMA BoundIsMeaningPrimed ==
    ASSUME NEW s, items'[s] \in Seq(Item)
    PROVE  Bound(s)' = [p \in 1 .. Len(items'[s]) |-> Meaning(items'[s][p])]
<1>1. DOMAIN items'[s] = 1 .. Len(items'[s]) /\ Len(items'[s]) \in Nat
  OBVIOUS
<1>2. \A p \in 1 .. Len(items'[s]) :
         (IF items'[s][p].deleted THEN Gone ELSE Denotes(s, p - 1)') = Meaning(items'[s][p])
  <2> TAKE p \in 1 .. Len(items'[s])
  <2>1. p - 1 + 1 = p
    BY <1>1
  <2>2. At(s, p - 1)' = items'[s][p]
    BY <2>1 DEF At
  <2> QED
    BY <2>2 DEF Meaning, Denotes, IsImport
<1> QED
  BY <1>1, <1>2 DEF Bound

\* What a step does to what the handles of a global or memory stand for.
Fresh(b, c) ==
    /\ Len(c) = Len(b) + 1 /\ c = Append(b, c[Len(b) + 1])
    /\ c[Len(b) + 1] \notin {b[h] : h \in DOMAIN b} \cup {Gone}
Freed(b, c) == \E h \in DOMAIN b : c = [b EXCEPT ![h] = Gone]

LEMMA FreshByMeaning ==
    ASSUME NEW T, NEW b \in Seq(T), NEW c \in Seq(T), Len(c) = Len(b) + 1,
           \A p \in 1 .. Len(b) : c[p] = b[p],
           c[Len(b) + 1] # Gone, \A p \in 1 .. Len(b) : b[p] # c[Len(b) + 1]
    PROVE  Fresh(b, c)
<1> DEFINE n == Len(b)
           x == c[n + 1]
<1>1. n \in Nat /\ DOMAIN b = 1 .. n /\ x \in T
  OBVIOUS
<1>2. /\ Append(b, x) \in Seq(T) /\ Len(Append(b, x)) = n + 1
      /\ \A p \in 1 .. n : Append(b, x)[p] = b[p]
      /\ Append(b, x)[n + 1] = x
  BY <1>1
<1>3. \A p \in 1 .. n + 1 : c[p] = Append(b, x)[p]
  <2> TAKE p \in 1 .. n + 1
  <2>1. p = n + 1 \/ p \in 1 .. n
    BY <1>1
  <2> QED
    BY <1>2, <2>1
<1>4. c = Append(b, x)
  BY <1>1, <1>2, <1>3
<1> QED
  BY <1>1, <1>4 DEF Fresh

LEMMA StepOfBound ==
    ASSUME ModuleInv, ModuleInv', [Next]_vars, NEW s \in {"global", "memory"}
    PROVE  Bound(s)' = Bound(s) \/ Fresh(Bound(s), Bound(s)') \/ Freed(Bound(s), Bound(s)')
<1> DEFINE v == items[s]
           w == items'[s]
           n == Len(v)
           b == Bound(s)
           c == Bound(s)'
<1>1. /\ s \in Space /\ s # "func" /\ v \in Seq(Item) /\ w \in Seq(Item) /\ n \in Nat
      /\ PositionIdsIn(s) /\ s \in NumberedSpaces
  <2>1. s \in Space /\ s # "func" /\ s \in NumberedSpaces
    BY DEF Space, NumberedSpaces
  <2>2. PositionIdsIn(s)
    BY NumberedFacts
  <2>3. ItemsOK /\ ItemsOK'
    BY DEF ModuleInv, Linked, TypeOK
  <2> QED
    BY <2>1, <2>2, <2>3 DEF ItemsOK
<1>2. View(s)
  BY <1>1, ViewOfStep DEF ModuleInv
<1>3. b = [p \in 1 .. n |-> Meaning(v[p])] /\ c = [p \in 1 .. Len(w) |-> Meaning(w[p])]
  BY <1>1, BoundIsMeaning, BoundIsMeaningPrimed
<1>4. \A p \in 1 .. n : /\ v[p].id = p - 1 /\ v[p].id # n
                        /\ v[p].kind = "import" => v[p].imp # Len(imports)
  <2> TAKE p \in 1 .. n
  <2>1. p - 1 \in Handles(s) /\ p - 1 + 1 = p
    BY <1>1 DEF Handles
  <2>2. v[p].id = p - 1
    BY <1>1, <2>1 DEF PositionIdsIn, At
  <2>3. v[p].id # n
    BY <1>1, <2>2
  <2>4. LinkedIn(v, imports, s) /\ Len(imports) \in Nat
    BY <1>1, LinksBySpace DEF ModuleInv, Linked, TypeOK, ImportsOK
  <2>5. v[p].kind = "import" => v[p].imp \in 0 .. Len(imports) - 1
    BY <2>4 DEF LinkedIn
  <2>6. v[p].kind = "import" => v[p].imp # Len(imports)
    BY <2>4, <2>5
  <2> QED
    BY <2>2, <2>3, <2>6
<1>5. CASE Untouched(s)
  <2>1. Len(w) = n /\ \A p \in 1 .. n : SameItem(w[p], v[p])
    BY <1>5 DEF Untouched, KeepsItems
  <2>2. \A p \in 1 .. n : Meaning(w[p]) = Meaning(v[p])
    BY <2>1, SameItemSameMeaning
  <2> HIDE DEF b, c, v, w, n
  <2>3. c = b
    BY <1>3, <2>1, <2>2
  <2> QED
    BY <2>3 DEF b, c
<1>6. ASSUME NEW it, GrowsBy(s, it), LocalAt(it, n) \/ ImportAt(it, s, n)
      PROVE  Fresh(b, c)
  <2> DEFINE x == Meaning(it)
  <2>1. Len(w) = n + 1 /\ w[n + 1] = it /\ \A p \in 1 .. n : SameItem(w[p], v[p])
    BY <1>6 DEF GrowsBy
  <2>2. \A p \in 1 .. n : Meaning(w[p]) = Meaning(v[p])
    BY <2>1, SameItemSameMeaning
  <2>3. x = <<"local", n>> \/ x = <<"import", Len(imports)>>
    BY <1>6 DEF LocalAt, ImportAt, Meaning
  <2>4. \A p \in 1 .. n : Meaning(v[p]) # x
    <3> TAKE p \in 1 .. n
    <3>1. \/ Meaning(v[p]) = Gone
          \/ v[p].kind = "import" /\ Meaning(v[p]) = <<"import", v[p].imp>>
          \/ Meaning(v[p]) = <<"local", v[p].id>>
      BY DEF Meaning
    <3> QED
      BY <1>4, <2>3, <3>1, MeaningsDiffer
  <2>5. x # Gone
    BY <2>3, MeaningsDiffer
  <2> HIDE DEF b, c, v, w, n, x
  <2>6. \A p \in 1 .. n : b[p] = Meaning(v[p])
    BY <1>3
  <2>7. \A p \in 1 .. n + 1 : c[p] = Meaning(w[p])
    BY <1>3, <2>1
  <2>8. n + 1 \in 1 .. n + 1 /\ \A p \in 1 .. n : p \in 1 .. n + 1
    BY <1>1
  <2>9. c[n + 1] = x /\ \A p \in 1 .. n : c[p] = b[p]
    BY <2>1, <2>2, <2>6, <2>7, <2>8 DEF x
  <2>10. \A p \in 1 .. n : b[p] # x
    BY <2>4, <2>6
  <2> DEFINE T == {Meaning(v[p]) : p \in 1 .. n} \cup {Meaning(w[p]) : p \in 1 .. n + 1}
  <2>a. \A p \in 1 .. n : Meaning(v[p]) \in T
    OBVIOUS
  <2>b. \A p \in 1 .. n + 1 : Meaning(w[p]) \in T
    OBVIOUS
  <2> HIDE DEF T
  <2>c. b = [p \in 1 .. n |-> Meaning(v[p])] /\ c = [p \in 1 .. n + 1 |-> Meaning(w[p])]
    BY <1>3, <2>1
  <2>d. n + 1 \in Nat
    BY <1>1
  <2>11. b \in Seq(T) /\ Len(b) = n
    <3>1. b \in [1 .. n -> T]
      BY <2>a, <2>c
    <3> QED
      BY <1>1, <3>1, SequenceMade
  <2> DEFINE k == n + 1
  <2>e. k \in Nat /\ c = [p \in 1 .. k |-> Meaning(w[p])] /\ \A p \in 1 .. k : Meaning(w[p]) \in T
    BY <2>b, <2>c, <2>d
  <2>12. c \in Seq(T) /\ Len(c) = n + 1
    <3> HIDE DEF k
    <3>1. c \in [1 .. k -> T] /\ k \in Nat
      BY <2>e
    <3>2. c \in Seq(T) /\ Len(c) = k
      BY <3>1, SequenceMade
    <3> QED
      BY <3>2 DEF k
  <2> QED
    BY <2>5, <2>9, <2>10, <2>11, <2>12, FreshByMeaning
<1>7. ASSUME NEW k \in 1 .. n, ItemDeleted(s, k)
      PROVE  Freed(b, c)
  <2>1. /\ Len(w) = n /\ w[k].deleted
        /\ \A p \in 1 .. n : p # k => SameItem(w[p], v[p])
    BY <1>7 DEF ItemDeleted, ChangesAt
  <2>2. /\ \A p \in 1 .. n : p # k => Meaning(w[p]) = Meaning(v[p])
        /\ Meaning(w[k]) = Gone
    BY <2>1, SameItemSameMeaning DEF Meaning
  <2> HIDE DEF b, c, v, w, n
  <2>3. k \in DOMAIN b /\ c = [b EXCEPT ![k] = Gone]
    BY <1>3, <1>7, <2>1, <2>2
  <2> QED
    BY <2>3 DEF Freed
<1>8. LocalAdded(s) => Fresh(b, c)
  BY <1>6 DEF LocalAdded
<1>9. ImportAdded(s) => Fresh(b, c)
  BY <1>6 DEF ImportAdded
<1> HIDE DEF b, c
<1>10. c = b \/ Fresh(b, c) \/ Freed(b, c)
  BY <1>1, <1>2, <1>5, <1>7, <1>8, <1>9 DEF View, LocalPut, ImportPut, Panicked, b, c
<1> QED
  BY <1>10 DEF b, c

\* Every operation of the module, those on the other spaces and the shared import section
\* included, leaves the global IDs stable handles: it allocates a fresh one, frees one, or
\* changes nothing, and the encoded binary gives every handle what it stands for.
THEOREM GlobalsImplementStableHandles == Spec => GlobalsAreStableHandles
<1> DEFINE s == "global"
           Kept == Resolved(s) = Bound(s)
<1>1. ModuleInv => Kept
  BY ResolvedIsBound
<1>2. Kept => GlobalHandles!Init
  BY DEF GlobalHandles!Init
<1>3. ModuleInv /\ ModuleInv' /\ [Next]_vars /\ Kept /\ Kept' =>
         [GlobalHandles!Next]_<<Bound("global"), Resolved("global")>>
  <2> SUFFICES ASSUME ModuleInv, ModuleInv', [Next]_vars, Kept, Kept'
               PROVE  [GlobalHandles!Next]_<<Bound("global"), Resolved("global")>>
    OBVIOUS
  <2>1. Bound(s)' = Bound(s) \/ Fresh(Bound(s), Bound(s)') \/ Freed(Bound(s), Bound(s)')
    BY StepOfBound
  <2>2. GlobalHandles!Promise
    BY DEF GlobalHandles!Promise
  <2>3. CASE Bound(s)' = Bound(s)
    BY <2>3
  <2>4. CASE Fresh(Bound(s), Bound(s)')
    <3>1. GlobalHandles!Allocate
      BY <2>4 DEF Fresh, GlobalHandles!Allocate, GlobalHandles!Meanings
    <3> QED
      BY <2>2, <3>1 DEF GlobalHandles!Next
  <2>5. CASE Freed(Bound(s), Bound(s)')
    <3>1. \E h \in DOMAIN Bound("global") : GlobalHandles!Delete(h)
      BY <2>5 DEF Freed, GlobalHandles!Delete
    <3> QED
      BY <2>2, <3>1 DEF GlobalHandles!Next
  <2> QED
    BY <2>1, <2>3, <2>4, <2>5
<1> HIDE DEF Kept
<1> QED
  BY <1>1, <1>2, <1>3, ModuleInvHolds, PTL DEF Spec, GlobalsAreStableHandles, GlobalHandles!Spec

\* The same of the memory IDs, whose vector and import section the code handles with copies of
\* the code for globals.
THEOREM MemoriesImplementStableHandles == Spec => MemoriesAreStableHandles
<1> DEFINE s == "memory"
           Kept == Resolved(s) = Bound(s)
<1>1. ModuleInv => Kept
  BY ResolvedIsBound
<1>2. Kept => MemoryHandles!Init
  BY DEF MemoryHandles!Init
<1>3. ModuleInv /\ ModuleInv' /\ [Next]_vars /\ Kept /\ Kept' =>
         [MemoryHandles!Next]_<<Bound("memory"), Resolved("memory")>>
  <2> SUFFICES ASSUME ModuleInv, ModuleInv', [Next]_vars, Kept, Kept'
               PROVE  [MemoryHandles!Next]_<<Bound("memory"), Resolved("memory")>>
    OBVIOUS
  <2>1. Bound(s)' = Bound(s) \/ Fresh(Bound(s), Bound(s)') \/ Freed(Bound(s), Bound(s)')
    BY StepOfBound
  <2>2. MemoryHandles!Promise
    BY DEF MemoryHandles!Promise
  <2>3. CASE Bound(s)' = Bound(s)
    BY <2>3
  <2>4. CASE Fresh(Bound(s), Bound(s)')
    <3>1. MemoryHandles!Allocate
      BY <2>4 DEF Fresh, MemoryHandles!Allocate, MemoryHandles!Meanings
    <3> QED
      BY <2>2, <3>1 DEF MemoryHandles!Next
  <2>5. CASE Freed(Bound(s), Bound(s)')
    <3>1. \E h \in DOMAIN Bound("memory") : MemoryHandles!Delete(h)
      BY <2>5 DEF Freed, MemoryHandles!Delete
    <3> QED
      BY <2>2, <3>1 DEF MemoryHandles!Next
  <2> QED
    BY <2>1, <2>3, <2>4, <2>5
<1> HIDE DEF Kept
<1> QED
  BY <1>1, <1>2, <1>3, ModuleInvHolds, PTL DEF Spec, MemoriesAreStableHandles, MemoryHandles!Spec

(***************************************************************************)
(* The names of functions.  A step keeps the functions and their imports'  *)
(* names, or adds, replaces or names one function.                         *)
(***************************************************************************)
SameFunc(x, y) == x.kind = y.kind /\ x.imp = y.imp /\ x.name = y.name
FuncsKept ==
    /\ Len(items'["func"]) = Len(items["func"])
    /\ \A p \in 1 .. Len(items["func"]) : SameFunc(items'["func"][p], items["func"][p])
CustomsKept == \A i \in 1 .. Len(imports) : imports'[i].custom = imports[i].custom
FuncCountsKept == impCount'["func"] = impCount["func"] /\ impAdded'["func"] = impAdded["func"]
Quiet == FuncsKept /\ CustomsKept /\ FuncCountsKept

LEMMA QuietReplacement ==
    ASSUME ItemsOK, NEW s \in Space, NEW h \in Handles(s), NEW it \in Item, Replaced(s, h, it),
           SameFunc(it, At(s, h))
    PROVE  FuncsKept
<1>1. /\ Len(items'[s]) = Len(items[s])
      /\ \A t \in Space \ {s} : items'[t] = items[t]
      /\ \A p \in 1 .. Len(items[s]) : items'[s][p] = IF p = h + 1 THEN it ELSE items[s][p]
  BY ReplacedType
<1>2. CASE s = "func"
  BY <1>1, <1>2 DEF FuncsKept, SameFunc, At
<1>3. CASE s # "func"
  BY <1>1, <1>3 DEF FuncsKept, SameFunc, Space
<1> QED
  BY <1>2, <1>3

\* The operations that neither add, convert nor name a function.
LEMMA OtherEditIsQuiet ==
    ASSUME Linked, OtherEdit
    PROVE  Quiet
<1>0. /\ "func" \in Space /\ "global" \in Space /\ "memory" \in Space
      /\ TypeOK /\ ImportLinksOK /\ ItemsOK /\ ImportsOK
      /\ impCount \in [Space -> Nat] /\ impAdded \in [Space -> Nat]
      /\ \A s \in Space : \A h \in Handles(s) : At(s, h) \in Item
  <2>1. TypeOK /\ ImportLinksOK /\ ItemsOK
    BY DEF Linked, TypeOK
  <2> QED
    BY <2>1, ItemAt DEF Space, TypeOK
<1>1. UNCHANGED items => FuncsKept
  BY DEF FuncsKept, SameFunc
<1>2. UNCHANGED imports => CustomsKept
  BY DEF CustomsKept
<1>3. UNCHANGED <<impCount, impAdded>> => FuncCountsKept
  BY DEF FuncCountsKept
<1>4. ASSUME NEW init, AddGlobal(init) PROVE Quiet
  <2>1. items'["func"] = items["func"]
    BY <1>0, <1>4 DEF AddGlobal, PushLocal, ItemsOK
  <2> QED
    BY <1>2, <1>3, <1>4, <2>1 DEF AddGlobal, Quiet, FuncsKept, SameFunc
<1>5. CASE AddLocalMemory
  <2>1. items'["func"] = items["func"]
    BY <1>0, <1>5 DEF AddLocalMemory, PushLocal, ItemsOK
  <2> QED
    BY <1>2, <1>3, <1>5, <2>1 DEF AddLocalMemory, Quiet, FuncsKept, SameFunc
<1>6. CASE AddImportMemory \/ AddImportedGlobal
  <2>1. items'["func"] = items["func"]
    BY <1>0, <1>6 DEF AddImportMemory, AddImportItem, AddImportedGlobal, ItemsOK
  <2>2. PushImport("memory") \/ PushImport("global")
    BY <1>6 DEF AddImportMemory, AddImportItem, AddImportedGlobal
  <2>3. FuncCountsKept
    BY <1>0, <2>2 DEF PushImport, FuncCountsKept
  <2>4. CustomsKept
    <3>1. \A i \in 1 .. Len(imports) : imports'[i] = imports[i]
      BY <1>0, <2>2, PushImportType
    <3> QED
      BY <3>1 DEF CustomsKept
  <2> QED
    BY <2>1, <2>3, <2>4 DEF Quiet, FuncsKept, SameFunc
<1>7. ASSUME NEW s \in Space, NEW h \in Handles(s), DeleteItem(s, h) PROVE Quiet
  <2> DEFINE old == At(s, h)
             it == [old EXCEPT !.deleted = TRUE]
  <2>1. Replaced(s, h, it) /\ old \in Item
    BY <1>0, <1>7, PlacesChanged
  <2>2. it \in Item /\ SameFunc(it, old)
    <3> HIDE DEF old
    <3> QED
      BY <2>1 DEF Item, SameFunc
  <2>3. FuncsKept
    <3> HIDE DEF it
    <3> QED
      BY <1>0, <2>1, <2>2, QuietReplacement
  <2>4. IsImport(old) => old.imp \in 0 .. Len(imports) - 1
    BY <1>0 DEF ImportLinksOK, ImportsIDs
  <2>5. CustomsKept
    <3>1. \A i \in 1 .. Len(imports) :
             imports'[i] = IF IsImport(old) /\ i = old.imp + 1
                           THEN [imports[i] EXCEPT !.deleted = TRUE] ELSE imports[i]
      <4>1. imports' = DropImportOf(old)
        BY <1>7 DEF DeleteItem
      <4> HIDE DEF old
      <4> QED
        BY <1>0, <2>1, <2>4, <4>1, DropImportFacts
    <3>2. \A i \in 1 .. Len(imports) : imports[i] \in Import
      BY <1>0 DEF ImportsOK
    <3>3. ASSUME NEW i \in 1 .. Len(imports) PROVE imports'[i].custom = imports[i].custom
      <4>1. [imports[i] EXCEPT !.deleted = TRUE].custom = imports[i].custom
        BY <3>2 DEF Import
      <4> HIDE DEF old
      <4> QED
        BY <3>1, <4>1
    <3> QED
      BY <3>3 DEF CustomsKept
  <2> QED
    BY <1>3, <1>7, <2>3, <2>5 DEF Quiet, DeleteItem
<1>8. ASSUME NEW h \in Handles("func"), NEW r \in KnownRefs, Inject(h, r) PROVE Quiet
  <2> DEFINE old == At("func", h)
             it == [old EXCEPT !.refs = @ \cup {r}]
  <2>1. Replaced("func", h, it) /\ old \in Item /\ r \in Ref
    BY <1>0, <1>8, PlacesChanged, RefTypes
  <2>2. it \in Item /\ SameFunc(it, old)
    <3> HIDE DEF old
    <3> QED
      BY <2>1 DEF Item, SameFunc
  <2>3. FuncsKept
    <3> HIDE DEF it
    <3> QED
      BY <1>0, <2>1, <2>2, QuietReplacement
  <2> QED
    BY <1>2, <1>3, <1>8, <2>3 DEF Quiet, Inject
<1>9. ASSUME NEW h \in Handles("func"), InjectSpecial(h) PROVE Quiet
  <2> DEFINE old == At("func", h)
             it == [old EXCEPT !.special = TRUE]
  <2>1. Replaced("func", h, it) /\ old \in Item
    BY <1>0, <1>9, PlacesChanged
  <2>2. it \in Item /\ SameFunc(it, old)
    <3> HIDE DEF old
    <3> QED
      BY <2>1 DEF Item, SameFunc
  <2>3. FuncsKept
    <3> HIDE DEF it
    <3> QED
      BY <1>0, <2>1, <2>2, QuietReplacement
  <2> QED
    BY <1>2, <1>3, <1>9, <2>3 DEF Quiet, InjectSpecial
<1>10. ASSUME NEW h \in Handles("global"), NEW init \in InitExprs, ModGlobalInitExpr(h, init)
       PROVE  Quiet
  <2> DEFINE old == At("global", h)
             it == [old EXCEPT !.refs = init]
  <2>1. Replaced("global", h, it) /\ old \in Item /\ init \in SUBSET Ref
    BY <1>0, <1>10, PlacesChanged, RefTypes
  <2>2. it \in Item /\ SameFunc(it, old)
    <3> HIDE DEF old
    <3> QED
      BY <2>1 DEF Item, SameFunc
  <2>3. FuncsKept
    <3> HIDE DEF it
    <3> QED
      BY <1>0, <2>1, <2>2, QuietReplacement
  <2> QED
    BY <1>2, <1>3, <1>10, <2>3 DEF Quiet, ModGlobalInitExpr
<1>11. CASE \/ \E h \in Handles("func") : AddExportFunc(h)
            \/ \E h \in Handles("global") : AddExportGlobal(h)
            \/ \E h \in Handles("memory") : AddExportMem(h)
            \/ \E e \in 0 .. Len(exports) - 1 : DeleteExport(e)
            \/ \E h \in Handles("memory"), offset \in InitExprs : AddData(h, offset)
  BY <1>1, <1>2, <1>3, <1>11
  DEF Quiet, AddExportFunc, AddExportGlobal, AddExportMem, AddExport, DeleteExport, AddData
<1> QED
  BY <1>0, <1>4, <1>5, <1>6, <1>7, <1>8, <1>9, <1>10, <1>11
  DEF OtherEdit, DeleteFunc, DeleteGlobal, DeleteMemory

\* The name stored for item `it', where the import section is `imps'.
Stored(it, imps) == IF it.kind = "import" THEN imps[it.imp + 1].custom ELSE it.name

LEMMA StoredFacts ==
    ASSUME Linked
    PROVE  /\ DOMAIN StoredNames = 1 .. Len(items["func"]) /\ Len(items["func"]) \in Nat
           /\ \A p \in 1 .. Len(items["func"]) :
                 /\ items["func"][p] \in Item
                 /\ StoredNames[p] = Stored(items["func"][p], imports)
                 /\ items["func"][p].kind = "import" =>
                       items["func"][p].imp + 1 \in 1 .. Len(imports) /\ items["func"][p].imp \in Nat
<1>1. /\ items["func"] \in Seq(Item) /\ Len(items["func"]) \in Nat /\ Len(imports) \in Nat
      /\ LinkedIn(items["func"], imports, "func")
  BY LinksBySpace DEF Linked, TypeOK, ItemsOK, ImportsOK, Space
<1>2. DOMAIN items["func"] = 1 .. Len(items["func"])
  BY <1>1
<1>3. \A p \in 1 .. Len(items["func"]) : StoredNames[p] = Stored(items["func"][p], imports)
  BY <1>2 DEF StoredNames, Stored, IsImport
<1>4. \A p \in 1 .. Len(items["func"]) : items["func"][p].kind = "import" =>
         items["func"][p].imp + 1 \in 1 .. Len(imports) /\ items["func"][p].imp \in Nat
  BY <1>1 DEF LinkedIn
<1>5. DOMAIN StoredNames = 1 .. Len(items["func"])
  BY <1>2 DEF StoredNames
<1> QED
  BY <1>1, <1>3, <1>4, <1>5

LEMMA StoredFactsPrimed ==
    ASSUME Linked'
    PROVE  /\ DOMAIN StoredNames' = 1 .. Len(items'["func"]) /\ Len(items'["func"]) \in Nat
           /\ \A p \in 1 .. Len(items'["func"]) :
                 StoredNames'[p] = Stored(items'["func"][p], imports')
<1>1. items'["func"] \in Seq(Item) /\ Len(items'["func"]) \in Nat
  BY DEF Linked, TypeOK, ItemsOK, Space
<1>2. DOMAIN items'["func"] = 1 .. Len(items'["func"])
  BY <1>1
<1>3. \A p \in 1 .. Len(items'["func"]) : StoredNames'[p] = Stored(items'["func"][p], imports')
  BY <1>2 DEF StoredNames, Stored, IsImport
<1>4. DOMAIN StoredNames' = 1 .. Len(items'["func"])
  BY <1>2 DEF StoredNames
<1> QED
  BY <1>1, <1>3, <1>4

\* An item that stays, over imports that keep their names, keeps its own.
LEMMA StoredStays ==
    ASSUME Linked, CustomsKept, NEW p \in 1 .. Len(items["func"]), NEW y,
           SameFunc(y, items["func"][p])
    PROVE  Stored(y, imports') = StoredNames[p]
BY StoredFacts DEF SameFunc, Stored, CustomsKept

LEMMA StoredKept ==
    ASSUME Linked, Linked', FuncsKept, CustomsKept
    PROVE  StoredNames' = StoredNames
<1>1. DOMAIN StoredNames' = DOMAIN StoredNames
  BY StoredFacts, StoredFactsPrimed DEF FuncsKept
<1>2. ASSUME NEW p \in DOMAIN StoredNames PROVE StoredNames'[p] = StoredNames[p]
  <2>1. p \in 1 .. Len(items["func"]) /\ p \in 1 .. Len(items'["func"])
    BY StoredFacts DEF FuncsKept
  <2>2. Stored(items'["func"][p], imports') = StoredNames[p]
    BY <2>1, StoredStays DEF FuncsKept
  <2> QED
    BY <2>1, <2>2, StoredFactsPrimed
<1>3. StoredNames = [p \in DOMAIN StoredNames |-> StoredNames[p]]
  BY DEF StoredNames
<1>4. StoredNames' = [p \in DOMAIN StoredNames' |-> StoredNames'[p]]
  BY DEF StoredNames
<1> QED
  BY <1>1, <1>2, <1>3, <1>4

LEMMA SequenceIsFunction ==
    ASSUME NEW T, NEW y \in Seq(T)
    PROVE  y = [p \in 1 .. Len(y) |-> y[p]]
OBVIOUS

\* One more function: one more name.
LEMMA StoredPushed ==
    ASSUME Linked, Linked', CustomsKept, NEW it \in Item, Pushed("func", it)
    PROVE  StoredNames' = Append(StoredNames, Stored(it, imports'))
<1> DEFINE n == Len(items["func"])
           x == Stored(it, imports')
           T == {StoredNames[p] : p \in 1 .. n} \cup {x}
<1>1. /\ Len(items'["func"]) = n + 1 /\ n \in Nat
      /\ \A p \in 1 .. n : items'["func"][p] = items["func"][p]
      /\ items'["func"][n + 1] = it
  <2>1. "func" \in Space /\ ItemsOK
    BY DEF Linked, TypeOK, Space
  <2> QED
    BY <2>1, PushedType, StoredFacts
<1>2. StoredNames \in Seq(T) /\ Len(StoredNames) = n
  <2>1. StoredNames = [p \in 1 .. n |-> StoredNames[p]]
    BY StoredFacts DEF StoredNames
  <2>2. StoredNames \in [1 .. n -> T]
    BY <2>1
  <2> HIDE DEF T, n
  <2> QED
    BY <1>1, <2>2, SequenceMade
<1>3. /\ Append(StoredNames, x) \in Seq(T) /\ Len(Append(StoredNames, x)) = n + 1
      /\ \A p \in 1 .. n : Append(StoredNames, x)[p] = StoredNames[p]
      /\ Append(StoredNames, x)[n + 1] = x
  <2>1. x \in T
    OBVIOUS
  <2> HIDE DEF T, x, n
  <2> QED
    BY <1>2, <2>1, AppendFacts
<1>4. /\ DOMAIN StoredNames' = 1 .. n + 1
      /\ \A p \in 1 .. n : StoredNames'[p] = StoredNames[p]
      /\ StoredNames'[n + 1] = x
  <2>1. \A p \in 1 .. n + 1 : StoredNames'[p] = Stored(items'["func"][p], imports')
    BY <1>1, StoredFactsPrimed
  <2>2. \A p \in 1 .. n : Stored(items'["func"][p], imports') = StoredNames[p]
    BY <1>1, StoredStays DEF SameFunc
  <2>3. n + 1 \in 1 .. n + 1 /\ \A p \in 1 .. n : p \in 1 .. n + 1
    BY <1>1
  <2>4. DOMAIN StoredNames' = 1 .. n + 1
    BY <1>1, StoredFactsPrimed
  <2> HIDE DEF n
  <2> QED
    BY <1>1, <2>1, <2>2, <2>3, <2>4
<1>5. StoredNames' = [p \in 1 .. n + 1 |-> StoredNames'[p]]
  BY <1>4 DEF StoredNames
<1>6. Append(StoredNames, x) = [p \in 1 .. n + 1 |-> Append(StoredNames, x)[p]]
  <2> DEFINE y == Append(StoredNames, x)
  <2>1. y \in Seq(T) /\ Len(y) = n + 1
    BY <1>3
  <2> HIDE DEF T, x, n, y
  <2>2. y = [p \in 1 .. Len(y) |-> y[p]]
    BY <2>1, SequenceIsFunction
  <2>3. y = [p \in 1 .. n + 1 |-> y[p]]
    BY <2>1, <2>2
  <2> QED
    BY <2>3 DEF y
<1>7. \A p \in 1 .. n + 1 : StoredNames'[p] = Append(StoredNames, x)[p]
  <2>1. \A p \in 1 .. n + 1 : p \in 1 .. n \/ p = n + 1
    BY <1>1
  <2> HIDE DEF x, n
  <2> QED
    BY <1>3, <1>4, <2>1
<1> DEFINE y == Append(StoredNames, x)
           z == StoredNames'
<1>8. /\ y = [p \in 1 .. n + 1 |-> y[p]] /\ z = [p \in 1 .. n + 1 |-> z[p]]
      /\ \A p \in 1 .. n + 1 : z[p] = y[p]
  BY <1>5, <1>6, <1>7
<1> HIDE DEF x, n, y, z
<1>9. z = y
  BY <1>8
<1> QED
  BY <1>9 DEF y, z, x

\* Another function in one place: another name in that place.
LEMMA StoredReplaced ==
    ASSUME Linked, Linked', CustomsKept, NEW h \in Handles("func"), NEW it \in Item,
           Replaced("func", h, it)
    PROVE  StoredNames' = [p \in DOMAIN StoredNames |->
                              IF p = h + 1 THEN Stored(it, imports') ELSE StoredNames[p]]
<1> DEFINE n == Len(items["func"])
<1>1. /\ Len(items'["func"]) = n /\ n \in Nat
      /\ \A p \in 1 .. n : items'["func"][p] = IF p = h + 1 THEN it ELSE items["func"][p]
  <2>1. "func" \in Space /\ ItemsOK
    BY DEF Linked, TypeOK, Space
  <2> QED
    BY <2>1, ReplacedType, StoredFacts
<1>2. DOMAIN StoredNames = 1 .. n /\ DOMAIN StoredNames' = 1 .. n
  BY <1>1, StoredFacts, StoredFactsPrimed
<1>3. \A p \in 1 .. n : StoredNames'[p] = IF p = h + 1 THEN Stored(it, imports') ELSE StoredNames[p]
  <2>1. \A p \in 1 .. n : StoredNames'[p] = Stored(items'["func"][p], imports')
    BY <1>1, StoredFactsPrimed
  <2>2. \A p \in 1 .. n : p # h + 1 => Stored(items'["func"][p], imports') = StoredNames[p]
    BY <1>1, StoredStays DEF SameFunc
  <2> HIDE DEF n
  <2> QED
    BY <1>1, <2>1, <2>2
<1>4. StoredNames' = [p \in DOMAIN StoredNames' |-> StoredNames'[p]]
  BY DEF StoredNames
<1> QED
  BY <1>2, <1>3, <1>4

\* What each function was last named is what is stored, until a call strays.
NamedInv == panic = NoPanic /\ ~strayed => named = StoredNames

LEMMA NamedStepIsStep == [NamedNext]_namedVars => [Next]_vars
<1> SUFFICES ASSUME [NamedNext]_namedVars PROVE [Next]_vars
  OBVIOUS
<1>1. CASE UNCHANGED namedVars
  BY <1>1 DEF namedVars
<1>2. CASE NamedNext
  <2>1. CASE \E n \in scenario.names \cup {NoName} :
                 /\ AddLocalFunc(n) \/ AddLocalFuncInComponent(n)
                 /\ Asked(Append(named, n))
    BY <2>1 DEF Next
  <2>2. CASE AddImportFunc /\ Asked(Append(named, NoName))
    BY <2>2 DEF Next
  <2>3. CASE \E i \in ImportsIDs : ReplaceImport(i) /\ Asked(Given(i, ImportName))
    BY <2>3 DEF Next
  <2>4. CASE \E h \in Handles("func") : ConvertLocalFnToImport(h) /\ Asked(Given(h, NoName))
    BY <2>4 DEF Next
  <2>5. CASE \E h \in Handles("func"), n \in scenario.names : NamedSetFnName(h, n)
    BY <2>5 DEF Next, NamedSetFnName
  <2>6. CASE \E i \in ImportsIDs, n \in scenario.names :
                 SetImportName(i, n) /\ Asked(NamedThrough(i, n))
    BY <2>6 DEF Next
  <2>7. CASE OtherEdit /\ UNCHANGED <<named, strayed>>
    BY <2>7 DEF Next
  <2> QED
    BY <1>2, <2>1, <2>2, <2>3, <2>4, <2>5, <2>6, <2>7 DEF NamedNext
<1> QED
  BY <1>1, <1>2

\* ModuleImports::add keeps the names of the imports.
LEMMA PushKeepsCustoms ==
    ASSUME Linked, NEW s \in Space, PushImport(s)
    PROVE  CustomsKept /\ imports'[Len(imports) + 1].custom = NoName /\ Len(imports) \in Nat
<1>1. TypeOK
  BY DEF Linked
<1>2. /\ Len(imports) \in Nat
      /\ \A i \in 1 .. Len(imports) : imports'[i] = imports[i]
      /\ imports'[Len(imports) + 1] = [kind |-> s, deleted |-> FALSE, custom |-> NoName]
  BY <1>1, PushImportType
<1> QED
  BY <1>2 DEF CustomsKept

LEMMA NamedStep ==
    ASSUME Linked, Linked', NamedInv, [NamedNext]_namedVars
    PROVE  NamedInv'
<1> SUFFICES ASSUME panic' = NoPanic, ~strayed' PROVE named' = StoredNames'
  BY DEF NamedInv
<1>0. /\ "func" \in Space /\ ItemsOK /\ ImportsOK /\ Len(items["func"]) \in Nat
      /\ scenario.names \subseteq Names /\ NoName \in NameOrNone /\ Names \subseteq NameOrNone
      /\ ImportName \in NameOrNone /\ {} \in SUBSET Ref /\ Len(imports) \in Nat
  <2>1. TypeOK /\ ItemsOK /\ ImportsOK /\ scenario \in Scenarios
    BY DEF Linked, TypeOK
  <2>2. scenario.names \subseteq Names
    BY <2>1, ScenariosAssumption DEF WellFormed
  <2>3. Len(items["func"]) \in Nat /\ Len(imports) \in Nat
    BY <2>1, StoredFacts DEF ImportsOK
  <2> QED
    BY <2>1, <2>2, <2>3 DEF Space, NameOrNone
<1>1. panic = NoPanic
  BY NamedStepIsStep, PanicIsLast DEF vars
<1>2. CASE UNCHANGED namedVars
  <2>1. UNCHANGED StoredNames
    BY <1>2 DEF namedVars, vars, StoredNames
  <2> QED
    BY <1>1, <1>2, <2>1 DEF NamedInv, namedVars
<1>3. ~strayed => named = StoredNames
  BY <1>1 DEF NamedInv
<1>4. ASSUME NEW n \in scenario.names \cup {NoName},
             AddLocalFunc(n) \/ AddLocalFuncInComponent(n), Asked(Append(named, n))
      PROVE  named' = StoredNames'
  <2> DEFINE it == LocalItem(Len(items["func"]), {}, n)
  <2>1. it \in Item /\ it.kind = "local" /\ it.name = n
    <3>1. it \in Item
      BY <1>0, ConstructorTypes
    <3> QED
      BY <3>1 DEF LocalItem
  <2>2. Pushed("func", it) /\ UNCHANGED imports
    BY <1>4 DEF AddLocalFunc, AddLocalFuncInComponent, PushLocal, Pushed
  <2>3. CustomsKept
    BY <2>2 DEF CustomsKept
  <2> HIDE DEF it
  <2>4. StoredNames' = Append(StoredNames, Stored(it, imports'))
    BY <2>1, <2>2, <2>3, StoredPushed
  <2>5. Stored(it, imports') = n
    BY <2>1 DEF Stored
  <2> QED
    BY <1>3, <1>4, <2>4, <2>5 DEF Asked
<1>5. CASE AddImportFunc /\ Asked(Append(named, NoName))
  <2> DEFINE it == ImportItem(NextImportId("func"), Len(imports))
  <2>1. it \in Item /\ it.kind = "import" /\ it.imp = Len(imports)
    <3>1. NextImportId("func") \in Nat
      BY <1>0 DEF NextImportId, Linked, TypeOK
    <3>2. it \in Item
      BY <1>0, <3>1, ConstructorTypes
    <3> QED
      BY <3>2 DEF ImportItem
  <2>2. Pushed("func", it) /\ PushImport("func")
    BY <1>5 DEF AddImportFunc, AddImportItem, Pushed
  <2> HIDE DEF it
  <2>3. CustomsKept /\ Stored(it, imports') = NoName
    BY <1>0, <2>1, <2>2, PushKeepsCustoms DEF Stored
  <2>4. StoredNames' = Append(StoredNames, Stored(it, imports'))
    BY <2>1, <2>2, <2>3, StoredPushed
  <2> QED
    BY <1>3, <1>5, <2>3, <2>4 DEF Asked
<1>6. ASSUME NEW i \in ImportsIDs, ReplaceImport(i), Asked(Given(i, ImportName))
      PROVE  named' = StoredNames'
  <2> DEFINE it == LocalItem(i, {}, ImportName)
             old == At("func", i)
  <2>1. i \in Handles("func") /\ i \in Nat
    BY <1>0, <1>6 DEF ReplaceImport, NoPanic, ImportsIDs
  <2>2. it \in Item /\ it.kind = "local" /\ it.name = ImportName
    <3>1. it \in Item
      BY <1>0, <2>1, ConstructorTypes
    <3> QED
      BY <3>1 DEF LocalItem
  <2>3. Replaced("func", i, it) /\ imports' = DropImportOf(old)
    BY <1>6, <2>1 DEF ReplaceImport, Replaced
  <2> HIDE DEF it
  <2>4. CustomsKept
    <3>1. old \in Item /\ (IsImport(old) => old.imp \in 0 .. Len(imports) - 1) /\ TypeOK
      BY <1>0, <2>1, ItemAt DEF Linked, ImportLinksOK, ImportsIDs
    <3>2. \A j \in 1 .. Len(imports) :
             imports'[j] = IF IsImport(old) /\ j = old.imp + 1
                           THEN [imports[j] EXCEPT !.deleted = TRUE] ELSE imports[j]
      <4> HIDE DEF old
      <4> QED
        BY <2>3, <3>1, DropImportFacts
    <3>3. \A j \in 1 .. Len(imports) : imports[j] \in Import
      BY <1>0 DEF ImportsOK
    <3>4. ASSUME NEW j \in 1 .. Len(imports) PROVE imports'[j].custom = imports[j].custom
      <4>1. [imports[j] EXCEPT !.deleted = TRUE].custom = imports[j].custom
        BY <3>3 DEF Import
      <4> HIDE DEF old
      <4> QED
        BY <3>2, <4>1
    <3> QED
      BY <3>4 DEF CustomsKept
  <2>5. StoredNames' = [p \in DOMAIN StoredNames |->
                           IF p = i + 1 THEN Stored(it, imports') ELSE StoredNames[p]]
    BY <2>1, <2>2, <2>3, <2>4, StoredReplaced
  <2>6. Stored(it, imports') = ImportName
    BY <2>2 DEF Stored
  <2> QED
    BY <1>3, <1>6, <2>5, <2>6 DEF Asked, Given
<1>7. ASSUME NEW h \in Handles("func"), ConvertLocalFnToImport(h), Asked(Given(h, NoName))
      PROVE  named' = StoredNames'
  <2> DEFINE it == ImportItem(h, Len(imports))
  <2>1. it \in Item /\ it.kind = "import" /\ it.imp = Len(imports)
    <3>1. h \in Nat
      BY <1>0, ItemAt
    <3>2. it \in Item
      BY <1>0, <3>1, ConstructorTypes
    <3> QED
      BY <3>2 DEF ImportItem
  <2>2. Replaced("func", h, it) /\ PushImport("func")
    BY <1>7 DEF ConvertLocalFnToImport, Replaced
  <2> HIDE DEF it
  <2>3. CustomsKept /\ Stored(it, imports') = NoName
    BY <1>0, <2>1, <2>2, PushKeepsCustoms DEF Stored
  <2>4. StoredNames' = [p \in DOMAIN StoredNames |->
                           IF p = h + 1 THEN Stored(it, imports') ELSE StoredNames[p]]
    BY <2>1, <2>2, <2>3, StoredReplaced
  <2> QED
    BY <1>3, <1>7, <2>3, <2>4 DEF Asked, Given
<1>8. ASSUME NEW h \in Handles("func"), NEW n \in scenario.names, NamedSetFnName(h, n)
      PROVE  named' = StoredNames'
  <2>1. StoredNames' = [StoredNames EXCEPT ![h + 1] = n] /\ ~strayed
    BY <1>8 DEF NamedSetFnName
  <2>2. StoredNames = [p \in DOMAIN StoredNames |-> StoredNames[p]]
    BY DEF StoredNames
  <2>3. [StoredNames EXCEPT ![h + 1] = n] =
           [p \in DOMAIN StoredNames |-> IF p = h + 1 THEN n ELSE StoredNames[p]]
    BY <2>2
  <2> QED
    BY <1>3, <1>8, <2>1, <2>3 DEF NamedSetFnName, Given
<1>9. ASSUME NEW i \in ImportsIDs, NEW n \in scenario.names, SetImportName(i, n),
             Asked(NamedThrough(i, n))
      PROVE  named' = StoredNames'
  <2>1. i + 1 \in 1 .. Len(imports) /\ i \in Int /\ n \in NameOrNone
    BY <1>0 DEF ImportsIDs
  <2>2. /\ UNCHANGED items
        /\ \A j \in 1 .. Len(imports) :
              imports'[j].custom = IF j = i + 1 THEN n ELSE imports[j].custom
    BY <1>9, <2>1, NameImportFacts DEF SetImportName
  <2>3. DOMAIN StoredNames' = DOMAIN StoredNames
    BY <2>2 DEF StoredNames
  <2>4. ASSUME NEW p \in DOMAIN StoredNames
        PROVE  StoredNames'[p] =
                  IF IsImport(items["func"][p]) /\ items["func"][p].imp = i THEN n
                  ELSE StoredNames[p]
    <3> DEFINE x == items["func"][p]
    <3>1. p \in 1 .. Len(items["func"]) /\ p \in 1 .. Len(items'["func"])
      BY <2>2, StoredFacts
    <3>2. StoredNames[p] = Stored(x, imports) /\ StoredNames'[p] = Stored(x, imports')
      BY <2>2, <3>1, StoredFacts, StoredFactsPrimed
    <3>3. x.kind = "import" => x.imp + 1 \in 1 .. Len(imports) /\ x.imp \in Nat
      BY <3>1, StoredFacts
    <3> HIDE DEF x
    <3>4. Stored(x, imports') = IF IsImport(x) /\ x.imp = i THEN n ELSE Stored(x, imports)
      BY <2>1, <2>2, <3>3 DEF Stored, IsImport
    <3> QED
      BY <3>2, <3>4 DEF x
  <2>5. DOMAIN StoredNames = DOMAIN items["func"]
    BY DEF StoredNames
  <2>6. StoredNames' = [p \in DOMAIN StoredNames' |-> StoredNames'[p]]
    BY DEF StoredNames
  <2>7. StoredNames' = [p \in DOMAIN StoredNames |->
                           IF IsImport(items["func"][p]) /\ items["func"][p].imp = i THEN n
                           ELSE StoredNames[p]]
    BY <2>3, <2>4, <2>6
  <2>8. named = StoredNames
    BY <1>3, <1>9 DEF Asked
  <2>9. NamedThrough(i, n) = StoredNames'
    BY <2>5, <2>7, <2>8 DEF NamedThrough
  <2> QED
    BY <1>9, <2>9 DEF Asked
<1>10. CASE OtherEdit /\ UNCHANGED <<named, strayed>>
  <2>1. StoredNames' = StoredNames
    BY <1>10, OtherEditIsQuiet, StoredKept DEF Quiet
  <2> QED
    BY <1>3, <1>10, <2>1
<1> QED
  BY <1>2, <1>4, <1>5, <1>6, <1>7, <1>8, <1>9, <1>10 DEF NamedNext

\* Until a function is imported or converted, no step adds an imported function.
ImportsNarrow ==
    /\ FuncCountsKept
    /\ Len(items["func"]) <= Len(items'["func"])
    /\ \A p \in 1 .. Len(items'["func"]) : items'["func"][p].kind = "import" =>
          /\ p \in 1 .. Len(items["func"]) /\ items["func"][p].kind = "import"
          /\ items["func"][p].imp = items'["func"][p].imp

\* What an item of the vector was: the same, as far as imports go, unless it is local.
WasImport(p) == \/ items'["func"][p].kind = "local"
                \/ /\ items'["func"][p].kind = items["func"][p].kind
                   /\ items'["func"][p].imp = items["func"][p].imp

LEMMA NarrowByPlace ==
    ASSUME FuncCountsKept, NEW n \in Nat, n = Len(items["func"]),
           Len(items'["func"]) = n \/ (Len(items'["func"]) = n + 1 /\ items'["func"][n + 1].kind = "local"),
           \A p \in 1 .. n : WasImport(p)
    PROVE  ImportsNarrow
<1>1. Len(items["func"]) <= Len(items'["func"])
  OBVIOUS
<1>2. ASSUME NEW p \in 1 .. Len(items'["func"]), items'["func"][p].kind = "import"
      PROVE  /\ p \in 1 .. Len(items["func"]) /\ items["func"][p].kind = "import"
             /\ items["func"][p].imp = items'["func"][p].imp
  <2>1. p \in 1 .. n \/ (p = n + 1 /\ items'["func"][n + 1].kind = "local")
    OBVIOUS
  <2> QED
    BY <1>2, <2>1 DEF WasImport
<1> QED
  BY <1>1, <1>2 DEF ImportsNarrow

LEMMA NarrowStep ==
    ASSUME Linked, Linked', [Next]_vars
    PROVE  ImportsNarrow \/ impAdded'["func"] > 0
<1> DEFINE n == Len(items["func"])
<1>0. /\ "func" \in Space /\ ItemsOK /\ n \in Nat /\ impAdded \in [Space -> Nat]
      /\ impAdded["func"] \in Nat /\ Len(imports) \in Nat /\ ImportsOK
      /\ {} \in SUBSET Ref /\ ImportName \in NameOrNone
  <2>1. TypeOK /\ ItemsOK /\ ImportsOK
    BY DEF Linked, TypeOK
  <2>2. n \in Nat /\ Len(imports) \in Nat
    BY <2>1, StoredFacts DEF ImportsOK
  <2> QED
    BY <2>1, <2>2 DEF Space, TypeOK, NameOrNone
<1>1. ASSUME FuncsKept, FuncCountsKept PROVE ImportsNarrow
  <2>1. Len(items'["func"]) = n /\ \A p \in 1 .. n : WasImport(p)
    BY <1>1 DEF FuncsKept, SameFunc, WasImport
  <2> HIDE DEF n
  <2> QED
    BY <1>0, <1>1, <2>1, NarrowByPlace DEF n
<1>2. ASSUME UNCHANGED <<items, impCount, impAdded>> PROVE ImportsNarrow
  BY <1>1, <1>2 DEF FuncsKept, SameFunc, FuncCountsKept
<1>3. ASSUME NEW m \in scenario.names \cup {NoName}, AddLocalFunc(m) \/ AddLocalFuncInComponent(m)
      PROVE  ImportsNarrow
  <2> DEFINE it == LocalItem(n, {}, m)
  <2>1. it \in Item /\ it.kind = "local"
    <3>1. m \in NameOrNone
      <4>1. scenario \in Scenarios
        BY DEF Linked, TypeOK
      <4> QED
        BY <4>1, ScenariosAssumption DEF WellFormed, NameOrNone
    <3>2. it \in Item
      BY <1>0, <3>1, ConstructorTypes
    <3> QED
      BY <3>2 DEF LocalItem
  <2>2. Pushed("func", it) /\ FuncCountsKept
    BY <1>3 DEF AddLocalFunc, AddLocalFuncInComponent, PushLocal, Pushed, FuncCountsKept
  <2> HIDE DEF it
  <2>3. /\ Len(items'["func"]) = n + 1 /\ items'["func"][n + 1] = it
        /\ \A p \in 1 .. n : items'["func"][p] = items["func"][p]
    BY <1>0, <2>1, <2>2, PushedType
  <2> QED
    <3>1. \A p \in 1 .. n : WasImport(p)
      BY <2>3 DEF WasImport
    <3>2. n = Len(items["func"])
      OBVIOUS
    <3> HIDE DEF n
    <3> QED
      BY <1>0, <2>1, <2>2, <2>3, <3>1, <3>2, NarrowByPlace
<1>4. ASSUME NEW i \in ImportsIDs, ReplaceImport(i) PROVE ImportsNarrow
  <2>1. CASE i \notin Handles("func")
    BY <1>2, <1>4, <2>1 DEF ReplaceImport
  <2>2. CASE i \in Handles("func")
    <3> DEFINE it == LocalItem(i, {}, ImportName)
    <3>1. it \in Item /\ it.kind = "local"
      <4>1. i \in Nat
        BY <1>0, <2>2, ItemAt
      <4>2. it \in Item
        BY <1>0, <4>1, ConstructorTypes
      <4> QED
        BY <4>2 DEF LocalItem
    <3>2. Replaced("func", i, it) /\ FuncCountsKept
      BY <1>4, <2>2 DEF ReplaceImport, Replaced, FuncCountsKept
    <3> HIDE DEF it
    <3>3. /\ Len(items'["func"]) = n
          /\ \A p \in 1 .. n : items'["func"][p] = IF p = i + 1 THEN it ELSE items["func"][p]
      BY <1>0, <2>2, <3>1, <3>2, ReplacedType
    <3>4. \A p \in 1 .. n : WasImport(p)
      BY <3>1, <3>3 DEF WasImport
    <3>5. n = Len(items["func"])
      OBVIOUS
    <3> HIDE DEF n
    <3> QED
      BY <1>0, <3>2, <3>3, <3>4, <3>5, NarrowByPlace
  <2> QED
    BY <2>1, <2>2
<1>5. ASSUME PushImport("func") PROVE impAdded'["func"] > 0
  BY <1>0, <1>5 DEF PushImport
<1>6. CASE AddImportFunc \/ \E h \in Handles("func") : ConvertLocalFnToImport(h)
  BY <1>5, <1>6 DEF AddImportFunc, AddImportItem, ConvertLocalFnToImport
<1>7. ASSUME NEW h \in Handles("func"), NEW m \in scenario.names, SetFnName(h, m)
      PROVE  ImportsNarrow
  <2>0. UNCHANGED <<impCount, impAdded>>
    BY <1>7 DEF SetFnName
  <2>1. CASE UNCHANGED items
    BY <1>2, <2>0, <2>1
  <2>2. CASE items' = [items EXCEPT !["func"][h + 1].name = m]
    <3> DEFINE old == At("func", h)
               it == [old EXCEPT !.name = m]
    <3>1. old \in Item /\ scenario \in Scenarios
      BY <1>0, ItemAt DEF Linked, TypeOK
    <3>2. m \in NameOrNone
      BY <3>1, ScenariosAssumption DEF WellFormed, NameOrNone
    <3>3. it \in Item /\ it.kind = old.kind /\ it.imp = old.imp
      <4> HIDE DEF old
      <4> QED
        BY <3>1, <3>2 DEF Item
    <3>4. Replaced("func", h, it)
      BY <1>0, <2>2 DEF Replaced, At, ItemsOK
    <3>5. old = items["func"][h + 1]
      BY DEF At
    <3> HIDE DEF it, old
    <3>6. /\ Len(items'["func"]) = n
          /\ \A p \in 1 .. n : items'["func"][p] = IF p = h + 1 THEN it ELSE items["func"][p]
      BY <1>0, <3>3, <3>4, ReplacedType
    <3>7. \A p \in 1 .. n : WasImport(p)
      BY <3>3, <3>5, <3>6 DEF WasImport
    <3>8. FuncCountsKept
      BY <2>0 DEF FuncCountsKept
    <3>9. n = Len(items["func"])
      OBVIOUS
    <3> HIDE DEF n
    <3> QED
      BY <1>0, <3>6, <3>7, <3>8, <3>9, NarrowByPlace
  <2>3. UNCHANGED items \/ items' = [items EXCEPT !["func"][h + 1].name = m]
    BY <1>7, Zenon DEF SetFnName
  <2> QED
    BY <2>1, <2>2, <2>3
<1>8. CASE OtherEdit
  BY <1>1, <1>8, OtherEditIsQuiet DEF Quiet
<1>9. CASE \E i \in ImportsIDs, m \in scenario.names : SetImportName(i, m)
  BY <1>2, <1>9 DEF SetImportName
<1>10. CASE UNCHANGED vars
  BY <1>2, <1>10 DEF vars
<1> HIDE DEF n
<1> QED
  BY <1>3, <1>4, <1>6, <1>7, <1>8, <1>9, <1>10 DEF Next

\* Until then the functions past num_funcs are local, and set_fn_name has not strayed
\* unless an import of another kind came in between.
LocalsPast ==
    impAdded["func"] = 0 =>
        /\ impCount["func"] <= Len(items["func"])
        /\ \A p \in 1 .. Len(items["func"]) : items["func"][p].kind = "import" => p <= impCount["func"]
StrayInv == LocalsPast /\ (strayed => ~ImportsAsParsed)

LEMMA StrayInit == NamedInit => StrayInv
<1> SUFFICES ASSUME NamedInit PROVE LocalsPast /\ ~strayed
  BY DEF StrayInv
<1> DEFINE m == scenario.module
<1>1. items = m.items /\ impCount = m.impCount /\ WellParsed(m) /\ ~strayed
  BY ScenariosAssumption DEF NamedInit, Init, WellFormed
<1> HIDE DEF m
<1>2. /\ items["func"] \in Seq(Item) /\ impCount["func"] \in Nat /\ m.numLocal["func"] \in Nat
      /\ Len(items["func"]) = impCount["func"] + m.numLocal["func"]
      /\ \A p \in DOMAIN items["func"] : items["func"][p].kind = "import" <=> p <= impCount["func"]
  BY <1>1 DEF WellParsed, Space
<1>3. DOMAIN items["func"] = 1 .. Len(items["func"])
  BY <1>2
<1>4. impCount["func"] <= Len(items["func"])
  <2>1. \A a, b \in Nat : a <= a + b
    OBVIOUS
  <2> QED
    BY <1>2, <2>1
<1> QED
  BY <1>1, <1>2, <1>3, <1>4 DEF LocalsPast

LEMMA SetFnNameDoesNotStray ==
    ASSUME Linked, Linked', LocalsPast, ImportsAsParsed,
           NEW h \in Handles("func"), NEW name \in Names, SetFnName(h, name)
    PROVE  StoredNames' = [StoredNames EXCEPT ![h + 1] = name]
<1> DEFINE n == Len(items["func"])
           v == items["func"]
<1>0. /\ "func" \in Space /\ TypeOK /\ ItemsOK /\ n \in Nat /\ h \in Nat /\ h + 1 \in 1 .. n
      /\ impCount["func"] \in Nat /\ At("func", h) = v[h + 1] /\ v[h + 1] \in Item
      /\ LinkedIn(v, imports, "func") /\ name \in NameOrNone
  <2>1. "func" \in Space /\ TypeOK /\ ItemsOK /\ ImportLinksOK
    BY DEF Space, Linked, TypeOK
  <2>2. LinkedIn(v, imports, "func")
    BY <2>1, LinksBySpace DEF TypeOK
  <2> QED
    BY <2>1, <2>2, ItemAt DEF At, TypeOK, NameOrNone
<1>1. /\ impCount["func"] <= n
      /\ \A p \in 1 .. n : v[p].kind = "import" => p <= impCount["func"]
      /\ \A g \in 0 .. impCount["func"] - 1 : IsImport(At("func", g)) /\ At("func", g).imp = g
  BY DEF LocalsPast, ImportsAsParsed
<1>2. CASE h < impCount["func"]
  <2>1. v[h + 1].kind = "import" /\ v[h + 1].imp = h
    BY <1>0, <1>1, <1>2 DEF IsImport
  <2>2. /\ h + 1 \in 1 .. Len(imports) /\ imports[h + 1].kind = "func"
        /\ \A q \in 1 .. n : v[q].kind = "import" /\ v[q].imp = h => q = h + 1
    <3>1. Len(imports) \in Nat
      BY <1>0 DEF TypeOK, ImportsOK
    <3>2. n = Len(v)
      OBVIOUS
    <3> HIDE DEF v, n
    <3>3. /\ v[h + 1].imp \in 0 .. Len(imports) - 1 /\ imports[v[h + 1].imp + 1].kind = "func"
          /\ \A q \in 1 .. n : v[q].kind = "import" /\ v[q].imp = v[h + 1].imp => q = h + 1
      BY <1>0, <2>1, <3>2 DEF LinkedIn
    <3> QED
      BY <2>1, <3>1, <3>3
  <2>3. UNCHANGED items /\ imports' = [imports EXCEPT ![h + 1].custom = name]
    BY <1>0, <1>2, <2>2 DEF SetFnName
  <2>4. \A i \in 1 .. Len(imports) :
           imports'[i].custom = IF i = h + 1 THEN name ELSE imports[i].custom
    BY <1>0, <2>2, <2>3, NameImportFacts
  <2>5. ASSUME NEW p \in 1 .. n
        PROVE  StoredNames'[p] = IF p = h + 1 THEN name ELSE StoredNames[p]
    <3>1. /\ StoredNames[p] = Stored(v[p], imports) /\ StoredNames'[p] = Stored(v[p], imports')
          /\ v[p].kind = "import" => v[p].imp + 1 \in 1 .. Len(imports) /\ v[p].imp \in Nat
      BY <2>3, StoredFacts, StoredFactsPrimed
    <3>2. v[p].kind = "import" /\ v[p].imp + 1 = h + 1 => p = h + 1
      BY <1>0, <2>2, <3>1
    <3> HIDE DEF v
    <3>3. CASE v[p].kind = "import"
      <4>1. Stored(v[p], imports') = IF v[p].imp + 1 = h + 1 THEN name ELSE Stored(v[p], imports)
        BY <2>4, <3>1, <3>3 DEF Stored
      <4>2. p = h + 1 => v[p].imp + 1 = h + 1
        BY <2>1
      <4> QED
        BY <3>1, <3>2, <3>3, <4>1, <4>2
    <3>4. CASE v[p].kind # "import"
      BY <2>1, <3>1, <3>4 DEF Stored
    <3> QED
      BY <3>3, <3>4
  <2>6. DOMAIN StoredNames = 1 .. n /\ DOMAIN StoredNames' = 1 .. n
    BY <2>3, StoredFacts, StoredFactsPrimed
  <2> DEFINE y == StoredNames
             z == StoredNames'
  <2>7. y = [p \in 1 .. n |-> y[p]] /\ z = [p \in 1 .. n |-> z[p]]
    BY <2>6 DEF StoredNames
  <2>8. \A p \in 1 .. n : z[p] = IF p = h + 1 THEN name ELSE y[p]
    BY <2>5
  <2> HIDE DEF y, z, n
  <2>9. z = [y EXCEPT ![h + 1] = name]
    BY <2>7, <2>8
  <2> QED
    BY <2>9 DEF y, z
<1>3. CASE ~(h < impCount["func"])
  <2>1. v[h + 1].kind # "import"
    BY <1>0, <1>1, <1>3
  <2>2. IsLocal(At("func", h))
    BY <1>0, <2>1 DEF IsLocal, Item
  <2> DEFINE it == [v[h + 1] EXCEPT !.name = name]
  <2>3. UNCHANGED imports /\ items' = [items EXCEPT !["func"][h + 1].name = name]
    BY <1>3, <2>2 DEF SetFnName
  <2>4. it \in Item /\ it.kind = v[h + 1].kind /\ it.name = name
    <3> HIDE DEF v
    <3> QED
      BY <1>0 DEF Item
  <2>5. Replaced("func", h, it) /\ CustomsKept
    BY <1>0, <2>3 DEF Replaced, ItemsOK, CustomsKept
  <2> HIDE DEF it
  <2>6. StoredNames' = [p \in DOMAIN StoredNames |->
                           IF p = h + 1 THEN Stored(it, imports') ELSE StoredNames[p]]
    BY <2>4, <2>5, StoredReplaced
  <2>7. Stored(it, imports') = name
    BY <2>1, <2>4 DEF Stored
  <2>8. StoredNames = [p \in DOMAIN StoredNames |-> StoredNames[p]]
    BY DEF StoredNames
  <2> QED
    BY <2>6, <2>7, <2>8
<1> QED
  BY <1>2, <1>3

LEMMA StrayStep ==
    ASSUME Linked, Linked', StrayInv, [NamedNext]_namedVars
    PROVE  StrayInv'
<1>0. /\ impCount["func"] \in Nat /\ impCount'["func"] \in Nat /\ impAdded'["func"] \in Nat
      /\ "func" \in Space /\ Len(items["func"]) \in Nat /\ Len(items'["func"]) \in Nat
  BY StoredFacts, StoredFactsPrimed DEF Linked, TypeOK, Space
<1>1. ImportsNarrow \/ impAdded'["func"] > 0
  BY NamedStepIsStep, NarrowStep
<1>2. LocalsPast'
  <2> SUFFICES ASSUME impAdded'["func"] = 0
               PROVE  /\ impCount'["func"] <= Len(items'["func"])
                      /\ \A p \in 1 .. Len(items'["func"]) :
                            items'["func"][p].kind = "import" => p <= impCount'["func"]
    BY DEF LocalsPast
  <2>1. ImportsNarrow /\ LocalsPast
    BY <1>1 DEF StrayInv
  <2> QED
    BY <1>0, <2>1 DEF ImportsNarrow, FuncCountsKept, LocalsPast
<1>3. ASSUME ImportsAsParsed' PROVE ImportsAsParsed /\ LocalsPast
  <2>1. ImportsNarrow /\ LocalsPast /\ impAdded'["func"] = 0
    BY <1>1, <1>3 DEF StrayInv, ImportsAsParsed
  <2>2. impAdded["func"] = 0 /\ impCount'["func"] = impCount["func"]
    BY <2>1 DEF ImportsNarrow, FuncCountsKept
  <2>3. impCount["func"] <= Len(items["func"])
    BY <2>1, <2>2 DEF LocalsPast
  <2>4. ASSUME NEW h \in 0 .. impCount["func"] - 1
        PROVE  IsImport(At("func", h)) /\ At("func", h).imp = h
    <3>1. items'["func"][h + 1].kind = "import" /\ items'["func"][h + 1].imp = h
      BY <1>3, <2>2 DEF ImportsAsParsed, IsImport, At
    <3>2. h + 1 \in 1 .. Len(items'["func"])
      BY <1>0, <2>1, <2>3 DEF ImportsNarrow
    <3> QED
      BY <2>1, <3>1, <3>2 DEF ImportsNarrow, IsImport, At
  <2> QED
    BY <2>1, <2>2, <2>4 DEF ImportsAsParsed
<1>4. ASSUME strayed', ImportsAsParsed' PROVE FALSE
  <2>1. ImportsAsParsed /\ LocalsPast /\ ~strayed
    BY <1>3, <1>4 DEF StrayInv
  <2>2. UNCHANGED strayed \/ \E h \in Handles("func"), n \in scenario.names : NamedSetFnName(h, n)
    BY DEF NamedNext, namedVars, Asked
  <2>3. ASSUME NEW h \in Handles("func"), NEW n \in scenario.names, NamedSetFnName(h, n)
        PROVE  ~strayed'
    <3>1. n \in Names
      <4>1. scenario \in Scenarios
        BY DEF Linked, TypeOK
      <4> QED
        BY <4>1, ScenariosAssumption DEF WellFormed
    <3>2. StoredNames' = [StoredNames EXCEPT ![h + 1] = n]
      BY <2>1, <2>3, <3>1, SetFnNameDoesNotStray DEF NamedSetFnName
    <3> QED
      BY <2>1, <2>3, <3>2 DEF NamedSetFnName
  <2> QED
    BY <1>4, <2>1, <2>2, <2>3
<1> QED
  BY <1>2, <1>4 DEF StrayInv

\* The name section gives a live function the name that is stored for it, and no other.
LEMMA NamesGivenAreStored ==
    ASSUME ModuleInv, panic = NoPanic, FuncIdsChecked, NEW h \in LiveHandles("func")
    PROVE  NamesGiven(h) = {StoredNames[h + 1]} \ {NoName}
<1> DEFINE v == items["func"]
           w == Vector("func")
           a == Cardinality(LiveImportPositions(v))
           E == EmittedSpace("func")
           imps == EmittedImports("func")
           W == Written("func")
           k == h + 1
           x == v[k]
           stored == StoredNames[k]
           Entry(i) == <<i - 1, imports[imps[i] + 1].custom>>
           Body(p) == <<p - 1, w[p].name>>
<1>1. /\ "func" \in Space /\ ItemsOK /\ PositionIdsIn("func")
      /\ w \in Seq(Item) /\ v \in Seq(Item) /\ Compacts(w, v)
  BY NumberedFacts, VectorCompacts DEF Space
<1>2. /\ DOMAIN E = 1 .. Len(w) /\ Len(imps) = a /\ a \in Nat /\ Len(w) \in Nat /\ a <= Len(w)
      /\ \A i \in 1 .. a : E[i] = <<"import", imps[i]>>
      /\ \A j \in a + 1 .. Len(w) : E[j] = <<"local", w[j].id>>
      /\ \A j \in 1 .. Len(w) : a < j <=> LiveLocal(w[j])
  BY <1>1, SpaceFacts, EmittedLocalsFacts
<1>3. /\ imps \in Seq(Nat) /\ Cardinality(W) = a
      /\ \A i \in W : imps[Below(W, i) + 1] = i - 1
  BY <1>1, EmittedImportsFacts, WrittenCount
<1>4. /\ k \in Live(v) /\ At("func", h) = x /\ h \in Int
      /\ k \in LiveImportPositions(v) <=> IsImport(x)
      /\ k \in LiveLocalPositions(v) <=> IsLocal(x)
      /\ k \in 1 .. Len(v) /\ x \in Item /\ x.id = h
  <2>1. h \in Handles("func") /\ At("func", h).id = h
    BY <1>1 DEF LiveHandles, PositionIdsIn
  <2>2. At("func", h) \in Item /\ k \in 1 .. Len(v)
    BY <1>1, <2>1, ItemAt
  <2>3. /\ k \in Live(v) /\ At("func", h) = x /\ h \in Int
        /\ k \in LiveImportPositions(v) <=> IsImport(At("func", h))
        /\ k \in LiveLocalPositions(v) <=> IsLocal(At("func", h))
    BY <1>1, LiveIsLiveHandles
  <2> HIDE DEF k, v
  <2>4. x.id = h
    BY <2>1, <2>3
  <2> QED
    BY <2>2, <2>3, <2>4
<1>5. Denotes("func", h) = IF IsImport(x) THEN <<"import", x.imp>> ELSE <<"local", x.id>>
  BY <1>4 DEF Denotes
<1>6. stored = Stored(x, imports)
  BY <1>1, <1>4, StoredFacts DEF ModuleInv
<1>7. \A e : Resolves("func", e, h) <=> e + 1 \in DOMAIN E /\ E[e + 1] = Denotes("func", h)
  BY DEF Resolves
<1>8. \A e : e \in FunctionNames <=>
         \/ \E i \in DOMAIN imps : e = Entry(i) /\ imports[imps[i] + 1].custom # NoName
         \/ \E p \in DOMAIN w : e = Body(p) /\ LiveLocal(w[p]) /\ w[p].name # NoName
  BY DEF FunctionNames
<1>9. DOMAIN imps = 1 .. a /\ DOMAIN w = 1 .. Len(w)
  BY <1>1, <1>2, <1>3
<1>10. /\ \A i \in 1 .. a : Entry(i)[1] + 1 = i /\ Entry(i)[2] = imports[imps[i] + 1].custom
       /\ \A p \in 1 .. Len(w) : Body(p)[1] + 1 = p /\ Body(p)[2] = w[p].name
  BY <1>2
<1>11. ASSUME NEW y \in NamesGiven(h) PROVE y = stored /\ y # NoName
  <2>1. PICK e \in FunctionNames : Resolves("func", e[1], h) /\ y = e[2]
    BY DEF NamesGiven
  <2>2. e[1] + 1 \in DOMAIN E /\ E[e[1] + 1] = Denotes("func", h)
    BY <1>7, <2>1
  <2>3. ASSUME NEW i \in 1 .. a, e = Entry(i), imports[imps[i] + 1].custom # NoName
        PROVE  y = stored /\ y # NoName
    <3>1. e[1] + 1 = i /\ e[2] = imports[imps[i] + 1].custom
      BY <1>10, <2>3
    <3>2. Denotes("func", h) = <<"import", imps[i]>>
      BY <1>2, <2>2, <3>1
    <3>3. IsImport(x) /\ x.imp = imps[i]
      <4> HIDE DEF x, imps
      <4> QED
        BY <1>5, <3>2
    <3> HIDE DEF x, imps
    <3> QED
      BY <1>6, <2>1, <2>3, <3>1, <3>3 DEF Stored, IsImport
  <2>4. ASSUME NEW p \in 1 .. Len(w), e = Body(p), LiveLocal(w[p]), w[p].name # NoName
        PROVE  y = stored /\ y # NoName
    <3>1. e[1] + 1 = p /\ e[2] = w[p].name
      BY <1>10, <2>4
    <3>2. p \in a + 1 .. Len(w)
      <4>1. a < p
        BY <1>2, <2>4
      <4> HIDE DEF a, w
      <4> QED
        BY <1>2, <4>1
    <3>3. Denotes("func", h) = <<"local", w[p].id>>
      BY <1>2, <2>2, <3>1, <3>2
    <3>4. ~IsImport(x) /\ w[p].id = x.id
      <4> HIDE DEF x, w
      <4> QED
        BY <1>5, <3>3
    <3>5. PICK q \in Live(v) : Rank(v, q) + 1 = p
      BY <1>1 DEF Compacts
    <3>6. w[p] = v[q]
      BY <1>1, <3>5 DEF Compacts
    <3>7. q - 1 \in LiveHandles("func") /\ q - 1 + 1 = q /\ q \in Int
      BY <1>1, LiveIsLiveHandles
    <3>8. v[q].id = q - 1
      BY <1>1, <3>7 DEF At, PositionIdsIn, LiveHandles
    <3>9. q = k
      BY <1>4, <3>4, <3>6, <3>7, <3>8
    <3>10. w[p] = x
      BY <3>6, <3>9
    <3> HIDE DEF x, w
    <3> QED
      BY <1>6, <2>1, <2>4, <3>1, <3>4, <3>10 DEF Stored, IsImport
  <2>5. \/ \E i \in 1 .. a : e = Entry(i) /\ imports[imps[i] + 1].custom # NoName
        \/ \E p \in 1 .. Len(w) : e = Body(p) /\ LiveLocal(w[p]) /\ w[p].name # NoName
    BY <1>8, <1>9
  <2> HIDE DEF stored, Entry, Body, a, w, imps
  <2> QED
    BY <2>3, <2>4, <2>5
<1>12. ASSUME stored # NoName PROVE stored \in NamesGiven(h)
  <2>1. ASSUME NEW e \in FunctionNames, e[1] + 1 \in DOMAIN E, E[e[1] + 1] = Denotes("func", h),
               e[2] = stored
        PROVE  stored \in NamesGiven(h)
    BY <1>7, <2>1 DEF NamesGiven
  <2>2. CASE IsImport(x)
    <3> DEFINE t == x.imp + 1
               i == Below(W, t) + 1
    <3>1. t \in W /\ x.imp \in Int
      <4>1. k \in LiveImportPositions(v)
        BY <1>4, <2>2
      <4>2. EntryOf("func")[k] \in W /\ x.imp \in Int
        BY <1>1, <4>1, WrittenFacts
      <4> QED
        BY <4>1, <4>2 DEF EntryOf
    <3>2. W \in SUBSET (1 .. Len(imports)) /\ Len(imports) \in Nat
      BY DEF Written, ModuleInv, Linked, TypeOK, ImportsOK
    <3> HIDE DEF W
    <3>3. i \in 1 .. a
      <4>1. t \in Int /\ t + 1 \in Int
        BY <3>1
      <4>2. /\ Below(W, t) \in 0 .. Cardinality(W) /\ Below(W, t + 1) \in 0 .. Cardinality(W)
            /\ Below(W, t + 1) = Below(W, t) + 1
        BY <3>1, <3>2, <4>1, BelowFacts
      <4> HIDE DEF t, a
      <4> QED
        BY <1>2, <1>3, <4>2
    <3>4. imps[i] = x.imp
      <4>1. imps[i] = t - 1
        BY <1>3, <3>1
      <4> QED
        BY <3>1, <4>1
    <3>5. stored = imports[imps[i] + 1].custom
      BY <1>6, <2>2, <3>4 DEF Stored, IsImport
    <3> HIDE DEF i, x, stored
    <3>6. Entry(i) \in FunctionNames
      BY <1>8, <1>9, <1>12, <3>3, <3>5
    <3>7. Entry(i)[1] + 1 = i /\ Entry(i)[2] = stored
      BY <1>10, <3>3, <3>5
    <3>8. i \in DOMAIN E /\ E[i] = Denotes("func", h)
      <4>1. i \in 1 .. Len(w)
        <5> HIDE DEF a, w
        <5> QED
          BY <1>2, <3>3
      <4> QED
        BY <1>2, <1>5, <2>2, <3>3, <3>4, <4>1
    <3> HIDE DEF Entry
    <3> QED
      BY <2>1, <3>6, <3>7, <3>8
  <2>3. CASE ~IsImport(x)
    <3> DEFINE p == Rank(v, k) + 1
    <3>1. IsLocal(x) /\ ~x.deleted
      <4>1. ~x.deleted
        BY <1>4 DEF LiveHandles
      <4> HIDE DEF x
      <4> QED
        BY <1>4, <2>3, <4>1 DEF IsLocal, IsImport, Item
    <3>2. p \in 1 .. Len(w) /\ w[p] = x
      BY <1>1, <1>4 DEF Compacts
    <3>3. p \in DOMAIN E /\ E[p] = <<"local", x.id>>
      <4>1. k \in LiveLocalPositions(v)
        BY <1>4, <3>1
      <4> QED
        BY <1>1, <4>1, LocalsPlaced
    <3> HIDE DEF p, x, stored, w, E
    <3>4. LiveLocal(w[p]) /\ w[p].name = stored
      BY <1>6, <2>3, <3>1, <3>2 DEF LiveLocal, Stored, IsImport
    <3>5. Body(p) \in FunctionNames
      BY <1>8, <1>9, <1>12, <3>2, <3>4
    <3>6. Body(p)[1] + 1 = p /\ Body(p)[2] = stored
      BY <1>10, <3>2, <3>4
    <3>7. E[p] = Denotes("func", h)
      BY <1>5, <2>3, <3>3
    <3> HIDE DEF Body
    <3> QED
      BY <2>1, <3>3, <3>5, <3>6, <3>7
  <2> QED
    BY <2>2, <2>3
<1>13. \A y : y \in NamesGiven(h) <=> y = stored /\ y # NoName
  <2> HIDE DEF stored
  <2> QED
    BY <1>11, <1>12
<1> HIDE DEF stored
<1>14. NamesGiven(h) = {stored} \ {NoName}
  BY <1>13
<1> QED
  BY <1>14 DEF stored

\* Every live function carries, in the binary, the name it was last given, whichever
\* operation gave it and whatever was deleted, converted or imported since; and
\* set_fn_name does what it is asked while the imported functions are those of the parsed
\* module, each with its ImportsID for an ID.
THEOREM NamesFaithfulHolds == NamedSpec => []NamesFaithful
<1> DEFINE Inv == ModuleInv /\ NamedInv /\ StrayInv
<1>1. NamedInit => Inv
  <2>1. NamedInit => NamedInv
    BY DEF NamedInit, NamedInv
  <2> QED
    BY <2>1, ModuleInvInit, StrayInit DEF NamedInit
<1>2. Inv /\ [NamedNext]_namedVars => Inv'
  <2> SUFFICES ASSUME ModuleInv, NamedInv, StrayInv, [NamedNext]_namedVars
               PROVE  ModuleInv' /\ NamedInv' /\ StrayInv'
    OBVIOUS
  <2>1. ModuleInv'
    BY NamedStepIsStep, ModuleInvNext
  <2>2. Linked /\ Linked'
    BY <2>1 DEF ModuleInv
  <2> QED
    BY <2>1, <2>2, NamedStep, StrayStep
<1>3. Inv => NamesFaithful
  <2> SUFFICES ASSUME ModuleInv, NamedInv, StrayInv PROVE NamesFaithful
    OBVIOUS
  <2>1. ASSUME panic = NoPanic, FuncIdsChecked, ~strayed, NEW h \in LiveHandles("func")
        PROVE  NamesGiven(h) = NamesAsked(h)
    <3>1. named = StoredNames
      BY <2>1 DEF NamedInv
    <3>2. NamesGiven(h) = {StoredNames[h + 1]} \ {NoName}
      BY <2>1, NamesGivenAreStored
    <3> QED
      BY <3>1, <3>2 DEF NamesAsked
  <2> QED
    BY <2>1 DEF NamesFaithful, StrayInv
<1> HIDE DEF Inv
<1> QED
  BY <1>1, <1>2, <1>3, PTL DEF NamedSpec
=============================================================================
