--------------------------- MODULE ModuleIRProofs ---------------------------
(***************************************************************************)
(* Theorems about ModuleIR, for every set of parsed modules, every set of  *)
(* names and every bound.                                                  *)
(***************************************************************************)
EXTENDS ModuleIR, TLAPS

(***************************************************************************)
(* Sequences that grow or change in one place.                             *)
(***************************************************************************)
LEMMA AppendFacts ==
    ASSUME NEW S, NEW v \in Seq(S), NEW x \in S
    PROVE  /\ Append(v, x) \in Seq(S)
           /\ Len(Append(v, x)) = Len(v) + 1
           /\ \A p \in 1 .. Len(v) : Append(v, x)[p] = v[p]
           /\ Append(v, x)[Len(v) + 1] = x
OBVIOUS

LEMMA UpdateFacts ==
    ASSUME NEW S, NEW v \in Seq(S), NEW k \in 1 .. Len(v), NEW x \in S
    PROVE  /\ [v EXCEPT ![k] = x] \in Seq(S)
           /\ Len([v EXCEPT ![k] = x]) = Len(v)
           /\ \A p \in 1 .. Len(v) : [v EXCEPT ![k] = x][p] = IF p = k THEN x ELSE v[p]
OBVIOUS

LEMMA ConstructorTypes ==
    /\ \A id \in Nat, refs \in SUBSET Ref, name \in NameOrNone : LocalItem(id, refs, name) \in Item
    /\ \A id \in Nat, imp \in Nat : ImportItem(id, imp) \in Item
    /\ \A s \in Space : [kind |-> s, deleted |-> FALSE, custom |-> NoName] \in Import
BY DEF LocalItem, ImportItem, Item, Import, NameOrNone, ImportKind

(***************************************************************************)
(* The item vectors change in two ways only: one more item in one space,   *)
(* or another item in one place.                                           *)
(***************************************************************************)
Pushed(s, it) == items' = [items EXCEPT ![s] = Append(items[s], it)]
Replaced(s, h, it) == items' = [items EXCEPT ![s] = [items[s] EXCEPT ![h + 1] = it]]

LEMMA PushedType ==
    ASSUME ItemsOK, NEW s \in Space, NEW it \in Item, Pushed(s, it)
    PROVE  /\ ItemsOK'
           /\ Len(items'[s]) = Len(items[s]) + 1
           /\ \A t \in Space \ {s} : items'[t] = items[t]
           /\ \A p \in 1 .. Len(items[s]) : items'[s][p] = items[s][p]
           /\ items'[s][Len(items[s]) + 1] = it
<1>1. items[s] \in Seq(Item)
  BY DEF ItemsOK
<1>2. /\ Append(items[s], it) \in Seq(Item)
      /\ Len(Append(items[s], it)) = Len(items[s]) + 1
      /\ \A p \in 1 .. Len(items[s]) : Append(items[s], it)[p] = items[s][p]
      /\ Append(items[s], it)[Len(items[s]) + 1] = it
  BY <1>1, AppendFacts
<1>3. items'[s] = Append(items[s], it) /\ \A t \in Space \ {s} : items'[t] = items[t]
  BY DEF ItemsOK, Pushed
<1>4. ItemsOK'
  BY <1>2 DEF ItemsOK, Pushed
<1> QED
  BY <1>2, <1>3, <1>4

LEMMA ReplacedType ==
    ASSUME ItemsOK, NEW s \in Space, NEW h \in Handles(s), NEW it \in Item, Replaced(s, h, it)
    PROVE  /\ ItemsOK'
           /\ Len(items'[s]) = Len(items[s])
           /\ \A t \in Space \ {s} : items'[t] = items[t]
           /\ \A p \in 1 .. Len(items[s]) :
                 items'[s][p] = IF p = h + 1 THEN it ELSE items[s][p]
<1>1. items[s] \in Seq(Item) /\ Len(items[s]) \in Nat
  BY DEF ItemsOK
<1>2. h + 1 \in 1 .. Len(items[s])
  BY <1>1 DEF Handles
<1> DEFINE v == [items[s] EXCEPT ![h + 1] = it]
<1>3. /\ v \in Seq(Item) /\ Len(v) = Len(items[s])
      /\ \A p \in 1 .. Len(items[s]) : v[p] = IF p = h + 1 THEN it ELSE items[s][p]
  BY <1>1, <1>2, UpdateFacts
<1>4. items'[s] = v /\ \A t \in Space \ {s} : items'[t] = items[t]
  BY DEF ItemsOK, Replaced
<1>5. ItemsOK'
  BY <1>3 DEF ItemsOK, Replaced
<1> QED
  BY <1>3, <1>4, <1>5

\* An item of a typed vector.
LEMMA ItemAt ==
    ASSUME ItemsOK, NEW s \in Space, NEW h \in Handles(s)
    PROVE  /\ At(s, h) \in Item
           /\ h \in Nat /\ h + 1 \in 1 .. Len(items[s]) /\ Len(items[s]) \in Nat
BY DEF ItemsOK, At, Handles

LEMMA PlacesChanged ==
    ASSUME ItemsOK, NEW s \in Space, NEW h \in Handles(s)
    PROVE  /\ DeleteItem(s, h) =>
                Replaced(s, h, [At(s, h) EXCEPT !.deleted = TRUE])
           /\ s = "func" => \A r \in KnownRefs :
                Inject(h, r) => Replaced(s, h, [At(s, h) EXCEPT !.refs = @ \cup {r}])
           /\ s = "func" /\ InjectSpecial(h) =>
                Replaced(s, h, [At(s, h) EXCEPT !.special = TRUE])
           /\ s = "global" => \A init \in InitExprs :
                ModGlobalInitExpr(h, init) => Replaced(s, h, [At(s, h) EXCEPT !.refs = init])
BY ItemAt DEF ItemsOK, Replaced, At, DeleteItem, Inject, InjectSpecial, ModGlobalInitExpr

(***************************************************************************)
(* Type correctness.                                                       *)
(***************************************************************************)
LEMMA RefTypes ==
    /\ \A r \in KnownRefs : r \in Ref
    /\ \A init \in InitExprs : init \in SUBSET Ref
<1>1. ASSUME NEW s \in Space, NEW h \in Handles(s)
      PROVE  [space |-> s, id |-> h] \in Ref
  BY DEF Handles, Ref
<1>2. \A r \in KnownRefs : r \in Ref
  BY <1>1 DEF KnownRefs
<1> QED
  BY <1>2 DEF InitExprs

\* ModuleImports::add keeps the import section and its counters typed.
LEMMA PushImportType ==
    ASSUME TypeOK, NEW s \in Space, PushImport(s)
    PROVE  /\ ImportsOK' /\ impCount' \in [Space -> Nat] /\ impAdded' \in [Space -> Nat]
           /\ Len(imports) \in Nat /\ Len(imports') = Len(imports) + 1
           /\ \A i \in 1 .. Len(imports) : imports'[i] = imports[i]
           /\ imports'[Len(imports) + 1] = [kind |-> s, deleted |-> FALSE, custom |-> NoName]
<1>1. imports \in Seq(Import)
  BY DEF TypeOK, ImportsOK
<1>2. [kind |-> s, deleted |-> FALSE, custom |-> NoName] \in Import
  BY ConstructorTypes
<1>3. /\ imports' \in Seq(Import) /\ Len(imports') = Len(imports) + 1
      /\ \A i \in 1 .. Len(imports) : imports'[i] = imports[i]
      /\ imports'[Len(imports) + 1] = [kind |-> s, deleted |-> FALSE, custom |-> NoName]
  BY <1>1, <1>2, AppendFacts DEF PushImport
<1>4. impCount' \in [Space -> Nat] /\ impAdded' \in [Space -> Nat]
  BY DEF TypeOK, PushImport
<1> QED
  BY <1>1, <1>3, <1>4 DEF ImportsOK

\* Marking the import behind a linked item keeps the import section typed.
LEMMA DropImportFacts ==
    ASSUME TypeOK, NEW it \in Item, IsImport(it) => it.imp \in 0 .. Len(imports) - 1
    PROVE  /\ DropImportOf(it) \in Seq(Import) /\ Len(DropImportOf(it)) = Len(imports)
           /\ \A i \in 1 .. Len(imports) :
                DropImportOf(it)[i] =
                    IF IsImport(it) /\ i = it.imp + 1
                    THEN [imports[i] EXCEPT !.deleted = TRUE] ELSE imports[i]
<1>1. imports \in Seq(Import) /\ Len(imports) \in Nat
  BY DEF TypeOK, ImportsOK
<1>2. CASE ~IsImport(it)
  BY <1>1, <1>2 DEF DropImportOf
<1>3. CASE IsImport(it)
  <2> DEFINE k == it.imp + 1
             new == [imports[k] EXCEPT !.deleted = TRUE]
  <2>1. k \in 1 .. Len(imports)
    BY <1>1, <1>3
  <2>2. new \in Import
    <3>1. imports[k] \in Import
      BY <1>1, <2>1
    <3> HIDE DEF k
    <3> QED
      BY <3>1 DEF Import
  <2>3. DropImportOf(it) = [imports EXCEPT ![k] = new]
    BY <1>3 DEF DropImportOf
  <2>4. /\ [imports EXCEPT ![k] = new] \in Seq(Import)
        /\ Len([imports EXCEPT ![k] = new]) = Len(imports)
        /\ \A i \in 1 .. Len(imports) :
              [imports EXCEPT ![k] = new][i] = IF i = k THEN new ELSE imports[i]
    BY <1>1, <2>1, <2>2, UpdateFacts
  <2> QED
    BY <1>3, <2>3, <2>4
<1> QED
  BY <1>2, <1>3

(***************************************************************************)
(* Links between items and imports, one space at a time: v is its vector.  *)
(***************************************************************************)
LinkedIn(v, imps, s) ==
    \A p \in 1 .. Len(v) :
        v[p].kind = "import" =>
            /\ v[p].imp \in 0 .. Len(imps) - 1
            /\ imps[v[p].imp + 1].kind = s
            /\ imps[v[p].imp + 1].deleted = v[p].deleted
            /\ \A q \in 1 .. Len(v) : v[q].kind = "import" /\ v[q].imp = v[p].imp => q = p

LEMMA LinksBySpace ==
    ItemsOK => (ImportLinksOK <=> \A s \in Space : LinkedIn(items[s], imports, s))
<1> SUFFICES ASSUME ItemsOK
             PROVE  ImportLinksOK <=> \A s \in Space : LinkedIn(items[s], imports, s)
  OBVIOUS
<1>1. \A s \in Space : Len(items[s]) \in Nat
  BY DEF ItemsOK
<1>2. ASSUME ImportLinksOK, NEW s \in Space PROVE LinkedIn(items[s], imports, s)
  <2> SUFFICES ASSUME NEW p \in 1 .. Len(items[s]), items[s][p].kind = "import"
               PROVE  /\ items[s][p].imp \in 0 .. Len(imports) - 1
                      /\ imports[items[s][p].imp + 1].kind = s
                      /\ imports[items[s][p].imp + 1].deleted = items[s][p].deleted
                      /\ \A q \in 1 .. Len(items[s]) :
                            items[s][q].kind = "import" /\ items[s][q].imp = items[s][p].imp
                                => q = p
    BY DEF LinkedIn
  <2>1. \A q \in 1 .. Len(items[s]) :
           q - 1 \in Handles(s) /\ At(s, q - 1) = items[s][q]
    BY <1>1 DEF Handles, At
  <2>2. p - 1 \in Handles(s) /\ IsImport(At(s, p - 1)) /\ At(s, p - 1) = items[s][p]
    BY <2>1 DEF IsImport
  <2>3. /\ items[s][p].imp \in 0 .. Len(imports) - 1
        /\ imports[items[s][p].imp + 1].kind = s
        /\ imports[items[s][p].imp + 1].deleted = items[s][p].deleted
        /\ \A k \in Handles(s) :
              IsImport(At(s, k)) /\ At(s, k).imp = items[s][p].imp => k = p - 1
    BY <1>2, <2>2 DEF ImportLinksOK, ImportsIDs
  <2>4. ASSUME NEW q \in 1 .. Len(items[s]), items[s][q].kind = "import",
               items[s][q].imp = items[s][p].imp
        PROVE  q = p
    <3>1. q - 1 = p - 1
      BY <2>1, <2>3, <2>4 DEF IsImport
    <3> QED
      BY <1>1, <3>1
  <2> QED
    BY <2>3, <2>4
<1>3. ASSUME \A s \in Space : LinkedIn(items[s], imports, s) PROVE ImportLinksOK
  <2> SUFFICES ASSUME NEW s \in Space, NEW h \in Handles(s), IsImport(At(s, h))
               PROVE  /\ At(s, h).imp \in 0 .. Len(imports) - 1
                      /\ imports[At(s, h).imp + 1].kind = s
                      /\ imports[At(s, h).imp + 1].deleted = At(s, h).deleted
                      /\ \A k \in Handles(s) :
                            IsImport(At(s, k)) /\ At(s, k).imp = At(s, h).imp => k = h
    BY DEF ImportLinksOK, ImportsIDs
  <2>1. \A k \in Handles(s) : k + 1 \in 1 .. Len(items[s])
    BY <1>1 DEF Handles
  <2>2. LinkedIn(items[s], imports, s)
    BY <1>3
  <2>3. \A k \in Handles(s) : k + 1 \in 1 .. Len(items[s]) /\ k \in Int
    BY <1>1 DEF Handles
  <2>4. h + 1 \in 1 .. Len(items[s]) /\ items[s][h + 1].kind = "import"
    BY <2>3 DEF IsImport, At
  <2>5. /\ items[s][h + 1].imp \in 0 .. Len(imports) - 1
        /\ imports[items[s][h + 1].imp + 1].kind = s
        /\ imports[items[s][h + 1].imp + 1].deleted = items[s][h + 1].deleted
        /\ \A q \in 1 .. Len(items[s]) :
              items[s][q].kind = "import" /\ items[s][q].imp = items[s][h + 1].imp => q = h + 1
    BY <2>2, <2>4 DEF LinkedIn
  <2>6. ASSUME NEW k \in Handles(s), IsImport(At(s, k)), At(s, k).imp = At(s, h).imp
        PROVE  k = h
    <3>1. k + 1 = h + 1
      BY <2>3, <2>5, <2>6 DEF IsImport, At
    <3> QED
      BY <2>3, <3>1
  <2> QED
    BY <2>5, <2>6 DEF At
<1> QED
  BY <1>2, <1>3

LEMMA LinksBySpacePrimed ==
    ItemsOK' /\ (\A s \in Space : LinkedIn(items'[s], imports', s)) => ImportLinksOK'
<1> SUFFICES ASSUME ItemsOK', \A s \in Space : LinkedIn(items'[s], imports', s),
                    NEW s \in Space, NEW h \in Handles(s)', IsImport(At(s, h))'
             PROVE  (/\ At(s, h).imp \in 0 .. Len(imports) - 1
                     /\ imports[At(s, h).imp + 1].kind = s
                     /\ imports[At(s, h).imp + 1].deleted = At(s, h).deleted
                     /\ \A k \in Handles(s) :
                            IsImport(At(s, k)) /\ At(s, k).imp = At(s, h).imp => k = h)'
  BY DEF ImportLinksOK, ImportsIDs
<1>1. Len(items'[s]) \in Nat
  BY DEF ItemsOK
<1>2. \A k \in Handles(s)' : k + 1 \in 1 .. Len(items'[s])
  BY <1>1 DEF Handles
<1> QED
  BY <1>1, <1>2 DEF LinkedIn, IsImport, At, Handles

\* Items and imports stay: so do their types and links.
LEMMA LinksStay ==
    ASSUME ItemsOK, ImportsOK, ImportLinksOK, items' = items, imports' = imports
    PROVE  ItemsOK' /\ ImportsOK' /\ ImportLinksOK'
<1>1. \A s \in Space : LinkedIn(items[s], imports, s)
  BY LinksBySpace
<1>2. ItemsOK' /\ ImportsOK'
  BY DEF ItemsOK, ImportsOK
<1>3. \A s \in Space : LinkedIn(items'[s], imports', s)
  BY <1>1
<1> QED
  BY <1>2, <1>3, LinksBySpacePrimed

\* The import section grows: links stay as they are.
LEMMA LinksGrow ==
    ASSUME NEW s, NEW v \in Seq(Item), NEW imps \in Seq(Import), NEW imps2 \in Seq(Import),
           LinkedIn(v, imps, s), Len(imps2) >= Len(imps),
           \A i \in 1 .. Len(imps) : imps2[i] = imps[i]
    PROVE  LinkedIn(v, imps2, s)
<1>1. Len(imps) \in Nat /\ Len(imps2) \in Nat
  OBVIOUS
<1>2. ASSUME NEW p \in 1 .. Len(v), v[p].kind = "import"
      PROVE  v[p].imp + 1 \in 1 .. Len(imps) /\ v[p].imp \in 0 .. Len(imps2) - 1
  BY <1>1, <1>2 DEF LinkedIn
<1> QED
  BY <1>2 DEF LinkedIn

\* A vector gets an item that is local, or that is linked to a new import.
LEMMA LinksPush ==
    ASSUME NEW s, NEW v \in Seq(Item), NEW it \in Item, NEW w \in Seq(Item),
           NEW imps \in Seq(Import), NEW imps2 \in Seq(Import),
           LinkedIn(v, imps, s), Len(imps2) >= Len(imps),
           \A i \in 1 .. Len(imps) : imps2[i] = imps[i],
           Len(w) = Len(v) + 1, w[Len(v) + 1] = it, \A p \in 1 .. Len(v) : w[p] = v[p],
           it.kind = "import" =>
               /\ it.imp = Len(imps) /\ Len(imps2) = Len(imps) + 1
               /\ imps2[Len(imps) + 1].kind = s /\ imps2[Len(imps) + 1].deleted = it.deleted
    PROVE  LinkedIn(w, imps2, s)
<1> SUFFICES ASSUME NEW p \in 1 .. Len(w), w[p].kind = "import"
             PROVE  /\ w[p].imp \in 0 .. Len(imps2) - 1
                    /\ imps2[w[p].imp + 1].kind = s
                    /\ imps2[w[p].imp + 1].deleted = w[p].deleted
                    /\ \A q \in 1 .. Len(w) : w[q].kind = "import" /\ w[q].imp = w[p].imp => q = p
  BY DEF LinkedIn
<1>1. Len(v) \in Nat /\ Len(imps) \in Nat /\ Len(imps2) \in Nat
  OBVIOUS
<1>2. \A q \in 1 .. Len(v) : v[q].kind = "import" => v[q].imp \in 0 .. Len(imps) - 1
  BY DEF LinkedIn
<1>3. CASE p = Len(v) + 1
  <2>1. \A q \in 1 .. Len(v) : w[q].kind = "import" => w[q].imp # w[p].imp
    <3>1. w[p].imp = Len(imps)
      BY <1>3
    <3>2. \A q \in 1 .. Len(v) : w[q] = v[q]
      OBVIOUS
    <3>3. \A q \in 1 .. Len(v) : v[q].kind = "import" => v[q].imp # Len(imps)
      BY <1>1, <1>2
    <3> QED
      BY <3>1, <3>2, <3>3
  <2>2. w[p] = it /\ it.imp = Len(imps) /\ Len(imps2) = Len(imps) + 1
    BY <1>3
  <2>3. w[p].imp \in 0 .. Len(imps2) - 1
    BY <1>1, <2>2
  <2>4. imps2[w[p].imp + 1].kind = s /\ imps2[w[p].imp + 1].deleted = w[p].deleted
    BY <1>3, <2>2
  <2>5. \A q \in 1 .. Len(w) : q = p \/ q \in 1 .. Len(v)
    BY <1>1, <1>3
  <2>6. \A q \in 1 .. Len(w) : w[q].kind = "import" /\ w[q].imp = w[p].imp => q = p
    BY <2>1, <2>5
  <2> QED
    BY <2>3, <2>4, <2>6
<1>4. CASE p \in 1 .. Len(v)
  <2>1. /\ v[p].imp \in 0 .. Len(imps) - 1 /\ v[p].imp + 1 \in 1 .. Len(imps)
        /\ imps[v[p].imp + 1].kind = s
        /\ imps[v[p].imp + 1].deleted = v[p].deleted
        /\ \A q \in 1 .. Len(v) : v[q].kind = "import" /\ v[q].imp = v[p].imp => q = p
    BY <1>1, <1>4 DEF LinkedIn
  <2>2. w[Len(v) + 1].kind = "import" => w[Len(v) + 1].imp # w[p].imp
    BY <1>1, <1>4, <2>1
  <2>3. w[p].imp \in 0 .. Len(imps2) - 1
    BY <1>1, <1>4, <2>1
  <2>4. imps2[w[p].imp + 1].kind = s /\ imps2[w[p].imp + 1].deleted = w[p].deleted
    BY <1>4, <2>1
  <2>5. \A q \in 1 .. Len(w) : q = Len(v) + 1 \/ q \in 1 .. Len(v)
    BY <1>1
  <2>6. \A q \in 1 .. Len(w) : w[q].kind = "import" /\ w[q].imp = w[p].imp => q = p
    BY <1>4, <2>1, <2>2, <2>5
  <2> QED
    BY <2>3, <2>4, <2>6
<1>5. p = Len(v) + 1 \/ p \in 1 .. Len(v)
  BY <1>1
<1> QED
  BY <1>3, <1>4, <1>5

\* The item at k is replaced by one that is local, or linked to a new import, or linked
\* as before with the deleted flags of both sides changed alike; no other link changes.
LEMMA LinksUpdate ==
    ASSUME NEW s, NEW v \in Seq(Item), NEW it \in Item, NEW w \in Seq(Item),
           NEW imps \in Seq(Import), NEW imps2 \in Seq(Import), NEW k \in 1 .. Len(v),
           LinkedIn(v, imps, s), Len(imps2) >= Len(imps),
           \A i \in 1 .. Len(imps) : imps2[i].kind = imps[i].kind,
           \A i \in 1 .. Len(imps) :
               imps2[i].deleted = imps[i].deleted
                   \/ (v[k].kind = "import" /\ i = v[k].imp + 1),
           Len(w) = Len(v), w[k] = it, \A p \in 1 .. Len(v) : p # k => w[p] = v[p],
           it.kind = "import" =>
               \/ /\ it.imp = Len(imps) /\ Len(imps2) = Len(imps) + 1
                  /\ imps2[Len(imps) + 1].kind = s /\ imps2[Len(imps) + 1].deleted = it.deleted
               \/ /\ v[k].kind = "import" /\ it.imp = v[k].imp
                  /\ imps2[it.imp + 1].deleted = it.deleted
    PROVE  LinkedIn(w, imps2, s)
<1> SUFFICES ASSUME NEW p \in 1 .. Len(w), w[p].kind = "import"
             PROVE  /\ w[p].imp \in 0 .. Len(imps2) - 1
                    /\ imps2[w[p].imp + 1].kind = s
                    /\ imps2[w[p].imp + 1].deleted = w[p].deleted
                    /\ \A q \in 1 .. Len(w) : w[q].kind = "import" /\ w[q].imp = w[p].imp => q = p
  BY DEF LinkedIn
<1>1. Len(v) \in Nat /\ Len(imps) \in Nat /\ Len(imps2) \in Nat
  OBVIOUS
<1>2. ASSUME NEW q \in 1 .. Len(v), v[q].kind = "import"
      PROVE  /\ v[q].imp \in 0 .. Len(imps) - 1 /\ v[q].imp + 1 \in 1 .. Len(imps)
             /\ imps[v[q].imp + 1].kind = s
             /\ imps[v[q].imp + 1].deleted = v[q].deleted
             /\ \A r \in 1 .. Len(v) : v[r].kind = "import" /\ v[r].imp = v[q].imp => r = q
  BY <1>1, <1>2 DEF LinkedIn
<1>3. CASE p = k
  <2>1. CASE w[p].imp = Len(imps)
    <3>1. \A q \in 1 .. Len(v) : q # k /\ v[q].kind = "import" => v[q].imp # Len(imps)
      BY <1>1, <1>2
    <3>2. w[p].imp + 1 \notin 1 .. Len(imps)
      BY <1>1, <2>1
    <3>3. ~(v[k].kind = "import" /\ it.imp = v[k].imp)
      BY <1>2, <1>3, <3>2
    <3> QED
      BY <1>1, <1>3, <2>1, <3>1, <3>3
  <2>2. CASE w[p].imp # Len(imps)
    <3>1. v[k].kind = "import" /\ it.imp = v[k].imp /\ imps2[it.imp + 1].deleted = it.deleted
      BY <1>3, <2>2
    <3>2. \A q \in 1 .. Len(v) : q # k /\ v[q].kind = "import" => v[q].imp # v[k].imp
      BY <1>2, <3>1
    <3>3. w[p] = it
      BY <1>3
    <3>4. w[p].imp \in 0 .. Len(imps2) - 1 /\ imps2[w[p].imp + 1].deleted = w[p].deleted
      BY <1>1, <1>2, <3>1, <3>3
    <3>5. v[k].imp + 1 \in 1 .. Len(imps) /\ imps[v[k].imp + 1].kind = s
      BY <1>2, <3>1
    <3>6. imps2[w[p].imp + 1].kind = s
      BY <3>1, <3>3, <3>5
    <3>7. \A q \in 1 .. Len(w) : w[q].kind = "import" /\ w[q].imp = w[p].imp => q = p
      BY <1>3, <3>1, <3>2, <3>3
    <3> QED
      BY <3>4, <3>6, <3>7
  <2> QED
    BY <2>1, <2>2
<1>4. CASE p # k
  <2>1. w[p] = v[p] /\ v[p].kind = "import"
    BY <1>4
  <2>2. v[k].kind = "import" => v[k].imp # v[p].imp
    BY <1>2, <1>4, <2>1
  <2>3. /\ imps2[v[p].imp + 1].deleted = v[p].deleted
        /\ imps2[v[p].imp + 1].kind = s
        /\ v[p].imp \in 0 .. Len(imps2) - 1
    <3>1. /\ v[p].imp + 1 \in 1 .. Len(imps) /\ v[p].imp \in Int
          /\ imps[v[p].imp + 1].kind = s /\ imps[v[p].imp + 1].deleted = v[p].deleted
      BY <1>2, <2>1
    <3>2. ~(v[k].kind = "import" /\ v[p].imp + 1 = v[k].imp + 1)
      <4>1. v[k].kind = "import" => v[k].imp \in Int
        BY <1>2
      <4> QED
        BY <2>2, <3>1, <4>1
    <3>3. imps2[v[p].imp + 1].deleted = v[p].deleted /\ imps2[v[p].imp + 1].kind = s
      BY <3>1, <3>2
    <3>4. v[p].imp \in 0 .. Len(imps2) - 1
      BY <1>1, <3>1
    <3> QED
      BY <3>3, <3>4
  <2>4. it.kind = "import" => it.imp # v[p].imp
    BY <1>1, <1>2, <2>1, <2>2
  <2>5. ASSUME NEW q \in 1 .. Len(w), w[q].kind = "import", w[q].imp = w[p].imp
        PROVE  q = p
    <3>1. CASE q = k
      BY <2>1, <2>4, <2>5, <3>1
    <3>2. CASE q # k
      <4>1. w[q] = v[q] /\ q \in 1 .. Len(v) /\ p \in 1 .. Len(v)
        BY <3>2
      <4> QED
        BY <1>2, <2>1, <2>5, <4>1
    <3> QED
      BY <3>1, <3>2
  <2> QED
    BY <2>1, <2>3, <2>5
<1> QED
  BY <1>3, <1>4

\* An import of another space is marked deleted, or some import is renamed.
LEMMA LinksElsewhere ==
    ASSUME NEW s, NEW v \in Seq(Item), NEW imps \in Seq(Import), NEW imps2 \in Seq(Import),
           LinkedIn(v, imps, s), Len(imps2) >= Len(imps),
           \A i \in 1 .. Len(imps) : imps2[i].kind = imps[i].kind,
           \A i \in 1 .. Len(imps) :
               imps2[i].deleted = imps[i].deleted \/ imps[i].kind # s
    PROVE  LinkedIn(v, imps2, s)
<1>1. Len(imps) \in Nat /\ Len(imps2) \in Nat
  OBVIOUS
<1>2. ASSUME NEW p \in 1 .. Len(v), v[p].kind = "import"
      PROVE  v[p].imp + 1 \in 1 .. Len(imps) /\ v[p].imp \in 0 .. Len(imps2) - 1
  BY <1>1, <1>2 DEF LinkedIn
<1> QED
  BY <1>2 DEF LinkedIn

(***************************************************************************)
(* How the two kinds of change, and a change of the imports alone, carry   *)
(* the vectors' type and the links over a step.                            *)
(***************************************************************************)
LEMMA PushKeepsLinks ==
    ASSUME TypeOK, ImportLinksOK, NEW s \in Space, NEW it \in Item, Pushed(s, it), ImportsOK',
           Len(imports') >= Len(imports), \A i \in 1 .. Len(imports) : imports'[i] = imports[i],
           it.kind = "import" =>
               /\ it.imp = Len(imports) /\ Len(imports') = Len(imports) + 1
               /\ imports'[Len(imports) + 1].kind = s
               /\ imports'[Len(imports) + 1].deleted = it.deleted
    PROVE  ItemsOK' /\ ImportLinksOK'
<1>1. /\ ItemsOK' /\ Len(items'[s]) = Len(items[s]) + 1
      /\ \A t \in Space \ {s} : items'[t] = items[t]
      /\ \A p \in 1 .. Len(items[s]) : items'[s][p] = items[s][p]
      /\ items'[s][Len(items[s]) + 1] = it
  BY PushedType DEF TypeOK
<1>2. imports \in Seq(Import) /\ imports' \in Seq(Import)
  BY DEF TypeOK, ImportsOK
<1>3. \A t \in Space : items[t] \in Seq(Item) /\ items'[t] \in Seq(Item)
  BY <1>1 DEF TypeOK, ItemsOK
<1>4. \A t \in Space : LinkedIn(items[t], imports, t)
  BY LinksBySpace DEF TypeOK
<1>5. LinkedIn(items'[s], imports', s)
  BY <1>1, <1>2, <1>3, <1>4, LinksPush
<1>6. ASSUME NEW t \in Space \ {s} PROVE LinkedIn(items'[t], imports', t)
  <2>1. LinkedIn(items[t], imports', t)
    BY <1>2, <1>3, <1>4, LinksGrow
  <2> QED
    BY <1>1, <2>1
<1> QED
  BY <1>1, <1>5, <1>6, LinksBySpacePrimed

LEMMA ReplaceKeepsLinks ==
    ASSUME TypeOK, ImportLinksOK, NEW s \in Space, NEW h \in Handles(s), NEW it \in Item,
           Replaced(s, h, it), ImportsOK', Len(imports') >= Len(imports),
           \A i \in 1 .. Len(imports) : imports'[i].kind = imports[i].kind,
           \A i \in 1 .. Len(imports) :
               imports'[i].deleted = imports[i].deleted
                   \/ (At(s, h).kind = "import" /\ i = At(s, h).imp + 1),
           it.kind = "import" =>
               \/ /\ it.imp = Len(imports) /\ Len(imports') = Len(imports) + 1
                  /\ imports'[Len(imports) + 1].kind = s
                  /\ imports'[Len(imports) + 1].deleted = it.deleted
               \/ /\ At(s, h).kind = "import" /\ it.imp = At(s, h).imp
                  /\ imports'[it.imp + 1].deleted = it.deleted
    PROVE  ItemsOK' /\ ImportLinksOK'
<1>1. /\ ItemsOK' /\ Len(items'[s]) = Len(items[s])
      /\ \A t \in Space \ {s} : items'[t] = items[t]
      /\ \A p \in 1 .. Len(items[s]) :
            items'[s][p] = IF p = h + 1 THEN it ELSE items[s][p]
  BY ReplacedType DEF TypeOK
<1>2. imports \in Seq(Import) /\ imports' \in Seq(Import)
  BY DEF TypeOK, ImportsOK
<1>3. \A t \in Space : items[t] \in Seq(Item) /\ items'[t] \in Seq(Item)
  BY <1>1 DEF TypeOK, ItemsOK
<1>4. \A t \in Space : LinkedIn(items[t], imports, t)
  BY LinksBySpace DEF TypeOK
<1> DEFINE k == h + 1
<1>5. k \in 1 .. Len(items[s]) /\ At(s, h) = items[s][k]
  BY ItemAt DEF TypeOK, At
<1>6. items'[s][k] = it /\ \A p \in 1 .. Len(items[s]) : p # k => items'[s][p] = items[s][p]
  BY <1>1, <1>5
<1>7. LinkedIn(items'[s], imports', s)
  <2> DEFINE v == items[s]
             w == items'[s]
  <2>1. \A i \in 1 .. Len(imports) :
           imports'[i].deleted = imports[i].deleted
               \/ (v[k].kind = "import" /\ i = v[k].imp + 1)
    BY <1>5
  <2>2. it.kind = "import" =>
           \/ /\ it.imp = Len(imports) /\ Len(imports') = Len(imports) + 1
              /\ imports'[Len(imports) + 1].kind = s
              /\ imports'[Len(imports) + 1].deleted = it.deleted
           \/ /\ v[k].kind = "import" /\ it.imp = v[k].imp
              /\ imports'[it.imp + 1].deleted = it.deleted
    BY <1>5
  <2>3. /\ v \in Seq(Item) /\ w \in Seq(Item) /\ Len(w) = Len(v) /\ LinkedIn(v, imports, s)
        /\ k \in 1 .. Len(v) /\ w[k] = it /\ \A p \in 1 .. Len(v) : p # k => w[p] = v[p]
    BY <1>1, <1>3, <1>4, <1>5, <1>6
  <2> HIDE DEF k, v, w
  <2>4. LinkedIn(w, imports', s)
    BY <1>2, <2>1, <2>2, <2>3, LinksUpdate
  <2> QED
    BY <2>4 DEF w
<1>8. ASSUME NEW t \in Space \ {s} PROVE LinkedIn(items'[t], imports', t)
  <2>1. At(s, h).kind = "import" => imports[At(s, h).imp + 1].kind = s
    BY DEF ImportLinksOK, ImportsIDs, IsImport
  <2>2. \A i \in 1 .. Len(imports) :
           imports'[i].deleted = imports[i].deleted \/ imports[i].kind # t
    BY <2>1
  <2>3. LinkedIn(items[t], imports', t)
    BY <1>2, <1>3, <1>4, <2>2, LinksElsewhere
  <2> QED
    BY <1>1, <2>3
<1> QED
  BY <1>1, <1>7, <1>8, LinksBySpacePrimed

LEMMA RenameKeepsLinks ==
    ASSUME TypeOK, ImportLinksOK, UNCHANGED items, ImportsOK', Len(imports') = Len(imports),
           \A i \in 1 .. Len(imports) : /\ imports'[i].kind = imports[i].kind
                                       /\ imports'[i].deleted = imports[i].deleted
    PROVE  ItemsOK' /\ ImportLinksOK'
<1>1. imports \in Seq(Import) /\ imports' \in Seq(Import) /\ Len(imports) \in Nat
  BY DEF TypeOK, ImportsOK
<1>2. ItemsOK' /\ \A t \in Space : items[t] \in Seq(Item) /\ items'[t] = items[t]
  BY DEF TypeOK, ItemsOK
<1>3. \A t \in Space : LinkedIn(items[t], imports, t)
  BY LinksBySpace DEF TypeOK
<1>4. ASSUME NEW t \in Space PROVE LinkedIn(items'[t], imports', t)
  <2>1. LinkedIn(items[t], imports', t)
    BY <1>1, <1>2, <1>3, LinksElsewhere
  <2> QED
    BY <1>2, <2>1
<1> QED
  BY <1>2, <1>4, LinksBySpacePrimed

(***************************************************************************)
(* Type correctness and the links between items and imports.               *)
(***************************************************************************)
Linked == TypeOK /\ ImportLinksOK

LEMMA LinkedInit == Init => Linked
<1> SUFFICES ASSUME Init PROVE Linked
  OBVIOUS
<1> DEFINE m == scenario.module
<1>1. /\ scenario \in Scenarios
      /\ items = m.items /\ imports = m.imports
      /\ impCount = m.impCount /\ numLocal = m.numLocal
      /\ impAdded = [s \in Space |-> 0] /\ recalc = [s \in Space |-> FALSE]
      /\ exports = <<>> /\ data = scenario.data
      /\ start = scenario.start /\ tables = scenario.tables /\ elements = scenario.elements
      /\ panic = NoPanic
  BY DEF Init
<1>2. WellParsed(m) /\ WellFormed(scenario)
  BY <1>1, ScenariosAssumption DEF WellFormed
<1>3. ItemsOK /\ ImportsOK /\ impCount \in [Space -> Nat] /\ numLocal \in [Space -> Nat]
  BY <1>1, <1>2 DEF WellParsed, ItemsOK, ImportsOK
<1>4. /\ impAdded \in [Space -> Nat] /\ recalc \in [Space -> BOOLEAN]
      /\ exports \in Seq(Export) /\ panic \in PanicSites \cup {NoPanic}
  BY <1>1
<1>5. /\ data \in Seq(Data) /\ start \in Nat \cup {NoId}
      /\ tables \in SUBSET Ref /\ elements \in Seq(Element)
  BY <1>1, <1>2 DEF WellFormed
<1>6. TypeOK
  BY <1>1, <1>3, <1>4, <1>5 DEF TypeOK
<1>7. ASSUME NEW s \in Space PROVE LinkedIn(items[s], imports, s)
  <2> DEFINE v == items[s]
             n == impCount[s]
  <2>1. Len(v) \in Nat /\ n \in Nat
    BY <1>3 DEF ItemsOK
  <2>2. /\ \A p \in DOMAIN v : ~v[p].deleted /\ (v[p].kind = "import" <=> p <= n)
        /\ \A p \in 1 .. n : /\ v[p].imp \in 0 .. Len(imports) - 1
                             /\ imports[v[p].imp + 1].kind = s
        /\ \A p, q \in 1 .. n : p < q => v[p].imp < v[q].imp
        /\ \A i \in DOMAIN imports : ~imports[i].deleted
    BY <1>1, <1>2 DEF WellParsed
  <2>3. v \in Seq(Item) /\ imports \in Seq(Import) /\ Len(imports) \in Nat
    BY <1>3 DEF ItemsOK, ImportsOK
  <2> HIDE DEF v, n
  <2> SUFFICES ASSUME NEW p \in 1 .. Len(v), v[p].kind = "import"
               PROVE  /\ v[p].imp \in 0 .. Len(imports) - 1
                      /\ imports[v[p].imp + 1].kind = s
                      /\ imports[v[p].imp + 1].deleted = v[p].deleted
                      /\ \A q \in 1 .. Len(v) :
                            v[q].kind = "import" /\ v[q].imp = v[p].imp => q = p
    BY DEF LinkedIn, v
  <2>4. \A q \in 1 .. Len(v) : v[q].kind = "import" => q \in 1 .. n
    BY <2>1, <2>2, <2>3
  <2>5. p \in 1 .. n /\ v[p].imp \in 0 .. Len(imports) - 1 /\ imports[v[p].imp + 1].kind = s
    BY <2>2, <2>4
  <2>6. v[p].deleted = FALSE /\ imports[v[p].imp + 1].deleted = FALSE
    <3>1. v[p] \in Item /\ v[p].imp + 1 \in DOMAIN imports
      BY <2>3, <2>5
    <3>2. imports[v[p].imp + 1] \in Import
      BY <2>3, <3>1
    <3> QED
      BY <2>2, <2>3, <3>1, <3>2 DEF Item, Import
  <2>7. ASSUME NEW q \in 1 .. n, v[q].imp = v[p].imp PROVE q = p
    <3>1. v[q].imp \in Int /\ v[p].imp \in Int
      BY <2>2, <2>5
    <3>2. ~(q < p) /\ ~(p < q)
      BY <2>2, <2>5, <2>7, <3>1
    <3> QED
      BY <2>1, <2>5, <3>2
  <2> QED
    BY <2>4, <2>5, <2>6, <2>7
<1> QED
  BY <1>3, <1>6, <1>7, LinksBySpace DEF Linked

\* PushLocal, under the callers that add a function, a global or a memory.
LEMMA LinkedPushLocal ==
    ASSUME Linked, NEW s \in Space, NEW refs \in SUBSET Ref, NEW name \in NameOrNone,
           PushLocal(s, refs, name), UNCHANGED <<imports, impCount, impAdded, refSites>>,
           panic' \in PanicSites \cup {NoPanic}
    PROVE  Linked'
<1> DEFINE it == LocalItem(Len(items[s]), refs, name)
<1>1. TypeOK /\ ImportLinksOK /\ Len(items[s]) \in Nat
  BY DEF Linked, TypeOK, ItemsOK
<1>2. it \in Item /\ it.kind = "local"
  BY <1>1, ConstructorTypes DEF LocalItem
<1>3. Pushed(s, it)
  BY DEF PushLocal, Pushed
<1>4. ImportsOK' /\ Len(imports') >= Len(imports)
  BY <1>1 DEF TypeOK, ImportsOK
<1>5. ItemsOK' /\ ImportLinksOK'
  <2> HIDE DEF it
  <2> QED
    BY <1>1, <1>2, <1>3, <1>4, PushKeepsLinks
<1>6. numLocal' \in [Space -> Nat]
  BY <1>1 DEF PushLocal, TypeOK
<1>7. recalc' \in [Space -> BOOLEAN]
  BY <1>1 DEF PushLocal, TypeOK
<1> QED
  BY <1>1, <1>4, <1>5, <1>6, <1>7 DEF Linked, TypeOK, refSites, fixed

LEMMA DebugAssertType ==
    ASSUME NEW site \in PanicSites, NEW ok, DebugAssert(site, ok)
    PROVE  panic' \in PanicSites \cup {NoPanic}
BY DEF DebugAssert

LEMMA LinkedAddImportItem ==
    ASSUME Linked, NEW s \in Space, AddImportItem(s)
    PROVE  Linked'
<1> DEFINE it == ImportItem(NextImportId(s), Len(imports))
<1>1. TypeOK /\ ImportLinksOK /\ Len(items[s]) \in Nat /\ impCount[s] \in Nat
  BY DEF Linked, TypeOK, ItemsOK
<1>2. /\ ImportsOK' /\ impCount' \in [Space -> Nat] /\ impAdded' \in [Space -> Nat]
      /\ Len(imports) \in Nat /\ Len(imports') = Len(imports) + 1
      /\ \A i \in 1 .. Len(imports) : imports'[i] = imports[i]
      /\ imports'[Len(imports) + 1] = [kind |-> s, deleted |-> FALSE, custom |-> NoName]
  BY <1>1, PushImportType DEF AddImportItem
<1>3. /\ it \in Item /\ it.kind = "import" /\ it.imp = Len(imports) /\ it.deleted = FALSE
  BY <1>1, <1>2, ConstructorTypes DEF NextImportId, ImportItem
<1>4. ItemsOK' /\ ImportLinksOK'
  <2>1. CASE panic' # NoPanic
    <3>1. UNCHANGED items
      BY <2>1 DEF AddImportItem
    <3>2. imports \in Seq(Import) /\ imports' \in Seq(Import) /\ Len(imports') >= Len(imports)
      BY <1>1, <1>2 DEF TypeOK, ImportsOK
    <3>3. ItemsOK' /\ \A t \in Space : items[t] \in Seq(Item) /\ items'[t] = items[t]
      BY <1>1, <3>1 DEF TypeOK, ItemsOK
    <3>4. \A t \in Space : LinkedIn(items[t], imports, t)
      BY <1>1, LinksBySpace DEF TypeOK
    <3>5. ASSUME NEW t \in Space PROVE LinkedIn(items'[t], imports', t)
      <4>1. LinkedIn(items[t], imports', t)
        BY <1>2, <3>2, <3>3, <3>4, LinksGrow
      <4> QED
        BY <3>3, <4>1
    <3> QED
      BY <3>3, <3>5, LinksBySpacePrimed
  <2>2. CASE panic' = NoPanic
    <3>1. Pushed(s, it)
      BY <2>2 DEF AddImportItem, Pushed
    <3> HIDE DEF it
    <3>2. imports'[Len(imports) + 1].deleted = FALSE /\ imports'[Len(imports) + 1].kind = s
      BY <1>2
    <3>3. imports'[Len(imports) + 1].deleted = it.deleted
      BY <1>3, <3>2, Zenon
    <3>4. Len(imports') >= Len(imports)
      BY <1>2
    <3>5. it \in Item /\ it.imp = Len(imports)
      BY <1>3
    <3>6. /\ ImportsOK' /\ Len(imports') = Len(imports) + 1
          /\ \A i \in 1 .. Len(imports) : imports'[i] = imports[i]
      BY <1>2, Zenon
    <3> QED
      BY <1>1, <3>1, <3>2, <3>3, <3>4, <3>5, <3>6, PushKeepsLinks
  <2> QED
    BY <2>1, <2>2
<1>5. recalc' \in [Space -> BOOLEAN] /\ panic' \in PanicSites \cup {NoPanic}
  BY <1>1, DebugAssertType DEF AddImportItem, TypeOK, PanicSites
<1> QED
  BY <1>1, <1>2, <1>4, <1>5 DEF Linked, TypeOK, AddImportItem, refSites, fixed

LEMMA LinkedAddImportedGlobal ==
    ASSUME Linked, AddImportedGlobal
    PROVE  Linked'
<1> DEFINE it == ImportItem(Len(items["global"]), Len(imports))
<1>0. "global" \in Space
  BY DEF Space
<1>1. TypeOK /\ ImportLinksOK /\ Len(items["global"]) \in Nat
  BY <1>0 DEF Linked, TypeOK, ItemsOK
<1>2. /\ ImportsOK' /\ impCount' \in [Space -> Nat] /\ impAdded' \in [Space -> Nat]
      /\ Len(imports) \in Nat /\ Len(imports') = Len(imports) + 1
      /\ \A i \in 1 .. Len(imports) : imports'[i] = imports[i]
      /\ imports'[Len(imports) + 1] = [kind |-> "global", deleted |-> FALSE, custom |-> NoName]
  BY <1>0, <1>1, PushImportType DEF AddImportedGlobal
<1>3. /\ it \in Item /\ it.kind = "import" /\ it.imp = Len(imports) /\ it.deleted = FALSE
  BY <1>1, <1>2, ConstructorTypes DEF ImportItem
<1>4. Pushed("global", it)
  BY DEF AddImportedGlobal, Pushed
<1>5. ItemsOK' /\ ImportLinksOK'
  <2> HIDE DEF it
  <2>1. /\ imports'[Len(imports) + 1].deleted = FALSE
        /\ imports'[Len(imports) + 1].kind = "global"
    BY <1>2
  <2>2. imports'[Len(imports) + 1].deleted = it.deleted
    BY <1>3, <2>1, Zenon
  <2>3. Len(imports') >= Len(imports)
    BY <1>2
  <2>4. it \in Item /\ it.imp = Len(imports)
    BY <1>3
  <2>5. /\ ImportsOK' /\ Len(imports') = Len(imports) + 1
        /\ \A i \in 1 .. Len(imports) : imports'[i] = imports[i]
    BY <1>2, Zenon
  <2> QED
    BY <1>0, <1>1, <1>4, <2>1, <2>2, <2>3, <2>4, <2>5, PushKeepsLinks
<1>6. recalc' \in [Space -> BOOLEAN]
  BY <1>1 DEF AddImportedGlobal, TypeOK
<1>7. numLocal' \in [Space -> Nat]
  <2>1. numLocal \in [Space -> Nat] /\ numLocal["global"] + 1 \in Nat
    BY <1>0, <1>1 DEF TypeOK
  <2>2. numLocal' = [numLocal EXCEPT !["global"] = numLocal["global"] + 1]
    BY DEF AddImportedGlobal
  <2> HIDE DEF it
  <2> QED
    BY <2>1, <2>2
<1>8. UNCHANGED <<exports, data, start, tables, elements, scenario, panic>>
  BY DEF AddImportedGlobal, refSites, fixed
<1> HIDE DEF it
<1> QED
  BY <1>1, <1>2, <1>5, <1>6, <1>7, <1>8 DEF Linked, TypeOK

LEMMA LinkedDeleteItem ==
    ASSUME Linked, NEW s \in Space, NEW h \in Handles(s), DeleteItem(s, h)
    PROVE  Linked'
<1> DEFINE old == At(s, h)
           it == [old EXCEPT !.deleted = TRUE]
<1>1. TypeOK /\ ImportLinksOK /\ old \in Item
  BY ItemAt DEF Linked, TypeOK
<1>2. /\ it \in Item /\ it.kind = old.kind /\ it.imp = old.imp /\ it.deleted = TRUE
  <2> HIDE DEF old
  <2> QED
    BY <1>1 DEF Item
<1>3. Replaced(s, h, it)
  BY <1>1, PlacesChanged DEF TypeOK
<1>4. IsImport(old) => old.imp \in 0 .. Len(imports) - 1
  BY <1>1 DEF ImportLinksOK, ImportsIDs
<1>5. /\ imports' \in Seq(Import) /\ Len(imports') = Len(imports)
      /\ \A i \in 1 .. Len(imports) :
            imports'[i] = IF IsImport(old) /\ i = old.imp + 1
                          THEN [imports[i] EXCEPT !.deleted = TRUE] ELSE imports[i]
  <2>1. imports' = DropImportOf(old)
    BY DEF DeleteItem
  <2> HIDE DEF old, it
  <2> QED
    BY <1>1, <1>4, <2>1, DropImportFacts
<1>6. imports \in Seq(Import) /\ Len(imports) \in Nat
  BY <1>1 DEF TypeOK, ImportsOK
<1>7. \A i \in 1 .. Len(imports) :
         /\ imports'[i].kind = imports[i].kind
         /\ IsImport(old) /\ i = old.imp + 1 => imports'[i].deleted = TRUE
         /\ ~(IsImport(old) /\ i = old.imp + 1) => imports'[i].deleted = imports[i].deleted
  <2>1. \A i \in 1 .. Len(imports) : imports[i] \in Import
    BY <1>6
  <2> HIDE DEF old, it
  <2> QED
    BY <1>5, <2>1 DEF Import
<1>8. ItemsOK' /\ ImportLinksOK'
  <2>1. IsImport(old) => old.imp + 1 \in 1 .. Len(imports)
    BY <1>4, <1>6
  <2>2. it.kind = "import" => old.kind = "import" /\ imports'[it.imp + 1].deleted = it.deleted
    BY <1>2, <1>7, <2>1 DEF IsImport
  <2>3. \A i \in 1 .. Len(imports) :
           imports'[i].deleted = imports[i].deleted \/ (old.kind = "import" /\ i = old.imp + 1)
    BY <1>7 DEF IsImport
  <2>4. ImportsOK' /\ Len(imports') >= Len(imports)
    BY <1>5, <1>6 DEF ImportsOK
  <2> HIDE DEF it
  <2> QED
    BY <1>1, <1>2, <1>3, <1>7, <2>2, <2>3, <2>4, ReplaceKeepsLinks
<1>9. recalc' \in [Space -> BOOLEAN]
  BY <1>1 DEF DeleteItem, TypeOK
<1> QED
  BY <1>1, <1>5, <1>8, <1>9 DEF Linked, TypeOK, ImportsOK, DeleteItem, refSites, fixed

LEMMA LinkedReplaceImport ==
    ASSUME Linked, NEW i \in ImportsIDs, ReplaceImport(i)
    PROVE  Linked'
<1>0. "func" \in Space
  BY DEF Space
<1>1. TypeOK /\ ImportLinksOK
  BY DEF Linked
<1>2. CASE i \notin Handles("func")
  BY <1>1, <1>2 DEF ReplaceImport, Linked, TypeOK, ItemsOK, ImportsOK, ImportLinksOK,
                    ImportsIDs, Handles, At, PanicSites, refSites, fixed
<1>3. CASE i \in Handles("func")
  <2> DEFINE old == At("func", i)
             it == LocalItem(i, {}, ImportName)
  <2>1. old \in Item /\ i \in Nat
    BY <1>0, <1>1, <1>3, ItemAt DEF TypeOK
  <2>2. it \in Item /\ it.kind = "local"
    BY <2>1, ConstructorTypes DEF LocalItem, NameOrNone
  <2>3. Replaced("func", i, it)
    BY <1>3 DEF ReplaceImport, Replaced
  <2>4. IsImport(old) /\ old.imp \in 0 .. Len(imports) - 1
    BY <1>0, <1>1, <1>3 DEF ImportLinksOK, ImportsIDs, ReplaceImport
  <2>5. /\ imports' \in Seq(Import) /\ Len(imports') = Len(imports)
        /\ \A j \in 1 .. Len(imports) :
              imports'[j] = IF IsImport(old) /\ j = old.imp + 1
                            THEN [imports[j] EXCEPT !.deleted = TRUE] ELSE imports[j]
    <3>1. imports' = DropImportOf(old)
      BY <1>3 DEF ReplaceImport
    <3> HIDE DEF old, it
    <3> QED
      BY <1>1, <2>1, <2>4, <3>1, DropImportFacts
  <2>6. imports \in Seq(Import) /\ Len(imports) \in Nat
    BY <1>1 DEF TypeOK, ImportsOK
  <2>7. \A j \in 1 .. Len(imports) :
           /\ imports'[j].kind = imports[j].kind
           /\ imports'[j].deleted = imports[j].deleted
                \/ (old.kind = "import" /\ j = old.imp + 1)
    <3>1. \A j \in 1 .. Len(imports) : imports[j] \in Import
      BY <2>6
    <3> HIDE DEF old, it
    <3> QED
      BY <2>5, <3>1 DEF Import, IsImport
  <2>8. ItemsOK' /\ ImportLinksOK'
    <3>1. ImportsOK' /\ Len(imports') >= Len(imports)
      BY <2>5, <2>6 DEF ImportsOK
    <3> HIDE DEF it
    <3> QED
      BY <1>0, <1>1, <1>3, <2>2, <2>3, <2>7, <3>1, ReplaceKeepsLinks
  <2>9. recalc' \in [Space -> BOOLEAN] /\ panic' = panic
    BY <1>1, <1>3 DEF ReplaceImport, TypeOK
  <2> QED
    BY <1>1, <2>5, <2>8, <2>9 DEF Linked, TypeOK, ImportsOK, ReplaceImport, refSites, fixed
<1> QED
  BY <1>2, <1>3

LEMMA LinkedConvert ==
    ASSUME Linked, NEW h \in Handles("func"), ConvertLocalFnToImport(h)
    PROVE  Linked'
<1> DEFINE it == ImportItem(h, Len(imports))
<1>0. "func" \in Space
  BY DEF Space
<1>1. TypeOK /\ ImportLinksOK /\ h \in Nat /\ At("func", h) \in Item
  BY <1>0, ItemAt DEF Linked, TypeOK
<1>2. /\ ImportsOK' /\ impCount' \in [Space -> Nat] /\ impAdded' \in [Space -> Nat]
      /\ Len(imports) \in Nat /\ Len(imports') = Len(imports) + 1
      /\ \A i \in 1 .. Len(imports) : imports'[i] = imports[i]
      /\ imports'[Len(imports) + 1] = [kind |-> "func", deleted |-> FALSE, custom |-> NoName]
  BY <1>0, <1>1, PushImportType DEF ConvertLocalFnToImport
<1>3. /\ it \in Item /\ it.kind = "import" /\ it.imp = Len(imports) /\ it.deleted = FALSE
  BY <1>1, <1>2, ConstructorTypes DEF ImportItem
<1>4. Replaced("func", h, it)
  BY DEF ConvertLocalFnToImport, Replaced
<1>5. ItemsOK' /\ ImportLinksOK'
  <2> HIDE DEF it
  <2>1. ImportsOK' /\ Len(imports') >= Len(imports)
    BY <1>2
  <2>2. \A i \in 1 .. Len(imports) : /\ imports'[i].kind = imports[i].kind
                                    /\ imports'[i].deleted = imports[i].deleted
    BY <1>2
  <2>4. /\ imports'[Len(imports) + 1].deleted = FALSE
        /\ imports'[Len(imports) + 1].kind = "func"
    BY <1>2
  <2>5. imports'[Len(imports) + 1].deleted = it.deleted
    BY <1>3, <2>4, Zenon
  <2>3. /\ it \in Item /\ it.imp = Len(imports) /\ Len(imports') = Len(imports) + 1
        /\ imports'[Len(imports) + 1].kind = "func"
        /\ imports'[Len(imports) + 1].deleted = it.deleted
    BY <1>2, <1>3, <2>4, <2>5
  <2> QED
    BY <1>0, <1>1, <1>4, <2>1, <2>2, <2>3, ReplaceKeepsLinks
<1>6. recalc' \in [Space -> BOOLEAN]
  BY <1>1 DEF ConvertLocalFnToImport, TypeOK
<1> QED
  BY <1>1, <1>2, <1>5, <1>6 DEF Linked, TypeOK, ConvertLocalFnToImport, refSites, fixed

\* An item that keeps its kind, its import and its deleted flag: only its references,
\* name or special flag are edited, and the imports stay.
LEMMA EditKeepsLinks ==
    ASSUME Linked, NEW s \in Space, NEW h \in Handles(s), NEW it \in Item, Replaced(s, h, it),
           it.kind = At(s, h).kind, it.imp = At(s, h).imp, it.deleted = At(s, h).deleted,
           UNCHANGED imports
    PROVE  ItemsOK' /\ ImportsOK' /\ ImportLinksOK'
<1>1. TypeOK /\ ImportLinksOK /\ imports \in Seq(Import) /\ Len(imports) \in Nat
  BY DEF Linked, TypeOK, ImportsOK
<1>2. ImportsOK' /\ Len(imports') >= Len(imports)
  BY <1>1 DEF ImportsOK
<1>3. it.kind = "import" =>
         At(s, h).kind = "import" /\ imports'[it.imp + 1].deleted = it.deleted
  <2>1. it.kind = "import" => imports[At(s, h).imp + 1].deleted = At(s, h).deleted
    BY <1>1 DEF ImportLinksOK, ImportsIDs, IsImport
  <2> QED
    BY <2>1
<1> QED
  BY <1>1, <1>2, <1>3, ReplaceKeepsLinks

\* The custom name of one import changes.
LEMMA NameImportFacts ==
    ASSUME Linked, NEW k \in 1 .. Len(imports), NEW name \in NameOrNone,
           imports' = [imports EXCEPT ![k].custom = name]
    PROVE  /\ ImportsOK' /\ Len(imports') = Len(imports)
           /\ \A i \in 1 .. Len(imports) :
                /\ imports'[i].kind = imports[i].kind
                /\ imports'[i].deleted = imports[i].deleted
                /\ imports'[i].custom = IF i = k THEN name ELSE imports[i].custom
           /\ UNCHANGED items => ItemsOK' /\ ImportLinksOK'
<1> DEFINE new == [imports[k] EXCEPT !.custom = name]
<1>1. TypeOK /\ ImportLinksOK /\ imports \in Seq(Import) /\ Len(imports) \in Nat
  BY DEF Linked, TypeOK, ImportsOK
<1>2. imports[k] \in Import
  BY <1>1
<1>3. /\ new \in Import /\ new.custom = name
      /\ new.kind = imports[k].kind /\ new.deleted = imports[k].deleted
  BY <1>2 DEF Import
<1>4. imports' = [imports EXCEPT ![k] = new]
  OBVIOUS
<1>5. /\ imports' \in Seq(Import) /\ Len(imports') = Len(imports)
      /\ \A i \in 1 .. Len(imports) : imports'[i] = IF i = k THEN new ELSE imports[i]
  <2> HIDE DEF new
  <2> QED
    BY <1>1, <1>3, <1>4, UpdateFacts
<1>6. \A i \in 1 .. Len(imports) :
         /\ imports'[i].kind = imports[i].kind
         /\ imports'[i].deleted = imports[i].deleted
         /\ imports'[i].custom = IF i = k THEN name ELSE imports[i].custom
  <2> HIDE DEF new
  <2> QED
    BY <1>3, <1>5
<1>7. ImportsOK'
  BY <1>5 DEF ImportsOK
<1> QED
  BY <1>1, <1>5, <1>6, <1>7, RenameKeepsLinks

LEMMA LinkedSetFnName ==
    ASSUME Linked, NEW h \in Handles("func"), NEW name \in Names, SetFnName(h, name)
    PROVE  Linked'
<1>0. "func" \in Space
  BY DEF Space
<1> DEFINE old == At("func", h)
           it == [old EXCEPT !.name = name]
<1>1. TypeOK /\ ImportLinksOK /\ h \in Nat /\ old \in Item
  BY <1>0, ItemAt DEF Linked, TypeOK
<1>2. imports \in Seq(Import) /\ Len(imports) \in Nat
  BY <1>1 DEF TypeOK, ImportsOK
<1>3. ItemsOK' /\ ImportsOK' /\ ImportLinksOK'
  <2>1. CASE UNCHANGED imports /\ UNCHANGED items
    BY <1>1, <2>1, LinksStay DEF TypeOK
  <2>2. CASE UNCHANGED items /\ h + 1 <= Len(imports)
             /\ imports' = [imports EXCEPT ![h + 1].custom = name]
    <3>1. h + 1 \in 1 .. Len(imports) /\ name \in NameOrNone
      BY <1>1, <1>2, <2>2 DEF NameOrNone
    <3> QED
      BY <2>2, <3>1, NameImportFacts
  <2>3. CASE UNCHANGED imports /\ items' = [items EXCEPT !["func"][h + 1].name = name]
    <3>1. it \in Item /\ it.kind = old.kind /\ it.imp = old.imp /\ it.deleted = old.deleted
      <4> HIDE DEF old
      <4> QED
        BY <1>1 DEF Item, NameOrNone
    <3>2. Replaced("func", h, it)
      BY <1>0, <1>1, <2>3 DEF Replaced, At, TypeOK, ItemsOK
    <3> HIDE DEF it
    <3> QED
      BY <1>0, <2>3, <3>1, <3>2, EditKeepsLinks
  <2> QED
    BY <2>1, <2>2, <2>3 DEF SetFnName
<1>4. panic' \in PanicSites \cup {NoPanic}
  BY DebugAssertType DEF SetFnName, PanicSites
<1> QED
  BY <1>1, <1>3, <1>4 DEF Linked, TypeOK, SetFnName, refSites, fixed

LEMMA LinkedSetImportName ==
    ASSUME Linked, NEW i \in ImportsIDs, NEW name \in Names, SetImportName(i, name)
    PROVE  Linked'
<1>1. i + 1 \in 1 .. Len(imports) /\ name \in NameOrNone
  BY DEF Linked, TypeOK, ImportsOK, ImportsIDs, NameOrNone
<1>2. ImportsOK' /\ ItemsOK' /\ ImportLinksOK'
  BY <1>1, NameImportFacts DEF SetImportName
<1> QED
  BY <1>2 DEF Linked, TypeOK, SetImportName, refSites, fixed

\* Inject, InjectSpecial and ModGlobalInitExpr edit one item.
LEMMA LinkedEdit ==
    ASSUME Linked, NEW s \in Space, NEW h \in Handles(s), NEW it \in Item, Replaced(s, h, it),
           it.kind = At(s, h).kind, it.imp = At(s, h).imp, it.deleted = At(s, h).deleted,
           UNCHANGED <<recalc, imports, impCount, impAdded, numLocal, refSites, panic>>
    PROVE  Linked'
<1>1. ItemsOK' /\ ImportsOK' /\ ImportLinksOK'
  BY EditKeepsLinks
<1> QED
  BY <1>1 DEF Linked, TypeOK, refSites, fixed

LEMMA LinkedInject ==
    ASSUME Linked, NEW h \in Handles("func"), NEW r \in KnownRefs, Inject(h, r)
    PROVE  Linked'
<1> DEFINE old == At("func", h)
           it == [old EXCEPT !.refs = @ \cup {r}]
<1>0. "func" \in Space /\ r \in Ref
  BY RefTypes DEF Space
<1>1. ItemsOK /\ old \in Item
  BY <1>0, ItemAt DEF Linked, TypeOK
<1>2. it \in Item /\ it.kind = old.kind /\ it.imp = old.imp /\ it.deleted = old.deleted
  <2> HIDE DEF old
  <2> QED
    BY <1>0, <1>1 DEF Item
<1>3. Replaced("func", h, it)
  BY <1>0, <1>1, PlacesChanged
<1> HIDE DEF it
<1> QED
  BY <1>0, <1>2, <1>3, LinkedEdit DEF Inject

LEMMA LinkedInjectSpecial ==
    ASSUME Linked, NEW h \in Handles("func"), InjectSpecial(h)
    PROVE  Linked'
<1> DEFINE old == At("func", h)
           it == [old EXCEPT !.special = TRUE]
<1>0. "func" \in Space
  BY DEF Space
<1>1. ItemsOK /\ old \in Item
  BY <1>0, ItemAt DEF Linked, TypeOK
<1>2. it \in Item /\ it.kind = old.kind /\ it.imp = old.imp /\ it.deleted = old.deleted
  <2> HIDE DEF old
  <2> QED
    BY <1>1 DEF Item
<1>3. Replaced("func", h, it)
  BY <1>0, <1>1, PlacesChanged
<1> HIDE DEF it
<1> QED
  BY <1>0, <1>2, <1>3, LinkedEdit DEF InjectSpecial

LEMMA LinkedModGlobalInitExpr ==
    ASSUME Linked, NEW h \in Handles("global"), NEW init \in InitExprs,
           ModGlobalInitExpr(h, init)
    PROVE  Linked'
<1> DEFINE old == At("global", h)
           it == [old EXCEPT !.refs = init]
<1>0. "global" \in Space /\ init \in SUBSET Ref
  BY RefTypes DEF Space
<1>1. ItemsOK /\ old \in Item
  BY <1>0, ItemAt DEF Linked, TypeOK
<1>2. it \in Item /\ it.kind = old.kind /\ it.imp = old.imp /\ it.deleted = old.deleted
  <2> HIDE DEF old
  <2> QED
    BY <1>0, <1>1 DEF Item
<1>3. Replaced("global", h, it)
  BY <1>0, <1>1, PlacesChanged
<1> HIDE DEF it
<1> QED
  BY <1>0, <1>2, <1>3, LinkedEdit DEF ModGlobalInitExpr

\* The export section and the data section change; items and imports do not.
LEMMA LinkedRefSites ==
    ASSUME Linked, UNCHANGED <<items, recalc, imports, impCount, impAdded, numLocal, fixed,
                               panic>>,
           exports' \in Seq(Export), data' \in Seq(Data)
    PROVE  Linked'
<1>1. ItemsOK' /\ ImportsOK' /\ ImportLinksOK'
  BY LinksStay DEF Linked, TypeOK
<1> QED
  BY <1>1 DEF Linked, TypeOK, fixed

LEMMA LinkedExportsAndData ==
    ASSUME Linked
    PROVE  /\ \A s \in Space : \A h \in Handles(s) : AddExport(s, h) => Linked'
           /\ \A e \in 0 .. Len(exports) - 1 : DeleteExport(e) => Linked'
           /\ \A h \in Handles("memory"), offset \in InitExprs : AddData(h, offset) => Linked'
<1>0. "memory" \in Space
  BY DEF Space
<1>1. exports \in Seq(Export) /\ data \in Seq(Data)
  BY DEF Linked, TypeOK
<1>2. ASSUME NEW s \in Space, NEW h \in Handles(s), AddExport(s, h) PROVE Linked'
  <2>1. h \in Nat
    BY ItemAt DEF Linked, TypeOK
  <2>2. [space |-> s, index |-> h, deleted |-> FALSE] \in Export
    BY <2>1 DEF Export
  <2>3. exports' \in Seq(Export) /\ data' \in Seq(Data)
    BY <1>1, <1>2, <2>2 DEF AddExport
  <2> QED
    BY <1>2, <2>3, LinkedRefSites DEF AddExport
<1>3. ASSUME NEW e \in 0 .. Len(exports) - 1, DeleteExport(e) PROVE Linked'
  <2> DEFINE k == e + 1
             new == [exports[k] EXCEPT !.deleted = TRUE]
  <2>1. k \in 1 .. Len(exports) /\ exports[k] \in Export
    BY <1>1
  <2>2. new \in Export
    <3> HIDE DEF k
    <3> QED
      BY <2>1 DEF Export
  <2>3. exports' = [exports EXCEPT ![k] = new]
    BY <1>3 DEF DeleteExport
  <2>4. exports' \in Seq(Export) /\ data' \in Seq(Data)
    <3>1. data' \in Seq(Data)
      BY <1>1, <1>3 DEF DeleteExport
    <3> HIDE DEF k, new
    <3> QED
      BY <1>1, <2>1, <2>2, <2>3, <3>1, UpdateFacts
  <2> QED
    BY <1>3, <2>4, LinkedRefSites DEF DeleteExport
<1>4. ASSUME NEW h \in Handles("memory"), NEW offset \in InitExprs, AddData(h, offset)
      PROVE  Linked'
  <2>1. [memory |-> h, offset |-> offset] \in Data
    BY <1>0, ItemAt, RefTypes DEF Linked, TypeOK, Data
  <2>2. exports' \in Seq(Export) /\ data' \in Seq(Data)
    BY <1>1, <1>4, <2>1 DEF AddData
  <2> QED
    BY <1>4, <2>2, LinkedRefSites DEF AddData
<1> QED
  BY <1>2, <1>3, <1>4

LEMMA LinkedNext == Linked /\ [Next]_vars => Linked'
<1> SUFFICES ASSUME Linked, [Next]_vars PROVE Linked'
  OBVIOUS
<1>0. /\ "func" \in Space /\ "global" \in Space /\ "memory" \in Space
      /\ {} \in SUBSET Ref /\ NoName \in NameOrNone /\ Names \subseteq NameOrNone
      /\ panic \in PanicSites \cup {NoPanic} /\ scenario.names \subseteq Names
  BY ScenariosAssumption DEF Space, NameOrNone, Linked, TypeOK, WellFormed
<1>1. ASSUME NEW n \in scenario.names \cup {NoName}, AddLocalFunc(n) \/ AddLocalFuncInComponent(n)
      PROVE  Linked'
  <2>1. panic' \in PanicSites \cup {NoPanic}
    BY <1>1, DebugAssertType DEF AddLocalFunc, AddLocalFuncInComponent, PanicSites
  <2> QED
    BY <1>0, <1>1, <2>1, LinkedPushLocal DEF AddLocalFunc, AddLocalFuncInComponent
<1>2. ASSUME NEW init \in InitExprs, AddGlobal(init) PROVE Linked'
  <2>1. init \in SUBSET Ref /\ panic' \in PanicSites \cup {NoPanic}
    BY <1>0, <1>2, RefTypes DEF AddGlobal
  <2> QED
    BY <1>0, <1>2, <2>1, LinkedPushLocal DEF AddGlobal
<1>3. CASE AddLocalMemory
  <2>1. panic' \in PanicSites \cup {NoPanic}
    BY <1>0, <1>3 DEF AddLocalMemory
  <2> QED
    BY <1>0, <1>3, <2>1, LinkedPushLocal DEF AddLocalMemory
<1>4. CASE AddImportFunc \/ AddImportMemory \/ AddImportedGlobal
  BY <1>0, <1>4, LinkedAddImportItem, LinkedAddImportedGlobal
  DEF AddImportFunc, AddImportMemory
<1>5. CASE \/ \E h \in Handles("func") : DeleteFunc(h)
           \/ \E h \in Handles("global") : DeleteGlobal(h)
           \/ \E h \in Handles("memory") : DeleteMemory(h)
  BY <1>0, <1>5, LinkedDeleteItem DEF DeleteFunc, DeleteGlobal, DeleteMemory
<1>6. CASE \E i \in ImportsIDs : ReplaceImport(i)
  BY <1>6, LinkedReplaceImport
<1>7. CASE \E h \in Handles("func") : ConvertLocalFnToImport(h)
  BY <1>7, LinkedConvert
<1>8. CASE \/ \E h \in Handles("func"), n \in scenario.names : SetFnName(h, n)
           \/ \E i \in ImportsIDs, n \in scenario.names : SetImportName(i, n)
  BY <1>0, <1>8, LinkedSetFnName, LinkedSetImportName
<1>9. CASE \/ \E h \in Handles("func"), r \in KnownRefs : Inject(h, r)
           \/ \E h \in Handles("func") : InjectSpecial(h)
           \/ \E h \in Handles("global"), init \in InitExprs : ModGlobalInitExpr(h, init)
  BY <1>9, LinkedInject, LinkedInjectSpecial, LinkedModGlobalInitExpr
<1>10. CASE \/ \E h \in Handles("func") : AddExportFunc(h)
            \/ \E h \in Handles("global") : AddExportGlobal(h)
            \/ \E h \in Handles("memory") : AddExportMem(h)
            \/ \E e \in 0 .. Len(exports) - 1 : DeleteExport(e)
            \/ \E h \in Handles("memory"), offset \in InitExprs : AddData(h, offset)
  BY <1>0, <1>10, LinkedExportsAndData DEF AddExportFunc, AddExportGlobal, AddExportMem
<1>11. CASE UNCHANGED vars
  <2>1. Linked /\ UNCHANGED <<items, recalc, imports, impCount, impAdded, numLocal, fixed,
                              panic>>
    BY <1>11 DEF vars, refSites, fixed
  <2>2. exports' \in Seq(Export) /\ data' \in Seq(Data)
    BY <1>11 DEF vars, refSites, Linked, TypeOK
  <2> QED
    BY <2>1, <2>2, LinkedRefSites
<1> QED
  BY <1>1, <1>2, <1>3, <1>4, <1>5, <1>6, <1>7, <1>8, <1>9, <1>10, <1>11 DEF Next, OtherEdit

\* The vectors, flags, counters and reference sites keep their types through every
\* sequence of API calls (src/src/ir/module/mod.rs): typing the import that delete_*
\* marks needs the links, so the two are one induction.
THEOREM TypeCorrect == Spec => []TypeOK
<1>1. Linked => TypeOK
  BY DEF Linked
<1> QED
  BY <1>1, LinkedInit, LinkedNext, PTL DEF Spec

\* An imported function, global or memory names an import of its own kind, no two share
\* one, and the item's deleted flag always agrees with the import's (delete_func,
\* delete_global, delete_memory, convert_import_fn_to_local).
THEOREM ImportLinksHold == Spec => []ImportLinksOK
<1>1. Linked => ImportLinksOK
  BY DEF Linked
<1> QED
  BY <1>1, LinkedInit, LinkedNext, PTL DEF Spec

(***************************************************************************)
(* IDs are positions: on the ID an item carries and on the ID              *)
(* Module::add_import computes.  Globals and memories always keep them.    *)
(* Functions do not when a module without local functions is edited in a   *)
(* release build, so what is proved about functions assumes one or the     *)
(* other away.                                                             *)
(***************************************************************************)
\* The parsed module defines a function.
LocalFunctions == scenario.module.numLocal["func"] > 0

\* The spaces whose IDs are positions whatever the caller does.
NumberedSpaces ==
    {"global", "memory"} \cup (IF FuncIdsChecked THEN {"func"} ELSE {})
PositionIdsIn(s) == \A h \in Handles(s) : At(s, h).id = h

(***************************************************************************)
(* What each kind of change asks for, space by space.                      *)
(***************************************************************************)
LEMMA IdsPushed ==
    ASSUME ItemsOK, NEW s \in Space, NEW it \in Item, Pushed(s, it),
           NEW t \in Space, PositionIdsIn(t), t = s => it.id = Len(items[s])
    PROVE  PositionIdsIn(t)'
<1>1. /\ Len(items'[s]) = Len(items[s]) + 1
      /\ \A u \in Space \ {s} : items'[u] = items[u]
      /\ \A p \in 1 .. Len(items[s]) : items'[s][p] = items[s][p]
      /\ items'[s][Len(items[s]) + 1] = it
  BY PushedType
<1>2. Len(items[s]) \in Nat
  BY DEF ItemsOK
<1>3. ASSUME t = s, NEW h \in Handles(s)' PROVE At(s, h)'.id = h
  <2>1. CASE h \in Handles(s)
    <3>1. h + 1 \in 1 .. Len(items[s])
      BY <1>2, <2>1 DEF Handles
    <3> QED
      BY <1>1, <1>3, <2>1, <3>1 DEF PositionIdsIn, At
  <2>2. CASE h = Len(items[s])
    BY <1>1, <1>3, <2>2 DEF At
  <2> QED
    BY <1>1, <1>2, <2>1, <2>2 DEF Handles
<1>4. ASSUME t # s, NEW h \in Handles(t)' PROVE At(t, h)'.id = h
  <2>1. items'[t] = items[t]
    BY <1>1, <1>4
  <2> QED
    BY <1>4, <2>1 DEF PositionIdsIn, At, Handles
<1> QED
  BY <1>3, <1>4 DEF PositionIdsIn

LEMMA IdsReplaced ==
    ASSUME ItemsOK, NEW s \in Space, NEW h \in Handles(s), NEW it \in Item,
           Replaced(s, h, it), NEW t \in Space, PositionIdsIn(t), t = s => it.id = h
    PROVE  PositionIdsIn(t)'
<1>1. /\ Len(items'[s]) = Len(items[s])
      /\ \A u \in Space \ {s} : items'[u] = items[u]
      /\ \A p \in 1 .. Len(items[s]) : items'[s][p] = IF p = h + 1 THEN it ELSE items[s][p]
  BY ReplacedType
<1>2. Len(items[s]) \in Nat /\ h \in Int
  BY ItemAt
<1>3. ASSUME t = s, NEW k \in Handles(s)' PROVE At(s, k)'.id = k
  <2>1. k \in Handles(s) /\ k \in Int /\ k + 1 \in 1 .. Len(items[s])
    BY <1>1, <1>2 DEF Handles
  <2>2. items'[s][k + 1] = IF k = h THEN it ELSE items[s][k + 1]
    BY <1>1, <1>2, <2>1
  <2> QED
    BY <1>3, <2>1, <2>2 DEF PositionIdsIn, At
<1>4. ASSUME t # s, NEW k \in Handles(t)' PROVE At(t, k)'.id = k
  <2>1. items'[t] = items[t]
    BY <1>1, <1>4
  <2> QED
    BY <1>4, <2>1 DEF PositionIdsIn, At, Handles
<1> QED
  BY <1>3, <1>4 DEF PositionIdsIn

\* The vectors of both states have the same lengths after Replaced.
LEMMA LengthsKept ==
    ASSUME ItemsOK, NEW s \in Space, NEW h \in Handles(s), NEW it \in Item, Replaced(s, h, it)
    PROVE  \A t \in Space : Len(items'[t]) = Len(items[t])
BY ReplacedType

(***************************************************************************)
(* The inductive invariant.  add_import answers num_<space> when the space *)
(* has no local item: that is the next slot as long as the counter and the *)
(* vector agree.  They do for globals and memories; for functions only a   *)
(* local function that nothing removes from num_local_functions helps.     *)
(***************************************************************************)
CountsAgree(s) == numLocal[s] > 0 \/ impCount[s] = Len(items[s])

Numbered ==
    /\ \A s \in NumberedSpaces : PositionIdsIn(s)
    /\ LocalFunctions => numLocal["func"] > 0
    /\ CountsAgree("global") /\ CountsAgree("memory")

LEMMA NextIdFromCounts ==
    ASSUME Linked, NEW s \in Space, CountsAgree(s)
    PROVE  NextImportId(s) = Len(items[s])
BY DEF Linked, TypeOK, CountsAgree, NextImportId

LEMMA NumberedSpacesFixed ==
    /\ NumberedSpaces \in SUBSET Space
    /\ "func" \in NumberedSpaces => scenario.debug \/ LocalFunctions
    /\ UNCHANGED scenario => /\ NumberedSpaces' = NumberedSpaces
                             /\ LocalFunctions' <=> LocalFunctions
BY DEF NumberedSpaces, Space, LocalFunctions, FuncIdsChecked

LEMMA NumberedInit == Init => Numbered
<1> SUFFICES ASSUME Init PROVE Numbered
  OBVIOUS
<1> DEFINE m == scenario.module
<1>1. /\ scenario \in Scenarios
      /\ items = m.items /\ impCount = m.impCount /\ numLocal = m.numLocal
  BY DEF Init
<1>2. WellParsed(m)
  BY <1>1, ScenariosAssumption DEF WellFormed
<1> HIDE DEF m
<1>3. \A s \in Space : /\ Len(items[s]) \in Nat
                       /\ DOMAIN items[s] = 1 .. Len(items[s])
                       /\ impCount[s] \in Nat /\ numLocal[s] \in Nat
                       /\ Len(items[s]) = impCount[s] + numLocal[s]
  BY <1>1, <1>2 DEF WellParsed
<1>4. ASSUME NEW s \in Space, NEW h \in Handles(s) PROVE At(s, h).id = h
  <2>1. h + 1 \in DOMAIN items[s]
    BY <1>3 DEF Handles
  <2>2. \A p \in DOMAIN items[s] : items[s][p].id = p - 1
    BY <1>1, <1>2 DEF WellParsed
  <2>3. items[s][h + 1].id = (h + 1) - 1 /\ h \in Int
    BY <1>3, <2>1, <2>2 DEF Handles
  <2> QED
    BY <2>3 DEF At
<1>5. \A s \in Space : CountsAgree(s)
  BY <1>3 DEF CountsAgree
<1>6. LocalFunctions => numLocal["func"] > 0
  BY <1>1 DEF LocalFunctions, m
<1> QED
  BY <1>4, <1>5, <1>6, NumberedSpacesFixed DEF Numbered, PositionIdsIn, Space

LEMMA NumberedPushLocal ==
    ASSUME Linked, Numbered, UNCHANGED scenario, NEW s \in Space, NEW refs \in SUBSET Ref,
           NEW name \in NameOrNone, PushLocal(s, refs, name), UNCHANGED impCount
    PROVE  Numbered'
<1> DEFINE it == LocalItem(Len(items[s]), refs, name)
<1>1. ItemsOK /\ Len(items[s]) \in Nat /\ numLocal \in [Space -> Nat]
  BY DEF Linked, TypeOK, ItemsOK
<1>2. it \in Item /\ it.id = Len(items[s])
  BY <1>1, ConstructorTypes DEF LocalItem
<1>3. Pushed(s, it)
  BY DEF PushLocal, Pushed
<1>4. /\ \A t \in NumberedSpaces : PositionIdsIn(t)'
      /\ \A t \in Space \ {s} : items'[t] = items[t]
  <2> HIDE DEF it
  <2> QED
    BY <1>1, <1>2, <1>3, IdsPushed, PushedType, NumberedSpacesFixed DEF Numbered
<1>5. /\ numLocal'[s] = numLocal[s] + 1 /\ numLocal'[s] > 0
      /\ \A t \in Space \ {s} : numLocal'[t] = numLocal[t]
  BY <1>1 DEF PushLocal
<1> QED
  BY <1>1, <1>4, <1>5, NumberedSpacesFixed DEF Numbered, CountsAgree, Space

LEMMA NumberedAddImportItem ==
    ASSUME Linked, Numbered, UNCHANGED scenario, NEW s \in {"func", "memory"}, AddImportItem(s)
    PROVE  Numbered'
<1> DEFINE it == ImportItem(NextImportId(s), Len(imports))
<1>0. s \in Space /\ \A t \in Space : t = "func" \/ t = "global" \/ t = "memory"
  BY DEF Space
<1>1. /\ ItemsOK /\ numLocal \in [Space -> Nat] /\ impCount \in [Space -> Nat]
      /\ Len(imports) \in Nat /\ Len(items[s]) \in Nat
  BY <1>0 DEF Linked, TypeOK, ItemsOK, ImportsOK
<1>2. it \in Item /\ it.id = NextImportId(s)
  BY <1>1, <1>0, ConstructorTypes DEF NextImportId, ImportItem
<1>3. CASE panic' # NoPanic
  <2>1. UNCHANGED <<items, numLocal>> /\ impCount' = [impCount EXCEPT ![s] = @ + 1]
    BY <1>3 DEF AddImportItem, PushImport
  <2>2. scenario.debug /\ NextImportId(s) # Len(items[s])
    BY <1>3 DEF AddImportItem, DebugAssert
  <2>3. \A t \in NumberedSpaces : PositionIdsIn(t)'
    BY <2>1 DEF Numbered, PositionIdsIn, Handles, At
  <2>4. s = "func"
    BY <1>0, <2>2, NextIdFromCounts DEF Numbered
  <2> QED
    <3>1. /\ impCount'["global"] = impCount["global"] /\ impCount'["memory"] = impCount["memory"]
          /\ items' = items /\ numLocal' = numLocal
      BY <1>0, <1>1, <2>1, <2>4
    <3>2. CountsAgree("global")' /\ CountsAgree("memory")'
      BY <3>1 DEF Numbered, CountsAgree
    <3> QED
      BY <2>3, <3>1, <3>2, NumberedSpacesFixed DEF Numbered
<1>4. CASE panic' = NoPanic
  <2>1. Pushed(s, it) /\ UNCHANGED numLocal /\ impCount' = [impCount EXCEPT ![s] = @ + 1]
    BY <1>4 DEF AddImportItem, PushImport, Pushed
  <2>2. s \in NumberedSpaces => NextImportId(s) = Len(items[s])
    <3>1. CASE scenario.debug
      BY <1>4, <3>1 DEF AddImportItem, DebugAssert, NoPanic
    <3>2. CASE s = "memory"
      BY <1>0, <3>2, NextIdFromCounts DEF Numbered
    <3>3. CASE s = "func" /\ LocalFunctions
      <4>1. CountsAgree(s)
        BY <3>3 DEF Numbered, CountsAgree
      <4> QED
        BY <1>0, <4>1, NextIdFromCounts
    <3> QED
      BY <3>1, <3>2, <3>3, NumberedSpacesFixed
  <2>3. /\ \A t \in NumberedSpaces : PositionIdsIn(t)'
        /\ Len(items'[s]) = Len(items[s]) + 1
        /\ \A t \in Space \ {s} : items'[t] = items[t]
    <3> HIDE DEF it
    <3> QED
      BY <1>0, <1>1, <1>2, <2>1, <2>2, IdsPushed, PushedType, NumberedSpacesFixed
      DEF Numbered
  <2>4. \A t \in Space : CountsAgree(t) => CountsAgree(t)'
    <3>1. impCount'[s] = impCount[s] + 1 /\ \A t \in Space \ {s} : impCount'[t] = impCount[t]
      BY <1>0, <1>1, <2>1
    <3> QED
      BY <1>0, <2>1, <2>3, <3>1 DEF CountsAgree
  <2>5. CountsAgree("global")' /\ CountsAgree("memory")'
    BY <1>0, <2>4 DEF Numbered, Space
  <2> QED
    BY <2>1, <2>3, <2>5, NumberedSpacesFixed DEF Numbered
<1> QED
  BY <1>3, <1>4

LEMMA NumberedAddImportedGlobal ==
    ASSUME Linked, Numbered, UNCHANGED scenario, AddImportedGlobal
    PROVE  Numbered'
<1> DEFINE it == ImportItem(Len(items["global"]), Len(imports))
<1>0. "global" \in Space /\ "func" \in Space /\ "memory" \in Space
  BY DEF Space
<1>1. /\ ItemsOK /\ numLocal \in [Space -> Nat] /\ impCount \in [Space -> Nat]
      /\ Len(imports) \in Nat /\ Len(items["global"]) \in Nat
  <2>1. ItemsOK /\ ImportsOK /\ numLocal \in [Space -> Nat] /\ impCount \in [Space -> Nat]
    BY DEF Linked, TypeOK
  <2> QED
    BY <1>0, <2>1 DEF ItemsOK, ImportsOK
<1>2. it \in Item /\ it.id = Len(items["global"])
  <2>1. it \in Item
    BY <1>1, ConstructorTypes
  <2> QED
    BY <2>1 DEF ImportItem
<1>3. Pushed("global", it)
  BY DEF AddImportedGlobal, Pushed
<1>4. /\ \A t \in NumberedSpaces : PositionIdsIn(t)'
      /\ items'["memory"] = items["memory"]
  <2> HIDE DEF it
  <2> QED
    BY <1>0, <1>1, <1>2, <1>3, IdsPushed, PushedType, NumberedSpacesFixed DEF Numbered
<1>5. /\ numLocal'["global"] > 0 /\ numLocal'["func"] = numLocal["func"]
      /\ numLocal'["memory"] = numLocal["memory"] /\ impCount'["memory"] = impCount["memory"]
  BY <1>0, <1>1 DEF AddImportedGlobal, PushImport
<1> QED
  BY <1>4, <1>5, NumberedSpacesFixed DEF Numbered, CountsAgree

\* An item gives way to another with the same id, and no counter but num_funcs moves.
LEMMA NumberedReplaced ==
    ASSUME Linked, Numbered, UNCHANGED scenario, NEW s \in Space, NEW h \in Handles(s), NEW it \in Item,
           Replaced(s, h, it), s \in NumberedSpaces => it.id = h, UNCHANGED numLocal,
           impCount'["global"] = impCount["global"], impCount'["memory"] = impCount["memory"]
    PROVE  Numbered'
<1>1. ItemsOK /\ "global" \in Space /\ "memory" \in Space
  BY DEF Linked, TypeOK, Space
<1>2. /\ \A t \in NumberedSpaces : PositionIdsIn(t)'
      /\ \A t \in Space : Len(items'[t]) = Len(items[t])
  BY <1>1, IdsReplaced, LengthsKept, NumberedSpacesFixed DEF Numbered
<1> QED
  BY <1>1, <1>2, NumberedSpacesFixed DEF Numbered, CountsAgree

\* No vector and no counter changes.
LEMMA NumberedUnchanged ==
    ASSUME Numbered, UNCHANGED <<items, numLocal, impCount, scenario>>
    PROVE  Numbered'
BY NumberedSpacesFixed DEF Numbered, PositionIdsIn, CountsAgree, Handles, At

LEMMA NumberedDeleteItem ==
    ASSUME Linked, Numbered, UNCHANGED scenario, NEW s \in Space, NEW h \in Handles(s), DeleteItem(s, h)
    PROVE  Numbered'
<1> DEFINE old == At(s, h)
           it == [old EXCEPT !.deleted = TRUE]
<1>1. ItemsOK /\ old \in Item /\ (s \in NumberedSpaces => old.id = h)
  BY ItemAt DEF Linked, TypeOK, Numbered, PositionIdsIn
<1>2. it \in Item /\ (s \in NumberedSpaces => it.id = h)
  <2> HIDE DEF old
  <2> QED
    BY <1>1 DEF Item
<1>3. Replaced(s, h, it)
  BY <1>1, PlacesChanged
<1> HIDE DEF it
<1> QED
  BY <1>2, <1>3, NumberedReplaced DEF DeleteItem

LEMMA NumberedReplaceImport ==
    ASSUME Linked, Numbered, UNCHANGED scenario, NEW i \in ImportsIDs, ReplaceImport(i)
    PROVE  Numbered'
<1>1. CASE i \notin Handles("func")
  BY <1>1, NumberedUnchanged DEF ReplaceImport
<1>2. CASE i \in Handles("func")
  <2> DEFINE it == LocalItem(i, {}, ImportName)
  <2>1. "func" \in Space /\ i \in Nat
    BY <1>2, ItemAt DEF Linked, TypeOK, Space
  <2>2. it \in Item /\ it.id = i
    BY <2>1, ConstructorTypes DEF LocalItem, NameOrNone
  <2>3. Replaced("func", i, it)
    BY <1>2 DEF ReplaceImport, Replaced
  <2> HIDE DEF it
  <2> QED
    BY <1>2, <2>1, <2>2, <2>3, NumberedReplaced DEF ReplaceImport
<1> QED
  BY <1>1, <1>2

LEMMA NumberedConvert ==
    ASSUME Linked, Numbered, UNCHANGED scenario, NEW h \in Handles("func"), ConvertLocalFnToImport(h)
    PROVE  Numbered'
<1> DEFINE it == ImportItem(h, Len(imports))
<1>1. /\ "func" \in Space /\ "global" \in Space /\ "memory" \in Space
      /\ h \in Nat /\ Len(imports) \in Nat /\ impCount \in [Space -> Nat]
  BY ItemAt DEF Linked, TypeOK, ImportsOK, Space
<1>2. it \in Item /\ it.id = h
  BY <1>1, ConstructorTypes DEF ImportItem
<1>3. Replaced("func", h, it)
  BY DEF ConvertLocalFnToImport, Replaced
<1>4. /\ UNCHANGED numLocal /\ impCount'["global"] = impCount["global"]
      /\ impCount'["memory"] = impCount["memory"]
  BY <1>1 DEF ConvertLocalFnToImport, PushImport
<1> HIDE DEF it
<1> QED
  BY <1>1, <1>2, <1>3, <1>4, NumberedReplaced

LEMMA NumberedEdits ==
    ASSUME Linked, Numbered, UNCHANGED scenario
    PROVE  /\ \A h \in Handles("func"), name \in Names : SetFnName(h, name) => Numbered'
           /\ \A h \in Handles("func"), r \in KnownRefs : Inject(h, r) => Numbered'
           /\ \A h \in Handles("func") : InjectSpecial(h) => Numbered'
           /\ \A h \in Handles("global"), init \in InitExprs :
                 ModGlobalInitExpr(h, init) => Numbered'
<1>0. "func" \in Space /\ "global" \in Space /\ ItemsOK
  BY DEF Linked, TypeOK, Space
<1>1. \A s \in Space : \A h \in Handles(s) :
         At(s, h) \in Item /\ (s \in NumberedSpaces => At(s, h).id = h)
  BY <1>0, ItemAt DEF Numbered, PositionIdsIn
<1>2. ASSUME NEW h \in Handles("func"), NEW name \in Names, SetFnName(h, name)
      PROVE  Numbered'
  <2> DEFINE old == At("func", h)
             it == [old EXCEPT !.name = name]
  <2>1. CASE UNCHANGED items
    BY <1>2, <2>1, NumberedUnchanged DEF SetFnName
  <2>2. CASE items' = [items EXCEPT !["func"][h + 1].name = name]
    <3>1. old \in Item /\ ("func" \in NumberedSpaces => old.id = h)
      BY <1>0, <1>1
    <3>2. it \in Item /\ ("func" \in NumberedSpaces => it.id = h)
      <4> HIDE DEF old
      <4> QED
        BY <3>1 DEF Item, NameOrNone
    <3>3. Replaced("func", h, it)
      BY <1>0, <2>2, ItemAt DEF Replaced, At, ItemsOK
    <3> HIDE DEF it
    <3> QED
      BY <1>0, <1>2, <3>2, <3>3, NumberedReplaced DEF SetFnName
  <2> QED
    BY <1>2, <2>1, <2>2 DEF SetFnName
<1>3. ASSUME NEW h \in Handles("func"), NEW r \in KnownRefs, Inject(h, r)
      PROVE  Numbered'
  <2> DEFINE old == At("func", h)
             it == [old EXCEPT !.refs = @ \cup {r}]
  <2>1. old \in Item /\ ("func" \in NumberedSpaces => old.id = h) /\ r \in Ref
    BY <1>0, <1>1, RefTypes
  <2>2. it \in Item /\ ("func" \in NumberedSpaces => it.id = h)
    <3> HIDE DEF old
    <3> QED
      BY <2>1 DEF Item
  <2>3. Replaced("func", h, it)
    BY <1>0, <1>3, PlacesChanged
  <2> HIDE DEF it
  <2> QED
    BY <1>0, <1>3, <2>2, <2>3, NumberedReplaced DEF Inject
<1>4. ASSUME NEW h \in Handles("func"), InjectSpecial(h) PROVE Numbered'
  <2> DEFINE old == At("func", h)
             it == [old EXCEPT !.special = TRUE]
  <2>1. old \in Item /\ ("func" \in NumberedSpaces => old.id = h)
    BY <1>0, <1>1
  <2>2. it \in Item /\ ("func" \in NumberedSpaces => it.id = h)
    <3> HIDE DEF old
    <3> QED
      BY <2>1 DEF Item
  <2>3. Replaced("func", h, it)
    BY <1>0, <1>4, PlacesChanged
  <2> HIDE DEF it
  <2> QED
    BY <1>0, <1>4, <2>2, <2>3, NumberedReplaced DEF InjectSpecial
<1>5. ASSUME NEW h \in Handles("global"), NEW init \in InitExprs, ModGlobalInitExpr(h, init)
      PROVE  Numbered'
  <2> DEFINE old == At("global", h)
             it == [old EXCEPT !.refs = init]
  <2>1. old \in Item /\ ("global" \in NumberedSpaces => old.id = h) /\ init \in SUBSET Ref
    BY <1>0, <1>1, RefTypes
  <2>2. it \in Item /\ ("global" \in NumberedSpaces => it.id = h)
    <3> HIDE DEF old
    <3> QED
      BY <2>1 DEF Item
  <2>3. Replaced("global", h, it)
    BY <1>0, <1>5, PlacesChanged
  <2> HIDE DEF it
  <2> QED
    BY <1>0, <1>5, <2>2, <2>3, NumberedReplaced DEF ModGlobalInitExpr
<1> QED
  BY <1>2, <1>3, <1>4, <1>5

\* No operation changes the scenario.
LEMMA ScenarioFixed == [Next]_vars => UNCHANGED scenario
BY DEF Next, OtherEdit, vars, refSites, fixed, AddLocalFunc, AddLocalFuncInComponent, AddGlobal,
       AddLocalMemory, AddImportFunc, AddImportMemory, AddImportItem, AddImportedGlobal,
       DeleteFunc, DeleteGlobal, DeleteMemory, DeleteItem, ReplaceImport,
       ConvertLocalFnToImport, SetFnName, SetImportName, Inject, InjectSpecial,
       ModGlobalInitExpr, AddExportFunc, AddExportGlobal, AddExportMem, AddExport,
       DeleteExport, AddData

LEMMA NumberedNext ==
    ASSUME Linked, Numbered, [Next]_vars
    PROVE  Numbered'
<1>0. /\ "func" \in Space /\ "global" \in Space /\ "memory" \in Space
      /\ {} \in SUBSET Ref /\ NoName \in NameOrNone /\ Names \subseteq NameOrNone
      /\ scenario.names \subseteq Names /\ UNCHANGED scenario
  BY ScenariosAssumption, ScenarioFixed DEF Space, NameOrNone, Linked, TypeOK, WellFormed
<1>1. ASSUME NEW n \in scenario.names \cup {NoName}, AddLocalFunc(n) \/ AddLocalFuncInComponent(n)
      PROVE  Numbered'
  BY <1>0, <1>1, NumberedPushLocal DEF AddLocalFunc, AddLocalFuncInComponent
<1>2. ASSUME NEW init \in InitExprs, AddGlobal(init) PROVE Numbered'
  <2>1. init \in SUBSET Ref
    BY <1>2, RefTypes
  <2> QED
    BY <1>0, <1>2, <2>1, NumberedPushLocal DEF AddGlobal
<1>3. CASE AddLocalMemory
  BY <1>0, <1>3, NumberedPushLocal DEF AddLocalMemory
<1>4. CASE AddImportFunc \/ AddImportMemory \/ AddImportedGlobal
  BY <1>0, <1>4, NumberedAddImportItem, NumberedAddImportedGlobal DEF AddImportFunc, AddImportMemory
<1>5. CASE \/ \E h \in Handles("func") : DeleteFunc(h)
           \/ \E h \in Handles("global") : DeleteGlobal(h)
           \/ \E h \in Handles("memory") : DeleteMemory(h)
  BY <1>0, <1>5, NumberedDeleteItem DEF DeleteFunc, DeleteGlobal, DeleteMemory
<1>6. CASE \E i \in ImportsIDs : ReplaceImport(i)
  BY <1>0, <1>6, NumberedReplaceImport
<1>7. CASE \E h \in Handles("func") : ConvertLocalFnToImport(h)
  BY <1>0, <1>7, NumberedConvert
<1>8. CASE \/ \E h \in Handles("func"), n \in scenario.names : SetFnName(h, n)
           \/ \E h \in Handles("func"), r \in KnownRefs : Inject(h, r)
           \/ \E h \in Handles("func") : InjectSpecial(h)
           \/ \E h \in Handles("global"), init \in InitExprs : ModGlobalInitExpr(h, init)
  BY <1>0, <1>8, NumberedEdits
<1>9. CASE \/ \E i \in ImportsIDs, n \in scenario.names : SetImportName(i, n)
           \/ \E h \in Handles("func") : AddExportFunc(h)
           \/ \E h \in Handles("global") : AddExportGlobal(h)
           \/ \E h \in Handles("memory") : AddExportMem(h)
           \/ \E e \in 0 .. Len(exports) - 1 : DeleteExport(e)
           \/ \E h \in Handles("memory"), offset \in InitExprs : AddData(h, offset)
  BY <1>0, <1>9, NumberedUnchanged
  DEF SetImportName, AddExportFunc, AddExportGlobal, AddExportMem, AddExport, DeleteExport, AddData
<1>10. CASE UNCHANGED vars
  BY <1>0, <1>10, NumberedUnchanged DEF vars
<1> QED
  BY <1>1, <1>2, <1>3, <1>4, <1>5, <1>6, <1>7, <1>8, <1>9, <1>10 DEF Next, OtherEdit

\* An ID is the position of its item after any sequence of additions, deletions and
\* conversions: the id fields the mapping is built from and the IDs the callers hold
\* speak of the same items (module_functions.rs, module_globals.rs, module_memories.rs).
\* For functions, either the debug_assert of add_import_func is compiled in, or the parsed
\* module defines functions: a release build edits a module without any to the contrary.
THEOREM PositionIdsHold == Spec => []PositionIds
<1>1. Init => Linked /\ Numbered
  BY LinkedInit, NumberedInit
<1>2. Linked /\ Numbered /\ [Next]_vars => (Linked /\ Numbered)'
  BY LinkedNext, NumberedNext
<1>3. Linked /\ Numbered => PositionIds
  <2>1. \A s \in Space : (s = "func" => FuncIdsChecked) => s \in NumberedSpaces
    BY DEF NumberedSpaces, Space
  <2> QED
    BY <2>1 DEF Numbered, PositionIds, PositionIdsIn
<1> QED
  BY <1>1, <1>2, <1>3, PTL DEF Spec

(***************************************************************************)
(* What encoding relies on, for every set of parsed modules and every      *)
(* bound: a vector is in binary order unless recalculate_ids is set, and   *)
(* no live import is without a live item.  Every operation is classified   *)
(* by what one index space sees of it; the same views carry the refinement *)
(* of ModuleEncodeProofs.                                                  *)
(***************************************************************************)

(***************************************************************************)
(* What the space t sees of a step.                                        *)
(***************************************************************************)
SameItem(x, y) == x.kind = y.kind /\ x.imp = y.imp /\ x.id = y.id /\ x.deleted = y.deleted
KeepsItems(t) ==
    /\ Len(items'[t]) = Len(items[t])
    /\ \A p \in 1 .. Len(items[t]) : SameItem(items'[t][p], items[t][p])
GrowsBy(t, it) ==
    /\ Len(items'[t]) = Len(items[t]) + 1
    /\ \A p \in 1 .. Len(items[t]) : SameItem(items'[t][p], items[t][p])
    /\ items'[t][Len(items[t]) + 1] = it
ChangesAt(t, k, it) ==
    /\ Len(items'[t]) = Len(items[t])
    /\ \A p \in 1 .. Len(items[t]) : p # k => SameItem(items'[t][p], items[t][p])
    /\ items'[t][k] = it

KeepsKinds ==
    /\ Len(imports) <= Len(imports')
    /\ \A i \in 1 .. Len(imports) : imports'[i].kind = imports[i].kind
KeepsImports(t) ==
    /\ KeepsKinds
    /\ \A i \in 1 .. Len(imports) :
          imports[i].kind = t => imports'[i].deleted = imports[i].deleted
NoNewImport(t) ==
    \A i \in 1 .. Len(imports') : i \notin 1 .. Len(imports) => imports'[i].kind # t
NewImport(t) ==
    /\ Len(imports') = Len(imports) + 1
    /\ imports'[Len(imports) + 1].kind = t /\ ~imports'[Len(imports) + 1].deleted
\* Of the imports, only the one behind item x changes, if x is imported: it is deleted.
DropsImport(x) ==
    /\ Len(imports') = Len(imports)
    /\ \A i \in 1 .. Len(imports) :
          /\ imports'[i].kind = imports[i].kind
          /\ imports'[i].deleted = IF x.kind = "import" /\ i = x.imp + 1
                                   THEN TRUE ELSE imports[i].deleted
FlagKept(t) == recalc[t] => recalc'[t]

\* The live item of handle h, whatever its references and its name.
LocalAt(it, h) == it.kind = "local" /\ ~it.deleted /\ it.id = h
ImportAt(it, t, h) ==
    /\ it.kind = "import" /\ ~it.deleted /\ it.imp = Len(imports)
    /\ t \in NumberedSpaces => it.id = h

Untouched(t) == KeepsItems(t) /\ KeepsImports(t) /\ NoNewImport(t) /\ FlagKept(t)
LocalAdded(t) ==
    /\ \E it \in Item : GrowsBy(t, it) /\ LocalAt(it, Len(items[t]))
    /\ KeepsImports(t) /\ NoNewImport(t) /\ FlagKept(t)
ImportAdded(t) ==
    /\ \E it \in Item : GrowsBy(t, it) /\ ImportAt(it, t, Len(items[t]))
    /\ KeepsImports(t) /\ NewImport(t) /\ recalc'[t]
ItemDeleted(t, k) ==
    /\ \E it \in Item : /\ ChangesAt(t, k, it) /\ it.deleted
                        /\ it.kind = items[t][k].kind /\ it.imp = items[t][k].imp
                        /\ it.id = items[t][k].id
    /\ DropsImport(items[t][k]) /\ recalc'[t]
LocalPut(t, k) ==
    /\ t = "func"
    /\ \E it \in Item : ChangesAt(t, k, it) /\ LocalAt(it, k - 1)
    /\ items[t][k].kind = "import" /\ DropsImport(items[t][k]) /\ recalc'[t]
ImportPut(t, k) ==
    /\ t = "func"
    /\ \E it \in Item : ChangesAt(t, k, it) /\ ImportAt(it, t, k - 1)
    /\ items[t][k].kind = "local" /\ KeepsImports(t) /\ NewImport(t) /\ recalc'[t]
\* add_import panics after it has added the import.
Panicked(t) ==
    t = "func" /\ panic' # NoPanic /\ KeepsItems(t) /\ KeepsImports(t) /\ FlagKept(t)

View(t) ==
    \/ Untouched(t) \/ LocalAdded(t) \/ ImportAdded(t) \/ Panicked(t)
    \/ \E k \in 1 .. Len(items[t]) : ItemDeleted(t, k) \/ LocalPut(t, k) \/ ImportPut(t, k)

(***************************************************************************)
(* The views of each operation.                                            *)
(***************************************************************************)
LEMMA SeenPushed ==
    ASSUME ItemsOK, NEW s \in Space, NEW it \in Item, Pushed(s, it), NEW t \in Space
    PROVE  IF t = s THEN GrowsBy(t, it) ELSE KeepsItems(t)
<1>1. /\ Len(items'[s]) = Len(items[s]) + 1
      /\ \A u \in Space \ {s} : items'[u] = items[u]
      /\ \A p \in 1 .. Len(items[s]) : items'[s][p] = items[s][p]
      /\ items'[s][Len(items[s]) + 1] = it
  BY PushedType
<1> QED
  BY <1>1 DEF GrowsBy, KeepsItems, SameItem

LEMMA SeenReplaced ==
    ASSUME ItemsOK, NEW s \in Space, NEW h \in Handles(s), NEW it \in Item,
           Replaced(s, h, it), NEW t \in Space
    PROVE  IF t = s THEN ChangesAt(t, h + 1, it) ELSE KeepsItems(t)
<1>1. /\ Len(items'[s]) = Len(items[s])
      /\ \A u \in Space \ {s} : items'[u] = items[u]
      /\ \A p \in 1 .. Len(items[s]) : items'[s][p] = IF p = h + 1 THEN it ELSE items[s][p]
  BY ReplacedType
<1>2. h + 1 \in 1 .. Len(items[s])
  BY ItemAt
<1> QED
  BY <1>1, <1>2 DEF ChangesAt, KeepsItems, SameItem

LEMMA SeenUnchanged ==
    ASSUME NEW t \in Space
    PROVE  /\ UNCHANGED items => KeepsItems(t)
           /\ ImportsOK /\ UNCHANGED imports => KeepsImports(t) /\ NoNewImport(t)
           /\ UNCHANGED recalc => FlagKept(t)
<1>1. ImportsOK => Len(imports) \in Nat
  BY DEF ImportsOK
<1> QED
  BY <1>1 DEF KeepsItems, SameItem, KeepsImports, KeepsKinds, NoNewImport, FlagKept

LEMMA SeenPushImport ==
    ASSUME TypeOK, NEW s \in Space, PushImport(s), NEW t \in Space
    PROVE  /\ KeepsImports(t)
           /\ IF t = s THEN NewImport(t) ELSE NoNewImport(t)
<1>1. /\ Len(imports) \in Nat /\ Len(imports') = Len(imports) + 1
      /\ \A i \in 1 .. Len(imports) : imports'[i] = imports[i]
      /\ imports'[Len(imports) + 1] = [kind |-> s, deleted |-> FALSE, custom |-> NoName]
  BY PushImportType
<1>2. KeepsImports(t)
  BY <1>1 DEF KeepsImports, KeepsKinds
<1>3. /\ imports'[Len(imports) + 1].kind = s /\ ~imports'[Len(imports) + 1].deleted
  BY <1>1
<1>4. ASSUME NEW i \in 1 .. Len(imports'), i \notin 1 .. Len(imports)
      PROVE  imports'[i].kind = s
  <2>1. i = Len(imports) + 1
    BY <1>1, <1>4
  <2> QED
    BY <1>3, <2>1
<1> QED
  BY <1>1, <1>2, <1>3, <1>4 DEF NewImport, NoNewImport

\* Seen from another space, deleting the import behind an item changes nothing.
LEMMA SeenDrop ==
    ASSUME Linked, NEW s \in Space, NEW h \in Handles(s), imports' = DropImportOf(At(s, h)),
           NEW t \in Space
    PROVE  /\ DropsImport(At(s, h))
           /\ t # s => KeepsImports(t) /\ NoNewImport(t)
<1> DEFINE it == At(s, h)
<1>1. TypeOK /\ ImportLinksOK /\ it \in Item /\ imports \in Seq(Import) /\ Len(imports) \in Nat
  BY ItemAt DEF Linked, TypeOK, ImportsOK
<1>2. IsImport(it) => it.imp \in 0 .. Len(imports) - 1 /\ imports[it.imp + 1].kind = s
  BY <1>1 DEF ImportLinksOK, ImportsIDs
<1>3. imports' = DropImportOf(it)
  OBVIOUS
<1> HIDE DEF it
<1>4. /\ Len(imports') = Len(imports)
      /\ \A i \in 1 .. Len(imports) :
            imports'[i] = IF IsImport(it) /\ i = it.imp + 1
                          THEN [imports[i] EXCEPT !.deleted = TRUE] ELSE imports[i]
  BY <1>1, <1>2, <1>3, DropImportFacts
<1>5. \A i \in 1 .. Len(imports) :
         /\ imports'[i].kind = imports[i].kind
         /\ imports'[i].deleted = IF it.kind = "import" /\ i = it.imp + 1
                                  THEN TRUE ELSE imports[i].deleted
  <2> TAKE i \in 1 .. Len(imports)
  <2>1. imports[i] \in Import
    BY <1>1
  <2> QED
    BY <1>4, <2>1 DEF IsImport, Import
<1>6. DropsImport(it)
  BY <1>4, <1>5 DEF DropsImport
<1>7. ASSUME t # s PROVE KeepsImports(t) /\ NoNewImport(t)
  <2>1. \A i \in 1 .. Len(imports) : imports[i].kind = t => ~(IsImport(it) /\ i = it.imp + 1)
    BY <1>2, <1>7
  <2>2. \A i \in 1 .. Len(imports) :
           imports[i].kind = t => imports'[i].deleted = imports[i].deleted
    BY <1>5, <2>1 DEF IsImport
  <2>3. KeepsKinds
    <3>1. Len(imports) <= Len(imports')
      BY <1>1, <1>4
    <3>2. \A i \in 1 .. Len(imports) : imports'[i].kind = imports[i].kind
      BY <1>5
    <3> QED
      BY <3>1, <3>2 DEF KeepsKinds
  <2>4. NoNewImport(t)
    BY <1>4 DEF NoNewImport
  <2> QED
    BY <2>2, <2>3, <2>4 DEF KeepsImports
<1> QED
  BY <1>6, <1>7 DEF it
(***************************************************************************)
(* Every step of the module has a view in every space.                     *)
(***************************************************************************)
LEMMA ViewPushLocal ==
    ASSUME Linked, NEW s \in Space, NEW refs \in SUBSET Ref, NEW name \in NameOrNone,
           PushLocal(s, refs, name), UNCHANGED imports, NEW t \in Space
    PROVE  View(t)
<1> DEFINE it == LocalItem(Len(items[s]), refs, name)
<1>1. ItemsOK /\ ImportsOK /\ Len(items[s]) \in Nat /\ recalc \in [Space -> BOOLEAN]
  BY DEF Linked, TypeOK, ItemsOK
<1>2. it \in Item /\ LocalAt(it, Len(items[s]))
  BY <1>1, ConstructorTypes DEF LocalItem, LocalAt
<1>3. Pushed(s, it)
  BY DEF PushLocal, Pushed
<1>4. KeepsImports(t) /\ NoNewImport(t)
  BY <1>1, SeenUnchanged
<1>5. FlagKept(t)
  BY <1>1 DEF FlagKept, PushLocal
<1> HIDE DEF it
<1>6. IF t = s THEN GrowsBy(t, it) ELSE KeepsItems(t)
  BY <1>1, <1>2, <1>3, SeenPushed
<1> QED
  BY <1>2, <1>4, <1>5, <1>6 DEF View, LocalAdded, Untouched

LEMMA ViewAddImportItem ==
    ASSUME Linked, Numbered, NEW s \in {"func", "memory"}, AddImportItem(s), NEW t \in Space
    PROVE  View(t)
<1> DEFINE it == ImportItem(NextImportId(s), Len(imports))
<1>0. s \in Space /\ TypeOK
  BY DEF Space, Linked
<1>1. /\ ItemsOK /\ Len(imports) \in Nat /\ Len(items[s]) \in Nat
      /\ numLocal \in [Space -> Nat] /\ impCount \in [Space -> Nat]
      /\ recalc \in [Space -> BOOLEAN]
  BY <1>0 DEF TypeOK, ItemsOK, ImportsOK
<1>2. it \in Item /\ it.id = NextImportId(s)
  BY <1>0, <1>1, ConstructorTypes DEF NextImportId, ImportItem
<1>3. /\ KeepsImports(t)
      /\ IF t = s THEN NewImport(t) ELSE NoNewImport(t)
  BY <1>0, SeenPushImport DEF AddImportItem
<1>4. FlagKept(t) /\ (t = s => recalc'[t])
  BY <1>0, <1>1 DEF FlagKept, AddImportItem
<1>5. CASE panic' # NoPanic
  <2>1. UNCHANGED items
    BY <1>5 DEF AddImportItem
  <2>2. KeepsItems(t)
    BY <2>1, SeenUnchanged
  <2>3. NextImportId(s) # Len(items[s])
    BY <1>5 DEF AddImportItem, DebugAssert
  <2>4. s = "func"
    BY <1>0, <2>3, NextIdFromCounts DEF Numbered
  <2> QED
    BY <1>3, <1>4, <1>5, <2>2, <2>4 DEF View, Panicked, Untouched
<1>6. CASE panic' = NoPanic
  <2>1. Pushed(s, it)
    BY <1>6 DEF AddImportItem, Pushed
  <2>2. s \in NumberedSpaces => NextImportId(s) = Len(items[s])
    <3>1. CASE scenario.debug
      BY <1>6, <3>1 DEF AddImportItem, DebugAssert, NoPanic
    <3>2. CASE s = "memory"
      BY <1>0, <3>2, NextIdFromCounts DEF Numbered
    <3>3. CASE s = "func" /\ LocalFunctions
      <4>1. CountsAgree(s)
        BY <3>3 DEF Numbered, CountsAgree
      <4> QED
        BY <1>0, <4>1, NextIdFromCounts
    <3> QED
      BY <3>1, <3>2, <3>3, NumberedSpacesFixed
  <2>3. ImportAt(it, s, Len(items[s]))
    BY <1>2, <2>2 DEF ImportAt, ImportItem
  <2> HIDE DEF it
  <2>4. IF t = s THEN GrowsBy(t, it) ELSE KeepsItems(t)
    BY <1>0, <1>1, <1>2, <2>1, SeenPushed
  <2> QED
    BY <1>2, <1>3, <1>4, <2>3, <2>4 DEF View, ImportAdded, Untouched
<1> QED
  BY <1>5, <1>6

LEMMA ViewAddImportedGlobal ==
    ASSUME Linked, AddImportedGlobal, NEW t \in Space
    PROVE  View(t)
<1> DEFINE s == "global"
           it == ImportItem(Len(items[s]), Len(imports))
<1>0. s \in Space /\ TypeOK
  BY DEF Space, Linked
<1>1. /\ ItemsOK /\ Len(imports) \in Nat /\ Len(items[s]) \in Nat
      /\ recalc \in [Space -> BOOLEAN]
  BY <1>0 DEF TypeOK, ItemsOK, ImportsOK
<1>2. it \in Item /\ ImportAt(it, s, Len(items[s]))
  BY <1>1, ConstructorTypes DEF ImportItem, ImportAt
<1>3. /\ KeepsImports(t)
      /\ IF t = s THEN NewImport(t) ELSE NoNewImport(t)
  BY <1>0, SeenPushImport DEF AddImportedGlobal
<1>4. FlagKept(t) /\ (t = s => recalc'[t])
  BY <1>0, <1>1 DEF FlagKept, AddImportedGlobal
<1>5. Pushed(s, it)
  BY DEF AddImportedGlobal, Pushed
<1> HIDE DEF it
<1>6. IF t = s THEN GrowsBy(t, it) ELSE KeepsItems(t)
  BY <1>0, <1>1, <1>2, <1>5, SeenPushed
<1> QED
  BY <1>2, <1>3, <1>4, <1>6 DEF View, ImportAdded, Untouched

LEMMA ViewDeleteItem ==
    ASSUME Linked, NEW s \in Space, NEW h \in Handles(s), DeleteItem(s, h), NEW t \in Space
    PROVE  View(t)
<1> DEFINE old == At(s, h)
           it == [old EXCEPT !.deleted = TRUE]
<1>1. /\ ItemsOK /\ old \in Item /\ recalc \in [Space -> BOOLEAN]
      /\ h + 1 \in 1 .. Len(items[s])
  BY ItemAt DEF Linked, TypeOK
<1>2. /\ it \in Item /\ it.deleted /\ it.kind = old.kind /\ it.imp = old.imp /\ it.id = old.id
  <2> HIDE DEF old
  <2> QED
    BY <1>1 DEF Item
<1>3. Replaced(s, h, it)
  BY <1>1, PlacesChanged
<1>4. DropsImport(old) /\ (t # s => KeepsImports(t) /\ NoNewImport(t))
  BY SeenDrop DEF DeleteItem
<1>5. FlagKept(t) /\ (t = s => recalc'[t])
  BY <1>1 DEF FlagKept, DeleteItem
<1>6. old = items[s][h + 1]
  BY DEF At
<1> HIDE DEF it, old
<1>7. IF t = s THEN ChangesAt(t, h + 1, it) ELSE KeepsItems(t)
  BY <1>1, <1>2, <1>3, SeenReplaced
<1>8. CASE t = s
  <2>1. ItemDeleted(t, h + 1)
    BY <1>2, <1>4, <1>5, <1>6, <1>7, <1>8 DEF ItemDeleted
  <2> QED
    BY <1>1, <1>8, <2>1 DEF View
<1>9. CASE t # s
  BY <1>4, <1>5, <1>7, <1>9 DEF View, Untouched
<1> QED
  BY <1>8, <1>9

LEMMA ViewReplaceImport ==
    ASSUME Linked, NEW i \in ImportsIDs, ReplaceImport(i), NEW t \in Space
    PROVE  View(t)
<1>0. "func" \in Space /\ ItemsOK /\ ImportsOK /\ recalc \in [Space -> BOOLEAN]
  BY DEF Space, Linked, TypeOK
<1>1. CASE i \notin Handles("func")
  <2>1. UNCHANGED <<items, recalc, imports>>
    BY <1>1 DEF ReplaceImport
  <2> QED
    BY <1>0, <2>1, SeenUnchanged DEF View, Untouched
<1>2. CASE i \in Handles("func")
  <2> DEFINE it == LocalItem(i, {}, ImportName)
             old == At("func", i)
  <2>1. i \in Nat /\ i + 1 \in 1 .. Len(items["func"])
    BY <1>0, <1>2, ItemAt
  <2>2. it \in Item /\ LocalAt(it, (i + 1) - 1)
    <3>1. {} \in SUBSET Ref /\ ImportName \in NameOrNone
      BY DEF NameOrNone
    <3>2. it \in Item
      BY <2>1, <3>1, ConstructorTypes
    <3>3. it.id = i /\ it.kind = "local" /\ ~it.deleted
      BY DEF LocalItem
    <3> QED
      BY <2>1, <3>2, <3>3 DEF LocalAt
  <2>3. Replaced("func", i, it) /\ old.kind = "import" /\ old = items["func"][i + 1]
    BY <1>2 DEF ReplaceImport, Replaced, IsImport, At
  <2>4. DropsImport(old) /\ (t # "func" => KeepsImports(t) /\ NoNewImport(t))
    BY <1>0, <1>2, SeenDrop DEF ReplaceImport
  <2>5. FlagKept(t) /\ (t = "func" => recalc'[t])
    BY <1>0, <1>2 DEF FlagKept, ReplaceImport
  <2> HIDE DEF it, old
  <2>6. IF t = "func" THEN ChangesAt(t, i + 1, it) ELSE KeepsItems(t)
    BY <1>0, <1>2, <2>2, <2>3, SeenReplaced
  <2>7. CASE t = "func"
    <3>1. LocalPut(t, i + 1)
      BY <2>2, <2>3, <2>4, <2>5, <2>6, <2>7 DEF LocalPut
    <3> QED
      BY <2>1, <2>7, <3>1 DEF View
  <2>8. CASE t # "func"
    BY <2>4, <2>5, <2>6, <2>8 DEF View, Untouched
  <2> QED
    BY <2>7, <2>8
<1> QED
  BY <1>1, <1>2

LEMMA ViewConvert ==
    ASSUME Linked, NEW h \in Handles("func"), ConvertLocalFnToImport(h), NEW t \in Space
    PROVE  View(t)
<1> DEFINE it == ImportItem(h, Len(imports))
<1>0. "func" \in Space /\ TypeOK /\ ItemsOK /\ ImportsOK /\ recalc \in [Space -> BOOLEAN]
  BY DEF Space, Linked, TypeOK
<1>1. h \in Nat /\ h + 1 \in 1 .. Len(items["func"]) /\ Len(imports) \in Nat
  BY <1>0, ItemAt DEF ImportsOK
<1>2. it \in Item /\ ImportAt(it, "func", (h + 1) - 1)
  BY <1>1, ConstructorTypes DEF ImportItem, ImportAt
<1>3. Replaced("func", h, it) /\ items["func"][h + 1].kind = "local"
  BY DEF ConvertLocalFnToImport, Replaced, IsLocal, At
<1>4. /\ KeepsImports(t)
      /\ IF t = "func" THEN NewImport(t) ELSE NoNewImport(t)
  BY <1>0, SeenPushImport DEF ConvertLocalFnToImport
<1>5. FlagKept(t) /\ (t = "func" => recalc'[t])
  BY <1>0 DEF FlagKept, ConvertLocalFnToImport
<1> HIDE DEF it
<1>6. IF t = "func" THEN ChangesAt(t, h + 1, it) ELSE KeepsItems(t)
  BY <1>0, <1>2, <1>3, SeenReplaced
<1>7. CASE t = "func"
  <2>1. ImportPut(t, h + 1)
    BY <1>2, <1>3, <1>4, <1>5, <1>6, <1>7 DEF ImportPut
  <2> QED
    BY <1>1, <1>7, <2>1 DEF View
<1>8. CASE t # "func"
  BY <1>4, <1>5, <1>6, <1>8 DEF View, Untouched
<1> QED
  BY <1>7, <1>8

\* References, names and flags of one item are edited, and the imports stay.
LEMMA ViewEdit ==
    ASSUME Linked, NEW s \in Space, NEW h \in Handles(s), NEW it \in Item,
           Replaced(s, h, it), SameItem(it, At(s, h)), UNCHANGED <<imports, recalc>>,
           NEW t \in Space
    PROVE  View(t)
<1>1. ItemsOK /\ ImportsOK
  BY DEF Linked, TypeOK
<1>2. IF t = s THEN ChangesAt(t, h + 1, it) ELSE KeepsItems(t)
  BY <1>1, SeenReplaced
<1>3. KeepsItems(t)
  BY <1>2 DEF ChangesAt, KeepsItems, SameItem, At
<1> QED
  BY <1>1, <1>3, SeenUnchanged DEF View, Untouched

LEMMA ViewNamedImport ==
    ASSUME Linked, NEW k \in 1 .. Len(imports), NEW name \in NameOrNone,
           imports' = [imports EXCEPT ![k].custom = name], UNCHANGED <<items, recalc>>,
           NEW t \in Space
    PROVE  View(t)
<1>1. ItemsOK /\ ImportsOK /\ Len(imports) \in Nat
  BY DEF Linked, TypeOK, ImportsOK
<1>2. /\ Len(imports') = Len(imports)
      /\ \A i \in 1 .. Len(imports) :
            imports'[i].kind = imports[i].kind /\ imports'[i].deleted = imports[i].deleted
  BY NameImportFacts
<1>3. KeepsImports(t) /\ NoNewImport(t)
  BY <1>1, <1>2 DEF KeepsImports, KeepsKinds, NoNewImport
<1>4. KeepsItems(t) /\ FlagKept(t)
  BY <1>1 DEF KeepsItems, SameItem, FlagKept
<1> QED
  BY <1>3, <1>4 DEF View, Untouched

LEMMA ViewSetImportName ==
    ASSUME Linked, NEW i \in ImportsIDs, NEW name \in Names, SetImportName(i, name),
           NEW t \in Space
    PROVE  View(t)
<1>1. i + 1 \in 1 .. Len(imports) /\ name \in NameOrNone
  BY DEF Linked, TypeOK, ImportsOK, ImportsIDs, NameOrNone
<1> QED
  BY <1>1, ViewNamedImport DEF SetImportName

LEMMA ViewSetFnName ==
    ASSUME Linked, NEW h \in Handles("func"), NEW name \in Names, SetFnName(h, name),
           NEW t \in Space
    PROVE  View(t)
<1>0. /\ "func" \in Space /\ ItemsOK /\ ImportsOK /\ imports \in Seq(Import)
      /\ h \in Nat /\ At("func", h) \in Item
  BY ItemAt DEF Space, Linked, TypeOK, ImportsOK
<1>1. UNCHANGED recalc /\ FlagKept(t)
  BY DEF SetFnName, FlagKept
<1>2. CASE UNCHANGED imports /\ UNCHANGED items
  BY <1>0, <1>1, <1>2, SeenUnchanged DEF View, Untouched
<1>3. CASE UNCHANGED items /\ h + 1 <= Len(imports)
           /\ imports' = [imports EXCEPT ![h + 1].custom = name]
  <2>1. h + 1 \in 1 .. Len(imports) /\ name \in NameOrNone
    BY <1>0, <1>3 DEF NameOrNone
  <2> QED
    BY <1>1, <1>3, <2>1, ViewNamedImport
<1>4. CASE UNCHANGED imports /\ items' = [items EXCEPT !["func"][h + 1].name = name]
  <2> DEFINE old == At("func", h)
             it == [old EXCEPT !.name = name]
  <2>1. it \in Item /\ SameItem(it, old)
    <3>1. old \in Item
      BY <1>0
    <3> HIDE DEF old
    <3> QED
      BY <3>1 DEF Item, NameOrNone, SameItem
  <2>2. Replaced("func", h, it)
    BY <1>0, <1>4 DEF Replaced, At, ItemsOK
  <2> HIDE DEF it
  <2> QED
    BY <1>0, <1>1, <1>4, <2>1, <2>2, ViewEdit
<1> QED
  BY <1>2, <1>3, <1>4 DEF SetFnName

LEMMA ViewEdits ==
    ASSUME Linked, NEW t \in Space
    PROVE  /\ \A h \in Handles("func"), r \in KnownRefs : Inject(h, r) => View(t)
           /\ \A h \in Handles("func") : InjectSpecial(h) => View(t)
           /\ \A h \in Handles("global"), init \in InitExprs :
                 ModGlobalInitExpr(h, init) => View(t)
<1>0. "func" \in Space /\ "global" \in Space /\ ItemsOK
  BY DEF Linked, TypeOK, Space
<1>1. \A s \in Space : \A h \in Handles(s) : At(s, h) \in Item
  BY <1>0, ItemAt
<1>2. ASSUME NEW h \in Handles("func"), NEW r \in KnownRefs, Inject(h, r)
      PROVE  View(t)
  <2> DEFINE old == At("func", h)
             it == [old EXCEPT !.refs = @ \cup {r}]
  <2>1. old \in Item /\ r \in Ref
    BY <1>0, <1>1, RefTypes
  <2>2. it \in Item /\ SameItem(it, old)
    <3> HIDE DEF old
    <3> QED
      BY <2>1 DEF Item, SameItem
  <2>3. Replaced("func", h, it)
    BY <1>0, <1>2, PlacesChanged
  <2> HIDE DEF it
  <2> QED
    BY <1>0, <1>2, <2>2, <2>3, ViewEdit DEF Inject
<1>3. ASSUME NEW h \in Handles("func"), InjectSpecial(h)
      PROVE  View(t)
  <2> DEFINE old == At("func", h)
             it == [old EXCEPT !.special = TRUE]
  <2>1. old \in Item
    BY <1>0, <1>1
  <2>2. it \in Item /\ SameItem(it, old)
    <3> HIDE DEF old
    <3> QED
      BY <2>1 DEF Item, SameItem
  <2>3. Replaced("func", h, it)
    BY <1>0, <1>3, PlacesChanged
  <2> HIDE DEF it
  <2> QED
    BY <1>0, <1>3, <2>2, <2>3, ViewEdit DEF InjectSpecial
<1>4. ASSUME NEW h \in Handles("global"), NEW init \in InitExprs, ModGlobalInitExpr(h, init)
      PROVE  View(t)
  <2> DEFINE old == At("global", h)
             it == [old EXCEPT !.refs = init]
  <2>1. old \in Item /\ init \in SUBSET Ref
    BY <1>0, <1>1, RefTypes
  <2>2. it \in Item /\ SameItem(it, old)
    <3> HIDE DEF old
    <3> QED
      BY <2>1 DEF Item, SameItem
  <2>3. Replaced("global", h, it)
    BY <1>0, <1>4, PlacesChanged
  <2> HIDE DEF it
  <2> QED
    BY <1>0, <1>4, <2>2, <2>3, ViewEdit DEF ModGlobalInitExpr
<1> QED
  BY <1>2, <1>3, <1>4

LEMMA ViewOfStep ==
    ASSUME Linked, Numbered, [Next]_vars, NEW t \in Space
    PROVE  View(t)
<1>0. /\ "func" \in Space /\ "global" \in Space /\ "memory" \in Space
      /\ {} \in SUBSET Ref /\ NoName \in NameOrNone /\ Names \subseteq NameOrNone
      /\ ImportsOK /\ scenario.names \subseteq Names
  BY ScenariosAssumption DEF Space, NameOrNone, Linked, TypeOK, WellFormed
<1>1. ASSUME NEW n \in scenario.names \cup {NoName}, AddLocalFunc(n) \/ AddLocalFuncInComponent(n)
      PROVE  View(t)
  BY <1>0, <1>1, ViewPushLocal DEF AddLocalFunc, AddLocalFuncInComponent
<1>2. ASSUME NEW init \in InitExprs, AddGlobal(init) PROVE View(t)
  <2>1. init \in SUBSET Ref
    BY RefTypes
  <2> QED
    BY <1>0, <1>2, <2>1, ViewPushLocal DEF AddGlobal
<1>3. CASE AddLocalMemory
  BY <1>0, <1>3, ViewPushLocal DEF AddLocalMemory
<1>4. CASE AddImportFunc \/ AddImportMemory \/ AddImportedGlobal
  BY <1>4, ViewAddImportItem, ViewAddImportedGlobal DEF AddImportFunc, AddImportMemory
<1>5. CASE \/ \E h \in Handles("func") : DeleteFunc(h)
           \/ \E h \in Handles("global") : DeleteGlobal(h)
           \/ \E h \in Handles("memory") : DeleteMemory(h)
  BY <1>0, <1>5, ViewDeleteItem DEF DeleteFunc, DeleteGlobal, DeleteMemory
<1>6. CASE \E i \in ImportsIDs : ReplaceImport(i)
  BY <1>6, ViewReplaceImport
<1>7. CASE \E h \in Handles("func") : ConvertLocalFnToImport(h)
  BY <1>7, ViewConvert
<1>8. CASE \/ \E h \in Handles("func"), n \in scenario.names : SetFnName(h, n)
           \/ \E i \in ImportsIDs, n \in scenario.names : SetImportName(i, n)
  BY <1>0, <1>8, ViewSetFnName, ViewSetImportName
<1>9. CASE \/ \E h \in Handles("func"), r \in KnownRefs : Inject(h, r)
           \/ \E h \in Handles("func") : InjectSpecial(h)
           \/ \E h \in Handles("global"), init \in InitExprs : ModGlobalInitExpr(h, init)
  BY <1>9, ViewEdits
<1>10. CASE UNCHANGED <<items, recalc, imports>>
  BY <1>0, <1>10, SeenUnchanged DEF View, Untouched
<1>11. CASE \/ \E h \in Handles("func") : AddExportFunc(h)
            \/ \E h \in Handles("global") : AddExportGlobal(h)
            \/ \E h \in Handles("memory") : AddExportMem(h)
            \/ \E e \in 0 .. Len(exports) - 1 : DeleteExport(e)
            \/ \E h \in Handles("memory"), offset \in InitExprs : AddData(h, offset)
  BY <1>10, <1>11 DEF AddExportFunc, AddExportGlobal, AddExportMem, AddExport, DeleteExport,
                      AddData
<1>12. CASE UNCHANGED vars
  BY <1>10, <1>12 DEF vars
<1> QED
  BY <1>1, <1>2, <1>3, <1>4, <1>5, <1>6, <1>7, <1>8, <1>9, <1>11, <1>12
  DEF Next, OtherEdit

(***************************************************************************)
(* The inductive invariant, space by space.                                *)
(***************************************************************************)
\* Nothing deleted, and the imports before the local items.
InOrder(v) ==
    /\ \A p \in 1 .. Len(v) : ~v[p].deleted
    /\ \A p, q \in 1 .. Len(v) : v[q].kind = "import" /\ p < q => v[p].kind = "import"
\* Every live import of kind s has its live item in the vector v.
NoOrphanIn(v, imps, s) ==
    \A i \in 1 .. Len(imps) : imps[i].kind = s /\ ~imps[i].deleted =>
        \E p \in 1 .. Len(v) : v[p].kind = "import" /\ ~v[p].deleted /\ v[p].imp + 1 = i
\* The vector holds its imports in import-section order.
Ascending(v) ==
    \A p, q \in 1 .. Len(v) :
        v[p].kind = "import" /\ v[q].kind = "import" /\ p < q => v[p].imp < v[q].imp

\* Conversions put the imported functions out of order, and a panic of add_import_func
\* leaves an import without a function; nothing of the sort happens to the other spaces.
SettledIn(t) ==
    /\ recalc[t] \/ InOrder(items[t])
    /\ t # "func" => Ascending(items[t])
    /\ t # "func" \/ panic = NoPanic => NoOrphanIn(items[t], imports, t)
Settled == \A t \in Space : SettledIn(t)

LEMMA SettledInit == Init => Settled
<1> SUFFICES ASSUME Init, NEW t \in Space PROVE SettledIn(t)
  BY DEF Settled
<1> DEFINE m == scenario.module
<1>1. items = m.items /\ imports = m.imports /\ impCount = m.impCount
  BY DEF Init
<1>2. WellParsed(m)
  BY ScenariosAssumption DEF Init, WellFormed
<1> HIDE DEF m
<1>3. /\ items[t] \in Seq(Item) /\ Len(items[t]) \in Nat /\ DOMAIN items[t] = 1 .. Len(items[t])
      /\ impCount[t] \in Nat
      /\ imports \in Seq(Import) /\ DOMAIN imports = 1 .. Len(imports)
  BY <1>1, <1>2 DEF WellParsed
<1>4. \A p \in 1 .. Len(items[t]) :
         /\ ~items[t][p].deleted
         /\ items[t][p].kind = "import" <=> p <= impCount[t]
  BY <1>1, <1>2, <1>3 DEF WellParsed
<1>5. \A p, q \in 1 .. impCount[t] : p < q => items[t][p].imp < items[t][q].imp
  BY <1>1, <1>2 DEF WellParsed
<1>6. \A i \in 1 .. Len(imports) : imports[i].kind = t =>
         \E p \in 1 .. Len(items[t]) : items[t][p].kind = "import" /\ items[t][p].imp = i - 1
  <2> TAKE i \in 1 .. Len(imports)
  <2> HAVE imports[i].kind = t
  <2>1. \A j \in DOMAIN m.imports : m.imports[j].kind \in Space =>
           \E p \in DOMAIN m.items[m.imports[j].kind] :
              /\ m.items[m.imports[j].kind][p].kind = "import"
              /\ m.items[m.imports[j].kind][p].imp = j - 1
    BY <1>2 DEF WellParsed
  <2>2. i \in DOMAIN m.imports /\ m.imports[i].kind = t
    BY <1>1, <1>3
  <2>3. \E p \in DOMAIN m.items[t] : m.items[t][p].kind = "import" /\ m.items[t][p].imp = i - 1
    BY <2>1, <2>2
  <2> QED
    BY <1>1, <1>3, <2>3
<1>7. InOrder(items[t])
  BY <1>3, <1>4 DEF InOrder
<1>8. Ascending(items[t])
  BY <1>3, <1>4, <1>5 DEF Ascending
<1>9. NoOrphanIn(items[t], imports, t)
  <2> SUFFICES ASSUME NEW i \in 1 .. Len(imports), imports[i].kind = t
               PROVE  \E p \in 1 .. Len(items[t]) :
                         /\ items[t][p].kind = "import" /\ ~items[t][p].deleted
                         /\ items[t][p].imp + 1 = i
    BY DEF NoOrphanIn
  <2>1. PICK p \in 1 .. Len(items[t]) :
           items[t][p].kind = "import" /\ items[t][p].imp = i - 1
    BY <1>6
  <2>2. items[t][p].imp + 1 = i
    BY <2>1
  <2> QED
    BY <1>4, <2>1, <2>2
<1> QED
  BY <1>7, <1>8, <1>9 DEF SettledIn

(***************************************************************************)
(* What the views keep of it.  v and w are the vectors before and after.   *)
(***************************************************************************)
LEMMA OrderKept ==
    ASSUME NEW t \in Space, ItemsOK, View(t), recalc[t] \/ InOrder(items[t])
    PROVE  recalc'[t] \/ InOrder(items'[t])
<1>0. Len(items[t]) \in Nat
  BY DEF ItemsOK
<1>1. CASE Untouched(t) \/ Panicked(t)
  BY <1>1 DEF Untouched, Panicked, KeepsItems, SameItem, FlagKept, InOrder
<1>2. CASE LocalAdded(t)
  <2> SUFFICES ASSUME InOrder(items[t]) PROVE InOrder(items'[t])
    BY <1>2 DEF LocalAdded, FlagKept
  <2>1. PICK it \in Item : GrowsBy(t, it) /\ LocalAt(it, Len(items[t]))
    BY <1>2 DEF LocalAdded
  <2>2. \A p \in 1 .. Len(items'[t]) : p = Len(items[t]) + 1 \/ p \in 1 .. Len(items[t])
    BY <1>0, <2>1 DEF GrowsBy
  <2>3. items'[t][Len(items[t]) + 1].kind = "local" /\ ~items'[t][Len(items[t]) + 1].deleted
    BY <2>1 DEF GrowsBy, LocalAt
  <2>4. \A p \in 1 .. Len(items[t]) : SameItem(items'[t][p], items[t][p])
    BY <2>1 DEF GrowsBy
  <2>5. \A p \in 1 .. Len(items'[t]) : ~items'[t][p].deleted
    BY <2>2, <2>3, <2>4 DEF SameItem, InOrder
  <2>6. ASSUME NEW p \in 1 .. Len(items'[t]), NEW q \in 1 .. Len(items'[t]),
               items'[t][q].kind = "import", p < q
        PROVE  items'[t][p].kind = "import"
    <3>1. q \in 1 .. Len(items[t])
      BY <2>2, <2>3, <2>6
    <3>2. p \in 1 .. Len(items[t])
      BY <1>0, <2>6, <3>1
    <3> QED
      BY <2>4, <2>6, <3>1, <3>2 DEF SameItem, InOrder
  <2> QED
    BY <2>5, <2>6 DEF InOrder
<1>3. CASE recalc'[t]
  BY <1>3
<1> QED
  BY <1>1, <1>2, <1>3 DEF View, ImportAdded, ItemDeleted, LocalPut, ImportPut

LEMMA NoOrphanKept ==
    ASSUME NEW t \in Space, Linked, View(t), t # "func" \/ panic' = NoPanic,
           NoOrphanIn(items[t], imports, t)
    PROVE  NoOrphanIn(items'[t], imports', t)
<1>0. /\ Len(items[t]) \in Nat /\ Len(imports) \in Nat /\ items[t] \in Seq(Item)
      /\ \A p \in 1 .. Len(items[t]) : items[t][p] \in Item
  BY DEF Linked, TypeOK, ItemsOK, ImportsOK
<1> SUFFICES ASSUME NEW i \in 1 .. Len(imports'), imports'[i].kind = t, ~imports'[i].deleted
             PROVE  \E p \in 1 .. Len(items'[t]) :
                       /\ items'[t][p].kind = "import" /\ ~items'[t][p].deleted
                       /\ items'[t][p].imp + 1 = i
  BY DEF NoOrphanIn
<1>1. ASSUME i \in 1 .. Len(imports), imports[i].kind = t, ~imports[i].deleted
      PROVE  \E p \in 1 .. Len(items[t]) :
                /\ items[t][p].kind = "import" /\ ~items[t][p].deleted
                /\ items[t][p].imp + 1 = i
  BY <1>1 DEF NoOrphanIn
<1>2. CASE Untouched(t)
  <2>1. i \in 1 .. Len(imports) /\ imports[i].kind = t /\ ~imports[i].deleted
    BY <1>2 DEF Untouched, NoNewImport, KeepsImports, KeepsKinds
  <2> QED
    BY <1>1, <1>2, <2>1 DEF Untouched, KeepsItems, SameItem
<1>3. CASE LocalAdded(t)
  <2>1. i \in 1 .. Len(imports) /\ imports[i].kind = t /\ ~imports[i].deleted
    BY <1>3 DEF LocalAdded, NoNewImport, KeepsImports, KeepsKinds
  <2>2. PICK p \in 1 .. Len(items[t]) :
           /\ items[t][p].kind = "import" /\ ~items[t][p].deleted /\ items[t][p].imp + 1 = i
    BY <1>1, <2>1
  <2>3. SameItem(items'[t][p], items[t][p]) /\ Len(items'[t]) = Len(items[t]) + 1
    BY <1>3 DEF LocalAdded, GrowsBy
  <2>4. p \in 1 .. Len(items'[t])
    BY <1>0, <2>3
  <2> QED
    BY <2>2, <2>3, <2>4 DEF SameItem
<1>4. CASE ImportAdded(t)
  <2>1. PICK it \in Item : GrowsBy(t, it) /\ ImportAt(it, t, Len(items[t]))
    BY <1>4 DEF ImportAdded
  <2>2. CASE i \in 1 .. Len(imports)
    <3>1. imports[i].kind = t /\ ~imports[i].deleted
      BY <1>4, <2>2 DEF ImportAdded, KeepsImports, KeepsKinds
    <3>2. PICK p \in 1 .. Len(items[t]) :
             /\ items[t][p].kind = "import" /\ ~items[t][p].deleted /\ items[t][p].imp + 1 = i
      BY <1>1, <2>2, <3>1
    <3>3. SameItem(items'[t][p], items[t][p]) /\ Len(items'[t]) = Len(items[t]) + 1
      BY <2>1 DEF GrowsBy
    <3>4. p \in 1 .. Len(items'[t])
      BY <1>0, <3>3
    <3> QED
      BY <3>2, <3>3, <3>4 DEF SameItem
  <2>3. CASE i \notin 1 .. Len(imports)
    <3>1. i = Len(imports) + 1
      BY <1>0, <1>4, <2>3 DEF ImportAdded, NewImport
    <3> DEFINE p == Len(items[t]) + 1
    <3>2. p \in 1 .. Len(items'[t]) /\ items'[t][p] = it
      BY <1>0, <2>1 DEF GrowsBy
    <3>3. it.kind = "import" /\ ~it.deleted /\ it.imp + 1 = i
      BY <2>1, <3>1 DEF ImportAt
    <3> QED
      BY <3>2, <3>3
  <2> QED
    BY <2>2, <2>3
<1>5. ASSUME NEW k \in 1 .. Len(items[t]), DropsImport(items[t][k]),
             NEW it, ChangesAt(t, k, it)
      PROVE  \E p \in 1 .. Len(items'[t]) :
                /\ items'[t][p].kind = "import" /\ ~items'[t][p].deleted
                /\ items'[t][p].imp + 1 = i
  <2>1. i \in 1 .. Len(imports) /\ imports[i].kind = t /\ ~imports[i].deleted
    BY <1>5 DEF DropsImport
  <2>2. ~(items[t][k].kind = "import" /\ i = items[t][k].imp + 1)
    BY <1>5, <2>1 DEF DropsImport
  <2>3. PICK p \in 1 .. Len(items[t]) :
           /\ items[t][p].kind = "import" /\ ~items[t][p].deleted /\ items[t][p].imp + 1 = i
    BY <1>1, <2>1
  <2>4. p # k
    BY <2>2, <2>3
  <2> QED
    BY <1>5, <2>3, <2>4 DEF ChangesAt, SameItem
<1>6. ASSUME NEW k \in 1 .. Len(items[t]), ImportPut(t, k)
      PROVE  \E p \in 1 .. Len(items'[t]) :
                /\ items'[t][p].kind = "import" /\ ~items'[t][p].deleted
                /\ items'[t][p].imp + 1 = i
  <2>1. PICK it \in Item : ChangesAt(t, k, it) /\ ImportAt(it, t, k - 1)
    BY <1>6 DEF ImportPut
  <2>2. CASE i \in 1 .. Len(imports)
    <3>1. imports[i].kind = t /\ ~imports[i].deleted
      BY <1>6, <2>2 DEF ImportPut, KeepsImports, KeepsKinds
    <3>2. PICK p \in 1 .. Len(items[t]) :
             /\ items[t][p].kind = "import" /\ ~items[t][p].deleted /\ items[t][p].imp + 1 = i
      BY <1>1, <2>2, <3>1
    <3>3. p # k
      BY <1>6, <3>2 DEF ImportPut
    <3> QED
      BY <2>1, <3>2, <3>3 DEF ChangesAt, SameItem
  <2>3. CASE i \notin 1 .. Len(imports)
    <3>1. i = Len(imports) + 1
      BY <1>0, <1>6, <2>3 DEF ImportPut, NewImport
    <3>2. k \in 1 .. Len(items'[t]) /\ items'[t][k] = it
      BY <2>1 DEF ChangesAt
    <3>3. it.kind = "import" /\ ~it.deleted /\ it.imp + 1 = i
      BY <2>1, <3>1 DEF ImportAt
    <3> QED
      BY <3>2, <3>3
  <2> QED
    BY <2>2, <2>3
<1> QED
  BY <1>2, <1>3, <1>4, <1>5, <1>6 DEF View, Panicked, ItemDeleted, LocalPut

LEMMA AscendingKept ==
    ASSUME NEW t \in Space \ {"func"}, Linked, View(t), Ascending(items[t])
    PROVE  Ascending(items'[t])
<1>0. /\ Len(items[t]) \in Nat /\ Len(imports) \in Nat
      /\ \A p \in 1 .. Len(items[t]) : items[t][p] \in Item
  BY DEF Linked, TypeOK, ItemsOK, ImportsOK
<1>1. \A p \in 1 .. Len(items[t]) :
         items[t][p].kind = "import" => items[t][p].imp \in 0 .. Len(imports) - 1
  BY LinksBySpace DEF Linked, TypeOK, LinkedIn
<1> SUFFICES ASSUME NEW p \in 1 .. Len(items'[t]), NEW q \in 1 .. Len(items'[t]),
                    items'[t][p].kind = "import", items'[t][q].kind = "import", p < q
             PROVE  items'[t][p].imp < items'[t][q].imp
  BY DEF Ascending
<1>2. ASSUME \A r \in 1 .. Len(items'[t]) :
                /\ r \in 1 .. Len(items[t])
                /\ items'[t][r].kind = items[t][r].kind /\ items'[t][r].imp = items[t][r].imp
      PROVE  items'[t][p].imp < items'[t][q].imp
  BY <1>2 DEF Ascending
<1>3. CASE Untouched(t)
  BY <1>2, <1>3 DEF Untouched, KeepsItems, SameItem
<1>4. CASE \E k \in 1 .. Len(items[t]) : ItemDeleted(t, k)
  BY <1>2, <1>4 DEF ItemDeleted, ChangesAt, SameItem
<1>5. ASSUME NEW it, GrowsBy(t, it), it.kind = "import" => it.imp = Len(imports)
      PROVE  items'[t][p].imp < items'[t][q].imp
  <2>1. \A r \in 1 .. Len(items'[t]) : r = Len(items[t]) + 1 \/ r \in 1 .. Len(items[t])
    BY <1>0, <1>5 DEF GrowsBy
  <2>2. p \in 1 .. Len(items[t])
    BY <1>0, <1>5, <2>1 DEF GrowsBy
  <2>3. items[t][p].kind = "import" /\ items'[t][p].imp = items[t][p].imp
    BY <1>5, <2>2 DEF GrowsBy, SameItem
  <2>4. CASE q \in 1 .. Len(items[t])
    BY <1>5, <2>2, <2>3, <2>4 DEF GrowsBy, SameItem, Ascending
  <2>5. CASE q = Len(items[t]) + 1
    <3>1. items'[t][q].imp = Len(imports)
      BY <1>5, <2>5 DEF GrowsBy
    <3> QED
      BY <1>0, <1>1, <2>2, <2>3, <3>1
  <2> QED
    BY <2>1, <2>4, <2>5
<1>6. CASE LocalAdded(t)
  BY <1>5, <1>6 DEF LocalAdded, LocalAt
<1>7. CASE ImportAdded(t)
  BY <1>5, <1>7 DEF ImportAdded, ImportAt
<1> QED
  BY <1>3, <1>4, <1>6, <1>7 DEF View, Panicked, LocalPut, ImportPut

\* A panic ends the program.
LEMMA PanicIsLast == [Next]_vars /\ panic # NoPanic => UNCHANGED vars
BY DEF Next, OtherEdit, Room, AddLocalFunc, AddLocalFuncInComponent, AddGlobal, AddLocalMemory,
       AddImportFunc, AddImportMemory, AddImportItem, AddImportedGlobal, DeleteFunc,
       DeleteGlobal, DeleteMemory, DeleteItem, ReplaceImport, ConvertLocalFnToImport,
       SetFnName, SetImportName, Inject, InjectSpecial, ModGlobalInitExpr, AddExportFunc, AddExportGlobal,
       AddExportMem, AddExport, DeleteExport, AddData

LEMMA SettledNext == Linked /\ Numbered /\ Settled /\ [Next]_vars => Settled'
<1> SUFFICES ASSUME Linked, Numbered, Settled, [Next]_vars, NEW t \in Space
             PROVE  SettledIn(t)'
  BY DEF Settled
<1>1. View(t) /\ SettledIn(t) /\ ItemsOK
  BY ViewOfStep DEF Settled, Linked, TypeOK
<1>2. recalc'[t] \/ InOrder(items'[t])
  BY <1>1, OrderKept DEF SettledIn
<1>3. t # "func" => Ascending(items'[t])
  BY <1>1, AscendingKept DEF SettledIn
<1>4. ASSUME t # "func" \/ panic' = NoPanic PROVE NoOrphanIn(items'[t], imports', t)
  <2>1. t # "func" \/ panic = NoPanic
    BY <1>4, PanicIsLast DEF vars
  <2> QED
    BY <1>1, <1>4, <2>1, NoOrphanKept DEF SettledIn
<1> QED
  BY <1>2, <1>3, <1>4 DEF SettledIn, InOrder, Ascending, NoOrphanIn

(***************************************************************************)
(* The whole invariant of the module, for the theorems about its states.   *)
(***************************************************************************)
ModuleInv == Linked /\ Numbered /\ Settled

LEMMA ModuleInvInit == Init => ModuleInv
BY LinkedInit, NumberedInit, SettledInit DEF ModuleInv

LEMMA ModuleInvNext == ModuleInv /\ [Next]_vars => ModuleInv'
BY LinkedNext, NumberedNext, SettledNext DEF ModuleInv

LEMMA ModuleInvHolds == Spec => []ModuleInv
BY ModuleInvInit, ModuleInvNext, PTL DEF Spec

\* No live import is left without a live item of its own (delete_func, delete_global,
\* delete_memory, convert_import_fn_to_local and convert_local_fn_to_import keep both
\* sides): the encoder writes every import that is not marked deleted.
THEOREM NoOrphanImportHolds == Spec => []NoOrphanImport
<1>1. ASSUME ModuleInv, panic = NoPanic, NEW i \in 0 .. Len(imports) - 1,
             imports[i + 1].kind \in Space, ~imports[i + 1].deleted
      PROVE  \E h \in Handles(imports[i + 1].kind) :
                /\ LiveImport(At(imports[i + 1].kind, h))
                /\ At(imports[i + 1].kind, h).imp = i
  <2> DEFINE s == imports[i + 1].kind
  <2>1. ItemsOK /\ Len(imports) \in Nat /\ NoOrphanIn(items[s], imports, s) /\ s \in Space
    BY <1>1 DEF ModuleInv, Linked, TypeOK, ImportsOK, Settled, SettledIn
  <2>2. i + 1 \in 1 .. Len(imports) /\ i \in Int
    BY <2>1
  <2>3. PICK p \in 1 .. Len(items[s]) :
           /\ items[s][p].kind = "import" /\ ~items[s][p].deleted
           /\ items[s][p].imp + 1 = i + 1
    BY <1>1, <2>1, <2>2 DEF NoOrphanIn
  <2> HIDE DEF s
  <2>4. Len(items[s]) \in Nat /\ items[s][p] \in Item
    BY <2>1 DEF ItemsOK
  <2>5. p - 1 \in Handles(s) /\ At(s, p - 1) = items[s][p]
    BY <2>4 DEF Handles, At
  <2>6. items[s][p].imp = i
    BY <2>2, <2>3, <2>4 DEF Item, NoId
  <2>7. LiveImport(At(s, p - 1)) /\ At(s, p - 1).imp = i
    BY <2>3, <2>5, <2>6 DEF LiveImport, IsImport
  <2> QED
    BY <2>5, <2>7 DEF s
<1>2. ModuleInv => NoOrphanImport
  BY <1>1 DEF NoOrphanImport, ImportsIDs
<1> QED
  BY <1>2, ModuleInvHolds, PTL

\* recalculate_ids is set by whatever takes a vector out of binary order: without it no
\* item is deleted and the imports stand before the local items.
THEOREM RecalcWhenNeededHolds == Spec => []RecalcWhenNeeded
<1>1. ASSUME ModuleInv, NEW s \in Space, ~recalc[s]
      PROVE  /\ \A h \in Handles(s) : ~At(s, h).deleted
             /\ \A h, k \in Handles(s) : IsImport(At(s, k)) /\ h < k => IsImport(At(s, h))
  <2>1. InOrder(items[s]) /\ Len(items[s]) \in Nat
    BY <1>1 DEF ModuleInv, Settled, SettledIn, Linked, TypeOK, ItemsOK
  <2>2. \A h \in Handles(s) : h \in Int /\ h + 1 \in 1 .. Len(items[s])
    BY <2>1 DEF Handles
  <2>3. \A h, k \in Handles(s) : h < k => h + 1 < k + 1
    BY <2>2
  <2> QED
    BY <2>1, <2>2, <2>3 DEF InOrder, At, IsImport
<1>2. ModuleInv => RecalcWhenNeeded
  BY <1>1 DEF RecalcWhenNeeded
<1> QED
  BY <1>2, ModuleInvHolds, PTL

(***************************************************************************)
(* The ID that add_import computes for a space without local items, where  *)
(* it counts the imports: the slot the import is about to take, unless a   *)
(* function has replaced an import and left the count behind.              *)
(***************************************************************************)
\* ReplacedImport("func") and its negation's consequence, by position in the vector.
ReplacedIn(v, imps) ==
    \E i \in 1 .. Len(imps) :
        /\ imps[i].kind = "func"
        /\ \A p \in 1 .. Len(v) : ~(v[p].kind = "import" /\ v[p].imp + 1 = i)
OnlyImports(v) == \A p \in 1 .. Len(v) : v[p].kind = "import"

Slots ==
    panic = NoPanic /\ numLocal["func"] = 0 =>
        \/ ReplacedIn(items["func"], imports)
        \/ OnlyImports(items["func"]) /\ impCount["func"] = Len(items["func"])

LEMMA ReplacedByPosition ==
    ASSUME TypeOK, ReplacedIn(items["func"], imports)
    PROVE  ReplacedImport("func")
<1>1. Len(items["func"]) \in Nat /\ Len(imports) \in Nat
  BY DEF TypeOK, ItemsOK, ImportsOK, Space
<1>2. PICK i \in 1 .. Len(imports) :
         /\ imports[i].kind = "func"
         /\ \A p \in 1 .. Len(items["func"]) :
               ~(items["func"][p].kind = "import" /\ items["func"][p].imp + 1 = i)
  BY DEF ReplacedIn
<1>3. i - 1 \in ImportsIDs /\ (i - 1) + 1 = i
  BY <1>1 DEF ImportsIDs
<1>4. ASSUME NEW h \in Handles("func"), IsImport(At("func", h)), At("func", h).imp = i - 1
      PROVE  FALSE
  <2>1. h + 1 \in 1 .. Len(items["func"]) /\ items["func"][h + 1].imp + 1 = i
    BY <1>1, <1>4 DEF Handles, At
  <2> QED
    BY <1>2, <1>4, <2>1 DEF IsImport, At
<1> QED
  BY <1>2, <1>3, <1>4 DEF ReplacedImport

LEMMA DropsOneImport ==
    ASSUME NEW x, DropsImport(x)
    PROVE  /\ Len(imports') = Len(imports)
           /\ \A i \in 1 .. Len(imports) : imports'[i].kind = imports[i].kind
BY Zenon DEF DropsImport

\* No step brings back an import that was replaced.
LEMMA ReplacedStays ==
    ASSUME TypeOK, ImportsOK', View("func"), ReplacedIn(items["func"], imports)
    PROVE  ReplacedIn(items'["func"], imports')
<1> DEFINE v == items["func"]
           w == items'["func"]
<1>0. Len(imports') \in Nat
  BY DEF ImportsOK
<1>1. Len(v) \in Nat /\ Len(imports) \in Nat
  BY DEF TypeOK, ItemsOK, ImportsOK, Space
<1>2. PICK i \in 1 .. Len(imports) :
         /\ imports[i].kind = "func"
         /\ \A p \in 1 .. Len(v) : ~(v[p].kind = "import" /\ v[p].imp + 1 = i)
  BY DEF ReplacedIn
<1>3. SUFFICES \A p \in 1 .. Len(w) : ~(w[p].kind = "import" /\ w[p].imp + 1 = i)
  <2>1. KeepsKinds \/ \E k \in 1 .. Len(v) : DropsImport(v[k])
    BY DEF View, Untouched, LocalAdded, ImportAdded, Panicked, ItemDeleted, LocalPut, ImportPut,
           KeepsImports
  <2>2. Len(imports) <= Len(imports') /\ imports'[i].kind = imports[i].kind
    <3>1. CASE KeepsKinds
      BY <1>1, <3>1 DEF KeepsKinds
    <3>2. ASSUME NEW k \in 1 .. Len(v), DropsImport(v[k])
          PROVE  Len(imports) <= Len(imports') /\ imports'[i].kind = imports[i].kind
      BY <1>1, <3>2, DropsOneImport
    <3> QED
      BY <2>1, <3>1, <3>2
  <2>3. i \in 1 .. Len(imports')
    <3>1. Len(imports') \in Nat
      BY <1>0
    <3> QED
      BY <1>1, <2>2, <3>1
  <2> QED
    BY <1>2, <2>2, <2>3 DEF ReplacedIn
<1>4. \A p \in 1 .. Len(v) : SameItem(w[p], v[p]) => ~(w[p].kind = "import" /\ w[p].imp + 1 = i)
  BY <1>2 DEF SameItem
<1>5. CASE Untouched("func") \/ Panicked("func")
  BY <1>4, <1>5 DEF Untouched, Panicked, KeepsItems
<1>6. ASSUME NEW it \in Item, GrowsBy("func", it), it.kind = "local" \/ it.imp = Len(imports)
      PROVE  \A p \in 1 .. Len(w) : ~(w[p].kind = "import" /\ w[p].imp + 1 = i)
  <2> TAKE p \in 1 .. Len(w)
  <2>1. p \in 1 .. Len(v) \/ p = Len(v) + 1
    BY <1>1, <1>6 DEF GrowsBy
  <2>2. CASE p \in 1 .. Len(v)
    BY <1>4, <1>6, <2>2 DEF GrowsBy
  <2>3. CASE p = Len(v) + 1
    BY <1>1, <1>6, <2>3 DEF GrowsBy
  <2> QED
    BY <2>1, <2>2, <2>3
<1>7. ASSUME NEW k \in 1 .. Len(v), NEW it \in Item, ChangesAt("func", k, it),
             \/ it.kind = "local" \/ it.imp = Len(imports)
             \/ it.kind = v[k].kind /\ it.imp = v[k].imp
      PROVE  \A p \in 1 .. Len(w) : ~(w[p].kind = "import" /\ w[p].imp + 1 = i)
  <2> TAKE p \in 1 .. Len(w)
  <2>1. p \in 1 .. Len(v)
    BY <1>7 DEF ChangesAt
  <2>2. CASE p # k
    BY <1>4, <1>7, <2>1, <2>2 DEF ChangesAt
  <2>3. CASE p = k
    <3>1. w[p] = it
      BY <1>7, <2>3 DEF ChangesAt
    <3> QED
      BY <1>1, <1>2, <1>7, <2>3, <3>1
  <2> QED
    BY <2>2, <2>3
<1> QED
  BY <1>5, <1>6, <1>7
  DEF View, LocalAdded, ImportAdded, ItemDeleted, LocalPut, ImportPut, LocalAt, ImportAt

\* What a step does to the counters of the functions.
CountsKept == numLocal'["func"] = numLocal["func"] /\ impCount'["func"] = impCount["func"]
FuncCounters ==
    \/ numLocal'["func"] > 0
    \/ CountsKept /\ Len(items'["func"]) = Len(items["func"])
    \/ /\ numLocal'["func"] = numLocal["func"] /\ NewImport("func")
       /\ impCount'["func"] = impCount["func"] + 1
       /\ Len(items'["func"]) = Len(items["func"]) + 1
    \/ /\ numLocal'["func"] = numLocal["func"]
       /\ \E p \in 1 .. Len(items["func"]) : items["func"][p].kind = "local"
    \/ panic' # NoPanic

LEMMA SlotsStep ==
    ASSUME Linked, ImportsOK', View("func"), FuncCounters, panic = NoPanic, Slots
    PROVE  Slots'
<1> DEFINE v == items["func"]
           w == items'["func"]
<1> SUFFICES ASSUME panic' = NoPanic, numLocal'["func"] = 0,
                    ~ReplacedIn(w, imports')
             PROVE  OnlyImports(w) /\ impCount'["func"] = Len(w)
  BY DEF Slots, ReplacedIn, OnlyImports
<1>0. TypeOK /\ ImportLinksOK /\ Len(v) \in Nat /\ Len(imports) \in Nat
  BY DEF Linked, TypeOK, ItemsOK, ImportsOK, Space
<1>1. ~ReplacedIn(v, imports)
  BY <1>0, ReplacedStays
<1>2. numLocal["func"] = 0
  <2>1. numLocal'["func"] = numLocal["func"]
    BY DEF FuncCounters, CountsKept
  <2> QED
    BY <2>1
<1>3. OnlyImports(v) /\ impCount["func"] = Len(v)
  BY <1>1, <1>2 DEF Slots
<1>4. \/ impCount'["func"] = impCount["func"] /\ Len(w) = Len(v)
      \/ /\ impCount'["func"] = impCount["func"] + 1 /\ Len(w) = Len(v) + 1
         /\ NewImport("func")
  BY <1>3 DEF FuncCounters, CountsKept, OnlyImports
<1>5. impCount'["func"] = Len(w)
  BY <1>3, <1>4
<1>6. ASSUME NEW k \in 1 .. Len(v), LocalPut("func", k) PROVE FALSE
  <2>1. PICK it \in Item : ChangesAt("func", k, it) /\ it.kind = "local"
    BY <1>6 DEF LocalPut, LocalAt
  <2>2. /\ \A p \in 1 .. Len(v) : p # k => w[p].imp = v[p].imp /\ w[p].kind = v[p].kind
        /\ w[k].kind = "local" /\ Len(w) = Len(v)
    BY <2>1 DEF ChangesAt, SameItem
  <2>3. /\ v[k].imp \in 0 .. Len(imports) - 1 /\ imports[v[k].imp + 1].kind = "func"
        /\ \A p \in 1 .. Len(v) : v[p].kind = "import" /\ v[p].imp = v[k].imp => p = k
        /\ \A p \in 1 .. Len(v) : v[p].kind = "import" => v[p].imp \in 0 .. Len(imports) - 1
    <3>1. LinkedIn(v, imports, "func")
      BY <1>0, LinksBySpace DEF Space, TypeOK
    <3> HIDE DEF v, w
    <3> QED
      BY <1>3, <3>1 DEF LinkedIn, OnlyImports
  <2> DEFINE i == v[k].imp + 1
  <2>4. Len(imports') = Len(imports) /\ i \in 1 .. Len(imports') /\ imports'[i].kind = "func"
    <3>1. DropsImport(v[k])
      BY <1>6 DEF LocalPut
    <3>2. /\ Len(imports') = Len(imports)
          /\ \A j \in 1 .. Len(imports) : imports'[j].kind = imports[j].kind
      BY <3>1, DropsOneImport
    <3> HIDE DEF v, w
    <3> QED
      BY <1>0, <2>3, <3>2
  <2>5. ASSUME NEW p \in 1 .. Len(w), w[p].kind = "import", w[p].imp + 1 = i PROVE FALSE
    <3> HIDE DEF v, w
    <3>1. p \in 1 .. Len(v) /\ p # k
      BY <2>2, <2>5
    <3>2. v[p].kind = "import" /\ v[p].imp + 1 = v[k].imp + 1
      BY <2>2, <2>5, <3>1
    <3>3. v[p].imp = v[k].imp
      <4>1. v[p].imp \in Int /\ v[k].imp \in Int
        <5>1. Len(imports) \in Nat
          BY <1>0
        <5> QED
          BY <2>3, <3>1, <3>2, <5>1
      <4> QED
        BY <3>2, <4>1
    <3> QED
      BY <2>3, <3>1, <3>2, <3>3
  <2> QED
    BY <2>4, <2>5 DEF ReplacedIn
<1>7. ASSUME NEW k \in 1 .. Len(v), ItemDeleted("func", k) PROVE OnlyImports(w)
  <2>1. PICK it \in Item : ChangesAt("func", k, it) /\ it.kind = v[k].kind
    BY <1>7 DEF ItemDeleted
  <2>2. Len(w) = Len(v) /\ w[k] = it /\ \A p \in 1 .. Len(v) : p # k => w[p].kind = v[p].kind
    BY <2>1 DEF ChangesAt, SameItem
  <2> HIDE DEF v, w
  <2> QED
    BY <1>3, <2>1, <2>2 DEF OnlyImports
<1>8. CASE Untouched("func")
  BY <1>3, <1>5, <1>8 DEF Untouched, KeepsItems, SameItem, OnlyImports
<1>9. CASE ImportAdded("func")
  <2>1. PICK it \in Item : GrowsBy("func", it) /\ it.kind = "import"
    BY <1>9 DEF ImportAdded, ImportAt
  <2>2. \A p \in 1 .. Len(w) : p \in 1 .. Len(v) \/ p = Len(v) + 1
    BY <1>0, <2>1 DEF GrowsBy
  <2> QED
    <3>1. w[Len(v) + 1] = it /\ \A p \in 1 .. Len(v) : w[p].kind = v[p].kind
      BY <2>1 DEF GrowsBy, SameItem
    <3> HIDE DEF v, w
    <3> QED
      BY <1>3, <1>5, <2>1, <2>2, <3>1 DEF OnlyImports
<1>10. CASE LocalAdded("func")
  <2>1. Len(w) = Len(v) + 1 /\ NoNewImport("func")
    BY <1>10 DEF LocalAdded, GrowsBy
  <2>2. NewImport("func")
    BY <1>0, <1>4, <2>1
  <2>3. Len(imports) + 1 \in 1 .. Len(imports') /\ Len(imports) + 1 \notin 1 .. Len(imports)
    BY <1>0, <2>2 DEF NewImport
  <2> QED
    BY <2>1, <2>2, <2>3 DEF NoNewImport, NewImport
<1>11. ASSUME NEW k \in 1 .. Len(v), ImportPut("func", k) PROVE FALSE
  BY <1>3, <1>11 DEF ImportPut, OnlyImports
<1> QED
  BY <1>5, <1>6, <1>7, <1>8, <1>9, <1>10, <1>11 DEF View, Panicked

LEMMA ReplacedLength ==
    ASSUME ItemsOK, NEW s \in Space, NEW h \in Handles(s), NEW x, Replaced(s, h, x)
    PROVE  Len(items'["func"]) = Len(items["func"])
<1>1. items[s] \in Seq(Item) /\ h + 1 \in 1 .. Len(items[s])
  BY ItemAt DEF ItemsOK
<1>2. items[s] \in Seq(Item \cup {x}) /\ x \in Item \cup {x}
  BY <1>1
<1>3. Len([items[s] EXCEPT ![h + 1] = x]) = Len(items[s])
  BY <1>1, <1>2, UpdateFacts
<1>4. items'[s] = [items[s] EXCEPT ![h + 1] = x] /\ \A t \in Space \ {s} : items'[t] = items[t]
  BY DEF ItemsOK, Replaced
<1> QED
  BY <1>3, <1>4 DEF Space

\* Each operation, by what it does to the counters of the functions.
LEMMA FuncCountersOfStep ==
    ASSUME Linked, [Next]_vars
    PROVE  FuncCounters
<1>0. /\ "func" \in Space /\ "global" \in Space /\ "memory" \in Space
      /\ TypeOK /\ ItemsOK /\ ImportsOK
      /\ numLocal \in [Space -> Nat] /\ impCount \in [Space -> Nat]
  BY DEF Space, Linked, TypeOK
<1>1. CASE UNCHANGED <<items, numLocal, impCount>>
  BY <1>1 DEF FuncCounters, CountsKept
<1>2. ASSUME NEW n, AddLocalFunc(n) \/ AddLocalFuncInComponent(n)
      PROVE  FuncCounters
  <2>1. numLocal' = [numLocal EXCEPT !["func"] = @ + 1]
    BY <1>2 DEF AddLocalFunc, AddLocalFuncInComponent, PushLocal
  <2> QED
    BY <1>0, <2>1 DEF FuncCounters
<1>3. CASE AddImportFunc
  <2>1. CASE panic' # NoPanic
    BY <2>1 DEF FuncCounters
  <2>2. CASE panic' = NoPanic
    <3> DEFINE it == ImportItem(NextImportId("func"), Len(imports))
    <3>1. it \in Item
      <4>1. NextImportId("func") \in Nat /\ Len(imports) \in Nat
        BY <1>0 DEF NextImportId, ItemsOK, ImportsOK
      <4> QED
        BY <4>1, ConstructorTypes
    <3>2. /\ items'["func"] = Append(items["func"], it)
          /\ impCount'["func"] = impCount["func"] + 1 /\ numLocal' = numLocal
      BY <1>0, <1>3, <2>2 DEF AddImportFunc, AddImportItem, PushImport, ItemsOK
    <3>3. Len(items'["func"]) = Len(items["func"]) + 1
      <4> HIDE DEF it
      <4> QED
        BY <1>0, <3>1, <3>2, AppendFacts DEF ItemsOK
    <3>4. NewImport("func")
      BY <1>0, <1>3, SeenPushImport DEF AddImportFunc, AddImportItem
    <3> QED
      BY <3>2, <3>3, <3>4 DEF FuncCounters
  <2> QED
    BY <2>1, <2>2
<1>4. ASSUME NEW init, AddGlobal(init) PROVE FuncCounters
  <2>1. /\ items'["func"] = items["func"] /\ numLocal'["func"] = numLocal["func"]
        /\ impCount' = impCount
    BY <1>0, <1>4 DEF AddGlobal, PushLocal, ItemsOK
  <2> QED
    BY <2>1 DEF FuncCounters, CountsKept
<1>5. CASE AddLocalMemory
  <2>1. /\ items'["func"] = items["func"] /\ numLocal'["func"] = numLocal["func"]
        /\ impCount' = impCount
    BY <1>0, <1>5 DEF AddLocalMemory, PushLocal, ItemsOK
  <2> QED
    BY <2>1 DEF FuncCounters, CountsKept
<1>6. CASE AddImportMemory \/ AddImportedGlobal
  <2>1. /\ items'["func"] = items["func"] /\ numLocal'["func"] = numLocal["func"]
        /\ impCount'["func"] = impCount["func"]
    BY <1>0, <1>6
    DEF AddImportMemory, AddImportItem, AddImportedGlobal, PushImport, ItemsOK
  <2> QED
    BY <2>1 DEF FuncCounters, CountsKept
<1>7. ASSUME NEW s \in Space, NEW h \in Handles(s), DeleteItem(s, h) PROVE FuncCounters
  <2>1. Replaced(s, h, [At(s, h) EXCEPT !.deleted = TRUE])
    BY <1>0, <1>7, PlacesChanged
  <2>2. Len(items'["func"]) = Len(items["func"])
    BY <1>0, <2>1, ReplacedLength
  <2> QED
    BY <1>7, <2>2 DEF FuncCounters, CountsKept, DeleteItem
<1>8. ASSUME NEW i \in ImportsIDs, ReplaceImport(i) PROVE FuncCounters
  <2>1. CASE i \notin Handles("func")
    BY <1>8, <2>1 DEF ReplaceImport, FuncCounters, NoPanic
  <2>2. CASE i \in Handles("func")
    <3>1. Replaced("func", i, LocalItem(i, {}, ImportName))
      BY <1>8, <2>2 DEF ReplaceImport, Replaced
    <3>2. Len(items'["func"]) = Len(items["func"])
      BY <1>0, <2>2, <3>1, ReplacedLength
    <3> QED
      BY <1>8, <3>2 DEF FuncCounters, CountsKept, ReplaceImport
  <2> QED
    BY <2>1, <2>2
<1>9. ASSUME NEW h \in Handles("func"), ConvertLocalFnToImport(h) PROVE FuncCounters
  <2>1. h + 1 \in 1 .. Len(items["func"]) /\ items["func"][h + 1].kind = "local"
    BY <1>0, <1>9, ItemAt DEF ConvertLocalFnToImport, IsLocal, At
  <2> QED
    BY <1>9, <2>1 DEF FuncCounters, ConvertLocalFnToImport
<1>10. ASSUME NEW h \in Handles("func"), NEW n, SetFnName(h, n) PROVE FuncCounters
  <2>1. CASE UNCHANGED items
    BY <1>1, <1>10, <2>1 DEF SetFnName
  <2>2. CASE items' = [items EXCEPT !["func"][h + 1].name = n]
    <3>1. Replaced("func", h, [At("func", h) EXCEPT !.name = n])
      BY <1>0, <2>2 DEF Replaced, At, ItemsOK
    <3>2. Len(items'["func"]) = Len(items["func"])
      BY <1>0, <3>1, ReplacedLength
    <3> QED
      BY <1>10, <3>2 DEF FuncCounters, CountsKept, SetFnName
  <2>3. UNCHANGED items \/ items' = [items EXCEPT !["func"][h + 1].name = n]
    BY <1>10, Zenon DEF SetFnName
  <2> QED
    BY <2>1, <2>2, <2>3
<1>11. ASSUME NEW h \in Handles("func"), NEW r \in KnownRefs, Inject(h, r) PROVE FuncCounters
  <2>1. Replaced("func", h, [At("func", h) EXCEPT !.refs = @ \cup {r}])
    BY <1>0, <1>11, PlacesChanged
  <2>2. Len(items'["func"]) = Len(items["func"])
    BY <1>0, <2>1, ReplacedLength
  <2> QED
    BY <1>11, <2>2 DEF FuncCounters, CountsKept, Inject
<1>12. ASSUME NEW h \in Handles("func"), InjectSpecial(h) PROVE FuncCounters
  <2>1. Replaced("func", h, [At("func", h) EXCEPT !.special = TRUE])
    BY <1>0, <1>12, PlacesChanged
  <2>2. Len(items'["func"]) = Len(items["func"])
    BY <1>0, <2>1, ReplacedLength
  <2> QED
    BY <1>12, <2>2 DEF FuncCounters, CountsKept, InjectSpecial
<1>13. ASSUME NEW h \in Handles("global"), NEW init \in InitExprs, ModGlobalInitExpr(h, init)
       PROVE  FuncCounters
  <2>1. Replaced("global", h, [At("global", h) EXCEPT !.refs = init])
    BY <1>0, <1>13, PlacesChanged
  <2>2. Len(items'["func"]) = Len(items["func"])
    BY <1>0, <2>1, ReplacedLength
  <2> QED
    BY <1>13, <2>2 DEF FuncCounters, CountsKept, ModGlobalInitExpr
<1>14. CASE \/ \E i \in ImportsIDs, n \in scenario.names : SetImportName(i, n)
            \/ \E h \in Handles("func") : AddExportFunc(h)
            \/ \E h \in Handles("global") : AddExportGlobal(h)
            \/ \E h \in Handles("memory") : AddExportMem(h)
            \/ \E e \in 0 .. Len(exports) - 1 : DeleteExport(e)
            \/ \E h \in Handles("memory"), offset \in InitExprs : AddData(h, offset)
            \/ UNCHANGED vars
  BY <1>1, <1>14 DEF SetImportName, AddExportFunc, AddExportGlobal, AddExportMem, AddExport,
                     DeleteExport, AddData, vars
<1> QED
  BY <1>0, <1>2, <1>3, <1>4, <1>5, <1>6, <1>7, <1>8, <1>9, <1>10, <1>11, <1>12, <1>13, <1>14
  DEF Next, OtherEdit, DeleteFunc, DeleteGlobal, DeleteMemory

LEMMA SlotsInit == Init => Slots
<1> SUFFICES ASSUME Init, numLocal["func"] = 0
             PROVE  OnlyImports(items["func"]) /\ impCount["func"] = Len(items["func"])
  BY DEF Slots
<1> DEFINE m == scenario.module
<1>1. items = m.items /\ impCount = m.impCount /\ numLocal = m.numLocal
  BY DEF Init
<1>2. WellParsed(m)
  BY ScenariosAssumption DEF Init, WellFormed
<1> HIDE DEF m
<1>3. /\ "func" \in Space /\ items["func"] \in Seq(Item) /\ impCount["func"] \in Nat
      /\ Len(items["func"]) = impCount["func"] + numLocal["func"]
      /\ \A p \in DOMAIN items["func"] : items["func"][p].kind = "import" <=> p <= impCount["func"]
  BY <1>1, <1>2 DEF WellParsed, Space
<1>4. DOMAIN items["func"] = 1 .. Len(items["func"])
  BY <1>3
<1> QED
  BY <1>3, <1>4 DEF OnlyImports

\* Module::add_import computes the slot the import is about to take, for every space and
\* through every sequence of operations, also where a module has no local function and it
\* counts imports instead; only a function that has replaced an import breaks it.
THEOREM NextIdIsNextSlotHolds == Spec => []NextIdIsNextSlot
<1> DEFINE Inv == ModuleInv /\ Slots
<1>1. Init => Inv
  BY ModuleInvInit, SlotsInit
<1>2. Inv /\ [Next]_vars => Inv'
  <2> SUFFICES ASSUME ModuleInv, Slots, [Next]_vars PROVE ModuleInv' /\ Slots'
    OBVIOUS
  <2>1. ModuleInv'
    BY ModuleInvNext
  <2>2. CASE panic # NoPanic
    <3>1. panic' = panic
      BY <2>2, PanicIsLast DEF vars
    <3> QED
      BY <2>1, <2>2, <3>1 DEF Slots
  <2>3. CASE panic = NoPanic
    <3>1. ImportsOK' /\ Linked /\ Numbered /\ "func" \in Space
      BY <2>1 DEF ModuleInv, Linked, TypeOK, Space
    <3>2. View("func") /\ FuncCounters
      BY <3>1, ViewOfStep, FuncCountersOfStep
    <3>3. Slots'
      BY <2>3, <3>1, <3>2, SlotsStep
    <3> QED
      BY <2>1, <3>3
  <2> QED
    BY <2>1, <2>2, <2>3
<1>3. Inv => NextIdIsNextSlot
  <2> SUFFICES ASSUME ModuleInv, Slots, panic = NoPanic, NEW s \in Space
               PROVE  \/ NextImportId(s) = Len(items[s])
                      \/ numLocal[s] = 0 /\ ReplacedImport(s)
    BY DEF NextIdIsNextSlot
  <2>0. Linked /\ TypeOK /\ numLocal[s] \in Nat
    BY DEF ModuleInv, Linked, TypeOK
  <2>1. CASE s \in {"global", "memory"}
    BY <2>0, <2>1, NextIdFromCounts DEF ModuleInv, Numbered
  <2>2. CASE s = "func" /\ numLocal["func"] > 0
    BY <2>2 DEF NextImportId
  <2>3. CASE s = "func" /\ numLocal["func"] = 0
    BY <2>0, <2>3, ReplacedByPosition DEF Slots, NextImportId
  <2> QED
    BY <2>0, <2>1, <2>2, <2>3 DEF Space
<1> QED
  BY <1>1, <1>2, <1>3, PTL DEF Spec
=============================================================================
