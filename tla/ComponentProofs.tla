--------------------------- MODULE ComponentProofs --------------------------
(***************************************************************************)
(* The ids of the component API, for every binary and every client: they   *)
(* resolve, what they stand for never changes, and the caches in front of  *)
(* the index spaces stay right (ComponentIR).                              *)
(***************************************************************************)
EXTENDS ComponentIR, FiniteSetTheorems, TLAPS

(***************************************************************************)
(* What the operations of one index space preserve: its ids are dense and  *)
(* each has one entry, no answer it gave changes, and its cache answers    *)
(* as a full search does.                                                  *)
(***************************************************************************)
SpaceShape(s) == DOMAIN s = {"next", "entries", "cache"} /\ s.next \in Nat
EntriesOK(s) ==
    /\ \A id \in 0..(s.next - 1) : IsAssigned(s, id)
    /\ \A e \in s.entries : DOMAIN e = {"map", "idx", "sub", "id"} /\ e.id \in 0..(s.next - 1)
    /\ \A e, f \in s.entries :
          e.id = f.id \/ (e.map = f.map /\ e.idx = f.idx /\ e.sub = f.sub) => e = f
CacheOK(s) == \A id \in DOMAIN s.cache : IsAssigned(s, id) /\ s.cache[id] = FullLookup(s, id)
SpaceOK(s) == SpaceShape(s) /\ EntriesOK(s) /\ CacheOK(s)

\* A full search finds the one entry that has the id.
LEMMA LookupOfEntry ==
    ASSUME NEW s, EntriesOK(s), NEW e \in s.entries
    PROVE  FullLookup(s, e.id) = Found(s, e)
<1>1. \A f \in s.entries : f.id = e.id => f = e
  BY DEF EntriesOK
<1>2. (CHOOSE f \in s.entries : f.id = e.id) = e
  BY <1>1
<1> QED
  BY <1>2 DEF FullLookup, IsAssigned

LEMMA EmptySpaceOK == SpaceOK(EmptySpace) /\ EmptySpace.next = 0 /\ EmptySpace.entries = {}
BY DEF SpaceOK, SpaceShape, EntriesOK, CacheOK, EmptySpace

\* Ids given to a position that had none: they come after all others, and nothing that
\* could be asked before is answered differently.
LEMMA AssignKeeps ==
    ASSUME NEW s, SpaceOK(s), NEW section, NEW idx, NEW n \in Nat,
           EntriesAt(s, SubtypeOf(section), idx) = {},
           NEW t, t = AssignAssumedIds(s, section, idx, n)
    PROVE  /\ SpaceOK(t)
           /\ t.next = s.next + n
           /\ t.entries = s.entries \cup
                {[map |-> SubtypeOf(section), idx |-> idx, sub |-> k, id |-> s.next + k] : k \in 0..(n - 1)}
           /\ \A id \in 0..(s.next - 1) : FullLookup(t, id) = FullLookup(s, id)
<1> DEFINE m == SubtypeOf(section)
           New(k) == [map |-> m, idx |-> idx, sub |-> k, id |-> s.next + k]
           new == {New(k) : k \in 0..(n - 1)}
<1>1. s.next \in Nat /\ DOMAIN s = {"next", "entries", "cache"} /\ EntriesOK(s) /\ CacheOK(s)
  BY DEF SpaceOK, SpaceShape
<1>2. Cardinality(EntriesAt(s, m, idx)) = 0
  BY FS_EmptySet
<1>3. \A k \in 0..(n - 1) : 0 + k = k
  OBVIOUS
<1>4. {[map |-> m, idx |-> idx, sub |-> 0 + k, id |-> s.next + k] : k \in 0..(n - 1)} = new
  BY <1>3
<1>5. /\ t = [s EXCEPT !.entries = @ \cup new, !.next = @ + n]
  BY <1>2, <1>4 DEF AssignAssumedIds
<1>6. /\ t.entries = s.entries \cup new
      /\ t.next = s.next + n
      /\ t.cache = s.cache
      /\ DOMAIN t = {"next", "entries", "cache"}
  BY <1>1, <1>5
<1>7. \A e \in s.entries : ~(e.map = m /\ e.idx = idx)
  BY DEF EntriesAt
<1>8. \A k \in 0..(n - 1) : /\ New(k).map = m /\ New(k).idx = idx /\ New(k).sub = k /\ New(k).id = s.next + k
                            /\ DOMAIN New(k) = {"map", "idx", "sub", "id"}
                            /\ New(k) \in new
  OBVIOUS
<1>9. \A e \in new : \E k \in 0..(n - 1) : e = New(k)
  OBVIOUS
<1> HIDE DEF new, New, m
<1>10. \A id \in 0..(t.next - 1) : IsAssigned(t, id)
  <2>1. ASSUME NEW id \in 0..(t.next - 1) PROVE \E e \in t.entries : e.id = id
    <3>1. CASE id < s.next
      <4>1. id \in 0..(s.next - 1)
        BY <1>1, <3>1, <1>6
      <4>2. \E e \in s.entries : e.id = id
        BY <4>1, <1>1 DEF EntriesOK, IsAssigned
      <4> QED
        BY <4>2, <1>6
    <3>2. CASE ~(id < s.next)
      <4>1. id - s.next \in 0..(n - 1) /\ s.next + (id - s.next) = id
        BY <1>1, <3>2, <1>6
      <4>2. New(id - s.next) \in new /\ New(id - s.next).id = id
        BY <4>1, <1>8
      <4> QED
        BY <4>2, <1>6
    <3> QED
      BY <3>1, <3>2
  <2> QED
    BY <2>1 DEF IsAssigned
<1>11. \A e \in t.entries : DOMAIN e = {"map", "idx", "sub", "id"} /\ e.id \in 0..(t.next - 1)
  <2>1. ASSUME NEW e \in s.entries PROVE DOMAIN e = {"map", "idx", "sub", "id"} /\ e.id \in 0..(t.next - 1)
    <3>1. DOMAIN e = {"map", "idx", "sub", "id"} /\ e.id \in 0..(s.next - 1)
      BY <1>1 DEF EntriesOK
    <3> QED
      BY <1>1, <1>6, <3>1
  <2>2. ASSUME NEW e \in new PROVE DOMAIN e = {"map", "idx", "sub", "id"} /\ e.id \in 0..(t.next - 1)
    <3>1. PICK k \in 0..(n - 1) : e = New(k)
      BY <1>9
    <3>2. DOMAIN e = {"map", "idx", "sub", "id"} /\ e.id = s.next + k
      BY <3>1, <1>8
    <3> QED
      BY <3>2, <1>1, <1>6
  <2> QED
    BY <2>1, <2>2, <1>6
<1>12. \A e, f \in t.entries : e.id = f.id \/ (e.map = f.map /\ e.idx = f.idx /\ e.sub = f.sub) => e = f
  <2>1. ASSUME NEW e \in new, NEW f \in s.entries
        PROVE  e.id # f.id /\ ~(e.map = f.map /\ e.idx = f.idx)
    <3>1. PICK k \in 0..(n - 1) : e = New(k)
      BY <1>9
    <3>2. e.map = m /\ e.idx = idx /\ e.id = s.next + k
      BY <3>1, <1>8
    <3>3. f.id \in 0..(s.next - 1)
      BY <1>1 DEF EntriesOK
    <3> QED
      BY <3>2, <3>3, <1>1, <1>7
  <2>2. ASSUME NEW e \in new, NEW f \in new, e.id = f.id \/ e.sub = f.sub PROVE e = f
    <3>1. PICK k \in 0..(n - 1) : e = New(k)
      BY <1>9
    <3>2. PICK j \in 0..(n - 1) : f = New(j)
      BY <1>9
    <3>3. e.sub = k /\ f.sub = j /\ e.id = s.next + k /\ f.id = s.next + j
      BY <3>1, <3>2, <1>8
    <3>4. k = j
      BY <2>2, <3>3, <1>1
    <3> QED
      BY <3>1, <3>2, <3>4
  <2>3. \A e, f \in s.entries : e.id = f.id \/ (e.map = f.map /\ e.idx = f.idx /\ e.sub = f.sub) => e = f
    BY <1>1 DEF EntriesOK
  <2> QED
    BY <2>1, <2>2, <2>3, <1>6
<1>13. EntriesOK(t)
  BY <1>10, <1>11, <1>12 DEF EntriesOK
<1>14. \A e \in s.entries : Found(t, e) = Found(s, e)
  <2>1. ASSUME NEW e \in s.entries PROVE EntriesAt(t, e.map, e.idx) = EntriesAt(s, e.map, e.idx)
    <3>1. \A f \in new : ~(f.map = e.map /\ f.idx = e.idx)
      BY <1>7, <1>8, <1>9
    <3> QED
      BY <3>1, <1>6 DEF EntriesAt
  <2> QED
    BY <2>1 DEF Found
<1>15. ASSUME NEW id, IsAssigned(s, id) PROVE IsAssigned(t, id) /\ FullLookup(t, id) = FullLookup(s, id)
  <2>1. PICK e \in s.entries : e.id = id
    BY <1>15 DEF IsAssigned
  <2>2. e \in t.entries
    BY <1>6
  <2>3. FullLookup(s, id) = Found(s, e) /\ FullLookup(t, id) = Found(t, e)
    BY <2>1, <2>2, <1>1, <1>13, LookupOfEntry
  <2> QED
    BY <2>1, <2>2, <2>3, <1>14 DEF IsAssigned
<1>16. \A id \in 0..(s.next - 1) : FullLookup(t, id) = FullLookup(s, id)
  BY <1>15, <1>1 DEF EntriesOK
<1>17. CacheOK(t)
  BY <1>15, <1>1, <1>6 DEF CacheOK
<1>18. SpaceShape(t)
  BY <1>1, <1>6 DEF SpaceShape
<1> QED
  BY <1>6, <1>13, <1>16, <1>17, <1>18 DEF SpaceOK, new, New, m

\* Remembering answers changes none.
LEMMA RememberKeeps ==
    ASSUME NEW s, SpaceOK(s), NEW ids, NEW t, t = RememberIndices(s, ids)
    PROVE  /\ SpaceOK(t)
           /\ t.next = s.next /\ t.entries = s.entries
           /\ \A id : FullLookup(t, id) = FullLookup(s, id)
<1> DEFINE found == {id \in ids : IsAssigned(s, id)}
           cache == [id \in DOMAIN s.cache \cup found |-> IndexFromAssumedIdNoCache(s, id)]
<1>1. s.next \in Nat /\ DOMAIN s = {"next", "entries", "cache"} /\ EntriesOK(s) /\ CacheOK(s)
  BY DEF SpaceOK, SpaceShape
<1>2. t = [s EXCEPT !.cache = cache]
  BY DEF RememberIndices
<1>3. DOMAIN cache = DOMAIN s.cache \cup found
  OBVIOUS
<1>4. \A id \in DOMAIN cache : IsAssigned(s, id) /\ cache[id] = FullLookup(s, id)
  BY <1>1 DEF CacheOK, IndexFromAssumedIdNoCache
<1> HIDE DEF found, cache
<1>5. t.next = s.next /\ t.entries = s.entries /\ t.cache = cache /\ DOMAIN t = {"next", "entries", "cache"}
  BY <1>1, <1>2
<1>6. \A id : IsAssigned(t, id) <=> IsAssigned(s, id)
  BY <1>5 DEF IsAssigned
<1>7. \A m, idx : EntriesAt(t, m, idx) = EntriesAt(s, m, idx)
  BY <1>5 DEF EntriesAt
<1>8. \A e : Found(t, e) = Found(s, e)
  BY <1>7 DEF Found
<1>9. \A id : FullLookup(t, id) = FullLookup(s, id)
  BY <1>5, <1>6, <1>8 DEF FullLookup
<1>10. CacheOK(t)
  BY <1>4, <1>5, <1>6, <1>9 DEF CacheOK
<1>11. EntriesOK(t)
  BY <1>1, <1>5, <1>6 DEF EntriesOK
<1> QED
  BY <1>1, <1>5, <1>9, <1>10, <1>11 DEF SpaceOK, SpaceShape

\* Each id in use is found at the position of its entry, and no two at the same.
LEMMA LookupFacts ==
    ASSUME NEW s, EntriesOK(s), NEW id \in 0..(s.next - 1)
    PROVE  \E e \in s.entries : /\ e.id = id /\ FullLookup(s, id) = Found(s, e)
                                /\ FullLookup(s, id).map = e.map /\ FullLookup(s, id).idx = e.idx
<1>1. PICK e \in s.entries : e.id = id
  BY DEF EntriesOK, IsAssigned
<1>2. FullLookup(s, id) = Found(s, e)
  BY <1>1, LookupOfEntry
<1>3. Found(s, e).map = e.map /\ Found(s, e).idx = e.idx
  BY DEF Found
<1> QED
  BY <1>1, <1>2, <1>3

LEMMA LookupInjective ==
    ASSUME NEW s, EntriesOK(s), NEW i \in 0..(s.next - 1), NEW j \in 0..(s.next - 1),
           FullLookup(s, i) = FullLookup(s, j)
    PROVE  i = j
<1>1. PICK e \in s.entries : /\ e.id = i /\ FullLookup(s, i) = Found(s, e)
                             /\ FullLookup(s, i).map = e.map /\ FullLookup(s, i).idx = e.idx
  BY LookupFacts
<1>2. PICK f \in s.entries : /\ f.id = j /\ FullLookup(s, j) = Found(s, f)
                             /\ FullLookup(s, j).map = f.map /\ FullLookup(s, j).idx = f.idx
  BY LookupFacts
<1>3. e.map = f.map /\ e.idx = f.idx /\ Found(s, e).sub = Found(s, f).sub
  BY <1>1, <1>2
<1> DEFINE E == EntriesAt(s, e.map, e.idx)
<1>4. e \in E /\ f \in E /\ E = EntriesAt(s, f.map, f.idx)
  BY <1>3 DEF EntriesAt
<1>5. /\ Found(s, e).sub = IF E = {e} THEN -1 ELSE e.sub
      /\ Found(s, f).sub = IF E = {f} THEN -1 ELSE f.sub
  BY <1>4 DEF Found
<1> HIDE DEF E
<1>6. CASE E = {e} \/ E = {f}
  BY <1>1, <1>2, <1>4, <1>6
<1>7. CASE E # {e} /\ E # {f}
  <2>1. e.sub = f.sub
    BY <1>3, <1>5, <1>7
  <2> QED
    BY <1>1, <1>2, <1>3, <2>1 DEF EntriesOK
<1> QED
  BY <1>6, <1>7

(***************************************************************************)
(* Sequences.                                                              *)
(***************************************************************************)
LEMMA SeqFacts ==
    ASSUME NEW s, IsSeq(s)
    PROVE  Len(s) \in Nat /\ DOMAIN s = 1..Len(s)
BY DEF IsSeq

LEMMA EmptyIsSeq == IsSeq(<< >>) /\ Len(<< >>) = 0 /\ DOMAIN << >> = {}
BY DEF IsSeq

LEMMA AppendFacts ==
    ASSUME NEW s, IsSeq(s), NEW x
    PROVE  /\ IsSeq(Append(s, x))
           /\ Len(Append(s, x)) = Len(s) + 1
           /\ DOMAIN Append(s, x) = 1..(Len(s) + 1)
           /\ \A k \in 1..Len(s) : Append(s, x)[k] = s[k]
           /\ Append(s, x)[Len(s) + 1] = x
<1> DEFINE S == {s[k] : k \in DOMAIN s} \cup {x}
           t == Append(s, x)
<1>1. s \in Seq(S)
  BY DEF IsSeq
<1>2. t \in Seq(S) /\ Len(t) = Len(s) + 1 /\ Len(s) \in Nat
  BY <1>1
<1>3. DOMAIN t = 1..(Len(s) + 1) /\ DOMAIN s = 1..Len(s)
  BY <1>1, <1>2
<1>4. \A k \in 1..Len(s) : t[k] = s[k]
  BY <1>1
<1>5. t[Len(s) + 1] = x
  BY <1>1
<1>6. t \in Seq({t[k] : k \in DOMAIN t})
  <2> HIDE DEF t
  <2> QED
    BY <1>2
<1> QED
  BY <1>2, <1>3, <1>4, <1>5, <1>6 DEF IsSeq

LEMMA ExceptFacts ==
    ASSUME NEW s, IsSeq(s), NEW i \in DOMAIN s, NEW x
    PROVE  /\ IsSeq([s EXCEPT ![i] = x])
           /\ Len([s EXCEPT ![i] = x]) = Len(s)
           /\ DOMAIN [s EXCEPT ![i] = x] = DOMAIN s
           /\ [s EXCEPT ![i] = x][i] = x
           /\ \A k \in DOMAIN s : k # i => [s EXCEPT ![i] = x][k] = s[k]
<1> DEFINE S == {s[k] : k \in DOMAIN s} \cup {x}
           t == [s EXCEPT ![i] = x]
<1>1. s \in Seq(S)
  BY DEF IsSeq
<1>2. t \in Seq(S) /\ Len(t) = Len(s) /\ DOMAIN t = DOMAIN s /\ Len(s) \in Nat
  BY <1>1
<1>3. t[i] = x /\ \A k \in DOMAIN s : k # i => t[k] = s[k]
  BY <1>1
<1>6. t \in Seq({t[k] : k \in DOMAIN t})
  <2> HIDE DEF t
  <2> QED
    BY <1>2
<1> QED
  BY <1>2, <1>3, <1>6 DEF IsSeq

LEMMA SubSeqFacts ==
    ASSUME NEW s, IsSeq(s), NEW n \in 0..Len(s)
    PROVE  /\ IsSeq(SubSeq(s, 1, n))
           /\ DOMAIN SubSeq(s, 1, n) = 1..n
           /\ \A k \in 1..n : SubSeq(s, 1, n)[k] = s[k]
<1> DEFINE t == SubSeq(s, 1, n)
<1>1. s \in Seq({s[k] : k \in DOMAIN s})
  BY DEF IsSeq
<1>2. Len(s) \in Nat
  BY <1>1
<1>3. t \in Seq({s[k] : k \in DOMAIN s}) /\ Len(t) = n
  BY <1>1, <1>2
<1>4. \A k \in 1..n : t[k] = s[k]
  BY <1>1, <1>2
<1>5. DOMAIN t = 1..n
  BY <1>3
<1>6. t \in Seq({t[k] : k \in DOMAIN t})
  <2> HIDE DEF t
  <2> QED
    BY <1>3
<1> QED
  BY <1>4, <1>5, <1>6 DEF IsSeq

(***************************************************************************)
(* One container: its vectors and one of its index spaces.                 *)
(***************************************************************************)
VecOK(vec) ==
    /\ DOMAIN vec = VecKinds
    /\ \A v \in VecKinds :
          /\ IsSeq(vec[v])
          /\ \A i \in DOMAIN vec[v] : DOMAIN vec[v][i] = ItemFields
SlotIn(kind, sp, map) == IF kind = "Component" THEN VecFor(sp, map) ELSE "Decl"
\* Each entry is about an item of this space.
Points(kind, vec, sp, s) ==
    \A e \in s.entries :
        LET v == SlotIn(kind, sp, e.map)
        IN  v \in VecKinds /\ e.idx + 1 \in DOMAIN vec[v] /\ SlotSpace(vec[v][e.idx + 1]) = sp
Good(kind, vec, sp, s) == SpaceOK(s) /\ Points(kind, vec, sp, s)

\* What a step keeps of the items and of the ids.
KeepsItems(vec, vec2) ==
    \A v \in VecKinds : \A i \in DOMAIN vec[v] :
        i \in DOMAIN vec2[v] /\ Identity(vec2[v][i]) = Identity(vec[v][i])
KeepsIds(s, t) == s.next <= t.next /\ \A id \in 0..(s.next - 1) : FullLookup(t, id) = FullLookup(s, id)

LEMMA SpaceOfItem ==
    ASSUME NEW c, NEW item, WellFormed(c, item), SlotSpace(item) # NA
    PROVE  SlotSpace(item) \in Space
<1>1. \A kind \in ExternalKinds : ExternalSpace(kind) \in Space
  BY DEF ExternalKinds, ExternalSpace, Space
<1>2. \A kind \in {"Func", "FuncExact", "Table", "Memory", "Global", "Tag"} : CoreExternalSpace(kind) \in Space
  BY DEF CoreExternalSpace, Space
<1>3. \A kind \in {"CoreModule", "CoreType", "Type", "Component"} : OuterSpace(kind) \in Space
  BY DEF OuterSpace, Space
<1>4. CASE item.sort \in {"ComponentImport", "DeclExport"}
  <2>1. item.kind \in ExternalKinds \/ item.kind = "Sub"
    BY <1>4 DEF WellFormed
  <2> QED
    BY <1>1, <1>4, <2>1 DEF SlotSpace, IndexSpaceOf, Space
<1>5. CASE item.sort = "ComponentExport"
  <2>1. item.kind \in ExternalKinds
    BY <1>5 DEF WellFormed
  <2> QED
    BY <1>1, <1>5, <2>1 DEF SlotSpace, IndexSpaceOf, Space
<1>6. CASE item.sort = "Alias"
  <2>1. \/ item.form = "InstanceExport" /\ item.kind \in ExternalKinds
        \/ item.form = "CoreInstanceExport" /\ item.kind \in {"Func", "FuncExact", "Table", "Memory", "Global", "Tag"}
        \/ item.form = "Outer" /\ item.kind \in {"CoreModule", "CoreType", "Type", "Component"}
    BY <1>6 DEF WellFormed
  <2> QED
    BY <1>1, <1>2, <1>3, <1>6, <2>1 DEF SlotSpace, IndexSpaceOf
<1>7. CASE item.sort \notin {"ComponentImport", "DeclExport", "ComponentExport", "Alias"}
  BY <1>7 DEF SlotSpace, IndexSpaceOf, Space
<1> QED
  BY <1>4, <1>5, <1>6, <1>7

\* The kind of an item tells its vector and the part of its space the vector fills.
LEMMA SlotOfItem ==
    ASSUME NEW c \in DOMAIN conts, NEW item, WellFormed(c, item), SlotSpace(item) # NA
    PROVE  /\ SlotSpace(item) \in Space
           /\ VecOf(c, item) \in VecKinds
           /\ SlotIn(conts[c].kind, SlotSpace(item), SubtypeOf(VecOf(c, item))) = VecOf(c, item)
<1>1. CASE ~IsComponent(c)
  <2>1. VecOf(c, item) = "Decl" /\ conts[c].kind # "Component"
    BY <1>1 DEF VecOf, IsComponent
  <2> QED
    BY <2>1, SpaceOfItem DEF SlotIn, VecKinds
<1>2. CASE IsComponent(c)
  <2>1. VecOf(c, item) = item.sort /\ conts[c].kind = "Component" /\ item.sort \in SectionKinds
    BY <1>2 DEF VecOf, IsComponent, WellFormed
  <2>2. SlotIn(conts[c].kind, SlotSpace(item), SubtypeOf(VecOf(c, item))) = VecFor(SlotSpace(item), SubtypeOf(item.sort))
    BY <2>1 DEF SlotIn
  <2>3. VecFor(SlotSpace(item), SubtypeOf(item.sort)) = item.sort
    <3>1. CASE item.sort \in {"ComponentImport", "ComponentExport", "Alias"}
      BY <3>1 DEF VecFor, SubtypeOf
    <3>2. CASE item.sort \notin {"ComponentImport", "ComponentExport", "Alias"}
      <4>1. SubtypeOf(item.sort) = "Main"
        BY <3>2 DEF SubtypeOf
      <4>2. CASE item.sort = "Canon"
        <5>1. SlotSpace(item) \in {"CompFunc", "CoreFunc"}
          BY <4>2 DEF SlotSpace, IndexSpaceOf
        <5> QED
          BY <4>1, <4>2, <5>1 DEF VecFor
      <4>3. CASE item.sort \in {"ComponentType", "CoreType", "CoreInstance", "ComponentInstance", "Module", "Component", "ComponentStartSection"}
        BY <4>1, <4>3 DEF VecFor, SlotSpace, IndexSpaceOf
      <4>4. CASE item.sort = "CustomSection"
        BY <4>4 DEF SlotSpace, IndexSpaceOf
      <4> QED
        BY <2>1, <3>2, <4>2, <4>3, <4>4 DEF SectionKinds
    <3> QED
      BY <3>1, <3>2
  <2> QED
    BY <2>1, <2>2, <2>3, SpaceOfItem DEF VecKinds
<1> QED
  BY <1>1, <1>2

LEMMA VecAppended ==
    ASSUME NEW vec, VecOK(vec), NEW v \in VecKinds, NEW item, DOMAIN item = ItemFields,
           NEW vec2, vec2 = [vec EXCEPT ![v] = Append(@, item)]
    PROVE  /\ VecOK(vec2) /\ KeepsItems(vec, vec2)
           /\ Len(vec[v]) \in Nat
           /\ DOMAIN vec[v] = 1..Len(vec[v])
           /\ DOMAIN vec2[v] = 1..(Len(vec[v]) + 1)
           /\ vec2[v][Len(vec[v]) + 1] = item
<1>1. DOMAIN vec = VecKinds /\ IsSeq(vec[v])
  BY DEF VecOK
<1>2. vec2[v] = Append(vec[v], item) /\ DOMAIN vec2 = VecKinds /\ \A w \in VecKinds : w # v => vec2[w] = vec[w]
  BY <1>1
<1>3. Len(vec[v]) \in Nat /\ DOMAIN vec[v] = 1..Len(vec[v])
  BY <1>1, SeqFacts
<1>4. /\ IsSeq(vec2[v])
      /\ DOMAIN vec2[v] = 1..(Len(vec[v]) + 1)
      /\ \A k \in 1..Len(vec[v]) : vec2[v][k] = vec[v][k]
      /\ vec2[v][Len(vec[v]) + 1] = item
  BY <1>1, <1>2, AppendFacts
<1>5. \A i \in DOMAIN vec2[v] : i \in DOMAIN vec[v] \/ i = Len(vec[v]) + 1
  BY <1>3, <1>4
<1>6. VecOK(vec2)
  <2>1. ASSUME NEW w \in VecKinds PROVE IsSeq(vec2[w]) /\ \A i \in DOMAIN vec2[w] : DOMAIN vec2[w][i] = ItemFields
    <3>1. CASE w = v
      BY <3>1, <1>3, <1>4, <1>5 DEF VecOK
    <3>2. CASE w # v
      BY <3>2, <1>2 DEF VecOK
    <3> QED
      BY <3>1, <3>2
  <2> QED
    BY <2>1, <1>2 DEF VecOK
<1>7. KeepsItems(vec, vec2)
  <2>1. ASSUME NEW w \in VecKinds, NEW i \in DOMAIN vec[w] PROVE i \in DOMAIN vec2[w] /\ vec2[w][i] = vec[w][i]
    BY <1>2, <1>3, <1>4
  <2> QED
    BY <2>1 DEF KeepsItems
<1> QED
  BY <1>3, <1>4, <1>6, <1>7

LEMMA KeepsAll == ASSUME NEW vec PROVE KeepsItems(vec, vec)
BY DEF KeepsItems

LEMMA IdentityTellsSpace ==
    ASSUME NEW a, NEW b, Identity(a) = Identity(b)
    PROVE  SlotSpace(a) = SlotSpace(b)
<1>1. a.sort = b.sort /\ a.form = b.form /\ a.kind = b.kind
  BY DEF Identity
<1> QED
  BY <1>1 DEF SlotSpace, IndexSpaceOf

LEMMA PointsKept ==
    ASSUME NEW kind, NEW vec, NEW vec2, NEW sp, NEW s, Points(kind, vec, sp, s), KeepsItems(vec, vec2)
    PROVE  Points(kind, vec2, sp, s)
<1>1. ASSUME NEW e \in s.entries
      PROVE  LET v == SlotIn(kind, sp, e.map)
             IN  v \in VecKinds /\ e.idx + 1 \in DOMAIN vec2[v] /\ SlotSpace(vec2[v][e.idx + 1]) = sp
  <2> DEFINE v == SlotIn(kind, sp, e.map)
  <2>1. v \in VecKinds /\ e.idx + 1 \in DOMAIN vec[v] /\ SlotSpace(vec[v][e.idx + 1]) = sp
    BY DEF Points
  <2>2. e.idx + 1 \in DOMAIN vec2[v] /\ Identity(vec2[v][e.idx + 1]) = Identity(vec[v][e.idx + 1])
    BY <2>1 DEF KeepsItems
  <2>3. SlotSpace(vec2[v][e.idx + 1]) = sp
    BY <2>1, <2>2, IdentityTellsSpace
  <2> QED
    BY <2>1, <2>2, <2>3
<1> QED
  BY <1>1 DEF Points

(***************************************************************************)
(* A container and its scope.                                              *)
(***************************************************************************)
Kinds == {"Component", "ComponentBody", "InstanceBody", "ModuleBody"}
ContOK(cont) ==
    /\ DOMAIN cont = {"kind", "parent", "vec", "sections", "names"}
    /\ cont.kind \in Kinds
    /\ VecOK(cont.vec)
ScopeOK(cont, sc) == DOMAIN sc = Space /\ \A sp \in Space : Good(cont.kind, cont.vec, sp, sc[sp])
Keeps(cont, sc, cont2, sc2) ==
    /\ cont2.kind = cont.kind /\ cont2.parent = cont.parent
    /\ KeepsItems(cont.vec, cont2.vec)
    /\ \A sp \in Space : KeepsIds(sc[sp], sc2[sp])

LEMMA KeepsScope ==
    ASSUME NEW cont, NEW cont2, NEW sc, ContOK(cont2), ScopeOK(cont, sc),
           cont2.kind = cont.kind, cont2.parent = cont.parent, KeepsItems(cont.vec, cont2.vec)
    PROVE  ScopeOK(cont2, sc) /\ Keeps(cont, sc, cont2, sc)
<1>1. \A sp \in Space : Good(cont2.kind, cont2.vec, sp, sc[sp])
  BY PointsKept DEF ScopeOK, Good
<1>2. \A sp \in Space : KeepsIds(sc[sp], sc[sp])
  BY DEF ScopeOK, Good, SpaceOK, SpaceShape, KeepsIds
<1> QED
  BY <1>1, <1>2 DEF ScopeOK, Keeps

\* Placing an item, or the same with its body, and giving it its ids.
LEMMA ItemPlaced ==
    ASSUME NEW c \in DOMAIN conts, ContOK(conts[c]), ScopeOK(conts[c], scopes[c]),
           NEW by, NEW item, WellFormed(c, item),
           NEW item2, DOMAIN item2 = ItemFields, SlotSpace(item2) = SlotSpace(item),
           NEW cont2, cont2 = WithItem(conts[c], by, VecOf(c, item), item2),
           NEW sc2, sc2 = ScopeWithItem(c, by, item)
    PROVE  ContOK(cont2) /\ ScopeOK(cont2, sc2) /\ Keeps(conts[c], scopes[c], cont2, sc2)
<1> DEFINE v == VecOf(c, item)
           vec == conts[c].vec
           sp0 == SlotSpace(item)
           n == SlotCount(c, by, item)
<1>1. v \in VecKinds
  BY DEF WellFormed, VecOf, VecKinds
<1>2. /\ DOMAIN cont2 = {"kind", "parent", "vec", "sections", "names"}
      /\ cont2.kind = conts[c].kind /\ cont2.parent = conts[c].parent
      /\ cont2.vec = [vec EXCEPT ![v] = Append(@, item2)]
  BY DEF WithItem, ContOK
<1>3. /\ VecOK(cont2.vec) /\ KeepsItems(vec, cont2.vec)
      /\ Len(vec[v]) \in Nat
      /\ DOMAIN vec[v] = 1..Len(vec[v])
      /\ DOMAIN cont2.vec[v] = 1..(Len(vec[v]) + 1)
      /\ cont2.vec[v][Len(vec[v]) + 1] = item2
  BY <1>1, <1>2, VecAppended DEF ContOK
<1>4. ContOK(cont2)
  BY <1>2, <1>3 DEF ContOK
<1>5. ScopeOK(cont2, scopes[c]) /\ Keeps(conts[c], scopes[c], cont2, scopes[c])
  BY <1>2, <1>3, <1>4, KeepsScope
<1>6. CASE n = 0
  BY <1>4, <1>5, <1>6 DEF ScopeWithItem
<1>7. CASE n # 0
  <2>1. sp0 # NA /\ n \in Nat
    BY <1>7 DEF SlotCount, WellFormed, SlotSpace, NA
  <2>2. sp0 \in Space /\ SlotIn(conts[c].kind, sp0, SubtypeOf(v)) = v
    BY <2>1, SlotOfItem
  <2> DEFINE s == scopes[c][sp0]
             t == AssignAssumedIds(s, v, Len(vec[v]), n)
  <2>3. sc2 = [scopes[c] EXCEPT ![sp0] = t]
    BY <1>7 DEF ScopeWithItem
  <2>4. DOMAIN scopes[c] = Space /\ \A sp \in Space : Good(conts[c].kind, vec, sp, scopes[c][sp])
    BY DEF ScopeOK
  <2>5. SpaceOK(s) /\ Points(conts[c].kind, vec, sp0, s)
    BY <2>2, <2>4 DEF Good
  <2>6. EntriesAt(s, SubtypeOf(v), Len(vec[v])) = {}
    <3>1. ASSUME NEW e \in s.entries, e.map = SubtypeOf(v), e.idx = Len(vec[v]) PROVE FALSE
      <4>1. e.idx + 1 \in DOMAIN vec[SlotIn(conts[c].kind, sp0, e.map)]
        BY <2>5 DEF Points
      <4>2. Len(vec[v]) + 1 \in 1..Len(vec[v])
        BY <4>1, <3>1, <2>2, <1>3
      <4> QED
        BY <4>2, <1>3
    <3> QED
      BY <3>1 DEF EntriesAt
  <2> DEFINE new == {[map |-> SubtypeOf(v), idx |-> Len(vec[v]), sub |-> k, id |-> s.next + k] : k \in 0..(n - 1)}
  <2>7. /\ SpaceOK(t)
        /\ t.next = s.next + n
        /\ t.entries = s.entries \cup new
        /\ \A id \in 0..(s.next - 1) : FullLookup(t, id) = FullLookup(s, id)
    BY <2>1, <2>5, <2>6, AssignKeeps
  <2>8. \A e \in new : e.map = SubtypeOf(v) /\ e.idx = Len(vec[v])
    OBVIOUS
  <2> HIDE DEF t, new, s, n, sp0, vec, v
  <2>9. Points(conts[c].kind, cont2.vec, sp0, s)
    BY <1>3, <2>5, PointsKept DEF vec
  <2>10. ASSUME NEW e \in t.entries
         PROVE  LET w == SlotIn(conts[c].kind, sp0, e.map)
                IN  w \in VecKinds /\ e.idx + 1 \in DOMAIN cont2.vec[w] /\ SlotSpace(cont2.vec[w][e.idx + 1]) = sp0
    <3>1. CASE e \in s.entries
      BY <3>1, <2>9 DEF Points
    <3>2. CASE e \in new
      <4>1. SlotIn(conts[c].kind, sp0, e.map) = v /\ e.idx + 1 = Len(vec[v]) + 1
        BY <3>2, <2>2, <2>8
      <4>2. Len(vec[v]) + 1 \in DOMAIN cont2.vec[v] /\ SlotSpace(cont2.vec[v][Len(vec[v]) + 1]) = sp0
        BY <1>3 DEF sp0
      <4> QED
        BY <4>1, <4>2, <1>1
    <3> QED
      BY <3>1, <3>2, <2>7
  <2>11. Good(cont2.kind, cont2.vec, sp0, t)
    BY <2>7, <2>10, <1>2 DEF Good, Points
  <2>12. s.next <= t.next
    BY <2>1, <2>5, <2>7 DEF SpaceOK, SpaceShape
  <2>13. KeepsIds(s, t)
    BY <2>7, <2>12 DEF KeepsIds
  <2>14. DOMAIN sc2 = Space /\ sc2[sp0] = t /\ \A sp \in Space : sp # sp0 => sc2[sp] = scopes[c][sp]
    BY <2>2, <2>3, <2>4
  <2>15. \A sp \in Space : Good(cont2.kind, cont2.vec, sp, sc2[sp])
    BY <2>11, <2>14, <1>5 DEF ScopeOK
  <2>16. \A sp \in Space : KeepsIds(scopes[c][sp], sc2[sp])
    BY <2>13, <2>14, <1>5 DEF Keeps, s
  <2> QED
    BY <1>4, <1>5, <2>14, <2>15, <2>16 DEF ScopeOK, Keeps
<1> QED
  BY <1>6, <1>7

(***************************************************************************)
(* The tree.                                                               *)
(***************************************************************************)
TreeOK(cs, ss) ==
    /\ IsSeq(cs) /\ IsSeq(ss) /\ Len(ss) = Len(cs) /\ Len(cs) > 0
    /\ \A c \in DOMAIN cs :
          /\ ContOK(cs[c]) /\ ScopeOK(cs[c], ss[c])
          /\ cs[c].parent \in IF c = 1 THEN {0} ELSE DOMAIN cs
OpenOK(cs, os) ==
    IsSeq(os) /\ \A k \in DOMAIN os : DOMAIN os[k] = {"cont", "by"} /\ os[k].cont \in DOMAIN cs
Evolves(cs, ss, cs2, ss2) ==
    DOMAIN cs \subseteq DOMAIN cs2 /\ \A c \in DOMAIN cs : Keeps(cs[c], ss[c], cs2[c], ss2[c])
StateOK == TreeOK(conts, scopes) /\ OpenOK(conts, open)

LEMMA TreeDomains ==
    ASSUME NEW cs, NEW ss, TreeOK(cs, ss)
    PROVE  Len(cs) \in Nat /\ DOMAIN cs = 1..Len(cs) /\ DOMAIN ss = DOMAIN cs /\ 1 \in DOMAIN cs
<1>1. Len(cs) \in Nat /\ DOMAIN cs = 1..Len(cs) /\ DOMAIN ss = 1..Len(ss) /\ Len(ss) = Len(cs) /\ Len(cs) > 0
  BY SeqFacts DEF TreeOK
<1> QED
  BY <1>1

LEMMA EvolvesSelf ==
    ASSUME NEW cs, NEW ss, TreeOK(cs, ss)
    PROVE  Evolves(cs, ss, cs, ss)
<1>1. ASSUME NEW c \in DOMAIN cs PROVE Keeps(cs[c], ss[c], cs[c], ss[c])
  <2>1. ContOK(cs[c]) /\ ScopeOK(cs[c], ss[c])
    BY DEF TreeOK
  <2> QED
    BY <2>1, KeepsAll, KeepsScope
<1> QED
  BY <1>1 DEF Evolves

\* One container changes.
LEMMA ContChanged ==
    ASSUME NEW cs, NEW ss, TreeOK(cs, ss), NEW c \in DOMAIN cs, NEW cont2, NEW sc2,
           ContOK(cont2), ScopeOK(cont2, sc2), Keeps(cs[c], ss[c], cont2, sc2),
           NEW cs2, cs2 = [cs EXCEPT ![c] = cont2], NEW ss2, ss2 = [ss EXCEPT ![c] = sc2]
    PROVE  TreeOK(cs2, ss2) /\ Evolves(cs, ss, cs2, ss2) /\ DOMAIN cs2 = DOMAIN cs
<1>1. IsSeq(cs) /\ IsSeq(ss) /\ DOMAIN ss = DOMAIN cs /\ Len(ss) = Len(cs) /\ Len(cs) > 0
  BY TreeDomains DEF TreeOK
<1>2. /\ IsSeq(cs2) /\ Len(cs2) = Len(cs) /\ DOMAIN cs2 = DOMAIN cs
      /\ cs2[c] = cont2 /\ \A d \in DOMAIN cs : d # c => cs2[d] = cs[d]
  BY <1>1, ExceptFacts
<1>3. /\ IsSeq(ss2) /\ Len(ss2) = Len(ss)
      /\ ss2[c] = sc2 /\ \A d \in DOMAIN cs : d # c => ss2[d] = ss[d]
  BY <1>1, ExceptFacts
<1>4. Evolves(cs, ss, cs, ss)
  BY EvolvesSelf
<1>5. \A d \in DOMAIN cs : Keeps(cs[d], ss[d], cs2[d], ss2[d])
  BY <1>2, <1>3, <1>4 DEF Evolves
<1>6. ASSUME NEW d \in DOMAIN cs2
      PROVE  ContOK(cs2[d]) /\ ScopeOK(cs2[d], ss2[d]) /\ cs2[d].parent \in IF d = 1 THEN {0} ELSE DOMAIN cs2
  <2>1. cs[d].parent \in IF d = 1 THEN {0} ELSE DOMAIN cs
    BY <1>2 DEF TreeOK
  <2>2. cs2[d].parent = cs[d].parent
    BY <1>2, <1>5 DEF Keeps
  <2>3. ContOK(cs2[d]) /\ ScopeOK(cs2[d], ss2[d])
    BY <1>2, <1>3 DEF TreeOK
  <2> QED
    BY <2>1, <2>2, <2>3, <1>2
<1> QED
  BY <1>1, <1>2, <1>3, <1>5, <1>6 DEF TreeOK, Evolves

LEMMA NewContainerOK ==
    ASSUME NEW kind \in Kinds, NEW parent
    PROVE  /\ ContOK(NewContainer(kind, parent)) /\ NewContainer(kind, parent).parent = parent
           /\ ScopeOK(NewContainer(kind, parent), NewScope)
<1> DEFINE cont == NewContainer(kind, parent)
<1>1. /\ DOMAIN cont = {"kind", "parent", "vec", "sections", "names"}
      /\ cont.kind = kind /\ cont.parent = parent
      /\ cont.vec = [v \in VecKinds |-> << >>]
  BY DEF NewContainer
<1>2. VecOK(cont.vec)
  BY <1>1, EmptyIsSeq DEF VecOK
<1>3. \A sp \in Space : NewScope[sp] = EmptySpace
  BY DEF NewScope
<1>4. \A sp \in Space : Good(cont.kind, cont.vec, sp, NewScope[sp])
  BY <1>3, EmptySpaceOK DEF Good, Points
<1> QED
  BY <1>1, <1>2, <1>4 DEF ContOK, ScopeOK, NewScope

\* A container is made.
LEMMA ContAdded ==
    ASSUME NEW cs, NEW ss, TreeOK(cs, ss), NEW kind \in Kinds, NEW parent \in DOMAIN cs,
           NEW cs2, cs2 = Append(cs, NewContainer(kind, parent)), NEW ss2, ss2 = Append(ss, NewScope)
    PROVE  TreeOK(cs2, ss2) /\ Evolves(cs, ss, cs2, ss2) /\ DOMAIN cs2 = DOMAIN cs \cup {Len(cs) + 1}
<1> DEFINE new == NewContainer(kind, parent)
<1>1. IsSeq(cs) /\ IsSeq(ss) /\ Len(ss) = Len(cs) /\ Len(cs) > 0
  BY DEF TreeOK
<1>2. DOMAIN cs = 1..Len(cs) /\ Len(cs) \in Nat
  BY TreeDomains
<1>3. ContOK(new) /\ new.parent = parent /\ ScopeOK(new, NewScope)
  BY NewContainerOK
<1> HIDE DEF new
<1>4. cs2 = Append(cs, new)
  BY DEF new
<1>5. /\ IsSeq(cs2) /\ Len(cs2) = Len(cs) + 1 /\ DOMAIN cs2 = 1..(Len(cs) + 1)
      /\ \A k \in 1..Len(cs) : cs2[k] = cs[k]
      /\ cs2[Len(cs) + 1] = new
  BY <1>1, <1>4, AppendFacts
<1>6. /\ IsSeq(ss2) /\ Len(ss2) = Len(ss) + 1
      /\ \A k \in 1..Len(ss) : ss2[k] = ss[k]
      /\ ss2[Len(ss) + 1] = NewScope
  BY <1>1, AppendFacts
<1>7. DOMAIN cs2 = DOMAIN cs \cup {Len(cs) + 1}
  BY <1>2, <1>5
<1>8. Evolves(cs, ss, cs, ss)
  BY EvolvesSelf
<1>9. Evolves(cs, ss, cs2, ss2)
  BY <1>1, <1>2, <1>5, <1>6, <1>7, <1>8 DEF Evolves
<1>10. ASSUME NEW d \in DOMAIN cs2
       PROVE  ContOK(cs2[d]) /\ ScopeOK(cs2[d], ss2[d]) /\ cs2[d].parent \in IF d = 1 THEN {0} ELSE DOMAIN cs2
  <2>1. CASE d \in DOMAIN cs
    <3>1. cs2[d] = cs[d] /\ ss2[d] = ss[d]
      BY <2>1, <1>1, <1>2, <1>5, <1>6
    <3>2. ContOK(cs[d]) /\ ScopeOK(cs[d], ss[d]) /\ cs[d].parent \in IF d = 1 THEN {0} ELSE DOMAIN cs
      BY <2>1 DEF TreeOK
    <3> QED
      BY <3>1, <3>2, <1>7
  <2>2. CASE d = Len(cs) + 1
    <3>1. cs2[d] = new /\ ss2[d] = NewScope /\ d # 1
      BY <2>2, <1>1, <1>2, <1>5, <1>6
    <3> QED
      BY <3>1, <1>3, <1>7
  <2> QED
    BY <2>1, <2>2, <1>7
<1> QED
  BY <1>1, <1>2, <1>5, <1>6, <1>7, <1>9, <1>10 DEF TreeOK

LEMMA KeepsTransitive ==
    ASSUME NEW a, NEW sa, NEW b, NEW sb, NEW d, NEW sd, ScopeOK(a, sa), ScopeOK(b, sb), ScopeOK(d, sd),
           Keeps(a, sa, b, sb), Keeps(b, sb, d, sd)
    PROVE  Keeps(a, sa, d, sd)
<1>1. KeepsItems(a.vec, d.vec)
  BY DEF Keeps, KeepsItems
<1>2. ASSUME NEW sp \in Space PROVE KeepsIds(sa[sp], sd[sp])
  <2>1. sa[sp].next \in Nat /\ sb[sp].next \in Nat /\ sd[sp].next \in Nat
    BY DEF ScopeOK, Good, SpaceOK, SpaceShape
  <2>2. KeepsIds(sa[sp], sb[sp]) /\ KeepsIds(sb[sp], sd[sp])
    BY DEF Keeps
  <2> QED
    BY <2>1, <2>2 DEF KeepsIds
<1> QED
  BY <1>1, <1>2 DEF Keeps

LEMMA EvolvesTransitive ==
    ASSUME NEW c1, NEW s1, NEW c2, NEW s2, NEW c3, NEW s3,
           TreeOK(c1, s1), TreeOK(c2, s2), TreeOK(c3, s3), Evolves(c1, s1, c2, s2), Evolves(c2, s2, c3, s3)
    PROVE  Evolves(c1, s1, c3, s3)
<1>1. ASSUME NEW c \in DOMAIN c1 PROVE Keeps(c1[c], s1[c], c3[c], s3[c])
  <2>1. c \in DOMAIN c2 /\ c \in DOMAIN c3
    BY DEF Evolves
  <2>2. ScopeOK(c1[c], s1[c]) /\ ScopeOK(c2[c], s2[c]) /\ ScopeOK(c3[c], s3[c])
    BY <2>1 DEF TreeOK
  <2>3. Keeps(c1[c], s1[c], c2[c], s2[c]) /\ Keeps(c2[c], s2[c], c3[c], s3[c])
    BY <2>1 DEF Evolves
  <2> QED
    BY <2>2, <2>3, KeepsTransitive
<1> QED
  BY <1>1 DEF Evolves

LEMMA OpenGrows ==
    ASSUME NEW cs, NEW cs2, NEW os, OpenOK(cs, os), DOMAIN cs \subseteq DOMAIN cs2
    PROVE  OpenOK(cs2, os)
BY DEF OpenOK

LEMMA OpenPushed ==
    ASSUME NEW cs, NEW os, OpenOK(cs, os), NEW c \in DOMAIN cs, NEW by
    PROVE  OpenOK(cs, Append(os, [cont |-> c, by |-> by]))
<1> DEFINE new == [cont |-> c, by |-> by]
<1>1. DOMAIN new = {"cont", "by"} /\ new.cont \in DOMAIN cs
  OBVIOUS
<1> HIDE DEF new
<1>2. IsSeq(os) /\ Len(os) \in Nat /\ DOMAIN os = 1..Len(os)
  BY SeqFacts DEF OpenOK
<1>3. /\ IsSeq(Append(os, new)) /\ DOMAIN Append(os, new) = 1..(Len(os) + 1)
      /\ \A k \in 1..Len(os) : Append(os, new)[k] = os[k]
      /\ Append(os, new)[Len(os) + 1] = new
  BY <1>2, AppendFacts
<1>4. OpenOK(cs, Append(os, new))
  BY <1>1, <1>2, <1>3 DEF OpenOK
<1> QED
  BY <1>4 DEF new

LEMMA OpenPopped ==
    ASSUME NEW cs, NEW os, OpenOK(cs, os), NEW n \in 0..Len(os)
    PROVE  OpenOK(cs, SubSeq(os, 1, n))
<1>1. IsSeq(os) /\ Len(os) \in Nat /\ DOMAIN os = 1..Len(os)
  BY SeqFacts DEF OpenOK
<1>2. /\ IsSeq(SubSeq(os, 1, n)) /\ DOMAIN SubSeq(os, 1, n) = 1..n
      /\ \A k \in 1..n : SubSeq(os, 1, n)[k] = os[k]
  BY <1>1, SubSeqFacts
<1> QED
  BY <1>1, <1>2 DEF OpenOK

LEMMA TopExists ==
    ASSUME StateOK, open # << >>
    PROVE  Top.cont \in DOMAIN conts /\ Len(open) \in Nat /\ Len(open) > 0
<1>1. IsSeq(open)
  BY DEF StateOK, OpenOK
<1>2. open \in Seq({open[k] : k \in DOMAIN open})
  BY <1>1 DEF IsSeq
<1>3. Len(open) \in Nat /\ Len(open) > 0 /\ DOMAIN open = 1..Len(open)
  BY <1>2
<1> QED
  BY <1>3 DEF StateOK, OpenOK, Top

(***************************************************************************)
(* The steps.                                                              *)
(***************************************************************************)
Evolution == Evolves(conts, scopes, conts', scopes')

LEMMA PlaceSteps ==
    ASSUME StateOK, NEW c \in DOMAIN conts, NEW by, NEW item, WellFormed(c, item), Place(c, by, item)
    PROVE  TreeOK(conts', scopes') /\ Evolution /\ DOMAIN conts' = DOMAIN conts
<1> DEFINE cont2 == WithItem(conts[c], by, VecOf(c, item), item)
           sc2 == ScopeWithItem(c, by, item)
<1>1. TreeOK(conts, scopes) /\ ContOK(conts[c]) /\ ScopeOK(conts[c], scopes[c])
  BY DEF StateOK, TreeOK
<1>2. DOMAIN item = ItemFields
  BY DEF WellFormed
<1>3. ContOK(cont2) /\ ScopeOK(cont2, sc2) /\ Keeps(conts[c], scopes[c], cont2, sc2)
  BY <1>1, <1>2, ItemPlaced
<1>4. conts' = [conts EXCEPT ![c] = cont2] /\ scopes' = [scopes EXCEPT ![c] = sc2]
  BY DEF Place
<1> HIDE DEF cont2, sc2
<1> QED
  BY <1>1, <1>3, <1>4, ContChanged DEF Evolution

LEMMA PlaceWithBodySteps ==
    ASSUME StateOK, NEW c \in DOMAIN conts, NEW by, NEW item, WellFormed(c, item), HasBody(item),
           PlaceWithBody(c, by, item)
    PROVE  StateOK' /\ Evolution
<1> DEFINE body == Len(conts) + 1
           item2 == [item EXCEPT !.body = body]
           cont2 == WithItem(conts[c], by, VecOf(c, item), item2)
           sc2 == ScopeWithItem(c, by, item)
           cs == [conts EXCEPT ![c] = cont2]
           ss == [scopes EXCEPT ![c] = sc2]
           new == NewContainer(BodyKind(item), c)
<1>1. TreeOK(conts, scopes) /\ ContOK(conts[c]) /\ ScopeOK(conts[c], scopes[c]) /\ OpenOK(conts, open)
  BY DEF StateOK, TreeOK
<1>2. DOMAIN item2 = ItemFields /\ item2.sort = item.sort /\ item2.form = item.form
      /\ item2.kind = item.kind
  BY DEF WellFormed, ItemFields
<1>3. SlotSpace(item2) = SlotSpace(item)
  BY <1>2 DEF SlotSpace, IndexSpaceOf
<1> HIDE DEF item2
<1>4. ContOK(cont2) /\ ScopeOK(cont2, sc2) /\ Keeps(conts[c], scopes[c], cont2, sc2)
  BY <1>1, <1>2, <1>3, ItemPlaced
<1> HIDE DEF cont2, sc2
<1>5. TreeOK(cs, ss) /\ Evolves(conts, scopes, cs, ss) /\ DOMAIN cs = DOMAIN conts
  BY <1>1, <1>4, ContChanged
<1>6. BodyKind(item) \in Kinds
  BY DEF HasBody, BodyKind, Kinds
<1>7. conts' = Append(cs, new) /\ scopes' = Append(ss, NewScope)
  BY DEF PlaceWithBody, cont2, sc2, item2
<1> HIDE DEF cs, ss
<1>8. TreeOK(conts', scopes') /\ Evolves(cs, ss, conts', scopes') /\ DOMAIN conts' = DOMAIN cs \cup {Len(cs) + 1}
  BY <1>5, <1>6, <1>7, ContAdded
<1>9. Evolution
  BY <1>1, <1>5, <1>8, EvolvesTransitive DEF Evolution
<1>10. Len(cs) = Len(conts)
  BY <1>1, <1>5, ExceptFacts DEF cs, TreeOK
<1>11. body \in DOMAIN conts'
  BY <1>8, <1>10
<1>12. OpenOK(conts', open)
  BY <1>1, <1>9, OpenGrows DEF Evolution, Evolves
<1>13. open' = Append(open, [cont |-> body, by |-> IF by = "api" THEN "api" ELSE "parse"])
  BY DEF PlaceWithBody
<1>14. OpenOK(conts', open')
  BY <1>11, <1>12, <1>13, OpenPushed
<1> QED
  BY <1>8, <1>9, <1>14 DEF StateOK

LEMMA OpenComponentSteps ==
    ASSUME StateOK, NEW c \in DOMAIN conts, NEW by, OpenComponent(c, by)
    PROVE  StateOK' /\ Evolution
<1>1. TreeOK(conts, scopes) /\ OpenOK(conts, open) /\ "Component" \in Kinds
  BY DEF StateOK, Kinds
<1>2. /\ TreeOK(conts', scopes') /\ Evolution
      /\ DOMAIN conts' = DOMAIN conts \cup {Len(conts) + 1}
  BY <1>1, ContAdded DEF OpenComponent, Evolution
<1>3. OpenOK(conts', open)
  BY <1>1, <1>2, OpenGrows
<1>4. OpenOK(conts', open')
  BY <1>2, <1>3, OpenPushed DEF OpenComponent
<1> QED
  BY <1>2, <1>4 DEF StateOK

\* Changes of one container that leave its items what they are.
LEMMA SameItemsSteps ==
    ASSUME StateOK, NEW c \in DOMAIN conts, NEW cont2, ContOK(cont2),
           cont2.kind = conts[c].kind, cont2.parent = conts[c].parent, KeepsItems(conts[c].vec, cont2.vec),
           conts' = [conts EXCEPT ![c] = cont2], UNCHANGED << scopes, open >>
    PROVE  StateOK' /\ Evolution
<1>1. TreeOK(conts, scopes) /\ OpenOK(conts, open) /\ ScopeOK(conts[c], scopes[c])
  BY DEF StateOK, TreeOK
<1>2. ScopeOK(cont2, scopes[c]) /\ Keeps(conts[c], scopes[c], cont2, scopes[c])
  BY <1>1, KeepsScope
<1>3. DOMAIN scopes = DOMAIN conts /\ IsSeq(scopes)
  BY <1>1, TreeDomains DEF TreeOK
<1>4. conts' = [conts EXCEPT ![c] = cont2] /\ scopes' = [scopes EXCEPT ![c] = scopes[c]]
  BY <1>3 DEF IsSeq
<1>5. c \in DOMAIN conts /\ ContOK(cont2) /\ open' = open
  OBVIOUS
<1>6. TreeOK(conts', scopes') /\ Evolves(conts, scopes, conts', scopes') /\ DOMAIN conts' = DOMAIN conts
  BY ONLY <1>1, <1>2, <1>4, <1>5, ContChanged
<1>7. OpenOK(conts', open')
  BY <1>1, <1>5, <1>6, OpenGrows
<1> QED
  BY <1>6, <1>7 DEF StateOK, Evolution

LEMMA SectionsChanged ==
    ASSUME StateOK, NEW c \in DOMAIN conts, NEW cont2, DOMAIN cont2 = DOMAIN conts[c],
           cont2.kind = conts[c].kind, cont2.parent = conts[c].parent, cont2.vec = conts[c].vec,
           conts' = [conts EXCEPT ![c] = cont2], UNCHANGED << scopes, open >>
    PROVE  StateOK' /\ Evolution
<1>1. ContOK(conts[c])
  BY DEF StateOK, TreeOK
<1>2. ContOK(cont2)
  BY <1>1 DEF ContOK
<1>3. KeepsItems(conts[c].vec, cont2.vec)
  BY KeepsAll
<1> QED
  BY <1>2, <1>3, SameItemsSteps

\* A field of one item changes that is not part of what the item is.
LEMMA ItemTouched ==
    ASSUME StateOK, NEW c \in DOMAIN conts, NEW v \in VecKinds, NEW i \in DOMAIN conts[c].vec[v],
           NEW item, DOMAIN item = ItemFields, Identity(item) = Identity(conts[c].vec[v][i]),
           conts' = [conts EXCEPT ![c].vec[v][i] = item],
           UNCHANGED << scopes, open >>
    PROVE  StateOK' /\ Evolution
<1> DEFINE vec == conts[c].vec
           vec2 == [vec EXCEPT ![v] = [vec[v] EXCEPT ![i] = item]]
           cont2 == [conts[c] EXCEPT !.vec = vec2]
<1>1. ContOK(conts[c])
  BY DEF StateOK, TreeOK
<1>2. DOMAIN vec = VecKinds /\ IsSeq(vec[v])
  BY <1>1 DEF ContOK, VecOK
<1>3. vec2[v] = [vec[v] EXCEPT ![i] = item] /\ DOMAIN vec2 = VecKinds /\ \A w \in VecKinds : w # v => vec2[w] = vec[w]
  BY <1>2
<1>4. /\ IsSeq(vec2[v]) /\ DOMAIN vec2[v] = DOMAIN vec[v]
      /\ vec2[v][i] = item
      /\ \A k \in DOMAIN vec[v] : k # i => vec2[v][k] = vec[v][k]
  BY <1>2, <1>3, ExceptFacts
<1> HIDE DEF vec2
<1>5. VecOK(vec2)
  <2>1. ASSUME NEW w \in VecKinds PROVE IsSeq(vec2[w]) /\ \A k \in DOMAIN vec2[w] : DOMAIN vec2[w][k] = ItemFields
    <3>1. CASE w = v
      BY <3>1, <1>1, <1>4 DEF ContOK, VecOK
    <3>2. CASE w # v
      BY <3>2, <1>1, <1>3 DEF ContOK, VecOK
    <3> QED
      BY <3>1, <3>2
  <2> QED
    BY <2>1, <1>3 DEF VecOK
<1>6. KeepsItems(vec, vec2)
  <2>1. ASSUME NEW w \in VecKinds, NEW k \in DOMAIN vec[w]
        PROVE  k \in DOMAIN vec2[w] /\ Identity(vec2[w][k]) = Identity(vec[w][k])
    <3>1. CASE w = v /\ k = i
      BY <3>1, <1>4
    <3>2. CASE ~(w = v /\ k = i)
      <4>1. k \in DOMAIN vec2[w] /\ vec2[w][k] = vec[w][k]
        BY <3>2, <1>3, <1>4
      <4> QED
        BY <4>1
    <3> QED
      BY <3>1, <3>2
  <2> QED
    BY <2>1 DEF KeepsItems
<1>7. /\ DOMAIN cont2 = {"kind", "parent", "vec", "sections", "names"}
      /\ cont2.kind = conts[c].kind /\ cont2.parent = conts[c].parent /\ cont2.vec = vec2
  BY <1>1 DEF ContOK
<1>8. conts' = [conts EXCEPT ![c] = cont2]
  BY DEF vec2
<1> HIDE DEF cont2
<1>9. ContOK(cont2)
  BY <1>1, <1>5, <1>7 DEF ContOK
<1> QED
  BY <1>6, <1>7, <1>8, <1>9, SameItemsSteps

LEMMA OpenNotEmpty ==
    ASSUME StateOK, open # << >>
    PROVE  /\ Top.cont \in DOMAIN conts /\ Len(open) - 1 \in 0..Len(open)
           /\ TreeOK(conts, scopes) /\ OpenOK(conts, open)
BY TopExists DEF StateOK

LEMMA NothingChanges ==
    ASSUME StateOK, UNCHANGED << conts, scopes >>, OpenOK(conts, open')
    PROVE  StateOK' /\ Evolution
<1>1. TreeOK(conts, scopes) /\ conts' = conts /\ scopes' = scopes
  BY DEF StateOK
<1>2. Evolves(conts, scopes, conts, scopes)
  BY <1>1, EvolvesSelf
<1> QED
  BY <1>1, <1>2 DEF StateOK, Evolution

LEMMA NestedIsWellFormed == ASSUME NEW p, NEW c PROVE WellFormed(p, NestedComponent(c))
<1> DEFINE item == NestedComponent(c)
<1>1. /\ DOMAIN item = ItemFields /\ item.sort = "Component" /\ item.results = 0 /\ item.subs = << >>
  BY DEF NestedComponent, Item, ItemFields
<1> HIDE DEF item
<1>2. WellFormed(p, item)
  BY <1>1 DEF WellFormed, SectionKinds
<1> QED
  BY <1>2 DEF item

LEMMA CloseSteps ==
    ASSUME StateOK, open # << >>, NEW by, Close(by)
    PROVE  StateOK' /\ Evolution
<1>1. /\ Top.cont \in DOMAIN conts /\ Len(open) - 1 \in 0..Len(open)
      /\ TreeOK(conts, scopes) /\ OpenOK(conts, open)
  BY OpenNotEmpty
<1>2. open' = SubSeq(open, 1, Len(open) - 1)
  BY DEF Close
<1>3. OpenOK(conts, open')
  BY <1>1, <1>2, OpenPopped
<1>4. CASE IsComponent(Top.cont) /\ Top.cont # 1
  <2> DEFINE p == conts[Top.cont].parent
  <2>1. p \in DOMAIN conts
    BY <1>1, <1>4 DEF TreeOK
  <2>2. WellFormed(p, NestedComponent(Top.cont))
    BY NestedIsWellFormed
  <2>3. Place(p, by, NestedComponent(Top.cont))
    BY <1>4 DEF Close
  <2> HIDE DEF p
  <2>4. TreeOK(conts', scopes') /\ Evolution /\ DOMAIN conts' = DOMAIN conts
    BY <2>1, <2>2, <2>3, PlaceSteps
  <2>5. OpenOK(conts', open')
    BY <1>3, <2>4, OpenGrows
  <2> QED
    BY <2>4, <2>5 DEF StateOK
<1>5. CASE ~(IsComponent(Top.cont) /\ Top.cont # 1)
  BY <1>3, <1>5, NothingChanges DEF Close
<1> QED
  BY <1>4, <1>5

LEMMA PlaceOnlySteps ==
    ASSUME StateOK, NEW c \in DOMAIN conts, NEW by, NEW item, WellFormed(c, item), Place(c, by, item),
           UNCHANGED open
    PROVE  StateOK' /\ Evolution
<1>1. TreeOK(conts', scopes') /\ Evolution /\ DOMAIN conts' = DOMAIN conts
  BY PlaceSteps
<1>2. OpenOK(conts, open) /\ open' = open
  BY DEF StateOK
<1>3. OpenOK(conts', open')
  BY <1>1, <1>2, OpenGrows
<1> QED
  BY <1>1, <1>3 DEF StateOK

\* Reading.
LEMMA ReadSteps == ASSUME StateOK, Read PROVE StateOK' /\ Evolution
<1> DEFINE t == Top.cont
<1>1. CASE ReadSection
  <2>1. t \in DOMAIN conts
    BY <1>1, OpenNotEmpty DEF ReadSection, Token
  <2> DEFINE cont2 == [conts[t] EXCEPT !.sections = Append(@, [kind |-> Head(input).kind, count |-> 0])]
  <2>2. conts' = [conts EXCEPT ![t] = cont2] /\ UNCHANGED << scopes, open >>
    BY <1>1 DEF ReadSection
  <2>3. /\ DOMAIN cont2 = DOMAIN conts[t]
        /\ cont2.kind = conts[t].kind /\ cont2.parent = conts[t].parent /\ cont2.vec = conts[t].vec
    OBVIOUS
  <2> HIDE DEF cont2, t
  <2> QED
    BY <2>1, <2>2, <2>3, SectionsChanged
<1>2. CASE ReadNames
  <2>1. t \in DOMAIN conts
    BY <1>2, OpenNotEmpty DEF ReadNames, Token
  <2> DEFINE cont2 == [conts[t] EXCEPT !.names[Head(input).space] = @ \cup Head(input).ids]
  <2>2. conts' = [conts EXCEPT ![t] = cont2] /\ UNCHANGED << scopes, open >>
    BY <1>2 DEF ReadNames
  <2>3. /\ DOMAIN cont2 = DOMAIN conts[t]
        /\ cont2.kind = conts[t].kind /\ cont2.parent = conts[t].parent /\ cont2.vec = conts[t].vec
    OBVIOUS
  <2> HIDE DEF cont2, t
  <2> QED
    BY <2>1, <2>2, <2>3, SectionsChanged
<1>3. CASE ReadItem
  <2>1. t \in DOMAIN conts
    BY <1>3, OpenNotEmpty DEF ReadItem, Token
  <2>2. /\ WellFormed(t, Head(input).item)
        /\ Place(t, Top.by, Head(input).item) /\ UNCHANGED open
    BY <1>3 DEF ReadItem
  <2> HIDE DEF t
  <2> QED
    BY <2>1, <2>2, PlaceOnlySteps
<1>4. CASE ReadType
  <2>1. t \in DOMAIN conts
    BY <1>4, OpenNotEmpty DEF ReadType, Token
  <2>2. /\ WellFormed(t, Head(input).item) /\ HasBody(Head(input).item)
        /\ PlaceWithBody(t, Top.by, Head(input).item)
    BY <1>4 DEF ReadType
  <2> HIDE DEF t
  <2> QED
    BY <2>1, <2>2, PlaceWithBodySteps
<1>5. CASE ReadComponent
  <2>1. t \in DOMAIN conts
    BY <1>5, OpenNotEmpty DEF ReadComponent, Token
  <2>2. OpenComponent(t, "parse")
    BY <1>5 DEF ReadComponent
  <2> HIDE DEF t
  <2> QED
    BY <2>1, <2>2, OpenComponentSteps
<1>6. CASE ReadEnd
  BY <1>6, CloseSteps DEF ReadEnd, Token
<1>7. CASE ParseFails
  <2>1. PICK k \in DOMAIN open : open' = SubSeq(open, 1, k - 1)
    BY <1>7 DEF ParseFails
  <2>2. OpenOK(conts, open) /\ Len(open) \in Nat /\ DOMAIN open = 1..Len(open)
    BY SeqFacts DEF StateOK, OpenOK
  <2>3. k - 1 \in 0..Len(open)
    BY <2>2
  <2>4. OpenOK(conts, open')
    BY <2>1, <2>2, <2>3, OpenPopped
  <2> QED
    BY <1>7, <2>4, NothingChanges DEF ParseFails
<1> QED
  BY <1>1, <1>2, <1>3, <1>4, <1>5, <1>6, <1>7 DEF Read

\* Editing.
LEMMA AddItemSteps ==
    ASSUME StateOK, NEW c \in DOMAIN conts, NEW item, NEW decls, AddItem(c, item, decls)
    PROVE  StateOK' /\ Evolution
<1>1. WellFormed(c, item)
  BY DEF AddItem
<1>2. CASE HasBody(item)
  BY <1>1, <1>2, PlaceWithBodySteps DEF AddItem
<1>3. CASE ~HasBody(item)
  BY <1>1, <1>3, PlaceOnlySteps DEF AddItem
<1> QED
  BY <1>2, <1>3

LEMMA DeleteSteps ==
    ASSUME StateOK, NEW c \in DOMAIN conts, NEW id \in Nat, DeleteCustomSection(c, id)
    PROVE  StateOK' /\ Evolution
<1> DEFINE vec == conts[c].vec["CustomSection"]
           item == [vec[id + 1] EXCEPT !.live = FALSE]
<1>1. /\ IsSeq(vec) /\ "CustomSection" \in VecKinds
      /\ \A i \in DOMAIN vec : DOMAIN vec[i] = ItemFields
  BY DEF StateOK, TreeOK, ContOK, VecOK, VecKinds, SectionKinds
<1>2. CASE id < Len(vec)
  <2>1. id + 1 \in DOMAIN vec
    BY <1>1, <1>2, SeqFacts
  <2>2. DOMAIN item = ItemFields /\ Identity(item) = Identity(vec[id + 1])
    BY <1>1, <2>1 DEF Identity, ItemFields
  <2>3. conts' = [conts EXCEPT ![c].vec["CustomSection"][id + 1] = item] /\ UNCHANGED << scopes, open >>
    BY <1>2 DEF DeleteCustomSection
  <2> HIDE DEF item
  <2> QED
    BY <1>1, <2>1, <2>2, <2>3, ItemTouched
<1>3. CASE ~(id < Len(vec))
  <2>1. UNCHANGED << conts, scopes >> /\ open' = open
    BY <1>3 DEF DeleteCustomSection
  <2>2. OpenOK(conts, open')
    BY <2>1 DEF StateOK
  <2> QED
    BY <2>1, <2>2, NothingChanges
<1> QED
  BY <1>2, <1>3

LEMMA RedirectSteps ==
    ASSUME StateOK, NEW c \in DOMAIN conts, NEW v \in VecKinds, NEW idx \in Nat, idx < Len(conts[c].vec[v]),
           NEW field, NEW ref, Redirect(c, v, idx, field, ref)
    PROVE  StateOK' /\ Evolution
<1> DEFINE vec == conts[c].vec[v]
           item == [vec[idx + 1] EXCEPT !.refs[field] = ref]
<1>1. IsSeq(vec) /\ \A i \in DOMAIN vec : DOMAIN vec[i] = ItemFields
  BY DEF StateOK, TreeOK, ContOK, VecOK
<1>2. idx + 1 \in DOMAIN vec
  BY <1>1, SeqFacts
<1>3. DOMAIN item = ItemFields /\ Identity(item) = Identity(vec[idx + 1])
  BY <1>1, <1>2 DEF Identity, ItemFields
<1>4. conts' = [conts EXCEPT ![c].vec[v][idx + 1] = item] /\ UNCHANGED << scopes, open >>
  BY DEF Redirect
<1> HIDE DEF item
<1> QED
  BY <1>2, <1>3, <1>4, ItemTouched

LEMMA EditSteps == ASSUME StateOK, Edit PROVE StateOK' /\ Evolution
<1>0. PICK c \in DOMAIN conts : \E e \in Client(c, edits, conts, scopes) :
        \/ e.op = "item" /\ AddItem(c, e.item, e.decls)
        \/ e.op = "component" /\ BeginComponent(c)
        \/ e.op = "bytes" /\ AddComponentFromBytes(c, e.binary)
        \/ e.op = "delete" /\ e.id \in Nat /\ DeleteCustomSection(c, e.id)
        \/ e.op = "redirect" /\ e.vec \in VecKinds /\ e.idx \in Nat /\ e.idx < Len(conts[c].vec[e.vec])
              /\ e.field \in DOMAIN conts[c].vec[e.vec][e.idx + 1].refs
              /\ Redirect(c, e.vec, e.idx, e.field, e.ref)
  BY DEF Edit
<1>1. PICK e \in Client(c, edits, conts, scopes) :
        \/ e.op = "item" /\ AddItem(c, e.item, e.decls)
        \/ e.op = "component" /\ BeginComponent(c)
        \/ e.op = "bytes" /\ AddComponentFromBytes(c, e.binary)
        \/ e.op = "delete" /\ e.id \in Nat /\ DeleteCustomSection(c, e.id)
        \/ e.op = "redirect" /\ e.vec \in VecKinds /\ e.idx \in Nat /\ e.idx < Len(conts[c].vec[e.vec])
              /\ e.field \in DOMAIN conts[c].vec[e.vec][e.idx + 1].refs
              /\ Redirect(c, e.vec, e.idx, e.field, e.ref)
  BY <1>0
<1>2. CASE AddItem(c, e.item, e.decls)
  BY <1>2, AddItemSteps
<1>3. CASE BeginComponent(c)
  BY <1>3, OpenComponentSteps DEF BeginComponent
<1>4. CASE AddComponentFromBytes(c, e.binary)
  BY <1>4, OpenComponentSteps DEF AddComponentFromBytes
<1>5. CASE e.id \in Nat /\ DeleteCustomSection(c, e.id)
  BY <1>5, DeleteSteps
<1>6. CASE e.vec \in VecKinds /\ e.idx \in Nat /\ e.idx < Len(conts[c].vec[e.vec]) /\ Redirect(c, e.vec, e.idx, e.field, e.ref)
  BY <1>6, RedirectSteps
<1> QED
  BY <1>1, <1>2, <1>3, <1>4, <1>5, <1>6

LEMMA EndComponentSteps == ASSUME StateOK, EndComponent PROVE StateOK' /\ Evolution
BY CloseSteps DEF EndComponent

\* Looking up.
LEMMA LookUpSteps ==
    ASSUME StateOK, NEW asked, LookUp(asked)
    PROVE  StateOK' /\ Evolution
<1> DEFINE sc(c) == [sp \in Space |-> RememberIndices(scopes[c][sp], asked[c][sp])]
<1>1. /\ conts' = conts /\ open' = open
      /\ scopes' = [c \in DOMAIN scopes |-> sc(c)]
  BY DEF LookUp
<1>2. TreeOK(conts, scopes) /\ OpenOK(conts, open)
  BY DEF StateOK
<1>3. /\ Len(conts) \in Nat /\ DOMAIN conts = 1..Len(conts) /\ Len(conts) > 0
      /\ DOMAIN scopes = 1..Len(conts) /\ IsSeq(conts)
  BY <1>2, TreeDomains DEF TreeOK
<1>4. ASSUME NEW c \in DOMAIN conts
      PROVE  /\ ContOK(conts[c]) /\ ScopeOK(conts[c], sc(c)) /\ Keeps(conts[c], scopes[c], conts[c], sc(c))
             /\ conts[c].parent \in IF c = 1 THEN {0} ELSE DOMAIN conts
  <2>1. /\ ContOK(conts[c]) /\ ScopeOK(conts[c], scopes[c])
        /\ conts[c].parent \in IF c = 1 THEN {0} ELSE DOMAIN conts
    BY <1>2 DEF TreeOK
  <2>2. ASSUME NEW sp \in Space
        PROVE  Good(conts[c].kind, conts[c].vec, sp, sc(c)[sp]) /\ KeepsIds(scopes[c][sp], sc(c)[sp])
    <3> DEFINE s == scopes[c][sp]
               t == RememberIndices(s, asked[c][sp])
    <3>1. SpaceOK(s) /\ Points(conts[c].kind, conts[c].vec, sp, s)
      BY <2>1 DEF ScopeOK, Good
    <3>2. sc(c)[sp] = t
      OBVIOUS
    <3>3. SpaceOK(t) /\ t.next = s.next /\ t.entries = s.entries /\ \A id : FullLookup(t, id) = FullLookup(s, id)
      BY <3>1, RememberKeeps
    <3>4. s.next \in Nat
      BY <3>1 DEF SpaceOK, SpaceShape
    <3> HIDE DEF s, t
    <3>5. Points(conts[c].kind, conts[c].vec, sp, t)
      BY <3>1, <3>3 DEF Points
    <3>6. KeepsIds(s, t)
      BY <3>3, <3>4 DEF KeepsIds
    <3>7. Good(conts[c].kind, conts[c].vec, sp, t)
      BY <3>3, <3>5 DEF Good
    <3> QED
      BY <3>2, <3>6, <3>7 DEF s
  <2>3. DOMAIN sc(c) = Space
    OBVIOUS
  <2>4. KeepsItems(conts[c].vec, conts[c].vec)
    BY KeepsAll
  <2> HIDE DEF sc
  <2> QED
    BY <2>1, <2>2, <2>3, <2>4 DEF ScopeOK, Keeps
<1> HIDE DEF sc
<1>5. IsSeq(scopes') /\ Len(scopes') = Len(conts) /\ \A c \in DOMAIN conts : scopes'[c] = sc(c)
  <2> DEFINE n == Len(conts)
             S == {scopes'[c] : c \in 1..n}
  <2>1. scopes' = [c \in 1..n |-> sc(c)]
    BY <1>1, <1>3
  <2>2. DOMAIN scopes' = 1..n /\ scopes' \in [1..n -> S]
    BY <2>1
  <2> HIDE DEF n
  <2>3. n \in Nat
    BY <1>3 DEF n
  <2>4. scopes' \in Seq(S) /\ Len(scopes') = n
    BY <2>2, <2>3
  <2> QED
    BY <2>1, <2>2, <2>4, <1>3 DEF IsSeq, n
<1>6. TreeOK(conts', scopes') /\ Evolution
  BY <1>1, <1>3, <1>4, <1>5 DEF TreeOK, Evolution, Evolves
<1> QED
  BY <1>1, <1>2, <1>6 DEF StateOK

(***************************************************************************)
(* The invariant.                                                          *)
(***************************************************************************)
LEMMA InitOK == ASSUME Init PROVE StateOK
<1> DEFINE root == NewContainer("Component", 0)
           at == [cont |-> 1, by |-> "parse"]
<1>1. conts = << root >> /\ scopes = << NewScope >> /\ open = << at >>
  BY DEF Init
<1>2. ContOK(root) /\ root.parent = 0 /\ ScopeOK(root, NewScope)
  BY NewContainerOK DEF Kinds
<1>3. DOMAIN at = {"cont", "by"} /\ at.cont = 1
  OBVIOUS
<1> HIDE DEF root, at
<1>4. /\ IsSeq(conts) /\ Len(conts) = 1 /\ DOMAIN conts = {1} /\ conts[1] = root
      /\ IsSeq(scopes) /\ Len(scopes) = 1 /\ scopes[1] = NewScope
      /\ IsSeq(open) /\ DOMAIN open = {1} /\ open[1] = at
  BY <1>1 DEF IsSeq
<1> QED
  BY <1>2, <1>3, <1>4 DEF StateOK, TreeOK, OpenOK

LEMMA StepOK == ASSUME StateOK, [Next]_irVars PROVE StateOK' /\ Evolution
<1>1. CASE Read
  BY <1>1, ReadSteps
<1>2. CASE Edit
  BY <1>2, EditSteps
<1>3. CASE EndComponent
  BY <1>3, EndComponentSteps
<1>4. CASE \E asked \in [DOMAIN conts -> [Space -> SUBSET Nat]] : LookUp(asked)
  BY <1>4, LookUpSteps
<1>5. CASE UNCHANGED irVars
  <2>1. UNCHANGED << conts, scopes, open >> /\ OpenOK(conts, open')
    BY <1>5 DEF irVars, StateOK
  <2> QED
    BY <2>1, NothingChanges
<1> QED
  BY <1>1, <1>2, <1>3, <1>4, <1>5 DEF Next

LEMMA StateInvariant == IRSpec => []StateOK
<1>1. Init => StateOK
  BY InitOK
<1>2. StateOK /\ [Next]_irVars => StateOK'
  BY StepOK
<1> QED
  BY <1>1, <1>2, PTL DEF IRSpec

LEMMA StateTyped == ASSUME StateOK PROVE TypeOK
<1>1. /\ IsSeq(conts) /\ IsSeq(scopes) /\ Len(scopes) = Len(conts) /\ Len(conts) > 0
      /\ DOMAIN scopes = DOMAIN conts
  BY TreeDomains DEF StateOK, TreeOK
<1>2. ASSUME NEW c \in DOMAIN conts
      PROVE  /\ DOMAIN conts[c] = {"kind", "parent", "vec", "sections", "names"}
             /\ conts[c].kind \in {"Component", "ComponentBody", "InstanceBody", "ModuleBody"}
             /\ conts[c].parent \in IF c = 1 THEN {0} ELSE DOMAIN conts
             /\ DOMAIN conts[c].vec = VecKinds
             /\ \A v \in VecKinds :
                   /\ IsSeq(conts[c].vec[v])
                   /\ \A i \in DOMAIN conts[c].vec[v] : DOMAIN conts[c].vec[v][i] = ItemFields
  BY DEF StateOK, TreeOK, ContOK, VecOK, Kinds
<1>3. ASSUME NEW c \in DOMAIN conts, NEW sp \in Space
      PROVE  DOMAIN scopes[c][sp] = {"next", "entries", "cache"} /\ scopes[c][sp].next \in Nat
  BY DEF StateOK, TreeOK, ScopeOK, Good, SpaceOK, SpaceShape
<1>4. \A c \in DOMAIN conts : DOMAIN scopes[c] = Space
  BY DEF StateOK, TreeOK, ScopeOK
<1>5. IsSeq(open) /\ \A k \in DOMAIN open : DOMAIN open[k] = {"cont", "by"} /\ open[k].cont \in DOMAIN conts
  BY DEF StateOK, OpenOK
<1> QED
  BY <1>1, <1>2, <1>3, <1>4, <1>5 DEF TypeOK

LEMMA SpaceFacts ==
    ASSUME StateOK, NEW c \in DOMAIN conts, NEW sp \in Space
    PROVE  /\ EntriesOK(scopes[c][sp]) /\ CacheOK(scopes[c][sp])
           /\ \A e \in scopes[c][sp].entries :
                 /\ Slot(c, sp, e) \in VecKinds
                 /\ e.idx + 1 \in DOMAIN conts[c].vec[Slot(c, sp, e)]
                 /\ SlotSpace(conts[c].vec[Slot(c, sp, e)][e.idx + 1]) = sp
<1>1. Good(conts[c].kind, conts[c].vec, sp, scopes[c][sp])
  BY DEF StateOK, TreeOK, ScopeOK
<1>2. \A e : Slot(c, sp, e) = SlotIn(conts[c].kind, sp, e.map)
  BY DEF Slot, SlotIn, IsComponent
<1> QED
  BY <1>1, <1>2 DEF Good, SpaceOK, Points

LEMMA StateResolves == ASSUME StateOK PROVE IdsResolve /\ CacheSound
<1>1. DOMAIN scopes = DOMAIN conts
  BY TreeDomains DEF StateOK
<1>2. IdsResolve
  BY <1>1, SpaceFacts DEF IdsResolve, EntriesOK
<1>3. CacheSound
  BY <1>1, SpaceFacts DEF CacheSound, CacheOK
<1> QED
  BY <1>2, <1>3

(***************************************************************************)
(* What the ids stand for.                                                 *)
(***************************************************************************)
Handle(c, sp, id) == [scope |-> c, space |-> sp, id |-> id, item |-> Stands(c, sp, id)]

LEMMA HandedOutFacts ==
    ASSUME StateOK
    PROVE  \A x : x \in HandedOut <=>
              \E c \in DOMAIN conts : \E sp \in Space : \E id \in 0..(scopes[c][sp].next - 1) : x = Handle(c, sp, id)
<1>1. DOMAIN scopes = DOMAIN conts
  BY TreeDomains DEF StateOK
<1> QED
  BY <1>1 DEF HandedOut, Handle

\* What an id stands for does not change.
LEMMA HandleKept ==
    ASSUME StateOK, StateOK', Evolution, NEW c \in DOMAIN conts, NEW sp \in Space,
           NEW id \in 0..(scopes[c][sp].next - 1)
    PROVE  /\ c \in DOMAIN conts' /\ id \in 0..(scopes'[c][sp].next - 1)
           /\ Handle(c, sp, id)' = Handle(c, sp, id)
<1> DEFINE s == scopes[c][sp]
           found == FullLookup(s, id)
           v == SlotIn(conts[c].kind, sp, found.map)
<1>1. c \in DOMAIN conts' /\ Keeps(conts[c], scopes[c], conts'[c], scopes'[c])
  BY DEF Evolution, Evolves
<1>2. conts'[c].kind = conts[c].kind /\ KeepsItems(conts[c].vec, conts'[c].vec) /\ KeepsIds(s, scopes'[c][sp])
  BY <1>1 DEF Keeps
<1>3. s.next \in Nat /\ scopes'[c][sp].next \in Nat
  BY <1>1 DEF StateOK, TreeOK, ScopeOK, Good, SpaceOK, SpaceShape
<1>4. id \in 0..(scopes'[c][sp].next - 1) /\ FullLookup(scopes'[c][sp], id) = found
  BY <1>2, <1>3 DEF KeepsIds
<1>5. EntriesOK(s) /\ Points(conts[c].kind, conts[c].vec, sp, s)
  BY DEF StateOK, TreeOK, ScopeOK, Good, SpaceOK
<1>6. v \in VecKinds /\ found.idx + 1 \in DOMAIN conts[c].vec[v]
  <2>1. PICK e \in s.entries : found.map = e.map /\ found.idx = e.idx
    BY <1>5, LookupFacts
  <2> QED
    BY <1>5, <2>1 DEF Points
<1>7. Identity(conts'[c].vec[v][found.idx + 1]) = Identity(conts[c].vec[v][found.idx + 1])
  BY <1>2, <1>6 DEF KeepsItems
<1>8. Stands(c, sp, id) = << found, Identity(conts[c].vec[v][found.idx + 1]) >>
  BY DEF Stands, Slot, SlotIn, IsComponent
<1>9. Stands(c, sp, id)' = << found, Identity(conts'[c].vec[v][found.idx + 1]) >>
  BY <1>2, <1>4 DEF Stands, Slot, SlotIn, IsComponent
<1>10. Stands(c, sp, id)' = Stands(c, sp, id)
  BY <1>7, <1>8, <1>9
<1> QED
  BY <1>1, <1>4, <1>10 DEF Handle

\* No two ids of a space stand for the same.
LEMMA HandlesDiffer ==
    ASSUME StateOK, NEW x \in HandedOut, NEW y \in HandedOut, StableIds!Clash(x, y)
    PROVE  x = y
<1>1. PICK c \in DOMAIN conts : \E sp \in Space : \E id \in 0..(scopes[c][sp].next - 1) : x = Handle(c, sp, id)
  BY HandedOutFacts
<1>2. PICK sp \in Space : \E id \in 0..(scopes[c][sp].next - 1) : x = Handle(c, sp, id)
  BY <1>1
<1>3. PICK i \in 0..(scopes[c][sp].next - 1) : x = Handle(c, sp, i)
  BY <1>2
<1>4. PICK d \in DOMAIN conts : \E sq \in Space : \E id \in 0..(scopes[d][sq].next - 1) : y = Handle(d, sq, id)
  BY HandedOutFacts
<1>5. PICK sq \in Space : \E id \in 0..(scopes[d][sq].next - 1) : y = Handle(d, sq, id)
  BY <1>4
<1>6. PICK j \in 0..(scopes[d][sq].next - 1) : y = Handle(d, sq, j)
  BY <1>5
<1>7. /\ x.scope = c /\ x.space = sp /\ x.id = i /\ x.item = Stands(c, sp, i)
      /\ y.scope = d /\ y.space = sq /\ y.id = j /\ y.item = Stands(d, sq, j)
  BY <1>3, <1>6 DEF Handle
<1>8. c = d /\ sp = sq /\ (i = j \/ Stands(c, sp, i) = Stands(c, sp, j))
  BY <1>7 DEF StableIds!Clash
<1>9. EntriesOK(scopes[c][sp])
  BY DEF StateOK, TreeOK, ScopeOK, Good, SpaceOK
<1>10. CASE i = j
  BY <1>3, <1>6, <1>8, <1>10
<1>11. CASE Stands(c, sp, i) = Stands(c, sp, j)
  <2>1. FullLookup(scopes[c][sp], i) = FullLookup(scopes[c][sp], j)
    BY <1>11 DEF Stands
  <2>2. i = j
    BY <1>8, <1>9, <2>1, LookupInjective
  <2> QED
    BY <1>3, <1>6, <1>8, <2>2
<1> QED
  BY <1>8, <1>10, <1>11

LEMMA NoClash == StateOK => \A x, y \in HandedOut : StableIds!Clash(x, y) => x = y
BY HandlesDiffer

LEMMA NothingHandedOut == ASSUME Init PROVE HandedOut = {}
<1>1. StateOK
  BY InitOK
<1>2. scopes = << NewScope >> /\ DOMAIN conts = {1}
  BY DEF Init
<1>3. \A sp \in Space : scopes[1][sp].next = 0
  BY <1>2 DEF NewScope, EmptySpace
<1>4. \A x : x \notin HandedOut
  BY <1>1, <1>2, <1>3, HandedOutFacts
<1> QED
  BY <1>4

LEMMA StepAllocates == ASSUME StateOK, [Next]_irVars PROVE StableIds!Allocate
<1>1. StateOK' /\ Evolution
  BY StepOK
<1>2. HandedOut \subseteq HandedOut'
  <2>1. ASSUME NEW x \in HandedOut PROVE x \in HandedOut'
    <3>1. PICK c \in DOMAIN conts : \E sp \in Space : \E id \in 0..(scopes[c][sp].next - 1) : x = Handle(c, sp, id)
      BY HandedOutFacts
    <3>2. PICK sp \in Space : \E id \in 0..(scopes[c][sp].next - 1) : x = Handle(c, sp, id)
      BY <3>1
    <3>3. PICK id \in 0..(scopes[c][sp].next - 1) : x = Handle(c, sp, id)
      BY <3>2
    <3>4. c \in DOMAIN conts' /\ id \in 0..(scopes'[c][sp].next - 1) /\ Handle(c, sp, id)' = Handle(c, sp, id)
      BY <1>1, HandleKept
    <3>5. DOMAIN scopes' = DOMAIN conts'
      BY <1>1, TreeDomains DEF StateOK
    <3> QED
      BY <3>3, <3>4, <3>5 DEF HandedOut, Handle
  <2> QED
    BY <2>1
<1>3. \A x, y \in HandedOut' : StableIds!Clash(x, y) => x = y
  <2>1. (StateOK => \A x, y \in HandedOut : StableIds!Clash(x, y) => x = y)'
    BY NoClash, PTL
  <2> QED
    BY <1>1, <2>1 DEF StableIds!Clash
<1> QED
  BY <1>2, <1>3 DEF StableIds!Allocate

(***************************************************************************)
(* The theorems.                                                           *)
(***************************************************************************)
\* Reading, editing and looking up keep the shape of the state: each container with its
\* vectors and its scope, a parent for all but the root, and nothing open that is not there.
THEOREM ComponentTypeCorrect == IRSpec => []TypeOK
<1>1. StateOK => TypeOK
  BY StateTyped
<1> QED
  BY <1>1, StateInvariant, PTL

\* Every id an index space handed out has exactly one entry, which points at an item of that
\* space: no typed id dangles or means an item of another kind (idx_spaces.rs).
THEOREM IdsResolveHolds == IRSpec => []IdsResolve
<1>1. StateOK => IdsResolve
  BY StateResolves
<1> QED
  BY <1>1, StateInvariant, PTL

\* What the caches of the index spaces answer is what a search of the entries would, after
\* any edits: nothing has to be evicted (IdxSpace::lookup, index_from_assumed_id).
THEOREM CacheSoundHolds == IRSpec => []CacheSound
<1>1. StateOK => CacheSound
  BY StateResolves
<1> QED
  BY <1>1, StateInvariant, PTL

\* The component IR implements AssumedIds: what an id stands for never changes, and a new
\* id stands for nothing that had one.
THEOREM IdsAreStableHandlesHolds == IRSpec => IdsAreStableHandles
<1>1. Init => StableIds!Init
  BY NothingHandedOut DEF StableIds!Init
<1>2. StateOK /\ [Next]_irVars => [StableIds!Allocate]_HandedOut
  BY StepAllocates
<1> QED
  BY <1>1, <1>2, StateInvariant, PTL DEF IRSpec, IdsAreStableHandles, StableIds!Spec
=============================================================================
