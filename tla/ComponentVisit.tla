---------------------------- MODULE ComponentVisit --------------------------
(***************************************************************************)
(* The order in which the items of a component are visited: the one of    *)
(* its sections (events_structural.rs), or the topological one the encoder *)
(* uses (events_topological.rs), which moves an item ahead of those that   *)
(* refer to it.                                                            *)
(*                                                                         *)
(* An event is [ev, c, v, idx, sub, sect]: entering, leaving or visiting   *)
(* item idx of vector v of container c, in top-level section sect.         *)
(***************************************************************************)
EXTENDS ComponentIR

Event(ev, c, v, idx, sub, sect) == [ev |-> ev, c |-> c, v |-> v, idx |-> idx, sub |-> sub, sect |-> sect]
ItemAt(c, v, idx) == conts[c].vec[v][idx + 1]
ItemOf(e) == ItemAt(e.c, e.v, e.idx)
RootEvent(ev) == Event(ev, 0, None, 0, 0, -1)
Indices(n) == [k \in 1..n |-> k - 1]
IsTypeDecl(item) == item.sort \in {"ComponentType", "CoreType"}
IsRec(item) == item.sort = "CoreType" /\ item.form = "Rec"

(***************************************************************************)
(* Sections: where the items of a section start in their vector, and which *)
(* section an item of a vector is in.                                      *)
(***************************************************************************)
CountUpTo(c, kind, n) ==
    FoldLeft(LAMBDA sum, s : IF s.kind = kind THEN sum + s.count ELSE sum, 0, SubSeq(conts[c].sections, 1, n))
StartOf(c, k) == CountUpTo(c, conts[c].sections[k].kind, k - 1)
SectionsHolding_inclusive(c, v, idx) ==
    {k \in DOMAIN conts[c].sections : conts[c].sections[k].kind = v /\ CountUpTo(c, v, k) >= idx}
SectionsHolding(c, v, idx) ==
    {k \in DOMAIN conts[c].sections : conts[c].sections[k].kind = v /\ CountUpTo(c, v, k) > idx}
SectionIdxOfKthItem(c, v, idx) ==
    (CHOOSE k \in SectionsHolding(c, v, idx) : \A j \in SectionsHolding(c, v, idx) : k <= j) - 1

(***************************************************************************)
(* The structural order: sections as they are, bodies declaration by       *)
(* declaration.                                                            *)
(***************************************************************************)
Subtypes(c, v, idx, sect) ==
    [k \in DOMAIN ItemAt(c, v, idx).subs |-> Event("Sub", c, v, idx, k - 1, sect)]
RECURSIVE StructuralSections(_), StructuralItem(_, _, _, _)
StructuralItem(c, v, idx, sect) ==
    LET item == ItemAt(c, v, idx)
        enter == << Event("Enter", c, v, idx, 0, sect) >>
        exit == << Event("Exit", c, v, idx, 0, sect) >>
        Decl(j) == << Event("Decl", item.body, "Decl", j, 0, sect) >> \o
                   (IF IsTypeDecl(ItemAt(item.body, "Decl", j)) THEN StructuralItem(item.body, "Decl", j, sect) ELSE << >>)
    IN  IF item.sort = "Component" THEN enter \o StructuralSections(item.body) \o exit
        ELSE IF HasBody(item)
        THEN enter \o FlattenSeq([j \in DOMAIN conts[item.body].vec["Decl"] |-> Decl(j - 1)]) \o exit
        ELSE IF IsRec(item) THEN enter \o Subtypes(c, v, idx, sect) \o exit
        ELSE IF item.sort = "ComponentType" THEN enter \o exit
        ELSE IF item.sort = "CustomSection" /\ ~item.live THEN << >>
        ELSE << Event("Visit", c, v, idx, 0, sect) >>
StructuralSections(c) ==
    FlattenSeq([k \in DOMAIN conts[c].sections |->
        LET s == conts[c].sections[k]
        IN  FlattenSeq([i \in 1..s.count |-> StructuralItem(c, s.kind, StartOf(c, k) + i - 1, k - 1)])])
StructuralEvents == << RootEvent("EnterRoot") >> \o StructuralSections(1) \o << RootEvent("ExitRoot") >>

(***************************************************************************)
(* The topological order: depth first along the references each item       *)
(* reports.  The collector is [seen, ev, asked, err]; its context is the   *)
(* stack of the containers it is in, which is not changed to follow a      *)
(* reference into an outer component.                                      *)
(***************************************************************************)
Emit(A, e) == [A EXCEPT !.ev = Append(@, e)]
EmitAll(A, es) == [A EXCEPT !.ev = @ \o es]
See(A, key) == [A EXCEPT !.seen = @ \cup {key}]
Fail(A, err) == [A EXCEPT !.err = err]

ScopeAt(stack, depth) == stack[Len(stack) - depth]
\* Type bodies are not components: they are skipped when a depth counts components.
CompsOf(stack) == SelectSeq(stack, LAMBDA c : IsComponent(c))
Nesting(stack) == Len(stack) - Len(CompsOf(stack))
CompAt(stack, depth) ==
    CompsOf(stack)[Len(CompsOf(stack)) - (IF depth > Nesting(stack) THEN depth - Nesting(stack) ELSE 0)]

RECURSIVE CollectItem(_, _, _, _, _, _), CollectSections(_, _, _)
CollectDep(A, stack, r) ==
    IF A.err # None THEN A
    ELSE IF r.depth >= Len(stack) THEN Fail(A, "scope")
    ELSE LET scope == ScopeAt(stack, r.depth)
             found == IndexFromAssumedIdNoCache(scopes[scope][r.space], r.index)
             v == VecFor(r.space, found.map)
             B == [A EXCEPT !.asked = @ \cup {<< scope, r.space, r.index >>}]
             c == CompAt(stack, r.depth)
         IN  IF found = NoIndex THEN Fail(B, "id")
             ELSE IF r.space # "CoreType" /\ found.sub # -1 THEN Fail(B, "subvec")
             ELSE IF v = None \/ found.idx >= Len(conts[c].vec[v]) THEN Fail(B, "index")
             ELSE CollectItem(B, stack, c, v, found.idx, SectionIdxOfKthItem(c, v, found.idx))
CollectDeps(A, stack, item) ==
    FoldLeft(LAMBDA acc, r : CollectDep(acc, stack, r), A, At(item, Referenced(item)))

\* A declaration, after those it refers to that were not collected yet; what those refer to
\* in turn is not looked at.
EmitDecl_typeFirst(A, stack, b, j, sect) ==
    LET B == IF IsTypeDecl(ItemAt(b, "Decl", j)) THEN CollectItem(A, stack, b, "Decl", j, sect) ELSE A
    IN  Emit(B, Event("Decl", b, "Decl", j, 0, sect))
EmitDecl(A, stack, b, j, sect) ==
    LET B == Emit(A, Event("Decl", b, "Decl", j, 0, sect))
    IN  IF IsTypeDecl(ItemAt(b, "Decl", j)) THEN CollectItem(B, stack, b, "Decl", j, sect) ELSE B
DeclKey(b, j) == << b, "Declared", j >>
CollectSubitem(A, stack, b, j, sect) ==
    LET DeclDep(acc, r) ==
            LET found == IndexFromAssumedIdNoCache(scopes[b][r.space], r.index)
                B == [acc EXCEPT !.asked = @ \cup {<< b, r.space, r.index >>}]
            IN  IF acc.err # None \/ r.depth # 0 THEN acc
                ELSE IF found = NoIndex THEN Fail(B, "id")
                ELSE IF DeclKey(b, found.idx) \in acc.seen THEN B
                ELSE EmitDecl(See(B, DeclKey(b, found.idx)), stack, b, found.idx, sect)
        deps == FoldLeft(DeclDep, See(A, DeclKey(b, j)), DeclReferenced(ItemAt(b, "Decl", j)))
    IN  IF A.err # None \/ DeclKey(b, j) \in A.seen THEN A
        ELSE IF deps.err # None THEN deps
        ELSE EmitDecl(deps, stack, b, j, sect)

CollectItem(A, stack, c, v, idx, sect) ==
    LET item == ItemAt(c, v, idx)
        enter == Event("Enter", c, v, idx, 0, sect)
        exit == Event("Exit", c, v, idx, 0, sect)
        B == See(A, << c, v, idx >>)
        inner == Append(stack, item.body)
    IN  IF A.err # None \/ << c, v, idx >> \in A.seen THEN A
        ELSE IF item.sort = "Component" THEN Emit(CollectSections(Emit(B, enter), inner, item.body), exit)
        ELSE IF HasBody(item)
        THEN Emit(FoldLeft(LAMBDA acc, j : CollectSubitem(acc, inner, item.body, j, sect),
                           Emit(B, enter), Indices(Len(conts[item.body].vec["Decl"]))), exit)
        ELSE IF IsRec(item) THEN EmitAll(B, << enter >> \o Subtypes(c, v, idx, sect) \o << exit >>)
        ELSE IF item.sort = "ComponentType" THEN EmitAll(B, << enter, exit >>)
        ELSE LET deps == CollectDeps(B, stack, item)
             IN  IF deps.err # None THEN deps ELSE Emit(deps, Event("Visit", c, v, idx, 0, sect))
CollectSections(A, stack, c) ==
    FoldLeft(LAMBDA acc, k :
        LET s == conts[c].sections[k + 1]
            Skip(i) == s.kind = "CustomSection" /\ ~ItemAt(c, s.kind, i).live
        IN  FoldLeft(LAMBDA a, i : IF Skip(i) THEN a ELSE CollectItem(a, stack, c, s.kind, i, k),
                     acc, [j \in 1..s.count |-> StartOf(c, k + 1) + j - 1]),
        A, Indices(Len(conts[c].sections)))

TopologicalEvents ==
    LET A == [seen |-> {}, ev |-> << RootEvent("EnterRoot") >>, asked |-> {}, err |-> None]
    IN  Emit(CollectSections(A, << 1 >>, 1), RootEvent("ExitRoot"))
=============================================================================
