--------------------------- MODULE ComponentEncode --------------------------
(***************************************************************************)
(* Encoding a component.  The topological events are driven once to give   *)
(* each item its actual id (assign.rs) and once more to write it           *)
(* (encode.rs) with the actual ids of what it refers to; what is written   *)
(* is read the way a consumer of the binary does, one item after the       *)
(* other, each index counting the items of its space read before.          *)
(*                                                                         *)
(* Frames and scopes: while events are driven, the innermost scope, the    *)
(* component or type the encoder writes to and the containers entered and  *)
(* not left are one stack.                                                 *)
(***************************************************************************)
EXTENDS ComponentVisit

VARIABLE out            \* what encoding the IR as it is gave, if it was done

vars == << irVars, out >>

Nobody == [err |-> "not encoded", events |-> << >>, writes |-> << >>, names |-> {}, alloc |-> << >>, asked |-> {}]

Push(stack, e) ==
    IF e.ev = "EnterRoot" THEN << 1 >>
    ELSE IF e.ev = "Enter" /\ ItemOf(e).body # 0 THEN Append(stack, ItemOf(e).body) ELSE stack
Pop(stack, e) ==
    IF e.ev = "Exit" /\ ItemOf(e).body # 0 THEN SubSeq(stack, 1, Len(stack) - 1) ELSE stack
PerSpace == [c \in DOMAIN conts |-> [sp \in Space |-> << >>]]

(***************************************************************************)
(* assign.rs.  The event that gives an item its actual ids is the one at   *)
(* which its visitor callback runs: the exit of a component or a body,     *)
(* the entry of a leaf type, each subtype, and the visit of the others.    *)
(***************************************************************************)
Numbers_noSubtypes(e) ==
    CASE e.ev \in {"EnterRoot", "ExitRoot"} -> FALSE
      [] e.ev = "Enter" -> ItemOf(e).sort = "ComponentType" /\ ~HasBody(ItemOf(e))
      [] e.ev = "Exit"  -> ItemOf(e).body # 0
      [] e.ev = "Sub"   -> FALSE
      [] e.ev = "Decl"  -> ~IsTypeDecl(ItemOf(e))
      [] e.ev = "Visit" -> SlotSpace(ItemOf(e)) # NA
Numbers(e) ==
    CASE e.ev \in {"EnterRoot", "ExitRoot"} -> FALSE
      [] e.ev = "Enter" -> ItemOf(e).sort = "ComponentType" /\ ~HasBody(ItemOf(e))
      [] e.ev = "Exit"  -> ItemOf(e).body # 0
      [] e.ev = "Sub"   -> TRUE
      [] e.ev = "Decl"  -> ~IsTypeDecl(ItemOf(e))
      [] e.ev = "Visit" -> SlotSpace(ItemOf(e)) # NA

\* The assumed ids looked up for it in a scope, as a sequence of sets: each must be a
\* singleton, or the lookup panics.
AssumedIds(scope, e) ==
    LET sp == scopes[scope][SlotSpace(ItemOf(e))]
    IN  IF ItemOf(e).sort = "ComponentStartSection"
        THEN [k \in 1..ItemOf(e).results |-> IdsAtSub(sp, e.v, e.idx, k - 1)]
        ELSE IF e.ev = "Sub" THEN << IdsAtSub(sp, e.v, e.idx, e.sub) >>
        ELSE << IdsAt(sp, e.v, e.idx) >>
Unique(ids) == Cardinality(ids) = 1
TheOnly(S) == CHOOSE x \in S : TRUE

AssignStep(A, e) ==
    LET stack == Push(A.stack, e)
        after == Pop(stack, e)
        scope == after[Len(after)]
        space == SlotSpace(ItemOf(e))
        ids == AssumedIds(scope, e)
    IN  IF A.err # None THEN A
        ELSE IF ~Numbers(e) THEN [A EXCEPT !.stack = after]
        ELSE IF \E k \in DOMAIN ids : ~Unique(ids[k]) THEN [A EXCEPT !.err = "no assumed id"]
        ELSE [A EXCEPT !.stack = after,
                       !.given[scope][space] = @ \o [k \in DOMAIN ids |-> TheOnly(ids[k])]]
AssignIndices(events) == FoldLeft(AssignStep, [stack |-> << >>, given |-> PerSpace, err |-> None], events)

\* The position an assumed id was last given in its scope, or -1.
ActualId_assumed(given, scope, space, id) == id
ActualId(given, scope, space, id) ==
    LET at == {k \in DOMAIN given[scope][space] : given[scope][space][k] = id}
    IN  IF at = {} THEN -1 ELSE (CHOOSE k \in at : \A j \in at : j <= k) - 1

(***************************************************************************)
(* What the component model makes of an item: the space it adds to, and    *)
(* the space a field of it counts in.                                      *)
(***************************************************************************)
RealSpace(item) ==
    CASE item.sort = "Canon" -> IF item.form = "Lift" THEN "CompFunc" ELSE "CoreFunc"
      [] item.sort = "ComponentExport" /\ item.kind = "Component" -> "Comp"
      [] item.sort \in {"ModuleImport", "ModuleExport"} -> NA
      [] OTHER -> SlotSpace(item)
RealFieldSpace(item, r) ==
    IF r.field \in {"cont", "func_ty_index"} THEN "CoreType" ELSE r.space
ReadAt(e) == IF IsRec(ItemOf(e)) THEN e.ev = "Enter" ELSE Numbers(e)
Entries(e) ==
    LET item == ItemOf(e)
        n == CASE item.sort = "ComponentStartSection" -> item.results
               [] IsRec(item) \/ item.sort = "ModuleType" -> Len(item.subs)
               [] OTHER -> 1
    IN  [k \in 1..n |-> << e.c, e.v, e.idx, k - 1 >>]

(***************************************************************************)
(* What a reference means: the item that has that assumed id or, within    *)
(* the body of a module type, whose ids nothing but its own declarations   *)
(* uses, the type at that index.                                           *)
(***************************************************************************)
RECURSIVE Ancestor(_, _)
Ancestor(c, depth) == IF depth = 0 \/ c = 0 THEN c ELSE Ancestor(conts[c].parent, depth - 1)
ModuleTypes(b) ==
    FlattenSeq([j \in DOMAIN conts[b].vec["Decl"] |->
        LET decl == conts[b].vec["Decl"][j]
        IN  IF decl.sort = "ModuleType" THEN [k \in DOMAIN decl.subs |-> << b, "Decl", j - 1, k - 1 >>]
            ELSE IF decl.sort = "ModuleAlias" THEN << << b, "Decl", j - 1, 0 >> >> ELSE << >>])
Nowhere == << 0, None, 0, 0 >>
Means(c, ref, space) ==
    LET a == Ancestor(c, ref.depth)
        found == FullLookup(scopes[a][space], ref.index)
        v == IF IsComponent(a) THEN VecFor(space, found.map) ELSE "Decl"
    IN  IF a = 0 THEN Nowhere
        ELSE IF conts[a].kind = "ModuleBody"
        THEN IF ref.index < Len(ModuleTypes(a)) THEN ModuleTypes(a)[ref.index + 1] ELSE Nowhere
        ELSE IF found = NoIndex THEN Nowhere
        ELSE << a, v, found.idx, IF found.sub = -1 THEN 0 ELSE found.sub >>

(***************************************************************************)
(* encode.rs: the fields of an item are written with the actual ids fix    *)
(* finds for them.                                                         *)
(***************************************************************************)
\* The references the topological order is to follow: those of the items of a component
\* that are no types, to items of that component.
IsFollowed(c, item, ref) ==
    IsComponent(c) /\ item.sort \notin {"ComponentType", "CoreType", "SubType"} /\ ref.depth = 0
\* Written as they are: the destructor of a resource that is an item of a component, and a
\* recursion group declared in a body.
IsKept(e, item, field) ==
    \/ Kept(item, field)
    \/ item.sort = "ComponentType" /\ field = "dtor" /\ e.v # "Decl"
    \/ item.sort = "SubType" /\ ItemOf(e).sort = "CoreType" /\ e.v = "Decl"
\* Fixed a second time: a type of a body is fixed as a whole, then as what it is.
FixedTwice(e, item) ==
    item.sort = "ComponentType" /\ e.v = "Decl" /\ item.form \in DefinedForms \cup {"Func"}

WrittenIndex(given, stack, e, item, field) ==
    LET src == Source(item, field)
        ref == item.refs[src.field]
        Fix(id) == IF ref.depth >= Len(stack) THEN -1 ELSE ActualId(given, ScopeAt(stack, ref.depth), src.space, id)
    IN  IF IsKept(e, item, field) THEN item.refs[field].index
        ELSE IF src = Missing THEN -1
        ELSE IF FixedTwice(e, item) THEN Fix(Fix(ref.index)) ELSE Fix(ref.index)

Written(item) == IF item.subs = << >> THEN << item >> ELSE item.subs
Writes(W, stack, e) ==
    FlattenSeq([k \in DOMAIN Written(ItemOf(e)) |->
        LET item == Written(ItemOf(e))[k]
            fields == SelectSeq(RefsOf(item), LAMBDA r : r.field \in DOMAIN item.refs)
            WriteOf(r) ==
                LET ref == item.refs[r.field]
                    space == RealFieldSpace(item, r)
                    frame == IF ref.depth < Len(stack) THEN ScopeAt(stack, ref.depth) ELSE 0
                IN  [by |-> << e.c, e.v, e.idx, k - 1 >>, field |-> r.field, fixed |-> ~IsKept(e, item, r.field),
                     followed |-> IsFollowed(e.c, item, ref),
                     frame |-> frame, space |-> space, index |-> WrittenIndex(W.given, stack, e, item, r.field),
                     have |-> IF frame = 0 THEN 0 ELSE Len(W.alloc[frame][space]),
                     means |-> Means(e.c, ref, space)]
        IN  [f \in DOMAIN fields |-> WriteOf(fields[f])]])

\* The name section of a component, written when it is left: the ids that have a name, in
\* their order.  In a scope where nothing was given an id they stay as they are.
NamesOf_assumed(given, c) ==
    {LET ids == SetToSortSeq(conts[c].names[sp], <)
     IN  [by |-> c, space |-> sp, order |-> ids,
          means |-> [k \in DOMAIN ids |-> Means(c, [depth |-> 0, index |-> ids[k]], sp)]] : sp \in Space}
NamesOf(given, c) ==
    {LET ids == SetToSortSeq(conts[c].names[sp], <)
     IN  [by |-> c, space |-> sp,
          order |-> [k \in DOMAIN ids |-> IF \A s \in Space : given[c][s] = << >> THEN ids[k]
                                          ELSE ActualId(given, c, sp, ids[k])],
          means |-> [k \in DOMAIN ids |-> Means(c, [depth |-> 0, index |-> ids[k]], sp)]] : sp \in Space}
WritesNamesOf(e) ==
    CASE e.ev = "ExitRoot" -> 1
      [] e.ev = "Exit" /\ ItemOf(e).sort = "Component" -> ItemOf(e).body
      [] OTHER -> 0

\* A body or a component is written when it is left, what it refers to inside it.
WritesAt(e) ==
    CASE e.ev = "Enter" -> ItemOf(e).body = 0
      [] e.ev = "Decl"  -> ~IsTypeDecl(ItemOf(e))
      [] e.ev = "Visit" -> TRUE
      [] OTHER -> FALSE
EncodeStep(W, e) ==
    LET isItem == e.ev \notin {"EnterRoot", "ExitRoot"}
        stack == Push(W.stack, e)
        after == Pop(stack, e)
        frame == after[Len(after)]
        WithEntries(alloc) ==
            IF ~isItem \/ ~ReadAt(e) \/ RealSpace(ItemOf(e)) = NA THEN alloc
            ELSE [alloc EXCEPT ![frame][RealSpace(ItemOf(e))] = @ \o Entries(e)]
        \* the subtypes of a group may refer to each other
        seen == IF isItem /\ ItemOf(e).subs # << >> THEN [W EXCEPT !.alloc = WithEntries(@)] ELSE W
        new == IF isItem /\ WritesAt(e) THEN Writes(seen, stack, e) ELSE << >>
        names == IF WritesNamesOf(e) = 0 THEN {} ELSE NamesOf(W.given, WritesNamesOf(e))
    IN  IF W.err # None THEN W
        ELSE IF \/ \E k \in DOMAIN new : new[k].index = -1
                \/ \E n \in names : \E k \in DOMAIN n.order : n.order[k] = -1
        THEN [W EXCEPT !.err = "no actual id"]
        ELSE [W EXCEPT !.stack = after, !.writes = @ \o new, !.names = @ \cup names, !.alloc = WithEntries(@)]

\* The three passes, each over what the one before found, as long as none panics.
Passed(A, W) == [err |-> W.err, events |-> A.ev, writes |-> W.writes, names |-> W.names, alloc |-> W.alloc, asked |-> A.asked]
EncodePass(A, G) ==
    IF G.err # None THEN [Nobody EXCEPT !.err = G.err, !.events = A.ev, !.asked = A.asked]
    ELSE Passed(A, FoldLeft(EncodeStep, [stack |-> << >>, given |-> G.given, alloc |-> PerSpace, writes |-> << >>,
                                         names |-> {}, err |-> None], A.ev))
AssignPass(A) ==
    IF A.err # None THEN [Nobody EXCEPT !.err = A.err, !.asked = A.asked]
    ELSE EncodePass(A, AssignIndices(A.ev))
Encoded == AssignPass(TopologicalEvents)

(***************************************************************************)
(* The specification.                                                      *)
(***************************************************************************)
Encode ==
    /\ ~Reading /\ open = << >>
    /\ out = Nobody
    /\ out' = Encoded
    /\ LookUp([c \in DOMAIN conts |-> [sp \in Space |-> {id \in 0..(scopes[c][sp].next - 1) : << c, sp, id >> \in out'.asked}]])

EncInit == Init /\ out = Nobody
EncNext ==
    \/ (Read \/ Edit \/ EndComponent) /\ out' = Nobody
    \/ Encode
Spec == EncInit /\ [][EncNext]_vars

(***************************************************************************)
(* Which item of a container needs which other of the same container: by   *)
(* its own references, or by those of what it contains.                    *)
(***************************************************************************)
Key(x) == SubSeq(x, 1, 3)
ItemsOf(c) == UNION {{<< c, v, i - 1 >> : i \in DOMAIN conts[c].vec[v]} : v \in VecKinds}
Attached == {1} \cup {c \in DOMAIN conts : c # 1 /\ \E x \in ItemsOf(conts[c].parent) : ItemAt(x[1], x[2], x[3]).body = c}
RECURSIVE OwnerIn(_, _)
OwnerIn(x, a) ==
    IF x[1] = a THEN x
    ELSE OwnerIn(CHOOSE y \in ItemsOf(conts[x[1]].parent) : ItemAt(y[1], y[2], y[3]).body = x[1], a)
NeedsOf(x) ==
    UNION {{LET ref == item.refs[r.field]
                target == Means(x[1], ref, r.space)
            IN  [from |-> OwnerIn(x, target[1]), to |-> Key(target), outer |-> ref.depth # 0,
                 followed |-> IsFollowed(x[1], item, ref)]
            : r \in {q \in ToSet(RefsOf(item)) : q.field \in DOMAIN item.refs}}
            : item \in ToSet(Written(ItemAt(x[1], x[2], x[3])))}
Needs == {n \in UNION {NeedsOf(x) : x \in UNION {ItemsOf(c) : c \in Attached}} :
             n.from # n.to \/ ItemAt(n.to[1], n.to[2], n.to[3]).subs = << >>}
RECURSIVE Reached(_, _)
Reached(needs, X) ==
    LET Y == X \cup {n.to : n \in {m \in needs : m.from \in X}} IN IF Y = X THEN X ELSE Reached(needs, Y)

Section(x) == IF IsComponent(x[1]) THEN SectionIdxOfKthItem(x[1], x[2], x[3]) ELSE 0
Before(x, y) == Section(x) < Section(y) \/ (Section(x) = Section(y) /\ x[3] < y[3])
Backward == \A n \in Needs : Before(n.to, n.from)
\* What refers out of a component or of a body is behind what it refers to, and nothing
\* pulls it ahead.
OuterStaysBehind ==
    LET needs == Needs
        followed == {n \in needs : n.followed}
    IN  \A n \in needs : n.outer =>
            /\ Before(n.to, n.from)
            /\ \A z \in {m.from : m \in needs} :
                  Before(z, n.from) /\ ~Before(n.to, z) => n.from \notin Reached(followed, {z})

\* Fields that are fixed with a getter that does not report them.
Unfixable(item) ==
    \/ item.sort = "Canon" /\ item.form = "ThreadSpawnRef"
    \/ item.sort \in {"ModuleImport", "ModuleExport"} /\ item.kind = "FuncExact"
\* A reference to one of several values that a start section gives.
AsksForOneOfSeveral(x) ==
    \E item \in ToSet(Written(ItemAt(x[1], x[2], x[3]))) : \E r \in ToSet(RefsOf(item)) :
        /\ r.field \in DOMAIN item.refs /\ r.space = "CompVal"
        /\ LET a == Ancestor(x[1], item.refs[r.field].depth)
           IN  a # 0 /\ FullLookup(scopes[a][r.space], item.refs[r.field].index).sub # -1
\* A recursion group of several subtypes that has one id for all of them.
SharesAnId(x) ==
    LET item == ItemAt(x[1], x[2], x[3])
    IN  Len(item.subs) > 1 /\ Cardinality(EntriesAt(scopes[x[1]]["CoreType"], SubtypeOf(x[2]), x[3])) = 1

(***************************************************************************)
(* Properties.                                                             *)
(***************************************************************************)
Done == out.err = None

\* An IR built through the API from ids it handed out is encoded without a panic, unless it
\* holds one of four things: an item referring out of its component that comes before what
\* it refers to, a thread.spawn_ref, an exact function of a module type, or a reference to
\* one of several results of a start section.
NoPanic ==
    out.err \notin {"not encoded", None} =>
        \/ ~OuterStaysBehind
        \/ \E x \in UNION {ItemsOf(c) : c \in Attached} :
               Unfixable(ItemAt(x[1], x[2], x[3])) \/ AsksForOneOfSeveral(x)

\* However far items are moved ahead, each live item is visited exactly once, each container
\* is left as often as entered, and each visit tells the section the item is declared in.
EachItemOnce ==
    Done => LET s == StructuralEvents IN Len(out.events) = Len(s) /\ ToSet(out.events) = ToSet(s)

\* A component whose references all point backward, as those of every parsed one, is
\* encoded in the order of its sections.
OrderKept == Done /\ Backward => out.events = StructuralEvents

\* Every index written means, to a reader of the binary, the item that the assumed id it
\* replaces stands for; the few fields the encoder copies do as long as nothing has moved.
\* (A group with one id for several subtypes is left out: the id comes out as its last.)
IndicesMapped ==
    Done => \A w \in ToSet(out.writes) :
        \/ /\ w.frame # 0
           /\ w.index < Len(out.alloc[w.frame][w.space])
           /\ out.alloc[w.frame][w.space][w.index + 1] = w.means
        \/ ~w.fixed /\ out.events # StructuralEvents
        \/ w.means # Nowhere /\ SharesAnId(Key(w.means))
        \/ ~OuterStaysBehind

\* A name stays with its item, whatever place the item is moved to.
NamesMapped ==
    Done => \A n \in out.names : \A k \in DOMAIN n.order :
        /\ n.order[k] < Len(out.alloc[n.by][n.space])
        /\ out.alloc[n.by][n.space][n.order[k] + 1] = n.means[k]

\* What is read before the item an index in it means.
Inverted == {w \in ToSet(out.writes) : w.index >= w.have}
IsCyclic(w) == Key(w.by) \in Reached(Needs, {Key(w.means)})
\* An item is encoded after everything it refers to in its component, across section kinds
\* and however many items that takes along; only a cycle of references is left as it is.
CollectedFirst == Done => \A w \in Inverted : w.followed => IsCyclic(w)

\* The same for the references of types, as the visitor's documentation has it ("order
\* contains no forward references").
NoForwardReference == Done => \A w \in Inverted : w.fixed => IsCyclic(w)
=============================================================================
