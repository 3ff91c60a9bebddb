----------------------------- MODULE ComponentIR ----------------------------
(***************************************************************************)
(* The component IR: a tree of containers (components, and the bodies of   *)
(* component, instance and module types) with one vector of items per      *)
(* section kind, the run-length list of sections in the order of the       *)
(* binary, and, in a store the whole tree shares, one scope of index       *)
(* spaces per container.                                                   *)
(*                                                                         *)
(* A binary is read token by token (parse_comp).  Afterwards the client    *)
(* adds items, builds nested components in a closure or from bytes,        *)
(* redirects references in place and deletes custom sections.  What an     *)
(* add returns is the assumed id of the new item; every reference is one.  *)
(***************************************************************************)
EXTENDS ComponentRefs, IndexSpaces

CONSTANTS Binaries,     \* the token sequences of the components the client parses
          Client(_, _, _, _)  \* the edits a client may make of a component, given the
                        \* number it made, the IR and the ids it has been given

VARIABLES conts,        \* the containers; the first is the root component
          scopes,       \* the index spaces of each container, by position in conts
          open,         \* the containers being read or built, outermost first
          input,        \* the tokens not read yet
          edits         \* the number of edits made

irVars == << conts, scopes, open, input, edits >>

SectionKinds == {"Component", "Module", "Canon", "Alias", "ComponentImport", "ComponentExport",
                 "CoreType", "ComponentType", "CoreInstance", "ComponentInstance",
                 "CustomSection", "ComponentStartSection"}
\* A body keeps all its declarations in one vector.
VecKinds == SectionKinds \cup {"Decl"}

IsComponent(c) == conts[c].kind = "Component"

\* What the parser and the types of the API let an item be.
ItemFields == {"sort", "form", "kind", "refs", "subs", "results", "body", "live"}
ExternalKinds == {"Module", "Func", "Value", "Type", "Instance", "Component"}
WellFormed(c, item) ==
    /\ DOMAIN item = ItemFields
    /\ item.results \in Nat /\ Len(item.subs) \in Nat
    /\ IsComponent(c) => item.sort \in SectionKinds
    /\ item.sort \in {"ComponentImport", "DeclExport"} => item.kind \in ExternalKinds \cup {"Sub"}
    /\ item.sort = "ComponentExport" => item.kind \in ExternalKinds
    /\ item.sort = "Alias" =>
          \/ item.form = "InstanceExport" /\ item.kind \in ExternalKinds
          \/ item.form = "CoreInstanceExport" /\ item.kind \in {"Func", "FuncExact", "Table", "Memory", "Global", "Tag"}
          \/ item.form = "Outer" /\ item.kind \in {"CoreModule", "CoreType", "Type", "Component"}

Item(sort, form, kind, refs) ==
    [sort |-> sort, form |-> form, kind |-> kind, refs |-> refs,
     subs |-> << >>, results |-> 0, body |-> 0, live |-> TRUE]

NewContainer(kind, parent) ==
    [kind |-> kind, parent |-> parent, vec |-> [v \in VecKinds |-> << >>], sections |-> << >>,
     names |-> [sp \in Space |-> {}]]
NewScope == [sp \in Space |-> EmptySpace]
HasBody(item) == item.sort \in {"ComponentType", "CoreType"} /\ item.form \in {"Component", "Instance", "Module"}
BodyKind(item) == [Component |-> "ComponentBody", Instance |-> "InstanceBody", Module |-> "ModuleBody"][item.form]

\* The vector an entry of an index space points into.
VecFor(space, map) ==
    CASE map = "Import" -> "ComponentImport"
      [] map = "Export" -> "ComponentExport"
      [] map = "Alias"  -> "Alias"
      [] map = "Main" /\ space = "Comp"       -> "Component"
      [] map = "Main" /\ space = "CompType"   -> "ComponentType"
      [] map = "Main" /\ space = "CompInst"   -> "ComponentInstance"
      [] map = "Main" /\ space = "CompVal"    -> "ComponentStartSection"
      [] map = "Main" /\ space = "CoreInst"   -> "CoreInstance"
      [] map = "Main" /\ space = "CoreModule" -> "Module"
      [] map = "Main" /\ space = "CoreType"   -> "CoreType"
      [] map = "Main" /\ space \in {"CompFunc", "CoreFunc"} -> "Canon"
      [] OTHER -> None

Top == open[Len(open)]
Reading == input # << >>

(***************************************************************************)
(* Placing an item: the end of its vector, and the ids it takes there.     *)
(***************************************************************************)
VecOf(c, item) == IF IsComponent(c) THEN item.sort ELSE "Decl"
\* The space of the ids, and how many: a start section is no item of any space itself but
\* adds its results to the values; a recursion group has an id per subtype only where the
\* parser reads it as an item of a component.
SlotSpace(item) == IF item.sort = "ComponentStartSection" THEN "CompVal" ELSE IndexSpaceOf(item)
SlotCount(c, by, item) ==
    IF item.sort = "ComponentStartSection" THEN item.results
    ELSE IF IndexSpaceOf(item) = NA THEN 0
    ELSE IF item.sort = "CoreType" /\ item.form = "Rec" /\ IsComponent(c) /\ by # "api" THEN Len(item.subs)
    ELSE 1

\* Each binary section keeps an entry of its own, made when its header is read; an added
\* item joins the last entry if that has its kind.
CountedSections(sections, by, sort) ==
    LET n == Len(sections)
    IN  IF by # "api" \/ (n > 0 /\ sections[n].kind = sort)
        THEN [sections EXCEPT ![n].count = @ + 1]
        ELSE Append(sections, [kind |-> sort, count |-> 1])

WithItem(cont, by, v, item) ==
    [cont EXCEPT !.vec[v] = Append(@, item),
                 !.sections = IF v = "Decl" THEN @ ELSE CountedSections(@, by, item.sort)]
ScopeWithItem_afterPush(c, by, item) ==
    IF SlotCount(c, by, item) = 0 THEN scopes[c]
    ELSE [scopes[c] EXCEPT ![SlotSpace(item)] =
             AssignAssumedIds(@, VecOf(c, item), Len(conts[c].vec[VecOf(c, item)]) + 1, SlotCount(c, by, item))]
ScopeWithItem_lastIndex(c, by, item) ==
    LET n == Len(conts[c].vec[VecOf(c, item)])
    IN  IF SlotCount(c, by, item) = 0 THEN scopes[c]
        ELSE [scopes[c] EXCEPT ![SlotSpace(item)] =
                 AssignAssumedIds(@, VecOf(c, item), IF by = "api" /\ n > 0 THEN n - 1 ELSE n, SlotCount(c, by, item))]
ScopeWithItem(c, by, item) ==
    IF SlotCount(c, by, item) = 0 THEN scopes[c]
    ELSE [scopes[c] EXCEPT ![SlotSpace(item)] =
             AssignAssumedIds(@, VecOf(c, item), Len(conts[c].vec[VecOf(c, item)]), SlotCount(c, by, item))]

Place(c, by, item) ==
    /\ conts' = [conts EXCEPT ![c] = WithItem(@, by, VecOf(c, item), item)]
    /\ scopes' = [scopes EXCEPT ![c] = ScopeWithItem(c, by, item)]

\* An item with a body: it has its id in c before its own scope is made and filled.
PlaceWithBody_noScope(c, by, item) ==
    LET body == Len(conts) + 1
    IN  /\ conts' = Append([conts EXCEPT ![c] = WithItem(@, by, VecOf(c, item), [item EXCEPT !.body = body])],
                           NewContainer(BodyKind(item), c))
        /\ scopes' = [scopes EXCEPT ![c] = ScopeWithItem(c, by, item)]
        /\ open' = Append(open, [cont |-> body, by |-> IF by = "api" THEN "api" ELSE "parse"])
PlaceWithBody(c, by, item) ==
    LET body == Len(conts) + 1
    IN  /\ conts' = Append([conts EXCEPT ![c] = WithItem(@, by, VecOf(c, item), [item EXCEPT !.body = body])],
                           NewContainer(BodyKind(item), c))
        /\ scopes' = Append([scopes EXCEPT ![c] = ScopeWithItem(c, by, item)], NewScope)
        /\ open' = Append(open, [cont |-> body, by |-> IF by = "api" THEN "api" ELSE "parse"])

\* A nested component: its scope is made first, its id in c once it is complete.
OpenComponent(c, by) ==
    /\ conts' = Append(conts, NewContainer("Component", c))
    /\ scopes' = Append(scopes, NewScope)
    /\ open' = Append(open, [cont |-> Len(conts) + 1, by |-> by])
NestedComponent(c) == [Item("Component", None, None, << >>) EXCEPT !.body = c]

(***************************************************************************)
(* parse_comp and the discovery of the scopes of type bodies.              *)
(***************************************************************************)
Token(t) == Reading /\ open # << >> /\ Head(input).t = t /\ input' = Tail(input) /\ UNCHANGED edits

ReadSection ==
    /\ Token("section")
    /\ conts' = [conts EXCEPT ![Top.cont].sections = Append(@, [kind |-> Head(input).kind, count |-> 0])]
    /\ UNCHANGED << scopes, open >>
ReadItem ==
    /\ Token("item")
    /\ WellFormed(Top.cont, Head(input).item) /\ ~HasBody(Head(input).item)
    /\ Place(Top.cont, Top.by, Head(input).item)
    /\ UNCHANGED open
ReadType ==
    /\ Token("type")
    /\ WellFormed(Top.cont, Head(input).item) /\ HasBody(Head(input).item)
    /\ PlaceWithBody(Top.cont, Top.by, Head(input).item)
ReadComponent ==
    /\ Token("component")
    /\ OpenComponent(Top.cont, "parse")
\* A subsection of the name section: ids of a space that have a name.
ReadNames ==
    /\ Token("names")
    /\ conts' = [conts EXCEPT ![Top.cont].names[Head(input).space] = @ \cup Head(input).ids]
    /\ UNCHANGED << scopes, open >>

\* A component that is complete becomes an item of its parent.
Close(by) ==
    /\ open' = SubSeq(open, 1, Len(open) - 1)
    /\ IF IsComponent(Top.cont) /\ Top.cont # 1
       THEN Place(conts[Top.cont].parent, by, NestedComponent(Top.cont))
       ELSE UNCHANGED << conts, scopes >>
ReadEnd ==
    /\ Token("end")
    /\ Close(IF Top.by = "bytes" THEN "api" ELSE Top.by)

\* The bytes of a component to add are malformed: the error reaches the caller before the
\* component is made an item of its parent.
ParseFails ==
    /\ Reading
    /\ \E k \in DOMAIN open :
          /\ open[k].by = "bytes"
          /\ open' = SubSeq(open, 1, k - 1)
    /\ input' = << >>
    /\ UNCHANGED << conts, scopes, edits >>

(***************************************************************************)
(* The client's edits of component c: c is the component its closure       *)
(* builds, or any component when none is being built.                      *)
(***************************************************************************)
Registered(c) == \E p \in DOMAIN conts : \E k \in DOMAIN conts[p].vec["Component"] : conts[p].vec["Component"][k].body = c
Editable(c) ==
    /\ ~Reading
    /\ c \in DOMAIN conts /\ IsComponent(c)
    /\ IF open = << >> THEN c \in {1} \cup {d \in DOMAIN conts : Registered(d)} ELSE c = Top.cont
Edits(c) == Editable(c) /\ edits' = edits + 1

\* add_*: one item; a type's declarations follow at once.
AddItem(c, item, decls) ==
    /\ Edits(c)
    /\ WellFormed(c, item)
    /\ IF HasBody(item)
       THEN PlaceWithBody(c, "api", item) /\ input' = Append(decls, [t |-> "end"])
       ELSE Place(c, "api", item) /\ UNCHANGED << open, input >>

\* add_component: the closure builds the new component, which is then registered.
BeginComponent(c) == Edits(c) /\ OpenComponent(c, "api") /\ UNCHANGED input
EndComponent ==
    /\ ~Reading /\ open # << >> /\ Top.by = "api"
    /\ Close("api")
    /\ UNCHANGED << input, edits >>

AddComponentFromBytes(c, binary) == Edits(c) /\ OpenComponent(c, "bytes") /\ input' = binary

DeleteCustomSection(c, id) ==
    /\ Edits(c)
    /\ conts' = IF id < Len(conts[c].vec["CustomSection"])
                THEN [conts EXCEPT ![c].vec["CustomSection"][id + 1].live = FALSE] ELSE conts
    /\ UNCHANGED << scopes, open, input >>

\* The vectors give out their items for modification in place.
Redirect_movesToEnd(c, v, idx, field, ref) ==
    /\ Edits(c)
    /\ conts' = [conts EXCEPT ![c].vec[v] = Append(RemoveAt(@, idx + 1), [@[idx + 1] EXCEPT !.refs[field] = ref])]
    /\ UNCHANGED << scopes, open, input >>
Redirect(c, v, idx, field, ref) ==
    /\ Edits(c)
    /\ conts' = [conts EXCEPT ![c].vec[v][idx + 1].refs[field] = ref]
    /\ UNCHANGED << scopes, open, input >>

\* Ids are resolved, and the results remembered, while a component is encoded.
LookUp(asked) ==
    /\ scopes' = [c \in DOMAIN scopes |-> [sp \in Space |-> RememberIndices(scopes[c][sp], asked[c][sp])]]
    /\ UNCHANGED << conts, open, input, edits >>

(***************************************************************************)
(* The specification.                                                      *)
(***************************************************************************)
Init ==
    /\ conts = << NewContainer("Component", 0) >>
    /\ scopes = << NewScope >>
    /\ open = << [cont |-> 1, by |-> "parse"] >>
    /\ input \in Binaries
    /\ edits = 0

Read == ReadSection \/ ReadItem \/ ReadType \/ ReadComponent \/ ReadNames \/ ReadEnd \/ ParseFails
Edit ==
    \E c \in DOMAIN conts : \E e \in Client(c, edits, conts, scopes) :
        \/ e.op = "item" /\ AddItem(c, e.item, e.decls)
        \/ e.op = "component" /\ BeginComponent(c)
        \/ e.op = "bytes" /\ AddComponentFromBytes(c, e.binary)
        \/ e.op = "delete" /\ e.id \in Nat /\ DeleteCustomSection(c, e.id)
        \/ e.op = "redirect" /\ e.vec \in VecKinds /\ e.idx \in Nat /\ e.idx < Len(conts[c].vec[e.vec])
              /\ e.field \in DOMAIN conts[c].vec[e.vec][e.idx + 1].refs
              /\ Redirect(c, e.vec, e.idx, e.field, e.ref)
Next == Read \/ Edit \/ EndComponent \/ \E asked \in [DOMAIN conts -> [Space -> SUBSET Nat]] : LookUp(asked)
IRSpec == Init /\ [][Next]_irVars

(***************************************************************************)
(* Properties.                                                             *)
(***************************************************************************)
IsSeq(s) == s \in Seq({s[k] : k \in DOMAIN s})
Slot(c, sp, e) == IF IsComponent(c) THEN VecFor(sp, e.map) ELSE "Decl"
Identity(item) == << item.sort, item.form, item.kind, item.body >>

\* The shape of the state: every container has its vectors and its scope, and what is being
\* read or built exists.
TypeOK ==
    /\ IsSeq(conts) /\ Len(conts) > 0
    /\ \A c \in DOMAIN conts :
          /\ DOMAIN conts[c] = {"kind", "parent", "vec", "sections", "names"}
          /\ conts[c].kind \in {"Component", "ComponentBody", "InstanceBody", "ModuleBody"}
          /\ conts[c].parent \in IF c = 1 THEN {0} ELSE DOMAIN conts
          /\ DOMAIN conts[c].vec = VecKinds
          /\ \A v \in VecKinds :
                /\ IsSeq(conts[c].vec[v])
                /\ \A i \in DOMAIN conts[c].vec[v] : DOMAIN conts[c].vec[v][i] = ItemFields
    /\ IsSeq(scopes) /\ Len(scopes) = Len(conts)
    /\ \A c \in DOMAIN scopes :
          /\ DOMAIN scopes[c] = Space
          /\ \A sp \in Space : DOMAIN scopes[c][sp] = {"next", "entries", "cache"} /\ scopes[c][sp].next \in Nat
    /\ IsSeq(open) /\ \A k \in DOMAIN open : DOMAIN open[k] = {"cont", "by"} /\ open[k].cont \in DOMAIN conts

\* The ids of a space are dense, each stands for one item of that very space (or one of the
\* items in one entry), and no two stand for the same: what a client holds as a typed id
\* resolves to an item of that kind, through parsing, closures, failures and edits.
IdsResolve ==
    \A c \in DOMAIN scopes : \A sp \in Space :
        LET s == scopes[c][sp]
        IN  /\ \A id \in 0..(s.next - 1) : IsAssigned(s, id)
            /\ \A e \in s.entries :
                  /\ DOMAIN e = {"map", "idx", "sub", "id"}
                  /\ e.id \in 0..(s.next - 1)
                  /\ Slot(c, sp, e) \in VecKinds
                  /\ e.idx + 1 \in DOMAIN conts[c].vec[Slot(c, sp, e)]
                  /\ SlotSpace(conts[c].vec[Slot(c, sp, e)][e.idx + 1]) = sp
            /\ \A e, f \in s.entries :
                  e.id = f.id \/ (e.map = f.map /\ e.idx = f.idx /\ e.sub = f.sub) => e = f

\* The cache in front of an index space agrees with a full search of it: an answer kept by
\* one encoding is still right after the edits that follow, when the next one uses it.
CacheSound ==
    \A c \in DOMAIN scopes : \A sp \in Space : \A id \in DOMAIN scopes[c][sp].cache :
        IsAssigned(scopes[c][sp], id) /\ scopes[c][sp].cache[id] = FullLookup(scopes[c][sp], id)

\* What the ids of a space stand for: a position, and the item that is there.
Stands(c, sp, id) ==
    LET found == FullLookup(scopes[c][sp], id)
    IN  << found, Identity(conts[c].vec[Slot(c, sp, found)][found.idx + 1]) >>
HandedOut ==
    UNION {UNION {{[scope |-> c, space |-> sp, id |-> id, item |-> Stands(c, sp, id)]
        : id \in 0..(scopes[c][sp].next - 1)} : sp \in Space} : c \in DOMAIN scopes}
StableIds == INSTANCE AssumedIds WITH bound <- HandedOut
\* The ids are stable handles: reading, adding, building in closures, failing, redirecting,
\* deleting and encoding never change what an id stands for.
IdsAreStableHandles == StableIds!Spec
=============================================================================
