----------------------------- MODULE MCComponent ----------------------------
(***************************************************************************)
(* Small components for TLC: binaries as token sequences, and a client     *)
(* that adds an item of every form with the oldest or the newest ids there *)
(* are, then redirects an older reference to the newest id.                *)
(***************************************************************************)
EXTENDS ComponentEncode

CONSTANT MaxEdits

At0(index) == [depth |-> 0, index |-> index]
Up(depth, index) == [depth |-> depth, index |-> index]
NoRefs == [f \in {} |-> At0(0)]

Header(kind) == << [t |-> "section", kind |-> kind] >>
One(item) == << [t |-> "item", item |-> item] >>
TypeWith(item, decls) == << [t |-> "type", item |-> item] >> \o decls \o << [t |-> "end"] >>
Named(space, ids) == << [t |-> "names", space |-> space, ids |-> ids] >>
Nested(tokens) == << [t |-> "component"] >> \o tokens \o << [t |-> "end"] >>
Group(subtypes) == [Item("CoreType", "Rec", None, NoRefs) EXCEPT !.subs = subtypes]
Started(refs, results) == [Item("ComponentStartSection", None, None, refs) EXCEPT !.results = results]
Subtype(form, refs) == Item("SubType", form, None, refs)

AModule == Item("Module", None, None, NoRefs)
ACustom == Item("CustomSection", None, None, NoRefs)
Func0 == Subtype("Func", [param0 |-> At0(0)])
Shape(form, kind, refs) == Item("ComponentType", form, kind, refs)

ModuleTypeBody ==
    One([Item("ModuleType", "Rec", None, NoRefs) EXCEPT !.subs = << Subtype("Func", NoRefs) >>])
    \o One(Item("ModuleImport", None, "Func", [ty |-> At0(0)]))
    \o One(Item("ModuleAlias", "Outer", None, [index |-> Up(1, 0)]))
    \o One(Item("ModuleExport", None, "Func", [ty |-> At0(0)]))
ExactBody ==
    One([Item("ModuleType", "Rec", None, NoRefs) EXCEPT !.subs = << Subtype("Func", NoRefs) >>])
    \o One(Item("ModuleImport", None, "FuncExact", [ty |-> At0(0)]))
InstanceTypeBody ==
    One(Shape("Primitive", None, NoRefs))
    \o One(Shape("List", None, [part0 |-> At0(0)]))
    \o One(Item("DeclExport", None, "Type", [ty |-> At0(1)]))
    \o One(Item("Alias", "Outer", "Type", [index |-> Up(1, 0)]))
    \o One(Item("DeclExport", None, "Func", [ty |-> At0(3)]))
ComponentTypeBody ==
    One(Item("Alias", "Outer", "Type", [index |-> Up(1, 0)]))
    \o One(Item("CoreType", "Rec", None, NoRefs) )
    \o One(Item("ComponentImport", None, "Type", [ty |-> At0(0)]))
    \o TypeWith(Shape("Instance", None, NoRefs), One(Item("Alias", "Outer", "Type", [index |-> Up(1, 0)])))

\* A component with an item of most kinds.
Whole ==
    Header("Module") \o One(AModule)
    \o Header("CoreType") \o One(Group(<< Func0, Subtype("Struct", [supertype_idx |-> At0(0), field0 |-> At0(1)]) >>))
    \o TypeWith(Item("CoreType", "Module", None, NoRefs), ModuleTypeBody)
    \o Header("CoreInstance") \o One(Item("CoreInstance", "Instantiate", None, [module_index |-> At0(0)]))
    \o Header("Alias")
    \o One(Item("Alias", "CoreInstanceExport", "Func", [instance_index |-> At0(0)]))
    \o One(Item("Alias", "CoreInstanceExport", "Memory", [instance_index |-> At0(0)]))
    \o One(Item("Alias", "CoreInstanceExport", "Table", [instance_index |-> At0(0)]))
    \o Header("ComponentType")
    \o One(Shape("Primitive", None, NoRefs))
    \o One(Shape("Func", None, [param0 |-> At0(0)]))
    \o One(Shape("Resource", None, [dtor |-> At0(0)]))
    \o TypeWith(Shape("Instance", None, NoRefs), InstanceTypeBody)
    \o Header("ComponentImport")
    \o One(Item("ComponentImport", None, "Func", [ty |-> At0(1)]))
    \o One(Item("ComponentImport", None, "Instance", [ty |-> At0(3)]))
    \o One(Item("ComponentImport", None, "Value", [ty |-> At0(0)]))
    \o Header("Canon")
    \o One(Item("Canon", "Lift", None, [core_func_index |-> At0(0), type_index |-> At0(1), memory |-> At0(0)]))
    \o One(Item("Canon", "Lower", None, [func_index |-> At0(0)]))
    \o Header("ComponentStartSection") \o One(Started([func_index |-> At0(1), arg0 |-> At0(0)], 1))
    \o Header("ComponentExport")
    \o One(Item("ComponentExport", None, "Func", [ty |-> At0(1), index |-> At0(1)]))
    \o Header("CustomSection") \o One(ACustom)
    \o Named("CoreFunc", {0, 1}) \o Named("CoreTable", {0}) \o Named("CompType", {0, 1, 3}) \o Named("CompFunc", {0, 2})
\* Components within components.
Inner ==
    Header("Alias") \o One(Item("Alias", "Outer", "Type", [index |-> Up(1, 0)]))
    \o Header("ComponentImport") \o One(Item("ComponentImport", None, "Func", [ty |-> At0(0)]))
    \o Header("ComponentExport") \o One(Item("ComponentExport", None, "Func", [index |-> At0(0)]))
    \o Named("CompFunc", {0, 1})
Nesting2 ==
    Header("ComponentType") \o One(Shape("Func", None, NoRefs))
    \o Header("Component") \o Nested(Inner)
    \o Header("ComponentImport") \o One(Item("ComponentImport", None, "Func", [ty |-> At0(0)]))
    \o Header("ComponentInstance")
    \o One(Item("ComponentInstance", "Instantiate", "Func", [component_index |-> At0(0), arg0 |-> At0(0)]))
    \o Header("Alias") \o One(Item("Alias", "InstanceExport", "Func", [instance_index |-> At0(0)]))
    \o Header("ComponentType") \o TypeWith(Shape("Component", None, NoRefs), ComponentTypeBody)
Small == Header("ComponentType") \o One(Shape("Primitive", None, NoRefs)) \o << [t |-> "end"] >>
Parsed == {Whole \o << [t |-> "end"] >>, Nesting2 \o << [t |-> "end"] >>}

(***************************************************************************)
(* The client.                                                             *)
(***************************************************************************)
Forms ==
    {<< "Canon", f, None >> : f \in {"Lift", "ResourceNew", "StreamRead", "WaitableSetWait", "ThreadNewIndirect",
                                      "ThreadSpawnRef", "TaskReturn"}}
    \cup {<< "ComponentType", f, None >> : f \in {"Record", "Own", "Func", "Resource"}}
    \cup {<< "ComponentImport", None, k >> : k \in {"Module", "Func", "Type", "Sub"}}
    \cup {<< "ComponentExport", None, k >> : k \in {"Func", "Type"}}
    \cup {<< "Alias", "InstanceExport", "Type" >>, << "Alias", "CoreInstanceExport", "Table" >>, << "Alias", "Outer", "Type" >>}
    \cup {<< "CoreInstance", f, "Func" >> : f \in {"Instantiate", "FromExports"}}
    \cup {<< "ComponentInstance", f, "Value" >> : f \in {"Instantiate", "FromExports"}}
    \cup {<< "Module", None, None >>, << "CustomSection", None, None >>}

\* All its fields filled with the first or the last id of their spaces, an outer alias with
\* that of the parent; nothing if a space has no id.
Depth(item) == IF item.form = "Outer" THEN 1 ELSE 0
Above(c, depth, cs) == IF depth = 0 THEN c ELSE cs[c].parent
Fill(c, item, newest, cs, scs) ==
    LET a == Above(c, Depth(item), cs)
        fields == ToSet(RefsOf(item))
    IN  IF a = 0 \/ \E r \in fields : scs[a][r.space].next = 0 THEN {}
        ELSE {[item EXCEPT !.refs = [f \in {r.field : r \in fields} |->
                 LET r == CHOOSE q \in fields : q.field = f
                 IN  Up(Depth(item), IF newest THEN scs[a][r.space].next - 1 ELSE 0)]]}
Bare(f, results) == [Item(f[1], f[2], f[3], NoRefs) EXCEPT !.results = results]
Bares == {Bare(f, 0) : f \in Forms} \cup {Bare(<< "ComponentStartSection", None, None >>, n) : n \in 1..2}
NewItems(c, ages, cs, scs) == UNION {Fill(c, item, newest, cs, scs) : item \in Bares, newest \in ages}
ItemEdit(item, decls) == [op |-> "item", item |-> item, decls |-> decls]
Redirects(c, cs, scs) ==
    UNION {UNION {UNION {
        LET item == cs[c].vec[v][i]
            r == CHOOSE q \in ToSet(RefsOf(item)) : q.field = f
        IN  IF item.refs[f].depth = 0 /\ scs[c][r.space].next > 0
            THEN {[op |-> "redirect", vec |-> v, idx |-> i - 1, field |-> f, ref |-> At0(scs[c][r.space].next - 1)]} ELSE {}
        : f \in DOMAIN cs[c].vec[v][i].refs}
        : i \in DOMAIN cs[c].vec[v]}
        : v \in VecKinds}
Later(c, cs, scs) ==
    {ItemEdit(Shape("Instance", None, NoRefs), InstanceTypeBody),
     ItemEdit(Group(<< Func0 >>), << >>), ItemEdit(Group(<< Func0, Func0 >>), << >>),
     ItemEdit(Item("CoreType", "Module", None, NoRefs), ExactBody),
     [op |-> "component"], [op |-> "bytes", binary |-> Small], [op |-> "delete", id |-> 0]}
AnyEdit(c, n, cs, scs) ==
    IF n >= MaxEdits THEN {}
    ELSE IF n = 0 THEN {ItemEdit(item, << >>) : item \in NewItems(c, BOOLEAN, cs, scs)} \cup Later(c, cs, scs)
    ELSE {ItemEdit(item, << >>) : item \in NewItems(c, {TRUE}, cs, scs)} \cup Redirects(c, cs, scs)
=============================================================================
