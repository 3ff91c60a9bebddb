--------------------------- MODULE ComponentRefs ----------------------------
(***************************************************************************)
(* The index fields of every item of a component: in which index space     *)
(* each one counts, which getter reports it (refs.rs), and from which      *)
(* getter the encoder takes the index it writes for it (fix_indices.rs).   *)
(*                                                                         *)
(* An item is [sort, form, kind, refs, subs, ...]: the section kind it     *)
(* belongs to, its variant, the kind it imports, exports or aliases ("-"   *)
(* if it has none), its references, a function from the fields it has to   *)
(* [depth, index], and, for a recursion group, its subtypes.  Lists of     *)
(* arguments, cases and fields are followed up to two entries, and an      *)
(* option of each kind is given at most once.                              *)
(***************************************************************************)
EXTENDS Integers, SequencesExt

Space == {"Comp", "CompFunc", "CompVal", "CompType", "CompInst", "CoreInst", "CoreModule",
          "CoreType", "CoreFunc", "CoreMemory", "CoreTable", "CoreGlobal", "CoreTag"}
NA == "NA"
None == "-"

Ref(field, getter, space) == [field |-> field, getter |-> getter, space |-> space]
Type(field) == Ref(field, "type", "CompType")
CoreTy(field) == Ref(field, "type", "CoreType")

(***************************************************************************)
(* The index space a kind stands for.                                      *)
(***************************************************************************)
ExternalSpace(kind) ==
    CASE kind = "Module"    -> "CoreModule"
      [] kind = "Func"      -> "CompFunc"
      [] kind = "Value"     -> "CompVal"
      [] kind = "Type"      -> "CompType"
      [] kind = "Instance"  -> "CompInst"
      [] kind = "Component" -> "Comp"
CoreExternalSpace(kind) ==
    CASE kind \in {"Func", "FuncExact"} -> "CoreFunc"
      [] kind = "Table"  -> "CoreTable"
      [] kind = "Memory" -> "CoreMemory"
      [] kind = "Global" -> "CoreGlobal"
      [] kind = "Tag"    -> "CoreTag"
OuterSpace(kind) ==
    CASE kind = "CoreModule" -> "CoreModule"
      [] kind = "CoreType"   -> "CoreType"
      [] kind = "Type"       -> "CompType"
      [] kind = "Component"  -> "Comp"

(***************************************************************************)
(* What each node reports, in the order of its declaration.                *)
(***************************************************************************)
OptionRefs ==
    [func |-> << Ref("realloc", "func", "CoreFunc"), Ref("post_return", "func", "CoreFunc"),
                 Ref("callback", "func", "CoreFunc") >>,
     type |-> << CoreTy("core_type") >>,
     mem  |-> << Ref("memory", "mem", "CoreMemory") >>]

ResourceOps == {"ResourceNew", "ResourceDrop", "ResourceDropAsync", "ResourceRep"}
DropOps == {"StreamDropReadable", "StreamDropWritable", "FutureDropReadable", "FutureDropWritable"}
StreamOps == {"StreamNew", "StreamCancelRead", "StreamCancelWrite",
              "FutureNew", "FutureCancelRead", "FutureCancelWrite"}
CopyOps == {"StreamRead", "StreamWrite", "FutureRead", "FutureWrite"}
ErrorOps == {"ErrorContextNew", "ErrorContextDebugMessage"}
WaitOps == {"WaitableSetWait", "WaitableSetPoll"}
IndirectOps == {"ThreadSpawnIndirect", "ThreadNewIndirect"}
PlainOps == {"ThreadAvailableParallelism", "BackpressureInc", "BackpressureDec", "TaskCancel",
             "ContextGet", "ContextSet", "ThreadYield", "SubtaskDrop", "SubtaskCancel",
             "ErrorContextDrop", "WaitableSetNew", "WaitableSetDrop", "WaitableJoin",
             "ThreadIndex", "ThreadSuspend", "ThreadSuspendToSuspended", "ThreadSuspendTo",
             "ThreadUnsuspend", "ThreadYieldToSuspended"}
CanonForms == {"Lift", "Lower", "TaskReturn", "ThreadSpawnRef"} \cup ResourceOps \cup DropOps
                  \cup StreamOps \cup CopyOps \cup ErrorOps \cup WaitOps \cup IndirectOps \cup PlainOps
WithOptions == {"Lift", "Lower", "TaskReturn"} \cup CopyOps \cup ErrorOps

Options(form, getter) == IF form \in WithOptions THEN OptionRefs[getter] ELSE << >>
CanonFuncRefs(form) ==
    (CASE form = "Lift"           -> << Ref("core_func_index", "func", "CoreFunc") >>
       [] form = "Lower"          -> << Ref("func_index", "func", "CompFunc") >>
       [] form = "ThreadSpawnRef" -> << Ref("func_ty_index", "func", "CompFunc") >>
       [] OTHER -> << >>) \o Options(form, "func")
CanonTypeRefs(form) ==
    (CASE form = "Lift"           -> << Type("type_index") >>
       [] form \in ResourceOps    -> << Type("resource") >>
       [] form = "TaskReturn"     -> << Type("result") >>
       [] form \in DropOps \cup StreamOps \cup CopyOps -> << Type("ty") >>
       [] form \in IndirectOps    -> << CoreTy("func_ty_index") >>
       [] OTHER -> << >>) \o Options(form, "type")
CanonMemRefs(form) ==
    (IF form \in WaitOps THEN << Ref("memory", "mem", "CoreMemory") >> ELSE << >>) \o Options(form, "mem")
CanonTableRefs(form) ==
    IF form \in IndirectOps THEN << Ref("table_index", "tbl", "CoreTable") >> ELSE << >>
CanonRefs(form) == CanonFuncRefs(form) \o CanonTypeRefs(form) \o CanonMemRefs(form) \o CanonTableRefs(form)

\* ComponentTypeRef, of an import or an export; "Sub" is the bound (sub resource).
TypeRefRefs(kind) ==
    CASE kind = "Module" -> << CoreTy("ty") >>
      [] kind \in {"Func", "Instance", "Component", "Type", "Value"} -> << Type("ty") >>
      [] kind = "Sub" -> << >>
\* TypeRef, of a module type's import or export: the index of a FuncExact is not reported.
CoreTypeRefRefs(kind) ==
    CASE kind \in {"Func", "Tag"} -> << CoreTy("ty") >>
      [] kind = "FuncExact" -> << Ref("ty", None, "CoreType") >>
      [] OTHER -> << >>

TwoPart == {"Record", "Variant", "Tuple", "Result", "Map"}
OnePart == {"List", "FixedLengthList", "Option", "Future", "Stream"}
Handles == {"Own", "Borrow"}
DefinedForms == TwoPart \cup OnePart \cup Handles \cup {"Primitive", "Enum", "Flags"}
DefinedRefs(form) ==
    CASE form \in TwoPart -> << Type("part0"), Type("part1") >>
      [] form \in OnePart -> << Type("part0") >>
      [] form \in Handles -> << Type("resource") >>
      [] OTHER -> << >>

\* Types without a body of their own.
ComponentTypeRefs(form) ==
    CASE form \in DefinedForms -> DefinedRefs(form)
      [] form = "Func" -> << Ref("param0", "param", "CompType"), Ref("result", "result", "CompType") >>
      [] form = "Resource" -> << Ref("dtor", "func", "CoreFunc") >>
      [] OTHER -> << >>

\* One subtype of a recursion group: supertype, then its composite type.
SubtypeRefs(form) ==
    << CoreTy("supertype_idx") >> \o
    (CASE form = "Func" -> << Ref("param0", "param", "CoreType"), Ref("result0", "result", "CoreType") >>
       [] form \in {"Array", "Struct"} -> << CoreTy("field0") >>
       [] form = "Cont" -> << Type("cont") >>
       [] OTHER -> << >>)

InstanceRefs(form, kind) ==
    IF form = "Instantiate" THEN << Ref("module_index", "module", "CoreModule"),
                                    Ref("arg0", "item", "CoreInst"), Ref("arg1", "item", "CoreInst") >>
    ELSE << Ref("export0", "item", CoreExternalSpace(kind)) >>
ComponentInstanceRefs(form, kind) ==
    (IF form = "Instantiate" THEN << Ref("component_index", "comp", "Comp") >> ELSE << >>)
    \o << Ref("arg0", "item", ExternalSpace(kind)), Ref("arg1", "item", ExternalSpace(kind)) >>
AliasRefs(form, kind) ==
    CASE form = "InstanceExport"     -> << Ref("instance_index", "item", "CompInst") >>
      [] form = "CoreInstanceExport" -> << Ref("instance_index", "item", "CoreInst") >>
      [] form = "Outer"              -> << Ref("index", "item", OuterSpace(kind)) >>
ExportRefs(kind) == TypeRefRefs(kind) \o << Ref("index", "item", ExternalSpace(kind)) >>
StartRefs == << Ref("func_index", "func", "CompFunc"), Ref("arg0", "arg", "CompVal"),
                Ref("arg1", "arg", "CompVal") >>

RefsOf(item) ==
    CASE item.sort = "Canon"             -> CanonRefs(item.form)
      [] item.sort \in {"ComponentImport", "DeclExport"} -> TypeRefRefs(item.kind)
      [] item.sort = "ComponentExport"   -> ExportRefs(item.kind)
      [] item.sort = "ComponentType"     -> ComponentTypeRefs(item.form)
      [] item.sort = "SubType"           -> SubtypeRefs(item.form)
      [] item.sort = "CoreInstance"      -> InstanceRefs(item.form, item.kind)
      [] item.sort = "ComponentInstance" -> ComponentInstanceRefs(item.form, item.kind)
      [] item.sort = "Alias"             -> AliasRefs(item.form, item.kind)
      [] item.sort = "ModuleAlias"       -> << CoreTy("index") >>
      [] item.sort \in {"ModuleImport", "ModuleExport"} -> CoreTypeRefRefs(item.kind)
      [] item.sort = "ComponentStartSection" -> StartRefs
      [] OTHER -> << >>

\* What one getter returns for an item.
Got(item, getter) ==
    SelectSeq(RefsOf(item), LAMBDA r : r.field \in DOMAIN item.refs /\ r.getter = getter)

\* referenced_indices: the getters a node asks, one after the other.  A subtype asks only
\* for its type references, so the parameters and results of a function type are left out.
Referenced_noCanonFuncs(item) ==
    CASE item.sort = "Canon" -> Got(item, "type") \o Got(item, "mem") \o Got(item, "tbl")
      [] item.sort = "ComponentType" ->
            Got(item, "type") \o Got(item, "func") \o Got(item, "param") \o Got(item, "result")
      [] item.sort \in {"CoreInstance", "ComponentInstance"} ->
            Got(item, "module") \o Got(item, "comp") \o Got(item, "item")
      [] item.sort = "ComponentStartSection" -> Got(item, "func") \o Got(item, "arg")
      [] OTHER -> Got(item, "type") \o Got(item, "item")
Referenced(item) ==
    CASE item.sort = "Canon" -> Got(item, "func") \o Got(item, "type") \o Got(item, "mem") \o Got(item, "tbl")
      [] item.sort = "ComponentType" ->
            Got(item, "type") \o Got(item, "func") \o Got(item, "param") \o Got(item, "result")
      [] item.sort \in {"CoreInstance", "ComponentInstance"} ->
            Got(item, "module") \o Got(item, "comp") \o Got(item, "item")
      [] item.sort = "ComponentStartSection" -> Got(item, "func") \o Got(item, "arg")
      [] OTHER -> Got(item, "type") \o Got(item, "item")
\* What a declaration of a type's body reports: a type declared there has "inner refs" only,
\* and a recursion group those of its subtypes.
At(item, rs) == [k \in DOMAIN rs |-> [space |-> rs[k].space, depth |-> item.refs[rs[k].field].depth,
                                      index |-> item.refs[rs[k].field].index]]
DeclReferenced(item) ==
    IF item.sort \in {"ComponentType", "CoreType"} THEN << >>
    ELSE IF item.sort = "ModuleType"
    THEN FlattenSeq([k \in DOMAIN item.subs |-> At(item.subs[k], Referenced(item.subs[k]))])
    ELSE At(item, Referenced(item))

(***************************************************************************)
(* fix_indices.rs: a field is rewritten with the first reference a getter  *)
(* of the node returns, or, when it is a node of its own (an argument, an  *)
(* option, a value type), with that node's only reference.                 *)
(***************************************************************************)
CanonFix(form) ==
    CASE form = "Lift"  -> {<<"core_func_index", "func">>, <<"type_index", "type">>}
      [] form = "Lower" -> {<<"func_index", "func">>}
      [] form \in ResourceOps -> {<<"resource", "type">>}
      [] form \in DropOps \cup StreamOps \cup CopyOps -> {<<"ty", "type">>}
      [] form \in WaitOps -> {<<"memory", "mem">>}
      [] form = "ThreadSpawnRef" -> {<<"func_ty_index", "type">>}
      [] form \in IndirectOps -> {<<"func_ty_index", "type">>, <<"table_index", "tbl">>}
      [] OTHER -> {}
ComponentTypeFix(form) ==
    CASE form \in Handles  -> {<<"resource", "type">>}
      [] form = "Resource" -> {<<"dtor", "func">>}
      [] OTHER -> {}
FirstOf(item) ==
    CASE item.sort = "Canon" -> CanonFix(item.form)
      [] item.sort = "ComponentType" -> ComponentTypeFix(item.form)
      [] item.sort = "SubType" -> {<<"supertype_idx", "type">>}
      [] item.sort = "CoreInstance" -> {<<"module_index", "module">>}
      [] item.sort = "ComponentInstance" -> {<<"component_index", "comp">>}
      [] item.sort \in {"ComponentImport", "DeclExport"} -> {<<"ty", "type">>}
      [] item.sort = "ModuleAlias" -> {<<"index", "type">>}
      [] item.sort \in {"ModuleImport", "ModuleExport"} -> {<<"ty", "type">>}
      [] OTHER -> {}

\* ComponentTypeRef::Type: "nothing to do".
Kept(item, field) ==
    item.sort \in {"ComponentImport", "ComponentExport", "DeclExport"} /\ field = "ty" /\ item.kind = "Type"

Missing == Ref("missing", None, NA)
\* The reference whose index the encoder writes in a field of an item.
Source(item, field) ==
    LET own == CHOOSE r \in {RefsOf(item)[k] : k \in DOMAIN RefsOf(item)} : r.field = field
        getters == {p[2] : p \in {q \in FirstOf(item) : q[1] = field}}
    IN  IF getters = {} THEN own
        ELSE LET got == Got(item, CHOOSE g \in getters : TRUE)
             IN  IF got = << >> THEN Missing ELSE got[1]

(***************************************************************************)
(* The index space an item itself adds to.                                 *)
(***************************************************************************)
IndexSpaceOf(item) ==
    CASE item.sort = "Canon" ->
            IF item.form \in {"Lift", "ThreadSpawnRef", "ThreadSpawnIndirect"} THEN "CompFunc" ELSE "CoreFunc"
      [] item.sort \in {"ComponentImport", "DeclExport"} ->
            IF item.kind = "Sub" THEN "CompType" ELSE ExternalSpace(item.kind)
      [] item.sort = "ComponentExport" ->
            IF item.kind = "Component" THEN "CompInst" ELSE ExternalSpace(item.kind)
      [] item.sort = "Alias" ->
            IF item.form = "InstanceExport" THEN ExternalSpace(item.kind)
            ELSE IF item.form = "Outer" THEN OuterSpace(item.kind) ELSE CoreExternalSpace(item.kind)
      [] item.sort = "ComponentType"     -> "CompType"
      [] item.sort \in {"CoreType", "ModuleType", "ModuleAlias", "ModuleImport", "ModuleExport"} -> "CoreType"
      [] item.sort = "CoreInstance"      -> "CoreInst"
      [] item.sort = "ComponentInstance" -> "CompInst"
      [] item.sort = "Module"            -> "CoreModule"
      [] item.sort = "Component"         -> "Comp"
      [] OTHER -> NA
=============================================================================
