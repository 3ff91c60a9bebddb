------------------------------ MODULE ModuleIR ------------------------------
(***************************************************************************)
(* The manipulation API of a core wasm Module (src/src/ir/module): three   *)
(* index spaces (functions, globals, memories), each a vector of items     *)
(* that are local or imported and that are only ever marked deleted, the   *)
(* import section they share, and the sites that hold references into the  *)
(* spaces (function bodies, initialisers of globals and tables, exports,   *)
(* element segments, data segments and the start function).  IDs are the   *)
(* 0-based u32 of the code: item `h' of space `s' is items[s][h + 1].      *)
(* Encoding reads this state and never writes it: see ModuleEncode.        *)
(***************************************************************************)
EXTENDS ModuleParse, FiniteSets

\* A scenario is a parsed module, a build of the library, and what one caller does with
\* the module: the bounds on the edits and the names it gives.
CONSTANTS Scenarios

NoPanic == "none"
PanicSites == {"finish_module", "finish_component", "add_import", "replace_import",
               "set_fn_name"}

WellFormed(c) ==
    /\ WellParsed(c.module)
    /\ c.start \in Nat \cup {NoId}            \* the start function of the module
    /\ c.tables \in SUBSET Ref                \* what its tables' initialisers refer to
    /\ c.elements \in Seq(Element)            \* its element segments
    /\ c.data \in Seq(Data)                   \* its active data segments
    /\ c.debug \in BOOLEAN                    \* debug_assert! panics, or is compiled out
    /\ c.specials \in BOOLEAN                 \* the caller injects in the special modes
    /\ c.names \subseteq Names                \* names the caller gives to functions
    /\ c.maxItems \in [Space -> Nat]          \* bound on the vector of each space
    /\ c.maxImports \in Nat                   \* bound on the import section
    /\ c.maxExports \in Nat                   \* bound on the export section
    /\ c.maxData \in Nat                      \* bound on the data section
    /\ c.maxRefs \in Nat                      \* bound on the references of one item

ASSUME ScenariosAssumption == \A c \in Scenarios : WellFormed(c)

VARIABLES
    items,      \* Module.functions / globals / memories: space -> vector
    recalc,     \* their recalculate_ids flags
    imports,    \* ModuleImports.imports
    impCount,   \* ModuleImports.num_funcs / num_globals / num_memories
    impAdded,   \* ModuleImports.num_funcs_added / ...
    numLocal,   \* Module.num_local_functions / ...
    exports,    \* ModuleExports.exports
    data,       \* Module.data: the active segments
    start,      \* Module.start
    tables,     \* Module.tables: what their initialisers refer to
    elements,   \* Module.elements
    scenario,   \* the member of Scenarios being played
    panic       \* the function whose debug_assert! (or index) panicked, ending the program

\* No operation edits these.
fixed == <<start, tables, elements, scenario>>
refSites == <<exports, data, fixed>>
vars == <<items, recalc, imports, impCount, impAdded, numLocal, refSites, panic>>

Handles(s) == 0 .. Len(items[s]) - 1
ImportsIDs == 0 .. Len(imports) - 1
At(s, h) == items[s][h + 1]
IsImport(it) == it.kind = "import"
IsLocal(it) == it.kind = "local"
LiveImport(it) == IsImport(it) /\ ~it.deleted
LiveLocal(it) == IsLocal(it) /\ ~it.deleted

Init ==
    /\ scenario \in Scenarios
    /\ items = scenario.module.items /\ imports = scenario.module.imports
    /\ impCount = scenario.module.impCount /\ numLocal = scenario.module.numLocal
    /\ impAdded = [s \in Space |-> 0]
    /\ recalc = [s \in Space |-> FALSE]
    /\ exports = <<>>
    /\ data = scenario.data
    /\ start = scenario.start
    /\ tables = scenario.tables
    /\ elements = scenario.elements
    /\ panic = NoPanic

\* debug_assert!(ok), in the function named `site'.
DebugAssert(site, ok) == panic' = IF scenario.debug /\ ~ok THEN site ELSE NoPanic

Room(s) == panic = NoPanic /\ Len(items[s]) < scenario.maxItems[s]
RoomForImport == Len(imports) < scenario.maxImports

\* The references a caller can write down: handles the API has returned, live or not.
KnownRefs == UNION {{[space |-> s, id |-> h] : h \in Handles(s)} : s \in Space}
\* A constant expression refers to functions (ref.func) and globals (global.get) only.
InitExprs ==
    {{}} \cup {{r} : r \in {k \in KnownRefs : scenario.maxRefs > 0 /\ k.space # "memory"}}

(***************************************************************************)
(* Adding.                                                                 *)
(***************************************************************************)
\* add_local_func / ModuleGlobals::add / add_local_mem: the id is the vector's length.
\* Only adding a local global leaves recalculate_ids alone: it lands at the end.
PushLocal_countsLocals(s, refs, name) ==    \* mutant: the id counts local items only
    /\ items' = [items EXCEPT ![s] = Append(@, LocalItem(numLocal[s], refs, name))]
    /\ numLocal' = [numLocal EXCEPT ![s] = @ + 1]
    /\ recalc' = IF s = "global" THEN recalc ELSE [recalc EXCEPT ![s] = TRUE]
PushLocal(s, refs, name) ==
    /\ items' = [items EXCEPT ![s] = Append(@, LocalItem(Len(@), refs, name))]
    /\ numLocal' = [numLocal EXCEPT ![s] = @ + 1]
    /\ recalc' = IF s = "global" THEN recalc ELSE [recalc EXCEPT ![s] = TRUE]

\* FunctionBuilder::finish_module, with its debug_assert on the vector's length.
AddLocalFunc(name) ==
    /\ Room("func")
    /\ PushLocal("func", {}, name)
    /\ DebugAssert("finish_module", Len(items'["func"]) = numLocal'["func"] + impCount["func"])
    /\ UNCHANGED <<imports, impCount, impAdded, refSites>>

\* FunctionBuilder::finish_component: as finish_module, but its assertion also adds
\* the imports added since parsing.
AddLocalFuncInComponent(name) ==
    /\ Room("func")
    /\ PushLocal("func", {}, name)
    /\ DebugAssert("finish_component",
                   Len(items'["func"]) = numLocal'["func"] + impCount["func"] + impAdded["func"])
    /\ UNCHANGED <<imports, impCount, impAdded, refSites>>

AddGlobal(init) ==
    /\ Room("global")
    /\ PushLocal("global", init, NoName)
    /\ UNCHANGED <<imports, impCount, impAdded, refSites, panic>>

AddLocalMemory ==
    /\ Room("memory")
    /\ PushLocal("memory", {}, NoName)
    /\ UNCHANGED <<imports, impCount, impAdded, refSites, panic>>

\* Module::add_import: the ID it returns for the item the caller is about to push.
NextImportId_counts(s) == impCount[s]       \* mutant: local items forgotten
NextImportId(s) == IF numLocal[s] > 0 THEN Len(items[s]) ELSE impCount[s]

\* ModuleImports::add.
PushImport(s) ==
    /\ imports' = Append(imports, [kind |-> s, deleted |-> FALSE, custom |-> NoName])
    /\ impCount' = [impCount EXCEPT ![s] = @ + 1]
    /\ impAdded' = [impAdded EXCEPT ![s] = @ + 1]

\* add_import_func, add_import_memory: the item keeps the ID add_import computed, which
\* a debug_assert compares with the vector's length.
AddImportItem_noRecalc(s) ==                \* mutant: recalculate_ids not set
    /\ Room(s) /\ RoomForImport
    /\ PushImport(s)
    /\ items' = [items EXCEPT ![s] = Append(@, ImportItem(NextImportId(s), Len(imports)))]
    /\ UNCHANGED <<recalc, numLocal, refSites, panic>>
AddImportItem(s) ==
    /\ Room(s) /\ RoomForImport
    /\ PushImport(s)
    /\ recalc' = [recalc EXCEPT ![s] = TRUE]
    /\ DebugAssert("add_import", NextImportId(s) = Len(items[s]))
    /\ items' = IF panic' # NoPanic THEN items
                ELSE [items EXCEPT ![s] = Append(@, ImportItem(NextImportId(s), Len(imports)))]
    /\ UNCHANGED <<numLocal, refSites>>

AddImportFunc == AddImportItem("func")
AddImportMemory == AddImportItem("memory")

\* add_imported_global: the id is overwritten with the vector's length, and
\* add_global_internal counts the import as a local global.
AddImportedGlobal_noRecalc ==               \* mutant: recalculate_ids not set, as in add
    /\ Room("global") /\ RoomForImport
    /\ PushImport("global")
    /\ items' = [items EXCEPT !["global"] = Append(@, ImportItem(Len(@), Len(imports)))]
    /\ numLocal' = [numLocal EXCEPT !["global"] = @ + 1]
    /\ UNCHANGED <<recalc, refSites, panic>>
AddImportedGlobal ==
    /\ Room("global") /\ RoomForImport
    /\ PushImport("global")
    /\ items' = [items EXCEPT !["global"] = Append(@, ImportItem(Len(@), Len(imports)))]
    /\ numLocal' = [numLocal EXCEPT !["global"] = @ + 1]
    /\ recalc' = [recalc EXCEPT !["global"] = TRUE]
    /\ UNCHANGED <<refSites, panic>>

(***************************************************************************)
(* Deleting and converting.                                                *)
(***************************************************************************)
\* The import section after the import behind item `it', if any, is marked deleted.
DropImportOf_never(it) == imports           \* mutant: imports.delete not called
DropImportOf(it) ==
    IF IsImport(it) THEN [imports EXCEPT ![it.imp + 1].deleted = TRUE] ELSE imports

\* Functions::delete (and its likes) with the import behind the item, for the three
\* operations below.
DeleteItem_decrements(s, h) ==              \* mutant: any deletion decrements num_local_*
    /\ panic = NoPanic /\ h \in Handles(s)
    /\ recalc' = [recalc EXCEPT ![s] = TRUE]
    /\ items' = [items EXCEPT ![s][h + 1].deleted = TRUE]
    /\ imports' = DropImportOf(At(s, h))
    /\ numLocal' = [numLocal EXCEPT ![s] = @ - 1]
    /\ UNCHANGED <<impCount, impAdded, refSites, panic>>
DeleteItem(s, h) ==
    /\ panic = NoPanic /\ h \in Handles(s)
    /\ recalc' = [recalc EXCEPT ![s] = TRUE]
    /\ items' = [items EXCEPT ![s][h + 1].deleted = TRUE]
    /\ imports' = DropImportOf(At(s, h))
    /\ UNCHANGED <<impCount, impAdded, numLocal, refSites, panic>>

DeleteFunc(h) == DeleteItem("func", h)
DeleteGlobal(h) == DeleteItem("global", h)
DeleteMemory(h) == DeleteItem("memory", h)

\* FunctionBuilder::replace_import_in_module and Module::convert_import_fn_to_local: the
\* ImportsID is used as the FunctionID of the function to replace.
ReplaceImport_keepsImport(i) ==             \* mutant: delete_func not called first
    /\ panic = NoPanic /\ i \in Handles("func") \cap ImportsIDs
    /\ imports[i + 1].kind = "func" /\ IsImport(At("func", i))
    /\ recalc' = [recalc EXCEPT !["func"] = TRUE]
    /\ items' = [items EXCEPT !["func"][i + 1] = LocalItem(i, {}, ImportName)]
    /\ UNCHANGED <<imports, impCount, impAdded, numLocal, refSites, panic>>
ReplaceImport(i) ==
    /\ panic = NoPanic /\ i \in ImportsIDs
    /\ imports[i + 1].kind = "func"
    /\ IF i \notin Handles("func")
       THEN panic' = "replace_import" /\ UNCHANGED <<items, recalc, imports>>
       ELSE /\ IsImport(At("func", i))
            /\ recalc' = [recalc EXCEPT !["func"] = TRUE]
            /\ imports' = DropImportOf(At("func", i))
            /\ items' = [items EXCEPT !["func"][i + 1] = LocalItem(i, {}, ImportName)]
            /\ UNCHANGED panic
    /\ UNCHANGED <<impCount, impAdded, numLocal, refSites>>

\* Module::convert_local_fn_to_import: the function keeps its ID and its place in the
\* vector, and its import goes to the end of the import section.
ConvertLocalFnToImport_noRecalc(h) ==       \* mutant: recalculate_ids not set
    /\ panic = NoPanic /\ RoomForImport
    /\ h \in Handles("func") /\ IsLocal(At("func", h))
    /\ PushImport("func")
    /\ items' = [items EXCEPT !["func"][h + 1] = ImportItem(h, Len(imports))]
    /\ UNCHANGED <<recalc, numLocal, refSites, panic>>
ConvertLocalFnToImport(h) ==
    /\ panic = NoPanic /\ RoomForImport
    /\ h \in Handles("func") /\ IsLocal(At("func", h))
    /\ PushImport("func")
    /\ recalc' = [recalc EXCEPT !["func"] = TRUE]
    /\ items' = [items EXCEPT !["func"][h + 1] = ImportItem(h, Len(imports))]
    /\ UNCHANGED <<numLocal, refSites, panic>>

(***************************************************************************)
(* Editing items in place, and the reference sites.                        *)
(***************************************************************************)
\* Module::set_fn_name.  An ID below num_funcs is taken for an import, and
\* ModuleImports::set_fn_name takes the function ID for a position among all imports.
SetFnName(h, name) ==
    /\ panic = NoPanic /\ h \in Handles("func")
    /\ LET asImport == h < impCount["func"]
           entry    == h + 1
       IN  /\ imports' = IF /\ asImport /\ entry <= Len(imports)
                            /\ imports[entry].kind = "func"
                         THEN [imports EXCEPT ![entry].custom = name] ELSE imports
           /\ items' = IF ~asImport /\ IsLocal(At("func", h))
                       THEN [items EXCEPT !["func"][h + 1].name = name] ELSE items
           /\ DebugAssert("set_fn_name", asImport = IsImport(At("func", h)))
    /\ UNCHANGED <<recalc, impCount, impAdded, numLocal, refSites>>

\* ModuleImports::set_name, by ImportsID.
SetImportName(i, name) ==
    /\ panic = NoPanic /\ i \in ImportsIDs
    /\ imports' = [imports EXCEPT ![i + 1].custom = name]
    /\ UNCHANGED <<items, recalc, impCount, impAdded, numLocal, refSites, panic>>

\* Injecting an instruction that refers to `r' into a local function's body.
Inject(h, r) ==
    /\ panic = NoPanic /\ h \in Handles("func") /\ IsLocal(At("func", h))
    /\ Cardinality(At("func", h).refs \cup {r}) <= scenario.maxRefs
    /\ items' = [items EXCEPT !["func"][h + 1].refs = @ \cup {r}]
    /\ UNCHANGED <<recalc, imports, impCount, impAdded, numLocal, refSites, panic>>

\* Injecting in a special mode (function entry/exit, block modes): sets has_special_instr.
InjectSpecial(h) ==
    /\ panic = NoPanic /\ h \in Handles("func") /\ IsLocal(At("func", h))
    /\ scenario.specials
    /\ items' = [items EXCEPT !["func"][h + 1].special = TRUE]
    /\ UNCHANGED <<recalc, imports, impCount, impAdded, numLocal, refSites, panic>>

\* Module::mod_global_init_expr: an error, and no change, for an imported global.
ModGlobalInitExpr(h, init) ==
    /\ panic = NoPanic /\ h \in Handles("global") /\ IsLocal(At("global", h))
    /\ items' = [items EXCEPT !["global"][h + 1].refs = init]
    /\ UNCHANGED <<recalc, imports, impCount, impAdded, numLocal, refSites, panic>>

\* ModuleExports::add_export_*_internal.
AddExport(s, h) ==
    /\ panic = NoPanic /\ Len(exports) < scenario.maxExports /\ h \in Handles(s)
    /\ exports' = Append(exports, [space |-> s, index |-> h, deleted |-> FALSE])
    /\ UNCHANGED <<items, recalc, imports, impCount, impAdded, numLocal, data, fixed,
                   panic>>

AddExportFunc(h) == AddExport("func", h)
AddExportGlobal(h) == AddExport("global", h)
AddExportMem(h) == AddExport("memory", h)

\* ModuleExports::delete.
DeleteExport(e) ==
    /\ panic = NoPanic /\ e \in 0 .. Len(exports) - 1
    /\ exports' = [exports EXCEPT ![e + 1].deleted = TRUE]
    /\ UNCHANGED <<items, recalc, imports, impCount, impAdded, numLocal, data, fixed,
                   panic>>

\* Module::add_data, for an active segment of memory `h' placed at `offset'.
AddData(h, offset) ==
    /\ panic = NoPanic /\ Len(data) < scenario.maxData /\ h \in Handles("memory")
    /\ data' = Append(data, [memory |-> h, offset |-> offset])
    /\ UNCHANGED <<items, recalc, imports, impCount, impAdded, numLocal, exports, fixed,
                   panic>>

\* The edits that neither add, convert nor name a function.
OtherEdit ==
    \/ \E init \in InitExprs : AddGlobal(init)
    \/ AddLocalMemory
    \/ AddImportMemory \/ AddImportedGlobal
    \/ \E h \in Handles("func") : DeleteFunc(h)
    \/ \E h \in Handles("global") : DeleteGlobal(h)
    \/ \E h \in Handles("memory") : DeleteMemory(h)
    \/ \E h \in Handles("func"), r \in KnownRefs : Inject(h, r)
    \/ \E h \in Handles("func") : InjectSpecial(h)
    \/ \E h \in Handles("global"), init \in InitExprs : ModGlobalInitExpr(h, init)
    \/ \E h \in Handles("func") : AddExportFunc(h)
    \/ \E h \in Handles("global") : AddExportGlobal(h)
    \/ \E h \in Handles("memory") : AddExportMem(h)
    \/ \E e \in 0 .. Len(exports) - 1 : DeleteExport(e)
    \/ \E h \in Handles("memory"), offset \in InitExprs : AddData(h, offset)

Next ==
    \/ \E n \in scenario.names \cup {NoName} : AddLocalFunc(n) \/ AddLocalFuncInComponent(n)
    \/ AddImportFunc
    \/ \E i \in ImportsIDs : ReplaceImport(i)
    \/ \E h \in Handles("func") : ConvertLocalFnToImport(h)
    \/ \E h \in Handles("func"), n \in scenario.names : SetFnName(h, n)
    \/ \E i \in ImportsIDs, n \in scenario.names : SetImportName(i, n)
    \/ OtherEdit

Spec == Init /\ [][Next]_vars
(***************************************************************************)
(* Properties of the IR itself.                                            *)
(***************************************************************************)
ItemsOK == items \in [Space -> Seq(Item)]
ImportsOK == imports \in Seq(Import)

\* Every vector, flag, counter and reference site has the type the Rust structs give it.
TypeOK ==
    /\ ItemsOK /\ ImportsOK
    /\ recalc \in [Space -> BOOLEAN]
    /\ impCount \in [Space -> Nat] /\ impAdded \in [Space -> Nat]
    /\ numLocal \in [Space -> Nat]
    /\ exports \in Seq(Export) /\ data \in Seq(Data)
    /\ start \in Nat \cup {NoId} /\ tables \in SUBSET Ref /\ elements \in Seq(Element)
    /\ scenario \in Scenarios
    /\ panic \in PanicSites \cup {NoPanic}

\* The parsed module defines functions, or a debug build stops where add_import_func is
\* given an ID that is not the vector's length.
FuncIdsChecked == scenario.debug \/ scenario.module.numLocal["func"] > 0

\* An ID is the position of its item (module_functions.rs, module_globals.rs and
\* module_memories.rs all index their vector with the ID): the id an item carries into
\* the mapping is the one get(id) finds it under, whatever was added, deleted or converted.
\* The functions of a release build are the exception: see NextIdIsNextSlot.
PositionIds ==
    \A s \in Space : (s = "func" => FuncIdsChecked) => \A h \in Handles(s) : At(s, h).id = h

\* An import of the space that a local item has replaced.
ReplacedImport(s) ==
    \E i \in ImportsIDs :
        /\ imports[i + 1].kind = s
        /\ \A h \in Handles(s) : ~(IsImport(At(s, h)) /\ At(s, h).imp = i)

\* Module::add_import hands out the slot the next import is about to take, also where it
\* counts imports because the space has no local item; the one way to break this is to
\* replace an import of a module that was parsed without local functions.
NextIdIsNextSlot ==
    panic = NoPanic =>
        \A s \in Space : NextImportId(s) = Len(items[s]) \/ (numLocal[s] = 0 /\ ReplacedImport(s))

\* An imported item names an import of its own kind, two items never share one, and the
\* two deleted flags (Function/Global/Memory and Import) agree.
ImportLinksOK ==
    \A s \in Space : \A h \in Handles(s) :
        IsImport(At(s, h)) =>
            /\ At(s, h).imp \in ImportsIDs
            /\ imports[At(s, h).imp + 1].kind = s
            /\ imports[At(s, h).imp + 1].deleted = At(s, h).deleted
            /\ \A k \in Handles(s) :
                  IsImport(At(s, k)) /\ At(s, k).imp = At(s, h).imp => k = h

\* No live import is left behind: the encoder writes every import that is not marked
\* deleted, so each must belong to a live item or it would shift the index space.
NoOrphanImport ==
    panic = NoPanic =>
        \A i \in ImportsIDs :
            imports[i + 1].kind \in Space /\ ~imports[i + 1].deleted =>
                \E h \in Handles(imports[i + 1].kind) :
                    /\ LiveImport(At(imports[i + 1].kind, h))
                    /\ At(imports[i + 1].kind, h).imp = i

\* delete_* always asks for re-indexing, and so does every operation that puts an import
\* behind a local item: without recalculate_ids the vector is already in binary order.
RecalcWhenNeeded ==
    \A s \in Space : ~recalc[s] =>
        /\ \A h \in Handles(s) : ~At(s, h).deleted
        /\ \A h, k \in Handles(s) : IsImport(At(s, k)) /\ h < k => IsImport(At(s, h))
=============================================================================
