---------------------------- MODULE ModuleEncode ----------------------------
(***************************************************************************)
(* Module::encode_internal as a function of the state of ModuleIR (it      *)
(* works on a clone and leaves the module alone): the ID mappings, the     *)
(* index spaces of the emitted binary, the references and names it emits,  *)
(* and how it ends; then what encoding owes the caller of the API.         *)
(***************************************************************************)
EXTENDS ModuleIR, Reindex

Vector(s) == EncodedVector(items[s], recalc[s])
Mapping(s) == GetMapping(Vector(s))

(***************************************************************************)
(* The emitted index spaces.  A binary numbers the imports of a space in   *)
(* import-section order, then the local definitions in section order.  An  *)
(* entry says what it stands for: an entry of the import section, or the   *)
(* local definition a handle names.                                        *)
(***************************************************************************)
ImportIds == [i \in 1 .. Len(imports) |-> i - 1]
EmittedImports_all(s) ==                    \* mutant: deleted imports written too
    Pick(ImportIds, {i \in DOMAIN imports : imports[i].kind = s})
EmittedImports(s) ==
    Pick(ImportIds, {i \in DOMAIN imports : imports[i].kind = s /\ ~imports[i].deleted})
\* The memory section alone does not look at `deleted'.
EmittedLocals(v, s) ==
    Pick(v, {p \in DOMAIN v : IsLocal(v[p]) /\ (s = "memory" \/ ~v[p].deleted)})

SpaceOf(v, s) ==
    LET imps == EmittedImports(s)
        locs == EmittedLocals(v, s)
    IN  [i \in 1 .. Len(imps) |-> <<"import", imps[i]>>]
            \o [p \in 1 .. Len(locs) |-> <<"local", locs[p].id>>]
EmittedSpace(s) == SpaceOf(Vector(s), s)

\* What handle h of space s stands for in the IR.
Denotes(s, h) ==
    IF IsImport(At(s, h)) THEN <<"import", At(s, h).imp>> ELSE <<"local", At(s, h).id>>

LiveHandles(s) == {h \in Handles(s) : ~At(s, h).deleted}
Resolves(s, new, h) == new + 1 \in DOMAIN EmittedSpace(s)
                         /\ EmittedSpace(s)[new + 1] = Denotes(s, h)
\* The emitted binary, read at the remapped index of h, gives what h stands for.
Faithful(s, h) == h \in DOMAIN Mapping(s) /\ Resolves(s, Mapping(s)[h], h)

(***************************************************************************)
(* The references the IR holds, in the order the sections are written.     *)
(***************************************************************************)
Refs(s, ids) == {[space |-> s, id |-> i] : i \in ids}
RefsOf(s) == UNION {At(s, h).refs : h \in {k \in LiveHandles(s) : IsLocal(At(s, k))}}
LiveExports == {e \in DOMAIN exports : ~exports[e].deleted}
ExportedIds(s) == {exports[e].index : e \in {x \in LiveExports : exports[x].space = s}}

\* A place of the binary that holds references: `unwrapped' those whose look-up in the
\* mapping is unwrapped, before `checked', those whose look-up is an error.
Site(unwrapped, checked) == [unwrapped |-> unwrapped, checked |-> checked]
\* The catch-all arm of the export match: a global (or table) export keeps its index.
ExportSite == Site(Refs("func", ExportedIds("func")) \cup Refs("memory", ExportedIds("memory")), {})
\* A segment lists functions or constant expressions; its offset comes last.
ElementSite(e) == Site(Refs("func", e.funcs), e.exprs)
DataSite == Site({}, UNION {data[d].offset \cup Refs("memory", {data[d].memory}) : d \in DOMAIN data})

Sites_noOffsets ==                          \* mutant: what offsets refer to is not remapped
    <<Site({}, tables), Site({}, RefsOf("global")), ExportSite>>
        \o [i \in DOMAIN elements |-> ElementSite(elements[i])]
        \o <<Site({}, RefsOf("func")),
             Site({}, Refs("memory", {data[d].memory : d \in DOMAIN data}))>>
Sites ==
    <<Site({}, tables), Site({}, RefsOf("global")), ExportSite>>
        \o [i \in DOMAIN elements |-> ElementSite(elements[i])]
        \o <<Site({}, RefsOf("func")), DataSite>>

(***************************************************************************)
(* How encoding ends: the first failing site decides.                      *)
(***************************************************************************)
Unmapped(refs) == {r \in refs : r.id \notin DOMAIN Mapping(r.space)}
FailingSites == {i \in DOMAIN Sites : Unmapped(Sites[i].unwrapped \cup Sites[i].checked) # {}}
FirstFailing == CHOOSE i \in FailingSites : \A j \in FailingSites : i <= j

EncodeOutcome ==
    CASE FailingSites = {} -> "ok"
      [] FailingSites # {} /\ Unmapped(Sites[FirstFailing].unwrapped) # {} -> "panic"
      [] FailingSites # {} /\ Unmapped(Sites[FirstFailing].unwrapped) = {} -> "error"

(***************************************************************************)
(* The references an "ok" encoding emits, as <<space, old index, new>>.     *)
(***************************************************************************)
Emit_stale(s, ids) ==                       \* mutant: memory indices not remapped
    {<<s, id, IF s = "memory" THEN id ELSE Mapping(s)[id]>> : id \in ids \cap DOMAIN Mapping(s)}
Emit(s, ids) == {<<s, id, Mapping(s)[id]>> : id \in ids \cap DOMAIN Mapping(s)}
SiteRefs == UNION {Sites[i].unwrapped \cup Sites[i].checked : i \in DOMAIN Sites}
\* The start function is left out, with a warning, when it was deleted.
EmittedRefs ==
    Emit("func", {start})
        \cup UNION {Emit(s, {r.id : r \in {x \in SiteRefs : x.space = s}}) : s \in Space}
EmittedGlobalExports == {<<"global", id, id>> : id \in ExportedIds("global")}

(***************************************************************************)
(* The function name section: custom names of the imports, then the names  *)
(* of the local bodies, each at the index the encoder counts for it.       *)
(***************************************************************************)
FunctionNames_countDeleted ==               \* mutant: import_func_idx counts deleted imports
    LET imps == EmittedImports_all("func")
    IN  {<<i - 1, imports[imps[i] + 1].custom>> : i \in {j \in DOMAIN imps :
              ~imports[imps[j] + 1].deleted /\ imports[imps[j] + 1].custom # NoName}}
        \cup {<<p - 1, Vector("func")[p].name>> : p \in {q \in DOMAIN Vector("func") :
                       LiveLocal(Vector("func")[q]) /\ Vector("func")[q].name # NoName}}
FunctionNames ==
    LET imps == EmittedImports("func")
    IN  {<<i - 1, imports[imps[i] + 1].custom>> : i \in {j \in DOMAIN imps :
                                                imports[imps[j] + 1].custom # NoName}}
        \cup {<<p - 1, Vector("func")[p].name>> : p \in {q \in DOMAIN Vector("func") :
                       LiveLocal(Vector("func")[q]) /\ Vector("func")[q].name # NoName}}

\* The functions resolve_special_instrumentation visits: positions of the vector that
\* was already reorganised, from the number of imported functions that were parsed.
ResolvedPositions_fromNumFuncs ==           \* mutant: num_funcs_added not subtracted
    {p \in impCount["func"] .. Len(Vector("func")) - 1 :
        IsLocal(Vector("func")[p + 1]) /\ Vector("func")[p + 1].special}
ResolvedPositions ==
    {p \in (impCount["func"] - impAdded["func"]) .. Len(Vector("func")) - 1 :
        IsLocal(Vector("func")[p + 1]) /\ Vector("func")[p + 1].special}

(***************************************************************************)
(* Properties of encoding.                                                 *)
(***************************************************************************)
\* recalculate_ids: exactly the live items keep an index, and it is the number of items
\* that come before it in binary order (live imports, then live locals); so the mapping
\* is one-to-one and deleted IDs have no entry to hide behind.
MappingExact ==
    panic = NoPanic /\ FuncIdsChecked =>
        \A s \in Space :
            /\ DOMAIN Mapping(s) = LiveHandles(s)
            /\ \A h \in LiveHandles(s) : Mapping(s)[h] = Rank(items[s], h + 1)

\* A local item resolves to itself in the binary, whatever was deleted, converted or
\* imported around it: the import section and the items agree on how many imports precede.
LocalsFaithful ==
    panic = NoPanic /\ FuncIdsChecked =>
        \A s \in Space : \A h \in LiveHandles(s) : IsLocal(At(s, h)) => Faithful(s, h)

\* An imported global or memory resolves to the import it was created for.
ImportsFaithful ==
    panic = NoPanic =>
        \A s \in {"global", "memory"} : \A h \in LiveHandles(s) :
            IsImport(At(s, h)) => Faithful(s, h)

\* The live imported functions stand in the vector in import-section order.
AscendingFuncImports ==
    \A h, k \in LiveHandles("func") :
        IsImport(At("func", h)) /\ IsImport(At("func", k)) /\ h < k
            => At("func", h).imp < At("func", k).imp

FuncImportsFaithful ==
    panic = NoPanic =>
        \A h \in LiveHandles("func") : IsImport(At("func", h)) => Faithful("func", h)

\* Function handles all resolve to their imports if, and only if, no conversion put the
\* imported functions in another order than the import section: what
\* convert_local_fn_to_import really guarantees.
FuncImportsFaithfulIffAscending ==
    panic = NoPanic /\ FuncIdsChecked => (FuncImportsFaithful <=> AscendingFuncImports)

\* The references the IR holds: those of tables and globals; the exports and the lists of
\* functions; the other parts of element segments, the bodies, the data segments.
InitialiserRefs == tables \cup RefsOf("global")
ListedRefs ==
    Refs("func", ExportedIds("func")) \cup Refs("memory", ExportedIds("memory"))
        \cup Refs("func", UNION {elements[i].funcs : i \in DOMAIN elements})
HeldRefs ==
    InitialiserRefs \cup ListedRefs \cup RefsOf("func")
        \cup (UNION {elements[i].exprs : i \in DOMAIN elements})
        \cup (UNION {data[d].offset : d \in DOMAIN data})
        \cup Refs("memory", {data[d].memory : d \in DOMAIN data})
Dangling(refs) == \E r \in refs : r.id \notin LiveHandles(r.space)

\* Encoding succeeds exactly when nothing the IR holds refers to a deleted item: no
\* reference to a deleted item is silently emitted, and none to a live one is refused.
\* It panics only where an export or an element segment's list names a deleted item, and a
\* deleted item in an initialiser of a table or a global is always reported as an error.
\* (An exported global is not looked up: see ExportSite.)
EncodesIffNoDanglingRef ==
    panic = NoPanic /\ FuncIdsChecked =>
        /\ EncodeOutcome = "ok" <=> ~Dangling(HeldRefs)
        /\ EncodeOutcome = "panic" => Dangling(ListedRefs)
        /\ Dangling(InitialiserRefs) => EncodeOutcome = "error"

\* A successful encoding emits every reference the IR holds, and points each at what the
\* caller meant, in bodies, initialisers, offsets, function and memory exports, element and
\* data segments and the start function, as long as the imported functions are in order.
EmittedRefsFaithful ==
    panic = NoPanic /\ FuncIdsChecked /\ EncodeOutcome = "ok" /\ AscendingFuncImports =>
        /\ \A r \in HeldRefs : \E e \in EmittedRefs : e[1] = r.space /\ e[2] = r.id
        /\ start \in LiveHandles("func") => \E e \in EmittedRefs : e[1] = "func" /\ e[2] = start
        /\ \A e \in EmittedRefs : Resolves(e[1], e[3], e[2])

\* A live export of a live global still names that global in the binary.
GlobalExportsFaithful ==
    panic = NoPanic =>
        \A e \in EmittedGlobalExports :
            e[2] \in LiveHandles("global") => Resolves(e[1], e[3], e[2])

\* resolve_special_instrumentation: "Visits the Wirm Module and resolves the special
\* instrumentation": every local function that has some is visited.
AllSpecialsResolved ==
    panic = NoPanic =>
        \A p \in 0 .. Len(Vector("func")) - 1 :
            LiveLocal(Vector("func")[p + 1]) /\ Vector("func")[p + 1].special
                => p \in ResolvedPositions

\* ... which holds while there are at least as many imported functions as were parsed:
\* the range starts at that number, in the vector that has already been compacted.
SpecialsResolvedWhileImportsRemain ==
    Cardinality(LiveImportPositions(items["func"])) >= impCount["func"] - impAdded["func"]
        => AllSpecialsResolved

(***************************************************************************)
(* Each space implements StableHandles.                                    *)
(***************************************************************************)
Gone == <<"gone">>
Bound(s) == [p \in DOMAIN items[s] |-> IF items[s][p].deleted THEN Gone ELSE Denotes(s, p - 1)]
\* The binary read at the remapped index of every handle.  (Functions of the vector and of
\* the binary, where operators would do: TLC evaluates the argument of a function once.)
Resolved(s) ==
    LET encode[v \in {Vector(s)}] == [mapping |-> GetMapping(v), space |-> SpaceOf(v, s)]
        binary == encode[Vector(s)]
        readBack[b \in {binary}] ==
            [p \in DOMAIN items[s] |->
                IF p - 1 \notin DOMAIN b.mapping THEN Gone
                ELSE IF b.mapping[p - 1] + 1 \notin DOMAIN b.space THEN <<"nothing">>
                ELSE b.space[b.mapping[p - 1] + 1]]
    IN  readBack[binary]

GlobalHandles == INSTANCE StableHandles
    WITH CanRebind <- FALSE, bound <- Bound("global"), resolved <- Resolved("global")
MemoryHandles == INSTANCE StableHandles
    WITH CanRebind <- FALSE, bound <- Bound("memory"), resolved <- Resolved("memory")

\* The IDs of globals, and of memories, are stable handles through every operation of the
\* module, those on the other spaces and the shared import section included.
GlobalsAreStableHandles == GlobalHandles!Spec
MemoriesAreStableHandles == MemoryHandles!Spec
=============================================================================
