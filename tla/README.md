# A TLA+ model of wirm

wirm is a Rust library that parses a WebAssembly module or component into an editable
intermediate representation, lets a caller inspect, edit and instrument it, and encodes
it back to a binary. It has no threads of its own (rayon maps over independent function
bodies) and no I/O beyond reading and writing bytes. What is hard about it is that **IDs
handed out to callers must stay meaningful through any sequence of edits**, while the
binary format numbers everything by position: the correctness of an instrumented program
rests on counters, flags, links and re-indexing passes that many operations maintain
together, and on cursors and resolvers whose state depends on everything seen so far.
Call sequences are the concurrency of this system; the models explore them all, up to
the bounds named below.

Paths below are relative to `src/src`.

## Inventory

| component | state | operations | what makes it correct |
|---|---|---|---|
| **Module IR and its API** `ir/module/mod.rs`, `module_functions.rs`, `module_globals.rs`, `module_memories.rs`, `module_imports.rs`, `module_exports.rs` | three vectors (functions, globals, memories) with a `recalculate_ids` flag each; the import section they share; counters `num_*`, `num_*_added`, `num_local_*`; exports, data, elements, start | add local / imported items, delete, convert between local and imported, rename, export, inject references | an ID is the position of its item; item and import agree; what counters say is what vectors hold |
| **Function builder** `ir/function.rs` | a body under construction | `finish_module`, `finish_component`, `replace_import_in_module` | the function gets the next ID; replacing an import redirects every call to it |
| **Re-indexing and encoding** `ir/module/mod.rs`, `reindex.rs`, `types.rs` | none kept: reads the IR | `recalculate_ids`, `reorganize`, `get_mapping_generic`, `fix_op_id_mapping`, one loop per section | every reference the caller wrote names, in the binary, the item the caller meant; encoding fails exactly on references to deleted items |
| **Special instrumentation resolver** `ir/module/mod.rs` | block stack, bodies to resolve on else/end, deletion of blocks in progress | one pass over a function, one instruction at a time | every special body ends up as before/after/alt code at the right instruction, once |
| **Instrumentation flags** `ir/types.rs`, `opcode.rs`, `ir/function.rs` | per instruction and per function: current mode and bodies per mode | set mode, add instruction, clear, finish | a body lands in the mode that was set; resolvable work is flagged |
| **Sub-iterators and iterators** `subiterator/*`, `iterator/*` | three nested cursors, skip lists | new, next, reset, current location | every instruction of every function that is not skipped, once, in order |
| **Side effects** `ir/module/side_effects.rs` | none kept | report injected items | exactly what was injected, by the IDs in the binary |
| **Type section** `module_types.rs` | types by ID, by value | add, with deduplication | equal types share an ID, IDs stay valid |
| **Tables, elements, name section, custom sections** `module_tables.rs`, `names.rs` | parsed data | mostly written back | references re-indexed |
| **Component IR** `ir/component/mod.rs`, `section.rs` | vectors of items per section kind, a run-length list of sections in file order, nested components, name maps | parse, `add_*`, `add_component` (closure), `add_component_from_bytes`, edit in place, delete a custom section | an id returned by an `add_*` stands for that item for good |
| **Component index spaces** `ir/component/idx_spaces.rs` | per scope and space: the next assumed id, four maps from a vector position to its id or ids, a cache of the way back | assign, look up forward and backward | ids dense, one item each, never reused; the cache agrees with a search |
| **Scopes and references** `scopes.rs`, `refs.rs` | registry from nodes and components to scopes | register, depth of a reference, the references of every node | a reference resolves in the scope it names; no reference of an item is forgotten |
| **Visitors** `ir/component/visitor/*` | a stack of scopes, components and type bodies; the set of nodes seen | structural walk, topological walk | each item once, paired enter and exit, dependencies first |
| **Component encoding** `encode/component/*` | events, actual ids per scope, stack of frames | collect, assign, fix, encode | every index and name in the binary means the item its assumed id stood for |
| **Concretisation** `ir/component/concrete.rs` | none kept | expand types | pure algorithm |
| **IDs, errors, helpers** `ir/id.rs`, `error.rs`, `ir/helpers.rs`, `ir/dwarf.rs` | none | — | — |

Components interact by direct calls only: the builder and the iterators write the module
IR through its API; encoding clones and re-indexes the IR, runs the resolver over the
re-indexed clone and then writes sections; a component's encoding calls the module's for
each core module. Shared state is inside `Module`: three index spaces share one import
section, which is where their operations meet, and inside a tree of components: all of them
hold the same index store and scope registry (`Rc<RefCell<..>>`), so building, parsing and
refusing a nested component all change the state of its parents, and encoding fills caches
the next edits find.

### Behaviours that are hard to test

`PROJECT.json` lists every hazard at its line. They come in five families: the same fact
kept in two places (an item and its import, a vector and its counters, a flag saying the
vector must be re-ordered); an index from one numbering used in another (ImportsID as
FunctionID, positions of the unedited module in the compacted vector); reference sites
remapped by separate pieces of code; cursors and resolvers with boundary cases (first or
last function skipped, nested and replaced blocks); and numbering that must follow an
ordering decided elsewhere: an item of a component is referred to by its *assumed id*, which
it keeps, and written under its *actual id*, which depends on everything a depth-first walk
has moved ahead of it.

## Modules

| module | models | kind |
|---|---|---|
| `ModuleParse` | what parsing builds from the import section and the counts of local definitions | data and operators |
| `ModuleIR` | every API operation on functions, globals, memories, imports, exports, references | state machine |
| `Reindex` | `reorganize` and `get_mapping_generic`, the loop that keeps some items of a vector (`Pick`), with a reference definition of the mapping (`Rank`) | operators |
| `ModuleEncode` | the binary's index spaces, references, names and outcome, read from a `ModuleIR` state; the properties of encoding | operators and properties |
| `ModuleNames` | `ModuleIR` with what each function was last named, by any operation, and whether a call of `set_fn_name` has strayed | state machine (history variables), refines `ModuleIR` |
| `StableHandles` | the abstract promise of an index space: an ID is a handle | abstract specification |
| `ModuleIRProofs` | theorems about `ModuleIR`: types and links, IDs, order and imports | proofs |
| `ReindexProofs`, `ModuleEncodeProofs` | lemmas about `Reindex`; theorems about `ModuleEncode` | proofs |
| `SubIterators` | the nested cursors of `ComponentIterator` | state machine |
| `SubIteratorProofs` | theorems about `SubIterators` | proofs |
| `WasmBody` | function bodies as instruction sequences, and the block structure WebAssembly gives them | operators |
| `Instrumentation` | the calls by which a caller instruments one function | actions |
| `Resolver` | `resolve_special_instrumentation` on that function, instruction by instruction, and the code `encode_function` writes | state machine |
| `WasmRun` | what an engine does with a function body | abstract specification |
| `InstrumentedRun` | instrument, resolve, write, run | composition, refines `WasmRun` |
| `ResolverProofs` | lemmas about `WasmBody`; theorems about `Resolver`: stack, replaced blocks, what is written | proofs |
| `PlacementProofs` | where the ends of open blocks are; the theorem on where bodies are put | proofs |
| `NestingProofs` | levels and labels in what is written; the theorem on nesting and branches | proofs |
| `IndexSpaces` | one index space: ids by position, lookup, cache | operators |
| `ComponentRefs` | every index field of every kind of item: its space, the getter that reports it, the reference it is rewritten from | operators |
| `ComponentIR` | the tree of components and type bodies; the parser token by token, and the client's edits | state machine, refines `AssumedIds` |
| `AssumedIds` | the abstract promise of the ids of a component | abstract specification |
| `ComponentVisit` | structural and topological event orders | operators |
| `ComponentEncode` | collect, assign, rewrite, write; the binary read back | state machine over `ComponentIR`, properties |
| `ComponentProofs` | lemmas about `IndexSpaces`, theorems about `ComponentIR` | proofs |
| `MCModule`, `MCSubIterators`, `MCBodies`, `MCInstrumentedRun`, `MCComponent` | instances for TLC | |

### ModuleIR

Each space `s` in {func, global, memory} has a vector `items[s]`; the item with ID `h` is
`items[s][h+1]`. An item is a record of what the code tells apart: local or imported, the
ID it carries, the `ImportsID` behind it, `deleted`, the references in its body or
initialiser, its name, and whether a special-mode body was injected. Bodies are sets of
references: which instruction holds one does not matter to re-indexing. Types, limits,
tags and bytes are left out.

One action stands for one public operation with everything it calls. Three shapes are
shared: `PushLocal` (the `add_local` of each space), `AddImportItem` (`add_import` followed
by the space's `add_import_*`) and `DeleteItem` (the item and the import behind it).
`AddImportedGlobal` is an action of its own because the code takes another path:
`add_global_internal` counts the import as a *local* global and the item gets the vector's
length as ID. `debug_assert!`s on counters are modelled by `DebugAssert`: in a debug build
a failing one sets `panic` and the program is over; in a release build it is compiled out.

`Scenarios` is the one parameter, besides the names: each scenario is a parsed module (with
its start function, the references its tables, element and data segments hold), a build,
and bounds on what one caller does with it. A behaviour plays one scenario, so one run takes
modules with and without local functions, in both builds, each with the bounds it needs.

Import sections contain a fourth kind, "other" (tables, tags): such imports are parsed and
take a position, which keeps `ImportsID` and `FunctionID` apart.

Encoding does not change the IR, so `ModuleEncode` has no action: it defines, over the
variables of `ModuleIR`, the compacted vectors, the mappings, the emitted index spaces, the
emitted references and how encoding ends, and the properties are invariants: in every
reachable state, encoding *now* would be right. `Sites` are the places of the binary that
hold references, in the order the code writes them: initialisers of tables, of globals,
exports, each element segment (listed functions or constant expressions, then its offset),
bodies, data segments with their offsets. At each, a look-up that finds no mapping is either
unwrapped, a panic, or an error; the first site that fails decides which (`EncodeOutcome` is
"ok", "error" or "panic"). Exports of globals are not looked up at all (`bad_global_export`).

`ModuleNames` adds two history variables. `named` is the name each function was last asked
to have, by the builder, a conversion, `set_fn_name` or `ModuleImports::set_name`, kept
apart from where the IR stores names; `strayed` is set when a call of `set_fn_name` does not
change the stored name it was meant for and no other.

### SubIterators

`modIt` is the `ModuleSubIterator` with its `FuncSubIterator` as the fields `instr` and
`num`; `currMod` is the component cursor. `Advance` is one call of `next` and the reading
of the instruction it leads to, which panics if the cursor is past the body's end; `Reset`
is `reset`. `visited` is a history variable. `Regular` names the components on which the
cursor keeps the whole promise; outside of it the code stops early or miscounts
(see *Disagreements*), and `SkipsRespected`, `OfferedOnce` and `TraversalEnds` are checked
without it.

### Instrumentation, Resolver, InstrumentedRun

`Instrumentation` has the state a caller writes: per instruction the lists of injected
operators by mode (`lists`), which of the two optional modes are `Some` (`some`; an empty
`Some` is a removal) and the current mode; per function the entry and exit lists, the
function-level mode and `has_special_instr`. An injected operator is a *probe*, numbered in
the order of injection, so that where it ends up can be told. `client` is who calls: a
`ModuleIterator` goes through `LocalFunction::add_instr`, a `FunctionModifier` writes to the
body itself and forgets `has_special_instr` in two of its methods. Calls that panic are not
taken: the program is over.

`Resolver` adds the variables of the pass under their names in the code. One action stands
for one iteration of the loop, by class of instruction (`OpenBlock`, `AtElse`, `EndRemoved`,
`EndKept`, `OtherRemoved`, `OtherKept`), with everything the iteration calls: the function's
entry and exit bodies, `plan_resolution_*` (`Plan`), `resolve_bodies` (`Chain`), the deletion
of replaced blocks (`Replace`, `RemoveInstr`). Flag manipulation is one instruction each
(`flag_on`, `flag_off`, `if_flag`) instead of two. Instructions come in classes: `try` for
`try_table`, its labels those of its catches, `br_if` also for the `br_on_*`, `return` also
for tail calls, `throw` also for `throw_ref`, `call` for every other instruction that may trap
or end in an exception, `nop` for those that do neither.

The resolver knows the block structure from a stack it keeps while walking; `WasmBody` reads
the same structure off the whole sequence. `Belongs` says with it, for every body asked for,
at which instructions it has to end up, and the properties compare the two. `Encoded` is the
code as written, each instruction with the one of the body it comes from.

`InstrumentedRun` runs that code. `WasmRun` is the engine without values: a condition may go
either way, a throw or a failing call continues at any catch of any `try` around it or leaves
the function. There are three ways out: past the end (a return), an `unreachable` or a throw
nobody catches (`Trapped`), and in the middle of a call (`Aborted`). The refinement mapping takes the
run of the instrumented code to the next *own* instruction of the function, so
`KeepsTheFunctionsPath` says that instrumentation adds stuttering and nothing else. `owed`,
`early` and `exits` are history variables. Functions from which something was removed are
resolved and written but not run: there is nothing to compare their path with.

### ComponentRefs, IndexSpaces, ComponentIR

A *container* is a component or the body of a component, instance or module type. Each has
its vectors (`conts[c].vec[v]`, a body keeps one vector of declarations) and a scope, one
index space per kind (`scopes[c][sp]`). The four maps of an `IdxSpace` are one set of
entries `[map, idx, sub, id]`; `AssumedIdForIdx::Single` is an entry alone at its position,
`Multiple` several. An item is a record `[sort, form, kind, refs, subs, results, body, live]`:
the section kind it belongs to, its enum variant, the kind it imports, exports or aliases,
its index fields as a function to `[depth, index]`, the subtypes of a recursion group, the
number of results of a start section, its body's container, and whether a custom section
was deleted. Names, types of values, strings and options without an index are left out.
Lists of arguments, cases and fields go up to two entries.

A binary is a sequence of tokens, one per section header, item, type with a body, nested
component and name subsection; `ReadItem`, `ReadType`, ... are the arms of `parse_comp`,
`Place` is what all of them and all `add_*` do (the id in the item's space, the item at the
end of its vector, the section counted). `by` tells who places: each section header of a
binary starts an entry of the section list, an added item joins the last entry if it has its
kind; a recursion group takes one id per subtype from the parser and one in all from the
API. A nested component has its scope before it is filled and its id in the parent when it
is complete, a type's body the other way round. `ParseFails` is the error of
`add_component_from_bytes`, at any token: what the binary had taken so far stays in the
store and is reached by nobody. `Client` is a parameter, so the theorems hold for every
client that uses the vectors as `AppendOnlyVec` lets it (append, edit in place).

`ComponentRefs` translates `refs.rs` and `fix_indices.rs` side by side: `RefsOf` is what an
item has, `Referenced` what `referenced_indices` reports of it in order, `Source` the
reference `fix` writes into a field. They differ where the code does: a subtype reports
only its type references, a field is rewritten with the *first* reference a getter returns,
`FuncExact` reports none at all.

### ComponentVisit, ComponentEncode

The walks are sequences of events `[ev, c, v, idx, sub, sect]`. `CollectItem`, `CollectDep`
and `CollectSubitem` thread the collector (`seen`, `ev`, the ids looked up, the first panic)
through the depth-first walk; the stack of containers stays where it is when a reference is
followed into an outer component, as in the code. `Encode` drives the events twice: for the
actual ids (`AssignStep`, one visitor callback per event), and for the writes (`EncodeStep`).
Each write records the frame and space its index counts in *for a reader of the binary*,
the items that reader has seen of that space (`alloc`), and the item the assumed id stood
for (`Means`). The properties compare them. Encoding is an action because it fills the
caches of the index spaces (`LookUp`), which the next edits leave in place.

What is true only under a condition says so. `OuterStaysBehind` says of a component that
whatever refers outward comes after what it refers to and nothing pulls it ahead; where it
fails, an outer item is emitted inside the inner component, and encoding panics or writes
another index. `fixed` in a write tells the three fields the code copies without mapping
them: the destructor of a resource type, an `(eq)` bound, and recursion groups in bodies.

## Runs

Passing runs:

| run | question | bounds |
|---|---|---|
| `functions` | the IR's invariants, new IDs, the exact mapping, the faithfulness of function handles, the resolver's range and the function names, under all edits of functions | four groups of scenarios: adding, deleting and converting with 1–2 parsed imports, 1–2 local functions, up to 5 items and 4 imports; the same in modules without local functions, in both builds; naming, with none or one local function, in both builds, also after an import of another kind; special injections in a debug build |
| `references` | every reference site with deletions and conversions: an encoding succeeds iff nothing dangles, fails as the code does, and otherwise every reference is right; global and memory IDs are stable handles (refinement of `StableHandles`) | an imported and a local item in every space, so that deleting or converting the import moves the local one; one injected reference, one export, one data segment with an offset; one module with a start function, a table initialiser, element segments of both kinds and a data segment; up to 3 globals, 2 memories and 4 imports where they are added |
| `traversal` | the cursor's promise and termination | up to 3 modules, 4 functions, bodies of 1–2 instructions, every skip list, one reset |
| `execution` | where every injected body ends up, what is removed, whether the code is still well nested, and the instrumented function against the uninstrumented one along every path | all well-formed bodies of up to 5 instructions over 11 instructions with one injection, of up to 4 with one injection and one more call; three short bodies with two injections and one more call; five bodies of 8 to 10 instructions with two injections; four bodies with `try`, throws and calls, with one injection and one more call; functions from which nothing was removed are run; loops are unbounded |
| `component` | the ids and caches of a component through parsing, two edits and encoding after any of them; order and indices of the binary | two binaries with 31 and 14 items, declarations and core subtypes counted, `MaxEdits` = 2 |

The bounds of the module runs are small because the code treats items alike: an operation looks at one item,
its import and the counters, and re-indexing compares positions pairwise. What matters is
that two imports can be out of order, that deleted, imported and local items can alternate
in any order, and that an operation can follow any other; four or five slots give all of
these. A function is in question one at a time (its references, its special injections, its
name), so those are explored in scenarios of their own. Every bound is a guard (`Room`,
`RoomForImport`, `maxExports`, `maxData`, `maxRefs`, `MaxResets`) on the operation that grows
the state, none on the state it may be called in.
For the resolver, one injection shows every placement and two show every way in which two
bodies meet at one instruction (same mode, exit and block exit, replaced and replacing); two
blocks are open at once in the generated bodies and three in the longer ones, which are
chosen for the cases that need length: an `if` with blocks in each part, a loop left in two
ways, several branches to one target and one to several.
For components, the first edit adds any item of `Forms` (each variant of the getters, the
fixers and the index-space rules that differs from another) with the oldest or the newest
ids, a type with a body, a recursion group, a nested component, the bytes of one (read to
the end or refused at any token), or deletes a custom section; the second adds an item with
the newest ids, which is how it comes to depend on the first, or redirects any field of any
item to the newest id, which is what makes the topological order move something. In a
redirected binary everything the item needs moves along, so two edits move many items at
once. The client also does what encoding cannot take, and `NoPanic` names it: besides what
refers outward (`OuterStaysBehind`), a `thread.spawn_ref` and an exact function of a module
type, whose index is fixed with a getter that does not report it (`Unfixable`), and a
reference to one of several results of a start section, which `collect_deps` unwraps as a
single id (`AsksForOneOfSeveral`). The API gives a recursion group of several subtypes one id
for all of them (`SharesAnId`); `IndicesMapped` leaves references to it out. No item is a
component export of kind *component*, which counts in another space than a reader of the
binary does.
All bounds end runs of edits and callers may stop at any point, so deadlock is not checked.

Fairness: the module IR, the component IR and the instrumentation calls are passive, the resolver is one loop
over a finite body, and their runs check safety only. `traversal` assumes
weak fairness of `Advance`, which is the caller's documented loop (`loop { ..; if
it.next().is_none() { break } }`): it calls `next` again as long as it has not seen `None`.

### Disagreements between code and documentation

Each `bad_*` run is a run whose property states what the documentation or an assertion says,
and which TLC finds violated:

| run | what happens |
|---|---|
| `bad_import_name` | `ModuleImports::set_fn_name` takes the function ID for a position among all imports: after an import of another kind it names nothing, or another function |
| `bad_empty_alternate` | an alternate that is `Some` and empty removes its instruction; the doc of the field says it means no alternate (a comment beside `has_instr` agrees with the code) |
| `bad_import_order` | `convert_local_fn_to_import` leaves the function in place and appends its import; if a later ID is an import already, the two swap their imports in the binary |
| `bad_global_export` | exports of globals are written with the old index |
| `bad_if_exit` | the exit body of an `if` with a block inside is placed at the inner block's end |
| `bad_stale_flag` | the flag of a branch stays set: in a loop its semantic-after body runs again without the branch |
| `bad_type_order` | what a type refers to is not collected with it: a type redirected to a later one, or moved ahead of one it was declared after, is written before what it refers to |

Further deviations met while modelling are in the model as they are in the code and have no
run of their own; `PROJECT.json` lists them as hazards with notes: `Module::set_fn_name` mistakes
a local function for an import after an import was added (`strayed`); the ID of an import
added to a module without local functions is wrong once an import was replaced
(`ReplacedImport` in `NextIdIsNextSlot`); `replace_import_in_module` uses the `ImportsID` as
`FunctionID`; an exit body stands before a throw also when the function catches it and goes
on (`CatchesOwnThrow` in `ExitRunsOnceAtTheEnd`); a cursor whose first function is skipped uses that function's
length (`Regular` excludes it); exit bodies stand before a `return` that a block alternate
removes; bodies for after the function's last `end` are dropped; `FunctionModifier` does not
set `has_special_instr` in `inject_at` and `empty_block_alt_at`; after deleting a parsed
imported function the resolver's range starts too late and skips the first local functions
(outside the premise of `SpecialsResolvedWhileImportsRemain`); a nested component that
refers to an item the client adds to its parent afterwards makes encoding panic
(outside `OuterStaysBehind`); the name maps of a component are not ascending once items have
moved; `get_type_of_exported_lift_func` does not end on an outer alias of the same index.

The passing runs say what holds nevertheless: function handles are faithful *if and only
if* the live imported functions are in import-section order
(`FuncImportsFaithfulIffAscending`), and all special bodies are resolved while no more
parsed imports are deleted than others were added or converted
(`SpecialsResolvedWhileImportsRemain`). The exit of an `if` is right when no block is inside
(`WaitsFlat`), semantic-after bodies run for branches to blocks (`ForwardOnly`).

## Proofs

TLC checks the instances above; the theorems hold for all scenarios: parsed modules
(`WellParsed`), reference sites, bounds and builds (`WellFormed`). `ModuleIRProofs` proves

* `TypeCorrect`: `Spec => []TypeOK`,
* `ImportLinksHold`: `Spec => []ImportLinksOK`.

The two are proved together, by the inductive invariant `Linked == TypeOK /\ ImportLinksOK`:
deleting an item writes the import *behind* it, so typing the import section needs the link
to be in range, and keeping the link's uniqueness through `PushImport` needs the range of
all links. The proof has one lemma per operation shape (pushing a local item, pushing an
import, deleting, replacing, converting, editing in place) and a case per action.
It proves, on top of that,

* `PositionIdsHold`: `Spec => []PositionIds`;
* `NextIdIsNextSlotHolds`: `Spec => []NextIdIsNextSlot`.

`PositionIds` has a premise for functions, `FuncIdsChecked`: the parsed module defines functions
**or** the build is a debug build. It is needed: `add_import` computes the next ID from counters
when `num_local_functions` is zero, and a conversion of an import to a local function does not
count. `NextIdIsNextSlot` has no such premise and says exactly when the computed ID is wrong.
The strengthening for the first is `Numbered`: positions are IDs; for globals and memories
`CountsAgree`, that either local items are counted (so the next ID is the length of the vector)
or the vector holds exactly the counted imports; and for functions, that some local function
stays counted if the parsed module had one. For the second it is `Slots`: while no local
function is counted, the vector has imports only, as many as are counted, or an import of the
section has no item any more because a local function took its place. The assumption on
constants is the one `ModuleIR` names; TLC evaluates it on every run.

`ModuleIRProofs` also proves what an encoding relies on, without any assumption:

* `NoOrphanImportHolds`: `Spec => []NoOrphanImport`,
* `RecalcWhenNeededHolds`: `Spec => []RecalcWhenNeeded`.

Its invariant is `ModuleInv == Linked /\ Numbered /\ Settled`. `Settled` says of each space
that a vector not flagged for re-indexing is in binary order (`InOrder`), that each live
import of the space has its live item (`NoOrphanIn`), and that the imports of globals and
memories stand in the order of the import section (`Ascending`), which for functions a
conversion breaks. Each action is first reduced to a *view* for each space: untouched, a
local item added, an import added, an item deleted, a local item or an import put in place
of another, or a panic. `Settled` is then shown for seven views instead of for every action
in every space.

`ModuleEncodeProofs` proves the properties of encoding, each for every reachable state:

* `MappingExactHolds`, `LocalsFaithfulHolds`, `FuncImportsFaithfulHolds`,
  `EncodesIffNoDanglingRefHolds`, `EmittedRefsFaithfulHolds` and `NamesFaithfulHolds`, whose
  properties have the premise `FuncIdsChecked`: all of them look functions up by ID;
* `ImportsFaithfulHolds` and `SpecialsResolvedHolds`, with no premise;
* `GlobalsImplementStableHandles` and `MemoriesImplementStableHandles`: `ModuleEncode`
  implements `StableHandles` in these two spaces, with no premise.

The argument is about `Pick`, the loop over a vector that keeps the items at the positions of
a set `S`: the item of `p \in S` comes at `Below(S, p)`, the number of positions of `S`
before it, so the picked vector is in order and has nothing else (`ReindexProofs`; `Pick` is
a recursive function, and induction along it is done as "there is no least counterexample").
From this `get_mapping_generic` maps a live ID to its `Rank`, and the emitted index space has
the import, or the local definition, of the item at that rank: for locals because the live
imports of the vector and those of the import section are equally many (`NoOrphanIn` with the
links), for imports exactly if the two are in the same order (`InSectionOrder`), which
`Ascending` gives for globals and memories. References and outcome follow from the mapping
alone, one site at a time. For the names, `NamesGivenAreStored` says that the name section
gives a function the name that is stored for it, which is about the order of imports in the
section and of bodies in the vector; that the stored names are the ones asked for (`NamedInv`) is
kept by every operation as long as nothing strayed, and that nothing strays while the imported
functions are as parsed is `StrayInv`. The refinement maps a state to the meaning of its handles
in the binary (`Meaning`); every view of a step is a stutter, one fresh handle or one freed.

`SubIteratorProofs` proves of the cursors, for every component and all skip lists:

* `CursorTyped`: `Spec => []TypeOK`,
* `SkipsRespectedHolds`, `VisitedIsPrefixHolds`, `NoneMeansAllHolds`, the three invariants,
* `OfferedOnceHolds`: `Spec => OfferedOnce`, an action property.

The invariants: `InModule`, the module cursor holds the metadata of the module the component
cursor is in; `AtRest`, it never rests on a skipped function; `Behind`, nothing offered is
after the current location, which gives `OfferedOnce` because every step that offers moves
strictly ahead; and, on regular components, `Counted` (the number of instructions is the
current function's), `StopsAtTheEnd` and `Traversed` (all kept locations before the current
one were offered). A step is one of `ToInstr`, `ToFunction`, `ToModule` and `ToReset`, and the
kept locations between the old and the new location are shown to be none: `HandleSkips`
passes over skipped functions only. The assumption on `Components` is that every function has
at least one instruction, its `end`.

`ResolverProofs` proves of the resolver, for every well-formed function, every client and any
number of calls before the pass,

* `ResolverTyped`: `RunSpec => []TypeOK`: the stack has exactly the open blocks, numbered from
  the outside, and at most one of them is deleted;
* `IteratorCodeIsWrittenHolds`: `RunSpec => []IteratorCodeIsWritten`;
* `KeptInstrsInOrderHolds`: `RunSpec => []KeptInstrsInOrder`.

The first rests on `Shape`, whose heart is `Len(blockStack) = Level(body, idx)`: what the code
pushes and pops is what `WasmBody` counts, and `LevelSteps` says how the count moves. The second
needs to know what is deleted. `Region` says that when something is, it is the block of one
asked alternate (`Deleting`) whose end is still ahead, that `retain_end` is set just when that
is an `else`, and that every earlier alternate's block has ended before it; and when nothing
is, that every alternate behind has ended. It is inductive because blocks nest
(`InsideBlock`, `NestedBlocks`, both from `LevelDrops`: a level that falls below `m` passes an
`end` at `m`), so the end of the deleted block is the first `end` whose block is on top of the
stack, and everything asked for inside ends with it or before it. `RightlyRemoved` follows: an
instruction goes if and only if it is in `ReplacedInstrs`, the last `end` of an `else` staying.
With `Given` (what is ahead is as the caller left it) and `Handled` (what is behind is without
special bodies, but for an alternate at an instruction that opens nothing) the theorem follows
where `has_special_instr` is set; where it is not, from `Told`: through the iterator it is set
whenever there is a special body. Calls and instructions are reduced to *views* first, as in
`ModuleIRProofs`. The third adds `Coded`: every list the pass holds or will hold is injected
code, so nothing injected passes for an instruction of the function. What remains is about
`FlattenSeq`, which the community modules define by a recursive function over the prefixes:
`FlattenPrefixes` says that the function exists (again there is no least counterexample) and
that one more sequence is appended at each step. From there `JoinOrders` and `EncodedOrders`
say that the own instructions of the first `i` pieces of the written code are those below
`i + 1` that stay, in order; and those that stay are, by `Handled`, the ones outside
`ReplacedInstrs`. The assumption on `Tasks` is that functions are well formed, as those of
a valid module are; the library does not validate what it reads, and what it does to an
ill-formed function is not modelled.

`PlacementProofs` proves, of the same functions, clients and calls,

* `PlacedWhereTheyBelongHolds`: `RunSpec => []PlacedWhereTheyBelong`.

`PlacedWhereTheyBelong` reads off the *whole* function where a body belongs (`Belongs`,
`FuncBelongs`: the `end` of its own block, the ends of every target of its branch, every way out)
and compares that with what one pass with a stack and two tables of waiting bodies has left in
the lists. The invariant has three parts on top of those above:

* `AskedOnce`: every operator the caller injected is one of the probes handed out, is in one list
  only (`Apart`), and in a mode its instruction takes (`Fits`). Without it a probe found
  somewhere would say nothing of which request put it there.
* `Carried`: from the pass's instruction on, the lists are as the caller left them, and the
  function bodies are what `Begin` made of the caller's.
* `Placed`: for each probe, it is in exactly those lists *behind* the pass that it belongs to
  (`Landed`), and it waits (`Waiting`) in `resolve_on_else_or_end` from its `if` up to the `if`'s
  own `else` or `end`, and in `resolve_on_end` under block number `b` while the pass is between its
  instruction and an end at level `b + 1` that it waits for (`DueAt`, `WaitsFor`); a body of a
  replaced instruction waits nowhere.

A step is described from the point of view of one probe (`StepRuns`: which lists of this
instruction, and which waiting bodies, have it after the step if and only if which had it before),
proved once for each of the three ways an instruction is handled: `RemovedRuns`, `ReplacedRuns`,
`KeptRuns`. `GoesOrStays` says which of them it is from `Region` above. What joins this with
`Belongs` is about blocks: `Closes(code, i, m, e)` says that `e` is the first `end` at level `m`
after `i` and that every block opened in between has ended by then; `BlockCloses` and
`LabelCloses` give it for `Closing` and for `EndOfLabel`, and `EndStays` that such an end is not in
a replaced region unless `i` is. So the first `end` that stays and whose block is number `b` is the
end everything under `b` waits for (`DueFacts`), a number is used again only after that, and a
body planned now waits under the number of its own target (`PlannedHere`). An `if`'s exit waits
in the one table that has no block numbers; that the first `else` or `end` is its own is
`WaitsFlat`, the condition of the property, and `bad_if_exit` shows what happens without it.
`ListStep` and `FuncStep` are the two kinds of probes; at the end of the pass everything is
behind it, nothing is ahead, and `FoundIsBelongs` turns membership into the sets of places.

`NestingProofs` proves, again of the same functions, clients and calls,

* `NestingKeptHolds`: `RunSpec => []NestingKept`.

The invariant added is `Laid`, about the shape of injected code. What the pass has put after an
instruction, or in place of one, is `Nested`: it ends every block it opens and no other, its
`else`s belong to its own `if`s, and it has no branches. What it has put before an instruction
is straight (probes, and flags set or cleared) but for the wrapper's `block` at the first
instruction and its `end` at the last (`Wrapped`). What waits is straight, flagged bodies
included; that the chain of `if`s written for several of them at one `end` is nested, whatever
their number, is `ChainNested`, from the level at each of its parts.

From `Laid` to the property there are three steps, none of them an induction over blocks:

* A label is a difference of *levels*, so levels are all there is to follow. `StandingLevels`: a
  piece of code raises the level inside another code exactly as it does alone. `KeptLevel` is the
  level at an instruction of the function once replaced blocks are taken out (an instruction of
  such a block counts as the place of its outermost alternate), and it steps from each
  instruction to the next as the kept ones do (`KeptSteps`).
* `EncodedPieces` cuts the written code into one piece per instruction: the code before it, the
  instruction if it stays, the code after or in place of it. `WrittenLevels` then says that each
  piece starts at the kept level, plus one (`Depth`) inside a wrapper.
* A branch in the function, and a catch of a `try`, means the last opener of a level with nothing at that level or below it
  up to the branch (`Within`). That opener is kept when the branch is (`KeptWithin`), and what is
  written between them stays above its level (`BetweenThem`, `InnerLevels`), so the label means
  it still: `LabelStays`. A label that means the function finds no opener, or the wrapper, which
  is the only one that low: `LabelEscapes`. `OwnElse` is the same argument for an `else` and its
  `if`, and with `FollowsIff` (validation asks each instruction the same of the whole code as of
  the part before it) the written code is `WellFormed`.

`ComponentProofs` proves of `ComponentIR`, for every set of binaries and every client and
with no assumption on either,

* `ComponentTypeCorrect`: `IRSpec => []TypeOK`,
* `IdsResolveHolds`: `IRSpec => []IdsResolve`,
* `CacheSoundHolds`: `IRSpec => []CacheSound`,
* `IdsAreStableHandlesHolds`: `IRSpec => IdsAreStableHandles`, the refinement of `AssumedIds`.

`StateOK` is the inductive invariant: each container and its scope fit (`ContOK`,
`ScopeOK`), and what is open exists. Of an index space (`SpaceOK`) it
says that the ids below `next` are assigned and no others, that entries are pairwise
different in id and in place, and that the cache is right. This is inductive only because
no action gives ids to a position that has some: `AssignAssumedIds` numbers new entries from
the number a position already has, and an entry alone at its position is found without an
index within it, so a second batch at an old position would change what a cached answer
should be. *An entry always points inside its vector* (in `ScopeOK`) is what excludes it:
`Place` assigns at the vector's length, where no entry can be.
`Evolution` is the step invariant proved beside it: vectors keep their items' identities,
spaces keep their entries. From both, `HandedOut` only grows (`HandleKept`) and never
clashes (`NoClash`), which is the refinement step. The proof has one lemma per way of
changing the tree (an item placed, a body or component opened, one container edited, caches
filled) and one per action on top.

The theorems are about `IRSpec`, in which any ids may be looked up at any time. A step of
`ComponentEncode`'s `Spec` is a step of it on `ComponentIR`'s variables: its actions are
those of `ComponentIR` with `out` reset, and `Encode` is `LookUp` of the ids asked for, with
`out` set. `ComponentEncode` reaches recursive operators and so has no theorem itself; the
run `component` checks the four properties under that `Spec`.

Only model-checked:

* the order, the indices and the names of an encoded component, since the walk is recursive;
* `TraversalEnds`, since it is liveness;
* the run of the code the resolver writes (`KeepsTheFunctionsPath`, `ExitRunsOnceAtTheEnd`,
  `SemanticAfterRuns`): the position of the uninstrumented function that a position of the written
  code stands for, and the flags set on the way there, would have to be part of an invariant over
  every path of both.

## Plan

1. *(done)* Module IR, re-indexing, encoding; first theorems. Sub-iterators.
2. *(done)* Flags and modes, special-instrumentation resolver, the run of the result.
3. *(done)* Component index spaces, scopes and references; the component IR with its parser
   and its API; theorems about ids and caches.
4. *(done)* Structural and topological walks; assigning, rewriting and writing, read back.
5. Type section deduplication, function builder locals, side effects.
6. *(done)* Theorems: the order of module items, exactness of re-indexing, faithfulness of
   encoding, refinement of `StableHandles`; the cursors.
7. *(done)* Theorems: the resolver's `TypeOK`, `IteratorCodeIsWritten` and `KeptInstrsInOrder`.
8. *(done)* Theorems: `PlacedWhereTheyBelong`, by an invariant that has for each probe asked
   for the lists it is in and the ends it waits for; `NestingKept`, by the shape of injected
   code and the levels of what is kept.

Abstract specifications: `StableHandles` (index spaces of a module), `AssumedIds` (those of a
component), `WasmRun` (instrumented functions),
"kept locations in order" (traversal, stated in `SubIterators`), "every index means what its
id stands for" (component encoding, stated in `ComponentEncode`).

## Not modelled

Bytes, types of values, tags, custom sections other than names, DWARF, generated opcode
constructors and error wording: no property here depends on them. Tables and tags can be
imported but not edited by the API. Errors from a special body that was never
resolved end an encoding that `EncodeOutcome` calls "ok": `AllSpecialsResolved` and
`IteratorCodeIsWritten` state that part. The legacy exceptions (`try`, `rethrow`, `delegate`),
stack switching, the types of wrapper and flag blocks, the tags by which a catch chooses its
exceptions (a throw may go to any catch around it), and instrumenting a function again after it
was encoded are left out of `Resolver`. Of components, the queries and setters that touch no index
(`get_type_of_exported_lift_func`, `resolve*`, `set_*_name`), the printer, the core modules
inside (their bytes are `ModuleEncode`'s matter) and `concrete.rs`, a recursive expansion of one
type that changes nothing, are left out, and the order of name maps, which is not kept (see
above). A registry entry is found by the address of its node in the code; boxes do not move
as long as their vectors are only appended to, which is what `AppendOnlyVec` is for, so the
model uses positions. Parallel encoding maps over independent bodies and has no order to
explore.
