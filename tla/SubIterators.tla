---------------------------- MODULE SubIterators ----------------------------
(***************************************************************************)
(* The cursor behind ComponentIterator (src/src/subiterator): a component  *)
(* sub-iterator over modules that owns a module sub-iterator over local    *)
(* functions, which owns a function sub-iterator over instructions.  The   *)
(* caller's loop reads the current instruction, calls next until it        *)
(* answers None, and may reset.  ModuleIterator is the case of one module. *)
(***************************************************************************)
EXTENDS Integers, Sequences

CONSTANTS
    Components,      \* what is iterated: sequences of [funcs, skip], one per core module
    MaxResets        \* bound on the calls of reset

\* get_func_metadata gives the FunctionID and the number of instructions of each local
\* function; a body has at least its `end'.  skip is the caller's skip_funcs[module].
FuncMetadata == [fid : Nat, len : Nat \ {0}]
ASSUME ComponentsAssumption ==
    \A c \in Components : c \in Seq([funcs : Seq(FuncMetadata), skip : SUBSET Nat])
ASSUME MaxResetsAssumption == MaxResets \in Nat

VARIABLES
    comp,      \* the component (metadata and skip_funcs)
    currMod,   \* ComponentSubIterator.curr_mod
    modIt,     \* ComponentSubIterator.mod_iterator, its func_iterator included
    answer,    \* what next answered last: "some", "none" or "panic"; "start" before a call
    visited,   \* the locations offered to the caller since the start or the last reset
    resets     \* calls of reset so far

vars == <<comp, currMod, modIt, answer, visited, resets>>

(***************************************************************************)
(* ModuleSubIterator, with its FuncSubIterator as the fields instr and num.*)
(***************************************************************************)
\* handle_skips: the first function from `idx' on that is not skipped, or the end.
HandleSkips_once(funcs, skip, idx) ==       \* mutant: `if' for `while'
    IF idx < Len(funcs) /\ funcs[idx + 1].fid \in skip THEN idx + 1 ELSE idx
HandleSkips_late(funcs, skip, idx) ==       \* mutant: the loop stops one past the end
    IF \A k \in idx .. Len(funcs) - 1 : funcs[k + 1].fid \in skip THEN Len(funcs) + 1
    ELSE CHOOSE j \in idx .. Len(funcs) - 1 :
            /\ \A k \in idx .. j - 1 : funcs[k + 1].fid \in skip
            /\ funcs[j + 1].fid \notin skip
HandleSkips(funcs, skip, idx) ==
    CHOOSE j \in idx .. Len(funcs) :
        /\ \A k \in idx .. j - 1 : funcs[k + 1].fid \in skip
        /\ j = Len(funcs) \/ funcs[j + 1].fid \notin skip

HasCurr(it) == it.idx < Len(it.funcs)
CurrFunc(it) == IF HasCurr(it) THEN it.funcs[it.idx + 1] ELSE [fid |-> 0, len |-> 0]

\* new: the instruction count is the first function's, read before handle_skips.
ModNew(m) ==
    [funcs |-> m.funcs, skip |-> m.skip, instr |-> 0,
     idx   |-> HandleSkips(m.funcs, m.skip, 0),
     num   |-> IF m.funcs = <<>> THEN 0 ELSE m.funcs[1].len]

\* reset_from_comp_iterator: new metadata, the skip list of the module it was in.
ModReset(it, funcs) ==
    LET start == [it EXCEPT !.funcs = funcs, !.idx = HandleSkips(funcs, it.skip, 0)]
    IN  [start EXCEPT !.instr = 0, !.num = CurrFunc(start).len]

FuncHasNext(it) == it.instr + 1 < it.num
HasNextFunction_strict(it) == it.idx + 2 < Len(it.funcs)        \* mutant: off by one
HasNextFunction(it) == it.idx + 1 < Len(it.funcs)
HasNext(it) == FuncHasNext(it) \/ HasNextFunction(it)

\* next_function: past the last function that is not skipped, only idx has moved.
NextFunction_keepsCount(it) ==              \* mutant: the new function's count not read
    [it EXCEPT !.idx = HandleSkips(it.funcs, it.skip, it.idx + 1), !.instr = 0]
NextFunction(it) ==
    LET moved == [it EXCEPT !.idx = HandleSkips(it.funcs, it.skip, it.idx + 1)]
    IN  IF HasCurr(moved) THEN [moved EXCEPT !.instr = 0, !.num = CurrFunc(moved).len]
                          ELSE moved

(***************************************************************************)
(* ComponentSubIterator.                                                   *)
(***************************************************************************)
Here == <<currMod, modIt.idx, modIt.instr>>
End == currMod = Len(comp)
CompHasCurr == ~End /\ HasCurr(modIt)

\* ComponentIterator::next and curr_op: None unless the sub-iterator moved to a function;
\* then the instruction, by an index into the body that panics when out of bounds.
Answer(moved) ==
    LET some == moved /\ CompHasCurr'
    IN  /\ answer' = IF ~some THEN "none"
                     ELSE IF modIt'.instr < CurrFunc(modIt').len THEN "some" ELSE "panic"
        /\ visited' = IF some THEN visited \cup {Here'} ELSE visited

NextInModule ==
    /\ HasNext(modIt)
    /\ modIt' = IF FuncHasNext(modIt) THEN [modIt EXCEPT !.instr = @ + 1]
                                      ELSE NextFunction(modIt)
    /\ UNCHANGED currMod
    /\ Answer(FuncHasNext(modIt) \/ HasCurr(modIt'))

NextModule_stays ==                         \* mutant: curr_mod not advanced
    /\ ~HasNext(modIt)
    /\ currMod' = currMod
    /\ modIt' = IF currMod' < Len(comp) THEN ModNew(comp[currMod' + 1]) ELSE modIt
    /\ Answer(currMod' < Len(comp))
NextModule ==
    /\ ~HasNext(modIt)
    /\ currMod' = currMod + 1
    /\ modIt' = IF currMod' < Len(comp) THEN ModNew(comp[currMod' + 1]) ELSE modIt
    /\ Answer(currMod' < Len(comp))

\* The caller's loop ends at the first None.
Advance ==
    /\ answer \in {"start", "some"}
    /\ UNCHANGED <<comp, resets>>
    /\ NextInModule \/ NextModule

\* reset unwraps the metadata of module 0: without modules it panics.
Reset ==
    /\ resets < MaxResets /\ comp # <<>> /\ answer # "panic"
    /\ UNCHANGED comp
    /\ resets' = resets + 1
    /\ currMod' = 0
    /\ modIt' = ModReset(modIt, comp[1].funcs)
    /\ answer' = "start"
    /\ visited' = IF CompHasCurr' THEN {Here'} ELSE {}

Init ==
    /\ comp \in Components
    /\ currMod = 0
    /\ modIt = IF comp = <<>> THEN ModNew([funcs |-> <<>>, skip |-> {}]) ELSE ModNew(comp[1])
    /\ answer = "start"
    /\ visited = IF CompHasCurr THEN {Here} ELSE {}
    /\ resets = 0

Next == Advance \/ Reset

Spec == Init /\ [][Next]_vars
\* A caller's loop that has not seen None calls next again.
LoopSpec == Spec /\ WF_vars(Advance)

(***************************************************************************)
(* What a traversal owes its caller: every instruction of every function   *)
(* that is not skipped, once, in order.                                    *)
(***************************************************************************)
Location(m, p, i) == <<m, p, i>>
Instructions(m) ==
    UNION {{Location(m, p - 1, i) : i \in 0 .. comp[m + 1].funcs[p].len - 1}
             : p \in {q \in DOMAIN comp[m + 1].funcs :
                          comp[m + 1].funcs[q].fid \notin comp[m + 1].skip}}
Kept == UNION {Instructions(m) : m \in 0 .. Len(comp) - 1}
Before(a, b) ==
    \/ a[1] < b[1]
    \/ a[1] = b[1] /\ a[2] < b[2]
    \/ a[1] = b[1] /\ a[2] = b[2] /\ a[3] < b[3]

FuncsOf(m) == comp[m].funcs
Skipped(m, p) == FuncsOf(m)[p].fid \in comp[m].skip
\* Where the cursor keeps its promise: no module starts with a skipped function, only the
\* last module ends with one, and none in between is without functions.
Regular ==
    /\ \A m \in DOMAIN comp : FuncsOf(m) # <<>> => ~Skipped(m, 1)
    /\ \A m \in 1 .. Len(comp) - 1 : FuncsOf(m) # <<>> => ~Skipped(m, Len(FuncsOf(m)))
    /\ \A m \in 2 .. Len(comp) - 1 : FuncsOf(m) # <<>>
\* A reset keeps the skip list of the module it leaves.
SkipsApply == resets = 0 \/ \A m \in DOMAIN comp : comp[m].skip = comp[1].skip

TypeOK ==
    /\ comp \in Components /\ currMod \in Nat /\ resets \in 0 .. MaxResets
    /\ modIt \in [funcs : {<<>>} \cup {comp[m].funcs : m \in DOMAIN comp},
                  skip : {{}} \cup {comp[m].skip : m \in DOMAIN comp},
                  idx : Nat, instr : Nat, num : Nat]
    /\ modIt.idx <= Len(modIt.funcs)
    /\ answer \in {"start", "some", "none", "panic"}
    /\ visited \in SUBSET (Nat \X Nat \X Nat)

\* "Functions to skip": the cursor never offers an instruction of a skipped function, on
\* any component, as long as the skip list in use is the module's own.
SkipsRespected ==
    SkipsApply => \A l \in visited : ~Skipped(l[1] + 1, l[2] + 1)

\* What was offered is everything kept up to the current instruction: no instruction is
\* left out when the cursor crosses skipped functions or the end of a module.
VisitedIsPrefix ==
    Regular /\ SkipsApply =>
        /\ answer # "panic"
        /\ \A l \in visited : l \in Kept
        /\ \A l \in Kept, v \in visited : Before(l, v) => l \in visited

\* next answers None only when every module has been traversed.
NoneMeansAll == Regular /\ SkipsApply /\ answer = "none" => visited = Kept

\* No instruction is offered twice between two resets, on any component.
OfferedOnce == [][Advance /\ answer' = "some" => Here' \notin visited]_vars

\* Every traversal comes to an end, whatever is skipped or empty.
TraversalEnds == []<>(answer \in {"none", "panic"})
=============================================================================
