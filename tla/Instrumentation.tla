--------------------------- MODULE Instrumentation ---------------------------
(***************************************************************************)
(* The instrumentation a caller asks for on one local function: the lists  *)
(* kept beside every instruction (InstrumentationFlag) and on the function *)
(* (FuncInstrFlag), and the calls of the Instrumenter, Inject and InjectAt *)
(* traits that fill them, as ModuleIterator and FunctionModifier do.       *)
(***************************************************************************)
EXTENDS WasmBody

CONSTANTS
    Tasks,           \* the function bodies, each with bounds on what is done to it: the
                     \* operators injected, the other calls, and the modes used
    Clients          \* who instruments: "iterator" (ModuleIterator), "modifier" (FunctionModifier)

ASSUME TasksAssumption ==
    \A t \in Tasks : /\ t.code \in Seq(Instrs) /\ WellFormed(t.code)
                     /\ t.probes \in Nat /\ t.calls \in Nat
ASSUME ClientsAssumption == Clients \subseteq {"iterator", "modifier"}

PlainModes   == {"before", "after", "alternate"}
SpecialModes == {"semantic_after", "block_entry", "block_exit", "block_alt"}
Modes        == PlainModes \cup SpecialModes
Optional     == {"alternate", "block_alt"}          \* Option fields: Some([]) is a removal
FuncModes    == {"entry", "exit"}
None         == "none"

VARIABLES
    client,
    body,        \* Instructions.instructions
    lists,       \* per instruction and mode: the injected operators
    some,        \* per instruction: the optional modes that are Some
    modes,       \* per instruction: current_mode
    funcLists,   \* FuncInstrFlag.entry and .exit
    funcMode,    \* FuncInstrFlag.current_mode
    special,     \* FuncInstrFlag.has_special_instr
    cursor,      \* the iterator's location or FunctionModifier.instr_idx
    probes,      \* operators injected so far: probe n is the n-th
    left         \* what is left of the bounds

apiVars == <<client, body, lists, some, modes, funcLists, funcMode, special, cursor, probes, left>>

Probe(n) == Instr("probe", <<n>>)
NoLists == [m \in Modes |-> <<>>]

Init ==
    /\ client \in Clients
    /\ \E t \in Tasks : body = t.code /\ left = [probes |-> t.probes, calls |-> t.calls, modes |-> t.modes]
    /\ lists = [i \in DOMAIN body |-> NoLists]
    /\ some = [i \in DOMAIN body |-> {}]
    \* a modifier starts with before_at the last instruction
    /\ modes = [i \in DOMAIN body |-> IF client = "modifier" /\ i = Len(body) THEN "before" ELSE None]
    /\ cursor = IF client = "modifier" THEN Len(body) ELSE 1
    /\ funcLists = [m \in FuncModes |-> <<>>]
    /\ funcMode = None
    /\ special = FALSE
    /\ probes = 0

HasSpecial(i) ==
    (\E m \in SpecialModes \ Optional : lists[i][m] # <<>>) \/ "block_alt" \in some[i]
HasInstr(i) == some[i] # {} \/ \E m \in Modes \ Optional : lists[i][m] # <<>>

\* The mode fits the operator; add_instr panics otherwise, which ends the program.
Applicable(op, m) ==
    \/ m \in PlainModes
    \/ m = "semantic_after" /\ op \in BlockStyle \cup Branching
    \/ m \in SpecialModes /\ op \in BlockStyle

\* InstrumentationFlag::add_instr: a new operator in the list of mode m at i.
AddInstr(i, m) ==
    /\ Applicable(body[i].op, m)
    /\ lists' = [lists EXCEPT ![i][m] = Append(@, Probe(probes'))]
    /\ some' = [some EXCEPT ![i] = @ \cup ({m} \cap Optional)]
    /\ UNCHANGED funcLists
\* FuncInstrFlag::add_instr.
AddFuncInstr ==
    /\ funcLists' = [funcLists EXCEPT ![funcMode] = Append(@, Probe(probes'))]
    /\ special' = TRUE
    /\ UNCHANGED <<lists, some>>
\* LocalFunction::add_instr: a function-level mode that is set takes precedence.
AddInstrOfFunc_instrFirst(i, m) ==          \* mutant: has_special_instr not updated
    \/ funcMode # None /\ AddFuncInstr
    \/ funcMode = None /\ AddInstr(i, m) /\ special' = special
AddInstrOfFunc(i, m) ==
    \/ funcMode # None /\ AddFuncInstr
    \/ funcMode = None /\ AddInstr(i, m) /\ special' = (special \/ m \in SpecialModes)

SetMode(i, m) == modes' = [modes EXCEPT ![i] = m]
Call == left.calls > 0 /\ left' = [left EXCEPT !.calls = @ - 1]
NewProbe == left.probes > 0 /\ left' = [left EXCEPT !.probes = @ - 1] /\ probes' = probes + 1

\* set_instrument_mode_at; an iterator has come to i by calls of next.  (A mode that does
\* not fit the operator can be set too: the next inject panics.)
SetInstrumentMode(i, m) ==
    /\ Call
    /\ Applicable(body[i].op, m)
    /\ SetMode(i, m)
    /\ cursor' = i
    /\ UNCHANGED <<client, body, lists, some, funcLists, funcMode, special, probes>>

\* func_entry, func_exit.
SetFuncInstrumentMode(m) ==
    /\ Call
    /\ funcMode' = m
    /\ UNCHANGED <<client, body, lists, some, modes, funcLists, special, cursor, probes>>

\* inject, at the cursor; without any mode it panics.
Inject ==
    /\ NewProbe
    /\ modes[cursor] # None \/ funcMode # None
    /\ AddInstrOfFunc(cursor, modes[cursor])
    /\ UNCHANGED <<client, body, modes, funcMode, cursor>>

\* inject_at.  The modifier adds to the body directly: the function's flag is not told.
InjectAt(i, m) ==
    /\ NewProbe
    /\ SetMode(i, m)
    /\ \/ client = "iterator" /\ AddInstrOfFunc(i, m) /\ UNCHANGED cursor
       \/ client = "modifier" /\ AddInstr(i, m) /\ cursor' = i /\ UNCHANGED special
    /\ UNCHANGED <<client, body, funcMode>>

\* empty_alternate_at and empty_block_alt_at: any instruction is accepted.
EmptyAt(i, m) ==
    /\ Call
    /\ lists' = [lists EXCEPT ![i][m] = <<>>]
    /\ some' = [some EXCEPT ![i] = @ \cup {m}]
    /\ special' = (special \/ (client = "iterator" /\ m = "block_alt"))
    /\ UNCHANGED <<client, body, modes, funcLists, funcMode, cursor, probes>>

\* clear_instr_at, where there is something to clear: the function's flag stays as it is.
ClearInstrAt(i, m) ==
    /\ Call
    /\ lists[i][m] # <<>> \/ m \in some[i]
    /\ lists' = [lists EXCEPT ![i][m] = <<>>]
    /\ some' = [some EXCEPT ![i] = @ \ {m}]
    /\ UNCHANGED <<client, body, modes, funcLists, funcMode, special, cursor, probes>>

\* finish_instr: the modifier's resets the function-level mode only.
FinishInstr ==
    /\ Call
    /\ funcMode' = None
    /\ modes' = IF client = "iterator" THEN [modes EXCEPT ![cursor] = None] ELSE modes
    /\ UNCHANGED <<client, body, lists, some, funcLists, special, cursor, probes>>

Instrument ==
    \/ Inject
    \/ FinishInstr
    \/ \E m \in FuncModes \cap left.modes : SetFuncInstrumentMode(m)
    \/ \E i \in DOMAIN body : \E m \in Modes \cap left.modes :
        \/ SetInstrumentMode(i, m)
        \/ InjectAt(i, m)
        \/ ClearInstrAt(i, m)
        \/ m \in Optional /\ EmptyAt(i, m)
=============================================================================
