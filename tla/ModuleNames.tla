---------------------------- MODULE ModuleNames ----------------------------
(***************************************************************************)
(* ModuleIR with two history variables: the name each function was last    *)
(* given, by whichever operation, and whether a call that names a function *)
(* has ever reached another one.  Every step is a step of ModuleIR.        *)
(***************************************************************************)
EXTENDS ModuleEncode

VARIABLES
    named,      \* function ID -> the name its caller asked for, or NoName
    strayed     \* set_fn_name did not do what it was asked

namedVars == <<vars, named, strayed>>

\* The names the IR holds: the custom name of an import, the name of a local body.
StoredNames ==
    [p \in DOMAIN items["func"] |->
        IF IsImport(items["func"][p]) THEN imports[items["func"][p].imp + 1].custom
                                      ELSE items["func"][p].name]

NamedInit ==
    /\ Init
    /\ named = StoredNames              \* the names of the parsed module
    /\ strayed = FALSE

Asked(names) == named' = names /\ UNCHANGED strayed

Given(h, name) == [p \in DOMAIN named |-> IF p = h + 1 THEN name ELSE named[p]]
\* The import behind a function is named through its ImportsID.
NamedThrough(i, name) ==
    [p \in DOMAIN items["func"] |->
        IF IsImport(items["func"][p]) /\ items["func"][p].imp = i THEN name ELSE named[p]]

NamedSetFnName(h, name) ==
    /\ SetFnName(h, name)
    /\ named' = Given(h, name)
    /\ strayed' = (strayed \/ StoredNames' # [StoredNames EXCEPT ![h + 1] = name])

NamedNext ==
    \/ \E n \in scenario.names \cup {NoName} :
          /\ AddLocalFunc(n) \/ AddLocalFuncInComponent(n)
          /\ Asked(Append(named, n))
    \/ AddImportFunc /\ Asked(Append(named, NoName))
    \/ \E i \in ImportsIDs : ReplaceImport(i) /\ Asked(Given(i, ImportName))
    \/ \E h \in Handles("func") :
          ConvertLocalFnToImport(h) /\ Asked(Given(h, NoName))
    \/ \E h \in Handles("func"), n \in scenario.names : NamedSetFnName(h, n)
    \/ \E i \in ImportsIDs, n \in scenario.names : SetImportName(i, n) /\ Asked(NamedThrough(i, n))
    \/ OtherEdit /\ UNCHANGED <<named, strayed>>

NamedSpec == NamedInit /\ [][NamedNext]_namedVars

(***************************************************************************)
(* Properties.                                                             *)
(***************************************************************************)
\* The names the emitted name section gives to function h, and those it should give.
NamesGiven(h) ==
    {e[2] : e \in {x \in FunctionNames : Resolves("func", x[1], h)}}
NamesAsked(h) == {named[h + 1]} \ {NoName}

\* The imported functions are those that were parsed, each with its ImportsID for an ID.
ImportsAsParsed ==
    /\ impAdded["func"] = 0
    /\ \A h \in 0 .. impCount["func"] - 1 : IsImport(At("func", h)) /\ At("func", h).imp = h

\* Every live function carries, in the binary, the name it was last given by the builder,
\* by a conversion, by set_fn_name or by set_name, and no other: the encoder counts imports
\* by section and locals by vector position, past deletions and conversions.  A call of
\* set_fn_name that strays forfeits this; it strays only after the imported functions have
\* changed, or where an import of another kind comes before one of them: its range test on
\* the ID, and the position it then takes the ID for, stand for the section as parsed.
NamesFaithful ==
    /\ panic = NoPanic /\ FuncIdsChecked /\ ~strayed =>
           \A h \in LiveHandles("func") : NamesGiven(h) = NamesAsked(h)
    /\ strayed => ~ImportsAsParsed

\* ModuleImports::set_fn_name sets "the name of an imported function, using the FunctionID
\* rather than the ImportsID": what a caller of it expects of every imported function.
ImportNamesFaithful ==
    panic = NoPanic =>
        \A h \in LiveHandles("func") : IsImport(At("func", h)) => NamesGiven(h) = NamesAsked(h)
=============================================================================
