------------------------------ MODULE MCModule ------------------------------
(***************************************************************************)
(* Instances of ModuleNames for TLC.  The parsed modules are small enough  *)
(* to exhaust a few edits of each; a scenario bounds the edits it is not   *)
(* about to none, so that the others have room to interleave.              *)
(***************************************************************************)
EXTENDS ModuleNames

PerSpace(f, g, m) == [func |-> f, global |-> g, memory |-> m]
Ref1(s, h) == [space |-> s, id |-> h]

\* A release build, and a caller who adds nothing.
Caller(ks, nl) ==
    LET m == Parse(ks, nl)
    IN  [module |-> m, start |-> NoId, tables |-> {}, elements |-> <<>>, data |-> <<>>,
         debug |-> FALSE, specials |-> FALSE, names |-> {},
         maxItems |-> [s \in Space |-> Len(m.items[s])], maxImports |-> Len(ks),
         maxExports |-> 0, maxData |-> 0, maxRefs |-> 0]
Adding(c, maxItems, maxImports) ==
    [c EXCEPT !.maxItems = maxItems, !.maxImports = maxImports]

\* Functions: an ImportsID is a FunctionID until an import is added.  Adding, deleting,
\* converting; in modules without local functions, in both builds; then naming.
FuncImports == {<<"func">>, <<"func", "func">>}
Converting ==
    {Adding(Caller(ks, PerSpace(l, 0, 0)), PerSpace(5, 0, 0), 4) : ks \in FuncImports, l \in {1, 2}}
Replacing ==
    {[Adding(Caller(ks, PerSpace(0, 0, 0)), PerSpace(4, 0, 0), 4) EXCEPT !.debug = d] :
         ks \in FuncImports, d \in BOOLEAN}
Naming ==
    {[Adding(Caller(ks, PerSpace(l, 0, 0)), PerSpace(l + 2, 0, 0), 3)
        EXCEPT !.names = {"a"}, !.debug = d] :
           ks \in FuncImports \cup {<<"other", "func">>}, l \in {0, 1}, d \in BOOLEAN}
Specials ==
    {[Adding(Caller(ks, PerSpace(l, 0, 0)), PerSpace(4, 0, 0), 3)
        EXCEPT !.specials = TRUE, !.debug = TRUE] : ks \in FuncImports, l \in {0, 1}}
FuncScenarios == Converting \cup Replacing \cup Naming \cup Specials

\* References: an import and a local item in every space, so that deleting or converting
\* the import moves the local one.  One kind of edit that stores a reference at a time ...
RefImports == <<"memory", "func", "global">>
RefCaller == Caller(RefImports, PerSpace(1, 1, 1))
\* ... and one module with a reference of every parsed kind.
RefParsed ==
    [Caller(<<"func", "memory", "global">>, PerSpace(1, 1, 1)) EXCEPT
        !.start = 1, !.tables = {Ref1("func", 1)},
        !.elements = <<[funcs |-> {}, exprs |-> {Ref1("global", 1)}],
                       [funcs |-> {0}, exprs |-> {Ref1("func", 1)}]>>,
        !.data = <<[memory |-> 1, offset |-> {Ref1("global", 0)}]>>,
        !.maxImports = 4]
RefScenarios ==
    {[RefCaller EXCEPT !.maxRefs = 1], [RefCaller EXCEPT !.maxExports = 1],
     [RefCaller EXCEPT !.maxRefs = 1, !.maxData = 1], RefParsed,
     [RefParsed EXCEPT !.maxExports = 1]}

\* Globals and memories, added and deleted.
DataScenarios ==
    {Adding(Caller(<<"global", "memory">>, PerSpace(0, 1, 0)), PerSpace(1, 3, 2), 4),
     Adding(Caller(<<"func", "global">>, PerSpace(0, 0, 1)), PerSpace(1, 3, 2), 4)}
SiteScenarios == RefScenarios \cup DataScenarios

\* The disagreements.
ExportScenarios == {[c EXCEPT !.maxExports = 1] : c \in DataScenarios}
ImportNameScenarios == {[Caller(<<"other", "func">>, PerSpace(1, 0, 0)) EXCEPT !.names = {"a"}]}
=============================================================================
