---------------------------- MODULE ModuleParse ----------------------------
(***************************************************************************)
(* The items of a module's index spaces and what Module::parse_internal    *)
(* builds from the import section and the counts of local definitions.     *)
(***************************************************************************)
EXTENDS Integers, Sequences

CONSTANTS Names     \* names a caller may give a function

Space == {"func", "global", "memory"}
ImportKind == Space \cup {"other"}          \* "other": tables and tags, only ever parsed

NoId == -1
NoName == "-"
ImportName == "import"                      \* the `name' field of the replaced import
NameOrNone == Names \cup {NoName, ImportName}

Ref == [space : Space, id : Nat]
Item == [kind : {"local", "import"}, id : Nat, imp : Nat \cup {NoId}, deleted : BOOLEAN,
         refs : SUBSET Ref, name : NameOrNone, special : BOOLEAN]
Import == [kind : ImportKind, deleted : BOOLEAN, custom : NameOrNone]
Export == [space : Space, index : Nat, deleted : BOOLEAN]
\* An active data segment: the memory it initialises, and what its offset refers to.
Data == [memory : Nat, offset : SUBSET Ref]
\* An element segment: the functions it lists, or what its constant expressions refer to,
\* the offset of an active one included.
Element == [funcs : SUBSET Nat, exprs : SUBSET Ref]

LocalItem(id, refs, name) ==
    [kind |-> "local", id |-> id, imp |-> NoId, deleted |-> FALSE,
     refs |-> refs, name |-> name, special |-> FALSE]
ImportItem(id, imp) ==
    [kind |-> "import", id |-> id, imp |-> imp, deleted |-> FALSE,
     refs |-> {}, name |-> NoName, special |-> FALSE]

(***************************************************************************)
(* Parsing `ks', the kinds of the import section's entries, and nl[s]      *)
(* local definitions: the imported items of a space come first, in import  *)
(* order, then the local ones, and every item's id is its position.        *)
(***************************************************************************)
ImportsOfKind(ks, s) == SelectSeq([i \in 1 .. Len(ks) |-> i - 1], LAMBDA i : ks[i + 1] = s)

ParsedItems(ks, nl, s) ==
    LET imps == ImportsOfKind(ks, s)
    IN  [p \in 1 .. Len(imps) + nl[s] |->
            IF p <= Len(imps) THEN ImportItem(p - 1, imps[p])
                              ELSE LocalItem(p - 1, {}, NoName)]

Parse(ks, nl) ==
    [items    |-> [s \in Space |-> ParsedItems(ks, nl, s)],
     imports  |-> [i \in 1 .. Len(ks) |->
                      [kind |-> ks[i], deleted |-> FALSE, custom |-> NoName]],
     impCount |-> [s \in Space |-> Len(ImportsOfKind(ks, s))],
     numLocal |-> nl]

(***************************************************************************)
(* What the operations of ModuleIR rely on in a parsed module.             *)
(***************************************************************************)
WellParsed(m) ==
    /\ m.items \in [Space -> Seq(Item)] /\ m.imports \in Seq(Import)
    /\ m.impCount \in [Space -> Nat] /\ m.numLocal \in [Space -> Nat]
    /\ \A i \in DOMAIN m.imports :
          /\ ~m.imports[i].deleted
          /\ m.imports[i].kind \in Space =>
                \E p \in DOMAIN m.items[m.imports[i].kind] :
                    /\ m.items[m.imports[i].kind][p].kind = "import"
                    /\ m.items[m.imports[i].kind][p].imp = i - 1
    /\ \A s \in Space :
          /\ Len(m.items[s]) = m.impCount[s] + m.numLocal[s]
          /\ \A p \in DOMAIN m.items[s] :
                /\ m.items[s][p].id = p - 1 /\ ~m.items[s][p].deleted
                /\ m.items[s][p].kind = "import" <=> p <= m.impCount[s]
          /\ \A p \in 1 .. m.impCount[s] :
                /\ m.items[s][p].imp \in 0 .. Len(m.imports) - 1
                /\ m.imports[m.items[s][p].imp + 1].kind = s
          /\ \A p, q \in 1 .. m.impCount[s] : p < q => m.items[s][p].imp < m.items[s][q].imp
=============================================================================
