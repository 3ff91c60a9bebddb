------------------------------- MODULE Reindex -------------------------------
(***************************************************************************)
(* Re-indexing a vector of items that are local or imported, carry the ID  *)
(* they had when they were added, and may be marked deleted: the pure part *)
(* of Module::encode_internal that turns edited index spaces into the      *)
(* compact ones of a wasm binary.                                          *)
(***************************************************************************)
EXTENDS Integers, Sequences, FiniteSets

\* The items of `v' at the positions of S, in the order of `v': a loop over `v' that skips
\* the other items and pushes these.
Pick(v, S) ==
    LET picked[n \in 0 .. Len(v)] ==
            IF n = 0 THEN <<>>
            ELSE IF n \in S THEN Append(picked[n - 1], v[n]) ELSE picked[n - 1]
    IN  picked[Len(v)]

LiveImportPositions(v) == {p \in DOMAIN v : ~v[p].deleted /\ v[p].kind = "import"}
LiveLocalPositions(v) == {p \in DOMAIN v : ~v[p].deleted /\ v[p].kind # "import"}

\* Module::reorganize: deleted items dropped, imports before locals, order kept.
Reorganize_keepsDeleted(v) ==               \* mutant: deleted locals not skipped
    Pick(v, LiveImportPositions(v)) \o Pick(v, {p \in DOMAIN v : v[p].kind # "import"})
Reorganize_inPlace(v) ==                    \* mutant: imports not moved first
    Pick(v, {p \in DOMAIN v : ~v[p].deleted})
Reorganize(v) == Pick(v, LiveImportPositions(v)) \o Pick(v, LiveLocalPositions(v))

\* Module::get_mapping_generic: old ID -> position; a later insert of an ID wins.
GetMapping(v) ==
    [id \in {v[p].id : p \in DOMAIN v} |->
        (CHOOSE p \in DOMAIN v : v[p].id = id
                                  /\ \A q \in DOMAIN v : v[q].id = id => q <= p) - 1]

\* The vector encode_internal works on: recalculate_ids reorganises it first.
EncodedVector(v, recalculate) == IF recalculate THEN Reorganize(v) ELSE v

(***************************************************************************)
(* A reference definition of the same mapping: the number of items that    *)
(* end up before position p, counted instead of built.                     *)
(***************************************************************************)
\* The positions of S before position p.
Below(S, p) == Cardinality({q \in S : q < p})
Rank(v, p) ==
    IF p \in LiveImportPositions(v)
    THEN Below(LiveImportPositions(v), p)
    ELSE Cardinality(LiveImportPositions(v)) + Below(LiveLocalPositions(v), p)
=============================================================================
