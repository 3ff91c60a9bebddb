----------------------------- MODULE IndexSpaces ----------------------------
(***************************************************************************)
(* One index space of a component scope: the assumed ids handed out to     *)
(* items as they are parsed or added, and the cache in front of the way    *)
(* back from an id to the vector position it stands for.                   *)
(*                                                                         *)
(* The four maps from a position to its id, or to its ids when one entry   *)
(* holds several items, are one set of entries [map, idx, sub, id]: the    *)
(* id is the sub-th one of position idx of that map.                       *)
(***************************************************************************)
EXTENDS Integers, FiniteSets, Functions

SpaceSubtypes == {"Main", "Import", "Export", "Alias"}
NoIndex == [map |-> "Main", idx |-> -1, sub |-> -1]

SubtypeOf(section) ==
    CASE section = "ComponentImport" -> "Import"
      [] section = "ComponentExport" -> "Export"
      [] section = "Alias" -> "Alias"
      [] OTHER -> "Main"

EmptySpace == [next |-> 0, entries |-> {}, cache |-> [id \in {} |-> NoIndex]]

EntriesAt(sp, map, idx) == {e \in sp.entries : e.map = map /\ e.idx = idx}

\* The next n ids go to position idx of the section's map, after those the position has.
AssignAssumedIds(sp, section, idx, n) ==
    LET had == Cardinality(EntriesAt(sp, SubtypeOf(section), idx))
    IN  [sp EXCEPT !.entries = @ \cup
                      {[map |-> SubtypeOf(section), idx |-> idx, sub |-> had + k, id |-> sp.next + k] : k \in 0..(n - 1)},
                   !.next = @ + n]

\* What an entry stands for: a position with a single id has no index within it.
Found(sp, e) ==
    [map |-> e.map, idx |-> e.idx,
     sub |-> IF EntriesAt(sp, e.map, e.idx) = {e} THEN -1 ELSE e.sub]
IsAssigned(sp, id) == \E e \in sp.entries : e.id = id
FullLookup(sp, id) ==
    IF IsAssigned(sp, id) THEN Found(sp, CHOOSE e \in sp.entries : e.id = id) ELSE NoIndex

IndexFromAssumedIdNoCache(sp, id) ==
    IF id \in DOMAIN sp.cache THEN sp.cache[id] ELSE FullLookup(sp, id)

\* The same for several ids, and what a full search finds is kept.
RememberIndices(sp, ids) ==
    LET found == {id \in ids : IsAssigned(sp, id)}
    IN  [sp EXCEPT !.cache = [id \in DOMAIN sp.cache \cup found |-> IndexFromAssumedIdNoCache(sp, id)]]

\* Forward, from a position to its id: it must have one (unwrap_single), or a sub-th one.
\* (A position with a single id gives that for every sub; a debug build asserts that it is
\* asked for the first.)
IdsAt(sp, section, idx) == {e.id : e \in EntriesAt(sp, SubtypeOf(section), idx)}
IdsAtSub(sp, section, idx, sub) ==
    IF Cardinality(EntriesAt(sp, SubtypeOf(section), idx)) = 1 THEN IdsAt(sp, section, idx)
    ELSE {e.id : e \in {f \in EntriesAt(sp, SubtypeOf(section), idx) : f.sub = sub}}
=============================================================================
