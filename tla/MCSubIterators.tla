--------------------------- MODULE MCSubIterators ---------------------------
(***************************************************************************)
(* Components to traverse: functions of one or two instructions, numbered  *)
(* after one imported function, and every skip list over two of them.      *)
(***************************************************************************)
EXTENDS SubIterators

Funcs(lens) == [p \in DOMAIN lens |-> [fid |-> p, len |-> lens[p]]]
Module(lens, skip) == [funcs |-> Funcs(lens), skip |-> skip]
UpTo(n) == UNION {[1 .. k -> 1 .. 2] : k \in 0 .. n}

\* Up to two modules of up to two functions; or one, with runs of functions to skip.
SmallModules == {Module(lens, skip) : lens \in UpTo(2), skip \in SUBSET {1, 2}}
LongModules == {Module(lens, skip) : lens \in [1 .. 4 -> 1 .. 2], skip \in SUBSET (1 .. 4)}
MiddleModules == {Module(<<1>>, skip) : skip \in SUBSET {1, 2}} \cup {Module(<<>>, {})}
SomeComponents ==
    {<<>>} \cup {<<m>> : m \in LongModules}
        \cup {<<m, n>> : m \in SmallModules, n \in SmallModules}
        \cup {<<m, n, o>> : m \in MiddleModules, n \in MiddleModules, o \in MiddleModules}
=============================================================================
