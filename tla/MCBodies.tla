------------------------------ MODULE MCBodies ------------------------------
(***************************************************************************)
(* Bodies to instrument: every well-formed body of up to a few             *)
(* instructions over an alphabet, with at most two blocks open at a time,  *)
(* and some longer ones.                                                   *)
(***************************************************************************)
EXTENDS WasmBody, SequencesExt

Plain(op) == Instr(op, <<>>)
Blocks == {Plain(op) : op \in {"block", "loop", "if", "else", "end"}}
Jumps == {Instr("br", <<d>>) : d \in 0 .. 2} \cup {Instr("br_if", <<1>>), Instr("br_table", <<0, 1>>)}
Alphabet == Blocks \cup Jumps \cup {Plain("return")}

Grown(codes) ==
    {c \in {Append(code, ins) : code \in codes, ins \in Alphabet} :
        MayFollow(Front(c), Last(c)) /\ Level(c, Len(c) + 1) <= 3}
OpenBodies[n \in 0 .. 6] == IF n = 0 THEN {<<>>} ELSE Grown(OpenBodies[n - 1])
Complete(n) == {c \in OpenBodies[n] : Level(c, n + 1) = 0}
BodiesUpTo(n) == UNION {Complete(k) : k \in 1 .. n}

\* Bodies where two injections can meet: a return in a block, an if with both parts, a
\* branch out of the function.
Labels(name) ==
    CASE name \in {"br 0", "br_if 0"} -> <<0>>
      [] name \in {"br 1", "br_if 1"} -> <<1>>
      [] name = "br_table 0 1 2" -> <<0, 1, 2>>
      [] name = "try 0" -> <<0>>
      [] name = "try 1 0" -> <<1, 0>>
      [] OTHER -> <<>>
Kind(name) ==
    CASE name \in {"br 0", "br 1"} -> "br"
      [] name \in {"br_if 0", "br_if 1"} -> "br_if"
      [] name = "br_table 0 1 2" -> "br_table"
      [] name \in {"try 0", "try 1 0"} -> "try"
      [] OTHER -> name
Code(names) == [k \in DOMAIN names |-> Instr(Kind(names[k]), Labels(names[k]))]
ShortBodies == {
    Code(<<"block", "return", "end", "end">>), Code(<<"if", "else", "unreachable", "end", "end">>),
    Code(<<"loop", "br_if 1", "end", "end">>)}
\* Longer ones: an if with blocks in each part, a loop left in two ways, branches to one
\* target and to several, blocks three deep with an if at the bottom.
LongBodies == {
    Code(<<"if", "block", "nop", "end", "else", "loop", "return", "end", "end", "end">>),
    Code(<<"loop", "block", "if", "br 1", "end", "br 0", "end", "br_if 0", "end", "end">>),
    Code(<<"block", "block", "br_table 0 1 2", "br 1", "end", "nop", "end", "end">>),
    Code(<<"block", "if", "if", "else", "end", "else", "br_if 1", "end", "end", "end">>),
    Code(<<"if", "end", "if", "else", "end", "block", "end", "end">>)}
\* Exceptions: a throw and a call, inside a try, outside it and in one of two; caught in
\* front of a loop, after a block, at the end of the function.
TryBodies == {
    Code(<<"call", "try 0", "call", "end", "throw", "end">>),
    Code(<<"block", "try 1 0", "throw", "end", "return", "end", "call", "end">>),
    Code(<<"loop", "try 0", "br 1", "end", "end", "call", "unreachable", "end">>),
    Code(<<"loop", "try 0", "block", "try 1 0", "call", "end", "br 1", "end", "end", "end", "end">>)}

\* Bodies with bounds on the injections and the other calls, and with the modes in use.
Tasked(codes, p, c, ms) ==
    {[code |-> code, probes |-> p, calls |-> c, modes |-> ms] : code \in codes}
=============================================================================
