------------------------------- MODULE WasmRun -------------------------------
(***************************************************************************)
(* What a WebAssembly engine does with a function body: the instructions   *)
(* it may go to next.  Values are left out, so a condition may go either   *)
(* way.                                                                    *)
(***************************************************************************)
EXTENDS WasmBody

VARIABLES code, pc

\* The ways out: past the end, by an unreachable or a throw, or in the middle of a call.
Trapped == 0
Aborted == -1
Returned(c) == Len(c) + 1

\* Where a branch goes: the start of a loop, past the end of a block, the function's end.
Target(c, i, d) ==
    LET opener == Label(c, i, d)
    IN  IF opener = 0 THEN Len(c)
        ELSE IF c[opener].op = "loop" THEN opener + 1 ELSE Closing(c, opener) + 1
Targets(c, i) == {Target(c, i, c[i].arg[k]) : k \in DOMAIN c[i].arg}

\* Where an exception at i may be caught: by any catch of any try that i is inside, since
\* its tag is left out.
Handlers(c, i) ==
    UNION {Targets(c, t) : t \in {j \in 1 .. i - 1 : c[j].op = "try" /\ i < Closing(c, j)}}

Successors(c, i) ==
    CASE c[i].op = "if"                -> {i + 1, ElseOrClosing(c, i) + 1}
      [] c[i].op = "else"              -> {Closing(c, i) + 1}
      [] c[i].op \in {"br", "br_table"} -> Targets(c, i)
      [] c[i].op = "br_if"             -> {i + 1} \cup Targets(c, i)
      [] c[i].op = "return"            -> {Returned(c)}
      [] c[i].op = "unreachable"       -> {Trapped}
      [] c[i].op = "throw"             -> {Trapped} \cup Handlers(c, i)
      [] c[i].op = "call"              -> {i + 1, Aborted} \cup Handlers(c, i)
      [] OTHER                         -> {i + 1}

Init == pc = 1
Next == pc \in DOMAIN code /\ pc' \in Successors(code, pc) /\ UNCHANGED code
Spec == Init /\ [][Next]_<<code, pc>>
=============================================================================
