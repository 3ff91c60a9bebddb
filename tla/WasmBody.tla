------------------------------ MODULE WasmBody ------------------------------
(***************************************************************************)
(* Function bodies as sequences of instructions and the block structure    *)
(* WebAssembly gives them.  The resolver keeps a stack while it walks over *)
(* a body; the definitions here read the same structure off the whole      *)
(* sequence, so the two can be compared.                                   *)
(***************************************************************************)
EXTENDS Integers, Sequences, FiniteSets, FiniteSetsExt

\* An instruction: its kind, and its labels (for injected code: a probe or a flag).
Instr(op, arg) == [op |-> op, arg |-> arg]

(***************************************************************************)
(* Kinds.  try is TryTable, its labels those of its catches (read outside  *)
(* it); br_if stands for the conditional br_on_* too; return for the tail  *)
(* calls; throw for throw_ref; call for every other instruction that may   *)
(* trap, or end in an exception; nop for those that do neither.  Left out: *)
(* the legacy exceptions (try, rethrow, delegate) and stack switching.     *)
(***************************************************************************)
Opening    == {"block", "loop", "if", "try"}
BlockStyle == Opening \cup {"else"}               \* is_block_style_op
Branching  == {"br", "br_if", "br_table"}         \* is_branching_op
Labelled   == Branching \cup {"try"}
Leaving    == {"return", "unreachable", "throw"}  \* what resolve_function_exit looks for
Structural == BlockStyle \cup {"end"}
Instrs     == [op : Structural \cup Branching \cup Leaving \cup {"nop", "call"}, arg : Seq(Nat)]
\* `if_flag' is the injected `local.get flag; if'.
Opens(ins) == ins.op \in Opening \cup {"if_flag"}

\* How many blocks are open before instruction i, the function's own included.
Level(code, i) ==
    1 + Cardinality({j \in 1 .. i - 1 : Opens(code[j])})
      - Cardinality({j \in 1 .. i - 1 : code[j].op = "end"})

\* The level inside the block that i opens, or that i continues when it is an else.
BlockLevel(code, i) == Level(code, i) + (IF code[i].op = "else" THEN 0 ELSE 1)

EndsOf(code, level, i) == {j \in i + 1 .. Len(code) : code[j].op = "end" /\ Level(code, j) = level}
Closing(code, i) == Min(EndsOf(code, BlockLevel(code, i), i))
ElseOf(code, i) ==
    {j \in i + 1 .. Closing(code, i) : code[j].op = "else" /\ Level(code, j) = BlockLevel(code, i)}
ElseOrClosing(code, i) == Min(ElseOf(code, i) \cup {Closing(code, i)})

\* The instruction that opened the block label d means at i; 0 for the function's block.
Label(code, i, d) ==
    Max({0} \cup {j \in 1 .. i - 1 : Opens(code[j]) /\ Level(code, j) + 1 = Level(code, i) - d})
EndOfLabel(code, i, d) ==
    IF Label(code, i, d) = 0 THEN Len(code) ELSE Closing(code, Label(code, i, d))

\* Whether ins may come after the instructions so far, as WebAssembly's validation asks.
MayFollow(code, ins) ==
    LET here == Len(code) + 1
        top == Label(code, here, 0)
    IN  /\ Level(code, here) > 0
        /\ \A k \in DOMAIN ins.arg : ins.op \in Labelled => ins.arg[k] < Level(code, here)
        /\ ins.op = "else" =>
            /\ top # 0
            /\ code[top].op \in {"if", "if_flag"}
            /\ \A j \in top + 1 .. Len(code) : code[j].op = "else" => Level(code, j) # Level(code, here)
WellFormed(code) ==
    /\ \A i \in DOMAIN code : MayFollow(SubSeq(code, 1, i - 1), code[i])
    /\ Level(code, Len(code) + 1) = 0
=============================================================================
