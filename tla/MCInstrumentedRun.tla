------------------------- MODULE MCInstrumentedRun -------------------------
(***************************************************************************)
(* What the resolver is given, and which of it is run: one injection and   *)
(* one other call on every short body, two injections where they can meet. *)
(***************************************************************************)
EXTENDS InstrumentedRun, MCBodies

AnyMode == Modes \cup FuncModes
SomeTasks ==
    Tasked(BodiesUpTo(5), 1, 0, AnyMode) \cup Tasked(BodiesUpTo(4), 1, 1, AnyMode)
        \cup Tasked(ShortBodies, 2, 1, AnyMode)
        \cup Tasked(LongBodies, 2, 0, AnyMode) \cup Tasked(TryBodies, 1, 1, AnyMode)

\* Nothing is replaced, and there are loops, returns, traps and branches of every kind.
Kept == {"before", "after", "semantic_after", "block_entry", "block_exit"}
RunTasks ==
    Tasked(BodiesUpTo(4), 1, 1, {"exit", "entry"} \cup Kept)
        \cup Tasked(LongBodies \cup TryBodies, 1, 0, Kept)
        \cup Tasked(LongBodies \cup TryBodies, 1, 1, {"exit"})
        \cup Tasked(ShortBodies, 2, 1, {"exit", "semantic_after", "block_exit"})
AllTasks == RunTasks \cup SomeTasks
BothClients == {"iterator", "modifier"}

\* One loop that is left through a block, with and without the branch.
LoopTasks == Tasked({Code(<<"loop", "block", "if", "br_if 1", "end", "end", "br_if 0", "end", "end">>)},
                    1, 0, {"semantic_after"})
\* An if with blocks in it.
IfTasks == Tasked(LongBodies, 1, 0, {"block_exit"})
\* An alternate, filled or empty, in a body without blocks.
AlternateTasks == Tasked({Code(<<"nop", "call", "end">>)}, 1, 1, {"alternate"})
OneClient == {"iterator"}
=============================================================================
