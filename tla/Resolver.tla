------------------------------ MODULE Resolver ------------------------------
(***************************************************************************)
(* Module::resolve_special_instrumentation on one function: one pass over  *)
(* the instructions that turns the function-level and special bodies into  *)
(* before, after and alternate code; then encode_function, which writes    *)
(* them out.  One step per instruction.                                    *)
(***************************************************************************)
EXTENDS Instrumentation, SequencesExt

VARIABLES
    phase,         \* "edit", then "resolve", then "done"
    idx,           \* the instruction the pass is at
    blockStack,    \* block_stack
    deleteBlock,   \* delete_block, as a set of at most one block
    retainEnd,     \* retain_end
    onElseOrEnd,   \* resolve_on_else_or_end: only unflagged bodies for before are put there
    onEnd,         \* resolve_on_end, by block
    onEntry,       \* instr_func_on_entry, the wrapper block included
    onExit,        \* instr_func_on_exit
    numFlags,      \* locals added by create_bool_flag
    asked          \* what the caller had asked for when the pass began

passVars == <<blockStack, deleteBlock, retainEnd, onElseOrEnd, onEnd, numFlags>>
vars == <<apiVars, passVars, phase, idx, onEntry, onExit, asked>>
callerVars == <<client, body, modes, funcLists, funcMode, special, cursor, probes, left>>

FlagOn(f)  == Instr("flag_on", <<f>>)       \* i32.const 1; local.set f
FlagOff(f) == Instr("flag_off", <<f>>)      \* i32.const 0; local.set f
IfFlag(f)  == Instr("if_flag", <<f>>)       \* local.get f; if
Block      == Instr("block", <<>>)
Else       == Instr("else", <<>>)
End        == Instr("end", <<>>)

Nothing == [before |-> <<>>, flagged |-> <<>>, after |-> <<>>]
Ask == [lists |-> lists, some |-> some, func |-> funcLists]

ResolverInit ==
    /\ Init
    /\ phase = "edit"
    /\ idx = 1
    /\ blockStack = <<0>>
    /\ deleteBlock = {}
    /\ retainEnd = TRUE
    /\ onElseOrEnd = <<>>
    /\ onEnd = [b \in 0 .. Len(body) |-> Nothing]
    /\ onEntry = <<>> /\ onExit = <<>>
    /\ numFlags = 0
    /\ asked = Ask

Edit ==
    /\ phase = "edit"
    /\ Instrument
    /\ UNCHANGED <<passVars, phase, idx, onEntry, onExit, asked>>

\* A function without special instrumentation is left alone; in the others the exit body
\* makes the entry body open a block around the function, and get_fn_modifier resets the
\* function-level mode: what the pass injects goes to instructions.  (The instructions' own
\* modes, which it sets as it goes and nobody reads after it, are left out.)
WrapperBlock_loop(exit) ==                  \* mutant: a branch out of the function starts again
    IF exit = <<>> THEN <<>> ELSE <<Instr("loop", <<>>)>>
WrapperBlock_unconditional(exit) == <<Block>>      \* mutant: opened though nothing exits
WrapperBlock(exit) == IF exit = <<>> THEN <<>> ELSE <<Block>>
Begin ==
    /\ phase = "edit"
    /\ phase' = IF special THEN "resolve" ELSE "done"
    /\ asked' = Ask
    /\ onEntry' = funcLists.entry \o WrapperBlock(funcLists.exit)
    /\ onExit' = funcLists.exit
    /\ funcLists' = IF special THEN [m \in FuncModes |-> <<>>] ELSE funcLists
    /\ funcMode' = IF special THEN None ELSE funcMode
    /\ UNCHANGED <<client, body, lists, some, modes, special, cursor, probes, left, passVars, idx>>

(***************************************************************************)
(* The bodies placed before instruction idx because of the function.       *)
(***************************************************************************)
Op == body[idx].op
ExitCode_noTraps(op, i) ==                  \* mutant: traps do not leave the function
    IF onExit = <<>> THEN <<>>
    ELSE IF op = "return" THEN onExit
    ELSE IF i = Len(body) THEN <<End>> \o onExit ELSE <<>>
ExitCode(op, i) ==
    IF onExit = <<>> THEN <<>>
    ELSE IF op \in Leaving THEN onExit
    ELSE IF i = Len(body) THEN <<End>> \o onExit ELSE <<>>
FuncCode(i) == (IF i = 1 THEN onEntry ELSE <<>>) \o ExitCode(body[i].op, i)

(***************************************************************************)
(* The ways an instruction is handled.  Each says what idx's lists become. *)
(***************************************************************************)
ClearSpecial(l) == [m \in Modes |-> IF m \in SpecialModes THEN <<>> ELSE l[m]]
NextInstr ==
    /\ idx' = idx + 1
    /\ phase' = IF idx = Len(body) THEN "done" ELSE phase
    /\ UNCHANGED <<callerVars, onEntry, onExit, asked>>

\* delete this instruction: its special bodies and the instruction itself go.
RemoveInstr(before) ==
    /\ lists' = [lists EXCEPT ![idx] =
          [ClearSpecial(lists[idx]) EXCEPT !.before = before, !.alternate = <<>>]]
    /\ some' = [some EXCEPT ![idx] = {"alternate"}]
    /\ UNCHANGED <<onEnd, numFlags>>

\* plan_resolution_block_alt: the alternate body stands for the opener (or the else).
RetainEnd_never(op) == FALSE                \* mutant: the end goes with an else that is replaced
RetainEnd(op) == op = "else"
Replace(before, top) ==
    LET alt == lists[idx].block_alt
    IN  /\ deleteBlock = {} /\ "block_alt" \in some[idx]
        /\ deleteBlock' = {top}
        /\ retainEnd' = RetainEnd(Op)
        /\ lists' = [lists EXCEPT ![idx] =
              [ClearSpecial(lists[idx]) EXCEPT
                  !.before = before,
                  !.alternate = IF alt = <<>> THEN <<>> ELSE lists[idx].alternate \o alt]]
        /\ some' = [some EXCEPT ![idx] = {"alternate"}]
        /\ UNCHANGED <<onEnd, numFlags>>

\* plan_resolution_semantic_after for a branch: one flagged body for each target.
Flagged(top, f, l) ==
    LET labels(b) == {k \in DOMAIN body[idx].arg : top - body[idx].arg[k] = b}
    IN  [b \in DOMAIN onEnd |-> [k \in 1 .. Cardinality(labels(b)) |-> [flag |-> f, body |-> l]]]

\* resolve_block_entry, plan_resolution_block_exit and plan_resolution_semantic_after, with
\* before and after as resolved so far at this instruction, pending for the next else or
\* end, and ends for the ends of the open blocks.
BranchFlagged(l) == Op \in Branching /\ l.semantic_after # <<>>
InlineAfterBranch_none(l) == <<>>           \* mutant: a branch not taken runs nothing
InlineAfterBranch(l) == IF Op = "br_if" THEN l.semantic_after ELSE <<>>
PlanExit_end(l, pending) == pending         \* mutant: the exit of an if waits for nothing
PlanExit(l, pending) == pending \o (IF Op = "if" THEN l.block_exit ELSE <<>>)
PlanEnds(ends, top, f, l) ==
    IF Op \in BlockStyle
    THEN [ends EXCEPT ![top].before = @ \o (IF Op = "if" THEN <<>> ELSE l.block_exit),
                      ![top].after = @ \o l.semantic_after]
    ELSE IF BranchFlagged(l)
    THEN [b \in DOMAIN ends |-> [ends[b] EXCEPT !.flagged = @ \o Flagged(top, f, l.semantic_after)[b]]]
    ELSE ends
Plan(top, before, after, pending, ends) ==
    LET l == lists[idx]
        f == numFlags + 1
        set   == IF BranchFlagged(l) THEN <<FlagOn(f)>> ELSE <<>>
        unset == IF BranchFlagged(l) THEN <<FlagOff(f)>> \o InlineAfterBranch(l) ELSE <<>>
    IN  /\ lists' = [lists EXCEPT ![idx] =
              [l EXCEPT !.before = before \o set,
                        !.after = after \o l.block_entry \o unset,
                        !.semantic_after = <<>>, !.block_entry = <<>>, !.block_exit = <<>>]]
        /\ onElseOrEnd' = PlanExit(l, pending)
        /\ onEnd' = PlanEnds(ends, top, f, l)
        /\ numFlags' = IF BranchFlagged(l) THEN f ELSE numFlags
        /\ UNCHANGED some

\* resolve_bodies for after: the flagged bodies chained by else, then the others.
Chain(flagged) ==
    FlattenSeq([k \in DOMAIN flagged |->
        (IF k = 1 THEN <<>> ELSE <<Else>>) \o <<IfFlag(flagged[k].flag)>> \o flagged[k].body])
    \o [k \in DOMAIN flagged |-> End]

(***************************************************************************)
(* One action per class of instruction.                                    *)
(***************************************************************************)
Here == phase = "resolve" /\ NextInstr

\* Block, Loop, If, TryTable: the block's number is the depth of the stack.
OpenBlock ==
    LET before == lists[idx].before \o FuncCode(idx)
        top == Len(blockStack)
    IN  /\ Here /\ Op \in Opening
        /\ blockStack' = Append(blockStack, top)
        /\ \/ Replace(before, top) /\ UNCHANGED onElseOrEnd
           \/ deleteBlock # {} /\ RemoveInstr(before) /\ UNCHANGED <<deleteBlock, retainEnd, onElseOrEnd>>
           \/ /\ deleteBlock = {} /\ "block_alt" \notin some[idx]
              /\ Plan(top, before, lists[idx].after, onElseOrEnd, onEnd)
              /\ UNCHANGED <<deleteBlock, retainEnd>>

\* Else: what waits for an else is resolved, deleted or not.
AtElse ==
    LET before == lists[idx].before \o FuncCode(idx) \o onElseOrEnd
        top == Last(blockStack)
    IN  /\ Here /\ Op = "else"
        /\ \/ Replace(before, top) /\ onElseOrEnd' = <<>>
           \/ deleteBlock # {} /\ RemoveInstr(before) /\ onElseOrEnd' = <<>> /\ UNCHANGED <<deleteBlock, retainEnd>>
           \/ /\ deleteBlock = {} /\ "block_alt" \notin some[idx]
              /\ Plan(top, before, lists[idx].after, <<>>, onEnd)
              /\ UNCHANGED <<deleteBlock, retainEnd>>
        /\ UNCHANGED blockStack

\* End of a block inside the one that is replaced, or of that block itself.
EndRemoved_keepsDeleting ==                 \* mutant: delete_block is not taken back
    /\ Here /\ Op = "end"
    /\ deleteBlock # {} /\ (deleteBlock = {Last(blockStack)} => ~retainEnd)
    /\ RemoveInstr(lists[idx].before \o FuncCode(idx))
    /\ blockStack' = Front(blockStack)
    /\ UNCHANGED <<deleteBlock, retainEnd, onElseOrEnd>>
EndRemoved ==
    LET block == Last(blockStack)
    IN  /\ Here /\ Op = "end"
        /\ deleteBlock # {} /\ (deleteBlock = {block} => ~retainEnd)
        /\ RemoveInstr(lists[idx].before \o FuncCode(idx))
        /\ blockStack' = Front(blockStack)
        /\ deleteBlock' = deleteBlock \ {block}
        /\ retainEnd' = (retainEnd \/ deleteBlock = {block})
        /\ UNCHANGED onElseOrEnd

\* An end that stays resolves what waits for an end, and what waits for this block's.
EndKept ==
    LET block == Last(blockStack)
        due == onEnd[block]
    IN  /\ Here /\ Op = "end"
        /\ deleteBlock = {} \/ (deleteBlock = {block} /\ retainEnd)
        /\ blockStack' = Front(blockStack)
        /\ deleteBlock' = {}
        /\ retainEnd' = TRUE
        /\ Plan(block, lists[idx].before \o FuncCode(idx) \o onElseOrEnd \o due.before,
                lists[idx].after \o Chain(due.flagged) \o due.after,
                <<>>, [onEnd EXCEPT ![block] = Nothing])

\* Any other instruction.
OtherRemoved ==
    /\ Here /\ Op \notin Structural
    /\ deleteBlock # {}
    /\ RemoveInstr(lists[idx].before \o FuncCode(idx))
    /\ UNCHANGED <<blockStack, deleteBlock, retainEnd, onElseOrEnd>>
OtherKept ==
    /\ Here /\ Op \notin Structural
    /\ deleteBlock = {}
    /\ Plan(Last(blockStack), lists[idx].before \o FuncCode(idx), lists[idx].after, onElseOrEnd, onEnd)
    /\ UNCHANGED <<blockStack, deleteBlock, retainEnd>>

Resolve == OpenBlock \/ AtElse \/ EndRemoved \/ EndKept \/ OtherRemoved \/ OtherKept
Next == Edit \/ Begin \/ Resolve
Spec == ResolverInit /\ [][Next]_vars

(***************************************************************************)
(* encode_function.                                                        *)
(***************************************************************************)
\* Every written instruction, with the instruction of the body it is (0: injected).
From(i, code) == [k \in DOMAIN code |-> [op |-> code[k].op, arg |-> code[k].arg, src |-> i]]
IsLast(i) == i = Len(body)
EncodeInstr(i) ==
    From(0, lists[i].before)
    \o (IF ~IsLast(i) /\ "alternate" \in some[i] THEN From(0, lists[i].alternate) ELSE From(i, <<body[i]>>))
    \o (IF IsLast(i) THEN <<>> ELSE From(0, lists[i].after))
Encoded == FlattenSeq([i \in DOMAIN body |-> EncodeInstr(i)])

\* check_special_is_resolved
CheckFails == \E i \in DOMAIN body : HasSpecial(i)

(***************************************************************************)
(* Where each body belongs, read off the whole function.                   *)
(***************************************************************************)
Done == phase = "done"
Resolved == Done /\ special

\* The instructions an asked block alternate takes away: its block, or the else's part of it.
AskedAlts == {i \in DOMAIN body : body[i].op \in BlockStyle /\ "block_alt" \in asked.some[i]}
RegionOf(i) == i .. Closing(body, i) - (IF body[i].op = "else" THEN 1 ELSE 0)
ReplacedInstrs == UNION {RegionOf(i) : i \in AskedAlts}
\* Alternates that are not themselves inside what another one replaces.
Outermost(i) == \A j \in AskedAlts \ {i} : i \notin RegionOf(j)

Ends(i) == {EndOfLabel(body, i, body[i].arg[k]) : k \in DOMAIN body[i].arg}
Belongs(i, m) ==
    IF m \in {"before", "after"} THEN {<<i, m>>}
    ELSE IF m = "block_alt" THEN IF Outermost(i) THEN {<<i, "alternate">>} ELSE {}
    ELSE IF i \in ReplacedInstrs THEN {}
    ELSE CASE m = "alternate"   -> {<<i, m>>}
           [] m = "block_entry" -> {<<i, "after">>}
           [] m = "block_exit"  ->
                {<<IF body[i].op = "if" THEN ElseOrClosing(body, i) ELSE Closing(body, i), "before">>}
           [] m = "semantic_after" ->
                IF body[i].op \in BlockStyle THEN {<<Closing(body, i), "after">>}
                ELSE {<<e, "after">> : e \in Ends(i)} \cup (IF body[i].op = "br_if" THEN {<<i, "after">>} ELSE {})
LeavingInstrs == {i \in DOMAIN body : body[i].op \in Leaving} \cup {Len(body)}
FuncBelongs(m) == IF m = "entry" THEN {<<1, "before">>} ELSE {<<i, "before">> : i \in LeavingInstrs}

Occurrences(p, i, m) == Cardinality({k \in DOMAIN lists[i][m] : lists[i][m][k] = p})
FoundAt(p) == {place \in (DOMAIN body) \X Modes : Occurrences(p, place[1], place[2]) > 0}
RunOf(seq) == {seq[k] : k \in DOMAIN seq}

\* The part of an if between its opener and its else or end has no else or end of its own.
FlatIf(i) == \A j \in i + 1 .. ElseOrClosing(body, i) - 1 : body[j].op \notin {"else", "end"}
WaitsFlat(i, m) == m = "block_exit" /\ body[i].op = "if" => FlatIf(i)
\* The caller's own alternates leave the blocks alone.
AltsArePlain == \A i \in DOMAIN body : "alternate" \in asked.some[i] => body[i].op \notin Structural

TypeOK ==
    /\ phase \in {"edit", "resolve", "done", "run"}
    /\ idx \in 1 .. Len(body) + 1
    /\ \A i \in DOMAIN body :
        /\ DOMAIN lists[i] = Modes /\ some[i] \subseteq Optional /\ modes[i] \in Modes \cup {None}
        /\ \A m \in Optional \ some[i] : lists[i][m] = <<>>
    /\ blockStack \in Seq(Nat) /\ \A k \in DOMAIN blockStack : blockStack[k] = k - 1
    /\ phase = "resolve" => special /\ funcMode = None
    /\ deleteBlock \subseteq RunOf(blockStack) /\ Cardinality(deleteBlock) <= 1

\* Every body the resolver was given is, afterwards, in the lists of exactly the
\* instructions it belongs to: an entry after its opener, an exit before its own end, a
\* semantic-after after the end of the block or of every target, an alternate in place of
\* its block, function bodies at the first instruction and at every way out; and the bodies
\* of a replaced block are nowhere.  (Left out: the exit of an if with blocks inside.)
PlacedWhereTheyBelong ==
    Resolved /\ AltsArePlain =>
        /\ \A i \in DOMAIN body : \A m \in Modes : \A p \in RunOf(asked.lists[i][m]) :
            WaitsFlat(i, m) => FoundAt(p) = Belongs(i, m)
        /\ \A m \in FuncModes : \A p \in RunOf(asked.func[m]) : FoundAt(p) = FuncBelongs(m)

\* Through a ModuleIterator no sequence of calls leads to a function that encode refuses
\* ("BUG: ... should be resolved already"), but for an empty block alternate at an
\* instruction that is no block: has_special_instr is set whenever it has to be.
IteratorCodeIsWritten ==
    Done /\ client = "iterator" =>
        (CheckFails <=> \E i \in DOMAIN body \ ReplacedInstrs :
            body[i].op \notin BlockStyle /\ "block_alt" \in asked.some[i])

\* The function's own instructions in a piece of written code.
Own(code) == {k \in DOMAIN code : code[k].src > 0}

\* Of the function's own instructions exactly those outside replaced blocks are written, in
\* order; the last end always is.
KeptInstrsInOrder ==
    LET code == Encoded
    IN  Resolved =>
            /\ {code[k].src : k \in Own(code)} =
                  {i \in DOMAIN body : IsLast(i) \/ (i \notin ReplacedInstrs /\ "alternate" \notin asked.some[i])}
            /\ \A j, k \in Own(code) : j < k => code[j].src < code[k].src

\* The code written is well nested, and every branch and catch that is left still means the
\* block it meant, whatever flags, wrapper and replaced blocks came between; a branch out of the
\* function means the wrapper block when there is one.
NestingKept ==
    Resolved /\ AltsArePlain =>
        /\ WellFormed(Encoded)
        /\ \A e \in DOMAIN Encoded : Encoded[e].src > 0 /\ Encoded[e].op \in Labelled =>
            \A k \in DOMAIN Encoded[e].arg :
                LET was == Label(body, Encoded[e].src, Encoded[e].arg[k])
                    now == Label(Encoded, e, Encoded[e].arg[k])
                IN  IF was > 0 THEN now > 0 /\ Encoded[now].src = was
                    ELSE IF asked.func.exit = <<>> THEN now = 0
                    ELSE now > 0 /\ Encoded[now].src = 0 /\ Level(Encoded, now) = 1
=============================================================================
