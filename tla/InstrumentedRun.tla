-------------------------- MODULE InstrumentedRun ---------------------------
(***************************************************************************)
(* An instrumented function is resolved, written, and run: what the caller *)
(* of the library is after.  Flags are locals of the function; probes do   *)
(* nothing but run.                                                        *)
(***************************************************************************)
EXTENDS Resolver

VARIABLES
    written,    \* the function as encode_function wrote it
    at,         \* the instruction of it that is next
    flags,      \* the flag locals that are 1
    owed,       \* branches' semantic-after bodies, their branch done, that have not run yet
    early,      \* such a body has run though its branch had not been done
    exits       \* how often the exit body has run (2: more than once)

runVars == <<at, flags, owed, early, exits>>
Engine == INSTANCE WasmRun WITH code <- written, pc <- at

RunInit ==
    /\ ResolverInit
    /\ written = body
    /\ at = 1
    /\ flags = {} /\ owed = {} /\ early = FALSE /\ exits = 0

Prepare == (Edit \/ Begin \/ Resolve) /\ UNCHANGED <<written, runVars>>

Write ==
    /\ Done /\ ~CheckFails
    \* A replaced instruction is replaced by code of the caller's: only what is added is run.
    /\ \A i \in DOMAIN body : asked.some[i] = {}
    /\ phase' = "run"
    /\ written' = Encoded
    /\ UNCHANGED <<runVars, callerVars, passVars, lists, some, idx, onEntry, onExit, asked>>

\* The bodies for after the branch at i; only the first operator of a body is followed.
AfterBranch(i) ==
    IF i > 0 /\ body[i].op \in Branching /\ asked.lists[i].semantic_after # <<>>
    THEN {Head(asked.lists[i].semantic_after)} ELSE {}
AfterSomeBranch == UNION {AfterBranch(i) : i \in DOMAIN body}
IsProbe(ins, l) == l # <<>> /\ ins.op = "probe" /\ ins.arg = Head(l).arg

Run ==
    LET ins == written[at]
        flag == ins.arg[1]
        p == Probe(ins.arg[1])
    IN  /\ phase = "run"
        /\ at \in DOMAIN written
        /\ at' \in IF ins.op = "if_flag"
                   THEN {IF flag \in flags THEN at + 1 ELSE ElseOrClosing(written, at) + 1}
                   ELSE Engine!Successors(written, at)
        /\ flags' = CASE ins.op = "flag_on"  -> flags \cup {flag}
                      [] ins.op = "flag_off" -> flags \ {flag}
                      [] OTHER               -> flags
        /\ IF ins.op = "probe"
           THEN /\ owed' = owed \ {p}
                /\ early' = (early \/ (p \in AfterSomeBranch /\ p \notin owed))
           ELSE /\ owed' = owed \cup AfterBranch(ins.src)
                /\ UNCHANGED early
        /\ exits' = IF IsProbe(ins, asked.func.exit) /\ exits < 2 THEN exits + 1 ELSE exits
        /\ UNCHANGED <<callerVars, passVars, phase, idx, lists, some, onEntry, onExit, asked, written>>

RunNext == Prepare \/ Write \/ Run
RunSpec == RunInit /\ [][RunNext]_<<vars, written, runVars>>

(***************************************************************************)
(* What instrumentation promises about the run.                            *)
(***************************************************************************)
Running == phase = "run"
\* The instruction of the function itself that comes next.
OwnPc ==
    IF at \in {Engine!Trapped, Engine!Aborted} THEN at
    ELSE IF phase # "run" THEN 1
    ELSE LET later == {j \in DOMAIN written : j >= at /\ written[j].src > 0}
         IN  IF later = {} THEN Len(body) + 1 ELSE written[Min(later)].src
AtOwn == at \in DOMAIN written => written[at].src > 0

\* Probes, flags and the wrapper never change the way the function itself goes: apart from
\* them, the run is a run of the function as it was.  (Nothing is replaced in it.)
Uninstrumented == INSTANCE WasmRun WITH code <- body, pc <- OwnPc
KeepsTheFunctionsPath == Uninstrumented!Spec

\* Whichever way the function ends - return, unreachable, throw, branch, falling off - its
\* exit body runs in it exactly once, and after it nothing but the instruction that ends the
\* function; when a call ends it instead (a trap, a callee's exception) the body never runs.
\* (For functions that catch no throw of their own: before such a throw the body runs too,
\* though the function goes on.)
CatchesOwnThrow == \E i \in DOMAIN body : body[i].op = "throw" /\ Uninstrumented!Handlers(body, i) # {}
ExitRunsOnceAtTheEnd ==
    Running /\ asked.func.exit # <<>> /\ ~CatchesOwnThrow =>
        /\ exits <= 1
        /\ exits = 1 => OwnPc \in LeavingInstrs \cup {Engine!Trapped, Engine!Returned(body)}
        /\ at \notin DOMAIN written => exits = (IF at = Engine!Aborted THEN 0 ELSE 1)

\* A branch's semantic-after body has run before the function's next own instruction runs,
\* branch taken or not.  (For branches to blocks, as the only such body asked for.)
ForwardOnly(i) ==
    \A k \in DOMAIN body[i].arg :
        LET opener == Label(body, i, body[i].arg[k]) IN opener > 0 /\ body[opener].op # "loop"
OwesOnly(i) == \A j \in DOMAIN body \ {i} : AfterBranch(j) = {}
SemanticAfterRuns ==
    Running /\ AtOwn => \A i \in DOMAIN body : ForwardOnly(i) /\ OwesOnly(i) => owed \cap AfterBranch(i) = {}

\* "The body will not be executed 2x": a branch's semantic-after body runs only when its
\* branch has been done since it last ran.
SemanticAfterOncePerBranch == ~early

\* "resolve bodies at the else", "at the end": the exit body of an if stands before the
\* if's own else or end, whatever blocks are inside.
IfExitAtItsOwnEnd ==
    Resolved =>
        \A i \in DOMAIN body : \A p \in RunOf(asked.lists[i].block_exit) :
            body[i].op = "if" /\ i \notin ReplacedInstrs => FoundAt(p) = Belongs(i, "block_exit")

\* "Some(empty vec) means there is no alt instrumentation": an instruction whose alternate is
\* Some and empty is still written.
EmptyAlternateKeeps ==
    Done => \A i \in DOMAIN body \ ReplacedInstrs :
        "alternate" \in asked.some[i] /\ asked.lists[i].alternate = <<>> =>
            \E k \in Own(Encoded) : Encoded[k].src = i
=============================================================================
