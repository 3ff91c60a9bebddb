-------------------------- MODULE SubIteratorProofs --------------------------
(***************************************************************************)
(* What the cursor of ComponentIterator promises, for every component.     *)
(* The invariant says that the module sub-iterator is the one of the       *)
(* module the cursor is in (InModule), that it rests on a function that is *)
(* not skipped (AtRest), that what was offered lies behind (Behind) and,   *)
(* on the components where nothing is lost, that what was offered is       *)
(* everything kept up to the current location (Traversed).                 *)
(***************************************************************************)
EXTENDS SubIterators, ReindexProofs

ModuleMetadata == [funcs : Seq(FuncMetadata), skip : SUBSET Nat]

InModule ==
    /\ comp = <<>> => modIt.funcs = <<>> /\ visited = {}
    /\ comp # <<>> => /\ currMod <= Len(comp)
                      /\ currMod = Len(comp) => answer = "none"
                      /\ modIt.skip \in {comp[m].skip : m \in DOMAIN comp}
    /\ currMod < Len(comp) => /\ modIt.funcs = FuncsOf(currMod + 1)
                              /\ SkipsApply => modIt.skip = comp[currMod + 1].skip

AtRest == modIt.idx = Len(modIt.funcs) \/ modIt.funcs[modIt.idx + 1].fid \notin modIt.skip

Behind == \A l \in visited : ~Before(Here, l)

Counted ==
    currMod < Len(comp) =>
        IF HasCurr(modIt) THEN modIt.instr < modIt.num /\ modIt.num = CurrFunc(modIt).len
                          ELSE ~FuncHasNext(modIt)
\* The cursor stops only behind everything.
StopsAtTheEnd ==
    answer = "none" => \/ currMod >= Len(comp)
                       \/ currMod = Len(comp) - 1 /\ ~HasCurr(modIt)
Traversed ==
    Regular /\ SkipsApply =>
        /\ Counted
        /\ StopsAtTheEnd
        /\ answer # "panic"
        /\ visited = {l \in Kept : ~Before(Here, l)}

(***************************************************************************)
(* Lemmas about the operators.                                             *)
(***************************************************************************)
LEMMA HandleSkipsFacts ==
    ASSUME NEW funcs \in Seq(FuncMetadata), NEW skip, NEW idx \in 0 .. Len(funcs)
    PROVE  /\ HandleSkips(funcs, skip, idx) \in idx .. Len(funcs)
           /\ \A k \in idx .. HandleSkips(funcs, skip, idx) - 1 : funcs[k + 1].fid \in skip
           /\ \/ HandleSkips(funcs, skip, idx) = Len(funcs)
              \/ funcs[HandleSkips(funcs, skip, idx) + 1].fid \notin skip
<1> DEFINE stops(j) == j = Len(funcs) \/ funcs[j + 1].fid \notin skip
           T == {j \in idx .. Len(funcs) : stops(j)}
           P(j) == /\ \A k \in idx .. j - 1 : funcs[k + 1].fid \in skip
                   /\ j = Len(funcs) \/ funcs[j + 1].fid \notin skip
<1>1. Len(funcs) \in Nat /\ idx \in Nat /\ idx <= Len(funcs)
  OBVIOUS
<1>2. T \in SUBSET Nat /\ Len(funcs) \in T
  BY <1>1
<1>3. PICK m \in T : \A k \in T : m <= k
  BY <1>2, LeastElement
<1>4. m \in idx .. Len(funcs) /\ stops(m)
  BY <1>3
<1>5. \A k \in idx .. m - 1 : funcs[k + 1].fid \in skip
  <2> TAKE k \in idx .. m - 1
  <2>1. k \in idx .. Len(funcs) /\ ~(m <= k) /\ k # Len(funcs)
    BY <1>1, <1>4
  <2>2. ~stops(k)
    BY <1>3, <2>1
  <2> QED
    BY <2>2
<1>6. \E j \in idx .. Len(funcs) : P(j)
  BY <1>4, <1>5
<1>7. HandleSkips(funcs, skip, idx) = CHOOSE j \in idx .. Len(funcs) : P(j)
  BY DEF HandleSkips
<1> HIDE DEF P
<1>8. HandleSkips(funcs, skip, idx) \in idx .. Len(funcs) /\ P(HandleSkips(funcs, skip, idx))
  BY <1>6, <1>7, Zenon
<1> QED
  BY <1>8 DEF P

\* The metadata of the modules of a component.
LEMMA ComponentFacts ==
    ASSUME TypeOK
    PROVE  /\ comp \in Seq(ModuleMetadata) /\ Len(comp) \in Nat
           /\ \A m \in 1 .. Len(comp) :
                 /\ m \in DOMAIN comp
                 /\ comp[m] \in ModuleMetadata
                 /\ comp[m].funcs \in Seq(FuncMetadata) /\ comp[m].skip \in SUBSET Nat
                 /\ FuncsOf(m) = comp[m].funcs /\ Len(comp[m].funcs) \in Nat
           /\ modIt.funcs \in Seq(FuncMetadata) /\ Len(modIt.funcs) \in Nat
           /\ modIt.idx \in 0 .. Len(modIt.funcs)
           /\ modIt.idx \in Nat /\ modIt.instr \in Nat /\ modIt.num \in Nat /\ currMod \in Nat
<1>1. comp \in Seq(ModuleMetadata)
  BY ComponentsAssumption DEF TypeOK, ModuleMetadata
<1>2. \A m \in 1 .. Len(comp) :
         /\ m \in DOMAIN comp
         /\ comp[m] \in ModuleMetadata
  BY <1>1
<1>3. \A m \in 1 .. Len(comp) :
         /\ comp[m].funcs \in Seq(FuncMetadata) /\ comp[m].skip \in SUBSET Nat
         /\ FuncsOf(m) = comp[m].funcs /\ Len(comp[m].funcs) \in Nat
  BY <1>2 DEF ModuleMetadata, FuncsOf
<1>4. /\ modIt.funcs \in {<<>>} \cup {comp[m].funcs : m \in DOMAIN comp}
      /\ modIt.idx \in Nat /\ modIt.instr \in Nat /\ modIt.num \in Nat /\ currMod \in Nat
      /\ modIt.idx <= Len(modIt.funcs)
  BY DEF TypeOK
<1>5. DOMAIN comp = 1 .. Len(comp) /\ <<>> \in Seq(FuncMetadata)
  BY <1>1
<1>6. modIt.funcs \in Seq(FuncMetadata)
  BY <1>3, <1>4, <1>5
<1>7. Len(modIt.funcs) \in Nat
  BY <1>6
<1>8. modIt.idx \in 0 .. Len(modIt.funcs)
  BY <1>4, <1>7
<1> QED
  BY <1>1, <1>2, <1>3, <1>4, <1>6, <1>7, <1>8

(***************************************************************************)
(* The three steps of a traversal, and what each answers.                  *)
(***************************************************************************)
SameModule == /\ currMod' = currMod
              /\ modIt'.funcs = modIt.funcs /\ modIt'.skip = modIt.skip
ToInstr ==
    /\ FuncHasNext(modIt) /\ SameModule
    /\ modIt'.idx = modIt.idx /\ modIt'.num = modIt.num
    /\ modIt'.instr = modIt.instr + 1
ToFunction ==
    /\ ~FuncHasNext(modIt) /\ HasNextFunction(modIt) /\ SameModule
    /\ modIt'.idx = HandleSkips(modIt.funcs, modIt.skip, modIt.idx + 1)
    /\ IF modIt'.idx < Len(modIt.funcs)
       THEN modIt'.instr = 0 /\ modIt'.num = modIt.funcs[modIt'.idx + 1].len
       ELSE modIt'.instr = modIt.instr /\ modIt'.num = modIt.num
AtStart(it, m) ==
    /\ it.funcs = m.funcs /\ it.skip = m.skip /\ it.instr = 0
    /\ it.idx = HandleSkips(m.funcs, m.skip, 0)
    /\ it.num = IF m.funcs = <<>> THEN 0 ELSE m.funcs[1].len
ToModule ==
    /\ ~FuncHasNext(modIt) /\ ~HasNextFunction(modIt)
    /\ currMod' = currMod + 1
    /\ IF currMod + 1 < Len(comp) THEN AtStart(modIt', comp[currMod + 2]) ELSE modIt' = modIt
Offers == answer' \in {"some", "panic"} /\ CompHasCurr' /\ visited' = visited \cup {Here'}
Stops == answer' = "none" /\ visited' = visited

\* The cursor moves to the next instruction, function or module, and the caller's loop
\* continues with what it finds there.
LEMMA AdvanceFacts ==
    ASSUME TypeOK, Advance
    PROVE  /\ comp' = comp /\ resets' = resets /\ answer \in {"start", "some"}
           /\ ToInstr \/ ToFunction \/ ToModule
           /\ Offers \/ Stops
           /\ ToInstr /\ Stops => ~CompHasCurr'
           /\ ToFunction /\ Stops => ~CompHasCurr'
           /\ ToModule /\ Stops => ~CompHasCurr' \/ ~(currMod' < Len(comp))
           /\ answer' = "panic" => ~(modIt'.instr < CurrFunc(modIt').len)
<1>0. comp' = comp /\ resets' = resets /\ answer \in {"start", "some"}
  BY DEF Advance
<1>1. /\ modIt = [funcs |-> modIt.funcs, skip |-> modIt.skip, idx |-> modIt.idx,
                  instr |-> modIt.instr, num |-> modIt.num]
      /\ modIt.idx \in Nat /\ currMod \in Nat
  BY DEF TypeOK
<1>2. Len(modIt.funcs) \in Nat /\ comp \in Seq(ModuleMetadata) /\ Len(comp) \in Nat
  BY ComponentFacts
<1>3. ASSUME NEW moved \in BOOLEAN, Answer(moved)
      PROVE  /\ Offers \/ Stops
             /\ Stops => ~moved \/ ~CompHasCurr'
             /\ answer' = "panic" => ~(modIt'.instr < CurrFunc(modIt').len)
  BY <1>3 DEF Answer, Offers, Stops
<1>4. CASE NextInModule /\ FuncHasNext(modIt)
  <2>1. modIt' = [modIt EXCEPT !.instr = @ + 1] /\ currMod' = currMod
    BY <1>4 DEF NextInModule
  <2>2. ToInstr
    BY <1>1, <1>4, <2>1 DEF ToInstr, SameModule
  <2>3. Answer(TRUE)
    BY <1>4 DEF NextInModule
  <2>4. ~ToFunction /\ ~ToModule
    BY <1>4 DEF ToFunction, ToModule
  <2> QED
    BY <1>0, <1>3, <2>2, <2>3, <2>4
<1>5. CASE NextInModule /\ ~FuncHasNext(modIt)
  <2> DEFINE moved == [modIt EXCEPT !.idx = HandleSkips(modIt.funcs, modIt.skip, modIt.idx + 1)]
  <2>1. modIt' = NextFunction(modIt) /\ currMod' = currMod /\ HasNextFunction(modIt)
    BY <1>5 DEF NextInModule, HasNext
  <2>2. /\ moved.funcs = modIt.funcs /\ moved.skip = modIt.skip
        /\ moved.instr = modIt.instr /\ moved.num = modIt.num
        /\ moved.idx = HandleSkips(modIt.funcs, modIt.skip, modIt.idx + 1)
    BY <1>1
  <2>3. modIt' = IF HasCurr(moved)
                 THEN [moved EXCEPT !.instr = 0, !.num = CurrFunc(moved).len] ELSE moved
    BY <2>1 DEF NextFunction
  <2>4. ToFunction
    <3>1. CASE HasCurr(moved)
      <4>1. modIt' = [moved EXCEPT !.instr = 0, !.num = CurrFunc(moved).len]
        BY <2>3, <3>1
      <4>2. /\ modIt'.funcs = moved.funcs /\ modIt'.skip = moved.skip /\ modIt'.idx = moved.idx
            /\ modIt'.instr = 0 /\ modIt'.num = CurrFunc(moved).len
        BY <1>1, <4>1
      <4>3. moved.idx < Len(modIt.funcs) /\ CurrFunc(moved).len = modIt.funcs[moved.idx + 1].len
        BY <2>2, <3>1 DEF HasCurr, CurrFunc
      <4> HIDE DEF moved
      <4> QED
        BY <1>5, <2>1, <2>2, <4>2, <4>3 DEF ToFunction, SameModule
    <3>2. CASE ~HasCurr(moved)
      <4>1. modIt' = moved /\ ~(moved.idx < Len(modIt.funcs))
        BY <2>2, <2>3, <3>2 DEF HasCurr
      <4> HIDE DEF moved
      <4> QED
        BY <1>5, <2>1, <2>2, <4>1 DEF ToFunction, SameModule
    <3> QED
      BY <3>1, <3>2
  <2>5. PICK found \in BOOLEAN : (found <=> HasCurr(modIt')) /\ Answer(found)
    <3>1. Answer(FuncHasNext(modIt) \/ HasCurr(modIt'))
      BY <1>5 DEF NextInModule
    <3>2. (FuncHasNext(modIt) \/ HasCurr(modIt')) \in BOOLEAN
      OBVIOUS
    <3>3. (FuncHasNext(modIt) \/ HasCurr(modIt')) <=> HasCurr(modIt')
      BY <1>5
    <3> QED
      BY <3>1, <3>2, <3>3, Zenon
  <2>6. ~ToInstr /\ ~ToModule
    BY <1>5, <2>1 DEF ToInstr, ToModule
  <2>7. Stops => ~found \/ ~CompHasCurr'
    BY <1>3, <2>5
  <2>8. Stops => ~CompHasCurr'
    BY <2>5, <2>7 DEF CompHasCurr
  <2>9. /\ Offers \/ Stops
        /\ answer' = "panic" => ~(modIt'.instr < CurrFunc(modIt').len)
    BY <1>3, <2>5
  <2> QED
    BY <1>0, <2>4, <2>6, <2>8, <2>9
<1>6. CASE NextModule
  <2>1. /\ ~FuncHasNext(modIt) /\ ~HasNextFunction(modIt)
        /\ currMod' = currMod + 1
        /\ modIt' = IF currMod' < Len(comp) THEN ModNew(comp[currMod' + 1]) ELSE modIt
    BY <1>0, <1>6 DEF NextModule, HasNext
  <2>2. ToModule
    <3>1. currMod + 1 + 1 = currMod + 2
      BY <1>1
    <3>2. \A m : AtStart(ModNew(m), m)
      BY DEF AtStart, ModNew
    <3> QED
      BY <2>1, <3>1, <3>2 DEF ToModule
  <2>3. Answer(currMod' < Len(comp))
    BY <1>0, <1>6 DEF NextModule
  <2>4. ~ToInstr /\ ~ToFunction
    BY <2>1 DEF ToInstr, ToFunction
  <2>5. Stops => ~(currMod' < Len(comp)) \/ ~CompHasCurr'
    BY <1>3, <2>3
  <2>6. (currMod' < Len(comp)) \in BOOLEAN
    OBVIOUS
  <2>7. /\ Offers \/ Stops
        /\ answer' = "panic" => ~(modIt'.instr < CurrFunc(modIt').len)
    BY <1>3, <2>3, <2>6
  <2> QED
    BY <1>0, <2>2, <2>4, <2>5, <2>7
<1> QED
  BY <1>0, <1>4, <1>5, <1>6 DEF Advance
\* A reset returns to module 0 with its metadata and the skip list in use.
ToReset ==
    /\ comp # <<>> /\ currMod' = 0
    /\ modIt'.funcs = comp[1].funcs /\ modIt'.skip = modIt.skip /\ modIt'.instr = 0
    /\ modIt'.idx = HandleSkips(comp[1].funcs, modIt.skip, 0)
    /\ modIt'.num = CurrFunc(modIt').len

LEMMA ResetFacts ==
    ASSUME TypeOK, Reset
    PROVE  /\ comp' = comp /\ resets' = resets + 1 /\ resets' \in 1 .. MaxResets
           /\ answer' = "start" /\ visited' = IF CompHasCurr' THEN {Here'} ELSE {}
           /\ ToReset
<1>1. modIt = [funcs |-> modIt.funcs, skip |-> modIt.skip, idx |-> modIt.idx,
               instr |-> modIt.instr, num |-> modIt.num]
  BY DEF TypeOK
<1>2. /\ comp' = comp /\ resets' = resets + 1 /\ resets < MaxResets /\ comp # <<>>
      /\ currMod' = 0 /\ modIt' = ModReset(modIt, comp[1].funcs)
      /\ answer' = "start" /\ visited' = IF CompHasCurr' THEN {Here'} ELSE {}
  BY DEF Reset
<1>3. resets' \in 1 .. MaxResets
  BY <1>2, MaxResetsAssumption DEF TypeOK
<1> DEFINE funcs == comp[1].funcs
           j == HandleSkips(funcs, modIt.skip, 0)
           start == [modIt EXCEPT !.funcs = funcs, !.idx = j]
<1>4. modIt' = [start EXCEPT !.instr = 0, !.num = CurrFunc(start).len]
  BY <1>2 DEF ModReset
<1>5. start.funcs = funcs /\ start.skip = modIt.skip /\ start.idx = j
  <2> HIDE DEF funcs, j
  <2> QED
    BY <1>1
<1>6. /\ modIt'.funcs = start.funcs /\ modIt'.skip = start.skip /\ modIt'.idx = start.idx
      /\ modIt'.instr = 0 /\ modIt'.num = CurrFunc(start).len
  <2> HIDE DEF funcs, j
  <2> QED
    BY <1>1, <1>4
<1> HIDE DEF start
<1>7. CurrFunc(modIt') = CurrFunc(start)
  BY <1>5, <1>6 DEF CurrFunc, HasCurr
<1>8. /\ modIt'.funcs = comp[1].funcs /\ modIt'.skip = modIt.skip
      /\ modIt'.idx = HandleSkips(comp[1].funcs, modIt.skip, 0)
      /\ modIt'.instr = 0 /\ modIt'.num = CurrFunc(modIt').len
  BY <1>5, <1>6, <1>7
<1>9. ToReset
  BY <1>2, <1>8 DEF ToReset
<1> QED
  BY <1>2, <1>3, <1>9

\* A fresh module sub-iterator is within its module.
LEMMA AtStartFacts ==
    ASSUME NEW it, NEW m \in ModuleMetadata, AtStart(it, m)
    PROVE  /\ it.idx \in 0 .. Len(it.funcs) /\ it.idx \in Nat /\ it.num \in Nat
           /\ it.instr = 0 /\ it.funcs = m.funcs /\ it.skip = m.skip
           /\ it.idx = Len(it.funcs) \/ it.funcs[it.idx + 1].fid \notin it.skip
           /\ \A k \in 0 .. it.idx - 1 : it.funcs[k + 1].fid \in it.skip
<1>1. m.funcs \in Seq(FuncMetadata) /\ Len(m.funcs) \in Nat
  BY DEF ModuleMetadata
<1>2. 0 \in 0 .. Len(m.funcs)
  BY <1>1
<1>3. /\ HandleSkips(m.funcs, m.skip, 0) \in 0 .. Len(m.funcs)
      /\ \A k \in 0 .. HandleSkips(m.funcs, m.skip, 0) - 1 : m.funcs[k + 1].fid \in m.skip
      /\ \/ HandleSkips(m.funcs, m.skip, 0) = Len(m.funcs)
         \/ m.funcs[HandleSkips(m.funcs, m.skip, 0) + 1].fid \notin m.skip
  BY <1>1, <1>2, HandleSkipsFacts
<1>4. m.funcs # <<>> => m.funcs[1].len \in Nat
  <2> SUFFICES ASSUME m.funcs # <<>>
               PROVE  m.funcs[1].len \in Nat
    OBVIOUS
  <2>1. 1 \in 1 .. Len(m.funcs)
    BY <1>1
  <2>2. m.funcs[1] \in FuncMetadata
    BY <1>1, <2>1
  <2> QED
    BY <2>2 DEF FuncMetadata
<1> QED
  BY <1>1, <1>3, <1>4 DEF AtStart

LEMMA CurrFuncTyped ==
    ASSUME NEW it, it.funcs \in Seq(FuncMetadata), it.idx \in 0 .. Len(it.funcs)
    PROVE  /\ CurrFunc(it).len \in Nat
           /\ HasCurr(it) => CurrFunc(it) \in FuncMetadata
<1>1. CASE HasCurr(it)
  <2>1. it.idx + 1 \in 1 .. Len(it.funcs)
    BY <1>1 DEF HasCurr
  <2>2. it.funcs[it.idx + 1] \in FuncMetadata
    BY <2>1
  <2>3. CurrFunc(it) \in FuncMetadata
    BY <1>1, <2>2 DEF CurrFunc
  <2> QED
    BY <2>3 DEF FuncMetadata
<1>2. CASE ~HasCurr(it)
  <2>1. CurrFunc(it) = [fid |-> 0, len |-> 0]
    BY <1>2, Zenon DEF CurrFunc
  <2>2. CurrFunc(it).len = 0
    BY <2>1
  <2> QED
    BY <1>2, <2>2
<1> QED
  BY <1>1, <1>2

LEMMA TypeInit == Init => TypeOK
<1> SUFFICES ASSUME Init
             PROVE  TypeOK
  OBVIOUS
<1>1. comp \in Seq(ModuleMetadata)
  BY ComponentsAssumption DEF Init, ModuleMetadata
<1> DEFINE none == [funcs |-> <<>>, skip |-> {}]
           m == IF comp = <<>> THEN none ELSE comp[1]
<1>2. m \in ModuleMetadata /\ m.funcs \in {<<>>} \cup {comp[k].funcs : k \in DOMAIN comp}
                           /\ m.skip \in {{}} \cup {comp[k].skip : k \in DOMAIN comp}
  <2>1. CASE comp = <<>>
    <3>1. none \in ModuleMetadata
      BY DEF ModuleMetadata
    <3> QED
      BY <2>1, <3>1
  <2>2. CASE comp # <<>>
    <3>1. 1 \in DOMAIN comp
      BY <1>1, <2>2
    <3> QED
      BY <1>1, <2>2, <3>1
  <2> QED
    BY <2>1, <2>2
<1>3. modIt = ModNew(m)
  BY DEF Init
<1> HIDE DEF m
<1>4. AtStart(modIt, m)
  BY <1>3 DEF AtStart, ModNew
<1>5. modIt = [funcs |-> modIt.funcs, skip |-> modIt.skip, idx |-> modIt.idx,
               instr |-> modIt.instr, num |-> modIt.num]
  BY <1>3 DEF ModNew
<1>6. /\ modIt.idx \in 0 .. Len(modIt.funcs) /\ modIt.idx \in Nat /\ modIt.num \in Nat
      /\ modIt.instr = 0 /\ modIt.funcs = m.funcs /\ modIt.skip = m.skip
  BY <1>2, <1>4, AtStartFacts
<1>7. modIt \in [funcs : {<<>>} \cup {comp[k].funcs : k \in DOMAIN comp},
                 skip : {{}} \cup {comp[k].skip : k \in DOMAIN comp},
                 idx : Nat, instr : Nat, num : Nat]
  BY <1>2, <1>5, <1>6
<1>8. Len(modIt.funcs) \in Nat
  BY <1>2, <1>6 DEF ModuleMetadata
<1>9. visited \in SUBSET (Nat \X Nat \X Nat)
  <2>1. Here \in Nat \X Nat \X Nat
    BY <1>6 DEF Here, Init
  <2>2. visited = {Here} \/ visited = {}
    BY DEF Init
  <2> QED
    BY <2>1, <2>2
<1>10. modIt.idx <= Len(modIt.funcs)
  BY <1>6, <1>8
<1> QED
  BY <1>7, <1>9, <1>10, MaxResetsAssumption DEF TypeOK, Init
LEMMA TypeNext == TypeOK /\ [Next]_vars => TypeOK'
<1> SUFFICES ASSUME TypeOK, [Next]_vars
             PROVE  TypeOK'
  OBVIOUS
<1> DEFINE F == {<<>>} \cup {comp[m].funcs : m \in DOMAIN comp}
           S == {{}} \cup {comp[m].skip : m \in DOMAIN comp}
           R == [funcs : F, skip : S, idx : Nat, instr : Nat, num : Nat]
<1>0. /\ modIt \in R /\ modIt.skip \in S /\ modIt.funcs \in F
      /\ modIt.idx \in Nat /\ modIt.instr \in Nat
  BY DEF TypeOK
<1>1. /\ comp \in Seq(ModuleMetadata) /\ Len(comp) \in Nat
      /\ modIt.funcs \in Seq(FuncMetadata) /\ Len(modIt.funcs) \in Nat
      /\ modIt.idx \in 0 .. Len(modIt.funcs) /\ currMod \in Nat
  BY ComponentFacts
<1>2. \A m \in 1 .. Len(comp) :
         /\ m \in DOMAIN comp /\ comp[m] \in ModuleMetadata
         /\ comp[m].funcs \in Seq(FuncMetadata) /\ comp[m].skip \in SUBSET Nat
         /\ comp[m].funcs \in F /\ comp[m].skip \in S
  BY ComponentFacts
<1> HIDE DEF F, S
<1>4. ASSUME /\ comp' = comp /\ currMod' \in Nat /\ resets' \in 0 .. MaxResets
             /\ modIt' \in R /\ modIt'.idx \in 0 .. Len(modIt'.funcs) /\ Len(modIt'.funcs) \in Nat
             /\ answer' \in {"start", "some", "none", "panic"}
             /\ visited' \in SUBSET (visited \cup {Here'})
      PROVE  TypeOK'
  <2>1. Here' \in Nat \X Nat \X Nat
    BY <1>4 DEF Here
  <2>2. visited' \in SUBSET (Nat \X Nat \X Nat)
    BY <1>4, <2>1 DEF TypeOK
  <2>3. comp' \in Components /\ modIt'.idx <= Len(modIt'.funcs)
    BY <1>4 DEF TypeOK
  <2> QED
    BY <1>4, <2>2, <2>3 DEF TypeOK, F, S
<1>5. CASE Advance
  <2>1. comp' = comp /\ resets' = resets /\ (Offers \/ Stops)
    BY <1>5, AdvanceFacts
  <2>2. /\ answer' \in {"start", "some", "none", "panic"}
        /\ visited' \in SUBSET (visited \cup {Here'})
        /\ resets' \in 0 .. MaxResets
    BY <2>1 DEF Offers, Stops, TypeOK
  <2>3. CASE NextInModule /\ FuncHasNext(modIt)
    <3>1. modIt' = [modIt EXCEPT !.instr = @ + 1] /\ currMod' = currMod
      BY <2>3 DEF NextInModule
    <3>2. modIt' \in R /\ modIt'.idx = modIt.idx /\ modIt'.funcs = modIt.funcs
      BY <1>0, <3>1
    <3> QED
      BY <1>1, <1>4, <2>1, <2>2, <3>1, <3>2
  <2>4. CASE NextInModule /\ ~FuncHasNext(modIt)
    <3> DEFINE j == HandleSkips(modIt.funcs, modIt.skip, modIt.idx + 1)
               moved == [modIt EXCEPT !.idx = j]
               u == CurrFunc(moved).len
    <3>1. modIt' = NextFunction(modIt) /\ currMod' = currMod /\ HasNextFunction(modIt)
      BY <2>4 DEF NextInModule, HasNext
    <3>2. modIt.idx + 1 \in 0 .. Len(modIt.funcs)
      BY <1>1, <3>1 DEF HasNextFunction
    <3>3. j \in 0 .. Len(modIt.funcs) /\ j \in Nat
      <4>1. j \in modIt.idx + 1 .. Len(modIt.funcs)
        BY <1>1, <3>2, HandleSkipsFacts
      <4> QED
        BY <1>1, <4>1
    <3>4. u \in Nat
      <4>1. moved.funcs = modIt.funcs /\ moved.idx = j
        BY <1>0
      <4> HIDE DEF moved, j
      <4> QED
        BY <1>1, <3>3, <4>1, CurrFuncTyped
    <3>5. modIt' = IF HasCurr(moved) THEN [moved EXCEPT !.instr = 0, !.num = u] ELSE moved
      BY <3>1 DEF NextFunction
    <3> HIDE DEF j, u
    <3>6. moved \in R /\ moved.funcs = modIt.funcs /\ moved.idx = j
      BY <1>0, <3>3
    <3> HIDE DEF moved
    <3>7. [moved EXCEPT !.instr = 0, !.num = u] \in R
      BY <3>4, <3>6
    <3>8. /\ [moved EXCEPT !.instr = 0, !.num = u].funcs = moved.funcs
          /\ [moved EXCEPT !.instr = 0, !.num = u].idx = moved.idx
      BY <3>6
    <3>9. modIt' \in R /\ modIt'.funcs = modIt.funcs /\ modIt'.idx = j
      BY <3>5, <3>6, <3>7, <3>8
    <3> QED
      BY <1>1, <1>4, <2>1, <2>2, <3>1, <3>3, <3>9
  <2>5. CASE NextModule
    <3>1. /\ currMod' = currMod + 1
          /\ modIt' = IF currMod' < Len(comp) THEN ModNew(comp[currMod' + 1]) ELSE modIt
      BY <2>1, <2>5 DEF NextModule
    <3>2. CASE currMod' < Len(comp)
      <4> DEFINE m == comp[currMod' + 1]
      <4>1. currMod' + 1 \in 1 .. Len(comp)
        BY <1>1, <3>1, <3>2
      <4>2. m \in ModuleMetadata /\ m.funcs \in F /\ m.skip \in S /\ Len(m.funcs) \in Nat
        BY <1>2, <4>1
      <4>3. modIt' = ModNew(m)
        BY <3>1, <3>2
      <4> HIDE DEF m
      <4>4. AtStart(modIt', m)
        BY <4>3 DEF AtStart, ModNew
      <4>5. /\ modIt'.idx \in 0 .. Len(modIt'.funcs) /\ modIt'.idx \in Nat
            /\ modIt'.num \in Nat /\ modIt'.funcs = m.funcs
        BY <4>2, <4>4, AtStartFacts
      <4>6. modIt' \in R
        BY <4>2, <4>3, <4>5 DEF ModNew
      <4> QED
        BY <1>1, <1>4, <2>1, <2>2, <3>1, <4>2, <4>5, <4>6
    <3>3. CASE ~(currMod' < Len(comp))
      BY <1>0, <1>1, <1>4, <2>1, <2>2, <3>1, <3>3
    <3> QED
      BY <3>2, <3>3
  <2> QED
    BY <1>5, <2>3, <2>4, <2>5 DEF Advance
<1>6. CASE Reset
  <2> DEFINE funcs == comp[1].funcs
             j == HandleSkips(funcs, modIt.skip, 0)
             start == [modIt EXCEPT !.funcs = funcs, !.idx = j]
             u == CurrFunc(start).len
  <2>1. /\ comp' = comp /\ resets' \in 1 .. MaxResets /\ answer' = "start"
        /\ visited' = IF CompHasCurr' THEN {Here'} ELSE {}
    BY <1>6, ResetFacts
  <2>2. comp # <<>> /\ currMod' = 0 /\ modIt' = [start EXCEPT !.instr = 0, !.num = u]
    BY <1>6 DEF Reset, ModReset
  <2>3. 1 \in 1 .. Len(comp)
    BY <1>1, <2>2
  <2>4. funcs \in F /\ funcs \in Seq(FuncMetadata) /\ Len(funcs) \in Nat
    BY <1>2, <2>3
  <2>5. 0 \in 0 .. Len(funcs)
    BY <2>4
  <2>6. j \in 0 .. Len(funcs) /\ j \in Nat
    BY <2>4, <2>5, HandleSkipsFacts
  <2> HIDE DEF funcs, j
  <2>7. start \in R /\ start.funcs = funcs /\ start.idx = j
    BY <1>0, <2>4, <2>6
  <2>8. u \in Nat
    <3> HIDE DEF start
    <3> QED
      BY <2>4, <2>6, <2>7, CurrFuncTyped
  <2> HIDE DEF start, u
  <2>9. modIt' \in R /\ modIt'.funcs = funcs /\ modIt'.idx = j
    BY <2>2, <2>7, <2>8
  <2>10. visited' \in SUBSET (visited \cup {Here'}) /\ resets' \in 0 .. MaxResets
    BY <2>1, MaxResetsAssumption
  <2> QED
    BY <1>4, <2>1, <2>2, <2>4, <2>6, <2>9, <2>10
<1>7. CASE UNCHANGED vars
  BY <1>7 DEF vars, TypeOK
<1> QED
  BY <1>5, <1>6, <1>7 DEF Next

\* The cursor stays within the metadata it was given.
THEOREM CursorTyped == Spec => []TypeOK
  BY TypeInit, TypeNext, PTL DEF Spec
(***************************************************************************)
(* Where the cursor is, and what lies behind it.                           *)
(***************************************************************************)
LEMMA InitFacts ==
    ASSUME Init
    PROVE  /\ currMod = 0 /\ resets = 0 /\ answer = "start"
           /\ visited = IF CompHasCurr THEN {Here} ELSE {}
           /\ comp = <<>> => modIt.funcs = <<>>
           /\ comp # <<>> => AtStart(modIt, comp[1])
<1>1. \A m : AtStart(ModNew(m), m) /\ ModNew(m).funcs = m.funcs
  BY DEF AtStart, ModNew
<1> QED
  BY <1>1 DEF Init

\* A module sub-iterator has a current function only in a component with modules.
LEMMA NoModuleNoFunction ==
    TypeOK /\ modIt.funcs = <<>> => ~HasCurr(modIt) /\ ~HasNextFunction(modIt)
<1> SUFFICES ASSUME TypeOK, modIt.funcs = <<>>
             PROVE  ~HasCurr(modIt) /\ ~HasNextFunction(modIt)
  OBVIOUS
<1>1. modIt.idx \in Nat /\ Len(modIt.funcs) = 0
  BY ComponentFacts
<1> QED
  BY <1>1 DEF HasCurr, HasNextFunction

LEMMA InModuleInit == Init => InModule
<1> SUFFICES ASSUME Init
             PROVE  InModule
  OBVIOUS
<1>0. TypeOK
  BY TypeInit
<1>1. /\ currMod = 0 /\ answer = "start" /\ visited = IF CompHasCurr THEN {Here} ELSE {}
      /\ comp = <<>> => modIt.funcs = <<>>
      /\ comp # <<>> => modIt.funcs = comp[1].funcs /\ modIt.skip = comp[1].skip
  BY InitFacts DEF AtStart
<1>2. CASE comp = <<>>
  <2>1. Len(comp) = 0 /\ visited = {}
    BY <1>0, <1>1, <1>2, NoModuleNoFunction DEF CompHasCurr
  <2> QED
    BY <1>1, <1>2, <2>1 DEF InModule
<1>3. CASE comp # <<>>
  <2>1. comp \in Seq(ModuleMetadata) /\ Len(comp) \in Nat
    BY <1>0, ComponentFacts
  <2>2. Len(comp) # 0 /\ 1 \in DOMAIN comp
    BY <1>3, <2>1
  <2>3. currMod <= Len(comp) /\ currMod # Len(comp) /\ currMod + 1 = 1
    BY <1>1, <2>1, <2>2
  <2>4. modIt.skip \in {comp[m].skip : m \in DOMAIN comp}
    BY <1>1, <1>3, <2>2
  <2> QED
    BY <1>1, <1>3, <2>3, <2>4 DEF InModule, FuncsOf
<1> QED
  BY <1>2, <1>3

LEMMA InModuleNext == TypeOK /\ TypeOK' /\ InModule /\ [Next]_vars => InModule'
<1> SUFFICES ASSUME TypeOK, TypeOK', InModule, [Next]_vars
             PROVE  InModule'
  OBVIOUS
<1>0. /\ comp \in Seq(ModuleMetadata) /\ Len(comp) \in Nat /\ currMod \in Nat
      /\ DOMAIN comp = 1 .. Len(comp)
  BY ComponentFacts
<1>1. CASE Advance
  <2>1. /\ comp' = comp /\ resets' = resets /\ answer \in {"start", "some"}
        /\ ToInstr \/ ToFunction \/ ToModule
        /\ Offers \/ Stops
    BY <1>1, AdvanceFacts
  <2>2. CASE comp = <<>>
    <3>1. Len(comp) = 0 /\ modIt.funcs = <<>> /\ visited = {}
      BY <2>2 DEF InModule
    <3>2. ~ToFunction
      BY <3>1, NoModuleNoFunction DEF ToFunction
    <3>3. modIt'.funcs = <<>>
      BY <1>0, <2>1, <3>1, <3>2 DEF ToInstr, ToModule, SameModule
    <3>4. ~HasCurr(modIt)'
      <4>1. modIt'.idx \in Nat /\ Len(modIt'.funcs) = 0
        BY <3>3 DEF TypeOK
      <4> QED
        BY <4>1 DEF HasCurr
    <3>5. visited' = {}
      BY <2>1, <3>1, <3>4 DEF Offers, Stops, CompHasCurr
    <3>6. currMod' \in Nat
      BY DEF TypeOK
    <3>7. ~(currMod' < Len(comp'))
      BY <2>1, <3>1, <3>6
    <3> QED
      BY <2>1, <2>2, <3>3, <3>5, <3>7 DEF InModule
  <2>3. CASE comp # <<>>
    <3>0. currMod < Len(comp)
      <4>1. currMod <= Len(comp) /\ currMod # Len(comp)
        BY <2>1, <2>3 DEF InModule
      <4>2. currMod \in Nat /\ Len(comp) \in Nat
        BY <1>0
      <4> QED
        BY <4>1, <4>2
    <3>1. /\ currMod < Len(comp)
          /\ modIt.funcs = comp[currMod + 1].funcs
          /\ SkipsApply => modIt.skip = comp[currMod + 1].skip
          /\ modIt.skip \in {comp[m].skip : m \in DOMAIN comp}
      BY <2>3, <3>0 DEF InModule, FuncsOf
    <3>2. SkipsApply' <=> SkipsApply
      BY <2>1 DEF SkipsApply
    <3>3. CASE ToInstr \/ ToFunction
      <4>1. /\ currMod' = currMod /\ modIt'.funcs = modIt.funcs /\ modIt'.skip = modIt.skip
        BY <3>3 DEF ToInstr, ToFunction, SameModule
      <4>2. currMod < Len(comp) /\ currMod <= Len(comp) /\ currMod # Len(comp)
        <5>1. currMod \in Nat /\ Len(comp) \in Nat
          BY <1>0
        <5> QED
          BY <3>0, <5>1
      <4> QED
        BY <2>1, <2>3, <3>1, <3>2, <4>1, <4>2 DEF InModule, FuncsOf
    <3>4. CASE ToModule
      <4>1. /\ currMod' = currMod + 1
            /\ currMod + 1 < Len(comp) => AtStart(modIt', comp[currMod + 2])
            /\ ~(currMod + 1 < Len(comp)) => modIt' = modIt
        BY <3>4 DEF ToModule
      <4>2. /\ currMod' <= Len(comp) /\ currMod' \in Nat /\ currMod' + 1 = currMod + 2
            /\ currMod + 1 < Len(comp) => currMod + 2 \in DOMAIN comp
        BY <1>0, <3>1, <4>1
      <4>3. currMod' = Len(comp) => answer' = "none"
        BY <2>1 DEF Offers, Stops, CompHasCurr, End
      <4>4. modIt'.skip \in {comp[m].skip : m \in DOMAIN comp}
        BY <3>1, <4>1, <4>2 DEF AtStart
      <4>5. currMod' < Len(comp) => /\ modIt'.funcs = comp[currMod' + 1].funcs
                                    /\ modIt'.skip = comp[currMod' + 1].skip
        BY <4>1, <4>2 DEF AtStart
      <4> QED
        BY <2>1, <2>3, <4>2, <4>3, <4>4, <4>5 DEF InModule, FuncsOf
    <3> QED
      BY <2>1, <3>3, <3>4
  <2> QED
    BY <2>2, <2>3
<1>2. CASE Reset
  <2>1. comp' = comp /\ resets' \in 1 .. MaxResets /\ answer' = "start" /\ ToReset
    BY <1>2, ResetFacts
  <2>2. /\ comp # <<>> /\ currMod' = 0
        /\ modIt'.funcs = comp[1].funcs /\ modIt'.skip = modIt.skip
    BY <2>1 DEF ToReset
  <2>3. Len(comp) # 0
    BY <1>0, <2>2
  <2>4. modIt.skip \in {comp[m].skip : m \in DOMAIN comp}
    BY <2>2 DEF InModule
  <2>5. SkipsApply' => modIt.skip = comp[1].skip
    <3>1. resets' # 0
      BY <2>1
    <3> QED
      BY <2>1, <2>4, <3>1 DEF SkipsApply
  <2>6. currMod' <= Len(comp') /\ currMod' # Len(comp') /\ currMod' + 1 = 1
    BY <1>0, <2>1, <2>2, <2>3
  <2> QED
    BY <2>1, <2>2, <2>4, <2>5, <2>6 DEF InModule, FuncsOf
<1>3. CASE UNCHANGED vars
  BY <1>3 DEF vars, InModule, FuncsOf, SkipsApply
<1> QED
  BY <1>1, <1>2, <1>3 DEF Next
LEMMA AtRestInit == TypeOK /\ Init => AtRest
<1> SUFFICES ASSUME TypeOK, Init
             PROVE  AtRest
  OBVIOUS
<1>1. CASE comp = <<>>
  <2>1. modIt.funcs = <<>> /\ modIt.idx \in 0 .. Len(modIt.funcs)
    BY <1>1, InitFacts, ComponentFacts
  <2> QED
    BY <2>1 DEF AtRest
<1>2. CASE comp # <<>>
  <2>1. comp \in Seq(ModuleMetadata) /\ AtStart(modIt, comp[1])
    BY <1>2, InitFacts, ComponentFacts
  <2>2. comp[1] \in ModuleMetadata
    BY <1>2, <2>1
  <2> QED
    BY <2>1, <2>2, AtStartFacts DEF AtRest
<1> QED
  BY <1>1, <1>2

LEMMA AtRestNext == TypeOK /\ AtRest /\ [Next]_vars => AtRest'
<1> SUFFICES ASSUME TypeOK, AtRest, [Next]_vars
             PROVE  AtRest'
  OBVIOUS
<1>0. /\ comp \in Seq(ModuleMetadata) /\ Len(comp) \in Nat /\ currMod \in Nat
      /\ modIt.funcs \in Seq(FuncMetadata) /\ Len(modIt.funcs) \in Nat /\ modIt.idx \in Nat
      /\ \A m \in 1 .. Len(comp) : comp[m] \in ModuleMetadata
  BY ComponentFacts
<1>1. CASE ToInstr
  BY <1>1 DEF ToInstr, SameModule, AtRest
<1>2. CASE ToFunction
  <2>1. modIt.idx + 1 \in 0 .. Len(modIt.funcs)
    BY <1>0, <1>2 DEF ToFunction, HasNextFunction
  <2>2. \/ modIt'.idx = Len(modIt.funcs)
        \/ modIt.funcs[modIt'.idx + 1].fid \notin modIt.skip
    BY <1>0, <1>2, <2>1, HandleSkipsFacts DEF ToFunction
  <2> QED
    BY <1>2, <2>2 DEF ToFunction, SameModule, AtRest
<1>3. CASE ToModule
  <2>1. CASE currMod + 1 < Len(comp)
    <3>1. comp[currMod + 2] \in ModuleMetadata /\ AtStart(modIt', comp[currMod + 2])
      BY <1>0, <1>3, <2>1 DEF ToModule
    <3> QED
      BY <3>1, AtStartFacts DEF AtRest
  <2>2. CASE ~(currMod + 1 < Len(comp))
    BY <1>3, <2>2 DEF ToModule, AtRest
  <2> QED
    BY <2>1, <2>2
<1>4. CASE Reset
  <2>1. /\ comp # <<>> /\ modIt'.funcs = comp[1].funcs /\ modIt'.skip = modIt.skip
        /\ modIt'.idx = HandleSkips(comp[1].funcs, modIt.skip, 0)
    BY <1>4, ResetFacts DEF ToReset
  <2>2. comp[1].funcs \in Seq(FuncMetadata) /\ 0 \in 0 .. Len(comp[1].funcs)
    <3>1. comp[1] \in ModuleMetadata
      BY <1>0, <2>1
    <3> QED
      BY <3>1 DEF ModuleMetadata
  <2> QED
    BY <2>1, <2>2, HandleSkipsFacts DEF AtRest
<1>5. CASE UNCHANGED vars
  BY <1>5 DEF vars, AtRest
<1> QED
  BY <1>1, <1>2, <1>3, <1>4, <1>5, AdvanceFacts DEF Next

\* Before is a strict order of the locations.
LEMMA BeforeIsStrict ==
    ASSUME NEW a \in Nat \X Nat \X Nat
    PROVE  ~Before(a, a)
  BY DEF Before

LEMMA BeforeIsTransitive ==
    ASSUME NEW a \in Nat \X Nat \X Nat, NEW b \in Nat \X Nat \X Nat,
           NEW c \in Nat \X Nat \X Nat, Before(a, b), Before(b, c)
    PROVE  Before(a, c)
  BY DEF Before

LEMMA HereTyped == TypeOK => Here \in Nat \X Nat \X Nat
  BY ComponentFacts DEF Here

\* Every call of next moves the cursor on.
LEMMA AdvanceMoves ==
    ASSUME TypeOK, TypeOK', Advance
    PROVE  Before(Here, Here')
<1>0. /\ modIt.funcs \in Seq(FuncMetadata) /\ Len(modIt.funcs) \in Nat
      /\ modIt.idx \in Nat /\ modIt.instr \in Nat /\ currMod \in Nat
  BY ComponentFacts
<1>1. CASE ToInstr
  BY <1>0, <1>1 DEF ToInstr, SameModule, Before, Here
<1>2. CASE ToFunction
  <2>1. modIt.idx + 1 \in 0 .. Len(modIt.funcs)
    BY <1>0, <1>2 DEF ToFunction, HasNextFunction
  <2>2. modIt'.idx \in modIt.idx + 1 .. Len(modIt.funcs)
    BY <1>0, <1>2, <2>1, HandleSkipsFacts DEF ToFunction
  <2>3. modIt.idx < modIt'.idx
    BY <1>0, <2>2
  <2> QED
    BY <1>2, <2>3 DEF ToFunction, SameModule, Before, Here
<1>3. CASE ToModule
  BY <1>0, <1>3 DEF ToModule, Before, Here
<1> QED
  BY <1>1, <1>2, <1>3, AdvanceFacts

LEMMA BehindInit == TypeOK /\ Init => Behind
<1> SUFFICES ASSUME TypeOK, Init
             PROVE  Behind
  OBVIOUS
<1>1. visited \in SUBSET {Here}
  BY InitFacts
<1>2. ~Before(Here, Here)
  BY HereTyped, BeforeIsStrict
<1> QED
  BY <1>1, <1>2 DEF Behind

LEMMA BehindNext == TypeOK /\ TypeOK' /\ Behind /\ [Next]_vars => Behind'
<1> SUFFICES ASSUME TypeOK, TypeOK', Behind, [Next]_vars
             PROVE  Behind'
  OBVIOUS
<1>1. Here \in Nat \X Nat \X Nat /\ Here' \in Nat \X Nat \X Nat
  <2>1. Here' \in Nat \X Nat \X Nat
    BY DEF Here, TypeOK
  <2> QED
    BY <2>1, HereTyped
<1>2. ~Before(Here, Here)'
  <2>1. ~Before(Here', Here')
    BY <1>1, BeforeIsStrict
  <2> QED
    BY <2>1 DEF Before
<1>3. CASE Advance
  <2>1. visited' \in SUBSET (visited \cup {Here'})
    BY <1>3, AdvanceFacts DEF Offers, Stops
  <2>2. ASSUME NEW l \in visited
        PROVE  ~Before(Here', l)
    <3>1. l \in Nat \X Nat \X Nat /\ ~Before(Here, l)
      BY DEF TypeOK, Behind
    <3> QED
      BY <1>1, <1>3, <3>1, AdvanceMoves, BeforeIsTransitive
  <2> QED
    BY <1>2, <2>1, <2>2 DEF Behind
<1>4. CASE Reset
  <2>1. visited' \in SUBSET {Here'}
    BY <1>4, ResetFacts
  <2> QED
    BY <1>2, <2>1 DEF Behind
<1>5. CASE UNCHANGED vars
  BY <1>5 DEF vars, Behind, Here
<1> QED
  BY <1>3, <1>4, <1>5 DEF Next

\* No instruction is offered twice between two resets, on any component: next always moves
\* on in the order of modules, functions and instructions.
THEOREM OfferedOnceHolds == Spec => OfferedOnce
<1>1. TypeOK /\ TypeOK' /\ Behind /\ [Next]_vars =>
         [Advance /\ answer' = "some" => Here' \notin visited]_vars
  BY AdvanceMoves DEF Behind
<1>2. Spec => []TypeOK
  BY CursorTyped
<1>3. TypeOK /\ Init => Behind
  BY BehindInit
<1>4. TypeOK /\ TypeOK' /\ Behind /\ [Next]_vars => Behind'
  BY BehindNext
<1> QED
  BY <1>1, <1>2, <1>3, <1>4, PTL DEF Spec, OfferedOnce
(***************************************************************************)
(* What is offered is never skipped.                                       *)
(***************************************************************************)
\* The instruction the cursor is at, if there is one, is an instruction of a module of the
\* component, of a function that is not skipped.
LEMMA HereIsKept ==
    TypeOK /\ InModule /\ AtRest /\ CompHasCurr =>
        /\ currMod \in 0 .. Len(comp) - 1 /\ modIt.idx \in 0 .. Len(FuncsOf(currMod + 1)) - 1
        /\ modIt.funcs = FuncsOf(currMod + 1)
        /\ SkipsApply => ~Skipped(currMod + 1, modIt.idx + 1)
<1> SUFFICES ASSUME TypeOK, InModule, AtRest, CompHasCurr
             PROVE  /\ currMod \in 0 .. Len(comp) - 1
                    /\ modIt.idx \in 0 .. Len(FuncsOf(currMod + 1)) - 1
                    /\ modIt.funcs = FuncsOf(currMod + 1)
                    /\ SkipsApply => ~Skipped(currMod + 1, modIt.idx + 1)
  OBVIOUS
<1>1. /\ Len(comp) \in Nat /\ currMod \in Nat /\ modIt.idx \in Nat /\ Len(modIt.funcs) \in Nat
  BY ComponentFacts
<1>2. comp # <<>>
  BY NoModuleNoFunction DEF InModule, CompHasCurr
<1>3. currMod <= Len(comp) /\ currMod # Len(comp) /\ modIt.idx < Len(modIt.funcs)
  BY <1>2 DEF InModule, CompHasCurr, End, HasCurr
<1>4. currMod < Len(comp) /\ currMod \in 0 .. Len(comp) - 1
  BY <1>1, <1>3
<1>5. /\ modIt.funcs = FuncsOf(currMod + 1)
      /\ SkipsApply => modIt.skip = comp[currMod + 1].skip
  BY <1>4 DEF InModule
<1>6. modIt.idx \in 0 .. Len(modIt.funcs) - 1
  BY <1>1, <1>3
<1>7. modIt.funcs[modIt.idx + 1].fid \notin modIt.skip
  <2>1. modIt.idx # Len(modIt.funcs)
    BY <1>1, <1>3
  <2> QED
    BY <2>1 DEF AtRest
<1>8. SkipsApply => ~Skipped(currMod + 1, modIt.idx + 1)
  BY <1>5, <1>7 DEF Skipped
<1> QED
  BY <1>4, <1>5, <1>6, <1>8

LEMMA SkipsInit == TypeOK /\ InModule /\ AtRest /\ Init => SkipsRespected
<1> SUFFICES ASSUME TypeOK, InModule, AtRest, Init, SkipsApply, NEW l \in visited
             PROVE  ~Skipped(l[1] + 1, l[2] + 1)
  BY DEF SkipsRespected
<1>1. CompHasCurr /\ l = Here
  BY InitFacts
<1>2. ~Skipped(currMod + 1, modIt.idx + 1)
  BY <1>1, HereIsKept
<1> QED
  BY <1>1, <1>2 DEF Here

LEMMA SkipsNext ==
    TypeOK /\ (TypeOK /\ InModule /\ AtRest)' /\ SkipsRespected /\ [Next]_vars => SkipsRespected'
<1>1. (TypeOK /\ InModule /\ AtRest /\ CompHasCurr =>
          (SkipsApply => ~Skipped(currMod + 1, modIt.idx + 1)))'
  <2>1. TypeOK /\ InModule /\ AtRest /\ CompHasCurr =>
           (SkipsApply => ~Skipped(currMod + 1, modIt.idx + 1))
    BY HereIsKept
  <2> QED
    BY <2>1, PTL
<1> SUFFICES ASSUME TypeOK, (TypeOK /\ InModule /\ AtRest)', SkipsRespected, [Next]_vars,
                    SkipsApply', NEW l \in visited'
             PROVE  ~Skipped(l[1] + 1, l[2] + 1)'
  BY DEF SkipsRespected
<1>2. CompHasCurr' /\ l = Here' => ~Skipped(l[1] + 1, l[2] + 1)'
  <2> SUFFICES ASSUME CompHasCurr', l = Here'
               PROVE  ~Skipped(l[1] + 1, l[2] + 1)'
    OBVIOUS
  <2>1. ~Skipped(currMod + 1, modIt.idx + 1)'
    BY <1>1
  <2>2. l[1] = currMod' /\ l[2] = modIt'.idx
    BY DEF Here
  <2> QED
    BY <2>1, <2>2 DEF Skipped, FuncsOf
<1>3. CASE Advance
  <2>1. /\ comp' = comp /\ resets' = resets /\ (Offers \/ Stops)
    BY <1>3, AdvanceFacts
  <2>2. l \in visited \/ (CompHasCurr' /\ l = Here')
    BY <2>1 DEF Offers, Stops
  <2>3. CASE l \in visited
    <3>1. SkipsApply
      BY <2>1 DEF SkipsApply
    <3>2. ~Skipped(l[1] + 1, l[2] + 1)
      BY <2>3, <3>1 DEF SkipsRespected
    <3> QED
      BY <2>1, <3>2 DEF Skipped, FuncsOf
  <2> QED
    BY <1>2, <2>2, <2>3
<1>4. CASE Reset
  <2>1. CompHasCurr' /\ l = Here'
    BY <1>4, ResetFacts
  <2> QED
    BY <1>2, <2>1
<1>5. CASE UNCHANGED vars
  <2>1. l \in visited /\ SkipsApply /\ comp' = comp
    BY <1>5 DEF vars, SkipsApply
  <2>2. ~Skipped(l[1] + 1, l[2] + 1)
    BY <2>1 DEF SkipsRespected
  <2> QED
    BY <2>1, <2>2 DEF Skipped, FuncsOf
<1> QED
  BY <1>3, <1>4, <1>5 DEF Next

\* The module sub-iterator is always the one of the module the cursor is in, and rests on a
\* function that its skip list does not name.
LEMMA CursorPlaced == Spec => [](TypeOK /\ InModule /\ AtRest)
<1>1. Init => TypeOK /\ InModule /\ AtRest
  BY TypeInit, InModuleInit, AtRestInit
<1>2. TypeOK /\ InModule /\ AtRest /\ [Next]_vars => (TypeOK /\ InModule /\ AtRest)'
  BY TypeNext, InModuleNext, AtRestNext
<1> QED
  BY <1>1, <1>2, PTL DEF Spec

\* No instruction of a function the caller asked to skip is ever offered.
THEOREM SkipsRespectedHolds == Spec => []SkipsRespected
<1>1. Spec => [](TypeOK /\ InModule /\ AtRest)
  BY CursorPlaced
<1>2. TypeOK /\ InModule /\ AtRest /\ Init => SkipsRespected
  BY SkipsInit
<1>3. TypeOK /\ (TypeOK /\ InModule /\ AtRest)' /\ SkipsRespected /\ [Next]_vars => SkipsRespected'
  BY SkipsNext
<1> QED
  BY <1>1, <1>2, <1>3, PTL DEF Spec
(***************************************************************************)
(* What is offered is everything kept up to the cursor.                    *)
(***************************************************************************)
KeptAt(m, p, i) ==
    /\ m \in 0 .. Len(comp) - 1 /\ p \in 0 .. Len(FuncsOf(m + 1)) - 1
    /\ i \in 0 .. FuncsOf(m + 1)[p + 1].len - 1
    /\ ~Skipped(m + 1, p + 1)

LEMMA KeptFacts ==
    ASSUME TypeOK
    PROVE  /\ \A l \in Kept : /\ l \in Nat \X Nat \X Nat
                              /\ KeptAt(l[1], l[2], l[3])
           /\ \A m, p, i : KeptAt(m, p, i) => <<m, p, i>> \in Kept
<1>0. /\ Len(comp) \in Nat
      /\ \A m \in 1 .. Len(comp) : /\ FuncsOf(m) \in Seq(FuncMetadata)
                                   /\ Len(FuncsOf(m)) \in Nat
  BY ComponentFacts
<1>1. ASSUME NEW l \in Kept
      PROVE  l \in Nat \X Nat \X Nat /\ KeptAt(l[1], l[2], l[3])
  <2>1. PICK m \in 0 .. Len(comp) - 1 : l \in Instructions(m)
    BY DEF Kept
  <2> DEFINE funcs == FuncsOf(m + 1)
  <2>2. PICK q \in DOMAIN funcs, i \in Int :
           /\ i \in 0 .. funcs[q].len - 1 /\ l = <<m, q - 1, i>>
           /\ ~Skipped(m + 1, q)
    BY <2>1 DEF Instructions, Location, FuncsOf, Skipped
  <2>3. m \in Nat /\ m + 1 \in 1 .. Len(comp)
    BY <1>0
  <2>4. funcs \in Seq(FuncMetadata) /\ Len(funcs) \in Nat
    BY <1>0, <2>3
  <2> HIDE DEF funcs
  <2>5. q \in 1 .. Len(funcs) /\ q - 1 \in 0 .. Len(funcs) - 1 /\ q - 1 + 1 = q
    BY <2>4
  <2>6. funcs[q] \in FuncMetadata
    BY <2>4, <2>5
  <2>7. i \in Nat
    BY <2>2, <2>6 DEF FuncMetadata
  <2>8. l \in Nat \X Nat \X Nat
    BY <2>2, <2>3, <2>5, <2>7
  <2>9. KeptAt(m, q - 1, i)
    BY <2>2, <2>5 DEF KeptAt, funcs
  <2> QED
    BY <2>2, <2>8, <2>9
<1>2. ASSUME NEW m, NEW p, NEW i, KeptAt(m, p, i)
      PROVE  <<m, p, i>> \in Kept
  <2> DEFINE funcs == FuncsOf(m + 1)
  <2>1. m \in 0 .. Len(comp) - 1 /\ m + 1 \in 1 .. Len(comp)
    BY <1>0, <1>2 DEF KeptAt
  <2>2. funcs \in Seq(FuncMetadata) /\ Len(funcs) \in Nat
    BY <1>0, <2>1
  <2>3. p \in 0 .. Len(funcs) - 1 /\ i \in 0 .. funcs[p + 1].len - 1 /\ ~Skipped(m + 1, p + 1)
    BY <1>2 DEF KeptAt
  <2> HIDE DEF funcs
  <2> DEFINE q == p + 1
  <2>4. q \in DOMAIN funcs /\ q - 1 = p
    BY <2>2, <2>3
  <2>5. i \in 0 .. funcs[q].len - 1 /\ ~Skipped(m + 1, q)
    BY <2>3
  <2> HIDE DEF q
  <2>6. <<m, p, i>> \in {Location(m, q - 1, j) : j \in 0 .. funcs[q].len - 1}
    BY <2>4, <2>5 DEF Location
  <2>7. q \in {r \in DOMAIN comp[m + 1].funcs : comp[m + 1].funcs[r].fid \notin comp[m + 1].skip}
    BY <2>4, <2>5 DEF funcs, FuncsOf, Skipped
  <2>8. <<m, p, i>> \in Instructions(m)
    BY <2>6, <2>7 DEF Instructions, funcs, FuncsOf
  <2> QED
    BY <2>1, <2>8 DEF Kept
<1> QED
  BY <1>1, <1>2

\* What comes up to the start of the functions of a module that are not skipped is in an
\* earlier module, or that start.
LEMMA KeptFromStart ==
    ASSUME TypeOK, NEW c \in Nat, NEW j \in Nat,
           c < Len(comp) =>
               \A k \in 0 .. j - 1 : k < Len(FuncsOf(c + 1)) => Skipped(c + 1, k + 1),
           NEW l \in Kept, ~Before(<<c, j, 0>>, l)
    PROVE  l[1] < c \/ l = <<c, j, 0>>
<1>1. l \in Nat \X Nat \X Nat /\ KeptAt(l[1], l[2], l[3])
  BY KeptFacts
<1>2. l = <<l[1], l[2], l[3]>> /\ l[1] \in Nat /\ l[2] \in Nat /\ l[3] \in Nat
  BY <1>1
<1>3. CASE l[1] = c
  <2>1. /\ c \in 0 .. Len(comp) - 1 /\ l[2] \in 0 .. Len(FuncsOf(c + 1)) - 1
        /\ ~Skipped(c + 1, l[2] + 1)
    BY <1>1, <1>3 DEF KeptAt
  <2>2. c < Len(comp) /\ l[2] < Len(FuncsOf(c + 1))
    <3>1. Len(comp) \in Nat /\ c + 1 \in 1 .. Len(comp)
      BY <2>1, ComponentFacts
    <3>2. Len(FuncsOf(c + 1)) \in Nat
      BY <3>1, ComponentFacts
    <3> QED
      BY <2>1, <3>1, <3>2
  <2>3. l[2] \notin 0 .. j - 1
    BY <2>1, <2>2
  <2>4. ~(l[2] < j)
    BY <1>2, <2>3
  <2>5. l[2] = j /\ l[3] = 0
    BY <1>2, <1>3, <2>4 DEF Before
  <2> QED
    BY <1>2, <1>3, <2>5
<1>4. CASE l[1] # c
  <2>1. ~(c < l[1])
    BY DEF Before
  <2> QED
    BY <1>2, <1>4, <2>1
<1> QED
  BY <1>3, <1>4

\* After the last instruction of a function, everything kept up to that function is behind.
LEMMA NothingLeft ==
    ASSUME TypeOK, InModule, Counted, ~FuncHasNext(modIt),
           NEW l \in Kept, l[1] <= currMod, l[1] = currMod => l[2] <= modIt.idx
    PROVE  ~Before(Here, l)
<1>1. l \in Nat \X Nat \X Nat /\ KeptAt(l[1], l[2], l[3])
  BY KeptFacts
<1>2. l[1] \in Nat /\ l[2] \in Nat /\ l[3] \in Nat
  BY <1>1
<1>3. /\ Len(comp) \in Nat /\ currMod \in Nat /\ modIt.idx \in Nat /\ Len(modIt.funcs) \in Nat
      /\ modIt.instr \in Nat /\ modIt.num \in Nat
  BY ComponentFacts
<1>4. CASE l[1] = currMod /\ l[2] = modIt.idx
  <2>1. currMod < Len(comp) /\ currMod + 1 \in 1 .. Len(comp)
    BY <1>1, <1>3, <1>4 DEF KeptAt
  <2>2. modIt.funcs = FuncsOf(currMod + 1)
    BY <2>1 DEF InModule
  <2>3. /\ modIt.idx \in 0 .. Len(modIt.funcs) - 1
        /\ l[3] \in 0 .. modIt.funcs[modIt.idx + 1].len - 1
    BY <1>1, <1>4, <2>2 DEF KeptAt
  <2>4. HasCurr(modIt)
    BY <1>3, <2>3 DEF HasCurr
  <2>5. modIt.num = modIt.funcs[modIt.idx + 1].len
    BY <2>1, <2>4 DEF Counted, CurrFunc
  <2>6. ~(modIt.instr < l[3])
    <3> DEFINE n == modIt.num
               i == modIt.instr
               x == l[3]
    <3>1. n \in Nat /\ i \in Nat /\ x \in Nat /\ ~(i + 1 < n)
      BY <1>2, <1>3 DEF FuncHasNext
    <3>2. x \in 0 .. n - 1
      BY <2>3, <2>5
    <3> HIDE DEF n, i, x
    <3>3. ~(i < x)
      BY <3>1, <3>2
    <3> QED
      BY <3>3 DEF i, x
  <2> QED
    BY <1>2, <1>3, <1>4, <2>6 DEF Before, Here
<1>5. CASE ~(l[1] = currMod /\ l[2] = modIt.idx)
  BY <1>2, <1>3, <1>5 DEF Before, Here
<1> QED
  BY <1>4, <1>5
\* Where no module starts with a skipped function, a module starts at its first function.
LEMMA RegularStart ==
    ASSUME TypeOK, Regular, NEW c \in 1 .. Len(comp), NEW it, AtStart(it, comp[c])
    PROVE  /\ it.idx = 0 /\ it.funcs = FuncsOf(c)
           /\ HasCurr(it) <=> FuncsOf(c) # <<>>
           /\ IF HasCurr(it) THEN it.instr < it.num /\ it.num = CurrFunc(it).len
                             ELSE ~FuncHasNext(it)
<1>1. /\ comp[c] \in ModuleMetadata /\ FuncsOf(c) = comp[c].funcs /\ c \in DOMAIN comp
      /\ comp[c].funcs \in Seq(FuncMetadata) /\ Len(comp[c].funcs) \in Nat
  BY ComponentFacts
<1>2. /\ it.idx \in Nat /\ it.idx \in 0 .. Len(it.funcs)
      /\ \A k \in 0 .. it.idx - 1 : it.funcs[k + 1].fid \in it.skip
      /\ it.funcs = comp[c].funcs /\ it.skip = comp[c].skip /\ it.instr = 0
      /\ it.num = IF comp[c].funcs = <<>> THEN 0 ELSE comp[c].funcs[1].len
  BY <1>1, AtStartFacts DEF AtStart
<1>3. CASE comp[c].funcs = <<>>
  <2>1. it.idx = 0 /\ ~HasCurr(it) /\ ~FuncHasNext(it)
    BY <1>2, <1>3 DEF HasCurr, FuncHasNext
  <2> QED
    BY <1>1, <1>2, <1>3, <2>1
<1>4. CASE comp[c].funcs # <<>>
  <2>1. ~Skipped(c, 1)
    BY <1>1, <1>4 DEF Regular
  <2>2. 0 \notin 0 .. it.idx - 1
    BY <1>1, <1>2, <2>1 DEF Skipped
  <2>3. it.idx = 0
    BY <1>2, <2>2
  <2>4. 0 < Len(comp[c].funcs) /\ 1 \in 1 .. Len(comp[c].funcs)
    BY <1>1, <1>4
  <2>5. HasCurr(it) /\ CurrFunc(it) = comp[c].funcs[1]
    BY <1>2, <2>3, <2>4 DEF HasCurr, CurrFunc
  <2>6. comp[c].funcs[1] \in FuncMetadata
    BY <1>1, <2>4
  <2>7. it.instr < it.num
    BY <1>2, <1>4, <2>6 DEF FuncMetadata
  <2> QED
    BY <1>1, <1>2, <1>4, <2>3, <2>5, <2>7
<1> QED
  BY <1>3, <1>4

LEMMA CountedReset ==
    ASSUME TypeOK, TypeOK', Reset
    PROVE  Counted'
<1>0. /\ comp \in Seq(ModuleMetadata) /\ comp # <<>> /\ modIt'.funcs = comp[1].funcs
      /\ modIt'.instr = 0 /\ modIt'.num = CurrFunc(modIt').len
  BY ComponentFacts, ResetFacts DEF ToReset
<1>1. CASE HasCurr(modIt')
  <2>1. comp[1] \in ModuleMetadata
    BY <1>0
  <2>2. modIt'.funcs \in Seq(FuncMetadata) /\ Len(modIt'.funcs) \in Nat
    BY <1>0, <2>1 DEF ModuleMetadata
  <2>3. modIt'.idx \in 0 .. Len(modIt'.funcs)
    BY <2>2 DEF TypeOK
  <2>4. CurrFunc(modIt') \in FuncMetadata
    BY <1>1, <2>2, <2>3, CurrFuncTyped
  <2>5. modIt'.instr < modIt'.num
    BY <1>0, <2>4 DEF FuncMetadata
  <2> QED
    BY <1>0, <1>1, <2>5 DEF Counted
<1>2. CASE ~HasCurr(modIt')
  <2>1. CurrFunc(modIt') = [fid |-> 0, len |-> 0]
    BY <1>2, Zenon DEF CurrFunc
  <2>2. modIt'.num = 0
    BY <1>0, <2>1
  <2>3. ~FuncHasNext(modIt')
    BY <1>0, <2>2 DEF FuncHasNext
  <2> QED
    BY <1>2, <2>3 DEF Counted
<1> QED
  BY <1>1, <1>2

\* The instruction counted for the function the cursor rests on is that function's.
LEMMA CountedNext ==
    ASSUME TypeOK, TypeOK', InModule, InModule', Counted, Regular, SkipsApply', [Next]_vars
    PROVE  Counted'
<1>0. /\ Len(comp) \in Nat /\ currMod \in Nat /\ modIt.idx \in Nat /\ Len(modIt.funcs) \in Nat
      /\ modIt.funcs \in Seq(FuncMetadata) /\ modIt.instr \in Nat /\ modIt.num \in Nat
      /\ \A m \in 1 .. Len(comp) : comp[m] \in ModuleMetadata /\ m \in DOMAIN comp
      /\ comp \in Seq(ModuleMetadata)
  BY ComponentFacts
<1>a. modIt'.idx \in Nat /\ modIt'.instr \in Nat /\ modIt'.num \in Nat
  BY DEF TypeOK
<1>1. CASE Advance /\ comp = <<>>
  <2>1. comp' = comp /\ Len(comp) = 0 /\ currMod' \in Nat
    BY <1>1, AdvanceFacts DEF TypeOK
  <2> QED
    BY <2>1 DEF Counted
<1>2. CASE Advance /\ comp # <<>>
  <2>1. /\ comp' = comp /\ resets' = resets /\ answer \in {"start", "some"}
        /\ ToInstr \/ ToFunction \/ ToModule
    BY <1>2, AdvanceFacts
  <2>2. currMod < Len(comp)
    <3>1. currMod <= Len(comp) /\ currMod # Len(comp)
      BY <1>2, <2>1 DEF InModule
    <3> QED
      BY <1>0, <3>1
  <2>3. CASE ToInstr
    <3>1. HasCurr(modIt) /\ modIt.num = CurrFunc(modIt).len
      BY <2>2, <2>3 DEF ToInstr, Counted
    <3>2. /\ modIt'.idx = modIt.idx /\ modIt'.funcs = modIt.funcs
          /\ modIt'.num = modIt.num /\ modIt'.instr < modIt'.num
      BY <1>0, <2>3 DEF ToInstr, SameModule, FuncHasNext
    <3>3. HasCurr(modIt)' /\ CurrFunc(modIt)' = CurrFunc(modIt)
      BY <3>1, <3>2 DEF HasCurr, CurrFunc
    <3> QED
      BY <3>1, <3>2, <3>3 DEF Counted
  <2>4. CASE ToFunction
    <3>1. modIt'.funcs = modIt.funcs
      BY <2>4 DEF ToFunction, SameModule
    <3>2. CASE modIt'.idx < Len(modIt.funcs)
      <4>1. HasCurr(modIt)' /\ CurrFunc(modIt)' = modIt.funcs[modIt'.idx + 1]
        BY <3>1, <3>2 DEF HasCurr, CurrFunc
      <4>2. modIt'.idx + 1 \in 1 .. Len(modIt.funcs)
        BY <1>0, <1>a, <3>2
      <4>3. modIt.funcs[modIt'.idx + 1] \in FuncMetadata
        BY <1>0, <4>2
      <4>4. modIt'.instr = 0 /\ modIt'.num = modIt.funcs[modIt'.idx + 1].len
        BY <2>4, <3>2 DEF ToFunction
      <4>5. modIt'.instr < modIt'.num
        BY <4>3, <4>4 DEF FuncMetadata
      <4> QED
        BY <4>1, <4>4, <4>5 DEF Counted
    <3>3. CASE ~(modIt'.idx < Len(modIt.funcs))
      <4>1. ~HasCurr(modIt)'
        BY <3>1, <3>3 DEF HasCurr
      <4>2. ~FuncHasNext(modIt)'
        BY <2>4, <3>3 DEF ToFunction, FuncHasNext
      <4> QED
        BY <4>1, <4>2 DEF Counted
    <3> QED
      BY <3>2, <3>3
  <2>5. CASE ToModule
    <3> SUFFICES ASSUME currMod' < Len(comp)
                 PROVE  Counted'
      BY <2>1 DEF Counted
    <3>1. currMod' = currMod + 1 /\ AtStart(modIt', comp[currMod + 2])
      BY <2>5 DEF ToModule
    <3> DEFINE c == currMod + 2
    <3>2. c \in 1 .. Len(comp)
      BY <1>0, <3>1
    <3>3. /\ HasCurr(modIt') => modIt'.instr < modIt'.num /\ modIt'.num = CurrFunc(modIt').len
          /\ ~HasCurr(modIt') => ~FuncHasNext(modIt')
      BY <3>1, <3>2, RegularStart
    <3> QED
      BY <3>3 DEF Counted
  <2> QED
    BY <2>1, <2>3, <2>4, <2>5
<1>3. CASE Reset
  BY <1>3, CountedReset
<1>4. CASE UNCHANGED vars
  BY <1>4 DEF vars, Counted
<1> QED
  BY <1>1, <1>2, <1>3, <1>4 DEF Next
LEMMA HereInKept ==
    TypeOK /\ InModule /\ AtRest /\ Counted /\ SkipsApply /\ CompHasCurr => Here \in Kept
<1> SUFFICES ASSUME TypeOK, InModule, AtRest, Counted, SkipsApply, CompHasCurr
             PROVE  Here \in Kept
  OBVIOUS
<1>1. /\ currMod \in 0 .. Len(comp) - 1 /\ modIt.idx \in 0 .. Len(FuncsOf(currMod + 1)) - 1
      /\ modIt.funcs = FuncsOf(currMod + 1) /\ ~Skipped(currMod + 1, modIt.idx + 1)
  BY HereIsKept
<1>2. /\ Len(comp) \in Nat /\ currMod \in Nat /\ modIt.instr \in Nat /\ modIt.num \in Nat
  BY ComponentFacts
<1>3. currMod < Len(comp) /\ HasCurr(modIt)
  BY <1>1, <1>2 DEF CompHasCurr
<1>4. modIt.instr < modIt.num /\ modIt.num = modIt.funcs[modIt.idx + 1].len
  BY <1>3 DEF Counted, CurrFunc
<1>5. modIt.instr \in 0 .. FuncsOf(currMod + 1)[modIt.idx + 1].len - 1
  BY <1>1, <1>2, <1>4
<1>6. KeptAt(currMod, modIt.idx, modIt.instr)
  BY <1>1, <1>5 DEF KeptAt
<1> QED
  BY <1>6, KeptFacts DEF Here

\* A call of next leaves nothing out: what comes up to the new location came up to the old
\* one, or is the new one.
LEMMA NothingBetween ==
    ASSUME TypeOK, TypeOK', InModule, InModule', Counted, SkipsApply, Advance,
           NEW l \in Kept, ~Before(Here', l)
    PROVE  ~Before(Here, l) \/ (CompHasCurr' /\ l = Here')
<1>0. /\ Len(comp) \in Nat /\ currMod \in Nat /\ modIt.idx \in Nat /\ Len(modIt.funcs) \in Nat
      /\ modIt.funcs \in Seq(FuncMetadata) /\ modIt.instr \in Nat
  BY ComponentFacts
<1>a. /\ l = <<l[1], l[2], l[3]>> /\ l[1] \in Nat /\ l[2] \in Nat /\ l[3] \in Nat
      /\ KeptAt(l[1], l[2], l[3])
  <2>1. l \in Nat \X Nat \X Nat /\ KeptAt(l[1], l[2], l[3])
    BY KeptFacts
  <2> QED
    BY <2>1
<1>b. comp' = comp /\ (ToInstr \/ ToFunction \/ ToModule) /\ answer \in {"start", "some"}
  BY AdvanceFacts
<1>c. currMod < Len(comp)
  <2>1. l[1] \in 0 .. Len(comp) - 1
    BY <1>a DEF KeptAt
  <2>2. comp # <<>>
    BY <1>0, <2>1
  <2>3. currMod <= Len(comp) /\ currMod # Len(comp)
    BY <1>b, <2>2 DEF InModule
  <2> QED
    BY <1>0, <2>3
<1>d. modIt.funcs = FuncsOf(currMod + 1) /\ modIt.skip = comp[currMod + 1].skip
  BY <1>c DEF InModule
<1>e. l[1] = currMod => /\ l[2] \in 0 .. Len(modIt.funcs) - 1
                        /\ ~(modIt.funcs[l[2] + 1].fid \in modIt.skip)
  BY <1>a, <1>d DEF KeptAt, Skipped
<1>1. CASE ToInstr
  <2>1. /\ HasCurr(modIt) /\ currMod' = currMod /\ modIt'.idx = modIt.idx
        /\ modIt'.instr = modIt.instr + 1 /\ modIt'.funcs = modIt.funcs
    BY <1>1, <1>c DEF ToInstr, SameModule, Counted
  <2>2. CompHasCurr'
    <3>1. currMod # Len(comp)
      BY <1>0, <1>c
    <3>2. ~End'
      BY <1>b, <2>1, <3>1 DEF End
    <3>3. HasCurr(modIt')
      BY <2>1 DEF HasCurr
    <3> QED
      BY <3>2, <3>3 DEF CompHasCurr
  <2>3. Here' = <<currMod, modIt.idx, modIt.instr + 1>>
    BY <2>1 DEF Here
  <2>4. ~Before(Here, l) \/ (l[1] = currMod /\ l[2] = modIt.idx /\ l[3] = modIt.instr + 1)
    BY <1>0, <1>a, <2>3 DEF Here, Before
  <2> QED
    BY <1>a, <2>2, <2>3, <2>4
<1>2. CASE ToFunction
  <2>1. /\ ~FuncHasNext(modIt) /\ currMod' = currMod /\ modIt'.funcs = modIt.funcs
        /\ modIt'.idx = HandleSkips(modIt.funcs, modIt.skip, modIt.idx + 1)
        /\ modIt'.idx < Len(modIt.funcs) => modIt'.instr = 0
    BY <1>2 DEF ToFunction, SameModule
  <2>2. modIt.idx + 1 \in 0 .. Len(modIt.funcs)
    BY <1>0, <1>2 DEF ToFunction, HasNextFunction
  <2>3. /\ modIt'.idx \in modIt.idx + 1 .. Len(modIt.funcs)
        /\ \A k \in modIt.idx + 1 .. modIt'.idx - 1 : modIt.funcs[k + 1].fid \in modIt.skip
    BY <1>0, <2>1, <2>2, HandleSkipsFacts
  <2>4. CASE l[1] <= currMod /\ (l[1] = currMod => l[2] <= modIt.idx)
    BY <2>1, <2>4, NothingLeft
  <2>5. CASE ~(l[1] <= currMod /\ (l[1] = currMod => l[2] <= modIt.idx))
    <3>1. Here' = <<currMod, modIt'.idx, modIt'.instr>>
      BY <2>1 DEF Here
    <3>2. l[1] <= currMod
      BY <1>0, <1>a, <3>1 DEF Before
    <3>3. l[1] = currMod /\ modIt.idx + 1 <= l[2]
      BY <1>0, <1>a, <2>5, <3>2
    <3>4. l[2] \notin modIt.idx + 1 .. modIt'.idx - 1
      BY <1>e, <2>3, <3>3
    <3>5. ~(l[2] < modIt'.idx)
      BY <1>0, <1>a, <2>3, <3>3, <3>4
    <3>6. ~(modIt'.idx < l[2])
      BY <3>1, <3>3 DEF Before
    <3>7. l[2] = modIt'.idx
      BY <1>0, <1>a, <2>3, <3>5, <3>6
    <3>8. modIt'.idx < Len(modIt.funcs)
      BY <1>0, <1>e, <3>3, <3>7
    <3>9. l[3] = 0 /\ modIt'.instr = 0
      BY <1>a, <2>1, <3>1, <3>3, <3>7, <3>8 DEF Before
    <3>10. l = Here'
      BY <1>a, <3>1, <3>3, <3>7, <3>9
    <3>11. CompHasCurr'
      <4>1. currMod # Len(comp)
        BY <1>0, <1>c
      <4>2. ~End'
        BY <1>b, <2>1, <4>1 DEF End
      <4>3. HasCurr(modIt')
        BY <2>1, <3>8 DEF HasCurr
      <4> QED
        BY <4>2, <4>3 DEF CompHasCurr
    <3> QED
      BY <3>10, <3>11
  <2> QED
    BY <2>4, <2>5
<1>3. CASE ToModule
  <2>1. /\ ~FuncHasNext(modIt) /\ ~HasNextFunction(modIt) /\ currMod' = currMod + 1
        /\ currMod + 1 < Len(comp) => AtStart(modIt', comp[currMod + 2])
    BY <1>3 DEF ToModule
  <2>2. ASSUME l[1] < currMod + 1
        PROVE  ~Before(Here, l)
    <3>1. l[1] <= currMod
      BY <1>0, <1>a, <2>2
    <3>2. l[1] = currMod => l[2] <= modIt.idx
      BY <1>0, <1>a, <1>e, <2>1 DEF HasNextFunction
    <3> QED
      BY <2>1, <3>1, <3>2, NothingLeft
  <2>3. CASE currMod + 1 < Len(comp)
    <3> DEFINE c == currMod + 2
    <3>1. c \in 1 .. Len(comp) /\ currMod + 1 \in Nat /\ currMod + 1 + 1 = c
      BY <1>0, <2>3
    <3>2. comp[c] \in ModuleMetadata /\ FuncsOf(c) = comp[c].funcs
      BY <3>1, ComponentFacts
    <3>3. AtStart(modIt', comp[c])
      BY <2>1, <2>3
    <3> HIDE DEF c
    <3>4. /\ modIt'.idx \in Nat /\ modIt'.instr = 0
          /\ \A k \in 0 .. modIt'.idx - 1 : comp[c].funcs[k + 1].fid \in comp[c].skip
      BY <3>2, <3>3, AtStartFacts
    <3>5. \A k \in 0 .. modIt'.idx - 1 : Skipped(c, k + 1)
      BY <3>2, <3>4 DEF Skipped
    <3>6. Here' = <<currMod + 1, modIt'.idx, 0>>
      BY <2>1, <3>4 DEF Here
    <3>7. l[1] < currMod + 1 \/ l = Here'
      <4>1. ~Before(<<currMod + 1, modIt'.idx, 0>>, l)
        BY <3>6
      <4> QED
        BY <3>1, <3>4, <3>5, <3>6, <4>1, KeptFromStart
    <3>8. l = Here' => CompHasCurr'
      <4> SUFFICES ASSUME l = Here'
                   PROVE  CompHasCurr'
        OBVIOUS
      <4>1. l[1] = currMod + 1 /\ l[2] = modIt'.idx
        BY <3>6
      <4>2. modIt'.idx \in 0 .. Len(FuncsOf(c)) - 1
        BY <1>a, <3>1, <4>1 DEF KeptAt
      <4>3. modIt'.funcs = FuncsOf(c) /\ Len(FuncsOf(c)) \in Nat
        BY <3>1, <3>2, <3>3, ComponentFacts DEF AtStart
      <4>4. HasCurr(modIt')
        BY <3>4, <4>2, <4>3 DEF HasCurr
      <4>5. currMod + 1 # Len(comp)
        BY <1>0, <2>3
      <4>6. ~End'
        BY <1>b, <2>1, <4>5 DEF End
      <4> QED
        BY <4>4, <4>6 DEF CompHasCurr
    <3> QED
      BY <2>2, <3>7, <3>8
  <2>4. CASE ~(currMod + 1 < Len(comp))
    <3>1. l[1] < currMod + 1
      BY <1>0, <1>a, <2>4 DEF KeptAt
    <3> QED
      BY <2>2, <3>1
  <2> QED
    BY <2>3, <2>4
<1> QED
  BY <1>b, <1>1, <1>2, <1>3
\* At the start, and after a reset, what is offered is what comes up to the cursor.
StartPlaced ==
    /\ currMod = 0 /\ modIt.instr = 0
    /\ comp # <<>> => \A k \in 0 .. modIt.idx - 1 : modIt.funcs[k + 1].fid \in modIt.skip
    /\ visited = IF CompHasCurr THEN {Here} ELSE {}

LEMMA VisitedAtStart ==
    TypeOK /\ InModule /\ AtRest /\ Counted /\ SkipsApply /\ StartPlaced =>
        visited = {l \in Kept : ~Before(Here, l)}
<1> SUFFICES ASSUME TypeOK, InModule, AtRest, Counted, SkipsApply, StartPlaced
             PROVE  visited = {l \in Kept : ~Before(Here, l)}
  OBVIOUS
<1>0. /\ Len(comp) \in Nat /\ modIt.idx \in Nat /\ Len(modIt.funcs) \in Nat
      /\ currMod = 0 /\ modIt.instr = 0 /\ Here = <<0, modIt.idx, 0>>
  BY ComponentFacts DEF StartPlaced, Here
<1>1. ASSUME NEW l \in Kept, ~Before(Here, l)
      PROVE  CompHasCurr /\ l = Here
  <2>1. l \in Nat \X Nat \X Nat /\ KeptAt(l[1], l[2], l[3])
    BY KeptFacts
  <2>2. 0 < Len(comp) /\ comp # <<>>
    BY <1>0, <2>1 DEF KeptAt
  <2>3. modIt.funcs = FuncsOf(1) /\ modIt.skip = comp[1].skip
    BY <1>0, <2>2 DEF InModule
  <2>4. \A k \in 0 .. modIt.idx - 1 : Skipped(1, k + 1)
    BY <2>2, <2>3 DEF StartPlaced, Skipped
  <2>5. 0 + 1 = 1 /\ ~Before(<<0, modIt.idx, 0>>, l)
    BY <1>0, <1>1
  <2>6. l[1] < 0 \/ l = <<0, modIt.idx, 0>>
    BY <1>0, <2>4, <2>5, KeptFromStart
  <2>7. l = Here
    BY <1>0, <2>1, <2>6
  <2>8. modIt.idx \in 0 .. Len(FuncsOf(1)) - 1
    BY <1>0, <2>1, <2>7 DEF KeptAt
  <2>9. HasCurr(modIt) /\ ~End
    BY <1>0, <2>2, <2>3, <2>8 DEF HasCurr, End
  <2> QED
    BY <2>7, <2>9 DEF CompHasCurr
<1>2. CompHasCurr => Here \in Kept /\ ~Before(Here, Here)
  BY HereInKept, HereTyped, BeforeIsStrict
<1>3. CASE CompHasCurr
  <2>1. visited = {Here}
    BY <1>3 DEF StartPlaced
  <2> QED
    BY <1>1, <1>2, <1>3, <2>1
<1>4. CASE ~CompHasCurr
  <2>1. visited = {}
    BY <1>4 DEF StartPlaced
  <2> QED
    BY <1>1, <1>4, <2>1
<1> QED
  BY <1>3, <1>4

LEMMA StartPlacedInit == TypeOK /\ Init => StartPlaced
<1> SUFFICES ASSUME TypeOK, Init
             PROVE  StartPlaced
  OBVIOUS
<1>1. currMod = 0 /\ visited = IF CompHasCurr THEN {Here} ELSE {}
  BY InitFacts
<1>2. modIt.instr = 0
  BY DEF Init, ModNew
<1>3. comp # <<>> => \A k \in 0 .. modIt.idx - 1 : modIt.funcs[k + 1].fid \in modIt.skip
  <2> SUFFICES ASSUME comp # <<>>
               PROVE  \A k \in 0 .. modIt.idx - 1 : modIt.funcs[k + 1].fid \in modIt.skip
    OBVIOUS
  <2>1. AtStart(modIt, comp[1]) /\ comp \in Seq(ModuleMetadata)
    BY InitFacts, ComponentFacts
  <2>2. comp[1] \in ModuleMetadata
    BY <2>1
  <2> QED
    BY <2>1, <2>2, AtStartFacts
<1> QED
  BY <1>1, <1>2, <1>3 DEF StartPlaced

LEMMA StartPlacedReset == TypeOK /\ Reset => StartPlaced'
<1> SUFFICES ASSUME TypeOK, Reset
             PROVE  StartPlaced'
  OBVIOUS
<1>1. /\ comp # <<>> /\ currMod' = 0 /\ modIt'.instr = 0
      /\ modIt'.funcs = comp[1].funcs /\ modIt'.skip = modIt.skip
      /\ modIt'.idx = HandleSkips(comp[1].funcs, modIt.skip, 0)
      /\ visited' = IF CompHasCurr' THEN {Here'} ELSE {}
  BY ResetFacts DEF ToReset
<1>2. comp[1].funcs \in Seq(FuncMetadata) /\ 0 \in 0 .. Len(comp[1].funcs)
  <2>1. comp \in Seq(ModuleMetadata)
    BY ComponentFacts
  <2>2. comp[1] \in ModuleMetadata
    BY <1>1, <2>1
  <2> QED
    BY <2>2 DEF ModuleMetadata
<1>3. \A k \in 0 .. modIt'.idx - 1 : modIt'.funcs[k + 1].fid \in modIt'.skip
  BY <1>1, <1>2, HandleSkipsFacts
<1> QED
  BY <1>1, <1>3 DEF StartPlaced

\* The cursor stops where there is nothing left: after the last function of the last module
\* that is not skipped, in a last module without functions, or past the last module.
LEMMA StopsNext ==
    ASSUME TypeOK, TypeOK', InModule, InModule', Counted, Regular, SkipsApply, Advance, Stops
    PROVE  ~CompHasCurr' /\ StopsAtTheEnd'
<1>0. /\ Len(comp) \in Nat /\ currMod \in Nat /\ modIt.idx \in Nat /\ Len(modIt.funcs) \in Nat
      /\ modIt.funcs \in Seq(FuncMetadata)
  BY ComponentFacts
<1>a. currMod' \in Nat /\ modIt'.idx \in Nat /\ modIt'.idx <= Len(modIt'.funcs)
  BY DEF TypeOK
<1>b. /\ comp' = comp /\ (ToInstr \/ ToFunction \/ ToModule) /\ answer \in {"start", "some"}
      /\ ToInstr \/ ToFunction => ~CompHasCurr'
      /\ ToModule => ~CompHasCurr' \/ ~(currMod' < Len(comp))
  BY AdvanceFacts
<1>1. CASE comp = <<>>
  <2>1. modIt'.funcs = <<>> /\ Len(comp) = 0
    BY <1>1, <1>b DEF InModule
  <2>2. ~HasCurr(modIt')
    BY <1>a, <2>1 DEF HasCurr
  <2>3. currMod' >= Len(comp')
    BY <1>a, <1>b, <2>1
  <2> QED
    BY <2>2, <2>3 DEF CompHasCurr, StopsAtTheEnd
<1>2. CASE comp # <<>>
  <2>1. currMod < Len(comp)
    <3>1. currMod <= Len(comp) /\ currMod # Len(comp)
      BY <1>2, <1>b DEF InModule
    <3> QED
      BY <1>0, <3>1
  <2>2. modIt.funcs = FuncsOf(currMod + 1) /\ modIt.skip = comp[currMod + 1].skip
    BY <2>1 DEF InModule
  <2>3. CASE ToInstr
    <3>1. HasCurr(modIt) /\ currMod' = currMod /\ modIt'.idx = modIt.idx /\ modIt'.funcs = modIt.funcs
      BY <2>1, <2>3 DEF ToInstr, SameModule, Counted
    <3>2. HasCurr(modIt') /\ currMod # Len(comp)
      BY <1>0, <2>1, <3>1 DEF HasCurr
    <3>3. CompHasCurr'
      BY <1>b, <3>1, <3>2 DEF CompHasCurr, End
    <3> QED
      BY <1>b, <2>3, <3>3
  <2>4. CASE ToFunction
    <3>1. /\ currMod' = currMod /\ modIt'.funcs = modIt.funcs
          /\ modIt'.idx = HandleSkips(modIt.funcs, modIt.skip, modIt.idx + 1)
      BY <2>4 DEF ToFunction, SameModule
    <3>2. modIt.idx + 1 \in 0 .. Len(modIt.funcs) /\ modIt.idx + 1 < Len(modIt.funcs)
      BY <1>0, <2>4 DEF ToFunction, HasNextFunction
    <3>3. \A k \in modIt.idx + 1 .. modIt'.idx - 1 : modIt.funcs[k + 1].fid \in modIt.skip
      BY <1>0, <3>1, <3>2, HandleSkipsFacts
    <3>4. ~CompHasCurr' /\ currMod # Len(comp)
      BY <1>0, <1>b, <2>1, <2>4
    <3>5. ~HasCurr(modIt')
      BY <1>b, <3>1, <3>4 DEF CompHasCurr, End
    <3>6. modIt'.idx = Len(modIt.funcs)
      BY <1>0, <1>a, <3>1, <3>5 DEF HasCurr
    <3> DEFINE k == Len(modIt.funcs) - 1
    <3>7. k \in modIt.idx + 1 .. modIt'.idx - 1 /\ k + 1 = Len(modIt.funcs) /\ modIt.funcs # <<>>
      BY <1>0, <3>2, <3>6
    <3> HIDE DEF k
    <3>8. modIt.funcs[Len(modIt.funcs)].fid \in modIt.skip
      BY <3>3, <3>7
    <3>9. Skipped(currMod + 1, Len(FuncsOf(currMod + 1))) /\ FuncsOf(currMod + 1) # <<>>
      BY <2>2, <3>7, <3>8 DEF Skipped
    <3>10. currMod + 1 \notin 1 .. Len(comp) - 1
      BY <3>9 DEF Regular
    <3>11. currMod = Len(comp) - 1
      BY <1>0, <2>1, <3>10
    <3>12. currMod' = Len(comp') - 1
      BY <1>b, <3>1, <3>11
    <3> QED
      BY <3>4, <3>5, <3>12 DEF StopsAtTheEnd
  <2>5. CASE ToModule
    <3>1. currMod' = currMod + 1 /\ (currMod + 1 < Len(comp) => AtStart(modIt', comp[currMod + 2]))
      BY <2>5 DEF ToModule
    <3>2. CASE ~(currMod' < Len(comp))
      <4>1. currMod' = Len(comp)
        BY <1>0, <2>1, <3>1, <3>2
      <4>2. currMod' >= Len(comp') /\ End'
        BY <1>0, <1>b, <4>1 DEF End
      <4> QED
        BY <4>2 DEF CompHasCurr, StopsAtTheEnd
    <3>3. CASE currMod' < Len(comp)
      <4> DEFINE c == currMod + 2
      <4>1. c \in 1 .. Len(comp) /\ c >= 2
        BY <1>0, <3>1, <3>3
      <4>2. AtStart(modIt', comp[c])
        BY <3>1, <3>3
      <4> HIDE DEF c
      <4>3. HasCurr(modIt') <=> FuncsOf(c) # <<>>
        BY <4>1, <4>2, RegularStart
      <4>4. ~CompHasCurr' /\ currMod' # Len(comp)
        BY <1>0, <1>a, <1>b, <2>5, <3>3
      <4>5. ~HasCurr(modIt')
        BY <1>b, <4>4 DEF CompHasCurr, End
      <4>6. c \notin 2 .. Len(comp) - 1
        BY <4>3, <4>5 DEF Regular
      <4>7. c = Len(comp)
        BY <1>0, <4>1, <4>6
      <4>8. currMod' = Len(comp) - 1
        BY <1>0, <3>1, <4>7 DEF c
      <4>9. currMod' = Len(comp') - 1
        BY <1>b, <4>8
      <4> QED
        BY <4>4, <4>5, <4>9 DEF StopsAtTheEnd
    <3> QED
      BY <3>2, <3>3
  <2> QED
    BY <1>b, <2>3, <2>4, <2>5
<1> QED
  BY <1>1, <1>2
Placed == TypeOK /\ InModule /\ AtRest

LEMMA TraversedInit == Placed /\ Init => Traversed
<1> SUFFICES ASSUME Placed, Init, Regular, SkipsApply
             PROVE  /\ Counted
                    /\ StopsAtTheEnd
                    /\ answer # "panic"
                    /\ visited = {l \in Kept : ~Before(Here, l)}
  BY DEF Traversed
<1>1. answer = "start" /\ currMod = 0
  BY InitFacts
<1>2. Counted
  <2> SUFFICES ASSUME currMod < Len(comp)
               PROVE  Counted
    BY DEF Counted
  <2>1. Len(comp) \in Nat /\ comp \in Seq(ModuleMetadata)
    BY ComponentFacts DEF Placed
  <2>2. 1 \in 1 .. Len(comp) /\ comp # <<>>
    BY <1>1, <2>1
  <2>3. AtStart(modIt, comp[1])
    BY <2>2, InitFacts
  <2> QED
    BY <2>2, <2>3, RegularStart DEF Placed, Counted
<1>3. StartPlaced
  BY StartPlacedInit DEF Placed
<1>4. visited = {l \in Kept : ~Before(Here, l)}
  BY <1>2, <1>3, VisitedAtStart DEF Placed
<1> QED
  BY <1>1, <1>2, <1>4 DEF StopsAtTheEnd

LEMMA TraversedReset == Placed /\ Placed' /\ Traversed /\ Reset => Traversed'
<1>1. (TypeOK /\ InModule /\ AtRest /\ Counted /\ SkipsApply /\ StartPlaced =>
          visited = {l \in Kept : ~Before(Here, l)})'
  BY VisitedAtStart, PTL
<1> SUFFICES ASSUME Placed, Placed', Reset, Regular', SkipsApply'
             PROVE  (/\ Counted
                     /\ StopsAtTheEnd
                     /\ answer # "panic"
                     /\ visited = {l \in Kept : ~Before(Here, l)})'
  BY DEF Traversed
<1>2. comp' = comp /\ answer' = "start" /\ ToReset
  BY ResetFacts DEF Placed
<1>3. Counted'
  BY CountedReset DEF Placed
<1>4. StartPlaced'
  BY StartPlacedReset DEF Placed
<1>5. visited' = {l \in Kept : ~Before(Here, l)}'
  BY <1>1, <1>3, <1>4 DEF Placed
<1> QED
  BY <1>2, <1>3, <1>5 DEF StopsAtTheEnd

LEMMA TraversedAdvance == Placed /\ Placed' /\ Traversed /\ Advance => Traversed'
<1>1. (TypeOK /\ InModule /\ AtRest /\ Counted /\ SkipsApply /\ CompHasCurr => Here \in Kept)'
  BY HereInKept, PTL
<1> SUFFICES ASSUME Placed, Placed', Traversed, Advance, Regular', SkipsApply'
             PROVE  (/\ Counted
                     /\ StopsAtTheEnd
                     /\ answer # "panic"
                     /\ visited = {l \in Kept : ~Before(Here, l)})'
  BY DEF Traversed
<1>2. /\ TypeOK /\ TypeOK' /\ InModule /\ InModule' /\ AtRest'
  BY DEF Placed
<1>3. comp' = comp /\ resets' = resets /\ (Offers \/ Stops)
  BY <1>2, AdvanceFacts
<1>4. Regular /\ SkipsApply
  BY <1>3 DEF Regular, SkipsApply, Skipped, FuncsOf
<1>5. Counted /\ visited = {l \in Kept : ~Before(Here, l)}
  BY <1>4 DEF Traversed
<1>6. Counted'
  BY <1>2, <1>4, <1>5, CountedNext DEF Next
<1>7. Stops => ~CompHasCurr' /\ StopsAtTheEnd'
  BY <1>2, <1>4, <1>5, StopsNext
<1>8. Offers => answer' # "none"
  BY DEF Offers
<1>9. answer' # "panic"
  <2> SUFFICES ASSUME answer' = "panic"
               PROVE  FALSE
    OBVIOUS
  <2>1. ~Stops /\ Offers /\ ~(modIt'.instr < CurrFunc(modIt').len)
    BY <1>2, <1>3, AdvanceFacts DEF Stops
  <2>2. CompHasCurr' /\ HasCurr(modIt')
    BY <2>1 DEF Offers, CompHasCurr
  <2>3. currMod' < Len(comp')
    <3>1. currMod' \in Nat /\ modIt'.idx \in Nat
      BY <1>2 DEF TypeOK
    <3>2. Len(comp) \in Nat
      BY <1>2, ComponentFacts
    <3>3. comp' # <<>>
      <4>1. modIt'.funcs = <<>> => ~HasCurr(modIt')
        BY <3>1 DEF HasCurr
      <4> QED
        BY <1>2, <2>2, <4>1 DEF InModule
    <3>4. currMod' <= Len(comp') /\ currMod' # Len(comp')
      BY <1>2, <2>2, <3>3 DEF InModule, CompHasCurr, End
    <3> QED
      BY <1>3, <3>1, <3>2, <3>4
  <2> QED
    BY <1>6, <2>1, <2>2, <2>3 DEF Counted
<1>10. StopsAtTheEnd'
  BY <1>3, <1>7, <1>8 DEF StopsAtTheEnd
<1>11. CompHasCurr' => Here' \in Kept
  <2>1. Kept' = Kept
    BY <1>3 DEF Kept, Instructions, Location
  <2> QED
    BY <1>1, <1>2, <1>6, <2>1
<1>12. \A l \in Kept : ~Before(Here', l) <=> ~Before(Here, l) \/ (CompHasCurr' /\ l = Here')
  <2> TAKE l \in Kept
  <2>1. /\ l \in Nat \X Nat \X Nat /\ Here \in Nat \X Nat \X Nat /\ Here' \in Nat \X Nat \X Nat
    <3>1. Here' \in Nat \X Nat \X Nat
      BY <1>2 DEF Here, TypeOK
    <3> QED
      BY <1>2, <3>1, KeptFacts, HereTyped
  <2>2. ~Before(Here', l) => ~Before(Here, l) \/ (CompHasCurr' /\ l = Here')
    BY <1>2, <1>4, <1>5, NothingBetween
  <2>3. ~Before(Here, l) => ~Before(Here', l)
    BY <1>2, <2>1, AdvanceMoves, BeforeIsTransitive
  <2>4. ~Before(Here', Here')
    BY <2>1, BeforeIsStrict
  <2> QED
    BY <2>2, <2>3, <2>4
<1>13. visited' = {l \in Kept : ~Before(Here', l)}
  <2>1. CASE Offers
    <3>1. visited' = visited \cup {Here'} /\ CompHasCurr'
      BY <2>1 DEF Offers
    <3> QED
      BY <1>5, <1>11, <1>12, <3>1
  <2>2. CASE Stops
    <3>1. visited' = visited /\ ~CompHasCurr'
      BY <1>7, <2>2 DEF Stops
    <3> QED
      BY <1>5, <1>12, <3>1
  <2> QED
    BY <1>3, <2>1, <2>2
<1>14. visited' = {l \in Kept : ~Before(Here, l)}'
  <2>1. Kept' = Kept
    BY <1>3 DEF Kept, Instructions, Location
  <2>2. {l \in Kept : ~Before(Here, l)}' = {l \in Kept : ~Before(Here', l)}
    BY <2>1 DEF Before
  <2> QED
    BY <1>13, <2>2
<1> QED
  BY <1>6, <1>9, <1>10, <1>14

LEMMA TraversedHolds == Spec => [](Placed /\ Traversed)
<1>1. Spec => []Placed
  BY CursorPlaced DEF Placed
<1>2. Placed /\ Init => Traversed
  BY TraversedInit
<1>3. Placed /\ Placed' /\ Traversed /\ [Next]_vars => Traversed'
  <2>1. Traversed /\ UNCHANGED vars => Traversed'
    <3> SUFFICES ASSUME Traversed, UNCHANGED vars
                 PROVE  Traversed'
      OBVIOUS
    <3>1. Regular' <=> Regular
      BY DEF vars, Regular, Skipped, FuncsOf
    <3>2. SkipsApply' <=> SkipsApply
      BY DEF vars, SkipsApply
    <3>3. (Counted' <=> Counted) /\ (StopsAtTheEnd' <=> StopsAtTheEnd)
      BY DEF vars, Counted, StopsAtTheEnd
    <3>4. Kept' = Kept
      BY DEF vars, Kept, Instructions, Location
    <3>5. Here' = Here /\ visited' = visited /\ answer' = answer
      BY DEF vars, Here
    <3>6. {l \in Kept : ~Before(Here, l)}' = {l \in Kept : ~Before(Here, l)}
      BY <3>4, <3>5 DEF Before
    <3> QED
      BY <3>1, <3>2, <3>3, <3>5, <3>6 DEF Traversed
  <2> QED
    BY <2>1, TraversedReset, TraversedAdvance DEF Next
<1> QED
  BY <1>1, <1>2, <1>3, PTL DEF Spec

\* When the cursor crosses skipped functions and the ends of modules it leaves no instruction
\* out, and next never indexes outside a body.
THEOREM VisitedIsPrefixHolds == Spec => []VisitedIsPrefix
<1>1. Placed /\ Traversed => VisitedIsPrefix
  <2> SUFFICES ASSUME TypeOK, Traversed, Regular, SkipsApply
               PROVE  /\ answer # "panic"
                      /\ \A l \in visited : l \in Kept
                      /\ \A l \in Kept, v \in visited : Before(l, v) => l \in visited
    BY DEF Placed, VisitedIsPrefix
  <2>1. answer # "panic" /\ visited = {l \in Kept : ~Before(Here, l)}
    BY DEF Traversed
  <2>2. ASSUME NEW l \in Kept, NEW v \in visited, Before(l, v)
        PROVE  ~Before(Here, l)
    <3>1. /\ l \in Nat \X Nat \X Nat /\ v \in Nat \X Nat \X Nat /\ Here \in Nat \X Nat \X Nat
          /\ ~Before(Here, v)
      BY <2>1, KeptFacts, HereTyped
    <3> QED
      BY <2>2, <3>1, BeforeIsTransitive
  <2> QED
    BY <2>1, <2>2
<1> QED
  BY <1>1, TraversedHolds, PTL

\* The caller's loop ends only when every instruction to be offered was offered.
THEOREM NoneMeansAllHolds == Spec => []NoneMeansAll
<1>1. Placed /\ Traversed => NoneMeansAll
  <2> SUFFICES ASSUME TypeOK, InModule, Traversed, Regular, SkipsApply, answer = "none"
               PROVE  visited = Kept
    BY DEF Placed, NoneMeansAll
  <2>1. StopsAtTheEnd /\ visited = {l \in Kept : ~Before(Here, l)}
    BY DEF Traversed
  <2>2. /\ Len(comp) \in Nat /\ currMod \in Nat /\ modIt.idx \in Nat /\ Len(modIt.funcs) \in Nat
    BY ComponentFacts
  <2>3. ASSUME NEW l \in Kept
        PROVE  ~Before(Here, l)
    <3>1. l \in Nat \X Nat \X Nat /\ KeptAt(l[1], l[2], l[3])
      BY KeptFacts
    <3>2. l[1] \in 0 .. Len(comp) - 1 /\ l[2] \in 0 .. Len(FuncsOf(l[1] + 1)) - 1
      BY <3>1 DEF KeptAt
    <3>3. CASE currMod >= Len(comp)
      <4>1. l[1] < currMod
        BY <2>2, <3>2, <3>3
      <4> QED
        BY <2>2, <3>1, <4>1 DEF Before, Here
    <3>4. CASE currMod = Len(comp) - 1 /\ ~HasCurr(modIt)
      <4>1. currMod < Len(comp) /\ l[1] <= currMod
        BY <2>2, <3>2, <3>4
      <4>2. modIt.funcs = FuncsOf(currMod + 1)
        BY <4>1 DEF InModule
      <4>3. l[1] = currMod => l[2] < modIt.idx
        BY <2>2, <3>2, <3>4, <4>2 DEF HasCurr
      <4> QED
        BY <2>2, <3>1, <4>1, <4>3 DEF Before, Here
    <3> QED
      BY <2>1, <3>3, <3>4 DEF StopsAtTheEnd
  <2> QED
    BY <2>1, <2>3
<1> QED
  BY <1>1, TraversedHolds, PTL
=============================================================================
