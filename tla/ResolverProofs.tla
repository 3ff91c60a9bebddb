--------------------------- MODULE ResolverProofs ---------------------------
(***************************************************************************)
(* The pass over a function, for every function and every client: the      *)
(* stack the resolver keeps is the block structure of the body, what it    *)
(* deletes is exactly what the block alternates replace, nothing special   *)
(* is left over, and the code written keeps the rest of the function in    *)
(* order (Resolver, InstrumentedRun).                                      *)
(***************************************************************************)
EXTENDS InstrumentedRun, ReindexProofs

(***************************************************************************)
(* The level of an instruction changes by one at the instructions that     *)
(* open or end a block, and nowhere else.                                  *)
(***************************************************************************)
LEMMA OpensInBody ==
    ASSUME NEW code \in Seq(Instrs), NEW j \in DOMAIN code
    PROVE  /\ Opens(code[j]) <=> code[j].op \in Opening
           /\ code[j].op \in Structural \cup Branching \cup Leaving \cup {"nop", "call"}
           /\ code[j].arg \in Seq(Nat)
<1>1. code[j] \in Instrs
  OBVIOUS
<1> QED
  BY <1>1 DEF Instrs, Opens, Opening, Structural, BlockStyle, Branching, Leaving

LEMMA LevelCounts ==
    ASSUME NEW code \in Seq(Instrs), NEW i \in 1 .. Len(code) + 1
    PROVE  Level(code, i) = 1 + Below({j \in 1 .. Len(code) : code[j].op \in Opening}, i)
                              - Below({j \in 1 .. Len(code) : code[j].op = "end"}, i)
<1> DEFINE n == Len(code)
           opens == {j \in 1 .. n : code[j].op \in Opening}
           closes == {j \in 1 .. n : code[j].op = "end"}
<1>1. n \in Nat /\ i \in Nat /\ \A j \in 1 .. n : j < i <=> j \in 1 .. i - 1
  OBVIOUS
<1>2. \A j \in 1 .. i - 1 : j \in 1 .. n
  BY <1>1
<1>3. \A j \in 1 .. n : Opens(code[j]) <=> code[j].op \in Opening
  BY OpensInBody
<1> HIDE DEF n
<1>4. {j \in 1 .. i - 1 : Opens(code[j])} = {j \in opens : j < i}
  BY <1>1, <1>2, <1>3, Zenon
<1>5. {j \in 1 .. i - 1 : code[j].op = "end"} = {j \in closes : j < i}
  BY <1>1, <1>2, Zenon
<1>6. Level(code, i) = 1 + Below(opens, i) - Below(closes, i)
  BY <1>4, <1>5, Zenon DEF Level, Below
<1> QED
  BY <1>6 DEF n

LEMMA LevelSteps ==
    ASSUME NEW code \in Seq(Instrs)
    PROVE  /\ Level(code, 1) = 1
           /\ \A i \in 1 .. Len(code) + 1 : Level(code, i) \in Int
           /\ \A i \in DOMAIN code :
                /\ code[i].op \in Opening => Level(code, i + 1) = Level(code, i) + 1
                /\ code[i].op = "end" => Level(code, i + 1) = Level(code, i) - 1
                /\ code[i].op \notin Opening \cup {"end"} => Level(code, i + 1) = Level(code, i)
<1> DEFINE n == Len(code)
           opens == {j \in 1 .. n : code[j].op \in Opening}
           closes == {j \in 1 .. n : code[j].op = "end"}
<1>1. n \in Nat /\ DOMAIN code = 1 .. n
  OBVIOUS
<1>2. \A i \in 1 .. n + 1 : Level(code, i) = 1 + Below(opens, i) - Below(closes, i)
  BY LevelCounts
<1>3. opens \in SUBSET (1 .. n) /\ closes \in SUBSET (1 .. n)
  OBVIOUS
<1>4. \A i \in DOMAIN code : /\ i \in opens <=> code[i].op \in Opening
                             /\ i \in closes <=> code[i].op = "end"
  BY <1>1
<1> HIDE DEF n, opens, closes
<1>5. /\ \A p \in Int : Below(opens, p) \in Int /\ Below(closes, p) \in Int
      /\ Below(opens, 1) = 0 /\ Below(closes, 1) = 0
  <2>1. ASSUME NEW S \in SUBSET (1 .. n) PROVE Below(S, 1) = 0
    BY <1>1, BelowFacts
  <2>2. ASSUME NEW S \in SUBSET (1 .. n), NEW p \in Int PROVE Below(S, p) \in Int
    <3>1. Cardinality(S) \in Nat /\ Below(S, p) \in 0 .. Cardinality(S)
      BY <1>1, BelowFacts
    <3> QED
      BY <3>1
  <2>3. Below(opens, 1) = 0 /\ Below(closes, 1) = 0
    BY <1>3, <2>1
  <2>4. \A p \in Int : Below(opens, p) \in Int /\ Below(closes, p) \in Int
    BY <1>3, <2>2
  <2> QED
    BY <2>3, <2>4
<1>6. \A i \in Int :
         /\ i \in opens => Below(opens, i + 1) = Below(opens, i) + 1
         /\ i \notin opens => Below(opens, i + 1) = Below(opens, i)
         /\ i \in closes => Below(closes, i + 1) = Below(closes, i) + 1
         /\ i \notin closes => Below(closes, i + 1) = Below(closes, i)
  <2>1. \A S \in SUBSET (1 .. n) :
           /\ \A p \in S : Below(S, p + 1) = Below(S, p) + 1
           /\ \A p \in Int \ S : Below(S, p + 1) = Below(S, p)
    BY <1>1, BelowFacts
  <2> QED
    BY <1>3, <2>1
<1>7. Level(code, 1) = 1
  <2>1. 1 \in 1 .. n + 1
    BY <1>1
  <2> QED
    BY <1>2, <1>5, <2>1
<1>8. \A i \in 1 .. n + 1 : Level(code, i) \in Int
  BY <1>1, <1>2, <1>5
<1>9. ASSUME NEW i \in DOMAIN code
      PROVE  /\ code[i].op \in Opening => Level(code, i + 1) = Level(code, i) + 1
             /\ code[i].op = "end" => Level(code, i + 1) = Level(code, i) - 1
             /\ code[i].op \notin Opening \cup {"end"} => Level(code, i + 1) = Level(code, i)
  <2>1. i \in Int /\ i \in 1 .. n + 1 /\ i + 1 \in 1 .. n + 1
    BY <1>1
  <2> DEFINE o == Below(opens, i)
             c == Below(closes, i)
             p == Below(opens, i + 1)
             d == Below(closes, i + 1)
  <2>2. Level(code, i) = 1 + o - c /\ Level(code, i + 1) = 1 + p - d
    BY <1>2, <2>1
  <2>3. o \in Int /\ c \in Int /\ p \in Int /\ d \in Int
    BY <1>5, <2>1
  <2>4. /\ code[i].op \in Opening => p = o + 1
        /\ code[i].op \notin Opening => p = o
        /\ code[i].op = "end" => d = c + 1
        /\ code[i].op # "end" => d = c
    BY <1>4, <1>6, <2>1
  <2>5. "end" \notin Opening
    BY DEF Opening
  <2> HIDE DEF o, c, p, d
  <2> QED
    BY <2>2, <2>3, <2>4, <2>5
<1> QED
  BY <1>7, <1>8, <1>9 DEF n

\* Where the level has dropped below m, the block at level m was ended.
LEMMA LevelDrops ==
    ASSUME NEW code \in Seq(Instrs), NEW k \in DOMAIN code, NEW n \in k + 1 .. Len(code) + 1,
           NEW m \in Int, m <= Level(code, k + 1), Level(code, n) < m
    PROVE  \E e \in k + 1 .. n - 1 : code[e].op = "end" /\ Level(code, e) = m
<1>1. /\ Len(code) \in Nat /\ k \in Nat /\ n \in Nat /\ DOMAIN code = 1 .. Len(code)
      /\ 1 <= k /\ k <= Len(code) /\ n <= Len(code) + 1 /\ k + 1 <= n
  OBVIOUS
<1> DEFINE low == {p \in k + 1 .. n : Level(code, p) < m}
<1>2. low \in SUBSET Nat /\ n \in low
  BY <1>1
<1>3. PICK p \in low : \A q \in low : p <= q
  <2> HIDE DEF low
  <2> QED
    BY <1>2, LeastElement
<1>4. p \in k + 1 .. n /\ Level(code, p) < m
  OBVIOUS
<1>5. \A i \in 1 .. Len(code) + 1 : Level(code, i) \in Int
  BY LevelSteps
<1>6. Level(code, k + 1) \in Int
  BY <1>1, <1>5
<1>7. p # k + 1
  BY <1>4, <1>6
<1>8. /\ p - 1 \in k + 1 .. n - 1 /\ p - 1 \in DOMAIN code /\ p - 1 + 1 = p
      /\ p - 1 \in k + 1 .. n /\ ~(p <= p - 1) /\ p - 1 \in 1 .. Len(code) + 1
      /\ p \in 1 .. Len(code) + 1
  BY <1>1, <1>4, <1>7
<1>9. p - 1 \notin low
  <2> HIDE DEF low
  <2> QED
    BY <1>3, <1>8
<1>10. ~(Level(code, p - 1) < m)
  BY <1>8, <1>9
<1> DEFINE e == p - 1
           was == Level(code, e)
           is == Level(code, p)
<1>11. was \in Int /\ is \in Int
  BY <1>5, <1>8
<1>12. /\ code[e].op \in Opening => is = was + 1
       /\ code[e].op = "end" => is = was - 1
       /\ code[e].op \notin Opening \cup {"end"} => is = was
  <2>1. e \in DOMAIN code /\ e + 1 = p
    BY <1>8
  <2> HIDE DEF e
  <2> QED
    BY <2>1, LevelSteps
<1>13. ~(was < m) /\ is < m
  BY <1>4, <1>10
<1>14. e \in k + 1 .. n - 1
  BY <1>8
<1> HIDE DEF e, was, is, low
<1>15. code[e].op = "end" /\ was = m
  BY <1>11, <1>12, <1>13
<1> QED
  BY <1>14, <1>15 DEF was

\* What validation asks of a body, without its prefixes.
LEMMA WellFormedLevels ==
    ASSUME NEW code \in Seq(Instrs), WellFormed(code)
    PROVE  /\ Len(code) \in Nat \ {0}
           /\ \A i \in DOMAIN code : Level(code, i) > 0
           /\ Level(code, Len(code) + 1) = 0
<1>1. Level(code, Len(code) + 1) = 0
  BY DEF WellFormed
<1>2. Len(code) \in Nat \ {0}
  <2>1. Level(code, 1) = 1
    BY LevelSteps
  <2>2. Len(code) # 0
    BY <1>1, <2>1
  <2> QED
    BY <2>2
<1>3. ASSUME NEW i \in DOMAIN code PROVE Level(code, i) > 0
  <2> DEFINE prefix == SubSeq(code, 1, i - 1)
  <2>1. i \in Nat /\ 1 <= i /\ i <= Len(code)
    OBVIOUS
  <2>2. Len(prefix) = i - 1 /\ \A j \in 1 .. i - 1 : prefix[j] = code[j]
    BY <2>1
  <2>3. MayFollow(prefix, code[i])
    BY DEF WellFormed
  <2> HIDE DEF prefix
  <2>4. Len(prefix) + 1 = i
    BY <2>1, <2>2
  <2>5. Level(prefix, i) > 0
    BY <2>3, <2>4 DEF MayFollow
  <2>6. /\ {j \in 1 .. i - 1 : Opens(prefix[j])} = {j \in 1 .. i - 1 : Opens(code[j])}
        /\ {j \in 1 .. i - 1 : prefix[j].op = "end"} = {j \in 1 .. i - 1 : code[j].op = "end"}
    BY <2>2, Zenon
  <2>7. Level(prefix, i) = Level(code, i)
    BY <2>6 DEF Level
  <2> QED
    BY <2>5, <2>7
<1> QED
  BY <1>1, <1>2, <1>3

(***************************************************************************)
(* The end of a block, and what lies between its opener (or else) and it.  *)
(***************************************************************************)
LEMMA BlockLevelIsNext ==
    ASSUME NEW code \in Seq(Instrs), NEW i \in DOMAIN code, code[i].op \in BlockStyle
    PROVE  BlockLevel(code, i) = Level(code, i + 1) /\ BlockLevel(code, i) \in Int
<1>1. Level(code, i) \in Int
  BY LevelSteps
<1>2. CASE code[i].op = "else"
  <2>1. "else" \notin Opening \cup {"end"}
    BY DEF Opening
  <2>2. Level(code, i + 1) = Level(code, i)
    BY <1>2, <2>1, LevelSteps
  <2> QED
    BY <1>1, <1>2, <2>2 DEF BlockLevel
<1>3. CASE code[i].op # "else"
  <2>1. code[i].op \in Opening
    BY <1>3 DEF BlockStyle
  <2>2. Level(code, i + 1) = Level(code, i) + 1
    BY <2>1, LevelSteps
  <2> QED
    BY <1>1, <1>3, <2>2 DEF BlockLevel
<1> QED
  BY <1>2, <1>3

LEMMA ClosingFacts ==
    ASSUME NEW code \in Seq(Instrs), WellFormed(code),
           NEW i \in DOMAIN code, code[i].op \in BlockStyle
    PROVE  /\ BlockLevel(code, i) \in Int /\ BlockLevel(code, i) > 0
           /\ Closing(code, i) \in EndsOf(code, BlockLevel(code, i), i)
           /\ \A e \in EndsOf(code, BlockLevel(code, i), i) : Closing(code, i) <= e
<1> DEFINE m == BlockLevel(code, i)
           ends == EndsOf(code, m, i)
           n == Len(code)
<1>1. n \in Nat /\ i \in Nat /\ 1 <= i /\ i <= n /\ n + 1 \in i + 1 .. n + 1 /\ n + 1 - 1 = n
  OBVIOUS
<1>2. m = Level(code, i + 1) /\ m \in Int
  BY BlockLevelIsNext
<1>3. Level(code, i) \in Int /\ Level(code, i) > 0 /\ Level(code, n + 1) = 0
  BY LevelSteps, WellFormedLevels
<1>4. m > 0
  BY <1>3 DEF BlockLevel
<1>5. m <= Level(code, i + 1) /\ Level(code, n + 1) < m
  BY <1>2, <1>3, <1>4
<1>6. \E e \in i + 1 .. n : code[e].op = "end" /\ Level(code, e) = m
  <2> HIDE DEF m, n
  <2>1. \E e \in i + 1 .. n + 1 - 1 : code[e].op = "end" /\ Level(code, e) = m
    BY <1>1, <1>2, <1>5, LevelDrops DEF n
  <2> QED
    BY <1>1, <2>1
<1>7. ends # {} /\ ends \in SUBSET Nat
  <2>1. ends = {j \in i + 1 .. n : code[j].op = "end" /\ Level(code, j) = m}
    BY DEF EndsOf
  <2> HIDE DEF ends, m, n
  <2> QED
    BY <1>1, <1>6, <2>1
<1>8. \E x \in ends : \A y \in ends : x <= y
  <2> HIDE DEF ends
  <2> QED
    BY <1>7, LeastElement
<1>9. Min(ends) \in ends /\ \A y \in ends : Min(ends) <= y
  <2> HIDE DEF ends
  <2> QED
    BY <1>8 DEF Min
<1> QED
  BY <1>2, <1>4, <1>9 DEF Closing
\* Between an instruction that opens or continues a block and the end of that block the
\* level is the block's or higher, and the end is the first one at the block's level.
LEMMA InsideBlock ==
    ASSUME NEW code \in Seq(Instrs), WellFormed(code),
           NEW i \in DOMAIN code, code[i].op \in BlockStyle
    PROVE  /\ Closing(code, i) \in DOMAIN code /\ i < Closing(code, i)
           /\ code[Closing(code, i)].op = "end"
           /\ Level(code, Closing(code, i)) = BlockLevel(code, i)
           /\ \A n \in DOMAIN code : i < n /\ n <= Closing(code, i) =>
                /\ Level(code, n) >= BlockLevel(code, i)
                /\ code[n].op = "end" /\ Level(code, n) = BlockLevel(code, i) => n = Closing(code, i)
<1> DEFINE m == BlockLevel(code, i)
           c == Closing(code, i)
           ends == EndsOf(code, m, i)
<1>1. c \in ends /\ \A e \in ends : c <= e
  BY ClosingFacts
<1>2. /\ Len(code) \in Nat /\ i \in Nat /\ 1 <= i /\ i <= Len(code) /\ DOMAIN code = 1 .. Len(code)
      /\ m \in Int /\ m = Level(code, i + 1)
  BY BlockLevelIsNext
<1>3. ends = {j \in i + 1 .. Len(code) : code[j].op = "end" /\ Level(code, j) = m}
  BY DEF EndsOf
<1> HIDE DEF m, c, ends
<1>4. c \in i + 1 .. Len(code) /\ code[c].op = "end" /\ Level(code, c) = m
  BY <1>1, <1>3
<1>5. c \in DOMAIN code /\ i < c /\ c \in Nat
  BY <1>2, <1>4
<1>6. ASSUME NEW n \in DOMAIN code, i < n, n <= c
      PROVE  Level(code, n) >= m
  <2>1. n \in Nat /\ n \in i + 1 .. Len(code) + 1
    BY <1>2, <1>6
  <2>2. Level(code, n) \in Int
    BY <1>2, <2>1, LevelSteps
  <2>3. ASSUME Level(code, n) < m PROVE FALSE
    <3>1. m <= Level(code, i + 1)
      BY <1>2
    <3>2. PICK e \in i + 1 .. n - 1 : code[e].op = "end" /\ Level(code, e) = m
      BY <1>2, <2>1, <2>3, <3>1, LevelDrops
    <3>3. e \in ends
      BY <1>2, <1>3, <2>1, <3>2, <1>6
    <3> QED
      BY <1>1, <1>5, <1>6, <2>1, <3>3
  <2> QED
    BY <1>2, <2>2, <2>3
<1>7. ASSUME NEW n \in DOMAIN code, i < n, n <= c, code[n].op = "end", Level(code, n) = m
      PROVE  n = c
  <2>1. n \in ends
    BY <1>2, <1>3, <1>7
  <2> QED
    BY <1>1, <1>2, <1>5, <1>7, <2>1
<1> QED
  BY <1>4, <1>5, <1>6, <1>7 DEF m, c

\* A block inside another one ends before it; an else's part may end with the same end.
LEMMA NestedBlocks ==
    ASSUME NEW code \in Seq(Instrs), WellFormed(code),
           NEW i \in DOMAIN code, code[i].op \in BlockStyle,
           NEW k \in DOMAIN code, code[k].op \in BlockStyle,
           i < k, k <= Closing(code, i)
    PROVE  /\ Closing(code, k) <= Closing(code, i)
           /\ code[k].op # "else" => Closing(code, k) < Closing(code, i)
<1> DEFINE m == BlockLevel(code, i)
           c == Closing(code, i)
           mk == BlockLevel(code, k)
           ck == Closing(code, k)
           ends == EndsOf(code, mk, k)
<1>1. /\ c \in DOMAIN code /\ i < c /\ code[c].op = "end" /\ Level(code, c) = m
      /\ \A n \in DOMAIN code : i < n /\ n <= c => Level(code, n) >= m
  BY InsideBlock
<1>2. ck \in DOMAIN code /\ Level(code, ck) = mk
  BY InsideBlock
<1>3. \A e \in ends : ck <= e
  BY ClosingFacts
<1>4. m \in Int /\ mk \in Int /\ mk = Level(code, k + 1)
  BY BlockLevelIsNext
<1>5. /\ Len(code) \in Nat /\ DOMAIN code = 1 .. Len(code)
      /\ i \in Nat /\ k \in Nat /\ 1 <= k /\ k <= Len(code)
  OBVIOUS
<1>6. ends = {j \in k + 1 .. Len(code) : code[j].op = "end" /\ Level(code, j) = mk}
  BY DEF EndsOf
<1>7. mk = Level(code, k) + (IF code[k].op = "else" THEN 0 ELSE 1) /\ Level(code, k) \in Int
  BY <1>5, LevelSteps DEF BlockLevel
<1>8. k <= c
  OBVIOUS
<1> HIDE DEF m, c, mk, ck, ends
<1>9. k # c
  BY <1>1 DEF BlockStyle, Opening
<1>10. c \in Nat /\ ck \in Nat /\ k < c /\ c + 1 \in k + 1 .. Len(code) + 1
  BY <1>1, <1>2, <1>5, <1>8, <1>9
<1>11. Level(code, k) >= m /\ Level(code, k + 1) >= m
  <2>1. k \in DOMAIN code /\ i < k /\ k <= c /\ k + 1 \in DOMAIN code /\ i < k + 1 /\ k + 1 <= c
    BY <1>1, <1>5, <1>8, <1>10
  <2> QED
    BY <1>1, <2>1
<1>12. Level(code, c + 1) = m - 1
  BY <1>1, LevelSteps
<1>13. PICK e \in k + 1 .. c + 1 - 1 : code[e].op = "end" /\ Level(code, e) = mk
  <2>1. mk <= Level(code, k + 1) /\ Level(code, c + 1) < mk
    BY <1>4, <1>11, <1>12
  <2> QED
    BY <1>4, <1>10, <2>1, LevelDrops
<1>14. e \in ends /\ e <= c /\ e \in Nat
  BY <1>1, <1>5, <1>6, <1>10, <1>13
<1>15. ck <= c
  BY <1>3, <1>10, <1>14
<1>16. ASSUME code[k].op # "else" PROVE ck < c
  <2>1. mk > m
    BY <1>4, <1>7, <1>11, <1>16
  <2>2. ck # c
    BY <1>1, <1>2, <1>4, <2>1
  <2> QED
    BY <1>10, <1>15, <2>2
<1> QED
  BY <1>15, <1>16 DEF c, ck

(***************************************************************************)
(* The invariants.                                                         *)
(***************************************************************************)
\* The body is one that was asked for; the pass is where the phase says, and the stack is as
\* deep as the blocks that are open.
Shape ==
    /\ \E t \in Tasks : body = t.code
    /\ client \in {"iterator", "modifier"} /\ special \in BOOLEAN
    /\ DOMAIN lists = DOMAIN body /\ DOMAIN some = DOMAIN body /\ DOMAIN modes = DOMAIN body
    /\ cursor \in DOMAIN body /\ funcMode \in FuncModes \cup {None}
    /\ phase = "edit" => idx = 1 /\ blockStack = <<0>> /\ deleteBlock = {}
    /\ phase = "resolve" => idx <= Len(body)
    /\ phase \in {"done", "run"} =>
          IF special THEN idx = Len(body) + 1 ELSE idx = 1 /\ deleteBlock = {}
    /\ Len(blockStack) = Level(body, idx)
\* has_special_instr is set when it has to be.
Told == client = "iterator" /\ ~special => \A i \in DOMAIN body : ~HasSpecial(i)

LEMMA BodyFacts ==
    ASSUME Shape
    PROVE  /\ body \in Seq(Instrs) /\ WellFormed(body)
           /\ Len(body) \in Nat \ {0} /\ DOMAIN body = 1 .. Len(body)
<1>1. body \in Seq(Instrs) /\ WellFormed(body)
  BY TasksAssumption DEF Shape
<1> QED
  BY <1>1, WellFormedLevels

(***************************************************************************)
(* Views of a step.  A call changes at most one list of one instruction;   *)
(* the pass changes the lists of the instruction it is at, which it        *)
(* removes or keeps, and the stack as the instruction asks.                *)
(***************************************************************************)
SameLists == lists' = lists /\ some' = some /\ (special' = special \/ special' = TRUE)
ListChanged(i, m) ==
    /\ i \in DOMAIN body /\ m \in Modes
    /\ DOMAIN lists' = DOMAIN lists /\ DOMAIN some' = DOMAIN some
    /\ DOMAIN lists'[i] = DOMAIN lists[i]
    /\ \A j \in DOMAIN body \ {i} : lists'[j] = lists[j] /\ some'[j] = some[j]
    /\ \A k \in Modes \ {m} : lists'[i][k] = lists[i][k]
    /\ \/ /\ some'[i] = some[i] \cup ({m} \cap Optional)
          /\ client = "iterator" => special' = (special \/ m \in SpecialModes)
          /\ client = "modifier" => special' = special \/ special' = (special \/ m \in SpecialModes)
       \/ lists'[i][m] = <<>> /\ some'[i] = some[i] \ {m} /\ special' = special
       \/ /\ lists'[i][m] = <<>> /\ m \in Optional /\ some'[i] = some[i] \cup {m}
          /\ special' = (special \/ (client = "iterator" /\ m = "block_alt"))
Edited ==
    /\ phase = "edit" /\ UNCHANGED <<phase, client, body, idx, passVars, asked>>
    /\ DOMAIN modes' = DOMAIN modes /\ \A i \in DOMAIN body : modes'[i] \in Modes \cup {None}
    /\ cursor' \in DOMAIN body /\ funcMode' \in FuncModes \cup {None}
    /\ SameLists \/ \E i \in DOMAIN body, m \in Modes : ListChanged(i, m)

LEMMA ModesFacts ==
    /\ None \notin FuncModes /\ None \notin Modes
    /\ Optional \subseteq Modes /\ SpecialModes \subseteq Modes
    /\ SpecialModes \cap Optional = {"block_alt"}
    /\ FuncModes \cap Modes = {}
BY DEF None, FuncModes, Modes, PlainModes, SpecialModes, Optional

LEMMA AddInstrView ==
    ASSUME TypeOK, Shape, NEW i \in DOMAIN body, NEW m \in Modes, AddInstr(i, m),
           client = "iterator" => special' = (special \/ m \in SpecialModes),
           client = "modifier" => special' = special \/ special' = (special \/ m \in SpecialModes)
    PROVE  ListChanged(i, m)
<1>1. DOMAIN lists = DOMAIN body /\ DOMAIN some = DOMAIN body /\ DOMAIN lists[i] = Modes
  BY DEF Shape, TypeOK
<1> DEFINE x == Append(lists[i][m], Probe(probes'))
           y == some[i] \cup ({m} \cap Optional)
<1>2. lists' = [lists EXCEPT ![i][m] = x] /\ some' = [some EXCEPT ![i] = y]
  BY DEF AddInstr
<1> HIDE DEF x
<1>3. /\ DOMAIN lists' = DOMAIN lists /\ DOMAIN some' = DOMAIN some
      /\ DOMAIN lists'[i] = DOMAIN lists[i]
  BY <1>1, <1>2
<1>4. \A j \in DOMAIN body \ {i} : lists'[j] = lists[j] /\ some'[j] = some[j]
  BY <1>1, <1>2
<1>5. \A k \in Modes \ {m} : lists'[i][k] = lists[i][k]
  BY <1>1, <1>2
<1>6. some'[i] = y
  BY <1>1, <1>2
<1> QED
  BY <1>3, <1>4, <1>5, <1>6 DEF ListChanged

LEMMA AddInstrOfFuncView ==
    ASSUME TypeOK, Shape, NEW i \in DOMAIN body, NEW m \in Modes, AddInstrOfFunc(i, m)
    PROVE  SameLists \/ ListChanged(i, m)
<1>1. CASE AddFuncInstr
  BY <1>1 DEF AddFuncInstr, SameLists
<1>2. CASE AddInstr(i, m) /\ special' = (special \/ m \in SpecialModes)
  BY <1>2, AddInstrView
<1> QED
  BY <1>1, <1>2 DEF AddInstrOfFunc

LEMMA SetModeView ==
    ASSUME TypeOK, Shape, NEW i \in DOMAIN body, NEW m \in Modes \cup {None}, SetMode(i, m)
    PROVE  DOMAIN modes' = DOMAIN modes /\ \A j \in DOMAIN body : modes'[j] \in Modes \cup {None}
<1>1. DOMAIN modes = DOMAIN body /\ \A j \in DOMAIN body : modes[j] \in Modes \cup {None}
  BY DEF Shape, TypeOK
<1>2. modes' = [modes EXCEPT ![i] = m]
  BY DEF SetMode
<1> QED
  BY <1>1, <1>2

LEMMA EditView ==
    ASSUME TypeOK, Shape, Edit
    PROVE  Edited
<1>1. /\ phase = "edit" /\ Instrument
      /\ UNCHANGED <<passVars, phase, idx, asked>>
  BY DEF Edit
<1>2. /\ DOMAIN modes = DOMAIN body /\ \A j \in DOMAIN body : modes[j] \in Modes \cup {None}
      /\ cursor \in DOMAIN body /\ funcMode \in FuncModes \cup {None}
      /\ client \in {"iterator", "modifier"} /\ special \in BOOLEAN
      /\ DOMAIN lists = DOMAIN body /\ DOMAIN some = DOMAIN body
      /\ \A i \in DOMAIN body : DOMAIN lists[i] = Modes
  BY DEF Shape, TypeOK
<1>3. CASE Inject
  <2>1. /\ UNCHANGED <<client, body, modes, funcMode, cursor>>
        /\ (modes[cursor] # None \/ funcMode # None)
        /\ AddInstrOfFunc(cursor, modes[cursor])
    BY <1>3 DEF Inject
  <2>2. SameLists \/ ListChanged(cursor, modes[cursor])
    <3>1. CASE modes[cursor] \in Modes
      BY <1>2, <2>1, <3>1, AddInstrOfFuncView
    <3>2. CASE modes[cursor] = None
      <4>1. AddFuncInstr
        BY <2>1, <3>2 DEF AddInstrOfFunc
      <4> QED
        BY <4>1 DEF AddFuncInstr, SameLists
    <3> QED
      BY <1>2, <3>1, <3>2
  <2>3. SameLists \/ \E i \in DOMAIN body, m \in Modes : ListChanged(i, m)
    <3>1. ListChanged(cursor, modes[cursor]) => cursor \in DOMAIN body /\ modes[cursor] \in Modes
      BY DEF ListChanged
    <3> QED
      BY <2>2, <3>1
  <2> QED
    BY <1>1, <1>2, <2>1, <2>3 DEF Edited
<1>4. CASE FinishInstr
  <2>1. /\ UNCHANGED <<client, body, lists, some, special, cursor>>
        /\ funcMode' = None
        /\ modes' = IF client = "iterator" THEN [modes EXCEPT ![cursor] = None] ELSE modes
    BY <1>4 DEF FinishInstr
  <2>2. DOMAIN modes' = DOMAIN modes /\ \A i \in DOMAIN body : modes'[i] \in Modes \cup {None}
    BY <1>2, <2>1
  <2> QED
    BY <1>1, <1>2, <2>1, <2>2 DEF Edited, SameLists
<1>5. ASSUME NEW m \in FuncModes, SetFuncInstrumentMode(m) PROVE Edited
  <2>1. /\ UNCHANGED <<client, body, lists, some, modes, special, cursor>>
        /\ funcMode' = m
    BY <1>5 DEF SetFuncInstrumentMode
  <2> QED
    BY <1>1, <1>2, <2>1 DEF Edited, SameLists
<1>6. ASSUME NEW i \in DOMAIN body, NEW m \in Modes, SetInstrumentMode(i, m) PROVE Edited
  <2>1. /\ UNCHANGED <<client, body, lists, some, funcMode, special>>
        /\ SetMode(i, m) /\ cursor' = i
    BY <1>6 DEF SetInstrumentMode
  <2>2. DOMAIN modes' = DOMAIN modes /\ \A j \in DOMAIN body : modes'[j] \in Modes \cup {None}
    BY <2>1, SetModeView
  <2> QED
    BY <1>1, <1>2, <2>1, <2>2 DEF Edited, SameLists
<1>7. ASSUME NEW i \in DOMAIN body, NEW m \in Modes, InjectAt(i, m) PROVE Edited
  <2>1. /\ UNCHANGED <<client, body, funcMode>> /\ SetMode(i, m)
        /\ \/ client = "iterator" /\ AddInstrOfFunc(i, m) /\ UNCHANGED cursor
           \/ client = "modifier" /\ AddInstr(i, m) /\ cursor' = i /\ UNCHANGED special
    BY <1>7 DEF InjectAt
  <2>2. DOMAIN modes' = DOMAIN modes /\ \A j \in DOMAIN body : modes'[j] \in Modes \cup {None}
    BY <2>1, SetModeView
  <2>3. SameLists \/ ListChanged(i, m)
    <3>1. CASE AddInstrOfFunc(i, m)
      BY <3>1, AddInstrOfFuncView
    <3>2. CASE client = "modifier" /\ AddInstr(i, m) /\ UNCHANGED special
      <4>1. client # "iterator"
        BY <3>2
      <4> QED
        BY <3>2, <4>1, AddInstrView
    <3> QED
      BY <2>1, <3>1, <3>2
  <2>4. cursor' \in DOMAIN body
    BY <1>2, <2>1
  <2> QED
    BY <1>1, <1>2, <2>1, <2>2, <2>3, <2>4 DEF Edited
<1>8. ASSUME NEW i \in DOMAIN body, NEW m \in Modes,
             lists' = [lists EXCEPT ![i][m] = <<>>],
             \/ some' = [some EXCEPT ![i] = @ \ {m}] /\ special' = special
             \/ /\ some' = [some EXCEPT ![i] = @ \cup {m}] /\ m \in Optional
                /\ special' = (special \/ (client = "iterator" /\ m = "block_alt"))
      PROVE  ListChanged(i, m)
  <2>1. /\ DOMAIN lists' = DOMAIN lists /\ DOMAIN some' = DOMAIN some
        /\ DOMAIN lists'[i] = DOMAIN lists[i] /\ lists'[i][m] = <<>>
    BY <1>2, <1>8
  <2>2. \A j \in DOMAIN body \ {i} : lists'[j] = lists[j] /\ some'[j] = some[j]
    BY <1>2, <1>8
  <2>3. \A k \in Modes \ {m} : lists'[i][k] = lists[i][k]
    BY <1>2, <1>8
  <2>4. \/ some'[i] = some[i] \ {m} /\ special' = special
        \/ /\ some'[i] = some[i] \cup {m} /\ m \in Optional
           /\ special' = (special \/ (client = "iterator" /\ m = "block_alt"))
    BY <1>2, <1>8
  <2> QED
    BY <2>1, <2>2, <2>3, <2>4 DEF ListChanged
<1>9. ASSUME NEW i \in DOMAIN body, NEW m \in Modes, ClearInstrAt(i, m) PROVE Edited
  <2>1. /\ lists' = [lists EXCEPT ![i][m] = <<>>] /\ some' = [some EXCEPT ![i] = @ \ {m}]
        /\ special' = special /\ UNCHANGED <<client, body, modes, funcMode, cursor>>
    BY <1>9 DEF ClearInstrAt
  <2>2. ListChanged(i, m)
    BY <1>8, <2>1
  <2> QED
    BY <1>1, <1>2, <2>1, <2>2 DEF Edited
<1>10. ASSUME NEW i \in DOMAIN body, NEW m \in Modes, m \in Optional, EmptyAt(i, m) PROVE Edited
  <2>1. /\ lists' = [lists EXCEPT ![i][m] = <<>>] /\ some' = [some EXCEPT ![i] = @ \cup {m}]
        /\ special' = (special \/ (client = "iterator" /\ m = "block_alt"))
        /\ UNCHANGED <<client, body, modes, funcMode, cursor>>
    BY <1>10 DEF EmptyAt
  <2>2. ListChanged(i, m)
    BY <1>8, <1>10, <2>1
  <2> QED
    BY <1>1, <1>2, <2>1, <2>2 DEF Edited
<1> QED
  BY <1>1, <1>3, <1>4, <1>5, <1>6, <1>7, <1>9, <1>10 DEF Instrument
\* The instruction the pass is at goes, with its special bodies, or stays.
Removed(i) == some'[i] = {"alternate"} /\ \A m \in SpecialModes : lists'[i][m] = <<>>
Kept(i) ==
    /\ some'[i] = some[i]
    /\ \A m \in SpecialModes \ Optional : lists'[i][m] = <<>>
    /\ \A m \in Optional : lists'[i][m] = lists[i][m]
\* The stack and the block that is deleted, by class of instruction.
Deletes(b) == deleteBlock = {} /\ deleteBlock' = {b} /\ (retainEnd' <=> body[idx].op = "else")
SameDeletion == deleteBlock' = deleteBlock /\ retainEnd' = retainEnd
Opened ==
    /\ body[idx].op \in Opening
    /\ blockStack' = Append(blockStack, Len(blockStack))
    /\ \/ Removed(idx) /\ "block_alt" \in some[idx] /\ Deletes(Len(blockStack))
       \/ Removed(idx) /\ deleteBlock # {} /\ SameDeletion
       \/ Kept(idx) /\ deleteBlock = {} /\ "block_alt" \notin some[idx] /\ SameDeletion
Elsed ==
    /\ body[idx].op = "else"
    /\ blockStack' = blockStack
    /\ \/ Removed(idx) /\ "block_alt" \in some[idx] /\ Deletes(Last(blockStack))
       \/ Removed(idx) /\ deleteBlock # {} /\ SameDeletion
       \/ Kept(idx) /\ deleteBlock = {} /\ "block_alt" \notin some[idx] /\ SameDeletion
Ended ==
    LET block == Last(blockStack)
    IN  /\ body[idx].op = "end"
        /\ blockStack' = Front(blockStack)
        /\ \/ /\ Removed(idx) /\ deleteBlock # {} /\ deleteBlock' = deleteBlock \ {block}
              /\ IF deleteBlock = {block} THEN ~retainEnd ELSE (retainEnd' <=> retainEnd)
           \/ /\ Kept(idx) /\ deleteBlock' = {}
              /\ deleteBlock = {} \/ (deleteBlock = {block} /\ retainEnd)
Passed ==
    /\ body[idx].op \notin Structural
    /\ blockStack' = blockStack /\ SameDeletion
    /\ \/ Removed(idx) /\ deleteBlock # {}
       \/ Kept(idx) /\ deleteBlock = {}
Stepped ==
    /\ phase = "resolve" /\ idx' = idx + 1
    /\ phase' = IF idx = Len(body) THEN "done" ELSE phase
    /\ UNCHANGED <<client, body, modes, funcMode, special, cursor, asked>>
    /\ DOMAIN lists' = DOMAIN lists /\ DOMAIN some' = DOMAIN some
    /\ DOMAIN lists'[idx] = Modes
    /\ \A j \in DOMAIN body \ {idx} : lists'[j] = lists[j] /\ some'[j] = some[j]
    /\ Opened \/ Elsed \/ Ended \/ Passed

\* What the pass leaves of the lists of the instruction it is at.
TouchesOnlyHere ==
    /\ DOMAIN lists' = DOMAIN lists /\ DOMAIN some' = DOMAIN some
    /\ DOMAIN lists'[idx] = Modes
    /\ \A j \in DOMAIN body \ {idx} : lists'[j] = lists[j] /\ some'[j] = some[j]

LEMMA ListsFacts ==
    ASSUME TypeOK, Shape, phase = "resolve"
    PROVE  /\ idx \in DOMAIN body /\ DOMAIN lists = DOMAIN body /\ DOMAIN some = DOMAIN body
           /\ DOMAIN lists[idx] = Modes /\ special = TRUE
<1>1. idx \in DOMAIN body
  BY BodyFacts DEF Shape, TypeOK
<1>2. special = TRUE
  BY DEF Shape, TypeOK
<1> QED
  BY <1>1, <1>2 DEF Shape, TypeOK

LEMMA ClearedFacts ==
    ASSUME NEW l, DOMAIN l = Modes
    PROVE  /\ DOMAIN ClearSpecial(l) = Modes
           /\ \A m \in SpecialModes : ClearSpecial(l)[m] = <<>> /\ m \in Modes
           /\ "before" \notin SpecialModes /\ "alternate" \notin SpecialModes
<1>1. "before" \notin SpecialModes /\ "alternate" \notin SpecialModes
  BY DEF SpecialModes
<1>2. \A m \in SpecialModes : m \in Modes
  BY ModesFacts
<1> QED
  BY <1>1, <1>2 DEF ClearSpecial

LEMMA RemoveView ==
    ASSUME TypeOK, Shape, phase = "resolve", NEW x, RemoveInstr(x)
    PROVE  Removed(idx) /\ TouchesOnlyHere
<1> DEFINE c == [ClearSpecial(lists[idx]) EXCEPT !.before = x, !.alternate = <<>>]
<1>1. lists' = [lists EXCEPT ![idx] = c] /\ some' = [some EXCEPT ![idx] = {"alternate"}]
  BY DEF RemoveInstr
<1>2. DOMAIN c = Modes /\ \A m \in SpecialModes : c[m] = <<>>
  <2> DEFINE l == ClearSpecial(lists[idx])
  <2>1. /\ DOMAIN l = Modes /\ \A m \in SpecialModes : l[m] = <<>> /\ m \in Modes
        /\ "before" \notin SpecialModes /\ "alternate" \notin SpecialModes
    BY ListsFacts, ClearedFacts
  <2>2. c = [l EXCEPT !.before = x, !.alternate = <<>>]
    OBVIOUS
  <2> HIDE DEF l, c
  <2> QED
    BY <2>1, <2>2
<1> HIDE DEF c
<1> QED
  BY <1>1, <1>2, ListsFacts DEF Removed, TouchesOnlyHere

LEMMA ReplaceView ==
    ASSUME TypeOK, Shape, phase = "resolve", NEW x, NEW b, Replace(x, b)
    PROVE  Removed(idx) /\ TouchesOnlyHere /\ "block_alt" \in some[idx] /\ Deletes(b)
<1> DEFINE alt == lists[idx].block_alt
           y == IF alt = <<>> THEN <<>> ELSE lists[idx].alternate \o alt
           c == [ClearSpecial(lists[idx]) EXCEPT !.before = x, !.alternate = y]
<1>1. lists' = [lists EXCEPT ![idx] = c] /\ some' = [some EXCEPT ![idx] = {"alternate"}]
  BY DEF Replace
<1>2. DOMAIN c = Modes /\ \A m \in SpecialModes : c[m] = <<>>
  <2> DEFINE l == ClearSpecial(lists[idx])
  <2>1. /\ DOMAIN l = Modes /\ \A m \in SpecialModes : l[m] = <<>> /\ m \in Modes
        /\ "before" \notin SpecialModes /\ "alternate" \notin SpecialModes
    BY ListsFacts, ClearedFacts
  <2>2. c = [l EXCEPT !.before = x, !.alternate = y]
    OBVIOUS
  <2> HIDE DEF l, y, c
  <2> QED
    BY <2>1, <2>2
<1> HIDE DEF c
<1>3. "block_alt" \in some[idx] /\ Deletes(b)
  BY DEF Replace, Deletes, RetainEnd, Op
<1> QED
  BY <1>1, <1>2, <1>3, ListsFacts DEF Removed, TouchesOnlyHere

LEMMA PlanView ==
    ASSUME TypeOK, Shape, phase = "resolve", NEW b, NEW x, NEW y, NEW p, NEW e, Plan(b, x, y, p, e)
    PROVE  Kept(idx) /\ TouchesOnlyHere
<1>1. PICK u, v :
        lists' = [lists EXCEPT ![idx] =
            [lists[idx] EXCEPT !.before = u, !.after = v,
                      !.semantic_after = <<>>, !.block_entry = <<>>, !.block_exit = <<>>]]
  BY Zenon DEF Plan
<1>2. some' = some
  BY DEF Plan
<1> DEFINE l == lists[idx]
           c == [l EXCEPT !.before = u, !.after = v,
                          !.semantic_after = <<>>, !.block_entry = <<>>, !.block_exit = <<>>]
<1>3. lists' = [lists EXCEPT ![idx] = c]
  BY <1>1
<1>4. DOMAIN l = Modes
  BY ListsFacts
<1> HIDE DEF l
<1>5. /\ DOMAIN c = Modes
      /\ \A m \in SpecialModes \ Optional : c[m] = <<>>
      /\ \A m \in Optional : c[m] = l[m]
  BY <1>4 DEF SpecialModes, Optional, Modes, PlainModes
<1> HIDE DEF c
<1> QED
  BY <1>2, <1>3, <1>5, ListsFacts DEF Kept, TouchesOnlyHere, l
LEMMA NextInstrView ==
    ASSUME Here
    PROVE  /\ phase = "resolve" /\ idx' = idx + 1
           /\ phase' = IF idx = Len(body) THEN "done" ELSE phase
           /\ UNCHANGED <<client, body, modes, funcMode, special, cursor, asked>>
BY DEF Here, NextInstr, callerVars

LEMMA OpenBlockView ==
    ASSUME TypeOK, Shape, OpenBlock
    PROVE  Opened /\ TouchesOnlyHere
<1> DEFINE before == lists[idx].before \o FuncCode(idx)
           top == Len(blockStack)
<1>1. /\ Here /\ body[idx].op \in Opening /\ blockStack' = Append(blockStack, top)
      /\ \/ Replace(before, top)
         \/ deleteBlock # {} /\ RemoveInstr(before) /\ UNCHANGED <<deleteBlock, retainEnd>>
         \/ /\ deleteBlock = {} /\ "block_alt" \notin some[idx]
            /\ Plan(top, before, lists[idx].after, onElseOrEnd, onEnd)
            /\ UNCHANGED <<deleteBlock, retainEnd>>
  BY DEF OpenBlock, Op
<1>2. phase = "resolve"
  BY <1>1, NextInstrView
<1>3. CASE Replace(before, top)
  <2>1. Removed(idx) /\ TouchesOnlyHere /\ "block_alt" \in some[idx] /\ Deletes(top)
    BY <1>2, <1>3, ReplaceView
  <2> QED
    BY <1>1, <2>1 DEF Opened
<1>4. CASE deleteBlock # {} /\ RemoveInstr(before) /\ UNCHANGED <<deleteBlock, retainEnd>>
  <2>1. Removed(idx) /\ TouchesOnlyHere
    BY <1>2, <1>4, RemoveView
  <2> QED
    BY <1>1, <1>4, <2>1 DEF Opened, SameDeletion
<1>5. CASE /\ deleteBlock = {} /\ "block_alt" \notin some[idx]
           /\ Plan(top, before, lists[idx].after, onElseOrEnd, onEnd)
           /\ UNCHANGED <<deleteBlock, retainEnd>>
  <2>1. Kept(idx) /\ TouchesOnlyHere
    BY <1>2, <1>5, PlanView
  <2> QED
    BY <1>1, <1>5, <2>1 DEF Opened, SameDeletion
<1> QED
  BY <1>1, <1>3, <1>4, <1>5

LEMMA AtElseView ==
    ASSUME TypeOK, Shape, AtElse
    PROVE  Elsed /\ TouchesOnlyHere
<1> DEFINE before == lists[idx].before \o FuncCode(idx) \o onElseOrEnd
           top == Last(blockStack)
<1>1. /\ Here /\ body[idx].op = "else" /\ blockStack' = blockStack
      /\ \/ Replace(before, top)
         \/ deleteBlock # {} /\ RemoveInstr(before) /\ UNCHANGED <<deleteBlock, retainEnd>>
         \/ /\ deleteBlock = {} /\ "block_alt" \notin some[idx]
            /\ Plan(top, before, lists[idx].after, <<>>, onEnd)
            /\ UNCHANGED <<deleteBlock, retainEnd>>
  BY DEF AtElse, Op
<1>2. phase = "resolve"
  BY <1>1, NextInstrView
<1>3. CASE Replace(before, top)
  <2>1. Removed(idx) /\ TouchesOnlyHere /\ "block_alt" \in some[idx] /\ Deletes(top)
    BY <1>2, <1>3, ReplaceView
  <2> QED
    BY <1>1, <2>1 DEF Elsed
<1>4. CASE deleteBlock # {} /\ RemoveInstr(before) /\ UNCHANGED <<deleteBlock, retainEnd>>
  <2>1. Removed(idx) /\ TouchesOnlyHere
    BY <1>2, <1>4, RemoveView
  <2> QED
    BY <1>1, <1>4, <2>1 DEF Elsed, SameDeletion
<1>5. CASE /\ deleteBlock = {} /\ "block_alt" \notin some[idx]
           /\ Plan(top, before, lists[idx].after, <<>>, onEnd)
           /\ UNCHANGED <<deleteBlock, retainEnd>>
  <2>1. Kept(idx) /\ TouchesOnlyHere
    BY <1>2, <1>5, PlanView
  <2> QED
    BY <1>1, <1>5, <2>1 DEF Elsed, SameDeletion
<1> QED
  BY <1>1, <1>3, <1>4, <1>5

LEMMA EndView ==
    ASSUME TypeOK, Shape, EndRemoved \/ EndKept
    PROVE  Ended /\ TouchesOnlyHere
<1> DEFINE block == Last(blockStack)
           due == onEnd[block]
           x == lists[idx].before \o FuncCode(idx) \o onElseOrEnd \o due.before
           y == lists[idx].after \o Chain(due.flagged) \o due.after
           e == [onEnd EXCEPT ![block] = Nothing]
<1>1. CASE EndRemoved
  <2>1. /\ Here /\ body[idx].op = "end" /\ blockStack' = Front(blockStack)
        /\ deleteBlock # {} /\ (deleteBlock = {block} => ~retainEnd)
        /\ RemoveInstr(lists[idx].before \o FuncCode(idx))
        /\ deleteBlock' = deleteBlock \ {block}
        /\ retainEnd' = (retainEnd \/ deleteBlock = {block})
    BY <1>1 DEF EndRemoved, Op
  <2>2. Removed(idx) /\ TouchesOnlyHere
    BY <2>1, NextInstrView, RemoveView
  <2>3. IF deleteBlock = {block} THEN ~retainEnd ELSE (retainEnd' <=> retainEnd)
    BY <2>1, Zenon
  <2> QED
    BY <2>1, <2>2, <2>3 DEF Ended
<1>2. CASE EndKept
  <2>1. /\ Here /\ body[idx].op = "end" /\ blockStack' = Front(blockStack)
        /\ deleteBlock = {} \/ (deleteBlock = {block} /\ retainEnd)
        /\ deleteBlock' = {}
        /\ Plan(block, x, y, <<>>, e)
    BY <1>2 DEF EndKept, Op
  <2> HIDE DEF x, y, e
  <2>2. Kept(idx) /\ TouchesOnlyHere
    BY <2>1, NextInstrView, PlanView
  <2> QED
    BY <2>1, <2>2 DEF Ended
<1> QED
  BY <1>1, <1>2

LEMMA OtherView ==
    ASSUME TypeOK, Shape, OtherRemoved \/ OtherKept
    PROVE  Passed /\ TouchesOnlyHere
<1> DEFINE before == lists[idx].before \o FuncCode(idx)
<1>1. CASE OtherRemoved
  <2>1. /\ Here /\ body[idx].op \notin Structural /\ deleteBlock # {} /\ RemoveInstr(before)
        /\ UNCHANGED <<blockStack, deleteBlock, retainEnd>>
    BY <1>1 DEF OtherRemoved, Op
  <2>2. Removed(idx) /\ TouchesOnlyHere
    BY <2>1, NextInstrView, RemoveView
  <2> QED
    BY <2>1, <2>2 DEF Passed, SameDeletion
<1>2. CASE OtherKept
  <2>1. /\ Here /\ body[idx].op \notin Structural /\ deleteBlock = {}
        /\ Plan(Last(blockStack), before, lists[idx].after, onElseOrEnd, onEnd)
        /\ UNCHANGED <<blockStack, deleteBlock, retainEnd>>
    BY <1>2 DEF OtherKept, Op
  <2>2. Kept(idx) /\ TouchesOnlyHere
    BY <2>1, NextInstrView, PlanView
  <2> QED
    BY <2>1, <2>2 DEF Passed, SameDeletion
<1> QED
  BY <1>1, <1>2

LEMMA ResolveView ==
    ASSUME TypeOK, Shape, Resolve
    PROVE  Stepped
<1>1. Here
  BY DEF Resolve, OpenBlock, AtElse, EndRemoved, EndKept, OtherRemoved, OtherKept
<1>2. TouchesOnlyHere /\ (Opened \/ Elsed \/ Ended \/ Passed)
  BY OpenBlockView, AtElseView, EndView, OtherView DEF Resolve
<1> QED
  BY <1>1, <1>2, NextInstrView DEF Stepped, TouchesOnlyHere

\* Writing and running the function leaves the pass's state as it is.
Rested ==
    /\ UNCHANGED <<callerVars, passVars, idx, lists, some, asked>>
    /\ phase' = phase \/ (phase = "done" /\ phase' = "run")

LEMMA StepView ==
    ASSUME TypeOK, Shape, [RunNext]_<<vars, written, runVars>>
    PROVE  Edited \/ Begin \/ Stepped \/ Rested
<1>1. CASE Prepare
  BY <1>1, EditView, ResolveView DEF Prepare
<1>2. CASE Write
  BY <1>2 DEF Write, Rested, Done
<1>3. CASE Run
  BY <1>3 DEF Run, Rested
<1>4. CASE UNCHANGED <<vars, written, runVars>>
  BY <1>4 DEF vars, apiVars, callerVars, Rested
<1> QED
  BY <1>1, <1>2, <1>3, <1>4 DEF RunNext
(***************************************************************************)
(* TypeOK, Shape and Told are inductive.                                   *)
(***************************************************************************)
LEMMA SpecialByLists ==
    ASSUME NEW i, NEW j,
           \A m \in SpecialModes \ Optional : lists'[i][m] = lists[j][m],
           "block_alt" \in some'[i] <=> "block_alt" \in some[j]
    PROVE  HasSpecial(i)' <=> HasSpecial(j)
BY DEF HasSpecial

LEMMA InitIsTyped ==
    ASSUME RunInit
    PROVE  TypeOK /\ Shape /\ Told
<1>1. /\ client \in Clients /\ \E t \in Tasks : body = t.code
      /\ lists = [i \in DOMAIN body |-> NoLists]
      /\ some = [i \in DOMAIN body |-> {}]
      /\ modes = [i \in DOMAIN body |-> IF client = "modifier" /\ i = Len(body) THEN "before" ELSE None]
      /\ cursor = IF client = "modifier" THEN Len(body) ELSE 1
      /\ funcMode = None /\ special = FALSE
      /\ phase = "edit" /\ idx = 1 /\ blockStack = <<0>> /\ deleteBlock = {}
  BY DEF RunInit, ResolverInit, Init
<1>2. body \in Seq(Instrs) /\ WellFormed(body)
  BY <1>1, TasksAssumption
<1>3. Len(body) \in Nat \ {0} /\ DOMAIN body = 1 .. Len(body) /\ Level(body, 1) = 1
  BY <1>2, WellFormedLevels, LevelSteps
<1>4. "before" \in Modes
  BY DEF Modes, PlainModes
<1>5. Shape
  <2>1. client \in {"iterator", "modifier"}
    BY <1>1, ClientsAssumption
  <2>2. DOMAIN lists = DOMAIN body /\ DOMAIN some = DOMAIN body /\ DOMAIN modes = DOMAIN body
    BY <1>1
  <2>3. cursor \in DOMAIN body
    BY <1>1, <1>3
  <2>4. Len(blockStack) = Level(body, idx)
    BY <1>1, <1>3
  <2> QED
    BY <1>1, <2>1, <2>2, <2>3, <2>4 DEF Shape
<1>6. \A i \in DOMAIN body : lists[i] = NoLists /\ some[i] = {} /\ modes[i] \in Modes \cup {None}
  BY <1>1, <1>4
<1>7. TypeOK
  <2>1. idx \in 1 .. Len(body) + 1
    BY <1>1, <1>3
  <2>2. \A m \in Optional : NoLists[m] = <<>>
    BY ModesFacts DEF NoLists
  <2>3. \A i \in DOMAIN body :
          /\ DOMAIN lists[i] = Modes /\ some[i] \subseteq Optional /\ modes[i] \in Modes \cup {None}
          /\ \A m \in Optional \ some[i] : lists[i][m] = <<>>
    BY <1>6, <2>2 DEF NoLists
  <2>4. blockStack \in Seq(Nat) /\ \A k \in DOMAIN blockStack : blockStack[k] = k - 1
    BY <1>1
  <2>5. deleteBlock \subseteq RunOf(blockStack) /\ Cardinality(deleteBlock) <= 1
    BY <1>1, FS_EmptySet
  <2> QED
    BY <1>1, <2>1, <2>3, <2>4, <2>5 DEF TypeOK
<1>8. Told
  <2>1. \A m \in SpecialModes : NoLists[m] = <<>>
    BY ModesFacts DEF NoLists
  <2> QED
    BY <1>6, <2>1 DEF Told, HasSpecial
<1> QED
  BY <1>5, <1>7, <1>8

LEMMA EditedKeepsTyped ==
    ASSUME TypeOK, Shape, Told, Edited
    PROVE  TypeOK' /\ Shape' /\ Told'
<1>1. /\ phase = "edit" /\ phase' = phase /\ client' = client /\ body' = body /\ idx' = idx
      /\ blockStack' = blockStack /\ deleteBlock' = deleteBlock
      /\ DOMAIN modes' = DOMAIN modes /\ \A i \in DOMAIN body : modes'[i] \in Modes \cup {None}
      /\ cursor' \in DOMAIN body /\ funcMode' \in FuncModes \cup {None}
      /\ SameLists \/ \E i \in DOMAIN body, m \in Modes : ListChanged(i, m)
  BY DEF Edited, passVars
<1>2. /\ DOMAIN lists = DOMAIN body /\ DOMAIN some = DOMAIN body /\ special \in BOOLEAN
      /\ client \in {"iterator", "modifier"}
  BY DEF Shape
<1>3. \A i \in DOMAIN body :
         /\ DOMAIN lists[i] = Modes /\ some[i] \subseteq Optional
         /\ \A m \in Optional \ some[i] : lists[i][m] = <<>>
  BY DEF TypeOK
<1> DEFINE typed ==
              /\ special' \in BOOLEAN
              /\ DOMAIN lists' = DOMAIN body /\ DOMAIN some' = DOMAIN body
              /\ \A i \in DOMAIN body :
                    /\ DOMAIN lists'[i] = Modes /\ some'[i] \subseteq Optional
                    /\ \A m \in Optional \ some'[i] : lists'[i][m] = <<>>
<1>4. ASSUME SameLists PROVE typed /\ Told'
  <2>1. typed
    BY <1>2, <1>3, <1>4 DEF SameLists
  <2>2. Told'
    <3> SUFFICES ASSUME client = "iterator", ~special', NEW i \in DOMAIN body
                 PROVE  ~HasSpecial(i)'
      BY <1>1 DEF Told
    <3>1. ~special /\ lists' = lists /\ some' = some
      BY <1>4 DEF SameLists
    <3> QED
      BY <3>1 DEF Told, HasSpecial
  <2> QED
    BY <2>1, <2>2
<1>5. ASSUME NEW i \in DOMAIN body, NEW m \in Modes, ListChanged(i, m)
      PROVE  typed /\ Told'
  <2>1. /\ DOMAIN lists' = DOMAIN body /\ DOMAIN some' = DOMAIN body
        /\ DOMAIN lists'[i] = Modes
        /\ \A j \in DOMAIN body \ {i} : lists'[j] = lists[j] /\ some'[j] = some[j]
        /\ \A k \in Modes \ {m} : lists'[i][k] = lists[i][k]
    BY <1>2, <1>3, <1>5 DEF ListChanged
  <2>2. \/ /\ some'[i] = some[i] \cup ({m} \cap Optional)
           /\ client = "iterator" => special' = (special \/ m \in SpecialModes)
           /\ client = "modifier" => special' = special \/ special' = (special \/ m \in SpecialModes)
        \/ lists'[i][m] = <<>> /\ some'[i] = some[i] \ {m} /\ special' = special
        \/ /\ lists'[i][m] = <<>> /\ m \in Optional /\ some'[i] = some[i] \cup {m}
           /\ special' = (special \/ (client = "iterator" /\ m = "block_alt"))
    BY <1>5 DEF ListChanged
  <2>3. special' \in BOOLEAN
    BY <1>2, <2>2
  <2>4. some'[i] \subseteq Optional
    BY <1>3, <2>2
  <2>5. \A k \in Optional \ some'[i] : lists'[i][k] = <<>>
    <3> SUFFICES ASSUME NEW k \in Optional, k \notin some'[i] PROVE lists'[i][k] = <<>>
      OBVIOUS
    <3>1. k \in Modes
      BY ModesFacts
    <3>2. CASE k = m
      BY <2>2, <3>2
    <3>3. CASE k # m
      <4>1. k \notin some[i]
        BY <2>2, <3>3
      <4> QED
        BY <1>3, <2>1, <3>1, <3>3, <4>1
    <3> QED
      BY <3>2, <3>3
  <2>6. typed
    BY <1>3, <2>1, <2>3, <2>4, <2>5
  <2>7. Told'
    <3> SUFFICES ASSUME client = "iterator", ~special', NEW j \in DOMAIN body
                 PROVE  ~HasSpecial(j)'
      BY <1>1 DEF Told
    <3>0. ~special
      BY <1>2, <2>2
    <3>1. ~HasSpecial(j) /\ ~HasSpecial(i)
      BY <3>0 DEF Told
    <3>2. CASE j # i
      BY <2>1, <3>1, <3>2 DEF HasSpecial
    <3>3. CASE j = i
      <4>1. \A k \in SpecialModes \ Optional : lists[i][k] = <<>>
        BY <3>1 DEF HasSpecial
      <4>2. "block_alt" \notin some[i]
        BY <3>1 DEF HasSpecial
      <4>3. \A k \in SpecialModes \ Optional : lists'[i][k] = <<>>
        BY <2>1, <2>2, <3>0, <4>1, ModesFacts
      <4>4. "block_alt" \notin some'[i]
        BY <2>2, <4>2, ModesFacts
      <4> QED
        BY <3>3, <4>3, <4>4 DEF HasSpecial
    <3> QED
      BY <3>2, <3>3
  <2> QED
    BY <2>6, <2>7
<1>6. typed /\ Told'
  BY <1>1, <1>4, <1>5
<1> HIDE DEF typed
<1>7. Shape'
  BY <1>1, <1>6 DEF Shape, typed
<1>8. TypeOK'
  BY <1>1, <1>6 DEF TypeOK, typed, RunOf
<1> QED
  BY <1>6, <1>7, <1>8

LEMMA BeginKeepsTyped ==
    ASSUME TypeOK, Shape, Told, Begin
    PROVE  TypeOK' /\ Shape' /\ Told'
<1>1. /\ phase = "edit" /\ phase' = IF special THEN "resolve" ELSE "done"
      /\ funcMode' = IF special THEN None ELSE funcMode
      /\ UNCHANGED <<client, body, lists, some, modes, special, cursor, idx>>
      /\ blockStack' = blockStack /\ deleteBlock' = deleteBlock
  BY DEF Begin, passVars
<1>2. idx = 1 /\ Len(body) \in Nat \ {0} /\ deleteBlock = {} /\ special \in BOOLEAN
  BY <1>1, BodyFacts DEF Shape
<1>3. Shape'
  BY <1>1, <1>2 DEF Shape
<1>4. TypeOK'
  BY <1>1, <1>2 DEF TypeOK, RunOf
<1>5. Told'
  BY <1>1 DEF Told, HasSpecial
<1> QED
  BY <1>3, <1>4, <1>5

LEMMA RestedKeepsTyped ==
    ASSUME TypeOK, Shape, Told, Rested
    PROVE  TypeOK' /\ Shape' /\ Told'
<1>1. /\ UNCHANGED <<client, body, lists, some, modes, special, funcMode, cursor, idx, blockStack, deleteBlock>>
      /\ phase' = phase \/ (phase = "done" /\ phase' = "run")
  BY DEF Rested, callerVars, passVars
<1>2. Shape'
  BY <1>1 DEF Shape
<1>3. TypeOK'
  BY <1>1 DEF TypeOK, RunOf
<1>4. Told'
  BY <1>1 DEF Told, HasSpecial
<1> QED
  BY <1>2, <1>3, <1>4
\* The stack holds one number for every open block, so its top is the number of the block
\* the instruction is in.
LEMMA StackFacts ==
    ASSUME TypeOK, Shape, phase = "resolve"
    PROVE  /\ idx \in DOMAIN body /\ idx + 1 \in 1 .. Len(body) + 1 /\ idx \in Nat
           /\ Len(blockStack) \in Nat \ {0} /\ Len(blockStack) = Level(body, idx)
           /\ DOMAIN blockStack = 1 .. Len(blockStack)
           /\ \A k \in DOMAIN blockStack : blockStack[k] = k - 1
           /\ Last(blockStack) = Level(body, idx) - 1
<1>1. idx \in DOMAIN body
  BY ListsFacts
<1>2. idx \in Nat /\ idx + 1 \in 1 .. Len(body) + 1
  BY <1>1, BodyFacts
<1>3. blockStack \in Seq(Nat) /\ \A k \in DOMAIN blockStack : blockStack[k] = k - 1
  BY DEF TypeOK
<1>4. Len(blockStack) = Level(body, idx) /\ Level(body, idx) > 0
  BY <1>1, BodyFacts, WellFormedLevels DEF Shape
<1>5. Len(blockStack) \in Nat \ {0} /\ DOMAIN blockStack = 1 .. Len(blockStack)
  BY <1>3, <1>4
<1>6. Last(blockStack) = Len(blockStack) - 1
  <2>1. Len(blockStack) \in DOMAIN blockStack
    BY <1>5
  <2> QED
    BY <1>3, <2>1 DEF Last
<1> QED
  BY <1>1, <1>2, <1>3, <1>4, <1>5, <1>6

LEMMA SteppedStack ==
    ASSUME TypeOK, Shape, Stepped
    PROVE  /\ blockStack' \in Seq(Nat) /\ \A k \in DOMAIN blockStack' : blockStack'[k] = k - 1
           /\ Len(blockStack') = Level(body, idx + 1)
<1>1. phase = "resolve" /\ blockStack \in Seq(Nat)
  BY DEF Stepped, TypeOK
<1> DEFINE s == blockStack
           n == Len(s)
           t == blockStack'
           was == Level(body, idx)
           is == Level(body, idx + 1)
<1>2. n \in Nat \ {0} /\ n = was /\ DOMAIN s = 1 .. n /\ \A k \in 1 .. n : s[k] = k - 1
  BY <1>1, StackFacts
<1>3. /\ body[idx].op \in Opening => is = was + 1
      /\ body[idx].op = "end" => is = was - 1
      /\ body[idx].op \notin Opening \cup {"end"} => is = was
  BY <1>1, StackFacts, BodyFacts, LevelSteps
<1>4. CASE Opened
  <2>1. t = Append(s, n) /\ is = was + 1
    BY <1>3, <1>4 DEF Opened
  <2>2. t \in Seq(Nat) /\ Len(t) = n + 1 /\ DOMAIN t = 1 .. n + 1
    BY <1>1, <1>2, <2>1
  <2>3. \A k \in 1 .. n + 1 : t[k] = k - 1
    BY <1>1, <1>2, <2>1
  <2> HIDE DEF was, is
  <2>4. Len(t) = is
    BY <1>2, <2>1, <2>2
  <2> QED
    BY <2>2, <2>3, <2>4 DEF is
<1>5. CASE Elsed \/ Passed
  <2>1. t = s
    BY <1>5 DEF Elsed, Passed
  <2>2. body[idx].op \notin Opening \cup {"end"}
    BY <1>5 DEF Elsed, Passed, Opening, Structural, BlockStyle
  <2>3. is = was
    BY <1>3, <2>2
  <2> QED
    BY <1>1, <1>2, <2>1, <2>3
<1>6. CASE Ended
  <2>1. t = Front(s) /\ is = was - 1
    BY <1>3, <1>6 DEF Ended
  <2>2. t = SubSeq(s, 1, n - 1)
    BY <2>1 DEF Front
  <2>3. t \in Seq(Nat) /\ Len(t) = n - 1 /\ DOMAIN t = 1 .. n - 1
    BY <1>1, <1>2, <2>2
  <2>4. \A k \in 1 .. n - 1 : t[k] = k - 1
    BY <1>1, <1>2, <2>2
  <2> HIDE DEF was, is
  <2>5. Len(t) = is
    BY <1>2, <2>1, <2>3
  <2> QED
    BY <2>3, <2>4, <2>5 DEF is
<1> QED
  BY <1>4, <1>5, <1>6 DEF Stepped

LEMMA SteppedDeletion ==
    ASSUME TypeOK, Shape, Stepped
    PROVE  deleteBlock' \subseteq RunOf(blockStack') /\ Cardinality(deleteBlock') <= 1
<1>1. phase = "resolve" /\ blockStack \in Seq(Nat)
  BY DEF Stepped, TypeOK
<1> DEFINE s == blockStack
           n == Len(s)
           t == blockStack'
<1>2. /\ n \in Nat \ {0} /\ DOMAIN s = 1 .. n /\ Last(s) = n - 1
      /\ \A k \in 1 .. n : s[k] = k - 1
  BY <1>1, StackFacts
<1>3. deleteBlock \subseteq RunOf(s) /\ Cardinality(deleteBlock) <= 1
  BY DEF TypeOK
<1>4. \A b : Cardinality({b}) = 1 /\ IsFiniteSet({b})
  BY FS_Singleton
<1>5. CASE Opened
  <2>1. t = Append(s, n)
    BY <1>5 DEF Opened
  <2>2. n + 1 \in DOMAIN t /\ t[n + 1] = n /\ \A k \in DOMAIN s : k \in DOMAIN t /\ t[k] = s[k]
    BY <1>1, <1>2, <2>1
  <2>3. RunOf(s) \subseteq RunOf(t) /\ n \in RunOf(t)
    BY <2>2 DEF RunOf
  <2>4. deleteBlock' = {n} \/ deleteBlock' = deleteBlock
    BY <1>5 DEF Opened, Deletes, SameDeletion
  <2>5. Cardinality({n}) <= 1
    <3>1. Cardinality({n}) = 1
      BY <1>4, Zenon
    <3> QED
      BY <3>1
  <2>6. Cardinality(deleteBlock') <= 1
    <3>1. CASE deleteBlock' = {n}
      BY <2>5, <3>1, Zenon
    <3>2. CASE deleteBlock' = deleteBlock
      BY <1>3, <3>2, Zenon
    <3> QED
      BY <2>4, <3>1, <3>2, Zenon
  <2>7. deleteBlock' \subseteq RunOf(t)
    <3> HIDE DEF n, s, t
    <3>1. CASE deleteBlock' = {n}
      BY <2>3, <3>1
    <3>2. CASE deleteBlock' = deleteBlock
      BY <1>3, <2>3, <3>2
    <3> QED
      BY <2>4, <3>1, <3>2, Zenon
  <2> QED
    BY <2>6, <2>7
<1>6. CASE Elsed \/ Passed
  <2>1. t = s /\ (deleteBlock' = {Last(s)} \/ deleteBlock' = deleteBlock)
    BY <1>6 DEF Elsed, Passed, Deletes, SameDeletion
  <2>2. Last(s) \in RunOf(s)
    <3>1. n \in DOMAIN s
      BY <1>2
    <3> QED
      BY <3>1 DEF Last, RunOf
  <2>3. Cardinality({Last(s)}) <= 1
    <3>1. Cardinality({Last(s)}) = 1
      BY <1>4, Zenon
    <3> QED
      BY <3>1
  <2>4. Cardinality(deleteBlock') <= 1
    BY <1>3, <2>1, <2>3
  <2>5. deleteBlock' \subseteq RunOf(t)
    BY <1>3, <2>1, <2>2
  <2> QED
    BY <2>4, <2>5
<1>7. CASE Ended
  <2>1. t = Front(s) /\ (deleteBlock' = deleteBlock \ {Last(s)} \/ deleteBlock' = {})
    BY <1>7 DEF Ended
  <2>2. \A k \in 1 .. n - 1 : k \in DOMAIN t /\ t[k] = s[k]
    BY <1>1, <1>2, <2>1 DEF Front
  <2>3. ASSUME NEW b \in deleteBlock \ {Last(s)} PROVE b \in RunOf(t)
    <3>1. PICK k \in DOMAIN s : b = s[k]
      BY <1>3 DEF RunOf
    <3>2. k \in 1 .. n /\ k # n
      BY <1>2, <2>3, <3>1
    <3>3. k \in 1 .. n - 1
      BY <1>2, <3>2
    <3> QED
      BY <2>2, <3>1, <3>3 DEF RunOf
  <2>4. IsFiniteSet(deleteBlock)
    <3>1. IsFiniteSet(1 .. n)
      BY <1>2, FS_Interval
    <3>2. RunOf(s) \subseteq 0 .. n - 1
      BY <1>2 DEF RunOf
    <3>3. IsFiniteSet(0 .. n - 1)
      BY <1>2, FS_Interval
    <3> QED
      BY <1>3, <3>2, <3>3, FS_Subset
  <2>5. Cardinality(deleteBlock \ {Last(s)}) <= Cardinality(deleteBlock)
    BY <2>4, FS_Subset
  <2>6. /\ Cardinality(deleteBlock) \in Nat /\ Cardinality(deleteBlock \ {Last(s)}) \in Nat
        /\ Cardinality({}) = 0
    <3>1. IsFiniteSet(deleteBlock \ {Last(s)})
      BY <2>4, FS_Subset
    <3> QED
      BY <2>4, <3>1, FS_CardinalityType, FS_EmptySet
  <2>7. Cardinality(deleteBlock \ {Last(s)}) <= 1
    BY <1>3, <2>5, <2>6
  <2> QED
    BY <2>1, <2>3, <2>6, <2>7
<1> QED
  BY <1>5, <1>6, <1>7 DEF Stepped

LEMMA SteppedKeepsTyped ==
    ASSUME TypeOK, Shape, Told, Stepped
    PROVE  TypeOK' /\ Shape' /\ Told'
<1>1. /\ phase = "resolve" /\ idx' = idx + 1
      /\ phase' = IF idx = Len(body) THEN "done" ELSE phase
      /\ UNCHANGED <<client, body, modes, funcMode, special, cursor>>
      /\ DOMAIN lists' = DOMAIN lists /\ DOMAIN some' = DOMAIN some
      /\ DOMAIN lists'[idx] = Modes
      /\ \A j \in DOMAIN body \ {idx} : lists'[j] = lists[j] /\ some'[j] = some[j]
      /\ Removed(idx) \/ Kept(idx)
  BY DEF Stepped, Opened, Elsed, Ended, Passed
<1>2. /\ idx \in DOMAIN body /\ idx \in Nat /\ idx + 1 \in 1 .. Len(body) + 1
      /\ Len(body) \in Nat /\ DOMAIN body = 1 .. Len(body) /\ special = TRUE /\ funcMode = None
  BY <1>1, StackFacts, BodyFacts, ListsFacts DEF TypeOK
<1>3. \A i \in DOMAIN body :
         /\ DOMAIN lists'[i] = Modes /\ some'[i] \subseteq Optional
         /\ \A m \in Optional \ some'[i] : lists'[i][m] = <<>>
  <2> TAKE i \in DOMAIN body
  <2>1. CASE i # idx
    BY <1>1, <2>1 DEF TypeOK
  <2>2. CASE i = idx
    <3>1. CASE Removed(idx)
      <4>1. {"alternate"} \subseteq Optional /\ Optional \ {"alternate"} \subseteq SpecialModes
        BY DEF Optional, SpecialModes
      <4> QED
        BY <1>1, <2>2, <3>1, <4>1 DEF Removed
    <3>2. CASE Kept(idx)
      BY <1>1, <1>2, <2>2, <3>2 DEF Kept, TypeOK
    <3> QED
      BY <1>1, <3>1, <3>2
  <2> QED
    BY <2>1, <2>2
<1>4. /\ blockStack' \in Seq(Nat) /\ \A k \in DOMAIN blockStack' : blockStack'[k] = k - 1
      /\ Len(blockStack') = Level(body, idx + 1)
  BY SteppedStack
<1>5. deleteBlock' \subseteq RunOf(blockStack') /\ Cardinality(deleteBlock') <= 1
  BY SteppedDeletion
<1>6. TypeOK'
  <2>1. phase' \in {"edit", "resolve", "done", "run"}
    BY <1>1
  <2>2. idx' \in 1 .. Len(body') + 1
    BY <1>1, <1>2
  <2>3. \A i \in DOMAIN body' :
          /\ DOMAIN lists'[i] = Modes /\ some'[i] \subseteq Optional /\ modes'[i] \in Modes \cup {None}
          /\ \A m \in Optional \ some'[i] : lists'[i][m] = <<>>
    BY <1>1, <1>3 DEF TypeOK
  <2>4. phase' = "resolve" => special' /\ funcMode' = None
    BY <1>1, <1>2
  <2>5. deleteBlock' \subseteq RunOf(blockStack)'
    BY <1>5 DEF RunOf
  <2> QED
    BY <1>4, <1>5, <2>1, <2>2, <2>3, <2>4, <2>5 DEF TypeOK
<1>7. Shape'
  <2>1. (\E t \in Tasks : body = t.code)' /\ client' \in {"iterator", "modifier"}
    BY <1>1 DEF Shape
  <2>2. /\ special' \in BOOLEAN /\ DOMAIN lists' = DOMAIN body' /\ DOMAIN some' = DOMAIN body'
        /\ DOMAIN modes' = DOMAIN body' /\ cursor' \in DOMAIN body'
        /\ funcMode' \in FuncModes \cup {None}
    BY <1>1, <1>2 DEF Shape
  <2>3. phase' # "edit" /\ (phase' = "resolve" => idx' <= Len(body'))
    BY <1>1, <1>2
  <2>4. phase' \in {"done", "run"} => special' /\ idx' = Len(body') + 1
    BY <1>1, <1>2
  <2>5. Len(blockStack') = Level(body', idx')
    BY <1>1, <1>4
  <2> QED
    BY <2>1, <2>2, <2>3, <2>4, <2>5 DEF Shape
<1>8. Told'
  BY <1>1, <1>2 DEF Told
<1> QED
  BY <1>6, <1>7, <1>8

LEMMA TypedInductive ==
    ASSUME TypeOK, Shape, Told, [RunNext]_<<vars, written, runVars>>
    PROVE  TypeOK' /\ Shape' /\ Told'
BY StepView, EditedKeepsTyped, BeginKeepsTyped, SteppedKeepsTyped, RestedKeepsTyped

(***************************************************************************)
(* What the pass deletes is what the block alternates replace.             *)
(***************************************************************************)
\* The alternate at i is being put in place of its block: the pass is inside it.
Deleting(i) ==
    /\ i < idx /\ idx <= Closing(body, i)
    /\ deleteBlock = {BlockLevel(body, i) - 1}
    /\ retainEnd <=> body[i].op = "else"
    /\ \A k \in AskedAlts : k < i => Closing(body, k) < i
Region ==
    phase # "edit" =>
      /\ deleteBlock # {} => \E i \in AskedAlts : Deleting(i)
      /\ deleteBlock = {} => \A k \in AskedAlts : k < idx => Closing(body, k) < idx
\* What is still to come is as the caller left it.
Given == phase # "edit" => \A i \in DOMAIN body : i >= idx => some[i] = asked.some[i]
\* What the pass has been through.
HandledAt(i) ==
    /\ HasSpecial(i) <=> /\ i \notin ReplacedInstrs
                         /\ body[i].op \notin BlockStyle /\ "block_alt" \in asked.some[i]
    /\ "alternate" \in some[i] <=> i \in ReplacedInstrs \/ "alternate" \in asked.some[i]
Handled == phase # "edit" => \A i \in DOMAIN body : i < idx => HandledAt(i)

LEMMA AltFacts ==
    ASSUME Shape, NEW k \in AskedAlts
    PROVE  /\ body \in Seq(Instrs) /\ WellFormed(body)
           /\ k \in DOMAIN body /\ body[k].op \in BlockStyle /\ k \in Nat
           /\ Closing(body, k) \in DOMAIN body /\ Closing(body, k) \in Nat /\ k < Closing(body, k)
           /\ BlockLevel(body, k) \in Int /\ Level(body, Closing(body, k)) = BlockLevel(body, k)
           /\ \A n \in DOMAIN body :
                n \in RegionOf(k) <=> /\ k <= n /\ n <= Closing(body, k)
                                      /\ body[k].op = "else" => n < Closing(body, k)
<1>1. /\ body \in Seq(Instrs) /\ WellFormed(body)
      /\ Len(body) \in Nat /\ DOMAIN body = 1 .. Len(body)
  BY BodyFacts
<1>2. k \in DOMAIN body /\ body[k].op \in BlockStyle /\ k \in Nat
  BY <1>1 DEF AskedAlts
<1> DEFINE c == Closing(body, k)
<1>3. c \in DOMAIN body /\ k < c /\ Level(body, c) = BlockLevel(body, k)
  BY <1>1, <1>2, InsideBlock
<1>4. BlockLevel(body, k) \in Int
  BY <1>1, <1>2, BlockLevelIsNext
<1>5. RegionOf(k) = k .. c - (IF body[k].op = "else" THEN 1 ELSE 0)
  BY DEF RegionOf
<1> HIDE DEF c
<1>6. c \in Nat
  BY <1>1, <1>3
<1>7. ASSUME NEW n \in DOMAIN body
      PROVE  n \in RegionOf(k) <=> k <= n /\ n <= c /\ (body[k].op = "else" => n < c)
  <2>1. n \in Nat
    BY <1>1
  <2> QED
    BY <1>2, <1>5, <1>6, <2>1
<1> QED
  BY <1>1, <1>2, <1>3, <1>4, <1>6, <1>7 DEF c

\* The instruction the pass is at, inside the block that is deleted.
LEMMA DeletingFacts ==
    ASSUME TypeOK, Shape, Stepped, NEW i \in AskedAlts, Deleting(i)
    PROVE  /\ deleteBlock # {}
           /\ idx \in RegionOf(i) <=> ~(body[i].op = "else" /\ idx = Closing(body, i))
           /\ idx = Closing(body, i) <=> Ended /\ deleteBlock = {Last(blockStack)}
           /\ body[Closing(body, i)].op = "end"
<1> DEFINE c == Closing(body, i)
           m == BlockLevel(body, i)
<1>1. phase = "resolve"
  BY DEF Stepped
<1>2. /\ idx \in DOMAIN body /\ idx \in Nat /\ Last(blockStack) = Level(body, idx) - 1
  BY <1>1, StackFacts
<1>3. /\ body \in Seq(Instrs) /\ WellFormed(body) /\ i \in DOMAIN body /\ body[i].op \in BlockStyle
      /\ c \in DOMAIN body /\ c \in Nat /\ m \in Int /\ i \in Nat
      /\ idx \in RegionOf(i) <=> i <= idx /\ idx <= c /\ (body[i].op = "else" => idx < c)
  BY <1>2, AltFacts
<1>4. /\ body[c].op = "end"
      /\ Level(body, c) = m
      /\ \A n \in DOMAIN body : i < n /\ n <= c =>
            (body[n].op = "end" /\ Level(body, n) = m => n = c)
  BY <1>3, InsideBlock
<1>5. i < idx /\ idx <= c /\ deleteBlock = {m - 1}
  BY DEF Deleting
<1>6. Level(body, idx) \in Int
  BY <1>2, <1>3, LevelSteps
<1> HIDE DEF c, m
<1>7. deleteBlock # {}
  BY <1>5
<1>8. idx \in RegionOf(i) <=> ~(body[i].op = "else" /\ idx = c)
  BY <1>2, <1>3, <1>5
<1>9. ASSUME idx = c PROVE Ended /\ deleteBlock = {Last(blockStack)}
  <2>1. body[idx].op = "end" /\ Level(body, idx) = m
    BY <1>4, <1>9
  <2>2. Ended
    BY <2>1 DEF Stepped, Opened, Elsed, Passed, Structural, BlockStyle, Opening
  <2> QED
    BY <1>2, <1>5, <2>1, <2>2
<1>10. ASSUME Ended, deleteBlock = {Last(blockStack)} PROVE idx = c
  <2>1. body[idx].op = "end"
    BY <1>10 DEF Ended
  <2>2. Last(blockStack) = m - 1
    BY <1>5, <1>10
  <2>3. Level(body, idx) = m
    BY <1>2, <1>3, <1>6, <2>2
  <2> QED
    BY <1>2, <1>4, <1>5, <2>1, <2>3
<1> QED
  BY <1>4, <1>7, <1>8, <1>9, <1>10 DEF c

\* Nothing is being deleted: the pass starts deleting at an instruction with an alternate
\* for its block, and keeps any other.
LEMMA Keeping ==
    ASSUME TypeOK, Shape, Given, Stepped, deleteBlock = {}
    PROVE  \/ /\ idx \in AskedAlts /\ Removed(idx)
              /\ deleteBlock' = {BlockLevel(body, idx) - 1}
              /\ retainEnd' <=> body[idx].op = "else"
           \/ /\ idx \notin AskedAlts /\ Kept(idx) /\ deleteBlock' = {}
              /\ body[idx].op \in BlockStyle => "block_alt" \notin some[idx]
<1>1. phase = "resolve"
  BY DEF Stepped
<1>2. /\ idx \in DOMAIN body /\ idx \in Nat /\ Last(blockStack) = Level(body, idx) - 1
      /\ Len(blockStack) = Level(body, idx)
  BY <1>1, StackFacts
<1>3. "block_alt" \in some[idx] <=> "block_alt" \in asked.some[idx]
  BY <1>1, <1>2 DEF Given
<1>4. idx \in AskedAlts <=> body[idx].op \in BlockStyle /\ "block_alt" \in some[idx]
  BY <1>2, <1>3 DEF AskedAlts
<1>5. body \in Seq(Instrs) /\ Level(body, idx) \in Int
  BY <1>2, BodyFacts, LevelSteps
<1>6. CASE Opened
  <2>1. body[idx].op \in BlockStyle /\ body[idx].op # "else"
    BY <1>6 DEF Opened, BlockStyle, Opening
  <2>2. BlockLevel(body, idx) - 1 = Len(blockStack)
    BY <1>2, <1>5, <2>1 DEF BlockLevel
  <2>3. CASE Removed(idx) /\ "block_alt" \in some[idx] /\ Deletes(Len(blockStack))
    BY <1>4, <2>1, <2>2, <2>3 DEF Deletes
  <2>4. CASE Kept(idx) /\ "block_alt" \notin some[idx] /\ SameDeletion
    BY <1>4, <2>1, <2>4 DEF SameDeletion
  <2> QED
    BY <1>6, <2>3, <2>4 DEF Opened
<1>7. CASE Elsed
  <2>1. body[idx].op = "else" /\ body[idx].op \in BlockStyle
    BY <1>7 DEF Elsed, BlockStyle
  <2>2. BlockLevel(body, idx) - 1 = Last(blockStack)
    BY <1>2, <1>5, <2>1 DEF BlockLevel
  <2>3. CASE Removed(idx) /\ "block_alt" \in some[idx] /\ Deletes(Last(blockStack))
    BY <1>4, <2>1, <2>2, <2>3 DEF Deletes
  <2>4. CASE Kept(idx) /\ "block_alt" \notin some[idx] /\ SameDeletion
    BY <1>4, <2>1, <2>4 DEF SameDeletion
  <2> QED
    BY <1>7, <2>3, <2>4 DEF Elsed
<1>8. CASE Ended \/ Passed
  <2>1. body[idx].op \notin BlockStyle
    BY <1>8 DEF Ended, Passed, Structural, BlockStyle, Opening
  <2>2. Kept(idx) /\ deleteBlock' = {}
    BY <1>8 DEF Ended, Passed, SameDeletion
  <2> QED
    BY <1>4, <2>1, <2>2
<1> QED
  BY <1>6, <1>7, <1>8 DEF Stepped

\* Inside the block that is deleted everything goes, up to its end; the end of an else that
\* is replaced stays, for it is the if's too.
LEMMA KeepsDeleting ==
    ASSUME TypeOK, Shape, Stepped, NEW i \in AskedAlts, Deleting(i)
    PROVE  \/ /\ idx # Closing(body, i) /\ Removed(idx)
              /\ deleteBlock' = deleteBlock /\ (retainEnd' <=> retainEnd)
           \/ /\ idx = Closing(body, i) /\ deleteBlock' = {} /\ body[idx].op = "end"
              /\ IF body[i].op = "else" THEN Kept(idx) ELSE Removed(idx)
<1> DEFINE c == Closing(body, i)
           b == Last(blockStack)
<1>1. /\ deleteBlock # {} /\ body[c].op = "end"
      /\ idx = c <=> Ended /\ deleteBlock = {b}
  BY DeletingFacts
<1>2. retainEnd <=> body[i].op = "else"
  BY DEF Deleting
<1>3. deleteBlock = {BlockLevel(body, i) - 1}
  BY DEF Deleting
<1> HIDE DEF c, b
<1>4. CASE Opened \/ Elsed \/ Passed
  <2>1. Removed(idx) /\ SameDeletion
    BY <1>1, <1>4 DEF Opened, Elsed, Passed, Deletes
  <2>2. body[idx].op # "end"
    BY <1>4 DEF Opened, Elsed, Passed, Opening, Structural
  <2>3. idx # c
    BY <1>1, <2>2
  <2> QED
    BY <2>1, <2>3 DEF SameDeletion, c
<1>5. CASE Ended
  <2>1. /\ body[idx].op = "end"
        /\ \/ /\ Removed(idx) /\ deleteBlock' = deleteBlock \ {b}
              /\ IF deleteBlock = {b} THEN ~retainEnd ELSE (retainEnd' <=> retainEnd)
           \/ /\ Kept(idx) /\ deleteBlock' = {}
              /\ deleteBlock = {b} /\ retainEnd
    BY <1>1, <1>5 DEF Ended, b
  <2>2. CASE deleteBlock = {b}
    <3>1. idx = c
      BY <1>1, <1>5, <2>2
    <3>2. deleteBlock' = {}
      BY <2>1, <2>2
    <3>3. IF body[i].op = "else" THEN Kept(idx) ELSE Removed(idx)
      BY <1>2, <2>1, <2>2, Zenon
    <3> QED
      BY <2>1, <3>1, <3>2, <3>3 DEF c
  <2>3. CASE deleteBlock # {b}
    <3>1. idx # c
      BY <1>1, <2>3
    <3>2. Removed(idx) /\ deleteBlock' = deleteBlock \ {b} /\ (retainEnd' <=> retainEnd)
      BY <2>1, <2>3, Zenon
    <3>3. deleteBlock' = deleteBlock
      BY <1>3, <2>3, <3>2
    <3> QED
      BY <3>1, <3>2, <3>3 DEF c
  <2> QED
    BY <2>2, <2>3
<1> QED
  BY <1>4, <1>5 DEF Stepped

\* The alternates of an if or else the pass is at the end of: those before it, and those in it.
LEMMA AltsBehind ==
    ASSUME Shape, NEW i \in AskedAlts, NEW k \in AskedAlts, k <= Closing(body, i),
           \A j \in AskedAlts : j < i => Closing(body, j) < i
    PROVE  /\ Closing(body, k) <= Closing(body, i)
           /\ body[i].op = "else" => Closing(body, i) \notin RegionOf(k)
<1> DEFINE c == Closing(body, i)
           ck == Closing(body, k)
<1>1. /\ body \in Seq(Instrs) /\ WellFormed(body) /\ i \in DOMAIN body /\ body[i].op \in BlockStyle
      /\ i \in Nat /\ c \in DOMAIN body /\ c \in Nat /\ i < c
      /\ c \in RegionOf(i) <=> i <= c /\ c <= c /\ (body[i].op = "else" => c < c)
  BY AltFacts
<1>2. /\ k \in DOMAIN body /\ body[k].op \in BlockStyle
      /\ k \in Nat /\ ck \in Nat
      /\ c \in RegionOf(k) <=> k <= c /\ c <= ck /\ (body[k].op = "else" => c < ck)
  BY <1>1, AltFacts
<1>3. CASE k < i
  <2>1. ck < i
    BY <1>3
  <2> HIDE DEF c, ck
  <2>2. ck < c
    BY <1>1, <1>2, <2>1
  <2> QED
    BY <1>1, <1>2, <2>2 DEF c, ck
<1>4. CASE k = i
  <2>1. c = ck
    BY <1>4
  <2> HIDE DEF c, ck
  <2>2. ~(c < c) /\ ck <= c
    BY <1>1, <2>1
  <2>3. body[i].op = "else" => c \notin RegionOf(k)
    BY <1>1, <1>4, <2>2
  <2> QED
    BY <2>2, <2>3 DEF c, ck
<1>5. CASE i < k
  <2>1. ck <= c /\ (body[k].op # "else" => ck < c)
    BY <1>1, <1>2, <1>5, NestedBlocks
  <2> HIDE DEF c, ck
  <2>2. c \notin RegionOf(k)
    BY <1>1, <1>2, <2>1
  <2> QED
    BY <2>1, <2>2 DEF c, ck
<1> QED
  BY <1>1, <1>2, <1>3, <1>4, <1>5

\* What goes is what an alternate replaces, what stays is not.
LEMMA RightlyRemoved ==
    ASSUME TypeOK, Shape, Region, Given, Stepped
    PROVE  \/ Removed(idx) /\ idx \in ReplacedInstrs
           \/ /\ Kept(idx) /\ idx \notin ReplacedInstrs
              /\ body[idx].op \in BlockStyle => "block_alt" \notin some[idx]
<1>1. phase = "resolve" /\ phase # "edit"
  BY DEF Stepped
<1>2. idx \in DOMAIN body /\ idx \in Nat
  BY <1>1, StackFacts
<1>3. idx \in ReplacedInstrs <=> \E k \in AskedAlts : idx \in RegionOf(k)
  BY DEF ReplacedInstrs
<1>4. CASE deleteBlock = {}
  <2>1. ASSUME NEW k \in AskedAlts, idx \in RegionOf(k) PROVE k = idx
    <3>1. k \in Nat /\ Closing(body, k) \in Nat /\ k <= idx /\ idx <= Closing(body, k)
      BY <1>2, <2>1, AltFacts
    <3>2. k < idx => Closing(body, k) < idx
      BY <1>1, <1>4 DEF Region
    <3> QED
      BY <1>2, <3>1, <3>2
  <2>2. CASE idx \in AskedAlts /\ Removed(idx)
    <3>1. idx <= idx /\ idx < Closing(body, idx) /\ Closing(body, idx) \in Nat
      BY <1>2, <2>2, AltFacts
    <3>2. idx \in RegionOf(idx)
      BY <1>2, <2>2, <3>1, AltFacts
    <3> QED
      BY <1>3, <2>2, <3>2
  <2>3. CASE /\ idx \notin AskedAlts /\ Kept(idx)
             /\ body[idx].op \in BlockStyle => "block_alt" \notin some[idx]
    BY <1>3, <2>1, <2>3
  <2> QED
    BY <1>4, <2>2, <2>3, Keeping
<1>5. CASE deleteBlock # {}
  <2>1. PICK i \in AskedAlts : Deleting(i)
    BY <1>1, <1>5 DEF Region
  <2>2. idx \in RegionOf(i) <=> ~(body[i].op = "else" /\ idx = Closing(body, i))
    BY <2>1, DeletingFacts
  <2>3. CASE idx # Closing(body, i) /\ Removed(idx)
    BY <1>3, <2>2, <2>3
  <2>4. CASE /\ idx = Closing(body, i) /\ body[idx].op = "end"
             /\ IF body[i].op = "else" THEN Kept(idx) ELSE Removed(idx)
    <3>1. CASE body[i].op # "else"
      BY <1>3, <2>2, <2>4, <3>1
    <3>2. CASE body[i].op = "else"
      <4>1. \A j \in AskedAlts : j < i => Closing(body, j) < i
        BY <2>1 DEF Deleting
      <4>2. ASSUME NEW k \in AskedAlts, idx \in RegionOf(k) PROVE FALSE
        <5>1. k <= idx
          BY <1>2, <4>2, AltFacts
        <5> QED
          BY <2>4, <3>2, <4>1, <4>2, <5>1, AltsBehind
      <4>3. body[idx].op \notin BlockStyle
        BY <2>4 DEF BlockStyle, Opening
      <4> QED
        BY <1>3, <2>4, <3>2, <4>2, <4>3
    <3> QED
      BY <3>1, <3>2
  <2> QED
    BY <2>1, <2>3, <2>4, KeepsDeleting
<1> QED
  BY <1>4, <1>5

\* The regions are read off the body and what was asked for, which the pass leaves alone.
LEMMA RegionsStay ==
    ASSUME body' = body, asked' = asked
    PROVE  /\ AskedAlts' = AskedAlts /\ ReplacedInstrs' = ReplacedInstrs
           /\ \A i : Closing(body, i)' = Closing(body, i) /\ BlockLevel(body, i)' = BlockLevel(body, i)
<1>1. AskedAlts' = AskedAlts
  BY DEF AskedAlts
<1>2. \A i : RegionOf(i)' = RegionOf(i)
  BY DEF RegionOf
<1>3. ReplacedInstrs' = ReplacedInstrs
  BY <1>1, <1>2, Zenon DEF ReplacedInstrs
<1> QED
  BY <1>1, <1>3

LEMMA RegionStep ==
    ASSUME TypeOK, Shape, Region, Given, Stepped
    PROVE  Region'
<1>1. phase = "resolve" /\ phase # "edit" /\ idx' = idx + 1 /\ body' = body /\ asked' = asked
  BY DEF Stepped
<1>2. idx \in DOMAIN body /\ idx \in Nat
  BY <1>1, StackFacts
<1>3. /\ AskedAlts' = AskedAlts
      /\ \A i : Closing(body', i) = Closing(body, i) /\ BlockLevel(body', i) = BlockLevel(body, i)
  BY <1>1, RegionsStay
<1> DEFINE going(i) ==
             /\ i < idx + 1 /\ idx + 1 <= Closing(body, i)
             /\ deleteBlock' = {BlockLevel(body, i) - 1}
             /\ retainEnd' <=> body[i].op = "else"
             /\ \A k \in AskedAlts : k < i => Closing(body, k) < i
           behind == \A k \in AskedAlts : k < idx + 1 => Closing(body, k) < idx + 1
<1>4. \/ deleteBlock' # {} /\ \E i \in AskedAlts : going(i)
      \/ deleteBlock' = {} /\ behind
  <2>1. CASE deleteBlock = {}
    <3>1. \A k \in AskedAlts : k < idx => Closing(body, k) < idx
      BY <1>1, <2>1 DEF Region
    <3>2. \A k \in AskedAlts : k \in Nat /\ Closing(body, k) \in Nat /\ k < Closing(body, k)
      BY AltFacts
    <3>3. CASE /\ idx \in AskedAlts /\ deleteBlock' = {BlockLevel(body, idx) - 1}
               /\ retainEnd' <=> body[idx].op = "else"
      <4>1. idx < idx + 1 /\ idx + 1 <= Closing(body, idx)
        BY <1>2, <3>2, <3>3
      <4>2. going(idx)
        BY <3>1, <3>3, <4>1
      <4> QED
        BY <3>3, <4>2
    <3>4. CASE idx \notin AskedAlts /\ deleteBlock' = {}
      <4>1. ASSUME NEW k \in AskedAlts, k < idx + 1 PROVE Closing(body, k) < idx + 1
        <5>1. k < idx
          BY <1>2, <3>2, <3>4, <4>1
        <5> QED
          BY <1>2, <3>1, <3>2, <5>1
      <4> QED
        BY <3>4, <4>1
    <3> QED
      BY <2>1, <3>3, <3>4, Keeping
  <2>2. CASE deleteBlock # {}
    <3>1. PICK i \in AskedAlts : Deleting(i)
      BY <1>1, <2>2 DEF Region
    <3>2. /\ i < idx /\ idx <= Closing(body, i)
          /\ deleteBlock = {BlockLevel(body, i) - 1}
          /\ retainEnd <=> body[i].op = "else"
          /\ \A k \in AskedAlts : k < i => Closing(body, k) < i
      BY <3>1 DEF Deleting
    <3>3. i \in Nat /\ Closing(body, i) \in Nat
      BY AltFacts
    <3>4. CASE /\ idx # Closing(body, i)
               /\ deleteBlock' = deleteBlock /\ (retainEnd' <=> retainEnd)
      <4>1. i < idx + 1 /\ idx + 1 <= Closing(body, i)
        BY <1>2, <3>2, <3>3, <3>4
      <4>2. going(i)
        BY <3>2, <3>4, <4>1
      <4> QED
        BY <2>2, <3>4, <4>2
    <3>5. CASE idx = Closing(body, i) /\ deleteBlock' = {}
      <4>1. ASSUME NEW k \in AskedAlts, k < idx + 1 PROVE Closing(body, k) < idx + 1
        <5>1. k \in Nat /\ Closing(body, k) \in Nat
          BY AltFacts
        <5>2. k <= Closing(body, i)
          BY <1>2, <3>5, <4>1, <5>1
        <5>3. Closing(body, k) <= Closing(body, i)
          BY <3>2, <5>2, AltsBehind
        <5> QED
          BY <1>2, <3>5, <5>1, <5>3
      <4> QED
        BY <3>5, <4>1
    <3> QED
      BY <3>1, <3>4, <3>5, KeepsDeleting
  <2> QED
    BY <2>1, <2>2
<1> HIDE DEF going, behind
<1>5. ASSUME NEW i \in AskedAlts, going(i) PROVE Deleting(i)'
  BY <1>1, <1>3, <1>5 DEF going, Deleting
<1>6. ASSUME behind PROVE \A k \in AskedAlts' : k < idx' => Closing(body, k)' < idx'
  BY <1>1, <1>3, <1>6 DEF behind
<1> QED
  BY <1>3, <1>4, <1>5, <1>6 DEF Region

LEMMA HandledStep ==
    ASSUME TypeOK, Shape, Region, Given, Handled, Stepped
    PROVE  Given' /\ Handled'
<1>1. /\ phase = "resolve" /\ phase # "edit" /\ idx' = idx + 1 /\ body' = body /\ asked' = asked
      /\ \A j \in DOMAIN body \ {idx} : lists'[j] = lists[j] /\ some'[j] = some[j]
  BY DEF Stepped
<1>2. idx \in DOMAIN body /\ idx \in Nat /\ DOMAIN body \subseteq Nat
  BY <1>1, StackFacts, BodyFacts
<1>3. ReplacedInstrs' = ReplacedInstrs
  BY <1>1, RegionsStay
<1>4. \A i \in DOMAIN body : i >= idx => some[i] = asked.some[i]
  BY <1>1 DEF Given
<1>5. Given'
  <2>1. ASSUME NEW i \in DOMAIN body, i >= idx + 1 PROVE some'[i] = asked.some[i]
    <3>1. i \in Nat /\ i >= idx /\ i # idx
      BY <1>2, <2>1
    <3> QED
      BY <1>1, <1>4, <3>1
  <2> QED
    BY <1>1, <2>1 DEF Given
<1>6. ASSUME NEW i \in DOMAIN body, i < idx PROVE HandledAt(i)'
  <2>1. HandledAt(i)
    BY <1>1, <1>6 DEF Handled
  <2>2. lists'[i] = lists[i] /\ some'[i] = some[i]
    BY <1>1, <1>2, <1>6
  <2>3. HasSpecial(i)' <=> HasSpecial(i)
    BY <2>2 DEF HasSpecial
  <2> QED
    BY <1>1, <1>3, <2>1, <2>2, <2>3 DEF HandledAt
<1>7. ASSUME NEW i \in DOMAIN body, i = idx PROVE HandledAt(i)'
  <2>1. some[i] = asked.some[i]
    BY <1>2, <1>4, <1>7
  <2>2. CASE Removed(idx) /\ idx \in ReplacedInstrs
    <3>1. some'[i] = {"alternate"} /\ \A m \in SpecialModes : lists'[i][m] = <<>>
      BY <1>7, <2>2 DEF Removed
    <3>2. ~HasSpecial(i)'
      BY <3>1 DEF HasSpecial
    <3> QED
      BY <1>1, <1>3, <1>7, <2>2, <3>1, <3>2 DEF HandledAt
  <2>3. CASE /\ Kept(idx) /\ idx \notin ReplacedInstrs
             /\ body[idx].op \in BlockStyle => "block_alt" \notin some[idx]
    <3>1. some'[i] = some[i] /\ \A m \in SpecialModes \ Optional : lists'[i][m] = <<>>
      BY <1>7, <2>3 DEF Kept
    <3>2. HasSpecial(i)' <=> "block_alt" \in some[i]
      BY <3>1 DEF HasSpecial
    <3> QED
      BY <1>1, <1>3, <1>7, <2>1, <2>3, <3>1, <3>2 DEF HandledAt
  <2> QED
    BY <2>2, <2>3, RightlyRemoved
<1>8. Handled'
  <2>1. ASSUME NEW i \in DOMAIN body, i < idx + 1 PROVE HandledAt(i)'
    <3>1. i \in Nat /\ (i = idx \/ i < idx)
      BY <1>2, <2>1
    <3> QED
      BY <1>6, <1>7, <3>1
  <2> QED
    BY <1>1, <2>1 DEF Handled
<1> QED
  BY <1>5, <1>8

Resolves == Region /\ Given /\ Handled

LEMMA BeginResolves ==
    ASSUME Shape, Begin
    PROVE  Resolves'
<1>1. /\ phase = "edit" /\ phase' # "edit" /\ body' = body /\ idx' = idx /\ some' = some
      /\ asked' = Ask /\ deleteBlock' = deleteBlock
  BY DEF Begin, passVars
<1>2. idx = 1 /\ deleteBlock = {} /\ DOMAIN body \subseteq Nat \ {0}
  BY <1>1, BodyFacts DEF Shape
<1>3. asked'.some = some
  BY <1>1 DEF Ask
<1>4. \A i \in DOMAIN body : ~(i < 1)
  BY <1>2
<1>5. AskedAlts' \subseteq DOMAIN body
  BY <1>1 DEF AskedAlts
<1>6. Region'
  <2>1. deleteBlock' = {}
    BY <1>1, <1>2
  <2>2. \A k \in AskedAlts' : ~(k < idx')
    BY <1>1, <1>2, <1>4, <1>5
  <2> QED
    BY <2>1, <2>2 DEF Region
<1>7. Given'
  BY <1>1, <1>3 DEF Given
<1>8. Handled'
  BY <1>1, <1>2, <1>4 DEF Handled
<1> QED
  BY <1>6, <1>7, <1>8 DEF Resolves

LEMMA RestedResolves ==
    ASSUME Resolves, Rested
    PROVE  Resolves'
<1>1. /\ UNCHANGED <<body, lists, some, idx, deleteBlock, retainEnd, asked>>
      /\ phase' = "edit" <=> phase = "edit"
  BY DEF Rested, callerVars, passVars
<1>2. /\ AskedAlts' = AskedAlts /\ ReplacedInstrs' = ReplacedInstrs
      /\ \A i : Closing(body, i)' = Closing(body, i) /\ BlockLevel(body, i)' = BlockLevel(body, i)
  BY <1>1, RegionsStay
<1>3. \A i : Deleting(i)' <=> Deleting(i)
  BY <1>1, <1>2 DEF Deleting
<1>4. Region'
  BY <1>1, <1>2, <1>3 DEF Resolves, Region
<1>5. Given'
  BY <1>1 DEF Resolves, Given
<1>6. \A i : HandledAt(i)' <=> HandledAt(i)
  BY <1>1, <1>2 DEF HandledAt, HasSpecial
<1>7. Handled'
  BY <1>1, <1>6 DEF Resolves, Handled
<1> QED
  BY <1>4, <1>5, <1>7 DEF Resolves

LEMMA ResolvesInductive ==
    ASSUME TypeOK, Shape, Resolves, [RunNext]_<<vars, written, runVars>>
    PROVE  Resolves'
<1>1. CASE Edited
  <2>1. phase' = "edit"
    BY <1>1 DEF Edited
  <2> QED
    BY <2>1 DEF Resolves, Region, Given, Handled
<1>2. CASE Begin
  BY <1>2, BeginResolves
<1>3. CASE Stepped
  BY <1>3, RegionStep, HandledStep DEF Resolves
<1>4. CASE Rested
  BY <1>4, RestedResolves
<1> QED
  BY <1>1, <1>2, <1>3, <1>4, StepView

LEMMA ResolvedIsWritten ==
    ASSUME TypeOK, Shape, Told, Resolves
    PROVE  IteratorCodeIsWritten
<1> SUFFICES ASSUME phase = "done", client = "iterator"
             PROVE  CheckFails <=> \E i \in DOMAIN body \ ReplacedInstrs :
                        body[i].op \notin BlockStyle /\ "block_alt" \in asked.some[i]
  BY DEF IteratorCodeIsWritten, Done
<1>1. Len(body) \in Nat /\ DOMAIN body = 1 .. Len(body)
  BY BodyFacts
<1>2. CASE special
  <2>1. idx = Len(body) + 1
    BY <1>2 DEF Shape
  <2>2. \A i \in DOMAIN body : i < idx
    BY <1>1, <2>1
  <2>3. \A i \in DOMAIN body : HandledAt(i)
    BY <2>2 DEF Resolves, Handled
  <2> QED
    BY <2>3 DEF HandledAt, CheckFails
<1>3. CASE ~special
  <2>1. \A i \in DOMAIN body : ~HasSpecial(i)
    BY <1>3 DEF Told
  <2>2. idx = 1
    BY <1>3 DEF Shape
  <2>3. \A i \in DOMAIN body : i >= idx
    BY <1>1, <2>2
  <2>4. \A i \in DOMAIN body : some[i] = asked.some[i]
    BY <2>3 DEF Resolves, Given
  <2> QED
    BY <2>1, <2>4 DEF CheckFails, HasSpecial
<1> QED
  BY <1>2, <1>3

(***************************************************************************)
(* Flattening, one sequence at a time.                                     *)
(***************************************************************************)
FlatStep(h, ss, n) == [i \in 1 .. n |-> IF i = 1 THEN ss[i] ELSE h[i - 1] \o ss[i]]

LEMMA FlatExists ==
    ASSUME NEW ss, NEW n \in Nat
    PROVE  \E h : h = FlatStep(h, ss, n)
<1> DEFINE bad == {k \in Nat : ~ \E h : h = FlatStep(h, ss, k)}
<1>1. SUFFICES ASSUME bad # {} PROVE FALSE
  OBVIOUS
<1>2. PICK k \in bad : \A j \in bad : k <= j
  <2>1. bad \in SUBSET Nat
    OBVIOUS
  <2> HIDE DEF bad
  <2> QED
    BY <1>1, <2>1, LeastElement
<1>3. k \in Nat /\ ~ \E h : h = FlatStep(h, ss, k)
  OBVIOUS
<1>4. k # 0
  <2>1. SUFFICES ASSUME k = 0 PROVE FALSE
    OBVIOUS
  <2> DEFINE e == [i \in 1 .. 0 |-> ss]
  <2>2. e = FlatStep(e, ss, 0)
    BY DEF FlatStep
  <2> HIDE DEF e
  <2> QED
    BY <1>3, <2>1, <2>2
<1>5. k - 1 \in Nat /\ ~(k <= k - 1)
  BY <1>3, <1>4
<1>6. k - 1 \notin bad
  <2> HIDE DEF bad
  <2> QED
    BY <1>2, <1>5
<1>7. PICK h : h = FlatStep(h, ss, k - 1)
  BY <1>5, <1>6
<1> HIDE DEF bad
<1> DEFINE g == [i \in 1 .. k |-> IF i < k THEN h[i] ELSE IF i = 1 THEN ss[i] ELSE h[i - 1] \o ss[i]]
<1>8. \A i \in 1 .. k - 1 : h[i] = IF i = 1 THEN ss[i] ELSE h[i - 1] \o ss[i]
  <2> TAKE i \in 1 .. k - 1
  <2>1. h[i] = FlatStep(h, ss, k - 1)[i]
    BY <1>7, Zenon
  <2> QED
    BY <2>1 DEF FlatStep
<1>9. ASSUME NEW i \in 1 .. k
      PROVE  g[i] = IF i = 1 THEN ss[i] ELSE g[i - 1] \o ss[i]
  <2>1. i \in Nat /\ 1 <= i /\ i <= k
    BY <1>3
  <2>2. CASE i < k
    <3>1. i \in 1 .. k - 1
      BY <1>3, <2>1, <2>2
    <3>2. g[i] = h[i]
      BY <2>2
    <3>3. i # 1 => g[i - 1] = h[i - 1]
      <4>1. SUFFICES ASSUME i # 1 PROVE g[i - 1] = h[i - 1]
        OBVIOUS
      <4>2. i - 1 \in 1 .. k /\ i - 1 < k
        BY <1>3, <2>1, <4>1
      <4> QED
        BY <4>2
    <3> HIDE DEF g
    <3> QED
      BY <1>8, <3>1, <3>2, <3>3
  <2>3. CASE i = k
    <3>1. ~(i < k)
      BY <2>1, <2>3
    <3>2. g[i] = IF i = 1 THEN ss[i] ELSE h[i - 1] \o ss[i]
      BY <3>1
    <3>3. i # 1 => g[i - 1] = h[i - 1]
      <4>1. SUFFICES ASSUME i # 1 PROVE g[i - 1] = h[i - 1]
        OBVIOUS
      <4>2. i - 1 \in 1 .. k /\ i - 1 < k
        BY <1>3, <2>1, <4>1
      <4> QED
        BY <4>2
    <3> HIDE DEF g
    <3> QED
      BY <3>2, <3>3
  <2> QED
    BY <1>3, <2>1, <2>2, <2>3
<1>10. g = FlatStep(g, ss, k)
  <2>1. g = [i \in 1 .. k |-> g[i]]
    OBVIOUS
  <2> HIDE DEF g
  <2> QED
    BY <1>9, <2>1 DEF FlatStep
<1> HIDE DEF g
<1> QED
  BY <1>3, <1>10

LEMMA FlattenPrefixes ==
    ASSUME NEW ss, Len(ss) \in Nat \ {0}
    PROVE  \E f : /\ FlattenSeq(ss) = f[Len(ss)]
                  /\ \A i \in 1 .. Len(ss) : f[i] = IF i = 1 THEN ss[i] ELSE f[i - 1] \o ss[i]
<1> DEFINE n == Len(ss)
           f == CHOOSE h : h = FlatStep(h, ss, n)
<1>1. \E h : h = FlatStep(h, ss, n)
  BY FlatExists
<1>2. f = FlatStep(f, ss, n)
  BY <1>1, Zenon
<1>3. n # 0
  OBVIOUS
<1>4. FlattenSeq(ss) = f[n]
  BY <1>3, Zenon DEF FlattenSeq, FlatStep
<1>5. \A i \in 1 .. n : f[i] = IF i = 1 THEN ss[i] ELSE f[i - 1] \o ss[i]
  <2> TAKE i \in 1 .. n
  <2>1. f[i] = FlatStep(f, ss, n)[i]
    BY <1>2, Zenon
  <2> HIDE DEF f
  <2> QED
    BY <2>1 DEF FlatStep
<1> HIDE DEF f
<1> QED
  BY <1>4, <1>5

LEMMA FlattenTyped ==
    ASSUME NEW S, NEW ss \in Seq(Seq(S))
    PROVE  FlattenSeq(ss) \in Seq(S)
<1> DEFINE n == Len(ss)
<1>1. n \in Nat /\ DOMAIN ss = 1 .. n /\ \A i \in 1 .. n : ss[i] \in Seq(S)
  OBVIOUS
<1>2. CASE n = 0
  <2>1. ss = <<>>
    BY <1>2
  <2> QED
    BY <1>2, <2>1 DEF FlattenSeq
<1>3. CASE n # 0
  <2>1. PICK f : /\ FlattenSeq(ss) = f[n]
                 /\ \A i \in 1 .. n : f[i] = IF i = 1 THEN ss[i] ELSE f[i - 1] \o ss[i]
    BY <1>1, <1>3, FlattenPrefixes
  <2> DEFINE bad == {i \in 1 .. n : f[i] \notin Seq(S)}
  <2>2. SUFFICES ASSUME bad # {} PROVE FALSE
    <3>1. n \in 1 .. n
      BY <1>1, <1>3
    <3>2. n \notin bad
      OBVIOUS
    <3>3. f[n] \in Seq(S)
      BY <3>1, <3>2
    <3> QED
      BY <2>1, <3>3
  <2>3. PICK k \in bad : \A j \in bad : k <= j
    <3>1. bad \in SUBSET Nat
      BY <1>1
    <3> HIDE DEF bad
    <3> QED
      BY <2>2, <3>1, LeastElement
  <2>4. k \in 1 .. n /\ f[k] \notin Seq(S) /\ k \in Nat
    BY <1>1
  <2>5. CASE k = 1
    BY <1>1, <2>1, <2>4, <2>5
  <2>6. CASE k # 1
    <3>1. k - 1 \in 1 .. n /\ ~(k <= k - 1)
      BY <1>1, <2>4, <2>6
    <3>2. k - 1 \notin bad
      <4> HIDE DEF bad
      <4> QED
        BY <2>3, <3>1
    <3>3. f[k - 1] \in Seq(S) /\ ss[k] \in Seq(S)
      BY <1>1, <2>4, <3>1, <3>2
    <3>4. f[k] = f[k - 1] \o ss[k]
      BY <2>1, <2>4, <2>6
    <3> HIDE DEF bad, n
    <3> QED
      BY <2>4, <3>3, <3>4
  <2> QED
    BY <2>5, <2>6
<1> QED
  BY <1>2, <1>3

\* A level is at most the number of instructions before.
LEMMA LevelBound ==
    ASSUME NEW code \in Seq(Instrs), NEW i \in 1 .. Len(code) + 1
    PROVE  Level(code, i) <= i
<1> DEFINE opens == {j \in 1 .. i - 1 : Opens(code[j])}
           closes == {j \in 1 .. i - 1 : code[j].op = "end"}
<1>1. i \in Nat /\ i - 1 \in Nat
  OBVIOUS
<1>2. IsFiniteSet(1 .. i - 1) /\ Cardinality(1 .. i - 1) = i - 1
  <2> DEFINE k == i - 1
  <2>1. k \in Nat /\ (1 > k => k = 0) /\ k - 1 + 1 = k /\ 1 \in Int /\ k \in Int
    BY <1>1
  <2> HIDE DEF k
  <2>2. IsFiniteSet(1 .. k)
    BY <2>1, FS_Interval
  <2>3. Cardinality(1 .. k) = IF 1 > k THEN 0 ELSE k - 1 + 1
    BY <2>1, FS_Interval
  <2> QED
    BY <2>1, <2>2, <2>3 DEF k
<1>3. /\ IsFiniteSet(opens) /\ Cardinality(opens) <= Cardinality(1 .. i - 1)
      /\ IsFiniteSet(closes)
  <2>1. opens \subseteq 1 .. i - 1 /\ closes \subseteq 1 .. i - 1
    OBVIOUS
  <2> HIDE DEF opens, closes
  <2> QED
    BY <1>2, <2>1, FS_Subset
<1>4. Cardinality(opens) \in Nat /\ Cardinality(closes) \in Nat
  BY <1>3, FS_CardinalityType
<1>5. Level(code, i) = 1 + Cardinality(opens) - Cardinality(closes)
  BY DEF Level
<1> HIDE DEF opens, closes
<1> QED
  BY <1>1, <1>2, <1>3, <1>4, <1>5

(***************************************************************************)
(* All lists hold code, with nothing missing in them.                      *)
(***************************************************************************)
InjectedOps == {"probe", "flag_on", "flag_off", "if_flag", "block", "else", "end"}
Injected == [op : InjectedOps, arg : Seq(Nat)]
Codes == Seq(Injected)
Dues == [before : Codes, flagged : Seq([flag : Nat, body : Codes]), after : Codes]
ListsCoded ==
    /\ probes \in Nat
    /\ DOMAIN funcLists = FuncModes /\ \A m \in FuncModes : funcLists[m] \in Codes
    /\ \A i \in DOMAIN body : \A m \in Modes : lists[i][m] \in Codes
PassCoded ==
    /\ onEntry \in Codes /\ onExit \in Codes /\ onElseOrEnd \in Codes /\ numFlags \in Nat
    /\ DOMAIN onEnd = 0 .. Len(body) /\ \A b \in 0 .. Len(body) : onEnd[b] \in Dues

LEMMA ElementsOf ==
    ASSUME NEW S, NEW s \in Seq(S)
    PROVE  Len(s) \in Nat /\ DOMAIN s = 1 .. Len(s) /\ \A k \in 1 .. Len(s) : s[k] \in S
OBVIOUS

LEMMA SequenceOf ==
    ASSUME NEW S, NEW n \in Nat, NEW f \in [1 .. n -> S]
    PROVE  f \in Seq(S) /\ Len(f) = n
OBVIOUS

LEMMA OneInstr ==
    ASSUME NEW o \in InjectedOps, NEW a \in Seq(Nat)
    PROVE  Instr(o, a) \in Injected /\ <<Instr(o, a)>> \in Codes
<1> DEFINE x == Instr(o, a)
<1>1. x \in Injected
  BY DEF Instr, Injected
<1> HIDE DEF x
<1>2. <<x>> \in Seq(Injected)
  BY <1>1
<1> QED
  BY <1>1, <1>2 DEF Codes, x

LEMMA SomeCodes ==
    /\ <<>> \in Codes
    /\ \A s \in Codes : \A t \in Codes : s \o t \in Codes
    /\ \A f \in Nat : <<FlagOn(f)>> \in Codes /\ <<FlagOff(f)>> \in Codes /\ <<IfFlag(f)>> \in Codes
    /\ <<Block>> \in Codes /\ <<Else>> \in Codes /\ <<End>> \in Codes /\ End \in Injected
    /\ \A n \in Nat : Probe(n) \in Injected
<1>1. /\ <<>> \in Codes
      /\ \A s \in Codes : \A t \in Codes : s \o t \in Codes
  BY DEF Codes
<1>2. ASSUME NEW f \in Nat PROVE <<f>> \in Seq(Nat)
  OBVIOUS
<1>3. ASSUME NEW f \in Nat
      PROVE  <<FlagOn(f)>> \in Codes /\ <<FlagOff(f)>> \in Codes /\ <<IfFlag(f)>> \in Codes
  <2>1. <<f>> \in Seq(Nat)
    BY <1>2
  <2>2. <<Instr("flag_on", <<f>>)>> \in Codes
    <3>1. "flag_on" \in InjectedOps
      BY DEF InjectedOps
    <3> QED
      BY <2>1, <3>1, OneInstr
  <2>3. <<Instr("flag_off", <<f>>)>> \in Codes
    <3>1. "flag_off" \in InjectedOps
      BY DEF InjectedOps
    <3> QED
      BY <2>1, <3>1, OneInstr
  <2>4. <<Instr("if_flag", <<f>>)>> \in Codes
    <3>1. "if_flag" \in InjectedOps
      BY DEF InjectedOps
    <3> QED
      BY <2>1, <3>1, OneInstr
  <2> QED
    BY <2>2, <2>3, <2>4 DEF FlagOn, FlagOff, IfFlag
<1>4. <<>> \in Seq(Nat)
  OBVIOUS
<1>5. <<Block>> \in Codes /\ <<Else>> \in Codes /\ <<End>> \in Codes /\ End \in Injected
  <2>0. "block" \in InjectedOps /\ "else" \in InjectedOps /\ "end" \in InjectedOps
    BY DEF InjectedOps
  <2>1. <<Instr("block", <<>>)>> \in Codes
    BY <1>4, <2>0, OneInstr
  <2>2. <<Instr("else", <<>>)>> \in Codes
    BY <1>4, <2>0, OneInstr
  <2>3. <<Instr("end", <<>>)>> \in Codes /\ Instr("end", <<>>) \in Injected
    BY <1>4, <2>0, OneInstr
  <2> QED
    BY <2>1, <2>2, <2>3 DEF Block, Else, End
<1>6. ASSUME NEW n \in Nat PROVE Probe(n) \in Injected
  <2>1. <<n>> \in Seq(Nat) /\ "probe" \in InjectedOps
    BY <1>2 DEF InjectedOps
  <2> QED
    BY <2>1, OneInstr DEF Probe
<1> QED
  BY <1>1, <1>3, <1>5, <1>6

LEMMA ChainCoded ==
    ASSUME NEW flagged \in Seq([flag : Nat, body : Codes])
    PROVE  Chain(flagged) \in Codes
<1> DEFINE n == Len(flagged)
           part(k) == (IF k = 1 THEN <<>> ELSE <<Else>>) \o <<IfFlag(flagged[k].flag)>> \o flagged[k].body
           parts == [k \in DOMAIN flagged |-> part(k)]
           ends == [k \in DOMAIN flagged |-> End]
<1>1. n \in Nat /\ DOMAIN flagged = 1 .. n
      /\ \A k \in 1 .. n : flagged[k].flag \in Nat /\ flagged[k].body \in Codes
  <2>1. n \in Nat /\ DOMAIN flagged = 1 .. n
    OBVIOUS
  <2>2. ASSUME NEW k \in 1 .. n PROVE flagged[k].flag \in Nat /\ flagged[k].body \in Codes
    <3> DEFINE x == flagged[k]
    <3>1. x \in [flag : Nat, body : Codes]
      BY ElementsOf
    <3> HIDE DEF x
    <3>2. x.flag \in Nat /\ x.body \in Codes
      BY <3>1
    <3> QED
      BY <3>2 DEF x
  <2> QED
    BY <2>1, <2>2
<1>2. \A k \in 1 .. n : part(k) \in Codes
  <2> TAKE k \in 1 .. n
  <2>1. (IF k = 1 THEN <<>> ELSE <<Else>>) \in Codes
    BY SomeCodes
  <2>2. <<IfFlag(flagged[k].flag)>> \in Codes /\ flagged[k].body \in Codes
    BY <1>1, SomeCodes
  <2> QED
    BY <2>1, <2>2, SomeCodes
<1>3. parts \in Seq(Seq(Injected))
  <2>1. parts = [k \in 1 .. n |-> part(k)]
    BY <1>1
  <2> HIDE DEF part, n, parts
  <2>2. parts \in Seq(Codes)
    BY <1>1, <1>2, <2>1
  <2> QED
    BY <2>2 DEF Codes
<1>4. ends \in Codes
  <2>1. ends = [k \in 1 .. n |-> End] /\ End \in Injected
    BY <1>1, SomeCodes
  <2> HIDE DEF n, ends
  <2>2. ends \in [1 .. n -> Injected]
    BY <2>1
  <2> QED
    BY <1>1, <2>2, SequenceOf DEF Codes
<1>5. FlattenSeq(parts) \in Codes
  <2> HIDE DEF parts
  <2> QED
    BY <1>3, FlattenTyped DEF Codes
<1>6. Chain(flagged) = FlattenSeq(parts) \o ends
  BY DEF Chain
<1> HIDE DEF parts, ends
<1> QED
  BY <1>4, <1>5, <1>6, SomeCodes

LEMMA FuncCodeCoded ==
    ASSUME PassCoded, NEW i
    PROVE  FuncCode(i) \in Codes
<1>1. onEntry \in Codes /\ onExit \in Codes
  BY DEF PassCoded
<1>2. ExitCode(body[i].op, i) \in Codes
  BY <1>1, SomeCodes DEF ExitCode
<1>3. (IF i = 1 THEN onEntry ELSE <<>>) \in Codes
  BY <1>1, SomeCodes
<1> QED
  BY <1>2, <1>3, SomeCodes DEF FuncCode

\* One instruction's lists after the pass has been at it.
LEMMA OnlyHereCoded ==
    ASSUME TypeOK, Shape, ListsCoded, phase = "resolve",
           NEW l, lists' = [lists EXCEPT ![idx] = l], \A m \in Modes : l[m] \in Codes
    PROVE  \A i \in DOMAIN body : \A m \in Modes : lists'[i][m] \in Codes
<1>1. idx \in DOMAIN body /\ DOMAIN lists = DOMAIN body
  BY ListsFacts
<1> QED
  BY <1>1 DEF ListsCoded

LEMMA ClearedCoded ==
    ASSUME NEW l, DOMAIN l = Modes, \A m \in Modes : l[m] \in Codes,
           NEW x \in Codes, NEW y \in Codes
    PROVE  \A m \in Modes : [ClearSpecial(l) EXCEPT !.before = x, !.alternate = y][m] \in Codes
<1> DEFINE c == ClearSpecial(l)
<1>1. DOMAIN c = Modes /\ \A m \in Modes : c[m] \in Codes
  BY SomeCodes DEF ClearSpecial
<1> HIDE DEF c
<1>2. \A m \in Modes : [c EXCEPT !.before = x, !.alternate = y][m] \in Codes
  BY <1>1
<1> QED
  BY <1>2 DEF c

LEMMA RemoveCoded ==
    ASSUME TypeOK, Shape, ListsCoded, phase = "resolve", NEW x \in Codes, RemoveInstr(x)
    PROVE  (\A i \in DOMAIN body : \A m \in Modes : lists'[i][m] \in Codes) /\ UNCHANGED <<onEnd, numFlags>>
<1> DEFINE c == [ClearSpecial(lists[idx]) EXCEPT !.before = x, !.alternate = <<>>]
<1>1. lists' = [lists EXCEPT ![idx] = c] /\ UNCHANGED <<onEnd, numFlags>>
  BY DEF RemoveInstr
<1>2. idx \in DOMAIN body /\ DOMAIN lists[idx] = Modes
  BY ListsFacts
<1>3. \A m \in Modes : lists[idx][m] \in Codes
  BY <1>2 DEF ListsCoded
<1>4. \A m \in Modes : c[m] \in Codes
  BY <1>2, <1>3, SomeCodes, ClearedCoded
<1> HIDE DEF c
<1> QED
  BY <1>1, <1>4, OnlyHereCoded

LEMMA ReplaceCoded ==
    ASSUME TypeOK, Shape, ListsCoded, phase = "resolve", NEW x \in Codes, NEW b, Replace(x, b)
    PROVE  (\A i \in DOMAIN body : \A m \in Modes : lists'[i][m] \in Codes) /\ UNCHANGED <<onEnd, numFlags>>
<1> DEFINE alt == lists[idx].block_alt
           y == IF alt = <<>> THEN <<>> ELSE lists[idx].alternate \o alt
           c == [ClearSpecial(lists[idx]) EXCEPT !.before = x, !.alternate = y]
<1>1. lists' = [lists EXCEPT ![idx] = c] /\ UNCHANGED <<onEnd, numFlags>>
  BY DEF Replace
<1>2. idx \in DOMAIN body /\ DOMAIN lists[idx] = Modes
  BY ListsFacts
<1>3. \A m \in Modes : lists[idx][m] \in Codes
  BY <1>2 DEF ListsCoded
<1>4. "block_alt" \in Modes /\ "alternate" \in Modes
  BY DEF Modes, PlainModes, SpecialModes
<1>5. y \in Codes
  BY <1>3, <1>4, SomeCodes
<1> HIDE DEF y
<1>6. \A m \in Modes : c[m] \in Codes
  BY <1>2, <1>3, <1>5, ClearedCoded
<1> HIDE DEF c
<1> QED
  BY <1>1, <1>6, OnlyHereCoded

(***************************************************************************)
(* The bodies waiting for the ends of the open blocks.                     *)
(***************************************************************************)
LEMMA DueFields ==
    ASSUME NEW d \in Dues
    PROVE  /\ d.before \in Codes /\ d.flagged \in Seq([flag : Nat, body : Codes]) /\ d.after \in Codes
           /\ \A x \in Codes, y \in Codes :
                [[d EXCEPT !.before = x] EXCEPT !.after = y] \in Dues
           /\ \A z \in Seq([flag : Nat, body : Codes]) : [d EXCEPT !.flagged = z] \in Dues
<1> DEFINE F == Seq([flag : Nat, body : Codes])
<1>1. Dues = [before : Codes, flagged : F, after : Codes]
  BY DEF Dues
<1> HIDE DEF F
<1>2. d.before \in Codes /\ d.flagged \in F /\ d.after \in Codes
  BY <1>1
<1>3. ASSUME NEW x \in Codes, NEW y \in Codes PROVE [[d EXCEPT !.before = x] EXCEPT !.after = y] \in Dues
  BY <1>1
<1>4. ASSUME NEW z \in F PROVE [d EXCEPT !.flagged = z] \in Dues
  BY <1>1
<1> QED
  BY <1>2, <1>3, <1>4 DEF F

LEMMA NothingIsDue == Nothing \in Dues
<1> DEFINE F == Seq([flag : Nat, body : Codes])
<1>1. <<>> \in F /\ <<>> \in Codes
  BY SomeCodes
<1>2. Dues = [before : Codes, flagged : F, after : Codes]
  BY DEF Dues
<1> HIDE DEF F
<1> QED
  BY <1>1, <1>2 DEF Nothing

DuesOf(ends) == DOMAIN ends = 0 .. Len(body) /\ \A b \in 0 .. Len(body) : ends[b] \in Dues

LEMMA FlaggedCoded ==
    ASSUME NEW b \in DOMAIN onEnd, NEW top, NEW f \in Nat, NEW l \in Codes, body[idx].arg \in Seq(Nat)
    PROVE  Flagged(top, f, l)[b] \in Seq([flag : Nat, body : Codes])
<1> DEFINE labels == {k \in DOMAIN body[idx].arg : top - body[idx].arg[k] = b}
           c == Cardinality(labels)
           one == [flag |-> f, body |-> l]
<1>1. Flagged(top, f, l)[b] = [k \in 1 .. c |-> one]
  BY DEF Flagged
<1>2. c \in Nat
  <2> DEFINE a == body[idx].arg
  <2>1. Len(a) \in Nat /\ labels \subseteq 1 .. Len(a)
    OBVIOUS
  <2> HIDE DEF a, labels
  <2>2. IsFiniteSet(1 .. Len(a))
    BY <2>1, FS_Interval
  <2> QED
    BY <2>1, <2>2, FS_Subset, FS_CardinalityType
<1>3. one \in [flag : Nat, body : Codes]
  OBVIOUS
<1> HIDE DEF c, one
<1>4. [k \in 1 .. c |-> one] \in [1 .. c -> [flag : Nat, body : Codes]]
  BY <1>3
<1> QED
  BY <1>1, <1>2, <1>4, SequenceOf

LEMMA EndsCoded ==
    ASSUME NEW ends, DuesOf(ends), DuesOf(onEnd), NEW top, NEW f \in Nat,
           NEW l, \A m \in Modes : l[m] \in Codes, body[idx].arg \in Seq(Nat)
    PROVE  DuesOf(PlanEnds(ends, top, f, l))
<1> DEFINE N == 0 .. Len(body)
           r == PlanEnds(ends, top, f, l)
<1>1. DOMAIN ends = N /\ DOMAIN onEnd = N /\ \A b \in N : ends[b] \in Dues
  BY DEF DuesOf
<1>2. l.block_exit \in Codes /\ l.semantic_after \in Codes
  BY DEF Modes, SpecialModes
<1> HIDE DEF N
<1>3. CASE body[idx].op \in BlockStyle
  <2> DEFINE x == IF Op = "if" THEN <<>> ELSE l.block_exit
             y == l.semantic_after
             u == ends[top].before \o x
             v == ends[top].after \o y
  <2>1. r = [ends EXCEPT ![top].before = @ \o x, ![top].after = @ \o y]
    BY <1>3 DEF PlanEnds, Op
  <2>2. x \in Codes /\ y \in Codes
    BY <1>2, SomeCodes
  <2> HIDE DEF x, y
  <2>3. DOMAIN r = N
    BY <1>1, <2>1
  <2>4. ASSUME NEW b \in N PROVE r[b] \in Dues
    <3>1. CASE b # top
      BY <1>1, <2>1, <3>1
    <3>2. CASE b = top
      <4>1. ends[top] \in Dues /\ top \in N
        BY <1>1, <3>2
      <4>2. ends[top].before \in Codes /\ ends[top].after \in Codes
        BY <4>1, DueFields
      <4>3. u \in Codes /\ v \in Codes
        BY <2>2, <4>2, SomeCodes
      <4>4. r[top] = [[ends[top] EXCEPT !.before = u] EXCEPT !.after = v]
        BY <1>1, <2>1, <4>1
      <4> HIDE DEF u, v, r
      <4>5. [[ends[top] EXCEPT !.before = u] EXCEPT !.after = v] \in Dues
        BY <4>1, <4>3, DueFields
      <4>6. r[top] \in Dues
        BY <4>4, <4>5, Zenon
      <4> QED
        BY <3>2, <4>6
    <3> QED
      BY <3>1, <3>2
  <2> HIDE DEF r
  <2> QED
    BY <2>3, <2>4 DEF DuesOf, N, r
<1>4. CASE body[idx].op \notin BlockStyle /\ BranchFlagged(l)
  <2> DEFINE g(b) == Flagged(top, f, l.semantic_after)[b]
  <2>1. r = [b \in DOMAIN ends |-> [ends[b] EXCEPT !.flagged = @ \o g(b)]]
    BY <1>4 DEF PlanEnds, Op
  <2>2. DOMAIN r = N
    BY <1>1, <2>1
  <2>3. ASSUME NEW b \in N PROVE r[b] \in Dues
    <3>1. g(b) \in Seq([flag : Nat, body : Codes])
      BY <1>1, <1>2, FlaggedCoded
    <3> HIDE DEF g
    <3>2. ends[b] \in Dues /\ ends[b].flagged \in Seq([flag : Nat, body : Codes])
      BY <1>1, DueFields
    <3> DEFINE F == [flag : Nat, body : Codes]
               z == ends[b].flagged \o g(b)
    <3>3. z \in Seq(F)
      <4> HIDE DEF F
      <4> QED
        BY <3>1, <3>2 DEF F
    <3>4. r[b] = [ends[b] EXCEPT !.flagged = z]
      BY <1>1, <2>1
    <3> HIDE DEF z
    <3> QED
      BY <3>2, <3>3, <3>4, DueFields
  <2> HIDE DEF r
  <2> QED
    BY <2>2, <2>3 DEF DuesOf, N, r
<1>5. CASE body[idx].op \notin BlockStyle /\ ~BranchFlagged(l)
  <2>1. r = ends
    BY <1>5 DEF PlanEnds, Op
  <2> QED
    BY <2>1
<1> QED
  BY <1>3, <1>4, <1>5

LEMMA PlanCoded ==
    ASSUME TypeOK, Shape, ListsCoded, PassCoded, phase = "resolve", NEW b, NEW x \in Codes, NEW y \in Codes,
           NEW p \in Codes, NEW ends, DuesOf(ends), Plan(b, x, y, p, ends)
    PROVE  /\ \A i \in DOMAIN body : \A m \in Modes : lists'[i][m] \in Codes
           /\ onElseOrEnd' \in Codes /\ numFlags' \in Nat /\ DuesOf(onEnd')
<1> DEFINE l == lists[idx]
           f == numFlags + 1
           set == IF BranchFlagged(l) THEN <<FlagOn(f)>> ELSE <<>>
           unset == IF BranchFlagged(l) THEN <<FlagOff(f)>> \o InlineAfterBranch(l) ELSE <<>>
           u == x \o set
           v == y \o l.block_entry \o unset
           c == [l EXCEPT !.before = u, !.after = v,
                          !.semantic_after = <<>>, !.block_entry = <<>>, !.block_exit = <<>>]
<1>1. /\ lists' = [lists EXCEPT ![idx] = c]
      /\ onElseOrEnd' = PlanExit(l, p)
      /\ onEnd' = PlanEnds(ends, b, f, l)
      /\ numFlags' = IF BranchFlagged(l) THEN f ELSE numFlags
  BY DEF Plan
<1>2. idx \in DOMAIN body /\ DOMAIN l = Modes
  BY ListsFacts
<1>3. \A m \in Modes : l[m] \in Codes
  BY <1>2 DEF ListsCoded
<1>4. l.block_entry \in Codes /\ l.block_exit \in Codes /\ l.semantic_after \in Codes
  BY <1>3 DEF Modes, SpecialModes
<1>5. f \in Nat /\ numFlags' \in Nat
  BY <1>1 DEF PassCoded
<1>6. set \in Codes
  BY <1>5, SomeCodes
<1>7. unset \in Codes
  <2>1. InlineAfterBranch(l) \in Codes
    BY <1>4, SomeCodes DEF InlineAfterBranch
  <2> QED
    BY <1>5, <2>1, SomeCodes
<1>8. u \in Codes /\ v \in Codes
  BY <1>4, <1>6, <1>7, SomeCodes
<1>9. onElseOrEnd' \in Codes
  BY <1>1, <1>4, SomeCodes DEF PlanExit
<1>10. DuesOf(onEnd')
  <2>1. body[idx].arg \in Seq(Nat) /\ DuesOf(onEnd)
    BY <1>2, BodyFacts, OpensInBody DEF PassCoded, DuesOf
  <2> HIDE DEF l, f
  <2> QED
    BY <1>1, <1>3, <1>5, <2>1, EndsCoded
<1> HIDE DEF l, u, v
<1>11. \A m \in Modes : c[m] \in Codes
  BY <1>2, <1>3, <1>8, SomeCodes
<1> HIDE DEF c
<1> QED
  BY <1>1, <1>5, <1>9, <1>10, <1>11, OnlyHereCoded

(***************************************************************************)
(* Every step leaves code in the lists.                                    *)
(***************************************************************************)
Coded == ListsCoded /\ PassCoded

LEMMA AddInstrCoded ==
    ASSUME TypeOK, Shape, ListsCoded, NewProbe, UNCHANGED body
    PROVE  /\ \A i \in DOMAIN body : \A m \in Modes : AddInstr(i, m) => ListsCoded'
           /\ funcMode \in FuncModes /\ AddFuncInstr => ListsCoded'
           /\ \A i \in DOMAIN body : \A m \in Modes : AddInstrOfFunc(i, m) => ListsCoded'
<1>1. probes' \in Nat /\ Probe(probes') \in Injected
  <2>1. probes' = probes + 1 /\ probes \in Nat
    BY DEF NewProbe, ListsCoded
  <2>2. probes' \in Nat
    BY <2>1
  <2> QED
    BY <2>2, SomeCodes
<1>2. \A s \in Codes : Append(s, Probe(probes')) \in Codes
  BY <1>1 DEF Codes
<1>3. /\ DOMAIN lists = DOMAIN body /\ \A i \in DOMAIN body : DOMAIN lists[i] = Modes
      /\ DOMAIN funcLists = FuncModes /\ \A m \in FuncModes : funcLists[m] \in Codes
      /\ \A i \in DOMAIN body : \A m \in Modes : lists[i][m] \in Codes
  BY DEF Shape, TypeOK, ListsCoded
<1>4. ASSUME NEW i \in DOMAIN body, NEW m \in Modes, AddInstr(i, m) PROVE ListsCoded'
  <2> DEFINE x == Append(lists[i][m], Probe(probes'))
  <2>1. lists' = [lists EXCEPT ![i][m] = x] /\ funcLists' = funcLists
    BY <1>4 DEF AddInstr
  <2>2. x \in Codes
    BY <1>2, <1>3
  <2> HIDE DEF x
  <2>3. ASSUME NEW j \in DOMAIN body, NEW k \in Modes PROVE lists'[j][k] \in Codes
    <3>1. CASE j = i
      BY <1>3, <2>1, <2>2, <3>1
    <3>2. CASE j # i
      BY <1>3, <2>1, <3>2
    <3> QED
      BY <3>1, <3>2
  <2> QED
    BY <1>1, <1>3, <2>1, <2>3 DEF ListsCoded
<1>5. ASSUME funcMode \in FuncModes, AddFuncInstr PROVE ListsCoded'
  <2> DEFINE x == Append(funcLists[funcMode], Probe(probes'))
  <2>1. funcLists' = [funcLists EXCEPT ![funcMode] = x] /\ lists' = lists
    BY <1>5 DEF AddFuncInstr
  <2>2. x \in Codes
    BY <1>2, <1>3, <1>5
  <2> HIDE DEF x
  <2>3. DOMAIN funcLists' = FuncModes /\ \A m \in FuncModes : funcLists'[m] \in Codes
    BY <1>3, <2>1, <2>2
  <2> QED
    BY <1>1, <1>3, <2>1, <2>3 DEF ListsCoded
<1>6. funcMode \in FuncModes \cup {None}
  BY DEF Shape
<1> QED
  BY <1>4, <1>5, <1>6 DEF AddInstrOfFunc

LEMMA EditCoded ==
    ASSUME TypeOK, Shape, Coded, Edit
    PROVE  Coded'
<1>1. /\ Instrument /\ UNCHANGED <<onEntry, onExit, onElseOrEnd, onEnd, numFlags>>
  BY DEF Edit, passVars
<1>2. ListsCoded
  BY DEF Coded
<1>3. /\ DOMAIN lists = DOMAIN body /\ \A i \in DOMAIN body : DOMAIN lists[i] = Modes
      /\ \A i \in DOMAIN body : \A m \in Modes : lists[i][m] \in Codes
      /\ cursor \in DOMAIN body /\ modes[cursor] \in Modes \cup {None}
      /\ funcMode \in FuncModes \cup {None}
  BY DEF Shape, TypeOK, Coded, ListsCoded
<1>4. ASSUME UNCHANGED <<body, lists, funcLists, probes>> PROVE ListsCoded'
  BY <1>2, <1>4 DEF ListsCoded
<1>5. ASSUME Inject PROVE ListsCoded'
  <2>1. /\ NewProbe /\ UNCHANGED body
        /\ modes[cursor] # None \/ funcMode # None
        /\ AddInstrOfFunc(cursor, modes[cursor])
    BY <1>5 DEF Inject
  <2>2. CASE modes[cursor] \in Modes
    BY <1>2, <1>3, <2>1, <2>2, AddInstrCoded
  <2>3. CASE modes[cursor] = None
    <3>1. AddFuncInstr /\ funcMode \in FuncModes
      BY <1>3, <2>1, <2>3 DEF AddInstrOfFunc
    <3> QED
      BY <1>2, <2>1, <3>1, AddInstrCoded
  <2> QED
    BY <1>3, <2>2, <2>3
<1>6. ASSUME NEW i \in DOMAIN body, NEW m \in Modes, InjectAt(i, m) PROVE ListsCoded'
  <2>1. NewProbe /\ UNCHANGED body /\ (AddInstrOfFunc(i, m) \/ AddInstr(i, m))
    BY <1>6 DEF InjectAt
  <2> QED
    BY <1>2, <2>1, AddInstrCoded
<1>7. ASSUME NEW i \in DOMAIN body, NEW m \in Modes, lists' = [lists EXCEPT ![i][m] = <<>>],
             UNCHANGED <<body, funcLists, probes>>
      PROVE  ListsCoded'
  <2>1. <<>> \in Codes
    BY SomeCodes
  <2>2. ASSUME NEW j \in DOMAIN body, NEW k \in Modes PROVE lists'[j][k] \in Codes
    <3>1. CASE j = i
      BY <1>3, <1>7, <2>1, <3>1
    <3>2. CASE j # i
      BY <1>3, <1>7, <3>2
    <3> QED
      BY <3>1, <3>2
  <2> QED
    BY <1>2, <1>7, <2>2 DEF ListsCoded
<1>8. ASSUME NEW i \in DOMAIN body, NEW m \in Modes, ClearInstrAt(i, m) \/ EmptyAt(i, m)
      PROVE  ListsCoded'
  <2>1. lists' = [lists EXCEPT ![i][m] = <<>>] /\ UNCHANGED <<body, funcLists, probes>>
    BY <1>8 DEF ClearInstrAt, EmptyAt
  <2> QED
    BY <1>7, <2>1
<1>9. ASSUME NEW i \in DOMAIN body, NEW m \in Modes, SetInstrumentMode(i, m) PROVE ListsCoded'
  BY <1>4, <1>9 DEF SetInstrumentMode
<1>10. ASSUME NEW m \in FuncModes, SetFuncInstrumentMode(m) PROVE ListsCoded'
  BY <1>4, <1>10 DEF SetFuncInstrumentMode
<1>11. ASSUME FinishInstr PROVE ListsCoded'
  BY <1>4, <1>11 DEF FinishInstr
<1>12. ListsCoded'
  BY <1>1, <1>5, <1>6, <1>8, <1>9, <1>10, <1>11 DEF Instrument
<1>13. body' = body
  BY EditView DEF Edited
<1>14. PassCoded'
  BY <1>1, <1>13 DEF Coded, PassCoded
<1> QED
  BY <1>12, <1>14 DEF Coded

LEMMA BeginCoded ==
    ASSUME Coded, Begin
    PROVE  Coded'
<1>1. /\ onEntry' = funcLists.entry \o WrapperBlock(funcLists.exit)
      /\ onExit' = funcLists.exit
      /\ funcLists' = IF special THEN [m \in FuncModes |-> <<>>] ELSE funcLists
      /\ UNCHANGED <<body, lists, probes, onElseOrEnd, onEnd, numFlags>>
  BY DEF Begin, passVars
<1>2. funcLists.entry \in Codes /\ funcLists.exit \in Codes
  BY DEF Coded, ListsCoded, FuncModes
<1>3. WrapperBlock(funcLists.exit) \in Codes
  BY SomeCodes DEF WrapperBlock
<1>4. onEntry' \in Codes /\ onExit' \in Codes
  BY <1>1, <1>2, <1>3, SomeCodes
<1>5. DOMAIN funcLists' = FuncModes /\ \A m \in FuncModes : funcLists'[m] \in Codes
  BY <1>1, SomeCodes DEF Coded, ListsCoded
<1>6. ListsCoded'
  BY <1>1, <1>5 DEF Coded, ListsCoded
<1>7. PassCoded'
  BY <1>1, <1>4 DEF Coded, PassCoded
<1> QED
  BY <1>6, <1>7 DEF Coded

LEMMA ResolveCoded ==
    ASSUME TypeOK, Shape, Coded, Resolve
    PROVE  Coded'
<1>1. Here
  BY DEF Resolve, OpenBlock, AtElse, EndRemoved, EndKept, OtherRemoved, OtherKept
<1>2. /\ phase = "resolve" /\ UNCHANGED <<body, funcLists, probes, onEntry, onExit>>
  BY <1>1 DEF Here, NextInstr, callerVars
<1>3. /\ onElseOrEnd \in Codes /\ numFlags \in Nat /\ DuesOf(onEnd) /\ ListsCoded /\ PassCoded
  BY DEF Coded, PassCoded, DuesOf
<1>4. idx \in DOMAIN body
  BY <1>2, ListsFacts
<1>5. lists[idx].before \in Codes /\ lists[idx].after \in Codes
  BY <1>3, <1>4 DEF ListsCoded, Modes, PlainModes
<1>6. FuncCode(idx) \in Codes /\ <<>> \in Codes
  BY <1>3, FuncCodeCoded, SomeCodes
<1>7. lists[idx].before \o FuncCode(idx) \in Codes
  BY <1>5, <1>6, SomeCodes
<1>8. lists[idx].before \o FuncCode(idx) \o onElseOrEnd \in Codes
  BY <1>3, <1>7, SomeCodes
<1> DEFINE coded == /\ \A i \in DOMAIN body : \A m \in Modes : lists'[i][m] \in Codes
                    /\ onElseOrEnd' \in Codes /\ numFlags' \in Nat /\ DuesOf(onEnd')
<1>9. ASSUME NEW x \in Codes, RemoveInstr(x) \/ (\E b : Replace(x, b)), onElseOrEnd' \in Codes
      PROVE  coded
  <2>1. /\ \A i \in DOMAIN body : \A m \in Modes : lists'[i][m] \in Codes
        /\ UNCHANGED <<onEnd, numFlags>>
    BY <1>2, <1>3, <1>9, RemoveCoded, ReplaceCoded
  <2> QED
    BY <1>3, <1>9, <2>1
<1>10. ASSUME NEW x \in Codes, NEW y \in Codes, NEW p \in Codes, NEW ends, DuesOf(ends),
              \E b : Plan(b, x, y, p, ends)
       PROVE  coded
  BY <1>2, <1>3, <1>10, PlanCoded
<1> HIDE DEF coded
<1>11. ASSUME OpenBlock PROVE coded
  <2> DEFINE before == lists[idx].before \o FuncCode(idx)
  <2>1. \/ (RemoveInstr(before) \/ \E b : Replace(before, b)) /\ UNCHANGED onElseOrEnd
        \/ \E b : Plan(b, before, lists[idx].after, onElseOrEnd, onEnd)
    BY <1>11 DEF OpenBlock
  <2> HIDE DEF before
  <2> QED
    BY <1>3, <1>5, <1>7, <1>9, <1>10, <2>1 DEF before
<1>12. ASSUME AtElse PROVE coded
  <2> DEFINE before == lists[idx].before \o FuncCode(idx) \o onElseOrEnd
  <2>1. \/ (RemoveInstr(before) \/ \E b : Replace(before, b)) /\ onElseOrEnd' = <<>>
        \/ \E b : Plan(b, before, lists[idx].after, <<>>, onEnd)
    BY <1>12 DEF AtElse
  <2> HIDE DEF before
  <2> QED
    BY <1>3, <1>5, <1>6, <1>8, <1>9, <1>10, <2>1 DEF before
<1>13. ASSUME EndRemoved \/ OtherRemoved PROVE coded
  <2>1. RemoveInstr(lists[idx].before \o FuncCode(idx)) /\ UNCHANGED onElseOrEnd
    BY <1>13 DEF EndRemoved, OtherRemoved
  <2> QED
    BY <1>3, <1>7, <1>9, <2>1
<1>14. ASSUME EndKept PROVE coded
  <2> DEFINE block == Last(blockStack)
             due == onEnd[block]
             x == lists[idx].before \o FuncCode(idx) \o onElseOrEnd \o due.before
             y == lists[idx].after \o Chain(due.flagged) \o due.after
             e == [onEnd EXCEPT ![block] = Nothing]
  <2>1. Plan(block, x, y, <<>>, e)
    BY <1>14 DEF EndKept
  <2>2. block \in 0 .. Len(body)
    <3>1. /\ idx \in 1 .. Len(body) + 1 /\ idx \in Nat /\ idx <= Len(body) /\ Len(body) \in Nat
          /\ block = Level(body, idx) - 1
          /\ body \in Seq(Instrs) /\ WellFormed(body)
      BY <1>2, <1>4, StackFacts, BodyFacts
    <3>2. Level(body, idx) \in Int /\ Level(body, idx) > 0 /\ Level(body, idx) <= idx
      BY <1>4, <3>1, LevelSteps, WellFormedLevels, LevelBound
    <3> HIDE DEF block
    <3> QED
      BY <3>1, <3>2
  <2>3. due \in Dues
    BY <1>3, <2>2 DEF DuesOf
  <2> HIDE DEF block, due
  <2>4. due.before \in Codes /\ Chain(due.flagged) \in Codes /\ due.after \in Codes
    BY <2>3, DueFields, ChainCoded
  <2>5. x \in Codes
    BY <1>8, <2>4, SomeCodes
  <2>6. y \in Codes
    <3>1. lists[idx].after \o Chain(due.flagged) \in Codes
      BY <1>5, <2>4, SomeCodes
    <3> QED
      BY <2>4, <3>1, SomeCodes
  <2>7. DuesOf(e)
    <3>1. DOMAIN e = 0 .. Len(body)
      BY <1>3 DEF DuesOf
    <3>2. \A b \in 0 .. Len(body) : e[b] \in Dues
      BY <1>3, NothingIsDue DEF DuesOf
    <3> HIDE DEF e
    <3> QED
      BY <3>1, <3>2 DEF DuesOf
  <2> HIDE DEF x, y, e
  <2> QED
    BY <1>6, <1>10, <2>1, <2>5, <2>6, <2>7
<1>15. ASSUME OtherKept PROVE coded
  <2>1. \E b : Plan(b, lists[idx].before \o FuncCode(idx), lists[idx].after, onElseOrEnd, onEnd)
    BY <1>15 DEF OtherKept
  <2> QED
    BY <1>3, <1>5, <1>7, <1>10, <2>1
<1>16. coded
  BY <1>11, <1>12, <1>13, <1>14, <1>15 DEF Resolve
<1>17. ListsCoded'
  BY <1>2, <1>3, <1>16 DEF ListsCoded, coded
<1>18. PassCoded'
  BY <1>2, <1>3, <1>16 DEF PassCoded, coded, DuesOf
<1> QED
  BY <1>17, <1>18 DEF Coded

LEMMA InitCoded ==
    ASSUME RunInit
    PROVE  Coded
<1>1. /\ lists = [i \in DOMAIN body |-> NoLists] /\ funcLists = [m \in FuncModes |-> <<>>] /\ probes = 0
      /\ onEntry = <<>> /\ onExit = <<>> /\ onElseOrEnd = <<>> /\ numFlags = 0
      /\ onEnd = [b \in 0 .. Len(body) |-> Nothing]
  BY DEF RunInit, ResolverInit, Init
<1>2. <<>> \in Codes
  BY SomeCodes
<1>3. ListsCoded
  BY <1>1, <1>2 DEF ListsCoded, NoLists
<1>4. PassCoded
  BY <1>1, <1>2, NothingIsDue DEF PassCoded
<1> QED
  BY <1>3, <1>4 DEF Coded

LEMMA CodedInductive ==
    ASSUME TypeOK, Shape, Coded, [RunNext]_<<vars, written, runVars>>
    PROVE  Coded'
<1>1. CASE Prepare
  BY <1>1, EditCoded, BeginCoded, ResolveCoded DEF Prepare
<1>2. CASE UNCHANGED <<body, lists, funcLists, probes, onEntry, onExit, onElseOrEnd, onEnd, numFlags>>
  BY <1>2 DEF Coded, ListsCoded, PassCoded
<1>3. Write \/ Run \/ UNCHANGED <<vars, written, runVars>> =>
        UNCHANGED <<body, lists, funcLists, probes, onEntry, onExit, onElseOrEnd, onEnd, numFlags>>
  BY DEF Write, Run, callerVars, passVars, vars, apiVars
<1> QED
  BY <1>1, <1>2, <1>3 DEF RunNext

(***************************************************************************)
(* What is written of the function itself.                                 *)
(***************************************************************************)
AllOps == InjectedOps \cup Structural \cup Branching \cup Leaving \cup {"nop", "call"}
Outs == [op : AllOps, arg : Seq(Nat), src : Nat]
\* Of the function itself s has the instructions S, in order.
Orders(s, S) ==
    /\ s \in Seq(Outs) /\ S = {s[k].src : k \in Own(s)}
    /\ \A j, k \in Own(s) : j < k => s[j].src < s[k].src

LEMMA OwnFacts ==
    ASSUME NEW s \in Seq(Outs)
    PROVE  /\ Len(s) \in Nat /\ DOMAIN s = 1 .. Len(s)
           /\ \A k \in 1 .. Len(s) : s[k].src \in Nat
           /\ Own(s) = {k \in 1 .. Len(s) : s[k].src > 0}
<1>1. Len(s) \in Nat /\ DOMAIN s = 1 .. Len(s) /\ \A k \in 1 .. Len(s) : s[k] \in Outs
  BY ElementsOf
<1>2. \A x \in Outs : x.src \in Nat
  BY DEF Outs
<1> QED
  BY <1>1, <1>2 DEF Own

LEMMA JoinOrders ==
    ASSUME NEW s, NEW S, Orders(s, S), NEW t, NEW T, Orders(t, T),
           \A x \in S : \A y \in T : x < y
    PROVE  Orders(s \o t, S \cup T)
<1> DEFINE r == s \o t
           n == Len(s)
<1>1. /\ s \in Seq(Outs) /\ t \in Seq(Outs)
      /\ S = {s[k].src : k \in Own(s)} /\ T = {t[k].src : k \in Own(t)}
      /\ \A j, k \in Own(s) : j < k => s[j].src < s[k].src
      /\ \A j, k \in Own(t) : j < k => t[j].src < t[k].src
  BY DEF Orders
<1>2. /\ n \in Nat /\ Len(t) \in Nat
      /\ Own(s) = {k \in 1 .. n : s[k].src > 0}
      /\ Own(t) = {k \in 1 .. Len(t) : t[k].src > 0}
  BY <1>1, OwnFacts
<1>3. /\ r \in Seq(Outs) /\ Len(r) = n + Len(t)
      /\ \A k \in 1 .. n : r[k] = s[k]
      /\ \A k \in 1 .. Len(t) : r[n + k] = t[k]
  <2>1. r \in Seq(Outs) /\ Len(r) = n + Len(t)
    BY <1>1
  <2>2. \A k \in 1 .. n : r[k] = s[k]
    BY <1>1
  <2>3. ASSUME NEW k \in 1 .. Len(t) PROVE r[n + k] = t[k]
    <3>1. n + k \in 1 .. n + Len(t) /\ ~(n + k <= n) /\ n + k - n = k
      BY <1>2
    <3> QED
      BY <1>1, <3>1
  <2> QED
    BY <2>1, <2>2, <2>3
<1>4. Own(r) = {k \in 1 .. n + Len(t) : r[k].src > 0}
  BY <1>3, OwnFacts
<1> HIDE DEF r, n
<1>5. \A k \in Own(r) : \/ k \in Own(s) /\ r[k] = s[k] /\ k <= n
                        \/ k - n \in Own(t) /\ r[k] = t[k - n] /\ k > n
  <2> TAKE k \in Own(r)
  <2>1. k \in 1 .. n + Len(t) /\ r[k].src > 0 /\ k \in Nat
    BY <1>2, <1>4
  <2>2. CASE k <= n
    <3>1. k \in 1 .. n
      BY <1>2, <2>1, <2>2
    <3> QED
      BY <1>2, <1>3, <2>1, <2>2, <3>1
  <2>3. CASE k > n
    <3>1. k - n \in 1 .. Len(t) /\ n + (k - n) = k
      BY <1>2, <2>1, <2>3
    <3>2. r[k] = t[k - n]
      BY <1>3, <3>1
    <3> QED
      BY <1>2, <2>1, <2>3, <3>1, <3>2
  <2> QED
    BY <1>2, <2>1, <2>2, <2>3
<1>6. /\ \A k \in Own(s) : k \in Own(r) /\ r[k] = s[k]
      /\ \A k \in Own(t) : n + k \in Own(r) /\ r[n + k] = t[k]
  <2>1. ASSUME NEW k \in Own(s) PROVE k \in Own(r) /\ r[k] = s[k]
    <3>1. k \in 1 .. n /\ k \in 1 .. n + Len(t) /\ s[k].src > 0
      BY <1>2
    <3> QED
      BY <1>3, <1>4, <3>1
  <2>2. ASSUME NEW k \in Own(t) PROVE n + k \in Own(r) /\ r[n + k] = t[k]
    <3>1. k \in 1 .. Len(t) /\ n + k \in 1 .. n + Len(t) /\ t[k].src > 0
      BY <1>2
    <3> QED
      BY <1>3, <1>4, <3>1
  <2> QED
    BY <2>1, <2>2
<1>7. S \cup T = {r[k].src : k \in Own(r)}
  <2>1. ASSUME NEW x \in S \cup T PROVE x \in {r[k].src : k \in Own(r)}
    BY <1>1, <1>6, <2>1
  <2>2. ASSUME NEW k \in Own(r) PROVE r[k].src \in S \cup T
    BY <1>1, <1>5
  <2> QED
    BY <2>1, <2>2
<1>8. ASSUME NEW j \in Own(r), NEW k \in Own(r), j < k PROVE r[j].src < r[k].src
  <2>1. j \in Nat /\ k \in Nat
    BY <1>2, <1>4
  <2>2. CASE j \in Own(s) /\ r[j] = s[j] /\ k \in Own(s) /\ r[k] = s[k]
    BY <1>1, <1>8, <2>2
  <2>3. CASE j \in Own(s) /\ r[j] = s[j] /\ k - n \in Own(t) /\ r[k] = t[k - n]
    BY <1>1, <2>3
  <2>4. CASE j - n \in Own(t) /\ r[j] = t[j - n] /\ k - n \in Own(t) /\ r[k] = t[k - n]
    <3>1. j - n < k - n
      BY <1>2, <1>8, <2>1
    <3> QED
      BY <1>1, <2>4, <3>1
  <2>5. ~(j > n /\ k <= n)
    BY <1>2, <1>8, <2>1
  <2> QED
    BY <1>5, <2>2, <2>3, <2>4, <2>5
<1> QED
  BY <1>3, <1>7, <1>8 DEF Orders, r

LEMMA FromOrders ==
    ASSUME NEW i \in Nat, NEW code \in Seq([op : AllOps, arg : Seq(Nat)])
    PROVE  /\ i = 0 => Orders(From(i, code), {})
           /\ i > 0 /\ Len(code) = 1 => Orders(From(i, code), {i})
<1> DEFINE n == Len(code)
           x(k) == [op |-> code[k].op, arg |-> code[k].arg, src |-> i]
           r == From(i, code)
<1>1. n \in Nat /\ DOMAIN code = 1 .. n /\ \A k \in 1 .. n : code[k] \in [op : AllOps, arg : Seq(Nat)]
  BY ElementsOf
<1>2. \A k \in 1 .. n : x(k) \in Outs
  <2> TAKE k \in 1 .. n
  <2> DEFINE c == code[k]
  <2>1. c \in [op : AllOps, arg : Seq(Nat)]
    BY <1>1
  <2> HIDE DEF c
  <2>2. c.op \in AllOps /\ c.arg \in Seq(Nat)
    BY <2>1
  <2>3. [op |-> c.op, arg |-> c.arg, src |-> i] \in Outs
    BY <2>2 DEF Outs
  <2> QED
    BY <2>3 DEF c
<1>3. r = [k \in 1 .. n |-> x(k)]
  BY <1>1 DEF From
<1>4. \A k \in 1 .. n : r[k].src = i
  BY <1>3
<1> HIDE DEF n, x, r
<1>5. r \in [1 .. n -> Outs]
  BY <1>2, <1>3
<1>6. r \in Seq(Outs) /\ Len(r) = n
  BY <1>1, <1>5, SequenceOf
<1>7. Own(r) = {k \in 1 .. n : r[k].src > 0}
  BY <1>6, OwnFacts
<1>8. ASSUME i = 0 PROVE Orders(r, {})
  <2>1. Own(r) = {}
    BY <1>4, <1>7, <1>8
  <2> QED
    BY <1>6, <2>1 DEF Orders
<1>9. ASSUME i > 0, n = 1 PROVE Orders(r, {i})
  <2>1. 1 .. n = {1}
    BY <1>9
  <2>2. Own(r) = {1} /\ r[1].src = i
    BY <1>4, <1>7, <1>9, <2>1
  <2>3. {r[k].src : k \in Own(r)} = {i}
    BY <2>2
  <2>4. \A j, k \in Own(r) : ~(j < k)
    BY <2>2
  <2> QED
    BY <1>6, <2>3, <2>4 DEF Orders
<1> QED
  BY <1>8, <1>9 DEF r, n

\* The instructions of the function that are written.
Stays(i) == IsLast(i) \/ "alternate" \notin some[i]

LEMMA EncodeInstrOrders ==
    ASSUME Shape, ListsCoded, NEW i \in DOMAIN body
    PROVE  Orders(EncodeInstr(i), IF Stays(i) THEN {i} ELSE {})
<1> DEFINE C == [op : AllOps, arg : Seq(Nat)]
           S == IF Stays(i) THEN {i} ELSE {}
           a == From(0, lists[i].before)
           b == IF ~IsLast(i) /\ "alternate" \in some[i] THEN From(0, lists[i].alternate) ELSE From(i, <<body[i]>>)
           c == IF IsLast(i) THEN <<>> ELSE From(0, lists[i].after)
<1>1. \A s \in Codes : s \in Seq(C)
  <2>1. Injected \subseteq C
    BY DEF Injected, AllOps
  <2> HIDE DEF C
  <2> QED
    BY <2>1 DEF Codes
<1>2. /\ lists[i].before \in Seq(C) /\ lists[i].alternate \in Seq(C) /\ lists[i].after \in Seq(C)
      /\ <<>> \in Seq(C)
  <2>1. lists[i].before \in Codes /\ lists[i].alternate \in Codes /\ lists[i].after \in Codes
    BY DEF ListsCoded, Modes, PlainModes
  <2> HIDE DEF C
  <2> QED
    BY <1>1, <2>1, SomeCodes
<1>3. <<body[i]>> \in Seq(C) /\ Len(<<body[i]>>) = 1
  <2>1. body[i] \in C
    <3>1. body[i] \in Instrs
      BY BodyFacts, ElementsOf
    <3> QED
      BY <3>1 DEF Instrs, AllOps
  <2> HIDE DEF C
  <2> QED
    BY <2>1
<1>4. i \in Nat /\ i > 0
  BY BodyFacts
<1>5. Orders(<<>>, {})
  <2>1. <<>> \in Seq(Outs) /\ Own(<<>>) = {}
    BY DEF Own
  <2> QED
    BY <2>1 DEF Orders
<1>6. \A s \in Seq(C) : Orders(From(0, s), {})
  BY FromOrders
<1>7. Orders(From(i, <<body[i]>>), {i})
  BY <1>3, <1>4, FromOrders
<1> HIDE DEF C
<1>8. Orders(a, {})
  BY <1>2, <1>6
<1>9. Orders(b, S)
  <2>1. CASE Stays(i)
    BY <1>7, <2>1 DEF Stays
  <2>2. CASE ~Stays(i)
    BY <1>2, <1>6, <2>2 DEF Stays
  <2> QED
    BY <2>1, <2>2
<1>10. Orders(c, {})
  BY <1>2, <1>5, <1>6
<1>11. EncodeInstr(i) = (a \o b) \o c
  BY DEF EncodeInstr
<1> HIDE DEF a, b, c, S
<1>12. Orders(a \o b, S)
  <2>1. Orders(a \o b, {} \cup S)
    BY <1>8, <1>9, JoinOrders
  <2>2. {} \cup S = S
    OBVIOUS
  <2> QED
    BY <2>1, <2>2
<1>13. Orders((a \o b) \o c, S)
  <2>1. Orders((a \o b) \o c, S \cup {})
    BY <1>10, <1>12, JoinOrders
  <2>2. S \cup {} = S
    OBVIOUS
  <2> QED
    BY <2>1, <2>2
<1> QED
  BY <1>11, <1>13 DEF S

LEMMA EncodedOrders ==
    ASSUME Shape, ListsCoded
    PROVE  Orders(Encoded, {i \in DOMAIN body : Stays(i)})
<1> DEFINE n == Len(body)
           ss == [i \in DOMAIN body |-> EncodeInstr(i)]
           upTo(k) == {i \in 1 .. k : Stays(i)}
<1>1. n \in Nat \ {0} /\ DOMAIN body = 1 .. n
  BY BodyFacts
<1>2. Len(ss) = n /\ \A i \in 1 .. n : ss[i] = EncodeInstr(i)
  BY <1>1
<1> HIDE DEF ss
<1>3. PICK f : /\ FlattenSeq(ss) = f[n]
               /\ \A i \in 1 .. n : f[i] = IF i = 1 THEN ss[i] ELSE f[i - 1] \o ss[i]
  BY <1>1, <1>2, FlattenPrefixes
<1> HIDE DEF n
<1> DEFINE bad == {k \in 1 .. n : ~Orders(f[k], upTo(k))}
<1>4. bad = {}
  <2>1. SUFFICES ASSUME bad # {} PROVE FALSE
    OBVIOUS
  <2>2. PICK k \in bad : \A j \in bad : k <= j
    <3>1. bad \in SUBSET Nat
      BY <1>1
    <3> HIDE DEF bad
    <3> QED
      BY <2>1, <3>1, LeastElement
  <2>3. k \in 1 .. n /\ ~Orders(f[k], upTo(k)) /\ k \in Nat
    BY <1>1
  <2> DEFINE new == IF Stays(k) THEN {k} ELSE {}
  <2>4. Orders(ss[k], new)
    BY <1>1, <1>2, <2>3, EncodeInstrOrders
  <2>5. CASE k = 1
    <3>1. f[k] = ss[k]
      BY <1>3, <2>3, <2>5
    <3>2. upTo(k) = new
      BY <2>3, <2>5
    <3> HIDE DEF upTo, new, bad
    <3> QED
      BY <2>3, <2>4, <3>1, <3>2, Zenon
  <2>6. CASE k # 1
    <3>1. k - 1 \in 1 .. n /\ ~(k <= k - 1)
      BY <1>1, <2>3, <2>6
    <3>2. k - 1 \notin bad
      <4> HIDE DEF bad
      <4> QED
        BY <2>2, <3>1
    <3>3. Orders(f[k - 1], upTo(k - 1))
      BY <3>1, <3>2
    <3>4. f[k] = f[k - 1] \o ss[k]
      BY <1>3, <2>3, <2>6
    <3>5. \A x \in upTo(k - 1) : \A y \in new : x < y
      BY <2>3
    <3>6. upTo(k) = upTo(k - 1) \cup new
      <4>1. \A i \in 1 .. k : i = k \/ i \in 1 .. k - 1
        BY <2>3
      <4>2. k \in 1 .. k /\ \A i \in 1 .. k - 1 : i \in 1 .. k
        BY <2>3
      <4> QED
        BY <4>1, <4>2, Zenon
    <3> HIDE DEF upTo, new, bad
    <3>7. Orders(f[k - 1] \o ss[k], upTo(k - 1) \cup new)
      BY <2>4, <3>3, <3>5, JoinOrders
    <3> QED
      BY <2>3, <3>4, <3>6, <3>7, Zenon
  <2> QED
    BY <2>5, <2>6
<1>5. Orders(f[n], upTo(n))
  <2>1. n \in 1 .. n
    BY <1>1
  <2> QED
    BY <1>4, <2>1
<1>6. Encoded = f[n]
  BY <1>3 DEF Encoded, ss
<1>7. upTo(n) = {i \in DOMAIN body : Stays(i)}
  BY <1>1
<1> QED
  BY <1>5, <1>6, <1>7, Zenon

LEMMA ResolvedIsKept ==
    ASSUME TypeOK, Shape, Resolves, Coded
    PROVE  KeptInstrsInOrder
<1> SUFFICES ASSUME phase = "done", special
             PROVE  /\ {Encoded[k].src : k \in Own(Encoded)} =
                          {i \in DOMAIN body :
                              IsLast(i) \/ (i \notin ReplacedInstrs /\ "alternate" \notin asked.some[i])}
                    /\ \A j, k \in Own(Encoded) : j < k => Encoded[j].src < Encoded[k].src
  BY DEF KeptInstrsInOrder, Resolved, Done
<1>1. \A i \in DOMAIN body : HandledAt(i)
  <2>1. idx = Len(body) + 1 /\ Len(body) \in Nat /\ DOMAIN body = 1 .. Len(body)
    BY BodyFacts DEF Shape
  <2>2. \A i \in DOMAIN body : i < idx
    BY <2>1
  <2> QED
    BY <2>2 DEF Resolves, Handled
<1>2. {i \in DOMAIN body : Stays(i)} =
        {i \in DOMAIN body : IsLast(i) \/ (i \notin ReplacedInstrs /\ "alternate" \notin asked.some[i])}
  BY <1>1, Zenon DEF Stays, HandledAt
<1>3. Orders(Encoded, {i \in DOMAIN body : Stays(i)})
  BY EncodedOrders DEF Coded
<1> QED
  BY <1>2, <1>3 DEF Orders

(***************************************************************************)
(* Theorems.                                                               *)
(***************************************************************************)
\* The pass over a function never loses the thread: its stack has exactly the open blocks of
\* the instruction it is at, numbered from the outside, and what it deletes is one of them,
\* for every well-formed function and whatever was asked for.
THEOREM ResolverTyped == RunSpec => []TypeOK
<1>1. RunInit => TypeOK /\ Shape /\ Told
  BY InitIsTyped
<1>2. TypeOK /\ Shape /\ Told /\ [RunNext]_<<vars, written, runVars>> => (TypeOK /\ Shape /\ Told)'
  BY TypedInductive
<1> QED
  BY <1>1, <1>2, PTL DEF RunSpec

\* Through a ModuleIterator no sequence of calls, on no function, leads to code that encode
\* refuses, but for a block alternate at an instruction that is no block: has_special_instr
\* is set whenever it has to be, what a block alternate replaces is deleted to its end and no
\* further, with every special body in it, and everything else is resolved.
THEOREM IteratorCodeIsWrittenHolds == RunSpec => []IteratorCodeIsWritten
<1> DEFINE IInv == TypeOK /\ Shape /\ Told /\ Resolves
<1>1. RunInit => IInv
  <2>1. RunInit => phase = "edit"
    BY DEF RunInit, ResolverInit
  <2>2. phase = "edit" => Resolves
    BY DEF Resolves, Region, Given, Handled
  <2> QED
    BY <2>1, <2>2, InitIsTyped
<1>2. IInv /\ [RunNext]_<<vars, written, runVars>> => IInv'
  BY TypedInductive, ResolvesInductive
<1>3. IInv => IteratorCodeIsWritten
  BY ResolvedIsWritten
<1> QED
  BY <1>1, <1>2, <1>3, PTL DEF RunSpec

\* Of the function's own instructions exactly those outside replaced blocks are written, in
\* order, and the last end always is: for every function, whatever was asked for, and
\* whatever is injected around them.
THEOREM KeptInstrsInOrderHolds == RunSpec => []KeptInstrsInOrder
<1> DEFINE IInv == TypeOK /\ Shape /\ Told /\ Resolves /\ Coded
<1>1. RunInit => IInv
  <2>1. RunInit => phase = "edit"
    BY DEF RunInit, ResolverInit
  <2>2. phase = "edit" => Resolves
    BY DEF Resolves, Region, Given, Handled
  <2> QED
    BY <2>1, <2>2, InitIsTyped, InitCoded
<1>2. IInv /\ [RunNext]_<<vars, written, runVars>> => IInv'
  BY TypedInductive, ResolvesInductive, CodedInductive
<1>3. IInv => KeptInstrsInOrder
  BY ResolvedIsKept
<1> QED
  BY <1>1, <1>2, <1>3, PTL DEF RunSpec
=============================================================================
