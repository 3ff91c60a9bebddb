---------------------------- MODULE NestingProofs ----------------------------
(***************************************************************************)
(* What the resolver leaves is nested as the function was, for every       *)
(* well-formed function and whatever was asked for.  The invariant says    *)
(* of the pass that what it puts after an instruction, or in place of one, *)
(* ends every block it opens and no other, and that what it puts before    *)
(* one opens and ends only the wrapper.  So the level at an instruction in *)
(* the written code is its level in what is kept of the function, one more *)
(* inside a wrapper; and a label, which is a difference of levels, means   *)
(* what it meant.                                                          *)
(***************************************************************************)
EXTENDS PlacementProofs, SequenceTheorems

(***************************************************************************)
(* Levels in any sequence of instructions: of the body, of injected code,  *)
(* of what is written.                                                     *)
(***************************************************************************)
\* What an instruction adds to the level of the next one.
Rise(ins) == (IF Opens(ins) THEN 1 ELSE 0) - (IF ins.op = "end" THEN 1 ELSE 0)

\* From one instruction to the next the level rises as the instruction says.
LEMMA AnyLevelSteps ==
    ASSUME NEW S, NEW code \in Seq(S)
    PROVE  /\ Level(code, 1) = 1
           /\ \A i \in 1 .. Len(code) + 1 : Level(code, i) \in Int
           /\ \A i \in DOMAIN code : Level(code, i + 1) = Level(code, i) + Rise(code[i])
<1> DEFINE n == Len(code)
           opens == {j \in 1 .. n : Opens(code[j])}
           closes == {j \in 1 .. n : code[j].op = "end"}
<1>1. n \in Nat /\ DOMAIN code = 1 .. n
  OBVIOUS
<1>2. ASSUME NEW i \in 1 .. n + 1 PROVE Level(code, i) = 1 + Below(opens, i) - Below(closes, i)
  <2>1. i \in Nat /\ \A j \in 1 .. n : j < i <=> j \in 1 .. i - 1
    BY <1>1
  <2>2. \A j \in 1 .. i - 1 : j \in 1 .. n
    BY <1>1
  <2> HIDE DEF n
  <2>3. {j \in 1 .. i - 1 : Opens(code[j])} = {j \in opens : j < i}
    BY <2>1, <2>2, Zenon
  <2>4. {j \in 1 .. i - 1 : code[j].op = "end"} = {j \in closes : j < i}
    BY <2>1, <2>2, Zenon
  <2> QED
    BY <2>3, <2>4, Zenon DEF Level, Below
<1>3. opens \in SUBSET (1 .. n) /\ closes \in SUBSET (1 .. n)
  OBVIOUS
<1>4. \A i \in DOMAIN code : /\ i \in opens <=> Opens(code[i])
                             /\ i \in closes <=> code[i].op = "end"
  BY <1>1
<1> HIDE DEF n, opens, closes
<1>5. /\ \A p \in Int : Below(opens, p) \in Int /\ Below(closes, p) \in Int
      /\ Below(opens, 1) = 0 /\ Below(closes, 1) = 0
  <2>1. ASSUME NEW X \in SUBSET (1 .. n) PROVE Below(X, 1) = 0
    BY <1>1, BelowFacts
  <2>2. ASSUME NEW X \in SUBSET (1 .. n), NEW p \in Int PROVE Below(X, p) \in Int
    <3>1. Cardinality(X) \in Nat /\ Below(X, p) \in 0 .. Cardinality(X)
      BY <1>1, BelowFacts
    <3> QED
      BY <3>1
  <2>3. Below(opens, 1) = 0 /\ Below(closes, 1) = 0
    BY <1>3, <2>1
  <2>4. \A p \in Int : Below(opens, p) \in Int /\ Below(closes, p) \in Int
    BY <1>3, <2>2
  <2> QED
    BY <2>3, <2>4
<1>6. \A i \in Int :
         /\ i \in opens => Below(opens, i + 1) = Below(opens, i) + 1
         /\ i \notin opens => Below(opens, i + 1) = Below(opens, i)
         /\ i \in closes => Below(closes, i + 1) = Below(closes, i) + 1
         /\ i \notin closes => Below(closes, i + 1) = Below(closes, i)
  <2>1. \A X \in SUBSET (1 .. n) :
           /\ \A p \in X : Below(X, p + 1) = Below(X, p) + 1
           /\ \A p \in Int \ X : Below(X, p + 1) = Below(X, p)
    BY <1>1, BelowFacts
  <2> QED
    BY <1>3, <2>1
<1>7. Level(code, 1) = 1
  <2>1. 1 \in 1 .. n + 1
    BY <1>1
  <2> QED
    BY <1>2, <1>5, <2>1
<1>8. \A i \in 1 .. n + 1 : Level(code, i) \in Int
  BY <1>1, <1>2, <1>5
<1>9. ASSUME NEW i \in DOMAIN code PROVE Level(code, i + 1) = Level(code, i) + Rise(code[i])
  <2>1. i \in Int /\ i \in 1 .. n + 1 /\ i + 1 \in 1 .. n + 1
    BY <1>1
  <2> DEFINE o == Below(opens, i)
             c == Below(closes, i)
             p == Below(opens, i + 1)
             d == Below(closes, i + 1)
  <2>2. Level(code, i) = 1 + o - c /\ Level(code, i + 1) = 1 + p - d
    BY <1>2, <2>1
  <2>3. o \in Int /\ c \in Int /\ p \in Int /\ d \in Int
    BY <1>5, <2>1
  <2>4. /\ Opens(code[i]) => p = o + 1
        /\ ~Opens(code[i]) => p = o
        /\ code[i].op = "end" => d = c + 1
        /\ code[i].op # "end" => d = c
    BY <1>4, <1>6, <2>1
  <2> HIDE DEF o, c, p, d
  <2> QED
    BY <2>2, <2>3, <2>4 DEF Rise
<1> QED
  BY <1>7, <1>8, <1>9 DEF n

LEMMA Rises ==
    ASSUME NEW ins
    PROVE  /\ Rise(ins) \in Int
           /\ ins.op \in Opening \cup {"if_flag"} => Rise(ins) = 1 /\ Opens(ins)
           /\ ins.op = "end" => Rise(ins) = -1 /\ ~Opens(ins)
           /\ ins.op \notin Opening \cup {"if_flag", "end"} => Rise(ins) = 0 /\ ~Opens(ins)
           /\ Opens(ins) <=> ins.op \in Opening \cup {"if_flag"}
<1>1. "end" \notin Opening \cup {"if_flag"}
  BY DEF Opening
<1> QED
  BY <1>1 DEF Rise, Opens

\* t stands in c, from the instruction after a on.
Stands(c, a, t) ==
    /\ a \in Nat /\ a + Len(t) <= Len(c)
    /\ \A k \in 1 .. Len(t) : c[a + k].op = t[k].op

\* Levels are counted in t as they are in c.
LEMMA StandingLevels ==
    ASSUME NEW S, NEW c \in Seq(S), NEW T, NEW t \in Seq(T), NEW a, Stands(c, a, t)
    PROVE  /\ a + 1 \in 1 .. Len(c) + 1
           /\ \A k \in 1 .. Len(t) + 1 : /\ a + k \in 1 .. Len(c) + 1
                                         /\ Level(c, a + k) = Level(c, a + 1) + Level(t, k) - 1
<1> DEFINE n == Len(t)
           good(k) == Level(c, a + k) = Level(c, a + 1) + Level(t, k) - 1
           bad == {k \in 1 .. n + 1 : ~good(k)}
<1>1. /\ n \in Nat /\ DOMAIN t = 1 .. n /\ Len(c) \in Nat /\ DOMAIN c = 1 .. Len(c)
      /\ a \in Nat /\ a + n <= Len(c)
  BY DEF Stands
<1>2. /\ Level(t, 1) = 1 /\ \A i \in 1 .. n + 1 : Level(t, i) \in Int
      /\ \A i \in 1 .. n : Level(t, i + 1) = Level(t, i) + Rise(t[i])
  BY <1>1, AnyLevelSteps
<1>3. /\ \A i \in 1 .. Len(c) + 1 : Level(c, i) \in Int
      /\ \A i \in 1 .. Len(c) : Level(c, i + 1) = Level(c, i) + Rise(c[i])
  BY <1>1, AnyLevelSteps
<1>4. \A k \in 1 .. n + 1 : a + k \in 1 .. Len(c) + 1
  BY <1>1
<1>5. SUFFICES bad = {}
  <2>1. 1 \in 1 .. n + 1
    BY <1>1
  <2> QED
    BY <1>4, <2>1
<1>6. SUFFICES ASSUME bad # {} PROVE FALSE
  OBVIOUS
<1>7. PICK k \in bad : \A j \in bad : k <= j
  <2>1. bad \in SUBSET Nat
    BY <1>1
  <2> HIDE DEF bad
  <2> QED
    BY <1>6, <2>1, LeastElement
<1>8. k \in 1 .. n + 1 /\ ~good(k) /\ k \in Nat
  BY <1>1
<1>9. k # 1
  <2>1. 1 \in 1 .. n + 1
    BY <1>1
  <2>2. Level(c, a + 1) \in Int
    BY <1>3, <1>4, <2>1
  <2>3. good(1)
    BY <1>2, <2>2
  <2> QED
    BY <1>8, <2>3
<1> DEFINE e == k - 1
<1>10. e \in 1 .. n /\ e \in 1 .. n + 1 /\ ~(k <= e) /\ e + 1 = k /\ a + e + 1 = a + k /\ a + e \in 1 .. Len(c)
  BY <1>1, <1>8, <1>9
<1>11. e \notin bad
  <2> HIDE DEF bad, e
  <2> QED
    BY <1>7, <1>10
<1>12. good(e)
  BY <1>10, <1>11
<1>13. Rise(c[a + e]) = Rise(t[e])
  <2>1. c[a + e].op = t[e].op
    BY <1>10 DEF Stands
  <2> QED
    BY <2>1 DEF Rise, Opens
<1> DEFINE x == Level(c, a + e)
           y == Level(c, a + k)
           u == Level(t, e)
           v == Level(t, k)
           l == Level(c, a + 1)
           r == Rise(t[e])
<1>14. y = x + r /\ v = u + r /\ x = l + u - 1
  <2> HIDE DEF e, bad
  <2>1. Level(c, a + e + 1) = Level(c, a + e) + Rise(c[a + e])
    BY <1>3, <1>10
  <2>2. Level(t, e + 1) = Level(t, e) + Rise(t[e])
    BY <1>2, <1>10
  <2> QED
    BY <1>10, <1>12, <1>13, <2>1, <2>2
<1>15. x \in Int /\ y \in Int /\ u \in Int /\ v \in Int /\ l \in Int /\ r \in Int
  <2>1. a + 1 \in 1 .. Len(c) + 1 /\ a + e \in 1 .. Len(c) + 1 /\ a + k \in 1 .. Len(c) + 1
    BY <1>1, <1>8, <1>10
  <2> HIDE DEF e, bad
  <2> QED
    BY <1>2, <1>3, <1>8, <1>10, <2>1, Rises
<1>16. y = l + v - 1
  <2> HIDE DEF x, y, u, v, l, r
  <2> QED
    BY <1>14, <1>15
<1> QED
  BY <1>8, <1>16

(***************************************************************************)
(* What a label means.                                                     *)
(***************************************************************************)
\* The last opener of the level the label asks for, if there is one.
LEMMA LabelFacts ==
    ASSUME NEW S, NEW c \in Seq(S), NEW i \in 1 .. Len(c) + 1, NEW d
    PROVE  LET x == Label(c, i, d)
               opens(j) == Opens(c[j]) /\ Level(c, j) + 1 = Level(c, i) - d
           IN  /\ x \in 0 .. i - 1
               /\ x # 0 => opens(x)
               /\ \A j \in 1 .. i - 1 : opens(j) => j <= x
<1> DEFINE opens(j) == Opens(c[j]) /\ Level(c, j) + 1 = Level(c, i) - d
           L == {0} \cup {j \in 1 .. i - 1 : opens(j)}
<1>1. i \in Nat /\ 1 <= i
  OBVIOUS
<1>2. Label(c, i, d) = Max(L)
  BY DEF Label
<1>3. L \in SUBSET Nat /\ L # {} /\ \A j \in L : j <= i - 1
  BY <1>1
<1>4. \A j : j \in L <=> j = 0 \/ (j \in 1 .. i - 1 /\ opens(j))
  BY <1>1
<1> DEFINE x == Max(L)
<1>5. x \in L /\ \A j \in L : j <= x
  <2>1. i - 1 \in Nat
    BY <1>1
  <2> HIDE DEF L
  <2> QED
    BY <1>3, <2>1, GreatestElement
<1> HIDE DEF L, x
<1>6. x \in 0 .. i - 1 /\ (x # 0 => opens(x)) /\ \A j \in 1 .. i - 1 : opens(j) => j <= x
  BY <1>1, <1>4, <1>5
<1> QED
  BY <1>2, <1>6 DEF x

\* The opener inside whose block everything up to i lies.
LEMMA LabelIs ==
    ASSUME NEW S, NEW c \in Seq(S), NEW i \in 1 .. Len(c) + 1, NEW d,
           NEW x \in 1 .. i - 1, Opens(c[x]), Level(c, x) + 1 = Level(c, i) - d,
           \A q \in x + 1 .. i - 1 : Level(c, q) > Level(c, x)
    PROVE  Label(c, i, d) = x
<1> DEFINE y == Label(c, i, d)
<1>1. /\ y \in 0 .. i - 1
      /\ y # 0 => Level(c, y) + 1 = Level(c, i) - d
      /\ x <= y
  BY LabelFacts
<1>2. i \in Nat /\ x \in Nat /\ 1 <= x /\ x < i /\ Len(c) \in Nat /\ i <= Len(c) + 1
  OBVIOUS
<1> HIDE DEF y
<1>3. SUFFICES ASSUME y # x PROVE FALSE
  BY DEF y
<1>4. y \in x + 1 .. i - 1 /\ y # 0 /\ y \in 1 .. Len(c) + 1 /\ x \in 1 .. Len(c) + 1
  BY <1>1, <1>2, <1>3
<1>5. Level(c, y) \in Int /\ Level(c, x) \in Int
  BY <1>4, AnyLevelSteps
<1>6. Level(c, y) + 1 = Level(c, x) + 1 /\ Level(c, y) > Level(c, x)
  BY <1>1, <1>4
<1> QED
  BY <1>5, <1>6

(***************************************************************************)
(* Code that is nested in itself: it ends every block it opens and no      *)
(* other, its elses are its own, and it holds no branches.                 *)
(***************************************************************************)
\* What validation asks of an else.
ElseFits(c, k) ==
    LET top == Label(c, k, 0)
    IN  /\ top # 0
        /\ c[top].op \in {"if", "if_flag"}
        /\ \A j \in top + 1 .. k - 1 : c[j].op = "else" => Level(c, j) # Level(c, k)
\* The code keeps to itself.
Nested(t) ==
    /\ \A k \in 1 .. Len(t) + 1 : Level(t, k) > 0
    /\ Level(t, Len(t) + 1) = 1
    /\ \A k \in 1 .. Len(t) : t[k].op \notin Labelled /\ (t[k].op = "else" => ElseFits(t, k))

\* An else of a piece of code fits wherever the code stands, and not right at its start.
LEMMA StandingElse ==
    ASSUME NEW S, NEW c \in Seq(S), NEW T, NEW t \in Seq(T), NEW a, Stands(c, a, t),
           NEW k \in 1 .. Len(t), ElseFits(t, k), \A j \in 1 .. Len(t) : Level(t, j) > 0
    PROVE  ElseFits(c, a + k) /\ Level(t, k) > 1
<1> DEFINE n == Len(t)
           x == Label(t, k, 0)
           l == Level(c, a + 1)
           p == a + k
<1>1. /\ n \in Nat /\ Len(c) \in Nat /\ a \in Nat /\ a + n <= Len(c) /\ k \in 1 .. n + 1 /\ k \in Nat
      /\ \A j \in 1 .. n : c[a + j].op = t[j].op /\ Level(t, j) > 0
  BY DEF Stands
<1> HIDE DEF p
<1>p. p = a + k /\ p \in Nat
  BY <1>1 DEF p
<1>2. /\ \A j \in 1 .. n + 1 : a + j \in 1 .. Len(c) + 1 /\ Level(c, a + j) = l + Level(t, j) - 1
      /\ l \in Int /\ \A j \in 1 .. n + 1 : Level(t, j) \in Int
  <2>1. /\ \A j \in 1 .. n + 1 : a + j \in 1 .. Len(c) + 1 /\ Level(c, a + j) = l + Level(t, j) - 1
        /\ a + 1 \in 1 .. Len(c) + 1
    BY StandingLevels
  <2> QED
    BY <2>1, AnyLevelSteps
<1>3. /\ x \in 1 .. k - 1 /\ Opens(t[x]) /\ Level(t, x) + 1 = Level(t, k) - 0
      /\ \A j \in 1 .. k - 1 : Opens(t[j]) /\ Level(t, j) + 1 = Level(t, k) - 0 => j <= x
      /\ t[x].op \in {"if", "if_flag"}
      /\ \A j \in x + 1 .. k - 1 : t[j].op = "else" => Level(t, j) # Level(t, k)
  <2>1. /\ x \in 0 .. k - 1
        /\ x # 0 => Opens(t[x]) /\ Level(t, x) + 1 = Level(t, k) - 0
        /\ \A j \in 1 .. k - 1 : Opens(t[j]) /\ Level(t, j) + 1 = Level(t, k) - 0 => j <= x
    BY <1>1, <1>p, LabelFacts
  <2>2. /\ x # 0 /\ t[x].op \in {"if", "if_flag"}
        /\ \A j \in x + 1 .. k - 1 : t[j].op = "else" => Level(t, j) # Level(t, k)
    BY DEF ElseFits
  <2> QED
    BY <1>1, <1>p, <2>1, <2>2
<1> HIDE DEF n, x, l
<1>4. Level(t, k) > 1
  <2>1. x \in 1 .. n /\ x \in 1 .. n + 1
    BY <1>1, <1>p, <1>3
  <2> DEFINE u == Level(t, x)
             v == Level(t, k)
  <2>2. u > 0 /\ u \in Int /\ v \in Int /\ u + 1 = v - 0
    BY <1>1, <1>p, <1>2, <1>3, <2>1
  <2> HIDE DEF u, v
  <2>3. v > 1
    BY <2>2
  <2> QED
    BY <2>3 DEF v
<1>5. Label(c, p, 0) = a + x
  <2> DEFINE y == Label(c, p, 0)
             opens(j) == Opens(c[j]) /\ Level(c, j) + 1 = Level(c, p) - 0
  <2>1. /\ y \in 0 .. p - 1
        /\ y # 0 => opens(y)
        /\ \A j \in 1 .. p - 1 : opens(j) => j <= y
    <3>1. p \in 1 .. Len(c) + 1
      BY <1>1, <1>2, <1>p
    <3> QED
      BY <3>1, LabelFacts
  <2>2. x \in 1 .. n /\ x \in 1 .. n + 1 /\ a + x \in 1 .. p - 1 /\ x \in Nat
    BY <1>1, <1>p, <1>3
  <2>3. opens(a + x)
    <3>1. Opens(c[a + x])
      <4>1. c[a + x].op = t[x].op
        BY <1>1, <1>p, <2>2
      <4> QED
        BY <1>3, <4>1 DEF Opens
    <3>2. Level(c, a + x) = l + Level(t, x) - 1 /\ Level(c, p) = l + Level(t, k) - 1
      BY <1>1, <1>p, <1>2, <2>2
    <3>3. Level(t, x) \in Int /\ Level(t, k) \in Int /\ l \in Int
      BY <1>1, <1>p, <1>2, <2>2
    <3>4. Level(t, x) + 1 = Level(t, k) - 0
      BY <1>3
    <3>5. Level(c, a + x) + 1 = Level(c, p) - 0
      BY <3>2, <3>3, <3>4
    <3> QED
      BY <3>1, <3>5
  <2>4. a + x <= y
    BY <2>1, <2>2, <2>3
  <2>5. ASSUME a + x # y PROVE FALSE
    <3> DEFINE z == y - a
    <3>1. z \in x + 1 .. k - 1 /\ z \in 1 .. k - 1 /\ z \in 1 .. n /\ z \in 1 .. n + 1
          /\ a + z = y /\ y # 0 /\ ~(z <= x)
      <4>1. y \in 0 .. p - 1 /\ a + x <= y /\ a + x # y /\ x \in Nat /\ 1 <= x
        BY <2>1, <2>2, <2>4, <2>5
      <4>2. k \in Nat /\ k - 1 <= n /\ n \in Nat /\ a \in Nat
        BY <1>1
      <4> HIDE DEF y, opens
      <4>3. y \in Int /\ y < a + k
        BY <1>p, <4>1, <4>2
      <4>4. z \in Int /\ x < z /\ z < k
        BY <4>1, <4>2, <4>3
      <4> QED
        BY <4>1, <4>2, <4>3, <4>4
    <3> HIDE DEF z
    <3>2. Opens(t[z])
      <4>1. c[a + z].op = t[z].op
        BY <1>1, <1>p, <3>1
      <4>2. Opens(c[a + z])
        BY <2>1, <3>1
      <4> QED
        BY <4>1, <4>2 DEF Opens
    <3>3. Level(c, a + z) = l + Level(t, z) - 1 /\ Level(c, p) = l + Level(t, k) - 1
      BY <1>1, <1>p, <1>2, <3>1
    <3>4. Level(t, z) \in Int /\ Level(t, k) \in Int /\ l \in Int
      BY <1>1, <1>p, <1>2, <3>1
    <3>5. Level(c, a + z) + 1 = Level(c, p) - 0
      BY <2>1, <3>1
    <3>6. Level(t, z) + 1 = Level(t, k) - 0
      BY <3>3, <3>4, <3>5
    <3> QED
      BY <1>3, <3>1, <3>2, <3>6
  <2> QED
    BY <2>5
<1>6. a + x # 0 /\ c[a + x].op \in {"if", "if_flag"}
  <2>1. x \in 1 .. n
    BY <1>1, <1>p, <1>3
  <2>2. c[a + x].op = t[x].op
    BY <1>1, <2>1
  <2>3. a + x # 0
    BY <1>1, <2>1
  <2> QED
    BY <1>3, <2>2, <2>3
<1>7. ASSUME NEW j \in a + x + 1 .. p - 1, c[j].op = "else" PROVE Level(c, j) # Level(c, p)
  <2> DEFINE z == j - a
  <2>1. z \in x + 1 .. k - 1 /\ z \in 1 .. n /\ z \in 1 .. n + 1 /\ a + z = j
    BY <1>1, <1>p, <1>3
  <2> HIDE DEF z
  <2>2. c[a + z].op = t[z].op
    BY <1>1, <1>p, <2>1
  <2>3. Level(t, z) # Level(t, k)
    BY <1>3, <1>7, <2>1, <2>2
  <2>4. Level(c, a + z) = l + Level(t, z) - 1 /\ Level(c, p) = l + Level(t, k) - 1
    BY <1>1, <1>p, <1>2, <2>1
  <2>5. Level(t, z) \in Int /\ Level(t, k) \in Int /\ l \in Int
    BY <1>1, <1>p, <1>2, <2>1
  <2> QED
    BY <2>1, <2>3, <2>4, <2>5
<1> DEFINE top == Label(c, p, 0)
<1>8. top = a + x
  BY <1>5
<1> HIDE DEF top
<1>9. /\ top # 0 /\ c[top].op \in {"if", "if_flag"}
      /\ \A j \in top + 1 .. p - 1 : c[j].op = "else" => Level(c, j) # Level(c, p)
  BY <1>6, <1>7, <1>8
<1>10. ElseFits(c, p)
  BY <1>9 DEF ElseFits, top
<1> QED
  BY <1>4, <1>10 DEF p

LEMMA JoinStands ==
    ASSUME NEW S, NEW s \in Seq(S), NEW t \in Seq(S)
    PROVE  /\ s \o t \in Seq(S) /\ Len(s \o t) = Len(s) + Len(t)
           /\ Stands(s \o t, 0, s) /\ Stands(s \o t, Len(s), t)
<1> DEFINE n == Len(s)
           k == Len(t)
           r == s \o t
<1>1. /\ n \in Nat /\ k \in Nat /\ r \in Seq(S) /\ Len(r) = n + k
      /\ \A j \in 1 .. n + k : r[j] = IF j <= n THEN s[j] ELSE t[j - n]
  OBVIOUS
<1> HIDE DEF n, k, r
<1>2. \A j \in 1 .. n : r[0 + j] = s[j]
  BY <1>1
<1>3. \A j \in 1 .. k : r[n + j] = t[j]
  <2> TAKE j \in 1 .. k
  <2>1. n + j \in 1 .. n + k /\ ~(n + j <= n) /\ n + j - n = j
    BY <1>1
  <2> QED
    BY <1>1, <2>1
<1>4. 0 \in Nat /\ 0 + n <= Len(r) /\ n + k <= Len(r)
  BY <1>1
<1> QED
  BY <1>1, <1>2, <1>3, <1>4 DEF Stands, n, k, r

\* Two nested codes one after the other are nested.
LEMMA JoinNested ==
    ASSUME NEW S, NEW s \in Seq(S), NEW t \in Seq(S), Nested(s), Nested(t)
    PROVE  Nested(s \o t)
<1> DEFINE n == Len(s)
           k == Len(t)
           r == s \o t
<1>1. n \in Nat /\ k \in Nat
  OBVIOUS
<1>2. r \in Seq(S) /\ Len(r) = n + k /\ Stands(r, 0, s) /\ Stands(r, n, t)
  BY JoinStands
<1> HIDE DEF r
<1>3. /\ \A j \in 1 .. n + 1 : Level(r, 0 + j) = Level(r, 0 + 1) + Level(s, j) - 1
      /\ \A j \in 1 .. k + 1 : Level(r, n + j) = Level(r, n + 1) + Level(t, j) - 1
  BY <1>2, StandingLevels
<1>4. Level(r, 1) = 1 /\ Level(s, n + 1) = 1 /\ Level(t, k + 1) = 1
  BY <1>2, AnyLevelSteps DEF Nested
<1>5. /\ \A j \in 1 .. n + 1 : Level(s, j) \in Int /\ Level(s, j) > 0
      /\ \A j \in 1 .. k + 1 : Level(t, j) \in Int /\ Level(t, j) > 0
  BY AnyLevelSteps DEF Nested
<1>6. \A j \in 1 .. n : s[j].op \notin Labelled /\ (s[j].op = "else" => ElseFits(s, j))
  BY DEF Nested
<1>7. \A j \in 1 .. k : t[j].op \notin Labelled /\ (t[j].op = "else" => ElseFits(t, j))
  BY DEF Nested
<1> HIDE DEF n, k
<1>8. \A j \in 1 .. n + 1 : Level(r, j) = Level(s, j)
  <2>1. \A j \in 1 .. n + 1 : 0 + j = j
    BY <1>1
  <2> QED
    BY <1>3, <1>4, <1>5, <2>1
<1>9. Level(r, n + 1) = 1
  <2>1. n + 1 \in 1 .. n + 1
    BY <1>1
  <2> QED
    BY <1>4, <1>8, <2>1
<1>10. \A j \in 1 .. k + 1 : Level(r, n + j) = Level(t, j)
  BY <1>3, <1>5, <1>9
<1>11. ASSUME NEW j \in 1 .. Len(r) + 1 PROVE Level(r, j) > 0
  <2>1. CASE j \in 1 .. n + 1
    BY <1>5, <1>8, <2>1
  <2>2. CASE j \notin 1 .. n + 1
    <3>1. j - n \in 1 .. k + 1 /\ n + (j - n) = j
      BY <1>1, <1>2, <2>2
    <3>2. Level(r, n + (j - n)) > 0
      BY <1>5, <1>10, <3>1
    <3> QED
      BY <3>1, <3>2
  <2> QED
    BY <2>1, <2>2
<1>12. Level(r, Len(r) + 1) = 1
  <2>1. k + 1 \in 1 .. k + 1 /\ n + (k + 1) = Len(r) + 1
    BY <1>1, <1>2
  <2>2. Level(r, n + (k + 1)) = 1
    BY <1>4, <1>10, <2>1
  <2> QED
    BY <2>1, <2>2
<1>13. ASSUME NEW j \in 1 .. Len(r) PROVE r[j].op \notin Labelled /\ (r[j].op = "else" => ElseFits(r, j))
  <2>1. CASE j \in 1 .. n
    <3>1. r[0 + j].op = s[j].op /\ 0 + j = j
      BY <1>1, <1>2, <2>1 DEF Stands, n
    <3>2. s[j].op = "else" => ElseFits(r, 0 + j)
      <4>1. j \in 1 .. Len(s) /\ \A q \in 1 .. Len(s) : Level(s, q) > 0
        BY <1>1, <1>5, <2>1 DEF n
      <4> QED
        BY <1>2, <1>6, <2>1, <4>1, StandingElse
    <3> QED
      BY <1>6, <2>1, <3>1, <3>2
  <2>2. CASE j \notin 1 .. n
    <3> DEFINE z == j - n
    <3>1. z \in 1 .. k /\ n + z = j
      BY <1>1, <1>2, <2>2
    <3> HIDE DEF z
    <3>2. r[n + z].op = t[z].op
      BY <1>2, <3>1 DEF Stands, k
    <3>3. t[z].op = "else" => ElseFits(r, n + z)
      <4>1. z \in 1 .. Len(t) /\ \A q \in 1 .. Len(t) : Level(t, q) > 0
        BY <1>1, <1>5, <3>1 DEF k
      <4> QED
        BY <1>2, <1>7, <3>1, <4>1, StandingElse
    <3> QED
      BY <1>7, <3>1, <3>2, <3>3
  <2> QED
    BY <2>1, <2>2
<1> QED
  BY <1>11, <1>12, <1>13 DEF Nested, r

(***************************************************************************)
(* Code that goes straight on: probes, and flags that are set.             *)
(***************************************************************************)
StraightOps == {"probe", "flag_on", "flag_off"}
Straight == Seq([op : StraightOps, arg : Seq(Nat)])

LEMMA StraightFacts ==
    /\ <<>> \in Straight
    /\ \A s \in Straight : \A t \in Straight : s \o t \in Straight
    /\ \A f \in Nat : <<FlagOn(f)>> \in Straight /\ <<FlagOff(f)>> \in Straight
    /\ \A s \in Straight : /\ Len(s) \in Nat /\ DOMAIN s = 1 .. Len(s) /\ s \in Codes
                           /\ \A k \in 1 .. Len(s) : s[k].op \in StraightOps /\ Rise(s[k]) = 0
<1> DEFINE I == [op : StraightOps, arg : Seq(Nat)]
<1>1. /\ <<>> \in Seq(I)
      /\ \A s \in Seq(I) : \A t \in Seq(I) : s \o t \in Seq(I)
      /\ \A s \in Seq(I) : Len(s) \in Nat /\ DOMAIN s = 1 .. Len(s) /\ \A k \in 1 .. Len(s) : s[k] \in I
      /\ \A x \in I : <<x>> \in Seq(I)
  <2> HIDE DEF I
  <2> QED
    OBVIOUS
<1>2. I \subseteq Injected /\ \A x \in I : x.op \in StraightOps
  BY DEF Injected, InjectedOps, StraightOps
<1>3. \A f \in Nat : FlagOn(f) \in I /\ FlagOff(f) \in I
  <2>1. \A f \in Nat : <<f>> \in Seq(Nat)
    OBVIOUS
  <2> QED
    BY <2>1 DEF FlagOn, FlagOff, Instr, StraightOps
<1>4. \A x \in I : Rise(x) = 0
  <2>1. StraightOps \cap (Opening \cup {"if_flag", "end"}) = {}
    BY DEF StraightOps, Opening
  <2> HIDE DEF I
  <2> QED
    BY <1>2, <2>1, Rises
<1>5. Seq(I) \subseteq Codes
  <2> HIDE DEF I
  <2> QED
    BY <1>2 DEF Codes
<1> HIDE DEF I
<1>6. Straight = Seq(I)
  BY DEF Straight, I
<1> QED
  BY <1>1, <1>2, <1>3, <1>4, <1>5, <1>6

\* Its level stays as it is.
LEMMA StraightLevels ==
    ASSUME NEW s \in Straight
    PROVE  \A k \in 1 .. Len(s) + 1 : Level(s, k) = 1
<1> DEFINE n == Len(s)
           bad == {k \in 1 .. n + 1 : Level(s, k) # 1}
<1>1. n \in Nat /\ DOMAIN s = 1 .. n /\ s \in Codes /\ \A k \in 1 .. n : Rise(s[k]) = 0
  BY StraightFacts
<1>2. /\ Level(s, 1) = 1 /\ \A i \in 1 .. n + 1 : Level(s, i) \in Int
      /\ \A i \in 1 .. n : Level(s, i + 1) = Level(s, i) + Rise(s[i])
  BY <1>1, AnyLevelSteps DEF Codes
<1>3. SUFFICES ASSUME bad # {} PROVE FALSE
  OBVIOUS
<1>4. PICK k \in bad : \A j \in bad : k <= j
  <2>1. bad \in SUBSET Nat
    BY <1>1
  <2> HIDE DEF bad
  <2> QED
    BY <1>3, <2>1, LeastElement
<1>5. k \in 1 .. n + 1 /\ Level(s, k) # 1 /\ k \in Nat /\ k # 1
  BY <1>1, <1>2
<1> DEFINE e == k - 1
<1>6. e \in 1 .. n /\ e \in 1 .. n + 1 /\ ~(k <= e) /\ e + 1 = k
  BY <1>1, <1>5
<1>7. e \notin bad
  <2> HIDE DEF bad, e
  <2> QED
    BY <1>4, <1>6
<1>8. Level(s, e) = 1
  BY <1>6, <1>7
<1> HIDE DEF bad, n, e
<1> QED
  BY <1>1, <1>2, <1>5, <1>6, <1>8

LEMMA StraightNested ==
    ASSUME NEW s \in Straight
    PROVE  Nested(s)
<1>1. StraightOps \cap (Labelled \cup {"else"}) = {}
  BY DEF StraightOps, Labelled, Branching
<1>2. /\ Len(s) \in Nat
      /\ \A k \in 1 .. Len(s) : s[k].op \in StraightOps
  BY StraightFacts
<1>3. Len(s) + 1 \in 1 .. Len(s) + 1
  BY <1>2
<1> QED
  BY <1>1, <1>2, <1>3, StraightLevels DEF Nested

(***************************************************************************)
(* Where the pieces of a flattened sequence stand.                         *)
(***************************************************************************)
\* f gives the prefixes of ss, joined.
Joins(f, ss, n) == \A i \in 1 .. n : f[i] = IF i = 1 THEN ss[i] ELSE f[i - 1] \o ss[i]

LEMMA PrefixesGrow ==
    ASSUME NEW S, NEW ss \in Seq(Seq(S)), NEW n \in Nat, n = Len(ss), NEW f, Joins(f, ss, n)
    PROVE  \A m \in 1 .. n : /\ f[m] \in Seq(S)
                             /\ \A j \in 1 .. m : /\ Len(f[j]) <= Len(f[m])
                                                  /\ \A q \in 1 .. Len(f[j]) : f[m][q] = f[j][q]
<1> DEFINE good(m) == /\ f[m] \in Seq(S)
                      /\ \A j \in 1 .. m : /\ Len(f[j]) <= Len(f[m])
                                           /\ \A q \in 1 .. Len(f[j]) : f[m][q] = f[j][q]
           bad == {m \in 1 .. n : ~good(m)}
<1>1. \A i \in 1 .. n : ss[i] \in Seq(S) /\ f[i] = IF i = 1 THEN ss[i] ELSE f[i - 1] \o ss[i]
  BY DEF Joins
<1>2. SUFFICES ASSUME bad # {} PROVE FALSE
  OBVIOUS
<1>3. PICK m \in bad : \A j \in bad : m <= j
  <2>1. bad \in SUBSET Nat
    OBVIOUS
  <2> HIDE DEF bad
  <2> QED
    BY <1>2, <2>1, LeastElement
<1>4. m \in 1 .. n /\ ~good(m) /\ m \in Nat
  OBVIOUS
<1>5. CASE m = 1
  <2>1. f[1] = ss[1] /\ ss[1] \in Seq(S) /\ 1 .. 1 = {1}
    BY <1>1, <1>4, <1>5
  <2>2. Len(f[1]) \in Nat
    BY <2>1
  <2>3. good(1)
    BY <2>1, <2>2
  <2> QED
    BY <1>4, <1>5, <2>3
<1>6. CASE m # 1
  <2> DEFINE e == m - 1
             s == f[e]
             t == ss[m]
             r == f[m]
  <2>1. e \in 1 .. n /\ ~(m <= e) /\ e + 1 = m /\ e \in Nat
    BY <1>4, <1>6
  <2>2. good(e)
    <3>1. e \notin bad
      <4> HIDE DEF bad, e
      <4> QED
        BY <1>3, <2>1
    <3> QED
      BY <2>1, <3>1
  <2>3. s \in Seq(S) /\ t \in Seq(S) /\ r = s \o t
    BY <1>1, <1>4, <1>6, <2>2
  <2>4. r \in Seq(S) /\ Len(r) = Len(s) + Len(t) /\ Len(s) \in Nat /\ Len(t) \in Nat /\ Len(s) <= Len(r)
        /\ \A q \in 1 .. Len(s) : r[q] = s[q]
    <3> HIDE DEF s, t, r
    <3> QED
      BY <2>3
  <2>5. ASSUME NEW j \in 1 .. m
        PROVE  Len(f[j]) <= Len(r) /\ \A q \in 1 .. Len(f[j]) : r[q] = f[j][q]
    <3>1. CASE j = m
      <4>1. f[j] = r
        BY <3>1
      <4>2. Len(r) \in Nat
        <5> HIDE DEF r, s, t
        <5> QED
          BY <2>4
      <4> HIDE DEF r
      <4> QED
        BY <4>1, <4>2
    <3>2. CASE j # m
      <4>1. j \in 1 .. e
        BY <1>4, <2>1, <3>2
      <4>2. j \in 1 .. n /\ j \in Nat
        BY <1>4
      <4>3. Len(f[j]) <= Len(s) /\ \A q \in 1 .. Len(f[j]) : s[q] = f[j][q]
        BY <2>2, <4>1
      <4>4. f[j] \in Seq(S)
        <5>1. j \notin bad
          <6>1. ~(m <= j)
            BY <1>4, <2>1, <4>1
          <6> HIDE DEF bad
          <6> QED
            BY <1>3, <6>1
        <5>2. good(j)
          BY <4>2, <5>1
        <5> QED
          BY <5>2
      <4> DEFINE l == Len(f[j])
      <4>5. l \in Nat
        BY <4>4
      <4> HIDE DEF s, r, l, e, good
      <4>6. l <= Len(r) /\ \A q \in 1 .. l : q \in 1 .. Len(s)
        BY <2>4, <4>3, <4>5 DEF l
      <4> QED
        BY <2>4, <4>3, <4>6 DEF l
    <3> QED
      BY <3>1, <3>2
  <2> QED
    BY <1>4, <2>4, <2>5
<1> QED
  BY <1>5, <1>6

\* Piece i of ss stands in c after s[i], and there is nothing else.
Places(c, ss, n, s) ==
    /\ s[1] = 0 /\ s[n + 1] = Len(c)
    /\ \A i \in 1 .. n : /\ s[i + 1] = s[i] + Len(ss[i])
                         /\ s[i + 1] <= Len(c)
                         /\ \A k \in 1 .. Len(ss[i]) : c[s[i] + k] = ss[i][k]
    /\ \A q \in 1 .. Len(c) : \E i \in 1 .. n : s[i] < q /\ q <= s[i + 1]

\* A flattened sequence has such places.
LEMMA FlattenPlaces ==
    ASSUME NEW S, NEW ss \in Seq(Seq(S)), NEW n \in Nat \ {0}, n = Len(ss), NEW c, c = FlattenSeq(ss)
    PROVE  /\ c \in Seq(S)
           /\ \E s \in [1 .. n + 1 -> Nat] : Places(c, ss, n, s)
<1>1. PICK f : /\ c = f[n]
               /\ \A i \in 1 .. n : f[i] = IF i = 1 THEN ss[i] ELSE f[i - 1] \o ss[i]
  BY FlattenPrefixes
<1>2. \A m \in 1 .. n : /\ f[m] \in Seq(S)
                        /\ \A j \in 1 .. m : /\ Len(f[j]) <= Len(f[m])
                                             /\ \A q \in 1 .. Len(f[j]) : f[m][q] = f[j][q]
  <2>1. Joins(f, ss, n)
    BY <1>1 DEF Joins
  <2>2. n \in Nat /\ n = Len(ss)
    OBVIOUS
  <2> QED
    BY <2>1, <2>2, PrefixesGrow
<1>3. /\ n \in 1 .. n /\ \A i \in 1 .. n : i \in Nat /\ 1 <= i /\ i <= n
      /\ \A i \in 1 .. n : ss[i] \in Seq(S) /\ Len(ss[i]) \in Nat
  OBVIOUS
<1>4. c \in Seq(S) /\ Len(c) \in Nat
  BY <1>1, <1>2, <1>3
<1> DEFINE s == [i \in 1 .. n + 1 |-> IF i = 1 THEN 0 ELSE Len(f[i - 1])]
<1>5. /\ s[1] = 0 /\ \A i \in 1 .. n : s[i + 1] = Len(f[i])
      /\ \A i \in 1 .. n : i # 1 => s[i] = Len(f[i - 1])
  <2>1. 1 \in 1 .. n + 1
    OBVIOUS
  <2>2. \A i \in 1 .. n : i + 1 \in 1 .. n + 1 /\ i + 1 # 1 /\ i + 1 - 1 = i /\ i \in 1 .. n + 1
    BY <1>3
  <2> QED
    BY <2>1, <2>2
<1>6. s \in [1 .. n + 1 -> Nat]
  <2> SUFFICES ASSUME NEW i \in 1 .. n + 1, i # 1 PROVE Len(f[i - 1]) \in Nat
    OBVIOUS
  <2>1. i - 1 \in 1 .. n
    OBVIOUS
  <2>2. f[i - 1] \in Seq(S)
    BY <1>2, <2>1
  <2> QED
    BY <2>2
<1> HIDE DEF s
<1>7. s[n + 1] = Len(c)
  BY <1>1, <1>3, <1>5
<1>8. \A i \in 1 .. n : s[i] \in Nat /\ s[i + 1] \in Nat
  <2>1. \A i \in 1 .. n : i \in 1 .. n + 1 /\ i + 1 \in 1 .. n + 1
    BY <1>3
  <2> QED
    BY <1>6, <2>1
<1>9. ASSUME NEW i \in 1 .. n
      PROVE  /\ s[i + 1] = s[i] + Len(ss[i])
             /\ s[i + 1] <= Len(c)
             /\ \A k \in 1 .. Len(ss[i]) : c[s[i] + k] = ss[i][k]
  <2> DEFINE g == f[i]
             t == ss[i]
  <2>1. g \in Seq(S) /\ t \in Seq(S) /\ s[i + 1] = Len(g) /\ i \in 1 .. n
    BY <1>2, <1>3, <1>5
  <2>2. Len(g) <= Len(c) /\ \A q \in 1 .. Len(g) : c[q] = g[q]
    <3>1. \A j \in 1 .. n : Len(f[j]) <= Len(f[n]) /\ \A q \in 1 .. Len(f[j]) : f[n][q] = f[j][q]
      BY <1>2, <1>3
    <3> QED
      BY <1>1, <3>1
  <2>3. Len(g) = s[i] + Len(t) /\ \A k \in 1 .. Len(t) : g[s[i] + k] = t[k]
    <3>1. CASE i = 1
      <4>1. g = t /\ s[i] = 0
        BY <1>1, <1>5, <3>1
      <4> HIDE DEF g, t
      <4> QED
        BY <2>1, <4>1
    <3>2. CASE i # 1
      <4> DEFINE h == f[i - 1]
      <4>1. i - 1 \in 1 .. n
        BY <1>3, <3>2
      <4>2. h \in Seq(S) /\ s[i] = Len(h) /\ g = h \o t
        BY <1>1, <1>2, <1>5, <3>2, <4>1
      <4> HIDE DEF g, t, h
      <4>3. Len(g) = Len(h) + Len(t) /\ Len(h) \in Nat /\ Len(t) \in Nat
            /\ \A q \in 1 .. Len(h) + Len(t) : g[q] = IF q <= Len(h) THEN h[q] ELSE t[q - Len(h)]
        BY <2>1, <4>2
      <4>4. \A k \in 1 .. Len(t) : Len(h) + k \in 1 .. Len(h) + Len(t) /\ ~(Len(h) + k <= Len(h)) /\ Len(h) + k - Len(h) = k
        BY <4>3
      <4>5. \A k \in 1 .. Len(t) : g[Len(h) + k] = t[k]
        BY <4>3, <4>4
      <4> QED
        BY <4>2, <4>3, <4>5
    <3> QED
      BY <3>1, <3>2
  <2>4. s[i] \in Nat /\ Len(t) \in Nat
    BY <1>8, <2>1
  <2> HIDE DEF g, t
  <2>5. \A k \in 1 .. Len(t) : s[i] + k \in 1 .. Len(g)
    BY <2>3, <2>4
  <2>6. s[i + 1] = s[i] + Len(t) /\ s[i + 1] <= Len(c) /\ \A k \in 1 .. Len(t) : c[s[i] + k] = t[k]
    BY <2>1, <2>2, <2>3, <2>5
  <2> QED
    BY <2>6 DEF t
<1>10. ASSUME NEW q \in 1 .. Len(c) PROVE \E i \in 1 .. n : s[i] < q /\ q <= s[i + 1]
  <2> DEFINE T == {i \in 1 .. n : q <= s[i + 1]}
  <2>1. T \in SUBSET Nat /\ n \in T
    BY <1>3, <1>7
  <2>2. PICK i \in T : \A j \in T : i <= j
    <3> HIDE DEF T
    <3> QED
      BY <2>1, LeastElement
  <2>3. i \in 1 .. n /\ q <= s[i + 1] /\ i \in Nat /\ q \in Nat /\ 1 <= q
    BY <1>4
  <2>4. s[i] < q
    <3>1. CASE i = 1
      BY <1>5, <2>3, <3>1
    <3>2. CASE i # 1
      <4>1. i - 1 \in 1 .. n /\ ~(i <= i - 1) /\ i - 1 + 1 = i
        BY <1>3, <2>3, <3>2
      <4>2. i - 1 \notin T
        <5> HIDE DEF T
        <5> QED
          BY <2>2, <4>1
      <4>3. ~(q <= s[i])
        BY <4>1, <4>2
      <4> QED
        BY <1>8, <2>3, <4>3
    <3> QED
      BY <3>1, <3>2
  <2> QED
    BY <2>3, <2>4
<1>11. Places(c, ss, n, s)
  BY <1>5, <1>7, <1>9, <1>10 DEF Places
<1> QED
  BY <1>4, <1>6, <1>11

(***************************************************************************)
(* The chain of flagged bodies is nested: part k asks for its flag at      *)
(* level k, and the ends close what the parts have opened.                 *)
(***************************************************************************)
LEMMA JoinElements ==
    ASSUME NEW S, NEW s \in Seq(S), NEW t \in Seq(S)
    PROVE  /\ s \o t \in Seq(S) /\ Len(s \o t) = Len(s) + Len(t) /\ Len(s) \in Nat /\ Len(t) \in Nat
           /\ \A j \in 1 .. Len(s) : (s \o t)[j] = s[j]
           /\ \A j \in 1 .. Len(t) : (s \o t)[Len(s) + j] = t[j]
<1> DEFINE n == Len(s)
           k == Len(t)
           r == s \o t
<1>1. /\ n \in Nat /\ k \in Nat /\ r \in Seq(S) /\ Len(r) = n + k
      /\ \A j \in 1 .. n + k : r[j] = IF j <= n THEN s[j] ELSE t[j - n]
  OBVIOUS
<1> HIDE DEF n, k, r
<1>2. \A j \in 1 .. n : r[j] = s[j]
  BY <1>1
<1>3. \A j \in 1 .. k : r[n + j] = t[j]
  <2> TAKE j \in 1 .. k
  <2>1. n + j \in 1 .. n + k /\ ~(n + j <= n) /\ n + j - n = j
    BY <1>1
  <2> QED
    BY <1>1, <2>1
<1> QED
  BY <1>1, <1>2, <1>3 DEF n, k, r

LEMMA OneElement ==
    ASSUME NEW S, NEW x \in S
    PROVE  <<x>> \in Seq(S) /\ Len(<<x>>) = 1 /\ <<x>>[1] = x
OBVIOUS

LEMMA CodeStanding ==
    \A c \in Codes : \A t \in Codes : \A a : Stands(c, a, t) =>
        /\ a + 1 \in 1 .. Len(c) + 1
        /\ \A k \in 1 .. Len(t) + 1 : /\ a + k \in 1 .. Len(c) + 1
                                      /\ Level(c, a + k) = Level(c, a + 1) + Level(t, k) - 1
BY StandingLevels DEF Codes

LEMMA PartLevels ==
    ASSUME NEW h \in {0, 1}, NEW b \in Straight, NEW t \in Codes, Len(t) = h + 1 + Len(b),
           h = 1 => t[1].op = "else", t[h + 1].op = "if_flag",
           \A j \in 1 .. Len(b) : t[h + 1 + j] = b[j]
    PROVE  /\ \A j \in 1 .. Len(t) : j > h + 1 => t[j].op \in StraightOps
           /\ \A j \in 1 .. Len(t) + 1 : Level(t, j) = IF j <= h + 1 THEN 1 ELSE 2
<1> DEFINE m == Len(b)
<1>1. /\ b \in Codes /\ m \in Nat /\ \A j \in 1 .. m : b[j].op \in StraightOps
      /\ \A j \in 1 .. m + 1 : Level(b, j) = 1
  BY StraightFacts, StraightLevels
<1>3. Rise(t[h + 1]) = 1 /\ (h = 1 => Rise(t[1]) = 0)
  <2>1. "else" \notin Opening \cup {"if_flag", "end"}
    BY DEF Opening
  <2> QED
    BY <2>1, Rises
<1> HIDE DEF m
<1>4. /\ t \in Seq(Injected) /\ Len(t) = h + 1 + m
      /\ \A j \in 1 .. m : t[h + 1 + j] = b[j]
  BY DEF Codes, m
<1>5. h \in Nat /\ h + 1 \in 1 .. Len(t) /\ Len(t) \in Nat /\ DOMAIN t = 1 .. Len(t) /\ h + 1 + m <= Len(t)
  <2>1. h \in Nat /\ m \in Nat
    BY <1>1
  <2>2. Len(t) \in Nat /\ DOMAIN t = 1 .. Len(t)
    BY <1>4, ElementsOf
  <2> QED
    BY <1>4, <2>1, <2>2
<1>6. \A j \in 1 .. Len(t) : j > h + 1 => t[j].op \in StraightOps
  <2> TAKE j \in 1 .. Len(t)
  <2> HAVE j > h + 1
  <2> DEFINE z == j - (h + 1)
  <2>1. z \in 1 .. m /\ h + 1 + z = j
    BY <1>1, <1>4, <1>5
  <2> HIDE DEF z
  <2> QED
    BY <1>1, <1>4, <2>1
<1>7. /\ Level(t, 1) = 1 /\ \A j \in 1 .. Len(t) + 1 : Level(t, j) \in Int
      /\ \A j \in 1 .. Len(t) : Level(t, j + 1) = Level(t, j) + Rise(t[j])
  BY <1>4, <1>5, AnyLevelSteps
<1>8. Level(t, h + 1) = 1
  <2>1. CASE h = 0
    BY <1>7, <2>1
  <2>2. CASE h = 1
    <3>1. 1 \in 1 .. Len(t)
      BY <1>5, <2>2
    <3>2. Level(t, 1 + 1) = Level(t, 1) + Rise(t[1])
      BY <1>7, <3>1
    <3> QED
      BY <1>3, <1>7, <2>2, <3>2
  <2> QED
    BY <2>1, <2>2
<1>9. Level(t, h + 1 + 1) = 2
  <2>1. Level(t, h + 1 + 1) = Level(t, h + 1) + Rise(t[h + 1])
    BY <1>5, <1>7
  <2> QED
    BY <1>3, <1>8, <2>1
<1>10. \A j \in 1 .. m + 1 : Level(t, h + 1 + j) = 2
  <2> DEFINE a == h + 1
  <2>0. a \in Nat /\ a = h + 1
    BY <1>5
  <2> HIDE DEF a
  <2>1. Stands(t, a, b)
    <3>1. \A j \in 1 .. m : t[a + j] = b[j]
      BY <1>4, <2>0
    <3> QED
      BY <1>5, <2>0, <3>1 DEF Stands, m
  <2>2. \A j \in 1 .. m + 1 : Level(t, a + j) = Level(t, a + 1) + Level(b, j) - 1
    <3>1. b \in Codes /\ t \in Codes /\ m = Len(b)
      BY <1>1, <1>4 DEF Codes, m
    <3>2. \A k \in 1 .. Len(b) + 1 : Level(t, a + k) = Level(t, a + 1) + Level(b, k) - 1
      BY <2>1, <3>1, CodeStanding, Zenon
    <3> QED
      BY <2>1, <3>1, <3>2
  <2>3. Level(t, a + 1) = 2
    BY <1>9, <2>0
  <2>4. \A j \in 1 .. m + 1 : Level(t, a + j) = 2
    BY <1>1, <2>2, <2>3
  <2> QED
    BY <2>0, <2>4
<1>11. ASSUME NEW j \in 1 .. Len(t) + 1 PROVE Level(t, j) = IF j <= h + 1 THEN 1 ELSE 2
  <2>1. CASE j <= h + 1
    <3>1. j = 1 \/ j = h + 1
      BY <1>5, <2>1
    <3> QED
      BY <1>7, <1>8, <2>1, <3>1
  <2>2. CASE ~(j <= h + 1)
    <3> DEFINE z == j - (h + 1)
    <3>1. z \in 1 .. m + 1 /\ h + 1 + z = j
      BY <1>1, <1>4, <1>5, <2>2
    <3> HIDE DEF z
    <3>2. Level(t, j) = 2
      BY <1>10, <3>1
    <3> QED
      BY <2>2, <3>2
  <2> QED
    BY <2>1, <2>2
<1> QED
  BY <1>6, <1>11

\* An else that comes with h = 1, the question for a flag, and m instructions that go straight on.
IsPart(t, h, m) ==
    /\ t \in Codes /\ Len(t) = h + 1 + m
    /\ h = 1 => t[1].op = "else"
    /\ t[h + 1].op = "if_flag"
    /\ \A j \in 1 .. Len(t) : j > h + 1 => t[j].op \in StraightOps
    /\ \A j \in 1 .. Len(t) + 1 : Level(t, j) = IF j <= h + 1 THEN 1 ELSE 2

LEMMA PartFacts ==
    ASSUME NEW h \in {0, 1}, NEW head, head = IF h = 0 THEN <<>> ELSE <<Else>>,
           NEW f \in Nat, NEW b \in Straight, NEW t, t = head \o <<IfFlag(f)>> \o b
    PROVE  IsPart(t, h, Len(b))
<1> DEFINE m == Len(b)
           i == IfFlag(f)
<1>1. b \in Codes /\ m \in Nat
  BY StraightFacts
<1>2. i \in Injected /\ i.op = "if_flag" /\ Else \in Injected /\ Else.op = "else"
  <2>1. "if_flag" \in InjectedOps /\ "else" \in InjectedOps /\ <<f>> \in Seq(Nat) /\ <<>> \in Seq(Nat)
    BY DEF InjectedOps
  <2> QED
    BY <2>1 DEF IfFlag, Else, Instr, Injected
<1> HIDE DEF i, m
<1>4. /\ t \in Seq(Injected) /\ Len(t) = h + 1 + m
      /\ h = 1 => t[1] = Else
      /\ t[h + 1] = i
      /\ \A j \in 1 .. m : t[h + 1 + j] = b[j]
  <2>1. /\ b \in Seq(Injected) /\ m = Len(b) /\ t = head \o <<i>> \o b /\ m \in Nat
        /\ <<i>> \in Seq(Injected) /\ Len(<<i>>) = 1 /\ <<i>>[1] = i
    BY <1>1, <1>2, OneElement DEF Codes, m, i
  <2> DEFINE u == head \o <<i>>
  <2>2. /\ u \in Seq(Injected) /\ Len(u) = h + 1 /\ u[h + 1] = i
        /\ h = 1 => u[1] = Else
    <3>1. CASE h = 0
      <4>1. u = <<i>>
        BY <2>1, <3>1
      <4> HIDE DEF u
      <4> QED
        BY <2>1, <3>1, <4>1
    <3>2. CASE h = 1
      <4>1. head = <<Else>>
        BY <3>2
      <4>2. <<Else>> \in Seq(Injected) /\ Len(<<Else>>) = 1 /\ <<Else>>[1] = Else
        BY <1>2, OneElement
      <4> DEFINE e == <<Else>>
                 o == <<i>>
      <4>3. e \in Seq(Injected) /\ o \in Seq(Injected) /\ Len(e) = 1 /\ Len(o) = 1 /\ e[1] = Else /\ o[1] = i
        BY <2>1, <4>2
      <4>4. u = e \o o
        BY <4>1
      <4> HIDE DEF u, e, o
      <4>5. /\ u \in Seq(Injected) /\ Len(u) = Len(e) + Len(o)
            /\ \A j \in 1 .. Len(e) : u[j] = e[j]
            /\ \A j \in 1 .. Len(o) : u[Len(e) + j] = o[j]
        <5>1. /\ e \o o \in Seq(Injected) /\ Len(e \o o) = Len(e) + Len(o)
              /\ \A j \in 1 .. Len(e) : (e \o o)[j] = e[j]
              /\ \A j \in 1 .. Len(o) : (e \o o)[Len(e) + j] = o[j]
          BY <4>3, JoinElements
        <5> QED
          BY <5>1, <4>4
      <4>6. 1 \in 1 .. 1 /\ h + 1 = 1 + 1
        BY <3>2
      <4> QED
        BY <3>2, <4>3, <4>5, <4>6
    <3> QED
      BY <3>1, <3>2
  <2>3. t = u \o b
    BY <2>1
  <2> HIDE DEF u
  <2>4. /\ t \in Seq(Injected) /\ Len(t) = Len(u) + Len(b)
        /\ \A j \in 1 .. Len(u) : t[j] = u[j]
        /\ \A j \in 1 .. Len(b) : t[Len(u) + j] = b[j]
    BY <2>1, <2>2, <2>3, JoinElements
  <2>5. h + 1 \in 1 .. h + 1 /\ 1 \in 1 .. h + 1
    OBVIOUS
  <2> QED
    BY <2>1, <2>2, <2>4, <2>5
<1>5. t \in Codes /\ Len(t) = h + 1 + Len(b)
  BY <1>4 DEF Codes, m
<1>6. (h = 1 => t[1].op = "else") /\ t[h + 1].op = "if_flag"
  BY <1>2, <1>4
<1>7. \A j \in 1 .. Len(b) : t[h + 1 + j] = b[j]
  BY <1>4 DEF m
<1>8. /\ \A j \in 1 .. Len(t) : j > h + 1 => t[j].op \in StraightOps
      /\ \A j \in 1 .. Len(t) + 1 : Level(t, j) = IF j <= h + 1 THEN 1 ELSE 2
  BY <1>5, <1>6, <1>7, PartLevels
<1> QED
  BY <1>5, <1>6, <1>8 DEF IsPart

LEMMA EndsLevels ==
    ASSUME NEW n \in Nat, NEW ends, ends = [k \in 1 .. n |-> End]
    PROVE  /\ ends \in Codes /\ Len(ends) = n
           /\ \A k \in 1 .. n : ends[k].op = "end"
           /\ \A k \in 1 .. n + 1 : Level(ends, k) = 2 - k
<1>1. End \in Injected /\ End.op = "end" /\ Rise(End) = -1
  BY SomeCodes, Rises DEF End, Instr
<1>2. ends \in Codes /\ Len(ends) = n /\ DOMAIN ends = 1 .. n /\ \A k \in 1 .. n : ends[k] = End
  <2>1. ends \in [1 .. n -> Injected]
    BY <1>1
  <2> QED
    BY <2>1, SequenceOf DEF Codes
<1>3. /\ Level(ends, 1) = 1 /\ \A k \in 1 .. n + 1 : Level(ends, k) \in Int
      /\ \A k \in 1 .. n : Level(ends, k + 1) = Level(ends, k) - 1
  BY <1>1, <1>2, AnyLevelSteps DEF Codes
<1> DEFINE bad == {k \in 1 .. n + 1 : Level(ends, k) # 2 - k}
<1>4. ASSUME bad # {} PROVE FALSE
  <2>1. PICK k \in bad : \A j \in bad : k <= j
    <3>1. bad \in SUBSET Nat
      OBVIOUS
    <3> HIDE DEF bad
    <3> QED
      BY <1>4, <3>1, LeastElement
  <2>2. k \in 1 .. n + 1 /\ Level(ends, k) # 2 - k /\ k \in Nat /\ k # 1
    BY <1>3
  <2> DEFINE e == k - 1
  <2>3. e \in 1 .. n /\ e \in 1 .. n + 1 /\ ~(k <= e) /\ e + 1 = k
    BY <2>2
  <2>4. e \notin bad
    <3> HIDE DEF bad, e
    <3> QED
      BY <2>1, <2>3
  <2>5. Level(ends, e) = 2 - e
    BY <2>3, <2>4
  <2> HIDE DEF bad, e
  <2>6. Level(ends, e + 1) = Level(ends, e) - 1
    BY <1>3, <2>3
  <2> QED
    BY <2>2, <2>3, <2>5, <2>6
<1> QED
  BY <1>1, <1>2, <1>4

(***************************************************************************)
(* Parts stand one after the other and then as many ends: part k asks for  *)
(* its flag at level k, from the second on in the else of the one before.  *)
(***************************************************************************)
\* Only the first part comes without an else.
HasElse(k) == IF k = 1 THEN 0 ELSE 1
\* A part lies in c from after a up to b.
PartAt(c, a, b, h) ==
    /\ a + h + 1 <= b
    /\ h = 1 => c[a + 1].op = "else"
    /\ c[a + h + 1].op = "if_flag"
    /\ \A q \in a + h + 2 .. b : c[q].op \in StraightOps
    /\ \A q \in a + 1 .. b + 1 : Level(c, q) = Level(c, a + 1) + (IF q <= a + h + 1 THEN 0 ELSE 1)
\* c is n parts, part k after s[k], and n ends.
ChainLaid(c, s, n) ==
    /\ s \in [1 .. n + 1 -> Nat] /\ s[1] = 0 /\ Len(c) = s[n + 1] + n
    /\ \A k \in 1 .. n : PartAt(c, s[k], s[k + 1], HasElse(k))
    /\ \A j \in 1 .. n : c[s[n + 1] + j].op = "end"
    /\ \A j \in 1 .. n + 1 : Level(c, s[n + 1] + j) = Level(c, s[n + 1] + 1) + 1 - j
    /\ \A q \in 1 .. s[n + 1] : \E k \in 1 .. n : s[k] < q /\ q <= s[k + 1]

LEMMA PartStands ==
    ASSUME NEW c \in Codes, NEW a, NEW t \in Codes, Stands(c, a, t), NEW h \in {0, 1}, NEW m \in Nat, IsPart(t, h, m),
           NEW b, b = a + Len(t)
    PROVE  PartAt(c, a, b, h)
<1> DEFINE n == Len(t)
<1>1. a \in Nat /\ h \in Nat /\ n \in Nat /\ n = h + 1 + m /\ b = a + n /\ \A k \in 1 .. n : c[a + k].op = t[k].op
  <2>1. a \in Nat /\ h \in Nat /\ \A k \in 1 .. Len(t) : c[a + k].op = t[k].op
    BY DEF Stands
  <2>2. Len(t) \in Nat /\ Len(t) = h + 1 + m
    BY DEF Codes, IsPart
  <2> QED
    BY <2>1, <2>2
<1>2. /\ \A k \in 1 .. n + 1 : /\ a + k \in 1 .. Len(c) + 1
                               /\ Level(c, a + k) = Level(c, a + 1) + Level(t, k) - 1
  BY CodeStanding
<1>3. /\ \A k \in 1 .. n : k > h + 1 => t[k].op \in StraightOps
      /\ \A k \in 1 .. n + 1 : Level(t, k) = IF k <= h + 1 THEN 1 ELSE 2
  BY DEF IsPart
<1> DEFINE l == Level(c, a + 1)
<1>4. l \in Int
  <2>1. a + 1 \in 1 .. Len(c) + 1
    <3>1. 1 \in 1 .. n + 1
      BY <1>1
    <3> QED
      BY <1>2, <3>1
  <2> QED
    BY <2>1, AnyLevelSteps DEF Codes
<1> HIDE DEF n, l
<1>5. a + h + 1 <= b
  BY <1>1
<1>6. h = 1 => c[a + 1].op = "else"
  <2>1. 1 \in 1 .. n
    BY <1>1
  <2> QED
    BY <1>1, <2>1 DEF IsPart
<1>7. c[a + h + 1].op = "if_flag"
  <2>1. h + 1 \in 1 .. n /\ a + (h + 1) = a + h + 1
    BY <1>1
  <2>2. c[a + (h + 1)].op = t[h + 1].op
    BY <1>1, <2>1
  <2> QED
    BY <2>1, <2>2 DEF IsPart
<1>8. ASSUME NEW q \in a + h + 2 .. b PROVE c[q].op \in StraightOps
  <2> DEFINE z == q - a
  <2>1. z \in 1 .. n /\ z > h + 1 /\ a + z = q
    BY <1>1
  <2> HIDE DEF z
  <2> QED
    BY <1>1, <1>3, <2>1
<1>9. ASSUME NEW q \in a + 1 .. b + 1
      PROVE  Level(c, q) = l + (IF q <= a + h + 1 THEN 0 ELSE 1)
  <2> DEFINE z == q - a
  <2>1. z \in 1 .. n + 1 /\ a + z = q /\ (z <= h + 1 <=> q <= a + h + 1)
    BY <1>1
  <2> HIDE DEF z
  <2>2. Level(c, a + z) = l + Level(t, z) - 1 /\ Level(t, z) = IF z <= h + 1 THEN 1 ELSE 2
    BY <1>2, <1>3, <2>1 DEF l
  <2> QED
    BY <1>4, <2>1, <2>2
<1> QED
  BY <1>5, <1>6, <1>7, <1>8, <1>9 DEF PartAt, l

LEMMA ChainSteps ==
    ASSUME NEW c \in Codes, NEW n \in Nat \ {0}, NEW s, ChainLaid(c, s, n)
    PROVE  \A k \in 1 .. n + 1 : Level(c, s[k] + 1) = k
<1> DEFINE bad == {k \in 1 .. n + 1 : Level(c, s[k] + 1) # k}
<1>1. SUFFICES ASSUME bad # {} PROVE FALSE
  OBVIOUS
<1>2. PICK k \in bad : \A j \in bad : k <= j
  <2>1. bad \in SUBSET Nat
    OBVIOUS
  <2> HIDE DEF bad
  <2> QED
    BY <1>1, <2>1, LeastElement
<1>3. k \in 1 .. n + 1 /\ Level(c, s[k] + 1) # k /\ k \in Nat
  OBVIOUS
<1>4. s \in [1 .. n + 1 -> Nat] /\ s[1] = 0 /\ \A q \in 1 .. n : PartAt(c, s[q], s[q + 1], HasElse(q))
  BY DEF ChainLaid
<1>5. k # 1
  <2>1. Level(c, 0 + 1) = 1
    BY AnyLevelSteps DEF Codes
  <2> QED
    BY <1>3, <1>4, <2>1
<1> DEFINE e == k - 1
<1>6. e \in 1 .. n /\ e \in 1 .. n + 1 /\ ~(k <= e) /\ e + 1 = k /\ e \in Nat
  BY <1>3, <1>5
<1>7. e \notin bad
  <2> HIDE DEF bad, e
  <2> QED
    BY <1>2, <1>6
<1>8. Level(c, s[e] + 1) = e
  BY <1>6, <1>7
<1> HIDE DEF bad, e
<1> DEFINE a == s[e]
           b == s[k]
           h == HasElse(e)
<1>9. a \in Nat /\ b \in Nat /\ h \in {0, 1} /\ PartAt(c, a, b, h) /\ Level(c, a + 1) = e
  <2>1. h \in {0, 1}
    BY DEF HasElse
  <2> QED
    BY <1>3, <1>4, <1>6, <1>8, <2>1
<1> HIDE DEF a, b, h
<1>10. Level(c, b + 1) = e + 1
  <2>1. a + h + 1 <= b /\ \A q \in a + 1 .. b + 1 : Level(c, q) = Level(c, a + 1) + (IF q <= a + h + 1 THEN 0 ELSE 1)
    BY <1>9 DEF PartAt
  <2>2. b + 1 \in a + 1 .. b + 1 /\ ~(b + 1 <= a + h + 1)
    BY <1>9, <2>1
  <2> QED
    BY <1>9, <2>1, <2>2
<1> QED
  BY <1>3, <1>6, <1>10 DEF b

LEMMA LaidNested ==
    ASSUME NEW c \in Codes, NEW n \in Nat \ {0}, NEW s, ChainLaid(c, s, n)
    PROVE  Nested(c)
<1> DEFINE z == s[n + 1]
<1>1. /\ s \in [1 .. n + 1 -> Nat] /\ Len(c) = z + n /\ z \in Nat /\ Len(c) \in Nat
      /\ \A k \in 1 .. n : PartAt(c, s[k], s[k + 1], HasElse(k))
      /\ \A q \in 1 .. z : \E k \in 1 .. n : s[k] < q /\ q <= s[k + 1]
  <2>1. n + 1 \in 1 .. n + 1 /\ Len(c) \in Nat
    BY DEF Codes
  <2> QED
    BY <2>1 DEF ChainLaid
<1>2. /\ \A j \in 1 .. n : c[z + j].op = "end"
      /\ \A j \in 1 .. n + 1 : Level(c, z + j) = Level(c, z + 1) + 1 - j
  BY DEF ChainLaid
<1>3. \A k \in 1 .. n + 1 : Level(c, s[k] + 1) = k
  BY ChainSteps
<1>4. \A j \in 1 .. n + 1 : Level(c, z + j) = n + 2 - j
  <2>1. Level(c, z + 1) = n + 1
    BY <1>3
  <2> HIDE DEF z
  <2> QED
    BY <1>2, <2>1
<1> HIDE DEF z
\* What stands in part k.
<1>5. ASSUME NEW k \in 1 .. n
      PROVE  LET a == s[k]
                 h == HasElse(k)
             IN  /\ a \in Nat /\ s[k + 1] \in Nat /\ h \in {0, 1} /\ a + h + 1 <= s[k + 1]
                 /\ h = 1 => c[a + 1].op = "else"
                 /\ c[a + h + 1].op = "if_flag"
                 /\ \A q \in a + h + 2 .. s[k + 1] : c[q].op \in StraightOps
                 /\ \A q \in a + 1 .. s[k + 1] + 1 : Level(c, q) = IF q <= a + h + 1 THEN k ELSE k + 1
  <2> DEFINE a == s[k]
             b == s[k + 1]
             h == HasElse(k)
  <2>1. a \in Nat /\ b \in Nat /\ h \in {0, 1} /\ PartAt(c, a, b, h) /\ Level(c, a + 1) = k /\ k \in Nat
    <3>1. k \in 1 .. n + 1 /\ k + 1 \in 1 .. n + 1
      OBVIOUS
    <3> QED
      BY <1>1, <1>3, <3>1 DEF HasElse
  <2> HIDE DEF a, b, h
  <2>2. /\ a + h + 1 <= b
        /\ h = 1 => c[a + 1].op = "else"
        /\ c[a + h + 1].op = "if_flag"
        /\ \A q \in a + h + 2 .. b : c[q].op \in StraightOps
        /\ \A q \in a + 1 .. b + 1 : Level(c, q) = Level(c, a + 1) + (IF q <= a + h + 1 THEN 0 ELSE 1)
    BY <2>1 DEF PartAt
  <2>3. \A q \in a + 1 .. b + 1 : Level(c, q) = IF q <= a + h + 1 THEN k ELSE k + 1
    BY <2>1, <2>2
  <2> QED
    BY <2>1, <2>2, <2>3 DEF a, b, h
<1>6. ASSUME NEW q \in 1 .. Len(c) + 1 PROVE Level(c, q) > 0
  <2>1. CASE q <= z
    <3>1. PICK k \in 1 .. n : s[k] < q /\ q <= s[k + 1]
      <4>1. q \in 1 .. z
        BY <1>1, <2>1
      <4> QED
        BY <1>1, <4>1
    <3> DEFINE a == s[k]
               b == s[k + 1]
    <3>2. a \in Nat /\ b \in Nat /\ Level(c, q) \in {k, k + 1}
      <4>1. q \in s[k] + 1 .. s[k + 1] + 1
        BY <1>5, <3>1
      <4> QED
        BY <1>5, <4>1
    <3> QED
      BY <3>2
  <2>2. CASE ~(q <= z)
    <3> DEFINE j == q - z
    <3>1. j \in 1 .. n + 1 /\ z + j = q
      BY <1>1, <2>2
    <3> HIDE DEF j
    <3>2. Level(c, q) = n + 2 - j
      BY <1>4, <3>1
    <3> QED
      BY <3>1, <3>2
  <2> QED
    BY <2>1, <2>2
<1>7. Level(c, Len(c) + 1) = 1
  <2>1. n + 1 \in 1 .. n + 1 /\ Len(c) + 1 = z + (n + 1)
    BY <1>1
  <2>2. Level(c, z + (n + 1)) = n + 2 - (n + 1)
    BY <1>4, <2>1
  <2> QED
    BY <2>1, <2>2
\* An else begins its part and belongs to the part before.
<1>8. ASSUME NEW k \in 1 .. n, k # 1, NEW q \in 1 .. Len(c), q = s[k] + 1 PROVE ElseFits(c, q)
  <2> DEFINE e == k - 1
             a == s[e]
             b == s[k]
             h == HasElse(e)
             x == a + h + 1
  <2>1. e \in 1 .. n /\ e + 1 = k /\ e \in Nat
    BY <1>8
  <2>2. a \in Nat /\ b \in Nat /\ h \in {0, 1} /\ x <= b
        /\ c[x].op = "if_flag"
        /\ (\A i \in x + 1 .. b : c[i].op \in StraightOps)
        /\ (\A i \in a + 1 .. b + 1 : Level(c, i) = IF i <= x THEN e ELSE k)
    <3>1. /\ a \in Nat /\ s[e + 1] \in Nat /\ h \in {0, 1} /\ a + h + 1 <= s[e + 1]
          /\ c[a + h + 1].op = "if_flag"
          /\ \A i \in a + h + 2 .. s[e + 1] : c[i].op \in StraightOps
          /\ \A i \in a + 1 .. s[e + 1] + 1 : Level(c, i) = IF i <= a + h + 1 THEN e ELSE e + 1
      <4> HIDE DEF e
      <4> QED
        BY <1>5, <2>1
    <3>2. b = s[e + 1]
      BY <2>1
    <3>3. x = a + h + 1
      OBVIOUS
    <3> DEFINE u == a + h + 1
               v == a + h + 2
               w == s[e + 1]
    <3> HIDE DEF e, a, b, h, x
    <3>4. u = x /\ v = x + 1 /\ w = b
      BY <3>1, <3>2, <3>3
    <3>5. /\ a \in Nat /\ w \in Nat /\ h \in {0, 1} /\ u <= w
          /\ c[u].op = "if_flag"
          /\ \A i \in v .. w : c[i].op \in StraightOps
          /\ \A i \in a + 1 .. w + 1 : Level(c, i) = IF i <= u THEN e ELSE e + 1
      BY <3>1
    <3> HIDE DEF u, v, w
    <3> QED
      BY <2>1, <3>4, <3>5
  <2>3. q = b + 1 /\ q \in 1 .. Len(c) + 1 /\ q \in Nat
    BY <1>1, <1>8
  <2> HIDE DEF x, a, b, h, e
  <2>4. /\ x \in Nat /\ x \in 1 .. q - 1 /\ x \in a + 1 .. b + 1 /\ q \in a + 1 .. b + 1 /\ ~(q <= x)
        /\ \A i \in x + 1 .. q - 1 : i \in x + 1 .. b /\ i \in a + 1 .. b + 1 /\ ~(i <= x)
    BY <2>2, <2>3 DEF x
  <2>5. /\ Level(c, x) = e /\ Level(c, q) = k
        /\ \A i \in x + 1 .. q - 1 : Level(c, i) = k /\ c[i].op \in StraightOps
    BY <2>2, <2>3, <2>4
  <2>6. Label(c, q, 0) = x
    <3>1. Opens(c[x])
      BY <2>2, Rises
    <3>2. Level(c, x) + 1 = Level(c, q) - 0 /\ \A i \in x + 1 .. q - 1 : Level(c, i) > Level(c, x)
      BY <2>1, <2>5
    <3>3. c \in Seq(Injected)
      BY DEF Codes
    <3> QED
      BY <2>3, <2>4, <3>1, <3>2, <3>3, LabelIs
  <2>7. "else" \notin StraightOps
    BY DEF StraightOps
  <2>8. x # 0 /\ c[x].op \in {"if", "if_flag"} /\ \A i \in x + 1 .. q - 1 : c[i].op # "else"
    BY <2>2, <2>4, <2>5, <2>7
  <2> QED
    BY <2>6, <2>8 DEF ElseFits
<1>9. ASSUME NEW q \in 1 .. Len(c) PROVE c[q].op \notin Labelled /\ (c[q].op = "else" => ElseFits(c, q))
  <2>1. {"else", "if_flag", "end"} \cap Labelled = {} /\ StraightOps \cap (Labelled \cup {"else"}) = {}
    BY DEF Labelled, Branching, StraightOps
  <2>2. CASE q <= z
    <3>1. PICK k \in 1 .. n : s[k] < q /\ q <= s[k + 1]
      <4>1. q \in 1 .. z
        BY <1>1, <2>2
      <4> QED
        BY <1>1, <4>1
    <3> DEFINE a == s[k]
               b == s[k + 1]
               h == HasElse(k)
    <3>2. /\ a \in Nat /\ b \in Nat /\ h \in {0, 1} /\ (h = 1 <=> k # 1)
          /\ h = 1 => c[a + 1].op = "else"
          /\ c[a + h + 1].op = "if_flag"
          /\ \A i \in a + h + 2 .. b : c[i].op \in StraightOps
      BY <1>5 DEF HasElse
    <3>3. a < q /\ q <= b /\ q \in Nat
      BY <3>1
    <3> HIDE DEF b, h
    <3>4. CASE q = a + 1 /\ h = 1
      BY <1>8, <2>1, <3>2, <3>4
    <3>5. CASE q = a + h + 1
      BY <2>1, <3>2, <3>5
    <3>6. CASE q \in a + h + 2 .. b
      BY <2>1, <3>2, <3>6
    <3>7. (q = a + 1 /\ h = 1) \/ q = a + h + 1 \/ q \in a + h + 2 .. b
      <4> HIDE DEF a
      <4> QED
        BY <3>2, <3>3
    <3> QED
      BY <3>4, <3>5, <3>6, <3>7
  <2>3. CASE ~(q <= z)
    <3> DEFINE j == q - z
    <3>1. j \in 1 .. n /\ z + j = q
      BY <1>1, <2>3
    <3> HIDE DEF j
    <3>2. c[q].op = "end"
      BY <1>2, <3>1
    <3> QED
      BY <2>1, <3>2
  <2> QED
    BY <2>2, <2>3
<1> QED
  BY <1>6, <1>7, <1>9 DEF Nested

\* Flagged bodies as the pass makes them: each a flag and probes.
StraightFlagged == Seq([flag : Nat, body : Straight])

LEMMA FlaggedElements ==
    ASSUME NEW flagged \in StraightFlagged
    PROVE  /\ Len(flagged) \in Nat /\ DOMAIN flagged = 1 .. Len(flagged)
           /\ \A k \in 1 .. Len(flagged) : flagged[k].flag \in Nat /\ flagged[k].body \in Straight
<1>1. Len(flagged) \in Nat /\ DOMAIN flagged = 1 .. Len(flagged)
      /\ \A k \in 1 .. Len(flagged) : flagged[k] \in [flag : Nat, body : Straight]
  BY ElementsOf DEF StraightFlagged
<1>2. \A x \in [flag : Nat, body : Straight] : x.flag \in Nat /\ x.body \in Straight
  OBVIOUS
<1> QED
  BY <1>1, <1>2

\* One link of the chain.
ChainPart(flagged, k) ==
    (IF k = 1 THEN <<>> ELSE <<Else>>) \o <<IfFlag(flagged[k].flag)>> \o flagged[k].body

LEMMA ChainPartFacts ==
    ASSUME NEW flagged \in StraightFlagged, NEW k \in 1 .. Len(flagged)
    PROVE  /\ IsPart(ChainPart(flagged, k), HasElse(k), Len(flagged[k].body))
           /\ Len(flagged[k].body) \in Nat
<1> DEFINE h == HasElse(k)
           head == IF h = 0 THEN <<>> ELSE <<Else>>
           f == flagged[k].flag
           b == flagged[k].body
           t == head \o <<IfFlag(f)>> \o b
<1>1. h \in {0, 1} /\ head = IF k = 1 THEN <<>> ELSE <<Else>>
  BY DEF HasElse
<1>2. f \in Nat /\ b \in Straight
  BY FlaggedElements
<1>3. Len(b) \in Nat
  BY <1>2, StraightFacts
<1>4. ChainPart(flagged, k) = t
  BY <1>1 DEF ChainPart
<1>6. t = head \o <<IfFlag(f)>> \o b /\ head = IF h = 0 THEN <<>> ELSE <<Else>>
  OBVIOUS
<1> HIDE DEF h, f, b, t, head
<1>5. IsPart(t, h, Len(b))
  BY <1>1, <1>2, <1>6, PartFacts
<1> QED
  BY <1>3, <1>4, <1>5 DEF h, b

LEMMA ChainLaidOut ==
    ASSUME NEW flagged \in StraightFlagged, flagged # <<>>
    PROVE  Chain(flagged) \in Codes /\ \E s : ChainLaid(Chain(flagged), s, Len(flagged))
<1> DEFINE n == Len(flagged)
           parts == [k \in DOMAIN flagged |-> ChainPart(flagged, k)]
           ends == [k \in DOMAIN flagged |-> End]
           d == FlattenSeq(parts)
           c == d \o ends
<1>1. n \in Nat \ {0} /\ DOMAIN flagged = 1 .. n
  BY FlaggedElements DEF StraightFlagged
<1>2. Chain(flagged) = c
  BY DEF Chain, ChainPart
<1>3. /\ \A k \in 1 .. n : ChainPart(flagged, k) \in Seq(Injected)
      /\ \A k \in 1 .. n : parts[k] = ChainPart(flagged, k)
  <2>1. \A k \in 1 .. n : ChainPart(flagged, k) \in Codes
    BY ChainPartFacts DEF IsPart, n
  <2> QED
    BY <1>1, <2>1 DEF Codes
<1>4. parts \in Seq(Seq(Injected)) /\ Len(parts) = n
  <2>1. parts \in [1 .. n -> Seq(Injected)]
    BY <1>1, <1>3
  <2> HIDE DEF parts, n
  <2> QED
    BY <1>1, <2>1, SequenceOf
<1>5. /\ ends \in Seq(Injected) /\ Len(ends) = n
      /\ \A k \in 1 .. n : ends[k].op = "end"
      /\ \A k \in 1 .. n + 1 : Level(ends, k) = 2 - k
  <2>1. ends = [k \in 1 .. n |-> End]
    BY <1>1
  <2> HIDE DEF ends, n
  <2> QED
    BY <1>1, <2>1, EndsLevels DEF Codes
<1> HIDE DEF n, parts, ends
<1>6. /\ d \in Seq(Injected)
      /\ \E s \in [1 .. n + 1 -> Nat] : Places(d, parts, n, s)
  BY <1>1, <1>4, FlattenPlaces
<1> HIDE DEF d
<1>7. /\ c \in Seq(Injected) /\ Len(c) = Len(d) + n /\ Len(d) \in Nat
      /\ \A j \in 1 .. Len(d) : c[j] = d[j]
      /\ Stands(c, Len(d), ends)
  BY <1>5, <1>6, JoinElements, JoinStands
<1> HIDE DEF c
<1>8. PICK s \in [1 .. n + 1 -> Nat] :
         /\ s[1] = 0 /\ s[n + 1] = Len(d)
         /\ \A i \in 1 .. n : /\ s[i + 1] = s[i] + Len(parts[i])
                              /\ s[i + 1] <= Len(d)
                              /\ \A k \in 1 .. Len(parts[i]) : d[s[i] + k] = parts[i][k]
         /\ \A q \in 1 .. Len(d) : \E i \in 1 .. n : s[i] < q /\ q <= s[i + 1]
  BY <1>6 DEF Places
<1>9. ASSUME NEW k \in 1 .. n PROVE PartAt(c, s[k], s[k + 1], HasElse(k))
  <2> DEFINE t == ChainPart(flagged, k)
             a == s[k]
             b == s[k + 1]
             h == HasElse(k)
             m == Len(flagged[k].body)
  <2>1. IsPart(t, h, m) /\ m \in Nat
    BY ChainPartFacts DEF n
  <2>2. h \in {0, 1}
    BY DEF HasElse
  <2>3. /\ a \in Nat /\ b = a + Len(t) /\ b <= Len(d)
        /\ \A j \in 1 .. Len(t) : d[a + j] = t[j]
    <3>1. k \in 1 .. n + 1 /\ parts[k] = t
      BY <1>1, <1>3
    <3> QED
      BY <1>8, <3>1
  <2>4. Len(t) \in Nat /\ t \in Codes
    BY <2>1 DEF Codes, IsPart
  <2> HIDE DEF t, a, b, h, m
  <2>5. Stands(c, a, t)
    <3>1. \A j \in 1 .. Len(t) : a + j \in 1 .. Len(d)
      BY <1>7, <2>3, <2>4
    <3>2. \A j \in 1 .. Len(t) : c[a + j] = t[j]
      BY <1>7, <2>3, <3>1
    <3>3. a + Len(t) <= Len(c)
      BY <1>1, <1>7, <2>3, <2>4
    <3> QED
      BY <2>3, <3>2, <3>3 DEF Stands
  <2>6. c \in Codes
    BY <1>7 DEF Codes
  <2>7. PartAt(c, a, b, h)
    BY <2>1, <2>2, <2>3, <2>4, <2>5, <2>6, PartStands
  <2> QED
    BY <2>7 DEF a, b, h
<1> DEFINE z == s[n + 1]
<1>10. /\ z = Len(d) /\ \A j \in 1 .. n : c[z + j].op = "end"
       /\ \A j \in 1 .. n + 1 : Level(c, z + j) = Level(c, z + 1) + 1 - j
  <2>1. z = Len(d)
    BY <1>8
  <2> HIDE DEF z
  <2>2. Stands(c, z, ends)
    BY <1>7, <2>1
  <2>3. \A j \in 1 .. n : c[z + j].op = "end"
    BY <1>5, <2>2 DEF Stands
  <2>4. c \in Codes /\ ends \in Codes
    BY <1>5, <1>7 DEF Codes
  <2>5. /\ z + 1 \in 1 .. Len(c) + 1
        /\ \A k \in 1 .. n + 1 : Level(c, z + k) = Level(c, z + 1) + Level(ends, k) - 1
    BY <1>5, <2>2, <2>4, CodeStanding
  <2>6. Level(c, z + 1) \in Int
    BY <1>7, <2>5, AnyLevelSteps
  <2>7. \A j \in 1 .. n + 1 : Level(c, z + j) = Level(c, z + 1) + 1 - j
    BY <1>1, <1>5, <2>5, <2>6
  <2> QED
    BY <2>1, <2>3, <2>7
<1>11. ChainLaid(c, s, n)
  <2>1. Len(c) = s[n + 1] + n
    BY <1>7, <1>8
  <2>2. \A q \in 1 .. s[n + 1] : \E k \in 1 .. n : s[k] < q /\ q <= s[k + 1]
    BY <1>8
  <2> QED
    BY <1>8, <1>9, <1>10, <2>1, <2>2 DEF ChainLaid
<1>12. c \in Codes
  BY <1>7 DEF Codes
<1> QED
  BY <1>2, <1>11, <1>12 DEF n

\* So the chain the pass writes for waiting flagged bodies is nested.
LEMMA ChainNested ==
    ASSUME NEW flagged \in StraightFlagged
    PROVE  Chain(flagged) \in Codes /\ Nested(Chain(flagged))
<1>1. CASE flagged = <<>>
  <2>1. Chain(flagged) = <<>>
    <3>1. Chain(<<>>) = FlattenSeq(<<>>) \o <<>>
      BY DEF Chain
    <3>2. FlattenSeq(<<>>) = <<>>
      BY DEF FlattenSeq
    <3> QED
      BY <1>1, <3>1, <3>2
  <2> QED
    BY <2>1, StraightFacts, StraightNested
<1>2. CASE flagged # <<>>
  <2> DEFINE c == Chain(flagged)
             n == Len(flagged)
  <2>1. n \in Nat \ {0}
    BY <1>2 DEF StraightFlagged
  <2>2. c \in Codes /\ \E s : ChainLaid(c, s, n)
    BY <1>2, ChainLaidOut
  <2> HIDE DEF c, n
  <2>3. Nested(c)
    BY <2>1, <2>2, LaidNested
  <2> QED
    BY <2>2, <2>3 DEF c
<1> QED
  BY <1>1, <1>2

(***************************************************************************)
(* What the pass makes of probes goes straight on.                         *)
(***************************************************************************)
LEMMA ProbesAreStraight ==
    ASSUME NEW s \in Codes, \A p \in RunOf(s) : p.op = "probe"
    PROVE  s \in Straight
<1> DEFINE n == Len(s)
           I == [op : StraightOps, arg : Seq(Nat)]
<1>1. n \in Nat /\ DOMAIN s = 1 .. n /\ \A k \in 1 .. n : s[k] \in Injected
  BY ElementsOf DEF Codes
<1>2. \A k \in 1 .. n : s[k] \in RunOf(s)
  BY <1>1 DEF RunOf
<1>3. \A x \in Injected : x.op = "probe" => x \in I
  BY DEF Injected, StraightOps
<1> HIDE DEF I
<1>4. \A k \in 1 .. n : s[k] \in I
  BY <1>1, <1>2, <1>3
<1>5. s \in [1 .. n -> I]
  <2>1. s = [k \in 1 .. n |-> s[k]]
    BY <1>1 DEF Codes
  <2> HIDE DEF n
  <2> QED
    BY <1>4, <2>1
<1>6. s \in Seq(I)
  <2> HIDE DEF n
  <2> QED
    BY <1>1, <1>5, SequenceOf
<1> QED
  BY <1>6 DEF Straight, I

\* What may wait for the end of a block, if all of it goes straight on.
StraightDues == [before : Straight, flagged : StraightFlagged, after : Straight]
StraightDuesOf(ends) == DOMAIN ends = 0 .. Len(body) /\ \A b \in 0 .. Len(body) : ends[b] \in StraightDues

LEMMA StraightDueFields ==
    ASSUME NEW d \in StraightDues
    PROVE  /\ d.before \in Straight /\ d.flagged \in StraightFlagged /\ d.after \in Straight
           /\ \A x \in Straight, y \in Straight : [[d EXCEPT !.before = x] EXCEPT !.after = y] \in StraightDues
           /\ \A z \in StraightFlagged : [d EXCEPT !.flagged = z] \in StraightDues
BY DEF StraightDues

LEMMA NothingGoesStraight == Nothing \in StraightDues
<1>1. <<>> \in StraightFlagged /\ <<>> \in Straight
  <2>1. \A S : <<>> \in Seq(S)
    OBVIOUS
  <2> QED
    BY <2>1, StraightFacts DEF StraightFlagged
<1> QED
  BY <1>1 DEF Nothing, StraightDues

LEMMA FlaggedStraight ==
    ASSUME NEW b \in DOMAIN onEnd, NEW top, NEW f \in Nat, NEW l \in Straight, body[idx].arg \in Seq(Nat)
    PROVE  Flagged(top, f, l)[b] \in StraightFlagged
<1> DEFINE labels == {k \in DOMAIN body[idx].arg : top - body[idx].arg[k] = b}
           c == Cardinality(labels)
           one == [flag |-> f, body |-> l]
<1>1. Flagged(top, f, l)[b] = [k \in 1 .. c |-> one]
  BY DEF Flagged
<1>2. c \in Nat
  <2> DEFINE a == body[idx].arg
  <2>1. Len(a) \in Nat /\ labels \subseteq 1 .. Len(a)
    OBVIOUS
  <2> HIDE DEF a, labels
  <2>2. IsFiniteSet(1 .. Len(a))
    BY <2>1, FS_Interval
  <2> QED
    BY <2>1, <2>2, FS_Subset, FS_CardinalityType
<1>3. one \in [flag : Nat, body : Straight]
  OBVIOUS
<1> HIDE DEF c, one
<1>4. [k \in 1 .. c |-> one] \in [1 .. c -> [flag : Nat, body : Straight]]
  BY <1>3
<1> QED
  BY <1>1, <1>2, <1>4, SequenceOf DEF StraightFlagged

LEMMA EndsStraight ==
    ASSUME NEW ends, StraightDuesOf(ends), StraightDuesOf(onEnd), NEW top, NEW f \in Nat,
           NEW l, \A m \in Modes : l[m] \in Straight, body[idx].arg \in Seq(Nat)
    PROVE  StraightDuesOf(PlanEnds(ends, top, f, l))
<1> DEFINE N == 0 .. Len(body)
           r == PlanEnds(ends, top, f, l)
<1>1. DOMAIN ends = N /\ DOMAIN onEnd = N /\ \A b \in N : ends[b] \in StraightDues
  BY DEF StraightDuesOf
<1>2. l.block_exit \in Straight /\ l.semantic_after \in Straight
  BY DEF Modes, SpecialModes
<1> HIDE DEF N
<1>3. CASE body[idx].op \in BlockStyle
  <2> DEFINE x == IF Op = "if" THEN <<>> ELSE l.block_exit
             y == l.semantic_after
             u == ends[top].before \o x
             v == ends[top].after \o y
  <2>1. r = [ends EXCEPT ![top].before = @ \o x, ![top].after = @ \o y]
    BY <1>3 DEF PlanEnds, Op
  <2>2. x \in Straight /\ y \in Straight
    BY <1>2, StraightFacts
  <2> HIDE DEF x, y
  <2>3. DOMAIN r = N
    BY <1>1, <2>1
  <2>4. ASSUME NEW b \in N PROVE r[b] \in StraightDues
    <3>1. CASE b # top
      BY <1>1, <2>1, <3>1
    <3>2. CASE b = top
      <4>1. ends[top] \in StraightDues /\ top \in N
        BY <1>1, <3>2
      <4>2. ends[top].before \in Straight /\ ends[top].after \in Straight
        BY <4>1, StraightDueFields
      <4>3. u \in Straight /\ v \in Straight
        BY <2>2, <4>2, StraightFacts
      <4>4. r[top] = [[ends[top] EXCEPT !.before = u] EXCEPT !.after = v]
        BY <1>1, <2>1, <4>1
      <4> HIDE DEF u, v, r
      <4>5. [[ends[top] EXCEPT !.before = u] EXCEPT !.after = v] \in StraightDues
        BY <4>1, <4>3, StraightDueFields
      <4>6. r[top] \in StraightDues
        BY <4>4, <4>5, Zenon
      <4> QED
        BY <3>2, <4>6
    <3> QED
      BY <3>1, <3>2
  <2> HIDE DEF r
  <2> QED
    BY <2>3, <2>4 DEF StraightDuesOf, N, r
<1>4. CASE body[idx].op \notin BlockStyle /\ BranchFlagged(l)
  <2> DEFINE g(b) == Flagged(top, f, l.semantic_after)[b]
  <2>1. r = [b \in DOMAIN ends |-> [ends[b] EXCEPT !.flagged = @ \o g(b)]]
    BY <1>4 DEF PlanEnds, Op
  <2>2. DOMAIN r = N
    BY <1>1, <2>1
  <2>3. ASSUME NEW b \in N PROVE r[b] \in StraightDues
    <3>1. g(b) \in StraightFlagged
      BY <1>1, <1>2, FlaggedStraight
    <3> HIDE DEF g
    <3>2. ends[b] \in StraightDues /\ ends[b].flagged \in StraightFlagged
      BY <1>1, StraightDueFields
    <3> DEFINE z == ends[b].flagged \o g(b)
    <3>3. z \in StraightFlagged
      <4>1. \A S : \A s \in Seq(S) : \A t \in Seq(S) : s \o t \in Seq(S)
        OBVIOUS
      <4> QED
        BY <3>1, <3>2, <4>1 DEF StraightFlagged
    <3>4. r[b] = [ends[b] EXCEPT !.flagged = z]
      BY <1>1, <2>1
    <3> HIDE DEF z
    <3> QED
      BY <3>2, <3>3, <3>4, StraightDueFields
  <2> HIDE DEF r
  <2> QED
    BY <2>2, <2>3 DEF StraightDuesOf, N, r
<1>5. CASE body[idx].op \notin BlockStyle /\ ~BranchFlagged(l)
  <2>1. r = ends
    BY <1>5 DEF PlanEnds, Op
  <2> QED
    BY <2>1
<1> QED
  BY <1>3, <1>4, <1>5

(***************************************************************************)
(* The wrapper's block and its end are the only instructions in the code   *)
(* before an instruction that open or end anything.                        *)
(***************************************************************************)
\* Straight code with o and then e somewhere in it.
Around(x, o, y, e, z) == x \o o \o y \o e \o z
Wrapped(o, e, code) == \E x, y, z \in Straight : code = Around(x, o, y, e, z)

Associates(u, v, w) == (u \o v) \o w = u \o (v \o w)
LEMMA JoinsAssociate ==
    \A u, v, w \in Codes : Associates(u, v, w)
<1>1. ASSUME NEW S, NEW a \in Seq(S), NEW b \in Seq(S), NEW c \in Seq(S)
      PROVE  Associates(a, b, c)
  <2>1. (a \o b) \o c = a \o (b \o c)
    BY ConcatAssociative
  <2> QED
    BY <2>1 DEF Associates
<1> QED
  BY <1>1 DEF Codes

\* Straight code may be put before and after it.
AroundGrows(x, o, y, e, z, s) ==
    /\ Around(x, o, y, e, z) \in Codes
    /\ Around(x, o, y, e, z) \o s = Around(x, o, y, e, z \o s)
    /\ s \o Around(x, o, y, e, z) = Around(s \o x, o, y, e, z)

LEMMA FiveJoined ==
    ASSUME NEW x \in Codes, NEW o \in Codes, NEW y \in Codes, NEW e \in Codes, NEW z \in Codes,
           NEW s \in Codes
    PROVE  AroundGrows(x, o, y, e, z, s)
<1> DEFINE xo == x \o o
           xy == xo \o y
           xe == xy \o e
<1>1. xo \in Codes
  BY SomeCodes, Zenon
<1>2. xy \in Codes
  <2> HIDE DEF xo
  <2> QED
    BY <1>1, SomeCodes, Zenon
<1>3. xe \in Codes
  <2> HIDE DEF xy
  <2> QED
    BY <1>2, SomeCodes, Zenon
<1>4. xe \o z \in Codes
  <2> HIDE DEF xe
  <2> QED
    BY <1>3, SomeCodes, Zenon
<1>5. /\ Associates(xe, z, s) /\ Associates(s, xe, z) /\ Associates(s, xy, e)
      /\ Associates(s, xo, y) /\ Associates(s, x, o)
  <2> HIDE DEF xo, xy, xe
  <2> QED
    BY <1>1, <1>2, <1>3, JoinsAssociate, Zenon
<1>6. Around(x, o, y, e, z) = xe \o z /\ Around(x, o, y, e, z \o s) = xe \o (z \o s)
  BY Zenon DEF Around
<1>7. (xe \o z) \o s = xe \o (z \o s)
  <2> HIDE DEF xe
  <2> QED
    BY <1>5, Zenon DEF Associates
<1>8. s \o (xe \o z) = s \o x \o o \o y \o e \o z
  <2>1. s \o (xe \o z) = (s \o xe) \o z
    <3> HIDE DEF xe
    <3> QED
      BY <1>5, Zenon DEF Associates
  <2>2. s \o xe = (s \o xy) \o e
    <3> HIDE DEF xy
    <3> QED
      BY <1>5, Zenon DEF Associates
  <2>3. s \o xy = (s \o xo) \o y
    <3> HIDE DEF xo
    <3> QED
      BY <1>5, Zenon DEF Associates
  <2>4. s \o xo = (s \o x) \o o
    BY <1>5, Zenon DEF Associates
  <2> HIDE DEF xo, xy, xe
  <2> QED
    BY <2>1, <2>2, <2>3, <2>4, Zenon
<1>9. Around(s \o x, o, y, e, z) = s \o x \o o \o y \o e \o z
  BY Zenon DEF Around
<1> HIDE DEF xo, xy, xe
<1> QED
  BY <1>4, <1>6, <1>7, <1>8, <1>9, Zenon DEF AroundGrows

LEMMA WrappedGrows ==
    ASSUME NEW o \in Codes, NEW e \in Codes, NEW code, Wrapped(o, e, code), NEW s \in Straight
    PROVE  Wrapped(o, e, code \o s) /\ Wrapped(o, e, s \o code)
<1>1. PICK x, y, z \in Straight : code = Around(x, o, y, e, z)
  BY DEF Wrapped
<1>2. x \in Codes /\ y \in Codes /\ z \in Codes /\ s \in Codes /\ z \o s \in Straight /\ s \o x \in Straight
  BY StraightFacts
<1>3. /\ Around(x, o, y, e, z) \o s = Around(x, o, y, e, z \o s)
      /\ s \o Around(x, o, y, e, z) = Around(s \o x, o, y, e, z)
  <2>1. AroundGrows(x, o, y, e, z, s)
    BY <1>2, FiveJoined
  <2> QED
    BY <2>1 DEF AroundGrows
<1> QED
  BY <1>1, <1>2, <1>3, Zenon DEF Wrapped

(***************************************************************************)
(* The invariant of the pass: what lies behind it is nested in itself,     *)
(* the code after an instruction and the code in place of it; the code     *)
(* before one is straight but for the wrapper's block at the first         *)
(* instruction and its end at the last; and what waits is straight.        *)
(***************************************************************************)
Opener(i) == IF i = 1 THEN WrapperBlock(asked.func["exit"]) ELSE <<>>
Closer(i) == IF IsLast(i) /\ asked.func["exit"] # <<>> THEN <<End>> ELSE <<>>
Laid ==
    phase # "edit" /\ special =>
        /\ onElseOrEnd \in Straight /\ StraightDuesOf(onEnd)
        /\ \A i \in DOMAIN body : i < idx =>
            /\ Wrapped(Opener(i), Closer(i), lists[i]["before"])
            /\ Nested(lists[i]["after"])
            /\ lists[i]["alternate"] \in Straight

LEMMA AskedStraight ==
    ASSUME TypeOK, Shape, Coded, AskedOnce, Carried, phase = "resolve"
    PROVE  /\ \A f \in FuncModes : asked.func[f] \in Straight
           /\ \A m \in Modes : lists[idx][m] \in Straight
<1>1. idx \in DOMAIN body /\ special = TRUE
  BY ListsFacts
<1>2. Fits(asked.lists, asked.func)
  BY DEF AskedOnce
<1>3. \A p \in Injections : p.op = "probe"
  BY DEF Injections, Probe, Instr
<1>4. ASSUME NEW f \in FuncModes PROVE asked.func[f] \in Straight
  <2>1. asked.func[f] \in Codes
    BY DEF Carried
  <2>2. \A p \in RunOf(asked.func[f]) : p.op = "probe"
    BY <1>2, <1>3 DEF Fits
  <2> QED
    BY <2>1, <2>2, ProbesAreStraight
<1>5. ASSUME NEW m \in Modes PROVE lists[idx][m] \in Straight
  <2>1. lists[idx] = asked.lists[idx]
    <3>1. idx >= idx
      BY <1>1, BodyFacts
    <3> QED
      BY <1>1, <3>1 DEF Carried
  <2>2. \A p \in RunOf(lists[idx][m]) : p.op = "probe"
    BY <1>1, <1>2, <1>3, <2>1 DEF Fits
  <2>3. lists[idx][m] \in Codes
    BY <1>1 DEF Coded, ListsCoded
  <2> QED
    BY <2>2, <2>3, ProbesAreStraight
<1> QED
  BY <1>4, <1>5

LEMMA WrappersAreCode ==
    \A i : Opener(i) \in Codes /\ Closer(i) \in Codes
BY SomeCodes DEF Opener, Closer, WrapperBlock

LEMMA EmptyJoins ==
    /\ \A s \in Codes : s \o <<>> = s /\ <<>> \o s = s
    /\ <<>> \o <<>> = <<>>
<1>1. \A S : \A s \in Seq(S) : s \o <<>> = s /\ <<>> \o s = s
  BY ConcatEmptySeq
<1> QED
  BY <1>1, SomeCodes DEF Codes

LEMMA WrappedStarts ==
    ASSUME NEW x \in Straight, NEW o \in Codes, NEW e \in Codes
    PROVE  Wrapped(o, e, (x \o o) \o e)
<1> DEFINE n == <<>>
           p == x \o o
           q == p \o e
<1>1. x \in Codes /\ n \in Straight
  BY StraightFacts
<1>2. p \in Codes
  BY <1>1, SomeCodes, Zenon
<1>3. q \in Codes
  BY <1>2, SomeCodes, Zenon
<1>4. p \o n = p /\ q \o n = q
  BY <1>2, <1>3, EmptyJoins, Zenon
<1>5. Around(x, o, n, e, n) = ((p \o n) \o e) \o n
  BY Zenon DEF Around
<1>6. q = Around(x, o, n, e, n)
  BY <1>4, <1>5, Zenon
<1> HIDE DEF n
<1>7. Wrapped(o, e, q)
  BY <1>1, <1>6, Zenon DEF Wrapped
<1> QED
  BY <1>7, Zenon

LEMMA FuncCodeWrapped ==
    ASSUME TypeOK, Shape, Coded, AskedOnce, Carried, phase = "resolve"
    PROVE  Wrapped(Opener(idx), Closer(idx), FuncCode(idx))
<1> DEFINE E == asked.func["entry"]
           X == asked.func["exit"]
           op == body[idx].op
           o == Opener(idx)
           e == Closer(idx)
           x == IF idx = 1 THEN E ELSE <<>>
<1>1. E \in Straight /\ X \in Straight /\ <<>> \in Straight
  BY AskedStraight, StraightFacts DEF FuncModes
<1>2. onEntry = E \o WrapperBlock(X) /\ onExit = X
  BY ListsFacts DEF Carried
<1>3. x \in Straight /\ o \in Codes /\ e \in Codes
  BY <1>1, WrappersAreCode
<1>4. x \in Codes /\ E \in Codes /\ X \in Codes /\ <<End>> \in Codes /\ <<>> \in Codes
  BY <1>1, <1>3, StraightFacts, SomeCodes
<1>5. IsLast(idx) => op \notin Leaving
  <2>1. body[Len(body)].op = "end"
    BY BodyFacts, LastEnds
  <2> QED
    BY <2>1 DEF IsLast, Leaving
<1>6. (IF idx = 1 THEN onEntry ELSE <<>>) = x \o o
  <2>1. CASE idx = 1
    BY <1>2, <2>1 DEF Opener
  <2>2. CASE idx # 1
    <3>1. x = <<>> /\ o = <<>>
      BY <2>2 DEF Opener
    <3> QED
      BY <2>2, <3>1, EmptyJoins
  <2> QED
    BY <2>1, <2>2
<1> DEFINE p == x \o o
           w == ExitCode(op, idx)
<1>7. FuncCode(idx) = p \o w
  BY <1>6 DEF FuncCode
<1>8. p \in Codes
  <2> HIDE DEF x, o
  <2> QED
    BY <1>3, <1>4, SomeCodes
<1>9. Wrapped(o, e, p \o e)
  <2> HIDE DEF x, o, e
  <2> QED
    BY <1>3, WrappedStarts
<1>10. CASE e = <<>>
  <2>1. w \in Straight
    <3>1. w = <<>> \/ w = X
      BY <1>2, <1>5, <1>10 DEF Closer, ExitCode, IsLast
    <3> HIDE DEF w, X
    <3> QED
      BY <1>1, <3>1
  <2> HIDE DEF p, w, e, o
  <2>2. p \o e = p
    BY <1>8, <1>10, EmptyJoins
  <2>3. Wrapped(o, e, p)
    BY <1>9, <2>2
  <2> QED
    BY <1>3, <1>7, <2>1, <2>3, WrappedGrows DEF o, e
<1>11. CASE e # <<>>
  <2>1. w = e \o X
    BY <1>2, <1>5, <1>11 DEF Closer, ExitCode, IsLast
  <2> HIDE DEF p, w, e, o, X
  <2>2. (p \o e) \o X = p \o (e \o X)
    <3>1. p \in Codes /\ e \in Codes /\ X \in Codes
      BY <1>3, <1>4, <1>8
    <3>2. Associates(p, e, X)
      BY <3>1, JoinsAssociate, Zenon
    <3> QED
      BY <3>2 DEF Associates
  <2>3. Wrapped(o, e, (p \o e) \o X)
    BY <1>1, <1>3, <1>9, WrappedGrows
  <2>4. FuncCode(idx) = (p \o e) \o X
    BY <1>7, <2>1, <2>2
  <2> QED
    BY <2>3, <2>4, Zenon DEF o, e
<1> QED
  BY <1>10, <1>11

LEMMA PlanLaid ==
    ASSUME TypeOK, Shape, Coded, AskedOnce, Carried, phase = "resolve",
           NEW b, NEW x, Wrapped(Opener(idx), Closer(idx), x), NEW y \in Codes, Nested(y),
           NEW p \in Straight, NEW ends, StraightDuesOf(ends), StraightDuesOf(onEnd), Plan(b, x, y, p, ends)
    PROVE  /\ Wrapped(Opener(idx), Closer(idx), lists'[idx]["before"])
           /\ Nested(lists'[idx]["after"]) /\ lists'[idx]["alternate"] \in Straight
           /\ onElseOrEnd' \in Straight /\ StraightDuesOf(onEnd')
<1> DEFINE l == lists[idx]
           f == numFlags + 1
           set == IF BranchFlagged(l) THEN <<FlagOn(f)>> ELSE <<>>
           unset == IF BranchFlagged(l) THEN <<FlagOff(f)>> \o InlineAfterBranch(l) ELSE <<>>
           u == x \o set
           v == y \o l.block_entry \o unset
           c == [l EXCEPT !.before = u, !.after = v,
                          !.semantic_after = <<>>, !.block_entry = <<>>, !.block_exit = <<>>]
<1>1. /\ lists' = [lists EXCEPT ![idx] = c]
      /\ onElseOrEnd' = PlanExit(l, p)
      /\ onEnd' = PlanEnds(ends, b, f, l)
  BY DEF Plan
<1>2. idx \in DOMAIN body /\ DOMAIN l = Modes /\ DOMAIN lists = DOMAIN body
  BY ListsFacts
<1>3. \A m \in Modes : l[m] \in Straight
  BY AskedStraight
<1>4. /\ l.block_entry \in Straight /\ l.block_exit \in Straight /\ l.semantic_after \in Straight
      /\ l.alternate \in Straight
  BY <1>3 DEF Modes, SpecialModes, PlainModes
<1>5. f \in Nat
  BY DEF Coded, PassCoded
<1>6. set \in Straight
  BY <1>5, StraightFacts
<1>7. unset \in Straight
  <2>1. InlineAfterBranch(l) \in Straight
    BY <1>4, StraightFacts DEF InlineAfterBranch
  <2> QED
    BY <1>5, <2>1, StraightFacts
<1>8. Wrapped(Opener(idx), Closer(idx), u)
  <2> HIDE DEF set
  <2> QED
    BY <1>6, WrappersAreCode, WrappedGrows
<1>9. Nested(v)
  <2> DEFINE be == l.block_entry
             w == y \o be
  <2>1. be \in Codes /\ unset \in Codes /\ Nested(be) /\ Nested(unset)
    BY <1>4, <1>7, StraightFacts, StraightNested
  <2> HIDE DEF be, unset
  <2>2. w \in Codes /\ Nested(w)
    BY <2>1, SomeCodes, JoinNested DEF Codes
  <2> HIDE DEF w
  <2>3. Nested(w \o unset)
    BY <2>1, <2>2, JoinNested DEF Codes
  <2> QED
    BY <2>3 DEF w, be
<1>10. onElseOrEnd' \in Straight
  BY <1>1, <1>4, StraightFacts DEF PlanExit
<1>11. StraightDuesOf(onEnd')
  <2>1. body[idx].arg \in Seq(Nat)
    BY <1>2, BodyFacts, OpensInBody
  <2> HIDE DEF l, f
  <2> QED
    BY <1>1, <1>3, <1>5, <2>1, EndsStraight
<1>12. c["before"] = u /\ c["after"] = v /\ c["alternate"] = l.alternate
  <2>1. {"before", "after", "alternate", "semantic_after", "block_entry", "block_exit"} \subseteq Modes
    BY DEF Modes, PlainModes, SpecialModes
  <2> HIDE DEF l, u, v
  <2> QED
    BY <1>2, <2>1
<1>13. lists'[idx] = c
  <2> HIDE DEF c
  <2> QED
    BY <1>1, <1>2
<1> HIDE DEF c, u, v
<1> QED
  BY <1>4, <1>8, <1>9, <1>10, <1>11, <1>12, <1>13

\* The instruction the pass is at is as it has to be after the step.
LaidHere ==
    /\ Wrapped(Opener(idx), Closer(idx), lists'[idx]["before"])
    /\ Nested(lists'[idx]["after"])
    /\ lists'[idx]["alternate"] \in Straight
    /\ onElseOrEnd' \in Straight /\ StraightDuesOf(onEnd')

LEMMA GoneLaid ==
    ASSUME TypeOK, Shape, Coded, AskedOnce, Carried, Laid, phase = "resolve",
           NEW x, Wrapped(Opener(idx), Closer(idx), x), RemoveInstr(x) \/ (\E b : Replace(x, b)),
           onElseOrEnd' \in Straight
    PROVE  LaidHere
<1>1. /\ lists'[idx]["before"] = x /\ lists'[idx]["after"] = lists[idx]["after"]
      /\ lists'[idx]["alternate"] = <<>>
            \/ lists'[idx]["alternate"] = lists[idx]["alternate"] \o lists[idx]["block_alt"]
      /\ onEnd' = onEnd
  <2>1. CASE RemoveInstr(x)
    BY <2>1, RemoveRuns
  <2>2. CASE \E b : Replace(x, b)
    <3>1. PICK b : Replace(x, b)
      BY <2>2
    <3> DEFINE a == lists[idx]["alternate"]
               v == lists[idx]["block_alt"]
               y == lists'[idx]["alternate"]
    <3>2. /\ lists'[idx]["before"] = x /\ lists'[idx]["after"] = lists[idx]["after"]
          /\ y = IF v = <<>> THEN <<>> ELSE a \o v
          /\ onEnd' = onEnd
      BY <3>1, ReplaceRuns
    <3>3. y = <<>> \/ y = a \o v
      BY <3>2
    <3> QED
      BY <3>2, <3>3
  <2> QED
    BY <2>1, <2>2
<1>2. /\ lists[idx]["after"] \in Straight /\ lists[idx]["alternate"] \in Straight
      /\ lists[idx]["block_alt"] \in Straight
  <2>1. {"after", "alternate", "block_alt"} \subseteq Modes
    BY DEF Modes, PlainModes, SpecialModes
  <2> QED
    BY <2>1, AskedStraight
<1>3. <<>> \in Straight /\ lists[idx]["alternate"] \o lists[idx]["block_alt"] \in Straight
  BY <1>2, StraightFacts
<1>4. lists'[idx]["alternate"] \in Straight
  BY <1>1, <1>3
<1>5. Nested(lists'[idx]["after"])
  BY <1>1, <1>2, StraightNested
<1>6. special = TRUE /\ StraightDuesOf(onEnd)
  BY ListsFacts DEF Laid
<1>7. StraightDuesOf(onEnd')
  BY <1>1, <1>6
<1> QED
  BY <1>1, <1>4, <1>5, <1>7 DEF LaidHere

LEMMA PlannedLaid ==
    ASSUME TypeOK, Shape, Coded, AskedOnce, Carried, Laid, phase = "resolve",
           NEW x, Wrapped(Opener(idx), Closer(idx), x), NEW y \in Codes, Nested(y),
           NEW p \in Straight, NEW ends, StraightDuesOf(ends), \E b : Plan(b, x, y, p, ends)
    PROVE  LaidHere
<1>1. PICK b : Plan(b, x, y, p, ends)
  OBVIOUS
<1>2. StraightDuesOf(onEnd)
  BY ListsFacts DEF Laid
<1> QED
  BY <1>1, <1>2, PlanLaid DEF LaidHere

LEMMA StackTop ==
    ASSUME TypeOK, Shape, phase = "resolve"
    PROVE  Last(blockStack) \in 0 .. Len(body)
<1> DEFINE b == Last(blockStack)
<1>1. /\ idx \in DOMAIN body /\ idx \in 1 .. Len(body) + 1 /\ idx \in Nat /\ idx <= Len(body) /\ Len(body) \in Nat
      /\ b = Level(body, idx) - 1
      /\ body \in Seq(Instrs) /\ WellFormed(body)
  BY ListsFacts, StackFacts, BodyFacts
<1>2. Level(body, idx) \in Int /\ Level(body, idx) > 0 /\ Level(body, idx) <= idx
  BY <1>1, LevelSteps, WellFormedLevels, LevelBound
<1> HIDE DEF b
<1>3. b \in 0 .. Len(body)
  BY <1>1, <1>2
<1> QED
  BY <1>3 DEF b

LEMMA ResolveLaid ==
    ASSUME TypeOK, Shape, Coded, AskedOnce, Carried, Laid, Resolve
    PROVE  LaidHere
<1>1. Here
  BY DEF Resolve, OpenBlock, AtElse, EndRemoved, EndKept, OtherRemoved, OtherKept
<1>2. phase = "resolve"
  BY <1>1 DEF Here
<1>3. special = TRUE /\ idx \in DOMAIN body
  BY <1>2, ListsFacts
<1>4. onElseOrEnd \in Straight /\ StraightDuesOf(onEnd) /\ <<>> \in Straight
  BY <1>2, <1>3, StraightFacts DEF Laid
<1> DEFINE o == Opener(idx)
           e == Closer(idx)
           b == lists[idx].before
           a == lists[idx].after
           f == FuncCode(idx)
<1>5. b \in Straight /\ a \in Straight /\ Wrapped(o, e, f) /\ o \in Codes /\ e \in Codes
  <2>1. {"before", "after"} \subseteq Modes
    BY DEF Modes, PlainModes
  <2> QED
    BY <1>2, <2>1, AskedStraight, FuncCodeWrapped, WrappersAreCode
<1>6. a \in Codes /\ Nested(a)
  BY <1>5, StraightFacts, StraightNested
<1> DEFINE u == b \o f
           v == u \o onElseOrEnd
<1>7. Wrapped(o, e, u)
  <2> HIDE DEF o, e, b, f
  <2> QED
    BY <1>5, WrappedGrows
<1>8. Wrapped(o, e, v)
  <2> HIDE DEF o, e, u
  <2> QED
    BY <1>4, <1>5, <1>7, WrappedGrows
<1>9. ASSUME NEW x, Wrapped(o, e, x), RemoveInstr(x) \/ (\E k : Replace(x, k)), onElseOrEnd' \in Straight
      PROVE  LaidHere
  BY <1>2, <1>9, GoneLaid
<1>10. ASSUME NEW x, Wrapped(o, e, x), NEW y \in Codes, Nested(y), NEW p \in Straight,
              NEW ends, StraightDuesOf(ends), \E k : Plan(k, x, y, p, ends)
       PROVE  LaidHere
  BY <1>2, <1>10, PlannedLaid
<1>11. ASSUME OpenBlock PROVE LaidHere
  <2>1. \/ (RemoveInstr(u) \/ \E k : Replace(u, k)) /\ onElseOrEnd' = onElseOrEnd
        \/ \E k : Plan(k, u, a, onElseOrEnd, onEnd)
    BY <1>11 DEF OpenBlock
  <2> HIDE DEF u, a, o, e
  <2> QED
    BY <1>4, <1>6, <1>7, <1>9, <1>10, <2>1
<1>12. ASSUME AtElse PROVE LaidHere
  <2>1. \/ (RemoveInstr(v) \/ \E k : Replace(v, k)) /\ onElseOrEnd' = <<>>
        \/ \E k : Plan(k, v, a, <<>>, onEnd)
    BY <1>12 DEF AtElse
  <2> HIDE DEF v, a, o, e
  <2> QED
    BY <1>4, <1>6, <1>8, <1>9, <1>10, <2>1
<1>13. ASSUME EndRemoved \/ OtherRemoved PROVE LaidHere
  <2>1. RemoveInstr(u) /\ onElseOrEnd' = onElseOrEnd
    BY <1>13 DEF EndRemoved, OtherRemoved
  <2> HIDE DEF u, o, e
  <2> QED
    BY <1>4, <1>7, <1>9, <2>1
<1>14. ASSUME EndKept PROVE LaidHere
  <2> DEFINE block == Last(blockStack)
             due == onEnd[block]
             x == v \o due.before
             w == a \o Chain(due.flagged)
             y == w \o due.after
             ends == [onEnd EXCEPT ![block] = Nothing]
  <2>1. Plan(block, x, y, <<>>, ends)
    BY <1>14 DEF EndKept
  <2>2. block \in 0 .. Len(body) /\ due \in StraightDues
    BY <1>2, <1>4, StackTop DEF StraightDuesOf
  <2> HIDE DEF block, due
  <2>3. due.before \in Straight /\ due.after \in Straight /\ due.flagged \in StraightFlagged
    BY <2>2, StraightDueFields
  <2>4. Wrapped(o, e, x)
    <3> HIDE DEF o, e, v
    <3> QED
      BY <1>5, <1>8, <2>3, WrappedGrows
  <2>5. w \in Codes /\ Nested(w)
    <3> DEFINE c == Chain(due.flagged)
    <3>1. c \in Codes /\ Nested(c)
      BY <2>3, ChainNested
    <3> HIDE DEF a, c
    <3>2. a \o c \in Codes /\ Nested(a \o c)
      BY <1>6, <3>1, SomeCodes, JoinNested DEF Codes
    <3> QED
      BY <3>2 DEF c
  <2>6. y \in Codes /\ Nested(y)
    <3> DEFINE c == due.after
    <3>1. c \in Codes /\ Nested(c)
      BY <2>3, StraightFacts, StraightNested
    <3> HIDE DEF w, c
    <3>2. w \o c \in Codes /\ Nested(w \o c)
      BY <2>5, <3>1, SomeCodes, JoinNested DEF Codes
    <3> QED
      BY <3>2 DEF c
  <2>7. StraightDuesOf(ends)
    <3>1. DOMAIN ends = 0 .. Len(body)
      BY <1>4 DEF StraightDuesOf
    <3>2. \A k \in 0 .. Len(body) : ends[k] \in StraightDues
      BY <1>4, NothingGoesStraight DEF StraightDuesOf
    <3> HIDE DEF ends
    <3> QED
      BY <3>1, <3>2 DEF StraightDuesOf
  <2>8. \E k : Plan(k, x, y, <<>>, ends)
    BY <2>1
  <2> HIDE DEF x, y, ends, o, e
  <2> QED
    BY <1>4, <1>10, <2>4, <2>6, <2>7, <2>8
<1>15. ASSUME OtherKept PROVE LaidHere
  <2>1. \E k : Plan(k, u, a, onElseOrEnd, onEnd)
    BY <1>15 DEF OtherKept
  <2> HIDE DEF u, a, o, e
  <2> QED
    BY <1>4, <1>6, <1>7, <1>10, <2>1
<1> QED
  BY <1>11, <1>12, <1>13, <1>14, <1>15 DEF Resolve

\* Every step keeps the invariant.
LEMMA LaidInductive ==
    ASSUME TypeOK, Shape, Coded, AskedOnce, Carried, Laid, [RunNext]_<<vars, written, runVars>>
    PROVE  Laid'
<1>1. CASE Edit
  BY <1>1 DEF Edit, Laid
<1>2. CASE Begin
  <2>1. phase = "edit" /\ UNCHANGED <<body, idx, onElseOrEnd, onEnd>>
    BY <1>2 DEF Begin, passVars
  <2>2. idx = 1 /\ DOMAIN body = 1 .. Len(body) /\ Len(body) \in Nat
    BY <2>1, BodyFacts DEF Shape
  <2>3. onElseOrEnd' = <<>> /\ onEnd' = [b \in 0 .. Len(body) |-> Nothing]
    BY <2>1 DEF Carried
  <2>4. onElseOrEnd' \in Straight
    BY <2>3, StraightFacts
  <2>5. DOMAIN onEnd' = 0 .. Len(body) /\ \A b \in 0 .. Len(body) : onEnd'[b] \in StraightDues
    BY <2>3, NothingGoesStraight
  <2>6. StraightDuesOf(onEnd)'
    BY <2>1, <2>5 DEF StraightDuesOf
  <2>7. \A i \in DOMAIN body' : ~(i < idx')
    BY <2>1, <2>2
  <2> QED
    BY <2>4, <2>6, <2>7 DEF Laid
<1>3. CASE Resolve
  <2>1. Stepped
    BY <1>3, ResolveView
  <2>2. /\ phase = "resolve" /\ idx' = idx + 1 /\ UNCHANGED <<body, asked, special>>
        /\ \A j \in DOMAIN body \ {idx} : lists'[j] = lists[j]
    BY <2>1 DEF Stepped
  <2>3. special = TRUE /\ idx \in DOMAIN body /\ idx \in Nat /\ DOMAIN body \subseteq Nat
    BY <2>2, ListsFacts, BodyFacts
  <2>4. LaidHere
    BY <1>3, ResolveLaid
  <2>5. /\ \A i : Opener(i)' = Opener(i) /\ Closer(i)' = Closer(i)
        /\ onElseOrEnd' \in Straight
        /\ StraightDuesOf(onEnd)'
    BY <2>2, <2>4 DEF Opener, Closer, WrapperBlock, IsLast, LaidHere, StraightDuesOf
  <2>6. ASSUME NEW i \in DOMAIN body, i < idx + 1
        PROVE  /\ Wrapped(Opener(i), Closer(i), lists'[i]["before"])
               /\ Nested(lists'[i]["after"])
               /\ lists'[i]["alternate"] \in Straight
    <3>1. CASE i = idx
      BY <2>4, <3>1 DEF LaidHere
    <3>2. CASE i # idx
      <4>1. i < idx /\ lists'[i] = lists[i]
        BY <2>2, <2>3, <2>6, <3>2
      <4> QED
        BY <2>2, <2>3, <4>1 DEF Laid
    <3> QED
      BY <3>1, <3>2
  <2> QED
    BY <2>2, <2>5, <2>6 DEF Laid
<1>4. CASE ~Edit /\ ~Begin /\ ~Resolve
  <2>1. /\ UNCHANGED <<body, lists, special, idx, onElseOrEnd, onEnd, onEntry, onExit, asked>>
        /\ phase' = "edit" <=> phase = "edit"
    BY <1>4, OtherSteps
  <2>2. /\ \A i : Opener(i)' = Opener(i) /\ Closer(i)' = Closer(i)
        /\ StraightDuesOf(onEnd)' <=> StraightDuesOf(onEnd)
    BY <2>1 DEF Opener, Closer, WrapperBlock, IsLast, StraightDuesOf
  <2> QED
    BY <2>1, <2>2 DEF Laid
<1> QED
  BY <1>1, <1>2, <1>3, <1>4

(***************************************************************************)
(* The level at an instruction in what is kept of the body: replaced       *)
(* instructions count as the place where their outermost alternate stands. *)
(***************************************************************************)
Covers(a, i) == a \in AskedAlts /\ Outermost(a) /\ i \in RegionOf(a)
KeptLevel(i) == Level(body, IF i \in ReplacedInstrs THEN CHOOSE a : Covers(a, i) ELSE i)

LEMMA OuterExists ==
    ASSUME Shape, NEW i \in DOMAIN body, i \in ReplacedInstrs
    PROVE  \E a : Covers(a, i)
<1> DEFINE T == {a \in AskedAlts : i \in RegionOf(a)}
<1>1. DOMAIN body = 1 .. Len(body) /\ Len(body) \in Nat /\ i \in Nat
  BY BodyFacts
<1>2. T \in SUBSET Nat /\ T # {}
  <2>1. \A a \in AskedAlts : a \in Nat
    BY AltFacts
  <2> QED
    BY <2>1 DEF ReplacedInstrs
<1>3. PICK k \in T : \A j \in T : k <= j
  <2> HIDE DEF T
  <2> QED
    BY <1>2, LeastElement
<1>4. k \in AskedAlts /\ i \in RegionOf(k)
  OBVIOUS
<1>5. /\ body \in Seq(Instrs) /\ WellFormed(body) /\ k \in DOMAIN body /\ body[k].op \in BlockStyle /\ k \in Nat
      /\ Closing(body, k) \in Nat /\ k <= i /\ i <= Closing(body, k) /\ (body[k].op = "else" => i < Closing(body, k))
  BY <1>4, AltFacts
<1>6. ASSUME NEW j \in AskedAlts \ {k}, k \in RegionOf(j) PROVE FALSE
  <2>1. /\ j \in DOMAIN body /\ body[j].op \in BlockStyle /\ j \in Nat /\ Closing(body, j) \in Nat
        /\ j <= k /\ k <= Closing(body, j) /\ (body[j].op = "else" => k < Closing(body, j))
        /\ i \in RegionOf(j) <=> /\ j <= i /\ i <= Closing(body, j)
                                 /\ body[j].op = "else" => i < Closing(body, j)
    BY <1>5, <1>6, AltFacts
  <2>2. j < k
    BY <1>5, <2>1
  <2>3. Closing(body, k) <= Closing(body, j) /\ (body[k].op # "else" => Closing(body, k) < Closing(body, j))
    BY <1>5, <2>1, <2>2, NestedBlocks
  <2>4. i \in RegionOf(j)
    BY <1>1, <1>5, <2>1, <2>2, <2>3
  <2>5. j \in T
    BY <2>4
  <2>6. k <= j
    BY <1>3, <2>5
  <2> QED
    BY <1>5, <2>1, <2>2, <2>6
<1>7. Outermost(k)
  BY <1>6 DEF Outermost
<1> QED
  BY <1>4, <1>7 DEF Covers

LEMMA CoverFacts ==
    ASSUME Shape, NEW i \in DOMAIN body, NEW a, Covers(a, i)
    PROVE  /\ a \in DOMAIN body /\ a \in Nat /\ a <= i /\ i \in ReplacedInstrs /\ a \in AskedAlts
           /\ \A q \in DOMAIN body : a <= q /\ q <= i => Covers(a, q) /\ q \in ReplacedInstrs
           /\ Level(body, a) <= Level(body, i)
           /\ i < Len(body)
           /\ Covers(a, i + 1) \/ Level(body, i + 1) = Level(body, a)
<1>1. DOMAIN body = 1 .. Len(body) /\ Len(body) \in Nat /\ i \in Nat
  BY BodyFacts
<1>2. a \in AskedAlts /\ i \in RegionOf(a) /\ Outermost(a)
  BY DEF Covers
<1> DEFINE c == Closing(body, a)
<1>3. /\ body \in Seq(Instrs) /\ WellFormed(body)
      /\ a \in DOMAIN body /\ body[a].op \in BlockStyle /\ a \in Nat
      /\ c \in DOMAIN body /\ c \in Nat /\ a < c
      /\ BlockLevel(body, a) \in Int /\ Level(body, c) = BlockLevel(body, a)
      /\ \A n \in DOMAIN body :
            n \in RegionOf(a) <=> a <= n /\ n <= c /\ (body[a].op = "else" => n < c)
  BY <1>2, AltFacts
<1>4. /\ body[c].op = "end" /\ c < Len(body)
      /\ \A n \in DOMAIN body : a < n /\ n <= c => Level(body, n) >= BlockLevel(body, a)
  BY <1>3, InsideBlock, LastEnds
<1> HIDE DEF c
<1>5. a <= i /\ i <= c /\ (body[a].op = "else" => i < c)
  BY <1>2, <1>3
<1>6. \A q \in DOMAIN body : a <= q /\ q <= i => Covers(a, q) /\ q \in ReplacedInstrs
  <2> SUFFICES ASSUME NEW q \in DOMAIN body, a <= q, q <= i PROVE q \in RegionOf(a)
    BY <1>2 DEF Covers, ReplacedInstrs
  <2>1. q \in Nat
    BY <1>1
  <2> QED
    BY <1>1, <1>3, <1>5, <2>1
<1>7. Level(body, a) \in Int /\ Level(body, i) \in Int /\ a \in Int
  BY <1>1, <1>3, LevelSteps
<1>8. BlockLevel(body, a) = Level(body, a) + (IF body[a].op = "else" THEN 0 ELSE 1)
  BY DEF BlockLevel
<1>9. Level(body, a) <= Level(body, i)
  <2>1. CASE a = i
    BY <1>7, <2>1
  <2>2. CASE a # i
    <3>1. Level(body, i) >= BlockLevel(body, a)
      BY <1>1, <1>3, <1>4, <1>5, <2>2
    <3> QED
      BY <1>3, <1>7, <1>8, <3>1
  <2> QED
    BY <2>1, <2>2
<1>10. i < Len(body)
  BY <1>1, <1>3, <1>4, <1>5
<1>11. Covers(a, i + 1) \/ Level(body, i + 1) = Level(body, a)
  <2>1. i + 1 \in DOMAIN body
    BY <1>1, <1>10
  <2>2. i + 1 \in RegionOf(a) <=> a <= i + 1 /\ i + 1 <= c /\ (body[a].op = "else" => i + 1 < c)
    BY <1>3, <2>1
  <2>3. CASE i + 1 \in RegionOf(a)
    BY <1>2, <2>3 DEF Covers
  <2>4. CASE i + 1 \notin RegionOf(a)
    <3>1. CASE body[a].op = "else"
      <4>1. i + 1 = c
        BY <1>1, <1>3, <1>5, <2>2, <2>4, <3>1
      <4> QED
        BY <1>3, <1>7, <1>8, <3>1, <4>1
    <3>2. CASE body[a].op # "else"
      <4>1. i = c
        BY <1>1, <1>3, <1>5, <2>2, <2>4, <3>2
      <4>2. Level(body, c + 1) = Level(body, c) + Rise(body[c])
        BY <1>3, AnyLevelSteps
      <4>3. Rise(body[c]) = -1
        BY <1>4, Rises
      <4> QED
        BY <1>3, <1>7, <1>8, <3>2, <4>1, <4>2, <4>3
    <3> QED
      BY <3>1, <3>2
  <2> QED
    BY <2>3, <2>4
<1> QED
  BY <1>2, <1>3, <1>5, <1>6, <1>9, <1>10, <1>11

LEMMA CoversOnce ==
    ASSUME Shape, NEW i \in DOMAIN body, NEW a, Covers(a, i), NEW b, Covers(b, i)
    PROVE  a = b
<1>1. /\ a \in DOMAIN body /\ a \in Nat /\ a <= i /\ a \in AskedAlts
      /\ \A q \in DOMAIN body : a <= q /\ q <= i => Covers(a, q)
      /\ b \in DOMAIN body /\ b \in Nat /\ b <= i /\ b \in AskedAlts
      /\ \A q \in DOMAIN body : b <= q /\ q <= i => Covers(b, q)
  BY CoverFacts
<1>2. ASSUME a < b PROVE FALSE
  <2>1. Covers(a, b)
    BY <1>1, <1>2
  <2> QED
    BY <1>1, <1>2, <2>1 DEF Covers, Outermost
<1>3. ASSUME b < a PROVE FALSE
  <2>1. Covers(b, a)
    BY <1>1, <1>3
  <2> QED
    BY <1>1, <1>3, <2>1 DEF Covers, Outermost
<1> QED
  BY <1>1, <1>2, <1>3

LEMMA KeptAt ==
    ASSUME Shape, NEW i \in DOMAIN body
    PROVE  /\ i \notin ReplacedInstrs => KeptLevel(i) = Level(body, i)
           /\ \A a : Covers(a, i) => KeptLevel(i) = Level(body, a) /\ i \in ReplacedInstrs
           /\ KeptLevel(i) \in Int /\ KeptLevel(i) > 0
<1>1. i \notin ReplacedInstrs => KeptLevel(i) = Level(body, i)
  BY DEF KeptLevel
<1>2. ASSUME NEW a, Covers(a, i) PROVE KeptLevel(i) = Level(body, a) /\ i \in ReplacedInstrs /\ a \in DOMAIN body
  <2> DEFINE b == CHOOSE b : Covers(b, i)
  <2>1. Covers(b, i)
    BY <1>2
  <2>2. i \in ReplacedInstrs /\ a \in DOMAIN body
    BY <1>2, CoverFacts
  <2>3. KeptLevel(i) = Level(body, b)
    BY <2>2 DEF KeptLevel
  <2> HIDE DEF b
  <2>4. a = b
    BY <1>2, <2>1, CoversOnce
  <2> QED
    BY <2>2, <2>3, <2>4
<1>3. \E a \in DOMAIN body : KeptLevel(i) = Level(body, a)
  <2>1. CASE i \in ReplacedInstrs
    BY <1>2, <2>1, OuterExists
  <2>2. CASE i \notin ReplacedInstrs
    BY <1>1, <2>2
  <2> QED
    BY <2>1, <2>2
<1>4. \A a \in DOMAIN body : Level(body, a) \in Int /\ Level(body, a) > 0
  <2>1. body \in Seq(Instrs) /\ WellFormed(body) /\ DOMAIN body = 1 .. Len(body) /\ Len(body) \in Nat
    BY BodyFacts
  <2> QED
    BY <2>1, LevelSteps, WellFormedLevels
<1> QED
  BY <1>1, <1>2, <1>3, <1>4

LEMMA KeptSteps ==
    ASSUME Shape, NEW i \in DOMAIN body, i < Len(body)
    PROVE  KeptLevel(i + 1) = KeptLevel(i) + (IF i \in ReplacedInstrs THEN 0 ELSE Rise(body[i]))
<1>1. /\ DOMAIN body = 1 .. Len(body) /\ Len(body) \in Nat /\ i \in Nat /\ i + 1 \in DOMAIN body
      /\ body \in Seq(Instrs)
  BY BodyFacts
<1> DEFINE j == i + 1
<1>2. KeptLevel(i) \in Int
  BY KeptAt
<1>3. ASSUME ~(\E a : Covers(a, i) /\ Covers(a, j)) PROVE KeptLevel(j) = Level(body, j)
  <2>1. CASE j \notin ReplacedInstrs
    BY <1>1, <2>1, KeptAt
  <2>2. CASE j \in ReplacedInstrs
    <3>1. PICK a : Covers(a, j)
      BY <1>1, <2>2, OuterExists
    <3>2. /\ a \in Nat /\ a <= j
          /\ \A q \in DOMAIN body : a <= q /\ q <= j => Covers(a, q)
      BY <1>1, <3>1, CoverFacts
    <3>3. ~Covers(a, i)
      BY <1>3, <3>1
    <3>4. a = j
      BY <1>1, <3>2, <3>3
    <3> QED
      BY <1>1, <3>1, <3>4, KeptAt
  <2> QED
    BY <2>1, <2>2
<1>4. CASE i \notin ReplacedInstrs
  <2>1. ~(\E a : Covers(a, i) /\ Covers(a, j))
    BY <1>4, KeptAt
  <2>2. KeptLevel(j) = Level(body, j) /\ KeptLevel(i) = Level(body, i)
    BY <1>3, <1>4, <2>1, KeptAt
  <2>3. Level(body, i + 1) = Level(body, i) + Rise(body[i])
    BY <1>1, AnyLevelSteps
  <2> QED
    BY <1>4, <2>2, <2>3
<1>5. CASE i \in ReplacedInstrs
  <2>1. PICK a : Covers(a, i)
    BY <1>5, OuterExists
  <2>2. KeptLevel(i) = Level(body, a) /\ (Covers(a, j) \/ Level(body, j) = Level(body, a))
    BY <2>1, KeptAt, CoverFacts
  <2>3. CASE Covers(a, j)
    <3>1. KeptLevel(j) = Level(body, a)
      BY <1>1, <2>3, KeptAt
    <3> QED
      BY <1>2, <1>5, <2>2, <3>1
  <2>4. CASE ~Covers(a, j)
    <3>1. ~(\E b : Covers(b, i) /\ Covers(b, j))
      BY <2>1, <2>4, CoversOnce
    <3>2. KeptLevel(j) = KeptLevel(i)
      BY <1>3, <2>2, <2>4, <3>1
    <3> QED
      BY <1>2, <1>5, <3>2
  <2> QED
    BY <2>3, <2>4
<1> QED
  BY <1>4, <1>5

LEMMA KeptEnds ==
    ASSUME Shape
    PROVE  /\ KeptLevel(1) = 1 /\ KeptLevel(Len(body)) = 1
           /\ Len(body) \notin ReplacedInstrs /\ Level(body, Len(body)) = 1
           /\ body[Len(body)].op = "end"
<1>1. /\ body \in Seq(Instrs) /\ WellFormed(body)
      /\ DOMAIN body = 1 .. Len(body) /\ Len(body) \in Nat \ {0} /\ 1 \in DOMAIN body /\ Len(body) \in DOMAIN body
  BY BodyFacts
<1>2. Len(body) \notin ReplacedInstrs
  <2>1. ASSUME Len(body) \in ReplacedInstrs PROVE FALSE
    <3>1. PICK a : Covers(a, Len(body))
      BY <1>1, <2>1, OuterExists
    <3>2. Len(body) < Len(body)
      BY <1>1, <3>1, CoverFacts
    <3> QED
      BY <1>1, <3>2
  <2> QED
    BY <2>1
<1>3. Level(body, Len(body)) = 1 /\ body[Len(body)].op = "end"
  BY <1>1, LastEnds
<1>4. KeptLevel(1) = 1
  <2>1. Level(body, 1) = 1
    BY <1>1, LevelSteps
  <2>2. CASE 1 \in ReplacedInstrs
    <3>1. PICK a : Covers(a, 1)
      BY <1>1, <2>2, OuterExists
    <3>2. a \in DOMAIN body /\ a <= 1 /\ a \in Nat
      BY <1>1, <3>1, CoverFacts
    <3>3. a = 1
      BY <1>1, <3>2
    <3> QED
      BY <1>1, <2>1, <3>1, <3>3, KeptAt
  <2>3. CASE 1 \notin ReplacedInstrs
    BY <1>1, <2>1, <2>3, KeptAt
  <2> QED
    BY <2>2, <2>3
<1>5. KeptLevel(Len(body)) = 1
  BY <1>1, <1>2, <1>3, KeptAt
<1> QED
  BY <1>2, <1>3, <1>4, <1>5

\* Everything from the opener x up to i is inside the block that x opens.
Within(x, i) == /\ x \in 1 .. i - 1 /\ body[x].op \in Opening
                /\ \A q \in x + 1 .. i : Level(body, q) > Level(body, x)

LEMMA LabelWithin ==
    ASSUME Shape, NEW i \in DOMAIN body, NEW d \in Nat, d < Level(body, i), Label(body, i, d) # 0
    PROVE  /\ Within(Label(body, i, d), i)
           /\ Level(body, Label(body, i, d)) + 1 = Level(body, i) - d
<1> DEFINE x == Label(body, i, d)
           m == Level(body, i) - d
<1>1. /\ body \in Seq(Instrs) /\ WellFormed(body)
      /\ DOMAIN body = 1 .. Len(body) /\ Len(body) \in Nat /\ i \in Nat
      /\ \A q \in 1 .. Len(body) + 1 : Level(body, q) \in Int
  BY BodyFacts, LevelSteps
<1>2. /\ x \in 1 .. i - 1 /\ body[x].op \in Opening /\ Level(body, x) + 1 = m
      /\ \A j \in x + 1 .. i - 1 : ~(body[j].op \in Opening /\ Level(body, j) + 1 = m)
  BY <1>1, LabelOpens
<1> HIDE DEF x
<1>3. ASSUME NEW q \in x + 1 .. i, ~(Level(body, q) > Level(body, x)) PROVE FALSE
  <2>1. q \in 1 .. Len(body) + 1 /\ x \in 1 .. Len(body) + 1 /\ i \in 1 .. Len(body) + 1
        /\ i \in q .. Len(body) + 1
    BY <1>1, <1>2
  <2>2. Level(body, q) < m /\ m <= Level(body, i) /\ m \in Int
    <3> DEFINE u == Level(body, q)
               v == Level(body, x)
               l == Level(body, i)
    <3>1. u \in Int /\ v \in Int /\ l \in Int
      BY <1>1, <2>1
    <3>2. ~(u > v) /\ v + 1 = m /\ m = l - d
      BY <1>2, <1>3
    <3> HIDE DEF u, v, l, m
    <3>3. u < m /\ m <= l /\ m \in Int
      BY <3>1, <3>2
    <3> QED
      BY <3>3 DEF u, l
  <2> HIDE DEF m
  <2>3. PICK j \in q .. i - 1 : body[j].op \in Opening /\ Level(body, j) + 1 = m
    <3>1. body \in Seq(Instrs)
      BY <1>1
    <3> QED
      BY <2>1, <2>2, <3>1, LevelRises
  <2>4. j \in x + 1 .. i - 1
    BY <1>1, <1>2, <2>1
  <2> QED
    BY <1>2, <2>3, <2>4
<1>4. Within(x, i)
  BY <1>2, <1>3 DEF Within
<1> QED
  BY <1>2, <1>4 DEF x

\* The block of an instruction that is kept is kept, and so is the level inside it.
LEMMA KeptWithin ==
    ASSUME Shape, NEW i \in DOMAIN body, i \notin ReplacedInstrs, NEW x, Within(x, i)
    PROVE  /\ x \in DOMAIN body /\ x \notin ReplacedInstrs /\ KeptLevel(x) = Level(body, x)
           /\ \A q \in x + 1 .. i : KeptLevel(q) > KeptLevel(x)
<1>1. /\ DOMAIN body = 1 .. Len(body) /\ Len(body) \in Nat /\ i \in Nat
      /\ x \in 1 .. i - 1 /\ \A q \in x + 1 .. i : Level(body, q) > Level(body, x)
  BY BodyFacts DEF Within
<1>2. x \in DOMAIN body /\ x \in Nat
  BY <1>1
<1>3. \A q \in DOMAIN body : Level(body, q) \in Int
  <2>1. body \in Seq(Instrs)
    BY BodyFacts
  <2> QED
    BY <1>1, <2>1, LevelSteps
<1>4. x \notin ReplacedInstrs
  <2> SUFFICES ASSUME x \in ReplacedInstrs PROVE FALSE
    OBVIOUS
  <2>1. PICK a : Covers(a, x)
    BY <1>2, OuterExists
  <2> DEFINE Q == {q \in x + 1 .. i : ~Covers(a, q)}
  <2>2. Q \in SUBSET Nat /\ Q # {}
    <3>1. ~Covers(a, i)
      BY KeptAt
    <3> QED
      BY <1>1, <3>1
  <2>3. PICK q \in Q : \A r \in Q : q <= r
    <3> HIDE DEF Q
    <3> QED
      BY <2>2, LeastElement
  <2>4. q \in x + 1 .. i /\ ~Covers(a, q) /\ q \in Nat
    BY <2>2
  <2> DEFINE p == q - 1
  <2>5. p \in x .. i /\ p \in DOMAIN body /\ p + 1 = q /\ ~(q <= p)
    BY <1>1, <2>4
  <2>6. Covers(a, p)
    <3>1. p \notin Q
      <4> HIDE DEF Q, p
      <4> QED
        BY <2>3, <2>5
    <3>2. p = x \/ p \in x + 1 .. i
      <4> HIDE DEF p, Q
      <4> QED
        BY <1>1, <1>2, <2>5
    <3> QED
      BY <2>1, <3>1, <3>2
  <2> HIDE DEF p, Q
  <2>7. Level(body, q) = Level(body, a)
    BY <2>4, <2>5, <2>6, CoverFacts
  <2>8. Level(body, a) <= Level(body, x) /\ a \in DOMAIN body
    BY <1>2, <2>1, CoverFacts
  <2>9. Level(body, q) > Level(body, x)
    BY <1>1, <2>4
  <2> QED
    BY <1>2, <1>3, <2>7, <2>8, <2>9
<1>5. KeptLevel(x) = Level(body, x)
  BY <1>2, <1>4, KeptAt
<1>6. ASSUME NEW q \in x + 1 .. i PROVE KeptLevel(q) > KeptLevel(x)
  <2>1. q \in DOMAIN body /\ q \in Nat
    BY <1>1
  <2>2. CASE q \notin ReplacedInstrs
    BY <1>1, <1>5, <2>1, <2>2, KeptAt
  <2>3. CASE q \in ReplacedInstrs
    <3>1. PICK a : Covers(a, q)
      BY <2>1, <2>3, OuterExists
    <3>2. /\ a \in Nat /\ a <= q
          /\ \A r \in DOMAIN body : a <= r /\ r <= q => r \in ReplacedInstrs
      BY <2>1, <3>1, CoverFacts
    <3>3. a \in x + 1 .. i
      <4>1. ~(a <= x)
        BY <1>1, <1>2, <1>4, <2>1, <3>2
      <4> QED
        BY <1>1, <2>1, <3>2, <4>1
    <3>4. KeptLevel(q) = Level(body, a)
      BY <2>1, <3>1, KeptAt
    <3> QED
      BY <1>1, <1>5, <3>3, <3>4
  <2> QED
    BY <2>2, <2>3
<1> QED
  BY <1>2, <1>4, <1>5, <1>6

(***************************************************************************)
(* What is written for an instruction: the code before it, the instruction *)
(* itself if it stays, and the rest.                                       *)
(***************************************************************************)
\* The code before it, whether it stays, and the code after or in place of it.
Before(i) == lists[i].before
OwnAt(i) == IF Stays(i) THEN 1 ELSE 0
Rest(i) ==
    IF IsLast(i) THEN <<>>
    ELSE IF Stays(i) THEN lists[i].after ELSE lists[i].alternate \o lists[i].after

\* An injected code lies in c after a; the function's instruction i is at place p of c.
Injects(c, a, code) == \A k \in 1 .. Len(code) : c[a + k].op = code[k].op /\ c[a + k].src = 0
IsOwn(c, p, i) == c[p].op = body[i].op /\ c[p].arg = body[i].arg /\ c[p].src = i
\* All that is written for instruction i lies in c from after a up to z.
LiesAt(c, a, z, i) ==
    LET b == a + Len(Before(i))
        r == b + OwnAt(i)
    IN  /\ z = r + Len(Rest(i))
        /\ Injects(c, a, Before(i))
        /\ Stays(i) => IsOwn(c, b + 1, i)
        /\ Injects(c, r, Rest(i))

LEMMA FromElements ==
    ASSUME NEW code \in Codes
    PROVE  /\ From(0, code) \in Seq(Outs) /\ Len(From(0, code)) = Len(code)
           /\ Injects(From(0, code), 0, code)
<1> DEFINE n == Len(code)
           r == From(0, code)
           x(k) == [op |-> code[k].op, arg |-> code[k].arg, src |-> 0]
<1>1. n \in Nat /\ DOMAIN code = 1 .. n /\ \A k \in 1 .. n : code[k] \in Injected
  BY ElementsOf DEF Codes
<1>2. \A k \in 1 .. n : x(k) \in Outs
  BY <1>1 DEF Injected, Outs, AllOps
<1>3. r = [k \in 1 .. n |-> x(k)]
  BY <1>1 DEF From
<1>4. r \in [1 .. n -> Outs] /\ \A k \in 1 .. n : r[k].op = code[k].op /\ r[k].src = 0
  <2>1. \A k \in 1 .. n : r[k] = x(k)
    BY <1>3
  <2>2. \A k : x(k).op = code[k].op /\ x(k).src = 0
    OBVIOUS
  <2> HIDE DEF n, x
  <2>3. r \in [1 .. n -> Outs]
    BY <1>2, <1>3
  <2> HIDE DEF r
  <2> QED
    BY <2>1, <2>2, <2>3
<1> HIDE DEF r, n
<1>5. r \in Seq(Outs) /\ Len(r) = n
  BY <1>1, <1>4, SequenceOf
<1>6. \A k \in 1 .. n : 0 + k = k
  BY <1>1
<1> QED
  BY <1>4, <1>5, <1>6 DEF Injects, r, n

LEMMA OwnElement ==
    ASSUME Shape, NEW i \in DOMAIN body
    PROVE  /\ From(i, <<body[i]>>) \in Seq(Outs) /\ Len(From(i, <<body[i]>>)) = 1
           /\ IsOwn(From(i, <<body[i]>>), 1, i)
<1>1. body[i] \in Instrs /\ i \in Nat
  BY BodyFacts, ElementsOf
<1> DEFINE x == [op |-> body[i].op, arg |-> body[i].arg, src |-> i]
<1>2. x \in Outs
  BY <1>1 DEF Instrs, Outs, AllOps
<1>3. From(i, <<body[i]>>) = <<x>>
  BY DEF From
<1>4. x.op = body[i].op /\ x.arg = body[i].arg /\ x.src = i
  OBVIOUS
<1> HIDE DEF x
<1>5. <<x>> \in Seq(Outs) /\ Len(<<x>>) = 1 /\ <<x>>[1] = x
  BY <1>2, OneElement
<1> QED
  BY <1>3, <1>4, <1>5 DEF IsOwn

LEMMA JoinInjects ==
    ASSUME NEW s \in Seq(Outs), NEW t \in Seq(Outs), NEW code \in Codes
    PROVE  /\ Injects(s, 0, code) /\ Len(code) = Len(s) => Injects(s \o t, 0, code)
           /\ Injects(t, 0, code) /\ Len(code) = Len(t) => Injects(s \o t, Len(s), code)
<1> DEFINE r == s \o t
           n == Len(s)
           m == Len(t)
<1>1. /\ n \in Nat /\ m \in Nat
      /\ \A j \in 1 .. n : r[j] = s[j]
      /\ \A j \in 1 .. m : r[n + j] = t[j]
  BY JoinElements
<1> HIDE DEF r, n, m
<1>2. \A j \in 1 .. n : 0 + j = j
  BY <1>1
<1>3. \A j \in 1 .. m : 0 + j = j
  BY <1>1
<1> QED
  BY <1>1, <1>2, <1>3 DEF Injects, r, n, m

\* Two codes one after the other are one.
LEMMA InjectsJoin ==
    ASSUME NEW c, NEW a \in Nat, NEW s \in Codes, NEW t \in Codes,
           Injects(c, a, s), Injects(c, a + Len(s), t)
    PROVE  Injects(c, a, s \o t)
<1> DEFINE r == s \o t
           n == Len(s)
           m == Len(t)
<1>1. /\ n \in Nat /\ m \in Nat /\ Len(r) = n + m
      /\ \A j \in 1 .. n : r[j] = s[j]
      /\ \A j \in 1 .. m : r[n + j] = t[j]
  BY JoinElements DEF Codes
<1>2. /\ \A k \in 1 .. n : c[a + k].op = s[k].op /\ c[a + k].src = 0
      /\ \A k \in 1 .. m : c[a + n + k].op = t[k].op /\ c[a + n + k].src = 0
  BY DEF Injects
<1> HIDE DEF r, n, m
<1>3. ASSUME NEW k \in 1 .. n + m PROVE c[a + k].op = r[k].op /\ c[a + k].src = 0
  <2>1. CASE k \in 1 .. n
    BY <1>1, <1>2, <2>1
  <2>2. CASE k \notin 1 .. n
    <3> DEFINE j == k - n
    <3>1. j \in 1 .. m /\ n + j = k /\ a + n + j = a + k
      BY <1>1, <2>2
    <3> HIDE DEF j
    <3> QED
      BY <1>1, <1>2, <3>1
  <2> QED
    BY <2>1, <2>2
<1> QED
  BY <1>1, <1>3 DEF Injects, r

LEMMA OutsJoin ==
    \A s \in Seq(Outs) : \A t \in Seq(Outs) :
        /\ s \o t \in Seq(Outs) /\ Len(s \o t) = Len(s) + Len(t) /\ Len(s) \in Nat /\ Len(t) \in Nat
        /\ \A j \in 1 .. Len(s) : (s \o t)[j] = s[j]
        /\ \A j \in 1 .. Len(t) : (s \o t)[Len(s) + j] = t[j]
BY JoinElements

LEMMA EncodeInstrLies ==
    ASSUME Shape, ListsCoded, NEW i \in DOMAIN body
    PROVE  /\ EncodeInstr(i) \in Seq(Outs)
           /\ LiesAt(EncodeInstr(i), 0, Len(EncodeInstr(i)), i)
           /\ Before(i) \in Codes /\ Rest(i) \in Codes /\ OwnAt(i) \in {0, 1}
<1> DEFINE bf == lists[i].before
           al == lists[i].alternate
           af == lists[i].after
           fa == IF IsLast(i) THEN <<>> ELSE af
           x == From(0, bf)
           y == IF Stays(i) THEN From(i, <<body[i]>>) ELSE From(0, al)
           z == From(0, fa)
           xy == x \o y
           t == xy \o z
<1>1. bf \in Codes /\ al \in Codes /\ af \in Codes /\ fa \in Codes
  BY SomeCodes DEF ListsCoded, Modes, PlainModes
<1>2. EncodeInstr(i) = t
  <2>1. y = IF ~IsLast(i) /\ "alternate" \in some[i] THEN From(0, al) ELSE From(i, <<body[i]>>)
    BY DEF Stays
  <2>2. z = IF IsLast(i) THEN <<>> ELSE From(0, af)
    <3>1. From(0, <<>>) = <<>>
      BY DEF From
    <3> QED
      BY <3>1
  <2> HIDE DEF y, z
  <2> QED
    BY <2>1, <2>2 DEF EncodeInstr
<1>3. Before(i) = bf /\ OwnAt(i) \in {0, 1}
  BY DEF Before, OwnAt
<1>4. Rest(i) = IF Stays(i) THEN fa ELSE al \o fa
  BY DEF Rest, Stays
<1>5. Rest(i) \in Codes
  <2> HIDE DEF fa, al
  <2> QED
    BY <1>1, <1>4, SomeCodes
<1> HIDE DEF bf, al, af, fa
<1>6. /\ x \in Seq(Outs) /\ Len(x) = Len(bf) /\ Injects(x, 0, bf)
      /\ z \in Seq(Outs) /\ Len(z) = Len(fa) /\ Injects(z, 0, fa)
  BY <1>1, FromElements
<1>7. /\ y \in Seq(Outs)
      /\ Stays(i) => Len(y) = 1 /\ IsOwn(y, 1, i)
      /\ ~Stays(i) => Len(y) = Len(al) /\ Injects(y, 0, al)
  BY <1>1, FromElements, OwnElement
<1> HIDE DEF x, y, z
<1>8. /\ xy \in Seq(Outs) /\ Len(xy) = Len(x) + Len(y) /\ Len(x) \in Nat /\ Len(y) \in Nat
      /\ \A j \in 1 .. Len(y) : xy[Len(x) + j] = y[j]
  BY <1>6, <1>7, OutsJoin
<1>9. Injects(xy, 0, bf) /\ (~Stays(i) => Injects(xy, Len(x), al))
  BY <1>1, <1>6, <1>7, JoinInjects
<1> HIDE DEF xy
<1>10. /\ t \in Seq(Outs) /\ Len(t) = Len(xy) + Len(z) /\ Len(z) \in Nat
       /\ \A j \in 1 .. Len(xy) : t[j] = xy[j]
  BY <1>6, <1>8, OutsJoin
<1>11. Injects(t, Len(xy), fa)
  BY <1>1, <1>6, <1>8, JoinInjects
<1>12. \A j \in 1 .. Len(x) + Len(y) : t[j] = xy[j]
  BY <1>8, <1>10
<1> HIDE DEF t
<1> DEFINE nx == Len(x)
           ny == Len(y)
           nz == Len(z)
           nb == Len(bf)
           na == Len(al)
           nf == Len(fa)
           nxy == Len(xy)
           nt == Len(t)
<1>n. /\ nx \in Nat /\ ny \in Nat /\ nz \in Nat /\ nb = nx /\ nf = nz /\ nxy = nx + ny /\ nt = nxy + nz
      /\ Stays(i) => ny = 1
      /\ ~Stays(i) => ny = na
  BY <1>6, <1>7, <1>8, <1>10
<1> HIDE DEF nx, ny, nz, nb, na, nf, nxy, nt
<1>13. Injects(t, 0, bf)
  <2>1. \A k \in 1 .. Len(bf) : 0 + k \in 1 .. Len(x) + Len(y)
    BY <1>6, <1>8
  <2> QED
    BY <1>9, <1>12, <2>1 DEF Injects
<1>14. CASE Stays(i)
  <2>1. IsOwn(t, Len(x) + 1, i)
    <3>1. Len(x) + 1 \in 1 .. Len(x) + Len(y) /\ 1 \in 1 .. Len(y)
      <4>1. nx + 1 \in 1 .. nx + ny /\ 1 \in 1 .. ny
        BY <1>n, <1>14
      <4> QED
        BY <4>1 DEF nx, ny
    <3>2. t[Len(x) + 1] = y[1]
      BY <1>8, <1>12, <3>1
    <3> QED
      BY <1>7, <1>14, <3>2 DEF IsOwn
  <2>2. Rest(i) = fa /\ OwnAt(i) = 1
    BY <1>4, <1>14 DEF OwnAt
  <2>3. 0 + Len(bf) = Len(x) /\ Len(xy) = Len(x) + 1 /\ Len(t) = Len(x) + 1 + Len(fa)
    <3>1. 0 + nb = nx /\ nxy = nx + 1 /\ nt = nx + 1 + nf
      BY <1>n, <1>14
    <3> QED
      BY <3>1 DEF nb, nx, nxy, nt, nf
  <2>4. LiesAt(t, 0, Len(t), i)
    BY <1>3, <1>11, <1>13, <2>1, <2>2, <2>3 DEF LiesAt
  <2> QED
    BY <1>1, <1>2, <1>3, <1>5, <1>10, <2>4
<1>15. CASE ~Stays(i)
  <2>1. Injects(t, Len(x), al)
    <3>1. \A k \in 1 .. Len(al) : Len(x) + k \in 1 .. Len(x) + Len(y)
      BY <1>7, <1>8, <1>15
    <3> QED
      BY <1>9, <1>12, <1>15, <3>1 DEF Injects
  <2>2. Rest(i) = al \o fa /\ OwnAt(i) = 0
    BY <1>4, <1>15 DEF OwnAt
  <2>3. /\ 0 + Len(bf) = Len(x) /\ Len(x) + 0 = Len(x) /\ Len(xy) = Len(x) + Len(al)
        /\ Len(t) = Len(x) + (Len(al) + Len(fa))
    <3>1. 0 + nb = nx /\ nx + 0 = nx /\ nxy = nx + na /\ nt = nx + (na + nf)
      BY <1>n, <1>15
    <3> QED
      BY <3>1 DEF nb, nx, nxy, nt, nf, na
  <2>4. Len(al \o fa) = Len(al) + Len(fa)
    BY <1>1, JoinElements DEF Codes
  <2>5. Injects(t, Len(x), al \o fa)
    <3>1. Injects(t, Len(x) + Len(al), fa)
      BY <1>11, <2>3
    <3> QED
      BY <1>1, <1>8, <2>1, <3>1, InjectsJoin
  <2> DEFINE rest == al \o fa
  <2>6. Rest(i) = rest /\ Len(rest) = Len(al) + Len(fa) /\ Injects(t, Len(x), rest)
    BY <2>2, <2>4, <2>5
  <2> HIDE DEF rest
  <2>7. LiesAt(t, 0, Len(t), i)
    BY <1>3, <1>13, <1>15, <2>2, <2>3, <2>6 DEF LiesAt
  <2> QED
    BY <1>1, <1>2, <1>3, <1>5, <1>10, <2>7
<1> QED
  BY <1>14, <1>15

\* The pieces of the written function, in order.
Pieces(c, s) ==
    /\ s[1] = 0 /\ s[Len(body) + 1] = Len(c)
    /\ \A i \in DOMAIN body : s[i + 1] <= Len(c) /\ LiesAt(c, s[i], s[i + 1], i)
    /\ \A q \in DOMAIN c : \E i \in DOMAIN body : s[i] < q /\ q <= s[i + 1]

\* What encode_function writes is such pieces.
LEMMA EncodedPieces ==
    ASSUME Shape, ListsCoded
    PROVE  /\ Encoded \in Seq(Outs)
           /\ \E s \in [1 .. Len(body) + 1 -> Nat] : Pieces(Encoded, s)
<1> DEFINE n == Len(body)
           ss == [i \in DOMAIN body |-> EncodeInstr(i)]
           c == Encoded
<1>1. n \in Nat \ {0} /\ DOMAIN body = 1 .. n
  BY BodyFacts
<1>2. \A i \in 1 .. n : ss[i] = EncodeInstr(i) /\ ss[i] \in Seq(Outs)
  BY <1>1, EncodeInstrLies
<1>3. ss \in Seq(Seq(Outs)) /\ Len(ss) = n /\ c = FlattenSeq(ss)
  <2>1. ss \in [1 .. n -> Seq(Outs)]
    <3> HIDE DEF n
    <3> QED
      BY <1>1, EncodeInstrLies
  <2>2. c = FlattenSeq(ss)
    BY DEF Encoded
  <2> HIDE DEF ss, n
  <2> QED
    BY <1>1, <2>1, <2>2, SequenceOf
<1> HIDE DEF ss, c, n
<1>4. c \in Seq(Outs) /\ \E s \in [1 .. n + 1 -> Nat] : Places(c, ss, n, s)
  BY <1>1, <1>3, FlattenPlaces
<1>5. PICK s \in [1 .. n + 1 -> Nat] : Places(c, ss, n, s)
  BY <1>4
<1>6. /\ s[1] = 0 /\ s[n + 1] = Len(c)
      /\ \A q \in 1 .. Len(c) : \E i \in 1 .. n : s[i] < q /\ q <= s[i + 1]
  BY <1>5 DEF Places
<1>7. ASSUME NEW i \in 1 .. n PROVE s[i + 1] <= Len(c) /\ LiesAt(c, s[i], s[i + 1], i)
  <2> DEFINE t == EncodeInstr(i)
             a == s[i]
             z == s[i + 1]
             bn == Len(Before(i))
             rn == Len(Rest(i))
             o == OwnAt(i)
  <2>1. z = a + Len(t) /\ z <= Len(c) /\ \A k \in 1 .. Len(t) : c[a + k] = t[k]
    BY <1>2, <1>5 DEF Places
  <2>2. a \in Nat
    <3>1. i \in 1 .. n + 1
      BY <1>1
    <3> QED
      BY <1>5, <3>1
  <2>3. /\ t \in Seq(Outs) /\ LiesAt(t, 0, Len(t), i)
        /\ Before(i) \in Codes /\ Rest(i) \in Codes /\ o \in {0, 1}
    BY <1>1, EncodeInstrLies
  <2>4. bn \in Nat /\ rn \in Nat /\ o \in Nat
    BY <2>3 DEF Codes
  <2>5. o = 1 <=> Stays(i)
    BY DEF OwnAt
  <2> HIDE DEF t, a, z, bn, rn, o
  <2>6. /\ Len(t) = 0 + bn + o + rn
        /\ \A k \in 1 .. bn : t[0 + k].op = Before(i)[k].op /\ t[0 + k].src = 0
        /\ Stays(i) => IsOwn(t, 0 + bn + 1, i)
        /\ \A k \in 1 .. rn : t[0 + bn + o + k].op = Rest(i)[k].op /\ t[0 + bn + o + k].src = 0
    BY <2>3 DEF LiesAt, Injects, bn, rn, o
  <2>7. z = a + bn + o + rn
    BY <2>1, <2>2, <2>4, <2>6
  <2>8. \A k \in 1 .. bn : c[a + k].op = Before(i)[k].op /\ c[a + k].src = 0
    <3>1. \A k \in 1 .. bn : 0 + k = k /\ k \in 1 .. Len(t)
      BY <2>4, <2>6
    <3> QED
      BY <2>1, <2>6, <3>1
  <2>9. Stays(i) => IsOwn(c, a + bn + 1, i)
    <3>1. Stays(i) => 0 + bn + 1 \in 1 .. Len(t) /\ a + (0 + bn + 1) = a + bn + 1
      BY <2>2, <2>4, <2>5, <2>6
    <3>2. Stays(i) => c[a + bn + 1] = t[0 + bn + 1]
      BY <2>1, <3>1
    <3> QED
      BY <2>6, <3>2 DEF IsOwn
  <2>10. \A k \in 1 .. rn : c[a + bn + o + k].op = Rest(i)[k].op /\ c[a + bn + o + k].src = 0
    <3> TAKE k \in 1 .. rn
    <3>1. 0 + bn + o + k \in 1 .. Len(t) /\ a + (0 + bn + o + k) = a + bn + o + k
      BY <2>2, <2>4, <2>6
    <3>2. c[a + bn + o + k] = t[0 + bn + o + k]
      BY <2>1, <3>1
    <3> QED
      BY <2>6, <3>2
  <2>11. LiesAt(c, a, z, i)
    BY <2>7, <2>8, <2>9, <2>10 DEF LiesAt, Injects, bn, rn, o
  <2> QED
    BY <2>1, <2>11 DEF a, z
<1>8. DOMAIN c = 1 .. Len(c)
  BY <1>4
<1>9. Pieces(c, s)
  BY <1>1, <1>6, <1>7, <1>8 DEF Pieces, n
<1> QED
  BY <1>4, <1>5, <1>9 DEF c, n

(***************************************************************************)
(* Levels in the code before an instruction.                               *)
(***************************************************************************)
LEMMA JoinLevels ==
    ASSUME NEW s \in Codes, NEW t \in Codes
    PROVE  /\ s \o t \in Codes /\ Len(s \o t) = Len(s) + Len(t) /\ Len(s) \in Nat /\ Len(t) \in Nat
           /\ \A j \in 1 .. Len(s) : (s \o t)[j].op = s[j].op
           /\ \A j \in 1 .. Len(t) : (s \o t)[Len(s) + j].op = t[j].op
           /\ \A k \in 1 .. Len(s) + 1 : Level(s \o t, k) = Level(s, k) /\ Level(s, k) \in Int
           /\ \A k \in 1 .. Len(t) + 1 :
                /\ Level(s \o t, Len(s) + k) = Level(s, Len(s) + 1) + Level(t, k) - 1
                /\ Level(t, k) \in Int
<1> DEFINE n == Len(s)
           m == Len(t)
           r == s \o t
<1>1. /\ r \in Codes /\ Len(r) = n + m /\ n \in Nat /\ m \in Nat
      /\ \A j \in 1 .. n : r[j].op = s[j].op
      /\ \A j \in 1 .. m : r[n + j].op = t[j].op
  BY JoinElements DEF Codes
<1>2. Stands(r, 0, s) /\ Stands(r, n, t)
  BY JoinStands DEF Codes
<1> HIDE DEF r
<1>3. /\ \A k \in 1 .. n + 1 : Level(r, 0 + k) = Level(r, 0 + 1) + Level(s, k) - 1
      /\ \A k \in 1 .. m + 1 : Level(r, n + k) = Level(r, n + 1) + Level(t, k) - 1
  BY <1>1, <1>2, CodeStanding
<1>4. /\ Level(r, 1) = 1
      /\ \A k \in 1 .. n + 1 : Level(s, k) \in Int
      /\ \A k \in 1 .. m + 1 : Level(t, k) \in Int
  BY <1>1, AnyLevelSteps DEF Codes
<1> HIDE DEF n, m
<1>5. \A k \in 1 .. n + 1 : Level(r, k) = Level(s, k)
  <2>1. \A k \in 1 .. n + 1 : 0 + k = k
    BY <1>1
  <2> QED
    BY <1>3, <1>4, <2>1
<1>6. n + 1 \in 1 .. n + 1
  BY <1>1
<1>7. \A k \in 1 .. m + 1 : Level(r, n + k) = Level(s, n + 1) + Level(t, k) - 1
  BY <1>3, <1>5, <1>6
<1> QED
  BY <1>1, <1>4, <1>5, <1>7 DEF n, m, r

\* A code that ends at level m, never goes below level low, and has no else; if w is not 0
\* it opens a block there that is never left.
Runs(t, m, low, w) ==
    /\ t \in Codes
    /\ Level(t, Len(t) + 1) = m
    /\ \A k \in 1 .. Len(t) + 1 : Level(t, k) >= low
    /\ \A k \in 1 .. Len(t) : t[k].op # "else"
    /\ w # 0 => /\ w \in 1 .. Len(t) /\ t[w].op = "block" /\ Level(t, w) = 1
                /\ \A k \in w + 1 .. Len(t) + 1 : Level(t, k) > 1

LEMMA StraightRuns ==
    ASSUME NEW s \in Straight
    PROVE  Runs(s, 1, 1, 0)
<1>1. /\ s \in Codes /\ Len(s) \in Nat /\ \A k \in 1 .. Len(s) : s[k].op \in StraightOps
      /\ \A k \in 1 .. Len(s) + 1 : Level(s, k) = 1
  BY StraightFacts, StraightLevels
<1>2. "else" \notin StraightOps /\ Len(s) + 1 \in 1 .. Len(s) + 1
  BY <1>1 DEF StraightOps
<1> QED
  BY <1>1, <1>2 DEF Runs

LEMMA JoinRuns ==
    ASSUME NEW m \in Int, NEW low \in Int, NEW w \in Nat, NEW t, Runs(t, m, low, w), NEW s \in Straight
    PROVE  Runs(t \o s, m, low, w)
<1> DEFINE r == t \o s
           n == Len(t)
           k == Len(s)
<1>1. /\ t \in Codes /\ Level(t, n + 1) = m /\ n + 1 \in 1 .. n + 1
      /\ \A q \in 1 .. n + 1 : Level(t, q) >= low
      /\ \A q \in 1 .. n : t[q].op # "else"
      /\ w # 0 => /\ w \in 1 .. n /\ t[w].op = "block" /\ Level(t, w) = 1
                  /\ \A q \in w + 1 .. n + 1 : Level(t, q) > 1
  <2>1. t \in Codes
    BY DEF Runs
  <2>2. n \in Nat
    BY <2>1 DEF Codes
  <2>3. n + 1 \in 1 .. n + 1
    BY <2>2
  <2> QED
    BY <2>3 DEF Runs
<1>2. /\ s \in Codes /\ \A q \in 1 .. k : s[q].op # "else"
      /\ \A q \in 1 .. k + 1 : Level(s, q) = 1
  <2>1. \A q \in 1 .. k : s[q].op \in StraightOps
    BY StraightFacts
  <2> QED
    BY <2>1, StraightFacts, StraightLevels DEF StraightOps
<1>3. /\ r \in Codes /\ Len(r) = n + k /\ n \in Nat /\ k \in Nat
      /\ \A j \in 1 .. n : r[j].op = t[j].op
      /\ \A j \in 1 .. k : r[n + j].op = s[j].op
      /\ \A q \in 1 .. n + 1 : Level(r, q) = Level(t, q)
      /\ \A q \in 1 .. k + 1 : Level(r, n + q) = Level(t, n + 1) + Level(s, q) - 1
  BY <1>1, <1>2, JoinLevels
<1> HIDE DEF r, n, k
<1>4. \A q \in 1 .. k + 1 : Level(r, n + q) = m
  BY <1>1, <1>2, <1>3
<1>5. ASSUME NEW q \in 1 .. n + k + 1, q \notin 1 .. n + 1 PROVE Level(r, q) = m
  <2> DEFINE j == q - n
  <2>1. j \in 1 .. k + 1 /\ n + j = q
    BY <1>3, <1>5
  <2> HIDE DEF j
  <2> QED
    BY <1>4, <2>1
<1>6. \A q \in 1 .. n + k + 1 : Level(r, q) >= low
  BY <1>1, <1>3, <1>5
<1>7. ASSUME NEW q \in 1 .. n + k PROVE r[q].op # "else"
  <2>1. CASE q \in 1 .. n
    BY <1>1, <1>3, <2>1
  <2>2. CASE q \notin 1 .. n
    <3> DEFINE j == q - n
    <3>1. j \in 1 .. k /\ n + j = q
      BY <1>3, <2>2
    <3> HIDE DEF j
    <3> QED
      BY <1>2, <1>3, <3>1
  <2> QED
    BY <2>1, <2>2
<1>8. Level(r, n + k + 1) = m
  <2>1. k + 1 \in 1 .. k + 1 /\ n + (k + 1) = n + k + 1
    BY <1>3
  <2> QED
    BY <1>4, <2>1
<1>9. ASSUME w # 0
      PROVE  /\ w \in 1 .. n + k /\ r[w].op = "block" /\ Level(r, w) = 1
             /\ \A q \in w + 1 .. n + k + 1 : Level(r, q) > 1
  <2>1. w \in 1 .. n /\ w \in 1 .. n + 1 /\ w \in 1 .. n + k /\ w \in Nat
    BY <1>1, <1>3, <1>9
  <2>2. r[w].op = "block" /\ Level(r, w) = 1
    BY <1>1, <1>3, <1>9, <2>1
  <2>3. m > 1
    <3>1. n + 1 \in w + 1 .. n + 1
      BY <1>3, <2>1
    <3> QED
      BY <1>1, <1>9, <3>1
  <2>4. ASSUME NEW q \in w + 1 .. n + k + 1 PROVE Level(r, q) > 1
    <3>1. CASE q \in 1 .. n + 1
      <4>1. q \in w + 1 .. n + 1
        BY <1>3, <2>1, <3>1
      <4> QED
        BY <1>1, <1>3, <1>9, <3>1, <4>1
    <3>2. CASE q \notin 1 .. n + 1
      <4>1. q \in 1 .. n + k + 1
        BY <1>3, <2>1
      <4> QED
        BY <1>5, <2>3, <3>2, <4>1
    <3> QED
      BY <3>1, <3>2
  <2> QED
    BY <2>1, <2>2, <2>4
<1> QED
  BY <1>3, <1>6, <1>7, <1>8, <1>9 DEF Runs, r

LEMMA BlockRuns ==
    ASSUME NEW s \in Straight
    PROVE  Runs(s \o <<Block>>, 2, 1, Len(s) + 1)
<1> DEFINE b == <<Block>>
           r == s \o b
           n == Len(s)
<1>1. s \in Codes /\ n \in Nat /\ (\A q \in 1 .. n : s[q].op \in StraightOps) /\ \A q \in 1 .. n + 1 : Level(s, q) = 1
  BY StraightFacts, StraightLevels
<1>2. b \in Codes /\ Len(b) = 1 /\ b[1].op = "block"
  BY SomeCodes DEF Block, Instr
<1>3. Level(b, 1) = 1 /\ Level(b, 2) = 2
  <2>1. Rise(b[1]) = 1
    BY <1>2, Rises DEF Opening
  <2>2. Level(b, 1) = 1 /\ Level(b, 1 + 1) = Level(b, 1) + Rise(b[1])
    <3>1. 1 \in DOMAIN b
      OBVIOUS
    <3> HIDE DEF b
    <3> QED
      BY <1>2, <3>1, AnyLevelSteps DEF Codes
  <2> QED
    BY <2>1, <2>2
<1> HIDE DEF b
<1>4. /\ r \in Codes /\ Len(r) = n + 1
      /\ \A j \in 1 .. n : r[j].op = s[j].op
      /\ \A j \in 1 .. 1 : r[n + j].op = b[j].op
      /\ \A q \in 1 .. n + 1 : Level(r, q) = Level(s, q)
      /\ \A q \in 1 .. 1 + 1 : Level(r, n + q) = Level(s, n + 1) + Level(b, q) - 1
  <2>1. /\ r \in Codes /\ Len(r) = n + Len(b)
        /\ \A j \in 1 .. n : r[j].op = s[j].op
        /\ \A j \in 1 .. Len(b) : r[n + j].op = b[j].op
        /\ \A q \in 1 .. n + 1 : Level(r, q) = Level(s, q)
        /\ \A q \in 1 .. Len(b) + 1 : Level(r, n + q) = Level(s, n + 1) + Level(b, q) - 1
    BY <1>1, <1>2, JoinLevels
  <2> HIDE DEF r, n
  <2> QED
    BY <1>2, <2>1
<1> HIDE DEF r, n
<1>5. /\ \A q \in 1 .. n + 1 : Level(r, q) = 1
      /\ r[n + 1].op = "block"
  BY <1>1, <1>2, <1>4
<1>6. Level(r, n + 2) = 2
  <2>1. n + 1 \in 1 .. n + 1 /\ 2 \in 1 .. 1 + 1
    BY <1>1
  <2>2. Level(r, n + 2) = Level(s, n + 1) + Level(b, 2) - 1
    BY <1>4, <2>1
  <2> QED
    BY <1>1, <1>3, <2>1, <2>2
<1>7. \A q \in 1 .. n + 1 + 1 : q \in 1 .. n + 1 \/ q = n + 2
  BY <1>1
<1>8. \A q \in 1 .. n + 1 : r[q].op # "else"
  <2>1. \A q \in 1 .. n + 1 : q \in 1 .. n \/ q = n + 1
    BY <1>1
  <2> QED
    BY <1>1, <1>4, <1>5, <2>1 DEF StraightOps
<1>9. \A q \in n + 1 + 1 .. n + 1 + 1 : q = n + 2
  BY <1>1
<1>10. n + 1 + 1 = n + 2 /\ n + 1 \in 1 .. n + 1 /\ n + 1 # 0
  BY <1>1
<1> DEFINE w == n + 1
<1>11. /\ Len(r) = w /\ w \in 1 .. w /\ w # 0 /\ r[w].op = "block" /\ Level(r, w) = 1
       /\ Level(r, w + 1) = 2
       /\ \A q \in 1 .. w + 1 : Level(r, q) >= 1
       /\ \A q \in 1 .. w : r[q].op # "else"
       /\ \A q \in w + 1 .. w + 1 : Level(r, q) > 1
  BY <1>4, <1>5, <1>6, <1>7, <1>8, <1>9, <1>10
<1> HIDE DEF w
<1>12. Runs(r, 2, 1, w)
  BY <1>4, <1>11 DEF Runs
<1> QED
  BY <1>12, Zenon DEF w, r, n, b

LEMMA EndRuns ==
    ASSUME NEW m \in {1, 2}, NEW w, NEW t, Runs(t, m, 1, w)
    PROVE  Runs(t \o <<End>>, m - 1, m - 1, 0)
<1> DEFINE b == <<End>>
           r == t \o b
           n == Len(t)
<1>1. /\ t \in Codes /\ Level(t, n + 1) = m
      /\ \A q \in 1 .. n + 1 : Level(t, q) >= 1
      /\ \A q \in 1 .. n : t[q].op # "else"
  BY DEF Runs
<1>2. b \in Codes /\ Len(b) = 1 /\ b[1].op = "end"
  BY SomeCodes DEF End, Instr
<1>3. Level(b, 1) = 1 /\ Level(b, 2) = 0
  <2>1. Rise(b[1]) = -1
    BY <1>2, Rises
  <2>2. Level(b, 1) = 1 /\ Level(b, 1 + 1) = Level(b, 1) + Rise(b[1])
    <3>1. 1 \in DOMAIN b
      OBVIOUS
    <3> HIDE DEF b
    <3> QED
      BY <1>2, <3>1, AnyLevelSteps DEF Codes
  <2> QED
    BY <2>1, <2>2
<1> HIDE DEF b
<1>4. /\ r \in Codes /\ Len(r) = n + 1 /\ n \in Nat
      /\ \A j \in 1 .. n : r[j].op = t[j].op
      /\ \A j \in 1 .. 1 : r[n + j].op = b[j].op
      /\ \A q \in 1 .. n + 1 : Level(r, q) = Level(t, q) /\ Level(t, q) \in Int
      /\ \A q \in 1 .. 1 + 1 : Level(r, n + q) = Level(t, n + 1) + Level(b, q) - 1
  <2>1. /\ r \in Codes /\ Len(r) = n + Len(b) /\ n \in Nat
        /\ \A j \in 1 .. n : r[j].op = t[j].op
        /\ \A j \in 1 .. Len(b) : r[n + j].op = b[j].op
        /\ \A q \in 1 .. n + 1 : Level(r, q) = Level(t, q) /\ Level(t, q) \in Int
        /\ \A q \in 1 .. Len(b) + 1 : Level(r, n + q) = Level(t, n + 1) + Level(b, q) - 1
    BY <1>1, <1>2, JoinLevels
  <2> HIDE DEF r, n
  <2> QED
    BY <1>2, <2>1
<1> HIDE DEF r, n
<1>5. /\ \A q \in 1 .. n + 1 : Level(r, q) >= m - 1
      /\ r[n + 1].op = "end"
  <2>1. ASSUME NEW q \in 1 .. n + 1 PROVE Level(r, q) >= m - 1
    <3>1. Level(r, q) = Level(t, q) /\ Level(t, q) \in Int /\ Level(t, q) >= 1
      BY <1>1, <1>4
    <3> QED
      BY <3>1
  <2>2. 1 \in 1 .. 1
    OBVIOUS
  <2>3. r[n + 1].op = b[1].op
    BY <1>4, <2>2
  <2> QED
    BY <1>2, <2>1, <2>3
<1>6. Level(r, n + 2) = m - 1
  <2>1. 2 \in 1 .. 1 + 1
    OBVIOUS
  <2>2. Level(r, n + 2) = Level(t, n + 1) + Level(b, 2) - 1
    BY <1>4, <2>1
  <2> QED
    BY <1>1, <1>3, <2>2
<1>7. \A q \in 1 .. n + 1 + 1 : q \in 1 .. n + 1 \/ q = n + 2
  BY <1>4
<1>8. \A q \in 1 .. n + 1 : r[q].op # "else"
  <2>1. \A q \in 1 .. n + 1 : q \in 1 .. n \/ q = n + 1
    BY <1>4
  <2> QED
    BY <1>1, <1>4, <1>5, <2>1
<1>9. n + 1 + 1 = n + 2 /\ m - 1 >= m - 1
  BY <1>4
<1> DEFINE low == m - 1
           z == n + 1
<1>10. /\ Len(r) = z /\ Level(r, z + 1) = low
       /\ \A q \in 1 .. z + 1 : Level(r, q) >= low
       /\ \A q \in 1 .. z : r[q].op # "else"
  BY <1>4, <1>5, <1>6, <1>7, <1>8, <1>9
<1> HIDE DEF low, z
<1>11. Runs(r, low, low, 0)
  BY <1>4, <1>10 DEF Runs
<1> QED
  BY <1>11, Zenon DEF low, r, b

LEMMA WrappedRuns ==
    ASSUME NEW o \in {<<>>, <<Block>>}, NEW e \in {<<>>, <<End>>}, NEW code, Wrapped(o, e, code)
    PROVE  /\ o = <<>> /\ e = <<>> => Runs(code, 1, 1, 0)
           /\ o # <<>> /\ e = <<>> => \E w \in Nat \ {0} : Runs(code, 2, 1, w)
           /\ o = <<>> /\ e # <<>> => Runs(code, 0, 0, 0)
           /\ o # <<>> /\ e # <<>> => Runs(code, 1, 1, 0)
<1>1. PICK x, y, z \in Straight : code = Around(x, o, y, e, z)
  BY DEF Wrapped
<1> DEFINE u == x \o o
           v == u \o y
           t == v \o e
<1>2. code = t \o z
  BY <1>1 DEF Around
<1>3. /\ o = <<>> => Runs(u, 1, 1, 0)
      /\ o # <<>> => \E w \in Nat \ {0} : Runs(u, 2, 1, w)
  <2>1. CASE o = <<>>
    <3>1. u = x
      <4>1. x \in Codes
        BY StraightFacts
      <4> QED
        BY <2>1, <4>1, EmptyJoins
    <3> QED
      BY <2>1, <3>1, StraightRuns
  <2>2. CASE o # <<>>
    <3>1. o = <<Block>>
      BY <2>2
    <3>2. Len(x) + 1 \in Nat \ {0}
      <4>1. Len(x) \in Nat
        BY StraightFacts
      <4> QED
        BY <4>1
    <3>3. Runs(x \o <<Block>>, 2, 1, Len(x) + 1)
      BY BlockRuns
    <3> DEFINE w == Len(x) + 1
    <3>4. w \in Nat \ {0} /\ Runs(u, 2, 1, w)
      BY <3>1, <3>2, <3>3
    <3> HIDE DEF w, u
    <3> QED
      BY <2>2, <3>4
  <2> QED
    BY <2>1, <2>2
<1> HIDE DEF u
<1>4. /\ o = <<>> => Runs(v, 1, 1, 0)
      /\ o # <<>> => \E w \in Nat \ {0} : Runs(v, 2, 1, w)
  <2>1. 1 \in Int /\ 2 \in Int /\ 0 \in Nat /\ \A w \in Nat \ {0} : w \in Nat
    OBVIOUS
  <2>2. CASE o = <<>>
    BY <1>3, <2>1, <2>2, JoinRuns
  <2>3. CASE o # <<>>
    <3>1. PICK w \in Nat \ {0} : Runs(u, 2, 1, w)
      BY <1>3, <2>3
    <3>2. Runs(v, 2, 1, w)
      BY <2>1, <3>1, JoinRuns
    <3> HIDE DEF v
    <3> QED
      BY <2>3, <3>2
  <2> QED
    BY <2>2, <2>3
<1> HIDE DEF v
<1>5. CASE e = <<>>
  <2>1. ASSUME NEW m, NEW w, Runs(v, m, 1, w) PROVE t = v
    <3>1. v \in Codes
      BY <2>1 DEF Runs
    <3> QED
      BY <1>5, <3>1, EmptyJoins
  <2> HIDE DEF t
  <2>2. CASE o = <<>>
    <3>1. Runs(t, 1, 1, 0)
      BY <1>4, <2>1, <2>2
    <3>2. Runs(t \o z, 1, 1, 0)
      BY <3>1, JoinRuns
    <3> QED
      BY <1>2, <1>5, <2>2, <3>2
  <2>3. CASE o # <<>>
    <3>1. PICK w \in Nat \ {0} : Runs(v, 2, 1, w)
      BY <1>4, <2>3
    <3>2. Runs(t, 2, 1, w) /\ w \in Nat
      BY <2>1, <3>1
    <3>3. Runs(t \o z, 2, 1, w)
      BY <3>2, JoinRuns
    <3> QED
      BY <1>2, <1>5, <2>3, <3>3
  <2> QED
    BY <2>2, <2>3
<1>6. CASE e # <<>>
  <2>1. e = <<End>>
    BY <1>6
  <2>2. CASE o = <<>>
    <3>1. Runs(v \o <<End>>, 1 - 1, 1 - 1, 0)
      BY <1>4, <2>2, EndRuns
    <3>2. Runs(t, 0, 0, 0)
      BY <2>1, <3>1
    <3> HIDE DEF t
    <3>3. Runs(t \o z, 0, 0, 0)
      BY <3>2, JoinRuns
    <3> QED
      BY <1>2, <1>6, <2>2, <3>3
  <2>3. CASE o # <<>>
    <3>1. PICK w \in Nat \ {0} : Runs(v, 2, 1, w)
      BY <1>4, <2>3
    <3>2. Runs(v \o <<End>>, 2 - 1, 2 - 1, 0)
      BY <3>1, EndRuns
    <3>3. Runs(t, 1, 1, 0)
      BY <2>1, <3>2
    <3> HIDE DEF t
    <3>4. Runs(t \o z, 1, 1, 0)
      BY <3>3, JoinRuns
    <3> QED
      BY <1>2, <1>6, <2>3, <3>4
  <2> QED
    BY <2>2, <2>3
<1> QED
  BY <1>5, <1>6

(***************************************************************************)
(* The function when the pass is through, and the levels in what is        *)
(* written of it.                                                          *)
(***************************************************************************)
\* What the invariant and the lists behind the pass say when there is no more ahead.
Settled ==
    \A i \in DOMAIN body :
        /\ Wrapped(Opener(i), Closer(i), Before(i)) /\ Nested(Rest(i))
        /\ IsLast(i) => Rest(i) = <<>>
        /\ i \in ReplacedInstrs => ~Stays(i)
        /\ i \notin ReplacedInstrs /\ body[i].op \in Structural => Stays(i)

LEMMA ResolvedIsSettled ==
    ASSUME TypeOK, Shape, Resolves, Coded, Laid, phase = "done", special, AltsArePlain
    PROVE  Settled
<1>1. idx = Len(body) + 1 /\ Len(body) \in Nat /\ DOMAIN body = 1 .. Len(body)
  BY BodyFacts DEF Shape
<1>2. \A i \in DOMAIN body : i < idx
  BY <1>1
<1> SUFFICES ASSUME NEW i \in DOMAIN body
             PROVE  /\ Wrapped(Opener(i), Closer(i), Before(i)) /\ Nested(Rest(i))
                    /\ IsLast(i) => Rest(i) = <<>>
                    /\ i \in ReplacedInstrs => ~Stays(i)
                    /\ i \notin ReplacedInstrs /\ body[i].op \in Structural => Stays(i)
  BY DEF Settled
<1> DEFINE al == lists[i]["alternate"]
           af == lists[i]["after"]
<1>3. Wrapped(Opener(i), Closer(i), Before(i)) /\ Nested(af) /\ al \in Straight
  BY <1>2 DEF Laid, Before
<1>4. af \in Codes
  BY DEF Coded, ListsCoded, Modes, PlainModes
<1>5. Nested(Rest(i))
  <2>1. Nested(<<>>)
    BY StraightFacts, StraightNested
  <2>2. al \in Codes /\ Nested(al)
    BY <1>3, StraightFacts, StraightNested
  <2> DEFINE r == al \o af
  <2>3. Nested(r)
    <3> HIDE DEF al, af
    <3> QED
      BY <1>3, <1>4, <2>2, JoinNested DEF Codes
  <2>4. Rest(i) = IF IsLast(i) THEN <<>> ELSE IF Stays(i) THEN af ELSE r
    BY DEF Rest
  <2> HIDE DEF af, r
  <2> QED
    BY <1>3, <2>1, <2>3, <2>4
<1>6. IsLast(i) => Rest(i) = <<>>
  BY DEF Rest
<1>7. HandledAt(i)
  BY <1>2 DEF Resolves, Handled
<1>8. i \in ReplacedInstrs => ~Stays(i)
  <2>1. i \in ReplacedInstrs => ~IsLast(i)
    BY KeptEnds DEF IsLast
  <2> QED
    BY <1>7, <2>1 DEF HandledAt, Stays
<1>9. i \notin ReplacedInstrs /\ body[i].op \in Structural => Stays(i)
  BY <1>7 DEF HandledAt, Stays, AltsArePlain
<1> QED
  BY <1>3, <1>5, <1>6, <1>8, <1>9

\* 1 if the function's code stands inside a wrapper block.
Depth == IF asked.func["exit"] = <<>> THEN 0 ELSE 1
\* The levels in the written code where the piece of i starts, at i itself and after the piece.
LevelStart(i) == IF i = 1 THEN 1 ELSE KeptLevel(i) + Depth
LevelOwn(i) == IF IsLast(i) THEN 1 ELSE KeptLevel(i) + Depth
LevelAfter(i) == IF IsLast(i) THEN 0 ELSE KeptLevel(i + 1) + Depth
\* The place of i, and the place before its rest, if pieces start after s.
OwnPlace(s, i) == s[i] + Len(Before(i)) + 1
RestPlace(s, i) == s[i] + Len(Before(i)) + OwnAt(i)
\* The wrapper's block is opened at w, and the first instruction is inside.
WrapperAt(c, s, w) ==
    /\ w \in 1 .. Len(Before(1)) /\ c[w].op = "block" /\ c[w].src = 0 /\ Level(c, w) = 1
    /\ \A k \in w + 1 .. Len(Before(1)) + 1 : Level(c, k) > 1
\* The levels in the piece of i are those.
Leveled(c, s, i) ==
    /\ Level(c, OwnPlace(s, i)) = LevelOwn(i)
    /\ \A k \in 1 .. Len(Before(i)) + 1 :
        Level(c, s[i] + k) >= LevelStart(i) \/ Level(c, s[i] + k) >= LevelOwn(i)
    /\ \A k \in 1 .. Len(Before(i)) : c[s[i] + k].op # "else"
    /\ \A k \in 1 .. Len(Rest(i)) + 1 : Level(c, RestPlace(s, i) + k) = LevelAfter(i) + Level(Rest(i), k) - 1
    /\ Level(c, s[i + 1] + 1) = LevelAfter(i)
    /\ i = 1 /\ Depth = 1 /\ ~IsLast(i) => \E w : WrapperAt(c, s, w)

LEMMA PieceStands ==
    ASSUME Shape, ListsCoded, NEW c \in Seq(Outs), NEW s \in [1 .. Len(body) + 1 -> Nat], Pieces(c, s),
           NEW i \in DOMAIN body
    PROVE  /\ Before(i) \in Codes /\ Rest(i) \in Codes /\ OwnAt(i) \in {0, 1} /\ (OwnAt(i) = 1 <=> Stays(i))
           /\ s[i] \in Nat /\ s[i + 1] \in Nat /\ s[i + 1] <= Len(c) /\ Len(c) \in Nat
           /\ Len(Before(i)) \in Nat /\ Len(Rest(i)) \in Nat
           /\ s[i + 1] = s[i] + Len(Before(i)) + OwnAt(i) + Len(Rest(i))
           /\ Stands(c, s[i], Before(i)) /\ Injects(c, s[i], Before(i))
           /\ Stands(c, RestPlace(s, i), Rest(i)) /\ Injects(c, RestPlace(s, i), Rest(i))
           /\ Stays(i) => OwnPlace(s, i) \in DOMAIN c /\ IsOwn(c, OwnPlace(s, i), i)
<1> DEFINE bn == Len(Before(i))
           rn == Len(Rest(i))
           o == OwnAt(i)
           a == s[i]
           z == s[i + 1]
<1>1. Before(i) \in Codes /\ Rest(i) \in Codes /\ o \in {0, 1}
  BY EncodeInstrLies
<1>2. o = 1 <=> Stays(i)
  BY DEF OwnAt
<1>3. bn \in Nat /\ rn \in Nat
  BY <1>1 DEF Codes
<1>4. DOMAIN body = 1 .. Len(body) /\ Len(body) \in Nat
  BY BodyFacts
<1>5. a \in Nat /\ z \in Nat
  <2>1. i \in 1 .. Len(body) + 1 /\ i + 1 \in 1 .. Len(body) + 1
    BY <1>4
  <2> QED
    BY <2>1
<1>6. z <= Len(c) /\ LiesAt(c, a, z, i)
  BY DEF Pieces
<1>7. Len(c) \in Nat /\ DOMAIN c = 1 .. Len(c)
  OBVIOUS
<1>8. /\ z = a + bn + o + rn
      /\ Injects(c, a, Before(i)) /\ Injects(c, a + bn + o, Rest(i))
      /\ Stays(i) => IsOwn(c, a + bn + 1, i)
  BY <1>6 DEF LiesAt
<1>9. OwnPlace(s, i) = a + bn + 1 /\ RestPlace(s, i) = a + bn + o
  BY DEF OwnPlace, RestPlace
<1> HIDE DEF bn, rn, o, a, z
<1>10. /\ a + bn <= Len(c) /\ a + bn + o + rn <= Len(c) /\ a + bn + o \in Nat
       /\ Stays(i) => a + bn + 1 \in 1 .. Len(c)
  BY <1>1, <1>2, <1>3, <1>5, <1>6, <1>7, <1>8
<1>11. Stands(c, a, Before(i))
  BY <1>5, <1>8, <1>10 DEF Stands, Injects, bn
<1>12. Stands(c, a + bn + o, Rest(i))
  BY <1>8, <1>10 DEF Stands, Injects, rn
<1> QED
  BY <1>1, <1>2, <1>3, <1>5, <1>6, <1>7, <1>8, <1>9, <1>10, <1>11, <1>12 DEF bn, rn, o, a, z

LEMMA LevelsAt ==
    ASSUME Shape, NEW i \in DOMAIN body
    PROVE  /\ Depth \in {0, 1}
           /\ LevelStart(i) \in Int /\ LevelOwn(i) \in Int /\ LevelAfter(i) \in Int
           /\ LevelStart(i) > 0 /\ LevelOwn(i) > 0
           /\ ~IsLast(i) => LevelAfter(i) > 0 /\ i + 1 \in DOMAIN body /\ LevelAfter(i) = LevelStart(i + 1)
           /\ LevelAfter(i) = LevelOwn(i) + (IF i \in ReplacedInstrs THEN 0 ELSE Rise(body[i]))
           /\ Opener(i) = IF i = 1 /\ Depth = 1 THEN <<Block>> ELSE <<>>
           /\ Closer(i) = IF IsLast(i) /\ Depth = 1 THEN <<End>> ELSE <<>>
           /\ LevelOwn(i) = LevelStart(i) + (IF i = 1 THEN Depth ELSE 0) - (IF IsLast(i) THEN Depth ELSE 0)
<1>1. DOMAIN body = 1 .. Len(body) /\ Len(body) \in Nat /\ Len(body) \in DOMAIN body /\ i \in Nat
  BY BodyFacts
<1>2. Depth \in {0, 1} /\ (Depth = 1 <=> asked.func["exit"] # <<>>)
  BY DEF Depth
<1>3. KeptLevel(i) \in Int /\ KeptLevel(i) > 0
  BY KeptAt
<1>4. KeptLevel(1) = 1 /\ KeptLevel(Len(body)) = 1 /\ Len(body) \notin ReplacedInstrs /\ body[Len(body)].op = "end"
  BY KeptEnds
<1>5. ~IsLast(i) => /\ i + 1 \in DOMAIN body /\ i + 1 # 1
                    /\ KeptLevel(i + 1) \in Int /\ KeptLevel(i + 1) > 0
                    /\ KeptLevel(i + 1) = KeptLevel(i) + (IF i \in ReplacedInstrs THEN 0 ELSE Rise(body[i]))
  <2> SUFFICES ASSUME i # Len(body)
               PROVE  /\ i + 1 \in DOMAIN body /\ i + 1 # 1
                      /\ KeptLevel(i + 1) \in Int /\ KeptLevel(i + 1) > 0
                      /\ KeptLevel(i + 1) = KeptLevel(i) + (IF i \in ReplacedInstrs THEN 0 ELSE Rise(body[i]))
    BY DEF IsLast
  <2>1. i + 1 \in DOMAIN body /\ i < Len(body) /\ i + 1 # 1
    BY <1>1
  <2> QED
    BY <2>1, KeptAt, KeptSteps
<1>6. Rise(body[i]) \in Int /\ (IsLast(i) => i \notin ReplacedInstrs /\ Rise(body[i]) = -1 /\ KeptLevel(i) = 1)
  BY <1>4, Rises DEF IsLast
<1>7. /\ Opener(i) = IF i = 1 /\ Depth = 1 THEN <<Block>> ELSE <<>>
      /\ Closer(i) = IF IsLast(i) /\ Depth = 1 THEN <<End>> ELSE <<>>
  BY <1>2 DEF Opener, Closer, WrapperBlock
<1>8. LevelAfter(i) = LevelOwn(i) + (IF i \in ReplacedInstrs THEN 0 ELSE Rise(body[i]))
  BY <1>2, <1>3, <1>5, <1>6 DEF LevelAfter, LevelOwn
<1>9. LevelOwn(i) = LevelStart(i) + (IF i = 1 THEN Depth ELSE 0) - (IF IsLast(i) THEN Depth ELSE 0)
  BY <1>2, <1>3, <1>4, <1>6 DEF LevelStart, LevelOwn
<1>10. /\ LevelStart(i) \in Int /\ LevelOwn(i) \in Int /\ LevelAfter(i) \in Int
       /\ LevelStart(i) > 0 /\ LevelOwn(i) > 0
       /\ ~IsLast(i) => LevelAfter(i) > 0 /\ i + 1 \in DOMAIN body /\ LevelAfter(i) = LevelStart(i + 1)
  BY <1>2, <1>3, <1>5 DEF LevelStart, LevelOwn, LevelAfter
<1> QED
  BY <1>2, <1>7, <1>8, <1>9, <1>10

\* The levels in the code before the instruction.
LEMMA BeforeLevels ==
    ASSUME Shape, ListsCoded, Settled, NEW c \in Seq(Outs), NEW s \in [1 .. Len(body) + 1 -> Nat], Pieces(c, s),
           NEW i \in DOMAIN body, Level(c, s[i] + 1) = LevelStart(i)
    PROVE  /\ Level(c, OwnPlace(s, i)) = LevelOwn(i)
           /\ \A k \in 1 .. Len(Before(i)) + 1 :
                Level(c, s[i] + k) >= LevelStart(i) \/ Level(c, s[i] + k) >= LevelOwn(i)
           /\ \A k \in 1 .. Len(Before(i)) : c[s[i] + k].op # "else"
           /\ i = 1 /\ Depth = 1 /\ ~IsLast(i) => \E w : WrapperAt(c, s, w)
<1> DEFINE bf == Before(i)
           n == Len(bf)
           a == s[i]
           l == LevelStart(i)
           own == LevelOwn(i)
<1>1. /\ bf \in Codes /\ a \in Nat /\ n \in Nat /\ Stands(c, a, bf) /\ Injects(c, a, bf)
  BY PieceStands
<1>2. OwnPlace(s, i) = a + n + 1
  BY DEF OwnPlace
<1>3. /\ Depth \in {0, 1} /\ l \in Int /\ own \in Int
      /\ Opener(i) = IF i = 1 /\ Depth = 1 THEN <<Block>> ELSE <<>>
      /\ Closer(i) = IF IsLast(i) /\ Depth = 1 THEN <<End>> ELSE <<>>
      /\ own = l + (IF i = 1 THEN Depth ELSE 0) - (IF IsLast(i) THEN Depth ELSE 0)
  BY LevelsAt
<1>4. Wrapped(Opener(i), Closer(i), bf)
  BY DEF Settled
<1>5. <<Block>> # <<>> /\ <<End>> # <<>>
  OBVIOUS
<1> HIDE DEF bf
<1>6. /\ \A k \in 1 .. n + 1 : Level(c, a + k) = l + Level(bf, k) - 1
      /\ \A k \in 1 .. n + 1 : Level(bf, k) \in Int
  <2>1. \A k \in 1 .. n + 1 : Level(c, a + k) = Level(c, a + 1) + Level(bf, k) - 1
    BY <1>1, StandingLevels DEF Codes
  <2>2. \A k \in 1 .. n + 1 : Level(bf, k) \in Int
    BY <1>1, AnyLevelSteps DEF Codes
  <2> HIDE DEF n, a, l
  <2> QED
    BY <2>1, <2>2 DEF l, a
<1>7. \A k \in 1 .. n : c[a + k].op = bf[k].op /\ c[a + k].src = 0
  BY <1>1 DEF Injects
<1> DEFINE m == IF i = 1 THEN IF IsLast(i) THEN 1 ELSE 1 + Depth
                ELSE IF IsLast(i) THEN 1 - Depth ELSE 1
           low == IF i # 1 /\ IsLast(i) THEN 1 - Depth ELSE 1
           wrapped == i = 1 /\ Depth = 1 /\ ~IsLast(i)
<1>8. \E w \in Nat : Runs(bf, m, low, w) /\ (wrapped => w # 0)
  <2> DEFINE o == Opener(i)
             e == Closer(i)
  <2>1. o \in {<<>>, <<Block>>} /\ e \in {<<>>, <<End>>}
    BY <1>3
  <2>2. /\ o = <<>> /\ e = <<>> => Runs(bf, 1, 1, 0)
        /\ o # <<>> /\ e = <<>> => \E w \in Nat \ {0} : Runs(bf, 2, 1, w)
        /\ o = <<>> /\ e # <<>> => Runs(bf, 0, 0, 0)
        /\ o # <<>> /\ e # <<>> => Runs(bf, 1, 1, 0)
    BY <1>4, <2>1, WrappedRuns
  <2>3. /\ o # <<>> <=> i = 1 /\ Depth = 1
        /\ e # <<>> <=> IsLast(i) /\ Depth = 1
    BY <1>3, <1>5
  <2> HIDE DEF o, e
  <2>4. CASE o = <<>> /\ e = <<>>
    <3>1. m = 1 /\ low = 1 /\ ~wrapped
      BY <1>3, <2>3, <2>4
    <3> HIDE DEF m, low, wrapped
    <3> QED
      BY <2>2, <2>4, <3>1
  <2>5. CASE o # <<>> /\ e = <<>>
    <3>1. m = 2 /\ low = 1
      BY <1>3, <2>3, <2>5
    <3> HIDE DEF m, low, wrapped
    <3> QED
      BY <2>2, <2>5, <3>1
  <2>6. CASE o = <<>> /\ e # <<>>
    <3>1. m = 0 /\ low = 0 /\ ~wrapped
      BY <1>3, <2>3, <2>6
    <3> HIDE DEF m, low, wrapped
    <3> QED
      BY <2>2, <2>6, <3>1
  <2>7. CASE o # <<>> /\ e # <<>>
    <3>1. m = 1 /\ low = 1 /\ ~wrapped
      BY <1>3, <2>3, <2>7
    <3> HIDE DEF m, low, wrapped
    <3> QED
      BY <2>2, <2>7, <3>1
  <2> QED
    BY <2>4, <2>5, <2>6, <2>7
<1>9. /\ m \in Int /\ low \in Int /\ own = l + m - 1 /\ (low = 1 \/ l + low - 1 = own)
  BY <1>3
<1> HIDE DEF m, low
<1>10. PICK w \in Nat : Runs(bf, m, low, w) /\ (wrapped => w # 0)
  BY <1>8
<1>11. /\ Level(bf, n + 1) = m
       /\ \A k \in 1 .. n + 1 : Level(bf, k) >= low
       /\ \A k \in 1 .. n : bf[k].op # "else"
       /\ w # 0 => /\ w \in 1 .. n /\ bf[w].op = "block" /\ Level(bf, w) = 1
                   /\ \A k \in w + 1 .. n + 1 : Level(bf, k) > 1
  BY <1>10 DEF Runs
<1> HIDE DEF n, a, l, own
<1>12. Level(c, a + n + 1) = own
  <2>1. n + 1 \in 1 .. n + 1 /\ a + (n + 1) = a + n + 1
    BY <1>1
  <2>2. Level(c, a + (n + 1)) = l + Level(bf, n + 1) - 1
    BY <1>6, <2>1
  <2> QED
    BY <1>9, <1>11, <2>1, <2>2
<1>13. \A k \in 1 .. n + 1 : Level(c, a + k) >= l \/ Level(c, a + k) >= own
  <2> TAKE k \in 1 .. n + 1
  <2>1. Level(c, a + k) = l + Level(bf, k) - 1 /\ Level(bf, k) >= low /\ Level(bf, k) \in Int
    BY <1>6, <1>11
  <2> QED
    BY <1>3, <1>9, <2>1
<1>14. \A k \in 1 .. n : c[a + k].op # "else"
  BY <1>7, <1>11
<1>15. ASSUME wrapped PROVE WrapperAt(c, s, w)
  <2>1. a = 0 /\ l = 1
    BY <1>15 DEF Pieces, LevelStart, a, l
  <2>2. /\ w \in 1 .. n /\ bf[w].op = "block" /\ Level(bf, w) = 1
        /\ \A k \in w + 1 .. n + 1 : Level(bf, k) > 1
    BY <1>10, <1>11, <1>15
  <2>3. \A k \in 1 .. n + 1 : Level(c, k) = Level(bf, k)
    <3> TAKE k \in 1 .. n + 1
    <3>1. a + k = k /\ Level(c, a + k) = l + Level(bf, k) - 1 /\ Level(bf, k) \in Int
      BY <1>1, <1>6, <2>1
    <3> QED
      BY <2>1, <3>1
  <2>4. \A k \in w + 1 .. n + 1 : Level(c, k) > 1
    <3>1. \A k \in w + 1 .. n + 1 : k \in 1 .. n + 1
      BY <1>10
    <3> QED
      BY <2>2, <2>3, <3>1
  <2>5. a + w = w /\ w \in 1 .. n + 1
    BY <1>1, <1>10, <2>1, <2>2
  <2>6. c[w].op = "block" /\ c[w].src = 0 /\ Level(c, w) = 1
    BY <1>7, <2>2, <2>3, <2>5
  <2>7. n = Len(Before(1))
    BY <1>15 DEF n, bf
  <2> QED
    BY <2>2, <2>4, <2>6, <2>7 DEF WrapperAt
<1>16. i = 1 /\ Depth = 1 /\ ~IsLast(i) => \E v : WrapperAt(c, s, v)
  BY <1>15
<1> QED
  BY <1>2, <1>12, <1>13, <1>14, <1>16 DEF bf, n, a, l, own

LEMMA PieceLevels ==
    ASSUME Shape, ListsCoded, Settled, NEW c \in Seq(Outs), NEW s \in [1 .. Len(body) + 1 -> Nat], Pieces(c, s),
           NEW i \in DOMAIN body, Level(c, s[i] + 1) = LevelStart(i)
    PROVE  Leveled(c, s, i)
<1> DEFINE t == Rest(i)
           k == Len(t)
           r == RestPlace(s, i)
           z == s[i + 1]
           own == LevelOwn(i)
           after == LevelAfter(i)
           b == s[i] + Len(Before(i))
<1>1. /\ t \in Codes /\ k \in Nat /\ z = r + k /\ Stands(c, r, t) /\ b \in Nat
      /\ r = b + OwnAt(i) /\ OwnAt(i) \in {0, 1} /\ (OwnAt(i) = 1 <=> Stays(i))
      /\ Stays(i) => b + 1 \in DOMAIN c /\ c[b + 1].op = body[i].op
  <2>1. OwnPlace(s, i) = b + 1 /\ r = b + OwnAt(i)
    BY DEF OwnPlace, RestPlace
  <2>2. /\ t \in Codes /\ OwnAt(i) \in {0, 1} /\ (OwnAt(i) = 1 <=> Stays(i))
        /\ s[i] \in Nat /\ Len(Before(i)) \in Nat /\ k \in Nat /\ z = b + OwnAt(i) + k
    BY PieceStands
  <2>3. Stands(c, r, t)
    BY PieceStands
  <2>4. Stays(i) => OwnPlace(s, i) \in DOMAIN c /\ IsOwn(c, OwnPlace(s, i), i)
    BY PieceStands
  <2>5. b \in Nat
    BY <2>2
  <2> HIDE DEF b, r, k, z, t
  <2> QED
    BY <2>1, <2>2, <2>3, <2>4, <2>5 DEF IsOwn
<1>2. /\ Level(c, b + 1) = own
      /\ \A q \in 1 .. Len(Before(i)) + 1 :
            Level(c, s[i] + q) >= LevelStart(i) \/ Level(c, s[i] + q) >= own
      /\ \A q \in 1 .. Len(Before(i)) : c[s[i] + q].op # "else"
      /\ i = 1 /\ Depth = 1 /\ ~IsLast(i) => \E w : WrapperAt(c, s, w)
  BY BeforeLevels DEF OwnPlace
<1>3. /\ own \in Int /\ after \in Int
      /\ after = own + (IF i \in ReplacedInstrs THEN 0 ELSE Rise(body[i]))
  BY LevelsAt
<1> HIDE DEF own, after, r, z, b, t
<1>4. Level(c, r + 1) = after
  <2>1. CASE Stays(i)
    <3>1. i \notin ReplacedInstrs
      BY <2>1 DEF Settled
    <3>2. Rise(c[b + 1]) = Rise(body[i])
      BY <1>1, <2>1 DEF Rise, Opens
    <3>3. Level(c, b + 1 + 1) = Level(c, b + 1) + Rise(c[b + 1]) /\ r = b + 1
      BY <1>1, <2>1, AnyLevelSteps
    <3> QED
      BY <1>2, <1>3, <3>1, <3>2, <3>3
  <2>2. CASE ~Stays(i)
    <3>1. r = b
      BY <1>1, <2>2
    <3>2. i \notin ReplacedInstrs => Rise(body[i]) = 0
      <4>1. i \notin ReplacedInstrs => body[i].op \notin Structural
        BY <2>2 DEF Settled
      <4>2. body[i].op \notin Structural => body[i].op \notin Opening \cup {"if_flag", "end"}
        <5>1. body[i].op \in Structural \cup Branching \cup Leaving \cup {"nop", "call"}
          <6>1. body[i] \in Instrs
            BY BodyFacts, ElementsOf
          <6> QED
            BY <6>1 DEF Instrs
        <5> QED
          BY <5>1 DEF Structural, BlockStyle, Branching, Leaving
      <4> QED
        BY <4>1, <4>2, Rises
    <3> QED
      BY <1>2, <1>3, <3>1, <3>2
  <2> QED
    BY <2>1, <2>2
<1>5. \A q \in 1 .. k + 1 : Level(c, r + q) = after + Level(t, q) - 1
  <2>1. \A q \in 1 .. k + 1 : Level(c, r + q) = Level(c, r + 1) + Level(t, q) - 1
    BY <1>1, StandingLevels DEF Codes
  <2> QED
    BY <1>4, <2>1
<1>6. Level(c, z + 1) = after
  <2>1. Level(t, k + 1) = 1
    BY DEF Settled, Nested, t
  <2>2. k + 1 \in 1 .. k + 1 /\ r + (k + 1) = z + 1
    <3>1. r \in Nat
      BY <1>1
    <3> HIDE DEF k
    <3> QED
      BY <1>1, <3>1
  <2>3. Level(c, r + (k + 1)) = after + Level(t, k + 1) - 1
    BY <1>5, <2>2
  <2> QED
    BY <1>3, <2>1, <2>2, <2>3
<1>7. Level(c, OwnPlace(s, i)) = own
  BY <1>2 DEF OwnPlace, b
<1> QED
  BY <1>2, <1>5, <1>6, <1>7 DEF Leveled, own, after, r, z, t

\* From piece to piece, the written code keeps the levels of what is kept of the body.
LEMMA WrittenLevels ==
    ASSUME Shape, ListsCoded, Settled, NEW c \in Seq(Outs), NEW s \in [1 .. Len(body) + 1 -> Nat], Pieces(c, s)
    PROVE  \A i \in DOMAIN body : Leveled(c, s, i) /\ Level(c, s[i] + 1) = LevelStart(i)
<1> DEFINE good(i) == Level(c, s[i] + 1) = LevelStart(i)
           bad == {i \in DOMAIN body : ~good(i)}
<1>1. DOMAIN body = 1 .. Len(body) /\ Len(body) \in Nat
  BY BodyFacts
<1>2. SUFFICES ASSUME bad # {} PROVE FALSE
  BY PieceLevels
<1>3. PICK k \in bad : \A j \in bad : k <= j
  <2>1. bad \in SUBSET Nat
    BY <1>1
  <2> HIDE DEF bad
  <2> QED
    BY <1>2, <2>1, LeastElement
<1>4. k \in DOMAIN body /\ ~good(k) /\ k \in Nat
  BY <1>1
<1>5. k # 1
  <2>1. s[1] = 0 /\ 0 + 1 = 1
    BY DEF Pieces
  <2>2. Level(c, 1) = 1
    BY AnyLevelSteps
  <2>3. good(1)
    BY <2>1, <2>2 DEF LevelStart
  <2> QED
    BY <1>4, <2>3
<1> DEFINE e == k - 1
<1>6. e \in DOMAIN body /\ ~(k <= e) /\ e + 1 = k /\ e # Len(body)
  BY <1>1, <1>4, <1>5
<1>7. e \notin bad
  <2> HIDE DEF bad, e
  <2> QED
    BY <1>3, <1>6
<1>8. good(e)
  BY <1>6, <1>7
<1> HIDE DEF e, bad
<1>9. Level(c, s[e + 1] + 1) = LevelAfter(e)
  BY <1>6, <1>8, PieceLevels DEF Leveled
<1>10. LevelAfter(e) = LevelStart(k)
  BY <1>6, LevelsAt DEF IsLast
<1> QED
  BY <1>4, <1>6, <1>9, <1>10

(***************************************************************************)
(* Where the places of the written code are, and their levels.             *)
(***************************************************************************)
\* c is what is written, with its pieces after s.
WrittenAs(c, s) ==
    /\ c \in Seq(Outs) /\ s \in [1 .. Len(body) + 1 -> Nat] /\ Pieces(c, s)
    /\ \A i \in DOMAIN body : Leveled(c, s, i) /\ Level(c, s[i] + 1) = LevelStart(i)
\* A place is in the piece of i: in front, up to i itself, or in the rest.
InPiece(s, q, i) == s[i] < q /\ q <= s[i + 1]
InFront(c, s, q, i) ==
    /\ q <= OwnPlace(s, i)
    /\ Level(c, q) >= LevelStart(i) \/ Level(c, q) >= LevelOwn(i)
    /\ \/ c[q].src = 0 /\ c[q].op \notin Labelled \cup {"else"}
       \/ q = OwnPlace(s, i) /\ Stays(i) /\ IsOwn(c, q, i)
InRest(c, s, q, i) ==
    /\ ~IsLast(i)
    /\ Stays(i) => q > OwnPlace(s, i)
    /\ c[q].src = 0 /\ c[q].op \notin Labelled
    /\ Level(c, q) >= LevelAfter(i)
    /\ c[q].op = "else" => ElseFits(c, q) /\ Level(c, q) > LevelAfter(i)

LEMMA CodeOps ==
    ASSUME NEW t \in Codes
    PROVE  \A k \in 1 .. Len(t) : t[k].op \in InjectedOps
<1>1. \A k \in 1 .. Len(t) : t[k] \in Injected
  BY ElementsOf DEF Codes
<1> QED
  BY <1>1 DEF Injected

LEMMA PlaceKinds ==
    ASSUME Shape, ListsCoded, Settled, NEW c, NEW s, WrittenAs(c, s),
           NEW i \in DOMAIN body, NEW q \in DOMAIN c, InPiece(s, q, i)
    PROVE  InFront(c, s, q, i) \/ InRest(c, s, q, i)
<1> DEFINE bf == Before(i)
           t == Rest(i)
           bn == Len(bf)
           rn == Len(t)
           a == s[i]
           r == RestPlace(s, i)
           o == OwnPlace(s, i)
           x == OwnAt(i)
           after == LevelAfter(i)
<1>1. c \in Seq(Outs) /\ s \in [1 .. Len(body) + 1 -> Nat] /\ Pieces(c, s) /\ Leveled(c, s, i)
  BY DEF WrittenAs
<1>2. /\ bf \in Codes /\ t \in Codes /\ x \in {0, 1} /\ (x = 1 <=> Stays(i))
      /\ a \in Nat /\ bn \in Nat /\ rn \in Nat /\ s[i + 1] = a + bn + x + rn
  BY <1>1, PieceStands
<1>3. Injects(c, a, bf)
  BY <1>1, PieceStands
<1>4. Stands(c, r, t)
  BY <1>1, PieceStands
<1>5. Injects(c, r, t)
  BY <1>1, PieceStands
<1>6. Stays(i) => IsOwn(c, o, i)
  BY <1>1, PieceStands
<1>7. o = a + bn + 1 /\ r = a + bn + x
  BY DEF OwnPlace, RestPlace
<1>8. /\ Level(c, o) = LevelOwn(i)
      /\ \A k \in 1 .. bn + 1 : Level(c, a + k) >= LevelStart(i) \/ Level(c, a + k) >= LevelOwn(i)
      /\ \A k \in 1 .. bn : c[a + k].op # "else"
      /\ \A k \in 1 .. rn + 1 : Level(c, r + k) = after + Level(t, k) - 1
  BY <1>1 DEF Leveled
<1>9. Nested(t) /\ (IsLast(i) => t = <<>>)
  BY DEF Settled
<1>10. /\ LevelOwn(i) \in Int /\ after \in Int /\ LevelStart(i) \in Int
  BY LevelsAt
<1>11. a < q /\ q <= a + bn + x + rn
  BY <1>2 DEF InPiece
<1>12. DOMAIN c = 1 .. Len(c) /\ Len(c) \in Nat /\ q \in Nat
  BY <1>1
<1>13. \A k \in 1 .. bn : c[a + k].op \in InjectedOps /\ c[a + k].src = 0
  <2>1. \A k \in 1 .. bn : bf[k].op \in InjectedOps
    BY <1>2, CodeOps
  <2> QED
    BY <1>3, <2>1 DEF Injects
<1>14. \A k \in 1 .. rn : c[r + k].op \in InjectedOps /\ c[r + k].src = 0 /\ c[r + k].op = t[k].op
  <2>1. \A k \in 1 .. rn : t[k].op \in InjectedOps
    BY <1>2, CodeOps
  <2> QED
    BY <1>5, <2>1 DEF Injects
<1>15. InjectedOps \cap Labelled = {}
  BY DEF InjectedOps, Labelled, Branching
<1>16. /\ \A k \in 1 .. rn + 1 : Level(t, k) > 0 /\ Level(t, k) \in Int
       /\ \A k \in 1 .. rn : t[k].op = "else" => ElseFits(t, k)
  BY <1>2, <1>9, AnyLevelSteps DEF Nested, Codes
<1>17. IsLast(i) => rn = 0
  BY <1>9
<1> HIDE DEF bf, t, bn, a, r, o, x, after
<1>18. CASE q <= a + bn
  <2> DEFINE k == q - a
  <2>1. k \in 1 .. bn /\ k \in 1 .. bn + 1 /\ a + k = q
    BY <1>2, <1>11, <1>12, <1>18
  <2> HIDE DEF k
  <2>2. q <= o
    BY <1>2, <1>7, <1>12, <1>18
  <2>3. Level(c, q) >= LevelStart(i) \/ Level(c, q) >= LevelOwn(i)
    BY <1>8, <2>1
  <2>4. c[q].src = 0 /\ c[q].op \notin Labelled \cup {"else"}
    BY <1>8, <1>13, <1>15, <2>1
  <2> QED
    BY <2>2, <2>3, <2>4 DEF InFront, o
<1>19. CASE q > a + bn /\ x = 1 /\ q = o
  <2>1. Stays(i) /\ IsOwn(c, q, i) /\ q <= o
    BY <1>2, <1>6, <1>12, <1>19
  <2>2. Level(c, q) >= LevelOwn(i)
    BY <1>8, <1>10, <1>19
  <2> QED
    BY <1>19, <2>1, <2>2 DEF InFront, o
<1>20. CASE q > a + bn /\ ~(x = 1 /\ q = o)
  <2> DEFINE k == q - r
  <2>1. k \in 1 .. rn /\ k \in 1 .. rn + 1 /\ r + k = q /\ rn # 0 /\ (x = 1 => q > o)
    BY <1>2, <1>7, <1>11, <1>12, <1>20
  <2> HIDE DEF k, rn
  <2>2. ~IsLast(i) /\ (Stays(i) => q > o)
    BY <1>2, <1>17, <2>1
  <2>3. c[q].src = 0 /\ c[q].op \notin Labelled
    BY <1>14, <1>15, <2>1
  <2>4. Level(c, q) = after + Level(t, k) - 1 /\ Level(t, k) > 0 /\ Level(t, k) \in Int
    BY <1>8, <1>16, <2>1
  <2>5. Level(c, q) >= after
    BY <1>10, <2>4
  <2>6. ASSUME c[q].op = "else" PROVE ElseFits(c, q) /\ Level(c, q) > after
    <3>1. t[k].op = "else"
      BY <1>14, <2>1, <2>6
    <3>2. ElseFits(t, k)
      BY <1>16, <2>1, <3>1
    <3>3. k \in 1 .. Len(t) /\ \A j \in 1 .. Len(t) : Level(t, j) > 0
      BY <1>2, <1>16, <2>1 DEF rn
    <3>4. ElseFits(c, r + k) /\ Level(t, k) > 1
      BY <1>1, <1>2, <1>4, <3>2, <3>3, StandingElse DEF Codes
    <3> QED
      BY <1>10, <2>1, <2>4, <3>4
  <2> QED
    BY <2>2, <2>3, <2>5, <2>6 DEF InRest, after, o
<1> QED
  BY <1>2, <1>12, <1>18, <1>19, <1>20

LEMMA PlaceFound ==
    ASSUME Shape, ListsCoded, Settled, NEW c, NEW s, WrittenAs(c, s), NEW q \in DOMAIN c
    PROVE  \E i \in DOMAIN body : InPiece(s, q, i) /\ (InFront(c, s, q, i) \/ InRest(c, s, q, i))
<1>1. \E i \in DOMAIN body : InPiece(s, q, i)
  BY DEF WrittenAs, Pieces, InPiece
<1> QED
  BY <1>1, PlaceKinds

\* No place is outside the function, but the one after the end.
LEMMA WrittenInside ==
    ASSUME Shape, ListsCoded, Settled, NEW c, NEW s, WrittenAs(c, s)
    PROVE  /\ \A q \in DOMAIN c : Level(c, q) > 0
           /\ Level(c, Len(c) + 1) = 0
<1>1. \A i \in DOMAIN body : /\ LevelStart(i) \in Int /\ LevelOwn(i) \in Int /\ LevelAfter(i) \in Int
                             /\ LevelStart(i) > 0 /\ LevelOwn(i) > 0
                             /\ ~IsLast(i) => LevelAfter(i) > 0
  BY LevelsAt
<1>2. \A q \in DOMAIN c : Level(c, q) \in Int
  <2>1. c \in Seq(Outs)
    BY DEF WrittenAs
  <2>2. \A q \in DOMAIN c : q \in 1 .. Len(c) + 1
    BY <2>1
  <2> QED
    BY <2>1, <2>2, AnyLevelSteps
<1>3. ASSUME NEW q \in DOMAIN c PROVE Level(c, q) > 0
  <2>1. PICK i \in DOMAIN body : InFront(c, s, q, i) \/ InRest(c, s, q, i)
    BY PlaceFound
  <2>2. \/ Level(c, q) >= LevelStart(i) \/ Level(c, q) >= LevelOwn(i)
        \/ Level(c, q) >= LevelAfter(i) /\ ~IsLast(i)
    BY <2>1 DEF InFront, InRest
  <2> QED
    BY <1>1, <1>2, <2>2
<1>4. Level(c, Len(c) + 1) = 0
  <2>1. Len(body) \in DOMAIN body
    BY BodyFacts
  <2>2. s[Len(body) + 1] = Len(c) /\ Level(c, s[Len(body) + 1] + 1) = LevelAfter(Len(body))
    BY <2>1 DEF WrittenAs, Pieces, Leveled
  <2> QED
    BY <2>2 DEF LevelAfter, IsLast
<1> QED
  BY <1>3, <1>4

\* The function's own instructions.
LEMMA OwnIsThere ==
    ASSUME Shape, ListsCoded, NEW c, NEW s, WrittenAs(c, s), NEW i \in DOMAIN body, Stays(i)
    PROVE  /\ OwnPlace(s, i) \in DOMAIN c /\ IsOwn(c, OwnPlace(s, i), i) /\ InPiece(s, OwnPlace(s, i), i)
           /\ Level(c, OwnPlace(s, i)) = LevelOwn(i)
<1> DEFINE bn == Len(Before(i))
           rn == Len(Rest(i))
           x == OwnAt(i)
<1>1. c \in Seq(Outs) /\ s \in [1 .. Len(body) + 1 -> Nat] /\ Pieces(c, s) /\ Leveled(c, s, i)
  BY DEF WrittenAs
<1>2. OwnPlace(s, i) \in DOMAIN c /\ IsOwn(c, OwnPlace(s, i), i)
  BY <1>1, PieceStands
<1>3. /\ x = 1 /\ s[i] \in Nat /\ bn \in Nat /\ rn \in Nat /\ s[i + 1] = s[i] + bn + x + rn
  BY <1>1, PieceStands
<1>4. InPiece(s, s[i] + bn + 1, i)
  <2> HIDE DEF bn, rn, x
  <2> QED
    BY <1>3 DEF InPiece
<1> QED
  BY <1>1, <1>2, <1>4 DEF OwnPlace, Leveled

LEMMA OwnIsOwn ==
    ASSUME Shape, ListsCoded, Settled, NEW c, NEW s, WrittenAs(c, s), NEW p \in DOMAIN c, c[p].src # 0
    PROVE  /\ c[p].src \in DOMAIN body /\ Stays(c[p].src) /\ p = OwnPlace(s, c[p].src)
           /\ IsOwn(c, p, c[p].src)
<1>1. PICK i \in DOMAIN body : InFront(c, s, p, i) \/ InRest(c, s, p, i)
  BY PlaceFound
<1>2. p = OwnPlace(s, i) /\ Stays(i) /\ IsOwn(c, p, i)
  BY <1>1 DEF InFront, InRest
<1> QED
  BY <1>2 DEF IsOwn

\* The pieces lie in the order of the instructions.
LEMMA PiecesRise ==
    ASSUME Shape, ListsCoded, NEW c, NEW s, WrittenAs(c, s),
           NEW j \in 1 .. Len(body) + 1, NEW k \in 1 .. Len(body) + 1, j <= k
    PROVE  s[j] <= s[k]
<1> DEFINE n == Len(body)
           bad == {m \in j .. n + 1 : ~(s[j] <= s[m])}
<1>1. n \in Nat /\ DOMAIN body = 1 .. n /\ j \in Nat /\ k \in j .. n + 1
  BY BodyFacts
<1>2. c \in Seq(Outs) /\ s \in [1 .. n + 1 -> Nat] /\ Pieces(c, s)
  BY DEF WrittenAs
<1>3. \A i \in 1 .. n : s[i] \in Nat /\ s[i + 1] \in Nat /\ s[i] <= s[i + 1]
  <2> TAKE i \in 1 .. n
  <2> DEFINE b == Len(Before(i))
             r == Len(Rest(i))
             o == OwnAt(i)
             u == s[i]
             v == s[i + 1]
  <2>1. i \in DOMAIN body
    BY <1>1
  <2>2. u \in Nat /\ v \in Nat /\ b \in Nat /\ r \in Nat /\ o \in {0, 1} /\ v = u + b + o + r
    BY <1>2, <2>1, PieceStands
  <2> HIDE DEF b, r, o, u, v
  <2>3. u <= v
    BY <2>2
  <2> QED
    BY <2>2, <2>3 DEF u, v
<1>4. SUFFICES ASSUME bad # {} PROVE FALSE
  BY <1>1
<1>5. PICK m \in bad : \A q \in bad : m <= q
  <2>1. bad \in SUBSET Nat
    BY <1>1
  <2> HIDE DEF bad
  <2> QED
    BY <1>4, <2>1, LeastElement
<1>6. m \in j .. n + 1 /\ ~(s[j] <= s[m]) /\ m \in Nat
  BY <1>1
<1>7. s[j] \in Nat
  BY <1>2
<1>8. m # j
  BY <1>6, <1>7
<1> DEFINE e == m - 1
<1>9. e \in j .. n + 1 /\ e \in 1 .. n /\ ~(m <= e) /\ e + 1 = m
  BY <1>1, <1>6, <1>8
<1>10. e \notin bad
  <2> HIDE DEF bad, e
  <2> QED
    BY <1>5, <1>9
<1>11. s[j] <= s[e]
  BY <1>9, <1>10
<1> HIDE DEF e, bad
<1>12. s[e] \in Nat /\ s[m] \in Nat /\ s[e] <= s[m]
  BY <1>3, <1>9
<1> QED
  BY <1>6, <1>7, <1>11, <1>12

(***************************************************************************)
(* What an instruction's block is in the written code.                     *)
(***************************************************************************)
\* Of two places, the earlier one is not in a later piece.
LEMMA StartsInOrder ==
    ASSUME Shape, ListsCoded, NEW c, NEW s, WrittenAs(c, s), NEW i \in DOMAIN body, NEW j \in DOMAIN body,
           NEW p \in Nat, NEW q \in Nat, InPiece(s, p, i), InPiece(s, q, j), p < q
    PROVE  i <= j
<1>1. DOMAIN body = 1 .. Len(body) /\ Len(body) \in Nat /\ i \in Nat /\ j \in Nat
  BY BodyFacts
<1>2. c \in Seq(Outs) /\ s \in [1 .. Len(body) + 1 -> Nat]
  BY DEF WrittenAs
<1>3. SUFFICES ASSUME ~(i <= j) PROVE FALSE
  OBVIOUS
<1>4. j + 1 \in 1 .. Len(body) + 1 /\ i \in 1 .. Len(body) + 1 /\ j + 1 <= i
  BY <1>1, <1>3
<1>5. s[j + 1] <= s[i]
  BY <1>4, PiecesRise
<1>6. s[j + 1] \in Nat /\ s[i] \in Nat
  BY <1>2, <1>4
<1> QED
  BY <1>5, <1>6 DEF InPiece

\* Whatever stands between an opener and an instruction of its block.
Between(c, s, x, i, q) ==
    \/ \E j \in x + 1 .. i : InFront(c, s, q, j) /\ InPiece(s, q, j)
    \/ \E j \in x .. i - 1 : InRest(c, s, q, j)

\* From the opener of a block to an instruction inside there is nothing else.
LEMMA BetweenThem ==
    ASSUME Shape, ListsCoded, Settled, NEW c, NEW s, WrittenAs(c, s),
           NEW i \in DOMAIN body, NEW x \in 1 .. i - 1, Stays(i), Stays(x),
           NEW q \in OwnPlace(s, x) + 1 .. OwnPlace(s, i)
    PROVE  q \in DOMAIN c /\ Between(c, s, x, i, q)
<1>1. DOMAIN body = 1 .. Len(body) /\ Len(body) \in Nat /\ i \in Nat /\ x \in DOMAIN body /\ x \in Nat /\ x < i
  BY BodyFacts
<1> DEFINE a == OwnPlace(s, x)
           b == OwnPlace(s, i)
<1>2. c \in Seq(Outs)
  BY DEF WrittenAs
<1>3. /\ a \in DOMAIN c /\ InPiece(s, a, x)
      /\ b \in DOMAIN c /\ InPiece(s, b, i)
  BY <1>1, OwnIsThere
<1>4. q \in DOMAIN c /\ q \in Nat /\ a \in Nat /\ b \in Nat /\ a < q /\ q <= b
  BY <1>2, <1>3
<1>5. PICK j \in DOMAIN body : InPiece(s, q, j) /\ (InFront(c, s, q, j) \/ InRest(c, s, q, j))
  BY <1>4, PlaceFound
<1>6. j \in Nat
  BY <1>1
<1> HIDE DEF a, b
<1>7. x <= j
  BY <1>1, <1>3, <1>4, <1>5, StartsInOrder
<1>8. j <= i
  <2>1. CASE q < b
    BY <1>3, <1>4, <1>5, <2>1, StartsInOrder
  <2>2. CASE q = b
    <3>1. CASE j = i
      BY <1>6, <3>1
    <3>2. CASE j # i
      <4>1. SUFFICES ASSUME i < j PROVE FALSE
        BY <1>1, <1>6, <3>2
      <4>2. i + 1 \in 1 .. Len(body) + 1 /\ j \in 1 .. Len(body) + 1 /\ i + 1 <= j
        BY <1>1, <1>6, <4>1
      <4>3. s[i + 1] <= s[j]
        BY <4>2, PiecesRise
      <4>4. s[i + 1] \in Nat /\ s[j] \in Nat
        BY <4>2 DEF WrittenAs
      <4> QED
        BY <1>3, <1>4, <1>5, <2>2, <4>3, <4>4 DEF InPiece
    <3> QED
      BY <3>1, <3>2
  <2> QED
    BY <1>4, <2>1, <2>2
<1>9. CASE InFront(c, s, q, j)
  <2>1. q <= OwnPlace(s, j)
    BY <1>9 DEF InFront
  <2>2. j # x
    BY <1>4, <2>1 DEF a
  <2>3. j \in x + 1 .. i
    BY <1>1, <1>6, <1>7, <1>8, <2>2
  <2> QED
    BY <1>4, <1>5, <1>9, <2>3 DEF Between
<1>10. CASE InRest(c, s, q, j)
  <2>1. j # i
    <3>1. ASSUME j = i PROVE FALSE
      <4>1. q > b
        BY <1>10, <3>1 DEF InRest, b
      <4> QED
        BY <1>4, <4>1
    <3> QED
      BY <3>1
  <2>2. j \in x .. i - 1
    BY <1>1, <1>6, <1>7, <1>8, <2>1
  <2> QED
    BY <1>4, <1>10, <2>2 DEF Between
<1> QED
  BY <1>5, <1>9, <1>10

\* All of it is at a higher level than the opener.
LEMMA InnerLevels ==
    ASSUME Shape, NEW i \in DOMAIN body, ~IsLast(i), i \notin ReplacedInstrs, NEW x, Within(x, i)
    PROVE  /\ x \in DOMAIN body /\ x \in 1 .. i - 1 /\ x \notin ReplacedInstrs
           /\ LevelOwn(x) = Level(body, x) + Depth /\ LevelOwn(x) \in Int
           /\ \A j \in x + 1 .. i : /\ j \in DOMAIN body
                                    /\ LevelStart(j) = KeptLevel(j) + Depth /\ LevelOwn(j) = KeptLevel(j) + Depth
                                    /\ LevelStart(j) \in Int /\ LevelStart(j) > LevelOwn(x)
           /\ \A j \in x .. i - 1 : LevelAfter(j) \in Int /\ LevelAfter(j) > LevelOwn(x)
<1> DEFINE n == Len(body)
<1>1. /\ DOMAIN body = 1 .. n /\ n \in Nat /\ i \in Nat /\ i < n
  BY BodyFacts DEF IsLast
<1>2. x \in 1 .. i - 1
  BY DEF Within
<1>3. /\ x \in DOMAIN body /\ x \notin ReplacedInstrs /\ KeptLevel(x) = Level(body, x)
      /\ \A j \in x + 1 .. i : KeptLevel(j) > KeptLevel(x)
  BY KeptWithin
<1>4. Depth \in {0, 1} /\ \A j \in DOMAIN body : KeptLevel(j) \in Int
  BY <1>3, LevelsAt, KeptAt
<1>5. LevelOwn(x) = KeptLevel(x) + Depth
  <2>1. x # n
    <3> HIDE DEF n
    <3> QED
      BY <1>1, <1>2
  <2> QED
    BY <2>1 DEF LevelOwn, IsLast
<1>6. ASSUME NEW j \in x + 1 .. i
      PROVE  /\ j \in DOMAIN body
             /\ LevelStart(j) = KeptLevel(j) + Depth /\ LevelOwn(j) = KeptLevel(j) + Depth
             /\ LevelStart(j) \in Int /\ LevelStart(j) > LevelOwn(x)
  <2>0. j \in 1 .. n /\ j # 1 /\ j # n
    <3> HIDE DEF n
    <3> QED
      BY <1>1, <1>2
  <2>1. j \in DOMAIN body /\ j # 1 /\ ~IsLast(j)
    BY <1>1, <2>0 DEF IsLast
  <2>2. LevelStart(j) = KeptLevel(j) + Depth /\ LevelOwn(j) = KeptLevel(j) + Depth
    BY <2>1 DEF LevelStart, LevelOwn
  <2>3. KeptLevel(j) > KeptLevel(x)
    BY <1>3
  <2> QED
    BY <1>3, <1>4, <1>5, <2>1, <2>2, <2>3
<1>7. ASSUME NEW j \in x .. i - 1 PROVE LevelAfter(j) \in Int /\ LevelAfter(j) > LevelOwn(x)
  <2>0. j \in 1 .. n /\ j # n /\ j + 1 \in x + 1 .. i /\ j + 1 \in 1 .. n
    <3> HIDE DEF n
    <3> QED
      BY <1>1, <1>2
  <2>1. j \in DOMAIN body /\ ~IsLast(j) /\ j + 1 \in x + 1 .. i /\ j + 1 \in DOMAIN body
    BY <1>1, <2>0 DEF IsLast
  <2>2. LevelAfter(j) = KeptLevel(j + 1) + Depth
    BY <2>1 DEF LevelAfter
  <2>3. KeptLevel(j + 1) > KeptLevel(x)
    BY <1>3, <2>1
  <2> QED
    BY <1>3, <1>4, <1>5, <2>1, <2>2, <2>3
<1> QED
  BY <1>2, <1>3, <1>4, <1>5, <1>6, <1>7

\* A label that meant an opener of the body means it still.
LEMMA LabelStays ==
    ASSUME Shape, ListsCoded, Settled, NEW c, NEW s, WrittenAs(c, s),
           NEW i \in DOMAIN body, Stays(i), ~IsLast(i), NEW d \in Nat, d < Level(body, i),
           Label(body, i, d) # 0
    PROVE  LET x == Label(body, i, d)
           IN  /\ Within(x, i) /\ Stays(x) /\ Level(body, x) + 1 = Level(body, i) - d
               /\ Label(c, OwnPlace(s, i), d) = OwnPlace(s, x)
<1> DEFINE x == Label(body, i, d)
           a == OwnPlace(s, x)
           p == OwnPlace(s, i)
<1>1. i \notin ReplacedInstrs
  BY DEF Settled
<1>2. Within(x, i) /\ Level(body, x) + 1 = Level(body, i) - d
  BY LabelWithin
<1> HIDE DEF x
<1>3. /\ x \in DOMAIN body /\ x \in 1 .. i - 1 /\ x \notin ReplacedInstrs
      /\ LevelOwn(x) = Level(body, x) + Depth /\ LevelOwn(x) \in Int
      /\ \A j \in x + 1 .. i : /\ j \in DOMAIN body
                               /\ LevelStart(j) = KeptLevel(j) + Depth /\ LevelOwn(j) = KeptLevel(j) + Depth
                               /\ LevelStart(j) \in Int /\ LevelStart(j) > LevelOwn(x)
      /\ \A j \in x .. i - 1 : LevelAfter(j) \in Int /\ LevelAfter(j) > LevelOwn(x)
  BY <1>1, <1>2, InnerLevels
<1>4. Stays(x) /\ body[x].op \in Opening
  <2>1. body[x].op \in Opening
    BY <1>2 DEF Within
  <2> QED
    BY <1>3, <2>1 DEF Settled, Structural, BlockStyle
<1>5. /\ a \in DOMAIN c /\ IsOwn(c, a, x) /\ InPiece(s, a, x) /\ Level(c, a) = LevelOwn(x)
      /\ p \in DOMAIN c /\ InPiece(s, p, i) /\ Level(c, p) = LevelOwn(i)
  BY <1>3, <1>4, OwnIsThere
<1>6. c \in Seq(Outs) /\ DOMAIN c = 1 .. Len(c) /\ Len(c) \in Nat
  BY DEF WrittenAs
<1>7. i \in Nat /\ x \in Nat /\ i \in x + 1 .. i
  <2>1. i \in Nat
    BY BodyFacts
  <2> QED
    BY <1>3, <2>1
<1>8. Level(c, p) = Level(body, i) + Depth
  BY <1>1, <1>3, <1>5, <1>7, KeptAt
<1>9. a < p /\ a \in Nat /\ p \in Nat
  <2> HIDE DEF a, p
  <2>1. a \in Nat /\ p \in Nat
    BY <1>5, <1>6
  <2>2. x + 1 \in 1 .. Len(body) + 1 /\ i \in 1 .. Len(body) + 1 /\ x + 1 <= i
    <3>1. DOMAIN body = 1 .. Len(body) /\ Len(body) \in Nat
      BY BodyFacts
    <3> QED
      BY <1>3, <1>7, <3>1
  <2>3. s[x + 1] <= s[i]
    BY <2>2, PiecesRise
  <2>4. s[x + 1] \in Nat /\ s[i] \in Nat
    BY <2>2 DEF WrittenAs
  <2> QED
    BY <1>5, <2>1, <2>3, <2>4 DEF InPiece
<1>10. \A q \in a + 1 .. p : q \in DOMAIN c /\ Between(c, s, x, i, q)
  BY <1>3, <1>4, BetweenThem
<1> HIDE DEF a, p
<1>11. ASSUME NEW q \in a + 1 .. p - 1 PROVE Level(c, q) > Level(c, a)
  <2>1. q \in DOMAIN c /\ Between(c, s, x, i, q)
    BY <1>9, <1>10
  <2>2. Level(c, q) \in Int
    <3>1. q \in 1 .. Len(c) + 1
      BY <1>6, <2>1
    <3> QED
      BY <1>6, <3>1, AnyLevelSteps
  <2>3. \/ \E j \in x + 1 .. i : Level(c, q) >= LevelStart(j) \/ Level(c, q) >= LevelOwn(j)
        \/ \E j \in x .. i - 1 : Level(c, q) >= LevelAfter(j)
    BY <2>1 DEF Between, InFront, InRest
  <2>4. \/ \E j \in x + 1 .. i : Level(c, q) >= LevelStart(j)
        \/ \E j \in x .. i - 1 : Level(c, q) >= LevelAfter(j)
    <3>1. \A j \in x + 1 .. i : LevelStart(j) = LevelOwn(j)
      BY <1>3
    <3> QED
      BY <2>3, <3>1
  <2> QED
    BY <1>3, <1>5, <2>2, <2>4
<1>12. Level(c, a) + 1 = Level(c, p) - d
  <2>1. Level(body, x) \in Int /\ Level(body, i) \in Int /\ Depth \in {0, 1}
    <3>1. body \in Seq(Instrs) /\ x \in 1 .. Len(body) + 1 /\ i \in 1 .. Len(body) + 1
      <4>1. DOMAIN body = 1 .. Len(body) /\ Len(body) \in Nat /\ body \in Seq(Instrs)
        BY BodyFacts
      <4> QED
        BY <1>3, <4>1
    <3> QED
      BY <3>1, LevelSteps, LevelsAt
  <2> QED
    BY <1>2, <1>3, <1>5, <1>8, <2>1
<1>13. Opens(c[a])
  BY <1>4, <1>5 DEF IsOwn, Opens
<1>14. Label(c, p, d) = a
  <2>1. p \in 1 .. Len(c) + 1 /\ a \in 1 .. p - 1
    BY <1>5, <1>6, <1>9
  <2> QED
    BY <1>6, <1>11, <1>12, <1>13, <2>1, LabelIs
<1> QED
  BY <1>2, <1>4, <1>14 DEF x, a, p

LEMMA StandsAfter ==
    ASSUME Shape, ListsCoded, NEW c, NEW s, WrittenAs(c, s), NEW i \in DOMAIN body, Stays(i)
    PROVE  s[1] = 0 /\ Len(Before(1)) \in Nat /\ OwnPlace(s, i) \in Nat /\ Len(Before(1)) < OwnPlace(s, i)
<1> DEFINE n == Len(body)
           b == Len(Before(1))
           p == OwnPlace(s, i)
           u == s[1]
           v == s[2]
<1>1. n \in Nat \ {0} /\ DOMAIN body = 1 .. n /\ i \in Nat /\ i >= 1 /\ i <= n
  BY BodyFacts
<1>2. c \in Seq(Outs) /\ s \in [1 .. n + 1 -> Nat] /\ Pieces(c, s)
  BY DEF WrittenAs
<1>3. u = 0
  BY <1>2 DEF Pieces
<1>4. b \in Nat /\ v >= b /\ v \in Nat
  <2> DEFINE r == Len(Rest(1))
             o == OwnAt(1)
  <2>1. 1 \in DOMAIN body /\ 1 + 1 = 2
    BY <1>1
  <2>2. b \in Nat /\ r \in Nat /\ o \in {0, 1} /\ s[1 + 1] \in Nat /\ s[1 + 1] = u + b + o + r
    BY <1>2, <2>1, PieceStands
  <2>3. v = u + b + o + r /\ v \in Nat
    BY <2>1, <2>2
  <2> HIDE DEF b, r, o, u, v
  <2> QED
    BY <1>3, <2>2, <2>3
<1>5. p \in Nat /\ s[i] < p
  <2>1. p \in DOMAIN c /\ InPiece(s, p, i)
    BY OwnIsThere
  <2> QED
    BY <1>2, <2>1 DEF InPiece
<1>6. CASE i = 1
  <2>1. p = u + b + 1
    BY <1>6 DEF OwnPlace
  <2> HIDE DEF p, u, b
  <2>2. b < p
    BY <1>3, <1>4, <2>1
  <2> QED
    BY <1>3, <1>4, <1>5, <2>2 DEF p, u, b
<1>7. CASE i # 1
  <2>1. 2 \in 1 .. n + 1 /\ i \in 1 .. n + 1 /\ 2 <= i
    <3> HIDE DEF n
    <3> QED
      BY <1>1, <1>7
  <2>2. v <= s[i] /\ s[i] \in Nat
    BY <1>2, <2>1, PiecesRise
  <2> HIDE DEF p, u, b, v
  <2>3. b < p
    BY <1>4, <1>5, <2>2
  <2> QED
    BY <1>3, <1>4, <1>5, <2>3 DEF p, u, b
<1> QED
  BY <1>6, <1>7

\* A label that meant the function means the wrapper if there is one.
LEMMA LabelEscapes ==
    ASSUME Shape, ListsCoded, Settled, NEW c, NEW s, WrittenAs(c, s),
           NEW i \in DOMAIN body, Stays(i), ~IsLast(i), NEW d \in Nat, d < Level(body, i),
           Label(body, i, d) = 0
    PROVE  LET y == Label(c, OwnPlace(s, i), d)
           IN  /\ Depth = 0 => y = 0
               /\ Depth = 1 => y > 0 /\ c[y].src = 0 /\ Level(c, y) = 1
<1> DEFINE p == OwnPlace(s, i)
           y == Label(c, p, d)
           b == Len(Before(1))
           n == Len(body)
<1>1. /\ body \in Seq(Instrs) /\ WellFormed(body) /\ n \in Nat \ {0} /\ DOMAIN body = 1 .. n
      /\ i \in Nat /\ i >= 1 /\ i <= n /\ i # n
  BY BodyFacts DEF IsLast
<1>2. Level(body, i) - d = 1 /\ Level(body, i) \in Int
  <2>1. 0 \notin 1 .. i - 1
    OBVIOUS
  <2>2. Level(body, i) - d = 1
    BY <1>1, <2>1, LabelOpens
  <2> QED
    BY <1>1, <2>2, LevelSteps
<1>3. c \in Seq(Outs) /\ DOMAIN c = 1 .. Len(c) /\ Len(c) \in Nat /\ \A q \in DOMAIN c : Level(c, q) \in Int
  <2>1. c \in Seq(Outs) /\ DOMAIN c = 1 .. Len(c) /\ Len(c) \in Nat
    BY DEF WrittenAs
  <2>2. \A q \in DOMAIN c : q \in 1 .. Len(c) + 1
    BY <2>1
  <2> QED
    BY <2>1, <2>2, AnyLevelSteps
<1>4. p \in DOMAIN c /\ InPiece(s, p, i) /\ Level(c, p) = LevelOwn(i)
  BY OwnIsThere
<1>5. Level(c, p) = Level(body, i) + Depth /\ Depth \in {0, 1}
  <2>1. i \notin ReplacedInstrs
    BY DEF Settled
  <2> QED
    BY <1>4, <2>1, KeptAt, LevelsAt DEF LevelOwn
<1>6. s[1] = 0 /\ b \in Nat /\ p \in Nat /\ b < p
  BY StandsAfter
<1>7. p \in 1 .. Len(c) + 1
  <2> HIDE DEF p
  <2> QED
    BY <1>3, <1>4
<1>8. CASE Depth = 0
  <2>1. y \in 0 .. p - 1 /\ (y # 0 => Level(c, y) + 1 = Level(c, p) - d)
    BY <1>3, <1>7, LabelFacts
  <2> HIDE DEF p, y
  <2>2. ASSUME y # 0 PROVE FALSE
    <3>1. y \in DOMAIN c
      BY <1>3, <1>6, <1>7, <2>1, <2>2
    <3>2. Level(c, y) > 0 /\ Level(c, y) \in Int
      BY <1>3, <3>1, WrittenInside
    <3>3. Level(c, y) + 1 = 1
      BY <1>2, <1>5, <1>8, <2>1, <2>2
    <3> QED
      BY <3>2, <3>3
  <2> QED
    BY <1>8, <2>2 DEF y, p
<1>9. CASE Depth = 1
  <2>1. 1 \in DOMAIN body /\ ~IsLast(1)
    <3>1. 1 \in 1 .. n /\ 1 # n
      <4> HIDE DEF n
      <4> QED
        BY <1>1
    <3> QED
      BY <1>1, <3>1 DEF IsLast
  <2>2. PICK w : WrapperAt(c, s, w)
    BY <1>9, <2>1 DEF WrittenAs, Leveled
  <2>3. /\ w \in 1 .. b /\ c[w].op = "block" /\ c[w].src = 0 /\ Level(c, w) = 1
        /\ \A k \in w + 1 .. b + 1 : Level(c, k) > 1
    BY <2>2 DEF WrapperAt
  <2>4. OwnPlace(s, 1) = b + 1
    <3> DEFINE u == s[1]
    <3>1. OwnPlace(s, 1) = u + b + 1
      BY DEF OwnPlace
    <3> HIDE DEF b, u
    <3> QED
      BY <1>6, <3>1 DEF u
  <2> HIDE DEF p, b, n
  <2>5. w \in 1 .. p - 1 /\ w \in Nat /\ w > 0
    BY <1>6, <2>3
  <2>6. ASSUME NEW q \in w + 1 .. p - 1 PROVE Level(c, q) > Level(c, w)
    <3>1. q \in DOMAIN c /\ q \in Nat /\ q < p
      BY <1>3, <1>6, <1>7, <2>5
    <3>2. CASE q <= b + 1
      <4>1. q \in w + 1 .. b + 1
        BY <1>6, <2>5, <3>1, <3>2
      <4> QED
        BY <2>3, <4>1
    <3>3. CASE ~(q <= b + 1)
      <4>1. PICK j \in DOMAIN body : InPiece(s, q, j) /\ (InFront(c, s, q, j) \/ InRest(c, s, q, j))
        BY <3>1, PlaceFound
      <4>2. j <= i /\ j \in Nat /\ j >= 1 /\ j # n /\ j < n
        <5>1. j <= i
          BY <1>4, <1>6, <3>1, <4>1, StartsInOrder
        <5> QED
          BY <1>1, <5>1
      <4>3. ~IsLast(j)
        BY <4>2 DEF IsLast, n
      <4>4. KeptLevel(j) \in Int /\ KeptLevel(j) > 0
        BY KeptAt
      <4>5. CASE InFront(c, s, q, j)
        <5>1. j # 1
          BY <2>4, <3>3, <4>5 DEF InFront
        <5>2. LevelStart(j) = KeptLevel(j) + 1 /\ LevelOwn(j) = KeptLevel(j) + 1
          BY <1>9, <4>3, <5>1 DEF LevelStart, LevelOwn
        <5>3. Level(c, q) >= KeptLevel(j) + 1
          BY <4>5, <5>2 DEF InFront
        <5> QED
          BY <1>3, <2>3, <3>1, <4>4, <5>3
      <4>6. CASE InRest(c, s, q, j)
        <5>1. j + 1 \in DOMAIN body
          BY <4>3, LevelsAt
        <5>2. KeptLevel(j + 1) \in Int /\ KeptLevel(j + 1) > 0
          BY <5>1, KeptAt
        <5>3. LevelAfter(j) = KeptLevel(j + 1) + 1
          BY <1>9, <4>3 DEF LevelAfter
        <5>4. Level(c, q) >= KeptLevel(j + 1) + 1
          BY <4>6, <5>3 DEF InRest
        <5> QED
          BY <1>3, <2>3, <3>1, <5>2, <5>4
      <4> QED
        BY <4>1, <4>5, <4>6
    <3> QED
      BY <3>2, <3>3
  <2>7. Opens(c[w])
    BY <2>3 DEF Opens, Opening
  <2>8. Level(c, w) + 1 = Level(c, p) - d
    BY <1>2, <1>5, <1>9, <2>3
  <2>9. y = w
    BY <1>3, <1>7, <2>5, <2>6, <2>7, <2>8, LabelIs
  <2> HIDE DEF y
  <2> QED
    BY <1>9, <2>3, <2>5, <2>9 DEF y, p
<1> QED
  BY <1>5, <1>8, <1>9

(***************************************************************************)
(* Validation, said of the code as a whole.                                *)
(***************************************************************************)
\* Whether an instruction may follow can be asked of the code or of the part before it.
LEMMA FollowsIff ==
    ASSUME NEW S, NEW c \in Seq(S), NEW i \in DOMAIN c
    PROVE  MayFollow(SubSeq(c, 1, i - 1), c[i]) <=>
               /\ Level(c, i) > 0
               /\ \A k \in DOMAIN c[i].arg : c[i].op \in Labelled => c[i].arg[k] < Level(c, i)
               /\ c[i].op = "else" => ElseFits(c, i)
<1> DEFINE prefix == SubSeq(c, 1, i - 1)
           m == Len(prefix)
           top == Label(c, i, 0)
<1>1. i \in Nat /\ 1 <= i /\ i <= Len(c) /\ Len(c) \in Nat
  OBVIOUS
<1>2. m = i - 1 /\ \A j \in 1 .. i - 1 : prefix[j] = c[j]
  BY <1>1
<1> HIDE DEF prefix
<1>3. ASSUME NEW j \in 1 .. i PROVE Level(prefix, j) = Level(c, j)
  <2>1. \A k \in 1 .. j - 1 : k \in 1 .. i - 1
    BY <1>1
  <2>2. /\ {k \in 1 .. j - 1 : Opens(prefix[k])} = {k \in 1 .. j - 1 : Opens(c[k])}
        /\ {k \in 1 .. j - 1 : prefix[k].op = "end"} = {k \in 1 .. j - 1 : c[k].op = "end"}
    BY <1>2, <2>1, Zenon
  <2> QED
    BY <2>2 DEF Level
<1>4. m + 1 = i /\ i \in 1 .. i /\ \A j \in 1 .. i - 1 : j \in 1 .. i
  BY <1>1, <1>2
<1>5. Label(prefix, i, 0) = top
  <2>1. \A j \in 1 .. i - 1 : /\ Opens(prefix[j]) <=> Opens(c[j])
                              /\ Level(prefix, j) = Level(c, j)
    BY <1>2, <1>3, <1>4
  <2>2. Level(prefix, i) = Level(c, i)
    BY <1>3, <1>4
  <2>3. {j \in 1 .. i - 1 : Opens(prefix[j]) /\ Level(prefix, j) + 1 = Level(prefix, i) - 0}
        = {j \in 1 .. i - 1 : Opens(c[j]) /\ Level(c, j) + 1 = Level(c, i) - 0}
    BY <2>1, <2>2, Zenon
  <2> QED
    BY <2>3, Zenon DEF Label
<1>6. top \in 0 .. i - 1
  <2>1. i \in 1 .. Len(c) + 1
    BY <1>1
  <2> QED
    BY <2>1, LabelFacts
<1> HIDE DEF top
<1>7. Level(prefix, i) = Level(c, i)
  BY <1>3, <1>4
<1> DEFINE fitsPrefix == /\ top # 0
                         /\ prefix[top].op \in {"if", "if_flag"}
                         /\ \A j \in top + 1 .. m : prefix[j].op = "else" => Level(prefix, j) # Level(prefix, i)
           fits == /\ top # 0
                   /\ c[top].op \in {"if", "if_flag"}
                   /\ \A j \in top + 1 .. i - 1 : c[j].op = "else" => Level(c, j) # Level(c, i)
<1>8. fitsPrefix <=> fits
  <2>1. top # 0 => prefix[top] = c[top]
    BY <1>1, <1>2, <1>6
  <2>2. \A j \in top + 1 .. i - 1 : prefix[j] = c[j] /\ Level(prefix, j) = Level(c, j)
    <3>1. \A j \in top + 1 .. i - 1 : j \in 1 .. i - 1
      BY <1>1, <1>6
    <3> QED
      BY <1>2, <1>3, <1>4, <3>1
  <2>3. (\A j \in top + 1 .. m : prefix[j].op = "else" => Level(prefix, j) # Level(prefix, i))
        <=> \A j \in top + 1 .. i - 1 : c[j].op = "else" => Level(c, j) # Level(c, i)
    BY <1>2, <1>7, <2>2
  <2> QED
    BY <2>1, <2>3
<1>9. ElseFits(c, i) <=> fits
  BY DEF ElseFits, top
<1>10. MayFollow(prefix, c[i]) <=>
          /\ Level(prefix, i) > 0
          /\ \A k \in DOMAIN c[i].arg : c[i].op \in Labelled => c[i].arg[k] < Level(prefix, i)
          /\ c[i].op = "else" => fitsPrefix
  BY <1>4, <1>5 DEF MayFollow
<1> HIDE DEF fits, fitsPrefix
<1> QED
  BY <1>7, <1>8, <1>9, <1>10 DEF prefix

\* An else of the function that stays is still the only else of its if.
LEMMA OwnElse ==
    ASSUME Shape, ListsCoded, Settled, NEW c, NEW s, WrittenAs(c, s),
           NEW i \in DOMAIN body, Stays(i), body[i].op = "else"
    PROVE  ElseFits(c, OwnPlace(s, i))
<1> DEFINE x == Label(body, i, 0)
           a == OwnPlace(s, x)
           p == OwnPlace(s, i)
<1>1. /\ body \in Seq(Instrs) /\ WellFormed(body) /\ DOMAIN body = 1 .. Len(body) /\ Len(body) \in Nat
      /\ i \in Nat
  BY BodyFacts
<1>2. ~IsLast(i)
  BY KeptEnds DEF IsLast
<1>3. ElseFits(body, i) /\ 0 < Level(body, i)
  <2>1. MayFollow(SubSeq(body, 1, i - 1), body[i])
    BY <1>1 DEF WellFormed
  <2>2. ElseFits(body, i)
    BY <1>1, <2>1, FollowsIff
  <2>3. Level(body, i) > 0
    BY <1>1, WellFormedLevels
  <2>4. Level(body, i) \in Int
    BY <1>1, LevelSteps
  <2> QED
    BY <2>2, <2>3, <2>4
<1>4. /\ x # 0 /\ body[x].op \in {"if", "if_flag"}
      /\ \A j \in x + 1 .. i - 1 : body[j].op = "else" => Level(body, j) # Level(body, i)
  BY <1>3 DEF ElseFits
<1>5. /\ Within(x, i) /\ Stays(x) /\ Level(body, x) + 1 = Level(body, i) - 0
      /\ Label(c, p, 0) = a
  BY <1>2, <1>3, <1>4, LabelStays
<1> HIDE DEF x
<1>6. i \notin ReplacedInstrs
  BY DEF Settled
<1>7. /\ x \in DOMAIN body /\ x \in 1 .. i - 1 /\ x \notin ReplacedInstrs
      /\ LevelOwn(x) = Level(body, x) + Depth /\ LevelOwn(x) \in Int
      /\ \A j \in x + 1 .. i : j \in DOMAIN body /\ LevelOwn(j) = KeptLevel(j) + Depth
      /\ \A j \in x .. i - 1 : LevelAfter(j) \in Int /\ LevelAfter(j) > LevelOwn(x)
  BY <1>2, <1>5, <1>6, InnerLevels
<1>8. /\ a \in DOMAIN c /\ IsOwn(c, a, x) /\ a \in Nat
      /\ p \in DOMAIN c /\ Level(c, p) = LevelOwn(i) /\ p \in Nat
  <2>1. \A q \in DOMAIN c : q \in Nat
    BY DEF WrittenAs
  <2> QED
    BY <1>5, <1>7, <2>1, OwnIsThere
<1>9. /\ Level(body, x) \in Int /\ Level(body, i) \in Int /\ Depth \in {0, 1}
      /\ \A j \in DOMAIN body : Level(body, j) \in Int
  <2>1. \A j \in DOMAIN body : j \in 1 .. Len(body) + 1
    BY <1>1
  <2>2. \A j \in DOMAIN body : Level(body, j) \in Int
    BY <1>1, <2>1, LevelSteps
  <2> QED
    BY <1>7, <2>2, LevelsAt
<1>10. i \in x + 1 .. i /\ x \in Nat
  BY <1>1, <1>7
<1>11. Level(c, p) = Level(body, i) + Depth
  BY <1>6, <1>7, <1>8, <1>10, KeptAt
<1>12. \A q \in a + 1 .. p : q \in DOMAIN c /\ Between(c, s, x, i, q)
  BY <1>5, <1>7, BetweenThem
<1>13. a > 0 /\ c[a].op \in {"if", "if_flag"}
  <2>1. a \in 1 .. Len(c)
    BY <1>8 DEF WrittenAs
  <2> QED
    BY <1>4, <1>8, <2>1 DEF IsOwn
<1> HIDE DEF a, p
<1>14. ASSUME NEW q \in a + 1 .. p - 1, c[q].op = "else" PROVE Level(c, q) # Level(c, p)
  <2>1. q \in DOMAIN c /\ Between(c, s, x, i, q) /\ q < p
    BY <1>8, <1>12
  <2>2. Level(c, q) \in Int
    <3>1. c \in Seq(Outs) /\ \A k \in DOMAIN c : k \in 1 .. Len(c) + 1
      BY DEF WrittenAs
    <3> QED
      BY <2>1, <3>1, AnyLevelSteps
  <2>3. ASSUME NEW j \in x + 1 .. i, InFront(c, s, q, j) PROVE Level(c, q) # Level(c, p)
    <3>1. q = OwnPlace(s, j) /\ Stays(j) /\ body[j].op = "else"
      BY <1>14, <2>3 DEF InFront, IsOwn
    <3>2. j # i
      BY <1>8, <2>1, <3>1 DEF p
    <3>3. j \in x + 1 .. i - 1 /\ j \in DOMAIN body
      BY <1>1, <1>7, <1>10, <3>2
    <3>4. Level(body, j) # Level(body, i)
      BY <1>4, <3>1, <3>3
    <3>5. j \notin ReplacedInstrs
      BY <3>1, <3>3 DEF Settled
    <3>6. Level(c, q) = LevelOwn(j)
      BY <3>1, <3>3, OwnIsThere
    <3>7. LevelOwn(j) = Level(body, j) + Depth
      BY <1>7, <3>3, <3>5, KeptAt
    <3> DEFINE u == Level(body, j)
               v == Level(body, i)
               e == Depth
    <3>8. u \in Int /\ v \in Int /\ e \in {0, 1} /\ u # v
      BY <1>9, <3>3, <3>4
    <3>9. Level(c, q) = u + e /\ Level(c, p) = v + e
      BY <1>11, <3>6, <3>7
    <3> HIDE DEF u, v, e
    <3> QED
      BY <3>8, <3>9
  <2>4. ASSUME NEW j \in x .. i - 1, InRest(c, s, q, j) PROVE Level(c, q) # Level(c, p)
    <3>1. Level(c, q) > LevelAfter(j)
      BY <1>14, <2>4 DEF InRest
    <3>2. LevelAfter(j) \in Int /\ LevelAfter(j) > LevelOwn(x)
      BY <1>7
    <3> QED
      BY <1>5, <1>7, <1>9, <1>11, <2>2, <3>1, <3>2
  <2> QED
    BY <2>1, <2>3, <2>4 DEF Between
<1> DEFINE top == Label(c, p, 0)
<1>15. top = a /\ a # 0
  BY <1>5, <1>8, <1>13 DEF p, a
<1> HIDE DEF top
<1>16. /\ top # 0 /\ c[top].op \in {"if", "if_flag"}
       /\ \A j \in top + 1 .. p - 1 : c[j].op = "else" => Level(c, j) # Level(c, p)
  BY <1>13, <1>14, <1>15
<1>17. ElseFits(c, p)
  BY <1>16 DEF ElseFits, top
<1> QED
  BY <1>17 DEF p

\* A branch or a try of the function that stays has its labels in range and means what it meant.
LEMMA OwnBranch ==
    ASSUME Shape, ListsCoded, Settled, NEW c, NEW s, WrittenAs(c, s), NEW p \in DOMAIN c,
           c[p].src # 0, c[p].op \in Labelled, NEW k \in DOMAIN c[p].arg
    PROVE  LET i == c[p].src
               d == c[p].arg[k]
               was == Label(body, i, d)
               now == Label(c, p, d)
           IN  /\ d < Level(c, p)
               /\ was > 0 => now > 0 /\ c[now].src = was
               /\ was <= 0 /\ Depth = 0 => now = 0
               /\ was <= 0 /\ Depth = 1 => now > 0 /\ c[now].src = 0 /\ Level(c, now) = 1
<1> DEFINE i == c[p].src
           d == c[p].arg[k]
           was == Label(body, i, d)
           now == Label(c, p, d)
<1>1. i \in DOMAIN body /\ Stays(i) /\ p = OwnPlace(s, i) /\ IsOwn(c, p, i)
  BY OwnIsOwn
<1>2. /\ body \in Seq(Instrs) /\ WellFormed(body) /\ DOMAIN body = 1 .. Len(body) /\ Len(body) \in Nat
  BY BodyFacts
<1>3. body[i].op \in Labelled /\ k \in DOMAIN body[i].arg /\ d = body[i].arg[k]
  BY <1>1 DEF IsOwn
<1> HIDE DEF i, d
<1>4. d \in Nat /\ d < Level(body, i)
  BY <1>1, <1>2, <1>3, LabelsInRange
<1>5. ~IsLast(i)
  <2>1. "end" \notin Labelled
    BY DEF Labelled, Branching
  <2> QED
    BY <1>3, <2>1, KeptEnds DEF IsLast
<1>6. d < Level(c, p)
  <2>1. Level(c, p) = LevelOwn(i)
    BY <1>1, OwnIsThere
  <2>2. LevelOwn(i) = KeptLevel(i) + Depth
    BY <1>5 DEF LevelOwn
  <2>3. i \notin ReplacedInstrs
    BY <1>1 DEF Settled
  <2>4. KeptLevel(i) = Level(body, i) /\ Level(body, i) \in Int /\ Depth \in {0, 1}
    BY <1>1, <2>3, KeptAt, LevelsAt
  <2> QED
    BY <1>4, <2>1, <2>2, <2>4
<1>7. CASE was = 0
  <2>1. /\ Depth = 0 => now = 0
        /\ Depth = 1 => now > 0 /\ c[now].src = 0 /\ Level(c, now) = 1
    BY <1>1, <1>4, <1>5, <1>7, LabelEscapes
  <2>2. ~(was > 0)
    BY <1>7
  <2> HIDE DEF was, now
  <2> QED
    BY <1>6, <2>1, <2>2 DEF was, now, i, d
<1>8. CASE was # 0
  <2>1. Within(was, i) /\ Stays(was) /\ now = OwnPlace(s, was)
    BY <1>1, <1>4, <1>5, <1>8, LabelStays
  <2>2. was \in DOMAIN body /\ was > 0
    <3>1. i \in Nat /\ was \in 1 .. i - 1
      BY <1>1, <1>2, <2>1 DEF Within
    <3> HIDE DEF was, now
    <3>2. was > 0 /\ was \in 1 .. Len(body)
      BY <1>1, <1>2, <3>1
    <3> QED
      BY <1>2, <3>2
  <2> HIDE DEF was, now
  <2>3. now \in DOMAIN c /\ IsOwn(c, now, was)
    BY <2>1, <2>2, OwnIsThere
  <2>4. now > 0 /\ c[now].src = was
    <3>1. now \in 1 .. Len(c)
      BY <2>3 DEF WrittenAs
    <3> QED
      BY <2>3, <3>1 DEF IsOwn
  <2>5. ~(was <= 0)
    <3>1. was \in Nat
      BY <1>2, <2>2
    <3> QED
      BY <2>2, <3>1
  <2> QED
    BY <1>6, <2>2, <2>4, <2>5 DEF was, now, i, d
<1> QED
  BY <1>7, <1>8

\* So the written code is well nested: every place has a level, branches are in range, elses fit.
LEMMA WrittenIsWellFormed ==
    ASSUME Shape, ListsCoded, Settled, NEW c, NEW s, WrittenAs(c, s)
    PROVE  WellFormed(c)
<1>1. c \in Seq(Outs)
  BY DEF WrittenAs
<1>2. (\A q \in DOMAIN c : Level(c, q) > 0) /\ Level(c, Len(c) + 1) = 0
  BY WrittenInside
<1>3. ASSUME NEW q \in DOMAIN c PROVE MayFollow(SubSeq(c, 1, q - 1), c[q])
  <2>1. ASSUME NEW k \in DOMAIN c[q].arg, c[q].op \in Labelled PROVE c[q].arg[k] < Level(c, q)
    <3>1. c[q].src # 0
      <4>1. \E i \in DOMAIN body : InFront(c, s, q, i) \/ InRest(c, s, q, i)
        BY PlaceFound
      <4>2. PICK i \in DOMAIN body : IsOwn(c, q, i)
        BY <2>1, <4>1 DEF InFront, InRest
      <4>3. i # 0 /\ c[q].src = i
        BY <4>2, BodyFacts DEF IsOwn
      <4> QED
        BY <4>3
    <3> QED
      BY <2>1, <3>1, OwnBranch
  <2>2. ASSUME c[q].op = "else" PROVE ElseFits(c, q)
    <3>1. PICK i \in DOMAIN body : InFront(c, s, q, i) \/ InRest(c, s, q, i)
      BY PlaceFound
    <3>2. CASE InRest(c, s, q, i)
      BY <2>2, <3>2 DEF InRest
    <3>3. CASE InFront(c, s, q, i)
      <4>1. q = OwnPlace(s, i) /\ Stays(i) /\ body[i].op = "else"
        BY <2>2, <3>3 DEF InFront, IsOwn
      <4> QED
        BY <4>1, OwnElse
    <3> QED
      BY <3>1, <3>2, <3>3
  <2> QED
    BY <1>1, <1>2, <2>1, <2>2, FollowsIff
<1> QED
  BY <1>2, <1>3 DEF WellFormed

LEMMA ResolvedIsNested ==
    ASSUME TypeOK, Shape, Resolves, Coded, Laid
    PROVE  NestingKept
<1> DEFINE c == Encoded
<1> SUFFICES ASSUME phase = "done", special, AltsArePlain
             PROVE  /\ WellFormed(c)
                    /\ \A e \in DOMAIN c : c[e].src > 0 /\ c[e].op \in Labelled =>
                          \A k \in DOMAIN c[e].arg :
                              LET was == Label(body, c[e].src, c[e].arg[k])
                                  now == Label(c, e, c[e].arg[k])
                              IN  IF was > 0 THEN now > 0 /\ c[now].src = was
                                  ELSE IF asked.func.exit = <<>> THEN now = 0
                                  ELSE now > 0 /\ c[now].src = 0 /\ Level(c, now) = 1
  BY DEF NestingKept, Resolved, Done
<1>1. Settled
  BY ResolvedIsSettled
<1>2. ListsCoded
  BY DEF Coded
<1>3. PICK s \in [1 .. Len(body) + 1 -> Nat] : Pieces(c, s)
  BY <1>2, EncodedPieces
<1>4. c \in Seq(Outs)
  BY <1>2, EncodedPieces
<1> HIDE DEF c
<1>5. WrittenAs(c, s)
  BY <1>1, <1>2, <1>3, <1>4, WrittenLevels DEF WrittenAs
<1>6. WellFormed(c)
  BY <1>1, <1>2, <1>5, WrittenIsWellFormed
<1>7. ASSUME NEW e \in DOMAIN c, c[e].src > 0, c[e].op \in Labelled, NEW k \in DOMAIN c[e].arg
      PROVE  LET was == Label(body, c[e].src, c[e].arg[k])
                 now == Label(c, e, c[e].arg[k])
             IN  IF was > 0 THEN now > 0 /\ c[now].src = was
                 ELSE IF asked.func.exit = <<>> THEN now = 0
                 ELSE now > 0 /\ c[now].src = 0 /\ Level(c, now) = 1
  <2> DEFINE was == Label(body, c[e].src, c[e].arg[k])
             now == Label(c, e, c[e].arg[k])
  <2>1. c[e].src # 0
    BY <1>7
  <2>2. /\ was > 0 => now > 0 /\ c[now].src = was
        /\ was <= 0 /\ Depth = 0 => now = 0
        /\ was <= 0 /\ Depth = 1 => now > 0 /\ c[now].src = 0 /\ Level(c, now) = 1
    BY <1>1, <1>2, <1>5, <1>7, <2>1, OwnBranch
  <2>3. was \in Int
    <3>1. c[e].src \in DOMAIN body
      BY <1>1, <1>2, <1>5, <2>1, OwnIsOwn
    <3>2. body \in Seq(Instrs) /\ c[e].src \in 1 .. Len(body) + 1
      <4>1. body \in Seq(Instrs) /\ DOMAIN body = 1 .. Len(body) /\ Len(body) \in Nat
        BY BodyFacts
      <4> QED
        BY <3>1, <4>1
    <3>3. was \in 0 .. c[e].src - 1
      BY <3>2, LabelFacts
    <3> HIDE DEF was
    <3> QED
      BY <3>3
  <2>4. Depth = IF asked.func.exit = <<>> THEN 0 ELSE 1
    BY DEF Depth
  <2> HIDE DEF was, now
  <2>5. IF was > 0 THEN now > 0 /\ c[now].src = was
        ELSE IF asked.func.exit = <<>> THEN now = 0
        ELSE now > 0 /\ c[now].src = 0 /\ Level(c, now) = 1
    BY <2>2, <2>3, <2>4
  <2> QED
    BY <2>5 DEF was, now
<1> QED
  BY <1>6, <1>7

\* Whatever the function and whatever was asked for, the code encode_function writes once the
\* pass is through is well nested: the flags, the chains of ifs, the wrapper block and the
\* removed blocks neither open nor end a block of the function.  Every branch and catch that is
\* left still means the block it meant, and one that left the function leaves it, or means the
\* wrapper block when there is one.
THEOREM NestingKeptHolds == RunSpec => []NestingKept
<1> DEFINE IInv == /\ TypeOK /\ Shape /\ Told /\ Resolves /\ Coded
                   /\ AskedOnce /\ Carried /\ Laid
<1>1. RunInit => IInv
  <2>1. RunInit => /\ phase = "edit" /\ onElseOrEnd = <<>>
                   /\ onEnd = [b \in 0 .. Len(body) |-> Nothing]
    BY DEF RunInit, ResolverInit
  <2>2. phase = "edit" => Resolves /\ Laid
    BY DEF Resolves, Region, Given, Handled, Laid
  <2>3. RunInit => Carried
    BY <2>1 DEF Carried
  <2> QED
    BY <2>1, <2>2, <2>3, InitIsTyped, InitCoded, InitAsked
<1>2. IInv /\ [RunNext]_<<vars, written, runVars>> => IInv'
  BY TypedInductive, ResolvesInductive, CodedInductive, AskedInductive, CarriedInductive, LaidInductive
<1>3. IInv => NestingKept
  BY ResolvedIsNested
<1> QED
  BY <1>1, <1>2, <1>3, PTL DEF RunSpec
=============================================================================
