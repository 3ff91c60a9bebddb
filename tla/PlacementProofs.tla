--------------------------- MODULE PlacementProofs ---------------------------
(***************************************************************************)
(* Where the pass of the resolver puts what it was asked for: for every    *)
(* well-formed function and whatever was asked for, each body is, once the *)
(* pass is through, in exactly the lists it belongs to.  The invariant     *)
(* follows one injected operator at a time: before the pass reaches its    *)
(* instruction it is where the caller put it, and from there on it is in   *)
(* the lists behind the pass that it belongs to and in the waiting bodies  *)
(* of exactly the blocks whose end it still has to be put at.              *)
(***************************************************************************)
EXTENDS ResolverProofs

(***************************************************************************)
(* What a list holds, as a set: of the empty list, of one element, of      *)
(* lists joined, and of a sequence of lists flattened.                     *)
(***************************************************************************)
LEMMA RunOfJoin ==
    ASSUME NEW S, NEW s \in Seq(S), NEW t \in Seq(S)
    PROVE  RunOf(s \o t) = RunOf(s) \cup RunOf(t)
<1> DEFINE n == Len(s)
           k == Len(t)
           r == s \o t
<1>1. /\ n \in Nat /\ DOMAIN s = 1 .. n /\ k \in Nat /\ DOMAIN t = 1 .. k
      /\ DOMAIN r = 1 .. n + k
      /\ \A j \in 1 .. n + k : r[j] = IF j <= n THEN s[j] ELSE t[j - n]
  OBVIOUS
<1> HIDE DEF n, k, r
<1>2. ASSUME NEW x \in RunOf(r) PROVE x \in RunOf(s) \cup RunOf(t)
  <2>1. PICK j \in 1 .. n + k : x = r[j]
    BY <1>1 DEF RunOf
  <2>2. CASE j <= n
    <3>1. j \in 1 .. n /\ x = s[j]
      BY <1>1, <2>1, <2>2
    <3> QED
      BY <1>1, <3>1 DEF RunOf
  <2>3. CASE ~(j <= n)
    <3>1. j - n \in 1 .. k /\ x = t[j - n]
      BY <1>1, <2>1, <2>3
    <3> QED
      BY <1>1, <3>1 DEF RunOf
  <2> QED
    BY <2>2, <2>3
<1>3. ASSUME NEW x \in RunOf(s) PROVE x \in RunOf(r)
  <2>1. PICK j \in 1 .. n : x = s[j]
    BY <1>1 DEF RunOf
  <2>2. j \in 1 .. n + k /\ r[j] = x
    BY <1>1, <2>1
  <2> QED
    BY <1>1, <2>2 DEF RunOf
<1>4. ASSUME NEW x \in RunOf(t) PROVE x \in RunOf(r)
  <2>1. PICK j \in 1 .. k : x = t[j]
    BY <1>1 DEF RunOf
  <2>2. j + n \in 1 .. n + k /\ ~(j + n <= n) /\ j + n - n = j
    BY <1>1, <2>1
  <2>3. r[j + n] = x
    BY <1>1, <2>1, <2>2
  <2> QED
    BY <1>1, <2>2, <2>3 DEF RunOf
<1> QED
  BY <1>2, <1>3, <1>4 DEF r

LEMMA RunOfFacts ==
    /\ RunOf(<<>>) = {}
    /\ \A x : RunOf(<<x>>) = {x}
    /\ \A s \in Codes : \A t \in Codes : RunOf(s \o t) = RunOf(s) \cup RunOf(t)
    /\ \A s \in Codes : s # <<>> <=> RunOf(s) # {}
<1>1. RunOf(<<>>) = {}
  BY DEF RunOf
<1>2. ASSUME NEW x PROVE RunOf(<<x>>) = {x}
  <2>1. DOMAIN <<x>> = {1} /\ <<x>>[1] = x
    OBVIOUS
  <2> QED
    BY <2>1 DEF RunOf
<1>3. \A s \in Codes : \A t \in Codes : RunOf(s \o t) = RunOf(s) \cup RunOf(t)
  BY RunOfJoin DEF Codes
<1>4. ASSUME NEW s \in Codes, s # <<>> PROVE RunOf(s) # {}
  <2>1. 1 \in DOMAIN s
    BY <1>4 DEF Codes
  <2> QED
    BY <2>1 DEF RunOf
<1> QED
  BY <1>1, <1>2, <1>3, <1>4

LEMMA FlattenRuns ==
    ASSUME NEW S, NEW ss \in Seq(Seq(S))
    PROVE  \A x : x \in RunOf(FlattenSeq(ss)) <=> \E k \in DOMAIN ss : x \in RunOf(ss[k])
<1> TAKE x
<1> DEFINE n == Len(ss)
<1>1. n \in Nat /\ DOMAIN ss = 1 .. n /\ \A i \in 1 .. n : ss[i] \in Seq(S)
  OBVIOUS
<1>2. CASE n = 0
  <2>1. ss = <<>> /\ DOMAIN ss = {}
    BY <1>1, <1>2
  <2>2. FlattenSeq(ss) = <<>>
    BY <2>1 DEF FlattenSeq
  <2> QED
    BY <2>1, <2>2, RunOfFacts
<1>3. CASE n # 0
  <2>1. PICK f : /\ FlattenSeq(ss) = f[n]
                 /\ \A i \in 1 .. n : f[i] = IF i = 1 THEN ss[i] ELSE f[i - 1] \o ss[i]
    BY <1>1, <1>3, FlattenPrefixes
  <2> DEFINE holds(i) == x \in RunOf(f[i]) <=> \E k \in 1 .. i : x \in RunOf(ss[k])
             bad == {i \in 1 .. n : ~(f[i] \in Seq(S) /\ holds(i))}
  <2>2. SUFFICES ASSUME bad # {} PROVE FALSE
    <3>1. n \in 1 .. n
      BY <1>1, <1>3
    <3>2. holds(n)
      BY <3>1
    <3> QED
      BY <1>1, <2>1, <3>2
  <2>3. PICK k \in bad : \A j \in bad : k <= j
    <3>1. bad \in SUBSET Nat
      BY <1>1
    <3> HIDE DEF bad
    <3> QED
      BY <2>2, <3>1, LeastElement
  <2>4. k \in 1 .. n /\ ~(f[k] \in Seq(S) /\ holds(k)) /\ k \in Nat
    BY <1>1
  <2>5. CASE k = 1
    <3>1. f[1] = ss[1] /\ ss[1] \in Seq(S)
      BY <1>1, <2>1, <2>4, <2>5
    <3>2. 1 .. 1 = {1}
      OBVIOUS
    <3> QED
      BY <2>4, <2>5, <3>1, <3>2
  <2>6. CASE k # 1
    <3>1. k - 1 \in 1 .. n /\ ~(k <= k - 1)
      BY <1>1, <2>4, <2>6
    <3>2. k - 1 \notin bad
      <4> HIDE DEF bad
      <4> QED
        BY <2>3, <3>1
    <3>3. f[k - 1] \in Seq(S) /\ ss[k] \in Seq(S) /\ holds(k - 1)
      BY <1>1, <2>4, <3>1, <3>2
    <3>4. f[k] = f[k - 1] \o ss[k]
      BY <2>1, <2>4, <2>6
    <3>5. \A j : j \in 1 .. k <=> j \in 1 .. k - 1 \/ j = k
      BY <2>4, <3>1
    <3>6. f[k] \in Seq(S)
      <4> HIDE DEF bad, n, holds
      <4> QED
        BY <3>3, <3>4
    <3>7. RunOf(f[k]) = RunOf(f[k - 1]) \cup RunOf(ss[k])
      <4> HIDE DEF bad, n, holds
      <4> QED
        BY <3>3, <3>4, RunOfJoin
    <3>8. holds(k)
      <4> DEFINE a == RunOf(f[k - 1])
                 b == RunOf(ss[k])
                 c == RunOf(f[k])
                 has(j) == x \in RunOf(ss[j])
      <4>1. x \in a <=> \E j \in 1 .. k - 1 : has(j)
        BY <3>3
      <4>2. c = a \cup b /\ (has(k) <=> x \in b)
        BY <3>7
      <4>3. holds(k) <=> (x \in c <=> \E j \in 1 .. k : has(j))
        OBVIOUS
      <4> HIDE DEF a, b, c, has, holds
      <4> QED
        BY <3>5, <4>1, <4>2, <4>3
    <3> HIDE DEF bad, n, holds
    <3> QED
      BY <2>4, <3>6, <3>8
  <2> QED
    BY <2>5, <2>6
<1> QED
  BY <1>2, <1>3

\* The chain of flagged bodies runs the probes in them and no others.
LEMMA ChainRuns ==
    ASSUME NEW flagged \in Seq([flag : Nat, body : Codes]), NEW p, p.op = "probe"
    PROVE  p \in RunOf(Chain(flagged)) <=> \E k \in DOMAIN flagged : p \in RunOf(flagged[k].body)
<1> DEFINE n == Len(flagged)
           part(k) == (IF k = 1 THEN <<>> ELSE <<Else>>) \o <<IfFlag(flagged[k].flag)>> \o flagged[k].body
           parts == [k \in DOMAIN flagged |-> part(k)]
           ends == [k \in DOMAIN flagged |-> End]
<1>1. n \in Nat /\ DOMAIN flagged = 1 .. n
      /\ \A k \in 1 .. n : flagged[k].flag \in Nat /\ flagged[k].body \in Codes
  <2>1. n \in Nat /\ DOMAIN flagged = 1 .. n
    OBVIOUS
  <2>2. ASSUME NEW k \in 1 .. n PROVE flagged[k].flag \in Nat /\ flagged[k].body \in Codes
    <3> DEFINE x == flagged[k]
    <3>1. x \in [flag : Nat, body : Codes]
      BY ElementsOf
    <3> HIDE DEF x
    <3>2. x.flag \in Nat /\ x.body \in Codes
      BY <3>1
    <3> QED
      BY <3>2 DEF x
  <2> QED
    BY <2>1, <2>2
<1>2. p \notin {Else, End} /\ \A f : p # IfFlag(f)
  BY DEF Else, End, IfFlag, Instr
<1>3. \A k \in 1 .. n : part(k) \in Codes /\ (p \in RunOf(part(k)) <=> p \in RunOf(flagged[k].body))
  <2> TAKE k \in 1 .. n
  <2> DEFINE u == IF k = 1 THEN <<>> ELSE <<Else>>
             v == <<IfFlag(flagged[k].flag)>>
             w == flagged[k].body
  <2>1. u \in Codes /\ v \in Codes /\ w \in Codes
    BY <1>1, SomeCodes
  <2>2. RunOf(u) \subseteq {Else} /\ RunOf(v) = {IfFlag(flagged[k].flag)}
    BY RunOfFacts
  <2>3. part(k) = u \o v \o w
    OBVIOUS
  <2> HIDE DEF u, v, w
  <2>4. u \o v \in Codes /\ u \o v \o w \in Codes
    BY <2>1, SomeCodes
  <2>5. RunOf(u \o v \o w) = RunOf(u) \cup RunOf(v) \cup RunOf(w)
    BY <2>1, <2>4, RunOfFacts
  <2>6. p \in RunOf(u \o v \o w) <=> p \in RunOf(w)
    BY <1>2, <2>2, <2>5
  <2> QED
    BY <2>3, <2>4, <2>6 DEF w
<1>4. parts \in Seq(Seq(Injected)) /\ DOMAIN parts = 1 .. n /\ \A k \in 1 .. n : parts[k] = part(k)
  <2>1. parts = [k \in 1 .. n |-> part(k)]
    BY <1>1
  <2> HIDE DEF part, n, parts
  <2>2. parts \in Seq(Codes)
    BY <1>1, <1>3, <2>1
  <2> QED
    BY <2>1, <2>2 DEF Codes
<1>5. ends \in Codes /\ RunOf(ends) \subseteq {End}
  <2>1. ends = [k \in 1 .. n |-> End] /\ End \in Injected
    BY <1>1, SomeCodes
  <2> HIDE DEF n, ends
  <2>2. ends \in [1 .. n -> Injected]
    BY <2>1
  <2>3. ends \in Codes
    BY <1>1, <2>2, SequenceOf DEF Codes
  <2>4. RunOf(ends) \subseteq {End}
    BY <2>1 DEF RunOf
  <2> QED
    BY <2>3, <2>4
<1>6. FlattenSeq(parts) \in Codes
  <2> HIDE DEF parts
  <2> QED
    BY <1>4, FlattenTyped DEF Codes
<1>7. p \in RunOf(FlattenSeq(parts)) <=> \E k \in 1 .. n : p \in RunOf(flagged[k].body)
  <2> HIDE DEF parts, part, n
  <2>1. p \in RunOf(FlattenSeq(parts)) <=> \E k \in DOMAIN parts : p \in RunOf(parts[k])
    BY <1>4, FlattenRuns
  <2> QED
    BY <1>3, <1>4, <2>1
<1>8. Chain(flagged) = FlattenSeq(parts) \o ends
  BY DEF Chain
<1> HIDE DEF parts, ends
<1>9. RunOf(Chain(flagged)) = RunOf(FlattenSeq(parts)) \cup RunOf(ends)
  BY <1>5, <1>6, <1>8, RunOfFacts
<1> QED
  BY <1>1, <1>2, <1>5, <1>7, <1>9
(***************************************************************************)
(* Where a block that is open at an instruction ends.                      *)
(***************************************************************************)
LEMMA GreatestElement ==
    ASSUME NEW T \in SUBSET Nat, T # {}, NEW n \in Nat, \A x \in T : x <= n
    PROVE  Max(T) \in T /\ \A x \in T : x <= Max(T)
<1> DEFINE R == {n - x : x \in T}
<1>1. R \in SUBSET Nat /\ R # {}
  <2>1. \A x \in T : x \in Nat /\ n - x \in Nat
    OBVIOUS
  <2> QED
    BY <2>1
<1>2. PICK r \in R : \A y \in R : r <= y
  <2> HIDE DEF R
  <2> QED
    BY <1>1, LeastElement
<1>3. PICK g \in T : r = n - g
  OBVIOUS
<1>4. \A x \in T : g >= x
  <2> TAKE x \in T
  <2>1. n - x \in R
    OBVIOUS
  <2> HIDE DEF R
  <2>2. n - g <= n - x /\ x \in Nat /\ g \in Nat
    BY <1>2, <1>3, <2>1
  <2> QED
    BY <2>2
<1>5. Max(T) \in T /\ \A x \in T : Max(T) >= x
  BY <1>4, Zenon DEF Max
<1> QED
  BY <1>5

\* A level that has been reached was reached by opening a block at the one below.
LEMMA LevelRises ==
    ASSUME NEW code \in Seq(Instrs), NEW a \in 1 .. Len(code) + 1, NEW n \in a .. Len(code) + 1,
           NEW m \in Int, Level(code, a) < m, m <= Level(code, n)
    PROVE  \E j \in a .. n - 1 : code[j].op \in Opening /\ Level(code, j) + 1 = m
<1>1. /\ Len(code) \in Nat /\ a \in Nat /\ n \in Nat /\ DOMAIN code = 1 .. Len(code)
      /\ 1 <= a /\ n <= Len(code) + 1 /\ a <= n
  OBVIOUS
<1> DEFINE high == {p \in a .. n : m <= Level(code, p)}
<1>2. high \in SUBSET Nat /\ n \in high
  BY <1>1
<1>3. PICK p \in high : \A q \in high : p <= q
  <2> HIDE DEF high
  <2> QED
    BY <1>2, LeastElement
<1>4. p \in a .. n /\ m <= Level(code, p)
  OBVIOUS
<1>5. \A i \in 1 .. Len(code) + 1 : Level(code, i) \in Int
  BY LevelSteps
<1>6. p # a
  BY <1>1, <1>4, <1>5
<1> DEFINE e == p - 1
           was == Level(code, e)
           is == Level(code, p)
<1>7. /\ e \in a .. n - 1 /\ e \in DOMAIN code /\ e + 1 = p
      /\ e \in a .. n /\ ~(p <= e) /\ e \in 1 .. Len(code) + 1
      /\ p \in 1 .. Len(code) + 1
  BY <1>1, <1>4, <1>6
<1>8. e \notin high
  <2> HIDE DEF high, e
  <2> QED
    BY <1>3, <1>7
<1>9. ~(m <= was) /\ m <= is /\ was \in Int /\ is \in Int
  <2> HIDE DEF e
  <2> QED
    BY <1>4, <1>5, <1>7, <1>8
<1>10. /\ code[e].op \in Opening => is = was + 1
       /\ code[e].op = "end" => is = was - 1
       /\ code[e].op \notin Opening \cup {"end"} => is = was
  <2> HIDE DEF e
  <2> QED
    BY <1>7, LevelSteps
<1> HIDE DEF e, was, is, high
<1>11. code[e].op \in Opening /\ was + 1 = m
  BY <1>9, <1>10
<1> QED
  BY <1>7, <1>11 DEF was

\* What validation asks of an instruction, of the body instead of what is before it.
LEMMA PrefixLevels ==
    ASSUME NEW code \in Seq(Instrs), NEW i \in DOMAIN code
    PROVE  /\ Len(SubSeq(code, 1, i - 1)) + 1 = i
           /\ \A j \in 1 .. i - 1 : SubSeq(code, 1, i - 1)[j] = code[j]
           /\ \A j \in 1 .. i : Level(SubSeq(code, 1, i - 1), j) = Level(code, j)
<1> DEFINE prefix == SubSeq(code, 1, i - 1)
<1>1. i \in Nat /\ 1 <= i /\ i <= Len(code)
  OBVIOUS
<1>2. Len(prefix) = i - 1 /\ \A j \in 1 .. i - 1 : prefix[j] = code[j]
  BY <1>1
<1> HIDE DEF prefix
<1>3. ASSUME NEW j \in 1 .. i PROVE Level(prefix, j) = Level(code, j)
  <2>1. \A k \in 1 .. j - 1 : k \in 1 .. i - 1
    BY <1>1
  <2>2. /\ {k \in 1 .. j - 1 : Opens(prefix[k])} = {k \in 1 .. j - 1 : Opens(code[k])}
        /\ {k \in 1 .. j - 1 : prefix[k].op = "end"} = {k \in 1 .. j - 1 : code[k].op = "end"}
    BY <1>2, <2>1, Zenon
  <2> QED
    BY <2>2 DEF Level
<1>4. Len(prefix) + 1 = i
  BY <1>1, <1>2
<1> QED
  BY <1>2, <1>3, <1>4 DEF prefix

LEMMA LabelsInRange ==
    ASSUME NEW code \in Seq(Instrs), WellFormed(code), NEW i \in DOMAIN code
    PROVE  /\ code[i].op \in Labelled =>
                \A k \in DOMAIN code[i].arg : code[i].arg[k] \in Nat /\ code[i].arg[k] < Level(code, i)
           /\ code[i].op = "else" => Level(code, i) > 1
<1> DEFINE prefix == SubSeq(code, 1, i - 1)
<1>1. /\ Len(prefix) + 1 = i /\ \A j \in 1 .. i - 1 : prefix[j] = code[j]
      /\ \A j \in 1 .. i : Level(prefix, j) = Level(code, j)
  BY PrefixLevels
<1>2. MayFollow(prefix, code[i])
  BY DEF WellFormed
<1>3. i \in 1 .. i /\ i \in Nat /\ i <= Len(code) /\ Len(code) \in Nat /\ DOMAIN code = 1 .. Len(code)
  OBVIOUS
<1>4. code[i].arg \in Seq(Nat)
  BY OpensInBody
<1> HIDE DEF prefix
<1>5. ASSUME code[i].op \in Labelled, NEW k \in DOMAIN code[i].arg
      PROVE  code[i].arg[k] \in Nat /\ code[i].arg[k] < Level(code, i)
  <2>1. code[i].arg[k] < Level(prefix, i)
    BY <1>1, <1>2, <1>5 DEF MayFollow
  <2>2. code[i].arg[k] \in Nat
    BY <1>4
  <2> QED
    BY <1>1, <1>3, <2>1, <2>2
<1>6. ASSUME code[i].op = "else" PROVE Level(code, i) > 1
  <2> DEFINE L == {j \in 1 .. i - 1 : Opens(prefix[j]) /\ Level(prefix, j) + 1 = Level(prefix, i) - 0}
  <2>1. Label(prefix, i, 0) # 0
    BY <1>1, <1>2, <1>6 DEF MayFollow
  <2>2. Label(prefix, i, 0) = Max({0} \cup L)
    BY DEF Label
  <2>3. L # {}
    <3>1. ASSUME L = {} PROVE FALSE
      <4>1. {0} \cup L = {0}
        BY <3>1
      <4>2. {0} \in SUBSET Nat /\ {0} # {} /\ 0 \in Nat /\ \A x \in {0} : x <= 0
        OBVIOUS
      <4>3. Max({0}) \in {0}
        BY <4>2, GreatestElement
      <4> HIDE DEF L
      <4> QED
        BY <2>1, <2>2, <4>1, <4>3
    <3> QED
      BY <3>1
  <2>4. PICK j \in 1 .. i - 1 : Level(prefix, j) + 1 = Level(prefix, i) - 0
    BY <2>3
  <2>5. j \in 1 .. i /\ j \in DOMAIN code
    BY <1>3
  <2>6. Level(code, j) + 1 = Level(code, i) - 0
    BY <1>1, <1>3, <2>4, <2>5
  <2>7. Level(code, j) > 0 /\ Level(code, j) \in Int /\ Level(code, i) \in Int
    BY <1>3, <2>5, LevelSteps, WellFormedLevels
  <2> QED
    BY <2>6, <2>7
<1> QED
  BY <1>5, <1>6

\* The last instruction ends the function's own block.
LEMMA LastEnds ==
    ASSUME NEW code \in Seq(Instrs), WellFormed(code)
    PROVE  /\ Len(code) \in DOMAIN code /\ code[Len(code)].op = "end" /\ Level(code, Len(code)) = 1
           /\ \A n \in DOMAIN code : code[n].op = "end" /\ Level(code, n) = 1 => n = Len(code)
           /\ \A k \in DOMAIN code : code[k].op \in BlockStyle => Closing(code, k) < Len(code)
<1>1. /\ Len(code) \in Nat \ {0} /\ DOMAIN code = 1 .. Len(code) /\ Len(code) \in DOMAIN code
      /\ Level(code, Len(code) + 1) = 0 /\ \A i \in DOMAIN code : Level(code, i) > 0
      /\ \A i \in DOMAIN code : Level(code, i) \in Int
  BY LevelSteps, WellFormedLevels
<1>2. code[Len(code)].op = "end" /\ Level(code, Len(code)) = 1
  <2> DEFINE n == Len(code)
             was == Level(code, n)
             is == Level(code, n + 1)
  <2>1. /\ code[n].op \in Opening => is = was + 1
        /\ code[n].op = "end" => is = was - 1
        /\ code[n].op \notin Opening \cup {"end"} => is = was
    BY <1>1, LevelSteps
  <2>2. was > 0 /\ was \in Int /\ is = 0
    BY <1>1
  <2> HIDE DEF was, is
  <2>3. code[n].op = "end" /\ was = 1
    BY <2>1, <2>2
  <2> QED
    BY <2>3 DEF was
<1>3. ASSUME NEW n \in DOMAIN code, code[n].op = "end", Level(code, n) = 1 PROVE n = Len(code)
  <2>1. Level(code, n + 1) = 0
    BY <1>3, LevelSteps
  <2>2. n + 1 \notin DOMAIN code
    BY <1>1, <2>1
  <2> QED
    BY <1>1, <2>2
<1>4. ASSUME NEW k \in DOMAIN code, code[k].op \in BlockStyle PROVE Closing(code, k) < Len(code)
  <2> DEFINE c == Closing(code, k)
  <2>1. c \in DOMAIN code /\ Level(code, c) = BlockLevel(code, k)
    BY <1>4, InsideBlock
  <2>2. BlockLevel(code, k) > 1
    <3>1. CASE code[k].op = "else"
      <4>1. Level(code, k) > 1
        BY <3>1, LabelsInRange
      <4> QED
        BY <1>1, <3>1, <4>1 DEF BlockLevel
    <3>2. CASE code[k].op # "else"
      BY <1>1, <3>2 DEF BlockLevel
    <3> QED
      BY <3>1, <3>2
  <2> HIDE DEF c
  <2>3. c # Len(code)
    BY <1>1, <1>2, <2>1, <2>2
  <2> QED
    BY <1>1, <2>1, <2>3 DEF c
<1> QED
  BY <1>1, <1>2, <1>3, <1>4
\* The block that label d means at i: it is open there, and ends where EndOfLabel says.
LEMMA LabelOpens ==
    ASSUME NEW code \in Seq(Instrs), WellFormed(code), NEW i \in DOMAIN code,
           NEW d \in Nat, d < Level(code, i)
    PROVE  \/ Label(code, i, d) = 0 /\ Level(code, i) - d = 1
           \/ /\ Label(code, i, d) \in 1 .. i - 1 /\ code[Label(code, i, d)].op \in Opening
              /\ Level(code, Label(code, i, d)) + 1 = Level(code, i) - d
              /\ \A j \in Label(code, i, d) + 1 .. i - 1 :
                    ~(code[j].op \in Opening /\ Level(code, j) + 1 = Level(code, i) - d)
<1> DEFINE m == Level(code, i) - d
           L == {j \in 1 .. i - 1 : Opens(code[j]) /\ Level(code, j) + 1 = m}
           T == {0} \cup L
           x == Label(code, i, d)
<1>1. /\ i \in Nat /\ 1 <= i /\ i <= Len(code) /\ Len(code) \in Nat /\ DOMAIN code = 1 .. Len(code)
      /\ Level(code, i) \in Int /\ Level(code, 1) = 1 /\ m \in Int /\ 0 < m
  <2>1. i \in Nat /\ 1 <= i /\ i <= Len(code) /\ Len(code) \in Nat /\ DOMAIN code = 1 .. Len(code)
    OBVIOUS
  <2>2. Level(code, i) \in Int /\ Level(code, 1) = 1
    BY <2>1, LevelSteps
  <2> QED
    BY <2>1, <2>2
<1>2. x = Max(T)
  BY DEF Label
<1>3. T \in SUBSET Nat /\ T # {} /\ \A y \in T : y <= i
  BY <1>1
<1>4. \A j \in 1 .. i - 1 : Opens(code[j]) <=> code[j].op \in Opening
  BY <1>1, OpensInBody
<1>5. \A j : j \in L <=> j \in 1 .. i - 1 /\ code[j].op \in Opening /\ Level(code, j) + 1 = m
  BY <1>4
<1>6. \A j : j \in T <=> j = 0 \/ j \in L
  OBVIOUS
<1> HIDE DEF m, L, T, x
<1>7. x \in T /\ \A y \in T : y <= x
  BY <1>1, <1>2, <1>3, GreatestElement
<1>8. CASE x = 0
  <2>1. ASSUME m # 1 PROVE FALSE
    <3>1. Level(code, 1) < m /\ m <= Level(code, i)
      BY <1>1, <2>1 DEF m
    <3>2. PICK j \in 1 .. i - 1 : code[j].op \in Opening /\ Level(code, j) + 1 = m
      <4>1. 1 \in 1 .. Len(code) + 1 /\ i \in 1 .. Len(code) + 1
        BY <1>1
      <4> QED
        BY <1>1, <3>1, <4>1, LevelRises
    <3>3. j \in T
      BY <1>5, <1>6, <3>2
    <3> QED
      BY <1>7, <1>8, <3>3
  <2> QED
    BY <1>8, <2>1 DEF x, m
<1>9. CASE x # 0
  <2>1. x \in 1 .. i - 1 /\ code[x].op \in Opening /\ Level(code, x) + 1 = m
    BY <1>5, <1>6, <1>7, <1>9
  <2>2. ASSUME NEW j \in x + 1 .. i - 1, code[j].op \in Opening, Level(code, j) + 1 = m PROVE FALSE
    <3>1. j \in 1 .. i - 1 /\ ~(j <= x)
      BY <2>1
    <3>2. j \in T
      BY <1>5, <1>6, <2>2, <3>1
    <3> QED
      BY <1>7, <3>1, <3>2
  <2> QED
    BY <2>1, <2>2 DEF x, m
<1> QED
  BY <1>8, <1>9

\* An end e closes a block at level m that is open at i: it is the first one after i at m, and
\* blocks between the two end before it.
Closes(code, i, m, e) ==
    /\ e \in DOMAIN code /\ i < e /\ code[e].op = "end" /\ Level(code, e) = m
    /\ \A n \in DOMAIN code : i < n /\ n <= e =>
          /\ code[n].op = "end" /\ Level(code, n) = m => n = e
          /\ code[n].op \in BlockStyle =>
                Closing(code, n) <= e /\ (code[n].op # "else" => Closing(code, n) < e)

LEMMA BlockCloses ==
    ASSUME NEW code \in Seq(Instrs), WellFormed(code), NEW i \in DOMAIN code,
           code[i].op \in BlockStyle
    PROVE  Closes(code, i, BlockLevel(code, i), Closing(code, i))
BY InsideBlock, NestedBlocks DEF Closes

LEMMA LabelCloses ==
    ASSUME NEW code \in Seq(Instrs), WellFormed(code), NEW i \in DOMAIN code,
           NEW d \in Nat, d < Level(code, i), code[i].op # "end"
    PROVE  Closes(code, i, Level(code, i) - d, EndOfLabel(code, i, d))
<1> DEFINE m == Level(code, i) - d
           x == Label(code, i, d)
           e == EndOfLabel(code, i, d)
<1>1. /\ i \in Nat /\ 1 <= i /\ i <= Len(code) /\ Len(code) \in Nat /\ DOMAIN code = 1 .. Len(code)
      /\ \A n \in DOMAIN code : Level(code, n) \in Int
      /\ m \in Int
  <2>1. i \in Nat /\ 1 <= i /\ i <= Len(code) /\ Len(code) \in Nat /\ DOMAIN code = 1 .. Len(code)
    OBVIOUS
  <2>2. \A n \in DOMAIN code : Level(code, n) \in Int
    BY LevelSteps
  <2> QED
    BY <2>1, <2>2
<1>2. CASE x = 0
  <2>1. m = 1
    BY <1>2, LabelOpens
  <2>2. e = Len(code)
    BY <1>2 DEF EndOfLabel
  <2>3. /\ Len(code) \in DOMAIN code /\ code[Len(code)].op = "end" /\ Level(code, Len(code)) = 1
        /\ \A n \in DOMAIN code : code[n].op = "end" /\ Level(code, n) = 1 => n = Len(code)
        /\ \A k \in DOMAIN code : code[k].op \in BlockStyle => Closing(code, k) < Len(code)
    BY LastEnds
  <2>4. i < Len(code)
    BY <1>1, <2>3
  <2>5. \A k \in DOMAIN code : code[k].op \in BlockStyle => Closing(code, k) \in DOMAIN code
    BY InsideBlock
  <2>6. \A k \in DOMAIN code : code[k].op \in BlockStyle => Closing(code, k) <= Len(code)
    BY <1>1, <2>5
  <2> HIDE DEF m, e, x
  <2> QED
    BY <2>1, <2>2, <2>3, <2>4, <2>6 DEF Closes, m, e
<1>3. CASE x # 0
  <2> DEFINE c == Closing(code, x)
  <2>1. /\ x \in 1 .. i - 1 /\ code[x].op \in Opening /\ Level(code, x) + 1 = m
        /\ \A j \in x + 1 .. i - 1 : ~(code[j].op \in Opening /\ Level(code, j) + 1 = m)
    BY <1>3, LabelOpens
  <2>2. e = c
    BY <1>3 DEF EndOfLabel
  <2>3. x \in DOMAIN code /\ x \in Nat /\ x < i /\ code[x].op \in BlockStyle /\ code[x].op # "else"
    BY <1>1, <2>1 DEF BlockStyle, Opening
  <2>4. BlockLevel(code, x) = m
    BY <2>1, <2>3 DEF BlockLevel
  <2>5. Closes(code, x, m, c)
    BY <2>3, <2>4, BlockCloses
  <2>6. c \in DOMAIN code /\ c \in Nat /\ code[c].op = "end" /\ Level(code, c) = m
    BY <1>1, <2>5 DEF Closes
  <2>7. c # i
    BY <2>6
  <2>8. ASSUME c < i PROVE FALSE
    <3>1. Level(code, c + 1) = m - 1
      BY <2>6, LevelSteps
    <3>2. c + 1 \in 1 .. Len(code) + 1 /\ i \in c + 1 .. Len(code) + 1
      BY <1>1, <2>6, <2>8
    <3>3. Level(code, c + 1) < m /\ m <= Level(code, i)
      BY <1>1, <3>1
    <3>4. PICK j \in c + 1 .. i - 1 : code[j].op \in Opening /\ Level(code, j) + 1 = m
      BY <1>1, <3>2, <3>3, LevelRises
    <3>5. x < c
      BY <2>5 DEF Closes
    <3>6. j \in x + 1 .. i - 1
      BY <1>1, <2>3, <2>6, <3>4, <3>5
    <3> QED
      BY <2>1, <3>4, <3>6
  <2>9. i < c
    BY <1>1, <2>6, <2>7, <2>8
  <2>10. \A n \in DOMAIN code : i < n => x < n
    BY <1>1, <2>3
  <2> HIDE DEF m, e, x, c
  <2>11. Closes(code, i, m, c)
    BY <2>5, <2>9, <2>10 DEF Closes
  <2> QED
    BY <2>2, <2>11 DEF m, e
<1> QED
  BY <1>2, <1>3

\* A replaced block that takes the end of a block takes all of the block after the
\* alternate's beginning.
LEMMA EndStays ==
    ASSUME Shape, NEW i \in DOMAIN body, i \notin ReplacedInstrs, NEW m, NEW e, Closes(body, i, m, e)
    PROVE  e \notin ReplacedInstrs
<1>1. /\ i \in Nat /\ e \in DOMAIN body /\ e \in Nat /\ i < e
  BY BodyFacts DEF Closes
<1>2. ASSUME NEW k \in AskedAlts, e \in RegionOf(k) PROVE FALSE
  <2>1. /\ k \in DOMAIN body /\ body[k].op \in BlockStyle /\ k \in Nat /\ Closing(body, k) \in Nat
        /\ k <= e /\ e <= Closing(body, k) /\ (body[k].op = "else" => e < Closing(body, k))
        /\ i \in RegionOf(k) <=> /\ k <= i /\ i <= Closing(body, k)
                                 /\ body[k].op = "else" => i < Closing(body, k)
    BY <1>1, <1>2, AltFacts
  <2>2. CASE k <= i
    <3>1. i \in RegionOf(k)
      BY <1>1, <2>1, <2>2
    <3> QED
      BY <3>1 DEF ReplacedInstrs
  <2>3. CASE ~(k <= i)
    <3>1. Closing(body, k) <= e /\ (body[k].op # "else" => Closing(body, k) < e)
      BY <1>1, <2>1, <2>3 DEF Closes
    <3> QED
      BY <1>1, <2>1, <3>1
  <2> QED
    BY <2>2, <2>3
<1> QED
  BY <1>2 DEF ReplacedInstrs

\* The else or end an if's exit waits for.
LEMMA ElseOrClosingFacts ==
    ASSUME NEW code \in Seq(Instrs), WellFormed(code), NEW i \in DOMAIN code,
           code[i].op \in BlockStyle
    PROVE  /\ ElseOrClosing(code, i) \in DOMAIN code
           /\ i < ElseOrClosing(code, i) /\ ElseOrClosing(code, i) <= Closing(code, i)
           /\ code[ElseOrClosing(code, i)].op = "else" \/ ElseOrClosing(code, i) = Closing(code, i)
<1> DEFINE c == Closing(code, i)
           T == ElseOf(code, i) \cup {c}
           w == ElseOrClosing(code, i)
<1>1. Len(code) \in Nat /\ DOMAIN code = 1 .. Len(code) /\ i \in Nat
  OBVIOUS
<1>2. c \in DOMAIN code /\ i < c /\ c \in Nat
  BY <1>1, InsideBlock
<1>3. \A x \in ElseOf(code, i) : x \in i + 1 .. c /\ code[x].op = "else"
  BY DEF ElseOf
<1>4. w = Min(T)
  BY DEF ElseOrClosing
<1> HIDE DEF c, w
<1>5. T \in SUBSET Nat /\ T # {}
  BY <1>1, <1>2, <1>3
<1>6. \E x \in T : \A y \in T : x <= y
  <2> HIDE DEF T
  <2> QED
    BY <1>5, LeastElement
<1>7. w \in T
  <2> HIDE DEF T
  <2> QED
    BY <1>4, <1>6 DEF Min
<1>8. w = c \/ (w \in i + 1 .. c /\ code[w].op = "else")
  BY <1>3, <1>7
<1> QED
  BY <1>1, <1>2, <1>8 DEF c, w
(***************************************************************************)
(* What the caller asks for: every operator injected is a probe of its     *)
(* own, in one list, whose mode fits the instruction.                      *)
(***************************************************************************)
Injections == {Probe(n) : n \in 1 .. probes}
Fits(ls, fs) ==
    /\ \A i \in DOMAIN body : \A m \in Modes : \A p \in RunOf(ls[i][m]) :
            p \in Injections /\ Applicable(body[i].op, m)
    /\ \A f \in FuncModes : \A p \in RunOf(fs[f]) : p \in Injections
Apart(ls, fs) ==
    /\ \A i, j \in DOMAIN body : \A m, n \in Modes : \A p \in RunOf(ls[i][m]) :
            p \in RunOf(ls[j][n]) => i = j /\ m = n
    /\ \A i \in DOMAIN body : \A m \in Modes : \A f \in FuncModes : \A p \in RunOf(ls[i][m]) :
            p \notin RunOf(fs[f])
    /\ \A f, g \in FuncModes : \A p \in RunOf(fs[f]) : p \in RunOf(fs[g]) => f = g
AskedOnce ==
    IF phase = "edit" THEN Fits(lists, funcLists) /\ Apart(lists, funcLists)
    ELSE /\ Fits(asked.lists, asked.func) /\ Apart(asked.lists, asked.func)
         /\ \A i \in DOMAIN body : \A m \in Optional \ asked.some[i] : asked.lists[i][m] = <<>>

\* A call adds at most one probe, a new one, to one list, where its mode fits.
IsNew(p) == probes' = probes + 1 /\ p = Probe(probes')
GainsAt(i, m) ==
    /\ probes' = probes \/ probes' = probes + 1
    /\ \A j \in DOMAIN body : \A n \in Modes : \A p \in RunOf(lists'[j][n]) :
            \/ p \in RunOf(lists[j][n])
            \/ IsNew(p) /\ j = i /\ n = m /\ Applicable(body[j].op, n)
    /\ \A f \in FuncModes : \A p \in RunOf(funcLists'[f]) :
            p \in RunOf(funcLists[f]) \/ (IsNew(p) /\ f = m)
Gains == \E i \in DOMAIN body : \E m \in Modes \cup FuncModes : GainsAt(i, m)

LEMMA RunOfAppend ==
    ASSUME NEW s \in Codes, NEW x
    PROVE  \A p \in RunOf(Append(s, x)) : p \in RunOf(s) \/ p = x
<1> DEFINE r == Append(s, x)
           n == Len(s)
<1>1. n \in Nat /\ DOMAIN s = 1 .. n /\ DOMAIN r = 1 .. n + 1
      /\ \A k \in 1 .. n + 1 : r[k] = IF k = n + 1 THEN x ELSE s[k]
  BY DEF Codes
<1> HIDE DEF r, n
<1>2. ASSUME NEW k \in 1 .. n + 1 PROVE r[k] \in RunOf(s) \/ r[k] = x
  <2>1. CASE k = n + 1
    BY <1>1, <2>1
  <2>2. CASE k # n + 1
    <3>1. k \in 1 .. n /\ r[k] = s[k]
      BY <1>1, <2>2
    <3> QED
      BY <1>1, <3>1 DEF RunOf
  <2> QED
    BY <2>1, <2>2
<1>3. \A p \in RunOf(r) : p \in RunOf(s) \/ p = x
  BY <1>1, <1>2 DEF RunOf
<1> QED
  BY <1>3 DEF r

LEMMA SameGains ==
    ASSUME Shape, UNCHANGED <<lists, funcLists, probes>>
    PROVE  Gains
<1>1. cursor \in DOMAIN body /\ "entry" \in Modes \cup FuncModes
  BY DEF Shape, FuncModes
<1>2. GainsAt(cursor, "entry")
  BY DEF GainsAt
<1> QED
  BY <1>1, <1>2 DEF Gains

LEMMA AddInstrGains ==
    ASSUME TypeOK, Shape, Coded, NewProbe
    PROVE  /\ \A i \in DOMAIN body : \A m \in Modes : AddInstr(i, m) => Gains
           /\ funcMode \in FuncModes /\ AddFuncInstr => Gains
           /\ \A i \in DOMAIN body : \A m \in Modes : AddInstrOfFunc(i, m) => Gains
<1>1. /\ DOMAIN lists = DOMAIN body /\ \A i \in DOMAIN body : DOMAIN lists[i] = Modes
      /\ DOMAIN funcLists = FuncModes /\ \A m \in FuncModes : funcLists[m] \in Codes
      /\ \A i \in DOMAIN body : \A m \in Modes : lists[i][m] \in Codes
      /\ cursor \in DOMAIN body
      /\ funcMode \in FuncModes \cup {None}
      /\ FuncModes \cap Modes = {}
  BY ModesFacts DEF Shape, TypeOK, Coded, ListsCoded
<1>2. probes' = probes + 1
  BY DEF NewProbe
<1>3. ASSUME NEW i \in DOMAIN body, NEW m \in Modes, AddInstr(i, m) PROVE Gains
  <2> DEFINE x == Append(lists[i][m], Probe(probes'))
  <2>1. lists' = [lists EXCEPT ![i][m] = x] /\ funcLists' = funcLists /\ Applicable(body[i].op, m)
    BY <1>3 DEF AddInstr
  <2>2. \A p \in RunOf(x) : p \in RunOf(lists[i][m]) \/ p = Probe(probes')
    BY <1>1, RunOfAppend
  <2> HIDE DEF x
  <2>3. ASSUME NEW j \in DOMAIN body, NEW n \in Modes
        PROVE  lists'[j][n] = IF j = i /\ n = m THEN x ELSE lists[j][n]
    <3>1. CASE j = i
      BY <1>1, <2>1, <3>1
    <3>2. CASE j # i
      BY <1>1, <2>1, <3>2
    <3> QED
      BY <3>1, <3>2
  <2>4. ASSUME NEW j \in DOMAIN body, NEW n \in Modes, NEW p \in RunOf(lists'[j][n])
        PROVE  \/ p \in RunOf(lists[j][n])
               \/ IsNew(p) /\ j = i /\ n = m /\ Applicable(body[j].op, n)
    <3>1. CASE j = i /\ n = m
      BY <1>2, <2>1, <2>2, <2>3, <2>4, <3>1 DEF IsNew
    <3>2. CASE ~(j = i /\ n = m)
      BY <2>3, <2>4, <3>2
    <3> QED
      BY <3>1, <3>2
  <2>5. GainsAt(i, m)
    BY <1>2, <2>1, <2>4 DEF GainsAt
  <2> QED
    BY <2>5 DEF Gains
<1>4. ASSUME funcMode \in FuncModes, AddFuncInstr PROVE Gains
  <2> DEFINE x == Append(funcLists[funcMode], Probe(probes'))
  <2>1. funcLists' = [funcLists EXCEPT ![funcMode] = x] /\ lists' = lists
    BY <1>4 DEF AddFuncInstr
  <2>2. \A p \in RunOf(x) : p \in RunOf(funcLists[funcMode]) \/ p = Probe(probes')
    BY <1>1, <1>4, RunOfAppend
  <2> HIDE DEF x
  <2>3. ASSUME NEW f \in FuncModes, NEW p \in RunOf(funcLists'[f])
        PROVE  p \in RunOf(funcLists[f]) \/ (IsNew(p) /\ f = funcMode)
    <3>1. CASE f = funcMode
      BY <1>1, <1>2, <2>1, <2>2, <2>3, <3>1 DEF IsNew
    <3>2. CASE f # funcMode
      BY <1>1, <2>1, <2>3, <3>2
    <3> QED
      BY <3>1, <3>2
  <2>4. GainsAt(cursor, funcMode)
    BY <1>2, <2>1, <2>3 DEF GainsAt
  <2> QED
    BY <1>1, <1>4, <2>4 DEF Gains
<1> QED
  BY <1>1, <1>3, <1>4 DEF AddInstrOfFunc

LEMMA EditGains ==
    ASSUME TypeOK, Shape, Coded, Instrument
    PROVE  Gains
<1>1. /\ DOMAIN lists = DOMAIN body /\ \A i \in DOMAIN body : DOMAIN lists[i] = Modes
      /\ cursor \in DOMAIN body /\ modes[cursor] \in Modes \cup {None}
      /\ funcMode \in FuncModes \cup {None}
  BY DEF Shape, TypeOK
<1>2. ASSUME Inject PROVE Gains
  <2>1. /\ NewProbe
        /\ modes[cursor] # None \/ funcMode # None
        /\ AddInstrOfFunc(cursor, modes[cursor])
    BY <1>2 DEF Inject
  <2>2. CASE modes[cursor] \in Modes
    BY <1>1, <2>1, <2>2, AddInstrGains
  <2>3. CASE modes[cursor] = None
    <3>1. AddFuncInstr /\ funcMode \in FuncModes
      BY <1>1, <2>1, <2>3 DEF AddInstrOfFunc
    <3> QED
      BY <2>1, <3>1, AddInstrGains
  <2> QED
    BY <1>1, <2>2, <2>3
<1>3. ASSUME NEW i \in DOMAIN body, NEW m \in Modes, InjectAt(i, m) PROVE Gains
  <2>1. NewProbe /\ (AddInstrOfFunc(i, m) \/ AddInstr(i, m))
    BY <1>3 DEF InjectAt
  <2> QED
    BY <2>1, AddInstrGains
<1>4. ASSUME NEW i \in DOMAIN body, NEW m \in Modes, ClearInstrAt(i, m) \/ EmptyAt(i, m)
      PROVE  Gains
  <2>1. lists' = [lists EXCEPT ![i][m] = <<>>] /\ UNCHANGED <<funcLists, probes>>
    BY <1>4 DEF ClearInstrAt, EmptyAt
  <2>2. ASSUME NEW j \in DOMAIN body, NEW n \in Modes
        PROVE  lists'[j][n] = lists[j][n] \/ lists'[j][n] = <<>>
    <3>1. CASE j = i
      BY <1>1, <2>1, <3>1
    <3>2. CASE j # i
      BY <1>1, <2>1, <3>2
    <3> QED
      BY <3>1, <3>2
  <2>3. \A j \in DOMAIN body : \A n \in Modes : \A p \in RunOf(lists'[j][n]) : p \in RunOf(lists[j][n])
    BY <2>2, RunOfFacts
  <2>4. GainsAt(i, m)
    BY <2>1, <2>3 DEF GainsAt
  <2> QED
    BY <2>4 DEF Gains
<1>5. ASSUME NEW i \in DOMAIN body, NEW m \in Modes, SetInstrumentMode(i, m) PROVE Gains
  BY <1>5, SameGains DEF SetInstrumentMode
<1>6. ASSUME NEW m \in FuncModes, SetFuncInstrumentMode(m) PROVE Gains
  BY <1>6, SameGains DEF SetFuncInstrumentMode
<1>7. ASSUME FinishInstr PROVE Gains
  BY <1>7, SameGains DEF FinishInstr
<1> QED
  BY <1>2, <1>3, <1>4, <1>5, <1>6, <1>7 DEF Instrument

LEMMA GainsKeepApart ==
    ASSUME probes \in Nat, body' = body, Fits(lists, funcLists), Apart(lists, funcLists), Gains
    PROVE  Fits(lists, funcLists)' /\ Apart(lists, funcLists)'
<1> PICK i0 \in DOMAIN body, m0 \in Modes \cup FuncModes : GainsAt(i0, m0)
  BY DEF Gains
<1>1. FuncModes \cap Modes = {}
  BY ModesFacts
<1>2. \A p \in Injections : p \in Injections' /\ ~IsNew(p)
  <2>1. ASSUME NEW n \in 1 .. probes PROVE Probe(n) \in Injections' /\ ~IsNew(Probe(n))
    <3>1. n \in 1 .. probes' /\ n # probes + 1
      BY DEF GainsAt
    <3>2. Probe(n).arg[1] = n /\ \A k : Probe(k).arg[1] = k
      BY DEF Probe, Instr
    <3>3. Probe(n) # Probe(probes + 1)
      BY <3>1, <3>2
    <3> QED
      BY <3>1, <3>3 DEF Injections, IsNew
  <2> QED
    BY <2>1 DEF Injections
<1>3. \A p : IsNew(p) => p \in Injections'
  BY DEF IsNew, Injections
<1>4. /\ \A j \in DOMAIN body : \A n \in Modes : \A p \in RunOf(lists'[j][n]) :
            \/ p \in RunOf(lists[j][n])
            \/ IsNew(p) /\ j = i0 /\ n = m0 /\ Applicable(body[j].op, n)
      /\ \A f \in FuncModes : \A p \in RunOf(funcLists'[f]) :
            p \in RunOf(funcLists[f]) \/ (IsNew(p) /\ f = m0)
  BY DEF GainsAt
<1>5. /\ \A i \in DOMAIN body : \A m \in Modes : \A p \in RunOf(lists[i][m]) :
            p \in Injections /\ Applicable(body[i].op, m)
      /\ \A f \in FuncModes : \A p \in RunOf(funcLists[f]) : p \in Injections
  BY DEF Fits
<1>6. Fits(lists, funcLists)'
  BY <1>2, <1>3, <1>4, <1>5 DEF Fits
<1>7. ASSUME NEW i \in DOMAIN body, NEW j \in DOMAIN body, NEW m \in Modes, NEW n \in Modes,
             NEW p \in RunOf(lists'[i][m]), p \in RunOf(lists'[j][n])
      PROVE  i = j /\ m = n
  <2>1. CASE IsNew(p)
    BY <1>2, <1>4, <1>5, <1>7, <2>1
  <2>2. CASE ~IsNew(p)
    BY <1>4, <1>7, <2>2 DEF Apart
  <2> QED
    BY <2>1, <2>2
<1>8. ASSUME NEW i \in DOMAIN body, NEW m \in Modes, NEW f \in FuncModes,
             NEW p \in RunOf(lists'[i][m]), p \in RunOf(funcLists'[f])
      PROVE  FALSE
  <2>1. CASE IsNew(p)
    BY <1>1, <1>2, <1>4, <1>5, <1>8, <2>1
  <2>2. CASE ~IsNew(p)
    BY <1>4, <1>8, <2>2 DEF Apart
  <2> QED
    BY <2>1, <2>2
<1>9. ASSUME NEW f \in FuncModes, NEW g \in FuncModes, NEW p \in RunOf(funcLists'[f]), p \in RunOf(funcLists'[g])
      PROVE  f = g
  <2>1. CASE IsNew(p)
    BY <1>2, <1>4, <1>5, <1>9, <2>1
  <2>2. CASE ~IsNew(p)
    BY <1>4, <1>9, <2>2 DEF Apart
  <2> QED
    BY <2>1, <2>2
<1>10. Apart(lists, funcLists)'
  BY <1>7, <1>8, <1>9 DEF Apart
<1> QED
  BY <1>6, <1>10
LEMMA InitAsked ==
    ASSUME RunInit
    PROVE  AskedOnce
<1>1. /\ lists = [i \in DOMAIN body |-> NoLists] /\ funcLists = [m \in FuncModes |-> <<>>]
      /\ phase = "edit"
  BY DEF RunInit, ResolverInit, Init
<1>2. \A i \in DOMAIN body : \A m \in Modes : RunOf(lists[i][m]) = {}
  BY <1>1, RunOfFacts DEF NoLists
<1>3. \A f \in FuncModes : RunOf(funcLists[f]) = {}
  BY <1>1, RunOfFacts
<1>4. Fits(lists, funcLists)
  BY <1>2, <1>3 DEF Fits
<1>5. Apart(lists, funcLists)
  BY <1>2, <1>3 DEF Apart
<1> QED
  BY <1>1, <1>4, <1>5 DEF AskedOnce

LEMMA AskedInductive ==
    ASSUME TypeOK, Shape, Coded, AskedOnce, [RunNext]_<<vars, written, runVars>>
    PROVE  AskedOnce'
<1>1. CASE Edit
  <2>1. phase = "edit" /\ phase' = "edit" /\ Instrument
    BY <1>1 DEF Edit
  <2>2. body' = body /\ probes \in Nat
    BY <1>1, EditView DEF Edited, Coded, ListsCoded
  <2>3. Gains
    BY <2>1, EditGains
  <2>4. Fits(lists, funcLists) /\ Apart(lists, funcLists)
    BY <2>1 DEF AskedOnce
  <2>5. Fits(lists, funcLists)' /\ Apart(lists, funcLists)'
    BY <2>2, <2>3, <2>4, GainsKeepApart
  <2> QED
    BY <2>1, <2>5 DEF AskedOnce
<1>2. CASE Begin
  <2>1. phase = "edit" /\ phase' # "edit" /\ body' = body /\ probes' = probes /\ asked' = Ask
    BY <1>2 DEF Begin
  <2>2. asked'.lists = lists /\ asked'.func = funcLists /\ asked'.some = some
    BY <2>1 DEF Ask
  <2>3. Fits(lists, funcLists) /\ Apart(lists, funcLists)
    BY <2>1 DEF AskedOnce
  <2>4. Injections' = Injections
    BY <2>1 DEF Injections
  <2>5. Fits(asked.lists, asked.func)'
    BY <2>1, <2>2, <2>3, <2>4 DEF Fits
  <2>6. Apart(asked.lists, asked.func)'
    BY <2>1, <2>2, <2>3 DEF Apart
  <2>7. \A i \in DOMAIN body : \A m \in Optional \ some[i] : lists[i][m] = <<>>
    BY DEF TypeOK
  <2> QED
    BY <2>1, <2>2, <2>5, <2>6, <2>7 DEF AskedOnce
<1>3. ASSUME UNCHANGED <<body, lists, funcLists, probes, asked>>, phase' = phase \/ (phase' # "edit" /\ phase # "edit")
      PROVE  AskedOnce'
  <2>1. Injections' = Injections
    BY <1>3 DEF Injections
  <2>2. (Fits(lists, funcLists)' <=> Fits(lists, funcLists)) /\ (Apart(lists, funcLists)' <=> Apart(lists, funcLists))
    BY <1>3, <2>1 DEF Fits, Apart
  <2>3. /\ Fits(asked.lists, asked.func)' <=> Fits(asked.lists, asked.func)
        /\ Apart(asked.lists, asked.func)' <=> Apart(asked.lists, asked.func)
    BY <1>3, <2>1 DEF Fits, Apart
  <2> QED
    BY <1>3, <2>2, <2>3 DEF AskedOnce
<1>4. CASE Resolve
  <2>1. Here
    BY <1>4 DEF Resolve, OpenBlock, AtElse, EndRemoved, EndKept, OtherRemoved, OtherKept
  <2>2. /\ phase = "resolve" /\ phase' # "edit" /\ UNCHANGED <<body, probes, asked>>
    BY <2>1 DEF Here, NextInstr, callerVars
  <2>3. Injections' = Injections
    BY <2>2 DEF Injections
  <2>4. /\ Fits(asked.lists, asked.func)' <=> Fits(asked.lists, asked.func)
        /\ Apart(asked.lists, asked.func)' <=> Apart(asked.lists, asked.func)
    BY <2>2, <2>3 DEF Fits, Apart
  <2> QED
    BY <2>2, <2>4 DEF AskedOnce
<1>5. CASE Write \/ Run \/ UNCHANGED <<vars, written, runVars>>
  <2>1. UNCHANGED <<body, lists, funcLists, probes, asked>> /\ (phase' = phase \/ (phase' # "edit" /\ phase # "edit"))
    BY <1>5 DEF Write, Run, Done, callerVars, vars, apiVars
  <2> QED
    BY <1>3, <2>1
<1> QED
  BY <1>1, <1>2, <1>4, <1>5 DEF RunNext, Prepare
(***************************************************************************)
(* One step of the pass, seen from one probe: where it comes from, and     *)
(* where the step leaves it.                                               *)
(***************************************************************************)
\* Whether the instruction goes, from the pass's own state.
LEMMA GoesOrStays ==
    ASSUME TypeOK, Shape, Region, Given, Stepped
    PROVE  /\ deleteBlock = {} =>
                (idx \in ReplacedInstrs <=> body[idx].op \in BlockStyle /\ "block_alt" \in some[idx])
           /\ deleteBlock # {} =>
                (idx \notin ReplacedInstrs <=>
                    body[idx].op = "end" /\ deleteBlock = {Last(blockStack)} /\ retainEnd)
           /\ idx \in AskedAlts <=> body[idx].op \in BlockStyle /\ "block_alt" \in some[idx]
           /\ idx \in AskedAlts => (Outermost(idx) <=> deleteBlock = {})
<1>1. phase = "resolve" /\ phase # "edit"
  BY DEF Stepped
<1>2. idx \in DOMAIN body /\ idx \in Nat
  BY <1>1, StackFacts
<1>3. idx \in ReplacedInstrs <=> \E k \in AskedAlts : idx \in RegionOf(k)
  BY DEF ReplacedInstrs
<1>4. idx \in AskedAlts <=> body[idx].op \in BlockStyle /\ "block_alt" \in some[idx]
  <2>1. some[idx] = asked.some[idx]
    BY <1>1, <1>2 DEF Given
  <2> QED
    BY <1>2, <2>1 DEF AskedAlts
<1>5. CASE deleteBlock = {}
  <2>1. ASSUME NEW k \in AskedAlts, idx \in RegionOf(k) PROVE k = idx
    <3>1. k \in Nat /\ Closing(body, k) \in Nat /\ k <= idx /\ idx <= Closing(body, k)
      BY <1>2, <2>1, AltFacts
    <3>2. k < idx => Closing(body, k) < idx
      BY <1>1, <1>5 DEF Region
    <3> QED
      BY <1>2, <3>1, <3>2
  <2>2. ASSUME idx \in AskedAlts PROVE idx \in RegionOf(idx)
    <3>1. idx <= idx /\ idx < Closing(body, idx) /\ Closing(body, idx) \in Nat
      BY <1>2, <2>2, AltFacts
    <3> QED
      BY <1>2, <2>2, <3>1, AltFacts
  <2>3. idx \in ReplacedInstrs <=> idx \in AskedAlts
    BY <1>3, <2>1, <2>2
  <2>4. idx \in AskedAlts => Outermost(idx)
    BY <2>1 DEF Outermost
  <2> QED
    BY <1>4, <1>5, <2>3, <2>4
<1>6. CASE deleteBlock # {}
  <2>1. PICK i \in AskedAlts : Deleting(i)
    BY <1>1, <1>6 DEF Region
  <2>2. /\ idx \in RegionOf(i) <=> ~(body[i].op = "else" /\ idx = Closing(body, i))
        /\ idx = Closing(body, i) <=> Ended /\ deleteBlock = {Last(blockStack)}
        /\ body[Closing(body, i)].op = "end"
    BY <2>1, DeletingFacts
  <2>3. Ended <=> body[idx].op = "end"
    BY DEF Stepped, Opened, Elsed, Ended, Passed, Structural, BlockStyle, Opening
  <2>4. (retainEnd <=> body[i].op = "else") /\ i < idx
    BY <2>1 DEF Deleting
  <2>5. ASSUME body[i].op = "else", idx = Closing(body, i) PROVE idx \notin ReplacedInstrs
    <3>1. \A j \in AskedAlts : j < i => Closing(body, j) < i
      BY <2>1 DEF Deleting
    <3>2. ASSUME NEW k \in AskedAlts, idx \in RegionOf(k) PROVE FALSE
      <4>1. k <= idx
        BY <1>2, <3>2, AltFacts
      <4> QED
        BY <2>5, <3>1, <3>2, <4>1, AltsBehind
    <3> QED
      BY <1>3, <3>2
  <2>6. idx \notin ReplacedInstrs <=> body[i].op = "else" /\ idx = Closing(body, i)
    BY <1>3, <2>2, <2>5
  <2>7. ASSUME idx \in AskedAlts PROVE ~Outermost(idx)
    <3>1. body[idx].op # "end"
      BY <1>4, <2>7 DEF BlockStyle, Opening
    <3>2. idx \in RegionOf(i)
      BY <2>2, <3>1
    <3>3. i \in Nat /\ i # idx
      BY <1>2, <2>4, AltFacts
    <3> QED
      BY <3>2, <3>3 DEF Outermost
  <2> QED
    BY <1>4, <1>6, <2>2, <2>3, <2>4, <2>6, <2>7
<1> QED
  BY <1>5, <1>6

FlaggedRuns(due, p) == \E k \in DOMAIN due.flagged : p \in RunOf(due.flagged[k].body)

LEMMA RemoveRuns ==
    ASSUME TypeOK, Shape, phase = "resolve", NEW x, RemoveInstr(x)
    PROVE  /\ lists'[idx]["before"] = x /\ lists'[idx]["after"] = lists[idx]["after"]
           /\ lists'[idx]["alternate"] = <<>>
           /\ \A m \in SpecialModes : lists'[idx][m] = <<>>
           /\ onEnd' = onEnd
<1> DEFINE l == ClearSpecial(lists[idx])
           c == [l EXCEPT !.before = x, !.alternate = <<>>]
<1>1. lists' = [lists EXCEPT ![idx] = c] /\ onEnd' = onEnd
  BY DEF RemoveInstr
<1>2. /\ DOMAIN l = Modes /\ \A m \in SpecialModes : l[m] = <<>> /\ m \in Modes
      /\ "before" \notin SpecialModes /\ "alternate" \notin SpecialModes
  BY ListsFacts, ClearedFacts
<1>3. {"before", "after", "alternate"} \subseteq Modes /\ "after" \notin SpecialModes
  BY DEF Modes, PlainModes, SpecialModes
<1>4. l["after"] = lists[idx]["after"]
  BY <1>3 DEF ClearSpecial
<1> HIDE DEF l
<1>5. /\ c["before"] = x /\ c["after"] = l["after"] /\ c["alternate"] = <<>>
      /\ \A m \in SpecialModes : c[m] = <<>>
  BY <1>2, <1>3
<1>6. lists'[idx] = c
  BY <1>1, ListsFacts
<1> HIDE DEF c
<1> QED
  BY <1>1, <1>4, <1>5, <1>6

LEMMA ReplaceRuns ==
    ASSUME TypeOK, Shape, phase = "resolve", NEW x, NEW b, Replace(x, b)
    PROVE  /\ lists'[idx]["before"] = x /\ lists'[idx]["after"] = lists[idx]["after"]
           /\ lists'[idx]["alternate"] =
                IF lists[idx]["block_alt"] = <<>> THEN <<>>
                ELSE lists[idx]["alternate"] \o lists[idx]["block_alt"]
           /\ \A m \in SpecialModes : lists'[idx][m] = <<>>
           /\ onEnd' = onEnd
<1> DEFINE l == ClearSpecial(lists[idx])
           y == IF lists[idx]["block_alt"] = <<>> THEN <<>>
                ELSE lists[idx]["alternate"] \o lists[idx]["block_alt"]
           c == [l EXCEPT !.before = x, !.alternate = y]
<1>1. lists' = [lists EXCEPT ![idx] = c] /\ onEnd' = onEnd
  BY DEF Replace
<1>2. /\ DOMAIN l = Modes /\ \A m \in SpecialModes : l[m] = <<>> /\ m \in Modes
      /\ "before" \notin SpecialModes /\ "alternate" \notin SpecialModes
  BY ListsFacts, ClearedFacts
<1>3. {"before", "after", "alternate"} \subseteq Modes /\ "after" \notin SpecialModes
  BY DEF Modes, PlainModes, SpecialModes
<1>4. l["after"] = lists[idx]["after"]
  BY <1>3 DEF ClearSpecial
<1> HIDE DEF l, y
<1>5. /\ c["before"] = x /\ c["after"] = l["after"] /\ c["alternate"] = y
      /\ \A m \in SpecialModes : c[m] = <<>>
  BY <1>2, <1>3
<1>6. lists'[idx] = c
  BY <1>1, ListsFacts
<1> HIDE DEF c
<1> QED
  BY <1>1, <1>4, <1>5, <1>6 DEF y
\* Some label of the instruction means block b, seen from block top.
Aims(top, b) == \E k \in DOMAIN body[idx].arg : top - body[idx].arg[k] = b

\* The flagged bodies for one end are there if and only if some label of the branch means it.
LEMMA FlaggedHolds ==
    ASSUME NEW b \in DOMAIN onEnd, NEW top, NEW f \in Nat, NEW c \in Codes, body[idx].arg \in Seq(Nat), NEW p
    PROVE  LET g == Flagged(top, f, c)[b]
           IN  (\E k \in DOMAIN g : p \in RunOf(g[k].body)) <=>
                    p \in RunOf(c) /\ Aims(top, b)
<1> DEFINE labels == {k \in DOMAIN body[idx].arg : top - body[idx].arg[k] = b}
           n == Cardinality(labels)
           one == [flag |-> f, body |-> c]
           g == Flagged(top, f, c)[b]
<1>1. g = [k \in 1 .. n |-> one]
  BY DEF Flagged
<1>2. n \in Nat /\ (n = 0 <=> labels = {})
  <2> DEFINE a == body[idx].arg
  <2>1. Len(a) \in Nat /\ labels \subseteq 1 .. Len(a)
    OBVIOUS
  <2> HIDE DEF a, labels
  <2>2. IsFiniteSet(1 .. Len(a))
    BY <2>1, FS_Interval
  <2>3. IsFiniteSet(labels)
    BY <2>1, <2>2, FS_Subset
  <2> QED
    BY <2>3, FS_CardinalityType, FS_EmptySet
<1>3. labels # {} <=> Aims(top, b)
  BY DEF Aims
<1>4. one.body = c
  OBVIOUS
<1> HIDE DEF n, one, labels, g
<1>5. DOMAIN g = 1 .. n /\ \A k \in 1 .. n : g[k] = one
  BY <1>1
<1>6. n # 0 <=> \E k \in 1 .. n : TRUE
  <2>1. n # 0 => 1 \in 1 .. n
    BY <1>2
  <2> QED
    BY <1>2, <2>1
<1>7. (\E k \in DOMAIN g : p \in RunOf(g[k].body)) <=> p \in RunOf(c) /\ labels # {}
  BY <1>2, <1>4, <1>5, <1>6
<1> QED
  BY <1>3, <1>7 DEF g

LEMMA PlanEndsRuns ==
    ASSUME NEW ends, DuesOf(ends), DuesOf(onEnd), NEW top, NEW f \in Nat,
           NEW l, \A m \in Modes : l[m] \in Codes, body[idx].arg \in Seq(Nat),
           NEW p, NEW b \in 0 .. Len(body)
    PROVE  LET r == PlanEnds(ends, top, f, l)
           IN  /\ p \in RunOf(r[b].before) <=>
                    \/ p \in RunOf(ends[b].before)
                    \/ b = top /\ body[idx].op \in BlockStyle \ {"if"} /\ p \in RunOf(l["block_exit"])
               /\ p \in RunOf(r[b].after) <=>
                    \/ p \in RunOf(ends[b].after)
                    \/ b = top /\ body[idx].op \in BlockStyle /\ p \in RunOf(l["semantic_after"])
               /\ FlaggedRuns(r[b], p) <=>
                    \/ FlaggedRuns(ends[b], p)
                    \/ /\ body[idx].op \in Branching /\ p \in RunOf(l["semantic_after"])
                       /\ Aims(top, b)
<1> DEFINE N == 0 .. Len(body)
           r == PlanEnds(ends, top, f, l)
           op == body[idx].op
           exit == l["block_exit"]
           sem == l["semantic_after"]
<1>1. DOMAIN ends = N /\ DOMAIN onEnd = N /\ ends[b] \in Dues
  BY DEF DuesOf
<1>2. exit \in Codes /\ sem \in Codes
  BY DEF Modes, SpecialModes
<1>3. /\ ends[b].before \in Codes /\ ends[b].after \in Codes
      /\ ends[b].flagged \in Seq([flag : Nat, body : Codes])
  BY <1>1, DueFields
<1>4. \A o : o \in BlockStyle => o \notin Branching
  BY DEF BlockStyle, Opening, Branching
<1>5. BranchFlagged(l) <=> op \in Branching /\ sem # <<>>
  BY DEF BranchFlagged, Op
<1>6. sem = <<>> => p \notin RunOf(sem)
  BY RunOfFacts
<1> HIDE DEF N, r, exit, sem
<1>7. ASSUME op \in BlockStyle
      PROVE  /\ p \in RunOf(r[b].before) <=>
                    p \in RunOf(ends[b].before) \/ (b = top /\ op # "if" /\ p \in RunOf(exit))
             /\ p \in RunOf(r[b].after) <=>
                    p \in RunOf(ends[b].after) \/ (b = top /\ p \in RunOf(sem))
             /\ r[b].flagged = ends[b].flagged
  <2> DEFINE x == IF op = "if" THEN <<>> ELSE exit
  <2>1. r = [ends EXCEPT ![top].before = @ \o x, ![top].after = @ \o sem]
    BY <1>7 DEF PlanEnds, Op, r, exit, sem
  <2>2. x \in Codes /\ (p \in RunOf(x) <=> op # "if" /\ p \in RunOf(exit))
    BY <1>2, SomeCodes, RunOfFacts
  <2> HIDE DEF x
  <2>3. CASE b # top
    <3>1. r[b] = ends[b]
      BY <1>1, <2>1, <2>3 DEF N
    <3> QED
      BY <2>3, <3>1
  <2>4. CASE b = top
    <3> DEFINE d == ends[b]
               u == d.before \o x
               v == d.after \o sem
    <3>1. r[b] = [[d EXCEPT !.before = u] EXCEPT !.after = v]
      BY <1>1, <2>1, <2>4 DEF N
    <3>2. d \in Dues
      BY <1>1
    <3> HIDE DEF u, v
    <3>3. /\ [[d EXCEPT !.before = u] EXCEPT !.after = v].before = u
          /\ [[d EXCEPT !.before = u] EXCEPT !.after = v].after = v
          /\ [[d EXCEPT !.before = u] EXCEPT !.after = v].flagged = d.flagged
      <4> DEFINE F == Seq([flag : Nat, body : Codes])
      <4>1. d \in [before : Codes, flagged : F, after : Codes]
        BY <3>2 DEF Dues
      <4> HIDE DEF F, d
      <4> QED
        BY <4>1
    <3>4. r[b].before = u /\ r[b].after = v /\ r[b].flagged = d.flagged
      BY <3>1, <3>3
    <3>5. RunOf(u) = RunOf(d.before) \cup RunOf(x) /\ RunOf(v) = RunOf(d.after) \cup RunOf(sem)
      BY <1>2, <1>3, <2>2, RunOfFacts DEF u, v
    <3> QED
      BY <2>2, <2>4, <3>4, <3>5
  <2> QED
    BY <2>3, <2>4
<1>8. ASSUME op \notin BlockStyle, BranchFlagged(l)
      PROVE  /\ r[b].before = ends[b].before /\ r[b].after = ends[b].after
             /\ FlaggedRuns(r[b], p) <=>
                    \/ FlaggedRuns(ends[b], p)
                    \/ p \in RunOf(sem) /\ Aims(top, b)
  <2> DEFINE g == Flagged(top, f, sem)[b]
             d == ends[b]
             z == d.flagged \o g
  <2>1. r[b] = [d EXCEPT !.flagged = z]
    <3>1. r = [e \in DOMAIN ends |-> [ends[e] EXCEPT !.flagged = @ \o Flagged(top, f, sem)[e]]]
      BY <1>8 DEF PlanEnds, Op, r, sem
    <3> QED
      BY <1>1, <3>1 DEF N
  <2>2. g \in Seq([flag : Nat, body : Codes])
    BY <1>1, <1>2, FlaggedCoded DEF N
  <2>3. (\E k \in DOMAIN g : p \in RunOf(g[k].body)) <=>
            p \in RunOf(sem) /\ Aims(top, b)
    BY <1>1, <1>2, FlaggedHolds DEF N
  <2> HIDE DEF g, z
  <2>4. r[b].before = d.before /\ r[b].after = d.after /\ r[b].flagged = z
    <3> DEFINE F == Seq([flag : Nat, body : Codes])
    <3>1. d \in [before : Codes, flagged : F, after : Codes]
      BY <1>1 DEF Dues
    <3> HIDE DEF F, d
    <3> QED
      BY <2>1, <3>1
  <2>5. (\E k \in DOMAIN z : p \in RunOf(z[k].body)) <=>
            (\E k \in DOMAIN d.flagged : p \in RunOf(d.flagged[k].body)) \/ (\E k \in DOMAIN g : p \in RunOf(g[k].body))
    <3> DEFINE A == d.flagged
               F == [flag : Nat, body : Codes]
    <3>1. RunOf(z) = RunOf(A) \cup RunOf(g)
      <4>1. A \in Seq(F) /\ g \in Seq(F) /\ z = A \o g
        BY <1>3, <2>2 DEF z
      <4> HIDE DEF A, F
      <4> QED
        BY <4>1, RunOfJoin
    <3>2. /\ (\E k \in DOMAIN z : p \in RunOf(z[k].body)) <=> \E x \in RunOf(z) : p \in RunOf(x.body)
          /\ (\E k \in DOMAIN A : p \in RunOf(A[k].body)) <=> \E x \in RunOf(A) : p \in RunOf(x.body)
          /\ (\E k \in DOMAIN g : p \in RunOf(g[k].body)) <=> \E x \in RunOf(g) : p \in RunOf(x.body)
      BY DEF RunOf
    <3> HIDE DEF A
    <3> QED
      BY <3>1, <3>2 DEF A
  <2> QED
    BY <2>3, <2>4, <2>5 DEF FlaggedRuns
<1>9. ASSUME op \notin BlockStyle, ~BranchFlagged(l) PROVE r = ends
  BY <1>9 DEF PlanEnds, Op, r
<1>10. CASE op \in BlockStyle
  <2>1. FlaggedRuns(r[b], p) <=> FlaggedRuns(ends[b], p)
    BY <1>7, <1>10 DEF FlaggedRuns
  <2> QED
    BY <1>4, <1>7, <1>10, <2>1 DEF r, exit, sem
<1>11. CASE op \notin BlockStyle /\ BranchFlagged(l)
  BY <1>5, <1>8, <1>11 DEF r, exit, sem
<1>12. CASE op \notin BlockStyle /\ ~BranchFlagged(l)
  BY <1>5, <1>6, <1>9, <1>12 DEF r, exit, sem
<1> QED
  BY <1>10, <1>11, <1>12

LEMMA PlanRuns ==
    ASSUME TypeOK, Shape, Coded, phase = "resolve", NEW b, NEW x \in Codes, NEW y \in Codes,
           NEW q \in Codes, NEW ends, Plan(b, x, y, q, ends), NEW p, p.op = "probe"
    PROVE  /\ p \in RunOf(lists'[idx]["before"]) <=> p \in RunOf(x)
           /\ p \in RunOf(lists'[idx]["after"]) <=>
                \/ p \in RunOf(y) \/ p \in RunOf(lists[idx]["block_entry"])
                \/ body[idx].op = "br_if" /\ p \in RunOf(lists[idx]["semantic_after"])
           /\ \A m \in Optional : lists'[idx][m] = lists[idx][m]
           /\ \A m \in SpecialModes \ Optional : lists'[idx][m] = <<>>
           /\ p \in RunOf(onElseOrEnd') <=>
                p \in RunOf(q) \/ (body[idx].op = "if" /\ p \in RunOf(lists[idx]["block_exit"]))
           /\ onEnd' = PlanEnds(ends, b, numFlags + 1, lists[idx])
<1> DEFINE l == lists[idx]
           f == numFlags + 1
           entry == l["block_entry"]
           exit == l["block_exit"]
           sem == l["semantic_after"]
           set == IF BranchFlagged(l) THEN <<FlagOn(f)>> ELSE <<>>
           unset == IF BranchFlagged(l) THEN <<FlagOff(f)>> \o InlineAfterBranch(l) ELSE <<>>
           u == x \o set
           z == y \o entry
           v == z \o unset
           c == [l EXCEPT !.before = u, !.after = v,
                          !.semantic_after = <<>>, !.block_entry = <<>>, !.block_exit = <<>>]
<1>1. /\ lists' = [lists EXCEPT ![idx] = c]
      /\ onElseOrEnd' = PlanExit(l, q)
      /\ onEnd' = PlanEnds(ends, b, f, l)
  BY DEF Plan
<1>2. idx \in DOMAIN body /\ DOMAIN l = Modes /\ DOMAIN lists = DOMAIN body
  BY ListsFacts
<1>3. \A m \in Modes : l[m] \in Codes
  BY <1>2 DEF Coded, ListsCoded
<1>4. entry \in Codes /\ exit \in Codes /\ sem \in Codes
  BY <1>3 DEF Modes, SpecialModes
<1>5. f \in Nat
  BY DEF Coded, PassCoded
<1>6. set \in Codes /\ p \notin RunOf(set)
  <2>1. p # FlagOn(f)
    BY DEF FlagOn, Instr
  <2>2. RunOf(<<FlagOn(f)>>) = {FlagOn(f)} /\ RunOf(<<>>) = {}
    BY RunOfFacts
  <2>3. <<FlagOn(f)>> \in Codes /\ <<>> \in Codes
    BY <1>5, SomeCodes
  <2> QED
    BY <2>1, <2>2, <2>3
<1>7. InlineAfterBranch(l) = IF body[idx].op = "br_if" THEN sem ELSE <<>>
  BY DEF InlineAfterBranch, Op
<1>8. unset \in Codes /\ (p \in RunOf(unset) <=> body[idx].op = "br_if" /\ p \in RunOf(sem))
  <2> DEFINE w == InlineAfterBranch(l)
  <2>1. w \in Codes /\ (p \in RunOf(w) <=> body[idx].op = "br_if" /\ p \in RunOf(sem))
    BY <1>4, <1>7, SomeCodes, RunOfFacts
  <2>2. p # FlagOff(f)
    BY DEF FlagOff, Instr
  <2>3. RunOf(<<FlagOff(f)>>) = {FlagOff(f)} /\ RunOf(<<>>) = {}
    BY RunOfFacts
  <2>4. <<FlagOff(f)>> \in Codes /\ <<>> \in Codes
    BY <1>5, SomeCodes
  <2>5. BranchFlagged(l) <=> body[idx].op \in Branching /\ sem # <<>>
    BY DEF BranchFlagged, Op
  <2> HIDE DEF w
  <2>6. CASE BranchFlagged(l)
    <3>1. unset = <<FlagOff(f)>> \o w
      BY <2>6 DEF w
    <3>2. unset \in Codes /\ RunOf(unset) = RunOf(<<FlagOff(f)>>) \cup RunOf(w)
      BY <2>1, <2>4, <3>1, SomeCodes, RunOfFacts
    <3> HIDE DEF unset
    <3> QED
      BY <2>1, <2>2, <2>3, <3>2
  <2>7. CASE ~BranchFlagged(l)
    <3>1. unset = <<>>
      BY <2>7
    <3>2. body[idx].op = "br_if" => sem = <<>>
      BY <2>5, <2>7 DEF Branching
    <3> HIDE DEF unset, sem
    <3> QED
      BY <2>3, <2>4, <3>1, <3>2
  <2> QED
    BY <2>6, <2>7
<1> HIDE DEF set, unset, entry, exit, sem
<1>9. u \in Codes /\ RunOf(u) = RunOf(x) \cup RunOf(set)
  BY <1>6, SomeCodes, RunOfFacts
<1>10. v \in Codes /\ RunOf(v) = RunOf(y) \cup RunOf(entry) \cup RunOf(unset)
  <2>1. z \in Codes /\ RunOf(z) = RunOf(y) \cup RunOf(entry)
    BY <1>4, SomeCodes, RunOfFacts
  <2>2. unset \in Codes
    BY <1>8
  <2> HIDE DEF z
  <2>3. v \in Codes /\ RunOf(v) = RunOf(z) \cup RunOf(unset)
    BY <2>1, <2>2, SomeCodes, RunOfFacts
  <2> HIDE DEF v
  <2> QED
    BY <2>1, <2>3
<1>11. p \in RunOf(onElseOrEnd') <=> p \in RunOf(q) \/ (body[idx].op = "if" /\ p \in RunOf(exit))
  <2> DEFINE w == IF body[idx].op = "if" THEN exit ELSE <<>>
  <2>1. onElseOrEnd' = q \o w
    BY <1>1 DEF PlanExit, Op, exit
  <2>2. w \in Codes /\ (p \in RunOf(w) <=> body[idx].op = "if" /\ p \in RunOf(exit))
    BY <1>4, SomeCodes, RunOfFacts
  <2> HIDE DEF w
  <2>3. RunOf(q \o w) = RunOf(q) \cup RunOf(w)
    BY <2>2, RunOfFacts
  <2> QED
    BY <2>1, <2>2, <2>3
<1> HIDE DEF l, u, v
<1>12. /\ c["before"] = u /\ c["after"] = v
       /\ \A m \in SpecialModes \ Optional : c[m] = <<>>
       /\ \A m \in Optional : c[m] = l[m]
  BY <1>2 DEF SpecialModes, Optional, Modes, PlainModes
<1> HIDE DEF c
<1>13. lists'[idx] = c
  BY <1>1, <1>2
<1>14. p \in RunOf(lists'[idx]["before"]) <=> p \in RunOf(x)
  BY <1>6, <1>9, <1>12, <1>13
<1>15. p \in RunOf(lists'[idx]["after"]) <=>
         p \in RunOf(y) \/ p \in RunOf(entry) \/ (body[idx].op = "br_if" /\ p \in RunOf(sem))
  BY <1>8, <1>10, <1>12, <1>13
<1> QED
  BY <1>1, <1>11, <1>12, <1>13, <1>14, <1>15 DEF l, entry, exit, sem

\* An alternate replaces at least the instruction it is at.
LEMMA AltsAreReplaced ==
    ASSUME Shape
    PROVE  AskedAlts \subseteq ReplacedInstrs
<1>1. ASSUME NEW k \in AskedAlts PROVE k \in RegionOf(k)
  <2>1. /\ k \in DOMAIN body /\ k \in Nat /\ Closing(body, k) \in Nat /\ k < Closing(body, k)
        /\ k \in RegionOf(k) <=> k <= k /\ k <= Closing(body, k) /\ (body[k].op = "else" => k < Closing(body, k))
    BY AltFacts
  <2> QED
    BY <2>1
<1> QED
  BY <1>1 DEF ReplacedInstrs

\* What a step of the pass makes of an injected operator p: where it is put at the
\* instruction, and where it waits afterwards.
Keeps == idx \notin ReplacedInstrs
EndsHere == body[idx].op = "end" /\ idx \notin ReplacedInstrs
Top == IF body[idx].op \in Opening THEN Len(blockStack) ELSE Last(blockStack)
BeforeStep(p) ==
    p \in RunOf(lists'[idx]["before"]) <=>
        \/ p \in RunOf(lists[idx]["before"]) \/ p \in RunOf(FuncCode(idx))
        \/ p \in RunOf(onElseOrEnd) /\ (body[idx].op = "else" \/ EndsHere)
        \/ EndsHere /\ p \in RunOf(onEnd[Last(blockStack)].before)
AfterStep(p) ==
    p \in RunOf(lists'[idx]["after"]) <=>
        \/ p \in RunOf(lists[idx]["after"])
        \/ Keeps /\ p \in RunOf(lists[idx]["block_entry"])
        \/ Keeps /\ body[idx].op = "br_if" /\ p \in RunOf(lists[idx]["semantic_after"])
        \/ EndsHere /\ p \in RunOf(onEnd[Last(blockStack)].after)
        \/ EndsHere /\ FlaggedRuns(onEnd[Last(blockStack)], p)
AlternateStep(p) ==
    p \in RunOf(lists'[idx]["alternate"]) <=>
        \/ Keeps /\ p \in RunOf(lists[idx]["alternate"])
        \/ idx \in AskedAlts /\ Outermost(idx) /\ p \in RunOf(lists[idx]["block_alt"])
SpecialStep(p) ==
    /\ \A m \in SpecialModes \ Optional : lists'[idx][m] = <<>>
    /\ p \in RunOf(lists'[idx]["block_alt"]) => Keeps /\ p \in RunOf(lists[idx]["block_alt"])
PendingStep(p) ==
    p \in RunOf(onElseOrEnd') <=>
        \/ Keeps /\ body[idx].op = "if" /\ p \in RunOf(lists[idx]["block_exit"])
        \/ p \in RunOf(onElseOrEnd) /\ body[idx].op # "else" /\ ~EndsHere
DueStep(p, b) ==
    /\ p \in RunOf(onEnd'[b].before) <=>
        \/ /\ Keeps /\ body[idx].op \in BlockStyle \ {"if"} /\ b = Top
           /\ p \in RunOf(lists[idx]["block_exit"])
        \/ p \in RunOf(onEnd[b].before) /\ ~(EndsHere /\ b = Last(blockStack))
    /\ p \in RunOf(onEnd'[b].after) <=>
        \/ /\ Keeps /\ body[idx].op \in BlockStyle /\ b = Top
           /\ p \in RunOf(lists[idx]["semantic_after"])
        \/ p \in RunOf(onEnd[b].after) /\ ~(EndsHere /\ b = Last(blockStack))
    /\ FlaggedRuns(onEnd'[b], p) <=>
        \/ /\ Keeps /\ body[idx].op \in Branching /\ p \in RunOf(lists[idx]["semantic_after"])
           /\ Aims(Last(blockStack), b)
        \/ FlaggedRuns(onEnd[b], p) /\ ~(EndsHere /\ b = Last(blockStack))
StepRuns(p) ==
    /\ BeforeStep(p) /\ AfterStep(p) /\ AlternateStep(p) /\ SpecialStep(p) /\ PendingStep(p)
    /\ \A b \in 0 .. Len(body) : DueStep(p, b)

LEMMA HereFacts ==
    ASSUME TypeOK, Shape, Given, Coded, AltsArePlain, phase = "resolve"
    PROVE  /\ idx \in DOMAIN body /\ \A m \in Modes : lists[idx][m] \in Codes
           /\ lists[idx]["before"] \in Codes /\ lists[idx]["after"] \in Codes
           /\ FuncCode(idx) \in Codes /\ onElseOrEnd \in Codes /\ DuesOf(onEnd)
           /\ Last(blockStack) \in 0 .. Len(body) /\ onEnd[Last(blockStack)] \in Dues
           /\ body[idx].op \in Structural => lists[idx]["alternate"] = <<>>
           /\ "block_alt" \notin some[idx] => lists[idx]["block_alt"] = <<>>
           /\ numFlags + 1 \in Nat /\ body[idx].arg \in Seq(Nat)
<1>1. idx \in DOMAIN body
  BY ListsFacts
<1>2. \A m \in Modes : lists[idx][m] \in Codes
  BY <1>1 DEF Coded, ListsCoded
<1>3. lists[idx]["before"] \in Codes /\ lists[idx]["after"] \in Codes
  BY <1>2 DEF Modes, PlainModes
<1>4. FuncCode(idx) \in Codes /\ onElseOrEnd \in Codes /\ DuesOf(onEnd) /\ numFlags + 1 \in Nat
  BY FuncCodeCoded DEF Coded, PassCoded, DuesOf
<1>5. Last(blockStack) \in 0 .. Len(body)
  <2> DEFINE b == Last(blockStack)
  <2>1. /\ idx \in 1 .. Len(body) + 1 /\ idx \in Nat /\ idx <= Len(body) /\ Len(body) \in Nat
        /\ b = Level(body, idx) - 1
        /\ body \in Seq(Instrs) /\ WellFormed(body)
    BY <1>1, StackFacts, BodyFacts
  <2>2. Level(body, idx) \in Int /\ Level(body, idx) > 0 /\ Level(body, idx) <= idx
    BY <1>1, <2>1, LevelSteps, WellFormedLevels, LevelBound
  <2> HIDE DEF b
  <2>3. b \in 0 .. Len(body)
    BY <2>1, <2>2
  <2> QED
    BY <2>3 DEF b
<1>6. onEnd[Last(blockStack)] \in Dues
  BY <1>4, <1>5 DEF DuesOf
<1>7. body[idx].op \in Structural => lists[idx]["alternate"] = <<>>
  <2>1. idx \in Nat /\ idx >= idx
    BY <1>1, BodyFacts
  <2>2. some[idx] = asked.some[idx]
    BY <1>1, <2>1 DEF Given
  <2>3. body[idx].op \in Structural => "alternate" \notin some[idx]
    BY <1>1, <2>2 DEF AltsArePlain
  <2>4. "alternate" \notin some[idx] => lists[idx]["alternate"] = <<>>
    BY <1>1 DEF TypeOK, Optional
  <2> QED
    BY <2>3, <2>4
<1>8. "block_alt" \notin some[idx] => lists[idx]["block_alt"] = <<>>
  BY <1>1 DEF TypeOK, Optional
<1>9. body[idx].arg \in Seq(Nat)
  BY <1>1, BodyFacts, OpensInBody
<1> QED
  BY <1>1, <1>2, <1>3, <1>4, <1>5, <1>6, <1>7, <1>8, <1>9

\* An instruction that goes.
LEMMA RemovedRuns ==
    ASSUME TypeOK, Shape, Given, Coded, AltsArePlain, phase = "resolve", idx \in ReplacedInstrs,
           NEW p, NEW x, RemoveInstr(x), idx \in AskedAlts => ~Outermost(idx),
           p \in RunOf(x) <=> \/ p \in RunOf(lists[idx]["before"]) \/ p \in RunOf(FuncCode(idx))
                              \/ p \in RunOf(onElseOrEnd) /\ body[idx].op = "else",
           p \in RunOf(onElseOrEnd') <=> p \in RunOf(onElseOrEnd) /\ body[idx].op # "else"
    PROVE  StepRuns(p)
<1>1. /\ lists'[idx]["before"] = x /\ lists'[idx]["after"] = lists[idx]["after"]
      /\ lists'[idx]["alternate"] = <<>>
      /\ \A m \in SpecialModes : lists'[idx][m] = <<>>
      /\ onEnd' = onEnd
  BY RemoveRuns
<1>2. ~Keeps /\ ~EndsHere
  BY DEF Keeps, EndsHere
<1>3. RunOf(<<>>) = {}
  BY RunOfFacts
<1>4. BeforeStep(p)
  BY <1>1, <1>2, Zenon DEF BeforeStep
<1>5. AfterStep(p)
  BY <1>1, <1>2, Zenon DEF AfterStep
<1>6. AlternateStep(p)
  BY <1>1, <1>2, <1>3 DEF AlternateStep
<1>7. SpecialStep(p)
  <2>1. "block_alt" \in SpecialModes
    BY DEF SpecialModes
  <2> QED
    BY <1>1, <1>3, <2>1 DEF SpecialStep
<1>8. PendingStep(p)
  BY <1>2, Zenon DEF PendingStep
<1>9. \A b \in 0 .. Len(body) : DueStep(p, b)
  BY <1>1, <1>2, Zenon DEF DueStep
<1> QED
  BY <1>4, <1>5, <1>6, <1>7, <1>8, <1>9 DEF StepRuns

\* An instruction that an alternate replaces, with the block it opens.
LEMMA ReplacedRuns ==
    ASSUME TypeOK, Shape, Given, Coded, AltsArePlain, phase = "resolve", idx \in ReplacedInstrs,
           NEW p, NEW x, NEW b, Replace(x, b), idx \in AskedAlts, Outermost(idx),
           p \in RunOf(x) <=> \/ p \in RunOf(lists[idx]["before"]) \/ p \in RunOf(FuncCode(idx))
                              \/ p \in RunOf(onElseOrEnd) /\ body[idx].op = "else",
           p \in RunOf(onElseOrEnd') <=> p \in RunOf(onElseOrEnd) /\ body[idx].op # "else"
    PROVE  StepRuns(p)
<1> DEFINE alt == lists[idx]["block_alt"]
           old == lists[idx]["alternate"]
<1>1. /\ lists'[idx]["before"] = x /\ lists'[idx]["after"] = lists[idx]["after"]
      /\ lists'[idx]["alternate"] = IF alt = <<>> THEN <<>> ELSE old \o alt
      /\ \A m \in SpecialModes : lists'[idx][m] = <<>>
      /\ onEnd' = onEnd
  BY ReplaceRuns
<1>2. ~Keeps /\ ~EndsHere
  BY DEF Keeps, EndsHere
<1>3. RunOf(<<>>) = {} /\ <<>> \in Codes
  BY RunOfFacts, SomeCodes
<1>4. BeforeStep(p)
  BY <1>1, <1>2, Zenon DEF BeforeStep
<1>5. AfterStep(p)
  BY <1>1, <1>2, Zenon DEF AfterStep
<1>6. RunOf(lists'[idx]["alternate"]) = RunOf(alt)
  <2>1. alt \in Codes
    BY HereFacts DEF Modes, SpecialModes
  <2>2. old = <<>>
    BY HereFacts DEF AskedAlts, Structural
  <2> HIDE DEF alt, old
  <2>3. RunOf(old \o alt) = RunOf(old) \cup RunOf(alt)
    BY <1>3, <2>1, <2>2, RunOfFacts
  <2> QED
    BY <1>1, <1>3, <2>2, <2>3
<1>7. AlternateStep(p)
  BY <1>2, <1>6 DEF AlternateStep
<1>8. SpecialStep(p)
  <2>1. "block_alt" \in SpecialModes
    BY DEF SpecialModes
  <2> QED
    BY <1>1, <1>3, <2>1 DEF SpecialStep
<1>9. PendingStep(p)
  BY <1>2, Zenon DEF PendingStep
<1>10. \A c \in 0 .. Len(body) : DueStep(p, c)
  BY <1>1, <1>2, Zenon DEF DueStep
<1> QED
  BY <1>4, <1>5, <1>7, <1>8, <1>9, <1>10 DEF StepRuns

\* An instruction that stays.
LEMMA KeptRuns ==
    ASSUME TypeOK, Shape, Given, Coded, AltsArePlain, phase = "resolve", idx \notin ReplacedInstrs,
           NEW p, p.op = "probe", NEW x \in Codes, NEW y \in Codes, NEW q \in Codes,
           NEW ends, DuesOf(ends), Plan(Top, x, y, q, ends),
           p \in RunOf(x) <=>
                \/ p \in RunOf(lists[idx]["before"]) \/ p \in RunOf(FuncCode(idx))
                \/ p \in RunOf(onElseOrEnd) /\ (body[idx].op = "else" \/ body[idx].op = "end")
                \/ body[idx].op = "end" /\ p \in RunOf(onEnd[Last(blockStack)].before),
           p \in RunOf(y) <=>
                \/ p \in RunOf(lists[idx]["after"])
                \/ body[idx].op = "end" /\ p \in RunOf(onEnd[Last(blockStack)].after)
                \/ body[idx].op = "end" /\ FlaggedRuns(onEnd[Last(blockStack)], p),
           p \in RunOf(q) <=> p \in RunOf(onElseOrEnd) /\ body[idx].op \notin {"else", "end"},
           \A b \in 0 .. Len(body) : LET held == ~(body[idx].op = "end" /\ b = Last(blockStack)) IN
                /\ p \in RunOf(ends[b].before) <=> p \in RunOf(onEnd[b].before) /\ held
                /\ p \in RunOf(ends[b].after) <=> p \in RunOf(onEnd[b].after) /\ held
                /\ FlaggedRuns(ends[b], p) <=> FlaggedRuns(onEnd[b], p) /\ held
    PROVE  StepRuns(p)
<1>1. /\ p \in RunOf(lists'[idx]["before"]) <=> p \in RunOf(x)
      /\ p \in RunOf(lists'[idx]["after"]) <=>
           \/ p \in RunOf(y) \/ p \in RunOf(lists[idx]["block_entry"])
           \/ body[idx].op = "br_if" /\ p \in RunOf(lists[idx]["semantic_after"])
      /\ \A m \in Optional : lists'[idx][m] = lists[idx][m]
      /\ \A m \in SpecialModes \ Optional : lists'[idx][m] = <<>>
      /\ p \in RunOf(onElseOrEnd') <=>
           p \in RunOf(q) \/ (body[idx].op = "if" /\ p \in RunOf(lists[idx]["block_exit"]))
      /\ onEnd' = PlanEnds(ends, Top, numFlags + 1, lists[idx])
  BY PlanRuns
<1>2. Keeps /\ (EndsHere <=> body[idx].op = "end")
  BY DEF Keeps, EndsHere
<1>3. BeforeStep(p)
  BY <1>1, <1>2, Zenon DEF BeforeStep
<1>4. AfterStep(p)
  BY <1>1, <1>2, Zenon DEF AfterStep
<1>5. "alternate" \in Optional /\ "block_alt" \in Optional
  BY DEF Optional
<1>6. idx \notin AskedAlts
  BY AltsAreReplaced
<1>7. AlternateStep(p)
  BY <1>1, <1>2, <1>5, <1>6, Zenon DEF AlternateStep
<1>8. SpecialStep(p)
  BY <1>1, <1>2, <1>5, Zenon DEF SpecialStep
<1>9. PendingStep(p)
  <2>1. "if" \notin {"else", "end"}
    OBVIOUS
  <2> QED
    BY <1>1, <1>2, <2>1 DEF PendingStep
<1>10. ASSUME NEW b \in 0 .. Len(body) PROVE DueStep(p, b)
  <2> DEFINE r == onEnd'
  <2>1. body[idx].arg \in Seq(Nat) /\ DuesOf(onEnd) /\ numFlags + 1 \in Nat /\ \A m \in Modes : lists[idx][m] \in Codes
    BY HereFacts
  <2>2. /\ p \in RunOf(r[b].before) <=>
            \/ p \in RunOf(ends[b].before)
            \/ b = Top /\ body[idx].op \in BlockStyle \ {"if"} /\ p \in RunOf(lists[idx]["block_exit"])
        /\ p \in RunOf(r[b].after) <=>
            \/ p \in RunOf(ends[b].after)
            \/ b = Top /\ body[idx].op \in BlockStyle /\ p \in RunOf(lists[idx]["semantic_after"])
        /\ FlaggedRuns(r[b], p) <=>
            \/ FlaggedRuns(ends[b], p)
            \/ /\ body[idx].op \in Branching /\ p \in RunOf(lists[idx]["semantic_after"])
               /\ Aims(Top, b)
    <3> DEFINE t == Top
               f == numFlags + 1
               l == lists[idx]
    <3>1. /\ r = PlanEnds(ends, t, f, l) /\ f \in Nat /\ \A m \in Modes : l[m] \in Codes
          /\ body[idx].arg \in Seq(Nat) /\ DuesOf(onEnd) /\ DuesOf(ends)
      BY <1>1, <2>1
    <3> HIDE DEF t, f, l, r
    <3>2. LET g == PlanEnds(ends, t, f, l)
          IN  /\ p \in RunOf(g[b].before) <=>
                    \/ p \in RunOf(ends[b].before)
                    \/ b = t /\ body[idx].op \in BlockStyle \ {"if"} /\ p \in RunOf(l["block_exit"])
              /\ p \in RunOf(g[b].after) <=>
                    \/ p \in RunOf(ends[b].after)
                    \/ b = t /\ body[idx].op \in BlockStyle /\ p \in RunOf(l["semantic_after"])
              /\ FlaggedRuns(g[b], p) <=>
                    \/ FlaggedRuns(ends[b], p)
                    \/ /\ body[idx].op \in Branching /\ p \in RunOf(l["semantic_after"])
                       /\ Aims(t, b)
      BY <3>1, PlanEndsRuns, Zenon
    <3> QED
      BY <3>1, <3>2, Zenon DEF t, f, l
  <2>3. body[idx].op \in Branching => Top = Last(blockStack)
    BY DEF Top, Branching, Opening
  <2>4. LET held == ~(body[idx].op = "end" /\ b = Last(blockStack)) IN
            /\ p \in RunOf(ends[b].before) <=> p \in RunOf(onEnd[b].before) /\ held
            /\ p \in RunOf(ends[b].after) <=> p \in RunOf(onEnd[b].after) /\ held
            /\ FlaggedRuns(ends[b], p) <=> FlaggedRuns(onEnd[b], p) /\ held
    OBVIOUS
  <2>5. (body[idx].op \in Branching /\ Aims(Top, b))
           <=> (body[idx].op \in Branching /\ Aims(Last(blockStack), b))
    BY <2>3, Zenon
  <2>6. /\ p \in RunOf(onEnd'[b].before) <=>
            \/ /\ Keeps /\ body[idx].op \in BlockStyle \ {"if"} /\ b = Top
               /\ p \in RunOf(lists[idx]["block_exit"])
            \/ p \in RunOf(onEnd[b].before) /\ ~(EndsHere /\ b = Last(blockStack))
    BY <1>2, <2>2, <2>4, Zenon
  <2>7. /\ p \in RunOf(onEnd'[b].after) <=>
            \/ /\ Keeps /\ body[idx].op \in BlockStyle /\ b = Top
               /\ p \in RunOf(lists[idx]["semantic_after"])
            \/ p \in RunOf(onEnd[b].after) /\ ~(EndsHere /\ b = Last(blockStack))
    BY <1>2, <2>2, <2>4, Zenon
  <2>8. /\ FlaggedRuns(onEnd'[b], p) <=>
            \/ /\ Keeps /\ body[idx].op \in Branching /\ p \in RunOf(lists[idx]["semantic_after"])
               /\ Aims(Last(blockStack), b)
            \/ FlaggedRuns(onEnd[b], p) /\ ~(EndsHere /\ b = Last(blockStack))
    BY <1>2, <2>2, <2>4, <2>5, Zenon
  <2> QED
    BY <2>6, <2>7, <2>8, Zenon DEF DueStep
<1> QED
  BY <1>3, <1>4, <1>7, <1>8, <1>9, <1>10 DEF StepRuns

LEMMA StepRunsHold ==
    ASSUME TypeOK, Shape, Region, Given, Coded, AltsArePlain, Resolve, NEW p, p.op = "probe"
    PROVE  StepRuns(p)
<1> DEFINE op == body[idx].op
           was == lists[idx]["before"] \o FuncCode(idx)
           after == lists[idx]["after"]
           last == Last(blockStack)
<1>1. Here
  BY DEF Resolve, OpenBlock, AtElse, EndRemoved, EndKept, OtherRemoved, OtherKept
<1>2. phase = "resolve" /\ Stepped
  BY <1>1, ResolveView DEF Here
<1>3. /\ idx \in DOMAIN body /\ lists[idx]["before"] \in Codes /\ after \in Codes
      /\ FuncCode(idx) \in Codes /\ onElseOrEnd \in Codes /\ DuesOf(onEnd)
      /\ last \in 0 .. Len(body) /\ onEnd[last] \in Dues
  BY <1>2, HereFacts
<1>4. /\ deleteBlock = {} => (idx \in ReplacedInstrs <=> op \in BlockStyle /\ "block_alt" \in some[idx])
      /\ deleteBlock # {} => (idx \notin ReplacedInstrs <=> op = "end" /\ deleteBlock = {last} /\ retainEnd)
      /\ idx \in AskedAlts <=> op \in BlockStyle /\ "block_alt" \in some[idx]
      /\ idx \in AskedAlts => (Outermost(idx) <=> deleteBlock = {})
  BY <1>2, GoesOrStays
<1>5. was \in Codes /\ (p \in RunOf(was) <=> p \in RunOf(lists[idx]["before"]) \/ p \in RunOf(FuncCode(idx)))
  <2> DEFINE a == lists[idx]["before"]
             c == FuncCode(idx)
  <2>1. a \in Codes /\ c \in Codes
    BY <1>3
  <2> HIDE DEF a, c
  <2>2. a \o c \in Codes /\ RunOf(a \o c) = RunOf(a) \cup RunOf(c)
    BY <2>1, SomeCodes, RunOfFacts
  <2> QED
    BY <2>2 DEF a, c
<1>6. /\ was \o onElseOrEnd \in Codes
      /\ p \in RunOf(was \o onElseOrEnd) <=> \/ p \in RunOf(lists[idx]["before"]) \/ p \in RunOf(FuncCode(idx))
                                             \/ p \in RunOf(onElseOrEnd)
  <2> HIDE DEF was
  <2>1. was \o onElseOrEnd \in Codes /\ RunOf(was \o onElseOrEnd) = RunOf(was) \cup RunOf(onElseOrEnd)
    BY <1>3, <1>5, SomeCodes, RunOfFacts
  <2> QED
    BY <1>5, <2>1
<1>7. RunOf(<<>>) = {} /\ <<>> \in Codes
  BY RunOfFacts, SomeCodes
<1>8. "else" \notin Opening /\ "end" \notin Opening /\ "end" # "else" /\ Opening \subseteq BlockStyle /\ "else" \in BlockStyle
      /\ "end" \notin BlockStyle /\ BlockStyle \subseteq Structural /\ "end" \in Structural
  BY DEF Opening, BlockStyle, Structural
<1> HIDE DEF op, was, last, after
<1>9. ASSUME OpenBlock PROVE StepRuns(p)
  <2>1. /\ op \in Opening
        /\ \/ Replace(was, Len(blockStack)) /\ UNCHANGED onElseOrEnd
           \/ deleteBlock # {} /\ RemoveInstr(was) /\ UNCHANGED onElseOrEnd
           \/ /\ deleteBlock = {} /\ "block_alt" \notin some[idx]
              /\ Plan(Len(blockStack), was, after, onElseOrEnd, onEnd)
    BY <1>9 DEF OpenBlock, Op, op, was, after
  <2>2. op # "else" /\ op # "end" /\ op \in BlockStyle
    BY <1>8, <2>1
  <2>3. CASE Replace(was, Len(blockStack)) /\ UNCHANGED onElseOrEnd
    <3>1. deleteBlock = {} /\ "block_alt" \in some[idx]
      BY <2>3 DEF Replace
    <3>2. idx \in ReplacedInstrs /\ idx \in AskedAlts /\ Outermost(idx)
      BY <1>4, <2>2, <3>1
    <3> QED
      BY <1>2, <1>5, <2>2, <2>3, <3>2, ReplacedRuns DEF op
  <2>4. CASE deleteBlock # {} /\ RemoveInstr(was) /\ UNCHANGED onElseOrEnd
    <3>1. idx \in ReplacedInstrs /\ (idx \in AskedAlts => ~Outermost(idx))
      BY <1>4, <2>2, <2>4
    <3> QED
      BY <1>2, <1>5, <2>2, <2>4, <3>1, RemovedRuns DEF op
  <2>5. CASE /\ deleteBlock = {} /\ "block_alt" \notin some[idx]
             /\ Plan(Len(blockStack), was, after, onElseOrEnd, onEnd)
    <3>1. idx \notin ReplacedInstrs
      BY <1>4, <2>5
    <3>2. Top = Len(blockStack)
      BY <2>1 DEF Top, op
    <3>3. Plan(Top, was, after, onElseOrEnd, onEnd)
      BY <2>5, <3>2
    <3> QED
      BY <1>2, <1>3, <1>5, <2>2, <3>1, <3>3, KeptRuns DEF op, after
  <2> QED
    BY <2>1, <2>3, <2>4, <2>5
<1>10. ASSUME AtElse PROVE StepRuns(p)
  <2> DEFINE x == was \o onElseOrEnd
  <2>1. /\ op = "else"
        /\ \/ Replace(x, last) /\ onElseOrEnd' = <<>>
           \/ deleteBlock # {} /\ RemoveInstr(x) /\ onElseOrEnd' = <<>>
           \/ /\ deleteBlock = {} /\ "block_alt" \notin some[idx]
              /\ Plan(last, x, after, <<>>, onEnd)
    BY <1>10 DEF AtElse, Op, op, was, after, last
  <2>2. op # "end" /\ op \in BlockStyle
    BY <1>8, <2>1
  <2>3. x \in Codes /\ (p \in RunOf(x) <=> \/ p \in RunOf(lists[idx]["before"]) \/ p \in RunOf(FuncCode(idx))
                                          \/ p \in RunOf(onElseOrEnd))
    BY <1>6
  <2> HIDE DEF x
  <2>4. CASE Replace(x, last) /\ onElseOrEnd' = <<>>
    <3>1. deleteBlock = {} /\ "block_alt" \in some[idx]
      BY <2>4 DEF Replace
    <3>2. idx \in ReplacedInstrs /\ idx \in AskedAlts /\ Outermost(idx)
      BY <1>4, <2>2, <3>1
    <3>3. p \notin RunOf(onElseOrEnd')
      BY <1>7, <2>4
    <3> QED
      BY <1>2, <2>1, <2>3, <2>4, <3>2, <3>3, ReplacedRuns DEF op
  <2>5. CASE deleteBlock # {} /\ RemoveInstr(x) /\ onElseOrEnd' = <<>>
    <3>1. idx \in ReplacedInstrs /\ (idx \in AskedAlts => ~Outermost(idx))
      BY <1>4, <2>2, <2>5
    <3>2. p \notin RunOf(onElseOrEnd')
      BY <1>7, <2>5
    <3> QED
      BY <1>2, <2>1, <2>3, <2>5, <3>1, <3>2, RemovedRuns DEF op
  <2>6. CASE /\ deleteBlock = {} /\ "block_alt" \notin some[idx]
             /\ Plan(last, x, after, <<>>, onEnd)
    <3>1. idx \notin ReplacedInstrs
      BY <1>4, <2>6
    <3>2. Top = last
      BY <1>8, <2>1 DEF Top, op, last
    <3>3. Plan(Top, x, after, <<>>, onEnd)
      BY <2>6, <3>2
    <3> QED
      BY <1>2, <1>3, <1>7, <2>1, <2>2, <2>3, <3>1, <3>3, KeptRuns DEF op, after
  <2> QED
    BY <2>1, <2>4, <2>5, <2>6
<1>11. ASSUME EndRemoved \/ OtherRemoved PROVE StepRuns(p)
  <2>1. /\ RemoveInstr(was) /\ UNCHANGED onElseOrEnd /\ deleteBlock # {}
        /\ op # "else" /\ op \notin BlockStyle /\ ~(op = "end" /\ deleteBlock = {last} /\ retainEnd)
    BY <1>8, <1>11 DEF EndRemoved, OtherRemoved, Op, op, was, last
  <2>2. idx \in ReplacedInstrs /\ idx \notin AskedAlts
    BY <1>4, <2>1
  <2> QED
    BY <1>2, <1>5, <2>1, <2>2, RemovedRuns DEF op
<1>12. ASSUME EndKept PROVE StepRuns(p)
  <2> DEFINE due == onEnd[last]
             x == was \o onElseOrEnd
             u == x \o due.before
             y == after \o Chain(due.flagged)
             v == y \o due.after
             e == [onEnd EXCEPT ![last] = Nothing]
  <2>1. /\ op = "end" /\ (deleteBlock = {} \/ (deleteBlock = {last} /\ retainEnd))
        /\ Plan(last, u, v, <<>>, e)
    BY <1>12 DEF EndKept, Op, op, was, last, after
  <2>2. idx \notin ReplacedInstrs
    BY <1>4, <1>8, <2>1
  <2>3. /\ due.before \in Codes /\ due.after \in Codes /\ Chain(due.flagged) \in Codes
        /\ p \in RunOf(Chain(due.flagged)) <=> FlaggedRuns(due, p)
    <3>1. due.before \in Codes /\ due.after \in Codes /\ due.flagged \in Seq([flag : Nat, body : Codes])
      BY <1>3, DueFields
    <3> HIDE DEF due
    <3> QED
      BY <3>1, ChainCoded, ChainRuns DEF FlaggedRuns
  <2>4. DuesOf(e)
    <3>1. DOMAIN e = 0 .. Len(body)
      BY <1>3 DEF DuesOf
    <3>2. \A b \in 0 .. Len(body) : e[b] \in Dues
      BY <1>3, NothingIsDue DEF DuesOf
    <3> HIDE DEF e
    <3> QED
      BY <3>1, <3>2 DEF DuesOf
  <2>5. /\ p \notin RunOf(Nothing.before) /\ p \notin RunOf(Nothing.after) /\ ~FlaggedRuns(Nothing, p)
    <3>1. Nothing.before = <<>> /\ Nothing.after = <<>> /\ Nothing.flagged = <<>>
      BY DEF Nothing
    <3> QED
      BY <1>7, <3>1 DEF FlaggedRuns
  <2>6. \A b \in 0 .. Len(body) : e[b] = IF b = last THEN Nothing ELSE onEnd[b]
    BY <1>3 DEF DuesOf
  <2>7. x \in Codes /\ (p \in RunOf(x) <=> \/ p \in RunOf(lists[idx]["before"]) \/ p \in RunOf(FuncCode(idx))
                                          \/ p \in RunOf(onElseOrEnd))
    BY <1>6
  <2> HIDE DEF due, x, e
  <2>8. u \in Codes /\ RunOf(u) = RunOf(x) \cup RunOf(due.before)
    BY <2>3, <2>7, SomeCodes, RunOfFacts
  <2>9. y \in Codes /\ RunOf(y) = RunOf(after) \cup RunOf(Chain(due.flagged))
    BY <1>3, <2>3, SomeCodes, RunOfFacts
  <2> HIDE DEF y, u
  <2>10. v \in Codes /\ RunOf(v) = RunOf(y) \cup RunOf(due.after)
    BY <2>3, <2>9, SomeCodes, RunOfFacts
  <2> HIDE DEF v
  <2>11. p \in RunOf(u) <=>
                \/ p \in RunOf(lists[idx]["before"]) \/ p \in RunOf(FuncCode(idx))
                \/ p \in RunOf(onElseOrEnd) \/ p \in RunOf(due.before)
    BY <2>7, <2>8
  <2>12. p \in RunOf(v) <=> p \in RunOf(after) \/ p \in RunOf(due.after) \/ FlaggedRuns(due, p)
    BY <2>3, <2>9, <2>10
  <2>13. Top = last
    BY <1>8, <2>1 DEF Top, op, last
  <2>14. \A b \in 0 .. Len(body) : LET held == ~(op = "end" /\ b = last) IN
                /\ p \in RunOf(e[b].before) <=> p \in RunOf(onEnd[b].before) /\ held
                /\ p \in RunOf(e[b].after) <=> p \in RunOf(onEnd[b].after) /\ held
                /\ FlaggedRuns(e[b], p) <=> FlaggedRuns(onEnd[b], p) /\ held
    BY <2>1, <2>5, <2>6
  <2>15. Plan(Top, u, v, <<>>, e) /\ p \notin RunOf(<<>>) /\ op \in {"else", "end"}
    BY <1>7, <2>1, <2>13
  <2> QED
    BY <1>2, <1>7, <2>1, <2>2, <2>4, <2>8, <2>10, <2>11, <2>12, <2>14, <2>15, KeptRuns DEF op, last, due, after
<1>13. ASSUME OtherKept PROVE StepRuns(p)
  <2>1. /\ op \notin Structural /\ deleteBlock = {} /\ Plan(last, was, after, onElseOrEnd, onEnd)
    BY <1>13 DEF OtherKept, Op, op, was, last, after
  <2>2. op # "else" /\ op # "end" /\ op \notin BlockStyle /\ op \notin Opening
    BY <1>8, <2>1
  <2>3. idx \notin ReplacedInstrs
    BY <1>4, <2>1, <2>2
  <2>4. Plan(Top, was, after, onElseOrEnd, onEnd)
    BY <2>1, <2>2 DEF Top, op, last
  <2> QED
    BY <1>2, <1>3, <1>5, <2>2, <2>3, <2>4, KeptRuns DEF op, after
<1> QED
  BY <1>9, <1>10, <1>11, <1>12, <1>13 DEF Resolve

(***************************************************************************)
(* The bodies that wait for the end of a block: which block, and until     *)
(* when.                                                                   *)
(***************************************************************************)
\* The bodies of instruction i that wait for ends wait for e, which ends a block at this level.
WaitsFor(i, level, e) ==
    IF body[i].op \in BlockStyle THEN level = BlockLevel(body, i) /\ e = Closing(body, i)
    ELSE \E k \in DOMAIN body[i].arg :
            level = Level(body, i) - body[i].arg[k] /\ e = EndOfLabel(body, i, body[i].arg[k])
DueAt(i, b) ==
    /\ i \notin ReplacedInstrs /\ i < idx
    /\ \E e \in DOMAIN body : WaitsFor(i, b + 1, e) /\ idx <= e
EndsFor(i) == IF body[i].op \in BlockStyle THEN {Closing(body, i)} ELSE Ends(i)

LEMMA WaitedIsClosed ==
    ASSUME Shape, NEW i \in DOMAIN body, body[i].op \in BlockStyle \cup Branching
    PROVE  /\ \A level : \A e : WaitsFor(i, level, e) => Closes(body, i, level, e) /\ level \in Int
           /\ \A e : e \in EndsFor(i) <=> \E level : WaitsFor(i, level, e)
<1>1. body \in Seq(Instrs) /\ WellFormed(body) /\ Len(body) \in Nat /\ DOMAIN body = 1 .. Len(body)
  BY BodyFacts
<1>2. Level(body, i) \in Int
  BY <1>1, LevelSteps
<1>3. CASE body[i].op \in BlockStyle
  <2>1. Closes(body, i, BlockLevel(body, i), Closing(body, i)) /\ BlockLevel(body, i) \in Int
    BY <1>1, <1>3, BlockCloses, BlockLevelIsNext
  <2> QED
    BY <1>3, <2>1 DEF WaitsFor, EndsFor
<1>4. CASE body[i].op \notin BlockStyle
  <2> DEFINE a == body[i].arg
  <2>1. body[i].op \in Branching /\ body[i].op # "end"
    BY <1>4 DEF Branching
  <2>2. \A k \in DOMAIN a : a[k] \in Nat /\ a[k] < Level(body, i)
    BY <1>1, <2>1, LabelsInRange DEF Labelled
  <2>3. ASSUME NEW k \in DOMAIN a
        PROVE  Closes(body, i, Level(body, i) - a[k], EndOfLabel(body, i, a[k])) /\ Level(body, i) - a[k] \in Int
    <3> DEFINE d == a[k]
    <3>1. d \in Nat /\ d < Level(body, i)
      BY <2>2
    <3> HIDE DEF d
    <3>2. Closes(body, i, Level(body, i) - d, EndOfLabel(body, i, d)) /\ Level(body, i) - d \in Int
      BY <1>1, <1>2, <2>1, <3>1, LabelCloses
    <3> QED
      BY <3>2 DEF d
  <2>4. \A level : \A e : WaitsFor(i, level, e) <=>
            \E k \in DOMAIN a : level = Level(body, i) - a[k] /\ e = EndOfLabel(body, i, a[k])
    BY <1>4 DEF WaitsFor
  <2>5. \A e : e \in EndsFor(i) <=> \E k \in DOMAIN a : e = EndOfLabel(body, i, a[k])
    BY <1>4, Zenon DEF EndsFor, Ends
  <2> HIDE DEF a
  <2>6. \A level : \A e : WaitsFor(i, level, e) => Closes(body, i, level, e) /\ level \in Int
    <3>1. ASSUME NEW level, NEW e, WaitsFor(i, level, e) PROVE Closes(body, i, level, e) /\ level \in Int
      <4>1. PICK k \in DOMAIN a : level = Level(body, i) - a[k] /\ e = EndOfLabel(body, i, a[k])
        BY <2>4, <3>1, Zenon
      <4> DEFINE x == Level(body, i) - a[k]
                 y == EndOfLabel(body, i, a[k])
      <4>2. Closes(body, i, x, y) /\ x \in Int /\ level = x /\ e = y
        BY <2>3, <4>1, Zenon
      <4> HIDE DEF x, y
      <4> QED
        BY <4>2
    <3> QED
      BY <3>1
  <2>7. \A e : e \in EndsFor(i) <=> \E level : WaitsFor(i, level, e)
    <3>1. ASSUME NEW e, NEW level, WaitsFor(i, level, e) PROVE e \in EndsFor(i)
      <4>1. PICK k \in DOMAIN a : level = Level(body, i) - a[k] /\ e = EndOfLabel(body, i, a[k])
        BY <2>4, <3>1, Zenon
      <4> QED
        BY <2>5, <4>1, Zenon
    <3>2. ASSUME NEW e, e \in EndsFor(i) PROVE \E level : WaitsFor(i, level, e)
      <4>1. PICK k \in DOMAIN a : e = EndOfLabel(body, i, a[k])
        BY <2>5, <3>2, Zenon
      <4>2. WaitsFor(i, Level(body, i) - a[k], e)
        BY <2>4, <4>1, Zenon
      <4> QED
        BY <4>2, Zenon
    <3> QED
      BY <3>1, <3>2, Zenon
  <2> QED
    BY <2>6, <2>7
<1> QED
  BY <1>3, <1>4

\* What is due at the end the pass is at is what waits for it, and it no longer waits then.
LEMMA DueFacts ==
    ASSUME TypeOK, Shape, phase = "resolve", NEW i \in DOMAIN body, body[i].op \in BlockStyle \cup Branching
    PROVE  /\ EndsHere /\ DueAt(i, Last(blockStack)) <=> i \notin ReplacedInstrs /\ idx \in EndsFor(i)
           /\ \A b \in 0 .. Len(body) :
                (i \notin ReplacedInstrs /\ i < idx + 1 /\ \E e \in DOMAIN body : WaitsFor(i, b + 1, e) /\ idx + 1 <= e)
                <=> \/ i = idx /\ Keeps /\ \E e : WaitsFor(i, b + 1, e)
                    \/ DueAt(i, b) /\ ~(EndsHere /\ b = Last(blockStack))
<1> DEFINE last == Last(blockStack)
           here == Level(body, idx)
<1>1. idx \in DOMAIN body /\ idx \in Nat /\ last = here - 1
  BY StackFacts
<1>2. body \in Seq(Instrs) /\ WellFormed(body) /\ Len(body) \in Nat /\ DOMAIN body = 1 .. Len(body) /\ i \in Nat
  BY BodyFacts
<1>3. here \in Int
  BY <1>1, <1>2, LevelSteps
<1>4. ASSUME NEW level, NEW e, WaitsFor(i, level, e)
      PROVE  /\ level \in Int /\ e \in DOMAIN body /\ e \in Nat /\ i < e /\ body[e].op = "end" /\ Level(body, e) = level
             /\ i < idx /\ idx <= e /\ body[idx].op = "end" /\ here = level => idx = e
             /\ i \notin ReplacedInstrs => e \notin ReplacedInstrs
  <2>1. Closes(body, i, level, e) /\ level \in Int
    BY <1>4, WaitedIsClosed
  <2>2. /\ e \in DOMAIN body /\ i < e /\ body[e].op = "end" /\ Level(body, e) = level
        /\ i < idx /\ idx <= e /\ body[idx].op = "end" /\ here = level => idx = e
    BY <1>1, <2>1 DEF Closes
  <2>3. i \notin ReplacedInstrs => e \notin ReplacedInstrs
    BY <2>1, EndStays
  <2> QED
    BY <1>2, <2>1, <2>2, <2>3
<1> HIDE DEF last, here
<1>5. ASSUME EndsHere, DueAt(i, last) PROVE i \notin ReplacedInstrs /\ idx \in EndsFor(i)
  <2>1. PICK e \in DOMAIN body : WaitsFor(i, last + 1, e) /\ idx <= e
    BY <1>5 DEF DueAt
  <2>2. i < idx /\ i \notin ReplacedInstrs /\ body[idx].op = "end"
    BY <1>5 DEF DueAt, EndsHere
  <2>3. here = last + 1
    BY <1>1, <1>3 DEF here, last
  <2>4. idx = e
    BY <1>4, <2>1, <2>2, <2>3
  <2> QED
    BY <2>1, <2>2, <2>4, WaitedIsClosed
<1>6. ASSUME i \notin ReplacedInstrs, idx \in EndsFor(i) PROVE EndsHere /\ DueAt(i, last)
  <2>1. PICK level : WaitsFor(i, level, idx)
    BY <1>6, WaitedIsClosed
  <2>2. i < idx /\ body[idx].op = "end" /\ Level(body, idx) = level /\ level \in Int /\ idx \notin ReplacedInstrs
    BY <1>4, <1>6, <2>1
  <2>3. level = last + 1
    BY <1>1, <2>2 DEF here, last
  <2>4. EndsHere
    BY <2>2 DEF EndsHere
  <2>5. idx <= idx
    BY <1>1
  <2> QED
    BY <1>1, <1>6, <2>1, <2>2, <2>3, <2>4, <2>5 DEF DueAt
<1>7. ASSUME NEW b \in 0 .. Len(body), i \notin ReplacedInstrs, i < idx + 1,
             NEW e \in DOMAIN body, WaitsFor(i, b + 1, e), idx + 1 <= e
      PROVE  \/ i = idx /\ Keeps /\ \E f : WaitsFor(i, b + 1, f)
             \/ DueAt(i, b) /\ ~(EndsHere /\ b = last)
  <2>1. CASE i = idx
    BY <1>7, <2>1 DEF Keeps
  <2>2. CASE i # idx
    <3>1. i < idx /\ idx <= e /\ e \in Nat /\ idx # e
      BY <1>1, <1>2, <1>7, <2>2
    <3>2. DueAt(i, b)
      BY <1>7, <3>1 DEF DueAt
    <3>3. ASSUME EndsHere, b = last PROVE FALSE
      <4>1. here = b + 1 /\ body[idx].op = "end"
        BY <1>1, <1>3, <3>3 DEF EndsHere, here, last
      <4> QED
        BY <1>4, <1>7, <3>1, <4>1
    <3> QED
      BY <3>2, <3>3
  <2> QED
    BY <2>1, <2>2
<1>8. ASSUME NEW b \in 0 .. Len(body), i = idx, Keeps, NEW f, WaitsFor(i, b + 1, f)
      PROVE  i \notin ReplacedInstrs /\ i < idx + 1 /\ \E e \in DOMAIN body : WaitsFor(i, b + 1, e) /\ idx + 1 <= e
  <2>1. f \in DOMAIN body /\ f \in Nat /\ i < f
    BY <1>4, <1>8
  <2>2. idx + 1 <= f /\ i < idx + 1
    BY <1>1, <1>8, <2>1
  <2> QED
    BY <1>8, <2>1, <2>2 DEF Keeps
<1>9. ASSUME NEW b \in 0 .. Len(body), DueAt(i, b), ~(EndsHere /\ b = last)
      PROVE  i \notin ReplacedInstrs /\ i < idx + 1 /\ \E e \in DOMAIN body : WaitsFor(i, b + 1, e) /\ idx + 1 <= e
  <2>1. PICK e \in DOMAIN body : WaitsFor(i, b + 1, e) /\ idx <= e
    BY <1>9 DEF DueAt
  <2>2. i \notin ReplacedInstrs /\ i < idx
    BY <1>9 DEF DueAt
  <2>3. idx # e
    <3>1. SUFFICES ASSUME idx = e PROVE EndsHere /\ b = last
      BY <1>9
    <3>2. body[idx].op = "end" /\ Level(body, idx) = b + 1 /\ idx \notin ReplacedInstrs
      BY <1>4, <2>1, <2>2, <3>1
    <3>3. b = last
      BY <1>1, <3>2 DEF here, last
    <3> QED
      BY <3>2, <3>3 DEF EndsHere
  <2>4. idx + 1 <= e /\ i < idx + 1
    BY <1>1, <1>2, <2>1, <2>2, <2>3
  <2> QED
    BY <2>1, <2>2, <2>4
<1>10. EndsHere /\ DueAt(i, last) <=> i \notin ReplacedInstrs /\ idx \in EndsFor(i)
  BY <1>5, <1>6
<1>11. ASSUME NEW b \in 0 .. Len(body)
       PROVE  (i \notin ReplacedInstrs /\ i < idx + 1 /\ \E e \in DOMAIN body : WaitsFor(i, b + 1, e) /\ idx + 1 <= e)
                <=> \/ i = idx /\ Keeps /\ \E e : WaitsFor(i, b + 1, e)
                    \/ DueAt(i, b) /\ ~(EndsHere /\ b = last)
  BY <1>7, <1>8, <1>9, Zenon
<1> QED
  BY <1>10, <1>11, Zenon DEF last

\* Where a body that is planned at the instruction the pass is at waits.
LEMMA PlannedHere ==
    ASSUME TypeOK, Shape, phase = "resolve", NEW b \in 0 .. Len(body)
    PROVE  /\ body[idx].op \in BlockStyle => (b = Top <=> \E e : WaitsFor(idx, b + 1, e))
           /\ body[idx].op \in Branching => (Aims(Last(blockStack), b) <=> \E e : WaitsFor(idx, b + 1, e))
<1> DEFINE here == Level(body, idx)
           last == Last(blockStack)
           a == body[idx].arg
<1>1. idx \in DOMAIN body /\ Len(blockStack) = here /\ last = here - 1
  BY StackFacts
<1>2. body \in Seq(Instrs) /\ b \in Int
  BY BodyFacts
<1>3. here \in Int
  BY <1>1, <1>2, LevelSteps
<1>4. ASSUME body[idx].op \in BlockStyle PROVE b = Top <=> \E e : WaitsFor(idx, b + 1, e)
  <2>1. (\E e : WaitsFor(idx, b + 1, e)) <=> b + 1 = BlockLevel(body, idx)
    BY <1>4, Zenon DEF WaitsFor
  <2>2. BlockLevel(body, idx) = here + (IF body[idx].op = "else" THEN 0 ELSE 1)
    BY DEF BlockLevel
  <2>3. Top = IF body[idx].op = "else" THEN last ELSE here
    BY <1>1, <1>4 DEF Top, BlockStyle, Opening
  <2> HIDE DEF here, last
  <2> QED
    BY <1>1, <1>2, <1>3, <2>1, <2>2, <2>3
<1>5. ASSUME body[idx].op \in Branching PROVE Aims(last, b) <=> \E e : WaitsFor(idx, b + 1, e)
  <2>1. body[idx].op \notin BlockStyle
    BY <1>5 DEF Branching, BlockStyle, Opening
  <2>2. (\E e : WaitsFor(idx, b + 1, e)) <=> \E k \in DOMAIN a : b + 1 = here - a[k]
    BY <2>1, Zenon DEF WaitsFor
  <2>3. Aims(last, b) <=> \E k \in DOMAIN a : last - a[k] = b
    BY Zenon DEF Aims
  <2>4. ASSUME NEW k \in DOMAIN a PROVE last - a[k] = b <=> b + 1 = here - a[k]
    <3> DEFINE d == a[k]
    <3>1. d \in Nat
      BY <1>1, <1>2, OpensInBody
    <3> HIDE DEF d, last, here
    <3>2. last - d = b <=> b + 1 = here - d
      BY <1>1, <1>2, <1>3, <3>1
    <3> QED
      BY <3>2 DEF d
  <2> QED
    BY <2>2, <2>3, <2>4, Zenon
<1> QED
  BY <1>4, <1>5

(***************************************************************************)
(* The invariant: what the caller asked for is still ahead as it was       *)
(* asked, what the pass has been through is where it belongs, and what is  *)
(* between the two waits for the right else or end.                        *)
(***************************************************************************)
Carried ==
    /\ phase = "edit" => onElseOrEnd = <<>> /\ onEnd = [b \in 0 .. Len(body) |-> Nothing]
    /\ phase # "edit" => \A f \in FuncModes : asked.func[f] \in Codes
    /\ phase # "edit" /\ special =>
        /\ \A i \in DOMAIN body : i >= idx => lists[i] = asked.lists[i]
        /\ onEntry = asked.func["entry"] \o WrapperBlock(asked.func["exit"])
        /\ onExit = asked.func["exit"]

Landed(P, p) ==
    \A j \in DOMAIN body : j < idx => \A n \in Modes : p \in RunOf(lists[j][n]) <=> <<j, n>> \in P
\* The bodies of mode m at i, p among them, that the pass has taken up and not yet placed.
Waiting(i, m, p) ==
    /\ p \in RunOf(onElseOrEnd) <=>
        /\ m = "block_exit" /\ body[i].op = "if" /\ i \notin ReplacedInstrs
        /\ i < idx /\ idx <= ElseOrClosing(body, i)
    /\ \A b \in 0 .. Len(body) :
        /\ p \in RunOf(onEnd[b].before) <=> m = "block_exit" /\ body[i].op # "if" /\ DueAt(i, b)
        /\ p \in RunOf(onEnd[b].after) <=> m = "semantic_after" /\ body[i].op \in BlockStyle /\ DueAt(i, b)
        /\ FlaggedRuns(onEnd[b], p) <=> m = "semantic_after" /\ body[i].op \notin BlockStyle /\ DueAt(i, b)
NotWaiting(p) ==
    /\ p \notin RunOf(onElseOrEnd)
    /\ \A b \in 0 .. Len(body) :
        /\ p \notin RunOf(onEnd[b].before) /\ p \notin RunOf(onEnd[b].after)
        /\ ~FlaggedRuns(onEnd[b], p)
Placed ==
    phase # "edit" /\ special /\ AltsArePlain =>
        /\ \A i \in DOMAIN body : \A m \in Modes : \A p \in RunOf(asked.lists[i][m]) :
            WaitsFlat(i, m) => Landed(Belongs(i, m), p) /\ Waiting(i, m, p)
        /\ \A f \in FuncModes : \A p \in RunOf(asked.func[f]) : Landed(FuncBelongs(f), p) /\ NotWaiting(p)

\* A body the caller gave an instruction, when the pass is at some instruction.
LEMMA ListProbe ==
    ASSUME TypeOK, Shape, AskedOnce, Carried, phase = "resolve",
           NEW i \in DOMAIN body, NEW m \in Modes, NEW p \in RunOf(asked.lists[i][m])
    PROVE  /\ p.op = "probe" /\ Applicable(body[i].op, m)
           /\ \A n \in Modes : p \in RunOf(lists[idx][n]) <=> idx = i /\ n = m
           /\ \A f \in FuncModes : p \notin RunOf(asked.func[f])
           /\ m = "block_alt" => i \in AskedAlts /\ i \in ReplacedInstrs
<1>1. /\ Fits(asked.lists, asked.func) /\ Apart(asked.lists, asked.func)
      /\ \A k \in DOMAIN body : \A n \in Optional \ asked.some[k] : asked.lists[k][n] = <<>>
  BY DEF AskedOnce
<1>2. p \in Injections /\ Applicable(body[i].op, m)
  BY <1>1 DEF Fits
<1>3. p.op = "probe"
  BY <1>2 DEF Injections, Probe, Instr
<1>4. idx \in DOMAIN body /\ special = TRUE
  BY ListsFacts
<1>5. lists[idx] = asked.lists[idx]
  <2>1. idx >= idx
    BY <1>4, BodyFacts
  <2> QED
    BY <1>4, <2>1 DEF Carried
<1>6. ASSUME NEW n \in Modes PROVE p \in RunOf(lists[idx][n]) <=> idx = i /\ n = m
  <2>1. p \in RunOf(asked.lists[idx][n]) => i = idx /\ m = n
    BY <1>1, <1>4, Zenon DEF Apart
  <2> QED
    BY <1>5, <2>1
<1>7. \A f \in FuncModes : p \notin RunOf(asked.func[f])
  BY <1>1, Zenon DEF Apart
<1>8. ASSUME m = "block_alt" PROVE i \in AskedAlts /\ i \in ReplacedInstrs
  <2>1. body[i].op \in BlockStyle
    BY <1>2, <1>8 DEF Applicable, PlainModes
  <2>2. asked.lists[i][m] # <<>>
    BY RunOfFacts
  <2>3. "block_alt" \in Optional
    BY DEF Optional
  <2>4. "block_alt" \in asked.some[i]
    BY <1>1, <1>8, <2>2, <2>3
  <2>5. i \in AskedAlts
    BY <2>1, <2>4 DEF AskedAlts
  <2> QED
    BY <2>5, AltsAreReplaced
<1> QED
  BY <1>2, <1>3, <1>6, <1>7, <1>8

LEMMA FuncCodeRuns ==
    ASSUME TypeOK, Shape, Coded, Carried, phase = "resolve", NEW p, p.op = "probe"
    PROVE  p \in RunOf(FuncCode(idx)) <=>
              \/ idx = 1 /\ p \in RunOf(asked.func["entry"])
              \/ idx \in LeavingInstrs /\ p \in RunOf(asked.func["exit"])
<1> DEFINE entry == asked.func["entry"]
           exit == asked.func["exit"]
           wrap == WrapperBlock(exit)
           first == IF idx = 1 THEN onEntry ELSE <<>>
           out == ExitCode(body[idx].op, idx)
<1>1. idx \in DOMAIN body /\ special = TRUE
  BY ListsFacts
<1>2. /\ onEntry = entry \o wrap /\ onExit = exit /\ entry \in Codes /\ exit \in Codes
      /\ onEntry \in Codes
  BY <1>1 DEF Carried, FuncModes, Coded, PassCoded
<1>3. /\ RunOf(<<>>) = {} /\ <<>> \in Codes /\ <<Block>> \in Codes /\ <<End>> \in Codes
      /\ RunOf(<<Block>>) = {Block} /\ RunOf(<<End>>) = {End}
  BY SomeCodes, RunOfFacts
<1>4. p # Block /\ p # End
  BY DEF Block, End, Instr
<1>5. wrap \in Codes /\ p \notin RunOf(wrap)
  BY <1>3, <1>4 DEF WrapperBlock
<1> HIDE DEF entry, exit, wrap
<1>6. p \in RunOf(onEntry) <=> p \in RunOf(entry)
  <2>1. entry \in Codes /\ wrap \in Codes
    BY <1>2, <1>5
  <2>2. RunOf(entry \o wrap) = RunOf(entry) \cup RunOf(wrap)
    BY <2>1, RunOfFacts
  <2>3. onEntry = entry \o wrap
    BY <1>2
  <2> QED
    BY <1>5, <2>2, <2>3
<1>7. first \in Codes /\ (p \in RunOf(first) <=> idx = 1 /\ p \in RunOf(entry))
  BY <1>2, <1>3, <1>6
<1>8. idx \in LeavingInstrs <=> body[idx].op \in Leaving \/ idx = Len(body)
  BY <1>1 DEF LeavingInstrs
<1>9. out \in Codes /\ (p \in RunOf(out) <=> idx \in LeavingInstrs /\ p \in RunOf(exit))
  <2>1. CASE onExit = <<>>
    <3>1. out = <<>> /\ exit = <<>>
      BY <1>2, <2>1 DEF ExitCode
    <3> QED
      BY <1>3, <3>1
  <2>2. CASE onExit # <<>> /\ body[idx].op \in Leaving
    <3>1. out = exit
      BY <1>2, <2>2 DEF ExitCode
    <3> QED
      BY <1>2, <1>8, <2>2, <3>1
  <2>3. CASE onExit # <<>> /\ body[idx].op \notin Leaving /\ idx = Len(body)
    <3>1. out = <<End>> \o exit
      BY <1>2, <2>3 DEF ExitCode
    <3>2. out \in Codes /\ RunOf(out) = RunOf(<<End>>) \cup RunOf(exit)
      <4> DEFINE e == <<End>>
      <4>1. e \in Codes /\ exit \in Codes /\ out = e \o exit
        BY <1>2, <1>3, <3>1
      <4> HIDE DEF e, out
      <4>2. out \in Codes /\ RunOf(out) = RunOf(e) \cup RunOf(exit)
        BY <4>1, SomeCodes, RunOfFacts
      <4> QED
        BY <4>2 DEF e
    <3> QED
      BY <1>3, <1>4, <1>8, <2>3, <3>2
  <2>4. CASE onExit # <<>> /\ body[idx].op \notin Leaving /\ idx # Len(body)
    <3>1. out = <<>>
      BY <2>4 DEF ExitCode
    <3> QED
      BY <1>3, <1>8, <2>4, <3>1
  <2> QED
    BY <2>1, <2>2, <2>3, <2>4
<1>10. FuncCode(idx) = first \o out
  BY DEF FuncCode
<1> HIDE DEF first, out
<1>11. RunOf(FuncCode(idx)) = RunOf(first) \cup RunOf(out)
  BY <1>7, <1>9, <1>10, RunOfFacts
<1> QED
  BY <1>7, <1>9, <1>11 DEF entry, exit

\* Where a body of mode m at i belongs, by list.
WaitedElse(i) == IF body[i].op = "if" THEN ElseOrClosing(body, i) ELSE Closing(body, i)
BelongsAs(i, m, j) ==
    /\ <<j, "before">> \in Belongs(i, m) <=>
         \/ m = "before" /\ j = i
         \/ m = "block_exit" /\ i \notin ReplacedInstrs /\ j = WaitedElse(i)
    /\ <<j, "after">> \in Belongs(i, m) <=>
         \/ m = "after" /\ j = i
         \/ m = "block_entry" /\ i \notin ReplacedInstrs /\ j = i
         \/ /\ m = "semantic_after" /\ i \notin ReplacedInstrs
            /\ j \in EndsFor(i) \/ (body[i].op = "br_if" /\ j = i)
    /\ <<j, "alternate">> \in Belongs(i, m) <=>
         \/ m = "alternate" /\ i \notin ReplacedInstrs /\ j = i
         \/ m = "block_alt" /\ Outermost(i) /\ j = i
    /\ \A n \in SpecialModes : <<j, n>> \notin Belongs(i, m)

LEMMA BelongsAt ==
    ASSUME NEW i \in DOMAIN body, NEW m \in Modes, Applicable(body[i].op, m), NEW j,
           m = "block_alt" => i \in ReplacedInstrs
    PROVE  BelongsAs(i, m, j)
<1> USE DEF BelongsAs
<1> DEFINE B == Belongs(i, m)
<1>1. \A n \in SpecialModes : n \notin {"before", "after", "alternate"}
  BY DEF SpecialModes
<1>2. CASE m \in {"before", "after"}
  <2>1. B = {<<i, m>>}
    BY <1>2 DEF Belongs
  <2> QED
    BY <1>1, <1>2, <2>1
<1>3. CASE m = "block_alt"
  <2>1. B = IF Outermost(i) THEN {<<i, "alternate">>} ELSE {}
    BY <1>3 DEF Belongs
  <2> QED
    BY <1>1, <1>3, <2>1
<1>4. CASE m \notin {"before", "after", "block_alt"} /\ i \in ReplacedInstrs
  <2>1. B = {}
    BY <1>4 DEF Belongs
  <2> QED
    BY <1>4, <2>1
<1>5. CASE m = "alternate" /\ i \notin ReplacedInstrs
  <2>1. B = {<<i, m>>}
    BY <1>5 DEF Belongs
  <2> QED
    BY <1>1, <1>5, <2>1
<1>6. CASE m = "block_entry" /\ i \notin ReplacedInstrs
  <2>1. B = {<<i, "after">>}
    BY <1>6 DEF Belongs
  <2> QED
    BY <1>1, <1>6, <2>1
<1>7. CASE m = "block_exit" /\ i \notin ReplacedInstrs
  <2>1. B = {<<WaitedElse(i), "before">>}
    BY <1>7 DEF Belongs, WaitedElse
  <2> QED
    BY <1>1, <1>7, <2>1
<1>8. CASE m = "semantic_after" /\ i \notin ReplacedInstrs /\ body[i].op \in BlockStyle
  <2>1. B = {<<Closing(body, i), "after">>} /\ EndsFor(i) = {Closing(body, i)}
    BY <1>8 DEF Belongs, EndsFor
  <2>2. body[i].op # "br_if"
    BY <1>8 DEF BlockStyle, Opening
  <2> QED
    BY <1>1, <1>8, <2>1, <2>2
<1>9. CASE m = "semantic_after" /\ i \notin ReplacedInstrs /\ body[i].op \notin BlockStyle
  <2>1. /\ B = {<<e, "after">> : e \in Ends(i)} \cup (IF body[i].op = "br_if" THEN {<<i, "after">>} ELSE {})
        /\ EndsFor(i) = Ends(i)
    BY <1>9 DEF Belongs, EndsFor
  <2> HIDE DEF B
  <2>2. \A n : <<j, n>> \in B <=> n = "after" /\ (j \in EndsFor(i) \/ (body[i].op = "br_if" /\ j = i))
    BY <2>1
  <2> QED
    BY <1>1, <1>9, <2>2 DEF B
<1>10. m \in {"before", "after", "alternate", "block_alt", "block_entry", "block_exit", "semantic_after"}
  BY DEF Modes, PlainModes, SpecialModes
<1> QED
  BY <1>2, <1>3, <1>4, <1>5, <1>6, <1>7, <1>8, <1>9, <1>10, Zenon

\* The else or end an if's exit waits for is the one that resolves it.
LEMMA IfWaits ==
    ASSUME TypeOK, Shape, phase = "resolve", NEW i \in DOMAIN body, body[i].op = "if",
           i \notin ReplacedInstrs, FlatIf(i), i < idx, idx <= ElseOrClosing(body, i)
    PROVE  idx = ElseOrClosing(body, i) <=> body[idx].op = "else" \/ EndsHere
<1> DEFINE w == ElseOrClosing(body, i)
           c == Closing(body, i)
<1>1. /\ body \in Seq(Instrs) /\ WellFormed(body) /\ Len(body) \in Nat /\ DOMAIN body = 1 .. Len(body)
      /\ idx \in DOMAIN body /\ idx \in Nat /\ i \in Nat /\ body[i].op \in BlockStyle
  BY BodyFacts, StackFacts DEF BlockStyle, Opening
<1>2. w \in DOMAIN body /\ i < w /\ (body[w].op = "else" \/ w = c)
  BY <1>1, ElseOrClosingFacts
<1>3. Closes(body, i, BlockLevel(body, i), c)
  BY <1>1, BlockCloses
<1>4. body[c].op = "end" /\ c \notin ReplacedInstrs
  BY <1>3, EndStays DEF Closes
<1>5. \A j \in i + 1 .. w - 1 : body[j].op \notin {"else", "end"}
  BY DEF FlatIf
<1> HIDE DEF w, c
<1>6. ASSUME idx = w PROVE body[idx].op = "else" \/ EndsHere
  BY <1>2, <1>4, <1>6 DEF EndsHere
<1>7. ASSUME body[idx].op = "else" \/ EndsHere PROVE idx = w
  <2>1. body[idx].op \in {"else", "end"}
    BY <1>7 DEF EndsHere
  <2>2. idx <= w /\ w \in Nat
    BY <1>1, <1>2 DEF w
  <2>3. idx # w => idx \in i + 1 .. w - 1
    BY <1>1, <2>2
  <2> QED
    BY <1>5, <2>1, <2>3
<1> QED
  BY <1>6, <1>7 DEF w

\* One step of the pass, for one body p of mode m at i: Landed and Waiting after the step.
DueNext(i, b) ==
    i \notin ReplacedInstrs /\ i < idx + 1 /\ \E e \in DOMAIN body : WaitsFor(i, b + 1, e) /\ idx + 1 <= e
LandedNext(P, p) ==
    \A j \in DOMAIN body : j < idx + 1 => \A n \in Modes : p \in RunOf(lists'[j][n]) <=> <<j, n>> \in P
WaitingNext(i, m, p) ==
    /\ p \in RunOf(onElseOrEnd') <=>
        /\ m = "block_exit" /\ body[i].op = "if" /\ i \notin ReplacedInstrs
        /\ i < idx + 1 /\ idx + 1 <= ElseOrClosing(body, i)
    /\ \A b \in 0 .. Len(body) :
        /\ p \in RunOf(onEnd'[b].before) <=> m = "block_exit" /\ body[i].op # "if" /\ DueNext(i, b)
        /\ p \in RunOf(onEnd'[b].after) <=> m = "semantic_after" /\ body[i].op \in BlockStyle /\ DueNext(i, b)
        /\ FlaggedRuns(onEnd'[b], p) <=> m = "semantic_after" /\ body[i].op \notin BlockStyle /\ DueNext(i, b)

\* What a step puts at the instruction it is at is all that it changes in the lists.
LEMMA LandingStep ==
    ASSUME TypeOK, Shape, Stepped, NEW P, NEW p, Landed(P, p),
           p \in RunOf(lists'[idx]["before"]) <=> <<idx, "before">> \in P,
           p \in RunOf(lists'[idx]["after"]) <=> <<idx, "after">> \in P,
           p \in RunOf(lists'[idx]["alternate"]) <=> <<idx, "alternate">> \in P,
           \A n \in SpecialModes : p \notin RunOf(lists'[idx][n]) /\ <<idx, n>> \notin P
    PROVE  LandedNext(P, p)
<1>1. ASSUME NEW j \in DOMAIN body, j < idx + 1, NEW n \in Modes
      PROVE  p \in RunOf(lists'[j][n]) <=> <<j, n>> \in P
  <2>1. CASE j = idx
    <3>1. n \in SpecialModes \/ n \in {"before", "after", "alternate"}
      BY DEF Modes, PlainModes
    <3>2. CASE n \in SpecialModes
      BY <2>1, <3>2
    <3>3. CASE n \in {"before", "after", "alternate"}
      BY <2>1, <3>3
    <3> QED
      BY <3>1, <3>2, <3>3
  <2>2. CASE j # idx
    <3>1. idx \in Nat /\ j \in Nat
      BY BodyFacts, ListsFacts DEF Stepped
    <3>2. j < idx
      BY <1>1, <2>2, <3>1
    <3>3. lists'[j] = lists[j]
      BY <2>2 DEF Stepped
    <3> QED
      BY <3>2, <3>3 DEF Landed
  <2> QED
    BY <2>1, <2>2
<1> QED
  BY <1>1 DEF LandedNext

LEMMA ListStep ==
    ASSUME TypeOK, Shape, Region, Given, Coded, AskedOnce, Carried, AltsArePlain, Resolve,
           NEW i \in DOMAIN body, NEW m \in Modes, NEW p \in RunOf(asked.lists[i][m]),
           WaitsFlat(i, m), Landed(Belongs(i, m), p), Waiting(i, m, p)
    PROVE  LandedNext(Belongs(i, m), p) /\ WaitingNext(i, m, p)
<1> DEFINE last == Last(blockStack)
           op == body[i].op
           taken == EndsHere /\ DueAt(i, last)
<1>1. phase = "resolve" /\ Stepped
  BY ResolveView DEF Stepped
<1>2. /\ p.op = "probe" /\ Applicable(op, m)
      /\ \A n \in Modes : p \in RunOf(lists[idx][n]) <=> idx = i /\ n = m
      /\ \A f \in FuncModes : p \notin RunOf(asked.func[f])
      /\ m = "block_alt" => i \in AskedAlts /\ i \in ReplacedInstrs
  BY <1>1, ListProbe
<1>3. StepRuns(p)
  BY <1>2, StepRunsHold
<1>4. p \notin RunOf(FuncCode(idx))
  <2>1. "entry" \in FuncModes /\ "exit" \in FuncModes
    BY DEF FuncModes
  <2> QED
    BY <1>1, <1>2, <2>1, FuncCodeRuns
<1>5. last \in 0 .. Len(body) /\ idx \in DOMAIN body /\ idx \in Nat /\ i \in Nat
  BY <1>1, HereFacts, BodyFacts
<1>6. /\ {"before", "after", "alternate", "block_alt", "block_entry", "block_exit", "semantic_after"} \subseteq Modes
      /\ Optional = {"alternate", "block_alt"}
  BY DEF Modes, PlainModes, SpecialModes, Optional
<1>7. /\ m = "block_exit" => op \in BlockStyle
      /\ m = "semantic_after" => op \in BlockStyle \cup Branching
  BY <1>2 DEF Applicable, PlainModes
<1>8. \A x, y \in {"before", "after", "alternate", "block_alt", "block_entry", "block_exit", "semantic_after"} :
         (p \in RunOf(lists[idx][x]) <=> idx = i /\ m = x)
  BY <1>2, <1>6
\* what was waiting and is placed here
<1>9. m \in {"block_exit", "semantic_after"} => (taken <=> i \notin ReplacedInstrs /\ idx \in EndsFor(i))
  BY <1>1, <1>7, DueFacts
<1>10. /\ p \in RunOf(onElseOrEnd) <=>
            /\ m = "block_exit" /\ op = "if" /\ i \notin ReplacedInstrs
            /\ i < idx /\ idx <= ElseOrClosing(body, i)
       /\ \A b \in 0 .. Len(body) :
            /\ p \in RunOf(onEnd[b].before) <=> m = "block_exit" /\ op # "if" /\ DueAt(i, b)
            /\ p \in RunOf(onEnd[b].after) <=> m = "semantic_after" /\ op \in BlockStyle /\ DueAt(i, b)
            /\ FlaggedRuns(onEnd[b], p) <=> m = "semantic_after" /\ op \notin BlockStyle /\ DueAt(i, b)
  BY DEF Waiting
<1>11. p \in RunOf(onElseOrEnd) => (idx = ElseOrClosing(body, i) <=> body[idx].op = "else" \/ EndsHere)
  <2>1. p \in RunOf(onElseOrEnd) => FlatIf(i)
    BY <1>10 DEF WaitsFlat
  <2> QED
    BY <1>1, <1>10, <2>1, IfWaits
<1>12. m = "block_exit" /\ op = "if" => i < ElseOrClosing(body, i) /\ ElseOrClosing(body, i) \in Nat
  <2>1. m = "block_exit" => i < ElseOrClosing(body, i) /\ ElseOrClosing(body, i) \in DOMAIN body
    BY <1>7, BodyFacts, ElseOrClosingFacts
  <2> QED
    BY <2>1, BodyFacts
<1>21. BelongsAs(i, m, idx)
  BY <1>2, BelongsAt
<1> HIDE DEF last, op
\* the lists of the instruction the pass is at
<1>13. p \in RunOf(lists'[idx]["before"]) <=> <<idx, "before">> \in Belongs(i, m)
  <2>1. p \in RunOf(lists'[idx]["before"]) <=>
            \/ idx = i /\ m = "before"
            \/ p \in RunOf(onElseOrEnd) /\ (body[idx].op = "else" \/ EndsHere)
            \/ m = "block_exit" /\ op # "if" /\ taken
    <3>1. p \in RunOf(lists[idx]["before"]) <=> idx = i /\ m = "before"
      BY <1>8
    <3>2. EndsHere /\ p \in RunOf(onEnd[last].before) <=> m = "block_exit" /\ op # "if" /\ taken
      BY <1>5, <1>10, Zenon
    <3>3. BeforeStep(p)
      BY <1>3 DEF StepRuns
    <3> QED
      BY <1>4, <3>1, <3>2, <3>3, Zenon DEF BeforeStep, last
  <2>2. (p \in RunOf(onElseOrEnd) /\ (body[idx].op = "else" \/ EndsHere)) <=>
            m = "block_exit" /\ op = "if" /\ i \notin ReplacedInstrs /\ idx = ElseOrClosing(body, i)
    <3>1. ASSUME m = "block_exit", op = "if", i \notin ReplacedInstrs, idx = ElseOrClosing(body, i)
          PROVE  p \in RunOf(onElseOrEnd)
      <4>1. i < idx /\ idx <= ElseOrClosing(body, i)
        BY <1>5, <1>12, <3>1
      <4> QED
        BY <1>10, <3>1, <4>1
    <3> QED
      BY <1>10, <1>11, <3>1
  <2>3. m = "block_exit" /\ op # "if" => (taken <=> i \notin ReplacedInstrs /\ idx = Closing(body, i))
    BY <1>7, <1>9 DEF EndsFor, op
  <2>4. <<idx, "before">> \in Belongs(i, m) <=>
                \/ m = "before" /\ idx = i
                \/ m = "block_exit" /\ i \notin ReplacedInstrs /\ idx = WaitedElse(i)
    BY <1>21 DEF BelongsAs, op
  <2>5. WaitedElse(i) = IF op = "if" THEN ElseOrClosing(body, i) ELSE Closing(body, i)
    BY DEF WaitedElse, op
  <2> HIDE DEF taken
  <2> QED
    BY <2>1, <2>2, <2>3, <2>4, <2>5
<1>14. p \in RunOf(lists'[idx]["after"]) <=> <<idx, "after">> \in Belongs(i, m)
  <2>1. p \in RunOf(lists'[idx]["after"]) <=>
            \/ idx = i /\ m = "after"
            \/ Keeps /\ idx = i /\ m = "block_entry"
            \/ Keeps /\ body[idx].op = "br_if" /\ idx = i /\ m = "semantic_after"
            \/ m = "semantic_after" /\ taken
    <3>1. /\ p \in RunOf(lists[idx]["after"]) <=> idx = i /\ m = "after"
          /\ p \in RunOf(lists[idx]["block_entry"]) <=> idx = i /\ m = "block_entry"
          /\ p \in RunOf(lists[idx]["semantic_after"]) <=> idx = i /\ m = "semantic_after"
      BY <1>8
    <3>2. (EndsHere /\ p \in RunOf(onEnd[last].after)) \/ (EndsHere /\ FlaggedRuns(onEnd[last], p))
             <=> m = "semantic_after" /\ taken
      BY <1>5, <1>10, Zenon
    <3>3. AfterStep(p)
      BY <1>3 DEF StepRuns
    <3> QED
      BY <3>1, <3>2, <3>3, Zenon DEF AfterStep, last
  <2>2. <<idx, "after">> \in Belongs(i, m) <=>
                \/ m = "after" /\ idx = i
                \/ m = "block_entry" /\ i \notin ReplacedInstrs /\ idx = i
                \/ /\ m = "semantic_after" /\ i \notin ReplacedInstrs
                   /\ idx \in EndsFor(i) \/ (op = "br_if" /\ idx = i)
    BY <1>21 DEF BelongsAs, op
  <2>3. idx = i => (Keeps <=> i \notin ReplacedInstrs) /\ (body[idx].op = "br_if" <=> op = "br_if")
    BY DEF Keeps, op
  <2> HIDE DEF taken
  <2> QED
    BY <1>9, <2>1, <2>2, <2>3
<1>15. p \in RunOf(lists'[idx]["alternate"]) <=> <<idx, "alternate">> \in Belongs(i, m)
  <2>1. p \in RunOf(lists'[idx]["alternate"]) <=>
            \/ Keeps /\ idx = i /\ m = "alternate"
            \/ idx \in AskedAlts /\ Outermost(idx) /\ idx = i /\ m = "block_alt"
    <3>1. /\ p \in RunOf(lists[idx]["alternate"]) <=> idx = i /\ m = "alternate"
          /\ p \in RunOf(lists[idx]["block_alt"]) <=> idx = i /\ m = "block_alt"
      BY <1>8
    <3>2. AlternateStep(p)
      BY <1>3 DEF StepRuns
    <3> QED
      BY <3>1, <3>2, Zenon DEF AlternateStep
  <2>2. <<idx, "alternate">> \in Belongs(i, m) <=>
                \/ m = "alternate" /\ i \notin ReplacedInstrs /\ idx = i
                \/ m = "block_alt" /\ Outermost(i) /\ idx = i
    BY <1>21 DEF BelongsAs, op
  <2>3. idx = i => (Keeps <=> i \notin ReplacedInstrs) /\ (Outermost(idx) <=> Outermost(i))
    BY DEF Keeps
  <2> QED
    BY <1>2, <2>1, <2>2, <2>3
<1>16. \A n \in SpecialModes : p \notin RunOf(lists'[idx][n]) /\ <<idx, n>> \notin Belongs(i, m)
  <2>1. SpecialStep(p)
    BY <1>3 DEF StepRuns
  <2>2. ASSUME NEW n \in SpecialModes PROVE p \notin RunOf(lists'[idx][n])
    <3>1. CASE n \notin Optional
      BY <2>1, <3>1, RunOfFacts DEF SpecialStep
    <3>2. CASE n \in Optional
      <4>1. n = "block_alt"
        BY <3>2, ModesFacts
      <4>2. p \in RunOf(lists'[idx][n]) => Keeps /\ idx = i /\ m = "block_alt"
        BY <1>8, <2>1, <4>1 DEF SpecialStep
      <4> QED
        BY <1>2, <4>2 DEF Keeps
    <3> QED
      BY <3>1, <3>2
  <2>3. \A n \in SpecialModes : <<idx, n>> \notin Belongs(i, m)
    BY <1>21 DEF BelongsAs, op
  <2> QED
    BY <2>2, <2>3
<1>17. LandedNext(Belongs(i, m), p)
  <2> DEFINE P == Belongs(i, m)
  <2> HIDE DEF P
  <2>1. /\ Landed(P, p)
        /\ p \in RunOf(lists'[idx]["before"]) <=> <<idx, "before">> \in P
        /\ p \in RunOf(lists'[idx]["after"]) <=> <<idx, "after">> \in P
        /\ p \in RunOf(lists'[idx]["alternate"]) <=> <<idx, "alternate">> \in P
        /\ \A n \in SpecialModes : p \notin RunOf(lists'[idx][n]) /\ <<idx, n>> \notin P
    BY <1>13, <1>14, <1>15, <1>16 DEF P
  <2>2. LandedNext(P, p)
    BY <1>1, <2>1, LandingStep
  <2> QED
    BY <2>2 DEF P
\* what waits afterwards
<1>18. p \in RunOf(onElseOrEnd') <=>
        /\ m = "block_exit" /\ op = "if" /\ i \notin ReplacedInstrs
        /\ i < idx + 1 /\ idx + 1 <= ElseOrClosing(body, i)
  <2>1. p \in RunOf(onElseOrEnd') <=>
            \/ Keeps /\ idx = i /\ op = "if" /\ m = "block_exit"
            \/ p \in RunOf(onElseOrEnd) /\ idx # ElseOrClosing(body, i)
    <3>1. p \in RunOf(lists[idx]["block_exit"]) <=> idx = i /\ m = "block_exit"
      BY <1>8
    <3>2. PendingStep(p)
      BY <1>3 DEF StepRuns
    <3>3. idx = i => body[idx].op = op
      BY DEF op
    <3> QED
      BY <1>11, <3>1, <3>2, <3>3 DEF PendingStep
  <2>2. CASE ~(m = "block_exit" /\ op = "if" /\ i \notin ReplacedInstrs)
    BY <1>10, <2>1, <2>2 DEF Keeps
  <2>3. CASE m = "block_exit" /\ op = "if" /\ i \notin ReplacedInstrs
    <3> DEFINE w == ElseOrClosing(body, i)
    <3>1. p \in RunOf(onElseOrEnd) <=> i < idx /\ idx <= w
      BY <1>10, <2>3
    <3>2. i < w /\ w \in Nat
      BY <1>12, <2>3
    <3>3. p \in RunOf(onElseOrEnd') <=> idx = i \/ (p \in RunOf(onElseOrEnd) /\ idx # w)
      BY <2>1, <2>3 DEF Keeps
    <3> HIDE DEF w
    <3>4. (idx = i \/ (i < idx /\ idx <= w /\ idx # w)) <=> i < idx + 1 /\ idx + 1 <= w
      BY <1>5, <3>2
    <3> QED
      BY <2>3, <3>1, <3>3, <3>4 DEF w
  <2> QED
    BY <2>2, <2>3
<1>19. ASSUME NEW b \in 0 .. Len(body)
       PROVE  /\ p \in RunOf(onEnd'[b].before) <=> m = "block_exit" /\ op # "if" /\ DueNext(i, b)
              /\ p \in RunOf(onEnd'[b].after) <=> m = "semantic_after" /\ op \in BlockStyle /\ DueNext(i, b)
              /\ FlaggedRuns(onEnd'[b], p) <=> m = "semantic_after" /\ op \notin BlockStyle /\ DueNext(i, b)
  <2> DEFINE held == DueAt(i, b) /\ ~(EndsHere /\ b = last)
             means == \E e : WaitsFor(i, b + 1, e)
  <2>1. m \in {"block_exit", "semantic_after"} => (DueNext(i, b) <=> (i = idx /\ Keeps /\ means) \/ held)
    BY <1>1, <1>7, DueFacts DEF DueNext, op, last
  <2>2. /\ idx = i /\ op \in BlockStyle => (b = Top <=> means)
        /\ idx = i /\ op \in Branching => (Aims(last, b) <=> means)
    BY <1>1, PlannedHere DEF op, last
  <2>3. /\ p \in RunOf(lists[idx]["block_exit"]) <=> idx = i /\ m = "block_exit"
        /\ p \in RunOf(lists[idx]["semantic_after"]) <=> idx = i /\ m = "semantic_after"
    BY <1>8
  <2>4. idx = i => body[idx].op = op
    BY DEF op
  <2>5. DueStep(p, b)
    BY <1>3 DEF StepRuns
  <2>6. op \in Branching => op \notin BlockStyle
    BY DEF BlockStyle, Opening, Branching
  <2> HIDE DEF means
  <2>7. p \in RunOf(onEnd'[b].before) <=> m = "block_exit" /\ op # "if" /\ DueNext(i, b)
    <3>1. p \in RunOf(onEnd'[b].before) <=>
            \/ Keeps /\ op \in BlockStyle \ {"if"} /\ b = Top /\ idx = i /\ m = "block_exit"
            \/ m = "block_exit" /\ op # "if" /\ held
      BY <1>10, <2>3, <2>4, <2>5 DEF DueStep, last
    <3> HIDE DEF held
    <3> QED
      BY <1>7, <2>1, <2>2, <3>1
  <2>8. p \in RunOf(onEnd'[b].after) <=> m = "semantic_after" /\ op \in BlockStyle /\ DueNext(i, b)
    <3>1. p \in RunOf(onEnd'[b].after) <=>
            \/ Keeps /\ op \in BlockStyle /\ b = Top /\ idx = i /\ m = "semantic_after"
            \/ m = "semantic_after" /\ op \in BlockStyle /\ held
      BY <1>10, <2>3, <2>4, <2>5 DEF DueStep, last
    <3> HIDE DEF held
    <3> QED
      BY <1>7, <2>1, <2>2, <3>1
  <2>9. FlaggedRuns(onEnd'[b], p) <=> m = "semantic_after" /\ op \notin BlockStyle /\ DueNext(i, b)
    <3>1. FlaggedRuns(onEnd'[b], p) <=>
            \/ Keeps /\ op \in Branching /\ Aims(last, b) /\ idx = i /\ m = "semantic_after"
            \/ m = "semantic_after" /\ op \notin BlockStyle /\ held
      BY <1>10, <2>3, <2>4, <2>5 DEF DueStep, last
    <3> HIDE DEF held
    <3> QED
      BY <1>7, <2>1, <2>2, <2>6, <3>1
  <2> QED
    BY <2>7, <2>8, <2>9
<1>20. WaitingNext(i, m, p)
  BY <1>18, <1>19 DEF WaitingNext, op
<1> QED
  BY <1>17, <1>20

\* The same for a body p of the function, which waits for nothing.
NotWaitingNext(p) ==
    /\ p \notin RunOf(onElseOrEnd')
    /\ \A b \in 0 .. Len(body) :
        /\ p \notin RunOf(onEnd'[b].before) /\ p \notin RunOf(onEnd'[b].after)
        /\ ~FlaggedRuns(onEnd'[b], p)

LEMMA FuncStep ==
    ASSUME TypeOK, Shape, Region, Given, Coded, AskedOnce, Carried, AltsArePlain, Resolve,
           NEW f \in FuncModes, NEW p \in RunOf(asked.func[f]),
           Landed(FuncBelongs(f), p), NotWaiting(p)
    PROVE  LandedNext(FuncBelongs(f), p) /\ NotWaitingNext(p)
<1> DEFINE last == Last(blockStack)
           P == FuncBelongs(f)
<1>1. phase = "resolve" /\ Stepped /\ idx \in DOMAIN body /\ special = TRUE
  BY ResolveView, ListsFacts DEF Stepped
<1>2. /\ Fits(asked.lists, asked.func) /\ Apart(asked.lists, asked.func)
  BY <1>1 DEF AskedOnce
<1>3. p.op = "probe"
  BY <1>2 DEF Fits, Injections, Probe, Instr
<1>4. \A n \in Modes : p \notin RunOf(lists[idx][n])
  <2>1. idx >= idx
    BY <1>1, BodyFacts
  <2>2. lists[idx] = asked.lists[idx]
    BY <1>1, <2>1 DEF Carried
  <2>3. \A n \in Modes : p \notin RunOf(asked.lists[idx][n])
    BY <1>1, <1>2, Zenon DEF Apart
  <2> QED
    BY <2>2, <2>3
<1>5. \A g \in FuncModes : p \in RunOf(asked.func[g]) <=> g = f
  BY <1>2, Zenon DEF Apart
<1>6. p \in RunOf(FuncCode(idx)) <=> (f = "entry" /\ idx = 1) \/ (f = "exit" /\ idx \in LeavingInstrs)
  <2>1. "entry" \in FuncModes /\ "exit" \in FuncModes
    BY DEF FuncModes
  <2> QED
    BY <1>1, <1>3, <1>5, <2>1, FuncCodeRuns
<1>7. /\ <<idx, "before">> \in P <=> (f = "entry" /\ idx = 1) \/ (f = "exit" /\ idx \in LeavingInstrs)
      /\ \A n \in Modes : n # "before" => <<idx, n>> \notin P
  <2>1. CASE f = "entry"
    BY <2>1 DEF FuncBelongs
  <2>2. CASE f = "exit"
    <3>1. P = {<<i, "before">> : i \in LeavingInstrs}
      BY <2>2 DEF FuncBelongs
    <3> QED
      BY <2>2, <3>1
  <2> QED
    BY <2>1, <2>2 DEF FuncModes
<1>8. StepRuns(p)
  BY <1>3, StepRunsHold
<1>9. /\ p \notin RunOf(onElseOrEnd)
      /\ \A b \in 0 .. Len(body) :
          /\ p \notin RunOf(onEnd[b].before) /\ p \notin RunOf(onEnd[b].after)
          /\ ~FlaggedRuns(onEnd[b], p)
  BY DEF NotWaiting
<1>10. last \in 0 .. Len(body)
  BY <1>1, HereFacts
<1>11. {"before", "after", "alternate", "block_alt", "block_entry", "block_exit", "semantic_after"} \subseteq Modes
  BY DEF Modes, PlainModes, SpecialModes
<1>12. /\ p \notin RunOf(lists[idx]["before"]) /\ p \notin RunOf(lists[idx]["after"])
       /\ p \notin RunOf(lists[idx]["alternate"]) /\ p \notin RunOf(lists[idx]["block_alt"])
       /\ p \notin RunOf(lists[idx]["block_entry"]) /\ p \notin RunOf(lists[idx]["block_exit"])
       /\ p \notin RunOf(lists[idx]["semantic_after"])
  BY <1>4, <1>11
<1>13. /\ p \notin RunOf(onEnd[last].before) /\ p \notin RunOf(onEnd[last].after)
       /\ ~FlaggedRuns(onEnd[last], p)
  BY <1>9, <1>10
<1> HIDE DEF P
<1>14. p \in RunOf(lists'[idx]["before"]) <=> <<idx, "before">> \in P
  <2>1. BeforeStep(p)
    BY <1>8 DEF StepRuns
  <2> QED
    BY <1>6, <1>7, <1>9, <1>12, <1>13, <2>1, Zenon DEF BeforeStep
<1>15. p \in RunOf(lists'[idx]["after"]) <=> <<idx, "after">> \in P
  <2>1. AfterStep(p)
    BY <1>8 DEF StepRuns
  <2>2. p \notin RunOf(lists'[idx]["after"])
    BY <1>12, <1>13, <2>1, Zenon DEF AfterStep
  <2> QED
    BY <1>7, <1>11, <2>2
<1>16. p \in RunOf(lists'[idx]["alternate"]) <=> <<idx, "alternate">> \in P
  <2>1. AlternateStep(p)
    BY <1>8 DEF StepRuns
  <2>2. p \notin RunOf(lists'[idx]["alternate"])
    BY <1>12, <2>1, Zenon DEF AlternateStep
  <2> QED
    BY <1>7, <1>11, <2>2
<1>17. \A n \in SpecialModes : p \notin RunOf(lists'[idx][n]) /\ <<idx, n>> \notin P
  <2>1. SpecialStep(p)
    BY <1>8 DEF StepRuns
  <2>2. ASSUME NEW n \in SpecialModes PROVE p \notin RunOf(lists'[idx][n])
    <3>1. CASE n \notin Optional
      BY <2>1, <3>1, RunOfFacts DEF SpecialStep
    <3>2. CASE n \in Optional
      <4>1. n = "block_alt"
        BY <3>2, ModesFacts
      <4> QED
        BY <1>12, <2>1, <4>1 DEF SpecialStep
    <3> QED
      BY <3>1, <3>2
  <2>3. \A n \in SpecialModes : n # "before" /\ n \in Modes
    BY DEF SpecialModes, Modes
  <2> QED
    BY <1>7, <2>2, <2>3
<1>18. LandedNext(P, p)
  <2>1. Landed(P, p)
    BY DEF P
  <2> QED
    BY <1>1, <1>14, <1>15, <1>16, <1>17, <2>1, LandingStep
<1>19. p \notin RunOf(onElseOrEnd')
  <2>1. PendingStep(p)
    BY <1>8 DEF StepRuns
  <2> QED
    BY <1>9, <1>12, <2>1, Zenon DEF PendingStep
<1>20. ASSUME NEW b \in 0 .. Len(body)
       PROVE  /\ p \notin RunOf(onEnd'[b].before) /\ p \notin RunOf(onEnd'[b].after)
              /\ ~FlaggedRuns(onEnd'[b], p)
  <2>1. DueStep(p, b)
    BY <1>8 DEF StepRuns
  <2> QED
    BY <1>9, <1>12, <2>1, Zenon DEF DueStep
<1> QED
  BY <1>18, <1>19, <1>20 DEF NotWaitingNext, P

\* Where a body belongs is read off the function and what was asked for, which stay.
LEMMA BelongsStay ==
    ASSUME body' = body, asked' = asked
    PROVE  /\ \A i, m : Belongs(i, m)' = Belongs(i, m)
           /\ \A f : FuncBelongs(f)' = FuncBelongs(f)
           /\ \A i, m : WaitsFlat(i, m)' <=> WaitsFlat(i, m)
           /\ \A i, level, e : WaitsFor(i, level, e)' <=> WaitsFor(i, level, e)
           /\ AltsArePlain' <=> AltsArePlain
           /\ ReplacedInstrs' = ReplacedInstrs
<1>1. AskedAlts' = AskedAlts /\ ReplacedInstrs' = ReplacedInstrs
  BY RegionsStay
<1>2. \A i : RegionOf(i)' = RegionOf(i)
  BY DEF RegionOf
<1>3. \A i : Outermost(i)' <=> Outermost(i)
  BY <1>1, <1>2, Zenon DEF Outermost
<1>4. \A i : Ends(i)' = Ends(i)
  BY DEF Ends
<1>5. ASSUME NEW i, NEW m PROVE Belongs(i, m)' = Belongs(i, m)
  <2>1. CASE m \in {"before", "after"}
    BY <2>1 DEF Belongs
  <2>2. CASE m = "block_alt"
    BY <1>3, <2>2 DEF Belongs
  <2>3. CASE m \notin {"before", "after", "block_alt"} /\ i \in ReplacedInstrs
    BY <1>1, <2>3 DEF Belongs
  <2>4. CASE m \notin {"before", "after", "block_alt"} /\ i \notin ReplacedInstrs
    <3> DEFINE exit == {<<IF body[i].op = "if" THEN ElseOrClosing(body, i) ELSE Closing(body, i), "before">>}
               sem == IF body[i].op \in BlockStyle THEN {<<Closing(body, i), "after">>}
                      ELSE {<<e, "after">> : e \in Ends(i)}
                           \cup (IF body[i].op = "br_if" THEN {<<i, "after">>} ELSE {})
               where == CASE m = "alternate"      -> {<<i, m>>}
                          [] m = "block_entry"    -> {<<i, "after">>}
                          [] m = "block_exit"     -> exit
                          [] m = "semantic_after" -> sem
    <3>1. exit' = exit
      OBVIOUS
    <3>2. sem' = sem
      BY <1>4
    <3>3. Belongs(i, m) = where
      BY <2>4, Zenon DEF Belongs
    <3>4. Belongs(i, m)' = where'
      BY <1>1, <2>4, Zenon DEF Belongs
    <3>5. where' = where
      BY <3>1, <3>2, Zenon
    <3> HIDE DEF where
    <3> QED
      BY <3>3, <3>4, <3>5
  <2> QED
    BY <2>1, <2>2, <2>3, <2>4
<1>6. \A f : FuncBelongs(f)' = FuncBelongs(f)
  BY DEF FuncBelongs, LeavingInstrs
<1>7. \A i, m : WaitsFlat(i, m)' <=> WaitsFlat(i, m)
  BY DEF WaitsFlat, FlatIf
<1>8. \A i, level, e : WaitsFor(i, level, e)' <=> WaitsFor(i, level, e)
  <2>1. ASSUME NEW i, NEW level, NEW e PROVE WaitsFor(i, level, e)' <=> WaitsFor(i, level, e)
    <3>1. CASE body[i].op \in BlockStyle
      BY <3>1 DEF WaitsFor
    <3>2. CASE body[i].op \notin BlockStyle
      <4> DEFINE meant == \E k \in DOMAIN body[i].arg :
                    level = Level(body, i) - body[i].arg[k] /\ e = EndOfLabel(body, i, body[i].arg[k])
      <4>1. meant' <=> meant
        OBVIOUS
      <4>2. (WaitsFor(i, level, e) <=> meant) /\ (WaitsFor(i, level, e)' <=> meant')
        BY <3>2 DEF WaitsFor
      <4> HIDE DEF meant
      <4> QED
        BY <4>1, <4>2
    <3> QED
      BY <3>1, <3>2
  <2> QED
    BY <2>1
<1>9. AltsArePlain' <=> AltsArePlain
  BY DEF AltsArePlain
<1> QED
  BY <1>1, <1>5, <1>6, <1>7, <1>8, <1>9

\* What LandedNext and WaitingNext say is what Landed and Waiting say after a step.
LEMMA AfterTheStep ==
    ASSUME body' = body, asked' = asked, idx' = idx + 1
    PROVE  /\ \A i, m, p : LandedNext(Belongs(i, m), p) => Landed(Belongs(i, m), p)'
           /\ \A f, p : LandedNext(FuncBelongs(f), p) => Landed(FuncBelongs(f), p)'
           /\ \A i, m, p : WaitingNext(i, m, p) => Waiting(i, m, p)'
           /\ \A p : NotWaitingNext(p) => NotWaiting(p)'
<1>1. ASSUME NEW i, NEW m, NEW p, LandedNext(Belongs(i, m), p) PROVE Landed(Belongs(i, m), p)'
  <2>1. Belongs(i, m)' = Belongs(i, m)
    BY BelongsStay
  <2> QED
    BY <1>1, <2>1 DEF LandedNext, Landed
<1>2. ASSUME NEW f, NEW p, LandedNext(FuncBelongs(f), p) PROVE Landed(FuncBelongs(f), p)'
  <2>1. FuncBelongs(f)' = FuncBelongs(f)
    BY BelongsStay
  <2> QED
    BY <1>2, <2>1 DEF LandedNext, Landed
<1>3. ASSUME NEW i, NEW b PROVE DueNext(i, b) <=> DueAt(i, b)'
  <2>1. /\ ReplacedInstrs' = ReplacedInstrs
        /\ \A e : WaitsFor(i, b + 1, e)' <=> WaitsFor(i, b + 1, e)
    BY BelongsStay
  <2> QED
    BY <2>1 DEF DueNext, DueAt
<1>4. ASSUME NEW i, NEW m, NEW p, WaitingNext(i, m, p) PROVE Waiting(i, m, p)'
  <2>1. ReplacedInstrs' = ReplacedInstrs
    BY BelongsStay
  <2>2. (p \in RunOf(onElseOrEnd) <=>
            /\ m = "block_exit" /\ body[i].op = "if" /\ i \notin ReplacedInstrs
            /\ i < idx /\ idx <= ElseOrClosing(body, i))'
    BY <1>4, <2>1 DEF WaitingNext
  <2>3. ASSUME NEW b \in 0 .. Len(body)
        PROVE  (/\ p \in RunOf(onEnd[b].before) <=> m = "block_exit" /\ body[i].op # "if" /\ DueAt(i, b)
                /\ p \in RunOf(onEnd[b].after) <=>
                        m = "semantic_after" /\ body[i].op \in BlockStyle /\ DueAt(i, b)
                /\ FlaggedRuns(onEnd[b], p) <=>
                        m = "semantic_after" /\ body[i].op \notin BlockStyle /\ DueAt(i, b))'
    <3> DEFINE due == DueNext(i, b)
    <3>1. due <=> DueAt(i, b)'
      BY <1>3
    <3>2. /\ p \in RunOf(onEnd'[b].before) <=> m = "block_exit" /\ body[i].op # "if" /\ due
          /\ p \in RunOf(onEnd'[b].after) <=> m = "semantic_after" /\ body[i].op \in BlockStyle /\ due
          /\ FlaggedRuns(onEnd'[b], p) <=> m = "semantic_after" /\ body[i].op \notin BlockStyle /\ due
      BY <1>4 DEF WaitingNext
    <3> HIDE DEF due
    <3> QED
      BY <3>1, <3>2
  <2>4. body' = body
    OBVIOUS
  <2> QED
    BY <2>2, <2>3, <2>4 DEF Waiting
<1>5. ASSUME NEW p, NotWaitingNext(p) PROVE NotWaiting(p)'
  BY <1>5 DEF NotWaitingNext, NotWaiting
<1> QED
  BY <1>1, <1>2, <1>4, <1>5

LEMMA PlacedStep ==
    ASSUME TypeOK, Shape, Resolves, Coded, AskedOnce, Carried, Placed, Resolve
    PROVE  Placed'
<1>1. phase = "resolve" /\ body' = body /\ asked' = asked /\ idx' = idx + 1 /\ special = TRUE
  BY ResolveView, ListsFacts DEF Stepped
<1>2. Region /\ Given
  BY DEF Resolves
<1>3. AltsArePlain' <=> AltsArePlain
  BY <1>1, BelongsStay
<1> SUFFICES ASSUME AltsArePlain
             PROVE  (/\ \A i \in DOMAIN body : \A m \in Modes : \A p \in RunOf(asked.lists[i][m]) :
                          WaitsFlat(i, m) => Landed(Belongs(i, m), p) /\ Waiting(i, m, p)
                     /\ \A f \in FuncModes : \A p \in RunOf(asked.func[f]) :
                          Landed(FuncBelongs(f), p) /\ NotWaiting(p))'
  BY <1>3 DEF Placed
<1>4. /\ \A i \in DOMAIN body : \A m \in Modes : \A p \in RunOf(asked.lists[i][m]) :
            WaitsFlat(i, m) => Landed(Belongs(i, m), p) /\ Waiting(i, m, p)
      /\ \A f \in FuncModes : \A p \in RunOf(asked.func[f]) : Landed(FuncBelongs(f), p) /\ NotWaiting(p)
  BY <1>1 DEF Placed
<1>5. ASSUME NEW i \in DOMAIN body, NEW m \in Modes, NEW p \in RunOf(asked.lists[i][m]), WaitsFlat(i, m)
      PROVE  Landed(Belongs(i, m), p)' /\ Waiting(i, m, p)'
  <2>1. Landed(Belongs(i, m), p) /\ Waiting(i, m, p)
    BY <1>4, <1>5
  <2>2. LandedNext(Belongs(i, m), p) /\ WaitingNext(i, m, p)
    BY <1>2, <1>5, <2>1, ListStep
  <2> QED
    BY <1>1, <2>2, AfterTheStep
<1>6. ASSUME NEW f \in FuncModes, NEW p \in RunOf(asked.func[f])
      PROVE  Landed(FuncBelongs(f), p)' /\ NotWaiting(p)'
  <2>1. Landed(FuncBelongs(f), p) /\ NotWaiting(p)
    BY <1>4
  <2>2. LandedNext(FuncBelongs(f), p) /\ NotWaitingNext(p)
    BY <1>2, <2>1, FuncStep
  <2> QED
    BY <1>1, <2>2, AfterTheStep
<1>7. \A i, m : WaitsFlat(i, m)' <=> WaitsFlat(i, m)
  BY <1>1, BelongsStay
<1> QED
  BY <1>1, <1>5, <1>6, <1>7

(***************************************************************************)
(* Carried and Placed are inductive.                                       *)
(***************************************************************************)
\* A step that is no call, no beginning and no step of the pass leaves its state alone.
LEMMA OtherSteps ==
    ASSUME [RunNext]_<<vars, written, runVars>>, ~Edit, ~Begin, ~Resolve
    PROVE  /\ UNCHANGED <<body, lists, special, idx, onElseOrEnd, onEnd, onEntry, onExit, asked>>
           /\ phase' = "edit" <=> phase = "edit"
<1>1. Write \/ Run \/ UNCHANGED <<vars, written, runVars>>
  BY DEF RunNext, Prepare
<1>2. CASE Write
  BY <1>2 DEF Write, Done, callerVars, passVars
<1>3. CASE Run
  BY <1>3 DEF Run, callerVars, passVars
<1>4. CASE UNCHANGED <<vars, written, runVars>>
  BY <1>4 DEF vars, apiVars, passVars
<1> QED
  BY <1>1, <1>2, <1>3, <1>4

LEMMA CarriedInductive ==
    ASSUME TypeOK, Shape, Coded, Carried, [RunNext]_<<vars, written, runVars>>
    PROVE  Carried'
<1>1. CASE Edit
  <2>1. phase = "edit" /\ phase' = "edit" /\ UNCHANGED <<body, onElseOrEnd, onEnd>>
    BY <1>1, EditView DEF Edit, Edited, passVars
  <2> QED
    BY <2>1 DEF Carried
<1>2. CASE Begin
  <2>1. /\ phase = "edit" /\ phase' # "edit" /\ UNCHANGED <<body, lists>> /\ asked' = Ask
        /\ onEntry' = funcLists["entry"] \o WrapperBlock(funcLists["exit"])
        /\ onExit' = funcLists["exit"]
    BY <1>2 DEF Begin
  <2>2. asked'.func = funcLists /\ asked'.lists = lists
    BY <2>1 DEF Ask
  <2>3. \A f \in FuncModes : funcLists[f] \in Codes
    BY DEF Coded, ListsCoded
  <2> QED
    BY <2>1, <2>2, <2>3 DEF Carried, WrapperBlock
<1>3. CASE Resolve
  <2>1. Stepped
    BY <1>3, ResolveView
  <2>2. /\ phase = "resolve" /\ phase' # "edit" /\ idx' = idx + 1 /\ UNCHANGED <<body, asked, special>>
        /\ \A j \in DOMAIN body \ {idx} : lists'[j] = lists[j]
    BY <2>1 DEF Stepped
  <2>3. onEntry' = onEntry /\ onExit' = onExit
    BY <1>3 DEF Resolve, OpenBlock, AtElse, EndRemoved, EndKept, OtherRemoved, OtherKept, Here, NextInstr
  <2>4. idx \in Nat /\ DOMAIN body \subseteq Nat
    BY <2>2, BodyFacts, StackFacts
  <2>5. \A j \in DOMAIN body : j >= idx + 1 => j # idx /\ j >= idx
    BY <2>4
  <2>6. special = TRUE
    BY <2>2, ListsFacts
  <2>7. /\ \A f \in FuncModes : asked.func[f] \in Codes
        /\ \A j \in DOMAIN body : j >= idx => lists[j] = asked.lists[j]
        /\ onEntry = asked.func["entry"] \o WrapperBlock(asked.func["exit"])
        /\ onExit = asked.func["exit"]
    BY <2>2, <2>6 DEF Carried
  <2>8. \A j \in DOMAIN body' : j >= idx' => lists'[j] = asked'.lists[j]
    BY <2>2, <2>5, <2>7
  <2>9. /\ \A f \in FuncModes : asked'.func[f] \in Codes
        /\ onEntry' = asked'.func["entry"] \o WrapperBlock(asked'.func["exit"])
        /\ onExit' = asked'.func["exit"]
    BY <2>2, <2>3, <2>7
  <2> QED
    BY <2>2, <2>8, <2>9 DEF Carried, WrapperBlock
<1>4. CASE ~Edit /\ ~Begin /\ ~Resolve
  <2>1. /\ UNCHANGED <<body, lists, special, idx, onElseOrEnd, onEnd, onEntry, onExit, asked>>
        /\ phase' = "edit" <=> phase = "edit"
    BY <1>4, OtherSteps
  <2> QED
    BY <2>1 DEF Carried, WrapperBlock
<1> QED
  BY <1>1, <1>2, <1>3, <1>4

\* At the beginning nothing is behind the pass and nothing waits.
LEMMA BeginPlaced ==
    ASSUME Shape, Carried, Begin
    PROVE  Placed'
<1>1. /\ phase = "edit" /\ UNCHANGED <<body, idx, onElseOrEnd, onEnd>>
  BY DEF Begin, passVars
<1>2. idx = 1 /\ DOMAIN body = 1 .. Len(body) /\ Len(body) \in Nat
  BY <1>1, BodyFacts DEF Shape
<1>3. onElseOrEnd' = <<>> /\ \A b \in 0 .. Len(body) : onEnd'[b] = Nothing
  BY <1>1 DEF Carried
<1>4. \A j \in DOMAIN body : ~(j < idx')
  BY <1>1, <1>2
<1>5. \A p : p \notin RunOf(onElseOrEnd')
  BY <1>3, RunOfFacts
<1>6. ASSUME NEW b \in 0 .. Len(body), NEW p
      PROVE  p \notin RunOf(onEnd'[b].before) /\ p \notin RunOf(onEnd'[b].after) /\ ~FlaggedRuns(onEnd'[b], p)
  <2>1. /\ onEnd'[b].before = <<>> /\ onEnd'[b].after = <<>> /\ onEnd'[b].flagged = <<>>
    BY <1>3 DEF Nothing
  <2> QED
    BY <2>1, RunOfFacts DEF FlaggedRuns
<1>7. body' = body
  BY <1>1
<1>8. \A P, p : Landed(P, p)'
  BY <1>4, <1>7 DEF Landed
<1>9. \A p : NotWaiting(p)'
  BY <1>5, <1>6, <1>7 DEF NotWaiting
<1>10. ASSUME NEW i \in DOMAIN body, NEW m, NEW p PROVE Waiting(i, m, p)'
  <2>1. ~(i < idx')
    BY <1>4
  <2>2. \A b : ~DueAt(i, b)'
    BY <2>1 DEF DueAt
  <2>3. ASSUME NEW b \in 0 .. Len(body)
        PROVE  (/\ p \in RunOf(onEnd[b].before) <=> m = "block_exit" /\ body[i].op # "if" /\ DueAt(i, b)
                /\ p \in RunOf(onEnd[b].after) <=>
                        m = "semantic_after" /\ body[i].op \in BlockStyle /\ DueAt(i, b)
                /\ FlaggedRuns(onEnd[b], p) <=>
                        m = "semantic_after" /\ body[i].op \notin BlockStyle /\ DueAt(i, b))'
    BY <1>6, <2>2, Zenon
  <2> QED
    BY <1>5, <1>7, <2>1, <2>3 DEF Waiting
<1> QED
  BY <1>7, <1>8, <1>9, <1>10 DEF Placed

LEMMA PlacedInductive ==
    ASSUME TypeOK, Shape, Resolves, Coded, AskedOnce, Carried, Placed, [RunNext]_<<vars, written, runVars>>
    PROVE  Placed'
<1>1. CASE Edit
  BY <1>1 DEF Edit, Placed
<1>2. CASE Begin
  BY <1>2, BeginPlaced
<1>3. CASE Resolve
  BY <1>3, PlacedStep
<1>4. CASE ~Edit /\ ~Begin /\ ~Resolve
  <2>1. /\ UNCHANGED <<body, lists, special, idx, onElseOrEnd, onEnd, asked>>
        /\ phase' = "edit" <=> phase = "edit"
    BY <1>4, OtherSteps
  <2>2. /\ \A i, m : Belongs(i, m)' = Belongs(i, m)
        /\ \A f : FuncBelongs(f)' = FuncBelongs(f)
        /\ \A i, m : WaitsFlat(i, m)' <=> WaitsFlat(i, m)
        /\ \A i, level, e : WaitsFor(i, level, e)' <=> WaitsFor(i, level, e)
        /\ AltsArePlain' <=> AltsArePlain
        /\ ReplacedInstrs' = ReplacedInstrs
    BY <2>1, BelongsStay
  <2>3. \A i, b : DueAt(i, b)' <=> DueAt(i, b)
    BY <2>1, <2>2 DEF DueAt
  <2>4. \A i, m, p : Waiting(i, m, p)' <=> Waiting(i, m, p)
    <3>1. ASSUME NEW i, NEW m, NEW p PROVE Waiting(i, m, p)' <=> Waiting(i, m, p)
      <4>1. \A b : FlaggedRuns(onEnd[b], p)' <=> FlaggedRuns(onEnd[b], p)
        BY <2>1 DEF FlaggedRuns
      <4> QED
        BY <2>1, <2>2, <2>3, <4>1 DEF Waiting
    <3> QED
      BY <3>1
  <2>5. \A p : NotWaiting(p)' <=> NotWaiting(p)
    BY <2>1 DEF NotWaiting, FlaggedRuns
  <2>6. \A i, m, p : Landed(Belongs(i, m), p)' <=> Landed(Belongs(i, m), p)
    BY <2>1, <2>2 DEF Landed
  <2>7. \A f, p : Landed(FuncBelongs(f), p)' <=> Landed(FuncBelongs(f), p)
    BY <2>1, <2>2 DEF Landed
  <2> QED
    BY <2>1, <2>2, <2>4, <2>5, <2>6, <2>7 DEF Placed
<1> QED
  BY <1>1, <1>2, <1>3, <1>4

(***************************************************************************)
(* When the pass has come to the end, everything behind it is everything.  *)
(***************************************************************************)
LEMMA BelongsInBody ==
    ASSUME Shape, NEW i \in DOMAIN body, NEW m \in Modes, Applicable(body[i].op, m)
    PROVE  Belongs(i, m) \subseteq (DOMAIN body) \X Modes
<1>1. body \in Seq(Instrs) /\ WellFormed(body)
  BY BodyFacts
<1>2. {"before", "after", "alternate"} \subseteq Modes
  BY DEF Modes, PlainModes
<1>3. CASE m \in {"before", "after", "block_alt", "alternate", "block_entry"} \/ i \in ReplacedInstrs
  <2>1. \A q \in Belongs(i, m) : q \in {<<i, "before">>, <<i, "after">>, <<i, "alternate">>}
    BY <1>3 DEF Belongs
  <2> QED
    BY <1>2, <2>1
<1>4. CASE m = "block_exit" /\ i \notin ReplacedInstrs
  <2> DEFINE w == IF body[i].op = "if" THEN ElseOrClosing(body, i) ELSE Closing(body, i)
  <2>1. body[i].op \in BlockStyle
    BY <1>4 DEF Applicable, PlainModes
  <2>2. ElseOrClosing(body, i) \in DOMAIN body
    BY <1>1, <2>1, ElseOrClosingFacts
  <2>3. Closing(body, i) \in DOMAIN body
    BY <1>1, <2>1, BlockCloses DEF Closes
  <2>4. w \in DOMAIN body
    BY <2>2, <2>3
  <2>5. Belongs(i, m) = {<<w, "before">>}
    BY <1>4 DEF Belongs
  <2> HIDE DEF w
  <2> QED
    BY <1>2, <2>4, <2>5
<1>5. CASE m = "semantic_after" /\ i \notin ReplacedInstrs
  <2>1. body[i].op \in BlockStyle \cup Branching
    BY <1>5 DEF Applicable, PlainModes
  <2>2. \A e \in EndsFor(i) : e \in DOMAIN body
    BY <2>1, WaitedIsClosed DEF Closes
  <2>3. \A q \in Belongs(i, m) : q = <<i, "after">> \/ \E e \in EndsFor(i) : q = <<e, "after">>
    <3>1. CASE body[i].op \in BlockStyle
      BY <1>5, <3>1 DEF Belongs, EndsFor
    <3>2. CASE body[i].op \notin BlockStyle
      <4>1. Belongs(i, m) = {<<e, "after">> : e \in Ends(i)}
                                \cup (IF body[i].op = "br_if" THEN {<<i, "after">>} ELSE {})
        BY <1>5, <3>2 DEF Belongs
      <4>2. EndsFor(i) = Ends(i)
        BY <3>2 DEF EndsFor
      <4> QED
        BY <4>1, <4>2
    <3> QED
      BY <3>1, <3>2
  <2> QED
    BY <1>2, <2>2, <2>3
<1> QED
  BY <1>3, <1>4, <1>5 DEF Modes, PlainModes, SpecialModes

LEMMA FuncBelongsInBody ==
    ASSUME Shape, NEW f \in FuncModes
    PROVE  FuncBelongs(f) \subseteq (DOMAIN body) \X Modes
<1>1. 1 \in DOMAIN body /\ Len(body) \in DOMAIN body
  BY BodyFacts
<1>2. LeavingInstrs \subseteq DOMAIN body
  BY <1>1 DEF LeavingInstrs
<1>3. "before" \in Modes
  BY DEF Modes, PlainModes
<1>4. \A q \in FuncBelongs(f) : q = <<1, "before">> \/ \E j \in LeavingInstrs : q = <<j, "before">>
  BY DEF FuncBelongs
<1> QED
  BY <1>1, <1>2, <1>3, <1>4

\* A body is found exactly where it is in the list.
LEMMA FoundIsBelongs ==
    ASSUME Coded, NEW p, NEW P, P \subseteq (DOMAIN body) \X Modes,
           \A j \in DOMAIN body : \A n \in Modes : p \in RunOf(lists[j][n]) <=> <<j, n>> \in P
    PROVE  FoundAt(p) = P
<1>1. ASSUME NEW j \in DOMAIN body, NEW n \in Modes
      PROVE  Occurrences(p, j, n) > 0 <=> <<j, n>> \in P
  <2> DEFINE l == lists[j][n]
             S == {k \in DOMAIN l : l[k] = p}
  <2>1. l \in Codes
    BY DEF Coded, ListsCoded
  <2> HIDE DEF l
  <2>2. Len(l) \in Nat /\ DOMAIN l = 1 .. Len(l)
    BY <2>1 DEF Codes
  <2>3. IsFiniteSet(1 .. Len(l))
    BY <2>2, FS_Interval
  <2>4. IsFiniteSet(S)
    BY <2>2, <2>3, FS_Subset
  <2>5. Cardinality(S) \in Nat /\ (Cardinality(S) = 0 <=> S = {})
    BY <2>4, FS_CardinalityType, FS_EmptySet
  <2>6. S # {} <=> p \in RunOf(l)
    BY DEF RunOf
  <2>7. Occurrences(p, j, n) = Cardinality(S)
    BY DEF Occurrences, l
  <2>8. p \in RunOf(l) <=> <<j, n>> \in P
    BY DEF l
  <2> HIDE DEF S
  <2> QED
    BY <2>5, <2>6, <2>7, <2>8
<1>2. \A q : q \in FoundAt(p) <=> q \in (DOMAIN body) \X Modes /\ Occurrences(p, q[1], q[2]) > 0
  BY DEF FoundAt
<1>3. ASSUME NEW q PROVE q \in FoundAt(p) <=> q \in P
  <2>1. CASE q \in (DOMAIN body) \X Modes
    <3>1. PICK j \in DOMAIN body, n \in Modes : q = <<j, n>>
      BY <2>1
    <3>2. q[1] = j /\ q[2] = n
      BY <3>1
    <3> QED
      BY <1>1, <1>2, <2>1, <3>1, <3>2
  <2>2. CASE q \notin (DOMAIN body) \X Modes
    BY <1>2, <2>2
  <2> QED
    BY <2>1, <2>2
<1> QED
  BY <1>3

LEMMA ResolvedIsPlaced ==
    ASSUME TypeOK, Shape, Coded, AskedOnce, Placed
    PROVE  PlacedWhereTheyBelong
<1> SUFFICES ASSUME phase = "done", special, AltsArePlain
             PROVE  /\ \A i \in DOMAIN body : \A m \in Modes : \A p \in RunOf(asked.lists[i][m]) :
                          WaitsFlat(i, m) => FoundAt(p) = Belongs(i, m)
                    /\ \A m \in FuncModes : \A p \in RunOf(asked.func[m]) : FoundAt(p) = FuncBelongs(m)
  BY DEF PlacedWhereTheyBelong, Resolved, Done
<1>1. \A j \in DOMAIN body : j < idx
  <2>1. idx = Len(body) + 1 /\ Len(body) \in Nat /\ DOMAIN body = 1 .. Len(body)
    BY BodyFacts DEF Shape
  <2> QED
    BY <2>1
<1>2. /\ \A i \in DOMAIN body : \A m \in Modes : \A p \in RunOf(asked.lists[i][m]) :
            WaitsFlat(i, m) => Landed(Belongs(i, m), p)
      /\ \A f \in FuncModes : \A p \in RunOf(asked.func[f]) : Landed(FuncBelongs(f), p)
  BY DEF Placed
<1>3. ASSUME NEW i \in DOMAIN body, NEW m \in Modes, NEW p \in RunOf(asked.lists[i][m]), WaitsFlat(i, m)
      PROVE  FoundAt(p) = Belongs(i, m)
  <2> DEFINE P == Belongs(i, m)
  <2>1. Applicable(body[i].op, m)
    BY DEF AskedOnce, Fits
  <2>2. P \subseteq (DOMAIN body) \X Modes
    BY <2>1, BelongsInBody
  <2>3. Landed(P, p)
    BY <1>2, <1>3
  <2> HIDE DEF P
  <2>4. \A j \in DOMAIN body : \A n \in Modes : p \in RunOf(lists[j][n]) <=> <<j, n>> \in P
    BY <1>1, <2>3 DEF Landed
  <2>5. FoundAt(p) = P
    BY <2>2, <2>4, FoundIsBelongs
  <2> QED
    BY <2>5 DEF P
<1>4. ASSUME NEW f \in FuncModes, NEW p \in RunOf(asked.func[f])
      PROVE  FoundAt(p) = FuncBelongs(f)
  <2> DEFINE P == FuncBelongs(f)
  <2>1. P \subseteq (DOMAIN body) \X Modes
    BY FuncBelongsInBody
  <2>2. Landed(P, p)
    BY <1>2
  <2> HIDE DEF P
  <2>3. \A j \in DOMAIN body : \A n \in Modes : p \in RunOf(lists[j][n]) <=> <<j, n>> \in P
    BY <1>1, <2>2 DEF Landed
  <2>4. FoundAt(p) = P
    BY <2>1, <2>3, FoundIsBelongs
  <2> QED
    BY <2>4 DEF P
<1> QED
  BY <1>3, <1>4

\* Whatever the function and whatever was asked for, every body the resolver was given is
\* afterwards exactly where it belongs, once the pass is through: at its own instruction, at
\* the end of its own block or of every target of its branch, in place of its block, at the
\* function's ways in and out; and the bodies of a replaced block are nowhere.
THEOREM PlacedWhereTheyBelongHolds == RunSpec => []PlacedWhereTheyBelong
<1> DEFINE IInv == /\ TypeOK /\ Shape /\ Told /\ Resolves /\ Coded
                   /\ AskedOnce /\ Carried /\ Placed
<1>1. RunInit => IInv
  <2>1. RunInit => /\ phase = "edit" /\ onElseOrEnd = <<>>
                   /\ onEnd = [b \in 0 .. Len(body) |-> Nothing]
    BY DEF RunInit, ResolverInit
  <2>2. phase = "edit" => Resolves /\ Placed
    BY DEF Resolves, Region, Given, Handled, Placed
  <2>3. RunInit => Carried
    BY <2>1 DEF Carried
  <2> QED
    BY <2>1, <2>2, <2>3, InitIsTyped, InitCoded, InitAsked
<1>2. IInv /\ [RunNext]_<<vars, written, runVars>> => IInv'
  BY TypedInductive, ResolvesInductive, CodedInductive, AskedInductive, CarriedInductive, PlacedInductive
<1>3. IInv => PlacedWhereTheyBelong
  BY ResolvedIsPlaced
<1> QED
  BY <1>1, <1>2, <1>3, PTL DEF RunSpec
=============================================================================
