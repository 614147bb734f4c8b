------------------------ MODULE ArtifactTools_proofs ------------------------
(***************************************************************************)
(* The TB table is read as it was executed, for every set of translations, *)
(* contexts and codes, whatever the counts and the early exits; and what   *)
(* the tools make of the artifact, one command after another, tells of its *)
(* part of the run neither more nor less, wherever a command is killed.    *)
(***************************************************************************)
EXTENDS ArtifactTools, DataTheorems

-----------------------------------------------------------------------------
(* Codes: where their instructions are.                                    *)

Offset(code, k) == SumOver(code[2], 1 .. k - 1)

LEMMA CodeType ==
  ASSUME NEW code \in Codes
  PROVE  /\ code = <<code[1], code[2]>> /\ code[1] \in Nat
         /\ Len(code[2]) \in Nat /\ Len(code[2]) >= 1
         /\ DOMAIN code[2] = 1 .. Len(code[2])
         /\ \A k \in 1 .. Len(code[2]) : code[2][k] \in Nat /\ code[2][k] > 0
<1>1. code \in Nat \X (Seq(Nat \ {0}) \ {<<>>})
  BY TbTableAssumption
<1>2. /\ code = <<code[1], code[2]>> /\ code[1] \in Nat
      /\ code[2] \in Seq(Nat \ {0}) /\ code[2] # <<>>
  BY <1>1
<1>3. Len(code[2]) # 0
  BY <1>2
<1> QED BY <1>2, <1>3

LEMMA OffsetType ==
  ASSUME NEW code \in Codes, NEW k \in 1 .. Len(code[2]) + 1
  PROVE  /\ Weighs(code[2], 1 .. k - 1)
         /\ Offset(code, k) \in Nat
         /\ InsnAt(code, k) = code[1] + Offset(code, k)
<1>1. 1 .. k - 1 \subseteq 1 .. Len(code[2]) /\ k - 1 \in Int
  BY CodeType
<1>2. IsFiniteSet(1 .. k - 1)
  BY <1>1, FS_Interval
<1>3. Weighs(code[2], 1 .. k - 1)
  BY <1>1, <1>2, CodeType DEF Weighs
<1>4. Offset(code, k) \in Nat
  BY <1>3, SumType DEF Offset
<1> QED BY <1>3, <1>4, SumFunctionIsSum DEF InsnAt, Offset

LEMMA TotalType ==
  ASSUME NEW code \in Codes
  PROVE  /\ Total(code[2]) \in Nat
         /\ Total(code[2]) = Offset(code, Len(code[2]) + 1)
<1>1. 1 .. (Len(code[2]) + 1) - 1 = DOMAIN code[2]
  BY CodeType
<1>2. Total(code[2]) = Offset(code, Len(code[2]) + 1)
  BY <1>1, SumFunctionIsSum DEF Total, SumFunction, Offset
<1>3. Len(code[2]) + 1 \in 1 .. Len(code[2]) + 1
  BY CodeType
<1> QED BY <1>2, <1>3, OffsetType

(* An instruction starts where the one before it ends.                     *)
LEMMA NextInsn ==
  ASSUME NEW code \in Codes, NEW k \in 1 .. Len(code[2])
  PROVE  InsnAt(code, k + 1) = InsnAt(code, k) + code[2][k]
<1> DEFINE S == 1 .. k - 1
<1>1. /\ k \in Nat /\ k \in 1 .. Len(code[2]) + 1 /\ k + 1 \in 1 .. Len(code[2]) + 1
      /\ 1 .. (k + 1) - 1 = S \union {k} /\ k \notin S
  BY CodeType
<1>2. Weighs(code[2], S \union {k})
  BY <1>1, OffsetType
<1>3. SumOver(code[2], S \union {k}) = code[2][k] + SumOver(code[2], S)
  BY <1>1, <1>2, SumAdd
<1>4. Offset(code, k + 1) = code[2][k] + Offset(code, k)
  BY <1>1, <1>3 DEF Offset
<1>5. /\ Offset(code, k) \in Nat /\ InsnAt(code, k) = code[1] + Offset(code, k)
      /\ InsnAt(code, k + 1) = code[1] + Offset(code, k + 1)
  BY <1>1, OffsetType
<1> QED BY <1>4, <1>5, CodeType

(* So they are at different addresses, all of the code's extent.           *)
LEMMA InsnsRise ==
  ASSUME NEW code \in Codes, NEW j \in 1 .. Len(code[2]) + 1,
         NEW k \in 1 .. Len(code[2]) + 1, j < k
  PROVE  InsnAt(code, j) < InsnAt(code, k)
<1>1. /\ j \in 1 .. Len(code[2]) /\ j + 1 \in 1 .. Len(code[2]) + 1
      /\ 1 .. (j + 1) - 1 \subseteq 1 .. k - 1
  BY CodeType
<1>2. Weighs(code[2], 1 .. (j + 1) - 1) /\ Weighs(code[2], 1 .. k - 1)
  BY <1>1, OffsetType
<1>3. \A x \in 1 .. (j + 1) - 1 : code[2][x] <= code[2][x]
  BY <1>2 DEF Weighs
<1>4. Offset(code, j + 1) <= Offset(code, k)
  BY <1>1, <1>2, <1>3, SumAtMost DEF Offset
<1>5. InsnAt(code, j + 1) <= InsnAt(code, k)
  BY <1>1, <1>4, OffsetType, CodeType
<1>6. InsnAt(code, j + 1) = InsnAt(code, j) + code[2][j]
  BY <1>1, NextInsn
<1>7. InsnAt(code, j) \in Nat /\ InsnAt(code, k) \in Nat
  BY OffsetType, CodeType
<1> QED BY <1>1, <1>5, <1>6, <1>7, CodeType

LEMMA FirstInsn ==
  ASSUME NEW code \in Codes
  PROVE  InsnAt(code, 1) = code[1]
<1>1. 1 .. 1 - 1 = {} /\ 1 \in 1 .. Len(code[2]) + 1
  BY CodeType
<1>2. Offset(code, 1) = 0
  BY <1>1, SumEmpty DEF Offset
<1> QED BY <1>1, <1>2, OffsetType, CodeType

LEMMA EndOfCode ==
  ASSUME NEW code \in Codes
  PROVE  End(code) \in Nat /\ End(code) = InsnAt(code, Len(code[2]) + 1)
<1>1. PICK n \in Nat : Len(code[2]) = n
  BY CodeType
<1>2. n + 1 \in 1 .. n + 1
  BY ONLY n \in Nat
<1>3. Len(code[2]) + 1 \in 1 .. Len(code[2]) + 1
  BY <1>1, <1>2
<1> QED BY <1>3, TotalType, OffsetType, CodeType DEF End

LEMMA InsnInExtent ==
  ASSUME NEW code \in Codes, NEW k \in 1 .. Len(code[2])
  PROVE  InsnAt(code, k) \in ExtentOf(code)
<1>1. /\ 1 \in 1 .. Len(code[2]) + 1 /\ k \in 1 .. Len(code[2]) + 1
      /\ Len(code[2]) + 1 \in 1 .. Len(code[2]) + 1 /\ k < Len(code[2]) + 1
      /\ 1 = k \/ 1 < k
  BY CodeType
<1>2. code[1] <= InsnAt(code, k)
  BY <1>1, InsnsRise, FirstInsn, OffsetType, CodeType
<1>3. InsnAt(code, k) < End(code)
  BY <1>1, InsnsRise, EndOfCode
<1>4. InsnAt(code, k) \in Nat
  BY <1>1, OffsetType, CodeType
<1> QED BY <1>2, <1>3, <1>4, EndOfCode, CodeType DEF ExtentOf

(* A finite set of naturals has a largest member.                          *)
LEMMA MaxExists ==
  ASSUME NEW S \in SUBSET Nat, IsFiniteSet(S), S # {}
  PROVE  Max(S) \in S /\ \A y \in S : y <= Max(S)
<1> DEFINE w == [x \in S |-> x]
           B == {b \in Nat : \A y \in S : y <= b}
<1>1. Weighs(w, S)
  BY DEF Weighs
<1>2. ASSUME NEW y \in S PROVE y <= SumOver(w, S)
  <2>1. Weighs(w, S \ {y}) /\ SumOver(w, S) = w[y] + SumOver(w, S \ {y})
    BY <1>1, SumTake
  <2>2. SumOver(w, S \ {y}) \in Nat /\ w[y] = y
    BY <2>1, SumType
  <2> QED BY <2>1, <2>2
<1>3. SumOver(w, S) \in Nat
  BY <1>1, SumType
<1>4. B \in SUBSET Nat /\ B # {}
  BY <1>2, <1>3
<1>5. PICK b \in B : \A c \in B : b <= c
  BY <1>4, LeastNat
<1>6. b \in S
  <2> SUFFICES ASSUME b \notin S PROVE FALSE
    OBVIOUS
  <2>1. \A y \in S : y <= b - 1
    BY <1>5
  <2>2. b - 1 \in Nat
    <3>1. PICK y \in S : y <= b - 1
      BY <2>1
    <3> QED BY <3>1
  <2> QED BY <1>5, <2>1, <2>2
<1>7. \A y \in S : b >= y
  BY <1>5
<1>8. Max(S) \in S /\ \A y \in S : Max(S) >= y
  BY <1>6, <1>7 DEF Max
<1> QED BY <1>8

LEMMA ExtentInAddr ==
  ASSUME NEW code \in Codes
  PROVE  ExtentOf(code) \subseteq Addr /\ Addr \subseteq Nat
<1> DEFINE S == {End(c) : c \in Codes}
           f == [c \in Codes |-> End(c)]
<1>1. \A c \in Codes : f[c] = End(c)
  OBVIOUS
<1>2. IsFiniteSet(S)
  <2> HIDE DEF f
  <2>1. IsFiniteSet({f[c] : c \in Codes})
    BY ImageFinite, TbTableAssumption
  <2>2. {f[c] : c \in Codes} = S
    BY <1>1
  <2> QED BY <2>1, <2>2
<1>3. S \in SUBSET Nat /\ S # {} /\ End(code) \in S
  BY EndOfCode, TbTableAssumption
<1>4. Max(S) \in Nat /\ End(code) <= Max(S)
  <2> HIDE DEF S
  <2> QED BY <1>2, <1>3, MaxExists
<1>5. Addr = 0 .. Max(S)
  BY DEF Addr
<1> HIDE DEF S
<1>6. ASSUME NEW x \in ExtentOf(code) PROVE x \in 0 .. Max(S)
  <2>1. x \in code[1] .. End(code) - 1 /\ code[1] \in Nat /\ End(code) \in Nat
    BY EndOfCode, CodeType DEF ExtentOf
  <2> QED BY <1>4, <2>1
<1> QED BY <1>4, <1>5, <1>6

-----------------------------------------------------------------------------
(* A strict total order puts a finite set in one order.                    *)

Strict(E, R) ==
  /\ \A x \in E : <<x, x>> \notin R
  /\ \A x, y, z \in E : <<x, y>> \in R /\ <<y, z>> \in R => <<x, z>> \in R
  /\ \A x, y \in E : x = y \/ <<x, y>> \in R \/ <<y, x>> \in R

Ordered(s, R) == \A i, j \in DOMAIN s : i < j => <<s[i], s[j]>> \in R

LEMMA OrderExists ==
  ASSUME NEW E, IsFiniteSet(E), NEW R, Strict(E, R)
  PROVE  \E s \in [1 .. Cardinality(E) -> E] : Ordered(s, R)
<1> DEFINE n == Cardinality(E)
           Below(x) == {y \in E : <<y, x>> \in R}
           rank == [x \in E |-> Cardinality(Below(x)) + 1]
<1>1. n \in Nat /\ IsFiniteSet(1 .. n) /\ Cardinality(1 .. n) = n
  BY FS_CardinalityType, FS_Interval
<1>2. ASSUME NEW x \in E
      PROVE  /\ IsFiniteSet(Below(x)) /\ Cardinality(Below(x)) \in Nat
             /\ x \notin Below(x) /\ rank[x] \in 1 .. n
  <2>1. x \notin Below(x) /\ Below(x) \in SUBSET E /\ Below(x) # E
    BY DEF Strict
  <2>2. /\ IsFiniteSet(Below(x)) /\ Cardinality(Below(x)) <= n
        /\ Cardinality(Below(x)) # n
    BY <2>1, FS_Subset
  <2>3. Cardinality(Below(x)) \in Nat
    BY <2>2, FS_CardinalityType
  <2>4. Cardinality(Below(x)) + 1 \in 1 .. n
    <3> HIDE DEF n, Below
    <3> QED BY <1>1, <2>2, <2>3
  <2> QED BY <2>1, <2>2, <2>3, <2>4
<1>3. ASSUME NEW x \in E, NEW y \in E, <<x, y>> \in R
      PROVE  rank[x] < rank[y]
  <2>1. Below(x) \in SUBSET Below(y) /\ Below(x) # Below(y)
    <3>1. x \in Below(y) /\ x \notin Below(x)
      BY <1>2, <1>3
    <3>2. \A z \in Below(x) : z \in Below(y)
      BY <1>3 DEF Strict
    <3> QED BY <3>1, <3>2
  <2>2. /\ Cardinality(Below(x)) <= Cardinality(Below(y))
        /\ Cardinality(Below(x)) # Cardinality(Below(y))
    BY <1>2, <2>1, FS_Subset
  <2>3. /\ Cardinality(Below(x)) \in Nat /\ Cardinality(Below(y)) \in Nat
        /\ rank[x] = Cardinality(Below(x)) + 1
        /\ rank[y] = Cardinality(Below(y)) + 1
    BY <1>2
  <2> QED BY <2>2, <2>3
<1>4. rank \in [E -> 1 .. n]
  BY <1>2
<1> HIDE DEF rank, n, Below
<1>5. \A x, y \in E : rank[x] = rank[y] => x = y
  <2> SUFFICES ASSUME NEW x \in E, NEW y \in E, rank[x] = rank[y], x # y
               PROVE  FALSE
    OBVIOUS
  <2>1. <<x, y>> \in R \/ <<y, x>> \in R
    BY DEF Strict
  <2>2. rank[x] < rank[y] \/ rank[y] < rank[x]
    BY <1>3, <2>1
  <2>3. rank[x] \in Nat /\ rank[y] \in Nat
    BY <1>1, <1>4
  <2> QED BY <2>2, <2>3
<1>6. rank \in Injection(E, 1 .. n)
  BY <1>4, <1>5 DEF Injection, IsInjective
<1>7. rank \in Surjection(E, 1 .. n)
  BY <1>1, <1>6, FS_Injection DEF n
<1>8. \A i \in 1 .. n : \E x \in E : rank[x] = i
  BY <1>7 DEF Surjection
<1> DEFINE s == [i \in 1 .. n |-> CHOOSE x \in E : rank[x] = i]
<1>9. \A i \in 1 .. n : s[i] \in E /\ rank[s[i]] = i
  BY <1>8
<1>10. s \in [1 .. n -> E]
  BY <1>9
<1>11. DOMAIN s = 1 .. n
  OBVIOUS
<1> HIDE DEF s
<1>12. ASSUME NEW i \in 1 .. n, NEW j \in 1 .. n, i < j
       PROVE  <<s[i], s[j]>> \in R
  <2>1. s[i] \in E /\ s[j] \in E /\ rank[s[i]] = i /\ rank[s[j]] = j
    BY <1>9
  <2>2. i # j /\ ~(j < i)
    BY <1>12
  <2>3. s[i] # s[j] /\ <<s[j], s[i]>> \notin R
    BY <1>3, <2>1, <2>2
  <2> QED BY <2>1, <2>3 DEF Strict
<1> QED BY <1>10, <1>11, <1>12 DEF Ordered, n

-----------------------------------------------------------------------------
(* The sums of the model.                                                  *)

(* Executions of a set of translations in blocks b.                        *)
CountOf(b, S) == MapThenSumSet(LAMBDA p : b[p].count, S)

LEMMA CountSum ==
  ASSUME NEW b, NEW S, NEW w, Weighs(w, S), \A x \in S : w[x] = b[x].count
  PROVE  CountOf(b, S) = SumOver(w, S)
<1> DEFINE Table_(h) == [s \in SUBSET S |->
                          IF s = {} THEN 0
                          ELSE LET p == CHOOSE q \in s : TRUE
                               IN  b[p].count + h[s \ {p}]]
           g == CHOOSE h : h = Table_(h)
<1>1. ASSUME NEW h
      PROVE  h = Table_(h) <=> Solves(w, S, h)
  <2>1. \A s \in SUBSET S : s # {} => w[Pick(s)] = b[Pick(s)].count
    BY DEF Pick
  <2>2. Table_(h) = [s \in SUBSET S |-> IF s = {} THEN 0
                                       ELSE w[Pick(s)] + h[s \ {Pick(s)}]]
    BY <2>1 DEF Pick
  <2> QED BY <2>2 DEF Solves
<1>2. CountOf(b, S) = g[S]
  BY DEF CountOf, MapThenSumSet, MapThenFoldSet
<1> HIDE DEF Table_
<1>3. \E h : h = Table_(h)
  BY <1>1, Solvable
<1>4. Solves(w, S, g)
  BY <1>1, <1>3
<1> HIDE DEF g
<1> QED BY <1>2, <1>4, SolutionIsSum

(* Their early exits at an address.                                        *)
EarlyOfAt(b, S, pc) == MapThenSumSet(LAMBDA p : b[p].early[pc], S)

LEMMA EarlySum ==
  ASSUME NEW b, NEW S, NEW pc, NEW w, Weighs(w, S),
         \A x \in S : w[x] = b[x].early[pc]
  PROVE  EarlyOfAt(b, S, pc) = SumOver(w, S)
<1> DEFINE Table_(h) == [s \in SUBSET S |->
                          IF s = {} THEN 0
                          ELSE LET p == CHOOSE q \in s : TRUE
                               IN  b[p].early[pc] + h[s \ {p}]]
           g == CHOOSE h : h = Table_(h)
<1>1. ASSUME NEW h
      PROVE  h = Table_(h) <=> Solves(w, S, h)
  <2>1. \A s \in SUBSET S : s # {} => w[Pick(s)] = b[Pick(s)].early[pc]
    BY DEF Pick
  <2>2. Table_(h) = [s \in SUBSET S |-> IF s = {} THEN 0
                                       ELSE w[Pick(s)] + h[s \ {Pick(s)}]]
    BY <2>1 DEF Pick
  <2> QED BY <2>2 DEF Solves
<1>2. EarlyOfAt(b, S, pc) = g[S]
  BY DEF EarlyOfAt, MapThenSumSet, MapThenFoldSet
<1> HIDE DEF Table_
<1>3. \E h : h = Table_(h)
  BY <1>1, Solvable
<1>4. Solves(w, S, g)
  BY <1>1, <1>3
<1> HIDE DEF g
<1> QED BY <1>2, <1>4, SolutionIsSum

(* How often they executed an instruction.                                 *)
ExecutedBy(S, at) == MapThenSumSet(LAMBDA p : Executed(p, at), S)

LEMMA ExecutedSum ==
  ASSUME NEW S, NEW at, NEW w, Weighs(w, S), \A x \in S : w[x] = Executed(x, at)
  PROVE  ExecutedBy(S, at) = SumOver(w, S)
<1> DEFINE Table_(h) == [s \in SUBSET S |->
                          IF s = {} THEN 0
                          ELSE LET p == CHOOSE q \in s : TRUE
                               IN  Executed(p, at) + h[s \ {p}]]
           g == CHOOSE h : h = Table_(h)
<1>1. ASSUME NEW h
      PROVE  h = Table_(h) <=> Solves(w, S, h)
  <2>1. \A s \in SUBSET S : s # {} => w[Pick(s)] = Executed(Pick(s), at)
    BY DEF Pick
  <2>2. Table_(h) = [s \in SUBSET S |-> IF s = {} THEN 0
                                       ELSE w[Pick(s)] + h[s \ {Pick(s)}]]
    BY <2>1 DEF Pick
  <2> QED BY <2>2 DEF Solves
<1>2. ExecutedBy(S, at) = g[S]
  BY DEF ExecutedBy, MapThenSumSet, MapThenFoldSet
<1> HIDE DEF Table_
<1>3. \E h : h = Table_(h)
  BY <1>1, Solvable
<1>4. Solves(w, S, g)
  BY <1>1, <1>3
<1> HIDE DEF g
<1> QED BY <1>2, <1>4, SolutionIsSum

(* The exits of a set of exit records.                                     *)
ExitsCount(S) == MapThenSumSet(LAMBDA p : p.count, S)

LEMMA ExitSum ==
  ASSUME NEW S, NEW w, Weighs(w, S), \A x \in S : w[x] = x.count
  PROVE  ExitsCount(S) = SumOver(w, S)
<1> DEFINE Table_(h) == [s \in SUBSET S |->
                          IF s = {} THEN 0
                          ELSE LET p == CHOOSE q \in s : TRUE
                               IN  p.count + h[s \ {p}]]
           g == CHOOSE h : h = Table_(h)
<1>1. ASSUME NEW h
      PROVE  h = Table_(h) <=> Solves(w, S, h)
  <2>1. \A s \in SUBSET S : s # {} => w[Pick(s)] = Pick(s).count
    BY DEF Pick
  <2>2. Table_(h) = [s \in SUBSET S |-> IF s = {} THEN 0
                                       ELSE w[Pick(s)] + h[s \ {Pick(s)}]]
    BY <2>1 DEF Pick
  <2> QED BY <2>2 DEF Solves
<1>2. ExitsCount(S) = g[S]
  BY DEF ExitsCount, MapThenSumSet, MapThenFoldSet
<1> HIDE DEF Table_
<1>3. \E h : h = Table_(h)
  BY <1>1, Solvable
<1>4. Solves(w, S, g)
  BY <1>1, <1>3
<1> HIDE DEF g
<1> QED BY <1>2, <1>4, SolutionIsSum

(* The blocks of a run.                                                    *)
TbsRight ==
  \A t \in Translations :
    /\ tbs[t].ctx \in Ctxs /\ tbs[t].code \in Codes /\ tbs[t].count \in Nat
    /\ tbs[t].early \in [ExtentOf(tbs[t].code) -> Nat]
    /\ SumOver(tbs[t].early, ExtentOf(tbs[t].code)) <= tbs[t].count

LEMMA TbsInit == Init => TbsRight
<1> SUFFICES ASSUME Init, NEW t \in Translations
             PROVE  /\ tbs[t].ctx \in Ctxs /\ tbs[t].code \in Codes
                    /\ tbs[t].count \in Nat
                    /\ tbs[t].early \in [ExtentOf(tbs[t].code) -> Nat]
                    /\ SumOver(tbs[t].early, ExtentOf(tbs[t].code)) <= tbs[t].count
  BY DEF TbsRight
<1>1. tbs[t] \in Tbs
  BY DEF Init
<1>2. PICK code \in Codes :
        tbs[t] \in {[ctx |-> c, code |-> code, count |-> r.count,
                     early |-> r.early] : c \in Ctxs, r \in Runs(code)}
  BY <1>1 DEF Tbs
<1>3. PICK c \in Ctxs, r \in Runs(code) :
        tbs[t] = [ctx |-> c, code |-> code, count |-> r.count, early |-> r.early]
  BY <1>2
<1>4. r \in [count : 0 .. MaxCount, early : [ExtentOf(code) -> 0 .. MaxCount]]
  BY DEF Runs
<1>5. SumOver(r.early, ExtentOf(code)) <= r.count
  BY DEF Runs, SumOver
<1>6. r.count \in Nat /\ r.early \in [ExtentOf(code) -> Nat]
  BY <1>4, TbTableAssumption
<1> QED BY <1>3, <1>5, <1>6

-----------------------------------------------------------------------------
(* The order of the table: keys that hold their own length (tbagg_cmp).    *)

Key(u) ==
  /\ u[4] \in Nat /\ DOMAIN u = 1 .. 4 + u[4]
  /\ \A i \in 1 .. 4 + u[4] : u[i] \in Nat

AgreeTo(u, v, i) == \A j \in 1 .. i : u[j] = v[j]
Less(u, v) == \E i \in DOMAIN u : AgreeTo(u, v, i - 1) /\ u[i] < v[i]

(* Keys that agree so far go on together or end together.                  *)
LEMMA SameLength ==
  ASSUME NEW u, NEW v, Key(u), Key(v), NEW i \in DOMAIN u, AgreeTo(u, v, i - 1)
  PROVE  i \in Nat /\ i \in DOMAIN v /\ u[i] \in Nat /\ v[i] \in Nat
<1>1. CASE i <= 4
  BY <1>1 DEF Key
<1>2. CASE i > 4
  <2>1. 4 \in 1 .. i - 1
    BY <1>2 DEF Key
  <2>2. u[4] = v[4]
    BY <2>1 DEF AgreeTo
  <2> QED BY <2>2 DEF Key
<1>3. i \in Nat
  BY DEF Key
<1> QED BY <1>1, <1>2, <1>3

LEMMA LessIrreflexive ==
  ASSUME NEW u, Key(u)
  PROVE  ~Less(u, u)
BY DEF Key, Less

LEMMA LessTransitive ==
  ASSUME NEW u, NEW v, NEW w, Key(u), Key(v), Key(w), Less(u, v), Less(v, w)
  PROVE  Less(u, w)
<1>1. PICK i \in DOMAIN u : AgreeTo(u, v, i - 1) /\ u[i] < v[i]
  BY DEF Less
<1>2. PICK k \in DOMAIN v : AgreeTo(v, w, k - 1) /\ v[k] < w[k]
  BY DEF Less
<1>a. i >= 1 /\ k >= 1
  BY DEF Key
<1>3. i \in Nat /\ i >= 1 /\ i \in DOMAIN v /\ u[i] \in Nat /\ v[i] \in Nat
  BY <1>1, <1>a, SameLength
<1>4. k \in Nat /\ k >= 1 /\ k \in DOMAIN w /\ v[k] \in Nat /\ w[k] \in Nat
  BY <1>2, <1>a, SameLength
<1>5. CASE i <= k
  <2>1. 1 .. i - 1 \subseteq 1 .. k - 1 /\ (i = k \/ i \in 1 .. k - 1)
    BY <1>3, <1>4, <1>5
  <2>2. AgreeTo(u, w, i - 1) /\ (i = k \/ v[i] = w[i])
    BY <1>1, <1>2, <2>1 DEF AgreeTo
  <2>3. u[i] < w[i]
    BY <1>1, <1>2, <1>3, <1>4, <2>2
  <2> QED BY <2>2, <2>3 DEF Less
<1>6. CASE k < i
  <2>1. 1 .. k - 1 \subseteq 1 .. i - 1 /\ k \in 1 .. i - 1
    BY <1>3, <1>4, <1>6
  <2>2. AgreeTo(u, w, k - 1) /\ u[k] = v[k]
    BY <1>1, <1>2, <2>1 DEF AgreeTo
  <2>a. PICK m \in Nat : DOMAIN u = 1 .. m
    BY DEF Key
  <2>3. k \in DOMAIN u
    <3>1. i \in 1 .. m
      BY <1>1, <2>a
    <3>2. k \in 1 .. m
      BY ONLY <3>1, <1>3, <1>4, <1>6, m \in Nat
    <3> QED BY <2>a, <3>2
  <2>4. u[k] < w[k]
    BY <1>2, <2>2
  <2> QED BY <2>2, <2>3, <2>4 DEF Less
<1> QED BY <1>3, <1>4, <1>5, <1>6

LEMMA LessTotal ==
  ASSUME NEW u, NEW v, Key(u), Key(v), \E i \in DOMAIN u : u[i] # v[i]
  PROVE  Less(u, v) \/ Less(v, u)
<1> DEFINE D == {i \in DOMAIN u : u[i] # v[i]}
<1>1. D \in SUBSET Nat /\ D # {}
  BY DEF Key
<1>2. PICK i \in D : \A j \in D : i <= j
  BY <1>1, LeastNat
<1>3. i \in DOMAIN u /\ i \in Nat /\ u[i] # v[i]
  BY <1>1
<1>4. AgreeTo(u, v, i - 1)
  <2> SUFFICES ASSUME NEW j \in 1 .. i - 1 PROVE u[j] = v[j]
    BY DEF AgreeTo
  <2>1. PICK m \in Nat : DOMAIN u = 1 .. m
    BY DEF Key
  <2>2. i \in Nat /\ i \in 1 .. m
    BY <1>3, <2>1
  <2>3. j \in 1 .. m /\ ~(i <= j)
    BY ONLY <2>2, j \in 1 .. i - 1, m \in Nat
  <2> QED BY <1>2, <2>1, <2>3
<1>5. i \in DOMAIN v /\ u[i] \in Nat /\ v[i] \in Nat
  BY <1>3, <1>4, SameLength
<1>6. AgreeTo(v, u, i - 1)
  BY <1>4 DEF AgreeTo
<1>7. u[i] < v[i] \/ v[i] < u[i]
  BY <1>3, <1>5
<1> QED BY <1>3, <1>4, <1>5, <1>6, <1>7 DEF Less

-----------------------------------------------------------------------------
(* The entries of the table.                                               *)

Class(x)   == {u \in Translations : SameEntry(tbs[u], x)}
EntryOf(t) == [ctx |-> tbs[t].ctx, code |-> tbs[t].code,
               count |-> CountOf(tbs, Class(tbs[t]))]
Counts     == [u \in Translations |-> tbs[u].count]

LEMMA ClassFinite ==
  ASSUME NEW x
  PROVE  IsFiniteSet(Class(x)) /\ Class(x) \subseteq Translations
<1>1. Class(x) \in SUBSET Translations
  BY DEF Class
<1> QED BY <1>1, FS_Subset, TbTableAssumption

LEMMA MergedIs == Merged = {EntryOf(t) : t \in Translations}
BY DEF Merged, EntryOf, CountOf, Class

LEMMA ClassCount ==
  ASSUME TbsRight, NEW x
  PROVE  /\ Weighs(Counts, Class(x))
         /\ CountOf(tbs, Class(x)) = SumOver(Counts, Class(x))
         /\ CountOf(tbs, Class(x)) \in Nat
<1>1. Weighs(Counts, Class(x))
  BY ClassFinite DEF Weighs, Counts, TbsRight
<1>2. \A u \in Class(x) : Counts[u] = tbs[u].count
  BY ClassFinite DEF Counts
<1>3. CountOf(tbs, Class(x)) = SumOver(Counts, Class(x))
  BY <1>1, <1>2, CountSum
<1> QED BY <1>1, <1>3, SumType

LEMMA EntryRight ==
  ASSUME TbsRight, NEW e \in Merged
  PROVE  /\ e.ctx \in Ctxs /\ e.code \in Codes /\ e.count \in Nat
         /\ e = [ctx |-> e.ctx, code |-> e.code, count |-> e.count]
         /\ e.count = SumOver(Counts, Class(e))
         /\ \E t \in Class(e) : e = EntryOf(t)
<1>1. PICK t \in Translations : e = EntryOf(t)
  BY MergedIs
<1>2. /\ e.ctx = tbs[t].ctx /\ e.code = tbs[t].code
      /\ e.count = CountOf(tbs, Class(tbs[t]))
      /\ e = [ctx |-> e.ctx, code |-> e.code, count |-> e.count]
  BY <1>1 DEF EntryOf
<1>3. Class(e) = Class(tbs[t]) /\ t \in Class(e)
  BY <1>2 DEF Class, SameEntry
<1>4. tbs[t].ctx \in Ctxs /\ tbs[t].code \in Codes
  BY DEF TbsRight
<1> QED BY <1>1, <1>2, <1>3, <1>4, ClassCount

LEMMA EntryUnique ==
  ASSUME TbsRight, NEW x \in Merged, NEW y \in Merged, x.ctx = y.ctx, x.code = y.code
  PROVE  x = y
<1>1. Class(x) = Class(y)
  BY DEF Class, SameEntry
<1> QED BY <1>1, EntryRight

LEMMA EntryHas ==
  ASSUME NEW t \in Translations
  PROVE  EntryOf(t) \in Merged /\ t \in Class(EntryOf(t))
BY MergedIs DEF EntryOf, Class, SameEntry

LEMMA Prefixed ==
  ASSUME NEW h \in Seq(Nat), NEW s \in Seq(Nat)
  PROVE  /\ DOMAIN (h \o s) = 1 .. Len(h) + Len(s) /\ Len(s) \in Nat
         /\ \A i \in 1 .. Len(h) + Len(s) : (h \o s)[i] \in Nat
         /\ \A i \in 1 .. Len(h) : (h \o s)[i] = h[i]
         /\ \A i \in 1 .. Len(s) : (h \o s)[Len(h) + i] = s[i]
OBVIOUS

KeyOf(k, c, b, n, s) == k = <<c, b, n, Len(s)>> \o s

LEMMA KeyShape ==
  ASSUME NEW c \in Nat, NEW b \in Nat, NEW n \in Nat, NEW s \in Seq(Nat),
         NEW k, KeyOf(k, c, b, n, s)
  PROVE  /\ Key(k) /\ k[1] = c /\ k[2] = b /\ k[4] = Len(s)
         /\ \A j \in 1 .. Len(s) : k[4 + j] = s[j]
<1>1. PICK h : h = <<c, b, n, Len(s)>>
  OBVIOUS
<1>2. /\ h \in Seq(Nat) /\ Len(h) = 4
      /\ h[1] = c /\ h[2] = b /\ h[4] = Len(s) /\ k = h \o s
  BY <1>1 DEF KeyOf
<1>3. /\ DOMAIN k = 1 .. 4 + Len(s) /\ Len(s) \in Nat
      /\ \A i \in 1 .. 4 + Len(s) : k[i] \in Nat
      /\ \A i \in 1 .. 4 : k[i] = h[i]
      /\ \A i \in 1 .. Len(s) : k[4 + i] = s[i]
  <2>1. /\ DOMAIN (h \o s) = 1 .. Len(h) + Len(s) /\ Len(s) \in Nat
        /\ \A i \in 1 .. Len(h) + Len(s) : (h \o s)[i] \in Nat
        /\ \A i \in 1 .. Len(h) : (h \o s)[i] = h[i]
        /\ \A i \in 1 .. Len(s) : (h \o s)[Len(h) + i] = s[i]
    BY <1>2, Prefixed
  <2> QED BY ONLY <1>2, <2>1, Zenon
<1>4. 1 \in 1 .. 4 /\ 2 \in 1 .. 4 /\ 4 \in 1 .. 4
  OBVIOUS
<1>5. k[1] = c /\ k[2] = b /\ k[4] = Len(s)
  BY ONLY <1>2, <1>3, <1>4, Zenon
<1> QED BY <1>3, <1>5 DEF Key

LEMMA EntryKey ==
  ASSUME TbsRight, NEW e \in Merged
  PROVE  /\ Key(SortKey(e))
         /\ SortKey(e)[1] = e.ctx /\ SortKey(e)[2] = e.code[1]
         /\ SortKey(e)[4] = Len(e.code[2])
         /\ \A j \in 1 .. Len(e.code[2]) : SortKey(e)[4 + j] = e.code[2][j]
<1>1. e.ctx \in Nat /\ e.code \in Codes
  BY EntryRight, TbTableAssumption
<1>2. e.code \in Nat \X (Seq(Nat \ {0}) \ {<<>>})
  BY <1>1, TbTableAssumption
<1>3. e.code[2] \in Seq(Nat \ {0})
  BY <1>2
<1>4. e.code[2] \in Seq(Nat)
  BY <1>3
<1>5. e.code[1] \in Nat /\ Total(e.code[2]) \in Nat
  BY <1>1, CodeType, TotalType
<1>6. SortKey(e) = <<e.ctx, e.code[1], Total(e.code[2]), Len(e.code[2])>> \o e.code[2]
  BY DEF SortKey
<1>7. PICK c, b, n, s, k : /\ c = e.ctx /\ b = e.code[1] /\ n = Total(e.code[2])
                           /\ s = e.code[2] /\ k = SortKey(e)
  OBVIOUS
<1>8. /\ c \in Nat /\ b \in Nat /\ n \in Nat /\ s \in Seq(Nat)
      /\ KeyOf(k, c, b, n, s)
  BY <1>1, <1>4, <1>5, <1>6, <1>7, Zenon DEF KeyOf
<1>9. /\ Key(k) /\ k[1] = c /\ k[2] = b /\ k[4] = Len(s)
      /\ \A j \in 1 .. Len(s) : k[4 + j] = s[j]
  BY ONLY <1>8, KeyShape
<1> QED BY ONLY <1>7, <1>9, Zenon

LEMMA BeforeIsLess ==
  ASSUME NEW x, NEW y
  PROVE  Before(x, y) <=> Less(SortKey(x), SortKey(y))
BY DEF Before, Less, AgreeTo

Executing == {e \in Merged : e.count > 0}
Order     == {p \in Executing \X Executing : Before(p[1], p[2])}

LEMMA SameSeq ==
  ASSUME NEW S, NEW s \in Seq(S), NEW t \in Seq(S), Len(s) = Len(t),
         \A j \in 1 .. Len(s) : s[j] = t[j]
  PROVE  s = t
OBVIOUS

LEMMA LenOf ==
  ASSUME NEW S, NEW n \in Nat, NEW s \in [1 .. n -> S]
  PROVE  s \in Seq(S) /\ Len(s) = n
OBVIOUS

LEMMA OrderStrict ==
  ASSUME TbsRight
  PROVE  Strict(Executing, Order)
<1>1. \A x, y \in Executing : <<x, y>> \in Order <=> Less(SortKey(x), SortKey(y))
  BY BeforeIsLess DEF Order
<1>2. \A x \in Executing : x \in Merged /\ Key(SortKey(x))
  BY EntryKey DEF Executing
<1>3. \A x \in Executing : <<x, x>> \notin Order
  BY <1>1, <1>2, LessIrreflexive
<1>4. ASSUME NEW x \in Executing, NEW y \in Executing, NEW z \in Executing,
             <<x, y>> \in Order, <<y, z>> \in Order
      PROVE  <<x, z>> \in Order
  BY <1>1, <1>2, <1>4, LessTransitive
<1>5. ASSUME NEW x \in Executing, NEW y \in Executing, x # y
      PROVE  <<x, y>> \in Order \/ <<y, x>> \in Order
  <2>1. PICK u, v : u = SortKey(x) /\ v = SortKey(y)
    OBVIOUS
  <2>2. /\ u[1] = x.ctx /\ u[2] = x.code[1] /\ u[4] = Len(x.code[2])
        /\ \A j \in 1 .. Len(x.code[2]) : u[4 + j] = x.code[2][j]
    BY <1>2, <2>1, EntryKey
  <2>3. /\ v[1] = y.ctx /\ v[2] = y.code[1] /\ v[4] = Len(y.code[2])
        /\ \A j \in 1 .. Len(y.code[2]) : v[4 + j] = y.code[2][j]
    BY <1>2, <2>1, EntryKey
  <2>4. Key(u) /\ Key(v)
    BY <1>2, <2>1
  <2>5. \E i \in DOMAIN u : u[i] # v[i]
    <3> SUFFICES ASSUME \A i \in DOMAIN u : u[i] = v[i] PROVE FALSE
      OBVIOUS
    <3>1. x.code \in Codes /\ y.code \in Codes
      BY <1>2, EntryRight
    <3>2. /\ Len(x.code[2]) \in Nat
          /\ DOMAIN u = 1 .. 4 + Len(x.code[2])
      BY <2>2, <2>4 DEF Key
    <3>3. /\ 1 \in DOMAIN u /\ 2 \in DOMAIN u /\ 4 \in DOMAIN u
          /\ \A j \in 1 .. Len(x.code[2]) : 4 + j \in DOMAIN u
      BY <3>2
    <3>4. /\ x.ctx = y.ctx /\ x.code[1] = y.code[1]
          /\ Len(x.code[2]) = Len(y.code[2])
      BY <2>2, <2>3, <3>3
    <3>5. \A j \in 1 .. Len(x.code[2]) : x.code[2][j] = y.code[2][j]
      BY <2>2, <2>3, <3>3, <3>4
    <3>6. x.code[2] \in Seq(Nat \ {0}) /\ y.code[2] \in Seq(Nat \ {0})
      <4>1. \A c \in Codes : c[2] \in Seq(Nat \ {0})
        BY TbTableAssumption
      <4> QED BY <3>1, <4>1
    <3>7. x.code[2] = y.code[2]
      BY ONLY <3>4, <3>5, <3>6, SameSeq
    <3>8. x.code = y.code
      <4>1. /\ x.code = <<x.code[1], x.code[2]>>
            /\ y.code = <<y.code[1], y.code[2]>>
        BY <3>1, CodeType
      <4> QED BY ONLY <3>4, <3>7, <4>1, Zenon
    <3> QED BY <1>2, <1>5, <3>4, <3>8, EntryUnique
  <2>6. Less(u, v) \/ Less(v, u)
    BY <2>4, <2>5, LessTotal
  <2> QED BY <1>1, <2>1, <2>6
<1> QED BY <1>3, <1>4, <1>5 DEF Strict

(* The table has every entry that was executed, once.                      *)
LEMMA TableRight ==
  ASSUME TbsRight
  PROVE  /\ IsFiniteSet(Merged) /\ IsFiniteSet(Executing)
         /\ Cardinality(Executing) \in Nat
         /\ DOMAIN Table = 1 .. Cardinality(Executing)
         /\ Len(Table) = Cardinality(Executing)
         /\ \A i \in DOMAIN Table : Table[i] \in Executing
         /\ \A i, j \in DOMAIN Table : Table[i] = Table[j] => i = j
         /\ \A e \in Executing : \E i \in DOMAIN Table : Table[i] = e
<1> DEFINE n == Cardinality(Executing)
<1>1. IsFiniteSet(Merged)
  <2>1. PICK f : f = [t \in Translations |-> EntryOf(t)]
    OBVIOUS
  <2>2. IsFiniteSet({f[t] : t \in Translations})
    BY ImageFinite, TbTableAssumption
  <2>3. {f[t] : t \in Translations} = Merged
    BY <2>1, MergedIs
  <2> QED BY <2>2, <2>3
<1>2. IsFiniteSet(Executing) /\ n \in Nat
  BY <1>1, FS_Subset, FS_CardinalityType DEF Executing
<1>3. PICK s \in [1 .. n -> Executing] : Ordered(s, Order)
  BY <1>2, OrderStrict, OrderExists
<1>4. \A i, j \in DOMAIN s : i < j => Before(s[i], s[j])
  BY <1>3 DEF Ordered, Order
<1>5. /\ Table \in [1 .. n -> Executing]
      /\ \A i, j \in DOMAIN Table : i < j => Before(Table[i], Table[j])
  <2>1. \E q \in [1 .. n -> Executing] :
          \A i, j \in DOMAIN q : i < j => Before(q[i], q[j])
    BY <1>4
  <2>2. Table = CHOOSE q \in [1 .. n -> Executing] :
                  \A i, j \in DOMAIN q : i < j => Before(q[i], q[j])
    BY DEF Table, InOrder, Executing
  <2> QED BY <2>1, <2>2
<1> HIDE DEF n
<1>6. DOMAIN Table = 1 .. n /\ \A i \in 1 .. n : Table[i] \in Executing
  BY <1>5
<1>7. ASSUME NEW i \in 1 .. n, NEW j \in 1 .. n, i < j PROVE Table[i] # Table[j]
  <2>1. Less(SortKey(Table[i]), SortKey(Table[j]))
    BY <1>5, <1>6, <1>7, BeforeIsLess
  <2>2. Key(SortKey(Table[j]))
    BY <1>6, EntryKey DEF Executing
  <2> QED BY <2>1, <2>2, LessIrreflexive
<1>8. ASSUME NEW i \in 1 .. n, NEW j \in 1 .. n, Table[i] = Table[j] PROVE i = j
  <2>1. i < j \/ j < i \/ i = j
    BY <1>2
  <2> QED BY <1>7, <1>8, <2>1
<1>9. Table \in Injection(1 .. n, Executing)
  BY <1>5, <1>8 DEF Injection, IsInjective
<1>10. Cardinality(1 .. n) = Cardinality(Executing)
  BY <1>2, FS_Interval DEF n
<1>11. Table \in Surjection(1 .. n, Executing)
  BY <1>2, <1>9, <1>10, FS_Injection
<1>12. \A e \in Executing : \E i \in 1 .. n : Table[i] = e
  BY <1>11 DEF Surjection
<1>13. Len(Table) = n
  <2>1. n \in Nat /\ Table \in [1 .. n -> Executing]
    BY <1>2, <1>5 DEF n
  <2> QED BY ONLY <2>1, LenOf, Zenon
<1> QED BY <1>1, <1>2, <1>6, <1>8, <1>12, <1>13 DEF n

-----------------------------------------------------------------------------
(* Early exits.                                                            *)

(* A sum of sums may be taken in either order.                             *)
ColumnOf(w, S, b) == [x \in S |-> w[<<x, b>>]]
RowOf(w, T, x)    == [b \in T |-> w[<<x, b>>]]

LEMMA SumEitherWay ==
  ASSUME NEW S, NEW T, IsFiniteSet(S), IsFiniteSet(T),
         NEW w, \A x \in S : \A b \in T : w[<<x, b>>] \in Nat
  PROVE  SumOver([b \in T |-> SumOver(ColumnOf(w, S, b), S)], T)
           = SumOver([x \in S |-> SumOver(RowOf(w, T, x), T)], S)
<1> DEFINE u == [p \in T \X S |-> w[<<p[2], p[1]>>]]
           f == [p \in S \X T |-> <<p[2], p[1]>>]
           cols == [b \in T |-> SumOver(ColumnOf(w, S, b), S)]
           rows == [x \in S |-> SumOver(RowOf(w, T, x), T)]
<1>1. IsFiniteSet(S \X T) /\ IsFiniteSet(T \X S)
  BY FS_Product
<1>2. Weighs(w, Grid(S, T)) /\ Weighs(u, Grid(T, S))
  BY <1>1 DEF Weighs, Grid
<1>3. f \in Bijection(Grid(S, T), Grid(T, S))
  <2>1. f \in [S \X T -> T \X S]
    OBVIOUS
  <2>2. ASSUME NEW p \in S \X T, NEW q \in S \X T, f[p] = f[q] PROVE p = q
    <3>1. p = <<p[1], p[2]>> /\ q = <<q[1], q[2]>>
      OBVIOUS
    <3>2. p[1] = q[1] /\ p[2] = q[2]
      BY <2>2
    <3> QED BY <3>1, <3>2, Zenon
  <2>3. ASSUME NEW r \in T \X S PROVE \E p \in S \X T : f[p] = r
    <3>1. <<r[2], r[1]>> \in S \X T /\ f[<<r[2], r[1]>>] = r
      OBVIOUS
    <3> QED BY <3>1
  <2> HIDE DEF f
  <2> QED BY <2>1, <2>2, <2>3 DEF Bijection, Injection, Surjection, IsInjective, Grid
<1>4. \A p \in Grid(S, T) : u[f[p]] = w[p]
  BY DEF Grid
<1>5. SumOver(u, Grid(T, S)) = SumOver(w, Grid(S, T))
  <2> HIDE DEF u, f
  <2> QED BY <1>2, <1>3, <1>4, SumRenamed
<1>6. ASSUME NEW b \in T PROVE cols[b] = SumOver(w, Row(S, b))
  <2>1. Weighs(ColumnOf(w, S, b), S) /\ \A x \in S : w[<<x, b>>] = ColumnOf(w, S, b)[x]
    BY DEF Weighs, ColumnOf
  <2>2. SumOver(w, Row(S, b)) = SumOver(ColumnOf(w, S, b), S)
    BY <2>1, SumRow
  <2> QED BY <2>2
<1>7. ASSUME NEW x \in S PROVE rows[x] = SumOver(u, Row(T, x))
  <2>1. Weighs(RowOf(w, T, x), T) /\ \A b \in T : u[<<b, x>>] = RowOf(w, T, x)[b]
    BY DEF Weighs, RowOf
  <2> HIDE DEF u
  <2>2. SumOver(u, Row(T, x)) = SumOver(RowOf(w, T, x), T)
    BY <2>1, SumRow
  <2> QED BY <2>2
<1> HIDE DEF u, cols, rows
<1>8. SumOver(cols, T) = SumOver(w, Grid(S, T))
  BY <1>2, <1>6, SumRows
<1>9. SumOver(rows, S) = SumOver(u, Grid(T, S))
  BY <1>2, <1>7, SumRows
<1> QED BY <1>5, <1>8, <1>9 DEF cols, rows

EarlyAt(i, pc) == EarlyOfAt(tbs, Class(Table[i]), pc)
ExitRec(i, pc) ==
  [index |-> i, ctx |-> Table[i].ctx, start |-> Table[i].code[1],
   size |-> Total(Table[i].code[2]), pc |-> pc, count |-> EarlyAt(i, pc)]
ExtentAt(i) == ExtentOf(Table[i].code)

LEMMA AtEntry ==
  ASSUME TbsRight, NEW i \in DOMAIN Table
  PROVE  /\ Table[i] \in Merged /\ Table[i].count \in Nat
         /\ Table[i].code \in Codes /\ Table[i].ctx \in Ctxs
         /\ Class(Table[i]) # {}
         /\ \A t \in Class(Table[i]) :
              /\ t \in Translations
              /\ tbs[t].ctx = Table[i].ctx /\ tbs[t].code = Table[i].code
              /\ tbs[t].early \in [ExtentAt(i) -> Nat]
<1>1. Table[i] \in Merged
  BY TableRight DEF Executing
<1> QED BY <1>1, EntryRight DEF Class, SameEntry, ExtentAt, TbsRight

LEMMA EarlyNat ==
  ASSUME TbsRight, NEW i \in DOMAIN Table, NEW pc \in ExtentAt(i),
         NEW w, \A t \in Class(Table[i]) : w[t] = tbs[t].early[pc]
  PROVE  /\ Weighs(w, Class(Table[i])) /\ EarlyAt(i, pc) \in Nat
         /\ EarlyAt(i, pc) = SumOver(w, Class(Table[i]))
<1>1. Weighs(w, Class(Table[i]))
  BY AtEntry, ClassFinite DEF Weighs
<1>2. EarlyAt(i, pc) = SumOver(w, Class(Table[i]))
  BY <1>1, EarlySum DEF EarlyAt
<1> QED BY <1>1, <1>2, SumType

LEMMA ExitsAre ==
  ASSUME TbsRight, NEW i \in DOMAIN Table
  PROVE  ExitsOf(i) =
           {ExitRec(i, pc) : pc \in {p \in ExtentAt(i) : EarlyAt(i, p) > 0}}
<1> DEFINE mine == Class(Table[i])
           At(pc) == EarlyOfAt(tbs, {t \in mine : pc \in DOMAIN tbs[t].early}, pc)
<1>1. ExitsOf(i) =
        {[index |-> i, ctx |-> tbs[t].ctx, start |-> tbs[t].code[1],
          size |-> Total(tbs[t].code[2]), pc |-> pc, count |-> At(pc)]
          : t \in mine, pc \in {p \in ExtentAt(i) : At(p) > 0}}
  BY DEF ExitsOf, EarlyOfAt, Class, ExtentAt
<1>2. ASSUME NEW pc \in ExtentAt(i) PROVE At(pc) = EarlyAt(i, pc)
  <2>1. {t \in mine : pc \in DOMAIN tbs[t].early} = mine
    BY AtEntry
  <2> QED BY <2>1 DEF EarlyAt
<1>3. \A t \in mine, pc \in ExtentAt(i) :
        [index |-> i, ctx |-> tbs[t].ctx, start |-> tbs[t].code[1],
         size |-> Total(tbs[t].code[2]), pc |-> pc, count |-> At(pc)] = ExitRec(i, pc)
  BY <1>2, AtEntry DEF ExitRec
<1>4. mine # {}
  BY AtEntry
<1> HIDE DEF mine, At
<1> QED BY <1>1, <1>2, <1>3, <1>4

-----------------------------------------------------------------------------
(* Executions that reach an instruction.                                   *)

UpTo(i, x)  == {pc \in ExtentAt(i) : pc <= x}
EarlyFun(i) == [pc \in ExtentAt(i) |-> EarlyAt(i, pc)]
Ran(x)      == [t \in Translations |-> Executed(t, x)]
Reach(i, x) == Table[i].count - SumOver(EarlyFun(i), UpTo(i, x))

LEMMA ExtentFinite ==
  ASSUME NEW code \in Codes
  PROVE  IsFiniteSet(ExtentOf(code)) /\ ExtentOf(code) \subseteq Nat
<1>1. code[1] \in Nat /\ End(code) - 1 \in Int /\ End(code) \in Nat
  BY CodeType, EndOfCode
<1>2. PICK lo, hi : lo = code[1] /\ hi = End(code) - 1
  OBVIOUS
<1>3. lo \in Int /\ hi \in Int /\ lo \in Nat
  BY <1>1, <1>2
<1>4. IsFiniteSet(lo .. hi) /\ lo .. hi \subseteq Nat
  BY <1>3, FS_Interval
<1> QED BY <1>2, <1>4 DEF ExtentOf

LEMMA ExecutedType ==
  ASSUME TbsRight, NEW t \in Translations, NEW x,
         NEW S, S = {pc \in DOMAIN tbs[t].early : pc <= x}
  PROVE  /\ Weighs(tbs[t].early, S) /\ SumOver(tbs[t].early, S) \in Nat
         /\ Executed(t, x) \in Nat
         /\ tbs[t].count = Executed(t, x) + SumOver(tbs[t].early, S)
<1>1. /\ tbs[t].code \in Codes /\ tbs[t].count \in Nat
      /\ tbs[t].early \in [ExtentOf(tbs[t].code) -> Nat]
      /\ SumOver(tbs[t].early, ExtentOf(tbs[t].code)) <= tbs[t].count
  BY DEF TbsRight
<1>2. Weighs(tbs[t].early, ExtentOf(tbs[t].code))
  BY <1>1, ExtentFinite DEF Weighs
<1>3. S \in SUBSET ExtentOf(tbs[t].code)
  BY <1>1
<1>4. Weighs(tbs[t].early, S)
  BY <1>2, <1>3, FS_Subset DEF Weighs
<1>5. \A pc \in S : tbs[t].early[pc] <= tbs[t].early[pc]
  BY <1>4 DEF Weighs
<1>6. SumOver(tbs[t].early, S) <= SumOver(tbs[t].early, ExtentOf(tbs[t].code))
  BY <1>2, <1>3, <1>4, <1>5, SumAtMost
<1>7. /\ SumOver(tbs[t].early, S) \in Nat
      /\ SumOver(tbs[t].early, ExtentOf(tbs[t].code)) \in Nat
  BY <1>2, <1>4, SumType
<1>8. Executed(t, x) = tbs[t].count - SumOver(tbs[t].early, S)
  BY SumFunctionIsSum DEF Executed
<1> QED BY <1>1, <1>4, <1>6, <1>7, <1>8

LEMMA EarlyFunType ==
  ASSUME TbsRight, NEW i \in DOMAIN Table, NEW S \in SUBSET ExtentAt(i)
  PROVE  Weighs(EarlyFun(i), S) /\ SumOver(EarlyFun(i), S) \in Nat
<1>1. IsFiniteSet(S)
  BY AtEntry, ExtentFinite, FS_Subset DEF ExtentAt
<1>2. ASSUME NEW pc \in S PROVE EarlyFun(i)[pc] \in Nat
  <2>1. PICK w : w = [t \in Class(Table[i]) |-> tbs[t].early[pc]]
    OBVIOUS
  <2>2. EarlyAt(i, pc) \in Nat
    BY <2>1, EarlyNat
  <2> QED BY <2>2 DEF EarlyFun
<1>3. Weighs(EarlyFun(i), S)
  BY <1>1, <1>2 DEF Weighs
<1> QED BY <1>3, SumType

(* What an entry's exits leave of its count at an address is what its      *)
(* translations executed there.                                            *)
LEMMA ReachIs ==
  ASSUME TbsRight, NEW i \in DOMAIN Table, NEW x
  PROVE  /\ Weighs(Ran(x), Class(Table[i]))
         /\ Reach(i, x) = SumOver(Ran(x), Class(Table[i]))
         /\ Reach(i, x) \in Nat
<1> DEFINE C == Class(Table[i])
           U == UpTo(i, x)
           w == [p \in C \X U |-> tbs[p[1]].early[p[2]]]
           rows == [t \in C |-> SumOver(RowOf(w, U, t), U)]
           cols == [pc \in U |-> SumOver(ColumnOf(w, C, pc), C)]
<1>1. IsFiniteSet(C) /\ IsFiniteSet(U) /\ U \in SUBSET ExtentAt(i)
  <2>1. U \in SUBSET ExtentAt(i)
    BY DEF UpTo
  <2> QED BY <2>1, ClassFinite, AtEntry, ExtentFinite, FS_Subset DEF ExtentAt
<1>2. \A t \in C : \A pc \in U : w[<<t, pc>>] = tbs[t].early[pc]
  OBVIOUS
<1>3. \A t \in C : \A pc \in U : w[<<t, pc>>] \in Nat
  BY <1>1, <1>2, AtEntry
<1>4. SumOver(cols, U) = SumOver(rows, C)
  <2> HIDE DEF w, C, U
  <2> QED BY <1>1, <1>3, SumEitherWay
<1>5. ASSUME NEW pc \in U PROVE cols[pc] = EarlyFun(i)[pc]
  <2>1. \A t \in C : ColumnOf(w, C, pc)[t] = tbs[t].early[pc]
    BY DEF ColumnOf
  <2>2. pc \in ExtentAt(i)
    BY <1>1
  <2>3. EarlyAt(i, pc) = SumOver(ColumnOf(w, C, pc), C)
    <3> HIDE DEF w
    <3> QED BY <2>1, <2>2, EarlyNat
  <2> QED BY <2>2, <2>3 DEF EarlyFun
<1>6. ASSUME NEW t \in C
      PROVE  /\ rows[t] \in Nat /\ Ran(x)[t] \in Nat
             /\ Counts[t] = Ran(x)[t] + rows[t]
  <2>1. t \in Translations /\ tbs[t].early \in [ExtentAt(i) -> Nat]
    BY AtEntry
  <2>2. {pc \in DOMAIN tbs[t].early : pc <= x} = U
    BY <2>1 DEF UpTo
  <2>3. /\ Weighs(tbs[t].early, U) /\ SumOver(tbs[t].early, U) \in Nat
        /\ Executed(t, x) \in Nat
        /\ tbs[t].count = Executed(t, x) + SumOver(tbs[t].early, U)
    BY <2>1, <2>2, ExecutedType
  <2>4. \A pc \in U : RowOf(w, U, t)[pc] = tbs[t].early[pc]
    BY DEF RowOf
  <2>5. SumOver(RowOf(w, U, t), U) = SumOver(tbs[t].early, U)
    <3> HIDE DEF w, U
    <3> QED BY <2>3, <2>4, SumSame
  <2>6. rows[t] = SumOver(tbs[t].early, U)
    BY <2>5
  <2> QED BY <2>1, <2>3, <2>6 DEF Counts, Ran
<1>7. Weighs(EarlyFun(i), U)
  BY <1>1, EarlyFunType
<1> HIDE DEF rows, cols, w, U
<1>8. SumOver(cols, U) = SumOver(EarlyFun(i), U)
  BY <1>5, <1>7, SumSame
<1>9. Weighs(rows, C) /\ Weighs(Ran(x), C)
  BY <1>1, <1>6 DEF Weighs
<1>10. SumOver(Counts, C) = SumOver(Ran(x), C) + SumOver(rows, C)
  <2>1. \A t \in C : Counts[t] = Ran(x)[t] + rows[t]
    BY <1>6
  <2> QED BY ONLY <1>9, <2>1, SumPlus
<1>11. Table[i].count = SumOver(Counts, C)
  BY AtEntry, EntryRight
<1>12. /\ SumOver(Ran(x), C) \in Nat /\ SumOver(rows, C) \in Nat
  BY <1>9, SumType
<1>13. Reach(i, x) = Table[i].count - SumOver(rows, C)
  BY <1>4, <1>8 DEF Reach, U
<1> HIDE DEF C
<1>14. Reach(i, x) = SumOver(Ran(x), C) /\ Reach(i, x) \in Nat
  BY <1>10, <1>11, <1>12, <1>13
<1> QED BY <1>9, <1>14 DEF C

-----------------------------------------------------------------------------
(* The walk over the entries (expand_tb_records).                          *)

InsnsBefore(code, k) == {InsnAt(code, j) : j \in 1 .. k - 1}
Passed(code, k) == IF k = 1 THEN code[1] - 1 ELSE InsnAt(code, k - 1)

(* What an entry contributes to an instruction of a context, and the       *)
(* entries up to the n-th.                                                 *)
Gives(i, c, x) ==
  IF Table[i].ctx = c /\ x \in InsnsOf(Table[i].code) THEN Reach(i, x) ELSE 0
GivesTo(c, x)   == [i \in DOMAIN Table |-> Gives(i, c, x)]
Walked(n, c, x) == SumOver(GivesTo(c, x), 1 .. n)

(* What the entry in hand has contributed before its k-th instruction.     *)
GivenBefore(i, k, c, x) ==
  IF Table[i].ctx = c /\ x \in InsnsBefore(Table[i].code, k)
    THEN Reach(i, x) ELSE 0

Sofar(c, x) ==
  IF x \notin filter THEN 0
  ELSE IF insn = 0 THEN Walked(index, c, x)
  ELSE Walked(index - 1, c, x) + GivenBefore(index, insn, c, x)

InHand ==
  LET code == Table[index].code
  IN /\ index \in DOMAIN Table
     /\ insn \in 1 .. Len(code[2])
     /\ a = InsnAt(code, insn)
     /\ early = {e \in ExitsOf(index) : e.pc > Passed(code, insn)}
     /\ left = Reach(index, Passed(code, insn))

Collected ==
  phase # "collect" =>
    entries = Table /\ exits = UNION {ExitsOf(i) : i \in DOMAIN Table}

WalkInv ==
  /\ TbsRight
  /\ phase \in {"collect", "check", "expand", "done", "rejected"}
  /\ Collected
  /\ index \in 0 .. Len(Table) /\ insn \in Nat
  /\ phase # "expand" => insn = 0
  /\ phase \in {"collect", "check"} => index = 0
  /\ phase = "done" => index = Len(Table)
  /\ insn # 0 => InHand
  /\ out = [k \in Ctxs \X Addr |-> Sofar(k[1], k[2])]

LEMMA ExitsOfEntry ==
  ASSUME TbsRight, Collected, phase # "collect", NEW i \in DOMAIN Table
  PROVE  EarlyOf(i) = ExitsOf(i)
<1>1. \A j \in DOMAIN Table : \A e \in ExitsOf(j) : e.index = j
  BY ExitsAre DEF ExitRec
<1>2. exits = UNION {ExitsOf(j) : j \in DOMAIN Table}
  BY DEF Collected
<1> QED BY <1>1, <1>2 DEF EarlyOf

LEMMA GivesType ==
  ASSUME TbsRight, NEW c, NEW x, NEW n \in 0 .. Len(Table)
  PROVE  Weighs(GivesTo(c, x), 1 .. n) /\ Walked(n, c, x) \in Nat
<1>1. n \in Nat /\ 1 .. n \subseteq DOMAIN Table
  BY TableRight
<1>2. IsFiniteSet(1 .. n)
  BY <1>1, FS_Interval
<1>3. Weighs(GivesTo(c, x), 1 .. n)
  BY <1>1, <1>2, ReachIs DEF Weighs, GivesTo, Gives
<1> QED BY <1>3, SumType DEF Walked

LEMMA WalkedNext ==
  ASSUME TbsRight, NEW c, NEW x, NEW n \in 1 .. Len(Table)
  PROVE  Walked(n, c, x) = Walked(n - 1, c, x) + Gives(n, c, x)
<1>1. /\ n \in Nat /\ n \in 0 .. Len(Table) /\ n - 1 \in 0 .. Len(Table)
      /\ 1 .. n = (1 .. n - 1) \union {n} /\ n \notin 1 .. n - 1
      /\ n \in DOMAIN Table
  BY TableRight
<1>2. Weighs(GivesTo(c, x), (1 .. n - 1) \union {n})
  <2>1. Weighs(GivesTo(c, x), 1 .. n)
    BY <1>1, GivesType
  <2> QED BY ONLY <1>1, <2>1, Zenon
<1>3. SumOver(GivesTo(c, x), (1 .. n - 1) \union {n})
        = GivesTo(c, x)[n] + SumOver(GivesTo(c, x), 1 .. n - 1)
  BY <1>1, <1>2, SumAdd
<1>4. GivesTo(c, x)[n] = Gives(n, c, x)
  BY <1>1 DEF GivesTo
<1>5. Gives(n, c, x) \in Nat
  BY <1>1, ReachIs DEF Gives
<1>6. Walked(n - 1, c, x) \in Nat
  BY <1>1, GivesType
<1>7. /\ Walked(n, c, x) = SumOver(GivesTo(c, x), (1 .. n - 1) \union {n})
      /\ Walked(n - 1, c, x) = SumOver(GivesTo(c, x), 1 .. n - 1)
  <2>1. Walked(n, c, x) = SumOver(GivesTo(c, x), 1 .. n)
    BY DEF Walked
  <2>2. 1 .. n = (1 .. n - 1) \union {n}
    BY <1>1
  <2> QED BY ONLY <2>1, <2>2 DEF Walked
<1>8. Walked(n, c, x) = Gives(n, c, x) + Walked(n - 1, c, x)
  BY ONLY <1>3, <1>4, <1>7, Zenon
<1> QED BY <1>5, <1>6, <1>8

LEMMA WalkedNone ==
  ASSUME NEW c, NEW x
  PROVE  Walked(0, c, x) = 0
<1>1. 1 .. 0 = {}
  OBVIOUS
<1> QED BY <1>1, SumEmpty DEF Walked

(* Nothing of a block has left it before it starts.                        *)
LEMMA PassedFirst ==
  ASSUME TbsRight, NEW i \in DOMAIN Table
  PROVE  /\ Reach(i, Passed(Table[i].code, 1)) = Table[i].count
         /\ ExitsOf(i) = {e \in ExitsOf(i) : e.pc > Passed(Table[i].code, 1)}
<1> DEFINE code == Table[i].code
<1>1. code[1] \in Nat /\ code \in Codes /\ End(code) \in Nat
  BY AtEntry, CodeType, EndOfCode
<1>2. \A pc \in ExtentAt(i) : pc \in Nat /\ pc > code[1] - 1
  BY <1>1 DEF ExtentAt, ExtentOf
<1>3. UpTo(i, code[1] - 1) = {}
  BY <1>1, <1>2 DEF UpTo
<1>4. Reach(i, code[1] - 1) = Table[i].count
  <2>1. Table[i].count \in Nat
    BY AtEntry
  <2>2. SumOver(EarlyFun(i), UpTo(i, code[1] - 1)) = 0
    BY <1>3, SumEmpty
  <2> HIDE DEF code
  <2> QED BY <2>1, <2>2 DEF Reach
<1>5. \A e \in ExitsOf(i) : e.pc \in ExtentAt(i)
  BY ExitsAre DEF ExitRec
<1>6. Passed(code, 1) = code[1] - 1
  BY DEF Passed
<1> QED BY <1>2, <1>4, <1>5, <1>6

(* The exits between two addresses are the executions lost there.          *)
LEMMA ExitsDue ==
  ASSUME TbsRight, NEW i \in DOMAIN Table, NEW x \in Int, NEW y \in Int, x <= y,
         NEW D, D = {e \in ExitsOf(i) : e.pc > x /\ e.pc <= y}
  PROVE  Reach(i, y) = Reach(i, x) - ExitsCount(D)
<1> DEFINE G == {pc \in ExtentAt(i) : pc > x /\ pc <= y}
           P == {pc \in G : EarlyAt(i, pc) > 0}
           f == [pc \in P |-> ExitRec(i, pc)]
           w == [e \in D |-> e.count]
<1>1. ExtentAt(i) \subseteq Nat
  BY AtEntry, ExtentFinite DEF ExtentAt
<1>2. Weighs(EarlyFun(i), G) /\ SumOver(EarlyFun(i), G) \in Nat
  <2>1. G \in SUBSET ExtentAt(i)
    OBVIOUS
  <2> QED BY <2>1, EarlyFunType
<1>3. \A pc \in G : EarlyFun(i)[pc] = EarlyAt(i, pc) /\ EarlyAt(i, pc) \in Nat
  <2>1. \A pc \in G : EarlyFun(i)[pc] = EarlyAt(i, pc)
    BY DEF EarlyFun
  <2>2. \A pc \in G : EarlyFun(i)[pc] \in Nat
    BY <1>2 DEF Weighs
  <2> QED BY ONLY <2>1, <2>2, Zenon
<1>4. Weighs(EarlyFun(i), P) /\ SumOver(EarlyFun(i), P) = SumOver(EarlyFun(i), G)
  <2>1. \A pc \in G \ P : EarlyFun(i)[pc] = 0
    BY <1>3
  <2>2. P \subseteq G
    OBVIOUS
  <2> QED BY ONLY <1>2, <2>1, <2>2, SumIgnores
<1>5. \A pc : ExitRec(i, pc).pc = pc /\ ExitRec(i, pc).count = EarlyAt(i, pc)
  BY DEF ExitRec
<1>6. D = {ExitRec(i, pc) : pc \in P}
  <2>1. ExitsOf(i) = {ExitRec(i, pc) : pc \in {p \in ExtentAt(i) : EarlyAt(i, p) > 0}}
    BY ExitsAre
  <2> QED BY ONLY <1>5, <2>1, D = {e \in ExitsOf(i) : e.pc > x /\ e.pc <= y}
<1>7. f \in Bijection(P, D)
  <2>1. f \in [P -> D] /\ \A pc \in P : f[pc] = ExitRec(i, pc)
    BY <1>6
  <2>2. \A p \in P, q \in P : f[p] = f[q] => p = q
    BY <1>5, <2>1
  <2>3. \A e \in D : \E p \in P : f[p] = e
    BY <1>6
  <2> HIDE DEF f, P
  <2> QED BY <2>1, <2>2, <2>3 DEF Bijection, Injection, Surjection, IsInjective
<1>8. \A pc \in P : w[f[pc]] = EarlyFun(i)[pc]
  <2>1. \A pc \in P : f[pc] = ExitRec(i, pc) /\ f[pc] \in D
    BY <1>6
  <2>2. \A e \in D : w[e] = e.count
    OBVIOUS
  <2>3. P \subseteq G
    OBVIOUS
  <2> HIDE DEF f, w, P, G
  <2> QED BY <1>3, <1>5, <2>1, <2>2, <2>3
<1>9. Weighs(w, D) /\ SumOver(w, D) = SumOver(EarlyFun(i), P)
  <2> HIDE DEF f, w, P
  <2> QED BY <1>4, <1>7, <1>8, SumRenamed
<1>10. ExitsCount(D) = SumOver(EarlyFun(i), G)
  <2>1. \A e \in D : w[e] = e.count
    OBVIOUS
  <2> HIDE DEF w
  <2> QED BY <1>4, <1>9, <2>1, ExitSum
<1>11. UpTo(i, y) = UpTo(i, x) \union G /\ UpTo(i, x) \intersect G = {}
  BY <1>1 DEF UpTo
<1>12. Weighs(EarlyFun(i), UpTo(i, x)) /\ SumOver(EarlyFun(i), UpTo(i, x)) \in Nat
  <2>1. UpTo(i, x) \in SUBSET ExtentAt(i)
    BY DEF UpTo
  <2> QED BY <2>1, EarlyFunType
<1> HIDE DEF G
<1>13. SumOver(EarlyFun(i), UpTo(i, x) \union G)
         = SumOver(EarlyFun(i), UpTo(i, x)) + SumOver(EarlyFun(i), G)
  BY ONLY <1>2, <1>11, <1>12, SumSplit
<1>14. SumOver(EarlyFun(i), UpTo(i, y))
         = SumOver(EarlyFun(i), UpTo(i, x)) + ExitsCount(D)
  BY ONLY <1>10, <1>11, <1>13, Zenon
<1>15. ExitsCount(D) \in Nat /\ Table[i].count \in Nat
  BY <1>2, <1>10, AtEntry
<1>16. \A k, u, d \in Nat : k - (u + d) = (k - u) - d
  OBVIOUS
<1> QED BY <1>12, <1>14, <1>15, <1>16 DEF Reach

LEMMA PassedType ==
  ASSUME NEW code \in Codes, NEW k \in 1 .. Len(code[2])
  PROVE  /\ Passed(code, k) \in Int /\ InsnAt(code, k) \in Nat
         /\ Passed(code, k) <= InsnAt(code, k)
         /\ Passed(code, k + 1) = InsnAt(code, k)
<1>1. /\ k \in Nat /\ k \in 1 .. Len(code[2]) + 1
      /\ k # 1 => k - 1 \in 1 .. Len(code[2]) + 1 /\ k - 1 < k
      /\ k + 1 # 1 /\ (k + 1) - 1 = k
  BY CodeType
<1>2. InsnAt(code, k) \in Nat
  BY <1>1, OffsetType, CodeType
<1>3. CASE k = 1
  <2>1. Passed(code, k) = code[1] - 1 /\ InsnAt(code, k) = code[1]
    BY <1>3, FirstInsn DEF Passed
  <2> QED BY <1>1, <1>2, <2>1, CodeType DEF Passed
<1>4. CASE k # 1
  <2>1. Passed(code, k) = InsnAt(code, k - 1) /\ InsnAt(code, k - 1) \in Nat
    BY <1>1, <1>4, OffsetType, CodeType DEF Passed
  <2>2. InsnAt(code, k - 1) < InsnAt(code, k)
    BY <1>1, <1>4, InsnsRise
  <2> QED BY <1>1, <1>2, <2>1, <2>2 DEF Passed
<1> QED BY <1>3, <1>4

LEMMA InsnsBeforeNext ==
  ASSUME NEW code \in Codes, NEW k \in 1 .. Len(code[2])
  PROVE  /\ InsnsBefore(code, 1) = {}
         /\ InsnsBefore(code, k + 1) = InsnsBefore(code, k) \union {InsnAt(code, k)}
         /\ InsnAt(code, k) \notin InsnsBefore(code, k)
         /\ InsnsBefore(code, Len(code[2]) + 1) = InsnsOf(code)
<1>1. /\ k \in Nat /\ k \in 1 .. Len(code[2]) + 1 /\ 1 .. 1 - 1 = {}
      /\ 1 .. (k + 1) - 1 = (1 .. k - 1) \union {k}
      /\ 1 .. (Len(code[2]) + 1) - 1 = DOMAIN code[2]
      /\ \A j \in 1 .. k - 1 : j \in 1 .. Len(code[2]) + 1 /\ j < k
  BY CodeType
<1>2. \A j \in 1 .. k - 1 : InsnAt(code, j) # InsnAt(code, k)
  <2>1. \A j \in 1 .. k - 1 : InsnAt(code, j) < InsnAt(code, k)
    BY <1>1, InsnsRise
  <2>2. InsnAt(code, k) \in Nat
    BY <1>1, OffsetType, CodeType
  <2> QED BY <2>1, <2>2
<1> QED BY <1>1, <1>2 DEF InsnsBefore, InsnsOf

LEMMA SameTable ==
  ASSUME tbs' = tbs
  PROVE  /\ Table' = Table
         /\ TbsRight' = TbsRight
<1>1. Merged' = Merged
  <2>1. {EntryOf(t) : t \in Translations}' = {EntryOf(t) : t \in Translations}
    BY DEF EntryOf, Class, SameEntry
  <2>2. (Merged = {EntryOf(t) : t \in Translations})'
    BY MergedIs, PTL
  <2> QED BY <2>1, <2>2, MergedIs
<1>2. Table' = Table
  BY <1>1 DEF Table
<1> QED BY <1>2 DEF TbsRight

(* The exits of an entry, by the sums of its translations.                 *)
ExitsBy(i) ==
  LET Has(pc) == {t \in Class(Table[i]) : pc \in DOMAIN tbs[t].early}
  IN {[index |-> i, ctx |-> tbs[t].ctx, start |-> tbs[t].code[1],
       size |-> Total(tbs[t].code[2]), pc |-> pc,
       count |-> EarlyOfAt(tbs, Has(pc), pc)]
        : t \in Class(Table[i]),
          pc \in {p \in ExtentAt(i) : EarlyOfAt(tbs, Has(p), p) > 0}}

LEMMA ExitsByIs == \A i : ExitsOf(i) = ExitsBy(i)
BY DEF ExitsOf, ExitsBy, EarlyOfAt, Class, ExtentAt

LEMMA SameExits ==
  ASSUME tbs' = tbs
  PROVE  \A i : ExitsOf(i)' = ExitsOf(i)
<1>1. (\A i : ExitsOf(i) = ExitsBy(i))'
  BY ExitsByIs, PTL
<1>2. \A i : ExitsBy(i)' = ExitsBy(i)
  BY SameTable DEF ExitsBy, Class, SameEntry, ExtentAt
<1> QED BY <1>1, <1>2, ExitsByIs

LEMMA SameReach ==
  ASSUME tbs' = tbs
  PROVE  \A i, x : Reach(i, x)' = Reach(i, x)
<1>1. \A i : Class(Table[i])' = Class(Table[i])
  BY SameTable DEF Class, SameEntry
<1>2. \A i, pc : EarlyAt(i, pc)' = EarlyAt(i, pc)
  BY <1>1 DEF EarlyAt
<1>3. \A i : ExtentAt(i)' = ExtentAt(i)
  BY SameTable DEF ExtentAt
<1>4. \A i : EarlyFun(i)' = EarlyFun(i)
  BY <1>2, <1>3 DEF EarlyFun
<1>5. \A i, x : UpTo(i, x)' = UpTo(i, x)
  BY <1>3 DEF UpTo
<1> QED BY <1>4, <1>5, SameTable DEF Reach

LEMMA SameWalk ==
  ASSUME tbs' = tbs
  PROVE  /\ \A n, c, x : Walked(n, c, x)' = Walked(n, c, x)
         /\ \A i, k, c, x : GivenBefore(i, k, c, x)' = GivenBefore(i, k, c, x)
<1>1. \A i, c, x : Gives(i, c, x)' = Gives(i, c, x)
  BY SameTable, SameReach DEF Gives
<1>2. \A c, x : GivesTo(c, x)' = GivesTo(c, x)
  BY <1>1, SameTable DEF GivesTo
<1>3. \A n, c, x : Walked(n, c, x)' = Walked(n, c, x)
  BY <1>2 DEF Walked
<1>4. \A i, k, c, x : GivenBefore(i, k, c, x)' = GivenBefore(i, k, c, x)
  BY SameTable, SameReach DEF GivenBefore
<1> QED BY <1>3, <1>4

LEMMA GivenNext ==
  ASSUME TbsRight, NEW i \in DOMAIN Table, NEW k \in 1 .. Len(Table[i].code[2]),
         NEW c, NEW x
  PROVE  /\ GivenBefore(i, 1, c, x) = 0
         /\ GivenBefore(i, k, c, x) \in Nat
         /\ GivenBefore(i, k + 1, c, x) =
              IF Table[i].ctx = c /\ x = InsnAt(Table[i].code, k)
                THEN GivenBefore(i, k, c, x) + Reach(i, x)
                ELSE GivenBefore(i, k, c, x)
         /\ GivenBefore(i, Len(Table[i].code[2]) + 1, c, x) = Gives(i, c, x)
<1> DEFINE code == Table[i].code
<1>1. code \in Codes
  BY AtEntry
<1>2. /\ InsnsBefore(code, 1) = {}
      /\ InsnsBefore(code, k + 1) = InsnsBefore(code, k) \union {InsnAt(code, k)}
      /\ InsnAt(code, k) \notin InsnsBefore(code, k)
      /\ InsnsBefore(code, Len(code[2]) + 1) = InsnsOf(code)
  BY <1>1, InsnsBeforeNext
<1>3. Reach(i, x) \in Nat
  BY ReachIs
<1> HIDE DEF code
<1> QED BY <1>2, <1>3 DEF GivenBefore, Gives, code

LEMMA WalkInit == Init => WalkInv
<1> SUFFICES ASSUME Init PROVE WalkInv
  OBVIOUS
<1>1. TbsRight
  BY TbsInit
<1>2. phase = "collect" /\ index = 0 /\ insn = 0
  BY DEF Init
<1>3. 0 \in 0 .. Len(Table)
  BY <1>1, TableRight
<1>4. out = [k \in Ctxs \X Addr |-> Sofar(k[1], k[2])]
  <2>1. \A c, x : Sofar(c, x) = 0
    BY <1>2, WalkedNone DEF Sofar
  <2>2. out = [k \in Ctxs \X Addr |-> 0]
    BY DEF Init
  <2> QED BY <2>1, <2>2
<1> QED BY <1>1, <1>2, <1>3, <1>4 DEF WalkInv, Collected

(* Sofar stands still with the walk.                                       *)
LEMMA SofarSame ==
  ASSUME tbs' = tbs, filter' = filter, index' = index, insn' = insn
  PROVE  \A c, x : Sofar(c, x)' = Sofar(c, x)
BY SameWalk DEF Sofar

LEMMA OutSame ==
  ASSUME out = [k \in Ctxs \X Addr |-> Sofar(k[1], k[2])], out' = out,
         \A c, x : Sofar(c, x)' = Sofar(c, x)
  PROVE  (out = [k \in Ctxs \X Addr |-> Sofar(k[1], k[2])])'
OBVIOUS

LEMMA CollectKeeps == WalkInv /\ Collect => WalkInv'
<1> SUFFICES ASSUME WalkInv, Collect PROVE WalkInv'
  OBVIOUS
<1>1. /\ tbs' = tbs /\ filter' = filter /\ index' = index /\ insn' = insn
      /\ out' = out /\ phase = "collect" /\ phase' = "check"
      /\ entries' = Table /\ exits' = UNION {ExitsOf(i) : i \in DOMAIN Table}
  BY DEF Collect, loop
<1>2. /\ TbsRight /\ index \in 0 .. Len(Table) /\ insn = 0 /\ index = 0
      /\ out = [k \in Ctxs \X Addr |-> Sofar(k[1], k[2])]
  BY <1>1 DEF WalkInv
<1>3. Table' = Table /\ TbsRight'
  BY <1>1, <1>2, SameTable
<1>4. Collected'
  <2>1. \A i : ExitsOf(i)' = ExitsOf(i)
    BY <1>1, SameExits
  <2> QED BY <1>1, <1>3, <2>1 DEF Collected
<1>5. (out = [k \in Ctxs \X Addr |-> Sofar(k[1], k[2])])'
  BY <1>1, <1>2, SofarSame, OutSame
<1> QED BY <1>1, <1>2, <1>3, <1>4, <1>5 DEF WalkInv

LEMMA CollectedKept ==
  ASSUME WalkInv, phase # "collect", tbs' = tbs, entries' = entries, exits' = exits
  PROVE  /\ entries = Table /\ Table' = Table /\ TbsRight /\ TbsRight' /\ Collected'
<1>1. \A i : ExitsOf(i)' = ExitsOf(i)
  BY SameExits
<1> QED BY <1>1, SameTable DEF Collected, WalkInv

(* The exits the plugin wrote name the entries they are of.                *)
LEMMA ExitsNamed ==
  ASSUME WalkInv, phase # "collect"
  PROVE  \A x \in exits : /\ x.index \in DOMAIN entries
                          /\ x.ctx = entries[x.index].ctx
                          /\ x.start = entries[x.index].code[1]
                          /\ x.size = Total(entries[x.index].code[2])
<1>1. /\ TbsRight /\ entries = Table
      /\ exits = UNION {ExitsOf(i) : i \in DOMAIN Table}
  BY DEF WalkInv, Collected
<1>2. \A i \in DOMAIN Table : \A x \in ExitsOf(i) :
        /\ x.index = i /\ x.ctx = Table[i].ctx /\ x.start = Table[i].code[1]
        /\ x.size = Total(Table[i].code[2])
  BY <1>1, ExitsAre DEF ExitRec
<1> QED BY <1>1, <1>2

LEMMA CheckKeeps == WalkInv /\ Check => WalkInv' /\ phase' = "expand"
<1> SUFFICES ASSUME WalkInv, Check PROVE WalkInv' /\ phase' = "expand"
  OBVIOUS
<1>1. /\ tbs' = tbs /\ filter' = filter /\ index' = index /\ insn' = insn
      /\ out' = out /\ phase = "check" /\ entries' = entries /\ exits' = exits
  BY DEF Check, tables, loop
<1>2. phase' = "expand"
  BY <1>1, ExitsNamed DEF Check
<1>3. /\ index \in 0 .. Len(Table) /\ insn = 0
      /\ out = [k \in Ctxs \X Addr |-> Sofar(k[1], k[2])]
  BY <1>1 DEF WalkInv
<1>4. Table' = Table /\ TbsRight' /\ Collected'
  BY <1>1, CollectedKept
<1>5. (out = [k \in Ctxs \X Addr |-> Sofar(k[1], k[2])])'
  BY <1>1, <1>3, SofarSame, OutSame
<1> QED BY <1>1, <1>2, <1>3, <1>4, <1>5 DEF WalkInv

LEMMA FinishKeeps == WalkInv /\ Finish => WalkInv'
<1> SUFFICES ASSUME WalkInv, Finish PROVE WalkInv'
  OBVIOUS
<1>1. /\ tbs' = tbs /\ filter' = filter /\ index' = index /\ insn' = insn
      /\ out' = out /\ phase = "expand" /\ phase' = "done" /\ insn = 0
      /\ entries' = entries /\ exits' = exits /\ index = Len(entries)
  BY DEF Finish, tables, loop
<1>2. /\ index \in 0 .. Len(Table)
      /\ out = [k \in Ctxs \X Addr |-> Sofar(k[1], k[2])]
  BY DEF WalkInv
<1>3. entries = Table /\ Table' = Table /\ TbsRight' /\ Collected'
  BY <1>1, CollectedKept
<1>4. (out = [k \in Ctxs \X Addr |-> Sofar(k[1], k[2])])'
  BY <1>1, <1>2, SofarSame, OutSame
<1> QED BY <1>1, <1>2, <1>3, <1>4 DEF WalkInv

LEMMA StartKeeps == WalkInv /\ StartEntry => WalkInv'
<1> SUFFICES ASSUME WalkInv, StartEntry PROVE WalkInv'
  OBVIOUS
<1> DEFINE i == index + 1
           code == Table[i].code
<1>1. /\ tbs' = tbs /\ filter' = filter /\ out' = out
      /\ phase = "expand" /\ phase' = "expand" /\ insn = 0 /\ insn' = 1
      /\ entries' = entries /\ exits' = exits /\ index < Len(entries)
      /\ index' = i /\ a' = entries[i].code[1] /\ left' = entries[i].count
      /\ early' = EarlyOf(i)
  BY DEF StartEntry, tables
<1>2. /\ index \in 0 .. Len(Table) /\ Collected
      /\ out = [k \in Ctxs \X Addr |-> Sofar(k[1], k[2])]
  BY DEF WalkInv
<1>3. entries = Table /\ Table' = Table /\ TbsRight /\ TbsRight' /\ Collected'
  BY <1>1, CollectedKept
<1>4. i \in DOMAIN Table /\ i \in 1 .. Len(Table) /\ i - 1 = index
  BY <1>1, <1>2, <1>3, TableRight
<1>5. code \in Codes /\ 1 \in 1 .. Len(code[2])
  BY <1>3, <1>4, AtEntry, CodeType
<1>6. EarlyOf(i) = ExitsOf(i)
  BY <1>1, <1>2, <1>3, <1>4, ExitsOfEntry
<1>7. /\ Reach(i, Passed(code, 1)) = Table[i].count
      /\ ExitsOf(i) = {e \in ExitsOf(i) : e.pc > Passed(code, 1)}
  BY <1>3, <1>4, PassedFirst
<1>8. InsnAt(code, 1) = code[1]
  BY <1>5, FirstInsn
<1>9. /\ \A k : ExitsOf(k)' = ExitsOf(k)
      /\ \A k, x : Reach(k, x)' = Reach(k, x)
  BY <1>1, SameExits, SameReach
<1>10. InHand'
  <2>1. early' = {e \in ExitsOf(i) : e.pc > Passed(code, 1)}
    BY <1>1, <1>6, <1>7
  <2>2. left' = Reach(i, Passed(code, 1)) /\ a' = InsnAt(code, 1)
    BY <1>1, <1>3, <1>7, <1>8
  <2> HIDE DEF i
  <2> QED BY <1>1, <1>3, <1>4, <1>5, <1>9, <2>1, <2>2 DEF InHand
<1>11. \A c, x : Sofar(c, x)' = Sofar(c, x)
  <2> SUFFICES ASSUME NEW c, NEW x PROVE Sofar(c, x)' = Sofar(c, x)
    OBVIOUS
  <2>1. GivenBefore(i, 1, c, x) = 0
    BY <1>3, <1>4, <1>5, GivenNext
  <2>2. Walked(index, c, x) \in Nat
    BY <1>2, <1>3, GivesType
  <2>3. /\ Walked(index, c, x)' = Walked(i, c, x)
        /\ Walked(index - 1, c, x)' = Walked(index, c, x)
        /\ GivenBefore(index, insn, c, x)' = GivenBefore(i, 1, c, x)
    BY <1>1, <1>4, SameWalk
  <2> HIDE DEF i
  <2> QED BY <1>1, <2>1, <2>2, <2>3 DEF Sofar
<1>12. (out = [k \in Ctxs \X Addr |-> Sofar(k[1], k[2])])'
  BY <1>1, <1>2, <1>11, OutSame
<1> QED BY <1>1, <1>3, <1>4, <1>10, <1>12 DEF WalkInv

(* One instruction: the exits due are taken, what is left is what reached  *)
(* the instruction, and it goes to the instruction's place.                *)
LEMMA InsnStep ==
  ASSUME WalkInv, ExpandInsn
  PROVE  /\ index \in DOMAIN Table /\ insn \in 1 .. Len(Table[index].code[2])
         /\ Table[index].code \in Codes /\ a = InsnAt(Table[index].code, insn)
         /\ early' = {e \in ExitsOf(index) : e.pc > a}
         /\ left' = Reach(index, a) /\ left' \in Nat
<1> DEFINE code == Table[index].code
           p == Passed(code, insn)
<1>1. phase = "expand" /\ insn # 0 /\ early' = early \ Due
      /\ left' = left - ExitsCount(Due)
  BY DEF ExpandInsn, ExitsCount
<1>2. /\ TbsRight /\ index \in DOMAIN Table /\ insn \in 1 .. Len(code[2])
      /\ a = InsnAt(code, insn)
      /\ early = {e \in ExitsOf(index) : e.pc > p}
      /\ left = Reach(index, p)
  BY <1>1 DEF WalkInv, InHand
<1>3. code \in Codes
  BY <1>2, AtEntry
<1>4. p \in Int /\ a \in Nat /\ p <= a
  BY <1>2, <1>3, PassedType
<1>5. \A e \in ExitsOf(index) : e.pc \in Nat
  <2>1. \A e \in ExitsOf(index) : e.pc \in ExtentAt(index)
    BY <1>2, ExitsAre DEF ExitRec
  <2>2. ExtentAt(index) \subseteq Nat
    BY <1>3, ExtentFinite DEF ExtentAt
  <2> QED BY <2>1, <2>2
<1> HIDE DEF p
<1>6. Due = {e \in ExitsOf(index) : e.pc > p /\ e.pc <= a}
  BY <1>2 DEF Due
<1>7. early' = {e \in ExitsOf(index) : e.pc > a}
  BY <1>1, <1>2, <1>4, <1>5, <1>6
<1>8. Reach(index, a) = Reach(index, p) - ExitsCount(Due)
  <2>1. a \in Int
    BY <1>4
  <2> QED BY <1>2, <1>4, <1>6, <2>1, ExitsDue
<1>9. left' = Reach(index, a)
  BY ONLY <1>1, <1>2, <1>8, Zenon
<1>10. Reach(index, a) \in Nat
  BY <1>2, ReachIs
<1> QED BY <1>2, <1>3, <1>7, <1>9, <1>10

LEMMA ExpandKeeps == WalkInv /\ ExpandInsn => WalkInv'
<1> SUFFICES ASSUME WalkInv, ExpandInsn PROVE WalkInv'
  OBVIOUS
<1> DEFINE code == Table[index].code
           last == insn = Len(code[2])
           key == <<Table[index].ctx, a>>
<1>1. /\ tbs' = tbs /\ filter' = filter /\ index' = index
      /\ phase = "expand" /\ phase' = "expand" /\ insn # 0
      /\ entries' = entries /\ exits' = exits
  BY DEF ExpandInsn, tables
<1>2. /\ index \in DOMAIN Table /\ insn \in 1 .. Len(code[2])
      /\ code \in Codes /\ a = InsnAt(code, insn)
      /\ early' = {e \in ExitsOf(index) : e.pc > a}
      /\ left' = Reach(index, a) /\ left' \in Nat
  BY InsnStep
<1>3. entries = Table /\ Table' = Table /\ TbsRight /\ TbsRight' /\ Collected'
  BY <1>1, CollectedKept
<1>4. /\ out' = IF left' > 0 /\ a \in filter
                  THEN [out EXCEPT ![key] = @ + left'] ELSE out
      /\ a' = a + code[2][insn]
      /\ insn' = IF last THEN 0 ELSE insn + 1
  BY <1>3 DEF ExpandInsn
<1>5. /\ insn \in Nat /\ index \in 0 .. Len(Table)
      /\ out = [k \in Ctxs \X Addr |-> Sofar(k[1], k[2])]
  BY DEF WalkInv
<1>6. /\ Passed(code, insn + 1) = InsnAt(code, insn) /\ a \in Nat
  BY <1>2, PassedType
<1>7. InsnAt(code, insn + 1) = InsnAt(code, insn) + code[2][insn]
  BY <1>2, NextInsn
<1>8. /\ \A k : ExitsOf(k)' = ExitsOf(k)
      /\ \A k, x : Reach(k, x)' = Reach(k, x)
  BY <1>1, SameExits, SameReach
<1>9. insn' # 0 => InHand'
  <2> SUFFICES ASSUME insn' # 0 PROVE InHand'
    OBVIOUS
  <2>1. insn' = insn + 1 /\ insn + 1 \in 1 .. Len(code[2])
    BY <1>2, <1>4, CodeType
  <2>2. a' = InsnAt(code, insn + 1)
    BY <1>2, <1>4, <1>7
  <2>3. /\ early' = {e \in ExitsOf(index) : e.pc > Passed(code, insn + 1)}
        /\ left' = Reach(index, Passed(code, insn + 1))
    BY <1>2, <1>6
  <2> QED BY <1>1, <1>2, <1>3, <1>8, <2>1, <2>2, <2>3 DEF InHand
<1>10. a \in Addr /\ Table[index].ctx \in Ctxs /\ key \in Ctxs \X Addr
  BY <1>2, <1>3, InsnInExtent, ExtentInAddr, AtEntry
<1>11. ASSUME NEW c, NEW x
       PROVE  Sofar(c, x)' = IF x \in filter /\ Table[index].ctx = c /\ x = a
                               THEN Sofar(c, x) + left' ELSE Sofar(c, x)
  <2>1. /\ GivenBefore(index, insn, c, x) \in Nat
        /\ GivenBefore(index, insn + 1, c, x) =
             IF Table[index].ctx = c /\ x = a
               THEN GivenBefore(index, insn, c, x) + Reach(index, x)
               ELSE GivenBefore(index, insn, c, x)
        /\ last => GivenBefore(index, insn + 1, c, x) = Gives(index, c, x)
    BY <1>2, <1>3, GivenNext
  <2>2. /\ Walked(index, c, x) = Walked(index - 1, c, x) + Gives(index, c, x)
        /\ Walked(index - 1, c, x) \in Nat
    <3>1. index \in 1 .. Len(Table) /\ index - 1 \in 0 .. Len(Table)
      BY <1>2, <1>3, TableRight
    <3> QED BY <1>3, <3>1, WalkedNext, GivesType
  <2>3. Sofar(c, x) = IF x \notin filter THEN 0
                      ELSE Walked(index - 1, c, x) + GivenBefore(index, insn, c, x)
    BY <1>1 DEF Sofar
  <2>4. Sofar(c, x)' =
          IF x \notin filter THEN 0
          ELSE Walked(index - 1, c, x) + GivenBefore(index, insn + 1, c, x)
    <3>1. /\ Walked(index, c, x)' = Walked(index, c, x)
          /\ Walked(index - 1, c, x)' = Walked(index - 1, c, x)
          /\ GivenBefore(index, insn, c, x)' = GivenBefore(index, insn', c, x)
      BY <1>1, SameWalk
    <3>2. CASE last
      BY <1>1, <1>4, <2>1, <2>2, <3>1, <3>2 DEF Sofar
    <3>3. CASE ~last
      <4>1. insn' = insn + 1 /\ insn + 1 # 0
        BY <1>4, <1>5, <3>3
      <4>2. GivenBefore(index, insn, c, x)' = GivenBefore(index, insn + 1, c, x)
        BY <3>1, <4>1
      <4> QED BY <1>1, <3>1, <4>1, <4>2 DEF Sofar
    <3> QED BY <3>2, <3>3
  <2>5. \A u, v, w \in Nat : u + (v + w) = (u + v) + w
    OBVIOUS
  <2>6. x = a => Reach(index, x) = left'
    BY <1>2
  <2> QED BY <1>2, <2>1, <2>2, <2>3, <2>4, <2>5, <2>6
<1>12. (out = [k \in Ctxs \X Addr |-> Sofar(k[1], k[2])])'
  <2>1. out' = [k \in Ctxs \X Addr |->
                  IF k[2] \in filter /\ Table[index].ctx = k[1] /\ k[2] = a
                    THEN Sofar(k[1], k[2]) + left' ELSE Sofar(k[1], k[2])]
    <3>1. \A k \in Ctxs \X Addr :
            k = key <=> Table[index].ctx = k[1] /\ k[2] = a
      OBVIOUS
    <3>2. \A c, x : Sofar(c, x) \in Nat
      <4> SUFFICES ASSUME NEW c, NEW x PROVE Sofar(c, x) \in Nat
        OBVIOUS
      <4>1. index - 1 \in 0 .. Len(Table)
        BY <1>2, <1>3, TableRight
      <4> QED BY <1>1, <1>2, <1>3, <4>1, GivesType, GivenNext DEF Sofar
    <3> HIDE DEF key
    <3>3. CASE left' > 0 /\ a \in filter
      <4>1. out' = [out EXCEPT ![key] = @ + left']
        BY <1>4, <3>3
      <4> QED BY <1>5, <1>10, <3>1, <3>3, <4>1
    <3>4. CASE a \notin filter
      BY <1>4, <1>5, <3>4
    <3>5. CASE ~(left' > 0)
      <4>1. left' = 0 /\ out' = out
        BY <1>2, <1>4, <3>5
      <4>2. \A c, x : Sofar(c, x) + left' = Sofar(c, x)
        BY <3>2, <4>1
      <4> QED BY <1>5, <4>1, <4>2
    <3> QED BY <3>3, <3>4, <3>5
  <2>2. \A k \in Ctxs \X Addr :
          Sofar(k[1], k[2])' =
            IF k[2] \in filter /\ Table[index].ctx = k[1] /\ k[2] = a
              THEN Sofar(k[1], k[2]) + left' ELSE Sofar(k[1], k[2])
    <3>1. \A c, x :
            Sofar(c, x)' = IF x \in filter /\ Table[index].ctx = c /\ x = a
                             THEN Sofar(c, x) + left' ELSE Sofar(c, x)
      BY ONLY <1>11
    <3> QED BY ONLY <3>1
  <2> QED BY ONLY <2>1, <2>2
<1>13. insn' \in Nat /\ index' \in 0 .. Len(Table)
  BY <1>1, <1>4, <1>5
<1> QED BY ONLY <1>1, <1>3, <1>9, <1>12, <1>13 DEF WalkInv

LEMMA WalkStutters == WalkInv /\ UNCHANGED vars => WalkInv'
<1> SUFFICES ASSUME WalkInv, UNCHANGED vars PROVE WalkInv'
  OBVIOUS
<1>1. /\ tbs' = tbs /\ filter' = filter /\ index' = index /\ insn' = insn
      /\ out' = out /\ phase' = phase /\ entries' = entries /\ exits' = exits
      /\ a' = a /\ left' = left /\ early' = early
  BY DEF vars, tables, loop
<1>2. /\ TbsRight /\ index \in 0 .. Len(Table)
      /\ out = [k \in Ctxs \X Addr |-> Sofar(k[1], k[2])]
  BY DEF WalkInv
<1>3. Table' = Table /\ TbsRight'
  BY <1>1, <1>2, SameTable
<1>4. /\ \A k : ExitsOf(k)' = ExitsOf(k)
      /\ \A k, x : Reach(k, x)' = Reach(k, x)
  BY <1>1, SameExits, SameReach
<1>5. Collected'
  BY <1>1, <1>3, <1>4 DEF WalkInv, Collected
<1>6. insn' # 0 => InHand'
  BY <1>1, <1>3, <1>4 DEF WalkInv, InHand
<1>7. (out = [k \in Ctxs \X Addr |-> Sofar(k[1], k[2])])'
  BY <1>1, <1>2, SofarSame, OutSame
<1> QED BY <1>1, <1>2, <1>3, <1>5, <1>6, <1>7 DEF WalkInv

LEMMA WalkNext == WalkInv /\ [Next]_vars => WalkInv'
BY CollectKeeps, CheckKeeps, StartKeeps, ExpandKeeps, FinishKeeps, WalkStutters DEF Next

(* No step rejects the table.                                              *)
LEMMA NotRejected ==
  TableAccepted /\ WalkInv /\ [Next]_vars => TableAccepted'
BY CheckKeeps
   DEF Next, Collect, StartEntry, ExpandInsn, Finish, TableAccepted, vars, tables

-----------------------------------------------------------------------------
(* What the walk comes to, translation by translation.                     *)

LEMMA WalkedAll ==
  ASSUME TbsRight, NEW c, NEW x
  PROVE  Walked(Len(Table), c, x) =
           ExecutedBy({t \in Translations : /\ tbs[t].ctx = c
                                            /\ x \in InsnsOf(tbs[t].code)}, x)
<1> DEFINE D == DOMAIN Table
           I == {i \in D : Table[i].ctx = c /\ x \in InsnsOf(Table[i].code)}
           P == [i \in I |-> Class(Table[i])]
           U == UnionOf(P, I)
           S == {t \in Translations : tbs[t].ctx = c /\ x \in InsnsOf(tbs[t].code)}
           g == GivesTo(c, x)
<1>1. /\ Len(Table) \in 0 .. Len(Table) /\ 1 .. Len(Table) = D
      /\ \A i \in D : Table[i] \in Executing
      /\ \A i, j \in D : Table[i] = Table[j] => i = j
      /\ \A e \in Executing : \E i \in D : Table[i] = e
  BY TableRight
<1>2. Weighs(g, D) /\ Walked(Len(Table), c, x) = SumOver(g, D)
  BY <1>1, GivesType DEF Walked
<1>3. SumOver(g, I) = SumOver(g, D)
  <2>1. \A i \in D \ I : g[i] = 0
    BY DEF GivesTo, Gives
  <2>2. I \subseteq D
    OBVIOUS
  <2> QED BY ONLY <1>2, <2>1, <2>2, SumIgnores
<1>4. IsFiniteSet(I)
  <2>1. I \in SUBSET D
    OBVIOUS
  <2> QED BY <1>2, <2>1, FS_Subset DEF Weighs
<1>5. PartsApart(P, I)
  <2> SUFFICES ASSUME NEW i \in I, NEW j \in I, i # j,
                      NEW t, t \in Class(Table[i]), t \in Class(Table[j])
               PROVE  FALSE
    BY DEF PartsApart
  <2>1. Table[i].ctx = Table[j].ctx /\ Table[i].code = Table[j].code
    BY DEF Class, SameEntry
  <2>2. Table[i] \in Merged /\ Table[j] \in Merged
    BY AtEntry
  <2>3. Table[i] = Table[j]
    BY <2>1, <2>2, EntryUnique
  <2> QED BY <1>1, <2>3
<1>6. \A i \in I : Weighs(Ran(x), P[i]) /\ g[i] = SumOver(Ran(x), P[i])
  BY ReachIs DEF GivesTo, Gives
<1>7. Weighs(Ran(x), U) /\ SumOver(g, I) = SumOver(Ran(x), U)
  <2> HIDE DEF g, P, I
  <2> QED BY <1>4, <1>5, <1>6, SumParts
<1>8. U \subseteq S
  <2> SUFFICES ASSUME NEW i \in I, NEW t \in Class(Table[i]) PROVE t \in S
    BY DEF UnionOf
  <2> QED BY AtEntry
<1>9. \A t \in S : Ran(x)[t] = Executed(t, x) /\ Ran(x)[t] \in Nat
  <2> SUFFICES ASSUME NEW t \in S
               PROVE  Ran(x)[t] = Executed(t, x) /\ Ran(x)[t] \in Nat
    OBVIOUS
  <2>1. PICK R : R = {pc \in DOMAIN tbs[t].early : pc <= x}
    OBVIOUS
  <2>2. Executed(t, x) \in Nat
    BY <2>1, ExecutedType
  <2> QED BY <2>2 DEF Ran
<1>10. \A t \in S \ U : Ran(x)[t] = 0
  <2> SUFFICES ASSUME NEW t \in S \ U PROVE Executed(t, x) = 0
    BY DEF Ran
  <2>1. PICK e : e = EntryOf(t)
    OBVIOUS
  <2>2. /\ e \in Merged /\ t \in Class(e)
        /\ e.ctx = tbs[t].ctx /\ e.code = tbs[t].code
    BY <2>1, EntryHas DEF EntryOf
  <2>3. e \notin Executing
    <3> SUFFICES ASSUME e \in Executing PROVE FALSE
      OBVIOUS
    <3>1. PICK i \in D : Table[i] = e
      BY <1>1
    <3>2. i \in I
      BY <2>2, <3>1
    <3>3. t \in U
      BY <2>2, <3>1, <3>2 DEF UnionOf
    <3> QED BY <3>3
  <2>4. e.count \in Nat /\ e.count = SumOver(Counts, Class(e))
    BY <2>2, EntryRight
  <2>5. e.count = 0
    BY <2>2, <2>3, <2>4 DEF Executing
  <2>6. tbs[t].count = 0
    <3>1. Weighs(Counts, Class(e))
      BY ClassCount
    <3>2. SumOver(Counts, Class(e)) = Counts[t] + SumOver(Counts, Class(e) \ {t})
      BY <2>2, <3>1, SumTake
    <3>3. SumOver(Counts, Class(e) \ {t}) \in Nat
      BY <2>2, <3>1, SumTake, SumType
    <3>4. Counts[t] = tbs[t].count /\ tbs[t].count \in Nat
      BY DEF Counts, TbsRight
    <3>5. Counts[t] + SumOver(Counts, Class(e) \ {t}) = 0
      BY ONLY <2>4, <2>5, <3>2, Zenon
    <3>6. \A u, v \in Nat : u + v = 0 => u = 0
      OBVIOUS
    <3> QED BY ONLY <3>3, <3>4, <3>5, <3>6
  <2>7. PICK R : R = {pc \in DOMAIN tbs[t].early : pc <= x}
    OBVIOUS
  <2>8. /\ Executed(t, x) \in Nat /\ SumOver(tbs[t].early, R) \in Nat
        /\ tbs[t].count = Executed(t, x) + SumOver(tbs[t].early, R)
    BY <2>7, ExecutedType
  <2> QED BY <2>6, <2>8
<1>11. Weighs(Ran(x), S) /\ SumOver(Ran(x), U) = SumOver(Ran(x), S)
  <2>1. S \in SUBSET Translations
    OBVIOUS
  <2>2. Weighs(Ran(x), S)
    BY <1>9, <2>1, FS_Subset, TbTableAssumption DEF Weighs
  <2> HIDE DEF U, S
  <2> QED BY <1>8, <1>10, <2>2, SumIgnores
<1>12. ExecutedBy(S, x) = SumOver(Ran(x), S)
  <2> HIDE DEF S
  <2> QED BY <1>9, <1>11, ExecutedSum
<1> HIDE DEF g, I, U, S, D
<1> QED BY <1>2, <1>3, <1>7, <1>11, <1>12 DEF S

LEMMA WalkExact == WalkInv => ExpansionMatches
<1> SUFFICES ASSUME WalkInv, phase = "done", NEW c \in Ctxs, NEW x \in Addr
             PROVE  out[<<c, x>>] =
                      IF x \in filter
                        THEN ExecutedBy({t \in Translations :
                               tbs[t].ctx = c /\ x \in InsnsOf(tbs[t].code)}, x)
                        ELSE 0
  BY DEF ExpansionMatches, ExecutedBy
<1>1. /\ TbsRight /\ index = Len(Table) /\ insn = 0
      /\ out = [k \in Ctxs \X Addr |-> Sofar(k[1], k[2])]
  BY DEF WalkInv
<1>2. out[<<c, x>>] = Sofar(c, x)
  BY <1>1
<1> QED BY <1>1, <1>2, WalkedAll DEF Sofar

(* The table's walk is exact whatever was translated, executed and left    *)
(* early, in whatever contexts: merging translations, dropping the blocks  *)
(* that never ran, sorting, naming exits by position and walking the sizes *)
(* lose and confuse nothing (collect_tb_table, expand_tb_records).         *)
THEOREM ExpansionMatchesCorrect == Spec => []ExpansionMatches
<1>1. Init => WalkInv
  BY WalkInit
<1>2. WalkInv /\ [Next]_vars => WalkInv'
  BY WalkNext
<1>3. WalkInv => ExpansionMatches
  BY WalkExact
<1> QED BY <1>1, <1>2, <1>3, PTL DEF Spec

(* No table the plugin writes is rejected by the reader's check of its     *)
(* exits against its entries (unpack_tb_table).                            *)
THEOREM TableAcceptedCorrect == Spec => []TableAccepted
<1>1. Init => WalkInv /\ TableAccepted
  BY WalkInit DEF Init, TableAccepted
<1>2. WalkInv /\ [Next]_vars => WalkInv'
  BY WalkNext
<1>3. TableAccepted /\ WalkInv /\ [Next]_vars => TableAccepted'
  BY NotRejected
<1> QED BY <1>1, <1>2, <1>3, PTL DEF Spec

(* The tools' commands leave the table alone.                              *)
THEOREM ToolsKeepTable == ToolsSpec => Spec
<1>1. ToolsInit => Init
  BY DEF ToolsInit
<1>2. [ToolsNext]_allVars => [Next]_vars
  <2>1. ASSUME NEW p, NEW o, Start(p, o) PROVE UNCHANGED vars
    BY <2>1 DEF Start
  <2>2. Command => UNCHANGED vars
    BY <2>1 DEF Command, Extract, Rebase, Scrub
  <2>3. SliceCommand => UNCHANGED vars
    BY <2>1 DEF SliceCommand, Slice
  <2>4. Finish1 \/ Killed => UNCHANGED vars
    BY DEF Finish1, Killed
  <2> QED BY <2>2, <2>3, <2>4 DEF ToolsNext, allVars
<1> QED BY <1>1, <1>2, PTL DEF ToolsSpec, Spec

(* So both hold with the tools running over the artifact.                  *)
THEOREM ToolsReadTable ==
  ToolsSpec => [](ExpansionMatches /\ TableAccepted)
BY ExpansionMatchesCorrect, TableAcceptedCorrect, ToolsKeepTable, PTL

-----------------------------------------------------------------------------
(* Files: sections one after the other.                                    *)

IsSeq(s) == s \in Seq(Range(s))

LEMMA SeqIs ==
  ASSUME NEW S, NEW s \in Seq(S)
  PROVE  IsSeq(s) /\ Range(s) \subseteq S /\ IsFiniteSet(Range(s))
<1>1. DOMAIN s = 1 .. Len(s) /\ Len(s) \in Nat
  OBVIOUS
<1>2. IsFiniteSet(DOMAIN s)
  BY <1>1, FS_Interval
<1>3. Range(s) = {s[i] : i \in DOMAIN s}
  BY DEF Range
<1>4. IsFiniteSet(Range(s))
  BY <1>2, <1>3, ImageFinite
<1> QED BY <1>3, <1>4 DEF IsSeq

LEMMA SeqIn ==
  ASSUME NEW s, IsSeq(s), NEW S, Range(s) \subseteq S
  PROVE  s \in Seq(S) /\ Len(s) \in Nat /\ DOMAIN s = 1 .. Len(s)
BY DEF IsSeq

LEMMA SeqFinite ==
  ASSUME NEW s, IsSeq(s)
  PROVE  IsFiniteSet(Range(s)) /\ Len(s) \in Nat
BY SeqIs DEF IsSeq

(* y lies in p after the first o units.                                    *)
Holds(p, o, y) ==
  o + Len(y) <= Len(p) /\ SubSeq(p, o + 1, o + Len(y)) = y

LEMMA SubSeqIs ==
  ASSUME NEW S, NEW p \in Seq(S), NEW y \in Seq(S), NEW o \in Nat,
         o + Len(y) <= Len(p), \A i \in 1 .. Len(y) : p[o + i] = y[i]
  PROVE  SubSeq(p, o + 1, o + Len(y)) = y
<1>1. PICK n \in Nat : n = Len(y)
  OBVIOUS
<1>2. PICK q : q = SubSeq(p, o + 1, o + n)
  OBVIOUS
<1>3. q \in Seq(S) /\ Len(q) = n /\ \A i \in 1 .. n : q[i] = p[o + i]
  BY <1>1, <1>2
<1>4. \A i \in 1 .. Len(q) : q[i] = y[i]
  BY <1>1, <1>3
<1>5. q = y
  BY ONLY <1>1, <1>3, <1>4, y \in Seq(S), SameSeq
<1> QED BY <1>1, <1>2, <1>5

LEMMA HeldLast ==
  ASSUME NEW S, NEW x \in Seq(S), NEW y \in Seq(S)
  PROVE  Holds(x \o y, Len(x), y)
<1>1. /\ x \o y \in Seq(S) /\ Len(x \o y) = Len(x) + Len(y) /\ Len(x) \in Nat
      /\ Len(y) \in Nat /\ \A i \in 1 .. Len(y) : (x \o y)[Len(x) + i] = y[i]
  BY Concatenated
<1>2. Len(x) + Len(y) <= Len(x \o y)
  BY <1>1
<1> QED BY ONLY <1>1, <1>2, y \in Seq(S), SubSeqIs DEF Holds

LEMMA HeldOn ==
  ASSUME NEW S, NEW p \in Seq(S), NEW z \in Seq(S), NEW y \in Seq(S), NEW o \in Nat,
         Holds(p, o, y)
  PROVE  Holds(p \o z, o, y)
<1>1. /\ p \o z \in Seq(S) /\ Len(p \o z) = Len(p) + Len(z) /\ Len(p) \in Nat
      /\ Len(z) \in Nat /\ Len(y) \in Nat
      /\ \A i \in 1 .. Len(p) : (p \o z)[i] = p[i]
  BY Concatenated
<1>2. o + Len(y) <= Len(p) /\ SubSeq(p, o + 1, o + Len(y)) = y
  BY DEF Holds
<1>3. ASSUME NEW i \in 1 .. Len(y) PROVE (p \o z)[o + i] = y[i]
  <2>1. SubSeq(p, o + 1, o + Len(y))[i] = p[o + i]
    BY <1>1, <1>2, <1>3
  <2>2. o + i \in 1 .. Len(p)
    BY <1>1, <1>2, <1>3
  <2> QED BY <1>1, <1>2, <2>1, <2>2
<1>4. o + Len(y) <= Len(p \o z)
  BY <1>1, <1>2
<1> QED BY ONLY <1>1, <1>3, <1>4, y \in Seq(S), o \in Nat, SubSeqIs DEF Holds

Shape(f) ==
  /\ f.there = TRUE /\ f.hsize \in Nat \ {0} /\ f.size \in [Sections -> Nat]
  /\ f.off = Layout(f.hsize, f.size) /\ IsSeq(f.bytes)
  /\ DOMAIN f = {"there", "scope", "flags", "hsize", "size", "off", "bytes"}

Written(f) ==
  f.hsize + f.size["meta"] + f.size["rec"] + f.size["edge"] + f.size["tb"]
    + f.size["exit"]

LEMMA WrittenIs ==
  ASSUME NEW f, f.hsize \in Nat, f.size \in [Sections -> Nat]
  PROVE  /\ f.hsize + MapThenSumSet(LAMBDA s : f.size[s], Sections) = Written(f)
         /\ Written(f) \in Nat
<1> DEFINE w == f.size
<1>1. /\ w["meta"] \in Nat /\ w["rec"] \in Nat /\ w["edge"] \in Nat
      /\ w["tb"] \in Nat /\ w["exit"] \in Nat
  BY DEF Sections
<1>2. MapThenSumSet(LAMBDA s : f.size[s], Sections) = SumOver(w, Sections)
  BY DEF SumOver
<1>3. Weighs(w, Sections)
  <2>1. IsFiniteSet({"meta"} \union {"rec"} \union {"edge"} \union {"tb"} \union {"exit"})
    BY FS_Singleton, FS_Union
  <2>2. {"meta"} \union {"rec"} \union {"edge"} \union {"tb"} \union {"exit"} = Sections
    BY DEF Sections
  <2> QED BY <2>1, <2>2 DEF Weighs
<1>4. PICK k, h : k = w /\ h = f.hsize
  OBVIOUS
<1> HIDE DEF w
<1>5. SumOver(k, Sections) = k["meta"] + SumOver(k, {"rec", "edge", "tb", "exit"})
  <2>1. Sections \ {"meta"} = {"rec", "edge", "tb", "exit"} /\ "meta" \in Sections
    BY DEF Sections
  <2> QED BY <1>3, <1>4, <2>1, SumTake
<1>6. /\ Weighs(k, {"rec", "edge", "tb", "exit"})
      /\ Weighs(k, {"edge", "tb", "exit"}) /\ Weighs(k, {"tb", "exit"})
      /\ Weighs(k, {"exit"})
  <2>1. /\ {"rec", "edge", "tb", "exit"} \in SUBSET Sections
        /\ {"edge", "tb", "exit"} \in SUBSET Sections
        /\ {"tb", "exit"} \in SUBSET Sections /\ {"exit"} \in SUBSET Sections
    BY DEF Sections
  <2> QED BY <1>3, <1>4, <2>1, FS_Subset DEF Weighs
<1>7. SumOver(k, {"rec", "edge", "tb", "exit"})
        = k["rec"] + SumOver(k, {"edge", "tb", "exit"})
  <2>1. {"rec", "edge", "tb", "exit"} \ {"rec"} = {"edge", "tb", "exit"}
    OBVIOUS
  <2> QED BY <1>6, <2>1, SumTake
<1>8. SumOver(k, {"edge", "tb", "exit"}) = k["edge"] + SumOver(k, {"tb", "exit"})
  <2>1. {"edge", "tb", "exit"} \ {"edge"} = {"tb", "exit"}
    OBVIOUS
  <2> QED BY <1>6, <2>1, SumTake
<1>9. SumOver(k, {"tb", "exit"}) = k["tb"] + SumOver(k, {"exit"})
  <2>1. {"tb", "exit"} \ {"tb"} = {"exit"}
    OBVIOUS
  <2> QED BY <1>6, <2>1, SumTake
<1>10. SumOver(k, {"exit"}) = k["exit"] + SumOver(k, {})
  <2>1. {"exit"} \ {"exit"} = {}
    OBVIOUS
  <2> QED BY <1>6, <2>1, SumTake
<1>11. SumOver(k, {}) = 0
  BY SumEmpty
<1>12. /\ SumOver(k, Sections) =
            k["meta"] + (k["rec"] + (k["edge"] + (k["tb"] + (k["exit"] + 0))))
  BY ONLY <1>5, <1>7, <1>8, <1>9, <1>10, <1>11, Zenon
<1>13. h \in Nat /\ k["meta"] \in Nat /\ k["rec"] \in Nat /\ k["edge"] \in Nat
       /\ k["tb"] \in Nat /\ k["exit"] \in Nat
  BY <1>1, <1>4
<1>14. Written(f) = h + k["meta"] + k["rec"] + k["edge"] + k["tb"] + k["exit"]
  BY <1>4 DEF Written, w
<1> QED BY ONLY <1>2, <1>4, <1>12, <1>13, <1>14

LEMMA LayoutIs ==
  ASSUME NEW f, Shape(f)
  PROVE  /\ f.off["meta"] = f.hsize
         /\ f.off["rec"] = f.hsize + f.size["meta"]
         /\ f.off["edge"] = IF f.size["edge"] = 0 THEN 0
                            ELSE f.hsize + f.size["meta"] + f.size["rec"]
         /\ f.off["tb"] = f.hsize + f.size["meta"] + f.size["rec"] + f.size["edge"]
         /\ f.off["exit"] = f.hsize + f.size["meta"] + f.size["rec"]
                              + f.size["edge"] + f.size["tb"]
         /\ \A s \in Sections : f.off[s] \in Nat /\ f.size[s] \in Nat
<1>1. /\ f.size["meta"] \in Nat /\ f.size["rec"] \in Nat /\ f.size["edge"] \in Nat
      /\ f.size["tb"] \in Nat /\ f.size["exit"] \in Nat /\ f.hsize \in Nat
      /\ \A s \in Sections : f.size[s] \in Nat
  BY DEF Shape, Sections
<1>2. /\ f.off["meta"] = f.hsize
      /\ f.off["rec"] = f.hsize + f.size["meta"]
      /\ f.off["edge"] = IF f.size["edge"] = 0 THEN 0
                         ELSE f.hsize + f.size["meta"] + f.size["rec"]
      /\ f.off["tb"] = f.hsize + f.size["meta"] + f.size["rec"] + f.size["edge"]
      /\ f.off["exit"] = f.hsize + f.size["meta"] + f.size["rec"]
                           + f.size["edge"] + f.size["tb"]
  BY DEF Shape, Layout, Sections
<1>3. \A s \in Sections : f.off[s] \in Nat
  <2> SUFFICES ASSUME NEW s \in Sections PROVE f.off[s] \in Nat
    OBVIOUS
  <2>1. s \in {"meta", "rec", "edge", "tb", "exit"}
    BY DEF Sections
  <2> QED BY <1>1, <1>2, <2>1
<1> QED BY <1>1, <1>2, <1>3

(* A file that lacks something lacks some of a section it says it has.     *)
LEMMA UnfinishedRefused ==
  ASSUME NEW f, Shape(f), Len(f.bytes) < Written(f)
  PROVE  ~ParseHeader(f)
<1> SUFFICES ASSUME ParseHeader(f) PROVE FALSE
  OBVIOUS
<1>1. /\ Len(f.bytes) \in Nat /\ Len(f.bytes) >= f.hsize /\ f.hsize \in Nat
      /\ \A s \in Sections : f.size[s] # 0 => f.size[s] <= Len(f.bytes) - f.off[s]
  BY SeqFinite DEF Shape, ParseHeader
<1>2. /\ f.size["meta"] # 0 => f.size["meta"] <= Len(f.bytes) - f.off["meta"]
      /\ f.size["rec"] # 0 => f.size["rec"] <= Len(f.bytes) - f.off["rec"]
      /\ f.size["edge"] # 0 => f.size["edge"] <= Len(f.bytes) - f.off["edge"]
      /\ f.size["tb"] # 0 => f.size["tb"] <= Len(f.bytes) - f.off["tb"]
      /\ f.size["exit"] # 0 => f.size["exit"] <= Len(f.bytes) - f.off["exit"]
  BY <1>1 DEF Sections
<1>3. PICK h, m, r, e, t, x, n :
        /\ h = f.hsize /\ m = f.size["meta"] /\ r = f.size["rec"]
        /\ e = f.size["edge"] /\ t = f.size["tb"] /\ x = f.size["exit"]
        /\ n = Len(f.bytes)
  OBVIOUS
<1>4. /\ h \in Nat /\ m \in Nat /\ r \in Nat /\ e \in Nat /\ t \in Nat
      /\ x \in Nat /\ n \in Nat
  <2>1. f.size \in [Sections -> Nat]
    BY DEF Shape
  <2> QED BY <1>1, <1>3, <2>1 DEF Sections
<1>5. /\ m # 0 => m <= n - h
      /\ r # 0 => r <= n - (h + m)
      /\ e # 0 => e <= n - (h + m + r)
      /\ t # 0 => t <= n - (h + m + r + e)
      /\ x # 0 => x <= n - (h + m + r + e + t)
      /\ h <= n
  BY <1>1, <1>2, <1>3, LayoutIs
<1>6. n < h + m + r + e + t + x
  BY <1>3 DEF Written
<1> QED BY ONLY <1>4, <1>5, <1>6

LEMMA FinishedAccepted ==
  ASSUME NEW f, Shape(f), Len(f.bytes) = Written(f)
  PROVE  ParseHeader(f)
<1>1. PICK h, m, r, e, t, x, n :
        /\ h = f.hsize /\ m = f.size["meta"] /\ r = f.size["rec"]
        /\ e = f.size["edge"] /\ t = f.size["tb"] /\ x = f.size["exit"]
        /\ n = Len(f.bytes)
  OBVIOUS
<1>2. /\ h \in Nat /\ m \in Nat /\ r \in Nat /\ e \in Nat /\ t \in Nat
      /\ x \in Nat /\ n \in Nat
  <2>1. f.size \in [Sections -> Nat] /\ f.hsize \in Nat /\ Len(f.bytes) \in Nat
    BY SeqFinite DEF Shape
  <2> QED BY <1>1, <2>1 DEF Sections
<1>3. n = h + m + r + e + t + x
  BY <1>1 DEF Written
<1>4. /\ f.off["meta"] = h /\ f.off["rec"] = h + m
      /\ e # 0 => f.off["edge"] = h + m + r
      /\ f.off["tb"] = h + m + r + e /\ f.off["exit"] = h + m + r + e + t
  BY <1>1, LayoutIs
<1> DEFINE Within(o, k) == o >= h /\ o <= n /\ k <= n - o
<1>5. /\ Within(h, m) /\ Within(h + m, r) /\ Within(h + m + r, e)
      /\ Within(h + m + r + e, t) /\ Within(h + m + r + e + t, x)
  BY ONLY <1>2, <1>3
<1> HIDE DEF Within
<1>6. \A s \in Sections : f.size[s] # 0 => Within(f.off[s], f.size[s])
  <2> SUFFICES ASSUME NEW s \in Sections, f.size[s] # 0
               PROVE  Within(f.off[s], f.size[s])
    OBVIOUS
  <2>1. s \in {"meta", "rec", "edge", "tb", "exit"}
    BY DEF Sections
  <2> QED BY <1>1, <1>4, <1>5, <2>1
<1>7. n >= h
  BY <1>2, <1>3
<1> QED BY <1>1, <1>6, <1>7 DEF ParseHeader, Within

(* The sections of a file as it is written are where its header says.      *)
Apart(S, b, h, m, r, e, t, x) ==
  /\ b \in Seq(S)
  /\ Len(b) = Len(h) + Len(m) + Len(r) + Len(e) + Len(t) + Len(x)
  /\ Holds(b, Len(h), m)
  /\ Holds(b, Len(h) + Len(m), r)
  /\ Holds(b, Len(h) + Len(m) + Len(r), e)
  /\ Holds(b, Len(h) + Len(m) + Len(r) + Len(e), t)
  /\ Holds(b, Len(h) + Len(m) + Len(r) + Len(e) + Len(t), x)

LEMMA Stacked ==
  ASSUME NEW S, NEW h \in Seq(S), NEW m \in Seq(S), NEW r \in Seq(S),
         NEW e \in Seq(S), NEW t \in Seq(S), NEW x \in Seq(S),
         NEW b, b = h \o m \o r \o e \o t \o x
  PROVE  Apart(S, b, h, m, r, e, t, x)
<1>1. PICK p1, p2, p3, p4 :
        p1 = h \o m /\ p2 = p1 \o r /\ p3 = p2 \o e /\ p4 = p3 \o t
  OBVIOUS
<1>2. b = p4 \o x
  BY <1>1
<1>3. p1 \in Seq(S) /\ Len(p1) = Len(h) + Len(m)
  BY ONLY <1>1, h \in Seq(S), m \in Seq(S), Concatenated
<1>4. p2 \in Seq(S) /\ Len(p2) = Len(p1) + Len(r)
  BY ONLY <1>1, <1>3, r \in Seq(S), Concatenated
<1>5. p3 \in Seq(S) /\ Len(p3) = Len(p2) + Len(e)
  BY ONLY <1>1, <1>4, e \in Seq(S), Concatenated
<1>6. p4 \in Seq(S) /\ Len(p4) = Len(p3) + Len(t)
  BY ONLY <1>1, <1>5, t \in Seq(S), Concatenated
<1>7. b \in Seq(S) /\ Len(b) = Len(p4) + Len(x)
  BY ONLY <1>2, <1>6, x \in Seq(S), Concatenated
<1>8. /\ Len(h) \in Nat /\ Len(m) \in Nat /\ Len(r) \in Nat /\ Len(e) \in Nat
      /\ Len(t) \in Nat /\ Len(x) \in Nat /\ Len(p1) \in Nat /\ Len(p2) \in Nat
      /\ Len(p3) \in Nat /\ Len(p4) \in Nat
  BY ONLY <1>3, <1>4, <1>5, <1>6, h \in Seq(S), m \in Seq(S), r \in Seq(S),
          e \in Seq(S), t \in Seq(S), x \in Seq(S)
<1>9. Holds(b, Len(h), m)
  <2>1. Holds(p1, Len(h), m)
    BY ONLY <1>1, h \in Seq(S), m \in Seq(S), HeldLast
  <2>2. Holds(p2, Len(h), m)
    BY ONLY <1>1, <1>3, <1>8, <2>1, m \in Seq(S), r \in Seq(S), HeldOn
  <2>3. Holds(p3, Len(h), m)
    BY ONLY <1>1, <1>4, <1>8, <2>2, m \in Seq(S), e \in Seq(S), HeldOn
  <2>4. Holds(p4, Len(h), m)
    BY ONLY <1>1, <1>5, <1>8, <2>3, m \in Seq(S), t \in Seq(S), HeldOn
  <2> QED BY ONLY <1>2, <1>6, <1>8, <2>4, m \in Seq(S), x \in Seq(S), HeldOn
<1>10. Holds(b, Len(p1), r)
  <2>1. Holds(p2, Len(p1), r)
    BY ONLY <1>1, <1>3, r \in Seq(S), HeldLast
  <2>2. Holds(p3, Len(p1), r)
    BY ONLY <1>1, <1>4, <1>8, <2>1, r \in Seq(S), e \in Seq(S), HeldOn
  <2>3. Holds(p4, Len(p1), r)
    BY ONLY <1>1, <1>5, <1>8, <2>2, r \in Seq(S), t \in Seq(S), HeldOn
  <2> QED BY ONLY <1>2, <1>6, <1>8, <2>3, r \in Seq(S), x \in Seq(S), HeldOn
<1>11. Holds(b, Len(p2), e)
  <2>1. Holds(p3, Len(p2), e)
    BY ONLY <1>1, <1>4, e \in Seq(S), HeldLast
  <2>2. Holds(p4, Len(p2), e)
    BY ONLY <1>1, <1>5, <1>8, <2>1, e \in Seq(S), t \in Seq(S), HeldOn
  <2> QED BY ONLY <1>2, <1>6, <1>8, <2>2, e \in Seq(S), x \in Seq(S), HeldOn
<1>12. Holds(b, Len(p3), t)
  <2>1. Holds(p4, Len(p3), t)
    BY ONLY <1>1, <1>5, t \in Seq(S), HeldLast
  <2> QED BY ONLY <1>2, <1>6, <1>8, <2>1, t \in Seq(S), x \in Seq(S), HeldOn
<1>13. Holds(b, Len(p4), x)
  BY ONLY <1>2, <1>6, x \in Seq(S), HeldLast
<1>14. /\ Len(p1) = Len(h) + Len(m)
       /\ Len(p2) = Len(h) + Len(m) + Len(r)
       /\ Len(p3) = Len(h) + Len(m) + Len(r) + Len(e)
       /\ Len(p4) = Len(h) + Len(m) + Len(r) + Len(e) + Len(t)
  BY ONLY <1>3, <1>4, <1>5, <1>6, Zenon
<1> QED
  BY ONLY <1>7, <1>9, <1>10, <1>11, <1>12, <1>13, <1>14, Zenon DEF Apart

Body(b) == \A s \in Sections : IsSeq(b[s])

LEMMA FileParts ==
  ASSUME NEW flags, NEW b, NEW scope, Body(b), NEW f, f = File(flags, b, scope)
  PROVE  /\ Shape(f) /\ f.flags = flags /\ f.scope = scope
         /\ Len(f.bytes) = Written(f)
         /\ \A s \in Sections : Part(f, s) = b[s] /\ f.size[s] = Len(b[s])
<1> DEFINE n == IF flags.table THEN 2 ELSE 1
           head == [i \in 1 .. n |-> Word("header")]
           S == {Word("header")} \union UNION {Range(b[s]) : s \in Sections}
<1>1. /\ f.there = TRUE /\ f.flags = flags /\ f.scope = scope /\ f.hsize = n
      /\ f.size = [s \in Sections |-> Len(b[s])]
      /\ f.off = Layout(f.hsize, f.size)
      /\ DOMAIN f = {"there", "scope", "flags", "hsize", "size", "off", "bytes"}
      /\ f.bytes = head \o b["meta"] \o b["rec"] \o b["edge"] \o b["tb"] \o b["exit"]
  BY DEF File
<1>2. head \in Seq(S) /\ Len(head) = n /\ n \in Nat \ {0}
  <2>1. n \in Nat \ {0}
    OBVIOUS
  <2>2. Word("header") \in S
    OBVIOUS
  <2> HIDE DEF n, S
  <2>3. head \in [1 .. n -> S]
    BY <2>2
  <2> HIDE DEF head
  <2> QED BY <2>1, <2>3, LenOf
<1>3. \A s \in Sections : b[s] \in Seq(S) /\ Len(b[s]) \in Nat
  <2> SUFFICES ASSUME NEW s \in Sections PROVE b[s] \in Seq(S) /\ Len(b[s]) \in Nat
    OBVIOUS
  <2>1. IsSeq(b[s]) /\ Range(b[s]) \subseteq S
    BY DEF Body
  <2> HIDE DEF S
  <2> QED BY <2>1, SeqIn
<1> HIDE DEF head, S, n
<1>4. PICK m, r, e, t, x :
        m = b["meta"] /\ r = b["rec"] /\ e = b["edge"] /\ t = b["tb"] /\ x = b["exit"]
  OBVIOUS
<1>5. /\ m \in Seq(S) /\ r \in Seq(S) /\ e \in Seq(S) /\ t \in Seq(S) /\ x \in Seq(S)
      /\ Len(m) \in Nat /\ Len(r) \in Nat /\ Len(e) \in Nat /\ Len(t) \in Nat
      /\ Len(x) \in Nat
  BY <1>3, <1>4 DEF Sections
<1>6. f.bytes = head \o m \o r \o e \o t \o x
  BY ONLY <1>1, <1>4, Zenon
<1>7. PICK h, p : h = head /\ p = f.bytes
  OBVIOUS
<1>8. /\ f.bytes \in Seq(S)
      /\ Len(f.bytes) = Len(head) + Len(m) + Len(r) + Len(e) + Len(t) + Len(x)
      /\ Holds(f.bytes, Len(head), m)
      /\ Holds(f.bytes, Len(head) + Len(m), r)
      /\ Holds(f.bytes, Len(head) + Len(m) + Len(r), e)
      /\ Holds(f.bytes, Len(head) + Len(m) + Len(r) + Len(e), t)
      /\ Holds(f.bytes, Len(head) + Len(m) + Len(r) + Len(e) + Len(t), x)
  <2>1. h \in Seq(S) /\ p = h \o m \o r \o e \o t \o x
    BY <1>7, <1>2, <1>6
  <2>2. Apart(S, p, h, m, r, e, t, x)
    BY ONLY <1>5, <2>1, Stacked
  <2> QED BY <1>7, <2>2, Zenon DEF Apart
<1>9. f.size \in [Sections -> Nat] /\ \A s \in Sections : f.size[s] = Len(b[s])
  BY <1>1, <1>3
<1>10. Shape(f)
  BY <1>1, <1>2, <1>8, <1>9, SeqIs DEF Shape
<1>11. /\ f.size["meta"] = Len(m) /\ f.size["rec"] = Len(r) /\ f.size["edge"] = Len(e)
       /\ f.size["tb"] = Len(t) /\ f.size["exit"] = Len(x) /\ f.hsize = Len(head)
  BY <1>1, <1>2, <1>4, <1>9 DEF Sections
<1>12. Len(f.bytes) = Written(f)
  BY ONLY <1>8, <1>11, Zenon DEF Written
<1>14. Part(f, "meta") = m
  <2>1. f.off["meta"] = Len(head) /\ f.size["meta"] = Len(m)
    BY <1>10, <1>11, LayoutIs
  <2> QED BY ONLY <1>8, <2>1, Zenon DEF Part, Holds
<1>15. Part(f, "rec") = r
  <2>1. f.off["rec"] = Len(head) + Len(m) /\ f.size["rec"] = Len(r)
    BY <1>10, <1>11, LayoutIs
  <2> QED BY ONLY <1>8, <2>1, Zenon DEF Part, Holds
<1>16. Part(f, "edge") = e
  <2>1. CASE Len(e) = 0
    <3>1. f.off["edge"] = 0 /\ f.size["edge"] = 0
      BY <1>10, <1>11, <2>1, LayoutIs
    <3>2. e = <<>>
      BY <1>5, <2>1
    <3>3. SubSeq(f.bytes, 0 + 1, 0 + 0) = <<>>
      BY <1>8
    <3> QED BY <3>1, <3>2, <3>3, Zenon DEF Part
  <2>2. CASE Len(e) # 0
    <3>1. /\ f.off["edge"] = Len(head) + Len(m) + Len(r)
          /\ f.size["edge"] = Len(e)
      BY <1>10, <1>11, <2>2, LayoutIs
    <3> QED BY ONLY <1>8, <3>1, Zenon DEF Part, Holds
  <2> QED BY <2>1, <2>2
<1>17. Part(f, "tb") = t
  <2>1. /\ f.off["tb"] = Len(head) + Len(m) + Len(r) + Len(e)
        /\ f.size["tb"] = Len(t)
    BY <1>10, <1>11, LayoutIs
  <2> QED BY ONLY <1>8, <2>1, Zenon DEF Part, Holds
<1>18. Part(f, "exit") = x
  <2>1. /\ f.off["exit"] = Len(head) + Len(m) + Len(r) + Len(e) + Len(t)
        /\ f.size["exit"] = Len(x)
    BY <1>10, <1>11, LayoutIs
  <2> QED BY ONLY <1>8, <2>1, Zenon DEF Part, Holds
<1>19. \A s \in Sections : Part(f, s) = b[s]
  BY ONLY <1>4, <1>14, <1>15, <1>16, <1>17, <1>18 DEF Sections
<1> QED BY ONLY <1>1, <1>9, <1>10, <1>12, <1>19

(* A set written out is all in the file.                                   *)
LEMMA SetSeq ==
  ASSUME NEW S, IsFiniteSet(S)
  PROVE  IsSeq(SetToSeq(S)) /\ Range(SetToSeq(S)) = S
<1>1. PICK n : n = Cardinality(S)
  OBVIOUS
<1>2. n \in Nat /\ ExistsBijection(1 .. n, S)
  BY <1>1, FS_CardinalityType
<1>3. \E g \in [1 .. n -> S] : IsInjective(g)
  BY <1>2 DEF ExistsBijection, Bijection, Injection
<1>4. PICK s : s = SetToSeq(S)
  OBVIOUS
<1>5. s \in [1 .. n -> S] /\ IsInjective(s)
  BY <1>1, <1>3, <1>4 DEF SetToSeq
<1>6. IsFiniteSet(1 .. n) /\ Cardinality(1 .. n) = n
  BY <1>2, FS_Interval
<1>7. s \in Injection(1 .. n, S)
  BY <1>5 DEF Injection
<1>8. s \in Surjection(1 .. n, S)
  BY <1>1, <1>6, <1>7, FS_Injection
<1>9. s \in Seq(S)
  BY ONLY <1>2, <1>5, LenOf
<1>10. Range(s) = S
  BY <1>5, <1>8 DEF Surjection, Range
<1> QED BY <1>4, <1>9, <1>10 DEF IsSeq

LEMMA AddrFinite ==
  IsFiniteSet(Addr) /\ Addr \subseteq Nat /\ 0 \in Addr /\ IsFiniteSet(Ctxs \X Addr)
<1> DEFINE e == [code \in Codes |-> End(code)]
           S == {End(code) : code \in Codes}
<1>1. {e[code] : code \in Codes} = S
  OBVIOUS
<1>2. IsFiniteSet(S)
  <2> HIDE DEF e
  <2>1. IsFiniteSet({e[code] : code \in Codes})
    BY ImageFinite, TbTableAssumption
  <2> QED BY <1>1, <2>1
<1>3. S \in SUBSET Nat /\ S # {}
  BY EndOfCode, TbTableAssumption
<1>4. Max(S) \in Nat
  <2> HIDE DEF S
  <2> QED BY <1>2, <1>3, MaxExists
<1>5. PICK lo \in Int, hi \in Int : lo = 0 /\ hi = Max(S)
  <2>1. Max(S) \in Int /\ 0 \in Int
    BY <1>4
  <2> QED BY <2>1, Zenon
<1>6. IsFiniteSet(lo .. hi) /\ Addr = lo .. hi
  BY ONLY <1>5, FS_Interval DEF Addr
<1>7. Addr \subseteq Nat /\ 0 \in Addr
  BY <1>4, <1>5, <1>6
<1>8. IsFiniteSet(Addr)
  BY <1>6
<1>9. IsFiniteSet(Ctxs \X Addr)
  BY <1>8, FS_Product, TbTableAssumption
<1> QED BY <1>7, <1>8, <1>9

RecSet(recs) == {Unit("rec", r[1], r[2], 0, r[3]) : r \in recs}
EdgeSet(es)  == {Unit("edge", e[1], e[2], e[3], e[4]) : e \in es}

LEMMA UnitsAre ==
  ASSUME NEW S, IsFiniteSet(S)
  PROVE  /\ IsSeq(RecUnits(S)) /\ Range(RecUnits(S)) = RecSet(S)
         /\ IsSeq(EdgeUnits(S)) /\ Range(EdgeUnits(S)) = EdgeSet(S)
         /\ IsSeq(ExitUnits(S))
<1> DEFINE r == [x \in S |-> Unit("rec", x[1], x[2], 0, x[3])]
           e == [x \in S |-> Unit("edge", x[1], x[2], x[3], x[4])]
           l == [x \in S |-> Unit("exit", x.index, x.start, x.pc, x.count)]
<1>1. /\ {r[x] : x \in S} = RecSet(S) /\ {e[x] : x \in S} = EdgeSet(S)
      /\ {l[x] : x \in S}
           = {Unit("exit", x.index, x.start, x.pc, x.count) : x \in S}
  BY Zenon DEF RecSet, EdgeSet
<1> HIDE DEF r, e, l
<1>2. /\ IsFiniteSet(RecSet(S)) /\ IsFiniteSet(EdgeSet(S))
      /\ IsFiniteSet({Unit("exit", x.index, x.start, x.pc, x.count) : x \in S})
  <2>1. /\ IsFiniteSet({r[x] : x \in S}) /\ IsFiniteSet({e[x] : x \in S})
        /\ IsFiniteSet({l[x] : x \in S})
    BY ImageFinite
  <2> QED BY <1>1, <2>1, Zenon
<1>3. /\ RecUnits(S) = SetToSeq(RecSet(S)) /\ EdgeUnits(S) = SetToSeq(EdgeSet(S))
  BY DEF RecUnits, EdgeUnits, RecSet, EdgeSet
<1>4. ExitUnits(S)
        = SetToSeq({Unit("exit", x.index, x.start, x.pc, x.count) : x \in S})
  BY DEF ExitUnits
<1> QED BY <1>2, <1>3, <1>4, SetSeq

LEMMA PartIs ==
  ASSUME NEW f, Shape(f), ParseHeader(f), NEW s \in Sections
  PROVE  /\ IsSeq(Part(f, s)) /\ Len(Part(f, s)) = f.size[s]
         /\ Range(Part(f, s)) \subseteq Range(f.bytes)
<1>1. PICK p, o, n, S : p = f.bytes /\ o = f.off[s] /\ n = f.size[s] /\ S = Range(p)
  OBVIOUS
<1>2. o \in Nat /\ n \in Nat /\ p \in Seq(S) /\ Len(p) \in Nat
  BY <1>1, LayoutIs, SeqFinite DEF Shape, IsSeq
<1>3. n # 0 => o + n <= Len(p)
  BY <1>1, <1>2 DEF ParseHeader
<1>4. PICK q : q = SubSeq(p, o + 1, o + n)
  OBVIOUS
<1>5. q \in Seq(S) /\ Len(q) = n
  <2>1. CASE n = 0
    <3>1. q = <<>>
      BY <1>2, <1>4, <2>1
    <3> QED BY <2>1, <3>1
  <2>2. CASE n # 0
    BY <1>2, <1>3, <1>4, <2>2
  <2> QED BY <2>1, <2>2
<1>6. IsSeq(q) /\ Range(q) \subseteq S
  BY ONLY <1>5, SeqIs
<1> QED BY <1>1, <1>4, <1>5, <1>6 DEF Part

Complete(f) == Shape(f) /\ Len(f.bytes) = Written(f)

Tagged(S)  == {<<None, r[1], r[2]>> : r \in S}
TaggedE(S) == {<<None, e[1], e[2], e[3]>> : e \in S}

LEMMA TaggedFinite ==
  ASSUME NEW S, IsFiniteSet(S)
  PROVE  IsFiniteSet(Tagged(S)) /\ IsFiniteSet(TaggedE(S))
<1> DEFINE g == [r \in S |-> <<None, r[1], r[2]>>]
           h == [e \in S |-> <<None, e[1], e[2], e[3]>>]
<1>1. {g[x] : x \in S} = Tagged(S) /\ {h[x] : x \in S} = TaggedE(S)
  BY Zenon DEF Tagged, TaggedE
<1>2. IsFiniteSet({g[x] : x \in S}) /\ IsFiniteSet({h[x] : x \in S})
  BY ImageFinite
<1> QED BY <1>1, <1>2, Zenon

LEMMA WriteCovIs ==
  ASSUME NEW meta, IsSeq(meta), NEW recs, IsFiniteSet(recs), NEW es, IsFiniteSet(es),
         NEW type, NEW scope, NEW f, f = WriteCov(meta, recs, es, type, scope)
  PROVE  /\ Complete(f) /\ f.scope = scope
         /\ f.flags = [type |-> type, counts |-> TRUE, ctx |-> FALSE,
                       table |-> FALSE, edges |-> es # {}]
         /\ Part(f, "meta") = meta
         /\ Range(Part(f, "rec")) = RecSet(Tagged(recs))
         /\ Range(Part(f, "edge")) = EdgeSet(TaggedE(es))
<1> DEFINE flags == [type |-> type, counts |-> TRUE, ctx |-> FALSE,
                     table |-> FALSE, edges |-> es # {}]
           b == [meta |-> meta, rec |-> RecUnits(Tagged(recs)),
                 edge |-> EdgeUnits(TaggedE(es)), tb |-> <<>>, exit |-> <<>>]
<1>1. f = File(flags, b, scope)
  BY Zenon DEF WriteCov, Tagged, TaggedE
<1>2. /\ IsSeq(RecUnits(Tagged(recs))) /\ IsSeq(EdgeUnits(TaggedE(es)))
      /\ Range(RecUnits(Tagged(recs))) = RecSet(Tagged(recs))
      /\ Range(EdgeUnits(TaggedE(es))) = EdgeSet(TaggedE(es))
  BY TaggedFinite, UnitsAre
<1>3. IsSeq(<<>>)
  BY DEF IsSeq
<1>4. Body(b)
  <2> SUFFICES ASSUME NEW s \in Sections PROVE IsSeq(b[s])
    BY DEF Body
  <2>1. s \in {"meta", "rec", "edge", "tb", "exit"}
    BY DEF Sections
  <2> QED BY <1>2, <1>3, <2>1
<1>5. /\ b["meta"] = meta /\ b["rec"] = RecUnits(Tagged(recs))
      /\ b["edge"] = EdgeUnits(TaggedE(es))
  OBVIOUS
<1> HIDE DEF b, flags
<1>6. /\ Shape(f) /\ f.flags = flags /\ f.scope = scope
      /\ Len(f.bytes) = Written(f) /\ \A s \in Sections : Part(f, s) = b[s]
  BY <1>1, <1>4, FileParts
<1> QED BY <1>2, <1>5, <1>6 DEF Complete, Sections, flags

LEMMA WriteCovComplete ==
  ASSUME NEW meta, IsSeq(meta), NEW recs, IsFiniteSet(recs), NEW es, IsFiniteSet(es),
         NEW type, NEW scope
  PROVE  Complete(WriteCov(meta, recs, es, type, scope))
BY WriteCovIs

LEMMA RecordsFinite ==
  ASSUME WalkInv, NEW f, Shape(f), ParseHeader(f)
  PROVE  IsFiniteSet(Records(f)) /\ IsFiniteSet(EdgesIn(f))
<1>1. IsFiniteSet(Records(f))
  <2> DEFINE D == {j \in DOMAIN out : out[j] > 0}
             R == Range(Part(f, "rec"))
             g == [k \in D |-> <<CtxOf(k[1]), k[2], out[k]>>]
             h == [u \in R |-> <<u[2], u[3], u[5]>>]
  <2>1. DOMAIN out = Ctxs \X Addr
    BY DEF WalkInv
  <2>2. IsFiniteSet(D)
    BY <2>1, AddrFinite, FS_Subset
  <2>3. IsFiniteSet(R)
    BY PartIs, SeqFinite DEF Sections
  <2>4. Records(f) = {g[k] : k \in D} \/ Records(f) = {h[u] : u \in R}
    <3>1. {g[k] : k \in D} = {<<CtxOf(k[1]), k[2], out[k]>> : k \in D}
      BY Zenon
    <3>2. {h[u] : u \in R} = {<<u[2], u[3], u[5]>> : u \in R}
      BY Zenon
    <3> QED BY <3>1, <3>2, Zenon DEF Records
  <2>5. IsFiniteSet({g[k] : k \in D}) /\ IsFiniteSet({h[u] : u \in R})
    <3> HIDE DEF g, h, D, R
    <3> QED BY <2>2, <2>3, ImageFinite
  <2> QED BY <2>4, <2>5, Zenon
<1>2. IsFiniteSet(EdgesIn(f))
  <2> DEFINE R == Range(Part(f, "edge"))
             h == [u \in R |-> <<u[2], u[3], u[4], u[5]>>]
  <2>1. IsFiniteSet(R)
    BY PartIs, SeqFinite DEF Sections
  <2>2. EdgesIn(f) = {h[u] : u \in R} \/ EdgesIn(f) = {}
    BY Zenon DEF EdgesIn
  <2>3. IsFiniteSet({h[u] : u \in R}) /\ IsFiniteSet({})
    <3> HIDE DEF h, R
    <3> QED BY <2>1, ImageFinite, FS_EmptySet
  <2> QED BY <2>2, <2>3, Zenon
<1> QED BY <1>1, <1>2

LEMMA SelectedIn == \A rows, c : Selected(rows, c) \subseteq rows
BY DEF Selected

LEMMA AllFinite ==
  ASSUME WalkInv, NEW f, Shape(f), ParseHeader(f), NEW c
  PROVE  IsFiniteSet(AllRecs(f, c)) /\ IsFiniteSet(AllEdges(f, c))
<1> DEFINE S == Selected(Records(f), c)
           E == Selected(EdgesIn(f), c)
           x == [r \in S |-> r[2]]
           X == {r[2] : r \in S}
           n == [y \in X |-> <<y, AllCount(f, c, y)>>]
           p == [e \in E |-> <<e[2], e[3]>>]
           P == {<<e[2], e[3]>> : e \in E}
           N(k) == SumFunctionOnSet([e \in E |-> e[4]],
                                    {e \in E : e[2] = k[1] /\ e[3] = k[2]})
           m == [k \in P |-> <<k[1], k[2], N(k)>>]
<1>1. IsFiniteSet(S) /\ IsFiniteSet(E)
  BY RecordsFinite, SelectedIn, FS_Subset
<1>2. /\ AllRecs(f, c) = {<<y, AllCount(f, c, y)>> : y \in X}
      /\ AllEdges(f, c) = {<<k[1], k[2], N(k)>> : k \in P}
  BY DEF AllRecs, AllEdges
<1>3. {x[r] : r \in S} = X /\ {p[e] : e \in E} = P
  BY Zenon
<1>4. IsFiniteSet(X) /\ IsFiniteSet(P)
  <2> HIDE DEF x, S, p, E
  <2>1. IsFiniteSet({x[r] : r \in S}) /\ IsFiniteSet({p[e] : e \in E})
    BY <1>1, ImageFinite
  <2> QED BY <1>3, <2>1, Zenon
<1>5. /\ {n[y] : y \in X} = {<<y, AllCount(f, c, y)>> : y \in X}
      /\ {m[k] : k \in P} = {<<k[1], k[2], N(k)>> : k \in P}
  <2> HIDE DEF X, P, N
  <2> QED BY Zenon
<1> HIDE DEF n, m, X, P, N
<1>6. IsFiniteSet({n[y] : y \in X}) /\ IsFiniteSet({m[k] : k \in P})
  BY <1>4, ImageFinite
<1> QED BY <1>2, <1>5, <1>6, Zenon

LEMMA WindowFinite ==
  ASSUME WalkInv, NEW f, Shape(f), ParseHeader(f), NEW c, NEW lo, NEW hi, NEW delta,
         NEW w, w = Window(f, c, lo, hi, delta)
  PROVE  IsFiniteSet(w.recs) /\ IsFiniteSet(w.edges)
<1> DEFINE In(x) == lo <= x /\ x < hi
           R == {q \in AllRecs(f, c) : In(q[1])}
           E == {q \in AllEdges(f, c) : In(q[1]) /\ In(q[2])}
           g == [r \in R |-> <<r[1] + delta, r[2]>>]
           h == [e \in E |-> <<e[1] + delta, e[2] + delta, e[3]>>]
<1>1. /\ w.recs = {<<r[1] + delta, r[2]>> : r \in R}
      /\ w.edges = {<<e[1] + delta, e[2] + delta, e[3]>> : e \in E}
  BY DEF Window
<1>2. IsFiniteSet(R) /\ IsFiniteSet(E)
  <2>1. R \in SUBSET AllRecs(f, c) /\ E \in SUBSET AllEdges(f, c)
    OBVIOUS
  <2> HIDE DEF R, E
  <2> QED BY <2>1, AllFinite, FS_Subset
<1> HIDE DEF R, E
<1>3. /\ {g[r] : r \in R} = {<<r[1] + delta, r[2]>> : r \in R}
      /\ {h[e] : e \in E} = {<<e[1] + delta, e[2] + delta, e[3]>> : e \in E}
  BY Zenon
<1> HIDE DEF g, h
<1>4. IsFiniteSet({g[r] : r \in R}) /\ IsFiniteSet({h[e] : e \in E})
  BY <1>2, ImageFinite
<1> QED BY <1>1, <1>3, <1>4, Zenon

LEMMA AppendIs ==
  ASSUME NEW s, IsSeq(s), NEW u
  PROVE  IsSeq(Append(s, u)) /\ Range(Append(s, u)) = Range(s) \union {u}
<1>1. PICK q, S : q = Append(s, u) /\ S = Range(s) \union {u}
  OBVIOUS
<1>2. s \in Seq(S) /\ u \in S
  BY <1>1 DEF IsSeq
<1>3. q \in Seq(S) /\ DOMAIN q = 1 .. Len(s) + 1 /\ q[Len(s) + 1] = u
      /\ Len(s) \in Nat /\ DOMAIN s = 1 .. Len(s) /\ \A i \in 1 .. Len(s) : q[i] = s[i]
  BY <1>1, <1>2
<1>4. IsSeq(q) /\ Range(q) \subseteq S
  BY <1>3, SeqIs
<1>5. S \subseteq Range(q)
  <2> SUFFICES ASSUME NEW v \in S PROVE \E i \in DOMAIN q : q[i] = v
    BY DEF Range
  <2>1. CASE v = u
    BY <1>3, <2>1
  <2>2. CASE v \in Range(s)
    <3>1. PICK i \in DOMAIN s : s[i] = v
      BY <2>2 DEF Range
    <3>2. i \in DOMAIN q /\ q[i] = v
      BY <1>3, <3>1
    <3> QED BY <3>2
  <2> QED BY <1>1, <2>1, <2>2
<1> QED BY <1>1, <1>4, <1>5

LEMMA RebasedComplete ==
  ASSUME WalkInv, NEW f, Shape(f), ParseHeader(f), NEW c, NEW lo, NEW hi, NEW delta
  PROVE  Complete(Rebased(f, Window(f, c, lo, hi, delta)))
<1>1. PICK w : w = Window(f, c, lo, hi, delta)
  OBVIOUS
<1>2. IsFiniteSet(w.recs) /\ IsFiniteSet(w.edges)
  BY <1>1, WindowFinite
<1>3. PICK meta : meta = Append(Part(f, "meta"), Word("window"))
  OBVIOUS
<1>4. IsSeq(meta)
  BY <1>3, PartIs, AppendIs DEF Sections
<1>5. PICK g, t, R, E, s :
        /\ g = WriteCov(meta, R, E, t, s) /\ g = Rebased(f, w)
        /\ R = w.recs /\ E = w.edges
  BY <1>3 DEF Rebased
<1>6. IsFiniteSet(R) /\ IsFiniteSet(E)
  BY <1>2, <1>5
<1>7. Complete(WriteCov(meta, R, E, t, s))
  BY ONLY <1>4, <1>6, WriteCovComplete
<1> QED BY <1>1, <1>5, <1>7

LEMMA ScrubbedIs ==
  ASSUME NEW f, Shape(f), ParseHeader(f)
  PROVE  /\ Complete(Scrubbed(f)) /\ Scrubbed(f).flags = f.flags
         /\ Scrubbed(f).scope = f.scope
         /\ Range(Part(Scrubbed(f), "meta")) =
              (Range(Part(f, "meta")) \ {Word("dir")}) \union {Word("scrubbed")}
         /\ \A s \in Sections \ {"meta"} :
              Part(Scrubbed(f), s) = Part(f, s)
<1> DEFINE meta == Part(f, "meta")
           M == (Range(meta) \ {Word("dir")}) \union {Word("scrubbed")}
           b == [s \in Sections |-> IF s = "meta" THEN ScrubMeta(Part(f, s))
                                    ELSE Part(f, s)]
<1>1. PICK g : g = Scrubbed(f) /\ g = File(f.flags, b, f.scope)
  BY DEF Scrubbed
<1>2. \A s \in Sections : IsSeq(Part(f, s))
  BY PartIs
<1>3. IsFiniteSet(M)
  <2>1. IsFiniteSet(Range(meta))
    BY <1>2, SeqFinite DEF Sections
  <2>2. IsFiniteSet(Range(meta) \ {Word("dir")})
    <3>1. Range(meta) \ {Word("dir")} \in SUBSET Range(meta)
      OBVIOUS
    <3> HIDE DEF meta
    <3> QED BY <2>1, <3>1, FS_Subset
  <2> HIDE DEF meta
  <2> QED BY <2>2, FS_AddElement
<1>4. ScrubMeta(meta) = SetToSeq(M)
  BY DEF ScrubMeta
<1>5. IsSeq(ScrubMeta(meta)) /\ Range(ScrubMeta(meta)) = M
  <2> HIDE DEF M
  <2> QED BY <1>3, <1>4, SetSeq
<1>6. /\ \A s \in Sections : b[s] = IF s = "meta" THEN ScrubMeta(meta) ELSE Part(f, s)
      /\ Body(b)
  <2>1. \A s \in Sections : b[s] = IF s = "meta" THEN ScrubMeta(meta) ELSE Part(f, s)
    OBVIOUS
  <2> HIDE DEF b, meta
  <2> QED BY <1>2, <1>5, <2>1 DEF Body
<1> HIDE DEF b
<1>7. /\ Shape(g) /\ g.flags = f.flags /\ g.scope = f.scope
      /\ Len(g.bytes) = Written(g) /\ \A s \in Sections : Part(g, s) = b[s]
  BY <1>1, <1>6, FileParts
<1> QED BY <1>1, <1>5, <1>6, <1>7 DEF Complete, Sections

-----------------------------------------------------------------------------
(* No file that a tool left unfinished is read.  Every file is a part, cut *)
(* short or not, of one that was written whole.                            *)

Whole(w) == w.path \in Paths /\ Complete(w.file)

FilesInv ==
  /\ files = [p \in Paths |-> files[p]]
  /\ \A p \in Paths : files[p] = Absent \/ Shape(files[p])
  /\ IsSeq(writing) /\ \A i \in DOMAIN writing : Whole(writing[i])

LEMMA ReadableIs ==
  ASSUME FilesInv, NEW p \in Paths, Readable(files[p])
  PROVE  Shape(files[p]) /\ ParseHeader(files[p]) /\ files[p].there
BY DEF FilesInv, Readable, Absent

LEMMA StartKeepsFiles ==
  ASSUME FilesInv, NEW p, NEW o, Start(p, o),
         IsSeq(o), \A i \in DOMAIN o : Whole(o[i])
  PROVE  FilesInv'
BY DEF FilesInv, Start, Whole

LEMMA OneWrite ==
  ASSUME NEW g \in Paths, NEW f, Complete(f), NEW tmp
  PROVE  /\ IsSeq(<<Write(g, f, tmp)>>)
         /\ \A i \in DOMAIN <<Write(g, f, tmp)>> : Whole(<<Write(g, f, tmp)>>[i])
<1>1. PICK w : w = Write(g, f, tmp)
  OBVIOUS
<1>2. Whole(w)
  BY <1>1 DEF Whole, Write
<1>3. <<w>> \in Seq({w}) /\ \A i \in DOMAIN <<w>> : <<w>>[i] = w
  OBVIOUS
<1>4. IsSeq(<<w>>)
  BY <1>3, SeqIs
<1> QED BY <1>1, <1>2, <1>3, <1>4

LEMMA ExtractKeepsFiles ==
  ASSUME WalkInv, FilesInv, NEW p \in Paths, NEW c, NEW g \in Paths, Extract(p, c, g)
  PROVE  FilesInv'
<1> DEFINE f == files[p]
           K == Selected(Records(f), c)
           E == Selected(EdgesIn(f), c)
           k == [r \in K |-> <<r[2], IF r[3] = 0 THEN 1 ELSE r[3]>>]
           e == [x \in E |-> <<x[2], x[3], x[4]>>]
           R == {<<r[2], IF r[3] = 0 THEN 1 ELSE r[3]>> : r \in K}
           D == {<<x[2], x[3], x[4]>> : x \in E}
           meta == Append(Part(f, "meta"), Word("context"))
           t == IF Expands(f) THEN 2 ELSE f.flags.type
           s == [f.scope EXCEPT !.ctxs = @ \cap {c}]
           new == WriteCov(meta, R, D, t, s)
<1>1. Start(p, <<Write(g, new, FALSE)>>)
  BY DEF Extract
<1>2. Shape(f) /\ ParseHeader(f)
  BY <1>1, ReadableIs DEF Start
<1>3. IsFiniteSet(K) /\ IsFiniteSet(E)
  <2> HIDE DEF f
  <2> QED BY <1>2, RecordsFinite, SelectedIn, FS_Subset
<1>4. {k[r] : r \in K} = R /\ {e[x] : x \in E} = D
  BY Zenon
<1>5. IsFiniteSet(R) /\ IsFiniteSet(D)
  <2> HIDE DEF K, E, k, e
  <2>1. IsFiniteSet({k[r] : r \in K}) /\ IsFiniteSet({e[x] : x \in E})
    BY <1>3, ImageFinite
  <2> QED BY <1>4, <2>1, Zenon
<1>6. IsSeq(meta)
  <2> HIDE DEF f
  <2> QED BY <1>2, PartIs, AppendIs DEF Sections
<1>7. Complete(new)
  <2> HIDE DEF meta, R, D, t, s
  <2> QED BY ONLY <1>5, <1>6, WriteCovComplete
<1> HIDE DEF new
<1>8. PICK o : o = <<Write(g, new, FALSE)>>
  OBVIOUS
<1>9. IsSeq(o) /\ \A i \in DOMAIN o : Whole(o[i])
  BY <1>7, <1>8, OneWrite
<1> QED BY <1>1, <1>8, <1>9, StartKeepsFiles

LEMMA RebaseKeepsFiles ==
  ASSUME WalkInv, FilesInv, NEW p \in Paths, NEW b, NEW z, NEW t, NEW g \in Paths,
         Rebase(p, b, z, t, g)
  PROVE  FilesInv'
<1> DEFINE new == Rebased(files[p], Window(files[p], All, b, b + z, t - b))
<1>1. Start(p, <<Write(g, new, FALSE)>>)
  BY DEF Rebase
<1>2. Shape(files[p]) /\ ParseHeader(files[p])
  BY <1>1, ReadableIs DEF Start
<1>3. Complete(new)
  BY <1>2, RebasedComplete
<1> HIDE DEF new
<1>4. PICK o : o = <<Write(g, new, FALSE)>>
  OBVIOUS
<1>5. IsSeq(o) /\ \A i \in DOMAIN o : Whole(o[i])
  BY <1>3, <1>4, OneWrite
<1> QED BY <1>1, <1>4, <1>5, StartKeepsFiles

LEMMA ScrubKeepsFiles ==
  ASSUME FilesInv, NEW p \in Paths, NEW g \in Paths, Scrub(p, g)
  PROVE  FilesInv'
<1> DEFINE new == Scrubbed(files[p])
<1>1. Start(p, <<Write(g, new, TRUE)>>)
  BY DEF Scrub
<1>2. Shape(files[p]) /\ ParseHeader(files[p])
  BY <1>1, ReadableIs DEF Start
<1>3. Complete(new)
  BY <1>2, ScrubbedIs
<1> HIDE DEF new
<1>4. PICK o : o = <<Write(g, new, TRUE)>>
  OBVIOUS
<1>5. IsSeq(o) /\ \A i \in DOMAIN o : Whole(o[i])
  BY <1>3, <1>4, OneWrite
<1> QED BY <1>1, <1>4, <1>5, StartKeepsFiles

(* The windows of a map, in the order of their starts.                     *)
LEMMA ByStart ==
  ASSUME NEW S, IsFiniteSet(S), \A w \in S : w.start \in Nat,
         \A v, w \in S : v.start = w.start => v = w,
         NEW h, h = CHOOSE s \in [1 .. Cardinality(S) -> S] :
                      \A i, j \in DOMAIN s : i < j => s[i].start < s[j].start
  PROVE  IsSeq(h) /\ Range(h) \subseteq S /\ DOMAIN h = 1 .. Len(h)
<1> DEFINE R == {r \in S \X S : r[1].start < r[2].start}
           n == Cardinality(S)
<1>1. n \in Nat
  BY FS_CardinalityType
<1>2. Strict(S, R)
  <2>1. \A x, y \in S : <<x, y>> \in R <=> x.start < y.start
    OBVIOUS
  <2> HIDE DEF R
  <2> QED BY <2>1 DEF Strict
<1>3. \E s \in [1 .. n -> S] : Ordered(s, R)
  <2> HIDE DEF R
  <2> QED BY <1>2, OrderExists
<1>4. \E s \in [1 .. n -> S] :
        \A i, j \in DOMAIN s : i < j => s[i].start < s[j].start
  BY <1>3 DEF Ordered
<1>5. h = CHOOSE s \in [1 .. n -> S] :
            \A i, j \in DOMAIN s : i < j => s[i].start < s[j].start
  OBVIOUS
<1>6. h \in [1 .. n -> S]
  <2> HIDE DEF n
  <2> QED BY <1>4, <1>5
<1> HIDE DEF n
<1>7. h \in Seq(S)
  BY <1>1, <1>6, LenOf
<1>8. DOMAIN h = 1 .. Len(h)
  BY <1>7
<1>9. IsSeq(h) /\ Range(h) \subseteq S
  BY ONLY <1>7, SeqIs
<1> QED BY <1>8, <1>9

LEMMA SliceKeepsFiles ==
  ASSUME WalkInv, FilesInv, NEW p \in Paths, NEW m \in Maps, NEW c, Slice(p, m, c)
  PROVE  FilesInv'
<1> DEFINE f == files[p]
           W(w) == Window(f, c, w.start, w.start + w.size, -w.start)
           S == {w \in Windows(m) : W(w).recs # {}}
           new(w) == Write(w.out, Rebased(f, W(w)), FALSE)
           hits == CHOOSE s \in [1 .. Cardinality(S) -> S] :
                     \A i, j \in DOMAIN s : i < j => s[i].start < s[j].start
<1>0. ~Overlapping(m) /\ Start(p, [i \in DOMAIN hits |-> new(hits[i])])
  BY DEF Slice, InOrder
<1> HIDE DEF new, hits
<1>1. PICK h : h = hits
  OBVIOUS
<1>2. ~Overlapping(m) /\ Start(p, [i \in DOMAIN h |-> new(h[i])])
  BY <1>0, <1>1, Zenon
<1>3. Shape(f) /\ ParseHeader(f)
  BY <1>2, ReadableIs DEF Start
<1>4. IsFiniteSet(m) /\ \A w \in m : w.start \in Nat /\ w.size \in Nat /\ w.out \in Paths
  BY ArtifactToolsAssumption
<1>5. /\ IsFiniteSet(S) /\ \A w \in S : w \in m /\ w.start \in Nat /\ w.size \in Nat
                                        /\ w.size > 0
  <2>1. S \in SUBSET m
    BY DEF Windows
  <2>2. IsFiniteSet(S)
    <3> HIDE DEF S
    <3> QED BY <1>4, <2>1, FS_Subset
  <2> QED BY <1>4, <2>1, <2>2 DEF Windows
<1>6. \A v, w \in S : v.start = w.start => v = w
  <2> SUFFICES ASSUME NEW v \in S, NEW w \in S, v.start = w.start, v # w PROVE FALSE
    OBVIOUS
  <2>1. v \in Windows(m) /\ w \in Windows(m)
    OBVIOUS
  <2>2. v.start <= w.start /\ w.start < v.start + v.size
    BY <1>5
  <2> QED BY <1>2, <2>1, <2>2 DEF Overlapping
<1>7. IsSeq(h) /\ Range(h) \subseteq S /\ DOMAIN h = 1 .. Len(h)
  <2>1. \A w \in S : w.start \in Nat
    BY <1>5
  <2>2. h = CHOOSE s \in [1 .. Cardinality(S) -> S] :
              \A i, j \in DOMAIN s : i < j => s[i].start < s[j].start
    BY <1>1, Zenon DEF hits
  <2> HIDE DEF S
  <2> QED BY <1>5, <1>6, <2>1, <2>2, ByStart
<1>8. PICK o : o = [i \in DOMAIN h |-> new(h[i])]
  OBVIOUS
<1>9. ASSUME NEW i \in DOMAIN h PROVE Whole(o[i])
  <2>1. PICK w \in S : w = h[i]
    BY <1>7 DEF Range
  <2>2. o[i] = Write(w.out, Rebased(f, W(w)), FALSE)
    BY <1>8, <2>1 DEF new
  <2>3. w.out \in Paths
    BY <1>4, <1>5
  <2>4. Complete(Rebased(f, W(w)))
    <3> HIDE DEF f
    <3> QED BY <1>3, RebasedComplete
  <2> HIDE DEF f, W
  <2> QED BY <2>2, <2>3, <2>4 DEF Whole, Write
<1>10. IsSeq(o) /\ DOMAIN o = DOMAIN h
  <2>1. Len(h) \in Nat
    BY <1>7, SeqFinite
  <2>2. o \in [1 .. Len(h) -> Range(o)] /\ DOMAIN o = DOMAIN h
    BY <1>7, <1>8 DEF Range
  <2> QED BY ONLY <2>1, <2>2, LenOf DEF IsSeq
<1> QED BY <1>2, <1>8, <1>9, <1>10, StartKeepsFiles

LEMMA FinishKeepsFiles ==
  ASSUME FilesInv, Finish1
  PROVE  FilesInv'
<1>1. PICK S : S = Range(writing)
  OBVIOUS
<1>2. writing \in Seq(S) /\ writing # <<>>
  BY <1>1 DEF FilesInv, Finish1, IsSeq
<1>3. PICK q : q = Tail(writing)
  OBVIOUS
<1>4. /\ q \in Seq(S) /\ 1 \in DOMAIN writing
      /\ \A i \in DOMAIN q : i + 1 \in DOMAIN writing /\ q[i] = writing[i + 1]
  BY <1>2, <1>3
<1>5. IsSeq(q) /\ \A i \in DOMAIN q : Whole(q[i])
  <2>1. IsSeq(q)
    BY ONLY <1>4, SeqIs
  <2> QED BY <1>4, <2>1 DEF FilesInv
<1>6. Whole(writing[1])
  BY <1>4 DEF FilesInv
<1>7. /\ writing' = q
      /\ files' = [files EXCEPT ![writing[1].path] = writing[1].file]
  BY <1>3 DEF Finish1
<1>8. Shape(writing[1].file) /\ writing[1].path \in Paths
  BY <1>6 DEF Whole, Complete
<1>9. /\ files' = [p \in Paths |-> files'[p]]
      /\ \A p \in Paths : files'[p] = Absent \/ Shape(files'[p])
  BY <1>7, <1>8 DEF FilesInv
<1> QED BY <1>5, <1>7, <1>9 DEF FilesInv

LEMMA CutShort ==
  ASSUME NEW f, Complete(f), NEW n \in Tears(f),
         NEW t, t = [f EXCEPT !.bytes = SubSeq(@, 1, n)]
  PROVE  /\ Shape(t) /\ Len(t.bytes) = n /\ n < Written(t)
         /\ t.flags = f.flags /\ t.scope = f.scope
<1>1. PICK p, S : p = f.bytes /\ S = Range(p)
  OBVIOUS
<1>2. p \in Seq(S) /\ Len(p) \in Nat
  BY <1>1, SeqFinite DEF Complete, Shape, IsSeq
<1>3. n \in Nat /\ n < Len(p)
  <2>1. CASE n \in {f.off[s] : s \in Sections} /\ n < Len(f.bytes)
    BY <1>1, <2>1, LayoutIs DEF Complete
  <2>2. CASE n = Len(f.bytes) - 1
    <3>1. f.hsize \in Nat \ {0} /\ f.size \in [Sections -> Nat] /\ Len(p) = Written(f)
      BY <1>1 DEF Complete, Shape
    <3>2. PICK h, m, r, e, u, x :
            /\ h = f.hsize /\ m = f.size["meta"] /\ r = f.size["rec"]
            /\ e = f.size["edge"] /\ u = f.size["tb"] /\ x = f.size["exit"]
      OBVIOUS
    <3>3. /\ h \in Nat \ {0} /\ m \in Nat /\ r \in Nat /\ e \in Nat /\ u \in Nat
          /\ x \in Nat
      BY <3>1, <3>2 DEF Sections
    <3>4. Len(p) = h + m + r + e + u + x
      BY <3>1, <3>2 DEF Written
    <3>5. Len(p) >= 1
      BY <3>3, <3>4
    <3> QED BY <1>1, <1>2, <2>2, <3>5
  <2> QED BY <2>1, <2>2 DEF Tears
<1>4. PICK q : q = SubSeq(p, 1, n)
  OBVIOUS
<1>5. q \in Seq(S) /\ Len(q) = n
  BY <1>2, <1>3, <1>4
<1>6. IsSeq(q)
  BY ONLY <1>5, SeqIs
<1>7. DOMAIN f = {"there", "scope", "flags", "hsize", "size", "off", "bytes"}
  BY DEF Complete, Shape
<1>8. /\ DOMAIN t = DOMAIN f /\ t.bytes = q /\ t.there = f.there /\ t.scope = f.scope
      /\ t.flags = f.flags /\ t.hsize = f.hsize /\ t.size = f.size /\ t.off = f.off
  BY <1>1, <1>4, <1>7
<1>9. Shape(t)
  BY <1>6, <1>7, <1>8 DEF Complete, Shape
<1>10. Written(t) = Len(p)
  BY <1>1, <1>8 DEF Complete, Written
<1> QED BY <1>3, <1>5, <1>8, <1>9, <1>10

LEMMA KilledKeepsFiles ==
  ASSUME FilesInv, Killed
  PROVE  FilesInv'
<1>1. PICK w, n : /\ w = writing[1] /\ n \in Tears(w.file)
                  /\ files' = [files EXCEPT ![w.path] = Torn(w, @, n)]
                  /\ writing' = <<>>
  BY DEF Killed
<1>2. Whole(w)
  <2>1. 1 \in DOMAIN writing
    BY DEF FilesInv, Killed, IsSeq
  <2> QED BY <1>1, <2>1 DEF FilesInv
<1>3. w.path \in Paths /\ Complete(w.file)
  BY <1>2 DEF Whole
<1>4. PICK t : t = [w.file EXCEPT !.bytes = SubSeq(@, 1, n)]
  OBVIOUS
<1>5. Shape(t)
  BY <1>1, <1>3, <1>4, CutShort
<1>6. Torn(w, files[w.path], n) \in {files[w.path], t}
  BY <1>4 DEF Torn
<1>7. /\ files' = [p \in Paths |-> files'[p]]
      /\ \A p \in Paths : files'[p] = Absent \/ Shape(files'[p])
  BY <1>1, <1>3, <1>5, <1>6 DEF FilesInv
<1>8. IsSeq(<<>>)
  BY DEF IsSeq
<1> QED BY <1>1, <1>7, <1>8 DEF FilesInv

LEMMA EntryUnitsAre ==
  ASSUME NEW n \in Nat, NEW g, NEW u
  PROVE  IsSeq(<<u>> \o [j \in 1 .. n |-> g[j]])
<1> DEFINE S == {u} \union {g[j] : j \in 1 .. n}
           s == [j \in 1 .. n |-> g[j]]
<1>1. s \in [1 .. n -> S] /\ <<u>> \in Seq(S)
  OBVIOUS
<1> HIDE DEF S, s
<1>2. s \in Seq(S)
  BY <1>1, LenOf
<1>3. <<u>> \o s \in Seq(S)
  BY <1>1, <1>2
<1>4. IsSeq(<<u>> \o s)
  BY <1>3, SeqIs
<1> QED BY <1>4 DEF s

LEMMA TableUnitsAre ==
  ASSUME TbsRight
  PROVE  IsSeq(TableUnits(Table))
<1> DEFINE unit(i) == Unit("tb", CtxOf(Table[i].ctx), Table[i].code[1],
                           Total(Table[i].code[2]), Table[i].count)
           size(i) == [j \in DOMAIN Table[i].code[2] |->
                         Unit("size", 0, 0, 0, Table[i].code[2][j])]
           t == [i \in DOMAIN Table |-> <<unit(i)>> \o size(i)]
           S == UNION {Range(t[i]) : i \in DOMAIN Table}
<1>1. TableUnits(Table) = FlattenSeq(t)
  BY Zenon DEF TableUnits
<1>2. PICK n \in Nat : DOMAIN Table = 1 .. n
  BY TableRight
<1>3. ASSUME NEW i \in DOMAIN Table PROVE IsSeq(t[i])
  <2>1. PICK m \in Nat : DOMAIN Table[i].code[2] = 1 .. m
    BY AtEntry, CodeType
  <2>2. size(i) = [j \in 1 .. m |-> size(i)[j]]
    BY <2>1
  <2>3. t[i] = <<unit(i)>> \o size(i)
    OBVIOUS
  <2> HIDE DEF t, size, unit
  <2>4. IsSeq(<<unit(i)>> \o [j \in 1 .. m |-> size(i)[j]])
    BY EntryUnitsAre
  <2> QED BY <2>2, <2>3, <2>4
<1>4. ASSUME NEW i \in DOMAIN Table PROVE t[i] \in Seq(S)
  <2>1. IsSeq(t[i])
    BY <1>3
  <2>2. Range(t[i]) \subseteq S
    <3> HIDE DEF t
    <3> QED OBVIOUS
  <2> HIDE DEF t, S
  <2> QED BY <2>1, <2>2, SeqIn
<1>5. t = [i \in 1 .. n |-> t[i]]
  BY <1>2
<1> HIDE DEF t, S
<1>6. t \in [1 .. n -> Seq(S)]
  BY <1>2, <1>4, <1>5
<1>7. t \in Seq(Seq(S))
  BY <1>6, LenOf
<1>8. FlattenSeq(t) \in Seq(S)
  BY <1>7, FlattenTyped
<1> QED BY ONLY <1>1, <1>8, SeqIs

LEMMA ExitsFinite ==
  ASSUME TbsRight
  PROVE  IsFiniteSet(UNION {ExitsOf(i) : i \in DOMAIN Table})
<1> DEFINE L == {ExitsOf(i) : i \in DOMAIN Table}
<1>1. ASSUME NEW i \in DOMAIN Table PROVE IsFiniteSet(ExitsOf(i))
  <2> DEFINE P == {pc \in ExtentAt(i) : EarlyAt(i, pc) > 0}
             g == [pc \in P |-> ExitRec(i, pc)]
  <2>1. P \in SUBSET ExtentAt(i)
    OBVIOUS
  <2>2. ExitsOf(i) = {ExitRec(i, pc) : pc \in P}
    BY ExitsAre
  <2> HIDE DEF P
  <2>3. IsFiniteSet(P)
    BY <2>1, AtEntry, ExtentFinite, FS_Subset DEF ExtentAt
  <2>4. {g[pc] : pc \in P} = {ExitRec(i, pc) : pc \in P}
    BY Zenon
  <2>5. IsFiniteSet({g[pc] : pc \in P})
    <3> HIDE DEF g
    <3> QED BY <2>3, ImageFinite
  <2> QED BY <2>2, <2>4, <2>5, Zenon
<1>2. IsFiniteSet(L)
  <2> DEFINE g == [i \in DOMAIN Table |-> ExitsOf(i)]
  <2>1. IsFiniteSet(DOMAIN Table)
    BY TableRight, FS_Interval
  <2>2. {g[i] : i \in DOMAIN Table} = L
    BY Zenon
  <2>3. IsFiniteSet({g[i] : i \in DOMAIN Table})
    <3> HIDE DEF g
    <3> QED BY <2>1, ImageFinite
  <2> QED BY <2>2, <2>3, Zenon
<1>3. \A E \in L : IsFiniteSet(E)
  BY <1>1
<1> HIDE DEF L
<1>4. IsFiniteSet(UNION L)
  BY <1>2, <1>3, FS_UNION
<1> QED BY <1>4 DEF L

RanIns == {k \in Ctxs \X Addr : IF HasTable(kind) THEN FullCount(k[1], k[2]) > 0
                                ELSE RanIn(k[1], k[2]) > 0}
RunEdges == {<<CtxOf(k[1]), k[2], k[3], edges[k]>> : k \in DOMAIN edges}

(* What is in the plugin's artifact.                                       *)
LEMMA RunFileIs ==
  ASSUME TbsRight, IsFiniteSet(DOMAIN edges)
  PROVE  /\ Complete(RunFile)
         /\ RunFile.flags = [type |-> IF kind.mode = "tb" THEN 1 ELSE 2,
                             ctx |-> kind.ctx, counts |-> kind.mode # "bare",
                             table |-> HasTable(kind), edges |-> edges # <<>>]
         /\ RunFile.scope = [ctxs |-> Ctxs, lo |-> 0, hi |-> Max(Addr) + 1,
                             delta |-> 0]
         /\ Part(RunFile, "meta") =
              <<Word("dir"), Word("dir"), Word("elf"), Word(kind.mode)>>
         /\ Range(Part(RunFile, "rec")) = RecSet(RawRecs)
         /\ Range(Part(RunFile, "edge")) = EdgeSet(RunEdges)
         /\ HasTable(kind) =>
              /\ Part(RunFile, "tb") = TableUnits(Table)
              /\ Part(RunFile, "exit")
                   = ExitUnits(UNION {ExitsOf(i) : i \in DOMAIN Table})
<1> DEFINE flags == [type |-> IF kind.mode = "tb" THEN 1 ELSE 2,
                     ctx |-> kind.ctx, counts |-> kind.mode # "bare",
                     table |-> HasTable(kind), edges |-> edges # <<>>]
           scope == [ctxs |-> Ctxs, lo |-> 0, hi |-> Max(Addr) + 1, delta |-> 0]
           meta == <<Word("dir"), Word("dir"), Word("elf"), Word(kind.mode)>>
           L == UNION {ExitsOf(i) : i \in DOMAIN Table}
           tb == IF HasTable(kind) THEN TableUnits(Table) ELSE <<>>
           exit == IF HasTable(kind) THEN ExitUnits(L) ELSE <<>>
           b == [meta |-> meta, rec |-> RecUnits(RawRecs),
                 edge |-> EdgeUnits(RunEdges), tb |-> tb, exit |-> exit]
<1>1. RunFile = File(flags, b, scope)
  BY Zenon DEF RunFile, RunEdges
<1>2. IsFiniteSet(RawRecs)
  <2> DEFINE g == [k \in RanIns |-> <<CtxOf(k[1]), k[2], RawCount(k[1], k[2])>>]
  <2>1. {g[k] : k \in RanIns} = RawRecs
    BY Zenon DEF RawRecs, RanIns
  <2>2. IsFiniteSet(RanIns)
    BY AddrFinite, FS_Subset DEF RanIns
  <2> HIDE DEF g
  <2>3. IsFiniteSet({g[k] : k \in RanIns})
    BY <2>2, ImageFinite
  <2> QED BY <2>1, <2>3, Zenon
<1>3. IsFiniteSet(RunEdges)
  <2> DEFINE g == [k \in DOMAIN edges |-> <<CtxOf(k[1]), k[2], k[3], edges[k]>>]
  <2>1. {g[k] : k \in DOMAIN edges} = RunEdges
    BY Zenon DEF RunEdges
  <2> HIDE DEF g
  <2>2. IsFiniteSet({g[k] : k \in DOMAIN edges})
    BY ImageFinite
  <2> QED BY <2>1, <2>2, Zenon
<1>4. /\ IsSeq(RecUnits(RawRecs)) /\ Range(RecUnits(RawRecs)) = RecSet(RawRecs)
      /\ IsSeq(EdgeUnits(RunEdges)) /\ Range(EdgeUnits(RunEdges)) = EdgeSet(RunEdges)
  BY <1>2, <1>3, UnitsAre
<1>5. IsSeq(<<>>) /\ IsSeq(meta)
  BY DEF IsSeq, Range
<1>6. IsSeq(tb) /\ IsSeq(exit)
  <2>1. IsSeq(ExitUnits(L))
    BY ExitsFinite, UnitsAre
  <2> HIDE DEF L
  <2> QED BY <1>5, <2>1, TableUnitsAre
<1>7. /\ b["meta"] = meta /\ b["rec"] = RecUnits(RawRecs)
      /\ b["edge"] = EdgeUnits(RunEdges) /\ b["tb"] = tb /\ b["exit"] = exit
  OBVIOUS
<1> HIDE DEF b, flags, scope, meta, tb, exit, L
<1>8. Body(b)
  <2> SUFFICES ASSUME NEW s \in Sections PROVE IsSeq(b[s])
    BY DEF Body
  <2>1. s \in {"meta", "rec", "edge", "tb", "exit"}
    BY DEF Sections
  <2> QED BY <1>4, <1>5, <1>6, <1>7, <2>1
<1>9. PICK f : f = RunFile
  OBVIOUS
<1>10. /\ Shape(f) /\ f.flags = flags /\ f.scope = scope
       /\ Len(f.bytes) = Written(f) /\ \A s \in Sections : Part(f, s) = b[s]
  BY <1>1, <1>8, <1>9, FileParts
<1>11. /\ Complete(f) /\ f.flags = flags /\ f.scope = scope
       /\ Part(f, "meta") = meta /\ Part(f, "rec") = RecUnits(RawRecs)
       /\ Part(f, "edge") = EdgeUnits(RunEdges) /\ Part(f, "tb") = tb
       /\ Part(f, "exit") = exit
  BY <1>7, <1>10 DEF Complete, Sections
<1> QED BY <1>4, <1>9, <1>11, Zenon DEF flags, scope, meta, tb, exit, L

LEMMA FilesInit == ToolsInit => FilesInv
<1> SUFFICES ASSUME ToolsInit PROVE FilesInv
  OBVIOUS
<1>1. /\ files = [p \in Paths |-> IF p = "run" /\ commands > 0 THEN RunFile ELSE Absent]
      /\ writing = <<>>
      /\ commands > 0 => edges \in EdgeSets
  <2>1. tbs \notin Campaigns => ~(commands > 0)
    BY DEF ToolsInit
  <2> QED BY <2>1 DEF ToolsInit
<1>2. commands > 0 => Shape(RunFile)
  <2>1. edges \in EdgeSets => IsFiniteSet(DOMAIN edges)
    BY ArtifactToolsAssumption
  <2>2. TbsRight
    BY TbsInit DEF ToolsInit
  <2>3. commands > 0 => Complete(RunFile)
    BY <1>1, <2>1, <2>2, RunFileIs
  <2> QED BY <2>3 DEF Complete
<1>3. IsSeq(<<>>)
  BY DEF IsSeq
<1> QED BY <1>1, <1>2, <1>3 DEF FilesInv

LEMMA FilesNext ==
  ASSUME WalkInv, FilesInv, [ToolsNext]_allVars
  PROVE  FilesInv'
<1>1. CASE UNCHANGED tools
  BY <1>1 DEF FilesInv, tools
<1>2. CASE Command
  BY <1>2, ExtractKeepsFiles, RebaseKeepsFiles, ScrubKeepsFiles DEF Command
<1>3. CASE SliceCommand
  BY <1>3, SliceKeepsFiles DEF SliceCommand
<1>4. CASE Finish1
  BY <1>4, FinishKeepsFiles
<1>5. CASE Killed
  BY <1>5, KilledKeepsFiles
<1> QED BY <1>1, <1>2, <1>3, <1>4, <1>5 DEF ToolsNext, allVars, tools

LEMMA TornUnread == FilesInv => TornRejected
<1> SUFFICES ASSUME FilesInv, NEW p \in Paths, files[p].there,
                    Len(files[p].bytes) < files[p].hsize
                      + MapThenSumSet(LAMBDA s : files[p].size[s], Sections)
             PROVE  ~Readable(files[p])
  BY DEF TornRejected
<1>1. PICK f : f = files[p]
  OBVIOUS
<1>2. Shape(f)
  BY <1>1 DEF FilesInv, Absent
<1>3. f.hsize + MapThenSumSet(LAMBDA s : f.size[s], Sections) = Written(f)
  BY <1>2, WrittenIs DEF Shape
<1>4. Len(f.bytes) < Written(f)
  BY <1>1, <1>3
<1> QED BY <1>1, <1>2, <1>4, UnfinishedRefused DEF Readable

(* Whatever commands ran and wherever one of them was killed, a file that  *)
(* lacks some of what its header announces is not read (parse_header).     *)
THEOREM TornRejectedCorrect == ToolsSpec => []TornRejected
<1>1. ToolsInit => FilesInv
  BY FilesInit
<1>2. WalkInv /\ FilesInv /\ [ToolsNext]_allVars => FilesInv'
  BY FilesNext
<1>3. FilesInv => TornRejected
  BY TornUnread
<1>4. Spec => []WalkInv
  BY WalkInit, WalkNext, PTL DEF Spec
<1> QED BY <1>1, <1>2, <1>3, <1>4, ToolsKeepTable, PTL DEF ToolsSpec

-----------------------------------------------------------------------------
(* What the run did, and what a part of it is to be told as.  All of it is *)
(* fixed once the guest has run.                                           *)

Did == [k \in Ctxs \X Addr |-> RanIn(k[1], k[2])]
In(R, C, x) == SumOver([c \in C |-> R[<<c, x>>]], C)
Hit(R, s) == {x \in Addr : s.lo <= x /\ x < s.hi /\ In(R, s.ctxs, x) > 0}
Said(R, mode, s) ==
  {<<x + s.delta, IF mode = "bare" THEN 1 ELSE In(R, s.ctxs, x)>> : x \in Hit(R, s)}

Mine(e, s) ==
  {k \in DOMAIN e : /\ k[1] \in s.ctxs /\ s.lo <= k[2] /\ k[2] < s.hi
                    /\ s.lo <= k[3] /\ k[3] < s.hi}
Along(e, s, p) == {k \in Mine(e, s) : <<k[2], k[3]>> = p}
Ends(e, s) == {<<k[2], k[3]>> : k \in Mine(e, s)}
SaidE(e, s) ==
  {<<p[1] + s.delta, p[2] + s.delta, SumOver(e, Along(e, s, p))>> : p \in Ends(e, s)}

Good(s) == s.ctxs \subseteq Ctxs /\ s.lo \in Int /\ s.hi \in Int /\ s.delta \in Int

EdgesRight ==
  /\ DOMAIN edges \subseteq Ctxs \X Addr \X Addr /\ IsFiniteSet(DOMAIN edges)
  /\ \A k \in DOMAIN edges : edges[k] \in Nat \ {0}

(* The contexts of a run that records none are all one.                    *)
OneCtx ==
  kind.ctx \/ /\ \A t \in Translations : tbs[t].ctx = 0
              /\ \A k \in DOMAIN edges : k[1] = 0

LEMMA RanInIs ==
  ASSUME TbsRight, NEW c, NEW x
  PROVE  /\ RanIn(c, x) \in Nat
         /\ RanIn(c, x) =
              IF x \in filter
                THEN ExecutedBy({t \in Translations :
                       tbs[t].ctx = c /\ x \in InsnsOf(tbs[t].code)}, x)
                ELSE 0
         /\ (~\E t \in Translations : tbs[t].ctx = c) => RanIn(c, x) = 0
<1> DEFINE S == {t \in Translations : tbs[t].ctx = c /\ x \in InsnsOf(tbs[t].code)}
<1>1. IsFiniteSet(S) /\ S \in SUBSET Translations
  <2>1. S \in SUBSET Translations
    OBVIOUS
  <2> HIDE DEF S
  <2> QED BY <2>1, FS_Subset, TbTableAssumption
<1>2. \A t \in S : Ran(x)[t] = Executed(t, x) /\ Ran(x)[t] \in Nat
  <2> SUFFICES ASSUME NEW t \in S
               PROVE  Ran(x)[t] = Executed(t, x) /\ Ran(x)[t] \in Nat
    OBVIOUS
  <2>1. PICK R : R = {pc \in DOMAIN tbs[t].early : pc <= x}
    OBVIOUS
  <2>2. t \in Translations
    OBVIOUS
  <2> HIDE DEF S
  <2>3. Executed(t, x) \in Nat
    BY <2>1, <2>2, ExecutedType
  <2> QED BY <2>2, <2>3 DEF Ran
<1>3. RanIn(c, x) = IF x \notin filter THEN 0 ELSE SumFunctionOnSet(Ran(x), S)
  BY DEF RanIn, Ran
<1>4. S = {} => SumOver(Ran(x), S) = 0
  BY SumEmpty
<1>5. (~\E t \in Translations : tbs[t].ctx = c) => S = {}
  OBVIOUS
<1> HIDE DEF S
<1>6. Weighs(Ran(x), S) /\ SumOver(Ran(x), S) \in Nat
  BY <1>1, <1>2, SumType DEF Weighs
<1>7. ExecutedBy(S, x) = SumOver(Ran(x), S)
  BY <1>2, <1>6, ExecutedSum
<1> QED BY <1>3, <1>4, <1>5, <1>6, <1>7, SumFunctionIsSum DEF S

LEMMA DidType == TbsRight => Did \in [Ctxs \X Addr -> Nat]
BY RanInIs DEF Did

LEMMA InType ==
  ASSUME TbsRight, NEW C, C \subseteq Ctxs, NEW x \in Addr
  PROVE  /\ Weighs([c \in C |-> Did[<<c, x>>]], C) /\ In(Did, C, x) \in Nat
         /\ In(Did, C, x) > 0 <=> \E c \in C : Did[<<c, x>>] > 0
<1> DEFINE w == [c \in C |-> Did[<<c, x>>]]
<1>1. IsFiniteSet(C)
  BY FS_Subset, TbTableAssumption
<1>2. \A c \in C : w[c] = Did[<<c, x>>] /\ w[c] \in Nat
  BY DidType
<1> HIDE DEF w
<1>3. Weighs(w, C) /\ SumOver(w, C) \in Nat
  BY <1>1, <1>2, SumType DEF Weighs
<1>4. ASSUME NEW c \in C, w[c] > 0 PROVE SumOver(w, C) > 0
  <2>1. Weighs(w, C \ {c}) /\ SumOver(w, C) = w[c] + SumOver(w, C \ {c})
    BY <1>3, SumTake
  <2>2. SumOver(w, C \ {c}) \in Nat
    BY <2>1, SumType
  <2>3. w[c] \in Nat
    BY <1>2
  <2> QED BY ONLY <1>4, <2>1, <2>2, <2>3
<1>5. ASSUME \A c \in C : ~(w[c] > 0) PROVE SumOver(w, C) = 0
  <2>1. \A c \in C : w[c] \in Nat
    BY <1>2
  <2>2. \A c \in C : w[c] = 0
    BY ONLY <1>5, <2>1
  <2> QED BY <1>1, <2>2, SumZero
<1>6. SumOver(w, C) > 0 <=> \E c \in C : w[c] > 0
  BY <1>3, <1>4, <1>5
<1> QED BY <1>2, <1>3, <1>6 DEF In, w

(* The properties' own words for the same.                                 *)
LEMMA TruthIs ==
  ASSUME TbsRight, EdgesRight, NEW s, Good(s)
  PROVE  Truth(s) = Said(Did, kind.mode, s) /\ EdgeTruth(s) = SaidE(edges, s)
<1> DEFINE N(x) == SumFunction([c \in s.ctxs |-> RanIn(c, x)])
           M == {k \in DOMAIN edges : /\ k[1] \in s.ctxs
                                      /\ {k[2], k[3]} \subseteq s.lo .. s.hi - 1}
<1>1. s.ctxs \subseteq Ctxs /\ s.lo \in Int /\ s.hi \in Int
  BY DEF Good
<1>2. ASSUME NEW x \in Addr PROVE N(x) = In(Did, s.ctxs, x)
  <2>1. [c \in s.ctxs |-> RanIn(c, x)] = [c \in s.ctxs |-> Did[<<c, x>>]]
    BY <1>1 DEF Did
  <2>2. DOMAIN [c \in s.ctxs |-> RanIn(c, x)] = s.ctxs
    OBVIOUS
  <2>3. N(x) = SumFunctionOnSet([c \in s.ctxs |-> RanIn(c, x)], s.ctxs)
    BY <2>2, Zenon DEF SumFunction
  <2> QED BY <2>1, <2>3, SumFunctionIsSum, Zenon DEF In
<1>3. \A x \in Addr : x \in s.lo .. s.hi - 1 <=> s.lo <= x /\ x < s.hi
  BY <1>1, AddrFinite
<1>4. Truth(s) = Said(Did, kind.mode, s)
  <2>1. {y \in Addr \cap s.lo .. s.hi - 1 : N(y) > 0} = Hit(Did, s)
    <3> HIDE DEF N
    <3> QED BY <1>2, <1>3 DEF Hit
  <2>2. Truth(s) = {<<x + s.delta, IF kind.mode = "bare" THEN 1 ELSE N(x)>> :
                      x \in {y \in Addr \cap s.lo .. s.hi - 1 : N(y) > 0}}
    BY Zenon DEF Truth
  <2> HIDE DEF N
  <2>3. \A x \in Hit(Did, s) : N(x) = In(Did, s.ctxs, x)
    BY <1>2 DEF Hit
  <2> QED BY <2>1, <2>2, <2>3 DEF Said
<1>5. M = Mine(edges, s)
  <2>1. \A x, y \in Addr : {x, y} \subseteq s.lo .. s.hi - 1
          <=> s.lo <= x /\ x < s.hi /\ s.lo <= y /\ y < s.hi
    BY <1>3
  <2>2. ASSUME NEW k \in DOMAIN edges
        PROVE  {k[2], k[3]} \subseteq s.lo .. s.hi - 1
                 <=> s.lo <= k[2] /\ k[2] < s.hi /\ s.lo <= k[3] /\ k[3] < s.hi
    <3>1. k \in Ctxs \X Addr \X Addr
      BY DEF EdgesRight
    <3>2. k[2] \in Addr /\ k[3] \in Addr
      BY ONLY <3>1
    <3> QED BY <2>1, <3>2
  <2> QED BY <2>2 DEF Mine
<1>6. EdgeTruth(s) = SaidE(edges, s)
  <2> HIDE DEF M
  <2>1. EdgeTruth(s) =
          {<<p[1] + s.delta, p[2] + s.delta,
             SumFunctionOnSet(edges, {k \in M : <<k[2], k[3]>> = p})>> :
             p \in {<<k[2], k[3]>> : k \in M}}
    BY Zenon DEF EdgeTruth, M
  <2>2. \A p : SumFunctionOnSet(edges, {k \in M : <<k[2], k[3]>> = p})
                 = SumOver(edges, Along(edges, s, p))
    BY <1>5, SumFunctionIsSum DEF Along
  <2>3. {<<k[2], k[3]>> : k \in M} = Ends(edges, s)
    BY <1>5 DEF Ends
  <2> QED BY <2>1, <2>2, <2>3, ZenonT(40) DEF SaidE
<1> QED BY <1>4, <1>6

LEMMA SameDid ==
  ASSUME tbs' = tbs, filter' = filter
  PROVE  Did' = Did
BY DEF Did, RanIn, Executed

LEMMA OnlyCtx ==
  ASSUME TbsRight, OneCtx, ~kind.ctx, NEW c \in Ctxs, NEW x \in Addr, Did[<<c, x>>] > 0
  PROVE  c = 0
<1>1. ASSUME c # 0 PROVE Did[<<c, x>>] = 0
  <2>1. ~\E t \in Translations : tbs[t].ctx = c
    BY <1>1 DEF OneCtx
  <2>2. RanIn(c, x) = 0
    BY <2>1, RanInIs
  <2> QED BY <2>2 DEF Did
<1> QED BY <1>1

-----------------------------------------------------------------------------
(* What the files say: the plugin's artifact, and its scrubbed copies, say *)
(* all of it with the contexts apart; the others say a part of it.         *)

Tag(ctx, c) == IF ctx THEN c ELSE None
Ins(R) == {k \in Ctxs \X Addr : R[k] > 0}
Row_(R, mode, ctx, k) == <<Tag(ctx, k[1]), k[2], IF mode = "bare" THEN 0 ELSE R[k]>>
Rows(R, mode, ctx) == {Row_(R, mode, ctx, k) : k \in Ins(R)}
EdgeRow(e, ctx, k) == <<Tag(ctx, k[1]), k[2], k[3], e[k]>>
EdgeRows(e, ctx)   == {EdgeRow(e, ctx, k) : k \in DOMAIN e}

WholeRun == [ctxs |-> Ctxs, lo |-> 0, hi |-> Max(Addr) + 1, delta |-> 0]
AllExits == UNION {ExitsOf(i) : i \in DOMAIN Table}
Words == {Word(w) : w \in {"dir", "elf", "scrubbed", "window", "context", "tb",
                           "tb-insn-fast", "insn", "bare"}}

Original(f) ==
  /\ f.flags = [type |-> IF kind.mode = "tb" THEN 1 ELSE 2, ctx |-> kind.ctx,
                counts |-> kind.mode # "bare", table |-> HasTable(kind),
                edges |-> edges # <<>>]
  /\ f.scope = WholeRun
  /\ kind.mode = "tb-insn-fast" => Word("tb-insn-fast") \in Range(Part(f, "meta"))
  /\ IF HasTable(kind)
       THEN Part(f, "tb") = TableUnits(Table) /\ Part(f, "exit") = ExitUnits(AllExits)
       ELSE Range(Part(f, "rec")) = RecSet(Rows(Did, kind.mode, kind.ctx))
  /\ Range(Part(f, "edge")) = EdgeSet(EdgeRows(edges, kind.ctx))

Plain(f) ==
  /\ f.flags = [type |-> 2, counts |-> TRUE, ctx |-> FALSE, table |-> FALSE,
                edges |-> SaidE(edges, f.scope) # {}]
  /\ Good(f.scope)
  /\ Range(Part(f, "rec")) = RecSet(Tagged(Said(Did, kind.mode, f.scope)))
  /\ Range(Part(f, "edge")) = EdgeSet(TaggedE(SaidE(edges, f.scope)))

Told(f) ==
  Complete(f) /\ Range(Part(f, "meta")) \subseteq Words /\ (Original(f) \/ Plain(f))

LEMMA Untagged ==
  ASSUME NEW S, \A r \in S : r = <<r[1], r[2], r[3]>>
  PROVE  {<<u[2], u[3], u[5]>> : u \in RecSet(S)} = S
<1> DEFINE U(r) == Unit("rec", r[1], r[2], 0, r[3])
<1>1. ASSUME NEW r \in S PROVE <<U(r)[2], U(r)[3], U(r)[5]>> = r
  <2>1. U(r)[2] = r[1] /\ U(r)[3] = r[2] /\ U(r)[5] = r[3]
    BY DEF Unit
  <2>2. PICK x, y, n : x = r[1] /\ y = r[2] /\ n = r[3]
    OBVIOUS
  <2>3. r = <<x, y, n>> /\ U(r)[2] = x /\ U(r)[3] = y /\ U(r)[5] = n
    BY <2>1, <2>2
  <2> HIDE DEF U
  <2> QED BY ONLY <2>3
<1>2. RecSet(S) = {U(r) : r \in S}
  BY Zenon DEF RecSet
<1> DEFINE V(u) == <<u[2], u[3], u[5]>>
<1>3. \A r \in S : V(U(r)) = r
  BY <1>1
<1> HIDE DEF U, V
<1>4. {V(u) : u \in RecSet(S)} = S
  BY ONLY <1>2, <1>3
<1> QED BY <1>4, Zenon DEF V

LEMMA UntaggedE ==
  ASSUME NEW S, \A e \in S : e = <<e[1], e[2], e[3], e[4]>>
  PROVE  {<<u[2], u[3], u[4], u[5]>> : u \in EdgeSet(S)} = S
<1> DEFINE U(e) == Unit("edge", e[1], e[2], e[3], e[4])
<1>1. ASSUME NEW e \in S PROVE <<U(e)[2], U(e)[3], U(e)[4], U(e)[5]>> = e
  <2>1. U(e)[2] = e[1] /\ U(e)[3] = e[2] /\ U(e)[4] = e[3] /\ U(e)[5] = e[4]
    BY DEF Unit
  <2>2. PICK c, x, y, n : c = e[1] /\ x = e[2] /\ y = e[3] /\ n = e[4]
    OBVIOUS
  <2>3. e = <<c, x, y, n>> /\ U(e)[2] = c /\ U(e)[3] = x /\ U(e)[4] = y /\ U(e)[5] = n
    BY <2>1, <2>2
  <2> HIDE DEF U
  <2> QED BY ONLY <2>3
<1>2. EdgeSet(S) = {U(e) : e \in S}
  BY Zenon DEF EdgeSet
<1> DEFINE V(u) == <<u[2], u[3], u[4], u[5]>>
<1>3. \A e \in S : V(U(e)) = e
  BY <1>1
<1> HIDE DEF U, V
<1>4. {V(u) : u \in EdgeSet(S)} = S
  BY ONLY <1>2, <1>3
<1> QED BY <1>4, Zenon DEF V

KindRight == kind.mode \in {"tb", "tb-insn-fast", "insn", "bare"} /\ kind.ctx \in BOOLEAN

(* The records that the readers make of them.                              *)
LEMMA OriginalRead ==
  ASSUME WalkInv, phase = "done", KindRight, NEW f, Original(f)
  PROVE  /\ Records(f) = Rows(Did, kind.mode, kind.ctx)
         /\ EdgesIn(f) = EdgeRows(edges, kind.ctx)
         /\ f.flags.counts = (kind.mode # "bare")
         /\ f.flags.ctx = kind.ctx
         /\ EffectiveType(f) = 2 /\ (~Expands(f) => f.flags.type = 2)
<1>1. /\ f.flags.type = IF kind.mode = "tb" THEN 1 ELSE 2
      /\ f.flags.table = HasTable(kind) /\ f.flags.edges = (edges # <<>>)
      /\ f.flags.counts = (kind.mode # "bare")
      /\ f.flags.ctx = kind.ctx
  BY DEF Original
<1>2. Expands(f) <=> HasTable(kind)
  BY <1>1 DEF Expands, HasTable, Original
<1>3. out = Did
  <2>1. ExpansionMatches
    BY WalkExact
  <2>2. out = [k \in Ctxs \X Addr |-> out[k]]
    BY DEF WalkInv
  <2>3. ASSUME NEW c \in Ctxs, NEW x \in Addr PROVE out[<<c, x>>] = RanIn(c, x)
    <3>1. out[<<c, x>>] =
            IF x \in filter
              THEN ExecutedBy({t \in Translations :
                     tbs[t].ctx = c /\ x \in InsnsOf(tbs[t].code)}, x)
              ELSE 0
      BY <2>1 DEF ExpansionMatches, ExecutedBy
    <3> QED BY <3>1, RanInIs DEF WalkInv
  <2>4. ASSUME NEW k \in Ctxs \X Addr PROVE out[k] = RanIn(k[1], k[2])
    <3>1. k = <<k[1], k[2]>> /\ k[1] \in Ctxs /\ k[2] \in Addr
      OBVIOUS
    <3> QED BY <2>3, <3>1, Zenon
  <2> QED BY <2>2, <2>4 DEF Did
<1>4. \A c : CtxOf(c) = Tag(kind.ctx, c)
  BY DEF CtxOf, Tag
<1>5. Records(f) = Rows(Did, kind.mode, kind.ctx)
  <2>1. CASE HasTable(kind)
    <3>1. Records(f) =
            {<<CtxOf(k[1]), k[2], Did[k]>> : k \in {j \in DOMAIN Did : Did[j] > 0}}
      BY <1>2, <1>3, <2>1, Zenon DEF Records
    <3>2. DOMAIN Did = Ctxs \X Addr /\ kind.mode # "bare"
      BY <2>1 DEF Did, HasTable
    <3>3. Ins(Did) = {j \in DOMAIN Did : Did[j] > 0}
      BY <3>2 DEF Ins
    <3>4. \A k : Row_(Did, kind.mode, kind.ctx, k) = <<CtxOf(k[1]), k[2], Did[k]>>
      BY <1>4, <3>2 DEF Row_
    <3> QED BY <3>1, <3>3, <3>4, Zenon DEF Rows
  <2>2. CASE ~HasTable(kind)
    <3>1. Records(f) = {<<u[2], u[3], u[5]>> : u \in Range(Part(f, "rec"))}
      BY <1>2, <2>2, Zenon DEF Records
    <3>2. Range(Part(f, "rec")) = RecSet(Rows(Did, kind.mode, kind.ctx))
      BY <2>2 DEF Original
    <3>3. \A r \in Rows(Did, kind.mode, kind.ctx) : r = <<r[1], r[2], r[3]>>
      BY DEF Rows, Row_
    <3> QED BY <3>1, <3>2, <3>3, Untagged
  <2> QED BY <2>1, <2>2
<1>6. EdgesIn(f) = EdgeRows(edges, kind.ctx)
  <2>1. CASE edges # <<>>
    <3>1. EdgesIn(f) = {<<u[2], u[3], u[4], u[5]>> : u \in Range(Part(f, "edge"))}
      BY <1>1, <2>1, Zenon DEF EdgesIn
    <3>2. Range(Part(f, "edge")) = EdgeSet(EdgeRows(edges, kind.ctx))
      BY DEF Original
    <3>3. \A r \in EdgeRows(edges, kind.ctx) : r = <<r[1], r[2], r[3], r[4]>>
      BY DEF EdgeRows, EdgeRow
    <3> QED BY <3>1, <3>2, <3>3, UntaggedE
  <2>2. CASE edges = <<>>
    <3>1. EdgesIn(f) = {}
      BY <1>1, <2>2 DEF EdgesIn
    <3>2. DOMAIN edges = {}
      BY <2>2
    <3> QED BY <3>1, <3>2 DEF EdgeRows
  <2> QED BY <2>1, <2>2
<1>7. EffectiveType(f) = 2 /\ (~Expands(f) => f.flags.type = 2)
  BY <1>1, <1>2 DEF EffectiveType, HasTable
<1> QED BY <1>1, <1>5, <1>6, <1>7

LEMMA PlainRead ==
  ASSUME NEW f, Plain(f)
  PROVE  /\ Records(f) = Tagged(Said(Did, kind.mode, f.scope))
         /\ EdgesIn(f) = TaggedE(SaidE(edges, f.scope))
         /\ f.flags.counts = TRUE /\ f.flags.ctx = FALSE
         /\ EffectiveType(f) = 2
<1> DEFINE R == Tagged(Said(Did, kind.mode, f.scope))
           E == TaggedE(SaidE(edges, f.scope))
<1>1. /\ f.flags.table = FALSE /\ f.flags.edges = (SaidE(edges, f.scope) # {})
      /\ f.flags.counts = TRUE /\ f.flags.ctx = FALSE /\ f.flags.type = 2
  BY DEF Plain
<1>2. Range(Part(f, "rec")) = RecSet(R) /\ Range(Part(f, "edge")) = EdgeSet(E)
  BY DEF Plain
<1>3. /\ \A r \in R : r = <<r[1], r[2], r[3]>>
      /\ \A e \in E : e = <<e[1], e[2], e[3], e[4]>>
      /\ SaidE(edges, f.scope) = {} => E = {}
  BY DEF Tagged, TaggedE
<1> HIDE DEF R, E
<1>4. Records(f) = R
  <2>1. Records(f) = {<<u[2], u[3], u[5]>> : u \in RecSet(R)}
    BY <1>1, <1>2, Zenon DEF Records, Expands
  <2> QED BY <1>3, <2>1, Untagged
<1>5. EdgesIn(f) = E
  <2>1. CASE SaidE(edges, f.scope) # {}
    <3>1. EdgesIn(f) = {<<u[2], u[3], u[4], u[5]>> : u \in EdgeSet(E)}
      BY <1>1, <1>2, <2>1, Zenon DEF EdgesIn
    <3> QED BY <1>3, <3>1, UntaggedE
  <2>2. CASE SaidE(edges, f.scope) = {}
    BY <1>1, <1>3, <2>2 DEF EdgesIn
  <2> QED BY <2>1, <2>2
<1> QED BY <1>1, <1>4, <1>5 DEF R, E, EffectiveType
-----------------------------------------------------------------------------
(* What the files say of every context together, or of one of them.        *)

LEMMA WeighsPart ==
  ASSUME NEW w, NEW S, Weighs(w, S), NEW T, T \subseteq S
  PROVE  Weighs(w, T)
BY FS_Subset DEF Weighs

LEMMA SumOfImage ==
  ASSUME NEW S, NEW v, Weighs(v, S), NEW g, NEW T, T = {g[x] : x \in S},
         \A x, y \in S : g[x] = g[y] => x = y, NEW w, \A x \in S : w[g[x]] = v[x]
  PROVE  Weighs(w, T) /\ SumOver(w, T) = SumOver(v, S)
<1> DEFINE h == [x \in S |-> g[x]]
<1>1. h \in Bijection(S, T)
  BY DEF Bijection, Injection, Surjection, IsInjective
<1>2. \A x \in S : w[h[x]] = v[x]
  OBVIOUS
<1> HIDE DEF h
<1> QED BY <1>1, <1>2, SumRenamed

LEMMA SumSingle ==
  ASSUME NEW w, NEW x, w[x] \in Nat
  PROVE  Weighs(w, {x}) /\ SumOver(w, {x}) = w[x]
<1>1. Weighs(w, {x}) /\ x \in {x} /\ {x} \ {x} = {}
  <2>1. IsFiniteSet({x})
    BY FS_Singleton
  <2> QED BY <2>1 DEF Weighs
<1>2. SumOver(w, {x}) = w[x] + SumOver(w, {x} \ {x})
  BY <1>1, SumTake
<1> QED BY <1>1, <1>2, SumEmpty

(* The contexts a reader asks for.                                         *)
Asks(ctx, C) == (ctx = All /\ C = Ctxs) \/ (ctx \in Ctxs /\ kind.ctx /\ C = {ctx})
Within(C) == [WholeRun EXCEPT !.ctxs = C]

LEMMA WithinIs ==
  ASSUME NEW C
  PROVE  /\ Within(C).ctxs = C /\ Within(C).lo = 0 /\ Within(C).delta = 0
         /\ Within(C).hi = Max(Addr) + 1 /\ Within(Ctxs) = WholeRun
         /\ \A x \in Addr : /\ x \in Nat /\ Within(C).lo <= x
                            /\ x < Within(C).hi /\ x + Within(C).delta = x
<1>1. /\ Within(C).ctxs = C /\ Within(C).lo = 0 /\ Within(C).delta = 0
      /\ Within(C).hi = Max(Addr) + 1 /\ Within(Ctxs) = WholeRun
  BY DEF Within, WholeRun
<1>2. ASSUME NEW x \in Addr
      PROVE  /\ x \in Nat /\ Within(C).lo <= x
             /\ x < Within(C).hi /\ x + Within(C).delta = x
  <2>1. x \in Nat /\ Max(Addr) \in Nat /\ x <= Max(Addr)
    BY AddrFinite, MaxExists
  <2> QED BY <1>1, <2>1
<1> QED BY <1>1, <1>2

LEMMA OriginalAll ==
  ASSUME WalkInv, TbsRight, phase = "done", KindRight, OneCtx,
         NEW f, Original(f), NEW ctx, NEW C, Asks(ctx, C)
  PROVE  AllRecs(f, ctx) = Said(Did, kind.mode, Within(C))
<1> DEFINE Sel == Selected(Records(f), ctx)
           I == {k \in Ins(Did) : k[1] \in C}
           row(k) == Row_(Did, kind.mode, kind.ctx, k)
           at(x) == {r \in Sel : r[2] = x}
<1>1. C \subseteq Ctxs
  BY DEF Asks
<1>2. \A k : /\ row(k)[1] = Tag(kind.ctx, k[1]) /\ row(k)[2] = k[2]
             /\ row(k)[3] = IF kind.mode = "bare" THEN 0 ELSE Did[k]
  BY DEF Row_
<1>3. Sel = {row(k) : k \in I}
  <2>1. Records(f) = {row(k) : k \in Ins(Did)}
    BY OriginalRead, Zenon DEF Rows
  <2>2. ASSUME NEW k \in Ins(Did) PROVE (ctx = All \/ row(k)[1] = ctx) <=> k[1] \in C
    <3>1. k[1] \in Ctxs /\ All \notin Ctxs
      BY TbTableAssumption DEF Ins, All
    <3> HIDE DEF row
    <3> QED BY <1>2, <3>1 DEF Asks, Tag
  <2> HIDE DEF row
  <2>3. Sel = {r \in Records(f) : ctx = All \/ r[1] = ctx}
    BY DEF Selected
  <2> HIDE DEF Sel
  <2> QED BY <2>1, <2>2, <2>3
<1>4. ASSUME NEW x \in Addr
      PROVE  /\ x \in {r[2] : r \in Sel} <=> In(Did, C, x) > 0
             /\ f.flags.counts => SumFunction([r \in at(x) |-> r[3]]) = In(Did, C, x)
  <2> DEFINE v == [c \in C |-> Did[<<c, x>>]]
             Cx == {c \in C : Did[<<c, x>>] > 0}
             g == [c \in Cx |-> row(<<c, x>>)]
             w == [r \in at(x) |-> r[3]]
  <2>1. /\ Weighs(v, C) /\ SumOver(v, C) = In(Did, C, x) /\ In(Did, C, x) \in Nat
        /\ In(Did, C, x) > 0 <=> Cx # {}
    BY <1>1, InType DEF In
  <2>2. \A c \in Cx : <<c, x>> \in I
    BY <1>1 DEF Ins
  <2>3. \A k \in I : k[2] = x => k[1] \in Cx /\ k = <<k[1], x>>
    BY DEF Ins
  <2>4. at(x) = {g[c] : c \in Cx}
    <3>1. {g[c] : c \in Cx} = {row(<<c, x>>) : c \in Cx}
      BY Zenon
    <3>2. \A c : row(<<c, x>>)[2] = x
      BY <1>2
    <3> HIDE DEF row, g, Cx, I
    <3>3. at(x) = {r \in {row(k) : k \in I} : r[2] = x}
      BY <1>3
    <3> HIDE DEF at
    <3>4. at(x) = {row(<<c, x>>) : c \in Cx}
      <4>1. \A k \in I : row(k)[2] = x => k[1] \in Cx /\ k = <<k[1], x>>
        BY <1>2, <2>3
      <4>2. \A k \in I : row(k)[2] = x => row(k) \in {row(<<c, x>>) : c \in Cx}
        BY ONLY <4>1
      <4>3. \A c \in Cx : row(<<c, x>>) \in {row(k) : k \in I}
        BY ONLY <2>2
      <4> QED BY ONLY <3>2, <3>3, <4>2, <4>3
    <3> QED BY <3>1, <3>4
  <2>5. x \in {r[2] : r \in Sel} <=> In(Did, C, x) > 0
    <3>1. x \in {r[2] : r \in Sel} <=> at(x) # {}
      OBVIOUS
    <3> HIDE DEF at, g, Cx
    <3>2. at(x) # {} <=> Cx # {}
      BY <2>4
    <3> QED BY <2>1, <3>1, <3>2
  <2>6. ASSUME f.flags.counts
        PROVE  SumFunction([r \in at(x) |-> r[3]]) = In(Did, C, x)
    <3>1. kind.mode # "bare"
      BY <2>6, OriginalRead
    <3>2. \A c, d \in Cx : g[c] = g[d] => c = d
      <4> SUFFICES ASSUME NEW c \in Cx, NEW d \in Cx, g[c] = g[d] PROVE c = d
        OBVIOUS
      <4>1. Tag(kind.ctx, c) = Tag(kind.ctx, d)
        <5>1. /\ g[c] = row(<<c, x>>) /\ g[d] = row(<<d, x>>)
              /\ <<c, x>>[1] = c /\ <<d, x>>[1] = d
          OBVIOUS
        <5>2. row(<<c, x>>)[1] = Tag(kind.ctx, c) /\ row(<<d, x>>)[1] = Tag(kind.ctx, d)
          BY DEF Row_
        <5> HIDE DEF row, g
        <5> QED BY <5>1, <5>2, Zenon
      <4>2. c \in Ctxs /\ d \in Ctxs /\ Did[<<c, x>>] > 0 /\ Did[<<d, x>>] > 0
        BY <1>1
      <4> HIDE DEF Cx, g
      <4>3. ~kind.ctx => c = 0 /\ d = 0
        BY <4>2, OnlyCtx
      <4> QED BY <4>1, <4>3 DEF Tag, KindRight
    <3>3. \A c \in Cx : w[g[c]] = v[c]
      <4> SUFFICES ASSUME NEW c \in Cx PROVE w[g[c]] = v[c]
        OBVIOUS
      <4>1. g[c] = row(<<c, x>>) /\ v[c] = Did[<<c, x>>] /\ g[c] \in at(x)
        BY <2>4
      <4>2. w[g[c]] = g[c][3]
        <5> HIDE DEF g, at
        <5> QED BY <4>1
      <4>3. g[c][3] = Did[<<c, x>>]
        <5> HIDE DEF g, row
        <5> QED BY <1>2, <3>1, <4>1
      <4> HIDE DEF w, g, v, at
      <4> QED BY <4>1, <4>2, <4>3
    <3>4. Cx \subseteq C /\ \A c \in C \ Cx : v[c] = 0
      <4>1. \A c \in C : v[c] = Did[<<c, x>>] /\ v[c] \in Nat
        BY <2>1 DEF Weighs
      <4> HIDE DEF v
      <4> QED BY <4>1
    <3>5. SumFunction(w) = SumOver(w, at(x))
      <4>1. DOMAIN w = at(x)
        OBVIOUS
      <4> HIDE DEF w, at
      <4> QED BY <4>1, SumFunctionIsSum, Zenon DEF SumFunction
    <3> HIDE DEF w, g, v, at, Cx
    <3>6. Weighs(v, Cx) /\ SumOver(v, Cx) = SumOver(v, C)
      BY <2>1, <3>4, SumIgnores
    <3>7. SumOver(w, at(x)) = SumOver(v, Cx)
      BY ONLY <2>4, <3>2, <3>3, <3>6, SumOfImage
    <3>8. SumFunction(w) = In(Did, C, x)
      BY <2>1, <3>5, <3>6, <3>7
    <3> QED BY <3>8 DEF w
  <2> QED BY <2>5, <2>6
<1>5. Sel \subseteq Records(f) /\ \A x \in {r[2] : r \in Sel} : x \in Addr
  <2>1. \A k \in I : row(k)[2] \in Addr
    <3>1. \A k \in I : k[2] \in Addr
      BY DEF Ins
    <3> HIDE DEF row, I
    <3> QED BY <1>2, <3>1
  <2> HIDE DEF I, row
  <2>2. Sel \subseteq Records(f)
    BY SelectedIn
  <2> HIDE DEF Sel
  <2> QED BY <1>3, <2>1, <2>2
<1>6. Hit(Did, Within(C)) = {r[2] : r \in Sel}
  <2>1. Hit(Did, Within(C)) = {x \in Addr : In(Did, C, x) > 0}
    BY WithinIs DEF Hit
  <2> HIDE DEF Sel, at
  <2> QED BY <1>4, <1>5, <2>1
<1>7. \A x \in {r[2] : r \in Sel} :
        AllCount(f, ctx, x) = IF kind.mode = "bare" THEN 1 ELSE In(Did, C, x)
  <2> SUFFICES ASSUME NEW x \in {r[2] : r \in Sel}
               PROVE  AllCount(f, ctx, x) = IF kind.mode = "bare" THEN 1
                                            ELSE In(Did, C, x)
    OBVIOUS
  <2>1. AllCount(f, ctx, x) =
          IF f.flags.counts THEN SumFunction([r \in at(x) |-> r[3]]) ELSE 1
    BY DEF AllCount
  <2>2. f.flags.counts = (kind.mode # "bare")
    BY OriginalRead
  <2> HIDE DEF at, Sel
  <2> QED BY <1>4, <1>5, <2>1, <2>2
<1>8. \A x \in Hit(Did, Within(C)) : x + Within(C).delta = x
  BY WithinIs DEF Hit
<1>9. AllRecs(f, ctx) = {<<x, AllCount(f, ctx, x)>> : x \in {r[2] : r \in Sel}}
  BY DEF AllRecs
<1> HIDE DEF Sel, at
<1>10. Within(C).ctxs = C
  BY WithinIs
<1> QED BY <1>6, <1>7, <1>8, <1>9, <1>10 DEF Said
(* A file with one record for an address, or one edge between two.         *)
LEMMA OnePerAddress ==
  ASSUME NEW f, f.flags.counts = TRUE, NEW S, Records(f) = Tagged(S),
         \A r \in S : r = <<r[1], r[2]>> /\ r[2] \in Nat,
         \A r, q \in S : r[1] = q[1] => r = q
  PROVE  AllRecs(f, All) = S
<1> DEFINE t(r) == <<None, r[1], r[2]>>
           Sel == Selected(Records(f), All)
           at(x) == {r \in Sel : r[2] = x}
<1>1. Sel = {t(r) : r \in S}
  BY DEF Selected, Tagged
<1>2. \A r : t(r)[2] = r[1] /\ t(r)[3] = r[2]
  OBVIOUS
<1> HIDE DEF t
<1>3. {r[2] : r \in Sel} = {r[1] : r \in S}
  <2> HIDE DEF Sel
  <2> QED BY <1>1, <1>2
<1>4. ASSUME NEW r \in S PROVE AllCount(f, All, r[1]) = r[2]
  <2> DEFINE w == [q \in at(r[1]) |-> q[3]]
  <2>1. at(r[1]) = {t(r)}
    <3>1. \A q \in S : t(q)[2] = r[1] => q = r
      BY <1>2
    <3>2. t(r) \in Sel /\ t(r)[2] = r[1]
      BY <1>1, <1>2
    <3> HIDE DEF Sel
    <3> QED BY <1>1, <3>1, <3>2
  <2>2. w[t(r)] = r[2] /\ r[2] \in Nat /\ DOMAIN w = at(r[1])
    <3>1. t(r) \in at(r[1])
      BY <2>1
    <3> HIDE DEF at
    <3>2. w[t(r)] = t(r)[3] /\ DOMAIN w = at(r[1])
      BY <3>1
    <3> QED BY <1>2, <3>2
  <2>3. AllCount(f, All, r[1]) = SumFunction(w)
    BY DEF AllCount
  <2> HIDE DEF w, at
  <2>4. SumFunction(w) = SumOver(w, {t(r)})
    BY <2>1, <2>2, SumFunctionIsSum, Zenon DEF SumFunction
  <2>5. SumOver(w, {t(r)}) = w[t(r)]
    BY <2>2, SumSingle
  <2> QED BY <2>2, <2>3, <2>4, <2>5
<1>5. AllRecs(f, All) = {<<x, AllCount(f, All, x)>> : x \in {r[2] : r \in Sel}}
  BY DEF AllRecs
<1> HIDE DEF Sel
<1>6. AllRecs(f, All) = {<<r[1], AllCount(f, All, r[1])>> : r \in S}
  BY <1>3, <1>5
<1>7. \A r \in S : <<r[1], AllCount(f, All, r[1])>> = r
  <2> SUFFICES ASSUME NEW r \in S PROVE <<r[1], AllCount(f, All, r[1])>> = r
    OBVIOUS
  <2>1. r = <<r[1], r[2]>> /\ AllCount(f, All, r[1]) = r[2]
    BY <1>4
  <2>2. PICK x, n : x = r[1] /\ n = r[2]
    OBVIOUS
  <2> QED BY <2>1, <2>2
<1> QED BY <1>6, <1>7

LEMMA OnePerPair ==
  ASSUME NEW f, NEW S, EdgesIn(f) = TaggedE(S),
         \A e \in S : e = <<e[1], e[2], e[3]>> /\ e[3] \in Nat,
         \A e, d \in S : e[1] = d[1] /\ e[2] = d[2] => e = d
  PROVE  AllEdges(f, All) = S
<1> DEFINE t(e) == <<None, e[1], e[2], e[3]>>
           es == Selected(EdgesIn(f), All)
           P == {<<e[2], e[3]>> : e \in es}
           w == [e \in es |-> e[4]]
           at(k) == {e \in es : e[2] = k[1] /\ e[3] = k[2]}
<1>1. es = {t(e) : e \in S}
  BY DEF Selected, TaggedE
<1>2. \A e : t(e)[2] = e[1] /\ t(e)[3] = e[2] /\ t(e)[4] = e[3]
  OBVIOUS
<1> HIDE DEF t
<1>3. P = {<<e[1], e[2]>> : e \in S}
  <2> HIDE DEF es
  <2> QED BY <1>1, <1>2
<1>4. ASSUME NEW e \in S PROVE SumFunctionOnSet(w, at(<<e[1], e[2]>>)) = e[3]
  <2>1. at(<<e[1], e[2]>>) = {t(e)}
    <3>1. \A d \in S : t(d)[2] = e[1] /\ t(d)[3] = e[2] => d = e
      BY <1>2
    <3>2. t(e) \in es /\ t(e)[2] = e[1] /\ t(e)[3] = e[2]
      BY <1>1, <1>2
    <3> HIDE DEF es
    <3> QED BY <1>1, <3>1, <3>2
  <2>2. w[t(e)] = e[3] /\ e[3] \in Nat
    <3>1. t(e) \in es
      BY <1>1
    <3> HIDE DEF es
    <3> QED BY <1>2, <3>1
  <2> HIDE DEF w, at
  <2>3. SumOver(w, {t(e)}) = w[t(e)]
    BY <2>2, SumSingle
  <2> QED BY <2>1, <2>2, <2>3, SumFunctionIsSum
<1>5. AllEdges(f, All) = {<<k[1], k[2], SumFunctionOnSet(w, at(k))>> : k \in P}
  BY DEF AllEdges
<1> HIDE DEF es, w, at, P
<1> DEFINE V(k) == <<k[1], k[2], SumFunctionOnSet(w, at(k))>>
<1>6. AllEdges(f, All) = {V(<<e[1], e[2]>>) : e \in S}
  <2>1. AllEdges(f, All) = {V(k) : k \in P}
    BY <1>5
  <2> HIDE DEF V
  <2> QED BY ONLY <1>3, <2>1
<1>7. \A e \in S : V(<<e[1], e[2]>>) = e
  <2> SUFFICES ASSUME NEW e \in S PROVE V(<<e[1], e[2]>>) = e
    OBVIOUS
  <2>1. /\ e = <<e[1], e[2], e[3]>>
        /\ V(<<e[1], e[2]>>) = <<e[1], e[2], e[3]>>
    BY <1>4
  <2>2. PICK x, y, n : x = e[1] /\ y = e[2] /\ n = e[3]
    OBVIOUS
  <2> HIDE DEF V
  <2> QED BY <2>1, <2>2
<1> HIDE DEF V
<1> QED BY ONLY <1>6, <1>7

LEMMA SaidIs ==
  ASSUME TbsRight, NEW s, Good(s), NEW mode
  PROVE  /\ \A r \in Said(Did, mode, s) :
              r = <<r[1], r[2]>> /\ r[1] \in Int /\ r[2] \in Nat /\ r[2] > 0
         /\ \A r, q \in Said(Did, mode, s) : r[1] = q[1] => r = q
<1> DEFINE n(x) == IF mode = "bare" THEN 1 ELSE In(Did, s.ctxs, x)
<1>1. \A x \in Hit(Did, s) :
        n(x) \in Nat /\ n(x) > 0 /\ x + s.delta \in Int /\ x \in Int /\ s.delta \in Int
  <2> SUFFICES ASSUME NEW x \in Hit(Did, s)
               PROVE  /\ n(x) \in Nat /\ n(x) > 0 /\ x + s.delta \in Int
                      /\ x \in Int /\ s.delta \in Int
    OBVIOUS
  <2>1. x \in Addr /\ In(Did, s.ctxs, x) > 0
    BY DEF Hit
  <2>2. In(Did, s.ctxs, x) \in Nat
    BY <2>1, InType DEF Good
  <2> QED BY <2>1, <2>2, AddrFinite DEF Good
<1>2. Said(Did, mode, s) = {<<x + s.delta, n(x)>> : x \in Hit(Did, s)}
  BY DEF Said
<1> HIDE DEF n
<1>3. ASSUME NEW r \in Said(Did, mode, s)
      PROVE  r = <<r[1], r[2]>> /\ r[1] \in Int /\ r[2] \in Nat /\ r[2] > 0
  BY <1>1, <1>2, <1>3
<1>4. ASSUME NEW r \in Said(Did, mode, s), NEW q \in Said(Did, mode, s), r[1] = q[1]
      PROVE  r = q
  <2>1. PICK x \in Hit(Did, s) : r = <<x + s.delta, n(x)>>
    BY <1>2
  <2>2. PICK y \in Hit(Did, s) : q = <<y + s.delta, n(y)>>
    BY <1>2
  <2>3. x + s.delta = y + s.delta
    BY <1>4, <2>1, <2>2
  <2>4. x = y
    BY <1>1, <2>3
  <2> QED BY <2>1, <2>2, <2>4
<1> QED BY <1>3, <1>4

LEMMA MineIs ==
  ASSUME EdgesRight, NEW s, Good(s)
  PROVE  /\ Mine(edges, s) \subseteq DOMAIN edges
         /\ \A k \in Mine(edges, s) :
              /\ k = <<k[1], k[2], k[3]>> /\ k[1] \in Ctxs
              /\ k[2] \in Addr /\ k[3] \in Addr /\ k[2] \in Nat /\ k[3] \in Nat
         /\ \A p : Weighs(edges, Along(edges, s, p))
         /\ \A p \in Ends(edges, s) :
              /\ p = <<p[1], p[2]>> /\ p[1] \in Addr /\ p[2] \in Addr
              /\ p[1] \in Nat /\ p[2] \in Nat
              /\ SumOver(edges, Along(edges, s, p)) \in Nat
<1>1. Mine(edges, s) \subseteq DOMAIN edges
  BY DEF Mine
<1>2. ASSUME NEW k \in DOMAIN edges
      PROVE  /\ k = <<k[1], k[2], k[3]>> /\ k[1] \in Ctxs
             /\ k[2] \in Addr /\ k[3] \in Addr /\ k[2] \in Nat /\ k[3] \in Nat
  <2>1. k \in Ctxs \X Addr \X Addr
    BY DEF EdgesRight
  <2>2. PICK X, A : X = Ctxs /\ A = Addr
    OBVIOUS
  <2>3. k \in X \X A \X A
    BY <2>1, <2>2, Zenon
  <2>4. k = <<k[1], k[2], k[3]>> /\ k[1] \in X /\ k[2] \in A /\ k[3] \in A
    BY ONLY <2>3
  <2> QED BY <2>2, <2>4, AddrFinite
<1>3. ASSUME NEW p PROVE Weighs(edges, Along(edges, s, p))
  <2>1. Weighs(edges, DOMAIN edges)
    BY DEF EdgesRight, Weighs
  <2>2. Along(edges, s, p) \subseteq DOMAIN edges
    BY DEF Along, Mine
  <2> QED BY <2>1, <2>2, WeighsPart
<1>4. ASSUME NEW p \in Ends(edges, s)
      PROVE  /\ p = <<p[1], p[2]>> /\ p[1] \in Addr /\ p[2] \in Addr
             /\ p[1] \in Nat /\ p[2] \in Nat
             /\ SumOver(edges, Along(edges, s, p)) \in Nat
  <2>1. PICK k \in Mine(edges, s) : p = <<k[2], k[3]>>
    BY DEF Ends
  <2>2. p = <<p[1], p[2]>> /\ p[1] = k[2] /\ p[2] = k[3]
    BY <2>1
  <2>3. SumOver(edges, Along(edges, s, p)) \in Nat
    BY <1>3, SumType
  <2> QED BY <1>1, <1>2, <2>2, <2>3
<1> QED BY <1>1, <1>2, <1>3, <1>4

LEMMA SaidEIs ==
  ASSUME EdgesRight, NEW s, Good(s)
  PROVE  /\ \A e \in SaidE(edges, s) : /\ e = <<e[1], e[2], e[3]>>
                                       /\ e[1] \in Int /\ e[2] \in Int /\ e[3] \in Nat
         /\ \A e, d \in SaidE(edges, s) : e[1] = d[1] /\ e[2] = d[2] => e = d
<1> DEFINE n(p) == SumOver(edges, Along(edges, s, p))
<1>1. \A p \in Ends(edges, s) :
        /\ p = <<p[1], p[2]>> /\ n(p) \in Nat /\ p[1] \in Int /\ p[2] \in Int
        /\ s.delta \in Int /\ p[1] + s.delta \in Int /\ p[2] + s.delta \in Int
  BY MineIs DEF Good
<1>2. SaidE(edges, s) =
        {<<p[1] + s.delta, p[2] + s.delta, n(p)>> : p \in Ends(edges, s)}
  BY DEF SaidE
<1> HIDE DEF n
<1>3. ASSUME NEW e \in SaidE(edges, s)
      PROVE  e = <<e[1], e[2], e[3]>> /\ e[1] \in Int /\ e[2] \in Int /\ e[3] \in Nat
  BY <1>1, <1>2, <1>3
<1>4. ASSUME NEW e \in SaidE(edges, s), NEW d \in SaidE(edges, s),
             e[1] = d[1], e[2] = d[2]
      PROVE  e = d
  <2>1. PICK p \in Ends(edges, s) : e = <<p[1] + s.delta, p[2] + s.delta, n(p)>>
    BY <1>2
  <2>2. PICK q \in Ends(edges, s) : d = <<q[1] + s.delta, q[2] + s.delta, n(q)>>
    BY <1>2
  <2>3. p[1] + s.delta = q[1] + s.delta /\ p[2] + s.delta = q[2] + s.delta
    BY <1>4, <2>1, <2>2
  <2>4. p[1] = q[1] /\ p[2] = q[2]
    BY <1>1, <2>3
  <2>5. p = q
    BY <1>1, <2>4, Zenon
  <2> QED BY <2>1, <2>2, <2>5
<1> QED BY <1>3, <1>4

LEMMA PlainAll ==
  ASSUME TbsRight, EdgesRight, NEW f, Plain(f)
  PROVE  /\ AllRecs(f, All) = Said(Did, kind.mode, f.scope)
         /\ AllEdges(f, All) = SaidE(edges, f.scope)
<1>1. Good(f.scope)
  BY DEF Plain
<1>2. PICK S, E : S = Said(Did, kind.mode, f.scope) /\ E = SaidE(edges, f.scope)
  OBVIOUS
<1>3. f.flags.counts = TRUE /\ Records(f) = Tagged(S) /\ EdgesIn(f) = TaggedE(E)
  BY <1>2, PlainRead
<1>4. /\ \A r \in S : r = <<r[1], r[2]>> /\ r[2] \in Nat
      /\ \A r, q \in S : r[1] = q[1] => r = q
  BY <1>1, <1>2, SaidIs
<1>5. /\ \A e \in E : e = <<e[1], e[2], e[3]>> /\ e[3] \in Nat
      /\ \A e, d \in E : e[1] = d[1] /\ e[2] = d[2] => e = d
  BY <1>1, <1>2, SaidEIs
<1>6. AllRecs(f, All) = S
  BY ONLY <1>3, <1>4, OnePerAddress
<1>7. AllEdges(f, All) = E
  BY ONLY <1>3, <1>5, OnePerPair
<1> QED BY <1>2, <1>6, <1>7

LEMMA OriginalEdges ==
  ASSUME WalkInv, phase = "done", KindRight, OneCtx, EdgesRight,
         NEW f, Original(f), NEW ctx, NEW C, Asks(ctx, C)
  PROVE  AllEdges(f, ctx) = SaidE(edges, Within(C))
<1> DEFINE row(k) == EdgeRow(edges, kind.ctx, k)
           es == Selected(EdgesIn(f), ctx)
           K == {k \in DOMAIN edges : k[1] \in C}
           P == {<<e[2], e[3]>> : e \in es}
           w == [e \in es |-> e[4]]
           at(p) == {e \in es : e[2] = p[1] /\ e[3] = p[2]}
           s == Within(C)
<1>1. \A k : /\ row(k)[1] = Tag(kind.ctx, k[1]) /\ row(k)[2] = k[2]
             /\ row(k)[3] = k[3] /\ row(k)[4] = edges[k]
  BY DEF EdgeRow
<1>2. Good(s)
  <2>1. Max(Addr) + 1 \in Int /\ C \subseteq Ctxs
    <3>1. Max(Addr) \in Nat
      BY AddrFinite, MaxExists
    <3> QED BY <3>1 DEF Asks
  <2> QED BY <2>1, WithinIs DEF Good
<1>3. \A k \in DOMAIN edges :
        /\ k = <<k[1], k[2], k[3]>> /\ k[1] \in Ctxs /\ k[2] \in Addr /\ k[3] \in Addr
  <2> SUFFICES ASSUME NEW k \in DOMAIN edges
               PROVE  /\ k = <<k[1], k[2], k[3]>> /\ k[1] \in Ctxs
                      /\ k[2] \in Addr /\ k[3] \in Addr
    OBVIOUS
  <2>1. k \in Ctxs \X Addr \X Addr
    BY DEF EdgesRight
  <2>2. PICK X, A : X = Ctxs /\ A = Addr
    OBVIOUS
  <2>3. k \in X \X A \X A
    BY <2>1, <2>2, Zenon
  <2>4. k = <<k[1], k[2], k[3]>> /\ k[1] \in X /\ k[2] \in A /\ k[3] \in A
    BY ONLY <2>3
  <2> QED BY <2>2, <2>4
<1>4. K = Mine(edges, s)
  <2> HIDE DEF s
  <2>1. s.ctxs = C /\ \A x \in Addr : s.lo <= x /\ x < s.hi
    BY WithinIs DEF s
  <2> QED BY <1>3, <2>1 DEF Mine
<1>5. es = {row(k) : k \in K}
  <2>1. EdgesIn(f) = {row(k) : k \in DOMAIN edges}
    BY OriginalRead, Zenon DEF EdgeRows
  <2>2. ASSUME NEW k \in DOMAIN edges
        PROVE  (ctx = All \/ row(k)[1] = ctx) <=> k[1] \in C
    <3>1. k[1] \in Ctxs /\ All \notin Ctxs
      BY <1>3, TbTableAssumption DEF All
    <3> HIDE DEF row
    <3> QED BY <1>1, <3>1 DEF Asks, Tag
  <2> HIDE DEF row
  <2>3. es = {e \in EdgesIn(f) : ctx = All \/ e[1] = ctx}
    BY DEF Selected
  <2> HIDE DEF es
  <2> QED BY <2>1, <2>2, <2>3
<1>6. P = Ends(edges, s)
  <2>1. Ends(edges, s) = {<<k[2], k[3]>> : k \in K}
    BY <1>4 DEF Ends
  <2> HIDE DEF row, es, K
  <2>2. \A k : <<row(k)[2], row(k)[3]>> = <<k[2], k[3]>>
    BY <1>1
  <2> QED BY <1>5, <2>1, <2>2
<1>7. ASSUME NEW p \in Ends(edges, s)
      PROVE  SumFunctionOnSet(w, at(p)) = SumOver(edges, Along(edges, s, p))
  <2> DEFINE A == Along(edges, s, p)
             g == [k \in A |-> row(k)]
  <2>1. /\ A = {k \in K : k[2] = p[1] /\ k[3] = p[2]} /\ Weighs(edges, A)
    <3>1. p = <<p[1], p[2]>>
      BY <1>2, MineIs
    <3>2. Weighs(edges, Along(edges, s, p))
      BY <1>2, MineIs
    <3> HIDE DEF K, s
    <3>3. \A k : <<k[2], k[3]>> = p <=> k[2] = p[1] /\ k[3] = p[2]
      BY <3>1
    <3> QED BY <1>4, <3>2, <3>3 DEF Along
  <2>2. at(p) = {g[k] : k \in A}
    <3>1. {g[k] : k \in A} = {row(k) : k \in A}
      BY Zenon
    <3> HIDE DEF row, es, K, g, A
    <3>2. at(p) = {row(k) : k \in A}
      BY <1>1, <1>5, <2>1
    <3> QED BY <3>1, <3>2
  <2>3. \A k, j \in A : g[k] = g[j] => k = j
    <3> SUFFICES ASSUME NEW k \in A, NEW j \in A, g[k] = g[j] PROVE k = j
      OBVIOUS
    <3>1. row(k) = row(j)
      OBVIOUS
    <3> HIDE DEF row, g, A, K
    <3>2. /\ Tag(kind.ctx, k[1]) = Tag(kind.ctx, j[1])
          /\ k[2] = j[2] /\ k[3] = j[3]
      BY <1>1, <3>1
    <3>3. k \in DOMAIN edges /\ j \in DOMAIN edges
      BY <2>1 DEF K
    <3>4. k[1] = j[1]
      BY <3>2, <3>3 DEF Tag, OneCtx, KindRight
    <3>5. k = <<k[1], k[2], k[3]>> /\ j = <<j[1], j[2], j[3]>>
      BY <1>3, <3>3
    <3> QED BY <3>2, <3>4, <3>5, Zenon
  <2>4. \A k \in A : w[g[k]] = edges[k]
    <3> SUFFICES ASSUME NEW k \in A PROVE w[g[k]] = edges[k]
      OBVIOUS
    <3>1. g[k] = row(k)
      OBVIOUS
    <3>2. row(k) \in es
      <4> HIDE DEF row, es, A
      <4> QED BY <1>5, <2>1
    <3>3. w[row(k)] = row(k)[4]
      <4> HIDE DEF row, es
      <4> QED BY <3>2
    <3> HIDE DEF w, row, g
    <3> QED BY <1>1, <3>1, <3>3
  <2> HIDE DEF w, g, A, at
  <2>5. SumOver(w, at(p)) = SumOver(edges, A)
    <3>1. Weighs(edges, A)
      BY <2>1
    <3> QED BY ONLY <3>1, <2>2, <2>3, <2>4, SumOfImage
  <2> QED BY <2>5, SumFunctionIsSum DEF A
<1>8. AllEdges(f, ctx) = {<<p[1], p[2], SumFunctionOnSet(w, at(p))>> : p \in P}
  BY DEF AllEdges
<1>9. \A p \in Ends(edges, s) : p[1] + s.delta = p[1] /\ p[2] + s.delta = p[2]
  BY <1>2, MineIs, WithinIs
<1> HIDE DEF w, at, P, s, es
<1> QED BY <1>6, <1>7, <1>8, <1>9 DEF SaidE, s
(* A window of what is said is what there is to say of a smaller part.     *)
LEMMA BestOfTwo ==
  ASSUME NEW u \in Int, NEW v \in Int
  PROVE  /\ Max({u, v}) \in Int /\ Min({u, v}) \in Int
         /\ \A x \in Int : Max({u, v}) <= x <=> u <= x /\ v <= x
         /\ \A x \in Int : x < Min({u, v}) <=> x < u /\ x < v
<1>1. /\ \E x \in {u, v} : \A y \in {u, v} : x >= y
      /\ \E x \in {u, v} : \A y \in {u, v} : x <= y
  <2>1. u <= v \/ v <= u
    OBVIOUS
  <2> QED BY <2>1
<1>2. /\ Max({u, v}) \in {u, v} /\ \A y \in {u, v} : Max({u, v}) >= y
      /\ Min({u, v}) \in {u, v} /\ \A y \in {u, v} : Min({u, v}) <= y
  BY <1>1, Zenon DEF Max, Min
<1>3. PICK m, n : m = Max({u, v}) /\ n = Min({u, v})
  OBVIOUS
<1>4. /\ m \in Int /\ n \in Int /\ m >= u /\ m >= v /\ n <= u /\ n <= v
      /\ m = u \/ m = v
      /\ n = u \/ n = v
  BY <1>2, <1>3
<1>5. /\ \A x \in Int : m <= x <=> u <= x /\ v <= x
      /\ \A x \in Int : x < n <=> x < u /\ x < v
  BY ONLY <1>4, u \in Int, v \in Int
<1> QED BY <1>3, <1>4, <1>5

Narrowed(s, lo, hi, delta) ==
  [ctxs |-> s.ctxs, lo |-> Max({s.lo, lo - s.delta}),
   hi |-> Min({s.hi, hi - s.delta}), delta |-> s.delta + delta]

LEMMA NarrowedIs ==
  ASSUME NEW s, Good(s), NEW lo \in Int, NEW hi \in Int, NEW delta \in Int,
         NEW t, t = Narrowed(s, lo, hi, delta)
  PROVE  /\ Good(t) /\ t.ctxs = s.ctxs /\ t.delta = s.delta + delta
         /\ \A x \in Int : t.lo <= x /\ x < t.hi <=>
              /\ s.lo <= x /\ x < s.hi
              /\ lo <= x + s.delta /\ x + s.delta < hi
         /\ \A x \in Int : x + t.delta = (x + s.delta) + delta
<1>1. /\ s.lo \in Int /\ s.hi \in Int /\ s.delta \in Int
      /\ lo - s.delta \in Int /\ hi - s.delta \in Int
  BY DEF Good
<1>2. /\ t.ctxs = s.ctxs /\ t.delta = s.delta + delta
      /\ t.lo = Max({s.lo, lo - s.delta}) /\ t.hi = Min({s.hi, hi - s.delta})
  BY DEF Narrowed
<1>3. /\ t.lo \in Int /\ t.hi \in Int
      /\ \A x \in Int : t.lo <= x <=> s.lo <= x /\ lo - s.delta <= x
      /\ \A x \in Int : x < t.hi <=> x < s.hi /\ x < hi - s.delta
  <2>1. PICK u \in Int, v \in Int, c \in Int, d \in Int :
          u = s.lo /\ v = lo - s.delta /\ c = s.hi /\ d = hi - s.delta
    BY <1>1
  <2>2. t.lo = Max({u, v}) /\ t.hi = Min({c, d})
    BY <1>2, <2>1
  <2>3. /\ Max({u, v}) \in Int /\ Min({c, d}) \in Int
        /\ \A x \in Int : Max({u, v}) <= x <=> u <= x /\ v <= x
        /\ \A x \in Int : x < Min({c, d}) <=> x < c /\ x < d
    BY ONLY BestOfTwo
  <2> QED BY <2>1, <2>2, <2>3
<1>4. PICK d \in Int : d = s.delta
  BY <1>1
<1>5. \A x \in Int : /\ lo - d <= x <=> lo <= x + d
                     /\ x < hi - d <=> x + d < hi
                     /\ x + (d + delta) = (x + d) + delta
  OBVIOUS
<1>6. \A x \in Int : t.lo <= x /\ x < t.hi <=>
        /\ s.lo <= x /\ x < s.hi
        /\ lo <= x + s.delta /\ x + s.delta < hi
  <2> SUFFICES ASSUME NEW x \in Int
               PROVE  t.lo <= x /\ x < t.hi <=>
                        /\ s.lo <= x /\ x < s.hi
                        /\ lo <= x + s.delta /\ x + s.delta < hi
    OBVIOUS
  <2>1. /\ t.lo <= x <=> s.lo <= x /\ lo - s.delta <= x
        /\ x < t.hi <=> x < s.hi /\ x < hi - s.delta
        /\ lo - s.delta <= x <=> lo <= x + s.delta
        /\ x < hi - s.delta <=> x + s.delta < hi
    BY <1>3, <1>4, <1>5
  <2> QED BY <2>1, Zenon
<1>7. \A x \in Int : x + t.delta = (x + s.delta) + delta
  BY <1>2, <1>4, <1>5
<1>8. Good(t)
  BY <1>1, <1>2, <1>3 DEF Good
<1> QED BY <1>2, <1>6, <1>7, <1>8

LEMMA WindowSays ==
  ASSUME TbsRight, EdgesRight, NEW s, Good(s), NEW mode,
         NEW lo \in Int, NEW hi \in Int, NEW delta \in Int,
         NEW t, t = Narrowed(s, lo, hi, delta)
  PROVE  /\ Said(Did, mode, t) =
              {<<r[1] + delta, r[2]>> :
                 r \in {q \in Said(Did, mode, s) : lo <= q[1] /\ q[1] < hi}}
         /\ SaidE(edges, t) =
              {<<e[1] + delta, e[2] + delta, e[3]>> :
                 e \in {q \in SaidE(edges, s) : /\ lo <= q[1] /\ q[1] < hi
                                                /\ lo <= q[2] /\ q[2] < hi}}
<1> DEFINE n(x) == IF mode = "bare" THEN 1 ELSE In(Did, s.ctxs, x)
           at(x) == x + s.delta
           in(y) == lo <= y /\ y < hi
           m(p) == SumOver(edges, Along(edges, s, p))
<1>1. /\ Good(t) /\ t.ctxs = s.ctxs
      /\ \A x \in Int : t.lo <= x /\ x < t.hi <=> s.lo <= x /\ x < s.hi /\ in(at(x))
      /\ \A x \in Int : x + t.delta = at(x) + delta
  BY NarrowedIs
<1>2. Said(Did, mode, t) =
        {<<r[1] + delta, r[2]>> : r \in {q \in Said(Did, mode, s) : in(q[1])}}
  <2>1. \A x \in Addr : x \in Int
    BY AddrFinite
  <2>2. Said(Did, mode, s) = {<<at(x), n(x)>> : x \in Hit(Did, s)}
    BY DEF Said
  <2> HIDE DEF n, at, in
  <2>3. Hit(Did, t) = {x \in Hit(Did, s) : in(at(x))}
    BY <1>1, <2>1 DEF Hit
  <2>4. \A x \in Hit(Did, t) : x + t.delta = at(x) + delta
    BY <1>1, <2>1 DEF Hit
  <2>5. Said(Did, mode, t) = {<<at(x) + delta, n(x)>> : x \in Hit(Did, t)}
    BY <1>1, <2>4 DEF Said, n
  <2>6. {q \in Said(Did, mode, s) : in(q[1])} = {<<at(x), n(x)>> : x \in Hit(Did, t)}
    BY <2>2, <2>3
  <2> DEFINE g(x) == <<at(x), n(x)>>
             h(r) == <<r[1] + delta, r[2]>>
  <2>7. \A x : h(g(x)) = <<at(x) + delta, n(x)>>
    OBVIOUS
  <2>8. {q \in Said(Did, mode, s) : in(q[1])} = {g(x) : x \in Hit(Did, t)}
    BY <2>6
  <2> HIDE DEF g, h
  <2>9. Said(Did, mode, t) = {h(g(x)) : x \in Hit(Did, t)}
    BY <2>5, <2>7
  <2>10. Said(Did, mode, t) = {h(r) : r \in {q \in Said(Did, mode, s) : in(q[1])}}
    BY ONLY <2>8, <2>9
  <2> QED BY <2>10 DEF h
<1>3. SaidE(edges, t) =
        {<<e[1] + delta, e[2] + delta, e[3]>> :
           e \in {q \in SaidE(edges, s) : in(q[1]) /\ in(q[2])}}
  <2> DEFINE g(p) == <<at(p[1]), at(p[2]), m(p)>>
             h(e) == <<e[1] + delta, e[2] + delta, e[3]>>
  <2>1. SaidE(edges, s) = {g(p) : p \in Ends(edges, s)}
    BY DEF SaidE
  <2>2. \A k \in Mine(edges, s) : k[2] \in Int /\ k[3] \in Int
    BY MineIs
  <2>3. \A k \in Mine(edges, t) : k[2] \in Int /\ k[3] \in Int
    BY <1>1, MineIs
  <2> HIDE DEF at, in
  <2>4. Mine(edges, t) = {k \in Mine(edges, s) : in(at(k[2])) /\ in(at(k[3]))}
    <3>1. \A k \in DOMAIN edges : k[2] \in Int /\ k[3] \in Int =>
            (k \in Mine(edges, t) <=>
               k \in Mine(edges, s) /\ in(at(k[2])) /\ in(at(k[3])))
      BY <1>1 DEF Mine
    <3>2. /\ \A k \in Mine(edges, t) : k \in DOMAIN edges
          /\ \A k \in Mine(edges, s) : k \in DOMAIN edges
      BY DEF Mine
    <3> QED BY <2>2, <2>3, <3>1, <3>2
  <2>5. Ends(edges, t) = {p \in Ends(edges, s) : in(at(p[1])) /\ in(at(p[2]))}
    BY <2>4 DEF Ends
  <2>6. \A p \in Ends(edges, t) : Along(edges, t, p) = Along(edges, s, p)
    <3> SUFFICES ASSUME NEW p \in Ends(edges, t), NEW k \in Mine(edges, s),
                        <<k[2], k[3]>> = p
                 PROVE  k \in Mine(edges, t)
      BY <2>4 DEF Along
    <3>1. in(at(p[1])) /\ in(at(p[2])) /\ k[2] = p[1] /\ k[3] = p[2]
      BY <2>5
    <3> QED BY <2>4, <3>1
  <2>7. \A p \in Ends(edges, t) :
          /\ p[1] + t.delta = at(p[1]) + delta /\ p[2] + t.delta = at(p[2]) + delta
    BY <1>1, MineIs
  <2>8. SaidE(edges, t) =
          {<<at(p[1]) + delta, at(p[2]) + delta, m(p)>> : p \in Ends(edges, t)}
    BY <2>6, <2>7 DEF SaidE
  <2>9. \A p : /\ g(p)[1] = at(p[1]) /\ g(p)[2] = at(p[2])
               /\ h(g(p)) = <<at(p[1]) + delta, at(p[2]) + delta, m(p)>>
    OBVIOUS
  <2> HIDE DEF g, h, m
  <2>10. {q \in SaidE(edges, s) : in(q[1]) /\ in(q[2])} = {g(p) : p \in Ends(edges, t)}
    <3>1. \A p : in(g(p)[1]) /\ in(g(p)[2]) <=> in(at(p[1])) /\ in(at(p[2]))
      BY <2>9
    <3> QED BY ONLY <2>1, <2>5, <3>1
  <2>11. SaidE(edges, t) = {h(g(p)) : p \in Ends(edges, t)}
    BY <2>8, <2>9
  <2>12. SaidE(edges, t) =
           {h(e) : e \in {q \in SaidE(edges, s) : in(q[1]) /\ in(q[2])}}
    BY <2>10, <2>11
  <2> QED BY <2>12 DEF h
<1> QED BY <1>2, <1>3

(* One context, taken out of the artifact.                                 *)
LEMMA ExtractSays ==
  ASSUME WalkInv, TbsRight, phase = "done", KindRight, EdgesRight, NEW f, Original(f),
         kind.ctx, NEW c \in Ctxs
  PROVE  /\ {<<r[2], IF r[3] = 0 THEN 1 ELSE r[3]>> : r \in Selected(Records(f), c)}
              = Said(Did, kind.mode, Within({c}))
         /\ {<<e[2], e[3], e[4]>> : e \in Selected(EdgesIn(f), c)}
              = SaidE(edges, Within({c}))
         /\ [f.scope EXCEPT !.ctxs = @ \cap {c}] = Within({c})
         /\ Good(Within({c}))
<1> DEFINE row(k) == Row_(Did, kind.mode, TRUE, k)
           erow(k) == EdgeRow(edges, TRUE, k)
           I == {k \in Ins(Did) : k[1] = c}
           K == {k \in DOMAIN edges : k[1] = c}
           n(r) == IF r[3] = 0 THEN 1 ELSE r[3]
           s == Within({c})
<1>1. kind.ctx = TRUE /\ c # All
  BY TbTableAssumption DEF KindRight, All
<1>2. Selected(Records(f), c) = {row(k) : k \in I}
  <2>1. Records(f) = {row(k) : k \in Ins(Did)}
    BY <1>1, OriginalRead, Zenon DEF Rows
  <2>2. \A k : row(k)[1] = k[1]
    BY DEF Row_, Tag
  <2> HIDE DEF row
  <2> QED BY <1>1, <2>1, <2>2 DEF Selected
<1>3. Selected(EdgesIn(f), c) = {erow(k) : k \in K}
  <2>1. EdgesIn(f) = {erow(k) : k \in DOMAIN edges}
    BY <1>1, OriginalRead, Zenon DEF EdgeRows
  <2>2. \A k : erow(k)[1] = k[1]
    BY DEF EdgeRow, Tag
  <2> HIDE DEF erow
  <2> QED BY <1>1, <2>1, <2>2 DEF Selected
<1>4. Good(s)
  <2>1. Max(Addr) \in Nat
    BY AddrFinite, MaxExists
  <2>2. Max(Addr) + 1 \in Int
    BY <2>1
  <2> QED BY <2>2, WithinIs DEF Good
<1>5. \A x \in Addr : In(Did, {c}, x) = Did[<<c, x>>] /\ Did[<<c, x>>] \in Nat
  <2> SUFFICES ASSUME NEW x \in Addr
               PROVE  In(Did, {c}, x) = Did[<<c, x>>] /\ Did[<<c, x>>] \in Nat
    OBVIOUS
  <2>1. PICK w : w = [d \in {c} |-> Did[<<d, x>>]]
    OBVIOUS
  <2>2. w[c] = Did[<<c, x>>] /\ w[c] \in Nat
    BY <2>1, DidType
  <2>3. SumOver(w, {c}) = w[c]
    BY <2>2, SumSingle
  <2> QED BY <2>1, <2>2, <2>3, Zenon DEF In
<1>6. {<<r[2], n(r)>> : r \in Selected(Records(f), c)} = Said(Did, kind.mode, s)
  <2>1. ASSUME NEW k \in I
        PROVE  /\ k[2] \in Addr /\ k = <<c, k[2]>> /\ Did[k] > 0 /\ Did[k] \in Nat
               /\ row(k)[2] = k[2]
               /\ n(row(k)) = IF kind.mode = "bare" THEN 1 ELSE Did[k]
    <3>1. k[2] \in Addr /\ k = <<c, k[2]>> /\ Did[k] > 0 /\ Did[k] \in Nat
      BY DidType DEF Ins
    <3>2. row(k)[2] = k[2] /\ row(k)[3] = IF kind.mode = "bare" THEN 0 ELSE Did[k]
      BY DEF Row_
    <3> HIDE DEF row, I
    <3> QED BY <3>1, <3>2
  <2>2. Hit(Did, s) = {k[2] : k \in I}
    <3>1. Hit(Did, s) = {x \in Addr : In(Did, {c}, x) > 0}
      BY WithinIs DEF Hit
    <3>2. \A x \in Addr : Did[<<c, x>>] > 0 => <<c, x>> \in I
      BY DEF Ins
    <3>3. \A x : <<c, x>>[2] = x
      OBVIOUS
    <3> HIDE DEF I, row, n, s
    <3>4. ASSUME NEW k \in I PROVE k[2] \in Addr /\ In(Did, {c}, k[2]) > 0
      <4>1. k[2] \in Addr /\ k = <<c, k[2]>> /\ Did[k] > 0
        BY <2>1
      <4>2. Did[k] = Did[<<c, k[2]>>]
        BY <4>1, Zenon
      <4> QED BY <1>5, <4>1, <4>2
    <3>5. \A x \in Addr : In(Did, {c}, x) > 0 => \E k \in I : k[2] = x
      BY <1>5, <3>2, <3>3
    <3> QED BY <3>1, <3>4, <3>5
  <2>3. Said(Did, kind.mode, s) =
          {<<x, IF kind.mode = "bare" THEN 1 ELSE Did[<<c, x>>]>> : x \in Hit(Did, s)}
    <3>1. \A x \in Hit(Did, s) :
            x + s.delta = x /\ In(Did, s.ctxs, x) = Did[<<c, x>>]
      BY <1>5, WithinIs DEF Hit
    <3> HIDE DEF s
    <3> QED BY <3>1 DEF Said
  <2> HIDE DEF I, row, n, s
  <2>4. Said(Did, kind.mode, s) = {<<row(k)[2], n(row(k))>> : k \in I}
    <3> DEFINE g(x) == <<x, IF kind.mode = "bare" THEN 1 ELSE Did[<<c, x>>]>>
    <3>1. \A k \in I : g(k[2]) = <<row(k)[2], n(row(k))>>
      BY <2>1
    <3>2. Said(Did, kind.mode, s) = {g(x) : x \in Hit(Did, s)}
      BY <2>3
    <3> HIDE DEF g
    <3> QED BY ONLY <2>2, <3>1, <3>2
  <2> QED BY <1>2, <2>4
<1>7. {<<e[2], e[3], e[4]>> : e \in Selected(EdgesIn(f), c)} = SaidE(edges, s)
  <2>1. Mine(edges, s) = K
    <3>1. \A k \in DOMAIN edges : k[2] \in Addr /\ k[3] \in Addr
      <4> SUFFICES ASSUME NEW k \in DOMAIN edges PROVE k[2] \in Addr /\ k[3] \in Addr
        OBVIOUS
      <4>1. PICK X, A : X = Ctxs /\ A = Addr
        OBVIOUS
      <4>2. k \in X \X A \X A
        BY <4>1 DEF EdgesRight
      <4>3. k[2] \in A /\ k[3] \in A
        BY ONLY <4>2
      <4> QED BY <4>1, <4>3
    <3>2. s.ctxs = {c} /\ \A x \in Addr : s.lo <= x /\ x < s.hi
      BY WithinIs
    <3> HIDE DEF s
    <3> QED BY <3>1, <3>2 DEF Mine
  <2>2. \A k \in K : /\ k = <<c, k[2], k[3]>> /\ edges[k] \in Nat
                     /\ k[2] \in Nat /\ k[3] \in Nat
    <3> SUFFICES ASSUME NEW k \in K
                 PROVE  /\ k = <<c, k[2], k[3]>> /\ edges[k] \in Nat
                        /\ k[2] \in Nat /\ k[3] \in Nat
      OBVIOUS
    <3>1. k \in Mine(edges, s)
      BY <2>1
    <3>2. k = <<k[1], k[2], k[3]>> /\ k[2] \in Nat /\ k[3] \in Nat
      BY <1>4, <3>1, MineIs
    <3>3. k[1] = c /\ edges[k] \in Nat
      BY DEF EdgesRight
    <3> QED BY <3>2, <3>3
  <2>3. ASSUME NEW k \in K
        PROVE  SumOver(edges, Along(edges, s, <<k[2], k[3]>>)) = edges[k]
    <3>1. Along(edges, s, <<k[2], k[3]>>) = {k}
      <4>1. \A j \in K : <<j[2], j[3]>> = <<k[2], k[3]>> => j = k
        <5> SUFFICES ASSUME NEW j \in K, <<j[2], j[3]>> = <<k[2], k[3]>> PROVE j = k
          OBVIOUS
        <5>1. j[2] = k[2] /\ j[3] = k[3]
          OBVIOUS
        <5>2. j = <<c, j[2], j[3]>> /\ k = <<c, k[2], k[3]>>
          BY <2>2
        <5> QED BY <5>1, <5>2, Zenon
      <4> HIDE DEF K, s
      <4> QED BY <2>1, <4>1 DEF Along
    <3>2. edges[k] \in Nat
      BY <2>2
    <3> QED BY <3>1, <3>2, SumSingle
  <2>4. \A k \in K : k[2] + s.delta = k[2] /\ k[3] + s.delta = k[3]
    <3>1. s.delta = 0
      BY WithinIs
    <3> HIDE DEF s
    <3> QED BY <2>2, <3>1
  <2>5. SaidE(edges, s) = {<<k[2], k[3], edges[k]>> : k \in K}
    <3> DEFINE g(p) == <<p[1] + s.delta, p[2] + s.delta,
                         SumOver(edges, Along(edges, s, p))>>
    <3>1. SaidE(edges, s) = {g(p) : p \in {<<k[2], k[3]>> : k \in K}}
      BY <2>1 DEF SaidE, Ends
    <3>2. \A k \in K : g(<<k[2], k[3]>>) = <<k[2], k[3], edges[k]>>
      <4> SUFFICES ASSUME NEW k \in K
                   PROVE  g(<<k[2], k[3]>>) = <<k[2], k[3], edges[k]>>
        OBVIOUS
      <4>1. SumOver(edges, Along(edges, s, <<k[2], k[3]>>)) = edges[k]
        BY <2>3
      <4> HIDE DEF s, K
      <4> QED BY <2>4, <4>1
    <3> HIDE DEF g, K, s
    <3> QED BY <3>1, <3>2
  <2>6. \A k : <<erow(k)[2], erow(k)[3], erow(k)[4]>> = <<k[2], k[3], edges[k]>>
    BY DEF EdgeRow
  <2> HIDE DEF K, erow, s
  <2> QED BY <1>3, <2>5, <2>6
<1>8. [f.scope EXCEPT !.ctxs = @ \cap {c}] = Within({c})
  <2>1. f.scope = WholeRun
    BY DEF Original
  <2>2. WholeRun.ctxs \cap {c} = {c}
    BY DEF WholeRun
  <2> QED BY <2>1, <2>2 DEF Within
<1> QED BY <1>4, <1>6, <1>7, <1>8
-----------------------------------------------------------------------------
(* Every file tells of its part of the run, unless it was cut short.       *)

Says(f) == f = Absent \/ (Shape(f) /\ Len(f.bytes) < Written(f)) \/ Told(f)

SaysInv ==
  /\ KindRight /\ EdgesRight /\ OneCtx
  /\ writing # <<>> => phase = "done"
  /\ \A p \in Paths : \A f : f = files[p] => Says(f)
  /\ \A i \in DOMAIN writing : \A f : f = writing[i].file => Told(f)

LEMMA SameTold ==
  ASSUME kind' = kind, edges' = edges, tbs' = tbs, filter' = filter
  PROVE  /\ \A f : Told(f)' <=> Told(f)
         /\ \A f : Says(f)' <=> Says(f)
         /\ (KindRight /\ EdgesRight /\ OneCtx) => (KindRight /\ EdgesRight /\ OneCtx)'
<1>1. Table' = Table /\ Did' = Did /\ \A i : ExitsOf(i)' = ExitsOf(i)
  BY SameTable, SameExits, SameDid
<1>2. AllExits' = AllExits
  BY <1>1 DEF AllExits
<1>3. TableUnits(Table)' = TableUnits(Table)
  BY <1>1 DEF TableUnits, CtxOf
<1>4. \A f : Original(f)' <=> Original(f)
  BY <1>1, <1>2, <1>3 DEF Original
<1>5. \A f : Plain(f)' <=> Plain(f)
  BY <1>1 DEF Plain
<1>6. \A f : Told(f)' <=> Told(f)
  BY <1>4, <1>5 DEF Told
<1>7. \A f : Says(f)' <=> Says(f)
  BY <1>6 DEF Says
<1>8. (KindRight /\ EdgesRight /\ OneCtx) => (KindRight /\ EdgesRight /\ OneCtx)'
  BY DEF KindRight, EdgesRight, OneCtx
<1> QED BY <1>6, <1>7, <1>8

(* A file that is read is a whole one.                                     *)
LEMMA ReadTold ==
  ASSUME SaysInv, NEW p \in Paths, Readable(files[p])
  PROVE  Told(files[p]) /\ ParseHeader(files[p]) /\ Shape(files[p])
<1>1. PICK f : f = files[p]
  OBVIOUS
<1>2. Says(f) /\ f.there /\ ParseHeader(f)
  BY <1>1 DEF SaysInv, Readable
<1>3. Told(f)
  BY <1>2, UnfinishedRefused DEF Says, Absent
<1> QED BY <1>1, <1>2, <1>3 DEF Told, Complete

LEMMA WrittenTold ==
  ASSUME NEW meta, IsSeq(meta), Range(meta) \subseteq Words,
         NEW s, Good(s), NEW recs, IsFiniteSet(recs), NEW es, IsFiniteSet(es),
         recs = Said(Did, kind.mode, s), es = SaidE(edges, s)
  PROVE  Told(WriteCov(meta, recs, es, 2, s))
<1>1. PICK f : f = WriteCov(meta, recs, es, 2, s)
  OBVIOUS
<1>2. /\ Complete(f) /\ f.scope = s
      /\ f.flags = [type |-> 2, counts |-> TRUE, ctx |-> FALSE,
                    table |-> FALSE, edges |-> es # {}]
      /\ Part(f, "meta") = meta
      /\ Range(Part(f, "rec")) = RecSet(Tagged(recs))
      /\ Range(Part(f, "edge")) = EdgeSet(TaggedE(es))
  BY <1>1, WriteCovIs
<1>3. Plain(f)
  BY <1>2 DEF Plain
<1> QED BY <1>1, <1>2, <1>3 DEF Told

LEMMA AddWord ==
  ASSUME NEW f, Told(f), NEW w \in {"window", "context"}
  PROVE  LET meta == Append(Part(f, "meta"), Word(w))
         IN IsSeq(meta) /\ Range(meta) \subseteq Words
<1>1. Shape(f) /\ ParseHeader(f) /\ Range(Part(f, "meta")) \subseteq Words
  BY FinishedAccepted DEF Told, Complete
<1>2. IsSeq(Part(f, "meta"))
  BY <1>1, PartIs DEF Sections
<1>3. PICK s, u, r : s = Part(f, "meta") /\ u = Word(w) /\ r = Append(s, u)
  OBVIOUS
<1>4. IsSeq(r) /\ Range(r) = Range(s) \union {u}
  BY <1>2, <1>3, AppendIs
<1>5. u \in Words
  BY <1>3 DEF Words
<1> QED BY <1>1, <1>3, <1>4, <1>5

LEMMA ExtractTold ==
  ASSUME WalkInv, SaysInv, phase = "done", NEW f, Told(f), f.flags.ctx, NEW c \in Ctxs
  PROVE  Told(WriteCov(Append(Part(f, "meta"), Word("context")),
                {<<r[2], IF r[3] = 0 THEN 1 ELSE r[3]>> : r \in Selected(Records(f), c)},
                {<<e[2], e[3], e[4]>> : e \in Selected(EdgesIn(f), c)},
                IF Expands(f) THEN 2 ELSE f.flags.type,
                [f.scope EXCEPT !.ctxs = @ \cap {c}]))
<1> DEFINE K == Selected(Records(f), c)
           E == Selected(EdgesIn(f), c)
           k == [r \in K |-> <<r[2], IF r[3] = 0 THEN 1 ELSE r[3]>>]
           e == [x \in E |-> <<x[2], x[3], x[4]>>]
           R == {<<r[2], IF r[3] = 0 THEN 1 ELSE r[3]>> : r \in K}
           D == {<<x[2], x[3], x[4]>> : x \in E}
           meta == Append(Part(f, "meta"), Word("context"))
           t == IF Expands(f) THEN 2 ELSE f.flags.type
           s == [f.scope EXCEPT !.ctxs = @ \cap {c}]
<1>1. /\ Shape(f) /\ ParseHeader(f)
      /\ TbsRight /\ KindRight /\ EdgesRight /\ OneCtx
  BY FinishedAccepted DEF Told, Complete, SaysInv, WalkInv
<1>2. Original(f)
  BY PlainRead DEF Told
<1>3. kind.ctx /\ t = 2
  BY <1>1, <1>2, OriginalRead
<1>4. /\ R = Said(Did, kind.mode, Within({c})) /\ D = SaidE(edges, Within({c}))
      /\ s = Within({c}) /\ Good(Within({c}))
  BY <1>1, <1>2, <1>3, ExtractSays
<1>5. IsFiniteSet(K) /\ IsFiniteSet(E)
  BY <1>1, RecordsFinite, SelectedIn, FS_Subset
<1>6. {k[r] : r \in K} = R /\ {e[x] : x \in E} = D
  BY Zenon
<1>7. IsFiniteSet(R) /\ IsFiniteSet(D)
  <2> HIDE DEF K, E, k, e
  <2>1. IsFiniteSet({k[r] : r \in K}) /\ IsFiniteSet({e[x] : x \in E})
    BY <1>5, ImageFinite
  <2> QED BY <1>6, <2>1, Zenon
<1>8. IsSeq(meta) /\ Range(meta) \subseteq Words
  BY AddWord, Zenon
<1> HIDE DEF R, D, meta, t, s
<1>9. Told(WriteCov(meta, R, D, 2, Within({c})))
  BY <1>4, <1>7, <1>8, WrittenTold
<1>10. Told(WriteCov(meta, R, D, t, s))
  BY <1>3, <1>4, <1>9
<1> QED BY <1>10, Zenon DEF R, D, meta, t, s

(* What the reader gets from a file for a context, or for all of them.     *)
LEMMA ToldAll ==
  ASSUME WalkInv, SaysInv, phase = "done", NEW f, Told(f), NEW ctx,
         ctx = All \/ (ctx \in Ctxs /\ f.flags.ctx)
  PROVE  \E s : /\ Good(s) /\ AllRecs(f, ctx) = Said(Did, kind.mode, s)
                /\ AllEdges(f, ctx) = SaidE(edges, s)
                /\ s.ctxs = IF ctx = All THEN f.scope.ctxs ELSE {ctx}
                /\ s.lo = f.scope.lo /\ s.hi = f.scope.hi /\ s.delta = f.scope.delta
                /\ ctx = All => s = f.scope
                /\ EffectiveType(f) = 2
<1>1. TbsRight /\ KindRight /\ EdgesRight /\ OneCtx
  BY DEF SaysInv, WalkInv
<1>2. CASE Plain(f)
  <2>1. ctx = All
    BY <1>2, PlainRead
  <2>2. /\ AllRecs(f, All) = Said(Did, kind.mode, f.scope)
        /\ AllEdges(f, All) = SaidE(edges, f.scope)
    BY <1>1, <1>2, PlainAll
  <2>3. Good(f.scope) /\ EffectiveType(f) = 2
    BY <1>2, PlainRead DEF Plain
  <2> WITNESS f.scope
  <2> QED BY <2>1, <2>2, <2>3
<1>3. CASE Original(f)
  <2>1. f.flags.ctx = kind.ctx /\ EffectiveType(f) = 2
    BY <1>1, <1>3, OriginalRead
  <2>2. PICK C : C = IF ctx = All THEN Ctxs ELSE {ctx}
    OBVIOUS
  <2>3. Asks(ctx, C)
    BY <2>1, <2>2, TbTableAssumption DEF Asks, All
  <2>4. /\ AllRecs(f, ctx) = Said(Did, kind.mode, Within(C))
        /\ AllEdges(f, ctx) = SaidE(edges, Within(C))
    BY <1>1, <1>3, <2>3, OriginalAll, OriginalEdges
  <2>5. /\ f.scope = WholeRun /\ WholeRun.ctxs = Ctxs /\ WholeRun.lo = 0
        /\ WholeRun.hi = Max(Addr) + 1 /\ WholeRun.delta = 0
    BY <1>3 DEF Original, WholeRun
  <2>6. /\ Within(C).ctxs = C /\ Within(C).lo = 0 /\ Within(C).delta = 0
        /\ Within(C).hi = Max(Addr) + 1 /\ Within(Ctxs) = WholeRun
    BY WithinIs
  <2>7. Good(Within(C))
    <3>1. Max(Addr) \in Nat
      BY AddrFinite, MaxExists
    <3>2. Max(Addr) + 1 \in Int /\ C \subseteq Ctxs
      BY <2>3, <3>1 DEF Asks
    <3> QED BY <2>6, <3>2 DEF Good
  <2> WITNESS Within(C)
  <2> QED BY <2>1, <2>2, <2>4, <2>5, <2>6, <2>7
<1> QED BY <1>2, <1>3 DEF Told

LEMMA RebasedTold ==
  ASSUME WalkInv, SaysInv, phase = "done", NEW f, Told(f), NEW ctx,
         ctx = All \/ (ctx \in Ctxs /\ f.flags.ctx),
         NEW lo \in Int, NEW hi \in Int, NEW delta \in Int
  PROVE  Told(Rebased(f, Window(f, ctx, lo, hi, delta)))
<1>1. PICK s : /\ Good(s) /\ AllRecs(f, ctx) = Said(Did, kind.mode, s)
               /\ AllEdges(f, ctx) = SaidE(edges, s)
               /\ s.ctxs = IF ctx = All THEN f.scope.ctxs ELSE {ctx}
               /\ s.lo = f.scope.lo /\ s.hi = f.scope.hi /\ s.delta = f.scope.delta
               /\ EffectiveType(f) = 2
  BY ToldAll
<1>2. PICK w : w = Window(f, ctx, lo, hi, delta)
  OBVIOUS
<1>3. PICK t : t = Narrowed(s, lo, hi, delta)
  OBVIOUS
<1>4. w.scope = t
  BY <1>1, <1>2, <1>3 DEF Window, Narrowed
<1>5. /\ w.recs = {<<r[1] + delta, r[2]>> :
                     r \in {q \in AllRecs(f, ctx) : lo <= q[1] /\ q[1] < hi}}
      /\ w.edges = {<<e[1] + delta, e[2] + delta, e[3]>> :
                      e \in {q \in AllEdges(f, ctx) : /\ lo <= q[1] /\ q[1] < hi
                                                      /\ lo <= q[2] /\ q[2] < hi}}
  BY <1>2 DEF Window
<1>6. TbsRight /\ EdgesRight
  BY DEF SaysInv, WalkInv
<1>7. w.recs = Said(Did, kind.mode, t) /\ w.edges = SaidE(edges, t) /\ Good(t)
  <2>1. Good(t)
    BY <1>1, <1>3, NarrowedIs
  <2>2. /\ Said(Did, kind.mode, t) =
             {<<r[1] + delta, r[2]>> :
                r \in {q \in Said(Did, kind.mode, s) : lo <= q[1] /\ q[1] < hi}}
        /\ SaidE(edges, t) =
             {<<e[1] + delta, e[2] + delta, e[3]>> :
                e \in {q \in SaidE(edges, s) : /\ lo <= q[1] /\ q[1] < hi
                                               /\ lo <= q[2] /\ q[2] < hi}}
    BY <1>1, <1>3, <1>6, WindowSays
  <2> QED BY <1>1, <1>5, <2>1, <2>2, Zenon
<1>8. IsFiniteSet(w.recs) /\ IsFiniteSet(w.edges)
  <2>1. Shape(f) /\ ParseHeader(f)
    BY FinishedAccepted DEF Told, Complete
  <2> QED BY <1>2, <2>1, WindowFinite
<1>9. PICK meta : meta = Append(Part(f, "meta"), Word("window"))
  OBVIOUS
<1>10. IsSeq(meta) /\ Range(meta) \subseteq Words
  BY <1>9, AddWord
<1>11. PICK R, E : R = w.recs /\ E = w.edges
  OBVIOUS
<1>12. Told(WriteCov(meta, R, E, 2, t))
  BY <1>7, <1>8, <1>10, <1>11, WrittenTold
<1>13. Rebased(f, w) = WriteCov(meta, R, E, 2, t)
  BY <1>1, <1>4, <1>9, <1>11 DEF Rebased
<1> QED BY <1>2, <1>12, <1>13

LEMMA ScrubbedTold ==
  ASSUME NEW f, Told(f)
  PROVE  Told(Scrubbed(f))
<1>1. Shape(f) /\ ParseHeader(f)
  BY FinishedAccepted DEF Told, Complete
<1>2. PICK g : g = Scrubbed(f)
  OBVIOUS
<1>3. /\ Complete(g) /\ g.flags = f.flags /\ g.scope = f.scope
      /\ Range(Part(g, "meta")) =
           (Range(Part(f, "meta")) \ {Word("dir")}) \union {Word("scrubbed")}
      /\ Part(g, "rec") = Part(f, "rec") /\ Part(g, "edge") = Part(f, "edge")
      /\ Part(g, "tb") = Part(f, "tb") /\ Part(g, "exit") = Part(f, "exit")
  BY <1>1, <1>2, ScrubbedIs DEF Sections
<1>4. Word("tb-insn-fast") # Word("dir") /\ Word("scrubbed") \in Words
  BY DEF Word, Unit, Words
<1>5. Range(Part(g, "meta")) \subseteq Words
  BY <1>3, <1>4 DEF Told
<1>6. CASE Original(f)
  <2>1. Word("tb-insn-fast") \in Range(Part(f, "meta"))
          => Word("tb-insn-fast") \in Range(Part(g, "meta"))
    BY <1>3, <1>4
  <2>2. Original(g)
    BY <1>3, <1>6, <2>1 DEF Original
  <2> QED BY <1>2, <1>3, <1>5, <2>2 DEF Told
<1>7. CASE Plain(f)
  <2>1. Plain(g)
    BY <1>3, <1>7 DEF Plain
  <2> QED BY <1>2, <1>3, <1>5, <2>1 DEF Told
<1> QED BY <1>6, <1>7 DEF Told
LEMMA StartSays ==
  ASSUME SaysInv, NEW p, NEW o, Start(p, o),
         \A i \in DOMAIN o : \A f : f = o[i].file => Told(f)
  PROVE  SaysInv'
<1>1. /\ kind' = kind /\ edges' = edges /\ tbs' = tbs /\ filter' = filter
      /\ files' = files /\ writing' = o /\ phase' = phase /\ phase = "done"
  BY DEF Start, vars, tables
<1>2. /\ \A f : Told(f)' <=> Told(f)
      /\ \A f : Says(f)' <=> Says(f)
      /\ (KindRight /\ EdgesRight /\ OneCtx)'
  BY <1>1, SameTold DEF SaysInv
<1>3. \A i \in DOMAIN o : \A f : f = o[i].file => Told(f)'
  BY <1>2
<1>4. \A q \in Paths : \A f : f = files[q] => Says(f)'
  BY <1>2 DEF SaysInv
<1> QED BY <1>1, <1>2, <1>3, <1>4 DEF SaysInv

LEMMA OneTold ==
  ASSUME NEW g, NEW f, Told(f), NEW tmp
  PROVE  LET o == <<Write(g, f, tmp)>>
         IN \A i \in DOMAIN o : \A h : h = o[i].file => Told(h)
<1>1. PICK w : w = Write(g, f, tmp)
  OBVIOUS
<1>2. w.file = f
  BY <1>1 DEF Write
<1>3. \A i \in DOMAIN <<w>> : <<w>>[i] = w
  OBVIOUS
<1> QED BY <1>1, <1>2, <1>3

LEMMA ExtractSaysOn ==
  ASSUME WalkInv, SaysInv, NEW p \in Paths, NEW c \in Ctxs, NEW g, Extract(p, c, g)
  PROVE  SaysInv'
<1>1. PICK f : f = files[p]
  OBVIOUS
<1>2. PICK new :
        /\ new = WriteCov(Append(Part(f, "meta"), Word("context")),
                   {<<r[2], IF r[3] = 0 THEN 1 ELSE r[3]>> :
                      r \in Selected(Records(f), c)},
                   {<<e[2], e[3], e[4]>> : e \in Selected(EdgesIn(f), c)},
                   IF Expands(f) THEN 2 ELSE f.flags.type,
                   [f.scope EXCEPT !.ctxs = @ \cap {c}])
        /\ Start(p, <<Write(g, new, FALSE)>>) /\ f.flags.ctx
  BY <1>1, Zenon DEF Extract
<1>3. phase = "done" /\ Told(f)
  BY <1>1, <1>2, ReadTold DEF Start
<1>4. Told(new)
  BY <1>2, <1>3, ExtractTold
<1>5. PICK o : o = <<Write(g, new, FALSE)>>
  OBVIOUS
<1>6. \A i \in DOMAIN o : \A h : h = o[i].file => Told(h)
  BY <1>4, <1>5, OneTold
<1> QED BY <1>2, <1>5, <1>6, StartSays

LEMMA RebaseSaysOn ==
  ASSUME WalkInv, SaysInv, NEW p \in Paths, NEW b \in Bases, NEW z \in Sizes,
         NEW t \in Tos, NEW g, Rebase(p, b, z, t, g)
  PROVE  SaysInv'
<1>1. PICK f : f = files[p]
  OBVIOUS
<1>2. PICK new : /\ new = Rebased(f, Window(f, All, b, b + z, t - b))
                 /\ Start(p, <<Write(g, new, FALSE)>>)
  BY <1>1, Zenon DEF Rebase
<1>3. phase = "done" /\ Told(f)
  BY <1>1, <1>2, ReadTold DEF Start
<1>4. b \in Int /\ b + z \in Int /\ t - b \in Int
  <2>1. b \in Nat /\ z \in Nat /\ t \in Nat
    BY ArtifactToolsAssumption
  <2> QED BY <2>1
<1>5. Told(new)
  BY <1>2, <1>3, <1>4, RebasedTold
<1>6. PICK o : o = <<Write(g, new, FALSE)>>
  OBVIOUS
<1>7. \A i \in DOMAIN o : \A h : h = o[i].file => Told(h)
  BY <1>5, <1>6, OneTold
<1> QED BY <1>2, <1>6, <1>7, StartSays

LEMMA ScrubSaysOn ==
  ASSUME SaysInv, NEW p \in Paths, NEW g, Scrub(p, g)
  PROVE  SaysInv'
<1>1. PICK f : f = files[p]
  OBVIOUS
<1>2. PICK new : new = Scrubbed(f) /\ Start(p, <<Write(g, new, TRUE)>>)
  BY <1>1, Zenon DEF Scrub
<1>3. Told(f)
  BY <1>1, <1>2, ReadTold DEF Start
<1>4. Told(new)
  BY <1>2, <1>3, ScrubbedTold
<1>5. PICK o : o = <<Write(g, new, TRUE)>>
  OBVIOUS
<1>6. \A i \in DOMAIN o : \A h : h = o[i].file => Told(h)
  BY <1>4, <1>5, OneTold
<1> QED BY <1>2, <1>5, <1>6, StartSays

LEMMA SliceSaysOn ==
  ASSUME WalkInv, SaysInv, NEW p \in Paths, NEW m \in Maps,
         NEW c \in Ctxs \union {All}, Slice(p, m, c)
  PROVE  SaysInv'
<1> DEFINE f == files[p]
           W(w) == Window(f, c, w.start, w.start + w.size, -w.start)
           S == {w \in Windows(m) : W(w).recs # {}}
           new(w) == Write(w.out, Rebased(f, W(w)), FALSE)
           hits == CHOOSE s \in [1 .. Cardinality(S) -> S] :
                     \A i, j \in DOMAIN s : i < j => s[i].start < s[j].start
<1>0. /\ ~Overlapping(m) /\ Start(p, [i \in DOMAIN hits |-> new(hits[i])])
      /\ c # All => f.flags.ctx
  BY DEF Slice, InOrder
<1>1. PICK h : h = hits
  OBVIOUS
<1>2. phase = "done" /\ Told(f)
  BY <1>0, ReadTold DEF Start
<1>3. \A w \in m : w.start \in Nat /\ w.size \in Nat /\ w.out \in Paths
  BY ArtifactToolsAssumption
<1>4. Range(h) \subseteq S
  <2>1. IsFiniteSet(S)
    <3>1. S \in SUBSET m /\ IsFiniteSet(m)
      BY ArtifactToolsAssumption DEF Windows
    <3> HIDE DEF S
    <3> QED BY <3>1, FS_Subset
  <2>2. \A w \in S : w \in m /\ w \in Windows(m) /\ w.start \in Nat
                     /\ w.size \in Nat /\ w.size > 0
    BY <1>3 DEF Windows
  <2>3. \A v, w \in S : v.start = w.start => v = w
    <3> SUFFICES ASSUME NEW v \in S, NEW w \in S, v.start = w.start, v # w PROVE FALSE
      OBVIOUS
    <3>1. PICK x \in Nat, y \in Nat, z \in Nat :
            x = v.start /\ y = w.start /\ z = v.size /\ z > 0
      BY <2>2
    <3>2. x <= y /\ y < x + z
      BY <3>1
    <3>3. v.start <= w.start /\ w.start < v.start + v.size
      BY <3>1, <3>2
    <3>4. v \in Windows(m) /\ w \in Windows(m)
      BY <2>2
    <3> QED BY <1>0, <3>3, <3>4 DEF Overlapping
  <2>4. h = CHOOSE s \in [1 .. Cardinality(S) -> S] :
              \A i, j \in DOMAIN s : i < j => s[i].start < s[j].start
    BY <1>1
  <2> HIDE DEF S
  <2> QED BY <2>1, <2>2, <2>3, <2>4, ByStart
<1>5. PICK o : o = [i \in DOMAIN h |-> new(h[i])]
  OBVIOUS
<1>6. Start(p, o)
  <2> HIDE DEF hits, new
  <2> QED BY <1>0, <1>1, <1>5, Zenon
<1>7. ASSUME NEW i \in DOMAIN o PROVE \A g : g = o[i].file => Told(g)
  <2>1. PICK w \in S : w = h[i]
    BY <1>4, <1>5 DEF Range
  <2>2. o[i].file = Rebased(f, W(w))
    <3>1. o[i] = Write(w.out, Rebased(f, W(w)), FALSE)
      BY <1>5, <2>1
    <3> HIDE DEF f, W
    <3> QED BY <3>1 DEF Write
  <2>3. w.start \in Int /\ w.start + w.size \in Int /\ -w.start \in Int
    <3>1. w.start \in Nat /\ w.size \in Nat
      BY <1>3 DEF Windows
    <3> QED BY <3>1
  <2>4. PICK F : F = f
    OBVIOUS
  <2>5. Told(Rebased(F, Window(F, c, w.start, w.start + w.size, -w.start)))
    BY <1>0, <1>2, <2>3, <2>4, RebasedTold
  <2> QED BY <2>2, <2>4, <2>5
<1> HIDE DEF f, W, S, new, hits
<1> QED BY <1>6, <1>7, StartSays

LEMMA FinishSays ==
  ASSUME FilesInv, SaysInv, Finish1
  PROVE  SaysInv'
<1>1. PICK S, q : S = Range(writing) /\ q = Tail(writing)
  OBVIOUS
<1>2. writing \in Seq(S) /\ writing # <<>>
  BY <1>1 DEF FilesInv, Finish1, IsSeq
<1>3. /\ 1 \in DOMAIN writing
      /\ \A i \in DOMAIN q : i + 1 \in DOMAIN writing /\ q[i] = writing[i + 1]
  BY <1>1, <1>2
<1>4. /\ kind' = kind /\ edges' = edges /\ tbs' = tbs /\ filter' = filter
      /\ phase' = phase /\ writing' = q
      /\ files' = [files EXCEPT ![writing[1].path] = writing[1].file]
  BY <1>1 DEF Finish1, vars, tables
<1>5. /\ \A f : Told(f)' <=> Told(f)
      /\ \A f : Says(f)' <=> Says(f)
      /\ (KindRight /\ EdgesRight /\ OneCtx)'
  BY <1>4, SameTold DEF SaysInv
<1>6. PICK w : w = writing[1].file
  OBVIOUS
<1>7. Told(w)
  BY <1>3, <1>6 DEF SaysInv
<1>8. ASSUME NEW p \in Paths, NEW f, f = files'[p] PROVE Says(f)'
  <2>1. f = files[p] \/ f = w
    BY <1>4, <1>6, <1>8 DEF FilesInv
  <2> QED BY <1>5, <1>7, <2>1 DEF SaysInv, Says
<1>9. ASSUME NEW i \in DOMAIN q, NEW f, f = q[i].file PROVE Told(f)'
  <2>1. i + 1 \in DOMAIN writing /\ f = writing[i + 1].file
    BY <1>3, <1>9
  <2> QED BY <1>5, <2>1 DEF SaysInv
<1>10. phase' = "done"
  BY <1>2, <1>4 DEF SaysInv
<1> QED BY <1>4, <1>5, <1>8, <1>9, <1>10 DEF SaysInv

LEMMA KilledSays ==
  ASSUME FilesInv, SaysInv, Killed
  PROVE  SaysInv'
<1>1. PICK w, n : /\ w = writing[1] /\ n \in Tears(w.file)
                  /\ files' = [files EXCEPT ![w.path] = Torn(w, @, n)]
                  /\ writing' = <<>>
  BY DEF Killed
<1>2. 1 \in DOMAIN writing
  BY DEF FilesInv, Killed, IsSeq
<1>3. PICK f : f = w.file
  OBVIOUS
<1>4. Complete(f)
  BY <1>1, <1>2, <1>3 DEF SaysInv, Told
<1>5. PICK t : t = [f EXCEPT !.bytes = SubSeq(@, 1, n)]
  OBVIOUS
<1>6. Shape(t) /\ Len(t.bytes) < Written(t)
  BY <1>1, <1>3, <1>4, <1>5, CutShort
<1>7. /\ kind' = kind /\ edges' = edges /\ tbs' = tbs /\ filter' = filter
  BY DEF Killed, vars, tables
<1>8. /\ \A g : Says(g)' <=> Says(g)
      /\ (KindRight /\ EdgesRight /\ OneCtx)'
  BY <1>7, SameTold DEF SaysInv
<1>9. ASSUME NEW p \in Paths, NEW g, g = files'[p] PROVE Says(g)'
  <2>1. g = files[p] \/ g = t
    BY <1>1, <1>3, <1>5, <1>9 DEF FilesInv, Torn
  <2> QED BY <1>6, <1>8, <2>1 DEF SaysInv, Says
<1> QED BY <1>1, <1>8, <1>9 DEF SaysInv

LEMMA RunSays ==
  ASSUME WalkInv, SaysInv, Next, UNCHANGED tools
  PROVE  SaysInv'
<1>1. /\ kind' = kind /\ edges' = edges /\ tbs' = tbs /\ filter' = filter
      /\ files' = files /\ writing' = writing /\ phase # "done"
  <2>1. tbs' = tbs /\ filter' = filter /\ phase # "done"
    BY DEF Next, Collect, Check, StartEntry, ExpandInsn, Finish, tables
  <2> QED BY <2>1 DEF tools
<1>2. /\ \A f : Told(f)' <=> Told(f)
      /\ \A f : Says(f)' <=> Says(f)
      /\ (KindRight /\ EdgesRight /\ OneCtx)'
  BY <1>1, SameTold DEF SaysInv
<1>3. /\ \A p \in Paths : \A f : f = files[p] => Says(f)'
      /\ \A i \in DOMAIN writing : \A f : f = writing[i].file => Told(f)'
      /\ writing = <<>>
  BY <1>1, <1>2 DEF SaysInv
<1> QED BY <1>1, <1>2, <1>3 DEF SaysInv

LEMMA SaysStutters ==
  ASSUME SaysInv, UNCHANGED allVars
  PROVE  SaysInv'
<1>1. /\ kind' = kind /\ edges' = edges /\ tbs' = tbs /\ filter' = filter
      /\ files' = files /\ writing' = writing /\ phase' = phase
  BY DEF allVars, tools, vars, tables
<1>2. /\ \A f : Told(f)' <=> Told(f)
      /\ \A f : Says(f)' <=> Says(f)
      /\ (KindRight /\ EdgesRight /\ OneCtx)'
  BY <1>1, SameTold DEF SaysInv
<1>3. /\ \A p \in Paths : \A f : f = files[p] => Says(f)'
      /\ \A i \in DOMAIN writing : \A f : f = writing[i].file => Told(f)'
  BY <1>2 DEF SaysInv
<1> QED BY <1>1, <1>2, <1>3 DEF SaysInv

LEMMA SaysNext ==
  ASSUME WalkInv, FilesInv, SaysInv, [ToolsNext]_allVars
  PROVE  SaysInv'
<1>1. CASE Next /\ UNCHANGED tools
  BY <1>1, RunSays
<1>2. CASE Command
  BY <1>2, ExtractSaysOn, RebaseSaysOn, ScrubSaysOn DEF Command
<1>3. CASE SliceCommand
  BY <1>3, SliceSaysOn DEF SliceCommand
<1>4. CASE Finish1
  BY <1>4, FinishSays
<1>5. CASE Killed
  BY <1>5, KilledSays
<1>6. CASE UNCHANGED allVars
  BY <1>6, SaysStutters
<1> QED BY <1>1, <1>2, <1>3, <1>4, <1>5, <1>6 DEF ToolsNext

LEMMA SaysInit == ToolsInit => SaysInv
<1> SUFFICES ASSUME ToolsInit PROVE SaysInv
  OBVIOUS
<1>1. TbsRight
  BY TbsInit DEF ToolsInit
<1>2. /\ files = [p \in Paths |-> IF p = "run" /\ commands > 0 THEN RunFile ELSE Absent]
      /\ writing = <<>>
  BY DEF ToolsInit
<1>3. KindRight /\ EdgesRight /\ OneCtx
  <2>1. CASE tbs \in Campaigns
    <3>1. KindRight
      BY <2>1, ArtifactToolsAssumption DEF ToolsInit, KindRight
    <3>2. EdgesRight
      BY <2>1, ArtifactToolsAssumption DEF ToolsInit, EdgesRight
    <3>3. OneCtx
      BY <2>1 DEF ToolsInit, OneCtx
    <3> QED BY <3>1, <3>2, <3>3
  <2>2. CASE tbs \notin Campaigns
    <3>1. kind = [mode |-> "tb", ctx |-> TRUE] /\ edges = <<>>
      BY <2>2 DEF ToolsInit
    <3>2. DOMAIN edges = {}
      BY <3>1
    <3>3. IsFiniteSet(DOMAIN edges)
      BY <3>2, FS_EmptySet
    <3> QED BY <3>1, <3>2, <3>3 DEF KindRight, EdgesRight, OneCtx
  <2> QED BY <2>1, <2>2
<1>4. PICK f : f = RunFile
  OBVIOUS
<1>5. /\ Complete(f)
      /\ f.flags = [type |-> IF kind.mode = "tb" THEN 1 ELSE 2,
                    ctx |-> kind.ctx, counts |-> kind.mode # "bare",
                    table |-> HasTable(kind), edges |-> edges # <<>>]
      /\ f.scope = [ctxs |-> Ctxs, lo |-> 0, hi |-> Max(Addr) + 1, delta |-> 0]
      /\ Part(f, "meta") = <<Word("dir"), Word("dir"), Word("elf"), Word(kind.mode)>>
      /\ Range(Part(f, "rec")) = RecSet(RawRecs)
      /\ Range(Part(f, "edge")) = EdgeSet(RunEdges)
      /\ HasTable(kind) =>
           /\ Part(f, "tb") = TableUnits(Table)
           /\ Part(f, "exit") = ExitUnits(UNION {ExitsOf(i) : i \in DOMAIN Table})
  BY <1>1, <1>3, <1>4, RunFileIs DEF EdgesRight
<1>6. \A c : CtxOf(c) = Tag(kind.ctx, c)
  BY DEF CtxOf, Tag
<1>7. ~HasTable(kind) => RawRecs = Rows(Did, kind.mode, kind.ctx)
  <2> SUFFICES ASSUME ~HasTable(kind) PROVE RawRecs = Rows(Did, kind.mode, kind.ctx)
    OBVIOUS
  <2>1. \A k \in Ctxs \X Addr : RanIn(k[1], k[2]) = Did[k]
    BY DEF Did
  <2>2. RanIns = Ins(Did)
    BY <2>1 DEF RanIns, Ins
  <2>3. \A k \in Ins(Did) : <<CtxOf(k[1]), k[2], RawCount(k[1], k[2])>>
                              = Row_(Did, kind.mode, kind.ctx, k)
    BY <1>6, <2>1 DEF RawCount, Row_, Ins
  <2>4. RawRecs = {<<CtxOf(k[1]), k[2], RawCount(k[1], k[2])>> : k \in RanIns}
    BY DEF RawRecs, RanIns
  <2> QED BY <2>2, <2>3, <2>4 DEF Rows
<1>8. RunEdges = EdgeRows(edges, kind.ctx)
  BY <1>6 DEF RunEdges, EdgeRows, EdgeRow
<1>9. Range(Part(f, "meta")) = {Word("dir"), Word("elf"), Word(kind.mode)}
  <2>1. PICK d, e, m : d = Word("dir") /\ e = Word("elf") /\ m = Word(kind.mode)
    OBVIOUS
  <2>2. PICK s : s = <<d, d, e, m>>
    OBVIOUS
  <2>3. DOMAIN s = 1 .. 4 /\ s[1] = d /\ s[2] = d /\ s[3] = e /\ s[4] = m
    BY <2>2
  <2>4. Range(s) = {d, e, m}
    BY <2>3 DEF Range
  <2> QED BY <1>5, <2>1, <2>2, <2>4
<1>10. /\ Range(Part(f, "meta")) \subseteq Words
       /\ kind.mode = "tb-insn-fast" => Word("tb-insn-fast") \in Range(Part(f, "meta"))
  <2>1. Word(kind.mode) \in Words
    BY <1>3 DEF KindRight, Words
  <2> QED BY <1>9, <2>1 DEF Words
<1>11. Original(f)
  BY <1>5, <1>7, <1>8, <1>10 DEF Original, AllExits, WholeRun
<1>12. Told(f)
  BY <1>5, <1>10, <1>11 DEF Told
<1>13. \A p \in Paths : \A g : g = files[p] => Says(g)
  BY <1>2, <1>4, <1>12 DEF Says
<1> QED BY <1>2, <1>3, <1>13 DEF SaysInv
-----------------------------------------------------------------------------
(* What is read of a file that tells.                                      *)

LEMMA ToldReadable ==
  WalkInv /\ SaysInv /\ phase = "done" => \A f : Told(f) => Readable(f)
<1> SUFFICES ASSUME WalkInv, SaysInv, phase = "done", NEW f, Told(f)
             PROVE  Readable(f)
  OBVIOUS
<1>1. Shape(f) /\ ParseHeader(f) /\ f.there
  BY FinishedAccepted DEF Told, Complete, Shape
<1>2. Range(Part(f, "meta")) \subseteq Words
  BY DEF Told
<1>3. f.flags.table => /\ Part(f, "tb") = TableUnits(entries)
                       /\ Part(f, "exit") = ExitUnits(exits)
  <2>1. entries = Table /\ exits = AllExits
    BY DEF WalkInv, Collected, AllExits
  <2>2. CASE Original(f)
    BY <2>1, <2>2 DEF Original
  <2>3. CASE Plain(f)
    BY <2>3 DEF Plain
  <2> QED BY <2>2, <2>3 DEF Told
<1> QED BY <1>1, <1>2, <1>3 DEF Readable, Words

LEMMA ToldCoverage ==
  WalkInv /\ SaysInv /\ phase = "done" =>
    \A f : Told(f) => Coverage(f) = <<TRUE, Said(Did, kind.mode, f.scope),
                                      SaidE(edges, f.scope)>>
<1> SUFFICES ASSUME WalkInv, SaysInv, phase = "done", NEW f, Told(f)
             PROVE  Coverage(f) = <<TRUE, Said(Did, kind.mode, f.scope),
                                    SaidE(edges, f.scope)>>
  OBVIOUS
<1>1. /\ AllRecs(f, All) = Said(Did, kind.mode, f.scope)
      /\ AllEdges(f, All) = SaidE(edges, f.scope)
  BY ToldAll
<1>2. Readable(f) = TRUE
  <2>1. Readable(f)
    BY ToldReadable
  <2>2. Readable(f) \in BOOLEAN
    BY Zenon DEF Readable, Shape, Told, Complete
  <2> QED BY <2>1, <2>2
<1> QED BY <1>1, <1>2 DEF Coverage

LEMMA SaysConserved ==
  ASSUME WalkInv, SaysInv
  PROVE  Conserved
<1> SUFFICES ASSUME NEW p \in Paths, phase = "done", Readable(files[p])
             PROVE  /\ AllRecs(files[p], All) = Truth(files[p].scope)
                    /\ AllEdges(files[p], All) = EdgeTruth(files[p].scope)
                    /\ EffectiveType(files[p]) = 2
  BY DEF Conserved
<1>1. PICK f : f = files[p]
  OBVIOUS
<1>2. Told(f)
  BY <1>1, ReadTold
<1>3. /\ Good(f.scope) /\ AllRecs(f, All) = Said(Did, kind.mode, f.scope)
      /\ AllEdges(f, All) = SaidE(edges, f.scope) /\ EffectiveType(f) = 2
  BY <1>2, ToldAll
<1>4. Truth(f.scope) = Said(Did, kind.mode, f.scope)
      /\ EdgeTruth(f.scope) = SaidE(edges, f.scope)
  BY <1>3, TruthIs DEF WalkInv, SaysInv
<1> QED BY <1>1, <1>3, <1>4

(* Whatever commands led to it, a file that is read says of its part of    *)
(* the run what the guest did and nothing more (read_full, read_all,       *)
(* write_cov, slice_cov, rebase's and contexts' run).                      *)
THEOREM ConservedCorrect == ToolsSpec => []Conserved
<1>1. ToolsInit => FilesInv /\ SaysInv
  BY FilesInit, SaysInit
<1>2. WalkInv /\ FilesInv /\ SaysInv /\ [ToolsNext]_allVars => (FilesInv /\ SaysInv)'
  BY FilesNext, SaysNext
<1>3. WalkInv /\ SaysInv => Conserved
  BY SaysConserved
<1>4. Spec => []WalkInv
  BY WalkInit, WalkNext, PTL DEF Spec
<1> QED BY <1>1, <1>2, <1>3, <1>4, ToolsKeepTable, PTL DEF ToolsSpec

(* The same after a step.                                                  *)
LEMMA ToldCoverageNext ==
  (WalkInv /\ SaysInv /\ phase = "done" =>
     \A f : Told(f) => Coverage(f) = <<TRUE, Said(Did, kind.mode, f.scope),
                                       SaidE(edges, f.scope)>>)'
BY ToldCoverage, PTL

LEMMA CoverageOf ==
  \A p : \A f : f = files[p] => Coverage(f) = Coverage(files[p])
OBVIOUS

LEMMA CoverageOfNext ==
  (\A p : \A f : f = files[p] => Coverage(f) = Coverage(files[p]))'
BY CoverageOf, PTL

LEMMA ScrubStep ==
  ASSUME WalkInv, FilesInv, SaysInv, WalkInv', SaysInv', [ToolsNext]_allVars,
         NEW p \in Paths, writing # <<>>, writing[1].tmp, writing[1].path = p,
         files[p].scope = writing[1].file.scope, Readable(files[p])
  PROVE  Coverage(files[p])' = Coverage(files[p])
<1>1. PICK f, g, w : f = files[p] /\ g = files'[p] /\ w = writing[1]
  OBVIOUS
<1>2. Told(f) /\ phase = "done"
  BY <1>1, ReadTold DEF SaysInv
<1>3. Told(w.file)
  <2>1. 1 \in DOMAIN writing
    BY DEF FilesInv, IsSeq
  <2> QED BY <1>1, <2>1 DEF SaysInv
<1>4. /\ kind' = kind /\ edges' = edges /\ tbs' = tbs /\ filter' = filter
      /\ phase' = phase /\ Told(g) /\ g.scope = f.scope
  <2>1. CASE Finish1
    <3>1. g = w.file
      BY <1>1, <2>1 DEF Finish1, FilesInv
    <3> QED BY <1>1, <1>3, <2>1, <3>1 DEF Finish1, vars, tables
  <2>2. CASE Killed
    <3>1. g = f
      BY <1>1, <2>2 DEF Killed, Torn, FilesInv
    <3> QED BY <1>1, <1>2, <2>2, <3>1 DEF Killed, vars, tables
  <2>3. CASE UNCHANGED allVars
    BY <1>1, <1>2, <2>3 DEF allVars, tools, vars, tables
  <2>4. ~Next
    BY <1>2 DEF Next, Collect, Check, StartEntry, ExpandInsn, Finish
  <2>5. \A q, o : ~Start(q, o)
    BY DEF Start
  <2>6. ~Command /\ ~SliceCommand
    <3>1. ~SliceCommand
      BY <2>5 DEF SliceCommand, Slice
    <3>2. ~Command
      BY <2>5 DEF Command, Extract, Rebase, Scrub
    <3> QED BY <3>1, <3>2
  <2> QED BY <2>1, <2>2, <2>3, <2>4, <2>6 DEF ToolsNext
<1>5. Told(g)' /\ Did' = Did
  BY <1>4, SameTold, SameDid
<1>6. Coverage(f) = <<TRUE, Said(Did, kind.mode, f.scope), SaidE(edges, f.scope)>>
  BY <1>2, ToldCoverage
<1>7. Coverage(g)' = <<TRUE, Said(Did, kind.mode, g.scope), SaidE(edges, g.scope)>>
  BY <1>2, <1>4, <1>5, ToldCoverageNext
<1>8. Coverage(files[p])' = Coverage(g)'
  BY <1>1, CoverageOfNext
<1> QED BY <1>1, <1>4, <1>6, <1>7, <1>8

(* A file scrubbed in place never loses or changes coverage, not even when *)
(* the scrub is killed (write_scrubbed).                                   *)
THEOREM ScrubKeepsCorrect == ToolsSpec => ScrubKeeps
<1> DEFINE Kept ==
      \A p \in Paths :
        writing # <<>> /\ writing[1].tmp /\ writing[1].path = p
          /\ files[p].there /\ files[p].scope = writing[1].file.scope
          /\ Readable(files[p])
        => Coverage(files[p])' = Coverage(files[p])
<1>1. ToolsInit => FilesInv /\ SaysInv
  BY FilesInit, SaysInit
<1>2. WalkInv /\ FilesInv /\ SaysInv /\ [ToolsNext]_allVars => (FilesInv /\ SaysInv)'
  BY FilesNext, SaysNext
<1>3. WalkInv /\ FilesInv /\ SaysInv /\ WalkInv' /\ SaysInv' /\ [ToolsNext]_allVars
        => Kept
  BY ScrubStep
<1>4. Spec => []WalkInv
  BY WalkInit, WalkNext, PTL DEF Spec
<1>5. ToolsSpec => [][Kept]_allVars
  <2> HIDE DEF Kept
  <2> QED BY <1>1, <1>2, <1>3, <1>4, ToolsKeepTable, PTL DEF ToolsSpec
<1> QED BY <1>5 DEF ScrubKeeps
=============================================================================
