---------------------------- MODULE DataTheorems ----------------------------
(***************************************************************************)
(* What the proofs of this project need to know of two operators of the    *)
(* community modules.  A sum over a finite set (MapThenSumSet) does not    *)
(* depend on the order the elements are picked in: a sum of naturals is    *)
(* the number of its tokens, one token for every unit of every element, so *)
(* that what is known of cardinalities carries over to sums.  A flattened  *)
(* sequence (FlattenSeq) is grown one sequence at a time.                  *)
(*                                                                         *)
(* The two inductions over subsets of a finite set go from the smallest    *)
(* subset that would be a counterexample.                                  *)
(***************************************************************************)
EXTENDS SequencesExt, FiniteSetTheorems, TLAPS

Pick(S)        == CHOOSE x \in S : TRUE
SumOver(w, S)  == MapThenSumSet(LAMBDA x : w[x], S)
Tokens(w, S)   == UNION {{x} \X (1 .. w[x]) : x \in S}
TokenCount(w, S)    == Cardinality(Tokens(w, S))
Weighs(w, S)   == IsFiniteSet(S) /\ \A x \in S : w[x] \in Nat

(* A nonempty set of subsets of a finite set has a smallest member.        *)
LEMMA SmallestSubset ==
  ASSUME NEW S, IsFiniteSet(S), NEW F \in SUBSET SUBSET S, F # {}
  PROVE  \E U \in F : \A V \in F : V \subseteq U => V = U
<1>1. IsWellFoundedOn(StrictSubsetOrdering(S), SUBSET S)
  BY FS_StrictSubsetOrderingWellFounded, FS_FiniteSubsetsOfFinite
<1>2. PICK U \in F : \A V \in F : <<V, U>> \notin StrictSubsetOrdering(S)
  BY <1>1, WFMin
<1>3. \A V \in F : V \subseteq U => V = U
  BY <1>2 DEF StrictSubsetOrdering
<1> QED
  BY <1>3

(* A nonempty set of naturals has a least member.                          *)
LEMMA LeastNat ==
  ASSUME NEW S \in SUBSET Nat, S # {}
  PROVE  \E n \in S : \A m \in S : n <= m
<1>1. PICK top \in S : TRUE
  OBVIOUS
<1> DEFINE B == 0 .. top
           F == {V \in SUBSET B : \E m \in S : V = 0 .. m}
<1>2. IsFiniteSet(B) /\ F \in SUBSET SUBSET B
  BY <1>1, FS_Interval
<1>3. F # {}
  BY <1>1
<1>4. PICK U \in F : \A V \in F : V \subseteq U => V = U
  <2> HIDE DEF B, F
  <2> QED
    BY <1>2, <1>3, SmallestSubset
<1>5. PICK n \in S : U = 0 .. n
  BY <1>4
<1>6. ASSUME NEW m \in S, m < n PROVE FALSE
  <2>1. 0 .. m \subseteq 0 .. n /\ n \in 0 .. n /\ n \notin 0 .. m
    BY <1>6
  <2>2. 0 .. m \in F
    BY <1>4, <1>5, <2>1
  <2> QED
    BY <1>4, <1>5, <2>1, <2>2
<1>7. \A m \in S : n <= m
  BY <1>6
<1> QED
  BY <1>7

(* A set has finitely many images if it is finite.                         *)
LEMMA ImageFinite ==
  ASSUME NEW S, IsFiniteSet(S), NEW f
  PROVE  IsFiniteSet({f[x] : x \in S})
<1> DEFINE T == {f[x] : x \in S}
           h == [x \in S |-> f[x]]
<1>1. h \in Surjection(S, T)
  BY DEF Surjection
<1> QED
  BY <1>1, FS_Surjection

LEMMA TokensApart ==
  ASSUME NEW w, NEW S, NEW x \in S
  PROVE  /\ Tokens(w, S) = Tokens(w, S \ {x}) \union ({x} \X (1 .. w[x]))
         /\ Tokens(w, S \ {x}) \intersect ({x} \X (1 .. w[x])) = {}
  BY DEF Tokens

LEMMA OneElement ==
  ASSUME NEW x, NEW n \in Nat
  PROVE  /\ IsFiniteSet({x} \X (1 .. n))
         /\ Cardinality({x} \X (1 .. n)) = n
<1>1. IsFiniteSet(1 .. n) /\ Cardinality(1 .. n) = n
  BY FS_Interval
<1>2. IsFiniteSet({x}) /\ Cardinality({x}) = 1
  BY FS_Singleton
<1>3. /\ IsFiniteSet({x} \X (1 .. n))
      /\ Cardinality({x} \X (1 .. n)) = Cardinality({x}) * Cardinality(1 .. n)
  BY ONLY <1>1, <1>2, FS_Product
<1> QED
  BY <1>1, <1>2, <1>3

LEMMA DisjointCount ==
  ASSUME NEW S, NEW T, IsFiniteSet(S), IsFiniteSet(T), S \intersect T = {}
  PROVE  Cardinality(S \union T) = Cardinality(S) + Cardinality(T)
<1>1. Cardinality(S \intersect T) = 0
  BY FS_EmptySet
<1>2. Cardinality(S) \in Nat /\ Cardinality(T) \in Nat
  BY FS_CardinalityType
<1>3. Cardinality(S \union T)
        = Cardinality(S) + Cardinality(T) - Cardinality(S \intersect T)
  BY FS_Union
<1> QED
  BY <1>1, <1>2, <1>3

LEMMA TokensFinite ==
  ASSUME NEW w, NEW S, Weighs(w, S)
  PROVE  IsFiniteSet(Tokens(w, S))
<1> DEFINE F == {U \in SUBSET S : ~IsFiniteSet(Tokens(w, U))}
<1> SUFFICES ASSUME F # {} PROVE FALSE
  OBVIOUS
<1>0. IsFiniteSet(S) /\ F \in SUBSET SUBSET S
  BY DEF Weighs
<1>1. PICK U \in F : \A V \in F : V \subseteq U => V = U
  <2> HIDE DEF F
  <2> QED
    BY <1>0, SmallestSubset
<1>2. CASE U = {}
  BY <1>2, FS_EmptySet DEF Tokens
<1>3. ASSUME NEW x \in U PROVE FALSE
  <2>1. IsFiniteSet(Tokens(w, U \ {x}))
    BY <1>1
  <2>2. IsFiniteSet({x} \X (1 .. w[x]))
    BY OneElement DEF Weighs
  <2>3. IsFiniteSet(Tokens(w, U \ {x}) \union ({x} \X (1 .. w[x])))
    BY <2>1, <2>2, FS_Union
  <2>4. Tokens(w, U) = Tokens(w, U \ {x}) \union ({x} \X (1 .. w[x]))
    BY TokensApart
  <2> QED
    BY <2>3, <2>4
<1> QED
  BY <1>2, <1>3

LEMMA CountTake ==
  ASSUME NEW w, NEW S, Weighs(w, S), NEW x \in S
  PROVE  TokenCount(w, S) = w[x] + TokenCount(w, S \ {x})
<1>1. Weighs(w, S \ {x}) /\ w[x] \in Nat
  BY FS_RemoveElement DEF Weighs
<1>2. /\ IsFiniteSet({x} \X (1 .. w[x]))
      /\ Cardinality({x} \X (1 .. w[x])) = w[x]
  BY <1>1, OneElement
<1>3. IsFiniteSet(Tokens(w, S \ {x})) /\ TokenCount(w, S \ {x}) \in Nat
  BY <1>1, TokensFinite, FS_CardinalityType DEF TokenCount
<1>4. Tokens(w, S \ {x}) \intersect ({x} \X (1 .. w[x])) = {}
  BY TokensApart
<1>5. Cardinality(Tokens(w, S \ {x}) \union ({x} \X (1 .. w[x])))
        = Cardinality(Tokens(w, S \ {x})) + Cardinality({x} \X (1 .. w[x]))
  BY <1>2, <1>3, <1>4, DisjointCount
<1>6. Tokens(w, S) = Tokens(w, S \ {x}) \union ({x} \X (1 .. w[x]))
  BY TokensApart
<1> QED
  BY <1>1, <1>2, <1>3, <1>5, <1>6 DEF TokenCount

LEMMA CountEmpty ==
  ASSUME NEW w
  PROVE  TokenCount(w, {}) = 0
<1>1. Tokens(w, {}) = {}
  BY DEF Tokens
<1> QED
  BY <1>1, FS_EmptySet DEF TokenCount

(* The recursion behind a sum has a solution.                              *)
Solves(w, S, g) ==
  g = [s \in SUBSET S |-> IF s = {} THEN 0 ELSE w[Pick(s)] + g[s \ {Pick(s)}]]

LEMMA CountSolves ==
  ASSUME NEW w, NEW S, Weighs(w, S)
  PROVE  Solves(w, S, [s \in SUBSET S |-> TokenCount(w, s)])
<1> DEFINE g == [s \in SUBSET S |-> TokenCount(w, s)]
           h == [s \in SUBSET S |-> IF s = {} THEN 0
                                    ELSE w[Pick(s)] + g[s \ {Pick(s)}]]
<1>1. ASSUME NEW s \in SUBSET S
      PROVE  g[s] = h[s]
  <2>1. CASE s = {}
    BY <2>1, CountEmpty
  <2>2. CASE s # {}
    <3>1. Pick(s) \in s
      BY <2>2 DEF Pick
    <3>2. Weighs(w, s)
      BY FS_Subset DEF Weighs
    <3>3. TokenCount(w, s) = w[Pick(s)] + TokenCount(w, s \ {Pick(s)})
      BY <3>1, <3>2, CountTake
    <3>4. g[s \ {Pick(s)}] = TokenCount(w, s \ {Pick(s)})
      OBVIOUS
    <3> QED
      BY <2>2, <3>3, <3>4
  <2> QED
    BY <2>1, <2>2
<1>2. g = h
  BY <1>1
<1> QED
  BY <1>2 DEF Solves

LEMMA SolutionIsCount ==
  ASSUME NEW w, NEW S, Weighs(w, S), NEW g, Solves(w, S, g)
  PROVE  \A s \in SUBSET S : g[s] = TokenCount(w, s)
<1> DEFINE F == {s \in SUBSET S : g[s] # TokenCount(w, s)}
<1> SUFFICES ASSUME F # {} PROVE FALSE
  OBVIOUS
<1>0. IsFiniteSet(S) /\ F \in SUBSET SUBSET S
  BY DEF Weighs
<1>1. PICK U \in F : \A V \in F : V \subseteq U => V = U
  <2> HIDE DEF F
  <2> QED
    BY <1>0, SmallestSubset
<1>2. g[U] = IF U = {} THEN 0 ELSE w[Pick(U)] + g[U \ {Pick(U)}]
  BY DEF Solves
<1>3. CASE U = {}
  BY <1>2, <1>3, CountEmpty
<1>4. CASE U # {}
  <2>1. Pick(U) \in U
    BY <1>4 DEF Pick
  <2>2. g[U \ {Pick(U)}] = TokenCount(w, U \ {Pick(U)})
    BY <1>1, <2>1
  <2>3. Weighs(w, U)
    BY FS_Subset DEF Weighs
  <2>4. TokenCount(w, U) = w[Pick(U)] + TokenCount(w, U \ {Pick(U)})
    BY <2>1, <2>3, CountTake
  <2> QED
    BY <1>2, <1>4, <2>2, <2>4
<1> QED
  BY <1>3, <1>4

LEMMA Solvable ==
  ASSUME NEW w, NEW S, Weighs(w, S)
  PROVE  \E g : Solves(w, S, g)
  BY CountSolves

(* A sum of naturals counts the tokens of its elements.                    *)
LEMMA SumIsCount ==
  ASSUME NEW w, NEW S, Weighs(w, S)
  PROVE  SumOver(w, S) = TokenCount(w, S)
<1> DEFINE g == CHOOSE g : Solves(w, S, g)
<1>1. SumOver(w, S) = g[S]
  BY DEF SumOver, MapThenSumSet, MapThenFoldSet, Solves, Pick
<1>2. Solves(w, S, g)
  BY CountSolves
<1> HIDE DEF g
<1> QED
  BY <1>1, <1>2, SolutionIsCount

(***************************************************************************)
(* The facts the other modules use.                                        *)
(***************************************************************************)
LEMMA SumType ==
  ASSUME NEW w, NEW S, Weighs(w, S)
  PROVE  SumOver(w, S) \in Nat
  BY SumIsCount, TokensFinite, FS_CardinalityType DEF TokenCount

(* However the weights are written, the recursion comes to the same.       *)
LEMMA SolutionIsSum ==
  ASSUME NEW w, NEW S, Weighs(w, S), NEW g, Solves(w, S, g)
  PROVE  g[S] = SumOver(w, S)
  BY SumIsCount, SolutionIsCount

LEMMA SumEmpty ==
  ASSUME NEW w
  PROVE  SumOver(w, {}) = 0
<1>1. Weighs(w, {})
  BY FS_EmptySet DEF Weighs
<1> QED
  BY <1>1, SumIsCount, CountEmpty

(* Any element can be taken out first.                                     *)
LEMMA SumTake ==
  ASSUME NEW w, NEW S, Weighs(w, S), NEW x \in S
  PROVE  /\ Weighs(w, S \ {x})
         /\ SumOver(w, S) = w[x] + SumOver(w, S \ {x})
<1>1. Weighs(w, S \ {x})
  BY FS_RemoveElement DEF Weighs
<1> QED
  BY <1>1, SumIsCount, CountTake

LEMMA SumAdd ==
  ASSUME NEW w, NEW S, NEW x, Weighs(w, S \union {x}), x \notin S
  PROVE  /\ Weighs(w, S)
         /\ SumOver(w, S \union {x}) = w[x] + SumOver(w, S)
<1>1. (S \union {x}) \ {x} = S
  OBVIOUS
<1>2. /\ Weighs(w, (S \union {x}) \ {x})
      /\ SumOver(w, S \union {x}) = w[x] + SumOver(w, (S \union {x}) \ {x})
  BY SumTake
<1> QED
  BY <1>1, <1>2

(* A sum depends on the weights of its elements only.                      *)
LEMMA SumSame ==
  ASSUME NEW v, NEW w, NEW S, Weighs(w, S), \A x \in S : v[x] = w[x]
  PROVE  Weighs(v, S) /\ SumOver(v, S) = SumOver(w, S)
<1>1. Weighs(v, S)
  BY DEF Weighs
<1>2. Tokens(v, S) = Tokens(w, S)
  BY DEF Tokens
<1> QED
  BY <1>1, <1>2, SumIsCount DEF TokenCount

LEMMA SumSplit ==
  ASSUME NEW w, NEW S, NEW T, Weighs(w, S), Weighs(w, T), S \intersect T = {}
  PROVE  /\ Weighs(w, S \union T)
         /\ SumOver(w, S \union T) = SumOver(w, S) + SumOver(w, T)
<1>1. Weighs(w, S \union T)
  BY FS_Union DEF Weighs
<1>2. /\ Tokens(w, S \union T) = Tokens(w, S) \union Tokens(w, T)
      /\ Tokens(w, S) \intersect Tokens(w, T) = {}
  BY DEF Tokens
<1>3. IsFiniteSet(Tokens(w, S)) /\ IsFiniteSet(Tokens(w, T))
  BY TokensFinite
<1>4. Cardinality(Tokens(w, S) \union Tokens(w, T))
        = Cardinality(Tokens(w, S)) + Cardinality(Tokens(w, T))
  BY <1>2, <1>3, DisjointCount
<1>5. TokenCount(w, S \union T) = TokenCount(w, S) + TokenCount(w, T)
  BY <1>2, <1>4 DEF TokenCount
<1> QED
  BY <1>1, <1>5, SumIsCount

LEMMA SumAtMost ==
  ASSUME NEW v, NEW w, NEW S, NEW T, Weighs(v, S), Weighs(w, T),
         S \subseteq T, \A x \in S : v[x] <= w[x]
  PROVE  SumOver(v, S) <= SumOver(w, T)
<1>1. \A x \in S : 1 .. v[x] \subseteq 1 .. w[x]
  BY DEF Weighs
<1>2. Tokens(v, S) \in SUBSET Tokens(w, T)
  BY <1>1 DEF Tokens
<1>3. IsFiniteSet(Tokens(w, T))
  BY TokensFinite
<1>4. TokenCount(v, S) <= TokenCount(w, T)
  BY <1>2, <1>3, FS_Subset DEF TokenCount
<1> QED
  BY <1>4, SumIsCount

(* Elements without weight add nothing.                                    *)
LEMMA SumZero ==
  ASSUME NEW w, NEW S, IsFiniteSet(S), \A x \in S : w[x] = 0
  PROVE  Weighs(w, S) /\ SumOver(w, S) = 0
<1>1. Weighs(w, S)
  BY DEF Weighs
<1>2. Tokens(w, S) = {}
  BY DEF Tokens
<1> QED
  BY <1>1, <1>2, SumIsCount, FS_EmptySet DEF TokenCount

(* A sum is positive exactly when one of its weights is.                   *)
LEMMA SumPositive ==
  ASSUME NEW w, NEW S, Weighs(w, S)
  PROVE  SumOver(w, S) \in Nat /\ (SumOver(w, S) > 0 <=> \E x \in S : w[x] > 0)
<1>1. SumOver(w, S) \in Nat
  BY SumType
<1>2. \A x \in S : w[x] \in Nat
  BY DEF Weighs
<1>3. ASSUME NEW x \in S, w[x] > 0 PROVE SumOver(w, S) > 0
  <2>1. Weighs(w, S \ {x}) /\ SumOver(w, S) = w[x] + SumOver(w, S \ {x})
    BY SumTake
  <2>2. SumOver(w, S \ {x}) \in Nat
    BY <2>1, SumType
  <2> QED BY <1>2, <1>3, <2>1, <2>2
<1>4. ASSUME \A x \in S : ~(w[x] > 0) PROVE SumOver(w, S) = 0
  <2>1. \A x \in S : w[x] = 0
    BY <1>2, <1>4
  <2> QED BY <2>1, SumZero DEF Weighs
<1> QED BY <1>1, <1>3, <1>4

LEMMA SumIgnores ==
  ASSUME NEW w, NEW S, NEW T, Weighs(w, T), S \subseteq T,
         \A x \in T \ S : w[x] = 0
  PROVE  Weighs(w, S) /\ SumOver(w, S) = SumOver(w, T)
<1>1. Weighs(w, S)
  BY FS_Subset DEF Weighs
<1>2. Tokens(w, S) = Tokens(w, T)
  <2>1. \A x \in T \ S : 1 .. w[x] = {}
    OBVIOUS
  <2> QED
    BY <2>1 DEF Tokens
<1> QED
  BY <1>1, <1>2, SumIsCount DEF TokenCount

(* One more unit of one element.                                           *)
LEMMA SumBump ==
  ASSUME NEW v, NEW w, NEW S, Weighs(w, S), NEW y \in S,
         v[y] = w[y] + 1, \A x \in S \ {y} : v[x] = w[x]
  PROVE  Weighs(v, S) /\ SumOver(v, S) = SumOver(w, S) + 1
<1>1. Weighs(v, S)
  BY DEF Weighs
<1>2. /\ Weighs(w, S \ {y}) /\ SumOver(w, S) = w[y] + SumOver(w, S \ {y})
      /\ SumOver(v, S) = v[y] + SumOver(v, S \ {y})
  BY <1>1, SumTake
<1>3. SumOver(v, S \ {y}) = SumOver(w, S \ {y})
  BY <1>2, SumSame
<1>4. SumOver(w, S \ {y}) \in Nat /\ w[y] \in Nat
  BY <1>2, SumType DEF Weighs
<1> QED
  BY <1>1, <1>2, <1>3, <1>4

(* The operators of the community module Functions sum a function.         *)
LEMMA SumFunctionIsSum ==
  ASSUME NEW w, NEW S
  PROVE  SumFunctionOnSet(w, S) = SumOver(w, S)
  BY DEF SumFunctionOnSet, FoldFunctionOnSet, SumOver, MapThenSumSet

(* A set is counted by the sum of its ones.                                *)
LEMMA SumOnes ==
  ASSUME NEW w, NEW S, Weighs(w, S), \A x \in S : w[x] \in {0, 1}
  PROVE  SumOver(w, S) = Cardinality({x \in S : w[x] = 1})
<1> DEFINE T == {x \in S : w[x] = 1}
<1>1. T \subseteq S /\ \A x \in S \ T : w[x] = 0
  OBVIOUS
<1>2. Weighs(w, T) /\ SumOver(w, T) = SumOver(w, S)
  <2> HIDE DEF T
  <2> QED
    BY <1>1, SumIgnores
<1>3. Tokens(w, T) = T \X {1}
  <2>1. \A x \in T : 1 .. w[x] = {1}
    OBVIOUS
  <2> QED
    BY <2>1 DEF Tokens
<1>4. IsFiniteSet(T) /\ IsFiniteSet({1}) /\ Cardinality({1}) = 1
      /\ Cardinality(T) \in Nat
  BY <1>2, FS_Singleton, FS_CardinalityType DEF Weighs
<1>5. Cardinality(T \X {1}) = Cardinality(T) * 1
  BY <1>4, FS_Product
<1>6. SumOver(w, T) = Cardinality(T)
  <2>1. SumOver(w, T) = TokenCount(w, T)
    BY <1>2, SumIsCount
  <2>2. TokenCount(w, T) = Cardinality(T \X {1})
    BY <1>3 DEF TokenCount
  <2> HIDE DEF T
  <2> QED
    BY <1>4, <1>5, <2>1, <2>2
<1> QED
  BY <1>2, <1>6

(* A sum of sums, element by element.                                      *)
LEMMA SumPlus ==
  ASSUME NEW u, NEW v, NEW w, NEW S, Weighs(u, S), Weighs(v, S),
         \A x \in S : w[x] = u[x] + v[x]
  PROVE  /\ Weighs(w, S)
         /\ SumOver(w, S) = SumOver(u, S) + SumOver(v, S)
<1>1. Weighs(w, S)
  BY DEF Weighs
<1> DEFINE F == {T \in SUBSET S : SumOver(w, T) # SumOver(u, T) + SumOver(v, T)}
<1> SUFFICES ASSUME F # {} PROVE FALSE
  BY <1>1
<1>2. IsFiniteSet(S) /\ F \in SUBSET SUBSET S
  BY DEF Weighs
<1>3. PICK U \in F : \A V \in F : V \subseteq U => V = U
  <2> HIDE DEF F
  <2> QED
    BY <1>2, SmallestSubset
<1>4. U # {}
  BY SumEmpty
<1>5. PICK x \in U : TRUE
  BY <1>4
<1>6. Weighs(u, U) /\ Weighs(v, U) /\ Weighs(w, U)
  BY <1>1, FS_Subset DEF Weighs
<1>7. /\ Weighs(u, U \ {x}) /\ SumOver(u, U) = u[x] + SumOver(u, U \ {x})
      /\ Weighs(v, U \ {x}) /\ SumOver(v, U) = v[x] + SumOver(v, U \ {x})
      /\ SumOver(w, U) = w[x] + SumOver(w, U \ {x})
  BY <1>6, SumTake
<1>8. SumOver(w, U \ {x}) = SumOver(u, U \ {x}) + SumOver(v, U \ {x})
  BY <1>3
<1>9. /\ SumOver(u, U \ {x}) \in Nat /\ SumOver(v, U \ {x}) \in Nat
      /\ u[x] \in Nat /\ v[x] \in Nat /\ w[x] = u[x] + v[x]
  BY <1>6, <1>7, SumType DEF Weighs
<1> QED
  BY <1>3, <1>7, <1>8, <1>9

(* A common factor.                                                        *)
LEMMA SumTimes ==
  ASSUME NEW v, NEW w, NEW S, Weighs(v, S), NEW c \in Nat,
         \A x \in S : w[x] = v[x] * c
  PROVE  /\ Weighs(w, S)
         /\ SumOver(w, S) = SumOver(v, S) * c
<1>1. Weighs(w, S)
  BY DEF Weighs
<1> DEFINE F == {T \in SUBSET S : SumOver(w, T) # SumOver(v, T) * c}
<1> SUFFICES ASSUME F # {} PROVE FALSE
  BY <1>1
<1>2. IsFiniteSet(S) /\ F \in SUBSET SUBSET S
  BY DEF Weighs
<1>3. PICK U \in F : \A V \in F : V \subseteq U => V = U
  <2> HIDE DEF F
  <2> QED
    BY <1>2, SmallestSubset
<1>4. U # {}
  BY SumEmpty
<1>5. PICK x \in U : TRUE
  BY <1>4
<1>6. Weighs(v, U) /\ Weighs(w, U)
  BY <1>1, FS_Subset DEF Weighs
<1>7. /\ Weighs(v, U \ {x}) /\ SumOver(v, U) = v[x] + SumOver(v, U \ {x})
      /\ SumOver(w, U) = w[x] + SumOver(w, U \ {x})
  BY <1>6, SumTake
<1>8. SumOver(w, U \ {x}) = SumOver(v, U \ {x}) * c
  BY <1>3
<1>9. SumOver(v, U \ {x}) \in Nat /\ v[x] \in Nat /\ w[x] = v[x] * c
  BY <1>6, <1>7, SumType DEF Weighs
<1>10. \A m, n \in Nat : (m + n) * c = m * c + n * c
  OBVIOUS
<1>11. SumOver(w, U) = SumOver(v, U) * c
  BY <1>7, <1>8, <1>9, <1>10
<1> QED
  BY <1>3, <1>11

(* The elements may be renamed.                                            *)
LEMMA SumRenamed ==
  ASSUME NEW S, NEW T, NEW f \in Bijection(S, T), NEW v, NEW w, Weighs(v, S),
         \A x \in S : w[f[x]] = v[x]
  PROVE  Weighs(w, T) /\ SumOver(w, T) = SumOver(v, S)
<1>1. IsFiniteSet(S) /\ IsFiniteSet(T)
  <2>1. ExistsBijection(S, T)
    BY DEF ExistsBijection
  <2> QED
    BY <2>1, FS_Bijection DEF Weighs
<1>2. /\ f \in [S -> T]
      /\ \A x, y \in S : f[x] = f[y] => x = y
      /\ \A t \in T : \E x \in S : f[x] = t
  BY DEF Bijection, Injection, Surjection, IsInjective
<1>3. Weighs(w, T)
  BY <1>1, <1>2 DEF Weighs
<1> DEFINE g == [k \in Tokens(v, S) |-> <<f[k[1]], k[2]>>]
<1>4. \A k \in Tokens(v, S) :
        /\ k = <<k[1], k[2]>> /\ k[1] \in S /\ k[2] \in 1 .. v[k[1]]
  BY DEF Tokens
<1>5. \A x \in S : \A n \in 1 .. v[x] : <<x, n>> \in Tokens(v, S)
  BY DEF Tokens
<1>6. \A t \in T : \A n \in 1 .. w[t] : <<t, n>> \in Tokens(w, T)
  BY DEF Tokens
<1>7. \A k \in Tokens(w, T) :
        /\ k = <<k[1], k[2]>> /\ k[1] \in T /\ k[2] \in 1 .. w[k[1]]
  BY DEF Tokens
<1>8. g \in [Tokens(v, S) -> Tokens(w, T)]
  <2>1. \A k \in Tokens(v, S) : <<f[k[1]], k[2]>> \in Tokens(w, T)
    BY <1>2, <1>4, <1>6
  <2> QED
    BY <2>1
<1>9. \A j, k \in Tokens(v, S) : g[j] = g[k] => j = k
  BY <1>2, <1>4
<1>10. \A k \in Tokens(w, T) : \E j \in Tokens(v, S) : g[j] = k
  <2>1. SUFFICES ASSUME NEW k \in Tokens(w, T)
                 PROVE  \E j \in Tokens(v, S) : g[j] = k
    OBVIOUS
  <2>2. PICK x \in S : f[x] = k[1]
    BY <1>2, <1>7
  <2>3. <<x, k[2]>> \in Tokens(v, S)
    BY <1>5, <1>7, <2>2
  <2>4. g[<<x, k[2]>>] = k
    BY <1>7, <2>2, <2>3
  <2> QED
    BY <2>3, <2>4
<1>11. g \in Bijection(Tokens(v, S), Tokens(w, T))
  BY <1>8, <1>9, <1>10 DEF Bijection, Injection, Surjection, IsInjective
<1>12. ExistsBijection(Tokens(v, S), Tokens(w, T))
  BY <1>11 DEF ExistsBijection
<1>13. TokenCount(w, T) = TokenCount(v, S)
  BY <1>12, TokensFinite, FS_Bijection DEF TokenCount
<1> QED
  BY <1>3, <1>13, SumIsCount

(* A sum over a set in parts is the sum of the parts' sums.                *)
PartsApart(P, I) == \A i, j \in I : i # j => P[i] \intersect P[j] = {}
UnionOf(P, I) == UNION {P[i] : i \in I}

LEMMA SumParts ==
  ASSUME NEW w, NEW I, IsFiniteSet(I), NEW P, PartsApart(P, I),
         \A i \in I : Weighs(w, P[i]),
         NEW s, \A i \in I : s[i] = SumOver(w, P[i])
  PROVE  /\ Weighs(s, I) /\ Weighs(w, UnionOf(P, I))
         /\ SumOver(s, I) = SumOver(w, UnionOf(P, I))
<1>1. Weighs(s, I)
  BY SumType DEF Weighs
<1> DEFINE Good(J) == /\ Weighs(w, UnionOf(P, J))
                      /\ SumOver(s, J) = SumOver(w, UnionOf(P, J))
           F == {J \in SUBSET I : ~Good(J)}
<1> SUFFICES ASSUME F # {} PROVE FALSE
  BY <1>1
<1>2. F \in SUBSET SUBSET I
  OBVIOUS
<1>3. PICK U \in F : \A V \in F : V \subseteq U => V = U
  <2> HIDE DEF F
  <2> QED
    BY <1>2, SmallestSubset
<1>4. U # {}
  <2>1. UnionOf(P, {}) = {}
    BY DEF UnionOf
  <2>2. Weighs(w, {})
    BY FS_EmptySet DEF Weighs
  <2> QED
    BY <1>3, <2>1, <2>2, SumEmpty
<1>5. PICK x \in U : TRUE
  BY <1>4
<1>6. Weighs(s, U)
  BY <1>1, FS_Subset DEF Weighs
<1>7. Weighs(s, U \ {x}) /\ SumOver(s, U) = s[x] + SumOver(s, U \ {x})
  BY <1>6, SumTake
<1>8. Good(U \ {x})
  BY <1>3, <1>5
<1>9. /\ UnionOf(P, U) = UnionOf(P, U \ {x}) \union P[x]
      /\ UnionOf(P, U \ {x}) \intersect P[x] = {}
  BY <1>3, <1>5 DEF UnionOf, PartsApart
<1>10. /\ Weighs(w, UnionOf(P, U))
       /\ SumOver(w, UnionOf(P, U)) = SumOver(w, UnionOf(P, U \ {x})) + SumOver(w, P[x])
  <2>1. Weighs(w, UnionOf(P, U \ {x})) /\ Weighs(w, P[x])
    BY <1>3, <1>5, <1>8
  <2> DEFINE rest == UnionOf(P, U \ {x})
  <2>2. Weighs(w, rest) /\ Weighs(w, P[x]) /\ rest \intersect P[x] = {}
    BY <1>9, <2>1
  <2>3. UnionOf(P, U) = rest \union P[x]
    BY <1>9
  <2> HIDE DEF rest
  <2>4. /\ Weighs(w, rest \union P[x])
        /\ SumOver(w, rest \union P[x]) = SumOver(w, rest) + SumOver(w, P[x])
    BY ONLY <2>2, SumSplit
  <2> QED
    BY <2>3, <2>4 DEF rest
<1>11. s[x] = SumOver(w, P[x]) /\ s[x] \in Nat /\ SumOver(s, U \ {x}) \in Nat
  BY <1>3, <1>5, <1>6, <1>7, SumType DEF Weighs
<1> QED
  BY <1>3, <1>7, <1>8, <1>10, <1>11

(* A sum over pairs, row by row.                                           *)
Grid(S, T) == S \X T
Row(S, b)  == S \X {b}

LEMMA SumRow ==
  ASSUME NEW S, NEW b, NEW v, NEW w, Weighs(v, S),
         \A x \in S : w[<<x, b>>] = v[x]
  PROVE  Weighs(w, Row(S, b)) /\ SumOver(w, Row(S, b)) = SumOver(v, S)
<1> DEFINE f == [x \in S |-> <<x, b>>]
<1>1. f \in Bijection(S, Row(S, b))
  BY DEF Bijection, Injection, Surjection, IsInjective, Row
<1>2. \A x \in S : w[f[x]] = v[x]
  OBVIOUS
<1> HIDE DEF f
<1> QED
  BY <1>1, <1>2, SumRenamed

LEMMA SumRows ==
  ASSUME NEW S, NEW T, IsFiniteSet(T), NEW w, Weighs(w, Grid(S, T)), NEW s,
         \A b \in T : s[b] = SumOver(w, Row(S, b))
  PROVE  Weighs(s, T) /\ SumOver(s, T) = SumOver(w, Grid(S, T))
<1> DEFINE P == [b \in T |-> Row(S, b)]
<1>1. PartsApart(P, T)
  BY DEF PartsApart, Row
<1>2. \A b \in T : Weighs(w, P[b])
  <2>1. \A b \in T : P[b] \in SUBSET Grid(S, T)
    BY DEF Row, Grid
  <2> HIDE DEF P
  <2> QED
    BY <2>1, FS_Subset DEF Weighs
<1>3. \A b \in T : s[b] = SumOver(w, P[b])
  OBVIOUS
<1>4. UnionOf(P, T) = Grid(S, T)
  BY DEF UnionOf, Row, Grid
<1> HIDE DEF P
<1>5. /\ Weighs(s, T) /\ SumOver(s, T) = SumOver(w, UnionOf(P, T))
  BY <1>1, <1>2, <1>3, SumParts
<1> QED
  BY <1>4, <1>5
-----------------------------------------------------------------------------
(* Sequences: concatenated, and flattened prefix by prefix.                *)

(* What a concatenation is.                                                *)
LEMMA Concatenated ==
  ASSUME NEW S, NEW s \in Seq(S), NEW t \in Seq(S)
  PROVE  /\ s \o t \in Seq(S) /\ Len(s \o t) = Len(s) + Len(t)
         /\ \A i \in DOMAIN s : i \in DOMAIN (s \o t) /\ (s \o t)[i] = s[i]
         /\ \A i \in DOMAIN t : /\ Len(s) + i \in DOMAIN (s \o t)
                                /\ (s \o t)[Len(s) + i] = t[i]
         /\ \A i \in DOMAIN (s \o t) :
              \/ i \in DOMAIN s
              \/ i - Len(s) \in DOMAIN t /\ i = Len(s) + (i - Len(s))
OBVIOUS

LEMMA UpFromOne ==
  ASSUME NEW G, NEW n \in Nat, 1 \in G,
         \A m \in Nat : 1 <= m /\ m < n /\ m \in G => m + 1 \in G
  PROVE  \A k \in 1 .. n : k \in G
<1> DEFINE B == {m \in 1 .. n : m \notin G}
<1> SUFFICES ASSUME B # {} PROVE FALSE
  OBVIOUS
<1>1. B \in SUBSET Nat
  OBVIOUS
<1>2. PICK m \in B : \A k \in B : m <= k
  <2> HIDE DEF B
  <2> QED BY <1>1, LeastNat
<1>3. m \in 1 .. n /\ m # 1 /\ m \notin G
  BY <1>2
<1>4. m - 1 \in Nat /\ 1 <= m - 1 /\ m - 1 < n /\ (m - 1) + 1 = m
  BY <1>3
<1>5. m - 1 \notin B
  BY <1>2, <1>4
<1>6. m - 1 \in G
  BY <1>4, <1>5
<1> QED BY <1>3, <1>4, <1>6

LEMMA UpFromZero ==
  ASSUME NEW G, NEW n \in Nat, 0 \in G,
         \A m \in Nat : m < n /\ m \in G => m + 1 \in G
  PROVE  n \in G
<1> DEFINE B == {m \in 0 .. n : m \notin G}
<1> SUFFICES ASSUME B # {} PROVE FALSE
  OBVIOUS
<1>1. B \in SUBSET Nat
  OBVIOUS
<1>2. PICK m \in B : \A k \in B : m <= k
  <2> HIDE DEF B
  <2> QED BY <1>1, LeastNat
<1>3. m \in 0 .. n /\ m # 0 /\ m \notin G
  BY <1>2
<1>4. m - 1 \in Nat /\ m - 1 < n /\ (m - 1) + 1 = m /\ m - 1 \in 0 .. n /\ ~(m <= m - 1)
  BY <1>3
<1>5. m - 1 \in G
  BY <1>2, <1>4
<1> QED BY <1>3, <1>4, <1>5

(* The prefixes of a flattened sequence.                                   *)
Flattening(t, n, f) ==
  f = [i \in 1 .. n |-> IF i = 1 THEN t[i] ELSE f[i - 1] \o t[i]]

LEMMA FlatteningExists ==
  ASSUME NEW t, NEW n \in Nat, n >= 1
  PROVE  \E f : Flattening(t, n, f)
<1> DEFINE G == {m \in Nat : \E f : Flattening(t, m, f)}
<1>1. 1 \in G
  <2> DEFINE f == [i \in 1 .. 1 |-> t[i]]
  <2>1. f = [i \in 1 .. 1 |-> IF i = 1 THEN t[i] ELSE f[i - 1] \o t[i]]
    OBVIOUS
  <2> HIDE DEF f
  <2> QED BY <2>1 DEF Flattening
<1>2. ASSUME NEW m \in Nat, 1 <= m, m \in G
      PROVE  m + 1 \in G
  <2>1. PICK f : Flattening(t, m, f)
    BY <1>2
  <2> DEFINE g == [i \in 1 .. m + 1 |-> IF i = m + 1 THEN f[m] \o t[i] ELSE f[i]]
             h == [i \in 1 .. m + 1 |-> IF i = 1 THEN t[i] ELSE g[i - 1] \o t[i]]
  <2>2. ASSUME NEW i \in 1 .. m + 1
        PROVE  g[i] = h[i]
    <3>1. CASE i = m + 1
      <4>1. i - 1 = m /\ m \in 1 .. m + 1 /\ m # m + 1 /\ i # 1
        BY <1>2, <3>1
      <4> QED BY <3>1, <4>1
    <3>2. CASE i # m + 1
      <4>1. i \in 1 .. m
        BY <1>2, <3>2
      <4>2. f[i] = IF i = 1 THEN t[i] ELSE f[i - 1] \o t[i]
        BY <2>1, <4>1 DEF Flattening
      <4>3. i # 1 => i - 1 \in 1 .. m + 1 /\ i - 1 # m + 1
        BY <1>2, <4>1
      <4> QED BY <3>2, <4>2, <4>3
    <3> QED BY <3>1, <3>2
  <2>3. g = h
    BY <2>2
  <2> HIDE DEF g
  <2>4. Flattening(t, m + 1, g)
    BY <2>3 DEF Flattening
  <2> QED BY <1>2, <2>4
<1> HIDE DEF G
<1>3. n \in G
  <2>1. n \in 1 .. n
    OBVIOUS
  <2> QED BY <1>1, <1>2, <2>1, UpFromOne
<1> QED BY <1>3 DEF G

LEMMA FlattenUnfolds ==
  ASSUME NEW t, Len(t) \in Nat, Len(t) >= 1
  PROVE  \E f : Flattening(t, Len(t), f) /\ FlattenSeq(t) = f[Len(t)]
<1> DEFINE flatten == CHOOSE f : Flattening(t, Len(t), f)
<1>1. FlattenSeq(t) = flatten[Len(t)]
  <2>1. Len(t) # 0
    OBVIOUS
  <2> QED BY <2>1, Zenon DEF FlattenSeq, Flattening
<1>2. Flattening(t, Len(t), flatten)
  BY FlatteningExists
<1> QED BY <1>1, <1>2

Grows(t, n, f) ==
  /\ n >= 1 => f[1] = t[1]
  /\ \A m \in Nat : 1 <= m /\ m < n =>
       /\ m \in 1 .. n /\ m + 1 \in 1 .. n
       /\ f[m + 1] = f[m] \o t[m + 1]

LEMMA PrefixStep ==
  ASSUME NEW t, NEW n \in Nat, NEW f, Flattening(t, n, f)
  PROVE  Grows(t, n, f)
<1>1. \A i \in 1 .. n : f[i] = IF i = 1 THEN t[i] ELSE f[i - 1] \o t[i]
  BY DEF Flattening
<1>2. ASSUME NEW m \in Nat, 1 <= m, m < n
      PROVE  /\ m \in 1 .. n /\ m + 1 \in 1 .. n
             /\ f[m + 1] = f[m] \o t[m + 1]
  <2>1. m \in 1 .. n /\ m + 1 \in 1 .. n /\ m + 1 # 1 /\ (m + 1) - 1 = m
    BY <1>2
  <2> QED BY <1>1, <2>1
<1>3. n >= 1 => 1 \in 1 .. n
  OBVIOUS
<1> QED BY <1>1, <1>2, <1>3 DEF Grows

LEMMA PrefixTyped ==
  ASSUME NEW S, NEW t, NEW n \in Nat, NEW f, Flattening(t, n, f),
         \A i \in 1 .. n : t[i] \in Seq(S)
  PROVE  \A m \in 1 .. n : f[m] \in Seq(S)
<1>a. /\ n >= 1 => f[1] = t[1]
      /\ \A m \in Nat : 1 <= m /\ m < n =>
           /\ m \in 1 .. n /\ m + 1 \in 1 .. n
           /\ f[m + 1] = f[m] \o t[m + 1]
  <2>1. Grows(t, n, f)
    BY PrefixStep
  <2> QED BY <2>1 DEF Grows
<1> DEFINE G == {m \in Nat : m \in 1 .. n => f[m] \in Seq(S)}
<1>1. 1 \in G
  <2>1. n >= 1 => 1 \in 1 .. n
    OBVIOUS
  <2>2. 1 \in 1 .. n => f[1] \in Seq(S)
    BY <1>a, <2>1
  <2> QED BY <2>2
<1>2. ASSUME NEW m \in Nat, 1 <= m, m < n, m \in G
      PROVE  m + 1 \in G
  <2>1. f[m] \in Seq(S) /\ t[m + 1] \in Seq(S) /\ f[m + 1] = f[m] \o t[m + 1]
    BY <1>2, <1>a
  <2>2. f[m + 1] \in Seq(S)
    BY <2>1, Concatenated
  <2> QED BY <2>2
<1> HIDE DEF G
<1>3. \A m \in 1 .. n : m \in G
  BY <1>1, <1>2, UpFromOne
<1> QED BY <1>3 DEF G

(* What holds of every prefix holds of the whole.                          *)
LEMMA FlattenTyped ==
  ASSUME NEW S, NEW t \in Seq(Seq(S))
  PROVE  FlattenSeq(t) \in Seq(S)
<1>1. CASE Len(t) = 0
  <2>1. FlattenSeq(t) = t /\ t = <<>>
    BY <1>1 DEF FlattenSeq
  <2> QED BY <2>1
<1>2. CASE Len(t) # 0
  <2>1. Len(t) \in Nat /\ Len(t) >= 1 /\ \A i \in 1 .. Len(t) : t[i] \in Seq(S)
    BY <1>2
  <2>2. PICK f : Flattening(t, Len(t), f) /\ FlattenSeq(t) = f[Len(t)]
    BY <2>1, FlattenUnfolds
  <2>3. \A m \in 1 .. Len(t) : f[m] \in Seq(S)
    BY ONLY <2>1, <2>2, PrefixTyped
  <2> QED BY <2>1, <2>2, <2>3
<1> QED BY <1>1, <1>2
=============================================================================
