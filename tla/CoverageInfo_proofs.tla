------------------------- MODULE CoverageInfo_proofs -------------------------
(***************************************************************************)
(* Proofs about CoverageInfo and its promises, for all programs, tests and *)
(* files, for merges of any number of inputs and campaigns of any length:  *)
(* lines are counted once for every time a test ran them, branches as      *)
(* often as the guest went each way, functions are shown when a test ran   *)
(* them, and no failure shrinks a denominator.                             *)
(***************************************************************************)
EXTENDS CoveragePromises, DataTheorems

-----------------------------------------------------------------------------
(* Largest and smallest elements.                                          *)

LEMMA MaxOnly ==
  ASSUME NEW S \in SUBSET Nat, NEW m \in S, \A y \in S : y <= m
  PROVE  Max(S) = m
<1>1. \A y \in S : y \in Nat
  OBVIOUS
<1>2. \A y \in S : m >= y
  BY <1>1
<1>3. Max(S) \in S /\ \A y \in S : Max(S) >= y
  BY <1>2 DEF Max
<1>4. Max(S) >= m /\ Max(S) <= m /\ Max(S) \in Nat /\ m \in Nat
  BY <1>1, <1>3
<1> QED
  BY <1>4

Larger(S, x) == {y \in S : y > x}

LEMMA MaxIs ==
  ASSUME NEW S \in SUBSET Nat, IsFiniteSet(S), S # {}
  PROVE  Max(S) \in S /\ \A y \in S : y <= Max(S)
<1> DEFINE ranks == {Cardinality(Larger(S, x)) : x \in S}
<1>1. \A x : IsFiniteSet(Larger(S, x)) /\ Cardinality(Larger(S, x)) \in Nat
  <2> TAKE x
  <2>1. Larger(S, x) \in SUBSET S
    BY DEF Larger
  <2> QED
    BY <2>1, FS_Subset, FS_CardinalityType
<1>2. ranks \in SUBSET Nat /\ ranks # {}
  BY <1>1
<1>3. PICK r \in ranks : \A q \in ranks : r <= q
  <2> HIDE DEF ranks
  <2> QED
    BY <1>2, LeastNat
<1>4. PICK x \in S : r = Cardinality(Larger(S, x))
  BY <1>3
<1>5. ASSUME NEW y \in S, y > x PROVE FALSE
  <2>0. \A z \in S : z \in Nat
    OBVIOUS
  <2>a. \A z \in Larger(S, y) : z \in Larger(S, x) /\ z # y
    BY <1>5, <2>0 DEF Larger
  <2>1. Larger(S, y) \in SUBSET (Larger(S, x) \ {y}) /\ y \in Larger(S, x)
    BY <1>5, <2>a DEF Larger
  <2>2. /\ IsFiniteSet(Larger(S, x) \ {y})
        /\ Cardinality(Larger(S, x) \ {y}) = Cardinality(Larger(S, x)) - 1
    BY <1>1, <2>1, FS_RemoveElement
  <2>3. Cardinality(Larger(S, y)) <= Cardinality(Larger(S, x) \ {y})
    BY <2>1, <2>2, FS_Subset
  <2>4. r <= Cardinality(Larger(S, y))
    BY <1>3
  <2> QED
    BY <1>1, <1>4, <2>2, <2>3, <2>4
<1>6. \A y \in S : y <= x
  BY <1>5
<1> QED
  BY <1>6, MaxOnly

LEMMA MinIs ==
  ASSUME NEW S \in SUBSET Nat, S # {}
  PROVE  Min(S) \in S /\ \A y \in S : Min(S) <= y
  BY LeastNat DEF Min

-----------------------------------------------------------------------------
(* A disassembly.                                                          *)
Disassembly(c) == c \in Seq(ToSet(c)) /\ Listing(c)

(* Where a conditional branch leaves the block, and where it goes.         *)
Leaving(c, i) == IF c[i].delay THEN c[i + 1].addr ELSE c[i].addr
Passed(c, i)  == IF c[i].delay THEN Behind(c, i + 1) ELSE Behind(c, i)
Way(c, i, o)  == IF o = 0 THEN c[i].target ELSE Passed(c, i)

LEMMA ListingIs ==
  ASSUME NEW c, Disassembly(c)
  PROVE  /\ Len(c) \in Nat /\ 1 \in 1 .. Len(c) /\ DOMAIN c = 1 .. Len(c) /\ NoAddr \notin Nat
         /\ \A i \in DOMAIN c :
              /\ c[i].addr \in Nat /\ c[i].size \in Nat \ {0} /\ c[i].delay \in BOOLEAN
              /\ Behind(c, i) \in Nat /\ c[i].addr < Behind(c, i)
              /\ c[i].target \in (Nat \union {NoAddr}) \ SlotAddrs(c)
              /\ c[i].delay =>
                   /\ i + 1 \in DOMAIN c /\ Beside(c, i, i + 1)
                   /\ c[i + 1].addr = Behind(c, i)
                   /\ c[i + 1].kind = "other" /\ ~c[i + 1].delay
         /\ \A i, j \in DOMAIN c : i < j => Behind(c, i) <= c[j].addr
<1>1. Len(c) \in Nat /\ DOMAIN c = 1 .. Len(c) /\ c # <<>> /\ NoAddr \notin Nat
  BY DEF Disassembly, Listing
<1>2. Len(c) # 0
  BY <1>1 DEF Disassembly
<1>3. \A i \in DOMAIN c :
        /\ c[i].addr \in Nat /\ c[i].size \in Nat \ {0} /\ c[i].delay \in BOOLEAN
        /\ c[i].target \in (Nat \union {NoAddr}) \ SlotAddrs(c)
        /\ c[i].delay =>
             /\ Beside(c, i, i + 1)
             /\ c[i + 1].addr = Behind(c, i)
             /\ c[i + 1].kind = "other" /\ ~c[i + 1].delay
  BY Zenon DEF Disassembly, Listing
<1>4. \A i \in DOMAIN c : Behind(c, i) \in Nat /\ c[i].addr < Behind(c, i)
  BY <1>3 DEF Behind
<1>5. \A i \in DOMAIN c : Beside(c, i, i + 1) => i + 1 \in DOMAIN c
  BY DEF Beside
<1>6. \A i, j \in DOMAIN c : i < j => Behind(c, i) <= c[j].addr
  BY Zenon DEF Disassembly, Listing
<1>7. 1 \in 1 .. Len(c)
  BY <1>1, <1>2
<1> QED BY <1>1, <1>3, <1>4, <1>5, <1>6, <1>7

(* No two instructions share an address.                                   *)
LEMMA AddressesApart ==
  ASSUME NEW c, Disassembly(c)
  PROVE  /\ \A i, j \in DOMAIN c : i < j => c[i].addr < c[j].addr
         /\ \A i, j \in DOMAIN c : c[i].addr = c[j].addr => i = j
         /\ \A i \in DOMAIN c : Index(c, c[i].addr) = i
<1>1. \A i \in DOMAIN c : i \in Nat /\ c[i].addr \in Nat /\ Behind(c, i) \in Nat
                          /\ c[i].addr < Behind(c, i)
  BY ListingIs
<1>2. \A i, j \in DOMAIN c : i < j => c[i].addr < c[j].addr
  <2> TAKE i, j \in DOMAIN c
  <2>1. i < j => Behind(c, i) <= c[j].addr
    BY ListingIs
  <2> QED BY <1>1, <2>1
<1>3. \A i, j \in DOMAIN c : c[i].addr = c[j].addr => i = j
  <2> TAKE i, j \in DOMAIN c
  <2>1. i < j \/ j < i \/ i = j
    BY <1>1
  <2>2. c[i].addr \in Nat /\ c[j].addr \in Nat
    BY <1>1
  <2> QED BY <1>2, <2>1, <2>2
<1>4. \A i \in DOMAIN c : Index(c, c[i].addr) = i
  <2> TAKE i \in DOMAIN c
  <2>1. \E j \in DOMAIN c : c[j].addr = c[i].addr
    OBVIOUS
  <2>2. Index(c, c[i].addr) \in DOMAIN c /\ c[Index(c, c[i].addr)].addr = c[i].addr
    BY <2>1, Zenon DEF Index
  <2> QED BY <1>3, <2>2
<1> QED BY <1>2, <1>3, <1>4

LEMMA InListing ==
  ASSUME NEW c, NEW a
  PROVE  a \in Addrs(c) <=> \E i \in DOMAIN c : a = c[i].addr
BY DEF Addrs

(* What lies directly behind an instruction is the one that follows it.    *)
LEMMA BehindIsNext ==
  ASSUME NEW c, Disassembly(c), NEW i \in DOMAIN c, NEW k \in DOMAIN c,
         c[k].addr = Behind(c, i)
  PROVE  k = i + 1
<1>1. i \in Nat /\ k \in Nat /\ DOMAIN c = 1 .. Len(c) /\ Len(c) \in Nat
  BY ListingIs
<1>2. c[i].addr < c[k].addr /\ c[i].addr \in Nat /\ c[k].addr \in Nat
  BY ListingIs
<1>3. i < k
  <2>1. ~(k < i) /\ k # i
    BY <1>2, AddressesApart
  <2> QED BY <1>1, <2>1
<1>4. CASE i + 1 < k
  <2>1. i + 1 \in DOMAIN c /\ i < i + 1
    BY <1>1, <1>4
  <2>2. Behind(c, i) <= c[i + 1].addr /\ c[i + 1].addr < c[k].addr
    BY <1>4, <2>1, ListingIs, AddressesApart
  <2>3. c[i + 1].addr \in Nat
    BY <2>1, ListingIs
  <2> QED BY <1>2, <2>2, <2>3
<1> QED BY <1>1, <1>3, <1>4

LEMMA SlotsAre ==
  ASSUME NEW c, Disassembly(c)
  PROVE  \A a : a \in SlotAddrs(c)
                  <=> \E i \in DOMAIN c : c[i].delay /\ a = c[i + 1].addr
<1>1. \A k : k \in DelaySlots(c) <=> \E i \in DOMAIN c : c[i].delay /\ k = i + 1
  BY ListingIs DEF DelaySlots
<1> QED BY <1>1, Zenon DEF SlotAddrs

(* An instruction that has no slot is not followed by one.                 *)
LEMMA NoSlotBehind ==
  ASSUME NEW c, Disassembly(c), NEW i \in DOMAIN c, ~c[i].delay
  PROVE  Behind(c, i) \notin SlotAddrs(c)
<1> SUFFICES ASSUME NEW j \in DOMAIN c, c[j].delay, Behind(c, i) = c[j + 1].addr
             PROVE  FALSE
  BY SlotsAre
<1>1. j + 1 \in DOMAIN c
  BY ListingIs
<1>2. j + 1 = i + 1
  BY <1>1, BehindIsNext
<1>3. i \in Nat /\ j \in Nat
  BY ListingIs
<1>4. i = j
  BY <1>2, <1>3
<1> QED BY <1>4

LEMMA SlotsListed ==
  ASSUME NEW c, Disassembly(c)
  PROVE  SlotAddrs(c) \subseteq Addrs(c) /\ Addrs(c) \subseteq Nat /\ NoAddr \notin Addrs(c)
<1>1. SlotAddrs(c) \subseteq Addrs(c)
  BY SlotsAre, InListing, ListingIs
<1>2. Addrs(c) \subseteq Nat
  BY InListing, ListingIs
<1> QED BY <1>1, <1>2, ListingIs

(* Neither way of a conditional branch is a slot, and they are different.  *)
LEMMA WaysApart ==
  ASSUME NEW c, Disassembly(c), NEW i \in DOMAIN c, c[i].kind = "cond"
  PROVE  /\ _fallthrough(c, i) = Passed(c, i) /\ Passed(c, i) \in Nat
         /\ Way(c, i, 0) # Way(c, i, 1)
         /\ \A o \in {0, 1} : Way(c, i, o) \notin SlotAddrs(c)
                              /\ Way(c, i, o) \in Nat \union {NoAddr}
<1> DEFINE next == AfterTransfer(c, i)
<1>1. /\ c[i].target # _fallthrough(c, i) /\ c[i].target \notin SlotAddrs(c)
      /\ c[i].target \in Nat \union {NoAddr}
      /\ Beside(c, i, next) => c[next].addr = Behind(c, next - 1)
  BY Zenon DEF Disassembly, Listing
<1>2. next = IF c[i].delay THEN i + 2 ELSE i + 1
  BY ListingIs DEF AfterTransfer
<1>3. i \in Nat /\ (i + 2) - 1 = i + 1 /\ (i + 1) - 1 = i
  BY ListingIs
<1> HIDE DEF next
<1>4. _fallthrough(c, i) = Passed(c, i)
  <2>1. CASE Beside(c, i, next)
    <3>1. _fallthrough(c, i) = c[next].addr
      BY <2>1 DEF _fallthrough, next
    <3>2. next - 1 = IF c[i].delay THEN i + 1 ELSE i
      BY <1>2, <1>3
    <3> QED BY <1>1, <2>1, <3>1, <3>2, Zenon DEF Passed
  <2>2. CASE ~Beside(c, i, next)
    <3>1. CASE ~c[i].delay
      BY <2>2, <3>1 DEF _fallthrough, next, Passed, Behind
    <3>2. CASE c[i].delay
      <4>1. Beside(c, i, i + 1)
        BY <3>2, ListingIs
      <4> QED BY <2>2, <3>2, <4>1 DEF _fallthrough, next, Passed, Behind
    <3> QED BY <3>1, <3>2
  <2> QED BY <2>1, <2>2
<1>5. Passed(c, i) \notin SlotAddrs(c) /\ Passed(c, i) \in Nat
  <2>1. CASE ~c[i].delay
    BY <2>1, NoSlotBehind, ListingIs DEF Passed
  <2>2. CASE c[i].delay
    <3>1. i + 1 \in DOMAIN c /\ ~c[i + 1].delay
      BY <2>2, ListingIs
    <3> QED BY <2>2, <3>1, NoSlotBehind, ListingIs DEF Passed
  <2> QED BY <2>1, <2>2
<1>6. Way(c, i, 0) = c[i].target /\ Way(c, i, 1) = Passed(c, i)
  BY DEF Way
<1> QED BY <1>1, <1>4, <1>5, <1>6

-----------------------------------------------------------------------------
(* Branch points.                                                          *)

LEMMA BlockIs ==
  ASSUME NEW c, Disassembly(c), NEW symbols, NEW b \in Blocks(c, symbols)
  PROVE  /\ b.first \in DOMAIN c /\ b.last \in DOMAIN c /\ b.first <= b.last
         /\ b.last + 1 \in Leaders(c, symbols) \/ b.last = Len(c)
<1> DEFINE leaders == Leaders(c, symbols)
           ends(i) == {j \in i .. Len(c) : j + 1 \in leaders \/ j = Len(c)}
<1>1. leaders \subseteq DOMAIN c
  BY DEF Leaders
<1>2. PICK i \in leaders : b = [first |-> i, last |-> Min(ends(i))]
  BY DEF Blocks
<1>3. i \in DOMAIN c /\ DOMAIN c = 1 .. Len(c) /\ Len(c) \in Nat
  BY <1>1, <1>2, ListingIs
<1> HIDE DEF leaders
<1>4. PICK S : S = ends(i)
  OBVIOUS
<1>5. Len(c) \in S /\ S \in SUBSET Nat
  BY <1>3, <1>4
<1>6. PICK j : j = Min(S) /\ j \in S
  BY <1>5, MinIs
<1>7. j \in i .. Len(c) /\ (j + 1 \in leaders \/ j = Len(c))
  BY <1>4, <1>6
<1>8. b.first = i /\ b.last = j
  BY <1>2, <1>4, <1>6
<1>9. j \in DOMAIN c /\ i <= j /\ i \in Nat /\ j \in Nat
  <2>1. PICK n \in Nat : n = Len(c)
    BY <1>3
  <2>2. i \in 1 .. n /\ j \in i .. n /\ DOMAIN c = 1 .. n
    BY <1>3, <1>7, <2>1, Zenon
  <2>3. j \in 1 .. n /\ i <= j /\ i \in Nat /\ j \in Nat
    BY ONLY <2>1, <2>2
  <2> QED BY <2>2, <2>3, Zenon
<1>10. j + 1 \in Leaders(c, symbols) \/ j = Len(c)
  BY <1>7 DEF leaders
<1> QED BY ONLY <1>3, <1>8, <1>9, <1>10

(* A delay slot begins no block, so a branch that has one is not the last  *)
(* instruction of its block: the slot is.                                  *)
LEMMA SlotEndsBlock ==
  ASSUME NEW c, Disassembly(c), NEW symbols, NEW b \in Blocks(c, symbols),
         c[b.last].kind \in TERMINATORS
  PROVE  ~c[b.last].delay
<1> SUFFICES ASSUME c[b.last].delay PROVE FALSE
  BY BlockIs, ListingIs
<1>1. b.last \in DOMAIN c /\ b.last + 1 \in DOMAIN c
  BY BlockIs, ListingIs
<1>2. b.last # Len(c)
  BY <1>1, ListingIs
<1>3. b.last + 1 \in Leaders(c, symbols)
  BY <1>2, BlockIs
<1>4. b.last + 1 \in DelaySlots(c)
  BY <1>1, ListingIs DEF DelaySlots
<1> QED BY <1>3, <1>4 DEF Leaders

PointOf(c, i, bp) ==
  /\ c[i].kind = "cond" /\ bp.addr = c[i].addr
  /\ bp.taken = IF c[i].target \in Addrs(c) THEN c[i].target ELSE NoAddr
  /\ bp.fallthrough = Passed(c, i) /\ bp.block_end = Leaving(c, i)
  /\ bp = [addr |-> bp.addr, taken |-> bp.taken, fallthrough |-> bp.fallthrough,
           block_end |-> bp.block_end]

LEMMA PointIs ==
  ASSUME NEW c, Disassembly(c), NEW symbols, NEW bp \in BranchPoints(c, symbols)
  PROVE  \E i \in DOMAIN c : PointOf(c, i, bp)
<1>1. PICK b \in Blocks(c, symbols) :
        /\ Terminator(c, b) # 0 /\ c[Terminator(c, b)].kind = "cond"
        /\ bp = [addr |-> c[Terminator(c, b)].addr,
                 taken |-> IF c[Terminator(c, b)].target \in Addrs(c)
                           THEN c[Terminator(c, b)].target ELSE NoAddr,
                 fallthrough |-> _fallthrough(c, Terminator(c, b)),
                 block_end |-> c[b.last].addr]
  BY DEF BranchPoints
<1>2. PICK i : i = Terminator(c, b)
  OBVIOUS
<1>3. b.first \in DOMAIN c /\ b.last \in DOMAIN c /\ b.first <= b.last
  BY BlockIs
<1>4. i \in DOMAIN c /\ c[b.last].addr = Leaving(c, i)
  <2> DEFINE slotted == /\ b.last > b.first /\ c[b.last - 1].delay
                        /\ c[b.last - 1].kind \in TERMINATORS
  <2>1. CASE slotted
    <3>1. i = b.last - 1
      BY <1>2, <2>1 DEF Terminator
    <3>2. b.last - 1 \in DOMAIN c /\ (b.last - 1) + 1 = b.last
      BY <1>3, <2>1, ListingIs
    <3> QED BY <2>1, <3>1, <3>2 DEF Leaving
  <2>2. CASE ~slotted
    <3>1. i = b.last /\ c[b.last].kind \in TERMINATORS
      BY <1>1, <1>2, <2>2 DEF Terminator
    <3>2. ~c[b.last].delay
      BY <3>1, SlotEndsBlock
    <3> QED BY <1>3, <3>1, <3>2 DEF Leaving
  <2> QED BY <2>1, <2>2
<1>5. _fallthrough(c, i) = Passed(c, i)
  BY <1>1, <1>2, <1>4, WaysApart
<1> QED BY <1>1, <1>2, <1>4, <1>5 DEF PointOf

(* A branch point that is not indirect goes one of two known ways, and is  *)
(* known by its address.                                                   *)
LEMMA DirectIs ==
  ASSUME NEW c, Disassembly(c), NEW bp, NEW i \in DOMAIN c, PointOf(c, i, bp), ~Indirect(bp)
  PROVE  /\ bp.addr \in Addrs(c) /\ c[i].target \in Addrs(c)
         /\ bp.taken = Way(c, i, 0) /\ bp.fallthrough = Way(c, i, 1)
BY InListing DEF PointOf, Indirect, Way

LEMMA PointsApart ==
  ASSUME NEW c, Disassembly(c), NEW symbols,
         NEW p \in BranchPoints(c, symbols), NEW q \in BranchPoints(c, symbols),
         p.addr = q.addr
  PROVE  p = q
<1>1. PICK i \in DOMAIN c : PointOf(c, i, p)
  BY PointIs
<1>2. PICK j \in DOMAIN c : PointOf(c, j, q)
  BY PointIs
<1>3. i = j
  BY <1>1, <1>2, AddressesApart DEF PointOf
<1> QED BY <1>1, <1>2, <1>3, Zenon DEF PointOf
-----------------------------------------------------------------------------
(* The guest.                                                              *)
IsGuest(x) ==
  x = [pc |-> x.pc, npc |-> x.npc, src |-> x.src, slot |-> x.slot, due |-> x.due,
       ran |-> x.ran, edges |-> x.edges, went |-> x.went]

LEMMA CountIs ==
  ASSUME NEW f, NEW k
  PROVE  /\ DOMAIN Count(f, k) = DOMAIN f \union {k}
         /\ k \in DOMAIN f => Count(f, k)[k] = f[k] + 1
         /\ k \notin DOMAIN f => Count(f, k)[k] = 1
         /\ \A j \in DOMAIN f : j # k => Count(f, k)[j] = f[j]
BY DEF Count

LEMMA CountType ==
  ASSUME NEW S, NEW f \in [S -> Nat], NEW k \in S
  PROVE  /\ Count(f, k) \in [S -> Nat] /\ Count(f, k)[k] = f[k] + 1
         /\ \A j \in S : j # k => Count(f, k)[j] = f[j]
         /\ \A j \in S : f[j] <= Count(f, k)[j]
<1>1. DOMAIN Count(f, k) = S /\ Count(f, k) = [j \in S |-> Count(f, k)[j]]
  BY DEF Count
<1>2. Count(f, k)[k] = f[k] + 1 /\ \A j \in S : j # k => Count(f, k)[j] = f[j]
  <2>1. DOMAIN f = S
    OBVIOUS
  <2> QED BY <2>1, CountIs, ZenonT(20)
<1>3. \A j \in S : f[j] \in Nat
  OBVIOUS
<1>4. \A j \in S : Count(f, k)[j] \in Nat /\ f[j] <= Count(f, k)[j]
  BY <1>2, <1>3
<1>5. Count(f, k) \in [S -> Nat]
  BY <1>1, <1>4
<1> QED BY <1>2, <1>4, <1>5

(* One more edge is one more in every sum it belongs to.                   *)
Among(f, P) == SumOver(f, DOMAIN f \intersect P)
Tally(f) == IsFiniteSet(DOMAIN f) /\ \A k \in DOMAIN f : f[k] \in Nat

LEMMA TallyWeighs ==
  ASSUME NEW f, Tally(f), NEW P
  PROVE  Weighs(f, DOMAIN f \intersect P) /\ Among(f, P) \in Nat
<1>1. DOMAIN f \intersect P \subseteq DOMAIN f
  OBVIOUS
<1>2. IsFiniteSet(DOMAIN f \intersect P)
  BY <1>1, FS_Subset DEF Tally
<1>3. Weighs(f, DOMAIN f \intersect P)
  BY <1>2 DEF Weighs, Tally
<1> QED BY <1>3, SumType DEF Among

LEMMA AmongCount ==
  ASSUME NEW f, Tally(f), NEW k, NEW P
  PROVE  /\ Tally(Count(f, k))
         /\ Among(Count(f, k), P) = Among(f, P) + IF k \in P THEN 1 ELSE 0
<1> DEFINE g == Count(f, k)
           S == DOMAIN f \intersect P
           T == DOMAIN g \intersect P
<1>1. /\ DOMAIN g = DOMAIN f \union {k}
      /\ k \in DOMAIN f => g[k] = f[k] + 1
      /\ k \notin DOMAIN f => g[k] = 1
      /\ \A j \in DOMAIN f : j # k => g[j] = f[j]
  BY CountIs
<1> HIDE DEF g
<1>2. Tally(g)
  <2>1. IsFiniteSet(DOMAIN g)
    BY <1>1, FS_AddElement DEF Tally
  <2>2. \A j \in DOMAIN g : g[j] \in Nat
    BY <1>1 DEF Tally
  <2> QED BY <2>1, <2>2 DEF Tally
<1>3. /\ Weighs(f, S) /\ SumOver(f, S) = Among(f, P) /\ Among(f, P) \in Nat
      /\ Weighs(g, T) /\ SumOver(g, T) = Among(g, P)
  BY <1>2, TallyWeighs DEF Among
<1>4. CASE k \notin P
  <2>1. S = T /\ \A j \in S : g[j] = f[j]
    BY <1>1, <1>4
  <2>2. SumOver(g, S) = SumOver(f, S)
    <3> HIDE DEF S
    <3> QED BY <1>3, <2>1, SumSame
  <2> QED BY <1>2, <1>3, <1>4, <2>1, <2>2 DEF g
<1>5. CASE k \in P /\ k \in DOMAIN f
  <2>1. S = T /\ k \in S /\ g[k] = f[k] + 1 /\ \A j \in S \ {k} : g[j] = f[j]
    BY <1>1, <1>5
  <2>2. SumOver(g, S) = SumOver(f, S) + 1
    <3> HIDE DEF S
    <3> QED BY <1>3, <2>1, SumBump
  <2> QED BY <1>2, <1>3, <1>5, <2>1, <2>2 DEF g
<1>6. CASE k \in P /\ k \notin DOMAIN f
  <2>1. T = S \union {k} /\ k \notin S /\ g[k] = 1 /\ \A j \in S : g[j] = f[j]
    BY <1>1, <1>6
  <2>2. Weighs(g, S) /\ SumOver(g, S) = SumOver(f, S)
    <3> HIDE DEF S
    <3> QED BY <1>3, <2>1, SumSame
  <2>3. SumOver(g, T) = 1 + SumOver(g, S)
    <3> HIDE DEF S, T
    <3> QED BY <1>3, <2>1, SumAdd
  <2>4. 1 + Among(f, P) = Among(f, P) + 1
    BY <1>3
  <2> QED BY <1>2, <1>3, <1>6, <2>2, <2>3, <2>4 DEF g
<1> QED BY <1>4, <1>5, <1>6

(* The processor is either in the slot of an instruction that it has       *)
(* executed, or not in a slot and on a straight line.                      *)
GuestType(c, x) ==
  /\ IsGuest(x) /\ x.slot \in BOOLEAN
  /\ x.ran \in [Addrs(c) -> Nat] /\ x.went \in [Addrs(c) \X {0, 1} -> Nat]
  /\ Tally(x.edges)
InSlotOf(c, x, i) == x.slot /\ c[i].delay /\ x.pc = c[i + 1].addr
Placed(c, x) ==
  /\ x.slot => x.npc \notin SlotAddrs(c) /\ \E i \in DOMAIN c : InSlotOf(c, x, i)
  /\ ~x.slot => /\ x.pc \notin SlotAddrs(c)
                /\ \A i \in DOMAIN c : x.pc = c[i].addr => x.npc = Behind(c, i)

(* A branch that is due was executed, and its slot if it has one: it is on *)
(* its way.                                                                *)
DueOf(c, x, i, o) ==
  /\ c[i].kind = "cond" /\ x.due = <<c[i].addr, o>>
  /\ x.slot => InSlotOf(c, x, i) /\ x.npc = Way(c, i, o)
  /\ ~x.slot => x.src = Leaving(c, i) /\ x.pc = Way(c, i, o)
OnItsWay(c, x) ==
  x.due = <<>> \/ \E i \in DOMAIN c, o \in {0, 1} : DueOf(c, x, i, o)

(* Behind a branch its outcome is due.                                     *)
JustLeft(c, x, i) ==
  InSlotOf(c, x, i) \/ (~x.slot /\ x.src \in {c[i].addr, Leaving(c, i)})
NoneForgotten(c, x) ==
  \A i \in DOMAIN c :
    c[i].kind = "cond" /\ JustLeft(c, x, i) => \E o \in {0, 1} : x.due = <<c[i].addr, o>>

(* The edges that resolve an outcome are as many as the guest went.        *)
Resolving(c, i, o) == {c[i].addr, Leaving(c, i)} \X {Way(c, i, o)}
AsOften(c, x) ==
  \A i \in DOMAIN c : \A o \in {0, 1} :
    c[i].kind = "cond" => Among(x.edges, Resolving(c, i, o)) = x.went[<<c[i].addr, o>>]

(* Edges come from instructions.                                           *)
Traced(c, x) ==
  /\ x.src \in Addrs(c) \union {NoAddr}
  /\ \A e \in DOMAIN x.edges : e = <<e[1], e[2]>> /\ e[1] \in Addrs(c)

RanFirst(c, x) ==
  /\ \A a \in Addrs(c), o \in {0, 1} : x.went[<<a, o>>] > 0 => x.ran[a] > 0
  /\ \A a \in Addrs(c), o \in {0, 1} : x.due = <<a, o>> => x.ran[a] > 0

GuestInv(c, x) ==
  /\ GuestType(c, x) /\ Placed(c, x) /\ OnItsWay(c, x) /\ NoneForgotten(c, x)
  /\ AsOften(c, x) /\ Traced(c, x) /\ RanFirst(c, x)

LEMMA GuestIs ==
  ASSUME NEW x, NEW pc, NEW npc, NEW src, NEW slot, NEW due, NEW ran, NEW edges, NEW went,
         x = [pc |-> pc, npc |-> npc, src |-> src, slot |-> slot, due |-> due,
              ran |-> ran, edges |-> edges, went |-> went]
  PROVE  /\ IsGuest(x) /\ x.pc = pc /\ x.npc = npc /\ x.src = src /\ x.slot = slot
         /\ x.due = due /\ x.ran = ran /\ x.edges = edges /\ x.went = went
BY DEF IsGuest

LEMMA BootIs ==
  ASSUME NEW c
  PROVE  /\ IsGuest(Boot(c)) /\ Boot(c).pc = c[1].addr /\ Boot(c).npc = Behind(c, 1)
         /\ Boot(c).src = NoAddr /\ Boot(c).slot = FALSE /\ Boot(c).due = <<>>
         /\ Boot(c).ran = [a \in Addrs(c) |-> 0] /\ Boot(c).edges = <<>>
         /\ Boot(c).went = [o \in Addrs(c) \X {0, 1} |-> 0]
BY DEF Boot, IsGuest, Behind

LEMMA BootRight ==
  ASSUME NEW c, Disassembly(c)
  PROVE  GuestInv(c, Boot(c))
<1> DEFINE x == Boot(c)
<1>1. /\ IsGuest(x) /\ x.pc = c[1].addr /\ x.npc = Behind(c, 1)
      /\ x.src = NoAddr /\ x.slot = FALSE /\ x.due = <<>>
      /\ x.ran = [a \in Addrs(c) |-> 0] /\ x.edges = <<>>
      /\ x.went = [o \in Addrs(c) \X {0, 1} |-> 0]
  BY BootIs
<1>2. 1 \in DOMAIN c /\ NoAddr \notin Addrs(c)
  BY ListingIs, SlotsListed
<1> HIDE DEF x
<1>3. Tally(x.edges) /\ \A P : Among(x.edges, P) = 0
  <2>1. DOMAIN x.edges = {}
    BY <1>1
  <2>2. \A P : DOMAIN x.edges \intersect P = {}
    BY <2>1
  <2> QED BY <2>1, <2>2, SumEmpty, FS_EmptySet DEF Tally, Among
<1>4. GuestType(c, x)
  <2>1. x.slot \in BOOLEAN
    BY <1>1, Zenon
  <2>2. x.ran \in [Addrs(c) -> Nat] /\ x.went \in [Addrs(c) \X {0, 1} -> Nat]
    BY <1>1
  <2> QED BY <1>1, <1>3, <2>1, <2>2, Zenon DEF GuestType
<1>5. Placed(c, x)
  <2>1. x.pc \notin SlotAddrs(c)
    <3> SUFFICES ASSUME NEW i \in DOMAIN c, c[i].delay, x.pc = c[i + 1].addr
                 PROVE  FALSE
      BY SlotsAre
    <3>1. i + 1 \in DOMAIN c
      BY ListingIs
    <3>2. i + 1 = 1
      BY <1>1, <1>2, <3>1, AddressesApart
    <3>3. i \in Nat /\ i >= 1
      BY ListingIs
    <3> QED BY <3>2, <3>3
  <2>2. \A i \in DOMAIN c : x.pc = c[i].addr => x.npc = Behind(c, i)
    BY <1>1, <1>2, AddressesApart
  <2> QED BY <1>1, <2>1, <2>2 DEF Placed
<1>6. OnItsWay(c, x)
  BY <1>1 DEF OnItsWay
<1>7. NoneForgotten(c, x)
  <2>1. \A i \in DOMAIN c : c[i].addr \in Addrs(c) /\ Leaving(c, i) \in Addrs(c)
    BY InListing, ListingIs DEF Leaving
  <2>2. \A i \in DOMAIN c : ~JustLeft(c, x, i)
    BY <1>1, <1>2, <2>1 DEF JustLeft, InSlotOf
  <2> QED BY <2>2 DEF NoneForgotten
<1>8. \A i \in DOMAIN c : c[i].addr \in Addrs(c)
  BY InListing
<1>9. \A a \in Addrs(c), o \in {0, 1} : x.went[<<a, o>>] = 0
  BY <1>1
<1>10. AsOften(c, x)
  BY <1>3, <1>8, <1>9 DEF AsOften
<1>11. RanFirst(c, x)
  BY <1>1, <1>9 DEF RanFirst
<1>12. Traced(c, x)
  BY <1>1 DEF Traced
<1> QED BY <1>4, <1>5, <1>6, <1>7, <1>10, <1>11, <1>12 DEF GuestInv, x

LEMMA EnterIs ==
  ASSUME NEW x, IsGuest(x)
  PROVE  LET y == Enter(x)
             settles == x.src # NoAddr /\ ~x.slot
         IN /\ IsGuest(y) /\ y.pc = x.pc /\ y.npc = x.npc /\ y.slot = x.slot /\ y.ran = x.ran
            /\ y.src = NoAddr
            /\ y.edges = IF x.src = NoAddr THEN x.edges ELSE Count(x.edges, <<x.src, x.pc>>)
            /\ y.went = IF settles /\ x.due # <<>> THEN Count(x.went, x.due) ELSE x.went
            /\ y.due = IF settles THEN <<>> ELSE x.due
<1>1. CASE x.src = NoAddr
  BY <1>1 DEF Enter
<1>2. CASE x.src # NoAddr
  <2>1. PICK edges : edges = Count(x.edges, <<x.src, x.pc>>)
    OBVIOUS
  <2>2. PICK went : went = IF x.due # <<>> /\ ~x.slot THEN Count(x.went, x.due) ELSE x.went
    OBVIOUS
  <2>3. PICK due : due = IF ~x.slot THEN <<>> ELSE x.due
    OBVIOUS
  <2>4. Enter(x) = [pc |-> x.pc, npc |-> x.npc, src |-> NoAddr, slot |-> x.slot, due |-> due,
                    ran |-> x.ran, edges |-> edges, went |-> went]
    BY <1>2, <2>1, <2>2, <2>3 DEF Enter, IsGuest
  <2>5. PICK y : y = Enter(x)
    OBVIOUS
  <2>6. /\ IsGuest(y) /\ y.pc = x.pc /\ y.npc = x.npc /\ y.src = NoAddr /\ y.slot = x.slot
        /\ y.due = due /\ y.ran = x.ran /\ y.edges = edges /\ y.went = went
    BY <2>4, <2>5, GuestIs
  <2> QED BY <1>2, <2>1, <2>2, <2>3, <2>5, <2>6
<1> QED BY <1>1, <1>2

LEMMA AfterIs ==
  ASSUME NEW c, NEW x, IsGuest(x), NEW taken, NEW dest, NEW ends, NEW k,
         k = Index(c, x.pc)
  PROVE  LET y == Enter(x)
             z == After(c, x, taken, dest, ends)
         IN /\ IsGuest(z)
            /\ z.pc = IF taken /\ ~c[k].delay THEN dest ELSE x.npc
            /\ z.npc = IF taken /\ c[k].delay THEN dest
                       ELSE IF z.pc \in Addrs(c) THEN z.pc + c[Index(c, z.pc)].size
                       ELSE NoAddr
            /\ z.src = (IF ends THEN x.pc ELSE NoAddr) /\ z.slot = c[k].delay
            /\ z.due = IF c[k].kind = "cond" THEN <<c[k].addr, IF taken THEN 0 ELSE 1>>
                       ELSE y.due
            /\ z.ran = Count(x.ran, x.pc) /\ z.edges = y.edges /\ z.went = y.went
<1>1. PICK y : y = Enter(x)
  OBVIOUS
<1>2. IsGuest(y) /\ y.pc = x.pc /\ y.npc = x.npc /\ y.ran = x.ran
  BY <1>1, EnterIs
<1>3. PICK first : first = IF taken /\ ~c[k].delay THEN dest ELSE y.npc
  OBVIOUS
<1>4. PICK beyond : beyond = IF first \in Addrs(c) THEN first + c[Index(c, first)].size
                             ELSE NoAddr
  OBVIOUS
<1>5. PICK due : due = IF c[k].kind = "cond" THEN <<c[k].addr, IF taken THEN 0 ELSE 1>>
                       ELSE y.due
  OBVIOUS
<1>6. PICK src : src = IF ends THEN y.pc ELSE NoAddr
  OBVIOUS
<1>7. PICK npc : npc = IF taken /\ c[k].delay THEN dest ELSE beyond
  OBVIOUS
<1>8. PICK slot : slot = c[k].delay
  OBVIOUS
<1>9. PICK ran : ran = Count(y.ran, y.pc)
  OBVIOUS
<1>10. After(c, x, taken, dest, ends)
         = [y EXCEPT !.ran = ran, !.due = due, !.src = src, !.slot = slot,
                     !.pc = first, !.npc = npc]
  BY <1>1, <1>2, <1>3, <1>4, <1>5, <1>6, <1>7, <1>8, <1>9, ZenonT(30) DEF After
<1>11. After(c, x, taken, dest, ends)
         = [pc |-> first, npc |-> npc, src |-> src, slot |-> slot, due |-> due,
            ran |-> ran, edges |-> y.edges, went |-> y.went]
  BY ONLY <1>2, <1>10, ZenonT(40) DEF IsGuest
<1>12. PICK z : z = After(c, x, taken, dest, ends)
  OBVIOUS
<1>13. /\ IsGuest(z) /\ z.pc = first /\ z.npc = npc /\ z.src = src /\ z.slot = slot
       /\ z.due = due /\ z.ran = ran /\ z.edges = y.edges /\ z.went = y.went
  BY <1>11, <1>12, GuestIs
<1> QED BY <1>1, <1>2, <1>3, <1>4, <1>5, <1>6, <1>7, <1>8, <1>9, <1>12, <1>13

(* Two conditional branches have nothing in common.                        *)
LEMMA LeavesApart ==
  ASSUME NEW c, Disassembly(c), NEW i \in DOMAIN c, NEW j \in DOMAIN c,
         c[i].kind = "cond", c[j].kind = "cond",
         Leaving(c, j) \in {c[i].addr, Leaving(c, i)}
  PROVE  i = j
<1>1. i \in Nat /\ j \in Nat
  BY ListingIs
<1>2. /\ c[i].delay => i + 1 \in DOMAIN c /\ c[i + 1].kind = "other"
      /\ c[j].delay => j + 1 \in DOMAIN c /\ c[j + 1].kind = "other"
  BY ListingIs
<1>3. \A k, l \in DOMAIN c : c[k].addr = c[l].addr => k = l
  BY AddressesApart
<1>4. CASE c[j].delay
  <2>1. j + 1 # i
    BY <1>2, <1>4
  <2>2. Leaving(c, j) = c[j + 1].addr
    BY <1>4 DEF Leaving
  <2>3. c[i].delay /\ c[j + 1].addr = c[i + 1].addr
    BY <1>2, <1>3, <1>4, <2>1, <2>2 DEF Leaving
  <2>4. j + 1 = i + 1
    BY <1>2, <1>3, <1>4, <2>3
  <2> QED BY <1>1, <2>4
<1>5. CASE ~c[j].delay
  <2>1. Leaving(c, j) = c[j].addr
    BY <1>5 DEF Leaving
  <2>2. c[i].delay => i + 1 # j
    BY <1>2
  <2> QED BY <1>2, <1>3, <2>1, <2>2 DEF Leaving
<1> QED BY <1>4, <1>5

(* Entering a block settles what was due.                                  *)
LEMMA EnterRight ==
  ASSUME NEW c, Disassembly(c), NEW x, GuestInv(c, x), NEW y, y = Enter(x)
  PROVE  /\ IsGuest(y) /\ y.pc = x.pc /\ y.npc = x.npc /\ y.ran = x.ran
         /\ y.went \in [Addrs(c) \X {0, 1} -> Nat] /\ Tally(y.edges)
         /\ y.due = IF x.slot THEN x.due ELSE <<>>
         /\ AsOften(c, y) /\ RanFirst(c, y)
         /\ \A e \in DOMAIN y.edges : e = <<e[1], e[2]>> /\ e[1] \in Addrs(c)
<1> DEFINE k == <<x.src, x.pc>>
           settles == x.src # NoAddr /\ ~x.slot
<1>1. /\ IsGuest(y) /\ y.pc = x.pc /\ y.npc = x.npc /\ y.ran = x.ran
      /\ y.edges = IF x.src = NoAddr THEN x.edges ELSE Count(x.edges, k)
      /\ y.went = IF settles /\ x.due # <<>> THEN Count(x.went, x.due) ELSE x.went
      /\ y.due = IF settles THEN <<>> ELSE x.due
  BY EnterIs DEF GuestInv, GuestType
<1>2. /\ x.went \in [Addrs(c) \X {0, 1} -> Nat] /\ Tally(x.edges)
      /\ x.ran \in [Addrs(c) -> Nat]
  BY Zenon DEF GuestInv, GuestType
<1>3. /\ AsOften(c, x) /\ RanFirst(c, x) /\ NoneForgotten(c, x)
      /\ x.due = <<>> \/ \E i \in DOMAIN c, o \in {0, 1} : DueOf(c, x, i, o)
  BY Zenon DEF GuestInv, OnItsWay
<1>4. \A i \in DOMAIN c : c[i].addr \in Addrs(c) /\ Leaving(c, i) \in Addrs(c)
  BY InListing, ListingIs DEF Leaving
<1>5. \A i \in DOMAIN c, o \in {0, 1} : DueOf(c, x, i, o) /\ ~x.slot => x.src # NoAddr
  BY <1>4, SlotsListed DEF DueOf
<1>6. y.due = IF x.slot THEN x.due ELSE <<>>
  BY <1>1, <1>3, <1>5
<1>7. Tally(y.edges)
  <2>1. Tally(Count(x.edges, k))
    BY <1>2, AmongCount
  <2> QED BY <1>1, <1>2, <2>1, Zenon
<1>8. \A i \in DOMAIN c, o \in {0, 1} : x.due = <<c[i].addr, o>> => x.due \in Addrs(c) \X {0, 1}
  BY <1>4
<1>9. x.due = <<>> \/ x.due \in Addrs(c) \X {0, 1}
  BY <1>3, <1>8 DEF DueOf
<1>10. y.went \in [Addrs(c) \X {0, 1} -> Nat]
  <2>1. CASE settles /\ x.due # <<>>
    <3>1. y.went = Count(x.went, x.due) /\ x.due \in Addrs(c) \X {0, 1}
      BY <1>1, <1>9, <2>1
    <3> QED BY <1>2, <3>1, CountType
  <2>2. CASE ~(settles /\ x.due # <<>>)
    BY <1>1, <1>2, <2>2, Zenon
  <2> QED BY <2>1, <2>2
<1> HIDE DEF settles
<1>11. AsOften(c, y)
  <2> SUFFICES ASSUME NEW i \in DOMAIN c, NEW o \in {0, 1}, c[i].kind = "cond"
               PROVE  Among(y.edges, Resolving(c, i, o)) = y.went[<<c[i].addr, o>>]
    BY DEF AsOften
  <2>1. /\ Among(x.edges, Resolving(c, i, o)) = x.went[<<c[i].addr, o>>]
        /\ <<c[i].addr, o>> \in Addrs(c) \X {0, 1} /\ x.went[<<c[i].addr, o>>] \in Nat
    BY <1>2, <1>3, <1>4 DEF AsOften
  <2>2. Among(Count(x.edges, k), Resolving(c, i, o))
          = Among(x.edges, Resolving(c, i, o)) + IF k \in Resolving(c, i, o) THEN 1 ELSE 0
    <3>1. Tally(x.edges)
      BY <1>2
    <3> QED BY ONLY <3>1, AmongCount
  <2>3. CASE x.src = NoAddr
    BY <1>1, <2>1, <2>3 DEF settles
  <2>4. CASE x.slot
    <3>1. x.pc # Way(c, i, o)
      <4>1. \E j \in DOMAIN c : c[j].delay /\ x.pc = c[j + 1].addr
        BY <2>4 DEF GuestInv, Placed, InSlotOf
      <4>2. x.pc \in SlotAddrs(c)
        BY <4>1, SlotsAre
      <4> QED BY <4>2, WaysApart
    <3>2. k \notin Resolving(c, i, o)
      BY <3>1 DEF Resolving
    <3> QED BY <1>1, <2>1, <2>2, <2>4, <3>2 DEF settles
  <2>5. CASE x.src # NoAddr /\ ~x.slot /\ x.due = <<>>
    <3>1. x.src \notin {c[i].addr, Leaving(c, i)}
      BY <1>3, <2>5 DEF NoneForgotten, JustLeft
    <3>2. k \notin Resolving(c, i, o)
      BY <3>1 DEF Resolving
    <3> QED BY <1>1, <2>1, <2>2, <2>5, <3>2
  <2>6. CASE x.src # NoAddr /\ ~x.slot /\ x.due # <<>>
    <3>1. PICK j \in DOMAIN c, p \in {0, 1} :
            /\ c[j].kind = "cond" /\ x.due = <<c[j].addr, p>>
            /\ x.src = Leaving(c, j) /\ x.pc = Way(c, j, p)
      BY <1>3, <2>6 DEF DueOf
    <3>2. y.went = Count(x.went, <<c[j].addr, p>>) /\ <<c[j].addr, p>> \in Addrs(c) \X {0, 1}
      BY <1>1, <1>4, <2>6, <3>1 DEF settles
    <3>3. y.edges = Count(x.edges, k)
      BY <1>1, <2>6
    <3>4. CASE i = j /\ o = p
      <4>1. k \in Resolving(c, i, o)
        BY <3>1, <3>4 DEF Resolving
      <4>2. y.went[<<c[i].addr, o>>] = x.went[<<c[i].addr, o>>] + 1
        BY <1>2, <3>2, <3>4, CountType
      <4> QED BY <2>1, <2>2, <3>3, <4>1, <4>2
    <3>5. CASE ~(i = j /\ o = p)
      <4>1. k \notin Resolving(c, i, o)
        <5> SUFFICES ASSUME k \in Resolving(c, i, o) PROVE FALSE
          OBVIOUS
        <5>1. x.src \in {c[i].addr, Leaving(c, i)} /\ x.pc = Way(c, i, o)
          BY DEF Resolving
        <5>2. i = j
          BY <3>1, <5>1, LeavesApart
        <5>3. Way(c, i, 0) # Way(c, i, 1)
          BY WaysApart
        <5> QED BY <3>1, <3>5, <5>1, <5>2, <5>3
      <4>2. <<c[i].addr, o>> # <<c[j].addr, p>>
        BY <3>5, AddressesApart
      <4>3. y.went[<<c[i].addr, o>>] = x.went[<<c[i].addr, o>>]
        BY <1>2, <2>1, <3>2, <4>2, CountType
      <4> QED BY <2>1, <2>2, <3>3, <4>1, <4>3
    <3> QED BY <3>4, <3>5
  <2> QED BY <2>3, <2>4, <2>5, <2>6
<1>12. RanFirst(c, y)
  <2>1. ASSUME NEW a \in Addrs(c), NEW o \in {0, 1}, y.went[<<a, o>>] > 0
        PROVE  y.ran[a] > 0
    <3>1. CASE x.due = <<a, o>>
      BY <1>1, <1>3, <3>1 DEF RanFirst
    <3>2. CASE x.due # <<a, o>>
      <4>1. y.went[<<a, o>>] = x.went[<<a, o>>]
        <5>1. CASE settles /\ x.due # <<>>
          <6>1. y.went = Count(x.went, x.due) /\ x.due \in Addrs(c) \X {0, 1}
            BY <1>1, <1>9, <5>1
          <6>2. <<a, o>> \in Addrs(c) \X {0, 1}
            OBVIOUS
          <6> QED BY <1>2, <3>2, <6>1, <6>2, CountType
        <5>2. CASE ~(settles /\ x.due # <<>>)
          BY <1>1, <5>2, Zenon
        <5> QED BY <5>1, <5>2
      <4> QED BY <1>1, <1>3, <2>1, <4>1 DEF RanFirst
    <3> QED BY <3>1, <3>2
  <2>2. ASSUME NEW a \in Addrs(c), NEW o \in {0, 1}, y.due = <<a, o>>
        PROVE  y.ran[a] > 0
    <3>1. <<a, o>> # <<>>
      OBVIOUS
    <3>2. x.due = <<a, o>>
      BY <1>1, <2>2, <3>1
    <3> QED BY <1>1, <1>3, <3>2 DEF RanFirst
  <2> QED BY <2>1, <2>2 DEF RanFirst
<1>13. \A e \in DOMAIN y.edges : e = <<e[1], e[2]>> /\ e[1] \in Addrs(c)
  <2>1. /\ x.src \in Addrs(c) \union {NoAddr}
        /\ \A e \in DOMAIN x.edges : e = <<e[1], e[2]>> /\ e[1] \in Addrs(c)
    BY Zenon DEF GuestInv, Traced
  <2>2. CASE x.src = NoAddr
    BY <1>1, <2>1, <2>2
  <2>3. CASE x.src # NoAddr
    <3>1. y.edges = Count(x.edges, k)
      BY <1>1, <2>3
    <3>2. k = <<k[1], k[2]>> /\ k[1] \in Addrs(c)
      BY <2>1, <2>3
    <3> HIDE DEF k
    <3>3. DOMAIN y.edges = DOMAIN x.edges \union {k}
      BY <3>1, CountIs
    <3> QED BY <2>1, <3>2, <3>3
  <2> QED BY <2>2, <2>3
<1> QED BY <1>1, <1>6, <1>7, <1>10, <1>11, <1>12, <1>13

(* No transfer goes to a delay slot.                                       *)
LEMMA DestinationsAre ==
  ASSUME NEW c, Disassembly(c), NEW k \in DOMAIN c, NEW dest \in Destinations(c, c[k])
  PROVE  /\ dest \notin SlotAddrs(c) /\ c[k].kind # "other"
         /\ c[k].kind = "cond" => dest = Way(c, k, 0)
<1>1. c[k].kind # "other"
  BY DEF Destinations
<1>2. CASE c[k].kind = "ret"
  <2>1. NoAddr \notin SlotAddrs(c)
    BY SlotsListed
  <2>2. ASSUME NEW j \in DOMAIN c, AfterTransfer(c, j) \in DOMAIN c,
               c[AfterTransfer(c, j)].addr \in SlotAddrs(c)
        PROVE  FALSE
    <3>1. PICK i \in DOMAIN c : c[i].delay /\ c[AfterTransfer(c, j)].addr = c[i + 1].addr
      BY <2>2, SlotsAre
    <3>2. i + 1 \in DOMAIN c /\ ~c[i + 1].delay /\ i \in Nat /\ j \in Nat
      BY <3>1, ListingIs
    <3>3. AfterTransfer(c, j) = i + 1
      BY <2>2, <3>1, <3>2, AddressesApart
    <3>4. CASE c[j].delay
      <4>1. j + 2 = i + 1
        BY <3>3, <3>4 DEF AfterTransfer
      <4>2. i = j + 1
        BY <3>2, <4>1
      <4> QED BY <3>1, <3>4, <4>2, ListingIs
    <3>5. CASE ~c[j].delay
      <4>1. j + 1 = i + 1
        BY <3>3, <3>5 DEF AfterTransfer
      <4>2. i = j
        BY <3>2, <4>1
      <4> QED BY <3>1, <3>5, <4>2
    <3> QED BY <3>4, <3>5
  <2>3. \/ dest = NoAddr
        \/ \E j \in DOMAIN c : AfterTransfer(c, j) \in DOMAIN c
                               /\ dest = c[AfterTransfer(c, j)].addr
    BY <1>2 DEF Destinations
  <2> QED BY <1>1, <1>2, <2>1, <2>2, <2>3
<1>3. CASE c[k].kind # "ret"
  <2>1. dest = c[k].target
    BY <1>1, <1>3 DEF Destinations
  <2>2. c[k].target \notin SlotAddrs(c)
    BY ListingIs
  <2> QED BY <1>1, <2>1, <2>2 DEF Way
<1> QED BY <1>2, <1>3

(* One instruction, at k.                                                  *)
Takes(c, x, k, taken, dest, ends) ==
  /\ k \in DOMAIN c /\ x.pc = c[k].addr
  /\ taken => dest \in Destinations(c, c[k])
  /\ ~taken => MayPass(c[k])
  /\ ~ends => MayGoOn(c[k], x)

LEMMA TakesIs ==
  ASSUME NEW c, Disassembly(c), NEW x, GuestInv(c, x), NEW k, NEW taken, NEW dest, NEW ends,
         Takes(c, x, k, taken, dest, ends)
  PROVE  /\ x.slot => /\ \E i \in DOMAIN c : InSlotOf(c, x, i) /\ k = i + 1
                      /\ c[k].kind = "other" /\ ~c[k].delay /\ ~taken /\ ends
                      /\ x.npc \notin SlotAddrs(c)
         /\ ~x.slot => x.npc = Behind(c, k) /\ c[k].addr \notin SlotAddrs(c)
         /\ c[k].kind = "cond" /\ ~c[k].delay => ends
<1>1. k \in DOMAIN c /\ x.pc = c[k].addr
  BY DEF Takes
<1>2. ASSUME x.slot
      PROVE  /\ \E i \in DOMAIN c : InSlotOf(c, x, i) /\ k = i + 1
             /\ c[k].kind = "other" /\ ~c[k].delay /\ ~taken /\ ends
             /\ x.npc \notin SlotAddrs(c)
  <2>1. PICK i \in DOMAIN c : InSlotOf(c, x, i)
    BY <1>2, Zenon DEF GuestInv, Placed
  <2>2. i + 1 \in DOMAIN c /\ c[i + 1].kind = "other" /\ ~c[i + 1].delay
    BY <2>1, ListingIs DEF InSlotOf
  <2>3. k = i + 1
    BY <1>1, <2>1, <2>2, AddressesApart DEF InSlotOf
  <2>4. ~taken
    BY <1>1, <2>2, <2>3, DestinationsAre DEF Takes
  <2>5. ends
    BY <1>2, Zenon DEF Takes, MayGoOn
  <2>6. x.npc \notin SlotAddrs(c)
    BY <1>2, Zenon DEF GuestInv, Placed
  <2> QED BY <2>1, <2>2, <2>3, <2>4, <2>5, <2>6
<1>3. ASSUME ~x.slot
      PROVE  x.npc = Behind(c, k) /\ c[k].addr \notin SlotAddrs(c)
  BY <1>1, <1>3, Zenon DEF GuestInv, Placed
<1>4. c[k].kind = "cond" /\ ~c[k].delay => ends
  BY DEF Takes, MayGoOn
<1> QED BY <1>2, <1>3, <1>4

LEMMA AfterRight ==
  ASSUME NEW c, Disassembly(c), NEW x, GuestInv(c, x), NEW k, NEW taken, NEW dest, NEW ends,
         Takes(c, x, k, taken, dest, ends)
  PROVE  GuestInv(c, After(c, x, taken, dest, ends))
<1>1. k \in DOMAIN c /\ x.pc = c[k].addr /\ k \in Nat /\ c[k].delay \in BOOLEAN
      /\ c[k].addr \in Addrs(c) /\ NoAddr \notin Addrs(c)
  BY ListingIs, InListing, SlotsListed DEF Takes
<1>2. PICK y : y = Enter(x)
  OBVIOUS
<1>3. /\ IsGuest(y) /\ y.pc = x.pc /\ y.npc = x.npc /\ y.ran = x.ran
      /\ y.went \in [Addrs(c) \X {0, 1} -> Nat] /\ Tally(y.edges)
      /\ y.due = IF x.slot THEN x.due ELSE <<>>
      /\ AsOften(c, y) /\ RanFirst(c, y)
      /\ \A e \in DOMAIN y.edges : e = <<e[1], e[2]>> /\ e[1] \in Addrs(c)
  BY <1>2, EnterRight
<1>4. PICK z : z = After(c, x, taken, dest, ends)
  OBVIOUS
<1>5. /\ IsGuest(z)
      /\ z.pc = IF taken /\ ~c[k].delay THEN dest ELSE x.npc
      /\ z.npc = IF taken /\ c[k].delay THEN dest
                 ELSE IF z.pc \in Addrs(c) THEN z.pc + c[Index(c, z.pc)].size ELSE NoAddr
      /\ z.src = (IF ends THEN x.pc ELSE NoAddr) /\ z.slot = c[k].delay
      /\ z.due = IF c[k].kind = "cond" THEN <<c[k].addr, IF taken THEN 0 ELSE 1>> ELSE y.due
      /\ z.ran = Count(x.ran, x.pc) /\ z.edges = y.edges /\ z.went = y.went
  <2>1. k = Index(c, x.pc)
    BY <1>1, AddressesApart
  <2>2. IsGuest(x)
    BY DEF GuestInv, GuestType
  <2> QED BY <1>2, <1>4, <2>1, <2>2, AfterIs
<1>6. /\ x.slot => /\ \E i \in DOMAIN c : InSlotOf(c, x, i) /\ k = i + 1
                   /\ c[k].kind = "other" /\ ~c[k].delay /\ ~taken /\ ends
                   /\ x.npc \notin SlotAddrs(c)
      /\ ~x.slot => x.npc = Behind(c, k) /\ c[k].addr \notin SlotAddrs(c)
      /\ c[k].kind = "cond" /\ ~c[k].delay => ends
  BY TakesIs
<1>7. taken => /\ dest \notin SlotAddrs(c) /\ c[k].kind # "other"
               /\ c[k].kind = "cond" => dest = Way(c, k, 0)
  BY <1>1, DestinationsAre DEF Takes
<1>8. \A m \in DOMAIN c : z.pc = c[m].addr /\ ~(taken /\ c[k].delay) => z.npc = Behind(c, m)
  BY <1>5, InListing, AddressesApart DEF Behind
<1>9. c[k].delay => /\ ~x.slot /\ k + 1 \in DOMAIN c /\ c[k + 1].addr = Behind(c, k)
                    /\ z.pc = c[k + 1].addr /\ ~c[k + 1].delay
  <2> SUFFICES ASSUME c[k].delay
               PROVE  /\ ~x.slot /\ k + 1 \in DOMAIN c /\ c[k + 1].addr = Behind(c, k)
                      /\ z.pc = c[k + 1].addr /\ ~c[k + 1].delay
    OBVIOUS
  <2>1. k + 1 \in DOMAIN c /\ c[k + 1].addr = Behind(c, k) /\ ~c[k + 1].delay
    BY <1>1, ListingIs
  <2>2. ~x.slot /\ x.npc = Behind(c, k)
    BY <1>6, Zenon
  <2> QED BY <1>5, <2>1, <2>2, Zenon
<1>10. GuestType(c, z)
  <2>1. z.slot \in BOOLEAN
    BY <1>1, <1>5, Zenon
  <2>2. x.ran \in [Addrs(c) -> Nat]
    BY Zenon DEF GuestInv, GuestType
  <2>3. z.ran \in [Addrs(c) -> Nat]
    BY <1>1, <1>5, <2>2, CountType
  <2> QED BY <1>3, <1>5, <2>1, <2>3, Zenon DEF GuestType
<1>11. Placed(c, z)
  <2>1. CASE c[k].delay
    <3>1. InSlotOf(c, z, k)
      BY <1>5, <1>9, <2>1, Zenon DEF InSlotOf
    <3>2. z.npc \notin SlotAddrs(c)
      <4>1. CASE taken
        BY <1>5, <1>7, <2>1, <4>1, Zenon
      <4>2. CASE ~taken
        <5>1. z.npc = Behind(c, k + 1)
          BY <1>8, <1>9, <2>1, <4>2
        <5> QED BY <1>9, <2>1, <5>1, NoSlotBehind
      <4> QED BY <4>1, <4>2
    <3> QED BY <1>1, <1>5, <2>1, <3>1, <3>2, Zenon DEF Placed
  <2>2. CASE ~c[k].delay
    <3>1. z.pc \notin SlotAddrs(c)
      <4>1. CASE taken
        BY <1>5, <1>7, <2>2, <4>1, Zenon
      <4>2. CASE ~taken /\ x.slot
        BY <1>5, <1>6, <4>2, Zenon
      <4>3. CASE ~taken /\ ~x.slot
        <5>1. z.pc = Behind(c, k)
          BY <1>5, <1>6, <4>3, Zenon
        <5> QED BY <1>1, <2>2, <5>1, NoSlotBehind
      <4> QED BY <4>1, <4>2, <4>3
    <3>2. ~z.slot
      BY <1>5, <2>2, Zenon
    <3> QED BY <1>8, <2>2, <3>1, <3>2, Zenon DEF Placed
  <2> QED BY <2>1, <2>2
<1>12. ASSUME c[k].kind = "cond"
       PROVE  \E o \in {0, 1} : DueOf(c, z, k, o)
  <2>1. PICK o : o = IF taken THEN 0 ELSE 1
    OBVIOUS
  <2>2. z.due = <<c[k].addr, o>> /\ o \in {0, 1}
    BY <1>5, <1>12, <2>1
  <2>3. ~x.slot /\ x.npc = Behind(c, k)
    BY <1>6, <1>12, Zenon
  <2>4. CASE c[k].delay
    <3>1. InSlotOf(c, z, k) /\ z.slot
      BY <1>5, <1>9, <2>4, Zenon DEF InSlotOf
    <3>2. CASE taken
      BY <1>5, <1>7, <1>12, <2>1, <2>2, <2>4, <3>1, <3>2 DEF DueOf
    <3>3. CASE ~taken
      <4>1. z.npc = Behind(c, k + 1) /\ o = 1
        BY <1>8, <1>9, <2>1, <2>4, <3>3
      <4>2. Way(c, k, o) = Behind(c, k + 1)
        BY <2>4, <4>1 DEF Way, Passed
      <4> QED BY <1>12, <2>2, <3>1, <4>1, <4>2 DEF DueOf
    <3> QED BY <3>2, <3>3
  <2>5. CASE ~c[k].delay
    <3>1. z.src = Leaving(c, k) /\ ~z.slot
      BY <1>1, <1>5, <1>6, <1>12, <2>5, Zenon DEF Leaving
    <3>2. z.pc = Way(c, k, o)
      <4>1. CASE taken
        BY <1>5, <1>7, <1>12, <2>1, <2>5, <4>1
      <4>2. CASE ~taken
        BY <1>5, <2>1, <2>3, <2>5, <4>2 DEF Way, Passed
      <4> QED BY <4>1, <4>2
    <3> QED BY <1>12, <2>2, <3>1, <3>2 DEF DueOf
  <2> QED BY <2>4, <2>5
<1>13. OnItsWay(c, z)
  <2>1. CASE c[k].kind = "cond"
    BY <1>1, <1>12, <2>1 DEF OnItsWay
  <2>2. CASE c[k].kind # "cond" /\ ~x.slot
    BY <1>3, <1>5, <2>2, Zenon DEF OnItsWay
  <2>3. CASE c[k].kind # "cond" /\ x.slot
    <3>1. z.due = x.due
      BY <1>3, <1>5, <2>3, Zenon
    <3>2. CASE x.due = <<>>
      BY <3>1, <3>2 DEF OnItsWay
    <3>3. CASE x.due # <<>>
      <4>1. PICK i \in DOMAIN c, o \in {0, 1} : DueOf(c, x, i, o)
        BY <3>3, Zenon DEF GuestInv, OnItsWay
      <4>2. InSlotOf(c, x, i) /\ x.npc = Way(c, i, o) /\ c[i].kind = "cond"
            /\ x.due = <<c[i].addr, o>>
        BY <2>3, <4>1, Zenon DEF DueOf
      <4>3. ~z.slot /\ z.pc = Way(c, i, o) /\ z.src = x.pc
        BY <1>5, <1>6, <2>3, <4>2, Zenon
      <4>4. x.pc = Leaving(c, i)
        BY <4>2, Zenon DEF InSlotOf, Leaving
      <4>5. DueOf(c, z, i, o)
        BY <3>1, <4>2, <4>3, <4>4, Zenon DEF DueOf
      <4> QED BY <4>5, Zenon DEF OnItsWay
    <3> QED BY <3>2, <3>3
  <2> QED BY <2>1, <2>2, <2>3
<1>14. NoneForgotten(c, z)
  <2> SUFFICES ASSUME NEW i \in DOMAIN c, c[i].kind = "cond", JustLeft(c, z, i)
               PROVE  \E o \in {0, 1} : z.due = <<c[i].addr, o>>
    BY Zenon DEF NoneForgotten
  <2>1. CASE i = k
    BY <1>12, <2>1 DEF DueOf
  <2>2. CASE i # k
    <3>1. ~z.slot
      <4> SUFFICES ASSUME z.slot PROVE FALSE
        OBVIOUS
      <4>1. c[k].delay /\ c[i].delay /\ z.pc = c[i + 1].addr
        BY <1>5, Zenon DEF JustLeft, InSlotOf
      <4>2. i + 1 \in DOMAIN c /\ i \in Nat
        BY <4>1, ListingIs
      <4>3. i + 1 = k + 1
        BY <1>9, <4>1, <4>2, AddressesApart
      <4> QED BY <1>1, <2>2, <4>2, <4>3
    <3>2. z.src \in {c[i].addr, Leaving(c, i)} /\ Leaving(c, i) \in Addrs(c)
          /\ c[i].addr \in Addrs(c)
      BY <3>1, InListing, ListingIs DEF JustLeft, InSlotOf, Leaving
    <3>3. z.src = c[k].addr
      BY <1>1, <1>5, <3>2
    <3>4. c[k].addr # c[i].addr
      BY <1>1, <2>2, AddressesApart
    <3>5. c[i].delay /\ c[k].addr = c[i + 1].addr
      BY <3>2, <3>3, <3>4 DEF Leaving
    <3>6. x.slot
      BY <1>6, <3>5, SlotsAre
    <3>7. JustLeft(c, x, i)
      BY <1>1, <3>5, <3>6, Zenon DEF JustLeft, InSlotOf
    <3>8. \E o \in {0, 1} : x.due = <<c[i].addr, o>>
      BY <3>7, Zenon DEF GuestInv, NoneForgotten
    <3>9. z.due = x.due
      <4>1. c[k].kind # "cond"
        BY <1>6, <3>6
      <4> QED BY <1>3, <1>5, <3>6, <4>1, Zenon
    <3> QED BY <3>8, <3>9
  <2> QED BY <2>1, <2>2
<1>15. AsOften(c, z)
  BY <1>3, <1>5, Zenon DEF AsOften
<1>16. RanFirst(c, z)
  <2>1. x.ran \in [Addrs(c) -> Nat] /\ \A a \in Addrs(c) : x.ran[a] \in Nat
    BY DEF GuestInv, GuestType
  <2>2. /\ \A a \in Addrs(c) : z.ran[a] \in Nat /\ x.ran[a] <= z.ran[a]
        /\ z.ran[c[k].addr] > 0
    BY <1>1, <1>5, <2>1, CountType
  <2>3. \A a \in Addrs(c) : x.ran[a] > 0 => z.ran[a] > 0
    BY <2>1, <2>2
  <2>4. \A a \in Addrs(c), o \in {0, 1} : z.went[<<a, o>>] > 0 => z.ran[a] > 0
    BY <1>3, <1>5, <2>3 DEF RanFirst
  <2>5. ASSUME NEW a \in Addrs(c), NEW o \in {0, 1}, z.due = <<a, o>>
        PROVE  z.ran[a] > 0
    <3>1. CASE c[k].kind = "cond"
      <4>1. a = c[k].addr
        BY <1>5, <2>5, <3>1
      <4> QED BY <2>2, <4>1
    <3>2. CASE c[k].kind # "cond"
      <4>1. y.due = <<a, o>>
        BY <1>5, <2>5, <3>2
      <4> QED BY <1>3, <2>3, <4>1 DEF RanFirst
    <3> QED BY <3>1, <3>2
  <2> QED BY <2>4, <2>5 DEF RanFirst
<1>17. Traced(c, z)
  BY <1>1, <1>3, <1>5, Zenon DEF Traced
<1> QED BY <1>4, <1>10, <1>11, <1>13, <1>14, <1>15, <1>16, <1>17 DEF GuestInv

LEMMA StepsRight ==
  ASSUME NEW c, Disassembly(c), NEW x, GuestInv(c, x), NEW z, z \in Steps(c, x)
  PROVE  GuestInv(c, z)
<1>1. x.pc \in Addrs(c)
  <2>1. x.pc \notin Addrs(c) => Steps(c, x) = {}
    BY DEF Steps
  <2> QED BY <2>1
<1>2. PICK k \in DOMAIN c : x.pc = c[k].addr
  BY <1>1, InListing
<1>3. Index(c, x.pc) = k
  BY <1>2, AddressesApart
<1> DEFINE insn == c[Index(c, x.pc)]
           jumps == {<<TRUE, d>> : d \in Destinations(c, insn)}
           ways == jumps \union IF MayPass(insn) THEN {<<FALSE, NoAddr>>} ELSE {}
           cuts == IF MayGoOn(insn, x) THEN BOOLEAN ELSE {TRUE}
<1>4. z \in UNION {{After(c, x, way[1], way[2], ends) : ends \in cuts} : way \in ways}
  BY <1>1, Zenon DEF Steps
<1>5. \A way \in ways : /\ way[1] => way[2] \in Destinations(c, insn)
                        /\ ~way[1] => MayPass(insn)
  <2> SUFFICES ASSUME NEW way \in ways
               PROVE  /\ way[1] => way[2] \in Destinations(c, insn)
                      /\ ~way[1] => MayPass(insn)
    OBVIOUS
  <2>1. CASE \E d \in Destinations(c, insn) : way = <<TRUE, d>>
    <3>1. PICK d \in Destinations(c, insn) : way = <<TRUE, d>>
      BY <2>1, Zenon
    <3>2. way[1] = TRUE /\ way[2] = d
      BY <3>1
    <3> QED BY <3>1, <3>2, Zenon
  <2>2. CASE MayPass(insn) /\ way = <<FALSE, NoAddr>>
    <3>1. way[1] = FALSE
      BY <2>2
    <3> QED BY <2>2, <3>1, Zenon
  <2>3. way \in jumps \/ (MayPass(insn) /\ way = <<FALSE, NoAddr>>)
    BY Zenon
  <2> QED BY <2>1, <2>2, <2>3, Zenon
<1>6. \A ends \in cuts : ~ends => MayGoOn(insn, x)
  BY Zenon
<1> HIDE DEF ways, cuts
<1>7. PICK way \in ways, ends \in cuts : z = After(c, x, way[1], way[2], ends)
  BY <1>4
<1>8. Takes(c, x, k, way[1], way[2], ends)
  BY <1>2, <1>3, <1>5, <1>6, Zenon DEF Takes
<1> QED BY <1>7, <1>8, AfterRight

(* The runs of so many instructions.                                       *)
RunsFrom(c, runs, k) ==
  IF k = 0 THEN {Boot(c)}
  ELSE UNION {IF Steps(c, x) = {} THEN {x} ELSE Steps(c, x) : x \in runs[k - 1]}
RunsUpTo(c, n, runs) == runs = [k \in 0 .. n |-> RunsFrom(c, runs, k)]

LEMMA RunsExist ==
  ASSUME NEW c, NEW n \in Nat
  PROVE  \E runs : RunsUpTo(c, n, runs)
<1> DEFINE G == {m \in Nat : \E runs : RunsUpTo(c, m, runs)}
<1>1. 0 \in G
  <2> DEFINE runs == [k \in 0 .. 0 |-> RunsFrom(c, <<>>, 0)]
  <2>1. runs = [k \in 0 .. 0 |-> RunsFrom(c, runs, k)]
    BY DEF RunsFrom
  <2> QED BY <2>1 DEF RunsUpTo
<1>2. ASSUME NEW m \in Nat, m \in G
      PROVE  m + 1 \in G
  <2>1. PICK runs : RunsUpTo(c, m, runs)
    BY <1>2
  <2>2. \A k \in 0 .. m : runs[k] = RunsFrom(c, runs, k)
    BY <2>1 DEF RunsUpTo
  <2> DEFINE next == [k \in 0 .. m + 1 |-> IF k = m + 1 THEN RunsFrom(c, runs, m + 1) ELSE runs[k]]
  <2>3. \A k \in 0 .. m + 1 : k # 0 => next[k - 1] = runs[k - 1]
    OBVIOUS
  <2>4. \A k \in 0 .. m + 1 : RunsFrom(c, next, k) = RunsFrom(c, runs, k)
    <3> HIDE DEF next
    <3> QED BY <2>3 DEF RunsFrom
  <2>5. \A k \in 0 .. m + 1 : k # m + 1 => k \in 0 .. m
    OBVIOUS
  <2>6. \A k \in 0 .. m + 1 : next[k] = RunsFrom(c, next, k)
    BY <2>2, <2>4, <2>5
  <2>7. next = [k \in 0 .. m + 1 |-> next[k]]
    OBVIOUS
  <2> HIDE DEF next
  <2>8. RunsUpTo(c, m + 1, next)
    BY <2>6, <2>7 DEF RunsUpTo
  <2> QED BY <2>8
<1> HIDE DEF G
<1>3. n \in G
  BY <1>1, <1>2, UpFromZero
<1> QED BY <1>3 DEF G

LEMMA ExecutionsRight ==
  ASSUME NEW c, Disassembly(c), NEW n \in Nat, NEW x \in Executions(c, n)
  PROVE  GuestInv(c, x)
<1> DEFINE runs == CHOOSE r : RunsUpTo(c, n, r)
           G == {m \in Nat : m <= n => \A y \in runs[m] : GuestInv(c, y)}
<1>1. RunsUpTo(c, n, runs)
  BY RunsExist
<1>2. Executions(c, n) = runs[n]
  BY Zenon DEF Executions, RunsUpTo, RunsFrom
<1> HIDE DEF runs
<1>3. \A m \in 0 .. n : runs[m] = RunsFrom(c, runs, m)
  BY <1>1 DEF RunsUpTo
<1>4. 0 \in G
  <2>1. runs[0] = RunsFrom(c, runs, 0)
    BY <1>3
  <2>2. RunsFrom(c, runs, 0) = {Boot(c)}
    BY Zenon DEF RunsFrom
  <2> QED BY <2>1, <2>2, BootRight
<1>5. ASSUME NEW m \in Nat, m < n, m \in G
      PROVE  m + 1 \in G
  <2>1. \A y \in runs[m] : GuestInv(c, y)
    BY <1>5
  <2>2. runs[m + 1] = UNION {IF Steps(c, y) = {} THEN {y} ELSE Steps(c, y) : y \in runs[m]}
    <3>1. m + 1 \in 0 .. n /\ m + 1 # 0 /\ (m + 1) - 1 = m
      BY <1>5
    <3> QED BY <1>3, <3>1 DEF RunsFrom
  <2>3. ASSUME NEW z \in runs[m + 1]
        PROVE  GuestInv(c, z)
    <3>1. PICK y \in runs[m] : z \in IF Steps(c, y) = {} THEN {y} ELSE Steps(c, y)
      BY <2>2
    <3>2. z = y \/ z \in Steps(c, y)
      BY <3>1
    <3> QED BY <2>1, <3>2, StepsRight
  <2> QED BY <2>3
<1>6. n \in G
  <2> HIDE DEF G
  <2> QED BY <1>4, <1>5, UpFromZero
<1> QED BY <1>2, <1>6

(***************************************************************************)
(* However QEMU cuts the code into blocks, and whether or not a branch has *)
(* a delay slot, the counts that the edges give a branch with two known    *)
(* ways are how often the guest went each (CFG.match_edges,                *)
(* branch_for_source).                                                     *)
(***************************************************************************)
THEOREM MatchExact ==
  ASSUME NEW c, Disassembly(c), NEW symbols, NEW n \in Nat, NEW x \in Executions(c, n),
         NEW bp \in BranchPoints(c, symbols), ~Indirect(bp)
  PROVE  /\ bp.addr \in Addrs(c) /\ bp.addr \in DOMAIN x.ran
         /\ BranchCounts(bp, x.edges) = [taken |-> x.went[<<bp.addr, 0>>],
                                         nottaken |-> x.went[<<bp.addr, 1>>]]
         /\ \A o \in {0, 1} : /\ x.went[<<bp.addr, o>>] \in Nat
                              /\ x.went[<<bp.addr, o>>] > 0 => x.ran[bp.addr] > 0
<1>1. GuestInv(c, x)
  BY ExecutionsRight
<1>2. PICK i \in DOMAIN c : PointOf(c, i, bp)
  BY PointIs
<1>3. /\ bp.addr \in Addrs(c) /\ bp.addr = c[i].addr /\ c[i].kind = "cond"
      /\ bp.taken = Way(c, i, 0) /\ bp.fallthrough = Way(c, i, 1)
      /\ bp.block_end = Leaving(c, i)
  BY <1>2, DirectIs DEF PointOf
<1>4. bp.taken # bp.fallthrough
  BY <1>3, WaysApart
<1>5. /\ x.ran \in [Addrs(c) -> Nat] /\ x.went \in [Addrs(c) \X {0, 1} -> Nat]
      /\ RanFirst(c, x) /\ AsOften(c, x)
      /\ \A e \in DOMAIN x.edges : e = <<e[1], e[2]>> /\ e[1] \in Addrs(c)
  BY <1>1, Zenon DEF GuestInv, GuestType, Traced
<1>6. \A a \in Addrs(c) : ResolvedBy(bp, a) <=> a \in {c[i].addr, Leaving(c, i)}
  <2> SUFFICES ASSUME NEW m \in DOMAIN c
               PROVE  ResolvedBy(bp, c[m].addr) <=> c[m].addr \in {c[i].addr, Leaving(c, i)}
    BY InListing
  <2>1. /\ c[i].addr \in Nat /\ c[m].addr \in Nat /\ i \in Nat /\ m \in Nat
        /\ c[i].addr < Behind(c, i) /\ Behind(c, i) \in Nat
    BY ListingIs
  <2>2. m < i => c[m].addr < c[i].addr
    BY AddressesApart
  <2>3. i < m => Behind(c, i) <= c[m].addr
    BY ListingIs
  <2>4. m = i \/ m < i \/ i < m
    BY <2>1
  <2>5. CASE c[i].delay
    <3>1. i + 1 \in DOMAIN c /\ c[i + 1].addr = Behind(c, i)
      BY <2>5, ListingIs
    <3>2. Leaving(c, i) = Behind(c, i)
      BY <2>5, <3>1 DEF Leaving
    <3> QED BY <1>3, <2>1, <2>2, <2>3, <2>4, <3>2 DEF ResolvedBy
  <2>6. CASE ~c[i].delay
    <3>1. Leaving(c, i) = c[i].addr
      BY <2>6 DEF Leaving
    <3> QED BY <1>3, <2>1, <2>2, <2>3, <2>4, <3>1 DEF ResolvedBy
  <2> QED BY <2>5, <2>6
<1>7. ASSUME NEW o \in {0, 1}
      PROVE  SeenGoing(bp, x.edges, Way(c, i, o)) = x.went[<<bp.addr, o>>]
  <2>1. PICK S : S = {e \in DOMAIN x.edges : ResolvedBy(bp, e[1]) /\ e[2] = Way(c, i, o)}
    OBVIOUS
  <2>2. SeenGoing(bp, x.edges, Way(c, i, o)) = SumOver(x.edges, S)
    BY <2>1 DEF SeenGoing, SumOver
  <2>3. \A e \in DOMAIN x.edges :
          e \in Resolving(c, i, o)
            <=> e[1] \in {c[i].addr, Leaving(c, i)} /\ e[2] = Way(c, i, o)
    <3> TAKE e \in DOMAIN x.edges
    <3>1. PICK s, d : e = <<s, d>> /\ e[1] = s /\ e[2] = d
      BY <1>5
    <3> QED BY <3>1 DEF Resolving
  <2>4. S = DOMAIN x.edges \intersect Resolving(c, i, o)
    BY <1>5, <1>6, <2>1, <2>3
  <2> QED BY <1>3, <1>5, <2>2, <2>4 DEF AsOften, Among
<1>8. \A o \in {0, 1} : /\ x.went[<<bp.addr, o>>] \in Nat
                        /\ x.went[<<bp.addr, o>>] > 0 => x.ran[bp.addr] > 0
  BY <1>3, <1>5 DEF RanFirst
<1>9. BranchCounts(bp, x.edges) = [taken |-> x.went[<<bp.addr, 0>>],
                                   nottaken |-> x.went[<<bp.addr, 1>>]]
  BY <1>3, <1>4, <1>7 DEF BranchCounts
<1> QED BY <1>3, <1>5, <1>8, <1>9

-----------------------------------------------------------------------------
(* A test's records.                                                       *)
RunRight == \A t \in Tests : run[t] \in Runs[t]

LEMMA ListedFinite ==
  ASSUME NEW s, s \in Seq(ToSet(s))
  PROVE  IsFiniteSet(ToSet(s))
<1>1. IsFiniteSet(DOMAIN s)
  BY FS_Interval
<1> QED
  BY <1>1, ImageFinite DEF ToSet

LEMMA FramesFinite ==
  ASSUME NEW e \in Elfs, NEW a \in Addrs(Code[e])
  PROVE  /\ IsFiniteSet(FramesAt(e, a))
         /\ \A f \in FramesAt(e, a) :
              {"function", "file", "line"} \subseteq DOMAIN f /\ f.line \in Nat
  BY CoverageAssumption, ListedFinite DEF FramesAt

LEMMA CoveredIs ==
  ASSUME RunRight, NEW t \in Tests
  PROVE  /\ ElfOf[t] \in Elfs
         /\ IsFiniteSet(Covered(t)) /\ Covered(t) \subseteq Addrs(Code[ElfOf[t]])
         /\ \A a \in Covered(t) : run[t].ran[a] \in Nat \ {0}
<1> DEFINE e == ElfOf[t]
           code == Code[e]
<1>1. /\ e \in Elfs /\ code \in Seq(ToSet(code))
      /\ DOMAIN run[t].ran \subseteq Addrs(code)
      /\ \A a \in DOMAIN run[t].ran : run[t].ran[a] \in Nat
  BY CoverageAssumption DEF RunRight
<1>2. IsFiniteSet(Addrs(code))
  <2>1. IsFiniteSet(DOMAIN code)
    BY <1>1, FS_Interval
  <2> DEFINE addr == [i \in DOMAIN code |-> code[i].addr]
  <2>2. IsFiniteSet({addr[i] : i \in DOMAIN code})
    <3> HIDE DEF addr, code
    <3> QED
      BY <2>1, ImageFinite
  <2>3. Addrs(code) = {addr[i] : i \in DOMAIN code}
    BY DEF Addrs
  <2> QED
    BY <2>2, <2>3
<1>3. Covered(t) \in SUBSET Addrs(code)
  BY <1>1 DEF Covered
<1>4. IsFiniteSet(Covered(t))
  BY <1>2, <1>3, FS_Subset
<1> QED
  BY <1>1, <1>3, <1>4 DEF Covered

(* The frames of what a test executed.                                     *)
FramesRun(t) == UNION {FramesAt(ElfOf[t], a) : a \in Covered(t)}

LEMMA FramesRunIs ==
  ASSUME RunRight, NEW t \in Tests
  PROVE  /\ IsFiniteSet(FramesRun(t))
         /\ \A f \in FramesRun(t) :
              {"function", "file", "line"} \subseteq DOMAIN f /\ f.line \in Nat
         /\ \A f : f \in FramesRun(t)
                     <=> \E a \in Covered(t) : f \in FramesAt(ElfOf[t], a)
<1> DEFINE at == [a \in Covered(t) |-> FramesAt(ElfOf[t], a)]
           sets == {at[a] : a \in Covered(t)}
<1>1. /\ IsFiniteSet(Covered(t))
      /\ \A a \in Covered(t) : IsFiniteSet(at[a])
      /\ \A a \in Covered(t) : \A f \in at[a] :
           {"function", "file", "line"} \subseteq DOMAIN f /\ f.line \in Nat
  BY CoveredIs, FramesFinite
<1>2. FramesRun(t) = UNION sets
  BY DEF FramesRun
<1> HIDE DEF at
<1>3. IsFiniteSet(sets)
  BY <1>1, ImageFinite
<1>4. IsFiniteSet(FramesRun(t))
  BY <1>1, <1>2, <1>3, FS_UNION
<1> QED
  BY <1>1, <1>2, <1>4 DEF at

(* The count of a frame is the largest of its instructions' counts.        *)
LEMMA CountOfIs ==
  ASSUME RunRight, NEW t \in Tests, NEW f \in FramesRun(t)
  PROVE  /\ \E a \in Covered(t) : /\ f \in FramesAt(ElfOf[t], a)
                                  /\ CountOf(t, f) = run[t].ran[a]
         /\ \A a \in Covered(t) : f \in FramesAt(ElfOf[t], a)
                                    => run[t].ran[a] <= CountOf(t, f)
         /\ CountOf(t, f) \in Nat \ {0}
<1> DEFINE ran == run[t].ran
           insns == {a \in Covered(t) : f \in FramesAt(ElfOf[t], a)}
           counts == {ran[a] : a \in insns}
<1>1. IsFiniteSet(insns) /\ insns # {}
  <2>1. insns \in SUBSET Covered(t)
    OBVIOUS
  <2>2. insns # {}
    BY FramesRunIs
  <2> QED
    BY <2>1, <2>2, CoveredIs, FS_Subset
<1>2. \A a \in insns : ran[a] \in Nat \ {0}
  BY CoveredIs
<1>3. CountOf(t, f) = Max(counts)
  BY DEF CountOf
<1>4. /\ counts \in SUBSET Nat /\ counts # {} /\ IsFiniteSet(counts)
  <2> HIDE DEF insns, ran
  <2> QED
    BY <1>1, <1>2, ImageFinite
<1>5. Max(counts) \in counts /\ \A y \in counts : y <= Max(counts)
  <2> HIDE DEF counts
  <2> QED
    BY <1>4, MaxIs
<1> QED
  BY <1>2, <1>3, <1>5

(* How often a line is said to be executed is how often it was.            *)
LEMMA InsnsOfIs ==
  ASSUME NEW t, NEW x
  PROVE  \A a : a \in InsnsOf(t, x)
                 <=> a \in Covered(t) /\ \E f \in FramesAt(ElfOf[t], a) : Where(f) = x
  BY DEF InsnsOf

CountAt(t, x) == Max({r.count : r \in {s \in symbolize(t) : Where(s.frame) = x}})

LEMMA CountAtIs ==
  ASSUME RunRight, NEW t \in Tests, NEW x \in LinesRun(t)
  PROVE  CountAt(t, x) = TimesRun(t, x) /\ CountAt(t, x) \in Nat \ {0}
<1> DEFINE here   == {f \in FramesRun(t) : Where(f) = x}
           of     == [f \in here |-> CountOf(t, f)]
           counts == {of[f] : f \in here}
           ran    == run[t].ran
           insns  == InsnsOf(t, x)
           times  == {ran[a] : a \in insns}
<1>1. IsFiniteSet(here) /\ here # {}
  <2>1. here \in SUBSET FramesRun(t)
    OBVIOUS
  <2>2. here # {}
    BY DEF LinesRun, FramesRun
  <2> QED
    BY <2>1, <2>2, FramesRunIs, FS_Subset
<1>2. \A f \in here : of[f] \in Nat \ {0}
  BY CountOfIs
<1>3. counts \in SUBSET Nat /\ counts # {} /\ IsFiniteSet(counts)
  <2> HIDE DEF here, of
  <2> QED
    BY <1>1, <1>2, ImageFinite
<1>4. PICK m : m = Max(counts)
  OBVIOUS
<1>5. m \in counts /\ \A y \in counts : y <= m
  <2> HIDE DEF counts
  <2> QED
    BY <1>3, <1>4, MaxIs
<1>6. PICK f \in here : m = CountOf(t, f)
  BY <1>5
<1>7. PICK b \in insns : m = ran[b]
  <2>1. PICK a \in Covered(t) : f \in FramesAt(ElfOf[t], a) /\ m = ran[a]
    BY <1>6, CountOfIs
  <2>2. a \in insns
    BY <1>6, <2>1, InsnsOfIs
  <2> QED
    BY <2>1, <2>2
<1>8. \A a \in insns : ran[a] \in Nat /\ ran[a] <= m
  <2> TAKE a \in insns
  <2>1. PICK g \in FramesAt(ElfOf[t], a) : Where(g) = x /\ a \in Covered(t)
    BY InsnsOfIs
  <2>2. g \in here
    BY <2>1, FramesRunIs
  <2>3. ran[a] \in Nat /\ ran[a] <= CountOf(t, g) /\ CountOf(t, g) \in Nat
    BY <2>1, <2>2, CoveredIs, CountOfIs
  <2>4. CountOf(t, g) <= m /\ m \in Nat
    BY <1>3, <1>5, <2>2
  <2> QED
    BY <2>3, <2>4
<1>9. times \in SUBSET Nat /\ m \in times /\ \A y \in times : y <= m
  BY <1>7, <1>8
<1>10. Max(times) = m
  <2> HIDE DEF times
  <2> QED
    BY <1>9, MaxOnly
<1>11. TimesRun(t, x) = m
  BY <1>7, <1>10 DEF TimesRun
<1>12. CountAt(t, x) = m
  <2> DEFINE record(g) == [frame |-> g, count |-> CountOf(t, g)]
  <2>a. symbolize(t) = {record(g) : g \in FramesRun(t)}
    BY DEF symbolize, FramesRun
  <2>b. \A g : record(g).frame = g /\ record(g).count = CountOf(t, g)
    OBVIOUS
  <2>c. \A g \in here : record(g) \in {s \in symbolize(t) : Where(s.frame) = x}
    BY <2>a, <2>b
  <2>d. \A s \in symbolize(t) : Where(s.frame) = x => \E g \in here : s.count = of[g]
    BY <2>a, <2>b
  <2>e. \A g \in here : of[g] = record(g).count
    BY <2>b
  <2> HIDE DEF record, here, of
  <2>1. \A c : c \in counts
                <=> c \in {r.count : r \in {s \in symbolize(t) : Where(s.frame) = x}}
    BY <2>c, <2>d, <2>e
  <2> HIDE DEF counts
  <2>2. counts = {r.count : r \in {s \in symbolize(t) : Where(s.frame) = x}}
    BY <2>1
  <2> QED
    BY <1>4, <2>2 DEF CountAt
<1> QED
  BY <1>2, <1>6, <1>11, <1>12

-----------------------------------------------------------------------------
(* What load_branches makes of records: V[r] is what the record r says.    *)
Joined(f, g) == Combine(AddTaken, f, g)
KeysOf(V, s) == UNION {DOMAIN V[r] : r \in s}
Seen(V, S, k) ==
  [r \in S |-> IF k \in DOMAIN V[r] /\ V[r][k] # Dash THEN V[r][k] ELSE 0]
Unseen(V, s, k) == \A r \in s : k \in DOMAIN V[r] => V[r][k] = Dash
Closed(V, S, s) ==
  [k \in KeysOf(V, s) |-> IF Unseen(V, s, k) THEN Dash ELSE SumOver(Seen(V, S, k), s)]
Says(V, S) ==
  IsFiniteSet(S) /\ \A r \in S : \A k \in DOMAIN V[r] : V[r][k] \in Nat \union {Dash}

LEMMA DashIs == Dash \notin Nat
  BY ExecutionAssumption

LEMMA JoinedIs ==
  ASSUME NEW f, NEW g, NEW k
  PROVE  /\ k \in DOMAIN f /\ k \notin DOMAIN g => Joined(f, g)[k] = f[k]
         /\ k \in DOMAIN g /\ k \notin DOMAIN f => Joined(f, g)[k] = g[k]
         /\ k \in DOMAIN f /\ k \in DOMAIN g =>
              Joined(f, g)[k] = IF f[k] = Dash THEN g[k]
                                ELSE IF g[k] = Dash THEN f[k] ELSE f[k] + g[k]
BY DEF Joined, Combine, AddTaken

LEMMA JoinedFunction ==
  ASSUME NEW f, NEW g, NEW D, D = DOMAIN f \union DOMAIN g
  PROVE  Joined(f, g) = [k \in D |-> Joined(f, g)[k]]
BY DEF Joined, Combine

LEMMA SeenIs ==
  ASSUME NEW V, NEW S, Says(V, S), NEW s \in SUBSET S, NEW k
  PROVE  Weighs(Seen(V, S, k), s) /\ SumOver(Seen(V, S, k), s) \in Nat
<1>1. IsFiniteSet(s)
  BY FS_Subset DEF Says
<1>2. \A r \in s : Seen(V, S, k)[r] \in Nat
  BY DEF Says, Seen
<1>3. Weighs(Seen(V, S, k), s)
  BY <1>1, <1>2 DEF Weighs
<1> QED BY <1>3, SumType

LEMMA JoinedSum ==
  ASSUME NEW f, NEW g, NEW k \in DOMAIN f \union DOMAIN g, NEW V, NEW s, NEW rest,
         NEW m \in Nat, m = IF k \in DOMAIN f /\ f[k] # Dash THEN f[k] ELSE 0,
         k \in DOMAIN f => f[k] \in Nat \union {Dash},
         NEW n \in Nat, Unseen(V, rest, k) => n = 0,
         k \in DOMAIN g => g[k] = IF Unseen(V, rest, k) THEN Dash ELSE n,
         k \notin DOMAIN g => Unseen(V, rest, k),
         Unseen(V, s, k) <=> Unseen(V, rest, k) /\ (k \in DOMAIN f => f[k] = Dash)
  PROVE  Joined(f, g)[k] = IF Unseen(V, s, k) THEN Dash ELSE m + n
<1>1. PICK x, y, z : x = f[k] /\ y = g[k] /\ z = Joined(f, g)[k]
  OBVIOUS
<1>2. CASE k \in DOMAIN f /\ k \notin DOMAIN g
  <2>1. z = x
    BY <1>1, <1>2, JoinedIs
  <2> QED BY <1>1, <1>2, <2>1, DashIs
<1>3. CASE k \notin DOMAIN f /\ k \in DOMAIN g
  <2>1. z = y
    BY <1>1, <1>3, JoinedIs
  <2> QED BY <1>1, <1>3, <2>1, DashIs
<1>4. CASE k \in DOMAIN f /\ k \in DOMAIN g
  <2>1. z = IF x = Dash THEN y ELSE IF y = Dash THEN x ELSE x + y
    BY <1>1, <1>4, JoinedIs
  <2> QED BY <1>1, <1>4, <2>1, DashIs
<1> QED BY <1>2, <1>3, <1>4

LEMMA ClosedStep ==
  ASSUME NEW V, NEW S, Says(V, S), NEW s \in SUBSET S, NEW p \in s
  PROVE  Closed(V, S, s) = Joined(V[p], Closed(V, S, s \ {p}))
<1> DEFINE rest == s \ {p}
           f == V[p]
           g == Closed(V, S, rest)
           h == Joined(f, g)
           w(k) == Seen(V, S, k)
<1>1. /\ rest \in SUBSET S /\ p \in S
      /\ DOMAIN g = KeysOf(V, rest) /\ KeysOf(V, s) = DOMAIN f \union KeysOf(V, rest)
  BY DEF Closed, KeysOf
<1>2. \A k \in DOMAIN g : g[k] = IF Unseen(V, rest, k) THEN Dash ELSE SumOver(w(k), rest)
  BY DEF Closed
<1> HIDE DEF g
<1>3. ASSUME NEW k \in KeysOf(V, s)
      PROVE  h[k] = IF Unseen(V, s, k) THEN Dash ELSE SumOver(w(k), s)
  <2>1. /\ SumOver(w(k), s) = w(k)[p] + SumOver(w(k), rest)
        /\ w(k)[p] \in Nat /\ SumOver(w(k), rest) \in Nat
    <3>1. Weighs(w(k), s) /\ SumOver(w(k), rest) \in Nat
      BY <1>1, SeenIs
    <3>2. w(k)[p] \in Nat
      BY <3>1 DEF Weighs
    <3> HIDE DEF w
    <3> QED BY <3>1, <3>2, SumTake
  <2>2. w(k)[p] = IF k \in DOMAIN f /\ f[k] # Dash THEN f[k] ELSE 0
    BY <1>1 DEF Seen
  <2>3. Unseen(V, s, k) <=> Unseen(V, rest, k) /\ (k \in DOMAIN f => f[k] = Dash)
    BY DEF Unseen
  <2>4. Unseen(V, rest, k) => SumOver(w(k), rest) = 0
    <3> SUFFICES ASSUME Unseen(V, rest, k) PROVE SumOver(w(k), rest) = 0
      OBVIOUS
    <3>1. \A r \in rest : w(k)[r] = 0
      BY <1>1 DEF Unseen, Seen
    <3>2. IsFiniteSet(rest)
      BY <1>1, FS_Subset DEF Says
    <3> HIDE DEF w, rest
    <3> QED BY <3>1, <3>2, SumZero
  <2>5. k \notin KeysOf(V, rest) => Unseen(V, rest, k)
    BY DEF Unseen, KeysOf
  <2>6. PICK m, n : m = w(k)[p] /\ n = SumOver(w(k), rest) /\ m \in Nat /\ n \in Nat
    BY <2>1
  <2>7. PICK total : total = SumOver(w(k), s)
    OBVIOUS
  <2>8. k \in DOMAIN f \union DOMAIN g
    BY <1>1
  <2>9. total = m + n
    BY <2>1, <2>6, <2>7
  <2>10. k \in DOMAIN f => f[k] \in Nat \union {Dash}
    BY <1>1 DEF Says
  <2>11. k \in DOMAIN g => g[k] = IF Unseen(V, rest, k) THEN Dash ELSE n
    BY <1>2, <2>6
  <2>12. m = IF k \in DOMAIN f /\ f[k] # Dash THEN f[k] ELSE 0
    BY <2>2, <2>6
  <2>13. Unseen(V, rest, k) => n = 0
    BY <2>4, <2>6
  <2>14. k \notin DOMAIN g => Unseen(V, rest, k)
    BY <1>1, <2>5
  <2> HIDE DEF f, rest, w, h
  <2>15. Joined(f, g)[k] = IF Unseen(V, s, k) THEN Dash ELSE m + n
    BY <2>3, <2>6, <2>8, <2>10, <2>11, <2>12, <2>13, <2>14, JoinedSum
  <2> QED BY <2>7, <2>9, <2>15 DEF h
<1>4. Closed(V, S, s) = [k \in KeysOf(V, s) |-> h[k]]
  BY <1>3 DEF Closed
<1>5. h = [k \in KeysOf(V, s) |-> h[k]]
  <2>1. PICK D : D = KeysOf(V, s)
    OBVIOUS
  <2>2. D = DOMAIN f \union DOMAIN g
    BY <1>1, <2>1
  <2> HIDE DEF f
  <2>3. Joined(f, g) = [k \in D |-> Joined(f, g)[k]]
    BY <2>2, JoinedFunction
  <2> QED BY <2>1, <2>3
<1> QED BY <1>4, <1>5 DEF g

FoldSolves(V, S, g) ==
  g = [s \in SUBSET S |-> IF s = {} THEN <<>> ELSE Joined(V[Pick(s)], g[s \ {Pick(s)}])]

LEMMA ClosedEmpty ==
  ASSUME NEW V, NEW S
  PROVE  Closed(V, S, {}) = <<>>
<1>1. KeysOf(V, {}) = {}
  BY DEF KeysOf
<1>2. Closed(V, S, {}) = [k \in {} |-> IF Unseen(V, {}, k) THEN Dash ELSE SumOver(Seen(V, S, k), {})]
  BY <1>1 DEF Closed
<1>3. DOMAIN Closed(V, S, {}) = {}
  BY <1>2
<1>4. <<>> = [k \in {} |-> IF Unseen(V, {}, k) THEN Dash ELSE SumOver(Seen(V, S, k), {})]
  OBVIOUS
<1> QED BY <1>2, <1>4

LEMMA ClosedSolves ==
  ASSUME NEW V, NEW S, Says(V, S)
  PROVE  FoldSolves(V, S, [s \in SUBSET S |-> Closed(V, S, s)])
<1> DEFINE g == [s \in SUBSET S |-> Closed(V, S, s)]
           h == [s \in SUBSET S |-> IF s = {} THEN <<>>
                                    ELSE Joined(V[Pick(s)], g[s \ {Pick(s)}])]
<1>1. ASSUME NEW s \in SUBSET S
      PROVE  g[s] = h[s]
  <2>1. CASE s = {}
    BY <2>1, ClosedEmpty
  <2>2. CASE s # {}
    <3>1. Pick(s) \in s
      BY <2>2 DEF Pick
    <3>2. Closed(V, S, s) = Joined(V[Pick(s)], Closed(V, S, s \ {Pick(s)}))
      BY <3>1, ClosedStep
    <3>3. g[s \ {Pick(s)}] = Closed(V, S, s \ {Pick(s)})
      OBVIOUS
    <3> QED BY <2>2, <3>2, <3>3
  <2> QED BY <2>1, <2>2
<1>2. g = h
  BY <1>1
<1> QED BY <1>2 DEF FoldSolves

LEMMA FoldIsClosed ==
  ASSUME NEW V, NEW S, Says(V, S), NEW g, FoldSolves(V, S, g)
  PROVE  g[S] = Closed(V, S, S)
<1> DEFINE F == {s \in SUBSET S : g[s] # Closed(V, S, s)}
<1> SUFFICES ASSUME F # {} PROVE FALSE
  OBVIOUS
<1>0. IsFiniteSet(S) /\ F \in SUBSET SUBSET S
  BY DEF Says
<1>1. PICK U \in F : \A W \in F : W \subseteq U => W = U
  <2> HIDE DEF F
  <2> QED BY <1>0, SmallestSubset
<1>2. g[U] = IF U = {} THEN <<>> ELSE Joined(V[Pick(U)], g[U \ {Pick(U)}])
  BY DEF FoldSolves
<1>3. CASE U = {}
  BY <1>2, <1>3, ClosedEmpty
<1>4. CASE U # {}
  <2>1. Pick(U) \in U
    BY <1>4 DEF Pick
  <2>2. g[U \ {Pick(U)}] = Closed(V, S, U \ {Pick(U)})
    BY <1>1, <2>1
  <2>3. Closed(V, S, U) = Joined(V[Pick(U)], Closed(V, S, U \ {Pick(U)}))
    BY <2>1, ClosedStep
  <2> QED BY <1>2, <1>4, <2>2, <2>3
<1> QED BY <1>3, <1>4

Said(r) ==
  [k \in {Append(r.branch, 0), Append(r.branch, 1)} |->
     IF r.taken + r.nottaken = 0 THEN Dash ELSE IF k[4] = 0 THEN r.taken ELSE r.nottaken]

LEMMA LoadIs ==
  ASSUME NEW S, NEW V, V = [r \in S |-> Said(r)], Says(V, S)
  PROVE  load_branches(S) = Closed(V, S, S)
<1> DEFINE Table(h) ==
             [s \in SUBSET S |->
                IF s = {} THEN <<>>
                ELSE LET r == CHOOSE q \in s : TRUE
                     IN  Combine(AddTaken,
                                 [k \in {Append(r.branch, 0), Append(r.branch, 1)} |->
                                    IF r.taken + r.nottaken = 0 THEN Dash
                                    ELSE IF k[4] = 0 THEN r.taken ELSE r.nottaken],
                                 h[s \ {r}])]
           g == CHOOSE h : h = Table(h)
<1>1. ASSUME NEW h
      PROVE  h = Table(h) <=> FoldSolves(V, S, h)
  <2>1. \A s \in SUBSET S : s # {} => V[Pick(s)] = Said(Pick(s))
    <3> TAKE s \in SUBSET S
    <3>1. s # {} => Pick(s) \in S
      BY DEF Pick
    <3> QED BY <3>1
  <2>2. Table(h) = [s \in SUBSET S |-> IF s = {} THEN <<>>
                                       ELSE Joined(V[Pick(s)], h[s \ {Pick(s)}])]
    <3>1. Table(h) = [s \in SUBSET S |-> IF s = {} THEN <<>>
                                         ELSE Joined(Said(Pick(s)), h[s \ {Pick(s)}])]
      BY Zenon DEF Joined, Said, Pick
    <3> HIDE DEF Table
    <3> QED BY <2>1, <3>1
  <2> QED BY <2>2 DEF FoldSolves
<1>2. load_branches(S) = g[S]
  BY DEF load_branches, FoldSet, MapThenFoldSet
<1> HIDE DEF Table
<1>3. \E h : h = Table(h)
  BY <1>1, ClosedSolves
<1>4. FoldSolves(V, S, g)
  BY <1>1, <1>3
<1> HIDE DEF g
<1> QED BY <1>2, <1>4, FoldIsClosed

-----------------------------------------------------------------------------
(* The branches a program reports.                                         *)
LEMMA ProgramIs ==
  ASSUME NEW e \in Elfs
  PROVE  Disassembly(Code[e])
BY CoverageAssumption, ExecutionAssumption DEF Disassembly

LEMMA ReportedIs ==
  ASSUME NEW e \in Elfs, NEW bp \in Reported[e]
  PROVE  /\ bp \in BranchPoints(Code[e], Symbols[e]) /\ ~Indirect(bp)
         /\ bp.addr \in Addrs(Code[e]) /\ Located(e, bp.addr)
BY DEF Reported, Points, Located

LEMMA ReportedFinite ==
  ASSUME NEW e \in Elfs
  PROVE  IsFiniteSet(Reported[e])
<1> DEFINE R == Reported[e]
           at == [i \in DOMAIN Code[e] |-> Code[e][i].addr]
           A == {at[i] : i \in DOMAIN Code[e]}
           of == [a \in A |-> CHOOSE bp \in R : bp.addr = a]
           T == {of[a] : a \in A}
<1>1. IsFiniteSet(DOMAIN Code[e])
  <2>1. DOMAIN Code[e] = 1 .. Len(Code[e]) /\ Len(Code[e]) \in Nat
    BY ProgramIs, ListingIs
  <2> QED BY <2>1, FS_Interval
<1>2. IsFiniteSet(A)
  <2> HIDE DEF at
  <2> QED BY <1>1, ImageFinite
<1>3. IsFiniteSet(T)
  <2> HIDE DEF A, of
  <2> QED BY <1>2, ImageFinite
<1>4. A = Addrs(Code[e])
  BY DEF Addrs
<1>5. \A bp \in R : bp \in T
  <2> TAKE bp \in R
  <2>1. bp.addr \in A
    BY <1>4, ReportedIs
  <2>2. of[bp.addr] \in R /\ of[bp.addr].addr = bp.addr
    <3>1. of[bp.addr] = CHOOSE q \in R : q.addr = bp.addr
      BY <2>1
    <3>2. \E q \in R : q.addr = bp.addr
      OBVIOUS
    <3> HIDE DEF of, R
    <3> QED BY <3>1, <3>2, Zenon
  <2>3. of[bp.addr] = bp
    <3>1. PICK q : q = of[bp.addr]
      OBVIOUS
    <3>2. q \in BranchPoints(Code[e], Symbols[e]) /\ bp \in BranchPoints(Code[e], Symbols[e])
      BY <2>2, <3>1, ReportedIs
    <3>3. q.addr = bp.addr
      BY <2>2, <3>1
    <3>4. q = bp
      BY <3>2, <3>3, ProgramIs, PointsApart
    <3> QED BY <3>1, <3>4
  <2> HIDE DEF of, A
  <2> QED BY <2>1, <2>3
<1>6. R \in SUBSET T
  <2> HIDE DEF T, R
  <2> QED BY <1>5
<1> QED BY <1>3, <1>6, FS_Subset

(* What the guest did at a branch, and what is recorded of it.             *)
WentWays(t, bp, o) == run[t].went[<<bp.addr, o>>]

LEMMA WentIs ==
  ASSUME RunRight, NEW t \in Tests, NEW bp \in Reported[ElfOf[t]]
  PROVE  /\ ElfOf[t] \in Elfs
         /\ BranchCounts(bp, run[t].edges) = [taken |-> WentWays(t, bp, 0),
                                              nottaken |-> WentWays(t, bp, 1)]
         /\ WentWays(t, bp, 0) \in Nat /\ WentWays(t, bp, 1) \in Nat
         /\ \A o \in {0, 1} : WentWays(t, bp, o) > 0 => bp.addr \in Covered(t)
<1>1. PICK e, x, n : e = ElfOf[t] /\ x = run[t] /\ n = MaxInsns[t]
  OBVIOUS
<1>2. /\ e \in Elfs /\ x \in Executions(Code[e], n) /\ n \in Nat
  BY <1>1, CoverageAssumption, ExecutionAssumption DEF RunRight
<1>3. bp \in BranchPoints(Code[e], Symbols[e]) /\ ~Indirect(bp)
  BY <1>1, <1>2, ReportedIs
<1>4. /\ bp.addr \in DOMAIN x.ran
      /\ BranchCounts(bp, x.edges) = [taken |-> x.went[<<bp.addr, 0>>],
                                      nottaken |-> x.went[<<bp.addr, 1>>]]
      /\ \A o \in {0, 1} : /\ x.went[<<bp.addr, o>>] \in Nat
                           /\ x.went[<<bp.addr, o>>] > 0 => x.ran[bp.addr] > 0
  BY <1>2, <1>3, ProgramIs, MatchExact
<1> QED BY <1>1, <1>2, <1>4 DEF WentWays, Covered

Named(k)    == <<k[1], k[2], k[3]>>
Opposite(k) == <<k[1], k[2], k[3], 1 - k[4]>>

LEMMA KeyIs ==
  ASSUME NEW e, NEW bp, NEW o
  PROVE  /\ Named(KeyOf(e, bp, o)) = BranchOf(e, bp)
         /\ KeyOf(e, bp, o)[4] = o
         /\ KeyOf(e, bp, o) = Append(BranchOf(e, bp), o)
BY DEF KeyOf, BranchOf, Named

LEMMA KeysAre ==
  ASSUME NEW k
  PROVE  k \in Keys <=> \E e \in Elfs : \E bp \in Reported[e] : \E o \in {0, 1} :
                          k = KeyOf(e, bp, o)
BY DEF Keys

LEMMA KeyParts ==
  ASSUME NEW k \in Keys
  PROVE  /\ k[4] \in {0, 1}
         /\ \A e, bp : k = KeyOf(e, bp, k[4]) <=> Named(k) = BranchOf(e, bp)
         /\ \A e, bp : k \in {KeyOf(e, bp, 0), KeyOf(e, bp, 1)}
                         <=> Named(k) = BranchOf(e, bp)
<1>1. PICK d, p, o : o \in {0, 1} /\ k = KeyOf(d, p, o)
  BY KeysAre
<1>2. k[4] = o /\ Named(k) = BranchOf(d, p) /\ k = Append(BranchOf(d, p), o)
  BY <1>1, KeyIs
<1>3. ASSUME NEW e, NEW bp
      PROVE  /\ k = KeyOf(e, bp, k[4]) <=> Named(k) = BranchOf(e, bp)
             /\ k \in {KeyOf(e, bp, 0), KeyOf(e, bp, 1)} <=> Named(k) = BranchOf(e, bp)
  <2>1. Named(k) = BranchOf(e, bp) => k = KeyOf(e, bp, k[4])
    BY <1>2, KeyIs
  <2>2. ASSUME NEW q, k = KeyOf(e, bp, q) PROVE Named(k) = BranchOf(e, bp)
    BY <2>2, KeyIs
  <2> QED BY <1>1, <1>2, <2>1, <2>2
<1>4. k[4] \in {0, 1}
  BY <1>1, <1>2
<1> QED BY <1>3, <1>4

LEMMA OppositeIs ==
  ASSUME NEW k \in Keys
  PROVE  /\ Opposite(k) \in Keys /\ Named(Opposite(k)) = Named(k)
         /\ Opposite(k)[4] = 1 - k[4]
<1>1. PICK e, bp, o : /\ e \in Elfs /\ bp \in Reported[e] /\ o \in {0, 1}
                        /\ k = KeyOf(e, bp, o)
  BY KeysAre
<1>2. Opposite(k) = KeyOf(e, bp, 1 - o)
  BY <1>1 DEF Opposite, KeyOf, BranchOf
<1>3. 1 - o \in {0, 1}
  BY <1>1
<1>4. Opposite(k) \in Keys
  BY <1>1, <1>2, <1>3, KeysAre
<1>5. Named(Opposite(k)) = Named(k) /\ Opposite(k)[4] = 1 - k[4]
  BY DEF Opposite, Named
<1> QED BY <1>4, <1>5

(* How often the guest went the way of a key, over every branch of that    *)
(* name, and whether it decided any of them.                               *)
At(k)         == <<k[1], k[2]>>
Alike(e, k)   == {bp \in Reported[e] : BranchOf(e, bp) = Named(k)}
GoingBy(t, k) == [bp \in Reported[ElfOf[t]] |-> WentWays(t, bp, k[4])]
Gone(t, k)    == SumOver(GoingBy(t, k), Alike(ElfOf[t], k))
Ruled(t, k)   == Gone(t, k) + Gone(t, Opposite(k)) > 0

GoneRight(t, k) ==
  /\ Weighs(GoingBy(t, k), Alike(ElfOf[t], k)) /\ Gone(t, k) \in Nat
  /\ Gone(t, k) > 0 <=> \E bp \in Alike(ElfOf[t], k) : WentWays(t, bp, k[4]) > 0

LEMMA GoneIs ==
  ASSUME RunRight, NEW t \in Tests, NEW k, k[4] \in {0, 1}
  PROVE  GoneRight(t, k)
<1>1. PICK e, A, R : e = ElfOf[t] /\ A = Alike(e, k) /\ R = Reported[e]
  OBVIOUS
<1>2. e \in Elfs
  BY <1>1, CoverageAssumption
<1>3. IsFiniteSet(A) /\ A \subseteq R
  <2>1. IsFiniteSet(R) /\ A \in SUBSET R
    BY <1>1, <1>2, ReportedFinite DEF Alike
  <2> QED BY <2>1, FS_Subset
<1>4. \A bp \in R : WentWays(t, bp, 0) \in Nat /\ WentWays(t, bp, 1) \in Nat
  BY <1>1, WentIs
<1>5. \A bp \in R : WentWays(t, bp, k[4]) \in Nat
  BY <1>4
<1>6. PICK w : w = GoingBy(t, k)
  OBVIOUS
<1>7. \A bp \in R : w[bp] = WentWays(t, bp, k[4])
  BY <1>1, <1>6 DEF GoingBy
<1>8. Weighs(w, A)
  BY <1>3, <1>5, <1>7 DEF Weighs
<1>9. /\ SumOver(w, A) \in Nat
      /\ SumOver(w, A) > 0 <=> \E bp \in A : w[bp] > 0
  BY <1>8, SumPositive
<1>10. Gone(t, k) = SumOver(w, A)
  BY <1>1, <1>6 DEF Gone
<1> QED BY <1>1, <1>3, <1>6, <1>7, <1>8, <1>9, <1>10 DEF GoneRight

Decides(t, bp) == WentWays(t, bp, 0) + WentWays(t, bp, 1) > 0

LEMMA RuledIs ==
  ASSUME RunRight, NEW t \in Tests, NEW k \in Keys
  PROVE  Ruled(t, k) <=> \E bp \in Alike(ElfOf[t], k) : Decides(t, bp)
<1>1. PICK A : A = Alike(ElfOf[t], k)
  OBVIOUS
<1>2. k[4] \in {0, 1} /\ Opposite(k)[4] = 1 - k[4] /\ A = Alike(ElfOf[t], Opposite(k))
  BY <1>1, KeyParts, OppositeIs DEF Alike
<1>3. Opposite(k)[4] \in {0, 1}
  BY <1>2
<1>4. /\ Gone(t, k) \in Nat
      /\ Gone(t, k) > 0 <=> \E bp \in A : WentWays(t, bp, k[4]) > 0
  <2>1. GoneRight(t, k)
    BY <1>2, GoneIs
  <2> QED BY <1>1, <2>1 DEF GoneRight
<1>5. /\ Gone(t, Opposite(k)) \in Nat
      /\ Gone(t, Opposite(k)) > 0 <=> \E bp \in A : WentWays(t, bp, 1 - k[4]) > 0
  <2>1. GoneRight(t, Opposite(k))
    BY <1>3, GoneIs
  <2> QED BY <1>2, <2>1 DEF GoneRight
<1>6. \A bp \in A : WentWays(t, bp, 0) \in Nat /\ WentWays(t, bp, 1) \in Nat
  BY <1>1, WentIs DEF Alike
<1>7. Ruled(t, k) <=> Gone(t, k) > 0 \/ Gone(t, Opposite(k)) > 0
  BY <1>4, <1>5 DEF Ruled
<1>8. \A bp \in A : Decides(t, bp) <=> WentWays(t, bp, k[4]) > 0 \/ WentWays(t, bp, 1 - k[4]) > 0
  <2> TAKE bp \in A
  <2>1. Decides(t, bp) <=> WentWays(t, bp, 0) > 0 \/ WentWays(t, bp, 1) > 0
    BY <1>6 DEF Decides
  <2>2. CASE k[4] = 0
    BY <2>1, <2>2
  <2>3. CASE k[4] = 1
    BY <2>1, <2>3
  <2> QED BY <1>2, <2>2, <2>3
<1> QED BY <1>1, <1>4, <1>5, <1>7, <1>8

(* A branch that a test decided is on a line the test ran.                 *)
LEMMA RuledCovered ==
  ASSUME RunRight, NEW t \in Tests, NEW k \in Keys, Ruled(t, k)
  PROVE  At(k) \in LinesRun(t) /\ Alike(ElfOf[t], k) # {}
<1>1. PICK bp \in Alike(ElfOf[t], k) : Decides(t, bp)
  BY RuledIs
<1>2. PICK e : e = ElfOf[t]
  OBVIOUS
<1>3. /\ bp \in Reported[e] /\ BranchOf(e, bp) = Named(k)
  BY <1>1, <1>2 DEF Alike
<1>4. e \in Elfs /\ bp.addr \in Covered(t)
  <2>1. /\ WentWays(t, bp, 0) \in Nat /\ WentWays(t, bp, 1) \in Nat /\ e \in Elfs
        /\ \A o \in {0, 1} : WentWays(t, bp, o) > 0 => bp.addr \in Covered(t)
    BY <1>2, <1>3, WentIs
  <2>2. WentWays(t, bp, 0) > 0 \/ WentWays(t, bp, 1) > 0
    BY <1>1, <2>1 DEF Decides
  <2> QED BY <2>1, <2>2
<1>5. PICK f : f = Frames[e][bp.addr][1]
  OBVIOUS
<1>6. f \in FramesAt(e, bp.addr)
  <2>1. Frames[e][bp.addr] \in Seq(FramesAt(e, bp.addr)) /\ Frames[e][bp.addr] # <<>>
    BY <1>3, <1>4, ReportedIs, CoverageAssumption DEF Located
  <2>2. PICK s, S : s = Frames[e][bp.addr] /\ S = FramesAt(e, bp.addr)
    OBVIOUS
  <2>3. s \in Seq(S) /\ s # <<>>
    BY <2>1, <2>2
  <2>4. s[1] \in S
    BY <2>3
  <2> QED BY <1>5, <2>2, <2>4
<1>7. Where(f) = At(k)
  BY <1>3, <1>5 DEF BranchOf, LineAt, Named, At, Where
<1> QED BY <1>1, <1>2, <1>4, <1>6, <1>7 DEF LinesRun

(* What load_branches makes of the records of a test.                      *)
Record(t, bp) ==
  [addr |-> bp.addr, branch |-> BranchOf(ElfOf[t], bp),
   taken |-> WentWays(t, bp, 0), nottaken |-> WentWays(t, bp, 1)]

LEMMA RecordIs ==
  ASSUME NEW t, NEW bp
  PROVE  /\ Record(t, bp).addr = bp.addr /\ Record(t, bp).branch = BranchOf(ElfOf[t], bp)
         /\ Record(t, bp).taken = WentWays(t, bp, 0)
         /\ Record(t, bp).nottaken = WentWays(t, bp, 1)
BY DEF Record

LEMMA RecordsAre ==
  ASSUME RunRight, NEW t \in Tests
  PROVE  branches(t) = {Record(t, bp) : bp \in Reported[ElfOf[t]]}
<1> DEFINE made(bp) ==
      [addr |-> bp.addr, branch |-> BranchOf(ElfOf[t], bp),
       taken |-> BranchCounts(bp, run[t].edges).taken,
       nottaken |-> BranchCounts(bp, run[t].edges).nottaken]
<1>1. branches(t) = {made(bp) : bp \in Reported[ElfOf[t]]}
  BY DEF branches
<1>2. \A bp \in Reported[ElfOf[t]] : made(bp) = Record(t, bp)
  <2> TAKE bp \in Reported[ElfOf[t]]
  <2>1. BranchCounts(bp, run[t].edges) = [taken |-> WentWays(t, bp, 0),
                                          nottaken |-> WentWays(t, bp, 1)]
    BY WentIs
  <2>2. /\ BranchCounts(bp, run[t].edges).taken = WentWays(t, bp, 0)
        /\ BranchCounts(bp, run[t].edges).nottaken = WentWays(t, bp, 1)
    BY <2>1
  <2> QED BY <2>2 DEF Record
<1> HIDE DEF made
<1> QED BY <1>1, <1>2

SaidRight(t, bp, k) ==
  /\ k \in DOMAIN Said(Record(t, bp)) <=> BranchOf(ElfOf[t], bp) = Named(k)
  /\ k \in DOMAIN Said(Record(t, bp)) =>
       Said(Record(t, bp))[k] = IF Decides(t, bp) THEN WentWays(t, bp, k[4]) ELSE Dash

LEMMA SaidKeys ==
  ASSUME RunRight, NEW t \in Tests, NEW bp \in Reported[ElfOf[t]]
  PROVE  /\ DOMAIN Said(Record(t, bp)) = {KeyOf(ElfOf[t], bp, 0), KeyOf(ElfOf[t], bp, 1)}
         /\ DOMAIN Said(Record(t, bp)) \subseteq Keys
<1>1. DOMAIN Said(Record(t, bp)) = {KeyOf(ElfOf[t], bp, 0), KeyOf(ElfOf[t], bp, 1)}
  BY RecordIs DEF Said, KeyOf
<1>2. ElfOf[t] \in Elfs
  BY CoverageAssumption
<1>3. \A o \in {0, 1} : KeyOf(ElfOf[t], bp, o) \in Keys
  BY <1>2, KeysAre
<1> QED BY <1>1, <1>3

LEMMA SaidIs ==
  ASSUME RunRight, NEW t \in Tests, NEW bp \in Reported[ElfOf[t]], NEW k \in Keys
  PROVE  SaidRight(t, bp, k)
<1>1. PICK r : r = Record(t, bp)
  OBVIOUS
<1>2. k \in DOMAIN Said(r) <=> BranchOf(ElfOf[t], bp) = Named(k)
  <2>1. k \in {KeyOf(ElfOf[t], bp, 0), KeyOf(ElfOf[t], bp, 1)}
          <=> Named(k) = BranchOf(ElfOf[t], bp)
    BY KeyParts
  <2> QED BY <1>1, <2>1, SaidKeys
<1>3. ASSUME k \in DOMAIN Said(r)
      PROVE  Said(r)[k] = IF Decides(t, bp) THEN WentWays(t, bp, k[4]) ELSE Dash
  <2>1. Said(r)[k] = IF r.taken + r.nottaken = 0 THEN Dash
                     ELSE IF k[4] = 0 THEN r.taken ELSE r.nottaken
    BY <1>3 DEF Said
  <2>2. r.taken = WentWays(t, bp, 0) /\ r.nottaken = WentWays(t, bp, 1)
    BY <1>1, RecordIs
  <2>3. k[4] \in {0, 1}
    BY KeyParts
  <2>4. WentWays(t, bp, 0) \in Nat /\ WentWays(t, bp, 1) \in Nat
    BY WentIs
  <2>5. r.taken + r.nottaken = 0 <=> ~Decides(t, bp)
    BY <2>2, <2>4 DEF Decides
  <2>6. WentWays(t, bp, k[4]) = IF k[4] = 0 THEN r.taken ELSE r.nottaken
    BY <2>2, <2>3
  <2> QED BY <2>1, <2>5, <2>6
<1> QED BY <1>1, <1>2, <1>3 DEF SaidRight

LEMMA LoadSays ==
  ASSUME RunRight, NEW t \in Tests, NEW S, S = branches(t),
         NEW V, V = [r \in S |-> Said(r)]
  PROVE  /\ Says(V, S) /\ KeysOf(V, S) \subseteq Keys
         /\ load_branches(S) = Closed(V, S, S)
<1>1. PICK R, of : /\ R = Reported[ElfOf[t]]
                   /\ of = [bp \in R |-> Record(t, bp)]
  OBVIOUS
<1>2. S = {of[bp] : bp \in R} /\ \A bp \in R : of[bp] = Record(t, bp)
  BY <1>1, RecordsAre
<1>3. IsFiniteSet(S)
  <2>1. IsFiniteSet(R)
    BY <1>1, ReportedFinite, CoverageAssumption
  <2>2. IsFiniteSet({of[bp] : bp \in R})
    BY <2>1, ImageFinite
  <2> QED BY <1>2, <2>2
<1>4. ASSUME NEW r \in S
      PROVE  /\ DOMAIN V[r] \subseteq Keys
             /\ \A k \in DOMAIN V[r] : V[r][k] \in Nat \union {Dash}
  <2>1. PICK bp \in R : r = Record(t, bp)
    BY <1>2
  <2>2. V[r] = Said(Record(t, bp))
    BY <2>1
  <2>3. DOMAIN V[r] \subseteq Keys
    BY <1>1, <2>2, SaidKeys
  <2>4. ASSUME NEW k \in DOMAIN V[r]
        PROVE  V[r][k] \in Nat \union {Dash}
    <3>1. k \in Keys /\ SaidRight(t, bp, k)
      BY <1>1, <2>3, SaidIs
    <3>2. V[r][k] = IF Decides(t, bp) THEN WentWays(t, bp, k[4]) ELSE Dash
      BY <2>2, <3>1 DEF SaidRight
    <3>3. WentWays(t, bp, 0) \in Nat /\ WentWays(t, bp, 1) \in Nat /\ k[4] \in {0, 1}
      BY <1>1, <3>1, WentIs, KeyParts
    <3>4. WentWays(t, bp, k[4]) \in Nat
      BY <3>3
    <3> QED BY <3>2, <3>4
  <2> QED BY <2>3, <2>4
<1>5. Says(V, S)
  BY <1>3, <1>4 DEF Says
<1>6. KeysOf(V, S) \subseteq Keys
  BY <1>4 DEF KeysOf
<1> QED BY <1>5, <1>6, LoadIs

(* Said of a test, an outcome is what the guest did of it.                 *)
LoadRight(t, br) ==
  /\ DOMAIN br \subseteq Keys
  /\ \A k \in Keys : k \in DOMAIN br <=> Alike(ElfOf[t], k) # {}
  /\ \A k \in DOMAIN br : br[k] = IF Ruled(t, k) THEN Gone(t, k) ELSE Dash

LEMMA LoadedRight ==
  ASSUME RunRight, NEW t \in Tests
  PROVE  LoadRight(t, load_branches(branches(t)))
<1>1. PICK S : S = branches(t)
  OBVIOUS
<1>2. PICK V : V = [r \in S |-> Said(r)]
  OBVIOUS
<1>3. PICK br : br = load_branches(S)
  OBVIOUS
<1>4. Says(V, S) /\ KeysOf(V, S) \subseteq Keys /\ br = Closed(V, S, S)
  BY <1>1, <1>2, <1>3, LoadSays
<1>5. PICK R, of : /\ R = Reported[ElfOf[t]]
                   /\ of = [bp \in R |-> Record(t, bp)]
  OBVIOUS
<1>6. S = {of[bp] : bp \in R} /\ \A bp \in R : of[bp] = Record(t, bp)
  BY <1>1, <1>5, RecordsAre
<1>7. of \in Bijection(R, S)
  <2>1. \A p, q \in R : of[p] = of[q] => p = q
    <3> SUFFICES ASSUME NEW p \in R, NEW q \in R, of[p] = of[q] PROVE p = q
      OBVIOUS
    <3>1. p.addr = q.addr
      BY <1>6, RecordIs
    <3>2. ElfOf[t] \in Elfs
      BY CoverageAssumption
    <3>3. /\ p \in BranchPoints(Code[ElfOf[t]], Symbols[ElfOf[t]])
          /\ q \in BranchPoints(Code[ElfOf[t]], Symbols[ElfOf[t]])
      BY <1>5, <3>2, ReportedIs
    <3> QED BY <3>1, <3>2, <3>3, ProgramIs, PointsApart
  <2>2. of \in [R -> S]
    BY <1>5, <1>6
  <2>3. \A r \in S : \E bp \in R : of[bp] = r
    BY <1>6
  <2> QED BY <2>1, <2>2, <2>3 DEF Bijection, Injection, Surjection, IsInjective
<1>8. ASSUME NEW k \in Keys
      PROVE  /\ k \in DOMAIN br <=> Alike(ElfOf[t], k) # {}
             /\ k \in DOMAIN br => br[k] = IF Ruled(t, k) THEN Gone(t, k) ELSE Dash
  <2>1. PICK A : A = Alike(ElfOf[t], k)
    OBVIOUS
  <2>2. A \subseteq R /\ \A bp \in R : bp \in A <=> BranchOf(ElfOf[t], bp) = Named(k)
    BY <1>5, <2>1 DEF Alike
  <2>3. \A bp \in R : of[bp] \in S /\ V[of[bp]] = Said(Record(t, bp)) /\ SaidRight(t, bp, k)
    BY <1>2, <1>5, <1>6, SaidIs
  <2>4. \A bp \in R : /\ k \in DOMAIN V[of[bp]] <=> bp \in A
                      /\ bp \in A => V[of[bp]][k] = IF Decides(t, bp)
                                                    THEN WentWays(t, bp, k[4]) ELSE Dash
    BY <2>2, <2>3 DEF SaidRight
  <2>5. k \in DOMAIN br <=> A # {}
    <3>1. k \in DOMAIN br <=> \E r \in S : k \in DOMAIN V[r]
      BY <1>4 DEF Closed, KeysOf
    <3>2. (\E r \in S : k \in DOMAIN V[r]) <=> \E bp \in R : k \in DOMAIN V[of[bp]]
      BY <1>6
    <3> QED BY <2>2, <2>4, <3>1, <3>2
  <2>6. \A bp \in R : /\ WentWays(t, bp, k[4]) \in Nat /\ WentWays(t, bp, k[4]) # Dash
                      /\ ~Decides(t, bp) => WentWays(t, bp, k[4]) = 0
    <3> TAKE bp \in R
    <3>1. k[4] \in {0, 1} /\ WentWays(t, bp, 0) \in Nat /\ WentWays(t, bp, 1) \in Nat
      BY <1>5, KeyParts, WentIs
    <3>2. Decides(t, bp) <=> WentWays(t, bp, 0) + WentWays(t, bp, 1) > 0
      BY DEF Decides
    <3> QED BY <3>1, <3>2, DashIs
  <2>7. Unseen(V, S, k) <=> ~Ruled(t, k)
    <3>1. Unseen(V, S, k) <=> \A bp \in R : k \in DOMAIN V[of[bp]] => V[of[bp]][k] = Dash
      BY <1>6 DEF Unseen
    <3>2. Unseen(V, S, k) <=> \A bp \in A : ~Decides(t, bp)
      BY <2>2, <2>4, <2>6, <3>1
    <3>3. Ruled(t, k) <=> \E bp \in A : Decides(t, bp)
      BY <2>1, RuledIs
    <3> QED BY <3>2, <3>3
  <2>8. SumOver(Seen(V, S, k), S) = Gone(t, k)
    <3>1. PICK u : u = [bp \in R |-> IF bp \in A THEN WentWays(t, bp, k[4]) ELSE 0]
      OBVIOUS
    <3>2. PICK w : w = Seen(V, S, k)
      OBVIOUS
    <3>3. \A bp \in R : w[of[bp]] = u[bp]
      <4> TAKE bp \in R
      <4>1. w[of[bp]] = IF k \in DOMAIN V[of[bp]] /\ V[of[bp]][k] # Dash
                        THEN V[of[bp]][k] ELSE 0
        BY <2>3, <3>2 DEF Seen
      <4>2. CASE bp \in A
        BY <2>4, <2>6, <3>1, <4>1, <4>2
      <4>3. CASE bp \notin A
        BY <2>4, <3>1, <4>1, <4>3
      <4> QED BY <4>2, <4>3
    <3>4. Weighs(u, R)
      <4>1. IsFiniteSet(R)
        BY <1>5, ReportedFinite, CoverageAssumption
      <4> QED BY <2>6, <3>1, <4>1 DEF Weighs
    <3>5. SumOver(w, S) = SumOver(u, R)
      BY ONLY <1>7, <3>3, <3>4, SumRenamed
    <3>6. Weighs(u, A) /\ SumOver(u, A) = SumOver(u, R)
      <4>1. \A bp \in R \ A : u[bp] = 0
        BY <3>1
      <4> QED BY ONLY <2>2, <3>4, <4>1, SumIgnores
    <3>7. \A bp \in A : GoingBy(t, k)[bp] = u[bp]
      BY <1>5, <2>2, <3>1 DEF GoingBy
    <3>8. SumOver(GoingBy(t, k), A) = SumOver(u, A)
      BY <3>6, <3>7, SumSame
    <3> QED BY <2>1, <3>2, <3>5, <3>6, <3>8 DEF Gone
  <2>9. k \in DOMAIN br => br[k] = IF Unseen(V, S, k) THEN Dash ELSE SumOver(Seen(V, S, k), S)
    BY <1>4 DEF Closed
  <2> QED BY <2>1, <2>5, <2>7, <2>8, <2>9
<1>9. DOMAIN br = KeysOf(V, S)
  BY <1>4 DEF Closed
<1>10. DOMAIN br \subseteq Keys
  BY <1>4, <1>9
<1>11. LoadRight(t, br)
  BY <1>8, <1>10 DEF LoadRight
<1> QED BY <1>1, <1>3, <1>11

-----------------------------------------------------------------------------
(* What a file says, set against the parts it was made of.                 *)
Counts(p)     == {x \in Declared(p) \union LinesRun(p.test) : KeptBy(p, x)}
TimesAt(p, x) == IF KeptBy(p, x) THEN TimesRun(p.test, x) ELSE 0
Weighted(bag, v) == [p \in DOMAIN bag |-> bag[p] * v[p]]
BagSum(bag, v) == SumOver(Weighted(bag, v), DOMAIN bag)
Weight(bag, x) == [p \in DOMAIN bag |-> bag[p] * TimesAt(p, x)]
Times(bag, x) == SumOver(Weight(bag, x), DOMAIN bag)
HitsAt(i, x)  == IF x \in DOMAIN i.hits THEN i.hits[x] ELSE 0
Name(f)       == <<f.file, f.function>>
Ran(p, fn)    == {g \in FramesRun(p.test) : Name(g) = fn}
Has(target, fn) == \E g \in target : Name(g) = fn
LinesOfElf(e) == {Where(f) : f \in AllFrames[e]}

IsPart(p) ==
  p.test \in Tests /\ {"test", "declared", "branches", "targets"} \subseteq DOMAIN p

PartsRight(bag) ==
  /\ IsFiniteSet(DOMAIN bag)
  /\ \A p \in DOMAIN bag : bag[p] \in Nat /\ IsPart(p)

LinesRight(i, bag) ==
  /\ i.lines = UNION {Counts(p) : p \in DOMAIN bag}
  /\ DOMAIN i.hits \subseteq i.lines
  /\ \A x \in i.lines : HitsAt(i, x) = Times(bag, x)

(* A part that executed a function which all its targets have.            *)
RanThere(p, fn) == Ran(p, fn) # {} /\ \A target \in p.targets : Has(target, fn)

FunctionsRight(i, bag) ==
  /\ DOMAIN i.fnda \subseteq DOMAIN i.fn
  /\ \A fn \in DOMAIN i.fnda : /\ i.fnda[fn] \in Nat \ {0}
                               /\ \E p \in DOMAIN bag : RanThere(p, fn)
  /\ \A p \in DOMAIN bag : \A fn :
       /\ \A target \in p.targets : Has(target, fn)
       /\ \E g \in Ran(p, fn) : KeptBy(p, Where(g))
       => fn \in DOMAIN i.fnda

Counted(p, k)   == p.branches /\ KeptBy(p, At(k))
Settles(p, k)   == Counted(p, k) /\ Ruled(p.test, k)
FlowAt(p, k)    == IF Counted(p, k) THEN Gone(p.test, k) ELSE 0
Flows(bag, k)   == [p \in DOMAIN bag |-> FlowAt(p, k)]
Flow(bag, k)    == BagSum(bag, Flows(bag, k))
Settled(bag, k) == \E p \in DOMAIN bag : Settles(p, k)

BranchesRight(i, bag) ==
  /\ DOMAIN i.br \subseteq Keys
  /\ \A k \in DOMAIN i.br : i.br[k] = IF Settled(bag, k) THEN Flow(bag, k) ELSE Dash
  /\ \A k \in Keys : Settled(bag, k) => k \in DOMAIN i.br

DenominatorRight(i, bag) ==
  \A p \in DOMAIN bag :
    /\ p.declared # None \/ p.targets # {} => i.lines # {}
    /\ p.declared # None => Declared(p) = LinesOfElf(ElfOf[p.test])

FileRight(i, bag) ==
  /\ PartsRight(bag) /\ LinesRight(i, bag) /\ BranchesRight(i, bag)
  /\ FunctionsRight(i, bag) /\ DenominatorRight(i, bag)

(* A test that did not execute a line executed it no times.                *)
LEMMA TimesRunIs ==
  ASSUME RunRight, NEW t \in Tests, NEW x
  PROVE  /\ TimesRun(t, x) \in Nat
         /\ x \notin LinesRun(t) => TimesRun(t, x) = 0
<1>1. CASE x \in LinesRun(t)
  BY <1>1, CountAtIs
<1>2. CASE x \notin LinesRun(t)
  <2>1. InsnsOf(t, x) = {}
    BY <1>2 DEF InsnsOf, LinesRun
  <2> QED
    BY <1>2, <2>1 DEF TimesRun
<1> QED
  BY <1>1, <1>2

LEMMA WeightNat ==
  ASSUME RunRight, NEW bag, PartsRight(bag), NEW x
  PROVE  /\ Weighs(Weight(bag, x), DOMAIN bag)
         /\ \A p \in DOMAIN bag : TimesAt(p, x) \in Nat
<1>1. \A p \in DOMAIN bag : TimesAt(p, x) \in Nat /\ bag[p] \in Nat
  BY TimesRunIs DEF TimesAt, PartsRight, IsPart
<1>2. \A m, n \in Nat : m * n \in Nat
  OBVIOUS
<1>3. \A p \in DOMAIN bag : Weight(bag, x)[p] \in Nat
  BY <1>1, <1>2 DEF Weight
<1> QED
  BY <1>1, <1>3 DEF Weighs, PartsRight, IsPart

(* Nor did the parts of a file execute a line that is not in it.           *)
LEMMA TimesOutside ==
  ASSUME RunRight, NEW bag, PartsRight(bag), NEW x,
         \A p \in DOMAIN bag : x \notin Counts(p)
  PROVE  Times(bag, x) = 0
<1>1. \A p \in DOMAIN bag : TimesAt(p, x) = 0
  BY TimesRunIs DEF TimesAt, PartsRight, IsPart, Counts
<1>2. \A p \in DOMAIN bag : Weight(bag, x)[p] = 0
  BY <1>1 DEF Weight, PartsRight, IsPart
<1> QED
  BY <1>2, SumZero DEF Times, PartsRight, IsPart

LEMMA HitsOutside ==
  ASSUME RunRight, NEW bag, PartsRight(bag), NEW i, LinesRight(i, bag), NEW x
  PROVE  HitsAt(i, x) = Times(bag, x) /\ Times(bag, x) \in Nat
<1>1. Times(bag, x) \in Nat
  BY WeightNat, SumType DEF Times
<1>2. CASE x \in i.lines
  BY <1>1, <1>2 DEF LinesRight
<1>3. CASE x \notin i.lines
  <2>1. Times(bag, x) = 0
    BY <1>3, TimesOutside DEF LinesRight
  <2>2. HitsAt(i, x) = 0
    BY <1>3 DEF LinesRight, HitsAt
  <2> QED
    BY <2>1, <2>2
<1> QED
  BY <1>1, <1>2, <1>3

(* What lcov writes of one test is right for its one part.                 *)
LEMMA OnePart ==
  ASSUME RunRight, NEW p, IsPart(p), NEW x
  PROVE  /\ PartsRight(SetToBag({p}))
         /\ Times(SetToBag({p}), x) = TimesAt(p, x)
<1> DEFINE bag == SetToBag({p})
           w   == Weight(bag, x)
<1>1. DOMAIN bag = {p} /\ bag[p] = 1
  BY DEF SetToBag
<1> HIDE DEF bag
<1>2. PartsRight(bag)
  <2>1. IsFiniteSet({p})
    BY FS_Singleton
  <2>2. \A q \in DOMAIN bag : bag[q] \in Nat /\ IsPart(q)
    BY <1>1
  <2> QED
    BY <1>1, <2>1, <2>2 DEF PartsRight, IsPart
<1>3. Weighs(w, {p}) /\ TimesAt(p, x) \in Nat
  BY <1>1, <1>2, WeightNat
<1>4. w[p] = TimesAt(p, x)
  BY <1>1, <1>3 DEF Weight
<1> HIDE DEF w
<1>5. SumOver(w, {p}) = w[p] + SumOver(w, {p} \ {p})
  BY <1>3, SumTake
<1>6. {p} \ {p} = {} /\ SumOver(w, {}) = 0
  BY SumEmpty
<1>7. SumOver(w, {p}) = TimesAt(p, x)
  BY <1>3, <1>4, <1>5, <1>6
<1> QED
  BY <1>1, <1>2, <1>7 DEF Times, bag, w

(* Whatever a part weighs, the weights of two bags add up.                 *)
LEMMA WeightedIs ==
  ASSUME NEW bag, PartsRight(bag), NEW v, \A p \in DOMAIN bag : v[p] \in Nat
  PROVE  Weighs(Weighted(bag, v), DOMAIN bag) /\ BagSum(bag, v) \in Nat
<1>1. \A m, n \in Nat : m * n \in Nat
  OBVIOUS
<1>2. IsFiniteSet(DOMAIN bag) /\ \A p \in DOMAIN bag : bag[p] \in Nat
  BY DEF PartsRight
<1>3. \A p \in DOMAIN bag : Weighted(bag, v)[p] \in Nat
  BY <1>1, <1>2 DEF Weighted
<1>4. Weighs(Weighted(bag, v), DOMAIN bag)
  BY <1>2, <1>3 DEF Weighs
<1> QED BY <1>4, SumType DEF BagSum

(* A test that did not decide a branch did not go either way of it.        *)
LEMMA FlowAtIs ==
  ASSUME RunRight, NEW p, IsPart(p), NEW k \in Keys
  PROVE  FlowAt(p, k) \in Nat /\ (FlowAt(p, k) > 0 => Settles(p, k))
<1>1. PICK t : t = p.test /\ t \in Tests
  BY DEF IsPart
<1>2. k[4] \in {0, 1} /\ Opposite(k)[4] \in {0, 1}
  BY KeyParts, OppositeIs
<1>3. GoneRight(t, k) /\ GoneRight(t, Opposite(k))
  BY <1>1, <1>2, GoneIs
<1>4. Gone(t, k) \in Nat /\ Gone(t, Opposite(k)) \in Nat
  BY <1>3 DEF GoneRight
<1> QED BY <1>1, <1>4 DEF FlowAt, Settles, Ruled

LEMMA FlowIs ==
  ASSUME RunRight, NEW bag, PartsRight(bag), NEW k \in Keys
  PROVE  /\ \A p \in DOMAIN bag : Flows(bag, k)[p] \in Nat
         /\ Flow(bag, k) \in Nat
         /\ ~Settled(bag, k) => Flow(bag, k) = 0
<1>1. PICK v : v = Flows(bag, k)
  OBVIOUS
<1>2. \A p \in DOMAIN bag : /\ v[p] = FlowAt(p, k) /\ v[p] \in Nat
                            /\ v[p] > 0 => Settles(p, k)
  BY <1>1, FlowAtIs DEF Flows, PartsRight
<1>3. Weighs(Weighted(bag, v), DOMAIN bag) /\ BagSum(bag, v) \in Nat
  BY <1>2, WeightedIs
<1>4. ASSUME ~Settled(bag, k) PROVE BagSum(bag, v) = 0
  <2>1. \A p \in DOMAIN bag : v[p] = 0
    BY <1>2, <1>4 DEF Settled
  <2>2. \A p \in DOMAIN bag : Weighted(bag, v)[p] = 0
    BY <2>1 DEF Weighted, PartsRight
  <2> QED BY <1>3, <2>2, SumZero DEF BagSum, Weighs
<1> QED BY <1>1, <1>2, <1>3, <1>4 DEF Flow

LEMMA OneFlow ==
  ASSUME RunRight, NEW p, IsPart(p), NEW bag, bag = SetToBag({p}), NEW k \in Keys
  PROVE  /\ Flow(bag, k) = FlowAt(p, k) /\ (Settled(bag, k) <=> Settles(p, k))
<1>1. DOMAIN bag = {p} /\ bag[p] = 1
  BY DEF SetToBag
<1>2. PartsRight(bag)
  BY OnePart
<1>3. PICK v, w : v = Flows(bag, k) /\ w = Weighted(bag, v)
  OBVIOUS
<1>4. Weighs(w, {p}) /\ w[p] = FlowAt(p, k)
  <2>1. v[p] \in Nat /\ v[p] = FlowAt(p, k)
    BY <1>1, <1>2, <1>3, FlowIs DEF Flows
  <2>2. w[p] = v[p]
    BY <1>1, <1>3, <2>1 DEF Weighted
  <2>3. IsFiniteSet({p})
    BY FS_Singleton
  <2> QED BY <2>1, <2>2, <2>3 DEF Weighs
<1>5. SumOver(w, {p}) = w[p] + SumOver(w, {p} \ {p})
  BY <1>4, SumTake
<1>6. {p} \ {p} = {} /\ SumOver(w, {}) = 0
  BY SumEmpty
<1>7. SumOver(w, {p}) = FlowAt(p, k)
  BY <1>4, <1>5, <1>6 DEF Weighs
<1> QED BY <1>1, <1>3, <1>7 DEF Flow, BagSum, Settled

LEMMA CoveredLines ==
  ASSUME NEW t
  PROVE  {Where(r.frame) : r \in symbolize(t)} = LinesRun(t)
<1> DEFINE record(f) == [frame |-> f, count |-> CountOf(t, f)]
<1>1. symbolize(t) = {record(f) : f \in FramesRun(t)}
  BY DEF symbolize, FramesRun
<1>2. \A f : record(f).frame = f
  OBVIOUS
<1>3. LinesRun(t) = {Where(f) : f \in FramesRun(t)}
  BY DEF LinesRun, FramesRun
<1> HIDE DEF record
<1>4. \A x : x \in {Where(r.frame) : r \in symbolize(t)} <=> x \in LinesRun(t)
  BY <1>1, <1>2, <1>3
<1> QED
  BY <1>4

LEMMA CoveredFrames ==
  ASSUME NEW t
  PROVE  {r.frame : r \in symbolize(t)} = FramesRun(t)
<1> DEFINE record(f) == [frame |-> f, count |-> CountOf(t, f)]
<1>1. symbolize(t) = {record(f) : f \in FramesRun(t)}
  BY DEF symbolize, FramesRun
<1>2. \A f : record(f).frame = f
  OBVIOUS
<1> HIDE DEF record
<1>3. \A f : f \in {r.frame : r \in symbolize(t)} <=> f \in FramesRun(t)
  BY <1>1, <1>2
<1> QED
  BY <1>3

LEMMA LcovIs ==
  ASSUME NEW t, NEW declared, NEW with_branches
  PROVE  LET i == lcov(t, declared, with_branches)
             cov_fn == FunctionLines(FramesRun(t))
         IN /\ i.lines = {Where(f) : f \in declared} \union LinesRun(t)
            /\ DOMAIN i.hits = LinesRun(t)
            /\ \A x \in LinesRun(t) : i.hits[x] = CountAt(t, x)
            /\ DOMAIN i.fnda = DOMAIN cov_fn
            /\ \A fn \in DOMAIN cov_fn :
                 i.fnda[fn] = CountAt(t, <<fn[1], cov_fn[fn]>>)
            /\ DOMAIN cov_fn \subseteq DOMAIN i.fn
            /\ i.br = IF with_branches THEN load_branches(branches(t)) ELSE <<>>
BY CoveredLines, CoveredFrames DEF lcov, Coverable, CountAt, Combine

(* A function that a test executed begins at a line it executed.           *)
LEMMA FirstLine ==
  ASSUME RunRight, NEW t \in Tests, NEW fn \in DOMAIN FunctionLines(FramesRun(t))
  PROVE  /\ <<fn[1], FunctionLines(FramesRun(t))[fn]>> \in LinesRun(t)
         /\ \E f \in FramesRun(t) : Name(f) = fn
<1> DEFINE named == {f \in FramesRun(t) : Name(f) = fn}
           lines == {f.line : f \in named}
<1>1. PICK f \in FramesRun(t) : Name(f) = fn
  BY DEF FunctionLines, Name
<1>2. lines \in SUBSET Nat /\ lines # {}
  BY <1>1, FramesRunIs
<1>3. Min(lines) \in lines
  <2> HIDE DEF lines
  <2> QED
    BY <1>2, MinIs
<1>4. FunctionLines(FramesRun(t))[fn] = Min(lines)
  BY DEF FunctionLines, Name
<1>5. PICK g \in named : Min(lines) = g.line
  BY <1>3
<1>6. fn[1] = g.file
  BY <1>5 DEF Name
<1>7. <<fn[1], Min(lines)>> = Where(g)
  BY <1>5, <1>6 DEF Where
<1>8. Where(g) \in LinesRun(t)
  BY <1>5 DEF LinesRun, FramesRun
<1> QED
  BY <1>1, <1>4, <1>7, <1>8

LEMMA LcovBranches ==
  ASSUME RunRight, NEW t \in Tests, NEW p, IsPart(p), p.test = t, p.targets = {},
         NEW i, i.br = IF p.branches THEN load_branches(branches(t)) ELSE <<>>
  PROVE  BranchesRight(i, SetToBag({p}))
<1>1. PICK bag : bag = SetToBag({p})
  OBVIOUS
<1>2. \A k \in Keys : Flow(bag, k) = FlowAt(p, k) /\ (Settled(bag, k) <=> Settles(p, k))
  BY <1>1, OneFlow
<1>3. \A k : KeptBy(p, At(k))
  BY DEF KeptBy
<1>4. CASE p.branches
  <2>1. LoadRight(t, i.br)
    BY <1>4, LoadedRight
  <2>2. \A k : (Settles(p, k) <=> Ruled(t, k)) /\ FlowAt(p, k) = Gone(t, k)
    BY <1>3, <1>4 DEF Settles, Counted, FlowAt
  <2>3. \A k \in Keys : Ruled(t, k) => k \in DOMAIN i.br
    BY <2>1, RuledCovered DEF LoadRight
  <2> QED BY <1>1, <1>2, <2>1, <2>2, <2>3 DEF BranchesRight, LoadRight
<1>5. CASE ~p.branches
  <2>1. DOMAIN i.br = {}
    BY <1>5
  <2>2. \A k : ~Settles(p, k)
    BY <1>5 DEF Settles, Counted
  <2> QED BY <1>1, <1>2, <2>1, <2>2 DEF BranchesRight
<1> QED BY <1>4, <1>5

LEMMA LcovRight ==
  ASSUME RunRight, NEW t \in Tests, NEW declared, NEW with_branches,
         NEW p, IsPart(p), p.test = t, p.targets = {}, p.branches = with_branches,
         Declared(p) = {Where(f) : f \in declared},
         p.declared # None =>
           Declared(p) = LinesOfElf(ElfOf[t]) /\ LinesOfElf(ElfOf[t]) # {}
  PROVE  FileRight(lcov(t, declared, with_branches), SetToBag({p}))
<1> DEFINE i      == lcov(t, declared, with_branches)
           bag    == SetToBag({p})
           cov_fn == FunctionLines(FramesRun(t))
<1>1. /\ i.lines = {Where(f) : f \in declared} \union LinesRun(t)
      /\ DOMAIN i.hits = LinesRun(t)
      /\ \A x \in LinesRun(t) : i.hits[x] = CountAt(t, x)
      /\ DOMAIN i.fnda = DOMAIN cov_fn
      /\ \A fn \in DOMAIN cov_fn : i.fnda[fn] = CountAt(t, <<fn[1], cov_fn[fn]>>)
      /\ DOMAIN cov_fn \subseteq DOMAIN i.fn
      /\ i.br = IF with_branches THEN load_branches(branches(t)) ELSE <<>>
  BY LcovIs
<1>2. /\ DOMAIN bag = {p} /\ PartsRight(bag)
      /\ \A x : Times(bag, x) = TimesAt(p, x)
  BY OnePart DEF SetToBag
<1>3. \A x : KeptBy(p, x)
  BY DEF KeptBy
<1> HIDE DEF i, bag, cov_fn
<1>4. LinesRight(i, bag)
  <2>1. i.lines = UNION {Counts(q) : q \in DOMAIN bag}
    <3>1. Counts(p) = i.lines
      BY <1>1, <1>3 DEF Counts
    <3> QED
      BY <1>2, <3>1
  <2>2. \A x : HitsAt(i, x) = Times(bag, x)
    <3> TAKE x
    <3>1. TimesAt(p, x) = TimesRun(t, x)
      BY <1>3 DEF TimesAt
    <3>2. CASE x \in LinesRun(t)
      BY <1>1, <1>2, <3>1, <3>2, CountAtIs DEF HitsAt
    <3>3. CASE x \notin LinesRun(t)
      BY <1>1, <1>2, <3>1, <3>3, TimesRunIs DEF HitsAt
    <3> QED
      BY <3>2, <3>3
  <2> QED
    BY <1>1, <2>1, <2>2 DEF LinesRight
<1>5. FunctionsRight(i, bag)
  <2>1. ASSUME NEW fn \in DOMAIN i.fnda
        PROVE  i.fnda[fn] \in Nat \ {0} /\ \E q \in DOMAIN bag : RanThere(q, fn)
    <3>1. /\ <<fn[1], cov_fn[fn]>> \in LinesRun(t)
          /\ \E f \in FramesRun(t) : Name(f) = fn
      BY <1>1, FirstLine DEF cov_fn
    <3>2. i.fnda[fn] \in Nat \ {0}
      BY <1>1, <3>1, CountAtIs
    <3>3. Ran(p, fn) # {}
      BY <3>1 DEF Ran
    <3> QED
      BY <1>1, <1>2, <3>2, <3>3 DEF RanThere
  <2>2. ASSUME NEW fn, Ran(p, fn) # {}
        PROVE  fn \in DOMAIN i.fnda
    BY <1>1, <2>2 DEF Ran, cov_fn, FunctionLines, Name
  <2> QED
    BY <1>1, <1>2, <2>1, <2>2 DEF FunctionsRight
<1>6. DenominatorRight(i, bag)
  BY <1>1, <1>2 DEF DenominatorRight
<1>7. BranchesRight(i, bag)
  BY <1>1, LcovBranches DEF bag
<1> QED
  BY <1>2, <1>4, <1>5, <1>6, <1>7 DEF FileRight, i, bag

-----------------------------------------------------------------------------
(* Merging.                                                                *)
LEMMA BothParts ==
  ASSUME NEW b, NEW c, PartsRight(b), PartsRight(c)
  PROVE  /\ PartsRight(b (+) c)
         /\ DOMAIN (b (+) c) = DOMAIN b \union DOMAIN c
         /\ \A p \in DOMAIN (b (+) c) :
              (b (+) c)[p] = (IF p \in DOMAIN b THEN b[p] ELSE 0)
                               + (IF p \in DOMAIN c THEN c[p] ELSE 0)
<1> DEFINE bag == [p \in DOMAIN b \union DOMAIN c |->
                     (IF p \in DOMAIN b THEN b[p] ELSE 0)
                       + (IF p \in DOMAIN c THEN c[p] ELSE 0)]
<1>1. b (+) c = bag
  BY DEF (+)
<1>2. IsFiniteSet(DOMAIN bag)
  BY FS_Union DEF PartsRight, IsPart
<1>3. \A p \in DOMAIN bag : bag[p] \in Nat /\ IsPart(p)
  BY DEF PartsRight, IsPart
<1>4. PartsRight(bag)
  BY <1>2, <1>3 DEF PartsRight, IsPart
<1> QED
  BY <1>1, <1>4

LEMMA BagSumPlus ==
  ASSUME NEW b, NEW c, PartsRight(b), PartsRight(c), NEW x,
         \A p \in DOMAIN b \union DOMAIN c : x[p] \in Nat
  PROVE  BagSum(b (+) c, x) = BagSum(b, x) + BagSum(c, x)
<1> DEFINE B == DOMAIN b
           C == DOMAIN c
           D == B \union C
           bag == b (+) c
           u == [p \in D |-> IF p \in B THEN b[p] * x[p] ELSE 0]
           v == [p \in D |-> IF p \in C THEN c[p] * x[p] ELSE 0]
           w == Weighted(bag, x)
<1>1. /\ PartsRight(bag) /\ DOMAIN bag = D
      /\ \A p \in D : bag[p] = (IF p \in B THEN b[p] ELSE 0)
                                 + (IF p \in C THEN c[p] ELSE 0)
  BY BothParts
<1>2. Weighs(Weighted(b, x), B) /\ Weighs(Weighted(c, x), C) /\ Weighs(w, D)
  BY <1>1, WeightedIs
<1>3. /\ \A p \in B : u[p] = Weighted(b, x)[p]
      /\ \A p \in C : v[p] = Weighted(c, x)[p]
      /\ \A p \in D \ B : u[p] = 0
      /\ \A p \in D \ C : v[p] = 0
  BY DEF Weighted
<1>4. \A p \in D : w[p] = u[p] + v[p]
  <2> TAKE p \in D
  <2>1. \A k, m, n \in Nat : (m + n) * k = m * k + n * k /\ 0 * k = 0
    OBVIOUS
  <2>2. w[p] = bag[p] * x[p]
    BY <1>1 DEF Weighted
  <2>3. /\ p \in B => b[p] \in Nat
        /\ p \in C => c[p] \in Nat
    BY DEF PartsRight, IsPart
  <2>4. bag[p] = (IF p \in B THEN b[p] ELSE 0) + (IF p \in C THEN c[p] ELSE 0)
    BY <1>1
  <2>5. PICK k \in Nat : k = x[p]
    OBVIOUS
  <2>6. PICK m \in Nat : m = IF p \in B THEN b[p] ELSE 0
    BY <2>3
  <2>7. PICK n \in Nat : n = IF p \in C THEN c[p] ELSE 0
    BY <2>3
  <2>8. u[p] = m * k /\ v[p] = n * k
    BY <2>1, <2>5, <2>6, <2>7
  <2>9. w[p] = (m + n) * k
    BY <2>2, <2>4, <2>5, <2>6, <2>7
  <2> QED
    BY <2>1, <2>8, <2>9
<1>5. IsFiniteSet(D) /\ B \subseteq D /\ C \subseteq D
  BY <1>2 DEF Weighs
<1>6. \A p \in D : u[p] \in Nat /\ v[p] \in Nat
  BY <1>2, <1>3 DEF Weighs
<1> HIDE DEF B, C, D, u, v, w, bag
<1>7. Weighs(u, D) /\ Weighs(v, D)
  BY <1>5, <1>6 DEF Weighs
<1>8. SumOver(u, B) = SumOver(u, D) /\ SumOver(v, C) = SumOver(v, D)
  BY <1>3, <1>5, <1>7, SumIgnores
<1>9. /\ SumOver(u, B) = SumOver(Weighted(b, x), B)
      /\ SumOver(v, C) = SumOver(Weighted(c, x), C)
  BY <1>2, <1>3, SumSame
<1>10. SumOver(w, D) = SumOver(u, D) + SumOver(v, D)
  BY <1>4, <1>7, SumPlus
<1> QED
  BY <1>1, <1>8, <1>9, <1>10 DEF BagSum, B, C, w, bag

LEMMA TimesPlus ==
  ASSUME RunRight, NEW b, NEW c, PartsRight(b), PartsRight(c), NEW x
  PROVE  Times(b (+) c, x) = Times(b, x) + Times(c, x)
<1> DEFINE D == DOMAIN b \union DOMAIN c
           v == [p \in D |-> TimesAt(p, x)]
<1>1. PartsRight(b (+) c) /\ DOMAIN (b (+) c) = D
  BY BothParts
<1>2. \A p \in D : TimesAt(p, x) \in Nat
  BY <1>1, WeightNat
<1>3. \A p \in D : v[p] \in Nat /\ v[p] = TimesAt(p, x)
  BY <1>2
<1> HIDE DEF v
<1>4. /\ Weight(b, x) = Weighted(b, v) /\ Weight(c, x) = Weighted(c, v)
      /\ Weight(b (+) c, x) = Weighted(b (+) c, v)
  BY <1>1, <1>3 DEF Weight, Weighted
<1>5. BagSum(b (+) c, v) = BagSum(b, v) + BagSum(c, v)
  BY <1>3, BagSumPlus
<1> QED BY <1>4, <1>5 DEF Times, BagSum

LEMMA BlankRight == FileRight(Blank, EmptyBag)
<1>1. DOMAIN EmptyBag = {}
  BY DEF EmptyBag, SetToBag
<1>2. /\ Blank.lines = {} /\ DOMAIN Blank.hits = {}
      /\ DOMAIN Blank.fnda = {} /\ DOMAIN Blank.fn = {}
      /\ DOMAIN Blank.br = {}
  BY DEF Blank
<1>3. BranchesRight(Blank, EmptyBag)
  BY <1>1, <1>2 DEF BranchesRight, Settled
<1> QED
  BY <1>1, <1>2, <1>3, FS_EmptySet
     DEF FileRight, PartsRight, LinesRight, FunctionsRight, DenominatorRight

LEMMA MergeBranches ==
  ASSUME RunRight, NEW b, NEW c, PartsRight(b), PartsRight(c),
         NEW i, BranchesRight(i, b), NEW j, BranchesRight(j, c),
         NEW s, s.br = Joined(i.br, j.br)
  PROVE  BranchesRight(s, b (+) c)
<1>1. PICK bag : bag = b (+) c
  OBVIOUS
<1>2. PartsRight(bag) /\ DOMAIN bag = DOMAIN b \union DOMAIN c
  BY <1>1, BothParts
<1>3. DOMAIN s.br = DOMAIN i.br \union DOMAIN j.br
  BY DEF Joined, Combine
<1>4. DOMAIN s.br \subseteq Keys
  BY <1>3 DEF BranchesRight
<1>5. \A k : Settled(bag, k) <=> Settled(b, k) \/ Settled(c, k)
  BY <1>2 DEF Settled
<1>6. ASSUME NEW k \in Keys
      PROVE  Flow(bag, k) = Flow(b, k) + Flow(c, k)
  <2>1. PICK v : v = Flows(bag, k)
    OBVIOUS
  <2>2. \A p \in DOMAIN b \union DOMAIN c : v[p] \in Nat
    BY <1>2, <2>1, FlowIs
  <2>3. BagSum(b (+) c, v) = BagSum(b, v) + BagSum(c, v)
    BY <2>2, BagSumPlus
  <2>4. /\ Weighted(b, v) = Weighted(b, Flows(b, k))
        /\ Weighted(c, v) = Weighted(c, Flows(c, k))
    BY <1>2, <2>1 DEF Weighted, Flows
  <2> QED BY <1>1, <2>1, <2>3, <2>4 DEF Flow, BagSum
<1>7. ASSUME NEW k \in DOMAIN s.br
      PROVE  s.br[k] = IF Settled(bag, k) THEN Flow(bag, k) ELSE Dash
  <2>1. PICK x, y, z, l, m, n : /\ x = i.br[k] /\ y = j.br[k] /\ z = s.br[k]
                                /\ l = Flow(b, k) /\ m = Flow(c, k) /\ n = Flow(bag, k)
    OBVIOUS
  <2>2. k \in Keys
    BY <1>4, <1>7
  <2>3. /\ l \in Nat /\ m \in Nat /\ n = l + m
        /\ ~Settled(b, k) => l = 0
        /\ ~Settled(c, k) => m = 0
    BY <1>6, <2>1, <2>2, FlowIs
  <2>4. /\ k \in DOMAIN i.br => x = IF Settled(b, k) THEN l ELSE Dash
        /\ k \in DOMAIN j.br => y = IF Settled(c, k) THEN m ELSE Dash
        /\ Settled(b, k) => k \in DOMAIN i.br
        /\ Settled(c, k) => k \in DOMAIN j.br
    BY <2>1, <2>2 DEF BranchesRight
  <2>5. /\ k \in DOMAIN i.br /\ k \notin DOMAIN j.br => z = x
        /\ k \in DOMAIN j.br /\ k \notin DOMAIN i.br => z = y
        /\ k \in DOMAIN i.br /\ k \in DOMAIN j.br =>
             z = IF x = Dash THEN y ELSE IF y = Dash THEN x ELSE x + y
    BY <2>1, JoinedIs
  <2>6. k \in DOMAIN i.br \/ k \in DOMAIN j.br
    BY <1>3, <1>7
  <2>7. z = IF Settled(b, k) \/ Settled(c, k) THEN n ELSE Dash
    BY <2>3, <2>4, <2>5, <2>6, DashIs
  <2> QED BY <1>5, <2>1, <2>7
<1>8. \A k \in Keys : Settled(bag, k) => k \in DOMAIN s.br
  BY <1>3, <1>5 DEF BranchesRight
<1> QED BY <1>1, <1>4, <1>7, <1>8 DEF BranchesRight

LEMMA MergeStep ==
  ASSUME RunRight, NEW i, NEW b, FileRight(i, b), NEW j, NEW c, FileRight(j, c)
  PROVE  FileRight(parse_info(i, j), b (+) c)
<1> DEFINE sum == parse_info(i, j)
           bag == b (+) c
<1>1. /\ sum.lines = i.lines \union j.lines
      /\ sum.hits = Combine(Add, i.hits, j.hits)
      /\ sum.fn = Combine(Lower, i.fn, j.fn)
      /\ sum.fnda = Combine(Add, i.fnda, j.fnda)
      /\ sum.br = Joined(i.br, j.br)
  BY DEF parse_info, Joined
<1>2. /\ PartsRight(b) /\ PartsRight(c)
      /\ LinesRight(i, b) /\ LinesRight(j, c)
      /\ FunctionsRight(i, b) /\ FunctionsRight(j, c)
      /\ DenominatorRight(i, b) /\ DenominatorRight(j, c)
      /\ BranchesRight(i, b) /\ BranchesRight(j, c)
  BY DEF FileRight
<1>3. PartsRight(bag) /\ DOMAIN bag = DOMAIN b \union DOMAIN c
  BY <1>2, BothParts
<1> HIDE DEF sum, bag
<1>4. LinesRight(sum, bag)
  <2>1. sum.lines = UNION {Counts(p) : p \in DOMAIN bag}
    BY <1>1, <1>2, <1>3 DEF LinesRight
  <2>2. DOMAIN sum.hits \subseteq sum.lines
    BY <1>1, <1>2 DEF LinesRight, Combine
  <2>3. ASSUME NEW x
        PROVE  HitsAt(sum, x) = Times(bag, x)
    <3>1. Times(bag, x) = Times(b, x) + Times(c, x)
      BY <1>2, TimesPlus DEF bag
    <3>2. /\ HitsAt(i, x) = Times(b, x) /\ Times(b, x) \in Nat
          /\ HitsAt(j, x) = Times(c, x) /\ Times(c, x) \in Nat
      BY <1>2, HitsOutside
    <3>3. HitsAt(sum, x) = IF x \in DOMAIN i.hits \union DOMAIN j.hits
                           THEN Combine(Add, i.hits, j.hits)[x] ELSE 0
      BY <1>1 DEF HitsAt, Combine
    <3>4. CASE x \in DOMAIN i.hits /\ x \in DOMAIN j.hits
      <4>1. Combine(Add, i.hits, j.hits)[x] = i.hits[x] + j.hits[x]
        BY <3>4 DEF Combine, Add
      <4> QED
        BY <3>1, <3>2, <3>3, <3>4, <4>1 DEF HitsAt
    <3>5. CASE x \in DOMAIN i.hits /\ x \notin DOMAIN j.hits
      <4>1. Combine(Add, i.hits, j.hits)[x] = i.hits[x]
        BY <3>5 DEF Combine
      <4> QED
        BY <3>1, <3>2, <3>3, <3>5, <4>1 DEF HitsAt
    <3>6. CASE x \notin DOMAIN i.hits /\ x \in DOMAIN j.hits
      <4>1. Combine(Add, i.hits, j.hits)[x] = j.hits[x]
        BY <3>6 DEF Combine
      <4> QED
        BY <3>1, <3>2, <3>3, <3>6, <4>1 DEF HitsAt
    <3>7. CASE x \notin DOMAIN i.hits /\ x \notin DOMAIN j.hits
      BY <3>1, <3>2, <3>3, <3>7 DEF HitsAt
    <3> QED
      BY <3>4, <3>5, <3>6, <3>7
  <2> QED
    BY <2>1, <2>2, <2>3 DEF LinesRight
<1>5. FunctionsRight(sum, bag)
  <2>1. /\ DOMAIN sum.fnda = DOMAIN i.fnda \union DOMAIN j.fnda
        /\ DOMAIN sum.fn = DOMAIN i.fn \union DOMAIN j.fn
    BY <1>1 DEF Combine
  <2>2. ASSUME NEW fn \in DOMAIN sum.fnda
        PROVE  /\ sum.fnda[fn] \in Nat \ {0}
               /\ \E p \in DOMAIN bag : RanThere(p, fn)
    <3>1. CASE fn \in DOMAIN i.fnda /\ fn \in DOMAIN j.fnda
      <4>1. sum.fnda[fn] = i.fnda[fn] + j.fnda[fn]
        BY <1>1, <3>1 DEF Combine, Add
      <4> QED
        BY <1>2, <1>3, <3>1, <4>1 DEF FunctionsRight
    <3>2. CASE fn \in DOMAIN i.fnda /\ fn \notin DOMAIN j.fnda
      <4>1. sum.fnda[fn] = i.fnda[fn]
        BY <1>1, <3>2 DEF Combine
      <4> QED
        BY <1>2, <1>3, <3>2, <4>1 DEF FunctionsRight
    <3>3. CASE fn \notin DOMAIN i.fnda /\ fn \in DOMAIN j.fnda
      <4>1. sum.fnda[fn] = j.fnda[fn]
        BY <1>1, <3>3 DEF Combine
      <4> QED
        BY <1>2, <1>3, <3>3, <4>1 DEF FunctionsRight
    <3> QED
      BY <2>1, <3>1, <3>2, <3>3
  <2> QED
    BY <1>2, <1>3, <2>1, <2>2 DEF FunctionsRight
<1>6. DenominatorRight(sum, bag)
  BY <1>1, <1>2, <1>3 DEF DenominatorRight
<1>7. BranchesRight(sum, bag)
  BY <1>1, <1>2, MergeBranches DEF bag
<1> QED
  BY <1>3, <1>4, <1>5, <1>6, <1>7 DEF FileRight, sum, bag

(* The two recursions of a merge, over what the files say and over their   *)
(* parts, have a solution for any number of inputs.                        *)
Entry(parsing, inputs, f, k) ==
  IF k = 0 THEN IF parsing THEN Blank ELSE EmptyBag
  ELSE IF k \notin Readable(inputs) THEN f[k - 1]
  ELSE IF parsing THEN parse_info(f[k - 1], info[inputs[k]])
  ELSE f[k - 1] (+) parts[inputs[k]]

Sums(parsing, inputs, n, f) == f = [k \in 0 .. n |-> Entry(parsing, inputs, f, k)]

LEMMA SumsExist ==
  ASSUME NEW parsing \in BOOLEAN, NEW inputs, NEW n \in Nat
  PROVE  \E f : Sums(parsing, inputs, n, f)
<1> DEFINE bad == {m \in Nat : ~ \E f : Sums(parsing, inputs, m, f)}
<1> SUFFICES ASSUME bad # {} PROVE FALSE
  OBVIOUS
<1>1. PICK m \in bad : \A k \in bad : m <= k
  <2>1. bad \in SUBSET Nat /\ bad # {}
    OBVIOUS
  <2> HIDE DEF bad
  <2> QED
    BY <2>1, LeastNat
<1>2. CASE m = 0
  <2> DEFINE f == [k \in 0 .. 0 |-> Entry(parsing, inputs, <<>>, 0)]
  <2>1. Entry(parsing, inputs, f, 0) = Entry(parsing, inputs, <<>>, 0)
    BY DEF Entry
  <2>2. f = [k \in 0 .. 0 |-> Entry(parsing, inputs, f, k)]
    BY <2>1
  <2> QED
    BY <1>2, <2>2 DEF Sums
<1>3. CASE m # 0
  <2> DEFINE l == m - 1
  <2>1. l \in Nat /\ l \notin bad /\ m = l + 1 /\ m \in Nat
    BY <1>1, <1>3
  <2>2. PICK f : Sums(parsing, inputs, l, f)
    BY <2>1
  <2>3. \A k \in 0 .. l : f[k] = Entry(parsing, inputs, f, k)
    <3> HIDE DEF l
    <3> QED
      BY <2>2 DEF Sums
  <2> DEFINE g == [k \in 0 .. m |-> IF k = m THEN Entry(parsing, inputs, f, m) ELSE f[k]]
  <2>4. \A k \in 0 .. m : k # 0 => g[k - 1] = f[k - 1]
    BY <2>1
  <2>5. \A k \in 0 .. m : Entry(parsing, inputs, g, k) = Entry(parsing, inputs, f, k)
    <3> HIDE DEF g, l
    <3> QED
      BY <2>4 DEF Entry
  <2>6. \A k \in 0 .. m : k # m => k \in 0 .. l
    BY <2>1
  <2>7. \A k \in 0 .. m : g[k] = Entry(parsing, inputs, g, k)
    BY <2>3, <2>5, <2>6
  <2>8. g = [k \in 0 .. m |-> Entry(parsing, inputs, g, k)]
    <3>1. g = [k \in 0 .. m |-> g[k]]
      OBVIOUS
    <3> HIDE DEF g
    <3> QED
      BY <2>7, <3>1
  <2> QED
    BY <1>1, <2>8 DEF Sums
<1> QED
  BY <1>2, <1>3

LEMMA MergeIs ==
  ASSUME NEW inputs, Len(inputs) \in Nat
  PROVE  \E f, g : /\ merge(inputs) = f[Len(inputs)]
                   /\ Gathered(inputs) = g[Len(inputs)]
                   /\ \A k \in 0 .. Len(inputs) :
                        /\ f[k] = Entry(TRUE, inputs, f, k)
                        /\ g[k] = Entry(FALSE, inputs, g, k)
<1> DEFINE n == Len(inputs)
           f == CHOOSE h : Sums(TRUE, inputs, n, h)
           g == CHOOSE h : Sums(FALSE, inputs, n, h)
<1>1. Sums(TRUE, inputs, n, f) /\ Sums(FALSE, inputs, n, g)
  BY SumsExist
<1>2. merge(inputs) = f[n]
  BY DEF merge, Sums, Entry
<1>3. Gathered(inputs) = g[n]
  BY DEF Gathered, Sums, Entry
<1> HIDE DEF f, g
<1>4. \A k \in 0 .. n : /\ f[k] = Entry(TRUE, inputs, f, k)
                        /\ g[k] = Entry(FALSE, inputs, g, k)
  BY <1>1 DEF Sums
<1> QED
  BY <1>2, <1>3, <1>4

LEMMA MergeRight ==
  ASSUME RunRight, NEW inputs, Len(inputs) \in Nat,
         DOMAIN inputs = 1 .. Len(inputs),
         \A n \in DOMAIN info : FileRight(info[n], parts[n])
  PROVE  FileRight(merge(inputs), Gathered(inputs))
<1> DEFINE n == Len(inputs)
<1>1. PICK f, g : /\ merge(inputs) = f[n]
                  /\ Gathered(inputs) = g[n]
                  /\ \A k \in 0 .. n : /\ f[k] = Entry(TRUE, inputs, f, k)
                                       /\ g[k] = Entry(FALSE, inputs, g, k)
  BY MergeIs
<1> DEFINE bad == {k \in 0 .. n : ~FileRight(f[k], g[k])}
<1>2. bad = {}
  <2> SUFFICES ASSUME bad # {} PROVE FALSE
    OBVIOUS
  <2>1. PICK m \in bad : \A k \in bad : m <= k
    <3>1. bad \in SUBSET Nat
      OBVIOUS
    <3> HIDE DEF bad
    <3> QED
      BY <3>1, LeastNat
  <2>2. m \in 0 .. n /\ ~FileRight(f[m], g[m])
    OBVIOUS
  <2>3. m # 0
    BY <1>1, <2>2, BlankRight DEF Entry
  <2> DEFINE l == m - 1
  <2>4. l \in 0 .. n /\ l < m
    BY <2>2, <2>3
  <2>5. FileRight(f[l], g[l])
    BY <2>1, <2>2, <2>4
  <2>6. f[m] = Entry(TRUE, inputs, f, m) /\ g[m] = Entry(FALSE, inputs, g, m)
    BY <1>1, <2>2
  <2>7. CASE m \in Readable(inputs)
    <3>1. /\ f[m] = parse_info(f[l], info[inputs[m]])
          /\ g[m] = g[l] (+) parts[inputs[m]]
      BY <2>3, <2>6, <2>7 DEF Entry
    <3>2. FileRight(info[inputs[m]], parts[inputs[m]])
      BY <2>7 DEF Readable
    <3> QED
      BY <2>2, <2>5, <3>1, <3>2, MergeStep
  <2>8. CASE m \notin Readable(inputs)
    BY <2>2, <2>3, <2>5, <2>6, <2>8 DEF Entry
  <2> QED
    BY <2>7, <2>8
<1> QED
  BY <1>1, <1>2

-----------------------------------------------------------------------------
(* Restricting.                                                            *)
Narrow(p, target) == [p EXCEPT !.targets = @ \union {target}]

(* The parts that come to be the same add up.                              *)
WeighAlike(bag, target, u, v) ==
  \A p \in DOMAIN bag : v[p] \in Nat /\ u[Narrow(p, target)] = v[p]

LEMMA BagSumNarrowed ==
  ASSUME NEW bag, PartsRight(bag), NEW target, NEW u, NEW v,
         WeighAlike(bag, target, u, v)
  PROVE  /\ PartsRight(Narrowed(bag, target))
         /\ DOMAIN Narrowed(bag, target) = {Narrow(p, target) : p \in DOMAIN bag}
         /\ BagSum(Narrowed(bag, target), u) = BagSum(bag, v)
<1> DEFINE D == DOMAIN bag
           of == [p \in D |-> Narrow(p, target)]
           I  == {of[p] : p \in D}
           P  == [q \in I |-> {p \in D : of[p] = q}]
           new == Narrowed(bag, target)
<1>1. DOMAIN new = I /\ \A q \in I : new[q] = SumOver(bag, P[q])
  BY DEF Narrowed, Narrow, SumOver
<1>2. IsFiniteSet(D) /\ \A p \in D : bag[p] \in Nat /\ IsPart(p)
  BY DEF PartsRight, IsPart
<1>3. IsFiniteSet(I)
  <2> HIDE DEF D, of
  <2> QED
    BY <1>2, ImageFinite
<1>4. \A p \in D : IsPart(of[p])
  BY <1>2 DEF Narrow, IsPart
<1>a. \A p \in D : of[p] = Narrow(p, target) /\ v[p] \in Nat /\ u[of[p]] = v[p]
  BY DEF WeighAlike
<1> HIDE DEF of
<1>5. \A q \in I : Weighs(bag, P[q])
  <2> TAKE q \in I
  <2>1. P[q] \in SUBSET D
    OBVIOUS
  <2>2. IsFiniteSet(P[q])
    BY <1>2, <2>1, FS_Subset
  <2> QED
    BY <1>2, <2>1, <2>2 DEF Weighs
<1>6. \A q \in I : new[q] \in Nat /\ IsPart(q)
  <2> TAKE q \in I
  <2>1. IsPart(q)
    BY <1>4
  <2>2. Weighs(bag, P[q]) /\ new[q] = SumOver(bag, P[q])
    BY <1>1, <1>5
  <2> HIDE DEF P, new
  <2> QED
    BY <2>1, <2>2, SumType
<1>7. PartsRight(new)
  <2> HIDE DEF new, I
  <2> QED
    BY <1>1, <1>3, <1>6 DEF PartsRight, IsPart
<1>8. BagSum(new, u) = BagSum(bag, v)
  <2> DEFINE w == Weighted(bag, v)
             s == Weighted(new, u)
  <2>2. \A p \in D : w[p] = bag[p] * v[p]
    BY DEF Weighted
  <2>3. \A q \in I : s[q] = SumOver(w, P[q]) /\ Weighs(w, P[q])
    <3> TAKE q \in I
    <3>1. PICK r \in D : q = of[r]
      OBVIOUS
    <3>2. \A p \in P[q] : w[p] = bag[p] * u[q]
      BY <1>a, <2>2
    <3>3. u[q] \in Nat
      BY <1>a, <3>1
    <3>4. Weighs(bag, P[q])
      BY <1>5
    <3> HIDE DEF P, I, new, w
    <3>5. SumOver(w, P[q]) = SumOver(bag, P[q]) * u[q] /\ Weighs(w, P[q])
      BY <3>2, <3>3, <3>4, SumTimes
    <3>6. s[q] = new[q] * u[q]
      BY <1>1 DEF Weighted
    <3> QED
      BY <1>1, <3>5, <3>6
  <2>4. PartsApart(P, I)
    BY DEF PartsApart
  <2>5. UnionOf(P, I) = D
    <3>1. \A q \in I : P[q] \subseteq D
      OBVIOUS
    <3>2. \A p \in D : of[p] \in I /\ p \in P[of[p]]
      OBVIOUS
    <3> HIDE DEF P, I, D
    <3> QED
      BY <3>1, <3>2 DEF UnionOf
  <2> HIDE DEF P, I, new, w, s
  <2>a. \A q \in I : s[q] = SumOver(w, P[q])
    BY <2>3
  <2>b. \A q \in I : Weighs(w, P[q])
    BY <2>3
  <2>6. SumOver(s, I) = SumOver(w, UnionOf(P, I))
    BY ONLY <1>3, <2>a, <2>b, <2>4, SumParts
  <2> QED
    BY <1>1, <2>5, <2>6 DEF BagSum, s, w
<1>9. I = {Narrow(p, target) : p \in DOMAIN bag}
  BY <1>a
<1> QED
  BY <1>1, <1>7, <1>8, <1>9

LEMMA SumNarrowed ==
  ASSUME NEW bag, PartsRight(bag), NEW target, NEW u, NEW v,
         WeighAlike(bag, target, u, v)
  PROVE  BagSum(Narrowed(bag, target), u) = BagSum(bag, v)
BY BagSumNarrowed, ZenonT(40)

LEMMA NarrowedParts ==
  ASSUME NEW bag, PartsRight(bag), NEW target
  PROVE  /\ PartsRight(Narrowed(bag, target))
         /\ DOMAIN Narrowed(bag, target) = {Narrow(p, target) : p \in DOMAIN bag}
<1>1. PICK u : u = [q \in {Narrow(p, target) : p \in DOMAIN bag} |-> 0]
  OBVIOUS
<1>2. PICK v : v = [p \in DOMAIN bag |-> 0]
  OBVIOUS
<1>3. WeighAlike(bag, target, u, v)
  BY <1>1, <1>2 DEF WeighAlike
<1> QED BY <1>3, BagSumNarrowed

LEMMA NarrowIs ==
  ASSUME NEW p, IsPart(p), NEW target
  PROVE  /\ IsPart(Narrow(p, target))
         /\ Narrow(p, target).test = p.test
         /\ Narrow(p, target).declared = p.declared
         /\ Narrow(p, target).branches = p.branches
         /\ Narrow(p, target).targets = p.targets \union {target}
         /\ Declared(Narrow(p, target)) = Declared(p)
         /\ \A x : KeptBy(Narrow(p, target), x)
                     <=> KeptBy(p, x) /\ x \in {Where(f) : f \in target}
<1>1. /\ IsPart(Narrow(p, target))
      /\ Narrow(p, target).test = p.test
      /\ Narrow(p, target).declared = p.declared
      /\ Narrow(p, target).branches = p.branches
      /\ Narrow(p, target).targets = p.targets \union {target}
  BY DEF Narrow, IsPart
<1> QED
  BY <1>1 DEF Declared, KeptBy

LEMMA TimesNarrowed ==
  ASSUME RunRight, NEW bag, PartsRight(bag), NEW target, NEW x, x \in {Where(f) : f \in target}
  PROVE  Times(Narrowed(bag, target), x) = Times(bag, x)
<1>1. PICK new : new = Narrowed(bag, target)
  OBVIOUS
<1>2. PartsRight(new) /\ DOMAIN new = {Narrow(p, target) : p \in DOMAIN bag}
  BY <1>1, NarrowedParts
<1>3. PICK u : u = [q \in DOMAIN new |-> TimesAt(q, x)]
  OBVIOUS
<1>4. PICK v : v = [p \in DOMAIN bag |-> TimesAt(p, x)]
  OBVIOUS
<1>5. \A p \in DOMAIN bag : TimesAt(Narrow(p, target), x) = TimesAt(p, x)
  BY NarrowIs DEF TimesAt, PartsRight
<1>6. WeighAlike(bag, target, u, v)
  BY <1>2, <1>3, <1>4, <1>5, WeightNat DEF WeighAlike
<1>7. BagSum(new, u) = BagSum(bag, v)
  <2>1. BagSum(Narrowed(bag, target), u) = BagSum(bag, v)
    BY ONLY PartsRight(bag), <1>6, SumNarrowed
  <2> QED BY <1>1, <2>1
<1>8. Weight(bag, x) = Weighted(bag, v) /\ Weight(new, x) = Weighted(new, u)
  BY <1>3, <1>4 DEF Weight, Weighted
<1> QED BY <1>1, <1>7, <1>8 DEF Times, BagSum

LEMMA SettledNarrowed ==
  ASSUME RunRight, NEW bag, PartsRight(bag), NEW target, NEW k \in Keys
  PROVE  LET new == Narrowed(bag, target) IN
         /\ Settled(new, k) <=> Settled(bag, k) /\ At(k) \in {Where(f) : f \in target}
         /\ At(k) \in {Where(f) : f \in target} => Flow(new, k) = Flow(bag, k)
<1>1. PICK new, there : new = Narrowed(bag, target) /\ there = {Where(f) : f \in target}
  OBVIOUS
<1>2. PartsRight(new) /\ DOMAIN new = {Narrow(p, target) : p \in DOMAIN bag}
  BY <1>1, NarrowedParts
<1>3. ASSUME NEW p \in DOMAIN bag
      PROVE  /\ Counted(Narrow(p, target), k) <=> Counted(p, k) /\ At(k) \in there
             /\ Narrow(p, target).test = p.test
  BY <1>1, NarrowIs DEF Counted, PartsRight
<1>4. \A p \in DOMAIN bag : Settles(Narrow(p, target), k) <=> Settles(p, k) /\ At(k) \in there
  BY <1>3 DEF Settles
<1>5. Settled(new, k) <=> Settled(bag, k) /\ At(k) \in there
  BY <1>2, <1>4 DEF Settled
<1>6. ASSUME At(k) \in there
      PROVE  Flow(new, k) = Flow(bag, k)
  <2>1. PICK u, v : u = Flows(new, k) /\ v = Flows(bag, k)
    OBVIOUS
  <2>2. \A p \in DOMAIN bag : FlowAt(Narrow(p, target), k) = FlowAt(p, k)
    BY <1>3, <1>6 DEF FlowAt
  <2>3. \A p \in DOMAIN bag : v[p] \in Nat
    BY <2>1, FlowIs
  <2>4. \A p \in DOMAIN bag : u[Narrow(p, target)] = v[p]
    BY <1>2, <2>1, <2>2 DEF Flows
  <2>5. WeighAlike(bag, target, u, v)
    BY <2>3, <2>4 DEF WeighAlike
  <2>6. BagSum(Narrowed(bag, target), u) = BagSum(bag, v)
    BY ONLY PartsRight(bag), <2>5, SumNarrowed
  <2> QED BY <1>1, <2>1, <2>6 DEF Flow
<1> QED BY <1>1, <1>5, <1>6

LEMMA RestrictBranches ==
  ASSUME RunRight, NEW bag, PartsRight(bag), NEW i, LinesRight(i, bag),
         BranchesRight(i, bag), NEW target, NEW j,
         j.lines = i.lines \intersect {Where(f) : f \in target},
         DOMAIN j.br = {k \in DOMAIN i.br : At(k) \in j.lines},
         \A k \in DOMAIN j.br : j.br[k] = i.br[k]
  PROVE  BranchesRight(j, Narrowed(bag, target))
<1>1. PICK new, there : new = Narrowed(bag, target) /\ there = {Where(f) : f \in target}
  OBVIOUS
<1>2. \A k \in Keys : /\ Settled(new, k) <=> Settled(bag, k) /\ At(k) \in there
                      /\ At(k) \in there => Flow(new, k) = Flow(bag, k)
  BY <1>1, SettledNarrowed
<1>3. DOMAIN j.br \subseteq Keys
  BY DEF BranchesRight
<1>4. \A k \in DOMAIN j.br : j.br[k] = IF Settled(new, k) THEN Flow(new, k) ELSE Dash
  <2> TAKE k \in DOMAIN j.br
  <2>1. k \in DOMAIN i.br /\ k \in Keys /\ At(k) \in there
    BY <1>1, <1>3
  <2>2. i.br[k] = IF Settled(bag, k) THEN Flow(bag, k) ELSE Dash
    BY <2>1 DEF BranchesRight
  <2> QED BY <1>2, <2>1, <2>2
<1>5. ASSUME NEW k \in Keys, Settled(new, k)
      PROVE  k \in DOMAIN j.br
  <2>1. Settled(bag, k) /\ At(k) \in there
    BY <1>2, <1>5
  <2>2. PICK p \in DOMAIN bag : Settles(p, k)
    BY <2>1 DEF Settled
  <2>3. p.test \in Tests /\ Ruled(p.test, k) /\ KeptBy(p, At(k))
    BY <2>2 DEF Settles, Counted, PartsRight, IsPart
  <2>4. At(k) \in Counts(p)
    BY <2>3, RuledCovered DEF Counts
  <2>5. At(k) \in i.lines
    BY <2>4 DEF LinesRight
  <2>6. k \in DOMAIN i.br
    BY <2>1 DEF BranchesRight
  <2> QED BY <1>1, <2>1, <2>5, <2>6
<1> QED BY <1>1, <1>3, <1>4, <1>5 DEF BranchesRight

(* A file restricted to a target that shares a line with it is right for   *)
(* its parts, each kept by one more target.                                *)
LEMMA RestrictRight ==
  ASSUME RunRight, NEW i, NEW bag, FileRight(i, bag), NEW target,
         restrict(i, target).lines # {}
  PROVE  FileRight(restrict(i, target), Narrowed(bag, target))
<1> DEFINE j     == restrict(i, target)
           new   == Narrowed(bag, target)
           there == {Where(f) : f \in target}
           kept  == {fn \in DOMAIN i.fn : KeptFunction(i, fn, j.lines, target)}
<1>1. /\ j.lines = i.lines \intersect there
      /\ j.hits = Restrict(i.hits, DOMAIN i.hits \intersect j.lines)
      /\ j.fn = Restrict(i.fn, kept)
      /\ j.fnda = Restrict(i.fnda, DOMAIN i.fnda \intersect kept)
      /\ j.br = [k \in {l \in DOMAIN i.br : At(l) \in j.lines} |-> i.br[k]]
  BY DEF restrict, RestrictDomain, Restrict, KeptBranch, At
<1>2. /\ PartsRight(bag) /\ LinesRight(i, bag)
      /\ FunctionsRight(i, bag) /\ DenominatorRight(i, bag) /\ BranchesRight(i, bag)
  BY DEF FileRight
<1>3. /\ PartsRight(new)
      /\ DOMAIN new = {Narrow(p, target) : p \in DOMAIN bag}
      /\ \A x \in there : Times(new, x) = Times(bag, x)
  BY <1>2, NarrowedParts, TimesNarrowed
<1>4. \A p \in DOMAIN bag :
        LET q == Narrow(p, target) IN
        /\ q.test = p.test /\ q.declared = p.declared
        /\ q.targets = p.targets \union {target}
        /\ Declared(q) = Declared(p)
        /\ \A x : KeptBy(q, x) <=> KeptBy(p, x) /\ x \in there
  BY <1>2, NarrowIs DEF PartsRight
<1>5. \A fn \in kept : fn \in DOMAIN i.fn
  OBVIOUS
<1>6. j.lines # {}
  OBVIOUS
<1> HIDE DEF j, new, there
<1>7. LinesRight(j, new)
  <2>1. \A p \in DOMAIN bag : Counts(Narrow(p, target)) = Counts(p) \intersect there
    BY <1>4 DEF Counts
  <2>2. i.lines = UNION {Counts(p) : p \in DOMAIN bag}
    BY <1>2 DEF LinesRight
  <2>3. \A x : x \in j.lines <=> x \in UNION {Counts(q) : q \in DOMAIN new}
    BY <1>1, <1>3, <2>1, <2>2
  <2>4. j.lines = UNION {Counts(q) : q \in DOMAIN new}
    BY <2>3
  <2>5. DOMAIN j.hits = DOMAIN i.hits \intersect j.lines
    BY <1>1 DEF Restrict
  <2>6. \A x \in j.lines : HitsAt(j, x) = HitsAt(i, x)
    BY <1>1, <2>5 DEF HitsAt, Restrict
  <2>7. \A x \in j.lines : HitsAt(j, x) = Times(new, x)
    BY <1>1, <1>2, <1>3, <2>6 DEF LinesRight
  <2> QED
    BY <2>4, <2>5, <2>7 DEF LinesRight
<1>8. FunctionsRight(j, new)
  <2>1. /\ DOMAIN j.fn = kept
        /\ DOMAIN j.fnda = DOMAIN i.fnda \intersect kept
        /\ \A fn \in DOMAIN j.fnda : j.fnda[fn] = i.fnda[fn]
    <3> HIDE DEF kept
    <3> QED
      BY <1>1 DEF Restrict
  <2>2. ASSUME NEW fn \in DOMAIN j.fnda
        PROVE  j.fnda[fn] \in Nat \ {0} /\ \E q \in DOMAIN new : RanThere(q, fn)
    <3>1. PICK p \in DOMAIN bag : RanThere(p, fn)
      BY <1>2, <2>1 DEF FunctionsRight
    <3>2. Narrow(p, target) \in DOMAIN new /\ Ran(Narrow(p, target), fn) # {}
      BY <1>3, <1>4, <3>1 DEF Ran, RanThere
    <3>3. fn \in {<<f.file, f.function>> : f \in target}
      BY <2>1 DEF KeptFunction
    <3>4. Has(target, fn)
      BY <3>3 DEF Has, Name
    <3>5. \A t \in Narrow(p, target).targets : Has(t, fn)
      BY <1>4, <3>1, <3>4 DEF RanThere
    <3>6. RanThere(Narrow(p, target), fn)
      BY <3>2, <3>5 DEF RanThere
    <3> QED
      BY <1>2, <2>1, <3>2, <3>6 DEF FunctionsRight
  <2>3. ASSUME NEW q \in DOMAIN new, NEW fn,
               \A t \in q.targets : Has(t, fn),
               \E g \in Ran(q, fn) : KeptBy(q, Where(g))
        PROVE  fn \in DOMAIN j.fnda
    <3>1. PICK p \in DOMAIN bag : q = Narrow(p, target)
      BY <1>3
    <3>2. PICK g \in Ran(q, fn) : KeptBy(q, Where(g))
      BY <2>3
    <3>3. g \in Ran(p, fn) /\ KeptBy(p, Where(g)) /\ Where(g) \in there
      BY <1>4, <3>1, <3>2 DEF Ran
    <3>4. Has(target, fn) /\ \A t \in p.targets : Has(t, fn)
      BY <1>4, <2>3, <3>1
    <3>5. fn \in DOMAIN i.fnda /\ fn \in DOMAIN i.fn
      BY <1>2, <3>3, <3>4 DEF FunctionsRight
    <3>6. g \in FramesRun(p.test) /\ Name(g) = fn
      BY <3>3 DEF Ran
    <3>7. Where(g) \in Counts(p)
      BY <3>3, <3>6 DEF Counts, LinesRun, FramesRun
    <3>8. Where(g) \in j.lines
      BY <1>1, <1>2, <3>3, <3>7 DEF LinesRight
    <3>9. Where(g)[1] = fn[1]
      BY <3>6 DEF Where, Name
    <3>10. fn[1] \in {x[1] : x \in j.lines}
      BY <3>8, <3>9
    <3>11. fn \in {<<f.file, f.function>> : f \in target}
      BY <3>4 DEF Has, Name
    <3>12. fn \in kept
      BY <3>5, <3>10, <3>11 DEF KeptFunction
    <3> QED
      BY <2>1, <3>5, <3>12
  <2> QED
    BY <2>1, <2>2, <2>3 DEF FunctionsRight
<1>9. DenominatorRight(j, new)
  BY <1>2, <1>3, <1>4, <1>6 DEF DenominatorRight
<1>10. BranchesRight(j, new)
  <2>1. /\ DOMAIN j.br = {k \in DOMAIN i.br : At(k) \in j.lines}
        /\ \A k \in DOMAIN j.br : j.br[k] = i.br[k]
    BY <1>1
  <2>2. j.lines = i.lines \intersect {Where(f) : f \in target}
    BY <1>1 DEF there
  <2> QED BY <1>2, <2>1, <2>2, RestrictBranches DEF new
<1> QED
  BY <1>3, <1>7, <1>8, <1>9, <1>10 DEF FileRight, j, new

-----------------------------------------------------------------------------
(* The inventories a campaign makes.                                       *)
InventoryRight ==
  \A e \in Elfs : inventory[e] # None =>
    {Where(f) : f \in inventory[e]} = LinesOfElf(e)

(* The line table gives the lines that addr2line gives.                    *)
LEMMA DwarfLinesAreLines ==
  ASSUME NEW e \in Elfs
  PROVE  {Where(f) : f \in DwarfFrames[e]} = LinesOfElf(e)
<1> DEFINE named(a, f) == [f EXCEPT !.function = Last(Frames[e][a]).function]
<1>1. \A a \in Addrs(Code[e]) : \A f \in FramesAt(e, a) : Where(named(a, f)) = Where(f)
  BY FramesFinite DEF Where
<1>2. DwarfFrames[e] = UNION {{named(a, f) : f \in FramesAt(e, a)} : a \in Addrs(Code[e])}
  BY DEF DwarfFrames
<1>3. AllFrames[e] = UNION {FramesAt(e, a) : a \in Addrs(Code[e])}
  BY DEF AllFrames
<1> HIDE DEF named
<1>4. \A x : x \in {Where(f) : f \in DwarfFrames[e]}
              <=> \E a \in Addrs(Code[e]) : \E f \in FramesAt(e, a) : x = Where(f)
  BY <1>1, <1>2
<1>5. \A x : x \in LinesOfElf(e)
              <=> \E a \in Addrs(Code[e]) : \E f \in FramesAt(e, a) : x = Where(f)
  BY <1>3 DEF LinesOfElf
<1> QED
  BY <1>4, <1>5

LEMMA InventoryOfRight ==
  ASSUME NEW e \in Elfs, NEW want, NEW objdump, NEW dwarf,
         inventory_of(e, want, objdump, dwarf) # None
  PROVE  {Where(f) : f \in inventory_of(e, want, objdump, dwarf)} = LinesOfElf(e)
<1>1. inventory_of(e, want, objdump, dwarf) \in {AllFrames[e], DwarfFrames[e]}
  BY DEF inventory_of, ObjdumpUsable, Printed
<1> QED
  BY <1>1, DwarfLinesAreLines DEF LinesOfElf

LEMMA LinesThere ==
  ASSUME NEW e \in Elfs
  PROVE  LinesOfElf(e) # {}
  BY CoverageAssumption DEF LinesOfElf

-----------------------------------------------------------------------------
(* The inductive invariant: inventories are whole and every file is right  *)
(* for the parts it was made of.                                           *)
FilesRight ==
  /\ DOMAIN parts = DOMAIN info
  /\ \A n \in DOMAIN info : \A i, bag :
       i = info[n] /\ bag = parts[n] => FileRight(i, bag)

CoverageInv == RunRight /\ InventoryRight /\ FilesRight

LEMMA InitRight == Init => CoverageInv
<1> SUFFICES ASSUME Init PROVE CoverageInv
  OBVIOUS
<1>1. RunRight
  BY DEF Init, RunRight
<1>2. InventoryRight
  BY DEF Init, InventoryRight
<1>3. FilesRight
  <2>1. DOMAIN info = {} /\ DOMAIN parts = {}
    BY DEF Init
  <2> QED
    BY <2>1 DEF FilesRight
<1> QED
  BY <1>1, <1>2, <1>3 DEF CoverageInv

(* What a file must say depends on what the tests executed, which stands.  *)
LEMMA StillRight ==
  ASSUME run' = run, NEW i, NEW bag, FileRight(i, bag)
  PROVE  FileRight(i, bag)'
<1>1. \A t : Covered(t)' = Covered(t)
  BY DEF Covered
<1>2. \A t : FramesRun(t)' = FramesRun(t) /\ LinesRun(t)' = LinesRun(t)
  BY <1>1 DEF FramesRun, LinesRun
<1>3. \A t, x : InsnsOf(t, x)' = InsnsOf(t, x)
  BY <1>1 DEF InsnsOf
<1>4. \A t, x : TimesRun(t, x)' = TimesRun(t, x)
  BY <1>3 DEF TimesRun
<1>5. \A p, x : TimesAt(p, x)' = TimesAt(p, x)
  BY <1>4 DEF TimesAt
<1>6. \A p : Counts(p)' = Counts(p)
  BY <1>2 DEF Counts
<1>7. \A p, fn : Ran(p, fn)' = Ran(p, fn)
  BY <1>2 DEF Ran
<1>8. \A x : Times(bag, x)' = Times(bag, x)
  <2> TAKE x
  <2>1. Weight(bag, x)' = Weight(bag, x)
    BY <1>5 DEF Weight
  <2> QED
    BY <2>1 DEF Times
<1>9. LinesRight(i, bag)'
  BY <1>6, <1>8 DEF FileRight, LinesRight
<1>10. FunctionsRight(i, bag)'
  BY <1>7 DEF FileRight, FunctionsRight, RanThere
<1>11. \A t, k : Gone(t, k)' = Gone(t, k)
  <2> TAKE t, k
  <2>1. \A bp, o : WentWays(t, bp, o)' = WentWays(t, bp, o)
    BY DEF WentWays
  <2>2. GoingBy(t, k)' = GoingBy(t, k)
    BY <2>1 DEF GoingBy
  <2> QED BY <2>2 DEF Gone
<1>12. \A t, k : Ruled(t, k)' <=> Ruled(t, k)
  BY <1>11 DEF Ruled
<1>13. \A k : (Settled(bag, k)' <=> Settled(bag, k)) /\ Flow(bag, k)' = Flow(bag, k)
  <2> TAKE k
  <2>1. Settled(bag, k)' <=> Settled(bag, k)
    BY <1>12 DEF Settled, Settles
  <2>2. \A p : FlowAt(p, k)' = FlowAt(p, k)
    BY <1>11 DEF FlowAt
  <2>3. Flows(bag, k)' = Flows(bag, k)
    BY <2>2 DEF Flows
  <2> QED BY <2>1, <2>3 DEF Flow
<1>14. BranchesRight(i, bag)'
  BY <1>13 DEF FileRight, BranchesRight
<1> QED
  BY <1>9, <1>10, <1>14 DEF FileRight, DenominatorRight

LEMMA WritesRight ==
  ASSUME FilesRight, run' = run, NEW n, NEW i, NEW bag,
         FileRight(i, bag), Writes(n, i, bag)
  PROVE  FilesRight'
<1>1. /\ DOMAIN info' = DOMAIN info \union {n} /\ info'[n] = i
      /\ \A m \in DOMAIN info : m # n => info'[m] = info[m]
  BY DEF Writes, Including
<1>2. /\ DOMAIN parts' = DOMAIN parts \union {n} /\ parts'[n] = bag
      /\ \A m \in DOMAIN parts : m # n => parts'[m] = parts[m]
  BY DEF Writes, Including
<1>3. ASSUME NEW m \in DOMAIN info', NEW j, NEW b, j = info'[m], b = parts'[m]
      PROVE  FileRight(j, b)'
  <2>1. FileRight(j, b)
    <3>1. CASE m = n
      BY <1>1, <1>2, <1>3, <3>1
    <3>2. CASE m # n
      BY <1>1, <1>2, <1>3, <3>2 DEF FilesRight
    <3> QED
      BY <3>1, <3>2
  <2> QED
    BY <2>1, StillRight
<1>4. DOMAIN parts' = DOMAIN info'
  BY <1>1, <1>2 DEF FilesRight
<1> QED
  BY <1>3, <1>4 DEF FilesRight

LEMMA RefusesRight ==
  ASSUME FilesRight, run' = run, UNCHANGED <<info, parts>>
  PROVE  FilesRight'
<1>1. ASSUME NEW m \in DOMAIN info', NEW j, NEW b, j = info'[m], b = parts'[m]
      PROVE  FileRight(j, b)'
  <2>1. FileRight(j, b)
    BY <1>1 DEF FilesRight
  <2> QED
    BY <2>1, StillRight
<1>2. DOMAIN parts' = DOMAIN info'
  BY DEF FilesRight
<1> QED
  BY <1>1, <1>2 DEF FilesRight

(***************************************************************************)
(* Every command keeps the invariant.                                      *)
(***************************************************************************)
LEMMA LcovKeeps ==
  ASSUME CoverageInv, run' = run, NEW t \in Tests, NEW n,
         NEW with_inventory \in BOOLEAN, NEW with_branches \in BOOLEAN,
         RunLcov(t, with_inventory, with_branches, n)
  PROVE  FilesRight' /\ inventory' = inventory
<1> DEFINE declared == IF with_inventory THEN inventory[ElfOf[t]] ELSE {}
           p == Part(t, IF with_inventory THEN declared ELSE None, with_branches)
<1>1. CASE declared = None
  BY <1>1, RefusesRight DEF RunLcov, Refuses, CoverageInv
<1>2. CASE declared # None
  <2>1. /\ IsPart(p) /\ p.test = t /\ p.targets = {}
        /\ p.declared = IF with_inventory THEN declared ELSE None
        /\ p.branches = with_branches
    BY DEF Part, IsPart
  <2>2. ElfOf[t] \in Elfs
    BY CoverageAssumption
  <2>3. /\ Declared(p) = {Where(f) : f \in declared}
        /\ p.declared # None =>
             Declared(p) = LinesOfElf(ElfOf[t]) /\ LinesOfElf(ElfOf[t]) # {}
    <3>1. CASE with_inventory
      BY <1>2, <2>1, <2>2, <3>1, LinesThere
         DEF Declared, CoverageInv, InventoryRight
    <3>2. CASE ~with_inventory
      BY <2>1, <3>2 DEF Declared
    <3> QED
      BY <3>1, <3>2
  <2>4. /\ Writes(n, lcov(t, declared, with_branches), SetToBag({p}))
        /\ inventory' = inventory
    BY <1>2 DEF RunLcov
  <2> HIDE DEF declared, p
  <2>5. FileRight(lcov(t, declared, with_branches), SetToBag({p}))
    BY <2>1, <2>3, LcovRight DEF CoverageInv
  <2> QED
    BY <2>4, <2>5, WritesRight DEF CoverageInv
<1> QED
  BY <1>1, <1>2

LEMMA MergeKeeps ==
  ASSUME CoverageInv, run' = run, NEW inputs \in Inputs, NEW n, RunMerge(inputs, n)
  PROVE  FilesRight' /\ inventory' = inventory
<1>1. inputs \in Seq(Infos)
  BY CoverageAssumption
<1>2. Len(inputs) \in Nat /\ DOMAIN inputs = 1 .. Len(inputs)
  BY <1>1
<1>3. \A m \in DOMAIN info : FileRight(info[m], parts[m])
  BY DEF CoverageInv, FilesRight
<1>4. FileRight(merge(inputs), Gathered(inputs))
  BY <1>2, <1>3, MergeRight DEF CoverageInv
<1>5. CASE Readable(inputs) = {}
  BY <1>5, RefusesRight DEF RunMerge, Refuses, CoverageInv
<1>6. CASE Readable(inputs) # {}
  BY <1>4, <1>6, WritesRight DEF RunMerge, CoverageInv
<1> QED
  BY <1>5, <1>6

LEMMA RestrictKeeps ==
  ASSUME CoverageInv, run' = run, NEW i, NEW e, NEW source, NEW n,
         RunRestrict(i, e, source, n)
  PROVE  FilesRight' /\ inventory' = inventory
<1> DEFINE target == load_target_inventory(e, source)
<1>1. CASE Refuses
  BY <1>1, RefusesRight DEF RunRestrict, Refuses, CoverageInv
<1>2. CASE ~Refuses
  <2>1. /\ i \in DOMAIN info /\ restrict(info[i], target).lines # {}
        /\ Writes(n, restrict(info[i], target), Narrowed(parts[i], target))
        /\ inventory' = inventory
    BY <1>2 DEF RunRestrict
  <2>2. FileRight(info[i], parts[i])
    BY <2>1 DEF CoverageInv, FilesRight
  <2> HIDE DEF target
  <2>3. FileRight(restrict(info[i], target), Narrowed(parts[i], target))
    BY <2>1, <2>2, RestrictRight DEF CoverageInv
  <2> QED
    BY <2>1, <2>3, WritesRight DEF CoverageInv
<1> QED
  BY <1>1, <1>2 DEF RunRestrict

LEMMA CoverableKeeps ==
  ASSUME CoverageInv, run' = run, NEW e \in Elfs, NEW want, NEW objdump, NEW dwarf,
         RunCoverable(e, want, objdump, dwarf)
  PROVE  FilesRight' /\ InventoryRight'
<1>1. FilesRight'
  BY RefusesRight DEF RunCoverable, CoverageInv
<1>2. \A d \in Elfs : inventory'[d] # None =>
        {Where(f) : f \in inventory'[d]} = LinesOfElf(d)
  <2> TAKE d \in Elfs
  <2>1. CASE d = e /\ e \in DOMAIN inventory
    BY <2>1, InventoryOfRight DEF RunCoverable
  <2>2. CASE ~(d = e /\ e \in DOMAIN inventory)
    BY <2>2 DEF RunCoverable, CoverageInv, InventoryRight
  <2> QED
    BY <2>1, <2>2
<1> QED
  BY <1>1, <1>2 DEF InventoryRight

LEMMA StepRight == CoverageInv /\ [Next]_vars => CoverageInv'
<1> SUFFICES ASSUME CoverageInv, [Next]_vars PROVE CoverageInv'
  OBVIOUS
<1>1. run' = run
  BY DEF Next, vars
<1>2. RunRight'
  BY <1>1 DEF CoverageInv, RunRight
<1>3. FilesRight' /\ InventoryRight'
  <2>0. inventory' = inventory => InventoryRight'
    BY DEF CoverageInv, InventoryRight
  <2>1. CASE UNCHANGED vars
    BY <2>0, <2>1, RefusesRight DEF vars, CoverageInv
  <2>2. ASSUME NEW e \in Elfs, NEW want \in {"objdump", "dwarf", "auto"},
               NEW objdump \in Outcomes, NEW dwarf \in Outcomes,
               RunCoverable(e, want, objdump, dwarf)
        PROVE  FilesRight' /\ InventoryRight'
    BY <1>1, <2>2, CoverableKeeps
  <2>3. ASSUME NEW t \in Tests, NEW n \in Infos, NEW with_inventory \in BOOLEAN,
               NEW with_branches \in BOOLEAN,
               RunLcov(t, with_inventory, with_branches, n)
        PROVE  FilesRight' /\ InventoryRight'
    BY <1>1, <2>0, <2>3, LcovKeeps
  <2>4. ASSUME NEW inputs \in Inputs, NEW n \in Infos, RunMerge(inputs, n)
        PROVE  FilesRight' /\ InventoryRight'
    BY <1>1, <2>0, <2>4, MergeKeeps
  <2>5. ASSUME NEW i \in Infos, NEW n \in Infos, NEW e \in Elfs, NEW source,
               RunRestrict(i, e, source, n)
        PROVE  FilesRight' /\ InventoryRight'
    BY <1>1, <2>0, <2>5, RestrictKeeps
  <2> QED
    BY <2>1, <2>2, <2>3, <2>4, <2>5 DEF Next, Command
<1> QED
  BY <1>2, <1>3 DEF CoverageInv

LEMMA CoverageAlways == Spec => []CoverageInv
<1>1. Init => CoverageInv
  BY InitRight
<1>2. CoverageInv /\ [Next]_vars => CoverageInv'
  BY StepRight
<1> QED
  BY <1>1, <1>2, PTL DEF Spec

-----------------------------------------------------------------------------
(* The promises.                                                           *)
LEMMA PartsSum ==
  ASSUME RunRight, NEW n, PartsRight(parts[n]), NEW x
  PROVE  SumOfParts(n, LAMBDA p : IF KeptBy(p, x) THEN TimesRun(p.test, x) ELSE 0)
           = Times(parts[n], x)
<1> DEFINE bag == parts[n]
           S == DOMAIN bag
           w == Weight(bag, x)
           sum == SumOfParts(n, LAMBDA p : IF KeptBy(p, x) THEN TimesRun(p.test, x)
                                           ELSE 0)
           Table(h) == [s \in SUBSET S |->
                          IF s = {} THEN 0
                          ELSE LET p == CHOOSE q \in s : TRUE
                               IN  (bag[p] * (IF KeptBy(p, x) THEN TimesRun(p.test, x)
                                              ELSE 0)) + h[s \ {p}]]
           g == CHOOSE h : h = Table(h)
<1>1. Weighs(w, S)
  BY WeightNat
<1>2. ASSUME NEW h
      PROVE  h = Table(h) <=> Solves(w, S, h)
  <2>1. \A s \in SUBSET S : s # {} =>
          w[Pick(s)] = bag[Pick(s)] * (IF KeptBy(Pick(s), x)
                                       THEN TimesRun(Pick(s).test, x) ELSE 0)
    BY DEF Weight, TimesAt, Pick
  <2>2. Table(h) = [s \in SUBSET S |-> IF s = {} THEN 0
                                       ELSE w[Pick(s)] + h[s \ {Pick(s)}]]
    BY <2>1 DEF Pick
  <2> QED
    BY <2>2 DEF Solves
<1>3. sum = g[S]
  BY DEF SumOfParts, MapThenSumSet, MapThenFoldSet
<1> HIDE DEF w, Table
<1>4. \E h : h = Table(h)
  BY <1>1, <1>2, Solvable
<1>5. Solves(w, S, g)
  BY <1>2, <1>4
<1> HIDE DEF g
<1>6. sum = SumOver(w, S)
  BY <1>1, <1>3, <1>5, SolutionIsSum
<1> QED
  BY <1>6 DEF Times, w

(* Merged and restricted in any order and however often, an .info file has *)
(* the lines its parts count or declare, each with the sum of the times    *)
(* the tests ran it (lcov.run, merge.parse_info, restrict.run).            *)
THEOREM LinesExactCorrect == Spec => []LinesExact
<1>1. ASSUME CoverageInv PROVE LinesExact
  <2> SUFFICES ASSUME NEW n \in DOMAIN info
               PROVE  /\ info[n].lines =
                           UNION {{x \in Declared(p) \union LinesRun(p.test) :
                                     KeptBy(p, x)} : p \in DOMAIN parts[n]}
                      /\ \A x \in info[n].lines :
                           SumOfParts(n, LAMBDA p : IF KeptBy(p, x)
                                                    THEN TimesRun(p.test, x) ELSE 0)
                             = HitsAt(info[n], x)
    BY DEF LinesExact, HitsAt
  <2>1. PartsRight(parts[n]) /\ LinesRight(info[n], parts[n])
    BY <1>1 DEF CoverageInv, FilesRight, FileRight
  <2>2. info[n].lines = UNION {Counts(p) : p \in DOMAIN parts[n]}
    BY <2>1 DEF LinesRight
  <2>3. ASSUME NEW x \in info[n].lines
        PROVE  SumOfParts(n, LAMBDA p : IF KeptBy(p, x)
                                        THEN TimesRun(p.test, x) ELSE 0)
                 = HitsAt(info[n], x)
    BY <1>1, <2>1, PartsSum DEF LinesRight, CoverageInv
  <2> QED
    BY <2>2, <2>3 DEF Counts
<1> QED
  BY <1>1, CoverageAlways, PTL

(* A function is shown as executed only when some test executed it and     *)
(* every target of that test has it, and then whenever a line that it ran  *)
(* is kept (lcov.run, parse_info, restrict.run).                           *)
THEOREM FunctionsShownCorrect == Spec => []FunctionsShown
<1>1. ASSUME CoverageInv PROVE FunctionsShown
  <2>1. \A n \in DOMAIN info : FunctionsRight(info[n], parts[n])
    BY <1>1 DEF CoverageInv, FilesRight, FileRight
  <2>2. \A p, fn : Ran(p, fn) =
          {g \in UNION {FramesAt(ElfOf[p.test], a) : a \in Covered(p.test)} :
             <<g.file, g.function>> = fn}
    BY DEF Ran, FramesRun, Name
  <2>3. \A target, fn : Has(target, fn) <=> \E g \in target : <<g.file, g.function>> = fn
    BY DEF Has, Name
  <2>4. ASSUME NEW n \in DOMAIN info, NEW fn
        PROVE  /\ fn \in DOMAIN info[n].fnda =>
                    /\ info[n].fnda[fn] > 0
                    /\ \E p \in DOMAIN parts[n] :
                         Ran(p, fn) # {} /\ \A target \in p.targets : Has(target, fn)
               /\ (\E p \in DOMAIN parts[n] :
                     /\ \A target \in p.targets : Has(target, fn)
                     /\ \E g \in Ran(p, fn) : KeptBy(p, Where(g)))
                  => fn \in DOMAIN info[n].fnda
    BY <2>1 DEF FunctionsRight, RanThere
  <2> SUFFICES ASSUME NEW n \in DOMAIN info, NEW fn
               PROVE  LET ran(p) == {g \in UNION {FramesAt(ElfOf[p.test], a) :
                                                   a \in Covered(p.test)} :
                                       <<g.file, g.function>> = fn}
                          shown == fn \in DOMAIN info[n].fnda
                          has(target) == \E g \in target : <<g.file, g.function>> = fn
                      IN
                      /\ shown => /\ info[n].fnda[fn] > 0
                                  /\ \E p \in DOMAIN parts[n] :
                                       /\ ran(p) # {}
                                       /\ \A target \in p.targets : has(target)
                      /\ (\E p \in DOMAIN parts[n] :
                            /\ \A target \in p.targets : has(target)
                            /\ \E g \in ran(p) : KeptBy(p, Where(g))) => shown
    BY DEF FunctionsShown
  <2> QED
    BY ONLY <2>2, <2>3, <2>4
<1> QED
  BY <1>1, CoverageAlways, PTL

(* Whatever objdump or the line table failed at, a report made with        *)
(* inventories has every line the programs have code for (coverable.run,   *)
(* restrict.run).                                                          *)
THEOREM HonestDenominatorCorrect == Spec => []HonestDenominator
<1>1. ASSUME CoverageInv PROVE HonestDenominator
  <2> SUFFICES ASSUME NEW n \in DOMAIN info, NEW p \in DOMAIN parts[n],
                      p.declared # None \/ p.targets # {}
               PROVE  /\ info[n].lines # {}
                      /\ p.declared # None =>
                           {x \in {Where(f) : f \in AllFrames[ElfOf[p.test]]} :
                              KeptBy(p, x)} \subseteq info[n].lines
    BY DEF HonestDenominator
  <2>1. LinesRight(info[n], parts[n]) /\ DenominatorRight(info[n], parts[n])
    BY <1>1 DEF CoverageInv, FilesRight, FileRight
  <2>2. info[n].lines # {}
    BY <2>1 DEF DenominatorRight
  <2>3. ASSUME p.declared # None
        PROVE  {x \in LinesOfElf(ElfOf[p.test]) : KeptBy(p, x)} \subseteq info[n].lines
    <3>1. Declared(p) = LinesOfElf(ElfOf[p.test])
      BY <2>1, <2>3 DEF DenominatorRight
    <3>2. Counts(p) \subseteq info[n].lines
      BY <2>1 DEF LinesRight
    <3> QED
      BY <3>1, <3>2 DEF Counts
  <2> QED
    BY <2>2, <2>3 DEF LinesOfElf
<1> QED
  BY <1>1, CoverageAlways, PTL

-----------------------------------------------------------------------------
(* One branch of the source has one name, whichever program it is in: its  *)
(* block is the line that it jumps to.                                     *)

NamedAlike ==
  \A d, e \in Elfs : \A b \in Reported[d] : \A c \in Reported[e] :
    Origin[d][b.addr] = Origin[e][c.addr] => BranchOf(d, b) = BranchOf(e, c)

LEMMA NamesAlike == NamedAlike
<1> SUFFICES ASSUME NEW d \in Elfs, NEW e \in Elfs, NEW b \in Reported[d], NEW c \in Reported[e],
                    Origin[d][b.addr] = Origin[e][c.addr]
             PROVE  BranchOf(d, b) = BranchOf(e, c)
  BY DEF NamedAlike
<1>1. /\ Frames[d][b.addr][1].file = Frames[e][c.addr][1].file
      /\ LandsAlike(d, b.addr, e, c.addr) /\ LandsAlike(d, b.taken, e, c.taken)
      /\ ~Located(d, b.taken) => LandsAlike(d, b.fallthrough, e, c.fallthrough)
  BY OriginAssumption
<1>2. LineAt(d, b.addr) = LineAt(e, c.addr)
  BY <1>1 DEF LandsAlike, Reported
<1>3. block_number(d, b) = block_number(e, c)
  BY <1>1 DEF LandsAlike, block_number
<1> QED BY <1>1, <1>2, <1>3 DEF BranchOf

LEMMA OriginsAlike ==
  ASSUME NamedAlike, NEW e \in Elfs, NEW k \in Keys
  PROVE  {bp \in Reported[e] : Origin[e][bp.addr] \in OriginsOf[k]} = Alike(e, k)
<1>1. \A o : o \in OriginsOf[k] <=> \E d \in Elfs : \E b \in Reported[d] :
                                      KeyOf(d, b, k[4]) = k /\ o = Origin[d][b.addr]
  BY DEF OriginsOf
<1>2. \A d, b : KeyOf(d, b, k[4]) = k <=> Named(k) = BranchOf(d, b)
  BY KeyParts
<1>3. ASSUME NEW bp \in Reported[e]
      PROVE  Origin[e][bp.addr] \in OriginsOf[k] <=> BranchOf(e, bp) = Named(k)
  <2>1. ASSUME Origin[e][bp.addr] \in OriginsOf[k] PROVE BranchOf(e, bp) = Named(k)
    <3>1. PICK d, b : /\ d \in Elfs /\ b \in Reported[d] /\ Named(k) = BranchOf(d, b)
                      /\ Origin[e][bp.addr] = Origin[d][b.addr]
      BY <1>1, <1>2, <2>1
    <3>2. BranchOf(e, bp) = BranchOf(d, b)
      BY <3>1 DEF NamedAlike
    <3> QED BY <3>1, <3>2
  <2>2. ASSUME BranchOf(e, bp) = Named(k) PROVE Origin[e][bp.addr] \in OriginsOf[k]
    BY <1>1, <1>2, <2>2
  <2> QED BY <2>1, <2>2
<1> QED BY <1>3 DEF Alike

LEMMA WentIsGone ==
  ASSUME NamedAlike, RunRight, NEW t \in Tests, NEW k \in Keys
  PROVE  Went(t, k) = Gone(t, k)
<1> DEFINE S == {bp \in Reported[ElfOf[t]] : Origin[ElfOf[t]][bp.addr] \in OriginsOf[k]}
           w == GoingBy(t, k)
           Table(h) == [s \in SUBSET S |->
                          IF s = {} THEN 0
                          ELSE LET bp == CHOOSE q \in s : TRUE
                               IN  run[t].went[<<bp.addr, k[4]>>] + h[s \ {bp}]]
           g == CHOOSE h : h = Table(h)
<1>1. S = Alike(ElfOf[t], k)
  BY OriginsAlike, CoverageAssumption
<1>2. Weighs(w, S)
  <2>1. GoneRight(t, k)
    BY GoneIs, KeyParts
  <2> HIDE DEF S, w
  <2>2. Weighs(GoingBy(t, k), Alike(ElfOf[t], k))
    BY <2>1 DEF GoneRight
  <2> QED BY <1>1, <2>2 DEF w
<1>3. ASSUME NEW h
      PROVE  h = Table(h) <=> Solves(w, S, h)
  <2>1. \A s \in SUBSET S : s # {} => w[Pick(s)] = run[t].went[<<Pick(s).addr, k[4]>>]
    BY DEF GoingBy, WentWays, Pick
  <2>2. Table(h) = [s \in SUBSET S |-> IF s = {} THEN 0
                                       ELSE w[Pick(s)] + h[s \ {Pick(s)}]]
    <3> HIDE DEF S, w
    <3> QED BY <2>1 DEF Pick
  <2> QED BY <2>2 DEF Solves
<1>4. Went(t, k) = g[S]
  BY DEF Went, MapThenSumSet, MapThenFoldSet
<1> HIDE DEF w, Table, S
<1>5. \E h : h = Table(h)
  BY <1>2, <1>3, Solvable
<1>6. Solves(w, S, g)
  BY <1>3, <1>5
<1> HIDE DEF g
<1>7. Went(t, k) = SumOver(w, S)
  BY <1>2, <1>4, <1>6, SolutionIsSum
<1> QED BY <1>1, <1>7 DEF Gone, w

LEMMA DecidedIsRuled ==
  ASSUME NamedAlike, RunRight, NEW t \in Tests, NEW k \in Keys
  PROVE  Decided(t, k) <=> Ruled(t, k)
<1>1. Went(t, k) = Gone(t, k) /\ Went(t, Opposite(k)) = Gone(t, Opposite(k))
  BY WentIsGone, OppositeIs
<1> QED BY <1>1 DEF Decided, Ruled, Opposite

CountedParts(n, k) == {p \in DOMAIN parts[n] : p.branches /\ KeptBy(p, <<k[1], k[2]>>)}

LEMMA PartsFlow ==
  ASSUME NamedAlike, RunRight, NEW n, PartsRight(parts[n]), NEW k \in Keys
  PROVE  SumOfParts(n, LAMBDA p : IF p \in CountedParts(n, k) THEN Went(p.test, k) ELSE 0)
           = Flow(parts[n], k)
<1> DEFINE bag == parts[n]
           S == DOMAIN bag
           w == Weighted(bag, Flows(bag, k))
           of(p) == IF p \in CountedParts(n, k) THEN Went(p.test, k) ELSE 0
           sum == SumOfParts(n, LAMBDA p : IF p \in CountedParts(n, k)
                                           THEN Went(p.test, k) ELSE 0)
           Table(h) == [s \in SUBSET S |->
                          IF s = {} THEN 0
                          ELSE LET p == CHOOSE q \in s : TRUE
                               IN  (bag[p] * of(p)) + h[s \ {p}]]
           g == CHOOSE h : h = Table(h)
<1>1. Weighs(w, S)
  BY FlowIs, WeightedIs
<1>2. \A p \in S : of(p) = FlowAt(p, k)
  <2> TAKE p \in S
  <2>1. p.test \in Tests
    BY DEF PartsRight, IsPart
  <2>2. p \in CountedParts(n, k) <=> Counted(p, k)
    BY DEF CountedParts, Counted, At
  <2> QED BY <2>1, <2>2, WentIsGone DEF FlowAt
<1>3. sum = g[S]
  BY DEF SumOfParts, MapThenSumSet, MapThenFoldSet
<1> HIDE DEF of
<1>4. ASSUME NEW h
      PROVE  h = Table(h) <=> Solves(w, S, h)
  <2>1. \A s \in SUBSET S : s # {} => w[Pick(s)] = bag[Pick(s)] * of(Pick(s))
    <3> TAKE s \in SUBSET S
    <3>1. s # {} => Pick(s) \in S
      BY DEF Pick
    <3>2. \A p \in S : w[p] = bag[p] * of(p)
      BY <1>2 DEF Weighted, Flows
    <3> HIDE DEF w, S
    <3> QED BY <3>1, <3>2
  <2>2. Table(h) = [s \in SUBSET S |-> IF s = {} THEN 0
                                       ELSE w[Pick(s)] + h[s \ {Pick(s)}]]
    <3> HIDE DEF w
    <3> QED BY <2>1 DEF Pick
  <2> QED BY <2>2 DEF Solves
<1> HIDE DEF w, Table
<1>5. \E h : h = Table(h)
  BY <1>1, <1>4, Solvable
<1>6. Solves(w, S, g)
  BY <1>4, <1>5
<1> HIDE DEF g
<1>7. sum = SumOver(w, S)
  BY <1>1, <1>3, <1>6, SolutionIsSum
<1> QED BY <1>7 DEF Flow, BagSum, w

(***************************************************************************)
(* Whatever is merged with whatever, and whichever programs they come      *)
(* from, the outcomes of a branch are counted as often as the guest went   *)
(* that way in all the tests of a file together, '-' stands exactly where  *)
(* no test decided the branch, and no decided branch is missing            *)
(* (match_edges, block_number, load_branches, parse_info, restrict.run).   *)
(***************************************************************************)
THEOREM BranchesExactCorrect == Spec => []BranchesExact
<1>1. ASSUME CoverageInv PROVE BranchesExact
  <2> SUFFICES ASSUME NEW n \in DOMAIN info
               PROVE  LET br == info[n].br
                          counted(k) == {p \in DOMAIN parts[n] :
                                           p.branches /\ KeptBy(p, <<k[1], k[2]>>)}
                          decided(k) == \E p \in counted(k) : Decided(p.test, k)
                      IN
                      /\ DOMAIN br \subseteq Keys
                      /\ \A k \in DOMAIN br :
                           br[k] = IF ~decided(k) THEN Dash
                                   ELSE SumOfParts(n, LAMBDA p : IF p \in counted(k)
                                                                 THEN Went(p.test, k) ELSE 0)
                      /\ \A k \in Keys : decided(k) => k \in DOMAIN br
    BY DEF BranchesExact
  <2>1. RunRight /\ PartsRight(parts[n]) /\ BranchesRight(info[n], parts[n])
    BY <1>1 DEF CoverageInv, FilesRight, FileRight
  <2>2. ASSUME NEW k \in Keys
        PROVE  Settled(parts[n], k) <=> \E p \in CountedParts(n, k) : Decided(p.test, k)
    <3>1. \A p \in DOMAIN parts[n] :
            /\ Decided(p.test, k) <=> Ruled(p.test, k)
            /\ p \in CountedParts(n, k) <=> Counted(p, k)
      BY <2>1, NamesAlike, DecidedIsRuled DEF PartsRight, IsPart, CountedParts, Counted, At
    <3> QED BY <3>1 DEF Settled, Settles, CountedParts
  <2>3. ASSUME NEW k \in DOMAIN info[n].br
        PROVE  info[n].br[k] =
                 IF ~ \E p \in CountedParts(n, k) : Decided(p.test, k) THEN Dash
                 ELSE SumOfParts(n, LAMBDA p : IF p \in CountedParts(n, k)
                                               THEN Went(p.test, k) ELSE 0)
    <3>1. k \in Keys
      BY <2>1 DEF BranchesRight
    <3>2. info[n].br[k] = IF Settled(parts[n], k) THEN Flow(parts[n], k) ELSE Dash
      BY <2>1 DEF BranchesRight
    <3>3. SumOfParts(n, LAMBDA p : IF p \in CountedParts(n, k)
                                   THEN Went(p.test, k) ELSE 0) = Flow(parts[n], k)
      BY <2>1, <3>1, NamesAlike, PartsFlow
    <3> QED BY <2>2, <3>1, <3>2, <3>3
  <2>4. /\ DOMAIN info[n].br \subseteq Keys
        /\ \A k \in Keys : (\E p \in CountedParts(n, k) : Decided(p.test, k))
                           => k \in DOMAIN info[n].br
    BY <2>1, <2>2 DEF BranchesRight
  <2> QED BY <2>3, <2>4 DEF CountedParts
<1> QED
  BY <1>1, CoverageAlways, PTL
=============================================================================
