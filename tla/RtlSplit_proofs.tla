--------------------------- MODULE RtlSplit_proofs ---------------------------
(***************************************************************************)
(* On one vCPU the slices of split() are what the guest executed, for      *)
(* every set of objects, layout, base address and number of loads.         *)
(*                                                                         *)
(* SplitInv says why.  The chain of loaded objects and the map in force    *)
(* never give one address to two objects (ChainInv), and an object that    *)
(* may run is on that map unless nobody announced it (KnownInv).  Hence    *)
(* the map a record is tagged with either says nothing of its address or   *)
(* names the instruction that ran there (Agrees).  A map once recorded     *)
(* does not change, so the records already there keep their meaning        *)
(* (Tallied), the pending source belongs to the map in force (Pending),    *)
(* and each step adds as much to a slice as to what ran.                   *)
(*                                                                         *)
(* Capped: the objects fit the snapshot of plugin/tcgcov-rtems.c, which    *)
(* keeps RTL_MAX_OBJS of them.  Beyond it coverage is missing, but none is *)
(* made up: NothingInvented is proved without it.                          *)
(***************************************************************************)
EXTENDS RtlSplit, DataTheorems

(***************************************************************************)
(* The map in force.  MapInForce is not inductive: the reason it survives  *)
(* dlclose is that an object leaves the chain before its addresses can be  *)
(* given away, and the reason it survives dlopen is that by then a new map *)
(* has been recorded.  MapInv says so: what is on the chain is apart from  *)
(* what the current map holds (Apart), and while objects may be added the  *)
(* map holds nothing that is off the chain (Fresh).                        *)
(***************************************************************************)
CurrentMap == MapOf(rtl_generation)

Apart ==
  \A p \in Chain : \A q \in Chain \union CurrentMap :
    p # q => Occupied(p) \intersect Occupied(q) = {}
Fresh  == stage = "idle" \/ r_state = "add" => CurrentMap \subseteq Chain
AtRest == stage = "idle" => r_state = "consistent"

MapTypes ==
  /\ r_map \in Seq(Placed)
  /\ rtl_generation \in Nat
  /\ rtl_snaps \in Seq(SUBSET Placed) /\ Len(rtl_snaps) = rtl_generation
  /\ stage \in {"idle", "call", "work"}
  /\ r_state \in {"consistent", "add", "delete"}
  /\ loader \in Vcpus
  /\ cur_ctx \in [Vcpus -> Nat]

Tagged == \A v \in Vcpus : cur_ctx[v] = rtl_generation

MapInv == MapTypes /\ Tagged /\ Apart /\ Fresh /\ AtRest

chainVars == <<r_map, r_state, stage, rtl_generation, rtl_snaps>>

(* Adding to and removing from a chain.                                    *)
LEMMA AppendChain ==
  ASSUME NEW seq \in Seq(Placed), NEW p \in Placed
  PROVE  /\ Append(seq, p) \in Seq(Placed)
         /\ {Append(seq, p)[i] : i \in DOMAIN Append(seq, p)}
              = {seq[i] : i \in DOMAIN seq} \union {p}
<1>1. Append(seq, p) \in Seq(Placed)
  OBVIOUS
<1>2. DOMAIN Append(seq, p) = DOMAIN seq \union {Len(seq) + 1}
  OBVIOUS
<1>3. \A i \in DOMAIN seq : Append(seq, p)[i] = seq[i]
  OBVIOUS
<1>4. Append(seq, p)[Len(seq) + 1] = p
  OBVIOUS
<1> QED
  BY <1>1, <1>2, <1>3, <1>4

LEMMA WithoutChain ==
  ASSUME NEW seq \in Seq(Placed), NEW i \in DOMAIN seq
  PROVE  /\ Without(seq, i) \in Seq(Placed)
         /\ {Without(seq, i)[j] : j \in DOMAIN Without(seq, i)}
              \subseteq {seq[j] : j \in DOMAIN seq}
<1>1. /\ i \in 1 .. Len(seq) /\ Len(seq) \in Nat /\ Len(seq) - 1 \in Nat
      /\ DOMAIN seq = 1 .. Len(seq)
      /\ \A j \in DOMAIN seq : seq[j] \in Placed
  OBVIOUS
<1>2. \A j \in 1 .. Len(seq) - 1 : (IF j < i THEN j ELSE j + 1) \in DOMAIN seq
  BY <1>1
<1>3. DOMAIN Without(seq, i) = 1 .. Len(seq) - 1
  BY DEF Without
<1>4. \A j \in 1 .. Len(seq) - 1 :
        Without(seq, i)[j] = seq[IF j < i THEN j ELSE j + 1]
  BY DEF Without
<1>5. Without(seq, i) \in [1 .. Len(seq) - 1 -> Placed]
  BY <1>1, <1>2 DEF Without
<1>6. Without(seq, i) \in Seq(Placed)
  BY <1>1, <1>5
<1> QED
  BY <1>2, <1>3, <1>4, <1>6

LEMMA SnapshotOnChain ==
  ASSUME r_map \in Seq(Placed), LoaderAssumption
  PROVE  Snapshot \subseteq Chain
<1>1. Len(r_map) \in Nat /\ RTL_MAX_OBJS \in Nat /\ DOMAIN r_map = 1 .. Len(r_map)
  BY DEF LoaderAssumption
<1> QED
  BY <1>1 DEF Snapshot, Chain

LEMMA ChainPlaced ==
  ASSUME r_map \in Seq(Placed)
  PROVE  Chain \subseteq Placed
  BY DEF Chain

(* A step that leaves chain, maps and stage alone.                         *)
LEMMA MapsUntouched ==
  MapInv /\ UNCHANGED <<chainVars, loader, cur_ctx>> => MapInv'
<1> SUFFICES ASSUME MapInv, UNCHANGED <<chainVars, loader, cur_ctx>>
             PROVE  MapInv'
  OBVIOUS
<1>1. /\ r_map' = r_map /\ r_state' = r_state /\ stage' = stage
      /\ rtl_generation' = rtl_generation /\ rtl_snaps' = rtl_snaps
      /\ loader' = loader /\ cur_ctx' = cur_ctx
  BY DEF chainVars
<1>2. Chain' = Chain /\ CurrentMap' = CurrentMap
  BY <1>1 DEF Chain, CurrentMap, MapOf
<1> QED
  BY <1>1, <1>2 DEF MapInv, MapTypes, Tagged, Apart, Fresh, AtRest

(* A new generation is tagged by the vCPU that made it; the map recorded   *)
(* for it holds nothing that is off the chain.                             *)
LEMMA BumpedMap ==
  ASSUME LoaderAssumption, MapInv, Bump, r_map' = r_map
  PROVE  /\ rtl_generation' = rtl_generation + 1
         /\ rtl_snaps' \in Seq(SUBSET Placed)
         /\ Len(rtl_snaps') = rtl_generation'
         /\ CurrentMap' = Snapshot /\ Snapshot \subseteq Chain
<1>1. /\ rtl_generation \in Nat /\ rtl_snaps \in Seq(SUBSET Placed)
      /\ Len(rtl_snaps) = rtl_generation /\ r_map \in Seq(Placed)
  BY DEF MapInv, MapTypes
<1>2. Snapshot \subseteq Chain /\ Snapshot \in SUBSET Placed
  BY <1>1, SnapshotOnChain, ChainPlaced
<1>3. /\ rtl_generation' = rtl_generation + 1
      /\ rtl_snaps' = Append(rtl_snaps, Snapshot)
  BY DEF Bump
<1>4. /\ rtl_snaps' \in Seq(SUBSET Placed)
      /\ Len(rtl_snaps') = rtl_generation + 1
      /\ rtl_snaps'[rtl_generation + 1] = Snapshot
      /\ DOMAIN rtl_snaps' = 1 .. rtl_generation + 1
  BY <1>1, <1>2, <1>3
<1>5. CurrentMap' = Snapshot
  BY <1>1, <1>3, <1>4 DEF CurrentMap, MapOf
<1> QED
  BY <1>2, <1>3, <1>4, <1>5

LEMMA TaggedAlone ==
  ASSUME NEW u, Vcpus = {u}, NEW v \in Vcpus, cur_ctx \in [Vcpus -> Nat],
         rtl_generation' \in Nat, Tag(v)
  PROVE  cur_ctx' \in [Vcpus -> Nat] /\ Tagged'
  BY DEF Tag, Tagged

LEMMA MapInit == LoaderAssumption /\ Init => MapInv
<1> SUFFICES ASSUME LoaderAssumption, Init PROVE MapInv
  OBVIOUS
<1>1. Chain = {} /\ CurrentMap = {}
  BY DEF Init, Chain, CurrentMap, MapOf
<1> QED
  BY <1>1 DEF Init, MapInv, MapTypes, Tagged, Apart, Fresh, AtRest

THEOREM MapStep ==
  ASSUME LoaderAssumption, NEW u, Vcpus = {u}, MapInv, [Next]_vars
  PROVE  MapInv'
<1> USE DEF chainVars
<1>0. /\ r_map \in Seq(Placed) /\ rtl_generation \in Nat
      /\ cur_ctx \in [Vcpus -> Nat] /\ loader \in Vcpus
      /\ stage \in {"idle", "call", "work"}
      /\ r_state \in {"consistent", "add", "delete"}
  BY DEF MapInv, MapTypes
<1>1. ASSUME NEW v \in Vcpus, NEW a \in Addresses, Execute(v, a)
      PROVE  MapInv'
  BY <1>1, MapsUntouched DEF Execute, rtld, plugin
<1>2. ASSUME NEW v \in Vcpus, BeginLoad(v)
      PROVE  MapInv'
  <2>1. /\ stage = "idle" /\ loader' = v /\ r_state' = "add"
        /\ stage' = "call" /\ r_map' = r_map /\ cur_ctx' = cur_ctx
        /\ rtl_generation' = rtl_generation /\ rtl_snaps' = rtl_snaps
    BY <1>2 DEF BeginLoad, plugin
  <2>2. Chain' = Chain /\ CurrentMap' = CurrentMap
    BY <2>1 DEF Chain, CurrentMap, MapOf
  <2> QED
    BY <2>1, <2>2 DEF MapInv, MapTypes, Tagged, Apart, Fresh, AtRest
<1>3. ASSUME NEW v \in Vcpus, NEW D \in SUBSET Objects, BeginUnload(v, D)
      PROVE  MapInv'
  <2>1. /\ stage = "idle" /\ loader' = v /\ r_state' = "delete"
        /\ stage' = "call" /\ r_map' = r_map /\ cur_ctx' = cur_ctx
        /\ rtl_generation' = rtl_generation /\ rtl_snaps' = rtl_snaps
    BY <1>3 DEF BeginUnload, plugin
  <2>2. Chain' = Chain /\ CurrentMap' = CurrentMap
    BY <2>1 DEF Chain, CurrentMap, MapOf
  <2> QED
    BY <2>1, <2>2 DEF MapInv, MapTypes, Tagged, Apart, Fresh, AtRest
<1>4. CASE NotifyState
  <2>1. /\ stage = "call" /\ r_state' = r_state /\ r_map' = r_map
        /\ loader' = loader /\ Tag(loader)
        /\ stage' = IF r_state = "consistent" THEN "idle" ELSE "work"
    BY <1>4 DEF NotifyState, vcpu_rtl_state
  <2>2. Chain' = Chain
    BY <2>1 DEF Chain
  <2>3. CASE r_state = "consistent"
    <3>1. Bump
      BY <1>4, <2>3 DEF NotifyState, vcpu_rtl_state
    <3>2. /\ rtl_generation' = rtl_generation + 1
          /\ rtl_snaps' \in Seq(SUBSET Placed)
          /\ Len(rtl_snaps') = rtl_generation'
          /\ CurrentMap' = Snapshot /\ Snapshot \subseteq Chain
      BY <2>1, <3>1, BumpedMap
    <3>21. rtl_generation' \in Nat
      BY <1>0, <3>2
    <3>3. cur_ctx' \in [Vcpus -> Nat] /\ Tagged'
      BY <1>0, <2>1, <3>21, TaggedAlone
    <3>4. stage' = "idle"
      BY <2>1, <2>3
    <3>5. MapTypes'
      BY <1>0, <2>1, <3>2, <3>3, <3>4 DEF MapTypes
    <3>6. Apart' /\ Fresh' /\ AtRest'
      BY <2>1, <2>2, <2>3, <3>2, <3>4 DEF MapInv, Apart, Fresh, AtRest
    <3> QED
      BY <3>3, <3>5, <3>6 DEF MapInv
  <2>4. CASE r_state # "consistent"
    <3>1. rtl_generation' = rtl_generation /\ rtl_snaps' = rtl_snaps
      BY <1>4, <2>4 DEF NotifyState, vcpu_rtl_state
    <3>2. CurrentMap' = CurrentMap
      BY <3>1 DEF CurrentMap, MapOf
    <3>3. cur_ctx' \in [Vcpus -> Nat] /\ Tagged'
      BY <1>0, <2>1, <3>1, TaggedAlone
    <3>4. stage' = "work"
      BY <2>1, <2>4
    <3>5. MapTypes'
      BY <2>1, <3>1, <3>3, <3>4 DEF MapInv, MapTypes
    <3>6. Apart' /\ Fresh' /\ AtRest'
      BY <2>1, <2>2, <3>2, <3>4 DEF MapInv, Apart, Fresh, AtRest
    <3> QED
      BY <3>3, <3>5, <3>6 DEF MapInv
  <2> QED
    BY <2>3, <2>4
<1>5. ASSUME NEW p \in Placed, Link(p)
      PROVE  MapInv'
  <2>1. /\ stage = "work" /\ r_state = "add" /\ r_map' = Append(r_map, p)
        /\ \A q \in Chain : Occupied(p) \intersect Occupied(q) = {}
        /\ stage' = stage /\ r_state' = r_state /\ loader' = loader
        /\ cur_ctx' = cur_ctx
        /\ rtl_generation' = rtl_generation /\ rtl_snaps' = rtl_snaps
    BY <1>5 DEF Link, plugin
  <2>11. /\ Append(r_map, p) \in Seq(Placed)
         /\ {Append(r_map, p)[i] : i \in DOMAIN Append(r_map, p)}
              = {r_map[i] : i \in DOMAIN r_map} \union {p}
    BY <1>0, AppendChain
  <2>2. r_map' \in Seq(Placed) /\ Chain' = Chain \union {p}
    BY <2>1, <2>11 DEF Chain
  <2>3. CurrentMap' = CurrentMap /\ CurrentMap \subseteq Chain
    BY <2>1 DEF CurrentMap, MapOf, MapInv, Fresh
  <2>4. MapTypes' /\ Tagged' /\ AtRest' /\ Fresh'
    BY <2>1, <2>2, <2>3 DEF MapInv, MapTypes, Tagged, Fresh, AtRest
  <2>5. Apart'
    BY <2>1, <2>2, <2>3 DEF MapInv, Apart
  <2> QED
    BY <2>4, <2>5 DEF MapInv
<1>6. ASSUME NEW o \in Objects, NotifyLoad(o)
      PROVE  MapInv'
  <2>1. /\ stage = "work" /\ r_state = "add" /\ r_map' = r_map
        /\ stage' = stage /\ r_state' = r_state /\ loader' = loader
        /\ Bump /\ Tag(loader)
    BY <1>6 DEF NotifyLoad, NextConstructors, vcpu_rtl_load
  <2>2. /\ rtl_generation' = rtl_generation + 1
        /\ rtl_snaps' \in Seq(SUBSET Placed)
        /\ Len(rtl_snaps') = rtl_generation'
        /\ CurrentMap' = Snapshot /\ Snapshot \subseteq Chain
    BY <2>1, BumpedMap
  <2>21. rtl_generation' \in Nat
    BY <1>0, <2>2
  <2>3. cur_ctx' \in [Vcpus -> Nat] /\ Tagged'
    BY <1>0, <2>1, <2>21, TaggedAlone
  <2>4. Chain' = Chain
    BY <2>1 DEF Chain
  <2>5. MapTypes'
    BY <1>0, <2>1, <2>2, <2>3 DEF MapTypes
  <2>6. Apart' /\ Fresh' /\ AtRest'
    BY <2>1, <2>2, <2>4 DEF MapInv, Apart, Fresh, AtRest
  <2> QED
    BY <2>3, <2>5, <2>6 DEF MapInv
<1>7. ASSUME NEW o \in Objects, StartConstructors(o)
      PROVE  MapInv'
  BY <1>7, MapsUntouched DEF StartConstructors, NextConstructors, plugin
<1>8. ASSUME NEW i \in DOMAIN r_map, Unlink(i)
      PROVE  MapInv'
  <2>1. /\ stage = "work" /\ r_state = "delete"
        /\ r_map' = Without(r_map, i)
        /\ stage' = stage /\ r_state' = r_state /\ loader' = loader
        /\ cur_ctx' = cur_ctx
        /\ rtl_generation' = rtl_generation /\ rtl_snaps' = rtl_snaps
    BY <1>8 DEF Unlink, plugin
  <2>11. /\ Without(r_map, i) \in Seq(Placed)
         /\ {Without(r_map, i)[j] : j \in DOMAIN Without(r_map, i)}
              \subseteq {r_map[j] : j \in DOMAIN r_map}
    <3>1. r_map \in Seq(Placed)
      BY <1>0
    <3> QED
      BY ONLY <3>1, <1>8, WithoutChain
  <2>2. r_map' \in Seq(Placed) /\ Chain' \subseteq Chain
    BY <2>1, <2>11 DEF Chain
  <2>3. CurrentMap' = CurrentMap
    BY <2>1 DEF CurrentMap, MapOf
  <2>4. MapTypes' /\ Tagged' /\ AtRest' /\ Fresh'
    BY <2>1, <2>2 DEF MapInv, MapTypes, Tagged, Fresh, AtRest
  <2>5. Apart'
    BY <2>2, <2>3 DEF MapInv, Apart
  <2> QED
    BY <2>4, <2>5 DEF MapInv
<1>9. CASE Finish
  <2>1. /\ r_state' = "consistent" /\ stage' = "call" /\ r_map' = r_map
        /\ loader' = loader /\ cur_ctx' = cur_ctx
        /\ rtl_generation' = rtl_generation /\ rtl_snaps' = rtl_snaps
    BY <1>9 DEF Finish, plugin
  <2>2. Chain' = Chain /\ CurrentMap' = CurrentMap
    BY <2>1 DEF Chain, CurrentMap, MapOf
  <2> QED
    BY <2>1, <2>2 DEF MapInv, MapTypes, Tagged, Apart, Fresh, AtRest
<1>10. CASE UNCHANGED vars
  BY <1>10, MapsUntouched DEF vars, rtld, plugin
<1> QED
  BY <1>1, <1>2, <1>3, <1>4, <1>5, <1>6, <1>7, <1>8, <1>9, <1>10 DEF Next

LEMMA MapInForceFromInv ==
  ASSUME LoaderAssumption, MapInv
  PROVE  MapInForce
<1> SUFFICES ASSUME NEW v \in Vcpus, NEW a \in Runnable(v),
                    NEW p \in MapOf(cur_ctx[v]), a \in Occupied(p)
             PROVE  p \in Chain
  BY DEF MapInForce
<1>1. MapOf(cur_ctx[v]) = CurrentMap
  BY DEF MapInv, Tagged, CurrentMap
<1>2. p \in Placed
  BY DEF MapInv, MapTypes, MapOf
<1>3. a \in ModuleCode
  BY <1>2 DEF ModuleCode
<1>4. a \notin BaseCode
  BY <1>3 DEF LoaderAssumption
<1>5. PICK q \in Chain : a \in Occupied(q)
  BY <1>4 DEF Runnable
<1>6. Occupied(q) \intersect Occupied(p) # {}
  BY <1>5
<1>7. q = p
  BY <1>1, <1>5, <1>6 DEF MapInv, Apart
<1> QED
  BY <1>5, <1>7

(* With one vCPU, whatever the map in force says is at an address the vCPU *)
(* can run is really there (plugin/tcgcov-rtems.c, vcpu_rtl_state).        *)
THEOREM MapInForceCorrect ==
  ASSUME LoaderAssumption, NEW CONSTANT u, Vcpus = {u}
  PROVE  Spec => []MapInForce
<1>1. Init => MapInv
  BY MapInit
<1>2. MapInv /\ [Next]_vars => MapInv'
  BY MapStep
<1>3. MapInv => MapInForce
  BY MapInForceFromInv
<1> QED
  BY <1>1, <1>2, <1>3, PTL DEF Spec

(***************************************************************************)
(* Bags.                                                                   *)
(***************************************************************************)
FiniteBag(B) == /\ B = [x \in DOMAIN B |-> B[x]]
                /\ IsFiniteSet(DOMAIN B)
                /\ \A x \in DOMAIN B : B[x] \in Nat

LEMMA CopiesNat ==
  ASSUME NEW B, FiniteBag(B), NEW x
  PROVE  Copies(x, B) \in Nat
  BY DEF Copies, BagToSet, FiniteBag

LEMMA OneMore ==
  ASSUME NEW B, FiniteBag(B), NEW y
  PROVE  /\ FiniteBag(B (+) One(y))
         /\ DOMAIN (B (+) One(y)) = DOMAIN B \union {y}
         /\ \A x : Copies(x, B (+) One(y))
                     = Copies(x, B) + IF x = y THEN 1 ELSE 0
<1>1. One(y) = [e \in {y} |-> 1]
  BY DEF One, SetToBag
<1>2. DOMAIN (B (+) One(y)) = DOMAIN B \union {y}
  BY <1>1 DEF (+)
<1>3. \A x \in DOMAIN B \union {y} :
        (B (+) One(y))[x] = (IF x \in DOMAIN B THEN B[x] ELSE 0)
                              + IF x = y THEN 1 ELSE 0
  BY <1>1 DEF (+)
<1>4. IsFiniteSet(DOMAIN B \union {y})
  BY FS_AddElement DEF FiniteBag
<1>5. FiniteBag(B (+) One(y))
  <2>1. B (+) One(y) = [x \in DOMAIN (B (+) One(y)) |-> (B (+) One(y))[x]]
    BY DEF (+)
  <2>2. \A x \in DOMAIN (B (+) One(y)) : (B (+) One(y))[x] \in Nat
    BY <1>2, <1>3 DEF FiniteBag
  <2> QED
    BY <1>2, <1>4, <2>1, <2>2 DEF FiniteBag
<1>6. ASSUME NEW x
      PROVE  Copies(x, B (+) One(y)) = Copies(x, B) + IF x = y THEN 1 ELSE 0
  <2>1. Copies(x, B) \in Nat
    BY CopiesNat
  <2> QED
    BY <1>2, <1>3, <2>1 DEF Copies, BagToSet
<1> QED
  BY <1>2, <1>5, <1>6

LEMMA NoCopies == FiniteBag(EmptyBag) /\ \A x : Copies(x, EmptyBag) = 0
<1>1. EmptyBag = [e \in {} |-> 1]
  BY DEF EmptyBag, SetToBag
<1>2. FiniteBag(EmptyBag)
  BY <1>1, FS_EmptySet DEF FiniteBag
<1> QED
  BY <1>1, <1>2 DEF Copies, BagToSet

Weights(S, B) == [x \in S |-> Copies(x, B)]

LEMMA TotalIsSum ==
  ASSUME NEW S, IsFiniteSet(S), NEW B, FiniteBag(B)
  PROVE  /\ Weighs(Weights(S, B), S)
         /\ Total(S, B) = SumOver(Weights(S, B), S)
         /\ Total(S, B) \in Nat
<1> DEFINE w == Weights(S, B)
           Table(h) == [s \in SUBSET S |->
                          IF s = {} THEN 0
                          ELSE LET x == CHOOSE y \in s : TRUE
                               IN  Copies(x, B) + h[s \ {x}]]
           g == CHOOSE h : h = Table(h)
<1>1. Weighs(w, S)
  BY CopiesNat DEF Weighs, Weights
<1>2. ASSUME NEW h
      PROVE  h = Table(h) <=> Solves(w, S, h)
  <2>1. \A s \in SUBSET S : s # {} => w[Pick(s)] = Copies(Pick(s), B)
    BY DEF Weights, Pick
  <2>2. Table(h) = [s \in SUBSET S |-> IF s = {} THEN 0
                                       ELSE w[Pick(s)] + h[s \ {Pick(s)}]]
    BY <2>1 DEF Pick
  <2> QED
    BY <2>2 DEF Solves
<1>3. Total(S, B) = g[S]
  BY DEF Total, MapThenSumSet, MapThenFoldSet
<1> HIDE DEF w, Table
<1>4. \E h : h = Table(h)
  BY <1>1, <1>2, Solvable
<1>5. Solves(w, S, g)
  BY <1>2, <1>4
<1> HIDE DEF g
<1>6. Total(S, B) = SumOver(w, S)
  BY <1>1, <1>3, <1>5, SolutionIsSum
<1> QED
  BY <1>1, <1>6, SumType DEF w

LEMMA TotalGrows ==
  ASSUME NEW S, IsFiniteSet(S), NEW B, FiniteBag(B), NEW y
  PROVE  Total(S, B (+) One(y)) = Total(S, B) + IF y \in S THEN 1 ELSE 0
<1> DEFINE B2 == B (+) One(y)
           v  == Weights(S, B2)
           w  == Weights(S, B)
<1>1. \A x \in S : v[x] = w[x] + IF x = y THEN 1 ELSE 0
  BY OneMore DEF Weights
<1>2. Weighs(w, S)
  BY TotalIsSum
<1>21. SumOver(w, S) \in Nat
  BY <1>2, SumType
<1>3. Total(S, B2) = SumOver(v, S) /\ Total(S, B) = SumOver(w, S)
  BY TotalIsSum, OneMore
<1>4. CASE y \in S
  <2>0. v[y] = w[y] + 1
    BY <1>1, <1>4
  <2>1. \A x \in S \ {y} : v[x] = w[x]
    BY <1>1, <1>2 DEF Weighs
  <2> HIDE DEF v, w, B2
  <2>2. SumOver(v, S) = SumOver(w, S) + 1
    BY ONLY <1>2, <1>4, <2>0, <2>1, SumBump
  <2>3. (IF y \in S THEN 1 ELSE 0) = 1
    BY <1>4
  <2>4. Total(S, B2) = Total(S, B) + 1
    BY <1>3, <2>2
  <2> QED
    BY <2>3, <2>4 DEF B2
<1>5. CASE y \notin S
  <2>1. \A x \in S : v[x] = w[x]
    BY <1>1, <1>2, <1>5 DEF Weighs
  <2> HIDE DEF v, w, B2
  <2>2. SumOver(v, S) = SumOver(w, S)
    BY <1>2, <2>1, SumSame
  <2> QED
    BY <1>21, <1>3, <1>5, <2>2 DEF B2
<1> QED
  BY <1>4, <1>5

(* The same for what a bag holds of a kind.                                *)
LEMMA KindGrows ==
  ASSUME NEW B, FiniteBag(B), NEW y, NEW S, NEW T,
         S = T \intersect DOMAIN B, T \subseteq DOMAIN B \union {y}
  PROVE  Total(T, B (+) One(y)) = Total(S, B) + IF y \in T THEN 1 ELSE 0
<1>1. IsFiniteSet(DOMAIN B \union {y})
  BY FS_AddElement DEF FiniteBag
<1>2. IsFiniteSet(T)
  BY <1>1, FS_Subset
<1>3. Total(T, B (+) One(y)) = Total(T, B) + IF y \in T THEN 1 ELSE 0
  BY <1>2, TotalGrows
<1>4. Total(T, B) = Total(S, B)
  <2>1. Weighs(Weights(T, B), T)
    BY <1>2, TotalIsSum
  <2>2. S \subseteq T /\ \A x \in T \ S : Weights(T, B)[x] = 0
    BY DEF Weights, Copies, BagToSet
  <2>3. /\ Weighs(Weights(T, B), S)
        /\ SumOver(Weights(T, B), S) = SumOver(Weights(T, B), T)
    BY <2>1, <2>2, SumIgnores
  <2>4. \A x \in S : Weights(S, B)[x] = Weights(T, B)[x]
    BY <2>2 DEF Weights
  <2>5. SumOver(Weights(S, B), S) = SumOver(Weights(T, B), S)
    BY <2>3, <2>4, SumSame
  <2>6. IsFiniteSet(S)
    BY <1>2, <2>2, FS_Subset
  <2>7. Total(S, B) = SumOver(Weights(S, B), S)
    BY <2>6, TotalIsSum
  <2>8. Total(T, B) = SumOver(Weights(T, B), T)
    BY <1>2, TotalIsSum
  <2> QED
    BY <2>3, <2>5, <2>7, <2>8
<1> QED
  BY <1>3, <1>4

LEMMA EmptyTotal ==
  ASSUME NEW S
  PROVE  IsFiniteSet(S) => Total(S, EmptyBag) = 0
<1> SUFFICES ASSUME IsFiniteSet(S) PROVE Total(S, EmptyBag) = 0
  OBVIOUS
<1>1. \A x \in S : Weights(S, EmptyBag)[x] = 0
  BY NoCopies DEF Weights
<1>2. SumOver(Weights(S, EmptyBag), S) = 0
  BY <1>1, SumZero
<1> QED
  BY <1>2, TotalIsSum, NoCopies

(***************************************************************************)
(* Windows.                                                                *)
(***************************************************************************)
ApartIn(M) ==
  \A p, q \in M : p # q => /\ p.obj # q.obj
                           /\ Occupied(p) \intersect Occupied(q) = {}

WindowsOf(M) == UNION {object_windows(p) : p \in M}
WindowAt(p, s) ==
  [obj |-> p.obj, sec |-> s, start |-> p.base + Lowest(Layout[p.obj][s])]

LEMMA PlacedParts ==
  ASSUME LoaderAssumption, NEW p \in Placed
  PROVE  /\ p.obj \in Objects /\ p.base \in Nat /\ p.base \in Bases[p.obj]
         /\ p = [obj |-> p.obj, base |-> p.base]
         /\ DOMAIN Layout[p.obj] \subseteq Sections
<1>1. PICK o \in Objects : p \in [obj : {o}, base : Bases[o]]
  BY DEF Placed
<1>2. Bases[o] \subseteq Nat
  BY DEF LoaderAssumption
<1> QED
  BY <1>1, <1>2 DEF LoaderAssumption

LEMMA SectionRange ==
  ASSUME LoaderAssumption, SplitAssumption,
         NEW o \in Objects, NEW s \in DOMAIN Layout[o]
  PROVE  /\ Lowest(Layout[o][s]) \in Nat
         /\ Cardinality(Layout[o][s]) \in Nat \ {0}
         /\ Layout[o][s]
              = Lowest(Layout[o][s])
                  .. Lowest(Layout[o][s]) + Cardinality(Layout[o][s]) - 1
<1> DEFINE L == Layout[o][s]
<1>1. /\ L \subseteq Nat /\ L # {} /\ IsFiniteSet(L)
      /\ L = Lowest(L) .. Lowest(L) + Cardinality(L) - 1
  BY DEF LoaderAssumption, SplitAssumption
<1>2. Cardinality(L) \in Nat \ {0}
  BY <1>1, FS_CardinalityType, FS_EmptySet
<1>3. IsWellFoundedOn(OpToRel(<, Nat), Nat)
  BY NatLessThanWellFounded
<1>4. PICK i \in L : \A j \in L : <<j, i>> \notin OpToRel(<, Nat)
  BY <1>1, <1>3, WFMin
<1>5. ASSUME NEW j \in L
      PROVE  i <= j
  <2>1. i \in Nat /\ j \in Nat
    BY <1>1
  <2>2. j < i => <<j, i>> \in OpToRel(<, Nat)
    BY <2>1 DEF OpToRel
  <2>3. ~(j < i)
    BY <1>4, <2>2
  <2> QED
    BY <2>1, <2>3
<1>6. Lowest(L) \in L
  BY <1>5 DEF Lowest
<1> QED
  BY <1>1, <1>2, <1>6

LEMMA WindowRange ==
  ASSUME LoaderAssumption, SplitAssumption,
         NEW p \in Placed, NEW s \in DOMAIN Layout[p.obj], NEW a \in Nat
  PROVE  a \in CodeOf(WindowAt(p, s))
           <=> \E i \in Layout[p.obj][s] : a = p.base + i
<1> DEFINE L == Layout[p.obj][s]
<1>1. /\ p.obj \in Objects /\ p.base \in Nat
      /\ Lowest(L) \in Nat /\ Cardinality(L) \in Nat \ {0}
      /\ L = Lowest(L) .. Lowest(L) + Cardinality(L) - 1
  BY PlacedParts, SectionRange
<1>2. CodeOf(WindowAt(p, s))
        = {p.base + Lowest(L) + i : i \in 0 .. Cardinality(L) - 1}
  BY DEF CodeOf, WindowAt
<1> HIDE DEF L
<1>3. ASSUME NEW i \in 0 .. Cardinality(L) - 1
      PROVE  /\ Lowest(L) + i \in L
             /\ p.base + Lowest(L) + i = p.base + (Lowest(L) + i)
  BY <1>1
<1>4. ASSUME NEW i \in L
      PROVE  /\ i - Lowest(L) \in 0 .. Cardinality(L) - 1
             /\ p.base + i = p.base + Lowest(L) + (i - Lowest(L))
  <2>1. i \in Lowest(L) .. Lowest(L) + Cardinality(L) - 1
    BY <1>1
  <2> QED
    BY ONLY <1>1, <2>1
<1>5. ASSUME a \in CodeOf(WindowAt(p, s))
      PROVE  \E i \in L : a = p.base + i
  <2>1. PICK i \in 0 .. Cardinality(L) - 1 : a = p.base + Lowest(L) + i
    BY <1>2, <1>5
  <2> QED
    BY <1>3, <2>1
<1>6. ASSUME NEW i \in L, a = p.base + i
      PROVE  a \in CodeOf(WindowAt(p, s))
  BY <1>2, <1>4, <1>6
<1> QED
  BY <1>5, <1>6 DEF L

LEMMA WindowsThere ==
  ASSUME LoaderAssumption, SplitAssumption, NEW M \in SUBSET Placed, NEW w
  PROVE  w \in WindowsOf(M)
           <=> \E p \in M : \E s \in DOMAIN Layout[p.obj] : w = WindowAt(p, s)
  BY DEF WindowsOf, object_windows, WindowAt

LEMMA InsideObject ==
  ASSUME LoaderAssumption, SplitAssumption,
         NEW p \in Placed, NEW s \in DOMAIN Layout[p.obj]
  PROVE  CodeOf(WindowAt(p, s)) \subseteq Occupied(p)
<1>1. CodeOf(WindowAt(p, s)) \subseteq Nat
  <2>1. p.base \in Nat /\ Lowest(Layout[p.obj][s]) \in Nat
    BY PlacedParts, SectionRange
  <2>2. Cardinality(Layout[p.obj][s]) \in Nat
    BY PlacedParts, SectionRange
  <2> QED
    BY <2>1, <2>2 DEF CodeOf, WindowAt
<1>2. Layout[p.obj][s] \subseteq Offsets(p.obj)
  BY DEF Offsets
<1> QED
  BY <1>1, <1>2, WindowRange DEF Occupied

(* In a map whose objects are apart an address is in one window at most.   *)
LEMMA OneWindow ==
  ASSUME LoaderAssumption, SplitAssumption,
         NEW M \in SUBSET Placed, ApartIn(M),
         NEW v \in WindowsOf(M), NEW w \in WindowsOf(M), NEW a \in Nat,
         a \in CodeOf(v), a \in CodeOf(w)
  PROVE  v = w
<1>1. PICK p \in M : \E s \in DOMAIN Layout[p.obj] : v = WindowAt(p, s)
  BY WindowsThere
<1>2. PICK s \in DOMAIN Layout[p.obj] : v = WindowAt(p, s)
  BY <1>1
<1>3. PICK q \in M : \E t \in DOMAIN Layout[q.obj] : w = WindowAt(q, t)
  BY WindowsThere
<1>4. PICK t \in DOMAIN Layout[q.obj] : w = WindowAt(q, t)
  BY <1>3
<1>5. a \in Occupied(p) /\ a \in Occupied(q)
  BY <1>2, <1>4, InsideObject
<1>6. p = q
  BY <1>5 DEF ApartIn
<1>7. PICK i \in Layout[p.obj][s] : a = p.base + i
  BY <1>2, WindowRange
<1>8. PICK j \in Layout[p.obj][t] : a = p.base + j
  BY <1>4, <1>6, WindowRange
<1>9. i = j
  <2>1. p.base \in Nat /\ p.obj \in Objects
    BY PlacedParts
  <2>2. i \in Nat /\ j \in Nat
    BY <1>6, <2>1 DEF LoaderAssumption
  <2> QED
    BY <1>7, <1>8, <2>1, <2>2
<1>10. s = t
  <2>1. p.obj \in Objects
    BY PlacedParts
  <2>2. s # t => Layout[p.obj][s] \intersect Layout[p.obj][t] = {}
    BY <1>6, <2>1 DEF SplitAssumption
  <2> QED
    BY <1>9, <2>2
<1> QED
  BY <1>2, <1>4, <1>6, <1>10

(***************************************************************************)
(* The chain and the map in force.                                         *)
(***************************************************************************)
Distinct == \A i, j \in DOMAIN r_map : r_map[i].obj = r_map[j].obj => i = j
Loading  ==
  /\ started \subseteq added
  /\ stage = "idle" => added = {}
  /\ stage = "call" /\ r_state = "add" => added = {}
  /\ r_state = "delete" => added = {}
  /\ r_state # "delete" => doomed = {}
(* An object is announced before its constructors run, if at all.          *)
Unannounced == ~rtl_load => \A p \in CurrentMap : p.obj \notin added

ChainInv ==
  /\ MapInv /\ Distinct /\ Loading /\ Unannounced
  /\ ApartIn(Chain) /\ ApartIn(CurrentMap)

(* What is on the chain is in the map, unless nobody has announced it.     *)
Capped    == Cardinality(Objects) <= RTL_MAX_OBJS
Known     == \A p \in Chain : p.obj \notin added => p \in CurrentMap
Announced == rtl_load /\ started # {} => Chain \subseteq CurrentMap

loaderVars == <<r_map, r_state, stage, added, started, doomed, rtl_load,
                rtl_generation, rtl_snaps>>

LEMMA WholeSnapshot ==
  ASSUME LoaderAssumption, SplitAssumption, Capped,
         r_map \in Seq(Placed), Distinct
  PROVE  Snapshot = Chain
<1> DEFINE S == 1 .. Len(r_map)
           f == [i \in S |-> r_map[i].obj]
<1>1. /\ Len(r_map) \in Nat /\ DOMAIN r_map = S
      /\ \A i \in S : r_map[i] \in Placed
  OBVIOUS
<1>2. \A i \in S : r_map[i].obj \in Objects
  BY <1>1, PlacedParts
<1>3. f \in Injection(S, Objects)
  BY <1>1, <1>2 DEF Injection, Distinct, IsInjective
<1>4. IsFiniteSet(Objects) /\ Cardinality(Objects) \in Nat
  BY FS_CardinalityType DEF SplitAssumption
<1>5. Cardinality(S) <= Cardinality(Objects)
  BY <1>3, <1>4, FS_Injection
<1>6. Cardinality(S) = Len(r_map)
  <2>1. Len(r_map) \in Nat
    BY <1>1
  <2>2. \A n \in Nat : Cardinality(1 .. n) = n
    BY ONLY FS_Interval
  <2> QED
    BY ONLY <2>1, <2>2
<1>7. RTL_MAX_OBJS \in Nat
  BY DEF LoaderAssumption
<1>8. Len(r_map) <= RTL_MAX_OBJS
  BY <1>1, <1>4, <1>5, <1>6, <1>7 DEF Capped
<1>9. (IF Len(r_map) < RTL_MAX_OBJS THEN Len(r_map) ELSE RTL_MAX_OBJS) = Len(r_map)
  <2>1. Len(r_map) \in Nat
    BY <1>1
  <2> QED
    BY ONLY <1>7, <1>8, <2>1
<1> QED
  BY <1>1, <1>9 DEF Snapshot, Chain

LEMMA LoaderUntouched ==
  /\ ChainInv /\ MapInv' /\ UNCHANGED loaderVars => ChainInv'
  /\ Known /\ UNCHANGED loaderVars => Known'
  /\ Announced /\ UNCHANGED loaderVars => Announced'
<1> SUFFICES ASSUME UNCHANGED loaderVars
             PROVE  /\ ChainInv /\ MapInv' => ChainInv'
                    /\ Known => Known'
                    /\ Announced => Announced'
  OBVIOUS
<1>1. /\ r_map' = r_map /\ r_state' = r_state /\ stage' = stage
      /\ added' = added /\ started' = started /\ doomed' = doomed
      /\ rtl_load' = rtl_load
      /\ rtl_generation' = rtl_generation /\ rtl_snaps' = rtl_snaps
  BY DEF loaderVars
<1>2. Chain' = Chain /\ CurrentMap' = CurrentMap
  BY <1>1 DEF Chain, CurrentMap, MapOf
<1> QED
  BY <1>1, <1>2 DEF ChainInv, Distinct, Loading, Unannounced, ApartIn, Known,
                    Announced

LEMMA DistinctAppend ==
  ASSUME NEW seq \in Seq(Placed), NEW p \in Placed,
         \A i, j \in DOMAIN seq : seq[i].obj = seq[j].obj => i = j,
         \A i \in DOMAIN seq : seq[i].obj # p.obj
  PROVE  \A i, j \in DOMAIN Append(seq, p) :
           Append(seq, p)[i].obj = Append(seq, p)[j].obj => i = j
<1>1. DOMAIN Append(seq, p) = DOMAIN seq \union {Len(seq) + 1}
  OBVIOUS
<1>2. \A i \in DOMAIN seq : Append(seq, p)[i] = seq[i]
  OBVIOUS
<1>3. Append(seq, p)[Len(seq) + 1] = p
  OBVIOUS
<1> QED
  BY <1>1, <1>2, <1>3

LEMMA DistinctWithout ==
  ASSUME NEW seq \in Seq(Placed), NEW k \in DOMAIN seq,
         \A i, j \in DOMAIN seq : seq[i].obj = seq[j].obj => i = j
  PROVE  \A i, j \in DOMAIN Without(seq, k) :
           Without(seq, k)[i].obj = Without(seq, k)[j].obj => i = j
<1>1. /\ Len(seq) \in Nat /\ DOMAIN seq = 1 .. Len(seq) /\ k \in 1 .. Len(seq)
      /\ DOMAIN Without(seq, k) = 1 .. Len(seq) - 1
  BY DEF Without
<1> DEFINE ix(j) == IF j < k THEN j ELSE j + 1
<1>2. \A j \in 1 .. Len(seq) - 1 : ix(j) \in DOMAIN seq
  BY <1>1
<1>3. \A j \in 1 .. Len(seq) - 1 : Without(seq, k)[j] = seq[ix(j)]
  BY DEF Without
<1>4. \A i, j \in 1 .. Len(seq) - 1 : ix(i) = ix(j) => i = j
  BY <1>1
<1> HIDE DEF ix
<1> QED
  BY <1>1, <1>2, <1>3, <1>4

LEMMA UnlinkShrinks ==
  ASSUME r_map \in Seq(Placed), NEW k \in DOMAIN r_map,
         r_map' = Without(r_map, k)
  PROVE  Chain' \in SUBSET Chain
<1>1. /\ Len(r_map) \in Nat /\ DOMAIN r_map = 1 .. Len(r_map)
      /\ k \in 1 .. Len(r_map)
      /\ DOMAIN Without(r_map, k) = 1 .. Len(r_map) - 1
  BY DEF Without
<1>2. ASSUME NEW j \in 1 .. Len(r_map) - 1
      PROVE  Without(r_map, k)[j] \in Chain
  <2>1. (IF j < k THEN j ELSE j + 1) \in DOMAIN r_map
    BY <1>1
  <2>2. Without(r_map, k)[j] = r_map[IF j < k THEN j ELSE j + 1]
    BY DEF Without
  <2> QED
    BY <2>1, <2>2 DEF Chain
<1>3. Chain' = {Without(r_map, k)[j] : j \in DOMAIN Without(r_map, k)}
  BY DEF Chain
<1> QED
  BY <1>1, <1>2, <1>3

LEMMA ChainInit ==
  ASSUME LoaderAssumption, Init
  PROVE  ChainInv /\ Known /\ Announced
<1>1. Chain = {} /\ CurrentMap = {}
  BY DEF Init, Chain, CurrentMap, MapOf
<1>2. MapInv
  BY MapInit
<1> QED
  BY <1>1, <1>2 DEF Init, ChainInv, Distinct, Loading, Unannounced, ApartIn,
                    Known, Announced

LEMMA ApartSubset ==
  ASSUME NEW M, ApartIn(M), NEW N \in SUBSET M
  PROVE  ApartIn(N)
  BY DEF ApartIn

KnownInv == Known /\ Announced

(* The map made by a callback.                                             *)
LEMMA BumpedApart ==
  ASSUME LoaderAssumption, SplitAssumption, ChainInv, Bump, r_map' = r_map
  PROVE  /\ Chain' = Chain /\ ApartIn(Chain') /\ ApartIn(CurrentMap')
         /\ CurrentMap' \subseteq Chain
         /\ Capped => CurrentMap' = Chain
<1>1. CurrentMap' = Snapshot /\ Snapshot \subseteq Chain
  BY BumpedMap DEF ChainInv
<1>2. Chain' = Chain
  BY DEF Chain
<1>3. ApartIn(Chain) /\ ApartIn(Snapshot)
  BY <1>1, ApartSubset DEF ChainInv
<1>4. Capped => Snapshot = Chain
  BY WholeSnapshot DEF ChainInv, MapInv, MapTypes
<1> QED
  BY <1>1, <1>2, <1>3, <1>4

LEMMA ChainStep ==
  ASSUME LoaderAssumption, SplitAssumption, NEW u, Vcpus = {u},
         ChainInv, [Next]_vars
  PROVE  ChainInv' /\ (Capped /\ KnownInv => KnownInv')
<1>0. MapInv'
  BY MapStep DEF ChainInv
<1>00. /\ MapInv /\ r_map \in Seq(Placed) /\ Distinct /\ Loading /\ Unannounced
       /\ ApartIn(Chain) /\ ApartIn(CurrentMap)
       /\ stage \in {"idle", "call", "work"}
       /\ r_state \in {"consistent", "add", "delete"}
  BY DEF ChainInv, MapInv, MapTypes
<1> DEFINE Kept == /\ Chain' = Chain /\ CurrentMap' = CurrentMap
                   /\ r_map' = r_map /\ rtl_load' = rtl_load
<1>k. ASSUME r_map' = r_map, rtl_load' = rtl_load,
             rtl_generation' = rtl_generation, rtl_snaps' = rtl_snaps
      PROVE  Kept
  BY <1>k DEF Chain, CurrentMap, MapOf
<1>f. ASSUME UNCHANGED loaderVars
      PROVE  ChainInv' /\ (KnownInv => KnownInv')
  BY <1>f, <1>0, LoaderUntouched DEF KnownInv
<1>1. ASSUME NEW v \in Vcpus, NEW a \in Addresses, Execute(v, a)
      PROVE  ChainInv' /\ (Capped /\ KnownInv => KnownInv')
  BY <1>1, <1>f DEF Execute, rtld, plugin, loaderVars
<1>2. ASSUME NEW v \in Vcpus, BeginLoad(v)
      PROVE  ChainInv' /\ (Capped /\ KnownInv => KnownInv')
  <2>1. /\ stage = "idle" /\ r_state' = "add" /\ stage' = "call"
        /\ added' = added /\ started' = started /\ doomed' = doomed
        /\ r_map' = r_map /\ rtl_load' = rtl_load
        /\ rtl_generation' = rtl_generation /\ rtl_snaps' = rtl_snaps
    BY <1>2 DEF BeginLoad, plugin
  <2>2. Kept
    BY <2>1, <1>k
  <2>3. r_state = "consistent"
    BY <1>00, <2>1 DEF MapInv, AtRest
  <2>4. Distinct' /\ Unannounced' /\ ApartIn(Chain') /\ ApartIn(CurrentMap')
    BY <1>00, <2>1, <2>2 DEF Distinct, Unannounced, ApartIn
  <2>5. Loading'
    BY <1>00, <2>1, <2>3 DEF Loading
  <2>6. KnownInv => KnownInv'
    BY <2>1, <2>2 DEF KnownInv, Known, Announced
  <2> QED
    BY <1>0, <2>4, <2>5, <2>6 DEF ChainInv, ApartIn
<1>3. ASSUME NEW v \in Vcpus, NEW D \in SUBSET Objects, BeginUnload(v, D)
      PROVE  ChainInv' /\ (Capped /\ KnownInv => KnownInv')
  <2>1. /\ stage = "idle" /\ r_state' = "delete" /\ stage' = "call"
        /\ added' = added /\ started' = started
        /\ r_map' = r_map /\ rtl_load' = rtl_load
        /\ rtl_generation' = rtl_generation /\ rtl_snaps' = rtl_snaps
    BY <1>3 DEF BeginUnload, plugin
  <2>2. Kept
    BY <2>1, <1>k
  <2>4. Distinct' /\ Unannounced' /\ ApartIn(Chain') /\ ApartIn(CurrentMap')
    BY <1>00, <2>1, <2>2 DEF Distinct, Unannounced, ApartIn
  <2>5. Loading'
    BY <1>00, <2>1 DEF Loading
  <2>6. KnownInv => KnownInv'
    BY <2>1, <2>2 DEF KnownInv, Known, Announced
  <2> QED
    BY <1>0, <2>4, <2>5, <2>6 DEF ChainInv, ApartIn
<1>4. CASE NotifyState
  <2>1. /\ stage = "call" /\ r_state' = r_state /\ r_map' = r_map
        /\ stage' = IF r_state = "consistent" THEN "idle" ELSE "work"
        /\ added' = {} /\ started' = {} /\ doomed' = doomed
        /\ rtl_load' = rtl_load
    BY <1>4 DEF NotifyState
  <2>2. Loading'
    BY <1>00, <2>1 DEF Loading
  <2>3. Distinct' /\ Unannounced' /\ Announced'
    BY <1>00, <2>1 DEF Distinct, Unannounced, Announced
  <2>4. CASE r_state = "consistent"
    <3>1. Bump
      BY <1>4, <2>4 DEF NotifyState, vcpu_rtl_state
    <3>2. /\ Chain' = Chain /\ ApartIn(Chain') /\ ApartIn(CurrentMap')
          /\ Capped => CurrentMap' = Chain
      BY <2>1, <3>1, BumpedApart
    <3> QED
      BY <1>0, <2>2, <2>3, <3>2 DEF ChainInv, ApartIn, KnownInv, Known
  <2>5. CASE r_state # "consistent"
    <3>1. rtl_generation' = rtl_generation /\ rtl_snaps' = rtl_snaps
      BY <1>4, <2>5 DEF NotifyState, vcpu_rtl_state
    <3>2. Kept
      BY <2>1, <3>1, <1>k
    <3>3. added = {}
      BY <1>00, <2>1, <2>5 DEF Loading
    <3>4. Known => Known'
      BY <2>1, <3>2, <3>3 DEF Known
    <3> QED
      BY <1>0, <1>00, <2>2, <2>3, <3>2, <3>4 DEF ChainInv, ApartIn, KnownInv
  <2> QED
    BY <2>4, <2>5
<1>5. ASSUME NEW p \in Placed, Link(p)
      PROVE  ChainInv' /\ (Capped /\ KnownInv => KnownInv')
  <2>1. /\ stage = "work" /\ r_state = "add" /\ r_map' = Append(r_map, p)
        /\ started = {} /\ p.obj \notin Mapped
        /\ \A q \in Chain : Occupied(p) \intersect Occupied(q) = {}
        /\ added' = added \union {p.obj} /\ started' = started
        /\ doomed' = doomed
        /\ stage' = stage /\ r_state' = r_state /\ rtl_load' = rtl_load
        /\ rtl_generation' = rtl_generation /\ rtl_snaps' = rtl_snaps
    BY <1>5 DEF Link, plugin
  <2>2. CurrentMap' = CurrentMap /\ CurrentMap \subseteq Chain
    BY <1>00, <2>1 DEF CurrentMap, MapOf, MapInv, Fresh
  <2>3. Chain' = Chain \union {p}
    <3>1. r_map \in Seq(Placed) /\ r_map' = Append(r_map, p)
      BY <1>00, <2>1
    <3> QED
      BY ONLY <3>1, AppendChain DEF Chain
  <2>4. \A q \in Chain : q.obj # p.obj
    BY <2>1 DEF Mapped
  <2>5. \A i \in DOMAIN r_map : r_map[i].obj # p.obj
    BY <2>4 DEF Chain
  <2>6. Distinct'
    BY <1>00, <2>1, <2>5, DistinctAppend DEF Distinct
  <2>7. ApartIn(Chain') /\ ApartIn(CurrentMap')
    BY <1>00, <2>1, <2>2, <2>3, <2>4 DEF ApartIn
  <2>8. Loading'
    BY <1>00, <2>1 DEF Loading
  <2>9. Unannounced'
    BY <1>00, <2>1, <2>2, <2>4 DEF Unannounced
  <2>10. KnownInv => KnownInv'
    BY <2>1, <2>2, <2>3 DEF KnownInv, Known, Announced
  <2> QED
    BY <1>0, <2>6, <2>7, <2>8, <2>9, <2>10 DEF ChainInv, ApartIn
<1>6. ASSUME NEW o \in Objects, NotifyLoad(o)
      PROVE  ChainInv' /\ (Capped /\ KnownInv => KnownInv')
  <2>1. /\ stage = "work" /\ r_state = "add" /\ r_map' = r_map
        /\ rtl_load /\ rtl_load' = rtl_load /\ Bump
        /\ o \in added /\ started' = started \union {o}
        /\ added' = added /\ doomed' = doomed
        /\ stage' = stage /\ r_state' = r_state
    BY <1>6 DEF NotifyLoad, NextConstructors, vcpu_rtl_load
  <2>2. /\ Chain' = Chain /\ ApartIn(Chain') /\ ApartIn(CurrentMap')
        /\ Capped => CurrentMap' = Chain
    BY <2>1, BumpedApart
  <2>3. Distinct' /\ Loading' /\ Unannounced'
    BY <1>00, <2>1 DEF Distinct, Loading, Unannounced
  <2>4. Capped => KnownInv'
    BY <2>2 DEF KnownInv, Known, Announced
  <2> QED
    BY <1>0, <2>2, <2>3, <2>4 DEF ChainInv, ApartIn
<1>7. ASSUME NEW o \in Objects, StartConstructors(o)
      PROVE  ChainInv' /\ (Capped /\ KnownInv => KnownInv')
  <2>1. /\ stage = "work" /\ r_state = "add" /\ r_map' = r_map
        /\ ~rtl_load /\ rtl_load' = rtl_load
        /\ rtl_generation' = rtl_generation /\ rtl_snaps' = rtl_snaps
        /\ o \in added /\ started' = started \union {o}
        /\ added' = added /\ doomed' = doomed
        /\ stage' = stage /\ r_state' = r_state
    BY <1>7 DEF StartConstructors, NextConstructors, plugin
  <2>2. Kept
    BY <2>1, <1>k
  <2>3. Distinct' /\ Loading' /\ Unannounced'
    BY <1>00, <2>1, <2>2 DEF Distinct, Loading, Unannounced
  <2>4. KnownInv => KnownInv'
    BY <2>1, <2>2 DEF KnownInv, Known, Announced
  <2> QED
    BY <1>0, <1>00, <2>2, <2>3, <2>4 DEF ChainInv, ApartIn
<1>8. ASSUME NEW i \in DOMAIN r_map, Unlink(i)
      PROVE  ChainInv' /\ (Capped /\ KnownInv => KnownInv')
  <2>1. /\ stage = "work" /\ r_state = "delete"
        /\ r_map' = Without(r_map, i) /\ rtl_load' = rtl_load
        /\ rtl_generation' = rtl_generation /\ rtl_snaps' = rtl_snaps
        /\ started' = started /\ added' = added /\ doomed' = doomed
        /\ stage' = stage /\ r_state' = r_state
    BY <1>8 DEF Unlink, plugin
  <2>2. CurrentMap' = CurrentMap
    BY <2>1 DEF CurrentMap, MapOf
  <2>3. Chain' \in SUBSET Chain
    BY <1>00, <2>1, UnlinkShrinks
  <2>4. Distinct'
    BY <1>00, <2>1, DistinctWithout DEF Distinct
  <2>5. ApartIn(Chain')
    BY <1>00, <2>3, ApartSubset
  <2>6. Loading' /\ Unannounced'
    BY <1>00, <2>1, <2>2 DEF Loading, Unannounced
  <2>7. KnownInv => KnownInv'
    BY <2>1, <2>2, <2>3 DEF KnownInv, Known, Announced
  <2> QED
    BY <1>0, <1>00, <2>2, <2>4, <2>5, <2>6, <2>7 DEF ChainInv, ApartIn
<1>9. CASE Finish
  <2>1. /\ stage = "work" /\ r_state' = "consistent" /\ stage' = "call"
        /\ doomed' = {} /\ added' = added /\ started' = started
        /\ r_map' = r_map /\ rtl_load' = rtl_load
        /\ rtl_generation' = rtl_generation /\ rtl_snaps' = rtl_snaps
    BY <1>9 DEF Finish, plugin
  <2>2. Kept
    BY <2>1, <1>k
  <2>4. Distinct' /\ Unannounced' /\ ApartIn(Chain') /\ ApartIn(CurrentMap')
    BY <1>00, <2>1, <2>2 DEF Distinct, Unannounced, ApartIn
  <2>5. Loading'
    BY <1>00, <2>1 DEF Loading
  <2>6. KnownInv => KnownInv'
    BY <2>1, <2>2 DEF KnownInv, Known, Announced
  <2> QED
    BY <1>0, <2>4, <2>5, <2>6 DEF ChainInv, ApartIn
<1>10. CASE UNCHANGED vars
  BY <1>10, <1>f DEF vars, rtld, plugin, loaderVars
<1> QED
  BY <1>1, <1>2, <1>3, <1>4, <1>5, <1>6, <1>7, <1>8, <1>9, <1>10 DEF Next

(***************************************************************************)
(* What a record says and what ran.  Agrees(g, a, x): the host reads a     *)
(* record of address a under map g as instruction x, or as code of no map. *)
(***************************************************************************)
Fits(w, a, x) ==
  IF w = NoWindow
    THEN \/ a \in BaseCode /\ x = BaseInstr(a)
         \/ a \in ModuleCode /\ x.obj \in Objects /\ (Capped => x.early)
    ELSE /\ a \in ModuleCode
         /\ w.obj \in Objects /\ w.sec \in DOMAIN Layout[w.obj]
         /\ x = AtOffset(<<w.obj, w.sec>>, a - w.start)
         /\ a - w.start \in InSection(<<w.obj, w.sec>>)
Agrees(g, a, x) == Fits(window_of(g, a), a, x)

LEMMA WindowsOfMap ==
  ASSUME NEW g
  PROVE  gen_windows(g) = WindowsOf(MapOf(g))
  BY DEF gen_windows, WindowsOf

LEMMA WindowFound ==
  ASSUME LoaderAssumption, SplitAssumption, NEW g, NEW a \in Nat,
         MapOf(g) \in SUBSET Placed, ApartIn(MapOf(g)),
         NEW w \in gen_windows(g), a \in CodeOf(w)
  PROVE  window_of(g, a) = w
<1>1. \A v \in gen_windows(g) : a \in CodeOf(v) => v = w
  BY WindowsOfMap, OneWindow
<1>2. {v \in gen_windows(g) : a \in CodeOf(v)} = {w}
  BY <1>1
<1> QED
  BY <1>2 DEF window_of

LEMMA WindowInMap ==
  ASSUME LoaderAssumption, SplitAssumption, NEW g, NEW a,
         window_of(g, a) # NoWindow
  PROVE  window_of(g, a) \in gen_windows(g) /\ a \in CodeOf(window_of(g, a))
<1> DEFINE W == {v \in gen_windows(g) : a \in CodeOf(v)}
<1>1. W # {}
  BY DEF window_of
<1>2. window_of(g, a) = CHOOSE w \in W : TRUE
  BY <1>1 DEF window_of
<1>3. window_of(g, a) \in W
  BY <1>1, <1>2
<1> QED
  BY <1>3

LEMMA NotAWindow ==
  ASSUME LoaderAssumption, SplitAssumption,
         NEW p \in Placed, NEW s \in DOMAIN Layout[p.obj]
  PROVE  WindowAt(p, s) # NoWindow
<1>1. /\ p.obj \in Objects /\ p.base \in Nat /\ s \in Sections
      /\ Lowest(Layout[p.obj][s]) \in Nat
  BY PlacedParts, SectionRange
<1>2. WindowAt(p, s) \in [obj : Objects, sec : Sections, start : Nat]
  BY <1>1 DEF WindowAt
<1> QED
  BY <1>2 DEF SplitAssumption

(* The same of a map, whichever generation it belongs to.                  *)
WindowIn(M, a) ==
  LET W == {w \in WindowsOf(M) : a \in CodeOf(w)}
  IN  IF W = {} THEN NoWindow ELSE CHOOSE w \in W : TRUE
AgreesIn(M, a, x) == Fits(WindowIn(M, a), a, x)

LEMMA WindowSame ==
  ASSUME NEW g, NEW a
  PROVE  window_of(g, a) = WindowIn(MapOf(g), a)
  BY DEF window_of, WindowIn, gen_windows, WindowsOf

LEMMA AgreesSame ==
  ASSUME NEW g, NEW a, NEW x
  PROVE  Agrees(g, a, x) <=> AgreesIn(MapOf(g), a, x)
  BY WindowSame DEF Agrees, AgreesIn

(* No window holds an address of the base image.                           *)
LEMMA BaseOutside ==
  ASSUME LoaderAssumption, SplitAssumption, NEW M \in SUBSET Placed,
         NEW a \in BaseCode
  PROVE  WindowIn(M, a) = NoWindow
<1> DEFINE W == {w \in WindowsOf(M) : a \in CodeOf(w)}
<1> SUFFICES ASSUME NEW w \in W PROVE FALSE
  BY DEF WindowIn
<1>1. w \in WindowsOf(M) /\ a \in CodeOf(w)
  OBVIOUS
<1>2. PICK p \in M :
        \E s \in DOMAIN Layout[p.obj] : w = WindowAt(p, s)
  BY <1>1, WindowsThere
<1>3. a \in Occupied(p)
  BY <1>1, <1>2, InsideObject
<1>4. a \in ModuleCode
  BY <1>2, <1>3 DEF ModuleCode
<1> QED
  BY <1>4 DEF LoaderAssumption

LEMMA BaseAgrees ==
  ASSUME LoaderAssumption, SplitAssumption, NEW M \in SUBSET Placed,
         NEW a \in BaseCode
  PROVE  AgreesIn(M, a, BaseInstr(a))
  BY BaseOutside DEF AgreesIn, Fits

LEMMA BaseIsNoModule ==
  ASSUME LoaderAssumption, r_map \in Seq(Placed), NEW a \in BaseCode
  PROVE  Instr(a) = BaseInstr(a)
<1>1. \A p \in Chain : a \notin Occupied(p)
  BY DEF Chain, LoaderAssumption, ModuleCode
<1> QED
  BY <1>1 DEF Instr

(* Whatever a vCPU runs, the map it tags the record with tells what it is, *)
(* or says nothing of it.                                                  *)
LEMMA RunsAgree ==
  ASSUME LoaderAssumption, SplitAssumption, ChainInv, Capped => KnownInv,
         NEW v \in Vcpus, NEW a \in Runnable(v)
  PROVE  a \in Addresses /\ Agrees(cur_ctx[v], a, Instr(a))
<1> DEFINE g == rtl_generation
<1>1. /\ r_map \in Seq(Placed) /\ Chain \subseteq Placed
      /\ CurrentMap \in SUBSET Placed /\ cur_ctx[v] = g
      /\ ApartIn(Chain) /\ ApartIn(CurrentMap) /\ MapInv
  <2>1. r_map \in Seq(Placed) /\ rtl_snaps \in Seq(SUBSET Placed)
    BY DEF ChainInv, MapInv, MapTypes
  <2>2. CurrentMap \in SUBSET Placed
    BY <2>1 DEF CurrentMap, MapOf
  <2> QED
    BY <2>1, <2>2, ChainPlaced DEF ChainInv, MapInv, Tagged
<1>2. MapOf(g) = CurrentMap
  BY DEF CurrentMap
<1>3. CASE a \in BaseCode
  BY <1>1, <1>2, <1>3, BaseAgrees, BaseIsNoModule, AgreesSame DEF Addresses
<1>4. CASE a \notin BaseCode
  <2>1. PICK q \in Chain : /\ a \in Occupied(q)
                           /\ q.obj \in Settled \/ q.obj \in Dying \union started
    BY <1>4 DEF Runnable
  <2>2. q \in Placed /\ q.obj \in Objects /\ q.base \in Nat
    BY <1>1, <2>1, PlacedParts
  <2>3. a \in ModuleCode /\ a \in Addresses
    BY <2>1, <2>2 DEF ModuleCode, Addresses
  <2>4. PICK i \in Offsets(q.obj) : a = q.base + i
    BY <2>1 DEF Occupied
  <2>5. PICK s \in DOMAIN Layout[q.obj] : i \in Layout[q.obj][s]
    BY <2>4 DEF Offsets
  <2>6. i \in Nat /\ a \in Nat /\ a - q.base = i
    BY <2>2, <2>4, <2>5 DEF LoaderAssumption
  <2>7. \A p \in Chain : a \in Occupied(p) => p = q
    BY <1>1, <2>1 DEF ApartIn
  <2>8. (CHOOSE p \in Chain : a \in Occupied(p)) = q
    BY <2>1, <2>7
  <2>9. Instr(a) = [obj |-> q.obj, off |-> i, early |-> q.obj \in added /\ ~rtl_load]
    BY <2>1, <2>6, <2>8 DEF Instr, ModuleInstr
  <2>10. CASE q \in CurrentMap
    <3> DEFINE w == WindowAt(q, s)
    <3>1. w \in gen_windows(g)
      BY <1>1, <1>2, <2>5, <2>10, WindowsThere, WindowsOfMap
    <3>2. a \in CodeOf(w)
      BY <2>2, <2>4, <2>5, <2>6, WindowRange
    <3>3. window_of(g, a) = w
      BY <1>1, <1>2, <2>6, <3>1, <3>2, WindowFound
    <3>4. w # NoWindow
      BY <2>2, NotAWindow
    <3>5. w.obj = q.obj /\ w.sec = s
          /\ w.start = q.base + Lowest(Layout[q.obj][s])
      BY DEF WindowAt
    <3>6. /\ Lowest(Layout[q.obj][s]) \in Nat
          /\ Cardinality(Layout[q.obj][s]) \in Nat \ {0}
          /\ i \in Lowest(Layout[q.obj][s])
                     .. Lowest(Layout[q.obj][s]) + Cardinality(Layout[q.obj][s]) - 1
      BY <2>2, <2>5, SectionRange
    <3>7. /\ a - w.start \in 0 .. Cardinality(Layout[q.obj][s]) - 1
          /\ Lowest(Layout[q.obj][s]) + (a - w.start) = i
      <4> DEFINE low == Lowest(Layout[q.obj][s])
                 len == Cardinality(Layout[q.obj][s])
      <4>1. /\ low \in Nat /\ len \in Nat /\ i \in Nat /\ q.base \in Nat
            /\ low <= i /\ i <= low + len - 1
            /\ w.start = q.base + low /\ a = q.base + i
        BY <2>2, <2>4, <2>6, <3>5, <3>6
      <4> HIDE DEF low, len, w
      <4>2. a - w.start \in 0 .. len - 1 /\ low + (a - w.start) = i
        BY ONLY <4>1
      <4> QED
        BY ONLY <4>2 DEF low, len
    <3>8. ~(q.obj \in added /\ ~rtl_load)
      BY <2>10 DEF ChainInv, Unannounced
    <3>9. Instr(a) = AtOffset(<<w.obj, w.sec>>, a - w.start)
      BY <2>9, <3>5, <3>7, <3>8 DEF AtOffset, CodeAt
    <3>10. a - w.start \in InSection(<<w.obj, w.sec>>)
      BY <3>5, <3>7 DEF InSection
    <3> HIDE DEF w
    <3> QED
      BY <1>1, <2>2, <2>3, <3>3, <3>4, <3>5, <3>9, <3>10 DEF Agrees, Fits
  <2>11. CASE q \notin CurrentMap
    <3>1. window_of(g, a) = NoWindow
      <4> SUFFICES ASSUME window_of(g, a) # NoWindow PROVE FALSE
        OBVIOUS
      <4>1. window_of(g, a) \in WindowsOf(CurrentMap) /\ a \in CodeOf(window_of(g, a))
        BY <1>2, WindowInMap, WindowsOfMap
      <4>2. PICK p \in CurrentMap :
              \E t \in DOMAIN Layout[p.obj] : window_of(g, a) = WindowAt(p, t)
        BY <1>1, <4>1, WindowsThere
      <4>3. a \in Occupied(p)
        BY <1>1, <4>1, <4>2, InsideObject
      <4>4. p = q
        BY <1>1, <2>1, <4>2, <4>3 DEF MapInv, Apart
      <4> QED
        BY <2>11, <4>2, <4>4
    <3>2. Capped => q.obj \in added /\ ~rtl_load
      <4> SUFFICES ASSUME Capped PROVE q.obj \in added /\ ~rtl_load
        OBVIOUS
      <4>1. q.obj \in added
        BY <2>1, <2>11 DEF KnownInv, Known
      <4>2. q.obj \notin Settled
        BY <4>1 DEF Settled
      <4>3. doomed = {}
        BY <4>1 DEF ChainInv, Loading
      <4>4. q.obj \in started
        BY <2>1, <4>2, <4>3 DEF Dying
      <4> QED
        BY <2>1, <2>11, <4>1, <4>4 DEF KnownInv, Announced
    <3>3. Instr(a).obj = q.obj
      BY <2>9
    <3>4. Capped => Instr(a).early
      <4> SUFFICES ASSUME Capped PROVE Instr(a).early = TRUE
        OBVIOUS
      <4>1. (q.obj \in added /\ ~rtl_load) = TRUE
        BY <3>2
      <4>2. Instr(a) = [obj |-> q.obj, off |-> i, early |-> TRUE]
        BY <2>9, <4>1
      <4> QED
        BY <4>2
    <3> QED
      BY <1>1, <2>2, <2>3, <3>1, <3>3, <3>4 DEF Agrees, Fits
  <2> QED
    BY <2>3, <2>10, <2>11
<1> QED
  BY <1>3, <1>4

(***************************************************************************)
(* Which records a slice counts.                                           *)
(***************************************************************************)
InSlice(slot, off, r) ==
  LET w == window_of(r[1], r[2])
  IN  Attributed(w) /\ mod_slot(w) = slot /\ r[2] - w.start = off
InBase(A, r) == r[2] \in A /\ window_of(r[1], r[2]) = NoWindow
EdgeInSlice(slot, i, j, e) ==
  LET ws == window_of(e[1], e[2])
      wd == window_of(e[1], e[3])
  IN  /\ InsideOneWindow(ws, wd) /\ mod_slot(ws) = slot
      /\ e[2] - ws.start = i /\ e[3] - ws.start = j
EdgeInBase(s, d, e) ==
  /\ e[2] = s /\ e[3] = d
  /\ window_of(e[1], e[2]) = NoWindow /\ window_of(e[1], e[3]) = NoWindow

RanAt(m, i)      == {AtOffset(n, i) : n \in SharingSlot(m, i)}
WentAt(m, i, j)  == {<<AtOffset(n, i), AtOffset(n, j)>> :
                       n \in SharingSlot(m, i) \intersect SharingSlot(m, j)}

(* Two offsets of an object are the same byte of the same section.         *)
LEMMA SameByte ==
  ASSUME LoaderAssumption, SplitAssumption, 
         NEW m \in Objects \X Sections, m[2] \in DOMAIN Layout[m[1]],
         NEW n \in Objects \X Sections, n[2] \in DOMAIN Layout[n[1]],
         NEW i \in InSection(m), NEW j \in InSection(n),
         AtOffset(m, i) = AtOffset(n, j)
  PROVE  m = n /\ i = j
<1> DEFINE lm == Lowest(Layout[m[1]][m[2]])
           ln == Lowest(Layout[n[1]][n[2]])
<1>1. m[1] = n[1] /\ lm + i = ln + j
  BY DEF AtOffset, CodeAt
<1>2. m[1] \in Objects /\ n[1] \in Objects
  OBVIOUS
<1>3. /\ lm \in Nat /\ Cardinality(Layout[m[1]][m[2]]) \in Nat
      /\ Layout[m[1]][m[2]] = lm .. lm + Cardinality(Layout[m[1]][m[2]]) - 1
  BY <1>2, SectionRange
<1>4. /\ ln \in Nat /\ Cardinality(Layout[n[1]][n[2]]) \in Nat
      /\ Layout[n[1]][n[2]] = ln .. ln + Cardinality(Layout[n[1]][n[2]]) - 1
  BY <1>2, SectionRange
<1>5. lm + i \in Layout[m[1]][m[2]] /\ ln + j \in Layout[n[1]][n[2]]
  <2>1. /\ lm + i \in lm .. lm + Cardinality(Layout[m[1]][m[2]]) - 1
        /\ ln + j \in ln .. ln + Cardinality(Layout[n[1]][n[2]]) - 1
    <3> DEFINE cm == Cardinality(Layout[m[1]][m[2]])
               cn == Cardinality(Layout[n[1]][n[2]])
    <3>1. /\ lm \in Nat /\ cm \in Nat /\ i \in 0 .. cm - 1
          /\ ln \in Nat /\ cn \in Nat /\ j \in 0 .. cn - 1
      BY <1>3, <1>4 DEF InSection
    <3> HIDE DEF lm, ln, cm, cn
    <3>2. lm + i \in lm .. lm + cm - 1 /\ ln + j \in ln .. ln + cn - 1
      BY ONLY <3>1
    <3> QED
      BY ONLY <3>2 DEF cm, cn
  <2> QED
    BY <1>3, <1>4, <2>1
<1>6. m[2] = n[2]
  BY <1>1, <1>2, <1>5 DEF SplitAssumption
<1>7. m = n
  BY <1>1, <1>2, <1>6
<1>8. i = j
  BY <1>1, <1>3, <1>7 DEF InSection
<1> QED
  BY <1>7, <1>8

LEMMA SlotFromWindow ==
  ASSUME LoaderAssumption, SplitAssumption, NEW w,
         w.obj \in Objects, w.sec \in DOMAIN Layout[w.obj], Attributed(w)
  PROVE  /\ <<w.obj, w.sec>> \in Matched
         /\ mod_slot(w) = SlotOf(<<w.obj, w.sec>>)
  BY DEF Attributed, Unresolved, Ambiguous, Matched, mod_slot, SlotOf,
         LoaderAssumption

LEMMA WindowFromSlot ==
  ASSUME NEW w, w # NoWindow, <<w.obj, w.sec>> \in Matched
  PROVE  Attributed(w) /\ mod_slot(w) = SlotOf(<<w.obj, w.sec>>)
  BY DEF Attributed, Unresolved, Ambiguous, Matched, mod_slot, SlotOf

LEMMA NotBase ==
  ASSUME LoaderAssumption, NEW x, x.obj \in Objects, NEW a
  PROVE  x # BaseInstr(a)
  BY DEF BaseInstr, LoaderAssumption

(* A slice counts a record only if the instruction that ran is at that     *)
(* offset, and always if the map was whole.                                *)
LEMMA SliceRight ==
  ASSUME LoaderAssumption, SplitAssumption, NEW g, NEW a, NEW x, Agrees(g, a, x),
         NEW m \in Matched, NEW i \in InSection(m)
  PROVE  /\ InSlice(SlotOf(m), i, <<g, a>>) => x \in RanAt(m, i)
         /\ Capped /\ x \in RanAt(m, i) => InSlice(SlotOf(m), i, <<g, a>>)
<1> DEFINE w == window_of(g, a)
           n == <<w.obj, w.sec>>
<1>1. ASSUME InSlice(SlotOf(m), i, <<g, a>>)
      PROVE  x \in RanAt(m, i)
  <2>1. w # NoWindow /\ Attributed(w) /\ mod_slot(w) = SlotOf(m) /\ a - w.start = i
    BY <1>1 DEF InSlice, Attributed
  <2>2. /\ w.obj \in Objects /\ w.sec \in DOMAIN Layout[w.obj]
        /\ x = AtOffset(n, a - w.start) /\ a - w.start \in InSection(n)
    BY <2>1 DEF Agrees, Fits
  <2>3. n \in Matched /\ SlotOf(n) = SlotOf(m)
    BY <2>1, <2>2, SlotFromWindow
  <2>4. n \in SharingSlot(m, i)
    BY <2>1, <2>2, <2>3 DEF SharingSlot
  <2> QED
    BY <2>1, <2>2, <2>4 DEF RanAt
<1>2. ASSUME Capped, x \in RanAt(m, i)
      PROVE  InSlice(SlotOf(m), i, <<g, a>>)
  <2>1. PICK k \in SharingSlot(m, i) : x = AtOffset(k, i)
    BY <1>2 DEF RanAt
  <2>2. k \in Matched /\ SlotOf(k) = SlotOf(m) /\ i \in InSection(k)
    BY <2>1 DEF SharingSlot
  <2>3. x.obj \in Objects /\ x.early = FALSE
    BY <2>1, <2>2 DEF AtOffset, CodeAt, Matched
  <2>4. w # NoWindow
    BY <1>2, <2>3, NotBase DEF Agrees, Fits
  <2>5. /\ w.obj \in Objects /\ w.sec \in DOMAIN Layout[w.obj]
        /\ x = AtOffset(n, a - w.start) /\ a - w.start \in InSection(n)
    BY <2>4 DEF Agrees, Fits
  <2>6. /\ n \in Objects \X Sections /\ n[2] \in DOMAIN Layout[n[1]]
        /\ k \in Objects \X Sections /\ k[2] \in DOMAIN Layout[k[1]]
    BY <2>2, <2>5 DEF Matched, LoaderAssumption
  <2> DEFINE d == a - w.start
  <2>61. d \in InSection(n) /\ i \in InSection(k) /\ AtOffset(n, d) = AtOffset(k, i)
    BY <2>1, <2>2, <2>5
  <2> HIDE DEF w, n, d
  <2>7. n = k /\ d = i
    BY ONLY LoaderAssumption, SplitAssumption, <2>6, <2>61, SameByte
  <2>71. <<w.obj, w.sec>> \in Matched
    BY <2>2, <2>7 DEF n
  <2>8. Attributed(w) /\ mod_slot(w) = SlotOf(m)
    BY <2>2, <2>4, <2>7, <2>71, WindowFromSlot DEF n
  <2> QED
    BY <2>7, <2>8 DEF InSlice, w, d
<1> QED
  BY <1>1, <1>2

(* The base slice counts base code, and of the rest only what ran early.   *)
LEMMA BaseRight ==
  ASSUME LoaderAssumption, SplitAssumption, NEW g, NEW a, NEW x, Agrees(g, a, x)
  PROVE  /\ \A b \in BaseCode : InBase({b}, <<g, a>>) <=> x = BaseInstr(b)
         /\ Capped => (InBase(ModuleCode, <<g, a>>) <=> x.early)
<1> DEFINE w == window_of(g, a)
<1>1. BaseCode \intersect ModuleCode = {}
  BY DEF LoaderAssumption
<1>2. CASE w = NoWindow /\ a \in BaseCode
  <2>1. x = BaseInstr(a)
    BY <1>1, <1>2 DEF Agrees, Fits
  <2>2. \A b \in BaseCode : x = BaseInstr(b) <=> b = a
    BY <2>1 DEF BaseInstr
  <2>3. x.early = FALSE
    BY <2>1 DEF BaseInstr
  <2>4. InBase(ModuleCode, <<g, a>>) = FALSE
    BY <1>1, <1>2 DEF InBase
  <2>5. \A b \in BaseCode : InBase({b}, <<g, a>>) <=> b = a
    BY <1>2 DEF InBase
  <2> QED
    BY <2>2, <2>3, <2>4, <2>5
<1>3. CASE w = NoWindow /\ a \notin BaseCode
  <2>1. a \in ModuleCode /\ x.obj \in Objects /\ (Capped => x.early)
    BY <1>3 DEF Agrees, Fits
  <2>2. \A b \in BaseCode : x # BaseInstr(b)
    BY <2>1, NotBase
  <2>3. InBase(ModuleCode, <<g, a>>)
    BY <1>3, <2>1 DEF InBase
  <2>4. \A b \in BaseCode : ~InBase({b}, <<g, a>>)
    BY <1>3 DEF InBase
  <2> QED
    BY <2>1, <2>2, <2>3, <2>4
<1>4. CASE w # NoWindow
  <2>1. /\ w.obj \in Objects
        /\ x = AtOffset(<<w.obj, w.sec>>, a - w.start)
    BY <1>4 DEF Agrees, Fits
  <2>2. x.obj \in Objects /\ x.early = FALSE
    BY <2>1 DEF AtOffset, CodeAt
  <2>3. \A b \in BaseCode : x # BaseInstr(b)
    BY <2>2, NotBase
  <2>4. \A A : ~InBase(A, <<g, a>>)
    BY <1>4 DEF InBase
  <2> QED
    BY <2>2, <2>3, <2>4
<1> QED
  BY <1>2, <1>3, <1>4

(* In one map an object is in one place.                                   *)
LEMMA OnePlace ==
  ASSUME LoaderAssumption, SplitAssumption, NEW g,
         MapOf(g) \in SUBSET Placed, ApartIn(MapOf(g)),
         NEW v \in gen_windows(g), NEW w \in gen_windows(g),
         v.obj = w.obj, v.sec = w.sec
  PROVE  v = w
<1>1. v \in WindowsOf(MapOf(g)) /\ w \in WindowsOf(MapOf(g))
  BY WindowsOfMap
<1>2. PICK p \in MapOf(g) : \E s \in DOMAIN Layout[p.obj] : v = WindowAt(p, s)
  BY <1>1, WindowsThere
<1>3. PICK s \in DOMAIN Layout[p.obj] : v = WindowAt(p, s)
  BY <1>2
<1>4. PICK q \in MapOf(g) : \E t \in DOMAIN Layout[q.obj] : w = WindowAt(q, t)
  BY <1>1, WindowsThere
<1>5. PICK t \in DOMAIN Layout[q.obj] : w = WindowAt(q, t)
  BY <1>4
<1>6. p.obj = q.obj /\ s = t
  BY <1>3, <1>5 DEF WindowAt
<1>7. p = q
  BY <1>6 DEF ApartIn
<1> QED
  BY <1>3, <1>5, <1>6, <1>7

LEMMA EdgeRight ==
  ASSUME LoaderAssumption, SplitAssumption, Capped, NEW g,
         MapOf(g) \in SUBSET Placed, ApartIn(MapOf(g)),
         NEW s, NEW d, NEW x, NEW y, Agrees(g, s, x), Agrees(g, d, y)
  PROVE  /\ \A b, c \in BaseCode :
              EdgeInBase(b, c, <<g, s, d>>) <=> <<x, y>> = <<BaseInstr(b), BaseInstr(c)>>
         /\ \A m \in Matched : \A i, j \in InSection(m) :
              EdgeInSlice(SlotOf(m), i, j, <<g, s, d>>) <=> <<x, y>> \in WentAt(m, i, j)
<1> DEFINE ws == window_of(g, s)
           wd == window_of(g, d)
           ns == <<ws.obj, ws.sec>>
           nd == <<wd.obj, wd.sec>>
<1>1. ASSUME NEW b \in BaseCode, NEW c \in BaseCode
      PROVE  EdgeInBase(b, c, <<g, s, d>>)
               <=> <<x, y>> = <<BaseInstr(b), BaseInstr(c)>>
  <2>1. InBase({b}, <<g, s>>) <=> x = BaseInstr(b)
    BY BaseRight
  <2>2. InBase({c}, <<g, d>>) <=> y = BaseInstr(c)
    BY BaseRight
  <2>3. EdgeInBase(b, c, <<g, s, d>>)
          <=> InBase({b}, <<g, s>>) /\ InBase({c}, <<g, d>>)
    BY DEF EdgeInBase, InBase
  <2> QED
    BY <2>1, <2>2, <2>3
<1>2. ASSUME NEW m \in Matched, NEW i \in InSection(m), NEW j \in InSection(m),
             EdgeInSlice(SlotOf(m), i, j, <<g, s, d>>)
      PROVE  <<x, y>> \in WentAt(m, i, j)
  <2>1. /\ ws # NoWindow /\ Attributed(ws) /\ ws = wd /\ mod_slot(ws) = SlotOf(m)
        /\ s - ws.start = i /\ d - ws.start = j
    BY <1>2 DEF EdgeInSlice, InsideOneWindow, Attributed
  <2>2. /\ ws.obj \in Objects /\ ws.sec \in DOMAIN Layout[ws.obj]
        /\ x = AtOffset(ns, s - ws.start) /\ s - ws.start \in InSection(ns)
    BY <2>1 DEF Agrees, Fits
  <2>3. /\ y = AtOffset(nd, d - wd.start) /\ d - wd.start \in InSection(nd)
    BY <2>1 DEF Agrees, Fits
  <2>4. ns \in Matched /\ SlotOf(ns) = SlotOf(m)
    BY <2>1, <2>2, SlotFromWindow
  <2>5. x = AtOffset(ns, i) /\ y = AtOffset(ns, j)
        /\ i \in InSection(ns) /\ j \in InSection(ns)
    BY <2>1, <2>2, <2>3
  <2> HIDE DEF ws, wd, ns, nd
  <2>6. ns \in SharingSlot(m, i) \intersect SharingSlot(m, j)
    BY <2>4, <2>5 DEF SharingSlot
  <2> QED
    BY <2>5, <2>6 DEF WentAt
<1>3. ASSUME NEW m \in Matched, NEW i \in InSection(m), NEW j \in InSection(m),
             <<x, y>> \in WentAt(m, i, j)
      PROVE  EdgeInSlice(SlotOf(m), i, j, <<g, s, d>>)
  <2>1. PICK n \in SharingSlot(m, i) \intersect SharingSlot(m, j) :
          <<x, y>> = <<AtOffset(n, i), AtOffset(n, j)>>
    BY <1>3 DEF WentAt
  <2>2. x = AtOffset(n, i) /\ y = AtOffset(n, j)
    BY <2>1
  <2>3. x \in RanAt(m, i) /\ y \in RanAt(m, j)
    BY <2>1, <2>2 DEF RanAt
  <2>4. InSlice(SlotOf(m), i, <<g, s>>) /\ InSlice(SlotOf(m), j, <<g, d>>)
    BY <2>3, SliceRight
  <2>5. /\ ws # NoWindow /\ Attributed(ws) /\ mod_slot(ws) = SlotOf(m)
        /\ wd # NoWindow
        /\ s - ws.start = i /\ d - wd.start = j
    BY <2>4 DEF InSlice, Attributed
  <2>6. /\ ws.obj \in Objects /\ ws.sec \in DOMAIN Layout[ws.obj]
        /\ x = AtOffset(ns, i) /\ i \in InSection(ns)
    BY <2>5 DEF Agrees, Fits
  <2>7. /\ wd.obj \in Objects /\ wd.sec \in DOMAIN Layout[wd.obj]
        /\ y = AtOffset(nd, j) /\ j \in InSection(nd)
    BY <2>5 DEF Agrees, Fits
  <2>8. ws \in gen_windows(g) /\ wd \in gen_windows(g)
    BY <2>5, WindowInMap
  <2> HIDE DEF ws, wd
  <2>9. n \in Matched /\ i \in InSection(n) /\ j \in InSection(n)
    BY <2>1 DEF SharingSlot
  <2>10. /\ n \in Objects \X Sections /\ n[2] \in DOMAIN Layout[n[1]]
         /\ ns \in Objects \X Sections /\ ns[2] \in DOMAIN Layout[ns[1]]
         /\ nd \in Objects \X Sections /\ nd[2] \in DOMAIN Layout[nd[1]]
    BY <2>6, <2>7, <2>9 DEF Matched, LoaderAssumption
  <2> HIDE DEF ns, nd
  <2>11. ns = n
    <3>1. /\ AtOffset(ns, i) = AtOffset(n, i)
          /\ i \in InSection(ns) /\ i \in InSection(n)
      BY <2>2, <2>6, <2>9
    <3> QED
      BY ONLY LoaderAssumption, SplitAssumption, <2>10, <3>1, SameByte
  <2>12. nd = n
    <3>1. /\ AtOffset(nd, j) = AtOffset(n, j)
          /\ j \in InSection(nd) /\ j \in InSection(n)
      BY <2>2, <2>7, <2>9
    <3> QED
      BY ONLY LoaderAssumption, SplitAssumption, <2>10, <3>1, SameByte
  <2>13. ws.obj = wd.obj /\ ws.sec = wd.sec
    BY <2>11, <2>12 DEF ns, nd
  <2>14. ws = wd
    BY <2>8, <2>13, OnePlace
  <2>15. s - ws.start = i /\ d - ws.start = j
    BY <2>5, <2>14
  <2> QED
    BY <2>5, <2>14, <2>15 DEF EdgeInSlice, InsideOneWindow, ws, wd
<1> HIDE DEF ws, wd
<1> QED
  BY <1>1, <1>2, <1>3

(***************************************************************************)
(* What a step counts.  A map that has been recorded is never changed, so  *)
(* a record keeps its meaning; and a step counts nothing, or one block and *)
(* the edge into it, under the map in force.                               *)
(***************************************************************************)
Tallied ==
  /\ FiniteBag(records) /\ FiniteBag(edges) /\ FiniteBag(ran) /\ FiniteBag(went)
  /\ \A r \in DOMAIN records : r[1] \in 0 .. rtl_generation
  /\ \A e \in DOMAIN edges : e[1] \in 0 .. rtl_generation

(* The pending source is what the vCPU executed last, if anything.         *)
Pending ==
  /\ prev \in [Vcpus -> Addresses \union {NoAddr}]
  /\ at = [v \in Vcpus |-> at[v]]
  /\ \A v \in Vcpus :
       /\ prev[v] = NoAddr <=> at[v] = Nowhere
       /\ prev[v] # NoAddr => AgreesIn(CurrentMap, prev[v], at[v])

StableMaps == \A h \in 0 .. rtl_generation : MapOf(h)' = MapOf(h)
Quiet      == UNCHANGED <<records, edges, ran, went>>
Counted(v, a) == Count(v, a) /\ Note(v, a)

LEMMA SameMaps ==
  ASSUME rtl_snaps' = rtl_snaps, rtl_generation' = rtl_generation
  PROVE  StableMaps /\ CurrentMap' = CurrentMap
  BY DEF StableMaps, MapOf, CurrentMap

LEMMA BumpedMaps ==
  ASSUME LoaderAssumption, MapInv, Bump, r_map' = r_map
  PROVE  StableMaps /\ 0 .. rtl_generation \subseteq 0 .. rtl_generation'
         /\ CurrentMap' \in SUBSET Placed
<1>1. /\ rtl_generation \in Nat /\ rtl_snaps \in Seq(SUBSET Placed)
      /\ Len(rtl_snaps) = rtl_generation /\ r_map \in Seq(Placed)
  BY DEF MapInv, MapTypes
<1>2. Snapshot \subseteq Chain /\ Snapshot \in SUBSET Placed
  BY <1>1, SnapshotOnChain, ChainPlaced
<1>3. /\ rtl_generation' = rtl_generation + 1
      /\ rtl_snaps' = Append(rtl_snaps, Snapshot)
  BY DEF Bump
<1>4. /\ DOMAIN rtl_snaps = 1 .. rtl_generation
      /\ DOMAIN rtl_snaps' = 1 .. rtl_generation + 1
      /\ \A h \in DOMAIN rtl_snaps : rtl_snaps'[h] = rtl_snaps[h]
  BY <1>1, <1>2, <1>3
<1>5. ASSUME NEW h \in 0 .. rtl_generation
      PROVE  MapOf(h)' = MapOf(h)
  <2>1. h \in DOMAIN rtl_snaps <=> h \in DOMAIN rtl_snaps'
    BY <1>1, <1>4
  <2> QED
    BY <1>4, <2>1 DEF MapOf
<1>6. CurrentMap' = Snapshot
  BY BumpedMap
<1>7. 0 .. rtl_generation \subseteq 0 .. rtl_generation'
  BY <1>1, <1>3
<1> QED
  BY <1>2, <1>5, <1>6, <1>7 DEF StableMaps

LEMMA NotNowhere ==
  ASSUME LoaderAssumption, NEW M, NEW a \in Nat, NEW x, AgreesIn(M, a, x)
  PROVE  x # Nowhere /\ a # NoAddr
<1>1. a # NoAddr /\ NoObject \notin Objects
  BY DEF LoaderAssumption
<1>2. BaseInstr(a) # Nowhere
  BY <1>1 DEF BaseInstr, Nowhere
<1>3. x = BaseInstr(a) \/ x.obj \in Objects
  BY DEF AgreesIn, Fits, AtOffset, CodeAt
<1>4. Nowhere.obj \notin Objects
  BY <1>1 DEF Nowhere
<1> QED
  BY <1>1, <1>2, <1>3, <1>4

LEMMA AddressesNat ==
  ASSUME LoaderAssumption
  PROVE  Addresses \subseteq Nat
<1>1. \A p \in Placed : Occupied(p) \subseteq Nat
  <2> SUFFICES ASSUME NEW p \in Placed PROVE Occupied(p) \subseteq Nat
    OBVIOUS
  <2>1. p.obj \in Objects /\ p.base \in Nat
    BY PlacedParts
  <2>2. Offsets(p.obj) \subseteq Nat
    BY <2>1 DEF Offsets, LoaderAssumption
  <2> QED
    BY <2>1, <2>2 DEF Occupied
<1>2. ModuleCode \subseteq Nat
  BY <1>1 DEF ModuleCode
<1>3. BaseCode \subseteq Nat
  BY DEF LoaderAssumption
<1> QED
  BY <1>2, <1>3 DEF Addresses

LEMMA ExecuteStep ==
  ASSUME LoaderAssumption, SplitAssumption, ChainInv, Capped => KnownInv,
         Pending, NEW v \in Vcpus, NEW a \in Addresses, Execute(v, a)
  PROVE  /\ StableMaps /\ rtl_generation' = rtl_generation /\ Pending'
         /\ Counted(v, a) /\ Agrees(rtl_generation, a, Instr(a))
<1>1. /\ a \in Runnable(v) /\ Counted(v, a) /\ prev' = [prev EXCEPT ![v] = a]
      /\ at' = [at EXCEPT ![v] = Instr(a)]
      /\ rtl_snaps' = rtl_snaps /\ rtl_generation' = rtl_generation
  BY DEF Execute, Counted, Note, plugin
<1>2. cur_ctx[v] = rtl_generation
  BY DEF ChainInv, MapInv, Tagged
<1>3. Agrees(rtl_generation, a, Instr(a))
  BY <1>1, <1>2, RunsAgree
<1>4. AgreesIn(CurrentMap, a, Instr(a))
  BY <1>3, AgreesSame DEF CurrentMap
<1>5. a \in Nat
  BY AddressesNat
<1>6. StableMaps /\ CurrentMap' = CurrentMap
  BY <1>1, SameMaps
<1>7. a # NoAddr /\ Instr(a) # Nowhere
  BY <1>4, <1>5, NotNowhere
<1> HIDE DEF Counted
<1>8. Pending'
  BY <1>1, <1>4, <1>6, <1>7 DEF Pending
<1> QED
  BY <1>1, <1>3, <1>6, <1>8

(* A callback, whether or not its block is in the plugin's range.          *)
LEMMA HookStep ==
  ASSUME LoaderAssumption, SplitAssumption, ChainInv, Pending,
         NEW v \in Vcpus, Vcpus = {v}, NEW hook \in BaseCode,
         EnterHook(v, hook), BreakFlow(v, hook), CurrentMap' \in SUBSET Placed
  PROVE  /\ Pending'
         /\ \/ Quiet
            \/ Counted(v, hook) /\ Agrees(rtl_generation, hook, Instr(hook))
<1>1. /\ hook \in Addresses /\ hook \in Nat /\ hook # NoAddr
      /\ r_map \in Seq(Placed)
  <2>1. BaseCode \subseteq Nat /\ NoAddr \notin Nat
    BY DEF LoaderAssumption
  <2>2. hook \in Addresses
    BY DEF Addresses
  <2>3. r_map \in Seq(Placed)
    BY DEF ChainInv, MapInv, MapTypes
  <2> QED
    BY <2>1, <2>2, <2>3
<1>2. CurrentMap \in SUBSET Placed
  BY DEF ChainInv, MapInv, MapTypes, CurrentMap, MapOf
<1>3. Instr(hook) = BaseInstr(hook)
  BY <1>1, BaseIsNoModule
<1>4. AgreesIn(CurrentMap, hook, BaseInstr(hook))
  BY <1>2, BaseAgrees
<1>5. Agrees(rtl_generation, hook, Instr(hook))
  BY <1>3, <1>4, AgreesSame DEF CurrentMap
<1>6. AgreesIn(CurrentMap', hook, BaseInstr(hook))
  BY BaseAgrees
<1>7. Instr(hook) # Nowhere
  BY <1>1, <1>3, <1>4, NotNowhere
<1>8. CASE HooksInRange
  <2>1. Counted(v, hook) /\ at' = [at EXCEPT ![v] = Instr(hook)]
        /\ prev' = [prev EXCEPT ![v] = hook]
    BY <1>8 DEF EnterHook, Counted, Note, BreakFlow
  <2>2. Pending'
    BY <1>1, <1>3, <1>6, <1>7, <2>1 DEF Pending
  <2> QED
    BY <1>5, <2>1, <2>2
<1>9. CASE ~HooksInRange
  <2>1. Quiet /\ at' = [at EXCEPT ![v] = Nowhere]
        /\ prev' = [prev EXCEPT ![v] = NoAddr]
    BY <1>9 DEF EnterHook, BreakFlow, Quiet
  <2>2. Pending'
    BY <2>1 DEF Pending
  <2> QED
    BY <2>1, <2>2
<1> QED
  BY <1>8, <1>9

PlainStep ==
  /\ StableMaps /\ 0 .. rtl_generation \subseteq 0 .. rtl_generation'
  /\ Pending'
  /\ \/ Quiet
     \/ \E v \in Vcpus, a \in Addresses :
          Counted(v, a) /\ Agrees(rtl_generation, a, Instr(a))

LEMMA StepShape ==
  ASSUME LoaderAssumption, SplitAssumption, NEW u, Vcpus = {u},
         ChainInv, Capped => KnownInv, Pending, [Next]_vars
  PROVE  PlainStep
<1>0. /\ MapInv /\ loader \in Vcpus /\ u \in Vcpus
      /\ CurrentMap \in SUBSET Placed
      /\ StateHook \in BaseCode /\ LoadHook \in BaseCode
      /\ BaseCode \subseteq Addresses
  BY DEF ChainInv, MapInv, MapTypes, CurrentMap, MapOf, LoaderAssumption, Addresses
<1>q. ASSUME UNCHANGED <<rtl_generation, rtl_snaps, prev, at, records, edges, ran, went>>
      PROVE  PlainStep
  <2>1. StableMaps /\ CurrentMap' = CurrentMap
    BY <1>q, SameMaps
  <2>2. Pending'
    BY <1>q, <2>1 DEF Pending
  <2>3. Quiet
    BY <1>q DEF Quiet
  <2> QED
    BY <1>q, <2>1, <2>2, <2>3 DEF PlainStep
<1>h. ASSUME NEW hook \in BaseCode, EnterHook(loader, hook),
             BreakFlow(loader, hook), StableMaps,
             0 .. rtl_generation \subseteq 0 .. rtl_generation',
             CurrentMap' \in SUBSET Placed
      PROVE  PlainStep
  <2>1. /\ Pending'
        /\ \/ Quiet
           \/ Counted(loader, hook) /\ Agrees(rtl_generation, hook, Instr(hook))
    BY <1>0, <1>h, HookStep
  <2>2. hook \in Addresses
    BY <1>0
  <2> QED
    BY <1>0, <1>h, <2>1, <2>2 DEF PlainStep
<1>1. ASSUME NEW v \in Vcpus, NEW a \in Addresses, Execute(v, a)
      PROVE  PlainStep
  BY <1>1, ExecuteStep DEF PlainStep
<1>2. ASSUME NEW v \in Vcpus, BeginLoad(v)
      PROVE  PlainStep
  BY <1>2, <1>q DEF BeginLoad, plugin, tables, history
<1>3. ASSUME NEW v \in Vcpus, NEW D \in SUBSET Objects, BeginUnload(v, D)
      PROVE  PlainStep
  BY <1>3, <1>q DEF BeginUnload, plugin, tables, history
<1>4. CASE NotifyState
  <2>1. EnterHook(loader, StateHook) /\ BreakFlow(loader, StateHook)
        /\ r_map' = r_map
    BY <1>4 DEF NotifyState, vcpu_rtl_state
  <2>2. CASE Bump
    BY <1>0, <1>h, <2>1, <2>2, BumpedMaps
  <2>3. CASE UNCHANGED <<rtl_generation, rtl_snaps>>
    <3>1. StableMaps /\ CurrentMap' = CurrentMap
      BY <2>3, SameMaps
    <3> QED
      BY <1>0, <1>h, <2>1, <2>3, <3>1
  <2> QED
    BY <1>4, <2>2, <2>3 DEF NotifyState, vcpu_rtl_state
<1>5. ASSUME NEW p \in Placed, Link(p)
      PROVE  PlainStep
  BY <1>5, <1>q DEF Link, plugin, tables, history
<1>6. ASSUME NEW o \in Objects, NotifyLoad(o)
      PROVE  PlainStep
  <2>1. /\ EnterHook(loader, LoadHook) /\ BreakFlow(loader, LoadHook)
        /\ r_map' = r_map /\ Bump
    BY <1>6 DEF NotifyLoad, NextConstructors, vcpu_rtl_load
  <2> QED
    BY <1>0, <1>h, <2>1, BumpedMaps
<1>7. ASSUME NEW o \in Objects, StartConstructors(o)
      PROVE  PlainStep
  BY <1>7, <1>q DEF StartConstructors, plugin, tables, history
<1>8. ASSUME NEW i \in DOMAIN r_map, Unlink(i)
      PROVE  PlainStep
  BY <1>8, <1>q DEF Unlink, plugin, tables, history
<1>9. CASE Finish
  BY <1>9, <1>q DEF Finish, plugin, tables, history
<1>10. CASE UNCHANGED vars
  BY <1>10, <1>q DEF vars, plugin, tables, history
<1> QED
  BY <1>1, <1>2, <1>3, <1>4, <1>5, <1>6, <1>7, <1>8, <1>9, <1>10 DEF Next

(***************************************************************************)
(* The tallies.                                                            *)
(***************************************************************************)
LEMMA FiniteKinds ==
  ASSUME SplitAssumption, NEW m \in Matched, NEW i, NEW j
  PROVE  /\ IsFiniteSet(RanAt(m, i)) /\ IsFiniteSet(WentAt(m, i, j))
         /\ IsFiniteSet(SharingSlot(m, i) \X BOOLEAN)
<1>1. IsFiniteSet(Objects \X Sections)
  BY FS_Product DEF SplitAssumption
<1>2. /\ SharingSlot(m, i) \in SUBSET (Objects \X Sections)
      /\ SharingSlot(m, i) \intersect SharingSlot(m, j) \in SUBSET (Objects \X Sections)
  BY DEF SharingSlot, Matched
<1>3. /\ IsFiniteSet(SharingSlot(m, i))
      /\ IsFiniteSet(SharingSlot(m, i) \intersect SharingSlot(m, j))
  BY <1>1, <1>2, FS_Subset
<1>4. IsFiniteSet(RanAt(m, i))
  <2> DEFINE f == [n \in SharingSlot(m, i) |-> AtOffset(n, i)]
  <2>1. RanAt(m, i) = {f[n] : n \in SharingSlot(m, i)}
    BY DEF RanAt
  <2> HIDE DEF f
  <2> QED
    BY <1>3, <2>1, ImageFinite
<1>5. IsFiniteSet(WentAt(m, i, j))
  <2> DEFINE S == SharingSlot(m, i) \intersect SharingSlot(m, j)
             f == [n \in S |-> <<AtOffset(n, i), AtOffset(n, j)>>]
  <2>1. WentAt(m, i, j) = {f[n] : n \in S}
    BY DEF WentAt
  <2>2. IsFiniteSet(S)
    BY <1>3
  <2> HIDE DEF f, S
  <2> QED
    BY <2>1, <2>2, ImageFinite
<1>6. IsFiniteSet(SharingSlot(m, i) \X BOOLEAN)
  <2>1. IsFiniteSet({TRUE}) /\ IsFiniteSet({TRUE} \union {FALSE})
    BY FS_EmptySet, FS_Singleton, FS_AddElement
  <2>2. BOOLEAN = {TRUE} \union {FALSE}
    OBVIOUS
  <2>3. IsFiniteSet(BOOLEAN)
    BY <2>1, <2>2
  <2> QED
    BY <1>3, <2>3, FS_Product
<1> QED
  BY <1>4, <1>5, <1>6

LEMMA WindowStable ==
  ASSUME StableMaps, NEW h \in 0 .. rtl_generation, NEW a
  PROVE  window_of(h, a)' = window_of(h, a)
<1>1. MapOf(h)' = MapOf(h)
  BY DEF StableMaps
<1>2. gen_windows(h)' = gen_windows(h)
  BY <1>1 DEF gen_windows
<1> QED
  BY <1>2 DEF window_of

(* What is counted next at an offset of a slice, and in the base slice.    *)
LEMMA SliceGrows ==
  ASSUME Tallied, StableMaps, rtl_generation \in Nat, NEW a,
         records' = records (+) One(<<rtl_generation, a>>), NEW slot, NEW off
  PROVE  slot_recs(slot, off)'
           = slot_recs(slot, off)
               + IF InSlice(slot, off, <<rtl_generation, a>>) THEN 1 ELSE 0
<1> DEFINE y == <<rtl_generation, a>>
           S == {r \in DOMAIN records : InSlice(slot, off, r)}
           T == {r \in DOMAIN records' : InSlice(slot, off, r)}
<1>1. /\ FiniteBag(records) /\ DOMAIN records' = DOMAIN records \union {y}
  BY OneMore DEF Tallied
<1>2. \A r \in DOMAIN records' : r[1] \in 0 .. rtl_generation
  BY <1>1 DEF Tallied
<1>3. \A r \in DOMAIN records' : InSlice(slot, off, r)' <=> InSlice(slot, off, r)
  BY <1>2, WindowStable DEF InSlice
<1>4. slot_recs(slot, off) = Total(S, records)
  BY DEF slot_recs, InSlice, Seen, BagToSet
<1>5. slot_recs(slot, off)' = Total(T, records')
  <2>1. slot_recs(slot, off)'
          = Total({r \in DOMAIN records' : InSlice(slot, off, r)'}, records')
    BY DEF slot_recs, InSlice, Seen, BagToSet
  <2>2. {r \in DOMAIN records' : InSlice(slot, off, r)'} = T
    BY <1>3
  <2> QED
    BY <2>1, <2>2
<1>6. /\ S = T \intersect DOMAIN records /\ T \subseteq DOMAIN records \union {y}
      /\ y \in T <=> InSlice(slot, off, y)
  BY <1>1
<1> HIDE DEF S, T, y
<1>7. Total(T, records (+) One(y)) = Total(S, records) + IF y \in T THEN 1 ELSE 0
  BY <1>1, <1>6, KindGrows
<1> QED
  BY <1>4, <1>5, <1>6, <1>7 DEF y

LEMMA BaseGrows ==
  ASSUME Tallied, StableMaps, rtl_generation \in Nat, NEW a,
         records' = records (+) One(<<rtl_generation, a>>), NEW A
  PROVE  base_recs(A)'
           = base_recs(A) + IF InBase(A, <<rtl_generation, a>>) THEN 1 ELSE 0
<1> DEFINE y == <<rtl_generation, a>>
           S == {r \in DOMAIN records : InBase(A, r)}
           T == {r \in DOMAIN records' : InBase(A, r)}
<1>1. /\ FiniteBag(records) /\ DOMAIN records' = DOMAIN records \union {y}
  BY OneMore DEF Tallied
<1>2. \A r \in DOMAIN records' : r[1] \in 0 .. rtl_generation
  BY <1>1 DEF Tallied
<1>3. \A r \in DOMAIN records' : InBase(A, r)' <=> InBase(A, r)
  BY <1>2, WindowStable DEF InBase
<1>4. base_recs(A) = Total(S, records)
  BY DEF base_recs, InBase, Seen, BagToSet
<1>5. base_recs(A)' = Total(T, records')
  <2>1. base_recs(A)' = Total({r \in DOMAIN records' : InBase(A, r)'}, records')
    BY DEF base_recs, InBase, Seen, BagToSet
  <2>2. {r \in DOMAIN records' : InBase(A, r)'} = T
    BY <1>3
  <2> QED
    BY <2>1, <2>2
<1>6. /\ S = T \intersect DOMAIN records /\ T \subseteq DOMAIN records \union {y}
      /\ y \in T <=> InBase(A, y)
  BY <1>1
<1> HIDE DEF S, T, y
<1>7. Total(T, records (+) One(y)) = Total(S, records) + IF y \in T THEN 1 ELSE 0
  BY <1>1, <1>6, KindGrows
<1> QED
  BY <1>4, <1>5, <1>6, <1>7 DEF y

LEMMA SliceEdgesGrow ==
  ASSUME Tallied, StableMaps, rtl_generation \in Nat, NEW s, NEW d,
         edges' = edges (+) One(<<rtl_generation, s, d>>), NEW slot, NEW i, NEW j
  PROVE  slot_edges(slot, i, j)'
           = slot_edges(slot, i, j)
               + IF EdgeInSlice(slot, i, j, <<rtl_generation, s, d>>) THEN 1 ELSE 0
<1> DEFINE y == <<rtl_generation, s, d>>
           S == {e \in DOMAIN edges : EdgeInSlice(slot, i, j, e)}
           T == {e \in DOMAIN edges' : EdgeInSlice(slot, i, j, e)}
<1>1. /\ FiniteBag(edges) /\ DOMAIN edges' = DOMAIN edges \union {y}
  BY OneMore DEF Tallied
<1>2. \A e \in DOMAIN edges' : e[1] \in 0 .. rtl_generation
  BY <1>1 DEF Tallied
<1>3. \A e \in DOMAIN edges' : EdgeInSlice(slot, i, j, e)' <=> EdgeInSlice(slot, i, j, e)
  BY <1>2, WindowStable DEF EdgeInSlice
<1>4. slot_edges(slot, i, j) = Total(S, edges)
  BY DEF slot_edges, EdgeInSlice, Seen, BagToSet
<1>5. slot_edges(slot, i, j)' = Total(T, edges')
  <2>1. slot_edges(slot, i, j)'
          = Total({e \in DOMAIN edges' : EdgeInSlice(slot, i, j, e)'}, edges')
    BY DEF slot_edges, EdgeInSlice, Seen, BagToSet
  <2>2. {e \in DOMAIN edges' : EdgeInSlice(slot, i, j, e)'} = T
    BY <1>3
  <2> QED
    BY <2>1, <2>2
<1>6. /\ S = T \intersect DOMAIN edges /\ T \subseteq DOMAIN edges \union {y}
      /\ y \in T <=> EdgeInSlice(slot, i, j, y)
  BY <1>1
<1> HIDE DEF S, T, y
<1>7. Total(T, edges (+) One(y)) = Total(S, edges) + IF y \in T THEN 1 ELSE 0
  BY <1>1, <1>6, KindGrows
<1> QED
  BY <1>4, <1>5, <1>6, <1>7 DEF y

LEMMA BaseEdgesGrow ==
  ASSUME Tallied, StableMaps, rtl_generation \in Nat, NEW s, NEW d,
         edges' = edges (+) One(<<rtl_generation, s, d>>), NEW b, NEW c
  PROVE  base_edges(b, c)'
           = base_edges(b, c)
               + IF EdgeInBase(b, c, <<rtl_generation, s, d>>) THEN 1 ELSE 0
<1> DEFINE y == <<rtl_generation, s, d>>
           S == {e \in DOMAIN edges : EdgeInBase(b, c, e)}
           T == {e \in DOMAIN edges' : EdgeInBase(b, c, e)}
<1>1. /\ FiniteBag(edges) /\ DOMAIN edges' = DOMAIN edges \union {y}
  BY OneMore DEF Tallied
<1>2. \A e \in DOMAIN edges' : e[1] \in 0 .. rtl_generation
  BY <1>1 DEF Tallied
<1>3. \A e \in DOMAIN edges' : EdgeInBase(b, c, e)' <=> EdgeInBase(b, c, e)
  BY <1>2, WindowStable DEF EdgeInBase
<1>4. base_edges(b, c) = Total(S, edges)
  BY DEF base_edges, EdgeInBase, Seen, BagToSet
<1>5. base_edges(b, c)' = Total(T, edges')
  <2>1. base_edges(b, c)'
          = Total({e \in DOMAIN edges' : EdgeInBase(b, c, e)'}, edges')
    BY DEF base_edges, EdgeInBase, Seen, BagToSet
  <2>2. {e \in DOMAIN edges' : EdgeInBase(b, c, e)'} = T
    BY <1>3
  <2> QED
    BY <2>1, <2>2
<1>6. /\ S = T \intersect DOMAIN edges /\ T \subseteq DOMAIN edges \union {y}
      /\ y \in T <=> EdgeInBase(b, c, y)
  BY <1>1
<1> HIDE DEF S, T, y
<1>7. Total(T, edges (+) One(y)) = Total(S, edges) + IF y \in T THEN 1 ELSE 0
  BY <1>1, <1>6, KindGrows
<1> QED
  BY <1>4, <1>5, <1>6, <1>7 DEF y

(* Where nothing is counted nothing changes.                               *)
LEMMA QuietSlices ==
  ASSUME Tallied, StableMaps, Quiet
  PROVE  /\ \A slot, off : slot_recs(slot, off)' = slot_recs(slot, off)
         /\ \A A : base_recs(A)' = base_recs(A)
<1>1. records' = records
  BY DEF Quiet
<1>2. \A r \in DOMAIN records : r[1] \in 0 .. rtl_generation
  BY DEF Tallied
<1>3. ASSUME NEW slot, NEW off
      PROVE  slot_recs(slot, off)' = slot_recs(slot, off)
  <2>1. \A r \in DOMAIN records : InSlice(slot, off, r)' <=> InSlice(slot, off, r)
    BY <1>2, WindowStable DEF InSlice
  <2>2. {r \in DOMAIN records : InSlice(slot, off, r)'}
          = {r \in DOMAIN records : InSlice(slot, off, r)}
    BY <2>1
  <2>3. slot_recs(slot, off)
          = Total({r \in DOMAIN records : InSlice(slot, off, r)}, records)
    BY DEF slot_recs, InSlice, Seen, BagToSet
  <2>4. slot_recs(slot, off)'
          = Total({r \in DOMAIN records' : InSlice(slot, off, r)'}, records')
    BY DEF slot_recs, InSlice, Seen, BagToSet
  <2> QED
    BY <1>1, <2>2, <2>3, <2>4
<1>4. ASSUME NEW A
      PROVE  base_recs(A)' = base_recs(A)
  <2>1. \A r \in DOMAIN records : InBase(A, r)' <=> InBase(A, r)
    BY <1>2, WindowStable DEF InBase
  <2>2. {r \in DOMAIN records : InBase(A, r)'} = {r \in DOMAIN records : InBase(A, r)}
    BY <2>1
  <2>3. base_recs(A) = Total({r \in DOMAIN records : InBase(A, r)}, records)
    BY DEF base_recs, InBase, Seen, BagToSet
  <2>4. base_recs(A)' = Total({r \in DOMAIN records' : InBase(A, r)'}, records')
    BY DEF base_recs, InBase, Seen, BagToSet
  <2> QED
    BY <1>1, <2>2, <2>3, <2>4
<1> QED
  BY <1>3, <1>4

LEMMA StillEdges ==
  ASSUME Tallied, StableMaps, edges' = edges
  PROVE  /\ \A slot, i, j : slot_edges(slot, i, j)' = slot_edges(slot, i, j)
         /\ \A b, c : base_edges(b, c)' = base_edges(b, c)
<1>1. edges' = edges
  OBVIOUS
<1>2. \A e \in DOMAIN edges : e[1] \in 0 .. rtl_generation
  BY DEF Tallied
<1>3. ASSUME NEW slot, NEW i, NEW j
      PROVE  slot_edges(slot, i, j)' = slot_edges(slot, i, j)
  <2>1. \A e \in DOMAIN edges : EdgeInSlice(slot, i, j, e)' <=> EdgeInSlice(slot, i, j, e)
    BY <1>2, WindowStable DEF EdgeInSlice
  <2>2. {e \in DOMAIN edges : EdgeInSlice(slot, i, j, e)'}
          = {e \in DOMAIN edges : EdgeInSlice(slot, i, j, e)}
    BY <2>1
  <2>3. slot_edges(slot, i, j)
          = Total({e \in DOMAIN edges : EdgeInSlice(slot, i, j, e)}, edges)
    BY DEF slot_edges, EdgeInSlice, Seen, BagToSet
  <2>4. slot_edges(slot, i, j)'
          = Total({e \in DOMAIN edges' : EdgeInSlice(slot, i, j, e)'}, edges')
    BY DEF slot_edges, EdgeInSlice, Seen, BagToSet
  <2> QED
    BY <1>1, <2>2, <2>3, <2>4
<1>4. ASSUME NEW b, NEW c
      PROVE  base_edges(b, c)' = base_edges(b, c)
  <2>1. \A e \in DOMAIN edges : EdgeInBase(b, c, e)' <=> EdgeInBase(b, c, e)
    BY <1>2, WindowStable DEF EdgeInBase
  <2>2. {e \in DOMAIN edges : EdgeInBase(b, c, e)'}
          = {e \in DOMAIN edges : EdgeInBase(b, c, e)}
    BY <2>1
  <2>3. base_edges(b, c) = Total({e \in DOMAIN edges : EdgeInBase(b, c, e)}, edges)
    BY DEF base_edges, EdgeInBase, Seen, BagToSet
  <2>4. base_edges(b, c)' = Total({e \in DOMAIN edges' : EdgeInBase(b, c, e)'}, edges')
    BY DEF base_edges, EdgeInBase, Seen, BagToSet
  <2> QED
    BY <1>1, <2>2, <2>3, <2>4
<1> QED
  BY <1>3, <1>4

(***************************************************************************)
(* Each property survives a step.                                          *)
(***************************************************************************)
RanLike(m, i) == {CodeAt(q[1], i, q[2]) : q \in SharingSlot(m, i) \X BOOLEAN}

LEMMA FiniteLike ==
  ASSUME SplitAssumption, NEW m \in Matched, NEW i
  PROVE  IsFiniteSet(RanLike(m, i))
<1> DEFINE S == SharingSlot(m, i) \X BOOLEAN
           f == [q \in S |-> CodeAt(q[1], i, q[2])]
<1>1. RanLike(m, i) = {f[q] : q \in S}
  BY DEF RanLike
<1>2. IsFiniteSet(S)
  BY FiniteKinds
<1> HIDE DEF f, S
<1> QED
  BY <1>1, <1>2, ImageFinite

(* What one counted block does to the tallies.                             *)
LEMMA CountedStep ==
  ASSUME MapInv, Tallied, Pending, NEW v \in Vcpus, NEW a, Counted(v, a)
  PROVE  /\ rtl_generation \in Nat
         /\ records' = records (+) One(<<rtl_generation, a>>)
         /\ ran' = ran (+) One(Instr(a))
         /\ \/ /\ prev[v] = NoAddr
               /\ edges' = edges /\ went' = went
            \/ /\ prev[v] # NoAddr /\ prev[v] \in Addresses
               /\ AgreesIn(CurrentMap, prev[v], at[v])
               /\ edges' = edges (+) One(<<rtl_generation, prev[v], a>>)
               /\ went' = went (+) One(<<at[v], Instr(a)>>)
<1>1. rtl_generation \in Nat /\ cur_ctx[v] = rtl_generation
  BY DEF MapInv, MapTypes, Tagged
<1>2. /\ records' = records (+) One(<<rtl_generation, a>>)
      /\ edges' = IF prev[v] = NoAddr THEN edges
                  ELSE edges (+) One(<<rtl_generation, prev[v], a>>)
      /\ ran' = ran (+) One(Instr(a))
      /\ went' = IF at[v] = Nowhere THEN went ELSE went (+) One(<<at[v], Instr(a)>>)
  BY <1>1 DEF Counted, Count, Note
<1>3. /\ prev[v] = NoAddr <=> at[v] = Nowhere
      /\ prev[v] # NoAddr => prev[v] \in Addresses /\ AgreesIn(CurrentMap, prev[v], at[v])
  BY DEF Pending
<1> QED
  BY <1>1, <1>2, <1>3

LEMMA TalliedStep ==
  ASSUME MapInv, Tallied, Pending, PlainStep
  PROVE  Tallied'
<1>1. 0 .. rtl_generation \subseteq 0 .. rtl_generation'
  BY DEF PlainStep
<1>2. CASE Quiet
  BY <1>1, <1>2 DEF Quiet, Tallied
<1>3. ASSUME NEW v \in Vcpus, NEW a, Counted(v, a)
      PROVE  Tallied'
  <2>0. /\ rtl_generation \in Nat
        /\ records' = records (+) One(<<rtl_generation, a>>)
        /\ ran' = ran (+) One(Instr(a))
    BY CountedStep, <1>3
  <2>1. rtl_generation \in 0 .. rtl_generation
    BY <2>0
  <2>2. FiniteBag(records') /\ FiniteBag(ran')
    BY <2>0, OneMore DEF Tallied
  <2>3. \A r \in DOMAIN records' : r[1] \in 0 .. rtl_generation
    <3>1. DOMAIN records' = DOMAIN records \union {<<rtl_generation, a>>}
      BY <2>0, OneMore DEF Tallied
    <3> QED
      BY <2>1, <3>1 DEF Tallied
  <2>4. CASE edges' = edges /\ went' = went
    <3>1. FiniteBag(edges') /\ FiniteBag(went')
      BY <2>4 DEF Tallied
    <3>2. \A e \in DOMAIN edges' : e[1] \in 0 .. rtl_generation
      BY <2>4 DEF Tallied
    <3> QED
      BY <1>1, <2>2, <2>3, <3>1, <3>2 DEF Tallied
  <2>5. CASE /\ edges' = edges (+) One(<<rtl_generation, prev[v], a>>)
             /\ went' = went (+) One(<<at[v], Instr(a)>>)
    <3>1. FiniteBag(edges') /\ FiniteBag(went')
      BY <2>5, OneMore DEF Tallied
    <3>2. \A e \in DOMAIN edges' : e[1] \in 0 .. rtl_generation
      <4>1. DOMAIN edges' = DOMAIN edges \union {<<rtl_generation, prev[v], a>>}
        BY <2>5, OneMore DEF Tallied
      <4> QED
        BY <2>1, <4>1 DEF Tallied
    <3> QED
      BY <1>1, <2>2, <2>3, <3>1, <3>2 DEF Tallied
  <2> QED
    BY <1>3, <2>4, <2>5, CountedStep
<1> QED
  BY <1>2, <1>3 DEF PlainStep

LEMMA SlicesStep ==
  ASSUME LoaderAssumption, SplitAssumption, Capped,
         MapInv, Tallied, Pending, PlainStep, SlicesExact
  PROVE  SlicesExact'
<1>1. StableMaps
  BY DEF PlainStep
<1>2. \A m \in Matched : \A i \in InSection(m) :
        slot_recs(SlotOf(m), i) = Total(RanAt(m, i), ran)
  BY DEF SlicesExact, RanAt
<1> SUFFICES \A m \in Matched : \A i \in InSection(m) :
               slot_recs(SlotOf(m), i)' = Total(RanAt(m, i), ran')
  BY DEF SlicesExact, RanAt
<1> SUFFICES ASSUME NEW m \in Matched, NEW i \in InSection(m)
             PROVE  slot_recs(SlotOf(m), i)' = Total(RanAt(m, i), ran')
  OBVIOUS
<1>3. CASE Quiet
  BY <1>1, <1>2, <1>3, QuietSlices DEF Quiet
<1>4. ASSUME NEW v \in Vcpus, NEW a, Counted(v, a),
             Agrees(rtl_generation, a, Instr(a))
      PROVE  slot_recs(SlotOf(m), i)' = Total(RanAt(m, i), ran')
  <2>1. /\ rtl_generation \in Nat
        /\ records' = records (+) One(<<rtl_generation, a>>)
        /\ ran' = ran (+) One(Instr(a))
    BY <1>4, CountedStep
  <2>2. slot_recs(SlotOf(m), i)'
          = slot_recs(SlotOf(m), i)
              + IF InSlice(SlotOf(m), i, <<rtl_generation, a>>) THEN 1 ELSE 0
    BY <1>1, <2>1, SliceGrows
  <2>3. Total(RanAt(m, i), ran (+) One(Instr(a)))
          = Total(RanAt(m, i), ran) + IF Instr(a) \in RanAt(m, i) THEN 1 ELSE 0
    <3>1. IsFiniteSet(RanAt(m, i)) /\ FiniteBag(ran)
      BY FiniteKinds DEF Tallied
    <3> QED
      BY ONLY <3>1, TotalGrows
  <2>4. InSlice(SlotOf(m), i, <<rtl_generation, a>>) <=> Instr(a) \in RanAt(m, i)
    BY <1>4, SliceRight
  <2> QED
    BY <1>2, <2>1, <2>2, <2>3, <2>4
<1> QED
  BY <1>3, <1>4 DEF PlainStep

LEMMA InventedStep ==
  ASSUME LoaderAssumption, SplitAssumption,
         MapInv, Tallied, Pending, PlainStep, NothingInvented
  PROVE  NothingInvented'
<1>1. StableMaps
  BY DEF PlainStep
<1>2. \A m \in Matched : \A i \in InSection(m) :
        slot_recs(SlotOf(m), i) <= Total(RanLike(m, i), ran)
  BY DEF NothingInvented, RanLike
<1> SUFFICES \A m \in Matched : \A i \in InSection(m) :
               slot_recs(SlotOf(m), i)' <= Total(RanLike(m, i), ran')
  BY DEF NothingInvented, RanLike
<1> SUFFICES ASSUME NEW m \in Matched, NEW i \in InSection(m)
             PROVE  slot_recs(SlotOf(m), i)' <= Total(RanLike(m, i), ran')
  OBVIOUS
<1>3. CASE Quiet
  BY <1>1, <1>2, <1>3, QuietSlices DEF Quiet
<1>4. ASSUME NEW v \in Vcpus, NEW a, Counted(v, a),
             Agrees(rtl_generation, a, Instr(a))
      PROVE  slot_recs(SlotOf(m), i)' <= Total(RanLike(m, i), ran')
  <2>1. /\ rtl_generation \in Nat
        /\ records' = records (+) One(<<rtl_generation, a>>)
        /\ ran' = ran (+) One(Instr(a))
    BY <1>4, CountedStep
  <2>2. slot_recs(SlotOf(m), i)'
          = slot_recs(SlotOf(m), i)
              + IF InSlice(SlotOf(m), i, <<rtl_generation, a>>) THEN 1 ELSE 0
    BY <1>1, <2>1, SliceGrows
  <2>3. IsFiniteSet(RanLike(m, i))
    BY FiniteLike
  <2>4. Total(RanLike(m, i), ran (+) One(Instr(a)))
          = Total(RanLike(m, i), ran) + IF Instr(a) \in RanLike(m, i) THEN 1 ELSE 0
    BY <2>3, TotalGrows DEF Tallied
  <2>5. RanAt(m, i) \subseteq RanLike(m, i)
    <3> SUFFICES ASSUME NEW n \in SharingSlot(m, i)
                 PROVE  AtOffset(n, i) \in RanLike(m, i)
      BY DEF RanAt
    <3>1. AtOffset(n, i) = CodeAt(n, i, FALSE)
      BY DEF AtOffset
    <3> DEFINE q == <<n, FALSE>>
    <3>2. /\ q \in SharingSlot(m, i) \X BOOLEAN
          /\ q[1] = n /\ q[2] = FALSE
      OBVIOUS
    <3> HIDE DEF q
    <3>3. AtOffset(n, i) = CodeAt(q[1], i, q[2])
      BY <3>1, <3>2
    <3> QED
      BY <3>2, <3>3 DEF RanLike
  <2>6. InSlice(SlotOf(m), i, <<rtl_generation, a>>) => Instr(a) \in RanLike(m, i)
    BY <1>4, <2>5, SliceRight
  <2>7. Total(RanLike(m, i), ran) \in Nat
    BY <2>3, TotalIsSum DEF Tallied
  <2>8. slot_recs(SlotOf(m), i) \in Nat
    <3> DEFINE S == {r \in DOMAIN records : InSlice(SlotOf(m), i, r)}
    <3>1. slot_recs(SlotOf(m), i) = Total(S, records)
      BY DEF slot_recs, InSlice, Seen, BagToSet
    <3>2. IsFiniteSet(S)
      BY FS_Subset DEF Tallied, FiniteBag
    <3> HIDE DEF S
    <3> QED
      BY <3>1, <3>2, TotalIsSum DEF Tallied
  <2> QED
    BY <1>2, <2>1, <2>2, <2>4, <2>6, <2>7, <2>8
<1> QED
  BY <1>3, <1>4 DEF PlainStep

LEMMA BaseStep ==
  ASSUME LoaderAssumption, SplitAssumption, Capped,
         MapInv, Tallied, Pending, PlainStep, BaseExact
  PROVE  BaseExact'
<1> DEFINE Early(B) == {x \in DOMAIN B : x.early}
<1>1. StableMaps
  BY DEF PlainStep
<1>2. /\ \A b \in BaseCode : base_recs({b}) = Copies(BaseInstr(b), ran)
      /\ base_recs(ModuleCode) = Total(Early(ran), ran)
  BY DEF BaseExact, Seen, BagToSet
<1> SUFFICES /\ \A b \in BaseCode : base_recs({b})' = Copies(BaseInstr(b), ran')
             /\ base_recs(ModuleCode)' = Total(Early(ran'), ran')
  BY DEF BaseExact, Seen, BagToSet
<1>3. CASE Quiet
  BY <1>1, <1>2, <1>3, QuietSlices DEF Quiet
<1>4. ASSUME NEW v \in Vcpus, NEW a, Counted(v, a),
             Agrees(rtl_generation, a, Instr(a))
      PROVE  /\ \A b \in BaseCode : base_recs({b})' = Copies(BaseInstr(b), ran')
             /\ base_recs(ModuleCode)' = Total(Early(ran'), ran')
  <2>1. /\ rtl_generation \in Nat
        /\ records' = records (+) One(<<rtl_generation, a>>)
        /\ ran' = ran (+) One(Instr(a))
    BY <1>4, CountedStep
  <2>2. \A A : base_recs(A)'
                 = base_recs(A) + IF InBase(A, <<rtl_generation, a>>) THEN 1 ELSE 0
    BY <1>1, <2>1, BaseGrows
  <2>3. /\ \A b \in BaseCode :
             InBase({b}, <<rtl_generation, a>>) <=> Instr(a) = BaseInstr(b)
        /\ InBase(ModuleCode, <<rtl_generation, a>>) <=> Instr(a).early
    BY <1>4, BaseRight
  <2>4. ASSUME NEW b \in BaseCode
        PROVE  base_recs({b})' = Copies(BaseInstr(b), ran')
    <3>1. Copies(BaseInstr(b), ran (+) One(Instr(a)))
            = Copies(BaseInstr(b), ran) + IF BaseInstr(b) = Instr(a) THEN 1 ELSE 0
      BY OneMore DEF Tallied
    <3> QED
      BY <1>2, <2>1, <2>2, <2>3, <3>1
  <2>5. base_recs(ModuleCode)' = Total(Early(ran'), ran')
    <3> DEFINE y == Instr(a)
               S == Early(ran)
               T == Early(ran')
    <3>1. FiniteBag(ran) /\ DOMAIN ran' = DOMAIN ran \union {y}
      BY <2>1, OneMore DEF Tallied
    <3>2. /\ S = T \intersect DOMAIN ran /\ T \subseteq DOMAIN ran \union {y}
          /\ y \in T <=> y.early
      BY <3>1
    <3> HIDE DEF S, T, y
    <3>3. Total(T, ran (+) One(y)) = Total(S, ran) + IF y \in T THEN 1 ELSE 0
      BY <3>1, <3>2, KindGrows
    <3> QED
      BY <1>2, <2>1, <2>2, <2>3, <3>2, <3>3 DEF S, T, y
  <2> QED
    BY <2>4, <2>5
<1> QED
  BY <1>3, <1>4 DEF PlainStep

LEMMA SliceEdgesStep ==
  ASSUME LoaderAssumption, SplitAssumption, Capped,
         MapInv, ApartIn(CurrentMap), Tallied, Pending, PlainStep, SliceEdgesExact
  PROVE  SliceEdgesExact'
<1> DEFINE Same ==
       /\ \A b, c \in BaseCode :
            base_edges(b, c)' = Copies(<<BaseInstr(b), BaseInstr(c)>>, went')
       /\ \A m \in Matched : \A i, j \in InSection(m) :
            slot_edges(SlotOf(m), i, j)' = Total(WentAt(m, i, j), went')
<1>1. StableMaps
  BY DEF PlainStep
<1>2. /\ \A b, c \in BaseCode :
           base_edges(b, c) = Copies(<<BaseInstr(b), BaseInstr(c)>>, went)
      /\ \A m \in Matched : \A i, j \in InSection(m) :
           slot_edges(SlotOf(m), i, j) = Total(WentAt(m, i, j), went)
  BY DEF SliceEdgesExact, WentAt
<1> SUFFICES Same
  BY DEF SliceEdgesExact, WentAt
<1>3. CASE edges' = edges /\ went' = went
  <2>1. /\ \A slot, i, j : slot_edges(slot, i, j)' = slot_edges(slot, i, j)
        /\ \A b, c : base_edges(b, c)' = base_edges(b, c)
    BY <1>1, <1>3, StillEdges
  <2> QED
    BY <1>2, <1>3, <2>1
<1>4. ASSUME NEW v \in Vcpus, NEW a, Counted(v, a),
             Agrees(rtl_generation, a, Instr(a)), prev[v] # NoAddr
      PROVE  Same
  <2> DEFINE s == prev[v]
             e == <<rtl_generation, s, a>>
             t == <<at[v], Instr(a)>>
  <2>1. /\ rtl_generation \in Nat
        /\ edges' = edges (+) One(e) /\ went' = went (+) One(t)
        /\ AgreesIn(CurrentMap, s, at[v])
    BY <1>4, CountedStep
  <2>2. Agrees(rtl_generation, s, at[v])
    BY <2>1, AgreesSame DEF CurrentMap
  <2>3. MapOf(rtl_generation) \in SUBSET Placed /\ ApartIn(MapOf(rtl_generation))
    BY DEF MapInv, MapTypes, MapOf, CurrentMap
  <2>4. /\ \A b, c \in BaseCode :
             EdgeInBase(b, c, e) <=> t = <<BaseInstr(b), BaseInstr(c)>>
        /\ \A m \in Matched : \A i, j \in InSection(m) :
             EdgeInSlice(SlotOf(m), i, j, e) <=> t \in WentAt(m, i, j)
    BY <1>4, <2>2, <2>3, EdgeRight
  <2>5. ASSUME NEW b \in BaseCode, NEW c \in BaseCode
        PROVE  base_edges(b, c)' = Copies(<<BaseInstr(b), BaseInstr(c)>>, went')
    <3>1. base_edges(b, c)'
            = base_edges(b, c) + IF EdgeInBase(b, c, e) THEN 1 ELSE 0
      BY <1>1, <2>1, BaseEdgesGrow
    <3> HIDE DEF e, t
    <3>2. Copies(<<BaseInstr(b), BaseInstr(c)>>, went (+) One(t))
            = Copies(<<BaseInstr(b), BaseInstr(c)>>, went)
                + IF <<BaseInstr(b), BaseInstr(c)>> = t THEN 1 ELSE 0
      BY OneMore DEF Tallied
    <3> QED
      BY <1>2, <2>1, <2>4, <3>1, <3>2
  <2>6. ASSUME NEW m \in Matched, NEW i \in InSection(m), NEW j \in InSection(m)
        PROVE  slot_edges(SlotOf(m), i, j)' = Total(WentAt(m, i, j), went')
    <3>1. slot_edges(SlotOf(m), i, j)'
            = slot_edges(SlotOf(m), i, j)
                + IF EdgeInSlice(SlotOf(m), i, j, e) THEN 1 ELSE 0
      BY <1>1, <2>1, SliceEdgesGrow
    <3> HIDE DEF e, t
    <3>2. Total(WentAt(m, i, j), went (+) One(t))
            = Total(WentAt(m, i, j), went) + IF t \in WentAt(m, i, j) THEN 1 ELSE 0
      <4>1. IsFiniteSet(WentAt(m, i, j)) /\ FiniteBag(went)
        BY FiniteKinds DEF Tallied
      <4> QED
        BY ONLY <4>1, TotalGrows
    <3> QED
      BY <1>2, <2>1, <2>4, <3>1, <3>2
  <2> QED
    BY <2>5, <2>6
<1>5. CASE Quiet
  BY <1>3, <1>5 DEF Quiet
<1>6. ASSUME NEW v \in Vcpus, NEW a, Counted(v, a),
             Agrees(rtl_generation, a, Instr(a))
      PROVE  Same
  BY <1>3, <1>4, <1>6, CountedStep
<1> QED
  BY <1>5, <1>6 DEF PlainStep

LEMMA LoadedFromKnown ==
  ASSUME LoaderAssumption, SplitAssumption, ChainInv, Known
  PROVE  LoadedIsReported
<1> SUFFICES ASSUME NEW m \in Matched, m[1] \in Settled, m[2] \in Executable
             PROVE  SlotOf(m) \in modules
  BY DEF LoadedIsReported
<1> DEFINE g == rtl_generation
<1>1. PICK p \in Chain : p.obj = m[1]
  BY DEF Settled, Mapped
<1>2. p.obj \notin added
  BY <1>1 DEF Settled
<1>3. p \in MapOf(g)
  BY <1>2 DEF Known, CurrentMap
<1>4. g \in DOMAIN rtl_snaps
  BY <1>3 DEF MapOf
<1>5. MapOf(g) \in SUBSET Placed
  BY DEF ChainInv, MapInv, MapTypes, MapOf
<1>6. m \in Objects \X Sections /\ m[2] \in DOMAIN Layout[p.obj]
  BY <1>1 DEF Matched
<1> DEFINE w == WindowAt(p, m[2])
<1>7. w \in gen_windows(g)
  BY <1>3, <1>5, <1>6, WindowsThere, WindowsOfMap
<1>8. w # NoWindow
  BY <1>3, <1>5, <1>6, NotAWindow
<1>9. w.obj = m[1] /\ w.sec = m[2]
  BY <1>1 DEF WindowAt
<1> HIDE DEF w
<1>10. <<w.obj, w.sec>> = m
  BY <1>6, <1>9
<1>11. Attributed(w) /\ mod_slot(w) = SlotOf(m)
  BY <1>8, <1>10, WindowFromSlot
<1>12. mod_slot(w) \in EmptySlices
  BY <1>4, <1>7, <1>9, <1>11 DEF EmptySlices
<1> QED
  BY <1>11, <1>12 DEF modules

(***************************************************************************)
(* The inductive invariant.                                                *)
(***************************************************************************)
Exact == SlicesExact /\ BaseExact /\ SliceEdgesExact

SplitInv ==
  /\ ChainInv /\ Tallied /\ Pending /\ NothingInvented
  /\ Capped => KnownInv /\ Exact

LEMMA NothingYet ==
  ASSUME SplitAssumption, Init
  PROVE  Exact /\ NothingInvented /\ Tallied
<1>1. records = EmptyBag /\ edges = EmptyBag /\ ran = EmptyBag /\ went = EmptyBag
  BY DEF Init
<1>2. DOMAIN EmptyBag = {}
  BY DEF EmptyBag, SetToBag
<1>3. Tallied
  BY <1>1, <1>2, NoCopies DEF Tallied
<1>4. Total({}, EmptyBag) = 0
  BY FS_EmptySet, EmptyTotal
<1>5. /\ \A slot, off : slot_recs(slot, off) = 0
      /\ \A A : base_recs(A) = 0
      /\ \A slot, i, j : slot_edges(slot, i, j) = 0
      /\ \A b, c : base_edges(b, c) = 0
  <2>1. Seen(records) = {} /\ Seen(edges) = {}
    BY <1>1, <1>2 DEF Seen, BagToSet
  <2>2. /\ \A slot, off : {r \in Seen(records) : InSlice(slot, off, r)} = {}
        /\ \A A : {r \in Seen(records) : InBase(A, r)} = {}
        /\ \A slot, i, j : {e \in Seen(edges) : EdgeInSlice(slot, i, j, e)} = {}
        /\ \A b, c : {e \in Seen(edges) : EdgeInBase(b, c, e)} = {}
    BY <2>1
  <2>3. /\ \A slot, off : slot_recs(slot, off)
              = Total({r \in Seen(records) : InSlice(slot, off, r)}, records)
        /\ \A A : base_recs(A) = Total({r \in Seen(records) : InBase(A, r)}, records)
        /\ \A slot, i, j : slot_edges(slot, i, j)
              = Total({e \in Seen(edges) : EdgeInSlice(slot, i, j, e)}, edges)
        /\ \A b, c : base_edges(b, c)
              = Total({e \in Seen(edges) : EdgeInBase(b, c, e)}, edges)
    BY DEF slot_recs, base_recs, slot_edges, base_edges,
           InSlice, InBase, EdgeInSlice, EdgeInBase
  <2> QED
    BY <1>1, <1>4, <2>2, <2>3
<1>6. \A m \in Matched : \A i, j :
        Total(RanAt(m, i), ran) = 0 /\ Total(WentAt(m, i, j), went) = 0
  BY <1>1, FiniteKinds, EmptyTotal
<1>7. SlicesExact
  <2>1. \A m \in Matched : \A i \in InSection(m) :
          slot_recs(SlotOf(m), i) = Total(RanAt(m, i), ran)
    BY <1>5, <1>6
  <2> QED
    BY <2>1 DEF SlicesExact, RanAt
<1>8. BaseExact
  <2>1. Seen(ran) = {} /\ \A x : Copies(x, ran) = 0
    BY <1>1, <1>2, NoCopies DEF Seen, BagToSet
  <2>2. {x \in Seen(ran) : x.early} = {}
    BY <2>1
  <2>3. Total({x \in Seen(ran) : x.early}, ran) = 0
    BY <1>1, <1>4, <2>2
  <2> QED
    BY <1>5, <2>1, <2>3 DEF BaseExact
<1>9. SliceEdgesExact
  <2>1. \A m \in Matched : \A i, j \in InSection(m) :
          slot_edges(SlotOf(m), i, j) = Total(WentAt(m, i, j), went)
    BY <1>5, <1>6
  <2>2. \A s, d \in BaseCode :
          base_edges(s, d) = Copies(<<BaseInstr(s), BaseInstr(d)>>, went)
    BY <1>1, <1>5, NoCopies
  <2> QED
    BY <2>1, <2>2 DEF SliceEdgesExact, WentAt
<1>10. NothingInvented
  <2>1. \A m \in Matched : \A i \in InSection(m) : Total(RanLike(m, i), ran) = 0
    BY <1>1, FiniteLike, EmptyTotal
  <2>2. \A m \in Matched : \A i \in InSection(m) :
          slot_recs(SlotOf(m), i) <= Total(RanLike(m, i), ran)
    BY <1>5, <2>1
  <2> QED
    BY <2>2 DEF NothingInvented, RanLike
<1> QED
  BY <1>3, <1>7, <1>8, <1>9, <1>10 DEF Exact

LEMMA SplitInit ==
  ASSUME LoaderAssumption, SplitAssumption, Init
  PROVE  SplitInv
<1>1. ChainInv /\ KnownInv
  BY ChainInit DEF KnownInv
<1>2. Pending
  BY DEF Init, Pending
<1> QED
  BY <1>1, <1>2, NothingYet DEF SplitInv

LEMMA SplitStep ==
  ASSUME LoaderAssumption, SplitAssumption, NEW u, Vcpus = {u},
         SplitInv, [Next]_vars
  PROVE  SplitInv'
<1>1. /\ ChainInv /\ MapInv /\ Tallied /\ Pending /\ NothingInvented
      /\ ApartIn(CurrentMap)
      /\ Capped => KnownInv /\ SlicesExact /\ BaseExact /\ SliceEdgesExact
  BY DEF SplitInv, ChainInv, Exact
<1>2. ChainInv' /\ (Capped /\ KnownInv => KnownInv')
  BY <1>1, ChainStep
<1>3. PlainStep
  BY <1>1, StepShape
<1>4. Tallied' /\ NothingInvented'
  BY <1>1, <1>3, TalliedStep, InventedStep
<1>5. Pending'
  BY <1>3 DEF PlainStep
<1>6. Capped => SlicesExact' /\ BaseExact' /\ SliceEdgesExact'
  BY <1>1, <1>3, SlicesStep, BaseStep, SliceEdgesStep
<1> QED
  BY <1>1, <1>2, <1>4, <1>5, <1>6 DEF SplitInv, Exact

LEMMA SplitAlways ==
  ASSUME LoaderAssumption, SplitAssumption, NEW CONSTANT u, Vcpus = {u}
  PROVE  Spec => []SplitInv
<1>1. Init => SplitInv
  BY SplitInit
<1>2. SplitInv /\ [Next]_vars => SplitInv'
  BY SplitStep
<1> QED
  BY <1>1, <1>2, PTL DEF Spec

(***************************************************************************)
(* The theorems.                                                           *)
(***************************************************************************)
(* Every offset of an object's slice counts what ran there, through all    *)
(* lifetimes of the object and whatever else its addresses have been used  *)
(* for, and nothing else (split(), tcgcov/rtl.py).                         *)
THEOREM SlicesExactCorrect ==
  ASSUME LoaderAssumption, SplitAssumption, Capped,
         NEW CONSTANT u, Vcpus = {u}
  PROVE  Spec => []SlicesExact
<1>1. SplitInv => SlicesExact
  BY DEF SplitInv, Exact
<1> QED
  BY <1>1, SplitAlways, PTL

(* The base slice counts every run of base code; beyond it the             *)
(* constructors that ran unannounced, all of them, and nothing else.       *)
THEOREM BaseExactCorrect ==
  ASSUME LoaderAssumption, SplitAssumption, Capped,
         NEW CONSTANT u, Vcpus = {u}
  PROVE  Spec => []BaseExact
<1>1. SplitInv => BaseExact
  BY DEF SplitInv, Exact
<1> QED
  BY <1>1, SplitAlways, PTL

(* A slice holds the transfers inside each section as often as they were   *)
(* made; no edge joins what ran before a change of the map to what ran     *)
(* after it (the pending source is dropped, plugin/tcgcov-rtems.c).        *)
THEOREM SliceEdgesExactCorrect ==
  ASSUME LoaderAssumption, SplitAssumption, Capped,
         NEW CONSTANT u, Vcpus = {u}
  PROVE  Spec => []SliceEdgesExact
<1>1. SplitInv => SliceEdgesExact
  BY DEF SplitInv, Exact
<1> QED
  BY <1>1, SplitAlways, PTL

(* An object that is loaded has a slice whether or not it ran.             *)
THEOREM LoadedReportedCorrect ==
  ASSUME LoaderAssumption, SplitAssumption, Capped,
         NEW CONSTANT u, Vcpus = {u}
  PROVE  Spec => []LoadedIsReported
<1>1. SplitInv => LoadedIsReported
  BY LoadedFromKnown DEF SplitInv, KnownInv
<1> QED
  BY <1>1, SplitAlways, PTL

(* However many objects there are, and whether or not they are announced   *)
(* in time, a slice counts no run that was not there (plugin/              *)
(* tcgcov-rtems.c: "loudly unattributed rather than silently               *)
(* misattributed").                                                        *)
THEOREM NothingInventedCorrect ==
  ASSUME LoaderAssumption, SplitAssumption, NEW CONSTANT u, Vcpus = {u}
  PROVE  Spec => []NothingInvented
<1>1. SplitInv => NothingInvented
  BY DEF SplitInv
<1> QED
  BY <1>1, SplitAlways, PTL
=============================================================================
