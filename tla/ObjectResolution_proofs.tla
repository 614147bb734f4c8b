----------------------- MODULE ObjectResolution_proofs -----------------------
(***************************************************************************)
(* Proofs about ObjectResolution, for every search path, every set of      *)
(* files and every sequence of artifacts: resolve answers as it promises,  *)
(* no object is reported against a file that was not checked against its   *)
(* own snapshot, the check refuses no true file, coverage is shown against *)
(* the code that ran, and the exit status speaks for all artifacts.        *)
(***************************************************************************)
EXTENDS ObjectResolution, DataTheorems, SequenceTheorems, WellFoundedInduction

-----------------------------------------------------------------------------
(* The choice.                                                             *)

(* A function with natural values is least somewhere on a set that is not  *)
(* empty.                                                                  *)
LEMMA LeastExists ==
  ASSUME NEW S, NEW f, S # {}, \A p \in S : f[p] \in Nat
  PROVE  Least(f, S) # {} /\ Least(f, S) \subseteq S
<1> DEFINE T == {f[p] : p \in S}
<1>1. T \subseteq Nat /\ T # {}
  OBVIOUS
<1>2. PICK x \in T : \A y \in T : ~ (<<y, x>> \in OpToRel(<, Nat))
  BY <1>1, NatLessThanWellFounded, WFMin
<1>3. \A y \in T : ~ (y < x)
  BY <1>1, <1>2 DEF OpToRel
<1>4. PICK p \in S : f[p] = x
  OBVIOUS
<1>5. \A q \in S : f[p] <= f[q]
  <2> TAKE q \in S
  <2>1. f[q] \in T /\ f[q] \in Nat /\ f[p] \in Nat
    OBVIOUS
  <2> QED
    BY <1>3, <1>4, <2>1
<1> QED
  BY <1>4, <1>5 DEF Least

(* candidates is ordered by natural numbers.                               *)
LEMMA ListedNat ==
  ASSUME NEW name
  PROVE  \A p \in Named(name) : Listed(name)[p] \in Nat
<1> TAKE p \in Named(name)
<1>1. Len(ObjSuffixes) \in Nat /\ DOMAIN ObjSuffixes = 1 .. Len(ObjSuffixes)
  BY ObjectResolutionAssumption
<1>2. PICK i \in DOMAIN ObjSuffixes : ObjSuffixes[i] = p.suffix
  BY DEF Named, Range
<1> DEFINE k == CHOOSE j \in DOMAIN ObjSuffixes : ObjSuffixes[j] = p.suffix
<1>3. k \in DOMAIN ObjSuffixes
  BY <1>2
<1>4. k \in Nat
  BY <1>1, <1>3
<1>5. Listed(name)[p] =
        (IF p \in exact_candidates(name) THEN 0 ELSE Len(ObjSuffixes)) + k
  BY DEF Listed
<1> QED
  BY <1>1, <1>4, <1>5

(* First chooses one of the files it is given.                             *)
LEMMA FirstIn ==
  ASSUME NEW name, NEW S, S # {}, S \subseteq Named(name),
         path \in Paths
  PROVE  First(name, S) \in S
<1> DEFINE L == Least(Listed(name), S)
<1>1. L # {} /\ L \subseteq S
  BY ListedNat, LeastExists
<1>2. \A p \in L : Walk[p] \in Nat
  BY <1>1, ObjectResolutionAssumption DEF Named
<1>3. Least(Walk, L) # {} /\ Least(Walk, L) \subseteq L
  BY <1>1, <1>2, LeastExists
<1> QED
  BY <1>1, <1>3 DEF First

(* Of the files in cands, those that match, and those to choose from.      *)
Good(cands, snap) == {p \in cands : Matches(path[p], snap)}
Pool(good)        == IF Debug(good) # {} THEN Debug(good) ELSE good
Same(p, S)        == \A q \in S : path[q] = path[p]

(* The files of a finite set hold one content when any one is like all.    *)
LEMMA HeldOne ==
  ASSUME NEW S, IsFiniteSet(S)
  PROVE  Cardinality(Held(S)) = 1 <=> \E p \in S : Same(p, S)
<1> DEFINE f == [p \in S |-> path[p]]
<1>1. f \in Surjection(S, Held(S))
  BY DEF Held, Surjection
<1>2. IsFiniteSet(Held(S))
  BY <1>1, FS_Surjection
<1>3. Cardinality(Held(S)) = 1 <=> \E x : Held(S) = {x}
  BY <1>2, FS_Singleton
<1>4. ASSUME NEW x, Held(S) = {x} PROVE \E p \in S : Same(p, S)
  BY <1>4 DEF Held, Same
<1>5. ASSUME NEW p \in S, Same(p, S) PROVE Held(S) = {path[p]}
  BY <1>5 DEF Held, Same
<1> QED
  BY <1>3, <1>4, <1>5

LEMMA PoolFinite ==
  ASSUME NEW name, NEW snap, NEW cands, cands \subseteq Named(name), path \in Paths
  PROVE  /\ IsFiniteSet(Pool(Good(cands, snap)))
         /\ Pool(Good(cands, snap)) \subseteq Good(cands, snap)
         /\ Good(cands, snap) \subseteq Named(name)
         /\ Named(name) \subseteq DOMAIN path
<1>1. Pool(Good(cands, snap)) \subseteq Good(cands, snap)
  BY DEF Pool, Debug
<1>2. Good(cands, snap) \subseteq Named(name) /\ Named(name) \subseteq DOMAIN path
  BY DEF Good, Named
<1>3. DOMAIN path \subseteq Places /\ IsFiniteSet(Places)
  BY ObjectResolutionAssumption
<1> QED
  BY <1>1, <1>2, <1>3, FS_Subset

(* The pool is the files with DWARF, or all where there is none: one that  *)
(* matches and is like one of them in this is one of them.                 *)
LEMMA PoolLikes ==
  ASSUME NEW name, NEW snap, NEW cands, cands \subseteq Named(name), path \in Paths
  PROVE  LET good == Good(cands, snap)
         IN /\ \A p \in good : p \in Pool(good)
                               <=> (path[p].debug \/ Debug(good) = {})
            /\ \A p \in Pool(good), q \in good :
                 q \in Pool(good) <=> path[q].debug = path[p].debug
<1> DEFINE good == Good(cands, snap)
<1>1. \A p \in good : path[p].elf /\ path[p].debug \in BOOLEAN
  <2> TAKE p \in good
  <2>1. p \in DOMAIN path
    BY PoolFinite
  <2>2. path[p].debug \in BOOLEAN
    BY <2>1, ObjectResolutionAssumption DEF IsContent
  <2>3. path[p].elf
    BY DEF Good, Matches, verify
  <2> QED
    BY <2>2, <2>3
<1>2. Debug(good) = {p \in good : path[p].debug}
  BY <1>1 DEF Debug
<1> HIDE DEF good
<1>3. \A p \in good : p \in Pool(good) <=> (path[p].debug \/ Debug(good) = {})
  BY <1>2 DEF Pool
<1>4. ASSUME NEW p \in Pool(good), NEW q \in good
      PROVE  q \in Pool(good) <=> path[q].debug = path[p].debug
  <2>1. p \in good
    BY DEF Pool, Debug
  <2>2. CASE Debug(good) = {}
    <3>1. Pool(good) = good /\ ~path[p].debug /\ ~path[q].debug
      BY <1>2, <2>1, <2>2 DEF Pool
    <3> QED
      BY <1>1, <2>1, <3>1
  <2>3. CASE Debug(good) # {}
    <3>1. path[p].debug /\ (q \in Pool(good) <=> path[q].debug)
      BY <1>2, <2>3 DEF Pool
    <3> QED
      BY <1>1, <2>1, <3>1
  <2> QED
    BY <2>2, <2>3
<1> QED
  BY <1>3, <1>4 DEF good

(* What _pick finds is the only content in the pool, or the only one of    *)
(* those at the exact path; it gives up when there is neither.             *)
LEMMA PickOnly ==
  ASSUME NEW name, NEW snap, NEW cands, cands \subseteq Named(name), path \in Paths
  PROVE  LET r     == _pick(name, snap, cands)
             pool  == Pool(Good(cands, snap))
             exact == pool \cap exact_candidates(name)
         IN \/ /\ r.kind = "found"
               /\ \/ r.cand \in pool /\ Same(r.cand, pool)
                  \/ r.cand \in exact /\ Same(r.cand, exact)
            \/ /\ r.kind = "conflict"
               /\ ~ \E p \in pool : Same(p, pool)
               /\ ~ \E p \in exact : Same(p, exact)
<1> DEFINE good  == Good(cands, snap)
           pool  == Pool(good)
           exact == pool \cap exact_candidates(name)
           r     == _pick(name, snap, cands)
<1>1. /\ IsFiniteSet(pool) /\ IsFiniteSet(exact)
      /\ pool \subseteq good /\ pool \subseteq Named(name) /\ exact \subseteq pool
  BY PoolFinite, FS_Subset
<1>2. r = IF good = {} THEN Failed("conflict")
          ELSE IF Cardinality(Held(pool)) = 1 THEN Found(First(name, pool))
          ELSE IF Cardinality(Held(exact)) = 1 THEN Found(First(name, exact))
          ELSE Failed("conflict")
  BY DEF _pick, Chosen, Good, Pool
<1>3. ASSUME NEW S, S \in {pool, exact}
      PROVE  /\ Cardinality(Held(S)) = 1 <=> \E p \in S : Same(p, S)
             /\ S # {} => First(name, S) \in S
  <2> HIDE DEF pool, exact
  <2> QED
    BY <1>1, <1>3, HeldOne, FirstIn
<1>4. \A S : (\E p \in S : Same(p, S)) => \A p \in S : Same(p, S)
  BY DEF Same
<1> SUFFICES \/ /\ r.kind = "found"
                /\ \/ r.cand \in pool /\ Same(r.cand, pool)
                   \/ r.cand \in exact /\ Same(r.cand, exact)
             \/ /\ r.kind = "conflict"
                /\ ~ \E p \in pool : Same(p, pool)
                /\ ~ \E p \in exact : Same(p, exact)
  OBVIOUS
<1> HIDE DEF good, pool, exact, r
<1>5. CASE good = {}
  BY <1>1, <1>2, <1>5 DEF Failed
<1>6. CASE good # {} /\ Cardinality(Held(pool)) = 1
  <2>1. r.kind = "found" /\ r.cand = First(name, pool)
    BY <1>2, <1>6 DEF Found
  <2> QED
    BY <1>3, <1>4, <1>6, <2>1
<1>7. CASE good # {} /\ Cardinality(Held(pool)) # 1 /\ Cardinality(Held(exact)) = 1
  <2>1. r.kind = "found" /\ r.cand = First(name, exact)
    BY <1>2, <1>7 DEF Found
  <2> QED
    BY <1>3, <1>4, <1>7, <2>1
<1>8. CASE good # {} /\ Cardinality(Held(pool)) # 1 /\ Cardinality(Held(exact)) # 1
  BY <1>2, <1>3, <1>8 DEF Failed
<1> QED
  BY <1>5, <1>6, <1>7, <1>8

(* What ResolvedAsPromised says of one resolution, given the files.        *)
Right(files, name, r, snap) ==
  LET named == {p \in DOMAIN files : p.base = name.base
                                     /\ p.suffix \in Range(ObjSuffixes)}
      exact == {p \in named : p.at = name.at /\ ~p.member}
      good  == {p \in named : Matches(files[p], snap)}
      debug == {p \in good : files[p].elf /\ files[p].debug}
      Rivals(p) == {q \in good : files[q] # files[p]
                                 /\ files[q].debug = files[p].debug}
      Best(p) == /\ files[p].debug \/ debug = {}
                 /\ Rivals(p) = {} \/ (p \in exact /\ Rivals(p) \cap exact = {})
  IN /\ r.kind = "found"    => r.cand \in good /\ Best(r.cand)
     /\ r.kind = "missing"  => named = {}
     /\ r.kind = "conflict" => named # {} /\ \A p \in good : ~Best(p)

(* The same in the terms of the choice.                                    *)
Rivals(p, good) == {q \in good : path[q] # path[p] /\ path[q].debug = path[p].debug}

Best(p, name, good) ==
  /\ path[p].debug \/ Debug(good) = {}
  /\ \/ Rivals(p, good) = {}
     \/ p \in exact_candidates(name) /\ Rivals(p, good) \cap exact_candidates(name) = {}

LEMMA RightMeans ==
  ASSUME NEW name, NEW r, NEW snap,
         LET good == Good(Named(name), snap)
         IN /\ r.kind = "found"    => r.cand \in good /\ Best(r.cand, name, good)
            /\ r.kind = "missing"  => Named(name) = {}
            /\ r.kind = "conflict" => Named(name) # {} /\ \A p \in good : ~Best(p, name, good)
  PROVE  Right(path, name, r, snap)
BY DEF Right, Good, Named, exact_candidates, Debug, Rivals, Best

(* The choice among all files that have the name.                          *)
LEMMA PickRight ==
  ASSUME NEW name, NEW snap, Named(name) # {}, path \in Paths
  PROVE  Right(path, name, _pick(name, snap, Named(name)), snap)
<1> DEFINE good  == Good(Named(name), snap)
           pool  == Pool(good)
           exact == pool \cap exact_candidates(name)
           r     == _pick(name, snap, Named(name))
<1>1. pool \subseteq good
  BY PoolFinite
<1>2. /\ \A p \in good : p \in pool <=> (path[p].debug \/ Debug(good) = {})
      /\ \A p \in pool, q \in good : q \in pool <=> path[q].debug = path[p].debug
  BY PoolLikes
<1>3. \/ /\ r.kind = "found"
         /\ \/ r.cand \in pool /\ Same(r.cand, pool)
            \/ r.cand \in exact /\ Same(r.cand, exact)
      \/ /\ r.kind = "conflict"
         /\ ~ \E p \in pool : Same(p, pool)
         /\ ~ \E p \in exact : Same(p, exact)
  BY PickOnly
<1> HIDE DEF good, pool, r
<1>4. ASSUME NEW p \in pool PROVE Rivals(p, good) = {q \in pool : path[q] # path[p]}
  BY <1>1, <1>2 DEF Rivals
<1>5. ASSUME NEW p \in good
      PROVE  Best(p, name, good) <=> \/ p \in pool /\ Same(p, pool)
                                     \/ p \in exact /\ Same(p, exact)
  <2>1. CASE p \in pool
    <3>1. path[p].debug \/ Debug(good) = {}
      BY <1>2, <2>1
    <3> QED
      BY <1>4, <2>1, <3>1 DEF Best, Same
  <2>2. CASE p \notin pool
    BY <1>2, <2>2 DEF Best
  <2> QED
    BY <2>1, <2>2
<1>6. CASE r.kind = "found"
  <2>1. r.cand \in good /\ Best(r.cand, name, good)
    BY <1>1, <1>3, <1>5, <1>6
  <2> QED
    BY <1>6, <2>1, RightMeans DEF good, r
<1>7. CASE r.kind = "conflict"
  <2>1. \A p \in good : ~Best(p, name, good)
    BY <1>3, <1>5, <1>7
  <2> QED
    BY <1>7, <2>1, RightMeans DEF good, r
<1> QED
  BY <1>3, <1>6, <1>7 DEF r

(* The choice at the exact path, when it settles the search.               *)
LEMMA ExactRight ==
  ASSUME NEW name, NEW snap, path \in Paths,
         Settles(_pick(name, snap, exact_candidates(name)))
  PROVE  Right(path, name, _pick(name, snap, exact_candidates(name)), snap)
<1> DEFINE all   == Good(Named(name), snap)
           good  == Good(exact_candidates(name), snap)
           pool  == Pool(good)
           r     == _pick(name, snap, exact_candidates(name))
<1>1. exact_candidates(name) \subseteq Named(name)
  BY DEF exact_candidates
<1>2. good = all \cap exact_candidates(name) /\ pool \subseteq good
  BY <1>1, PoolFinite DEF Good
<1>3. r.kind = "found" /\ path[r.cand].debug
  BY DEF Settles, Debug
<1>4. r.cand \in pool /\ Same(r.cand, pool)
  <2>1. pool \cap exact_candidates(name) = pool
    BY <1>2
  <2> QED
    BY <1>1, <1>3, <2>1, PickOnly
<1>5. \A q \in good : q \in pool <=> path[q].debug = path[r.cand].debug
  BY <1>1, <1>4, PoolLikes
<1> HIDE DEF all, good, pool, r
<1>6. Rivals(r.cand, all) \cap exact_candidates(name) = {}
  BY <1>2, <1>4, <1>5 DEF Rivals, Same
<1>7. r.cand \in all /\ Best(r.cand, name, all)
  BY <1>2, <1>3, <1>4, <1>6 DEF Best
<1> QED
  BY <1>3, <1>7, RightMeans DEF all, r

(* What resolve answers is right, by the short way too.                    *)
Kinds == {"found", "missing", "conflict"}

LEMMA ResolveRight ==
  ASSUME NEW name, NEW snap, path \in Paths
  PROVE  LET r == resolve(name, snap)
         IN r.kind \in Kinds /\ (~no_verify => Right(path, name, r, snap))
<1> DEFINE r     == resolve(name, snap)
           exact == exact_candidates(name)
<1>1. CASE Named(name) = {}
  <2>1. r = Failed("missing")
    BY <1>1 DEF resolve
  <2>2. r.kind = "missing"
    BY <2>1 DEF Failed
  <2> HIDE DEF r
  <2>3. Right(path, name, r, snap)
    BY <1>1, <2>2, RightMeans
  <2> QED
    BY <2>2, <2>3 DEF Kinds, r
<1>2. CASE Named(name) # {} /\ no_verify
  BY <1>2 DEF resolve, Found, Kinds
<1>3. CASE Named(name) # {} /\ ~no_verify
  <2>1. r = IF exact # {} /\ Settles(_pick(name, snap, exact))
              THEN _pick(name, snap, exact) ELSE _pick(name, snap, Named(name))
    BY <1>3 DEF resolve, Searched
  <2>2. r.kind \in Kinds
    BY <2>1 DEF _pick, Chosen, Found, Failed, Kinds
  <2>3. Right(path, name, r, snap)
    BY <1>3, <2>1, PickRight, ExactRight
  <2> QED
    BY <2>2, <2>3
<1> QED
  BY <1>1, <1>2, <1>3

(* What split remembers and has resolved so far belongs to the snapshots.  *)
MemoRight ==
  \A key \in DOMAIN resolved :
    /\ resolved[key].kind \in Kinds
    /\ ~no_verify => Right(path, key[1], resolved[key], key[2])

WinsRight ==
  \A w \in wins :
    /\ w.res.kind \in Kinds
    /\ ~no_verify => Right(path, w.obj.name, w.res, Snapshot(w.obj))

KindsRight == \A u \in unresolved : u[2] \in Kinds \ {"found"}

ResolutionInv ==
  /\ path \in Paths
  /\ MemoRight
  /\ WinsRight
  /\ KindsRight
  /\ ExitTruthful

LEMMA ResolutionInit == Init => ResolutionInv
BY DEF Init, ResolutionInv, MemoRight, WinsRight, KindsRight, ExitTruthful

(* The resolution of an object, remembered or made now, is right for it.   *)
LEMMA ResolveNextRight ==
  ASSUME ResolutionInv, ResolveNext
  PROVE  ResolutionInv'
<1> DEFINE o == run[cov][next]
           r == IF MemoKey(o) \in DOMAIN resolved THEN resolved[MemoKey(o)]
                ELSE resolve(o.name, Snapshot(o))
<1>1. r.kind \in Kinds /\ (~no_verify => Right(path, o.name, r, Snapshot(o)))
  <2>1. CASE MemoKey(o) \in DOMAIN resolved
    <3>1. MemoKey(o)[1] = o.name /\ MemoKey(o)[2] = Snapshot(o)
      BY DEF MemoKey
    <3> QED
      BY <2>1, <3>1 DEF ResolutionInv, MemoRight
  <2>2. CASE MemoKey(o) \notin DOMAIN resolved
    BY <2>2, ResolveRight DEF ResolutionInv
  <2> QED
    BY <2>1, <2>2
<1>2. /\ resolved' = [k \in DOMAIN resolved \cup {MemoKey(o)} |->
                       IF k = MemoKey(o) THEN r ELSE resolved[k]]
      /\ wins' = wins \cup {[gen |-> next, obj |-> o, res |-> r]}
      /\ unresolved' = IF r.kind # "found"
                         THEN unresolved \cup {<<o.name, r.kind>>} ELSE unresolved
      /\ UNCHANGED <<path, run, no_verify, rc, failures>>
  BY DEF ResolveNext, options
<1> HIDE DEF r, o
<1>3. MemoRight'
  <2> SUFFICES ASSUME NEW key \in DOMAIN resolved'
               PROVE  /\ resolved'[key].kind \in Kinds
                      /\ ~no_verify' => Right(path', key[1], resolved'[key], key[2])
    BY DEF MemoRight
  <2>1. MemoKey(o)[1] = o.name /\ MemoKey(o)[2] = Snapshot(o)
    BY DEF MemoKey
  <2>2. CASE key = MemoKey(o)
    <3>1. resolved'[key] = r
      BY <1>2, <2>2
    <3> QED
      BY <1>1, <1>2, <2>1, <2>2, <3>1 DEF Right
  <2>3. CASE key # MemoKey(o)
    <3>1. key \in DOMAIN resolved /\ resolved'[key] = resolved[key]
      BY <1>2, <2>3
    <3> QED
      BY <1>2, <3>1 DEF ResolutionInv, MemoRight, Right
  <2> QED
    BY <2>2, <2>3
<1>4. WinsRight'
  <2> SUFFICES ASSUME NEW w \in wins'
               PROVE  /\ w.res.kind \in Kinds
                      /\ ~no_verify => Right(path, w.obj.name, w.res, Snapshot(w.obj))
    BY <1>2 DEF WinsRight
  <2>1. CASE w \in wins
    BY <1>2, <2>1 DEF ResolutionInv, WinsRight, Right
  <2>2. CASE w = [gen |-> next, obj |-> o, res |-> r]
    BY <1>1, <1>2, <2>2 DEF Right
  <2> QED
    BY <1>2, <2>1, <2>2
<1>5. KindsRight'
  BY <1>1, <1>2 DEF ResolutionInv, KindsRight
<1> QED
  BY <1>2, <1>3, <1>4, <1>5 DEF ResolutionInv, ExitTruthful

LEMMA DoneRight ==
  ASSUME ResolutionInv, Done
  PROVE  ResolutionInv'
<1> DEFINE kinds == {u[2] : u \in unresolved}
<1>1. kinds \subseteq {"missing", "conflict"}
  BY DEF ResolutionInv, KindsRight, Kinds
<1>2. rc' = Status(rc, kinds) /\ failures' = failures \cup kinds
  BY DEF Done
<1>3. ExitTruthful'
  <2> HIDE DEF kinds
  <2> QED
    BY <1>1, <1>2 DEF ResolutionInv, ExitTruthful, Status
<1>4. path' = path /\ MemoRight' /\ WinsRight' /\ KindsRight'
  BY DEF Done, options, MemoRight, WinsRight, KindsRight
<1> QED
  BY <1>3, <1>4 DEF ResolutionInv

LEMMA ResolutionStep == ResolutionInv /\ [Next]_vars => ResolutionInv'
<1> SUFFICES ASSUME ResolutionInv, [Next]_vars PROVE ResolutionInv'
  OBVIOUS
<1>1. CASE ResolveNext
  BY <1>1, ResolveNextRight
<1>2. CASE Done
  BY <1>2, DoneRight
<1>3. ASSUME UNCHANGED <<path, no_verify, resolved, wins, unresolved, rc, failures>>
      PROVE  ResolutionInv'
  BY <1>3 DEF ResolutionInv, MemoRight, WinsRight, KindsRight, ExitTruthful, Right
<1>4. CASE Attribute
  BY <1>3, <1>4 DEF Attribute, options
<1>5. CASE WriteSlice
  BY <1>3, <1>5 DEF WriteSlice, options
<1>6. CASE UNCHANGED vars
  BY <1>3, <1>6 DEF vars, options
<1>7. CASE Traceback
  <2>1. /\ path' = path /\ rc' = 1 /\ "traceback" \in failures'
        /\ resolved' = <<>> /\ wins' = {} /\ unresolved' = {}
    BY <1>7 DEF Traceback, options
  <2>2. ExitTruthful'
    BY <2>1 DEF ExitTruthful
  <2> QED
    BY <2>1, <2>2 DEF ResolutionInv, MemoRight, WinsRight, KindsRight
<1> QED
  BY <1>1, <1>2, <1>4, <1>5, <1>6, <1>7 DEF Next

(* Unless told not to check, resolve answers as it promises for the        *)
(* snapshot of each load, whatever was remembered: with a matching file,   *)
(* with DWARF if there is one, and with no rival; it gives up only when    *)
(* there is none such, and stopping at the exact path changes no answer    *)
(* (resolve, _pick, split).                                                *)
THEOREM ResolvedAsPromisedCorrect == Spec => []ResolvedAsPromised
<1>1. ResolutionInv => ResolvedAsPromised
  BY DEF ResolutionInv, WinsRight, Right, ResolvedAsPromised, Kinds, Named,
         exact_candidates, Debug
<1> QED
  BY <1>1, ResolutionInit, ResolutionStep, PTL DEF Spec

(* Unless told not to check, split shows an object's coverage only against *)
(* a file that was checked against the snapshot of that very load, found   *)
(* by the short way or the long one, now or earlier (resolve, split).      *)
THEOREM VerifiedCorrect == Spec => []Verified
<1>1. ResolvedAsPromised => Verified
  BY DEF ResolvedAsPromised, Verified, Named
<1> QED
  BY <1>1, ResolvedAsPromisedCorrect, PTL

(* The exit status tells of the worst that happened to any artifact (run). *)
THEOREM ExitTruthfulCorrect == Spec => []ExitTruthful
<1>1. ResolutionInv => ExitTruthful
  BY DEF ResolutionInv
<1> QED
  BY <1>1, ResolutionInit, ResolutionStep, PTL DEF Spec

-----------------------------------------------------------------------------
(* The n-th of some positions.                                             *)
(* S is among 1 .. n.                                                      *)
Positions(S, n) == \A j \in S : j \in Nat /\ 1 <= j /\ j <= n

Below(S, i) == {j \in S : j < i}

LEMMA BelowFinite ==
  ASSUME NEW n \in Nat, NEW S, Positions(S, n), NEW i
  PROVE  /\ IsFiniteSet(S) /\ IsFiniteSet(Below(S, i))
         /\ Cardinality(S) \in Nat /\ Cardinality(Below(S, i)) \in Nat
         /\ Cardinality(Below(S, i)) <= Cardinality(S)
<1>1. IsFiniteSet(1 .. n)
  BY FS_Interval
<1>2. IsFiniteSet(S)
  <2>1. S \in SUBSET (1 .. n)
    BY DEF Positions
  <2> QED
    BY <1>1, <2>1, FS_Subset
<1>3. Below(S, i) \in SUBSET S
  BY DEF Below
<1> QED
  BY <1>2, <1>3, FS_Subset, FS_CardinalityType

LEMMA BelowMembers ==
  ASSUME NEW n \in Nat, NEW S, Positions(S, n), NEW i \in Nat
  PROVE  /\ Below(S, 0) = {}
         /\ Below(S, n + 1) = S
         /\ \A k \in Nat : i <= k => Below(S, i) \in SUBSET Below(S, k)
         /\ i \in S => /\ Below(S, i + 1) = Below(S, i) \union {i}
                      /\ i \notin Below(S, i)
         /\ i \notin S => Below(S, i + 1) = Below(S, i)
<1>1. \A j \in S : j \in Nat /\ 1 <= j /\ j <= n
  BY DEF Positions
<1>2. \A k : \A j : j \in Below(S, k) <=> j \in S /\ j < k
  BY DEF Below
<1>3. \A j : j \notin Below(S, 0)
  BY <1>1, <1>2
<1>4. \A j : j \in Below(S, n + 1) <=> j \in S
  BY <1>1, <1>2
<1>5. \A k \in Nat : i <= k => \A j \in Below(S, i) : j \in Below(S, k)
  BY <1>1, <1>2
<1>6. \A j : j \in Below(S, i + 1) <=> j \in Below(S, i) \/ (j = i /\ i \in S)
  BY <1>1, <1>2
<1>7. i \notin Below(S, i)
  BY <1>2
<1> HIDE DEF Below
<1> QED
  BY <1>1, <1>3, <1>4, <1>5, <1>6, <1>7

LEMMA BelowNext ==
  ASSUME NEW n \in Nat, NEW S, Positions(S, n), NEW i \in Nat
  PROVE  Cardinality(Below(S, i + 1))
           = Cardinality(Below(S, i)) + IF i \in S THEN 1 ELSE 0
<1>0. \A j \in S : j \in Nat /\ 1 <= j /\ j <= n
  BY DEF Positions
<1>1. IsFiniteSet(Below(S, i)) /\ Cardinality(Below(S, i)) \in Nat
  BY BelowFinite
<1>2. CASE i \in S
  <2>1. Below(S, i + 1) = Below(S, i) \union {i} /\ i \notin Below(S, i)
    BY <1>2, BelowMembers
  <2> QED
    BY <1>1, <1>2, <2>1, FS_AddElement
<1>3. CASE i \notin S
  <2>1. Below(S, i + 1) = Below(S, i)
    BY <1>3, BelowMembers
  <2> QED
    BY <1>1, <1>3, <2>1
<1> QED
  BY <1>2, <1>3

(* No two positions have as many below them.                               *)
LEMMA RanksDiffer ==
  ASSUME NEW n \in Nat, NEW S, Positions(S, n), NEW i \in S, NEW j, i < j, j \in Nat
  PROVE  Cardinality(Below(S, i)) < Cardinality(Below(S, j))
<1>0. \A k \in S : k \in Nat /\ 1 <= k /\ k <= n
  BY DEF Positions
<1>1. i \in Nat
  BY <1>0
<1>2. Cardinality(Below(S, i + 1)) = Cardinality(Below(S, i)) + 1
  BY <1>1, BelowNext
<1>3. Below(S, i + 1) \in SUBSET Below(S, j)
  BY <1>1, BelowMembers
<1>4. Cardinality(Below(S, i + 1)) <= Cardinality(Below(S, j))
  BY <1>3, BelowFinite, FS_Subset
<1>5. /\ Cardinality(Below(S, i)) \in Nat
      /\ Cardinality(Below(S, j)) \in Nat
  BY BelowFinite
<1> QED
  BY <1>2, <1>4, <1>5

LEMMA NthOnly ==
  ASSUME NEW n \in Nat, NEW S, Positions(S, n), NEW i \in S
  PROVE  /\ Cardinality(Below(S, i)) < Cardinality(S)
         /\ Nth(S, Cardinality(Below(S, i))) = i
<1>0. \A j \in S : j \in Nat /\ 1 <= j /\ j <= n
  BY DEF Positions
<1>1. Below(S, n + 1) = S
  BY BelowMembers
<1>2. Cardinality(Below(S, i)) < Cardinality(S)
  <2>1. i < n + 1 /\ n + 1 \in Nat
    BY <1>0
  <2> QED
    BY <1>1, <2>1, RanksDiffer
<1>3. \A j \in S : Cardinality(Below(S, j)) = Cardinality(Below(S, i)) => j = i
  <2> SUFFICES ASSUME NEW j \in S, Cardinality(Below(S, j)) = Cardinality(Below(S, i)), j # i
               PROVE  FALSE
    OBVIOUS
  <2>0. i \in Nat /\ j \in Nat /\ Cardinality(Below(S, i)) \in Nat
    BY <1>0, BelowFinite
  <2>1. CASE i < j
    <3>1. Cardinality(Below(S, i)) < Cardinality(Below(S, j))
      BY <2>0, <2>1, RanksDiffer
    <3> QED
      BY <2>0, <3>1
  <2>2. CASE j < i
    <3>1. Cardinality(Below(S, j)) < Cardinality(Below(S, i))
      BY <2>0, <2>2, RanksDiffer
    <3> QED
      BY <2>0, <3>1
  <2> QED
    BY <2>0, <2>1, <2>2
<1>4. Nth(S, Cardinality(Below(S, i))) = CHOOSE j \in S : Cardinality(Below(S, j)) = Cardinality(Below(S, i))
  BY DEF Nth, Below
<1> QED
  BY <1>2, <1>3, <1>4

LEMMA NthExists ==
  ASSUME NEW n \in Nat, NEW S, Positions(S, n), NEW k \in Nat, k < Cardinality(S)
  PROVE  Nth(S, k) \in S /\ Cardinality(Below(S, Nth(S, k))) = k
<1> DEFINE R == {i \in Nat : k < Cardinality(Below(S, i))}
<1>0. \A j \in S : j \in Nat /\ 1 <= j /\ j <= n
  BY DEF Positions
<1>1. Below(S, n + 1) = S
  BY BelowMembers
<1>2. R # {}
  BY <1>1
<1>3. PICK i \in R : \A j \in R : i <= j
  BY <1>2, LeastNat
<1>4. Below(S, 0) = {}
  BY BelowMembers
<1>5. i # 0
  BY <1>3, <1>4, FS_EmptySet
<1> DEFINE p == i - 1
<1>6. p \in Nat /\ p \notin R /\ i = p + 1
  BY <1>3, <1>5
<1> HIDE DEF p
<1>7. /\ Cardinality(Below(S, p)) \in Nat
      /\ ~ (k < Cardinality(Below(S, p)))
      /\ k < Cardinality(Below(S, p + 1))
  BY <1>3, <1>6, BelowFinite
<1>8. p \in S /\ Cardinality(Below(S, p)) = k
  <2>1. Cardinality(Below(S, p + 1)) = Cardinality(Below(S, p)) + IF p \in S THEN 1 ELSE 0
    BY <1>6, BelowNext
  <2> QED
    BY <1>7, <2>1
<1> QED
  BY <1>8, NthOnly

-----------------------------------------------------------------------------
(* The sections of a file and of a snapshot.                               *)
PlacedAt(c) ==
  {i \in DOMAIN c.sections : c.sections[i].alloc /\ c.sections[i].body # <<>>}
PlacedCount(c) == Cardinality(PlacedAt(c))

LEMMA PlacedIs ==
  ASSUME NEW c, IsContent(c)
  PROVE  /\ PlacedCount(c) \in Nat
         /\ DOMAIN Placed(c) = 1 .. PlacedCount(c)
         /\ \A k \in DOMAIN Placed(c) :
              /\ Placed(c)[k].name # CommonName
              /\ Placed(c)[k].body \in Seq(Nat)
<1> DEFINE n == Len(c.sections)
           at == PlacedAt(c)
<1>1. n \in Nat /\ DOMAIN c.sections = 1 .. n
  BY DEF IsContent
<1>2. Positions(at, n)
  BY <1>1 DEF Positions, PlacedAt
<1>3. Cardinality(at) \in Nat
  BY <1>1, <1>2, BelowFinite
<1>4. Placed(c) = [k \in 1 .. Cardinality(at) |-> c.sections[Nth(at, k - 1)]]
  BY DEF Placed, PlacedAt
<1>5. ASSUME NEW k \in 1 .. Cardinality(at)
      PROVE  /\ Placed(c)[k].name # CommonName
             /\ Placed(c)[k].body \in Seq(Nat)
  <2> DEFINE r == k - 1
  <2>1. r \in Nat /\ r < Cardinality(at)
    BY <1>3
  <2>2. Nth(at, r) \in at
    <3> HIDE DEF at, n, r
    <3> QED
      BY <1>1, <1>2, <2>1, NthExists
  <2>3. Nth(at, r) \in DOMAIN c.sections
    BY <2>2 DEF PlacedAt
  <2>4. Placed(c)[k] = c.sections[Nth(at, r)]
    BY <1>4
  <2> QED
    BY <2>3, <2>4 DEF IsContent
<1> QED
  BY <1>3, <1>4, <1>5 DEF PlacedCount

(* What the snapshot of o says of its k-th section.                        *)
Shown(o, k) ==
  LET s == Placed(o.content)[k]
  IN [name  |-> IF o.cut THEN <<s.name[1], "">> ELSE s.name,
      cut   |-> o.cut,
      size  |-> Len(s.body),
      bytes |-> IF o.bytes /\ s.exec THEN Relocated(s) ELSE <<>>]
ShownCommon == [name |-> CommonName, cut |-> FALSE, size |-> 1, bytes |-> <<>>]

LEMMA SnapshotIs ==
  ASSUME NEW o, IsContent(o.content)
  PROVE  LET n == PlacedCount(o.content)
         IN /\ n \in Nat
            /\ DOMAIN Snapshot(o) = 1 .. n + IF o.common THEN 1 ELSE 0
            /\ \A k \in 1 .. n : Snapshot(o)[k] = Shown(o, k)
            /\ o.common => Snapshot(o)[n + 1] = ShownCommon
<1> DEFINE n == PlacedCount(o.content)
           A == [k \in 1 .. n |-> Shown(o, k)]
           B == IF o.common THEN <<ShownCommon>> ELSE <<>>
           S == {Shown(o, k) : k \in 1 .. n} \union {ShownCommon}
<1>1. n \in Nat /\ DOMAIN Placed(o.content) = 1 .. n
  BY PlacedIs
<1>2. Snapshot(o) = A \o B
  BY <1>1 DEF Snapshot, Shown, ShownCommon
<1> HIDE DEF n
<1>3. A \in Seq(S) /\ Len(A) = n
  BY <1>1
<1>4. /\ B \in Seq(S)
      /\ Len(B) = IF o.common THEN 1 ELSE 0
      /\ o.common => B[1] = ShownCommon
  <2>1. ShownCommon \in S
    OBVIOUS
  <2> HIDE DEF S
  <2>2. CASE o.common
    BY <2>1, <2>2
  <2>3. CASE ~o.common
    BY <2>3
  <2> QED
    BY <2>2, <2>3
<1>5. \A k \in 1 .. n : A[k] = Shown(o, k)
  OBVIOUS
<1> HIDE DEF A, B, S
<1>6. /\ A \o B \in Seq(S)
      /\ Len(A \o B) = n + Len(B)
      /\ \A i \in 1 .. n + Len(B) : (A \o B)[i] = IF i <= n THEN A[i] ELSE B[i - n]
  BY <1>3, <1>4, ConcatProperties
<1>7. DOMAIN Snapshot(o) = 1 .. n + IF o.common THEN 1 ELSE 0
  BY <1>1, <1>2, <1>4, <1>6
<1>8. \A k \in 1 .. n : Snapshot(o)[k] = Shown(o, k)
  BY <1>1, <1>2, <1>4, <1>5, <1>6
<1>9. o.common => Snapshot(o)[n + 1] = ShownCommon
  BY <1>1, <1>2, <1>4, <1>6
<1> QED
  BY <1>1, <1>7, <1>8, <1>9 DEF n

(* The section of the file that a loaded one is taken to be has its name   *)
(* and its size; the only one of a name is taken.                          *)
LEMMA IndexIs ==
  ASSUME NEW c, IsContent(c), NEW snap, NEW k \in Nat, NEW m \in Nat,
         k \in DOMAIN snap, DOMAIN snap = 1 .. m
  PROVE  LET i    == elf_index_for(c, snap, k)
             name == Names(c, snap)[k]
             same == Has(c, name)
             rank == Rank(Names(c, snap), k)
         IN /\ rank \in Nat
            /\ Positions(same, PlacedCount(c))
            /\ i = IF /\ rank < Cardinality(same)
                      /\ Len(Placed(c)[Nth(same, rank)].body) = snap[k].size
                     THEN Nth(same, rank) ELSE 0
            /\ i # 0 => /\ i \in DOMAIN Placed(c) /\ Placed(c)[i].name = name
                        /\ Len(Placed(c)[i].body) = snap[k].size
<1> DEFINE names == Names(c, snap)
           same  == Has(c, names[k])
           rank  == Rank(names, k)
<1>1. PlacedCount(c) \in Nat /\ DOMAIN Placed(c) = 1 .. PlacedCount(c)
  BY PlacedIs
<1>2. Positions(same, PlacedCount(c))
  BY <1>1 DEF Positions, Has
<1>3. rank \in Nat
  <2> DEFINE J == {j \in 1 .. k - 1 : names[j] = names[k]}
  <2>1. IsFiniteSet(1 .. k - 1) /\ J \in SUBSET (1 .. k - 1)
    BY FS_Interval
  <2>2. Cardinality(J) \in Nat
    BY <2>1, FS_Subset, FS_CardinalityType
  <2> QED
    BY <2>2 DEF Rank
<1>4. elf_index_for(c, snap, k)
        = IF /\ rank < Cardinality(same)
             /\ Len(Placed(c)[Nth(same, rank)].body) = snap[k].size
            THEN Nth(same, rank) ELSE 0
  BY DEF elf_index_for, Has
<1> HIDE DEF names, rank
<1>5. rank < Cardinality(same) => Nth(same, rank) \in same
  <2> HIDE DEF same
  <2> QED
    BY <1>1, <1>2, <1>3, NthExists
<1>6. \A i \in same : i \in DOMAIN Placed(c) /\ Placed(c)[i].name = names[k]
  BY DEF Has
<1> QED
  BY <1>2, <1>3, <1>4, <1>5, <1>6 DEF names, rank

(* A name cut short is completed when it leaves no choice.                 *)
Telling(o) ==
  LET placed == Placed(o.content)
  IN o.cut => \A i, j \in DOMAIN placed :
                placed[i].name[1] = placed[j].name[1]
                  /\ Len(placed[i].body) = Len(placed[j].body)
                => placed[i].name = placed[j].name

LEMMA NamesAgree ==
  ASSUME NEW c, NEW o, IsContent(c), IsContent(o.content),
         Placed(c) = Placed(o.content), Telling(o)
  PROVE  LET n == PlacedCount(o.content)
         IN /\ n \in Nat /\ DOMAIN Placed(c) = 1 .. n
            /\ DOMAIN Names(c, Snapshot(o)) = DOMAIN Snapshot(o)
            /\ \A k \in 1 .. n : Names(c, Snapshot(o))[k] = Placed(c)[k].name
            /\ o.common => Names(c, Snapshot(o))[n + 1] = CommonName
<1> DEFINE n == PlacedCount(o.content)
<1>1. /\ n \in Nat /\ DOMAIN Placed(c) = 1 .. n
      /\ DOMAIN Snapshot(o) = 1 .. n + IF o.common THEN 1 ELSE 0
      /\ \A k \in 1 .. n : Snapshot(o)[k] = Shown(o, k)
      /\ o.common => Snapshot(o)[n + 1] = ShownCommon
  BY PlacedIs, SnapshotIs
<1> HIDE DEF n
<1>2. \A k \in DOMAIN Snapshot(o) :
        Names(c, Snapshot(o))[k] = NameIn(c, Snapshot(o)[k])
  BY DEF Names
<1>3. ASSUME NEW k \in 1 .. n
      PROVE  Names(c, Snapshot(o))[k] = Placed(c)[k].name
  <2> DEFINE s == Placed(c)[k]
             hits == {t.name : t \in {q \in Range(Placed(c)) :
                        q.name[1] = s.name[1] /\ Len(q.body) = Len(s.body)}}
  <2>1. k \in DOMAIN Snapshot(o)
    BY <1>1
  <2>2. CASE o.cut
    <3>1. NameIn(c, Shown(o, k))
            = IF Cardinality(hits) = 1 THEN CHOOSE m \in hits : TRUE ELSE Shown(o, k).name
      BY <2>2 DEF NameIn, Shown
    <3>2. hits = {s.name}
      <4>1. s \in Range(Placed(c)) /\ s.name \in hits
        BY <1>1 DEF Range
      <4>2. \A i \in DOMAIN Placed(c) :
              Placed(c)[i].name[1] = s.name[1] /\ Len(Placed(c)[i].body) = Len(s.body)
                => Placed(c)[i].name = s.name
        BY <1>1, <2>2 DEF Telling
      <4>3. \A x \in hits : x = s.name
        BY <4>2 DEF Range
      <4> HIDE DEF hits
      <4> QED
        BY <4>1, <4>3
    <3> HIDE DEF hits, s
    <3>3. Cardinality(hits) = 1 /\ (CHOOSE m \in hits : TRUE) = s.name
      BY <3>2, FS_Singleton
    <3> QED
      BY <1>1, <1>2, <2>1, <3>1, <3>3 DEF s
  <2>3. CASE ~o.cut
    <3>1. NameIn(c, Shown(o, k)) = s.name
      BY <2>3 DEF NameIn, Shown
    <3> QED
      BY <1>1, <1>2, <2>1, <3>1
  <2> QED
    BY <2>2, <2>3
<1>4. ASSUME o.common
      PROVE  Names(c, Snapshot(o))[n + 1] = CommonName
  <2>1. n + 1 \in DOMAIN Snapshot(o)
    BY <1>1, <1>4
  <2>2. NameIn(c, ShownCommon) = CommonName
    BY DEF NameIn, ShownCommon
  <2> QED
    BY <1>1, <1>2, <1>4, <2>1, <2>2
<1> QED
  BY <1>1, <1>3, <1>4 DEF Names, n

LEMMA IndexItself ==
  ASSUME NEW c, NEW o, IsContent(c), IsContent(o.content),
         Placed(c) = Placed(o.content), Telling(o),
         NEW k \in 1 .. PlacedCount(o.content)
  PROVE  elf_index_for(c, Snapshot(o), k) = k
<1> DEFINE n     == PlacedCount(o.content)
           names == Names(c, Snapshot(o))
           same  == Has(c, names[k])
           m     == n + IF o.common THEN 1 ELSE 0
<1>1. /\ n \in Nat /\ DOMAIN Placed(c) = 1 .. n
      /\ \A j \in 1 .. n : names[j] = Placed(c)[j].name
  BY NamesAgree
<1>2. /\ DOMAIN Snapshot(o) = 1 .. m /\ m \in Nat
      /\ Snapshot(o)[k] = Shown(o, k)
  BY SnapshotIs
<1>3. k \in Nat /\ k \in DOMAIN Snapshot(o)
  BY <1>1, <1>2
<1>4. k \in same
  BY <1>1 DEF Has
<1>5. Rank(names, k) = Cardinality(Below(same, k))
  <2>1. \A j : j \in Below(same, k) <=> j \in 1 .. k - 1 /\ names[j] = names[k]
    BY <1>1, <1>3 DEF Below, Has
  <2> HIDE DEF names, same
  <2>2. Below(same, k) = {j \in 1 .. k - 1 : names[j] = names[k]}
    BY <2>1
  <2> QED
    BY <2>2 DEF Rank
<1>6. Len(Placed(c)[k].body) = Snapshot(o)[k].size
  <2>1. Shown(o, k).size = Len(Placed(o.content)[k].body)
    BY DEF Shown
  <2> QED
    BY <1>2, <2>1
<1> HIDE DEF names, same, m
<1>7. /\ Positions(same, PlacedCount(c))
      /\ elf_index_for(c, Snapshot(o), k)
           = IF /\ Rank(names, k) < Cardinality(same)
                /\ Len(Placed(c)[Nth(same, Rank(names, k))].body) = Snapshot(o)[k].size
               THEN Nth(same, Rank(names, k)) ELSE 0
  BY <1>2, <1>3, IndexIs DEF names, same
<1>8. /\ Cardinality(Below(same, k)) < Cardinality(same)
      /\ Nth(same, Cardinality(Below(same, k))) = k
  BY <1>4, <1>7, PlacedIs, NthOnly
<1> QED
  BY <1>5, <1>6, <1>7, <1>8

LEMMA TrueFileVerifies ==
  ASSUME NEW c, NEW o, IsContent(c), IsContent(o.content), c.elf,
         Placed(c) = Placed(o.content), Telling(o)
  PROVE  verify(c, Snapshot(o))
<1> DEFINE n     == PlacedCount(o.content)
           snap  == Snapshot(o)
           names == Names(c, snap)
           has(k) == Has(c, names[k])
           loaded(k) == {j \in 1 .. k : /\ names[j] = names[k]
                                        /\ snap[j].size = snap[k].size}
           file(k) == {i \in has(k) : Len(Placed(c)[i].body) = snap[k].size}
<1>1. /\ n \in Nat /\ DOMAIN Placed(c) = 1 .. n
      /\ DOMAIN names = DOMAIN snap
      /\ \A k \in 1 .. n : names[k] = Placed(c)[k].name
      /\ o.common => names[n + 1] = CommonName
      /\ \A k \in 1 .. n : Placed(c)[k].name # CommonName
  BY NamesAgree, PlacedIs
<1>2. /\ DOMAIN snap = 1 .. n + IF o.common THEN 1 ELSE 0
      /\ \A k \in 1 .. n : snap[k].size = Len(Placed(c)[k].body)
  <2>1. /\ DOMAIN snap = 1 .. n + IF o.common THEN 1 ELSE 0
        /\ \A k \in 1 .. n : snap[k] = Shown(o, k)
    BY SnapshotIs
  <2>2. \A k \in 1 .. n : Shown(o, k).size = Len(Placed(o.content)[k].body)
    BY DEF Shown
  <2> QED
    BY <2>1, <2>2
<1>3. \A k : k \in DOMAIN snap <=> k \in 1 .. n \/ (o.common /\ k = n + 1)
  BY <1>1, <1>2
<1>4. ASSUME NEW k \in 1 .. n
      PROVE  has(k) # {} /\ Cardinality(loaded(k)) <= Cardinality(file(k))
  <2>1. k \in has(k)
    BY <1>1 DEF Has
  <2>2. \A j \in 1 .. k : j \in 1 .. n
    BY <1>1
  <2>3. loaded(k) \subseteq file(k)
    BY <1>1, <1>2, <2>2 DEF Has
  <2>4. Positions(file(k), n)
    BY <1>1 DEF Positions, Has
  <2>5. IsFiniteSet(file(k))
    <3> HIDE DEF file, n
    <3> QED
      BY <1>1, <2>4, BelowFinite
  <2>6. Cardinality(loaded(k)) <= Cardinality(file(k))
    <3> HIDE DEF loaded, file
    <3> QED
      BY <2>3, <2>5, FS_Subset
  <2> HIDE DEF loaded, file, has
  <2> QED
    BY <2>1, <2>6
<1>5. ASSUME o.common
      PROVE  has(n + 1) = {} /\ names[n + 1][1] = ".common.rtems"
  <2>1. \A i \in DOMAIN Placed(c) : Placed(c)[i].name # names[n + 1]
    <3> HIDE DEF n, names
    <3> QED
      BY <1>1, <1>5
  <2>2. has(n + 1) = {}
    BY <2>1 DEF Has
  <2>3. names[n + 1] = CommonName
    BY <1>1, <1>5
  <2>4. CommonName[1] = ".common.rtems"
    BY DEF CommonName
  <2>5. names[n + 1][1] = ".common.rtems"
    BY <2>3, <2>4
  <2> QED
    BY <2>2, <2>5
<1>6. \A k \in DOMAIN snap :
        IF has(k) = {} THEN names[k][1] = ".common.rtems"
        ELSE Cardinality(loaded(k)) <= Cardinality(file(k))
  <2> HIDE DEF n, snap, names, has, loaded, file
  <2> QED
    BY <1>3, <1>4, <1>5
<1> QED
  BY <1>6 DEF verify, Fits, Has

LEMMA TrueFileSame ==
  ASSUME NEW c, NEW o, IsContent(c), IsContent(o.content),
         Placed(c) = Placed(o.content), Telling(o)
  PROVE  ~Differs(c, Snapshot(o))
<1> DEFINE n    == PlacedCount(o.content)
           snap == Snapshot(o)
<1> SUFFICES ASSUME NEW k \in DOMAIN snap, snap[k].bytes # <<>>,
                    NEW s, s = Placed(c)[elf_index_for(c, snap, k)],
                    Maskable(c, s), NEW b \in DOMAIN s.body \ Mask(s),
                    s.body[b] # snap[k].bytes[b]
             PROVE  FALSE
  BY DEF Differs
<1>1. /\ n \in Nat
      /\ k \in 1 .. n \/ (k = n + 1 /\ snap[k] = ShownCommon)
      /\ \A j \in 1 .. n : snap[j] = Shown(o, j)
  <2>1. /\ n \in Nat
        /\ DOMAIN snap = 1 .. n + IF o.common THEN 1 ELSE 0
        /\ \A j \in 1 .. n : snap[j] = Shown(o, j)
        /\ o.common => snap[n + 1] = ShownCommon
    BY SnapshotIs
  <2> HIDE DEF n, snap
  <2> QED
    BY <2>1
<1>2. k \in 1 .. n
  BY <1>1 DEF ShownCommon
<1>3. s = Placed(c)[k]
  BY <1>2, IndexItself
<1>4. snap[k].bytes = Relocated(s)
  <2>1. snap[k] = Shown(o, k)
    BY <1>1, <1>2
  <2>2. Shown(o, k).bytes = IF o.bytes /\ s.exec THEN Relocated(s) ELSE <<>>
    BY <1>3 DEF Shown
  <2> HIDE DEF n, snap
  <2> QED
    BY <2>1, <2>2
<1>5. \A at \in DOMAIN s.relocs : Written(s, at, LoaderWidths) = Written(s, at, Widths)
  BY ObjectResolutionAssumption DEF Maskable, Written
<1>6. b \notin UNION {Written(s, at, LoaderWidths) : at \in DOMAIN s.relocs}
  BY <1>5 DEF Mask
<1>7. Relocated(s)[b] = s.body[b]
  BY <1>6 DEF Relocated
<1> QED
  BY <1>4, <1>7

(* The file that was loaded, or its twin with DWARF, matches.              *)
LEMMA TrueFile ==
  ASSUME NEW c, NEW o, IsContent(c), IsContent(o.content), c.elf,
         Placed(c) = Placed(o.content), Telling(o)
  PROVE  Matches(c, Snapshot(o))
BY TrueFileVerifies, TrueFileSame DEF Matches

-----------------------------------------------------------------------------
(* A file that matches, at a section that is found in it.                  *)

(* The k-th loaded section, when its bytes were recorded.                  *)
LEMMA ShownBytes ==
  ASSUME NEW o, IsContent(o.content), NEW k \in DOMAIN Placed(o.content)
  PROVE  /\ k \in Nat /\ k \in DOMAIN Snapshot(o)
         /\ Snapshot(o)[k].bytes # <<>>
              => Len(Snapshot(o)[k].bytes) = Snapshot(o)[k].size
<1> DEFINE n    == PlacedCount(o.content)
           s    == Placed(o.content)[k]
           snap == Snapshot(o)
<1>1. /\ n \in Nat /\ k \in 1 .. n /\ k \in DOMAIN snap
      /\ snap[k] = Shown(o, k)
  <2>1. n \in Nat /\ k \in 1 .. n
    BY PlacedIs
  <2>2. /\ DOMAIN snap = 1 .. n + IF o.common THEN 1 ELSE 0
        /\ \A j \in 1 .. n : snap[j] = Shown(o, j)
    BY SnapshotIs
  <2> HIDE DEF n, snap
  <2> QED
    BY <2>1, <2>2
<1>2. s.body \in Seq(Nat)
  BY PlacedIs
<1>3. Shown(o, k).size = Len(s.body)
  BY DEF Shown
<1>4. Shown(o, k).bytes = IF o.bytes /\ s.exec THEN Relocated(s) ELSE <<>>
  BY DEF Shown
<1> HIDE DEF s
<1>5. Len(Relocated(s)) = Len(s.body)
  <2>1. DOMAIN s.body = 1 .. Len(s.body) /\ Len(s.body) \in Nat
    BY <1>2
  <2>2. DOMAIN Relocated(s) = 1 .. Len(s.body)
    BY <2>1 DEF Relocated
  <2>3. Relocated(s) \in Seq({Relocated(s)[i] : i \in 1 .. Len(s.body)})
    BY <2>1, <2>2 DEF Relocated
  <2> QED
    BY <2>1, <2>2, <2>3
<1> QED
  BY <1>1, <1>3, <1>4, <1>5

(* It is compared when it is the section of its own in the file.           *)
LEMMA ComparedAt ==
  ASSUME NEW c, IsContent(c), NEW o, IsContent(o.content),
         Matches(c, Snapshot(o)), NEW k \in DOMAIN Placed(o.content),
         NEW i, i = elf_index_for(c, Snapshot(o), k), i # 0,
         Snapshot(o)[k].bytes # <<>>, Maskable(c, Placed(c)[i])
  PROVE  LET t == Placed(c)[i]
             bytes == Snapshot(o)[k].bytes
         IN /\ Len(t.body) = Len(bytes)
            /\ \A b \in DOMAIN t.body : t.body[b] = bytes[b] \/ b \in Mask(t)
<1> DEFINE snap == Snapshot(o)
           m    == PlacedCount(o.content) + IF o.common THEN 1 ELSE 0
<1>1. /\ k \in Nat /\ k \in DOMAIN snap
      /\ Len(snap[k].bytes) = snap[k].size
  BY ShownBytes
<1>2. m \in Nat /\ DOMAIN snap = 1 .. m
  BY SnapshotIs
<1> HIDE DEF snap, m
<1>3. Len(Placed(c)[i].body) = snap[k].size
  BY <1>1, <1>2, IndexIs DEF snap
<1>4. \A b \in DOMAIN Placed(c)[i].body \ Mask(Placed(c)[i]) :
        Placed(c)[i].body[b] = snap[k].bytes[b]
  BY <1>1 DEF Matches, Differs, snap
<1> QED
  BY <1>1, <1>3, <1>4 DEF snap

(* A section that alone has its name, in the snapshot and in the file, is  *)
(* found in it.                                                            *)
LEMMA OnlyOneFound ==
  ASSUME NEW c, IsContent(c), NEW o, IsContent(o.content),
         verify(c, Snapshot(o)), NEW k \in DOMAIN Placed(o.content),
         ~Repeated(Names(c, Snapshot(o)), k),
         Cardinality(Has(c, Names(c, Snapshot(o))[k])) = 1
  PROVE  LET same == Has(c, Names(c, Snapshot(o))[k])
             i    == elf_index_for(c, Snapshot(o), k)
         IN i # 0 /\ i = CHOOSE j \in same : TRUE
<1> DEFINE snap  == Snapshot(o)
           names == Names(c, snap)
           m     == PlacedCount(o.content) + IF o.common THEN 1 ELSE 0
           same  == Has(c, names[k])
           loaded == {j \in 1 .. k : /\ names[j] = names[k]
                                     /\ snap[j].size = snap[k].size}
           file  == {i \in same : Len(Placed(c)[i].body) = snap[k].size}
           below == {j \in 1 .. k - 1 : names[j] = names[k]}
<1>1. k \in Nat /\ k \in DOMAIN snap
  BY ShownBytes
<1>2. m \in Nat /\ DOMAIN snap = 1 .. m /\ DOMAIN names = DOMAIN snap
  BY SnapshotIs DEF Names
<1>3. PICK i : same = {i}
  <2>1. PlacedCount(c) \in Nat /\ DOMAIN Placed(c) = 1 .. PlacedCount(c)
    BY PlacedIs
  <2>2. IsFiniteSet(same)
    <3>1. Positions(same, PlacedCount(c))
      BY <2>1 DEF Positions, Has
    <3> HIDE DEF same
    <3> QED
      BY <2>1, <3>1, BelowFinite
  <2>3. Cardinality(same) = 1
    OBVIOUS
  <2> HIDE DEF same
  <2> QED
    BY <2>2, <2>3, FS_Singleton
<1>4. Rank(names, k) = 0
  <2>1. \A j \in DOMAIN names \ {k} : names[j] # names[k]
    BY DEF Repeated
  <2> HIDE DEF names, snap, m
  <2>2. \A j : j \notin below
    BY <1>1, <1>2, <2>1
  <2>3. below = {}
    BY <2>2
  <2> QED
    BY <2>3, FS_EmptySet DEF Rank
<1>5. Cardinality(loaded) <= Cardinality(file)
  <2>1. same # {}
    BY <1>3
  <2> QED
    BY <1>1, <2>1 DEF verify, Fits, Has
<1>6. i \in file
  <2> SUFFICES ASSUME i \notin file PROVE FALSE
    OBVIOUS
  <2>1. file = {}
    <3> HIDE DEF same
    <3> QED
      BY <1>3
  <2>2. k \in loaded
    BY <1>1
  <2>3. IsFiniteSet(loaded)
    <3>1. Positions(loaded, k)
      BY <1>1 DEF Positions
    <3> HIDE DEF loaded
    <3> QED
      BY <1>1, <3>1, BelowFinite
  <2> HIDE DEF loaded, file
  <2>4. Cardinality(file) = 0
    BY <2>1, FS_EmptySet
  <2>5. Cardinality(loaded) \in Nat /\ Cardinality(loaded) # 0
    BY <2>2, <2>3, FS_EmptySet, FS_CardinalityType
  <2> QED
    BY <1>5, <2>4, <2>5
<1>7. Len(Placed(c)[i].body) = snap[k].size
  BY <1>6
<1>8. Nth(same, 0) = i
  <2>1. Positions(same, PlacedCount(c)) /\ PlacedCount(c) \in Nat
    BY PlacedIs DEF Positions, Has
  <2>2. Cardinality(same) = 1
    OBVIOUS
  <2> HIDE DEF same
  <2>3. Nth(same, 0) \in same
    BY <2>1, <2>2, NthExists
  <2> QED
    BY <1>3, <2>3
<1> HIDE DEF snap, names, same, m
<1>9. elf_index_for(c, snap, k)
        = IF /\ Rank(names, k) < Cardinality(same)
             /\ Len(Placed(c)[Nth(same, Rank(names, k))].body) = snap[k].size
            THEN Nth(same, Rank(names, k)) ELSE 0
  BY <1>1, <1>2, IndexIs DEF snap, names, same
<1>10. Cardinality(same) = 1
  BY DEF same, names, snap
<1>11. i # 0
  <2>1. PlacedCount(c) \in Nat /\ DOMAIN Placed(c) = 1 .. PlacedCount(c)
    BY PlacedIs
  <2>2. i \in DOMAIN Placed(c)
    BY <1>3 DEF same, Has
  <2> QED
    BY <2>1, <2>2
<1>12. elf_index_for(c, snap, k) = i
  BY <1>4, <1>7, <1>8, <1>9, <1>10
<1> QED
  BY <1>3, <1>11, <1>12 DEF snap, names, same

-----------------------------------------------------------------------------
(* The slots hold records of resolved objects, each in the slot of its own *)
(* section.                                                                *)
ObjectsRight ==
  /\ run \in Runs
  /\ \A w \in wins : IsContent(w.obj.content)

RecordRight(key, x) ==
  /\ x[1] \in wins /\ x[1].res.kind = "found"
  /\ x[2] \in DOMAIN Placed(x[1].obj.content)
  /\ key = SlotOf(x[1], x[2]) /\ key.index # 0

SlotsRight == \A s \in slots : \A x \in s.from : RecordRight(s.key, x)

SliceInv == ResolutionInv /\ ObjectsRight /\ SlotsRight

LEMMA SliceInit == Init => SliceInv
BY ResolutionInit DEF Init, SliceInv, ObjectsRight, SlotsRight

(* A record in a slot stays in it while objects are added.                 *)
LEMMA RecordKept ==
  ASSUME NEW key, NEW x, RecordRight(key, x), path' = path, wins \subseteq wins'
  PROVE  RecordRight(key, x)'
BY DEF RecordRight, SlotOf

LEMMA SliceResolveNext ==
  ASSUME SliceInv, ResolveNext
  PROVE  SliceInv'
<1>1. ResolutionInv'
  BY ResolveNextRight DEF SliceInv
<1> DEFINE o == run[cov][next]
           r == IF MemoKey(o) \in DOMAIN resolved THEN resolved[MemoKey(o)]
                ELSE resolve(o.name, Snapshot(o))
<1>2. /\ cov \in DOMAIN run /\ next \in DOMAIN run[cov]
      /\ wins' = wins \cup {[gen |-> next, obj |-> o, res |-> r]}
      /\ path' = path /\ run' = run /\ slots' = slots
  BY DEF ResolveNext, options
<1>3. IsContent(o.content)
  BY <1>2, ObjectResolutionAssumption DEF SliceInv, ObjectsRight
<1> HIDE DEF o, r
<1>4. ObjectsRight'
  BY <1>2, <1>3 DEF SliceInv, ObjectsRight
<1>5. SlotsRight'
  BY <1>2, RecordKept DEF SliceInv, SlotsRight
<1> QED
  BY <1>1, <1>4, <1>5 DEF SliceInv

LEMMA WindowsRight ==
  ASSUME NEW x \in Windows
  PROVE  /\ x[1] \in wins /\ x[1].res.kind = "found"
         /\ x[2] \in DOMAIN Placed(x[1].obj.content)
         /\ SlotOf(x[1], x[2]).index # 0
<1>1. PICK w \in wins : /\ w.res.kind = "found"
                        /\ \E k \in DOMAIN Placed(w.obj.content) :
                             x = <<w, k>> /\ SlotOf(w, k).index # 0
  BY DEF Windows
<1>2. PICK k \in DOMAIN Placed(w.obj.content) :
        x = <<w, k>> /\ SlotOf(w, k).index # 0
  BY <1>1
<1> QED
  BY <1>1, <1>2

LEMMA SliceAttribute ==
  ASSUME SliceInv, Attribute
  PROVE  SliceInv'
<1>1. /\ UNCHANGED <<path, run, no_verify, resolved, wins, unresolved, rc, failures>>
      /\ \A s \in slots' : \E key :
           s.key = key /\ \A x \in s.from : x \in Windows /\ SlotOf(x[1], x[2]) = key
  BY DEF Attribute, options
<1>2. ResolutionInv'
  BY <1>1, ResolutionStep DEF SliceInv, Next, Attribute
<1>3. ObjectsRight'
  BY <1>1 DEF SliceInv, ObjectsRight
<1>4. SlotsRight'
  <2> SUFFICES ASSUME NEW s \in slots', NEW x \in s.from
               PROVE  RecordRight(s.key, x)'
    BY DEF SlotsRight
  <2>1. x \in Windows /\ SlotOf(x[1], x[2]) = s.key
    BY <1>1
  <2>2. RecordRight(s.key, x)
    BY <2>1, WindowsRight DEF RecordRight
  <2> QED
    BY <1>1, <2>2, RecordKept
<1> QED
  BY <1>2, <1>3, <1>4 DEF SliceInv

LEMMA SliceStep == SliceInv /\ [Next]_vars => SliceInv'
<1> SUFFICES ASSUME SliceInv, [Next]_vars PROVE SliceInv'
  OBVIOUS
<1>1. ResolutionInv'
  BY ResolutionStep DEF SliceInv
<1>2. CASE ResolveNext
  BY <1>2, SliceResolveNext
<1>3. CASE Attribute
  BY <1>3, SliceAttribute
<1>4. CASE WriteSlice
  <2>1. UNCHANGED <<path, run, wins>> /\ slots' \subseteq slots
    BY <1>4 DEF WriteSlice, options
  <2>2. ObjectsRight' /\ SlotsRight'
    BY <2>1, RecordKept DEF SliceInv, ObjectsRight, SlotsRight
  <2> QED
    BY <1>1, <2>2 DEF SliceInv
<1>5. CASE Done
  BY <1>1, <1>5 DEF Done, options, SliceInv, ObjectsRight, SlotsRight
<1>6. CASE UNCHANGED vars
  <2>1. UNCHANGED <<path, run, wins, slots>>
    BY <1>6 DEF vars, options
  <2>2. ObjectsRight' /\ SlotsRight'
    BY <2>1, RecordKept DEF SliceInv, ObjectsRight, SlotsRight
  <2> QED
    BY <1>1, <2>2 DEF SliceInv
<1>7. CASE Traceback
  BY <1>1, <1>7 DEF Traceback, options, SliceInv, ObjectsRight, SlotsRight
<1> QED
  BY <1>2, <1>3, <1>4, <1>5, <1>6, <1>7 DEF Next

(* The file that was loaded, or its twin with DWARF, is never refused: the *)
(* names cut short are completed, sections of a repeated name find each    *)
(* other by their order, and the mask covers all that the loader rewrote   *)
(* (verify, full_name, elf_index_for, relocation_mask, content_check).     *)
THEOREM TrueFileMatchesCorrect == Spec => []TrueFileMatches
<1>1. SliceInv => TrueFileMatches
  <2> SUFFICES ASSUME SliceInv, NEW w \in wins, NEW p \in DOMAIN path,
                      path[p].elf, Placed(path[p]) = Placed(w.obj.content),
                      Telling(w.obj)
               PROVE  Matches(path[p], Snapshot(w.obj))
    BY DEF TrueFileMatches, Telling
  <2>1. IsContent(path[p]) /\ IsContent(w.obj.content)
    BY ObjectResolutionAssumption DEF SliceInv, ResolutionInv, ObjectsRight
  <2> QED
    BY <2>1, TrueFile
<1> QED
  BY <1>1, SliceInit, SliceStep, PTL DEF Spec

(* What a slot is labelled with.                                           *)
LEMMA SlotIs ==
  ASSUME NEW w, NEW k, NEW c, c = path[w.res.cand],
         NEW names, names = Names(c, Snapshot(w.obj))
  PROVE  /\ SlotOf(w, k).label = w.res.cand
         /\ SlotOf(w, k).section = names[k]
         /\ Repeated(names, k) => SlotOf(w, k).index = elf_index_for(c, Snapshot(w.obj), k)
         /\ ~Repeated(names, k) => SlotOf(w, k).index = -1
BY DEF SlotOf

(* What CodeThatRan says of one record.                                    *)
Compared(key, x) ==
  LET c    == path[key.label]
      ran  == Snapshot(x[1].obj)[x[2]]
      same == Has(c, key.section)
      i    == IF key.index > 0 THEN key.index ELSE CHOOSE j \in same : TRUE
      t    == Placed(c)[i]
  IN (key.index > 0 \/ Cardinality(same) = 1) /\ ran.bytes # <<>> /\ Maskable(c, t)
     => /\ Len(t.body) = Len(ran.bytes)
        /\ \A b \in DOMAIN t.body : t.body[b] = ran.bytes[b] \/ b \in Mask(t)

(* A record's section was compared with the one that its slot names.       *)
LEMMA RecordCompared ==
  ASSUME SliceInv, ~no_verify, NEW key, NEW x, RecordRight(key, x)
  PROVE  Compared(key, x)
<1>a. PICK c : c = path[key.label]
  OBVIOUS
<1>b. PICK ran : ran = Snapshot(x[1].obj)[x[2]]
  OBVIOUS
<1>c. PICK same : same = Has(c, key.section)
  OBVIOUS
<1>d. PICK i : i = IF key.index > 0 THEN key.index ELSE CHOOSE j \in same : TRUE
  OBVIOUS
<1> SUFFICES ASSUME key.index > 0 \/ Cardinality(same) = 1,
                    ran.bytes # <<>>, Maskable(c, Placed(c)[i])
             PROVE  /\ Len(Placed(c)[i].body) = Len(ran.bytes)
                    /\ \A b \in DOMAIN Placed(c)[i].body :
                         \/ Placed(c)[i].body[b] = ran.bytes[b]
                         \/ b \in Mask(Placed(c)[i])
  BY <1>a, <1>b, <1>c, <1>d DEF Compared
<1>1. PICK w \in wins, k \in DOMAIN Placed(x[1].obj.content) :
        /\ w = x[1] /\ k = x[2] /\ w.res.kind = "found"
        /\ key = SlotOf(w, k) /\ key.index # 0
  BY DEF RecordRight
<1>2. PICK o : o = w.obj
  OBVIOUS
<1>3. k \in DOMAIN Placed(o.content) /\ ran = Snapshot(o)[k]
  BY <1>b, <1>1, <1>2
<1>4. key.label = w.res.cand /\ c = path[w.res.cand]
  BY <1>a, <1>1, SlotIs
<1>5. PICK names : names = Names(c, Snapshot(o))
  OBVIOUS
<1>6. /\ key.section = names[k]
      /\ Repeated(names, k) => key.index = elf_index_for(c, Snapshot(o), k)
      /\ ~Repeated(names, k) => key.index = -1
  BY <1>1, <1>2, <1>4, <1>5, SlotIs
<1>7. w.res.cand \in DOMAIN path /\ Matches(c, Snapshot(o))
  BY <1>1, <1>2, <1>4 DEF SliceInv, ResolutionInv, WinsRight, Right, Named
<1>8. IsContent(c) /\ IsContent(o.content)
  BY <1>2, <1>4, <1>7, ObjectResolutionAssumption
     DEF SliceInv, ResolutionInv, ObjectsRight
<1>9. i # 0 /\ i = elf_index_for(c, Snapshot(o), k)
  <2>1. CASE Repeated(names, k)
    <3>1. elf_index_for(c, Snapshot(o), k) # 0
      BY <1>1, <1>6, <2>1
    <3>2. k \in Nat /\ k \in DOMAIN Snapshot(o)
      BY <1>3, <1>8, ShownBytes
    <3>3. PICK m \in Nat : DOMAIN Snapshot(o) = 1 .. m
      BY <1>8, SnapshotIs
    <3>4. elf_index_for(c, Snapshot(o), k) \in DOMAIN Placed(c)
      BY <1>8, <3>1, <3>2, <3>3, IndexIs
    <3>5. elf_index_for(c, Snapshot(o), k) > 0
      <4>1. PlacedCount(c) \in Nat /\ DOMAIN Placed(c) = 1 .. PlacedCount(c)
        BY <1>8, PlacedIs
      <4> QED
        BY <3>4, <4>1
    <3> QED
      BY <1>d, <1>6, <2>1, <3>1, <3>5
  <2>2. CASE ~Repeated(names, k)
    <3>1. Cardinality(same) = 1 /\ i = CHOOSE j \in same : TRUE
      BY <1>d, <1>6, <2>2
    <3>2. same = Has(c, names[k])
      BY <1>c, <1>6
    <3>3. verify(c, Snapshot(o))
      BY <1>7 DEF Matches
    <3> QED
      BY <1>3, <1>5, <1>8, <2>2, <3>1, <3>2, <3>3, OnlyOneFound
  <2> QED
    BY <2>1, <2>2
<1>10. Snapshot(o)[k].bytes # <<>> /\ Maskable(c, Placed(c)[i])
  BY <1>3
<1>11. /\ Len(Placed(c)[i].body) = Len(Snapshot(o)[k].bytes)
       /\ \A b \in DOMAIN Placed(c)[i].body :
            \/ Placed(c)[i].body[b] = Snapshot(o)[k].bytes[b]
            \/ b \in Mask(Placed(c)[i])
  BY ONLY <1>3, <1>7, <1>8, <1>9, <1>10, ComparedAt
<1> QED
  BY <1>3, <1>11

(* Coverage is never shown against code other than the code that ran, of   *)
(* any file, for any search path and however often an object was loaded,   *)
(* where the section is the only one of its name in the file or has an     *)
(* index of its own in the slot (resolve, content_check, mod_slot).        *)
THEOREM CodeThatRanCorrect == Spec => []CodeThatRan
<1>1. SliceInv => CodeThatRan
  <2> SUFFICES ASSUME SliceInv, ~no_verify, NEW s \in slots, NEW x \in s.from
               PROVE  Compared(s.key, x)
    BY DEF CodeThatRan, Has, Compared
  <2>1. RecordRight(s.key, x)
    BY DEF SliceInv, SlotsRight
  <2> QED
    BY <2>1, RecordCompared
<1> QED
  BY <1>1, SliceInit, SliceStep, PTL DEF Spec
=============================================================================
