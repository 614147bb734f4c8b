-------------------------- MODULE ReportPool_proofs --------------------------
(***************************************************************************)
(* What tcgcov report promises, for every set of artifacts, ELFs, threads  *)
(* and command lines, and wherever calls fail or a command is killed.      *)
(*                                                                         *)
(*   CacheInv   the caches: entries are whole, and built once              *)
(*   JobInv     the threads: what lcov joins belongs together              *)
(*   StatusInv  the outcomes and the status are those of a serial run      *)
(*   MergeInv   the aggregate is made of this command's results            *)
(*   BranchInv  branch columns are shown if there are branches             *)
(*   OutInv     what is printed is in the order of the command line        *)
(*                                                                         *)
(* Each rests on those before it and has a section of its own.             *)
(*                                                                         *)
(* CacheInv: whoever builds an entry holds its lock and has found it       *)
(* missing, only that thread can publish it, and what lies in the thread's *)
(* temporary file is the output for the key it is building.                *)
(***************************************************************************)
EXTENDS ReportPromises, DataTheorems, SequenceTheorems

OnWorkers(f) == f = [w \in Workers |-> f[w]]
OnKeys(f)    == f = [k \in Keys |-> f[k]]

Tables ==
  /\ OnWorkers(pc) /\ OnWorkers(job) /\ OnWorkers(tmp)
  /\ OnKeys(lock) /\ OnKeys(cache) /\ OnKeys(made)

(* The builder holds the lock, and the entry is still missing.             *)
BuilderAlone ==
  \A w \in Workers : \A k \in Keys :
    Building(w, k) => lock[k] = w /\ cache[k] = None

(* What is an output for key k.                                            *)
Output(x, k) ==
  /\ x # None /\ x # Partial
  /\ x.elf = k[2]
  /\ k[1] = "coverable" => x.section = k[3] /\ <<x.dwarf, x.paths>> = k[4]

TmpRight ==
  \A w \in Workers :
    /\ pc[w] = "save_disasm" => Output(tmp[w], disasm_key(job[w]))
    /\ pc[w] = "save_coverable" => Output(tmp[w], coverable_key(job[w]))

EntriesRight == \A k \in Keys : cache[k] # None => Output(cache[k], k)

(* Whatever was built in this command is there.                            *)
MadeOnce ==
  \A k \in Keys : made[k] \in {0, 1} /\ (made[k] = 1 => cache[k] # None)

CacheInv == Tables /\ BuilderAlone /\ TmpRight /\ EntriesRight /\ MadeOnce

BuildSteps == {"objdump", "save_disasm", "inventory", "save_coverable"}

(* A record of output is neither the mark of an absent file nor of half of *)
(* one (Disassembly, Inventory).                                           *)
LEMMA RecordsDiffer ==
  /\ \A e, b : [elf |-> e, builds |-> b] \notin {None, Partial}
  /\ \A e, s, p, d, b :
       [elf |-> e, section |-> s, paths |-> p, dwarf |-> d, builds |-> b]
         \notin {None, Partial}
<1>1. DOMAIN None = {"none"} /\ DOMAIN Partial = {"none"}
  BY DEF None, Partial
<1>2. ASSUME NEW e, NEW b
      PROVE  "elf" \in DOMAIN [elf |-> e, builds |-> b]
  OBVIOUS
<1>3. ASSUME NEW e, NEW s, NEW p, NEW d, NEW b
      PROVE  "elf" \in DOMAIN [elf |-> e, section |-> s, paths |-> p,
                               dwarf |-> d, builds |-> b]
  OBVIOUS
<1>4. "elf" \notin {"none"}
  OBVIOUS
<1> QED BY <1>1, <1>2, <1>3, <1>4, Zenon

(* What a tool writes is an output for the key of its artifact.            *)
LEMMA ContentRight ==
  ASSUME NEW a
  PROVE  /\ Output(Disassembly(a), disasm_key(a))
         /\ Output(Inventory(a), coverable_key(a))
<1>1. Disassembly(a) \notin {None, Partial} /\ Inventory(a) \notin {None, Partial}
  BY RecordsDiffer DEF Disassembly, Inventory
<1>2. Disassembly(a).elf = disasm_key(a)[2] /\ disasm_key(a)[1] = "disasm"
  BY DEF Disassembly, disasm_key
<1>3. /\ Inventory(a).elf = coverable_key(a)[2]
      /\ Inventory(a).section = coverable_key(a)[3]
      /\ <<Inventory(a).dwarf, Inventory(a).paths>> = coverable_key(a)[4]
  BY DEF Inventory, coverable_key, sig
<1> QED BY <1>1, <1>2, <1>3 DEF Output

(* A thread that goes to a step outside the caches, and builds nothing,    *)
(* disturbs nothing: the steps on files of one artifact, and failures.     *)
LEMMA QuietStep ==
  ASSUME CacheInv, NEW w \in Workers, NEW s, s \notin BuildSteps,
         pc' = [pc EXCEPT ![w] = s],
         \/ UNCHANGED job
         \/ \E a : job' = [job EXCEPT ![w] = a],
         UNCHANGED <<cmd, tmp, cache, made>>,
         \/ UNCHANGED lock
         \/ \E key : /\ Building(w, key)
                     /\ lock' = [lock EXCEPT ![key] = Free]
  PROVE  CacheInv'
<1> USE DEF CacheInv
<1>1. Tables'
  BY DEF Tables, OnWorkers, OnKeys
<1>2. \A v \in Workers : v # w => pc'[v] = pc[v] /\ job'[v] = job[v]
  BY DEF Tables, OnWorkers
<1>3. pc'[w] = s
  BY DEF Tables, OnWorkers
<1>4. \A v \in Workers : \A k \in Keys :
        Building(v, k)' => v # w /\ Building(v, k)
  BY <1>2, <1>3 DEF Building, BuildSteps, disasm_key, coverable_key, sig,
     _target_of, TargetOfOptions
<1>5. \A k \in Keys : \A v \in Workers :
        v # w /\ Building(v, k) => lock'[k] = lock[k]
  <2> SUFFICES ASSUME NEW k \in Keys, NEW v \in Workers, v # w, Building(v, k)
               PROVE  lock'[k] = lock[k]
    OBVIOUS
  <2>1. ~Building(w, k)
    BY DEF BuilderAlone
  <2> QED BY <2>1 DEF Tables, OnKeys
<1>6. BuilderAlone'
  BY <1>4, <1>5 DEF BuilderAlone
<1>7. TmpRight'
  BY <1>2, <1>3 DEF TmpRight, BuildSteps, disasm_key, coverable_key, sig,
     _target_of, TargetOfOptions, Output
<1>8. EntriesRight' /\ MadeOnce'
  BY DEF EntriesRight, MadeOnce, Output
<1> QED BY <1>1, <1>6, <1>7, <1>8

(* A lock that is free is held by no thread.                               *)
LEMMA FreeIsNobody == Free \notin Workers
<1> DEFINE all == {c.jobs : c \in Commands}
           most(n) == n \in all /\ \A c \in Commands : c.jobs <= n
<1>1. \E n : most(n)
  BY ReportAssumption
<1>2. PICK n : most(n) /\ Workers = 1 .. n
  BY <1>1, Zenon DEF Workers
<1>3. n \in Nat
  BY <1>2, ReportAssumption
<1> QED BY <1>2, <1>3 DEF Free

(* A thread finds the entry, or takes the lock and begins to build it.     *)
LEMMA EnterStep ==
  ASSUME CacheInv, NEW w \in Workers, NEW key, NEW build_it, NEW go_on,
         go_on \notin BuildSteps,
         \/ build_it = "objdump" /\ key = disasm_key(job[w])
         \/ build_it = "inventory" /\ key = coverable_key(job[w]),
         EnterCache(w, key, build_it, go_on)
  PROVE  CacheInv'
<1> USE DEF CacheInv
<1>1. CASE _nonempty(key)
  <2>1. /\ pc' = [pc EXCEPT ![w] = go_on]
        /\ UNCHANGED <<cmd, job, tmp, cache, made, lock>>
    BY <1>1 DEF EnterCache, Goto, files, main, request
  <2> QED BY <2>1, QuietStep
<1>2. CASE ~_nonempty(key)
  <2>1. /\ pc' = [pc EXCEPT ![w] = build_it]
        /\ lock' = [lock EXCEPT ![key] = w]
        /\ lock[key] = Free /\ cache[key] = None
        /\ UNCHANGED <<cmd, job, tmp, cache, made>>
    BY <1>2 DEF EnterCache, Goto, files, main, request, Hold, Acquire,
       _nonempty
  <2>2. Tables'
    BY <2>1 DEF Tables, OnWorkers, OnKeys
  <2>3. pc'[w] = build_it /\ \A v \in Workers : v # w => pc'[v] = pc[v]
    BY <2>1 DEF Tables, OnWorkers
  <2>4. \A k \in Keys : Building(w, k)' => k = key
    BY <2>1, <2>3 DEF Building, disasm_key, coverable_key, sig, _target_of,
       TargetOfOptions
  <2>5. \A v \in Workers : \A k \in Keys :
          v # w /\ Building(v, k)' => Building(v, k)
    BY <2>1, <2>3 DEF Building, disasm_key, coverable_key, sig, _target_of,
       TargetOfOptions
  <2>6. \A v \in Workers : \A k \in Keys : Building(v, k) => k # key
    BY <2>1, FreeIsNobody DEF BuilderAlone
  <2>7. \A k \in Keys : lock'[k] = IF k = key THEN w ELSE lock[k]
    BY <2>1 DEF Tables, OnKeys
  <2>8. BuilderAlone'
    <3> SUFFICES ASSUME NEW v \in Workers, NEW k \in Keys, Building(v, k)'
                 PROVE  lock'[k] = v /\ cache'[k] = None
      BY DEF BuilderAlone
    <3>1. CASE v = w
      BY <3>1, <2>1, <2>4, <2>7
    <3>2. CASE v # w
      BY <3>2, <2>1, <2>5, <2>6, <2>7 DEF BuilderAlone
    <3> QED BY <3>1, <3>2
  <2>9. TmpRight'
    BY <2>1, <2>3 DEF TmpRight, disasm_key, coverable_key, sig, _target_of,
       TargetOfOptions, Output
  <2>10. EntriesRight' /\ MadeOnce'
    BY <2>1 DEF EntriesRight, MadeOnce, Output
  <2> QED BY <2>2, <2>8, <2>9, <2>10
<1> QED BY <1>1, <1>2

(* The tool has written the thread's own file.                             *)
LEMMA BuiltStep ==
  ASSUME CacheInv, NEW w \in Workers, NEW content,
         \/ /\ pc[w] = "objdump" /\ pc' = [pc EXCEPT ![w] = "save_disasm"]
            /\ Output(content, disasm_key(job[w]))
         \/ /\ pc[w] = "inventory" /\ pc' = [pc EXCEPT ![w] = "save_coverable"]
            /\ Output(content, coverable_key(job[w])),
         tmp' = [tmp EXCEPT ![w] = content],
         UNCHANGED <<cmd, job, lock, cache, made>>
  PROVE  CacheInv'
<1> USE DEF CacheInv
<1>1. Tables'
  BY DEF Tables, OnWorkers, OnKeys
<1>2. \A v \in Workers : v # w => pc'[v] = pc[v] /\ tmp'[v] = tmp[v]
  BY DEF Tables, OnWorkers
<1>3. \/ /\ pc[w] = "objdump" /\ pc'[w] = "save_disasm"
         /\ Output(content, disasm_key(job[w]))
      \/ /\ pc[w] = "inventory" /\ pc'[w] = "save_coverable"
         /\ Output(content, coverable_key(job[w]))
  BY DEF Tables, OnWorkers
<1>4. tmp'[w] = content
  BY DEF Tables, OnWorkers
<1>5. \A v \in Workers : \A k \in Keys : Building(v, k)' => Building(v, k)
  BY <1>2, <1>3 DEF Building, disasm_key, coverable_key, sig, _target_of,
     TargetOfOptions
<1>6. BuilderAlone'
  BY <1>5 DEF BuilderAlone
<1>7. TmpRight'
  BY <1>2, <1>3, <1>4 DEF TmpRight, disasm_key, coverable_key, sig, _target_of,
     TargetOfOptions, Output
<1>8. EntriesRight' /\ MadeOnce'
  BY DEF EntriesRight, MadeOnce, Output
<1> QED BY <1>1, <1>6, <1>7, <1>8

(* The temporary becomes the entry, and the lock is given back.            *)
LEMMA SaveStep ==
  ASSUME CacheInv, NEW w \in Workers, NEW key, NEW go_on,
         go_on \notin BuildSteps, Building(w, key), Output(tmp[w], key),
         Save(w, key, go_on)
  PROVE  CacheInv'
<1> USE DEF CacheInv
<1>1. /\ cache' = [cache EXCEPT ![key] = tmp[w]]
      /\ tmp' = [tmp EXCEPT ![w] = None]
      /\ made' = [made EXCEPT ![key] = @ + 1]
      /\ lock' = [lock EXCEPT ![key] = Free]
      /\ pc' = [pc EXCEPT ![w] = go_on]
      /\ UNCHANGED <<cmd, job>>
  BY DEF Save, Release, Goto, main, request
<1>2. Tables'
  BY <1>1 DEF Tables, OnWorkers, OnKeys
<1>3. /\ pc'[w] = go_on
      /\ \A v \in Workers : v # w => pc'[v] = pc[v] /\ tmp'[v] = tmp[v]
  BY <1>1 DEF Tables, OnWorkers
<1>4. \A v \in Workers : \A k \in Keys :
        Building(v, k)' => v # w /\ Building(v, k)
  BY <1>1, <1>3 DEF Building, BuildSteps, disasm_key, coverable_key, sig,
     _target_of, TargetOfOptions
<1>5. \A k \in Keys : \A v \in Workers :
        v # w /\ Building(v, k) => k # key
  BY DEF BuilderAlone
<1>6. \A k \in Keys :
        IF k = key
        THEN cache'[k] = tmp[w] /\ made'[k] = made[k] + 1
        ELSE cache'[k] = cache[k] /\ made'[k] = made[k] /\ lock'[k] = lock[k]
  BY <1>1 DEF Tables, OnKeys
<1>7. BuilderAlone'
  BY <1>4, <1>5, <1>6 DEF BuilderAlone
<1>8. TmpRight'
  BY <1>1, <1>3 DEF TmpRight, BuildSteps, disasm_key, coverable_key, sig,
     _target_of, TargetOfOptions, Output
<1>9. EntriesRight'
  BY <1>6 DEF EntriesRight, Output
<1>10. MadeOnce'
  <2>1. key \in Keys => cache[key] = None
    BY DEF BuilderAlone
  <2>2. key \in Keys => made[key] = 0
    BY <2>1 DEF MadeOnce
  <2>3. tmp[w] # None
    BY DEF Output
  <2> QED BY <1>6, <2>2, <2>3 DEF MadeOnce
<1> QED BY <1>2, <1>7, <1>8, <1>9, <1>10

(* A failing call ends the artifact, and what its thread held is given     *)
(* back.                                                                   *)
LEMMA FailStep ==
  ASSUME CacheInv, NEW w \in Workers, NEW call, Fails(w, call),
         UNCHANGED <<cmd, job, tmp, cache, made>>,
         \/ UNCHANGED lock
         \/ \E key : Building(w, key) /\ Release(w, key)
  PROVE  CacheInv'
<1>1. pc' = [pc EXCEPT ![w] = "idle"]
  BY DEF Fails, Finish
<1>2. "idle" \notin BuildSteps
  BY DEF BuildSteps
<1> QED BY <1>1, <1>2, QuietStep DEF Release

LEMMA BuildStep ==
  ASSUME CacheInv, NEW w \in Workers, NEW key, NEW call, NEW content, NEW save,
         \/ /\ pc[w] = "objdump" /\ save = "save_disasm"
            /\ key = disasm_key(job[w])
         \/ /\ pc[w] = "inventory" /\ save = "save_coverable"
            /\ key = coverable_key(job[w]),
         Output(content, key), Build(w, key, call, content, save)
  PROVE  CacheInv'
<1>1. CASE How(call) = OK
  <2>1. /\ tmp' = [tmp EXCEPT ![w] = content]
        /\ pc' = [pc EXCEPT ![w] = save]
        /\ UNCHANGED <<cmd, job, lock, cache, made>>
    BY <1>1 DEF Build, Goto, files, main, request
  <2> QED BY <2>1, BuiltStep
<1>2. CASE How(call) # OK
  <2>1. /\ Fails(w, call) /\ Release(w, key)
        /\ UNCHANGED <<cmd, job, tmp, cache, made>>
    BY <1>2 DEF Build, files, request
  <2>2. Building(w, key)
    BY DEF Building
  <2> QED BY <2>1, <2>2, FailStep
<1> QED BY <1>1, <1>2

LEMMA TakeKeeps ==
  ASSUME CacheInv, NEW w \in Workers, Take(w)
  PROVE  CacheInv'
<1>1. UNCHANGED <<cmd, tmp, cache, made, lock>>
  BY DEF Take, files, request
<1>2. job' = [job EXCEPT ![w] = covs[next]]
  BY DEF Take
<1>3. \E s \in {"idle", "disasm", "symbolize"} : pc' = [pc EXCEPT ![w] = s]
  BY DEF Take, Finish, Goto
<1>4. {"idle", "disasm", "symbolize"} \intersect BuildSteps = {}
  BY DEF BuildSteps
<1> QED BY <1>1, <1>2, <1>3, <1>4, QuietStep

LEMMA SymbolizeKeeps ==
  ASSUME CacheInv, NEW w \in Workers, Symbolize(w)
  PROVE  CacheInv'
<1>1. UNCHANGED <<cmd, job, tmp, cache, made, lock>>
  BY DEF Symbolize, request
<1>2. \E s \in {"idle", "coverable"} : pc' = [pc EXCEPT ![w] = s]
  BY DEF Symbolize, Fails, Finish, Goto
<1>3. {"idle", "coverable"} \intersect BuildSteps = {}
  BY DEF BuildSteps
<1> QED BY <1>1, <1>2, <1>3, QuietStep

LEMMA BranchesKeeps ==
  ASSUME CacheInv, NEW w \in Workers, Branches(w)
  PROVE  CacheInv'
<1>1. UNCHANGED <<cmd, job, tmp, cache, made, lock>>
  BY DEF Branches, request
<1>2. \E s \in {"idle", "lcov", "lcov_branches"} : pc' = [pc EXCEPT ![w] = s]
  <2>1. CASE How(<<"branches", job[w]>>) = OK /\ ~NoProfile
    BY <2>1 DEF Branches, Goto
  <2>2. CASE How(<<"branches", job[w]>>) = OK /\ NoProfile
    BY <2>2 DEF Branches, Goto
  <2>3. CASE How(<<"branches", job[w]>>) # OK
    BY <2>3 DEF Branches, Fails, Finish
  <2> QED BY <2>1, <2>2, <2>3
<1>3. {"idle", "lcov", "lcov_branches"} \intersect BuildSteps = {}
  BY DEF BuildSteps
<1> QED BY <1>1, <1>2, <1>3, QuietStep

LEMMA LcovKeeps ==
  ASSUME CacheInv, NEW w \in Workers, Lcov(w)
  PROVE  CacheInv'
<1>1. UNCHANGED <<cmd, job, tmp, cache, made, lock>>
  BY DEF Lcov, request
<1>2. pc' = [pc EXCEPT ![w] = "idle"]
  BY DEF Lcov, Fails, Finish
<1>3. "idle" \notin BuildSteps
  BY DEF BuildSteps
<1> QED BY <1>1, <1>2, <1>3, QuietStep

LEMMA DisasmKeeps ==
  ASSUME CacheInv, NEW w \in Workers, disasm_for(w)
  PROVE  CacheInv'
<1> DEFINE key == disasm_key(job[w])
<1>1. CASE pc[w] = "disasm" /\ EnterCache(w, key, "objdump", "symbolize")
  <2>1. "symbolize" \notin BuildSteps
    BY DEF BuildSteps
  <2> QED BY <1>1, <2>1, EnterStep
<1>2. CASE /\ pc[w] = "objdump"
           /\ Build(w, key, key, Disassembly(job[w]), "save_disasm")
  BY <1>2, BuildStep, ContentRight
<1>3. CASE pc[w] = "save_disasm" /\ Save(w, key, "symbolize")
  <2>1. "symbolize" \notin BuildSteps
    BY DEF BuildSteps
  <2>2. Building(w, key) /\ Output(tmp[w], key)
    BY <1>3 DEF Building, CacheInv, TmpRight
  <2> QED BY <1>3, <2>1, <2>2, SaveStep
<1> QED BY <1>1, <1>2, <1>3 DEF disasm_for

LEMMA CoverableKeeps ==
  ASSUME CacheInv, NEW w \in Workers, coverable_for(w)
  PROVE  CacheInv'
<1> DEFINE key == coverable_key(job[w])
           go_on == IF cmd.branches THEN "branches" ELSE "lcov"
<1>1. go_on \notin BuildSteps
  BY DEF BuildSteps
<1>2. CASE pc[w] = "coverable" /\ EnterCache(w, key, "inventory", go_on)
  <2> HIDE DEF go_on
  <2> QED BY <1>1, <1>2, EnterStep
<1>3. CASE /\ pc[w] = "inventory"
           /\ Build(w, key, <<"coverable", _target_of(job[w]).elf>>,
                    Inventory(job[w]), "save_coverable")
  BY <1>3, BuildStep, ContentRight
<1>4. CASE pc[w] = "save_coverable" /\ Save(w, key, go_on)
  <2>1. Building(w, key) /\ Output(tmp[w], key)
    BY <1>4 DEF Building, CacheInv, TmpRight
  <2> HIDE DEF go_on
  <2> QED BY <1>1, <1>4, <2>1, SaveStep
<1> QED BY <1>2, <1>3, <1>4 DEF coverable_for

(* Between two commands, and when one is killed, no thread is building.    *)
LEMMA FreshThreads ==
  ASSUME CacheInv, NewThreads,
         UNCHANGED cache,
         \/ UNCHANGED made
         \/ made' = [k \in Keys |-> 0]
  PROVE  CacheInv'
<1> USE DEF CacheInv
<1>1. Tables'
  BY DEF Tables, OnWorkers, OnKeys, NewThreads
<1>2. \A w \in Workers : pc'[w] = "idle"
  BY DEF NewThreads
<1>3. BuilderAlone' /\ TmpRight'
  BY <1>2 DEF BuilderAlone, TmpRight, Building
<1>4. EntriesRight' /\ MadeOnce'
  BY DEF EntriesRight, MadeOnce, Output
<1> QED BY <1>1, <1>3, <1>4

LEMMA CacheInvInit == Init => CacheInv
<1> SUFFICES ASSUME Init PROVE CacheInv
  OBVIOUS
<1>1. Tables
  BY DEF Init, Tables, OnWorkers, OnKeys
<1>2. BuilderAlone /\ TmpRight
  BY DEF Init, BuilderAlone, TmpRight, Building
<1>3. EntriesRight /\ MadeOnce
  BY DEF Init, EntriesRight, MadeOnce
<1> QED BY <1>1, <1>2, <1>3 DEF CacheInv

LEMMA CacheInvStutter ==
  ASSUME CacheInv, UNCHANGED <<cmd, pc, job, tmp, lock, cache, made>>
  PROVE  CacheInv'
BY DEF CacheInv, Tables, OnWorkers, OnKeys, BuilderAlone, TmpRight,
   EntriesRight, MadeOnce, Building, Output, disasm_key, coverable_key, sig,
   _target_of, TargetOfOptions

LEMMA CacheInvNext == CacheInv /\ [Next]_vars => CacheInv'
<1> SUFFICES ASSUME CacheInv, [Next]_vars PROVE CacheInv'
  OBVIOUS
<1>1. ASSUME NEW c \in Commands, Start(c) PROVE CacheInv'
  <2>1. /\ NewThreads /\ UNCHANGED cache
        /\ made' = [k \in Keys |-> 0]
    BY <1>1 DEF Start, files
  <2> QED BY <2>1, FreshThreads
<1>2. ASSUME NEW w \in Workers, Thread(w) PROVE CacheInv'
  BY <1>2, TakeKeeps, SymbolizeKeeps, BranchesKeeps, LcovKeeps, DisasmKeeps,
     CoverableKeeps DEF Thread, _process_one
<1>3. CASE Main
  <2>1. UNCHANGED <<cmd, threads, cache, made>>
    BY <1>3 DEF Main, Cancel, Abort, Conclude, Merge, _genhtml, files, request
  <2> QED BY <2>1, CacheInvStutter DEF threads
<1>4. CASE Kill
  <2>1. NewThreads /\ UNCHANGED <<cache, made>>
    BY <1>4 DEF Kill
  <2> QED BY <2>1, FreshThreads
<1>5. ASSUME NEW e \in Elfs, Rebuild(e) PROVE CacheInv'
  <2>1. UNCHANGED <<cmd, threads, cache, made>>
    BY <1>5 DEF Rebuild, files, main, request
  <2> QED BY <2>1, CacheInvStutter DEF threads
<1>6. CASE UNCHANGED vars
  BY <1>6, CacheInvStutter DEF vars, files, main, request, threads
<1> QED BY <1>1, <1>2, <1>3, <1>4, <1>5, <1>6 DEF Next

(* For every set of artifacts, ELFs and command lines, however the threads *)
(* are scheduled and wherever a command fails or is killed: an entry of    *)
(* disasm/ or coverable/ is the whole output for its own key               *)
(* (_write_atomic, coverable_for).                                         *)
THEOREM CacheExactCorrect == Spec => []CacheExact
<1>1. CacheInv => CacheExact
  BY DEF CacheInv, EntriesRight, Output, CacheExact
<1> QED BY <1>1, CacheInvInit, CacheInvNext, PTL DEF Spec

(* And a command builds each entry at most once, one thread at a time      *)
(* (_KeyedLocks).                                                          *)
THEOREM InventoriedOnceCorrect == Spec => []InventoriedOnce
<1>1. CacheInv => InventoriedOnce
  BY DEF CacheInv, BuilderAlone, MadeOnce, InventoriedOnce
<1> QED BY <1>1, CacheInvInit, CacheInvNext, PTL DEF Spec

-----------------------------------------------------------------------------
(***************************************************************************)
(* What tcgcov report joins, and what may replace the aggregate, for every *)
(* set of artifacts, threads and command lines.                            *)
(*                                                                         *)
(* JobInv says why: no two threads work on one artifact, and none on one   *)
(* that is decided, so that the files under an artifact's name are the     *)
(* ones its own thread has written in this command; and while a thread is  *)
(* at work the main thread cannot conclude.                                *)
(***************************************************************************)

-----------------------------------------------------------------------------
(* Names and targets, given the artifacts and the options.                 *)

NameIn(s, a) ==
  IF \E b \in ToSet(s) : b # a /\ Stem[b] = Stem[a]
  THEN <<Stem[a], Tag[a]>> ELSE <<Stem[a]>>

TargetIn(c, a) ==
  IF Recorded[a].rtl
  THEN [elf |-> Recorded[a].elf, section |-> Recorded[a].section]
  ELSE [elf |-> IF c.elf # NoElf THEN c.elf ELSE Recorded[a].elf,
        section |-> IF c.section # NoSection THEN c.section
                    ELSE Recorded[a].section]

KeyIn(c, a) == <<"coverable", TargetIn(c, a).elf, TargetIn(c, a).section,
                 <<c.dwarf, c.paths>>>>

LEMMA InTerms ==
  \A a : /\ _base_name(a) = NameIn(covs, a)
         /\ _target_of(a) = TargetIn(cmd, a)
         /\ coverable_key(a) = KeyIn(cmd, a)
BY DEF _base_name, NameIn, _target_of, TargetOfOptions, TargetIn,
   coverable_key, sig, KeyIn

(* crc32 tells artifacts of one basename apart.                            *)
LEMMA NamesDiffer ==
  ASSUME NEW s, NEW a \in ToSet(s), NEW b \in ToSet(s),
         a \in Artifacts, b \in Artifacts, NameIn(s, a) = NameIn(s, b)
  PROVE  a = b
<1> SUFFICES ASSUME a # b PROVE FALSE
  OBVIOUS
<1>1. Tag[a] # Tag[b]
  BY ReportAssumption
<1>2. CASE Stem[a] = Stem[b]
  <2>1. NameIn(s, a)[2] = Tag[a] /\ NameIn(s, b)[2] = Tag[b]
    BY <1>2 DEF NameIn
  <2> QED BY <1>1, <2>1
<1>3. CASE Stem[a] # Stem[b]
  <2>1. NameIn(s, a)[1] = Stem[a] /\ NameIn(s, b)[1] = Stem[b]
    BY DEF NameIn
  <2> QED BY <1>3, <2>1
<1> QED BY <1>2, <1>3

LEMMA NameInNames ==
  ASSUME NEW s, NEW a \in Artifacts PROVE NameIn(s, a) \in Names
BY DEF NameIn, Names

LEMMA KeyInKeys ==
  ASSUME NEW c \in Commands, NEW a \in Artifacts, TargetIn(c, a).elf # NoElf
  PROVE  KeyIn(c, a) \in Keys
<1>1. TargetIn(c, a).elf \in Elfs
  BY ReportAssumption DEF TargetIn
<1>2. TargetIn(c, a).section \in Sections
  BY DEF TargetIn, Sections
<1>3. <<c.dwarf, c.paths>> \in Sigs
  BY DEF Sigs
<1> QED BY <1>1, <1>2, <1>3 DEF KeyIn, Keys

-----------------------------------------------------------------------------
(* The invariant.                                                          *)

Agrees(x, c, a) == /\ x.elf = TargetIn(c, a).elf
                   /\ x.section = TargetIn(c, a).section
                   /\ x.paths = c.paths
Own(x, c, a)    == x.artifact = a /\ Agrees(x, c, a)

InfoRight(i, c, a) ==
  /\ i # None
  /\ Own(i.sym, c, a) /\ Agrees(i.cab, c, a)
  /\ i.br # None => Own(i.br, c, a)

OnArtifacts(f) == f = [a \in Artifacts |-> f[a]]
OnNames(f)     == f = [n \in Names |-> f[n]]

JobTables ==
  /\ OnWorkers(pc) /\ OnWorkers(job) /\ OnArtifacts(outcome)
  /\ OnNames(symbolized) /\ OnNames(branches) /\ OnNames(info)
  /\ \A a \in Artifacts : outcome[a] \in {OK, SKIPPED, FAILED, RAISED, PENDING}
  /\ kills \in Nat

Given ==
  /\ cmd \in Commands /\ next \in Nat \ {0}
  /\ covs \in Seq(Artifacts)
  /\ \A i, j \in DOMAIN covs : covs[i] = covs[j] => i = j
  /\ \A i \in DOMAIN covs : i >= next => outcome[covs[i]] = PENDING

Busy(w) == pc[w] # "idle"

(* Each thread has an undecided artifact of its own.                       *)
JobsApart ==
  \A w \in Workers : Busy(w) =>
    /\ phase = "working"
    /\ \E i \in DOMAIN covs : i < next /\ job[w] = covs[i]
    /\ outcome[job[w]] = PENDING
    /\ TargetIn(cmd, job[w]).elf # NoElf
    /\ \A v \in Workers : Busy(v) /\ job[v] = job[w] => v = w

(* The files that a thread at this step relies on are its artifact's own.  *)
Symbolized == {"coverable", "inventory", "save_coverable", "branches", "lcov",
               "lcov_branches"}
Inventoried == {"branches", "lcov", "lcov_branches"}

StageRight(step, a, c, s, sym, files_, br) ==
  /\ step \in Symbolized => Own(sym[NameIn(s, a)], c, a)
  /\ step \in Inventoried => Output(files_[KeyIn(c, a)], KeyIn(c, a))
  /\ step = "lcov_branches" =>
       br[NameIn(s, a)] # None /\ Own(br[NameIn(s, a)], c, a)

Staged ==
  \A w \in Workers :
    StageRight(pc[w], job[w], cmd, covs, symbolized, cache, branches)

Joined ==
  \A a \in ToSet(covs) : outcome[a] = OK => InfoRight(info[NameIn(covs, a)], cmd, a)

Verdict ==
  phase \in {"merging", "rendering"} =>
    /\ \A a \in ToSet(covs) : outcome[a] \in {OK, SKIPPED}
    /\ \E a \in ToSet(covs) : outcome[a] = OK

JobInv == JobTables /\ Given /\ JobsApart /\ Staged /\ Joined /\ Verdict

-----------------------------------------------------------------------------
(* One step of a thread at work.                                           *)

(* Whatever is an output for its key stays one.                            *)
KeepsOutputs == \A k \in Keys : Output(cache[k], k) => Output(cache'[k], k)

(* Thread w goes to another step or ends its artifact; of the files it     *)
(* touches only those of its artifact.                                     *)
LEMMA WorkStep ==
  ASSUME JobInv, NEW w \in Workers, Busy(w), NEW s, NEW x, NEW y, NEW z, NEW o,
         pc' = [pc EXCEPT ![w] = s],
         UNCHANGED <<job, cmd, covs, next, phase, kills>>,
         \/ s # "idle" /\ UNCHANGED outcome
         \/ /\ s = "idle" /\ o \in {OK, FAILED, RAISED}
            /\ outcome' = [outcome EXCEPT ![job[w]] = o]
            /\ o = OK => InfoRight(info'[NameIn(covs, job[w])], cmd, job[w]),
         \/ UNCHANGED symbolized
         \/ symbolized' = [symbolized EXCEPT ![NameIn(covs, job[w])] = x],
         \/ UNCHANGED branches
         \/ branches' = [branches EXCEPT ![NameIn(covs, job[w])] = y],
         \/ UNCHANGED info
         \/ info' = [info EXCEPT ![NameIn(covs, job[w])] = z],
         KeepsOutputs,
         StageRight(s, job[w], cmd, covs, symbolized', cache', branches')
  PROVE  JobInv'
<1> DEFINE a == job[w]
           n == NameIn(covs, a)
<1>1. PICK j \in DOMAIN covs : j < next /\ a = covs[j]
  BY DEF JobInv, JobsApart
<1>2. /\ phase = "working" /\ outcome[a] = PENDING
      /\ a \in Artifacts /\ a \in ToSet(covs) /\ n \in Names
  <2>1. a \in Artifacts /\ a \in ToSet(covs)
    BY <1>1 DEF JobInv, Given, ToSet
  <2> QED BY <2>1, NameInNames DEF JobInv, JobsApart
<1>3. \A v \in Workers : pc'[v] = IF v = w THEN s ELSE pc[v]
  BY DEF JobInv, JobTables, OnWorkers
<1>4. \A v \in Workers : v # w /\ Busy(v) => job[v] # a
  BY DEF JobInv, JobsApart
<1>5. \A b \in Artifacts :
        outcome'[b] = IF b = a /\ s = "idle" THEN o ELSE outcome[b]
  BY <1>2 DEF JobInv, JobTables, OnArtifacts
<1>6. \A b \in ToSet(covs) : b \in Artifacts /\ NameIn(covs, b) \in Names
  BY NameInNames DEF JobInv, Given, ToSet
<1>7. \A b \in ToSet(covs) : b # a => NameIn(covs, b) # n
  BY <1>2, <1>6, NamesDiffer
<1>8. \A m \in Names : m # n => /\ symbolized'[m] = symbolized[m]
                                /\ branches'[m] = branches[m]
                                /\ info'[m] = info[m]
  BY DEF JobInv, JobTables, OnNames
<1>9. JobTables'
  BY <1>2, <1>5 DEF JobInv, JobTables, OnWorkers, OnArtifacts, OnNames
<1>10. Given'
  <2>1. \A i \in DOMAIN covs : i >= next => covs[i] # a
    BY <1>1 DEF JobInv, Given
  <2>2. \A i \in DOMAIN covs : covs[i] \in Artifacts
    BY DEF JobInv, Given
  <2> QED BY <1>5, <2>1, <2>2 DEF JobInv, Given
<1> HIDE DEF n, a
<1>11. JobsApart'
  <2> SUFFICES ASSUME NEW v \in Workers, pc'[v] # "idle"
               PROVE  /\ phase = "working"
                      /\ \E i \in DOMAIN covs : i < next /\ job[v] = covs[i]
                      /\ outcome'[job[v]] = PENDING
                      /\ TargetIn(cmd, job[v]).elf # NoElf
                      /\ \A u \in Workers : pc'[u] # "idle" /\ job[u] = job[v] => u = v
    BY DEF JobsApart, Busy
  <2>1. \A u \in Workers : pc'[u] # "idle" => Busy(u)
    BY <1>3 DEF Busy
  <2>2. \E i \in DOMAIN covs : i < next /\ job[v] = covs[i]
    BY <2>1 DEF JobInv, JobsApart
  <2>3. job[v] \in Artifacts
    BY <2>2 DEF JobInv, Given
  <2>4. outcome'[job[v]] = outcome[job[v]]
    <3>1. CASE v = w
      BY <1>3, <1>5, <2>3, <3>1
    <3>2. CASE v # w
      BY <1>4, <1>5, <2>1, <2>3, <3>2
    <3> QED BY <3>1, <3>2
  <2> QED BY <2>1, <2>2, <2>4 DEF JobInv, JobsApart
<1>12. Staged'
  <2> SUFFICES ASSUME NEW v \in Workers
               PROVE  StageRight(pc'[v], job[v], cmd, covs, symbolized', cache', branches')
    BY DEF Staged
  <2>1. CASE v = w
    BY <1>3, <2>1
  <2>2. CASE v # w /\ Busy(v)
    <3>1. PICK i \in DOMAIN covs : job[v] = covs[i]
      BY <2>2 DEF JobInv, JobsApart
    <3>2. job[v] \in ToSet(covs) /\ job[v] \in Artifacts
      BY <3>1 DEF ToSet, JobInv, Given
    <3>3. NameIn(covs, job[v]) \in Names /\ NameIn(covs, job[v]) # n
      BY <1>4, <1>6, <1>7, <2>2, <3>2
    <3>4. KeyIn(cmd, job[v]) \in Keys
      BY <2>2, <3>2, KeyInKeys DEF JobInv, JobsApart, Given
    <3>5. StageRight(pc[v], job[v], cmd, covs, symbolized, cache, branches)
      BY DEF JobInv, Staged
    <3> QED BY <1>3, <1>8, <2>2, <3>3, <3>4, <3>5 DEF StageRight, KeepsOutputs
  <2>3. CASE v # w /\ ~Busy(v)
    BY <1>3, <2>3 DEF StageRight, Busy, Symbolized, Inventoried
  <2> QED BY <2>1, <2>2, <2>3
<1>13. Joined'
  <2> SUFFICES ASSUME NEW b \in ToSet(covs), outcome'[b] = OK
               PROVE  InfoRight(info'[NameIn(covs, b)], cmd, b)
    BY DEF Joined
  <2>1. CASE b = a
    BY <1>2, <1>5, <2>1 DEF a, OK, PENDING
  <2>2. CASE b # a
    <3>1. outcome[b] = OK
      BY <1>5, <1>6, <2>2
    <3> QED BY <1>6, <1>7, <1>8, <2>2, <3>1 DEF JobInv, Joined
  <2> QED BY <2>1, <2>2
<1>14. Verdict'
  BY <1>2 DEF Verdict
<1> QED BY <1>9, <1>10, <1>11, <1>12, <1>13, <1>14 DEF JobInv

LEMMA AtWork ==
  ASSUME JobInv, CacheInv, NEW w \in Workers, Busy(w)
  PROVE  /\ job[w] \in Artifacts
         /\ NameIn(covs, job[w]) \in Names
         /\ KeyIn(cmd, job[w]) \in Keys
         /\ StageRight(pc[w], job[w], cmd, covs, symbolized, cache, branches)
         /\ OnKeys(cache) /\ OnNames(symbolized) /\ OnNames(branches) /\ OnNames(info)
<1>1. job[w] \in Artifacts
  BY DEF JobInv, JobsApart, Given
<1>2. KeyIn(cmd, job[w]) \in Keys
  BY <1>1, KeyInKeys DEF JobInv, JobsApart, Given
<1> QED BY <1>1, <1>2, NameInNames DEF JobInv, JobTables, Staged, CacheInv, Tables

(* A call that fails ends the artifact.                                    *)
LEMMA FailWork ==
  ASSUME JobInv, CacheInv, NEW w \in Workers, Busy(w), NEW call, Fails(w, call),
         UNCHANGED <<job, cmd, covs, next, phase, kills, cache, outputs>>
  PROVE  JobInv'
<1>1. /\ pc' = [pc EXCEPT ![w] = "idle"]
      /\ outcome' = [outcome EXCEPT ![job[w]] = How(call)]
      /\ How(call) \in {FAILED, RAISED} /\ How(call) # OK
  BY DEF Fails, Finish, FAILED, RAISED, OK
<1>2. StageRight("idle", job[w], cmd, covs, symbolized', cache', branches')
  BY DEF StageRight, Symbolized, Inventoried
<1>3. KeepsOutputs
  BY DEF KeepsOutputs
<1>4. UNCHANGED <<symbolized, branches, info>>
  BY DEF outputs
<1> QED BY <1>1, <1>2, <1>3, <1>4, WorkStep

(* A thread goes on, and no file changes.                                  *)
LEMMA GoOn ==
  ASSUME JobInv, CacheInv, NEW w \in Workers, Busy(w), NEW s, s # "idle",
         pc' = [pc EXCEPT ![w] = s],
         UNCHANGED <<job, cmd, covs, next, phase, kills, outcome, cache, outputs>>,
         StageRight(s, job[w], cmd, covs, symbolized, cache, branches)
  PROVE  JobInv'
<1>1. KeepsOutputs
  BY DEF KeepsOutputs
<1>2. UNCHANGED <<symbolized, branches, info>>
  BY DEF outputs
<1>3. StageRight(s, job[w], cmd, covs, symbolized', cache', branches')
  BY <1>2
<1> QED BY <1>1, <1>2, <1>3, WorkStep

LEMMA DisasmWork ==
  ASSUME JobInv, CacheInv, NEW w \in Workers, disasm_for(w)
  PROVE  JobInv'
<1> DEFINE key == disasm_key(job[w])
<1>1. Busy(w)
  BY DEF disasm_for, Busy
<1>2. \A s \in {"objdump", "save_disasm", "symbolize"} :
        s # "idle" /\ \A c, d, b : StageRight(s, job[w], cmd, covs, b, c, d)
  BY DEF StageRight, Symbolized, Inventoried
<1>3. CASE EnterCache(w, key, "objdump", "symbolize")
  <2>1. /\ \E s \in {"objdump", "symbolize"} : pc' = [pc EXCEPT ![w] = s]
        /\ UNCHANGED <<job, cmd, covs, next, phase, kills, outcome, cache, outputs>>
    BY <1>3 DEF EnterCache, Goto, files, main, request, status, results, world
  <2> QED BY <1>1, <1>2, <2>1, GoOn
<1>4. CASE Build(w, key, key, Disassembly(job[w]), "save_disasm")
  <2>1. CASE How(key) = OK
    <3>1. /\ pc' = [pc EXCEPT ![w] = "save_disasm"]
          /\ UNCHANGED <<job, cmd, covs, next, phase, kills, outcome, cache, outputs>>
      BY <1>4, <2>1 DEF Build, Goto, files, main, request, status, results, world
    <3> QED BY <1>1, <1>2, <3>1, GoOn
  <2>2. CASE How(key) # OK
    <3>1. /\ Fails(w, key)
          /\ UNCHANGED <<job, cmd, covs, next, phase, kills, cache, outputs>>
      BY <1>4, <2>2 DEF Build, files, request, status, world
    <3> QED BY <1>1, <3>1, FailWork
  <2> QED BY <2>1, <2>2
<1>5. CASE pc[w] = "save_disasm" /\ Save(w, key, "symbolize")
  <2>1. /\ pc' = [pc EXCEPT ![w] = "symbolize"]
        /\ cache' = [cache EXCEPT ![key] = tmp[w]]
        /\ UNCHANGED <<job, cmd, covs, next, phase, kills, outcome>>
        /\ UNCHANGED <<symbolized, branches, info>>
    BY <1>5 DEF Save, Goto, outputs, main, request, status, results, world
  <2>2. Output(tmp[w], key)
    BY <1>5 DEF CacheInv, TmpRight
  <2>3. KeepsOutputs
    BY <2>1, <2>2 DEF KeepsOutputs, CacheInv, Tables, OnKeys
  <2> HIDE DEF key
  <2> QED BY <1>1, <1>2, <2>1, <2>3, WorkStep
<1> QED BY <1>3, <1>4, <1>5 DEF disasm_for

LEMMA SymbolizeWork ==
  ASSUME JobInv, CacheInv, NEW w \in Workers, Symbolize(w)
  PROVE  JobInv'
<1> DEFINE a == job[w]
           call == <<"symbolize", a>>
<1>1. Busy(w)
  BY DEF Symbolize, Busy
<1>2. UNCHANGED <<job, cmd, covs, next, phase, kills, cache, branches, info>>
  BY DEF Symbolize, request, status, world
<1>3. CASE How(call) = OK
  <2> DEFINE x == [artifact |-> a, elf |-> TargetIn(cmd, a).elf,
                   section |-> TargetIn(cmd, a).section, paths |-> cmd.paths,
                   builds |-> {build[TargetIn(cmd, a).elf]}]
  <2>1. /\ symbolized' = [symbolized EXCEPT ![NameIn(covs, a)] = x]
        /\ pc' = [pc EXCEPT ![w] = "coverable"] /\ UNCHANGED outcome
    BY <1>3, InTerms DEF Symbolize, Goto
  <2>2. symbolized'[NameIn(covs, a)] = x
    BY <1>1, <2>1, AtWork DEF OnNames
  <2>3. Own(x, cmd, a)
    BY DEF Own, Agrees
  <2>4. StageRight("coverable", a, cmd, covs, symbolized', cache', branches')
    BY <2>2, <2>3 DEF StageRight, Inventoried
  <2>5. KeepsOutputs
    BY <1>2 DEF KeepsOutputs
  <2> HIDE DEF x
  <2> QED BY <1>1, <1>2, <2>1, <2>4, <2>5, WorkStep
<1>4. CASE How(call) # OK
  BY <1>1, <1>2, <1>4, FailWork DEF Symbolize, outputs
<1> QED BY <1>3, <1>4

LEMMA CoverableWork ==
  ASSUME JobInv, CacheInv, NEW w \in Workers, coverable_for(w)
  PROVE  JobInv'
<1> DEFINE a == job[w]
           key == KeyIn(cmd, a)
           call == <<"coverable", TargetIn(cmd, a).elf>>
           go_on == IF cmd.branches THEN "branches" ELSE "lcov"
<1>1. Busy(w) /\ pc[w] \in Symbolized
  BY DEF coverable_for, Busy, Symbolized
<1>2. Own(symbolized[NameIn(covs, a)], cmd, a)
  BY <1>1, AtWork DEF StageRight
<1>3. go_on # "idle" /\ go_on # "lcov_branches"
  OBVIOUS
<1>4. \/ pc[w] = "coverable" /\ EnterCache(w, key, "inventory", go_on)
      \/ /\ pc[w] = "inventory"
         /\ Build(w, key, call, Inventory(a), "save_coverable")
      \/ pc[w] = "save_coverable" /\ Save(w, key, go_on)
  BY InTerms DEF coverable_for
<1>5. \A s, files_, br :
        /\ s # "lcov_branches"
        /\ s \in Inventoried => Output(files_[key], key)
        => StageRight(s, a, cmd, covs, symbolized, files_, br)
  BY <1>2 DEF StageRight
<1>6. "inventory" \notin Inventoried /\ "save_coverable" \notin Inventoried
  BY DEF Inventoried
<1> HIDE DEF go_on, key
<1>7. CASE EnterCache(w, key, "inventory", go_on)
  <2>1. /\ pc' = [pc EXCEPT ![w] = IF cache[key] # None THEN go_on ELSE "inventory"]
        /\ UNCHANGED <<job, cmd, covs, next, phase, kills, outcome, cache, outputs>>
    BY <1>7 DEF EnterCache, Goto, _nonempty, files, main, request, status, results,
       world
  <2>2. cache[key] # None => Output(cache[key], key)
    BY <1>1, AtWork DEF CacheInv, EntriesRight, key
  <2>3. CASE cache[key] # None
    <3>1. StageRight(go_on, a, cmd, covs, symbolized, cache, branches)
      BY <1>3, <1>5, <2>2, <2>3
    <3> QED BY <1>1, <1>3, <2>1, <2>3, <3>1, GoOn
  <2>4. CASE cache[key] = None
    <3>1. StageRight("inventory", a, cmd, covs, symbolized, cache, branches)
      BY <1>5, <1>6
    <3> QED BY <1>1, <2>1, <2>4, <3>1, GoOn
  <2> QED BY <2>3, <2>4
<1>8. CASE Build(w, key, call, Inventory(a), "save_coverable")
  <2>1. CASE How(call) = OK
    <3>1. /\ pc' = [pc EXCEPT ![w] = "save_coverable"]
          /\ UNCHANGED <<job, cmd, covs, next, phase, kills, outcome, cache, outputs>>
      BY <1>8, <2>1 DEF Build, Goto, files, main, request, status, results, world
    <3>2. StageRight("save_coverable", a, cmd, covs, symbolized, cache, branches)
      BY <1>5, <1>6
    <3> QED BY <1>1, <3>1, <3>2, GoOn
  <2>2. CASE How(call) # OK
    <3>1. /\ Fails(w, call)
          /\ UNCHANGED <<job, cmd, covs, next, phase, kills, cache, outputs>>
      BY <1>8, <2>2 DEF Build, files, request, status, world
    <3> QED BY <1>1, <3>1, FailWork
  <2> QED BY <2>1, <2>2
<1>9. CASE pc[w] = "save_coverable" /\ Save(w, key, go_on)
  <2>1. /\ pc' = [pc EXCEPT ![w] = go_on]
        /\ cache' = [cache EXCEPT ![key] = tmp[w]]
        /\ UNCHANGED <<job, cmd, covs, next, phase, kills, outcome>>
        /\ UNCHANGED <<symbolized, branches, info>>
    BY <1>9 DEF Save, Goto, outputs, main, request, status, results, world
  <2>2. Output(tmp[w], key)
    BY <1>9, InTerms DEF CacheInv, TmpRight, key
  <2>3. key \in Keys /\ OnKeys(cache)
    BY <1>1, AtWork DEF key
  <2>4. KeepsOutputs
    BY <2>1, <2>2, <2>3 DEF KeepsOutputs, OnKeys
  <2>5. cache'[key] = tmp[w]
    BY <2>1, <2>3 DEF OnKeys
  <2>6. StageRight(go_on, a, cmd, covs, symbolized', cache', branches')
    BY <1>3, <1>5, <2>1, <2>2, <2>5
  <2> QED BY <1>1, <1>3, <2>1, <2>4, <2>6, WorkStep
<1> QED BY <1>4, <1>7, <1>8, <1>9

(* Nor is a record of branches (Branches).                                 *)
LEMMA BranchesAreThere ==
  \A a, e, s, p, b :
    [artifact |-> a, elf |-> e, section |-> s, paths |-> p, builds |-> b] # None
<1>1. DOMAIN None = {"none"}
  BY DEF None
<1>2. ASSUME NEW a, NEW e, NEW s, NEW p, NEW b
      PROVE  "elf" \in DOMAIN [artifact |-> a, elf |-> e, section |-> s,
                               paths |-> p, builds |-> b]
  OBVIOUS
<1>3. "elf" \notin {"none"}
  OBVIOUS
<1> QED BY <1>1, <1>2, <1>3, Zenon

LEMMA BranchesWork ==
  ASSUME JobInv, CacheInv, NEW w \in Workers, Branches(w)
  PROVE  JobInv'
<1> DEFINE a == job[w]
           call == <<"branches", a>>
<1>1. Busy(w) /\ pc[w] = "branches"
  BY DEF Branches, Busy
<1>2. /\ Own(symbolized[NameIn(covs, a)], cmd, a)
      /\ Output(cache[KeyIn(cmd, a)], KeyIn(cmd, a))
  BY <1>1, AtWork DEF StageRight, Symbolized, Inventoried
<1>3. UNCHANGED <<job, cmd, covs, next, phase, kills, cache, symbolized, info>>
  BY DEF Branches, request, status, world
<1>4. KeepsOutputs
  BY <1>3 DEF KeepsOutputs
<1>5. CASE How(call) = OK /\ ~NoProfile
  <2> DEFINE y == [artifact |-> a, elf |-> TargetIn(cmd, a).elf,
                   section |-> TargetIn(cmd, a).section, paths |-> cmd.paths,
                   builds |-> cache[disasm_key(a)].builds \union
                              {build[TargetIn(cmd, a).elf]}]
  <2>1. /\ branches' = [branches EXCEPT ![NameIn(covs, a)] = y]
        /\ pc' = [pc EXCEPT ![w] = "lcov_branches"] /\ UNCHANGED outcome
    BY <1>5, InTerms DEF Branches, Goto, results
  <2>2. branches'[NameIn(covs, a)] = y
    BY <1>1, <2>1, AtWork DEF OnNames
  <2>3. y # None /\ Own(y, cmd, a)
    <3>1. y # None
      BY BranchesAreThere
    <3> QED BY <3>1 DEF Own, Agrees
  <2>4. StageRight("lcov_branches", a, cmd, covs, symbolized', cache', branches')
    BY <1>2, <1>3, <2>2, <2>3 DEF StageRight
  <2> HIDE DEF y
  <2> QED BY <1>1, <1>3, <1>4, <2>1, <2>4, WorkStep
<1>6. CASE How(call) = OK /\ NoProfile
  <2>1. /\ pc' = [pc EXCEPT ![w] = "lcov"] /\ UNCHANGED <<branches, outcome>>
    BY <1>6 DEF Branches, Goto
  <2>2. StageRight("lcov", a, cmd, covs, symbolized', cache', branches')
    BY <1>2, <1>3 DEF StageRight
  <2> QED BY <1>1, <1>3, <1>4, <2>1, <2>2, WorkStep
<1>7. CASE How(call) # OK
  <2>1. Fails(w, call) /\ UNCHANGED branches
    BY <1>7 DEF Branches
  <2> QED BY <1>1, <1>3, <2>1, FailWork DEF outputs
<1> QED BY <1>5, <1>6, <1>7

(* A record of a result is not the mark of an absent file (Lcov).          *)
LEMMA InfoIsThere ==
  \A s, c, b : [sym |-> s, cab |-> c, br |-> b] # None
<1>1. DOMAIN None = {"none"}
  BY DEF None
<1>2. ASSUME NEW s, NEW c, NEW b
      PROVE  "sym" \in DOMAIN [sym |-> s, cab |-> c, br |-> b]
  OBVIOUS
<1>3. "sym" \notin {"none"}
  OBVIOUS
<1> QED BY <1>1, <1>2, <1>3, Zenon

LEMMA LcovWork ==
  ASSUME JobInv, CacheInv, NEW w \in Workers, Lcov(w)
  PROVE  JobInv'
<1> DEFINE a == job[w]
           n == NameIn(covs, a)
           key == KeyIn(cmd, a)
           call == <<"lcov", a>>
<1>1. Busy(w) /\ pc[w] \in {"lcov", "lcov_branches"}
  BY DEF Lcov, Busy
<1>2. /\ Own(symbolized[n], cmd, a) /\ Output(cache[key], key)
      /\ pc[w] = "lcov_branches" => Own(branches[n], cmd, a)
  BY <1>1, AtWork DEF StageRight, Symbolized, Inventoried
<1>3. UNCHANGED <<job, cmd, covs, next, phase, kills, cache, symbolized, branches>>
  BY DEF Lcov, request, status, world
<1>4. KeepsOutputs
  BY <1>3 DEF KeepsOutputs
<1>5. CASE How(call) = OK
  <2> DEFINE z == [sym |-> symbolized[n], cab |-> cache[key],
                   br |-> IF pc[w] = "lcov" THEN None ELSE branches[n]]
  <2>1. /\ info' = [info EXCEPT ![n] = z]
        /\ pc' = [pc EXCEPT ![w] = "idle"]
        /\ outcome' = [outcome EXCEPT ![a] = OK]
    BY <1>5, InTerms DEF Lcov, Finish
  <2>2. info'[n] = z
    BY <1>1, <2>1, AtWork DEF OnNames
  <2>3. Agrees(z.cab, cmd, a)
    BY <1>2 DEF Output, Agrees, KeyIn
  <2>4. z.br # None => Own(z.br, cmd, a)
    BY <1>1, <1>2
  <2>5. z # None
    BY InfoIsThere
  <2>6. Own(z.sym, cmd, a)
    BY <1>2
  <2>7. InfoRight(z, cmd, a)
    <3> HIDE DEF z
    <3> QED BY <2>3, <2>4, <2>5, <2>6 DEF InfoRight
  <2>8. StageRight("idle", a, cmd, covs, symbolized', cache', branches')
    BY DEF StageRight, Symbolized, Inventoried
  <2> HIDE DEF z
  <2> QED BY <1>1, <1>3, <1>4, <2>1, <2>2, <2>7, <2>8, WorkStep
<1>6. CASE How(call) # OK
  <2>1. Fails(w, call) /\ UNCHANGED info
    BY <1>6 DEF Lcov
  <2> QED BY <1>1, <1>3, <2>1, FailWork DEF outputs
<1> QED BY <1>5, <1>6

-----------------------------------------------------------------------------
(* The next artifact off the queue.                                        *)

LEMMA TakeWork ==
  ASSUME JobInv, CacheInv, NEW w \in Workers, Take(w)
  PROVE  JobInv'
<1> DEFINE a == covs[next]
<1>1. /\ phase = "working" /\ ~Busy(w)
      /\ next' = next + 1 /\ job' = [job EXCEPT ![w] = a]
      /\ UNCHANGED <<cmd, covs, phase, kills, cache, symbolized, branches, info>>
  BY DEF Take, Busy, files, outputs, request, status, world
<1>2. next \in DOMAIN covs /\ next + 1 \in Nat \ {0}
  BY DEF Take, JobInv, Given
<1>3. a \in Artifacts /\ a \in ToSet(covs) /\ outcome[a] = PENDING
  BY <1>2 DEF JobInv, Given, ToSet
<1>4. \A v \in Workers : Busy(v) => v # w /\ job[v] # a
  <2> SUFFICES ASSUME NEW v \in Workers, Busy(v) PROVE v # w /\ job[v] # a
    OBVIOUS
  <2>1. PICK i \in DOMAIN covs : i < next /\ job[v] = covs[i]
    BY DEF JobInv, JobsApart
  <2>2. i # next
    BY <2>1 DEF JobInv, Given
  <2> QED BY <1>1, <1>2, <2>1, <2>2 DEF JobInv, Given
<1>5. \A i \in DOMAIN covs : i >= next + 1 => i >= next /\ covs[i] # a
  BY <1>2 DEF JobInv, Given
<1>6. \A v \in Workers : job'[v] = IF v = w THEN a ELSE job[v]
  BY <1>1 DEF JobInv, JobTables, OnWorkers
<1>7. \A b \in ToSet(covs) : b \in Artifacts
  BY DEF JobInv, Given, ToSet
<1>8. Verdict'
  BY <1>1 DEF Verdict
<1>9. CASE /\ outcome' = [outcome EXCEPT ![a] = SKIPPED]
           /\ pc' = [pc EXCEPT ![w] = "idle"]
  <2>1. \A b \in Artifacts : outcome'[b] = IF b = a THEN SKIPPED ELSE outcome[b]
    BY <1>9 DEF JobInv, JobTables, OnArtifacts
  <2>2. \A v \in Workers : pc'[v] = pc[v]
    BY <1>1, <1>9 DEF JobInv, JobTables, OnWorkers, Busy
  <2>3. JobTables'
    BY <1>1, <1>9, <2>1 DEF JobInv, JobTables, OnWorkers, OnArtifacts, OnNames
  <2>4. Given'
    <3>1. \A i \in DOMAIN covs : covs[i] \in Artifacts
      BY DEF JobInv, Given
    <3> HIDE DEF a
    <3> QED BY <1>1, <1>2, <1>5, <2>1, <3>1 DEF JobInv, Given
  <2> HIDE DEF a
  <2>5. JobsApart'
    <3> SUFFICES ASSUME NEW v \in Workers, Busy(v)
                 PROVE  /\ phase = "working"
                        /\ \E i \in DOMAIN covs : i < next + 1 /\ job[v] = covs[i]
                        /\ outcome'[job[v]] = PENDING
                        /\ TargetIn(cmd, job[v]).elf # NoElf
                        /\ \A u \in Workers : Busy(u) /\ job[u] = job[v] => u = v
      BY <1>1, <1>4, <1>6, <2>2 DEF JobsApart, Busy
    <3>1. PICK i \in DOMAIN covs : i < next /\ job[v] = covs[i]
      BY DEF JobInv, JobsApart
    <3>2. i < next + 1
      BY <3>1, <1>2 DEF JobInv, Given
    <3>3. outcome'[job[v]] = PENDING
      BY <1>4, <2>1, <3>1 DEF JobInv, JobsApart, Given
    <3> QED BY <3>1, <3>2, <3>3 DEF JobInv, JobsApart
  <2>6. Staged'
    <3> SUFFICES ASSUME NEW v \in Workers
                 PROVE  StageRight(pc[v], job'[v], cmd, covs, symbolized, cache, branches)
      BY <1>1, <2>2 DEF Staged
    <3>1. CASE v = w
      BY <1>1, <3>1 DEF Busy, StageRight, Symbolized, Inventoried
    <3>2. CASE v # w
      BY <1>6, <3>2 DEF JobInv, Staged
    <3> QED BY <3>1, <3>2
  <2>7. Joined'
    BY <1>1, <1>7, <2>1 DEF JobInv, Joined, OK, SKIPPED
  <2> QED BY <1>8, <2>3, <2>4, <2>5, <2>6, <2>7 DEF JobInv
<1>10. ASSUME NEW s \in {"disasm", "symbolize"}, pc' = [pc EXCEPT ![w] = s],
              UNCHANGED outcome, TargetIn(cmd, a).elf # NoElf
       PROVE  JobInv'
  <2>1. \A v \in Workers : pc'[v] = IF v = w THEN s ELSE pc[v]
    BY <1>10 DEF JobInv, JobTables, OnWorkers
  <2>2. JobTables'
    BY <1>1, <1>10 DEF JobInv, JobTables, OnWorkers, OnArtifacts, OnNames
  <2>3. Given'
    <3> HIDE DEF a
    <3> QED BY <1>1, <1>2, <1>5, <1>10 DEF JobInv, Given
  <2>4. JobsApart'
    <3> SUFFICES ASSUME NEW v \in Workers, v = w \/ Busy(v)
                 PROVE  /\ \E i \in DOMAIN covs : i < next + 1 /\ job'[v] = covs[i]
                        /\ outcome[job'[v]] = PENDING
                        /\ TargetIn(cmd, job'[v]).elf # NoElf
                        /\ \A u \in Workers :
                             (u = w \/ Busy(u)) /\ job'[u] = job'[v] => u = v
      BY <1>1, <1>10, <2>1 DEF JobsApart, Busy
    <3>1. CASE v = w
      <4>1. next < next + 1
        BY <1>2 DEF JobInv, Given
      <4> QED BY <1>2, <1>3, <1>4, <1>6, <1>10, <3>1, <4>1
    <3>2. CASE v # w
      <4>1. PICK i \in DOMAIN covs : i < next /\ job[v] = covs[i]
        BY <3>2 DEF JobInv, JobsApart
      <4>2. i < next + 1
        BY <4>1, <1>2 DEF JobInv, Given
      <4> HIDE DEF a
      <4> QED BY <1>4, <1>6, <3>2, <4>1, <4>2 DEF JobInv, JobsApart
    <3> QED BY <3>1, <3>2
  <2> HIDE DEF a
  <2>5. Staged'
    <3> SUFFICES ASSUME NEW v \in Workers
                 PROVE  StageRight(pc'[v], job'[v], cmd, covs, symbolized, cache, branches)
      BY <1>1 DEF Staged
    <3>1. CASE v = w
      BY <2>1, <3>1 DEF StageRight, Symbolized, Inventoried
    <3>2. CASE v # w
      BY <1>6, <2>1, <3>2 DEF JobInv, Staged
    <3> QED BY <3>1, <3>2
  <2>6. Joined'
    BY <1>1, <1>10 DEF JobInv, Joined
  <2> QED BY <1>8, <2>2, <2>3, <2>4, <2>5, <2>6 DEF JobInv
<1>11. CASE TargetIn(cmd, a).elf = NoElf \/ How(<<"isfile", TargetIn(cmd, a).elf>>) = FAILED
  BY <1>9, <1>11, InTerms DEF Take, Finish
<1>12. CASE ~ (TargetIn(cmd, a).elf = NoElf \/ How(<<"isfile", TargetIn(cmd, a).elf>>) = FAILED)
  BY <1>10, <1>12, InTerms DEF Take, Goto, results
<1> QED BY <1>11, <1>12

-----------------------------------------------------------------------------
(* The main thread, and what begins and ends a command.                    *)

(* The main thread goes to another phase.                                  *)
LEMMA PhaseStep ==
  ASSUME JobInv,
         UNCHANGED <<pc, job, cmd, covs, next, kills, outcome, cache, symbolized,
                     branches, info>>,
         \A w \in Workers : Busy(w) => phase' = "working",
         Verdict'
  PROVE  JobInv'
<1>1. JobTables' /\ Given'
  BY DEF JobInv, JobTables, OnWorkers, OnArtifacts, OnNames, Given
<1>2. JobsApart'
  BY DEF JobInv, JobsApart, Busy
<1>3. Staged' /\ Joined'
  BY DEF JobInv, Staged, Joined
<1> QED BY <1>1, <1>2, <1>3 DEF JobInv

LEMMA MainWork ==
  ASSUME JobInv, Main
  PROVE  JobInv'
<1>1. UNCHANGED <<pc, job, cmd, covs, next, kills, outcome, cache, symbolized,
                  branches, info>>
  BY DEF Main, Cancel, Abort, Conclude, Merge, _genhtml, files, outputs, request,
     results, threads, world
<1>2. CASE Cancel
  <2>1. UNCHANGED phase /\ phase = "working"
    BY <1>2 DEF Cancel, status
  <2>2. Verdict'
    BY <2>1 DEF Verdict
  <2> QED BY <1>1, <2>1, <2>2, PhaseStep
<1>3. CASE Abort
  <2>1. phase' = "off" /\ \A w \in Workers : ~Busy(w)
    BY <1>3 DEF Abort, AllIdle, Busy
  <2>2. Verdict'
    BY <2>1 DEF Verdict
  <2> QED BY <1>1, <2>1, <2>2, PhaseStep
<1>4. CASE Conclude
  <2>1. \A i \in DOMAIN covs : outcome[covs[i]] \notin {PENDING, RAISED}
    BY <1>4 DEF Conclude, Decided
  <2>2. \A w \in Workers : ~Busy(w)
    BY <2>1 DEF JobInv, JobsApart
  <2>3. \A a \in ToSet(covs) : outcome[a] \in {OK, SKIPPED, FAILED}
    <3> SUFFICES ASSUME NEW i \in DOMAIN covs
                 PROVE  outcome[covs[i]] \in {OK, SKIPPED, FAILED}
      BY DEF ToSet
    <3>1. covs[i] \in Artifacts
      BY DEF JobInv, Given
    <3> QED BY <2>1, <3>1 DEF JobInv, JobTables
  <2>4. phase' # "off" => With(FAILED) = {} /\ With(OK) # {}
    BY <1>4 DEF Conclude, Hopeless
  <2>5. Verdict'
    <3> SUFFICES ASSUME phase' # "off"
                 PROVE  /\ \A a \in ToSet(covs) : outcome[a] \in {OK, SKIPPED}
                        /\ \E a \in ToSet(covs) : outcome[a] = OK
      BY <1>1 DEF Verdict
    <3> QED BY <2>3, <2>4 DEF With
  <2> QED BY <1>1, <2>2, <2>5, PhaseStep
<1>5. CASE Merge \/ _genhtml
  <2>1. phase \in {"merging", "rendering"}
    BY <1>5 DEF Merge, _genhtml
  <2>2. \A w \in Workers : ~Busy(w)
    BY <2>1 DEF JobInv, JobsApart
  <2>3. Verdict'
    BY <1>1, <2>1 DEF JobInv, Verdict
  <2> QED BY <1>1, <2>2, <2>3, PhaseStep
<1> QED BY <1>2, <1>3, <1>4, <1>5 DEF Main

LEMMA StartWork ==
  ASSUME JobInv, NEW c \in Commands, Start(c)
  PROVE  JobInv'
<1>1. /\ cmd' = c /\ covs' = _split_rtl(_collect_covs(c.given)) /\ next' = 1
      /\ outcome' = [a \in Artifacts |-> PENDING]
      /\ phase' \in {"off", "working"}
      /\ NewThreads /\ UNCHANGED <<symbolized, branches, info, kills>>
  BY DEF Start, files, outputs
<1>2. \A w \in Workers : pc'[w] = "idle"
  BY <1>1 DEF NewThreads
<1>3. JobTables'
  BY <1>1 DEF JobInv, JobTables, OnWorkers, OnArtifacts, OnNames, NewThreads
<1>4. Given'
  <2>1. /\ covs' \in Seq(Artifacts)
        /\ \A i, j \in DOMAIN covs' : covs'[i] = covs'[j] => i = j
    BY <1>1, CollectedAssumption
  <2>2. \A i \in DOMAIN covs' : covs'[i] \in Artifacts
    BY <2>1
  <2> QED BY <1>1, <2>1, <2>2 DEF Given
<1>5. JobsApart' /\ Staged'
  BY <1>2 DEF JobsApart, Busy, Staged, StageRight, Symbolized, Inventoried
<1>6. \A a \in ToSet(covs') : outcome'[a] # OK
  BY <1>1, <1>4 DEF Given, ToSet, OK, PENDING
<1>7. Joined'
  BY <1>6 DEF Joined
<1>8. Verdict'
  BY <1>1 DEF Verdict
<1> QED BY <1>3, <1>4, <1>5, <1>7, <1>8 DEF JobInv

LEMMA KillWork ==
  ASSUME JobInv, Kill
  PROVE  JobInv'
<1>1. /\ UNCHANGED <<cmd, covs, next, outcome, symbolized, branches, info>>
      /\ NewThreads /\ phase' = "off" /\ kills' = kills + 1
  BY DEF Kill, outputs, request, results
<1>2. \A w \in Workers : pc'[w] = "idle"
  BY <1>1 DEF NewThreads
<1>3. JobTables'
  <2>1. kills' \in Nat /\ OnWorkers(pc') /\ OnWorkers(job')
    BY <1>1 DEF JobInv, JobTables, OnWorkers, NewThreads
  <2> QED BY <1>1, <2>1 DEF JobInv, JobTables, OnWorkers, OnArtifacts, OnNames
<1>4. Given'
  BY <1>1 DEF JobInv, Given
<1>5. JobsApart' /\ Staged'
  BY <1>2 DEF JobsApart, Busy, Staged, StageRight, Symbolized, Inventoried
<1>6. Joined' /\ Verdict'
  BY <1>1 DEF JobInv, Joined, Verdict
<1> QED BY <1>3, <1>4, <1>5, <1>6 DEF JobInv

LEMMA JobInvInit == Init => JobInv
<1> SUFFICES ASSUME Init PROVE JobInv
  OBVIOUS
<1>1. /\ covs = <<>> /\ next = 1 /\ kills = 0 /\ phase = "off"
      /\ outcome = [a \in Artifacts |-> PENDING]
      /\ \A w \in Workers : pc[w] = "idle"
  BY DEF Init
<1>2. cmd \in Commands
  BY ReportAssumption DEF Init
<1>3. JobTables
  BY <1>1 DEF Init, JobTables, OnWorkers, OnArtifacts, OnNames
<1>4. Given
  BY <1>1, <1>2 DEF Given
<1>5. JobsApart /\ Staged
  BY <1>1 DEF JobsApart, Busy, Staged, StageRight, Symbolized, Inventoried
<1>6. Joined /\ Verdict
  BY <1>1 DEF Joined, Verdict, ToSet
<1> QED BY <1>3, <1>4, <1>5, <1>6 DEF JobInv

LEMMA JobInvNext == CacheInv /\ JobInv /\ [Next]_vars => JobInv'
<1> SUFFICES ASSUME CacheInv, JobInv, [Next]_vars PROVE JobInv'
  OBVIOUS
<1>1. ASSUME NEW w \in Workers, Thread(w) PROVE JobInv'
  BY <1>1, TakeWork, SymbolizeWork, BranchesWork, LcovWork, DisasmWork,
     CoverableWork DEF Thread, _process_one
<1>2. ASSUME UNCHANGED <<pc, job, cmd, covs, next, kills, outcome, cache,
                         symbolized, branches, info, phase>>
      PROVE  JobInv'
  <2>1. Verdict'
    BY <1>2 DEF JobInv, Verdict
  <2>2. \A w \in Workers : Busy(w) => phase' = "working"
    BY <1>2 DEF JobInv, JobsApart
  <2> QED BY <1>2, <2>1, <2>2, PhaseStep
<1>3. ASSUME NEW e \in Elfs, Rebuild(e) PROVE JobInv'
  BY <1>2, <1>3 DEF Rebuild, files, outputs, main, request, status, results, threads
<1>4. CASE UNCHANGED vars
  BY <1>2, <1>4 DEF vars, files, outputs, main, request, status, results, threads,
     world
<1> QED BY <1>1, <1>3, <1>4, StartWork, MainWork, KillWork DEF Next

-----------------------------------------------------------------------------
(* For every set of artifacts, threads and command lines, wherever calls   *)
(* fail and commands are killed: what lcov joins was produced for the same *)
(* artifact, ELF, section and path options (_target_of, _base_names,       *)
(* _Run.sig).                                                              *)
THEOREM JoinedRightCorrect == Spec => []JoinedRight
<1>1. JobInv => JoinedRight
  <2> SUFFICES ASSUME JobInv, NEW a \in ToSet(covs), outcome[a] = OK
               PROVE  /\ InfoRight(info[_base_name(a)], cmd, a)
    BY DEF JoinedRight, With, InfoRight, Own, Agrees, TargetIn
  <2> QED BY InTerms DEF JobInv, Joined
<1> QED BY <1>1, JobInvInit, JobInvNext, CacheInvInit, CacheInvNext, PTL DEF Spec

(* And the aggregate is replaced only after every artifact was processed   *)
(* and none has failed (run).                                              *)
THEOREM FailureKeepsAggregateCorrect == Spec => FailureKeepsAggregate
<1> DEFINE Kept == aggregate' # aggregate /\ kills' = kills =>
                     /\ \A a \in ToSet(covs) : outcome[a] \in {OK, SKIPPED}
                     /\ \E a \in ToSet(covs) : outcome[a] = OK
<1>1. JobInv /\ [Next]_vars => [Kept]_vars
  <2> SUFFICES ASSUME JobInv, Next, aggregate' # aggregate, kills' = kills
               PROVE  Verdict /\ phase \in {"merging", "rendering"}
    BY DEF Verdict
  <2>1. ~Kill
    BY DEF Kill, JobInv, JobTables
  <2>2. \A w \in Workers : ~Thread(w)
    BY DEF Thread, Take, _process_one, disasm_for, coverable_for, Symbolize, Branches,
       Lcov, EnterCache, Build, Save, files, reports
  <2>3. ~ \E c \in Commands : Start(c)
    BY DEF Start, files, reports
  <2>4. ~ \E e \in Elfs : Rebuild(e)
    BY DEF Rebuild, files, reports
  <2>5. Merge
    BY <2>1, <2>2, <2>3, <2>4 DEF Next, Main, Cancel, Abort, Conclude, _genhtml,
       files, reports
  <2> QED BY <2>5 DEF JobInv, Merge
<1> QED BY <1>1, JobInvInit, JobInvNext, CacheInvInit, CacheInvNext, PTL
        DEF Spec, FailureKeepsAggregate

-----------------------------------------------------------------------------
(***************************************************************************)
(* The status with which tcgcov report ends, for every set of artifacts,   *)
(* threads and command lines.                                              *)
(*                                                                         *)
(* StatusInv says why the schedule decides nothing: a thread at some step  *)
(* has seen every call before it succeed, or found in a cache what such a  *)
(* call has built, so that the call that ends its artifact is the one that *)
(* would end it in a serial run.                                           *)
(***************************************************************************)

-----------------------------------------------------------------------------
(* A serial run, given the options and how the calls end.                  *)

HowIn(f, call) == IF call \in DOMAIN f THEN f[call] ELSE OK

Disassembles(c) == c.branches \/ ~c.dwarf

CallsIn(c, a) ==
  LET D == <<"disasm", TargetIn(c, a).elf>>
      S == <<"symbolize", a>>
      I == <<"coverable", TargetIn(c, a).elf>>
      B == <<"branches", a>>
      L == <<"lcov", a>>
  IN
  IF c.branches THEN <<D, S, I, B, L>>
  ELSE IF Disassembles(c) THEN <<D, S, I, L>>
  ELSE <<S, I, L>>

Ends(f, call) == HowIn(f, call) \in {FAILED, RAISED}

Absent(c, f, a) ==
  \/ TargetIn(c, a).elf = NoElf
  \/ HowIn(f, <<"isfile", TargetIn(c, a).elf>>) = FAILED

FirstOf(b) == CHOOSE i \in b : \A j \in b : i <= j

OutcomeIn(c, f, a) ==
  LET calls == CallsIn(c, a)
      bad   == {i \in DOMAIN calls : Ends(f, calls[i])}
  IN
  IF Absent(c, f, a) THEN SKIPPED
  ELSE IF bad = {} THEN OK
  ELSE HowIn(f, calls[FirstOf(bad)])

StatusIn(c, f, s) ==
  LET all == {OutcomeIn(c, f, a) : a \in ToSet(s)} IN
  IF \/ {RAISED, FAILED} \intersect all # {} \/ OK \notin all
     \/ HowIn(f, <<"merge">>) # OK
     \/ (c.html /\ HowIn(f, <<"genhtml">>) # OK)
  THEN 1 ELSE 0

RefusedIn(c, f, n) ==
  \/ n = 0
  \/ \E a \in ToSet(_collect_covs(c.given)) :
       HowIn(f, <<"read_metadata", a>>) = FAILED
  \/ \E a \in ToSet(_collect_covs(c.given)) : HowIn(f, <<"split", a>>) = FAILED

LEMMA SerialInTerms ==
  /\ \A call : How(call) = HowIn(fate, call)
  /\ \A a : SerialOutcome(a) = OutcomeIn(cmd, fate, a)
  /\ SerialStatus = StatusIn(cmd, fate, covs)
  /\ Refused <=> RefusedIn(cmd, fate, commands)
<1>1. \A call : How(call) = HowIn(fate, call)
  BY DEF How, HowIn
<1>2. \A a : SerialOutcome(a) = OutcomeIn(cmd, fate, a)
  <2> TAKE a
  <2>1. Calls(a) = CallsIn(cmd, a)
    BY InTerms DEF Calls, CallsIn, need_disasm, Disassembles
  <2>2. \A i : Ended(i, Calls(a)) <=> Ends(fate, CallsIn(cmd, a)[i])
    BY <1>1, <2>1 DEF Ended, Ends
  <2>3. {i \in DOMAIN Calls(a) : Ended(i, Calls(a))} =
          {i \in DOMAIN CallsIn(cmd, a) : Ends(fate, CallsIn(cmd, a)[i])}
    BY <2>1, <2>2
  <2> DEFINE calls == CallsIn(cmd, a)
             bad   == {i \in DOMAIN calls : Ends(fate, calls[i])}
             ended == {i \in DOMAIN Calls(a) : Ended(i, Calls(a))}
  <2>4. SerialOutcome(a) =
          IF _target_of(a).elf = NoElf
               \/ How(<<"isfile", _target_of(a).elf>>) = FAILED
          THEN SKIPPED
          ELSE IF ended = {} THEN OK ELSE How(Calls(a)[FirstOf(ended)])
    BY Zenon DEF SerialOutcome, FirstOf
  <2>5. OutcomeIn(cmd, fate, a) =
          IF Absent(cmd, fate, a) THEN SKIPPED
          ELSE IF bad = {} THEN OK ELSE HowIn(fate, calls[FirstOf(bad)])
    BY Zenon DEF OutcomeIn
  <2>6. Absent(cmd, fate, a) <=>
          \/ _target_of(a).elf = NoElf
          \/ How(<<"isfile", _target_of(a).elf>>) = FAILED
    BY <1>1, InTerms DEF Absent
  <2> HIDE DEF bad, ended, calls
  <2>7. ended = bad
    BY <2>3 DEF ended, bad, calls
  <2>8. How(Calls(a)[FirstOf(ended)]) = HowIn(fate, calls[FirstOf(bad)])
    BY <1>1, <2>1, <2>7 DEF calls
  <2> QED BY <2>4, <2>5, <2>6, <2>7, <2>8
<1>3. SerialStatus = StatusIn(cmd, fate, covs)
  BY <1>1, <1>2 DEF SerialStatus, StatusIn
<1>4. Refused <=> RefusedIn(cmd, fate, commands)
  BY <1>1 DEF Refused, RefusedIn, Unreadable, Conflict
<1> QED BY <1>1, <1>2, <1>3, <1>4

(* The first call that does not succeed decides.                           *)
LEMMA FirstDecides ==
  ASSUME NEW s, NEW f, NEW i \in DOMAIN s, DOMAIN s \subseteq Nat, Ends(f, s[i]),
         \A j \in DOMAIN s : j < i => ~Ends(f, s[j])
  PROVE  LET bad == {k \in DOMAIN s : Ends(f, s[k])}
         IN bad # {} /\ FirstOf(bad) = i
<1> DEFINE bad == {k \in DOMAIN s : Ends(f, s[k])}
<1>1. i \in bad /\ bad \subseteq Nat /\ \A j \in bad : i <= j
  OBVIOUS
<1> HIDE DEF bad
<1>2. FirstOf(bad) \in bad /\ \A j \in bad : FirstOf(bad) <= j
  BY <1>1 DEF FirstOf
<1>3. FirstOf(bad) = i
  BY <1>1, <1>2
<1> QED BY <1>1, <1>3 DEF bad


(* How a call that fails ends the artifact, when those before it succeeded.*)
LEMMA FailureDecides ==
  ASSUME NEW c, NEW f, NEW a, ~Absent(c, f, a), NEW i \in DOMAIN CallsIn(c, a),
         Ends(f, CallsIn(c, a)[i]),
         \A j \in DOMAIN CallsIn(c, a) : j < i => HowIn(f, CallsIn(c, a)[j]) = OK
  PROVE  OutcomeIn(c, f, a) = HowIn(f, CallsIn(c, a)[i])
<1> DEFINE calls == CallsIn(c, a)
           bad == {k \in DOMAIN calls : Ends(f, calls[k])}
<1>1. DOMAIN calls \subseteq Nat
  BY DEF CallsIn
<1>2. \A j \in DOMAIN calls : j < i => ~Ends(f, calls[j])
  BY DEF Ends, OK, FAILED, RAISED
<1>3. bad # {} /\ FirstOf(bad) = i
  <2> HIDE DEF calls
  <2> QED BY <1>1, <1>2, FirstDecides DEF calls
<1>4. OutcomeIn(c, f, a) = IF Absent(c, f, a) THEN SKIPPED
                           ELSE IF bad = {} THEN OK ELSE HowIn(f, calls[FirstOf(bad)])
  BY Zenon DEF OutcomeIn
<1> HIDE DEF bad, calls
<1> QED BY <1>3, <1>4 DEF calls

-----------------------------------------------------------------------------
(* The invariant.                                                          *)

(* What a thread at this step of artifact a has behind it.                 *)
AfterDisasm   == {"save_disasm"} \union {"symbolize"} \union Symbolized
AfterCoverable == {"save_coverable", "branches", "lcov", "lcov_branches"}
AfterBranches == {"lcov", "lcov_branches"}

Passed(step, a, c, f) ==
  LET e == TargetIn(c, a).elf IN
  /\ step # "idle" => ~Absent(c, f, a)
  /\ step \in {"disasm", "objdump", "save_disasm"} => Disassembles(c)
  /\ step \in AfterDisasm => (Disassembles(c) => HowIn(f, <<"disasm", e>>) = OK)
  /\ step \in Symbolized => HowIn(f, <<"symbolize", a>>) = OK
  /\ step \in AfterCoverable => HowIn(f, <<"coverable", e>>) = OK
  /\ step = "branches" => c.branches
  /\ step \in AfterBranches => (c.branches => HowIn(f, <<"branches", a>>) = OK)

(* An entry of the caches is there only because its tool succeeds.         *)
CacheEarned(files_, f) ==
  \A k \in Keys : files_[k] # None =>
    HowIn(f, IF k[1] = "disasm" THEN k ELSE <<"coverable", k[2]>>) = OK

AsSerial(c, f, s, out) ==
  \A a \in ToSet(s) : out[a] # PENDING => out[a] = OutcomeIn(c, f, a)

Told ==
  /\ commands \in Nat
  /\ cancelled => \E a \in ToSet(covs) : outcome[a] = RAISED
  /\ phase # "off" => ~RefusedIn(cmd, fate, commands)
  /\ phase = "rendering" => cmd.html /\ HowIn(fate, <<"merge">>) = OK
  /\ phase = "off" /\ rc # 137 =>
       rc = IF RefusedIn(cmd, fate, commands) THEN 1
            ELSE StatusIn(cmd, fate, covs)

StatusInv ==
  /\ \A w \in Workers : Passed(pc[w], job[w], cmd, fate)
  /\ CacheEarned(cache, fate)
  /\ AsSerial(cmd, fate, covs, outcome)
  /\ Told

(* The call a thread makes at a step, and what it means if that fails.     *)
LEMMA EndsHere ==
  ASSUME NEW c, NEW f, NEW a, NEW step, NEW call, Passed(step, a, c, f), Ends(f, call),
         \/ step = "objdump" /\ call = <<"disasm", TargetIn(c, a).elf>>
         \/ step = "symbolize" /\ call = <<"symbolize", a>>
         \/ step = "inventory" /\ call = <<"coverable", TargetIn(c, a).elf>>
         \/ step = "branches" /\ call = <<"branches", a>>
         \/ step \in AfterBranches /\ call = <<"lcov", a>>
  PROVE  OutcomeIn(c, f, a) = HowIn(f, call)
<1> DEFINE calls == CallsIn(c, a)
           Before(i) == \A j \in DOMAIN calls : j < i => HowIn(f, calls[j]) = OK
<1>1. ~Absent(c, f, a)
  BY DEF Passed, AfterBranches
<1>2. ASSUME NEW i \in DOMAIN calls, calls[i] = call, Before(i)
      PROVE  OutcomeIn(c, f, a) = HowIn(f, call)
  BY <1>1, <1>2, FailureDecides
<1>3. c.branches => Disassembles(c)
  BY DEF Disassembles
<1>4. SUFFICES \E i \in DOMAIN calls : calls[i] = call /\ Before(i)
  BY <1>2
<1>5. CASE c.branches
  BY <1>3, <1>5 DEF CallsIn, Passed, AfterDisasm, AfterCoverable, AfterBranches, Symbolized
<1>6. CASE ~c.branches /\ Disassembles(c)
  BY <1>6 DEF CallsIn, Passed, AfterDisasm, AfterCoverable, AfterBranches, Symbolized
<1>7. CASE ~c.branches /\ ~Disassembles(c)
  BY <1>7 DEF CallsIn, Passed, AfterDisasm, AfterCoverable, AfterBranches, Symbolized
<1> QED BY <1>5, <1>6, <1>7

LEMMA AllSucceed ==
  ASSUME NEW c, NEW f, NEW a, NEW step \in AfterBranches, Passed(step, a, c, f),
         HowIn(f, <<"lcov", a>>) = OK
  PROVE  OutcomeIn(c, f, a) = OK
<1> DEFINE calls == CallsIn(c, a)
           bad   == {i \in DOMAIN calls : Ends(f, calls[i])}
<1>1. ~Absent(c, f, a)
  BY DEF Passed, AfterBranches
<1>2. c.branches => Disassembles(c)
  BY DEF Disassembles
<1>3. \A i \in DOMAIN calls : HowIn(f, calls[i]) = OK
  BY <1>2 DEF CallsIn, Passed, AfterDisasm, AfterCoverable, AfterBranches, Symbolized
<1>4. bad = {}
  BY <1>3 DEF Ends, OK, FAILED, RAISED
<1>5. OutcomeIn(c, f, a) = IF Absent(c, f, a) THEN SKIPPED
                           ELSE IF bad = {} THEN OK ELSE HowIn(f, calls[FirstOf(bad)])
  BY Zenon DEF OutcomeIn
<1> HIDE DEF bad, calls
<1> QED BY <1>1, <1>4, <1>5

-----------------------------------------------------------------------------
(* One step of a thread at work.                                           *)

LEMMA WorkTold ==
  ASSUME JobInv, StatusInv, NEW w \in Workers, Busy(w), NEW s, NEW o,
         pc' = [pc EXCEPT ![w] = s],
         UNCHANGED <<job, cmd, covs, fate, commands, phase, rc>>,
         \/ UNCHANGED <<outcome, cancelled>>
         \/ /\ o = OutcomeIn(cmd, fate, job[w])
            /\ outcome' = [outcome EXCEPT ![job[w]] = o]
            /\ cancelled' => cancelled \/ o = RAISED,
         Passed(s, job[w], cmd, fate),
         CacheEarned(cache', fate)
  PROVE  StatusInv'
<1> DEFINE a == job[w]
<1>1. a \in ToSet(covs) /\ a \in Artifacts /\ outcome[a] = PENDING /\ phase = "working"
  BY DEF JobInv, JobsApart, Given, ToSet
<1>2. \A b \in ToSet(covs) : b \in Artifacts
  BY DEF JobInv, Given, ToSet
<1>3. \A v \in Workers : Passed(pc'[v], job[v], cmd, fate)
  BY DEF StatusInv, JobInv, JobTables, OnWorkers
<1> HIDE DEF a
<1>4. CASE UNCHANGED <<outcome, cancelled>>
  <2>1. Told'
    BY <1>1, <1>4 DEF StatusInv, Told
  <2> QED BY <1>3, <1>4, <2>1 DEF StatusInv, AsSerial
<1>5. CASE /\ o = OutcomeIn(cmd, fate, a)
           /\ outcome' = [outcome EXCEPT ![a] = o]
           /\ cancelled' => cancelled \/ o = RAISED
  <2>1. \A b \in Artifacts : outcome'[b] = IF b = a THEN o ELSE outcome[b]
    BY <1>1, <1>5 DEF JobInv, JobTables, OnArtifacts
  <2>2. AsSerial(cmd, fate, covs, outcome')
    BY <1>2, <1>5, <2>1 DEF StatusInv, AsSerial
  <2>3. cancelled' => \E b \in ToSet(covs) : outcome'[b] = RAISED
    <3>1. CASE cancelled
      <4>1. PICK b \in ToSet(covs) : outcome[b] = RAISED
        BY <3>1 DEF StatusInv, Told
      <4> QED BY <1>1, <1>2, <2>1, <4>1 DEF RAISED, PENDING
    <3>2. CASE o = RAISED
      BY <1>1, <2>1, <3>2
    <3> QED BY <1>5, <3>1, <3>2
  <2>4. Told'
    BY <1>1, <2>3 DEF StatusInv, Told
  <2> QED BY <1>3, <2>2, <2>4 DEF StatusInv
<1> QED BY <1>4, <1>5 DEF a

LEMMA IdlePassed == \A a, c, f : Passed("idle", a, c, f)
BY DEF Passed, AfterDisasm, AfterCoverable, AfterBranches, Symbolized

LEMMA FailTold ==
  ASSUME JobInv, StatusInv, NEW w \in Workers, Busy(w), NEW call, Fails(w, call),
         UNCHANGED <<job, cmd, covs, fate, commands, phase, rc, cache>>,
         LET a == job[w]
             e == TargetIn(cmd, a).elf
         IN \/ pc[w] = "objdump" /\ call = <<"disasm", e>>
            \/ pc[w] = "symbolize" /\ call = <<"symbolize", a>>
            \/ pc[w] = "inventory" /\ call = <<"coverable", e>>
            \/ pc[w] = "branches" /\ call = <<"branches", a>>
            \/ pc[w] \in AfterBranches /\ call = <<"lcov", a>>
  PROVE  StatusInv'
<1>1. Passed(pc[w], job[w], cmd, fate) /\ Ends(fate, call)
  BY SerialInTerms DEF StatusInv, Fails, Ends
<1>2. OutcomeIn(cmd, fate, job[w]) = How(call)
  BY <1>1, EndsHere, SerialInTerms
<1>3. /\ pc' = [pc EXCEPT ![w] = "idle"]
      /\ outcome' = [outcome EXCEPT ![job[w]] = How(call)]
      /\ cancelled' = (cancelled \/ (Serial /\ How(call) = RAISED))
  BY DEF Fails, Finish
<1>4. CacheEarned(cache', fate)
  BY DEF StatusInv
<1> QED BY <1>2, <1>3, <1>4, IdlePassed, WorkTold

(* A thread goes on, and no cache changes.                                 *)
LEMMA GoOnTold ==
  ASSUME JobInv, StatusInv, NEW w \in Workers, Busy(w), NEW s,
         pc' = [pc EXCEPT ![w] = s],
         UNCHANGED <<job, cmd, covs, fate, commands, phase, rc, outcome, cancelled,
                     cache>>,
         Passed(s, job[w], cmd, fate)
  PROVE  StatusInv'
<1>1. CacheEarned(cache', fate)
  BY DEF StatusInv
<1> QED BY <1>1, WorkTold

LEMMA DisasmTold ==
  ASSUME CacheInv, JobInv, StatusInv, NEW w \in Workers, disasm_for(w)
  PROVE  StatusInv'
<1> DEFINE a == job[w]
           key == <<"disasm", TargetIn(cmd, a).elf>>
<1>1. Busy(w) /\ Passed(pc[w], a, cmd, fate)
  BY DEF disasm_for, Busy, StatusInv
<1>2. key \in Keys /\ key[1] = "disasm"
  <2>1. TargetIn(cmd, a).elf \in Elfs
    BY <1>1, ReportAssumption DEF JobInv, JobsApart, Given, TargetIn
  <2> QED BY <2>1 DEF Keys
<1>3. disasm_key(a) = key
  BY InTerms DEF disasm_key
<1>4. \/ pc[w] = "disasm" /\ EnterCache(w, key, "objdump", "symbolize")
      \/ pc[w] = "objdump" /\ Build(w, key, key, Disassembly(a), "save_disasm")
      \/ pc[w] = "save_disasm" /\ Save(w, key, "symbolize")
  BY <1>3 DEF disasm_for
<1> HIDE DEF key
<1>5. ASSUME HowIn(fate, key) = OK, pc[w] \in {"disasm", "objdump", "save_disasm"}
      PROVE  /\ Passed("symbolize", a, cmd, fate)
             /\ Passed("save_disasm", a, cmd, fate)
  BY <1>1, <1>5 DEF Passed, key, AfterDisasm, AfterCoverable, AfterBranches, Symbolized
<1>6. CASE pc[w] = "disasm" /\ EnterCache(w, key, "objdump", "symbolize")
  <2>1. /\ pc' = [pc EXCEPT ![w] = IF cache[key] # None THEN "symbolize" ELSE "objdump"]
        /\ UNCHANGED <<job, cmd, covs, fate, commands, phase, rc, outcome, cancelled,
                       cache>>
    BY <1>6 DEF EnterCache, Goto, _nonempty, files, main, request, status, results,
       world
  <2>2. CASE cache[key] # None
    <3>1. HowIn(fate, key) = OK
      BY <1>2, <2>2 DEF StatusInv, CacheEarned
    <3> QED BY <1>1, <1>5, <1>6, <2>1, <2>2, <3>1, GoOnTold
  <2>3. CASE cache[key] = None
    <3>1. Passed("objdump", a, cmd, fate)
      BY <1>1, <1>6 DEF Passed, AfterDisasm, AfterCoverable, AfterBranches, Symbolized
    <3> QED BY <1>1, <2>1, <2>3, <3>1, GoOnTold
  <2> QED BY <2>2, <2>3
<1>7. CASE pc[w] = "objdump" /\ Build(w, key, key, Disassembly(a), "save_disasm")
  <2>1. CASE How(key) = OK
    <3>1. /\ pc' = [pc EXCEPT ![w] = "save_disasm"]
          /\ UNCHANGED <<job, cmd, covs, fate, commands, phase, rc, outcome, cancelled,
                         cache>>
      BY <1>7, <2>1 DEF Build, Goto, files, main, request, status, results, world
    <3>2. HowIn(fate, key) = OK
      BY <2>1, SerialInTerms
    <3> QED BY <1>1, <1>5, <1>7, <3>1, <3>2, GoOnTold
  <2>2. CASE How(key) # OK
    <3>1. /\ Fails(w, key)
          /\ UNCHANGED <<job, cmd, covs, fate, commands, phase, rc, cache>>
      BY <1>7, <2>2 DEF Build, files, request, status, world
    <3> QED BY <1>1, <1>7, <3>1, FailTold DEF key
  <2> QED BY <2>1, <2>2
<1>8. CASE pc[w] = "save_disasm" /\ Save(w, key, "symbolize")
  <2>1. /\ pc' = [pc EXCEPT ![w] = "symbolize"]
        /\ cache' = [cache EXCEPT ![key] = tmp[w]]
        /\ UNCHANGED <<job, cmd, covs, fate, commands, phase, rc, outcome, cancelled>>
    BY <1>8 DEF Save, Goto, main, request, status, results, world
  <2>2. HowIn(fate, key) = OK
    BY <1>1, <1>8 DEF Passed, key, AfterDisasm
  <2>3. CacheEarned(cache', fate)
    BY <1>2, <2>1, <2>2 DEF StatusInv, CacheEarned, CacheInv, Tables, OnKeys
  <2> QED BY <1>1, <1>5, <1>8, <2>1, <2>2, <2>3, WorkTold
<1> QED BY <1>4, <1>6, <1>7, <1>8

LEMMA SymbolizeTold ==
  ASSUME CacheInv, JobInv, StatusInv, NEW w \in Workers, Symbolize(w)
  PROVE  StatusInv'
<1> DEFINE a == job[w]
           call == <<"symbolize", a>>
<1>1. Busy(w) /\ Passed(pc[w], a, cmd, fate) /\ pc[w] = "symbolize"
  BY DEF Symbolize, Busy, StatusInv
<1>2. UNCHANGED <<job, cmd, covs, fate, commands, phase, rc, cache>>
  BY DEF Symbolize, request, status, world
<1>3. CASE How(call) = OK
  <2>1. pc' = [pc EXCEPT ![w] = "coverable"] /\ UNCHANGED <<outcome, cancelled>>
    BY <1>3 DEF Symbolize, Goto
  <2>2. Passed("coverable", a, cmd, fate)
    BY <1>1, <1>3, SerialInTerms
       DEF Passed, AfterDisasm, AfterCoverable, AfterBranches, Symbolized
  <2> QED BY <1>1, <1>2, <2>1, <2>2, GoOnTold
<1>4. CASE How(call) # OK
  BY <1>1, <1>2, <1>4, FailTold DEF Symbolize
<1> QED BY <1>3, <1>4

LEMMA CoverableTold ==
  ASSUME CacheInv, JobInv, StatusInv, NEW w \in Workers, coverable_for(w)
  PROVE  StatusInv'
<1> DEFINE a == job[w]
           key == KeyIn(cmd, a)
           call == <<"coverable", TargetIn(cmd, a).elf>>
           go_on == IF cmd.branches THEN "branches" ELSE "lcov"
<1>1. Busy(w) /\ Passed(pc[w], a, cmd, fate)
  BY DEF coverable_for, Busy, StatusInv
<1>2. key \in Keys /\ key[1] # "disasm" /\ key[2] = TargetIn(cmd, a).elf
  BY <1>1, AtWork DEF KeyIn
<1>3. \/ pc[w] = "coverable" /\ EnterCache(w, key, "inventory", go_on)
      \/ /\ pc[w] = "inventory"
         /\ Build(w, key, call, Inventory(a), "save_coverable")
      \/ pc[w] = "save_coverable" /\ Save(w, key, go_on)
  BY InTerms DEF coverable_for
<1>4. ASSUME HowIn(fate, call) = OK,
             pc[w] \in {"coverable", "inventory", "save_coverable"}
      PROVE  /\ Passed(go_on, a, cmd, fate)
             /\ Passed("save_coverable", a, cmd, fate)
  BY <1>1, <1>4 DEF Passed, AfterDisasm, AfterCoverable, AfterBranches, Symbolized
<1> HIDE DEF key, go_on
<1>5. CASE pc[w] = "coverable" /\ EnterCache(w, key, "inventory", go_on)
  <2>1. /\ pc' = [pc EXCEPT ![w] = IF cache[key] # None THEN go_on ELSE "inventory"]
        /\ UNCHANGED <<job, cmd, covs, fate, commands, phase, rc, outcome, cancelled,
                       cache>>
    BY <1>5 DEF EnterCache, Goto, _nonempty, files, main, request, status, results,
       world
  <2>2. CASE cache[key] # None
    <3>1. HowIn(fate, call) = OK
      BY <1>2, <2>2 DEF StatusInv, CacheEarned
    <3> QED BY <1>1, <1>4, <1>5, <2>1, <2>2, <3>1, GoOnTold
  <2>3. CASE cache[key] = None
    <3>1. Passed("inventory", a, cmd, fate)
      BY <1>1, <1>5 DEF Passed, AfterDisasm, AfterCoverable, AfterBranches, Symbolized
    <3> QED BY <1>1, <2>1, <2>3, <3>1, GoOnTold
  <2> QED BY <2>2, <2>3
<1>6. CASE /\ pc[w] = "inventory"
           /\ Build(w, key, call, Inventory(a), "save_coverable")
  <2>1. CASE How(call) = OK
    <3>1. /\ pc' = [pc EXCEPT ![w] = "save_coverable"]
          /\ UNCHANGED <<job, cmd, covs, fate, commands, phase, rc, outcome, cancelled,
                         cache>>
      BY <1>6, <2>1 DEF Build, Goto, files, main, request, status, results, world
    <3>2. HowIn(fate, call) = OK
      BY <2>1, SerialInTerms
    <3> QED BY <1>1, <1>4, <1>6, <3>1, <3>2, GoOnTold
  <2>2. CASE How(call) # OK
    <3>1. /\ Fails(w, call)
          /\ UNCHANGED <<job, cmd, covs, fate, commands, phase, rc, cache>>
      BY <1>6, <2>2 DEF Build, files, request, status, world
    <3> QED BY <1>1, <1>6, <3>1, FailTold
  <2> QED BY <2>1, <2>2
<1>7. CASE pc[w] = "save_coverable" /\ Save(w, key, go_on)
  <2>1. /\ pc' = [pc EXCEPT ![w] = go_on]
        /\ cache' = [cache EXCEPT ![key] = tmp[w]]
        /\ UNCHANGED <<job, cmd, covs, fate, commands, phase, rc, outcome, cancelled>>
    BY <1>7 DEF Save, Goto, main, request, status, results, world
  <2>2. HowIn(fate, call) = OK
    BY <1>1, <1>7 DEF Passed, AfterCoverable
  <2>3. CacheEarned(cache', fate)
    BY <1>2, <2>1, <2>2 DEF StatusInv, CacheEarned, CacheInv, Tables, OnKeys
  <2> QED BY <1>1, <1>4, <1>7, <2>1, <2>2, <2>3, WorkTold
<1> QED BY <1>3, <1>5, <1>6, <1>7

LEMMA BranchesTold ==
  ASSUME CacheInv, JobInv, StatusInv, NEW w \in Workers, Branches(w)
  PROVE  StatusInv'
<1> DEFINE a == job[w]
           call == <<"branches", a>>
<1>1. Busy(w) /\ Passed(pc[w], a, cmd, fate) /\ pc[w] = "branches"
  BY DEF Branches, Busy, StatusInv
<1>2. UNCHANGED <<job, cmd, covs, fate, commands, phase, rc, cache>>
  BY DEF Branches, request, status, world
<1>3. CASE How(call) = OK
  <2>1. /\ \E s \in AfterBranches : pc' = [pc EXCEPT ![w] = s]
        /\ UNCHANGED <<outcome, cancelled>>
    BY <1>3 DEF Branches, Goto, AfterBranches, results
  <2>2. \A s \in AfterBranches : Passed(s, a, cmd, fate)
    BY <1>1, <1>3, SerialInTerms
       DEF Passed, AfterDisasm, AfterCoverable, AfterBranches, Symbolized
  <2> QED BY <1>1, <1>2, <2>1, <2>2, GoOnTold
<1>4. CASE How(call) # OK
  <2>1. Fails(w, call)
    BY <1>4 DEF Branches
  <2> QED BY <1>1, <1>2, <2>1, FailTold
<1> QED BY <1>3, <1>4

LEMMA LcovTold ==
  ASSUME CacheInv, JobInv, StatusInv, NEW w \in Workers, Lcov(w)
  PROVE  StatusInv'
<1> DEFINE a == job[w]
           call == <<"lcov", a>>
<1>1. Busy(w) /\ Passed(pc[w], a, cmd, fate) /\ pc[w] \in AfterBranches
  BY DEF Lcov, Busy, StatusInv, AfterBranches
<1>2. UNCHANGED <<job, cmd, covs, fate, commands, phase, rc, cache>>
  BY DEF Lcov, request, status, world
<1>3. CASE How(call) = OK
  <2>1. /\ pc' = [pc EXCEPT ![w] = "idle"]
        /\ outcome' = [outcome EXCEPT ![a] = OK]
        /\ cancelled' = (cancelled \/ (Serial /\ OK = RAISED))
    BY <1>3 DEF Lcov, Finish
  <2>2. OutcomeIn(cmd, fate, a) = OK
    BY <1>1, <1>3, AllSucceed, SerialInTerms
  <2>3. CacheEarned(cache', fate)
    BY <1>2 DEF StatusInv
  <2> QED BY <1>1, <1>2, <2>1, <2>2, <2>3, IdlePassed, WorkTold
<1>4. CASE How(call) # OK
  <2>1. Fails(w, call)
    BY <1>4 DEF Lcov
  <2> QED BY <1>1, <1>2, <2>1, FailTold
<1> QED BY <1>3, <1>4

(* The next artifact off the queue.                                        *)
LEMMA TakeTold ==
  ASSUME CacheInv, JobInv, StatusInv, NEW w \in Workers, Take(w)
  PROVE  StatusInv'
<1> DEFINE a == covs[next]
<1>1. /\ phase = "working" /\ ~Busy(w) /\ job' = [job EXCEPT ![w] = a]
      /\ UNCHANGED <<cmd, covs, phase, rc, fate, commands, cache>>
  BY DEF Take, Busy, files, request, status, world
<1>2. next \in DOMAIN covs
  BY DEF Take, JobInv, Given
<1>3. a \in Artifacts /\ a \in ToSet(covs) /\ outcome[a] = PENDING
  BY <1>2 DEF JobInv, Given, ToSet
<1>4. \A b \in ToSet(covs) : b \in Artifacts
  BY DEF JobInv, Given, ToSet
<1>5. \A v \in Workers : job'[v] = IF v = w THEN a ELSE job[v]
  BY <1>1 DEF JobInv, JobTables, OnWorkers
<1>6. CacheEarned(cache', fate')
  BY <1>1 DEF StatusInv
<1>7. CASE Absent(cmd, fate, a)
  <2>1. /\ pc' = [pc EXCEPT ![w] = "idle"]
        /\ outcome' = [outcome EXCEPT ![a] = SKIPPED]
        /\ cancelled' = (cancelled \/ (Serial /\ SKIPPED = RAISED))
    BY <1>7, InTerms, SerialInTerms DEF Take, Finish, Absent
  <2>2. OutcomeIn(cmd, fate, a) = SKIPPED
    BY <1>7 DEF OutcomeIn
  <2> HIDE DEF a
  <2>3. \A b \in Artifacts : outcome'[b] = IF b = a THEN SKIPPED ELSE outcome[b]
    BY <2>1 DEF JobInv, JobTables, OnArtifacts
  <2>4. AsSerial(cmd, fate, covs, outcome')
    BY <1>4, <2>2, <2>3 DEF StatusInv, AsSerial
  <2>5. cancelled' => \E b \in ToSet(covs) : outcome'[b] = RAISED
    <3> SUFFICES ASSUME cancelled PROVE \E b \in ToSet(covs) : outcome'[b] = RAISED
      BY <2>1 DEF SKIPPED, RAISED
    <3>1. PICK b \in ToSet(covs) : outcome[b] = RAISED
      BY DEF StatusInv, Told
    <3> QED BY <1>3, <1>4, <2>3, <3>1 DEF RAISED, PENDING
  <2>6. Told'
    BY <1>1, <2>5 DEF StatusInv, Told
  <2>7. \A v \in Workers : Passed(pc'[v], job'[v], cmd, fate)
    <3> SUFFICES ASSUME NEW v \in Workers PROVE Passed(pc'[v], job'[v], cmd, fate)
      OBVIOUS
    <3>1. CASE v = w
      <4>1. pc'[v] = "idle"
        BY <2>1, <3>1 DEF JobInv, JobTables, OnWorkers
      <4> QED BY <4>1, IdlePassed
    <3>2. CASE v # w
      <4>1. pc'[v] = pc[v] /\ job'[v] = job[v]
        BY <1>5, <2>1, <3>2 DEF JobInv, JobTables, OnWorkers
      <4> QED BY <4>1 DEF StatusInv
    <3> QED BY <3>1, <3>2
  <2> QED BY <1>1, <1>6, <2>4, <2>6, <2>7 DEF StatusInv
<1>8. CASE ~Absent(cmd, fate, a)
  <2> DEFINE s == IF Disassembles(cmd) THEN "disasm" ELSE "symbolize"
  <2>1. pc' = [pc EXCEPT ![w] = s] /\ UNCHANGED <<outcome, cancelled>>
    BY <1>8, InTerms, SerialInTerms
       DEF Take, Goto, Absent, results, need_disasm, Disassembles
  <2>2. Passed(s, a, cmd, fate)
    BY <1>8 DEF Passed, AfterDisasm, AfterCoverable, AfterBranches, Symbolized
  <2> HIDE DEF a, s
  <2>3. \A v \in Workers : Passed(pc'[v], job'[v], cmd, fate)
    <3> SUFFICES ASSUME NEW v \in Workers PROVE Passed(pc'[v], job'[v], cmd, fate)
      OBVIOUS
    <3>1. /\ v = w => pc'[v] = s /\ job'[v] = a
          /\ v # w => pc'[v] = pc[v] /\ job'[v] = job[v]
      BY <1>5, <2>1 DEF JobInv, JobTables, OnWorkers
    <3> QED BY <2>2, <3>1 DEF StatusInv
  <2>4. AsSerial(cmd, fate, covs, outcome') /\ Told'
    BY <1>1, <2>1 DEF StatusInv, AsSerial, Told
  <2> QED BY <1>1, <1>6, <2>3, <2>4 DEF StatusInv
<1> QED BY <1>7, <1>8

-----------------------------------------------------------------------------
(* The main thread, and what begins and ends a command.                    *)

(* Nothing but the phase and the status changes.                           *)
LEMMA PhaseTold ==
  ASSUME JobInv, StatusInv,
         UNCHANGED <<pc, job, cmd, covs, fate, commands, outcome, cache>>,
         Told'
  PROVE  StatusInv'
BY DEF StatusInv, AsSerial

(* The status of a command whose artifacts are decided.                    *)
LEMMA StatusDecided ==
  ASSUME StatusInv, \A a \in ToSet(covs) : outcome[a] # PENDING
  PROVE  StatusIn(cmd, fate, covs) =
           IF \/ With(FAILED) # {} \/ With(RAISED) # {} \/ With(OK) = {}
              \/ HowIn(fate, <<"merge">>) # OK
              \/ (cmd.html /\ HowIn(fate, <<"genhtml">>) # OK)
           THEN 1 ELSE 0
<1> DEFINE all == {OutcomeIn(cmd, fate, a) : a \in ToSet(covs)}
<1>1. \A a \in ToSet(covs) : OutcomeIn(cmd, fate, a) = outcome[a]
  BY DEF StatusInv, AsSerial
<1>2. /\ RAISED \in all <=> With(RAISED) # {}
      /\ FAILED \in all <=> With(FAILED) # {}
      /\ OK \in all <=> With(OK) # {}
  BY <1>1 DEF With
<1>3. {RAISED, FAILED} \intersect all # {} <=> RAISED \in all \/ FAILED \in all
  <2> HIDE DEF all
  <2> QED OBVIOUS
<1> QED BY <1>2, <1>3 DEF StatusIn

LEMMA MainTold ==
  ASSUME CacheInv, JobInv, StatusInv, Main
  PROVE  StatusInv'
<1>1. UNCHANGED <<pc, job, cmd, covs, fate, commands, outcome, cache>>
  BY DEF Main, Cancel, Abort, Conclude, Merge, _genhtml, files, request, results,
     threads, world
<1>2. phase # "off"
  BY DEF Main, Cancel, Abort, Conclude, Merge, _genhtml
<1>3. SUFFICES Told'
  BY <1>1, PhaseTold
<1>4. ~RefusedIn(cmd, fate, commands) /\ commands \in Nat
  BY <1>2 DEF StatusInv, Told
<1>5. CASE Cancel
  <2>1. UNCHANGED <<phase, rc>> /\ phase = "working"
    BY <1>5 DEF Cancel, status
  <2>2. \E b \in ToSet(covs) : outcome[b] = RAISED
    BY <1>5 DEF Cancel, ToSet
  <2> QED BY <1>1, <1>4, <2>1, <2>2 DEF Told
<1>6. CASE Abort
  <2>1. phase' = "off" /\ rc' = 1 /\ cancelled /\ UNCHANGED cancelled
    BY <1>6 DEF Abort, results
  <2>2. PICK b \in ToSet(covs) : outcome[b] = RAISED
    BY <2>1 DEF StatusInv, Told
  <2>3. OutcomeIn(cmd, fate, b) = RAISED
    BY <2>2 DEF StatusInv, AsSerial, RAISED, PENDING
  <2>4. StatusIn(cmd, fate, covs) = 1
    BY <2>3 DEF StatusIn
  <2> QED BY <1>1, <1>4, <2>1, <2>2, <2>4 DEF Told
<1>7. CASE Conclude
  <2>1. /\ phase = "working" /\ ~cancelled /\ UNCHANGED cancelled
        /\ \A i \in DOMAIN covs : outcome[covs[i]] # PENDING
    BY <1>7 DEF Conclude, Decided
  <2>2. \A a \in ToSet(covs) : outcome[a] # PENDING
    BY <2>1 DEF ToSet
  <2>3. CASE Hopeless
    <3>1. phase' = "off" /\ rc' = 1
      BY <1>7, <2>3 DEF Conclude
    <3>2. StatusIn(cmd, fate, covs) = 1
      BY <2>2, <2>3, StatusDecided DEF Hopeless
    <3> QED BY <1>1, <1>4, <2>1, <3>1, <3>2 DEF Told
  <2>4. CASE ~Hopeless
    <3>1. phase' = "merging"
      BY <1>7, <2>4 DEF Conclude
    <3> QED BY <1>1, <1>4, <2>1, <3>1 DEF Told
  <2> QED BY <2>3, <2>4
<1>8. ASSUME phase \in {"merging", "rendering"}
      PROVE  StatusIn(cmd, fate, covs) =
               IF \/ HowIn(fate, <<"merge">>) # OK
                  \/ (cmd.html /\ HowIn(fate, <<"genhtml">>) # OK)
               THEN 1 ELSE 0
  <2>1. /\ \A a \in ToSet(covs) : outcome[a] \in {OK, SKIPPED}
        /\ \E a \in ToSet(covs) : outcome[a] = OK
    BY <1>8 DEF JobInv, Verdict
  <2>2. With(FAILED) = {} /\ With(RAISED) = {} /\ With(OK) # {}
    BY <2>1 DEF With, OK, SKIPPED, FAILED, RAISED
  <2>3. \A a \in ToSet(covs) : outcome[a] # PENDING
    BY <2>1 DEF OK, SKIPPED, PENDING
  <2> QED BY <2>2, <2>3, StatusDecided
<1>9. CASE Merge
  <2>1. phase = "merging" /\ UNCHANGED cancelled
    BY <1>9 DEF Merge, results
  <2>2. cancelled => \E b \in ToSet(covs) : outcome[b] = RAISED
    BY DEF StatusInv, Told
  <2>3. CASE HowIn(fate, <<"merge">>) = OK /\ cmd.html
    <3>1. phase' = "rendering"
      BY <1>9, <2>3, SerialInTerms DEF Merge
    <3> QED BY <1>1, <1>4, <2>1, <2>2, <2>3, <3>1 DEF Told
  <2>4. CASE HowIn(fate, <<"merge">>) = OK /\ ~cmd.html
    <3>1. phase' = "off" /\ rc' = 0
      BY <1>9, <2>4, SerialInTerms DEF Merge
    <3>2. StatusIn(cmd, fate, covs) = 0
      BY <1>8, <2>1, <2>4
    <3> QED BY <1>1, <1>4, <2>1, <2>2, <3>1, <3>2 DEF Told
  <2>5. CASE HowIn(fate, <<"merge">>) # OK
    <3>1. phase' = "off" /\ rc' = 1
      BY <1>9, <2>5, SerialInTerms DEF Merge
    <3>2. StatusIn(cmd, fate, covs) = 1
      BY <1>8, <2>1, <2>5
    <3> QED BY <1>1, <1>4, <2>1, <2>2, <3>1, <3>2 DEF Told
  <2> QED BY <2>3, <2>4, <2>5
<1>10. CASE _genhtml
  <2>1. /\ phase = "rendering" /\ phase' = "off" /\ UNCHANGED cancelled
        /\ rc' = IF HowIn(fate, <<"genhtml">>) = OK THEN 0 ELSE 1
    BY <1>10, SerialInTerms DEF _genhtml, results
  <2>2. /\ cancelled => \E b \in ToSet(covs) : outcome[b] = RAISED
        /\ cmd.html /\ HowIn(fate, <<"merge">>) = OK
    BY <2>1 DEF StatusInv, Told
  <2>3. rc' = StatusIn(cmd, fate, covs)
    BY <1>8, <2>1, <2>2
  <2> QED BY <1>1, <1>4, <2>1, <2>2, <2>3 DEF Told
<1> QED BY <1>5, <1>6, <1>7, <1>9, <1>10 DEF Main

(* Nothing was found: no artifact, so the status of a serial run is 1.     *)
LEMMA NothingFound ==
  ASSUME NEW c, NEW f
  PROVE  StatusIn(c, f, _split_rtl(<<>>)) = 1
<1>1. ToSet(_split_rtl(<<>>)) = {}
  <2>1. [i \in DOMAIN <<>> |-> Slices[<<>>[i]]] = <<>>
    OBVIOUS
  <2>2. _split_rtl(<<>>) = <<>>
    BY <2>1 DEF _split_rtl, FlattenSeq
  <2> QED BY <2>2 DEF ToSet
<1> QED BY <1>1 DEF StatusIn

LEMMA StartTold ==
  ASSUME CacheInv, JobInv, StatusInv, NEW c \in Commands, Start(c)
  PROVE  StatusInv'
<1> DEFINE found == _collect_covs(c.given)
           fails == found = <<>> \/ Unreadable(found) \/ Conflict(found)
<1>1. /\ cmd' = c /\ covs' = _split_rtl(found) /\ commands' = commands + 1
      /\ outcome' = [a \in Artifacts |-> PENDING] /\ cancelled' = FALSE
      /\ phase' = (IF fails THEN "off" ELSE "working")
      /\ rc' = (IF fails THEN 1 ELSE rc)
      /\ NewThreads /\ UNCHANGED <<fate, cache>>
  BY DEF Start, files
<1>2. commands' \in Nat /\ commands' # 0
  BY <1>1 DEF StatusInv, Told
<1>3. \A w \in Workers : Passed(pc'[w], job'[w], cmd', fate')
  BY <1>1, IdlePassed DEF NewThreads
<1>4. AsSerial(cmd', fate', covs', outcome')
  <2>1. \A a \in ToSet(covs') : a \in Artifacts
    BY <1>1, CollectedAssumption DEF ToSet
  <2> QED BY <1>1, <2>1 DEF AsSerial
<1>5. RefusedIn(cmd', fate', commands') <=> Unreadable(found) \/ Conflict(found)
  BY <1>1, <1>2, SerialInTerms DEF RefusedIn, Unreadable, Conflict
<1> HIDE DEF found
<1>6. found = <<>> => StatusIn(cmd', fate', covs') = 1
  BY <1>1, NothingFound
<1>7. Told'
  BY <1>1, <1>2, <1>5, <1>6 DEF Told
<1> QED BY <1>1, <1>3, <1>4, <1>7 DEF StatusInv

LEMMA KillTold ==
  ASSUME CacheInv, JobInv, StatusInv, Kill
  PROVE  StatusInv'
<1>1. /\ phase' = "off" /\ rc' = 137 /\ NewThreads
      /\ UNCHANGED <<cmd, covs, outcome, cancelled, fate, commands, cache>>
  BY DEF Kill, request, results
<1>2. \A w \in Workers : Passed(pc'[w], job'[w], cmd', fate')
  BY <1>1, IdlePassed DEF NewThreads
<1>3. Told'
  BY <1>1 DEF StatusInv, Told
<1> QED BY <1>1, <1>2, <1>3 DEF StatusInv, AsSerial

LEMMA StatusInvInit == Init => StatusInv
<1> SUFFICES ASSUME Init PROVE StatusInv
  OBVIOUS
<1>1. /\ covs = <<>> /\ commands = 0 /\ phase = "off" /\ rc = 1 /\ cancelled = FALSE
      /\ \A w \in Workers : pc[w] = "idle"
      /\ \A k \in Keys : cache[k] = None
  BY DEF Init
<1>2. ToSet(covs) = {}
  BY <1>1 DEF ToSet
<1>3. Told
  BY <1>1 DEF Told, RefusedIn
<1> QED BY <1>1, <1>2, <1>3, IdlePassed DEF StatusInv, CacheEarned, AsSerial

LEMMA StatusInvNext == CacheInv /\ JobInv /\ StatusInv /\ [Next]_vars => StatusInv'
<1> SUFFICES ASSUME CacheInv, JobInv, StatusInv, [Next]_vars PROVE StatusInv'
  OBVIOUS
<1>1. ASSUME NEW w \in Workers, Thread(w) PROVE StatusInv'
  BY <1>1, TakeTold, SymbolizeTold, BranchesTold, LcovTold, DisasmTold,
     CoverableTold DEF Thread, _process_one
<1>2. ASSUME UNCHANGED <<pc, job, cmd, covs, fate, commands, outcome, cache, phase,
                         rc, cancelled>>
      PROVE  StatusInv'
  <2>1. Told'
    BY <1>2 DEF StatusInv, Told
  <2> QED BY <1>2, <2>1, PhaseTold
<1>3. ASSUME NEW e \in Elfs, Rebuild(e) PROVE StatusInv'
  BY <1>2, <1>3 DEF Rebuild, files, main, request, status, results, threads
<1>4. CASE UNCHANGED vars
  BY <1>2, <1>4 DEF vars, files, main, request, status, results, threads, world
<1> QED BY <1>1, <1>3, <1>4, StartTold, MainTold, KillTold DEF Next

-----------------------------------------------------------------------------
(* However many threads there are and in whatever order they work, fail    *)
(* and find what others or earlier commands have built: every outcome, and *)
(* the status of the command, is that of a serial run (_process_one, run). *)
THEOREM ExitStatusCorrect == Spec => []ExitStatus
<1>1. StatusInv => ExitStatus
  BY SerialInTerms DEF StatusInv, AsSerial, Told, ExitStatus
<1> QED BY <1>1, JobInvInit, JobInvNext, CacheInvInit, CacheInvNext, StatusInvInit,
           StatusInvNext, PTL DEF Spec

-----------------------------------------------------------------------------
(***************************************************************************)
(* What tcgcov report merges, for every set of artifacts, threads and      *)
(* command lines.                                                          *)
(*                                                                         *)
(* merge takes each path for a glob pattern, so the theorem is about       *)
(* output names none of which, read as a pattern, matches another (the run *)
(* report_glob shows what happens to the others).                          *)
(*                                                                         *)
(* MergeInv says why nothing but this command's results is in the          *)
(* aggregate: the names of the artifacts differ, so that the results of    *)
(* those that succeeded are as many files, each of them given once.        *)
(***************************************************************************)

NoPatterns == \A n, f \in Names : GlobMatch(n, f) => n = f

-----------------------------------------------------------------------------
(* The invariant.                                                          *)

Succeeded(s, out)   == {a \in ToSet(s) : out[a] = OK}
Contributed(s, out) == {NameIn(s, a) : a \in Succeeded(s, out)}

MergedInfos(s, out, infos) ==
  [f \in Contributed(s, out) |-> [times |-> 1, info |-> infos[f]]]

MergeInv ==
  phase = "rendering" \/ (phase = "off" /\ rc = 0) =>
    /\ \A a \in ToSet(covs) : outcome[a] \in {OK, SKIPPED}
    /\ \E a \in ToSet(covs) : outcome[a] = OK
    /\ aggregate = [whole |-> TRUE, infos |-> MergedInfos(covs, outcome, info)]

LEMMA CovsAreArtifacts ==
  ASSUME Given
  PROVE  \A a \in ToSet(covs) : a \in Artifacts /\ NameIn(covs, a) \in Names
BY NameInNames DEF Given, ToSet

(* A path that is no pattern stands for itself, whether it is there or not.*)
LEMMA PlainPath ==
  ASSUME NoPatterns, NEW n \in Names
  PROVE  Expand(n) = {n}
<1> DEFINE found == {f \in Names : info[f] # None /\ GlobMatch(n, f)}
<1>1. found \subseteq {n}
  BY DEF NoPatterns
<1>2. Expand(n) = IF found = {} THEN {n} ELSE found
  BY Zenon DEF Expand
<1> HIDE DEF found
<1>3. found = {} \/ found = {n}
  BY <1>1
<1> QED BY <1>2, <1>3

(* Each result that this command produced is merged once, and no other.    *)
LEMMA MergedOnce ==
  ASSUME NoPatterns, Given, NEW f \in Names
  PROVE  Merged(f) = IF f \in Contributed(covs, outcome) THEN 1 ELSE 0
<1> DEFINE from == {a \in With(OK) : f \in Expand(_base_name(a))}
<1>1. \A a \in With(OK) : a \in ToSet(covs) /\ outcome[a] = OK
  BY DEF With
<1>2. \A a \in ToSet(covs) : Expand(_base_name(a)) = {NameIn(covs, a)}
  BY CovsAreArtifacts, PlainPath, InTerms
<1>3. \A a : a \in from <=> a \in Succeeded(covs, outcome) /\ f = NameIn(covs, a)
  BY <1>1, <1>2 DEF Succeeded, With
<1>4. Merged(f) = Cardinality(from)
  BY Zenon DEF Merged
<1> HIDE DEF from
<1>5. CASE f \in Contributed(covs, outcome)
  <2>1. PICK a \in Succeeded(covs, outcome) : f = NameIn(covs, a)
    BY <1>5 DEF Contributed
  <2>2. \A b : b \in from <=> b = a
    BY <1>3, <2>1, CovsAreArtifacts, NamesDiffer DEF Succeeded
  <2>3. from = {a}
    BY <2>2
  <2> QED BY <1>4, <1>5, <2>3, FS_Singleton
<1>6. CASE f \notin Contributed(covs, outcome)
  <2>1. from = {}
    BY <1>3, <1>6 DEF Contributed
  <2> QED BY <1>4, <1>6, <2>1, FS_EmptySet
<1> QED BY <1>5, <1>6

LEMMA MergeIsWhole ==
  ASSUME NoPatterns, Given
  PROVE  [f \in {g \in Names : Merged(g) > 0} |->
            [times |-> Merged(f), info |-> info[f]]]
           = MergedInfos(covs, outcome, info)
<1>1. \A f \in Contributed(covs, outcome) : f \in Names
  BY CovsAreArtifacts DEF Contributed, Succeeded
<1>2. \A f : f \in {g \in Names : Merged(g) > 0} <=> f \in Contributed(covs, outcome)
  BY <1>1, MergedOnce
<1>3. {g \in Names : Merged(g) > 0} = Contributed(covs, outcome)
  BY <1>2
<1>4. \A f \in Contributed(covs, outcome) : Merged(f) = 1
  BY <1>1, MergedOnce
<1> HIDE DEF Merged
<1> QED BY <1>3, <1>4 DEF MergedInfos

(* The threads work in one phase, and touch neither the status nor what    *)
(* the main thread writes.                                                 *)
LEMMA ThreadAtWork ==
  ASSUME JobInv, NEW w \in Workers, Thread(w)
  PROVE  /\ phase = "working"
         /\ UNCHANGED <<phase, rc, cmd, covs, aggregate, html, fate, commands>>
<1>1. CASE Take(w)
  BY <1>1 DEF Take, files, reports, request, status, world
<1>2. CASE _process_one(w)
  <2>1. Busy(w)
    BY <1>2 DEF _process_one, disasm_for, coverable_for, Symbolize, Branches, Lcov, Busy
  <2>2. phase = "working"
    BY <2>1 DEF JobInv, JobsApart
  <2>3. CASE Symbolize(w) \/ Branches(w) \/ Lcov(w)
    BY <2>2, <2>3 DEF Symbolize, Branches, Lcov, reports, request, status, world
  <2>4. CASE disasm_for(w) \/ coverable_for(w)
    <3>1. ASSUME NEW key, NEW b, NEW c, EnterCache(w, key, b, c)
          PROVE  UNCHANGED <<phase, rc, cmd, covs, aggregate, html, fate, commands>>
      BY <3>1 DEF EnterCache, files, reports, main, request, status, world
    <3>2. ASSUME NEW key, NEW call, NEW x, NEW c, Build(w, key, call, x, c)
          PROVE  UNCHANGED <<phase, rc, cmd, covs, aggregate, html, fate, commands>>
      BY <3>2 DEF Build, files, reports, main, request, status, world
    <3>3. ASSUME NEW key, NEW c, Save(w, key, c)
          PROVE  UNCHANGED <<phase, rc, cmd, covs, aggregate, html, fate, commands>>
      BY <3>3 DEF Save, reports, main, request, status, world
    <3> QED BY <2>2, <2>4, <3>1, <3>2, <3>3 DEF disasm_for, coverable_for
  <2> QED BY <1>2, <2>3, <2>4 DEF _process_one
<1> QED BY <1>1, <1>2 DEF Thread

LEMMA MergeInvNext ==
  ASSUME NoPatterns, JobInv, MergeInv, [Next]_vars
  PROVE  MergeInv'
<1>1. ASSUME UNCHANGED <<covs, outcome, info, aggregate, phase, rc>>
      PROVE  MergeInv'
  BY <1>1 DEF MergeInv
<1>2. ASSUME NEW w \in Workers, Thread(w)
      PROVE  MergeInv'
  BY <1>2, ThreadAtWork DEF MergeInv
<1>3. ASSUME NEW c \in Commands, Start(c)
      PROVE  MergeInv'
  BY <1>3 DEF Start, MergeInv
<1>4. CASE Kill
  BY <1>4 DEF Kill, MergeInv
<1>5. CASE Cancel \/ Abort \/ Conclude
  BY <1>5 DEF Cancel, Abort, Conclude, status, MergeInv
<1>6. CASE Merge
  <2>1. UNCHANGED <<covs, outcome, info>>
    BY <1>6 DEF Merge, outputs, request, results
  <2>2. /\ \A a \in ToSet(covs) : outcome[a] \in {OK, SKIPPED}
        /\ \E a \in ToSet(covs) : outcome[a] = OK
    BY <1>6 DEF Merge, JobInv, Verdict
  <2>3. CASE How(<<"merge">>) = OK
    <3>1. aggregate' = [whole |-> TRUE, infos |->
                          [f \in {g \in Names : Merged(g) > 0} |->
                            [times |-> Merged(f), info |-> info[f]]]]
      BY <1>6, <2>3 DEF Merge
    <3>2. aggregate' = [whole |-> TRUE, infos |-> MergedInfos(covs, outcome, info)]
      BY <3>1, MergeIsWhole, Zenon DEF JobInv
    <3> QED BY <2>1, <2>2, <3>2 DEF MergeInv
  <2>4. CASE How(<<"merge">>) # OK
    BY <1>6, <2>4 DEF Merge, MergeInv
  <2> QED BY <2>3, <2>4
<1>7. CASE _genhtml
  <2>1. phase = "rendering" /\ UNCHANGED <<covs, outcome, info, aggregate>>
    BY <1>7 DEF _genhtml, outputs, request, results
  <2> QED BY <2>1 DEF MergeInv
<1>8. ASSUME NEW e \in Elfs, Rebuild(e)
      PROVE  MergeInv'
  BY <1>1, <1>8 DEF Rebuild, files, outputs, reports, main, request, status, results
<1>9. CASE UNCHANGED vars
  BY <1>1, <1>9 DEF vars, files, outputs, reports, main, request, status, results
<1> QED BY <1>2, <1>3, <1>4, <1>5, <1>6, <1>7, <1>8, <1>9 DEF Next, Main

(* Only an artifact whose ELF is missing is skipped.                       *)
LEMMA SkippedIsAbsent ==
  ASSUME NEW c, NEW f, NEW a, OutcomeIn(c, f, a) = SKIPPED
  PROVE  Absent(c, f, a)
<1> SUFFICES ASSUME ~Absent(c, f, a) PROVE FALSE
  OBVIOUS
<1> DEFINE calls == CallsIn(c, a)
           bad   == {i \in DOMAIN calls : Ends(f, calls[i])}
<1>1. OutcomeIn(c, f, a) = IF bad = {} THEN OK ELSE HowIn(f, calls[FirstOf(bad)])
  BY Zenon DEF OutcomeIn
<1>2. bad \subseteq Nat /\ \A i \in bad : HowIn(f, calls[i]) \in {FAILED, RAISED}
  BY DEF CallsIn, Ends
<1> HIDE DEF bad, calls
<1>3. CASE bad = {}
  BY <1>1, <1>3 DEF OK, SKIPPED
<1>4. CASE bad # {}
  <2>1. \E n \in bad : \A m \in bad : n <= m
    BY ONLY <1>2, <1>4, LeastNat
  <2>2. FirstOf(bad) \in bad
    BY <2>1 DEF FirstOf
  <2> QED BY <1>1, <1>2, <1>4, <2>2 DEF SKIPPED, FAILED, RAISED
<1> QED BY <1>3, <1>4

(* There are as many results as artifacts that succeeded.                  *)
LEMMA ResultsCounted ==
  ASSUME Given
  PROVE  Cardinality(Contributed(covs, outcome)) =
           Cardinality(Succeeded(covs, outcome))
<1> DEFINE S == Succeeded(covs, outcome)
           T == Contributed(covs, outcome)
           g == [a \in S |-> NameIn(covs, a)]
<1>1. IsFiniteSet(ToSet(covs))
  <2>1. ToSet(covs) = {covs[i] : i \in DOMAIN covs}
    BY DEF ToSet
  <2>2. IsFiniteSet(DOMAIN covs)
    BY FS_Interval DEF Given
  <2> QED BY <2>1, <2>2, ImageFinite
<1>2. IsFiniteSet(S)
  BY <1>1, FS_Subset DEF Succeeded
<1>3. g \in Surjection(S, T)
  BY DEF Contributed, Surjection
<1>4. \A a, b \in S : g[a] = g[b] => a = b
  BY CovsAreArtifacts, NamesDiffer DEF Succeeded
<1> HIDE DEF S, T, g
<1>5. g \in Injection(S, T)
  BY <1>3, <1>4 DEF Surjection, Injection, IsInjective
<1>6. Cardinality(T) = Cardinality(S)
  BY ONLY <1>2, <1>3, <1>5, FS_Surjection
<1> QED BY <1>6 DEF S, T

LEMMA WholeIsExact ==
  ASSUME JobInv, StatusInv, MergeInv
  PROVE  AggregateExact
<1> SUFFICES ASSUME phase = "off", rc = 0
             PROVE  AggregateExact
  BY DEF AggregateExact
<1> DEFINE infos == aggregate.infos
<1>1. /\ \A a \in ToSet(covs) : outcome[a] \in {OK, SKIPPED}
      /\ \E a \in ToSet(covs) : outcome[a] = OK
      /\ infos = MergedInfos(covs, outcome, info) /\ aggregate.whole
  BY DEF MergeInv
<1>2. DOMAIN infos = Contributed(covs, outcome)
  BY <1>1 DEF MergedInfos
<1>3. \A f \in DOMAIN infos : infos[f].times = 1 /\ infos[f].info = info[f]
  BY <1>1 DEF MergedInfos
<1>4. ASSUME NEW a \in ToSet(covs), outcome[a] = SKIPPED
      PROVE  How(<<"isfile", _target_of(a).elf>>) = FAILED \/ _target_of(a).elf = NoElf
  <2>1. OutcomeIn(cmd, fate, a) = SKIPPED
    BY <1>4 DEF StatusInv, AsSerial, SKIPPED, PENDING
  <2> QED BY <2>1, SkippedIsAbsent, SerialInTerms, InTerms DEF Absent
<1>5. ASSUME NEW a \in ToSet(covs), outcome[a] # SKIPPED
      PROVE  \E f \in DOMAIN infos :
               infos[f].info.sym.artifact = a /\ infos[f].times = 1
  <2>1. outcome[a] = OK /\ NameIn(covs, a) \in DOMAIN infos
    BY <1>1, <1>2, <1>5 DEF Contributed, Succeeded
  <2>2. info[NameIn(covs, a)].sym.artifact = a
    BY <2>1 DEF JobInv, Joined, InfoRight, Own
  <2> QED BY <1>3, <2>1, <2>2
<1>6. \A a : a \in Succeeded(covs, outcome)
             <=> a \in {b \in ToSet(covs) : outcome[b] # SKIPPED}
  BY <1>1 DEF Succeeded, OK, SKIPPED
<1>7. Succeeded(covs, outcome) = {b \in ToSet(covs) : outcome[b] # SKIPPED}
  BY <1>6
<1>8. Cardinality(DOMAIN infos) =
        Cardinality({b \in ToSet(covs) : outcome[b] # SKIPPED})
  BY <1>2, <1>7, ResultsCounted DEF JobInv
<1>9. DOMAIN infos # {}
  BY <1>1, <1>2 DEF Contributed, Succeeded
<1> HIDE DEF infos
<1> QED BY <1>1, <1>4, <1>5, <1>8, <1>9 DEF AggregateExact, infos

(* A command that ends with status 0 has merged the result of each of its  *)
(* artifacts exactly once, and nothing that an earlier command, another    *)
(* set of options or a killed run left behind, provided no output name is  *)
(* a glob pattern for another (_base_names, run, merge).                   *)
THEOREM AggregateExactCorrect == NoPatterns => (Spec => []AggregateExact)
<1> SUFFICES ASSUME NoPatterns PROVE Spec => []AggregateExact
  OBVIOUS
<1>1. Init => MergeInv
  BY DEF Init, MergeInv
<1>2. JobInv /\ MergeInv /\ [Next]_vars => MergeInv'
  BY MergeInvNext
<1>3. JobInv /\ StatusInv /\ MergeInv => AggregateExact
  BY WholeIsExact
<1> QED BY <1>1, <1>2, <1>3, JobInvInit, JobInvNext, CacheInvInit, CacheInvNext,
           StatusInvInit, StatusInvNext, PTL DEF Spec

-----------------------------------------------------------------------------
(***************************************************************************)
(* Whether the rendered report has branch columns.                         *)
(*                                                                         *)
(* BranchInv says why: the counter is raised by a thread that has written  *)
(* the branches of its artifact, and such a thread ends with a result that *)
(* has them or with a failure, after which nothing is rendered.            *)
(***************************************************************************)

HasBranches(s, out, infos) ==
  \E a \in Succeeded(s, out) : infos[NameIn(s, a)].br # None

BranchInv ==
  /\ branch_infos \in Nat
  /\ HasBranches(covs, outcome, info) => branch_infos > 0
  /\ \A w \in Workers : pc[w] = "lcov_branches" => branch_infos > 0
  /\ phase # "off" /\ branch_infos > 0 =>
       \/ HasBranches(covs, outcome, info)
       \/ \E w \in Workers : pc[w] = "lcov_branches"
       \/ \E a \in ToSet(covs) : outcome[a] \in {FAILED, RAISED}
  /\ phase = "off" /\ rc = 0 /\ cmd.html =>
       html.shown = HasBranches(covs, outcome, info)

(* One step of a thread at work: s is where it goes, o the outcome if it   *)
(* ends its artifact.                                                      *)
LEMMA BranchStep ==
  ASSUME JobInv, BranchInv, NEW w \in Workers, Busy(w), NEW s, NEW o, NEW z,
         pc' = [pc EXCEPT ![w] = s],
         UNCHANGED <<covs, phase>>,
         branch_infos' = IF s = "lcov_branches" THEN branch_infos + 1
                         ELSE branch_infos,
         \/ s # "idle" /\ UNCHANGED outcome /\ UNCHANGED info
         \/ /\ s = "idle" /\ o \in {FAILED, RAISED} /\ UNCHANGED info
            /\ outcome' = [outcome EXCEPT ![job[w]] = o]
         \/ /\ s = "idle" /\ o = OK
            /\ outcome' = [outcome EXCEPT ![job[w]] = o]
            /\ info' = [info EXCEPT ![NameIn(covs, job[w])] = z]
            /\ z.br # None <=> pc[w] = "lcov_branches",
         pc[w] = "lcov_branches" => s = "idle"
  PROVE  BranchInv'
<1> DEFINE a == job[w]
           n == NameIn(covs, a)
<1>1. /\ phase = "working" /\ outcome[a] = PENDING /\ a \in ToSet(covs)
      /\ \A b \in ToSet(covs) : b \in Artifacts /\ NameIn(covs, b) \in Names
  BY CovsAreArtifacts DEF JobInv, JobsApart, ToSet
<1>2. \A v \in Workers : pc'[v] = IF v = w THEN s ELSE pc[v]
  BY DEF JobInv, JobTables, OnWorkers
<1>3. \A b \in ToSet(covs) : b # a => NameIn(covs, b) # n
  BY <1>1, NamesDiffer
<1>4. \A b \in ToSet(covs) : outcome'[b] = IF b = a /\ s = "idle" THEN o ELSE outcome[b]
  BY <1>1 DEF JobInv, JobTables, OnArtifacts
<1>5. \A b \in ToSet(covs) : b # a => info'[NameIn(covs, b)] = info[NameIn(covs, b)]
  BY <1>1, <1>3 DEF JobInv, JobTables, OnNames
<1>6. s = "idle" /\ o = OK => (info'[n].br # None <=> pc[w] = "lcov_branches")
  BY <1>1 DEF JobInv, JobTables, OnNames, OK, FAILED, RAISED
<1>7. s = "idle" => o \in {OK, FAILED, RAISED}
  OBVIOUS
<1>8. branch_infos' \in Nat /\ branch_infos' >= branch_infos /\ branch_infos \in Nat
  BY DEF BranchInv
<1>9. s = "lcov_branches" => branch_infos' > 0
  BY DEF BranchInv
<1>10. \A b \in Succeeded(covs, outcome) :
         /\ b # a /\ b \in ToSet(covs) /\ b \in Succeeded(covs, outcome')
         /\ info'[NameIn(covs, b)] = info[NameIn(covs, b)]
  BY <1>1, <1>4, <1>5 DEF Succeeded, OK, PENDING
<1>11. \A b \in Succeeded(covs, outcome') :
         \/ b = a /\ s = "idle" /\ o = OK
         \/ /\ b \in Succeeded(covs, outcome)
            /\ info'[NameIn(covs, b)] = info[NameIn(covs, b)]
  BY <1>1, <1>4, <1>5 DEF Succeeded, OK, PENDING
<1>12. s = "idle" /\ o = OK => a \in Succeeded(covs, outcome')
  BY <1>1, <1>4 DEF Succeeded
<1>13. s = "idle" /\ o # OK => outcome'[a] \in {FAILED, RAISED}
  BY <1>1, <1>4, <1>7
<1> HIDE DEF n
<1>14. HasBranches(covs, outcome', info') => branch_infos' > 0
  <2> SUFFICES ASSUME NEW b \in Succeeded(covs, outcome'),
                      info'[NameIn(covs, b)].br # None
               PROVE  branch_infos' > 0
    BY DEF HasBranches
  <2>1. CASE b = a /\ s = "idle" /\ o = OK
    <3>1. pc[w] = "lcov_branches"
      BY <1>6, <2>1 DEF n
    <3> QED BY <1>8, <3>1 DEF BranchInv
  <2>2. CASE /\ b \in Succeeded(covs, outcome)
             /\ info'[NameIn(covs, b)] = info[NameIn(covs, b)]
    <3>1. branch_infos > 0
      BY <2>2 DEF BranchInv, HasBranches
    <3> QED BY <1>8, <3>1
  <2> QED BY <1>11, <2>1, <2>2
<1>15. ASSUME NEW v \in Workers, pc'[v] = "lcov_branches"
       PROVE  branch_infos' > 0
  <2>1. CASE v = w
    BY <1>2, <1>9, <1>15, <2>1
  <2>2. CASE v # w
    <3>1. branch_infos > 0
      BY <1>2, <1>15, <2>2 DEF BranchInv
    <3> QED BY <1>8, <3>1
  <2> QED BY <2>1, <2>2
<1>16. ASSUME branch_infos' > 0
       PROVE  \/ HasBranches(covs, outcome', info')
              \/ \E v \in Workers : pc'[v] = "lcov_branches"
              \/ \E b \in ToSet(covs) : outcome'[b] \in {FAILED, RAISED}
  <2>1. CASE s = "lcov_branches"
    BY <1>2, <2>1
  <2>2. CASE s # "lcov_branches"
    <3>1. branch_infos > 0
      BY <1>16, <2>2
    <3>2. CASE HasBranches(covs, outcome, info)
      BY <1>10, <3>2 DEF HasBranches
    <3>3. ASSUME NEW b \in ToSet(covs), outcome[b] \in {FAILED, RAISED}
          PROVE  outcome'[b] \in {FAILED, RAISED}
      BY <1>1, <1>4, <3>3 DEF FAILED, RAISED, PENDING
    <3>4. ASSUME NEW v \in Workers, pc[v] = "lcov_branches", v # w
          PROVE  pc'[v] = "lcov_branches"
      BY <1>2, <3>4
    <3>5. CASE pc[w] = "lcov_branches" /\ o = OK
      <4>1. a \in Succeeded(covs, outcome') /\ info'[n].br # None
        BY <1>6, <1>12, <3>5
      <4> QED BY <4>1 DEF HasBranches, n
    <3>6. CASE pc[w] = "lcov_branches" /\ o # OK
      BY <1>1, <1>13, <3>6
    <3> QED BY <1>1, <3>1, <3>2, <3>3, <3>4, <3>5, <3>6 DEF BranchInv
  <2> QED BY <2>1, <2>2
<1> QED BY <1>1, <1>8, <1>14, <1>15, <1>16 DEF BranchInv

(* A call that fails, and a step that has nothing to do with branches.     *)
LEMMA BranchFail ==
  ASSUME JobInv, BranchInv, NEW w \in Workers, Busy(w), NEW call, Fails(w, call),
         UNCHANGED <<covs, phase, info, branch_infos>>
  PROVE  BranchInv'
<1>1. /\ pc' = [pc EXCEPT ![w] = "idle"]
      /\ outcome' = [outcome EXCEPT ![job[w]] = How(call)]
      /\ How(call) \in {FAILED, RAISED}
  BY DEF Fails, Finish
<1> QED BY <1>1, BranchStep

LEMMA BranchQuiet ==
  ASSUME JobInv, BranchInv, NEW w \in Workers, Busy(w), pc[w] # "lcov_branches",
         NEW s, s \notin {"idle", "lcov_branches"}, pc' = [pc EXCEPT ![w] = s],
         UNCHANGED <<covs, phase, outcome, info, branch_infos>>
  PROVE  BranchInv'
BY BranchStep

LEMMA CacheStepsBranch ==
  ASSUME JobInv, BranchInv, NEW w \in Workers, disasm_for(w) \/ coverable_for(w)
  PROVE  BranchInv'
<1>1. Busy(w) /\ pc[w] # "lcov_branches"
  BY DEF disasm_for, coverable_for, Busy
<1>2. ASSUME NEW key, NEW b, NEW c, b \notin {"idle", "lcov_branches"},
             c \notin {"idle", "lcov_branches"}, EnterCache(w, key, b, c)
      PROVE  BranchInv'
  <2>1. /\ UNCHANGED <<covs, phase, outcome, info, branch_infos>>
        /\ \E s \in {b, c} : pc' = [pc EXCEPT ![w] = s]
    BY <1>2 DEF EnterCache, Goto, files, outputs, main, request, status, results,
       shared
  <2> QED BY <1>1, <1>2, <2>1, BranchQuiet
<1>3. ASSUME NEW key, NEW call, NEW x, NEW c, c \notin {"idle", "lcov_branches"},
             Build(w, key, call, x, c)
      PROVE  BranchInv'
  <2>1. CASE How(call) = OK
    <3>1. /\ UNCHANGED <<covs, phase, outcome, info, branch_infos>>
          /\ pc' = [pc EXCEPT ![w] = c]
      BY <1>3, <2>1 DEF Build, Goto, files, outputs, main, request, status, results,
         shared
    <3> QED BY <1>1, <1>3, <3>1, BranchQuiet
  <2>2. CASE How(call) # OK
    <3>1. UNCHANGED <<covs, phase, info, branch_infos>> /\ Fails(w, call)
      BY <1>3, <2>2 DEF Build, files, outputs, request, status, shared
    <3> QED BY <1>1, <3>1, BranchFail
  <2> QED BY <2>1, <2>2
<1>4. ASSUME NEW key, NEW c, c \notin {"idle", "lcov_branches"}, Save(w, key, c)
      PROVE  BranchInv'
  <2>1. /\ UNCHANGED <<covs, phase, outcome, info, branch_infos>>
        /\ pc' = [pc EXCEPT ![w] = c]
    BY <1>4 DEF Save, Goto, outputs, main, request, status, results, shared
  <2> QED BY <1>1, <1>4, <2>1, BranchQuiet
<1> QED BY <1>2, <1>3, <1>4 DEF disasm_for, coverable_for

LEMMA SymbolizeBranch ==
  ASSUME JobInv, BranchInv, NEW w \in Workers, Symbolize(w)
  PROVE  BranchInv'
<1>1. /\ Busy(w) /\ pc[w] # "lcov_branches"
      /\ UNCHANGED <<covs, phase, info, branch_infos>>
  BY DEF Symbolize, Busy, request, status, shared
<1>2. CASE How(<<"symbolize", job[w]>>) = OK
  <2>1. pc' = [pc EXCEPT ![w] = "coverable"] /\ UNCHANGED outcome
    BY <1>2 DEF Symbolize, Goto
  <2> QED BY <1>1, <2>1, BranchQuiet
<1>3. CASE How(<<"symbolize", job[w]>>) # OK
  <2>1. Fails(w, <<"symbolize", job[w]>>)
    BY <1>3 DEF Symbolize
  <2> QED BY <1>1, <2>1, BranchFail
<1> QED BY <1>2, <1>3

LEMMA BranchesBranch ==
  ASSUME JobInv, BranchInv, NEW w \in Workers, Branches(w)
  PROVE  BranchInv'
<1> DEFINE call == <<"branches", job[w]>>
<1>1. /\ Busy(w) /\ pc[w] # "lcov_branches" /\ UNCHANGED <<covs, phase, info>>
  BY DEF Branches, Busy, request, status
<1>2. CASE How(call) = OK /\ ~NoProfile
  <2>1. /\ pc' = [pc EXCEPT ![w] = "lcov_branches"] /\ UNCHANGED outcome
        /\ branch_infos' = branch_infos + 1
    BY <1>2 DEF Branches, Goto, results
  <2> QED BY <1>1, <2>1, BranchStep
<1>3. CASE How(call) = OK /\ NoProfile
  <2>1. /\ pc' = [pc EXCEPT ![w] = "lcov"]
        /\ UNCHANGED outcome /\ UNCHANGED branch_infos
    BY <1>3 DEF Branches, Goto
  <2> QED BY <1>1, <2>1, BranchQuiet
<1>4. CASE How(call) # OK
  <2>1. Fails(w, call) /\ UNCHANGED branch_infos
    BY <1>4 DEF Branches, shared
  <2> QED BY <1>1, <2>1, BranchFail
<1> QED BY <1>2, <1>3, <1>4

LEMMA LcovBranch ==
  ASSUME CacheInv, JobInv, BranchInv, NEW w \in Workers, Lcov(w)
  PROVE  BranchInv'
<1> DEFINE a == job[w]
           n == NameIn(covs, a)
           call == <<"lcov", a>>
<1>1. /\ Busy(w) /\ pc[w] \in {"lcov", "lcov_branches"}
      /\ UNCHANGED <<covs, phase, branch_infos>>
  BY DEF Lcov, Busy, request, status, shared
<1>2. CASE How(call) = OK
  <2> DEFINE z == [sym |-> symbolized[n], cab |-> cache[KeyIn(cmd, a)],
                   br |-> IF pc[w] = "lcov" THEN None ELSE branches[n]]
  <2>1. /\ info' = [info EXCEPT ![n] = z]
        /\ pc' = [pc EXCEPT ![w] = "idle"]
        /\ outcome' = [outcome EXCEPT ![a] = OK]
    BY <1>2, InTerms DEF Lcov, Finish
  <2>2. z.br # None <=> pc[w] = "lcov_branches"
    BY <1>1, AtWork DEF StageRight
  <2> HIDE DEF z, n
  <2> QED BY <1>1, <2>1, <2>2, BranchStep DEF n
<1>3. CASE How(call) # OK
  <2>1. Fails(w, call) /\ UNCHANGED info
    BY <1>3 DEF Lcov
  <2> QED BY <1>1, <2>1, BranchFail
<1> QED BY <1>2, <1>3

(* A step that makes no difference to what is counted.                     *)
LEMMA BranchStill ==
  ASSUME BranchInv, UNCHANGED <<covs, outcome, info, pc, branch_infos>>,
         phase' # "off" => phase # "off",
         phase' = "off" /\ rc' = 0 /\ cmd'.html =>
           html'.shown = HasBranches(covs, outcome, info)
  PROVE  BranchInv'
BY DEF BranchInv

LEMMA TakeBranch ==
  ASSUME JobInv, BranchInv, NEW w \in Workers, Take(w)
  PROVE  BranchInv'
<1> DEFINE a == covs[next]
<1>1. /\ phase = "working" /\ pc[w] = "idle" /\ UNCHANGED <<covs, phase, info>>
      /\ UNCHANGED branch_infos
  BY DEF Take, files, outputs, request, status
<1>2. outcome[a] = PENDING /\ a \in ToSet(covs)
  BY DEF Take, JobInv, Given, ToSet
<1>3. \A b \in ToSet(covs) : b \in Artifacts
  BY CovsAreArtifacts DEF JobInv
<1>4. /\ \E s \in {"idle", "disasm", "symbolize"} : pc' = [pc EXCEPT ![w] = s]
      /\ UNCHANGED outcome \/ outcome' = [outcome EXCEPT ![a] = SKIPPED]
  BY DEF Take, Finish, Goto, results
<1> HIDE DEF a
<1>5. \A v \in Workers : pc'[v] = "lcov_branches" <=> pc[v] = "lcov_branches"
  BY <1>1, <1>4 DEF JobInv, JobTables, OnWorkers
<1>6. \A b \in ToSet(covs) :
        \A o \in {OK, FAILED, RAISED} : outcome'[b] = o <=> outcome[b] = o
  BY <1>2, <1>3, <1>4
     DEF JobInv, JobTables, OnArtifacts, OK, FAILED, RAISED, SKIPPED, PENDING
<1>7. \A b : b \in Succeeded(covs, outcome') <=> b \in Succeeded(covs, outcome)
  BY <1>6 DEF Succeeded
<1>8. HasBranches(covs', outcome', info') <=> HasBranches(covs, outcome, info)
  BY <1>1, <1>7 DEF HasBranches
<1>9. (\E b \in ToSet(covs') : outcome'[b] \in {FAILED, RAISED})
        <=> \E b \in ToSet(covs) : outcome[b] \in {FAILED, RAISED}
  BY <1>1, <1>6
<1> QED BY <1>1, <1>5, <1>8, <1>9 DEF BranchInv

(* The counter tells the main thread what the results of the artifacts     *)
(* tell.                                                                   *)
LEMMA CounterRight ==
  ASSUME JobInv, BranchInv, phase \in {"merging", "rendering"}
  PROVE  branch_infos > 0 <=> HasBranches(covs, outcome, info)
<1>1. \A w \in Workers : pc[w] # "lcov_branches"
  BY DEF JobInv, JobsApart, Busy
<1>2. \A a \in ToSet(covs) : outcome[a] \notin {FAILED, RAISED}
  BY DEF JobInv, Verdict, OK, SKIPPED, FAILED, RAISED
<1> QED BY <1>1, <1>2 DEF BranchInv

LEMMA MainBranch ==
  ASSUME JobInv, BranchInv, Main
  PROVE  BranchInv'
<1>1. UNCHANGED <<covs, outcome, info, pc, branch_infos, cmd>>
  BY DEF Main, Cancel, Abort, Conclude, Merge, _genhtml, files, outputs, request,
     results, threads, shared
<1>2. CASE Cancel \/ Abort \/ Conclude
  BY <1>1, <1>2, BranchStill DEF Cancel, Abort, Conclude, status
<1>3. CASE Merge
  BY <1>1, <1>3, BranchStill DEF Merge
<1>4. CASE _genhtml
  <2>1. phase = "rendering" /\ phase' = "off"
        /\ (rc' = 0 => html' = [shown |-> branch_infos > 0])
    BY <1>4 DEF _genhtml, ShowBranches
  <2>2. branch_infos > 0 <=> HasBranches(covs, outcome, info)
    BY <2>1, CounterRight
  <2>3. rc' = 0 => html'.shown = HasBranches(covs, outcome, info)
    <3>1. HasBranches(covs, outcome, info) \in BOOLEAN
      BY DEF HasBranches
    <3> QED BY <2>1, <2>2, <3>1
  <2> QED BY <1>1, <2>1, <2>3, BranchStill
<1> QED BY <1>2, <1>3, <1>4 DEF Main

LEMMA BranchInvInit == Init => BranchInv
<1> SUFFICES ASSUME Init PROVE BranchInv
  OBVIOUS
<1>1. /\ covs = <<>> /\ branch_infos = 0 /\ rc = 1
      /\ \A w \in Workers : pc[w] = "idle"
  BY DEF Init
<1>2. ~HasBranches(covs, outcome, info)
  BY <1>1 DEF HasBranches, Succeeded, ToSet
<1> QED BY <1>1, <1>2 DEF BranchInv

LEMMA BranchInvNext ==
  CacheInv /\ JobInv /\ BranchInv /\ [Next]_vars => BranchInv'
<1> SUFFICES ASSUME CacheInv, JobInv, BranchInv, [Next]_vars PROVE BranchInv'
  OBVIOUS
<1>1. ASSUME NEW w \in Workers, Thread(w) PROVE BranchInv'
  BY <1>1, TakeBranch, SymbolizeBranch, BranchesBranch, LcovBranch, CacheStepsBranch
     DEF Thread, _process_one
<1>2. ASSUME UNCHANGED <<covs, outcome, info, pc, branch_infos, phase, rc, cmd, html>>
      PROVE  BranchInv'
  BY <1>2 DEF BranchInv
<1>3. ASSUME NEW e \in Elfs, Rebuild(e) PROVE BranchInv'
  BY <1>2, <1>3 DEF Rebuild, files, outputs, reports, main, request, status, results,
     threads, shared
<1>4. CASE UNCHANGED vars
  BY <1>2, <1>4 DEF vars, files, outputs, reports, main, request, status, results,
     threads, shared
<1>5. ASSUME NEW c \in Commands, Start(c) PROVE BranchInv'
  <2>1. /\ branch_infos' = 0 /\ outcome' = [a \in Artifacts |-> PENDING]
        /\ covs' = _split_rtl(_collect_covs(c.given)) /\ NewThreads
        /\ phase' = "off" => rc' = 1
    BY <1>5 DEF Start
  <2>2. \A a \in ToSet(covs') : outcome'[a] # OK
    BY <2>1, CollectedAssumption DEF ToSet, OK, PENDING
  <2>3. ~HasBranches(covs', outcome', info')
    BY <2>2 DEF HasBranches, Succeeded
  <2>4. \A w \in Workers : pc'[w] = "idle"
    BY <2>1 DEF NewThreads
  <2> QED BY <2>1, <2>3, <2>4 DEF BranchInv
<1>6. CASE Kill
  <2>1. /\ UNCHANGED <<covs, outcome, info, branch_infos>>
        /\ phase' = "off" /\ rc' = 137 /\ NewThreads
    BY <1>6 DEF Kill, outputs, request, results, shared
  <2>2. \A w \in Workers : pc'[w] = "idle"
    BY <2>1 DEF NewThreads
  <2> QED BY <2>1, <2>2 DEF BranchInv
<1> QED BY <1>1, <1>3, <1>4, <1>5, <1>6, MainBranch DEF Next

(* A report that ends with status 0 shows branch columns exactly when some *)
(* result in the aggregate has branch data, however the threads raised the *)
(* counter, and also when another artifact had no profile (branch_infos).  *)
THEOREM BranchesShownCorrect == NoPatterns => (Spec => []BranchesShown)
<1> SUFFICES ASSUME NoPatterns PROVE Spec => []BranchesShown
  OBVIOUS
<1>1. Init => MergeInv
  BY DEF Init, MergeInv
<1>2. JobInv /\ MergeInv /\ [Next]_vars => MergeInv'
  BY MergeInvNext
<1>3. MergeInv /\ BranchInv => BranchesShown
  <2> SUFFICES ASSUME MergeInv, BranchInv, phase = "off", rc = 0, cmd.html
               PROVE  html.shown = (\E f \in DOMAIN aggregate.infos :
                                      aggregate.infos[f].info.br # None)
    BY DEF BranchesShown
  <2>1. aggregate.infos = MergedInfos(covs, outcome, info)
    BY DEF MergeInv
  <2>2. /\ DOMAIN aggregate.infos = Contributed(covs, outcome)
        /\ \A f \in DOMAIN aggregate.infos : aggregate.infos[f].info = info[f]
    BY <2>1 DEF MergedInfos
  <2>3. HasBranches(covs, outcome, info) =
          \E f \in DOMAIN aggregate.infos : aggregate.infos[f].info.br # None
    BY <2>2 DEF HasBranches, Contributed
  <2> QED BY <2>3 DEF BranchInv
<1> QED BY <1>1, <1>2, <1>3, JobInvInit, JobInvNext, CacheInvInit, CacheInvNext,
           BranchInvInit, BranchInvNext, PTL DEF Spec

-----------------------------------------------------------------------------
(***************************************************************************)
(* What tcgcov report prints, for every set of artifacts, threads and      *)
(* command lines.                                                          *)
(*                                                                         *)
(* First, sequences of lines: which of them occur never and which once in  *)
(* a concatenation (FlattenSeq of SequencesExt).                           *)
(***************************************************************************)

Never(s, L) == \A i \in DOMAIN s : s[i] \notin L
Once(s, L)  == \E i \in DOMAIN s : \A j \in DOMAIN s : s[j] \in L <=> j = i

LEMMA Counted ==
  ASSUME NEW s, NEW L
  PROVE  /\ Once(s, L) => Cardinality({i \in DOMAIN s : s[i] \in L}) = 1
         /\ Never(s, L) => Cardinality({i \in DOMAIN s : s[i] \in L}) = 0
<1>1. ASSUME NEW i \in DOMAIN s, \A j \in DOMAIN s : s[j] \in L <=> j = i
      PROVE  Cardinality({j \in DOMAIN s : s[j] \in L}) = 1
  <2>1. \A j : j \in {k \in DOMAIN s : s[k] \in L} <=> j = i
    BY <1>1
  <2>2. {k \in DOMAIN s : s[k] \in L} = {i}
    BY <2>1
  <2> QED BY <2>2, FS_Singleton
<1>2. ASSUME Never(s, L)
      PROVE  Cardinality({j \in DOMAIN s : s[j] \in L}) = 0
  <2>1. {k \in DOMAIN s : s[k] \in L} = {}
    BY <1>2 DEF Never
  <2> QED BY <2>1, FS_EmptySet
<1> QED BY <1>1, <1>2 DEF Once

LEMMA NeverBoth ==
  ASSUME NEW S, NEW s \in Seq(S), NEW t \in Seq(S), NEW L, Never(s, L), Never(t, L)
  PROVE  Never(s \o t, L)
BY Concatenated DEF Never

LEMMA OnceLeft ==
  ASSUME NEW S, NEW s \in Seq(S), NEW t \in Seq(S), NEW L, Once(s, L), Never(t, L)
  PROVE  Once(s \o t, L)
<1>1. PICK i \in DOMAIN s : \A j \in DOMAIN s : s[j] \in L <=> j = i
  BY DEF Once
<1>2. ASSUME NEW j \in DOMAIN (s \o t)
      PROVE  (s \o t)[j] \in L <=> j = i
  <2>1. CASE j \in DOMAIN s
    BY <1>1, <2>1, Concatenated
  <2>2. CASE j - Len(s) \in DOMAIN t /\ j = Len(s) + (j - Len(s))
    <3>1. (s \o t)[j] = t[j - Len(s)]
      BY <2>2, Concatenated
    <3>2. j # i
      BY <1>1, <2>2
    <3> QED BY <2>2, <3>1, <3>2 DEF Never
  <2> QED BY <2>1, <2>2, Concatenated
<1>3. i \in DOMAIN (s \o t)
  BY <1>1, Concatenated
<1> QED BY <1>2, <1>3 DEF Once

LEMMA OnceRight ==
  ASSUME NEW S, NEW s \in Seq(S), NEW t \in Seq(S), NEW L, Never(s, L), Once(t, L)
  PROVE  Once(s \o t, L)
<1>1. PICK i \in DOMAIN t : \A j \in DOMAIN t : t[j] \in L <=> j = i
  BY DEF Once
<1>2. ASSUME NEW j \in DOMAIN (s \o t)
      PROVE  (s \o t)[j] \in L <=> j = Len(s) + i
  <2>1. CASE j \in DOMAIN s
    <3>1. j # Len(s) + i
      BY <1>1, <2>1
    <3> QED BY <2>1, <3>1, Concatenated DEF Never
  <2>2. CASE j - Len(s) \in DOMAIN t /\ j = Len(s) + (j - Len(s))
    <3>1. (s \o t)[j] = t[j - Len(s)]
      BY <2>2, Concatenated
    <3>2. j = Len(s) + i <=> j - Len(s) = i
      <4>1. DOMAIN t \subseteq Int /\ Len(s) \in Int /\ j \in Int
        BY <2>2, Concatenated
      <4> QED BY <1>1, <2>2, <4>1
    <3> QED BY <1>1, <2>2, <3>1, <3>2
  <2> QED BY <2>1, <2>2, Concatenated
<1>3. Len(s) + i \in DOMAIN (s \o t)
  BY <1>1, Concatenated
<1> QED BY <1>2, <1>3 DEF Once

OnceAt(t, n, L, k) ==
  /\ \A i \in 1 .. n : i # k => Never(t[i], L)
  /\ k \in 1 .. n => Once(t[k], L)
OnceFrom(f, n, L, k) ==
  \A m \in 1 .. n : IF k \in 1 .. m THEN Once(f[m], L) ELSE Never(f[m], L)

(* A line that occurs in the k-th sequence alone, and once there, occurs   *)
(* once in every prefix that has it.                                       *)
LEMMA PrefixOnce ==
  ASSUME NEW S, NEW t, NEW n \in Nat, NEW f, Flattening(t, n, f),
         \A i \in 1 .. n : t[i] \in Seq(S),
         NEW L, NEW k \in Nat, OnceAt(t, n, L, k)
  PROVE  OnceFrom(f, n, L, k)
<1> USE DEF OnceAt, OnceFrom
<1>a. /\ n >= 1 => f[1] = t[1]
      /\ \A m \in Nat : 1 <= m /\ m < n =>
           /\ m \in 1 .. n /\ m + 1 \in 1 .. n
           /\ f[m + 1] = f[m] \o t[m + 1]
  <2>1. Grows(t, n, f)
    BY PrefixStep
  <2> QED BY <2>1 DEF Grows
<1>b. \A m \in 1 .. n : f[m] \in Seq(S)
  BY PrefixTyped
<1> DEFINE P(m) == IF k \in 1 .. m THEN Once(f[m], L) ELSE Never(f[m], L)
           G == {m \in Nat : m \in 1 .. n => P(m)}
<1>1. 1 \in G
  <2> SUFFICES ASSUME n >= 1 PROVE P(1)
    OBVIOUS
  <2>1. f[1] = t[1] /\ 1 \in 1 .. n
    BY <1>a
  <2>2. k \in 1 .. 1 <=> k = 1
    OBVIOUS
  <2> QED BY <2>1, <2>2
<1>2. ASSUME NEW m \in Nat, 1 <= m, m < n, m \in G
      PROVE  m + 1 \in G
  <2>1. /\ f[m] \in Seq(S) /\ t[m + 1] \in Seq(S) /\ f[m + 1] = f[m] \o t[m + 1]
        /\ P(m) /\ m + 1 \in 1 .. n
    BY <1>2, <1>a, <1>b
  <2>2. CASE k = m + 1
    <3>1. Never(f[m], L) /\ Once(t[m + 1], L) /\ k \in 1 .. m + 1
      BY <2>1, <2>2
    <3>2. Once(f[m + 1], L)
      BY <2>1, <3>1, OnceRight
    <3> QED BY <3>1, <3>2
  <2>3. CASE k # m + 1
    <3>1. Never(t[m + 1], L) /\ (k \in 1 .. m + 1 <=> k \in 1 .. m)
      BY <2>1, <2>3
    <3>2. CASE k \in 1 .. m
      <4>1. Once(f[m + 1], L)
        BY <2>1, <3>1, <3>2, OnceLeft
      <4> QED BY <3>1, <3>2, <4>1
    <3>3. CASE k \notin 1 .. m
      <4>1. Never(f[m + 1], L)
        BY <2>1, <3>1, <3>3, NeverBoth
      <4> QED BY <3>1, <3>3, <4>1
    <3> QED BY <3>2, <3>3
  <2> QED BY <2>2, <2>3
<1> HIDE DEF G
<1>3. \A m \in 1 .. n : m \in G
  BY <1>1, <1>2, UpFromOne
<1> QED BY <1>3 DEF G

(* Lines that are ranked by the sequence they come from are in order.      *)
Rising(s, p) == \A i, j \in DOMAIN s : i < j => p[s[i]] <= p[s[j]]

LEMMA RisingBoth ==
  ASSUME NEW S, NEW s \in Seq(S), NEW t \in Seq(S), NEW p, NEW m \in Nat,
         Rising(s, p), \A i \in DOMAIN s : p[s[i]] \in 1 .. m,
         \A i \in DOMAIN t : p[t[i]] = m + 1
  PROVE  /\ Rising(s \o t, p)
         /\ \A i \in DOMAIN (s \o t) : p[(s \o t)[i]] \in 1 .. m + 1
<1> DEFINE u == s \o t
<1>1. \A i \in DOMAIN u :
        \/ i \in DOMAIN s /\ u[i] = s[i] /\ p[u[i]] \in 1 .. m
        \/ i \notin DOMAIN s /\ i - Len(s) \in DOMAIN t /\ p[u[i]] = m + 1
  <2> TAKE i \in DOMAIN u
  <2>1. CASE i \in DOMAIN s
    BY <2>1, Concatenated
  <2>2. CASE i \notin DOMAIN s
    <3>1. i - Len(s) \in DOMAIN t /\ u[i] = t[i - Len(s)]
      BY <2>2, Concatenated
    <3> QED BY <2>2, <3>1
  <2> QED BY <2>1, <2>2
<1>2. \A i, j \in DOMAIN u : i < j /\ j \in DOMAIN s => i \in DOMAIN s
  <2>1. DOMAIN u = 1 .. Len(u) /\ DOMAIN s = 1 .. Len(s) /\ Len(s) \in Nat
    BY Concatenated
  <2>2. Len(u) \in Nat
    BY Concatenated
  <2> HIDE DEF u
  <2> QED BY <2>1, <2>2
<1> HIDE DEF u
<1>3. \A i \in DOMAIN u : p[u[i]] \in 1 .. m + 1
  BY <1>1
<1>4. ASSUME NEW i \in DOMAIN u, NEW j \in DOMAIN u, i < j
      PROVE  p[u[i]] <= p[u[j]]
  <2>1. CASE j \in DOMAIN s
    BY <1>1, <1>2, <1>4, <2>1 DEF Rising
  <2>2. CASE j \notin DOMAIN s
    <3>1. p[u[j]] = m + 1 /\ p[u[i]] \in 1 .. m + 1
      BY <1>1, <1>3, <2>2
    <3> QED BY <3>1
  <2> QED BY <2>1, <2>2
<1> QED BY <1>3, <1>4 DEF Rising, u

Ranked(t, n, p) == \A i \in 1 .. n : \A j \in DOMAIN t[i] : p[t[i][j]] = i
RisingFrom(f, n, p) ==
  \A m \in 1 .. n : /\ Rising(f[m], p)
                    /\ \A j \in DOMAIN f[m] : p[f[m][j]] \in 1 .. m

LEMMA PrefixRising ==
  ASSUME NEW S, NEW t, NEW n \in Nat, NEW f, Flattening(t, n, f),
         \A i \in 1 .. n : t[i] \in Seq(S),
         NEW p, Ranked(t, n, p)
  PROVE  RisingFrom(f, n, p)
<1> USE DEF Ranked, RisingFrom
<1>a. /\ n >= 1 => f[1] = t[1]
      /\ \A m \in Nat : 1 <= m /\ m < n =>
           /\ m \in 1 .. n /\ m + 1 \in 1 .. n
           /\ f[m + 1] = f[m] \o t[m + 1]
  <2>1. Grows(t, n, f)
    BY PrefixStep
  <2> QED BY <2>1 DEF Grows
<1>b. \A m \in 1 .. n : f[m] \in Seq(S)
  BY PrefixTyped
<1> DEFINE P(m) == /\ Rising(f[m], p)
                   /\ \A j \in DOMAIN f[m] : p[f[m][j]] \in 1 .. m
           G == {m \in Nat : m \in 1 .. n => P(m)}
<1>1. 1 \in G
  <2> SUFFICES ASSUME n >= 1 PROVE P(1)
    OBVIOUS
  <2>1. f[1] = t[1] /\ 1 \in 1 .. n
    BY <1>a
  <2>2. \A j \in DOMAIN f[1] : p[f[1][j]] = 1
    BY <2>1
  <2> QED BY <2>2 DEF Rising
<1>2. ASSUME NEW m \in Nat, 1 <= m, m < n, m \in G
      PROVE  m + 1 \in G
  <2>1. /\ f[m] \in Seq(S) /\ t[m + 1] \in Seq(S) /\ f[m + 1] = f[m] \o t[m + 1]
        /\ P(m) /\ m + 1 \in 1 .. n
    BY <1>2, <1>a, <1>b
  <2>2. \A j \in DOMAIN t[m + 1] : p[t[m + 1][j]] = m + 1
    BY <2>1
  <2>3. /\ Rising(f[m] \o t[m + 1], p)
        /\ \A j \in DOMAIN (f[m] \o t[m + 1]) :
             p[(f[m] \o t[m + 1])[j]] \in 1 .. m + 1
    BY ONLY <1>2, <2>1, <2>2, RisingBoth
  <2>4. P(m + 1)
    BY <2>1, <2>3
  <2> QED BY <2>4
<1> HIDE DEF G
<1>3. \A m \in 1 .. n : m \in G
  BY <1>1, <1>2, UpFromOne
<1> QED BY <1>3 DEF G

LEMMA FlattenOnce ==
  ASSUME NEW S, NEW t \in Seq(Seq(S)), NEW L, NEW k \in Nat,
         \A i \in DOMAIN t : i # k => Never(t[i], L),
         k \in DOMAIN t => Once(t[k], L)
  PROVE  IF k \in DOMAIN t THEN Once(FlattenSeq(t), L) ELSE Never(FlattenSeq(t), L)
<1>1. CASE Len(t) = 0
  <2>1. FlattenSeq(t) = <<>> /\ k \notin DOMAIN t
    BY <1>1 DEF FlattenSeq
  <2> QED BY <2>1 DEF Never
<1>2. CASE Len(t) # 0
  <2>1. /\ Len(t) \in Nat /\ Len(t) >= 1 /\ DOMAIN t = 1 .. Len(t)
        /\ \A i \in 1 .. Len(t) : t[i] \in Seq(S)
        /\ \A i \in 1 .. Len(t) : i # k => Never(t[i], L)
        /\ k \in 1 .. Len(t) => Once(t[k], L)
    BY <1>2
  <2>2. PICK f : Flattening(t, Len(t), f) /\ FlattenSeq(t) = f[Len(t)]
    BY <2>1, FlattenUnfolds
  <2> DEFINE n == Len(t)
  <2>3. /\ n \in Nat /\ Flattening(t, n, f) /\ k \in Nat
        /\ \A i \in 1 .. n : t[i] \in Seq(S)
        /\ OnceAt(t, n, L, k)
    BY <2>1, <2>2 DEF OnceAt
  <2> HIDE DEF n
  <2>4. OnceFrom(f, n, L, k)
    BY ONLY <2>3, PrefixOnce
  <2> QED BY <2>1, <2>2, <2>4 DEF OnceFrom, n
<1> QED BY <1>1, <1>2

LEMMA FlattenRising ==
  ASSUME NEW S, NEW t \in Seq(Seq(S)),
         NEW p, \A i \in DOMAIN t : \A j \in DOMAIN t[i] : p[t[i][j]] = i
  PROVE  /\ Rising(FlattenSeq(t), p)
         /\ \A j \in DOMAIN FlattenSeq(t) : p[FlattenSeq(t)[j]] \in DOMAIN t
<1>1. CASE Len(t) = 0
  <2>1. FlattenSeq(t) = <<>>
    BY <1>1 DEF FlattenSeq
  <2> QED BY <2>1 DEF Rising
<1>2. CASE Len(t) # 0
  <2>1. /\ Len(t) \in Nat /\ Len(t) >= 1 /\ DOMAIN t = 1 .. Len(t)
        /\ \A i \in 1 .. Len(t) : t[i] \in Seq(S)
        /\ \A i \in 1 .. Len(t) : \A j \in DOMAIN t[i] : p[t[i][j]] = i
    BY <1>2
  <2>2. PICK f : Flattening(t, Len(t), f) /\ FlattenSeq(t) = f[Len(t)]
    BY <2>1, FlattenUnfolds
  <2> DEFINE n == Len(t)
  <2>3. /\ n \in Nat /\ Flattening(t, n, f)
        /\ \A i \in 1 .. n : t[i] \in Seq(S)
        /\ Ranked(t, n, p)
    BY <2>1, <2>2 DEF Ranked
  <2> HIDE DEF n
  <2>4. RisingFrom(f, n, p)
    BY ONLY <2>3, PrefixRising
  <2> QED BY <2>1, <2>2, <2>4 DEF RisingFrom, n
<1> QED BY <1>1, <1>2

AllOf(S, a, b, c) == a \in Seq(S) /\ b \in Seq(S) /\ c \in Seq(S)

LEMMA Regrouped ==
  ASSUME NEW S, NEW a, NEW b, NEW c, AllOf(S, a, b, c)
  PROVE  a \o (b \o c) = (a \o b) \o c
<1>1. a \in Seq(S) /\ b \in Seq(S) /\ c \in Seq(S)
  BY DEF AllOf
<1> QED BY ONLY <1>1, ConcatAssociative

(* What is added to the last sequence that has something in it is added to *)
(* the whole.                                                              *)
LEMMA FlattenMore ==
  ASSUME NEW S, NEW t \in Seq(Seq(S)), NEW u \in Seq(Seq(S)), Len(u) = Len(t),
         NEW k \in DOMAIN t, NEW ls \in Seq(S),
         \A i \in DOMAIN t : u[i] = IF i = k THEN t[k] \o ls ELSE t[i],
         \A i \in DOMAIN t : i > k => t[i] = <<>>
  PROVE  FlattenSeq(u) = FlattenSeq(t) \o ls
<1> DEFINE n == Len(t)
<1>1. /\ n \in Nat /\ n >= 1 /\ DOMAIN t = 1 .. n /\ DOMAIN u = 1 .. n
      /\ \A i \in 1 .. n : t[i] \in Seq(S) /\ u[i] \in Seq(S)
      /\ Len(u) \in Nat /\ Len(u) >= 1
  OBVIOUS
<1>2. PICK f : Flattening(t, n, f) /\ FlattenSeq(t) = f[n]
  BY <1>1, FlattenUnfolds
<1>3. PICK g : Flattening(u, n, g) /\ FlattenSeq(u) = g[n]
  BY <1>1, FlattenUnfolds
<1> HIDE DEF n
<1>4. (\A m \in 1 .. n : f[m] \in Seq(S)) /\ \A m \in 1 .. n : g[m] \in Seq(S)
  BY ONLY <1>1, <1>2, <1>3, PrefixTyped
<1>5. /\ n >= 1 => f[1] = t[1]
      /\ \A m \in Nat : 1 <= m /\ m < n =>
           /\ m \in 1 .. n /\ m + 1 \in 1 .. n
           /\ f[m + 1] = f[m] \o t[m + 1]
  <2>1. Grows(t, n, f)
    BY ONLY <1>1, <1>2, PrefixStep
  <2> QED BY <2>1 DEF Grows
<1>6. /\ n >= 1 => g[1] = u[1]
      /\ \A m \in Nat : 1 <= m /\ m < n =>
           /\ m \in 1 .. n /\ m + 1 \in 1 .. n
           /\ g[m + 1] = g[m] \o u[m + 1]
  <2>1. Grows(u, n, g)
    BY ONLY <1>1, <1>3, PrefixStep
  <2> QED BY <2>1 DEF Grows
<1> DEFINE P(m) == g[m] = IF k <= m THEN f[m] \o ls ELSE f[m]
           G == {m \in Nat : m \in 1 .. n => P(m)}
<1>7. 1 \in G
  <2>1. 1 \in 1 .. n /\ f[1] = t[1] /\ g[1] = u[1] /\ (k <= 1 <=> k = 1)
    BY <1>1, <1>5, <1>6
  <2>2. P(1)
    BY <1>1, <2>1
  <2> QED BY <2>2
<1>8. ASSUME NEW m \in Nat, 1 <= m, m < n, m \in G
      PROVE  m + 1 \in G
  <2>1. /\ m \in 1 .. n /\ m + 1 \in 1 .. n /\ P(m)
        /\ f[m + 1] = f[m] \o t[m + 1] /\ g[m + 1] = g[m] \o u[m + 1]
    BY <1>5, <1>6, <1>8
  <2>2. /\ f[m] \in Seq(S) /\ g[m] \in Seq(S) /\ t[m + 1] \in Seq(S)
        /\ u[m + 1] = IF m + 1 = k THEN t[m + 1] \o ls ELSE t[m + 1]
    BY <1>1, <1>4, <2>1
  <2>3. CASE m + 1 = k
    <3>1. ~(k <= m) /\ k <= m + 1
      BY <2>3
    <3>2. g[m + 1] = f[m] \o (t[m + 1] \o ls)
      BY <2>1, <2>2, <2>3, <3>1
    <3>3. f[m] \o (t[m + 1] \o ls) = (f[m] \o t[m + 1]) \o ls
      <4> DEFINE a == f[m]
                 b == t[m + 1]
      <4>1. AllOf(S, a, b, ls)
        BY <2>2 DEF AllOf
      <4> HIDE DEF a, b
      <4>2. a \o (b \o ls) = (a \o b) \o ls
        BY ONLY <4>1, Regrouped, SMTT(30)
      <4> QED BY <4>2 DEF a, b
    <3>4. P(m + 1)
      BY <2>1, <3>1, <3>2, <3>3
    <3> QED BY <3>4
  <2>4. CASE k <= m
    <3>1. m + 1 # k /\ m + 1 > k /\ k <= m + 1
      BY <2>1, <2>4
    <3>2. t[m + 1] = <<>> /\ u[m + 1] = <<>>
      BY <1>1, <2>1, <2>2, <3>1
    <3>3. g[m + 1] = (f[m] \o ls) \o <<>> /\ f[m + 1] = f[m] \o <<>>
      BY <2>1, <2>4, <3>2
    <3>4. f[m] \o <<>> = f[m] /\ (f[m] \o ls) \o <<>> = f[m] \o ls
      BY <2>2
    <3>5. P(m + 1)
      BY <3>1, <3>3, <3>4
    <3> QED BY <3>5
  <2>5. CASE k > m + 1
    <3>1. ~(k <= m) /\ ~(k <= m + 1) /\ m + 1 # k
      BY <2>5
    <3>2. P(m + 1)
      BY <2>1, <2>2, <3>1
    <3> QED BY <3>2
  <2> QED BY <1>1, <2>3, <2>4, <2>5
<1> HIDE DEF G
<1>9. \A m \in 1 .. n : m \in G
  BY <1>1, <1>7, <1>8, UpFromOne
<1>10. n \in G /\ n \in 1 .. n /\ k <= n
  BY <1>1, <1>9
<1>11. P(n)
  BY <1>10 DEF G
<1> QED BY <1>2, <1>3, <1>10, <1>11

-----------------------------------------------------------------------------
(***************************************************************************)
(* The lines of a report.  Every artifact has a voice: what its thread has *)
(* said of it so far, which is in the thread's buffer, or in text once it  *)
(* is decided; and, in a serial run, on stderr after the voices of those   *)
(* before it.                                                              *)
(*                                                                         *)
(* OutInv says why a report reads the same whoever ran what: a voice ends  *)
(* with the one line that tells the outcome, and of all voices at most one *)
(* has a note, until an exception loses it.                                *)
(***************************************************************************)

Finals == {"lcov", "skipping", "error"}
Whats  == {"absent", "no profile"}
Words  == {"symbolized"} \union Finals \union Whats
Lines  == Artifacts \X Words

FinalLines      == Artifacts \X Finals
NoteLines(what) == Artifacts \X {what}

Done == {OK, SKIPPED, FAILED}
LastOf(r) == IF r = OK THEN "lcov" ELSE IF r = SKIPPED THEN "skipping" ELSE "error"

HeldBy(v, a, what) ==
  /\ Once(v[a], NoteLines(what))
  /\ \A b \in Artifacts : b # a => Never(v[b], NoteLines(what))

VoicesRight(v, s, out, n) ==
  /\ \A a \in Artifacts : /\ v[a] \in Seq(Lines)
                          /\ \A i \in DOMAIN v[a] : v[a][i][1] = a
  /\ \A a \in ToSet(s) :
       /\ out[a] = PENDING => Never(v[a], FinalLines)
       /\ out[a] \in Done => Once(v[a], {<<a, LastOf(out[a])>>})
       /\ out[a] = SKIPPED => "absent" \in n
  /\ \A what \in Whats :
       IF what \in n
       THEN \/ \E a \in ToSet(s) : out[a] = RAISED
            \/ \E a \in ToSet(s) : HeldBy(v, a, what)
       ELSE \A a \in Artifacts : Never(v[a], NoteLines(what))

(* What is said of artifact a in one step: r is its outcome if it ends, n  *)
(* and m the notes before and after.                                       *)
SpeechRight(ls, a, r, n, m) ==
  /\ ls \in Seq(Lines) /\ \A i \in DOMAIN ls : ls[i][1] = a
  /\ r = PENDING => Never(ls, FinalLines)
  /\ r \in Done => Once(ls, {<<a, LastOf(r)>>})
  /\ r = SKIPPED => "absent" \in m
  /\ n \subseteq m
  /\ \A what \in Whats :
       IF what \in m /\ what \notin n THEN Once(ls, NoteLines(what))
       ELSE Never(ls, NoteLines(what))

LEMMA FewerNever ==
  ASSUME NEW s, NEW L, NEW M, M \subseteq L, Never(s, L)
  PROVE  Never(s, M)
BY DEF Never

LEMMA Spoken ==
  ASSUME NEW v, NEW s, NEW out, NEW n, VoicesRight(v, s, out, n),
         \A b \in ToSet(s) : b \in Artifacts,
         NEW a \in ToSet(s), out[a] = PENDING,
         NEW ls, NEW r, NEW m, SpeechRight(ls, a, r, n, m),
         NEW out2, \A b \in ToSet(s) : out2[b] = IF b = a THEN r ELSE out[b],
         NEW u, \A b \in Artifacts : b # a => u[b] = v[b],
         u[a] = v[a] \o ls \/ (r = RAISED /\ u[a] = <<>>)
  PROVE  VoicesRight(u, s, out2, m)
<1>1. v[a] \in Seq(Lines) /\ ls \in Seq(Lines) /\ a \in Artifacts
  BY DEF VoicesRight, SpeechRight
<1>2. u[a] \in Seq(Lines) /\ \A i \in DOMAIN u[a] : u[a][i][1] = a
  <2>1. CASE u[a] = v[a] \o ls
    <3>1. /\ \A i \in DOMAIN v[a] : v[a][i][1] = a
          /\ \A i \in DOMAIN ls : ls[i][1] = a
      BY <1>1 DEF VoicesRight, SpeechRight
    <3>2. \A i \in DOMAIN (v[a] \o ls) :
            \/ i \in DOMAIN v[a] /\ (v[a] \o ls)[i] = v[a][i]
            \/ i - Len(v[a]) \in DOMAIN ls /\ (v[a] \o ls)[i] = ls[i - Len(v[a])]
      BY <1>1
    <3> QED BY <1>1, <2>1, <3>1, <3>2, Concatenated
  <2>2. CASE u[a] = <<>>
    BY <2>2
  <2> QED BY <2>1, <2>2
<1>3. \A L : Never(v[a], L) /\ Never(ls, L) => Never(u[a], L)
  <2> TAKE L
  <2> HAVE Never(v[a], L) /\ Never(ls, L)
  <2>1. CASE u[a] = <<>>
    BY <2>1 DEF Never
  <2>2. CASE u[a] = v[a] \o ls
    <3>1. Never(v[a] \o ls, L)
      BY <1>1, NeverBoth
    <3> QED BY <2>2, <3>1
  <2> QED BY <2>1, <2>2
<1>4. \A L : r # RAISED =>
        /\ Never(v[a], L) /\ Once(ls, L) => Once(u[a], L)
        /\ Once(v[a], L) /\ Never(ls, L) => Once(u[a], L)
  BY <1>1, OnceLeft, OnceRight
<1>5. Never(v[a], FinalLines)
  BY DEF VoicesRight
<1>6. ASSUME NEW b \in ToSet(s)
      PROVE  /\ out2[b] = PENDING => Never(u[b], FinalLines)
             /\ out2[b] \in Done => Once(u[b], {<<b, LastOf(out2[b])>>})
             /\ out2[b] = SKIPPED => "absent" \in m
  <2>1. CASE b = a
    <3>1. out2[b] = r
      BY <2>1
    <3>2. r = PENDING => Never(u[a], FinalLines)
      BY <1>3, <1>5 DEF SpeechRight
    <3>3. ASSUME r \in Done PROVE Once(u[a], {<<a, LastOf(r)>>})
      <4>1. {<<a, LastOf(r)>>} \subseteq FinalLines
        BY <1>1 DEF FinalLines, Finals, LastOf
      <4>2. Never(v[a], {<<a, LastOf(r)>>})
        BY <1>5, <4>1, FewerNever
      <4>3. r # RAISED
        BY <3>3 DEF Done, OK, SKIPPED, FAILED, RAISED
      <4> QED BY <1>4, <3>3, <4>2, <4>3 DEF SpeechRight
    <3> QED BY <2>1, <3>1, <3>2, <3>3 DEF SpeechRight
  <2>2. CASE b # a
    <3>1. out2[b] = out[b] /\ u[b] = v[b] /\ n \subseteq m
      BY <2>2 DEF SpeechRight
    <3> QED BY <3>1 DEF VoicesRight
  <2> QED BY <2>1, <2>2
<1>7. ASSUME NEW what \in Whats
      PROVE  IF what \in m
             THEN \/ \E b \in ToSet(s) : out2[b] = RAISED
                  \/ \E b \in ToSet(s) : HeldBy(u, b, what)
             ELSE \A b \in Artifacts : Never(u[b], NoteLines(what))
  <2> DEFINE L == NoteLines(what)
  <2>1. CASE what \notin m
    <3>1. what \notin n /\ Never(ls, L)
      BY <2>1 DEF SpeechRight
    <3>2. \A b \in Artifacts : Never(v[b], L)
      BY <3>1 DEF VoicesRight
    <3>3. Never(u[a], L)
      BY <1>1, <1>3, <3>1, <3>2
    <3> QED BY <2>1, <3>2, <3>3
  <2>2. CASE r = RAISED /\ what \in m
    BY <2>2
  <2>3. CASE what \in m /\ what \notin n /\ r # RAISED
    <3>1. Once(ls, L) /\ \A b \in Artifacts : Never(v[b], L)
      BY <2>3 DEF SpeechRight, VoicesRight
    <3>2. Once(u[a], L)
      BY <1>1, <1>4, <2>3, <3>1
    <3>3. HeldBy(u, a, what)
      BY <3>1, <3>2 DEF HeldBy
    <3> QED BY <2>3, <3>3
  <2>4. CASE what \in n /\ what \in m /\ r # RAISED
    <3>1. Never(ls, L)
      BY <2>4 DEF SpeechRight
    <3>2. CASE \E b \in ToSet(s) : out[b] = RAISED
      BY <2>4, <3>2 DEF RAISED, PENDING
    <3>3. ASSUME NEW b \in ToSet(s), HeldBy(v, b, what)
          PROVE  HeldBy(u, b, what)
      <4>1. Once(v[b], L) /\ \A c \in Artifacts : c # b => Never(v[c], L)
        BY <3>3 DEF HeldBy
      <4>2. CASE b = a
        <5>1. Once(u[a], L)
          BY <1>4, <2>4, <3>1, <4>1, <4>2
        <5> QED BY <4>1, <4>2, <5>1 DEF HeldBy
      <4>3. CASE b # a
        <5>1. Never(u[a], L) /\ u[b] = v[b]
          BY <1>1, <1>3, <3>1, <4>1, <4>3
        <5> QED BY <4>1, <4>3, <5>1 DEF HeldBy
      <4> QED BY <4>2, <4>3
    <3> QED BY <2>4, <3>2, <3>3 DEF VoicesRight
  <2>5. n \subseteq m
    BY DEF SpeechRight
  <2> QED BY <2>1, <2>2, <2>3, <2>4
<1>8. \A b \in Artifacts : /\ u[b] \in Seq(Lines)
                           /\ \A i \in DOMAIN u[b] : u[b][i][1] = b
  BY <1>2 DEF VoicesRight
<1> QED BY <1>6, <1>7, <1>8 DEF VoicesRight

-----------------------------------------------------------------------------
(* The voices one after the other.                                         *)

At(s, a)   == CHOOSE i \in DOMAIN s : s[i] = a
Said(s, v) == FlattenSeq([i \in DOMAIN s |-> v[s[i]]])

InOrder(lines, s, out, n) ==
  /\ lines \in Seq(Lines)
  /\ \A i, j \in DOMAIN lines : i < j => At(s, lines[i][1]) <= At(s, lines[j][1])
  /\ \A a \in ToSet(s) :
       out[a] \in Done /\ Once(lines, {<<a, LastOf(out[a])>>})
  /\ \A what \in Whats : IF what \in n THEN Once(lines, NoteLines(what))
                         ELSE Never(lines, NoteLines(what))
  /\ \A a \in ToSet(s) : out[a] = SKIPPED => "absent" \in n

Distinct(s) == /\ s \in Seq(Artifacts)
               /\ \A i, j \in DOMAIN s : s[i] = s[j] => i = j

LEMMA AtIsIndex ==
  ASSUME NEW s, Distinct(s), NEW i \in DOMAIN s
  PROVE  At(s, s[i]) = i
BY DEF Distinct, At

LEMMA SaidInOrder ==
  ASSUME NEW v, NEW s, NEW out, NEW n, VoicesRight(v, s, out, n), Distinct(s),
         \A a \in ToSet(s) : out[a] \in Done
  PROVE  InOrder(Said(s, v), s, out, n)
<1> DEFINE t == [i \in DOMAIN s |-> v[s[i]]]
           p == [l \in Lines |-> At(s, l[1])]
<1>1. /\ DOMAIN s = 1 .. Len(s) /\ Len(s) \in Nat
      /\ \A i \in DOMAIN s : s[i] \in Artifacts /\ s[i] \in ToSet(s)
  BY DEF Distinct, ToSet
<1>2. \A i \in DOMAIN s : /\ v[s[i]] \in Seq(Lines)
                          /\ \A j \in DOMAIN v[s[i]] : /\ v[s[i]][j] \in Lines
                                                       /\ v[s[i]][j][1] = s[i]
  <2> TAKE i \in DOMAIN s
  <2>1. v[s[i]] \in Seq(Lines) /\ \A j \in DOMAIN v[s[i]] : v[s[i]][j][1] = s[i]
    BY <1>1 DEF VoicesRight
  <2> QED BY <2>1
<1>3. t \in Seq(Seq(Lines)) /\ DOMAIN t = DOMAIN s /\ \A i \in DOMAIN s : t[i] = v[s[i]]
  <2>1. t \in [1 .. Len(s) -> Seq(Lines)]
    BY <1>1, <1>2
  <2> QED BY <1>1, <2>1
<1>4. Said(s, v) = FlattenSeq(t)
  BY DEF Said
<1>5. \A i \in DOMAIN t : \A j \in DOMAIN t[i] : p[t[i][j]] = i
  BY <1>2, <1>3, AtIsIndex
<1>6. \A l \in Lines : p[l] = At(s, l[1])
  OBVIOUS
<1> HIDE DEF t, p
<1>7. Rising(FlattenSeq(t), p)
  BY ONLY <1>3, <1>5, FlattenRising
<1>8. FlattenSeq(t) \in Seq(Lines)
  BY ONLY <1>3, FlattenTyped
<1>9. ASSUME NEW i \in DOMAIN FlattenSeq(t), NEW j \in DOMAIN FlattenSeq(t), i < j
      PROVE  At(s, FlattenSeq(t)[i][1]) <= At(s, FlattenSeq(t)[j][1])
  <2>1. FlattenSeq(t)[i] \in Lines /\ FlattenSeq(t)[j] \in Lines
    BY <1>8
  <2>2. p[FlattenSeq(t)[i]] <= p[FlattenSeq(t)[j]]
    BY <1>7, <1>9 DEF Rising
  <2> QED BY <1>6, <2>1, <2>2
<1>10. ASSUME NEW L, NEW k \in DOMAIN s, Once(v[s[k]], L),
              \A i \in DOMAIN s : i # k => Never(v[s[i]], L)
       PROVE  Once(FlattenSeq(t), L)
  <2>1. k \in Nat /\ k \in DOMAIN t /\ Once(t[k], L)
        /\ \A i \in DOMAIN t : i # k => Never(t[i], L)
    BY <1>1, <1>3, <1>10
  <2>2. IF k \in DOMAIN t THEN Once(FlattenSeq(t), L) ELSE Never(FlattenSeq(t), L)
    BY ONLY <1>3, <2>1, FlattenOnce
  <2> QED BY <2>1, <2>2
<1>11. ASSUME NEW L, \A i \in DOMAIN s : Never(v[s[i]], L)
       PROVE  Never(FlattenSeq(t), L)
  <2>1. 0 \in Nat /\ 0 \notin DOMAIN t /\ \A i \in DOMAIN t : i # 0 => Never(t[i], L)
    BY <1>1, <1>3, <1>11
  <2>2. IF 0 \in DOMAIN t THEN Once(FlattenSeq(t), L) ELSE Never(FlattenSeq(t), L)
    BY ONLY <1>3, <2>1, FlattenOnce
  <2> QED BY <2>1, <2>2
<1>12. ASSUME NEW a \in ToSet(s)
       PROVE  Once(FlattenSeq(t), {<<a, LastOf(out[a])>>})
  <2>1. PICK k \in DOMAIN s : a = s[k]
    BY DEF ToSet
  <2>2. Once(v[s[k]], {<<a, LastOf(out[a])>>})
    BY <2>1 DEF VoicesRight
  <2>3. ASSUME NEW i \in DOMAIN s, i # k
        PROVE  Never(v[s[i]], {<<a, LastOf(out[a])>>})
    <3>1. s[i] # a
      BY <2>1, <2>3 DEF Distinct
    <3> QED BY <1>2, <3>1 DEF Never
  <2> QED BY <1>10, <2>2, <2>3
<1>13. ASSUME NEW what \in Whats
       PROVE  IF what \in n THEN Once(FlattenSeq(t), NoteLines(what))
              ELSE Never(FlattenSeq(t), NoteLines(what))
  <2>1. CASE what \in n
    <3>1. \A a \in ToSet(s) : out[a] # RAISED
      BY DEF Done, OK, SKIPPED, FAILED, RAISED
    <3>2. PICK a \in ToSet(s) : HeldBy(v, a, what)
      BY <2>1, <3>1 DEF VoicesRight
    <3>3. PICK k \in DOMAIN s : a = s[k]
      BY DEF ToSet
    <3>4. ASSUME NEW i \in DOMAIN s, i # k
          PROVE  Never(v[s[i]], NoteLines(what))
      <4>1. s[i] # a /\ s[i] \in Artifacts
        BY <1>1, <3>3, <3>4 DEF Distinct
      <4> QED BY <3>2, <4>1 DEF HeldBy
    <3>5. Once(v[s[k]], NoteLines(what))
      BY <3>2, <3>3 DEF HeldBy
    <3> QED BY <1>10, <2>1, <3>4, <3>5
  <2>2. CASE what \notin n
    <3>1. \A i \in DOMAIN s : Never(v[s[i]], NoteLines(what))
      BY <1>1, <2>2 DEF VoicesRight
    <3> QED BY <1>11, <2>2, <3>1
  <2> QED BY <2>1, <2>2
<1>14. \A a \in ToSet(s) : out[a] = SKIPPED => "absent" \in n
  BY DEF VoicesRight
<1> QED BY <1>4, <1>8, <1>9, <1>12, <1>13, <1>14 DEF InOrder

-----------------------------------------------------------------------------
(* The invariant.                                                          *)

Telling(v) ==
  /\ VoicesRight(v, covs, outcome, notes)
  /\ \A i \in DOMAIN covs : i >= next => v[covs[i]] = <<>>
  /\ IF Serial
     THEN stderr = Said(covs, v)
     ELSE /\ \A a \in ToSet(covs) : outcome[a] # PENDING => text[a] = v[a]
          /\ \A w \in Workers : buf[w] = IF Busy(w) THEN v[job[w]] ELSE <<>>

(* A serial run is one thread, on the artifact taken last.                 *)
OneByOne ==
  Serial => \A w \in Workers : Busy(w) =>
              /\ w = 1 /\ next - 1 \in DOMAIN covs /\ job[w] = covs[next - 1]

OutInv ==
  /\ OnWorkers(buf) /\ OnArtifacts(text) /\ OneByOne
  /\ phase = "working" => \E v : Telling(v)
  /\ Printed => InOrder(stderr, covs, outcome, notes)

(* The artifact thread w has at hand: its own, or the next of the queue.   *)
AtHand(w, a) ==
  \/ Busy(w) /\ a = job[w] /\ next' = next
  \/ /\ ~Busy(w) /\ a = covs[next] /\ next' = next + 1
     /\ next <= Len(covs) /\ w <= jobs

(* Thread w says ls of artifact a, which ends with r or stays undecided.   *)
Speaks(w, a, ls, r) ==
  /\ UNCHANGED <<cmd, covs, phase>> /\ OnWorkers(buf') /\ OnArtifacts(text')
  /\ \A x \in Workers : x # w => /\ pc'[x] = pc[x] /\ job'[x] = job[x]
                                 /\ buf'[x] = buf[x]
  /\ job'[w] = a /\ (pc'[w] = "idle" <=> r # PENDING)
  /\ \A b \in ToSet(covs) : outcome'[b] = IF b = a THEN r ELSE outcome[b]
  /\ IF Serial
     THEN stderr' = stderr \o ls
     ELSE /\ buf'[w] = IF r = PENDING THEN buf[w] \o ls ELSE <<>>
          /\ \A b \in ToSet(covs) :
               text'[b] = IF b = a /\ r # PENDING
                          THEN IF r = RAISED THEN <<>> ELSE buf[w] \o ls
                          ELSE text[b]

LEMMA SerialIsOne ==
  ASSUME JobInv, NEW w \in Workers, Serial, w <= jobs
  PROVE  w = 1
<1> DEFINE all == {c.jobs : c \in Commands}
           most(n) == n \in all /\ \A c \in Commands : c.jobs <= n
<1>1. \E n : most(n)
  BY ReportAssumption
<1>2. PICK n : most(n) /\ Workers = 1 .. n
  BY <1>1, Zenon DEF Workers
<1>3. n \in Nat /\ w \in 1 .. n
  BY <1>2, ReportAssumption
<1>4. cmd.jobs \in Nat /\ Len(covs) \in Nat
  BY ReportAssumption DEF JobInv, Given
<1>5. jobs <= 1 /\ jobs \in Nat
  <2>1. \A j, l \in Nat : j = 1 \/ l = 1 =>
          /\ (IF j < l THEN j ELSE l) \in Nat
          /\ (IF j < l THEN j ELSE l) <= 1
    OBVIOUS
  <2>2. cmd.jobs = 1 \/ Len(covs) = 1
    BY DEF Serial
  <2> QED BY <1>4, <2>1, <2>2 DEF jobs
<1>6. \A j \in Nat : w <= j /\ j <= 1 => w = 1
  BY <1>3
<1> QED BY <1>5, <1>6

(* Where the artifact at hand is.                                          *)
LEMMA HandIsThere ==
  ASSUME JobInv, OneByOne, NEW w \in Workers, NEW a, AtHand(w, a)
  PROVE  /\ a \in ToSet(covs) /\ a \in Artifacts /\ outcome[a] = PENDING
         /\ \A i \in DOMAIN covs : i >= next' => i >= next /\ covs[i] # a
         /\ \A x \in Workers : x # w /\ Busy(x) => job[x] # a
         /\ Serial => /\ w = 1 /\ next' - 1 \in DOMAIN covs
                      /\ a = covs[next' - 1]
<1>1. /\ next \in Nat /\ next >= 1 /\ DOMAIN covs = 1 .. Len(covs)
      /\ Len(covs) \in Nat
      /\ \A i, j \in DOMAIN covs : covs[i] = covs[j] => i = j
      /\ \A i \in DOMAIN covs : covs[i] \in Artifacts /\ covs[i] \in ToSet(covs)
      /\ \A i \in DOMAIN covs : i >= next => outcome[covs[i]] = PENDING
  BY DEF JobInv, Given, ToSet
<1>2. \A x \in Workers : Busy(x) =>
        /\ \E i \in DOMAIN covs : i < next /\ job[x] = covs[i]
        /\ outcome[job[x]] = PENDING
        /\ \A y \in Workers : Busy(y) /\ job[y] = job[x] => y = x
  BY DEF JobInv, JobsApart
<1>3. CASE Busy(w) /\ a = job[w] /\ next' = next
  <2>1. PICK k \in DOMAIN covs : k < next /\ a = covs[k]
    BY <1>2, <1>3
  <2>2. \A i \in DOMAIN covs : i >= next => covs[i] # a
    <3> SUFFICES ASSUME NEW i \in DOMAIN covs, i >= next, covs[i] = covs[k]
                 PROVE  FALSE
      BY <2>1
    <3>1. i = k
      BY <1>1
    <3> QED BY <1>1, <2>1, <3>1
  <2>3. Serial => w = 1 /\ next - 1 \in DOMAIN covs /\ a = covs[next - 1]
    BY <1>3 DEF OneByOne
  <2>4. a \in ToSet(covs) /\ a \in Artifacts /\ outcome[a] = PENDING
    <3>1. covs[k] \in ToSet(covs) /\ covs[k] \in Artifacts
      BY <1>1, <2>1
    <3>2. outcome[job[w]] = PENDING
      BY <1>2, <1>3
    <3> QED BY <1>3, <2>1, <3>1, <3>2
  <2>5. \A x \in Workers : x # w /\ Busy(x) => job[x] # a
    BY <1>2, <1>3
  <2> QED BY <1>3, <2>2, <2>3, <2>4, <2>5
<1>4. CASE /\ ~Busy(w) /\ a = covs[next] /\ next' = next + 1
           /\ next <= Len(covs) /\ w <= jobs
  <2>1. next \in DOMAIN covs /\ next' - 1 = next
    BY <1>1, <1>4
  <2>2. \A i \in DOMAIN covs : i >= next' => i >= next /\ covs[i] # a
    <3> SUFFICES ASSUME NEW i \in DOMAIN covs, i >= next + 1
                 PROVE  i >= next /\ covs[i] # covs[next]
      BY <1>4
    <3>1. i >= next /\ i # next
      BY <1>1
    <3> QED BY <1>1, <2>1, <3>1
  <2>3. ASSUME NEW x \in Workers, Busy(x)
        PROVE  job[x] # a
    <3>1. PICK i \in DOMAIN covs : i < next /\ job[x] = covs[i]
      BY <1>2, <2>3
    <3>2. i # next
      BY <1>1, <3>1
    <3> QED BY <1>1, <1>4, <2>1, <3>1, <3>2
  <2>4. a \in ToSet(covs) /\ a \in Artifacts /\ outcome[a] = PENDING
    BY <1>1, <1>4, <2>1
  <2>5. Serial => w = 1
    BY <1>4, SerialIsOne
  <2> QED BY <1>4, <2>1, <2>2, <2>3, <2>4, <2>5
<1> QED BY <1>3, <1>4 DEF AtHand

LEMMA SpeechStep ==
  ASSUME JobInv, OutInv, NEW w \in Workers, NEW a, NEW ls, NEW r,
         phase = "working", AtHand(w, a), Speaks(w, a, ls, r),
         SpeechRight(ls, a, r, notes, notes')
  PROVE  OutInv'
<1>1. PICK v : Telling(v)
  BY DEF OutInv
<1>2. /\ a \in ToSet(covs) /\ a \in Artifacts /\ outcome[a] = PENDING
      /\ \A i \in DOMAIN covs : i >= next' => i >= next /\ covs[i] # a
      /\ \A x \in Workers : x # w /\ Busy(x) => job[x] # a
      /\ Serial => /\ w = 1 /\ next' - 1 \in DOMAIN covs
                   /\ a = covs[next' - 1]
  BY HandIsThere DEF OutInv
<1>3. \A b \in ToSet(covs) : b \in Artifacts
  BY CovsAreArtifacts DEF JobInv
<1>4. PICK u : /\ \A b \in Artifacts : b # a => u[b] = v[b]
               /\ u[a] = IF ~Serial /\ r = RAISED THEN <<>> ELSE v[a] \o ls
  <2> DEFINE lost == ~Serial /\ r = RAISED
             f == [b \in Artifacts |-> IF b # a THEN v[b]
                                       ELSE IF lost THEN <<>> ELSE v[a] \o ls]
  <2>1. /\ \A b \in Artifacts : b # a => f[b] = v[b]
        /\ f[a] = IF lost THEN <<>> ELSE v[a] \o ls
    BY <1>2
  <2> HIDE DEF f
  <2> QED BY <2>1
<1>5. (Serial' <=> Serial) /\ covs' = covs /\ phase' = "working"
  BY DEF Speaks, Serial
<1>6. VoicesRight(v, covs, outcome, notes)
      /\ \A i \in DOMAIN covs : i >= next => v[covs[i]] = <<>>
  BY <1>1 DEF Telling
<1>7. VoicesRight(u, covs, outcome', notes')
  <2>1. \A b \in ToSet(covs) : outcome'[b] = IF b = a THEN r ELSE outcome[b]
    BY DEF Speaks
  <2>2. u[a] = v[a] \o ls \/ (r = RAISED /\ u[a] = <<>>)
    BY <1>4
  <2>3. /\ a \in ToSet(covs) /\ outcome[a] = PENDING
        /\ \A b \in Artifacts : b # a => u[b] = v[b]
        /\ VoicesRight(v, covs, outcome, notes)
        /\ SpeechRight(ls, a, r, notes, notes')
    BY <1>2, <1>4, <1>6
  <2> QED BY ONLY <1>3, <2>1, <2>2, <2>3, Spoken
<1>8. \A i \in DOMAIN covs : i >= next' => u[covs[i]] = <<>>
  <2> SUFFICES ASSUME NEW i \in DOMAIN covs, i >= next' PROVE u[covs[i]] = <<>>
    OBVIOUS
  <2>1. covs[i] \in Artifacts
    BY <1>3 DEF ToSet
  <2> QED BY <1>2, <1>4, <1>6, <2>1
<1>9. ASSUME Serial
      PROVE  stderr' = Said(covs, u)
  <2> DEFINE t == [i \in DOMAIN covs |-> v[covs[i]]]
             q == [i \in DOMAIN covs |-> u[covs[i]]]
             k == next' - 1
  <2>1. /\ DOMAIN covs = 1 .. Len(covs) /\ Len(covs) \in Nat
        /\ \A i \in DOMAIN covs : covs[i] \in Artifacts
        /\ \A i, j \in DOMAIN covs : covs[i] = covs[j] => i = j
        /\ next \in Nat /\ next' \in Nat
    BY DEF JobInv, Given, AtHand
  <2>2. \A i \in DOMAIN covs : v[covs[i]] \in Seq(Lines) /\ u[covs[i]] \in Seq(Lines)
    BY <1>6, <1>7, <2>1 DEF VoicesRight
  <2>3. t \in Seq(Seq(Lines)) /\ q \in Seq(Seq(Lines)) /\ Len(q) = Len(t)
    <3>1. t \in [1 .. Len(covs) -> Seq(Lines)] /\ q \in [1 .. Len(covs) -> Seq(Lines)]
      BY <2>1, <2>2
    <3> QED BY <2>1, <3>1
  <2>4. ls \in Seq(Lines)
    BY DEF SpeechRight
  <2>5. k \in DOMAIN covs /\ covs[k] = a
    BY <1>2, <1>9
  <2>6. \A i \in DOMAIN covs : q[i] = IF i = k THEN t[k] \o ls ELSE t[i]
    <3> TAKE i \in DOMAIN covs
    <3>1. CASE i = k
      <4>1. u[a] = v[a] \o ls
        BY <1>4, <1>9
      <4> QED BY <2>5, <3>1, <4>1
    <3>2. CASE i # k
      <4>1. covs[i] # a /\ covs[i] \in Artifacts
        BY <2>1, <2>5, <3>2
      <4> QED BY <1>4, <3>2, <4>1
    <3> QED BY <3>1, <3>2
  <2>7. \A i \in DOMAIN covs : i > k => t[i] = <<>>
    <3> SUFFICES ASSUME NEW i \in DOMAIN covs, i > k PROVE v[covs[i]] = <<>>
      OBVIOUS
    <3>1. i >= next'
      BY <2>1
    <3> QED BY <1>2, <1>6, <3>1
  <2>8. DOMAIN t = DOMAIN covs
    OBVIOUS
  <2>9. Said(covs, v) = FlattenSeq(t) /\ Said(covs, u) = FlattenSeq(q)
    BY DEF Said
  <2> HIDE DEF t, q, k
  <2>10. k \in DOMAIN t /\ (\A i \in DOMAIN t : q[i] = IF i = k THEN t[k] \o ls ELSE t[i])
         /\ \A i \in DOMAIN t : i > k => t[i] = <<>>
    BY <2>5, <2>6, <2>7, <2>8
  <2>11. FlattenSeq(q) = FlattenSeq(t) \o ls
    BY ONLY <2>3, <2>4, <2>10, FlattenMore
  <2>12. stderr = FlattenSeq(t) /\ stderr' = stderr \o ls
    BY <1>1, <1>9, <2>9 DEF Telling, Speaks
  <2> QED BY <2>9, <2>11, <2>12
<1>10. ASSUME ~Serial
       PROVE  /\ \A b \in ToSet(covs) : outcome'[b] # PENDING => text'[b] = u[b]
              /\ \A x \in Workers :
                   buf'[x] = IF pc'[x] # "idle" THEN u[job'[x]] ELSE <<>>
  <2>1. /\ \A b \in ToSet(covs) : outcome[b] # PENDING => text[b] = v[b]
        /\ \A x \in Workers : buf[x] = IF Busy(x) THEN v[job[x]] ELSE <<>>
    BY <1>1, <1>10 DEF Telling
  <2>2. buf[w] = v[a]
    <3>1. CASE Busy(w) /\ a = job[w]
      BY <2>1, <3>1
    <3>2. CASE ~Busy(w) /\ a = covs[next] /\ next <= Len(covs)
      <4>1. next \in DOMAIN covs
        BY <3>2 DEF JobInv, Given
      <4>2. next >= next
        BY DEF JobInv, Given
      <4> QED BY <1>6, <2>1, <3>2, <4>1, <4>2
    <3> QED BY <3>1, <3>2 DEF AtHand
  <2>3. ASSUME NEW b \in ToSet(covs), outcome'[b] # PENDING
        PROVE  text'[b] = u[b]
    <3>1. CASE b = a
      <4>1. r # PENDING
        BY <2>3, <3>1 DEF Speaks
      <4>2. text'[a] = IF r = RAISED THEN <<>> ELSE buf[w] \o ls
        BY <1>2, <1>10, <4>1 DEF Speaks
      <4> QED BY <1>4, <1>10, <2>2, <3>1, <4>2
    <3>2. CASE b # a
      <4>1. outcome[b] # PENDING /\ text'[b] = text[b]
        BY <1>10, <2>3, <3>2 DEF Speaks
      <4> QED BY <1>3, <1>4, <2>1, <3>2, <4>1
    <3> QED BY <3>1, <3>2
  <2>4. ASSUME NEW x \in Workers
        PROVE  buf'[x] = IF pc'[x] # "idle" THEN u[job'[x]] ELSE <<>>
    <3>1. CASE x = w
      <4>1. /\ job'[w] = a /\ (pc'[w] = "idle" <=> r # PENDING)
            /\ buf'[w] = IF r = PENDING THEN buf[w] \o ls ELSE <<>>
        BY <1>10 DEF Speaks
      <4>2. r = PENDING => r # RAISED
        BY DEF PENDING, RAISED
      <4> QED BY <1>4, <2>2, <3>1, <4>1, <4>2
    <3>2. CASE x # w
      <4>1. pc'[x] = pc[x] /\ job'[x] = job[x] /\ buf'[x] = buf[x]
        BY <3>2 DEF Speaks
      <4>2. Busy(x) => job[x] # a /\ job[x] \in Artifacts
        BY <1>2, <3>2 DEF JobInv, JobsApart, Given
      <4> QED BY <1>4, <2>1, <4>1, <4>2 DEF Busy
    <3> QED BY <3>1, <3>2
  <2> QED BY <2>3, <2>4
<1>11. Telling(u)'
  BY <1>5, <1>7, <1>8, <1>9, <1>10 DEF Telling, Busy
<1>12. OneByOne'
  <2> SUFFICES ASSUME Serial, NEW x \in Workers, pc'[x] # "idle"
               PROVE  x = 1 /\ next' - 1 \in DOMAIN covs /\ job'[x] = covs[next' - 1]
    BY <1>5 DEF OneByOne, Busy
  <2>1. w = 1 /\ next' - 1 \in DOMAIN covs /\ a = covs[next' - 1]
    BY <1>2
  <2>2. CASE x = w
    BY <2>1, <2>2 DEF Speaks
  <2>3. CASE x # w
    <3>1. Busy(x) /\ job'[x] = job[x]
      BY <2>3 DEF Speaks, Busy
    <3>2. x = 1
      BY <3>1 DEF OutInv, OneByOne
    <3> QED BY <2>1, <2>3, <3>2
  <2> QED BY <2>2, <2>3
<1>13. ~Printed'
  BY <1>5 DEF Printed
<1>14. OnWorkers(buf') /\ OnArtifacts(text')
  BY DEF Speaks
<1> QED BY <1>11, <1>12, <1>13, <1>14 DEF OutInv

-----------------------------------------------------------------------------
(* What a thread says.                                                     *)

LEMMA OneLine ==
  ASSUME NEW a \in Artifacts, NEW x \in Words
  PROVE  /\ <<<<a, x>>>> \in Seq(Lines)
         /\ \A i \in DOMAIN <<<<a, x>>>> : <<<<a, x>>>>[i][1] = a
         /\ \A L : IF <<a, x>> \in L THEN Once(<<<<a, x>>>>, L)
                   ELSE Never(<<<<a, x>>>>, L)
<1>1. <<a, x>> \in Lines
  BY DEF Lines
<1> DEFINE l == <<a, x>>
<1>2. l[1] = a
  OBVIOUS
<1> HIDE DEF l
<1>3. DOMAIN <<l>> = {1} /\ <<l>>[1] = l
  OBVIOUS
<1>4. \A L : IF l \in L THEN Once(<<l>>, L) ELSE Never(<<l>>, L)
  BY <1>3 DEF Once, Never
<1>5. \A i \in DOMAIN <<l>> : <<l>>[i][1] = a
  BY <1>2, <1>3
<1>6. <<l>> \in Seq(Lines)
  BY <1>1 DEF l
<1> QED BY <1>4, <1>5, <1>6 DEF l

LEMMA SilenceRight ==
  ASSUME NEW a, NEW n, NEW r \in {PENDING, RAISED}
  PROVE  SpeechRight(<<>>, a, r, n, n)
<1>1. \A L : Never(<<>>, L)
  BY DEF Never
<1>2. r \notin Done /\ r # SKIPPED
  BY DEF Done, OK, SKIPPED, FAILED, PENDING, RAISED
<1> QED BY <1>1, <1>2 DEF SpeechRight

LEMMA LineRight ==
  ASSUME NEW a \in Artifacts, NEW n, NEW r, NEW x,
         \/ r = PENDING /\ x = "symbolized"
         \/ r = OK /\ x = "lcov"
         \/ r = FAILED /\ x = "error"
  PROVE  SpeechRight(<<<<a, x>>>>, a, r, n, n)
<1>1. x \in Words /\ \A what \in Whats : x # what
  BY DEF Words, Finals, Whats
<1>2. \A what \in Whats : <<a, x>> \notin NoteLines(what)
  BY <1>1 DEF NoteLines
<1>3. r = PENDING => <<a, x>> \notin FinalLines
  BY DEF FinalLines, Finals, PENDING, OK, FAILED
<1>4. r \in Done => <<a, x>> \in {<<a, LastOf(r)>>}
  BY DEF Done, LastOf, PENDING, OK, SKIPPED, FAILED
<1>5. r # SKIPPED
  BY DEF PENDING, OK, SKIPPED, FAILED
<1> DEFINE ls == <<<<a, x>>>>
<1>6. /\ ls \in Seq(Lines)
      /\ \A i \in DOMAIN ls : ls[i][1] = a
      /\ \A L : IF <<a, x>> \in L THEN Once(ls, L) ELSE Never(ls, L)
  BY <1>1, OneLine
<1> HIDE DEF ls
<1>7. SpeechRight(ls, a, r, n, n)
  BY <1>2, <1>3, <1>4, <1>5, <1>6 DEF SpeechRight
<1> QED BY <1>7 DEF ls

(* A note, if it is the first of its kind (note_once).                     *)
LEMMA NoteRight ==
  ASSUME NEW a \in Artifacts, NEW what \in Whats
  PROVE  LET ls == note_once(a, what) IN
         /\ SpeechRight(ls, a, PENDING, notes, notes \union {what})
         /\ Never(ls, FinalLines)
<1> DEFINE ls == note_once(a, what)
           m == notes \union {what}
<1>1. what \in Words /\ PENDING \notin Done /\ PENDING # SKIPPED
  BY DEF Words, Done, OK, SKIPPED, FAILED, PENDING
<1>2. <<a, what>> \notin FinalLines
  BY DEF FinalLines, Finals, Whats
<1>3. \A x \in Whats : <<a, what>> \in NoteLines(x) <=> x = what
  BY DEF NoteLines
<1>4. CASE what \in notes
  <2>1. ls = <<>> /\ m = notes
    BY <1>4 DEF note_once
  <2>2. Never(<<>>, FinalLines) /\ SpeechRight(<<>>, a, PENDING, notes, notes)
    BY SilenceRight DEF Never
  <2> HIDE DEF ls, m
  <2>3. Never(ls, FinalLines) /\ SpeechRight(ls, a, PENDING, notes, m)
    BY <2>1, <2>2
  <2> QED BY <2>3 DEF ls, m
<1>5. CASE what \notin notes
  <2>1. /\ ls = <<<<a, what>>>>
        /\ \A x : x \in m /\ x \notin notes <=> x = what
        /\ notes \subseteq m
    BY <1>5 DEF note_once
  <2>2. /\ ls \in Seq(Lines)
        /\ \A i \in DOMAIN ls : ls[i][1] = a
        /\ \A L : IF <<a, what>> \in L THEN Once(ls, L) ELSE Never(ls, L)
    BY <1>1, <2>1, OneLine
  <2> HIDE DEF ls, m
  <2>3. Never(ls, FinalLines)
    BY <1>2, <2>2
  <2>4. \A x \in Whats : IF x \in m /\ x \notin notes THEN Once(ls, NoteLines(x))
                         ELSE Never(ls, NoteLines(x))
    BY <1>3, <2>1, <2>2
  <2>5. SpeechRight(ls, a, PENDING, notes, m)
    BY <1>1, <2>1, <2>2, <2>3, <2>4 DEF SpeechRight
  <2> QED BY <2>3, <2>5 DEF ls, m
<1> QED BY <1>4, <1>5

(* An artifact whose ELF is missing (Take).                                *)
LEMMA SkippingRight ==
  ASSUME NEW a \in Artifacts
  PROVE  SpeechRight(<<<<a, "skipping">>>> \o note_once(a, "absent"), a, SKIPPED,
                     notes, notes \union {"absent"})
<1> DEFINE one == <<<<a, "skipping">>>>
           two == note_once(a, "absent")
           ls == one \o two
           m == notes \union {"absent"}
<1>1. "absent" \in Whats /\ "skipping" \in Words /\ "absent" \in m
  BY DEF Whats, Words, Finals
<1>2. /\ one \in Seq(Lines)
      /\ \A i \in DOMAIN one : one[i][1] = a
      /\ \A L : IF <<a, "skipping">> \in L THEN Once(one, L) ELSE Never(one, L)
  BY <1>1, OneLine
<1>3. SpeechRight(two, a, PENDING, notes, m) /\ Never(two, FinalLines)
  BY <1>1, NoteRight
<1> HIDE DEF one, two, m
<1>4. /\ two \in Seq(Lines) /\ \A i \in DOMAIN two : two[i][1] = a
      /\ notes \subseteq m
      /\ \A x \in Whats : IF x \in m /\ x \notin notes THEN Once(two, NoteLines(x))
                          ELSE Never(two, NoteLines(x))
  BY <1>3 DEF SpeechRight
<1>5. /\ ls \in Seq(Lines)
      /\ \A i \in DOMAIN ls : ls[i][1] = a
  BY <1>2, <1>4, Concatenated
<1>6. \A x \in Whats : IF x \in m /\ x \notin notes THEN Once(ls, NoteLines(x))
                       ELSE Never(ls, NoteLines(x))
  <2> TAKE x \in Whats
  <2>1. Never(one, NoteLines(x))
    <3>1. <<a, "skipping">> \notin NoteLines(x)
      BY DEF NoteLines, Whats
    <3> QED BY <1>2, <3>1
  <2>2. CASE x \in m /\ x \notin notes
    BY <1>2, <1>4, <2>1, <2>2, OnceRight
  <2>3. CASE ~(x \in m /\ x \notin notes)
    <3>1. Never(two, NoteLines(x))
      BY <1>4, <2>3
    <3> QED BY <1>2, <1>4, <2>1, <2>3, <3>1, NeverBoth
  <2> QED BY <2>2, <2>3
<1>7. Once(ls, {<<a, LastOf(SKIPPED)>>})
  <2>1. LastOf(SKIPPED) = "skipping" /\ <<a, "skipping">> \in FinalLines
    BY DEF LastOf, OK, SKIPPED, FinalLines, Finals
  <2>2. Once(one, {<<a, "skipping">>})
    BY <1>2
  <2>3. Never(two, {<<a, "skipping">>})
    BY <1>3, <2>1, FewerNever
  <2> QED BY <1>2, <1>4, <2>1, <2>2, <2>3, OnceLeft
<1>8. SKIPPED # PENDING
  BY DEF SKIPPED, PENDING
<1> HIDE DEF ls
<1>9. SpeechRight(ls, a, SKIPPED, notes, m)
  BY <1>1, <1>4, <1>5, <1>6, <1>7, <1>8 DEF SpeechRight, m
<1> QED BY <1>9 DEF ls, one, two, m

-----------------------------------------------------------------------------
(* The steps of a thread.                                                  *)

LEMMA ToVoid ==
  ASSUME NEW S, NEW x \in Seq(S)
  PROVE  x \o <<>> = x
OBVIOUS

(* What is on stderr and in the buffers are lines.                         *)
LEMMA LinesOut ==
  ASSUME JobInv, OutInv, phase = "working"
  PROVE  /\ Serial => stderr \in Seq(Lines)
         /\ ~Serial => \A w \in Workers : buf[w] \in Seq(Lines)
<1>1. PICK v : Telling(v)
  BY DEF OutInv
<1>2. \A a \in Artifacts : v[a] \in Seq(Lines)
  BY <1>1 DEF Telling, VoicesRight
<1>3. ASSUME Serial PROVE stderr \in Seq(Lines)
  <2> DEFINE t == [i \in DOMAIN covs |-> v[covs[i]]]
  <2>1. DOMAIN covs = 1 .. Len(covs) /\ Len(covs) \in Nat
        /\ \A i \in DOMAIN covs : covs[i] \in Artifacts
    BY DEF JobInv, Given
  <2>2. t \in [1 .. Len(covs) -> Seq(Lines)]
    BY <1>2, <2>1
  <2>3. t \in Seq(Seq(Lines))
    BY <2>1, <2>2
  <2>4. stderr = FlattenSeq(t)
    BY <1>1, <1>3 DEF Telling, Said
  <2> HIDE DEF t
  <2> QED BY <2>3, <2>4, FlattenTyped
<1>4. ASSUME ~Serial, NEW w \in Workers PROVE buf[w] \in Seq(Lines)
  <2>1. buf[w] = IF Busy(w) THEN v[job[w]] ELSE <<>>
    BY <1>1, <1>4 DEF Telling
  <2>2. Busy(w) => job[w] \in Artifacts
    BY DEF JobInv, JobsApart, Given
  <2>3. <<>> \in Seq(Lines)
    OBVIOUS
  <2> QED BY <1>2, <2>1, <2>2, <2>3
<1> QED BY <1>3, <1>4

(* A step that decides nothing.                                            *)
LEMMA GoOnSpeaks ==
  ASSUME JobInv, OutInv, phase = "working", NEW w \in Workers, NEW a, AtHand(w, a),
         UNCHANGED <<cmd, covs, phase, outcome, text>>,
         NEW s, s # "idle", pc' = [pc EXCEPT ![w] = s],
         job' = [job EXCEPT ![w] = a],
         NEW ls, \/ _FanOutStderr(w, ls)
                 \/ ls = <<>> /\ UNCHANGED <<stderr, buf>>
  PROVE  Speaks(w, a, ls, PENDING)
<1>1. /\ OnWorkers(pc) /\ OnWorkers(job) /\ OnWorkers(buf) /\ OnArtifacts(text)
      /\ outcome[a] = PENDING
  BY HandIsThere DEF JobInv, JobTables, OutInv
<1>2. /\ pc'[w] = s /\ job'[w] = a
      /\ \A x \in Workers : x # w => pc'[x] = pc[x] /\ job'[x] = job[x]
  BY <1>1 DEF OnWorkers
<1>3. /\ OnWorkers(buf')
      /\ \A x \in Workers : x # w => buf'[x] = buf[x]
      /\ IF Serial THEN stderr' = stderr \o ls ELSE buf'[w] = buf[w] \o ls
  <2>1. CASE _FanOutStderr(w, ls)
    BY <1>1, <2>1 DEF OnWorkers, _FanOutStderr
  <2>2. CASE ls = <<>> /\ UNCHANGED <<stderr, buf>>
    <3>1. /\ Serial => stderr \o <<>> = stderr
          /\ ~Serial => buf[w] \o <<>> = buf[w]
      BY LinesOut, ToVoid
    <3> QED BY <1>1, <2>2, <3>1
  <2> QED BY <2>1, <2>2
<1> QED BY <1>1, <1>2, <1>3 DEF Speaks

(* A step that decides.                                                    *)
LEMMA FinishSpeaks ==
  ASSUME JobInv, OutInv, phase = "working", NEW w \in Workers, NEW a, AtHand(w, a),
         UNCHANGED <<cmd, covs, phase>>, job' = [job EXCEPT ![w] = a],
         NEW r \in {OK, SKIPPED, FAILED, RAISED}, NEW ls, Finish(w, a, r, ls)
  PROVE  Speaks(w, a, ls, r)
<1>1. /\ OnWorkers(pc) /\ OnWorkers(job) /\ OnWorkers(buf) /\ OnArtifacts(text)
      /\ OnArtifacts(outcome) /\ r # PENDING /\ a \in Artifacts
      /\ \A b \in ToSet(covs) : b \in Artifacts
  BY HandIsThere, CovsAreArtifacts
     DEF JobInv, JobTables, OutInv, PENDING, OK, SKIPPED, FAILED, RAISED
<1>2. /\ pc'[w] = "idle" /\ job'[w] = a
      /\ \A x \in Workers : x # w => pc'[x] = pc[x] /\ job'[x] = job[x]
  BY <1>1 DEF OnWorkers, Finish
<1>3. /\ OnWorkers(buf') /\ buf'[w] = <<>>
      /\ \A x \in Workers : x # w => buf'[x] = buf[x]
  BY <1>1 DEF OnWorkers, Finish
<1>4. \A b \in ToSet(covs) : outcome'[b] = IF b = a THEN r ELSE outcome[b]
  BY <1>1 DEF OnArtifacts, Finish
<1>5. /\ OnArtifacts(text')
      /\ IF Serial
         THEN stderr' = stderr \o ls
         ELSE \A b \in ToSet(covs) :
                text'[b] = IF b = a THEN IF r = RAISED THEN <<>> ELSE buf[w] \o ls
                           ELSE text[b]
  <2>1. CASE Serial
    BY <1>1, <2>1 DEF Finish
  <2>2. CASE ~Serial
    <3>1. text' = [text EXCEPT ![a] = IF r = RAISED THEN <<>> ELSE buf[w] \o ls]
      BY <2>2 DEF Finish
    <3> QED BY <1>1, <2>2, <3>1 DEF OnArtifacts
  <2> QED BY <2>1, <2>2
<1> QED BY <1>1, <1>2, <1>3, <1>4, <1>5 DEF Speaks

LEMMA JobStays ==
  ASSUME JobInv, UNCHANGED <<job, next>>, NEW w \in Workers, Busy(w)
  PROVE  /\ phase = "working" /\ job' = [job EXCEPT ![w] = job[w]]
         /\ AtHand(w, job[w]) /\ job[w] \in Artifacts
<1>1. phase = "working" /\ job[w] \in Artifacts
  BY DEF JobInv, JobsApart, Given
<1>2. job' = [job EXCEPT ![w] = job[w]]
  BY DEF JobInv, JobTables, OnWorkers
<1> QED BY <1>1, <1>2 DEF AtHand

LEMMA FailOut ==
  ASSUME JobInv, OutInv, NEW w \in Workers, Busy(w), NEW call, Fails(w, call),
         UNCHANGED <<job, cmd, covs, next, phase, notes>>
  PROVE  OutInv'
<1> DEFINE a == job[w]
           ls == IF How(call) = FAILED THEN <<Line(w, "error")>> ELSE <<>>
           r == How(call)
<1>1. /\ phase = "working" /\ job' = [job EXCEPT ![w] = a]
      /\ AtHand(w, a) /\ a \in Artifacts
  BY JobStays
<1>2. r \in {FAILED, RAISED} /\ Finish(w, a, r, ls)
  BY DEF Fails
<1>3. r \in {OK, SKIPPED, FAILED, RAISED}
  BY <1>2
<1>4. SpeechRight(ls, a, r, notes, notes)
  <2>1. CASE r = FAILED
    <3>1. ls = <<<<a, "error">>>>
      BY <2>1 DEF Line
    <3>2. SpeechRight(<<<<a, "error">>>>, a, FAILED, notes, notes)
      BY <1>1, LineRight
    <3> HIDE DEF ls
    <3> QED BY <2>1, <3>1, <3>2
  <2>2. CASE r # FAILED
    <3>1. ls = <<>> /\ r = RAISED
      BY <1>2, <2>2
    <3>2. SpeechRight(<<>>, a, RAISED, notes, notes)
      BY SilenceRight
    <3> HIDE DEF ls, r
    <3> QED BY <3>1, <3>2
  <2> QED BY <2>1, <2>2
<1> HIDE DEF ls, r, a
<1>5. Speaks(w, a, ls, r)
  BY <1>1, <1>2, <1>3, FinishSpeaks
<1>6. SpeechRight(ls, a, r, notes, notes')
  BY <1>4
<1> QED BY <1>1, <1>5, <1>6, SpeechStep

LEMMA QuietOut ==
  ASSUME JobInv, OutInv, NEW w \in Workers, Busy(w), NEW s, s # "idle",
         pc' = [pc EXCEPT ![w] = s],
         UNCHANGED <<job, cmd, covs, next, phase, notes, outcome, text, stderr, buf>>
  PROVE  OutInv'
<1> DEFINE a == job[w]
<1>1. /\ phase = "working" /\ job' = [job EXCEPT ![w] = a] /\ AtHand(w, a)
  BY JobStays
<1> HIDE DEF a
<1>2. Speaks(w, a, <<>>, PENDING)
  BY <1>1, GoOnSpeaks
<1>3. SpeechRight(<<>>, a, PENDING, notes, notes')
  BY SilenceRight
<1> QED BY <1>1, <1>2, <1>3, SpeechStep

LEMMA CachesOut ==
  ASSUME JobInv, OutInv, NEW w \in Workers, disasm_for(w) \/ coverable_for(w)
  PROVE  OutInv'
<1>1. Busy(w)
  BY DEF disasm_for, coverable_for, Busy
<1>2. ASSUME NEW key, NEW b, NEW c, b # "idle", c # "idle", EnterCache(w, key, b, c)
      PROVE  OutInv'
  <2>1. /\ UNCHANGED <<job, cmd, covs, next, phase, notes, outcome, text, stderr, buf>>
        /\ \E s \in {b, c} : pc' = [pc EXCEPT ![w] = s]
    BY <1>2 DEF EnterCache, Goto, main, request, status, results, shared
  <2> QED BY <1>1, <1>2, <2>1, QuietOut
<1>3. ASSUME NEW key, NEW call, NEW x, NEW c, c # "idle",
             Build(w, key, call, x, c)
      PROVE  OutInv'
  <2>1. CASE How(call) = OK
    <3>1. /\ UNCHANGED <<job, cmd, covs, next, phase, notes, outcome, text, stderr, buf>>
          /\ pc' = [pc EXCEPT ![w] = c]
      BY <1>3, <2>1 DEF Build, Goto, main, request, status, results, shared
    <3> QED BY <1>1, <1>3, <3>1, QuietOut
  <2>2. CASE How(call) # OK
    <3>1. UNCHANGED <<job, cmd, covs, next, phase, notes>> /\ Fails(w, call)
      BY <1>3, <2>2 DEF Build, request, status, shared
    <3> QED BY <1>1, <3>1, FailOut
  <2> QED BY <2>1, <2>2
<1>4. ASSUME NEW key, NEW c, c # "idle", Save(w, key, c)
      PROVE  OutInv'
  <2>1. /\ UNCHANGED <<job, cmd, covs, next, phase, notes, outcome, text, stderr, buf>>
        /\ pc' = [pc EXCEPT ![w] = c]
    BY <1>4 DEF Save, Goto, main, request, status, results, shared
  <2> QED BY <1>1, <1>4, <2>1, QuietOut
<1> QED BY <1>2, <1>3, <1>4 DEF disasm_for, coverable_for

LEMMA SymbolizeOut ==
  ASSUME JobInv, OutInv, NEW w \in Workers, Symbolize(w)
  PROVE  OutInv'
<1> DEFINE a == job[w]
           ls == <<<<a, "symbolized">>>>
<1>1. Busy(w) /\ UNCHANGED <<job, cmd, covs, next, phase, notes>>
  BY DEF Symbolize, Busy, request, status, shared
<1>2. /\ phase = "working" /\ job' = [job EXCEPT ![w] = a]
      /\ AtHand(w, a) /\ a \in Artifacts
  BY <1>1, JobStays
<1>3. CASE How(<<"symbolize", a>>) = OK
  <2>1. /\ pc' = [pc EXCEPT ![w] = "coverable"] /\ UNCHANGED <<outcome, text>>
        /\ _FanOutStderr(w, ls)
    BY <1>3 DEF Symbolize, Goto, Line
  <2>2. SpeechRight(ls, a, PENDING, notes, notes')
    BY <1>1, <1>2, LineRight
  <2> HIDE DEF ls, a
  <2>3. Speaks(w, a, ls, PENDING)
    BY <1>1, <1>2, <2>1, GoOnSpeaks
  <2> QED BY <1>2, <2>2, <2>3, SpeechStep
<1>4. CASE How(<<"symbolize", a>>) # OK
  BY <1>1, <1>4, FailOut DEF Symbolize
<1> QED BY <1>3, <1>4

LEMMA BranchesOut ==
  ASSUME JobInv, OutInv, NEW w \in Workers, Branches(w)
  PROVE  OutInv'
<1> DEFINE a == job[w]
           call == <<"branches", a>>
           ls == note_once(a, "no profile")
<1>1. Busy(w) /\ UNCHANGED <<job, cmd, covs, next, phase>>
  BY DEF Branches, Busy, request, status
<1>2. /\ phase = "working" /\ job' = [job EXCEPT ![w] = a]
      /\ AtHand(w, a) /\ a \in Artifacts
  BY <1>1, JobStays
<1>3. CASE How(call) = OK /\ ~NoProfile
  <2>1. /\ pc' = [pc EXCEPT ![w] = "lcov_branches"]
        /\ UNCHANGED <<notes, outcome, text, stderr, buf>>
    BY <1>3 DEF Branches, Goto, results
  <2> QED BY <1>1, <2>1, QuietOut
<1>4. CASE How(call) = OK /\ NoProfile
  <2>1. /\ pc' = [pc EXCEPT ![w] = "lcov"] /\ UNCHANGED <<outcome, text>>
        /\ _FanOutStderr(w, ls) /\ notes' = notes \union {"no profile"}
    BY <1>4 DEF Branches, Goto
  <2>2. SpeechRight(ls, a, PENDING, notes, notes')
    <3>1. "no profile" \in Whats
      BY DEF Whats
    <3> QED BY <1>2, <2>1, <3>1, NoteRight
  <2> HIDE DEF ls, a
  <2>3. Speaks(w, a, ls, PENDING)
    BY <1>1, <1>2, <2>1, GoOnSpeaks
  <2> QED BY <1>2, <2>2, <2>3, SpeechStep
<1>5. CASE How(call) # OK
  <2>1. Fails(w, call) /\ UNCHANGED notes
    BY <1>5 DEF Branches, shared
  <2> QED BY <1>1, <2>1, FailOut
<1> QED BY <1>3, <1>4, <1>5

LEMMA LcovOut ==
  ASSUME JobInv, OutInv, NEW w \in Workers, Lcov(w)
  PROVE  OutInv'
<1> DEFINE a == job[w]
           ls == <<<<a, "lcov">>>>
<1>1. Busy(w) /\ UNCHANGED <<job, cmd, covs, next, phase, notes>>
  BY DEF Lcov, Busy, request, status, shared
<1>2. /\ phase = "working" /\ job' = [job EXCEPT ![w] = a]
      /\ AtHand(w, a) /\ a \in Artifacts
  BY <1>1, JobStays
<1>3. CASE How(<<"lcov", a>>) = OK
  <2>1. Finish(w, a, OK, ls)
    BY <1>3 DEF Lcov, Line
  <2>2. SpeechRight(ls, a, OK, notes, notes')
    BY <1>1, <1>2, LineRight
  <2> HIDE DEF ls, a
  <2>3. Speaks(w, a, ls, OK)
    BY <1>1, <1>2, <2>1, FinishSpeaks
  <2> QED BY <1>2, <2>2, <2>3, SpeechStep
<1>4. CASE How(<<"lcov", a>>) # OK
  BY <1>1, <1>4, FailOut DEF Lcov
<1> QED BY <1>3, <1>4

LEMMA TakeOut ==
  ASSUME JobInv, OutInv, NEW w \in Workers, Take(w)
  PROVE  OutInv'
<1> DEFINE a == covs[next]
           ls == <<<<a, "skipping">>>> \o note_once(a, "absent")
<1>1. /\ phase = "working" /\ job' = [job EXCEPT ![w] = a] /\ AtHand(w, a)
      /\ UNCHANGED <<cmd, covs, phase>>
  BY DEF Take, AtHand, Busy, request, status
<1>2. a \in Artifacts
  BY <1>1, HandIsThere DEF OutInv
<1>3. CASE Finish(w, a, SKIPPED, ls) /\ notes' = notes \union {"absent"}
  <2>1. SpeechRight(ls, a, SKIPPED, notes, notes')
    BY <1>2, <1>3, SkippingRight
  <2> HIDE DEF ls, a
  <2>2. Speaks(w, a, ls, SKIPPED)
    BY <1>1, <1>3, FinishSpeaks
  <2> QED BY <1>1, <2>1, <2>2, SpeechStep
<1>4. CASE /\ \E s \in {"disasm", "symbolize"} : pc' = [pc EXCEPT ![w] = s]
           /\ UNCHANGED <<outcome, text, stderr, buf, notes>>
  <2>1. SpeechRight(<<>>, a, PENDING, notes, notes')
    BY <1>4, SilenceRight
  <2> HIDE DEF a
  <2>2. Speaks(w, a, <<>>, PENDING)
    BY <1>1, <1>4, GoOnSpeaks
  <2> QED BY <1>1, <2>1, <2>2, SpeechStep
<1> QED BY <1>3, <1>4 DEF Take, Goto, results

-----------------------------------------------------------------------------
(* The main thread, and what begins and ends a command.                    *)

(* The threads stay where they are, and what was said stays said.          *)
LEMMA StillOut ==
  ASSUME OutInv,
         UNCHANGED <<cmd, covs, next, pc, job, buf, text, outcome, notes>>,
         phase' = "working" => phase = "working" /\ UNCHANGED stderr,
         Printed' => InOrder(stderr', covs, outcome, notes)
  PROVE  OutInv'
<1>1. Serial' <=> Serial
  BY DEF Serial
<1>2. OneByOne'
  BY <1>1 DEF OutInv, OneByOne, Busy
<1>3. ASSUME phase' = "working" PROVE \E v : Telling(v)'
  <2>1. PICK v : Telling(v)
    BY <1>3 DEF OutInv
  <2>2. Telling(v)'
    BY <1>1, <1>3, <2>1 DEF Telling, Busy
  <2> QED BY <2>2
<1> QED BY <1>2, <1>3 DEF OutInv

(* Once every artifact is decided, what was said is on stderr, or in the   *)
(* texts that the main thread prints (Conclude).                           *)
LEMMA ConcludeOut ==
  ASSUME JobInv, OutInv, Conclude
  PROVE  OutInv'
<1>1. /\ phase = "working" /\ phase' # "working"
      /\ UNCHANGED <<cmd, covs, next, pc, job, buf, text, outcome, notes>>
      /\ \A i \in DOMAIN covs : outcome[covs[i]] \notin {PENDING, RAISED}
  BY DEF Conclude, Decided, request, results, threads, shared
<1>2. PICK v : Telling(v)
  BY <1>1 DEF OutInv
<1>3. \A a \in ToSet(covs) : outcome[a] \in Done
  <2> SUFFICES ASSUME NEW i \in DOMAIN covs PROVE outcome[covs[i]] \in Done
    BY DEF ToSet
  <2>1. covs[i] \in Artifacts
    BY DEF JobInv, Given
  <2> QED BY <1>1, <2>1 DEF JobInv, JobTables, Done
<1>4. stderr' = Said(covs, v)
  <2>1. CASE Serial
    BY <1>2, <2>1 DEF Telling, Conclude
  <2>2. CASE ~Serial
    <3>1. \A i \in DOMAIN covs : text[covs[i]] = v[covs[i]]
      BY <1>1, <1>2, <2>2 DEF Telling, ToSet
    <3>2. [i \in DOMAIN covs |-> text[covs[i]]] = [i \in DOMAIN covs |-> v[covs[i]]]
      BY <3>1
    <3>3. stderr' = FlattenSeq([i \in DOMAIN covs |-> text[covs[i]]])
      BY <2>2 DEF Conclude
    <3> QED BY <3>2, <3>3 DEF Said
  <2> QED BY <2>1, <2>2
<1>5. Distinct(covs) /\ VoicesRight(v, covs, outcome, notes)
  BY <1>2 DEF Distinct, JobInv, Given, Telling
<1>6. InOrder(stderr', covs, outcome, notes)
  BY <1>3, <1>4, <1>5, SaidInOrder
<1> QED BY <1>1, <1>6, StillOut

LEMMA MainOut ==
  ASSUME JobInv, OutInv, Main
  PROVE  OutInv'
<1>1. UNCHANGED <<cmd, covs, next, pc, job, buf, text, outcome, notes>>
  BY DEF Main, Cancel, Abort, Conclude, Merge, _genhtml, request, results, threads,
     shared
<1>2. CASE Cancel
  <2>1. phase = "working" /\ phase' = "working" /\ UNCHANGED stderr
    BY <1>2 DEF Cancel, status
  <2>2. ~Printed'
    BY <2>1 DEF Printed
  <2> QED BY <1>1, <2>1, <2>2, StillOut
<1>3. CASE Abort
  <2>1. phase' = "off" /\ cancelled' = cancelled /\ cancelled
    BY <1>3 DEF Abort, results
  <2>2. ~Printed'
    BY <2>1 DEF Printed
  <2> QED BY <1>1, <2>1, <2>2, StillOut
<1>4. CASE Merge \/ _genhtml
  <2>1. /\ phase \in {"merging", "rendering"} /\ phase' # "working"
        /\ UNCHANGED stderr
    BY <1>4 DEF Merge, _genhtml, results
  <2>2. Printed
    BY <2>1 DEF Printed
  <2>3. InOrder(stderr', covs, outcome, notes)
    BY <2>1, <2>2 DEF OutInv
  <2> QED BY <1>1, <2>1, <2>3, StillOut
<1> QED BY <1>2, <1>3, <1>4, ConcludeOut DEF Main

LEMMA StartOut ==
  ASSUME JobInv, OutInv, NEW c \in Commands, Start(c), commands \in Nat
  PROVE  OutInv'
<1> DEFINE found == _collect_covs(c.given)
<1>1. /\ cmd' = c /\ covs' = _split_rtl(found) /\ commands' = commands + 1
      /\ outcome' = [a \in Artifacts |-> PENDING]
      /\ text' = [a \in Artifacts |-> <<>>]
      /\ buf' = [w \in Workers |-> <<>>] /\ stderr' = <<>> /\ notes' = {}
      /\ \A w \in Workers : pc'[w] = "idle"
      /\ UNCHANGED fate
      /\ phase' = IF found = <<>> \/ Unreadable(found) \/ Conflict(found)
                  THEN "off" ELSE "working"
  BY DEF Start, NewThreads
<1>2. covs' \in Seq(Artifacts) /\ \A a \in ToSet(covs') : a \in Artifacts
  <2>1. covs' \in Seq(Artifacts)
    BY <1>1, CollectedAssumption
  <2> QED BY <2>1 DEF ToSet
<1>3. OnWorkers(buf') /\ OnArtifacts(text') /\ OneByOne'
  BY <1>1 DEF OnWorkers, OnArtifacts, OneByOne, Busy
<1>4. \E v : Telling(v)'
  <2>1. PICK v : v = [a \in Artifacts |-> <<>>]
    OBVIOUS
  <2>2. \A a \in Artifacts : v[a] = <<>> /\ \A L : Never(v[a], L)
    BY <2>1 DEF Never
  <2>3. \A a \in ToSet(covs') : outcome'[a] = PENDING /\ text'[a] = v[a]
    BY <1>1, <1>2, <2>1
  <2>4. PENDING \notin Done /\ PENDING # SKIPPED
    BY DEF Done, OK, SKIPPED, FAILED, PENDING
  <2>5. VoicesRight(v, covs', outcome', notes')
    <3>1. \A a \in Artifacts : v[a] \in Seq(Lines) /\ DOMAIN v[a] = {}
      <4>1. <<>> \in Seq(Lines) /\ DOMAIN <<>> = {}
        OBVIOUS
      <4> QED BY <2>2, <4>1
    <3>2. \A what \in Whats : what \notin notes'
      BY <1>1
    <3> QED BY <1>2, <2>2, <2>3, <2>4, <3>1, <3>2 DEF VoicesRight
  <2>6. \A i \in DOMAIN covs' : covs'[i] \in Artifacts /\ v[covs'[i]] = <<>>
    BY <1>2, <2>2
  <2>7. Said(covs', v) = <<>>
    <3> DEFINE t == [i \in DOMAIN covs' |-> v[covs'[i]]]
    <3>1. /\ DOMAIN covs' = 1 .. Len(covs') /\ Len(covs') \in Nat
          /\ \A i \in DOMAIN covs' : t[i] = <<>>
      BY <1>2, <2>6
    <3>2. t \in [1 .. Len(covs') -> Seq({})]
      <4>1. <<>> \in Seq({})
        OBVIOUS
      <4> QED BY <3>1, <4>1
    <3>3. t \in Seq(Seq({})) /\ Said(covs', v) = FlattenSeq(t)
      BY <3>1, <3>2 DEF Said
    <3> HIDE DEF t
    <3>4. FlattenSeq(t) \in Seq({})
      BY <3>3, FlattenTyped
    <3> QED BY <3>3, <3>4
  <2>8. \A w \in Workers : buf'[w] = <<>>
    BY <1>1
  <2> QED BY <1>1, <2>3, <2>5, <2>6, <2>7, <2>8 DEF Telling, Busy
<1>5. ASSUME Printed'
      PROVE  InOrder(stderr', covs', outcome', notes')
  <2>1. phase' = "off" /\ ~Refused'
    BY <1>1, <1>5 DEF Printed
  <2>2. ~(Unreadable(found) \/ Conflict(found))
    BY <1>1, <2>1 DEF Refused, Unreadable, Conflict, How
  <2>3. found = <<>>
    BY <1>1, <2>1, <2>2
  <2>4. covs' = <<>>
    <3> HIDE DEF found
    <3>1. [i \in DOMAIN <<>> |-> Slices[<<>>[i]]] = <<>>
      OBVIOUS
    <3>2. _split_rtl(<<>>) = <<>>
      BY <3>1 DEF _split_rtl, FlattenSeq
    <3> QED BY <1>1, <2>3, <3>2
  <2>5. ToSet(covs') = {} /\ stderr' = <<>> /\ notes' = {}
    BY <1>1, <2>4 DEF ToSet
  <2>6. <<>> \in Seq(Lines) /\ DOMAIN <<>> = {}
    OBVIOUS
  <2> QED BY <2>5, <2>6 DEF InOrder, Never
<1> QED BY <1>3, <1>4, <1>5 DEF OutInv

LEMMA OutInvInit == Init => OutInv
<1> SUFFICES ASSUME Init PROVE OutInv
  OBVIOUS
<1>1. /\ buf = [w \in Workers |-> <<>>] /\ text = [a \in Artifacts |-> <<>>]
      /\ phase = "off" /\ commands = 0 /\ \A w \in Workers : pc[w] = "idle"
  BY DEF Init
<1>2. OnWorkers(buf) /\ OnArtifacts(text) /\ OneByOne
  BY <1>1 DEF OnWorkers, OnArtifacts, OneByOne, Busy
<1>3. ~Printed
  BY <1>1 DEF Printed
<1> QED BY <1>1, <1>2, <1>3 DEF OutInv

LEMMA OutInvNext == JobInv /\ StatusInv /\ OutInv /\ [Next]_vars => OutInv'
<1> SUFFICES ASSUME JobInv, StatusInv, OutInv, [Next]_vars PROVE OutInv'
  OBVIOUS
<1>1. ASSUME NEW w \in Workers, Thread(w) PROVE OutInv'
  BY <1>1, TakeOut, SymbolizeOut, BranchesOut, LcovOut, CachesOut
     DEF Thread, _process_one
<1>2. ASSUME NEW c \in Commands, Start(c) PROVE OutInv'
  <2>1. commands \in Nat
    BY DEF StatusInv, Told
  <2> QED BY <1>2, <2>1, StartOut
<1>3. CASE Kill
  <2>1. /\ UNCHANGED <<cmd, covs, next, text, outcome, notes>>
        /\ phase' = "off" /\ rc' = 137
        /\ buf' = [w \in Workers |-> <<>>] /\ \A w \in Workers : pc'[w] = "idle"
    BY <1>3 DEF Kill, NewThreads, request, results, shared
  <2>2. OnWorkers(buf') /\ OnArtifacts(text') /\ OneByOne'
    BY <2>1 DEF OutInv, OnWorkers, OnArtifacts, OneByOne, Busy
  <2>3. ~Printed'
    BY <2>1 DEF Printed
  <2> QED BY <2>1, <2>2, <2>3 DEF OutInv
<1>4. ASSUME UNCHANGED <<cmd, covs, next, pc, job, buf, text, outcome, notes, phase,
                         rc, stderr, cancelled, commands, fate>>
      PROVE  OutInv'
  <2>1. Printed' => Printed
    BY <1>4 DEF Printed, Refused, Unreadable, Conflict, How
  <2> QED BY <1>4, <2>1, StillOut DEF OutInv
<1>5. ASSUME NEW e \in Elfs, Rebuild(e) PROVE OutInv'
  BY <1>4, <1>5 DEF Rebuild, main, request, status, results, shared, threads
<1>6. CASE UNCHANGED vars
  BY <1>4, <1>6 DEF vars, main, request, status, results, shared, threads, world
<1> QED BY <1>1, <1>2, <1>3, <1>5, <1>6, MainOut DEF Next

LEMMA PrintedInOrder == JobInv /\ OutInv => OutputInOrder
<1> SUFFICES ASSUME JobInv, OutInv, Printed
             PROVE  /\ \A i, j \in DOMAIN stderr :
                         i < j => Position(stderr[i][1]) <= Position(stderr[j][1])
                    /\ \A a \in ToSet(covs) :
                         Cardinality({i \in DOMAIN stderr :
                                        stderr[i] = <<a, LastLine(a)>>}) = 1
                    /\ \A what \in {"absent", "no profile"} :
                         Cardinality({i \in DOMAIN stderr : stderr[i][2] = what}) =
                           IF what \in notes THEN 1 ELSE 0
                    /\ With(SKIPPED) # {} => "absent" \in notes
  BY DEF OutputInOrder
<1>1. InOrder(stderr, covs, outcome, notes)
  BY DEF OutInv
<1>2. \A i \in DOMAIN stderr : stderr[i] \in Lines
  BY <1>1 DEF InOrder
<1>3. \A i, j \in DOMAIN stderr :
        i < j => Position(stderr[i][1]) <= Position(stderr[j][1])
  BY <1>1 DEF InOrder, At, Position
<1>4. ASSUME NEW a \in ToSet(covs)
      PROVE  Cardinality({i \in DOMAIN stderr : stderr[i] = <<a, LastLine(a)>>}) = 1
  <2>1. LastLine(a) = LastOf(outcome[a])
    BY DEF LastLine, LastOf, OK, SKIPPED
  <2>2. Once(stderr, {<<a, LastLine(a)>>})
    BY <1>1, <2>1 DEF InOrder
  <2>3. \A i : i \in {k \in DOMAIN stderr : stderr[k] = <<a, LastLine(a)>>} <=>
               i \in {k \in DOMAIN stderr : stderr[k] \in {<<a, LastLine(a)>>}}
    OBVIOUS
  <2>4. {k \in DOMAIN stderr : stderr[k] = <<a, LastLine(a)>>} =
        {k \in DOMAIN stderr : stderr[k] \in {<<a, LastLine(a)>>}}
    BY <2>3
  <2> QED BY <2>2, <2>4, Counted
<1>5. ASSUME NEW what \in {"absent", "no profile"}
      PROVE  Cardinality({i \in DOMAIN stderr : stderr[i][2] = what}) =
               IF what \in notes THEN 1 ELSE 0
  <2>1. what \in Whats
    BY DEF Whats
  <2>2. IF what \in notes THEN Once(stderr, NoteLines(what))
        ELSE Never(stderr, NoteLines(what))
    BY <1>1, <2>1 DEF InOrder
  <2>3. \A i : i \in {k \in DOMAIN stderr : stderr[k][2] = what} <=>
               i \in {k \in DOMAIN stderr : stderr[k] \in NoteLines(what)}
    BY <1>2 DEF Lines, NoteLines
  <2> DEFINE here  == {k \in DOMAIN stderr : stderr[k][2] = what}
             noted == {k \in DOMAIN stderr : stderr[k] \in NoteLines(what)}
  <2>4. here = noted
    BY <2>3
  <2>5. what \in notes => Cardinality(noted) = 1
    BY <2>2, Counted
  <2>6. what \notin notes => Cardinality(noted) = 0
    BY <2>2, Counted
  <2>7. Cardinality(here) = IF what \in notes THEN 1 ELSE 0
    <3> HIDE DEF here, noted
    <3> QED BY <2>4, <2>5, <2>6
  <2> QED BY <2>7
<1>6. With(SKIPPED) # {} => "absent" \in notes
  BY <1>1 DEF InOrder, With
<1> QED BY <1>3, <1>4, <1>5, <1>6

(* What a command prints reads the same whichever thread ran what, and     *)
(* when: the artifacts in the order of the command line, each with the one *)
(* line that tells its outcome, and no note twice (_FanOutStderr,          *)
(* note_once, _run_all).                                                   *)
THEOREM OutputInOrderCorrect == Spec => []OutputInOrder
<1> QED BY PrintedInOrder, OutInvInit, OutInvNext, JobInvInit, JobInvNext,
           CacheInvInit, CacheInvNext, StatusInvInit, StatusInvNext, PTL DEF Spec

(* And the rendered report shows what was merged: together, what the user  *)
(* reads does not depend on the schedule.                                  *)
THEOREM OutputExactCorrect == NoPatterns => (Spec => []OutputExact)
<1> SUFFICES ASSUME NoPatterns PROVE Spec => []OutputExact
  OBVIOUS
<1>1. Spec => []BranchesShown
  BY BranchesShownCorrect
<1>2. OutputInOrder /\ BranchesShown => OutputExact
  BY DEF OutputExact
<1> QED BY <1>1, <1>2, OutputInOrderCorrect, PTL
=============================================================================
