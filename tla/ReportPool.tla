----------------------------- MODULE ReportPool -----------------------------
(***************************************************************************)
(* tcgcov report (tcgcov/report.py): a pool of threads takes artifacts     *)
(* from a queue and runs each through symbolize, coverable, branches and   *)
(* lcov; what belongs to an ELF (its disassembly and its coverable         *)
(* inventory) is built once, under a lock per file, and kept on disk for   *)
(* later commands.  The main thread collects the outcomes in input order   *)
(* and merges.                                                             *)
(*                                                                         *)
(* A behaviour is a series of commands over one --out-dir.  A command may  *)
(* be killed anywhere, and an ELF may be rebuilt between two commands.     *)
(* The sub-commands are external here: each file holds a record of what    *)
(* its producer read, and How says how a call ends.                        *)
(***************************************************************************)
EXTENDS Naturals, Sequences, FiniteSets, SequencesExt

CONSTANTS
  Artifacts,        (* .cov files, and the slices cut from RTEMS ones      *)
  Slices,           (* Slices[a]: what _split_rtl replaces a by            *)
  Recorded,         (* Recorded[a]: elf, section, and rtl for a slice this *)
                    (* run cut out of an RTEMS artifact                    *)
  Stem, Tag,        (* basename without .cov, and the crc32 of the path    *)
  Elfs, NoElf, NoSection,
  Commands,         (* command lines: given, elf, section, paths, dwarf,   *)
                    (* branches, jobs, html                                *)
  Fates,            (* which calls go wrong, and how                       *)
  GlobMatch(_, _),  (* fnmatch: does a name match another as a pattern     *)
  MaxCommands, MaxUpsets

Free == 0
Workers == 1 .. (CHOOSE n \in {c.jobs : c \in Commands} :
                   \A c \in Commands : c.jobs <= n)
None    == [none |-> TRUE]
Partial == [none |-> FALSE]
Nothing == [whole |-> FALSE, infos |-> <<>>]   (* no aggregate, or half of one *)

OK      == "ok"
SKIPPED == "skipped"
FAILED  == "failed"
RAISED  == "raised"
PENDING == "pending"

(* crc32 does not collide on the artifacts of one command.                 *)
ASSUME ReportAssumption ==
  /\ \A a, b \in Artifacts : Tag[a] = Tag[b] => a = b
  /\ \A c \in Commands : c.jobs \in Nat \ {0}
  /\ \E c \in Commands : \A d \in Commands : d.jobs <= c.jobs
  /\ \A a \in Artifacts : Slices[a] \in Seq(Artifacts)
  /\ \A a \in Artifacts : Recorded[a].elf \in Elfs \union {NoElf}
  /\ \A c \in Commands : c.elf \in Elfs \union {NoElf}

Names    == {<<Stem[a]>> : a \in Artifacts} \union
            {<<Stem[a], Tag[a]>> : a \in Artifacts}
Sections == {Recorded[a].section : a \in Artifacts} \union
            {c.section : c \in Commands}
Sigs     == {<<c.dwarf, c.paths>> : c \in Commands}
Keys     == {<<"disasm", e>> : e \in Elfs} \union
            {<<"coverable", e, s, g>> : e \in Elfs, s \in Sections, g \in Sigs}

VARIABLES
  (* the files below --out-dir *)
  cache,        (* disasm/ and coverable/, by key                          *)
  symbolized, branches, info,   (* per artifact, by output name            *)
  aggregate, html,
  (* one command: _Run and the main thread *)
  phase, cmd, covs, next, outcome, text, stderr, notes, branch_infos,
  cancelled, rc,
  (* the threads *)
  pc, job, buf, tmp, lock,
  (* the world *)
  build,        (* build[e]: how often the ELF has been rebuilt            *)
  fate, commands, kills, rebuilds,
  made          (* what was built, and how often, since the command began  *)

outputs == <<symbolized, branches, info>>
reports == <<aggregate, html>>
files   == <<cache, outputs, reports>>
request == <<cmd, covs>>
status  == <<phase, rc>>
results == <<outcome, text, stderr, cancelled>>
shared  == <<notes, branch_infos>>
main    == <<request, status, next, results, shared>>
threads == <<pc, job, buf, tmp, lock>>
world   == <<build, fate, commands, kills, rebuilds>>
vars    == <<files, main, threads, world, made>>

-----------------------------------------------------------------------------
(* The command line.                                                       *)

How(call) == IF call \in DOMAIN fate THEN fate[call] ELSE OK

(* An artifact named twice is processed once.                              *)
_collect_covs(found) ==
  FoldLeft(LAMBDA seen, a : IF Contains(seen, a) THEN seen ELSE Append(seen, a),
           <<>>, found)
_split_rtl(found) == FlattenSeq([i \in DOMAIN found |-> Slices[found[i]]])

(* So the artifacts a command works on differ.                             *)
ASSUME CollectedAssumption ==
  \A c \in Commands :
    LET s == _split_rtl(_collect_covs(c.given))
    IN /\ s \in Seq(Artifacts)
       /\ \A i, j \in DOMAIN s : s[i] = s[j] => i = j

(* Mutant: the basename alone.                                             *)
PlainBaseName(a) == <<Stem[a]>>
_base_name(a) ==
  IF \E b \in ToSet(covs) : b # a /\ Stem[b] = Stem[a]
  THEN <<Stem[a], Tag[a]>>
  ELSE <<Stem[a]>>

(* Mutant: a slice is analysed against the base image it inherited.        *)
TargetOfOptions(a) ==
  [elf |-> IF cmd.elf # NoElf THEN cmd.elf ELSE Recorded[a].elf,
   section |-> IF cmd.section # NoSection THEN cmd.section
               ELSE Recorded[a].section]
_target_of(a) ==
  IF Recorded[a].rtl
  THEN [elf |-> Recorded[a].elf, section |-> Recorded[a].section]
  ELSE TargetOfOptions(a)

Serial      == cmd.jobs = 1 \/ Len(covs) = 1
jobs        == IF cmd.jobs < Len(covs) THEN cmd.jobs ELSE Len(covs)
need_disasm == cmd.branches \/ ~cmd.dwarf

(* Mutant: the inventory is keyed by its ELF alone.                        *)
SigOfElf  == CHOOSE g \in Sigs : TRUE
sig       == <<cmd.dwarf, cmd.paths>>

disasm_key(a)    == <<"disasm", _target_of(a).elf>>
coverable_key(a) ==
  <<"coverable", _target_of(a).elf, _target_of(a).section, sig>>

-----------------------------------------------------------------------------
(* What a worker prints goes to its own buffer, and in one piece to stderr *)
(* once the artifact is done; a serial run prints directly.                *)

_FanOutStderr(w, lines) ==
  IF Serial
  THEN stderr' = stderr \o lines /\ UNCHANGED buf
  ELSE buf' = [buf EXCEPT ![w] = @ \o lines] /\ UNCHANGED stderr

Line(w, what) == <<job[w], what>>

(* Mutant: the note is printed every time.                                 *)
NoteAlways(a, what) == <<<<a, what>>>>
note_once(a, what) == IF what \in notes THEN <<>> ELSE <<<<a, what>>>>

(* _process_one returns or raises.  What was printed before an exception   *)
(* is lost with the result.                                                *)
Finish(w, a, result, lines) ==
  /\ outcome' = [outcome EXCEPT ![a] = result]
  /\ IF Serial
     THEN stderr' = stderr \o lines /\ UNCHANGED text
     ELSE /\ text' = [text EXCEPT ![a] = IF result = RAISED THEN <<>>
                                         ELSE buf[w] \o lines]
          /\ UNCHANGED stderr
  /\ buf' = [buf EXCEPT ![w] = <<>>]
  /\ cancelled' = (cancelled \/ (Serial /\ result = RAISED))
  /\ pc' = [pc EXCEPT ![w] = "idle"]

Goto(w, step) == pc' = [pc EXCEPT ![w] = step]

(* A sub-command that returns non-zero has said why; an exception has not. *)
Fails(w, call) ==
  /\ How(call) \in {FAILED, RAISED}
  /\ Finish(w, job[w], How(call),
            IF How(call) = FAILED THEN <<Line(w, "error")>> ELSE <<>>)

-----------------------------------------------------------------------------
(* run(), up to the pool; every command has its own threads and locks.     *)

Unreadable(found) ==
  \E a \in ToSet(found) : How(<<"read_metadata", a>>) = FAILED
Conflict(found) == \E a \in ToSet(found) : How(<<"split", a>>) = FAILED

NewThreads ==
  /\ pc' = [w \in Workers |-> "idle"]
  /\ job' = [w \in Workers |-> CHOOSE a \in Artifacts : TRUE]
  /\ buf' = [w \in Workers |-> <<>>]
  /\ tmp' = [w \in Workers |-> None]
  /\ lock' = [k \in Keys |-> Free]

Start(c) ==
  LET found == _collect_covs(c.given)
      fails == found = <<>> \/ Unreadable(found) \/ Conflict(found)
  IN
  /\ phase = "off" /\ commands < MaxCommands
  /\ commands' = commands + 1
  /\ cmd' = c
  /\ covs' = _split_rtl(found)
  /\ phase' = IF fails THEN "off" ELSE "working"
  /\ rc' = IF fails THEN 1 ELSE rc
  /\ next' = 1
  /\ outcome' = [a \in Artifacts |-> PENDING]
  /\ text' = [a \in Artifacts |-> <<>>]
  /\ stderr' = <<>> /\ notes' = {} /\ branch_infos' = 0
  /\ cancelled' = FALSE
  /\ made' = [k \in Keys |-> 0]
  /\ NewThreads
  /\ UNCHANGED <<files, build, fate, kills, rebuilds>>

(* A worker takes the next artifact off the pool's queue and reads which   *)
(* ELF it belongs to.                                                      *)
Take(w) ==
  LET a == covs[next]
      elf == _target_of(a).elf
      absent == elf = NoElf \/ How(<<"isfile", elf>>) = FAILED
  IN
  /\ phase = "working" /\ w <= jobs /\ pc[w] = "idle"
  /\ ~cancelled /\ next <= Len(covs)
  /\ next' = next + 1
  /\ job' = [job EXCEPT ![w] = a]
  /\ IF absent
     THEN /\ Finish(w, a, SKIPPED,
                    <<<<a, "skipping">>>> \o note_once(a, "absent"))
          /\ notes' = notes \union {"absent"}
     ELSE /\ Goto(w, IF need_disasm THEN "disasm" ELSE "symbolize")
          /\ UNCHANGED <<results, buf, notes>>
  /\ UNCHANGED <<files, request, status, branch_infos, tmp, lock, world, made>>

-----------------------------------------------------------------------------
(* The two caches.  _KeyedLocks has a lock per cache file.                 *)

(* Mutant: every call gets a lock of its own.                              *)
AcquireOwn(w, key) == TRUE
Acquire(w, key) == lock[key] = Free
Hold(w, key)    == lock' = [lock EXCEPT ![key] = w]
(* Mutant: only the path that succeeds gives the lock back.                *)
KeepOnFailure(w, key) ==
  lock' = [lock EXCEPT ![key] = IF tmp[w] = None THEN @ ELSE Free]
Release(w, key) == lock' = [lock EXCEPT ![key] = Free]

_nonempty(key) == cache[key] # None

(* with self.locks(key): the entry is there, or this worker builds it.     *)
EnterCache(w, key, build_it, go_on) ==
  /\ Acquire(w, key)
  /\ IF _nonempty(key)
     THEN Goto(w, go_on) /\ UNCHANGED lock
     ELSE Goto(w, build_it) /\ Hold(w, key)
  /\ UNCHANGED <<files, main, job, buf, tmp, world, made>>

(* The tool has run: its output is in the worker's own temporary file.     *)
(* Mutant: it writes to the entry itself.                                  *)
BuildInPlace(w, key, call, content, save) ==
  IF How(call) = OK
  THEN /\ tmp' = [tmp EXCEPT ![w] = content]
       /\ cache' = [cache EXCEPT ![key] = Partial]
       /\ Goto(w, save)
       /\ UNCHANGED <<outputs, reports, main, job, buf, lock, world, made>>
  ELSE /\ Fails(w, call) /\ Release(w, key)
       /\ UNCHANGED <<files, request, status, next, shared, job, tmp, world,
                      made>>
Build(w, key, call, content, save) ==
  IF How(call) = OK
  THEN /\ tmp' = [tmp EXCEPT ![w] = content]
       /\ Goto(w, save)
       /\ UNCHANGED <<files, main, job, buf, lock, world, made>>
  ELSE /\ Fails(w, call) /\ Release(w, key)
       /\ UNCHANGED <<files, request, status, next, shared, job, tmp, world,
                      made>>

(* os.replace of the temporary over the entry, and out of the lock.        *)
Save(w, key, go_on) ==
  /\ cache' = [cache EXCEPT ![key] = tmp[w]]
  /\ tmp' = [tmp EXCEPT ![w] = None]
  /\ made' = [made EXCEPT ![key] = @ + 1]
  /\ Release(w, key) /\ Goto(w, go_on)
  /\ UNCHANGED <<outputs, reports, main, job, buf, world>>

(* objdump -d of an ELF depends on the ELF; the inventory on the ELF, on   *)
(* one section, on the path options and, unless it reads the line table    *)
(* alone, on the disassembly it is given.                                  *)
Disassembly(a) ==
  [elf |-> _target_of(a).elf, builds |-> {build[_target_of(a).elf]}]
Inventory(a) ==
  [elf |-> _target_of(a).elf, section |-> _target_of(a).section,
   paths |-> cmd.paths, dwarf |-> cmd.dwarf,
   builds |-> {build[_target_of(a).elf]} \union
              IF cmd.dwarf THEN {} ELSE cache[disasm_key(a)].builds]

disasm_for(w) ==
  LET a == job[w] IN
  \/ pc[w] = "disasm" /\ EnterCache(w, disasm_key(a), "objdump", "symbolize")
  \/ pc[w] = "objdump" /\ Build(w, disasm_key(a), disasm_key(a),
                                Disassembly(a), "save_disasm")
  \/ pc[w] = "save_disasm" /\ Save(w, disasm_key(a), "symbolize")

coverable_for(w) ==
  LET a == job[w]
      go_on == IF cmd.branches THEN "branches" ELSE "lcov"
  IN
  \/ pc[w] = "coverable"
     /\ EnterCache(w, coverable_key(a), "inventory", go_on)
  \/ pc[w] = "inventory"
     /\ Build(w, coverable_key(a), <<"coverable", _target_of(a).elf>>,
              Inventory(a), "save_coverable")
  \/ pc[w] = "save_coverable" /\ Save(w, coverable_key(a), go_on)

-----------------------------------------------------------------------------
(* The steps that write files of the artifact's own.                       *)

Symbolize(w) ==
  LET a == job[w]
      call == <<"symbolize", a>>
  IN
  /\ pc[w] = "symbolize"
  /\ IF How(call) = OK
     THEN /\ symbolized' = [symbolized EXCEPT ![_base_name(a)] =
                [artifact |-> a, elf |-> _target_of(a).elf,
                 section |-> _target_of(a).section, paths |-> cmd.paths,
                 builds |-> {build[_target_of(a).elf]}]]
          /\ _FanOutStderr(w, <<Line(w, "symbolized")>>)
          /\ Goto(w, "coverable")
          /\ UNCHANGED <<outcome, text, cancelled>>
     ELSE Fails(w, call) /\ UNCHANGED symbolized
  /\ UNCHANGED <<cache, branches, info, reports, request, status, next, shared,
                 job, tmp, lock, world, made>>

(* branches exits 2 when the architecture has no profile: the report goes  *)
(* on without branches.  Any other failure fails the artifact.             *)
NoProfile == How(<<"profile">>) = FAILED
Branches(w) ==
  LET a == job[w]
      call == <<"branches", a>>
  IN
  /\ pc[w] = "branches"
  /\ CASE How(call) = OK /\ ~NoProfile ->
            /\ branches' = [branches EXCEPT ![_base_name(a)] =
                  [artifact |-> a, elf |-> _target_of(a).elf,
                   section |-> _target_of(a).section, paths |-> cmd.paths,
                   builds |-> cache[disasm_key(a)].builds \union
                              {build[_target_of(a).elf]}]]
            /\ branch_infos' = branch_infos + 1
            /\ Goto(w, "lcov_branches")
            /\ UNCHANGED <<results, buf, notes>>
       [] How(call) = OK /\ NoProfile ->
            /\ _FanOutStderr(w, note_once(a, "no profile"))
            /\ notes' = notes \union {"no profile"}
            /\ Goto(w, "lcov")
            /\ UNCHANGED <<branches, branch_infos, outcome, text, cancelled>>
       [] OTHER ->
            /\ Fails(w, call)
            /\ UNCHANGED <<branches, shared>>
  /\ UNCHANGED <<cache, symbolized, info, reports, request, status, next, job,
                 tmp, lock, world, made>>

Lcov(w) ==
  LET a == job[w]
      n == _base_name(a)
      call == <<"lcov", a>>
  IN
  /\ pc[w] \in {"lcov", "lcov_branches"}
  /\ IF How(call) = OK
     THEN /\ info' = [info EXCEPT ![n] =
                [sym |-> symbolized[n], cab |-> cache[coverable_key(a)],
                 br |-> IF pc[w] = "lcov" THEN None ELSE branches[n]]]
          /\ Finish(w, a, OK, <<Line(w, "lcov")>>)
     ELSE Fails(w, call) /\ UNCHANGED info
  /\ UNCHANGED <<cache, symbolized, branches, reports, request, status, next,
                 shared, job, tmp, lock, world, made>>

_process_one(w) ==
  \/ disasm_for(w) \/ Symbolize(w) \/ coverable_for(w) \/ Branches(w) \/ Lcov(w)

-----------------------------------------------------------------------------
(* The main thread: the results in input order, the verdict, the merge.    *)

AllIdle == \A w \in Workers : pc[w] = "idle"
Decided(i) == outcome[covs[i]] # PENDING

(* list(pool.map(...)) meets an exception: what no worker has begun is     *)
(* cancelled.                                                              *)
Cancel ==
  /\ phase = "working" /\ ~cancelled
  /\ \E i \in DOMAIN covs :
       /\ outcome[covs[i]] = RAISED
       /\ \A j \in 1 .. i - 1 : Decided(j) /\ outcome[covs[j]] # RAISED
  /\ cancelled' = TRUE
  /\ UNCHANGED <<files, request, status, next, outcome, text, stderr, shared,
                 threads, world, made>>

(* The pool waits for its threads before the exception leaves run().       *)
Abort ==
  /\ phase = "working" /\ cancelled /\ AllIdle
  /\ phase' = "off" /\ rc' = 1
  /\ UNCHANGED <<files, request, next, results, shared, threads, world, made>>

With(result) == {a \in ToSet(covs) : outcome[a] = result}

(* Mutant: an artifact that failed is left out of the aggregate.           *)
NothingOk == With(OK) = {}
Hopeless == With(FAILED) # {} \/ With(OK) = {}

Conclude ==
  /\ phase = "working" /\ ~cancelled
  /\ \A i \in DOMAIN covs : Decided(i) /\ outcome[covs[i]] # RAISED
  /\ IF Serial THEN UNCHANGED stderr
     ELSE stderr' = FlattenSeq([i \in DOMAIN covs |-> text[covs[i]]])
  /\ IF Hopeless
     THEN phase' = "off" /\ rc' = 1
     ELSE phase' = "merging" /\ UNCHANGED rc
  /\ UNCHANGED <<files, request, next, outcome, text, cancelled, shared, threads,
                 world, made>>

(* merge expands every path it is given with glob; a path that matches     *)
(* nothing is taken as it is.                                              *)
Expand(n) ==
  LET found == {f \in Names : info[f] # None /\ GlobMatch(n, f)}
  IN  IF found = {} THEN {n} ELSE found

Merged(f) ==
  Cardinality({a \in With(OK) : f \in Expand(_base_name(a))})

Merge ==
  /\ phase = "merging"
  /\ IF How(<<"merge">>) = OK
     THEN /\ aggregate' = [whole |-> TRUE, infos |->
                [f \in {g \in Names : Merged(g) > 0} |->
                   [times |-> Merged(f), info |-> info[f]]]]
          /\ phase' = IF cmd.html THEN "rendering" ELSE "off"
          /\ rc' = IF cmd.html THEN rc ELSE 0
     ELSE phase' = "off" /\ rc' = 1 /\ UNCHANGED aggregate
  /\ UNCHANGED <<cache, outputs, html, request, next, results, shared, threads,
                 world, made>>

(* Mutant: branch columns whenever branches were asked for.                *)
ShowAsked == cmd.branches
ShowBranches == branch_infos > 0

_genhtml ==
  /\ phase = "rendering"
  /\ phase' = "off"
  /\ IF How(<<"genhtml">>) = OK
     THEN html' = [shown |-> ShowBranches] /\ rc' = 0
     ELSE rc' = 1 /\ UNCHANGED html
  /\ UNCHANGED <<cache, outputs, aggregate, request, next, results, shared,
                 threads, world, made>>

-----------------------------------------------------------------------------
(* Bound: kills, rebuilds and failing calls of one behaviour together.     *)
Upsets == kills + rebuilds + Cardinality(DOMAIN fate)

(* The process is killed.  Its files stay as they are: a temporary has a   *)
(* name of its own, and a merge that was writing leaves half an aggregate. *)
(* (Bound: only a command that another one follows.)                       *)
Kill ==
  /\ phase # "off" /\ commands < MaxCommands
  /\ Upsets < MaxUpsets
  /\ kills' = kills + 1
  /\ phase' = "off" /\ rc' = 137
  /\ aggregate' \in {aggregate} \union
       (IF phase = "merging" THEN {Nothing} ELSE {})
  /\ NewThreads
  /\ UNCHANGED <<cache, outputs, html, request, next, results, shared, build,
                 fate, commands, rebuilds, made>>

(* The user rebuilds a program between two reports.                        *)
Rebuild(e) ==
  /\ phase = "off" /\ Upsets < MaxUpsets
  /\ rebuilds' = rebuilds + 1
  /\ build' = [build EXCEPT ![e] = @ + 1]
  /\ UNCHANGED <<files, main, threads, fate, commands, kills, made>>

Init ==
  /\ cache = [k \in Keys |-> None]
  /\ symbolized = [n \in Names |-> None]
  /\ branches = [n \in Names |-> None]
  /\ info = [n \in Names |-> None]
  /\ aggregate = Nothing /\ html = None
  /\ phase = "off" /\ cmd = (CHOOSE c \in Commands : TRUE) /\ covs = <<>> /\ next = 1
  /\ outcome = [a \in Artifacts |-> PENDING]
  /\ text = [a \in Artifacts |-> <<>>]
  /\ stderr = <<>> /\ notes = {} /\ branch_infos = 0
  /\ cancelled = FALSE /\ rc = 1
  /\ pc = [w \in Workers |-> "idle"]
  /\ job = [w \in Workers |-> CHOOSE a \in Artifacts : TRUE]
  /\ buf = [w \in Workers |-> <<>>]
  /\ tmp = [w \in Workers |-> None]
  /\ lock = [k \in Keys |-> Free]
  /\ build = [e \in Elfs |-> 0]
  /\ fate \in Fates /\ commands = 0 /\ kills = 0 /\ rebuilds = 0
  /\ made = [k \in Keys |-> 0]

Thread(w) == Take(w) \/ _process_one(w)
Main == Cancel \/ Abort \/ Conclude \/ Merge \/ _genhtml

Next ==
  \/ \E c \in Commands : Start(c)
  \/ \E w \in Workers : Thread(w)
  \/ Main
  \/ Kill
  \/ \E e \in Elfs : Rebuild(e)

(* The operating system runs every thread that can run, and the tools that *)
(* are called return.                                                      *)
Spec ==
  /\ Init /\ [][Next]_vars
  /\ \A w \in Workers : WF_vars(Thread(w))
  /\ WF_vars(Main)
=============================================================================
