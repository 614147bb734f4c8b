---------------------------- MODULE CoverageInfo ----------------------------
(***************************************************************************)
(* The source side of tcgcov: tests run on separately linked programs; the *)
(* commands coverable, lcov, merge and restrict turn their artifacts into  *)
(* .info files, by source identity (file, line), never by address.         *)
(*                                                                         *)
(* A behaviour is a campaign: the commands in any order, over files that   *)
(* earlier commands left, aggregates of aggregates included.  An .info     *)
(* file is what its records say: the DA lines, those with hits, FN and     *)
(* FNDA, and BRDA.  Path normalisation and demangling are external: Frames *)
(* gives what the symbolizer makes of an address.                          *)
(***************************************************************************)
EXTENDS ControlFlow, SequencesExt

CONSTANTS
  Elfs, Code, Symbols,   (* Code[e]: the disassembly; Symbols[e]: functions *)
  Frames,     (* Frames[e][a]: frames of an address, innermost first       *)
  Tests, ElfOf, Runs,    (* Runs[t]: executions the test may be            *)
  MaxInsns,   (* bound: MaxInsns[t], how many instructions they have       *)
  Infos,      (* names of .info files                                      *)
  Inputs,     (* sequences of such names that merge may be given           *)
  Dash,       (* the '-' of BRDA: never evaluated                          *)
  None,       (* no such file                                              *)
  MaxCommands (* bound: commands of a campaign that wrote their file       *)

(* A tool called for an ELF fails, prints nothing that parses, or works.   *)
Outcomes == {"fails", "empty", "works"}

VARIABLES
  run,         (* what each test executed                                  *)
  inventory,   (* inventory[e]: coverable .jsonl                           *)
  info,        (* the .info files there are                                *)
  commands,
  parts        (* history: the bag of what an .info file was made of       *)

vars == <<run, inventory, info, commands, parts>>

-----------------------------------------------------------------------------
(* symbolize, branches and coverable.                                      *)

FramesAt(e, a)  == ToSet(Frames[e][a])
Where(f)        == <<f.file, f.line>>
Covered(t)      == {a \in DOMAIN run[t].ran : run[t].ran[a] > 0}

(* addr2line.run: one record per line and function, with the largest count *)
(* of its instructions.  Mutant: their sum.                                *)
SumOfInsns(t, f) ==
  MapThenSumSet(LAMBDA a : run[t].ran[a],
                {a \in Covered(t) : f \in FramesAt(ElfOf[t], a)})
CountOf(t, f) ==
  Max({run[t].ran[a] : a \in {b \in Covered(t) : f \in FramesAt(ElfOf[t], b)}})
symbolize(t) ==
  {[frame |-> f, count |-> CountOf(t, f)] :
     f \in UNION {FramesAt(ElfOf[t], a) : a \in Covered(t)}}

(* Everything the executable instructions of an ELF map to: lines and the  *)
(* functions inlined there by objdump and addr2line; by the line table the *)
(* same lines, in the function of the symbol table they are inlined into.  *)
AllFrames ==
  [e \in Elfs |-> UNION {FramesAt(e, a) : a \in Addrs(Code[e])}]
DwarfFrames ==
  [e \in Elfs |->
     UNION {{[f EXCEPT !.function = Last(Frames[e][a]).function] :
               f \in FramesAt(e, a)} : a \in Addrs(Code[e])}]

(* A program is a finite listing, a frame has a line, a test executes the *)
(* instructions of its program, and some of them map to the source.        *)
ASSUME CoverageAssumption ==
  /\ \A t \in Tests : ElfOf[t] \in Elfs
  /\ \A t \in Tests : \A r \in Runs[t] :
       /\ DOMAIN r.ran \subseteq Addrs(Code[ElfOf[t]])
       /\ \A a \in DOMAIN r.ran : r.ran[a] \in Nat
  /\ \A e \in Elfs :
       /\ Code[e] \in Seq(ToSet(Code[e]))
       /\ AllFrames[e] # {}
       /\ \A a \in Addrs(Code[e]) :
            /\ Frames[e][a] \in Seq(FramesAt(e, a))
            /\ \A f \in FramesAt(e, a) :
                 {"function", "file", "line"} \subseteq DOMAIN f /\ f.line \in Nat
  /\ Inputs \subseteq Seq(Infos)

(* What a test did is an execution of its program, and '-' is no count.    *)
ASSUME ExecutionAssumption ==
  /\ Dash \notin Nat
  /\ \A e \in Elfs : Listing(Code[e])
  /\ \A t \in Tests : /\ MaxInsns[t] \in Nat
                      /\ Runs[t] \subseteq Executions(Code[ElfOf[t]], MaxInsns[t])

(* coverable.run: a denominator that failed or came out empty is refused.  *)
(* Mutant: what objdump printed is used, be it nothing.                    *)
ObjdumpRan(objdump) == objdump # "fails"
ObjdumpUsable(objdump) == objdump = "works"
Printed(e, objdump) == IF objdump = "works" THEN AllFrames[e] ELSE {}
inventory_of(e, want, objdump, dwarf) ==
  IF want # "dwarf" /\ ObjdumpUsable(objdump) THEN Printed(e, objdump)
  ELSE IF want # "objdump" /\ dwarf = "works" THEN DwarfFrames[e]
  ELSE None

(* branches: the innermost frame of an address, the source line a block is *)
(* named by, and the outcomes seen.                                        *)
Located(e, a) == a \in Addrs(Code[e]) /\ Frames[e][a] # <<>>
LineAt(e, a)  == Frames[e][a][1].line

(* Mutant: a block is named by its rank among the branches of its program. *)
Points == [e \in Elfs |-> BranchPoints(Code[e], Symbols[e])]
RankOfBlock(e, bp) == Cardinality({p \in Points[e] : p.addr < bp.addr})
block_number(e, bp) ==
  IF Located(e, bp.taken) THEN LineAt(e, bp.taken)
  ELSE IF Located(e, bp.fallthrough) THEN LineAt(e, bp.fallthrough)
  ELSE 0

Reported ==
  [e \in Elfs |-> {bp \in Points[e] : ~Indirect(bp) /\ Located(e, bp.addr)}]
BranchOf(e, bp) ==
  <<Frames[e][bp.addr][1].file, LineAt(e, bp.addr), block_number(e, bp)>>
KeyOf(e, bp, outcome) == Append(BranchOf(e, bp), outcome)

(* branches.run: one record per branch that has a target and a line.       *)
branches(t) ==
  {LET count == BranchCounts(bp, run[t].edges) IN
   [addr |-> bp.addr, branch |-> BranchOf(ElfOf[t], bp),
    taken |-> count.taken, nottaken |-> count.nottaken] : bp \in Reported[ElfOf[t]]}

-----------------------------------------------------------------------------
(* Records with one key become one record (load_branches, parse_info).     *)

(* Mutant: an unevaluated outcome counts as none taken.                    *)
DashAsZero(m, n) == (IF m = Dash THEN 0 ELSE m) + (IF n = Dash THEN 0 ELSE n)
AddTaken(m, n) == IF m = Dash THEN n ELSE IF n = Dash THEN m ELSE m + n
Add(m, n)      == m + n
Lower(m, n)    == IF m <= n THEN m ELSE n

Combine(op(_, _), f, g) ==
  [k \in DOMAIN f \union DOMAIN g |->
     IF k \notin DOMAIN g THEN f[k]
     ELSE IF k \notin DOMAIN f THEN g[k] ELSE op(f[k], g[k])]

load_branches(records) ==
  LET value(r, outcome) ==
        IF r.taken + r.nottaken = 0 THEN Dash
        ELSE IF outcome = 0 THEN r.taken ELSE r.nottaken
      one(r) == [k \in {Append(r.branch, 0), Append(r.branch, 1)} |-> value(r, k[4])]
  IN  FoldSet(LAMBDA r, sum : Combine(AddTaken, one(r), sum), <<>>, records)

(* lcov.load: the functions of a set of frames at their lowest line.       *)
FunctionLines(frames) ==
  [fn \in {<<f.file, f.function>> : f \in frames} |->
     Min({f.line : f \in {g \in frames : <<g.file, g.function>> = fn}})]

-----------------------------------------------------------------------------
(* The .info files.                                                        *)

Blank == [lines |-> {}, hits |-> <<>>, fn |-> <<>>, fnda |-> <<>>, br |-> <<>>]

(* lcov.run, with or without an inventory and branches.                    *)
Coverable(declared, covered) == declared \union covered

lcov(t, declared, with_branches) ==
  LET records == symbolize(t)
      covered == {Where(r.frame) : r \in records}
      count(x) == Max({r.count : r \in {s \in records : Where(s.frame) = x}})
      cov_fn == FunctionLines({r.frame : r \in records})
      funcs == Combine(Lower, FunctionLines(declared), cov_fn)
  IN
  [lines |-> Coverable({Where(f) : f \in declared}, covered),
   hits |-> [x \in covered |-> count(x)],
   fn |-> funcs,
   fnda |-> [fn \in DOMAIN cov_fn |-> count(<<fn[1], cov_fn[fn]>>)],
   br |-> IF with_branches THEN load_branches(branches(t)) ELSE <<>>]

(* merge.parse_info, one file added to what the files before it said.      *)
parse_info(sum, i) ==
  [lines |-> sum.lines \union i.lines,
   hits |-> Combine(Add, sum.hits, i.hits),
   fn |-> Combine(Lower, sum.fn, i.fn),
   fnda |-> Combine(Add, sum.fnda, i.fnda),
   br |-> Combine(AddTaken, sum.br, i.br)]

(* merge.run: a file that cannot be read is skipped.  sum[k] is what the   *)
(* first k inputs said.                                                    *)
Readable(inputs) == {k \in DOMAIN inputs : inputs[k] \in DOMAIN info}
merge(inputs) ==
  LET sum[k \in 0 .. Len(inputs)] ==
        IF k = 0 THEN Blank
        ELSE IF k \in Readable(inputs) THEN parse_info(sum[k - 1], info[inputs[k]])
        ELSE sum[k - 1]
  IN  sum[Len(inputs)]

(* restrict.run: what is left of i in a target's inventory.                *)
(* Mutant: branches are kept whatever line they are on.                    *)
AnyBranch(k, lines) == TRUE
KeptBranch(k, lines) == <<k[1], k[2]>> \in lines

(* Mutant: a function is kept when the line it is said to begin at is.     *)
KeptLine(i, fn, lines, target) == <<fn[1], i.fn[fn]>> \in lines

(* Mutant: every function of a file that keeps a line is kept.             *)
KeptAll(i, fn, lines, target) == fn[1] \in {x[1] : x \in lines}

KeptFunction(i, fn, lines, target) ==
  /\ fn[1] \in {x[1] : x \in lines}
  /\ fn \in {<<f.file, f.function>> : f \in target}

restrict(i, target) ==
  LET lines == i.lines \intersect {Where(f) : f \in target}
      kept == {fn \in DOMAIN i.fn : KeptFunction(i, fn, lines, target)}
  IN
  [lines |-> lines,
   hits |-> Restrict(i.hits, DOMAIN i.hits \intersect lines),
   fn |-> Restrict(i.fn, kept),
   fnda |-> Restrict(i.fnda, DOMAIN i.fnda \intersect kept),
   br |-> RestrictDomain(i.br, LAMBDA k : KeptBranch(k, lines))]

-----------------------------------------------------------------------------
(* The commands.  One that refuses writes nothing and exits with 1 or 2.   *)

Including(files, n, what) ==
  [m \in DOMAIN files \union {n} |-> IF m = n THEN what ELSE files[m]]
Writes(n, what, from) ==
  /\ info' = Including(info, n, what)
  /\ parts' = Including(parts, n, from)
  /\ commands' = commands + 1
Refuses == UNCHANGED <<info, parts, commands>>

Part(t, declared, with_branches) ==
  [test |-> t, declared |-> declared, branches |-> with_branches, targets |-> {}]
Narrowed(bag, target) ==
  LET of(part) == [part EXCEPT !.targets = @ \union {target}] IN
  [p \in {of(q) : q \in DOMAIN bag} |->
     MapThenSumSet(LAMBDA q : bag[q], {q \in DOMAIN bag : of(q) = p})]

RunCoverable(e, want, objdump, dwarf) ==
  /\ inventory_of(e, want, objdump, dwarf) # None
  /\ inventory' = [inventory EXCEPT ![e] = inventory_of(e, want, objdump, dwarf)]
  /\ commands' = commands + 1
  /\ UNCHANGED <<info, parts>>

(* symbolize, lcov and, when its file is used, branches for one test.      *)
RunLcov(t, with_inventory, with_branches, n) ==
  LET declared == IF with_inventory THEN inventory[ElfOf[t]] ELSE {} IN
  /\ IF declared = None
     THEN Refuses
     ELSE Writes(n, lcov(t, declared, with_branches),
                 SetToBag({Part(t, IF with_inventory THEN declared ELSE None,
                                with_branches)}))
  /\ UNCHANGED inventory

Gathered(inputs) ==
  LET bag[k \in 0 .. Len(inputs)] ==
        IF k = 0 THEN EmptyBag
        ELSE IF k \in Readable(inputs) THEN bag[k - 1] (+) parts[inputs[k]]
        ELSE bag[k - 1]
  IN  bag[Len(inputs)]

RunMerge(inputs, n) ==
  /\ IF Readable(inputs) = {}
     THEN Refuses
     ELSE Writes(n, merge(inputs), Gathered(inputs))
  /\ UNCHANGED inventory

(* The target's inventory is a file, or made on the spot from its ELF.     *)
load_target_inventory(e, source) ==
  IF source = "coverable" THEN inventory[e]
  ELSE inventory_of(e, "objdump", source, "fails")

RunRestrict(i, e, source, n) ==
  LET target == load_target_inventory(e, source) IN
  /\ IF i \notin DOMAIN info \/ target = None THEN Refuses
     ELSE IF restrict(info[i], target).lines = {} THEN Refuses
     ELSE Writes(n, restrict(info[i], target),
                 Narrowed(parts[i], target))
  /\ UNCHANGED inventory

Init ==
  /\ run \in [Tests -> UNION {Runs[t] : t \in Tests}]
  /\ \A t \in Tests : run[t] \in Runs[t]
  /\ inventory = [e \in Elfs |-> None]
  /\ info = <<>> /\ parts = <<>> /\ commands = 0

Command ==
  \/ \E e \in Elfs, want \in {"objdump", "dwarf", "auto"},
        objdump, dwarf \in Outcomes :
       RunCoverable(e, want, objdump, dwarf)
  \/ \E t \in Tests, n \in Infos, with_inventory, with_branches \in BOOLEAN :
       RunLcov(t, with_inventory, with_branches, n)
  \/ \E inputs \in Inputs, n \in Infos : RunMerge(inputs, n)
  \/ \E i, n \in Infos, e \in Elfs, source \in {"coverable"} \union Outcomes :
       RunRestrict(i, e, source, n)

Next == commands < MaxCommands /\ Command /\ UNCHANGED run

Spec == Init /\ [][Next]_vars
=============================================================================
