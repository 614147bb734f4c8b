----------------------------- MODULE ControlFlow -----------------------------
(***************************************************************************)
(* Branch outcomes from observed edges: the basic blocks and conditional   *)
(* branches of a disassembly (tcgcov/cfg.py), and the outcomes that the    *)
(* edges of a run resolve.  How instruction text is classified is left     *)
(* out: an instruction carries its kind, its static target (NoAddr when    *)
(* unknown), whether a delay slot follows, its size and its section.       *)
(*                                                                         *)
(* The second half is the guest: a processor with delay slots executes the *)
(* same code in translation blocks of QEMU's choosing.                     *)
(***************************************************************************)
EXTENDS Naturals, Sequences, FiniteSets, FiniteSetsExt

CONSTANT NoAddr

TERMINATORS == {"cond", "uncond", "call", "ret"}

Addrs(insns) == {insns[i].addr : i \in DOMAIN insns}
Index(insns, a) == CHOOSE i \in DOMAIN insns : insns[i].addr = a
Beside(insns, i, j) ==
  i \in DOMAIN insns /\ j \in DOMAIN insns /\ insns[i].section = insns[j].section

(* build_blocks: where a block begins.  A delay slot never begins one.     *)
DelaySlots(insns) ==
  {i + 1 : i \in {j \in DOMAIN insns : insns[j].delay /\ Beside(insns, j, j + 1)}}

AfterTransfer(insns, i) == i + IF insns[i].delay THEN 2 ELSE 1

Leaders(insns, symbols) ==
  LET ends == {i \in DOMAIN insns : insns[i].kind \in TERMINATORS} IN
  {i \in DOMAIN insns :
     \/ i = 1
     \/ insns[i].addr \in symbols
     \/ ~Beside(insns, i - 1, i)
     \/ \E j \in ends : insns[j].target = insns[i].addr
     \/ \E j \in ends : i = AfterTransfer(insns, j)} \ DelaySlots(insns)

Blocks(insns, symbols) ==
  LET leaders == Leaders(insns, symbols) IN
  {[first |-> i,
    last |-> Min({j \in i .. Len(insns) : j + 1 \in leaders \/ j = Len(insns)})] :
     i \in leaders}

(* Block: its terminator, 0 when it ends in none.                          *)
Terminator(insns, b) ==
  LET slotted == b.last > b.first /\ insns[b.last - 1].delay
                 /\ insns[b.last - 1].kind \in TERMINATORS
  IN  IF slotted THEN b.last - 1
      ELSE IF insns[b.last].kind \in TERMINATORS THEN b.last ELSE 0

(* Where the branch at i goes when it is not taken.                        *)
_fallthrough(insns, i) ==
  LET next == AfterTransfer(insns, i) IN
  IF Beside(insns, i, next) THEN insns[next].addr
  ELSE IF ~insns[i].delay THEN insns[i].addr + insns[i].size
  ELSE IF Beside(insns, i, i + 1) THEN insns[i + 1].addr + insns[i + 1].size
  ELSE NoAddr

(* A disassembly: by address (parse_objdump), with every delay slot behind *)
(* its branch and no branch itself.  What a conditional branch may pass to *)
(* is next to it and not what it may jump to, and nothing jumps into a     *)
(* delay slot.                                                             *)
Behind(insns, i)  == insns[i].addr + insns[i].size
SlotAddrs(insns)  == {insns[i].addr : i \in DelaySlots(insns)}
Listing(insns) ==
  /\ insns # <<>> /\ NoAddr \notin Nat
  /\ \A i \in DOMAIN insns :
       LET next == AfterTransfer(insns, i) IN
       /\ insns[i].addr \in Nat /\ insns[i].size \in Nat \ {0} /\ insns[i].delay \in BOOLEAN
       /\ insns[i].target \in (Nat \union {NoAddr}) \ SlotAddrs(insns)
       /\ insns[i].delay =>
            /\ Beside(insns, i, i + 1) /\ insns[i + 1].addr = Behind(insns, i)
            /\ insns[i + 1].kind = "other" /\ ~insns[i + 1].delay
       /\ insns[i].kind = "cond" =>
            /\ Beside(insns, i, next) => insns[next].addr = Behind(insns, next - 1)
            /\ insns[i].target # _fallthrough(insns, i)
  /\ \A i, j \in DOMAIN insns : i < j => Behind(insns, i) <= insns[j].addr

(* CFG: a conditional branch with its outcomes and its block.              *)
BranchPoints(insns, symbols) ==
  LET point(i, b) ==
        [addr |-> insns[i].addr,
         taken |-> IF insns[i].target \in Addrs(insns) THEN insns[i].target ELSE NoAddr,
         fallthrough |-> _fallthrough(insns, i),
         block_end |-> insns[b.last].addr]
  IN {point(Terminator(insns, b), b) :
        b \in {c \in Blocks(insns, symbols) :
                 /\ Terminator(insns, c) # 0
                 /\ insns[Terminator(insns, c)].kind = "cond"}}

Indirect(bp) == NoAddr \in {bp.taken, bp.fallthrough}

(* branch_for_source: an edge from at or after the branch, in its block.   *)
(* Mutant: from the branch itself.                                         *)
ExactSource(bp, src) == src = bp.addr
ResolvedBy(bp, src) == bp.addr <= src /\ src <= bp.block_end

(* match_edges: how often a branch was seen to go to dst.                  *)
SeenGoing(bp, edges, dst) ==
  MapThenSumSet(LAMBDA e : edges[e],
                {e \in DOMAIN edges : ResolvedBy(bp, e[1]) /\ e[2] = dst})
BranchCounts(bp, edges) ==
  [taken |-> SeenGoing(bp, edges, bp.taken),
   nottaken |-> IF bp.fallthrough = bp.taken THEN 0
                ELSE SeenGoing(bp, edges, bp.fallthrough)]

-----------------------------------------------------------------------------
(* The guest.  pc and npc are the instructions it executes next and after  *)
(* that; slot says that pc is a delay slot.  QEMU ends a translation block *)
(* where control may leave the straight line, or earlier; src is the last  *)
(* instruction of a block that has just ended.                             *)

Boot(insns) ==
  [pc |-> insns[1].addr, npc |-> insns[1].addr + insns[1].size,
   src |-> NoAddr, slot |-> FALSE, due |-> <<>>,
   ran |-> [a \in Addrs(insns) |-> 0], edges |-> <<>>,
   went |-> [o \in Addrs(insns) \X {0, 1} |-> 0]]

Count(f, k) == [x \in DOMAIN f \union {k} |->
                  IF x \notin DOMAIN f THEN 1 ELSE IF x = k THEN f[x] + 1 ELSE f[x]]

(* Entering a block: the plugin records the edge, and the outcome of the   *)
(* branch that led here is settled.                                        *)
Enter(x) ==
  IF x.src = NoAddr THEN x
  ELSE [x EXCEPT !.edges = Count(@, <<x.src, x.pc>>), !.src = NoAddr,
                 !.went = IF x.due # <<>> /\ ~x.slot THEN Count(@, x.due) ELSE @,
                 !.due = IF ~x.slot THEN <<>> ELSE @]

(* One instruction, after which the block ends or goes on.  A branch that  *)
(* is taken goes to dest, at once or after its slot.                       *)
After(insns, x, taken, dest, ends) ==
  LET y == Enter(x)
      insn == insns[Index(insns, y.pc)]
      first == IF taken /\ ~insn.delay THEN dest ELSE y.npc
      beyond == IF first \in Addrs(insns)
                THEN first + insns[Index(insns, first)].size ELSE NoAddr
  IN
  [y EXCEPT
     !.ran = Count(@, y.pc),
     !.due = IF insn.kind = "cond" THEN <<insn.addr, IF taken THEN 0 ELSE 1>> ELSE @,
     !.src = IF ends THEN y.pc ELSE NoAddr,
     !.slot = insn.delay,
     !.pc = first,
     !.npc = IF taken /\ insn.delay THEN dest ELSE beyond]

(* A return goes back behind a call, or leaves this code for good.         *)
Destinations(insns, insn) ==
  CASE insn.kind = "other" -> {}
    [] insn.kind = "ret" ->
         {NoAddr} \union {insns[AfterTransfer(insns, i)].addr :
                            i \in {j \in DOMAIN insns :
                                    /\ insns[j].kind = "call"
                                    /\ AfterTransfer(insns, j) \in DOMAIN insns}}
    [] OTHER -> {insn.target}
MayPass(insn)  == insn.kind \in {"other", "cond"}
MayGoOn(insn, x) == ~x.slot /\ (insn.kind = "other" \/ insn.delay)

Steps(insns, x) ==
  IF x.pc \notin Addrs(insns) THEN {}
  ELSE LET insn == insns[Index(insns, x.pc)]
           ways == {<<TRUE, d>> : d \in Destinations(insns, insn)} \union
                   IF MayPass(insn) THEN {<<FALSE, NoAddr>>} ELSE {}
           cuts == IF MayGoOn(insn, x) THEN BOOLEAN ELSE {TRUE}
       IN UNION {{After(insns, x, way[1], way[2], ends) : ends \in cuts} : way \in ways}

(* Every execution of n instructions, or of fewer that leave the code.     *)
Executions(insns, n) ==
  LET run[k \in 0 .. n] ==
        IF k = 0 THEN {Boot(insns)}
        ELSE UNION {IF Steps(insns, x) = {} THEN {x} ELSE Steps(insns, x) :
                      x \in run[k - 1]}
  IN  run[n]
=============================================================================
