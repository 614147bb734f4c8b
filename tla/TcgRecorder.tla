---------------------------- MODULE TcgRecorder ----------------------------
(***************************************************************************)
(* The execution callbacks of the QEMU plugin (plugin/tcgcov.c and the     *)
(* context hook of plugin/tcgcov-linux.c), driven by the guest execution   *)
(* QEMU gives them: every vCPU enters translation blocks, reaches their    *)
(* instructions one by one, is interrupted, faults, abandons a block part  *)
(* way (cpu_io_recompile) and switches address space, in any interleaving  *)
(* with the other vCPUs.                                                   *)
(*                                                                         *)
(* Instructions are one address unit wide: the recorder only ever compares *)
(* addresses and steps to the next instruction, so the widths carry no     *)
(* further information (the reader, which adds them up, keeps them: see    *)
(* TbTable).                                                               *)
(*                                                                         *)
(* Beside the plugin's own state the module keeps what really happened     *)
(* (entered, reached, last, ended, broken): history the plugin never sees, *)
(* which the properties compare its tables with.                           *)
(***************************************************************************)
EXTENDS Naturals

CONSTANTS
  Vcpus,       (* cpu_index values that come online                        *)
  VcpuCap,     (* slots of the per-vCPU table (alloc_vcpu_table)           *)
  Blocks,      (* translation blocks                                       *)
  Start,       (* Start[b]: address of the block's first instruction       *)
  Size,        (* Size[b]: number of instructions in it                    *)
  InRange,     (* addresses the filter= ranges accept                      *)
  Contexts,    (* address-space context IDs; 0 stands for "ctx off"        *)
  HaveDiscon,  (* TCGCOV_HAVE_DISCON: QEMU reports interrupts, exceptions  *)
  Options,     (* plugin argument lists the user may pass                  *)
  NoBlock, NoAddr,
  MaxEntries,  (* bound: block entries of one vCPU                         *)
  MaxSwitches  (* bound: context-change callbacks                          *)

Extent(b) == Start[b] .. (Start[b] + Size[b] - 1)
Addr      == UNION {Extent(b) : b \in Blocks}
Pcs       == Addr \union {a + 1 : a \in Addr}
Modes     == {"tb", "tb-insn", "tb-insn-fast"}

Args == [mode : Modes, edges : BOOLEAN, ctx : BOOLEAN, system : BOOLEAN,
         tb_table : {"default", "on", "off"}, flush_at : Addr \union {NoAddr}]

ASSUME RecorderAssumption ==
  /\ Vcpus \subseteq Nat /\ VcpuCap \in Nat
  /\ Start \in [Blocks -> Nat]
  /\ Size \in [Blocks -> Nat \ {0}]
  /\ InRange \subseteq Nat
  /\ 0 \in Contexts
  /\ HaveDiscon \in BOOLEAN
  /\ Options \subseteq Args
  /\ NoBlock \notin Blocks /\ NoAddr \notin Nat
  /\ MaxEntries \in Nat /\ MaxSwitches \in Nat

(* The keys of the plugin's hash tables: CtxTbCount, TbExit and CtxEdge.   *)
BlockKeys == Contexts \X Blocks
ExitKeys  == Contexts \X Blocks \X Pcs
EdgeKeys  == Contexts \X Addr \X Addr

VARIABLES
  settings,    (* CovState fields fixed by qemu_plugin_install             *)
  (* ---- the guest -------------------------------------------------------*)
  online,      (* the vCPU has been brought up                             *)
  blk,         (* block the vCPU executes, NoBlock between two blocks      *)
  idx,         (* how many of its instructions have been reached           *)
  resume,      (* where an abandoned block must resume, else NoAddr        *)
  (* ---- VcpuState, one slot per vCPU ------------------------------------*)
  prev_src, prev_valid, edges, cur_ctx, ctx_tbs,
  cur_tb, cur_tb_ctx, cur_done, exits,
  (* ---- shared by all vCPUs ---------------------------------------------*)
  tb_count,    (* CovTb.count, atomic                                      *)
  insn_count,  (* CovInsn.count, atomic, summed per address                *)
  flushed, ctx_entries, ctx_switches,
  (* ---- history ---------------------------------------------------------*)
  entry_ctx,   (* context in which the current block was entered           *)
  entries,     (* block entries so far                                     *)
  entered,     (* entered[v][c, b]: entries of b in context c              *)
  reached,     (* reached[v][c, b, a]: those that reached the instr. at a  *)
  last,        (* last instruction reached in instrumented code            *)
  ended,       (* it was the last of its block, no block entered since     *)
  broken       (* since then: "no" break of the control flow, a "switch"   *)
               (* of context only, or an interrupt or exception ("discon") *)

guest   == <<online, blk, idx, resume>>
slot    == <<prev_src, prev_valid, edges, cur_ctx, ctx_tbs,
             cur_tb, cur_tb_ctx, cur_done, exits>>
shared  == <<tb_count, insn_count, flushed, ctx_entries, ctx_switches>>
history == <<entry_ctx, entries, entered, reached, last, ended, broken>>
vars    == <<settings, guest, slot, shared, history>>

TypeOK ==
  /\ settings \in [mode : Modes, edges : BOOLEAN, ctx : BOOLEAN,
                   system : BOOLEAN, tb_table : BOOLEAN,
                   flush_at : Addr \union {NoAddr}]
  /\ online \in [Vcpus -> BOOLEAN]
  /\ blk \in [Vcpus -> Blocks \union {NoBlock}]
  /\ idx \in [Vcpus -> Nat]
  /\ \A v \in Vcpus : blk[v] # NoBlock => idx[v] <= Size[blk[v]]
  /\ resume \in [Vcpus -> Addr \union {NoAddr}]
  /\ prev_src \in [Vcpus -> Addr \union {NoAddr}]
  /\ prev_valid \in [Vcpus -> BOOLEAN]
  /\ \A v \in Vcpus : prev_valid[v] => prev_src[v] \in Addr
  /\ edges \in [Vcpus -> [EdgeKeys -> Nat]]
  /\ cur_ctx \in [Vcpus -> Contexts]
  /\ ctx_tbs \in [Vcpus -> [BlockKeys -> Nat]]
  /\ cur_tb \in [Vcpus -> Blocks \union {NoBlock}]
  /\ cur_tb_ctx \in [Vcpus -> Contexts]
  /\ cur_done \in [Vcpus -> BOOLEAN]
  /\ exits \in [Vcpus -> [ExitKeys -> Nat]]
  /\ tb_count \in [Blocks -> Nat]
  /\ insn_count \in [Addr -> Nat]
  /\ flushed \in BOOLEAN
  /\ ctx_entries \in [Contexts -> Nat]
  /\ ctx_switches \in Nat
  /\ entry_ctx \in [Vcpus -> Contexts]
  /\ entries \in [Vcpus -> Nat]
  /\ entered \in [Vcpus -> [BlockKeys -> Nat]]
  /\ reached \in [Vcpus -> [ExitKeys -> Nat]]
  /\ last \in [Vcpus -> Addr \union {NoAddr}]
  /\ ended \in [Vcpus -> BOOLEAN]
  /\ broken \in [Vcpus -> {"no", "switch", "discon"}]

-----------------------------------------------------------------------------
(* What qemu_plugin_install refuses, and the settings it derives.          *)

InstallAccepts(a) ==
  /\ ~(a.ctx /\ a.mode = "tb-insn")
  /\ ~(a.flush_at # NoAddr /\ a.system /\ VcpuCap > 1)
  /\ ~(a.tb_table = "on" /\ a.mode = "tb-insn")

Resolve(a) ==
  [a EXCEPT !.tb_table = \/ @ = "on"
                         \/ @ = "default" /\ a.mode # "tb-insn"]

Init ==
  /\ settings \in {Resolve(a) : a \in {o \in Options : InstallAccepts(o)}}
  /\ online = [v \in Vcpus |-> FALSE]
  /\ blk = [v \in Vcpus |-> NoBlock]
  /\ idx = [v \in Vcpus |-> 0]
  /\ resume = [v \in Vcpus |-> NoAddr]
  /\ prev_src = [v \in Vcpus |-> NoAddr]
  /\ prev_valid = [v \in Vcpus |-> FALSE]
  /\ edges = [v \in Vcpus |-> [k \in EdgeKeys |-> 0]]
  /\ cur_ctx = [v \in Vcpus |-> 0]
  /\ ctx_tbs = [v \in Vcpus |-> [k \in BlockKeys |-> 0]]
  /\ cur_tb = [v \in Vcpus |-> NoBlock]
  /\ cur_tb_ctx = [v \in Vcpus |-> 0]
  /\ cur_done = [v \in Vcpus |-> FALSE]
  /\ exits = [v \in Vcpus |-> [k \in ExitKeys |-> 0]]
  /\ tb_count = [b \in Blocks |-> 0]
  /\ insn_count = [a \in Addr |-> 0]
  /\ flushed = FALSE
  /\ ctx_entries = [c \in Contexts |-> 0]
  /\ ctx_switches = 0
  /\ entry_ctx = [v \in Vcpus |-> 0]
  /\ entries = [v \in Vcpus |-> 0]
  /\ entered = [v \in Vcpus |-> [k \in BlockKeys |-> 0]]
  /\ reached = [v \in Vcpus |-> [k \in ExitKeys |-> 0]]
  /\ last = [v \in Vcpus |-> NoAddr]
  /\ ended = [v \in Vcpus |-> FALSE]
  /\ broken = [v \in Vcpus |-> "no"]

-----------------------------------------------------------------------------
(* Helpers of the callbacks.                                               *)

(* vcpu_slot: NULL beyond the table, which is allocated only when used.    *)
HasSlot(v) ==
  /\ settings.edges \/ settings.ctx \/ settings.tb_table
  /\ v < VcpuCap

(* vcpu_tb_trans leaves a block whose start is filtered out uninstrumented.*)
Instrumented(b) == Start[b] \in InRange

(* tb_holds: pc lies in the block's extent.                                *)
Holds(b, pc) == pc \in Extent(b)

Bump(f, v, k) == [f EXCEPT ![v][k] = @ + 1]

(* record_exit: v's current block, in the context it was entered in.       *)
(* Mutant: the context v is in by now.                                     *)
RecordExitNow(v, pc) == Bump(exits, v, <<cur_ctx[v], cur_tb[v], pc>>)

RecordExit(v, pc) == Bump(exits, v, <<cur_tb_ctx[v], cur_tb[v], pc>>)

(* The block the slot believes v to be in has not reached its last insn.   *)
InsideUnfinished(v, pc) ==
  /\ cur_tb[v] # NoBlock
  /\ ~cur_done[v]
  /\ Holds(cur_tb[v], pc)

(* record_edge: consume the pending source.                                *)
(* Mutant: the edge is tagged with the context the finished block was      *)
(* entered in.                                                             *)
RecordEdgeTbCtx(v, dst) ==
  IF HasSlot(v) /\ prev_valid[v]
    THEN /\ prev_valid' = [prev_valid EXCEPT ![v] = FALSE]
         /\ edges' = Bump(edges, v, <<cur_tb_ctx[v], prev_src[v], dst>>)
    ELSE UNCHANGED <<prev_valid, edges>>

RecordEdge(v, dst) ==
  IF HasSlot(v) /\ prev_valid[v]
    THEN /\ prev_valid' = [prev_valid EXCEPT ![v] = FALSE]
         /\ edges' = Bump(edges, v, <<cur_ctx[v], prev_src[v], dst>>)
    ELSE UNCHANGED <<prev_valid, edges>>

(* tb_enter: a block that resumes inside the unfinished one is its exit.   *)
(* Mutant: the new block inherits "has reached its last instruction".      *)
TbEnterNoReset(v, b) ==
  IF HasSlot(v)
    THEN /\ exits' = IF InsideUnfinished(v, Start[b])
                       THEN RecordExit(v, Start[b]) ELSE exits
         /\ cur_tb' = [cur_tb EXCEPT ![v] = b]
         /\ cur_tb_ctx' = [cur_tb_ctx EXCEPT ![v] = cur_ctx[v]]
         /\ UNCHANGED cur_done
    ELSE UNCHANGED <<exits, cur_tb, cur_tb_ctx, cur_done>>

TbEnter(v, b) ==
  IF HasSlot(v)
    THEN /\ exits' = IF InsideUnfinished(v, Start[b])
                       THEN RecordExit(v, Start[b]) ELSE exits
         /\ cur_tb' = [cur_tb EXCEPT ![v] = b]
         /\ cur_tb_ctx' = [cur_tb_ctx EXCEPT ![v] = cur_ctx[v]]
         /\ cur_done' = [cur_done EXCEPT ![v] = FALSE]
    ELSE UNCHANGED <<exits, cur_tb, cur_tb_ctx, cur_done>>

(* vcpu_tb_exec counts in the block, vcpu_tb_exec_ctx in the vCPU's table, *)
(* vcpu_tb_edge_entry (mode=tb-insn) nowhere.                              *)
CountEntry(v, b) ==
  /\ tb_count' = IF settings.mode # "tb-insn" /\ ~settings.ctx
                   THEN [tb_count EXCEPT ![b] = @ + 1] ELSE tb_count
  /\ ctx_tbs' = IF settings.ctx /\ HasSlot(v)
                  THEN Bump(ctx_tbs, v, <<cur_ctx[v], b>>) ELSE ctx_tbs

TbEntryCallback(v, b) ==
  /\ CountEntry(v, b)
  /\ IF settings.edges THEN RecordEdge(v, Start[b])
                       ELSE UNCHANGED <<prev_valid, edges>>
  /\ IF settings.tb_table THEN TbEnter(v, b)
                          ELSE UNCHANGED <<exits, cur_tb, cur_tb_ctx, cur_done>>

(* The source of v's next edge.                                            *)
PublishSource(v, a) ==
  /\ prev_src' = [prev_src EXCEPT ![v] = a]
  /\ prev_valid' = [prev_valid EXCEPT ![v] = TRUE]

(* Mutant: nothing is withdrawn.                                           *)
WithdrawNothing(v) == UNCHANGED prev_valid

WithdrawSource(v) == prev_valid' = [prev_valid EXCEPT ![v] = FALSE]

(* vcpu_last_insn_exec, or vcpu_tb_done where no edge source is published. *)
LastInsnCallback(v, a) ==
  /\ IF settings.edges /\ a \in InRange /\ HasSlot(v)
       THEN PublishSource(v, a)
       ELSE UNCHANGED <<prev_src, prev_valid>>
  /\ cur_done' = IF \/ settings.edges /\ a \in InRange
                    \/ settings.tb_table
                   THEN [cur_done EXCEPT ![v] = @ \/ HasSlot(v)] ELSE cur_done

(* vcpu_discon. An interrupt is taken before the instruction at from_pc,   *)
(* an exception is raised by it, so the first one not run is the next.     *)
(* Mutant: an exception taken for an interrupt.                            *)
FirstNotRunSame(from_pc, type) == from_pc

FirstNotRun(from_pc, type) ==
  IF type = "exception" THEN from_pc + 1 ELSE from_pc

Discon(v, from_pc, type) ==
  IF HaveDiscon /\ (settings.edges \/ settings.tb_table) /\ HasSlot(v)
    THEN /\ WithdrawSource(v)
         /\ exits' = IF settings.tb_table /\ InsideUnfinished(v, from_pc)
                       THEN RecordExit(v, FirstNotRun(from_pc, type))
                       ELSE exits
         /\ cur_tb' = [cur_tb EXCEPT ![v] = NoBlock]
    ELSE UNCHANGED <<prev_valid, exits, cur_tb>>

-----------------------------------------------------------------------------
(* The steps of one vCPU.                                                  *)

(* ctx_note_entry.                                                         *)
NoteEntry(c) == ctx_entries' = [ctx_entries EXCEPT ![c] = @ + 1]

(* vcpu_init, with the ASID seeding of tcgcov_linux_vcpu_init.             *)
VcpuInit(v, c) ==
  /\ ~online[v]
  /\ online' = [online EXCEPT ![v] = TRUE]
  /\ IF settings.ctx /\ HasSlot(v)
       THEN /\ cur_ctx' = [cur_ctx EXCEPT ![v] = c]
            /\ NoteEntry(c)
       ELSE UNCHANGED <<cur_ctx, ctx_entries>>
  /\ UNCHANGED <<settings, blk, idx, resume, prev_src, prev_valid, edges,
                 ctx_tbs, cur_tb, cur_tb_ctx, cur_done, exits, tb_count,
                 insn_count, flushed, ctx_switches, history>>

(* Between blocks: none entered, or the current one ran to its end.        *)
AtBoundary(v) == blk[v] # NoBlock => idx[v] = Size[blk[v]]

EnterBlock(v, b) ==
  /\ online[v] /\ AtBoundary(v) /\ entries[v] < MaxEntries
  /\ resume[v] # NoAddr => Start[b] = resume[v]
  /\ blk' = [blk EXCEPT ![v] = b]
  /\ idx' = [idx EXCEPT ![v] = 0]
  /\ resume' = [resume EXCEPT ![v] = NoAddr]
  /\ entry_ctx' = [entry_ctx EXCEPT ![v] = cur_ctx[v]]
  /\ entries' = [entries EXCEPT ![v] = @ + 1]
  /\ entered' = Bump(entered, v, <<cur_ctx[v], b>>)
  /\ IF Instrumented(b)
       THEN /\ TbEntryCallback(v, b)
            /\ ended' = [ended EXCEPT ![v] = FALSE]
       ELSE UNCHANGED <<tb_count, ctx_tbs, prev_valid, edges, exits, cur_tb,
                        cur_tb_ctx, cur_done, ended>>
  /\ UNCHANGED <<settings, online, prev_src, cur_ctx, insn_count, flushed,
                 ctx_entries, ctx_switches, reached, last, broken>>

(* The next instruction is reached: vcpu_flush, registered first and       *)
(* whatever the filter says, then vcpu_insn_exec, then the last-insn hook. *)
FlushFires(v) ==
  /\ blk[v] # NoBlock /\ idx[v] < Size[blk[v]]
  /\ Start[blk[v]] + idx[v] = settings.flush_at
  /\ ~flushed

ReachInsn(v) ==
  /\ blk[v] # NoBlock /\ idx[v] < Size[blk[v]]
  /\ LET b == blk[v]
         a == Start[b] + idx[v]
     IN /\ idx' = [idx EXCEPT ![v] = @ + 1]
        /\ flushed' = (flushed \/ FlushFires(v))
        /\ reached' = Bump(reached, v, <<entry_ctx[v], b, a>>)
        /\ insn_count' = IF /\ settings.mode = "tb-insn"
                            /\ Instrumented(b) /\ a \in InRange
                           THEN [insn_count EXCEPT ![a] = @ + 1]
                           ELSE insn_count
        /\ IF Instrumented(b) /\ idx[v] + 1 = Size[b]
             THEN LastInsnCallback(v, a)
             ELSE UNCHANGED <<prev_src, prev_valid, cur_done>>
        /\ IF Instrumented(b)
             THEN /\ last' = [last EXCEPT ![v] = a]
                  /\ ended' = [ended EXCEPT ![v] = (idx[v] + 1 = Size[b])]
                  /\ broken' = [broken EXCEPT ![v] = "no"]
             ELSE UNCHANGED <<last, ended, broken>>
  /\ UNCHANGED <<settings, online, blk, resume, edges, cur_ctx, ctx_tbs,
                 cur_tb, cur_tb_ctx, exits, tb_count, ctx_entries,
                 ctx_switches, entry_ctx, entries, entered>>

(* The address an interrupt is taken before: the next instruction of the   *)
(* block (never its first: a block that is entered has its first one       *)
(* reached), the one an abandoned block must resume at, or, between two    *)
(* blocks, wherever the guest was about to go.                             *)
NextPc(v) ==
  IF ~AtBoundary(v)
    THEN {a \in {Start[blk[v]] + idx[v]} : idx[v] >= 1}
  ELSE IF resume[v] # NoAddr THEN {resume[v]} ELSE Addr

Redirect(v) ==
  /\ blk' = [blk EXCEPT ![v] = NoBlock]
  /\ idx' = [idx EXCEPT ![v] = 0]
  /\ resume' = [resume EXCEPT ![v] = NoAddr]
  /\ broken' = [broken EXCEPT ![v] = "discon"]
  /\ UNCHANGED <<settings, online, prev_src, edges, cur_ctx, ctx_tbs,
                 cur_tb_ctx, cur_done, shared, entry_ctx, entries, entered,
                 reached, last, ended>>

Interrupt(v, pc) ==
  /\ online[v] /\ pc \in NextPc(v)
  /\ Discon(v, pc, "interrupt")
  /\ Redirect(v)

(* Raised by the instruction just reached, or by fetching a block's first. *)
Exception(v, pc) ==
  /\ online[v]
  /\ \/ blk[v] # NoBlock /\ idx[v] >= 1 /\ pc = Start[blk[v]] + idx[v] - 1
     \/ AtBoundary(v) /\ resume[v] = NoAddr /\ pc \in Addr
  /\ Discon(v, pc, "exception")
  /\ Redirect(v)

(* With icount an instruction that touches a device before the end of its  *)
(* block ends it there, and is re-executed as the start of a new block;    *)
(* no callback reports this (cpu_io_recompile).                            *)
IoRecompile(v) ==
  /\ blk[v] # NoBlock /\ idx[v] + 1 < Size[blk[v]]
  /\ \E b \in Blocks : Start[b] = Start[blk[v]] + idx[v]
  /\ blk' = [blk EXCEPT ![v] = NoBlock]
  /\ idx' = [idx EXCEPT ![v] = 0]
  /\ resume' = [resume EXCEPT ![v] = Start[blk[v]] + idx[v]]
  /\ UNCHANGED <<settings, online, slot, shared, history>>

(* vcpu_ctx_changed, delivered from the instruction that writes the MMU.   *)
CtxChanged(v, c) ==
  /\ settings.ctx /\ ctx_switches < MaxSwitches
  /\ blk[v] # NoBlock /\ idx[v] >= 1
  /\ IF HasSlot(v)
       THEN /\ cur_ctx' = [cur_ctx EXCEPT ![v] = c]
            /\ WithdrawSource(v)
       ELSE UNCHANGED <<cur_ctx, prev_valid>>
  /\ ctx_switches' = ctx_switches + 1
  /\ NoteEntry(c)
  /\ broken' = [broken EXCEPT ![v] = IF @ = "no" THEN "switch" ELSE @]
  /\ UNCHANGED <<settings, guest, prev_src, edges, ctx_tbs, cur_tb,
                 cur_tb_ctx, cur_done, exits, tb_count, insn_count, flushed,
                 entry_ctx, entries, entered, reached, last, ended>>

Step(v) ==
  \/ \E c \in Contexts : VcpuInit(v, c)
  \/ \E b \in Blocks : EnterBlock(v, b)
  \/ ReachInsn(v)
  \/ \E pc \in Addr : Interrupt(v, pc)
  \/ \E pc \in Addr : Exception(v, pc)
  \/ IoRecompile(v)
  \/ \E c \in Contexts : CtxChanged(v, c)

Next == \E v \in Vcpus : Step(v)

Spec == Init /\ [][Next]_vars

-----------------------------------------------------------------------------
(* Properties.                                                             *)

(* No filter boundary falls inside an instrumented block.                  *)
FilterAligned == \A b \in Blocks : Instrumented(b) => Extent(b) \subseteq InRange

(* Where v stands: the instruction it reaches next, when that is settled.  *)
At(v) == IF blk[v] # NoBlock THEN Start[blk[v]] + idx[v] ELSE resume[v]

(* The execution of b that v is in has run up to a, and not left b yet.    *)
Unfinished(v, c, b, a) ==
  /\ cur_tb[v] = b /\ ~cur_done[v]
  /\ cur_tb_ctx[v] = c
  /\ At(v) = a

(* The early exits account for every execution of a block that did not run *)
(* to its end: of those that reached the instruction before a (or entered  *)
(* the block, when a is its first), each one reached a, or is recorded as  *)
(* an exit at a in the context it was entered in, or is still under way.   *)
(* Summed up to a, this is the reader's count(entry) - sum of exits        *)
(* (record_exit, tb_enter and vcpu_discon together; FORMAT.md section 12). *)
ExitsAccount ==
  settings.tb_table /\ FilterAligned /\ HaveDiscon =>
    \A v \in Vcpus, c \in Contexts, b \in Blocks :
      HasSlot(v) /\ Instrumented(b) =>
        \A a \in Extent(b) :
          exits[v][<<c, b, a>>] + reached[v][<<c, b, a>>]
            + (IF Unfinished(v, c, b, a) THEN 1 ELSE 0)
          = IF a = Start[b] THEN entered[v][<<c, b>>]
                            ELSE reached[v][<<c, b, a - 1>>]

(* The pending source is exactly the last instruction of the block the     *)
(* vCPU has just run to its end, with nothing in between that broke the    *)
(* control flow: never a block left early, never across an interrupt, an   *)
(* exception or a context switch (vcpu_last_insn_exec, vcpu_discon,        *)
(* vcpu_ctx_changed).                                                      *)
PendingSource ==
  settings.edges /\ HaveDiscon =>
    \A v \in Vcpus : HasSlot(v) =>
      /\ prev_valid[v] <=> /\ ended[v] /\ broken[v] = "no"
                           /\ last[v] \in InRange
      /\ prev_valid[v] => prev_src[v] = last[v]

(* v enters an instrumented block in this step.                            *)
EntersInstrumented(v) == entries'[v] # entries[v] /\ Instrumented(blk'[v])

(* The transfer v makes in this step, if any: from the end of the last     *)
(* instrumented block, uninterrupted, to the block it enters.              *)
Transfers(v, k) ==
  /\ EntersInstrumented(v)
  /\ ended[v] /\ broken[v] = "no" /\ last[v] \in InRange
  /\ k = <<cur_ctx[v], last[v], Start[blk'[v]]>>

(* The edge tables grow by exactly the transfers the guest makes, on the   *)
(* vCPU that makes them: no edge is invented and none is lost (record_edge *)
(* with the callbacks that publish and invalidate its source).             *)
EdgesExact ==
  [][settings.edges /\ HaveDiscon =>
       \A v \in Vcpus : HasSlot(v) =>
         \A k \in EdgeKeys :
           edges'[v][k] = edges[v][k] + IF Transfers(v, k) THEN 1 ELSE 0]_vars

(* What FORMAT.md section 11 says of the collapsed context axis: the edges *)
(* are those a run without ctx=on records, so a block that ran to its end  *)
(* and was followed, uninterrupted, by another always yields one.          *)
CollapseKeepsEdges ==
  [][settings.edges /\ settings.ctx =>
       \A v \in Vcpus :
         /\ HasSlot(v) /\ EntersInstrumented(v)
         /\ ended[v] /\ broken[v] # "discon" /\ last[v] \in InRange
         => edges'[v] # edges[v]]_vars

(* What the guard in qemu_plugin_install promises: the flush reads the     *)
(* per-vCPU tables only while no other vCPU runs translated code.          *)
FlushAlone ==
  [][flushed' # flushed =>
       \A v, w \in Vcpus : FlushFires(v) /\ w # v => blk[w] = NoBlock]_vars
=============================================================================
