--------------------------- MODULE Plugin_proofs ----------------------------
(***************************************************************************)
(* Proofs about the plugin.  First TcgRecorder, for every set of vCPUs,    *)
(* blocks and contexts, every filter and every accepted argument list,     *)
(* then TcgArtifact: a TB-table artifact expands exactly, for every guest  *)
(* program, number of vCPUs and contexts, and whatever interrupts,         *)
(* exceptions, abandoned blocks and context switches happen.  Last,        *)
(* ArtifactWriter: how the artifact of one process replaces another's.     *)
(*                                                                         *)
(* CountsInv says that the tables count the entries of every instrumented  *)
(* block and nothing of the others.  With ExitsInv of the recorder, what   *)
(* is left of an entry's count at an address is, by induction on the       *)
(* address, the sum over vCPUs and translations of the executions that     *)
(* reached it and of those still on their way to it.                       *)
(***************************************************************************)
EXTENDS TcgArtifact, ArtifactWriter, DataTheorems

(* The one-line helpers of the callbacks are always expanded.              *)
USE DEF PublishSource, WithdrawSource, FirstNotRun, NoteEntry

-----------------------------------------------------------------------------
(* Addresses.                                                              *)

(* Every instruction of a block has an address of Addr, a natural number.  *)
LEMMA InsnAddr ==
  ASSUME NEW b \in Blocks, NEW i \in Nat, i < Size[b]
  PROVE  /\ Start[b] + i \in Addr
         /\ Start[b] + i \in Extent(b)
         /\ Start[b] \in Addr
<1>1. Start[b] \in Nat /\ Size[b] \in Nat /\ Size[b] > 0
  BY RecorderAssumption
<1>2. Start[b] + i \in Extent(b) /\ Start[b] \in Extent(b)
  BY <1>1 DEF Extent
<1>3. QED BY <1>2 DEF Addr

LEMMA AddrNat == Addr \subseteq Nat /\ Addr \subseteq Pcs
<1>1. ASSUME NEW b \in Blocks PROVE Extent(b) \subseteq Nat
  BY RecorderAssumption DEF Extent
<1>2. QED BY <1>1 DEF Addr, Pcs

-----------------------------------------------------------------------------
(* Counter tables.                                                         *)

(* Bumping one key of one vCPU's table leaves every other count alone.     *)
LEMMA BumpTable ==
  ASSUME NEW K, NEW f \in [Vcpus -> [K -> Nat]], NEW v \in Vcpus, NEW k \in K
  PROVE  /\ Bump(f, v, k) \in [Vcpus -> [K -> Nat]]
         /\ \A w \in Vcpus, j \in K :
              Bump(f, v, k)[w][j] = f[w][j] + IF w = v /\ j = k THEN 1 ELSE 0
BY DEF Bump

-----------------------------------------------------------------------------
(* Type correctness.                                                       *)

LEMMA InitType == Init => TypeOK
<1> SUFFICES ASSUME Init PROVE TypeOK
  OBVIOUS
<1>1. settings \in [mode : Modes, edges : BOOLEAN, ctx : BOOLEAN,
                    system : BOOLEAN, tb_table : BOOLEAN,
                    flush_at : Addr \union {NoAddr}]
  <2>1. PICK a \in Options : settings = Resolve(a)
    BY DEF Init
  <2>2. a \in Args
    BY RecorderAssumption
  <2>3. QED BY <2>1, <2>2 DEF Args, Resolve
<1>2. 0 \in Contexts
  BY RecorderAssumption
<1>3. QED BY <1>1, <1>2 DEF Init, TypeOK


(* record_exit on the unfinished block: a key of the exit table.           *)
LEMMA RecordExitType ==
  ASSUME TypeOK, NEW v \in Vcpus, NEW at \in Pcs, cur_tb[v] # NoBlock
  PROVE  RecordExit(v, at) \in [Vcpus -> [ExitKeys -> Nat]]
<1>1. <<cur_tb_ctx[v], cur_tb[v], at>> \in ExitKeys
  BY DEF TypeOK, ExitKeys
<1>2. QED BY <1>1, BumpTable DEF TypeOK, RecordExit

LEMMA RecordEdgeType ==
  ASSUME TypeOK, NEW v \in Vcpus, NEW dst \in Addr, RecordEdge(v, dst)
  PROVE  /\ edges' \in [Vcpus -> [EdgeKeys -> Nat]]
         /\ prev_valid' \in [Vcpus -> BOOLEAN]
         /\ \A w \in Vcpus : prev_valid'[w] => prev_valid[w]
<1>1. CASE HasSlot(v) /\ prev_valid[v]
  <2>1. <<cur_ctx[v], prev_src[v], dst>> \in EdgeKeys
    BY <1>1 DEF TypeOK, EdgeKeys
  <2>2. edges \in [Vcpus -> [EdgeKeys -> Nat]]
    BY DEF TypeOK
  <2>3. edges' = Bump(edges, v, <<cur_ctx[v], prev_src[v], dst>>)
    BY <1>1 DEF RecordEdge
  <2>4. edges' \in [Vcpus -> [EdgeKeys -> Nat]]
    BY <2>1, <2>2, <2>3, BumpTable
  <2>5. QED BY <1>1, <2>4 DEF RecordEdge, TypeOK
<1>2. CASE ~(HasSlot(v) /\ prev_valid[v])
  BY <1>2 DEF RecordEdge, TypeOK
<1>3. QED BY <1>1, <1>2

LEMMA TbEnterType ==
  ASSUME TypeOK, NEW v \in Vcpus, NEW b \in Blocks, TbEnter(v, b)
  PROVE  /\ exits' \in [Vcpus -> [ExitKeys -> Nat]]
         /\ cur_tb' \in [Vcpus -> Blocks \union {NoBlock}]
         /\ cur_tb_ctx' \in [Vcpus -> Contexts]
         /\ cur_done' \in [Vcpus -> BOOLEAN]
<1>1. Start[b] \in Pcs
  BY InsnAddr, AddrNat, RecorderAssumption
<1>2. InsideUnfinished(v, Start[b]) =>
        RecordExit(v, Start[b]) \in [Vcpus -> [ExitKeys -> Nat]]
  BY <1>1, RecordExitType DEF InsideUnfinished
<1>3. CASE HasSlot(v)
  <2>1. exits' = IF InsideUnfinished(v, Start[b])
                   THEN RecordExit(v, Start[b]) ELSE exits
    BY <1>3 DEF TbEnter
  <2>2. exits' \in [Vcpus -> [ExitKeys -> Nat]]
    BY <1>2, <2>1 DEF TypeOK
  <2>3. /\ cur_tb' = [cur_tb EXCEPT ![v] = b]
        /\ cur_tb_ctx' = [cur_tb_ctx EXCEPT ![v] = cur_ctx[v]]
        /\ cur_done' = [cur_done EXCEPT ![v] = FALSE]
    BY <1>3 DEF TbEnter
  <2>4. QED BY <2>2, <2>3 DEF TypeOK
<1>4. CASE ~HasSlot(v)
  BY <1>4 DEF TbEnter, TypeOK
<1>5. QED BY <1>3, <1>4

LEMMA CountEntryType ==
  ASSUME TypeOK, NEW v \in Vcpus, NEW b \in Blocks, CountEntry(v, b)
  PROVE  /\ tb_count' \in [Blocks -> Nat]
         /\ ctx_tbs' \in [Vcpus -> [BlockKeys -> Nat]]
<1>1. <<cur_ctx[v], b>> \in BlockKeys
  BY DEF TypeOK, BlockKeys
<1>2. Bump(ctx_tbs, v, <<cur_ctx[v], b>>) \in [Vcpus -> [BlockKeys -> Nat]]
  BY <1>1, BumpTable DEF TypeOK
<1>3. tb_count' \in [Blocks -> Nat]
  BY DEF CountEntry, TypeOK
<1>4. QED BY <1>2, <1>3 DEF CountEntry, TypeOK

LEMMA DisconType ==
  ASSUME TypeOK, NEW v \in Vcpus, NEW at \in Addr, NEW type,
         Discon(v, at, type)
  PROVE  /\ prev_valid' \in [Vcpus -> BOOLEAN]
         /\ \A w \in Vcpus : prev_valid'[w] => prev_valid[w]
         /\ exits' \in [Vcpus -> [ExitKeys -> Nat]]
         /\ cur_tb' \in [Vcpus -> Blocks \union {NoBlock}]
<1>1. (IF type = "exception" THEN at + 1 ELSE at) \in Pcs
  BY DEF Pcs
<1>2. InsideUnfinished(v, at) =>
        RecordExit(v, IF type = "exception" THEN at + 1 ELSE at)
          \in [Vcpus -> [ExitKeys -> Nat]]
  BY <1>1, RecordExitType DEF InsideUnfinished
<1>3. CASE HaveDiscon /\ (settings.edges \/ settings.tb_table) /\ HasSlot(v)
  <2>1. /\ prev_valid' = [prev_valid EXCEPT ![v] = FALSE]
        /\ exits' = IF settings.tb_table /\ InsideUnfinished(v, at)
                      THEN RecordExit(v, IF type = "exception"
                                           THEN at + 1 ELSE at)
                      ELSE exits
        /\ cur_tb' = [cur_tb EXCEPT ![v] = NoBlock]
    BY <1>3 DEF Discon
  <2>2. exits' \in [Vcpus -> [ExitKeys -> Nat]]
    BY <1>2, <2>1 DEF TypeOK
  <2>3. QED BY <2>1, <2>2 DEF TypeOK
<1>4. CASE ~(HaveDiscon /\ (settings.edges \/ settings.tb_table) /\ HasSlot(v))
  BY <1>4 DEF Discon, TypeOK
<1>5. QED BY <1>3, <1>4

LEMMA LastInsnType ==
  ASSUME TypeOK, NEW v \in Vcpus, NEW a \in Addr, LastInsnCallback(v, a)
  PROVE  /\ prev_src' \in [Vcpus -> Addr \union {NoAddr}]
         /\ prev_valid' \in [Vcpus -> BOOLEAN]
         /\ \A w \in Vcpus : prev_valid'[w] => prev_src'[w] \in Addr
         /\ cur_done' \in [Vcpus -> BOOLEAN]
<1>1. /\ prev_src' \in [Vcpus -> Addr \union {NoAddr}]
      /\ prev_valid' \in [Vcpus -> BOOLEAN]
      /\ \A w \in Vcpus : prev_valid'[w] => prev_src'[w] \in Addr
  <2>1. CASE settings.edges /\ a \in InRange /\ HasSlot(v)
    <3>1. /\ prev_src' = [prev_src EXCEPT ![v] = a]
          /\ prev_valid' = [prev_valid EXCEPT ![v] = TRUE]
      BY <2>1 DEF LastInsnCallback
    <3>2. QED BY <3>1 DEF TypeOK
  <2>2. CASE ~(settings.edges /\ a \in InRange /\ HasSlot(v))
    BY <2>2 DEF LastInsnCallback, TypeOK
  <2>3. QED BY <2>1, <2>2
<1>2. HasSlot(v) \in BOOLEAN
  BY DEF HasSlot
<1>3. cur_done' = [cur_done EXCEPT ![v] = cur_done[v] \/ HasSlot(v)]
        \/ cur_done' = cur_done
  BY DEF LastInsnCallback
<1>4. cur_done' \in [Vcpus -> BOOLEAN]
  BY <1>2, <1>3 DEF TypeOK
<1>5. QED BY <1>1, <1>4

-----------------------------------------------------------------------------
(* Each step keeps the types.                                              *)

LEMMA VcpuInitType ==
  ASSUME TypeOK, NEW v \in Vcpus, NEW c \in Contexts, VcpuInit(v, c)
  PROVE  TypeOK'
<1>1. /\ online' \in [Vcpus -> BOOLEAN]
      /\ cur_ctx' \in [Vcpus -> Contexts]
      /\ ctx_entries' \in [Contexts -> Nat]
  <2>1. CASE settings.ctx /\ HasSlot(v)
    <3>1. /\ online' = [online EXCEPT ![v] = TRUE]
          /\ cur_ctx' = [cur_ctx EXCEPT ![v] = c]
          /\ ctx_entries' = [ctx_entries EXCEPT ![c] = @ + 1]
      BY <2>1 DEF VcpuInit
    <3>2. QED BY <3>1 DEF TypeOK
  <2>2. CASE ~(settings.ctx /\ HasSlot(v))
    BY <2>2 DEF VcpuInit, TypeOK
  <2>3. QED BY <2>1, <2>2
<1>2. QED BY <1>1 DEF VcpuInit, TypeOK, history

LEMMA EnterBlockType ==
  ASSUME TypeOK, NEW v \in Vcpus, NEW b \in Blocks, EnterBlock(v, b)
  PROVE  TypeOK'
<1>1. Start[b] \in Addr /\ 0 <= Size[b]
  BY InsnAddr, RecorderAssumption
<1>2. /\ blk' \in [Vcpus -> Blocks \union {NoBlock}]
      /\ idx' \in [Vcpus -> Nat]
      /\ \A w \in Vcpus : blk'[w] # NoBlock => idx'[w] <= Size[blk'[w]]
      /\ resume' \in [Vcpus -> Addr \union {NoAddr}]
      /\ entry_ctx' \in [Vcpus -> Contexts]
      /\ entries' \in [Vcpus -> Nat]
  BY <1>1 DEF EnterBlock, TypeOK
<1>3. entered' \in [Vcpus -> [BlockKeys -> Nat]]
  <2>1. <<cur_ctx[v], b>> \in BlockKeys
    BY DEF TypeOK, BlockKeys
  <2>2. QED BY <2>1, BumpTable DEF EnterBlock, TypeOK
<1>4. /\ tb_count' \in [Blocks -> Nat]
      /\ ctx_tbs' \in [Vcpus -> [BlockKeys -> Nat]]
      /\ edges' \in [Vcpus -> [EdgeKeys -> Nat]]
      /\ prev_valid' \in [Vcpus -> BOOLEAN]
      /\ \A w \in Vcpus : prev_valid'[w] => prev_valid[w]
      /\ exits' \in [Vcpus -> [ExitKeys -> Nat]]
      /\ cur_tb' \in [Vcpus -> Blocks \union {NoBlock}]
      /\ cur_tb_ctx' \in [Vcpus -> Contexts]
      /\ cur_done' \in [Vcpus -> BOOLEAN]
      /\ ended' \in [Vcpus -> BOOLEAN]
  <2>1. CASE Instrumented(b)
    <3>1. CountEntry(v, b) /\ ended' \in [Vcpus -> BOOLEAN]
      BY <2>1 DEF EnterBlock, TbEntryCallback, TypeOK
    <3>2. /\ edges' \in [Vcpus -> [EdgeKeys -> Nat]]
          /\ prev_valid' \in [Vcpus -> BOOLEAN]
          /\ \A w \in Vcpus : prev_valid'[w] => prev_valid[w]
      <4>1. CASE settings.edges
        BY <4>1, <2>1, <1>1, RecordEdgeType DEF EnterBlock, TbEntryCallback
      <4>2. CASE ~settings.edges
        BY <4>2, <2>1 DEF EnterBlock, TbEntryCallback, TypeOK
      <4>3. QED BY <4>1, <4>2
    <3>3. /\ exits' \in [Vcpus -> [ExitKeys -> Nat]]
          /\ cur_tb' \in [Vcpus -> Blocks \union {NoBlock}]
          /\ cur_tb_ctx' \in [Vcpus -> Contexts]
          /\ cur_done' \in [Vcpus -> BOOLEAN]
      <4>1. CASE settings.tb_table
        BY <4>1, <2>1, TbEnterType DEF EnterBlock, TbEntryCallback
      <4>2. CASE ~settings.tb_table
        BY <4>2, <2>1 DEF EnterBlock, TbEntryCallback, TypeOK
      <4>3. QED BY <4>1, <4>2
    <3>4. QED BY <3>1, <3>2, <3>3, CountEntryType
  <2>2. CASE ~Instrumented(b)
    BY <2>2 DEF EnterBlock, TypeOK
  <2>3. QED BY <2>1, <2>2
<1>5. /\ UNCHANGED <<settings, online, prev_src, cur_ctx, insn_count, flushed,
                     ctx_entries, ctx_switches, reached, last, broken>>
  BY DEF EnterBlock
<1>6. \A w \in Vcpus : prev_valid'[w] => prev_src'[w] \in Addr
  BY <1>4, <1>5 DEF TypeOK
<1>7. QED BY <1>2, <1>3, <1>4, <1>5, <1>6 DEF TypeOK

LEMMA ReachInsnType ==
  ASSUME TypeOK, NEW v \in Vcpus, ReachInsn(v)
  PROVE  TypeOK'
<1>1. PICK b \in Blocks : b = blk[v]
  BY DEF ReachInsn, TypeOK
<1>2. PICK a \in Nat : a = Start[b] + idx[v]
  BY <1>1, RecorderAssumption DEF TypeOK
<1>3. /\ idx[v] \in Nat /\ idx[v] < Size[b] /\ Size[b] \in Nat
      /\ a \in Addr /\ a \in Extent(b)
  BY <1>1, <1>2, InsnAddr, RecorderAssumption DEF ReachInsn, TypeOK
<1>4. <<entry_ctx[v], b, a>> \in ExitKeys
  BY <1>3, AddrNat DEF TypeOK, ExitKeys
<1>5. reached' \in [Vcpus -> [ExitKeys -> Nat]]
  <2>1. reached' = Bump(reached, v, <<entry_ctx[v], b, a>>)
    BY <1>1, <1>2 DEF ReachInsn
  <2>2. QED BY <2>1, <1>4, BumpTable DEF TypeOK
<1>6. /\ idx' = [idx EXCEPT ![v] = idx[v] + 1]
      /\ flushed' = (flushed \/ FlushFires(v))
      /\ \/ insn_count' = [insn_count EXCEPT ![a] = @ + 1]
         \/ insn_count' = insn_count
      /\ UNCHANGED <<settings, online, blk, resume, edges, cur_ctx, ctx_tbs,
                     cur_tb, cur_tb_ctx, exits, tb_count, ctx_entries,
                     ctx_switches, entry_ctx, entries, entered>>
  BY <1>1, <1>2 DEF ReachInsn
<1>7. /\ idx' \in [Vcpus -> Nat]
      /\ \A w \in Vcpus : blk'[w] # NoBlock => idx'[w] <= Size[blk'[w]]
      /\ flushed' \in BOOLEAN
  BY <1>1, <1>3, <1>6 DEF TypeOK, FlushFires
<1>8. insn_count' \in [Addr -> Nat]
  <2>1. [insn_count EXCEPT ![a] = @ + 1] \in [Addr -> Nat]
    BY <1>3 DEF TypeOK
  <2>2. QED BY <2>1, <1>6 DEF TypeOK
<1>9. /\ prev_src' \in [Vcpus -> Addr \union {NoAddr}]
      /\ prev_valid' \in [Vcpus -> BOOLEAN]
      /\ \A w \in Vcpus : prev_valid'[w] => prev_src'[w] \in Addr
      /\ cur_done' \in [Vcpus -> BOOLEAN]
  <2>1. CASE Instrumented(b) /\ idx[v] + 1 = Size[b]
    <3>1. LastInsnCallback(v, a)
      BY <1>1, <1>2, <2>1 DEF ReachInsn
    <3>2. QED BY <3>1, <1>3, LastInsnType
  <2>2. CASE ~(Instrumented(b) /\ idx[v] + 1 = Size[b])
    <3>1. UNCHANGED <<prev_src, prev_valid, cur_done>>
      BY <1>1, <1>2, <2>2 DEF ReachInsn
    <3>2. QED BY <3>1 DEF TypeOK
  <2>3. QED BY <2>1, <2>2
<1>10. /\ last' \in [Vcpus -> Addr \union {NoAddr}]
       /\ ended' \in [Vcpus -> BOOLEAN]
       /\ broken' \in [Vcpus -> {"no", "switch", "discon"}]
  <2>1. CASE Instrumented(b)
    <3>1. /\ last' = [last EXCEPT ![v] = a]
          /\ ended' = [ended EXCEPT ![v] = (idx[v] + 1 = Size[b])]
          /\ broken' = [broken EXCEPT ![v] = "no"]
      BY <1>1, <1>2, <2>1 DEF ReachInsn
    <3>2. QED BY <3>1, <1>3 DEF TypeOK
  <2>2. CASE ~Instrumented(b)
    BY <1>1, <2>2 DEF ReachInsn, TypeOK
  <2>3. QED BY <2>1, <2>2
<1>11. QED BY <1>5, <1>6, <1>7, <1>8, <1>9, <1>10 DEF TypeOK

(* The redirection of a vCPU by an interrupt or an exception.              *)
LEMMA RedirectType ==
  ASSUME TypeOK, NEW v \in Vcpus, NEW at \in Addr, NEW type,
         Discon(v, at, type), Redirect(v)
  PROVE  TypeOK'
<1>1. /\ blk' = [blk EXCEPT ![v] = NoBlock]
      /\ idx' = [idx EXCEPT ![v] = 0]
      /\ resume' = [resume EXCEPT ![v] = NoAddr]
      /\ broken' = [broken EXCEPT ![v] = "discon"]
      /\ UNCHANGED <<settings, online, prev_src, edges, cur_ctx, ctx_tbs,
                     cur_tb_ctx, cur_done, tb_count, insn_count, flushed,
                     ctx_entries, ctx_switches, entry_ctx, entries, entered,
                     reached, last, ended>>
  BY DEF Redirect, shared
<1>2. /\ blk' \in [Vcpus -> Blocks \union {NoBlock}]
      /\ idx' \in [Vcpus -> Nat]
      /\ \A w \in Vcpus : blk'[w] # NoBlock => idx'[w] <= Size[blk'[w]]
      /\ resume' \in [Vcpus -> Addr \union {NoAddr}]
      /\ broken' \in [Vcpus -> {"no", "switch", "discon"}]
  BY <1>1 DEF TypeOK
<1>3. /\ prev_valid' \in [Vcpus -> BOOLEAN]
      /\ \A w \in Vcpus : prev_valid'[w] => prev_src'[w] \in Addr
      /\ exits' \in [Vcpus -> [ExitKeys -> Nat]]
      /\ cur_tb' \in [Vcpus -> Blocks \union {NoBlock}]
  BY <1>1, DisconType DEF TypeOK
<1>4. QED BY <1>1, <1>2, <1>3 DEF TypeOK

LEMMA IoRecompileType ==
  ASSUME TypeOK, NEW v \in Vcpus, IoRecompile(v)
  PROVE  TypeOK'
<1>1. PICK b \in Blocks : Start[b] = Start[blk[v]] + idx[v]
  BY DEF IoRecompile
<1>2. Start[b] \in Addr
  BY InsnAddr, RecorderAssumption
<1>3. /\ blk' = [blk EXCEPT ![v] = NoBlock]
      /\ idx' = [idx EXCEPT ![v] = 0]
      /\ resume' = [resume EXCEPT ![v] = Start[b]]
      /\ UNCHANGED <<settings, online, slot, shared, history>>
  BY <1>1 DEF IoRecompile
<1>4. /\ blk' \in [Vcpus -> Blocks \union {NoBlock}]
      /\ idx' \in [Vcpus -> Nat]
      /\ \A w \in Vcpus : blk'[w] # NoBlock => idx'[w] <= Size[blk'[w]]
      /\ resume' \in [Vcpus -> Addr \union {NoAddr}]
  BY <1>2, <1>3 DEF TypeOK
<1>5. QED BY <1>3, <1>4 DEF TypeOK, slot, shared, history

LEMMA CtxChangedType ==
  ASSUME TypeOK, NEW v \in Vcpus, NEW c \in Contexts, CtxChanged(v, c)
  PROVE  TypeOK'
<1>1. /\ cur_ctx' \in [Vcpus -> Contexts]
      /\ prev_valid' \in [Vcpus -> BOOLEAN]
      /\ \A w \in Vcpus : prev_valid'[w] => prev_valid[w]
  <2>1. CASE HasSlot(v)
    <3>1. /\ cur_ctx' = [cur_ctx EXCEPT ![v] = c]
          /\ prev_valid' = [prev_valid EXCEPT ![v] = FALSE]
      BY <2>1 DEF CtxChanged
    <3>2. QED BY <3>1 DEF TypeOK
  <2>2. CASE ~HasSlot(v)
    BY <2>2 DEF CtxChanged, TypeOK
  <2>3. QED BY <2>1, <2>2
<1>2. /\ ctx_switches' = ctx_switches + 1
      /\ ctx_entries' = [ctx_entries EXCEPT ![c] = @ + 1]
      /\ broken' = [broken EXCEPT ![v] =
                      IF broken[v] = "no" THEN "switch" ELSE broken[v]]
      /\ UNCHANGED <<settings, guest, prev_src, edges, ctx_tbs, cur_tb,
                     cur_tb_ctx, cur_done, exits, tb_count, insn_count,
                     flushed, entry_ctx, entries, entered, reached, last,
                     ended>>
  BY DEF CtxChanged
<1>3. /\ ctx_switches' \in Nat
      /\ ctx_entries' \in [Contexts -> Nat]
      /\ broken' \in [Vcpus -> {"no", "switch", "discon"}]
  BY <1>2 DEF TypeOK
<1>4. \A w \in Vcpus : prev_valid'[w] => prev_src'[w] \in Addr
  BY <1>1, <1>2 DEF TypeOK
<1>5. QED BY <1>1, <1>2, <1>3, <1>4 DEF TypeOK, guest

LEMMA NextType == TypeOK /\ [Next]_vars => TypeOK'
<1> SUFFICES ASSUME TypeOK, [Next]_vars PROVE TypeOK'
  OBVIOUS
<1>1. ASSUME NEW v \in Vcpus, Step(v) PROVE TypeOK'
  <2>1. ASSUME NEW c \in Contexts, VcpuInit(v, c) PROVE TypeOK'
    BY <2>1, VcpuInitType
  <2>2. ASSUME NEW b \in Blocks, EnterBlock(v, b) PROVE TypeOK'
    BY <2>2, EnterBlockType
  <2>3. CASE ReachInsn(v)
    BY <2>3, ReachInsnType
  <2>4. ASSUME NEW at \in Addr, Interrupt(v, at) \/ Exception(v, at)
        PROVE  TypeOK'
    BY <2>4, RedirectType DEF Interrupt, Exception
  <2>5. CASE IoRecompile(v)
    BY <2>5, IoRecompileType
  <2>6. ASSUME NEW c \in Contexts, CtxChanged(v, c) PROVE TypeOK'
    BY <2>6, CtxChangedType
  <2>7. QED BY <1>1, <2>1, <2>2, <2>3, <2>4, <2>5, <2>6 DEF Step
<1>2. CASE UNCHANGED vars
  BY <1>2 DEF TypeOK, vars, guest, slot, shared, history
<1>3. QED BY <1>1, <1>2 DEF Next

(* Every table keeps its shape, and a pending edge source is an address.   *)
THEOREM TypeCorrect == Spec => []TypeOK
<1>1. Init => TypeOK
  BY InitType
<1>2. TypeOK /\ [Next]_vars => TypeOK'
  BY NextType
<1>3. QED BY <1>1, <1>2, PTL DEF Spec

-----------------------------------------------------------------------------
(* A step of one vCPU leaves the others' slots and guests alone.           *)

Untouched(w) ==
  /\ blk'[w] = blk[w] /\ idx'[w] = idx[w] /\ resume'[w] = resume[w]
  /\ prev_src'[w] = prev_src[w] /\ prev_valid'[w] = prev_valid[w]
  /\ edges'[w] = edges[w] /\ cur_ctx'[w] = cur_ctx[w]
  /\ cur_tb'[w] = cur_tb[w] /\ cur_tb_ctx'[w] = cur_tb_ctx[w]
  /\ cur_done'[w] = cur_done[w] /\ exits'[w] = exits[w]
  /\ entry_ctx'[w] = entry_ctx[w] /\ entries'[w] = entries[w]
  /\ entered'[w] = entered[w] /\ reached'[w] = reached[w]
  /\ last'[w] = last[w] /\ ended'[w] = ended[w] /\ broken'[w] = broken[w]

LEMMA OthersUntouched ==
  ASSUME TypeOK, NEW v \in Vcpus, Step(v), NEW w \in Vcpus, w # v
  PROVE  Untouched(w)
<1>1. ASSUME NEW c \in Contexts, VcpuInit(v, c) PROVE Untouched(w)
  BY <1>1 DEF VcpuInit, TypeOK, history, Untouched
<1>2. ASSUME NEW b \in Blocks, EnterBlock(v, b) PROVE Untouched(w)
  <2>1. edges'[w] = edges[w] /\ prev_valid'[w] = prev_valid[w]
    BY <1>2 DEF EnterBlock, TbEntryCallback, RecordEdge, Bump, TypeOK
  <2>2. /\ exits'[w] = exits[w] /\ cur_tb'[w] = cur_tb[w]
        /\ cur_tb_ctx'[w] = cur_tb_ctx[w] /\ cur_done'[w] = cur_done[w]
    BY <1>2 DEF EnterBlock, TbEntryCallback, TbEnter, RecordExit, Bump, TypeOK
  <2>3. entered'[w] = entered[w] /\ ended'[w] = ended[w]
    BY <1>2 DEF EnterBlock, Bump, TypeOK
  <2>4. QED BY <1>2, <2>1, <2>2, <2>3 DEF EnterBlock, TypeOK, Untouched
<1>3. CASE ReachInsn(v)
  <2>1. /\ prev_src'[w] = prev_src[w] /\ prev_valid'[w] = prev_valid[w]
        /\ cur_done'[w] = cur_done[w]
    BY <1>3 DEF ReachInsn, LastInsnCallback, TypeOK
  <2>2. /\ idx'[w] = idx[w] /\ reached'[w] = reached[w]
        /\ last'[w] = last[w] /\ ended'[w] = ended[w] /\ broken'[w] = broken[w]
    BY <1>3 DEF ReachInsn, Bump, TypeOK
  <2>3. QED BY <1>3, <2>1, <2>2 DEF ReachInsn, Untouched
<1>4. ASSUME NEW at \in Addr, NEW type, Discon(v, at, type), Redirect(v)
      PROVE  Untouched(w)
  <2>1. /\ prev_valid'[w] = prev_valid[w] /\ exits'[w] = exits[w]
        /\ cur_tb'[w] = cur_tb[w]
    BY <1>4 DEF Discon, RecordExit, Bump, TypeOK
  <2>2. QED BY <1>4, <2>1 DEF Redirect, TypeOK, Untouched
<1>5. CASE IoRecompile(v)
  BY <1>5 DEF IoRecompile, TypeOK, slot, shared, history, Untouched
<1>6. ASSUME NEW c \in Contexts, CtxChanged(v, c) PROVE Untouched(w)
  BY <1>6 DEF CtxChanged, TypeOK, guest, Untouched
<1>7. QED BY <1>1, <1>2, <1>3, <1>4, <1>5, <1>6
            DEF Step, Interrupt, Exception

LEMMA SettingsFixed ==
  ASSUME TypeOK, [Next]_vars
  PROVE  settings' = settings /\ \A v : HasSlot(v)' <=> HasSlot(v)
<1>1. ASSUME NEW v \in Vcpus, Step(v)
      PROVE  settings' = settings
  BY <1>1 DEF Step, VcpuInit, EnterBlock, ReachInsn, Interrupt, Exception,
              Redirect, IoRecompile, CtxChanged
<1>2. settings' = settings
  BY <1>1 DEF Next, vars
<1>3. QED BY <1>2 DEF HasSlot

-----------------------------------------------------------------------------
(* The pending edge source.                                                *)

(* No instrumented block under way has ended: entering one clears ended.   *)
UnderWay(v) ==
  blk[v] # NoBlock /\ idx[v] < Size[blk[v]] /\ Instrumented(blk[v])
    => ~ended[v]

Pending(v) ==
  /\ prev_valid[v] <=> /\ ended[v] /\ broken[v] = "no"
                       /\ last[v] \in InRange
  /\ prev_valid[v] => prev_src[v] = last[v]

PendingInv ==
  settings.edges /\ HaveDiscon =>
    \A v \in Vcpus : HasSlot(v) => UnderWay(v) /\ Pending(v)

LEMMA PendingStep ==
  ASSUME TypeOK, TypeOK', settings.edges, HaveDiscon,
         NEW v \in Vcpus, HasSlot(v), UnderWay(v), Pending(v), Step(v)
  PROVE  UnderWay(v)' /\ Pending(v)'
<1>1. ASSUME NEW c \in Contexts, VcpuInit(v, c)
      PROVE  UnderWay(v)' /\ Pending(v)'
  BY <1>1 DEF VcpuInit, history, UnderWay, Pending
<1>2. ASSUME NEW b \in Blocks, EnterBlock(v, b)
      PROVE  UnderWay(v)' /\ Pending(v)'
  <2>1. blk'[v] = b /\ UNCHANGED <<prev_src, last, broken>>
    BY <1>2 DEF EnterBlock, TypeOK
  <2>2. CASE Instrumented(b)
    <3>1. RecordEdge(v, Start[b]) /\ ended' = [ended EXCEPT ![v] = FALSE]
      BY <1>2, <2>2 DEF EnterBlock, TbEntryCallback
    <3>2. ~prev_valid'[v] /\ ~ended'[v]
      BY <3>1 DEF RecordEdge, TypeOK
    <3>3. QED BY <3>2 DEF UnderWay, Pending
  <2>3. CASE ~Instrumented(b)
    <3>1. UNCHANGED <<prev_valid, ended>>
      BY <1>2, <2>3 DEF EnterBlock
    <3>2. QED BY <2>1, <2>3, <3>1 DEF UnderWay, Pending, Instrumented
  <2>4. QED BY <2>2, <2>3
<1>3. CASE ReachInsn(v)
  <2>1. PICK b \in Blocks : b = blk[v]
    BY <1>3 DEF ReachInsn, TypeOK
  <2>2. PICK a : a = Start[b] + idx[v]
    OBVIOUS
  <2>3. /\ b # NoBlock /\ idx[v] < Size[b]
        /\ idx[v] \in Nat /\ Size[b] \in Nat
        /\ blk' = blk /\ idx'[v] = idx[v] + 1
    BY <1>3, <2>1, RecorderAssumption DEF ReachInsn, TypeOK
  <2>4. CASE Instrumented(b)
    <3>1. ~ended[v] /\ ~prev_valid[v]
      BY <2>1, <2>3, <2>4 DEF UnderWay, Pending
    <3>2. /\ last'[v] = a
          /\ ended'[v] <=> idx[v] + 1 = Size[b]
          /\ broken'[v] = "no"
      BY <1>3, <2>1, <2>2, <2>4 DEF ReachInsn, TypeOK
    <3>3. UnderWay(v)'
      <4>1. blk'[v] = b
        BY <2>1, <2>3
      <4>2. idx[v] + 1 < Size[b] => ~ended'[v]
        BY <2>3, <3>2
      <4>3. QED BY <2>3, <4>1, <4>2 DEF UnderWay
    <3>4. CASE idx[v] + 1 = Size[b]
      <4>1. LastInsnCallback(v, a)
        BY <1>3, <2>1, <2>2, <2>4, <3>4 DEF ReachInsn
      <4>2. CASE a \in InRange
        <5>1. prev_src'[v] = a /\ prev_valid'[v]
          BY <4>1, <4>2 DEF LastInsnCallback, TypeOK
        <5>2. QED BY <3>2, <3>3, <3>4, <4>2, <5>1 DEF Pending
      <4>3. CASE a \notin InRange
        <5>1. UNCHANGED prev_valid
          BY <4>1, <4>3 DEF LastInsnCallback
        <5>2. QED BY <3>1, <3>2, <3>3, <4>3, <5>1 DEF Pending
      <4>4. QED BY <4>2, <4>3
    <3>5. CASE idx[v] + 1 # Size[b]
      <4>1. UNCHANGED prev_valid
        BY <1>3, <2>1, <2>4, <3>5 DEF ReachInsn
      <4>2. QED BY <3>1, <3>2, <3>3, <3>5, <4>1 DEF Pending
    <3>6. QED BY <3>4, <3>5
  <2>5. CASE ~Instrumented(b)
    <3>1. UNCHANGED <<prev_src, prev_valid, last, ended, broken>>
      BY <1>3, <2>1, <2>5 DEF ReachInsn
    <3>2. QED BY <2>1, <2>3, <2>5, <3>1 DEF UnderWay, Pending, Instrumented
  <2>6. QED BY <2>4, <2>5
<1>4. ASSUME NEW at \in Addr, NEW type, Discon(v, at, type), Redirect(v)
      PROVE  UnderWay(v)' /\ Pending(v)'
  <2>1. prev_valid' = [prev_valid EXCEPT ![v] = FALSE]
    BY <1>4 DEF Discon
  <2>2. blk'[v] = NoBlock /\ broken'[v] = "discon"
    BY <1>4 DEF Redirect, TypeOK
  <2>3. ~prev_valid'[v]
    BY <2>1 DEF TypeOK
  <2>4. QED BY <2>2, <2>3 DEF UnderWay, Pending
<1>5. CASE IoRecompile(v)
  <2>1. blk'[v] = NoBlock /\ UNCHANGED <<slot, history>>
    BY <1>5 DEF IoRecompile, TypeOK
  <2>2. QED BY <2>1 DEF UnderWay, Pending, slot, history
<1>6. ASSUME NEW c \in Contexts, CtxChanged(v, c)
      PROVE  UnderWay(v)' /\ Pending(v)'
  <2>1. ~prev_valid'[v] /\ broken'[v] # "no"
    BY <1>6 DEF CtxChanged, TypeOK
  <2>2. UNCHANGED <<guest, ended>>
    BY <1>6 DEF CtxChanged
  <2>3. QED BY <2>1, <2>2 DEF UnderWay, Pending, guest
<1>7. QED BY <1>1, <1>2, <1>3, <1>4, <1>5, <1>6
            DEF Step, Interrupt, Exception

LEMMA PendingNext == TypeOK /\ PendingInv /\ [Next]_vars => PendingInv'
<1> SUFFICES ASSUME TypeOK, PendingInv, [Next]_vars, settings'.edges,
                    HaveDiscon, NEW w \in Vcpus, HasSlot(w)'
             PROVE  UnderWay(w)' /\ Pending(w)'
  BY DEF PendingInv
<1>1. TypeOK' /\ settings.edges /\ HasSlot(w) /\ UnderWay(w) /\ Pending(w)
  BY NextType, SettingsFixed DEF PendingInv
<1>2. ASSUME NEW v \in Vcpus, Step(v) PROVE UnderWay(w)' /\ Pending(w)'
  <2>1. CASE v = w
    BY <1>1, <1>2, <2>1, PendingStep
  <2>2. CASE v # w
    <3>1. Untouched(w)
      BY <1>2, <2>2, OthersUntouched
    <3>2. QED BY <1>1, <3>1 DEF Untouched, UnderWay, Pending
  <2>3. QED BY <2>1, <2>2
<1>3. CASE UNCHANGED vars
  BY <1>1, <1>3 DEF vars, guest, slot, history, UnderWay, Pending
<1>4. QED BY <1>2, <1>3 DEF Next

LEMMA PendingInit == Init => PendingInv
BY DEF Init, PendingInv, UnderWay, Pending

(* The pending source is the end of the block just run, and nothing else,  *)
(* whatever the blocks, the filter and the interleaving.                   *)
THEOREM PendingSourceCorrect == Spec => []PendingSource
<1>1. Init => TypeOK /\ PendingInv
  BY InitType, PendingInit
<1>2. TypeOK /\ PendingInv /\ [Next]_vars => (TypeOK /\ PendingInv)'
  BY NextType, PendingNext
<1>3. TypeOK /\ PendingInv => PendingSource
  BY DEF PendingInv, Pending, PendingSource
<1>4. QED BY <1>1, <1>2, <1>3, PTL DEF Spec

-----------------------------------------------------------------------------
(* The edge tables.                                                        *)

EdgesGrow ==
  settings.edges /\ HaveDiscon =>
    \A v \in Vcpus : HasSlot(v) =>
      \A k \in EdgeKeys :
        edges'[v][k] = edges[v][k] + IF Transfers(v, k) THEN 1 ELSE 0

LEMMA EdgesStep ==
  TypeOK /\ PendingInv /\ [Next]_vars => EdgesGrow
<1> SUFFICES ASSUME TypeOK, PendingInv, [Next]_vars, settings.edges,
                    HaveDiscon, NEW w \in Vcpus, HasSlot(w),
                    NEW k \in EdgeKeys
             PROVE  edges'[w][k]
                      = edges[w][k] + IF Transfers(w, k) THEN 1 ELSE 0
  BY DEF EdgesGrow
<1>1. Pending(w) /\ edges[w][k] \in Nat
  BY DEF PendingInv, TypeOK
<1>2. ASSUME edges'[w] = edges[w], entries'[w] = entries[w]
      PROVE  edges'[w][k]
               = edges[w][k] + IF Transfers(w, k) THEN 1 ELSE 0
  BY <1>1, <1>2 DEF Transfers, EntersInstrumented
<1>3. ASSUME NEW v \in Vcpus, Step(v)
      PROVE  edges'[w][k]
               = edges[w][k] + IF Transfers(w, k) THEN 1 ELSE 0
  <2>1. CASE v # w
    BY <1>2, <1>3, <2>1, OthersUntouched DEF Untouched
  <2>2. ASSUME v = w, NEW b \in Blocks, EnterBlock(w, b)
        PROVE  edges'[w][k]
                 = edges[w][k] + IF Transfers(w, k) THEN 1 ELSE 0
    <3>1. blk'[w] = b /\ entries'[w] # entries[w]
      BY <2>2 DEF EnterBlock, TypeOK
    <3>2. CASE Instrumented(b) /\ prev_valid[w]
      <4>1. <<cur_ctx[w], prev_src[w], Start[b]>> \in EdgeKeys
        <5>1. 0 \in Nat /\ 0 < Size[b]
          BY RecorderAssumption
        <5>2. Start[b] \in Addr
          BY <5>1, InsnAddr
        <5>3. cur_ctx[w] \in Contexts /\ prev_src[w] \in Addr
          BY <3>2 DEF TypeOK
        <5>4. QED BY <5>2, <5>3 DEF EdgeKeys
      <4>2. PICK key \in EdgeKeys :
              key = <<cur_ctx[w], prev_src[w], Start[b]>>
        BY <4>1
      <4>3. edges' = Bump(edges, w, key)
        BY <2>2, <3>2, <4>2 DEF EnterBlock, TbEntryCallback, RecordEdge
      <4>4. edges \in [Vcpus -> [EdgeKeys -> Nat]]
        BY DEF TypeOK
      <4>5. edges'[w][k] = edges[w][k] + IF k = key THEN 1 ELSE 0
        BY <4>3, <4>4 DEF Bump
      <4>6. Transfers(w, k) <=> k = key
        BY <1>1, <3>1, <3>2, <4>2 DEF Transfers, EntersInstrumented, Pending
      <4>7. QED BY <4>5, <4>6
    <3>3. CASE ~(Instrumented(b) /\ prev_valid[w])
      <4>1. edges' = edges
        <5>1. CASE Instrumented(b)
          BY <2>2, <3>3, <5>1 DEF EnterBlock, TbEntryCallback, RecordEdge
        <5>2. CASE ~Instrumented(b)
          BY <2>2, <5>2 DEF EnterBlock
        <5>3. QED BY <5>1, <5>2
      <4>2. ~Transfers(w, k)
        BY <1>1, <3>1, <3>3 DEF Transfers, EntersInstrumented, Pending
      <4>3. QED BY <1>1, <4>1, <4>2
    <3>4. QED BY <3>2, <3>3
  <2>3. CASE ~(\E b \in Blocks : EnterBlock(v, b))
    <3>1. edges' = edges /\ entries' = entries
      BY <1>3, <2>3 DEF Step, VcpuInit, ReachInsn, Interrupt, Exception,
                        Redirect, IoRecompile, CtxChanged, slot, history
    <3>2. QED BY <1>2, <3>1
  <2>4. QED BY <2>1, <2>2, <2>3
<1>4. CASE UNCHANGED vars
  BY <1>2, <1>4 DEF vars, slot, history
<1>5. QED BY <1>3, <1>4 DEF Next

(* Edges are counted exactly: every step adds the transfer the guest made  *)
(* in it, in the context it was made in, and nothing else.                 *)
THEOREM EdgesCorrect == Spec => EdgesExact
<1>1. Init => TypeOK /\ PendingInv
  BY InitType, PendingInit
<1>2. TypeOK /\ PendingInv /\ [Next]_vars => (TypeOK /\ PendingInv)'
  BY NextType, PendingNext
<1>3. TypeOK /\ PendingInv /\ [Next]_vars => [EdgesGrow]_vars
  BY EdgesStep
<1>4. QED BY <1>1, <1>2, <1>3, PTL DEF Spec, EdgesExact, EdgesGrow

-----------------------------------------------------------------------------
(* The early exits.                                                        *)

(* The block a slot believes unfinished is the one its vCPU is in the      *)
(* middle of, or the one it abandoned and has to resume.                   *)
OpenIsCurrent(v) ==
  cur_tb[v] # NoBlock /\ ~cur_done[v] =>
    /\ Instrumented(cur_tb[v])
    /\ \/ /\ blk[v] = cur_tb[v] /\ idx[v] < Size[cur_tb[v]]
          /\ entry_ctx[v] = cur_tb_ctx[v]
       \/ blk[v] = NoBlock /\ resume[v] \in Extent(cur_tb[v])

(* Conversely an instrumented block under way is in the slot.              *)
CurrentIsOpen(v) ==
  blk[v] # NoBlock /\ idx[v] < Size[blk[v]] /\ Instrumented(blk[v]) =>
    /\ cur_tb[v] = blk[v] /\ ~cur_done[v]
    /\ cur_tb_ctx[v] = entry_ctx[v]

(* ExitsAccount for one vCPU, context, block and instruction.              *)
Balanced(v, c, b, a) ==
  exits[v][<<c, b, a>>] + reached[v][<<c, b, a>>]
    + (IF Unfinished(v, c, b, a) THEN 1 ELSE 0)
  = IF a = Start[b] THEN entered[v][<<c, b>>] ELSE reached[v][<<c, b, a - 1>>]

Accounted(v) ==
  \A c \in Contexts, b \in Blocks : Instrumented(b) =>
    \A a \in Extent(b) : Balanced(v, c, b, a)

ExitsInv ==
  settings.tb_table /\ FilterAligned /\ HaveDiscon =>
    \A v \in Vcpus : HasSlot(v) =>
      OpenIsCurrent(v) /\ CurrentIsOpen(v) /\ Accounted(v)

LEMMA ExitsInit == Init => ExitsInv
<1> SUFFICES ASSUME Init, NEW v \in Vcpus
             PROVE  OpenIsCurrent(v) /\ CurrentIsOpen(v) /\ Accounted(v)
  BY DEF ExitsInv
<1>1. OpenIsCurrent(v) /\ CurrentIsOpen(v)
  BY DEF Init, OpenIsCurrent, CurrentIsOpen
<1>2. ASSUME NEW c \in Contexts, NEW b \in Blocks, NEW a \in Extent(b)
      PROVE  Balanced(v, c, b, a)
  <2>1. Start[b] \in Nat /\ Size[b] \in Nat /\ NoBlock # b
    BY RecorderAssumption
  <2>2. /\ <<c, b>> \in BlockKeys /\ <<c, b, a>> \in ExitKeys
        /\ a # Start[b] => <<c, b, a - 1>> \in ExitKeys
    <3>1. a # Start[b] => a - 1 \in Extent(b)
      BY <2>1 DEF Extent
    <3>2. Extent(b) \subseteq Pcs
      BY AddrNat DEF Addr
    <3>3. QED BY <3>1, <3>2 DEF BlockKeys, ExitKeys
  <2>3. ~Unfinished(v, c, b, a)
    BY <2>1 DEF Init, Unfinished
  <2>4. exits[v][<<c, b, a>>] = 0 /\ reached[v][<<c, b, a>>] = 0
    BY <2>2 DEF Init
  <2>5. a # Start[b] => reached[v][<<c, b, a - 1>>] = 0
    BY <2>2 DEF Init
  <2>6. entered[v][<<c, b>>] = 0
    BY <2>2 DEF Init
  <2>7. QED BY <2>3, <2>4, <2>5, <2>6 DEF Balanced
<1>3. QED BY <1>1, <1>2 DEF Accounted

(* The keys that Balanced compares, and the naturals found there.          *)
LEMMA BalanceKeys ==
  ASSUME TypeOK, NEW v \in Vcpus, NEW c \in Contexts, NEW b \in Blocks,
         NEW a \in Extent(b)
  PROVE  /\ <<c, b>> \in BlockKeys /\ <<c, b, a>> \in ExitKeys
         /\ a # Start[b] => <<c, b, a - 1>> \in ExitKeys
         /\ exits[v][<<c, b, a>>] \in Nat /\ reached[v][<<c, b, a>>] \in Nat
         /\ entered[v][<<c, b>>] \in Nat
         /\ a # Start[b] => reached[v][<<c, b, a - 1>>] \in Nat
<1>1. Start[b] \in Nat /\ Size[b] \in Nat
  BY RecorderAssumption
<1>2. a # Start[b] => a - 1 \in Extent(b)
  BY <1>1 DEF Extent
<1>3. Extent(b) \subseteq Pcs
  BY AddrNat DEF Addr
<1>4. /\ <<c, b>> \in BlockKeys /\ <<c, b, a>> \in ExitKeys
      /\ a # Start[b] => <<c, b, a - 1>> \in ExitKeys
  BY <1>2, <1>3 DEF BlockKeys, ExitKeys
<1>5. exits[v] \in [ExitKeys -> Nat] /\ reached[v] \in [ExitKeys -> Nat]
  BY DEF TypeOK
<1>6. entered[v] \in [BlockKeys -> Nat]
  BY DEF TypeOK
<1>7. QED BY <1>4, <1>5, <1>6

(* A step that changes none of what Balanced reads keeps it.               *)
LEMMA BalanceKept ==
  ASSUME NEW v \in Vcpus, Accounted(v),
         exits'[v] = exits[v], reached'[v] = reached[v],
         entered'[v] = entered[v],
         \A c \in Contexts, b \in Blocks, a \in Addr :
           Unfinished(v, c, b, a)' <=> Unfinished(v, c, b, a)
  PROVE  Accounted(v)'
<1> SUFFICES ASSUME NEW c \in Contexts, NEW b \in Blocks, Instrumented(b),
                    NEW a \in Extent(b)
             PROVE  Balanced(v, c, b, a)'
  BY DEF Accounted, Instrumented, Extent
<1>1. Balanced(v, c, b, a)
  BY DEF Accounted
<1>2. Unfinished(v, c, b, a)' <=> Unfinished(v, c, b, a)
  BY DEF Addr
<1>3. QED BY <1>1, <1>2 DEF Balanced

LEMMA ExitsEnter ==
  ASSUME TypeOK, settings.tb_table, FilterAligned,
         NEW v \in Vcpus, HasSlot(v),
         OpenIsCurrent(v), CurrentIsOpen(v), Accounted(v),
         NEW e \in Blocks, EnterBlock(v, e)
  PROVE  OpenIsCurrent(v)' /\ CurrentIsOpen(v)' /\ Accounted(v)'
<1>1. /\ Start[e] \in Nat /\ Size[e] \in Nat /\ Size[e] > 0
      /\ Start[e] \in Extent(e) /\ Start[e] \in Addr /\ Start[e] \in Pcs
      /\ e # NoBlock /\ NoAddr \notin Nat
  BY InsnAddr, AddrNat, RecorderAssumption
<1>2. /\ blk'[v] = e /\ idx'[v] = 0 /\ entry_ctx'[v] = cur_ctx[v]
      /\ entered' = Bump(entered, v, <<cur_ctx[v], e>>)
      /\ reached' = reached
  BY DEF EnterBlock, TypeOK
<1>3. ASSUME cur_tb[v] # NoBlock, ~cur_done[v]
      PROVE  /\ blk[v] = NoBlock /\ resume[v] = Start[e]
             /\ Start[e] \in Extent(cur_tb[v]) /\ Instrumented(e)
  <2>1. cur_tb[v] \in Blocks /\ Extent(cur_tb[v]) \subseteq Nat
    BY <1>3, AddrNat DEF TypeOK, Addr
  <2>2. blk[v] = NoBlock /\ resume[v] \in Extent(cur_tb[v])
    BY <1>3, <2>1, RecorderAssumption
       DEF OpenIsCurrent, EnterBlock, AtBoundary, TypeOK
  <2>3. resume[v] = Start[e]
    BY <1>1, <2>1, <2>2 DEF EnterBlock
  <2>4. Instrumented(e)
    BY <1>3, <2>1, <2>2, <2>3
       DEF OpenIsCurrent, FilterAligned, Instrumented
  <2>5. QED BY <2>2, <2>3, <2>4
<1>4. CASE Instrumented(e)
  <2>1. TbEnter(v, e)
    BY <1>4 DEF EnterBlock, TbEntryCallback
  <2>2. cur_tb'[v] = e /\ ~cur_done'[v] /\ cur_tb_ctx'[v] = cur_ctx[v]
    BY <2>1 DEF TbEnter, TypeOK
  <2>3. OpenIsCurrent(v)' /\ CurrentIsOpen(v)'
    BY <1>1, <1>2, <1>4, <2>2
       DEF OpenIsCurrent, CurrentIsOpen, Instrumented
  <2>4. ASSUME NEW c \in Contexts, NEW b \in Blocks, Instrumented(b),
               NEW a \in Extent(b)
        PROVE  Balanced(v, c, b, a)'
    <3>1. Balanced(v, c, b, a)
      BY <2>4 DEF Accounted
    <3>2. Unfinished(v, c, b, a)
            <=> /\ InsideUnfinished(v, Start[e])
                /\ <<c, b, a>> = <<cur_tb_ctx[v], cur_tb[v], Start[e]>>
      BY <1>1, <1>3, RecorderAssumption DEF Unfinished, At, InsideUnfinished, Holds
    <3>3. exits'[v][<<c, b, a>>] = exits[v][<<c, b, a>>]
            + (IF Unfinished(v, c, b, a) THEN 1 ELSE 0)
      <4>1. PICK k \in ExitKeys : k = <<c, b, a>>
        BY BalanceKeys
      <4>2. exits \in [Vcpus -> [ExitKeys -> Nat]]
        BY DEF TypeOK
      <4>3. CASE InsideUnfinished(v, Start[e])
        <5>1. PICK j \in ExitKeys :
                j = <<cur_tb_ctx[v], cur_tb[v], Start[e]>>
          BY <1>1, <4>3 DEF InsideUnfinished, TypeOK, ExitKeys
        <5>2. exits' = Bump(exits, v, j)
          BY <2>1, <4>3, <5>1 DEF TbEnter, RecordExit
        <5>3. exits'[v][k] = exits[v][k] + IF k = j THEN 1 ELSE 0
          BY <4>2, <5>2 DEF Bump
        <5>4. k = j <=> Unfinished(v, c, b, a)
          BY <3>2, <4>1, <4>3, <5>1
        <5>5. QED BY <4>1, <5>3, <5>4
      <4>4. CASE ~InsideUnfinished(v, Start[e])
        <5>1. exits' = exits
          BY <2>1, <4>4 DEF TbEnter
        <5>2. exits[v][k] \in Nat
          BY <4>2
        <5>3. QED BY <3>2, <4>1, <4>4, <5>1, <5>2
      <4>5. QED BY <4>3, <4>4
    <3>4. Unfinished(v, c, b, a)'
            <=> b = e /\ c = cur_ctx[v] /\ a = Start[e]
      BY <1>1, <1>2, <2>2 DEF Unfinished, At
    <3>5. entered'[v][<<c, b>>] = entered[v][<<c, b>>]
            + (IF b = e /\ c = cur_ctx[v] THEN 1 ELSE 0)
      <4>1. PICK k \in BlockKeys : k = <<c, b>>
        BY BalanceKeys
      <4>2. PICK j \in BlockKeys : j = <<cur_ctx[v], e>>
        BY DEF TypeOK, BlockKeys
      <4>3. /\ entered \in [Vcpus -> [BlockKeys -> Nat]]
            /\ entered' = Bump(entered, v, j)
        BY <1>2, <4>2 DEF TypeOK
      <4>4. entered'[v][k] = entered[v][k] + IF k = j THEN 1 ELSE 0
        BY <4>3 DEF Bump
      <4>5. QED BY <4>1, <4>2, <4>4
    <3>6. QED BY <1>2, <3>1, <3>3, <3>4, <3>5, BalanceKeys DEF Balanced
  <2>5. QED BY <2>3, <2>4 DEF Accounted, Instrumented, Extent
<1>5. CASE ~Instrumented(e)
  <2>1. UNCHANGED <<exits, cur_tb, cur_tb_ctx, cur_done>>
    BY <1>5 DEF EnterBlock
  <2>2. cur_tb[v] = NoBlock \/ cur_done[v]
    BY <1>3, <1>5
  <2>3. OpenIsCurrent(v)' /\ CurrentIsOpen(v)'
    BY <1>2, <1>5, <2>1, <2>2 DEF OpenIsCurrent, CurrentIsOpen, Instrumented
  <2>4. ASSUME NEW c \in Contexts, NEW b \in Blocks, Instrumented(b),
               NEW a \in Extent(b)
        PROVE  Balanced(v, c, b, a)'
    <3>1. Balanced(v, c, b, a) /\ b # NoBlock
      BY <2>4, RecorderAssumption DEF Accounted
    <3>2. ~Unfinished(v, c, b, a) /\ ~Unfinished(v, c, b, a)'
      BY <2>1, <2>2, <3>1 DEF Unfinished
    <3>3. entered'[v][<<c, b>>] = entered[v][<<c, b>>]
      <4>1. PICK k \in BlockKeys : k = <<c, b>>
        BY BalanceKeys
      <4>2. PICK j \in BlockKeys : j = <<cur_ctx[v], e>>
        BY DEF TypeOK, BlockKeys
      <4>3. k # j
        BY <1>5, <2>4, <4>1, <4>2
      <4>4. entered'[v][k] = entered[v][k]
        BY <1>2, <4>2, <4>3 DEF Bump, TypeOK
      <4>5. QED BY <4>1, <4>4
    <3>4. QED BY <1>2, <2>1, <3>1, <3>2, <3>3 DEF Balanced
  <2>5. QED BY <2>3, <2>4 DEF Accounted, Instrumented, Extent
<1>6. QED BY <1>4, <1>5

LEMMA ExitsReach ==
  ASSUME TypeOK, settings.tb_table,
         NEW v \in Vcpus, HasSlot(v),
         OpenIsCurrent(v), CurrentIsOpen(v), Accounted(v), ReachInsn(v)
  PROVE  OpenIsCurrent(v)' /\ CurrentIsOpen(v)' /\ Accounted(v)'
<1>1. PICK e \in Blocks : e = blk[v]
  BY DEF ReachInsn, TypeOK
<1>2. PICK i \in Nat : i = idx[v]
  BY DEF TypeOK
<1>3. /\ Start[e] \in Nat /\ Size[e] \in Nat /\ i < Size[e] /\ e # NoBlock
      /\ Start[e] + i \in Extent(e)
  BY <1>1, <1>2, InsnAddr, RecorderAssumption DEF ReachInsn
<1>4. PICK j \in ExitKeys : j = <<entry_ctx[v], e, Start[e] + i>>
  BY <1>3, BalanceKeys DEF TypeOK
<1>5. /\ idx'[v] = i + 1
      /\ reached' = Bump(reached, v, j)
      /\ UNCHANGED <<blk, resume, entry_ctx, exits, entered, cur_tb,
                     cur_tb_ctx>>
  BY <1>1, <1>2, <1>4 DEF ReachInsn, TypeOK
<1>6. ASSUME NEW k \in ExitKeys
      PROVE  reached'[v][k] = reached[v][k] + IF k = j THEN 1 ELSE 0
  <2>1. reached \in [Vcpus -> [ExitKeys -> Nat]]
    BY DEF TypeOK
  <2>2. QED BY <1>5, <2>1 DEF Bump
<1>7. CASE Instrumented(e)
  <2>1. cur_tb[v] = e /\ ~cur_done[v] /\ cur_tb_ctx[v] = entry_ctx[v]
    BY <1>1, <1>2, <1>3, <1>7 DEF CurrentIsOpen
  <2>2. cur_done'[v] <=> i + 1 = Size[e]
    <3>1. CASE i + 1 = Size[e]
      <4>1. LastInsnCallback(v, Start[e] + i)
        BY <1>1, <1>2, <1>7, <3>1 DEF ReachInsn
      <4>2. cur_done' = [cur_done EXCEPT ![v] = cur_done[v] \/ HasSlot(v)]
        BY <4>1 DEF LastInsnCallback
      <4>3. QED BY <3>1, <4>2 DEF TypeOK
    <3>2. CASE i + 1 # Size[e]
      <4>1. cur_done' = cur_done
        BY <1>1, <1>2, <3>2 DEF ReachInsn
      <4>2. QED BY <2>1, <3>2, <4>1
    <3>3. QED BY <3>1, <3>2
  <2>3. OpenIsCurrent(v)' /\ CurrentIsOpen(v)'
    BY <1>1, <1>2, <1>3, <1>5, <1>7, <2>1, <2>2
       DEF OpenIsCurrent, CurrentIsOpen, Instrumented
  <2>4. ASSUME NEW c \in Contexts, NEW b \in Blocks, Instrumented(b),
               NEW a \in Extent(b)
        PROVE  Balanced(v, c, b, a)'
    <3>1. Balanced(v, c, b, a) /\ a \in Nat /\ Start[b] \in Nat
      BY <2>4, RecorderAssumption DEF Accounted, Extent
    <3>2. Unfinished(v, c, b, a)
            <=> b = e /\ c = entry_ctx[v] /\ a = Start[e] + i
      BY <1>1, <1>2, <1>3, <2>1 DEF Unfinished, At
    <3>3. Unfinished(v, c, b, a)'
            <=> b = e /\ c = entry_ctx[v] /\ a = Start[e] + i + 1
      <4>1. blk'[v] = e
        BY <1>1, <1>5
      <4>2. a = Start[e] + i + 1 /\ b = e => i + 1 # Size[e]
        BY <1>3 DEF Extent
      <4>3. QED BY <1>3, <1>5, <2>1, <2>2, <4>1, <4>2 DEF Unfinished, At
    <3>4. reached'[v][<<c, b, a>>] = reached[v][<<c, b, a>>]
            + (IF Unfinished(v, c, b, a) THEN 1 ELSE 0)
      <4>1. <<c, b, a>> \in ExitKeys
        BY BalanceKeys
      <4>2. <<c, b, a>> = j <=> Unfinished(v, c, b, a)
        BY <1>4, <3>2
      <4>3. QED BY <1>6, <4>1, <4>2
    <3>5. a # Start[b] =>
            reached'[v][<<c, b, a - 1>>] = reached[v][<<c, b, a - 1>>]
              + (IF Unfinished(v, c, b, a)' THEN 1 ELSE 0)
      <4>1. SUFFICES ASSUME a # Start[b]
                     PROVE  reached'[v][<<c, b, a - 1>>]
                              = reached[v][<<c, b, a - 1>>]
                                + (IF Unfinished(v, c, b, a)' THEN 1 ELSE 0)
        OBVIOUS
      <4>2. <<c, b, a - 1>> \in ExitKeys
        BY <4>1, BalanceKeys
      <4>3. <<c, b, a - 1>> = j <=> Unfinished(v, c, b, a)'
        BY <1>3, <1>4, <3>1, <3>3
      <4>4. QED BY <1>6, <4>2, <4>3
    <3>6. a = Start[b] => ~Unfinished(v, c, b, a)'
      BY <1>3, <3>1, <3>3
    <3>7. QED BY <1>5, <3>1, <3>4, <3>5, <3>6, BalanceKeys DEF Balanced
  <2>5. QED BY <2>3, <2>4 DEF Accounted, Instrumented, Extent
<1>8. CASE ~Instrumented(e)
  <2>1. cur_done' = cur_done
    BY <1>1, <1>8 DEF ReachInsn
  <2>2. cur_tb[v] = NoBlock \/ cur_done[v]
    BY <1>1, <1>3, <1>8 DEF OpenIsCurrent
  <2>3. OpenIsCurrent(v)' /\ CurrentIsOpen(v)'
    BY <1>1, <1>5, <1>8, <2>1, <2>2
       DEF OpenIsCurrent, CurrentIsOpen, Instrumented
  <2>4. ASSUME NEW c \in Contexts, NEW b \in Blocks, Instrumented(b),
               NEW a \in Extent(b)
        PROVE  Balanced(v, c, b, a)'
    <3>1. Balanced(v, c, b, a) /\ b # NoBlock /\ b # e
      BY <1>8, <2>4, RecorderAssumption DEF Accounted
    <3>2. ~Unfinished(v, c, b, a) /\ ~Unfinished(v, c, b, a)'
      BY <1>5, <2>1, <2>2, <3>1 DEF Unfinished
    <3>3. \A x : <<c, b, x>> # j
      BY <1>4, <3>1
    <3>4. ASSUME NEW k \in ExitKeys, k # j
          PROVE  reached'[v][k] = reached[v][k]
      <4>1. reached[v][k] \in Nat
        BY DEF TypeOK
      <4>2. QED BY <1>6, <3>4, <4>1
    <3>5. /\ reached'[v][<<c, b, a>>] = reached[v][<<c, b, a>>]
          /\ a # Start[b] =>
               reached'[v][<<c, b, a - 1>>] = reached[v][<<c, b, a - 1>>]
      <4>1. /\ <<c, b, a>> \in ExitKeys
            /\ a # Start[b] => <<c, b, a - 1>> \in ExitKeys
        BY BalanceKeys
      <4>2. QED BY <3>3, <3>4, <4>1
    <3>6. QED BY <1>5, <3>1, <3>2, <3>5 DEF Balanced
  <2>5. QED BY <2>3, <2>4 DEF Accounted, Instrumented, Extent
<1>9. QED BY <1>7, <1>8

(* The program counter an interrupt or an exception reports leads          *)
(* vcpu_discon to the first instruction of the open block not reached.     *)
LEMMA ExitsRedirect ==
  ASSUME TypeOK, settings.tb_table, HaveDiscon,
         NEW v \in Vcpus, HasSlot(v),
         OpenIsCurrent(v), Accounted(v),
         NEW at \in Addr, NEW type, Discon(v, at, type), Redirect(v),
         cur_tb[v] # NoBlock /\ ~cur_done[v] =>
           /\ at \in Extent(cur_tb[v]) /\ At(v) \in Extent(cur_tb[v])
           /\ At(v) = IF type = "exception" THEN at + 1 ELSE at
  PROVE  OpenIsCurrent(v)' /\ CurrentIsOpen(v)' /\ Accounted(v)'
<1>1. /\ exits' = IF InsideUnfinished(v, at)
                    THEN RecordExit(v, IF type = "exception"
                                         THEN at + 1 ELSE at)
                    ELSE exits
      /\ cur_tb' = [cur_tb EXCEPT ![v] = NoBlock]
  BY DEF Discon
<1>2. cur_tb'[v] = NoBlock
  BY <1>1 DEF TypeOK
<1>3. blk'[v] = NoBlock /\ UNCHANGED <<entered, reached, cur_tb_ctx>>
  BY DEF Redirect, TypeOK
<1>4. OpenIsCurrent(v)' /\ CurrentIsOpen(v)'
  BY <1>2, <1>3 DEF OpenIsCurrent, CurrentIsOpen
<1>5. InsideUnfinished(v, at) <=> cur_tb[v] # NoBlock /\ ~cur_done[v]
  BY DEF InsideUnfinished, Holds
<1>6. ASSUME NEW c \in Contexts, NEW b \in Blocks, Instrumented(b),
             NEW a \in Extent(b)
      PROVE  Balanced(v, c, b, a)'
  <2>1. Balanced(v, c, b, a) /\ b # NoBlock
    BY <1>6, RecorderAssumption DEF Accounted
  <2>2. ~Unfinished(v, c, b, a)'
    BY <1>2, <2>1 DEF Unfinished
  <2>3. exits'[v][<<c, b, a>>] = exits[v][<<c, b, a>>]
          + (IF Unfinished(v, c, b, a) THEN 1 ELSE 0)
    <3>1. PICK k \in ExitKeys : k = <<c, b, a>>
      BY BalanceKeys
    <3>2. exits \in [Vcpus -> [ExitKeys -> Nat]]
      BY DEF TypeOK
    <3>3. CASE InsideUnfinished(v, at)
      <4>1. cur_tb[v] \in Blocks /\ At(v) \in Extent(cur_tb[v])
        BY <1>5, <3>3 DEF TypeOK
      <4>2. PICK j \in ExitKeys : j = <<cur_tb_ctx[v], cur_tb[v], At(v)>>
        BY <4>1, BalanceKeys DEF TypeOK
      <4>3. exits' = Bump(exits, v, j)
        BY <1>1, <1>5, <3>3, <4>2 DEF RecordExit
      <4>4. exits'[v][k] = exits[v][k] + IF k = j THEN 1 ELSE 0
        BY <3>2, <4>3 DEF Bump
      <4>5. k = j <=> Unfinished(v, c, b, a)
        BY <1>5, <2>1, <3>1, <3>3, <4>2 DEF Unfinished
      <4>6. QED BY <3>1, <4>4, <4>5
    <3>4. CASE ~InsideUnfinished(v, at)
      <4>1. exits' = exits /\ ~Unfinished(v, c, b, a)
        BY <1>1, <1>5, <2>1, <3>4 DEF Unfinished
      <4>2. exits[v][k] \in Nat
        BY <3>2
      <4>3. QED BY <3>1, <4>1, <4>2
    <3>5. QED BY <3>3, <3>4
  <2>4. QED BY <1>3, <2>1, <2>2, <2>3, BalanceKeys DEF Balanced
<1>7. QED BY <1>4, <1>6 DEF Accounted, Instrumented, Extent

(* What the slot's open block says of the interrupted instruction.         *)
LEMMA ReportedPc ==
  ASSUME TypeOK, NEW v \in Vcpus, OpenIsCurrent(v), NEW at \in Addr,
         cur_tb[v] # NoBlock, ~cur_done[v]
  PROVE  /\ Interrupt(v, at) =>
              at \in Extent(cur_tb[v]) /\ At(v) = at
         /\ Exception(v, at) =>
              /\ at \in Extent(cur_tb[v]) /\ At(v) = at + 1
              /\ At(v) \in Extent(cur_tb[v])
<1>1. PICK b \in Blocks : b = cur_tb[v]
  BY DEF TypeOK
<1>2. PICK i \in Nat : i = idx[v]
  BY DEF TypeOK
<1>3. /\ Start[b] \in Nat /\ Size[b] \in Nat /\ NoAddr \notin Nat
      /\ Extent(b) \subseteq Nat
  BY RecorderAssumption DEF Extent
<1>4. CASE blk[v] = b /\ i < Size[b]
  <2>1. ~AtBoundary(v) /\ At(v) = Start[b] + i /\ At(v) \in Extent(b)
    BY <1>1, <1>2, <1>3, <1>4, InsnAddr DEF AtBoundary, At
  <2>2. Interrupt(v, at) => at = Start[b] + i
    BY <1>2, <1>4, <2>1 DEF Interrupt, NextPc
  <2>3. Exception(v, at) => i >= 1 /\ at = Start[b] + i - 1
    BY <1>2, <1>4, <2>1 DEF Exception
  <2>4. i >= 1 => Start[b] + i - 1 \in Extent(b)
    BY <1>2, <1>3, <1>4 DEF Extent
  <2>5. Start[b] + i = (Start[b] + i - 1) + 1
    BY <1>3
  <2>6. QED BY <1>1, <2>1, <2>2, <2>3, <2>4, <2>5
<1>5. CASE blk[v] = NoBlock /\ resume[v] \in Extent(b)
  <2>1. resume[v] # NoAddr /\ At(v) = resume[v]
    BY <1>3, <1>5 DEF At
  <2>2. Interrupt(v, at) => at = resume[v]
    BY <1>5, <2>1 DEF Interrupt, NextPc, AtBoundary
  <2>3. ~Exception(v, at)
    BY <1>5, <2>1 DEF Exception
  <2>4. QED BY <1>1, <1>5, <2>1, <2>2, <2>3
<1>6. QED BY <1>1, <1>2, <1>4, <1>5 DEF OpenIsCurrent

LEMMA ExitsStep ==
  ASSUME TypeOK, settings.tb_table, FilterAligned, HaveDiscon,
         NEW v \in Vcpus, HasSlot(v),
         OpenIsCurrent(v), CurrentIsOpen(v), Accounted(v), Step(v)
  PROVE  OpenIsCurrent(v)' /\ CurrentIsOpen(v)' /\ Accounted(v)'
<1> DEFINE Goal == OpenIsCurrent(v)' /\ CurrentIsOpen(v)' /\ Accounted(v)'
<1>1. ASSUME UNCHANGED <<blk, idx, resume, cur_tb, cur_tb_ctx, cur_done,
                         exits, entry_ctx, entered, reached>>
      PROVE  Goal
  <2>1. OpenIsCurrent(v)' /\ CurrentIsOpen(v)'
    BY <1>1 DEF OpenIsCurrent, CurrentIsOpen, Instrumented
  <2>2. \A c \in Contexts, b \in Blocks, a \in Addr :
          Unfinished(v, c, b, a)' <=> Unfinished(v, c, b, a)
    BY <1>1 DEF Unfinished, At
  <2>3. Accounted(v)'
    BY <1>1, <2>2, BalanceKept
  <2>4. QED BY <2>1, <2>3
<1>2. ASSUME NEW c \in Contexts, VcpuInit(v, c) \/ CtxChanged(v, c)
      PROVE  Goal
  <2>1. UNCHANGED <<blk, idx, resume, cur_tb, cur_tb_ctx, cur_done,
                    exits, entry_ctx, entered, reached>>
    BY <1>2 DEF VcpuInit, CtxChanged, guest, history
  <2>2. QED BY <1>1, <2>1
<1>3. ASSUME NEW b \in Blocks, EnterBlock(v, b) PROVE Goal
  BY <1>3, ExitsEnter
<1>4. CASE ReachInsn(v)
  BY <1>4, ExitsReach
<1>5. ASSUME NEW at \in Addr, Interrupt(v, at) PROVE Goal
  <2>1. Discon(v, at, "interrupt") /\ Redirect(v)
    BY <1>5 DEF Interrupt
  <2>2. cur_tb[v] # NoBlock /\ ~cur_done[v] =>
          at \in Extent(cur_tb[v]) /\ At(v) = at
    BY <1>5, ReportedPc
  <2>3. QED BY <2>1, <2>2, ExitsRedirect
<1>6. ASSUME NEW at \in Addr, Exception(v, at) PROVE Goal
  <2>1. Discon(v, at, "exception") /\ Redirect(v)
    BY <1>6 DEF Exception
  <2>2. cur_tb[v] # NoBlock /\ ~cur_done[v] =>
          /\ at \in Extent(cur_tb[v]) /\ At(v) = at + 1
          /\ At(v) \in Extent(cur_tb[v])
    BY <1>6, ReportedPc
  <2>3. QED BY <2>1, <2>2, ExitsRedirect
<1>7. CASE IoRecompile(v)
  <2>1. PICK b \in Blocks : b = blk[v]
    BY <1>7 DEF IoRecompile, TypeOK
  <2>2. PICK i \in Nat : i = idx[v]
    BY DEF TypeOK
  <2>3. /\ i < Size[b] /\ b # NoBlock /\ Start[b] + i \in Extent(b)
        /\ blk'[v] = NoBlock /\ resume'[v] = Start[b] + i
        /\ UNCHANGED <<cur_tb, cur_tb_ctx, cur_done, exits, entry_ctx,
                       entered, reached>>
    BY <1>7, <2>1, <2>2, InsnAddr, RecorderAssumption
       DEF IoRecompile, TypeOK, slot, history
  <2>4. OpenIsCurrent(v)' /\ CurrentIsOpen(v)'
    BY <2>1, <2>3 DEF OpenIsCurrent, CurrentIsOpen, Instrumented
  <2>5. At(v)' = At(v)
    BY <2>1, <2>2, <2>3 DEF At
  <2>6. \A c \in Contexts, b1 \in Blocks, a \in Addr :
          Unfinished(v, c, b1, a)' <=> Unfinished(v, c, b1, a)
    BY <2>3, <2>5 DEF Unfinished
  <2>7. Accounted(v)'
    BY <2>3, <2>6, BalanceKept
  <2>8. QED BY <2>4, <2>7
<1>8. QED BY <1>2, <1>3, <1>4, <1>5, <1>6, <1>7 DEF Step

LEMMA ExitsNext == TypeOK /\ ExitsInv /\ [Next]_vars => ExitsInv'
<1> SUFFICES ASSUME TypeOK, ExitsInv, [Next]_vars, settings'.tb_table,
                    FilterAligned, HaveDiscon,
                    NEW w \in Vcpus, HasSlot(w)'
             PROVE  OpenIsCurrent(w)' /\ CurrentIsOpen(w)' /\ Accounted(w)'
  BY DEF ExitsInv, FilterAligned, Instrumented, Extent
<1>1. /\ settings.tb_table /\ HasSlot(w)
      /\ OpenIsCurrent(w) /\ CurrentIsOpen(w) /\ Accounted(w)
  BY SettingsFixed DEF ExitsInv
<1>2. ASSUME Untouched(w)
      PROVE  OpenIsCurrent(w)' /\ CurrentIsOpen(w)' /\ Accounted(w)'
  <2>1. OpenIsCurrent(w)' /\ CurrentIsOpen(w)'
    BY <1>1, <1>2 DEF Untouched, OpenIsCurrent, CurrentIsOpen, Instrumented
  <2>2. \A c \in Contexts, b \in Blocks, a \in Addr :
          Unfinished(w, c, b, a)' <=> Unfinished(w, c, b, a)
    BY <1>2 DEF Untouched, Unfinished, At
  <2>3. Accounted(w)'
    BY <1>1, <1>2, <2>2, BalanceKept DEF Untouched
  <2>4. QED BY <2>1, <2>3
<1>3. ASSUME NEW v \in Vcpus, Step(v)
      PROVE  OpenIsCurrent(w)' /\ CurrentIsOpen(w)' /\ Accounted(w)'
  <2>1. CASE v = w
    BY <1>1, <1>3, <2>1, ExitsStep
  <2>2. CASE v # w
    BY <1>2, <1>3, <2>2, OthersUntouched
  <2>3. QED BY <2>1, <2>2
<1>4. CASE UNCHANGED vars
  BY <1>2, <1>4 DEF vars, guest, slot, history, Untouched
<1>5. QED BY <1>3, <1>4 DEF Next

(* The early exits recorded account for every execution of an instrumented *)
(* block, whatever interrupts, exceptions, abandoned blocks and context    *)
(* switches happen on however many vCPUs: so the count a reader derives    *)
(* for an instruction is the number of times it was reached.               *)
THEOREM ExitsCorrect == Spec => []ExitsAccount
<1>1. Init => TypeOK /\ ExitsInv
  BY InitType, ExitsInit
<1>2. TypeOK /\ ExitsInv /\ [Next]_vars => (TypeOK /\ ExitsInv)'
  BY NextType, ExitsNext
<1>3. TypeOK /\ ExitsInv => ExitsAccount
  BY DEF ExitsInv, Accounted, Balanced, ExitsAccount
<1>4. QED BY <1>1, <1>2, <1>3, PTL DEF Spec

(* What a TB-table artifact needs to be exact: finitely many vCPUs, all in *)
(* the slot table, finitely many blocks, none across a filter boundary     *)
(* (without which it is not: README, disagreements 7 and 8), and a QEMU    *)
(* that reports interrupts and exceptions.                                 *)
Covered ==
  /\ IsFiniteSet(Vcpus) /\ IsFiniteSet(Blocks)
  /\ \A v \in Vcpus : v < VcpuCap
  /\ FilterAligned /\ HaveDiscon

-----------------------------------------------------------------------------
(* The counts.                                                             *)

EntriesOf(b) == [v \in Vcpus |-> entered[v][<<0, b>>]]

CountedRight(b) ==
  IF settings.ctx
  THEN \A v \in Vcpus : \A c \in Contexts :
         ctx_tbs[v][<<c, b>>] = entered[v][<<c, b>>]
  ELSE /\ tb_count[b] = SumOver(EntriesOf(b), Vcpus)
       /\ \A v \in Vcpus : \A c \in Contexts \ {0} : entered[v][<<c, b>>] = 0

Uncounted(b) ==
  /\ tb_count[b] = 0
  /\ \A v \in Vcpus : \A c \in Contexts :
       /\ ctx_tbs[v][<<c, b>>] = 0
       /\ \A at \in Pcs : exits[v][<<c, b, at>>] = 0

CountsInv ==
  settings.tb_table =>
    /\ settings.mode # "tb-insn"
    /\ ~settings.ctx => \A v \in Vcpus : cur_ctx[v] = 0
    /\ \A v \in Vcpus : cur_tb[v] # NoBlock => Instrumented(cur_tb[v])
    /\ \A b \in Blocks : IF Instrumented(b) THEN CountedRight(b)
                                            ELSE Uncounted(b)

LEMMA CountsInit ==
  ASSUME Covered, Init
  PROVE  CountsInv
<1>1. settings.tb_table => settings.mode # "tb-insn"
  <2>1. PICK a \in Options : InstallAccepts(a) /\ settings = Resolve(a)
    BY DEF Init
  <2>2. a \in Args
    BY RecorderAssumption
  <2> QED
    BY <2>1, <2>2 DEF InstallAccepts, Resolve, Args, Modes
<1>2. \A v \in Vcpus : cur_ctx[v] = 0 /\ cur_tb[v] = NoBlock
  BY DEF Init
<1>3. ASSUME NEW b \in Blocks
      PROVE  /\ tb_count[b] = 0
             /\ \A v \in Vcpus : \A c \in Contexts :
                  /\ entered[v][<<c, b>>] = 0 /\ ctx_tbs[v][<<c, b>>] = 0
                  /\ \A at \in Pcs : exits[v][<<c, b, at>>] = 0
  <2>1. \A c \in Contexts : /\ <<c, b>> \in BlockKeys
                            /\ \A at \in Pcs : <<c, b, at>> \in ExitKeys
    BY DEF BlockKeys, ExitKeys
  <2> QED
    BY <2>1 DEF Init
<1>4. \A b \in Blocks : CountedRight(b) /\ Uncounted(b)
  <2> SUFFICES ASSUME NEW b \in Blocks PROVE CountedRight(b) /\ Uncounted(b)
    OBVIOUS
  <2>1. 0 \in Contexts
    BY RecorderAssumption
  <2>2. IsFiniteSet(Vcpus) /\ \A v \in Vcpus : EntriesOf(b)[v] = 0
    BY <1>3, <2>1 DEF EntriesOf, Covered
  <2>3. SumOver(EntriesOf(b), Vcpus) = 0
    BY <2>2, SumZero
  <2> QED
    BY <1>3, <2>3 DEF CountedRight, Uncounted
<1> QED
  BY <1>1, <1>2, <1>4 DEF CountsInv

(* A block keeps its counts where a step does not count it.                *)
LEMMA CountedKept ==
  ASSUME NEW b \in Blocks, settings' = settings, tb_count'[b] = tb_count[b],
         \A v \in Vcpus : \A c \in Contexts :
           /\ ctx_tbs'[v][<<c, b>>] = ctx_tbs[v][<<c, b>>]
           /\ entered'[v][<<c, b>>] = entered[v][<<c, b>>]
  PROVE  CountedRight(b) => CountedRight(b)'
<1>1. 0 \in Contexts
  BY RecorderAssumption
<1>2. EntriesOf(b)' = EntriesOf(b)
  BY <1>1 DEF EntriesOf
<1> QED
  BY <1>2 DEF CountedRight

LEMMA UncountedKept ==
  ASSUME NEW b \in Blocks, tb_count'[b] = tb_count[b],
         \A v \in Vcpus : \A c \in Contexts :
           /\ ctx_tbs'[v][<<c, b>>] = ctx_tbs[v][<<c, b>>]
           /\ \A at \in Pcs : exits'[v][<<c, b, at>>] = exits[v][<<c, b, at>>]
  PROVE  Uncounted(b) => Uncounted(b)'
  BY DEF Uncounted

LEMMA BumpBlock ==
  ASSUME NEW f \in [Vcpus -> [BlockKeys -> Nat]], NEW v \in Vcpus,
         NEW k \in BlockKeys, NEW w \in Vcpus, NEW c \in Contexts, NEW b \in Blocks
  PROVE  /\ f[w][<<c, b>>] \in Nat
         /\ Bump(f, v, k)[w][<<c, b>>]
              = f[w][<<c, b>>] + IF w = v /\ <<c, b>> = k THEN 1 ELSE 0
<1>1. PICK j \in BlockKeys : j = <<c, b>>
  BY DEF BlockKeys
<1>2. Bump(f, v, k)[w][j] = f[w][j] + IF w = v /\ j = k THEN 1 ELSE 0
  BY BumpTable
<1> QED
  BY <1>1, <1>2

(* Exits are recorded for instrumented blocks only.                        *)
LEMMA ExitsElsewhere ==
  ASSUME TypeOK, NEW v \in Vcpus, NEW at, Instrumented(cur_tb[v]),
         NEW b \in Blocks, ~Instrumented(b), NEW w \in Vcpus,
         NEW c \in Contexts, NEW a \in Pcs
  PROVE  RecordExit(v, at)[w][<<c, b, a>>] = exits[w][<<c, b, a>>]
<1>1. PICK j \in ExitKeys : j = <<c, b, a>>
  BY DEF ExitKeys
<1>2. PICK k : k = <<cur_tb_ctx[v], cur_tb[v], at>>
  OBVIOUS
<1>3. exits \in [Vcpus -> [ExitKeys -> Nat]] /\ j # k
  BY <1>1, <1>2 DEF TypeOK
<1>4. Bump(exits, v, k)[w][j] = exits[w][j]
  BY <1>3 DEF Bump
<1> QED
  BY <1>1, <1>2, <1>4 DEF RecordExit

-----------------------------------------------------------------------------
(* Entering a block counts it.                                             *)

LEMMA CountOthers ==
  ASSUME TypeOK, NEW v \in Vcpus, NEW e \in Blocks, EnterBlock(v, e),
         NEW b \in Blocks, b # e
  PROVE  /\ settings' = settings /\ tb_count'[b] = tb_count[b]
         /\ \A w \in Vcpus : \A c \in Contexts :
              /\ ctx_tbs'[w][<<c, b>>] = ctx_tbs[w][<<c, b>>]
              /\ entered'[w][<<c, b>>] = entered[w][<<c, b>>]
<1>1. /\ settings' = settings
      /\ entered' = Bump(entered, v, <<cur_ctx[v], e>>)
      /\ IF Instrumented(e) THEN CountEntry(v, e)
                            ELSE UNCHANGED <<tb_count, ctx_tbs>>
  BY DEF EnterBlock, TbEntryCallback
<1>2. tb_count'[b] = tb_count[b]
  BY <1>1 DEF CountEntry, TypeOK
<1>3. /\ ctx_tbs \in [Vcpus -> [BlockKeys -> Nat]]
      /\ entered \in [Vcpus -> [BlockKeys -> Nat]]
      /\ \A c \in Contexts : <<c, b>> \in BlockKeys /\ <<c, b>> # <<cur_ctx[v], e>>
  BY DEF TypeOK, BlockKeys
<1>4. ctx_tbs' = ctx_tbs \/ ctx_tbs' = Bump(ctx_tbs, v, <<cur_ctx[v], e>>)
  BY <1>1 DEF CountEntry
<1>5. ASSUME NEW w \in Vcpus, NEW c \in Contexts
      PROVE  /\ Bump(ctx_tbs, v, <<cur_ctx[v], e>>)[w][<<c, b>>] = ctx_tbs[w][<<c, b>>]
             /\ Bump(entered, v, <<cur_ctx[v], e>>)[w][<<c, b>>] = entered[w][<<c, b>>]
  <2>1. PICK k \in BlockKeys : k = <<cur_ctx[v], e>>
    BY DEF TypeOK, BlockKeys
  <2>2. k # <<c, b>>
    BY <2>1
  <2>3. /\ Bump(ctx_tbs, v, k)[w][<<c, b>>] = ctx_tbs[w][<<c, b>>]
        /\ Bump(entered, v, k)[w][<<c, b>>] = entered[w][<<c, b>>]
    <3>1. \A f \in [Vcpus -> [BlockKeys -> Nat]] :
            /\ f[w][<<c, b>>] \in Nat
            /\ Bump(f, v, k)[w][<<c, b>>]
                 = f[w][<<c, b>>] + IF w = v /\ <<c, b>> = k THEN 1 ELSE 0
      BY BumpBlock
    <3> QED
      BY <1>3, <2>2, <3>1
  <2> QED
    BY <2>1, <2>3
<1> QED
  BY <1>1, <1>2, <1>4, <1>5

LEMMA CountThis ==
  ASSUME TypeOK, Covered, settings.tb_table, settings.mode # "tb-insn",
         NEW v \in Vcpus, ~settings.ctx => cur_ctx[v] = 0,
         NEW e \in Blocks, EnterBlock(v, e), Instrumented(e), CountedRight(e)
  PROVE  CountedRight(e)'
<1> DEFINE key == <<cur_ctx[v], e>>
<1>1. /\ settings' = settings /\ HasSlot(v)
      /\ entered' = Bump(entered, v, key) /\ CountEntry(v, e)
  BY DEF EnterBlock, TbEntryCallback, HasSlot, Covered
<1>2. /\ entered \in [Vcpus -> [BlockKeys -> Nat]]
      /\ ctx_tbs \in [Vcpus -> [BlockKeys -> Nat]]
      /\ key \in BlockKeys /\ 0 \in Contexts
      /\ \A c \in Contexts : <<c, e>> \in BlockKeys
  BY RecorderAssumption DEF TypeOK, BlockKeys
<1>3. CASE settings.ctx
  <2>1. ctx_tbs' = Bump(ctx_tbs, v, key)
    BY <1>1, <1>3 DEF CountEntry
  <2>2. \A w \in Vcpus : \A c \in Contexts :
          ctx_tbs[w][<<c, e>>] = entered[w][<<c, e>>]
    BY <1>3 DEF CountedRight
  <2>3. \A w \in Vcpus : \A c \in Contexts :
          /\ Bump(ctx_tbs, v, key)[w][<<c, e>>]
               = ctx_tbs[w][<<c, e>>] + IF w = v /\ <<c, e>> = key THEN 1 ELSE 0
          /\ Bump(entered, v, key)[w][<<c, e>>]
               = entered[w][<<c, e>>] + IF w = v /\ <<c, e>> = key THEN 1 ELSE 0
    <3>1. key \in BlockKeys /\ entered \in [Vcpus -> [BlockKeys -> Nat]]
          /\ ctx_tbs \in [Vcpus -> [BlockKeys -> Nat]] /\ v \in Vcpus /\ e \in Blocks
      BY <1>2
    <3> HIDE DEF key
    <3>2. \A w \in Vcpus : \A c \in Contexts :
            Bump(ctx_tbs, v, key)[w][<<c, e>>]
              = ctx_tbs[w][<<c, e>>] + IF w = v /\ <<c, e>> = key THEN 1 ELSE 0
      BY ONLY <3>1, BumpBlock
    <3>3. \A w \in Vcpus : \A c \in Contexts :
            Bump(entered, v, key)[w][<<c, e>>]
              = entered[w][<<c, e>>] + IF w = v /\ <<c, e>> = key THEN 1 ELSE 0
      BY ONLY <3>1, BumpBlock
    <3> QED
      BY ONLY <3>2, <3>3
  <2>4. \A w \in Vcpus : \A c \in Contexts :
          ctx_tbs'[w][<<c, e>>] = entered'[w][<<c, e>>]
    BY <1>1, <2>1, <2>2, <2>3
  <2> QED
    BY <1>1, <1>3, <2>4 DEF CountedRight
<1>4. CASE ~settings.ctx
  <2>1. key = <<0, e>>
    BY <1>4
  <2>2. /\ tb_count[e] = SumOver(EntriesOf(e), Vcpus)
        /\ \A w \in Vcpus : \A c \in Contexts \ {0} : entered[w][<<c, e>>] = 0
    BY <1>4 DEF CountedRight
  <2>3. tb_count'[e] = tb_count[e] + 1
    BY <1>1, <1>4 DEF CountEntry, TypeOK
  <2>4. \A w \in Vcpus : \A c \in Contexts :
          Bump(entered, v, key)[w][<<c, e>>]
            = entered[w][<<c, e>>] + IF w = v /\ <<c, e>> = key THEN 1 ELSE 0
    <3>1. key \in BlockKeys /\ entered \in [Vcpus -> [BlockKeys -> Nat]]
          /\ v \in Vcpus /\ e \in Blocks
      BY <1>2
    <3> HIDE DEF key
    <3> QED
      BY ONLY <3>1, BumpBlock
  <2>5. \A w \in Vcpus : \A c \in Contexts \ {0} : entered'[w][<<c, e>>] = 0
    BY <1>1, <2>1, <2>2, <2>4
  <2> DEFINE old == EntriesOf(e)
             new == EntriesOf(e)'
  <2>6. /\ new[v] = old[v] + 1
        /\ \A w \in Vcpus \ {v} : new[w] = old[w]
        /\ \A w \in Vcpus : old[w] \in Nat
    <3>1. /\ \A w \in Vcpus : old[w] = entered[w][<<0, e>>]
          /\ \A w \in Vcpus : new[w] = entered'[w][<<0, e>>]
      BY DEF EntriesOf
    <3>2. \A w \in Vcpus : entered[w][<<0, e>>] \in Nat
      BY <1>2
    <3>3. \A w \in Vcpus : entered'[w][<<0, e>>]
            = entered[w][<<0, e>>] + IF w = v THEN 1 ELSE 0
      <4>1. \A w \in Vcpus : Bump(entered, v, key)[w][<<0, e>>]
              = entered[w][<<0, e>>] + IF w = v /\ <<0, e>> = key THEN 1 ELSE 0
        BY <1>2, <2>4
      <4> QED
        BY ONLY <4>1, <1>1, <2>1
    <3> HIDE DEF old, new
    <3> QED
      BY <3>1, <3>2, <3>3
  <2>7. Weighs(old, Vcpus)
    BY <2>6 DEF Weighs, Covered
  <2>8. SumOver(new, Vcpus) = SumOver(old, Vcpus) + 1
    <3>1. new[v] = old[v] + 1
      BY <2>6
    <3>2. \A w \in Vcpus \ {v} : new[w] = old[w]
      BY <2>6
    <3> HIDE DEF old, new
    <3> QED
      BY ONLY <2>7, <3>1, <3>2, SumBump
  <2> QED
    BY <1>1, <1>4, <2>2, <2>3, <2>5, <2>8 DEF CountedRight
<1> QED
  BY <1>3, <1>4

CountFacts(b) ==
  IF Instrumented(b) THEN CountedRight(b) ELSE Uncounted(b)

(* A step that enters no block keeps the counts.                           *)
LEMMA CountsQuiet ==
  ASSUME TypeOK, CountsInv, UNCHANGED <<settings, tb_count, ctx_tbs, entered>>,
         ~settings.ctx => cur_ctx' = cur_ctx, NEW v \in Vcpus,
         \/ exits' = exits
         \/ cur_tb[v] # NoBlock /\ \E at : exits' = RecordExit(v, at),
         \A w \in Vcpus : cur_tb'[w] \in {cur_tb[w], NoBlock}
  PROVE  CountsInv'
<1> SUFFICES ASSUME settings.tb_table PROVE CountsInv'
  BY DEF CountsInv
<1>1. /\ settings.mode # "tb-insn"
      /\ ~settings.ctx => \A w \in Vcpus : cur_ctx[w] = 0
      /\ \A w \in Vcpus : cur_tb[w] # NoBlock => Instrumented(cur_tb[w])
      /\ \A b \in Blocks : CountFacts(b)
  BY DEF CountsInv, CountFacts
<1>2. ASSUME NEW b \in Blocks PROVE CountFacts(b)'
  <2>1. CASE Instrumented(b)
    <3>1. CountedRight(b)'
      BY <1>1, <2>1, CountedKept DEF CountFacts
    <3> QED
      BY <2>1, <3>1 DEF CountFacts, Instrumented
  <2>2. CASE ~Instrumented(b)
    <3>1. ASSUME NEW w \in Vcpus, NEW c \in Contexts, NEW a \in Pcs
          PROVE  exits'[w][<<c, b, a>>] = exits[w][<<c, b, a>>]
      BY <1>1, <2>2, ExitsElsewhere
    <3>2. Uncounted(b)'
      BY <1>1, <2>2, <3>1, UncountedKept DEF CountFacts
    <3> QED
      BY <2>2, <3>2 DEF CountFacts, Instrumented
  <2> QED
    BY <2>1, <2>2
<1>3. \A w \in Vcpus : cur_tb'[w] # NoBlock => Instrumented(cur_tb'[w])
  BY <1>1
<1>4. /\ settings'.mode # "tb-insn"
      /\ ~settings'.ctx => \A w \in Vcpus : cur_ctx'[w] = 0
  BY <1>1
<1> QED
  BY <1>2, <1>3, <1>4 DEF CountsInv, CountFacts, Instrumented

LEMMA CountsEnter ==
  ASSUME TypeOK, CountsInv, Covered, NEW v \in Vcpus, NEW e \in Blocks,
         EnterBlock(v, e)
  PROVE  CountsInv'
<1>0. settings' = settings /\ cur_ctx' = cur_ctx /\ cur_tb \in [Vcpus -> Blocks \union {NoBlock}]
  BY DEF EnterBlock, TypeOK
<1> SUFFICES ASSUME settings.tb_table PROVE CountsInv'
  BY <1>0 DEF CountsInv
<1>1. /\ settings.mode # "tb-insn"
      /\ ~settings.ctx => \A w \in Vcpus : cur_ctx[w] = 0
      /\ \A w \in Vcpus : cur_tb[w] # NoBlock => Instrumented(cur_tb[w])
      /\ \A b \in Blocks : CountFacts(b)
  BY DEF CountsInv, CountFacts
<1>2. \/ exits' = exits
      \/ Instrumented(cur_tb[v]) /\ \E at : exits' = RecordExit(v, at)
  BY <1>1 DEF EnterBlock, TbEntryCallback, TbEnter, InsideUnfinished
<1>3. \A w \in Vcpus : cur_tb'[w] # NoBlock => Instrumented(cur_tb'[w])
  <2>1. \/ cur_tb' = cur_tb
        \/ Instrumented(e) /\ cur_tb' = [cur_tb EXCEPT ![v] = e]
    <3>1. CASE Instrumented(e)
      BY <3>1 DEF EnterBlock, TbEntryCallback, TbEnter
    <3>2. CASE ~Instrumented(e)
      BY <3>2 DEF EnterBlock
    <3> QED
      BY <3>1, <3>2
  <2> QED
    BY <1>0, <1>1, <2>1
<1>4. ASSUME NEW b \in Blocks PROVE CountFacts(b)'
  <2>1. CASE Instrumented(b)
    <3>1. CountedRight(b)
      BY <1>1, <2>1 DEF CountFacts
    <3>2. CASE b = e
      BY <1>1, <2>1, <3>1, <3>2, CountThis DEF CountFacts, Instrumented
    <3>3. CASE b # e
      <4>1. CountedRight(b)'
        BY <3>1, <3>3, CountOthers, CountedKept
      <4> QED
        BY <2>1, <4>1 DEF CountFacts, Instrumented
    <3> QED
      BY <3>2, <3>3
  <2>2. CASE ~Instrumented(b)
    <3>1. ASSUME NEW w \in Vcpus, NEW c \in Contexts, NEW a \in Pcs
          PROVE  exits'[w][<<c, b, a>>] = exits[w][<<c, b, a>>]
      BY <1>2, <2>2, ExitsElsewhere
    <3>2. /\ tb_count'[b] = tb_count[b]
          /\ \A w \in Vcpus : \A c \in Contexts :
               ctx_tbs'[w][<<c, b>>] = ctx_tbs[w][<<c, b>>]
      <4>1. CASE b = e
        BY <2>2, <4>1 DEF EnterBlock
      <4>2. CASE b # e
        BY <4>2, CountOthers
      <4> QED
        BY <4>1, <4>2
    <3>3. Uncounted(b)'
      BY <1>1, <2>2, <3>1, <3>2, UncountedKept DEF CountFacts
    <3> QED
      BY <2>2, <3>3 DEF CountFacts, Instrumented
  <2> QED
    BY <2>1, <2>2
<1> QED
  BY <1>0, <1>1, <1>3, <1>4 DEF CountsInv, CountFacts, Instrumented

LEMMA CountsNext ==
  ASSUME TypeOK, CountsInv, Covered, [Next]_vars
  PROVE  CountsInv'
<1>0. cur_tb \in [Vcpus -> Blocks \union {NoBlock}]
  BY DEF TypeOK
<1>1. ASSUME NEW v \in Vcpus, NEW c \in Contexts, VcpuInit(v, c) \/ CtxChanged(v, c)
      PROVE  CountsInv'
  <2>1. /\ UNCHANGED <<settings, tb_count, ctx_tbs, entered, exits, cur_tb>>
        /\ ~settings.ctx => cur_ctx' = cur_ctx
    BY <1>1 DEF VcpuInit, CtxChanged, history
  <2> QED
    BY <2>1, CountsQuiet
<1>2. ASSUME NEW v \in Vcpus, NEW e \in Blocks, EnterBlock(v, e) PROVE CountsInv'
  BY <1>2, CountsEnter
<1>3. ASSUME NEW v \in Vcpus, ReachInsn(v) \/ IoRecompile(v) PROVE CountsInv'
  <2>1. UNCHANGED <<settings, tb_count, ctx_tbs, entered, exits, cur_tb, cur_ctx>>
    BY <1>3 DEF ReachInsn, IoRecompile, slot, shared, history
  <2> QED
    BY <1>3, <2>1, CountsQuiet
<1>4. ASSUME NEW v \in Vcpus, NEW at, NEW type, Discon(v, at, type), Redirect(v)
      PROVE  CountsInv'
  <2>1. UNCHANGED <<settings, tb_count, ctx_tbs, entered, cur_ctx>>
    BY <1>4 DEF Redirect, shared
  <2>2. \/ exits' = exits
        \/ cur_tb[v] # NoBlock /\ \E a : exits' = RecordExit(v, a)
    BY <1>4 DEF Discon, InsideUnfinished
  <2>3. \A w \in Vcpus : cur_tb'[w] \in {cur_tb[w], NoBlock}
    BY <1>0, <1>4 DEF Discon
  <2> QED
    BY <2>1, <2>2, <2>3, CountsQuiet
<1>5. ASSUME NEW v \in Vcpus, NEW at \in Addr, Interrupt(v, at) \/ Exception(v, at)
      PROVE  CountsInv'
  BY <1>4, <1>5 DEF Interrupt, Exception
<1>6. CASE UNCHANGED vars
  <2>1. /\ UNCHANGED <<settings, tb_count, ctx_tbs, entered, cur_ctx>>
        /\ UNCHANGED <<exits, cur_tb>>
    BY <1>6 DEF vars, slot, shared, history
  <2>2. \A b \in Blocks : CountFacts(b)' <=> CountFacts(b)
    BY <2>1 DEF CountFacts, CountedRight, EntriesOf, Uncounted, Instrumented
  <2> QED
    BY <2>1, <2>2 DEF CountsInv, CountFacts, Instrumented
<1> QED
  BY <1>1, <1>2, <1>3, <1>5, <1>6 DEF Next, Step

-----------------------------------------------------------------------------
(* What the tables hold for a context, by vCPU and block.                  *)

Pairs(code) == Grid(Vcpus, Alike(code))

EnteredIn(c) ==
  [vb \in Vcpus \X Blocks |->
     IF Instrumented(vb[2]) THEN entered[vb[1]][<<c, vb[2]>>] ELSE 0]
LeftIn(c, at) ==
  [vb \in Vcpus \X Blocks |-> exits[vb[1]][<<c, vb[2], at>>]]
ReachedIn(c, a) ==
  [vb \in Vcpus \X Blocks |->
     IF Instrumented(vb[2]) THEN reached[vb[1]][<<c, vb[2], a>>] ELSE 0]
OnTheWay(v, c, b, a) ==
  /\ Instrumented(b)
  /\ \E at \in Start[b] .. a : Unfinished(v, c, b, at)
UnderWayIn(c, a) ==
  [vb \in Vcpus \X Blocks |->
     IF OnTheWay(vb[1], c, vb[2], a) THEN 1 ELSE 0]
(* Those that reached a and those that have yet to.                        *)
BoundFor(c, a) ==
  [vb \in Vcpus \X Blocks |-> ReachedIn(c, a)[vb] + UnderWayIn(c, a)[vb]]

Known ==
  /\ TypeOK /\ ExitsInv /\ CountsInv /\ Covered
  /\ settings.tb_table

LEMMA AllSlots ==
  ASSUME Known
  PROVE  Slots = Vcpus /\ \A v \in Vcpus : HasSlot(v)
  BY DEF Known, Slots, HasSlot, Covered

LEMMA CodeFacts ==
  ASSUME NEW code \in Codes
  PROVE  /\ code[1] \in Nat /\ code[2] \in Nat \ {0}
         /\ \A b \in Alike(code) : /\ b \in Blocks /\ Start[b] = code[1]
                                   /\ Extent(b) = Insns(code)
         /\ Insns(code) \subseteq Nat /\ Insns(code) \subseteq Pcs
         /\ \A a : a \in Insns(code) <=> a \in Nat /\ code[1] <= a /\ a < code[1] + code[2]
<1>1. PICK b \in Blocks : code = <<Start[b], Size[b]>>
  BY DEF Codes, Code
<1>2. code[1] = Start[b] /\ code[2] = Size[b]
  BY <1>1
<1>3. Start[b] \in Nat /\ Size[b] \in Nat \ {0}
  BY RecorderAssumption
<1>4. \A d \in Alike(code) : d \in Blocks /\ Start[d] = code[1] /\ Size[d] = code[2]
  BY <1>1 DEF Alike, Code
<1>5. Extent(b) = Insns(code)
  BY <1>2 DEF Extent, Insns
<1>6. Extent(b) \subseteq Pcs /\ Extent(b) \subseteq Nat
  BY AddrNat DEF Addr
<1> QED
  BY <1>2, <1>3, <1>4, <1>5, <1>6 DEF Extent, Insns

(* The tables are finite and hold naturals.                                *)
LEMMA TablesWeigh ==
  ASSUME Known, NEW c \in Contexts, NEW S \in SUBSET (Vcpus \X Blocks)
  PROVE  /\ IsFiniteSet(S)
         /\ Weighs(EnteredIn(c), S)
         /\ \A at \in Pcs : /\ Weighs(LeftIn(c, at), S)
                            /\ Weighs(ReachedIn(c, at), S)
                            /\ Weighs(UnderWayIn(c, at), S)
<1>1. IsFiniteSet(Vcpus \X Blocks)
  BY FS_Product DEF Known, Covered
<1>2. IsFiniteSet(S)
  BY <1>1, FS_Subset
<1>3. ASSUME NEW v \in Vcpus, NEW b \in Blocks
      PROVE  /\ entered[v][<<c, b>>] \in Nat
             /\ \A at \in Pcs : /\ exits[v][<<c, b, at>>] \in Nat
                                /\ reached[v][<<c, b, at>>] \in Nat
  <2>1. <<c, b>> \in BlockKeys /\ \A at \in Pcs : <<c, b, at>> \in ExitKeys
    BY DEF BlockKeys, ExitKeys
  <2>2. /\ entered[v] \in [BlockKeys -> Nat]
        /\ exits[v] \in [ExitKeys -> Nat] /\ reached[v] \in [ExitKeys -> Nat]
    BY DEF Known, TypeOK
  <2> QED
    BY <2>1, <2>2
<1>4. \A vb \in S : vb[1] \in Vcpus /\ vb[2] \in Blocks
  OBVIOUS
<1>5. \A vb \in S :
        /\ EnteredIn(c)[vb] \in Nat
        /\ \A at \in Pcs : /\ LeftIn(c, at)[vb] \in Nat
                           /\ ReachedIn(c, at)[vb] \in Nat
                           /\ UnderWayIn(c, at)[vb] \in Nat
  BY <1>3, <1>4 DEF EnteredIn, LeftIn, ReachedIn, UnderWayIn
<1> QED
  BY <1>2, <1>5 DEF Weighs

(* collect_tb_table counts the entries of a block in a context.            *)
LEMMA BlockCountIsEntries ==
  ASSUME Known, NEW c \in Contexts, NEW b \in Blocks
  PROVE  BlockCount(c, b) = SumOver(EnteredIn(c), Row(Vcpus, b))
<1> DEFINE f == [v \in Vcpus |-> EnteredIn(c)[<<v, b>>]]
<1>1. \A v \in Vcpus :
        f[v] = IF Instrumented(b) THEN entered[v][<<c, b>>] ELSE 0
  BY DEF EnteredIn
<1>2. IF Instrumented(b) THEN CountedRight(b) ELSE Uncounted(b)
  BY DEF Known, CountsInv
<1>3. Weighs(f, Vcpus)
  <2>1. \A v \in Vcpus : entered[v][<<c, b>>] \in Nat
    <3>1. <<c, b>> \in BlockKeys
      BY DEF BlockKeys
    <3>2. \A v \in Vcpus : entered[v] \in [BlockKeys -> Nat]
      BY DEF Known, TypeOK
    <3> QED
      BY <3>1, <3>2
  <2> QED
    BY <1>1, <2>1 DEF Weighs, Known, Covered
<1>4. BlockCount(c, b) = SumOver(f, Vcpus)
  <2>1. CASE settings.ctx
    <3> DEFINE g == [v \in Slots |-> ctx_tbs[v][<<c, b>>]]
    <3>1. Slots = Vcpus
      BY AllSlots
    <3>2. \A v \in Vcpus : ctx_tbs[v][<<c, b>>] = f[v]
      BY <1>1, <1>2, <2>1 DEF CountedRight, Uncounted
    <3>3. g = f
      BY <3>1, <3>2
    <3>4. BlockCount(c, b) = SumFunction(g)
      BY <2>1 DEF BlockCount
    <3>5. DOMAIN f = Vcpus
      OBVIOUS
    <3> HIDE DEF f, g
    <3>6. SumFunction(f) = SumOver(f, Vcpus)
      BY <3>5, SumFunctionIsSum DEF SumFunction
    <3> QED
      BY <3>3, <3>4, <3>6
  <2>2. CASE ~settings.ctx /\ c = 0 /\ Instrumented(b)
    <3>1. f = EntriesOf(b)
      BY <1>1, <2>2 DEF EntriesOf
    <3> QED
      BY <1>2, <2>2, <3>1 DEF BlockCount, CountedRight
  <2>3. CASE ~settings.ctx /\ ~(c = 0 /\ Instrumented(b))
    <3>1. \A v \in Vcpus : f[v] = 0
      BY <1>1, <1>2, <2>3 DEF CountedRight
    <3>2. SumOver(f, Vcpus) = 0
      <4> HIDE DEF f
      <4> QED
        BY <3>1, SumZero DEF Known, Covered
    <3>3. BlockCount(c, b) = 0
      BY <1>2, <2>3 DEF BlockCount, Uncounted
    <3> QED
      BY <3>2, <3>3
  <2> QED
    BY <2>1, <2>2, <2>3
<1>5. \A v \in Vcpus : EnteredIn(c)[<<v, b>>] = f[v]
  OBVIOUS
<1> HIDE DEF f
<1>6. SumOver(EnteredIn(c), Row(Vcpus, b)) = SumOver(f, Vcpus)
  BY ONLY <1>3, <1>5, SumRow
<1> QED
  BY <1>4, <1>6

LEMMA EntryCountIsEntries ==
  ASSUME Known, NEW c \in Contexts, NEW code \in Codes
  PROVE  EntryCount(c, code) = SumOver(EnteredIn(c), Pairs(code))
<1> DEFINE s == [b \in Alike(code) |-> BlockCount(c, b)]
<1>1. /\ Alike(code) \in SUBSET Blocks
      /\ IsFiniteSet(Vcpus) /\ IsFiniteSet(Blocks)
  BY DEF Alike, Known, Covered
<1>2. IsFiniteSet(Alike(code))
  BY <1>1, FS_Subset
<1>3. Pairs(code) \in SUBSET (Vcpus \X Blocks)
  BY <1>1 DEF Pairs, Grid
<1>4. Weighs(EnteredIn(c), Grid(Vcpus, Alike(code)))
  BY <1>3, TablesWeigh DEF Pairs
<1>5. \A b \in Alike(code) : s[b] = SumOver(EnteredIn(c), Row(Vcpus, b))
  BY <1>1, BlockCountIsEntries
<1>6. EntryCount(c, code) = SumFunction(s) /\ DOMAIN s = Alike(code)
  BY DEF EntryCount
<1> HIDE DEF s
<1>7. SumFunction(s) = SumOver(s, Alike(code))
  BY <1>6, SumFunctionIsSum DEF SumFunction
<1>8. SumOver(s, Alike(code)) = SumOver(EnteredIn(c), Grid(Vcpus, Alike(code)))
  BY ONLY <1>2, <1>4, <1>5, SumRows
<1> QED
  BY <1>6, <1>7, <1>8 DEF Pairs

-----------------------------------------------------------------------------
(* What is left of an entry's count at an address.                         *)

LeftOf(c, code) == [at \in Insns(code) |-> SumOver(LeftIn(c, at), Pairs(code))]
Bound(c, code, a)  == SumOver(BoundFor(c, a), Pairs(code))

LEMMA PairsWeigh ==
  ASSUME Known, NEW c \in Contexts, NEW code \in Codes
  PROVE  /\ Pairs(code) \in SUBSET (Vcpus \X Blocks)
         /\ \A vb \in Pairs(code) : /\ vb[1] \in Vcpus /\ vb[2] \in Alike(code)
                                    /\ vb[2] \in Blocks
         /\ Weighs(EnteredIn(c), Pairs(code))
         /\ \A at \in Insns(code) : /\ Weighs(LeftIn(c, at), Pairs(code))
                                    /\ Weighs(BoundFor(c, at), Pairs(code))
                                    /\ LeftOf(c, code)[at] \in Nat
                                    /\ Bound(c, code, at) \in Nat
<1>1. /\ Pairs(code) \in SUBSET (Vcpus \X Blocks)
      /\ \A vb \in Pairs(code) : /\ vb[1] \in Vcpus /\ vb[2] \in Alike(code)
                                 /\ vb[2] \in Blocks
  BY CodeFacts DEF Pairs, Grid
<1>2. Weighs(EnteredIn(c), Pairs(code))
  BY <1>1, TablesWeigh
<1>3. ASSUME NEW at \in Insns(code)
      PROVE  /\ Weighs(LeftIn(c, at), Pairs(code))
             /\ Weighs(BoundFor(c, at), Pairs(code))
  <2>1. at \in Pcs
    BY CodeFacts
  <2>2. /\ Weighs(LeftIn(c, at), Pairs(code))
        /\ Weighs(ReachedIn(c, at), Pairs(code))
        /\ Weighs(UnderWayIn(c, at), Pairs(code))
    BY <1>1, <2>1, TablesWeigh
  <2>3. \A vb \in Pairs(code) :
          BoundFor(c, at)[vb] = ReachedIn(c, at)[vb] + UnderWayIn(c, at)[vb]
    BY <1>1 DEF BoundFor
  <2> QED
    BY <2>2, <2>3, SumPlus
<1>4. ASSUME NEW at \in Insns(code)
      PROVE  LeftOf(c, code)[at] \in Nat /\ Bound(c, code, at) \in Nat
  <2>1. LeftOf(c, code)[at] = SumOver(LeftIn(c, at), Pairs(code))
    BY DEF LeftOf
  <2> QED
    BY <1>3, <2>1, SumType DEF Bound
<1> QED
  BY <1>1, <1>2, <1>3, <1>4

(* One instruction further: what Balanced says, for one pair.              *)
LEMMA PairSteps ==
  ASSUME Known, NEW c \in Contexts, NEW code \in Codes, NEW vb \in Pairs(code)
  PROVE  /\ EnteredIn(c)[vb]
              = BoundFor(c, code[1])[vb] + LeftIn(c, code[1])[vb]
         /\ \A a \in Insns(code) : a + 1 \in Insns(code) =>
              BoundFor(c, a)[vb] = BoundFor(c, a + 1)[vb] + LeftIn(c, a + 1)[vb]
<1>1. PICK v \in Vcpus, b \in Blocks : vb = <<v, b>> /\ b \in Alike(code)
  BY CodeFacts DEF Pairs, Grid
<1>2. /\ Start[b] = code[1] /\ Extent(b) = Insns(code) /\ code[1] \in Insns(code)
      /\ \A a \in Insns(code) : a \in Nat /\ code[1] <= a
      /\ Start[b] \in Nat
  BY <1>1, CodeFacts
<1>3. /\ EnteredIn(c)[vb] = IF Instrumented(b) THEN entered[v][<<c, b>>] ELSE 0
      /\ \A a : /\ LeftIn(c, a)[vb] = exits[v][<<c, b, a>>]
                /\ ReachedIn(c, a)[vb]
                     = IF Instrumented(b) THEN reached[v][<<c, b, a>>] ELSE 0
                /\ UnderWayIn(c, a)[vb] = IF OnTheWay(v, c, b, a) THEN 1 ELSE 0
                /\ BoundFor(c, a)[vb] = ReachedIn(c, a)[vb] + UnderWayIn(c, a)[vb]
  BY <1>1 DEF EnteredIn, LeftIn, ReachedIn, UnderWayIn, BoundFor
<1>4. CASE ~Instrumented(b)
  <2>1. \A a \in Insns(code) : LeftIn(c, a)[vb] = 0
    BY <1>1, <1>3, <1>4, CodeFacts DEF Known, CountsInv, Uncounted
  <2>2. \A a : BoundFor(c, a)[vb] = 0
    BY <1>3, <1>4 DEF OnTheWay
  <2> QED
    BY <1>2, <1>3, <1>4, <2>1, <2>2
<1>5. CASE Instrumented(b)
  <2>1. HasSlot(v)
    BY AllSlots
  <2>2. \A a \in Insns(code) : Balanced(v, c, b, a)
    BY <1>2, <1>5, <2>1 DEF Known, ExitsInv, Covered, Accounted
  <2>3. \A a \in Insns(code) :
          /\ exits[v][<<c, b, a>>] \in Nat /\ reached[v][<<c, b, a>>] \in Nat
    BY <1>2, BalanceKeys DEF Known
  <2>4. OnTheWay(v, c, b, code[1]) <=> Unfinished(v, c, b, code[1])
    BY <1>2, <1>5 DEF OnTheWay
  <2>5. EnteredIn(c)[vb] = BoundFor(c, code[1])[vb] + LeftIn(c, code[1])[vb]
    <3>1. exits[v][<<c, b, code[1]>>] + reached[v][<<c, b, code[1]>>]
            + (IF Unfinished(v, c, b, code[1]) THEN 1 ELSE 0) = entered[v][<<c, b>>]
      BY <1>2, <2>2 DEF Balanced
    <3> QED
      BY <1>2, <1>3, <1>5, <2>3, <2>4, <3>1
  <2>6. ASSUME NEW a \in Insns(code), a + 1 \in Insns(code)
        PROVE  BoundFor(c, a)[vb] = BoundFor(c, a + 1)[vb] + LeftIn(c, a + 1)[vb]
    <3>1. a + 1 # Start[b] /\ (a + 1) - 1 = a
      BY <1>2
    <3>2. exits[v][<<c, b, a + 1>>] + reached[v][<<c, b, a + 1>>]
            + (IF Unfinished(v, c, b, a + 1) THEN 1 ELSE 0) = reached[v][<<c, b, a>>]
      BY <2>2, <2>6, <3>1 DEF Balanced
    <3>3. OnTheWay(v, c, b, a + 1)
            <=> OnTheWay(v, c, b, a) \/ Unfinished(v, c, b, a + 1)
      <4>1. Start[b] .. (a + 1) = (Start[b] .. a) \union {a + 1}
        BY <1>2
      <4> QED
        BY <1>5, <4>1 DEF OnTheWay
    <3>4. ~(OnTheWay(v, c, b, a) /\ Unfinished(v, c, b, a + 1))
      BY <1>2 DEF OnTheWay, Unfinished
    <3> QED
      BY <1>3, <1>5, <2>3, <2>6, <3>2, <3>3, <3>4
  <2> QED
    BY <2>5, <2>6
<1> QED
  BY <1>4, <1>5

LEMMA BoundSteps ==
  ASSUME Known, NEW c \in Contexts, NEW code \in Codes
  PROVE  /\ SumOver(EnteredIn(c), Pairs(code))
              = Bound(c, code, code[1]) + LeftOf(c, code)[code[1]]
         /\ \A a \in Insns(code) : a + 1 \in Insns(code) =>
              Bound(c, code, a) = Bound(c, code, a + 1) + LeftOf(c, code)[a + 1]
<1>1. code[1] \in Insns(code)
  BY CodeFacts
<1>2. \A at \in Insns(code) : /\ Weighs(LeftIn(c, at), Pairs(code))
                              /\ Weighs(BoundFor(c, at), Pairs(code))
                              /\ LeftOf(c, code)[at] = SumOver(LeftIn(c, at), Pairs(code))
                              /\ Bound(c, code, at) = SumOver(BoundFor(c, at), Pairs(code))
  BY PairsWeigh DEF LeftOf, Bound
<1>3. SumOver(EnteredIn(c), Pairs(code))
        = Bound(c, code, code[1]) + LeftOf(c, code)[code[1]]
  <2>1. \A vb \in Pairs(code) : EnteredIn(c)[vb]
              = BoundFor(c, code[1])[vb] + LeftIn(c, code[1])[vb]
    BY PairSteps
  <2>2. Weighs(BoundFor(c, code[1]), Pairs(code)) /\ Weighs(LeftIn(c, code[1]), Pairs(code))
    BY <1>1, <1>2
  <2>3. SumOver(EnteredIn(c), Pairs(code))
          = SumOver(BoundFor(c, code[1]), Pairs(code))
              + SumOver(LeftIn(c, code[1]), Pairs(code))
    BY ONLY <2>1, <2>2, SumPlus
  <2> QED
    BY <1>1, <1>2, <2>3
<1>4. ASSUME NEW a \in Insns(code), a + 1 \in Insns(code)
      PROVE  Bound(c, code, a) = Bound(c, code, a + 1) + LeftOf(c, code)[a + 1]
  <2>1. \A vb \in Pairs(code) :
          BoundFor(c, a)[vb] = BoundFor(c, a + 1)[vb] + LeftIn(c, a + 1)[vb]
    BY <1>4, PairSteps
  <2>2. Weighs(BoundFor(c, a + 1), Pairs(code)) /\ Weighs(LeftIn(c, a + 1), Pairs(code))
    BY <1>2, <1>4
  <2>3. SumOver(BoundFor(c, a), Pairs(code))
          = SumOver(BoundFor(c, a + 1), Pairs(code))
              + SumOver(LeftIn(c, a + 1), Pairs(code))
    BY ONLY <2>1, <2>2, SumPlus
  <2> QED
    BY <1>2, <1>4, <2>3
<1> QED
  BY <1>3, <1>4

(* Summed up to a, by induction on a.                                      *)
LEMMA BoundAt ==
  ASSUME Known, NEW c \in Contexts, NEW code \in Codes, NEW a \in Insns(code)
  PROVE  /\ Weighs(LeftOf(c, code), code[1] .. a)
         /\ SumOver(EnteredIn(c), Pairs(code))
              = Bound(c, code, a) + SumOver(LeftOf(c, code), code[1] .. a)
<1> DEFINE L == LeftOf(c, code)
           B(n) == Bound(c, code, n)
           lo == code[1]
           E == SumOver(EnteredIn(c), Pairs(code))
           F == {n \in Insns(code) : E # B(n) + SumOver(L, lo .. n)}
<1>1. /\ lo \in Nat /\ Insns(code) \subseteq Nat
      /\ \A n : n \in Insns(code) <=> n \in Nat /\ lo <= n /\ n < lo + code[2]
      /\ code[2] \in Nat
  BY CodeFacts
<1>2. /\ \A n \in Insns(code) : L[n] \in Nat /\ B(n) \in Nat
      /\ E = B(lo) + L[lo]
      /\ \A n \in Insns(code) : n + 1 \in Insns(code) => B(n) = B(n + 1) + L[n + 1]
  BY PairsWeigh, BoundSteps
<1> HIDE DEF L, B, lo, E
<1>3. \A n \in Insns(code) : Weighs(L, lo .. n)
  <2> SUFFICES ASSUME NEW n \in Insns(code) PROVE Weighs(L, lo .. n)
    OBVIOUS
  <2>1. lo .. n \subseteq Insns(code)
    BY <1>1
  <2>2. IsFiniteSet(lo .. n)
    BY <1>1, FS_Interval
  <2> QED
    BY <1>2, <2>1, <2>2 DEF Weighs
<1>4. F = {}
  <2> SUFFICES ASSUME F # {} PROVE FALSE
    OBVIOUS
  <2>1. F \in SUBSET Nat
    BY <1>1
  <2>2. PICK n \in F : \A m \in F : n <= m
    <3> HIDE DEF F
    <3> QED
      BY <2>1, LeastNat
  <2>3. n \in Nat /\ lo <= n /\ n \in Insns(code)
    BY <1>1, <2>2
  <2>4. CASE n = lo
    <3>1. lo .. lo = {lo} /\ {lo} \ {lo} = {}
      BY <1>1
    <3>2. Weighs(L, {lo})
      BY <1>3, <2>3, <2>4, <3>1
    <3>3. SumOver(L, {lo}) = L[lo] + SumOver(L, {lo} \ {lo})
      BY <3>2, SumTake
    <3>4. SumOver(L, {lo} \ {lo}) = 0
      BY <3>1, SumEmpty
    <3> QED
      BY <1>2, <2>2, <2>3, <2>4, <3>1, <3>3, <3>4
  <2>5. CASE n # lo
    <3>1. /\ n - 1 \in Insns(code) /\ (n - 1) + 1 = n /\ n - 1 < n
          /\ n \in lo .. n /\ (lo .. n) \ {n} = lo .. (n - 1)
      BY <1>1, <2>3, <2>5
    <3>2. n - 1 \notin F
      BY <1>1, <2>2, <2>3, <3>1
    <3>3. E = B(n - 1) + SumOver(L, lo .. (n - 1))
      BY <3>1, <3>2
    <3>4. B(n - 1) = B(n) + L[n]
      BY <1>2, <2>3, <3>1
    <3>5. SumOver(L, lo .. n) = L[n] + SumOver(L, (lo .. n) \ {n})
      <4> DEFINE R == lo .. n
      <4>1. Weighs(L, R) /\ n \in R
        BY <1>3, <2>3, <3>1
      <4> HIDE DEF R
      <4>2. SumOver(L, R) = L[n] + SumOver(L, R \ {n})
        BY <4>1, SumTake
      <4> QED
        BY <4>2 DEF R
    <3>6. SumOver(L, lo .. (n - 1)) \in Nat
      BY <1>3, <3>1, SumType
    <3>7. B(n) \in Nat /\ L[n] \in Nat
      BY <1>2, <2>3
    <3>8. SumOver(L, lo .. n) = L[n] + SumOver(L, lo .. (n - 1))
      BY <3>1, <3>5
    <3> QED
      BY <2>2, <3>3, <3>4, <3>6, <3>7, <3>8
  <2> QED
    BY <2>4, <2>5
<1>5. Weighs(L, lo .. a) /\ E = B(a) + SumOver(L, lo .. a)
  BY <1>3, <1>4
<1> QED
  BY <1>5 DEF L, B, lo, E

(* What expand_tb_records makes of an entry at an address: as many as have *)
(* reached it or are on their way to it.                                   *)
LEMMA LeftIsBound ==
  ASSUME Known, NEW c \in Contexts, NEW code \in Codes, NEW a \in Insns(code)
  PROVE  LeftAt(c, code, a) = Bound(c, code, a) /\ Bound(c, code, a) \in Nat
<1> DEFINE L == LeftOf(c, code)
           E == SumOver(EnteredIn(c), Pairs(code))
           S == code[1] .. a
           x == [at \in S |-> ExitCount(c, code, at)]
<1>1. /\ Weighs(L, S) /\ E = Bound(c, code, a) + SumOver(L, S)
      /\ Bound(c, code, a) \in Nat
  BY BoundAt, PairsWeigh
<1>2. SumOver(L, S) \in Nat
  <2> HIDE DEF L, S
  <2> QED
    BY <1>1, SumType
<1>3. EntryCount(c, code) = E
  BY EntryCountIsEntries
<1>4. LeftAt(c, code, a) = E - SumFunction(x) /\ DOMAIN x = S
  BY <1>3 DEF LeftAt
<1>5. SumFunction(x) = SumOver(x, S)
  <2> HIDE DEF x, S
  <2> QED
    BY <1>4, SumFunctionIsSum DEF SumFunction
<1>6. \A at \in S : x[at] = ExitCount(c, code, at) /\ at \in Insns(code)
  BY CodeFacts
<1>7. CASE E = 0
  <2>1. SumOver(L, S) = 0 /\ Bound(c, code, a) = 0
    BY <1>1, <1>2, <1>7
  <2>2. \A at \in S : x[at] = 0
    BY <1>3, <1>6, <1>7 DEF ExitCount
  <2>3. SumOver(x, S) = 0
    <3> HIDE DEF x, S
    <3> QED
      BY <1>1, <2>2, SumZero DEF Weighs
  <2> QED
    BY <1>1, <1>4, <1>5, <1>7, <2>1, <2>3
<1>8. CASE E # 0
  <2>1. ASSUME NEW at \in S PROVE x[at] = L[at]
    <3> DEFINE y == [vb \in Pairs(code) |-> exits[vb[1]][<<c, vb[2], at>>]]
    <3>1. ExitCount(c, code, at) = SumFunction(y) /\ DOMAIN y = Pairs(code)
      BY <1>3, <1>8, AllSlots DEF ExitCount, Pairs, Grid
    <3>2. SumFunction(y) = SumOver(y, Pairs(code))
      <4> HIDE DEF y
      <4> QED
        BY <3>1, SumFunctionIsSum DEF SumFunction
    <3>3. \A vb \in Pairs(code) : y[vb] = LeftIn(c, at)[vb]
      BY PairsWeigh DEF LeftIn
    <3>4. Weighs(LeftIn(c, at), Pairs(code)) /\ L[at] = SumOver(LeftIn(c, at), Pairs(code))
      BY <1>6, PairsWeigh DEF LeftOf
    <3>5. SumOver(y, Pairs(code)) = SumOver(LeftIn(c, at), Pairs(code))
      <4> HIDE DEF y
      <4> QED
        BY <3>3, <3>4, SumSame
    <3> QED
      BY <1>6, <3>1, <3>2, <3>4, <3>5
  <2>2. SumOver(x, S) = SumOver(L, S)
    <3> HIDE DEF x, L, S
    <3> QED
      BY <1>1, <2>1, SumSame
  <2> QED
    BY <1>1, <1>2, <1>4, <1>5, <2>2
<1> QED
  BY <1>7, <1>8, <1>1

-----------------------------------------------------------------------------
(* Summed over the entries that cover an address.                          *)

Covering(a)    == {b \in Blocks : a \in Extent(b)}

LEMMA ExpandedIsBound ==
  ASSUME Known, NEW c \in Contexts, NEW a \in Addr \intersect InRange
  PROVE  Expanded(c, a) = SumOver(BoundFor(c, a), Grid(Vcpus, Covering(a)))
<1> DEFINE K == {k \in Codes : a \in Insns(k)}
           f == [code \in K |-> Max({0, LeftAt(c, code, a)})]
           P == [code \in K |-> Pairs(code)]
<1>1. IsFiniteSet(K)
  <2> DEFINE g == [b \in Blocks |-> Code(b)]
  <2>1. Codes = {g[b] : b \in Blocks}
    BY DEF Codes
  <2>2. IsFiniteSet(Codes)
    <3> HIDE DEF g
    <3> QED
      BY <2>1, ImageFinite DEF Known, Covered
  <2> QED
    BY <2>2, FS_Subset
<1>2. \A code \in K : code \in Codes /\ a \in Insns(code)
  OBVIOUS
<1>3. Expanded(c, a) = SumFunction(f) /\ DOMAIN f = K
  BY DEF Expanded
<1>4. SumFunction(f) = SumOver(f, K)
  <2> HIDE DEF f, K
  <2> QED
    BY <1>3, SumFunctionIsSum DEF SumFunction
<1>5. \A code \in K : f[code] = SumOver(BoundFor(c, a), P[code])
  <2> SUFFICES ASSUME NEW code \in K
               PROVE  f[code] = SumOver(BoundFor(c, a), P[code])
    OBVIOUS
  <2>1. LeftAt(c, code, a) = Bound(c, code, a) /\ Bound(c, code, a) \in Nat
    BY <1>2, LeftIsBound
  <2>2. \A n \in Nat : Max({0, n}) = n
    BY DEF Max
  <2>3. Max({0, LeftAt(c, code, a)}) = Bound(c, code, a)
    BY <2>1, <2>2
  <2> QED
    BY <2>3 DEF Bound
<1>6. PartsApart(P, K)
  BY DEF PartsApart, Pairs, Grid, Alike
<1>7. \A code \in K : Weighs(BoundFor(c, a), P[code])
  BY <1>2, PairsWeigh
<1>8. UnionOf(P, K) = Grid(Vcpus, Covering(a))
  <2>1. \A b \in Blocks : Code(b) \in Codes /\ Insns(Code(b)) = Extent(b)
    BY DEF Codes, Code, Insns, Extent
  <2>2. \A b \in Blocks : a \in Extent(b) <=> Code(b) \in K
    BY <2>1
  <2>3. ASSUME NEW z \in UnionOf(P, K) PROVE z \in Grid(Vcpus, Covering(a))
    <3>1. PICK code \in K : z \in Grid(Vcpus, Alike(code))
      BY DEF UnionOf, Pairs
    <3>2. Alike(code) \subseteq Covering(a)
      BY <2>2 DEF Alike, Covering
    <3> QED
      BY <3>1, <3>2 DEF Grid
  <2>4. ASSUME NEW z \in Grid(Vcpus, Covering(a)) PROVE z \in UnionOf(P, K)
    <3>1. PICK v \in Vcpus, b \in Covering(a) : z = <<v, b>>
      BY DEF Grid
    <3>2. Code(b) \in K /\ b \in Alike(Code(b))
      BY <2>2 DEF Covering, Alike
    <3>3. z \in P[Code(b)]
      BY <3>1, <3>2 DEF Pairs, Grid
    <3> QED
      BY <3>2, <3>3 DEF UnionOf
  <2> QED
    BY <2>3, <2>4
<1> HIDE DEF f, K, P
<1>9. SumOver(f, K) = SumOver(BoundFor(c, a), UnionOf(P, K))
  BY ONLY <1>1, <1>5, <1>6, <1>7, SumParts
<1> QED
  BY <1>3, <1>4, <1>8, <1>9

LEMMA HoldersSuffice ==
  ASSUME Known, NEW c \in Contexts, NEW a \in Addr \intersect InRange
  PROVE  LET H == Grid(Vcpus, Holders(a))
         IN  /\ Weighs(ReachedIn(c, a), H) /\ Weighs(UnderWayIn(c, a), H)
             /\ Expanded(c, a) = SumOver(ReachedIn(c, a), H)
                                   + SumOver(UnderWayIn(c, a), H)
<1> DEFINE H == Grid(Vcpus, Holders(a))
           G == Grid(Vcpus, Covering(a))
<1>1. a \in Pcs
  BY AddrNat
<1>2. /\ G \in SUBSET (Vcpus \X Blocks) /\ H \in SUBSET (Vcpus \X Blocks)
      /\ H \subseteq G
  BY DEF Grid, Covering, Holders
<1>3. /\ Weighs(ReachedIn(c, a), H) /\ Weighs(UnderWayIn(c, a), H)
      /\ Weighs(ReachedIn(c, a), G) /\ Weighs(UnderWayIn(c, a), G)
  BY <1>1, <1>2, TablesWeigh
<1>4. \A vb \in G :
        BoundFor(c, a)[vb] = ReachedIn(c, a)[vb] + UnderWayIn(c, a)[vb]
  BY <1>2 DEF BoundFor
<1>5. \A vb \in G \ H : BoundFor(c, a)[vb] = 0
  <2> SUFFICES ASSUME NEW vb \in G \ H PROVE BoundFor(c, a)[vb] = 0
    OBVIOUS
  <2>1. vb \in Vcpus \X Blocks /\ ~Instrumented(vb[2])
    BY <1>2 DEF Grid, Covering, Holders
  <2>2. ReachedIn(c, a)[vb] = 0 /\ UnderWayIn(c, a)[vb] = 0
    BY <2>1 DEF ReachedIn, UnderWayIn, OnTheWay
  <2> QED
    BY <1>4, <2>2
<1>6. Expanded(c, a) = SumOver(BoundFor(c, a), G)
  BY ExpandedIsBound
<1> HIDE DEF G, H
<1>7. Weighs(BoundFor(c, a), G)
  BY ONLY <1>3, <1>4, SumPlus
<1>8. SumOver(BoundFor(c, a), G) = SumOver(BoundFor(c, a), H)
  BY ONLY <1>2, <1>5, <1>7, SumIgnores
<1>9. \A vb \in H :
        BoundFor(c, a)[vb] = ReachedIn(c, a)[vb] + UnderWayIn(c, a)[vb]
  BY <1>2, <1>4
<1>10. SumOver(BoundFor(c, a), H)
         = SumOver(ReachedIn(c, a), H) + SumOver(UnderWayIn(c, a), H)
  BY ONLY <1>3, <1>9, SumPlus
<1> QED
  BY <1>3, <1>6, <1>8, <1>10 DEF H

(* An execution on its way to a is one that has yet to reach it.           *)
LEMMA OnTheWayIsStill ==
  ASSUME Known, ~Resuming, NEW c \in Contexts, NEW a \in Addr,
         NEW v \in Vcpus, NEW b \in Holders(a)
  PROVE  OnTheWay(v, c, b, a)
           <=> /\ blk[v] = b /\ entry_ctx[v] = c
               /\ idx[v] < Size[b] /\ a >= At(v)
<1>1. /\ OpenIsCurrent(v) /\ CurrentIsOpen(v) /\ resume[v] = NoAddr
      /\ idx[v] \in Nat
  BY AllSlots DEF Known, ExitsInv, Covered, Resuming, TypeOK
<1>2. /\ b \in Blocks /\ Instrumented(b) /\ b # NoBlock /\ a \in Nat
      /\ Start[b] \in Nat /\ Size[b] \in Nat /\ NoAddr \notin Nat
      /\ Extent(b) \subseteq Nat
  BY AddrNat, RecorderAssumption DEF Holders, Addr
<1>3. ASSUME OnTheWay(v, c, b, a)
      PROVE  /\ blk[v] = b /\ entry_ctx[v] = c
             /\ idx[v] < Size[b] /\ a >= At(v)
  <2>1. PICK at \in Start[b] .. a : Unfinished(v, c, b, at)
    BY <1>3 DEF OnTheWay
  <2>2. /\ blk[v] = b /\ idx[v] < Size[b] /\ entry_ctx[v] = c
    BY <1>1, <1>2, <2>1 DEF OpenIsCurrent, Unfinished
  <2>3. At(v) = at
    BY <2>1 DEF Unfinished
  <2> QED
    BY <1>2, <2>2, <2>3
<1>4. ASSUME blk[v] = b, entry_ctx[v] = c, idx[v] < Size[b], a >= At(v)
      PROVE  OnTheWay(v, c, b, a)
  <2>1. At(v) = Start[b] + idx[v]
    BY <1>2, <1>4 DEF At
  <2>2. At(v) \in Start[b] .. a
    BY <1>1, <1>2, <1>4, <2>1
  <2>3. Unfinished(v, c, b, At(v))
    BY <1>1, <1>2, <1>4 DEF CurrentIsOpen, Unfinished
  <2> QED
    BY <1>2, <2>2, <2>3 DEF OnTheWay
<1> QED
  BY <1>3, <1>4

LEMMA UnderWayIsStill ==
  ASSUME Known, ~Resuming, NEW c \in Contexts, NEW a \in Addr
  PROVE  SumOver(UnderWayIn(c, a), Grid(Vcpus, Holders(a)))
           = Cardinality(StillToReach(c, a))
<1> DEFINE H == Grid(Vcpus, Holders(a))
           w == UnderWayIn(c, a)
           T == {vb \in H : w[vb] = 1}
           f == [vb \in T |-> vb[1]]
<1>1. H \in SUBSET (Vcpus \X Blocks) /\ a \in Pcs
  BY AddrNat DEF Grid, Holders
<1>2. IsFiniteSet(H) /\ Weighs(w, H)
  BY <1>1, TablesWeigh
<1>3. \A vb \in H : w[vb] = IF OnTheWay(vb[1], c, vb[2], a) THEN 1 ELSE 0
  BY <1>1 DEF UnderWayIn
<1>4. \A vb \in H : vb = <<vb[1], vb[2]>> /\ vb[1] \in Vcpus /\ vb[2] \in Holders(a)
  BY DEF Grid
<1>5. \A vb \in T : /\ vb = <<vb[1], blk[vb[1]]>>
                    /\ vb[1] \in StillToReach(c, a)
  <2> SUFFICES ASSUME NEW vb \in T
               PROVE  /\ vb = <<vb[1], blk[vb[1]]>>
                      /\ vb[1] \in StillToReach(c, a)
    OBVIOUS
  <2>1. PICK v \in Vcpus, b \in Holders(a) : vb = <<v, b>>
    BY <1>4
  <2>2. OnTheWay(v, c, b, a)
    BY <1>3, <2>1
  <2>3. /\ blk[v] = b /\ entry_ctx[v] = c
        /\ idx[v] < Size[b] /\ a >= At(v)
    BY <2>2, OnTheWayIsStill
  <2> QED
    BY <2>1, <2>3 DEF StillToReach
<1>6. \A v \in StillToReach(c, a) : <<v, blk[v]>> \in T
  <2> SUFFICES ASSUME NEW v \in StillToReach(c, a) PROVE <<v, blk[v]>> \in T
    OBVIOUS
  <2>1. /\ v \in Vcpus /\ blk[v] \in Holders(a)
        /\ OnTheWay(v, c, blk[v], a)
    BY OnTheWayIsStill DEF StillToReach
  <2>2. <<v, blk[v]>> \in H
    BY <2>1 DEF Grid
  <2> QED
    BY <1>3, <2>1, <2>2
<1>7. f \in Bijection(T, StillToReach(c, a))
  BY <1>5, <1>6 DEF Bijection, Injection, Surjection, IsInjective
<1>8. IsFiniteSet(T)
  BY <1>2, FS_Subset
<1>9. Cardinality(StillToReach(c, a)) = Cardinality(T)
  <2> HIDE DEF f, T
  <2> QED
    BY <1>7, <1>8, FS_Bijection DEF ExistsBijection
<1>10. SumOver(w, H) = Cardinality(T)
  <2>1. \A vb \in H : w[vb] \in {0, 1}
    BY <1>3
  <2> HIDE DEF w, H
  <2> QED
    BY <1>2, <2>1, SumOnes
<1> QED
  BY <1>9, <1>10

LEMMA ReachedIsTimes ==
  ASSUME Known, NEW c \in Contexts, NEW a \in Addr
  PROVE  TimesReached(c, a) = SumOver(ReachedIn(c, a), Grid(Vcpus, Holders(a)))
<1> DEFINE H == Grid(Vcpus, Holders(a))
           y == [vb \in H |-> reached[vb[1]][<<c, vb[2], a>>]]
<1>1. TimesReached(c, a) = SumFunction(y) /\ DOMAIN y = H
  BY DEF TimesReached, Grid
<1>2. SumFunction(y) = SumOver(y, H)
  <2> HIDE DEF y, H
  <2> QED
    BY <1>1, SumFunctionIsSum DEF SumFunction
<1>3. \A vb \in H : y[vb] = ReachedIn(c, a)[vb]
  BY DEF ReachedIn, Grid, Holders
<1>4. Weighs(ReachedIn(c, a), H)
  BY AddrNat, TablesWeigh DEF Grid, Holders
<1> HIDE DEF y, H
<1>5. SumOver(y, H) = SumOver(ReachedIn(c, a), H)
  BY ONLY <1>3, <1>4, SumSame
<1> QED
  BY <1>1, <1>2, <1>5 DEF H

LEMMA KnownIsExact ==
  ASSUME TypeOK, ExitsInv, CountsInv, Covered
  PROVE  ExpansionExact
<1> SUFFICES ASSUME settings.tb_table, ~Resuming, NEW c \in Contexts,
                    NEW a \in Addr \intersect InRange
             PROVE  Expanded(c, a)
                      = TimesReached(c, a) + Cardinality(StillToReach(c, a))
  BY DEF ExpansionExact
<1>1. Known
  BY DEF Known
<1> QED
  BY <1>1, HoldersSuffice, UnderWayIsStill, ReachedIsTimes

(* The expansion of a TB-table artifact is exact at every address and in   *)
(* every context, whatever interrupts, exceptions, abandoned blocks and    *)
(* context switches happen on however many vCPUs, and however many         *)
(* translations of the same code there are: collect_tb_table with the      *)
(* early exits of record_exit, expanded by expand_tb_records, counts what  *)
(* was reached and, besides, the blocks still under way.                   *)
THEOREM ExpansionCorrect ==
  ASSUME Covered
  PROVE  Spec => []ExpansionExact
<1>1. Init => TypeOK /\ ExitsInv /\ CountsInv
  BY InitType, ExitsInit, CountsInit
<1>2. TypeOK /\ ExitsInv /\ CountsInv /\ [Next]_vars
        => (TypeOK /\ ExitsInv /\ CountsInv)'
  BY NextType, ExitsNext, CountsNext
<1>3. TypeOK /\ ExitsInv /\ CountsInv => ExpansionExact
  BY KnownIsExact
<1> QED
  BY <1>1, <1>2, <1>3, PTL DEF Spec

-----------------------------------------------------------------------------
(***************************************************************************)
(* Proofs about ArtifactWriter, for any number of processes that share     *)
(* out= and any number of pieces an artifact is written in.                *)
(***************************************************************************)

USE DEF MoreToWrite

(* Type correctness.                                                       *)

LEMMA NamesApart ==
  /\ Dest \in Names /\ \A w \in Writers : w \in Names /\ w # Dest
  /\ \A w \in Writers : w \in Inodes /\ w # NoFile
  /\ NoFile \notin Inodes
  /\ Chunks \in Nat /\ 1 \in Pieces
BY WriterAssumption DEF Names, Inodes, Pieces

LEMMA WriterType ==
  ASSUME WriterTypeOK, NEW p \in Procs
  PROVE  Writer(p) \in Writers
BY DEF WriterTypeOK, Writer, Writers

LEMMA WriterInitType == WriterInit => WriterTypeOK
<1> SUFFICES ASSUME WriterInit PROVE WriterTypeOK
  OBVIOUS
<1>1. data \in [Inodes -> [Pieces -> Inodes \union {Nothing}]]
  BY DEF WriterInit, Whole, Empty
<1>2. dir \in [Names -> Inodes \union {NoFile}] /\ mode \in [Inodes -> FileModes]
  BY DEF WriterInit, Inodes, FileModes
<1>3. synced \subseteq Inodes /\ past \subseteq Inodes \union {NoFile}
  BY DEF WriterInit, Inodes
<1>4. 0 \in 0 .. Chunks
  BY WriterAssumption
<1>5. QED BY <1>1, <1>2, <1>3, <1>4 DEF WriterInit, WriterTypeOK, Places, Copies

LEMMA DrainType ==
  ASSUME WriterTypeOK, NEW p \in Procs, NEW n \in 0 .. Chunks, Drain(p, n),
         fd[p] \in Inodes
  PROVE  /\ drained' \in [Procs -> 0 .. Chunks]
         /\ data' \in [Inodes -> [Pieces -> Inodes \union {Nothing}]]
<1>1. Writer(p) \in Inodes
  BY WriterType, NamesApart
<1>2. [j \in Pieces |-> IF drained[p] < j /\ j <= n
                          THEN Writer(p) ELSE data[fd[p]][j]]
        \in [Pieces -> Inodes \union {Nothing}]
  BY <1>1 DEF WriterTypeOK
<1>3. QED BY <1>2 DEF Drain, WriterTypeOK

LEMMA GotoType ==
  ASSUME WriterTypeOK, NEW p \in Procs, NEW place \in Places
  PROVE  /\ Goto(p, place) => pc' \in [Procs -> Places]
         /\ Return(p) => pc' \in [Procs -> Places]
BY DEF WriterTypeOK, Goto, Return, Places

(* A process with a stream open has an inode and a name.                   *)
Streaming(p) == pc[p] \in {"write", "sync", "close", "rename", "unlink"}

(* What a process that writes holds, and that it has not published it yet. *)
Holding(p) ==
  /\ Streaming(p) => /\ fd[p] = Writer(p) /\ tmp[p] = Writer(p)
                     /\ dir[Writer(p)] = Writer(p)
  /\ Streaming(p) \/ pc[p] = "open" =>
       /\ Writer(p) \notin past
       /\ copy[p] = "flush" => flush_done[p]
  /\ <<p, "flush">> \in past => flush_done[p]
  /\ <<p, "exit">> \in past => pc[p] \in {"exited", "killed"}
  /\ pc[p] \in {"run", "exited"} => \A k \in Copies : dir[<<p, k>>] = NoFile
  /\ pc[p] = "open" => \A k \in Copies : dir[<<p, k>>] = NoFile
  /\ \A k \in Copies : Streaming(p) /\ k # copy[p] => dir[<<p, k>>] = NoFile

(* How much of its output is in the file, and when it is all there.        *)
Progress(p) ==
  /\ pc[p] = "write" =>
       /\ drained[p] <= handed[p]
       /\ \A j \in 1 .. drained[p] : data[Writer(p)][j] = Writer(p)
  /\ pc[p] \in {"sync", "close", "rename"} =>
       data[Writer(p)] = Whole(Writer(p))

Kept(i) ==
  /\ i \in Inodes
  /\ (crashed => SyncSupported) => data[i] = Whole(i)
  /\ SyncSupported => i \in synced

WriterInv ==
  /\ \A p \in Procs : Holding(p)
  /\ ~crashed => \A p \in Procs : Progress(p)
  /\ \A p \in Procs :
       pc[p] \in {"close", "rename"} /\ SyncSupported => Writer(p) \in synced
  /\ dir[Dest] \in past
  /\ \A i \in past : i # NoFile => Kept(i)

LEMMA TypeStep ==
  ASSUME WriterTypeOK, \A p \in Procs : Holding(p), [WriterNext]_writerVars
  PROVE  WriterTypeOK'
<1>1. ASSUME NEW p \in Procs, WriterStep(p) PROVE WriterTypeOK'
  <2>1. Writer(p) \in Writers /\ Writer(p) \in Inodes /\ Writer(p) \in Names
    BY WriterType, NamesApart
  <2>2. Streaming(p) => fd[p] = Writer(p) /\ tmp[p] = Writer(p)
    BY DEF Holding
  <2>3. ASSUME NEW q \in {"flush", "exit"}, copy' = [copy EXCEPT ![p] = q]
        PROVE  copy' \in [Procs -> Copies]
    BY <2>3 DEF WriterTypeOK, Copies
  <2>4. CASE StartFlush(p)
    BY <2>4, <2>3, GotoType DEF StartFlush, WriterTypeOK, fsVars, Places
  <2>5. CASE StartExit(p)
    BY <2>5, <2>3, GotoType DEF StartExit, WriterTypeOK, fsVars, Places
  <2>6. CASE OpenTmp(p)
    <3>1. /\ dir' \in [Names -> Inodes \union {NoFile}]
          /\ tmp' \in [Procs -> Names \union {NoFile}]
          /\ fd' \in [Procs -> Inodes \union {NoFile}]
          /\ data' \in [Inodes -> [Pieces -> Inodes \union {Nothing}]]
      BY <2>1, <2>6 DEF OpenTmp, CreateTmp, WriterTypeOK, Empty
    <3>2. mode' \in [Inodes -> FileModes] /\ chmodFail' \in BOOLEAN
      <4>1. ArtifactMode \in FileModes
        BY NamesApart DEF ArtifactMode, WriterTypeOK, FileModes
      <4>2. fd'[p] = Writer(p)
        BY <2>6 DEF OpenTmp, CreateTmp, WriterTypeOK
      <4>3. QED BY <2>6, <4>1, <4>2 DEF OpenTmp, WriterTypeOK, FileModes
    <3>3. /\ handed' \in [Procs -> 0 .. Chunks]
          /\ drained' \in [Procs -> 0 .. Chunks]
      BY <2>6, NamesApart DEF OpenTmp, WriterTypeOK
    <3>4. pc' \in [Procs -> Places]
      BY <2>6, GotoType DEF OpenTmp, Places
    <3>5. QED BY <2>6, <3>1, <3>2, <3>3, <3>4 DEF OpenTmp, WriterTypeOK
  <2>7. CASE OpenFails(p)
    BY <2>7, GotoType DEF OpenFails, WriterTypeOK, fsVars, Places
  <2>8. CASE Write(p)
    <3>1. handed[p] + 1 \in 0 .. Chunks /\ fd[p] \in Inodes
      BY <2>1, <2>2, <2>8, NamesApart DEF Write, Streaming, WriterTypeOK
    <3>2. /\ drained' \in [Procs -> 0 .. Chunks]
          /\ data' \in [Inodes -> [Pieces -> Inodes \union {Nothing}]]
      <4>1. CASE Drain(p, handed[p] + 1)
        BY <3>1, <4>1, DrainType
      <4>2. CASE UNCHANGED <<drained, data>>
        BY <4>2 DEF WriterTypeOK
      <4>3. QED BY <2>8, <4>1, <4>2 DEF Write
    <3>3. handed' \in [Procs -> 0 .. Chunks]
      BY <2>8, <3>1 DEF Write, WriterTypeOK
    <3>4. QED BY <2>8, <3>2, <3>3 DEF Write, WriterTypeOK
  <2>9. CASE WriteFails(p) \/ Close(p) \/ RenameFails(p) \/ Kill(p)
    <3>1. pc' \in [Procs -> Places]
      BY <2>9, GotoType DEF WriteFails, Close, RenameFails, Kill, Places
    <3>2. QED BY <2>9, <3>1
                 DEF WriteFails, Close, RenameFails, Kill, WriterTypeOK, fsVars
  <2>10. CASE Flush(p)
    <3>1. fd[p] \in Inodes
      BY <2>1, <2>2, <2>10 DEF Flush, Streaming
    <3>2. PICK n \in 0 .. Chunks : Drain(p, n)
      BY <2>10, NamesApart DEF Flush, WriterTypeOK
    <3>3. pc' \in [Procs -> Places]
      BY <2>10, GotoType DEF Flush, Places
    <3>4. QED BY <2>10, <3>1, <3>2, <3>3, DrainType DEF Flush, WriterTypeOK
  <2>11. CASE Sync(p)
    <3>1. synced' \subseteq Inodes
      BY <2>1, <2>2, <2>11 DEF Sync, Streaming, WriterTypeOK
    <3>2. pc' \in [Procs -> Places]
      BY <2>11, GotoType DEF Sync, Places
    <3>3. QED BY <2>11, <3>1, <3>2 DEF Sync, WriterTypeOK
  <2>12. CASE Rename(p)
    <3>1. dir[tmp[p]] = Writer(p) /\ tmp[p] = Writer(p)
      BY <2>2, <2>12 DEF Rename, Streaming, Holding
    <3>2. /\ dir' \in [Names -> Inodes \union {NoFile}]
          /\ past' \subseteq Inodes \union {NoFile}
      BY <2>1, <2>12, <3>1, NamesApart DEF Rename, WriterTypeOK
    <3>3. pc' \in [Procs -> Places]
      BY <2>12, GotoType DEF Rename, Places
    <3>4. QED BY <2>12, <3>2, <3>3 DEF Rename, WriterTypeOK
  <2>13. CASE Unlink(p)
    <3>1. dir' \in [Names -> Inodes \union {NoFile}]
      BY <2>13 DEF Unlink, WriterTypeOK
    <3>2. pc' \in [Procs -> Places]
      BY <2>13, GotoType DEF Unlink, Places
    <3>3. QED BY <2>13, <3>1, <3>2 DEF Unlink, WriterTypeOK
  <2>14. QED BY <1>1, <2>4, <2>5, <2>6, <2>7, <2>8, <2>9, <2>10, <2>11,
                <2>12, <2>13 DEF WriterStep
<1>2. CASE HostDies
  <2>1. PICK i \in past, kept \in SUBSET Pieces :
          /\ dir' = [dir EXCEPT ![Dest] = i]
          /\ data' = [k \in Inodes |->
                        IF k \in synced THEN data[k]
                        ELSE [j \in Pieces |-> IF j \in kept THEN data[k][j]
                                                             ELSE Nothing]]
    BY <1>2 DEF HostDies
  <2>2. dir' \in [Names -> Inodes \union {NoFile}]
    BY <2>1 DEF WriterTypeOK
  <2>3. data' \in [Inodes -> [Pieces -> Inodes \union {Nothing}]]
    BY <2>1 DEF WriterTypeOK
  <2>4. QED BY <1>2, <2>2, <2>3 DEF HostDies, WriterTypeOK, procVars
<1>3. CASE UNCHANGED writerVars
  BY <1>3 DEF WriterTypeOK, writerVars, procVars, fsVars
<1>4. QED BY <1>1, <1>2, <1>3 DEF WriterNext

-----------------------------------------------------------------------------
(* The invariant.                                                          *)

LEMMA WriterInvInit == WriterInit => WriterInv
<1> SUFFICES ASSUME WriterInit PROVE WriterInv
  OBVIOUS
<1>1. ASSUME NEW p \in Procs
      PROVE  /\ Holding(p) /\ Progress(p)
             /\ ~(pc[p] \in {"close", "rename"} /\ SyncSupported)
  <2>1. \A k \in Copies : <<p, k>> \in Writers
    BY DEF Writers
  <2>2. \A k \in Copies : <<p, k>> \notin past /\ dir[<<p, k>>] = NoFile
    BY <2>1, NamesApart, WriterAssumption DEF WriterInit
  <2>3. QED BY <2>2 DEF WriterInit, Holding, Progress, Streaming, Copies
<1>2. dir[Dest] \in past
  BY NamesApart DEF WriterInit
<1>3. ASSUME NEW i \in past, i # NoFile PROVE Kept(i)
  BY <1>3 DEF WriterInit, Kept, Inodes
<1>4. QED BY <1>1, <1>2, <1>3 DEF WriterInv

(* A step of one process and what it leaves of another's.                  *)
LEMMA OthersKept ==
  ASSUME WriterTypeOK, NEW p \in Procs, Holding(p), WriterStep(p),
         NEW q \in Procs, q # p
  PROVE  /\ pc'[q] = pc[q] /\ copy'[q] = copy[q] /\ flush_done'[q] = flush_done[q]
         /\ fd'[q] = fd[q] /\ tmp'[q] = tmp[q]
         /\ handed'[q] = handed[q] /\ drained'[q] = drained[q]
         /\ \A k \in Copies : dir'[<<q, k>>] = dir[<<q, k>>]
         /\ \A k \in Copies : data'[<<q, k>>] = data[<<q, k>>]
         /\ \A k \in Copies : <<q, k>> \in past' <=> <<q, k>> \in past
         /\ synced \subseteq synced' /\ crashed' = crashed
<1>1. /\ Writer(p) \in Names /\ Writer(p) # Dest
      /\ \A k \in Copies : /\ <<q, k>> \in Names /\ <<q, k>> # Dest
                           /\ <<q, k>> \in Inodes /\ <<q, k>> # Writer(p)
  BY WriterType, NamesApart DEF Writers, Writer
<1>2. Streaming(p) => /\ fd[p] = Writer(p) /\ tmp[p] = Writer(p)
                      /\ dir[Writer(p)] = Writer(p)
  BY DEF Holding
<1>3. CASE StartFlush(p) \/ StartExit(p) \/ OpenFails(p) \/ WriteFails(p)
             \/ Close(p) \/ RenameFails(p) \/ Kill(p)
  BY <1>3 DEF StartFlush, StartExit, OpenFails, WriteFails, Close, RenameFails,
              Kill, Goto, Return, WriterTypeOK, fsVars
<1>4. CASE OpenTmp(p)
  BY <1>1, <1>4 DEF OpenTmp, CreateTmp, Goto, WriterTypeOK
<1>5. CASE Write(p)
  <2>1. /\ drained'[q] = drained[q]
        /\ \A k \in Copies : data'[<<q, k>>] = data[<<q, k>>]
    <3>1. CASE Drain(p, handed[p] + 1)
      BY <1>1, <1>2, <1>5, <3>1 DEF Write, Streaming, Drain, WriterTypeOK
    <3>2. CASE UNCHANGED <<drained, data>>
      BY <3>2
    <3>3. QED BY <1>5, <3>1, <3>2 DEF Write
  <2>2. QED BY <1>5, <2>1 DEF Write, WriterTypeOK
<1>6. CASE Flush(p)
  <2>1. PICK n : Drain(p, n)
    BY <1>6 DEF Flush
  <2>2. /\ drained'[q] = drained[q]
        /\ \A k \in Copies : data'[<<q, k>>] = data[<<q, k>>]
    BY <1>1, <1>2, <1>6, <2>1 DEF Flush, Streaming, Drain, WriterTypeOK
  <2>3. QED BY <1>6, <2>2 DEF Flush, Goto, WriterTypeOK
<1>7. CASE Sync(p)
  BY <1>7 DEF Sync, Goto, WriterTypeOK
<1>8. CASE Rename(p)
  BY <1>1, <1>2, <1>8 DEF Rename, Streaming, Return, Goto, WriterTypeOK
<1>9. CASE Unlink(p)
  BY <1>1, <1>2, <1>9 DEF Unlink, Streaming, Return, Goto, WriterTypeOK
<1>10. QED BY <1>3, <1>4, <1>5, <1>6, <1>7, <1>8, <1>9 DEF WriterStep

LEMMA OthersInv ==
  ASSUME WriterTypeOK, NEW p \in Procs, Holding(p), WriterStep(p),
         NEW q \in Procs, q # p
  PROVE  /\ Holding(q) => Holding(q)'
         /\ Progress(q) => Progress(q)'
<1>1. Writer(q)' = Writer(q)
  BY OthersKept DEF Writer
<1>2. PICK k \in Copies : Writer(q) = <<q, k>>
  BY DEF WriterTypeOK, Writer
<1>3. ASSUME Holding(q) PROVE Holding(q)'
  <2>1. /\ dir'[Writer(q)] = dir[Writer(q)]
        /\ Writer(q) \in past' <=> Writer(q) \in past
    BY <1>2, OthersKept
  <2>2. /\ pc'[q] = pc[q] /\ copy'[q] = copy[q] /\ flush_done'[q] = flush_done[q]
        /\ fd'[q] = fd[q] /\ tmp'[q] = tmp[q]
    BY OthersKept
  <2>3. \A j \in Copies : dir'[<<q, j>>] = dir[<<q, j>>]
    BY OthersKept
  <2>4. Streaming(q)' <=> Streaming(q)
    BY <2>2 DEF Streaming
  <2>5. /\ <<q, "flush">> \in past' <=> <<q, "flush">> \in past
        /\ <<q, "exit">> \in past' <=> <<q, "exit">> \in past
    BY OthersKept DEF Copies
  <2>6. Streaming(q)' => /\ fd'[q] = Writer(q)' /\ tmp'[q] = Writer(q)'
                         /\ dir'[Writer(q)'] = Writer(q)'
    BY <1>1, <1>3, <2>1, <2>2, <2>4 DEF Holding
  <2>7. Streaming(q)' \/ pc'[q] = "open" =>
          /\ Writer(q)' \notin past'
          /\ copy'[q] = "flush" => flush_done'[q]
    <3>1. Streaming(q)' \/ pc'[q] = "open" => Writer(q) \notin past
      BY <1>3, <2>2, <2>4 DEF Holding
    <3>2. Streaming(q)' \/ pc'[q] = "open" =>
            (copy'[q] = "flush" => flush_done[q])
      BY <1>3, <2>2, <2>4 DEF Holding
    <3>3. QED BY <1>1, <2>1, <2>2, <3>1, <3>2
  <2>8. /\ <<q, "flush">> \in past' => flush_done'[q]
        /\ <<q, "exit">> \in past' => pc'[q] \in {"exited", "killed"}
    BY <1>3, <2>2, <2>5 DEF Holding
  <2>9. /\ pc'[q] \in {"run", "exited"} =>
             \A j \in Copies : dir'[<<q, j>>] = NoFile
        /\ pc'[q] = "open" => \A j \in Copies : dir'[<<q, j>>] = NoFile
        /\ \A j \in Copies : Streaming(q)' /\ j # copy'[q] =>
                                 dir'[<<q, j>>] = NoFile
    BY <1>3, <2>2, <2>3, <2>4 DEF Holding
  <2>10. QED BY <2>6, <2>7, <2>8, <2>9 DEF Holding
<1>4. Progress(q) => Progress(q)'
  <2>1. data'[Writer(q)] = data[Writer(q)]
    BY <1>2, OthersKept
  <2>2. pc'[q] = pc[q] /\ handed'[q] = handed[q] /\ drained'[q] = drained[q]
    BY OthersKept
  <2>3. QED BY <1>1, <2>1, <2>2 DEF Progress, Whole
<1>5. QED BY <1>3, <1>4

(* The process that takes the step.                                        *)
LEMMA OwnHolding ==
  ASSUME WriterTypeOK, NEW p \in Procs, Holding(p), WriterStep(p)
  PROVE  Holding(p)'
<1>1. /\ Writer(p) \in Writers /\ Writer(p) \in Names /\ Writer(p) # Dest
      /\ Writer(p) # NoFile
      /\ \A k \in Copies : /\ <<p, k>> \in Names /\ <<p, k>> # Dest
                           /\ <<p, k>> # NoFile
      /\ Writer(p) = <<p, copy[p]>> /\ copy[p] \in Copies
      /\ pc[p] \in Places
  BY WriterType, NamesApart DEF Writers, Writer, WriterTypeOK
<1>2. CASE StartFlush(p)
  <2>1. pc'[p] = "open" /\ copy'[p] = "flush" /\ flush_done'[p]
    BY <1>2 DEF StartFlush, Goto, WriterTypeOK
  <2>2. <<p, "flush">> \notin past /\ <<p, "exit">> \notin past
    BY <1>2 DEF StartFlush, Holding
  <2>3. \A k \in Copies : dir[<<p, k>>] = NoFile
    BY <1>2 DEF StartFlush, Holding
  <2>4. past' = past /\ dir' = dir
    BY <1>2 DEF StartFlush, fsVars
  <2>5. Writer(p)' = <<p, "flush">>
    BY <2>1 DEF Writer
  <2>6. ~Streaming(p)'
    BY <2>1 DEF Streaming
  <2>7. QED BY <2>1, <2>2, <2>3, <2>4, <2>5, <2>6 DEF Holding
<1>3. CASE StartExit(p)
  <2>1. pc'[p] = "open" /\ copy'[p] = "exit" /\ flush_done'[p] = flush_done[p]
    BY <1>3 DEF StartExit, Goto, WriterTypeOK
  <2>2. <<p, "exit">> \notin past /\ (<<p, "flush">> \in past => flush_done[p])
    BY <1>3 DEF StartExit, Holding
  <2>3. \A k \in Copies : dir[<<p, k>>] = NoFile
    BY <1>3 DEF StartExit, Holding
  <2>4. past' = past /\ dir' = dir
    BY <1>3 DEF StartExit, fsVars
  <2>5. Writer(p)' = <<p, "exit">>
    BY <2>1 DEF Writer
  <2>6. ~Streaming(p)'
    BY <2>1 DEF Streaming
  <2>7. QED BY <2>1, <2>2, <2>3, <2>4, <2>5, <2>6 DEF Holding
<1>4. CASE OpenTmp(p)
  <2>1. /\ pc[p] = "open" /\ pc'[p] = "write"
        /\ fd'[p] = Writer(p) /\ tmp'[p] = Writer(p)
        /\ dir' = [dir EXCEPT ![Writer(p)] = Writer(p)]
        /\ UNCHANGED <<copy, flush_done, past>>
    BY <1>4 DEF OpenTmp, CreateTmp, Goto, WriterTypeOK
  <2>2. /\ Writer(p) \notin past /\ (copy[p] = "flush" => flush_done[p])
        /\ \A k \in Copies : dir[<<p, k>>] = NoFile
        /\ <<p, "exit">> \notin past /\ (<<p, "flush">> \in past => flush_done[p])
    BY <2>1 DEF Holding
  <2>3. dir'[Writer(p)] = Writer(p)
    BY <1>1, <2>1 DEF WriterTypeOK
  <2>4. \A k \in Copies : k # copy[p] => dir'[<<p, k>>] = NoFile
    BY <1>1, <2>1, <2>2 DEF WriterTypeOK
  <2>5. Writer(p)' = Writer(p)
    BY <2>1 DEF Writer
  <2>6. QED BY <2>1, <2>2, <2>3, <2>4, <2>5 DEF Holding, Streaming
<1>5. CASE OpenFails(p) \/ Unlink(p)
  <2>1. /\ pc'[p] = IF copy[p] = "exit" THEN "exited" ELSE "run"
        /\ UNCHANGED <<copy, flush_done, past>>
    BY <1>5 DEF OpenFails, Unlink, Return, Goto, WriterTypeOK, fsVars
  <2>2. \A k \in Copies : dir'[<<p, k>>] = NoFile
    <3>1. CASE OpenFails(p)
      BY <3>1 DEF OpenFails, Holding, fsVars
    <3>2. CASE Unlink(p)
      <4>1. /\ tmp[p] = Writer(p)
            /\ \A k \in Copies : k # copy[p] => dir[<<p, k>>] = NoFile
        BY <3>2 DEF Unlink, Holding, Streaming
      <4>2. dir' = [dir EXCEPT ![Writer(p)] = NoFile]
        BY <3>2, <4>1 DEF Unlink
      <4>3. QED BY <1>1, <4>1, <4>2 DEF WriterTypeOK
    <3>3. QED BY <1>5, <3>1, <3>2
  <2>3. /\ <<p, "flush">> \in past => flush_done[p]
        /\ <<p, "exit">> \notin past
    BY <1>5 DEF OpenFails, Unlink, Holding
  <2>4. QED BY <2>1, <2>2, <2>3 DEF Holding, Streaming
<1>6. CASE Write(p) \/ WriteFails(p) \/ Flush(p) \/ Sync(p) \/ Close(p)
             \/ RenameFails(p)
  <2>1. Streaming(p) /\ Streaming(p)'
    BY <1>6 DEF Write, WriteFails, Flush, Sync, Close, RenameFails, Goto,
                Streaming, WriterTypeOK
  <2>2. UNCHANGED <<copy, flush_done, fd, tmp, dir, past>>
    BY <1>6 DEF Write, WriteFails, Flush, Sync, Close, RenameFails, fsVars
  <2>3. Writer(p)' = Writer(p)
    BY <2>2 DEF Writer
  <2>4. <<p, "exit">> \notin past
    BY <2>1 DEF Holding, Streaming
  <2>5. QED BY <2>1, <2>2, <2>3, <2>4 DEF Holding, Streaming
<1>7. CASE Rename(p)
  <2>1. /\ tmp[p] = Writer(p) /\ dir[Writer(p)] = Writer(p)
        /\ \A k \in Copies : k # copy[p] => dir[<<p, k>>] = NoFile
        /\ copy[p] = "flush" => flush_done[p]
        /\ <<p, "flush">> \in past => flush_done[p]
        /\ <<p, "exit">> \notin past
    BY <1>7 DEF Rename, Holding, Streaming
  <2>2. /\ dir' = [dir EXCEPT ![Dest] = Writer(p), ![Writer(p)] = NoFile]
        /\ past' = past \union {Writer(p)}
        /\ pc'[p] = IF copy[p] = "exit" THEN "exited" ELSE "run"
        /\ UNCHANGED <<copy, flush_done>>
    BY <1>7, <2>1 DEF Rename, Return, Goto, WriterTypeOK
  <2>3. \A k \in Copies : dir'[<<p, k>>] = NoFile
    BY <1>1, <2>1, <2>2 DEF WriterTypeOK
  <2>4. <<p, "flush">> \in past' => flush_done[p]
    BY <1>1, <2>1, <2>2
  <2>5. <<p, "exit">> \in past' => copy[p] = "exit"
    BY <1>1, <2>1, <2>2
  <2>6. QED BY <2>2, <2>3, <2>4, <2>5 DEF Holding, Streaming
<1>8. CASE Kill(p)
  <2>1. pc'[p] = "killed" /\ UNCHANGED <<copy, flush_done, past>>
    BY <1>8 DEF Kill, Goto, WriterTypeOK, fsVars
  <2>2. <<p, "flush">> \in past => flush_done[p]
    BY DEF Holding
  <2>3. QED BY <2>1, <2>2 DEF Holding, Streaming
<1>9. QED BY <1>2, <1>3, <1>4, <1>5, <1>6, <1>7, <1>8 DEF WriterStep

(* The pieces of its own output that a stream has put in the file.         *)
LEMMA DrainOwn ==
  ASSUME WriterTypeOK, NEW p \in Procs, NEW n \in 0 .. Chunks, fd[p] = Writer(p),
         Drain(p, n),
         \A j \in 1 .. drained[p] : data[Writer(p)][j] = Writer(p)
  PROVE  /\ drained'[p] = n
         /\ \A j \in 1 .. n : data'[Writer(p)][j] = Writer(p)
         /\ n = Chunks => data'[Writer(p)] = Whole(Writer(p))
<1>1. Writer(p) \in Inodes /\ Chunks \in Nat /\ drained[p] \in 0 .. Chunks
  BY WriterType, NamesApart DEF WriterTypeOK
<1>2. data'[Writer(p)] = [j \in Pieces |-> IF drained[p] < j /\ j <= n
                             THEN Writer(p) ELSE data[Writer(p)][j]]
  BY <1>1 DEF Drain, WriterTypeOK
<1>3. \A j \in Pieces : j <= n => data'[Writer(p)][j] = Writer(p)
  <2> SUFFICES ASSUME NEW j \in Pieces, j <= n
               PROVE  data'[Writer(p)][j] = Writer(p)
    OBVIOUS
  <2>1. CASE drained[p] < j
    BY <1>2, <2>1
  <2>2. CASE ~(drained[p] < j)
    <3>1. j \in 1 .. drained[p]
      BY <1>1, <2>2 DEF Pieces
    <3>2. QED BY <1>2, <2>2, <3>1
  <2>3. QED BY <2>1, <2>2
<1>4. \A j \in 1 .. n : data'[Writer(p)][j] = Writer(p)
  BY <1>1, <1>3 DEF Pieces
<1>5. ASSUME n = Chunks PROVE data'[Writer(p)] = Whole(Writer(p))
  <2>1. \A j \in Pieces : data'[Writer(p)][j] = Writer(p)
    BY <1>1, <1>3, <1>5 DEF Pieces
  <2>2. data'[Writer(p)] = [j \in Pieces |-> data'[Writer(p)][j]]
    BY <1>2
  <2>3. QED BY <2>1, <2>2 DEF Whole
<1>6. drained'[p] = n
  BY DEF Drain, WriterTypeOK
<1>7. QED BY <1>4, <1>5, <1>6

LEMMA OwnProgress ==
  ASSUME WriterTypeOK, NEW p \in Procs, Holding(p), Progress(p), WriterStep(p)
  PROVE  Progress(p)'
<1>1. /\ Writer(p) \in Writers /\ Chunks \in Nat
      /\ handed[p] \in 0 .. Chunks /\ drained[p] \in 0 .. Chunks
      /\ pc[p] \in Places
  BY WriterType, NamesApart DEF WriterTypeOK
<1>2. Streaming(p) => fd[p] = Writer(p)
  BY DEF Holding
<1>3. CASE StartFlush(p) \/ StartExit(p) \/ OpenFails(p) \/ WriteFails(p)
             \/ RenameFails(p) \/ Rename(p) \/ Unlink(p) \/ Kill(p)
  <2>1. pc'[p] \notin {"write", "sync", "close", "rename"}
    BY <1>3 DEF StartFlush, StartExit, OpenFails, WriteFails, RenameFails,
                Rename, Unlink, Kill, Goto, Return, WriterTypeOK
  <2>2. QED BY <2>1 DEF Progress
<1>4. CASE OpenTmp(p)
  <2>1. pc'[p] = "write" /\ drained'[p] = 0 /\ handed'[p] = 0
    BY <1>4 DEF OpenTmp, Goto, WriterTypeOK
  <2>2. QED BY <2>1 DEF Progress
<1>5. CASE Write(p)
  <2>1. /\ pc[p] = "write" /\ pc'[p] = "write" /\ handed[p] < Chunks
        /\ handed'[p] = handed[p] + 1 /\ Writer(p)' = Writer(p)
        /\ Streaming(p)
    BY <1>5 DEF Write, WriterTypeOK, Writer, Streaming
  <2>2. /\ drained[p] <= handed[p]
        /\ \A j \in 1 .. drained[p] : data[Writer(p)][j] = Writer(p)
    BY <2>1 DEF Progress
  <2>3. CASE Drain(p, handed[p] + 1)
    <3>1. handed[p] + 1 \in 0 .. Chunks
      BY <1>1, <2>1
    <3>2. /\ drained'[p] = handed[p] + 1
          /\ \A j \in 1 .. handed[p] + 1 : data'[Writer(p)][j] = Writer(p)
      BY <1>2, <2>1, <2>2, <2>3, <3>1, DrainOwn
    <3>3. QED BY <1>1, <2>1, <3>2 DEF Progress
  <2>4. CASE UNCHANGED <<drained, data>>
    BY <1>1, <2>1, <2>2, <2>4 DEF Progress
  <2>5. QED BY <1>5, <2>3, <2>4 DEF Write
<1>6. CASE Flush(p)
  <2>1. /\ pc[p] = "write" /\ Writer(p)' = Writer(p) /\ Streaming(p)
        /\ \A j \in 1 .. drained[p] : data[Writer(p)][j] = Writer(p)
    BY <1>6 DEF Flush, Writer, Streaming, Progress
  <2>2. CASE Drain(p, Chunks) /\ Goto(p, "sync")
    <3>1. data'[Writer(p)] = Whole(Writer(p))
      BY <1>1, <1>2, <2>1, <2>2, DrainOwn
    <3>2. pc'[p] = "sync"
      BY <2>2 DEF Goto, WriterTypeOK
    <3>3. QED BY <2>1, <3>1, <3>2 DEF Progress, Whole
  <2>3. CASE Goto(p, "unlink")
    BY <2>3 DEF Goto, WriterTypeOK, Progress
  <2>4. QED BY <1>6, <2>2, <2>3 DEF Flush
<1>7. CASE Sync(p) \/ Close(p)
  <2>1. /\ pc[p] \in {"sync", "close"}
        /\ pc'[p] \in {"close", "rename", "unlink"}
        /\ Writer(p)' = Writer(p) /\ data' = data
    BY <1>7 DEF Sync, Close, Goto, WriterTypeOK, Writer, fsVars
  <2>2. QED BY <2>1 DEF Progress, Whole
<1>8. QED BY <1>3, <1>4, <1>5, <1>6, <1>7 DEF WriterStep

(* What has been published is never written to again.                      *)
LEMMA PastUntouched ==
  ASSUME WriterTypeOK, NEW p \in Procs, Holding(p), WriterStep(p),
         NEW i \in past, i # NoFile
  PROVE  data'[i] = data[i]
<1>1. i \in Inodes /\ Writer(p) \in Inodes
  BY WriterType, NamesApart DEF WriterTypeOK
<1>2. Streaming(p) \/ pc[p] = "open" => i # Writer(p)
  BY DEF Holding
<1>3. Streaming(p) => fd[p] = Writer(p)
  BY DEF Holding
<1>4. CASE OpenTmp(p)
  BY <1>1, <1>2, <1>4 DEF OpenTmp, CreateTmp, WriterTypeOK
<1>5. CASE Write(p) \/ Flush(p)
  <2>1. Streaming(p)
    BY <1>5 DEF Write, Flush, Streaming
  <2>2. CASE data' = data
    BY <2>2
  <2>3. CASE \E n : Drain(p, n)
    BY <1>1, <1>2, <1>3, <2>1, <2>3 DEF Drain, WriterTypeOK
  <2>4. QED BY <1>5, <2>2, <2>3 DEF Write, Flush
<1>6. CASE ~(OpenTmp(p) \/ Write(p) \/ Flush(p))
  <2>1. data' = data
    BY <1>6 DEF WriterStep, StartFlush, StartExit, OpenFails, WriteFails, Sync, Close,
                Rename, RenameFails, Unlink, Kill, fsVars
  <2>2. QED BY <2>1
<1>7. QED BY <1>4, <1>5, <1>6

(* What a step adds to the past, and what Dest then names.                 *)
LEMMA Published ==
  ASSUME WriterTypeOK, NEW p \in Procs, Holding(p), WriterStep(p)
  PROVE  \/ dir'[Dest] = dir[Dest] /\ past' = past
         \/ /\ Rename(p) /\ Writer(p) \notin past
            /\ dir'[Dest] = Writer(p) /\ past' = past \union {Writer(p)}
<1>1. /\ Writer(p) \in Names /\ Writer(p) # Dest /\ Dest \in Names
  BY WriterType, NamesApart
<1>2. Streaming(p) => /\ tmp[p] = Writer(p) /\ dir[Writer(p)] = Writer(p)
                      /\ Writer(p) \notin past
  BY DEF Holding
<1>3. CASE Rename(p)
  BY <1>1, <1>2, <1>3 DEF Rename, Streaming, WriterTypeOK
<1>4. CASE OpenTmp(p)
  BY <1>1, <1>4 DEF OpenTmp, CreateTmp, WriterTypeOK
<1>5. CASE Unlink(p)
  BY <1>1, <1>2, <1>5 DEF Unlink, Streaming, WriterTypeOK
<1>6. CASE ~(Rename(p) \/ OpenTmp(p) \/ Unlink(p))
  BY <1>6 DEF WriterStep, StartFlush, StartExit, OpenFails, Write, WriteFails, Flush,
              Sync, Close, RenameFails, Kill, fsVars
<1>7. QED BY <1>3, <1>4, <1>5, <1>6

(* Only what was synced is renamed, where fsync works.                     *)
LEMMA SyncedBeforeRename ==
  ASSUME WriterTypeOK, NEW p \in Procs, Holding(p), WriterStep(p), SyncSupported,
         pc[p] \in {"close", "rename"} => Writer(p) \in synced
  PROVE  /\ pc'[p] \in {"close", "rename"} => Writer(p)' \in synced'
         /\ synced \subseteq synced'
<1>1. Streaming(p) => fd[p] = Writer(p)
  BY DEF Holding
<1>2. pc[p] \in Places
  BY DEF WriterTypeOK
<1>3. CASE Sync(p)
  BY <1>1, <1>3 DEF Sync, Goto, WriterTypeOK, Writer, Streaming
<1>4. CASE Close(p)
  BY <1>4 DEF Close, Goto, WriterTypeOK, Writer, fsVars
<1>5. CASE ~(Sync(p) \/ Close(p))
  <2>1. synced' = synced
    BY <1>5 DEF WriterStep, StartFlush, StartExit, OpenTmp, OpenFails, Write,
                WriteFails, Flush, Rename, RenameFails, Unlink, Kill, fsVars
  <2>2. pc'[p] \notin {"close", "rename"}
    <3>1. CASE Write(p)
      BY <3>1 DEF Write
    <3>2. CASE ~Write(p)
      BY <1>5, <3>2 DEF WriterStep, StartFlush, StartExit, OpenTmp, OpenFails,
                WriteFails, Flush, Rename, RenameFails, Unlink, Kill,
                Goto, Return, WriterTypeOK
    <3>3. QED BY <3>1, <3>2
  <2>3. QED BY <2>1, <2>2
<1>6. QED BY <1>3, <1>4, <1>5

LEMMA WriterInvNext ==
  ASSUME WriterTypeOK, WriterInv, [WriterNext]_writerVars
  PROVE  WriterInv'
<1>1. ASSUME NEW p \in Procs, ~crashed, WriterStep(p) PROVE WriterInv'
  <2>1. Holding(p) /\ Progress(p)
    BY <1>1 DEF WriterInv
  <2>2. crashed' = crashed
    BY <1>1 DEF WriterStep, StartFlush, StartExit, OpenTmp, OpenFails, Write,
                WriteFails, Flush, Sync, Close, Rename, RenameFails, Unlink,
                Kill, fsVars
  <2>3. ASSUME NEW q \in Procs PROVE Holding(q)' /\ Progress(q)'
    <3>1. CASE q = p
      BY <1>1, <2>1, <3>1, OwnHolding, OwnProgress
    <3>2. CASE q # p
      BY <1>1, <2>1, <3>2, OthersInv DEF WriterInv
    <3>3. QED BY <3>1, <3>2
  <2>4. ASSUME NEW q \in Procs, SyncSupported, pc'[q] \in {"close", "rename"}
        PROVE  Writer(q)' \in synced'
    <3>1. CASE q = p
      BY <1>1, <2>1, <2>4, <3>1, SyncedBeforeRename DEF WriterInv
    <3>2. CASE q # p
      BY <1>1, <2>1, <2>4, <3>2, OthersKept DEF WriterInv, Writer
    <3>3. QED BY <3>1, <3>2
  <2>5. dir'[Dest] \in past'
    BY <1>1, <2>1, Published DEF WriterInv
  <2>6. ASSUME NEW i \in past', i # NoFile PROVE Kept(i)'
    <3>1. SyncSupported => synced \subseteq synced'
      BY <1>1, <2>1, SyncedBeforeRename DEF WriterInv
    <3>2. CASE i \in past
      <4>1. Kept(i) /\ data'[i] = data[i]
        BY <1>1, <2>1, <2>6, <3>2, PastUntouched DEF WriterInv
      <4>2. QED BY <2>2, <3>1, <4>1 DEF Kept, Whole
    <3>3. CASE i \notin past
      <4>1. Rename(p) /\ i = Writer(p)
        BY <1>1, <2>1, <2>6, <3>3, Published
      <4>2. /\ data[i] = Whole(i) /\ data' = data
            /\ SyncSupported => i \in synced
        BY <2>1, <4>1 DEF Rename, Progress, WriterInv
      <4>3. i \in Inodes
        BY <4>1, WriterType, NamesApart
      <4>4. QED BY <3>1, <4>2, <4>3 DEF Kept, Whole
    <3>4. QED BY <3>2, <3>3
  <2>7. QED BY <2>3, <2>4, <2>5, <2>6 DEF WriterInv
<1>2. CASE HostDies
  <2>1. /\ ~crashed /\ crashed' /\ UNCHANGED <<procVars, synced, past>>
    BY <1>2 DEF HostDies
  <2>2. PICK i \in past, kept \in SUBSET Pieces :
          /\ dir' = [dir EXCEPT ![Dest] = i]
          /\ data' = [k \in Inodes |->
                        IF k \in synced THEN data[k]
                        ELSE [j \in Pieces |-> IF j \in kept THEN data[k][j]
                                                             ELSE Nothing]]
    BY <1>2 DEF HostDies
  <2>3. ASSUME NEW p \in Procs PROVE Holding(p)'
    <3>1. Holding(p) /\ Writer(p)' = Writer(p)
      BY <2>1 DEF WriterInv, Writer, procVars
    <3>2. /\ dir'[Writer(p)] = dir[Writer(p)]
          /\ \A k \in Copies : dir'[<<p, k>>] = dir[<<p, k>>]
      <4>1. /\ Writer(p) \in Names /\ Writer(p) # Dest
            /\ \A k \in Copies : <<p, k>> \in Names /\ <<p, k>> # Dest
        BY WriterType, NamesApart DEF Writers
      <4>2. QED BY <2>2, <4>1 DEF WriterTypeOK
    <3>3. UNCHANGED <<pc, copy, flush_done, fd, tmp, past>>
      BY <2>1 DEF procVars
    <3>4. Streaming(p)' <=> Streaming(p)
      BY <3>3 DEF Streaming
    <3>5. QED BY <3>1, <3>2, <3>3, <3>4 DEF Holding
  <2>4. dir'[Dest] \in past'
    BY <2>1, <2>2, NamesApart DEF WriterTypeOK
  <2>5. ASSUME NEW i2 \in past', i2 # NoFile PROVE Kept(i2)'
    <3>1. Kept(i2)
      BY <2>1, <2>5 DEF WriterInv
    <3>2. SyncSupported => data'[i2] = data[i2]
      BY <2>2, <3>1 DEF Kept
    <3>3. QED BY <2>1, <3>1, <3>2 DEF Kept, Whole
  <2>6. ASSUME NEW p \in Procs, SyncSupported, pc'[p] \in {"close", "rename"}
        PROVE  Writer(p)' \in synced'
    BY <2>1, <2>6 DEF WriterInv, Writer, procVars
  <2>7. QED BY <2>1, <2>3, <2>4, <2>5, <2>6 DEF WriterInv
<1>3. CASE UNCHANGED writerVars
  <2>1. UNCHANGED <<pc, copy, flush_done, fd, tmp, handed, drained, dir, data,
                    synced, past, crashed>>
    BY <1>3 DEF writerVars, procVars, fsVars
  <2>2. ASSUME NEW p \in Procs, Holding(p) PROVE Holding(p)'
    BY <2>1, <2>2 DEF Holding, Streaming, Writer
  <2>3. ASSUME NEW p \in Procs, Progress(p) PROVE Progress(p)'
    BY <2>1, <2>3 DEF Progress, Whole, Writer
  <2>4. ASSUME NEW i \in past, i # NoFile PROVE Kept(i)'
    BY <2>1, <2>4 DEF WriterInv, Kept, Whole
  <2>5. QED BY <2>1, <2>2, <2>3, <2>4 DEF WriterInv, Writer
<1>4. QED BY <1>1, <1>2, <1>3 DEF WriterNext

LEMMA WriterSafe == WriterSpec => [](WriterTypeOK /\ WriterInv)
<1>1. WriterInit => WriterTypeOK /\ WriterInv
  BY WriterInitType, WriterInvInit
<1>2. WriterTypeOK /\ WriterInv /\ [WriterNext]_writerVars => (WriterTypeOK /\ WriterInv)'
  BY TypeStep, WriterInvNext DEF WriterInv
<1>3. QED BY <1>1, <1>2, PTL DEF WriterSpec

-----------------------------------------------------------------------------
(* The theorems.                                                           *)

(* The variables of ArtifactWriter keep their types.                       *)
THEOREM WriterTypeCorrect == WriterSpec => []WriterTypeOK
<1>1. QED BY WriterSafe, PTL

(* For any number of processes, pieces and failures, Dest is the complete  *)
(* output of one write; after the host died, where fsync works             *)
(* (write_artifact, open_tmp, close_out).                                  *)
THEOREM PublishedWholeCorrect == WriterSpec => []PublishedWhole
<1>1. WriterInv => PublishedWhole
  BY DEF WriterInv, Kept, PublishedWhole
<1>2. QED BY <1>1, WriterSafe, PTL

(* A process that finished leaves no temporary, whatever failed            *)
(* (the error paths of write_artifact).                                    *)
THEOREM TmpRemovedCorrect == WriterSpec => []TmpRemoved
<1>1. WriterInv => TmpRemoved
  BY DEF WriterInv, Holding, TmpRemoved
<1>2. QED BY <1>1, WriterSafe, PTL

LEMMA ShownIsNamed ==
  WriterTypeOK /\ WriterInv /\ SyncSupported => Shown(dir[Dest]) = dir[Dest]
<1> SUFFICES ASSUME WriterTypeOK, WriterInv, SyncSupported
             PROVE  Shown(dir[Dest]) = dir[Dest]
  OBVIOUS
<1>1. CASE dir[Dest] = NoFile
  BY <1>1 DEF Shown
<1>2. CASE dir[Dest] # NoFile
  <2>1. dir[Dest] \in Inodes /\ data[dir[Dest]] = Whole(dir[Dest])
    BY <1>2 DEF WriterInv, Kept
  <2>2. data[dir[Dest]][1] = dir[Dest]
    BY <2>1, NamesApart DEF Whole
  <2>3. QED BY <1>2, <2>1, <2>2 DEF Shown
<1>3. QED BY <1>1, <1>2

LEMMA ShownNext ==
  ASSUME WriterTypeOK, WriterInv, SyncSupported, [WriterNext]_writerVars, WriterTypeOK', WriterInv'
  PROVE  [Atomic!Next]_<<Shown(dir[Dest]), past>>
<1>1. /\ Shown(dir[Dest]) = dir[Dest]
      /\ Shown(dir[Dest])' = dir'[Dest]
  <2>1. (WriterTypeOK /\ WriterInv /\ SyncSupported =>
            Shown(dir[Dest]) = dir[Dest])'
    BY ShownIsNamed, PTL
  <2>2. QED BY <2>1, ShownIsNamed
<1>2. ASSUME NEW p \in Procs, WriterStep(p)
      PROVE  [Atomic!Next]_<<Shown(dir[Dest]), past>>
  <2>1. Holding(p)
    BY DEF WriterInv
  <2>2. CASE dir'[Dest] = dir[Dest] /\ past' = past
    BY <1>1, <2>2
  <2>3. CASE /\ Rename(p) /\ Writer(p) \notin past
             /\ dir'[Dest] = Writer(p) /\ past' = past \union {Writer(p)}
    <3>1. Writer(p) = <<p, copy[p]>> /\ Writer(p) \in Atomic!Writers
      BY WriterType DEF Writer, Writers, Copies, Atomic!Writers, Atomic!Copies
    <3>2. <<p, "exit">> \notin past
      BY <2>1, <2>3 DEF Rename, Holding
    <3>3. Atomic!Publish(Writer(p))
      BY <1>1, <2>3, <3>1, <3>2 DEF Atomic!Publish
    <3>4. QED BY <3>1, <3>3 DEF Atomic!Next
  <2>4. QED BY <1>2, <2>1, <2>2, <2>3, Published
<1>3. CASE HostDies
  <2>1. past' = past /\ dir'[Dest] \in past
    BY <1>3 DEF HostDies, WriterInv
  <2>2. QED BY <1>1, <2>1 DEF Atomic!Next, Atomic!HostDies
<1>4. CASE UNCHANGED writerVars
  BY <1>1, <1>4 DEF writerVars, fsVars
<1>5. QED BY <1>2, <1>3, <1>4 DEF WriterNext

(* Where fsync works, write_artifact, with everything that can fail in it, *)
(* implements the atomic replacement of AtomicArtifact.                    *)
THEOREM ReplacementIsAtomic ==
  ASSUME SyncSupported
  PROVE  WriterSpec => ReplacedAtomically
<1>1. WriterTypeOK /\ WriterInv /\ WriterInit => Atomic!Init
  BY ShownIsNamed, NamesApart DEF WriterInit, Atomic!Init
<1>2. WriterTypeOK /\ WriterInv /\ [WriterNext]_writerVars /\ (WriterTypeOK /\ WriterInv)' =>
        [Atomic!Next]_<<Shown(dir[Dest]), past>>
  BY ShownNext
<1>3. QED BY <1>1, <1>2, WriterSafe, PTL
          DEF WriterSpec, ReplacedAtomically, Atomic!Spec

-----------------------------------------------------------------------------
(* The permissions of what out= names.                                     *)

Std == IF Before = NoFile THEN "umask" ELSE "prior"

(* Every temporary gets the permissions of the file it is to replace, and  *)
(* whatever Dest may name has them already: artifact_mode may take any.    *)
ModeInv ==
  /\ \A i \in past : i \in Writers \/ i = Before
  /\ ~chmodFail => /\ \A i \in past : i # NoFile => mode[i] = Std
                   /\ \A p \in Procs : Streaming(p) => mode[Writer(p)] = Std

LEMMA ModeInvInit == WriterInit => ModeInv
BY WriterAssumption DEF WriterInit, ModeInv, Std, Streaming, Inodes

(* artifact_mode, as long as no fchmod has failed.                         *)
LEMMA ArtifactModeStd ==
  ASSUME WriterTypeOK, WriterInv, ModeInv, ~chmodFail
  PROVE  ArtifactMode = Std
<1>1. dir[Dest] \in past
  BY DEF WriterInv
<1>2. CASE dir[Dest] # NoFile
  BY <1>1, <1>2 DEF ModeInv, ArtifactMode
<1>3. CASE dir[Dest] = NoFile
  <2>1. Before = NoFile
    BY <1>1, <1>3, WriterAssumption DEF ModeInv
  <2>2. QED BY <1>3, <2>1 DEF ArtifactMode, Std
<1>4. QED BY <1>2, <1>3

LEMMA ModeInvNext ==
  ASSUME WriterTypeOK, WriterInv, ModeInv, [WriterNext]_writerVars
  PROVE  ModeInv'
<1>1. ASSUME NEW p \in Procs, WriterStep(p) PROVE ModeInv'
  <2>1. /\ Holding(p) /\ Writer(p) \in Writers /\ Writer(p) \in Inodes
        /\ pc[p] \in Places
    BY WriterType, NamesApart DEF WriterInv, WriterTypeOK
  <2>2. \/ past' = past
        \/ Rename(p) /\ past' = past \union {Writer(p)}
    BY <1>1, <2>1, Published
  <2>3. \A i \in past' : i \in Writers \/ i = Before
    BY <2>1, <2>2 DEF ModeInv
  <2>4. CASE OpenTmp(p) /\ ~chmodFail'
    <3>1. /\ pc[p] = "open" /\ past' = past /\ copy' = copy /\ ~chmodFail
          /\ fd'[p] = Writer(p)
      BY <2>4 DEF OpenTmp, CreateTmp, WriterTypeOK
    <3>2. mode' = [mode EXCEPT ![Writer(p)] = Std]
      BY <2>4, <3>1, ArtifactModeStd DEF OpenTmp
    <3>3. \A i \in Inodes : mode'[i] = IF i = Writer(p) THEN Std ELSE mode[i]
      BY <3>2 DEF WriterTypeOK
    <3>4. ASSUME NEW i \in past', i # NoFile PROVE mode'[i] = Std
      BY <3>1, <3>3, <3>4 DEF ModeInv, WriterTypeOK
    <3>5. ASSUME NEW q \in Procs, Streaming(q)' PROVE mode'[Writer(q)'] = Std
      <4>1. Writer(q)' = Writer(q) /\ Writer(q) \in Inodes
        BY <3>1, WriterType, NamesApart DEF Writer
      <4>2. CASE q = p
        BY <3>3, <4>1, <4>2
      <4>3. CASE q # p
        <5>1. Streaming(q)
          BY <1>1, <2>1, <3>5, <4>3, OthersKept DEF Streaming
        <5>2. QED BY <3>1, <3>3, <4>1, <5>1 DEF ModeInv
      <4>4. QED BY <4>2, <4>3
    <3>6. QED BY <2>3, <3>4, <3>5 DEF ModeInv
  <2>5. CASE ~OpenTmp(p) /\ ~chmodFail'
    <3>1. mode' = mode /\ ~chmodFail
      BY <1>1, <2>5 DEF WriterStep, StartFlush, StartExit, OpenFails, Write,
                  WriteFails, Flush, Sync, Close, Rename, RenameFails, Unlink,
                  Kill, fsVars
    <3>2. ASSUME NEW q \in Procs, Streaming(q)'
          PROVE  Streaming(q) /\ Writer(q)' = Writer(q)
      <4>1. CASE q = p
        <5>1. CASE StartFlush(p) \/ StartExit(p) \/ OpenFails(p) \/ Rename(p)
                     \/ Unlink(p) \/ Kill(p)
          <6>1. pc'[p] \in {"open", "exited", "run", "killed"}
            BY <5>1 DEF StartFlush, StartExit, OpenFails, Rename, Unlink, Kill,
                        Goto, Return, WriterTypeOK
          <6>2. QED BY <3>2, <4>1, <6>1 DEF Streaming
        <5>2. CASE Write(p) \/ WriteFails(p) \/ Flush(p) \/ Sync(p) \/ Close(p)
                     \/ RenameFails(p)
          BY <4>1, <5>2 DEF Write, WriteFails, Flush, Sync, Close, RenameFails,
                        Streaming, Writer
        <5>3. QED BY <1>1, <2>5, <5>1, <5>2 DEF WriterStep
      <4>2. CASE q # p
        BY <1>1, <2>1, <3>2, <4>2, OthersKept DEF Streaming, Writer
      <4>3. QED BY <4>1, <4>2
    <3>3. ASSUME NEW i \in past', i # NoFile PROVE mode'[i] = Std
      <4>1. CASE i \in past
        BY <3>1, <3>3, <4>1 DEF ModeInv
      <4>2. CASE i \notin past
        <5>1. i = Writer(p) /\ Streaming(p)
          BY <2>2, <3>3, <4>2 DEF Rename, Streaming
        <5>2. QED BY <3>1, <5>1 DEF ModeInv
      <4>3. QED BY <4>1, <4>2
    <3>4. \A q \in Procs : Streaming(q)' => mode'[Writer(q)'] = Std
      BY <3>1, <3>2 DEF ModeInv
    <3>5. QED BY <2>3, <3>3, <3>4 DEF ModeInv
  <2>6. CASE chmodFail'
    BY <2>3, <2>6 DEF ModeInv
  <2>7. QED BY <2>4, <2>5, <2>6
<1>2. CASE HostDies \/ UNCHANGED writerVars
  BY <1>2 DEF HostDies, writerVars, procVars, fsVars, ModeInv, Streaming, Writer
<1>3. QED BY <1>1, <1>2 DEF WriterNext

(* Any number of runs may replace the artifact, and each other's: as long  *)
(* as no fchmod fails, what out= names has the permissions it had before   *)
(* (artifact_mode, open_tmp).                                              *)
THEOREM ModeKeptCorrect == WriterSpec => []ModeKept
<1>1. WriterInit => ModeInv
  BY ModeInvInit
<1>2. WriterTypeOK /\ WriterInv /\ ModeInv /\ [WriterNext]_writerVars => ModeInv'
  BY ModeInvNext
<1>3. WriterInv /\ ModeInv => ModeKept
  BY DEF WriterInv, ModeInv, ModeKept, Std
<1>4. QED BY <1>1, <1>2, <1>3, WriterSafe, PTL DEF WriterSpec

-----------------------------------------------------------------------------
(* The last copy.                                                          *)

LastInv ==
  ~crashed =>
    /\ \A i \in past : i \in Writers \/ i = Before
    /\ dir[Dest] = Before => past = {Before}
    /\ \A p \in Procs :
         /\ pc[p] = "exited" /\ ~failed[p] => <<p, "exit">> \in past
         /\ dir[Dest] = <<p, "flush">> => <<p, "exit">> \notin past

LEMMA LastInvInit == WriterInit => LastInv
<1> SUFFICES ASSUME WriterInit PROVE LastInv
  OBVIOUS
<1>1. past = {Before} /\ \A p \in Procs : pc[p] = "run"
  BY DEF WriterInit
<1>2. dir[Dest] = Before
  BY NamesApart DEF WriterInit
<1>3. \A p \in Procs, k \in Copies : <<p, k>> # Before
  BY WriterAssumption DEF Writers
<1>4. QED BY <1>1, <1>2, <1>3 DEF LastInv, Copies

LEMMA LastInvNext ==
  ASSUME WriterTypeOK, WriterInv, LastInv, [WriterNext]_writerVars
  PROVE  LastInv'
<1>1. ASSUME NEW p \in Procs, ~crashed, WriterStep(p) PROVE LastInv'
  <2>1. /\ Holding(p) /\ Writer(p) \in Writers /\ Writer(p) = <<p, copy[p]>>
        /\ pc[p] \in Places /\ copy[p] \in Copies
    BY WriterType DEF WriterInv, WriterTypeOK, Writer
  <2>2. \/ dir'[Dest] = dir[Dest] /\ past' = past
        \/ /\ Rename(p) /\ Writer(p) \notin past
           /\ dir'[Dest] = Writer(p) /\ past' = past \union {Writer(p)}
    BY <1>1, <2>1, Published
  <2>3. /\ \A i \in past' : i \in Writers \/ i = Before
        /\ dir'[Dest] = Before => past' = {Before}
    BY <1>1, <2>1, <2>2, WriterAssumption DEF LastInv
  <2>4. ASSUME NEW q \in Procs, pc'[q] = "exited", ~failed'[q]
        PROVE  <<q, "exit">> \in past'
    <3>1. CASE q = p
      <4>1. CASE OpenFails(p) \/ Unlink(p)
        BY <2>4, <3>1, <4>1 DEF OpenFails, Unlink, WriterTypeOK
      <4>2. CASE Rename(p)
        <5>1. copy[p] = "exit"
          BY <2>4, <3>1, <4>2 DEF Rename, Return, Goto, WriterTypeOK
        <5>2. past' = past \union {dir[tmp[p]]} /\ dir[tmp[p]] = Writer(p)
          BY <2>1, <4>2 DEF Rename, Holding, Streaming
        <5>3. QED BY <2>1, <3>1, <5>1, <5>2
      <4>3. CASE ~(OpenFails(p) \/ Unlink(p) \/ Rename(p))
        <5>1. CASE Write(p)
          BY <2>4, <3>1, <5>1 DEF Write
        <5>2. CASE ~Write(p)
          BY <1>1, <2>4, <3>1, <4>3, <5>2
             DEF WriterStep, StartFlush, StartExit, OpenTmp, WriteFails, Flush, Sync,
                 Close, RenameFails, Kill, Goto, WriterTypeOK
        <5>3. QED BY <5>1, <5>2
      <4>4. QED BY <4>1, <4>2, <4>3
    <3>2. CASE q # p
      <4>1. pc[q] = "exited"
        BY <1>1, <2>1, <2>4, <3>2, OthersKept
      <4>2. failed'[q] = failed[q]
        BY <1>1, <3>2 DEF WriterStep, StartFlush, StartExit, OpenTmp, OpenFails,
                    Write, WriteFails, Flush, Sync, Close, Rename, RenameFails,
                    Unlink, Kill, WriterTypeOK
      <4>3. QED BY <1>1, <2>2, <2>4, <4>1, <4>2 DEF LastInv
    <3>3. QED BY <3>1, <3>2
  <2>5. ASSUME NEW q \in Procs, dir'[Dest] = <<q, "flush">>
        PROVE  <<q, "exit">> \notin past'
    <3>1. CASE dir'[Dest] = dir[Dest] /\ past' = past
      BY <1>1, <2>5, <3>1 DEF LastInv
    <3>2. CASE /\ Rename(p) /\ dir'[Dest] = Writer(p)
               /\ past' = past \union {Writer(p)}
      <4>1. q = p /\ Writer(p) = <<p, "flush">>
        BY <2>1, <2>5, <3>2
      <4>2. <<p, "exit">> \notin past
        BY <2>1, <3>2 DEF Rename, Holding
      <4>3. QED BY <3>2, <4>1, <4>2
    <3>3. QED BY <2>2, <3>1, <3>2
  <2>6. QED BY <2>3, <2>4, <2>5 DEF LastInv
<1>2. CASE HostDies
  BY <1>2 DEF HostDies, LastInv
<1>3. CASE UNCHANGED writerVars
  BY <1>3 DEF writerVars, procVars, fsVars, LastInv
<1>4. QED BY <1>1, <1>2, <1>3 DEF WriterNext

(* However many processes share out=, with their flush_at copies and exit  *)
(* copies in any order: when all have written and none gave up, out= holds *)
(* an exit copy (vcpu_flush and plugin_exit together).                     *)
THEOREM LastIsExitCopyCorrect == WriterSpec => []LastIsExitCopy
<1>1. WriterInit => LastInv
  BY LastInvInit
<1>2. WriterTypeOK /\ WriterInv /\ LastInv /\ [WriterNext]_writerVars => LastInv'
  BY LastInvNext
<1>3. WriterInv /\ LastInv => LastIsExitCopy
  <2> SUFFICES ASSUME WriterInv, LastInv, ~crashed,
                      \A p \in Procs : pc[p] = "exited" /\ ~failed[p]
               PROVE  dir[Dest] \in Procs \X {"exit"}
    BY DEF LastIsExitCopy
  <2>1. dir[Dest] \in past /\ \A p \in Procs : <<p, "exit">> \in past
    BY DEF WriterInv, LastInv
  <2>2. PICK p \in Procs : <<p, "exit">> \in past /\ <<p, "exit">> # Before
    BY <2>1, WriterAssumption DEF Writers, Copies
  <2>3. dir[Dest] # Before
    BY <2>2 DEF LastInv
  <2>4. dir[Dest] \in Writers
    BY <2>1, <2>3 DEF LastInv
  <2>5. PICK q \in Procs, k \in Copies : dir[Dest] = <<q, k>>
    BY <2>4 DEF Writers
  <2>6. k # "flush"
    BY <2>1, <2>5 DEF LastInv
  <2>7. QED BY <2>5, <2>6 DEF Copies
<1>4. QED BY <1>1, <1>2, <1>3, WriterSafe, PTL DEF WriterSpec
=============================================================================
