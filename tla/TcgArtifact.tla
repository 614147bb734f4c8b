---------------------------- MODULE TcgArtifact ----------------------------
(***************************************************************************)
(* What an artifact written from the recorder's tables tells its reader:   *)
(* the TB table and early exits that collect_tb_table builds               *)
(* (plugin/tcgcov.c), and the per-instruction records expand_tb_records    *)
(* (tcgcov/format.py) makes of them, set against what the guest really     *)
(* executed.  The loop of expand_tb_records itself is checked in TbTable;  *)
(* here its result, count(entry) less the exits at or before an address,   *)
(* is used directly.                                                       *)
(***************************************************************************)
EXTENDS TcgRecorder, Integers, FiniteSetsExt, Functions

(* The identity of a TB entry, next to its context: start and sizes.       *)
Code(b)   == <<Start[b], Size[b]>>
Codes     == {Code(b) : b \in Blocks}
Insns(code) == code[1] .. (code[1] + code[2] - 1)
Alike(code) == {b \in Blocks : Code(b) = code}
Slots     == {v \in Vcpus : HasSlot(v)}

(* collect_tb_table: counts summed over every translation of the same code *)
(* and, with ctx=on, over the vCPUs' tables.                               *)
BlockCount(c, b) ==
  IF settings.ctx THEN SumFunction([v \in Slots |-> ctx_tbs[v][<<c, b>>]])
  ELSE IF c = 0 THEN tb_count[b] ELSE 0

EntryCount(c, code) ==
  SumFunction([b \in Alike(code) |-> BlockCount(c, b)])

(* The same for the exits; one of an entry that has no count is dropped.   *)
ExitCount(c, code, pc) ==
  IF EntryCount(c, code) = 0 THEN 0
  ELSE SumFunction([vb \in Slots \X Alike(code) |->
                      exits[vb[1]][<<c, vb[2], pc>>]])

(* expand_tb_records: what is left of an entry's count at address a.       *)
LeftAt(c, code, a) ==
  EntryCount(c, code)
    - SumFunction([pc \in code[1] .. a |-> ExitCount(c, code, pc)])

Expanded(c, a) ==
  IF a \notin InRange THEN 0
  ELSE SumFunction([code \in {k \in Codes : a \in Insns(k)} |->
                      Max({0, LeftAt(c, code, a)})])

-----------------------------------------------------------------------------
(* What really happened.                                                   *)

Holders(a) == {b \in Blocks : Instrumented(b) /\ a \in Extent(b)}

TimesReached(c, a) ==
  SumFunction([vb \in Vcpus \X Holders(a) |->
                 reached[vb[1]][<<c, vb[2], a>>]])

(* Executions in progress that have yet to reach a.                        *)
StillToReach(c, a) ==
  {v \in Vcpus : \E b \in Holders(a) :
     /\ blk[v] = b /\ entry_ctx[v] = c
     /\ idx[v] < Size[b] /\ a >= At(v)}

(* A block abandoned for its resumption, which has not been entered yet.   *)
Resuming == \E v \in Vcpus : resume[v] # NoAddr

(* No vCPU is inside a block: the state plugin_exit finds.                 *)
Quiescent == \A v \in Vcpus : AtBoundary(v) /\ resume[v] = NoAddr

-----------------------------------------------------------------------------
(* Properties.                                                             *)

(* The reader's expansion of a TB-table artifact gives every instruction   *)
(* the number of times it was really reached in each context, too high by  *)
(* exactly the block executions still under way -- so exact once the vCPUs *)
(* are quiescent.  Interrupts, exceptions and resumed blocks, overlapping  *)
(* blocks and several vCPUs notwithstanding.                               *)
ExpansionExact ==
  settings.tb_table /\ ~Resuming =>
    \A c \in Contexts, a \in Addr \intersect InRange :
      Expanded(c, a) = TimesReached(c, a) + Cardinality(StillToReach(c, a))

(* FORMAT.md section 12 of every TB-table artifact: its expansion is exact.*)
(* Here for the artifact written once the vCPUs are quiescent, under any   *)
(* filter and with any number of vCPUs (tcgcov-internal.h: one beyond the  *)
(* slot table loses edges, and no wrong result comes of it).               *)
FilteredExpansionExact ==
  settings.tb_table /\ Quiescent =>
    \A c \in Contexts, a \in Addr \intersect InRange :
      Expanded(c, a) = TimesReached(c, a)

(* The same of the copy that flush_at= writes, from inside a block.        *)
FlushedExpansionExact ==
  settings.tb_table /\ (\E v \in Vcpus : FlushFires(v)) =>
    \A c \in Contexts, a \in Addr \intersect InRange :
      Expanded(c, a) = TimesReached(c, a)
=============================================================================
