------------------------------ MODULE TbTable ------------------------------
(***************************************************************************)
(* The TB table of an artifact, from the plugin's blocks to the reader's   *)
(* instruction counts: collect_tb_table merges the translations of the     *)
(* same code and names their early exits by table position                 *)
(* (plugin/tcgcov.c), unpack_tb_table checks what it reads and             *)
(* expand_tb_records walks every entry's instructions (tcgcov/format.py).  *)
(*                                                                         *)
(* Each translation was executed in one context; the same code executed in *)
(* two contexts is two translations here, which is how the per-vCPU tables *)
(* of ctx=on present it to collect_tb_table as well.                       *)
(***************************************************************************)
EXTENDS Integers, FiniteSetsExt, SequencesExt

CONSTANTS
  Translations,  (* the CovTb of a run                                     *)
  Ctxs,          (* context IDs                                            *)
  Codes,         (* <<start, instruction sizes>> that may be translated    *)
  MaxCount,      (* bound: executions of one translation                   *)
  Filters        (* sets of addresses that filter= accepts                 *)

Total(sizes)  == SumFunction(sizes)
End(code)     == code[1] + Total(code[2])
Addr          == 0 .. Max({End(code) : code \in Codes})
ExtentOf(code) == code[1] .. End(code) - 1

ASSUME TbTableAssumption ==
  /\ IsFiniteSet(Translations)
  /\ Ctxs \subseteq Nat /\ IsFiniteSet(Ctxs) /\ MaxCount \in Nat
  /\ Codes \subseteq Nat \X (Seq(Nat \ {0}) \ {<<>>})
  /\ IsFiniteSet(Codes) /\ Codes # {}
  /\ \A f \in Filters : f \subseteq Nat

(* Executions and early exits of one translation: every exit is the end of *)
(* one of its executions, at an address of its extent.                     *)
Runs(code) ==
  {r \in [count : 0 .. MaxCount, early : [ExtentOf(code) -> 0 .. MaxCount]] :
     MapThenSumSet(LAMBDA pc : r.early[pc], ExtentOf(code)) <= r.count}

Tbs == UNION {{[ctx |-> c, code |-> code, count |-> r.count,
                early |-> r.early] : c \in Ctxs, r \in Runs(code)} :
              code \in Codes}

VARIABLES
  tbs,      (* the plugin's blocks                                         *)
  filter,   (* metadata "filters"                                          *)
  phase,    (* "collect", "check", "expand", then "done" or "rejected"     *)
  entries,  (* the TB table                                                *)
  exits,    (* the early-exit records                                      *)
  index,    (* expand_tb_records: position of the entry                    *)
  insn,     (* of its instruction, 0 between two entries                   *)
  a, left, early, out

tables == <<tbs, filter, entries, exits>>
loop   == <<index, insn, a, left, early, out>>
vars   == <<tables, phase, loop>>

Init ==
  /\ tbs \in [Translations -> Tbs]
  /\ filter \in Filters
  /\ phase = "collect"
  /\ entries = <<>> /\ exits = {}
  /\ index = 0 /\ insn = 0 /\ a = 0 /\ left = 0 /\ early = {}
  /\ out = [k \in Ctxs \X Addr |-> 0]

-----------------------------------------------------------------------------
(* The plugin: collect_tb_table.                                           *)

(* tbagg_equal: what makes two translations the same entry.                *)
(* Mutant: the context is not compared.                                    *)
SameCode(x, y) == x.code = y.code

SameEntry(x, y) == x.ctx = y.ctx /\ x.code = y.code

(* tbagg_cmp: context, start, length, instructions, then their sizes.      *)
SortKey(e) == <<e.ctx, e.code[1], Total(e.code[2]), Len(e.code[2])>> \o e.code[2]

Before(x, y) ==
  \E i \in DOMAIN SortKey(x) :
    /\ \A j \in 1 .. i - 1 : SortKey(x)[j] = SortKey(y)[j]
    /\ SortKey(x)[i] < SortKey(y)[i]

Merged ==
  {[ctx |-> tbs[t].ctx, code |-> tbs[t].code,
    count |-> MapThenSumSet(LAMBDA u : tbs[u].count,
                            {u \in Translations : SameEntry(tbs[u], tbs[t])})]
     : t \in Translations}

(* A set in the order Less.                                                *)
InOrder(S, Less(_, _)) ==
  CHOOSE s \in [1 .. Cardinality(S) -> S] :
    \A i, j \in DOMAIN s : i < j => Less(s[i], s[j])

Table == InOrder({e \in Merged : e.count > 0}, Before)

(* The exit records: an entry that has no count gets none.                 *)
ExitsOf(i) ==
  LET e    == Table[i]
      mine == {t \in Translations : SameEntry(tbs[t], e)}
      At(pc) == MapThenSumSet(LAMBDA t : tbs[t].early[pc],
                              {t \in mine : pc \in DOMAIN tbs[t].early})
  IN {[index |-> i, ctx |-> tbs[t].ctx, start |-> tbs[t].code[1],
       size |-> Total(tbs[t].code[2]), pc |-> pc, count |-> At(pc)]
        : t \in mine, pc \in {p \in ExtentOf(e.code) : At(p) > 0}}

Collect ==
  /\ phase = "collect"
  /\ entries' = Table
  /\ exits' = UNION {ExitsOf(i) : i \in DOMAIN Table}
  /\ phase' = "check"
  /\ UNCHANGED <<tbs, filter, loop>>

-----------------------------------------------------------------------------
(* The reader.                                                             *)

(* unpack_tb_table: an exit record must name the entry it says it names.   *)
Check ==
  /\ phase = "check"
  /\ phase' = IF \A x \in exits :
                   /\ x.index \in DOMAIN entries
                   /\ x.ctx = entries[x.index].ctx
                   /\ x.start = entries[x.index].code[1]
                   /\ x.size = Total(entries[x.index].code[2])
                THEN "expand" ELSE "rejected"
  /\ UNCHANGED <<tables, loop>>

EarlyOf(i) == {x \in exits : x.index = i}

StartEntry ==
  /\ phase = "expand" /\ insn = 0 /\ index < Len(entries)
  /\ index' = index + 1
  /\ insn' = 1
  /\ a' = entries[index + 1].code[1]
  /\ left' = entries[index + 1].count
  /\ early' = EarlyOf(index + 1)
  /\ UNCHANGED <<tables, phase, out>>

(* The exits at or before an instruction, and those before it that fell    *)
(* inside the previous one: executions that never reached it.              *)
(* Mutant: an exit at an instruction is taken as one after it.             *)
DueBefore == {x \in early : x.pc < a}

Due == {x \in early : x.pc <= a}

ExpandInsn ==
  /\ phase = "expand" /\ insn # 0
  /\ early' = early \ Due
  /\ left' = left - MapThenSumSet(LAMBDA x : x.count, Due)
  /\ LET e == entries[index]
     IN /\ out' = IF left' > 0 /\ a \in filter
                    THEN [out EXCEPT ![<<e.ctx, a>>] = @ + left'] ELSE out
        /\ a' = a + e.code[2][insn]
        /\ insn' = IF insn = Len(e.code[2]) THEN 0 ELSE insn + 1
  /\ UNCHANGED <<tables, phase, index>>

Finish ==
  /\ phase = "expand" /\ insn = 0 /\ index = Len(entries)
  /\ phase' = "done"
  /\ UNCHANGED <<tables, loop>>

Next == Collect \/ Check \/ StartEntry \/ ExpandInsn \/ Finish

Spec == Init /\ [][Next]_vars

-----------------------------------------------------------------------------
(* Properties.                                                             *)

(* Start of the k-th instruction of a code.                                *)
InsnAt(code, k) == code[1] + SumFunctionOnSet(code[2], 1 .. k - 1)
InsnsOf(code) == {InsnAt(code, k) : k \in DOMAIN code[2]}

(* How often translation t executed the instruction at x.                  *)
Executed(t, x) ==
  tbs[t].count
    - SumFunctionOnSet(tbs[t].early, {pc \in DOMAIN tbs[t].early : pc <= x})

(* What the reader makes of the file is, per context and instruction, what *)
(* the translations executed, each for itself: merging, sorting, naming    *)
(* exits by position and walking the sizes lose and confuse nothing, two   *)
(* codes at one start and of one length included (collect_tb_table,        *)
(* unpack_tb_table, expand_tb_records).                                    *)
ExpansionMatches ==
  phase = "done" =>
    \A c \in Ctxs, x \in Addr :
      out[<<c, x>>] =
        IF x \in filter
          THEN MapThenSumSet(LAMBDA t : Executed(t, x),
                 {t \in Translations : /\ tbs[t].ctx = c
                                       /\ x \in InsnsOf(tbs[t].code)})
          ELSE 0

(* The reader never rejects a table the plugin wrote (unpack_tb_table's    *)
(* check against collect_tb_table).                                        *)
TableAccepted == phase # "rejected"
=============================================================================
