---------------------------- MODULE LineProgram ----------------------------
(***************************************************************************)
(* Reading .debug_line (src/tcgcov/dwarfline.py).  The assembler, which is *)
(* external, decides what the next row says and picks one of the ways to   *)
(* encode it; the reader executes the opcodes one at a time.  meant keeps  *)
(* what was decided and rows what was read.                                *)
(*                                                                         *)
(* Code lives in sections.  In a relocatable object ("rel") an address is  *)
(* an offset and only the relocation of its operand names the section; in  *)
(* a linked "image" it is absolute, and code the linker discarded keeps    *)
(* its sequences, at address 0.  A token of the program is one opcode or   *)
(* one operand; files are numbers, directories left out but for the one    *)
(* of the unit, which a unit before DWARF 5 takes from .debug_info.        *)
(***************************************************************************)
EXTENDS Integers, Sequences, SequencesExt

CONSTANTS
  Headers,        \* the line-table headers units may have
  Images,         \* what may be read: [kind, want, bad, units, rows, calls], of kind
                  \* "rel" or "image", the section asked for or NoSec, what may
                  \* be bad of a unit, and bounds on units, rows, inlined calls
  Secs,           \* the code sections
  Discarded,      \* those the linker discarded
  Place,          \* Place[s]: address of section s in a linked image
  Size,           \* Size[s]: bytes of section s
  Lines,          \* the lines rows may have, 0 among them
  Advances,       \* operations a row may be ahead of the row before it
  NoSec, NoFile, NoDir

ASSUME PlaceAssumption ==
  /\ Discarded \subseteq Secs /\ NoSec \notin Secs
  /\ \A s \in Secs : Place[s] \in Nat /\ Size[s] \in Nat
  /\ \A s \in Discarded : Place[s] = 0
  /\ \A s \in Secs \ Discarded :
       /\ \A d \in Discarded : Place[s] >= Size[d]
       /\ \A t \in Secs \ (Discarded \cup {s}) :
            Place[s] + Size[s] <= Place[t] \/ Place[t] + Size[t] <= Place[s]

Operands(h, opcode) ==
  CASE opcode \in {2, 3, 4, 5, 9, 12} -> 1
    [] opcode \in {1, 6, 7, 8, 10, 11} -> 0
    [] OTHER -> h.std_lens[opcode]

\* Where an instruction of the noise ends: it says nothing about rows.
Skipped(h, b) ==
  LET t == h.noise IN
  \/ /\ t[b] \in 1 .. h.opcode_base - 1 /\ t[b] \notin {1, 2, 3, 4, 8, 9}
     /\ Operands(h, t[b]) \in Nat
  \/ t[b] = 0 /\ b + 2 \in DOMAIN t /\ t[b + 2] \notin {1, 2, 3}
AfterSkipped(h, b) ==
  IF h.noise[b] = 0 THEN b + 2 + h.noise[b + 1] ELSE b + 1 + Operands(h, h.noise[b])

ASSUME HeaderAssumption ==
  /\ \A h \in Headers :
       /\ h.version \in Nat /\ h.min_inst \in Nat \ {0} /\ h.max_ops \in Nat \ {0}
       /\ h.line_base \in Int /\ h.line_range \in Nat \ {0}
       /\ h.opcode_base \in 10 .. 255
       /\ h.files \in Seq(ToSet(h.files)) /\ NoFile \notin h.names
       /\ h.noise \in Seq(Nat)
       /\ \E starts \in SUBSET (1 .. Len(h.noise) + 1) :
            /\ {1, Len(h.noise) + 1} \subseteq starts
            /\ \A b \in starts \ {Len(h.noise) + 1} :
                 Skipped(h, b) /\ AfterSkipped(h, b) \in starts
  /\ Lines \subseteq Nat /\ Advances \subseteq Nat
  /\ \A e \in Images : /\ e.kind \in {"rel", "image"}
                       /\ e.want \in {NoSec} \cup (Secs \ Discarded)

VARIABLES elf, left, units, code, pos, reloc, regs, files, rows, asm, top, meant

lineVars == <<elf, left, units, code, pos, reloc, regs, files, rows, asm, top, meant>>

H == Last(units).h
Addr(s, o) == IF elf.kind = "rel" THEN [v |-> o, sec |-> s]
              ELSE [v |-> Place[s] + o, sec |-> NoSec]

----------------------------------------------------------------------------
(* The reader: registers, rows and files.                                  *)

Reset == [section |-> NoSec, address |-> 0, op_index |-> 0, file |-> 1, line |-> 1]

\* Mutant: the place inside an instruction word is left out of an advance.
AdvanceNoWord(r, h, n) ==
  [r EXCEPT !.address = @ + h.min_inst * (n \div h.max_ops),
            !.op_index = (@ + n) % h.max_ops]
Advance(r, h, n) ==
  LET total == r.op_index + n
  IN  [r EXCEPT !.address = @ + h.min_inst * (total \div h.max_ops),
                !.op_index = total % h.max_ops]

Jump(r, address, section) ==
  [r EXCEPT !.address = address, !.section = section, !.op_index = 0]

Special(r, h, opcode) ==
  LET adjusted == opcode - h.opcode_base
  IN  [Advance(r, h, adjusted \div h.line_range) EXCEPT
         !.line = @ + h.line_base + (adjusted % h.line_range)]

\* Mutant: files are counted from one in every version.
EntryFromOne(h, i) == i
Entry(h, i) == IF h.version >= 5 THEN i + 1 ELSE i

Metadata(u) == IF units[u].bad = "root" THEN NoDir ELSE units[u].h.dir
CompDir(u)  == IF units[u].h.version >= 5 THEN units[u].h.dir ELSE Metadata(u)

FileOf(u, table, i) ==
  LET e == Entry(units[u].h, i)
  IN  IF e \in DOMAIN table THEN <<CompDir(u), table[e]>> ELSE NoFile

RowOf(r, end) ==
  [section |-> r.section, address |-> r.address, line |-> r.line,
   file |-> FileOf(Len(units), files, r.file), end_sequence |-> end]

----------------------------------------------------------------------------
(* One opcode.  is_stmt, the column and the discriminator reach no row     *)
(* that is used, so the opcodes that set them only have their operands.    *)

Ready == units # <<>> /\ pos <= Len(code)

Executed(r, emitted, n) ==
  /\ regs' = r
  /\ rows' = rows \o emitted
  /\ pos' = pos + n
  /\ UNCHANGED <<elf, left, units, code, reloc, asm, top, meant>>

SpecialOpcode ==
  /\ Ready /\ code[pos] >= H.opcode_base
  /\ LET r == Special(regs, H, code[pos]) IN Executed(r, <<RowOf(r, FALSE)>>, 1)
  /\ UNCHANGED files

StandardOpcode ==
  /\ Ready /\ code[pos] \in 1 .. H.opcode_base - 1
  /\ LET opcode  == code[pos]
         operand == code[pos + 1]
         r == CASE opcode = 2 -> Advance(regs, H, operand)
                [] opcode = 3 -> [regs EXCEPT !.line = @ + operand]
                [] opcode = 4 -> [regs EXCEPT !.file = operand]
                [] opcode = 8 -> Advance(regs, H, (255 - H.opcode_base) \div H.line_range)
                [] opcode = 9 -> Jump(regs, regs.address + operand, regs.section)
                [] OTHER -> regs
     IN  Executed(r, IF opcode = 1 THEN <<RowOf(r, FALSE)>> ELSE <<>>,
                  1 + Operands(H, opcode))
  /\ UNCHANGED files

\* An extended opcode: 0, its length, itself, its operands.
Extended(sub) == Ready /\ code[pos] = 0 /\ code[pos + 2] = sub
Following == 2 + code[pos + 1]

EndSequence ==
  /\ Extended(1)
  /\ Executed(Reset, <<RowOf(regs, TRUE)>>, Following)
  /\ UNCHANGED files

SetAddress ==
  /\ Extended(2)
  /\ LET at == pos + 3
     IN  Executed(Jump(regs, code[at], IF at \in DOMAIN reloc THEN reloc[at] ELSE regs.section),
                  <<>>, Following)
  /\ UNCHANGED files

DefineFile ==
  /\ Extended(3)
  /\ files' = Append(files, code[pos + 3])
  /\ Executed(regs, <<>>, Following)

OtherExtended ==
  /\ Ready /\ code[pos] = 0 /\ code[pos + 2] \notin {1, 2, 3}
  /\ Executed(regs, <<>>, Following)
  /\ UNCHANGED files

----------------------------------------------------------------------------
(* The assembler.  It knows the registers a program starts with, and       *)
(* counts a sequence in operations, min_inst bytes to each max_ops.        *)

Idle   == pos > Len(code)
Asm(tokens, at) ==
  /\ code' = tokens /\ pos' = 1
  /\ reloc' = IF at > 0 /\ elf.kind = "rel" THEN [i \in {at} |-> asm'.sec] ELSE <<>>
  /\ UNCHANGED <<elf, units, regs, files, rows>>

StartUnit ==
  /\ Idle /\ Len(units) < elf.units /\ ~asm.open
  /\ \E h \in Headers, bad \in elf.bad :
       /\ units' = Append(units, [h |-> h, bad |-> bad])
       /\ files' = h.files
       /\ asm' = [asm EXCEPT !.files = h.files]
  /\ regs' = Reset
  /\ UNCHANGED <<elf, left, code, pos, reloc, rows, top, meant>>

OpenSequence ==
  /\ Idle /\ units # <<>> /\ ~asm.open /\ left.rows > 0
  /\ \E s \in Secs :
       /\ elf.kind = "image" \/ s \notin Discarded
       /\ top[s] + 2 * H.min_inst <= Size[s]
       /\ asm' = [open |-> TRUE, sec |-> s, start |-> top[s], ops |-> 0, line |-> 1,
                  file |-> 1, files |-> asm.files]
       /\ Asm(<<0, 2, 2, Addr(s, top[s]).v>>, 4)
  /\ UNCHANGED <<left, top, meant>>

Offset(ops) == asm.start + H.min_inst * (ops \div H.max_ops)

\* The index of a file of the table, or the first that is not in it.
Index(table, f) ==
  LET i == IF f = NoFile THEN Len(table) + 1 ELSE SelectInSeq(table, LAMBDA x : x = f)
  IN  IF H.version >= 5 THEN i - 1 ELSE i

\* The ways to advance by n operations and by m lines and append a row: the
\* tokens, and the place among them of an operand that is relocated.
Ways(n, m) ==
  LET ops    == asm.ops + n
      whole  == ops % H.max_ops = 0
      opcode(k) == H.opcode_base + (m - H.line_base) + H.line_range * k
      fits(k) == m - H.line_base \in 0 .. H.line_range - 1 /\ opcode(k) <= 255
      most   == (255 - H.opcode_base) \div H.line_range
      way(tokens, at, when) == IF when THEN {[tokens |-> tokens, at |-> at]} ELSE {}
  IN  way(<<2, n, 3, m, 1>>, 0, TRUE)
      \cup way(<<opcode(n)>>, 0, fits(n))
      \cup way(<<8, opcode(n - most)>>, 0, n >= most /\ fits(n - most))
      \cup way(<<9, Offset(ops) - Offset(asm.ops), 3, m, 1>>, 0, whole)
      \cup way(<<0, 2, 2, Addr(asm.sec, Offset(ops)).v, 3, m, 1>>, 4, whole)

AssembleRow ==
  /\ Idle /\ asm.open /\ left.rows > 0
  /\ \E n \in Advances, line \in Lines, f \in H.names \cup {NoFile} :
       LET known == f = NoFile \/ f \in {asm.files[i] : i \in DOMAIN asm.files}
           table == IF known THEN asm.files ELSE Append(asm.files, f)
           index == Index(table, f)
           to    == Addr(asm.sec, Offset(asm.ops + n))
           before == (IF known THEN <<>> ELSE <<0, 2, 3, f>>)
                       \o (IF index = asm.file THEN <<>> ELSE <<4, index>>) \o H.noise
       IN  /\ Offset(asm.ops + n) + H.min_inst <= Size[asm.sec]
           /\ \E w \in Ways(n, line - asm.line) :
                /\ asm' = [asm EXCEPT !.ops = @ + n, !.line = line, !.file = index,
                                      !.files = table]
                /\ Asm(before \o w.tokens, IF w.at = 0 THEN 0 ELSE Len(before) + w.at)
           /\ meant' = Append(meant,
                [section |-> to.sec, address |-> to.v, line |-> line, end_sequence |-> FALSE,
                 file |-> IF f = NoFile THEN NoFile ELSE <<CompDir(Len(units)), f>>])
  /\ left' = [left EXCEPT !.rows = @ - 1]
  /\ UNCHANGED top

\* A sequence ends after its last instruction word.
CloseSequence ==
  /\ Idle /\ asm.open /\ meant # <<>> /\ ~Last(meant).end_sequence
  /\ LET n   == H.max_ops - (asm.ops % H.max_ops)
         end == Offset(asm.ops + n)
     IN  /\ meant' = Append(meant, [Last(meant) EXCEPT
                       !.address = Addr(asm.sec, end).v, !.end_sequence = TRUE])
         /\ top' = IF asm.sec \in Discarded THEN top ELSE [top EXCEPT ![asm.sec] = end]
         /\ asm' = [asm EXCEPT !.open = FALSE]
         /\ Asm(<<2, n, 0, 1, 1>>, 0)
  /\ UNCHANGED left

----------------------------------------------------------------------------
LineInit ==
  /\ elf \in Images
  /\ left = [rows |-> elf.rows, calls |-> elf.calls]
  /\ units = <<>> /\ code = <<>> /\ pos = 1 /\ reloc = <<>> /\ regs = Reset
  /\ files = <<>> /\ rows = <<>> /\ meant = <<>>
  /\ asm = [open |-> FALSE, files |-> <<>>]
  /\ top = [s \in Secs |-> 0]

Assembles == StartUnit \/ OpenSequence \/ AssembleRow \/ CloseSequence
Decodes == SpecialOpcode \/ StandardOpcode \/ EndSequence \/ SetAddress
             \/ DefineFile \/ OtherExtended

\* Whatever the encoding, the reader gets the rows that were meant: their
\* order, addresses, sections, lines and files, across sequences and units.
RowsExact == Idle => rows = meant
=============================================================================
