------------------------- MODULE DwarfLines_proofs -------------------------
(***************************************************************************)
(* Proofs about LineProgram and DwarfLines, for every header, layout of    *)
(* the sections, encoding of the rows and form of the inlined calls.       *)
(*                                                                         *)
(* LineInv follows the reader through the line program: at every byte its  *)
(* registers are what the assembler meant there, and what is left of the   *)
(* program leads to the row due.  CallInv says the same of the inlined     *)
(* calls of the units walked so far, and PlaceInv where the rows fall: the *)
(* offsets of a section only grow, so that each row reaches up to the      *)
(* next.  DoneInv keeps the inventory what it was computed from.  The      *)
(* denominator and the functions then follow for every address by the      *)
(* tiling of each sequence of rows.                                        *)
(***************************************************************************)
EXTENDS DwarfLines, DataTheorems

-----------------------------------------------------------------------------
(* Arithmetic of operations and instruction words.                         *)

LEMMA DivisionIs ==
  ASSUME NEW b \in Nat \ {0}, NEW q \in Nat, NEW r \in 0 .. b - 1
  PROVE  (b * q + r) \div b = q /\ (b * q + r) % b = r
OBVIOUS

LEMMA Division ==
  ASSUME NEW a \in Nat, NEW b \in Nat \ {0}
  PROVE  a \div b \in Nat /\ a % b \in 0 .. b - 1 /\ a = b * (a \div b) + (a % b)
<1> DEFINE S == {q \in Nat : a < b * (q + 1)}
<1>1. a \in S
  <2>1. b * (a + 1) >= a + 1
    OBVIOUS
  <2> QED BY <2>1
<1>2. PICK q \in S : \A p \in S : q <= p
  <2>1. S \in SUBSET Nat /\ S # {}
    BY <1>1
  <2> HIDE DEF S
  <2> QED BY <2>1, LeastNat
<1>3. q \in Nat /\ a < b * q + b
  BY <1>2
<1>4. b * q <= a
  <2>1. CASE q = 0
    BY <2>1
  <2>2. CASE q # 0
    <3>1. q - 1 \in Nat /\ q - 1 \notin S
      BY <1>2, <1>3, <2>2
    <3> QED BY <1>3, <3>1
  <2> QED BY <2>1, <2>2
<1>5. PICK r : r = a - b * q
  OBVIOUS
<1>6. r \in 0 .. b - 1 /\ a = b * q + r
  <2>1. b * q \in Nat
    BY <1>3
  <2>2. r \in 0 .. b - 1 /\ a = b * q + r
    BY ONLY <1>3, <1>4, <1>5, <2>1
  <2> QED BY <2>2
<1>7. (b * q + r) \div b = q /\ (b * q + r) % b = r
  BY <1>3, <1>6, DivisionIs
<1>8. a \div b = q /\ a % b = r
  BY <1>6, <1>7
<1> QED BY <1>3, <1>6, <1>8, Zenon

LEMMA WordsAdd ==
  ASSUME NEW m \in Nat, NEW n \in Nat, NEW b \in Nat \ {0}
  PROVE  /\ (m + n) \div b = (m \div b) + (((m % b) + n) \div b)
         /\ (m + n) % b = ((m % b) + n) % b
<1>1. PICK q, r : q = m \div b /\ r = m % b
  OBVIOUS
<1>2. q \in Nat /\ r \in Nat /\ m = b * q + r
  BY <1>1, Division
<1>3. PICK k, s : k = (r + n) \div b /\ s = (r + n) % b
  OBVIOUS
<1>4. k \in Nat /\ s \in 0 .. b - 1 /\ r + n = b * k + s
  <2>1. PICK t : t = r + n
    OBVIOUS
  <2>2. t \in Nat
    BY <1>2, <2>1
  <2>3. t \div b \in Nat /\ t % b \in 0 .. b - 1 /\ t = b * (t \div b) + (t % b)
    BY <2>2, Division
  <2> QED BY <1>3, <2>1, <2>3, Zenon
<1>5. m + n = b * (q + k) + s
  BY <1>2, <1>4
<1>6. (m + n) \div b = q + k /\ (m + n) % b = s
  BY <1>2, <1>4, <1>5, DivisionIs
<1> QED BY <1>1, <1>3, <1>6

-----------------------------------------------------------------------------
(* The reader's registers, field by field.                                 *)

Reg(section, address, op_index, file, line) ==
  [section |-> section, address |-> address, op_index |-> op_index,
   file |-> file, line |-> line]

\* The address that is ops operations from a.
At(h, a, ops) == a + h.min_inst * (ops \div h.max_ops)

HeaderFacts(h) ==
  /\ h.version \in Nat /\ h.min_inst \in Nat /\ h.max_ops \in Nat \ {0}
  /\ h.line_base \in Int /\ h.line_range \in Nat \ {0}
  /\ h.opcode_base \in 10 .. 255
  /\ h.files \in Seq(ToSet(h.files)) /\ NoFile \notin h.names
  /\ h.noise \in Seq(Nat)

LEMMA HeadersFine ==
  ASSUME NEW h \in Headers
  PROVE  HeaderFacts(h)
BY HeaderAssumption DEF HeaderFacts

LEMMA AtTyped ==
  ASSUME NEW h, HeaderFacts(h), NEW a \in Nat, NEW ops \in Nat
  PROVE  At(h, a, ops) \in Nat /\ ops % h.max_ops \in 0 .. h.max_ops - 1
<1>1. ops \div h.max_ops \in Nat /\ ops % h.max_ops \in 0 .. h.max_ops - 1
  BY Division DEF HeaderFacts
<1>2. h.min_inst * (ops \div h.max_ops) \in Nat
  BY <1>1 DEF HeaderFacts
<1> QED BY <1>1, <1>2 DEF At

(* Advances add up.                                                        *)
AdvanceAdds(h, a, ops, n, s, f, l) ==
  Advance(Reg(s, At(h, a, ops), ops % h.max_ops, f, l), h, n)
    = Reg(s, At(h, a, ops + n), (ops + n) % h.max_ops, f, l)

LEMMA Advanced ==
  ASSUME NEW h, HeaderFacts(h), NEW a \in Nat, NEW ops \in Nat, NEW n \in Nat,
         NEW s, NEW f, NEW l
  PROVE  AdvanceAdds(h, a, ops, n, s, f, l)
<1>1. PICK b, m : b = h.max_ops /\ m = h.min_inst
  OBVIOUS
<1>2. b \in Nat \ {0} /\ m \in Nat
  BY <1>1 DEF HeaderFacts
<1>3. PICK q, o : q = ops \div b /\ o = ops % b
  OBVIOUS
<1>4. PICK k : k = (o + n) \div b
  OBVIOUS
<1>5. q \in Nat /\ o \in Nat /\ k \in Nat
  <2>1. q \in Nat /\ o \in Nat
    BY <1>2, <1>3, Division
  <2> QED BY <1>2, <1>4, <2>1, Division
<1>6. (ops + n) \div b = q + k /\ (ops + n) % b = (o + n) % b
  BY <1>2, <1>3, <1>4, WordsAdd
<1>7. a + m * (q + k) = (a + m * q) + m * k
  BY <1>2, <1>5
<1>8. PICK e : e = (o + n) % b
  OBVIOUS
<1>9. Advance(Reg(s, a + m * q, o, f, l), h, n) = Reg(s, (a + m * q) + m * k, e, f, l)
  <2>1. Advance(Reg(s, a + m * q, o, f, l), h, n)
          = [Reg(s, a + m * q, o, f, l) EXCEPT !.address = @ + m * k, !.op_index = e]
    <3>1. Reg(s, a + m * q, o, f, l).op_index = o
      BY DEF Reg
    <3> QED BY <1>1, <1>4, <1>8, <3>1, Zenon DEF Advance
  <2> QED BY <2>1 DEF Reg
<1> QED BY <1>1, <1>3, <1>6, <1>7, <1>8, <1>9, Zenon DEF At, AdvanceAdds

(* The special opcode that advances k operations and m lines says so.      *)
SpecialFor(h, m, k) == h.opcode_base + (m - h.line_base) + h.line_range * k
Most(h) == (255 - h.opcode_base) \div h.line_range

LEMMA MostTyped ==
  ASSUME NEW h, HeaderFacts(h)
  PROVE  Most(h) \in Nat
<1>1. PICK b \in 10 .. 255, r \in Nat \ {0} : b = h.opcode_base /\ r = h.line_range
  BY DEF HeaderFacts
<1>2. 255 - b \in Nat
  BY <1>1
<1>3. (255 - b) \div r \in Nat
  BY <1>2, Division
<1> QED BY <1>1, <1>3 DEF Most

LEMMA JumpReg ==
  ASSUME NEW s, NEW t, NEW a, NEW b, NEW o, NEW f, NEW l
  PROVE  Jump(Reg(s, a, o, f, l), b, t) = Reg(t, b, 0, f, l)
<1>1. PICK r, z : r = Reg(s, a, o, f, l) /\ z = 0
  OBVIOUS
<1> DEFINE e == [r EXCEPT !.address = b, !.section = t, !.op_index = z]
           g == Reg(t, b, z, f, l)
<1>2. /\ DOMAIN r = {"section", "address", "op_index", "file", "line"}
      /\ r.file = f /\ r.line = l
  BY <1>1 DEF Reg
<1>3. /\ DOMAIN g = {"section", "address", "op_index", "file", "line"}
      /\ g.file = f /\ g.line = l /\ g.section = t /\ g.address = b /\ g.op_index = z
  BY DEF Reg
<1>4. e = [x \in DOMAIN r |-> e[x]] /\ DOMAIN e = DOMAIN r
  OBVIOUS
<1>5. e.file = f /\ e.line = l /\ e.section = t /\ e.address = b /\ e.op_index = z
  BY <1>2
<1>6. g = [x \in DOMAIN g |-> g[x]]
  BY DEF Reg
<1>7. e = g
  <2> HIDE DEF e, g
  <2>1. \A x \in DOMAIN r : e[x] = g[x]
    BY <1>2, <1>3, <1>5
  <2> QED BY <1>2, <1>3, <1>4, <1>6, <2>1
<1> QED BY <1>1, <1>7, Zenon DEF Jump

SpecialAdds(h, a, ops, k, s, f, l, m) ==
  /\ SpecialFor(h, m, k) \in Nat /\ SpecialFor(h, m, k) >= h.opcode_base
  /\ Special(Reg(s, At(h, a, ops), ops % h.max_ops, f, l), h, SpecialFor(h, m, k))
       = Reg(s, At(h, a, ops + k), (ops + k) % h.max_ops, f, l + m)

LEMMA SpecialSays ==
  ASSUME NEW h, HeaderFacts(h), NEW a \in Nat, NEW ops \in Nat, NEW k \in Nat,
         NEW s, NEW f, NEW l \in Nat, NEW m \in Int,
         m - h.line_base \in 0 .. h.line_range - 1
  PROVE  SpecialAdds(h, a, ops, k, s, f, l, m)
<1>1. PICK b, r, ob, d : b = h.line_base /\ r = h.line_range /\ ob = h.opcode_base /\ d = m - b
  OBVIOUS
<1>2. b \in Int /\ r \in Nat \ {0} /\ ob \in Nat /\ d \in 0 .. r - 1 /\ m = b + d
  <2>1. b \in Int /\ r \in Nat \ {0} /\ ob \in Nat
    <3>1. /\ h.line_base \in Int /\ h.line_range \in Nat \ {0} /\ h.opcode_base \in 10 .. 255
      BY DEF HeaderFacts
    <3> QED BY <1>1, <3>1
  <2>2. d \in 0 .. r - 1 /\ d = m - b
    BY <1>1, Zenon
  <2> QED BY <2>1, <2>2
<1>3. r * k \in Nat
  BY <1>2
<1>4. PICK opcode : opcode = ob + d + r * k
  OBVIOUS
<1>5. opcode \in Nat /\ opcode >= ob /\ opcode - ob = r * k + d
  BY <1>2, <1>3, <1>4
<1>6. (r * k + d) \div r = k /\ (r * k + d) % r = d
  BY <1>2, DivisionIs
<1>7. (opcode - ob) \div r = k /\ (opcode - ob) % r = d
  BY <1>5, <1>6
<1>8. PICK g, e : g = At(h, a, ops + k) /\ e = (ops + k) % h.max_ops
  OBVIOUS
<1>9. Special(Reg(s, At(h, a, ops), ops % h.max_ops, f, l), h, opcode)
        = [Reg(s, g, e, f, l) EXCEPT !.line = @ + b + d]
  <2>1. Advance(Reg(s, At(h, a, ops), ops % h.max_ops, f, l), h, k) = Reg(s, g, e, f, l)
    <3>1. AdvanceAdds(h, a, ops, k, s, f, l)
      BY Advanced
    <3> QED BY <1>8, <3>1, Zenon DEF AdvanceAdds
  <2> QED BY <1>1, <1>7, <2>1, Zenon DEF Special
<1>10. [Reg(s, g, e, f, l) EXCEPT !.line = @ + b + d] = Reg(s, g, e, f, l + m)
  <2>1. l + b + d = l + m
    BY <1>2
  <2>2. [Reg(s, g, e, f, l) EXCEPT !.line = @ + b + d] = Reg(s, g, e, f, l + b + d)
    BY DEF Reg
  <2> QED BY <2>1, <2>2
<1> QED BY <1>1, <1>4, <1>5, <1>8, <1>9, <1>10, Zenon DEF SpecialFor, SpecialAdds

-----------------------------------------------------------------------------
(* The invariant.  At any moment the reader is between programs, or what   *)
(* is left of the program it is in says what the assembler meant by it.    *)

SplitsNoise(h, starts) ==
  /\ {1, Len(h.noise) + 1} \subseteq starts
  /\ \A b \in starts \ {Len(h.noise) + 1} :
       Skipped(h, b) /\ AfterSkipped(h, b) \in starts
Starts(h) == CHOOSE starts \in SUBSET (1 .. Len(h.noise) + 1) : SplitsNoise(h, starts)

\* The seven ways to end a program whose reader is at p of c with registers r.
ByCopy(c, h, r, p, due) == Len(c) = p /\ c[p] = 1 /\ r = due
ByLine(c, h, r, p, due) ==
  /\ Len(c) = p + 2 /\ c[p] = 3 /\ c[p + 2] = 1
  /\ [r EXCEPT !.line = @ + c[p + 1]] = due
ByAdvance(c, h, r, p, due) ==
  /\ Len(c) = p + 4 /\ c[p] = 2 /\ c[p + 2] = 3 /\ c[p + 4] = 1
  /\ [Advance(r, h, c[p + 1]) EXCEPT !.line = @ + c[p + 3]] = due
BySpecial(c, h, r, p, due) ==
  Len(c) = p /\ c[p] \in Nat /\ c[p] >= h.opcode_base /\ Special(r, h, c[p]) = due
ByConstant(c, h, r, p, due) ==
  /\ Len(c) = p + 1 /\ c[p] = 8 /\ c[p + 1] \in Nat /\ c[p + 1] >= h.opcode_base
  /\ Special(Advance(r, h, (255 - h.opcode_base) \div h.line_range), h, c[p + 1]) = due
ByFixed(c, h, r, p, due) ==
  /\ Len(c) = p + 4 /\ c[p] = 9 /\ c[p + 2] = 3 /\ c[p + 4] = 1
  /\ [Jump(r, r.address + c[p + 1], r.section) EXCEPT !.line = @ + c[p + 3]] = due
ByAddress(c, rl, r, p, due) ==
  /\ Len(c) = p + 6 /\ c[p] = 0 /\ c[p + 1] = 2 /\ c[p + 2] = 2
  /\ c[p + 4] = 3 /\ c[p + 6] = 1
  /\ [Jump(r, c[p + 3], IF p + 3 \in DOMAIN rl THEN rl[p + 3] ELSE r.section)
        EXCEPT !.line = @ + c[p + 5]] = due
WayLeft(c, rl, h, r, p, due) ==
  \/ ByCopy(c, h, r, p, due)     \/ ByLine(c, h, r, p, due)
  \/ ByAdvance(c, h, r, p, due)  \/ BySpecial(c, h, r, p, due)
  \/ ByConstant(c, h, r, p, due) \/ ByFixed(c, h, r, p, due)
  \/ ByAddress(c, rl, r, p, due)

FromNoise(c, rl, h, r, p, due) ==
  /\ \A i \in DOMAIN h.noise : c[(p - 1) + i] = h.noise[i]
  /\ WayLeft(c, rl, h, r, p + Len(h.noise), due)

FromFile(c, rl, h, r, p, due) ==
  \/ c[p] = 4 /\ FromNoise(c, rl, h, [r EXCEPT !.file = c[p + 1]], p + 2, due)
  \/ FromNoise(c, rl, h, r, p, due)

Units     == [h : Headers, bad : UNION {e.bad : e \in Images}]
Names     == UNION {ToSet(h.files) \cup h.names : h \in Headers}
FileNames == {NoFile} \cup (({NoDir} \cup {h.dir : h \in Headers}) \X Names)
Rows      == [section : Secs \cup {NoSec}, address : Nat, line : Nat,
              file : FileNames, end_sequence : BOOLEAN]
Sequence  == [open : BOOLEAN, sec : Secs, start : Nat, ops : Nat, line : Nat,
              file : Nat, files : Seq(Names)]

Home   == IF elf.kind = "rel" THEN asm.sec ELSE NoSec
Origin == IF elf.kind = "rel" THEN asm.start ELSE Place[asm.sec] + asm.start
Due    == Reg(Home, At(H, Origin, asm.ops), asm.ops % H.max_ops, asm.file, asm.line)
RowWith(r, table, end) ==
  [section |-> r.section, address |-> r.address, line |-> r.line,
   file |-> FileOf(Len(units), table, r.file), end_sequence |-> end]
Ended  == meant = <<>> \/ Last(meant).end_sequence

LineType ==
  /\ elf \in Images /\ units \in Seq(Units) /\ top \in [Secs -> Nat]
  /\ pos \in Nat /\ Len(code) \in Nat
  /\ meant \in Seq(Rows) /\ rows \in Seq(Rows)
  /\ asm \in Sequence \cup [open : {FALSE}, files : Seq(Names)]
  /\ asm.open => units # <<>>

Resting == Idle /\ ~asm.open /\ regs = Reset /\ rows = meant /\ Ended /\ files = asm.files

Opening ==
  /\ asm.open /\ Len(code) = 4 /\ pos = 1 /\ code[1] = 0 /\ code[2] = 2 /\ code[3] = 2
  /\ Jump(regs, code[4], IF 4 \in DOMAIN reloc THEN reloc[4] ELSE regs.section) = Due
  /\ rows = meant /\ Ended /\ files = asm.files

Waiting ==
  /\ Idle /\ asm.open /\ regs = Due /\ rows = meant /\ files = asm.files
  /\ Ended \/ Last(meant) = RowWith(Due, asm.files, FALSE)

Defining ==
  /\ pos = 1 /\ Len(code) >= 5 /\ code[1] = 0 /\ code[2] = 2 /\ code[3] = 3
  /\ Append(files, code[4]) = asm.files
  /\ FromFile(code, reloc, H, regs, 5, Due)
Naming ==
  /\ files = asm.files /\ code[pos] = 4
  /\ FromNoise(code, reloc, H, [regs EXCEPT !.file = code[pos + 1]], pos + 2, Due)
Skipping ==
  /\ files = asm.files
  /\ \E k \in Nat, b \in Starts(H) : pos = k + b /\ FromNoise(code, reloc, H, regs, k + 1, Due)
Saying == files = asm.files /\ WayLeft(code, reloc, H, regs, pos, Due)
Adding ==
  /\ asm.open /\ pos <= Len(code)
  /\ meant = Append(rows, RowWith(Due, asm.files, FALSE))
  /\ Defining \/ Naming \/ Skipping \/ Saying

Closing ==
  /\ ~asm.open /\ files = asm.files /\ Len(code) = 5 /\ code[3] = 0 /\ code[4] = 1 /\ code[5] = 1
  /\ units # <<>>
  /\ \/ /\ pos = 1 /\ code[1] = 2
        /\ meant = Append(rows, RowWith(Advance(regs, H, code[2]), files, TRUE))
     \/ pos = 3 /\ meant = Append(rows, RowWith(regs, files, TRUE))

(* The reader rests, is inside one of the steps of an operation, or the    *)
(* sequence is being opened or closed; each says what is left to read.     *)
LineInv == LineType /\ (Resting \/ Opening \/ Waiting \/ Adding \/ Closing)

-----------------------------------------------------------------------------
(* What the reader does with each opcode.                                  *)

Reads(r, n) == regs' = r /\ rows' = rows /\ files' = files /\ pos' = pos + n

LEMMA Decoding ==
  ASSUME Decodes
  PROVE  /\ units # <<>> /\ pos <= Len(code)
         /\ elf' = elf /\ left' = left /\ units' = units /\ code' = code /\ reloc' = reloc
         /\ asm' = asm /\ top' = top /\ meant' = meant
BY DEF Decodes, SpecialOpcode, StandardOpcode, EndSequence, SetAddress, DefineFile,
       OtherExtended, Extended, Ready, Executed

LEMMA OpcodeKinds ==
  ASSUME NEW h, HeaderFacts(h), NEW x
  PROVE  /\ x \in 1 .. 9 => ~(x >= h.opcode_base) /\ x # 0 /\ x \in 1 .. h.opcode_base - 1
         /\ x \in Nat /\ x >= h.opcode_base => x \notin 1 .. h.opcode_base - 1 /\ x # 0
         /\ x = 0 => ~(x >= h.opcode_base) /\ x \notin 1 .. h.opcode_base - 1
         /\ x \in 1 .. h.opcode_base - 1 => ~(x >= h.opcode_base) /\ x # 0
<1>1. PICK n \in 10 .. 255 : n = h.opcode_base
  BY DEF HeaderFacts
<1>2. /\ x \in 1 .. 9 => ~(x >= n) /\ x # 0 /\ x \in 1 .. n - 1
      /\ x \in Nat /\ x >= n => x \notin 1 .. n - 1 /\ x # 0
      /\ x = 0 => ~(x >= n) /\ x \notin 1 .. n - 1
      /\ x \in 1 .. n - 1 => ~(x >= n) /\ x # 0
  BY ONLY <1>1
<1> QED BY <1>1, <1>2

LEMMA Appended ==
  ASSUME NEW S, NEW s \in Seq(S)
  PROVE  s \o <<>> = s /\ \A x : s \o <<x>> = Append(s, x)
OBVIOUS

LEMMA ReadsStandard ==
  ASSUME Decodes, HeaderFacts(H), rows \in Seq(Rows), code[pos] \in 1 .. 9
  PROVE  /\ code[pos] = 1 => /\ regs' = regs /\ rows' = Append(rows, RowWith(regs, files, FALSE))
                             /\ files' = files /\ pos' = pos + 1
         /\ code[pos] = 2 => Reads(Advance(regs, H, code[pos + 1]), 2)
         /\ code[pos] = 3 => Reads([regs EXCEPT !.line = @ + code[pos + 1]], 2)
         /\ code[pos] = 4 => Reads([regs EXCEPT !.file = code[pos + 1]], 2)
         /\ code[pos] = 8 =>
              Reads(Advance(regs, H, (255 - H.opcode_base) \div H.line_range), 1)
         /\ code[pos] = 9 =>
              Reads(Jump(regs, regs.address + code[pos + 1], regs.section), 2)
<1>1. StandardOpcode
  <2>1. ~(code[pos] >= H.opcode_base) /\ code[pos] # 0
    BY OpcodeKinds
  <2> QED BY <2>1 DEF Decodes, SpecialOpcode, EndSequence, SetAddress, DefineFile,
                      OtherExtended, Extended
<1>2. rows \o <<>> = rows
  BY Appended
<1>3. files' = files
  BY <1>1 DEF StandardOpcode
<1>4. \A x : rows \o <<x>> = Append(rows, x)
  BY Appended
<1>5. CASE code[pos] = 1
  <2>1. Executed(regs, <<RowOf(regs, FALSE)>>, 1 + Operands(H, 1))
    BY <1>1, <1>5 DEF StandardOpcode
  <2>2. Operands(H, 1) = 0
    BY DEF Operands
  <2>3. regs' = regs /\ rows' = rows \o <<RowOf(regs, FALSE)>> /\ pos' = pos + 1
    BY <2>1, <2>2 DEF Executed
  <2>4. RowOf(regs, FALSE) = RowWith(regs, files, FALSE)
    BY DEF RowOf, RowWith
  <2>5. rows' = Append(rows, RowWith(regs, files, FALSE))
    <3>1. rows \o <<RowOf(regs, FALSE)>> = Append(rows, RowOf(regs, FALSE))
      BY <1>4, Zenon
    <3> QED BY <2>3, <2>4, <3>1, Zenon
  <2>6. code[pos] \notin {2, 3, 4, 8, 9}
    BY <1>5
  <2> QED BY <1>3, <1>5, <2>3, <2>5, <2>6, Zenon
<1>6. CASE code[pos] = 2
  <2>1. Executed(Advance(regs, H, code[pos + 1]), <<>>, 1 + Operands(H, 2))
    BY <1>1, <1>6 DEF StandardOpcode
  <2>2. Operands(H, 2) = 1
    BY DEF Operands
  <2> QED BY <1>2, <1>3, <1>6, <2>1, <2>2 DEF Executed, Reads
<1>7. CASE code[pos] = 3
  <2>1. Executed([regs EXCEPT !.line = @ + code[pos + 1]], <<>>, 1 + Operands(H, 3))
    BY <1>1, <1>7 DEF StandardOpcode
  <2>2. Operands(H, 3) = 1
    BY DEF Operands
  <2> QED BY <1>2, <1>3, <1>7, <2>1, <2>2 DEF Executed, Reads
<1>8. CASE code[pos] = 4
  <2>1. Executed([regs EXCEPT !.file = code[pos + 1]], <<>>, 1 + Operands(H, 4))
    BY <1>1, <1>8 DEF StandardOpcode
  <2>2. Operands(H, 4) = 1
    BY DEF Operands
  <2> QED BY <1>2, <1>3, <1>8, <2>1, <2>2 DEF Executed, Reads
<1>9. CASE code[pos] = 8
  <2>1. Executed(Advance(regs, H, (255 - H.opcode_base) \div H.line_range), <<>>,
                 1 + Operands(H, 8))
    BY <1>1, <1>9 DEF StandardOpcode
  <2>2. Operands(H, 8) = 0
    BY DEF Operands
  <2> QED BY <1>2, <1>3, <1>9, <2>1, <2>2 DEF Executed, Reads
<1>10. CASE code[pos] = 9
  <2>1. Executed(Jump(regs, regs.address + code[pos + 1], regs.section), <<>>,
                 1 + Operands(H, 9))
    BY <1>1, <1>10 DEF StandardOpcode
  <2>2. Operands(H, 9) = 1
    BY DEF Operands
  <2> QED BY <1>2, <1>3, <1>10, <2>1, <2>2 DEF Executed, Reads
<1> QED BY <1>5, <1>6, <1>7, <1>8, <1>9, <1>10

LEMMA ReadsSpecial ==
  ASSUME Decodes, HeaderFacts(H), rows \in Seq(Rows),
         code[pos] \in Nat, code[pos] >= H.opcode_base
  PROVE  /\ regs' = Special(regs, H, code[pos])
         /\ rows' = Append(rows, RowWith(regs', files, FALSE))
         /\ files' = files /\ pos' = pos + 1
<1>1. SpecialOpcode
  <2>1. code[pos] \notin 1 .. H.opcode_base - 1 /\ code[pos] # 0
    BY OpcodeKinds
  <2> QED BY <2>1 DEF Decodes, StandardOpcode, EndSequence, SetAddress, DefineFile,
                      OtherExtended, Extended
<1>2. \A x : rows \o <<x>> = Append(rows, x)
  BY Appended
<1>3. files' = files /\ Executed(Special(regs, H, code[pos]),
                                 <<RowOf(Special(regs, H, code[pos]), FALSE)>>, 1)
  BY <1>1 DEF SpecialOpcode
<1>4. \A r : RowOf(r, FALSE) = RowWith(r, files, FALSE)
  BY DEF RowOf, RowWith
<1> QED BY <1>2, <1>3, <1>4 DEF Executed

LEMMA ReadsExtended ==
  ASSUME Decodes, HeaderFacts(H), rows \in Seq(Rows), code[pos] = 0
  PROVE  /\ code[pos + 2] = 1 => /\ regs' = Reset /\ files' = files /\ pos' = pos + Following
                                 /\ rows' = Append(rows, RowWith(regs, files, TRUE))
         /\ code[pos + 2] = 2 =>
              Reads(Jump(regs, code[pos + 3],
                         IF pos + 3 \in DOMAIN reloc THEN reloc[pos + 3] ELSE regs.section),
                    Following)
         /\ code[pos + 2] = 3 => /\ regs' = regs /\ rows' = rows /\ pos' = pos + Following
                                 /\ files' = Append(files, code[pos + 3])
         /\ code[pos + 2] \notin {1, 2, 3} => Reads(regs, Following)
<1>1. ~SpecialOpcode /\ ~StandardOpcode
  <2>1. ~(code[pos] >= H.opcode_base) /\ code[pos] \notin 1 .. H.opcode_base - 1
    BY OpcodeKinds
  <2> QED BY <2>1 DEF SpecialOpcode, StandardOpcode
<1>2. rows \o <<>> = rows /\ \A x : rows \o <<x>> = Append(rows, x)
  BY Appended
<1>3. CASE code[pos + 2] = 1
  <2>1. EndSequence
    BY <1>1, <1>3 DEF Decodes, SetAddress, DefineFile, OtherExtended, Extended
  <2>2. RowOf(regs, TRUE) = RowWith(regs, files, TRUE)
    BY DEF RowOf, RowWith
  <2>3. /\ regs' = Reset /\ files' = files /\ pos' = pos + Following
        /\ rows' = rows \o <<RowOf(regs, TRUE)>>
    BY <2>1 DEF EndSequence, Executed
  <2>4. rows' = Append(rows, RowWith(regs, files, TRUE))
    <3>1. rows \o <<RowOf(regs, TRUE)>> = Append(rows, RowOf(regs, TRUE))
      BY <1>2, Zenon
    <3> QED BY <2>2, <2>3, <3>1, Zenon
  <2>5. code[pos + 2] # 2 /\ code[pos + 2] # 3 /\ code[pos + 2] \in {1, 2, 3}
    BY <1>3
  <2> QED BY <1>3, <2>3, <2>4, <2>5, Zenon
<1>4. CASE code[pos + 2] = 2
  <2>1. SetAddress
    BY <1>1, <1>4 DEF Decodes, EndSequence, DefineFile, OtherExtended, Extended
  <2> QED BY <1>2, <1>4, <2>1 DEF SetAddress, Executed, Reads
<1>5. CASE code[pos + 2] = 3
  <2>1. DefineFile
    BY <1>1, <1>5 DEF Decodes, EndSequence, SetAddress, OtherExtended, Extended
  <2> QED BY <1>2, <1>5, <2>1 DEF DefineFile, Executed
<1>6. CASE code[pos + 2] \notin {1, 2, 3}
  <2>1. OtherExtended
    BY <1>1, <1>6 DEF Decodes, EndSequence, SetAddress, DefineFile, Extended
  <2> QED BY <1>2, <1>6, <2>1 DEF OtherExtended, Executed, Reads
<1> QED BY <1>3, <1>4, <1>5, <1>6

LEMMA ReadsSkipped ==
  ASSUME Decodes, HeaderFacts(H), rows \in Seq(Rows),
         code[pos] \in 1 .. H.opcode_base - 1, code[pos] \notin {1, 2, 3, 4, 8, 9}
  PROVE  Reads(regs, 1 + Operands(H, code[pos]))
<1>1. StandardOpcode
  <2>1. ~(code[pos] >= H.opcode_base) /\ code[pos] # 0
    BY OpcodeKinds
  <2> QED BY <2>1 DEF Decodes, SpecialOpcode, EndSequence, SetAddress, DefineFile,
                      OtherExtended, Extended
<1>2. rows \o <<>> = rows
  BY Appended
<1>3. Executed(regs, <<>>, 1 + Operands(H, code[pos])) /\ files' = files
  BY <1>1 DEF StandardOpcode
<1> QED BY <1>2, <1>3 DEF Executed, Reads

-----------------------------------------------------------------------------
(* An opcode of a program leaves less of it to say.                        *)

(* Every way of saying a row either says it or has said part of it.        *)
LEMMA WayDecodes ==
  ASSUME Decodes, HeaderFacts(H), rows \in Seq(Rows), pos \in Nat,
         WayLeft(code, reloc, H, regs, pos, Due)
  PROVE  /\ files' = files /\ pos' \in Nat
         /\ \/ /\ regs' = Due /\ pos' > Len(code)
               /\ rows' = Append(rows, RowWith(Due, files, FALSE))
            \/ /\ rows' = rows /\ pos' <= Len(code)
               /\ WayLeft(code, reloc, H, regs', pos', Due)
<1>1. CASE ByCopy(code, H, regs, pos, Due)
  <2>0. Len(code) = pos /\ code[pos] = 1 /\ regs = Due
    BY <1>1, Zenon DEF ByCopy
  <2>1. code[pos] \in 1 .. 9
    BY <2>0
  <2>2. /\ regs' = regs /\ rows' = Append(rows, RowWith(regs, files, FALSE))
        /\ files' = files /\ pos' = pos + 1
    BY <2>0, <2>1, ReadsStandard
  <2>3. pos' \in Nat /\ pos' > Len(code)
    BY <2>0, <2>2
  <2> QED BY <2>0, <2>2, <2>3, Zenon
<1>2. CASE ByLine(code, H, regs, pos, Due)
  <2>0. /\ Len(code) = pos + 2 /\ code[pos] = 3 /\ code[pos + 2] = 1
        /\ [regs EXCEPT !.line = @ + code[pos + 1]] = Due
    BY <1>2, Zenon DEF ByLine
  <2>1. code[pos] \in 1 .. 9
    BY <2>0
  <2>2. Reads([regs EXCEPT !.line = @ + code[pos + 1]], 2)
    BY <2>0, <2>1, ReadsStandard
  <2>3. regs' = Due /\ rows' = rows /\ files' = files /\ pos' = pos + 2
    BY <2>0, <2>2 DEF Reads
  <2>4. pos' \in Nat /\ pos' <= Len(code) /\ Len(code) = pos' /\ code[pos'] = 1
    BY <2>0, <2>3
  <2> QED BY <2>3, <2>4, Zenon DEF WayLeft, ByCopy
<1>3. CASE ByAdvance(code, H, regs, pos, Due)
  <2>0. /\ Len(code) = pos + 4 /\ code[pos] = 2 /\ code[pos + 2] = 3 /\ code[pos + 4] = 1
        /\ [Advance(regs, H, code[pos + 1]) EXCEPT !.line = @ + code[pos + 3]] = Due
    BY <1>3, Zenon DEF ByAdvance
  <2>1. code[pos] \in 1 .. 9
    BY <2>0
  <2>2. Reads(Advance(regs, H, code[pos + 1]), 2)
    BY <2>0, <2>1, ReadsStandard
  <2>3. regs' = Advance(regs, H, code[pos + 1]) /\ rows' = rows /\ files' = files /\ pos' = pos + 2
    BY <2>2 DEF Reads
  <2>4. pos' \in Nat /\ pos' <= Len(code) /\ Len(code) = pos' + 2 /\ pos' + 2 = pos + 4
          /\ pos' + 1 = pos + 3
    BY <2>0, <2>3
  <2>5. code[pos'] = 3 /\ code[pos' + 2] = 1 /\ [regs' EXCEPT !.line = @ + code[pos' + 1]] = Due
    BY <2>0, <2>3, <2>4, Zenon
  <2> QED BY <2>3, <2>4, <2>5, Zenon DEF WayLeft, ByLine
<1>4. CASE BySpecial(code, H, regs, pos, Due)
  <2>0. /\ Len(code) = pos /\ code[pos] \in Nat /\ code[pos] >= H.opcode_base
        /\ Special(regs, H, code[pos]) = Due
    BY <1>4, Zenon DEF BySpecial
  <2>1. /\ regs' = Due /\ rows' = Append(rows, RowWith(regs', files, FALSE))
        /\ files' = files /\ pos' = pos + 1
    BY <2>0, ReadsSpecial
  <2>2. pos' \in Nat /\ pos' > Len(code)
    BY <2>0, <2>1
  <2> QED BY <2>1, <2>2, Zenon
<1>5. CASE ByConstant(code, H, regs, pos, Due)
  <2>0. /\ Len(code) = pos + 1 /\ code[pos] = 8
        /\ code[pos + 1] \in Nat /\ code[pos + 1] >= H.opcode_base
        /\ Special(Advance(regs, H, (255 - H.opcode_base) \div H.line_range), H, code[pos + 1]) =
             Due
    BY <1>5, Zenon DEF ByConstant
  <2>1. code[pos] \in 1 .. 9
    BY <2>0
  <2>2. Reads(Advance(regs, H, (255 - H.opcode_base) \div H.line_range), 1)
    BY <2>0, <2>1, ReadsStandard
  <2>3. /\ regs' = Advance(regs, H, (255 - H.opcode_base) \div H.line_range)
        /\ rows' = rows /\ files' = files /\ pos' = pos + 1
    BY <2>2 DEF Reads
  <2>4. pos' \in Nat /\ pos' <= Len(code) /\ Len(code) = pos'
    BY <2>0, <2>3
  <2>5. code[pos'] \in Nat /\ code[pos'] >= H.opcode_base /\ Special(regs', H, code[pos']) = Due
    BY <2>0, <2>3, Zenon
  <2> QED BY <2>3, <2>4, <2>5, Zenon DEF WayLeft, BySpecial
<1>6. CASE ByFixed(code, H, regs, pos, Due)
  <2>0. /\ Len(code) = pos + 4 /\ code[pos] = 9 /\ code[pos + 2] = 3 /\ code[pos + 4] = 1
        /\ [Jump(regs, regs.address + code[pos + 1], regs.section) EXCEPT !.line =
             @ + code[pos + 3]] = Due
    BY <1>6, Zenon DEF ByFixed
  <2>1. code[pos] \in 1 .. 9
    BY <2>0
  <2>2. Reads(Jump(regs, regs.address + code[pos + 1], regs.section), 2)
    BY <2>0, <2>1, ReadsStandard
  <2>3. /\ regs' = Jump(regs, regs.address + code[pos + 1], regs.section)
        /\ rows' = rows /\ files' = files /\ pos' = pos + 2
    BY <2>2 DEF Reads
  <2>4. pos' \in Nat /\ pos' <= Len(code) /\ Len(code) = pos' + 2 /\ pos' + 2 = pos + 4
          /\ pos' + 1 = pos + 3
    BY <2>0, <2>3
  <2>5. code[pos'] = 3 /\ code[pos' + 2] = 1 /\ [regs' EXCEPT !.line = @ + code[pos' + 1]] = Due
    BY <2>0, <2>3, <2>4, Zenon
  <2> QED BY <2>3, <2>4, <2>5, Zenon DEF WayLeft, ByLine
<1>7. CASE ByAddress(code, reloc, regs, pos, Due)
  <2>0. /\ Len(code) = pos + 6 /\ code[pos] = 0 /\ code[pos + 1] = 2 /\ code[pos + 2] = 2
        /\ code[pos + 4] = 3 /\ code[pos + 6] = 1
        /\ [Jump(regs, code[pos + 3], IF pos + 3 \in DOMAIN reloc
             THEN reloc[pos + 3] ELSE regs.section)
              EXCEPT !.line = @ + code[pos + 5]] = Due
    BY <1>7, Zenon DEF ByAddress
  <2>1. Reads(Jump(regs, code[pos + 3],
                   IF pos + 3 \in DOMAIN reloc THEN reloc[pos + 3] ELSE regs.section), Following)
    BY <2>0, ReadsExtended
  <2>2. /\ regs' = Jump(regs, code[pos + 3],
                        IF pos + 3 \in DOMAIN reloc THEN reloc[pos + 3] ELSE regs.section)
        /\ rows' = rows /\ files' = files /\ pos' = pos + (2 + code[pos + 1])
    BY <2>1, Zenon DEF Reads, Following
  <2>3. pos' = pos + 4
    BY <2>0, <2>2
  <2>4. pos' \in Nat /\ pos' <= Len(code) /\ Len(code) = pos' + 2 /\ pos' + 2 = pos + 6
          /\ pos' + 1 = pos + 5
    BY <2>0, <2>3
  <2>5. code[pos'] = 3 /\ code[pos' + 2] = 1 /\ [regs' EXCEPT !.line = @ + code[pos' + 1]] = Due
    BY <2>0, <2>2, <2>3, <2>4, Zenon
  <2> QED BY <2>2, <2>4, <2>5, Zenon DEF WayLeft, ByLine
<1> QED BY <1>1, <1>2, <1>3, <1>4, <1>5, <1>6, <1>7, Zenon DEF WayLeft

LEMMA NoiseSplit ==
  ASSUME NEW h \in Headers
  PROVE  Starts(h) \in SUBSET (1 .. Len(h.noise) + 1) /\ SplitsNoise(h, Starts(h))
<1>1. \E starts \in SUBSET (1 .. Len(h.noise) + 1) : SplitsNoise(h, starts)
  BY HeaderAssumption DEF SplitsNoise
<1> QED BY <1>1, Zenon DEF Starts

(* An instruction of the noise leads to the next one.                      *)
LEMMA NoiseDecodes ==
  ASSUME Decodes, H \in Headers, rows \in Seq(Rows),
         NEW k \in Nat, NEW b \in Starts(H) \ {Len(H.noise) + 1}, pos = k + b,
         \A i \in DOMAIN H.noise : code[k + i] = H.noise[i]
  PROVE  \E d \in Starts(H) : pos' = k + d /\ regs' = regs /\ rows' = rows /\ files' = files
<1>1. HeaderFacts(H) /\ H.noise \in Seq(Nat)
  <2>1. HeaderFacts(H)
    BY HeadersFine
  <2> QED BY <2>1 DEF HeaderFacts
<1>2. PICK t \in Seq(Nat) : t = H.noise
  BY <1>1
<1>3. /\ Skipped(H, b) /\ AfterSkipped(H, b) \in Starts(H)
      /\ Starts(H) \in SUBSET (1 .. Len(t) + 1)
  BY <1>2, NoiseSplit DEF SplitsNoise
<1>4. b \in Nat /\ b \in DOMAIN t /\ code[pos] = t[b]
  <2>1. b \in 1 .. Len(t)
    BY <1>2, <1>3
  <2>2. b \in Nat /\ b \in DOMAIN t
    BY <1>2, <2>1
  <2> QED BY <1>2, <2>2
<1>5. CASE /\ t[b] \in 1 .. H.opcode_base - 1 /\ t[b] \notin {1, 2, 3, 4, 8, 9}
           /\ Operands(H, t[b]) \in Nat
  <2>1. Reads(regs, 1 + Operands(H, t[b]))
    BY <1>1, <1>4, <1>5, ReadsSkipped
  <2>2. t[b] # 0
    BY <1>1, <1>5, OpcodeKinds
  <2>3. AfterSkipped(H, b) = b + 1 + Operands(H, t[b])
    BY <1>2, <2>2 DEF AfterSkipped
  <2>4. \A o \in Nat : k + b + (1 + o) = k + (b + 1 + o)
    BY <1>4
  <2>5. pos' = k + AfterSkipped(H, b)
    BY <1>5, <2>1, <2>3, <2>4, Zenon DEF Reads
  <2> QED BY <1>3, <2>1, <2>5, Zenon DEF Reads
<1>6. CASE t[b] = 0 /\ b + 2 \in DOMAIN t /\ t[b + 2] \notin {1, 2, 3}
  <2>1. code[pos] = 0 /\ code[pos + 2] = t[b + 2] /\ code[pos + 1] = t[b + 1] /\ t[b + 1] \in Nat
    <3>1. b + 1 \in DOMAIN t /\ t[b + 1] \in Nat
      <4>1. PICK m \in Nat : DOMAIN t = 1 .. m
        BY <1>2
      <4>2. b + 1 \in 1 .. m
        BY ONLY <4>1, <1>4, <1>6
      <4>3. b + 1 \in DOMAIN t
        BY ONLY <4>1, <4>2
      <4>4. \A i \in DOMAIN t : t[i] \in Nat
        BY <1>2
      <4> QED BY <4>3, <4>4
    <3>2. pos + 1 = k + (b + 1) /\ pos + 2 = k + (b + 2)
      BY <1>4
    <3>3. code[k + (b + 1)] = t[b + 1] /\ code[k + (b + 2)] = t[b + 2]
      BY <1>2, <1>6, <3>1, Zenon
    <3> QED BY <1>4, <1>6, <3>1, <3>2, <3>3, Zenon
  <2>2. Reads(regs, Following)
    BY <1>1, <1>6, <2>1, ReadsExtended
  <2>3. pos' = pos + (2 + t[b + 1])
    BY <2>1, <2>2, Zenon DEF Reads, Following
  <2>4. AfterSkipped(H, b) = b + 2 + t[b + 1]
    BY <1>2, <1>6 DEF AfterSkipped
  <2>5. pos' = k + AfterSkipped(H, b)
    <3>1. \A x \in Nat : (k + b) + (2 + x) = k + (b + 2 + x)
      BY <1>4
    <3> QED BY <2>1, <2>3, <2>4, <3>1, Zenon
  <2> QED BY <1>3, <2>2, <2>5, Zenon DEF Reads
<1> QED BY <1>2, <1>3, <1>5, <1>6 DEF Skipped

-----------------------------------------------------------------------------
(* The reader keeps the invariant.                                         *)

LEMMA OwnHeader ==
  ASSUME LineType, units # <<>>
  PROVE  H \in Headers /\ HeaderFacts(H)
<1>1. Last(units) \in Units
  <2>1. units \in Seq(Units)
    BY DEF LineType
  <2>2. Len(units) \in 1 .. Len(units)
    BY <2>1
  <2> QED BY <2>1, <2>2 DEF Last
<1>2. H \in Headers
  BY <1>1 DEF H, Units
<1> QED BY <1>2, HeadersFine

LEMMA WayEnds ==
  ASSUME NEW c, NEW rl, NEW h, NEW r, NEW p \in Nat, NEW due, WayLeft(c, rl, h, r, p, due)
  PROVE  Len(c) \in Nat /\ p <= Len(c)
BY DEF WayLeft, ByCopy, ByLine, ByAdvance, BySpecial, ByConstant, ByFixed, ByAddress

LEMMA LastAppended ==
  ASSUME NEW S, NEW s \in Seq(S), NEW x
  PROVE  Append(s, x) # <<>> /\ Last(Append(s, x)) = x
<1>1. PICK n \in Nat : n = Len(s)
  OBVIOUS
<1>2. Len(Append(s, x)) = n + 1 /\ Append(s, x)[n + 1] = x
  BY <1>1
<1> QED BY <1>1, <1>2 DEF Last

(* What does not change while a program is read.                           *)
LEMMA Held ==
  ASSUME Decodes
  PROVE  /\ H' = H /\ Due' = Due /\ Ended' = Ended
         /\ \A r, table, end : RowWith(r, table, end)' = RowWith(r, table, end)
<1>1. /\ elf' = elf /\ units' = units /\ asm' = asm /\ meant' = meant
  BY Decoding
<1>2. H' = H
  BY <1>1 DEF H
<1>3. Due' = Due
  BY <1>1, <1>2 DEF Due, Home, Origin
<1>4. Ended' = Ended
  BY <1>1 DEF Ended
<1>5. \A r, table, end : RowWith(r, table, end)' = RowWith(r, table, end)
  BY <1>1 DEF RowWith, FileOf, CompDir, Metadata
<1> QED BY <1>2, <1>3, <1>4, <1>5

LEMMA TypeHeld ==
  ASSUME LineType, Decodes, pos' \in Nat, rows' \in Seq(Rows)
  PROVE  LineType'
BY Decoding DEF LineType

LEMMA OpeningDecodes ==
  ASSUME LineType, Decodes, Opening
  PROVE  LineInv'
<1>1. H \in Headers /\ HeaderFacts(H) /\ rows \in Seq(Rows)
  BY OwnHeader, Decoding DEF LineType
<1>2. /\ pos = 1 /\ Len(code) = 4 /\ code[1] = 0 /\ code[2] = 2 /\ code[3] = 2 /\ code[4] = code[4]
      /\ asm.open /\ rows = meant /\ Ended /\ files = asm.files
      /\ Jump(regs, code[4], IF 4 \in DOMAIN reloc THEN reloc[4] ELSE regs.section) = Due
  BY DEF Opening
<1>3. pos + 1 = 2 /\ pos + 2 = 3 /\ pos + 3 = 4
  BY <1>2
<1>4. Reads(Jump(regs, code[4], IF 4 \in DOMAIN reloc THEN reloc[4] ELSE regs.section), Following)
  BY <1>1, <1>2, <1>3, ReadsExtended
<1>5. regs' = Due /\ rows' = rows /\ files' = files /\ pos' = 5
  BY <1>2, <1>3, <1>4 DEF Reads, Following
<1>6. Waiting'
  <2>1. Idle'
    <3>1. Len(code') = 4
      BY <1>2, Decoding, Zenon
    <3>2. pos' > Len(code')
      BY ONLY <1>5, <3>1
    <3> QED BY <3>2, Zenon DEF Idle
  <2> QED BY <1>2, <1>5, <2>1, Held, Decoding DEF Waiting
<1> QED BY <1>1, <1>5, <1>6, TypeHeld DEF LineInv

LEMMA ClosingDecodes ==
  ASSUME LineType, Decodes, Closing
  PROVE  LineInv'
<1>1. H \in Headers /\ HeaderFacts(H) /\ rows \in Seq(Rows) /\ meant \in Seq(Rows)
  BY OwnHeader, Decoding DEF LineType
<1>2. /\ ~asm.open /\ files = asm.files /\ units # <<>>
      /\ Len(code) = 5 /\ code[3] = 0 /\ code[4] = 1 /\ code[5] = 1
  BY DEF Closing
<1>3. CASE /\ pos = 1 /\ code[1] = 2
           /\ meant = Append(rows, RowWith(Advance(regs, H, code[2]), files, TRUE))
  <2>1. pos + 1 = 2 /\ code[pos] = 2 /\ code[pos] \in 1 .. 9
    BY <1>3
  <2>2. Reads(Advance(regs, H, code[2]), 2)
    BY <1>1, <2>1, ReadsStandard
  <2>3. regs' = Advance(regs, H, code[2]) /\ rows' = rows /\ files' = files /\ pos' = 3
    BY <1>3, <2>2 DEF Reads
  <2>4. meant' = Append(rows', RowWith(regs, files, TRUE)')
    BY <1>3, <2>3, Decoding, Held
  <2>5. Closing'
    BY <1>2, <2>3, <2>4, Decoding DEF Closing
  <2> QED BY <1>1, <2>3, <2>5, TypeHeld DEF LineInv
<1>4. CASE pos = 3 /\ meant = Append(rows, RowWith(regs, files, TRUE))
  <2>1. pos + 1 = 4 /\ pos + 2 = 5 /\ code[pos] = 0 /\ code[pos + 2] = 1 /\ code[pos + 1] = 1
    BY <1>2, <1>4
  <2>2. /\ regs' = Reset /\ files' = files /\ pos' = pos + Following
        /\ rows' = Append(rows, RowWith(regs, files, TRUE))
    BY <1>1, <2>1, ReadsExtended
  <2>3. pos' = 6 /\ rows' = meant
    BY <1>4, <2>1, <2>2 DEF Following
  <2>4. Last(meant).end_sequence
    <3>1. Last(meant) = RowWith(regs, files, TRUE)
      BY <1>1, <1>4, LastAppended
    <3> QED BY <3>1 DEF RowWith
  <2>5. Idle' /\ Ended'
    <3>1. Idle'
      <4>1. Len(code') = 5
        BY <1>2, Decoding, Zenon
      <4>2. pos' > Len(code')
        BY ONLY <2>3, <4>1
      <4> QED BY <4>2, Zenon DEF Idle
    <3> QED BY <2>4, <3>1, Held DEF Ended
  <2>6. Resting'
    <3>1. Reset' = Reset
      BY DEF Reset
    <3> QED BY <1>2, <2>2, <2>3, <2>5, <3>1, Decoding, Zenon DEF Resting
  <2>7. pos' \in Nat /\ rows' \in Seq(Rows)
    BY <1>1, <2>3
  <2> QED BY <2>6, <2>7, TypeHeld, Zenon DEF LineInv
<1> QED BY <1>3, <1>4 DEF Closing

LEMMA SayingDecodes ==
  ASSUME LineType, Decodes, asm.open, Saying,
         meant = Append(rows, RowWith(Due, asm.files, FALSE))
  PROVE  LineInv'
<1>1. H \in Headers /\ HeaderFacts(H) /\ rows \in Seq(Rows) /\ meant \in Seq(Rows) /\ pos \in Nat
  BY OwnHeader, Decoding DEF LineType
<1>2. files = asm.files /\ WayLeft(code, reloc, H, regs, pos, Due)
  BY DEF Saying
<1>3. /\ files' = files /\ pos' \in Nat
      /\ \/ /\ regs' = Due /\ pos' > Len(code)
            /\ rows' = Append(rows, RowWith(Due, files, FALSE))
         \/ /\ rows' = rows /\ pos' <= Len(code)
            /\ WayLeft(code, reloc, H, regs', pos', Due)
  BY <1>1, <1>2, WayDecodes
<1>4. CASE /\ regs' = Due /\ pos' > Len(code)
           /\ rows' = Append(rows, RowWith(Due, files, FALSE))
  <2>1. rows' = meant
    BY <1>2, <1>4
  <2>2. Last(meant) = RowWith(Due, asm.files, FALSE)
    BY <1>1, LastAppended
  <2>3. Waiting'
    BY <1>2, <1>3, <1>4, <2>1, <2>2, Decoding, Held DEF Waiting, Idle
  <2> QED BY <1>1, <1>3, <2>1, <2>3, TypeHeld DEF LineInv
<1>5. CASE /\ rows' = rows /\ pos' <= Len(code)
           /\ WayLeft(code, reloc, H, regs', pos', Due)
  <2>1. Saying'
    BY <1>2, <1>3, <1>5, Decoding, Held DEF Saying
  <2>2. Adding'
    BY <1>2, <1>3, <1>5, <2>1, Decoding, Held DEF Adding
  <2> QED BY <1>1, <1>3, <1>5, <2>2, TypeHeld DEF LineInv
<1> QED BY <1>3, <1>4, <1>5

LEMMA SkippingDecodes ==
  ASSUME LineType, Decodes, asm.open, Skipping,
         meant = Append(rows, RowWith(Due, asm.files, FALSE))
  PROVE  LineInv'
<1>1. H \in Headers /\ HeaderFacts(H) /\ rows \in Seq(Rows)
  BY OwnHeader, Decoding DEF LineType
<1>2. PICK k \in Nat, b \in Starts(H) :
        /\ files = asm.files /\ pos = k + b
        /\ FromNoise(code, reloc, H, regs, k + 1, Due)
  BY DEF Skipping
<1>3. /\ \A i \in DOMAIN H.noise : code[k + i] = H.noise[i]
      /\ WayLeft(code, reloc, H, regs, (k + 1) + Len(H.noise), Due)
  <2>1. (k + 1) - 1 = k
    OBVIOUS
  <2> QED BY <1>2, <2>1 DEF FromNoise
<1>4. PICK n \in Nat : n = Len(H.noise)
  BY <1>1 DEF HeaderFacts
<1>5. Starts(H) \in SUBSET (1 .. n + 1)
  BY <1>1, <1>4, NoiseSplit, Zenon
<1>6. CASE b = n + 1
  <2>1. pos = (k + 1) + n
    <3>1. k + (n + 1) = (k + 1) + n
      BY ONLY k \in Nat, n \in Nat
    <3> QED BY <1>2, <1>6, <3>1, Zenon
  <2>2. Saying
    BY <1>2, <1>3, <1>4, <2>1, Zenon DEF Saying
  <2> QED BY <2>2, SayingDecodes
<1>7. CASE b # n + 1
  <2>1. PICK d \in Starts(H) : pos' = k + d /\ regs' = regs /\ rows' = rows /\ files' = files
    BY <1>1, <1>2, <1>3, <1>4, <1>7, NoiseDecodes
  <2>2. (k + 1) + n \in Nat /\ (k + 1) + n <= Len(code) /\ Len(code) \in Nat
    <3>1. (k + 1) + n \in Nat
      BY ONLY k \in Nat, n \in Nat
    <3> QED BY <1>3, <1>4, <3>1, WayEnds, Zenon
  <2>3. d \in 1 .. n + 1
    BY <1>5, <2>1
  <2>4. pos' \in Nat /\ pos' <= Len(code)
    <3>1. k + d \in Nat /\ k + d <= Len(code)
      BY ONLY k \in Nat, n \in Nat, <2>2, <2>3
    <3> QED BY <2>1, <3>1, Zenon
  <2>5. Skipping'
    BY <1>2, <2>1, Decoding, Held DEF Skipping
  <2>6. Adding'
    BY <2>1, <2>4, <2>5, Decoding, Held DEF Adding
  <2> QED BY <1>1, <2>1, <2>4, <2>6, TypeHeld DEF LineInv
<1> QED BY <1>6, <1>7

(* What comes after an opcode that is followed by the noise.               *)
LEMMA ThenSkipping ==
  ASSUME LineType, Decodes, asm.open, pos' \in Nat, pos' >= 1, rows' = rows, files' = asm.files,
         meant = Append(rows, RowWith(Due, asm.files, FALSE)),
         FromNoise(code, reloc, H, regs', pos', Due)
  PROVE  LineInv'
<1>1. H \in Headers /\ HeaderFacts(H) /\ rows \in Seq(Rows)
  BY OwnHeader, Decoding DEF LineType
<1>0. pos' \in Nat /\ pos' >= 1
  OBVIOUS
<1>2. PICK k \in Nat : pos' = k + 1
  <2>1. PICK m \in Nat : m = pos'
    BY <1>0
  <2>a. m >= 1
    BY <1>0, <2>1, Zenon
  <2>2. m - 1 \in Nat /\ m = (m - 1) + 1
    BY ONLY m \in Nat, <2>a
  <2> QED BY <2>1, <2>2
<1>3. 1 \in Starts(H)
  BY <1>1, NoiseSplit DEF SplitsNoise
<1>4. Skipping'
  BY <1>2, <1>3, Decoding, Held DEF Skipping
<1>5. pos' <= Len(code)
  <2>1. PICK n \in Nat : n = Len(H.noise)
    BY <1>1 DEF HeaderFacts
  <2>2. WayLeft(code, reloc, H, regs', pos' + n, Due)
    BY <2>1, Zenon DEF FromNoise
  <2>3. pos' + n \in Nat
    BY ONLY <1>0, <2>1
  <2>4. Len(code) \in Nat /\ pos' + n <= Len(code)
    BY <2>2, <2>3, WayEnds, Zenon
  <2> QED BY ONLY <1>0, <2>1, <2>4
<1>6. Adding'
  BY <1>4, <1>5, Decoding, Held DEF Adding
<1> QED BY <1>1, <1>6, TypeHeld DEF LineInv

LEMMA NamingDecodes ==
  ASSUME LineType, Decodes, asm.open, Naming,
         meant = Append(rows, RowWith(Due, asm.files, FALSE))
  PROVE  LineInv'
<1>1. H \in Headers /\ HeaderFacts(H) /\ rows \in Seq(Rows) /\ pos \in Nat
  BY OwnHeader, Decoding DEF LineType
<1>2. /\ files = asm.files /\ code[pos] = 4 /\ code[pos] \in 1 .. 9
      /\ FromNoise(code, reloc, H, [regs EXCEPT !.file = code[pos + 1]], pos + 2, Due)
  BY DEF Naming
<1>3. Reads([regs EXCEPT !.file = code[pos + 1]], 2)
  BY <1>1, <1>2, ReadsStandard
<1>4. /\ regs' = [regs EXCEPT !.file = code[pos + 1]]
      /\ rows' = rows /\ files' = files /\ pos' = pos + 2
  BY <1>3 DEF Reads
<1>5. pos' \in Nat /\ pos' >= 1
  BY <1>1, <1>4
<1> QED BY <1>2, <1>4, <1>5, ThenSkipping

LEMMA DefiningDecodes ==
  ASSUME LineType, Decodes, asm.open, Defining,
         meant = Append(rows, RowWith(Due, asm.files, FALSE))
  PROVE  LineInv'
<1>1. H \in Headers /\ HeaderFacts(H) /\ rows \in Seq(Rows) /\ pos \in Nat
  BY OwnHeader, Decoding DEF LineType
<1>2. /\ pos = 1 /\ Len(code) >= 5 /\ code[1] = 0 /\ code[2] = 2 /\ code[3] = 3
      /\ Append(files, code[4]) = asm.files
      /\ FromFile(code, reloc, H, regs, 5, Due)
  BY DEF Defining
<1>3. pos + 1 = 2 /\ pos + 2 = 3 /\ pos + 3 = 4
  BY <1>2
<1>4. /\ regs' = regs /\ rows' = rows /\ pos' = pos + Following
      /\ files' = Append(files, code[4])
  BY <1>1, <1>2, <1>3, ReadsExtended
<1>5. pos' = 5 /\ files' = asm.files
  BY <1>2, <1>3, <1>4 DEF Following
<1>6. CASE FromNoise(code, reloc, H, regs, 5, Due)
  BY <1>4, <1>5, <1>6, ThenSkipping
<1>7. CASE /\ code[5] = 4
           /\ FromNoise(code, reloc, H, [regs EXCEPT !.file = code[5 + 1]], 5 + 2, Due)
  <2>1. Naming'
    BY <1>4, <1>5, <1>7, Decoding, Held DEF Naming
  <2>2. pos' <= Len(code)
    BY <1>2, <1>5
  <2>3. Adding'
    BY <1>4, <2>1, <2>2, Decoding, Held DEF Adding
  <2>4. pos' \in Nat /\ rows' \in Seq(Rows)
    BY <1>1, <1>4, <1>5
  <2> QED BY <2>3, <2>4, TypeHeld DEF LineInv
<1> QED BY <1>2, <1>6, <1>7 DEF FromFile

LEMMA DecodesKeeps ==
  ASSUME LineInv, Decodes
  PROVE  LineInv'
<1>1. LineType /\ pos \in Nat /\ Len(code) \in Nat
  BY DEF LineInv, LineType
<1>2. ~Resting /\ ~Waiting
  <2>1. ~Idle
    BY <1>1, Decoding DEF Idle
  <2> QED BY <2>1 DEF Resting, Waiting
<1>3. CASE Adding
  BY <1>1, <1>3, SayingDecodes, SkippingDecodes, NamingDecodes, DefiningDecodes DEF Adding
<1> QED BY <1>1, <1>2, <1>3, OpeningDecodes, ClosingDecodes DEF LineInv

-----------------------------------------------------------------------------
(* The assembler's ways to write a row say that row.                       *)

(* The index of a file is read back as the file.                           *)
LEMMA IndexFinds ==
  ASSUME LineType, units # <<>>, NEW table \in Seq(Names), NEW f,
         f = NoFile \/ f \in {table[i] : i \in DOMAIN table}
  PROVE  /\ Index(table, f) \in Nat
         /\ FileOf(Len(units), table, Index(table, f))
              = IF f = NoFile THEN NoFile ELSE <<CompDir(Len(units)), f>>
<1>1. PICK h : h = H /\ h.version \in Nat
  <2>1. H.version \in Nat
    BY OwnHeader DEF HeaderFacts
  <2> QED BY <2>1
<1>2. PICK n \in Nat : n = Len(table) /\ DOMAIN table = 1 .. n
  OBVIOUS
<1>3. units[Len(units)].h = h
  BY <1>1 DEF H, Last
<1> DEFINE i == IF f = NoFile THEN Len(table) + 1 ELSE SelectInSeq(table, LAMBDA x : x = f)
<1>4. i \in Nat /\ i >= 1 /\ (f = NoFile => i = n + 1)
        /\ (f # NoFile => i \in 1 .. n /\ table[i] = f)
  <2>1. CASE f = NoFile
    <3>1. i = n + 1
      BY <1>2, <2>1
    <3> HIDE DEF i
    <3> QED BY ONLY <2>1, <3>1, n \in Nat
  <2>2. CASE f # NoFile
    <3> DEFINE I == {j \in 1 .. n : table[j] = f}
    <3>1. I \in SUBSET Nat /\ I # {}
      BY <1>2, <2>2
    <3>2. i = CHOOSE x \in I : \A y \in I : x =< y
      BY <1>2, <2>2, <3>1 DEF SelectInSeq, Min
    <3>3. \E x \in I : \A y \in I : x <= y
      <4> HIDE DEF I
      <4> QED BY <3>1, LeastNat
    <3>4. i \in I
      <4> HIDE DEF I, i
      <4> QED BY <3>2, <3>3, Zenon
    <3> HIDE DEF i
    <3> QED BY <2>2, <3>4
  <2> QED BY <2>1, <2>2
<1>5. Index(table, f) = IF h.version >= 5 THEN i - 1 ELSE i
  BY <1>1 DEF Index
<1> HIDE DEF i
<1>6. Index(table, f) \in Nat /\ Entry(h, Index(table, f)) = i
  <2>1. PICK x \in Nat : x = i /\ x >= 1
    BY <1>4
  <2>2. CASE h.version >= 5
    <3>1. x - 1 \in Nat /\ (x - 1) + 1 = x
      BY ONLY x \in Nat, <2>1
    <3> QED BY <1>5, <2>1, <2>2, <3>1 DEF Entry
  <2>3. CASE ~(h.version >= 5)
    BY <1>5, <2>1, <2>3 DEF Entry
  <2> QED BY <2>2, <2>3
<1>7. FileOf(Len(units), table, Index(table, f))
        = IF i \in DOMAIN table THEN <<CompDir(Len(units)), table[i]>> ELSE NoFile
  BY <1>3, <1>6, Zenon DEF FileOf
<1>8. f = NoFile => i \notin DOMAIN table
  BY <1>2, <1>4
<1>9. f # NoFile => i \in DOMAIN table /\ table[i] = f
  BY <1>2, <1>4
<1> QED BY <1>6, <1>7, <1>8, <1>9, Zenon

LEMMA SequenceTyped ==
  ASSUME LineType, asm.open
  PROVE  /\ asm \in Sequence /\ asm.sec \in Secs /\ asm.start \in Nat /\ asm.ops \in Nat
         /\ asm.line \in Nat /\ asm.file \in Nat /\ asm.files \in Seq(Names)
         /\ HeaderFacts(H) /\ H \in Headers /\ units # <<>> /\ Origin \in Nat
<1>1. asm \in Sequence
  BY DEF LineType
<1>2. units # <<>>
  BY DEF LineType
<1>3. Place[asm.sec] \in Nat
  BY <1>1, PlaceAssumption DEF Sequence
<1>4. asm.start \in Nat
  BY <1>1 DEF Sequence
<1>5. Origin \in Nat
  BY <1>3, <1>4 DEF Origin
<1> QED BY <1>1, <1>2, <1>5, OwnHeader DEF Sequence

LEMMA AddrIs ==
  ASSUME LineType, asm.open, NEW ops \in Nat
  PROVE  Addr(asm.sec, Offset(ops)) = [v |-> At(H, Origin, ops), sec |-> Home]
<1>1. PICK h : h = H /\ HeaderFacts(h)
  BY SequenceTyped
<1>2. PICK x \in Nat : x = h.min_inst * (ops \div h.max_ops)
  <2>1. ops \div h.max_ops \in Nat /\ h.min_inst \in Nat
    BY <1>1, Division DEF HeaderFacts
  <2> QED BY <2>1
<1>3. Offset(ops) = asm.start + x /\ \A a : At(H, a, ops) = a + x
  BY <1>1, <1>2 DEF Offset, At
<1>4. PICK a \in Nat, s \in Nat : a = Place[asm.sec] /\ s = asm.start
  BY SequenceTyped, PlaceAssumption
<1>5. a + (s + x) = (a + s) + x
  OBVIOUS
<1> QED BY <1>3, <1>4, <1>5 DEF Addr, Home, Origin

LEMMA WaysAre ==
  ASSUME NEW n, NEW m, NEW w \in Ways(n, m), NEW h, NEW ops, h = H, ops = asm.ops
  PROVE  \/ w.tokens = <<2, n, 3, m, 1>>
         \/ w.tokens = <<SpecialFor(h, m, n)>> /\ m - h.line_base \in 0 .. h.line_range - 1
         \/ /\ w.tokens = <<8, SpecialFor(h, m, n - Most(h))>> /\ n >= Most(h)
            /\ m - h.line_base \in 0 .. h.line_range - 1
         \/ /\ w.tokens = <<9, Offset(ops + n) - Offset(ops), 3, m, 1>> /\ w.at = 0
            /\ (ops + n) % h.max_ops = 0
         \/ /\ w.tokens = <<0, 2, 2, Addr(asm.sec, Offset(ops + n)).v, 3, m, 1>> /\ w.at = 4
            /\ (ops + n) % h.max_ops = 0
BY DEF Ways, SpecialFor, Most

(* The tokens of a program, one after the other.                           *)
Ends(c, q, t) == Len(c) = q + Len(t) /\ \A i \in 1 .. Len(t) : c[q + i] = t[i]
FiveAt(c, p, t1, t2, t3, t4, t5) ==
  Len(c) = p + 4 /\ c[p] = t1 /\ c[p + 1] = t2 /\ c[p + 2] = t3 /\ c[p + 3] = t4 /\ c[p + 4] = t5
SevenAt(c, p, t1, t2, t3, t4, t5, t6, t7) ==
  /\ Len(c) = p + 6 /\ c[p] = t1 /\ c[p + 1] = t2 /\ c[p + 2] = t3 /\ c[p + 3] = t4
  /\ c[p + 4] = t5 /\ c[p + 5] = t6 /\ c[p + 6] = t7

LEMMA Five ==
  ASSUME NEW c, NEW q \in Nat, NEW t1, NEW t2, NEW t3, NEW t4, NEW t5,
         Ends(c, q, <<t1, t2, t3, t4, t5>>)
  PROVE  FiveAt(c, q + 1, t1, t2, t3, t4, t5)
<1>0. PICK t : t = <<t1, t2, t3, t4, t5>>
  OBVIOUS
<1>1. Len(t) = 5 /\ t[1] = t1 /\ t[2] = t2 /\ t[3] = t3 /\ t[4] = t4 /\ t[5] = t5
  BY <1>0
<1>a. Len(c) = q + 5 /\ \A i \in 1 .. 5 : c[q + i] = t[i]
  BY <1>0, <1>1, Zenon DEF Ends
<1>2. /\ Len(c) = q + 5
      /\ c[q + 1] = t1 /\ c[q + 2] = t2 /\ c[q + 3] = t3 /\ c[q + 4] = t4 /\ c[q + 5] = t5
  BY <1>1, <1>a
<1>3. /\ q + 2 = (q + 1) + 1 /\ q + 3 = (q + 1) + 2 /\ q + 4 = (q + 1) + 3
      /\ q + 5 = (q + 1) + 4
  BY ONLY q \in Nat
<1> QED BY <1>2, <1>3, Zenon DEF FiveAt

LEMMA Seven ==
  ASSUME NEW c, NEW q \in Nat, NEW t1, NEW t2, NEW t3, NEW t4, NEW t5, NEW t6, NEW t7,
         Ends(c, q, <<t1, t2, t3, t4, t5, t6, t7>>)
  PROVE  SevenAt(c, q + 1, t1, t2, t3, t4, t5, t6, t7)
<1>0. PICK t : t = <<t1, t2, t3, t4, t5, t6, t7>>
  OBVIOUS
<1>1. /\ Len(t) = 7 /\ t[1] = t1 /\ t[2] = t2 /\ t[3] = t3 /\ t[4] = t4 /\ t[5] = t5
      /\ t[6] = t6 /\ t[7] = t7
  BY <1>0
<1>a. Len(c) = q + 7 /\ \A i \in 1 .. 7 : c[q + i] = t[i]
  BY <1>0, <1>1, Zenon DEF Ends
<1>2. /\ Len(c) = q + 7
      /\ c[q + 1] = t1 /\ c[q + 2] = t2 /\ c[q + 3] = t3 /\ c[q + 4] = t4 /\ c[q + 5] = t5
      /\ c[q + 6] = t6 /\ c[q + 7] = t7
  BY <1>1, <1>a
<1>3. /\ q + 2 = (q + 1) + 1 /\ q + 3 = (q + 1) + 2 /\ q + 4 = (q + 1) + 3
      /\ q + 5 = (q + 1) + 4 /\ q + 6 = (q + 1) + 5 /\ q + 7 = (q + 1) + 6
  BY ONLY q \in Nat
<1> QED BY <1>2, <1>3, Zenon DEF SevenAt

LEMMA WaysRight ==
  ASSUME LineType, asm.open, NEW n \in Nat, NEW m \in Int, NEW f, NEW w \in Ways(n, m),
         NEW c, NEW q \in Nat, NEW rl,
         Len(c) = q + Len(w.tokens),
         \A i \in 1 .. Len(w.tokens) : c[q + i] = w.tokens[i],
         IF w.at # 0 /\ elf.kind = "rel" THEN rl = [i \in {q + w.at} |-> asm.sec] ELSE rl = <<>>
  PROVE  WayLeft(c, rl, H, Reg(Home, At(H, Origin, asm.ops), asm.ops % H.max_ops, f, asm.line),
                 q + 1,
                 Reg(Home, At(H, Origin, asm.ops + n), (asm.ops + n) % H.max_ops, f, asm.line + m))
<1>1. PICK h, a, l, ops : h = H /\ a = Origin /\ l = asm.line /\ ops = asm.ops
  OBVIOUS
<1>2. HeaderFacts(h) /\ a \in Nat /\ l \in Nat /\ ops \in Nat
  BY <1>1, SequenceTyped
<1>a. n \in Nat /\ m \in Int
  OBVIOUS
<1> DEFINE r0 == Reg(Home, At(h, a, ops), ops % h.max_ops, f, l)
           r1 == Reg(Home, At(h, a, ops + n), (ops + n) % h.max_ops, f, l)
           r2 == Reg(Home, At(h, a, ops + n), (ops + n) % h.max_ops, f, l + m)
           p  == q + 1
           fits == m - h.line_base \in 0 .. h.line_range - 1
<1>0. Ends(c, q, w.tokens)
  BY DEF Ends
<1> SUFFICES WayLeft(c, rl, h, r0, p, r2)
  BY <1>1
<1>3. [r1 EXCEPT !.line = @ + m] = r2
  BY DEF Reg
<1>4. /\ p + 1 = q + 2 /\ p + 2 = q + 3 /\ p + 3 = q + 4 /\ p + 4 = q + 5 /\ p + 5 = q + 6
      /\ p + 6 = q + 7
  OBVIOUS
<1>5. CASE w.tokens = <<2, n, 3, m, 1>>
  <2>1. Len(c) = p + 4 /\ c[p] = 2 /\ c[p + 1] = n /\ c[p + 2] = 3 /\ c[p + 3] = m /\ c[p + 4] = 1
    <3>1. FiveAt(c, q + 1, 2, n, 3, m, 1)
      BY <1>0, <1>5, Five
    <3> QED BY <3>1, Zenon DEF FiveAt
  <2>2. Advance(r0, h, n) = r1
    <3>1. AdvanceAdds(h, a, ops, n, Home, f, l)
      BY <1>2, Advanced
    <3> QED BY <3>1, Zenon DEF AdvanceAdds
  <2> HIDE DEF r0, r1, r2, p
  <2>3. ByAdvance(c, h, r0, p, r2)
    BY <1>3, <2>1, <2>2, Zenon DEF ByAdvance
  <2> QED BY <2>3, Zenon DEF WayLeft
<1>6. CASE w.tokens = <<SpecialFor(h, m, n)>> /\ fits
  <2>1. Len(c) = p /\ c[p] = SpecialFor(h, m, n)
    <3>1. Len(w.tokens) = 1 /\ w.tokens[1] = SpecialFor(h, m, n)
      BY <1>6
    <3> QED BY <1>0, <3>1
  <2>2. SpecialFor(h, m, n) \in Nat /\ SpecialFor(h, m, n) >= h.opcode_base
          /\ Special(r0, h, SpecialFor(h, m, n)) = r2
    <3>1. SpecialAdds(h, a, ops, n, Home, f, l, m)
      BY <1>2, <1>6, SpecialSays
    <3> QED BY <3>1, Zenon DEF SpecialAdds
  <2> HIDE DEF r0, r1, r2, p
  <2>3. BySpecial(c, h, r0, p, r2)
    BY <2>1, <2>2, Zenon DEF BySpecial
  <2> QED BY <2>3, Zenon DEF WayLeft
<1>7. CASE w.tokens = <<8, SpecialFor(h, m, n - Most(h))>> /\ n >= Most(h) /\ fits
  <2>1. PICK t \in Nat : t = Most(h)
    BY <1>2, MostTyped
  <2>2. PICK k \in Nat : k = n - t
    BY <1>7, <2>1
  <2>3. ops + t \in Nat /\ (ops + t) + k = ops + n
    BY <1>2, <2>1, <2>2
  <2>4. Len(c) = p + 1 /\ c[p] = 8 /\ c[p + 1] = SpecialFor(h, m, k)
    <3>1. w.tokens = <<8, SpecialFor(h, m, k)>>
      BY <1>7, <2>1, <2>2
    <3>2. Len(w.tokens) = 2 /\ w.tokens[1] = 8 /\ w.tokens[2] = SpecialFor(h, m, k)
      BY <3>1
    <3>3. Len(c) = q + 2 /\ c[q + 1] = 8 /\ c[q + 2] = SpecialFor(h, m, k)
      BY <1>0, <3>2
    <3>4. q + 2 = (q + 1) + 1
      BY ONLY q \in Nat
    <3> QED BY <3>3, <3>4, Zenon
  <2> DEFINE rt == Reg(Home, At(h, a, ops + t), (ops + t) % h.max_ops, f, l)
  <2>5. Advance(r0, h, t) = rt
    <3>1. AdvanceAdds(h, a, ops, t, Home, f, l)
      BY <1>2, Advanced
    <3> QED BY <3>1, Zenon DEF AdvanceAdds
  <2>6. SpecialFor(h, m, k) \in Nat /\ SpecialFor(h, m, k) >= h.opcode_base
          /\ Special(rt, h, SpecialFor(h, m, k)) = r2
    <3>1. SpecialAdds(h, a, ops + t, k, Home, f, l, m)
      BY <1>2, <1>7, <2>3, SpecialSays
    <3> QED BY <2>3, <3>1, Zenon DEF SpecialAdds
  <2> HIDE DEF r0, r1, r2, p, rt
  <2>7. ByConstant(c, h, r0, p, r2)
    BY <2>1, <2>4, <2>5, <2>6, Zenon DEF ByConstant, Most
  <2> QED BY <2>7, Zenon DEF WayLeft
<1>8. ASSUME (ops + n) % h.max_ops = 0
      PROVE  Jump(r0, At(h, a, ops + n), Home) = r1
  <2>1. Jump(r0, At(h, a, ops + n), Home) = Reg(Home, At(h, a, ops + n), 0, f, l)
    BY JumpReg
  <2> QED BY <1>8, <2>1, Zenon
<1>9. CASE /\ w.tokens = <<9, Offset(ops + n) - Offset(ops), 3, m, 1>> /\ w.at = 0
           /\ (ops + n) % h.max_ops = 0
  <2>1. PICK d : d = Offset(ops + n) - Offset(ops)
    OBVIOUS
  <2>2. Len(c) = p + 4 /\ c[p] = 9 /\ c[p + 1] = d /\ c[p + 2] = 3 /\ c[p + 3] = m /\ c[p + 4] = 1
    <3>1. w.tokens = <<9, d, 3, m, 1>>
      BY <1>9, <2>1
    <3>2. FiveAt(c, q + 1, 9, d, 3, m, 1)
      BY <1>0, <3>1, Five
    <3> QED BY <3>2, Zenon DEF FiveAt
  <2>3. At(h, a, ops) + d = At(h, a, ops + n)
    <3>1. PICK x \in Nat, y \in Nat :
            /\ x = h.min_inst * (ops \div h.max_ops) /\ y = h.min_inst * ((ops + n) \div h.max_ops)
      <4>1. ops + n \in Nat
        BY <1>2
      <4>2. ops \div h.max_ops \in Nat /\ (ops + n) \div h.max_ops \in Nat /\ h.min_inst \in Nat
        BY <1>2, <4>1, Division DEF HeaderFacts
      <4> QED BY <4>2
    <3>2. PICK s \in Nat : s = asm.start
      BY SequenceTyped
    <3>3. d = (s + y) - (s + x)
      BY <1>1, <2>1, <3>1, <3>2 DEF Offset
    <3>4. (a + x) + ((s + y) - (s + x)) = a + y
      <4>1. a \in Nat
        BY <1>2
      <4> QED BY ONLY <4>1, x \in Nat, y \in Nat, s \in Nat
    <3> QED BY <3>1, <3>3, <3>4, Zenon DEF At
  <2>4. r0.address = At(h, a, ops) /\ r0.section = Home
    BY DEF Reg
  <2>5. Jump(r0, r0.address + d, r0.section) = r1
    BY <1>8, <1>9, <2>3, <2>4, Zenon
  <2> HIDE DEF r0, r1, r2, p
  <2>6. ByFixed(c, h, r0, p, r2)
    BY <1>3, <2>2, <2>5, Zenon DEF ByFixed
  <2> QED BY <2>6, Zenon DEF WayLeft
<1>10. CASE /\ w.tokens = <<0, 2, 2, Addr(asm.sec, Offset(ops + n)).v, 3, m, 1>> /\ w.at = 4
            /\ (ops + n) % h.max_ops = 0
  <2>1. PICK v : v = Addr(asm.sec, Offset(ops + n)).v
    OBVIOUS
  <2>2. /\ Len(c) = p + 6 /\ c[p] = 0 /\ c[p + 1] = 2 /\ c[p + 2] = 2 /\ c[p + 3] = v
        /\ c[p + 4] = 3 /\ c[p + 5] = m /\ c[p + 6] = 1
    <3>1. w.tokens = <<0, 2, 2, v, 3, m, 1>>
      BY <1>10, <2>1
    <3>2. SevenAt(c, q + 1, 0, 2, 2, v, 3, m, 1)
      BY <1>0, <3>1, Seven
    <3> QED BY <3>2, Zenon DEF SevenAt
  <2>3. v = At(h, a, ops + n)
    <3>1. ops + n \in Nat
      BY <1>2
    <3>2. Addr(asm.sec, Offset(ops + n)) = [v |-> At(h, a, ops + n), sec |-> Home]
      BY <1>1, <3>1, AddrIs
    <3> QED BY <2>1, <3>2
  <2>4. (IF p + 3 \in DOMAIN rl THEN rl[p + 3] ELSE r0.section) = Home
    <3>1. r0.section = Home
      BY DEF Reg
    <3>2. CASE elf.kind = "rel"
      <4>1. rl = [i \in {p + 3} |-> asm.sec]
        BY <1>4, <1>10, <3>2
      <4>2. p + 3 \in DOMAIN rl /\ rl[p + 3] = asm.sec
        <5> HIDE DEF p, r0
        <5> QED BY <4>1
      <4> QED BY <3>2, <4>2 DEF Home
    <3>3. CASE elf.kind # "rel"
      <4>1. rl = <<>>
        BY <3>3
      <4>2. p + 3 \notin DOMAIN rl
        <5> HIDE DEF p, r0
        <5> QED BY <4>1
      <4> QED BY <3>1, <4>2
    <3> QED BY <3>2, <3>3
  <2>5. Jump(r0, v, Home) = r1
    BY <1>8, <1>10, <2>3, Zenon
  <2> HIDE DEF r0, r1, r2, p
  <2>6. ByAddress(c, rl, r0, p, r2)
    BY <1>3, <2>2, <2>4, <2>5, Zenon DEF ByAddress
  <2> QED BY <2>6, Zenon DEF WayLeft
<1>11. \/ w.tokens = <<2, n, 3, m, 1>>
       \/ w.tokens = <<SpecialFor(h, m, n)>> /\ fits
       \/ w.tokens = <<8, SpecialFor(h, m, n - Most(h))>> /\ n >= Most(h) /\ fits
       \/ /\ w.tokens = <<9, Offset(ops + n) - Offset(ops), 3, m, 1>> /\ w.at = 0
          /\ (ops + n) % h.max_ops = 0
       \/ /\ w.tokens = <<0, 2, 2, Addr(asm.sec, Offset(ops + n)).v, 3, m, 1>> /\ w.at = 4
          /\ (ops + n) % h.max_ops = 0
  BY <1>1, WaysAre
<1> HIDE DEF r0, r1, r2, p, fits
<1> QED BY <1>5, <1>6, <1>7, <1>9, <1>10, <1>11

-----------------------------------------------------------------------------
(* The assembler keeps the invariant.                                      *)

(* One sequence, then another.                                             *)
Follows(s, t, c) ==
  /\ Len(c) = Len(s) + Len(t)
  /\ \A i \in DOMAIN s : i \in DOMAIN c /\ c[i] = s[i]
  /\ \A i \in DOMAIN t : Len(s) + i \in DOMAIN c /\ c[Len(s) + i] = t[i]

LEMMA Following2 ==
  ASSUME NEW S, NEW s \in Seq(S), NEW t \in Seq(S)
  PROVE  s \o t \in Seq(S) /\ Follows(s, t, s \o t)
BY Concatenated DEF Follows

(* The four parts of a program, each where the ones before it end.         *)
Parts(d, e, t, w, c) ==
  /\ Len((d \o e) \o t) = (Len(d) + Len(e)) + Len(t)
  /\ Len(c) = ((Len(d) + Len(e)) + Len(t)) + Len(w)
  /\ \A i \in DOMAIN d : c[i] = d[i]
  /\ \A i \in DOMAIN e : c[Len(d) + i] = e[i]
  /\ \A i \in DOMAIN t : c[(Len(d) + Len(e)) + i] = t[i]
  /\ \A i \in DOMAIN w : c[((Len(d) + Len(e)) + Len(t)) + i] = w[i]

LEMMA Joined ==
  ASSUME NEW S, NEW d \in Seq(S), NEW e \in Seq(S), NEW t \in Seq(S), NEW w \in Seq(S)
  PROVE  Parts(d, e, t, w, ((d \o e) \o t) \o w)
<1>1. PICK a : a = d \o e
  OBVIOUS
<1>2. PICK b : b = a \o t
  OBVIOUS
<1>3. PICK c : c = b \o w
  OBVIOUS
<1>4. a \in Seq(S) /\ Follows(d, e, a)
  BY <1>1, Following2
<1>5. b \in Seq(S) /\ Follows(a, t, b)
  BY <1>2, <1>4, Following2
<1>6. Follows(b, w, c)
  BY <1>3, <1>5, Following2
<1>7. Len(a) = Len(d) + Len(e) /\ Len(b) = Len(a) + Len(t) /\ Len(c) = Len(b) + Len(w)
  BY <1>4, <1>5, <1>6, Zenon DEF Follows
<1>8. \A i \in DOMAIN w : c[Len(b) + i] = w[i]
  BY <1>6, Zenon DEF Follows
<1>9. \A i \in DOMAIN t : c[Len(a) + i] = t[i]
  BY <1>5, <1>6, Zenon DEF Follows
<1>10. \A i \in DOMAIN a : c[i] = a[i]
  BY <1>5, <1>6, Zenon DEF Follows
<1>11. \A i \in DOMAIN d : c[i] = d[i]
  BY <1>4, <1>10, Zenon DEF Follows
<1>12. \A i \in DOMAIN e : c[Len(d) + i] = e[i]
  BY <1>4, <1>10, Zenon DEF Follows
<1>13. c = ((d \o e) \o t) \o w /\ b = (d \o e) \o t
  BY <1>1, <1>2, <1>3, Zenon
<1>14. Len(b) = (Len(d) + Len(e)) + Len(t)
  BY <1>7, Zenon
<1>15. Len(c) = ((Len(d) + Len(e)) + Len(t)) + Len(w)
  BY <1>7, <1>14, Zenon
<1>16. \A i \in DOMAIN t : c[(Len(d) + Len(e)) + i] = t[i]
  BY <1>7, <1>9, Zenon
<1>17. \A i \in DOMAIN w : c[((Len(d) + Len(e)) + Len(t)) + i] = w[i]
  BY <1>8, <1>14, Zenon
<1> HIDE <1>13
<1>18. Len(b) = (Len(d) + Len(e)) + Len(t) => Parts(d, e, t, w, c)
  BY <1>11, <1>12, <1>13, <1>15, <1>16, <1>17, Zenon DEF Parts
<1> QED BY <1>13, <1>14, <1>18, Zenon

LEMMA WayTokens ==
  ASSUME NEW n, NEW m, NEW w \in Ways(n, m)
  PROVE  /\ \E T : w.tokens \in Seq(T)
         /\ w.at \in {0, 4}
<1>1. w.at \in {0, 4}
  BY DEF Ways
<1>2. \E T : w.tokens \in Seq(T)
  <2>1. \A a : <<a>> \in Seq({a})
    OBVIOUS
  <2>2. \A a, b : <<a, b>> \in Seq({a, b})
    OBVIOUS
  <2>3. \A a, b, c, d, e : <<a, b, c, d, e>> \in Seq({a, b, c, d, e})
    OBVIOUS
  <2>4. \A a, b, c, d, e, f, g : <<a, b, c, d, e, f, g>> \in Seq({a, b, c, d, e, f, g})
    OBVIOUS
  <2>5. PICK h, ops : h = H /\ ops = asm.ops
    OBVIOUS
  <2>6. \/ w.tokens = <<2, n, 3, m, 1>>
        \/ w.tokens = <<SpecialFor(h, m, n)>>
        \/ w.tokens = <<8, SpecialFor(h, m, n - Most(h))>>
        \/ w.tokens = <<9, Offset(ops + n) - Offset(ops), 3, m, 1>>
        \/ w.tokens = <<0, 2, 2, Addr(asm.sec, Offset(ops + n)).v, 3, m, 1>>
    BY <2>5, WaysAre
  <2>7. CASE w.tokens = <<2, n, 3, m, 1>>
    <3>1. <<2, n, 3, m, 1>> \in Seq({2, n, 3, m, 1})
      BY <2>3
    <3> QED BY <2>7, <3>1
  <2>8. CASE w.tokens = <<SpecialFor(h, m, n)>>
    BY <2>1, <2>8, Zenon
  <2>9. CASE w.tokens = <<8, SpecialFor(h, m, n - Most(h))>>
    <3>1. <<8, SpecialFor(h, m, n - Most(h))>> \in Seq({8, SpecialFor(h, m, n - Most(h))})
      BY <2>2
    <3> QED BY <2>9, <3>1
  <2>10. CASE w.tokens = <<9, Offset(ops + n) - Offset(ops), 3, m, 1>>
    <3>1. <<9, Offset(ops + n) - Offset(ops), 3, m, 1>> \in Seq({9,
            Offset(ops + n) - Offset(ops), 3, m, 1})
      BY <2>3
    <3> QED BY <2>10, <3>1
  <2>11. CASE w.tokens = <<0, 2, 2, Addr(asm.sec, Offset(ops + n)).v, 3, m, 1>>
    <3>1. <<0, 2, 2, Addr(asm.sec, Offset(ops + n)).v, 3, m, 1>> \in Seq({0, 2, 2, Addr(asm.sec,
            Offset(ops + n)).v, 3, m, 1})
      BY <2>4
    <3> QED BY <2>11, <3>1
  <2> QED BY <2>6, <2>7, <2>8, <2>9, <2>10, <2>11
<1> QED BY <1>1, <1>2

LEMMA SeqGrows ==
  ASSUME NEW S, NEW T, S \subseteq T, NEW s \in Seq(S)
  PROVE  s \in Seq(T)
OBVIOUS

(* A program made of its parts is read from its first token.               *)
ProgramRead(c, rl, h, r, d, e, f, due) ==
  /\ Len(c) \in Nat
  /\ IF e = <<>> THEN FromNoise(c, rl, h, r, Len(d) + 1, due)
     ELSE /\ c[Len(d) + 1] = 4
          /\ FromNoise(c, rl, h, [r EXCEPT !.file = c[(Len(d) + 1) + 1]],
                       (Len(d) + 1) + 2, due)
  /\ d # <<>> => c[1] = 0 /\ c[2] = 2 /\ c[3] = 3 /\ c[4] = f /\ Len(d) = 4
  /\ d = <<>> => Len(d) = 0

(* A program made of a file, the choice of one, noise and the tokens w of   *)
(* a way, which are read from where they stand.                            *)
ProgramOf(c, rl, h, r, d, e, t, w, T, f, index, due) ==
  /\ t \in Seq(Nat) /\ index \in Nat /\ t = h.noise /\ w \in Seq(T)
  /\ d \in {<<>>, <<0, 2, 3, f>>}
  /\ IF e = <<>> THEN r = [r EXCEPT !.file = index] ELSE e = <<4, index>>
  /\ c = ((d \o e) \o t) \o w
  /\ \A q \in Nat : /\ q = Len((d \o e) \o t)
                    /\ Len(c) = q + Len(w) /\ \A i \in 1 .. Len(w) : c[q + i] = w[i]
                    => WayLeft(c, rl, h, [r EXCEPT !.file = index], q + 1, due)

LEMMA ProgramReads ==
  ASSUME NEW c, NEW rl, NEW h, NEW r, NEW d, NEW e, NEW t, NEW w, NEW T, NEW f,
         NEW index, NEW due, ProgramOf(c, rl, h, r, d, e, t, w, T, f, index, due)
  PROVE  ProgramRead(c, rl, h, r, d, e, f, due)
<1> USE DEF ProgramOf
<1>1. PICK S : S = Nat \cup T \cup {f}
  OBVIOUS
<1>2. d \in Seq(S) /\ e \in Seq(S) /\ t \in Seq(S) /\ w \in Seq(S)
  <2>1. t \in Seq(S) /\ w \in Seq(S)
    BY <1>1, SeqGrows
  <2>2. <<>> \in Seq(S) /\ <<4, index>> \in Seq(S) /\ <<0, 2, 3, f>> \in Seq(S)
    BY <1>1
  <2> QED BY <2>1, <2>2
<1>3. PICK ld \in Nat, le \in Nat, lt \in Nat, lw \in Nat :
        ld = Len(d) /\ le = Len(e) /\ lt = Len(t) /\ lw = Len(w)
  <2>1. Len(d) \in Nat /\ Len(e) \in Nat /\ Len(t) \in Nat /\ Len(w) \in Nat
    BY <1>2
  <2> QED BY <2>1, Zenon
<1>4. /\ Len((d \o e) \o t) = (ld + le) + lt
      /\ Len(c) = ((ld + le) + lt) + lw
      /\ \A i \in DOMAIN d : c[i] = d[i]
      /\ \A i \in DOMAIN e : c[ld + i] = e[i]
      /\ \A i \in DOMAIN t : c[(ld + le) + i] = t[i]
      /\ \A i \in DOMAIN w : c[((ld + le) + lt) + i] = w[i]
  <2>1. Parts(d, e, t, w, c)
    BY <1>2, Joined
  <2> QED BY <1>3, <2>1, Zenon DEF Parts
<1>5. (ld + le) + lt \in Nat /\ Len(c) \in Nat
  BY <1>4
<1>6. WayLeft(c, rl, h, [r EXCEPT !.file = index], ((ld + le) + lt) + 1, due)
  <2>1. DOMAIN w = 1 .. Len(w)
    BY <1>2
  <2> QED BY <1>3, <1>4, <1>5, <2>1, ZenonT(40)
<1>7. FromNoise(c, rl, h, [r EXCEPT !.file = index], (ld + le) + 1, due)
  <2>1. ((ld + le) + 1) - 1 = ld + le /\ ((ld + le) + lt) + 1 = ((ld + le) + 1) + lt
    BY ONLY ld \in Nat, le \in Nat, lt \in Nat
  <2>2. WayLeft(c, rl, h, [r EXCEPT !.file = index], ((ld + le) + 1) + Len(h.noise), due)
    BY <1>3, <1>6, <2>1, Zenon
  <2>3. \A i \in DOMAIN h.noise : c[(((ld + le) + 1) - 1) + i] = h.noise[i]
    BY <1>4, <2>1, Zenon
  <2> QED BY <2>2, <2>3, Zenon DEF FromNoise
<1>8. d # <<>> => c[1] = 0 /\ c[2] = 2 /\ c[3] = 3 /\ c[4] = f /\ Len(d) = 4
  <2> SUFFICES ASSUME d = <<0, 2, 3, f>>
               PROVE  c[1] = 0 /\ c[2] = 2 /\ c[3] = 3 /\ c[4] = f /\ Len(d) = 4
    OBVIOUS
  <2>1. /\ Len(d) = 4 /\ {1, 2, 3, 4} \subseteq DOMAIN d
        /\ d[1] = 0 /\ d[2] = 2 /\ d[3] = 3 /\ d[4] = f
    OBVIOUS
  <2> QED BY <1>4, <2>1
<1>9. d = <<>> => Len(d) = 0
  OBVIOUS
<1>10. CASE e = <<>>
  <2>1. le = 0
    BY <1>3, <1>10
  <2>2. (ld + le) + 1 = ld + 1
    BY ONLY ld \in Nat, <2>1
  <2>3. FromNoise(c, rl, h, r, ld + 1, due)
    BY <1>7, <1>10, <2>2, Zenon
  <2> QED BY <1>3, <1>5, <1>8, <1>9, <1>10, <2>3, Zenon DEF ProgramRead
<1>11. CASE e # <<>>
  <2>1. e = <<4, index>>
    BY <1>11
  <2>2. le = 2 /\ 1 \in DOMAIN e /\ 2 \in DOMAIN e /\ e[1] = 4 /\ e[2] = index
    BY <1>3, <2>1
  <2>3. c[ld + 1] = 4 /\ c[ld + 2] = index
    BY <1>4, <2>2
  <2>4. (ld + le) + 1 = (ld + 1) + 2 /\ (ld + 1) + 1 = ld + 2
    BY ONLY ld \in Nat, <2>2
  <2>5. FromNoise(c, rl, h, [r EXCEPT !.file = c[(ld + 1) + 1]], (ld + 1) + 2, due)
    BY <1>7, <2>3, <2>4, Zenon
  <2> QED BY <1>3, <1>5, <1>8, <1>9, <1>11, <2>3, <2>5, Zenon DEF ProgramRead
<1> QED BY <1>10, <1>11

LEMMA IdleStages ==
  ASSUME LineInv, Idle
  PROVE  IF asm.open THEN Waiting ELSE Resting
<1>1. pos \in Nat /\ Len(code) \in Nat /\ pos > Len(code)
  BY DEF LineInv, LineType, Idle
<1>2. ~(pos <= Len(code))
  BY <1>1
<1>3. ~Opening /\ ~Closing
  <2>1. Opening => pos = 1 /\ Len(code) = 4
    BY Zenon DEF Opening
  <2>2. Closing => (pos = 1 \/ pos = 3) /\ Len(code) = 5
    BY Zenon DEF Closing
  <2>3. ~(pos = 1 /\ Len(code) = 4) /\ ~((pos = 1 \/ pos = 3) /\ Len(code) = 5)
    BY <1>1
  <2> QED BY <2>1, <2>2, <2>3, Zenon
<1> QED BY <1>2, <1>3 DEF LineInv, Adding, Waiting, Resting

LEMMA FilesTyped ==
  ASSUME NEW h \in Headers
  PROVE  h.files \in Seq(Names) /\ h.names \subseteq Names
<1>1. h.files \in Seq(ToSet(h.files))
  BY HeadersFine DEF HeaderFacts
<1>2. ToSet(h.files) \subseteq Names /\ h.names \subseteq Names
  BY DEF Names
<1> QED BY <1>1, <1>2, SeqGrows

LEMMA StartUnitKeeps ==
  ASSUME LineInv, StartUnit
  PROVE  LineInv'
<1>1. PICK h \in Headers, bad \in elf.bad :
        /\ units' = Append(units, [h |-> h, bad |-> bad])
        /\ files' = h.files
        /\ asm' = [asm EXCEPT !.files = h.files]
  BY DEF StartUnit
<1>2. /\ Idle /\ ~asm.open /\ regs' = Reset
      /\ elf' = elf /\ left' = left /\ code' = code /\ pos' = pos /\ reloc' = reloc
      /\ rows' = rows /\ top' = top /\ meant' = meant
  BY DEF StartUnit
<1>3. LineType /\ Resting
  BY <1>2, IdleStages DEF LineInv
<1>4. asm' \in Sequence \cup [open : {FALSE}, files : Seq(Names)] /\ ~asm'.open
        /\ asm'.files = h.files
  <2>1. h.files \in Seq(Names)
    BY FilesTyped
  <2>2. asm \in Sequence \cup [open : {FALSE}, files : Seq(Names)]
    BY <1>3 DEF LineType
  <2>3. CASE asm \in Sequence
    BY <1>1, <1>2, <2>1, <2>3 DEF Sequence
  <2>4. CASE asm \in [open : {FALSE}, files : Seq(Names)]
    BY <1>1, <1>2, <2>1, <2>4
  <2> QED BY <2>2, <2>3, <2>4
<1>5. units' \in Seq(Units)
  <2>1. [h |-> h, bad |-> bad] \in Units
    BY <1>3 DEF Units, LineType
  <2>2. units \in Seq(Units)
    BY <1>3 DEF LineType
  <2> QED BY <1>1, <2>1, <2>2
<1>6. LineType'
  BY <1>2, <1>3, <1>4, <1>5 DEF LineType
<1>7. Resting'
  <2>1. Idle' /\ Ended' /\ Reset' = Reset
    BY <1>2, <1>3 DEF Idle, Ended, Resting, Reset
  <2> QED BY <1>1, <1>2, <1>3, <1>4, <2>1 DEF Resting
<1> QED BY <1>6, <1>7 DEF LineInv

LEMMA OpenSequenceKeeps ==
  ASSUME LineInv, OpenSequence
  PROVE  LineInv'
<1>1. PICK s \in Secs :
        /\ asm' = [open |-> TRUE, sec |-> s, start |-> top[s], ops |-> 0, line |-> 1,
                   file |-> 1, files |-> asm.files]
        /\ Asm(<<0, 2, 2, Addr(s, top[s]).v>>, 4)
  BY DEF OpenSequence
<1>2. /\ Idle /\ ~asm.open /\ units # <<>> /\ top' = top /\ meant' = meant
  BY DEF OpenSequence
<1>3. LineType /\ Resting
  BY <1>2, IdleStages DEF LineInv
<1>4. PICK v : v = Addr(s, top[s]).v
  OBVIOUS
<1>5. /\ code' = <<0, 2, 2, v>> /\ pos' = 1
      /\ reloc' = IF elf.kind = "rel" THEN [i \in {4} |-> s] ELSE <<>>
      /\ elf' = elf /\ units' = units /\ regs' = regs /\ files' = files /\ rows' = rows
  BY <1>1, <1>4 DEF Asm
<1>6. H' = H /\ HeaderFacts(H)
  BY <1>2, <1>3, <1>5, OwnHeader DEF H
<1>7. PICK h : h = H /\ HeaderFacts(h)
  BY <1>6
<1>8. top[s] \in Nat /\ Place[s] \in Nat
  BY <1>3, PlaceAssumption DEF LineType
<1>9. asm' \in Sequence /\ asm'.open
  <2>1. asm.files \in Seq(Names)
    BY <1>3 DEF LineType, Sequence
  <2> QED BY <1>1, <1>8, <2>1 DEF Sequence
<1>10. Origin' = v /\ v \in Nat /\ Home' = IF elf.kind = "rel" THEN s ELSE NoSec
  BY <1>1, <1>4, <1>5, <1>8 DEF Origin, Home, Addr
<1>11. At(h, v, 0) = v /\ 0 % h.max_ops = 0
  <2>1. PICK b \in Nat \ {0}, m \in Nat : b = h.max_ops /\ m = h.min_inst
    BY <1>7 DEF HeaderFacts
  <2>2. 0 \div b = 0 /\ 0 % b = 0 /\ v + m * 0 = v
    BY <1>10
  <2> QED BY <2>1, <2>2 DEF At
<1>12. Due' = Reg(Home', v, 0, 1, 1)
  <2>1. asm'.ops = 0 /\ asm'.file = 1 /\ asm'.line = 1
    BY <1>1
  <2>2. H' = h
    BY <1>6, <1>7
  <2> QED BY <1>10, <1>11, <2>1, <2>2 DEF Due
<1>13. Jump(regs, v, Home') = Due'
  <2>1. regs = Reg(NoSec, 0, 0, 1, 1)
    BY <1>3 DEF Resting, Reset, Reg
  <2> QED BY <1>12, <2>1, JumpReg
<1>14. (IF 4 \in DOMAIN reloc' THEN reloc'[4] ELSE regs.section) = Home'
  <2>1. regs.section = NoSec
    BY <1>3 DEF Resting, Reset
  <2>2. CASE elf.kind = "rel"
    BY <1>5, <1>10, <2>2
  <2>3. CASE elf.kind # "rel"
    BY <1>5, <1>10, <2>1, <2>3
  <2> QED BY <2>2, <2>3
<1>15. Len(code') = 4 /\ code'[1] = 0 /\ code'[2] = 2 /\ code'[3] = 2 /\ code'[4] = v
  BY <1>5
<1>16. Opening'
  <2>1. rows' = meant' /\ Ended' /\ files' = asm'.files
    BY <1>1, <1>2, <1>3, <1>5 DEF Resting, Ended
  <2>2. Jump(regs', code'[4], IF 4 \in DOMAIN reloc' THEN reloc'[4] ELSE regs'.section) = Due'
    BY <1>5, <1>13, <1>14, <1>15, Zenon
  <2> QED BY <1>5, <1>9, <1>15, <2>1, <2>2, Zenon DEF Opening
<1>17. LineType'
  <2>1. elf \in Images /\ units \in Seq(Units) /\ top \in [Secs -> Nat] /\ meant \in Seq(Rows)
          /\ rows \in Seq(Rows)
    BY <1>3 DEF LineType
  <2>2. pos' \in Nat /\ Len(code') \in Nat
    BY <1>5, <1>15
  <2> QED BY <1>2, <1>5, <1>9, <2>1, <2>2 DEF LineType
<1> QED BY <1>16, <1>17 DEF LineInv

EndsAs(s, a, b, l, x) ==
  [[section |-> s, address |-> a, line |-> l, file |-> x, end_sequence |-> FALSE]
     EXCEPT !.address = b, !.end_sequence = TRUE]
    = [section |-> s, address |-> b, line |-> l, file |-> x, end_sequence |-> TRUE]

LEMMA EndOf ==
  ASSUME NEW s, NEW a, NEW b, NEW l, NEW x
  PROVE  EndsAs(s, a, b, l, x)
<1>1. PICK r : r = [section |-> s, address |-> a, line |-> l, file |-> x, end_sequence |-> FALSE]
  OBVIOUS
<1> DEFINE e == [r EXCEPT !.address = b, !.end_sequence = TRUE]
           g == [section |-> s, address |-> b, line |-> l, file |-> x, end_sequence |-> TRUE]
<1>2. /\ DOMAIN r = {"section", "address", "line", "file", "end_sequence"}
      /\ r.section = s /\ r.line = l /\ r.file = x
  BY <1>1
<1>3. /\ DOMAIN g = {"section", "address", "line", "file", "end_sequence"}
      /\ g.section = s /\ g.address = b /\ g.line = l /\ g.file = x /\ g.end_sequence = TRUE
  OBVIOUS
<1>4. e = [i \in DOMAIN r |-> e[i]] /\ DOMAIN e = DOMAIN r
  OBVIOUS
<1>5. e.section = s /\ e.address = b /\ e.line = l /\ e.file = x /\ e.end_sequence = TRUE
  BY <1>2
<1>6. g = [i \in DOMAIN g |-> g[i]]
  OBVIOUS
<1>7. e = g
  <2> HIDE DEF e, g
  <2>1. \A i \in DOMAIN r : e[i] = g[i]
    BY <1>2, <1>3, <1>5
  <2> QED BY <1>2, <1>3, <1>4, <1>6, <2>1
<1> QED BY <1>1, <1>7, Zenon DEF EndsAs

LEMMA CloseSequenceKeeps ==
  ASSUME LineInv, CloseSequence
  PROVE  LineInv'
<1>1. /\ Idle /\ asm.open /\ meant # <<>> /\ ~Last(meant).end_sequence
  BY DEF CloseSequence
<1>2. LineType /\ Waiting
  BY <1>1, IdleStages DEF LineInv
<1>3. PICK h, ops : h = H /\ ops = asm.ops
  OBVIOUS
<1>4. HeaderFacts(h) /\ ops \in Nat /\ Origin \in Nat /\ H \in Headers
  BY <1>1, <1>2, <1>3, SequenceTyped
<1>5. PICK n : n = h.max_ops - (ops % h.max_ops)
  OBVIOUS
<1>6. n \in Nat
  <2>1. PICK b \in Nat \ {0} : b = h.max_ops
    BY <1>4 DEF HeaderFacts
  <2>2. PICK o \in 0 .. b - 1 : o = ops % b
    BY <1>4, <2>1, Division
  <2>3. b - o \in Nat
    BY <2>1, <2>2
  <2> QED BY <1>5, <2>1, <2>2, <2>3
<1>7. ops + n \in Nat
  BY <1>4, <1>6
<1>8. PICK end : end = Offset(ops + n)
  OBVIOUS
<1>9. /\ meant' = Append(meant, [Last(meant) EXCEPT !.address = Addr(asm.sec, end).v,
                                                    !.end_sequence = TRUE])
      /\ top' = IF asm.sec \in Discarded THEN top ELSE [top EXCEPT ![asm.sec] = end]
      /\ asm' = [asm EXCEPT !.open = FALSE]
      /\ Asm(<<2, n, 0, 1, 1>>, 0)
  BY <1>3, <1>5, <1>8 DEF CloseSequence
<1>10. /\ code' = <<2, n, 0, 1, 1>> /\ pos' = 1
       /\ elf' = elf /\ units' = units /\ regs' = regs /\ files' = files /\ rows' = rows
  BY <1>9 DEF Asm
<1>11. PICK g : g = At(h, Origin, ops + n)
  OBVIOUS
<1>12. Addr(asm.sec, end).v = g /\ g \in Nat /\ end \in Nat
  <2>1. Addr(asm.sec, end) = [v |-> g, sec |-> Home]
    BY <1>1, <1>2, <1>3, <1>7, <1>8, <1>11, AddrIs
  <2>2. g \in Nat
    BY <1>4, <1>7, <1>11, AtTyped
  <2>3. end \in Nat
    <3>1. (ops + n) \div h.max_ops \in Nat /\ h.min_inst \in Nat /\ asm.start \in Nat
      BY <1>1, <1>2, <1>4, <1>7, Division, SequenceTyped DEF HeaderFacts
    <3>2. h.min_inst * ((ops + n) \div h.max_ops) \in Nat
      BY <3>1
    <3> QED BY <1>3, <1>8, <3>1, <3>2 DEF Offset
  <2> QED BY <2>1, <2>2, <2>3
<1>13. PICK e, f, l : e = (ops + n) % h.max_ops /\ f = asm.file /\ l = asm.line
  OBVIOUS
<1>14. regs = Due /\ Due = Reg(Home, At(h, Origin, ops), ops % h.max_ops, f, l)
  BY <1>2, <1>3, <1>13, Zenon DEF Waiting, Due
<1>15. Advance(regs, h, n) = Reg(Home, g, e, f, l)
  <2>1. AdvanceAdds(h, Origin, ops, n, Home, f, l)
    BY <1>4, <1>6, Advanced
  <2> QED BY <1>11, <1>13, <1>14, <2>1, Zenon DEF AdvanceAdds
<1>16. Last(meant) = RowWith(Due, files, FALSE) /\ files = asm.files /\ rows = meant
  BY <1>1, <1>2 DEF Waiting, Ended
<1>17. [Last(meant) EXCEPT !.address = g, !.end_sequence = TRUE] =
         RowWith(Reg(Home, g, e, f, l), files, TRUE)
  <2>1. PICK x : x = FileOf(Len(units), files, f)
    OBVIOUS
  <2>2. RowWith(Reg(Home, g, e, f, l), files, TRUE)
          = [section |-> Home, address |-> g, line |-> l, file |-> x, end_sequence |-> TRUE]
    BY <2>1 DEF RowWith, Reg
  <2>3. PICK a : a = At(h, Origin, ops)
    OBVIOUS
  <2>4. Last(meant) = [section |-> Home, address |-> a, line |-> l, file |-> x,
          end_sequence |-> FALSE]
    <3>1. Due = Reg(Home, a, ops % h.max_ops, f, l)
      BY <1>14, <2>3
    <3>2. Due.section = Home /\ Due.address = a /\ Due.line = l /\ Due.file = f
      BY <3>1 DEF Reg
    <3> QED BY <1>16, <2>1, <3>2, Zenon DEF RowWith
  <2>5. [[section |-> Home, address |-> a, line |-> l, file |-> x, end_sequence |-> FALSE]
            EXCEPT !.address = g, !.end_sequence = TRUE]
          = [section |-> Home, address |-> g, line |-> l, file |-> x, end_sequence |-> TRUE]
    <3>1. EndsAs(Home, a, g, l, x)
      BY EndOf
    <3> QED BY <3>1, Zenon DEF EndsAs
  <2> QED BY <2>2, <2>4, <2>5, Zenon
<1>18. meant' = Append(rows', RowWith(Advance(regs, H, n), files, TRUE))
  BY <1>3, <1>9, <1>10, <1>12, <1>15, <1>16, <1>17, Zenon
<1>20. asm' \in Sequence /\ ~asm'.open /\ asm'.files = asm.files
  <2>1. asm \in Sequence
    BY <1>1, <1>2, SequenceTyped
  <2> QED BY <1>9, <2>1 DEF Sequence
<1>21. Closing'
  <2>1. /\ Len(code') = 5 /\ code'[1] = 2 /\ code'[2] = n /\ code'[3] = 0 /\ code'[4] = 1
        /\ code'[5] = 1
    BY <1>10
  <2>2. units' # <<>> /\ H' = H
    <3>1. units # <<>>
      BY <1>1, <1>2, SequenceTyped
    <3> QED BY <1>10, <3>1 DEF H
  <2>3. meant' = Append(rows', RowWith(Advance(regs, H, code[2]), files, TRUE)')
    <3>1. RowWith(Advance(regs, H, code[2]), files, TRUE)' =
            RowWith(Advance(regs, H, n), files, TRUE)
      BY <1>10, <2>1, <2>2, Zenon DEF RowWith, FileOf, CompDir, Metadata
    <3> QED BY <1>18, <3>1, Zenon
  <2> QED BY <1>10, <1>16, <1>20, <2>1, <2>2, <2>3, Zenon DEF Closing
<1>22. LineType'
  <2>1. /\ elf \in Images /\ units \in Seq(Units) /\ top \in [Secs -> Nat]
        /\ meant \in Seq(Rows) /\ rows \in Seq(Rows)
    BY <1>2 DEF LineType
  <2>2. pos' \in Nat /\ Len(code') \in Nat
    BY <1>10
  <2>3. top' \in [Secs -> Nat]
    BY <1>9, <1>12, <2>1
  <2>4. meant' \in Seq(Rows)
    <3>1. Last(meant) \in Rows
      <4>1. Len(meant) \in 1 .. Len(meant)
        BY <1>1, <2>1
      <4> QED BY <2>1, <4>1 DEF Last
    <3>2. [Last(meant) EXCEPT !.address = g, !.end_sequence = TRUE] \in Rows
      BY <1>12, <3>1 DEF Rows
    <3> QED BY <1>9, <1>12, <2>1, <3>2
  <2> QED BY <1>10, <1>20, <2>1, <2>2, <2>3, <2>4 DEF LineType
<1> QED BY <1>21, <1>22 DEF LineInv

(* The file of a row is one of those a unit may have.                      *)
LEMMA RowFileTyped ==
  ASSUME LineType, units # <<>>, NEW f \in Names
  PROVE  <<CompDir(Len(units)), f>> \in FileNames
<1>1. units[Len(units)].h \in Headers
  BY OwnHeader DEF H, Last
<1>2. CompDir(Len(units)) \in {NoDir} \cup {h.dir : h \in Headers}
  BY <1>1 DEF CompDir, Metadata
<1> QED BY <1>2 DEF FileNames

LEMMA AssembleRowKeeps ==
  ASSUME LineInv, AssembleRow
  PROVE  LineInv'
<1>1. Idle /\ asm.open /\ top' = top
  BY DEF AssembleRow
<1>2. LineType /\ Waiting
  BY <1>1, IdleStages DEF LineInv
<1>3. PICK n \in Advances, line \in Lines, f \in H.names \cup {NoFile} :
       LET known == f = NoFile \/ f \in {asm.files[i] : i \in DOMAIN asm.files}
           table == IF known THEN asm.files ELSE Append(asm.files, f)
           index == Index(table, f)
           to    == Addr(asm.sec, Offset(asm.ops + n))
           before == (IF known THEN <<>> ELSE <<0, 2, 3, f>>)
                       \o (IF index = asm.file THEN <<>> ELSE <<4, index>>) \o H.noise
       IN  /\ Offset(asm.ops + n) + H.min_inst <= Size[asm.sec]
           /\ \E w \in Ways(n, line - asm.line) :
                /\ asm' = [asm EXCEPT !.ops = @ + n, !.line = line, !.file = index,
                                      !.files = table]
                /\ Asm(before \o w.tokens, IF w.at = 0 THEN 0 ELSE Len(before) + w.at)
           /\ meant' = Append(meant,
                [section |-> to.sec, address |-> to.v, line |-> line, end_sequence |-> FALSE,
                 file |-> IF f = NoFile THEN NoFile ELSE <<CompDir(Len(units)), f>>])
  BY DEF AssembleRow
<1> DEFINE known == f = NoFile \/ f \in {asm.files[i] : i \in DOMAIN asm.files}
<1>4. PICK table : table = IF known THEN asm.files ELSE Append(asm.files, f)
  OBVIOUS
<1>5. PICK index : index = Index(table, f)
  OBVIOUS
<1>6. PICK d : d = IF known THEN <<>> ELSE <<0, 2, 3, f>>
  OBVIOUS
<1>7. PICK e : e = IF index = asm.file THEN <<>> ELSE <<4, index>>
  OBVIOUS
<1>8. PICK h, ops, m : h = H /\ ops = asm.ops /\ m = line - asm.line
  OBVIOUS
<1>9. PICK t : t = h.noise
  OBVIOUS
<1>10. PICK w \in Ways(n, m) :
         /\ asm' = [asm EXCEPT !.ops = @ + n, !.line = line, !.file = index, !.files = table]
         /\ Asm(((d \o e) \o t) \o w.tokens, IF w.at = 0 THEN 0 ELSE Len((d \o e) \o t) + w.at)
  BY <1>3, <1>4, <1>5, <1>6, <1>7, <1>8, <1>9, Zenon
<1>11. meant' = Append(meant,
         [section |-> Addr(asm.sec, Offset(ops + n)).sec,
          address |-> Addr(asm.sec, Offset(ops + n)).v,
          line |-> line, end_sequence |-> FALSE,
          file |-> IF f = NoFile THEN NoFile ELSE <<CompDir(Len(units)), f>>])
  BY <1>3, <1>8, Zenon
<1> HIDE <1>3
<1>12. /\ h \in Headers /\ HeaderFacts(h) /\ ops \in Nat /\ Origin \in Nat /\ n \in Nat
            /\ line \in Nat
       /\ t \in Seq(Nat) /\ asm \in Sequence /\ units # <<>>
  <2>1. n \in Nat /\ line \in Nat
    BY HeaderAssumption
  <2>2. /\ h \in Headers /\ HeaderFacts(h) /\ ops \in Nat /\ Origin \in Nat
        /\ asm \in Sequence /\ units # <<>>
    BY <1>1, <1>2, <1>8, SequenceTyped
  <2> QED BY <1>9, <2>1, <2>2 DEF HeaderFacts
<1>13. m \in Int /\ asm.line + m = line
  <2>1. PICK l \in Nat : l = asm.line
    BY <1>12 DEF Sequence
  <2>2. line - l \in Int /\ l + (line - l) = line
    BY ONLY <1>12, l \in Nat
  <2> QED BY <1>8, <2>1, <2>2
<1>14. table \in Seq(Names) /\ (f = NoFile \/ (f \in Names
         /\ f \in {table[i] : i \in DOMAIN table}))
  <2>1. asm.files \in Seq(Names)
    BY <1>12 DEF Sequence
  <2>2. f \in Names \cup {NoFile}
    BY <1>8, <1>12, FilesTyped
  <2>3. CASE known
    <3>1. table = asm.files
      BY <1>4, <2>3
    <3> QED BY <2>1, <2>2, <2>3, <3>1, Zenon
  <2>4. CASE ~known
    <3>1. table = Append(asm.files, f) /\ f \in Names
      BY <1>4, <2>2, <2>4
    <3>2. PICK k \in Nat : k = Len(asm.files)
      BY <2>1
    <3>3. table \in Seq(Names) /\ k + 1 \in DOMAIN table /\ table[k + 1] = f
      BY <2>1, <3>1, <3>2
    <3> QED BY <3>1, <3>3
  <2> QED BY <2>3, <2>4
<1>15. PICK x : x = IF f = NoFile THEN NoFile ELSE <<CompDir(Len(units)), f>>
  OBVIOUS
<1>16. index \in Nat /\ FileOf(Len(units), table, index) = x /\ x \in FileNames
  <2>1. index \in Nat /\ FileOf(Len(units), table, index) = x
    BY <1>2, <1>5, <1>12, <1>14, <1>15, IndexFinds, Zenon
  <2>2. f # NoFile => <<CompDir(Len(units)), f>> \in FileNames
    BY <1>2, <1>12, <1>14, RowFileTyped
  <2>3. NoFile \in FileNames
    BY DEF FileNames
  <2> QED BY <1>15, <2>1, <2>2, <2>3
<1> HIDE DEF known
<1>17. /\ elf' = elf /\ units' = units /\ regs' = regs /\ files' = files /\ rows' = rows
       /\ pos' = 1 /\ code' = ((d \o e) \o t) \o w.tokens
       /\ reloc' = IF (IF w.at = 0 THEN 0 ELSE Len((d \o e) \o t) + w.at) > 0 /\ elf.kind = "rel"
                   THEN [i \in {IF w.at = 0 THEN 0 ELSE Len((d \o e) \o t) + w.at} |-> asm'.sec]
                   ELSE <<>>
  BY <1>10, Zenon DEF Asm
<1>18. /\ asm' \in Sequence /\ asm'.open /\ asm'.sec = asm.sec /\ asm'.start = asm.start
       /\ asm'.ops = ops + n /\ asm'.line = line /\ asm'.file = index /\ asm'.files = table
  <2>1. asm.open /\ asm.ops + n \in Nat /\ ops = asm.ops
    BY <1>1, <1>8, <1>12
  <2> QED BY <1>10, <1>12, <1>14, <1>16, <2>1 DEF Sequence
<1>19. H' = h /\ Home' = Home /\ Origin' = Origin
  BY <1>8, <1>17, <1>18 DEF H, Home, Origin
<1> DEFINE r0 == Reg(Home, At(h, Origin, ops), ops % h.max_ops, asm.file, asm.line)
           r1 == Reg(Home, At(h, Origin, ops), ops % h.max_ops, index, asm.line)
           due == Reg(Home, At(h, Origin, ops + n), (ops + n) % h.max_ops, index, line)
<1>20. regs = r0 /\ [r0 EXCEPT !.file = index] = r1 /\ Due' = due
  <2>1. regs = r0
    BY <1>2, <1>8 DEF Waiting, Due
  <2>2. [r0 EXCEPT !.file = index] = r1
    BY DEF Reg
  <2>3. Due' = due
    BY <1>18, <1>19, Zenon DEF Due
  <2> QED BY <2>1, <2>2, <2>3
<1> HIDE DEF r0, r1, due
<1>21. ASSUME NEW q \in Nat, q = Len((d \o e) \o t),
              Len(code') = q + Len(w.tokens), \A i \in 1 .. Len(w.tokens) :
                code'[q + i] = w.tokens[i]
       PROVE  WayLeft(code', reloc', h, [r0 EXCEPT !.file = index], q + 1, due)
  <2>1. IF w.at # 0 /\ elf.kind = "rel" THEN reloc' =
          [i \in {q + w.at} |-> asm.sec] ELSE reloc' = <<>>
    <3>1. w.at \in {0, 4}
      BY WayTokens
    <3>2. CASE w.at = 0
      BY <1>17, <3>2
    <3>3. CASE w.at = 4
      <4>1. q + 4 > 0
        BY <1>21
      <4> QED BY <1>17, <1>18, <1>21, <3>3, <4>1
    <3> QED BY <3>1, <3>2, <3>3
  <2>2. m \in Int
    BY <1>13
  <2>3. WayLeft(code', reloc', H, Reg(Home, At(H, Origin, asm.ops), asm.ops % H.max_ops, index,
          asm.line),
                q + 1,
                Reg(Home, At(H, Origin, asm.ops + n), (asm.ops + n) % H.max_ops, index,
                  asm.line + m))
    BY <1>1, <1>2, <1>12, <1>21, <2>1, <2>2, WaysRight
  <2> QED BY <1>8, <1>13, <1>20, <2>3, Zenon DEF r1, due
<1>22. IF e = <<>> THEN r0 = [r0 EXCEPT !.file = index] ELSE e = <<4, index>>
  <2>1. CASE index = asm.file
    <3>1. r0 = r1 /\ e = <<>>
      BY <1>7, <2>1 DEF r0, r1
    <3> QED BY <1>20, <3>1
  <2>2. CASE index # asm.file
    <3>1. e = <<4, index>> /\ e # <<>>
      BY <1>7, <2>2
    <3> QED BY <3>1
  <2> QED BY <2>1, <2>2
<1>23. ProgramRead(code', reloc', h, r0, d, e, f, due)
  <2>1. PICK T : w.tokens \in Seq(T)
    BY WayTokens, Zenon
  <2>2. d \in {<<>>, <<0, 2, 3, f>>}
    BY <1>6
  <2>3. /\ t \in Seq(Nat) /\ index \in Nat /\ t = h.noise
        /\ code' = ((d \o e) \o t) \o w.tokens
    BY <1>9, <1>12, <1>16, <1>17
  <2>4. PICK y : y = w.tokens /\ y \in Seq(T) /\ code' = ((d \o e) \o t) \o y
    BY <2>1, <2>3
  <2>5. \A q \in Nat : /\ q = Len((d \o e) \o t)
                       /\ Len(code') = q + Len(y) /\ \A i \in 1 .. Len(y) : code'[q + i] = y[i]
                       => WayLeft(code', reloc', h, [r0 EXCEPT !.file = index], q + 1, due)
    BY <1>21, <2>4, Zenon
  <2>6. ProgramOf(code', reloc', h, r0, d, e, t, y, T, f, index, due)
    BY <1>22, <2>2, <2>3, <2>4, <2>5, Zenon DEF ProgramOf
  <2> QED BY <2>6, ProgramReads, Zenon
<1> DEFINE row == [section |-> Home, address |-> At(h, Origin, ops + n), line |-> line,
                   file |-> x, end_sequence |-> FALSE]
<1>24. meant' = Append(meant, row) /\ row \in Rows
  <2>1. PICK g : g = At(h, Origin, ops + n)
    OBVIOUS
  <2>2. Addr(asm.sec, Offset(ops + n)) = [v |-> g, sec |-> Home] /\ g \in Nat
    <3>1. ops + n \in Nat
      BY <1>12
    <3> QED BY <1>1, <1>2, <1>8, <1>12, <2>1, <3>1, AddrIs, AtTyped
  <2>3. Addr(asm.sec, Offset(ops + n)).v = g /\ Addr(asm.sec, Offset(ops + n)).sec = Home
    BY <2>2
  <2>4. meant' = Append(meant, [section |-> Home, address |-> g, line |-> line,
                                end_sequence |-> FALSE, file |-> x])
    BY <1>11, <1>15, <2>3, Zenon
  <2>5. [section |-> Home, address |-> g, line |-> line, end_sequence |-> FALSE, file |-> x]
          = [section |-> Home, address |-> g, line |-> line, file |-> x, end_sequence |-> FALSE]
    OBVIOUS
  <2>6. Home \in Secs \cup {NoSec}
    BY <1>12 DEF Home, Sequence
  <2>7. [section |-> Home, address |-> g, line |-> line, file |-> x,
          end_sequence |-> FALSE] \in Rows
    BY <1>12, <1>16, <2>2, <2>6 DEF Rows
  <2> QED BY <2>1, <2>4, <2>5, <2>7, Zenon
<1>25. LineType'
  <2>1. /\ elf \in Images /\ units \in Seq(Units) /\ top \in [Secs -> Nat]
        /\ meant \in Seq(Rows) /\ rows \in Seq(Rows)
    BY <1>2 DEF LineType
  <2>2. pos' \in Nat /\ Len(code') \in Nat
    BY <1>17, <1>23 DEF ProgramRead
  <2>3. meant' \in Seq(Rows)
    BY <1>24, <2>1
  <2> QED BY <1>1, <1>12, <1>17, <1>18, <2>1, <2>2, <2>3 DEF LineType
<1>26. meant' = Append(rows', RowWith(Due, asm.files, FALSE)')
  <2>1. RowWith(Due, asm.files, FALSE)'
          = [section |-> Due'.section, address |-> Due'.address, line |-> Due'.line,
             file |-> FileOf(Len(units), table, Due'.file), end_sequence |-> FALSE]
    BY <1>17, <1>18, Zenon DEF RowWith, FileOf, CompDir, Metadata
  <2>2. /\ Due'.section = Home /\ Due'.address = At(h, Origin, ops + n) /\ Due'.line = line
        /\ Due'.file = index
    <3>1. PICK a, b : a = At(h, Origin, ops + n) /\ b = (ops + n) % h.max_ops
      OBVIOUS
    <3>2. Due' = Reg(Home, a, b, index, line)
      BY <1>20, <3>1, Zenon DEF due
    <3> QED BY <3>1, <3>2 DEF Reg
  <2>3. RowWith(Due, asm.files, FALSE)' = row
    BY <1>16, <2>1, <2>2, Zenon
  <2>4. rows' = meant
    BY <1>2, <1>17 DEF Waiting
  <2> HIDE DEF row
  <2> QED BY <1>24, <2>3, <2>4, Zenon
<1>27. FromNoise(code', reloc', h, r0, 1, due) /\ files' = asm'.files => Skipping'
  <2>1. 1 \in Starts(h) /\ 1 = 0 + 1 /\ 0 \in Nat
    BY <1>12, NoiseSplit DEF SplitsNoise
  <2> QED BY <1>17, <1>19, <1>20, <2>1, Zenon DEF Skipping
<1>28. pos' <= Len(code') /\ (Len(d) = 4 => Len(code') >= 5)
  <2>1. PICK z \in Nat : z = Len(d)
    BY <1>6
  <2>2. PICK k \in Nat : k >= z + 1 /\ \E r : FromNoise(code', reloc', h, r, k, due)
    <3>1. z + 1 \in Nat /\ (z + 1) + 2 \in Nat /\ (z + 1) + 2 >= z + 1 /\ z + 1 >= z + 1
      BY ONLY z \in Nat
    <3> QED BY <1>23, <2>1, <3>1, Zenon DEF ProgramRead
  <2>3. PICK r : FromNoise(code', reloc', h, r, k, due)
    BY <2>2
  <2>4. PICK j \in Nat : j = Len(h.noise)
    BY <1>9, <1>12
  <2>5. k + j \in Nat /\ k + j >= z + 1 /\ k + j >= 1
    BY ONLY k \in Nat, j \in Nat, z \in Nat, <2>2
  <2>6. WayLeft(code', reloc', h, r, k + j, due)
    BY <2>3, <2>4, Zenon DEF FromNoise
  <2>7. PICK l \in Nat : l = Len(code')
    BY <1>23, Zenon DEF ProgramRead
  <2>8. k + j <= l
    BY <2>5, <2>6, <2>7, WayEnds
  <2>9. 1 <= l /\ (z = 4 => l >= 5)
    BY ONLY k \in Nat, j \in Nat, z \in Nat, l \in Nat, <2>5, <2>8
  <2>10. pos' = 1
    BY <1>17
  <2> QED BY <2>1, <2>7, <2>9, <2>10
<1>29. Defining' \/ Naming' \/ Skipping'
  <2>1. files = asm.files
    BY <1>2 DEF Waiting
  <2>2. CASE known
    <3>1. d = <<>> /\ files' = asm'.files /\ Len(d) = 0
      BY <1>4, <1>6, <1>17, <1>18, <2>1, <2>2
    <3>2. Len(d) + 1 = 1 /\ (Len(d) + 1) + 1 = 2 /\ (Len(d) + 1) + 2 = 3
      BY <3>1
    <3>3. CASE e = <<>>
      BY <1>23, <1>27, <3>1, <3>2, <3>3, Zenon DEF ProgramRead
    <3>4. CASE e # <<>>
      <4>1. /\ code'[1] = 4
            /\ FromNoise(code', reloc', h, [r0 EXCEPT !.file = code'[1 + 1]], 1 + 2, due)
        BY <1>23, <3>2, <3>4, Zenon DEF ProgramRead
      <4>2. Naming'
        BY <1>17, <1>19, <1>20, <3>1, <4>1, Zenon DEF Naming
      <4> QED BY <4>2
    <3> QED BY <3>3, <3>4
  <2>3. CASE ~known
    <3>1. d # <<>> /\ Append(files', f) = asm'.files
      BY <1>4, <1>6, <1>17, <1>18, <2>1, <2>3
    <3>2. code'[1] = 0 /\ code'[2] = 2 /\ code'[3] = 3 /\ code'[4] = f /\ Len(d) = 4
      BY <1>23, <3>1, Zenon DEF ProgramRead
    <3>3. Len(d) + 1 = 5
      BY <3>2
    <3>4. FromFile(code', reloc', h, r0, 5, due)
      BY <1>23, <3>3, Zenon DEF ProgramRead, FromFile
    <3>5. Len(code') >= 5
      BY <1>28, <3>2
    <3>6. Defining'
      BY <1>17, <1>19, <1>20, <3>1, <3>2, <3>4, <3>5, Zenon DEF Defining
    <3> QED BY <3>6
  <2> QED BY <2>2, <2>3
<1>30. Adding'
  BY <1>18, <1>26, <1>28, <1>29, Zenon DEF Adding
<1> QED BY <1>25, <1>30 DEF LineInv

LEMMA LineInitially ==
  ASSUME LineInit
  PROVE  LineInv
<1>1. /\ elf \in Images /\ units = <<>> /\ code = <<>> /\ pos = 1 /\ regs = Reset
      /\ files = <<>> /\ rows = <<>> /\ meant = <<>>
      /\ asm = [open |-> FALSE, files |-> <<>>] /\ top = [s \in Secs |-> 0]
  BY DEF LineInit
<1>2. ~asm.open /\ asm.files = <<>>
  BY <1>1, Zenon
<1>3. Resting
  <2>1. pos > Len(code)
    BY <1>1
  <2> QED BY <1>1, <1>2, <2>1, Zenon DEF Resting, Idle, Ended
<1>4. LineType
  <2>1. asm \in [open : {FALSE}, files : Seq(Names)]
    BY <1>1
  <2>2. top \in [Secs -> Nat] /\ units \in Seq(Units) /\ pos \in Nat /\ Len(code) \in Nat
    BY <1>1
  <2>3. meant \in Seq(Rows) /\ rows \in Seq(Rows)
    BY <1>1
  <2> QED BY <1>1, <1>2, <2>1, <2>2, <2>3 DEF LineType
<1> QED BY <1>3, <1>4, Zenon DEF LineInv

(* Everything the invariant is about, which is all of the line program but *)
(* what the image has left.                                                *)
lineState == <<elf, units, code, pos, reloc, regs, files, rows, asm, top, meant>>

LEMMA LineHeld ==
  ASSUME LineInv, UNCHANGED lineState
  PROVE  LineInv'
<1>1. /\ elf' = elf /\ units' = units /\ code' = code /\ pos' = pos /\ reloc' = reloc
      /\ regs' = regs /\ files' = files /\ rows' = rows /\ asm' = asm /\ top' = top
      /\ meant' = meant
  BY DEF lineState
<1>2. H' = H /\ Home' = Home /\ Origin' = Origin
  BY <1>1, Zenon DEF H, Home, Origin
<1>3. Due' = Due
  BY <1>1, <1>2, Zenon DEF Due
<1>4. RowWith(Due, asm.files, FALSE)' = RowWith(Due, asm.files, FALSE)
  BY <1>1, <1>3, Zenon DEF RowWith, FileOf, CompDir, Metadata
<1>5. LineType'
  BY <1>1 DEF LineInv, LineType
<1>6. Ended' = Ended /\ Idle' = Idle
  BY <1>1, Zenon DEF Ended, Idle
<1>7. CASE Resting
  <2>1. Resting'
    BY <1>1, <1>6, <1>7, Zenon DEF Resting, Reset
  <2> QED BY <1>5, <2>1, Zenon DEF LineInv
<1>8. CASE Opening
  <2>1. Opening'
    BY <1>1, <1>3, <1>6, <1>8, Zenon DEF Opening, Jump
  <2> QED BY <1>5, <2>1, Zenon DEF LineInv
<1>9. CASE Waiting
  <2>1. Waiting'
    BY <1>1, <1>3, <1>4, <1>6, <1>9, Zenon DEF Waiting
  <2> QED BY <1>5, <2>1, Zenon DEF LineInv
<1>10. CASE Adding
  <2>1. Defining' = Defining
    BY <1>1, <1>2, <1>3, Zenon DEF Defining
  <2>2. Naming' = Naming
    BY <1>1, <1>2, <1>3, Zenon DEF Naming
  <2>3. Skipping' = Skipping
    BY <1>1, <1>2, <1>3, Zenon DEF Skipping
  <2>4. Saying' = Saying
    BY <1>1, <1>2, <1>3, Zenon DEF Saying
  <2>5. Adding'
    BY <1>1, <1>4, <1>10, <2>1, <2>2, <2>3, <2>4, Zenon DEF Adding
  <2> QED BY <1>5, <2>5, Zenon DEF LineInv
<1>11. CASE Closing
  <2>1. /\ RowWith(Advance(regs, H, code[2]), files, TRUE)' =
             RowWith(Advance(regs, H, code[2]), files, TRUE)
        /\ RowWith(regs, files, TRUE)' = RowWith(regs, files, TRUE)
    BY <1>1, <1>2, Zenon DEF RowWith, FileOf, CompDir, Metadata
  <2>2. Closing'
    BY <1>1, <1>11, <2>1, Zenon DEF Closing
  <2> QED BY <1>5, <2>2, Zenon DEF LineInv
<1> QED BY <1>7, <1>8, <1>9, <1>10, <1>11 DEF LineInv

LEMMA LineStep ==
  ASSUME LineInv, [Next]_vars
  PROVE  LineInv'
<1>1. CASE StartUnit
  BY <1>1, StartUnitKeeps
<1>2. CASE OpenSequence
  BY <1>2, OpenSequenceKeeps
<1>3. CASE AssembleRow
  BY <1>3, AssembleRowKeeps
<1>4. CASE CloseSequence
  BY <1>4, CloseSequenceKeeps
<1>5. CASE Decodes
  BY <1>5, DecodesKeeps
<1>6. CASE WalkUnit \/ Inventory \/ UNCHANGED vars
  <2>1. UNCHANGED lineState
    BY <1>6 DEF WalkUnit, Inventory, vars, lineVars, lineState
  <2> QED BY <2>1, LineHeld
<1> QED BY <1>1, <1>2, <1>3, <1>4, <1>5, <1>6, Zenon DEF Next, Assembles

(* Wherever the assembler and the reader are, the reader's registers and   *)
(* rows are those the assembler meant of what has been read, and what has  *)
(* not been read leads to the row that is due.                             *)
THEOREM LineInvariant == Spec => []LineInv
<1>1. Init => LineInv
  BY LineInitially DEF Init
<1>2. LineInv /\ [Next]_vars => LineInv'
  BY LineStep
<1> QED BY <1>1, <1>2, PTL DEF Spec

(* Whatever opcodes a line program is written with, the reader ends up     *)
(* with the rows the assembler meant: see RowsExact.                       *)
THEOREM RowsExactCorrect == Spec => []RowsExact
<1>1. LineInv => RowsExact
  BY IdleStages DEF RowsExact, Waiting, Resting
<1> QED BY <1>1, LineInvariant, PTL

-----------------------------------------------------------------------------
(* The call sites.  A list of ranges is read entry by entry.               *)

Ends5(r)    == [kind |-> "ends", x |-> From(r), y |-> To(r)]
Length5(r)  == [kind |-> "length", x |-> From(r), y |-> Number(r.end - r.start)]
Base5(r)    == [kind |-> "base", x |-> Addr(r.sec, 0), y |-> Null]
Pair5(r)    == [kind |-> "pair", x |-> Number(r.start), y |-> Number(r.end)]
Near5(r, b) == [kind |-> "pair", x |-> Number(From(r).v - b.v), y |-> Number(To(r).v - b.v)]
Ends4(r)    == [x |-> From(r), y |-> To(r)]
Base4(r)    == [x |-> Number(Top), y |-> Addr(r.sec, 0)]
Pair4(r)    == [x |-> Number(r.start), y |-> Number(r.end)]
Near4(r, b) == [x |-> Number(From(r).v - b.v), y |-> Number(To(r).v - b.v)]
End4        == <<[x |-> Null, y |-> Null]>>

Forms5(rs, b, list) ==
  \/ list = [i \in DOMAIN rs |-> Ends5(rs[i])]
  \/ list = [i \in DOMAIN rs |-> Length5(rs[i])]
  \/ list = FlattenSeq([i \in DOMAIN rs |-> <<Base5(rs[i]), Pair5(rs[i])>>])
  \/ Within(rs, b) /\ list = [i \in DOMAIN rs |-> Near5(rs[i], b)]

LEMMA ListsAre5 ==
  ASSUME NEW rs, NEW version, version >= 5, NEW b, NEW list \in Lists(rs, version, b)
  PROVE  Forms5(rs, b, list)
BY Zenon DEF Lists, Ends5, Length5, Base5, Pair5, Near5, Forms5

Forms4(rs, b, list) ==
  /\ Writable(list)
  /\ \/ elf.kind = "rel" /\ list = [i \in DOMAIN rs |-> Ends4(rs[i])] \o End4
     \/ list = FlattenSeq([i \in DOMAIN rs |-> <<Base4(rs[i]), Pair4(rs[i])>>]) \o End4
     \/ Within(rs, b) /\ list = [i \in DOMAIN rs |-> Near4(rs[i], b)] \o End4

LEMMA ListsAre4 ==
  ASSUME NEW rs, NEW version, ~(version >= 5), NEW b, NEW list \in Lists(rs, version, b)
  PROVE  Forms4(rs, b, list)
BY DEF Lists, Ends4, Base4, Pair4, Near4, End4, Forms4

(* The folds that read a list, entry by entry.                             *)
Entered(v, acc, e) == IF v >= 5 THEN RngEntry(acc, e) ELSE PairEntry(acc, e)
Acc(v, x, o) == IF v >= 5 THEN [base |-> x, out |-> o]
                ELSE [base |-> x, out |-> o, ended |-> FALSE]
Upto(v, list, b, m, it) ==
  it = [s \in SUBSET (1 .. m) |->
          IF s = {} THEN b ELSE Entered(v, it[s \ {Max(s)}], list[Max(s)])]

LEMMA MaxIs ==
  ASSUME NEW m \in Nat, NEW s \in SUBSET (1 .. m), m \in s
  PROVE  Max(s) = m
<1>1. \A y \in s : m >= y
  OBVIOUS
<1>2. \A x \in s : (\A y \in s : x >= y) => x = m
  OBVIOUS
<1> QED BY <1>1, <1>2 DEF Max

LEMMA UptoExists ==
  ASSUME NEW v, NEW list, NEW b, NEW n \in Nat
  PROVE  \E it : Upto(v, list, b, n, it)
<1> DEFINE G == {m \in Nat : \E it : Upto(v, list, b, m, it)}
<1>1. 0 \in G
  <2> DEFINE it == [s \in SUBSET (1 .. 0) |-> b]
  <2>1. SUBSET (1 .. 0) = {{}}
    OBVIOUS
  <2>2. it = [s \in SUBSET (1 .. 0) |->
                IF s = {} THEN b ELSE Entered(v, it[s \ {Max(s)}], list[Max(s)])]
    BY <2>1
  <2> HIDE DEF it
  <2> QED BY <2>2 DEF Upto
<1>2. ASSUME NEW m \in Nat, m \in G
      PROVE  m + 1 \in G
  <2>1. PICK it : Upto(v, list, b, m, it)
    BY <1>2
  <2> DEFINE g == [s \in SUBSET (1 .. m + 1) |->
                     IF m + 1 \in s THEN Entered(v, it[s \ {m + 1}], list[m + 1]) ELSE it[s]]
             h == [s \in SUBSET (1 .. m + 1) |->
                     IF s = {} THEN b ELSE Entered(v, g[s \ {Max(s)}], list[Max(s)])]
  <2>2. ASSUME NEW s \in SUBSET (1 .. m + 1)
        PROVE  g[s] = h[s]
    <3>1. CASE m + 1 \in s
      <4>1. Max(s) = m + 1
        BY <3>1, MaxIs
      <4>2. s \ {m + 1} \in SUBSET (1 .. m + 1) /\ m + 1 \notin s \ {m + 1} /\ s # {}
        BY <3>1
      <4>3. g[s \ {m + 1}] = it[s \ {m + 1}]
        BY <4>2, Zenon
      <4> QED BY <3>1, <4>1, <4>2, <4>3, Zenon
    <3>2. CASE m + 1 \notin s
      <4>1. s \in SUBSET (1 .. m)
        BY <3>2
      <4>2. it[s] = IF s = {} THEN b ELSE Entered(v, it[s \ {Max(s)}], list[Max(s)])
        BY <2>1, <4>1, Zenon DEF Upto
      <4>3. s \ {Max(s)} \in SUBSET (1 .. m + 1) /\ m + 1 \notin s \ {Max(s)}
        BY <3>2
      <4>4. g[s \ {Max(s)}] = it[s \ {Max(s)}]
        BY <4>3, Zenon
      <4> QED BY <3>2, <4>2, <4>4, Zenon
    <3> QED BY <3>1, <3>2
  <2>3. g = h
    BY <2>2, Zenon
  <2> HIDE DEF g
  <2>4. Upto(v, list, b, m + 1, g)
    BY <2>3, Zenon DEF Upto
  <2> QED BY <2>4
<1> HIDE DEF G
<1>3. n \in G
  BY <1>1, <1>2, UpFromZero
<1> QED BY <1>3 DEF G

(* Reading the first m entries, and one more.                              *)
Folded(v, list, b, n, it) ==
  /\ it[1 .. 0] = b
  /\ \A m \in Nat : m < n => it[1 .. m + 1] = Entered(v, it[1 .. m], list[m + 1])

LEMMA UptoStep ==
  ASSUME NEW v, NEW list, NEW b, NEW n \in Nat, NEW it, Upto(v, list, b, n, it)
  PROVE  Folded(v, list, b, n, it)
<1>1. it[1 .. 0] = b
  <2>1. 1 .. 0 = {} /\ 1 .. 0 \in SUBSET (1 .. n)
    OBVIOUS
  <2> QED BY <2>1, Zenon DEF Upto
<1>2. ASSUME NEW m \in Nat, m < n
      PROVE  it[1 .. m + 1] = Entered(v, it[1 .. m], list[m + 1])
  <2> DEFINE s == 1 .. m + 1
  <2>1. s \in SUBSET (1 .. n) /\ s # {} /\ s \ {m + 1} = 1 .. m
    BY <1>2
  <2>2. Max(s) = m + 1
    BY MaxIs
  <2> HIDE DEF s
  <2>3. it[s] = Entered(v, it[s \ {Max(s)}], list[Max(s)])
    BY <2>1, Zenon DEF Upto
  <2>4. it[s] = Entered(v, it[1 .. m], list[m + 1])
    BY <2>1, <2>2, <2>3, Zenon
  <2> QED BY <2>4 DEF s
<1> QED BY <1>1, <1>2, Zenon DEF Folded

LEMMA RngListFolds ==
  ASSUME NEW list, NEW n \in Nat, DOMAIN list = 1 .. n, NEW base
  PROVE  \E it : Upto(5, list, Acc(5, base, <<>>), n, it) /\ RngList(list, base) = it[1 .. n].out
<1> DEFINE b == [base |-> base, out |-> <<>>]
           P(it) == it = [s \in SUBSET (1 .. n) |->
                            IF s = {} THEN b ELSE RngEntry(it[s \ {Max(s)}], list[Max(s)])]
           read == CHOOSE it : P(it)
<1>1. RngList(list, base) = read[1 .. n].out
  BY Zenon DEF RngList, FoldLeft, MapThenFoldSet
<1>2. Acc(5, base, <<>>) = b
  BY DEF Acc
<1>3. \A acc, e : Entered(5, acc, e) = RngEntry(acc, e)
  BY DEF Entered
<1>4. ASSUME NEW it
      PROVE  Upto(5, list, b, n, it) <=> P(it)
  <2> DEFINE f == [s \in SUBSET (1 .. n) |->
                     IF s = {} THEN b ELSE Entered(5, it[s \ {Max(s)}], list[Max(s)])]
             g == [s \in SUBSET (1 .. n) |->
                     IF s = {} THEN b ELSE RngEntry(it[s \ {Max(s)}], list[Max(s)])]
  <2>1. \A s \in SUBSET (1 .. n) : f[s] = g[s]
    BY <1>3, Zenon
  <2>2. f = g
    BY <2>1, Zenon
  <2> HIDE DEF b
  <2> QED BY <2>2, Zenon DEF Upto
<1>5. P(read)
  <2>1. \E it : P(it)
    BY <1>4, UptoExists, Zenon
  <2> QED BY <2>1
<1> QED BY <1>1, <1>2, <1>4, <1>5, Zenon

LEMMA PairListFolds ==
  ASSUME NEW list, NEW n \in Nat, DOMAIN list = 1 .. n, NEW base
  PROVE  \E it : Upto(4, list, Acc(4, base, <<>>), n, it) /\ PairList(list, base) = it[1 .. n].out
<1> DEFINE b == [base |-> base, out |-> <<>>, ended |-> FALSE]
           P(it) == it = [s \in SUBSET (1 .. n) |->
                            IF s = {} THEN b ELSE PairEntry(it[s \ {Max(s)}], list[Max(s)])]
           read == CHOOSE it : P(it)
<1>1. PairList(list, base) = read[1 .. n].out
  BY Zenon DEF PairList, FoldLeft, MapThenFoldSet
<1>2. Acc(4, base, <<>>) = b
  BY DEF Acc
<1>3. \A acc, e : Entered(4, acc, e) = PairEntry(acc, e)
  BY DEF Entered
<1>4. ASSUME NEW it
      PROVE  Upto(4, list, b, n, it) <=> P(it)
  <2> DEFINE f == [s \in SUBSET (1 .. n) |->
                     IF s = {} THEN b ELSE Entered(4, it[s \ {Max(s)}], list[Max(s)])]
             g == [s \in SUBSET (1 .. n) |->
                     IF s = {} THEN b ELSE PairEntry(it[s \ {Max(s)}], list[Max(s)])]
  <2>1. \A s \in SUBSET (1 .. n) : f[s] = g[s]
    BY <1>3, Zenon
  <2>2. f = g
    BY <2>1, Zenon
  <2> HIDE DEF b
  <2> QED BY <2>2, Zenon DEF Upto
<1>5. P(read)
  <2>1. \E it : P(it)
    BY <1>4, UptoExists, Zenon
  <2> QED BY <2>1
<1> QED BY <1>1, <1>2, <1>4, <1>5, Zenon

(* What the ranges read so far say, and one more.                          *)
Was(r) == Raw(From(r), To(r).v)
Part(rs, m) == [i \in 1 .. m |-> Was(rs[i])]

LEMMA PartGrows ==
  ASSUME NEW rs
  PROVE  /\ Part(rs, 0) = <<>>
         /\ \A m \in Nat : Append(Part(rs, m), Was(rs[m + 1])) = Part(rs, m + 1)
<1>1. Part(rs, 0) = <<>>
  BY DEF Part
<1>2. ASSUME NEW m \in Nat
      PROVE  Append(Part(rs, m), Was(rs[m + 1])) = Part(rs, m + 1)
  <2>1. PICK S : S = {Was(rs[i]) : i \in 1 .. m + 1}
    OBVIOUS
  <2>2. Part(rs, m) \in Seq(S) /\ Len(Part(rs, m)) = m /\ Part(rs, m + 1) \in Seq(S)
    BY <2>1 DEF Part
  <2> QED BY <2>2 DEF Part
<1> QED BY <1>1, <1>2

\* Entry m + 1 says what range m + 1 is, whatever was read before it.
Adds(v, b, list, rs, m) ==
  \A o : Entered(v, Acc(v, b, o), list[m + 1]) = Acc(v, b, Append(o, Was(rs[m + 1])))
\* The entries 2m + 1 and 2m + 2 do.
AddsByTwo(v, list, rs, m) ==
  \A o, x : \E y : Entered(v, Entered(v, Acc(v, x, o), list[2 * m + 1]), list[(2 * m + 1) + 1])
                     = Acc(v, y, Append(o, Was(rs[m + 1])))

ReadByTwo(v, rs, n, it) == \E x : it[1 .. 2 * n] = Acc(v, x, Part(rs, n))
AllByTwo(v, list, rs, n) == \A m \in Nat : m < n => AddsByTwo(v, list, rs, m)

LEMMA OneRead ==
  ASSUME NEW v, NEW list, NEW b, NEW rs, NEW n \in Nat, NEW l \in Nat, n <= l, NEW it,
         Upto(v, list, Acc(v, b, <<>>), l, it),
         \A m \in Nat : m < n => Adds(v, b, list, rs, m)
  PROVE  it[1 .. n] = Acc(v, b, Part(rs, n))
<1> DEFINE G == {m \in Nat : m <= n => it[1 .. m] = Acc(v, b, Part(rs, m))}
<1>1. /\ it[1 .. 0] = Acc(v, b, <<>>)
      /\ \A m \in Nat : m < l => it[1 .. m + 1] = Entered(v, it[1 .. m], list[m + 1])
  <2>1. Folded(v, list, Acc(v, b, <<>>), l, it)
    BY UptoStep
  <2> QED BY <2>1, Zenon DEF Folded
<1>2. 0 \in G
  <2>1. it[1 .. 0] = Acc(v, b, Part(rs, 0))
    BY <1>1, PartGrows, Zenon
  <2> QED BY <2>1
<1>3. ASSUME NEW m \in Nat, m < n, m \in G
      PROVE  m + 1 \in G
  <2>1. it[1 .. m] = Acc(v, b, Part(rs, m)) /\ m < l
    BY <1>3
  <2>2. it[1 .. m + 1] = Entered(v, Acc(v, b, Part(rs, m)), list[m + 1])
    BY <1>1, <2>1, Zenon
  <2>3. Adds(v, b, list, rs, m)
    BY <1>3
  <2>4. it[1 .. m + 1] = Acc(v, b, Part(rs, m + 1))
    BY <2>2, <2>3, PartGrows, Zenon DEF Adds
  <2> QED BY <2>4
<1> HIDE DEF G
<1>4. n \in G
  BY <1>2, <1>3, UpFromZero
<1> QED BY <1>4 DEF G

LEMMA TwoRead ==
  ASSUME NEW v, NEW list, NEW b, NEW rs, NEW n \in Nat, NEW l \in Nat, 2 * n <= l, NEW it,
         Upto(v, list, Acc(v, b, <<>>), l, it), AllByTwo(v, list, rs, n)
  PROVE  ReadByTwo(v, rs, n, it)
<1> USE DEF AllByTwo, ReadByTwo
<1> DEFINE G == {m \in Nat : m <= n => \E x : it[1 .. 2 * m] = Acc(v, x, Part(rs, m))}
<1>1. /\ it[1 .. 0] = Acc(v, b, <<>>)
      /\ \A m \in Nat : m < l => it[1 .. m + 1] = Entered(v, it[1 .. m], list[m + 1])
  <2>1. Folded(v, list, Acc(v, b, <<>>), l, it)
    BY UptoStep
  <2> QED BY <2>1, Zenon DEF Folded
<1>2. 0 \in G
  <2>1. it[1 .. 0] = Acc(v, b, Part(rs, 0))
    BY <1>1, PartGrows, Zenon
  <2> QED BY <2>1
<1>3. ASSUME NEW m \in Nat, m < n, m \in G
      PROVE  m + 1 \in G
  <2>1. PICK x : it[1 .. 2 * m] = Acc(v, x, Part(rs, m))
    BY <1>3
  <2>2. 2 * m \in Nat /\ 2 * m < l /\ 2 * m + 1 \in Nat /\ 2 * m + 1 < l
        /\ (2 * m + 1) + 1 = 2 * (m + 1)
    BY <1>3
  <2>3. it[1 .. (2 * m + 1) + 1]
          = Entered(v, Entered(v, Acc(v, x, Part(rs, m)), list[2 * m + 1]), list[(2 * m + 1) + 1])
    BY <1>1, <2>1, <2>2, Zenon
  <2>4. AddsByTwo(v, list, rs, m)
    BY <1>3
  <2>5. \E y : it[1 .. (2 * m + 1) + 1] = Acc(v, y, Part(rs, m + 1))
    <3>1. PICK y :
            Entered(v, Entered(v, Acc(v, x, Part(rs, m)), list[2 * m + 1]), list[(2 * m + 1) + 1])
              = Acc(v, y, Append(Part(rs, m), Was(rs[m + 1])))
      BY <2>4, Zenon DEF AddsByTwo
    <3> QED BY <2>3, <3>1, PartGrows, Zenon
  <2>6. \E y : it[1 .. 2 * (m + 1)] = Acc(v, y, Part(rs, m + 1))
    BY <2>2, <2>5, Zenon
  <2> QED BY <2>6
<1> HIDE DEF G
<1>4. n \in G
  BY <1>2, <1>3, UpFromZero
<1> QED BY <1>4 DEF G

(* A flattened list of pairs.                                              *)
LEMMA PairsFlat ==
  ASSUME NEW S, NEW t \in Seq(Seq(S)), Len(t) >= 1, \A i \in 1 .. Len(t) : Len(t[i]) = 2
  PROVE  /\ FlattenSeq(t) \in Seq(S) /\ Len(FlattenSeq(t)) = 2 * Len(t)
         /\ \A k \in Nat : k < Len(t) => /\ FlattenSeq(t)[2 * k + 1] = t[k + 1][1]
                                         /\ FlattenSeq(t)[(2 * k + 1) + 1] = t[k + 1][2]
<1>1. PICK n \in Nat : n = Len(t)
  OBVIOUS
<1>2. PICK f : Flattening(t, n, f) /\ FlattenSeq(t) = f[n]
  BY <1>1, FlattenUnfolds
<1>3. /\ f[1] = t[1]
      /\ \A m \in Nat : 1 <= m /\ m < n => f[m + 1] = f[m] \o t[m + 1]
  <2>1. Grows(t, n, f)
    BY <1>2, PrefixStep
  <2> QED BY <1>1, <2>1 DEF Grows
<1> DEFINE Flat(m) == /\ f[m] \in Seq(S) /\ Len(f[m]) = 2 * m
                      /\ \A k \in Nat : k < m => /\ f[m][2 * k + 1] = t[k + 1][1]
                                                 /\ f[m][(2 * k + 1) + 1] = t[k + 1][2]
           G == {m \in Nat : m <= n => Flat(m)}
<1>4. 1 \in G
  <2>1. t[1] \in Seq(S) /\ Len(t[1]) = 2
    BY <1>1
  <2>2. f[1] \in Seq(S) /\ Len(f[1]) = 2 * 1
    BY <1>3, <2>1
  <2>3. \A k \in Nat : k < 1 => k = 0 /\ 2 * k + 1 = 1 /\ (2 * k + 1) + 1 = 2 /\ k + 1 = 1
    OBVIOUS
  <2>4. Flat(1)
    BY <1>3, <2>2, <2>3, Zenon
  <2> QED BY <2>4
<1>5. ASSUME NEW m \in Nat, 1 <= m, m < n, m \in G
      PROVE  m + 1 \in G
  <2>1. /\ f[m] \in Seq(S) /\ Len(f[m]) = 2 * m
        /\ \A k \in Nat : k < m => /\ f[m][2 * k + 1] = t[k + 1][1]
                                   /\ f[m][(2 * k + 1) + 1] = t[k + 1][2]
    BY <1>5
  <2>2. t[m + 1] \in Seq(S) /\ Len(t[m + 1]) = 2
    BY <1>1, <1>5
  <2>3. f[m + 1] = f[m] \o t[m + 1]
    BY <1>3, <1>5
  <2>4. PICK p, q : p = f[m] /\ q = t[m + 1]
    OBVIOUS
  <2>5. /\ p \o q \in Seq(S) /\ Len(p \o q) = Len(p) + Len(q)
        /\ \A i \in DOMAIN p : (p \o q)[i] = p[i]
        /\ \A i \in DOMAIN q : (p \o q)[Len(p) + i] = q[i]
    <3>1. p \in Seq(S) /\ q \in Seq(S)
      BY <2>1, <2>2, <2>4
    <3> QED BY <3>1, Concatenated, SMTT(20)
  <2>6. DOMAIN p = 1 .. 2 * m /\ DOMAIN q = {1, 2} /\ Len(p) = 2 * m /\ Len(q) = 2
    BY <2>1, <2>2, <2>4
  <2>7. f[m + 1] \in Seq(S) /\ Len(f[m + 1]) = 2 * (m + 1)
    BY <2>3, <2>4, <2>5, <2>6
  <2>8. ASSUME NEW k \in Nat, k < m + 1
        PROVE  /\ f[m + 1][2 * k + 1] = t[k + 1][1]
               /\ f[m + 1][(2 * k + 1) + 1] = t[k + 1][2]
    <3>1. CASE k = m
      <4>1. /\ (p \o q)[2 * m + 1] = q[1] /\ (p \o q)[2 * m + 2] = q[2]
            /\ 2 * m + 2 = (2 * m + 1) + 1
        BY <2>5, <2>6, SMTT(20)
      <4> QED BY <2>3, <2>4, <3>1, <4>1, Zenon
    <3>2. CASE k # m
      <4>1. k < m /\ 2 * k + 1 \in 1 .. 2 * m /\ (2 * k + 1) + 1 \in 1 .. 2 * m
        BY ONLY k \in Nat, m \in Nat, <2>8, <3>2
      <4> QED BY <2>1, <2>3, <2>4, <2>5, <2>6, <4>1, ZenonT(40)
    <3> QED BY <3>1, <3>2
  <2>9. Flat(m + 1)
    BY <2>7, <2>8, Zenon
  <2> QED BY <2>9
<1> HIDE DEF G
<1>6. n \in G
  <2>1. n \in 1 .. n
    BY <1>1
  <2>2. \A k \in 1 .. n : k \in G
    BY <1>1, <1>4, <1>5, UpFromOne
  <2> QED BY <2>1, <2>2
<1>7. Flat(n)
  BY <1>6 DEF G
<1> QED BY <1>1, <1>2, <1>7, Zenon

(* What an entry does to what was read before it.                          *)
Enters5(x, o, y, z) ==
  /\ Entered(5, Acc(5, x, o), [kind |-> "ends", x |-> y, y |-> z])
       = Acc(5, x, Append(o, Raw(y, z.v)))
  /\ Entered(5, Acc(5, x, o), [kind |-> "length", x |-> y, y |-> z])
       = Acc(5, x, Append(o, Raw(y, y.v + z.v)))
  /\ Entered(5, Acc(5, x, o), [kind |-> "pair", x |-> y, y |-> z])
       = Acc(5, x, Append(o, Raw(Plus(x, y.v), x.v + z.v)))
  /\ Entered(5, Acc(5, x, o), [kind |-> "base", x |-> y, y |-> z]) = Acc(5, y, o)

LEMMA Entry5 ==
  ASSUME NEW x, NEW o, NEW y, NEW z
  PROVE  Enters5(x, o, y, z)
<1>1. /\ \A acc, e : Entered(5, acc, e) = RngEntry(acc, e)
      /\ Acc(5, x, o) = [base |-> x, out |-> o] /\ Acc(5, y, o) = [base |-> y, out |-> o]
      /\ \A w : Acc(5, x, Append(o, w)) = [base |-> x, out |-> Append(o, w)]
  BY DEF Entered, Acc
<1>2. /\ RngEntry([base |-> x, out |-> o], [kind |-> "ends", x |-> y, y |-> z])
           = [base |-> x, out |-> Append(o, Raw(y, z.v))]
      /\ RngEntry([base |-> x, out |-> o], [kind |-> "length", x |-> y, y |-> z])
           = [base |-> x, out |-> Append(o, Raw(y, y.v + z.v))]
      /\ RngEntry([base |-> x, out |-> o], [kind |-> "pair", x |-> y, y |-> z])
           = [base |-> x, out |-> Append(o, Raw(Plus(x, y.v), x.v + z.v))]
      /\ RngEntry([base |-> x, out |-> o], [kind |-> "base", x |-> y, y |-> z])
           = [base |-> y, out |-> o]
  BY DEF RngEntry
<1> QED BY <1>1, <1>2, Zenon DEF Enters5

LEMMA Updated ==
  ASSUME NEW x, NEW o, NEW e, NEW w, NEW acc, acc = [base |-> x, out |-> o, ended |-> e]
  PROVE  /\ [acc EXCEPT !.ended = w] = [base |-> x, out |-> o, ended |-> w]
         /\ [acc EXCEPT !.base = w] = [base |-> w, out |-> o, ended |-> e]
         /\ [acc EXCEPT !.out = w] = [base |-> x, out |-> w, ended |-> e]
OBVIOUS

Enters4(x, o, y, z, e) ==
  /\ PairEnds(e) => Entered(4, Acc(4, x, o), e).out = o
  /\ ~PairEnds(e) /\ y.v = Top => Entered(4, Acc(4, x, o), e) = Acc(4, z, o)
  /\ ~PairEnds(e) /\ y.v # Top /\ y.sec # NoSec =>
       Entered(4, Acc(4, x, o), e) = Acc(4, x, Append(o, Raw(y, z.v)))
  /\ ~PairEnds(e) /\ y.v # Top /\ y.sec = NoSec =>
       Entered(4, Acc(4, x, o), e) = Acc(4, x, Append(o, Raw(Plus(x, y.v), x.v + z.v)))

LEMMA Entry4 ==
  ASSUME NEW x, NEW o, NEW y, NEW z, NEW e, e = [x |-> y, y |-> z]
  PROVE  Enters4(x, o, y, z, e)
<1>1. /\ \A a : Entered(4, a, e) = PairEntry(a, e)
      /\ \A u, w : Acc(4, u, w) = [base |-> u, out |-> w, ended |-> FALSE]
  BY DEF Entered, Acc
<1>2. PICK f : f = FALSE
  OBVIOUS
<1>3. PICK acc : acc = [base |-> x, out |-> o, ended |-> f]
  OBVIOUS
<1>4. acc.ended = f /\ acc.out = o /\ acc.base = x /\ e.x = y /\ e.y = z
  BY <1>3
<1>5. Acc(4, x, o) = acc
  BY <1>1, <1>2, <1>3, Zenon
<1>6. ~acc.ended
  BY <1>2, <1>4, Zenon
<1>7. PairEnds(e) => Entered(4, acc, e).out = o
  <2>1. PairEnds(e) => PairEntry(acc, e) = [acc EXCEPT !.ended = TRUE]
    BY <1>6, Zenon DEF PairEntry
  <2>2. PICK t : t = TRUE
    OBVIOUS
  <2>3. [acc EXCEPT !.ended = t] = [base |-> x, out |-> o, ended |-> t]
    BY <1>3, Updated
  <2>4. [acc EXCEPT !.ended = t].out = o
    BY <2>3
  <2>5. [acc EXCEPT !.ended = TRUE].out = o
    BY <2>2, <2>4, Zenon
  <2> QED BY <1>1, <2>1, <2>5, Zenon
<1>8. ~PairEnds(e) /\ y.v = Top => Entered(4, acc, e) = Acc(4, z, o)
  <2>1. ~PairEnds(e) /\ y.v = Top => PairEntry(acc, e) = [acc EXCEPT !.base = z]
    BY <1>4, <1>6, Zenon DEF PairEntry
  <2>2. [acc EXCEPT !.base = z] = [base |-> z, out |-> o, ended |-> f]
    BY <1>3, Updated
  <2>3. [acc EXCEPT !.base = z] = Acc(4, z, o)
    BY <1>1, <1>2, <2>2, Zenon
  <2> QED BY <1>1, <2>1, <2>3, Zenon
<1>9. ASSUME ~PairEnds(e), y.v # Top, NEW w,
             w = IF y.sec # NoSec THEN Raw(y, z.v) ELSE Raw(Plus(x, y.v), x.v + z.v)
      PROVE  Entered(4, acc, e) = Acc(4, x, Append(o, w))
  <2>1. PairEntry(acc, e) = [acc EXCEPT !.out = Append(acc.out, w)]
    BY <1>4, <1>6, <1>9, Zenon DEF PairEntry
  <2>2. PICK o1 : o1 = Append(o, w)
    OBVIOUS
  <2>3. [acc EXCEPT !.out = o1] = [base |-> x, out |-> o1, ended |-> f]
    BY <1>3, Updated
  <2>4. [acc EXCEPT !.out = o1] = Acc(4, x, o1)
    BY <1>1, <1>2, <2>3, Zenon
  <2> QED BY <1>1, <1>4, <2>1, <2>2, <2>4, Zenon
<1> QED BY <1>5, <1>7, <1>8, <1>9, Zenon DEF Enters4

RangeFine(r) ==
  r \in [sec : Secs, start : Nat, end : Nat] /\ r.start <= r.end /\ r.end <= Size[r.sec]
RangeFacts(r) ==
  /\ From(r).v \in Nat /\ To(r).v \in Nat /\ From(r).v < Top
  /\ r.start \in Nat /\ r.end \in Nat /\ r.start < Top
  /\ From(r).v + (r.end - r.start) = To(r).v
  /\ From(r) = [v |-> From(r).v, sec |-> From(r).sec]
  /\ Plus(Addr(r.sec, 0), r.start) = From(r) /\ Addr(r.sec, 0).v + r.end = To(r).v
  /\ IF elf.kind = "rel" THEN From(r).sec = r.sec /\ r.sec # NoSec ELSE From(r).sec = NoSec

LEMMA RangesFine ==
  ASSUME NEW r, RangeFine(r)
  PROVE  RangeFacts(r)
<1>1. r.sec \in Secs /\ r.start \in Nat /\ r.end \in Nat /\ r.start <= r.end /\ r.end <= Size[r.sec]
  BY DEF RangeFine
<1>a. PICK s \in Secs : s = r.sec
  BY <1>1
<1>b. PICK x \in Nat, y \in Nat, z \in Nat, p \in Nat, t \in Nat :
        x = r.start /\ y = r.end /\ z = Size[s] /\ p = Place[s] /\ t = Top
  BY <1>1, PlaceAssumption, CallAssumption
<1>2. /\ s = r.sec /\ x = r.start /\ y = r.end /\ z = Size[s] /\ p = Place[s] /\ t = Top
  BY <1>a, <1>b
<1>3. x <= y /\ y <= z /\ p + z < t /\ s # NoSec
  BY <1>1, <1>2, PlaceAssumption, CallAssumption
<1>4. /\ p + x \in Nat /\ p + y \in Nat /\ p + x < t /\ x < t
      /\ (p + x) + (y - x) = p + y /\ x + (y - x) = y
      /\ (p + 0) + x = p + x /\ 0 + x = x /\ (p + 0) + y = p + y /\ 0 + y = y
  BY ONLY x \in Nat, y \in Nat, z \in Nat, p \in Nat, t \in Nat, <1>3
<1>5. CASE elf.kind = "rel"
  <2>1. From(r) = [v |-> x, sec |-> s] /\ To(r) = [v |-> y, sec |-> s]
          /\ Addr(r.sec, 0) = [v |-> 0, sec |-> s]
    BY <1>2, <1>5 DEF From, To, Addr
  <2>2. Plus([v |-> 0, sec |-> s], x) = [v |-> 0 + x, sec |-> s]
    BY DEF Plus
  <2> QED BY <1>2, <1>3, <1>4, <1>5, <2>1, <2>2 DEF RangeFacts
<1>6. CASE elf.kind # "rel"
  <2>1. /\ From(r) = [v |-> p + x, sec |-> NoSec] /\ To(r) = [v |-> p + y, sec |-> NoSec]
        /\ Addr(r.sec, 0) = [v |-> p + 0, sec |-> NoSec]
    BY <1>2, <1>6 DEF From, To, Addr
  <2>2. Plus([v |-> p + 0, sec |-> NoSec], x) = [v |-> (p + 0) + x, sec |-> NoSec]
    BY DEF Plus
  <2> QED BY <1>2, <1>3, <1>4, <1>6, <2>1, <2>2 DEF RangeFacts
<1> QED BY <1>5, <1>6

(* What a range is relative to.                                            *)
BaseFine(b) == b = [v |-> b.v, sec |-> b.sec] /\ b.v \in Nat /\ (elf.kind # "rel" => b.sec = NoSec)

LEMMA BasesFine ==
  ASSUME NEW s \in Bases
  PROVE  BaseFine(IF s = NoSec THEN Null ELSE Addr(s, 0))
<1>1. CASE s = NoSec
  BY <1>1 DEF BaseFine, Null
<1>2. CASE s # NoSec
  <2>1. s \in Secs /\ Place[s] \in Nat
    BY <1>2, PlaceAssumption, CallAssumption
  <2> QED BY <1>2, <2>1 DEF BaseFine, Addr
<1> QED BY <1>1, <1>2

LEMMA Nearby ==
  ASSUME NEW r, RangeFacts(r), NEW b, BaseFine(b), From(r).sec = b.sec
  PROVE  Plus(b, From(r).v - b.v) = From(r) /\ b.v + (To(r).v - b.v) = To(r).v
<1>a. PICK s : s = b.sec
  OBVIOUS
<1>b. PICK x \in Nat, y \in Nat, z \in Nat : x = From(r).v /\ y = To(r).v /\ z = b.v
  BY DEF RangeFacts, BaseFine
<1>1. x = From(r).v /\ y = To(r).v /\ z = b.v /\ s = b.sec
  BY <1>a, <1>b
<1>2. z + (x - z) = x /\ z + (y - z) = y
  BY ONLY x \in Nat, y \in Nat, z \in Nat
<1>3. b = [v |-> z, sec |-> s] /\ From(r) = [v |-> x, sec |-> s]
  BY <1>1 DEF RangeFacts, BaseFine
<1>4. Plus([v |-> z, sec |-> s], x - z) = [v |-> z + (x - z), sec |-> s]
  BY DEF Plus
<1> QED BY <1>1, <1>2, <1>3, <1>4, Zenon

(* Each way to write a range says the range.                               *)
Saying5(r, b, o) ==
  /\ Entered(5, Acc(5, b, o), Ends5(r)) = Acc(5, b, Append(o, Was(r)))
  /\ Entered(5, Acc(5, b, o), Length5(r)) = Acc(5, b, Append(o, Was(r)))
  /\ Entered(5, Entered(5, Acc(5, b, o), Base5(r)), Pair5(r))
       = Acc(5, Addr(r.sec, 0), Append(o, Was(r)))
  /\ BaseFine(b) /\ From(r).sec = b.sec =>
       Entered(5, Acc(5, b, o), Near5(r, b)) = Acc(5, b, Append(o, Was(r)))

LEMMA Says5 ==
  ASSUME NEW r, RangeFacts(r), NEW b, NEW o
  PROVE  Saying5(r, b, o)
<1>0. \A k : Number(k).v = k
  BY DEF Number
<1>1. Entered(5, Acc(5, b, o), Ends5(r)) = Acc(5, b, Append(o, Was(r)))
  <2>1. Enters5(b, o, From(r), To(r))
    BY Entry5
  <2> QED BY <2>1, Zenon DEF Enters5, Ends5, Was
<1>2. Entered(5, Acc(5, b, o), Length5(r)) = Acc(5, b, Append(o, Was(r)))
  <2>1. From(r).v + Number(r.end - r.start).v = To(r).v
    BY <1>0, Zenon DEF RangeFacts
  <2>2. Enters5(b, o, From(r), Number(r.end - r.start))
    BY Entry5
  <2> QED BY <2>1, <2>2, Zenon DEF Enters5, Length5, Was
<1>3. Entered(5, Entered(5, Acc(5, b, o), Base5(r)), Pair5(r))
        = Acc(5, Addr(r.sec, 0), Append(o, Was(r)))
  <2>1. PICK a : a = Addr(r.sec, 0)
    OBVIOUS
  <2>2. Entered(5, Acc(5, b, o), Base5(r)) = Acc(5, a, o)
    <3>1. Enters5(b, o, a, Null)
      BY Entry5
    <3> QED BY <2>1, <3>1, Zenon DEF Enters5, Base5
  <2>3. Entered(5, Acc(5, a, o), Pair5(r))
          = Acc(5, a, Append(o, Raw(Plus(a, Number(r.start).v), a.v + Number(r.end).v)))
    <3>1. Enters5(a, o, Number(r.start), Number(r.end))
      BY Entry5
    <3> QED BY <3>1, Zenon DEF Enters5, Pair5
  <2>4. Raw(Plus(a, Number(r.start).v), a.v + Number(r.end).v) = Was(r)
    BY <1>0, <2>1, Zenon DEF RangeFacts, Was
  <2> QED BY <2>1, <2>2, <2>3, <2>4, Zenon
<1>4. ASSUME BaseFine(b), From(r).sec = b.sec
      PROVE  Entered(5, Acc(5, b, o), Near5(r, b)) = Acc(5, b, Append(o, Was(r)))
  <2>1. PICK p, q : p = From(r).v - b.v /\ q = To(r).v - b.v
    OBVIOUS
  <2>2. Entered(5, Acc(5, b, o), Near5(r, b))
          = Acc(5, b, Append(o, Raw(Plus(b, Number(p).v), b.v + Number(q).v)))
    <3>1. Enters5(b, o, Number(p), Number(q))
      BY Entry5
    <3> QED BY <2>1, <3>1, Zenon DEF Enters5, Near5
  <2>3. Plus(b, p) = From(r) /\ b.v + q = To(r).v
    BY <1>4, <2>1, Nearby
  <2>4. Raw(Plus(b, Number(p).v), b.v + Number(q).v) = Was(r)
    <3>1. Number(p).v = p /\ Number(q).v = q
      BY <1>0
    <3> QED BY <2>3, <3>1, Zenon DEF Was
  <2> QED BY <2>2, <2>4, Zenon
<1> QED BY <1>1, <1>2, <1>3, <1>4, Zenon DEF Saying5

\* Two zeros that are not relocated would end the list.
Saying4(r, b, o) ==
  /\ elf.kind = "rel" =>
       Entered(4, Acc(4, b, o), Ends4(r)) = Acc(4, b, Append(o, Was(r)))
  /\ Pair4(r) # [x |-> Null, y |-> Null] =>
       Entered(4, Entered(4, Acc(4, b, o), Base4(r)), Pair4(r))
         = Acc(4, Addr(r.sec, 0), Append(o, Was(r)))
  /\ BaseFine(b) /\ From(r).sec = b.sec /\ Near4(r, b) # [x |-> Null, y |-> Null] =>
       Entered(4, Acc(4, b, o), Near4(r, b)) = Acc(4, b, Append(o, Was(r)))

LEMMA Says4 ==
  ASSUME NEW r, RangeFacts(r), NEW b, NEW o, elf.kind \in {"rel", "image"}
  PROVE  Saying4(r, b, o)
<1>0. /\ \A k : Number(k).v = k /\ Number(k).sec = NoSec
      /\ Number(0) = Null
  BY DEF Number, Null
<1>1. ASSUME NEW i, NEW j, [x |-> Number(i), y |-> Number(j)] # [x |-> Null, y |-> Null]
      PROVE  ~PairEnds([x |-> Number(i), y |-> Number(j)])
  <2>1. SUFFICES ASSUME i = 0, j = 0 PROVE FALSE
    BY <1>0 DEF PairEnds
  <2> QED BY <1>0, <1>1, <2>1, Zenon
<1>2. ASSUME elf.kind = "rel"
      PROVE  Entered(4, Acc(4, b, o), Ends4(r)) = Acc(4, b, Append(o, Was(r)))
  <2>1. From(r).sec # NoSec
    BY <1>2 DEF RangeFacts
  <2>2. From(r).v # Top
    BY CallAssumption DEF RangeFacts
  <2>3. ~PairEnds(Ends4(r))
    BY <2>1 DEF PairEnds, Ends4
  <2>4. Enters4(b, o, From(r), To(r), Ends4(r))
    BY Entry4 DEF Ends4
  <2> QED BY <2>1, <2>2, <2>3, <2>4, Zenon DEF Enters4, Was
<1>3. ASSUME Pair4(r) # [x |-> Null, y |-> Null]
      PROVE  Entered(4, Entered(4, Acc(4, b, o), Base4(r)), Pair4(r))
               = Acc(4, Addr(r.sec, 0), Append(o, Was(r)))
  <2>1. PICK a : a = Addr(r.sec, 0)
    OBVIOUS
  <2>2. Top # 0 /\ r.start # Top
    BY CallAssumption DEF RangeFacts
  <2>3. Entered(4, Acc(4, b, o), Base4(r)) = Acc(4, a, o)
    <3>1. ~PairEnds(Base4(r))
      BY <1>0, <2>2 DEF PairEnds, Base4
    <3>2. Number(Top).v = Top
      BY <1>0
    <3>3. Base4(r) = [x |-> Number(Top), y |-> a]
      BY <2>1, Zenon DEF Base4
    <3>4. Enters4(b, o, Number(Top), a, Base4(r))
      BY <3>3, Entry4
    <3> QED BY <3>1, <3>2, <3>4, Zenon DEF Enters4
  <2>4. ~PairEnds(Pair4(r))
    BY <1>1, <1>3, Zenon DEF Pair4
  <2>5. Entered(4, Acc(4, a, o), Pair4(r))
          = Acc(4, a, Append(o, Raw(Plus(a, Number(r.start).v), a.v + Number(r.end).v)))
    <3>1. Number(r.start).v # Top /\ Number(r.start).sec = NoSec
      BY <1>0, <2>2
    <3>2. Enters4(a, o, Number(r.start), Number(r.end), Pair4(r))
      BY Entry4 DEF Pair4
    <3> QED BY <2>4, <3>1, <3>2, Zenon DEF Enters4
  <2>6. Raw(Plus(a, Number(r.start).v), a.v + Number(r.end).v) = Was(r)
    BY <1>0, <2>1, Zenon DEF RangeFacts, Was
  <2> QED BY <2>1, <2>3, <2>5, <2>6, Zenon
<1>4. ASSUME BaseFine(b), From(r).sec = b.sec, Near4(r, b) # [x |-> Null, y |-> Null]
      PROVE  Entered(4, Acc(4, b, o), Near4(r, b)) = Acc(4, b, Append(o, Was(r)))
  <2>1. PICK p, q : p = From(r).v - b.v /\ q = To(r).v - b.v
    OBVIOUS
  <2>2. Near4(r, b) = [x |-> Number(p), y |-> Number(q)]
    BY <2>1, Zenon DEF Near4
  <2>3. ~PairEnds(Near4(r, b))
    BY <1>1, <1>4, <2>2, Zenon
  <2>4. p # Top
    <3>1. PICK i \in Nat, j \in Nat, k \in Nat : i = From(r).v /\ j = b.v /\ k = Top /\ i < k
      BY <1>4, CallAssumption DEF RangeFacts, BaseFine
    <3>2. i - j # k
      BY ONLY i \in Nat, j \in Nat, k \in Nat, <3>1
    <3> QED BY <2>1, <3>1, <3>2
  <2>5. Entered(4, Acc(4, b, o), Near4(r, b))
          = Acc(4, b, Append(o, Raw(Plus(b, Number(p).v), b.v + Number(q).v)))
    <3>1. Number(p).v # Top /\ Number(p).sec = NoSec
      BY <1>0, <2>4
    <3>2. Enters4(b, o, Number(p), Number(q), Near4(r, b))
      BY <2>2, Entry4
    <3> QED BY <2>3, <3>1, <3>2, Zenon DEF Enters4
  <2>6. Plus(b, p) = From(r) /\ b.v + q = To(r).v
    BY <1>4, <2>1, Nearby
  <2> QED BY <1>0, <2>5, <2>6, Zenon DEF Was
<1> QED BY <1>2, <1>3, <1>4, Zenon DEF Saying4

RangesOf(rs) ==
  /\ rs \in Seq([sec : Secs, start : Nat, end : Nat]) /\ rs # <<>>
  /\ \A i \in 1 .. Len(rs) : RangeFacts(rs[i])

\* The ranges are those of the base's section, or in an image any.
LEMMA WithinIs ==
  ASSUME NEW rs, RangesOf(rs), elf.kind \in {"rel", "image"}, NEW b, BaseFine(b), Within(rs, b)
  PROVE  \A i \in 1 .. Len(rs) : From(rs[i]).sec = b.sec
<1>1. DOMAIN rs = 1 .. Len(rs)
  BY DEF RangesOf
<1>2. TAKE i \in 1 .. Len(rs)
<1>3. RangeFacts(rs[i])
  BY DEF RangesOf
<1>4. CASE elf.kind = "rel"
  <2>1. rs[i].sec = b.sec
    BY <1>1, <1>4 DEF Within
  <2> QED BY <1>3, <1>4, <2>1 DEF RangeFacts
<1>5. CASE elf.kind = "image"
  BY <1>3, <1>5 DEF RangeFacts, BaseFine
<1> QED BY <1>4, <1>5

(* Pairs of entries, one pair for each range.                              *)
Doubled(f, n, e, g) ==
  /\ Len(f) = 2 * n /\ DOMAIN f = 1 .. 2 * n /\ \E S : f \in Seq(S)
  /\ \A m \in Nat : m < n => f[2 * m + 1] = e[m + 1] /\ f[(2 * m + 1) + 1] = g[m + 1]

LEMMA TwoEach ==
  ASSUME NEW n \in Nat, n >= 1, NEW e, NEW g
  PROVE  Doubled(FlattenSeq([i \in 1 .. n |-> <<e[i], g[i]>>]), n, e, g)
<1>0. PICK t : t = [i \in 1 .. n |-> <<e[i], g[i]>>]
  OBVIOUS
<1>1. PICK S : S = {e[i] : i \in 1 .. n} \cup {g[i] : i \in 1 .. n}
  OBVIOUS
<1>2. ASSUME NEW i \in 1 .. n
      PROVE  t[i] \in Seq(S) /\ Len(t[i]) = 2 /\ t[i][1] = e[i] /\ t[i][2] = g[i]
  <2>1. t[i] = <<e[i], g[i]>> /\ e[i] \in S /\ g[i] \in S
    BY <1>0, <1>1
  <2> QED BY <2>1
<1>3. t \in Seq(Seq(S)) /\ Len(t) = n
  <2>1. \A i \in 1 .. n : t[i] \in Seq(S)
    BY <1>2
  <2>2. t = [i \in 1 .. n |-> t[i]]
    BY <1>0
  <2>3. PICK T : T = Seq(S)
    OBVIOUS
  <2>4. t \in [1 .. n -> T]
    BY <2>1, <2>2, <2>3, Zenon
  <2> QED BY <2>3, <2>4
<1>4. \A i \in 1 .. Len(t) : Len(t[i]) = 2
  BY <1>2, <1>3
<1>5. PICK f : f = FlattenSeq(t)
  OBVIOUS
<1>6. /\ f \in Seq(S) /\ Len(f) = 2 * n
      /\ \A k \in Nat : k < n => f[2 * k + 1] = t[k + 1][1] /\ f[(2 * k + 1) + 1] = t[k + 1][2]
  BY <1>3, <1>4, <1>5, PairsFlat
<1>7. ASSUME NEW m \in Nat, m < n
      PROVE  f[2 * m + 1] = e[m + 1] /\ f[(2 * m + 1) + 1] = g[m + 1]
  <2>1. m + 1 \in 1 .. n
    BY <1>7
  <2>2. t[m + 1][1] = e[m + 1] /\ t[m + 1][2] = g[m + 1]
    BY <1>2, <2>1
  <2> QED BY <1>6, <1>7, <2>2, Zenon
<1>8. DOMAIN f = 1 .. 2 * n
  BY <1>6
<1> QED BY <1>0, <1>5, <1>6, <1>7, <1>8, Zenon DEF Doubled

LEMMA Read5 ==
  ASSUME NEW rs, RangesOf(rs), elf.kind \in {"rel", "image"}, NEW b, BaseFine(b),
         NEW version, version >= 5, NEW list \in Lists(rs, version, b)
  PROVE  RngList(list, b) = Part(rs, Len(rs)) /\ list # <<>>
<1>1. PICK n \in Nat : n = Len(rs) /\ n >= 1 /\ DOMAIN rs = 1 .. n
  BY DEF RangesOf
<1>2. ASSUME NEW m \in Nat, m < n
      PROVE  m + 1 \in 1 .. n /\ RangeFacts(rs[m + 1])
  BY <1>1, <1>2 DEF RangesOf
<1>3. ASSUME DOMAIN list = 1 .. n, \A m \in Nat : m < n => Adds(5, b, list, rs, m)
      PROVE  RngList(list, b) = Part(rs, n) /\ list # <<>>
  <2>1. PICK it : Upto(5, list, Acc(5, b, <<>>), n, it) /\ RngList(list, b) = it[1 .. n].out
    BY <1>3, RngListFolds
  <2>2. it[1 .. n] = Acc(5, b, Part(rs, n))
    <3>1. n <= n
      OBVIOUS
    <3> QED BY <1>3, <2>1, <3>1, OneRead
  <2>3. Acc(5, b, Part(rs, n)).out = Part(rs, n)
    BY DEF Acc
  <2>4. list # <<>>
    BY <1>1, <1>3
  <2> QED BY <2>1, <2>2, <2>3, <2>4
<1>4. CASE list = [i \in DOMAIN rs |-> Ends5(rs[i])]
  <2>1. \A m \in Nat : m < n => Adds(5, b, list, rs, m)
    <3>1. TAKE m \in Nat
    <3>2. HAVE m < n
    <3>3. list[m + 1] = Ends5(rs[m + 1])
      BY <1>1, <1>2, <1>4, <3>2
    <3>5. \A o : Saying5(rs[m + 1], b, o)
      BY <1>2, <3>2, Says5
    <3> QED BY <3>3, <3>5, Zenon DEF Adds, Saying5
  <2> QED BY <1>1, <1>3, <1>4, <2>1
<1>5. CASE list = [i \in DOMAIN rs |-> Length5(rs[i])]
  <2>1. \A m \in Nat : m < n => Adds(5, b, list, rs, m)
    <3>1. TAKE m \in Nat
    <3>2. HAVE m < n
    <3>3. list[m + 1] = Length5(rs[m + 1])
      BY <1>1, <1>2, <1>5, <3>2
    <3>5. \A o : Saying5(rs[m + 1], b, o)
      BY <1>2, <3>2, Says5
    <3> QED BY <3>3, <3>5, Zenon DEF Adds, Saying5
  <2> QED BY <1>1, <1>3, <1>5, <2>1
<1>6. CASE Within(rs, b) /\ list = [i \in DOMAIN rs |-> Near5(rs[i], b)]
  <2>1. \A m \in Nat : m < n => Adds(5, b, list, rs, m)
    <3>1. TAKE m \in Nat
    <3>2. HAVE m < n
    <3>3. list[m + 1] = Near5(rs[m + 1], b)
      BY <1>1, <1>2, <1>6, <3>2
    <3>4. From(rs[m + 1]).sec = b.sec
      BY <1>1, <1>2, <1>6, <3>2, WithinIs
    <3>5. \A o : Saying5(rs[m + 1], b, o)
      BY <1>2, <3>2, Says5
    <3> QED BY <3>3, <3>4, <3>5, Zenon DEF Adds, Saying5
  <2> QED BY <1>1, <1>3, <1>6, <2>1
<1>7. CASE list = FlattenSeq([i \in DOMAIN rs |-> <<Base5(rs[i]), Pair5(rs[i])>>])
  <2>1. PICK e, g, t : /\ e = [i \in 1 .. n |-> Base5(rs[i])] /\ g = [i \in 1 .. n |-> Pair5(rs[i])]
                       /\ t = [i \in 1 .. n |-> <<e[i], g[i]>>]
    OBVIOUS
  <2>2. list = FlattenSeq(t)
    <3>1. t = [i \in 1 .. n |-> <<Base5(rs[i]), Pair5(rs[i])>>]
      BY <2>1
    <3> QED BY <1>1, <1>7, <3>1, Zenon
  <2>3. /\ DOMAIN list = 1 .. 2 * n
        /\ \A m \in Nat : m < n => list[2 * m + 1] = e[m + 1] /\ list[(2 * m + 1) + 1] = g[m + 1]
    <3>1. Doubled(list, n, e, g)
      BY <1>1, <2>1, <2>2, TwoEach, Zenon
    <3> QED BY <3>1, Zenon DEF Doubled
  <2>4. AllByTwo(5, list, rs, n)
    <3> SUFFICES \A m \in Nat : m < n => AddsByTwo(5, list, rs, m)
      BY DEF AllByTwo
    <3>1. TAKE m \in Nat
    <3>2. HAVE m < n
    <3>3. /\ list[2 * m + 1] = Base5(rs[m + 1])
          /\ list[(2 * m + 1) + 1] = Pair5(rs[m + 1])
      BY <1>2, <2>1, <2>3, <3>2
    <3>5. \A o, x : Saying5(rs[m + 1], x, o)
      BY <1>2, <3>2, Says5
    <3> QED BY <3>3, <3>5, ZenonT(40) DEF AddsByTwo, Saying5
  <2>5. 2 * n \in Nat /\ 2 * n <= 2 * n /\ 2 * n >= 1
    BY <1>1
  <2>6. PICK it : Upto(5, list, Acc(5, b, <<>>), 2 * n, it) /\ RngList(list, b) = it[1 .. 2 * n].out
    BY <2>3, <2>5, RngListFolds
  <2>7. PICK x : it[1 .. 2 * n] = Acc(5, x, Part(rs, n))
    <3>1. ReadByTwo(5, rs, n, it)
      BY <2>4, <2>5, <2>6, TwoRead
    <3> QED BY <3>1 DEF ReadByTwo
  <2>8. Acc(5, x, Part(rs, n)).out = Part(rs, n)
    BY DEF Acc
  <2>9. list # <<>>
    BY <2>3, <2>5
  <2> QED BY <1>1, <2>6, <2>7, <2>8, <2>9
<1>8. Forms5(rs, b, list)
  BY ListsAre5
<1> QED BY <1>4, <1>5, <1>6, <1>7, <1>8, Zenon DEF Forms5

(* Before DWARF 5 a list ends with two zeros.                              *)
LEMMA EndsList ==
  ASSUME NEW S, NEW s \in Seq(S), NEW list, list = s \o End4
  PROVE  /\ DOMAIN list = 1 .. Len(s) + 1 /\ Len(list) = Len(s) + 1 /\ Len(s) \in Nat
         /\ \A i \in 1 .. Len(s) : list[i] = s[i]
         /\ list[Len(s) + 1] = [x |-> Null, y |-> Null]
<1>1. PICK z : z = [x |-> Null, y |-> Null]
  OBVIOUS
<1>2. PICK T : T = S \cup {z}
  OBVIOUS
<1>3. s \in Seq(T) /\ End4 = <<z>> /\ <<z>> \in Seq(T)
  BY <1>1, <1>2 DEF End4
<1> QED BY <1>1, <1>3

LEMMA EndRead ==
  ASSUME NEW list, NEW n \in Nat, NEW b, NEW it,
         Upto(4, list, Acc(4, b, <<>>), n + 1, it),
         list[n + 1] = [x |-> Null, y |-> Null],
         NEW x, NEW o, it[1 .. n] = Acc(4, x, o)
  PROVE  it[1 .. n + 1].out = o
<1>1. n + 1 \in Nat /\ n < n + 1
  OBVIOUS
<1>2. Folded(4, list, Acc(4, b, <<>>), n + 1, it)
  BY <1>1, UptoStep
<1>3. it[1 .. n + 1] = Entered(4, Acc(4, x, o), list[n + 1])
  BY <1>1, <1>2, Zenon DEF Folded
<1>4. Enters4(x, o, Null, Null, list[n + 1])
  BY Entry4
<1>5. PairEnds(list[n + 1])
  BY DEF PairEnds, Null
<1> QED BY <1>3, <1>4, <1>5, Zenon DEF Enters4

LEMMA Read4 ==
  ASSUME NEW rs, RangesOf(rs), elf.kind \in {"rel", "image"}, NEW b, BaseFine(b),
         NEW version, ~(version >= 5), NEW list \in Lists(rs, version, b)
  PROVE  PairList(list, b) = Part(rs, Len(rs)) /\ list # <<>>
<1>1. PICK n \in Nat : n = Len(rs) /\ n >= 1 /\ DOMAIN rs = 1 .. n
  BY DEF RangesOf
<1>2. ASSUME NEW m \in Nat, m < n
      PROVE  m + 1 \in 1 .. n /\ RangeFacts(rs[m + 1])
  BY <1>1, <1>2 DEF RangesOf
<1>3. Forms4(rs, b, list)
  BY ListsAre4
<1>4. \A i \in 1 .. Len(list) - 1 : list[i] # [x |-> Null, y |-> Null]
  BY <1>3, Zenon DEF Forms4, Writable
<1>5. ASSUME NEW s, Len(s) = n, DOMAIN s = 1 .. n, \E S : s \in Seq(S), list = s \o End4,
             \A m \in Nat : m < n /\ s[m + 1] # [x |-> Null, y |-> Null] =>
               \A o : Entered(4, Acc(4, b, o), s[m + 1]) = Acc(4, b, Append(o, Was(rs[m + 1])))
      PROVE  PairList(list, b) = Part(rs, n) /\ list # <<>>
  <2>1. PICK S : s \in Seq(S)
    BY <1>5
  <2>2. /\ DOMAIN list = 1 .. n + 1 /\ Len(list) = n + 1
        /\ \A i \in 1 .. n : list[i] = s[i]
        /\ list[n + 1] = [x |-> Null, y |-> Null]
    BY <1>5, <2>1, EndsList
  <2>3. n + 1 \in Nat /\ n <= n + 1 /\ (n + 1) - 1 = n
    OBVIOUS
  <2>4. \A m \in Nat : m < n => Adds(4, b, list, rs, m)
    <3>1. TAKE m \in Nat
    <3>2. HAVE m < n
    <3>3. list[m + 1] = s[m + 1] /\ list[m + 1] # [x |-> Null, y |-> Null]
      BY <1>2, <1>4, <2>2, <2>3, <3>2
    <3> QED BY <1>5, <3>2, <3>3, Zenon DEF Adds
  <2>5. PICK it : Upto(4, list, Acc(4, b, <<>>), n + 1, it)
          /\ PairList(list, b) = it[1 .. n + 1].out
    BY <2>2, <2>3, PairListFolds
  <2>6. it[1 .. n] = Acc(4, b, Part(rs, n))
    BY <2>3, <2>4, <2>5, OneRead
  <2>7. it[1 .. n + 1].out = Part(rs, n)
    BY <2>2, <2>5, <2>6, EndRead
  <2>8. list # <<>>
    BY <2>2
  <2> QED BY <2>5, <2>7, <2>8
<1>6. CASE elf.kind = "rel" /\ list = [i \in DOMAIN rs |-> Ends4(rs[i])] \o End4
  <2>1. PICK s : s = [i \in 1 .. n |-> Ends4(rs[i])]
    OBVIOUS
  <2>2. Len(s) = n /\ DOMAIN s = 1 .. n /\ s \in Seq({s[i] : i \in 1 .. n}) /\ list = s \o End4
    BY <1>1, <1>6, <2>1
  <2>3. ASSUME NEW m \in Nat, m < n
        PROVE  \A o : Entered(4, Acc(4, b, o), s[m + 1]) = Acc(4, b, Append(o, Was(rs[m + 1])))
    <3>1. s[m + 1] = Ends4(rs[m + 1])
      BY <1>2, <2>1, <2>3
    <3>2. \A o : Saying4(rs[m + 1], b, o)
      BY <1>2, <2>3, Says4
    <3> QED BY <1>6, <3>1, <3>2, Zenon DEF Saying4
  <2> QED BY <1>1, <1>5, <2>2, <2>3
<1>7. CASE Within(rs, b) /\ list = [i \in DOMAIN rs |-> Near4(rs[i], b)] \o End4
  <2>1. PICK s : s = [i \in 1 .. n |-> Near4(rs[i], b)]
    OBVIOUS
  <2>2. Len(s) = n /\ DOMAIN s = 1 .. n /\ s \in Seq({s[i] : i \in 1 .. n}) /\ list = s \o End4
    BY <1>1, <1>7, <2>1
  <2>3. ASSUME NEW m \in Nat, m < n, s[m + 1] # [x |-> Null, y |-> Null]
        PROVE  \A o : Entered(4, Acc(4, b, o), s[m + 1]) = Acc(4, b, Append(o, Was(rs[m + 1])))
    <3>1. s[m + 1] = Near4(rs[m + 1], b)
      BY <1>2, <2>1, <2>3
    <3>2. \A o : Saying4(rs[m + 1], b, o)
      BY <1>2, <2>3, Says4
    <3>3. From(rs[m + 1]).sec = b.sec
      BY <1>1, <1>2, <1>7, <2>3, WithinIs
    <3> QED BY <2>3, <3>1, <3>2, <3>3, Zenon DEF Saying4
  <2> QED BY <1>1, <1>5, <2>2, <2>3
<1>8. CASE list = FlattenSeq([i \in DOMAIN rs |-> <<Base4(rs[i]), Pair4(rs[i])>>]) \o End4
  <2>1. PICK e, g, t : /\ e = [i \in 1 .. n |-> Base4(rs[i])] /\ g = [i \in 1 .. n |-> Pair4(rs[i])]
                       /\ t = [i \in 1 .. n |-> <<e[i], g[i]>>]
    OBVIOUS
  <2>2. PICK s : s = FlattenSeq(t)
    OBVIOUS
  <2>3. list = s \o End4
    <3>1. t = [i \in 1 .. n |-> <<Base4(rs[i]), Pair4(rs[i])>>]
      BY <2>1
    <3> QED BY <1>1, <1>8, <2>2, <3>1, Zenon
  <2>4. Doubled(s, n, e, g)
    BY <1>1, <2>1, <2>2, TwoEach, Zenon
  <2>5. PICK k \in Nat : k = 2 * n
    OBVIOUS
  <2>6. /\ DOMAIN list = 1 .. k + 1 /\ Len(list) = k + 1
        /\ \A i \in 1 .. k : list[i] = s[i]
        /\ list[k + 1] = [x |-> Null, y |-> Null]
    <3>1. Len(s) = k /\ \E S : s \in Seq(S)
      BY <2>4, <2>5, Zenon DEF Doubled
    <3>2. PICK S : s \in Seq(S)
      BY <3>1
    <3> QED BY <2>3, <3>1, <3>2, EndsList
  <2>7. ASSUME NEW m \in Nat, m < n
        PROVE  AddsByTwo(4, list, rs, m)
    <3>1. 2 * m + 1 \in 1 .. k /\ (2 * m + 1) + 1 \in 1 .. k /\ (2 * m + 1) + 1 \in 1 .. (k + 1) - 1
      BY ONLY m \in Nat, n \in Nat, k \in Nat, <2>5, <2>7
    <3>2. s[2 * m + 1] = e[m + 1] /\ s[(2 * m + 1) + 1] = g[m + 1]
      BY <2>4, <2>7, Zenon DEF Doubled
    <3>3. e[m + 1] = Base4(rs[m + 1]) /\ g[m + 1] = Pair4(rs[m + 1])
      BY <1>2, <2>1, <2>7
    <3>4. /\ list[2 * m + 1] = Base4(rs[m + 1]) /\ list[(2 * m + 1) + 1] = Pair4(rs[m + 1])
          /\ list[(2 * m + 1) + 1] # [x |-> Null, y |-> Null]
      BY <1>4, <2>6, <3>1, <3>2, <3>3, Zenon
    <3>5. \A o, x : Saying4(rs[m + 1], x, o)
      BY <1>2, <2>7, Says4
    <3> QED BY <3>4, <3>5, Zenon DEF AddsByTwo, Saying4
  <2>8. AllByTwo(4, list, rs, n)
    BY <2>7, Zenon DEF AllByTwo
  <2>9. k + 1 \in Nat /\ 2 * n <= k + 1
    BY <2>5
  <2>10. PICK it : Upto(4, list, Acc(4, b, <<>>), k + 1, it)
           /\ PairList(list, b) = it[1 .. k + 1].out
    BY <2>6, <2>9, PairListFolds
  <2>11. PICK x : it[1 .. k] = Acc(4, x, Part(rs, n))
    <3>1. ReadByTwo(4, rs, n, it)
      BY <2>8, <2>9, <2>10, TwoRead
    <3> QED BY <2>5, <3>1 DEF ReadByTwo
  <2>12. it[1 .. k + 1].out = Part(rs, n)
    BY <2>6, <2>10, <2>11, EndRead
  <2>13. list # <<>>
    BY <2>6
  <2> QED BY <1>1, <2>10, <2>12, <2>13
<1> QED BY <1>3, <1>6, <1>7, <1>8, Zenon DEF Forms4

(* However a call's ranges are written, they are read as they are.         *)
LEMMA DieRead ==
  ASSUME NEW call, RangesOf(call.ranges), elf.kind \in {"rel", "image"}, NEW b, BaseFine(b),
         NEW version \in Nat, NEW die \in Dies(call, version, b)
  PROVE  DieRanges(die, version, b) = Part(call.ranges, Len(call.ranges))
<1>1. PICK rs : rs = call.ranges
  OBVIOUS
<1>2. RangesOf(rs) /\ DOMAIN rs = 1 .. Len(rs) /\ Len(rs) \in Nat
  BY <1>1 DEF RangesOf
<1>3. ASSUME NEW list \in Lists(rs, version, b), NEW x, NEW y,
             die = [low |-> x, high |-> y, ranges |-> list]
      PROVE  DieRanges(die, version, b) = Part(rs, Len(rs))
  <2>1. die.ranges = list
    BY <1>3
  <2>2. CASE version >= 5
    <3>1. RngList(list, b) = Part(rs, Len(rs)) /\ list # <<>>
      BY <1>2, <2>2, Read5
    <3> QED BY <2>1, <2>2, <3>1, Zenon DEF DieRanges
  <2>3. CASE ~(version >= 5)
    <3>1. PairList(list, b) = Part(rs, Len(rs)) /\ list # <<>>
      BY <1>2, <2>3, Read4
    <3> QED BY <2>1, <2>3, <3>1, Zenon DEF DieRanges
  <2> QED BY <2>2, <2>3
<1>4. ASSUME Len(rs) = 1, NEW h, die = [low |-> From(rs[1]), high |-> h, ranges |-> <<>>],
             \/ h = [form |-> "addr", x |-> To(rs[1])]
             \/ h = [form |-> "offset", x |-> Number(rs[1].end - rs[1].start)]
      PROVE  DieRanges(die, version, b) = Part(rs, Len(rs))
  <2>1. die.ranges = <<>> /\ die.low = From(rs[1]) /\ die.high = h
    BY <1>4
  <2>2. DieRanges(die, version, b)
          = <<Raw(From(rs[1]), IF h.form = "addr" THEN h.x.v ELSE From(rs[1]).v + h.x.v)>>
    BY <2>1, Zenon DEF DieRanges
  <2>3. RangeFacts(rs[1])
    BY <1>2, <1>4 DEF RangesOf
  <2>4. (IF h.form = "addr" THEN h.x.v ELSE From(rs[1]).v + h.x.v) = To(rs[1]).v
    <3>1. CASE h = [form |-> "addr", x |-> To(rs[1])]
      BY <3>1
    <3>2. CASE h = [form |-> "offset", x |-> Number(rs[1].end - rs[1].start)]
      <4>1. h.form # "addr" /\ h.x = Number(rs[1].end - rs[1].start)
        BY <3>2
      <4>2. \A k : Number(k).v = k
        BY DEF Number
      <4>3. From(rs[1]).v + h.x.v = To(rs[1]).v
        BY <2>3, <4>1, <4>2, Zenon DEF RangeFacts
      <4> QED BY <4>1, <4>3, Zenon
    <3> QED BY <1>4, <3>1, <3>2
  <2>5. DieRanges(die, version, b) = <<Was(rs[1])>>
    BY <2>2, <2>4, Zenon DEF Was
  <2>6. Part(rs, 1) = <<Was(rs[1])>>
    BY DEF Part
  <2> QED BY <1>4, <2>5, <2>6
<1>5. \/ \E list \in Lists(rs, version, b) :
           die = [low |-> Null, high |-> [form |-> "none", x |-> Null], ranges |-> list]
      \/ /\ Len(rs) = 1
         /\ \/ die = [low |-> From(rs[1]), high |-> [form |-> "addr", x |-> To(rs[1])],
                 ranges |-> <<>>]
            \/ die = [low |-> From(rs[1]),
                      high |-> [form |-> "offset", x |-> Number(rs[1].end - rs[1].start)],
                      ranges |-> <<>>]
  BY <1>1, Zenon DEF Dies
<1> QED BY <1>1, <1>3, <1>4, <1>5, Zenon

(* Several ranges have the sites each of them has.                         *)
SitesFor(c) ==
  UNION {SitesOf(c.unit, c.call, <<[start |-> From(c.call.ranges[i]),
    end |-> To(c.call.ranges[i]).v]>>) :
           i \in DOMAIN c.call.ranges}

LEMMA SitesParts ==
  ASSUME NEW u, NEW call, RangesOf(call.ranges), NEW c, c = [unit |-> u, call |-> call]
  PROVE  SitesOf(u, call, Part(call.ranges, Len(call.ranges))) = SitesFor(c)
<1> DEFINE none == call.line = 0 \/ CallFile(u, call.file) = NoFile
           site(w) == [section |-> w.start.sec, start |-> w.start.v, end |-> w.end,
                       file |-> CallFile(u, call.file), line |-> call.line]
           long(w) == w.end > w.start.v
<1>1. PICK rs, p : rs = call.ranges /\ p = Part(rs, Len(rs))
  OBVIOUS
<1>2. DOMAIN rs = 1 .. Len(rs)
  BY <1>1 DEF RangesOf
<1>3. DOMAIN p = DOMAIN rs /\ \A i \in DOMAIN rs : p[i] = Was(rs[i])
  BY <1>1, <1>2 DEF Part
<1>4. c.unit = u /\ c.call = call
  OBVIOUS
<1>5. \A i : [start |-> From(rs[i]), end |-> To(rs[i]).v] = Was(rs[i])
  BY DEF Was, Raw
<1>6. SitesFor(c) = UNION {SitesOf(u, call, <<Was(rs[i])>>) : i \in DOMAIN rs}
  <2> DEFINE each(i) == SitesOf(u, call, <<[start |-> From(rs[i]), end |-> To(rs[i]).v]>>)
             same(i) == SitesOf(u, call, <<Was(rs[i])>>)
  <2>1. \A i : each(i) = same(i)
    BY <1>5, Zenon
  <2>2. SitesFor(c) = UNION {each(i) : i \in DOMAIN rs}
    BY <1>1, <1>4, ZenonT(40) DEF SitesFor
  <2> HIDE DEF each, same
  <2>3. UNION {each(i) : i \in DOMAIN rs} = UNION {same(i) : i \in DOMAIN rs}
    BY <2>1
  <2> QED BY <2>2, <2>3 DEF same
<1>7. CASE none
  <2>1. \A ranges : SitesOf(u, call, ranges) = {}
    BY <1>7, Zenon DEF SitesOf
  <2> QED BY <1>6, <2>1
<1>8. CASE ~none
  <2>1. \A ranges : SitesOf(u, call, ranges)
                      = {site(ranges[i]) : i \in {i \in DOMAIN ranges : long(ranges[i])}}
    BY <1>8, Zenon DEF SitesOf
  <2>2. ASSUME NEW w
        PROVE  SitesOf(u, call, <<w>>) = {site(y) : y \in {y \in {w} : long(y)}}
    <3>1. PICK s : s = <<w>>
      OBVIOUS
    <3>2. DOMAIN s = {1} /\ s[1] = w
      BY <3>1
    <3>3. SitesOf(u, call, s) = {site(s[i]) : i \in {i \in {1} : long(s[i])}}
      BY <2>1, <3>2, Zenon
    <3> HIDE DEF site, long
    <3>4. {site(s[i]) : i \in {i \in {1} : long(s[i])}} = {site(y) : y \in {y \in {w} : long(y)}}
      BY <3>2
    <3> QED BY <3>1, <3>3, <3>4
  <2>3. SitesOf(u, call, p) = {site(p[i]) : i \in {i \in DOMAIN rs : long(p[i])}}
    BY <1>3, <2>1, Zenon
  <2> HIDE DEF site, long
  <2>4. {site(p[i]) : i \in {i \in DOMAIN rs : long(p[i])}}
          = UNION {{site(y) : y \in {y \in {Was(rs[i])} : long(y)}} : i \in DOMAIN rs}
    BY <1>3
  <2>5. UNION {{site(y) : y \in {y \in {Was(rs[i])} : long(y)}} : i \in DOMAIN rs}
          = UNION {SitesOf(u, call, <<Was(rs[i])>>) : i \in DOMAIN rs}
    BY <2>2
  <2> QED BY <1>1, <1>6, <2>3, <2>4, <2>5
<1> QED BY <1>7, <1>8

-----------------------------------------------------------------------------
(* What has been called and what has been read of it.                      *)

Described == UNION {SitesFor(c) : c \in {c \in calls : units[c.unit].bad = "no"}}

CallType ==
  /\ walked \in Nat /\ walked <= Len(units)
  /\ walked = 0 => calls = {} /\ sites = {}
  /\ walked > 0 => LinesRead
  /\ \A c \in calls :
       /\ c = [unit |-> c.unit, call |-> c.call] /\ c.unit \in 1 .. walked /\ c.call \in Calls
       /\ elf.kind = "image" \/ \A i \in DOMAIN c.call.ranges :
            c.call.ranges[i].sec \notin Discarded

(* The call sites are those that were described of readable units so far.  *)
CallInv == CallType /\ sites = Described

LEMMA RangeOfCall ==
  ASSUME NEW call \in Calls, NEW i \in DOMAIN call.ranges
  PROVE  RangeFine(call.ranges[i])
<1>1. PICK rs : rs = call.ranges
  OBVIOUS
<1>2. /\ rs \in Seq([sec : Secs, start : Nat, end : Nat])
      /\ rs[i].start <= rs[i].end /\ rs[i].end <= Size[rs[i].sec]
  BY <1>1, CallAssumption, Zenon
<1>3. PICK S : S = [sec : Secs, start : Nat, end : Nat]
  OBVIOUS
<1>4. rs \in Seq(S) /\ i \in DOMAIN rs
  BY <1>1, <1>2, <1>3
<1>5. rs[i] \in S
  BY ONLY <1>4
<1> QED BY <1>1, <1>2, <1>3, <1>5, Zenon DEF RangeFine

LEMMA CallsFine ==
  ASSUME NEW call \in Calls
  PROVE  RangesOf(call.ranges)
<1>1. PICK rs : rs = call.ranges
  OBVIOUS
<1>2. rs \in Seq([sec : Secs, start : Nat, end : Nat]) /\ rs # <<>>
  BY <1>1, CallAssumption, Zenon
<1>3. DOMAIN rs = 1 .. Len(rs)
  <2>1. PICK S : S = [sec : Secs, start : Nat, end : Nat]
    OBVIOUS
  <2>2. rs \in Seq(S)
    BY <1>2, <2>1
  <2> QED BY ONLY <2>2
<1>4. \A i \in 1 .. Len(rs) : RangeFacts(rs[i])
  BY <1>1, <1>3, RangeOfCall, RangesFine
<1> QED BY <1>1, <1>2, <1>4, Zenon DEF RangesOf

LEMMA DescribedIs == CallSitesExact <=> sites = Described
BY Zenon DEF CallSitesExact, Described, SitesFor

LEMMA SitesHeld ==
  ASSUME UNCHANGED <<elf, units>>
  PROVE  \A c : SitesFor(c)' = SitesFor(c)
<1>1. elf' = elf /\ units' = units
  OBVIOUS
<1>2. \A s, o : Addr(s, o)' = Addr(s, o)
  BY <1>1, Zenon DEF Addr
<1>3. \A r : From(r)' = From(r) /\ To(r)' = To(r)
  BY <1>2, Zenon DEF From, To
<1>4. \A u, i : CallFile(u, i)' = CallFile(u, i)
  BY <1>1, Zenon DEF CallFile, FileOf, CompDir, Metadata
<1>5. ASSUME NEW u, NEW call, NEW ranges
      PROVE  SitesOf(u, call, ranges)' = SitesOf(u, call, ranges)
  <2>1. CallFile(u, call.file)' = CallFile(u, call.file)
    BY <1>4
  <2> QED BY <2>1, Zenon DEF SitesOf
<1>6. TAKE c
<1> QED BY <1>3, <1>5, Zenon DEF SitesFor

\* A step that leaves what was called and read, and the units, alone.
LEMMA CallsHeld ==
  ASSUME CallInv, UNCHANGED <<elf, units, calls, sites, walked>>, walked > 0 => LinesRead'
  PROVE  CallInv'
<1>1. elf' = elf /\ units' = units /\ calls' = calls /\ sites' = sites /\ walked' = walked
  OBVIOUS
<1>2. \A c : SitesFor(c)' = SitesFor(c)
  BY <1>1, SitesHeld
<1>3. Described' = Described
  BY <1>1, <1>2, Zenon DEF Described
<1>4. CallType'
  BY <1>1, Zenon DEF CallInv, CallType
<1> QED BY <1>1, <1>3, <1>4, Zenon DEF CallInv

LEMMA UnitHeader ==
  ASSUME LineType, NEW n \in 1 .. Len(units)
  PROVE  units[n].h \in Headers
<1>1. units \in Seq(Units)
  BY DEF LineType
<1>2. units[n] \in Units
  <2>1. PICK S : S = Units
    OBVIOUS
  <2> QED BY <1>1, <2>1
<1> QED BY <1>2 DEF Units

(* The assembler and the reader of the rows only run before the walk.      *)
LEMMA RowsStepCalls ==
  ASSUME LineInv, CallInv, walked = 0, Assembles \/ Decodes, UNCHANGED infoVars
  PROVE  CallInv'
<1>1. calls' = calls /\ sites' = sites /\ walked' = walked
  BY DEF infoVars
<1>2. calls = {} /\ sites = {}
  BY Zenon DEF CallInv, CallType
<1>3. Described' = {}
  BY <1>1, <1>2 DEF Described
<1>4. Len(units') \in Nat
  <2>1. LineType'
    <3>1. [Next]_vars
      BY DEF Next
    <3> QED BY <3>1, LineStep DEF LineInv
  <2> QED BY <2>1 DEF LineType
<1>5. CallType'
  BY <1>1, <1>2, <1>4 DEF CallType
<1> QED BY <1>1, <1>2, <1>3, <1>5, Zenon DEF CallInv

LEMMA WalkCalls ==
  ASSUME LineInv, CallInv, WalkUnit
  PROVE  CallInv'
<1>1. /\ elf' = elf /\ units' = units /\ code' = code /\ pos' = pos /\ asm' = asm
      /\ walked' = walked + 1 /\ LinesRead /\ walked < Len(units)
  BY DEF WalkUnit
<1>2. PICK n \in Nat, k \in Nat : n = walked /\ k = Len(units)
  BY DEF CallInv, CallType, LineInv, LineType
<1>3. n + 1 \in Nat /\ n + 1 <= k /\ n + 1 > 0 /\ n + 1 # 0 /\ n + 1 \in 1 .. k
        /\ 1 .. n \subseteq 1 .. n + 1 /\ n + 1 \in 1 .. n + 1
  BY <1>1, <1>2
<1>4. LinesRead'
  BY <1>1, Zenon DEF LinesRead, Idle
<1>5. \A c : SitesFor(c)' = SitesFor(c)
  BY <1>1, SitesHeld
<1>6. ASSUME calls' = calls, sites' = sites
      PROVE  CallInv'
  <2>1. Described' = Described
    BY <1>1, <1>5, <1>6, Zenon DEF Described
  <2>2. CallType'
    BY <1>1, <1>2, <1>3, <1>4, <1>6, Zenon DEF CallInv, CallType
  <2> QED BY <1>6, <2>1, <2>2, Zenon DEF CallInv
<1>7. ASSUME NEW call \in Calls, NEW b, b \in
               {IF s = NoSec THEN Null ELSE Addr(s, 0) : s \in Bases},
             elf.kind = "image" \/ \A i \in DOMAIN call.ranges :
               call.ranges[i].sec \notin Discarded,
             calls' = calls \cup {[unit |-> n + 1, call |-> call]},
             NEW die \in Dies(call, units[n + 1].h.version, b),
             sites' = sites \cup Kept(n + 1, SitesOf(n + 1, call, DieRanges(die,
               units[n + 1].h.version, b)))
      PROVE  CallInv'
  <2>1. PICK c : c = [unit |-> n + 1, call |-> call]
    OBVIOUS
  <2>2. c.unit = n + 1 /\ c.call = call
    BY <2>1
  <2>3. CallType'
    <3>1. \A d \in calls' :
            /\ d = [unit |-> d.unit, call |-> d.call] /\ d.unit \in 1 .. n + 1 /\ d.call \in Calls
            /\ elf'.kind = "image" \/ \A i \in DOMAIN d.call.ranges :
                 d.call.ranges[i].sec \notin Discarded
      <4>1. TAKE d \in calls'
      <4>2. CASE d = c
        BY <1>1, <1>3, <1>7, <2>1, <2>2, <4>2, Zenon
      <4>3. CASE d \in calls
        BY <1>1, <1>2, <1>3, <4>3, Zenon DEF CallInv, CallType
      <4> QED BY <1>7, <2>1, <4>1, <4>2, <4>3
    <3>2. walked' = n + 1 /\ walked' # 0
      BY <1>1, <1>2, <1>3
    <3> QED BY <1>1, <1>2, <1>3, <1>4, <3>1, <3>2, Zenon DEF CallType
  <2>4. PICK v : v = units[n + 1].h.version
    OBVIOUS
  <2>5. v \in Nat
    <3>1. units[n + 1].h \in Headers
      BY <1>2, <1>3, UnitHeader DEF LineInv
    <3> QED BY <2>4, <3>1, HeadersFine DEF HeaderFacts
  <2>6. elf.kind \in {"rel", "image"} /\ BaseFine(b) /\ RangesOf(call.ranges)
    <3>1. elf.kind \in {"rel", "image"}
      BY HeaderAssumption DEF LineInv, LineType
    <3>2. BaseFine(b)
      BY <1>7, BasesFine
    <3> QED BY <3>1, <3>2, CallsFine
  <2>7. DieRanges(die, v, b) = Part(call.ranges, Len(call.ranges))
    BY <1>7, <2>4, <2>5, <2>6, DieRead
  <2>8. SitesOf(n + 1, call, DieRanges(die, v, b)) = SitesFor(c)
    BY <2>1, <2>6, <2>7, SitesParts
  <2>9. sites' = sites \cup (IF units[c.unit].bad = "no" THEN SitesFor(c) ELSE {})
    BY <1>7, <2>2, <2>4, <2>8, Zenon DEF Kept
  <2>10. Described' = Described \cup (IF units[c.unit].bad = "no" THEN SitesFor(c) ELSE {})
    <3> DEFINE fine(C) == {d \in C : units[d.unit].bad = "no"}
               of(d) == SitesFor(d)
    <3>1. Described' = UNION {of(d) : d \in fine(calls \cup {c})}
      BY <1>1, <1>5, <1>7, <2>1, Zenon DEF Described
    <3>2. Described = UNION {of(d) : d \in fine(calls)}
      BY DEF Described
    <3>3. SitesFor(c) = of(c)
      OBVIOUS
    <3>4. fine(calls \cup {c}) = fine(calls) \cup (IF units[c.unit].bad = "no" THEN {c} ELSE {})
      OBVIOUS
    <3> HIDE DEF fine, of
    <3>5. PICK F : F = fine(calls)
      OBVIOUS
    <3>6. UNION {of(d) : d \in F \cup {c}} = (UNION {of(d) : d \in F}) \cup of(c)
      OBVIOUS
    <3>7. CASE units[c.unit].bad = "no"
      <4>1. fine(calls \cup {c}) = F \cup {c}
        BY <3>4, <3>5, <3>7
      <4> QED BY <3>1, <3>2, <3>3, <3>5, <3>6, <3>7, <4>1, Zenon
    <3>8. CASE units[c.unit].bad # "no"
      <4>1. fine(calls \cup {c}) = F /\ (IF units[c.unit].bad = "no" THEN SitesFor(c) ELSE {}) = {}
        BY <3>4, <3>5, <3>8
      <4>2. Described' = Described
        BY <3>1, <3>2, <3>5, <4>1, Zenon
      <4> QED BY <4>1, <4>2
    <3> QED BY <3>7, <3>8
  <2> QED BY <2>3, <2>9, <2>10, Zenon DEF CallInv
<1> QED
  <2>1. CASE UNCHANGED <<calls, sites, left>>
    BY <1>6, <2>1
  <2>2. CASE ~UNCHANGED <<calls, sites, left>>
    <3>1. walked + 1 = n + 1
      BY <1>2
    <3>2. PICK call \in Calls, s \in Bases :
            LET base == IF s = NoSec THEN Null ELSE Addr(s, 0) IN
            /\ elf.kind = "image" \/ \A i \in DOMAIN call.ranges :
                 call.ranges[i].sec \notin Discarded
            /\ calls' = calls \cup {[unit |-> n + 1, call |-> call]}
            /\ \E die \in Dies(call, units[n + 1].h.version, base) :
                 sites' = sites \cup
                   Kept(n + 1, SitesOf(n + 1, call, DieRanges(die, units[n + 1].h.version, base)))
      BY <2>2, <3>1, Zenon DEF WalkUnit
    <3>3. PICK b : b = IF s = NoSec THEN Null ELSE Addr(s, 0)
      OBVIOUS
    <3>4. b \in {IF t = NoSec THEN Null ELSE Addr(t, 0) : t \in Bases}
      BY <3>3
    <3>5. PICK die \in Dies(call, units[n + 1].h.version, b) :
            sites' = sites \cup
              Kept(n + 1, SitesOf(n + 1, call, DieRanges(die, units[n + 1].h.version, b)))
      BY <3>2, <3>3, Zenon
    <3>6. /\ elf.kind = "image" \/ \A i \in DOMAIN call.ranges : call.ranges[i].sec \notin Discarded
          /\ calls' = calls \cup {[unit |-> n + 1, call |-> call]}
      BY <3>2, Zenon
    <3> QED BY <1>7, <3>4, <3>5, <3>6, Zenon
  <2> QED BY <2>1, <2>2

LEMMA CallStep ==
  ASSUME LineInv, CallInv, [Next]_vars
  PROVE  CallInv'
<1>1. CASE walked = 0 /\ (Assembles \/ Decodes) /\ UNCHANGED infoVars
  BY <1>1, RowsStepCalls
<1>2. CASE WalkUnit
  BY <1>2, WalkCalls
<1>3. CASE Inventory \/ UNCHANGED vars
  <2>1. /\ UNCHANGED <<elf, units, calls, sites, walked>>
        /\ code' = code /\ pos' = pos /\ asm' = asm /\ units' = units
    BY <1>3 DEF Inventory, vars, lineVars, infoVars
  <2>2. LinesRead' = LinesRead
    BY <2>1, Zenon DEF LinesRead, Idle
  <2>3. walked > 0 => LinesRead'
    BY <2>2 DEF CallInv, CallType
  <2> QED BY <2>1, <2>3, CallsHeld
<1> QED BY <1>1, <1>2, <1>3 DEF Next

LEMMA CallInitially ==
  ASSUME Init
  PROVE  CallInv
<1>1. calls = {} /\ sites = {} /\ walked = 0 /\ units = <<>>
  BY DEF Init, LineInit
<1>2. Len(units) = 0 /\ walked <= Len(units) /\ walked \in Nat
  BY <1>1
<1>3. CallType
  BY <1>1, <1>2 DEF CallType
<1>4. Described = {}
  BY <1>1 DEF Described
<1> QED BY <1>1, <1>3, <1>4, Zenon DEF CallInv

(* What is read of the units' inlined calls is what was described of them. *)
THEOREM CallInvariant == Spec => [](LineInv /\ CallInv)
<1>1. Init => LineInv /\ CallInv
  BY LineInitially, CallInitially DEF Init
<1>2. LineInv /\ CallInv /\ [Next]_vars => (LineInv /\ CallInv)'
  BY LineStep, CallStep
<1> QED BY <1>1, <1>2, PTL DEF Spec

(* Every inlined call of a readable unit is read with the ranges it was    *)
(* inlined into, in whichever of the forms the compiler wrote them, and    *)
(* nothing else is: see CallSitesExact.                                    *)
THEOREM CallSitesExactCorrect == Spec => []CallSitesExact
<1>1. CallInv => CallSitesExact
  BY DescribedIs DEF CallInv
<1> QED BY <1>1, CallInvariant, PTL

-----------------------------------------------------------------------------
(* Where the rows are: one place for each, further on in its section than  *)
(* the rows before it unless that section was discarded.                   *)

SpotFine(x, s, o) ==
  /\ Addr(s, o) = [v |-> x.address, sec |-> x.section]
  /\ elf.kind = "rel" => s \notin Discarded
  /\ o <= Size[s] /\ (~x.end_sequence => o < Size[s])
Onward(x, s, o, y, t, p) ==
  x.end_sequence \/ (s = t /\ o <= p /\ (y.end_sequence => o < p))

Spread(m, ss, os) ==
  /\ ss \in Seq(Secs) /\ os \in Seq(Nat) /\ Len(ss) = Len(m) /\ Len(os) = Len(m)
  /\ \A i \in 1 .. Len(m) : SpotFine(m[i], ss[i], os[i])
  /\ \A i, j \in 1 .. Len(m) : j = i + 1 => Onward(m[i], ss[i], os[i], m[j], ss[j], os[j])
  /\ \A i, j \in 1 .. Len(m) : i < j /\ ss[i] = ss[j] /\ ss[i] \notin Discarded => os[i] <= os[j]

\* How far a section has been filled.
Edge(s) == IF asm.open /\ s = asm.sec /\ s \notin Discarded THEN Offset(asm.ops) ELSE top[s]
Reach(ss, os) == \A i \in 1 .. Len(meant) : ss[i] \notin Discarded => os[i] <= Edge(ss[i])
AtEdge(ss, os) ==
  asm.open => \/ Ended
              \/ /\ ss[Len(meant)] = asm.sec /\ os[Len(meant)] = Offset(asm.ops)
                 /\ Offset(asm.ops) + H.min_inst <= Size[asm.sec]

(* Each row has a section and an offset in it, which grow with the rows of *)
(* the section and stay within what has been assembled of it.              *)
PlaceInv ==
  /\ ~asm.open => Ended
  /\ asm.open /\ elf.kind = "rel" => asm.sec \notin Discarded
  /\ \E ss, os : Spread(meant, ss, os) /\ Reach(ss, os) /\ AtEdge(ss, os)

LEMMA AppendedEach ==
  ASSUME NEW S, NEW f \in Seq(S), NEW x \in S, NEW n \in Nat, Len(f) = n
  PROVE  /\ Append(f, x) \in Seq(S) /\ Len(Append(f, x)) = n + 1 /\ Append(f, x)[n + 1] = x
         /\ \A i \in 1 .. n : Append(f, x)[i] = f[i]
OBVIOUS

LEMMA SpreadGrows ==
  ASSUME NEW S, NEW m \in Seq(S), NEW ss, NEW os, Spread(m, ss, os),
         NEW x \in S, NEW s \in Secs, NEW o \in Nat, SpotFine(x, s, o),
         NEW n \in Nat, n = Len(m),
         n # 0 => Onward(m[n], ss[n], os[n], x, s, o),
         s \notin Discarded => \A i \in 1 .. n : ss[i] = s => os[i] <= o
  PROVE  Spread(Append(m, x), Append(ss, s), Append(os, o))
<1>1. PICK m1, s1, o1 : m1 = Append(m, x) /\ s1 = Append(ss, s) /\ o1 = Append(os, o)
  OBVIOUS
<1>2. ss \in Seq(Secs) /\ os \in Seq(Nat) /\ Len(ss) = n /\ Len(os) = n
  BY DEF Spread
<1>3. /\ Len(m1) = n + 1 /\ m1[n + 1] = x /\ \A i \in 1 .. n : m1[i] = m[i]
  BY <1>1, AppendedEach
<1>4. s1 \in Seq(Secs) /\ Len(s1) = n + 1 /\ s1[n + 1] = s /\ \A i \in 1 .. n : s1[i] = ss[i]
  BY <1>1, <1>2, AppendedEach
<1>5. o1 \in Seq(Nat) /\ Len(o1) = n + 1 /\ o1[n + 1] = o /\ \A i \in 1 .. n : o1[i] = os[i]
  BY <1>1, <1>2, AppendedEach
<1>6. \A i \in 1 .. n + 1 : i \in 1 .. n \/ i = n + 1
  OBVIOUS
<1>7. ASSUME NEW i \in 1 .. n + 1
      PROVE  SpotFine(m1[i], s1[i], o1[i])
  <2>1. CASE i \in 1 .. n
    BY <1>3, <1>4, <1>5, <2>1, Zenon DEF Spread
  <2>2. CASE i = n + 1
    BY <1>3, <1>4, <1>5, <2>2, Zenon
  <2> QED BY <1>6, <2>1, <2>2
<1>8. ASSUME NEW i \in 1 .. n + 1, NEW j \in 1 .. n + 1, j = i + 1
      PROVE  Onward(m1[i], s1[i], o1[i], m1[j], s1[j], o1[j])
  <2>1. i \in 1 .. n /\ (j \in 1 .. n \/ (j = n + 1 /\ i = n /\ n # 0))
    BY <1>8
  <2>2. CASE j \in 1 .. n
    BY <1>3, <1>4, <1>5, <1>8, <2>1, <2>2, Zenon DEF Spread
  <2>3. CASE j = n + 1 /\ i = n /\ n # 0
    BY <1>3, <1>4, <1>5, <2>1, <2>3, Zenon
  <2> QED BY <2>1, <2>2, <2>3
<1>9. ASSUME NEW i \in 1 .. n + 1, NEW j \in 1 .. n + 1, i < j,
             s1[i] = s1[j], s1[i] \notin Discarded
      PROVE  o1[i] <= o1[j]
  <2>1. i \in 1 .. n /\ (j \in 1 .. n \/ j = n + 1)
    BY <1>9
  <2>2. CASE j \in 1 .. n
    BY <1>4, <1>5, <1>9, <2>1, <2>2, Zenon DEF Spread
  <2>3. CASE j = n + 1
    BY <1>4, <1>5, <1>9, <2>1, <2>3, Zenon
  <2> QED BY <2>1, <2>2, <2>3
<1>10. Spread(m1, s1, o1)
  BY <1>3, <1>4, <1>5, <1>7, <1>8, <1>9, Zenon DEF Spread
<1> QED BY <1>1, <1>10

LEMMA OffsetGrows ==
  ASSUME LineType, asm.open, NEW n \in Nat
  PROVE  /\ Offset(asm.ops) \in Nat /\ Offset(asm.ops + n) \in Nat
         /\ Offset(asm.ops) <= Offset(asm.ops + n)
         /\ H.min_inst \in Nat /\ H.min_inst >= 1
         /\ n = H.max_ops - (asm.ops % H.max_ops)
              => Offset(asm.ops + n) = Offset(asm.ops) + H.min_inst
<1>1. PICK m \in Nat, b \in Nat \ {0}, a \in Nat, k \in Nat :
        m = H.min_inst /\ b = H.max_ops /\ a = asm.start /\ k = asm.ops
  BY SequenceTyped DEF HeaderFacts
<1>2. m >= 1
  BY <1>1, SequenceTyped, HeaderAssumption
<1>3. PICK q \in Nat, r \in 0 .. b - 1 : q = k \div b /\ r = k % b
  BY Division
<1>4. PICK p \in Nat : p = (r + n) \div b
  <2>1. r + n \in Nat
    BY <1>3
  <2> QED BY <2>1, Division
<1>5. (k + n) \div b = q + p
  BY <1>3, <1>4, WordsAdd, ZenonT(40)
<1>6. n = b - r => p = 1
  <2>1. ASSUME n = b - r
        PROVE  p = 1
    <3>1. r + n = b * 1 + 0 /\ 0 \in 0 .. b - 1 /\ 1 \in Nat
      BY ONLY <2>1, r \in 0 .. b - 1, b \in Nat \ {0}
    <3> QED BY <1>4, <3>1, DivisionIs
  <2> QED BY <2>1
<1>7. PICK x \in Nat, y \in Nat : x = m * q /\ y = m * p
  BY <1>1, <1>3, <1>4
<1>8. m * (q + p) = x + y /\ (p = 1 => y = m)
  <2>1. m * (q + p) = m * q + m * p /\ m * 1 = m
    BY ONLY m \in Nat, q \in Nat, p \in Nat
  <2> QED BY <1>7, <2>1
<1>9. Offset(asm.ops) = a + x /\ Offset(asm.ops + n) = a + (x + y)
  BY <1>1, <1>3, <1>5, <1>7, <1>8 DEF Offset
<1>10. /\ a + x \in Nat /\ a + (x + y) \in Nat /\ a + x <= a + (x + y)
       /\ y = m => a + (x + y) = (a + x) + m
  BY ONLY a \in Nat, x \in Nat, y \in Nat, m \in Nat
<1>11. n = H.max_ops - (asm.ops % H.max_ops) => n = b - r
  BY <1>1, <1>3
<1> QED BY <1>1, <1>2, <1>6, <1>8, <1>9, <1>10, <1>11

LEMMA SpreadHeld ==
  ASSUME elf' = elf, NEW ss, NEW os, NEW m, Spread(m, ss, os), meant' = m
  PROVE  Spread(meant, ss, os)'
<1>1. \A s, o : Addr(s, o)' = Addr(s, o)
  BY Zenon DEF Addr
<1>2. \A x, s, o : SpotFine(x, s, o)' <=> SpotFine(x, s, o)
  BY <1>1, Zenon DEF SpotFine
<1> QED BY <1>2, Zenon DEF Spread, Onward

\* A step that neither assembles a row nor moves what is being assembled.
LEMMA PlaceHeld ==
  ASSUME PlaceInv, UNCHANGED <<elf, units, top, meant, asm>>
  PROVE  PlaceInv'
<1>1. elf' = elf /\ units' = units /\ top' = top /\ meant' = meant /\ asm' = asm
  OBVIOUS
<1>2. PICK ss, os : Spread(meant, ss, os) /\ Reach(ss, os) /\ AtEdge(ss, os)
  BY Zenon DEF PlaceInv
<1>3. Spread(meant, ss, os)'
  BY <1>1, <1>2, SpreadHeld
<1>4. H' = H
  BY <1>1, Zenon DEF H
<1>5. Offset(asm.ops)' = Offset(asm.ops) /\ Ended' = Ended
  BY <1>1, <1>4, Zenon DEF Offset, Ended
<1>6. \A s : Edge(s)' = Edge(s)
  BY <1>1, <1>5, Zenon DEF Edge
<1>7. Reach(ss, os)' /\ AtEdge(ss, os)'
  BY <1>1, <1>2, <1>4, <1>5, <1>6, Zenon DEF Reach, AtEdge
<1> QED BY <1>1, <1>3, <1>5, <1>7, Zenon DEF PlaceInv

LEMMA StartUnitPlaces ==
  ASSUME LineInv, PlaceInv, StartUnit
  PROVE  PlaceInv'
<1>1. /\ ~asm.open /\ elf' = elf /\ top' = top /\ meant' = meant
      /\ \E h : asm' = [asm EXCEPT !.files = h]
  BY DEF StartUnit
<1>2. ~asm'.open
  <2>1. LineInv'
    BY StartUnitKeeps
  <2>2. asm \in Sequence \/ asm \in [open : {FALSE}, files : Seq(Names)]
    BY DEF LineInv, LineType
  <2>3. CASE asm \in Sequence
    BY <1>1, <2>3 DEF Sequence
  <2>4. CASE asm \in [open : {FALSE}, files : Seq(Names)]
    BY <1>1, <2>4
  <2> QED BY <2>2, <2>3, <2>4
<1>3. Ended' /\ Ended
  BY <1>1, Zenon DEF PlaceInv, Ended
<1>4. PICK ss, os : Spread(meant, ss, os) /\ Reach(ss, os)
  BY Zenon DEF PlaceInv
<1>5. \A s : Edge(s) = top[s] /\ Edge(s)' = top[s]
  BY <1>1, <1>2, Zenon DEF Edge
<1>6. Reach(ss, os)'
  BY <1>1, <1>4, <1>5, Zenon DEF Reach
<1>7. Spread(meant, ss, os)'
  BY <1>1, <1>4, SpreadHeld
<1>8. AtEdge(ss, os)'
  BY <1>2, Zenon DEF AtEdge
<1> QED BY <1>2, <1>3, <1>6, <1>7, <1>8, Zenon DEF PlaceInv

LEMMA OpenSequencePlaces ==
  ASSUME LineInv, PlaceInv, OpenSequence
  PROVE  PlaceInv'
<1>1. PICK s \in Secs :
        /\ elf.kind = "image" \/ s \notin Discarded
        /\ asm' = [open |-> TRUE, sec |-> s, start |-> top[s], ops |-> 0, line |-> 1,
                   file |-> 1, files |-> asm.files]
        /\ Asm(<<0, 2, 2, Addr(s, top[s]).v>>, 4)
  BY Zenon DEF OpenSequence
<1>2. /\ ~asm.open /\ units # <<>> /\ top' = top /\ meant' = meant /\ elf' = elf /\ units' = units
  BY <1>1, Zenon DEF OpenSequence, Asm
<1>3. asm'.open /\ asm'.sec = s /\ asm'.start = top[s] /\ asm'.ops = 0
  BY <1>1
<1>4. Ended /\ Ended'
  BY <1>2, Zenon DEF PlaceInv, Ended
<1>5. Offset(asm.ops)' = top[s]
  <2>1. H' = H /\ HeaderFacts(H)
    BY <1>2, OwnHeader DEF H, LineInv
  <2>2. PICK b \in Nat \ {0}, m \in Nat, t \in Nat : b = H.max_ops /\ m = H.min_inst /\ t = top[s]
    BY <2>1 DEF HeaderFacts, LineInv, LineType
  <2>3. 0 \div b = 0 /\ m * 0 = 0 /\ t + 0 = t
    OBVIOUS
  <2> QED BY <1>3, <2>1, <2>2, <2>3 DEF Offset
<1>6. PICK ss, os : Spread(meant, ss, os) /\ Reach(ss, os)
  BY Zenon DEF PlaceInv
<1>7. \A t : Edge(t) = top[t] /\ Edge(t)' = top[t]
  BY <1>2, <1>3, <1>5, Zenon DEF Edge
<1>8. Reach(ss, os)'
  BY <1>2, <1>6, <1>7, Zenon DEF Reach
<1>9. Spread(meant, ss, os)'
  BY <1>2, <1>6, SpreadHeld
<1>10. AtEdge(ss, os)'
  BY <1>4, Zenon DEF AtEdge
<1>11. elf'.kind = "rel" => asm'.sec \notin Discarded
  BY <1>1, <1>2, <1>3
<1> QED BY <1>3, <1>4, <1>8, <1>9, <1>10, <1>11, Zenon DEF PlaceInv

\* A row is appended at the edge of what is being assembled, or further on.
LEMMA RowPlaced ==
  ASSUME LineInv, asm.open, NEW ss, NEW os, Spread(meant, ss, os), Reach(ss, os), AtEdge(ss, os),
         elf.kind = "rel" => asm.sec \notin Discarded,
         NEW o \in Nat, Offset(asm.ops) <= o, o <= Size[asm.sec],
         NEW x \in Rows, Addr(asm.sec, o) = [v |-> x.address, sec |-> x.section],
         IF x.end_sequence THEN ~Ended => Offset(asm.ops) < o ELSE o < Size[asm.sec],
         Offset(asm.ops) \in Nat
  PROVE  Spread(Append(meant, x), Append(ss, asm.sec), Append(os, o))
<1>1. meant \in Seq(Rows) /\ asm.sec \in Secs
  BY SequenceTyped DEF LineInv, LineType
<1>2. PICK n \in Nat : n = Len(meant)
  BY <1>1
<1>3. SpotFine(x, asm.sec, o)
  BY Zenon DEF SpotFine
<1>4. ASSUME n # 0
      PROVE  Onward(meant[n], ss[n], os[n], x, asm.sec, o)
  <2>1. meant # <<>> /\ Last(meant) = meant[n]
    BY <1>1, <1>2, <1>4 DEF Last
  <2>2. CASE Ended
    BY <2>1, <2>2, Zenon DEF Ended, Onward
  <2>3. CASE ~Ended
    <3>1. ss[n] = asm.sec /\ os[n] = Offset(asm.ops)
      BY <1>2, <2>3, Zenon DEF AtEdge
    <3> QED BY <2>3, <3>1, Zenon DEF Onward
  <2> QED BY <2>2, <2>3
<1>5. ASSUME asm.sec \notin Discarded, NEW i \in 1 .. n, ss[i] = asm.sec
      PROVE  os[i] <= o
  <2>1. os[i] <= Edge(ss[i]) /\ Edge(ss[i]) = Offset(asm.ops)
    BY <1>2, <1>5, Zenon DEF Reach, Edge
  <2>2. os[i] \in Nat
    <3>1. os \in Seq(Nat) /\ Len(os) = n
      BY <1>2 DEF Spread
    <3> QED BY <3>1
  <2> QED BY <2>1, <2>2
<1> QED BY <1>1, <1>2, <1>3, <1>4, <1>5, SpreadGrows

LEMMA ReachGrows ==
  ASSUME NEW S, meant \in Seq(S), NEW ss, NEW os, Reach(ss, os), ss \in Seq(Secs), os \in Seq(Nat),
         Len(ss) = Len(meant), Len(os) = Len(meant),
         NEW x \in S, NEW s \in Secs, NEW o \in Nat, meant' = Append(meant, x),
         \A t \in Secs : Edge(t) \in Nat /\ Edge(t)' \in Nat /\ Edge(t) <= Edge(t)',
         s \notin Discarded => o <= Edge(s)'
  PROVE  Reach(Append(ss, s), Append(os, o))'
<1>1. PICK n \in Nat : n = Len(meant)
  OBVIOUS
<1>2. PICK s1, o1 : s1 = Append(ss, s) /\ o1 = Append(os, o)
  OBVIOUS
<1>3. /\ s1[n + 1] = s /\ o1[n + 1] = o /\ Len(meant') = n + 1
      /\ \A i \in 1 .. n : s1[i] = ss[i] /\ o1[i] = os[i]
  BY <1>1, <1>2, AppendedEach, SMTT(20)
<1>4. ASSUME NEW i \in 1 .. n + 1, s1[i] \notin Discarded
      PROVE  o1[i] <= Edge(s1[i])'
  <2>1. CASE i = n + 1
    BY <1>3, <1>4, <2>1
  <2>2. CASE i \in 1 .. n
    <3>1. os[i] <= Edge(ss[i])
      BY <1>1, <1>3, <1>4, <2>2 DEF Reach
    <3>2. os[i] \in Nat /\ ss[i] \in Secs
      BY <1>1, <2>2, SMTT(20)
    <3> QED BY <1>3, <2>2, <3>1, <3>2, SMTT(20)
  <2> QED BY <2>1, <2>2
<1> QED BY <1>2, <1>3, <1>4, Zenon DEF Reach

\* The row AssembleRow means, and where.
LEMMA RowAssembled ==
  ASSUME LineInv, AssembleRow
  PROVE  \E n \in Nat, x \in Rows :
           /\ ~x.end_sequence /\ meant' = Append(meant, x)
           /\ Addr(asm.sec, Offset(asm.ops + n)) = [v |-> x.address, sec |-> x.section]
           /\ Offset(asm.ops + n) + H.min_inst <= Size[asm.sec]
           /\ asm'.open /\ asm'.sec = asm.sec /\ asm'.start = asm.start /\ asm'.ops = asm.ops + n
           /\ elf' = elf /\ units' = units /\ top' = top
<1>1. asm.open /\ top' = top
  BY Zenon DEF AssembleRow
<1>2. LineType /\ asm \in Sequence
  BY <1>1, SequenceTyped DEF LineInv
<1>a. PICK n \in Advances, line \in Lines, f \in H.names \cup {NoFile} :
       LET known == f = NoFile \/ f \in {asm.files[i] : i \in DOMAIN asm.files}
           table == IF known THEN asm.files ELSE Append(asm.files, f)
           index == Index(table, f)
           to    == Addr(asm.sec, Offset(asm.ops + n))
           before == (IF known THEN <<>> ELSE <<0, 2, 3, f>>)
                       \o (IF index = asm.file THEN <<>> ELSE <<4, index>>) \o H.noise
       IN  /\ Offset(asm.ops + n) + H.min_inst <= Size[asm.sec]
           /\ \E w \in Ways(n, line - asm.line) :
                /\ asm' = [asm EXCEPT !.ops = @ + n, !.line = line, !.file = index,
                                      !.files = table]
                /\ Asm(before \o w.tokens, IF w.at = 0 THEN 0 ELSE Len(before) + w.at)
           /\ meant' = Append(meant,
                [section |-> to.sec, address |-> to.v, line |-> line, end_sequence |-> FALSE,
                 file |-> IF f = NoFile THEN NoFile ELSE <<CompDir(Len(units)), f>>])
  BY DEF AssembleRow
<1>b. PICK table : table = IF f = NoFile \/ f \in {asm.files[i] : i \in DOMAIN asm.files}
                           THEN asm.files ELSE Append(asm.files, f)
  OBVIOUS
<1>c. PICK index, to : index = Index(table, f) /\ to = Addr(asm.sec, Offset(asm.ops + n))
  OBVIOUS
<1>3. /\ Offset(asm.ops + n) + H.min_inst <= Size[asm.sec]
      /\ asm' = [asm EXCEPT !.ops = @ + n, !.line = line, !.file = index, !.files = table]
      /\ meant' = Append(meant,
           [section |-> to.sec, address |-> to.v, line |-> line, end_sequence |-> FALSE,
            file |-> IF f = NoFile THEN NoFile ELSE <<CompDir(Len(units)), f>>])
      /\ elf' = elf /\ units' = units
  BY <1>a, <1>b, <1>c, Zenon DEF Asm
<1>4. PICK x : x = [section |-> to.sec, address |-> to.v, line |-> line, end_sequence |-> FALSE,
                    file |-> IF f = NoFile THEN NoFile ELSE <<CompDir(Len(units)), f>>]
  OBVIOUS
<1>5. ~x.end_sequence /\ x.section = to.sec /\ x.address = to.v
  BY <1>4
<1>6. n \in Nat /\ meant' = Append(meant, x)
  BY <1>3, <1>4, HeaderAssumption
<1>7. x \in Rows
  <2>1. meant' \in Seq(Rows) /\ meant \in Seq(Rows)
    BY AssembleRowKeeps DEF LineInv, LineType
  <2>2. Append(meant, x)[Len(meant) + 1] = x /\ Len(meant) + 1 \in 1 .. Len(Append(meant, x))
    BY <2>1
  <2> QED BY <1>6, <2>1, <2>2
<1>8. Addr(asm.sec, Offset(asm.ops + n)) = [v |-> x.address, sec |-> x.section]
  <2>1. to = [v |-> to.v, sec |-> to.sec]
    BY <1>c DEF Addr
  <2> QED BY <1>c, <1>5, <2>1, Zenon
<1>9. asm'.open /\ asm'.sec = asm.sec /\ asm'.start = asm.start /\ asm'.ops = asm.ops + n
  BY <1>1, <1>2, <1>3 DEF Sequence
<1> QED BY <1>1, <1>3, <1>5, <1>6, <1>7, <1>8, <1>9, Zenon

LEMMA AssembleRowPlaces ==
  ASSUME LineInv, PlaceInv, AssembleRow
  PROVE  PlaceInv'
<1>1. asm.open
  BY Zenon DEF AssembleRow
<1>2. /\ LineType /\ asm.sec \in Secs /\ meant \in Seq(Rows) /\ top \in [Secs -> Nat]
      /\ Size[asm.sec] \in Nat /\ asm.ops \in Nat
  BY <1>1, SequenceTyped, PlaceAssumption DEF LineInv, LineType
<1>3. PICK n \in Nat, x \in Rows :
        /\ ~x.end_sequence /\ meant' = Append(meant, x)
        /\ Addr(asm.sec, Offset(asm.ops + n)) = [v |-> x.address, sec |-> x.section]
        /\ Offset(asm.ops + n) + H.min_inst <= Size[asm.sec]
        /\ asm'.open /\ asm'.sec = asm.sec /\ asm'.start = asm.start /\ asm'.ops = asm.ops + n
        /\ elf' = elf /\ units' = units /\ top' = top
  BY RowAssembled, Zenon
<1>4. PICK o : o = Offset(asm.ops + n)
  OBVIOUS
<1>5. /\ Offset(asm.ops) \in Nat /\ o \in Nat /\ Offset(asm.ops) <= o
      /\ H.min_inst \in Nat /\ H.min_inst >= 1
  BY <1>1, <1>2, <1>4, OffsetGrows
<1>6. o < Size[asm.sec] /\ o <= Size[asm.sec]
  <2>1. o + H.min_inst <= Size[asm.sec]
    BY <1>3, <1>4
  <2> QED BY <1>2, <1>5, <2>1
<1>7. PICK ss, os : Spread(meant, ss, os) /\ Reach(ss, os) /\ AtEdge(ss, os)
  BY Zenon DEF PlaceInv
<1>8. elf.kind = "rel" => asm.sec \notin Discarded
  BY <1>1, Zenon DEF PlaceInv
<1>9. PICK s1, o1 : s1 = Append(ss, asm.sec) /\ o1 = Append(os, o)
  OBVIOUS
<1>10. Spread(meant, s1, o1)'
  <2>1. PICK m : m = Append(meant, x)
    OBVIOUS
  <2>2. Spread(m, s1, o1)
    BY <1>1, <1>3, <1>4, <1>5, <1>6, <1>7, <1>8, <1>9, <2>1, RowPlaced
  <2> QED BY <1>3, <2>1, <2>2, SpreadHeld
<1>11. H' = H /\ Offset(asm.ops)' = o
  BY <1>3, <1>4, Zenon DEF H, Offset
<1>12. \A t \in Secs : Edge(t) \in Nat /\ Edge(t)' \in Nat /\ Edge(t) <= Edge(t)'
  <2>1. TAKE t \in Secs
  <2>2. top[t] \in Nat
    BY <1>2
  <2>3. CASE t = asm.sec /\ t \notin Discarded
    <3>1. Edge(t) = Offset(asm.ops) /\ Edge(t)' = o
      BY <1>1, <1>3, <1>11, <2>3, Zenon DEF Edge
    <3> QED BY <1>5, <3>1
  <2>4. CASE ~(t = asm.sec /\ t \notin Discarded)
    <3>1. Edge(t) = top[t] /\ Edge(t)' = top[t]
      BY <1>3, <2>4, Zenon DEF Edge
    <3> QED BY <2>2, <3>1
  <2> QED BY <2>3, <2>4
<1>13. asm.sec \notin Discarded => o <= Edge(asm.sec)'
  <2>1. ASSUME asm.sec \notin Discarded
        PROVE  Edge(asm.sec)' = o
    BY <1>3, <1>11, <2>1, Zenon DEF Edge
  <2> QED BY <1>5, <2>1
<1>14. /\ ss \in Seq(Secs) /\ os \in Seq(Nat) /\ Len(ss) = Len(meant) /\ Len(os) = Len(meant)
  BY <1>7, Zenon DEF Spread
<1>15. PICK s \in Secs : s = asm.sec
  BY <1>2
<1>16. Edge(asm.sec)' = Edge(s)'
  BY <1>3, <1>15, Zenon DEF Edge
<1>17. Reach(s1, o1)'
  BY <1>2, <1>3, <1>5, <1>7, <1>9, <1>12, <1>13, <1>14, <1>15, <1>16, ReachGrows
<1>18. AtEdge(s1, o1)'
  <2>1. PICK k \in Nat : k = Len(meant)
    BY <1>2
  <2>2. Len(meant') = k + 1 /\ s1[k + 1] = asm.sec /\ o1[k + 1] = o
    BY <1>2, <1>3, <1>5, <1>9, <1>14, <2>1, AppendedEach
  <2> QED BY <1>3, <1>4, <1>11, <2>2, Zenon DEF AtEdge
<1> QED BY <1>3, <1>8, <1>10, <1>17, <1>18, Zenon DEF PlaceInv

LEMMA CloseSequencePlaces ==
  ASSUME LineInv, PlaceInv, CloseSequence
  PROVE  PlaceInv'
<1>1. asm.open /\ meant # <<>> /\ ~Ended
  BY Zenon DEF CloseSequence, Ended
<1>2. /\ LineType /\ asm \in Sequence /\ asm.sec \in Secs /\ meant \in Seq(Rows)
           /\ top \in [Secs -> Nat]
      /\ Size[asm.sec] \in Nat /\ asm.ops \in Nat /\ HeaderFacts(H)
  BY <1>1, SequenceTyped, PlaceAssumption DEF LineInv, LineType
<1>3. PICK n : n = H.max_ops - (asm.ops % H.max_ops)
  OBVIOUS
<1>4. n \in Nat
  <2>1. PICK b \in Nat \ {0} : b = H.max_ops
    BY <1>2 DEF HeaderFacts
  <2>2. PICK r \in 0 .. b - 1 : r = asm.ops % b
    BY <1>2, <2>1, Division
  <2> QED BY <1>3, <2>1, <2>2
<1>5. PICK o : o = Offset(asm.ops + n)
  OBVIOUS
<1>6. PICK x : x = [Last(meant) EXCEPT !.address = Addr(asm.sec, o).v, !.end_sequence = TRUE]
  OBVIOUS
<1>7. /\ meant' = Append(meant, x)
      /\ top' = IF asm.sec \in Discarded THEN top ELSE [top EXCEPT ![asm.sec] = o]
      /\ asm' = [asm EXCEPT !.open = FALSE]
      /\ elf' = elf /\ units' = units
  BY <1>3, <1>5, <1>6, Zenon DEF CloseSequence, Asm
<1>8. /\ Offset(asm.ops) \in Nat /\ o \in Nat /\ o = Offset(asm.ops) + H.min_inst
      /\ H.min_inst \in Nat /\ H.min_inst >= 1
  BY <1>1, <1>2, <1>3, <1>4, <1>5, OffsetGrows
<1>9. PICK k \in Nat : k = Len(meant) /\ k # 0 /\ Last(meant) = meant[k] /\ meant[k] \in Rows
  BY <1>1, <1>2 DEF Last
<1>10. PICK ss, os : Spread(meant, ss, os) /\ Reach(ss, os) /\ AtEdge(ss, os)
  BY Zenon DEF PlaceInv
<1>11. /\ ss[k] = asm.sec /\ os[k] = Offset(asm.ops)
       /\ o <= Size[asm.sec] /\ Offset(asm.ops) < o
  <2>1. ss[k] = asm.sec /\ os[k] = Offset(asm.ops) /\ Offset(asm.ops) + H.min_inst <= Size[asm.sec]
    BY <1>1, <1>9, <1>10, Zenon DEF AtEdge
  <2> QED BY <1>8, <2>1
<1>12. elf.kind = "rel" => asm.sec \notin Discarded
  BY <1>1, Zenon DEF PlaceInv
<1>13. x \in Rows /\ x.end_sequence /\ Addr(asm.sec, o) = [v |-> x.address, sec |-> x.section]
  <2>1. PICK a, b : a = Addr(asm.sec, o) /\ b = Addr(asm.sec, Offset(asm.ops))
    OBVIOUS
  <2>2. PICK p \in Nat : p = Place[asm.sec]
    BY <1>2, PlaceAssumption
  <2>3. a.v \in Nat /\ a = [v |-> a.v, sec |-> a.sec] /\ a.sec = b.sec
    BY <1>8, <2>1, <2>2 DEF Addr
  <2>4. k \in 1 .. Len(meant)
    BY <1>9
  <2>5. b = [v |-> meant[k].address, sec |-> meant[k].section]
    BY <1>10, <1>11, <2>1, <2>4, Zenon DEF Spread, SpotFine
  <2>6. b.sec = meant[k].section
    BY <2>5
  <2>7. x = [meant[k] EXCEPT !.address = a.v, !.end_sequence = TRUE]
    BY <1>6, <1>9, <2>1
  <2>8. x \in Rows /\ x.end_sequence /\ x.address = a.v /\ x.section = meant[k].section
    BY <1>9, <2>3, <2>7 DEF Rows
  <2> QED BY <2>1, <2>3, <2>6, <2>8, Zenon
<1>14. PICK s1, o1 : s1 = Append(ss, asm.sec) /\ o1 = Append(os, o)
  OBVIOUS
<1>15. Spread(meant, s1, o1)'
  <2>1. PICK m : m = Append(meant, x)
    OBVIOUS
  <2>2. Offset(asm.ops) <= o
    BY <1>8, <1>11
  <2>3. Spread(m, s1, o1)
    BY <1>1, <1>8, <1>10, <1>11, <1>12, <1>13, <1>14, <2>1, <2>2, RowPlaced
  <2> QED BY <1>7, <2>1, <2>3, SpreadHeld
<1>16. ~asm'.open
  BY <1>2, <1>7 DEF Sequence
<1>17. Ended'
  <2>1. Last(meant') = x
    BY <1>2, <1>7, <1>13, LastAppended
  <2> QED BY <1>13, <2>1, Zenon DEF Ended
<1>18. asm.sec \notin Discarded => top'[asm.sec] = o
  BY <1>2, <1>7
<1>19. \A t \in Secs : Edge(t) \in Nat /\ Edge(t)' \in Nat /\ Edge(t) <= Edge(t)'
  <2>1. TAKE t \in Secs
  <2>2. top[t] \in Nat
    BY <1>2
  <2>3. Edge(t)' = top'[t]
    BY <1>16, Zenon DEF Edge
  <2>4. CASE t = asm.sec /\ t \notin Discarded
    <3>1. Edge(t) = Offset(asm.ops) /\ Edge(t)' = o
      BY <1>1, <1>18, <2>3, <2>4, Zenon DEF Edge
    <3> QED BY <1>8, <1>11, <3>1
  <2>5. CASE ~(t = asm.sec /\ t \notin Discarded)
    <3>1. Edge(t) = top[t]
      BY <2>5, Zenon DEF Edge
    <3>2. top'[t] = top[t]
      BY <1>2, <1>7, <2>5
    <3> QED BY <2>2, <2>3, <3>1, <3>2
  <2> QED BY <2>4, <2>5
<1>20. PICK s \in Secs : s = asm.sec
  BY <1>2
<1>21. s \notin Discarded => o <= Edge(s)'
  <2>1. ASSUME s \notin Discarded
        PROVE  Edge(s)' = o
    BY <1>16, <1>18, <1>20, <2>1, Zenon DEF Edge
  <2> QED BY <1>8, <2>1
<1>22. /\ ss \in Seq(Secs) /\ os \in Seq(Nat) /\ Len(ss) = Len(meant) /\ Len(os) = Len(meant)
  BY <1>10, Zenon DEF Spread
<1>23. Reach(s1, o1)'
  BY <1>2, <1>7, <1>8, <1>10, <1>13, <1>14, <1>19, <1>20, <1>21, <1>22, ReachGrows
<1>24. AtEdge(s1, o1)'
  BY <1>16, Zenon DEF AtEdge
<1> QED BY <1>15, <1>16, <1>17, <1>23, <1>24, Zenon DEF PlaceInv

LEMMA PlaceStep ==
  ASSUME LineInv, PlaceInv, [Next]_vars
  PROVE  PlaceInv'
<1>1. CASE StartUnit
  BY <1>1, StartUnitPlaces
<1>2. CASE OpenSequence
  BY <1>2, OpenSequencePlaces
<1>3. CASE AssembleRow
  BY <1>3, AssembleRowPlaces
<1>4. CASE CloseSequence
  BY <1>4, CloseSequencePlaces
<1>5. CASE Decodes \/ WalkUnit \/ Inventory \/ UNCHANGED vars
  <2>1. UNCHANGED <<elf, units, top, meant, asm>>
    BY <1>5 DEF Decodes, SpecialOpcode, StandardOpcode, EndSequence, SetAddress, DefineFile,
         OtherExtended, Executed, WalkUnit, Inventory, vars, lineVars
  <2> QED BY <2>1, PlaceHeld
<1> QED BY <1>1, <1>2, <1>3, <1>4, <1>5, Zenon DEF Next, Assembles

LEMMA PlaceInitially ==
  ASSUME Init
  PROVE  PlaceInv
<1>1. meant = <<>> /\ asm = [open |-> FALSE, files |-> <<>>]
  BY DEF Init, LineInit
<1>2. ~asm.open /\ Ended
  BY <1>1 DEF Ended
<1>3. PICK e : e = <<>>
  OBVIOUS
<1>4. e \in Seq(Secs) /\ e \in Seq(Nat) /\ Len(e) = 0 /\ Len(meant) = 0
  BY <1>1, <1>3
<1>5. Spread(meant, e, e) /\ Reach(e, e)
  BY <1>4 DEF Spread, Reach
<1>6. AtEdge(e, e)
  BY <1>2 DEF AtEdge
<1> QED BY <1>2, <1>5, <1>6, Zenon DEF PlaceInv

-----------------------------------------------------------------------------
(* The inventory, once it is made, is that of what was read.               *)

Listing == {[at |-> x, function |-> FunctionAt(x.address + Base, x.section)] : x \in Coverable}

(* The inventory is empty until it is made, and then stays what the rows   *)
(* and the sites give.                                                     *)
DoneInv ==
  IF done THEN LinesRead /\ walked = Len(units) /\ inventory = Listing ELSE inventory = {}

(* FunctionAt, step by step.                                               *)
Value(f)    == Addr(f.sec, f.start).v
Before(a, s) == {f \in Listed(s) : Value(f) <= a}
Nearest(a, s) == Max({Value(f) : f \in Before(a, s)})
Spans(a, s) ==
  {f \in Before(a, s) : Value(f) = Nearest(a, s) /\ Reaches(f, Nearest(a, s), a)}
Tightest(a, s) == CHOOSE f \in Spans(a, s) : \A g \in Spans(a, s) : f.size <= g.size

LEMMA FunctionIs ==
  ASSUME NEW a, NEW s
  PROVE  FunctionAt(a, s) = IF Before(a, s) = {} \/ Spans(a, s) = {}
           THEN "" ELSE Tightest(a, s).name
BY Zenon DEF FunctionAt, Before, Spans, Nearest, Tightest, Value

LEMMA FunctionHeld ==
  ASSUME elf' = elf, NEW a, NEW s
  PROVE  FunctionAt(a, s)' = FunctionAt(a, s)
<1>1. Listed(s)' = Listed(s)
  BY Zenon DEF Listed
<1>2. \A f : Value(f)' = Value(f)
  BY Zenon DEF Value, Addr
<1>3. Before(a, s)' = Before(a, s)
  BY <1>1, <1>2, Zenon DEF Before
<1>4. Nearest(a, s)' = Nearest(a, s)
  <2>1. {Value(f) : f \in Before(a, s)}' = {Value(f) : f \in Before(a, s)}
    BY <1>2, <1>3, Zenon
  <2> QED BY <2>1, Zenon DEF Nearest
<1>5. Spans(a, s)' = Spans(a, s)
  BY <1>2, <1>3, <1>4, Zenon DEF Spans, Reaches
<1>6. Tightest(a, s)' = Tightest(a, s)
  BY <1>5, Zenon DEF Tightest
<1>7. FunctionAt(a, s)' = (IF Before(a, s)' = {} \/ Spans(a, s)' = {}
        THEN "" ELSE Tightest(a, s)'.name)
  BY Zenon DEF FunctionAt, Before, Spans, Nearest, Tightest, Value
<1> QED BY <1>3, <1>5, <1>6, <1>7, FunctionIs, Zenon

LEMMA ListingHeld ==
  ASSUME UNCHANGED <<elf, rows, sites>>
  PROVE  Listing' = Listing
<1>1. elf' = elf /\ rows' = rows /\ sites' = sites
  OBVIOUS
<1>2. Base' = Base /\ \A s, o : Addr(s, o)' = Addr(s, o)
  BY <1>1, Zenon DEF Base, Addr
<1>3. \A a, s : Live(a, s)' <=> Live(a, s)
  BY <1>1, <1>2, Zenon DEF Live
<1>4. LastRows' = LastRows
  BY <1>1, Zenon DEF LastRows
<1>5. Coverable' = Coverable
  BY <1>1, <1>2, <1>3, <1>4, Zenon DEF Coverable
<1>6. \A a, s : FunctionAt(a, s)' = FunctionAt(a, s)
  BY <1>1, FunctionHeld
<1> QED BY <1>2, <1>5, <1>6, Zenon DEF Listing

LEMMA DoneStep ==
  ASSUME LineInv, CallInv, DoneInv, [Next]_vars
  PROVE  DoneInv'
<1>1. PICK n \in Nat, k \in Nat : n = walked /\ k = Len(units)
  BY DEF CallInv, CallType, LineInv, LineType
<1>2. done => k # 0 /\ n = k
  <2>1. ASSUME done
        PROVE  k # 0 /\ n = k
    <3>1. units # <<>> /\ walked = Len(units)
      BY <2>1, Zenon DEF DoneInv, LinesRead
    <3>2. units \in Seq(Units)
      BY DEF LineInv, LineType
    <3> QED BY <1>1, <3>1, <3>2
  <2> QED BY <2>1
<1>3. CASE walked = 0 /\ (Assembles \/ Decodes) /\ UNCHANGED infoVars
  <2>1. ~done /\ done' = done /\ inventory' = inventory
    BY <1>1, <1>2, <1>3 DEF infoVars
  <2> QED BY <2>1, Zenon DEF DoneInv
<1>4. CASE WalkUnit
  <2>1. walked < Len(units) /\ done' = done /\ inventory' = inventory
    BY <1>4, Zenon DEF WalkUnit
  <2>2. ~done
    BY <1>1, <1>2, <2>1
  <2> QED BY <2>1, <2>2, Zenon DEF DoneInv
<1>5. CASE Inventory
  <2>1. /\ LinesRead /\ walked = Len(units) /\ done' = TRUE
             /\ UNCHANGED <<lineVars, calls, sites, walked>>
    BY <1>5, Zenon DEF Inventory
  <2>2. inventory' = Listing
    BY <1>5, Zenon DEF Inventory, Listing
  <2>3. /\ elf' = elf /\ rows' = rows /\ sites' = sites /\ walked' = walked /\ units' = units
        /\ pos' = pos /\ code' = code /\ asm' = asm
    BY <2>1 DEF lineVars
  <2>4. Listing' = Listing
    BY <2>3, ListingHeld
  <2>5. LinesRead'
    BY <2>1, <2>3, Zenon DEF LinesRead, Idle
  <2>6. done'
    BY <2>1
  <2> QED BY <2>1, <2>2, <2>3, <2>4, <2>5, <2>6, Zenon DEF DoneInv
<1>6. CASE UNCHANGED vars
  <2>1. /\ elf' = elf /\ rows' = rows /\ sites' = sites /\ walked' = walked /\ units' = units
        /\ pos' = pos /\ code' = code /\ asm' = asm /\ done' = done /\ inventory' = inventory
    BY <1>6 DEF vars, lineVars, infoVars
  <2>2. Listing' = Listing
    BY <2>1, ListingHeld
  <2>3. LinesRead' <=> LinesRead
    BY <2>1, Zenon DEF LinesRead, Idle
  <2> QED BY <2>1, <2>2, <2>3, Zenon DEF DoneInv
<1> QED BY <1>3, <1>4, <1>5, <1>6, Zenon DEF Next

(* All that the inventory relies on.                                       *)
InfoInv == LineInv /\ CallInv /\ PlaceInv /\ DoneInv

(* Rows and calls are read as they were meant, the rows of a section tile  *)
(* it in order, and the inventory is the one computed from them.           *)
THEOREM InfoInvariant == Spec => []InfoInv
<1>1. Init => InfoInv
  <2>1. Init => DoneInv
    BY DEF Init, DoneInv
  <2> QED BY <2>1, LineInitially, CallInitially, PlaceInitially DEF Init, InfoInv
<1>2. InfoInv /\ [Next]_vars => InfoInv'
  BY LineStep, CallStep, PlaceStep, DoneStep DEF InfoInv
<1> QED BY <1>1, <1>2, PTL DEF Spec

-----------------------------------------------------------------------------
(* A place has one address, and an address that is live one place.         *)

Inside(s, o) == s \in Secs /\ o \in Nat /\ o < Size[s]

LEMMA Apart ==
  ASSUME NEW s \in Secs \ Discarded, NEW o \in Nat, o < Size[s], NEW t \in Secs,
         Place[t] <= Place[s] + o, Place[s] + o < Place[t] + Size[t]
  PROVE  s = t
<1>1. PICK x \in Nat, m \in Nat, y \in Nat, n \in Nat :
        x = Place[s] /\ m = Size[s] /\ y = Place[t] /\ n = Size[t]
  BY PlaceAssumption
<1>2. o < m /\ y <= x + o /\ x + o < y + n
  BY <1>1
<1>3. SUFFICES ASSUME s # t
               PROVE  FALSE
  OBVIOUS
<1>4. CASE t \in Discarded
  <2>1. y = 0 /\ x >= n
    BY <1>1, <1>4, PlaceAssumption
  <2> QED BY ONLY x \in Nat, n \in Nat, y \in Nat, o \in Nat, <1>2, <2>1
<1>5. CASE t \notin Discarded
  <2>1. x + m <= y \/ y + n <= x
    BY <1>1, <1>3, <1>5, PlaceAssumption
  <2> QED BY ONLY x \in Nat, m \in Nat, n \in Nat, y \in Nat, o \in Nat, <1>2, <2>1
<1> QED BY <1>4, <1>5

LEMMA AddrFields ==
  ASSUME elf.kind \in {"rel", "image"}, NEW s, NEW o
  PROVE  IF elf.kind = "rel" THEN Addr(s, o).v = o /\ Addr(s, o).sec = s
                             ELSE Addr(s, o).v = Place[s] + o /\ Addr(s, o).sec = NoSec
BY DEF Addr

LEMMA OneSpot ==
  ASSUME elf.kind \in {"rel", "image"}, NEW s, NEW o, Inside(s, o), s \notin Discarded,
         NEW t, NEW p, Inside(t, p), Addr(s, o) = Addr(t, p)
  PROVE  s = t /\ o = p
<1>1. PICK x \in Nat, m \in Nat, y \in Nat, n \in Nat :
        x = Place[s] /\ m = Size[s] /\ y = Place[t] /\ n = Size[t]
  BY PlaceAssumption DEF Inside
<1>2. CASE elf.kind = "rel"
  BY <1>2, AddrFields
<1>3. CASE elf.kind = "image"
  <2>1. x + o = y + p
    BY <1>1, <1>3, AddrFields
  <2>2. o \in Nat /\ p \in Nat /\ o < m /\ p < n
    BY <1>1 DEF Inside
  <2>3. y <= x + o /\ x + o < y + n
    BY ONLY x \in Nat, y \in Nat, n \in Nat, <2>1, <2>2
  <2>4. s = t
    BY <1>1, <2>2, <2>3, Apart DEF Inside
  <2>5. x = y
    BY <1>1, <2>4
  <2> QED BY <2>1, <2>2, <2>4, <2>5
<1> QED BY <1>2, <1>3

LEMMA ImageWants ==
  ASSUME LineType
  PROVE  /\ elf.kind \in {"rel", "image"}
         /\ elf.want = NoSec \/ (elf.want # NoSec /\ elf.want \in Secs \ Discarded)
         /\ Base \in Nat
         /\ \A s \in Wanted : s \in Secs \ Discarded
<1>1. elf.kind \in {"rel", "image"} /\ elf.want \in {NoSec} \cup (Secs \ Discarded)
  BY HeaderAssumption DEF LineType
<1>2. Base \in Nat
  BY <1>1, PlaceAssumption DEF Base
<1>3. \A s \in Wanted : s \in Secs \ Discarded
  BY <1>1 DEF Wanted
<1> QED BY <1>1, <1>2, <1>3

(* What is live is what is wanted.                                         *)
LEMMA WantedLives ==
  ASSUME LineType, NEW s \in Wanted, NEW o, Inside(s, o)
  PROVE  Live(Addr(s, o).v, Addr(s, o).sec)
<1>1. /\ elf.kind \in {"rel", "image"} /\ s \in Secs \ Discarded
      /\ elf.want = NoSec \/ (elf.want # NoSec /\ s = elf.want)
  BY ImageWants DEF Wanted
<1>2. CASE elf.kind = "rel"
  <2>1. Addr(s, o).sec = s /\ s # NoSec
    BY <1>1, <1>2, AddrFields, PlaceAssumption
  <2> QED BY <1>1, <1>2, <2>1 DEF Live
<1>3. CASE elf.kind = "image"
  <2>1. PICK x \in Nat, m \in Nat : x = Place[s] /\ m = Size[s]
    BY <1>1, PlaceAssumption
  <2>2. Addr(s, o).v = x + o
    BY <1>1, <1>3, <2>1, AddrFields
  <2>3. x + o \in x .. x + m - 1
    <3>1. o \in Nat /\ o < m
      BY <2>1 DEF Inside
    <3> QED BY <3>1
  <2>4. CASE elf.want = NoSec
    BY <1>1, <1>3, <2>1, <2>2, <2>3, <2>4 DEF Live
  <2>5. CASE elf.want # NoSec
    <3>1. s = elf.want /\ Base = x
      BY <1>1, <1>3, <2>1, <2>5 DEF Base
    <3> QED BY <1>3, <2>1, <2>2, <2>3, <2>5, <3>1 DEF Live
  <2> QED BY <2>4, <2>5
<1> QED BY <1>1, <1>2, <1>3

LEMMA LiveWanted ==
  ASSUME LineType, NEW s, NEW o, Inside(s, o), elf.kind = "rel" => s \notin Discarded,
         Live(Addr(s, o).v, Addr(s, o).sec)
  PROVE  s \in Wanted
<1>1. /\ elf.kind \in {"rel", "image"} /\ s \in Secs /\ o \in Nat /\ o < Size[s]
      /\ elf.want = NoSec \/ (elf.want # NoSec /\ elf.want \in Secs \ Discarded)
  BY ImageWants DEF Inside
<1>2. CASE elf.kind = "rel"
  <2>1. Addr(s, o).sec = s
    BY <1>1, <1>2, AddrFields
  <2> QED BY <1>1, <1>2, <2>1 DEF Live, Wanted
<1>3. CASE elf.kind = "image"
  <2>1. PICK x \in Nat, m \in Nat : x = Place[s] /\ m = Size[s]
    BY <1>1, PlaceAssumption
  <2>2. Addr(s, o).v = x + o
    BY <1>1, <1>3, <2>1, AddrFields
  <2>3. PICK t \in Secs \ Discarded :
          x + o \in Place[t] .. Place[t] + Size[t] - 1 /\ (elf.want # NoSec => t = elf.want)
    <3>1. CASE elf.want = NoSec
      BY <1>3, <2>2, <3>1 DEF Live
    <3>2. CASE elf.want # NoSec
      BY <1>1, <1>3, <2>2, <3>2 DEF Live, Base
    <3> QED BY <3>1, <3>2
  <2>4. PICK y \in Nat, n \in Nat : y = Place[t] /\ n = Size[t]
    BY PlaceAssumption
  <2>5. PICK p : p = x + o - y
    OBVIOUS
  <2>6. x + o \in y .. y + n - 1
    BY <2>3, <2>4
  <2>7. p \in Nat /\ p < n /\ y + p = x + o /\ x <= y + p /\ y + p < x + m
    BY <1>1, <2>1, <2>4, <2>5, <2>6
  <2>8. t = s
    BY <1>1, <2>1, <2>4, <2>7, Apart
  <2> QED BY <1>1, <2>3, <2>8 DEF Wanted
<1> QED BY <1>1, <1>2, <1>3

LEMMA PlacesAre ==
  ASSUME LineType, NEW s \in Wanted, NEW o, Inside(s, o)
  PROVE  <<s, o>> \in Places
<1>1. PICK m \in Nat : m = Size[s]
  BY ImageWants, PlaceAssumption
<1>2. o \in 0 .. Size[s] - 1
  BY <1>1 DEF Inside
<1> QED BY <1>2 DEF Places

-----------------------------------------------------------------------------
(* The rows of a place.                                                    *)

Settled(ss, os) == LineType /\ rows = meant /\ Ended /\ Spread(meant, ss, os)

RowAt(ss, os, i) ==
  /\ i \in Nat /\ i + 1 \in 1 .. Len(meant)
  /\ Inside(ss[i], os[i]) /\ (elf.kind = "rel" => ss[i] \notin Discarded)
  /\ Addr(ss[i], os[i]) = [v |-> meant[i].address, sec |-> meant[i].section]
  /\ meant[i].address = Addr(ss[i], os[i]).v /\ meant[i].section = Addr(ss[i], os[i]).sec
  /\ ss[i + 1] = ss[i] /\ os[i + 1] \in Nat /\ os[i] <= os[i + 1] /\ os[i + 1] <= Size[ss[i]]
  /\ meant[i + 1].end_sequence => os[i] < os[i + 1]
  /\ meant[i + 1].address = Addr(ss[i], os[i + 1]).v

LEMMA RowPlace ==
  ASSUME NEW ss, NEW os, Settled(ss, os), NEW i \in 1 .. Len(meant), ~meant[i].end_sequence
  PROVE  RowAt(ss, os, i)
<1>1. meant \in Seq(Rows) /\ ss \in Seq(Secs) /\ os \in Seq(Nat)
  BY Zenon DEF Settled, LineType, Spread
<1>2. PICK n \in Nat : n = Len(meant) /\ Len(ss) = n /\ Len(os) = n
  BY <1>1 DEF Settled, Spread
<1>3. i + 1 \in 1 .. n /\ i \in 1 .. n /\ i \in Nat
  <2>1. meant # <<>> => Last(meant) = meant[n]
    BY <1>2 DEF Last
  <2>2. meant # <<>>
    BY <1>1, <1>2
  <2>3. i # n
    BY <1>2, <2>1, <2>2 DEF Settled, Ended
  <2> QED BY <1>2, <2>3
<1>4. PICK j : j = i + 1
  OBVIOUS
<1>5. PICK s \in Secs, t \in Secs, o \in Nat, p \in Nat, z \in Nat :
        s = ss[i] /\ t = ss[j] /\ o = os[i] /\ p = os[j] /\ z = Size[s]
  <2>1. ss[i] \in Secs /\ ss[j] \in Secs /\ os[i] \in Nat /\ os[j] \in Nat
    BY <1>1, <1>2, <1>3, <1>4
  <2>2. Size[ss[i]] \in Nat
    BY <2>1, PlaceAssumption
  <2> QED BY <2>1, <2>2, Zenon
<1>6. SpotFine(meant[i], s, o) /\ SpotFine(meant[j], t, p)
  BY <1>2, <1>3, <1>4, <1>5, Zenon DEF Settled, Spread
<1>7. Onward(meant[i], s, o, meant[j], t, p)
  BY <1>2, <1>3, <1>4, <1>5, Zenon DEF Settled, Spread
<1>8. s = t /\ o <= p /\ (meant[j].end_sequence => o < p)
  BY <1>7, Zenon DEF Onward
<1>9. PICK a, b, c, d : a = meant[i].address /\ b = meant[i].section /\ c = meant[j].address
        /\ d = meant[j].section
  OBVIOUS
<1>10. Addr(s, o) = [v |-> a, sec |-> b] /\ Addr(s, p) = [v |-> c, sec |-> d]
  BY <1>6, <1>8, <1>9, Zenon DEF SpotFine
<1>11. a = Addr(s, o).v /\ b = Addr(s, o).sec /\ c = Addr(s, p).v
  BY <1>10
<1>12. Inside(s, o) /\ (elf.kind = "rel" => s \notin Discarded) /\ p <= Size[s]
  BY <1>5, <1>6, <1>8, Zenon DEF SpotFine, Inside
<1> QED BY <1>2, <1>3, <1>4, <1>5, <1>8, <1>9, <1>10, <1>11, <1>12, Zenon DEF RowAt

LEMMA RowsOfPlace ==
  ASSUME NEW ss, NEW os, Settled(ss, os), NEW s \in Wanted, NEW o, Inside(s, o),
           NEW i \in RowsAt(s, o)
  PROVE  /\ i \in 1 .. Len(meant) /\ ~meant[i].end_sequence /\ RowAt(ss, os, i)
         /\ ss[i] = s /\ os[i] <= o /\ o < os[i + 1]
<1>1. /\ i \in DOMAIN meant /\ ~meant[i].end_sequence /\ meant[i].section = Addr(s, o).sec
      /\ meant[i].address <= Addr(s, o).v /\ meant[i + 1].address > Addr(s, o).v
  BY Zenon DEF RowsAt
<1>2. i \in 1 .. Len(meant)
  BY <1>1 DEF Settled, LineType
<1>3. RowAt(ss, os, i)
  BY <1>1, <1>2, RowPlace
<1>4. PICK t \in Secs, q \in Nat, p \in Nat, z \in Nat, x \in Nat, y \in Nat :
        t = ss[i] /\ q = os[i] /\ p = os[i + 1] /\ z = Size[t] /\ x = Place[s] /\ y = Place[t]
  BY <1>3, PlaceAssumption DEF RowAt, Inside
<1>5. q < z /\ q <= p /\ p <= z /\ o \in Nat
  BY <1>3, <1>4 DEF RowAt, Inside
<1>6. /\ meant[i].address = Addr(t, q).v /\ meant[i].section = Addr(t, q).sec
      /\ meant[i + 1].address = Addr(t, p).v
  BY <1>3, <1>4, Zenon DEF RowAt
<1>7. elf.kind \in {"rel", "image"} /\ s \in Secs \ Discarded
  BY ImageWants DEF Settled
<1>8. CASE elf.kind = "rel"
  <2>1. /\ Addr(s, o).sec = s /\ Addr(s, o).v = o
        /\ Addr(t, q).sec = t /\ Addr(t, q).v = q /\ Addr(t, p).v = p
    BY <1>7, <1>8, AddrFields
  <2>2. s = t /\ q <= o /\ p > o
    BY <1>1, <1>6, <2>1
  <2>3. o < p
    BY <1>5, <2>2
  <2> QED BY <1>1, <1>2, <1>3, <1>4, <2>2, <2>3
<1>9. CASE elf.kind = "image"
  <2>1. y + q <= x + o /\ x + o < y + p
    <3>1. Addr(s, o).v = x + o /\ Addr(t, q).v = y + q /\ Addr(t, p).v = y + p
      BY <1>4, <1>7, <1>9, AddrFields
    <3>2. y + q <= x + o /\ y + p > x + o
      BY <1>1, <1>6, <3>1
    <3> QED BY <1>4, <1>5, <3>2
  <2>2. y <= x + o /\ x + o < y + z
    BY <1>4, <1>5, <2>1
  <2>3. s = t
    BY <1>4, <1>5, <1>7, <2>2, Apart DEF Inside
  <2>4. x = y
    BY <1>4, <2>3
  <2>5. q <= o /\ o < p
    BY <1>4, <1>5, <2>1, <2>4
  <2> QED BY <1>1, <1>2, <1>3, <1>4, <2>3, <2>5
<1> QED BY <1>7, <1>8, <1>9

(* The row of a place that names a line is in the denominator.             *)
LEMMA PlaceCounted ==
  ASSUME NEW ss, NEW os, Settled(ss, os), NEW s \in Wanted, NEW o, Inside(s, o),
         NEW i \in RowsAt(s, o), IsCode(meant[i])
  PROVE  i \in LastRows /\ Live(meant[i].address, meant[i].section)
<1>1. /\ i \in 1 .. Len(meant) /\ ~meant[i].end_sequence /\ RowAt(ss, os, i)
      /\ ss[i] = s /\ os[i] <= o /\ o < os[i + 1]
  BY RowsOfPlace
<1>2. elf.kind \in {"rel", "image"} /\ s \in Secs \ Discarded
  BY ImageWants DEF Settled
<1>3. PICK n \in Nat : n = Len(meant)
  BY DEF Settled, LineType
<1>4. DOMAIN meant = 1 .. n
  BY <1>3 DEF Settled, LineType
<1>5. PICK q \in Nat, p \in Nat : q = os[i] /\ p = os[i + 1]
  BY <1>1 DEF RowAt, Inside
<1>6. Inside(s, q) /\ Addr(s, q) = [v |-> meant[i].address, sec |-> meant[i].section]
  BY <1>1, <1>5, Zenon DEF RowAt
<1>7. q < p
  BY <1>1, <1>5 DEF Inside
<1>8. ASSUME NEW j \in i + 1 .. Len(rows), IsCode(rows[j]), rows[j].section = rows[i].section,
             rows[j].address = rows[i].address
      PROVE  FALSE
  <2>1. rows = meant
    BY DEF Settled
  <2>2. j \in 1 .. n /\ i + 1 \in 1 .. n /\ (j = i + 1 \/ i + 1 < j) /\ ~meant[j].end_sequence
    BY <1>1, <1>3, <1>8, <2>1 DEF IsCode
  <2>3. RowAt(ss, os, j)
    BY <1>3, <2>2, RowPlace
  <2>4. Inside(ss[j], os[j]) /\ Addr(ss[j], os[j]) =
          [v |-> meant[i].address, sec |-> meant[i].section]
    BY <1>8, <2>1, <2>3, Zenon DEF RowAt
  <2>5. s = ss[j] /\ q = os[j]
    BY <1>2, <1>6, <2>4, OneSpot
  <2>6. CASE j = i + 1
    BY <1>5, <1>7, <2>5, <2>6
  <2>7. CASE i + 1 < j
    <3>1. ss[i + 1] = ss[j] /\ ss[i + 1] \notin Discarded
      BY <1>1, <1>2, <2>5 DEF RowAt
    <3>2. os[i + 1] <= os[j]
      BY <1>3, <2>2, <2>7, <3>1, Zenon DEF Settled, Spread
    <3> QED BY <1>5, <1>7, <2>5, <3>2
  <2> QED BY <2>2, <2>6, <2>7
<1>9. i \in LastRows
  <2>1. rows = meant
    BY DEF Settled
  <2> QED BY <1>1, <1>3, <1>4, <1>8, <2>1 DEF LastRows
<1>10. Live(meant[i].address, meant[i].section)
  <2>1. Live(Addr(s, q).v, Addr(s, q).sec)
    BY <1>6, WantedLives DEF Settled
  <2>2. Addr(s, q).v = meant[i].address /\ Addr(s, q).sec = meant[i].section
    BY <1>1, <1>5, Zenon DEF RowAt
  <2> QED BY <2>1, <2>2, Zenon
<1> QED BY <1>9, <1>10

\* The rows that follow a row at its address end with one a place belongs to.
LEMMA RowReaches ==
  ASSUME NEW ss, NEW os, Settled(ss, os), NEW i \in 1 .. Len(meant), ~meant[i].end_sequence
  PROVE  \E k \in RowsAt(ss[i], os[i]) :
           k >= i /\ meant[k].address = meant[i].address /\ meant[k].section = meant[i].section
<1>1. PICK n \in Nat : n = Len(meant)
  BY DEF Settled, LineType
<1>2. DOMAIN meant = 1 .. n /\ i \in 1 .. n
  BY <1>1 DEF Settled, LineType
<1>3. RowAt(ss, os, i)
  BY RowPlace
<1>4. PICK s \in Secs, o \in Nat : s = ss[i] /\ o = os[i]
  BY <1>3 DEF RowAt, Inside
<1> DEFINE same(m) == ~meant[m].end_sequence /\ ss[m] = s /\ os[m] = o
           S == {m \in 1 .. n : i < m /\ ~same(m)}
<1>5. n \in S
  <2>1. meant # <<>> /\ Last(meant) = meant[n]
    BY <1>1, <1>2 DEF Last
  <2>2. meant[n].end_sequence
    BY <2>1 DEF Settled, Ended
  <2>3. i < n
    BY <1>1, <1>3 DEF RowAt
  <2> QED BY <1>1, <1>2, <2>2, <2>3
<1>6. PICK m \in S : \A l \in S : m <= l
  <2>1. S \in SUBSET Nat /\ S # {}
    BY <1>5
  <2> HIDE DEF S
  <2> QED BY <2>1, LeastNat
<1>7. PICK k : k = m - 1
  OBVIOUS
<1>8. k \in 1 .. n /\ i <= k /\ k + 1 = m /\ m \in 1 .. n /\ k \notin S /\ k \in Nat
  BY <1>1, <1>6, <1>7
<1>9. same(k)
  <2>1. CASE k = i
    BY <1>4, <2>1
  <2>2. CASE k # i
    <3>1. i < k
      BY <1>2, <1>8, <2>2
    <3> QED BY <1>8, <3>1
  <2> QED BY <2>1, <2>2
<1>10. RowAt(ss, os, k)
  BY <1>1, <1>8, <1>9, RowPlace
<1>11. PICK p \in Nat : p = os[m]
  BY <1>8, <1>10 DEF RowAt
<1>12. o < p
  <2>1. ss[m] = s /\ o <= p /\ (meant[m].end_sequence => o < p)
    BY <1>8, <1>9, <1>10, <1>11 DEF RowAt
  <2>2. ~same(m)
    BY <1>6
  <2>3. meant[m].end_sequence \/ p # o
    BY <1>11, <2>1, <2>2
  <2> QED BY <2>1, <2>3
<1>13. elf.kind \in {"rel", "image"}
  BY ImageWants DEF Settled
<1>14. /\ meant[k].address = Addr(s, o).v /\ meant[k].section = Addr(s, o).sec
       /\ meant[m].address = Addr(s, p).v
       /\ meant[i].address = Addr(s, o).v /\ meant[i].section = Addr(s, o).sec
  BY <1>3, <1>4, <1>8, <1>9, <1>10, <1>11, Zenon DEF RowAt
<1>15. PICK a \in Nat, b \in Nat : a = Addr(s, o).v /\ b = Addr(s, p).v /\ a < b
  <2>1. CASE elf.kind = "rel"
    BY <1>12, <1>13, <2>1, AddrFields
  <2>2. CASE elf.kind = "image"
    <3>1. PICK x \in Nat : x = Place[s]
      BY <1>3, <1>4, PlaceAssumption DEF RowAt, Inside
    <3>2. Addr(s, o).v = x + o /\ Addr(s, p).v = x + p
      BY <1>13, <2>2, <3>1, AddrFields
    <3> QED BY <1>12, <3>2
  <2> QED BY <1>13, <2>1, <2>2
<1>16. k \in RowsAt(s, o)
  <2>1. meant[k].address <= Addr(s, o).v /\ meant[k + 1].address > Addr(s, o).v
    BY <1>8, <1>14, <1>15, SMTT(20)
  <2>2. k \in DOMAIN meant /\ ~meant[k].end_sequence /\ meant[k].section = Addr(s, o).sec
    BY <1>2, <1>8, <1>9, <1>14
  <2> QED BY <2>1, <2>2, Zenon DEF RowsAt
<1>17. k >= i
  BY <1>2, <1>8
<1> QED BY <1>4, <1>14, <1>16, <1>17, Zenon

(* What a row of the denominator says, addr2line reports at its address,   *)
(* unless the last row there names no line.                                *)
SaysRow(s, o, x) ==
  /\ s \in Wanted /\ Inside(s, o) /\ Addr(s, o) = [v |-> x.address, sec |-> x.section]
  /\ \/ Nameless(s, o)
     \/ \E k \in RowsAt(s, o) : IsCode(meant[k]) /\ meant[k].file = x.file /\ meant[k].line = x.line

LEMMA RowSays ==
  ASSUME NEW ss, NEW os, Settled(ss, os), NEW i \in LastRows,
         Live(meant[i].address, meant[i].section)
  PROVE  SaysRow(ss[i], os[i], meant[i])
<1>1. PICK n \in Nat : n = Len(meant)
  BY DEF Settled, LineType
<1>2. DOMAIN meant = 1 .. n /\ rows = meant
  BY <1>1 DEF Settled, LineType
<1>3. i \in 1 .. n /\ ~meant[i].end_sequence /\ IsCode(meant[i])
  BY <1>2 DEF LastRows, IsCode
<1>4. RowAt(ss, os, i)
  BY <1>1, <1>3, RowPlace
<1>5. ss[i] \in Wanted
  <2>1. /\ Inside(ss[i], os[i]) /\ (elf.kind = "rel" => ss[i] \notin Discarded)
        /\ Live(Addr(ss[i], os[i]).v, Addr(ss[i], os[i]).sec)
    BY <1>4, Zenon DEF RowAt
  <2> QED BY <2>1, LiveWanted DEF Settled
<1>6. PICK k \in RowsAt(ss[i], os[i]) :
        k >= i /\ meant[k].address = meant[i].address /\ meant[k].section = meant[i].section
  BY <1>1, <1>3, RowReaches
<1>7. k \in 1 .. n
  BY <1>2, <1>6 DEF RowsAt
<1>8. CASE ~IsCode(meant[k])
  BY <1>4, <1>5, <1>6, <1>8, Zenon DEF SaysRow, Nameless, RowAt
<1>9. CASE IsCode(meant[k])
  <2>1. k = i
    <3>1. SUFFICES ASSUME k # i
                   PROVE  FALSE
      OBVIOUS
    <3>2. k \in i + 1 .. Len(rows)
      BY <1>1, <1>2, <1>3, <1>6, <1>7, <3>1
    <3> QED BY <1>2, <1>6, <1>9, <3>2 DEF LastRows
  <2> QED BY <1>4, <1>5, <1>6, <1>9, <2>1, Zenon DEF SaysRow, RowAt
<1> QED BY <1>8, <1>9

-----------------------------------------------------------------------------
(* The call sites of a place.                                              *)

\* Whether a call is one a site is read of.
Sited(c) == units[c.unit].bad = "no" /\ c.call.line # 0 /\ CallFile(c.unit, c.call.file) # NoFile

LEMMA SiteIs ==
  ASSUME NEW u, NEW call, NEW w, NEW x
  PROVE  x \in SitesOf(u, call, <<w>>)
           <=> /\ call.line # 0 /\ CallFile(u, call.file) # NoFile /\ w.end > w.start.v
               /\ x = [section |-> w.start.sec, start |-> w.start.v, end |-> w.end,
                       file |-> CallFile(u, call.file), line |-> call.line]
<1>1. PICK s : s = <<w>>
  OBVIOUS
<1>2. DOMAIN s = {1} /\ s[1] = w
  BY <1>1
<1>3. PICK f, l : f = CallFile(u, call.file) /\ l = call.line
  OBVIOUS
<1> DEFINE site(y) == [section |-> y.start.sec, start |-> y.start.v, end |-> y.end, file |-> f,
      line |-> l]
<1>4. SitesOf(u, call, s) = IF l = 0 \/ f = NoFile THEN {}
                            ELSE {site(s[i]) : i \in {i \in DOMAIN s : s[i].end > s[i].start.v}}
  BY <1>3, Zenon DEF SitesOf
<1> HIDE DEF site
<1>5. x \in SitesOf(u, call, s) <=> l # 0 /\ f # NoFile /\ w.end > w.start.v /\ x = site(w)
  <2>1. CASE l = 0 \/ f = NoFile
    BY <1>4, <2>1
  <2>2. CASE ~(l = 0 \/ f = NoFile)
    <3>1. SitesOf(u, call, s) = {site(s[i]) : i \in {i \in {1} : s[i].end > s[i].start.v}}
      BY <1>2, <1>4, <2>2, Zenon
    <3>2. x \in SitesOf(u, call, s) <=> s[1].end > s[1].start.v /\ x = site(s[1])
      BY <3>1
    <3> QED BY <1>2, <2>2, <3>2, Zenon
  <2> QED BY <2>1, <2>2
<1> QED BY <1>1, <1>3, <1>5, Zenon DEF site

RangeSite(c, r) ==
  [section |-> Addr(r.sec, r.start).sec, start |-> Addr(r.sec, r.start).v, end |-> To(r).v,
   file |-> CallFile(c.unit, c.call.file), line |-> c.call.line]

LEMMA SitesAre ==
  ASSUME CallInv, NEW x
  PROVE  x \in sites <=> \E c \in calls : \E i \in DOMAIN c.call.ranges :
                           /\ Sited(c) /\ c.call.ranges[i].start < c.call.ranges[i].end
                           /\ x = RangeSite(c, c.call.ranges[i])
<1>1. x \in sites <=> \E c \in calls : units[c.unit].bad = "no" /\ x \in SitesFor(c)
  BY DEF CallInv, Described
<1>2. ASSUME NEW c \in calls, NEW i \in DOMAIN c.call.ranges
      PROVE  /\ c.call.ranges[i].start \in Nat /\ c.call.ranges[i].end \in Nat
             /\ To(c.call.ranges[i]).v > From(c.call.ranges[i]).v
                  <=> c.call.ranges[i].start < c.call.ranges[i].end
  <2>1. PICK r : r = c.call.ranges[i]
    OBVIOUS
  <2>2. c.call \in Calls
    BY Zenon DEF CallInv, CallType
  <2>3. RangeFacts(r)
    BY <2>1, <2>2, RangeOfCall, RangesFine
  <2>4. PICK a \in Nat, b \in Nat, p \in Nat, q \in Nat :
          a = r.start /\ b = r.end /\ p = From(r).v /\ q = To(r).v /\ p + (b - a) = q
    BY <2>3 DEF RangeFacts
  <2>5. q > p <=> a < b
    BY <2>4
  <2> QED BY <2>1, <2>4, <2>5
<1>3. ASSUME NEW c \in calls
      PROVE  units[c.unit].bad = "no" /\ x \in SitesFor(c)
               <=> \E i \in DOMAIN c.call.ranges :
                     /\ Sited(c) /\ c.call.ranges[i].start < c.call.ranges[i].end
                     /\ x = RangeSite(c, c.call.ranges[i])
  <2>1. PICK rs : rs = c.call.ranges
    OBVIOUS
  <2>2. x \in SitesFor(c) <=>
          \E i \in DOMAIN rs : x \in SitesOf(c.unit, c.call, <<[start |-> From(rs[i]),
            end |-> To(rs[i]).v]>>)
    <3> DEFINE each(i) == SitesOf(c.unit, c.call, <<[start |-> From(rs[i]), end |-> To(rs[i]).v]>>)
    <3>1. SitesFor(c) = UNION {each(i) : i \in DOMAIN rs}
      BY <2>1, Zenon DEF SitesFor
    <3> HIDE DEF each
    <3>2. x \in UNION {each(i) : i \in DOMAIN rs} <=> \E i \in DOMAIN rs : x \in each(i)
      OBVIOUS
    <3> QED BY <3>1, <3>2, Zenon DEF each
  <2>3. ASSUME NEW i \in DOMAIN rs
        PROVE  units[c.unit].bad = "no" /\ x \in SitesOf(c.unit, c.call,
                 <<[start |-> From(rs[i]), end |-> To(rs[i]).v]>>)
                 <=> Sited(c) /\ rs[i].start < rs[i].end /\ x = RangeSite(c, rs[i])
    <3>1. PICK w : w = [start |-> From(rs[i]), end |-> To(rs[i]).v]
      OBVIOUS
    <3>2. w.start = From(rs[i]) /\ w.end = To(rs[i]).v /\ From(rs[i]) = Addr(rs[i].sec, rs[i].start)
      BY <3>1 DEF From
    <3>3. To(rs[i]).v > From(rs[i]).v <=> rs[i].start < rs[i].end
      BY <1>2, <2>1
    <3>4. x \in SitesOf(c.unit, c.call, <<w>>)
            <=> /\ c.call.line # 0 /\ CallFile(c.unit, c.call.file) # NoFile /\ w.end > w.start.v
                /\ x = [section |-> w.start.sec, start |-> w.start.v, end |-> w.end,
                        file |-> CallFile(c.unit, c.call.file), line |-> c.call.line]
      BY SiteIs
    <3> QED BY <3>1, <3>2, <3>3, <3>4, Zenon DEF Sited, RangeSite
  <2> QED BY <2>1, <2>2, <2>3, Zenon
<1> QED BY <1>1, <1>3, Zenon

(* A call addr2line reports of a place is in the denominator.              *)
LEMMA CallCounted ==
  ASSUME LineType, CallInv, NEW s \in Wanted, NEW o, Inside(s, o), NEW c \in CallsAt(s, o), Sited(c)
  PROVE  \E x \in sites : /\ Live(x.start, x.section)
                          /\ x.file = CallFile(c.unit, c.call.file) /\ x.line = c.call.line
<1>1. c \in calls /\ \E i \in DOMAIN c.call.ranges :
        c.call.ranges[i].sec = s /\ o \in c.call.ranges[i].start .. c.call.ranges[i].end - 1
  BY Zenon DEF CallsAt
<1>2. PICK i \in DOMAIN c.call.ranges :
        c.call.ranges[i].sec = s /\ o \in c.call.ranges[i].start .. c.call.ranges[i].end - 1
  BY <1>1
<1>3. PICK r : r = c.call.ranges[i]
  OBVIOUS
<1>4. RangeFine(r)
  <2>1. c.call \in Calls
    BY <1>1, Zenon DEF CallInv, CallType
  <2> QED BY <1>3, <2>1, RangeOfCall
<1>5. PICK a \in Nat, b \in Nat, z \in Nat : a = r.start /\ b = r.end /\ z = Size[s]
  <2>1. r.start \in Nat /\ r.end \in Nat
    BY <1>4 DEF RangeFine
  <2>2. Size[s] \in Nat
    BY PlaceAssumption DEF Inside
  <2> QED BY <2>1, <2>2, Zenon
<1>6. a < b /\ a < z
  <2>1. b <= z
    BY <1>2, <1>3, <1>4, <1>5 DEF RangeFine
  <2>2. o \in a .. b - 1
    BY <1>2, <1>3, <1>5
  <2> QED BY ONLY a \in Nat, b \in Nat, z \in Nat, <2>1, <2>2
<1>7. Inside(s, a)
  BY <1>5, <1>6 DEF Inside
<1>8. PICK x : x = RangeSite(c, r)
  OBVIOUS
<1>9. x \in sites
  BY <1>1, <1>3, <1>5, <1>6, <1>8, SitesAre, Zenon
<1>10. /\ x.section = Addr(s, a).sec /\ x.start = Addr(s, a).v
       /\ x.file = CallFile(c.unit, c.call.file) /\ x.line = c.call.line
  BY <1>2, <1>3, <1>5, <1>8 DEF RangeSite
<1>11. Live(x.start, x.section)
  BY <1>7, <1>10, WantedLives
<1> QED BY <1>9, <1>10, <1>11

(* A call of the denominator is one addr2line reports at its address.      *)
SaysCall(s, o, x) ==
  /\ s \in Wanted /\ Inside(s, o) /\ Addr(s, o) = [v |-> x.start, sec |-> x.section]
  /\ \E c \in CallsAt(s, o) : Sited(c) /\ x.file = CallFile(c.unit, c.call.file)
       /\ x.line = c.call.line

LEMMA CallSays ==
  ASSUME LineType, CallInv, NEW x \in sites, Live(x.start, x.section)
  PROVE  \E s, o : SaysCall(s, o, x)
<1>0. PICK c \in calls : \E i \in DOMAIN c.call.ranges :
        /\ Sited(c) /\ c.call.ranges[i].start < c.call.ranges[i].end
        /\ x = RangeSite(c, c.call.ranges[i])
  BY SitesAre, Zenon
<1>1. PICK i \in DOMAIN c.call.ranges :
        /\ Sited(c) /\ c.call.ranges[i].start < c.call.ranges[i].end
        /\ x = RangeSite(c, c.call.ranges[i])
  BY <1>0
<1>2. PICK r : r = c.call.ranges[i]
  OBVIOUS
<1>3. /\ c.call \in Calls
      /\ elf.kind = "image" \/ \A k \in DOMAIN c.call.ranges : c.call.ranges[k].sec \notin Discarded
  BY Zenon DEF CallInv, CallType
<1>4. RangeFine(r)
  BY <1>2, <1>3, RangeOfCall
<1>5. PICK s \in Secs, a \in Nat, b \in Nat, z \in Nat :
        s = r.sec /\ a = r.start /\ b = r.end /\ z = Size[s]
  <2>1. r.sec \in Secs /\ r.start \in Nat /\ r.end \in Nat
    BY <1>4 DEF RangeFine
  <2>2. Size[r.sec] \in Nat
    BY <2>1, PlaceAssumption
  <2> QED BY <2>1, <2>2, Zenon
<1>6. a < b /\ b <= z
  BY <1>1, <1>2, <1>4, <1>5 DEF RangeFine
<1>7. Inside(s, a)
  <2>1. a < z
    BY <1>6
  <2> QED BY <1>5, <2>1 DEF Inside
<1>8. x = [section |-> Addr(s, a).sec, start |-> Addr(s, a).v, end |-> To(r).v,
           file |-> CallFile(c.unit, c.call.file), line |-> c.call.line]
  BY <1>1, <1>2, <1>5, Zenon DEF RangeSite
<1>9. /\ x.section = Addr(s, a).sec /\ x.start = Addr(s, a).v
      /\ x.file = CallFile(c.unit, c.call.file) /\ x.line = c.call.line
  BY <1>8
<1>10. Addr(s, a) = [v |-> x.start, sec |-> x.section]
  <2>1. Addr(s, a) = [v |-> Addr(s, a).v, sec |-> Addr(s, a).sec]
    BY DEF Addr
  <2> QED BY <1>9, <2>1, Zenon
<1>11. s \in Wanted
  <2>1. elf.kind = "rel" => s \notin Discarded
    BY <1>2, <1>3, <1>5
  <2>2. Live(Addr(s, a).v, Addr(s, a).sec)
    BY <1>9, Zenon
  <2> QED BY <1>7, <2>1, <2>2, LiveWanted
<1>12. c \in CallsAt(s, a)
  <2>1. a \in a .. b - 1
    BY <1>6
  <2>2. r.sec = s /\ a \in r.start .. r.end - 1
    BY <1>5, <2>1
  <2> QED BY <1>2, <2>2, Zenon DEF CallsAt
<1> QED BY <1>1, <1>7, <1>9, <1>10, <1>11, <1>12, Zenon DEF SaysCall

-----------------------------------------------------------------------------
(* The denominator.                                                        *)

CoveredAt(x, address) ==
  [address |-> address - Base, section |-> x.section, file |-> x.file, line |-> x.line]

LEMMA CoverableIs ==
  ASSUME NEW e
  PROVE  e \in Coverable <=>
           \/ \E i \in LastRows : /\ Live(rows[i].address, rows[i].section)
                                  /\ e = CoveredAt(rows[i], rows[i].address)
           \/ \E x \in sites : Live(x.start, x.section) /\ e = CoveredAt(x, x.start)
<1> DEFINE row(i) == CoveredAt(rows[i], rows[i].address)
           site(x) == CoveredAt(x, x.start)
<1>1. Coverable = {row(i) : i \in {i \in LastRows : Live(rows[i].address, rows[i].section)}}
                    \cup {site(x) : x \in {x \in sites : Live(x.start, x.section)}}
  BY Zenon DEF Coverable, CoveredAt
<1> HIDE DEF row, site
<1>2. e \in Coverable <=>
        \/ \E i \in LastRows : Live(rows[i].address, rows[i].section) /\ e = row(i)
        \/ \E x \in sites : Live(x.start, x.section) /\ e = site(x)
  BY <1>1
<1> QED BY <1>2, Zenon DEF row, site

LEMMA ListingIs ==
  ASSUME InfoInv, done
  PROVE  /\ \A x \in Coverable : \E e \in inventory : e.at = x
         /\ \A e \in inventory : /\ e.at \in Coverable
                                 /\ e.function = FunctionAt(e.at.address + Base, e.at.section)
<1>1. inventory = Listing
  BY Zenon DEF InfoInv, DoneInv
<1> DEFINE fn(x) == FunctionAt(x.address + Base, x.section)
<1>2. inventory = {[at |-> x, function |-> fn(x)] : x \in Coverable}
  BY <1>1, Zenon DEF Listing
<1> HIDE DEF fn
<1>3. ASSUME NEW x \in Coverable
      PROVE  \E e \in inventory : e.at = x
  <2>1. [at |-> x, function |-> fn(x)] \in inventory
    BY <1>2
  <2>2. [at |-> x, function |-> fn(x)].at = x
    OBVIOUS
  <2> QED BY <2>1, <2>2, Zenon
<1>4. ASSUME NEW e \in inventory
      PROVE  e.at \in Coverable /\ e.function = fn(e.at)
  <2>1. PICK x \in Coverable : e = [at |-> x, function |-> fn(x)]
    BY <1>2
  <2>2. e.at = x /\ e.function = fn(x)
    BY <2>1
  <2> QED BY <2>2, Zenon
<1> QED BY <1>3, <1>4, Zenon DEF fn

LEMMA DoneSettled ==
  ASSUME InfoInv, done
  PROVE  LineType /\ CallInv /\ rows = meant /\ \E ss, os : Settled(ss, os)
<1>1. LineInv /\ CallInv /\ PlaceInv /\ LinesRead
  BY Zenon DEF InfoInv, DoneInv
<1>2. Idle /\ ~asm.open
  BY <1>1 DEF LinesRead
<1>3. Resting /\ LineType
  BY <1>1, <1>2, IdleStages DEF LineInv
<1>4. rows = meant /\ Ended
  BY <1>3 DEF Resting
<1> QED BY <1>1, <1>3, <1>4, Zenon DEF PlaceInv, Settled

LEMMA PlaceIs ==
  ASSUME LineType, NEW p \in Places
  PROVE  p = <<p[1], p[2]>> /\ p[1] \in Wanted /\ Inside(p[1], p[2])
<1>1. PICK s \in Wanted : \E o \in 0 .. Size[s] - 1 : p = <<s, o>>
  BY DEF Places
<1>2. PICK o \in 0 .. Size[s] - 1 : p = <<s, o>>
  BY <1>1
<1>3. s \in Secs /\ Size[s] \in Nat
  BY ImageWants, PlaceAssumption
<1>4. p[1] = s /\ p[2] = o
  BY <1>2
<1>5. Inside(s, o)
  <2>1. PICK z \in Nat : z = Size[s]
    BY <1>3
  <2> QED BY <1>3, <2>1 DEF Inside
<1> QED BY <1>2, <1>4, <1>5, Zenon

(* Entries are where they say.                                             *)
EntryAt(e, x, s, o) ==
  /\ IsAt(e, <<s, o>>) /\ e.address + Base = Addr(s, o).v /\ e.section = Addr(s, o).sec
  /\ e.file = x.file /\ e.line = x.line

LEMMA EntryIs ==
  ASSUME LineType, NEW x, NEW s, NEW o, Inside(s, o),
           NEW a, Addr(s, o) = [v |-> a, sec |-> x.section]
  PROVE  EntryAt(CoveredAt(x, a), x, s, o)
<1>1. PICK b \in Nat : b = Base
  BY ImageWants
<1>2. PICK p \in Nat : p = Place[s]
  BY PlaceAssumption DEF Inside
<1>3. Addr(s, o).v = a /\ Addr(s, o).sec = x.section /\ a \in Nat
  <2>1. Addr(s, o).v \in Nat
    BY <1>2 DEF Addr, Inside
  <2> QED BY <2>1
<1>4. (a - b) + b = a
  BY <1>3
<1>5. PICK e : e = CoveredAt(x, a)
  OBVIOUS
<1>6. e.address = a - b /\ e.section = x.section /\ e.file = x.file /\ e.line = x.line
  BY <1>1, <1>5 DEF CoveredAt
<1>7. IsAt(e, <<s, o>>)
  <2>1. PICK q : q = <<s, o>>
    OBVIOUS
  <2>2. q[1] = s /\ q[2] = o
    BY <2>1
  <2>3. Addr(q[1], q[2]) = [v |-> e.address + Base, sec |-> e.section]
    BY <1>1, <1>3, <1>4, <1>6, <2>2
  <2> QED BY <2>1, <2>3, Zenon DEF IsAt
<1> QED BY <1>1, <1>3, <1>4, <1>5, <1>6, <1>7, Zenon DEF EntryAt

(* What is reported of a place.                                            *)
LEMMA ReportedIs ==
  ASSUME NEW s, NEW o, NEW v
  PROVE  v \in Reported(s, o) <=>
           \/ \E i \in RowsAt(s, o) : IsCode(meant[i]) /\ v = <<meant[i].file, meant[i].line>>
           \/ \E c \in CallsAt(s, o) : Sited(c)
                /\ v = <<CallFile(c.unit, c.call.file), c.call.line>>
<1> DEFINE row(i) == <<meant[i].file, meant[i].line>>
           call(c) == <<CallFile(c.unit, c.call.file), c.call.line>>
<1>1. Reported(s, o) = {row(i) : i \in {i \in RowsAt(s, o) : IsCode(meant[i])}}
                         \cup {call(c) : c \in {c \in CallsAt(s, o) : Sited(c)}}
  BY Zenon DEF Reported, Sited
<1> HIDE DEF row, call
<1>2. v \in Reported(s, o) <=>
        \/ \E i \in RowsAt(s, o) : IsCode(meant[i]) /\ v = row(i)
        \/ \E c \in CallsAt(s, o) : Sited(c) /\ v = call(c)
  BY <1>1
<1> QED BY <1>2, Zenon DEF row, call

(* No place is attributed a line outside the denominator.                  *)
LEMMA PlacesCounted ==
  ASSUME InfoInv, done, NEW s \in Wanted, NEW o, Inside(s, o), NEW v \in Reported(s, o)
  PROVE  \E e \in inventory : v = <<e.at.file, e.at.line>>
<1>1. LineType /\ CallInv /\ rows = meant
  BY DoneSettled
<1>2. PICK ss, os : Settled(ss, os)
  BY DoneSettled
<1>3. ASSUME NEW i \in RowsAt(s, o), IsCode(meant[i]), v = <<meant[i].file, meant[i].line>>
      PROVE  \E e \in inventory : v = <<e.at.file, e.at.line>>
  <2>1. i \in LastRows /\ Live(meant[i].address, meant[i].section)
    BY <1>2, <1>3, PlaceCounted
  <2>2. PICK x : x = CoveredAt(meant[i], meant[i].address)
    OBVIOUS
  <2>3. x \in Coverable
    BY <1>1, <2>1, <2>2, CoverableIs, Zenon
  <2>4. x.file = meant[i].file /\ x.line = meant[i].line
    BY <2>2 DEF CoveredAt
  <2>5. PICK e \in inventory : e.at = x
    BY <2>3, ListingIs
  <2> QED BY <1>3, <2>4, <2>5, Zenon
<1>4. ASSUME NEW c \in CallsAt(s, o), Sited(c), v = <<CallFile(c.unit, c.call.file), c.call.line>>
      PROVE  \E e \in inventory : v = <<e.at.file, e.at.line>>
  <2>1. PICK y \in sites : /\ Live(y.start, y.section)
                           /\ y.file = CallFile(c.unit, c.call.file) /\ y.line = c.call.line
    BY <1>1, <1>4, CallCounted
  <2>2. PICK x : x = CoveredAt(y, y.start)
    OBVIOUS
  <2>3. x \in Coverable
    BY <2>1, <2>2, CoverableIs, Zenon
  <2>4. x.file = y.file /\ x.line = y.line
    BY <2>2 DEF CoveredAt
  <2>5. PICK e \in inventory : e.at = x
    BY <2>3, ListingIs
  <2> QED BY <1>4, <2>1, <2>4, <2>5, Zenon
<1> QED BY <1>3, <1>4, ReportedIs, Zenon

(* What an entry of the denominator says, it says of a place.              *)
Accounted(x, s, o) ==
  /\ s \in Wanted /\ Inside(s, o) /\ IsAt(x, <<s, o>>)
  /\ x.address + Base = Addr(s, o).v /\ x.section = Addr(s, o).sec
  /\ <<x.file, x.line>> \in Reported(s, o) \/ Nameless(s, o)

LEMMA EntriesAccounted ==
  ASSUME InfoInv, done, NEW x \in Coverable
  PROVE  \E s, o : Accounted(x, s, o)
<1>1. LineType /\ CallInv /\ rows = meant
  BY DoneSettled
<1>2. PICK ss, os : Settled(ss, os)
  BY DoneSettled
<1>3. ASSUME NEW i \in LastRows, Live(meant[i].address, meant[i].section),
             x = CoveredAt(meant[i], meant[i].address)
      PROVE  \E s, o : Accounted(x, s, o)
  <2>1. PICK s, o : s = ss[i] /\ o = os[i]
    OBVIOUS
  <2>2. SaysRow(s, o, meant[i])
    BY <1>2, <1>3, <2>1, RowSays
  <2>3. /\ IsAt(x, <<s, o>>) /\ x.address + Base = Addr(s, o).v /\ x.section = Addr(s, o).sec
        /\ x.file = meant[i].file /\ x.line = meant[i].line
    <3>1. Inside(s, o) /\ Addr(s, o) = [v |-> meant[i].address, sec |-> meant[i].section]
      BY <2>2, Zenon DEF SaysRow
    <3>2. EntryAt(x, meant[i], s, o)
      BY <1>1, <1>3, <3>1, EntryIs
    <3> QED BY <3>2, Zenon DEF EntryAt
  <2>4. <<x.file, x.line>> \in Reported(s, o) \/ Nameless(s, o)
    BY <2>2, <2>3, ReportedIs, Zenon DEF SaysRow
  <2> QED BY <2>2, <2>3, <2>4, Zenon DEF SaysRow, Accounted
<1>4. ASSUME NEW y \in sites, Live(y.start, y.section), x = CoveredAt(y, y.start)
      PROVE  \E s, o : Accounted(x, s, o)
  <2>1. PICK s, o : SaysCall(s, o, y)
    BY <1>1, <1>4, CallSays
  <2>2. /\ IsAt(x, <<s, o>>) /\ x.address + Base = Addr(s, o).v /\ x.section = Addr(s, o).sec
        /\ x.file = y.file /\ x.line = y.line
    <3>1. Inside(s, o) /\ Addr(s, o) = [v |-> y.start, sec |-> y.section]
      BY <2>1, Zenon DEF SaysCall
    <3>2. EntryAt(x, y, s, o)
      BY <1>1, <1>4, <3>1, EntryIs
    <3> QED BY <3>2, Zenon DEF EntryAt
  <2>3. <<x.file, x.line>> \in Reported(s, o)
    BY <2>1, <2>2, ReportedIs, Zenon DEF SaysCall
  <2> QED BY <2>1, <2>2, <2>3, Zenon DEF SaysCall, Accounted
<1> QED BY <1>1, <1>3, <1>4, CoverableIs, Zenon

LEMMA Denominator ==
  ASSUME InfoInv
  PROVE  DenominatorExact
<1>1. SUFFICES ASSUME done
               PROVE  /\ \A p \in Places : Reported(p[1], p[2])
                           \subseteq {<<e.at.file, e.at.line>> : e \in inventory}
                      /\ \A e \in inventory : \E p \in Places :
                           /\ IsAt(e.at, p)
                           /\ <<e.at.file, e.at.line>> \in Reported(p[1], p[2])
                                \/ Nameless(p[1], p[2])
  BY Zenon DEF DenominatorExact
<1>2. LineType
  BY <1>1, DoneSettled
<1>3. ASSUME NEW p \in Places
      PROVE  Reported(p[1], p[2]) \subseteq {<<e.at.file, e.at.line>> : e \in inventory}
  <2>1. p[1] \in Wanted /\ Inside(p[1], p[2])
    BY <1>2, PlaceIs
  <2>2. ASSUME NEW v \in Reported(p[1], p[2])
        PROVE  v \in {<<e.at.file, e.at.line>> : e \in inventory}
    <3>1. \E e \in inventory : v = <<e.at.file, e.at.line>>
      BY <1>1, <2>1, PlacesCounted
    <3> QED BY <3>1, Zenon
  <2> QED BY <2>2
<1>4. ASSUME NEW e \in inventory
      PROVE  \E p \in Places :
               /\ IsAt(e.at, p)
               /\ <<e.at.file, e.at.line>> \in Reported(p[1], p[2]) \/ Nameless(p[1], p[2])
  <2>1. e.at \in Coverable
    BY <1>1, ListingIs
  <2>2. PICK s, o : Accounted(e.at, s, o)
    BY <1>1, <2>1, EntriesAccounted
  <2>3. PICK p : p = <<s, o>>
    OBVIOUS
  <2>4. p[1] = s /\ p[2] = o
    BY <2>3
  <2>5. p \in Places
    BY <1>2, <2>2, <2>3, PlacesAre DEF Accounted
  <2> QED BY <2>2, <2>3, <2>4, <2>5, Zenon DEF Accounted
<1> QED BY <1>3, <1>4

(* The denominator is what addr2line -i can report of the code wanted, for *)
(* any units, encodings and layout: see DenominatorExact.                  *)
THEOREM DenominatorExactCorrect == Spec => []DenominatorExact
<1>1. InfoInv => DenominatorExact
  BY Denominator
<1> QED BY <1>1, InfoInvariant, PTL

-----------------------------------------------------------------------------
(* The function of an entry.                                               *)

Spanning(s, o) ==
  {f \in Symbols : f.sec = s /\ o \in f.start .. f.start + Max({f.size, 1}) - 1}
RightAt(name, s, o) ==
  IF name = ""
  THEN \A f \in Spanning(s, o) : \E g \in Symbols : g.sec = f.sec /\ g.start \in f.start + 1 .. o
  ELSE \E f \in Spanning(s, o) : f.name = name

(* A bounded nonempty set of naturals has a greatest member.               *)
LEMMA GreatestNat ==
  ASSUME NEW S \in SUBSET Nat, S # {}, NEW b \in Nat, \A n \in S : n <= b
  PROVE  Max(S) \in S /\ \A n \in S : n <= Max(S)
<1> DEFINE T == {b - n : n \in S}
<1>1. T \in SUBSET Nat /\ T # {}
  <2>1. \A n \in S : b - n \in Nat
    OBVIOUS
  <2> QED BY <2>1
<1>2. PICK t \in T : \A u \in T : t <= u
  <2> HIDE DEF T
  <2> QED BY <1>1, LeastNat
<1>3. PICK n \in S : t = b - n
  BY <1>2
<1>4. ASSUME NEW m \in S
      PROVE  n >= m
  <2>1. t <= b - m
    BY <1>2
  <2>2. m \in Nat /\ n \in Nat
    OBVIOUS
  <2> QED BY ONLY <1>3, <2>1, <2>2, b \in Nat
<1>5. \E x \in S : \A y \in S : x >= y
  BY <1>4
<1>6. Max(S) \in S /\ \A y \in S : Max(S) >= y
  BY <1>5 DEF Max
<1>7. \A m \in S : m \in Nat
  OBVIOUS
<1> QED BY <1>6, <1>7

LEMMA SymbolFine ==
  ASSUME NEW f \in Symbols
  PROVE  /\ f.sec \in Secs /\ f.start \in Nat /\ f.size \in Nat
         /\ f.start < Size[f.sec] /\ f.start + f.size <= Size[f.sec]
         /\ Size[f.sec] \in Nat /\ Place[f.sec] \in Nat
         /\ Max({f.size, 1}) = IF f.size = 0 THEN 1 ELSE f.size
<1>1. /\ f.sec \in Secs /\ f.start \in Nat /\ f.size \in Nat
      /\ f.start + Max({f.size, 1}) <= Size[f.sec]
  BY SymbolAssumption, Zenon
<1>2. PICK z \in Nat, a \in Nat, n \in Nat : z = Size[f.sec] /\ a = f.start /\ n = f.size
  BY <1>1, PlaceAssumption
<1>3. PICK m : m = Max({n, 1})
  OBVIOUS
<1>4. m = IF n = 0 THEN 1 ELSE n
  <2>1. PICK S : S = {n, 1}
    OBVIOUS
  <2>2. S \in SUBSET Nat /\ S # {} /\ \A k \in S : k <= n + 1
    BY <2>1
  <2>3. m \in S /\ \A k \in S : k <= m
    BY <1>3, <2>1, <2>2, GreatestNat
  <2>4. (m = n \/ m = 1) /\ n <= m /\ 1 <= m
    BY <2>1, <2>3
  <2> QED BY <2>4
<1>5. a + m <= z
  BY <1>1, <1>2, <1>3
<1>6. a < z /\ a + n <= z
  BY <1>4, <1>5
<1>7. Place[f.sec] \in Nat
  BY <1>1, PlaceAssumption
<1> QED BY <1>1, <1>2, <1>3, <1>4, <1>6, <1>7

\* Symbols and a place, by their addresses.
LEMMA SymbolAt ==
  ASSUME LineType, NEW s \in Wanted, NEW o, Inside(s, o), NEW f \in Symbols, f.sec = s
  PROVE  /\ f \in Listed(Addr(s, o).sec)
         /\ Value(f) <= Addr(s, o).v <=> f.start <= o
<1>1. elf.kind \in {"rel", "image"} /\ s \in Secs \ Discarded /\ o \in Nat
  BY ImageWants DEF Inside
<1>2. PICK a \in Nat, x \in Nat : a = f.start /\ x = Place[s]
  BY SymbolFine
<1>3. CASE elf.kind = "rel"
  <2>1. Addr(s, o).sec = s /\ Addr(s, o).v = o /\ Addr(s, a).v = a
    BY <1>1, <1>3, AddrFields
  <2>2. Value(f) = a
    BY <1>2, <2>1 DEF Value
  <2> QED BY <1>1, <1>2, <2>1, <2>2 DEF Listed
<1>4. CASE elf.kind = "image"
  <2>1. Addr(s, o).v = x + o /\ Addr(s, a).v = x + a
    BY <1>1, <1>2, <1>4, AddrFields
  <2>2. Value(f) = x + a
    BY <1>2, <2>1 DEF Value
  <2>3. x + a <= x + o <=> a <= o
    BY <1>1
  <2> QED BY <1>1, <1>2, <1>4, <2>1, <2>2, <2>3 DEF Listed
<1> QED BY <1>1, <1>3, <1>4

\* A listed function whose addresses have the place's among them, or which
\* starts between one of the place's section and the place, is of its section.
LEMMA ListedNear ==
  ASSUME LineType, NEW s \in Wanted, NEW o, Inside(s, o), NEW f \in Listed(Addr(s, o).sec),
         Value(f) <= Addr(s, o).v,
         \/ Addr(s, o).v < Value(f) + f.size
         \/ f.size = 0 /\ Addr(s, o).v = Value(f)
         \/ \E a \in Nat : a <= o /\ Addr(s, a).v <= Value(f)
  PROVE  f.sec = s
<1>1. elf.kind \in {"rel", "image"} /\ s \in Secs \ Discarded /\ o \in Nat
  BY ImageWants DEF Inside
<1>2. f \in Symbols /\ (elf.kind = "image" \/ f.sec = Addr(s, o).sec)
  BY DEF Listed
<1>3. CASE elf.kind = "rel"
  BY <1>1, <1>2, <1>3, AddrFields
<1>4. CASE elf.kind = "image"
  <2>1. PICK t \in Secs, a \in Nat, n \in Nat, x \in Nat, y \in Nat, z \in Nat, w \in Nat :
          /\ t = f.sec /\ a = f.start /\ n = f.size /\ x = Place[s] /\ y = Place[t]
          /\ z = Size[s] /\ w = Size[t]
    <3>1. f.sec \in Secs /\ f.start \in Nat /\ f.size \in Nat /\ Size[f.sec] \in Nat
            /\ Place[f.sec] \in Nat
      BY <1>2, SymbolFine
    <3>2. Place[s] \in Nat /\ Size[s] \in Nat
      BY <1>1, PlaceAssumption
    <3> QED BY <3>1, <3>2, Zenon
  <2>2. a < w /\ a + n <= w
    BY <1>2, <2>1, SymbolFine
  <2>3. Addr(s, o).v = x + o /\ Value(f) = y + a /\ \A b : Addr(s, b).v = x + b
    BY <1>1, <1>4, <2>1, AddrFields DEF Value
  <2>4. y + a <= x + o /\ o < z
    BY <2>1, <2>3 DEF Inside
  <2>5. x + o < y + w \/ x <= y + a
    <3>1. CASE x + o < y + a + n
      BY <1>1, <2>1, <2>2, <3>1
    <3>2. CASE n = 0 /\ x + o = y + a
      BY <1>1, <2>1, <2>2, <3>2
    <3>3. CASE \E b \in Nat : b <= o /\ x + b <= y + a
      BY <2>1, <3>3
    <3> QED BY <2>1, <2>3, <3>1, <3>2, <3>3
  <2>6. CASE x + o < y + w
    <3>1. y <= x + o
      BY <1>1, <2>1, <2>4
    <3> QED BY <1>1, <2>1, <2>4, <2>6, <3>1, Apart
  <2>7. CASE x <= y + a
    <3>1. y + a < x + z
      BY <1>1, <2>1, <2>4
    <3>2. t \in Secs \ Discarded
      <4>1. t \in Discarded => y = 0 /\ w <= x
        BY <1>1, <2>1, PlaceAssumption
      <4> QED BY <2>1, <2>2, <2>7, <4>1
    <3> QED BY <1>1, <2>1, <2>2, <2>7, <3>1, <3>2, Apart
  <2> QED BY <2>5, <2>6, <2>7
<1> QED BY <1>1, <1>3, <1>4

LEMMA FunctionRight ==
  ASSUME LineType, NEW s \in Wanted, NEW o, Inside(s, o)
  PROVE  RightAt(FunctionAt(Addr(s, o).v, Addr(s, o).sec), s, o)
<1>1. elf.kind \in {"rel", "image"} /\ s \in Secs \ Discarded /\ o \in Nat
  BY ImageWants DEF Inside
<1>2. PICK x \in Nat : x = Place[s]
  BY <1>1, PlaceAssumption
<1>a. PICK v \in Nat : v = Addr(s, o).v
  BY <1>1, <1>2 DEF Addr
<1>b. PICK c : c = Addr(s, o).sec
  OBVIOUS
<1>3. v = Addr(s, o).v /\ c = Addr(s, o).sec
  BY <1>a, <1>b
<1> DEFINE B == Before(v, c)
           V == {Value(f) : f \in B}
           top0 == Nearest(v, c)
<1>4. ASSUME NEW f \in Listed(c)
      PROVE  f \in Symbols /\ Value(f) \in Nat /\ f.size \in Nat
  <2>1. f \in Symbols
    BY DEF Listed
  <2>2. f.start \in Nat /\ Place[f.sec] \in Nat /\ f.size \in Nat
    BY <2>1, SymbolFine
  <2>3. Addr(f.sec, f.start).v \in Nat
    BY <2>2 DEF Addr
  <2> QED BY <2>1, <2>2, <2>3, Zenon DEF Value
<1>5. \A f \in B : f \in Listed(c) /\ Value(f) <= v
  BY DEF Before
<1>6. B # {} => top0 \in V /\ \A n \in V : n <= top0
  <2>1. V \in SUBSET Nat /\ \A n \in V : n <= v
    BY <1>4, <1>5
  <2>2. top0 = Max(V)
    BY Zenon DEF Nearest
  <2>3. B # {} => V # {}
    OBVIOUS
  <2> HIDE DEF V, B, top0
  <2> QED BY <1>3, <2>1, <2>2, <2>3, GreatestNat
<1>7. PICK name : name = FunctionAt(v, c)
  OBVIOUS
<1>8. CASE B = {} \/ Spans(v, c) = {}
  <2>1. name = ""
    BY <1>7, <1>8, FunctionIs, Zenon
  <2>2. ASSUME NEW f \in Spanning(s, o)
        PROVE  \E g \in Symbols : g.sec = f.sec /\ g.start \in f.start + 1 .. o
    <3>1. f \in Symbols /\ f.sec = s /\ o \in f.start .. f.start + Max({f.size, 1}) - 1
      BY DEF Spanning
    <3>2. PICK a \in Nat, n \in Nat : a = f.start /\ n = f.size
      BY <3>1, SymbolFine
    <3>3. a <= o /\ o < a + (IF n = 0 THEN 1 ELSE n)
      <4>1. Max({f.size, 1}) = IF n = 0 THEN 1 ELSE n
        BY <3>1, <3>2, SymbolFine
      <4>2. PICK m \in Nat : m = IF n = 0 THEN 1 ELSE n
        OBVIOUS
      <4>3. o \in a .. a + m - 1
        BY <3>1, <3>2, <4>1, <4>2
      <4> QED BY <4>2, <4>3
    <3>4. f \in Listed(c) /\ Value(f) <= v
      BY <1>3, <3>1, <3>2, <3>3, SymbolAt
    <3>5. f \in B
      BY <3>4 DEF Before
    <3>6. Spans(v, c) = {} /\ top0 \in V /\ Value(f) <= top0
      BY <1>6, <1>8, <3>5
    <3>7. PICK g \in B : Value(g) = top0
      BY <3>6
    <3>8. g \in Listed(c) /\ g \in Symbols /\ Value(g) \in Nat /\ Value(g) <= v /\ Value(f) \in Nat
      BY <1>4, <1>5, <3>4, <3>7
    <3>9. v = IF elf.kind = "rel" THEN o ELSE x + o
      BY <1>1, <1>2, <1>3, AddrFields
    <3>10. Value(f) = IF elf.kind = "rel" THEN a ELSE x + a
      BY <1>1, <1>2, <3>1, <3>2, AddrFields DEF Value
    <3>11. Value(f) # top0
      <4>1. SUFFICES ASSUME Value(f) = top0
                     PROVE  f \in Spans(v, c)
        BY <3>6
      <4>2. v < Value(f) + n \/ (n = 0 /\ v = Value(f))
        BY <1>1, <3>3, <3>9, <3>10
      <4>3. Reaches(f, top0, v)
        BY <3>2, <4>1, <4>2, Zenon DEF Reaches
      <4> QED BY <3>5, <4>1, <4>3, Zenon DEF Spans
    <3>12. Value(f) < Value(g)
      BY <3>6, <3>7, <3>8, <3>11
    <3>13. g.sec = s
      <4>1. Addr(s, a).v <= Value(g)
        BY <3>1, <3>2, <3>8, <3>12 DEF Value
      <4>2. g \in Listed(Addr(s, o).sec) /\ Value(g) <= Addr(s, o).v
        BY <1>3, <3>8
      <4> QED BY <3>2, <3>3, <4>1, <4>2, ListedNear
    <3>14. PICK b \in Nat : b = g.start
      BY <3>8, SymbolFine
    <3>15. Value(g) = IF elf.kind = "rel" THEN b ELSE x + b
      BY <1>1, <1>2, <3>13, <3>14, AddrFields DEF Value
    <3>16. b \in a + 1 .. o
      BY <1>1, <3>8, <3>9, <3>10, <3>12, <3>15
    <3> QED BY <3>1, <3>2, <3>8, <3>13, <3>14, <3>16
  <2> QED BY <1>3, <1>7, <2>1, <2>2, Zenon DEF RightAt
<1>9. CASE ~(B = {} \/ Spans(v, c) = {})
  <2>1. name = Tightest(v, c).name
    BY <1>7, <1>9, FunctionIs, Zenon
  <2>2. Tightest(v, c) \in Spans(v, c)
    <3>1. PICK U : U = Spans(v, c)
      OBVIOUS
    <3>2. \A f \in U : f.size \in Nat
      <4>1. \A f \in U : f \in B
        BY <3>1 DEF Spans
      <4> QED BY <1>4, <1>5, <4>1
    <3>3. PICK T : T = {f.size : f \in U}
      OBVIOUS
    <3>4. T \in SUBSET Nat /\ T # {}
      BY <1>9, <3>1, <3>2, <3>3
    <3>5. PICK n \in T : \A m \in T : n <= m
      BY <3>4, LeastNat
    <3>6. \E f \in U : \A g \in U : f.size <= g.size
      BY <3>3, <3>5
    <3>7. Tightest(v, c) = CHOOSE f \in U : \A g \in U : f.size <= g.size
      BY <3>1, Zenon DEF Tightest
    <3> QED BY <3>1, <3>6, <3>7, Zenon
  <2>3. PICK f : f = Tightest(v, c)
    OBVIOUS
  <2>4. /\ f \in B /\ Value(f) = top0
        /\ v < Value(f) + f.size \/ (f.size = 0 /\ v = Value(f))
    BY <2>2, <2>3, Zenon DEF Spans, Reaches
  <2>5. f \in Listed(c) /\ f \in Symbols /\ Value(f) <= v /\ Value(f) \in Nat
    BY <1>4, <1>5, <2>4
  <2>6. f.sec = s
    <3>1. f \in Listed(Addr(s, o).sec) /\ Value(f) <= Addr(s, o).v
      BY <1>3, <2>5
    <3>2. \/ Addr(s, o).v < Value(f) + f.size
          \/ f.size = 0 /\ Addr(s, o).v = Value(f)
      BY <1>3, <2>4
    <3> QED BY <3>1, <3>2, ListedNear
  <2>7. PICK a \in Nat, n \in Nat : a = f.start /\ n = f.size
    BY <2>5, SymbolFine
  <2>8. Max({f.size, 1}) = (IF n = 0 THEN 1 ELSE n)
    BY <2>5, <2>7, SymbolFine
  <2>9. Value(f) = IF elf.kind = "rel" THEN a ELSE x + a
    BY <1>1, <1>2, <2>6, <2>7, AddrFields DEF Value
  <2>10. v = IF elf.kind = "rel" THEN o ELSE x + o
    BY <1>1, <1>2, <1>3, AddrFields
  <2>11. a <= o /\ o < a + (IF n = 0 THEN 1 ELSE n)
    BY <1>1, <2>4, <2>5, <2>7, <2>9, <2>10
  <2>12. f \in Spanning(s, o)
    <3>1. PICK m \in Nat : m = IF n = 0 THEN 1 ELSE n
      OBVIOUS
    <3>2. o \in a .. a + m - 1
      BY <1>1, <2>11, <3>1
    <3>3. o \in f.start .. f.start + Max({f.size, 1}) - 1
      BY <2>7, <2>8, <3>1, <3>2
    <3> QED BY <2>5, <2>6, <3>3 DEF Spanning
  <2>13. name = f.name /\ name # ""
    BY <2>1, <2>3, <2>5, SymbolAssumption, Zenon
  <2> QED BY <1>3, <1>7, <2>12, <2>13, Zenon DEF RightAt
<1> QED BY <1>8, <1>9

LEMMA Functions ==
  ASSUME InfoInv
  PROVE  FunctionsRight
<1>1. CASE ~done
  <2>1. inventory = {}
    BY <1>1 DEF InfoInv, DoneInv
  <2> QED BY <2>1 DEF FunctionsRight
<1>2. CASE done
  <2>1. LineType
    BY <1>2, DoneSettled
  <2>2. ASSUME NEW e \in inventory
        PROVE  \E p \in Places : IsAt(e.at, p) /\ RightAt(e.function, p[1], p[2])
    <3>1. e.at \in Coverable /\ e.function = FunctionAt(e.at.address + Base, e.at.section)
      BY <1>2, ListingIs
    <3>2. PICK s, o : Accounted(e.at, s, o)
      BY <1>2, <3>1, EntriesAccounted
    <3>3. PICK p : p = <<s, o>>
      OBVIOUS
    <3>4. p[1] = s /\ p[2] = o
      BY <3>3
    <3>5. s \in Wanted /\ Inside(s, o)
      BY <3>2, Zenon DEF Accounted
    <3>6. p \in Places
      BY <2>1, <3>3, <3>5, PlacesAre
    <3>7. RightAt(e.function, s, o)
      <4>1. RightAt(FunctionAt(Addr(s, o).v, Addr(s, o).sec), s, o)
        BY <2>1, <3>5, FunctionRight
      <4> QED BY <3>1, <3>2, <4>1, Zenon DEF Accounted
    <3> QED BY <3>2, <3>3, <3>4, <3>6, <3>7, Zenon DEF Accounted
  <2> QED BY <2>2, Zenon DEF FunctionsRight, RightAt, Spanning
<1> QED BY <1>1, <1>2

(* A line is given to a function that has its code, and to none only if    *)
(* none that starts nearest has: see FunctionsRight.                       *)
THEOREM FunctionsRightCorrect == Spec => []FunctionsRight
<1>1. InfoInv => FunctionsRight
  BY Functions
<1> QED BY <1>1, InfoInvariant, PTL
=============================================================================
