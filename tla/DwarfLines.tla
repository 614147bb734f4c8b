---------------------------- MODULE DwarfLines ----------------------------
(***************************************************************************)
(* The denominator read from DWARF (src/tcgcov/dwarfline.py,               *)
(* iter_coverable_lines, and coverable.py, dwarf_inventory): the last row  *)
(* of every address, the call site of every inlined range, and the         *)
(* function each belongs to.  The compiler, which is external, decides     *)
(* which ranges a call was inlined into and picks one of the ways to       *)
(* describe them; addr2line -i, external too, is what the rows that were   *)
(* meant and the calls that were described say of an address.              *)
(***************************************************************************)
EXTENDS LineProgram, FiniteSetsExt

CONSTANTS
  Calls,          \* what an inlined call may be: [line, file, ranges], a
                  \* range being [sec, start, end] in offsets
  Bases,          \* the sections a unit's low_pc may be the start of, and NoSec
  Symbols,        \* the functions: [name, sec, start, size]
  Top             \* the address of all ones, which selects a base

ASSUME CallAssumption ==
  /\ Bases \subseteq Secs \cup {NoSec}
  /\ Top \in Nat /\ \A s \in Secs : Place[s] + Size[s] < Top
  /\ \A c \in Calls :
       /\ c.ranges \in Seq([sec : Secs, start : Nat, end : Nat]) /\ c.ranges # <<>>
       /\ \A i \in DOMAIN c.ranges :
            LET r == c.ranges[i] IN r.start <= r.end /\ r.end <= Size[r.sec]

ASSUME SymbolAssumption ==
  \A f \in Symbols : /\ f.name # "" /\ f.sec \in Secs /\ f.start \in Nat /\ f.size \in Nat
                     /\ f.start + Max({f.size, 1}) <= Size[f.sec]

VARIABLES calls, sites, walked, done, inventory

infoVars == <<calls, sites, walked, done, inventory>>
vars == <<lineVars, infoVars>>

Null == [v |-> 0, sec |-> NoSec]
Plus(x, n) == [x EXCEPT !.v = @ + n]

----------------------------------------------------------------------------
(* Range lists.  An operand is an address with the section it is relocated *)
(* against, or a number.                                                   *)

Raw(x, y) == [start |-> x, end |-> y]

\* DW_RLE entries: base_address(x), offset_pair, and the forms that name
\* their start, with an end or with a length.
RngEntry(acc, e) ==
  CASE e.kind = "base"   -> [acc EXCEPT !.base = e.x]
    [] e.kind = "pair"   -> [acc EXCEPT !.out = Append(@, Raw(Plus(acc.base, e.x.v), acc.base.v + e.y.v))]
    [] e.kind = "ends"   -> [acc EXCEPT !.out = Append(@, Raw(e.x, e.y.v))]
    [] e.kind = "length" -> [acc EXCEPT !.out = Append(@, Raw(e.x, e.x.v + e.y.v))]
RngList(list, base) == FoldLeft(RngEntry, [base |-> base, out |-> <<>>], list).out

\* A list before DWARF 5.  Mutant: two zeros end it, relocated or not.
PairEndsUnrelocated(e) == e.x.v = 0 /\ e.y.v = 0
PairEnds(e) == e.x.v = 0 /\ e.y.v = 0 /\ e.x.sec = NoSec
PairEntry(acc, e) ==
  IF acc.ended THEN acc
  ELSE IF PairEnds(e) THEN [acc EXCEPT !.ended = TRUE]
  ELSE IF e.x.v = Top THEN [acc EXCEPT !.base = e.y]
  ELSE [acc EXCEPT !.out = Append(@,
         IF e.x.sec # NoSec THEN Raw(e.x, e.y.v)
         ELSE Raw(Plus(acc.base, e.x.v), acc.base.v + e.y.v))]
PairList(list, base) ==
  FoldLeft(PairEntry, [base |-> base, out |-> <<>>, ended |-> FALSE], list).out

\* Mutant: an end given as an offset is taken for an address.
DieRangesHighAbsolute(die, version, base) ==
  IF die.ranges # <<>> THEN IF version >= 5 THEN RngList(die.ranges, base)
                            ELSE PairList(die.ranges, base)
  ELSE <<Raw(die.low, die.high.x.v)>>
DieRanges(die, version, base) ==
  IF die.ranges # <<>> THEN IF version >= 5 THEN RngList(die.ranges, base)
                            ELSE PairList(die.ranges, base)
  ELSE <<Raw(die.low, IF die.high.form = "addr" THEN die.high.x.v ELSE die.low.v + die.high.x.v)>>

----------------------------------------------------------------------------
(* The compiler: the ways to describe the ranges of a call.                *)

From(r)   == Addr(r.sec, r.start)
To(r)     == Addr(r.sec, r.end)
Number(n) == [v |-> n, sec |-> NoSec]

\* Ranges that may be given relative to base: those of its section, and in
\* an image those that are not before it.
Within(rs, base) ==
  \A i \in DOMAIN rs : IF elf.kind = "image" THEN From(rs[i]).v >= base.v
                                             ELSE rs[i].sec = base.sec

\* An unrelocated pair of zeros would end the list, so no compiler writes it.
Writable(list) == \A i \in 1 .. Len(list) - 1 : list[i] # [x |-> Null, y |-> Null]

Lists(rs, version, base) ==
  LET each(E(_)) == [i \in DOMAIN rs |-> E(rs[i])]
      two(E(_))  == FlattenSeq([i \in DOMAIN rs |-> E(rs[i])])
      rel(r)     == [x |-> Number(From(r).v - base.v), y |-> Number(To(r).v - base.v)]
  IN  IF version >= 5
      THEN {each(LAMBDA r : [kind |-> "ends", x |-> From(r), y |-> To(r)]),
            each(LAMBDA r : [kind |-> "length", x |-> From(r), y |-> Number(r.end - r.start)]),
            two(LAMBDA r : <<[kind |-> "base", x |-> Addr(r.sec, 0), y |-> Null],
                             [kind |-> "pair", x |-> Number(r.start), y |-> Number(r.end)]>>)}
           \cup (IF Within(rs, base)
                 THEN {each(LAMBDA r : [kind |-> "pair", x |-> rel(r).x, y |-> rel(r).y])}
                 ELSE {})
      ELSE {list \in
              (IF elf.kind = "rel"
               THEN {each(LAMBDA r : [x |-> From(r), y |-> To(r)]) \o <<[x |-> Null, y |-> Null]>>}
               ELSE {})
              \cup {two(LAMBDA r : <<[x |-> Number(Top), y |-> Addr(r.sec, 0)],
                                     [x |-> Number(r.start), y |-> Number(r.end)]>>)
                      \o <<[x |-> Null, y |-> Null]>>}
              \cup (IF Within(rs, base)
                    THEN {each(rel) \o <<[x |-> Null, y |-> Null]>>}
                    ELSE {}) : Writable(list)}

Dies(call, version, base) ==
  LET rs == call.ranges
      die(low, high, list) == [low |-> low, high |-> high, ranges |-> list]
      none == [form |-> "none", x |-> Null]
  IN  {die(Null, none, list) : list \in Lists(rs, version, base)}
      \cup (IF Len(rs) = 1
            THEN {die(From(rs[1]), [form |-> "addr", x |-> To(rs[1])], <<>>),
                  die(From(rs[1]), [form |-> "offset", x |-> Number(rs[1].end - rs[1].start)], <<>>)}
            ELSE {})

----------------------------------------------------------------------------
(* The reader walks .debug_info unit by unit.                              *)

CallFile(u, i) == FileOf(u, units[u].h.files, i)

SitesOf(u, call, ranges) ==
  IF call.line = 0 \/ CallFile(u, call.file) = NoFile THEN {}
  ELSE {[section |-> ranges[i].start.sec, start |-> ranges[i].start.v, end |-> ranges[i].end,
         file |-> CallFile(u, call.file), line |-> call.line] :
          i \in {i \in DOMAIN ranges : ranges[i].end > ranges[i].start.v}}

\* Mutant: what was read before a unit turned out bad is kept.
KeptSome(u, read) == read
Kept(u, read) == IF units[u].bad = "no" THEN read ELSE {}

LinesRead == Idle /\ ~asm.open /\ units # <<>>

\* iter_inline_call_sites: one unit, with at most one inlined call in it.  A
\* unit whose first entry cannot be read has none.
WalkUnit ==
  /\ LinesRead /\ walked < Len(units)
  /\ LET u == walked + 1 IN
       \/ /\ UNCHANGED <<calls, sites, left>>
       \/ /\ left.calls > 0 /\ units[u].bad # "root"
          /\ left' = [left EXCEPT !.calls = @ - 1]
          /\ \E call \in Calls, b \in Bases :
               LET base == IF b = NoSec THEN Null ELSE Addr(b, 0) IN
               /\ elf.kind = "image" \/ \A i \in DOMAIN call.ranges : call.ranges[i].sec \notin Discarded
               /\ calls' = calls \cup {[unit |-> u, call |-> call]}
               /\ \E die \in Dies(call, units[u].h.version, base) :
                    sites' = sites \cup
                      Kept(u, SitesOf(u, call, DieRanges(die, units[u].h.version, base)))
  /\ walked' = walked + 1
  /\ UNCHANGED <<elf, units, code, pos, reloc, regs, files, rows, asm, top, meant,
                 done, inventory>>

----------------------------------------------------------------------------
(* Coverable lines and their functions.                                    *)

Base == IF elf.want = NoSec \/ elf.kind = "rel" THEN 0 ELSE Place[elf.want]

\* Mutant: no filter on where real code is in a linked image.
LiveAnywhere(address, sec) ==
  IF elf.kind = "rel" THEN sec # NoSec /\ (elf.want = NoSec \/ sec = elf.want)
  ELSE elf.want = NoSec \/ address \in Base .. Base + Size[elf.want] - 1
Live(address, sec) ==
  IF elf.kind = "rel" THEN sec # NoSec /\ (elf.want = NoSec \/ sec = elf.want)
  ELSE IF elf.want # NoSec THEN address \in Base .. Base + Size[elf.want] - 1
  ELSE \E s \in Secs \ Discarded : address \in Place[s] .. Place[s] + Size[s] - 1

IsCode(row) == ~row.end_sequence /\ row.line # 0 /\ row.file # NoFile

\* Mutant: every row of an address, not the last.
LastRowsAll == {i \in DOMAIN rows : IsCode(rows[i])}
LastRows ==
  {i \in DOMAIN rows : /\ IsCode(rows[i])
                       /\ \A j \in i + 1 .. Len(rows) :
                            ~(IsCode(rows[j]) /\ rows[j].section = rows[i].section
                                              /\ rows[j].address = rows[i].address)}

Coverable ==
  LET entry(x, address) == [address |-> address - Base, section |-> x.section,
                            file |-> x.file, line |-> x.line]
  IN  {entry(rows[i], rows[i].address) :
         i \in {i \in LastRows : Live(rows[i].address, rows[i].section)}}
      \cup {entry(x, x.start) : x \in {x \in sites : Live(x.start, x.section)}}

\* FunctionIndex: the functions by start, the longer first, one list for
\* each section of a relocatable object.  In an image the functions that the
\* linker discarded are listed too, from address 0.
\* Mutant: one list for all sections.
ListedAll(sec) == Symbols
Listed(sec) == {f \in Symbols : elf.kind = "image" \/ f.sec = sec}

\* Mutant: it reaches one address too far.
ReachesPast(f, start, address) == address <= start + f.size
Reaches(f, start, address) ==
  address < start + f.size \/ (f.size = 0 /\ address = start)

FunctionAt(address, sec) ==
  LET value(f) == Addr(f.sec, f.start).v
      before == {f \in Listed(sec) : value(f) <= address}
      start  == Max({value(f) : f \in before})
      spans  == {f \in before : value(f) = start /\ Reaches(f, start, address)}
  IN  IF before = {} \/ spans = {} THEN ""
      ELSE (CHOOSE f \in spans : \A g \in spans : f.size <= g.size).name

\* iter_coverable_lines and dwarf_inventory, all of it or nothing.
Inventory ==
  /\ LinesRead /\ walked = Len(units) /\ ~done
  /\ inventory' = {[at |-> x, function |-> FunctionAt(x.address + Base, x.section)] :
                     x \in Coverable}
  /\ done' = TRUE
  /\ UNCHANGED <<lineVars, calls, sites, walked>>

Init ==
  /\ LineInit
  /\ calls = {} /\ sites = {} /\ walked = 0 /\ done = FALSE /\ inventory = {}

Next ==
  \/ walked = 0 /\ (Assembles \/ Decodes) /\ UNCHANGED infoVars
  \/ WalkUnit
  \/ Inventory

Spec == Init /\ [][Next]_vars

----------------------------------------------------------------------------
(* addr2line -i, for the place o of section s.                             *)

\* The rows whose instructions contain the place: the last of the rows of
\* their sequence that are not after it.
RowsAt(s, o) ==
  LET k == Addr(s, o) IN
  {i \in DOMAIN meant :
     /\ ~meant[i].end_sequence /\ meant[i].section = k.sec /\ meant[i].address <= k.v
     /\ meant[i + 1].address > k.v}

CallsAt(s, o) ==
  {c \in calls : \E i \in DOMAIN c.call.ranges :
                   LET r == c.call.ranges[i] IN r.sec = s /\ o \in r.start .. r.end - 1}

Reported(s, o) ==
  {<<meant[i].file, meant[i].line>> : i \in {i \in RowsAt(s, o) : IsCode(meant[i])}}
    \cup {<<CallFile(c.unit, c.call.file), c.call.line>> :
            c \in {c \in CallsAt(s, o) : /\ units[c.unit].bad = "no" /\ c.call.line # 0
                                         /\ CallFile(c.unit, c.call.file) # NoFile}}

\* A place where the last row names no line: the reader keeps the one before.
Nameless(s, o) == \E i \in RowsAt(s, o) : ~IsCode(meant[i])

Wanted == IF elf.want = NoSec THEN Secs \ Discarded ELSE {elf.want}
Places == UNION {{<<s, o>> : o \in 0 .. Size[s] - 1} : s \in Wanted}
IsAt(x, p) == Addr(p[1], p[2]) = [v |-> x.address + Base, sec |-> x.section]

\* Every inlined call that a readable unit describes is read with the ranges
\* it was inlined into, however they are written, and nothing else is.
CallSitesExact ==
  sites = UNION {UNION {SitesOf(c.unit, c.call,
                          <<[start |-> From(c.call.ranges[i]), end |-> To(c.call.ranges[i]).v]>>) :
                          i \in DOMAIN c.call.ranges} :
                   c \in {c \in calls : units[c.unit].bad = "no"}}

\* The denominator is what addr2line -i can report: no instruction is
\* attributed a line outside it, and no line in it belongs to a place of
\* which addr2line says otherwise.
DenominatorExact ==
  done =>
    /\ \A p \in Places : Reported(p[1], p[2]) \subseteq {<<e.at.file, e.at.line>> : e \in inventory}
    /\ \A e \in inventory : \E p \in Places :
         /\ IsAt(e.at, p)
         /\ <<e.at.file, e.at.line>> \in Reported(p[1], p[2]) \/ Nameless(p[1], p[2])

\* A line is given to a function only if the function is in the section of
\* the line's code and spans it, and is given to none only if none starts
\* nearest before it and spans it.
FunctionsRight ==
  \A e \in inventory : \E p \in Places :
    LET spanning == {f \in Symbols : f.sec = p[1] /\ p[2] \in f.start .. f.start + Max({f.size, 1}) - 1}
    IN  /\ IsAt(e.at, p)
        /\ IF e.function = ""
           THEN \A f \in spanning : \E g \in Symbols : g.sec = f.sec /\ g.start \in f.start + 1 .. p[2]
           ELSE \E f \in spanning : f.name = e.function
=============================================================================
