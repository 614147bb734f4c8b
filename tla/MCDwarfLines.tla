--------------------------- MODULE MCDwarfLines ---------------------------
(***************************************************************************)
(* An instance of DwarfLines for TLC: two sections and one the linker      *)
(* discarded; a header before DWARF 5 whose special opcodes begin at 10,   *)
(* with two-byte instructions and files defined in the program, and one of *)
(* DWARF 5 with two operations to a word and an opcode nobody knows.  Both *)
(* put noise before each row: opcodes whose operands, taken for opcodes,   *)
(* would move the address.  line_range makes 255, the last opcode, reach   *)
(* an advance of two.                                                      *)
(***************************************************************************)
EXTENDS DwarfLines

MCHeaders ==
  {[version |-> 3, min_inst |-> 2, max_ops |-> 1, line_base |-> -1, line_range |-> 121,
    opcode_base |-> 10, std_lens |-> <<0, 1, 1, 1, 1, 0, 0, 0, 1>>, dir |-> "d3",
    files |-> <<31>>, names |-> {31, 32}, noise |-> <<6, 5, 9>>],
   [version |-> 5, min_inst |-> 1, max_ops |-> 2, line_base |-> -1, line_range |-> 120,
    opcode_base |-> 14, std_lens |-> <<0, 1, 1, 1, 1, 0, 0, 0, 1, 0, 0, 1, 2>>, dir |-> "d5",
    files |-> <<51, 52>>, names |-> {51}, noise |-> <<13, 9, 2, 0, 3, 128, 9, 9>>]}

MCSecs    == {"a", "b", "gone"}
MCPlace   == [s \in MCSecs |-> CASE s = "a" -> 6 [] s = "b" -> 16 [] OTHER -> 0]
MCSize    == [s \in MCSecs |-> 6]

MCImages ==
  {[kind |-> "image", want |-> NoSec, bad |-> {"no"}, units |-> 2, rows |-> 2, calls |-> 0],
   [kind |-> "image", want |-> "a", bad |-> {"no"}, units |-> 2, rows |-> 2, calls |-> 0],
   [kind |-> "rel", want |-> NoSec, bad |-> {"no", "root"}, units |-> 2, rows |-> 2, calls |-> 0]}
    \cup [kind : {"rel", "image"}, want : {NoSec, "b"}, bad : {{"no", "root", "die"}},
          units : {2}, rows : {1}, calls : {1}]

Stretch(s, start, end) == [sec |-> s, start |-> start, end |-> end]
MCCalls ==
  {[line |-> l, file |-> 1, ranges |-> rs] :
     l \in {0, 7},
     rs \in {<<Stretch("a", 0, 2)>>, <<Stretch("b", 2, 4), Stretch("b", 0, 1)>>,
             <<Stretch("a", 1, 3), Stretch("b", 0, 4)>>, <<Stretch("a", 0, 0), Stretch("a", 2, 3)>>,
             <<Stretch("gone", 0, 2)>>}}

MCSymbols ==
  {[name |-> n[1], sec |-> n[2], start |-> n[3], size |-> n[4]] :
     n \in {<<"f", "a", 1, 1>>, <<"label", "a", 1, 0>>, <<"g", "a", 2, 4>>,
            <<"h", "b", 0, 3>>, <<"dead", "gone", 0, 6>>}}
=============================================================================
