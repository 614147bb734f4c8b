--------------------------- MODULE MCTcgArtifact ---------------------------
(***************************************************************************)
(* Instances of TcgArtifact for TLC.  Guest code: "A" is the block 0..2,   *)
(* "A1" its tail from 1, where an abandoned "A" resumes (or a branch into  *)
(* its middle lands); "B1" is a second translation of that same tail; "H"  *)
(* and "X" are one-instruction blocks at 3 and 4, a handler and code that  *)
(* a filter leaves out.                                                    *)
(***************************************************************************)
EXTENDS TcgArtifact

MCStart == [b \in Blocks |-> CASE b = "A" -> 0 [] b \in {"A1", "B1"} -> 1
                               [] b = "H" -> 3 [] b = "X" -> 4]
MCSize  == [b \in Blocks |-> CASE b = "A" -> 3 [] b \in {"A1", "B1"} -> 2
                               [] b \in {"H", "X"} -> 1]

Arg(mode, edgesOn, ctx, system, flush) ==
  [mode |-> mode, edges |-> edgesOn, ctx |-> ctx, system |-> system,
   tb_table |-> "default", flush_at |-> flush]

(* Filters: nothing left out, "X" left out, the middle of "A" left out.    *)
AllInRange == 0 .. 4
WithoutX   == 0 .. 3
OnlyAHead  == {0}

PlainOptions == {Arg(m, e, FALSE, TRUE, NoAddr) : m \in Modes, e \in BOOLEAN}
TbOption     == {Arg("tb", TRUE, FALSE, TRUE, NoAddr)}
CtxOption    == {Arg("tb", TRUE, TRUE, TRUE, NoAddr)}
UniOptions   == PlainOptions \union CtxOption
FlushOption  == {Arg("tb", TRUE, FALSE, TRUE, 1)}
UserOption   == {Arg("tb", TRUE, FALSE, FALSE, NoAddr)}
UserFlush    == {Arg("tb", TRUE, FALSE, FALSE, 1)}
=============================================================================
