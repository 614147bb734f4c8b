--------------------------- MODULE MCCoverageInfo ---------------------------
(***************************************************************************)
(* A small instance of CoverageInfo.  Two programs link the function f of  *)
(* file u.  In e1 its branch A has a delay slot and the branch L closes a  *)
(* rotated loop, whose line 1 comes last.  In e2 f is inlined into g of    *)
(* file v, at other addresses: the loop is gone, a second condition B of   *)
(* the same line comes before A, and a branch without a target or a line   *)
(* follows.                                                                *)
(***************************************************************************)
EXTENDS CoveragePromises

Insn(a, kind, target, delay) ==
  [addr |-> a, kind |-> kind, target |-> target, delay |-> delay, size |-> 1,
   section |-> "text"]
MCCode ==
  [e \in {"e1", "e2"} |->
     IF e = "e1"
     THEN <<Insn(10, "cond", 14, TRUE),  Insn(11, "other", NoAddr, FALSE),
            Insn(12, "other", NoAddr, FALSE), Insn(13, "cond", 10, FALSE),
            Insn(14, "ret", NoAddr, FALSE)>>
     ELSE <<Insn(20, "cond", 22, FALSE), Insn(21, "cond", 24, FALSE),
            Insn(22, "other", NoAddr, FALSE), Insn(23, "cond", NoAddr, FALSE),
            Insn(24, "ret", NoAddr, FALSE)>>]
MCSymbols == [e \in {"e1", "e2"} |-> IF e = "e1" THEN {10} ELSE {20}]
MCOrigin == [e \in {"e1", "e2"} |->
               IF e = "e1" THEN 10 :> "A" @@ 13 :> "L"
               ELSE 20 :> "B" @@ 21 :> "A"]

F(line) == [function |-> "f", file |-> "u", line |-> line]
G       == [function |-> "g", file |-> "v", line |-> 1]
MCFrames ==
  [e \in {"e1", "e2"} |->
     IF e = "e1"
     THEN [a \in 10 .. 14 |-> CASE a \in {10, 11} -> <<F(2)>>
                                [] a \in {12, 13} -> <<F(1)>>
                                [] OTHER -> <<F(3)>>]
     ELSE [a \in 20 .. 24 |-> CASE a \in {20, 21} -> <<F(2), G>>
                                [] a = 22 -> <<F(4), G>>
                                [] a = 23 -> <<>>
                                [] OTHER -> <<F(3), G>>]]

MCElfOf == [t \in {"t1", "t2"} |-> IF t = "t1" THEN "e1" ELSE "e2"]

(* A test is over when its processor has left the code, looped or not.     *)
(* In e1 blocks are cut short between a branch and its slot, or before a   *)
(* branch, but not both; in e2 they are not.                               *)
Over(executions) == {x \in executions : x.pc = NoAddr}
OneCut(executions) ==
  {x \in executions : ~({<<10, 11>>, <<12, 13>>} \subseteq DOMAIN x.edges)}
Uncut(executions) == {x \in executions : <<22, 23>> \notin DOMAIN x.edges}
MCMaxInsns == [t \in {"t1", "t2"} |-> IF t = "t1" THEN 7 ELSE 4]
MCRuns == [t \in {"t1", "t2"} |->
             IF t = "t1" THEN OneCut(Over(Executions(MCCode["e1"], 7)))
             ELSE Uncut(Over(Executions(MCCode["e2"], 4)))]

CONSTANTS i, j
MCInputs == {<<m, n>> : m, n \in {i, j}}
InfoSymmetry == Permutations({i, j})
=============================================================================
