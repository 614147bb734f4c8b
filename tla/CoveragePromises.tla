-------------------------- MODULE CoveragePromises --------------------------
(***************************************************************************)
(* What an .info file must say, whichever commands made it of whichever    *)
(* others, set against what the tests executed.                            *)
(***************************************************************************)
EXTENDS CoverageInfo

(* Origin[e][a]: the branch of the source that the one at a is made from.  *)
CONSTANT Origin

(* A branch that survives into several binaries keeps its line and keeps   *)
(* jumping to the same line.                                               *)
LandsAlike(d, a, e, b) ==
  Located(d, a) = Located(e, b) /\ (Located(d, a) => LineAt(d, a) = LineAt(e, b))
ASSUME OriginAssumption ==
  \A d, e \in Elfs : \A b \in Reported[d], c \in Reported[e] :
    Origin[d][b.addr] = Origin[e][c.addr] =>
      /\ Frames[d][b.addr][1].file = Frames[e][c.addr][1].file
      /\ LandsAlike(d, b.addr, e, c.addr) /\ LandsAlike(d, b.taken, e, c.taken)
      /\ ~Located(d, b.taken) => LandsAlike(d, b.fallthrough, e, c.fallthrough)

Keys == UNION {{KeyOf(e, bp, o) : bp \in Reported[e], o \in {0, 1}} : e \in Elfs}

KeptBy(part, x) == \A target \in part.targets : \E f \in target : Where(f) = x
SumOfParts(n, of(_)) ==
  MapThenSumSet(LAMBDA p : parts[n][p] * of(p), DOMAIN parts[n])

(* How often a test executed a line: as often as its busiest instruction.  *)
InsnsOf(t, x) == {a \in Covered(t) : \E f \in FramesAt(ElfOf[t], a) : Where(f) = x}
TimesRun(t, x) ==
  IF InsnsOf(t, x) = {} THEN 0 ELSE Max({run[t].ran[a] : a \in InsnsOf(t, x)})
LinesRun(t) == {Where(f) : f \in UNION {FramesAt(ElfOf[t], a) : a \in Covered(t)}}

Declared(p) == IF p.declared = None THEN {} ELSE {Where(f) : f \in p.declared}

(* LinesExact.  Merging is by source identity and may be nested, repeated  *)
(* and interleaved with restricting in any order: a line is coverable      *)
(* exactly when some part counts it or declares it, and its count is the   *)
(* sum of the times the tests executed it (merge.parse_info, lcov.run,     *)
(* restrict.run).                                                          *)
LinesExact ==
  \A n \in DOMAIN info :
    /\ info[n].lines =
         UNION {{x \in Declared(p) \union LinesRun(p.test) : KeptBy(p, x)} :
                  p \in DOMAIN parts[n]}
    /\ \A x \in info[n].lines :
         SumOfParts(n, LAMBDA p : IF KeptBy(p, x) THEN TimesRun(p.test, x) ELSE 0)
           = IF x \in DOMAIN info[n].hits THEN info[n].hits[x] ELSE 0

(* The branches of the source that a key stands for in some program, and   *)
(* how often the guest saw them go that way in a test.                     *)
OriginsOf ==
  [k \in Keys |->
     UNION {{Origin[e][bp.addr] : bp \in {b \in Reported[e] : KeyOf(e, b, k[4]) = k}} :
              e \in Elfs}]
Went(t, k) ==
  MapThenSumSet(LAMBDA bp : run[t].went[<<bp.addr, k[4]>>],
                {bp \in Reported[ElfOf[t]] :
                   Origin[ElfOf[t]][bp.addr] \in OriginsOf[k]})
Decided(t, k) ==
  Went(t, k) + Went(t, <<k[1], k[2], k[3], 1 - k[4]>>) > 0

(* BranchesExact.  Delay slots, short translation blocks and different     *)
(* programs notwithstanding, a branch outcome is counted as often as the   *)
(* guest went that way in all the tests together; '-' stands exactly where *)
(* no test decided the branch, and no decided branch is missing            *)
(* (match_edges, block_number, load_branches, parse_info).                 *)
BranchesExact ==
  \A n \in DOMAIN info :
    LET br == info[n].br
        counted(k) == {p \in DOMAIN parts[n] :
                         p.branches /\ KeptBy(p, <<k[1], k[2]>>)}
        decided(k) == \E p \in counted(k) : Decided(p.test, k)
    IN
    /\ DOMAIN br \subseteq Keys
    /\ \A k \in DOMAIN br :
         br[k] = IF ~decided(k) THEN Dash
                 ELSE SumOfParts(n, LAMBDA p : IF p \in counted(k)
                                               THEN Went(p.test, k) ELSE 0)
    /\ \A k \in Keys : decided(k) => k \in DOMAIN br

(* FunctionsShown.  A function is shown as executed only when some test    *)
(* executed it and every target that test was restricted to has it; and it *)
(* is shown then, provided that some of the lines it ran is kept           *)
(* (lcov.run, parse_info, restrict.run).                                   *)
FunctionsShown ==
  \A n \in DOMAIN info : \A e \in Elfs : \A f \in AllFrames[e] :
    LET fn == <<f.file, f.function>>
        ran(p) == {g \in UNION {FramesAt(ElfOf[p.test], a) : a \in Covered(p.test)} :
                     <<g.file, g.function>> = fn}
        shown == fn \in DOMAIN info[n].fnda
        has(target) == \E g \in target : <<g.file, g.function>> = fn
    IN
    /\ shown => /\ info[n].fnda[fn] > 0
                /\ \E p \in DOMAIN parts[n] :
                     ran(p) # {} /\ \A target \in p.targets : has(target)
    /\ (\E p \in DOMAIN parts[n] :
          /\ \A target \in p.targets : has(target)
          /\ \E g \in ran(p) : KeptBy(p, Where(g))) => shown

(* HonestDenominator.  A report made with inventories has in it every line *)
(* its programs have code for and its targets keep, executed or not: no    *)
(* failure of a tool makes it read 100% of what happened to run            *)
(* (coverable.run, restrict.run).                                          *)
HonestDenominator ==
  \A n \in DOMAIN info :
    \A p \in DOMAIN parts[n] :
      p.declared # None \/ p.targets # {} =>
        /\ info[n].lines # {}
        /\ p.declared # None =>
             {x \in {Where(f) : f \in AllFrames[ElfOf[p.test]]} : KeptBy(p, x)}
               \subseteq info[n].lines
=============================================================================
