-------------------------- MODULE MCArtifactTools --------------------------
(***************************************************************************)
(* Instances of TbTable and ArtifactTools for TLC.  Of the codes, two      *)
(* share a start and a length but not their instructions, and one starts   *)
(* inside the others.  Commands follow the runs of Campaigns: the same     *)
(* code in two contexts, overlapping codes in one context left early, and  *)
(* code that ran in one context only.                                      *)
(***************************************************************************)
EXTENDS ArtifactTools, TLC

MCCodes   == {<<0, <<1, 2>>>>, <<0, <<2, 1>>>>, <<1, <<2>>>>}
MCFilters == {0 .. 3, {1, 2}}

Tb(c, code, n, pc) ==
  [ctx |-> c, code |-> code, count |-> n,
   early |-> [x \in ExtentOf(code) |-> IF x = pc THEN 1 ELSE 0]]

MCCampaigns ==
  {s \in [Translations ->
            {Tb(0, <<0, <<1, 2>>>>, 2, 1), Tb(7, <<0, <<1, 2>>>>, 1, 3),
             Tb(0, <<1, <<2>>>>, 1, 3)}] :
     \A t, u \in Translations : t # u => s[t] # s[u]}

MCKinds ==
  {[mode |-> m, ctx |-> TRUE] : m \in {"tb", "tb-insn-fast", "bare"}}
    \cup {[mode |-> m, ctx |-> FALSE] : m \in {"tb", "insn"}}

MCEdgeSets ==
  {<<>>, (<<0, 1, 1>> :> 2) @@ (<<0, 1, 0>> :> 1),
   (<<0, 1, 1>> :> 1) @@ (<<7, 1, 1>> :> 3)}

MCMaps ==
  {{[start |-> 0, size |-> 1, out |-> "x"], [start |-> 1, size |-> 2, out |-> "run"]},
   {[start |-> 1, size |-> 1, out |-> "x"], [start |-> 1, size |-> 0, out |-> "run"]},
   {[start |-> 0, size |-> 2, out |-> "x"], [start |-> 1, size |-> 1, out |-> "run"]}}

Symmetry == Permutations(Translations)
=============================================================================
