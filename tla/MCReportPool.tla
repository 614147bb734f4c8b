---------------------------- MODULE MCReportPool ----------------------------
(***************************************************************************)
(* A small instance of ReportPool.  a1 and a2 link one ELF, a3 has the     *)
(* basename of a1, and r is an RTEMS artifact that is split into a base    *)
(* slice of that ELF and a slice of an object.  The three commands run two *)
(* threads over shared ELFs, two threads over slices with --elf, and a     *)
(* serial report.                                                          *)
(***************************************************************************)
EXTENDS ReportPromises

MCArtifacts == {"a1", "a2", "a3", "r", "r0", "r1"}
MCSlices == [a \in MCArtifacts |-> IF a = "r" THEN <<"r0", "r1">> ELSE <<a>>]
MCRecorded ==
  [a \in MCArtifacts |->
     [elf |-> CASE a = "a3" -> "e2" [] a = "r1" -> "o" [] OTHER -> "e1",
      section |-> IF a = "r1" THEN ".text" ELSE "",
      rtl |-> a = "r1"]]
MCStem == [a \in MCArtifacts |-> IF a = "a3" THEN "a1" ELSE a]
MCTag  == [a \in MCArtifacts |-> a]

Command(given, elf, paths, dwarf, with_branches, jobs_, html_) ==
  [given |-> given, elf |-> elf, section |-> "", paths |-> paths,
   dwarf |-> dwarf, branches |-> with_branches, jobs |-> jobs_, html |-> html_]
MCCommands ==
  {Command(<<"a1", "a2", "a1", "a3">>, "", "p1", FALSE, TRUE, 2, TRUE),
   Command(<<"a2", "r">>, "e2", "p2", TRUE, TRUE, 2, FALSE),
   Command(<<"a3", "a2">>, "e2", "p2", TRUE, FALSE, 1, TRUE)}

MCCalls ==
  {<<<<"read_metadata", "a2">>, FAILED>>, <<<<"split", "r">>, FAILED>>,
   <<<<"isfile", "e1">>, FAILED>>, <<<<"isfile", "e2">>, FAILED>>,
   <<<<"disasm", "e1">>, FAILED>>,
   <<<<"symbolize", "a1">>, RAISED>>, <<<<"symbolize", "a3">>, FAILED>>,
   <<<<"coverable", "e1">>, FAILED>>, <<<<"coverable", "e1">>, RAISED>>,
   <<<<"profile">>, FAILED>>, <<<<"branches", "a1">>, FAILED>>,
   <<<<"lcov", "a2">>, RAISED>>, <<<<"merge">>, FAILED>>,
   <<<<"genhtml">>, FAILED>>}
Fate(B) == [c \in {b[1] : b \in B} |-> (CHOOSE b \in B : b[1] = c)[2]]
NoFates == {Fate({})}
MCFates ==
  NoFates \union {Fate({b}) : b \in MCCalls} \union
  {Fate({<<<<"lcov", "a2">>, RAISED>>, <<<<"symbolize", "a3">>, FAILED>>}),
   Fate({<<<<"symbolize", "a1">>, RAISED>>, <<<<"lcov", "a2">>, RAISED>>}),
   Fate({<<<<"isfile", "e2">>, FAILED>>, <<<<"coverable", "e1">>, RAISED>>})}

(* Names without glob characters match themselves.                         *)
SameName(pattern, name) == pattern = name

(* Two tests of one parametrised suite: as a pattern, t[1].info is t1.info.*)
BracketStem == [a \in MCArtifacts |-> CASE a = "a1" -> "t1" [] a = "a2" -> "t[1]"
                                         [] OTHER -> a]
Bracket(pattern, name) ==
  IF pattern = <<"t[1]">> THEN name = <<"t1">> ELSE pattern = name
=============================================================================
