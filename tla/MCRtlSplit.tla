----------------------------- MODULE MCRtlSplit -----------------------------
(***************************************************************************)
(* Instances of RtlSplit: two objects that fit the same addresses, one of  *)
(* them with a second section, and a third one no host file is found for.  *)
(***************************************************************************)
EXTENDS RtlSplit

CONSTANTS oa, ob, oc, text, cold, ao, bo

MCLayout ==
  [o \in Objects |->
     CASE o = oa -> [s \in {text, cold} |-> IF s = text THEN {0, 1} ELSE {2}]
       [] o = ob -> [s \in {text} |-> {1, 2}]
       [] OTHER  -> [s \in {text} |-> {0}]]
MCFile == [o \in Objects |-> CASE o = oa -> ao [] o = ob -> bo
                               [] OTHER -> NoFile]
MCLost     == {}
MCLostCold == {<<oa, cold>>}
OneBase    == [o \in Objects |-> {10}]
OaMoves    == [o \in Objects |-> IF o = oa THEN {10, 11} ELSE {10}]
=============================================================================
