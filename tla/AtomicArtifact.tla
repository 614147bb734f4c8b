--------------------------- MODULE AtomicArtifact ---------------------------
(***************************************************************************)
(* What write_artifact (plugin/tcgcov.c) promises of the file named by     *)
(* out=: it is replaced atomically.  Whoever opens it finds the complete   *)
(* output of one write, or what was there before the runs began; a process *)
(* never goes back from its exit copy to its flush_at copy; and after the  *)
(* host died it is still one of the files it has been.                     *)
(***************************************************************************)
CONSTANTS
  Procs,   (* QEMU processes started with the same out=                    *)
  Before   (* what was there: an artifact, or no file                      *)

VARIABLES
  visible, (* what the name shows: Before, or the writer of its contents   *)
  past     (* everything it has shown so far                               *)

Copies  == {"flush", "exit"}
Writers == Procs \X Copies

Init == visible = Before /\ past = {Before}

(* One write becomes visible, at once and for the first time.              *)
Publish(w) ==
  /\ w \notin past
  /\ w[2] = "flush" => <<w[1], "exit">> \notin past
  /\ visible' = w
  /\ past' = past \union {w}

(* The host dies: the last replacements may not have reached the disk.     *)
HostDies == visible' \in past /\ UNCHANGED past

Next == (\E w \in Writers : Publish(w)) \/ HostDies

Spec == Init /\ [][Next]_<<visible, past>>
=============================================================================
