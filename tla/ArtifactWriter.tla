--------------------------- MODULE ArtifactWriter ---------------------------
(***************************************************************************)
(* write_artifact and its callers (plugin/tcgcov.c): several QEMU          *)
(* processes that were given the same out=, each writing once when         *)
(* flush_at= is reached and once at exit.  Every library and system call   *)
(* that can fail may fail, a process may be killed and the host may die    *)
(* between any two of them.                                                *)
(*                                                                         *)
(* The file system is modelled from how the plugin uses it: names map to   *)
(* inodes, a write goes to the inode that was opened, rename moves a name, *)
(* and only an inode that was synced is sure to keep its contents when the *)
(* host dies, while a rename may survive or not.  An artifact is written   *)
(* in Chunks pieces: enough of them that stdio hands some to write(2) on   *)
(* the way and keeps the others until fflush.                              *)
(***************************************************************************)
EXTENDS Integers

CONSTANTS
  Procs,          (* QEMU processes that share out=                        *)
  Flushers,       (* those that were given flush_at=                       *)
  Before,         (* the artifact found there, or NoFile                   *)
  Chunks,         (* pieces an artifact is written in                      *)
  SyncSupported,  (* fsync works on this file system (else EINVAL, ENOTSUP)*)
  NoFile, Nothing,
  Dest            (* the name given by out=                                *)

Copies    == {"flush", "exit"}
Writers   == Procs \X Copies
Inodes    == Writers \union ({Before} \ {NoFile})
Pieces    == 1 .. Chunks
Names     == Writers \union {Dest}
FileModes == {"private", "umask", "prior"}

ASSUME WriterAssumption ==
  /\ Procs # {} /\ Flushers \subseteq Procs
  /\ Chunks \in Nat \ {0} /\ SyncSupported \in BOOLEAN
  /\ NoFile \notin Writers /\ Before \notin Writers
  /\ Nothing \notin Writers /\ Nothing # Before
  /\ Dest \notin Writers

VARIABLES
  (* ---- one process -----------------------------------------------------*)
  pc,       (* where in write_artifact the process is                      *)
  copy,     (* the copy it writes                                          *)
  flush_done, (* CovState.flushed                                          *)
  fd,       (* inode its stream writes to                                  *)
  tmp,      (* tmp_path                                                    *)
  handed,   (* pieces fwrite has accepted                                  *)
  drained,  (* of those, pieces write(2) has put in the file               *)
  failed,   (* some write_artifact of it gave up                           *)
  (* ---- the file system -------------------------------------------------*)
  dir,      (* the directory of out=                                       *)
  data,     (* data[i][j]: whose piece j the inode i holds                 *)
  mode,     (* permissions of an inode                                     *)
  synced,   (* inodes whose contents are on disk                           *)
  past,     (* inodes Dest has named: what a dead host may come back with  *)
  crashed,  (* the host has died                                           *)
  chmodFail (* an fchmod has failed                                        *)

procVars   == <<pc, copy, flush_done, fd, tmp, handed, drained, failed>>
fsVars     == <<dir, data, mode, synced, past, crashed, chmodFail>>
writerVars == <<procVars, fsVars>>

Places == {"run", "open", "write", "sync", "close", "rename", "unlink",
           "exited", "killed"}

WriterTypeOK ==
  /\ pc \in [Procs -> Places]
  /\ copy \in [Procs -> Copies]
  /\ flush_done \in [Procs -> BOOLEAN]
  /\ fd \in [Procs -> Inodes \union {NoFile}]
  /\ tmp \in [Procs -> Names \union {NoFile}]
  /\ handed \in [Procs -> 0 .. Chunks]
  /\ drained \in [Procs -> 0 .. Chunks]
  /\ failed \in [Procs -> BOOLEAN]
  /\ dir \in [Names -> Inodes \union {NoFile}]
  /\ data \in [Inodes -> [Pieces -> Inodes \union {Nothing}]]
  /\ mode \in [Inodes -> FileModes]
  /\ synced \subseteq Inodes
  /\ past \subseteq Inodes \union {NoFile}
  /\ crashed \in BOOLEAN
  /\ chmodFail \in BOOLEAN

Whole(i) == [j \in Pieces |-> i]
Empty    == [j \in Pieces |-> Nothing]

WriterInit ==
  /\ pc = [p \in Procs |-> "run"]
  /\ copy = [p \in Procs |-> "flush"]
  /\ flush_done = [p \in Procs |-> FALSE]
  /\ fd = [p \in Procs |-> NoFile]
  /\ tmp = [p \in Procs |-> NoFile]
  /\ handed = [p \in Procs |-> 0]
  /\ drained = [p \in Procs |-> 0]
  /\ failed = [p \in Procs |-> FALSE]
  /\ dir = [n \in Names |-> IF n = Dest THEN Before ELSE NoFile]
  /\ data = [i \in Inodes |-> IF i = Before THEN Whole(i) ELSE Empty]
  /\ mode = [i \in Inodes |-> IF i = Before THEN "prior" ELSE "private"]
  /\ synced = {Before} \ {NoFile}
  /\ past = {Before}
  /\ crashed = FALSE
  /\ chmodFail = FALSE

-----------------------------------------------------------------------------
(* The steps of write_artifact in process p.                               *)

Writer(p) == <<p, copy[p]>>

Goto(p, place) == pc' = [pc EXCEPT ![p] = place]

(* What write_artifact returns to: the guest, or the end of the process.   *)
Return(p) == Goto(p, IF copy[p] = "exit" THEN "exited" ELSE "run")

(* vcpu_flush: the compare-and-exchange lets one callback through, once.   *)
StartFlush(p) ==
  /\ pc[p] = "run" /\ p \in Flushers /\ ~flush_done[p]
  /\ flush_done' = [flush_done EXCEPT ![p] = TRUE]
  /\ copy' = [copy EXCEPT ![p] = "flush"]
  /\ Goto(p, "open")
  /\ UNCHANGED <<fd, tmp, handed, drained, failed, fsVars>>

(* plugin_exit.  Mutant: a process that has written its flush_at copy is   *)
(* content with it.                                                        *)
StartExitOnce(p) ==
  /\ pc[p] = "run"
  /\ copy' = [copy EXCEPT ![p] = "exit"]
  /\ Goto(p, IF flush_done[p] THEN "exited" ELSE "open")
  /\ UNCHANGED <<flush_done, fd, tmp, handed, drained, failed, fsVars>>

(* plugin_exit.  QEMU has stopped the vCPUs by then, so no vcpu_flush is   *)
(* still at work.                                                          *)
StartExit(p) ==
  /\ pc[p] = "run"
  /\ copy' = [copy EXCEPT ![p] = "exit"]
  /\ Goto(p, "open")
  /\ UNCHANGED <<flush_done, fd, tmp, handed, drained, failed, fsVars>>

(* artifact_mode: that of the file being replaced, if there is one.        *)
(* Mutant: what the umask gives a new file.                                *)
ArtifactModeUmask == "umask"

ArtifactMode == IF dir[Dest] # NoFile THEN mode[dir[Dest]] ELSE "umask"

(* mkstemp: a name and a file of the writer's own.                         *)
(* Mutant: one fixed name, opened for truncation.                          *)
CreateTmpShared(p) ==
  LET name == CHOOSE w \in Writers : TRUE
      file == IF dir[name] = NoFile THEN Writer(p) ELSE dir[name]
  IN /\ dir' = [dir EXCEPT ![name] = file]
     /\ tmp' = [tmp EXCEPT ![p] = name]
     /\ fd' = [fd EXCEPT ![p] = file]
     /\ data' = [data EXCEPT ![file] = Empty]

CreateTmp(p) ==
  /\ dir' = [dir EXCEPT ![Writer(p)] = Writer(p)]
  /\ tmp' = [tmp EXCEPT ![p] = Writer(p)]
  /\ fd' = [fd EXCEPT ![p] = Writer(p)]
  /\ data' = [data EXCEPT ![Writer(p)] = Empty]

(* open_tmp.  When fdopen fails the temporary is unlinked on the spot; a   *)
(* failing fchmod leaves it as mkstemp made it, with a warning.            *)
OpenTmp(p) ==
  /\ pc[p] = "open"
  /\ CreateTmp(p)
  /\ \E ok \in BOOLEAN :
       /\ mode' = [mode EXCEPT ![fd'[p]] = IF ok THEN ArtifactMode
                                                 ELSE "private"]
       /\ chmodFail' = (chmodFail \/ ~ok)
  /\ handed' = [handed EXCEPT ![p] = 0]
  /\ drained' = [drained EXCEPT ![p] = 0]
  /\ Goto(p, "write")
  /\ UNCHANGED <<copy, flush_done, failed, synced, past, crashed>>

OpenFails(p) ==
  /\ pc[p] = "open"
  /\ failed' = [failed EXCEPT ![p] = TRUE]
  /\ Return(p)
  /\ UNCHANGED <<copy, flush_done, fd, tmp, handed, drained, fsVars>>

(* write(2) puts the pieces fwrite has accepted, up to n, into the file.   *)
Drain(p, n) ==
  /\ drained' = [drained EXCEPT ![p] = n]
  /\ data' = [data EXCEPT ![fd[p]] =
                [j \in Pieces |-> IF drained[p] < j /\ j <= n
                                    THEN Writer(p) ELSE data[fd[p]][j]]]

MoreToWrite(p) == handed[p] < Chunks

(* write_all: stdio keeps the piece, or hands on all it has so far.        *)
Write(p) ==
  /\ pc[p] = "write" /\ MoreToWrite(p)
  /\ handed' = [handed EXCEPT ![p] = @ + 1]
  /\ Drain(p, handed[p] + 1) \/ UNCHANGED <<drained, data>>
  /\ UNCHANGED <<pc, copy, flush_done, fd, tmp, failed, dir, mode, synced,
                 past, crashed, chmodFail>>

(* A short write stops the writing; close_out then only closes.            *)
WriteFails(p) ==
  /\ pc[p] = "write" /\ MoreToWrite(p)
  /\ Goto(p, "unlink")
  /\ UNCHANGED <<copy, flush_done, fd, tmp, handed, drained, failed, fsVars>>

(* close_out: fflush, fsync, fclose, each of which may report an error.    *)
Flush(p) ==
  /\ pc[p] = "write" /\ handed[p] = Chunks
  /\ \/ Drain(p, Chunks) /\ Goto(p, "sync")
     \/ \E n \in drained[p] .. Chunks - 1 : Drain(p, n) /\ Goto(p, "unlink")
  /\ UNCHANGED <<copy, flush_done, fd, tmp, handed, failed, dir, mode, synced,
                 past, crashed, chmodFail>>

(* Mutant: the result of fsync does not matter, so it is left to the       *)
(* kernel when the file reaches the disk.                                  *)
SyncLater(p) ==
  /\ pc[p] = "sync"
  /\ Goto(p, "close")
  /\ UNCHANGED <<copy, flush_done, fd, tmp, handed, drained, failed, fsVars>>

Sync(p) ==
  /\ pc[p] = "sync"
  /\ \/ /\ synced' = IF SyncSupported THEN synced \union {fd[p]} ELSE synced
        /\ Goto(p, "close")
     \/ Goto(p, "unlink") /\ UNCHANGED synced
  /\ UNCHANGED <<copy, flush_done, fd, tmp, handed, drained, failed, dir, data,
                 mode, past, crashed, chmodFail>>

Close(p) ==
  /\ pc[p] = "close"
  /\ Goto(p, "rename") \/ Goto(p, "unlink")
  /\ UNCHANGED <<copy, flush_done, fd, tmp, handed, drained, failed, fsVars>>

Rename(p) ==
  /\ pc[p] = "rename" /\ dir[tmp[p]] # NoFile
  /\ dir' = [dir EXCEPT ![Dest] = dir[tmp[p]], ![tmp[p]] = NoFile]
  /\ past' = past \union {dir[tmp[p]]}
  /\ tmp' = [tmp EXCEPT ![p] = NoFile]
  /\ fd' = [fd EXCEPT ![p] = NoFile]
  /\ Return(p)
  /\ UNCHANGED <<copy, flush_done, handed, drained, failed, data, mode, synced,
                 crashed, chmodFail>>

(* Mutant: the temporary is left behind.                                   *)
RenameFailsLeaving(p) ==
  /\ pc[p] = "rename"
  /\ failed' = [failed EXCEPT ![p] = TRUE]
  /\ Return(p)
  /\ UNCHANGED <<copy, flush_done, fd, tmp, handed, drained, fsVars>>

RenameFails(p) ==
  /\ pc[p] = "rename"
  /\ Goto(p, "unlink")
  /\ UNCHANGED <<copy, flush_done, fd, tmp, handed, drained, failed, fsVars>>

(* The error paths: remove the temporary, leave Dest alone.                *)
Unlink(p) ==
  /\ pc[p] = "unlink"
  /\ dir' = [dir EXCEPT ![tmp[p]] = NoFile]
  /\ tmp' = [tmp EXCEPT ![p] = NoFile]
  /\ fd' = [fd EXCEPT ![p] = NoFile]
  /\ failed' = [failed EXCEPT ![p] = TRUE]
  /\ Return(p)
  /\ UNCHANGED <<copy, flush_done, handed, drained, data, mode, synced, past,
                 crashed, chmodFail>>

(* SIGKILL, abort(): no exit callback runs and the temporary stays.        *)
Kill(p) ==
  /\ pc[p] \notin {"exited", "killed"}
  /\ Goto(p, "killed")
  /\ UNCHANGED <<copy, flush_done, fd, tmp, handed, drained, failed, fsVars>>

(* The host dies.  A rename may not have reached the disk, and of a file   *)
(* that was not synced any of the pieces may be missing.                   *)
HostDies ==
  /\ ~crashed
  /\ crashed' = TRUE
  /\ \E i \in past, kept \in SUBSET Pieces :
       /\ dir' = [dir EXCEPT ![Dest] = i]
       /\ data' = [k \in Inodes |->
                     IF k \in synced THEN data[k]
                     ELSE [j \in Pieces |-> IF j \in kept THEN data[k][j]
                                                          ELSE Nothing]]
  /\ UNCHANGED <<procVars, mode, synced, past, chmodFail>>

WriterStep(p) ==
  \/ StartFlush(p) \/ StartExit(p)
  \/ OpenTmp(p) \/ OpenFails(p)
  \/ Write(p) \/ WriteFails(p)
  \/ Flush(p) \/ Sync(p) \/ Close(p)
  \/ Rename(p) \/ RenameFails(p) \/ Unlink(p)
  \/ Kill(p)

WriterNext == HostDies \/ (~crashed /\ \E p \in Procs : WriterStep(p))

WriterSpec == WriterInit /\ [][WriterNext]_writerVars

-----------------------------------------------------------------------------
(* Properties.                                                             *)

(* Whatever the writers do and wherever they or the host die, the file     *)
(* named by out= is the complete output of exactly one write: never a      *)
(* truncated one, never a blend of two runs (open_tmp, close_out and the   *)
(* rename of write_artifact).  Only where fsync does nothing may a dead    *)
(* host come back with less.                                               *)
PublishedWhole ==
  dir[Dest] # NoFile /\ (crashed => SyncSupported) =>
    \E i \in Inodes : data[dir[Dest]] = Whole(i)

(* A process that came to its end leaves no temporary behind, whichever    *)
(* call failed on the way (the unlink calls of open_tmp, write_artifact).  *)
TmpRemoved ==
  ~crashed =>
    \A p \in Procs : pc[p] \in {"run", "exited"} =>
      \A k \in Copies : dir[<<p, k>>] = NoFile

(* When every process wrote its artifacts and none gave up, out= holds the *)
(* exit copy of one of them: no early flush_at copy is left on top         *)
(* (vcpu_flush and plugin_exit together).                                  *)
LastIsExitCopy ==
  ~crashed /\ (\A p \in Procs : pc[p] = "exited" /\ ~failed[p]) =>
    dir[Dest] \in Procs \X {"exit"}

(* Replacing the artifact does not change who may read it, however many    *)
(* runs replace it (artifact_mode, fchmod).                                *)
ModeKept ==
  dir[Dest] # NoFile /\ ~chmodFail =>
    mode[dir[Dest]] = IF Before = NoFile THEN "umask" ELSE "prior"

(* The abstract artifact: what Dest shows is the writer of its contents.   *)
Shown(i) ==
  IF i = NoFile THEN NoFile
  ELSE IF \E w \in Inodes : data[i] = Whole(w) THEN data[i][1] ELSE Nothing

Atomic ==
  INSTANCE AtomicArtifact WITH visible <- Shown(dir[Dest]), past <- past

(* out= is replaced atomically, and a process never falls back from its    *)
(* exit copy to its flush_at copy (write_artifact as a whole).             *)
ReplacedAtomically == Atomic!Spec
=============================================================================
