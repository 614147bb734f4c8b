------------------------------ MODULE RtlSplit ------------------------------
(***************************************************************************)
(* The host's half of the loader-generation mode: split() of tcgcov/rtl.py *)
(* takes the artifact the plugin wrote (records, edges and one map per     *)
(* generation) apart into a base-image slice and one slice per section of  *)
(* every loaded object.  What it reads here is what LoaderGenerations has  *)
(* recorded so far, so the properties compare the slices with what the     *)
(* guest executed.                                                         *)
(*                                                                         *)
(* Looking an object up on --obj-path is abstracted to its outcome: a file *)
(* or none, and sections that cannot be told apart (Lost).                 *)
(***************************************************************************)
EXTENDS LoaderGenerations, FiniteSetsExt

CONSTANTS
  File,        (* File[o]: the host file resolve() picks for o, or NoFile  *)
  NoFile,
  Executable,  (* names of the sections that hold code                     *)
  Lost,        (* <<o, s>>: s is one of several sections of that name, and *)
               (* elf_index_for cannot match it                            *)
  NoWindow

Lowest(S) == CHOOSE i \in S : \A j \in S : i <= j

(* A section is a run of bytes, none of which is in another section.       *)
ASSUME SplitAssumption ==
  /\ IsFiniteSet(Objects) /\ IsFiniteSet(Sections)
  /\ DOMAIN File = Objects
  /\ Executable \subseteq Sections /\ Lost \subseteq Objects \X Sections
  /\ NoWindow \notin [obj : Objects, sec : Sections, start : Nat]
  /\ \A o \in Objects : \A s \in DOMAIN Layout[o] :
       LET bytes == Layout[o][s]
       IN  /\ bytes # {} /\ IsFiniteSet(bytes)
           /\ bytes = Lowest(bytes) .. Lowest(bytes) + Cardinality(bytes) - 1
           /\ \A t \in DOMAIN Layout[o] \ {s} : bytes \intersect Layout[o][t] = {}

(* The windows of one map: object_windows, for every object on it.         *)
CodeOf(w) ==
  {w.start + i : i \in 0 .. Cardinality(Layout[w.obj][w.sec]) - 1}
(* Mutant: a section starts where its object does.                         *)
ObjectWindowsAtBase(p) ==
  {[obj |-> p.obj, sec |-> s, start |-> p.base] : s \in DOMAIN Layout[p.obj]}
object_windows(p) ==
  {[obj |-> p.obj, sec |-> s, start |-> p.base + Lowest(Layout[p.obj][s])] :
     s \in DOMAIN Layout[p.obj]}
gen_windows(g) ==
  UNION {object_windows(p) : p \in MapOf(g)}

(* Mutant: the newest map is used for every record.                        *)
WindowOfLatest(g, a) ==
  LET W == {w \in gen_windows(rtl_generation) : a \in CodeOf(w)}
  IN  IF W = {} THEN NoWindow ELSE CHOOSE w \in W : TRUE
window_of(g, a) ==
  LET W == {w \in gen_windows(g) : a \in CodeOf(w)}
  IN  IF W = {} THEN NoWindow ELSE CHOOSE w \in W : TRUE

Unresolved(w) == File[w.obj] = NoFile
Ambiguous(w)  == ~Unresolved(w) /\ <<w.obj, w.sec>> \in Lost
Attributed(w) == w # NoWindow /\ ~Unresolved(w) /\ ~Ambiguous(w)

(* A slice is named by file and section, so lifetimes of one object share  *)
(* it and two objects that occupy the same addresses do not.               *)
mod_slot(w) == <<File[w.obj], w.sec>>

Total(S, bag) == MapThenSumSet(LAMBDA x : Copies(x, bag), S)
Seen(bag)     == BagToSet(bag)

(* What the base slice counts at the addresses A.                          *)
base_recs(A) ==
  Total({r \in Seen(records) :
           r[2] \in A /\ window_of(r[1], r[2]) = NoWindow}, records)
slot_recs(slot, off) ==
  Total({r \in Seen(records) :
           LET w == window_of(r[1], r[2])
           IN  /\ Attributed(w) /\ mod_slot(w) = slot
               /\ r[2] - w.start = off}, records)

(* An edge stays when both its ends are in the base image, or both in one  *)
(* window; every other edge is counted as crossing.                        *)
InsideOneWindow(ws, wd) == Attributed(ws) /\ ws = wd

slot_edges(slot, i, j) ==
  Total({e \in Seen(edges) :
           LET ws == window_of(e[1], e[2])
               wd == window_of(e[1], e[3])
           IN  /\ InsideOneWindow(ws, wd) /\ mod_slot(ws) = slot
               /\ e[2] - ws.start = i /\ e[3] - ws.start = j}, edges)
base_edges(s, d) ==
  Total({e \in Seen(edges) :
           /\ e[2] = s /\ e[3] = d
           /\ window_of(e[1], e[2]) = NoWindow
           /\ window_of(e[1], e[3]) = NoWindow},
        edges)

(* Code sections of resolved objects get a slice even when nothing ran.    *)
(* Mutant: only what ran does.                                             *)
NoEmptySlices == {}
EmptySlices ==
  {mod_slot(w) : w \in {x \in UNION {gen_windows(g) : g \in DOMAIN rtl_snaps} :
                          Attributed(x) /\ x.sec \in Executable}}
modules ==
  EmptySlices \union
  {mod_slot(w) : w \in {window_of(r[1], r[2]) :
                          r \in {q \in Seen(records) :
                                   Attributed(window_of(q[1], q[2]))}}}

(***************************************************************************)
(* Properties.                                                             *)
(***************************************************************************)
Matched == {m \in Objects \X Sections :
              m[2] \in DOMAIN Layout[m[1]] /\ File[m[1]] # NoFile /\ m \notin Lost}
SlotOf(m)     == <<File[m[1]], m[2]>>
InSection(m)  == 0 .. Cardinality(Layout[m[1]][m[2]]) - 1
CodeAt(m, i, early) ==
  [obj |-> m[1], off |-> Lowest(Layout[m[1]][m[2]]) + i, early |-> early]
AtOffset(m,i) == CodeAt(m, i, FALSE)
SharingSlot(m, i) ==
  {n \in Matched : SlotOf(n) = SlotOf(m) /\ i \in InSection(n)}

(* What an object's slice counts at an offset is what ran there, in every  *)
(* lifetime and at every base, whatever else used those addresses before   *)
(* or after (rtl.py: "different lifetimes at the same or different         *)
(* addresses all land on the same offsets").                               *)
SlicesExact ==
  \A m \in Matched : \A i \in InSection(m) :
    slot_recs(SlotOf(m), i)
      = Total({AtOffset(n, i) : n \in SharingSlot(m, i)}, ran)

(* The base slice counts every run of base code, and beyond it exactly the *)
(* early constructors, which belong to no map yet.                         *)
BaseExact ==
  /\ \A a \in BaseCode : base_recs({a}) = Copies(BaseInstr(a), ran)
  /\ base_recs(ModuleCode) = Total({x \in Seen(ran) : x.early}, ran)

(* An object's slice holds the transfers inside each of its sections, the  *)
(* base slice those inside the base image, each as often as it was made.   *)
SliceEdgesExact ==
  /\ \A s, d \in BaseCode :
       base_edges(s, d) = Copies(<<BaseInstr(s), BaseInstr(d)>>, went)
  /\ \A m \in Matched : \A i, j \in InSection(m) :
       slot_edges(SlotOf(m), i, j)
         = Total({<<AtOffset(n, i), AtOffset(n, j)>> :
                    n \in SharingSlot(m, i) \intersect SharingSlot(m, j)}, went)

(* No slice ever counts a run that was not there: with constructors that   *)
(* run unannounced, or objects past the snapshot's cap, coverage may be    *)
(* missing from a slice but never made up (plugin/tcgcov-rtems.c: "loudly  *)
(* unattributed rather than silently misattributed").                      *)
NothingInvented ==
  \A m \in Matched : \A i \in InSection(m) :
    slot_recs(SlotOf(m), i)
      <= Total({CodeAt(q[1], i, q[2]) : q \in SharingSlot(m, i) \X BOOLEAN}, ran)

(* An object that was loaded and never ran is reported with zero counts,   *)
(* not left out.                                                           *)
LoadedIsReported ==
  \A m \in Matched : m[1] \in Settled /\ m[2] \in Executable
                       => SlotOf(m) \in modules
=============================================================================
