-------------------------- MODULE ObjectResolution --------------------------
(***************************************************************************)
(* From the objects the RTEMS loader placed to the host files their        *)
(* coverage is reported against (tcgcov/rtl.py): the search on --obj-path, *)
(* the check of each candidate against the snapshot and the recorded       *)
(* bytes, the choice, and the slices that split writes, over the           *)
(* generations of several artifacts.                                       *)
(*                                                                         *)
(* A file is a place on the path and what it holds.  A section has a name  *)
(* <<prefix, rest>>, of which the plugin may have recorded the prefix      *)
(* alone; a byte of its body below 2 ends a ULEB128 number.  Each code     *)
(* section of an object that ran has one record.                           *)
(***************************************************************************)
EXTENDS Integers, FiniteSets, FiniteSetsExt, SequencesExt

CONSTANTS
  Places,       (* [at, base, suffix, member]: where a file can be         *)
  Walk,         (* Places -> Nat: the order of --obj-path                  *)
  ObjSuffixes,  (* "" and the --obj-suffix values, in order                *)
  Paths,        (* what may be on the path: functions from some of Places  *)
                (* to contents [elf, machine, debug, build, sections]      *)
  LoaderWidths, (* relocation type -> bytes it writes, 0 for a ULEB128     *)
  Widths,       (* as far as the tool's tables know                        *)
  Machines,     (* those that have a table                                 *)
  Runs          (* sequences of artifacts, an artifact a sequence of       *)
                (* generations' objects [name, content, bytes, cut, ran]   *)

(* What an object file can be.  The loader makes up the name of the        *)
(* section of the common symbols; no file has one of that name.            *)
CommonName == <<".common.rtems", "">>

IsContent(c) ==
  /\ c.debug \in BOOLEAN
  /\ c.sections \in Seq(Range(c.sections))
  /\ \A i \in DOMAIN c.sections : /\ c.sections[i].name # CommonName
                                 /\ c.sections[i].body \in Seq(Nat)

ASSUME ObjectResolutionAssumption ==
  /\ ObjSuffixes \in Seq(STRING)
  /\ IsFiniteSet(Places)
  /\ \A f \in Paths : /\ DOMAIN f \subseteq Places
                      /\ \A p \in DOMAIN f : IsContent(f[p])
  /\ \A r \in Runs : \A i \in DOMAIN r : \A j \in DOMAIN r[i] :
       IsContent(r[i][j].content)
  /\ \A t \in DOMAIN Widths : Widths[t] = LoaderWidths[t]
  /\ \A p, q \in Places : Walk[p] \in Nat /\ (Walk[p] = Walk[q] => p = q)

VARIABLES
  path, run, no_verify,  (* what the command is given                      *)
  cov,         (* the artifact being split                                 *)
  next,        (* its object to resolve next                               *)
  resolved,    (* split: resolved                                          *)
  wins,        (* its objects so far, each with its resolution             *)
  unresolved,  (* <<object name, kind>>                                    *)
  slots,       (* split: mods, once attributed                             *)
  outputs,     (* slices on disk, by name                                  *)
  rc,          (* exit status so far                                       *)
  failures     (* history: the kinds of all unresolved objects, and        *)
               (* whether the command ended with a traceback               *)

options == <<path, run, no_verify>>
vars    == <<options, cov, next, resolved, wins, unresolved, slots, outputs,
             rc, failures>>

None == [none |-> TRUE]        (* no candidate                             *)

-----------------------------------------------------------------------------
(* The loader and the plugin's snapshot (LoaderGenerations).               *)

(* The n-th of some positions, counted from 0.                             *)
Nth(S, n) == CHOOSE i \in S : Cardinality({j \in S : j < i}) = n

(* What the loader places of an object, in index order.                    *)
Placed(c) ==
  LET at == {i \in DOMAIN c.sections :
               c.sections[i].alloc /\ c.sections[i].body # <<>>}
  IN [k \in 1 .. Cardinality(at) |-> c.sections[Nth(at, k - 1)]]

(* The bytes that the relocation at a place in a section rewrites.         *)
Written(s, at, width) ==
  IF width[s.relocs[at]] > 0 THEN at .. at + width[s.relocs[at]] - 1
  ELSE {i \in at .. Len(s.body) : \A j \in at .. i - 1 : s.body[j] > 1}

Relocated(s) ==
  LET sites == UNION {Written(s, at, LoaderWidths) : at \in DOMAIN s.relocs}
  IN [i \in DOMAIN s.body |->
        IF i \notin sites THEN s.body[i]
        ELSE IF s.body[i] % 2 = 0 THEN s.body[i] + 1 ELSE s.body[i] - 1]

Snapshot(o) ==
  [k \in DOMAIN Placed(o.content) |->
     LET s == Placed(o.content)[k]
     IN [name  |-> IF o.cut THEN <<s.name[1], "">> ELSE s.name,
         cut   |-> o.cut,
         size  |-> Len(s.body),
         bytes |-> IF o.bytes /\ s.exec THEN Relocated(s) ELSE <<>>]]
    \o IF o.common THEN <<[name |-> CommonName, cut |-> FALSE,
                           size |-> 1, bytes |-> <<>>]>> ELSE <<>>

-----------------------------------------------------------------------------
(* A candidate c against the sections snap of a snapshot.                  *)

(* full_name, or the recorded one.                                         *)
NameIn(c, s) ==
  LET hits == {t.name : t \in {q \in Range(Placed(c)) :
                                 q.name[1] = s.name[1] /\ Len(q.body) = s.size}}
  IN IF s.cut /\ Cardinality(hits) = 1 THEN CHOOSE n \in hits : TRUE ELSE s.name

Names(c, snap) == [k \in DOMAIN snap |-> NameIn(c, snap[k])]

Has(c, n) == {i \in DOMAIN Placed(c) : Placed(c)[i].name = n}

(* Sections before k of the same name.                                     *)
Rank(names, k) == Cardinality({j \in 1 .. k - 1 : names[j] = names[k]})

(* The k-th loaded section finds one of its name and size in the file that *)
(* none before it has taken.                                               *)
Fits(c, snap, k) ==
  LET names == Names(c, snap)
  IN IF Has(c, names[k]) = {} THEN names[k][1] = ".common.rtems"
     ELSE Cardinality({j \in 1 .. k : /\ names[j] = names[k]
                                      /\ snap[j].size = snap[k].size})
            <= Cardinality({i \in Has(c, names[k]) :
                              Len(Placed(c)[i].body) = snap[k].size})

(* verify: every loaded section has one of its own in the file.            *)
verify(c, snap) == c.elf /\ \A k \in DOMAIN snap : Fits(c, snap, k)

(* verify ends in an IndexError (sizes[0] of no sizes): the first section  *)
(* without one comes after as many of its name as the file has.            *)
Raises(c, snap) ==
  /\ c.elf
  /\ \E k \in DOMAIN snap :
       LET names == Names(c, snap)
       IN /\ ~Fits(c, snap, k) /\ \A j \in 1 .. k - 1 : Fits(c, snap, j)
          /\ Has(c, names[k]) # {}
          /\ Rank(names, k) = Cardinality(Has(c, names[k]))

(* elf_index_for: the section that the k-th loaded one is, 0 for none.     *)
elf_index_for(c, snap, k) ==
  LET names == Names(c, snap)
      same  == Has(c, names[k])
      rank  == Rank(names, k)
  IN IF /\ rank < Cardinality(same)
        /\ Len(Placed(c)[Nth(same, rank)].body) = snap[k].size
       THEN Nth(same, rank) ELSE 0

(* relocation_mask: the bytes not to compare, unless they cannot be known. *)
(* Mutant: a ULEB128 number is taken to be one byte long.                  *)
MaskOneByte(s) ==
  UNION {at .. at + Max({Widths[s.relocs[at]], 1}) - 1 : at \in DOMAIN s.relocs}

Mask(s) == UNION {Written(s, at, Widths) : at \in DOMAIN s.relocs}

Maskable(c, s) ==
  c.machine \in Machines /\ \A at \in DOMAIN s.relocs : s.relocs[at] \in DOMAIN Widths

(* content_check: some section holds other code than was loaded.           *)
Differs(c, snap) ==
  \E k \in DOMAIN snap :
    LET i == elf_index_for(c, snap, k)
    IN /\ snap[k].bytes # <<>> /\ i # 0
       /\ LET s == Placed(c)[i]
          IN /\ Maskable(c, s)
             /\ \E b \in DOMAIN s.body \ Mask(s) : s.body[b] # snap[k].bytes[b]

Matches(c, snap) == verify(c, snap) /\ ~Differs(c, snap)

-----------------------------------------------------------------------------
(* The search and the choice.                                              *)

Named(name) == {p \in DOMAIN path : p.base = name.base
                                    /\ p.suffix \in Range(ObjSuffixes)}

exact_candidates(name) == {p \in Named(name) : p.at = name.at /\ ~p.member}

(* The first as candidates lists them: exact ones, each kind in the order  *)
(* of the suffixes, then of the path.                                      *)
Listed(name) ==
  [p \in Named(name) |->
     (IF p \in exact_candidates(name) THEN 0 ELSE Len(ObjSuffixes))
       + (CHOOSE i \in DOMAIN ObjSuffixes : ObjSuffixes[i] = p.suffix)]

Least(f, S) == {p \in S : \A q \in S : f[p] <= f[q]}

First(name, S) == CHOOSE p \in Least(Walk, Least(Listed(name), S)) : TRUE

Found(p)    == [cand |-> p, kind |-> "found"]
Failed(why) == [cand |-> None, kind |-> why]
Held(S)     == {path[p] : p \in S}
Debug(S)    == {p \in S : path[p].elf /\ path[p].debug}

(* _pick: the choice among the files that match.                           *)
Chosen(name, good) ==
  LET pool  == IF Debug(good) # {} THEN Debug(good) ELSE good
      exact == pool \cap exact_candidates(name)
  IN IF good = {} THEN Failed("conflict")
     ELSE IF Cardinality(Held(pool)) = 1 THEN Found(First(name, pool))
     ELSE IF Cardinality(Held(exact)) = 1 THEN Found(First(name, exact))
     ELSE Failed("conflict")

_pick(name, snap, cands) == Chosen(name, {p \in cands : Matches(path[p], snap)})

(* resolve: an exact file that matches and has DWARF settles it.           *)
(* Mutant: so does one without.                                            *)
SettlesAnyway(r) == r.kind = "found"

Settles(r) == r.kind = "found" /\ Debug({r.cand}) # {}

Searched(name, snap) ==
  LET exact == exact_candidates(name)
  IN IF exact # {} /\ Settles(_pick(name, snap, exact)) THEN exact ELSE Named(name)

resolve(name, snap) ==
  LET exact == exact_candidates(name)
  IN IF Named(name) = {} THEN Failed("missing")
     ELSE IF no_verify
       THEN Found(First(name, IF exact # {} THEN exact ELSE Named(name)))
     ELSE _pick(name, snap, Searched(name, snap))

-----------------------------------------------------------------------------
(* split.                                                                  *)

Init ==
  /\ path \in Paths /\ run \in Runs /\ no_verify \in BOOLEAN
  /\ cov = 1 /\ next = 1
  /\ resolved = <<>> /\ wins = {} /\ unresolved = {} /\ slots = {}
  /\ outputs = <<>>
  /\ rc = 0 /\ failures = {}

(* What resolutions are remembered by.  Mutant: the name alone.            *)
MemoByName(o) == <<o.name, <<>>>>

MemoKey(o) == <<o.name, Snapshot(o)>>

(* A file that the next object is compared with makes verify raise.        *)
Raised ==
  LET o == run[cov][next]
  IN /\ ~no_verify /\ MemoKey(o) \notin DOMAIN resolved
     /\ \E p \in Searched(o.name, Snapshot(o)) : Raises(path[p], Snapshot(o))

ResolveNext ==
  /\ cov \in DOMAIN run /\ next \in DOMAIN run[cov] /\ ~Raised
  /\ LET o == run[cov][next]
         r == IF MemoKey(o) \in DOMAIN resolved THEN resolved[MemoKey(o)]
              ELSE resolve(o.name, Snapshot(o))
     IN /\ resolved' = [k \in DOMAIN resolved \cup {MemoKey(o)} |->
                          IF k = MemoKey(o) THEN r ELSE resolved[k]]
        /\ wins' = wins \cup {[gen |-> next, obj |-> o, res |-> r]}
        /\ unresolved' = IF r.kind # "found"
                           THEN unresolved \cup {<<o.name, r.kind>>} ELSE unresolved
  /\ next' = next + 1
  /\ UNCHANGED <<options, cov, slots, outputs, rc, failures>>

(* Nothing catches the IndexError: the command ends with a traceback, and  *)
(* this artifact and the later ones have no slices.                        *)
Traceback ==
  /\ cov \in DOMAIN run /\ next \in DOMAIN run[cov] /\ Raised
  /\ rc' = 1 /\ failures' = failures \cup {"traceback"}
  /\ cov' = Len(run) + 1 /\ next' = 1
  /\ resolved' = <<>> /\ wins' = {} /\ unresolved' = {} /\ slots' = {}
  /\ UNCHANGED <<options, outputs>>

(* object_windows and mod_slot: the slot of the k-th section of w's        *)
(* object; a section of a repeated name has the index of its own in the    *)
(* file, and is lost without one.                                          *)
Repeated(names, k) == \E j \in DOMAIN names \ {k} : names[j] = names[k]

SlotOf(w, k) ==
  LET c     == path[w.res.cand]
      names == Names(c, Snapshot(w.obj))
  IN [label |-> w.res.cand, section |-> names[k],
      index |-> IF Repeated(names, k)
                  THEN elf_index_for(c, Snapshot(w.obj), k) ELSE -1]

CodeNames(c) == {s.name : s \in {t \in Range(Placed(c)) : t.exec}}

(* The text sections of resolved objects that get a slice: those that ran, *)
(* unless lost, and those that are code in the file.                       *)
Windows ==
  UNION {{<<w, k>> : k \in {j \in DOMAIN Placed(w.obj.content) :
            /\ Placed(w.obj.content)[j].exec
            /\ SlotOf(w, j).index # 0
            /\ w.obj.ran \/ SlotOf(w, j).section \in CodeNames(path[w.res.cand])}} :
         w \in {x \in wins : x.res.kind = "found"}}

(* Every record in its slot.  from says where a slot's records came from.  *)
Attribute ==
  /\ cov \in DOMAIN run /\ next = Len(run[cov]) + 1
  /\ LET Is(x, key) == SlotOf(x[1], x[2]) = key
         keys == {SlotOf(x[1], x[2]) : x \in Windows}
     IN slots' = {[key |-> key,
                   base |-> (CHOOSE x \in Windows : Is(x, key))[1].obj.name.base,
                   from |-> {x \in Windows : Is(x, key) /\ x[1].obj.ran}] :
                    key \in keys}
  /\ next' = next + 1
  /\ UNCHANGED <<options, cov, resolved, wins, unresolved, outputs, rc, failures>>

(* The name of a slice: the object's basename and the md5 of its file.     *)
OutName(s) == <<cov, s.base, path[s.key.label], s.key.section, s.key.index>>

WriteSlice ==
  /\ cov \in DOMAIN run /\ next = Len(run[cov]) + 2
  /\ \E s \in slots :
       /\ slots' = slots \ {s}
       /\ outputs' = [n \in DOMAIN outputs \cup {OutName(s)} |->
                        IF n = OutName(s) THEN s.from ELSE outputs[n]]
  /\ UNCHANGED <<options, cov, next, resolved, wins, unresolved, rc, failures>>

(* run: the exit status over all artifacts.                                *)
(* Mutant: an object that is missing hides an earlier conflict.            *)
StatusOfLast(old, kinds) ==
  IF "conflict" \in kinds THEN 1 ELSE IF kinds # {} THEN 2 ELSE old

Status(old, kinds) ==
  IF "conflict" \in kinds THEN 1
  ELSE IF kinds # {} /\ old = 0 THEN 2 ELSE old

Done ==
  /\ cov \in DOMAIN run /\ next = Len(run[cov]) + 2 /\ slots = {}
  /\ LET kinds == {u[2] : u \in unresolved}
     IN rc' = Status(rc, kinds) /\ failures' = failures \cup kinds
  /\ cov' = cov + 1 /\ next' = 1
  /\ resolved' = <<>> /\ wins' = {} /\ unresolved' = {}
  /\ UNCHANGED <<options, slots, outputs>>

Next == ResolveNext \/ Traceback \/ Attribute \/ WriteSlice \/ Done

Spec == Init /\ [][Next]_vars

-----------------------------------------------------------------------------
(* Properties.                                                             *)

(* Coverage is never shown against code other than the code that ran: what *)
(* lies in a slice was executed in a section whose recorded bytes are      *)
(* those of the slice's section in the slice's file, whatever other loads, *)
(* rebuilds and files of that name there were (resolve, content_check,     *)
(* split; a file with more sections of one name than were loaded is not    *)
(* compared there: README, section 5).                                     *)
CodeThatRan ==
  \A s \in slots, x \in UNION {t.from : t \in slots} :
    x \in s.from /\ ~no_verify =>
      LET c    == path[s.key.label]
          ran  == Snapshot(x[1].obj)[x[2]]
          same == {i \in DOMAIN Placed(c) : Placed(c)[i].name = s.key.section}
          i    == IF s.key.index > 0 THEN s.key.index ELSE CHOOSE j \in same : TRUE
          t    == Placed(c)[i]
      IN (s.key.index > 0 \/ Cardinality(same) = 1) /\ ran.bytes # <<>>
           /\ Maskable(c, t)
         => /\ Len(t.body) = Len(ran.bytes)
            /\ \A b \in DOMAIN t.body :
                 t.body[b] = ran.bytes[b] \/ b \in Mask(t)

(* The file that was loaded, or its twin with DWARF, is never refused: not *)
(* for what the loader rewrote in it, for a section of a repeated name, or *)
(* for a name that the plugin cut short when size and prefix still tell    *)
(* (verify, content_check, relocation_mask, full_name).                    *)
TrueFileMatches ==
  \A w \in wins, p \in DOMAIN path :
    LET placed == Placed(w.obj.content)
    IN /\ path[p].elf /\ Placed(path[p]) = placed
       /\ w.obj.cut => \A i, j \in DOMAIN placed :
                         placed[i].name[1] = placed[j].name[1]
                           /\ Len(placed[i].body) = Len(placed[j].body)
                         => placed[i].name = placed[j].name
       => Matches(path[p], Snapshot(w.obj))

(* The file that an object's coverage is shown against was checked against *)
(* the snapshot of that very load (resolve, split's memo).                 *)
Verified ==
  ~no_verify => \A w \in wins :
    w.res.kind = "found" => /\ w.res.cand \in DOMAIN path
                            /\ Matches(path[w.res.cand], Snapshot(w.obj))

(* What resolve may choose, when it answers: a matching file; one with     *)
(* DWARF if any has it; of files that differ none, unless those at the     *)
(* loaded name's own path are one; and it gives up only when no such       *)
(* choice is left.  The search that stops at the exact path agrees         *)
(* (resolve, _pick; Traceback is the step where it does not answer).       *)
ResolvedAsPromised ==
  ~no_verify => \A w \in wins :
    LET good  == {p \in Named(w.obj.name) : Matches(path[p], Snapshot(w.obj))}
        Exact == exact_candidates(w.obj.name)
        Rivals(p) == {q \in good : /\ path[q] # path[p]
                                   /\ path[q].debug = path[p].debug}
        Best(p) == /\ path[p].debug \/ Debug(good) = {}
                   /\ Rivals(p) = {} \/ (p \in Exact /\ Rivals(p) \cap Exact = {})
    IN CASE w.res.kind = "found"    -> w.res.cand \in good /\ Best(w.res.cand)
         [] w.res.kind = "missing"  -> Named(w.obj.name) = {}
         [] w.res.kind = "conflict" -> Named(w.obj.name) # {}
                                         /\ \A p \in good : ~Best(p)

(* The exit status speaks for all artifacts: 1 after any conflict, and     *)
(* when verify's IndexError left some unsplit, else 2 after any missing    *)
(* object, else 0 (run, verify).                                           *)
ExitTruthful ==
  rc = IF failures \cap {"conflict", "traceback"} # {} THEN 1
       ELSE IF "missing" \in failures THEN 2 ELSE 0

(* Once the slices of an artifact are written, every record of a resolved  *)
(* object is in one of them ("nothing dropped without a line saying so",   *)
(* print_summary's docstring).                                             *)
SlicesKept ==
  ~no_verify /\ cov \in DOMAIN run /\ next = Len(run[cov]) + 2 /\ slots = {} =>
    \A x \in Windows : x[1].obj.ran =>
      \E n \in DOMAIN outputs : n[1] = cov /\ x \in outputs[n]
=============================================================================
