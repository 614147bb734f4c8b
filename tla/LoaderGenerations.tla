------------------------- MODULE LoaderGenerations -------------------------
(***************************************************************************)
(* The loader-generation mode of the plugin (plugin/tcgcov-rtems.c): two   *)
(* watched functions of the RTEMS run-time loader tell the plugin that the *)
(* set of loaded objects changed, and every record carries the number of   *)
(* the map that was in force when it executed.                             *)
(*                                                                         *)
(* The guest half (the loader behind dlopen and dlclose, under its lock)   *)
(* is external; it is modelled from what the plugin's code and comments    *)
(* rely on: r_state is set before _rtld_debug_state() is called, objects   *)
(* are on the link_map chain before their constructors run, destructors    *)
(* run before objects leave the chain.  Objects can be loaded again, at    *)
(* another base or at a base another object has left.                      *)
(*                                                                         *)
(* A translation block is one address here (TcgRecorder has its inside).   *)
(***************************************************************************)
EXTENDS Naturals, Sequences, Bags, FiniteSets

CONSTANTS
  Vcpus,
  Objects,         (* dynamically loadable objects                         *)
  Sections,        (* section names                                        *)
  Layout,          (* Layout[o][s]: offsets of section s from o's base     *)
  Bases,           (* Bases[o]: addresses o may be loaded at               *)
  BaseCode,        (* addresses of the base image                          *)
  StateHook,       (* &_rtld_debug_state, an address of the base image     *)
  LoadHook,        (* &rtems_rtl_debugger_load                             *)
  LoadHookGiven,   (* may rtl_load= name it: a subset of BOOLEAN           *)
  HooksInRange,    (* filter= accepts the two hooks                        *)
  RTL_MAX_OBJS,    (* objects the snapshot walks                           *)
  NoObject, NoAddr,
  MaxCalls,        (* bound: dlopen and dlclose calls                      *)
  MaxRuns          (* bound: blocks executed                               *)

Offsets(o)   == UNION {Layout[o][s] : s \in DOMAIN Layout[o]}
Placed       == UNION {[obj : {o}, base : Bases[o]] : o \in Objects}
Occupied(p)  == {p.base + i : i \in Offsets(p.obj)}
ModuleCode   == UNION {Occupied(p) : p \in Placed}
Addresses    == BaseCode \union ModuleCode

ASSUME LoaderAssumption ==
  /\ DOMAIN Layout = Objects
  /\ \A o \in Objects : \A s \in DOMAIN Layout[o] :
       s \in Sections /\ Layout[o][s] \subseteq Nat
  /\ Bases \in [Objects -> SUBSET Nat]
  /\ BaseCode \subseteq Nat /\ BaseCode \intersect ModuleCode = {}
  /\ {StateHook, LoadHook} \subseteq BaseCode
  /\ LoadHookGiven \subseteq BOOLEAN /\ HooksInRange \in BOOLEAN
  /\ RTL_MAX_OBJS \in Nat \ {0}
  /\ NoObject \notin Objects /\ NoAddr \notin Nat
  /\ MaxCalls \in Nat /\ MaxRuns \in Nat

VARIABLES
  (* ---- the guest's loader ----------------------------------------------*)
  r_state,         (* r_debug.r_state                                      *)
  r_map,           (* the link_map chain                                   *)
  stage,           (* "idle", about to "call" the hook, at "work"          *)
  loader,          (* the vCPU that holds the loader's lock                *)
  added,           (* objects this dlopen has put on the chain             *)
  started,         (* those of them whose constructors have been started   *)
  doomed,          (* objects this dlclose takes away                      *)
  calls,           (* dlopen and dlclose calls so far                      *)
  (* ---- CovState and VcpuState ------------------------------------------*)
  rtl_load,        (* the load hook is watched                             *)
  rtl_generation, rtl_events, rtl_snaps, cur_ctx, prev,
  records,         (* bag of <<generation, address>>                       *)
  edges,           (* bag of <<generation, source, destination>>           *)
  (* ---- history ---------------------------------------------------------*)
  at,              (* what each vCPU executed last                         *)
  ran,             (* bag of what was executed                             *)
  went             (* bag of the transfers between what was executed       *)

rtld    == <<r_state, r_map, stage, loader, added, started, doomed, calls>>
plugin  == <<rtl_load, rtl_generation, rtl_events, rtl_snaps, cur_ctx>>
tables  == <<prev, records, edges>>
history == <<at, ran, went>>
vars    == <<rtld, plugin, tables, history>>

Chain    == {r_map[i] : i \in DOMAIN r_map}
Mapped   == {p.obj : p \in Chain}

(* What an address holds: an instruction of an object, found at the same   *)
(* offset of the same section wherever the object is loaded, or of the     *)
(* base image.  An instruction is early when it runs inside the dlopen     *)
(* that loads its object and no hook has announced that object: a          *)
(* constructor, or what a constructor set going.                           *)
ModuleInstr(p, a) ==
  [obj |-> p.obj, off |-> a - p.base,
   early |-> p.obj \in added /\ ~rtl_load]
BaseInstr(a) == [obj |-> NoObject, off |-> a, early |-> FALSE]
Instr(a) ==
  IF \E p \in Chain : a \in Occupied(p)
    THEN ModuleInstr(CHOOSE p \in Chain : a \in Occupied(p), a)
    ELSE BaseInstr(a)
Nowhere == [obj |-> NoObject, off |-> NoAddr, early |-> FALSE]

One(x) == SetToBag({x})
Copies(x, bag) == IF x \in BagToSet(bag) THEN bag[x] ELSE 0
Executed ==
  BagCardinality(ran) - Copies(BaseInstr(StateHook), ran)
                      - Copies(BaseInstr(LoadHook), ran)

TypeOK ==
  /\ r_state \in {"consistent", "add", "delete"}
  /\ Chain \subseteq Placed /\ Cardinality(Mapped) = Len(r_map)
  /\ stage \in {"idle", "call", "work"}
  /\ loader \in Vcpus
  /\ started \subseteq added /\ added \subseteq Mapped
  /\ doomed \subseteq Objects
  /\ calls \in Nat /\ rtl_load \in BOOLEAN
  /\ rtl_generation \in Nat /\ rtl_events \in Nat
  /\ DOMAIN rtl_snaps = 1 .. rtl_generation
  /\ \A g \in DOMAIN rtl_snaps : rtl_snaps[g] \subseteq Placed
  /\ cur_ctx \in [Vcpus -> 0 .. rtl_generation]
  /\ prev \in [Vcpus -> Addresses \union {NoAddr}]
  /\ BagToSet(records) \subseteq Nat \X Addresses
  /\ BagToSet(edges) \subseteq Nat \X Addresses \X Addresses

Init ==
  /\ r_state = "consistent" /\ r_map = <<>> /\ stage = "idle"
  /\ loader \in Vcpus
  /\ added = {} /\ started = {} /\ doomed = {} /\ calls = 0
  /\ rtl_load \in LoadHookGiven
  /\ rtl_generation = 0 /\ rtl_events = 0 /\ rtl_snaps = <<>>
  /\ cur_ctx = [v \in Vcpus |-> 0]
  /\ prev = [v \in Vcpus |-> NoAddr]
  /\ records = EmptyBag /\ edges = EmptyBag
  /\ at = [v \in Vcpus |-> Nowhere] /\ ran = EmptyBag /\ went = EmptyBag

(***************************************************************************)
(* Executing one block.  It is counted, and the edge into it recorded,     *)
(* under the tag of this vCPU; its end publishes it as the next source.    *)
(***************************************************************************)
Count(v, a) ==
  /\ records' = records (+) One(<<cur_ctx[v], a>>)
  /\ edges' = IF prev[v] = NoAddr THEN edges
              ELSE edges (+) One(<<cur_ctx[v], prev[v], a>>)

(* What the guest really did.                                              *)
Note(v, a) ==
  /\ at' = [at EXCEPT ![v] = Instr(a)]
  /\ ran' = ran (+) One(Instr(a))
  /\ went' = IF at[v] = Nowhere THEN went
             ELSE went (+) One(<<at[v], Instr(a)>>)

(* Code a vCPU can be in: base image outside the hooks; an object that is  *)
(* fully loaded; on the loading vCPU also those under construction, and    *)
(* the doomed ones until the first of them is taken off the chain.         *)
Settled == Mapped \ (added \union doomed)
Dying   == IF doomed \subseteq Mapped THEN doomed ELSE {}
Runnable(v) ==
  (BaseCode \ {StateHook, LoadHook}) \union
  UNION {Occupied(p) : p \in
           {q \in Chain : \/ q.obj \in Settled
                          \/ v = loader /\ q.obj \in Dying \union started}}

Execute(v, a) ==
  /\ Executed < MaxRuns
  /\ a \in Runnable(v)
  /\ Count(v, a) /\ Note(v, a)
  /\ prev' = [prev EXCEPT ![v] = a]
  /\ UNCHANGED <<rtld, plugin>>

(***************************************************************************)
(* The callbacks.  The block of the hook itself is entered under the old   *)
(* tag; the callback on its first instruction changes the tag and drops    *)
(* the pending source; its end publishes the hook, if it is instrumented.  *)
(* The tag is read after the unlock, and still is the one just set: the    *)
(* loader's own lock keeps every other vCPU out of the hooks.              *)
(***************************************************************************)
Snapshot == {r_map[i] : i \in 1 .. (IF Len(r_map) < RTL_MAX_OBJS
                                    THEN Len(r_map) ELSE RTL_MAX_OBJS)}

(* Mutant: objects are added to the map and never taken off it.            *)
BumpAdding ==
  /\ rtl_generation' = rtl_generation + 1
  /\ rtl_snaps' = Append(rtl_snaps, Snapshot \union UNION
                          {rtl_snaps[g] : g \in DOMAIN rtl_snaps})
Bump ==
  /\ rtl_generation' = rtl_generation + 1
  /\ rtl_snaps' = Append(rtl_snaps, Snapshot)

Tag(v) == cur_ctx' = [cur_ctx EXCEPT ![v] = rtl_generation']

(* Mutant: the pending source survives the event.                          *)
BreakFlowNot(v, hook) ==
  prev' = [prev EXCEPT ![v] = IF HooksInRange THEN hook ELSE @]
BreakFlow(v, hook) ==
  prev' = [prev EXCEPT ![v] = IF HooksInRange THEN hook ELSE NoAddr]

EnterHook(v, hook) ==
  IF HooksInRange
    THEN Count(v, hook) /\ Note(v, hook)
    ELSE /\ at' = [at EXCEPT ![v] = Nowhere]
         /\ UNCHANGED <<records, edges, ran, went>>

vcpu_rtl_state(v) ==
  /\ EnterHook(v, StateHook)
  /\ rtl_events' = rtl_events + 1
  /\ IF r_state = "consistent" THEN Bump ELSE UNCHANGED <<rtl_generation, rtl_snaps>>
  /\ Tag(v) /\ BreakFlow(v, StateHook)

vcpu_rtl_load(v) ==
  /\ EnterHook(v, LoadHook)
  /\ rtl_events' = rtl_events + 1
  /\ Bump
  /\ Tag(v) /\ BreakFlow(v, LoadHook)

(***************************************************************************)
(* dlopen and dlclose, on the vCPU that holds the loader's lock.           *)
(***************************************************************************)
BeginLoad(v) ==
  /\ stage = "idle" /\ calls < MaxCalls /\ calls' = calls + 1
  /\ loader' = v /\ r_state' = "add" /\ stage' = "call"
  /\ UNCHANGED <<r_map, added, started, doomed, plugin, tables, history>>

BeginUnload(v, D) ==
  /\ stage = "idle" /\ calls < MaxCalls /\ calls' = calls + 1
  /\ D # {} /\ D \subseteq Mapped
  /\ loader' = v /\ r_state' = "delete" /\ stage' = "call" /\ doomed' = D
  /\ UNCHANGED <<r_map, added, started, plugin, tables, history>>

NotifyState ==
  /\ stage = "call"
  /\ vcpu_rtl_state(loader)
  /\ stage' = IF r_state = "consistent" THEN "idle" ELSE "work"
  /\ added' = {} /\ started' = {}
  /\ UNCHANGED <<r_state, r_map, loader, doomed, calls, rtl_load>>

Link(p) ==
  /\ stage = "work" /\ r_state = "add" /\ started = {}
  /\ p.obj \notin Mapped
  /\ \A q \in Chain : Occupied(p) \intersect Occupied(q) = {}
  /\ r_map' = Append(r_map, p)
  /\ added' = added \union {p.obj}
  /\ UNCHANGED <<r_state, stage, loader, started, doomed, calls,
                 plugin, tables, history>>

NextConstructors(o) ==
  /\ stage = "work" /\ r_state = "add" /\ o \in added \ started
  /\ started' = started \union {o}
  /\ UNCHANGED <<r_state, r_map, stage, loader, added, doomed, calls>>

NotifyLoad(o) ==
  /\ rtl_load /\ NextConstructors(o)
  /\ vcpu_rtl_load(loader) /\ UNCHANGED rtl_load

StartConstructors(o) ==
  /\ ~rtl_load /\ NextConstructors(o)
  /\ UNCHANGED <<plugin, tables, history>>

Without(seq, i) == [j \in 1 .. Len(seq) - 1 |-> seq[IF j < i THEN j ELSE j + 1]]

Unlink(i) ==
  /\ stage = "work" /\ r_state = "delete" /\ r_map[i].obj \in doomed
  /\ r_map' = Without(r_map, i)
  /\ UNCHANGED <<r_state, stage, loader, added, started, doomed, calls,
                 plugin, tables, history>>

(* dlopen and dlclose end alike, a dlopen that found nothing to load too.  *)
Finish ==
  /\ stage = "work" /\ started = added /\ doomed \intersect Mapped = {}
  /\ r_state' = "consistent" /\ stage' = "call"
  /\ doomed' = {}
  /\ UNCHANGED <<r_map, loader, added, started, calls, plugin, tables, history>>

Next ==
  \/ \E v \in Vcpus, a \in Addresses : Execute(v, a)
  \/ \E v \in Vcpus : BeginLoad(v)
  \/ \E v \in Vcpus, D \in SUBSET Objects : BeginUnload(v, D)
  \/ NotifyState
  \/ \E p \in Placed : Link(p)
  \/ \E o \in Objects : NotifyLoad(o) \/ StartConstructors(o)
  \/ \E i \in DOMAIN r_map : Unlink(i)
  \/ Finish

Spec == Init /\ [][Next]_vars

(***************************************************************************)
(* The map a vCPU tags its records with is the one in force: whatever it   *)
(* says is at an address this vCPU can run is really there                 *)
(* (tcgcov-rtems.c: "records tagged N were executed while snapshot N's map *)
(* was live").  Code that is missing from the map is possible, an address  *)
(* given to an object that has left it is not.                             *)
(***************************************************************************)
MapOf(g) == IF g \in DOMAIN rtl_snaps THEN rtl_snaps[g] ELSE {}

MapInForce ==
  \A v \in Vcpus : \A a \in Runnable(v) : \A p \in MapOf(cur_ctx[v]) :
    a \in Occupied(p) => p \in Chain
=============================================================================
