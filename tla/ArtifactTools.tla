--------------------------- MODULE ArtifactTools ---------------------------
(***************************************************************************)
(* The tools that rewrite artifacts: contexts --extract (contexts.py),     *)
(* modmap's slices (modmap.py), rebase (rebase.py) and dump --scrub-out    *)
(* (dump.py), over the reader and writer they share (format.py).  A        *)
(* campaign of these commands runs over the artifact whose blocks and TB   *)
(* table are those of TbTable; each may be killed while it writes.         *)
(*                                                                         *)
(* A file is its header and a sequence of units: the header's own, the     *)
(* metadata, a unit per record, edge, table entry, instruction size and    *)
(* exit.  The reader finds its sections by the header's offsets only.      *)
(***************************************************************************)
EXTENDS TbTable

CONSTANTS
  Paths,        (* file names; "run" is the plugin's artifact              *)
  Kinds,        (* [mode, ctx]: what the plugin was asked to record        *)
  EdgeSets,     (* edges of a run: functions <<ctx, src, dst>> -> count    *)
  Bases, Sizes, Tos,   (* rebase --base --size --to                        *)
  Maps,         (* module maps: sets of [start, size, out]                 *)
  Campaigns,    (* bound: the runs that are followed by commands           *)
  MaxCommands   (* bound: commands after such a run                        *)

ASSUME ArtifactToolsAssumption ==
  /\ "run" \in Paths /\ MaxCommands \in Nat
  /\ Bases \cup Sizes \cup Tos \subseteq Nat
  /\ \A k \in Kinds : /\ k.mode \in {"tb", "tb-insn-fast", "insn", "bare"}
                       /\ k.ctx \in BOOLEAN
  /\ \A e \in EdgeSets :
       /\ DOMAIN e \subseteq Ctxs \X Addr \X Addr /\ IsFiniteSet(DOMAIN e)
       /\ \A k \in DOMAIN e : e[k] \in Nat \ {0}
  /\ \A m \in Maps :
       /\ IsFiniteSet(m)
       /\ \A w \in m : w.start \in Nat /\ w.size \in Nat /\ w.out \in Paths

VARIABLES
  kind, edges,  (* of the run                                              *)
  files,        (* Paths -> file                                           *)
  writing,      (* what the running command has still to write             *)
  commands      (* commands left                                           *)

tools   == <<kind, edges, files, writing, commands>>
allVars == <<vars, tools>>

Sections == {"meta", "rec", "edge", "tb", "exit"}
None     == -1                 (* no context: version 1                    *)
All      == -2                 (* every context, summed                    *)
Unit(k, c, x, y, n) == <<k, c, x, y, n>>
Word(k)  == Unit(k, 0, 0, 0, 0)
Absent   == [there |-> FALSE]
HasTable(k)  == k.mode \in {"tb", "tb-insn-fast"}

-----------------------------------------------------------------------------
(* format.py, writing.                                                     *)

Layout(hsize, size) ==
  LET rec  == hsize + size["meta"]
      edge == rec + size["rec"]
      tb   == edge + size["edge"]
  IN [s \in Sections |->
        CASE s = "meta" -> hsize
          [] s = "rec"  -> rec
          [] s = "edge" -> IF size["edge"] = 0 THEN 0 ELSE edge
          [] s = "tb"   -> tb
          [] s = "exit" -> tb + size["tb"]]

(* A file with these flags and sections.  scope is no part of it: it says  *)
(* which part of the run the file is meant to describe.                    *)
File(flags, body, scope) ==
  LET hsize == IF flags.table THEN 2 ELSE 1
      size  == [s \in Sections |-> Len(body[s])]
  IN [there |-> TRUE, scope |-> scope, flags |-> flags, hsize |-> hsize,
      size |-> size, off |-> Layout(hsize, size),
      bytes |-> [i \in 1 .. hsize |-> Word("header")] \o body["meta"]
                  \o body["rec"] \o body["edge"] \o body["tb"] \o body["exit"]]

RecUnits(recs)  == SetToSeq({Unit("rec", r[1], r[2], 0, r[3]) : r \in recs})
EdgeUnits(es)   == SetToSeq({Unit("edge", e[1], e[2], e[3], e[4]) : e \in es})

(* write_cov as the tools call it: version 1, counts, no table; the edge   *)
(* flag only when there are edges (edges_recorded is left out).            *)
WriteCov(meta, recs, es, type, scope) ==
  File([type |-> type, counts |-> TRUE, ctx |-> FALSE, table |-> FALSE,
        edges |-> es # {}],
       [meta |-> meta, rec |-> RecUnits({<<None, r[1], r[2]>> : r \in recs}),
        edge |-> EdgeUnits({<<None, e[1], e[2], e[3]>> : e \in es}),
        tb |-> <<>>, exit |-> <<>>], scope)

-----------------------------------------------------------------------------
(* The artifact of the run, as the plugin writes it.                       *)

CtxOf(c) == IF kind.ctx THEN c ELSE None

RanIn(c, x) ==
  IF x \notin filter THEN 0
  ELSE SumFunctionOnSet([t \in Translations |-> Executed(t, x)],
         {t \in Translations : tbs[t].ctx = c /\ x \in InsnsOf(tbs[t].code)})

(* Records as written: block starts, instructions at the full count of     *)
(* their block, or instructions counted one by one.                        *)
FullCount(c, x) ==
  MapThenSumSet(LAMBDA i : Table[i].count,
    {i \in DOMAIN Table : /\ Table[i].ctx = c
                          /\ IF kind.mode = "tb" THEN x = Table[i].code[1]
                             ELSE x \in InsnsOf(Table[i].code) \cap filter})

RawCount(c, x) ==
  IF HasTable(kind) THEN FullCount(c, x)
  ELSE IF kind.mode = "bare" THEN 0 ELSE RanIn(c, x)

RawRecs ==
  {<<CtxOf(k[1]), k[2], RawCount(k[1], k[2])>> :
     k \in {j \in Ctxs \X Addr : IF HasTable(kind) THEN FullCount(j[1], j[2]) > 0
                                 ELSE RanIn(j[1], j[2]) > 0}}

TableUnits(table) ==
  FlattenSeq([i \in DOMAIN table |->
    <<Unit("tb", CtxOf(table[i].ctx), table[i].code[1],
           Total(table[i].code[2]), table[i].count)>>
      \o [j \in DOMAIN table[i].code[2] |->
            Unit("size", 0, 0, 0, table[i].code[2][j])]])

ExitUnits(early_exits) ==
  SetToSeq({Unit("exit", x.index, x.start, x.pc, x.count) : x \in early_exits})

RunFile ==
  File([type |-> IF kind.mode = "tb" THEN 1 ELSE 2, ctx |-> kind.ctx,
        counts |-> kind.mode # "bare", table |-> HasTable(kind),
        edges |-> edges # <<>>],
       [meta |-> <<Word("dir"), Word("dir"), Word("elf"), Word(kind.mode)>>,
        rec  |-> RecUnits(RawRecs),
        edge |-> EdgeUnits({<<CtxOf(k[1]), k[2], k[3], edges[k]>> :
                              k \in DOMAIN edges}),
        tb   |-> IF HasTable(kind) THEN TableUnits(Table) ELSE <<>>,
        exit |-> IF HasTable(kind) 
                THEN ExitUnits(UNION {ExitsOf(i) : i \in DOMAIN Table}) ELSE <<>>],
       [ctxs |-> Ctxs, lo |-> 0, hi |-> Max(Addr) + 1, delta |-> 0])

-----------------------------------------------------------------------------
(* format.py, reading.                                                     *)

(* parse_header: every section lies after the header and inside the file.  *)
(* Mutant: a section that starts inside the file is taken to be in it.     *)
StartsInside(f) ==
  /\ Len(f.bytes) >= f.hsize
  /\ \A s \in Sections : f.size[s] # 0 => f.off[s] \in f.hsize .. Len(f.bytes)

ParseHeader(f) ==
  /\ Len(f.bytes) >= f.hsize
  /\ \A s \in Sections :
       f.size[s] # 0 => /\ f.off[s] >= f.hsize
                        /\ f.off[s] <= Len(f.bytes)
                        /\ f.size[s] <= Len(f.bytes) - f.off[s]

Part(f, s) == SubSeq(f.bytes, f.off[s] + 1, f.off[s] + f.size[s])

(* read_full accepts a file: its header, its metadata, its TB table.       *)
Readable(f) ==
  /\ f.there
  /\ ParseHeader(f)
  /\ Range(Part(f, "meta")) \subseteq
       {Word(w) : w \in {"dir", "elf", "scrubbed", "window", "context", "tb",
                         "tb-insn-fast", "insn", "bare"}}
  /\ f.flags.table => /\ Part(f, "tb") = TableUnits(entries)
                      /\ Part(f, "exit") = ExitUnits(exits)

(* A table is expanded when the records are block starts or counted per    *)
(* block; out is what its expansion gives (TbTable).                       *)
Expands(f) ==
  /\ f.flags.table
  /\ f.flags.type = 1 \/ Word("tb-insn-fast") \in Range(Part(f, "meta"))

Records(f) ==
  IF Expands(f)
    THEN {<<CtxOf(k[1]), k[2], out[k]>> : k \in {j \in DOMAIN out : out[j] > 0}}
    ELSE {<<u[2], u[3], u[5]>> : u \in Range(Part(f, "rec"))}

EdgesIn(f) ==
  IF f.flags.edges
    THEN {<<u[2], u[3], u[4], u[5]>> : u \in Range(Part(f, "edge"))} ELSE {}

EffectiveType(f) == IF f.flags.type = 1 /\ f.flags.table THEN 2 ELSE f.flags.type

(* read_all: one context, or all of them summed.  Without counts a record  *)
(* stands for one execution.                                               *)
Selected(rows, ctx) == {r \in rows : ctx = All \/ r[1] = ctx}

(* Mutant: the count of one context replaces that of another.              *)
AllCountReplaced(f, ctx, x) ==
  Max({r[3] : r \in {q \in Selected(Records(f), ctx) : q[2] = x}})

AllCount(f, ctx, x) ==
  LET at == {r \in Selected(Records(f), ctx) : r[2] = x}
  IN IF f.flags.counts THEN SumFunction([r \in at |-> r[3]]) ELSE 1

AllRecs(f, ctx) ==
  {<<x, AllCount(f, ctx, x)>> : x \in {r[2] : r \in Selected(Records(f), ctx)}}

AllEdges(f, ctx) ==
  LET es == Selected(EdgesIn(f), ctx)
  IN {<<k[1], k[2], SumFunctionOnSet([e \in es |-> e[4]],
                      {e \in es : e[2] = k[1] /\ e[3] = k[2]})>> :
        k \in {<<e[2], e[3]>> : e \in es}}

-----------------------------------------------------------------------------
(* The commands.  Each reads its input whole and then writes its outputs   *)
(* one after the other; one that fails writes nothing.                     *)

Write(p, f, tmp) == [path |-> p, file |-> f, tmp |-> tmp]

Start(p, outputs) ==
  /\ phase = "done" /\ writing = <<>> /\ commands > 0
  /\ Readable(files[p])
  /\ outputs # <<>>
  /\ writing' = outputs
  /\ commands' = commands - 1
  /\ UNCHANGED <<vars, kind, edges, files>>

(* contexts --extract.                                                     *)
Extract(p, c, g) ==
  LET f    == files[p]
      kept == Selected(Records(f), c)
  IN /\ files[p].there /\ f.flags.ctx
     /\ kept # {}
     /\ Start(p,
          <<Write(g, WriteCov(Append(Part(f, "meta"), Word("context")),
                     {<<r[2], IF r[3] = 0 THEN 1 ELSE r[3]>> : r \in kept},
                     {<<e[2], e[3], e[4]>> : e \in Selected(EdgesIn(f), c)},
                     IF Expands(f) THEN 2 ELSE f.flags.type,
                     [f.scope EXCEPT !.ctxs = @ \cap {c}]), FALSE)>>)

(* A window of a file moved to another address, as rebase and slice do.    *)
Window(f, ctx, lo, hi, delta) ==
  LET In(x) == lo <= x /\ x < hi
  IN [recs  |-> {<<r[1] + delta, r[2]>> : r \in {q \in AllRecs(f, ctx) : In(q[1])}},
      edges |-> {<<e[1] + delta, e[2] + delta, e[3]>> :
                   e \in {q \in AllEdges(f, ctx) : In(q[1]) /\ In(q[2])}},
      scope |-> [ctxs |-> IF ctx = All THEN f.scope.ctxs ELSE {ctx},
                 lo |-> Max({f.scope.lo, lo - f.scope.delta}),
                 hi |-> Min({f.scope.hi, hi - f.scope.delta}),
                 delta |-> f.scope.delta + delta]]

Rebased(f, w) == WriteCov(Append(Part(f, "meta"), Word("window")), w.recs,
                          w.edges, EffectiveType(f), w.scope)

Rebase(p, base, size, to, g) ==
  /\ files[p].there
  /\ Start(p, <<Write(g, Rebased(files[p], Window(files[p], All, base,
                                    base + size, to - base)), FALSE)>>)

(* load_map: empty sections are left out, overlapping ones refused.        *)
Windows(m) == {w \in m : w.size > 0}

Overlapping(m) ==
  \E v, w \in Windows(m) :
    v # w /\ v.start <= w.start /\ w.start < v.start + v.size

(* slice_cov: one file per window that has records.                        *)
Slice(p, m, ctx) ==
  LET f == files[p]
      W(w) == Window(f, ctx, w.start, w.start + w.size, -w.start)
  IN /\ files[p].there /\ ~Overlapping(m)
     /\ ctx # All => f.flags.ctx
     /\ LET hit == InOrder({w \in Windows(m) : W(w).recs # {}},
                           LAMBDA v, w : v.start < w.start)
        IN Start(p, [i \in DOMAIN hit |->
                       Write(hit[i].out, Rebased(f, W(hit[i])), FALSE)])

(* scrub_metadata: paths become basenames.                                 *)
ScrubMeta(meta) ==
  SetToSeq((Range(meta) \ {Word("dir")}) \cup {Word("scrubbed")})

(* write_scrubbed: every other section as it was, at its new offset.       *)
(* Mutant: at its old one.                                                 *)
ScrubbedOldOffsets(f) ==
  LET new == File(f.flags, [s \in Sections |-> IF s = "meta"
                              THEN ScrubMeta(Part(f, s)) ELSE Part(f, s)],
                  f.scope)
  IN [new EXCEPT !.off = f.off]

Scrubbed(f) ==
  File(f.flags, [s \in Sections |-> IF s = "meta" THEN ScrubMeta(Part(f, s))
                                    ELSE Part(f, s)], f.scope)

Scrub(p, g) ==
  /\ files[p].there
  /\ Start(p, <<Write(g, Scrubbed(files[p]), TRUE)>>)

(* The output in hand is complete; scrub renames it over its destination.  *)
Finish1 ==
  /\ writing # <<>>
  /\ files' = [files EXCEPT ![writing[1].path] = writing[1].file]
  /\ writing' = Tail(writing)
  /\ UNCHANGED <<vars, kind, edges, commands>>

(* The tool is killed with n units of it in the file.  Bound: at the start *)
(* of a section, or with the last unit missing.                            *)
Tears(f) == {n \in {f.off[s] : s \in Sections} : n < Len(f.bytes)}
              \cup {Len(f.bytes) - 1}

(* Mutant: scrub writes its destination like the others.                   *)
TornInPlace(w, f, n) == [w.file EXCEPT !.bytes = SubSeq(@, 1, n)]

Torn(w, f, n) ==
  IF w.tmp THEN f ELSE [w.file EXCEPT !.bytes = SubSeq(@, 1, n)]

Killed ==
  /\ writing # <<>>
  /\ \E n \in Tears(writing[1].file) :
       files' = [files EXCEPT ![writing[1].path] = Torn(writing[1], @, n)]
  /\ writing' = <<>>
  /\ UNCHANGED <<vars, kind, edges, commands>>

Command ==
  \E p, g \in Paths :
    \/ \E c \in Ctxs : Extract(p, c, g)
    \/ \E b \in Bases, s \in Sizes, t \in Tos : Rebase(p, b, s, t, g)
    \/ Scrub(p, g)

SliceCommand ==
  \E p \in Paths, m \in Maps, c \in Ctxs \cup {All} : Slice(p, m, c)

ToolsInit ==
  /\ Init
  /\ IF tbs \in Campaigns
       THEN /\ kind \in Kinds
            /\ ~kind.ctx => \A t \in Translations : tbs[t].ctx = 0
            /\ edges \in EdgeSets
            /\ \A k \in DOMAIN edges : k[1] \in {tbs[t].ctx : t \in Translations}
            /\ commands = MaxCommands
       ELSE /\ kind = [mode |-> "tb", ctx |-> TRUE]
            /\ edges = <<>> /\ commands = 0
  /\ files = [p \in Paths |-> IF p = "run" /\ commands > 0 THEN RunFile ELSE Absent]
  /\ writing = <<>>

ToolsNext ==
  \/ Next /\ UNCHANGED tools
  \/ Command \/ SliceCommand \/ Finish1 \/ Killed

ToolsSpec == ToolsInit /\ [][ToolsNext]_allVars

-----------------------------------------------------------------------------
(* Properties.                                                             *)

(* What a file with this scope must say of the instructions and the edges. *)
Truth(s) ==
  LET N(x) == SumFunction([c \in s.ctxs |-> RanIn(c, x)])
  IN {<<x + s.delta, IF kind.mode = "bare" THEN 1 ELSE N(x)>> :
        x \in {y \in Addr \cap s.lo .. s.hi - 1 : N(y) > 0}}

EdgeTruth(s) ==
  LET mine == {k \in DOMAIN edges : /\ k[1] \in s.ctxs
                                    /\ {k[2], k[3]} \subseteq s.lo .. s.hi - 1}
  IN {<<p[1] + s.delta, p[2] + s.delta,
        SumFunctionOnSet(edges, {k \in mine : <<k[2], k[3]>> = p})>> :
        p \in {<<k[2], k[3]>> : k \in mine}}

(* Whatever commands led to it, a file that the tools read says of every   *)
(* instruction and every edge of the part of the run it stands for what    *)
(* the guest did, moved to its new address, and nothing more; and a file   *)
(* without a table says that its records are instructions (read_full,      *)
(* read_all, write_cov, slice_cov, rebase's and contexts' run).            *)
Conserved ==
  \A p \in Paths : phase = "done" /\ Readable(files[p]) =>
    LET f == files[p] IN
    /\ AllRecs(f, All) = Truth(f.scope)
    /\ AllEdges(f, All) = EdgeTruth(f.scope)
    /\ EffectiveType(f) = 2

(* A file that a killed tool left unfinished is refused by every reader    *)
(* rather than read as a shorter run (parse_header).                       *)
TornRejected ==
  \A p \in Paths :
    files[p].there /\ Len(files[p].bytes) < files[p].hsize
        + MapThenSumSet(LAMBDA s : files[p].size[s], Sections)
      => ~Readable(files[p])

(* A file scrubbed in place never loses or changes coverage, not even when *)
(* the scrub is killed (write_scrubbed).                                   *)
Coverage(f) == <<Readable(f), AllRecs(f, All), AllEdges(f, All)>>

ScrubKeeps ==
  [][\A p \in Paths :
       writing # <<>> /\ writing[1].tmp /\ writing[1].path = p
         /\ files[p].there /\ files[p].scope = writing[1].file.scope
         /\ Readable(files[p])
       => Coverage(files[p])' = Coverage(files[p])]_allVars
=============================================================================
