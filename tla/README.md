# A verification project for tcgcov

tcgcov measures the code coverage of guest programs that run under QEMU. A
QEMU TCG plugin (`plugin/`, C) records which translation blocks a guest
executes and writes an artifact; a Python package (`tcgcov/`) reads artifacts,
splits, joins and merges them, and turns them into lcov reports. This
directory holds TLA+ models of both halves, the TLC configurations that check
them on small instances, and TLAPS proofs of what matters most.

`PROJECT.json` beside this file is the index: the components, the runs, the
source lines every definition stands for, the hazards and the theorems. To
check a run or a proof, in this directory:

    tlc -workers 2 -config recorder.cfg MCTcgArtifact.tla
    tlapm Plugin_proofs.tla

Contents: 1 the system, 2 the plan, 3 modules and code, 4 runs and bounds,
5 known disagreements, 6 proofs, 7 what is only model-checked, 8 what is not
modelled.


## 1. The system and its parts

    QEMU + plugin --> run.cov --(rtl split)--> base slice, object slices
                                                    |
                     symbolize --> covered.jsonl    |   per artifact,
      ELF + objdump: coverable --> coverable.jsonl  |   under a pool of
                     branches  --> branches.jsonl   |   threads (report)
                                        |
                     lcov --> per-test .info --> merge --> aggregate .info
                                                              |
                                        restrict / genhtml <--+

Everything on the host side is joined by source identity (file, line), never
by address, because the same source is linked at other addresses into every
program.

### The plugin

**Execution recorder** (`tcgcov.c`). *State*: options fixed at installation;
shared block counters; one slot per vCPU with its pending edge source, current
block and whether it ended, current context, and its edge, exit and per-context
block tables. *Operations*: block entry, per-instruction callback,
last-instruction callback, discontinuity, vCPU start, flush. *Interaction*:
called back by QEMU from the thread of the vCPU; slots are written without
locks, counters with atomic adds; the writer reads all tables at exit or when
`flush_at=` is reached. *Hard*: interrupts between blocks, faults inside them,
blocks abandoned and resumed without a callback, context switches, several
vCPUs, vCPUs beyond the slot table, a flush from inside a block. *Correct when*:
the pending source is the last instruction of the uninterrupted block just
finished; edges are exactly the transfers made; counts and early exits together
say how often every instruction ran.

**Linux context hook** (`tcgcov-linux.c`). *State*: current context per vCPU,
entries per context. *Operations*: context switch, seeding at vCPU start.
*Hard*: the switch arrives in the middle of a block. *Correct when*: a record
is tagged with the context it was entered in and every tag is listed.

**Artifact writer** (`tcgcov.c`, `write_artifact`). *State*: temporary file,
stream, the file named by `out=`. *Operations*: open, write, flush, sync,
close, rename, unlink. *Hard*: each call may fail, processes share `out=`, a
process or the host dies anywhere, a flushed copy precedes the exit copy.
*Correct when*: `out=` is replaced atomically by complete files, keeps its
permissions, and no temporary stays.

**TB table** (`tcgcov.c` `collect_tb_table`; `format.py` `unpack_tb_table`,
`expand_tb_records`). *State*: the table of blocks and exits in the artifact.
*Operations*: merge equal translations, sort, name exits by position, check,
expand. *Hard*: different code at one start, exits inside instructions, order.
*Correct when*: what is expanded is what ran, and no table of the plugin is
rejected.

**RTEMS loader hook** (`tcgcov-rtems.c`). *State*: generation, a snapshot of
the `link_map` chain per generation, tag per vCPU. *Operations*: notification
of the loader's state, of an object loaded. *Interaction*: watches two guest
functions, reads guest memory. *Hard*: address reuse, constructors running
before the notification, several vCPUs. *Correct when*: a record's generation
names the map that was in force when it executed.

### The host side

**Artifact reader and writer** (`format.py`). *State*: none; it decodes and
encodes files. *Operations*: `read_full`, `read_all`, `write_cov`. *Hard*: a
file left unfinished, tables to expand or not, contexts to select or sum.
*Correct when*: an unfinished file is refused and a file says of its part of a
run what the guest did.

**contexts, module maps, rebase, dump** (`contexts.py`, `modmap.py`,
`rebase.py`, `dump.py`): each command reads an artifact whole and writes others:
one context of it, one slice per module, a window moved to other addresses, a
copy without paths (scrubbed, also in place). *Hard*: applied to each other's
outputs, killed while writing. *Correct when*: records are conserved over every
series of such commands, and a scrub never costs the original.

**rtl** (`rtl.py`, `rtems_args.py`): `split` gives every record of an RTEMS
artifact to the base image or to a section of the object its generation's map
has at that address; searches host files on `--obj-path`, checks each against
the loader's snapshot and the recorded bytes, and chooses. *State*: windows per
generation, resolutions remembered by name and snapshot, slots. *Hard*:
lifetimes of objects over the same addresses, objects without a file, rebuilt
or copied files, bytes the loader rewrote, sections of one name. *Correct when*:
a slice counts exactly what ran of its object, and is shown against the code
that ran.

**symbolizers** (`symbolize.py`, `addr2line.py`, `dwarfline.py`,
`elfinfo.py`): addresses to frames (function, file, line), inlined callers
included. `dwarfline.py` executes line-number programs and range lists itself,
for ELFs whose inventory is read from DWARF. *Hard*: registers carried from row
to row, several instructions to a word, discarded code left at address 0, units
that cannot be read, addresses that only a relocation tells apart. *Correct
when*: the lines it lists are those `addr2line -i` can report. **paths**
(`paths.py`): normalises file names.

**branches and control flow** (`branches.py`, `cfg.py`, `gap.py`): blocks and
branch points of a disassembly, recorded edges matched to them, a name
(line, block number, outcome) that is comparable between programs. *Hard*:
delay slots, blocks cut short, inlining, indirect branches. *Correct when*:
every outcome is counted as often as the guest went that way.

**coverable and lcov** (`coverable.py`, `lcov.py`): the denominator, from
objdump or DWARF, and the `.info` file of a test. *Hard*: a tool that works
but prints nothing usable. *Correct when*: no failure shrinks the denominator
to what ran.

**merge, restrict, contexts** (`merge.py`, `restrict.py`, `contexts.py`): sums
`.info` files; projects an aggregate on the lines of one target; projects an
artifact on one context. *Hard*: nested and repeated merges, `-` against 0,
functions without lines left. *Correct when*: the result depends only on which
tests are in it and which targets it was restricted to.

**report** (`report.py`): drives the pipeline over many artifacts with a pool
of threads. *State*: the files below `--out-dir` (disassemblies, inventories,
per-test `.info`, the aggregate), queue, locks per file, buffered output,
outcomes. *Hard*: two workers needing one inventory, a tool failing under a
lock, a worker raising, leftovers of earlier and killed commands. *Correct
when*: caches are whole and built once, both sides of every join agree, the
outcome is that of a serial run, the aggregate holds every artifact once, and
the command ends.

**command line, examples** (`cli.py`, `cliargs.py`, `examples/`): argument
parsing and fixtures, without state of their own.

The complete list of hazards, each at its line and with the properties that
watch it, is `PROJECT.json`, "hazards".


## 2. Plan

Most important first: if the recorder is wrong nothing behind it can be right.

| order | modules | question | status |
|---|---|---|---|
| 1 | `TcgRecorder`, `TcgArtifact` | is what is recorded what ran? | checked, all of it proved |
| 2 | `AtomicArtifact`, `ArtifactWriter` | is `out=` replaced atomically? | all proved |
| 3 | `TbTable`, `ArtifactTools` | does every tool read back what the plugin counted? | all proved |
| 4 | `LoaderGenerations`, `RtlSplit` | is code at reused addresses credited right? | all proved |
| 5 | `ObjectResolution` | is coverage shown against the file that was loaded? | checked, all of it proved |
| 6 | `ReportPool`, `ReportPromises` | do the threads and leftovers decide anything? | checked, all but termination proved |
| 7 | `ControlFlow`, `CoverageInfo`, `CoveragePromises` | does merging by source identity add up? | checked, all of it proved |
| 8 | `LineProgram`, `DwarfLines` | is the denominator read from DWARF what `addr2line -i` reports? | all proved |
| 9 | `gap.py`, a read error inside `merge` | small additions to `CoverageInfo` | open |

Composition: `TcgArtifact` reads the tables of `TcgRecorder`; `RtlSplit` reads
those of `LoaderGenerations`; `ArtifactTools` runs its campaigns over what
`TbTable` wrote; `DwarfLines` builds the denominator from the rows of
`LineProgram`; `ObjectResolution` starts from the snapshots of
`LoaderGenerations`, as values of a constant; `CoverageInfo` takes blocks, matched edges and
executions from `ControlFlow`; `ArtifactWriter` instantiates `AtomicArtifact`
through a refinement mapping. `ReportPromises` and `CoveragePromises` hold the
properties of the modules they extend. `MC*` modules give values to the
constants and contain nothing else.

Every safety property that a passing run checks is the subject of a theorem
(section 6). Proofs still worth having: that the blocks of `ControlFlow` partition
the code; `JoinedRight` and `AggregateExact` for several reports at a time, once
those are modelled.

Definitions whose comment begins with "Mutant:" are not part of a model. Each
is a plausible wrong version of the definition that follows it, used to confirm
that a property notices the difference.


## 3. Modules and the code they model

**TcgRecorder** (with `TcgArtifact`). QEMU is the environment: for each vCPU
`EnterBlock`, `ReachInsn`, `Interrupt`, `Exception`, `IoRecompile`,
`CtxChanged` and `VcpuInit` choose what the guest does next, and each of them
performs the whole callback the plugin gets for it: `EnterBlock` calls
`TbEntryCallback` (count, edge, `tb_enter`), `ReachInsn` the per-instruction
and last-instruction callbacks and the flush, `Interrupt` and `Exception`
`vcpu_discon`. `prev_src, prev_valid, edges, exits, cur_tb, cur_tb_ctx,
cur_done, cur_ctx, ctx_tbs` are the fields of `VcpuState`; `tb_count,
insn_count, ctx_entries, ctx_switches, flushed` those of `CovState`; `settings`
is what `qemu_plugin_install` accepts. The variables `entered, reached, last,
ended, broken, entries, entry_ctx` are history: what the guest really did,
which the plugin never sees. A callback is one step, because QEMU delivers
callbacks of a vCPU one after another in its own thread, a slot is touched by
its own vCPU alone, and the shared counters are atomic adds; the exception is
the flush, which `FlushAlone` is about. Instructions are one address wide here;
`TbTable` has their sizes. `TcgArtifact` defines what the artifact of the
current tables says (`BlockCount`, `ExitCount`, `Expanded`).

**ArtifactWriter / AtomicArtifact**. One action per call of `write_artifact`
and `open_tmp`: `OpenTmp`, `Write`, `Flush`, `Sync`, `Close`, `Rename`,
`Unlink`, with the failing outcome of each (`OpenFails`, `WriteFails`,
`RenameFails`, and failing disjuncts of the others), `StartFlush` and
`StartExit` for its two callers, `Kill` and `HostDies`. The file system is external:
names point to inodes, `stdio` may hold back pieces until `fflush`, and an
inode that was not synced may lose any piece when the host dies. Refinement
mapping: `visible` is `Shown(dir[Dest])`, the writer whose complete output the
name shows. `flush_done` is the `flushed` of `CovState`, as the writer sees it.

**TbTable / ArtifactTools**. `Collect` is `collect_tb_table` (merge, sort, exits
by position), `Check` is `unpack_tb_table`, `StartEntry`, `ExpandInsn` and
`Finish` are the loop of `expand_tb_records`, one instruction at a time. When
the expansion is done, `ArtifactTools` lets a user run commands over the
artifact: `Extract` (`contexts --extract`), `Slice` (`modmap`), `Rebase` and
`Scrub`. A command reads its input whole (`Readable`, `AllRecs`, `AllEdges`) and
leaves its outputs in `writing`; `Finish1` completes the next one, `Killed` cuts
it short where a section begins or before the last unit. A file is a header with
offsets and sizes and a sequence of units, one per record, edge, table entry,
instruction size and exit; its `scope` is history, the part of the run it is
meant to describe. `Scrub` alone writes to a temporary. Sums over contexts and
translations are `SumFunction` and `SumFunctionOnSet` of a function, the form
the laws of `DataTheorems` are about; `InOrder` and `Windows` put a set in the
order in which the code goes through it.

**LoaderGenerations / RtlSplit**. The guest's loader is external and modelled
as far as the plugin relies on it: `BeginLoad`, `Link`, `StartConstructors`,
`BeginUnload`, `Unlink`, `Finish`, under the loader's lock. `NotifyState` and
`NotifyLoad` are the plugin's `vcpu_rtl_state` and `vcpu_rtl_load` with the
execution of the hook that triggers them; `Execute` runs a block and records it
with its tag. `RtlSplit` defines windows, slots, slices and kept edges of
`rtl.py` `split` over the records so far.

**ObjectResolution**. `ResolveNext` resolves the next object of the next
generation of an artifact, through the memo of `split`; `resolve`, `_pick`,
`verify`, `content_check` (`Differs`), `relocation_mask` (`Mask`), `full_name`
(`NameIn`) and `elf_index_for` are operators named after the code. `verify` has a
third outcome besides a match and none: `Raises` says when it ends in an
IndexError (disagreement 20). `Traceback` is the step that such a file on the
path (`Raised`) makes instead of `ResolveNext`: the command dies. `Attribute`
makes the slots, `WriteSlice` writes one of them, `Done` turns to the next
artifact and updates the exit status. Files are sets of sections with a few
bytes; the loader rewrites the bytes of a relocation; the plugin's snapshot may
have names cut short or no bytes. The order in which slots are written is left
open, where the code sorts them by the path of their file.

**LineProgram / DwarfLines**. The assembler is external: `OpenSequence`,
`AssembleRow` and `CloseSequence` decide what the next row says and put one of
the ways to encode it (`Ways`) in `code`; `SpecialOpcode`, `StandardOpcode`,
`EndSequence`, `SetAddress`, `DefineFile` and `OtherExtended` are the branches
of `_run_program`, one opcode a step. `meant` has what was decided, `rows` what
was read. `StartUnit` is `_parse_header`. `WalkUnit` is one unit of
`iter_inline_call_sites`, with at most one inlined call in it, described in one
of the ways a compiler has (`Dies`, `Lists`). `Inventory` is
`iter_coverable_lines` and `dwarf_inventory`. An address is a number with, in a
relocatable object, the section its relocation names. What the tools that write
these sections guarantee is assumed by name. `PlaceAssumption`: live sections of
an image lie apart and beyond any discarded code at address 0.
`HeaderAssumption`: special opcodes begin at 10 (DWARF 2) or later, and what a
program has in between its rows is a sequence of whole instructions that say
nothing about rows (`Skipped`, `AfterSkipped`). `CallAssumption` and `SymbolAssumption`: ranges and functions
lie within their section, no address is the one of all ones, and a function has
a name. `AssembleRow` keeps a row's instruction within its section; `Within`
says when a compiler may give a range relative to a base: in an image, when it is
not before the base.

**ReportPool / ReportPromises**. A thread's program counter `pc[w]` follows
`_process_one` through the keyed locks (`Acquire`, `EnterCache`, `Build`,
`Save`, `Release` are `disasm_for` and `coverable_for`); the main thread is
`Start`, `Cancel`, `Abort`, `Conclude`, `Merge`, `_genhtml`. `Save` and `Build`
are separate steps, so a kill can fall between the temporary and its rename. A
behaviour is a series of commands over one `--out-dir`; `fate` says which calls
of a command fail or raise. Files are records of what their producer read, so
that the properties can tell a right join from a wrong one.

**ControlFlow / CoverageInfo / CoveragePromises**. `ControlFlow` has leaders,
blocks, branch points and the matching of edges of `cfg.py`, and the executions
of a small program as the recorder sees them (`Executions`: every path, with
translation blocks cut anywhere). `Listing` says what a disassembly is like: sorted,
instructions do not overlap, a delay slot follows its branch and is no branch. `CoverageInfo` has one action per command:
`RunCoverable`, `RunLcov`, `RunMerge`, `RunRestrict`, in any order over files
that earlier commands left, each with its failures and refusals. The bag
`parts` is history: the tests, with multiplicity, and the targets that a file was made
from.


## 4. Runs

| run | states | what it shows |
|---|---|---|
| `recorder` | 90k | One vCPU, every mode, edges on and off, contexts off and on: edge source, edges, exits and expanded counts are what the guest did. |
| `recorder_smp` | 113k | Two vCPUs in overlapping blocks, two of them the same code: the merged table expands to what both executed. |
| `artifact_writer` | 180k | Two processes over an earlier artifact, one with `flush_at=`, every call failing, death anywhere: the replacement is atomic. |
| `artifact_tools` | 150k | Pairs of translations of three overlapping codes with every early exit, read back exactly; over some of them every two commands, killed anywhere: records conserved, torn files refused, scrubbing harmless. |
| `rtl_split` | 267k | Three objects over the same addresses: every run and transfer is in the slice of its own object. |
| `report_pool` | 117k | Two commands, two threads, every kind of failure and a kill: caches, joins, outcomes, output, aggregate, termination. |
| `coverage_info` | 105k | Two programs, every small execution, every campaign of four commands: lines, branches, functions, denominators. |
| `object_resolution` | 159k | Up to three files on `--obj-path` against six campaigns of loads: the right file, never a wrong one, a truthful status. |
| `dwarf_lines` | 2.4M | Every small line program in every encoding, with inlined calls and bad units: rows, call sites, denominator, functions. |
| `flush_user_threads`, `report_glob`, `slices_overwritten` | | Counterexamples: section 5. |

**Bounds.**
- `recorder`: blocks A (three instructions), A1 (its tail, where an abandoned A
  resumes or a branch lands), H (a handler) and X (outside the filter), three
  block entries (`MaxEntries`), two context switches (`MaxSwitches`), contexts
  0 and 1. Every property relates at most two consecutive block entries and
  what comes between them; three entries let a wrong state left by one block
  show in the second and survive to the third. The filter leaves out a whole
  block; what happens when it cuts through one is in section 5.
- `recorder_smp`: two entries per vCPU of A, A1 and a second translation of
  A1's code, mode `tb` with edges. Slots are disjoint, so two vCPUs suffice for
  any interference between them.
- `artifact_writer`: two processes, two pieces. Two pieces are enough for a
  file to be partly written, and for `stdio` to have handed over some and held
  back others.
- `artifact_tools`: two translations, contexts 0 and 7, counts up to two
  (`MaxCount`). Codes include two of the same start and length with different
  instructions, and one that starts inside another. Commands (`MaxCommands`, two)
  follow the runs in `Campaigns`: the same code in two contexts, overlapping
  codes in one context left early, code in one context only; recorded in every
  mode, with and without edges. Two file names, so that a command may write over
  its own input, and three maps: two adjoining sections, one with an empty
  section, one that overlaps itself. Two commands show any effect of one on the
  output of another.
- `rtl_split`: one vCPU; object oa at two bases, overlapping ob; oc without a
  host file; oa's second section not matchable; with and without the
  per-object hook; three loader calls (`MaxCalls`), two blocks run (`MaxRuns`).
  Three calls are load, unload and load over the same addresses, the shortest
  history in which the generation matters. `RTL_MAX_OBJS` is above the number
  of objects, which the properties assume: the cap only removes objects from the maps.
- `report_pool`: three command lines (two threads sharing ELFs, with an
  artifact named twice and a second one of the same basename; two threads over
  slices with `--elf`; a serial report with other options), two commands in a
  row (`MaxCommands`), with fourteen single failing calls and three pairs, or one
  kill or rebuild (`MaxUpsets`), which are not combined with failing calls. Two
  threads suffice for a race on one key. The only effect of a rebuild is that
  cached files become stale (section 5, 4).
- `coverage_info`: e1 with a delay slot and a rotated loop, e2 with the same
  function inlined, an extra condition and an indirect branch. Executions of at
  most seven and four instructions (`MaxInsns`) that leave the code, translation blocks cut at one
  place at most; four commands that wrote a file (`MaxCommands`), two `.info`
  files, which are interchangeable (symmetry), and merges of two names, equal ones
  and missing files included (`Inputs`). Four commands reach a merge of a merge
  and a merge of a restricted file.
- `object_resolution`: files in five places: at the loaded path in two
  directories, elsewhere, under a suffix, in an archive. Any two files
  (`MaxFiles`) of ten kinds of object and of no object; any three (`MaxRivals`)
  of the four kinds that can rival each other for one load: the stripped object,
  its twin with DWARF, that twin with other lines, a rebuild. Campaigns of at most two loads or two
  artifacts: an object and its rebuild, the same object under two paths, one
  with two sections of one name loaded twice and run once before an artifact of
  another, one without recorded bytes, a missing object before
  or after one that is found, names cut short. With the sections of one name and a
  file that has only the first of them on the path, `verify` raises. Three files are a match, a rival
  and a better match; two loads are what the memo can confuse.
- `slices_overwritten`: the same with two files and two machines.
- `dwarf_lines`: two live sections and a discarded one; images with or without a
  section asked for, and relocatable objects. Two units with two rows between
  them, or with one row and one inlined call and any unit bad. Rows advance by 0
  to 2 operations and have line 0 or 2; special opcodes really end at 255. A
  DWARF 3 header with two-byte instructions and files defined by the program; a
  DWARF 5 header with two operations to a word, files counted from 0 and an
  opcode nobody knows; noise opcodes before each row. Two rows are enough for
  each register to be carried from one row to the next, over an end of sequence,
  or over units; a call has at most two ranges. Live code begins where the
  discarded code ends, and no live function at its first place, so that the
  symbols of discarded code are the nearest there.

**Deadlock.** It is not reported as an error in `artifact_writer`,
`artifact_tools`, `rtl_split`, `report_*`, `coverage_info`, `object_resolution`,
`slices_overwritten` and `dwarf_lines`: there processes exit, the reader is
done, or the bound on commands is reached. In `recorder` and
`recorder_smp` an interrupt can always arrive, whatever the bounds, and TLC does
look for deadlocks.

**Fairness.** Only `ReportPool` assumes any: weak fairness of every worker
thread and of the main thread, for `Terminates`. The operating system schedules
runnable threads, and a called tool returns, well or badly. Starting commands,
kills and rebuilds are not fair. Guests, writers, tools and users may stop
anywhere, so no other module has fairness and no liveness is claimed of them.

**Refinement.** `ReplacedAtomically` is `Atomic!Spec`, checked by TLC in
`artifact_writer` and proved in `Plugin_proofs`.


## 5. Known disagreements

Where the code does something its own documentation or comments rule out, or
loses what it says it keeps. The first three are runs that end in a
counterexample; 4 to 9 are definitions that TLC also finds violated, on the
instances named; the rest was met while modelling.

1. `flush_user_threads` (`tcgcov.c:2371`). `flush_at=` is refused with several
   vCPUs only under system emulation. In user mode every guest thread is a vCPU
   and the flush walks tables another thread is inserting into, which the
   comment at line 2368 says must not happen.
2. `report_glob` (`merge.py:116`). `report` hands its per-test paths to `merge`,
   which expands each as a pattern: `t[1].info` matches `t1.info`, one artifact
   is counted twice and the other lost, with status 0. `report.py:262` describes
   that very loss as what its naming prevents.
3. `slices_overwritten` (`rtl.py:974`). Slots are kept apart by the path of the
   resolved file, slices by its basename and the md5 of its contents. One object
   loaded under two paths, with a copy of its file at each, gets two slots and
   one name: the second slice replaces the first, whose records are in no output,
   while the status is 0 and the summary lists both. `rtl.py:1020` says "nothing
   dropped without a line saying so".

Definitions without a run of their own:

4. `report.py:352`: a cached inventory or disassembly is taken whenever it is
   not empty, so after a rebuild the new covered lines are joined with the old
   inventory. `README.md:323` says an inventory depends only on the ELF,
   `report.py:335` that an ELF is disassembled once per run. `OneBuild` of
   `ReportPromises`, with `MaxUpsets = 1` and `Fates <- NoFates`.
5. `tcgcov-rtems.c:262`: a loader event changes only the tag of the vCPU it ran
   on. The other one keeps its old generation, and what it runs of a new object
   is credited to an unloaded one. Line 238 says records tagged N were executed
   while map N was live; `docs/RTEMS-DL.md:284` announces an assertion that is
   not there. `NothingInvented` of `RtlSplit`, with two vCPUs, objects oa and ob
   and `Lost <- MCLost`, `Bases <- OneBase`. For one vCPU it is proved
   (`NothingInventedCorrect`).
6. `tcgcov.c:2017`: the copy `flush_at=` writes comes from inside a block that is
   counted and not exited, so every later instruction of that block is expanded
   one too high. `docs/FORMAT.md:732` promises exact counts of every artifact
   with a TB table. `FlushedExpansionExact` of `TcgArtifact`, with `FlushOption`.
7. `tcgcov.c:961`: a resuming block that the filter leaves out has no callback,
   so the exit of the abandoned one is not recorded then: the filtered counts
   are too high, or too low where a later interrupt, taken at an address the
   abandoned block had passed, is recorded as its exit. This is against `docs/FORMAT.md:732`. `FilteredExpansionExact` of
   `TcgArtifact`, with the filter `OnlyAHead` of `MCTcgArtifact`.
8. `tcgcov.c:575`, `:698`: a vCPU beyond the slot table counts its blocks and
   loses its early exits, so counts come out too high; `tcgcov-internal.h:124` and
   `docs/ARCHITECTURES.md:708` say only edges are lost and nothing comes out
   wrong. `FilteredExpansionExact` again, with `UserOption` and a smaller
   `VcpuCap`. `ExpansionCorrect` assumes that neither 7 nor 8 happens (`Covered`).
9. `tcgcov-linux.c:64`: a context switch withdraws the pending source, so an
   edge a run without contexts records is missing; `docs/FORMAT.md:712` says
   that collapsing the contexts reproduces exactly what such a run records.
   `CollapseKeepsEdges` of `TcgRecorder`, with `CtxOption`.
Met while modelling:

10. `format.py:530` says of the edge flag that an artifact without edges "must
    not read as an edges=off run", and has `edges_recorded` for it; `contexts
    --extract`, `modmap` and `rebase` do not pass it on, so a context or window
    without edges reads as recorded without edges.
11. `modmap.py:136`: a map that names one object and section twice, or two whose
    names become the same file name, has the second slice replace the first while
    both are counted as matched; `rtl.py:777`, where the same may happen to two
    section names.
12. `rtl.py:921`: an edge between two sections of one object is dropped like one
   between two objects, and `print_summary` prints the count of neither, against
   its docstring (`rtl.py:1020`, "nothing dropped without a line saying so").
13. `coverable.py:150`, `dwarfline.py:531`: the DWARF inventory names an inlined
    line with the function that contains it. The code calls this cosmetic;
    `restrict` also selects functions by these names. `FunctionsShown` is
    therefore stated relative to the inventory that was used.
14. `merge.py:147`: an input whose reading fails half way is announced as
    skipped, but what was read stays in the sums (section 8).
15. `rtl.py:353`, `:367`: a candidate with more sections of one name than were
    loaded is not compared there (`elf_index_for` finds no partner), and one is
    accepted without a note that its contents were not checked when the artifact
    has no bytes at all, although the note exists for the case that some are
    missing. `CodeThatRan` is therefore stated of sections that have a partner.
16. `dump.py:109`: the temporary of a scrub has a fixed name, so two scrubs of
    one destination at a time may blend; `open_tmp` of the plugin has a comment
    on why a fixed name is wrong. `rebase`, `modmap` and `contexts` write in place:
    a killed one leaves a file that is refused (`TornRejected`), and has lost what
    was there before.
17. `dwarfline.py:1371`: in an image with an executable section at address 0,
    discarded code, relocated to near 0, counts as live; the comment at
    line 1355 has it left out. `PlaceAssumption` rules the case out.
18. `dwarfline.py:1380`: a row of line 0 is left out before the last row of an
    address is chosen, so the row before it stays in the denominator, where
    `addr2line` reports no line; line 1353 says "Per address the last line-table
    row (what addr2line reports)". `Nameless` in `DenominatorExact`.
19. `dwarfline.py:1296`: the header is parsed anew for the call sites, without
    the files that the line program defined (`DW_LNE_define_file`), so a call
    site in one of those is dropped. `CallFile` looks in the header's files only.
20. `rtl.py:591`: `verify` takes each matched size out of the sizes of its name.
    When an object has more sections of one name than a candidate, nothing is
    left for the next one, and `sizes[0]`, which is for the message, raises an
    IndexError. `rtl.py:575` says "None if every loaded section matches the
    candidate, else a reason". Nobody catches it: `run` catches OSError and
    ValueError only, and so does `report.py:552`. So one stale file of the name
    anywhere on `--obj-path` ends the command with a traceback and status 1, and
    this artifact and the later ones have no slices, even when the true file is
    on the path too. `Traceback` of `ObjectResolution`, which `object_resolution`
    takes: the loaded object has sections `.text` of 1 and 2 bytes (`Comdat`),
    the file on the path one of 1 byte (`Shorter`). With a file whose
    one `.text` has another size the same object is refused as promised
    (`Rebuilt`).


## 6. Proofs

TLAPS checks every theorem to the last leaf, for every value of the constants
that the named assumptions allow. The bounds of the models (`MaxEntries`,
`MaxCalls`, ...) are constants too, so the theorems hold for any of them.

| module | theorem | property |
|---|---|---|
| `Plugin_proofs` | `TypeCorrect` | `TypeOK` |
| | `PendingSourceCorrect` | `PendingSource` |
| | `EdgesCorrect` | `EdgesExact` |
| | `ExitsCorrect` | `ExitsAccount` |
| | `ExpansionCorrect` | `ExpansionExact` |
| | `WriterTypeCorrect` | `WriterTypeOK` |
| | `PublishedWholeCorrect` | `PublishedWhole` |
| | `TmpRemovedCorrect` | `TmpRemoved` |
| | `ReplacementIsAtomic` | `ReplacedAtomically` |
| | `ModeKeptCorrect` | `ModeKept` |
| | `LastIsExitCopyCorrect` | `LastIsExitCopy` |
| `ArtifactTools_proofs` | `ExpansionMatchesCorrect` | `ExpansionMatches` |
| | `TableAcceptedCorrect` | `TableAccepted` |
| | `ToolsReadTable` | both, with the tools running |
| | `TornRejectedCorrect` | `TornRejected` |
| | `ConservedCorrect` | `Conserved` |
| | `ScrubKeepsCorrect` | `ScrubKeeps` |
| `RtlSplit_proofs` | `MapInForceCorrect` | `MapInForce` |
| | `SlicesExactCorrect` | `SlicesExact` |
| | `BaseExactCorrect` | `BaseExact` |
| | `SliceEdgesExactCorrect` | `SliceEdgesExact` |
| | `LoadedReportedCorrect` | `LoadedIsReported` |
| | `NothingInventedCorrect` | `NothingInvented` |
| `ReportPool_proofs` | `CacheExactCorrect` | `CacheExact` |
| | `InventoriedOnceCorrect` | `InventoriedOnce` |
| | `JoinedRightCorrect` | `JoinedRight` |
| | `FailureKeepsAggregateCorrect` | `FailureKeepsAggregate` |
| | `ExitStatusCorrect` | `ExitStatus` |
| | `AggregateExactCorrect` | `AggregateExact` |
| | `OutputInOrderCorrect` | `OutputInOrder` |
| | `OutputExactCorrect` | `OutputExact` |
| | `BranchesShownCorrect` | `BranchesShown`, which no run repeats |
| `ObjectResolution_proofs` | `ResolvedAsPromisedCorrect` | `ResolvedAsPromised` |
| | `VerifiedCorrect` | `Verified` |
| | `ExitTruthfulCorrect` | `ExitTruthful` |
| | `TrueFileMatchesCorrect` | `TrueFileMatches` |
| | `CodeThatRanCorrect` | `CodeThatRan` |
| `CoverageInfo_proofs` | `LinesExactCorrect` | `LinesExact` |
| | `FunctionsShownCorrect` | `FunctionsShown` |
| | `HonestDenominatorCorrect` | `HonestDenominator` |
| | `MatchExact` | edges and outcomes of one execution |
| | `BranchesExactCorrect` | `BranchesExact` |
| `DwarfLines_proofs` | `LineInvariant` | the reader, byte by byte |
| | `RowsExactCorrect` | `RowsExact` |
| | `CallInvariant` | the walk, unit by unit |
| | `CallSitesExactCorrect` | `CallSitesExact` |
| | `InfoInvariant` | both, with places and inventory |
| | `DenominatorExactCorrect` | `DenominatorExact` |
| | `FunctionsRightCorrect` | `FunctionsRight` |

**Recorder** (from `RecorderAssumption`: naturals, non-empty blocks, context 0
among the contexts). A step changes one vCPU; `OthersUntouched` disposes of all
others, so the arguments are about one slot. *Pending source*: the property
alone is not inductive, because reaching the last instruction sets the source
and must find `ended` false; `PendingInv` adds `UnderWay`, that no instrumented
block under way has ended. *Edges* follow from `PendingInv` step by step: an edge
is added on entry exactly when the source is valid. *Exits*: `ExitsInv` adds to
the balance that the slot and the guest agree on what is under way.
`OpenIsCurrent` says that the block a slot believes unfinished is the one the
vCPU is in, or the one it abandoned and is about to resume; without it an entry
could be taken for an exit of the wrong block. `CurrentIsOpen` is the converse,
without which an interrupt would leave an execution unaccounted for.
`ExitsAccount` has the premise `FilterAligned`: no filter boundary cuts a block
(disagreement 7), and `HaveDiscon`: QEMU reports interrupts and exceptions.

**TB-table artifact** (from `Covered`: finitely many vCPUs and blocks, every vCPU
in the slot table, `FilterAligned` and `HaveDiscon`; disagreements 7 and 8 say
what happens without). `CountsInv` says that the tables count every entry of an
instrumented block and nothing else, per context with `ctx=on` and in context 0
without. What the reader has left of a table entry at an address is its count
less the exits at or before that address (`LeftAt`). The proof is an induction
on the address: from one address to the next, what is left shrinks by the exits
recorded there, and what has been reached by the executions that ended there;
`ExitsInv` says these are the same, up to executions still under way
(`StillToReach`), and the sum over vCPUs and translations follows from
`DataTheorems`.

**Writer** (from `WriterAssumption`: the names and contents are distinct, and
there is a process).
`WriterInv` has `Holding`, that a process with a stream has its own inode and
name and has not published it; `Progress`, how much of its output its inode
holds, all of it from "sync" on; that an inode about to be renamed is synced;
and `Kept`, that everything `out=` has ever named is whole and on disk. The last
is what a dead host needs: it may come back with any former file. The refinement
is proved for `SyncSupported`; where `fsync` does nothing, a dead host may show
less, and `PublishedWhole` says so in its premise. *Permissions*: `artifact_mode`
reads those of whatever `out=` names at that moment, perhaps of another process's
copy, so `ModeInv` says that everything `out=` has named has them, and every
temporary too. *Last copy*: `LastInv` adds that a process at its end has
published its exit copy and that no flush copy stands on `out=` once the exit
copy of its process has been there.

**Loader** (from `LoaderAssumption` and one vCPU; with two the theorem would be
false, disagreement 5). `MapInv` has `Tagged`, that the tag is the current
generation; `Apart`, that objects on the chain overlap neither one another nor
anything in the current map; and `Fresh`, that while objects may be added the
map holds nothing that has left the chain, so that an address freed and reused
between two notifications is never claimed by the map; and `AtRest`, that the
loader's lock is released in the consistent state only.

**Slices** (from `LoaderAssumption`, `SplitAssumption`, one vCPU, and `Capped`:
that the objects fit the snapshot, which keeps `RTL_MAX_OBJS` of them; beyond
it code is left unattributed, and `NothingInventedCorrect` holds without it).
`SplitAssumption` says what `rtl.py` and the object format see to: a section is
a run of bytes, the sections of an object do not overlap (`split` refuses
windows that do, `rtl.py:852`), and names and files are given for each object.
`ChainInv` and `KnownInv` strengthen `MapInv`: an object that may run is on the
map in force unless nobody announced it, and neither the chain nor the map gives
one address to two objects. So every record is read back either as the
instruction that ran or as code of no map (`Agrees`), at the moment it is made;
a map once recorded does not change (`Tallied`), hence forever. `Pending` says
the same of the source of the next edge. Each step then adds as much to the
slices as to what ran (`ChainStep`, `SplitStep`).

**TB table** (from `TbTableAssumption`: finitely many translations, contexts
and codes, a code is a start and a non-empty sequence of positive instruction
sizes). `TbsRight` has the type of a translation, and that its exits are within
its extent and no more than its executions. The table is a sequence of entries,
one per context and code that ran, in the order of `tbagg_cmp`; that order is
shown irreflexive, transitive and total on keys that hold their own length
(`LessTotal`), so an entry has one position and an exit names one entry.
`WalkInv` follows the reader: what it has put out is what the entries before
the current one give and what the instructions before the current one of this
entry give (`Sofar`); what it has in hand for the entry (`InHand`) is the exits
beyond the last instruction, and a count that is the entry's less the exits up
to there (`Reach`). At the end every entry has been walked, and the sum over
entries regrouped by translation is `Executed`. `TableAccepted` follows because
what `unpack_tb_table` refuses, an exit that names no entry or one of another
context, start or size, is not in the table.

**Files** (from `ArtifactToolsAssumption`: "run" is a path, bases, sizes and
moves are naturals, the edges of a run are finitely many with positive counts,
a map has finitely many windows). `FilesInv` says that every file is absent or
a prefix, perhaps all, of a file written whole: its header lays out five
sections one after another. A file cut short holds less than its header
announces, which `parse_header` notices whatever sections are empty
(`UnfinishedRefused`); so a torn file is never read. *Conserved*: the property
speaks of the files that are read; it is not inductive, because a command reads
a file, works out its outputs and writes them in later steps, between which a
kill may come. `SaysInv` says of every file and of every output not yet written
that it is told as its scope requires (`Told`), either as the plugin writes it
(`Original`: records per context, or the table and its exits) or as the tools
do (`Plain`: records and edges summed over the contexts of the scope and moved
by its delta), unless the file is absent or cut short. `Did` is what the guest
did per context and address; `Said` and `SaidE` what a scope makes of it. The
readers make the same of both forms (`OriginalRead`, `PlainRead`), and what
each command puts out is told of the smaller scope: a window of a window is a
window (`NarrowedIs`, `WindowSays`), one context of all is what that context
did (`ExtractSays`), and `RebasedTold` and `ScrubbedTold` are about the other
two. What the readers add up, record by record, are the same sums as over
contexts, because a file has one record per context and address (`SumOfImage`).
*Scrub*: a step that changes a file in place by a scrub replaces it by one that
is told alike (`ScrubStep`), so its coverage is that of before.

**Sums and order** (`DataTheorems`, no assumptions). The library has no law for
`MapThenSumSet` or `SumFunction` but by induction with an operator parameter.
Here a sum over a finite set of a function to naturals is defined as a number
of tokens, a cardinality, for which the laws are set theory: disjoint unions,
one summand changed, renaming by a bijection, rows of a grid. `SolutionIsSum`
shows that the recursive definition has no other value, by looking at a
smallest subset on which it would have one (`SmallestSubset`), which needs no
operator parameter. `LeastNat` serves the inductions on naturals.

**Report** (from `ReportAssumption`). `CacheInv` has `BuilderAlone`, that
whoever builds an entry holds its lock and the entry is still missing;
`TmpRight`, that what lies in its temporary is the output for the key it builds;
`EntriesRight`, the property itself in terms of outputs; `MadeOnce`, that what
was built in a command is there, so nobody builds it again. A kill does away with
the threads and keeps the files; that it leaves no partial entry
follows from publication by rename alone. The next command resets `made`.
`JobInv` is about a whole command. `JobsApart`: no two threads work on one
artifact and none on one that is decided, which with names told apart by `crc32`
makes the files under a name those of its own thread. `Staged` says what a thread
has written by each of its stages and `Joined` what is left of it in an artifact
that is done; the directory may hold anything of earlier commands until a thread
has overwritten it. `Verdict`: while a thread is at work the main thread cannot
conclude. One fact is assumed, `CollectedAssumption`: that `_collect_covs` and
`_split_rtl` give a sequence of artifacts without repeats. Both are folds
over the command line, whose laws need induction; TLC evaluates the assumption for every
command of the instance. `StatusInv` compares with a serial run: a thread at some
step has seen every call before it succeed (`Passed`), or has found in a cache
what such a call built, of this command or an earlier one (`CacheEarned`); so the
call that ends its artifact is the first that fails in order (`EndsHere`), and
`Told` turns the outcomes into the status phase by phase.

What is merged and shown needs one hypothesis more, `NoPatterns`: that no
output name, read as a glob pattern, matches another. Without it the two
theorems are false, as `report_glob` shows (disagreement 2); the instance of
`report_pool` satisfies it. `MergeInv` then says that the aggregate has the
files of the artifacts that succeeded, as many as those because their names
differ, and each taken once (`MergedOnce`, `ResultsCounted`). `BranchInv` follows
the counter `branch_infos`: a thread that has raised it ends with a result that
has branches, or with a failure, after which nothing is rendered.

What is printed holds without that hypothesis. `OutInv` gives every artifact a
voice, what its thread has said of it so far: it is in the thread's buffer, then
in `text`, and in a serial run on stderr after the voices of those before it
(`Telling`). A voice has no last line until its artifact is decided, and of all
voices exactly one has a note that was given, unless an exception lost it
(`VoicesRight`). Every step of a thread adds to one voice (`Speaks`,
`SpeechStep`), and the main thread concludes only when every voice is complete,
so what it prints are the voices in input order (`ConcludeOut`). That a line
which occurs once in one voice occurs once in all, and that the positions rise,
are laws of `FlattenSeq` (`FlattenOnce`, `FlattenRising`, `FlattenMore`). They
are proved by looking at a least prefix on which they would fail (`UpFromOne`),
from the recursive function the operator is defined by (`FlattenUnfolds`).

**Object resolution** (from `ObjectResolutionAssumption`). A resolution is right
when it is made; what has to be shown is that the memo gives it back for no
other load. The invariant says that everything remembered under a name and a
snapshot was verified against that snapshot, and that every window so far has
such a resolution. With the name alone as key it would not be inductive. What
`resolve` settles on is compared with the promise in `PickRight` and `ExactRight`:
a pool that `_pick` accepts has one content in one class of files, with DWARF or
without, and a search stopped early at the exact path agrees with the full one
because the files it did not look at could not have changed the choice. The
status is right artifact by artifact, from the kinds of failure seen so far, and
is 1 after a traceback. `ResolvedAsPromised` is about the answers that `resolve`
gives; where `verify` raises there is none, and nothing is written.

What a match is worth rests on positions. The loader places the allocated
sections of a file in index order, so the n-th placed section is the `Nth`
position; `NthOnly` and `NthExists` say that rank and position determine each
other. Hence the true file finds each section at its own place, repeated names
included (`IndexItself`), every relocated byte lies under the mask
(`TrueFileSame`), and `verify` never counts more sections of a name and size than
the file has (`TrueFileVerifies`), so it neither refuses the true file nor raises
on it. Conversely `SliceInv` keeps, for each record
in a slot, that its object was resolved and that the slot is the one of its
section. A section whose name is repeated was compared at the index in the slot;
one that alone has its name, in the snapshot and in the file, was compared too,
because `verify` has made sure that the sizes agree (`OnlyOneFound`). The
assumption says of files what ELF and the loader guarantee: finitely many
sections, and none called `.common.rtems`, the name that the loader makes up
for the common symbols.

**Source side** (from `CoverageAssumption`: a program is a finite listing some of
whose addresses have a line, a frame has a function, a file and a line, a test
executes instructions of its program, `merge` is given a sequence of names). The
promises speak of the bag of parts a file was made of, and are inductive once
they are said of every file at once: `FileRight` has the lines and counts
(`LinesRight`), the functions (`FunctionsRight`: a function counted was run by
some part all of whose targets have it, and is also listed, or `restrict` could
lose it) and the denominator
(`DenominatorRight`), and `InventoryRight` says that an inventory has all lines
of its program, by objdump or by the line table. The count of a line in one test
is a maximum of maxima over the frames at it (`CountAtIs`); `lcov` is right for
one part. `merge` is proved right one input at a time (`MergeStep`, `MergeRight`);
that a line executed by both sides adds up is `TimesPlus`. Restricting maps the
parts: those that become equal add their multiplicities, and the sum regrouped
by what they became is the same sum (`SumParts`, `TimesNarrowed`).

**Branches** (from `ExecutionAssumption` and `OriginAssumption` too). `MatchExact` is about
one execution of any listing, in translation blocks cut anywhere. `GuestInv` is its
inductive invariant, instruction by instruction (`ExecutionsRight`). `AsOften` is
what is wanted: the edges that `match_edges` gives an outcome, which leave from
the branch, or from its slot, are as many as the guest went that way. An edge
is recorded on entering a block, before the branch behind it has had its effect if
the block was cut between the branch and its slot; so it takes `OnItsWay`, that an
outcome that is due leads where the processor is going, and `NoneForgotten`, that
behind a branch an outcome is due. `Placed` keeps slots and straight lines apart:
nothing jumps into a slot, which `Listing` assumes of compiled code, together with a
branch that does not jump to where it would go anyway. A branch of another block
gets none of these edges, because instructions do not overlap (`AddressesApart`) and
`block_end` is the branch or its slot.

`load_branches` adds up records of one name in a fold over a set; the fold is
shown to have a closed form, `Dash` where no record of that name has been evaluated
and the sum otherwise (`FoldIsClosed`, by looking at a least set on which it would
have another value). `BranchesRight` is the conjunct of `FileRight` that says this of the parts
of a file: `Settled` where a part that counts decided the branch, and then `Flow`. It is
kept by merging and restricting as the lines are. What is left is that two
programs mean the same branch by one name. `block_number` promises that "a branch that
survives into several binaries keeps jumping to the same line", and that is what
`OriginAssumption` asks of the programs; `NamesAlike` concludes that names are alike. With the
rank of a branch for its name this would not follow, and `BranchesExact` fails.

**Line programs** (from `PlaceAssumption` and `HeaderAssumption`). `RowsExact`
speaks of the moments at which the reader has read everything; in between it is
false, so it is not inductive. `LineInv` has a case for each kind of moment.
Between sequences the reader has read all and its registers are reset
(`Resting`); while one is opened they lead to its start (`Opening`). In an open
sequence with nothing left to read they are those the assembler counts with
(`Waiting`, `Due`): the address is the start and as many words on as there were
operations, and `op_index` what is left of a word. Inside a row's program
(`Adding`) the reader is about to define its file, to choose it, to pass the
noise, or within one of the seven ends a program can have (`WayLeft`), and what
is left to read leads to `Due`. `Closing` is the end of a sequence. That the
encodings agree is arithmetic of words: advances add up whatever operation of a
word they begin with (`WordsAdd`, `Advanced`). Noise is passed from one
instruction to the next without touching a register, because its starts are a set
that is closed under `AfterSkipped`.

**Inlined calls** (from `CallAssumption` too). `CallInv` says that the sites are
those of the calls described so far in units that could be read (`Described`).
What it takes is that every way to write ranges is read back: a fold over the list
is unfolded entry by entry, up from the empty prefix (`UpFromZero`), for lists of
one entry per range and of two, a base and a pair. Before DWARF 5 nothing in the
list may read as its end, which is why `Writable` is needed, and only an image
lets a range of one section be relative to a base in another.

**Denominator and functions** (from `SymbolAssumption` too). `PlaceInv` gives
each row a section and an offset: those of a section grow with the rows
(`Spread`), none is beyond what has been assembled of its section (`Reach`), and
an open sequence stands at the last of them (`AtEdge`). So a row reaches up to the
row after it, and of the rows of an address the last is the one `addr2line` uses,
unless that has no line (`Nameless`). That a
live address is a place of one section and no other comes from
`PlaceAssumption`. `DoneInv` keeps the inventory what it was computed from.
`FunctionAt` is the tightest of the functions that begin nearest before the
address: it is in the right section because functions lie within sections that
lie apart, and those of discarded code, which are listed too, end below every
live place.

TLC evaluates the assumptions in every run that extends the module.


## 7. What is only model-checked

- Everything with two vCPUs under a loader: it is false (disagreement 5).
- `Terminates`. Liveness under fairness and `ENABLED` are out of the prover's
  reach, as are theorems that need induction with an operator as parameter and
  modules with `RECURSIVE` operators.

The type invariants of the recorder and the writer are proved, and no run
repeats them.

Every property of a passing run has been seen to fail for a plausible wrong
version of some definition it depends on (`PROJECT.json`, "mutants").


## 8. What is not modelled, and why

Inside modelled components:

- *Recorder*: registration at translation time as a step of its own (it decides
  once which callbacks a block gets, `Instrumented`), and `phys=` addresses.
- *Artifact writer*: the bytes; an artifact is a number of pieces.
- *Loader hook*: failing reads of guest memory and the recorded section bytes
  (they make maps smaller), `dlopen` from within a constructor.
- *Artifact tools*: the bytes of a record, the JSON of the metadata, filters
  given to a reader, `edges_recorded` (disagreement 10), two commands at a time,
  the printing of `dump` and the listing of `contexts`.
- *rtl*: `RtlSplit` abstracts the search on `--obj-path` to its outcome and
  `ObjectResolution` the guest to one record per section that ran. Not modelled:
  parsing of ELF files and archives, snapshots of older plugins without offsets
  (`object_windows` reconstructs the layout), extraction of archive members,
  `rtems_args`, which prints addresses of symbols.
- *DWARF*: sections, abbreviations, forms, strings, DWARF 64 and compressed
  sections; `is_stmt`, columns and discriminators, which reach no row that is
  used; directories other than that of the unit; arithmetic of relocations;
  ELFs without a section table; nested inlined calls, which the code treats as so
  many calls.
- *Report*: what the sub-commands compute is external; `crc32` is taken to be
  injective on the artifacts of a command; an ELF is rebuilt between commands,
  not during one; two reports over one directory at a time are not modelled.
- *CoverageInfo*: path normalisation, demangling and instruction decoding (taken
  as given by `Frames` and `Code`), the warning of the cross-check, `genhtml`,
  artifacts without counts, and a read error in the middle of an input
  (disagreement 14).

Whole components:

- *ELF readers, records and metadata of artifacts*, *parsing of disassembly
  text*: decoding of bytes and text, about which small instances say little.
- *paths*: string rewriting; a model would restate it.
- *command line*, *examples*: no state.
- *gap*: the difference of two sets of lines, printed.
