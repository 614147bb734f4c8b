--------------------------- MODULE ReportPromises ---------------------------
(***************************************************************************)
(* What a report must be, whatever the threads of ReportPool do.           *)
(***************************************************************************)
EXTENDS ReportPool

Position(a) == CHOOSE i \in DOMAIN covs : covs[i] = a

(* CacheExact.  An entry of disasm/ or coverable/ is at all times the      *)
(* whole output for its own ELF, section and path options: a killed        *)
(* report, or one whose tool failed, leaves nothing a later one would take *)
(* for an inventory (_nonempty, _write_atomic, coverable_for).             *)
CacheExact ==
  \A k \in Keys : cache[k] # None =>
    /\ cache[k] # Partial
    /\ cache[k].elf = k[2]
    /\ k[1] = "coverable" =>
         /\ cache[k].section = k[3]
         /\ <<cache[k].dwarf, cache[k].paths>> = k[4]

(* InventoriedOnce.  However many artifacts link an ELF, its disassembly   *)
(* and its inventory are built at most once in a command, and never by two *)
(* threads at a time (_KeyedLocks).                                        *)
Building(w, k) ==
  \/ pc[w] \in {"objdump", "save_disasm"} /\ disasm_key(job[w]) = k
  \/ pc[w] \in {"inventory", "save_coverable"} /\ coverable_key(job[w]) = k
InventoriedOnce ==
  \A k \in Keys :
    /\ made[k] <= 1
    /\ \A v, w \in Workers : Building(v, k) /\ Building(w, k) => v = w
    /\ made[k] = 1 => \A w \in Workers : ~Building(w, k)

(* JoinedRight.  The covered lines lcov joins with an inventory are those  *)
(* of the same artifact, and both sides and the branches were produced for *)
(* the same ELF and section under the same path options, whatever earlier  *)
(* commands left in the directory (_target_of, _base_names, _Run.sig).     *)
JoinedRight ==
  \A a \in With(OK) :
    LET i == info[_base_name(a)]
        own == [elf |-> Recorded[a].elf, section |-> Recorded[a].section]
        want == IF Recorded[a].rtl THEN own
                ELSE [elf |-> IF cmd.elf # NoElf THEN cmd.elf ELSE own.elf,
                      section |-> IF cmd.section # NoSection THEN cmd.section
                                  ELSE own.section]
        Agrees(f) == /\ f.elf = want.elf /\ f.section = want.section
                     /\ f.paths = cmd.paths
    IN  /\ i # None
        /\ i.sym.artifact = a /\ Agrees(i.sym) /\ Agrees(i.cab)
        /\ i.br # None => i.br.artifact = a /\ Agrees(i.br)

(* ExitStatus.  How the threads are scheduled decides nothing: every       *)
(* outcome and the command's status are those of a serial run, one         *)
(* artifact after the other (_process_one, run).                           *)
Calls(a) ==
  LET e == _target_of(a).elf
      disasm == <<"disasm", e>>        symbolize == <<"symbolize", a>>
      coverable == <<"coverable", e>>  branch == <<"branches", a>>
      lcov == <<"lcov", a>>
  IN
  IF cmd.branches THEN <<disasm, symbolize, coverable, branch, lcov>>
  ELSE IF need_disasm THEN <<disasm, symbolize, coverable, lcov>>
  ELSE <<symbolize, coverable, lcov>>
Ended(i, calls) == How(calls[i]) \in {FAILED, RAISED}
SerialOutcome(a) ==
  LET calls == Calls(a)
      bad == {i \in DOMAIN calls : Ended(i, calls)}
  IN
  IF _target_of(a).elf = NoElf \/ How(<<"isfile", _target_of(a).elf>>) = FAILED
  THEN SKIPPED
  ELSE IF bad = {} THEN OK
  ELSE How(calls[CHOOSE i \in bad : \A j \in bad : i <= j])
SerialStatus ==
  LET all == {SerialOutcome(a) : a \in ToSet(covs)} IN
  IF \/ {RAISED, FAILED} \intersect all # {} \/ OK \notin all
     \/ How(<<"merge">>) # OK \/ (cmd.html /\ How(<<"genhtml">>) # OK)
  THEN 1 ELSE 0
Refused == commands = 0 \/ Unreadable(_collect_covs(cmd.given))
           \/ Conflict(_collect_covs(cmd.given))
ExitStatus ==
  /\ \A a \in ToSet(covs) :
       outcome[a] # PENDING => outcome[a] = SerialOutcome(a)
  /\ phase = "off" /\ rc # 137 =>
       rc = IF Refused THEN 1 ELSE SerialStatus

(* AggregateExact.  A command that ends with status 0 has merged the       *)
(* result of every artifact it was given, except those whose ELF is        *)
(* missing, exactly once, and nothing an earlier command left behind       *)
(* (_base_names, run, merge).                                              *)
AggregateExact ==
  phase = "off" /\ rc = 0 =>
    /\ \A a \in ToSet(covs) :
         IF outcome[a] = SKIPPED
         THEN How(<<"isfile", _target_of(a).elf>>) = FAILED
              \/ _target_of(a).elf = NoElf
         ELSE \E f \in DOMAIN aggregate.infos :
                /\ aggregate.infos[f].info.sym.artifact = a
                /\ aggregate.infos[f].times = 1
    /\ Cardinality(DOMAIN aggregate.infos) =
         Cardinality({a \in ToSet(covs) : outcome[a] # SKIPPED})
    /\ aggregate.whole /\ DOMAIN aggregate.infos # {}

(* FailureKeepsAggregate.  The aggregate is replaced only once every       *)
(* artifact has been processed and none has failed: a campaign with a      *)
(* failure never becomes a smaller aggregate (run).                        *)
FailureKeepsAggregate ==
  [][aggregate' # aggregate /\ kills' = kills =>
       /\ \A a \in ToSet(covs) : outcome[a] \in {OK, SKIPPED}
       /\ \E a \in ToSet(covs) : outcome[a] = OK]_vars

(* What an artifact prints stays in one piece and the pieces are in the    *)
(* order of the command line; none is lost, and a note appears once        *)
(* however many artifacts cause it (_FanOutStderr, note_once, _run_all).   *)
LastLine(a) == CASE outcome[a] = OK -> "lcov"
                 [] outcome[a] = SKIPPED -> "skipping"
                 [] OTHER -> "error"
Printed == phase \in {"merging", "rendering"}
           \/ (phase = "off" /\ rc # 137 /\ ~cancelled /\ commands > 0
               /\ ~Refused)
OutputInOrder ==
  Printed =>
    /\ \A i, j \in DOMAIN stderr :
         i < j => Position(stderr[i][1]) <= Position(stderr[j][1])
    /\ \A a \in ToSet(covs) :
         Cardinality({i \in DOMAIN stderr : stderr[i] = <<a, LastLine(a)>>}) = 1
    /\ \A what \in {"absent", "no profile"} :
         Cardinality({i \in DOMAIN stderr : stderr[i][2] = what}) =
           IF what \in notes THEN 1 ELSE 0
    /\ With(SKIPPED) # {} => "absent" \in notes

(* The rendered report has branch columns exactly when some artifact of    *)
(* the aggregate has branch data (branch_infos).                           *)
BranchesShown ==
  phase = "off" /\ rc = 0 /\ cmd.html =>
    html.shown = (\E f \in DOMAIN aggregate.infos : aggregate.infos[f].info.br # None)

(* OutputExact.  What the user reads, on the terminal and in the rendered  *)
(* report, does not depend on which worker ran what, or when.              *)
OutputExact == OutputInOrder /\ BranchesShown

(* Terminates.  Every command comes to an end, also when a tool fails or   *)
(* raises while other threads wait for its lock.                           *)
Terminates == phase = "working" ~> phase = "off"

(* OneBuild.  README.md:323: "This inventory depends only on the ELF":     *)
(* the inventory and the branches a report joins with the covered lines    *)
(* are those of the ELF they were symbolized with.                         *)
OneBuild ==
  \A a \in With(OK) :
    LET i == info[_base_name(a)] IN
    phase # "off" /\ a \in ToSet(covs) =>
      /\ i.cab.builds = i.sym.builds
      /\ i.br # None => i.br.builds = i.sym.builds
=============================================================================
