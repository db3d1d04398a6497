---------------------------- MODULE RunDirectory -----------------------------
(* A run directory over several invocations of `run` (orchestrator/cli.py),   *)
(* each of which may be killed at any step, on the shared tree of result      *)
(* files that other runs write into as well. What an invocation knows is in   *)
(* memory; what it leaves is the manifest, which each of its saves replaces,  *)
(* the checkpoints, the records of the ops units, and the result files. What  *)
(* is checked is what a report made at any of these moments would say.        *)
(*                                                                            *)
(* An invocation is a record                                                  *)
(*   [host, resume, force, failFast, profile, version, engines, passes,       *)
(*    datasets, phases, budget]                                               *)
(* where budget gives the limits each of its passes resolves to.              *)
EXTENDS RecallReport

CONSTANTS
    Plans,       \* the sequences of invocations a run directory can see
    Corpora,     \* the corpora whose files are on the machine
    TooBig,      \* <<engine, phase>> whose index would not fit its budget
    Quality,     \* the <<recall, qps>> a result file can turn out to have
    Target,      \* the recall the build of the ops pass has to reach
    Foreign,     \* the files another run may write, but for their time
    MaxForeign

VARIABLES
    plan, turn,  \* which of them this one sees, and how many have begun
    proc,        \* the process of the current one: its state in memory
    disk,        \* the manifest, the checkpoints and the ops files
    tree,        \* the result files of every run
    dirs,        \* the directories of the tree
    clock,       \* the files written so far, which stamps their time
    attempts,    \* history: what every logged attempt did, and where
    built,       \* history: the build of every ops unit that was finished
    configured,  \* history: the first fingerprint of every pass
    others       \* history: the paths whose file is another run's

dirVars == <<plan, turn, proc, disk, tree, dirs, clock, attempts, built, configured,
             others>>

Run == "run"
NoProcess == [pc |-> "idle"]
Now == clock + 1

(* The lists of an invocation are lists, a resolution is not what stands for  *)
(* none, and the run has a name.                                              *)
Listed(s) == s \in Seq(ToSet(s))
RealResolutions(inv, pass) ==
    None \notin [engine : ToSet(inv.engines), pass : {pass}, at : Nat,
                 memory : {inv.budget[pass].memory},
                 signature : {inv.budget[pass].signature}]
ASSUME RunDirectoryAssumption ==
    /\ None # Run
    /\ \A i \in DOMAIN Plans :
          /\ Listed(Plans[i])
          /\ \A inv \in ToSet(Plans[i]) :
                /\ Listed(inv.engines) /\ Listed(inv.passes)
                /\ Listed(inv.datasets) /\ Listed(inv.phases)
                /\ \A pass \in ToSet(inv.passes) : RealResolutions(inv, pass)

-----------------------------------------------------------------------------
(* What an invocation resolves for an engine under a pass, and the entry the  *)
(* manifest keeps of it.                                                      *)
Resolved(inv, pass) == inv.budget[pass]
Resolution(inv, pass, engine) ==
    [engine |-> engine, pass |-> pass, at |-> turn,
     memory |-> Resolved(inv, pass).memory, signature |-> Resolved(inv, pass).signature]

(* What two nested loops over lists go through.                               *)
Nested(outer, inner) ==
    [i \in 1..(Len(outer) * Len(inner)) |->
        <<outer[1 + ((i - 1) \div Len(inner))], inner[1 + ((i - 1) % Len(inner))]>>]
(* The pairs of an invocation, and the units of each, in the order of the     *)
(* loops over them.                                                           *)
PairsOf(inv) == Nested(inv.passes, inv.engines)
UnitsOf(inv, pair) ==
    LET cells == Nested(inv.datasets, inv.phases)
    IN [i \in DOMAIN cells |->
           UnitKey(pair[1], pair[2], cells[i][1], cells[i][2])]

Save(m) == disk' = [disk EXCEPT !.manifest = m]
MoveTo(pc) == proc' = [proc EXCEPT !.pc = pc]
NoHistory == UNCHANGED <<attempts, built, configured>>
NoFiles == UNCHANGED <<tree, dirs, clock, others>>

DirInit ==
    /\ plan \in DOMAIN Plans /\ turn = 0
    /\ proc = NoProcess
    /\ disk = [manifest |-> NoManifest, checkpoints |-> {}, ops |-> {}]
    /\ tree = {} /\ dirs = {} /\ clock = 0
    /\ attempts = {} /\ built = {} /\ configured = {} /\ others = {}

Inv == Plans[plan][turn]

-----------------------------------------------------------------------------
(* cmd_run up to its first unit                                               *)

(* The manifest is opened, which saves it, and the host is set, which is only *)
(* saved with a warning about it.                                             *)
Start ==
    /\ proc.pc = "idle" /\ turn < Len(Plans[plan])
    /\ LET inv == Plans[plan][turn + 1]
           opened == OpenManifest(disk.manifest, Run, inv.version)
           hosted == SetHost(opened, inv.host)
       IN /\ Save(IF hosted.warnings = opened.warnings THEN opened ELSE hosted)
          /\ proc' = [pc |-> "preflight", m |-> hosted,
                      done |-> {}, pairs |-> PairsOf(inv), entries |-> << >>,
                      refused |-> FALSE, units |-> << >>, failed |-> FALSE,
                      unit |-> None]
    /\ turn' = turn + 1
    /\ NoFiles /\ UNCHANGED <<plan, attempts, built, configured>>

(* A corpus that is missing, a build no report could be made of, or another   *)
(* build selection end the invocation before anything is resolved.            *)
Preflight ==
    /\ proc.pc = "preflight"
    /\ LET problems == UNION {BuildPreflight(p[2], Inv.profile, p[1],
                                  ToSet(Inv.phases)) : p \in ToSet(proc.pairs)}
           selection == Inv.profile.selection
       IN IF \/ ~ ToSet(Inv.datasets) \subseteq Corpora
             \/ problems # {}
             \/ SelectionOutcome(proc.m, selection) = "changed"
          THEN proc' = NoProcess /\ UNCHANGED disk
          ELSE /\ proc' = [proc EXCEPT !.pc = "resolve",
                    !.m = SetBuildSelection(@, selection),
                    !.done = IF Inv.resume THEN disk.checkpoints ELSE {},
                    !.entries = [i \in DOMAIN proc.pairs |->
                        Resolution(Inv, proc.pairs[i][1], proc.pairs[i][2])]]
               /\ IF SelectionOutcome(proc.m, selection) = "recorded"
                  THEN Save(SetBuildSelection(proc.m, selection))
                  ELSE UNCHANGED disk
    /\ NoFiles /\ NoHistory /\ UNCHANGED <<plan, turn>>

(* One engine under one pass is resolved, and recorded where it was not.      *)
Resolve ==
    /\ proc.pc = "resolve" /\ proc.entries # << >>
    /\ LET entry == Head(proc.entries)
           next == RecordEngineResolution(proc.m, entry)
       IN /\ proc' = [proc EXCEPT !.m = next, !.entries = Tail(@),
                        !.refused = @ \/ PlanRefuses(proc.m, <<entry>>,
                            Inv.datasets, Inv.phases, proc.done)]
          /\ IF next = proc.m THEN UNCHANGED disk ELSE Save(next)
    /\ NoFiles /\ NoHistory /\ UNCHANGED <<plan, turn>>

(* A resolution that changed under units still to be measured ends it.        *)
AllResolved ==
    /\ proc.pc = "resolve" /\ proc.entries = << >>
    /\ IF proc.refused
       THEN /\ Save(FinishManifest(proc.m, "refused")) /\ proc' = NoProcess
       ELSE MoveTo("pair") /\ UNCHANGED disk
    /\ NoFiles /\ NoHistory /\ UNCHANGED <<plan, turn>>

(* The next engine under the next pass: its configuration is written, then    *)
(* what presents it, before any of its units is looked at.                    *)
Configure ==
    /\ proc.pc = "pair" /\ proc.pairs # << >>
    /\ LET pass == Head(proc.pairs)[1]
           resolved == Resolved(Inv, pass)
           next == SetConfig(proc.m, pass, resolved.memory, AnnFingerprint(resolved),
                             Inv.profile.datasets, Inv.datasets,
                             Inv.host.name)
       IN /\ Save(next)
          /\ proc' = [proc EXCEPT !.m = next, !.pc = "engine"]
          /\ configured' = IF \E c \in configured : c.pass = pass THEN configured
                           ELSE configured \cup
                                {[pass |-> pass, print |-> AnnFingerprint(resolved)]}
    /\ NoFiles /\ UNCHANGED <<plan, turn, attempts, built>>

PresentEngine ==
    /\ proc.pc = "engine"
    /\ LET pair == Head(proc.pairs)
           engine == pair[2]
           declared == [p \in ToSet(Inv.passes) |->
                           ResolveReferenceBuild(engine, Inv.profile, p)]
           next == SetEngine(proc.m, engine,
                       [declared |-> declared,
                        chosen |-> PresentationEntries(proc.m, engine)])
       IN /\ Save(next)
          /\ proc' = [proc EXCEPT !.m = next, !.pc = "units", !.pairs = Tail(@),
                                  !.units = UnitsOf(Inv, pair)]
    /\ NoFiles /\ NoHistory /\ UNCHANGED <<plan, turn>>

-----------------------------------------------------------------------------
(* The units of a pair                                                        *)

Unit == Head(proc.units)
Grid == RenderConfig(Unit[2], Inv.profile, Unit[1])
UnitDir == AnnbResultsDir(Unit[1], Resolved(Inv, Unit[1]))
PastUnit == [proc EXCEPT !.units = Tail(@), !.unit = None]

SkipUnit ==
    /\ proc.pc = "units" /\ proc.units # << >> /\ Unit \in proc.done
    /\ proc' = PastUnit
    /\ NoFiles /\ NoHistory /\ UNCHANGED <<plan, turn, disk>>

(* A unit that would not fit is logged as refused and has no checkpoint.      *)
RefuseUnit ==
    /\ proc.pc = "units" /\ proc.units # << >> /\ Unit \notin proc.done
    /\ <<Unit[2], Unit[4]>> \in TooBig
    /\ LET next == AddPhase(proc.m, Unit[4], Unit[2], Unit[3], Unit[1], "refused", None)
       IN Save(next) /\ proc' = [PastUnit EXCEPT !.m = next]
    /\ NoFiles /\ NoHistory /\ UNCHANGED <<plan, turn>>

Begins(phase) ==
    /\ proc.pc = "units" /\ proc.units # << >> /\ Unit \notin proc.done
    /\ <<Unit[2], Unit[4]>> \notin TooBig /\ Unit[4] = phase

(* The ann phase of a unit: the directory is made, what is in it is noted,    *)
(* and the builds of the grid that have no file yet are measured, all of them *)
(* where the user forces it. `wrote` is a history: the files it did write.    *)
BeginAnn ==
    /\ Begins("ann")
    /\ LET before == Snapshot(tree, UnitDir, Unit[2], Unit[3])
           missing == {d \in Definitions(Grid) : <<Unit[3], Unit[2], d>> \notin DOMAIN before}
       IN proc' = [proc EXCEPT !.pc = "ann",
                    !.unit = [before |-> before,
                              todo |-> IF Inv.force THEN Definitions(Grid)
                                       ELSE missing,
                              wrote |-> {}]]
    /\ dirs' = dirs \cup {UnitDir}
    /\ NoHistory /\ UNCHANGED <<plan, turn, disk, tree, clock, others>>

FileOf(dir, engine, dataset, def, quality) ==
    [pass |-> dir[1], print |-> dir[2], engine |-> engine, dataset |-> dataset,
     def |-> def, mtime |-> Now, attrPass |-> dir[1], ef |-> 10,
     recall |-> quality[1], qps |-> quality[2], bytes |-> None, used |-> TRUE,
     wall |-> None]
WriteFile(file) ==
    /\ tree' = {f \in tree : RootPath(f) # RootPath(file)} \cup {file}
    /\ clock' = Now

MeasureBuild ==
    /\ proc.pc = "ann"
    /\ \E d \in proc.unit.todo, q \in Quality :
          LET file == FileOf(UnitDir, Unit[2], Unit[3], d, q)
          IN /\ WriteFile(file)
             /\ proc' = [proc EXCEPT !.unit.todo = @ \ {d},
                                     !.unit.wrote = @ \cup {TreePath(file)}]
             /\ others' = others \ {RootPath(file)}
    /\ NoHistory /\ UNCHANGED <<plan, turn, disk, dirs>>

(* The phase is logged with the files it changed and those it found, whether  *)
(* it got through its grid or an engine failed on the way.                    *)
LogUnit(status, files) ==
    LET next == AddPhase(proc.m, Unit[4], Unit[2], Unit[3], Unit[1], status, files)
        ended == status = "failed" /\ Inv.failFast
    IN /\ Save(IF ended THEN FinishManifest(next, "failed") ELSE next)
       /\ proc' = IF ended THEN NoProcess
                  ELSE [proc EXCEPT !.m = next, !.unit = None,
                          !.failed = @ \/ status = "failed",
                          !.pc = IF status = "completed" THEN "checkpoint" ELSE "units",
                          !.units = IF status = "completed" THEN @ ELSE Tail(@)]

(* run_engine: a sweep that exits well has come through its grid, and is      *)
(* judged by how many files of the engine and corpus are there by then,       *)
(* whichever they are. A worker that died has left its build `todo`.          *)
Enough(after, rendered) ==
    after # << >> /\ Cardinality(DOMAIN after) >= Cardinality(Definitions(rendered))

EndAnn ==
    /\ proc.pc = "ann"
    /\ LET after == Snapshot(tree, UnitDir, Unit[2], Unit[3])
           files == PhaseFiles(proc.unit.before, after, Grid)
           new == DOMAIN after \ DOMAIN proc.unit.before
       IN \E status \in {"completed", "failed"} :
             /\ status = "completed" => Enough(after, Grid)
             /\ LogUnit(status, files)
             /\ attempts' = attempts \cup
                   {[unit |-> Unit, dir |-> UnitDir, status |-> status,
                     grid |-> Definitions(Grid),
                     budget |-> Resolved(Inv, Unit[1]).memory,
                     found |-> {Last(p) : p \in DOMAIN after},
                     wrote |-> proc.unit.wrote,
                     beside |-> {p \in new : UnitDir \o p \in others}]}
    /\ NoFiles /\ UNCHANGED <<plan, turn, built, configured>>

SaveCheckpoint ==
    /\ proc.pc = "checkpoint"
    /\ disk' = [disk EXCEPT !.checkpoints = @ \cup {Unit}]
    /\ proc' = [PastUnit EXCEPT !.pc = "units"]
    /\ NoFiles /\ NoHistory /\ UNCHANGED <<plan, turn>>

-----------------------------------------------------------------------------
(* The ops phase of a unit: the build is chosen from the files of the latest  *)
(* ann attempt, as the container reads them, and the units of it follow.      *)
Points(dir) ==
    SetToSeq({ResultRecord(f, dir, dir[1]) @@ [path |-> TreePath(f)] :
                 f \in {g \in tree : DirOf(g) = dir}})
OpsKey(m) == Append(Unit, m)
OpsUnitsDone == \E k \in disk.checkpoints : Len(k) > 4 /\ SubSeq(k, 1, 4) = Unit
BeginOps ==
    /\ Begins("ops")
    /\ LET pass == Unit[1]  engine == Unit[2]  dataset == Unit[3]
           profile == Inv.profile
           files == AttemptFiles(LatestAnnAttempt(proc.m, engine, dataset, pass))
           choice == ChooseMain(Points(UnitDir), files, engine, dataset, Target,
                                None, None)
       IN IF SelectionMode(profile) # "frontier"
          THEN /\ proc' = [proc EXCEPT !.pc = "ops",
                     !.unit = [todo |-> profile.opsMs, rc |-> 0, selection |-> None]]
               /\ UNCHANGED disk
          ELSE \E a1 \in DefaultChooser(TRUE, choice), a2 \in DefaultChooser(TRUE, choice) :
               LET result == EnsureSelection(proc.m, engine, dataset, pass, profile,
                                             <<a1, a2>>, OpsUnitsDone)
               IN IF result.refused THEN LogUnit("failed", None)
                  ELSE /\ proc' = [proc EXCEPT !.pc = "ops", !.m = result.manifest,
                             !.unit = [todo |-> OpsMValues(result.selection, profile.opsMs),
                                       rc |-> 0, selection |-> result.selection]]
                       /\ IF result.manifest = proc.m THEN UNCHANGED disk
                          ELSE Save(result.manifest)
    /\ NoFiles /\ NoHistory /\ UNCHANGED <<plan, turn>>

(* One M of the unit: skipped where it is done, else its old records are      *)
(* removed before the harness writes new ones.                                *)
ThisM == Min(proc.unit.todo)
OpsBuildOf(m) ==
    LET args == OpsBuildArgs(proc.unit.selection, Unit[2], Inv.profile, Unit[1])
    IN BuildOf(m, args.efC, args.quantization)
OpsRecordsOf(m) ==
    {[phase |-> "index_build", engine |-> Unit[2], dataset |-> Unit[3],
      pass |-> Unit[1], build |-> OpsBuildOf(m), version |-> Inv.version]}
SkipOpsUnit ==
    /\ proc.pc = "ops" /\ proc.unit.todo # {} /\ OpsKey(ThisM) \in proc.done
    /\ proc' = [proc EXCEPT !.unit.todo = @ \ {ThisM}]
    /\ NoFiles /\ NoHistory /\ UNCHANGED <<plan, turn, disk>>
ClearOpsUnit ==
    /\ proc.pc = "ops" /\ proc.unit.todo # {} /\ OpsKey(ThisM) \notin proc.done
    /\ disk' = [disk EXCEPT !.ops = {f \in @ : f.key # OpsKey(ThisM)}]
    /\ MoveTo("harness")
    /\ NoFiles /\ NoHistory /\ UNCHANGED <<plan, turn>>
MeasureOpsUnit ==
    /\ proc.pc = "harness"
    /\ \E rc \in {0, 1} :
          /\ disk' = [disk EXCEPT !.ops = @ \cup
                        {[key |-> OpsKey(ThisM), engine |-> Unit[2],
                          records |-> OpsRecordsOf(ThisM)]},
                                  !.checkpoints = @ \cup (IF rc = 0 THEN {OpsKey(ThisM)}
                                                                    ELSE {})]
          /\ built' = IF rc # 0 THEN built
                      ELSE {b \in built : b.key # OpsKey(ThisM)} \cup
                           {[key |-> OpsKey(ThisM), unit |-> Unit,
                             build |-> OpsBuildOf(ThisM),
                             chosen |-> proc.unit.selection # None,
                             budget |-> Resolved(Inv, Unit[1]).memory]}
          /\ proc' = [proc EXCEPT !.pc = "ops", !.unit.todo = @ \ {ThisM},
                        !.unit.rc = Max({@, rc}),
                        !.done = @ \cup (IF rc = 0 THEN {OpsKey(ThisM)} ELSE {})]
    /\ NoFiles /\ UNCHANGED <<plan, turn, attempts, configured>>
EndOps ==
    /\ proc.pc = "ops" /\ proc.unit.todo = {}
    /\ LogUnit(IF proc.unit.rc = 0 THEN "completed" ELSE "failed", None)
    /\ NoFiles /\ NoHistory /\ UNCHANGED <<plan, turn>>

-----------------------------------------------------------------------------
NextPair ==
    /\ proc.pc = "units" /\ proc.units = << >>
    /\ MoveTo("pair")
    /\ NoFiles /\ NoHistory /\ UNCHANGED <<plan, turn, disk>>
Finish ==
    /\ proc.pc = "pair" /\ proc.pairs = << >>
    /\ Save(FinishManifest(proc.m,
           IF proc.failed THEN "completed_with_failures" ELSE "completed"))
    /\ proc' = NoProcess
    /\ NoFiles /\ NoHistory /\ UNCHANGED <<plan, turn>>

(* A kill loses what is in memory; what was saved and written stays.          *)
KillRun ==
    /\ proc.pc # "idle"
    /\ proc' = NoProcess
    /\ NoFiles /\ NoHistory /\ UNCHANGED <<plan, turn, disk>>

(* Another run measures into the same tree, where nothing is yet. Between two *)
(* looks of this run at the tree one moment for it is as good as another, so  *)
(* it is taken before an invocation, a unit and any file of an ann phase.     *)
OthersMeasure ==
    /\ proc.pc \in {"idle", "units", "ann"}
    /\ \E x \in Foreign :
          LET file == FileOf(x.dir, x.engine, x.dataset, x.def, x.quality)
          IN /\ RootPath(file) \notin {RootPath(f) : f \in tree}
             /\ WriteFile(file)
             /\ dirs' = dirs \cup {x.dir}
             /\ others' = others \cup {RootPath(file)}
    /\ Cardinality(others) < MaxForeign
    /\ NoHistory /\ UNCHANGED <<plan, turn, proc, disk>>

DirNext ==
    \/ Start \/ Preflight \/ Resolve \/ AllResolved \/ Configure \/ PresentEngine
    \/ SkipUnit \/ RefuseUnit \/ BeginAnn \/ MeasureBuild \/ EndAnn
    \/ SaveCheckpoint \/ BeginOps \/ SkipOpsUnit \/ ClearOpsUnit \/ MeasureOpsUnit
    \/ EndOps \/ NextPair \/ Finish \/ KillRun \/ OthersMeasure

DirSpec == DirInit /\ [][DirNext]_dirVars

-----------------------------------------------------------------------------
(* The report of the run as it is on disk. A kill leaves any state of the disk *)
(* as it is, so a report is looked at between two invocations.                *)
Reportable == proc.pc = "idle" /\ disk.manifest # NoManifest
Report == ReportOutcome(disk.manifest, tree, dirs, LoadOpsRecords(disk.ops),
                        Corpora, {})
Recall == {r \in Report.records : r.phase = "recall_qps"}
NamedTree(a) == \E c \in configured : a.dir = <<c.pass, c.print>>

(* What an ann phase of the run measured or found of its grid is in its       *)
(* report, whatever other pass, engine or corpus the run directory took up    *)
(* afterwards, and whoever else measured into the tree; and where no file of  *)
(* another grid was in the count that let it complete, that is every build of *)
(* the grid (ann_pass.py:722). It holds of phases under the budget the pass   *)
(* was first configured with, the one the manifest keeps                      *)
(* (manifest._accumulate_passes, generate._narrow_to_this_run,                *)
(* provenance.split_by_provenance).                                           *)
Promised(a) == IF a.status = "completed" /\ a.found \subseteq a.grid THEN a.grid
               ELSE a.grid \cap a.found
RecallIsFound ==
    Reportable =>
        LET recall == Recall
        IN \A a \in {x \in attempts : NamedTree(x)} : \A d \in Promised(a) :
              \E r \in recall :
                 r.pass = a.unit[1] /\ r.source = <<a.unit[3], a.unit[2], d>>

(* Whose a recall record is: an ann phase of the run for its pass, engine and *)
(* corpus wrote its file, or found it there and had its build in the grid.    *)
PhaseOf(a, r) == <<r.pass, r.engine, r.dataset>> = <<a.unit[1], a.unit[2], a.unit[3]>>
Owned(a, r) == r.source \in a.wrote \/ Last(r.source) \in a.grid

(* Once the log has a unit, no recall of the report is one that another run   *)
(* measured on its own account, before, between or after the phases of this   *)
(* one; where both measured into one directory at the same time, none but     *)
(* those that came in the meantime (ann_provenance.phase_files compares the   *)
(* directory before and after). It holds while all ann phases were under the  *)
(* budgets the manifest names (provenance.split_by_provenance).               *)
OwnLog == /\ Reportable /\ disk.manifest.phases # << >>
          /\ \A a \in attempts : NamedTree(a)
PublishedIsOwn ==
    OwnLog => \A r \in Recall : \E a \in attempts :
                 PhaseOf(a, r) /\ (Owned(a, r) \/ r.source \in a.beside)

(* All ops units of a pass, engine and corpus that were finished with a       *)
(* chosen build have the same one, however often the ann phase was measured   *)
(* again between them and the choice made anew                                *)
(* (ops_build_selection.ensure_selection).                                    *)
OneBuildPerCell ==
    \A b, c \in built : b.chosen /\ c.chosen /\ b.unit = c.unit => b.build = c.build

(* Everything an engine was measured with under a pass was measured under the *)
(* budget that is on record for them, over all invocations of the run         *)
(* (manifest.record_engine_resolution, engine_plan.resolve_engines).          *)
MeasuredUnderRecordedBudget ==
    \A x \in {a \in attempts : a.wrote # {}} \cup built :
        LET entry == ResolutionOf(disk.manifest, x.unit[2], x.unit[1])
        IN entry # None /\ entry.memory = x.budget
=============================================================================
