----------------------------- MODULE RecallReport ----------------------------
(* From the shared tree of result files to the figures of one run's report:   *)
(* where the ann phase writes and what it says it wrote                       *)
(* (orchestrator/ann_pass.py, ann_provenance.py), which trees the report      *)
(* opens and what it makes of a file (report/generate.py, loaders.py), which  *)
(* of the records are this run's (report/scope.py, provenance.py), and what   *)
(* is summarized of those. A result file is                                   *)
(*   [pass, print, engine, dataset, def, mtime, attrPass, ef, recall, ...]    *)
(* under the directory <<pass, print>> of the tree; def is the index it is    *)
(* named by: its build, storage engine and build mode.                        *)
EXTENDS OpsFigures

UnknownPass == "unknown"
ResourcePasses == {"normalized", "tuned"}
PassOrUnknown(pass) == IF pass = None THEN UnknownPass ELSE pass

-----------------------------------------------------------------------------
(* ann_pass.py, ann_provenance.py                                             *)

(* What keys a tree within a pass: the budget, and nothing of the host or of  *)
(* the engine.                                                                *)
AnnMeasurementVersion == 3
AnnFingerprint(resolved) ==
    <<AnnMeasurementVersion, resolved.memory, resolved.signature,
      resolved.threads, resolved.cpus>>
AnnbResultsDir(pass, resolved) == <<pass, AnnFingerprint(resolved)>>

DirOf(file) == <<file.pass, file.print>>
TreePath(file) == <<file.dataset, file.engine, file.def>>
RootPath(file) == DirOf(file) \o TreePath(file)

(* The files of a unit with their times, before and after its phase.          *)
Snapshot(tree, dir, engine, dataset) ==
    LET mine == {f \in tree : /\ DirOf(f) = dir /\ f.engine = engine
                              /\ f.dataset = dataset}
    IN [path \in {TreePath(f) : f \in mine} |->
           (CHOOSE f \in mine : TreePath(f) = path).mtime]

(* A plausible bug: whatever was there already counts as reused.              *)
PhaseFiles_Whole(before, after, rendered) ==
    LET same == {p \in DOMAIN after : p \in DOMAIN before /\ before[p] = after[p]}
    IN [written |-> DOMAIN after \ same, skipped |-> same]

(* What the phase wrote is what changed; what it reused is what did not and   *)
(* is named by the grid it was rendered.                                      *)
PhaseFiles(before, after, rendered) ==
    LET same == {p \in DOMAIN after : p \in DOMAIN before /\ before[p] = after[p]}
    IN [written |-> DOMAIN after \ same,
        skipped |-> {p \in same : Last(p) \in Definitions(rendered)}]

-----------------------------------------------------------------------------
(* generate._narrow_to_this_run: the trees of the passes the manifest names a *)
(* fingerprint for; all there is where it names none, or none of them is      *)
(* here. Directories are paths below the one the caller named; `dirs` are     *)
(* those that exist.                                                          *)
AnnbRoot(dir, recorded, dirs) ==
    LET Spelled == Len(dir) >= 2 /\ \E i \in DOMAIN recorded :
            /\ recorded[i].fingerprint # None
            /\ recorded[i].fingerprint = Last(dir)
            /\ recorded[i].pass = dir[Len(dir) - 1]
        Holds == \E i \in DOMAIN recorded : dir \o <<recorded[i].pass>> \in dirs
    IN IF Spelled /\ ~ Holds THEN SubSeq(dir, 1, Len(dir) - 2) ELSE dir

NarrowToThisRun(m, dirs) ==
    LET named == SelectSeq(RecordedPasses(m), LAMBDA p : p.fingerprint # None)
        here == SelectSeq(named, LAMBDA p : <<p.pass, p.fingerprint>> \in dirs)
    IN IF here = << >> THEN <<[dir |-> << >>, pass |-> UnknownPass]>>
       ELSE [i \in DOMAIN here |-> [dir |-> <<here[i].pass, here[i].fingerprint>>,
                                    pass |-> here[i].pass]]

(* The pass of a record is what its file says, else the directory of a pass   *)
(* it is below, else what the caller takes for granted. A corpus without its  *)
(* ground truth has no records.                                               *)
PassFromPath(path) == IF Head(path) \in ResourcePasses THEN Head(path) ELSE None
ResultRecord(file, dir, default) ==
    LET source == IF dir = << >> THEN RootPath(file) ELSE TreePath(file)
        fromPath == PassFromPath(source)
    IN [phase |-> "recall_qps", engine |-> file.engine, dataset |-> file.dataset,
        pass |-> IF file.attrPass # None THEN file.attrPass
                 ELSE IF fromPath # None THEN fromPath ELSE default,
        build |-> file.def.build, storage |-> file.def.storage,
        mode |-> file.def.mode, ef |-> file.ef, recall |-> file.recall,
        qps |-> file.qps, bytes |-> file.bytes, used |-> file.used,
        wall |-> file.wall, source |-> source, mtime |-> file.mtime]
LoadAnnbResults(tree, dir, default, truths) ==
    {ResultRecord(f, dir, default) :
        f \in {g \in tree : dir \in {<< >>, DirOf(g)} /\ g.dataset \in truths}}

(* The engine of an ops file is read off its name where the name has one.     *)
NamedOpsEngines == {"mariadb123", "mariadb", "alisql", "pgvector"}
LoadOpsRecords(files) ==
    UNION {{IF f.engine \in NamedOpsEngines THEN [r EXCEPT !.engine = f.engine]
            ELSE r : r \in f.records} : f \in files}

-----------------------------------------------------------------------------
(* scope.py: the engines and corpora of the run, by its log, and by what its  *)
(* profile offers where nothing has a unit yet.                               *)
PhasePairs(m) ==
    {<<m.phases[i].engine, m.phases[i].dataset>> : i \in DOMAIN m.phases}
MeasuredEngines(m) ==
    {m.engines[i].name : i \in DOMAIN m.engines} \cup {p[1] : p \in PhasePairs(m)}
MeasuredDatasets(m) ==
    IF m.phases # << >> THEN {p[2] : p \in PhasePairs(m)}
    ELSE m.config.offered
ScopeOf(m) ==
    [pairs |-> PhasePairs(m), engines |-> MeasuredEngines(m),
     datasets |-> MeasuredDatasets(m),
     unpaired |-> MeasuredEngines(m) \ {p[1] : p \in PhasePairs(m)}]
EnginesKnown(scope) == scope.pairs # {} \/ scope.unpaired # {}
OnItsCorpora(scope, dataset) == scope.datasets = {} \/ dataset \in scope.datasets
Admits(scope, engine, dataset) ==
    IF ~ EnginesKnown(scope) THEN OnItsCorpora(scope, dataset)
    ELSE \/ <<engine, dataset>> \in scope.pairs
         \/ engine \in scope.unpaired /\ OnItsCorpora(scope, dataset)
ScopeReason(scope, engine, dataset) ==
    LET engineKnown == ~ EnginesKnown(scope) \/ engine \in scope.engines
        datasetKnown == OnItsCorpora(scope, dataset)
    IN IF ~ engineKnown /\ ~ datasetKnown THEN "both"
       ELSE IF ~ engineKnown THEN "engine"
       ELSE IF ~ datasetKnown THEN "dataset" ELSE "pair"
NarrowToMeasuredScope(records, m) ==
    LET scope == ScopeOf(m)
        mine == {r \in records : r.phase # "recall_qps"
                                 \/ Admits(scope, r.engine, r.dataset)}
    IN [kept |-> mine,
        excluded |-> {<<r.engine, r.dataset, ScopeReason(scope, r.engine, r.dataset)>> :
                          r \in records \ mine}]

-----------------------------------------------------------------------------
(* provenance.py: the files all ann attempts of a pass, engine and corpus     *)
(* said they wrote or reused.                                                 *)
AnnAttempts(m) == SelectSeq(m.phases, LAMBDA p : p.phase = "ann")
AttemptKey(p) == <<p.pass, p.engine, p.dataset>>
AttemptIndex(m) ==
    LET attempts == AnnAttempts(m)
        keys == FoldLeft(AppendNew, << >>,
                    [i \in DOMAIN attempts |-> AttemptKey(attempts[i])])
        Cell(key) == LET mine == {p \in ToSet(attempts) : AttemptKey(p) = key
                                                          /\ p.files # None}
                     IN [key |-> key, listed |-> mine # {},
                         written |-> UNION {p.files.written : p \in mine},
                         skipped |-> UNION {p.files.skipped : p \in mine}]
    IN [i \in DOMAIN keys |-> Cell(keys[i])]
CellsFor(index, r) ==
    SelectSeq(index, LAMBDA c : /\ <<c.key[2], c.key[3]>> = <<r.engine, r.dataset>>
                                /\ r.pass \in {None, UnknownPass, c.key[1]})

(* A record's file is known by the end of its path, below whatever tree.      *)
EndsWith(path, end) ==
    Len(path) >= Len(end)
    /\ SubSeq(path, Len(path) - Len(end) + 1, Len(path)) = end
Lookup(cell, source) ==
    IF \E p \in cell.written : EndsWith(source, p) THEN "written"
    ELSE IF \E p \in cell.skipped : EndsWith(source, p) THEN "skipped" ELSE None

(* What becomes of a recall record: kept under a label, or left out for a     *)
(* reason. Without a log, a path or a list there is nothing to judge it by.   *)
ProvenanceOf(index, r) ==
    LET cells == CellsFor(index, r)
        listed == SelectSeq(cells, LAMBDA c : c.listed)
        hits == SelectSeq([i \in DOMAIN listed |-> Lookup(listed[i], r.source)],
                          LAMBDA h : h # None)
    IN IF \/ r.source = None
          \/ cells # << >> /\ listed = << >>
       THEN "unverified"
       ELSE IF cells = << >> THEN "no ann phase"
       ELSE IF hits = << >> THEN "not listed"
       ELSE IF Head(hits) = "written" THEN "measured" ELSE "reused"
KeptLabels == {"measured", "reused", "unverified"}
SplitByProvenance(records, m) ==
    LET index == AttemptIndex(m)
        Label(r) == IF m.phases = << >> THEN "unverified" ELSE ProvenanceOf(index, r)
        recall == {r \in records : r.phase = "recall_qps"}
        kept == {r \in recall : Label(r) \in KeptLabels}
    IN [kept |-> (records \ recall) \cup kept,
        excluded |-> {<<AttemptKey(r), Label(r)>> : r \in recall \ kept},
        reused |-> {r \in recall : Label(r) = "reused"}]

-----------------------------------------------------------------------------
(* generate.main up to the figures: the records of the report, or why there   *)
(* is none. `truths` are the corpora whose files are here, `wanted` what      *)
(* --datasets names, all of them where that is empty.                         *)
MergedRecords(m, tree, dirs, ops, truths) ==
    LET trees == NarrowToThisRun(m, dirs)
    IN ops \cup UNION {LoadAnnbResults(tree, t.dir, t.pass, truths) :
                          t \in ToSet(trees)}
OwnRecords(records, m) ==
    SplitByProvenance(NarrowToMeasuredScope(records, m).kept, m).kept
ReportOutcome(m, tree, dirs, ops, truths, wanted) ==
    LET own == OwnRecords(MergedRecords(m, tree, dirs, ops, truths), m)
        present == {r.dataset : r \in own}
        narrowed == {r \in own : wanted = {} \/ r.dataset \in wanted}
        Outcome(code, records) == [code |-> code, records |-> records]
    IN IF VersionsRefused(SetToSeq(ops), m.config.version) THEN Outcome(2, {})
       ELSE IF ~ wanted \subseteq present THEN Outcome(2, {})
       ELSE IF narrowed = {} THEN Outcome(1, {}) ELSE Outcome(0, narrowed)

(* webui/runs.report_inputs: what the browser says a report made again here   *)
(* would read. It looks at the pass configured last, and no other.            *)
RecordsSummary(merged) ==
    LET recall == {r \in merged : r.phase = "recall_qps"}
    IN [recall |-> Cardinality(recall), datasets |-> {r.dataset : r \in recall}]
ReportInputs(m, tree, dirs, truths, merged, here) ==
    LET dir == <<m.config.pass, m.config.fingerprint>>
        narrowed == None \notin ToSet(dir) /\ dir \in dirs
        files == {f \in tree : narrowed => DirOf(f) = dir}
        records == RecordsSummary(merged)
        missing == records.datasets \ truths
        scope == ScopeOf(m)
        risk == IF narrowed THEN "none"
                ELSE IF files = {} THEN IF records.recall > 0 THEN "loses recall"
                                                              ELSE "none"
                ELSE IF EnginesKnown(scope) \/ scope.datasets # {}
                THEN "unnarrowed resources" ELSE "unnarrowed"
    IN [narrowed |-> narrowed, files |-> Cardinality(files), missing |-> missing,
        elsewhere |-> m.host \notin {None, here},
        risk |-> IF risk = "none" /\ missing # {} THEN "missing datasets" ELSE risk]

(* The tally of a run in the list of runs is that of its latest attempts.     *)
PhaseTally(m) ==
    LET latest == LatestAttempts(m.phases)
    IN [s \in {latest[i].status : i \in DOMAIN latest} |->
           Cardinality({i \in DOMAIN latest : latest[i].status = s})]

-----------------------------------------------------------------------------
(* provenance.py: the budgets the engines ran under                           *)

(* The limit a memory series is held against: the engine's own where it is    *)
(* recorded, the pass's, else that of the pass configured last.               *)
SeriesMemoryLimit(m, engine, pass) ==
    LET entry == ResolutionOf(m, engine, pass)
        passes == SelectSeq(m.config.passes, LAMBDA p : p.pass = pass)
    IN IF entry # None /\ entry.memory # None
       THEN [limit |-> entry.memory, source |-> "engine"]
       ELSE [limit |-> IF passes # << >> /\ Head(passes).limits # None
                       THEN Head(passes).limits ELSE m.config.limits,
             source |-> "run-level"]

(* The cache an engine was really given: a budget it did not apply is shown   *)
(* as the default it ran with.                                                *)
Applied(entry, key) == entry[key] \notin {None, 0} /\ key \in entry.applied
EngineBudgetRow(entry) ==
    LET Given(key) == IF Applied(entry, key) THEN entry[key] ELSE None
    IN [engine |-> entry.engine, pass |-> entry.pass,
        main |-> IF Applied(entry, "maxmemory") THEN <<"maxmemory", entry.maxmemory>>
                 ELSE IF Applied(entry, "buffer") THEN <<"buffer", entry.buffer>>
                 ELSE <<"default", None>>,
        graph |-> Given("graph"), build |-> Given("maintenance")]
EngineBudgetRows(m) == {EngineBudgetRow(m.resolved[i]) : i \in DOMAIN m.resolved}
=============================================================================
