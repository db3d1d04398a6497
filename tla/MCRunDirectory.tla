---------------------------- MODULE MCRunDirectory ----------------------------
(* Two or three invocations on one corpus, with one or two engines that have  *)
(* an M and no other axis, grids of one or two builds, and two budgets.       *)
EXTENDS RunDirectory, ReportSummary, Resources

None_ == << >>
MCProfile(ms) ==
    [name |-> "p", m |-> ms, mByEngine |-> None_, efc |-> 200,
     quantization |-> "none", storages |-> {"InnoDB"}, modes |-> {"post"},
     perconaModes |-> {"post"},
     extras |-> [m |-> None_, efc |-> None_, builds |-> None_,
                 quantization |-> << >>, storages |-> {}],
     opsEnabled |-> TRUE, opsMode |-> "frontier", opsMs |-> {16},
     annEnabled |-> TRUE, selection |-> None, datasets |-> {"c"}]
Host(name) == [name |-> name, avx512 |-> TRUE, hybrid |-> name = "h2"]
Budget(memory) == [memory |-> memory, signature |-> "s", threads |-> 2, cpus |-> 2]
Budgets(normalized, tuned) ==
    [pass \in ResourcePasses |->
        Budget(IF pass = "normalized" THEN normalized ELSE tuned)]

Invocation(ms, engines, passes, phases) ==
    [host |-> Host("h1"), resume |-> FALSE, force |-> FALSE, failFast |-> FALSE,
     profile |-> MCProfile(ms), version |-> 3, engines |-> engines,
     passes |-> passes, datasets |-> <<"c">>, phases |-> phases,
     budget |-> Budgets(8, 9)]
Resumed(i) == [i EXCEPT !.resume = TRUE]
Forced(i) == [i EXCEPT !.force = TRUE]
Under(i, budget) == [i EXCEPT !.budget = budget]
On(i, host) == [i EXCEPT !.host = Host(host)]

Small == {16}
Large == {16, 32}
Both == <<"ann", "ops">>
Tuned == <<"tuned">>
OneEngine == Invocation(Large, <<"mariadb">>, Tuned, Both)

MCPlans == <<
    \* both passes, both phases, and the resumes of them
    LET i == Invocation(Small, <<"mariadb">>, <<"normalized", "tuned">>, <<"ann">>)
    IN <<i, Resumed(i)>>,
    LET i == Invocation(Small, <<"mariadb">>, Tuned, Both) IN <<i, Resumed(i)>>,
    \* measured again, with other files
    <<OneEngine, Forced(OneEngine)>>,
    <<Invocation(Small, <<"mariadb">>, Tuned, Both), OneEngine>>,
    \* another budget for the same engine, and for one that is added
    <<OneEngine, Under(Resumed(OneEngine), Budgets(8, 10))>>,
    <<Invocation(Small, <<"mariadb">>, Tuned, <<"ann">>),
      Under(Resumed(Invocation(Small, <<"alisql">>, Tuned, Both)), Budgets(8, 10)),
      Resumed(Invocation(Small, <<"mariadb">>, <<"normalized">>, <<"ann">>))>>,
    \* a grid that is cut between two attempts, the first of which stops early
    <<[Invocation(Large, <<"mariadb">>, Tuned, <<"ann">>)
          EXCEPT !.failFast = TRUE],
      Invocation(Small, <<"mariadb">>, Tuned, Both)>>,
    \* a pass that is added to a run on another machine
    <<Invocation(Small, <<"mariadb">>, <<"normalized">>, <<"ann">>),
      On(Resumed(Invocation(Small, <<"mariadb">>, <<"normalized", "tuned">>, <<"ann">>)),
         "h2")>>
>>
(* The one that measures everything twice has no other run beside it.         *)
MeasuredTwice == 3
MCQuality == {<<960, 2>>, <<900, 3>>}
MCTooBig == {<<"alisql", "ops">>}
OthersFile(dir, m) ==
    [dir |-> dir, engine |-> "mariadb", dataset |-> "c", quality |-> <<960, 9>>,
     def |-> [build |-> BuildOf(m, None, None), storage |-> "InnoDB", mode |-> None]]
MCForeign == {OthersFile(<<"tuned", AnnFingerprint(Budget(9))>>, 32)}

MCDirNext == DirNext /\ (plan = MeasuredTwice => others' = {})
MCDirSpec == DirInit /\ [][MCDirNext]_dirVars

-----------------------------------------------------------------------------
(* The operators of the planning and of the report, evaluated over bounded    *)
(* inputs against what they are for: assumptions TLC checks before the run.   *)
NoLists == << >>
ProfileOf(ms, efcs) ==
    [name |-> "p", m |-> ms, mByEngine |-> NoLists, efc |-> 200,
     quantization |-> "none", storages |-> {"InnoDB"}, modes |-> {"post"},
     perconaModes |-> {"post"},
     extras |-> [m |-> NoLists, efc |-> [e \in {"pgvector", "valkey"} |-> efcs],
                 builds |-> NoLists, quantization |-> <<"scalar", "none">>,
                 storages |-> {}],
     opsEnabled |-> TRUE, opsMode |-> "fixed", opsMs |-> {16},
     annEnabled |-> TRUE, selection |-> None, datasets |-> {"c"}]
FirstStage == ProfileOf({8, 16, 32}, {32, 200})
SecondStage == ProfileOf({8, 16, 32, 64}, {32, 200})

PointOf(engine, build, ef, q) ==
    [phase |-> "recall_qps", engine |-> engine, dataset |-> "c", pass |-> "tuned",
     build |-> build, storage |-> "InnoDB", mode |-> None, ef |-> ef,
     recall |-> q[1], qps |-> q[2], bytes |-> build.M, used |-> TRUE,
     wall |-> None, ingest |-> None, separable |-> None, source |-> <<build, ef>>,
     warmed |-> None, converged |-> None, bounded |-> None, short |-> None,
     mtime |-> 5, status |-> None, target |-> None, version |-> 9,
     column |-> None, declined |-> {}, rss |-> None, rssSource |-> None]
Measured == {<<880, 9>>, <<905, 6>>, <<955, 4>>, <<992, 2>>}
BuildsOf(engine) == SetToSeq(AnnBuilds(engine, FirstStage, "tuned"))

-----------------------------------------------------------------------------
(* A rendered grid builds every combination of its lists that the engine can  *)
(* build and no other, in as many groups as that takes; a list with a value   *)
(* no build can use is refused (ann_pass.render_config, ann_knobs.py).        *)
ASSUME GridIsItsLegalProduct ==
    \A engine \in {"pgvector", "valkey", "myvector", "villagesql", "percona"},
       ms \in SUBSET {4, 8, 16} \ {{}}, efcs \in SUBSET {8, 16, 300} \ {{}} :
        LET rendered == EfcRunGroups(engine, ms, efcs, None)
            legal == {p \in ms \X efcs : ~ Excluded(engine, p[1], p[2])}
        IN IF rendered.refused = None
           THEN {d.build : d \in Definitions(rendered)}
                = {BuildOf(p[1], p[2], None) : p \in legal}
           ELSE \/ \E m \in ms : \A e \in efcs : <<m, e>> \notin legal
                \/ \E e \in efcs : \A m \in ms : <<m, e>> \notin legal

(* The second stage can reach every floor the first one reached: some kept    *)
(* build has the point for it. Its overlay renders the kept builds alone and  *)
(* has the reference build in it, whatever the first stage measured           *)
(* (build_selection.select_engine, select_builds.check_overlay).              *)
SelectedOf(engine, qualities) ==
    LET builds == BuildsOf(engine)
        points == [i \in DOMAIN qualities |->
                      PointOf(engine, builds[i], 10, qualities[i])]
    IN [points |-> points,
        overlay |-> Select(FirstStage, {engine, "alisql"}, points, SecondStage)]
ASSUME SelectionKeepsTheFloors ==
    \A engine \in {"pgvector", "mariadb", "mongodb"} :
        \A qualities \in [1..Min({3, Len(BuildsOf(engine))}) -> Measured] :
            LET selected == SelectedOf(engine, qualities)
                kept == selected.overlay.selection.kept[engine]
            IN /\ CheckOverlay(selected.overlay, SecondStage) = {}
               /\ OverlayProblems(selected.overlay, "p") = {}
               /\ SelectRefusal(FirstStage, selected.points) = None
               /\ \A f \in Floors :
                      (\E i \in DOMAIN selected.points : selected.points[i].recall >= f)
                      => \E i \in DOMAIN selected.points :
                             /\ selected.points[i].recall >= f
                             /\ Normalize(engine, selected.points[i].build) \in kept
               /\ selected.overlay.selection.unselected = {"alisql"}

(* The frontier has the fastest point of every recall it claims, is strictly  *)
(* falling, and its figure of a floor is the fastest of all points there      *)
(* (report/loaders.frontier, builds.floor_figures).                           *)
ASSUME FloorsAreFastest ==
    \A qualities \in [1..4 -> Measured \cup {<<955, 6>>}] :
        LET points == [i \in 1..4 |->
                PointOf("mariadb", BuildOf(8 * i, None, None), 10, qualities[i])]
            frontier == Frontier(points)
            all == {points[i] : i \in 1..4}
        IN /\ \A p, q \in frontier : p.recall > q.recall => p.qps < q.qps
           /\ \A f \in Floors :
                  LET figure == FloorFigure(frontier, f)
                      at == {p \in all : p.recall >= f}
                  IN IF at = {} THEN figure = None
                     ELSE figure.qps = Max({p.qps : p \in at})

(* Everything a recall floor is said to cost is of a build that reached it,   *)
(* and a floor below all that was measured is said not to be one              *)
(* (generate.summarize, frontier.smallest_figure).                            *)
PlainManifest == OpenManifest(NoManifest, "run", 9)
ASSUME FigureReachesItsFloor ==
    \A qualities \in [1..3 -> Measured] :
        LET records == [i \in 1..3 |->
                PointOf("mariadb", BuildOf(8 * i, None, None), 10, qualities[i])]
            entry == FloorEntry(records, PlainManifest, "mariadb", "c", "tuned")
        IN /\ \A f \in Floors : entry.smallest[f] # None =>
                  /\ entry.smallest[f].recall >= f
                  /\ entry.best[f].qps >= entry.smallest[f].qps
           /\ RecallFloorGaps(entry) = {f \in Floors :
                  \A i \in 1..3 : records[i].recall > f}
           /\ DOMAIN PerDataset(records, PlainManifest) = {<<"c", "tuned", "mariadb">>}
           /\ DuplicateAnn(records) = {} /\ SilentAnnFailures(PlainManifest, records) = << >>

-----------------------------------------------------------------------------
(* Samples of a series: those of one session are never differenced with those *)
(* of another, however the files were joined (loaders.load_memory_series,     *)
(* loaders.foreign_cpu).                                                      *)
SampleAt(t, host, ours, session) ==
    [t |-> t, host |-> host, ours |-> ours, session |-> session, rss |-> ours,
     cpuStall |-> 0, ioStall |-> None]
ASSUME SessionsPartTheSamples ==
    \A gaps \in [1..3 -> {1, SessionGap, SessionGap + 1}],
       named \in [1..4 -> {"a", "b"}], unnamed \in BOOLEAN :
        LET times == <<0, gaps[1], gaps[1] + gaps[2], gaps[1] + gaps[2] + gaps[3]>>
            rows == [i \in 1..4 |->
                SampleAt(times[i], 10 * i, i, IF unnamed THEN None ELSE named[i])]
        IN /\ UNION {ToSet(s) : s \in Sessions(rows)} = ToSet(rows)
           /\ \A s, t \in Sessions(rows) : s = t \/ ToSet(s) \cap ToSet(t) = {}
           /\ \A s \in Sessions(rows) : \A i \in 2..Len(s) :
                  /\ s[i].session = s[i - 1].session
                  /\ unnamed => s[i].t - s[i - 1].t <= SessionGap
           /\ ForeignCpu(rows) <= 10

(* A server window has figures only from two samples of its own time          *)
(* (server_windows.window_figures).                                           *)
ASSUME WindowsAreInside ==
    \A started, ended \in 0..4, t1, t2 \in 0..4 :
        LET rows == <<SampleAt(t1, 0, 0, None), SampleAt(t2, 0, 8, None)>>
            figures == WindowFigures(rows, started, ended, 2)
        IN (figures # None) <=> /\ t1 # t2 /\ started < ended
                                /\ {t1, t2} \subseteq started..ended

-----------------------------------------------------------------------------
(* Operational records of two units, for the checks between the two paths.    *)
OpsRecordOf(phase, engine, ef, q, version) ==
    [PointOf(engine, BuildOf(16, None, None), ef, q) EXCEPT
        !.phase = phase, !.version = version]
    @@ [kind |-> "distance_threshold", half |-> 2, efMode |-> None, bound |-> FALSE,
        clients |-> 1, started |-> 0, ended |-> 4, tunable |-> FALSE,
        scan |-> "strict", selectivity |-> None, p50 |-> None, p99 |-> None,
        baseline |-> None, stamped |-> None, during |-> None]

(* Records of two measurement versions are never reported together, and those *)
(* of one version only under a manifest that does not name another            *)
(* (measurement_versions.problem).                                            *)
ASSUME VersionsNeverMix ==
    \A a, b \in {None, 1, 2, 9}, declared \in {None, 1, 2, 9} :
        LET records == <<OpsRecordOf("filtered", "mariadb", 10, <<900, 2>>, a),
                         OpsRecordOf("churn", "mariadb", 10, <<900, 2>>, b)>>
            versions == {MeasurementVersion(records[1]), MeasurementVersion(records[2])}
        IN ~ VersionsRefused(records, declared) =>
               /\ Cardinality(versions) = 1
               /\ declared \in versions \cup {None}

(* A row of the crosscheck is of one engine and ef, and two engines that are  *)
(* near in recall and in reversed order are both in it                        *)
(* (crosscheck.compare, crosscheck.inversions).                               *)
ASSUME CrosscheckFindsInversions ==
    \A recalls \in [1..4 -> {900, 915, 940}], qps \in [1..4 -> {1, 2}] :
        LET Ann(e, i) == PointOf(e, BuildOf(16, None, None), 10, <<recalls[i], qps[i]>>)
            Ops(e, i) == OpsRecordOf("ef_calibration", e, 10, <<recalls[i], qps[i]>>, 9)
            records == <<Ann("mariadb", 1), Ann("alisql", 2),
                         Ops("mariadb", 3), Ops("alisql", 4)>>
            matches == CrosscheckMatches(records)
        IN /\ Cardinality(matches) = 2
           /\ \A row \in matches : row.passed <=> row.delta <= MinTolerance
           /\ CrosscheckCoverage(records, "mariadb", "c") = "matched"
           /\ (QpsInversions(matches) # {}) <=>
                  /\ Distance(recalls[1], recalls[2]) <= RecallBand
                  /\ Distance(recalls[3], recalls[4]) <= RecallBand
                  /\ (qps[1] - qps[2]) * (qps[3] - qps[4]) < 0

(* A unit that did not reach its target, or whose every window its clients    *)
(* bounded, has no peak (operating.concurrency_peaks).                        *)
ASSUME PeakIsUnbounded ==
    \A bounds \in [1..2 -> BOOLEAN], status \in {None, "target_unreached", "met"} :
        LET Window(i) == [OpsRecordOf("concurrency", "mariadb", 10, <<900, 2 * i>>, 9)
                             EXCEPT !.bound = bounds[i], !.clients = i,
                                    !.status = status]
            peaks == ConcurrencyPeaks(<<Window(1), Window(2)>>)
        IN /\ Cardinality(peaks) = 1
           /\ \A p \in peaks :
                  /\ p.ranked <=> /\ status # "target_unreached"
                                  /\ \E i \in 1..2 : ~ bounds[i]
                  /\ p.ranked => ~ bounds[p.clients]

(* A filter is judged by the two ends of one unit's selectivities, and never  *)
(* by those of two columns or scan modes (generate.filter_strategies); a      *)
(* chart that needs a workload is drawn only where it ran                     *)
(* (generate.main).                                                           *)
ASSUME FiltersAreJudgedWithin ==
    \A columns \in [1..2 -> {None, "tag", "num"}], p50 \in [1..2 -> {1, 4}] :
        LET Filtered(i) ==
                [OpsRecordOf("filtered", "mariadb", 10, <<900, 2>>, 9) EXCEPT
                    !.column = columns[i], !.selectivity = i, !.p50 = p50[i]]
            records == <<Filtered(1), Filtered(2)>>
            column(i) == FilterColumn(records[i])
        IN /\ (FilterStrategies(records) # {}) <=> column(1) = column(2)
           /\ \A c \in Charts(records, PlainManifest, "c") :
                  c[1] = "filtered" => c[2] \in {column(1), column(2)}
           /\ <<"latency">> \notin Charts(records, PlainManifest, "c")
           /\ WhyAbsent(records, "c", "churn") = <<"not in this profile">>

(* What a reader measured beside the writes is no churn measurement           *)
(* (churn_state.py).                                                          *)
ASSUME WritesAreApart ==
    \A during \in {None, TRUE}, p99 \in {None, 3, 7}, stamped \in {None, 350} :
        LET record == [OpsRecordOf("churn", "mariadb", 10, <<900, 2>>, 9) EXCEPT
                          !.during = during, !.p99 = p99, !.baseline = 2,
                          !.stamped = stamped]
        IN /\ Len(ChurnMeasurements(<<record>>))
              + Cardinality(DuringWritesRows(<<record>>)) = 1
           /\ \A row \in DuringWritesRows(<<record>>) :
                  row.disagrees <=> p99 = 3 /\ stamped # None
-----------------------------------------------------------------------------
(* A sweep has an inversion exactly where it does not fall with ef, and only  *)
(* the first step of an index nobody warmed is put down to warm-up            *)
(* (generate.ef_inversions).                                                  *)
ASSUME InversionsAreFound ==
    \A qps \in [1..3 -> 1..3], warmed \in {None, 0, 500},
       order \in {<<1, 2, 3>>, <<3, 1, 2>>} :
        LET sweep == [i \in 1..3 |->
                [PointOf("mariadb", BuildOf(16, None, None), 10 * order[i],
                         <<900, qps[order[i]]>>)
                    EXCEPT !.source = "one file", !.warmed = warmed]]
            found == EfInversions(sweep)
        IN /\ found # {} <=> \E i \in 1..2 : qps[i + 1] > qps[i]
           /\ \A f \in found : f.likely = "warm-up"
                                <=> warmed # 500 /\ f.from = 10
           /\ (IndexWarmupFlags(sweep) # {}) <=> warmed = 0

(* An attempt is either of a refused unit, of a failed one or of one that was *)
(* completed, the last attempt decides, and the tally counts each unit once   *)
(* (generate.summarize, webui/runs.phase_tally).                              *)
ASSUME LogIsPartitioned ==
    \A first, second, again \in {"completed", "refused", "failed"} :
        LET one == AddPhase(PlainManifest, "ann", "mariadb", "c", "tuned", first, None)
            two == AddPhase(one, "ops", "mariadb", "c", "tuned", second, None)
            m == AddPhase(two, "ann", "mariadb", "c", "tuned", again, None)
            Last2 == {<<"ann", again>>, <<"ops", second>>}
            Of(seq) == {<<seq[i].phase, seq[i].status>> : i \in DOMAIN seq}
        IN /\ Of(RefusedPhases(m)) = {u \in Last2 : u[2] = "refused"}
           /\ Of(FailedPhases(m)) = {u \in Last2 : u[2] = "failed"}
           /\ Of(SilentAnnFailures(m, << >>)) = {u \in Last2 : u = <<"ann", "completed">>}
           /\ \A s \in DOMAIN PhaseTally(m) :
                  PhaseTally(m)[s] = Cardinality({u \in Last2 : u[2] = s})
           /\ ReproductionPassFlag(m) = "tuned"
           /\ MissingTrees(m, << >>) = PassesWithoutATree(m)

(* A report made again attaches the peaks of the series it finds then, and    *)
(* never replaces one the engine reported itself                              *)
(* (loaders.attach_peak_rss).                                                 *)
ASSUME PeaksAreAttachedAgain ==
    \A rss \in {None, 0, 7}, early, late \in 0..3 :
        LET record == [OpsRecordOf("index_build", "mariadb", 10, <<900, 2>>, 9)
                          EXCEPT !.rss = rss]
            Series(peak) == LoadMemorySeries(
                [s \in {MemoryStem(record), <<>>} |->
                    IF s = <<>> THEN << >> ELSE <<SampleAt(0, 0, peak, None)>>])
            then == AttachPeakRss(<<record>>, Series(early))
            again == AttachPeakRss(then, Series(late))
        IN IF rss = 7 THEN again = <<record>>
           ELSE /\ early > 0 /\ late = 0 => again = then
                /\ late > 0 => again[1].rss = late /\ again[1].rssSource = "sampled"

(* A series is held against the limit of its own engine where that was        *)
(* recorded, and a sample at it is not overlooked (loaders.ceiling_pressure,  *)
(* generate.contended_phases); a budget nobody applied is shown as a default. *)
ResolvedOf(memory, applied) ==
    [engine |-> "mariadb", pass |-> "tuned", memory |-> memory, at |-> None,
     applied |-> applied, maxmemory |-> None, buffer |-> 4, graph |-> 2,
     maintenance |-> None]
ASSUME OwnLimitIsTheLimit ==
    \A own \in {None, 100, 1000}, peak \in {97, 98, 500}, applied \in SUBSET {"buffer", "graph"} :
        LET m == PlanRecords([PlainManifest EXCEPT !.config.limits = 500],
                             <<ResolvedOf(own, applied), ResolvedOf(own, {})>>)
            stem == <<"mariadb", "c", "tuned", 16, None, None>>
            memory == [s \in {stem} |-> <<SampleAt(0, 0, 1, None), SampleAt(1, 9, peak, None)>>]
            limit == IF own = None THEN 500 ELSE own
        IN /\ (MemoryPressure(m, memory) # {}) <=> 100 * peak >= 98 * limit
           /\ ContendedPhases(memory) = {}
           /\ EngineBudgetRows(m) =
                 {[engine |-> "mariadb", pass |-> "tuned",
                   main |-> IF "buffer" \in applied THEN <<"buffer", 4>>
                                                   ELSE <<"default", None>>,
                   graph |-> IF "graph" \in applied THEN 2 ELSE None,
                   build |-> None]}

(* A resolution is unchanged exactly where no key differs, and one that is    *)
(* made again is recorded once (manifest.record_engine_resolution).           *)
ASSUME ResolutionIsRecordedOnce ==
    \A own, now \in {None, 100, 200}, at \in {None, 1} :
        LET before == ResolvedOf(own, {})
            after == [ResolvedOf(now, {}) EXCEPT !.at = at]
            m == PlanRecords(PlainManifest, <<before, before>>)
        IN /\ Len(m.resolved) = 1
           /\ (ResolutionOutcome(m, after) = "unchanged") <=> Differences(before, after) = {}
           /\ PlanRecords(m, <<after>>) = m

(* The tree of one pass, named on the command line, is taken for the root it  *)
(* is in, so that the other passes of the run are found; a directory that     *)
(* holds passes itself is not left (generate.annb_root).                      *)
ASSUME RootHoldsThePasses ==
    \A spelled \in {<<"r">>, <<"r", "tuned", "f">>, <<"r", "tuned", "g">>},
       inside \in BOOLEAN :
        LET recorded == <<[pass |-> "tuned", fingerprint |-> "f"],
                          [pass |-> "normalized", fingerprint |-> None]>>
            found == {<<"r", "tuned">>} \cup
                    (IF inside THEN {<<"r", "tuned", "f", "tuned">>} ELSE {})
            root == AnnbRoot(spelled, recorded, found)
        IN root = IF spelled = <<"r", "tuned", "f">> /\ ~ inside THEN <<"r">>
                  ELSE spelled

(* The web page warns of a report that would lose the recall the old one has, *)
(* whether the tree or the ground truth is gone; it says nothing only of a    *)
(* tree of the run that is there and empty (webui/runs.report_inputs).        *)
ASSUME LossIsSaid ==
    \A print \in {None, "f"}, found \in SUBSET {<<"tuned", "f">>},
       merged, there \in BOOLEAN,
       truths \in SUBSET {"c"} :
        LET m == [PlainManifest EXCEPT
                     !.config.pass = "tuned", !.config.fingerprint = print,
                     !.config.passes = <<PassEntry("tuned", None, print)>>,
                     !.config.offered = {"c"}]
            build == BuildOf(16, None, None)
            old == IF merged THEN {PointOf("mariadb", build, 10, <<900, 2>>)} ELSE {}
            file == [pass |-> "tuned", print |-> "f", engine |-> "mariadb", dataset |-> "c",
                     def |-> [build |-> build, storage |-> None, mode |-> None],
                     mtime |-> 5, attrPass |-> None, ef |-> 10, recall |-> 900,
                     qps |-> 2, bytes |-> 1, used |-> TRUE, wall |-> None]
            files == IF there /\ found # {} THEN {file} ELSE {}
            inputs == ReportInputs(m, files, found, truths, old, "here")
        IN merged /\ MergedRecords(m, files, found, {}, truths) = {}
           => (inputs.risk = "none") = (inputs.narrowed /\ ~ there /\ truths # {})

(* Records of several corpora are not selected from, and a full scan never is *)
(* (build_selection.load_points); a named build fills what a record lacks.    *)
ASSUME PointsAreOfOneCorpus ==
    \A corpora \in [1..2 -> {"c", "d"}], used \in [1..2 -> BOOLEAN], asked \in {None, "c"},
       column \in {None, 8} :
        LET records == [i \in 1..2 |->
                [PointOf("mariadb", BuildOf(16, None, None), 10, <<900, 2>>) EXCEPT
                    !.dataset = corpora[i], !.used = used[i]]]
            loaded == LoadPoints(records, "tuned", asked)
            record == [columns |-> BuildOf(column, None, None),
                       named |-> BuildOf(16, 200, None)]
        IN /\ ToSet(loaded.points) \subseteq
                 {records[i] : i \in {j \in 1..2 : used[j]}}
           /\ Cardinality({p.dataset : p \in ToSet(loaded.points)}) <= 1
           /\ loaded.refused # None <=> asked = None /\ corpora[1] # corpora[2]
                                        /\ used[1] /\ used[2]
           /\ BuildOfRecord(record)
              = BuildOf(IF column = None THEN 16 ELSE column, 200, None)

(* What a refusal of mixed versions asks to be corrected is what would lift   *)
(* it: the manifest where the records agree, else the records.                *)
ASSUME RemedyLiftsTheRefusal ==
    \A a, b \in {None, 1, 2, 9}, declared \in {None, 1, 2, 9} :
        LET records == <<OpsRecordOf("filtered", "mariadb", 10, <<900, 2>>, a),
                         OpsRecordOf("churn", "mariadb", 10, <<900, 2>>, b)>>
        IN VersionsRefused(records, declared) =>
               (RefusalRemedy(records, declared).correct = "the manifest"
                <=> \E other \in 1..9 : ~ VersionsRefused(records, other))

(* The figures of a concurrency window are those of its own unit's series,    *)
(* and what limited it most is one of the shares that are known               *)
(* (server_windows.py, limiters.largest_component).                           *)
ASSUME WindowsHaveTheirSeries ==
    \A mode \in {None, "post"}, shares \in [{"cpu", "io"} -> {None, 1, 2}] :
        LET record == [OpsRecordOf("concurrency", "mariadb", 10, <<900, 2>>, 9)
                          EXCEPT !.mode = mode]
            memory == [s \in {MemoryStem([record EXCEPT !.mode = "post"])} |->
                          <<SampleAt(0, 0, 0, None), SampleAt(4, 0, 8, None)>>]
            largest == LargestComponent(shares)
        IN /\ (ServerWindows(<<record>>, memory, 2) # {}) <=> mode = "post"
           /\ \A w \in ServerWindows(<<record>>, memory, 2) : w[2].cores = 2 /\ w[2].util = 100
           /\ IF largest = None THEN \A l \in DOMAIN shares : shares[l] = None
              ELSE \A l \in DOMAIN shares : shares[l] # None => shares[l] <= shares[largest]

(* What the Validity section lists is what the records say of themselves, and *)
(* the time until an index answers is never less than its build took          *)
(* (generate.summarize, generate.time_to_queryable_index).                    *)
ASSUME DoubtsAreListed ==
    \A used, bounded, short, converged \in BOOLEAN, separable \in {None, TRUE, FALSE},
       warmed \in {None, 399, 400}, ingest \in {None, 3}, mtime \in {None, 4, 5} :
        LET r == [PointOf("mariadb", BuildOf(16, None, None), 10, <<900, 2>>) EXCEPT
                     !.used = used, !.bounded = bounded, !.short = short,
                     !.converged = converged, !.warmed = warmed, !.mtime = mtime,
                     !.wall = 9, !.ingest = ingest, !.separable = separable]
            time == TimeToQueryableIndex(r)
        IN /\ PlanFailures(<<r>>) # << >> <=> ~ used
           /\ TimeBoundedPoints(<<r>>) # << >> <=> bounded
           /\ ShortResultCases(<<r>>) # << >> <=> short
           /\ IndexWarmupFlags(<<r>>) # {} <=> ~ converged \/ warmed = 399
           /\ StaleAnn(<<r>>, 5) # {} <=> mtime = 4
           /\ time # None => time >= 9
           /\ separable = None => time = None
           /\ CalibrationTargets(<<r>>) = {}
-----------------------------------------------------------------------------
(* The division of a machine, over small machines and the two resource passes *)
(* that config/resources declares.                                            *)

NormalizedPass ==
    [name |-> "normalized", auto |-> FALSE, serverCpus |-> 8, clientCpus |-> 4,
     maxIoThreads |-> 8, limitGb |-> 16, hostFraction |-> 60, buffer |-> 30,
     graph |-> 30, maintenance |-> 10, absorbs |-> TRUE, headroom |-> 90,
     heapGb |-> 8, threads |-> 1, maxThreads |-> 8, shmGb |-> 2]
TunedPass ==
    [NormalizedPass EXCEPT !.name = "tuned", !.serverCpus = 0, !.limitGb = 0,
                           !.buffer = 35, !.graph = 25, !.threads = 0, !.shmGb = 8]
Shipped == {NormalizedPass, TunedPass}
EveryEngine == {"mariadb", "mariadb123", "alisql", "pgvector", "myvector",
                "percona", "villagesql", "valkey", "mongodb"}
MachineCpus == {1, 2, 4, 5, 8, 12, 16, 64}
MachineRam == {1 * GB, 3 * GB, 8 * GB, 16 * GB, 64 * GB, 128 * GB}
CpuPasses ==
    {[NormalizedPass EXCEPT !.auto = a, !.serverCpus = s, !.clientCpus = c] :
        a \in BOOLEAN, s \in {0, 1, 3, 8}, c \in {0, 1, 4, 16}}
Machine(siblings, performance) ==
    [all |-> <<0, 1, 2, 3>>, performance |-> performance, efficiency |-> << >>,
     siblings |-> siblings]
Cores == {[c \in 0..3 |-> {c}], [c \in 0..3 |-> IF c < 2 THEN {0, 1} ELSE {2, 3}],
          [c \in 0..3 |-> IF c \in {0, 2} THEN {0, 2} ELSE {1, 3}],
          [c \in 0..3 |-> IF c < 2 THEN {0, 1} ELSE {c}]}

(* The chosen CPUs are one of every core of the preferred class               *)
(* (sysinfo.recommended_cpuset).                                              *)
ASSUME OneCpuOfEveryCore ==
    \A siblings \in Cores, performance \in {<< >>, <<0, 1>>, <<0, 1, 2>>} :
        LET machine == Machine(siblings, performance)
            class == ToSet(ClassOf(machine, "performance"))
            chosen == RecommendedCpuset(machine, "performance", FALSE)
        IN /\ ToSet(chosen) \subseteq class
           /\ \A c \in class : \E i \in DOMAIN chosen :
                 /\ chosen[i] \in siblings[c]
                 /\ \A j \in DOMAIN chosen : chosen[j] \in siblings[c] => j = i

(* Server and clients never share a CPU of a machine that has two, whatever   *)
(* the pass asks for, and a sweep that "auto" is accepted for has a client    *)
(* CPU for every two of its clients (config.resolve_resources).               *)
ASSUME ClientsHaveTheirOwnCpus ==
    \A pass \in CpuPasses, n \in MachineCpus, clients \in {1, 7, 8, 9, 32} :
        LET server == ServerCpus(pass, n, clients)
            client == ClientCpus(pass, n, clients)
        IN CpusRefused(pass, n, clients)
           \/ /\ server # {} /\ client # {} /\ server \cup client \subseteq 1..n
              /\ n > 1 => server \cap client = {}
              /\ pass.auto => 2 * Cardinality(client) >= clients

(* "auto" is the number it stands for: the same CPUs, and the same signature, *)
(* so that results measured under the number are found again                  *)
(* (config.resolve_resources, pass_signature).                                *)
ASSUME AutoIsThePinItReplaces ==
    \A n \in MachineCpus, clients \in {1, 8, 9, 32}, engine \in EveryEngine :
        LET auto == [TunedPass EXCEPT !.auto = TRUE]
            pinned == [TunedPass EXCEPT !.clientCpus = AutoClientCpus(clients)]
        IN CpusRefused(auto, n, clients)
           \/ ResolveResources(auto, engine, n, 64 * GB, clients)
              = ResolveResources(pinned, engine, n, 64 * GB, clients)

(* No engine is promised more memory than its container has, on any host, and *)
(* each keeps a tenth of it; PostgreSQL has the caches of the other engines   *)
(* in one, and Valkey's data stays below the limit that kills it.             *)
ASSUME BudgetsAreHeld ==
    \A pass \in Shipped, n \in MachineCpus, ram \in MachineRam, engine \in EveryEngine :
        LET r == ResolveResources(pass, engine, n, ram, 32)
            other == ResolveResources(pass, "mariadb", n, ram, 32)
        IN /\ r.memory <= ram /\ ~ OverAllocated(r)
           /\ r.maxmemory < r.memory /\ r.heap <= r.memory \div 2
           /\ engine = "pgvector" => r.buffer - other.buffer - other.graph \in {0, 1}

(* What an engine's flags hand out fits as well, once the budget is 2 GB or   *)
(* more: below that the whole GB of mongot's heap is over half of it          *)
(* (config.server_args, server_env).                                          *)
ASSUME FlagsFitTheBudget ==
    \A pass \in Shipped, n \in MachineCpus, ram \in MachineRam, engine \in EveryEngine :
        LET r == ResolveResources(pass, engine, n, ram, 32)
            carried == AppliedFigures(engine, r, pass.name)
            Carried(f) == IF f \in carried THEN r[f] ELSE 0
            cache == IF engine = "mongodb" THEN WiredtigerCache(r) ELSE Carried("buffer")
            heap == IF engine = "mongodb" THEN MongotHeapGb(r) * GB ELSE 0
        IN r.memory >= 2 * GB =>
             /\ cache + Carried("graph") + Carried("maintenance") + heap < r.memory
             /\ heap <= r.memory \div 2

(* A parallel build finds room for the segment of its graph in /dev/shm,      *)
(* unless that is more than half of the budget                                *)
(* (config.resolve_resources).                                                *)
ASSUME BuildFindsItsSegment ==
    \A memory \in {2 * GB, 9 * GB, 16 * GB, 45 * GB, 77 * GB},
       percent \in 0..30, threads \in 1..8, declared \in {1, 2, 8} :
        LET maintenance == Share(percent, memory)
            shm == ShmGb([shmGb |-> declared], memory, maintenance, threads)
        IN \/ shm * GB >= maintenance
           \/ NeededShm(maintenance, threads) > ShmCeiling(memory)

(* A run measures engines of the registry, each once, none that its profile   *)
(* does not name, and a profile that names none by mistake runs nothing       *)
(* (config.profile_engines, cli.cmd_run).                                     *)
Registry == {"mariadb", "percona", "myvector"}
ASSUME OnlyEnginesOfTheProfile ==
    \A declared \in UNION {[1..k -> Registry] : k \in 0..2}, declares \in BOOLEAN,
       asked \in UNION {[1..k -> Registry \cup {"typo"}] : k \in 0..2} :
        LET profile == [declares |-> declares, engines |-> declared]
            engines == EnginesOfRun(profile, asked, <<"mariadb", "percona">>)
        IN \/ RunRefused(profile, asked, <<"mariadb", "percona">>, Registry)
           \/ /\ engines # << >> /\ ToSet(engines) \subseteq Registry
              /\ IsInjective(engines)
              /\ declares => ToSet(engines) \subseteq ToSet(declared)

(* A profile's own settings hold whichever pass they are laid over            *)
(* (config.merge_resource_overrides).                                         *)
ASSUME OverridesHold ==
    \A pass \in Shipped, limit \in {8, 24} :
        LET merged == MergeResourceOverrides(pass, [limitGb |-> limit])
        IN /\ ServerMemory(merged, 64 * GB) = limit * GB
           /\ DOMAIN merged = DOMAIN pass
=============================================================================
