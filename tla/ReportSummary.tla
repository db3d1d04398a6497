---------------------------- MODULE ReportSummary ----------------------------
(* What the report says of its records beside the figures of builds and ops   *)
(* units: generate.summarize, with the checks that end in the Validity        *)
(* section, and the charts generate.main draws. A record's further fields,    *)
(* None where it has not got them, are those of the checks that read them.    *)
EXTENDS RecallReport

RecallRecords(records) == SelectSeq(records, LAMBDA r : r.phase = "recall_qps")

(* Two files of one point under one pass: the tree holds them both, and the   *)
(* figures may come from either.                                              *)
PointKey(r) == <<BuildSignature(r), r.pass, r.ef>>
DuplicateAnn(recall) ==
    {PointKey(recall[i]) :
        i \in {j \in DOMAIN recall :
                  \E k \in DOMAIN recall \ {j} : PointKey(recall[k]) = PointKey(recall[j])}}

(* A larger ef that is faster than the one before it. The first step of a     *)
(* sweep is taken for warm-up, unless the index was warmed.                   *)
SeriesKey(r) == <<BuildSignature(r), r.pass>>
EfSeries(recall, key) ==
    SortSeq(SelectSeq(recall, LAMBDA r : /\ r.qps # None /\ r.ef # None
                                         /\ SeriesKey(r) = key),
            LAMBDA a, b : a.ef < b.ef)
EfInversions(recall) ==
    LET Warmed(series) == \E i \in DOMAIN series : series[i].warmed \notin {None, 0}
        Of(series) ==
            {[from |-> series[i - 1].ef, to |-> series[i].ef,
              likely |-> IF series[i - 1].ef = series[1].ef /\ ~ Warmed(series)
                         THEN "warm-up" ELSE "unexplained"] :
                i \in {j \in 2..Len(series) : series[j].qps > series[j - 1].qps}}
    IN UNION {Of(EfSeries(recall, SeriesKey(recall[i]))) : i \in DOMAIN recall}

(* A file older than the run itself.                                          *)
StaleAnn(recall, started) ==
    {recall[i].source : i \in {j \in DOMAIN recall :
        started # None /\ recall[j].mtime # None /\ recall[j].mtime < started}}

(* Series that stood at the limit of their container, and those measured on a *)
(* machine that was busy with something else.                                 *)
MemoryPressure(m, memory) ==
    LET Limit(stem) == SeriesMemoryLimit(m, stem[1], stem[3])
    IN {[series |-> s, pressure |-> CeilingPressure(memory[s], Limit(s).limit),
         limit |-> Limit(s).source] :
            s \in {t \in DOMAIN memory :
                      CeilingPressure(memory[t], Limit(t).limit) # None}}
ContendedPhases(memory) ==
    {[series |-> s, foreign |-> ForeignCpu(memory[s])] :
        s \in {t \in DOMAIN memory : ForeignCpu(memory[t]) > 0}}

(* The filter column of records from before there were two.                   *)
FilterColumn(r) == IF r.column = None THEN "tag" ELSE r.column
FilterColumnsPresent(records, dataset) ==
    {FilterColumn(records[i]) : i \in {j \in DOMAIN records :
        records[j].phase = "filtered" /\ records[j].dataset = dataset}}

(* Measurements that say of themselves that they are not what they seem: full *)
(* scans, points the time ran out on, results of fewer than k rows.           *)
PlanFailures(records) == SelectSeq(records, LAMBDA r : r.used = FALSE)
TimeBoundedPoints(records) == SelectSeq(records, LAMBDA r : r.bounded = TRUE)
ShortResultCases(records) == SelectSeq(records, LAMBDA r : r.short = TRUE)

(* An index that was warmed by too few queries, or that was not seen to       *)
(* settle, is named once per build.                                           *)
MinConvergedWarmupQueries == 400
IndexWarmupFlags(recall) ==
    {<<recall[i].engine, recall[i].dataset, recall[i].pass, recall[i].build>> :
        i \in {j \in DOMAIN recall :
            \/ recall[j].converged = FALSE
            \/ /\ recall[j].warmed # None
               /\ recall[j].warmed < MinConvergedWarmupQueries}}

-----------------------------------------------------------------------------
(* The time until an index answers: a bulk build comes after the rows, an     *)
(* incremental one is over with them. A record that does not say which is not *)
(* guessed at.                                                                *)
BuildKind(r) == IF r.separable = None THEN "unrecorded"
                ELSE IF r.separable THEN "bulk" ELSE "incremental"
TimeToQueryableIndex(r) ==
    IF r.wall = None THEN None
    ELSE IF BuildKind(r) = "incremental" THEN r.wall
    ELSE IF BuildKind(r) = "bulk" /\ r.ingest # None THEN r.ingest + r.wall
    ELSE None

(* A build record without a peak of its own takes the one of its series, and  *)
(* takes it again when the report is made again.                              *)
AttachPeakRss(records, memory) ==
    LET Peak(r) == IF MemoryStem(r) \in DOMAIN memory
                   THEN PeakFromSeries(memory[MemoryStem(r)]) ELSE None
        Open(r) == /\ r.phase = "index_build"
                   /\ r.rss \in {None, 0} \/ r.rssSource = "sampled"
    IN [i \in DOMAIN records |->
           IF Open(records[i]) /\ Peak(records[i]) # None
           THEN [records[i] EXCEPT !.rss = Peak(records[i]), !.rssSource = "sampled"]
           ELSE records[i]]

-----------------------------------------------------------------------------
(* The entry of an engine under a pass: what the sweep costs at each floor,   *)
(* what the reference build costs there, and the smallest build to get there. *)
PointsOf(recall, engine, dataset, pass) ==
    SmallerBuildsLast(SelectSeq(recall, LAMBDA r :
        /\ r.engine = engine /\ r.dataset = dataset
        /\ PassOrUnknown(r.pass) = pass))
OpsBuildsOf(records, engine, dataset, pass) ==
    SelectSeq(records, LAMBDA r :
        /\ r.phase = "index_build" /\ r.engine = engine
        /\ r.dataset = dataset /\ PassOrUnknown(r.pass) = pass)
Recalls(points) == {points[i].recall : i \in DOMAIN points}
FloorEntry(records, m, engine, dataset, pass) ==
    LET points == PointsOf(RecallRecords(records), engine, dataset, pass)
        reference == ReferenceBuild(points, records, m, engine, dataset, pass)
        ofReference == IF reference.build = None THEN << >>
                       ELSE SelectSeq(points, LAMBDA p : Matches(p, reference.build))
        opsBuilds == OpsBuildsOf(records, engine, dataset, pass)
        usable == UsableReference(reference.build, points)
        frontier == Frontier(points)
    IN [reference |-> reference, space |-> SweptSpace(points),
        best |-> FloorFigures(frontier),
        isOps |-> OpsBuildFlags(frontier, usable),
        atReference |-> FloorFigures(Frontier(ofReference)),
        smallest |-> [f \in Floors |-> SmallestFigure(points, opsBuilds, usable, f)],
        builds |-> FrontierBuilds(points, opsBuilds, usable),
        low |-> Min(Recalls(points)), high |-> Max({p.recall : p \in frontier})]
(* A floor below everything that was measured says nothing of that floor.     *)
RecallFloorGaps(entry) ==
    {f \in Floors : entry.best[f] # None /\ entry.low > f}
PerDataset(records, m) ==
    LET recall == RecallRecords(records)
        keys == {<<recall[i].dataset, PassOrUnknown(recall[i].pass),
                   recall[i].engine>> : i \in DOMAIN recall}
    IN [k \in keys |-> FloorEntry(records, m, k[3], k[1], k[2])]

(* What a filter does to an engine, from its narrowest and widest selectivity *)
(* in one unit and under one scan mode.                                       *)
FilterKey(r) == <<UnitOf(r), FilterColumn(r), r.scan>>
FilterStrategy(points) ==
    LET sorted == SortSeq(points, LAMBDA a, b : a.selectivity < b.selectivity)
        narrow == Head(sorted)  wide == Last(sorted)
    IN IF 10 * narrow.p50 < 9 * wide.p50 THEN "pre-filter"
       ELSE IF narrow.recall \notin {None, 0} /\ narrow.recall < 500
       THEN "post-filter, abandons the query"
       ELSE IF narrow.p50 < 10 * wide.p50 THEN "filters during the graph walk"
       ELSE "post-filter, exhaustive"
FilterStrategies(records) ==
    LET filtered == SelectSeq(records, LAMBDA r :
            /\ r.phase = "filtered" /\ r.selectivity \notin {None, 0}
            /\ r.p50 \notin {None, 0})
        Of(key) == SelectSeq(filtered, LAMBDA r : FilterKey(r) = key)
        keys == {FilterKey(filtered[i]) : i \in DOMAIN filtered}
    IN {<<k, FilterStrategy(Of(k))>> : k \in {j \in keys : Len(Of(j)) > 1}}

-----------------------------------------------------------------------------
(* The units of the log: an ann phase that says it was done and of which no   *)
(* record of its engine is here; those that were refused or failed last.      *)
SilentAnnFailures(m, recall) ==
    SelectSeq(LatestAttempts(m.phases), LAMBDA p :
        /\ p.phase = "ann" /\ p.status = "completed"
        /\ p.engine \notin {recall[i].engine : i \in DOMAIN recall})
RefusedPhases(m) ==
    SelectSeq(LatestAttempts(m.phases), LAMBDA p : p.status = "refused")
FailedPhases(m) ==
    SelectSeq(LatestAttempts(m.phases),
              LAMBDA p : p.status \notin {"refused", "completed"})

(* The passes the report is about, and those whose recall it has none of and  *)
(* no tree to look for it in.                                                 *)
DescribedPasses(m, records) ==
    {RecordedPasses(m)[i].pass : i \in DOMAIN RecordedPasses(m)}
    \cup ({records[i].pass : i \in DOMAIN records} \ {None})
    \cup {PassOrUnknown(RecallRecords(records)[i].pass) :
             i \in DOMAIN RecallRecords(records)}
MissingTrees(m, recall) ==
    SelectSeq(PassesWithoutATree(m), LAMBDA p :
        p.pass \notin {recall[i].pass : i \in DOMAIN recall})
(* The passes the report's command line names for the run to be made again.   *)
ReproductionPassFlag(m) ==
    LET names == RecordedPasses(m)
    IN IF Len(names) > 1 THEN "both"
       ELSE IF names # << >> THEN names[1].pass ELSE "normalized"

-----------------------------------------------------------------------------
(* The charts of a corpus: one each, the filtered one per column, and the one *)
(* of floors per pass where the report is about several. A chart of a         *)
(* workload nobody ran is left out, and says why.                             *)
ChartNeeds(chart) ==
    CASE chart \in {"latency", "concurrency"} -> "concurrency"
      [] chart = "filtered" -> "filtered"
      [] chart \in {"churn", "churnimpact"} -> "churn"
      [] chart = "calibration" -> "ef_calibration"
      [] OTHER -> None
FilteredChartEntries(records, dataset) ==
    LET columns == FilterColumnsPresent(records, dataset)
    IN IF columns = {} THEN {<<"filtered">>} ELSE {<<"filtered", c>> : c \in columns}
QpsAtRecallEntries(records, m, dataset) ==
    LET present == {k[2] : k \in {j \in DOMAIN PerDataset(records, m) : j[1] = dataset}}
    IN IF Cardinality(DescribedPasses(m, records)) < 2 THEN {<<"qpsatrecall">>}
       ELSE {<<"qpsatrecall", p>> : p \in present}
WhyAbsent(records, dataset, workload) ==
    LET decliners == {records[i].engine : i \in {j \in DOMAIN records :
            records[j].dataset = dataset /\ workload \in records[j].declined}}
    IN IF decliners = {} THEN <<"not in this profile">> ELSE <<"declined", decliners>>
Charts(records, m, dataset) ==
    LET phases == {records[i].phase : i \in {j \in DOMAIN records :
                                                records[j].dataset = dataset}}
        passes == {records[i].pass : i \in {j \in DOMAIN records :
                                records[j].dataset = dataset}} \ {None}
        entries == {<<c>> : c \in {"pareto", "paretozoom", "latency", "build",
                        "storage", "concurrency", "churn", "churnimpact",
                        "passcompare", "calibration"}}
                   \cup FilteredChartEntries(records, dataset)
                   \cup QpsAtRecallEntries(records, m, dataset)
    IN {e \in entries :
           /\ e = <<"passcompare">> => Cardinality(passes) >= 2
           /\ ChartNeeds(e[1]) \in {None} \cup phases}
=============================================================================
