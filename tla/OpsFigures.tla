----------------------------- MODULE OpsFigures ------------------------------
(* What the report makes of the operational records and of the series beside  *)
(* them: whether they may stand on one chart at all                           *)
(* (report/measurement_versions.py), at which ef they were measured           *)
(* (report/loaders.py), what the peaks are (report/operating.py), what the    *)
(* server did in a window (report/server_windows.py), whether the two paths   *)
(* agree on recall (report/crosscheck.py), and what writes did to readers     *)
(* (report/churn_state.py). Seconds and bytes are integers; a record's extra  *)
(* fields stand beside its own, None where a version did not write them.      *)
EXTENDS BuildFigures

Distance(a, b) == IF a > b THEN a - b ELSE b - a

-----------------------------------------------------------------------------
(* measurement_versions.py                                                    *)

ImplicitVersion == 1
MeasurementVersion(r) == IF r.version = None THEN ImplicitVersion ELSE r.version
OpsMeasurementVersions(records) ==
    {MeasurementVersion(records[i]) :
        i \in {j \in DOMAIN records : records[j].phase # "recall_qps"}}

(* Versions 1 and 2 differ in what is recorded, not in what is measured; the  *)
(* report prints one version and refuses either way.                          *)
MeasureTheSame(versions) == versions \subseteq {1, 2}
VersionsRefused(records, declared) ==
    LET found == OpsMeasurementVersions(records)
    IN /\ found # {}
       /\ declared \notin found \cup {None} \/ Cardinality(found) > 1
(* What the refusal tells its reader to correct.                              *)
RefusalRemedy(records, declared) ==
    LET found == OpsMeasurementVersions(records)
    IN [correct |-> IF declared \notin found \cup {None}
                       /\ Cardinality(found) = 1
                    THEN "the manifest" ELSE "the records",
        same |-> MeasureTheSame(found \cup ({declared} \ {None}))]

-----------------------------------------------------------------------------
(* loaders.py: the memory series and the calibration                          *)

(* Two containers of one unit write one series; a restarted run appends to it *)
(* after a pause, and only the samples of one session are differenced.        *)
SessionGap == 300
Sessions(rows) ==
    LET sorted == SortSeq(rows, LAMBDA a, b : a.t < b.t)
        named == {rows[i].session : i \in DOMAIN rows} \ {None}
        Cut(segments, row) ==
            IF segments # << >> /\ row.t - Last(Last(segments)).t <= SessionGap
            THEN Append(Front(segments), Append(Last(segments), row))
            ELSE Append(segments, <<row>>)
    IN IF named # {}
       THEN {SelectSeq(sorted, LAMBDA r : r.session = s) :
                 s \in {rows[i].session : i \in DOMAIN rows}}
       ELSE ToSet(FoldLeft(Cut, << >>, sorted))

(* Cores the host spent that the container did not, from the ends of a        *)
(* session; shares of a core below the threshold are the machine's own.       *)
ForeignCpuCores == 2
ForeignCpuOne(rows) ==
    LET usable == SelectSeq(rows, LAMBDA r : r.host # None /\ r.ours # None)
        elapsed == Last(usable).t - Head(usable).t
        foreign == (Last(usable).host - Head(usable).host)
                   - (Last(usable).ours - Head(usable).ours)
    IN IF Len(usable) < 2 THEN 0
       ELSE IF elapsed <= 0 \/ foreign < ForeignCpuCores * elapsed THEN 0
       ELSE foreign \div elapsed
ForeignCpu(rows) == Max({0} \cup {ForeignCpuOne(s) : s \in Sessions(rows)})

Resident(rows) ==
    SelectSeq([i \in DOMAIN rows |-> rows[i].rss], LAMBDA v : v # None /\ v > 0)
PeakFromSeries(rows) ==
    IF Resident(rows) = << >> THEN None ELSE Max(ToSet(Resident(rows)))

(* How many samples stood at the container's limit, which reclaim hides.      *)
CeilingPercent == 98
CeilingPressure(rows, limit) ==
    LET values == Resident(rows)
        hit == {i \in DOMAIN values : values[i] * 100 >= limit * CeilingPercent}
    IN IF limit \in {None, 0} \/ values = << >> THEN None
       ELSE IF hit = {} THEN None
       ELSE [samples |-> Len(values), at |-> Cardinality(hit), first |-> Min(hit) - 1]

(* The file a unit's series is in.                                            *)
MemoryStem(r) ==
    <<r.engine, r.dataset, r.pass, r.build.M, r.mode,
      IF r.storage = "InnoDB" THEN None ELSE r.storage>>
LoadMemorySeries(files) ==
    [stem \in {s \in DOMAIN files : files[s] # << >>} |-> files[stem]]

(* The operating point of a build: the ef its measurements were taken at, and *)
(* the recall its calibration gave for that ef. Rows that disagree leave the  *)
(* figure out and say what they disagree on.                                  *)
CalibrationRecords(records) ==
    SelectSeq(records, LAMBDA r : r.phase = "ef_calibration")
OperatingPointKey(r) == <<r.pass, BuildSignature(r)>>
OnlyOf(values) == IF Cardinality(values) = 1 THEN CHOOSE v \in values : TRUE ELSE None
OperatingPoint(records, key) ==
    LET Mine(r) == OperatingPointKey(r) = key
        curve == SelectSeq(CalibrationRecords(records), Mine)
        users == SelectSeq(records, LAMBDA r : /\ Mine(r) /\ r.status # None
                                               /\ r.phase # "ef_calibration")
        efs == ValuesOf(users, "ef")
        at == SelectSeq(curve, LAMBDA r : r.ef = OnlyOf(efs))
    IN [key |-> key, sample |-> Head(users \o curve), ef |-> OnlyOf(efs),
        efConflict |-> Cardinality(efs) > 1,
        recall |-> IF at = << >> THEN None ELSE Head(at).recall,
        status |-> OnlyOf(ValuesOf(users, "status")),
        statusConflict |-> Cardinality(ValuesOf(users, "status")) > 1,
        target |-> OnlyOf(ValuesOf(users, "target")),
        grid |-> ValuesOf(curve, "ef")]
OperatingPoints(records) ==
    {OperatingPoint(records, OperatingPointKey(records[i])) :
        i \in {j \in DOMAIN records : records[j].phase = "ef_calibration"
                                      \/ records[j].status # None}}
CalibrationTargets(records) == ValuesOf(records, "target")

-----------------------------------------------------------------------------
(* operating.py                                                               *)

UnrankedStatuses == {"target_unreached", "floor_above_target"}
UnitOf(r) == <<r.engine, r.dataset, r.pass, r.build.M, r.mode, r.storage>>
(* By the build itself, else by the unit where only one point is of it.       *)
FindPoint(points, r) ==
    LET exact == {p \in points : p.key = OperatingPointKey(r)}
        candidates == {p \in points : UnitOf(p.sample) = UnitOf(r)}
    IN IF exact # {} THEN CHOOSE p \in exact : TRUE ELSE OnlyOf(candidates)
StatusOf(r, point) ==
    IF point # None /\ point.status # None THEN point.status ELSE r.status

FirstEfModeVersion == 4
IsFixedEf(r) == IF r.efMode # None THEN r.efMode = "fixed"
                ELSE MeasurementVersion(r) < FirstEfModeVersion

(* The peak of a unit is the fastest window its clients did not bound; a unit *)
(* whose target was not met, or that has no such window, is not ranked.       *)
ConcurrencyPeak(records, points, unit) ==
    LET rows == SelectSeq(records, LAMBDA r :
            r.phase = "concurrency" /\ r.qps \notin {None, 0} /\ UnitOf(r) = unit)
        eligible == SelectSeq(rows, LAMBDA r : r.bound # TRUE)
        best == FirstBy(eligible, LAMBDA r : <<-r.qps>>)
        point == FindPoint(points, rows[1])
        status == StatusOf(rows[1], point)
        fixed == point = None /\ IsFixedEf(rows[1])
        ranked == status \notin UnrankedStatuses /\ eligible # << >>
    IN [unit |-> unit, ranked |-> ranked, status |-> status,
        qps |-> IF ranked THEN best.qps ELSE None,
        clients |-> IF ranked THEN best.clients ELSE None,
        excluded |-> Len(rows) - Len(eligible), fixed |-> fixed,
        ef |-> IF fixed THEN rows[1].ef
               ELSE IF point = None THEN None ELSE point.ef]
ConcurrencyPeaks(records) ==
    {ConcurrencyPeak(records, OperatingPoints(records), u) :
        u \in {UnitOf(records[i]) : i \in {j \in DOMAIN records :
                  /\ records[j].phase = "concurrency"
                  /\ records[j].qps \notin {None, 0}}}}

-----------------------------------------------------------------------------
(* server_windows.py, limiters.py                                             *)

(* Between the first and the last sample inside the window; a counter that    *)
(* either of them lacks has no figure.                                        *)
WindowFigures(samples, started, ended, cpus) ==
    LET inside == SortSeq(SelectSeq(samples,
                              LAMBDA s : started <= s.t /\ s.t <= ended),
                          LAMBDA a, b : a.t < b.t)
        first == Head(inside)  last == Last(inside)
        Delta(key) == IF first[key] = None \/ last[key] = None THEN None
                      ELSE last[key] - first[key]
        PerSecond(x) == IF x = None THEN None ELSE x \div (last.t - first.t)
    IN IF started = None \/ ended = None THEN None
       ELSE IF ended <= started THEN None
       ELSE IF Len(inside) < 2 THEN None
       ELSE IF last.t <= first.t THEN None
       ELSE [cores |-> PerSecond(Delta("ours")),
             util |-> IF cpus \in {None, 0} \/ Delta("ours") = None THEN None
                      ELSE PerSecond(100 * Delta("ours")) \div cpus,
             cpuPressure |-> PerSecond(Delta("cpuStall")),
             ioPressure |-> PerSecond(Delta("ioStall")), samples |-> Len(inside)]
WindowKey(r) == <<r.engine, r.dataset, r.pass, r.build.M, r.mode, r.storage,
                  r.clients, r.started>>
ServerWindows(records, memory, cpus) ==
    {<<WindowKey(records[i]),
       WindowFigures(memory[MemoryStem(records[i])], records[i].started,
                     records[i].ended, cpus)>> :
        i \in {j \in DOMAIN records : /\ records[j].phase = "concurrency"
                                      /\ MemoryStem(records[j]) \in DOMAIN memory}}
LargestComponent(shares) ==
    LET known == {l \in DOMAIN shares : shares[l] # None}
    IN IF known = {} THEN None
       ELSE CHOOSE l \in known : \A k \in known : shares[k] <= shares[l]

-----------------------------------------------------------------------------
(* crosscheck.py                                                              *)

(* Recalls of two definitions are never compared.                             *)
RecallKind(r) == IF r.phase = "recall_qps" THEN "distance_threshold"
                 ELSE IF r.kind = None THEN "id_overlap" ELSE r.kind

(* An engine whose ann files name no build mode is matched without one.       *)
ModeAxisEngines(ann) ==
    {ann[i].engine : i \in {j \in DOMAIN ann : ann[j].mode # None}}
CrosscheckKey(r, modeEngines) ==
    <<r.engine, r.dataset, r.pass, r.build.M, r.ef, r.build.quantization,
      IF r.engine \in modeEngines THEN r.mode ELSE None, r.storage>>

(* Within twice the half width of the interval, and a hundredth at least.     *)
MinTolerance == 10
Tolerance(r) == IF r.half = None THEN MinTolerance ELSE Max({MinTolerance, 2 * r.half})
CrosscheckRow(a, o) ==
    [ann |-> a, ops |-> o, delta |-> Distance(a.recall, o.recall),
     passed |-> Distance(a.recall, o.recall) <= Tolerance(o)]
CrosscheckSides(records) ==
    LET Of(phase) == SelectSeq(records,
                        LAMBDA r : r.phase = phase /\ r.recall # None)
    IN [ann |-> Of("recall_qps"),
        ops |-> SelectSeq(Of("ef_calibration"),
                    LAMBDA r : RecallKind(r) = "distance_threshold"),
        other |-> SelectSeq(Of("ef_calibration"),
                    LAMBDA r : RecallKind(r) # "distance_threshold")]
CrosscheckMatches(records) ==
    LET sides == CrosscheckSides(records)
        modes == ModeAxisEngines(sides.ann)
    IN {CrosscheckRow(sides.ann[p[1]], sides.ops[p[2]]) :
           p \in {q \in (DOMAIN sides.ann) \X (DOMAIN sides.ops) :
                     CrosscheckKey(sides.ann[q[1]], modes)
                     = CrosscheckKey(sides.ops[q[2]], modes)}}

(* What there was to compare of a pair, so that no match is never silent.     *)
CrosscheckCoverage(records, engine, dataset) ==
    LET sides == CrosscheckSides(records)
        Mine(rows) == SelectSeq(rows,
                          LAMBDA r : r.engine = engine /\ r.dataset = dataset)
        Ms(rows) == {Mine(rows)[i].build.M : i \in DOMAIN Mine(rows)} \ {None}
    IN IF Ms(sides.ann) = {} THEN "no recall sweep"
       ELSE IF Ms(sides.ops) = {}
       THEN IF Mine(sides.other) # << >> THEN "another recall"
            ELSE "no calibration sweep"
       ELSE IF Ms(sides.ann) \cap Ms(sides.ops) = {} THEN "no M overlap"
       ELSE IF \E row \in CrosscheckMatches(records) :
                  row.ann.engine = engine /\ row.ann.dataset = dataset
       THEN "matched" ELSE "nothing matched"

(* Two engines whose order by speed differs between the paths, at recalls     *)
(* that are near in both.                                                     *)
RecallBand == 20
QpsInversions(matches) ==
    {pair \in matches \X matches :
        LET a == pair[1]  b == pair[2]
        IN /\ a.ann.engine # b.ann.engine
           /\ \A r \in {a.ann.qps, a.ops.qps, b.ann.qps, b.ops.qps} : r # None
           /\ <<a.ann.dataset, a.ann.pass, a.ann.build.M, a.ann.ef>>
              = <<b.ann.dataset, b.ann.pass, b.ann.build.M, b.ann.ef>>
           /\ a.ann.build.quantization = b.ann.build.quantization
           /\ Distance(a.ann.recall, b.ann.recall) <= RecallBand
           /\ Distance(a.ops.recall, b.ops.recall) <= RecallBand
           /\ a.ann.qps > b.ann.qps /\ a.ops.qps < b.ops.qps}

-----------------------------------------------------------------------------
(* churn_state.py: what a reader measured while rows were written is no churn *)
(* measurement; it has a table of its own, with the ratio computed again.     *)
IsDuringWrites(r) == r.during = TRUE
ChurnMeasurements(records) ==
    SelectSeq(records, LAMBDA r : r.phase = "churn" /\ ~ IsDuringWrites(r))
DuringWritesRow(r) ==
    LET known == r.baseline \notin {None, 0} /\ r.p99 \notin {None, 0}
        ratio == IF known THEN (100 * r.p99) \div r.baseline ELSE None
    IN [unit |-> UnitOf(r), ratio |-> ratio,
        disagrees |-> known /\ r.stamped # None /\ Distance(ratio, r.stamped) > 1]
DuringWritesRows(records) ==
    LET mine == SelectSeq(records, LAMBDA r : r.phase = "churn" /\ IsDuringWrites(r))
    IN {DuringWritesRow(mine[i]) : i \in DOMAIN mine}
=============================================================================
