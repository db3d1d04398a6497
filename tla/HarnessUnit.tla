----------------------------- MODULE HarnessUnit -----------------------------
(* One unit inside the client container: harness/main.py and the workloads it *)
(* calls, calibrate, concurrency and filtered with the build before them and  *)
(* churn after them (Churn has churn in detail, ClientPool a window of it).   *)
(*                                                                            *)
(* The driver is one session on the server: an ef_search and an iterative     *)
(* scan mode that stay set until somebody sets them again. A window of the    *)
(* pool is the spans of its clients; recall is a whole number of percent.     *)
EXTENDS Spans, FiniteSets

CONSTANTS
    Arguments,     \* command lines: [workloads, ef_mode, scans, sampler]
    Engines,       \* drivers: [declines, hasScan, incremental, waits]
    FixedEf,       \* --ef-search
    EfGrid,        \* --ef-grid, a set: ascending_grid sorts and dedupes it
    Recalls,       \* what a calibration point may measure
    TargetRecall, FloorMargin,
    ClientCounts,  \* --client-counts
    Queries,       \* vectors in the query pool
    Repeats,       \* --concurrency-repeats
    ProfileClients,\* --profile-window-clients, or None
    Collected,     \* what one client's collector may hold at the end
    WindowStart, Cutoff,
    Points,        \* columns times selectivities
    Planned, Warmup, Costs, Budget   \* of a filtered point, in units of time

AllWorkloads == {"build", "concurrency", "filtered", "churn"}
CalibratedWorkloads == {"concurrency", "filtered", "churn"}

ASSUME UnitAssumption ==
    /\ \A a \in Arguments : /\ a.ef_mode \in {"fixed", "calibrated"}
                            /\ a.scans \in Seq(STRING)
                            /\ a.sampler \in BOOLEAN
    /\ \A e \in Engines : /\ e.declines \subseteq AllWorkloads
                          /\ {e.hasScan, e.incremental} \subseteq BOOLEAN
                          /\ e.waits \in {"none", "counters", "sampled"}
    /\ EfGrid \in SUBSET Nat /\ IsFiniteSet(EfGrid) /\ EfGrid # {}
    /\ ClientCounts \in Seq(Nat) /\ Queries \in Nat
    /\ {Repeats, Points, Planned} \subseteq Nat \ {0}
    /\ Warmup \in Nat /\ Costs \subseteq Nat /\ Budget \in Int
    /\ WindowStart < Cutoff /\ None \notin Int

(* What a sweep may choose, and what is said of how it chose.                 *)
Selections == [ef : EfGrid, confirmed : BOOLEAN,
            status : {"ok", "floor_above_target", "target_unreached"}]
ASSUME NoneIsNoSelection == None \notin Selections

VARIABLES
    pc,
    args, engine,  \* chosen once
    workloads,     \* what is left of args.workloads after the driver declined
    table,         \* "absent", "empty", "loaded", "indexed" or "churned"
    session,       \* the driver's connection: [ef, scan]
    open,          \* what the process holds open
    extra,         \* Recorder._run_extra
    records,
    ef,            \* the local ef_search of main
    points,        \* calibration points of the sweep under way
    calibration,   \* what the sweep chose, or None
    level, samples, baseline,        \* of concurrency.run
    modes, mode, point,              \* of filtered.run
    clock, warmed, executed, slowest,\* of a filtered point; slowest: history
    failed, rc

choice == <<args, engine>>
unit == <<workloads, table, session, open, extra>>
levels == <<level, samples, baseline>>
filtering == <<modes, mode, point, clock, warmed, executed, slowest>>
vars == <<pc, choice, unit, records, ef, points, calibration, levels,
          filtering, failed, rc>>

Default == "default"
NoBaseline == [qps |-> None, p50 |-> None]

Init ==
    /\ pc = "parse"
    /\ args \in Arguments /\ engine \in Engines
    /\ workloads = {} /\ table \in {"absent", "indexed"}
    /\ session = [ef |-> Default, scan |-> Default]
    /\ open = {} /\ extra = [ef_mode |-> None, status |-> None]
    /\ records = << >> /\ ef = FixedEf /\ points = << >> /\ calibration = None
    /\ level = 1 /\ samples = << >> /\ baseline = NoBaseline
    /\ modes = << >> /\ mode = 1 /\ point = 1
    /\ clock = 0 /\ warmed = 0 /\ executed = 0 /\ slowest = 0
    /\ failed = FALSE /\ rc = None

At(place) == pc = place
Go(place) == pc' = place

-----------------------------------------------------------------------------
(* main, up to the first workload                                             *)

RefuseArguments ==
    /\ At("parse") /\ ~ args.workloads \subseteq AllWorkloads
    /\ rc' = 2 /\ Go("done")
    /\ UNCHANGED <<choice, unit, records, ef, points, calibration, levels,
                   filtering, failed>>

(* The data set is read, the recorder opened with what is known of every      *)
(* record, and the driver made; what it declines is taken off the list.       *)
Prepare ==
    /\ At("parse") /\ args.workloads \subseteq AllWorkloads
    /\ open' = {"recorder"}
    /\ extra' = [extra EXCEPT !.ef_mode = args.ef_mode]
    /\ workloads' = args.workloads \ engine.declines
    /\ Go("connect")
    /\ UNCHANGED <<choice, table, session, records, ef, points, calibration,
                   levels, filtering, failed, rc>>

(* A missing data set or driver ends the process before the try.              *)
PrepareFails ==
    /\ At("parse") /\ args.workloads \subseteq AllWorkloads
    /\ rc' = 1 /\ Go("done")
    /\ UNCHANGED <<choice, unit, records, ef, points, calibration, levels,
                   filtering, failed>>

Connect ==
    /\ At("connect")
    /\ open' = open \cup {"driver"}
    /\ Go(IF "build" \in workloads THEN "build" ELSE "rows")
    /\ UNCHANGED <<choice, workloads, table, session, extra, records, ef, points,
                   calibration, levels, filtering, failed, rc>>

(* The record that says everything a later one is compared by: the phase, the *)
(* ef_search it names, the session it was answered by, and its stamps.        *)
Recorded(phase, named, answered, scan, more) ==
    [phase |-> phase, ef |-> named, at |-> answered, scan |-> scan,
     table |-> table, extra |-> extra, more |-> more]

(* build.run: the schema is made anew and the rows loaded; an engine that     *)
(* does not maintain its graph during the load builds it after.               *)
Recreate ==
    /\ At("build") /\ table # "empty"
    /\ table' = "empty"
    /\ UNCHANGED <<pc, choice, workloads, session, open, extra, records, ef,
                   points, calibration, levels, filtering, failed, rc>>

Load ==
    /\ At("build") /\ table = "empty"
    /\ table' = IF engine.incremental THEN "indexed" ELSE "loaded"
    /\ Go("index")
    /\ UNCHANGED <<choice, workloads, session, open, extra, records, ef, points,
                   calibration, levels, filtering, failed, rc>>

CreateIndex ==
    /\ At("index") /\ table = "loaded"
    /\ table' = "indexed"
    /\ UNCHANGED <<pc, choice, workloads, session, open, extra, records, ef,
                   points, calibration, levels, filtering, failed, rc>>

RecordBuild ==
    /\ At("index") /\ table = "indexed"
    /\ records' = records \o
         << Recorded("ingest", None, None, None, None),
            Recorded("index_build", None, None, None, None) >>
    /\ Go("session")
    /\ UNCHANGED <<choice, unit, ef, points, calibration, levels, filtering,
                   failed, rc>>

(* Without a build the rows of an earlier one are measured, if there are any. *)
CountRows ==
    /\ At("rows")
    /\ IF table = "absent" THEN rc' = 3 /\ Go("close")
                           ELSE rc' = rc /\ Go("session")
    /\ UNCHANGED <<choice, unit, records, ef, points, calibration, levels,
                   filtering, failed>>

ShouldCalibrate == /\ args.ef_mode = "calibrated"
                   /\ workloads \cap CalibratedWorkloads # {}

(* The workloads run in this order, whatever the order of the command line.   *)
NextAfter(w) ==
    IF "concurrency" \in workloads /\ w = "calibration" THEN "concurrency"
    ELSE IF "filtered" \in workloads /\ w \in {"calibration", "concurrency"}
         THEN "filtered"
    ELSE IF "churn" \in workloads /\ w # "churn" THEN "churn"
    ELSE "close"

SetSession ==
    /\ At("session")
    /\ session' = [session EXCEPT !.ef = FixedEf]
    /\ Go(IF ShouldCalibrate THEN "calibrate" ELSE NextAfter("calibration"))
    /\ UNCHANGED <<choice, workloads, table, open, extra, records, ef, points,
                   calibration, levels, filtering, failed, rc>>

-----------------------------------------------------------------------------
(* calibrate.run                                                              *)

Grid == CHOOSE g \in [1 .. Cardinality(EfGrid) -> EfGrid] :
            \A i, j \in DOMAIN g : i < j => g[i] < g[j]
Reached(p) == p.recall >= TargetRecall

(* A plausible bug: the first point that reaches the target ends the sweep,   *)
(* before the larger one has confirmed it.                                    *)
Confirmed_First(ps) == Len(ps) >= 1 /\ Reached(ps[Len(ps)])

(* Two points in a row have reached the target: the sweep is over.            *)
Confirmed(ps) == Len(ps) >= 2 /\ Reached(ps[Len(ps)]) /\ Reached(ps[Len(ps) - 1])

Least(S) == CHOOSE i \in S : \A j \in S : i <= j

(* The index into the points, and what is to be said of the choice.           *)
ChooseOf(ps) ==
    LET alone == {i \in DOMAIN ps : Reached(ps[i])}
        backed == {i \in alone : i + 1 \in alone}
    IN IF ps[1].recall > TargetRecall + FloorMargin
       THEN <<1, "floor_above_target">>
       ELSE IF backed # {} THEN <<Least(backed), "ok">>
       ELSE IF alone # {} THEN <<Least(alone), "ok">>
       ELSE <<Len(ps), "target_unreached">>

Select(ps) ==
    LET c == ChooseOf(ps)
    IN [ef |-> ps[c[1]].ef, status |-> c[2],
        confirmed |-> c[1] < Len(ps) /\ Reached(ps[c[1] + 1])]

CalibratePoint ==
    /\ At("calibrate") /\ Len(points) < Len(Grid) /\ ~ Confirmed(points)
    /\ \E recall \in Recalls :
         LET e == Grid[Len(points) + 1] IN
         /\ session' = [session EXCEPT !.ef = e]
         /\ points' = Append(points, [ef |-> e, recall |-> recall])
         /\ records' = Append(records, Recorded("ef_calibration", e, e,
                                                session.scan, None))
    /\ UNCHANGED <<pc, choice, workloads, table, open, extra, ef, calibration,
                   levels, filtering, failed, rc>>

EndSweep ==
    /\ At("calibrate") /\ (Len(points) = Len(Grid) \/ Confirmed(points))
    /\ Go("select")
    /\ UNCHANGED <<choice, unit, records, ef, points, calibration, levels,
                   filtering, failed, rc>>

(* A plausible bug: the workloads go on with the ef_search of the command     *)
(* line.                                                                      *)
SelectPoint_FixedEf ==
    /\ At("select")
    /\ calibration' = Select(points)
    /\ session' = [session EXCEPT !.ef = calibration'.ef]
    /\ ef' = FixedEf
    /\ extra' = [extra EXCEPT !.status = calibration'.status]
    /\ points' = << >>
    /\ Go(NextAfter("calibration"))
    /\ UNCHANGED <<choice, workloads, table, open, records, levels, filtering,
                   failed, rc>>

(* The choice is set on the session, kept for the workloads, and declared for *)
(* every record from here on.                                                 *)
SelectPoint ==
    /\ At("select")
    /\ calibration' = Select(points)
    /\ session' = [session EXCEPT !.ef = calibration'.ef]
    /\ ef' = calibration'.ef
    /\ extra' = [extra EXCEPT !.status = calibration'.status]
    /\ points' = << >>
    /\ Go(NextAfter("calibration"))
    /\ UNCHANGED <<choice, workloads, table, open, records, levels, filtering,
                   failed, rc>>

-----------------------------------------------------------------------------
(* concurrency.run                                                            *)

Clients == ClientCounts[level]

(* A driver is connected for what every record says of the server, and closed *)
(* before the first window.                                                   *)
BeginConcurrency ==
    /\ At("concurrency")
    /\ level' = 1 /\ baseline' = NoBaseline
    /\ open' = open \cup {"meta"}
    /\ Go("closeMeta")
    /\ UNCHANGED <<choice, workloads, table, session, extra, records, ef, points,
                   calibration, samples, filtering, failed, rc>>

CloseMeta ==
    /\ At("closeMeta")
    /\ open' = open \ {"meta"}
    /\ Go(IF failed THEN "close" ELSE "level")
    /\ UNCHANGED <<choice, workloads, table, session, extra, records, ef, points,
                   calibration, levels, filtering, failed, rc>>

(* More clients than there are queries: no level.                             *)
SkipLevel ==
    /\ At("level") /\ level <= Len(ClientCounts) /\ Clients > Queries
    /\ level' = level + 1
    /\ UNCHANGED <<pc, choice, unit, records, ef, points, calibration, samples,
                   baseline, filtering, failed, rc>>

(* One window, of which nothing but its throughput is kept, before the        *)
(* measured ones.                                                             *)
WarmWindow ==
    /\ At("level") /\ level <= Len(ClientCounts) /\ Clients <= Queries
    /\ samples' = << >>
    /\ Go("capture")
    /\ UNCHANGED <<choice, unit, records, ef, points, calibration, level,
                   baseline, filtering, failed, rc>>

EndLevels ==
    /\ At("level") /\ level > Len(ClientCounts)
    /\ baseline' = NoBaseline /\ samples' = << >>
    /\ Go(NextAfter("concurrency"))
    /\ UNCHANGED <<choice, unit, records, ef, points, calibration, level,
                   filtering, failed, rc>>

(* WaitCapture.begin: a connection of its own with a first snapshot, or a     *)
(* process that samples, or a reason for neither. It raises nothing.          *)
BeginCapture ==
    /\ At("capture")
    /\ \/ open' = open
       \/ engine.waits = "counters" /\ open' = open \cup {"side"}
       \/ /\ engine.waits = "sampled" /\ args.sampler
          /\ open' = open \cup {"side", "sampler"}
    /\ Go("window")
    /\ UNCHANGED <<choice, workloads, table, session, extra, records, ef, points,
                   calibration, levels, filtering, failed, rc>>

Wall == Cutoff - WindowStart

(* No two queries of the window were in flight at once.                       *)
TakeTurns(spans) ==
    \A i, j \in DOMAIN spans :
        i < j => \/ spans[i].finished <= spans[j].started
                 \/ spans[j].finished <= spans[i].started

(* What ClientPool.stop makes of the collectors, and _one_window of that.     *)
WindowOf(collectors, clients) ==
    LET merged == MergeCollectors(collectors, Wall, Cutoff, WindowStart)
        held == WindowConcurrency(collectors, Wall, Cutoff, WindowStart)
        kept == SamplesThat(collectors, WindowStart, Cutoff, Kept)
    IN [merged |-> merged, outstanding |-> held.outstanding,
        served |-> held.served, clients |-> clients,
        spans |-> Len(FlattenSeq(collectors)), turns |-> TakeTurns(kept)]

MeasureWindow ==
    /\ At("window")
    /\ \E collectors \in [1 .. Clients -> Collected] :
         samples' = Append(samples, WindowOf(collectors, Clients))
    /\ Go("finish")
    /\ UNCHANGED <<choice, unit, records, ef, points, calibration, level,
                   baseline, filtering, failed, rc>>

(* A plausible bug: the capture is finished after the window, and not when    *)
(* the window has raised.                                                     *)
FinishCapture_Returned ==
    /\ At("finish")
    /\ open' = IF failed THEN open ELSE open \ {"side", "sampler"}
    /\ Go(IF failed THEN "close"
          ELSE IF Len(samples) < Repeats THEN "capture"
          ELSE IF ProfileClients = Clients THEN "profile" ELSE "choose")
    /\ UNCHANGED <<choice, workloads, table, session, extra, records, ef, points,
                   calibration, levels, filtering, failed, rc>>

(* WaitCapture.finish, in the finally of the window: the sampler is stopped   *)
(* and joined, the connection closed.                                         *)
FinishCapture ==
    /\ At("finish")
    /\ open' = open \ {"side", "sampler"}
    /\ Go(IF failed THEN "close"
          ELSE IF Len(samples) < Repeats THEN "capture"
          ELSE IF ProfileClients = Clients THEN "profile" ELSE "choose")
    /\ UNCHANGED <<choice, workloads, table, session, extra, records, ef, points,
                   calibration, levels, filtering, failed, rc>>

(* _profiled_window (ProfileWindow has its handshake): nothing of it is       *)
(* published.                                                                 *)
ProfiledWindow ==
    /\ At("profile")
    /\ Go("choose")
    /\ UNCHANGED <<choice, unit, records, ef, points, calibration, levels,
                   filtering, failed, rc>>

(* The window with the median throughput is the one that is published.        *)
ByQps == SortSeq(samples, LAMBDA a, b : Less(a.merged.qps, b.merged.qps))
Chosen == ByQps[(Len(samples) \div 2) + 1]

BaselineAfter(w) ==
    IF Clients = 1 THEN [qps |-> w.merged.qps, p50 |-> w.merged.p50]
                   ELSE baseline

RawEfficiency(w, b) ==
    IF b.qps = None THEN None
    ELSE IF b.qps[1] = 0 THEN None
    ELSE Over(Quotient(w.merged.qps, b.qps), Clients)

(* An efficiency over a baseline that was measured cold is none.              *)
EfficiencyVerdict(raw, b, w, clients) ==
    IF raw = None THEN [efficiency |-> None, reliability |-> None]
    ELSE LET credible == BaselineIsCredible(b.p50, w.merged.p50) IN
         IF clients = 1 THEN [efficiency |-> raw, reliability |-> "credible"]
         ELSE IF credible = FALSE
              THEN [efficiency |-> None, reliability |-> "baseline_not_credible"]
         ELSE [efficiency |-> raw,
               reliability |-> IF credible = None THEN "unchecked" ELSE "credible"]

RecordLevel ==
    /\ At("choose")
    /\ LET w == Chosen
           b == BaselineAfter(w)
           verdict == EfficiencyVerdict(RawEfficiency(w, b), b, w, Clients)
           status == ScalingStatus(w.served, Clients, verdict.efficiency,
                                   w.outstanding)
       IN /\ records' = Append(records,
                Recorded("concurrency", ef, ef, Default,
                         [clients |-> Clients, status |-> status,
                          turns |-> w.turns,
                          efficient |-> verdict.efficiency # None]))
          /\ baseline' = b
    /\ level' = level + 1 /\ samples' = << >>
    /\ Go("level")
    /\ UNCHANGED <<choice, unit, ef, points, calibration, filtering, failed, rc>>

-----------------------------------------------------------------------------
(* filtered.run                                                               *)

(* The names of a list, each where it is first.                               *)
Distinct(names) ==
    LET seen[i \in 0 .. Len(names)] ==
            IF i = 0 THEN << >>
            ELSE IF names[i] \in ToSet(seen[i - 1]) THEN seen[i - 1]
            ELSE Append(seen[i - 1], names[i])
    IN seen[Len(names)]

(* One pass over the grid per distinct mode, at the server's default when no  *)
(* mode is asked for or the driver has none to set.                           *)
ScanModes ==
    IF args.scans = << >> \/ ~ engine.hasScan THEN << None >>
    ELSE Distinct(args.scans)

BeginFiltered ==
    /\ At("filtered")
    /\ session' = [session EXCEPT !.ef = ef]
    /\ modes' = ScanModes /\ mode' = 1 /\ point' = 1
    /\ Go("mode")
    /\ UNCHANGED <<choice, workloads, table, open, extra, records, ef, points,
                   calibration, levels, clock, warmed, executed, slowest,
                   failed, rc>>

SetMode ==
    /\ At("mode") /\ mode <= Len(modes)
    /\ session' = [session EXCEPT !.scan = IF modes[mode] = None THEN @
                                           ELSE modes[mode]]
    /\ point' = 1
    /\ clock' = 0 /\ warmed' = 0 /\ executed' = 0 /\ slowest' = 0
    /\ Go("warm")
    /\ UNCHANGED <<choice, workloads, table, open, extra, records, ef, points,
                   calibration, levels, modes, mode, failed, rc>>

EndFiltered ==
    /\ At("mode") /\ mode > Len(modes)
    /\ Go(NextAfter("filtered"))
    /\ UNCHANGED <<choice, unit, records, ef, points, calibration, levels,
                   filtering, failed, rc>>

Query(cost) == /\ clock' = clock + cost
               /\ slowest' = IF cost > slowest THEN cost ELSE slowest

(* A plausible bug: the warm-up may use the whole budget.                     *)
WarmupIsOver_Budget == warmed >= Warmup \/ warmed >= Planned \/ clock > Budget

(* One clock runs over both: a fifth of the budget is the warm-up's. A budget *)
(* that is not positive is none.                                              *)
WarmupIsOver == \/ warmed >= Warmup \/ warmed >= Planned
                \/ Budget > 0 /\ 5 * clock > Budget

WarmQuery ==
    /\ At("warm") /\ ~ WarmupIsOver
    /\ \E cost \in Costs : Query(cost)
    /\ warmed' = warmed + 1
    /\ UNCHANGED <<pc, choice, unit, records, ef, points, calibration, levels,
                   modes, mode, point, executed, failed, rc>>

EndWarmup ==
    /\ At("warm") /\ WarmupIsOver
    /\ Go("query")
    /\ UNCHANGED <<choice, unit, records, ef, points, calibration, levels,
                   filtering, failed, rc>>

BudgetIsSpent == Budget > 0 /\ clock > Budget

MeasureQuery ==
    /\ At("query") /\ executed < Planned /\ ~ BudgetIsSpent
    /\ \E cost \in Costs : Query(cost)
    /\ executed' = executed + 1
    /\ UNCHANGED <<pc, choice, unit, records, ef, points, calibration, levels,
                   modes, mode, point, warmed, failed, rc>>

EndPoint ==
    /\ At("query") /\ (executed = Planned \/ BudgetIsSpent)
    /\ Go("record")
    /\ UNCHANGED <<choice, unit, records, ef, points, calibration, levels,
                   filtering, failed, rc>>

(* The point is recorded however many of its queries were executed, with no   *)
(* recall when there were none.                                               *)
RecordPoint ==
    /\ At("record")
    /\ records' = Append(records,
         Recorded("filtered", ef, session.ef, session.scan,
                  [iterative_scan |-> modes[mode],
                   bounded |-> executed < Planned,
                   recall |-> executed > 0]))
    /\ clock' = 0 /\ warmed' = 0 /\ executed' = 0 /\ slowest' = 0
    /\ IF point < Points THEN point' = point + 1 /\ mode' = mode /\ Go("warm")
                         ELSE point' = point /\ mode' = mode + 1 /\ Go("mode")
    /\ UNCHANGED <<choice, unit, ef, points, calibration, levels, modes,
                   failed, rc>>

-----------------------------------------------------------------------------
(* Churn and the end                                                          *)

(* churn.run, with its steps left to Churn: it sets its ef_search, rewrites a *)
(* part of the table, and records what it then measures.                      *)
RunChurn ==
    /\ At("churn")
    /\ session' = [session EXCEPT !.ef = ef]
    /\ table' = "churned"
    /\ records' = Append(records,
         [Recorded("churn", ef, ef, session.scan, None) EXCEPT !.table = table'])
    /\ Go("close")
    /\ UNCHANGED <<choice, workloads, open, extra, ef, points, calibration,
                   levels, filtering, failed, rc>>

InTry == {"connect", "build", "index", "rows", "session", "calibrate", "select",
          "concurrency", "closeMeta", "level", "window", "profile", "choose",
          "filtered", "mode", "warm", "query", "record", "churn"}

(* An exception in the try: what has a finally around it ends there first,    *)
(* then the traceback is noted and the unit closes.                           *)
Raise ==
    /\ pc \in InTry /\ ~ failed
    /\ failed' = TRUE
    /\ Go(CASE pc = "closeMeta" -> "closeMeta"
            [] pc = "window" -> "finish"
            [] OTHER -> "close")
    /\ table' = IF pc = "churn" THEN "churned" ELSE table
    /\ UNCHANGED <<choice, workloads, session, open, extra, records, ef, points,
                   calibration, levels, filtering, rc>>

Close ==
    /\ At("close")
    /\ open' = open \ {"driver", "recorder"}
    /\ rc' = IF rc # None THEN rc ELSE IF failed THEN 1 ELSE 0
    /\ Go("done")
    /\ UNCHANGED <<choice, workloads, table, session, extra, records, ef, points,
                   calibration, levels, filtering, failed>>

Next ==
    \/ RefuseArguments \/ Prepare \/ PrepareFails \/ Connect
    \/ Recreate \/ Load \/ CreateIndex \/ RecordBuild \/ CountRows \/ SetSession
    \/ CalibratePoint \/ EndSweep \/ SelectPoint
    \/ BeginConcurrency \/ CloseMeta \/ SkipLevel \/ WarmWindow \/ EndLevels
    \/ BeginCapture \/ MeasureWindow \/ FinishCapture \/ ProfiledWindow
    \/ RecordLevel
    \/ BeginFiltered \/ SetMode \/ EndFiltered \/ WarmQuery \/ EndWarmup
    \/ MeasureQuery \/ EndPoint \/ RecordPoint
    \/ RunChurn \/ Raise \/ Close

Spec == Init /\ [][Next]_vars

-----------------------------------------------------------------------------
(* Properties                                                                 *)

(* Type correctness.                                                          *)
TypeOK ==
    /\ args \in Arguments /\ engine \in Engines
    /\ workloads \subseteq AllWorkloads
    /\ table \in {"absent", "empty", "loaded", "indexed", "churned"}
    /\ open \subseteq {"recorder", "driver", "meta", "side", "sampler"}
    /\ level \in 1 .. Len(ClientCounts) + 1 /\ Len(samples) <= Repeats
    /\ warmed \in 0 .. Warmup /\ executed \in 0 .. Planned
    /\ calibration \in Selections \cup {None}
    /\ failed \in BOOLEAN /\ rc \in {None, 0, 1, 2, 3}

(* Ending the sweep early is sound: whatever the points that were not         *)
(* measured would have shown, the choice among all of them would have been    *)
(* the same (calibrate.run, _choose).                                         *)
EarlyStopIsSound ==
    At("select") =>
        LET n == Len(points) IN
        \A rest \in [n + 1 .. Len(Grid) -> Recalls] :
            Select(points) = Select([i \in DOMAIN Grid |->
                IF i <= n THEN points[i] ELSE [ef |-> Grid[i], recall |-> rest[i]]])

(* Every measurement was answered at the ef_search its record names and the   *)
(* scan mode it names; after a calibration that is the one it chose, and the  *)
(* record says how the choice was made; and it was taken of the table as it   *)
(* was loaded, except churn's (main, the order of the workloads, Recorder).   *)
MeasuredAsDeclared ==
    \A i \in DOMAIN records :
        LET r == records[i] IN
        /\ r.ef = r.at
        /\ r.phase \in CalibratedWorkloads =>
             IF args.ef_mode = "calibrated"
             THEN calibration # None /\ r.ef = calibration.ef
                                     /\ r.extra.status = calibration.status
             ELSE r.ef = FixedEf /\ r.extra.status = None
        /\ r.phase = "filtered" => r.more.iterative_scan \in {r.scan, None}
        /\ (r.table = "churned") = (r.phase = "churn")
        /\ r.extra.ef_mode = args.ef_mode

(* The throughput, the latencies and the concurrency of a window are of the   *)
(* same queries, and every query is one of those or counted as discarded:     *)
(* Little's law holds exactly (latency.merge_collectors, window_concurrency). *)
OneKeptSet ==
    \A i \in DOMAIN samples :
        LET w == samples[i]
            m == w.merged IN
        /\ m.queries_executed + m.inflight + m.prewindow = w.spans
        /\ (w.outstanding = None) = (m.queries_executed = 0)
        /\ m.queries_executed > 0 =>
             w.outstanding[1] * m.qps[2] * m.mean[2]
                 = m.qps[1] * m.mean[1] * w.outstanding[2]

(* A pool of three or more clients whose queries took turns is not published  *)
(* as if they had run at once, whatever baseline it is compared with          *)
(* (scaling.scaling_status, _efficiency_verdict).                             *)
SerializedIsRefused ==
    \A i \in DOMAIN records :
        LET r == records[i] IN
        (r.phase = "concurrency" /\ r.more.clients >= 3 /\ r.more.turns)
            => r.more.status # Ok

(* What a concurrency record says of its windows is so.                       *)
WindowsAreSound == OneKeptSet /\ SerializedIsRefused

(* The budget of a filtered point leaves it a measured query, unless one      *)
(* query alone takes four fifths of the budget (_measure_point: the warm-up   *)
(* and the measurement share one clock).                                      *)
BudgetLeavesAQuery ==
    (At("record") /\ executed = 0 /\ Budget > 0) => 5 * slowest > 4 * Budget

(* A window's side connection and sampler are there for that window only, and *)
(* nothing is open when the unit has ended, whatever raised.                  *)
UnitLeavesNothing ==
    /\ open \cap {"side", "sampler"} # {} => pc \in {"window", "finish"}
    /\ "meta" \in open => At("closeMeta")
    /\ At("done") => open = {}

RecordsOf(phase) == Cardinality({i \in DOMAIN records : records[i].phase = phase})
LevelsMeasured ==
    Cardinality({i \in DOMAIN ClientCounts : ClientCounts[i] <= Queries})

(* A unit that ends with 0 has every record of every workload it was asked    *)
(* for and its driver did not decline; one that ends otherwise says so.       *)
SuccessIsWhole ==
    rc = 0 =>
        /\ ~ failed
        /\ workloads = args.workloads \ engine.declines
        /\ "build" \in workloads =>
             RecordsOf("ingest") = 1 /\ RecordsOf("index_build") = 1
        /\ "concurrency" \in workloads => RecordsOf("concurrency") = LevelsMeasured
        /\ "filtered" \in workloads =>
             RecordsOf("filtered") = Len(ScanModes) * Points
        /\ "churn" \in workloads => RecordsOf("churn") = 1
        /\ ShouldCalibrate = (RecordsOf("ef_calibration") > 0)

(* A unit ends with nothing open, and ends well only when it is complete.     *)
UnitEndsWhole == UnitLeavesNothing /\ SuccessIsWhole
=============================================================================
