----------------------------- MODULE BuildChoice -----------------------------
(* Which builds of a swept grid are carried on: into a second stage           *)
(* (orchestrator/build_selection.py, select_builds.py), as the reference      *)
(* build of the report (reference_build.py, report/builds.py), and as the     *)
(* build of the operational tests (ops_build_selection.py,                    *)
(* report/ops_build_choice.py). A point is what a result file says:           *)
(*   [engine, dataset, build, storage, mode, ef, recall, qps, bytes, used]    *)
(* with recall in thousandths; a named build is a function over some axes.    *)
EXTENDS Grid

Floors == {900, 950, 990}
NearRecall == 15
Infinity == 1000000000

(* The order of tuples Python compares keys by, and the first of a sequence   *)
(* that no other precedes in it.                                              *)
Precedes(a, b) ==
    \E i \in DOMAIN a : a[i] < b[i] /\ \A j \in 1..(i - 1) : a[j] = b[j]
FirstBy(seq, Key(_)) ==
    seq[Min({i \in DOMAIN seq :
                \A j \in DOMAIN seq : ~ Precedes(Key(seq[j]), Key(seq[i]))})]

-----------------------------------------------------------------------------
(* build_selection.py                                                         *)

(* A record's own columns, else what its result file was named by.            *)
BuildOfRecord(record) ==
    [axis \in BuildAxes |-> IF record.columns[axis] # None
                            THEN record.columns[axis] ELSE record.named[axis]]
Normalize(engine, build) ==
    IF HasM(engine) THEN build ELSE [build EXCEPT !.M = None]

(* Only points of one corpus that used the vector index are selected from.    *)
LoadPoints(records, pass, dataset) ==
    LET mine == SelectSeq(records,
                    LAMBDA r : /\ r.pass = pass /\ r.recall # None /\ r.qps # None
                               /\ dataset \in {None, r.dataset})
        kept == SelectSeq(mine, LAMBDA r : r.used # FALSE)
    IN IF Cardinality({kept[i].dataset : i \in DOMAIN kept}) > 1
       THEN [refused |-> "several corpora", points |-> << >>, scans |-> 0]
       ELSE [refused |-> None, points |-> kept, scans |-> Len(mine) - Len(kept)]

(* The upper left envelope: nothing recalls at least as much and is faster.   *)
(* Of points that say the same the last stays.                                *)
OnFrontier(points, i) ==
    \A j \in DOMAIN points \ {i} :
        LET p == points[i]  q == points[j]
        IN ~ \/ q.recall > p.recall /\ q.qps >= p.qps
             \/ q.recall = p.recall /\ q.qps > p.qps
             \/ q.recall = p.recall /\ q.qps = p.qps /\ j > i
Frontier(points) ==
    {points[i] : i \in {j \in DOMAIN points : OnFrontier(points, j)}}

(* What each floor keeps: the frontier point just above it, or the highest    *)
(* recall there is, and every frontier point near it.                         *)
Above(points, floor) == {p \in Frontier(points) : p.recall >= floor}
WinnerAt(points, floor) ==
    IF Above(points, floor) # {}
    THEN CHOOSE p \in Above(points, floor) :
             \A q \in Above(points, floor) : p.recall <= q.recall
    ELSE FirstBy(points, LAMBDA p : <<-p.recall, -p.qps>>)
IsNear(recall, floor) == recall - floor \in (-NearRecall)..NearRecall
FrontierReasons(points) ==
    IF points = << >> THEN {}
    ELSE {WinnerAt(points, f).build : f \in Floors}
         \cup {p.build : p \in {q \in Frontier(points) :
                                    \E f \in Floors : IsNear(q.recall, f)}}
Unreached(points) == {f \in Floors : points # << >> /\ Above(points, f) = {}}

(* The next M below and above a build, at the same other axes; where there is *)
(* none, whether the grid ends or the engine cannot build the next one.       *)
Sides == {"below", "above"}
Beyond(ms, m, side) == {v \in ms : IF side = "below" THEN v < m ELSE v > m}
Nearest(ms, m, side) == IF side = "below" THEN Max(Beyond(ms, m, side))
                                          ELSE Min(Beyond(ms, m, side))
SameOtherwise(build, explored) ==
    {b \in explored : b.M # None /\ [b EXCEPT !.M = build.M] = build}
Neighbours(build, explored) ==
    LET ms == {b.M : b \in SameOtherwise(build, explored)}
    IN IF build.M = None THEN {}
       ELSE {[build EXCEPT !.M = Nearest(ms, build.M, s)] :
                 s \in {t \in Sides : Beyond(ms, build.M, t) # {}}}
Edges(engine, build, explored) ==
    LET ms == {b.M : b \in SameOtherwise(build, explored)}
        every == {b.M : b \in explored} \ {None}
        Illegal(side) ==
            /\ build.efC # None /\ Beyond(every, build.M, side) # {}
            /\ Excluded(engine, Nearest(every, build.M, side), build.efC)
    IN IF build.M = None THEN {}
       ELSE {<<build, s, IF Illegal(s) THEN "cannot be built" ELSE "not explored">> :
                 s \in {t \in Sides : Beyond(ms, build.M, t) = {}}}

(* The lists an overlay carries: of each axis, the values of the kept builds; *)
(* the quantization of the reference build leads, the ops pass builds that.   *)
OverlayLists(engine, builds, reference) ==
    LET Values(axis) == {b[axis] : b \in builds} \ {None}
        head == IF reference = None THEN None ELSE reference.quantization
        rest == SetToSeq(Values("quantization") \ {head})
    IN [m |-> IF HasM(engine) THEN Values("M") ELSE {},
        efc |-> Values("efC"),
        quantization |-> IF head \in Values("quantization")
                         THEN <<head>> \o rest ELSE rest]

SelectEngine(engine, points, explored, reference) ==
    LET mine == [i \in DOMAIN points |->
                    [points[i] EXCEPT !.build = Normalize(engine, @)]]
        ref == IF reference = None THEN {} ELSE {Normalize(engine, reference)}
        measured == {mine[i].build : i \in DOMAIN mine}
        all == {Normalize(engine, b) : b \in explored} \cup measured
        first == FrontierReasons(mine)
        found == UNION {Neighbours(b, all) : b \in first}
        kept == first \cup (found \cap measured) \cup ref
    IN [kept |-> kept,
        pruned |-> {<<b, IF b \in found THEN "neighbour unmeasured"
                         ELSE IF b \in measured THEN "off the frontier"
                         ELSE "no points">> : b \in (all \cup ref) \ kept},
        edges |-> UNION {Edges(engine, b, all) : b \in first},
        unreached |-> Unreached(mine),
        lists |-> OverlayLists(engine, kept,
                               IF ref = {} THEN None ELSE CHOOSE r \in ref : TRUE)]

-----------------------------------------------------------------------------
(* reference_build.py. The declared reference build of each engine; None is   *)
(* what the operational pass builds for lack of a choice.                     *)

DeclaredBuild(engine) ==
    CASE engine \in MariadbEngines \cup {"alisql"} -> [M |-> 16]
      [] engine \in {"pgvector", "myvector", "villagesql"} ->
             [M |-> 16, efC |-> None]
      [] engine \in {"percona", "valkey"} -> [M |-> 16, efC |-> 200]
      [] engine = "mongodb" -> [quantization |-> None]

OpsQuantization(profile, pass) ==
    IF pass = "tuned" /\ profile.extras.quantization # << >>
    THEN Head(profile.extras.quantization) ELSE profile.quantization
OpsEfConstruction(engine, profile) ==
    IF engine \in {"pgvector", "myvector", "villagesql"} THEN profile.efc ELSE None

ResolveReferenceBuild(engine, profile, pass) ==
    LET declared == DeclaredBuild(engine)
    IN [axis \in DOMAIN declared |->
           IF declared[axis] # None THEN declared[axis]
           ELSE IF axis = "quantization" THEN OpsQuantization(profile, pass)
           ELSE OpsEfConstruction(engine, profile)]

(* A group of the rendered grid offers the build: axis by axis, so that every *)
(* product of a group is offered.                                             *)
GroupValues(group, axis) == CASE axis = "M" -> group.ms
                              [] axis = "efC" -> group.efcs
                              [] axis = "quantization" -> group.quantizations
GridContains(groups, build) ==
    \E g \in groups : \A axis \in DOMAIN build : build[axis] \in GroupValues(g, axis)

(* Why a run of this profile could not be reported on; None when it could.    *)
ReferenceBuildProblem(engine, profile, pass) ==
    LET build == ResolveReferenceBuild(engine, profile, pass)
        rendered == RenderConfig(engine, profile, pass)
    IN IF rendered.refused # None THEN rendered.refused
       ELSE IF ~ GridContains(rendered.groups, build) THEN "not in the ann grid"
       ELSE IF ~ profile.opsEnabled THEN None
       ELSE IF profile.opsMode = "frontier"
       THEN IF profile.annEnabled THEN None ELSE "nothing to choose from"
       ELSE IF "M" \in DOMAIN build /\ build.M \notin profile.opsMs
       THEN "not an ops build" ELSE None

(* The ops builds of a profile that no server can make.                       *)
OpsBuildProblems(engine, profile) ==
    LET efc == OpsEfConstruction(engine, profile)
    IN IF ~ profile.opsEnabled \/ profile.opsMode = "frontier" THEN {}
       ELSE KnobProblems(engine, profile.opsMs, {efc} \ {None})
            \cup {<<"combination", p>> :
                    p \in IF efc = None THEN {}
                          ELSE ExcludedBuilds(engine, profile.opsMs, {efc})}
BuildPreflight(engine, profile, pass, phases) ==
    ({ReferenceBuildProblem(engine, profile, pass)} \ {None})
    \cup (IF "ops" \in phases THEN OpsBuildProblems(engine, profile) ELSE {})

-----------------------------------------------------------------------------
(* select_builds.py: an overlay of a target profile, made of the points of a  *)
(* first stage. It is always about the tuned pass.                            *)

(* The grid of the first stage as it is rendered now; where it no longer is,  *)
(* what was measured.                                                         *)
Explored(engine, profile, points) ==
    IF RenderConfig(engine, profile, "tuned").refused = None
    THEN AnnBuilds(engine, profile, "tuned")
    ELSE {points[i].build : i \in DOMAIN points}
FullBuild(named) ==
    [axis \in BuildAxes |-> IF axis \in DOMAIN named THEN named[axis] ELSE None]

SelectRefusal(stage1, points) ==
    IF points = << >> THEN "nothing to select from"
    ELSE IF Cardinality(stage1.modes) > 1 THEN "build modes were swept"
    ELSE IF Cardinality(IF stage1.extras.storages # {} THEN stage1.extras.storages
                                                       ELSE stage1.storages) > 1
    THEN "storage engines were swept"
    ELSE None

(* The lists of the engines that were chosen for, under the keys a profile    *)
(* has for them; only one engine has a quantization to sweep.                 *)
Extras(chosen) ==
    LET With(axis) == {e \in DOMAIN chosen : chosen[e].lists[axis] # {}}
    IN [m |-> [e \in With("m") |-> chosen[e].lists.m],
        efc |-> [e \in With("efc") |-> chosen[e].lists.efc],
        quantization |-> IF "mongodb" \in DOMAIN chosen
                         THEN chosen["mongodb"].lists.quantization ELSE << >>,
        storages |-> {},
        builds |-> [e \in DOMAIN chosen |-> chosen[e].kept]]

(* The points a second stage is held against, of the kept builds alone.       *)
TransferPoints(engine, result, points) ==
    {[build |-> Normalize(engine, points[i].build), ef |-> points[i].ef,
      recall |-> points[i].recall, qps |-> points[i].qps] :
        i \in {j \in DOMAIN points :
                   /\ points[j].engine = engine
                   /\ Normalize(engine, points[j].build) \in result.kept}}

(* Engines that were tried and have no point are named, not left out.         *)
Select(stage1, attempted, points, target) ==
    LET engines == {points[i].engine : i \in DOMAIN points}
        Mine(e) == SelectSeq(points, LAMBDA p : p.engine = e)
        chosen == [e \in engines |->
            SelectEngine(e, Mine(e), Explored(e, stage1, Mine(e)),
                FullBuild(ResolveReferenceBuild(e, target, "tuned")))]
        document ==
            [kept |-> [e \in engines |-> chosen[e].kept],
             pruned |-> [e \in engines |-> chosen[e].pruned],
             edges |-> [e \in engines |-> chosen[e].edges],
             unreached |-> [e \in engines |-> chosen[e].unreached],
             transfer |-> [e \in engines |->
                              TransferPoints(e, chosen[e], points)],
             excluded |-> [e \in engines |->
                              ExcludedAnnBuilds(e, stage1, "tuned")],
             unselected |-> attempted \ engines]
    IN [of |-> target.name, extras |-> Extras(chosen), selection |-> document,
        digest |-> OverlayDigest(Extras(chosen), document)]

(* What the overlay renders is what was kept, and holds the reference build.  *)
CheckOverlay(document, target) ==
    LET merged == ApplyOverlay(target, document)
    IN UNION {({ReferenceBuildProblem(e, merged, "tuned")} \ {None})
              \cup (IF {Normalize(e, b) : b \in AnnBuilds(e, merged, "tuned")}
                       = document.selection.kept[e]
                    THEN {} ELSE {"renders other builds"}) :
                 e \in DOMAIN document.selection.kept}
=============================================================================
