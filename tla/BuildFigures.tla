---------------------------- MODULE BuildFigures -----------------------------
(* What the report says of builds: which of the swept ones its other sections *)
(* are about (report/builds.py), what each recall floor costs and which build *)
(* is the smallest to reach it (report/frontier.py), and what the series and  *)
(* calibration records beside them show (report/loaders.py). Points are those *)
(* of BuildChoice with the seconds their build took in `wall`, None where     *)
(* their file does not say.                                                   *)
EXTENDS OpsBuild

ValuesOf(points, axis) == {points[i][axis] : i \in DOMAIN points} \ {None}
AxisValue(p, axis) == IF axis \in BuildAxes THEN p.build[axis] ELSE p[axis]

(* The file a point came from without its ef; the columns of a record that    *)
(* came from no file.                                                         *)
BuildSignature(p) ==
    <<p.source, p.engine, p.dataset, p.build, p.storage, p.mode>>
BuildShape(p) == <<p.build, p.mode>>

(* A named build may name a build mode beside its axes.                       *)
Matches(p, named) ==
    \A axis \in DOMAIN named :
        IF axis = "mode" THEN p.mode \in {None, named.mode}
                         ELSE p.build[axis] = named[axis]

(* The build a pass and dataset are presented by: the one the ops pass chose, *)
(* else the declared one.                                                     *)
FromManifest(m, engine, pass, dataset) ==
    LET info == SelectSeq(m.engines, LAMBDA e : e.name = engine)
        chosen == IF info = << >> THEN {}
                  ELSE {c \in Head(info).presentation.chosen :
                           c.pass = pass /\ c.dataset = dataset
                           /\ DOMAIN c.build # {}}
        declared == IF info = << >> THEN << >> ELSE Head(info).presentation.declared
    IN IF chosen # {} THEN (CHOOSE c \in chosen : TRUE).build
       ELSE IF pass \in DOMAIN declared THEN declared[pass] ELSE None

(* What the ops records of the pair say was built, where they agree.          *)
FromOps(records, engine, dataset, pass) ==
    LET builds == SelectSeq(records, LAMBDA r :
            /\ r.phase = "index_build" /\ r.engine = engine
            /\ r.dataset = dataset /\ r.pass = pass)
        first == Head(builds)
        ms == {builds[i].build.M : i \in DOMAIN builds} \ {None}
        modes == ValuesOf(builds, "mode")
        axes == (IF first.build.quantization # None THEN {"quantization"}
                 ELSE (IF Cardinality(ms) = 1 THEN {"M"} ELSE {})
                      \cup (IF first.build.efC # None \/ first.tunable
                            THEN {"efC"} ELSE {}))
                \cup (IF Cardinality(modes) = 1 THEN {"mode"} ELSE {})
    IN IF builds = << >> THEN None
       ELSE [axis \in axes |-> IF axis = "M" THEN CHOOSE v \in ms : TRUE
                               ELSE IF axis = "mode" THEN CHOOSE v \in modes : TRUE
                               ELSE first.build[axis]]

(* The reference build of a section, or that it would be ambiguous. A mode    *)
(* nothing else was built in decides nothing.                                 *)
ReferenceBuild(points, records, m, engine, dataset, pass) ==
    LET shapes == {points[i].build : i \in DOMAIN points}
        single == IF Cardinality(shapes) # 1 THEN None
                  ELSE LET b == CHOOSE s \in shapes : TRUE
                       IN [axis \in {a \in BuildAxes : b[a] # None} |-> b[axis]]
        ops == FromOps(records, engine, dataset, pass)
        found == IF ops # None THEN ops ELSE single
        axes == IF found = None THEN {}
                ELSE IF Cardinality(ValuesOf(points, "mode")) <= 1
                THEN DOMAIN found \ {"mode"} ELSE DOMAIN found
        build == [axis \in axes |-> found[axis]]
        named == FromManifest(m, engine, pass, dataset)
        matching == {BuildShape(points[i]) :
                        i \in {j \in DOMAIN points : Matches(points[j], build)}}
    IN IF named # None THEN [build |-> named, source |-> "manifest"]
       ELSE IF found = None THEN [build |-> None, source |-> None]
       ELSE IF Cardinality(matching) > 1 THEN [build |-> None, source |-> "ambiguous"]
       ELSE [build |-> build,
             source |-> IF ops # None THEN "ops record" ELSE "only build"]

(* The fastest frontier point at a floor: by speed, then the smaller index,   *)
(* then the smaller M and efC.                                                *)
AtFloor(frontier, floor) == {p \in frontier : p.recall >= floor}
FloorFigure(frontier, floor) ==
    LET best == FirstBy(SetToSeq(AtFloor(frontier, floor)), FastestThenSmallest)
    IN IF AtFloor(frontier, floor) = {} THEN None
       ELSE [qps |-> best.qps, recall |-> best.recall,
             storage |-> best.storage, build |-> BuildSignature(best)]
FloorFigures(frontier) == [f \in Floors |-> FloorFigure(frontier, f)]

(* Among points that are equally fast the smaller build comes last.           *)
SmallerBuildsLast(points) ==
    SortSeq(points, LAMBDA p, q : Precedes(SmallerFirst(q), SmallerFirst(p)))

-----------------------------------------------------------------------------
(* frontier.py                                                                *)

SweptAxes == {"M", "efC", "quantization", "storage", "mode"}
(* An engine with a quantization axis has no M of its own to have swept.      *)
SweptSpace(points) ==
    LET axes == {a \in SweptAxes :
                    \E i \in DOMAIN points : AxisValue(points[i], a) # None}
        shown == IF "quantization" \in axes THEN axes \ {"M"} ELSE axes
        builds == {BuildSignature(points[i]) : i \in DOMAIN points}
    IN [axes |-> [a \in shown |->
            {AxisValue(points[i], a) : i \in DOMAIN points} \ {None}],
        efs |-> ValuesOf(points, "ef"), builds |-> Cardinality(builds),
        single |-> Cardinality(builds) = 1]

(* The one ops record of a build, where there is exactly one it could be.     *)
OpsRecord(p, opsBuilds, swept) ==
    LET matched == SelectSeq(opsBuilds, LAMBDA r :
            /\ \A a \in BuildAxes : p.build[a] \in {None, r.build[a]}
            /\ \A a \in swept : r[a] \in {None, p[a]})
    IN IF Len(matched) = 1 THEN Head(matched) ELSE None

(* What a build cost: from its own result files where they say, from the ops  *)
(* record of the build otherwise.                                             *)
FirstPositive(points, field) ==
    LET found == SelectSeq(points, LAMBDA p : p[field] # None /\ p[field] > 0)
    IN IF found = << >> THEN None ELSE Head(found)[field]
PositiveOrNone(x) == IF x # None /\ x > 0 THEN x ELSE None
BuildCost(points, opsBuilds, swept) ==
    LET ops == IF points = << >> THEN None
               ELSE OpsRecord(points[1], opsBuilds, swept)
        Of(field) ==
            LET ann == FirstPositive(points, field)
                theirs == IF ops = None THEN None ELSE PositiveOrNone(ops[field])
            IN [value |-> IF ann # None THEN ann ELSE theirs,
                source |-> IF ann # None THEN "ann"
                           ELSE IF theirs # None THEN "ops" ELSE None]
    IN [wall |-> Of("wall"), bytes |-> Of("bytes"),
        resident |-> \E i \in DOMAIN points : points[i].storage = "memory"]

(* A reference that names an axis nothing has, or matches no point, is none.  *)
UsableReference(reference, points) ==
    IF /\ reference # None
       /\ \A a \in DOMAIN reference : reference[a] # None
       /\ \E i \in DOMAIN points : Matches(points[i], reference)
    THEN reference ELSE None
IsOpsBuild(p, reference) ==
    IF p = None \/ reference = None THEN None ELSE Matches(p, reference)

SweptFlags(points) == {a \in {"storage", "mode"} : Swept(points, a)}
OfBuild(points, signature) ==
    SelectSeq(points, LAMBDA p : BuildSignature(p) = signature)
Signatures(points) == {BuildSignature(points[i]) : i \in DOMAIN points}
SizeOf(points, signature, opsBuilds) ==
    BuildCost(OfBuild(points, signature), opsBuilds, SweptFlags(points)).bytes.value
FrontierBuilds(points, opsBuilds, reference) ==
    {LET chosen == {p \in Frontier(points) : BuildSignature(p) = s}
         size == SizeOf(points, s, opsBuilds)
     IN [build |-> s, points |-> Cardinality(chosen),
         low |-> Min({p.recall : p \in chosen}),
         high |-> Max({p.recall : p \in chosen}),
         isOps |-> IsOpsBuild(CHOOSE p \in chosen : TRUE, reference),
         size |-> size,
         sameSize |-> size # None /\ \E other \in Signatures(points) \ {s} :
                          SizeOf(points, other, opsBuilds) = size] :
        s \in {BuildSignature(p) : p \in Frontier(points)}}

(* The smallest build to reach a floor. Sizes decide only where every         *)
(* candidate has one; a tie of everything is broken by speed and said so.     *)
ChooseSmallest(candidates) ==
    LET sized == \A c \in candidates : c.bytes # None
        least == {c \in candidates : \A d \in candidates : c.bytes <= d.bytes}
        pool == IF sized THEN least ELSE candidates
        MKey(c) == <<OrInfinite(c.m), OrInfinite(c.efC)>>
        tied == {c \in pool : \A d \in pool : ~ Precedes(MKey(d), MKey(c))}
    IN [chosen |-> FirstBy(SetToSeq(tied), LAMBDA c : <<-c.qps>>),
        rule |-> IF Cardinality(candidates) = 1 THEN "only"
                 ELSE IF sized /\ Cardinality(pool) = 1 THEN "size"
                 ELSE IF sized THEN "equal sizes, then M"
                 ELSE IF Cardinality(tied) > 1 THEN "tied" ELSE "M"]
SmallestFigure(points, opsBuilds, reference, floor) ==
    LET Reaching(s) == SelectSeq(OfBuild(points, s),
                           LAMBDA p : p.recall >= floor /\ p.qps # None)
        Best(s) == FirstBy(Reaching(s), LAMBDA p : <<-p.qps>>)
        candidates ==
            {[build |-> s, qps |-> Best(s).qps, recall |-> Best(s).recall,
              m |-> Best(s).build.M, efC |-> Best(s).build.efC,
              bytes |-> SizeOf(points, s, opsBuilds)] :
                s \in {t \in Signatures(points) : Reaching(t) # << >>}}
        found == ChooseSmallest(candidates)
    IN IF candidates = {} THEN None
       ELSE [qps |-> found.chosen.qps, recall |-> found.chosen.recall,
             build |-> found.chosen.build, rule |-> found.rule,
             isOps |-> IsOpsBuild(Best(found.chosen.build), reference)]

(* Which floors' fastest build is the one the ops pass measured.              *)
OpsBuildFlags(frontier, reference) ==
    [f \in Floors |->
        LET figure == FloorFigure(frontier, f)
        IN IF figure = None THEN None
           ELSE IsOpsBuild(CHOOSE p \in frontier :
                               BuildSignature(p) = figure.build, reference)]
=============================================================================
