------------------------------ MODULE OpsBuild -------------------------------
(* The build the operational tests measure. In the reference mode it is the   *)
(* declared one; in the frontier mode it is picked from the result files of   *)
(* the ann phase, in a container (report/ops_build_choice.py), once per pass, *)
(* engine and dataset, and recorded in the manifest with the attempt it came  *)
(* from (orchestrator/ops_build_selection.py).                                *)
EXTENDS BuildChoice

-----------------------------------------------------------------------------
(* ops_build_choice.py                                                        *)

Usable(p) == p.recall # None /\ p.qps # None /\ p.used # FALSE
OnPrimary(p, storage, mode) ==
    /\ p.storage \in {None, storage} \/ storage = None
    /\ p.mode \in {None, mode} \/ mode = None

(* An axis is a reason to leave a point out only where it was swept.          *)
Swept(points, axis) ==
    Cardinality({points[i][axis] : i \in DOMAIN points} \ {None}) > 1

(* The smaller build first: by its index where its size is known, then M,     *)
(* then efC.                                                                  *)
OrInfinite(x) == IF x = None THEN Infinity ELSE x
SmallerFirst(p) ==
    <<IF p.bytes = None \/ p.bytes = 0 THEN Infinity ELSE p.bytes,
      OrInfinite(p.build.M), OrInfinite(p.build.efC)>>
FastestThenSmallest(p) == <<-p.qps>> \o SmallerFirst(p)

(* Per build the fastest of its frontier points at the target; of the builds  *)
(* the fastest. Where none gets there, the one that recalls most.             *)
ChooseOpsBuild(points, target, storage, mode) ==
    LET usable == SelectSeq(points, Usable)
        st == IF Swept(usable, "storage") THEN storage ELSE None
        mo == IF Swept(usable, "mode") THEN mode ELSE None
        mine == SelectSeq(usable, LAMBDA p : OnPrimary(p, st, mo))
        Of(b) == SelectSeq(mine, LAMBDA p : p.build = b)
        builds == {mine[i].build : i \in DOMAIN mine}
        reaching == {b \in builds : Above(Of(b), target) # {}}
        Best(b) == FirstBy(SetToSeq(Above(Of(b), target)),
                           LAMBDA p : <<-p.qps, -p.recall>>)
        Ceiling(b) == FirstBy(SetToSeq(Frontier(Of(b))), LAMBDA p : <<-p.recall>>)
        Answer(status, p) ==
            [status |-> status, build |-> p.build, point |-> p,
             on |-> [storage |-> st, mode |-> mo],
             considered |-> Cardinality(builds), reached |-> Cardinality(reaching)]
    IN IF builds = {} THEN None
       ELSE IF reaching # {}
       THEN Answer("selected",
                FirstBy(SetToSeq({Best(b) : b \in reaching}),
                        LAMBDA p : <<-p.qps>> \o SmallerFirst(p)))
       ELSE Answer("below_target",
                FirstBy(SetToSeq({Ceiling(b) : b \in builds}),
                        LAMBDA p : <<-p.recall, -p.qps>> \o SmallerFirst(p)))

(* What the container is shown: of the tree, the files it was named.          *)
LinkTree(tree, files) == SelectSeq(tree, LAMBDA p : p.path \in files)
ChooseMain(tree, files, engine, dataset, target, storage, mode) ==
    ChooseOpsBuild(SelectSeq(LinkTree(tree, files),
                       LAMBDA p : p.engine = engine /\ p.dataset = dataset),
                   target, storage, mode)

-----------------------------------------------------------------------------
(* ops_build_selection.py                                                     *)

SelectionKey(pass, engine, dataset) == <<pass, engine, dataset>>
StoredSelection(m, pass, engine, dataset) ==
    LET found == SelectSeq(m.choices,
                     LAMBDA c : c.key = SelectionKey(pass, engine, dataset))
    IN IF found = << >> THEN None ELSE Head(found)

(* The latest completed ann attempt of the pair in this run's log, and the    *)
(* files it wrote or found there.                                             *)
LatestAnnAttempt(m, engine, dataset, pass) ==
    LET done == SelectSeq(m.phases,
            LAMBDA p : SameUnit(p, "ann", engine, dataset, pass)
                       /\ p.status = "completed" /\ p.files # None)
    IN IF done = << >> THEN None ELSE Last(done)
AttemptFiles(attempt) ==
    IF attempt = None THEN {} ELSE attempt.files.written \cup attempt.files.skipped
AttemptIdentity(attempt) ==
    IF attempt = None THEN None
    ELSE [attempt |-> attempt.attempt, files |-> AttemptFiles(attempt)]

(* How the container can end: with an answer, with none, or in an error the   *)
(* caller is told of instead (an exit code, a timeout, no result line).       *)
ChoiceError == [error |-> TRUE, choice |-> None]
ContainerAnswer(choice) == [error |-> FALSE, choice |-> choice]
RunChoiceContainer(choice) == {ContainerAnswer(choice), ChoiceError}
(* It is not started without its image, or when docker cannot be asked.       *)
DefaultChooser(image, choice) ==
    IF image THEN RunChoiceContainer(choice) ELSE {ChoiceError}

PresentationBuild(engine, build) ==
    [axis \in DOMAIN DeclaredBuild(engine) |-> build[axis]]
GridProblem(engine, profile, pass, build) ==
    LET wanted == PresentationBuild(engine, build)
        axes == {axis \in DOMAIN wanted : wanted[axis] # None}
        rendered == RenderConfig(engine, profile, pass)
    IN axes # {} /\ (\/ rendered.refused # None
                     \/ ~ GridContains(rendered.groups, [a \in axes |-> wanted[a]]))

Fallback(engine, profile, pass) ==
    LET reference == ResolveReferenceBuild(engine, profile, pass)
    IN [status |-> "fallback", build |-> FullBuild(reference),
        reference |-> reference, on |-> None]
FromChoice(engine, choice) ==
    [status |-> choice.status, build |-> choice.build,
     reference |-> PresentationBuild(engine, choice.build), on |-> choice.on]

(* One look at the answer, and a second one after an error; what cannot be    *)
(* answered falls back to the reference build. `answers` are the two looks.   *)
Chosen(m, engine, dataset, pass, profile, answers) ==
    LET attempt == LatestAnnAttempt(m, engine, dataset, pass)
        payload == IF answers[1].error THEN answers[2] ELSE answers[1]
        choice == IF AttemptFiles(attempt) = {} THEN None ELSE payload.choice
        selection == IF choice = None THEN Fallback(engine, profile, pass)
                                      ELSE FromChoice(engine, choice)
    IN [key |-> SelectionKey(pass, engine, dataset)] @@ selection
       @@ [attempt |-> AttemptIdentity(attempt)]

(* What the report marks: the chosen builds of the engine, per pass and       *)
(* dataset.                                                                   *)
PresentationEntries(m, engine) ==
    LET mine == SelectSeq(m.choices, LAMBDA c : c.key[2] = engine)
    IN {[pass |-> mine[i].key[1], dataset |-> mine[i].key[3],
         build |-> mine[i].reference, status |-> mine[i].status] :
           i \in DOMAIN mine}
RecordChoice(m, selection) ==
    LET next == [m EXCEPT !.choices =
            SelectSeq(@, LAMBDA c : c.key # selection.key) \o <<selection>>]
        engine == selection.key[2]
    IN [next EXCEPT !.engines = [i \in DOMAIN @ |->
            IF @[i].name = engine
            THEN [@[i] EXCEPT !.presentation.chosen = PresentationEntries(next, engine)]
            ELSE @[i]]]

(* A stored choice stands while the ann attempt it came from is the latest;   *)
(* a fallback stands until there is an attempt with files.                    *)
Reusable(stored, current) ==
    IF stored.status = "fallback" THEN AttemptFiles(current) = {}
    ELSE current # None /\ stored.attempt = AttemptIdentity(current)

(* The selection of a unit: the manifest afterwards, and the choice or why    *)
(* the unit is refused. A choice that moved is refused once units of the      *)
(* earlier one have been measured.                                            *)
CheckGrid(engine, profile, pass, selection) ==
    selection.status # "fallback"
    => ~ GridProblem(engine, profile, pass, selection.build)
(* A plausible bug: the choice may move whatever was measured.                *)
Moved_Never(stored, selection, measured) == FALSE
Moved(stored, selection, measured) ==
    stored # None /\ measured /\ stored.build # selection.build
EnsureSelection(m, engine, dataset, pass, profile, answers, measured) ==
    LET stored == StoredSelection(m, pass, engine, dataset)
        current == LatestAnnAttempt(m, engine, dataset, pass)
        chosen == Chosen(m, engine, dataset, pass, profile, answers)
        Result(next, selection, refused) ==
            [manifest |-> next, selection |-> selection, refused |-> refused]
    IN IF stored # None /\ Reusable(stored, current)
       THEN IF CheckGrid(engine, profile, pass, stored)
            THEN Result(m, stored, FALSE) ELSE Result(m, None, TRUE)
       ELSE IF \/ ~ CheckGrid(engine, profile, pass, chosen)
               \/ Moved(stored, chosen, measured)
       THEN Result(m, None, TRUE)
       ELSE Result(RecordChoice(
                IF chosen.status = "selected" THEN m
                ELSE AddWarning(m, <<chosen.key, chosen.status>>), chosen),
                chosen, FALSE)

(* What the units of the pass build. In the reference mode nothing is         *)
(* selected and every declared M is built.                                    *)
SelectionMode(profile) == profile.opsMode
OpsMValues(selection, declared) ==
    IF selection # None /\ selection.build.M # None THEN {selection.build.M}
    ELSE declared
OpsBuildArgs(selection, engine, profile, pass) ==
    [efC |-> IF selection # None /\ selection.build.efC # None
             THEN selection.build.efC ELSE OpsEfConstruction(engine, profile),
     quantization |-> IF selection # None /\ selection.build.quantization # None
                      THEN selection.build.quantization
                      ELSE IF engine = "mongodb" THEN OpsQuantization(profile, pass)
                      ELSE None]
=============================================================================
