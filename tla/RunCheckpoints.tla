--------------------------- MODULE RunCheckpoints ---------------------------
(* One run directory over several invocations of `run-benchmark.sh run`: the  *)
(* loop over phases in cmd_run and over units in _run_unit                    *)
(* (orchestrator/cli.py), checkpoints.json, the phases of run-manifest.json   *)
(* (orchestrator/manifest.py) and the units' output files. An invocation may  *)
(* be killed between any two of its writes and be followed by another one,    *)
(* with or without --resume.                                                  *)
(*                                                                            *)
(* A phase is one (resource pass, engine, dataset, ann or ops), in the order  *)
(* the loops visit them. An ops phase is Units[p] units with a file and a key *)
(* each. An ann phase is a grid of Units[p] definitions with a result file    *)
(* each, in a tree that other runs and other grids have files in as well; it  *)
(* is judged by the number of files it finds there.                           *)
EXTENDS Integers, Sequences, FiniteSets

CONSTANTS
    Units,          \* how many units or definitions each phase has, in order
    Ann,            \* the ann phases; the others are ops phases
    TooBig,         \* phases _memory_refusal refuses to run
    MaxRuns,        \* bound: invocations
    MaxOthers,      \* bound: files in a tree that are not of the phase's grid
    AlwaysResume    \* TRUE: each invocation after the first passes --resume

ASSUME RunAssumption == /\ Units \in Seq(Nat \ {0})
                        /\ Units # << >>
                        /\ Ann \subseteq DOMAIN Units
                        /\ TooBig \subseteq DOMAIN Units
                        /\ MaxRuns \in Nat /\ MaxOthers \in Nat
                        /\ AlwaysResume \in BOOLEAN

Phases == DOMAIN Units
PhaseKey(p) == <<p, 0>>
UnitKeys(p) == {<<p, u>> : u \in 1 .. Units[p]}
Keys == UNION {UnitKeys(p) \cup {PhaseKey(p)} : p \in Phases}

(* The measurements: a file for each unit of an ops phase, and for each       *)
(* definition of an ann phase. Only the former have keys of their own.        *)
Results == UNION {UnitKeys(p) : p \in Phases}

VARIABLES
    file,      \* checkpoints.json
    phases,    \* the phases list of run-manifest.json
    output,    \* each unit's and each definition's file: absent, partial (who
               \* wrote it was killed), failed (it was not, but failed), complete
    pc,        \* where the invocation is
    resume,    \* its --resume
    failFast,  \* its --fail-fast
    done,      \* its `checkpoints`: what it will skip
    phase,     \* the phase it is at
    unit,      \* the unit it is at
    worst,     \* worst_rc # 0: a unit of this phase has failed
    failures,  \* the phases that failed in this invocation
    runs,      \* invocations so far
    doubtful   \* history: ann phases that passed with other files in the count

disk == <<file, phases, output>>
process == <<pc, resume, failFast, done, phase, unit, worst, failures>>
vars == <<disk, process, runs, doubtful>>

Entries == [phase : Phases, status : {"completed", "failed", "refused"}]

TypeOK ==
    /\ file \subseteq Keys
    /\ phases \in Seq(Entries)
    /\ output \in [Results -> {"absent", "partial", "failed", "complete"}]
    /\ pc \in {"off", "phase", "unit", "measure", "mark", "ann", "close",
               "keep", "finished"}
    /\ resume \in BOOLEAN /\ failFast \in BOOLEAN /\ worst \in BOOLEAN
    /\ done \subseteq Keys
    /\ phase \in 1 .. Len(Units) + 1
    /\ unit \in Nat
    /\ failures \subseteq Phases
    /\ runs \in 0 .. MaxRuns
    /\ doubtful \subseteq Ann

Init ==
    /\ file = {} /\ phases = << >>
    /\ output = [k \in Results |-> "absent"]
    /\ pc = "off" /\ resume = FALSE /\ failFast = FALSE /\ worst = FALSE
    /\ done = {} /\ phase = 1 /\ unit = 1 /\ failures = {} /\ runs = 0
    /\ doubtful = {}

-----------------------------------------------------------------------------
(* A plausible bug: a resume that has forgotten what is done.                 *)
Recorded_Never(resuming) == {}

(* checkpoints = recorded if args.resume else set()                           *)
Recorded(resuming) == IF resuming THEN file ELSE {}

Begin ==
    /\ pc \in {"off", "finished"}
    /\ runs < MaxRuns
    /\ runs' = runs + 1
    /\ \E resuming, fast \in BOOLEAN :
         /\ (AlwaysResume /\ runs > 0) => resuming
         /\ resume' = resuming
         /\ failFast' = fast
         /\ done' = Recorded(resuming)
    /\ pc' = "phase" /\ phase' = 1 /\ unit' = 1
    /\ worst' = FALSE /\ failures' = {}
    /\ UNCHANGED <<disk, doubtful>>

NextPhase == /\ phase' = phase + 1
             /\ pc' = "phase"
             /\ unit' = 1 /\ worst' = FALSE

(* add_phase appends; the attempt number it adds is the count of the entries  *)
(* of the same phase so far, which the list itself tells.                     *)
AddPhase(p, status) ==
    phases' = Append(phases, [phase |-> p, status |-> status])

SkipPhase ==
    /\ pc = "phase" /\ phase \in Phases
    /\ PhaseKey(phase) \in done
    /\ NextPhase
    /\ UNCHANGED <<disk, resume, failFast, done, failures, runs, doubtful>>

RefusePhase ==
    /\ pc = "phase" /\ phase \in Phases
    /\ PhaseKey(phase) \notin done
    /\ phase \in TooBig
    /\ AddPhase(phase, "refused")
    /\ NextPhase
    /\ UNCHANGED <<file, output, resume, failFast, done, failures, runs,
                   doubtful>>

EnterPhase ==
    /\ pc = "phase" /\ phase \in Phases
    /\ PhaseKey(phase) \notin done
    /\ phase \notin TooBig
    /\ pc' = IF phase \in Ann THEN "ann" ELSE "unit"
    /\ UNCHANGED <<disk, resume, failFast, done, phase, unit, worst, failures,
                   runs, doubtful>>

(* What an ann attempt can leave of its grid: ann-benchmarks skips what has a  *)
(* file, so a result is never lost; a file without one may be pruned first;   *)
(* and any worker may have died, with no file or in the middle of it.         *)
Sweeps(p) == {found \in [1 .. Units[p] -> {"absent", "partial", "complete"}] :
                \A u \in 1 .. Units[p] :
                    output[<<p, u>>] = "complete" => found[u] = "complete"}
Swept(p, found) == [k \in Results |-> IF k[1] = p THEN found[k[2]] ELSE output[k]]

(* _count_results: every result file of the engine and dataset in the tree,   *)
(* those of other grids too, and whatever is in them.                         *)
Counted(found, others) ==
    Cardinality({u \in DOMAIN found : found[u] # "absent"}) + others

(* A plausible bug, and what the code once did: any result will do.           *)
Passes_Any(after, expected) == after > 0

(* run_engine: the size of the grid is what is expected, or 0 if the config   *)
(* cannot be read back; fewer files than that are a shortfall, and none is    *)
(* never enough.                                                              *)
Passes(after, expected) == after > 0 /\ (expected = 0 \/ after >= expected)

(* Where no other file is counted, and there is a number to count up to.      *)
CountsTheGrid(found, others, expected) ==
    /\ others = 0 /\ expected # 0
    /\ \A u \in DOMAIN found : found[u] # "partial"

RunAnn ==
    /\ pc = "ann"
    /\ \E found \in Sweeps(phase), others \in 0 .. MaxOthers,
          expected \in {0, Units[phase]}, exitsWell \in BOOLEAN :
         LET ok == exitsWell /\ Passes(Counted(found, others), expected)
         IN  /\ output' = Swept(phase, found)
             /\ worst' = ~ok
             /\ doubtful' = IF ok /\ ~CountsTheGrid(found, others, expected)
                               THEN doubtful \cup {phase}
                               ELSE doubtful \ {phase}
    /\ pc' = "close"
    /\ UNCHANGED <<file, phases, resume, failFast, done, phase, unit, failures,
                   runs>>

Leave == pc' = "close" /\ UNCHANGED unit
NextUnit == IF unit < Units[phase] THEN unit' = unit + 1 /\ pc' = "unit"
                                   ELSE Leave

Key == <<phase, unit>>

SkipUnit ==
    /\ pc = "unit"
    /\ Key \in done
    /\ NextUnit
    /\ UNCHANGED <<disk, resume, failFast, done, phase, worst, failures, runs,
                   doubtful>>

(* A unit that is run again starts with no output of an earlier attempt.      *)
ClearOutput ==
    /\ pc = "unit"
    /\ Key \notin done
    /\ output' = [output EXCEPT ![Key] = "absent"]
    /\ pc' = "measure"
    /\ UNCHANGED <<file, phases, resume, failFast, done, phase, unit, worst,
                   failures, runs, doubtful>>

(* run_harness returns zero, or something else, or OpsRun raises, before, in  *)
(* or after the measurement, and takes the rest of the phase with it.         *)
MeasureWell ==
    /\ pc = "measure"
    /\ output' = [output EXCEPT ![Key] = "complete"]
    /\ pc' = "mark"
    /\ UNCHANGED <<file, phases, resume, failFast, done, phase, unit, worst,
                   failures, runs, doubtful>>

(* A plausible bug: a failed unit is marked like one that succeeded.          *)
MeasureBadly_Marked ==
    /\ pc = "measure"
    /\ \E left \in {"absent", "failed", "complete"} :
         output' = [output EXCEPT ![Key] = left]
    /\ worst' = TRUE
    /\ pc' = "mark"
    /\ UNCHANGED <<file, phases, resume, failFast, done, phase, unit, failures,
                   runs, doubtful>>

MeasureBadly ==
    /\ pc = "measure"
    /\ \E left \in {"absent", "failed", "complete"} :
         output' = [output EXCEPT ![Key] = left]
    /\ worst' = TRUE
    /\ NextUnit \/ Leave
    /\ UNCHANGED <<file, phases, resume, failFast, done, phase, failures,
                   runs, doubtful>>

MarkUnit ==
    /\ pc = "mark"
    /\ file' = file \cup {Key}
    /\ done' = done \cup {Key}
    /\ NextUnit
    /\ UNCHANGED <<phases, output, resume, failFast, phase, worst, failures,
                   runs, doubtful>>

(* A plausible bug: closes a phase that ended badly like one that ended well. *)
ClosePhase_Regardless ==
    /\ pc = "close"
    /\ AddPhase(phase, IF worst THEN "failed" ELSE "completed")
    /\ pc' = "keep"
    /\ UNCHANGED <<file, output, resume, failFast, done, phase, unit, worst,
                   failures, runs, doubtful>>

(* The manifest first, then the checkpoint of the whole phase.                *)
ClosePhase ==
    /\ pc = "close"
    /\ IF worst
         THEN /\ AddPhase(phase, "failed")
              /\ failures' = failures \cup {phase}
              /\ IF failFast THEN pc' = "finished"
                                  /\ UNCHANGED <<phase, unit, worst>>
                             ELSE NextPhase
         ELSE /\ AddPhase(phase, "completed")
              /\ pc' = "keep"
              /\ UNCHANGED <<phase, unit, worst, failures>>
    /\ UNCHANGED <<file, output, resume, failFast, done, runs, doubtful>>

KeepPhase ==
    /\ pc = "keep"
    /\ file' = file \cup {PhaseKey(phase)}
    /\ NextPhase
    /\ UNCHANGED <<phases, output, resume, failFast, done, failures, runs,
                   doubtful>>

Finish ==
    /\ pc = "phase" /\ phase \notin Phases
    /\ pc' = "finished"
    /\ UNCHANGED <<disk, resume, failFast, done, phase, unit, worst, failures,
                   runs, doubtful>>

(* Killed, or the machine goes down. A measurement it was in has left a file  *)
(* that ends anywhere; checkpoints.json and the manifest are replaced whole.  *)
Crash ==
    /\ pc \notin {"off", "finished"}
    /\ pc' = "off"
    /\ \/ pc = "measure" /\ output' = [output EXCEPT ![Key] = "partial"]
       \/ pc = "ann" /\ \E found \in Sweeps(phase) : output' = Swept(phase, found)
       \/ UNCHANGED output
    /\ UNCHANGED <<file, phases, resume, failFast, done, phase, unit, worst,
                   failures, runs, doubtful>>

Next == \/ Begin \/ SkipPhase \/ RefusePhase \/ EnterPhase \/ RunAnn
        \/ SkipUnit \/ ClearOutput \/ MeasureWell \/ MeasureBadly \/ MarkUnit
        \/ ClosePhase \/ KeepPhase \/ Finish \/ Crash

Spec == Init /\ [][Next]_vars

-----------------------------------------------------------------------------
Measured(k) == output[k] = "complete"
AllMeasured(p) == \A k \in UnitKeys(p) : Measured(k)

(* What checkpoints.json lists has been measured and is on the disk: a unit   *)
(* by its own file, an ops phase by the files of all its units                *)
(* (docs/02-running-with-framework.md, "Failed units are not checkpointed"),  *)
(* and an ann phase by the files of its whole grid if nothing else was in the *)
(* count that accepted it: no file of another grid, none left half written,   *)
(* and a config to count by (ann_pass.py:640, 722, 864-873).                  *)
CheckpointIsMeasured ==
    \A p \in Phases :
        /\ \A k \in UnitKeys(p) : k \in file => Measured(k)
        /\ PhaseKey(p) \in file /\ p \notin doubtful => AllMeasured(p)

(* What run_engine says of its shortfall check without that condition: a      *)
(* partial sweep is not a complete one (ann_pass.py:705), and failing the     *)
(* phase is what keeps it out of the checkpoints (729-731). A file of another *)
(* grid, or one without measurements, stands in for the one that is missing.  *)
PartialIsNotCheckpointed ==
    \A p \in Ann : PhaseKey(p) \in file => AllMeasured(p)

(* A resumed run that goes through without a failure leaves no measurement    *)
(* out but those it refused: whatever was interrupted, failed or killed       *)
(* before is either retried or there (docs/02, "--resume retries exactly      *)
(* those"); of an ann phase under the same condition, whenever it passed.     *)
SuccessIsComplete ==
    (pc = "finished" /\ resume /\ failures = {})
        => \A p \in Phases \ (TooBig \cup doubtful) : AllMeasured(p)

(* --resume never gives up a result that a checkpoint speaks for: a unit that *)
(* is recorded, by itself or with its phase, is not cleared, measured again   *)
(* or left half written.                                                      *)
SpokenFor(k) == k \in file \/ PhaseKey(k[1]) \in file
ResumeKeepsResults ==
    [][\A k \in Results : (resume /\ SpokenFor(k) /\ Measured(k))
                          => output'[k] = "complete"]_vars

(* The manifest and the checkpoints agree across crashes: of a phase that     *)
(* --resume will skip, the last attempt the manifest lists completed          *)
(* (report/scope.py reads the last attempt as how the phase ended).           *)
LastAttempt(p, i) == /\ phases[i].phase = p
                     /\ \A j \in DOMAIN phases : phases[j].phase = p => j <= i
CheckpointIsReported ==
    \A p \in Phases : PhaseKey(p) \in file =>
        \E i \in DOMAIN phases : LastAttempt(p, i) /\ phases[i].status = "completed"

-----------------------------------------------------------------------------
(* The inductive invariant behind the properties above, one part per question *)
(* asked of the code: where the invocation can be, what it believes is done,  *)
(* what its place in the loops says of the output files, and what the         *)
(* manifest says. Each part but the first needs every invocation after the    *)
(* first to resume.                                                           *)
Working == pc \notin {"off", "finished"}
InUnit == pc \in {"unit", "measure", "mark"}
Inside == InUnit \/ pc \in {"ann", "close", "keep"}

PlaceInv ==
    /\ Inside => phase \in Phases
    /\ InUnit => unit \in 1 .. Units[phase] /\ phase \notin Ann
    /\ pc = "ann" => phase \in Ann
    /\ pc = "phase" => unit = 1 /\ worst = FALSE

(* Of the phases ahead, the set cmd_run keeps in memory and checkpoints.json  *)
(* list the same keys, and nothing is in hand that they list.                 *)
SkipInv ==
    /\ runs = 0 => file = {} /\ pc = "off"
    /\ Working => \A k \in Keys : k[1] >= phase => (k \in done <=> k \in file)
    /\ Inside => PhaseKey(phase) \notin file
    /\ pc \in {"measure", "mark"} => Key \notin file

(* A phase that passed, and where a count decided that, one that could tell.  *)
Sound(p) == p \notin doubtful => AllMeasured(p)

ProgressInv ==
    /\ (InUnit /\ worst = FALSE) => \A u \in 1 .. unit - 1 : Measured(<<phase, u>>)
    /\ pc = "mark" => Measured(Key)
    /\ (pc = "close" /\ worst = FALSE) => Sound(phase)
    /\ pc = "keep" => worst = FALSE /\ Sound(phase)

(* The phases behind the invocation: refused, failed or measured.             *)
BehindInv ==
    \A p \in Phases \ (TooBig \cup failures) :
        /\ (Working /\ p < phase) => Sound(p)
        /\ (pc = "finished" /\ failures = {}) => Sound(p)

KeepInv == pc = "keep" =>
    /\ phases # << >>
    /\ phases[Len(phases)] = [phase |-> phase, status |-> "completed"]

RunInv == PlaceInv /\ (AlwaysResume => SkipInv /\ ProgressInv /\ BehindInv /\ KeepInv)
=============================================================================
