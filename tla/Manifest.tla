------------------------------ MODULE Manifest -------------------------------
(* run-manifest.json (orchestrator/manifest.py): what every later reader of a *)
(* run directory believes about it. Each operator is what one method makes of *)
(* the manifest in memory; `save` writes the whole of it to a temporary file  *)
(* that replaces the old one, so that what is on disk is always one version.  *)
(* Times are left out but for the `at` of an entry that is compared without.  *)
EXTENDS Integers, Sequences, FiniteSets, SequencesExt

CONSTANT None

AppendNew(seq, x) == IF x = None \/ Contains(seq, x) THEN seq ELSE Append(seq, x)

-----------------------------------------------------------------------------
(* One resource pass of the run. A fingerprint is what keys the results tree  *)
(* of the pass; an entry made elsewhere does without one.                     *)
PassEntry(pass, limits, fingerprint) ==
    [pass |-> pass, limits |-> limits, fingerprint |-> fingerprint]

(* A manifest that names no host was written by nobody's set_host.            *)
MeasuredOnThisHost(recorded, here) == recorded = None \/ recorded = here

NamesPass(entries, pass) == \E i \in DOMAIN entries : entries[i].pass = pass

(* What a resume by a later version finds of an older one: one pass, in the   *)
(* single-valued keys. It is adopted before the pass of this call, and an     *)
(* entry that is there is never written again.                                *)
Adopted(config) ==
    IF config.pass # None /\ ~ NamesPass(config.passes, config.pass)
    THEN Append(config.passes,
                PassEntry(config.pass, config.limits, config.fingerprint))
    ELSE config.passes

(* A plausible bug: the list describes the pass configured last.              *)
AccumulatePasses_Last(config, pass, limits, fingerprint, recordedHost, here) ==
    <<PassEntry(pass, limits, fingerprint)>>
AccumulatePasses(config, pass, limits, fingerprint, recordedHost, here) ==
    LET entries == Adopted(config)
        print == IF MeasuredOnThisHost(recordedHost, here) THEN fingerprint
                                                           ELSE None
    IN IF NamesPass(entries, pass) THEN entries
       ELSE Append(entries, PassEntry(pass, limits, print))

(* Every corpus the run was asked for or has a unit of, in the order they     *)
(* came: the list of earlier invocations, the log, then this one's.           *)
AccumulateDatasets(prior, phases, asked) ==
    FoldLeft(AppendNew, prior, [i \in DOMAIN phases |-> phases[i].dataset] \o asked)

-----------------------------------------------------------------------------
NoConfig == [pass |-> None, limits |-> None, fingerprint |-> None,
             passes |-> << >>, datasets |-> << >>, offered |-> {}, version |-> None]

(* A file that is missing or torn names no run.                               *)
NoManifest == [run |-> None]

(* Manifest.__init__: a manifest of this run is taken up again, as running;   *)
(* one that is missing, torn or of another run is replaced by a fresh one,    *)
(* which alone is stamped with the version of the code that measures.         *)
OpenManifest(onDisk, run, version) ==
    IF onDisk.run = run
    THEN [onDisk EXCEPT !.status = "running"]
    ELSE [run |-> run, status |-> "running", host |-> None, engines |-> << >>,
          phases |-> << >>, config |-> [NoConfig EXCEPT !.version = version],
          resolved |-> << >>, selection |-> None, choices |-> << >>,
          warnings |-> {}]

(* A warning is what it is about, a unit or nothing, and what it says.        *)
HostWarning(text) == << << >>, text>>

SetHost(m, host) ==
    [m EXCEPT !.host = host.name,
              !.warnings = @
                 \cup (IF host.avx512 THEN {} ELSE {HostWarning("no AVX-512")})
                 \cup (IF host.hybrid THEN {HostWarning("hybrid CPU")} ELSE {})]

(* The version stays the one the run began with: a code that measures another *)
(* says so on the terminal, and the report decides.                           *)
CrossesABump(m, version) == m.config.version \notin {None, version}

SetConfig(m, pass, limits, fingerprint, offered, asked, here) ==
    [m EXCEPT !.config =
        [pass |-> pass, limits |-> limits, fingerprint |-> fingerprint,
         version |-> m.config.version, offered |-> offered,
         passes |-> AccumulatePasses(m.config, pass, limits, fingerprint,
                                     m.host, here),
         datasets |-> AccumulateDatasets(m.config.datasets, m.phases, asked)]]

(* The engines of the run, with the builds their operational tests are marked *)
(* by; an engine that comes again replaces its entry.                         *)
SetEngine(m, engine, presentation) ==
    [m EXCEPT !.engines =
        SelectSeq(m.engines, LAMBDA e : e.name # engine)
        \o <<[name |-> engine, presentation |-> presentation]>>]

SameUnit(p, phase, engine, dataset, pass) ==
    /\ p.phase = phase /\ p.engine = engine
    /\ p.dataset = dataset /\ p.pass = pass

(* An attempt is appended, whatever became of the earlier ones of its unit.   *)
AddPhase(m, phase, engine, dataset, pass, status, files) ==
    LET earlier == SelectSeq(m.phases,
                       LAMBDA p : SameUnit(p, phase, engine, dataset, pass))
    IN [m EXCEPT !.phases = Append(@,
           [phase |-> phase, engine |-> engine, dataset |-> dataset,
            pass |-> pass, status |-> status, files |-> files,
            attempt |-> 1 + Len(earlier)])]

AddWarning(m, text) == [m EXCEPT !.warnings = @ \cup {text}]
FinishManifest(m, status) == [m EXCEPT !.status = status]

-----------------------------------------------------------------------------
(* What an engine was given under a pass is recorded once: a second look      *)
(* finds it unchanged, or finds that the engine would now be given something  *)
(* else, which is for the caller to refuse. An engine measured by code that   *)
(* recorded nothing stays without a record.                                   *)
Untimed(entry) == [entry EXCEPT !.at = None]
ResolutionOf(m, engine, pass) ==
    LET found == {i \in DOMAIN m.resolved : /\ m.resolved[i].engine = engine
                                            /\ m.resolved[i].pass = pass}
    IN IF found = {} THEN None
       ELSE m.resolved[CHOOSE i \in found : \A j \in found : i <= j]
HasUnitOf(m, engine, pass) ==
    \E i \in DOMAIN m.phases : m.phases[i].engine = engine
                               /\ m.phases[i].pass = pass

ResolutionOutcome(m, entry) ==
    LET recorded == ResolutionOf(m, entry.engine, entry.pass)
    IN IF recorded # None
       THEN IF Untimed(recorded) = Untimed(entry) THEN "unchanged" ELSE "changed"
       ELSE IF HasUnitOf(m, entry.engine, entry.pass) THEN "archived"
       ELSE "recorded"
RecordEngineResolution(m, entry) ==
    IF ResolutionOutcome(m, entry) = "recorded"
    THEN [m EXCEPT !.resolved = Append(@, entry)] ELSE m

(* The keys in which two resolutions differ, for the refusal's message.       *)
Differences(recorded, now) ==
    {key \in (DOMAIN recorded \cup DOMAIN now) \ {"at"} :
        \/ key \notin DOMAIN recorded \/ key \notin DOMAIN now
        \/ recorded[key] # now[key]}

(* The build selection the run's grid came from is recorded once, before      *)
(* anything is measured; one that differs, or that comes too late, is not.    *)
SelectionOutcome(m, selection) ==
    IF m.selection = None
    THEN IF selection = None THEN "none"
         ELSE IF m.phases # << >> \/ m.resolved # << >> THEN "changed"
         ELSE "recorded"
    ELSE IF selection = m.selection THEN "unchanged" ELSE "changed"
SetBuildSelection(m, selection) ==
    IF SelectionOutcome(m, selection) = "recorded"
    THEN [m EXCEPT !.selection = selection] ELSE m

-----------------------------------------------------------------------------
(* engine_plan.resolve_engines: what every engine of this invocation          *)
(* gets under each of its passes. A change is refused only while units of the *)
(* pair are still to be measured here.                                        *)
UnitKey(pass, engine, dataset, phase) == <<pass, engine, dataset, phase>>
Pending(pass, engine, datasets, phases, checkpoints) ==
    \E d \in ToSet(datasets), p \in ToSet(phases) :
        UnitKey(pass, engine, d, p) \notin checkpoints

(* A plausible bug: only an engine that is in the log already is refused.     *)
PlanRefuses_Logged(m, entries, datasets, phases, checkpoints) ==
    \E i \in DOMAIN entries :
        /\ ResolutionOutcome(m, entries[i]) = "changed"
        /\ HasUnitOf(m, entries[i].engine, entries[i].pass)
        /\ Pending(entries[i].pass, entries[i].engine, datasets, phases,
                   checkpoints)
PlanRefuses(m, entries, datasets, phases, checkpoints) ==
    \E i \in DOMAIN entries :
        /\ ResolutionOutcome(m, entries[i]) = "changed"
        /\ Pending(entries[i].pass, entries[i].engine, datasets, phases,
                   checkpoints)
PlanRecords(m, entries) == FoldLeft(RecordEngineResolution, m, entries)

-----------------------------------------------------------------------------
(* What readers take from the log: the last attempt of every unit, in the     *)
(* order those attempts came.                                                 *)
LatestAttempts(phases) ==
    SelectSeq(phases,
        LAMBDA p : \A i \in DOMAIN phases :
            SameUnit(phases[i], p.phase, p.engine, p.dataset, p.pass)
            => phases[i].attempt <= p.attempt)

(* The passes of the run with their fingerprints (report/render.py): those of *)
(* the list, or of the single-valued keys, then those only the log knows, in  *)
(* the order of the log.                                                      *)
PassesThatRan(m) ==
    FoldLeft(AppendNew, << >>, [i \in DOMAIN m.phases |-> m.phases[i].pass])
FingerprintOf(entries, pass) ==
    IF NamesPass(entries, pass)
    THEN SelectSeq(entries, LAMBDA e : e.pass = pass)[1].fingerprint
    ELSE None
RecordedPasses(m) ==
    LET entries == Adopted(m.config)
        ran == PassesThatRan(m)
        rest == SelectSeq(entries, LAMBDA e : ~ Contains(ran, e.pass))
        names == ran \o [i \in DOMAIN rest |-> rest[i].pass]
    IN [i \in DOMAIN names |->
           [pass |-> names[i], fingerprint |-> FingerprintOf(entries, names[i])]]
PassesWithoutATree(m) ==
    SelectSeq(RecordedPasses(m), LAMBDA p : p.fingerprint = None)
=============================================================================
