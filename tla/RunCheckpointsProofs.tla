------------------------ MODULE RunCheckpointsProofs ------------------------
(* What holds of every list of phases and any number of invocations, and of   *)
(* the resources every engine of a run is given: the theorems about           *)
(* RunCheckpoints and Resources.                                              *)
EXTENDS RunCheckpoints, Resources, FiniteSetTheorems, TLAPS

-----------------------------------------------------------------------------
(* The checkpoints.                                                           *)

LEMMA PhasesAre ==
    /\ Len(Units) \in Nat
    /\ Phases = 1 .. Len(Units)
    /\ \A p \in Phases : Units[p] \in Nat \ {0}
    /\ Ann \subseteq Phases
BY RunAssumption DEF Phases

LEMMA PhaseKeyIn == ASSUME NEW p \in Phases PROVE PhaseKey(p) \in Keys
BY DEF Keys

LEMMA UnitKeyIn ==
    ASSUME NEW p \in Phases, NEW u \in 1 .. Units[p]
    PROVE  <<p, u>> \in Keys /\ <<p, u>> \in Results
BY DEF Keys, Results, UnitKeys

(* A sweep of an ann phase loses no result and touches no other phase.        *)
LEMMA SweepKeeps ==
    ASSUME TypeOK, NEW p \in Phases, NEW found \in Sweeps(p),
           output' = Swept(p, found)
    PROVE  /\ output' \in [Results -> {"absent", "partial", "failed", "complete"}]
           /\ \A k \in Results : k[1] # p => output'[k] = output[k]
           /\ \A k \in Results : Measured(k) => output'[k] = "complete"
           /\ \A u \in 1 .. Units[p] : output'[<<p, u>>] = found[u]
           /\ found \in [1 .. Units[p] -> {"absent", "partial", "complete"}]
<1>1. found \in [1 .. Units[p] -> {"absent", "partial", "complete"}]
    BY DEF Sweeps
<1>2. ASSUME NEW k \in Results, k[1] = p
      PROVE  k[2] \in 1 .. Units[p] /\ k = <<p, k[2]>>
    BY <1>2 DEF Results, UnitKeys
<1>3. \A k \in Results : output'[k] = IF k[1] = p THEN found[k[2]] ELSE output[k]
    BY DEF Swept
<1>4. \A k \in Results : output'[k] \in {"absent", "partial", "failed", "complete"}
    BY <1>1, <1>2, <1>3 DEF TypeOK
<1>5. output' \in [Results -> {"absent", "partial", "failed", "complete"}]
    BY <1>4 DEF Swept
<1>6. \A k \in Results : Measured(k) => output'[k] = "complete"
    BY <1>2, <1>3 DEF Sweeps, Measured
<1>7. \A u \in 1 .. Units[p] : output'[<<p, u>>] = found[u]
    BY <1>3, UnitKeyIn
<1>. QED  BY <1>1, <1>3, <1>5, <1>6, <1>7

(* A count that reaches the size of the grid, where nothing but whole results *)
(* of the grid was counted, has found all of it.                              *)
LEMMA CountIsEnough ==
    ASSUME NEW n \in Nat,
           NEW found \in [1 .. n -> {"absent", "partial", "complete"}],
           NEW others, NEW expected \in {0, n},
           CountsTheGrid(found, others, expected),
           Passes(Counted(found, others), expected)
    PROVE  \A u \in 1 .. n : found[u] = "complete"
<1>. DEFINE there == {u \in DOMAIN found : found[u] # "absent"}
<1>1. there \in SUBSET (1 .. n) /\ expected = n /\ others = 0
    BY DEF CountsTheGrid
<1>2. IsFiniteSet(1 .. n) /\ Cardinality(1 .. n) = n
    BY FS_Interval
<1>3. Cardinality(there) \in Nat /\ Cardinality(there) <= n
    BY <1>1, <1>2, FS_Subset, FS_CardinalityType
<1>4. Cardinality(there) >= n
    BY <1>1, <1>3 DEF Counted, Passes, CountsTheGrid
<1>5. ASSUME Cardinality(there) = Cardinality(1 .. n)
      PROVE  there = 1 .. n
  <2>. HIDE DEF there
  <2>. QED  BY <1>1, <1>2, <1>5, FS_Subset
<1>6. there = 1 .. n
    BY <1>2, <1>3, <1>4, <1>5
<1>. QED  BY <1>6 DEF CountsTheGrid

(* Only an ann phase that is being judged comes into doubt, or out of it.     *)
LEMMA DoubtStep ==
    ASSUME TypeOK, PlaceInv, [Next]_vars
    PROVE  /\ doubtful' \subseteq Ann
           /\ \A p \in Phases : ~(pc = "ann" /\ p = phase)
                                => (p \in doubtful' <=> p \in doubtful)
<1>1. CASE RunAnn
    BY <1>1 DEF RunAnn, TypeOK, PlaceInv
<1>2. CASE doubtful' = doubtful
    BY <1>2 DEF TypeOK
<1>. QED
    BY <1>1, <1>2
    DEF Next, Begin, SkipPhase, RefusePhase, EnterPhase, SkipUnit, ClearOutput,
        MeasureWell, MeasureBadly, MarkUnit, ClosePhase, KeepPhase, Finish,
        Crash, vars

LEMMA FlagsStep ==
    ASSUME TypeOK, [Next]_vars
    PROVE  /\ resume' \in BOOLEAN /\ failFast' \in BOOLEAN
           /\ worst' \in BOOLEAN
<1>1. CASE Begin
    BY <1>1 DEF Begin, TypeOK, Recorded
<1>2. CASE SkipPhase
    BY <1>2 DEF SkipPhase, TypeOK, NextPhase
<1>3. CASE RefusePhase
    BY <1>3 DEF RefusePhase, TypeOK, NextPhase, AddPhase, Entries
<1>4. CASE EnterPhase
    BY <1>4 DEF EnterPhase, TypeOK
<1>5. CASE RunAnn
    BY <1>5 DEF RunAnn, TypeOK
<1>6. CASE SkipUnit
    BY <1>6 DEF SkipUnit, TypeOK, NextUnit, Leave, Key
<1>7. CASE ClearOutput
    BY <1>7 DEF ClearOutput, TypeOK, Key
<1>8. CASE MeasureWell
    BY <1>8 DEF MeasureWell, TypeOK, Key
<1>9. CASE MeasureBadly
    BY <1>9 DEF MeasureBadly, TypeOK, NextUnit, Leave, Key
<1>10. CASE MarkUnit
    BY <1>10 DEF MarkUnit, TypeOK, NextUnit, Leave, Key
<1>11. CASE ClosePhase
    BY <1>11 DEF ClosePhase, TypeOK, NextPhase, AddPhase, Entries
<1>12. CASE KeepPhase
    BY <1>12 DEF KeepPhase, TypeOK, NextPhase
<1>13. CASE Finish
    BY <1>13 DEF Finish, TypeOK
<1>14. CASE Crash
    BY <1>14 DEF Crash, TypeOK, Key
<1>15. CASE UNCHANGED vars
    BY <1>15 DEF vars, disk, process, TypeOK
<1>. QED  BY <1>1, <1>2, <1>3, <1>4, <1>5, <1>6, <1>7, <1>8, <1>9, <1>10,
          <1>11, <1>12, <1>13, <1>14, <1>15 DEF Next

LEMMA TypeStep ==
    ASSUME TypeOK, PlaceInv, [Next]_vars
    PROVE  TypeOK'
<1>1. CASE Begin
    <2>1. done' \subseteq Keys
        BY <1>1 DEF Begin, Recorded, TypeOK
    <2>2. UNCHANGED disk /\ phase' = 1 /\ unit' = 1 /\ failures' = {}
        BY <1>1 DEF Begin
    <2>3. pc' = "phase" /\ runs' = runs + 1 /\ runs < MaxRuns
        BY <1>1 DEF Begin
    <2>. QED
        BY <2>1, <2>2, <2>3, FlagsStep, DoubtStep, PhasesAre, RunAssumption DEF TypeOK, disk
<1>2. CASE SkipPhase
    BY <1>2, FlagsStep, DoubtStep, PhasesAre DEF SkipPhase, disk, process, TypeOK,
       PlaceInv, InUnit, Inside, NextPhase
<1>3. CASE RefusePhase
    BY <1>3, FlagsStep, DoubtStep, PhasesAre DEF RefusePhase, disk, process, TypeOK,
       PlaceInv, InUnit, Inside, NextPhase, AddPhase, Entries
<1>4. CASE EnterPhase
    BY <1>4, FlagsStep, DoubtStep, PhasesAre DEF EnterPhase, disk, process, TypeOK,
       PlaceInv, InUnit, Inside
<1>5. CASE RunAnn
    <2>1. phase \in Phases
        BY <1>5 DEF RunAnn, PlaceInv, Inside
    <2>2. PICK found \in Sweeps(phase) : output' = Swept(phase, found)
        BY <1>5 DEF RunAnn
    <2>3. output' \in [Results -> {"absent", "partial", "failed", "complete"}]
        BY <2>1, <2>2, SweepKeeps
    <2>. QED
        BY <1>5, <2>3, FlagsStep, DoubtStep DEF RunAnn, TypeOK
<1>6. CASE SkipUnit
    BY <1>6, FlagsStep, DoubtStep, PhasesAre DEF SkipUnit, disk, process, TypeOK,
       PlaceInv, InUnit, Inside, NextUnit, Leave, Key
<1>7. CASE ClearOutput
    BY <1>7, FlagsStep, DoubtStep, PhasesAre DEF ClearOutput, disk, process, TypeOK,
       PlaceInv, InUnit, Inside, Key
<1>8. CASE MeasureWell
    BY <1>8, FlagsStep, DoubtStep, PhasesAre DEF MeasureWell, disk, process, TypeOK,
       PlaceInv, InUnit, Inside, Key
<1>9. CASE MeasureBadly
    <2>1. /\ file' = file /\ phases' = phases /\ done' = done
          /\ phase' = phase /\ failures' = failures /\ runs' = runs
        BY <1>9 DEF MeasureBadly
    <2>2. output' \in [Results -> {"absent", "partial", "failed", "complete"}]
        BY <1>9 DEF MeasureBadly, TypeOK
    <2>3. unit' \in Nat /\ pc' \in {"unit", "close"}
        BY <1>9 DEF MeasureBadly, NextUnit, Leave, TypeOK
    <2>. QED  BY <2>1, <2>2, <2>3, FlagsStep, DoubtStep DEF TypeOK
<1>10. CASE MarkUnit
    BY <1>10, FlagsStep, DoubtStep, PhasesAre, UnitKeyIn DEF MarkUnit, disk, process,
       TypeOK, PlaceInv, InUnit, Inside, NextUnit, Leave, Key
<1>11. CASE ClosePhase
    <2>1. phase \in Phases
        BY <1>11 DEF ClosePhase, PlaceInv, Inside
    <2>2. phases' \in Seq(Entries)
      <3>1. PICK status \in {"completed", "failed"} : AddPhase(phase, status)
        BY <1>11 DEF ClosePhase
      <3>. QED  BY <2>1, <3>1 DEF AddPhase, Entries, TypeOK
    <2>3. failures' \subseteq Phases
        BY <1>11, <2>1 DEF ClosePhase, TypeOK
    <2>4. phase' \in 1 .. Len(Units) + 1 /\ unit' \in Nat
        BY <1>11, <2>1, PhasesAre DEF ClosePhase, NextPhase, TypeOK
    <2>5. /\ file' = file /\ output' = output /\ done' = done /\ runs' = runs
          /\ pc' \in {"phase", "finished", "keep"}
        BY <1>11 DEF ClosePhase, NextPhase
    <2>. QED  BY <2>2, <2>3, <2>4, <2>5, FlagsStep, DoubtStep DEF TypeOK
<1>12. CASE KeepPhase
    BY <1>12, FlagsStep, DoubtStep, PhasesAre, PhaseKeyIn DEF KeepPhase, disk, process,
       TypeOK, PlaceInv, InUnit, Inside, NextPhase
<1>13. CASE Finish
    BY <1>13, FlagsStep, DoubtStep, PhasesAre DEF Finish, disk, process, TypeOK,
       PlaceInv, InUnit, Inside
<1>14. CASE Crash
    <2>1. output' \in [Results -> {"absent", "partial", "failed", "complete"}]
      <3>1. CASE pc = "ann" /\ \E found \in Sweeps(phase) :
                                    output' = Swept(phase, found)
        <4>1. phase \in Phases
            BY <3>1 DEF PlaceInv, Inside
        <4>. QED  BY <3>1, <4>1, SweepKeeps
      <3>2. CASE ~(pc = "ann" /\ \E found \in Sweeps(phase) :
                                     output' = Swept(phase, found))
          BY <1>14, <3>2 DEF Crash, TypeOK
      <3>. QED  BY <3>1, <3>2
    <2>. QED  BY <1>14, <2>1, FlagsStep, DoubtStep DEF Crash, TypeOK
<1>15. CASE UNCHANGED vars
    BY <1>15, FlagsStep, DoubtStep, PhasesAre DEF vars, disk, process, disk, process,
       TypeOK, PlaceInv, InUnit, Inside
<1>. QED  BY <1>1, <1>2, <1>3, <1>4, <1>5, <1>6, <1>7, <1>8, <1>9, <1>10,
          <1>11, <1>12, <1>13, <1>14, <1>15 DEF Next

LEMMA PlaceStep ==
    ASSUME TypeOK, PlaceInv, [Next]_vars
    PROVE  PlaceInv'
<1>1. CASE Begin
    BY <1>1, PhasesAre DEF Begin, disk, process, TypeOK, PlaceInv, InUnit,
       Inside, Recorded
<1>2. CASE SkipPhase
    BY <1>2, PhasesAre DEF SkipPhase, disk, process, TypeOK, PlaceInv,
       InUnit, Inside, NextPhase
<1>3. CASE RefusePhase
    BY <1>3, PhasesAre DEF RefusePhase, disk, process, TypeOK, PlaceInv,
       InUnit, Inside, NextPhase, AddPhase, Entries
<1>4. CASE EnterPhase
    BY <1>4, PhasesAre DEF EnterPhase, disk, process, TypeOK, PlaceInv,
       InUnit, Inside
<1>5. CASE RunAnn
    BY <1>5, PhasesAre DEF RunAnn, disk, process, TypeOK, PlaceInv, InUnit,
       Inside
<1>6. CASE SkipUnit
    BY <1>6, PhasesAre DEF SkipUnit, disk, process, TypeOK, PlaceInv,
       InUnit, Inside, NextUnit, Leave, Key
<1>7. CASE ClearOutput
    BY <1>7, PhasesAre DEF ClearOutput, disk, process, TypeOK, PlaceInv,
       InUnit, Inside, Key
<1>8. CASE MeasureWell
    BY <1>8, PhasesAre DEF MeasureWell, disk, process, TypeOK, PlaceInv,
       InUnit, Inside, Key
<1>9. CASE MeasureBadly
    BY <1>9, PhasesAre DEF MeasureBadly, disk, process, TypeOK, PlaceInv,
       InUnit, Inside, NextUnit, Leave, Key
<1>10. CASE MarkUnit
    BY <1>10, PhasesAre DEF MarkUnit, disk, process, TypeOK, PlaceInv,
       InUnit, Inside, NextUnit, Leave, Key
<1>11. CASE ClosePhase
    BY <1>11, PhasesAre DEF ClosePhase, disk, process, TypeOK, PlaceInv,
       InUnit, Inside, NextPhase, AddPhase, Entries
<1>12. CASE KeepPhase
    BY <1>12, PhasesAre DEF KeepPhase, disk, process, TypeOK, PlaceInv,
       InUnit, Inside, NextPhase
<1>13. CASE Finish
    BY <1>13, PhasesAre DEF Finish, disk, process, TypeOK, PlaceInv, InUnit,
       Inside
<1>14. CASE Crash
    BY <1>14, PhasesAre DEF Crash, disk, process, TypeOK, PlaceInv, InUnit,
       Inside, Key
<1>15. CASE UNCHANGED vars
    BY <1>15, PhasesAre DEF vars, disk, process, disk, process, TypeOK,
       PlaceInv, InUnit, Inside
<1>. QED  BY <1>1, <1>2, <1>3, <1>4, <1>5, <1>6, <1>7, <1>8, <1>9, <1>10,
          <1>11, <1>12, <1>13, <1>14, <1>15 DEF Next

LEMMA KeyIs ==
    /\ \A k \in Keys : k[1] \in Phases
    /\ \A p \in Phases : PhaseKey(p)[1] = p
BY DEF Keys, UnitKeys, PhaseKey

LEMMA SkipStep ==
    ASSUME AlwaysResume, TypeOK, PlaceInv, SkipInv, [Next]_vars
    PROVE  SkipInv'
<1>1. CASE Begin
    BY <1>1, PhasesAre, KeyIs DEF Begin, disk, process, TypeOK, PlaceInv,
       InUnit, Inside, SkipInv, Working, PhaseKey, Key, Recorded
<1>2. CASE SkipPhase
    BY <1>2, PhasesAre, KeyIs DEF SkipPhase, disk, process, TypeOK,
       PlaceInv, InUnit, Inside, SkipInv, Working, PhaseKey, Key, NextPhase
<1>3. CASE RefusePhase
    BY <1>3, PhasesAre, KeyIs DEF RefusePhase, disk, process, TypeOK,
       PlaceInv, InUnit, Inside, SkipInv, Working, PhaseKey, Key, NextPhase,
       AddPhase, Entries
<1>4. CASE EnterPhase
    BY <1>4, PhasesAre, KeyIs, PhaseKeyIn DEF EnterPhase, disk, process,
       TypeOK, PlaceInv, InUnit, Inside, SkipInv, Working, PhaseKey, Key
<1>5. CASE RunAnn
    BY <1>5, PhasesAre, KeyIs DEF RunAnn, disk, process, TypeOK, PlaceInv,
       InUnit, Inside, SkipInv, Working, PhaseKey, Key
<1>6. CASE SkipUnit
    BY <1>6, PhasesAre, KeyIs, UnitKeyIn DEF SkipUnit, disk, process,
       TypeOK, PlaceInv, InUnit, Inside, SkipInv, Working, PhaseKey, Key,
       NextUnit, Leave
<1>7. CASE ClearOutput
    BY <1>7, PhasesAre, KeyIs, UnitKeyIn DEF ClearOutput, disk, process,
       TypeOK, PlaceInv, InUnit, Inside, SkipInv, Working, PhaseKey, Key,
       Key
<1>8. CASE MeasureWell
    BY <1>8, PhasesAre, KeyIs DEF MeasureWell, disk, process, TypeOK,
       PlaceInv, InUnit, Inside, SkipInv, Working, PhaseKey, Key
<1>9. CASE MeasureBadly
    BY <1>9, PhasesAre, KeyIs DEF MeasureBadly, disk, process, TypeOK,
       PlaceInv, InUnit, Inside, SkipInv, Working, PhaseKey, Key, NextUnit,
       Leave
<1>10. CASE MarkUnit
    BY <1>10, PhasesAre, KeyIs, UnitKeyIn DEF MarkUnit, disk, process,
       TypeOK, PlaceInv, InUnit, Inside, SkipInv, Working, PhaseKey, Key,
       NextUnit, Leave
<1>11. CASE ClosePhase
    <2>1. UNCHANGED <<file, done, runs>> /\ pc = "close"
        BY <1>11 DEF ClosePhase
    <2>2. CASE pc' = "finished"
        BY <2>1, <2>2 DEF SkipInv, Working, InUnit, Inside
    <2>3. CASE pc' = "phase" /\ phase' = phase + 1
        BY <2>1, <2>3, PhasesAre, KeyIs
        DEF TypeOK, SkipInv, Working, InUnit, Inside
    <2>4. CASE pc' = "keep" /\ phase' = phase
        BY <2>1, <2>4 DEF SkipInv, Working, InUnit, Inside, PhaseKey
    <2>. QED  BY <1>11, <2>2, <2>3, <2>4 DEF ClosePhase, NextPhase
<1>12. CASE KeepPhase
    BY <1>12, PhasesAre, KeyIs DEF KeepPhase, disk, process, TypeOK,
       PlaceInv, InUnit, Inside, SkipInv, Working, PhaseKey, Key, NextPhase
<1>13. CASE Finish
    BY <1>13, PhasesAre, KeyIs DEF Finish, disk, process, TypeOK, PlaceInv,
       InUnit, Inside, SkipInv, Working, PhaseKey, Key
<1>14. CASE Crash
    BY <1>14, PhasesAre, KeyIs DEF Crash, disk, process, TypeOK, PlaceInv,
       InUnit, Inside, SkipInv, Working, PhaseKey, Key
<1>15. CASE UNCHANGED vars
    BY <1>15, PhasesAre, KeyIs DEF vars, disk, process, disk, process,
       TypeOK, PlaceInv, InUnit, Inside, SkipInv, Working, PhaseKey, Key
<1>. QED  BY <1>1, <1>2, <1>3, <1>4, <1>5, <1>6, <1>7, <1>8, <1>9, <1>10,
          <1>11, <1>12, <1>13, <1>14, <1>15 DEF Next

(* Whose key is whose.                                                        *)
LEMMA Owners ==
    \A p \in Phases :
        /\ \A k \in UnitKeys(p) : /\ k \in Keys /\ k \in Results
                                  /\ k[1] = p /\ k[2] # 0
        /\ PhaseKey(p) \in Keys /\ PhaseKey(p)[1] = p /\ PhaseKey(p)[2] = 0
BY PhasesAre DEF Keys, Results, UnitKeys, PhaseKey

LEMMA KeyIn ==
    ASSUME TypeOK, PlaceInv, InUnit
    PROVE  /\ Key \in UnitKeys(phase) /\ Key \in Keys /\ Key \in Results
           /\ Key[1] = phase /\ Key[2] = unit /\ phase \in Phases
BY Owners DEF PlaceInv, Inside, Key, UnitKeys

(* What a step may do to the outputs: nothing, or something to those of the   *)
(* phase it is in, where it either damages no result or clears or writes that *)
(* of the unit in hand.                                                       *)
Elsewhere == \A k \in Results : k[1] # phase => output'[k] = output[k]
NothingLost == \A k \in Results : Measured(k) => output'[k] = "complete"
OnlyUnit == /\ InUnit /\ Key \notin file
            /\ \A k \in Results \ {Key} : output'[k] = output[k]

LEMMA OutputStep ==
    ASSUME AlwaysResume, TypeOK, PlaceInv, SkipInv, [Next]_vars
    PROVE  \/ output' = output
           \/ /\ Inside
              /\ Elsewhere
              /\ NothingLost \/ OnlyUnit
<1>1. CASE output' = output
    BY <1>1
<1>2. ASSUME pc = "ann", NEW found \in Sweeps(phase), output' = Swept(phase, found)
      PROVE  Inside /\ Elsewhere /\ NothingLost
  <2>1. Inside /\ phase \in Phases
      BY <1>2 DEF Inside, PlaceInv
  <2>. QED  BY <1>2, <2>1, SweepKeeps DEF Elsewhere, NothingLost
<1>3. ASSUME InUnit, Key \notin file, \A k \in Results \ {Key} : output'[k] = output[k]
      PROVE  Inside /\ Elsewhere /\ OnlyUnit
  <2>1. Key[1] = phase
      BY <1>3, KeyIn
  <2>. QED  BY <1>3, <2>1 DEF Inside, Elsewhere, OnlyUnit
<1>4. CASE RunAnn
    BY <1>2, <1>4 DEF RunAnn
<1>5. CASE ClearOutput
  <2>1. Key \in Keys /\ Key[1] = phase /\ phase \in Nat
      BY <1>5, KeyIn, PhasesAre DEF ClearOutput, InUnit
  <2>2. Key \notin file
      BY <1>5, <2>1 DEF ClearOutput, SkipInv, Working
  <2>. QED  BY <1>3, <1>5, <2>2 DEF ClearOutput, InUnit, TypeOK
<1>6. CASE MeasureWell
    BY <1>3, <1>6 DEF MeasureWell, InUnit, SkipInv, TypeOK
<1>7. CASE MeasureBadly
    BY <1>3, <1>7 DEF MeasureBadly, InUnit, SkipInv, TypeOK
<1>8. CASE Crash
  <2>1. CASE pc = "measure" /\ output' = [output EXCEPT ![Key] = "partial"]
      BY <1>3, <2>1 DEF InUnit, SkipInv, TypeOK
  <2>. QED  BY <1>1, <1>2, <1>8, <2>1 DEF Crash
<1>. QED
    BY <1>1, <1>4, <1>5, <1>6, <1>7, <1>8
    DEF Next, Begin, SkipPhase, RefusePhase, EnterPhase, SkipUnit, MarkUnit,
        ClosePhase, KeepPhase, Finish, vars, disk

(* No step damages a result that a checkpoint speaks for.                     *)
LEMMA KeepsStep ==
    ASSUME AlwaysResume, TypeOK, PlaceInv, SkipInv, [Next]_vars,
           NEW k \in Results, SpokenFor(k), Measured(k)
    PROVE  output'[k] = "complete"
<1>1. CASE output' = output
    BY <1>1 DEF Measured
<1>2. CASE Inside /\ NothingLost
    BY <1>2 DEF NothingLost
<1>3. CASE Inside /\ OnlyUnit
  <2>1. k # Key
      BY <1>3, KeyIn DEF OnlyUnit, SpokenFor, SkipInv
  <2>. QED  BY <1>3, <2>1 DEF OnlyUnit, Measured
<1>. QED  BY <1>1, <1>2, <1>3, OutputStep

LEMMA CheckpointStep ==
    ASSUME AlwaysResume, TypeOK, PlaceInv, SkipInv, ProgressInv,
           CheckpointIsMeasured, [Next]_vars
    PROVE  CheckpointIsMeasured'
<1>1. CASE file' = file
  <2>1. ASSUME NEW p \in Phases, NEW k \in UnitKeys(p), k \in file
        PROVE  output'[k] = "complete"
    <3>1. Measured(k) /\ k \in Results
        BY <2>1, Owners DEF CheckpointIsMeasured
    <3>. QED  BY <2>1, <3>1, KeepsStep DEF SpokenFor
  <2>2. ASSUME NEW p \in Phases, PhaseKey(p) \in file, p \notin doubtful',
               NEW k \in UnitKeys(p)
        PROVE  output'[k] = "complete"
    <3>1. ~(pc = "ann" /\ p = phase)
        BY <2>2 DEF SkipInv, Inside
    <3>2. p \notin doubtful
        BY <2>2, <3>1, DoubtStep
    <3>3. Measured(k) /\ k \in Results /\ k[1] = p
        BY <2>2, <3>2, Owners DEF CheckpointIsMeasured, AllMeasured
    <3>. QED  BY <2>2, <3>3, KeepsStep DEF SpokenFor
  <2>. QED
      BY <1>1, <2>1, <2>2 DEF CheckpointIsMeasured, AllMeasured, Measured
<1>2. CASE MarkUnit
    <2>1. Measured(Key) /\ Key[2] # 0
        BY <1>2, KeyIn, PhasesAre DEF MarkUnit, ProgressInv, InUnit, PlaceInv
    <2>2. file' = file \cup {Key} /\ output' = output /\ doubtful' = doubtful
        BY <1>2 DEF MarkUnit
    <2>. QED
        BY <2>1, <2>2, Owners DEF CheckpointIsMeasured, AllMeasured, Measured
<1>3. CASE KeepPhase
    <2>1. phase \in Phases /\ Sound(phase)
        BY <1>3 DEF KeepPhase, ProgressInv, PlaceInv, Inside
    <2>2. /\ file' = file \cup {PhaseKey(phase)} /\ output' = output
          /\ doubtful' = doubtful
        BY <1>3 DEF KeepPhase
    <2>3. \A p \in Phases : \A k \in UnitKeys(p) : k # PhaseKey(phase)
        BY <2>1, Owners
    <2>4. \A p \in Phases : PhaseKey(p) = PhaseKey(phase) => p = phase
        BY <2>1, Owners
    <2>. QED
        BY <2>1, <2>2, <2>3, <2>4
        DEF CheckpointIsMeasured, Measured, AllMeasured, Sound
<1>. QED
    BY <1>1, <1>2, <1>3
    DEF Next, Begin, SkipPhase, RefusePhase, EnterPhase, RunAnn, SkipUnit,
        ClearOutput, MeasureWell, MeasureBadly, ClosePhase, Finish, Crash, vars,
        disk

(* The loop over units goes on from a measured one, or ends with all of them. *)
LEMMA UnitDone ==
    ASSUME TypeOK, PlaceInv, ProgressInv, pc \in {"unit", "mark"},
           Measured(Key), output' = output, phase' = phase, worst' = worst,
           NextUnit
    PROVE  ProgressInv'
<1>1. /\ phase \in Phases /\ unit \in 1 .. Units[phase]
      /\ unit \in Nat /\ Units[phase] \in Nat
    BY PhasesAre DEF PlaceInv, InUnit, Inside, TypeOK
<1>2. worst = FALSE => \A u \in 1 .. unit : output'[<<phase, u>>] = "complete"
  <2>. SUFFICES ASSUME worst = FALSE, NEW u \in 1 .. unit
                PROVE  output'[<<phase, u>>] = "complete"
      OBVIOUS
  <2>1. CASE u = unit
      BY <2>1 DEF Measured, Key
  <2>2. CASE u # unit
      BY <1>1, <2>2 DEF ProgressInv, InUnit, Measured
  <2>. QED  BY <2>1, <2>2
<1>3. CASE unit < Units[phase]
  <2>1. unit' = unit + 1 /\ pc' = "unit"
      BY <1>3 DEF NextUnit
  <2>2. unit' - 1 = unit
      BY <1>1, <2>1
  <2>. QED  BY <1>2, <2>1, <2>2 DEF ProgressInv, InUnit, Measured
<1>4. CASE ~(unit < Units[phase])
  <2>1. unit' = unit /\ pc' = "close"
      BY <1>4 DEF NextUnit, Leave
  <2>2. unit = Units[phase]
      BY <1>1, <1>4
  <2>3. worst = FALSE => \A k \in UnitKeys(phase) : output'[k] = "complete"
      BY <1>2, <2>2 DEF UnitKeys
  <2>. QED  BY <2>1, <2>3 DEF ProgressInv, InUnit, Measured, AllMeasured, Sound
<1>. QED  BY <1>3, <1>4

LEMMA ProgressStep ==
    ASSUME AlwaysResume, TypeOK, PlaceInv, SkipInv, ProgressInv,
           CheckpointIsMeasured, [Next]_vars
    PROVE  ProgressInv'
<1>1. CASE Begin
    BY <1>1 DEF Begin, ProgressInv, InUnit, Recorded
<1>2. CASE SkipPhase
    BY <1>2 DEF SkipPhase, NextPhase, ProgressInv, InUnit
<1>3. CASE RefusePhase
    BY <1>3 DEF RefusePhase, NextPhase, ProgressInv, InUnit
<1>4. CASE EnterPhase
    <2>1. unit = 1 /\ unit' = unit /\ pc' \in {"ann", "unit"}
        BY <1>4 DEF EnterPhase, PlaceInv
    <2>. QED  BY <2>1 DEF ProgressInv, InUnit
<1>5. CASE RunAnn
    <2>1. phase \in Phases /\ pc' = "close" /\ phase' = phase
          /\ Units[phase] \in Nat
        BY <1>5, PhasesAre DEF RunAnn, PlaceInv, Inside
    <2>2. PICK found \in Sweeps(phase), others \in 0 .. MaxOthers,
               expected \in {0, Units[phase]}, exitsWell \in BOOLEAN :
             LET ok == exitsWell /\ Passes(Counted(found, others), expected)
             IN  /\ output' = Swept(phase, found)
                 /\ worst' = ~ok
                 /\ doubtful' = IF ok /\ ~CountsTheGrid(found, others, expected)
                                   THEN doubtful \cup {phase}
                                   ELSE doubtful \ {phase}
        BY <1>5 DEF RunAnn
    <2>3. SUFFICES ASSUME worst' = FALSE, phase \notin doubtful',
                          NEW u \in 1 .. Units[phase]
                   PROVE  output'[<<phase, u>>] = "complete"
        BY <2>1 DEF ProgressInv, InUnit, Measured, AllMeasured, Sound, UnitKeys
    <2>4. /\ found \in [1 .. Units[phase] -> {"absent", "partial", "complete"}]
          /\ output'[<<phase, u>>] = found[u]
        BY <2>1, <2>2, SweepKeeps
    <2>5. /\ Passes(Counted(found, others), expected)
          /\ CountsTheGrid(found, others, expected)
        BY <2>2, <2>3
    <2>. QED  BY <2>1, <2>4, <2>5, CountIsEnough
<1>6. CASE SkipUnit
    <2>1. Key \in UnitKeys(phase) /\ Key \in Keys /\ Key[1] = phase
          /\ phase \in Phases /\ phase \in Nat
        BY <1>6, KeyIn, PhasesAre DEF SkipUnit, InUnit
    <2>2. Key \in file
        BY <1>6, <2>1 DEF SkipUnit, SkipInv, Working
    <2>3. Measured(Key)
        BY <2>1, <2>2 DEF CheckpointIsMeasured
    <2>. QED  BY <1>6, <2>3, UnitDone DEF SkipUnit, disk
<1>7. CASE ClearOutput
    <2>1. phase \in Phases /\ unit \in Nat
          /\ \A u \in 1 .. unit - 1 : <<phase, u>> \in Results /\ <<phase, u>> # Key
        BY <1>7, UnitKeyIn, PhasesAre
        DEF ClearOutput, PlaceInv, InUnit, Inside, TypeOK, Key
    <2>2. /\ pc' = "measure" /\ phase' = phase /\ unit' = unit /\ worst' = worst
          /\ \A k \in Results \ {Key} : output'[k] = output[k]
        BY <1>7 DEF ClearOutput, TypeOK
    <2>3. pc' = "mark" => output'[Key'] = "complete"
        BY <1>7, <2>2, KeyIn DEF ClearOutput, TypeOK, InUnit, Key
    <2>. QED
        BY <1>7, <2>1, <2>2, <2>3 DEF ClearOutput, ProgressInv, InUnit, Measured
<1>8. CASE MeasureWell
    <2>1. phase \in Phases /\ unit \in Nat
          /\ \A u \in 1 .. unit - 1 : <<phase, u>> \in Results /\ <<phase, u>> # Key
        BY <1>8, UnitKeyIn, PhasesAre
        DEF MeasureWell, PlaceInv, InUnit, Inside, TypeOK, Key
    <2>2. /\ pc' = "mark" /\ phase' = phase /\ unit' = unit /\ worst' = worst
          /\ \A k \in Results \ {Key} : output'[k] = output[k]
        BY <1>8 DEF MeasureWell, TypeOK
    <2>3. pc' = "mark" => output'[Key'] = "complete"
        BY <1>8, <2>2, KeyIn DEF MeasureWell, TypeOK, InUnit, Key
    <2>. QED
        BY <1>8, <2>1, <2>2, <2>3 DEF MeasureWell, ProgressInv, InUnit, Measured
<1>9. CASE MeasureBadly
    BY <1>9 DEF MeasureBadly, NextUnit, Leave, ProgressInv, InUnit
<1>10. CASE MarkUnit
    <2>1. Measured(Key)
        BY <1>10 DEF MarkUnit, ProgressInv
    <2>. QED  BY <1>10, <2>1, UnitDone DEF MarkUnit
<1>11. CASE ClosePhase
    <2>1. CASE worst = TRUE
        BY <1>11, <2>1 DEF ClosePhase, NextPhase, ProgressInv, InUnit
    <2>2. CASE worst = FALSE
      <3>1. pc' = "keep" /\ UNCHANGED <<phase, worst, output, doubtful>>
          BY <1>11, <2>2 DEF ClosePhase
      <3>2. Sound(phase)
          BY <1>11, <2>2 DEF ClosePhase, ProgressInv
      <3>. QED
          BY <2>2, <3>1, <3>2
          DEF ProgressInv, InUnit, Measured, AllMeasured, Sound
    <2>. QED  BY <2>1, <2>2 DEF TypeOK
<1>12. CASE KeepPhase
    BY <1>12 DEF KeepPhase, NextPhase, ProgressInv, InUnit
<1>13. CASE Finish
    BY <1>13 DEF Finish, ProgressInv, InUnit
<1>14. CASE Crash
    BY <1>14 DEF Crash, ProgressInv, InUnit, Key
<1>15. CASE UNCHANGED vars
    BY <1>15 DEF vars, disk, process, ProgressInv, InUnit, Measured,
       AllMeasured, Sound, Key
<1>. QED  BY <1>1, <1>2, <1>3, <1>4, <1>5, <1>6, <1>7, <1>8, <1>9, <1>10,
          <1>11, <1>12, <1>13, <1>14, <1>15 DEF Next

(* A step that stays in its phase leaves those behind it as they were.        *)
LEMMA Ahead ==
    ASSUME TypeOK, BehindInv, Working, phase \in Phases, Elsewhere,
           \A p \in Phases : p # phase => (p \in doubtful' <=> p \in doubtful),
           phase' = phase, failures' = failures, pc' # "finished"
    PROVE  BehindInv'
<1>1. ASSUME NEW p \in Phases \ (TooBig \cup failures), p < phase,
             p \notin doubtful', NEW k \in UnitKeys(p)
      PROVE  output'[k] = "complete"
  <2>1. p # phase
      BY <1>1, PhasesAre
  <2>2. k \in Results /\ k[1] # phase
      BY <2>1, Owners
  <2>3. p \notin doubtful
      BY <1>1, <2>1
  <2>. QED
      BY <1>1, <2>2, <2>3 DEF BehindInv, AllMeasured, Measured, Elsewhere, Sound
<1>. QED  BY <1>1 DEF BehindInv, AllMeasured, Measured, Sound

(* The phase it leaves may join those behind it.                              *)
LEMMA Behind ==
    ASSUME TypeOK, BehindInv, Working, phase \in Phases,
           phase \in TooBig \cup failures' \/ Sound(phase),
           output' = output, doubtful' = doubtful, failures \subseteq failures',
           phase' = phase + 1, pc' = "phase"
    PROVE  BehindInv'
<1>1. ASSUME NEW p \in Phases \ (TooBig \cup failures'), p < phase + 1
      PROVE  Sound(p)
  <2>1. CASE p = phase
      BY <1>1, <2>1
  <2>2. CASE p # phase
      BY <1>1, <2>2, PhasesAre DEF BehindInv
  <2>. QED  BY <2>1, <2>2
<1>. QED  BY <1>1 DEF BehindInv, AllMeasured, Measured, Sound

LEMMA BehindStep ==
    ASSUME AlwaysResume, TypeOK, PlaceInv, SkipInv, ProgressInv, BehindInv,
           CheckpointIsMeasured, [Next]_vars
    PROVE  BehindInv'
<1>1. CASE Begin
    <2>1. phase' = 1 /\ pc' = "phase"
        BY <1>1 DEF Begin
    <2>. QED  BY <2>1, PhasesAre DEF BehindInv
<1>2. CASE SkipPhase
    <2>1. phase \in Phases /\ PhaseKey(phase) \in done /\ Working
        BY <1>2 DEF SkipPhase, Working
    <2>2. PhaseKey(phase) \in file
        BY <2>1, Owners, PhasesAre DEF SkipInv
    <2>3. Sound(phase)
        BY <2>1, <2>2 DEF CheckpointIsMeasured, Sound
    <2>. QED  BY <1>2, <2>1, <2>3, Behind DEF SkipPhase, NextPhase, disk
<1>3. CASE RefusePhase
    BY <1>3, Behind DEF RefusePhase, NextPhase, Working
<1>4. ASSUME Inside, Elsewhere, UNCHANGED <<phase, failures>>, pc' # "finished"
      PROVE  BehindInv'
  <2>1. phase \in Phases /\ Working
      BY <1>4 DEF PlaceInv, Inside, InUnit, Working
  <2>2. \A p \in Phases : p # phase => (p \in doubtful' <=> p \in doubtful)
      BY DoubtStep
  <2>. QED  BY <1>4, <2>1, <2>2, Ahead
<1>5. ASSUME UNCHANGED <<output, doubtful, phase, failures>>, Working,
             pc' # "finished"
      PROVE  BehindInv'
    BY <1>5 DEF BehindInv, Sound, AllMeasured, Measured
<1>6. CASE EnterPhase
    BY <1>5, <1>6 DEF EnterPhase, disk, Working
<1>7. CASE RunAnn \/ ClearOutput \/ MeasureWell \/ MeasureBadly
  <2>1. /\ Inside /\ UNCHANGED <<phase, failures>> /\ pc' # "finished"
      BY <1>7 DEF RunAnn, ClearOutput, MeasureWell, MeasureBadly, NextUnit, Leave,
         Inside, InUnit
  <2>2. Elsewhere
      BY OutputStep DEF Elsewhere
  <2>. QED  BY <1>4, <2>1, <2>2
<1>8. CASE SkipUnit \/ MarkUnit
    BY <1>5, <1>8 DEF SkipUnit, MarkUnit, NextUnit, Leave, disk, Working
<1>11. CASE ClosePhase
    <2>1. phase \in Phases /\ Working /\ UNCHANGED <<output, doubtful>>
        BY <1>11 DEF ClosePhase, PlaceInv, Inside, Working
    <2>2. CASE worst /\ failFast
      <3>1. pc' = "finished" /\ failures' # {}
          BY <1>11, <2>2 DEF ClosePhase
      <3>. QED  BY <3>1 DEF BehindInv, Working
    <2>3. CASE worst /\ ~failFast
        BY <1>11, <2>1, <2>3, Behind DEF ClosePhase, NextPhase
    <2>4. CASE ~worst
        BY <1>5, <1>11, <2>1, <2>4 DEF ClosePhase
    <2>. QED  BY <2>2, <2>3, <2>4
<1>12. CASE KeepPhase
    <2>1. phase \in Phases /\ Working /\ Sound(phase)
        BY <1>12 DEF KeepPhase, PlaceInv, Inside, Working, ProgressInv
    <2>. QED  BY <1>12, <2>1, Behind DEF KeepPhase, NextPhase
<1>13. CASE Finish
    <2>1. Working /\ \A p \in Phases : p < phase
        BY <1>13, PhasesAre DEF Finish, Working, TypeOK
    <2>2. UNCHANGED <<output, doubtful, failures>> /\ pc' = "finished"
        BY <1>13 DEF Finish, disk
    <2>. QED
        BY <2>1, <2>2 DEF BehindInv, Working, AllMeasured, Measured, Sound
<1>14. CASE Crash
    BY <1>14 DEF Crash, BehindInv, Working
<1>15. CASE UNCHANGED vars
    BY <1>15 DEF vars, disk, process, BehindInv, Working, AllMeasured,
       Measured, Sound
<1>. QED  BY <1>1, <1>2, <1>3, <1>6, <1>7, <1>8, <1>11, <1>12, <1>13, <1>14,
          <1>15 DEF Next

(* An attempt of a phase that is not recorded says nothing of those that are. *)
LEMMA Reported ==
    ASSUME TypeOK, CheckpointIsReported, NEW q \in Phases, NEW status,
           PhaseKey(q) \notin file, file' = file, AddPhase(q, status)
    PROVE  CheckpointIsReported'
<1>1. /\ phases \in Seq(Entries)
      /\ phases' = Append(phases, [phase |-> q, status |-> status])
    BY DEF TypeOK, AddPhase
<1>2. /\ Len(phases) \in Nat
      /\ DOMAIN phases = 1 .. Len(phases)
      /\ DOMAIN phases' = 1 .. Len(phases) + 1
      /\ \A i \in 1 .. Len(phases) : phases'[i] = phases[i]
      /\ phases'[Len(phases) + 1] = [phase |-> q, status |-> status]
    BY <1>1
<1>3. ASSUME NEW p \in Phases, PhaseKey(p) \in file
      PROVE  \E i \in DOMAIN phases' : LastAttempt(p, i)'
                                       /\ phases'[i].status = "completed"
  <2>1. PICK i \in DOMAIN phases : /\ LastAttempt(p, i)
                                   /\ phases[i].status = "completed"
      BY <1>3 DEF CheckpointIsReported
  <2>2. p # q
      BY <1>3
  <2>3. i \in DOMAIN phases' /\ phases'[i] = phases[i]
      BY <1>2
  <2>4. LastAttempt(p, i)'
    <3>1. phases'[i].phase = p
        BY <2>1, <2>3 DEF LastAttempt
    <3>2. ASSUME NEW j \in DOMAIN phases', phases'[j].phase = p PROVE j <= i
      <4>1. CASE j = Len(phases) + 1
          BY <1>2, <2>2, <3>2, <4>1
      <4>2. CASE j # Len(phases) + 1
        <5>1. j \in DOMAIN phases /\ phases'[j] = phases[j]
            BY <1>2, <4>2
        <5>. QED  BY <2>1, <3>2, <5>1 DEF LastAttempt
      <4>. QED  BY <4>1, <4>2
    <3>. QED  BY <3>1, <3>2 DEF LastAttempt
  <2>. QED  BY <2>1, <2>3, <2>4
<1>. QED  BY <1>3 DEF CheckpointIsReported

LEMMA ReportStep ==
    ASSUME AlwaysResume, TypeOK, PlaceInv, SkipInv, KeepInv,
           CheckpointIsReported, [Next]_vars
    PROVE  KeepInv' /\ CheckpointIsReported'
<1>1. CASE Begin
    <2>1. file' = file /\ phases' = phases /\ pc' # "keep"
        BY <1>1 DEF Begin, disk
    <2>. QED  BY <2>1 DEF KeepInv, CheckpointIsReported, LastAttempt
<1>2. CASE SkipPhase
    <2>1. file' = file /\ phases' = phases /\ pc' # "keep"
        BY <1>2 DEF SkipPhase, NextPhase, disk
    <2>. QED  BY <2>1 DEF KeepInv, CheckpointIsReported, LastAttempt
<1>3. CASE RefusePhase
    <2>1. phase \in Phases /\ PhaseKey(phase) \notin file
        BY <1>3, Owners, PhasesAre DEF RefusePhase, SkipInv, Working
    <2>2. pc' # "keep"
        BY <1>3 DEF RefusePhase, NextPhase
    <2>. QED  BY <1>3, <2>1, <2>2, Reported DEF RefusePhase, KeepInv
<1>4. CASE EnterPhase
    <2>1. file' = file /\ phases' = phases /\ pc' # "keep"
        BY <1>4 DEF EnterPhase, disk
    <2>. QED  BY <2>1 DEF KeepInv, CheckpointIsReported, LastAttempt
<1>5. CASE RunAnn
    <2>1. file' = file /\ phases' = phases /\ pc' # "keep"
        BY <1>5 DEF RunAnn, disk
    <2>. QED  BY <2>1 DEF KeepInv, CheckpointIsReported, LastAttempt
<1>6. CASE SkipUnit
    <2>1. file' = file /\ phases' = phases /\ pc' # "keep"
        BY <1>6 DEF SkipUnit, NextUnit, Leave, disk
    <2>. QED  BY <2>1 DEF KeepInv, CheckpointIsReported, LastAttempt
<1>7. CASE ClearOutput
    <2>1. file' = file /\ phases' = phases /\ pc' # "keep"
        BY <1>7 DEF ClearOutput, disk
    <2>. QED  BY <2>1 DEF KeepInv, CheckpointIsReported, LastAttempt
<1>8. CASE MeasureWell
    <2>1. file' = file /\ phases' = phases /\ pc' # "keep"
        BY <1>8 DEF MeasureWell, disk
    <2>. QED  BY <2>1 DEF KeepInv, CheckpointIsReported, LastAttempt
<1>9. CASE MeasureBadly
    <2>1. file' = file /\ phases' = phases /\ pc' # "keep"
        BY <1>9 DEF MeasureBadly, NextUnit, Leave, disk
    <2>. QED  BY <2>1 DEF KeepInv, CheckpointIsReported, LastAttempt
<1>10. CASE MarkUnit
    <2>1. file' = file \cup {Key} /\ phases' = phases /\ pc' # "keep"
        BY <1>10 DEF MarkUnit, NextUnit, Leave
    <2>2. \A p \in Phases : PhaseKey(p) # Key
        BY <1>10, Owners, KeyIn DEF MarkUnit, InUnit
    <2>. QED
        BY <2>1, <2>2 DEF KeepInv, CheckpointIsReported, LastAttempt
<1>11. CASE ClosePhase
    <2>1. phase \in Phases /\ PhaseKey(phase) \notin file /\ file' = file
        BY <1>11 DEF ClosePhase, PlaceInv, SkipInv, Inside
    <2>2. PICK status \in {"completed", "failed"} : AddPhase(phase, status)
        BY <1>11 DEF ClosePhase
    <2>3. CheckpointIsReported'
        BY <2>1, <2>2, Reported
    <2>4. KeepInv'
      <3>. SUFFICES ASSUME pc' = "keep"  PROVE KeepInv'
          BY DEF KeepInv
      <3>1. AddPhase(phase, "completed") /\ phase' = phase
          BY <1>11 DEF ClosePhase, NextPhase
      <3>. QED  BY <3>1 DEF AddPhase, KeepInv, TypeOK
    <2>. QED  BY <2>3, <2>4
<1>12. CASE KeepPhase
    <2>1. /\ phase \in Phases /\ phases' = phases /\ pc' # "keep"
          /\ file' = file \cup {PhaseKey(phase)}
        BY <1>12 DEF KeepPhase, NextPhase, PlaceInv, Inside
    <2>2. \A p \in Phases : PhaseKey(p) = PhaseKey(phase) => p = phase
        BY <2>1, Owners
    <2>3. /\ Len(phases) \in DOMAIN phases
          /\ \A j \in DOMAIN phases : j <= Len(phases)
          /\ phases[Len(phases)] = [phase |-> phase, status |-> "completed"]
        BY <1>12 DEF KeepPhase, KeepInv, TypeOK
    <2>4. LastAttempt(phase, Len(phases))
          /\ phases[Len(phases)].status = "completed"
        BY <2>3 DEF LastAttempt
    <2>. QED
        BY <2>1, <2>2, <2>3, <2>4 DEF KeepInv, CheckpointIsReported, LastAttempt
<1>13. CASE Finish
    <2>1. file' = file /\ phases' = phases /\ pc' # "keep"
        BY <1>13 DEF Finish, disk
    <2>. QED  BY <2>1 DEF KeepInv, CheckpointIsReported, LastAttempt
<1>14. CASE Crash
    <2>1. file' = file /\ phases' = phases /\ pc' # "keep"
        BY <1>14 DEF Crash, disk
    <2>. QED  BY <2>1 DEF KeepInv, CheckpointIsReported, LastAttempt
<1>15. CASE UNCHANGED vars
    BY <1>15 DEF vars, disk, process, KeepInv, CheckpointIsReported,
       LastAttempt
<1>. QED  BY <1>1, <1>2, <1>3, <1>4, <1>5, <1>6, <1>7, <1>8, <1>9, <1>10,
          <1>11, <1>12, <1>13, <1>14, <1>15 DEF Next

-----------------------------------------------------------------------------
Started == TypeOK /\ PlaceInv
Resumed == /\ Started /\ SkipInv /\ ProgressInv /\ BehindInv /\ KeepInv
           /\ CheckpointIsMeasured /\ CheckpointIsReported

LEMMA StartedHolds == Spec => []Started
<1>1. Init => Started
  <2>. SUFFICES ASSUME Init PROVE Started
      OBVIOUS
  <2>1. /\ file = {} /\ phases = << >> /\ done = {} /\ failures = {}
        /\ output \in [Results -> {"absent", "partial", "failed", "complete"}]
        /\ doubtful = {}
        /\ pc = "off" /\ phase = 1 /\ unit = 1 /\ runs = 0
      BY DEF Init
  <2>2. resume \in BOOLEAN /\ failFast \in BOOLEAN /\ worst \in BOOLEAN
      BY DEF Init
  <2>. QED
      BY <2>1, <2>2, PhasesAre, RunAssumption
      DEF Started, TypeOK, PlaceInv, Inside, InUnit
<1>2. Started /\ [Next]_vars => Started'
    BY TypeStep, PlaceStep DEF Started
<1>. QED  BY <1>1, <1>2, PTL DEF Spec

LEMMA ResumedHolds == ASSUME AlwaysResume PROVE Spec => []Resumed
<1>1. Init => SkipInv /\ ProgressInv /\ BehindInv /\ KeepInv
    BY DEF Init, SkipInv, ProgressInv, BehindInv, KeepInv, Working, Inside, InUnit
<1>2. Init => CheckpointIsMeasured /\ CheckpointIsReported
    BY DEF Init, CheckpointIsMeasured, CheckpointIsReported
<1>3. Resumed /\ [Next]_vars => Resumed'
    BY TypeStep, PlaceStep, SkipStep, ProgressStep, BehindStep, ReportStep,
       CheckpointStep
    DEF Resumed, Started
<1>4. Init /\ Started => Resumed
    BY <1>1, <1>2 DEF Resumed
<1>. QED  BY <1>3, <1>4, StartedHolds, PTL DEF Spec

(* Every state of every run directory is of its type (RunCheckpoints.TypeOK). *)
THEOREM Types == Spec => []TypeOK
<1>1. Started => TypeOK
    BY DEF Started
<1>. QED  BY <1>1, StartedHolds, PTL

(* The loops of cmd_run and _run_unit keep their books straight: what the     *)
(* invocation believes done, where it is, what it has left behind it and what *)
(* it has told the manifest fit together (RunCheckpoints.RunInv).             *)
THEOREM Invariance == Spec => []RunInv
<1>1. Started => PlaceInv
    BY DEF Started
<1>2. CASE AlwaysResume
  <2>1. Resumed => RunInv
      BY <1>2 DEF Resumed, Started, RunInv
  <2>. QED  BY <1>2, <2>1, ResumedHolds, PTL
<1>3. CASE ~AlwaysResume
  <2>1. Started => RunInv
      BY <1>1, <1>3 DEF RunInv
  <2>. QED  BY <2>1, StartedHolds, PTL
<1>. QED  BY <1>2, <1>3

(* Whatever is killed and whenever, as long as every further invocation       *)
(* resumes, checkpoints.json lists no unit and no ops phase that is not       *)
(* measured, and no ann phase that passed on a count of nothing but its own   *)
(* grid's results and has not all of them (ann_pass.py:640, 722).             *)
THEOREM CheckpointsAreMeasured ==
    ASSUME AlwaysResume PROVE Spec => []CheckpointIsMeasured
<1>1. Resumed => CheckpointIsMeasured
    BY DEF Resumed
<1>. QED  BY <1>1, ResumedHolds, PTL

(* ... the manifest's last attempt of each phase it lists has completed.      *)
THEOREM CheckpointsAreReported ==
    ASSUME AlwaysResume PROVE Spec => []CheckpointIsReported
<1>1. Resumed => CheckpointIsReported
    BY DEF Resumed
<1>. QED  BY <1>1, ResumedHolds, PTL

(* ... a resumed run without a failure has measured all it was to measure,    *)
(* ann phases that passed on another count aside.                             *)
THEOREM SuccessesAreComplete ==
    ASSUME AlwaysResume PROVE Spec => []SuccessIsComplete
<1>1. Resumed => SuccessIsComplete
    BY DEF Resumed, BehindInv, SuccessIsComplete, Sound
<1>. QED  BY <1>1, ResumedHolds, PTL

(* ... and no resume costs a result that is recorded.                         *)
THEOREM ResumesKeepResults ==
    ASSUME AlwaysResume PROVE Spec => ResumeKeepsResults
<1>1. Resumed /\ [Next]_vars =>
        [\A k \in Results : (resume /\ SpokenFor(k) /\ Measured(k))
                            => output'[k] = "complete"]_vars
    BY KeepsStep DEF Resumed, Started
<1>. QED  BY <1>1, ResumedHolds, PTL DEF Spec, ResumeKeepsResults
-----------------------------------------------------------------------------
(* What every pass, machine and sweep gives an engine.                        *)

CpuPass(pass) ==
    /\ pass.auto \in BOOLEAN
    /\ pass.serverCpus \in Nat /\ pass.clientCpus \in Nat

LEMMA WantedAreCounts ==
    ASSUME NEW pass, CpuPass(pass), NEW n \in Nat \ {0}, NEW clients \in Nat
    PROVE  /\ WantedClient(pass, clients) \in Nat \ {0}
           /\ WantedServer(pass, n, clients) \in Nat \ {0}
<1>1. WantedClient(pass, clients) \in Nat \ {0}
    BY DEF WantedClient, CpuPass, AutoClientCpus, AutoClientCpusFloor, Larger
<1>2. WantedServer(pass, n, clients) \in Nat \ {0}
    BY <1>1 DEF WantedServer, CpuPass, Larger
<1>. QED  BY <1>1, <1>2

(* The shares: what is wanted where the pool has it, and otherwise all of the *)
(* pool but one for the server.                                               *)
LEMMA SharesAreCounts ==
    ASSUME NEW pass, CpuPass(pass), NEW n \in Nat \ {0}, NEW clients \in Nat
    PROVE  /\ ServerShare(pass, n, clients) \in Nat \ {0}
           /\ ClientShare(pass, n, clients) \in Nat \ {0}
           /\ n > 1 => ServerShare(pass, n, clients)
                       + ClientShare(pass, n, clients) <= n
           /\ n = 1 => ServerShare(pass, n, clients) = 1
<1>. DEFINE s == WantedServer(pass, n, clients)
            c == WantedClient(pass, clients)
<1>1. s \in Nat \ {0} /\ c \in Nat \ {0}
    BY WantedAreCounts
<1>2. CASE TooMany(pass, n, clients)
    BY <1>1, <1>2 DEF ServerShare, ClientShare, Larger
<1>3. CASE ~ TooMany(pass, n, clients)
    BY <1>1, <1>3 DEF ServerShare, ClientShare, TooMany
<1>. QED  BY <1>2, <1>3

(* The clients never compete with the server they measure: on a machine with  *)
(* two CPUs to choose from, whatever a pass asks for, the two sets are apart, *)
(* and neither is empty (config.resolve_resources).                           *)
THEOREM CpusAreApart ==
    ASSUME NEW pass, CpuPass(pass), NEW n \in Nat, n > 1, NEW clients \in Nat
    PROVE  /\ ServerCpus(pass, n, clients) \cap ClientCpus(pass, n, clients) = {}
           /\ ServerCpus(pass, n, clients) # {}
           /\ ClientCpus(pass, n, clients) # {}
           /\ ServerCpus(pass, n, clients) \cup ClientCpus(pass, n, clients)
              \subseteq 1 .. n
<1>. DEFINE s == ServerShare(pass, n, clients)
            c == ClientShare(pass, n, clients)
<1>1. s \in Nat \ {0} /\ c \in Nat \ {0} /\ s + c <= n
    BY SharesAreCounts
<1>2. ServerCpus(pass, n, clients) = 1 .. s
    BY <1>1 DEF ServerCpus, Lesser
<1>3. ClientCpus(pass, n, clients) = (s + 1) .. (s + c)
    BY <1>1 DEF ClientCpus, Lesser
<1>. HIDE DEF s, c
<1>4. 1 \in 1 .. s /\ s + 1 \in (s + 1) .. (s + c)
    BY <1>1
<1>5. (1 .. s) \cap ((s + 1) .. (s + c)) = {}
    BY <1>1
<1>6. (1 .. s) \cup ((s + 1) .. (s + c)) \subseteq 1 .. n
    BY <1>1
<1>. QED  BY <1>2, <1>3, <1>4, <1>5, <1>6

(* A sweep "auto" is accepted for has a client CPU for every two clients, so  *)
(* that a figure at the largest count is the server's limit and not theirs    *)
(* (config.auto_client_cpus, resolve_resources).                              *)
THEOREM AutoIsEnough ==
    ASSUME NEW pass, CpuPass(pass), pass.auto, NEW n \in Nat \ {0},
           NEW clients \in Nat, ~ CpusRefused(pass, n, clients)
    PROVE  \E first, last \in 1 .. n :
              /\ ClientCpus(pass, n, clients) = first .. last
              /\ 2 * (last - first + 1) >= clients
<1>. DEFINE s == WantedServer(pass, n, clients)
            c == WantedClient(pass, clients)
<1>1. s \in Nat \ {0} /\ c \in Nat \ {0}
    BY WantedAreCounts
<1>2. s + c <= n /\ ~ TooMany(pass, n, clients)
    BY <1>1 DEF CpusRefused, TooMany
<1>3. ClientCpus(pass, n, clients) = (s + 1) .. (s + c)
    BY <1>1, <1>2 DEF ClientCpus, ServerShare, ClientShare, Lesser
<1>4. 2 * c >= clients
    BY DEF WantedClient, AutoClientCpus, AutoClientCpusFloor, Larger
<1>. HIDE DEF s, c
<1>5. s + 1 \in 1 .. n /\ s + c \in 1 .. n
    BY <1>1, <1>2
<1>6. 2 * ((s + c) - (s + 1) + 1) >= clients
    BY <1>1, <1>4
<1>. QED  BY <1>3, <1>5, <1>6

-----------------------------------------------------------------------------
LEMMA ShareIsPart ==
    ASSUME NEW percent \in 0 .. 100, NEW memory \in Nat
    PROVE  Share(percent, memory) \in 0 .. memory
<1>1. memory * percent \in Nat
    OBVIOUS
<1>2. memory * percent <= memory * 100
    OBVIOUS
<1>. QED  BY <1>1, <1>2 DEF Share

(* The container is never given more memory than the host has, however large  *)
(* its limit is written (config.resolve_resources).                           *)
THEOREM ServerFitsTheHost ==
    ASSUME NEW pass, pass.limitGb \in Nat, pass.hostFraction \in Nat,
           NEW ram \in Nat
    PROVE  ServerMemory(pass, ram) \in 0 .. ram
<1>1. Share(80, ram) \in 0 .. ram
  <2>1. 80 \in 0 .. 100
      OBVIOUS
  <2>. QED  BY <2>1, ShareIsPart
<1>2. Share(pass.hostFraction, ram) \in Nat
  <2>1. ram * pass.hostFraction \in Nat
      OBVIOUS
  <2>. QED  BY <2>1 DEF Share
<1>. QED  BY <1>1, <1>2 DEF ServerMemory, GB

(* PostgreSQL, which keeps its graph among its pages, has as much cache as    *)
(* the engines that keep the two apart: to the MB that rounding each of two   *)
(* shares can cost (config.resolve_resources).                                *)
THEOREM PostgresHasBothCaches ==
    ASSUME NEW pass, pass.absorbs, pass.buffer \in Nat, pass.graph \in Nat,
           NEW memory \in Nat
    PROVE  Share(BufferFraction(pass, "pgvector"), memory)
           - Share(BufferFraction(pass, "mariadb"), memory)
           - Share(GraphFraction(pass, "mariadb"), memory) \in {0, 1}
<1>. DEFINE b == memory * pass.buffer
            g == memory * pass.graph
<1>1. b \in Nat /\ g \in Nat
    OBVIOUS
<1>2. memory * (pass.buffer + pass.graph) = b + g
    OBVIOUS
<1>3. (b + g) \div 100 - b \div 100 - g \div 100 \in {0, 1}
  <2>. HIDE DEF b, g
  <2>. QED  BY <1>1
<1>. QED  BY <1>2, <1>3 DEF Share, BufferFraction, GraphFraction

-----------------------------------------------------------------------------
LEMMA WholeGbIsNear ==
    ASSUME NEW memory \in Nat
    PROVE  /\ WholeGb(memory) \in Nat
           /\ 2 * GB * WholeGb(memory) + GB >= 2 * memory
BY DEF WholeGb, GB

(* The segment a parallel build of PostgreSQL's index keeps its graph in is   *)
(* as large as maintenance_work_mem: /dev/shm holds it, unless that would be  *)
(* more than half of the container (config.resolve_resources).                *)
THEOREM ShmHoldsTheSegment ==
    ASSUME NEW pass, pass.shmGb \in Nat, NEW memory \in Nat,
           NEW maintenance \in Nat, NEW threads \in Nat,
           NeededShm(maintenance, threads) <= ShmCeiling(memory)
    PROVE  ShmGb(pass, memory, maintenance, threads) * GB >= maintenance
<1>. DEFINE needed == NeededShm(maintenance, threads)
<1>1. needed \in Nat /\ needed >= maintenance + GB
    BY DEF NeededShm, WorkerShm, SegmentShm, Larger, GB
<1>2. Lesser(needed, ShmCeiling(memory)) = needed
    BY <1>1 DEF Lesser, ShmCeiling
<1>3. CASE pass.shmGb * GB < needed
  <2>1. WholeGb(needed) \in Nat /\ 2 * GB * WholeGb(needed) + GB >= 2 * needed
      BY <1>1, WholeGbIsNear
  <2>2. ShmGb(pass, memory, maintenance, threads) = WholeGb(needed)
      BY <1>2, <1>3 DEF ShmGb
  <2>. HIDE DEF needed
  <2>. QED  BY <1>1, <2>1, <2>2 DEF GB
<1>4. CASE pass.shmGb * GB >= needed
  <2>1. ShmGb(pass, memory, maintenance, threads) = pass.shmGb
      BY <1>1, <1>2, <1>4 DEF ShmGb, GB
  <2>. QED  BY <1>1, <1>4, <2>1 DEF GB
<1>. QED  BY <1>1, <1>3, <1>4 DEF GB
=============================================================================
