--------------------------- MODULE HarnessUnitProofs ---------------------------
(* What holds of every unit, whatever it is asked for and wherever it raises: *)
(* the theorems about HarnessUnit.                                            *)
EXTENDS HarnessUnit, FiniteSetTheorems, SequenceTheorems, WellFoundedInduction,
        TLAPS

-----------------------------------------------------------------------------
(* The places of the unit.                                                    *)

Starting == {"connect", "build", "index", "rows", "session"}
Sweeping == {"calibrate", "select"}
InLevel == {"capture", "window", "finish", "profile", "choose"}
InConcurrency == {"concurrency", "closeMeta", "level"} \cup InLevel
InPoint == {"warm", "query", "record"}
InFiltered == {"filtered", "mode"} \cup InPoint
Measuring == InConcurrency \cup InFiltered \cup {"churn"}
Places == {"parse", "close", "done"} \cup Starting \cup Sweeping \cup Measuring

(* The unit has come to its end without an exception and with its rows.       *)
Ended == At("close") /\ ~ failed /\ rc = None

-----------------------------------------------------------------------------
(* The inductive invariant.                                                   *)

IsList(s) == s \in Seq(Range(s))

Typed ==
    /\ TypeOK /\ pc \in Places
    /\ IsList(records) /\ IsList(samples) /\ IsList(points) /\ IsList(modes)
    /\ DOMAIN session = {"ef", "scan"} /\ DOMAIN extra = {"ef_mode", "status"}
    /\ {mode, point} \subseteq Nat \ {0} /\ {clock, slowest} \subseteq Nat
    /\ pc \in InLevel => level <= Len(ClientCounts)
    /\ pc \in {"capture", "window"} => Len(samples) < Repeats
    /\ \A i \in DOMAIN points : points[i].ef \in EfGrid

(* How far the unit has failed, and what it will return.                      *)
Failing ==
    /\ pc \notin {"closeMeta", "finish", "close", "done"} => ~ failed
    /\ pc \notin {"close", "done"} => rc = None
    /\ At("close") => rc \in {None, 3}
    /\ At("done") /\ rc = 0 => ~ failed

(* What is open, by the place.                                                *)
OpenAt ==
    /\ At("parse") \/ At("done") => open = {}
    /\ open \subseteq {"recorder", "driver"}
         \cup (IF At("closeMeta") THEN {"meta"} ELSE {})
         \cup (IF pc \in {"window", "finish"} THEN {"side", "sampler"} ELSE {})

(* What the unit was asked for, and what it says of itself in every record.   *)
Asked ==
    /\ pc \notin {"parse", "done"} \/ rc = 0 =>
         /\ workloads = args.workloads \ engine.declines
         /\ extra.ef_mode = args.ef_mode
    /\ At("rows") => "build" \notin workloads
    /\ pc \in Sweeping => ShouldCalibrate
    /\ pc \in Measuring => workloads \cap CalibratedWorkloads # {}
    /\ pc \notin Measuring \cup {"close", "done"} =>
         extra.status = None /\ ef = FixedEf

(* The sweep that has ended has ended for one of two reasons.                 *)
Swept ==
    /\ At("select") => /\ Len(points) = Len(Grid) \/ Confirmed(points)
                       /\ Len(points) > 0
    /\ Len(points) <= Len(Grid)

(* What the session answers by, where something is measured.                  *)
Answering ==
    /\ pc \in Measuring =>
         IF args.ef_mode = "calibrated"
         THEN /\ calibration # None /\ ef = calibration.ef
              /\ extra.status = calibration.status
         ELSE ef = FixedEf /\ extra.status = None
    /\ pc \in InPoint \cup {"mode"} => session.ef = ef
    /\ pc \in InPoint => modes[mode] \in {session.scan, None}
    /\ pc \notin {"close", "done"} => table # "churned"

RecordedAsDeclared(r) ==
    /\ r.ef = r.at
    /\ r.phase \in CalibratedWorkloads =>
         IF args.ef_mode = "calibrated"
         THEN /\ calibration # None /\ r.ef = calibration.ef
              /\ r.extra.status = calibration.status
         ELSE r.ef = FixedEf /\ r.extra.status = None
    /\ r.phase = "filtered" => r.more.iterative_scan \in {r.scan, None}
    /\ (r.table = "churned") = (r.phase = "churn")
    /\ r.extra.ef_mode = args.ef_mode

Declared ==
    /\ \A i \in DOMAIN records : RecordedAsDeclared(records[i])
    /\ pc \notin Measuring \cup {"close", "done"} =>
         \A i \in DOMAIN records : records[i].phase \notin CalibratedWorkloads

(* The one clock of a point, until its first measured query.                  *)
Clocked ==
    /\ pc \in InPoint /\ executed = 0 /\ Budget > 0 =>
         5 * clock <= Budget + 5 * slowest
    /\ At("record") => executed = Planned \/ BudgetIsSpent

(* How many records a list has of a phase, and how many there are by the      *)
(* place.                                                                     *)
CountOf(s, phase) == Cardinality({i \in DOMAIN s : s[i].phase = phase})
LevelsBelow(n) ==
    Cardinality({i \in DOMAIN ClientCounts :
                     i < n /\ ClientCounts[i] <= Queries})
Built == "build" \in workloads =>
    CountOf(records, "ingest") = 1 /\ CountOf(records, "index_build") = 1
SweepDone == ShouldCalibrate = (CountOf(records, "ef_calibration") > 0)
LevelsDone ==
    "concurrency" \in workloads
    => CountOf(records, "concurrency") = LevelsMeasured
FilteredDone == "filtered" \in workloads =>
    CountOf(records, "filtered") = Len(ScanModes) * Points
ChurnDone == "churn" \in workloads => CountOf(records, "churn") = 1

BuildCounted ==
    /\ pc \in {"parse", "connect", "build", "index", "rows"} =>
         CountOf(records, "ingest") = 0 /\ CountOf(records, "index_build") = 0
    /\ pc \in {"session"} \cup Sweeping \cup Measuring \/ Ended => Built
SweepCounted ==
    /\ pc \in Starting \cup {"parse"} => CountOf(records, "ef_calibration") = 0
    /\ pc \in Sweeping => CountOf(records, "ef_calibration") = Len(points)
    /\ pc \in Measuring \/ Ended => SweepDone
    /\ pc \in Starting \cup {"parse"} => points = << >>
LevelsCounted ==
    /\ pc \in {"parse", "concurrency", "closeMeta"}
              \cup Starting \cup Sweeping =>
         CountOf(records, "concurrency") = 0
    /\ At("closeMeta") => level = 1
    /\ pc \in {"level"} \cup InLevel =>
         CountOf(records, "concurrency") = LevelsBelow(level)
    /\ pc \in InLevel => Clients <= Queries
    /\ pc \in InFiltered \cup {"churn"} \/ Ended => LevelsDone
FilteredCounted ==
    /\ pc \in {"parse", "filtered"}
              \cup Starting \cup Sweeping \cup InConcurrency =>
         CountOf(records, "filtered") = 0
    /\ pc \in {"mode"} \cup InPoint => modes = ScanModes
    /\ At("mode") => /\ CountOf(records, "filtered") = (mode - 1) * Points
                     /\ mode <= Len(modes) + 1
    /\ pc \in InPoint =>
         /\ CountOf(records, "filtered") = (mode - 1) * Points + (point - 1)
         /\ mode <= Len(modes) /\ point <= Points
    /\ At("churn") \/ Ended => FilteredDone
ChurnCounted ==
    /\ pc \notin {"close", "done"} => CountOf(records, "churn") = 0
    /\ Ended => ChurnDone
Whole == Built /\ SweepDone /\ LevelsDone /\ FilteredDone /\ ChurnDone
DoneWhole == rc = 0 => At("done") /\ Whole
Counted == /\ BuildCounted /\ SweepCounted /\ LevelsCounted /\ FilteredCounted
           /\ ChurnCounted /\ DoneWhole

UnitInv == /\ Typed /\ Failing /\ OpenAt /\ Asked /\ Swept /\ Answering
           /\ Declared /\ Clocked /\ Counted

-----------------------------------------------------------------------------
(* The operators of the model.                                                *)

(* A list is a list of what is in it.                                         *)
LEMMA ListOf ==
    ASSUME NEW S, NEW s \in Seq(S)
    PROVE  IsList(s)
<1>1. Len(s) \in Nat /\ DOMAIN s = 1 .. Len(s) /\ s \in [1 .. Len(s) -> S]
    BY LenProperties
<1>2. s \in [1 .. Len(s) -> Range(s)]
    BY <1>1 DEF Range
<1>. QED  BY <1>1, <1>2 DEF IsList

LEMMA ListFacts ==
    ASSUME NEW s, IsList(s)
    PROVE  Len(s) \in Nat /\ DOMAIN s = 1 .. Len(s)
BY LenProperties DEF IsList

LEMMA EmptyList == IsList(<< >>) /\ Len(<< >>) = 0
BY EmptySeq, ListOf

(* A list with one more at its end.                                           *)
LEMMA Appended ==
    ASSUME NEW s, IsList(s), NEW x
    PROVE  /\ IsList(Append(s, x))
           /\ Len(Append(s, x)) = Len(s) + 1 /\ Len(s) \in Nat
           /\ DOMAIN s = 1 .. Len(s)
           /\ DOMAIN Append(s, x) = 1 .. Len(s) + 1
           /\ \A i \in 1 .. Len(s) : Append(s, x)[i] = s[i]
           /\ Append(s, x)[Len(s) + 1] = x
<1>. DEFINE S == Range(s) \cup {x}
<1>1. s \in Seq(S) /\ x \in S
    BY SeqMonotonic DEF IsList
<1>. HIDE DEF S
<1>2. Append(s, x) \in Seq(S)
    BY <1>1
<1>3. IsList(Append(s, x))
    BY <1>2, ListOf
<1>4. Len(s) \in Nat /\ DOMAIN s = 1 .. Len(s) /\ Len(Append(s, x)) = Len(s) + 1
    BY <1>1
<1>5. /\ \A i \in 1 .. Len(s) : Append(s, x)[i] = s[i]
      /\ Append(s, x)[Len(s) + 1] = x
    BY <1>1
<1>6. DOMAIN Append(s, x) = 1 .. Len(s) + 1
    BY <1>2, <1>4
<1>. QED  BY <1>3, <1>4, <1>5, <1>6

(* What one more record makes of how many there are of a phase.               *)
LEMMA CountIsNat ==
    ASSUME NEW s, IsList(s), NEW phase
    PROVE  CountOf(s, phase) \in Nat
           /\ IsFiniteSet({i \in DOMAIN s : s[i].phase = phase})
<1>1. Len(s) \in Nat /\ DOMAIN s = 1 .. Len(s)
    BY ListFacts
<1>2. IsFiniteSet(1 .. Len(s))
    BY <1>1, FS_Interval
<1>3. IsFiniteSet({i \in DOMAIN s : s[i].phase = phase})
    BY <1>1, <1>2, FS_Subset
<1>. QED  BY <1>3, FS_CardinalityType DEF CountOf

LEMMA CountAppended ==
    ASSUME NEW s, IsList(s), NEW x, NEW phase
    PROVE  /\ CountOf(s, phase) \in Nat
           /\ CountOf(Append(s, x), phase)
              = IF x.phase = phase THEN CountOf(s, phase) + 1
                ELSE CountOf(s, phase)
<1>. DEFINE of == {i \in DOMAIN s : s[i].phase = phase}
            after == {i \in DOMAIN Append(s, x) : Append(s, x)[i].phase = phase}
            n == Len(s) + 1
<1>1. IsFiniteSet(of) /\ CountOf(s, phase) \in Nat
    BY CountIsNat
<1>2. n \notin of
    BY Appended
<1>3. CASE x.phase = phase
  <2>1. after = of \cup {n}
      BY <1>3, Appended
  <2>. QED  BY <1>1, <1>2, <1>3, <2>1, FS_AddElement DEF CountOf
<1>4. CASE x.phase # phase
  <2>1. after = of
      BY <1>4, Appended
  <2>. QED  BY <1>1, <1>4, <2>1 DEF CountOf
<1>. QED  BY <1>3, <1>4

LEMMA CountEmpty ==
    ASSUME NEW phase
    PROVE  CountOf(<< >>, phase) = 0
<1>1. {i \in DOMAIN << >> : << >>[i].phase = phase} = {}
    OBVIOUS
<1>. QED  BY <1>1, FS_EmptySet DEF CountOf

(* Two records at once are one after the other.                               *)
LEMMA TwoAppended ==
    ASSUME NEW s, IsList(s), NEW x, NEW y
    PROVE  s \o <<x, y>> = Append(Append(s, x), y)
<1>. DEFINE S == Range(s) \cup {x, y}
<1>1. s \in Seq(S) /\ x \in S /\ y \in S
    BY SeqMonotonic DEF IsList
<1>. HIDE DEF S
<1>2. <<x, y>> \in Seq(S) /\ Len(<<x, y>>) = 2
      /\ <<x, y>>[1] = x /\ <<x, y>>[2] = y
    BY <1>1
<1>3. Append(s, x) \in Seq(S) /\ Append(Append(s, x), y) \in Seq(S)
    BY <1>1
<1>4. IsList(Append(s, x))
    BY <1>3, ListOf
<1>5. /\ s \o <<x, y>> \in Seq(S) /\ Len(s \o <<x, y>>) = Len(s) + 2
      /\ \A i \in 1 .. Len(s) + 2 : (s \o <<x, y>>)[i]
             = IF i <= Len(s) THEN s[i] ELSE <<x, y>>[i - Len(s)]
    BY <1>1, <1>2, ConcatProperties
<1>6. Len(s) \in Nat /\ Len(Append(Append(s, x), y)) = Len(s) + 2
    BY <1>1, <1>4, Appended
<1>7. ASSUME NEW i \in 1 .. Len(s) + 2
      PROVE  (s \o <<x, y>>)[i] = Append(Append(s, x), y)[i]
  <2>1. CASE i <= Len(s)
      BY <1>4, <1>5, <1>6, <2>1, Appended
  <2>2. CASE i = Len(s) + 1
      BY <1>2, <1>4, <1>5, <1>6, <2>2, Appended
  <2>3. CASE i = Len(s) + 2
      BY <1>2, <1>4, <1>5, <1>6, <2>3, Appended
  <2>. QED  BY <1>6, <2>1, <2>2, <2>3
<1>. QED  BY <1>3, <1>5, <1>6, <1>7, SeqEqual

(* The grid is the set of it in ascending order: the place of a value is the  *)
(* number of those that are not larger.                                       *)
LEMMA GridIsAscending ==
    /\ Cardinality(EfGrid) \in Nat \ {0}
    /\ Grid \in [1 .. Cardinality(EfGrid) -> EfGrid]
<1>. DEFINE n == Cardinality(EfGrid)
            UpTo(e) == {x \in EfGrid : x <= e}
            rank == [e \in EfGrid |-> Cardinality(UpTo(e))]
            Ascends(g) == \A i, j \in DOMAIN g : i < j => g[i] < g[j]
<1>1. EfGrid \subseteq Nat /\ IsFiniteSet(EfGrid) /\ EfGrid # {}
    BY UnitAssumption
<1>2. n \in Nat \ {0}
    BY <1>1, FS_CardinalityType, FS_EmptySet
<1>3. ASSUME NEW e \in EfGrid
      PROVE  /\ IsFiniteSet(UpTo(e)) /\ Cardinality(UpTo(e)) \in 1 .. n
  <2>1. UpTo(e) \in SUBSET EfGrid
      OBVIOUS
  <2>2. IsFiniteSet(UpTo(e)) /\ Cardinality(UpTo(e)) <= n
      BY <1>1, <2>1, FS_Subset
  <2>3. e \in UpTo(e)
      BY <1>1
  <2>4. Cardinality(UpTo(e)) \in Nat /\ Cardinality(UpTo(e)) # 0
      BY <2>2, <2>3, FS_CardinalityType, FS_EmptySet
  <2>. QED  BY <1>2, <2>2, <2>4
<1>4. ASSUME NEW e \in EfGrid, NEW f \in EfGrid, e < f
      PROVE  Cardinality(UpTo(e)) < Cardinality(UpTo(f))
  <2>0. e \in Nat /\ f \in Nat /\ \A x \in EfGrid : x \in Nat
      BY <1>1
  <2>a. ASSUME NEW x \in UpTo(e)
        PROVE  x \in UpTo(f)
      BY <1>4, <2>0, <2>a
  <2>b. f \in UpTo(f) /\ f \notin UpTo(e)
      BY <1>4, <2>0
  <2>1. UpTo(e) \in SUBSET UpTo(f) /\ f \in UpTo(f) /\ f \notin UpTo(e)
      BY <2>a, <2>b
  <2>2. UpTo(e) # UpTo(f)
      BY <2>1
  <2>. HIDE DEF UpTo
  <2>3. /\ Cardinality(UpTo(e)) <= Cardinality(UpTo(f))
        /\ Cardinality(UpTo(e)) # Cardinality(UpTo(f))
      BY <1>3, <2>1, <2>2, FS_Subset
  <2>4. Cardinality(UpTo(e)) \in Nat /\ Cardinality(UpTo(f)) \in Nat
      BY <1>3, <1>2
  <2>. QED  BY <2>3, <2>4
<1>5. rank \in [EfGrid -> 1 .. n]
      /\ \A e \in EfGrid : rank[e] = Cardinality(UpTo(e))
    BY <1>3
<1>. HIDE DEF rank, UpTo
<1>6. \A e, f \in EfGrid : rank[e] = rank[f] => e = f
  <2>. SUFFICES ASSUME NEW e \in EfGrid, NEW f \in EfGrid, rank[e] = rank[f]
                PROVE  e = f
      OBVIOUS
  <2>0. e \in Nat /\ f \in Nat /\ rank[e] \in Nat /\ rank[f] \in Nat
      BY <1>1, <1>2, <1>5
  <2>1. ~ (e < f)
      BY <1>4, <1>5, <2>0
  <2>2. ~ (f < e)
      BY <1>4, <1>5, <2>0
  <2>. QED  BY <2>0, <2>1, <2>2
<1>7. rank \in Injection(EfGrid, 1 .. n)
    BY <1>5, <1>6 DEF Injection, IsInjective
<1>8. IsFiniteSet(1 .. n) /\ Cardinality(1 .. n) = n
    BY <1>2, FS_Interval
<1>9. rank \in Surjection(EfGrid, 1 .. n)
    BY <1>7, <1>8, FS_Injection
<1>10. \A i \in 1 .. n : \E e \in EfGrid : rank[e] = i
    BY <1>9 DEF Surjection
<1>. DEFINE g == [i \in 1 .. n |-> CHOOSE e \in EfGrid : rank[e] = i]
<1>11. g \in [1 .. n -> EfGrid] /\ \A i \in 1 .. n : rank[g[i]] = i
    BY <1>10
<1>. HIDE DEF g
<1>12. ASSUME NEW i \in DOMAIN g, NEW j \in DOMAIN g, i < j
       PROVE  g[i] < g[j]
  <2>1. i \in 1 .. n /\ j \in 1 .. n /\ g[i] \in EfGrid /\ g[j] \in EfGrid
      BY <1>11
  <2>2. rank[g[i]] = i /\ rank[g[j]] = j
      BY <1>11, <2>1
  <2>3. ~ (g[j] < g[i])
      BY <1>2, <1>4, <1>5, <1>12, <2>1, <2>2
  <2>4. g[i] # g[j]
      BY <1>2, <1>12, <2>1, <2>2
  <2>5. g[i] \in Nat /\ g[j] \in Nat
      BY <1>1, <2>1
  <2>. QED  BY <2>3, <2>4, <2>5
<1>13. \E h \in [1 .. n -> EfGrid] : Ascends(h)
    BY <1>11, <1>12
<1>14. Grid \in [1 .. n -> EfGrid]
    BY <1>13 DEF Grid
<1>. QED  BY <1>2, <1>14

(* The numbers have a least one wherever they have one.                       *)
LEMMA LeastOf ==
    ASSUME NEW T, T \subseteq Nat, T # {}
    PROVE  \E n \in T : \A m \in T : n <= m
<1>1. \E n \in T : \A m \in T : ~ (<<m, n>> \in OpToRel(<, Nat))
    BY WFMin, NatLessThanWellFounded
<1>2. PICK n \in T : \A m \in T : ~ (<<m, n>> \in OpToRel(<, Nat))
    BY <1>1
<1>3. \A m \in T : ~ (m < n)
    BY <1>2 DEF OpToRel
<1>4. \A m \in T : n <= m
    BY <1>3
<1>. QED  BY <1>4

(* The modes of a filtered unit are a list: the recursion over what was asked *)
(* for ends, and every step of it is one.                                     *)
LEMMA DistinctIsAList ==
    ASSUME NEW names \in Seq(STRING)
    PROVE  IsList(Distinct(names))
<1>. DEFINE n == Len(names)
            M == Seq(STRING)
            body(f, i) == IF i = 0 THEN << >>
                          ELSE IF names[i] \in ToSet(f[i - 1]) THEN f[i - 1]
                          ELSE Append(f[i - 1], names[i])
            Good(f, k) == /\ f \in [0 .. k -> M]
                          /\ \A i \in 0 .. k : f[i] = body(f, i)
            T == {k \in 0 .. n : ~ \E f : Good(f, k)}
            seen == CHOOSE f : f = [i \in 0 .. n |-> body(f, i)]
            U == {i \in 0 .. n : seen[i] \notin M}
<1>1. n \in Nat /\ \A i \in 1 .. n : names[i] \in STRING
    OBVIOUS
<1>2. << >> \in M /\ \A q \in M, i \in 1 .. n : Append(q, names[i]) \in M
    BY <1>1
<1>3. ASSUME NEW k \in T, \A m \in T : k <= m
      PROVE  FALSE
  <2>1. k \in 0 .. n /\ ~ \E f : Good(f, k)
      OBVIOUS
  <2>. HIDE DEF T, M
  <2>2. CASE k = 0
    <3>. DEFINE f0 == [i \in 0 .. 0 |-> << >>]
    <3>1. f0 \in [0 .. k -> M] /\ \A i \in 0 .. k : i = 0 /\ f0[i] = << >>
        BY <1>2, <2>2
    <3>. HIDE DEF f0
    <3>2. Good(f0, k)
        BY <3>1
    <3>. QED  BY <2>1, <3>2
  <2>3. CASE k # 0
    <3>1. k - 1 \in 0 .. n /\ k \in 1 .. n
        BY <1>1, <2>1, <2>3
    <3>2. k - 1 \notin T
        BY <1>3, <2>1, <3>1
    <3>3. PICK f : Good(f, k - 1)
        BY <3>1, <3>2 DEF T
    <3>. DEFINE g == [i \in 0 .. k |-> IF i = k THEN body(f, k) ELSE f[i]]
    <3>4. f[k - 1] \in M
        BY <3>1, <3>3
    <3>5. body(f, k) \in M
        BY <1>2, <3>1, <3>4
    <3>6. \A i \in 0 .. k : i # k => i \in 0 .. k - 1
        BY <3>1
    <3>7. g \in [0 .. k -> M]
      <4>1. \A i \in 0 .. k : i # k => f[i] \in M
          BY <3>3, <3>6
      <4>. HIDE DEF body
      <4>. QED  BY <3>5, <4>1
    <3>8. \A i \in 0 .. k : i # k => g[i] = f[i] /\ f[i] = body(f, i)
      <4>. HIDE DEF body
      <4>. QED  BY <3>3, <3>6
    <3>9. g[k] = body(f, k)
      <4>. HIDE DEF body
      <4>. QED  BY <3>1
    <3>10. \A i \in 0 .. k : i # 0 => i - 1 \in 0 .. k /\ i - 1 # k
        BY <3>1
    <3>11. \A i \in 0 .. k : i # 0 => g[i - 1] = f[i - 1]
        BY <3>8, <3>10
    <3>. HIDE DEF g
    <3>12. \A i \in 0 .. k : body(g, i) = body(f, i)
        BY <3>11
    <3>. HIDE DEF body
    <3>13. \A i \in 0 .. k : g[i] = body(g, i)
        BY <3>1, <3>8, <3>9, <3>12
    <3>. QED  BY <2>1, <3>7, <3>13
  <2>. QED  BY <2>2, <2>3
<1>4. T = {}
  <2>1. T \subseteq Nat
      BY <1>1
  <2>. HIDE DEF T
  <2>. QED  BY <1>3, <2>1, LeastOf
<1>5. \E f : Good(f, n)
  <2>1. n \in 0 .. n
      BY <1>1
  <2>2. n \notin T
      BY <1>4
  <2>. HIDE DEF Good
  <2>. QED  BY <2>1, <2>2
<1>. DEFINE f == CHOOSE h : Good(h, n)
<1>. HIDE DEF f, Good
<1>chosen. Good(f, n)
    BY <1>5 DEF f
<1>. USE DEF Good
<1>6. f = [i \in 0 .. n |-> body(f, i)]
  <2>. HIDE DEF body
  <2>. QED  BY <1>chosen
<1>7. seen = [i \in 0 .. n |-> body(seen, i)]
  <2>. HIDE DEF body
  <2>. QED  BY <1>6
<1>. HIDE DEF seen
<1>8. \A i \in 0 .. n : seen[i] = body(seen, i)
  <2>. HIDE DEF body
  <2>. QED  BY <1>7
<1>9. ASSUME NEW k \in U, \A m \in U : k <= m
      PROVE  FALSE
  <2>1. k \in 0 .. n /\ seen[k] \notin M
      OBVIOUS
  <2>. HIDE DEF M
  <2>2. k # 0
      BY <1>2, <1>8, <2>1
  <2>3. k - 1 \in 0 .. n /\ k \in 1 .. n
      BY <1>1, <2>1, <2>2
  <2>4. seen[k - 1] \in M
      BY <1>9, <2>1, <2>3
  <2>5. body(seen, k) \in M
      BY <1>2, <2>3, <2>4
  <2>. HIDE DEF body
  <2>. QED  BY <1>8, <2>1, <2>5
<1>10. U = {}
  <2>1. U \subseteq Nat
      BY <1>1
  <2>. HIDE DEF U
  <2>. QED  BY <1>9, <2>1, LeastOf
<1>11. seen[n] \in M
    BY <1>1, <1>10
<1>12. Distinct(names) = seen[n]
    BY DEF Distinct, seen
<1>. QED  BY <1>11, <1>12, ListOf

LEMMA ModesAreAList ==
    ASSUME args.scans \in Seq(STRING)
    PROVE  IsList(ScanModes)
<1>1. IsList(<< None >>)
  <2>1. << None >> \in Seq({None})
      OBVIOUS
  <2>. QED  BY <2>1, ListOf
<1>. QED  BY <1>1, DistinctIsAList DEF ScanModes

(* The choice of a sweep: its index is one of a point.                        *)
LEMMA LeastIsLeast ==
    ASSUME NEW T, T \subseteq Nat, T # {}
    PROVE  Least(T) \in T /\ \A m \in T : Least(T) <= m
<1>1. \E n \in T : \A m \in T : n <= m
    BY LeastOf
<1>. QED  BY <1>1 DEF Least

LEMMA ChosenIsAPoint ==
    ASSUME NEW ps, IsList(ps), Len(ps) > 0
    PROVE  /\ ChooseOf(ps)[1] \in 1 .. Len(ps)
           /\ ChooseOf(ps)[2]
              \in {"ok", "floor_above_target", "target_unreached"}
<1>. DEFINE alone == {i \in DOMAIN ps : Reached(ps[i])}
            backed == {i \in alone : i + 1 \in alone}
<1>1. Len(ps) \in Nat /\ DOMAIN ps = 1 .. Len(ps)
    BY ListFacts
<1>2. alone \subseteq 1 .. Len(ps) /\ backed \subseteq 1 .. Len(ps)
    BY <1>1
<1>3. ChooseOf(ps) = IF ps[1].recall > TargetRecall + FloorMargin
                     THEN <<1, "floor_above_target">>
                     ELSE IF backed # {} THEN <<Least(backed), "ok">>
                     ELSE IF alone # {} THEN <<Least(alone), "ok">>
                     ELSE <<Len(ps), "target_unreached">>
    BY DEF ChooseOf
<1>. HIDE DEF alone, backed
<1>4. backed # {} => Least(backed) \in 1 .. Len(ps)
  <2>1. backed \subseteq Nat
      BY <1>1, <1>2
  <2>. QED  BY <1>2, <2>1, LeastIsLeast
<1>5. alone # {} => Least(alone) \in 1 .. Len(ps)
  <2>1. alone \subseteq Nat
      BY <1>1, <1>2
  <2>. QED  BY <1>2, <2>1, LeastIsLeast
<1>. QED  BY <1>1, <1>3, <1>4, <1>5

LEMMA SelectionIs ==
    ASSUME NEW ps, IsList(ps), Len(ps) > 0,
           \A i \in DOMAIN ps : ps[i].ef \in EfGrid
    PROVE  Select(ps) \in Selections
<1>1. Len(ps) \in Nat /\ DOMAIN ps = 1 .. Len(ps)
    BY ListFacts
<1>2. ps[ChooseOf(ps)[1]].ef \in EfGrid
    BY <1>1, ChosenIsAPoint
<1>3. (ChooseOf(ps)[1] < Len(ps) /\ Reached(ps[ChooseOf(ps)[1] + 1]))
      \in BOOLEAN
    BY DEF Reached
<1>. QED  BY <1>2, <1>3, ChosenIsAPoint DEF Select, Selections

-----------------------------------------------------------------------------
(* The types.                                                                 *)

LEMMA TypedAtFirst == Init => Typed
<1>1. ClientCounts \in Seq(Nat) /\ Len(ClientCounts) \in Nat
    BY UnitAssumption
<1>2. /\ Repeats \in Nat \ {0} /\ Points \in Nat \ {0} /\ Planned \in Nat \ {0}
      /\ Warmup \in Nat
    BY UnitAssumption
<1>3. DOMAIN << >> = {}
    OBVIOUS
<1>4. Init => TypeOK
  <2>1. Init => /\ args \in Arguments /\ engine \in Engines /\ workloads = {}
                /\ table \in {"absent", "indexed"} /\ open = {} /\ level = 1
                /\ samples = << >> /\ warmed = 0 /\ executed = 0
                /\ calibration = None /\ failed = FALSE /\ rc = None
      BY DEF Init
  <2>2. 1 \in 1 .. Len(ClientCounts) + 1 /\ 0 \in 0 .. Warmup
        /\ 0 \in 0 .. Planned
      BY <1>1, <1>2
  <2>3. Len(<< >>) <= Repeats
      BY <1>2, EmptyList
  <2>. QED  BY <2>1, <2>2, <2>3 DEF TypeOK
<1>5. Init => /\ pc \in Places
              /\ IsList(records) /\ IsList(samples)
              /\ IsList(points) /\ IsList(modes)
              /\ DOMAIN session = {"ef", "scan"}
              /\ DOMAIN extra = {"ef_mode", "status"}
              /\ mode = 1 /\ point = 1 /\ clock = 0 /\ slowest = 0
              /\ pc \notin InLevel /\ DOMAIN points = {}
    BY <1>3, EmptyList DEF Init, Places, InLevel
<1>6. Init => pc \notin {"capture", "window"}
    BY DEF Init
<1>. HIDE DEF Init
<1>. QED  BY <1>4, <1>5, <1>6 DEF Typed

LEMMA TypedForever == Typed /\ Swept /\ [Next]_vars => Typed'
<1>. SUFFICES ASSUME Typed, Swept, [Next]_vars
              PROVE  Typed'
    OBVIOUS
<1>0. /\ Len(ClientCounts) \in Nat /\ Warmup \in Nat /\ Costs \subseteq Nat
      /\ Repeats \in Nat \ {0} /\ Points \in Nat \ {0} /\ Planned \in Nat \ {0}
    BY UnitAssumption
<1>. USE <1>0 DEF At, Go, choice, unit, levels, filtering, Typed, TypeOK
<1>. USE DEF Places, Starting, Sweeping, Measuring, InConcurrency, InLevel,
             InFiltered, InPoint, AllWorkloads
<1>1. CASE RefuseArguments \/ Prepare \/ PrepareFails \/ Connect
    BY <1>1 DEF RefuseArguments, Prepare, PrepareFails, Connect
<1>2. CASE Recreate \/ Load \/ CreateIndex \/ CountRows
    BY <1>2 DEF Recreate, Load, CreateIndex, CountRows
<1>3. CASE RecordBuild
  <2>. DEFINE one == Recorded("ingest", None, None, None, None)
              two == Recorded("index_build", None, None, None, None)
  <2>1. IsList(Append(records, one))
        /\ IsList(Append(Append(records, one), two))
      BY Appended
  <2>2. records \o <<one, two>> = Append(Append(records, one), two)
      BY TwoAppended
  <2>3. IsList(records')
      BY <1>3, <2>1, <2>2 DEF RecordBuild
  <2>. QED  BY <1>3, <2>3 DEF RecordBuild
<1>4. CASE SetSession
    BY <1>4 DEF SetSession, NextAfter
<1>5. CASE CalibratePoint
  <2>1. PICK recall \in Recalls :
            LET e == Grid[Len(points) + 1] IN
            /\ session' = [session EXCEPT !.ef = e]
            /\ points' = Append(points, [ef |-> e, recall |-> recall])
            /\ records' = Append(records, Recorded("ef_calibration", e, e,
                                                   session.scan, None))
      BY <1>5 DEF CalibratePoint
  <2>2. Len(points) + 1 \in 1 .. Cardinality(EfGrid)
    <3>1. Len(points) < Len(Grid) /\ Len(points) \in Nat
        BY <1>5, ListFacts DEF CalibratePoint
    <3>2. Len(Grid) = Cardinality(EfGrid)
        BY GridIsAscending
    <3>. QED  BY <3>1, <3>2, GridIsAscending
  <2>3. Grid[Len(points) + 1] \in EfGrid
      BY <2>2, GridIsAscending
  <2>4. IsList(points') /\ IsList(records')
      BY <2>1, Appended
  <2>5. ASSUME NEW i \in DOMAIN points'
        PROVE  points'[i].ef \in EfGrid
    <3>. DEFINE n == Len(points) + 1
    <3>1. /\ IsList(points) /\ DOMAIN points = 1 .. Len(points)
          /\ Len(points) \in Nat /\ DOMAIN points' = 1 .. n
          /\ \A j \in 1 .. Len(points) : points'[j] = points[j]
        BY <2>1, Appended
    <3>2. points'[n].ef = Grid[n]
        BY <2>1, Appended
    <3>3. CASE i = n
        BY <2>3, <3>2, <3>3
    <3>4. CASE i # n
      <4>1. i \in DOMAIN points
          BY <2>5, <3>1, <3>4
      <4>. QED  BY <3>1, <4>1
    <3>. QED  BY <3>3, <3>4
  <2>6. DOMAIN session' = {"ef", "scan"}
      BY <2>1
  <2>. QED  BY <1>5, <2>4, <2>5, <2>6 DEF CalibratePoint
<1>6. CASE EndSweep
    BY <1>6 DEF EndSweep
<1>7. CASE SelectPoint
  <2>1. Select(points) \in Selections
      BY <1>7, SelectionIs DEF SelectPoint, Swept
  <2>2. IsList(points') /\ DOMAIN points' = {}
      BY <1>7, EmptyList DEF SelectPoint
  <2>3. pc' \in {"concurrency", "filtered", "churn", "close"}
      BY <1>7 DEF SelectPoint, NextAfter
  <2>4. calibration' \in Selections /\ DOMAIN session' = {"ef", "scan"}
        /\ DOMAIN extra' = {"ef_mode", "status"}
      BY <1>7, <2>1 DEF SelectPoint
  <2>. QED  BY <1>7, <2>2, <2>3, <2>4 DEF SelectPoint
<1>8. CASE BeginConcurrency
    BY <1>8 DEF BeginConcurrency
<1>26. CASE CloseMeta
    BY <1>26 DEF CloseMeta
<1>27. CASE SkipLevel
    BY <1>27 DEF SkipLevel
<1>25. CASE WarmWindow
    BY <1>25, EmptyList DEF WarmWindow
<1>9. CASE EndLevels
    BY <1>9, EmptyList DEF EndLevels, NextAfter
<1>10. CASE BeginCapture
    BY <1>10 DEF BeginCapture
<1>11. CASE MeasureWindow
  <2>1. IsList(samples') /\ Len(samples') = Len(samples) + 1
        /\ Len(samples) \in Nat
      BY <1>11, Appended DEF MeasureWindow
  <2>. QED  BY <1>11, <2>1 DEF MeasureWindow
<1>12. CASE FinishCapture \/ ProfiledWindow
    BY <1>12 DEF FinishCapture, ProfiledWindow
<1>13. CASE RecordLevel
  <2>1. IsList(records')
      BY <1>13, Appended DEF RecordLevel
  <2>2. samples' = << >> /\ level' = level + 1 /\ pc' = "level" /\ pc = "choose"
      BY <1>13 DEF RecordLevel
  <2>3. /\ UNCHANGED <<choice, unit, ef, points, calibration>>
        /\ UNCHANGED <<filtering, failed, rc>>
      BY <1>13 DEF RecordLevel
  <2>. QED  BY <2>1, <2>2, <2>3, EmptyList
<1>14. CASE BeginFiltered
  <2>1. IsList(modes')
      BY <1>14, ModesAreAList, UnitAssumption DEF BeginFiltered
  <2>. QED  BY <1>14, <2>1 DEF BeginFiltered
<1>15. CASE SetMode
    BY <1>15 DEF SetMode
<1>16. CASE EndFiltered
    BY <1>16 DEF EndFiltered, NextAfter
<1>17. CASE WarmQuery
    BY <1>17 DEF WarmQuery, WarmupIsOver, Query
<1>18. CASE EndWarmup \/ EndPoint
    BY <1>18 DEF EndWarmup, EndPoint
<1>19. CASE MeasureQuery
    BY <1>19 DEF MeasureQuery, Query
<1>20. CASE RecordPoint
  <2>1. IsList(records')
      BY <1>20, Appended DEF RecordPoint
  <2>. QED  BY <1>20, <2>1 DEF RecordPoint
<1>21. CASE RunChurn
  <2>1. IsList(records')
      BY <1>21, Appended DEF RunChurn
  <2>. QED  BY <1>21, <2>1 DEF RunChurn
<1>22. CASE Raise
    BY <1>22 DEF Raise, InTry
<1>23. CASE Close
    BY <1>23 DEF Close
<1>24. CASE UNCHANGED vars
    BY <1>24 DEF vars
<1>. QED
  BY <1>1, <1>2, <1>3, <1>4, <1>5, <1>6, <1>7, <1>8, <1>9, <1>10, <1>11, <1>12,
     <1>13, <1>14, <1>15, <1>16, <1>17, <1>18, <1>19, <1>20, <1>21, <1>22,
     <1>23, <1>24, <1>25, <1>26, <1>27 DEF Next

(* Failure and the return code.                                               *)
LEMMA FailingForever == Failing /\ [Next]_vars => Failing'
<1>. SUFFICES ASSUME Failing, [Next]_vars
              PROVE  Failing'
    OBVIOUS
<1>. USE DEF At, Go, choice, unit, levels, filtering, Failing
<1>1. CASE RefuseArguments \/ Prepare \/ PrepareFails \/ Connect
    BY <1>1 DEF RefuseArguments, Prepare, PrepareFails, Connect
<1>2. CASE Recreate \/ Load \/ CreateIndex \/ CountRows
    BY <1>2 DEF Recreate, Load, CreateIndex, CountRows
<1>3. CASE RecordBuild
    BY <1>3 DEF RecordBuild
<1>4. CASE SetSession
    BY <1>4 DEF SetSession, NextAfter
<1>5. CASE CalibratePoint
    BY <1>5 DEF CalibratePoint
<1>6. CASE EndSweep
    BY <1>6 DEF EndSweep
<1>7. CASE SelectPoint
    BY <1>7 DEF SelectPoint, NextAfter
<1>8. CASE BeginConcurrency \/ CloseMeta \/ SkipLevel \/ WarmWindow
    BY <1>8 DEF BeginConcurrency, CloseMeta, SkipLevel, WarmWindow
<1>9. CASE EndLevels
    BY <1>9 DEF EndLevels, NextAfter
<1>10. CASE BeginCapture \/ MeasureWindow \/ FinishCapture \/ ProfiledWindow
    BY <1>10 DEF BeginCapture, MeasureWindow, FinishCapture, ProfiledWindow
<1>11. CASE RecordLevel
    BY <1>11 DEF RecordLevel
<1>12. CASE BeginFiltered \/ SetMode
    BY <1>12 DEF BeginFiltered, SetMode
<1>13. CASE EndFiltered
    BY <1>13 DEF EndFiltered, NextAfter
<1>14. CASE WarmQuery \/ EndWarmup \/ MeasureQuery \/ EndPoint
    BY <1>14 DEF WarmQuery, EndWarmup, MeasureQuery, EndPoint, Query
<1>15. CASE RecordPoint
    BY <1>15 DEF RecordPoint
<1>16. CASE RunChurn
    BY <1>16 DEF RunChurn
<1>17. CASE Raise
    BY <1>17 DEF Raise, InTry
<1>18. CASE Close
    BY <1>18 DEF Close
<1>19. CASE UNCHANGED vars
    BY <1>19 DEF vars, choice, unit, levels, filtering
<1>. QED
  BY <1>1, <1>2, <1>3, <1>4, <1>5, <1>6, <1>7, <1>8, <1>9, <1>10, <1>11, <1>12,
     <1>13, <1>14, <1>15, <1>16, <1>17, <1>18, <1>19
     DEF Next

(* What is open.                                                              *)
LEMMA OpenForever == OpenAt /\ [Next]_vars => OpenAt'
<1>. SUFFICES ASSUME OpenAt, [Next]_vars
              PROVE  OpenAt'
    OBVIOUS
<1>. USE DEF At, Go, choice, unit, levels, filtering, OpenAt
<1>1. CASE RefuseArguments \/ Prepare \/ PrepareFails \/ Connect
    BY <1>1 DEF RefuseArguments, Prepare, PrepareFails, Connect
<1>2. CASE Recreate \/ Load \/ CreateIndex \/ CountRows
    BY <1>2 DEF Recreate, Load, CreateIndex, CountRows
<1>3. CASE RecordBuild
    BY <1>3 DEF RecordBuild
<1>4. CASE SetSession
    BY <1>4 DEF SetSession, NextAfter
<1>5. CASE CalibratePoint
    BY <1>5 DEF CalibratePoint
<1>6. CASE EndSweep
    BY <1>6 DEF EndSweep
<1>7. CASE SelectPoint
    BY <1>7 DEF SelectPoint, NextAfter
<1>8. CASE BeginConcurrency \/ CloseMeta \/ SkipLevel \/ WarmWindow
    BY <1>8 DEF BeginConcurrency, CloseMeta, SkipLevel, WarmWindow
<1>9. CASE EndLevels
    BY <1>9 DEF EndLevels, NextAfter
<1>10. CASE BeginCapture \/ MeasureWindow \/ FinishCapture \/ ProfiledWindow
    BY <1>10 DEF BeginCapture, MeasureWindow, FinishCapture, ProfiledWindow
<1>11. CASE RecordLevel
    BY <1>11 DEF RecordLevel
<1>12. CASE BeginFiltered \/ SetMode
    BY <1>12 DEF BeginFiltered, SetMode
<1>13. CASE EndFiltered
    BY <1>13 DEF EndFiltered, NextAfter
<1>14. CASE WarmQuery \/ EndWarmup \/ MeasureQuery \/ EndPoint
    BY <1>14 DEF WarmQuery, EndWarmup, MeasureQuery, EndPoint, Query
<1>15. CASE RecordPoint
    BY <1>15 DEF RecordPoint
<1>16. CASE RunChurn
    BY <1>16 DEF RunChurn
<1>17. CASE Raise
    BY <1>17 DEF Raise, InTry
<1>18. CASE Close
    BY <1>18 DEF Close
<1>19. CASE UNCHANGED vars
    BY <1>19 DEF vars, choice, unit, levels, filtering
<1>. QED
  BY <1>1, <1>2, <1>3, <1>4, <1>5, <1>6, <1>7, <1>8, <1>9, <1>10, <1>11, <1>12,
     <1>13, <1>14, <1>15, <1>16, <1>17, <1>18, <1>19
     DEF Next

(* The sweep.                                                                 *)
LEMMA SweptForever == Typed /\ Swept /\ [Next]_vars => Swept'
<1>. SUFFICES ASSUME Typed, Swept, [Next]_vars
              PROVE  Swept'
    OBVIOUS
<1>. USE DEF At, Go, choice, unit, levels, filtering, Swept
<1>1. CASE RefuseArguments \/ Prepare \/ PrepareFails \/ Connect
    BY <1>1 DEF RefuseArguments, Prepare, PrepareFails, Connect
<1>2. CASE Recreate \/ Load \/ CreateIndex \/ CountRows
    BY <1>2 DEF Recreate, Load, CreateIndex, CountRows
<1>3. CASE RecordBuild
    BY <1>3 DEF RecordBuild
<1>4. CASE SetSession
    BY <1>4 DEF SetSession, NextAfter
<1>5. CASE CalibratePoint
  <2>1. PICK x : points' = Append(points, x)
      BY <1>5 DEF CalibratePoint
  <2>2. Len(points') = Len(points) + 1 /\ Len(points) \in Nat
      BY <2>1, Appended DEF Typed
  <2>. QED  BY <1>5, <2>2, GridIsAscending DEF CalibratePoint
<1>6. CASE EndSweep
  <2>1. Len(points) \in Nat /\ Len(Grid) = Cardinality(EfGrid)
        /\ Cardinality(EfGrid) \in Nat \ {0}
      BY GridIsAscending, ListFacts DEF Typed
  <2>2. Len(points) > 0
      BY <1>6, <2>1 DEF EndSweep, Confirmed
  <2>. QED  BY <1>6, <2>2 DEF EndSweep, Confirmed
<1>7. CASE SelectPoint
  <2>1. Len(points') = 0 /\ Len(Grid) \in Nat
      BY <1>7, EmptyList, GridIsAscending DEF SelectPoint
  <2>. QED  BY <1>7, <2>1 DEF SelectPoint, NextAfter
<1>8. CASE BeginConcurrency \/ CloseMeta \/ SkipLevel \/ WarmWindow
    BY <1>8 DEF BeginConcurrency, CloseMeta, SkipLevel, WarmWindow
<1>9. CASE EndLevels
    BY <1>9 DEF EndLevels, NextAfter
<1>10. CASE BeginCapture \/ MeasureWindow \/ FinishCapture \/ ProfiledWindow
    BY <1>10 DEF BeginCapture, MeasureWindow, FinishCapture, ProfiledWindow
<1>11. CASE RecordLevel
    BY <1>11 DEF RecordLevel
<1>12. CASE BeginFiltered \/ SetMode
    BY <1>12 DEF BeginFiltered, SetMode
<1>13. CASE EndFiltered
    BY <1>13 DEF EndFiltered, NextAfter
<1>14. CASE WarmQuery \/ EndWarmup \/ MeasureQuery \/ EndPoint
    BY <1>14 DEF WarmQuery, EndWarmup, MeasureQuery, EndPoint, Query
<1>15. CASE RecordPoint
    BY <1>15 DEF RecordPoint
<1>16. CASE RunChurn
    BY <1>16 DEF RunChurn
<1>17. CASE Raise
    BY <1>17 DEF Raise, InTry
<1>18. CASE Close
    BY <1>18 DEF Close
<1>19. CASE UNCHANGED vars
    BY <1>19 DEF vars, choice, unit, levels, filtering
<1>. QED
  BY <1>1, <1>2, <1>3, <1>4, <1>5, <1>6, <1>7, <1>8, <1>9, <1>10, <1>11, <1>12,
     <1>13, <1>14, <1>15, <1>16, <1>17, <1>18, <1>19
     DEF Next

(* What was asked for.                                                        *)
LEMMA AskedForever == Typed /\ Failing /\ Asked /\ [Next]_vars => Asked'
<1>. SUFFICES ASSUME Typed, Failing, Asked, [Next]_vars
              PROVE  Asked'
    OBVIOUS
<1>. USE DEF At, Go, choice, unit, levels, filtering, Typed, Failing, Asked,
             ShouldCalibrate, CalibratedWorkloads, Starting, Sweeping,
             Measuring, InConcurrency, InLevel, InFiltered, InPoint
<1>1. CASE RefuseArguments \/ Prepare \/ PrepareFails \/ Connect
    BY <1>1 DEF RefuseArguments, Prepare, PrepareFails, Connect
<1>2. CASE Recreate \/ Load \/ CreateIndex \/ CountRows
    BY <1>2 DEF Recreate, Load, CreateIndex, CountRows
<1>3. CASE RecordBuild
    BY <1>3 DEF RecordBuild
<1>4. CASE SetSession
    BY <1>4 DEF SetSession, NextAfter
<1>5. CASE CalibratePoint
    BY <1>5 DEF CalibratePoint
<1>6. CASE EndSweep
    BY <1>6 DEF EndSweep
<1>7. CASE SelectPoint
    BY <1>7 DEF SelectPoint, NextAfter
<1>8. CASE BeginConcurrency \/ CloseMeta \/ SkipLevel \/ WarmWindow
    BY <1>8 DEF BeginConcurrency, CloseMeta, SkipLevel, WarmWindow
<1>9. CASE EndLevels
    BY <1>9 DEF EndLevels, NextAfter
<1>10. CASE BeginCapture \/ MeasureWindow \/ FinishCapture \/ ProfiledWindow
    BY <1>10 DEF BeginCapture, MeasureWindow, FinishCapture, ProfiledWindow
<1>11. CASE RecordLevel
    BY <1>11 DEF RecordLevel
<1>12. CASE BeginFiltered \/ SetMode
    BY <1>12 DEF BeginFiltered, SetMode
<1>13. CASE EndFiltered
    BY <1>13 DEF EndFiltered, NextAfter
<1>14. CASE WarmQuery \/ EndWarmup \/ MeasureQuery \/ EndPoint
    BY <1>14 DEF WarmQuery, EndWarmup, MeasureQuery, EndPoint, Query
<1>15. CASE RecordPoint
    BY <1>15 DEF RecordPoint
<1>16. CASE RunChurn
    BY <1>16 DEF RunChurn
<1>17. CASE Raise
    BY <1>17 DEF Raise, InTry
<1>18. CASE Close
    BY <1>18 DEF Close
<1>19. CASE UNCHANGED vars
    BY <1>19 DEF vars, choice, unit, levels, filtering
<1>. QED
  BY <1>1, <1>2, <1>3, <1>4, <1>5, <1>6, <1>7, <1>8, <1>9, <1>10, <1>11, <1>12,
     <1>13, <1>14, <1>15, <1>16, <1>17, <1>18, <1>19
     DEF Next

(* What is answered by.                                                       *)
LEMMA AnsweringForever ==
    Typed /\ Asked /\ Swept /\ Answering /\ [Next]_vars => Answering'
<1>. SUFFICES ASSUME Typed, Asked, Swept, Answering, [Next]_vars
              PROVE  Answering'
    OBVIOUS
<1>. USE DEF At, Go, choice, unit, levels, filtering, Typed, Asked, Answering,
             ShouldCalibrate, CalibratedWorkloads, Starting, Sweeping,
             Measuring, InConcurrency, InLevel, InFiltered, InPoint
<1>1. CASE RefuseArguments \/ Prepare \/ PrepareFails \/ Connect
    BY <1>1 DEF RefuseArguments, Prepare, PrepareFails, Connect
<1>2. CASE Recreate \/ Load \/ CreateIndex \/ CountRows
    BY <1>2 DEF Recreate, Load, CreateIndex, CountRows
<1>3. CASE RecordBuild
    BY <1>3 DEF RecordBuild
<1>4. CASE SetSession
    BY <1>4 DEF SetSession, NextAfter
<1>5. CASE CalibratePoint
    BY <1>5 DEF CalibratePoint
<1>6. CASE EndSweep
    BY <1>6 DEF EndSweep
<1>7. CASE SelectPoint
  <2>1. calibration' # None
      BY <1>7, SelectionIs, NoneIsNoSelection DEF SelectPoint, Swept
  <2>2. ef' = calibration'.ef /\ extra'.status = calibration'.status
      BY <1>7 DEF SelectPoint
  <2>3. args.ef_mode = "calibrated"
      BY <1>7 DEF SelectPoint
  <2>4. pc' \notin InPoint \cup {"mode"} /\ pc # "close" /\ pc # "done"
      BY <1>7 DEF SelectPoint, NextAfter
  <2>5. UNCHANGED <<args, table>>
      BY <1>7 DEF SelectPoint
  <2>. HIDE DEF Measuring, Typed, Asked
  <2>. QED  BY <2>1, <2>2, <2>3, <2>4, <2>5
<1>8. CASE BeginConcurrency \/ CloseMeta \/ SkipLevel \/ WarmWindow
    BY <1>8 DEF BeginConcurrency, CloseMeta, SkipLevel, WarmWindow
<1>9. CASE EndLevels
    BY <1>9 DEF EndLevels, NextAfter
<1>10. CASE BeginCapture \/ MeasureWindow \/ FinishCapture \/ ProfiledWindow
    BY <1>10 DEF BeginCapture, MeasureWindow, FinishCapture, ProfiledWindow
<1>11. CASE RecordLevel
    BY <1>11 DEF RecordLevel
<1>12. CASE BeginFiltered \/ SetMode
    BY <1>12 DEF BeginFiltered, SetMode
<1>13. CASE EndFiltered
    BY <1>13 DEF EndFiltered, NextAfter
<1>14. CASE WarmQuery \/ EndWarmup \/ MeasureQuery \/ EndPoint
    BY <1>14 DEF WarmQuery, EndWarmup, MeasureQuery, EndPoint, Query
<1>15. CASE RecordPoint
    BY <1>15 DEF RecordPoint
<1>16. CASE RunChurn
    BY <1>16 DEF RunChurn
<1>17. CASE Raise
    BY <1>17 DEF Raise, InTry
<1>18. CASE Close
    BY <1>18 DEF Close
<1>19. CASE UNCHANGED vars
    BY <1>19 DEF vars, choice, unit, levels, filtering
<1>. QED
  BY <1>1, <1>2, <1>3, <1>4, <1>5, <1>6, <1>7, <1>8, <1>9, <1>10, <1>11, <1>12,
     <1>13, <1>14, <1>15, <1>16, <1>17, <1>18, <1>19
     DEF Next

LEMMA OneMoreQuery ==
    ASSUME NEW at \in Nat, NEW cost \in Nat, NEW after, after = at + cost,
           NEW worst \in Nat, worst >= cost, NEW budget \in Int,
           5 * at <= budget
    PROVE  5 * after <= budget + 5 * worst
OBVIOUS

(* The clock of a point.                                                      *)
LEMMA ClockedForever == Typed /\ Clocked /\ [Next]_vars => Clocked'
<1>. SUFFICES ASSUME Typed, Clocked, [Next]_vars
              PROVE  Clocked'
    OBVIOUS
<1>0. Costs \subseteq Nat /\ Budget \in Int /\ Planned \in Nat \ {0}
    BY UnitAssumption
<1>. USE <1>0
<1>. USE DEF At, Go, choice, unit, levels, filtering, Typed, TypeOK, Clocked,
             BudgetIsSpent, InPoint
<1>1. CASE RefuseArguments \/ Prepare \/ PrepareFails \/ Connect
    BY <1>1 DEF RefuseArguments, Prepare, PrepareFails, Connect
<1>2. CASE Recreate \/ Load \/ CreateIndex \/ CountRows
    BY <1>2 DEF Recreate, Load, CreateIndex, CountRows
<1>3. CASE RecordBuild
    BY <1>3 DEF RecordBuild
<1>4. CASE SetSession
    BY <1>4 DEF SetSession, NextAfter
<1>5. CASE CalibratePoint
    BY <1>5 DEF CalibratePoint
<1>6. CASE EndSweep
    BY <1>6 DEF EndSweep
<1>7. CASE SelectPoint
    BY <1>7 DEF SelectPoint, NextAfter
<1>8. CASE BeginConcurrency \/ CloseMeta \/ SkipLevel \/ WarmWindow
    BY <1>8 DEF BeginConcurrency, CloseMeta, SkipLevel, WarmWindow
<1>9. CASE EndLevels
    BY <1>9 DEF EndLevels, NextAfter
<1>10. CASE BeginCapture \/ MeasureWindow \/ FinishCapture \/ ProfiledWindow
    BY <1>10 DEF BeginCapture, MeasureWindow, FinishCapture, ProfiledWindow
<1>11. CASE RecordLevel
    BY <1>11 DEF RecordLevel
<1>12. CASE BeginFiltered \/ SetMode
    BY <1>12 DEF BeginFiltered, SetMode
<1>13. CASE EndFiltered
    BY <1>13 DEF EndFiltered, NextAfter
<1>14. CASE WarmQuery \/ EndWarmup \/ MeasureQuery \/ EndPoint
  <2>1. CASE WarmQuery
    <3>1. PICK cost \in Costs : Query(cost)
        BY <2>1 DEF WarmQuery
    <3>0. clock \in Nat /\ slowest \in Nat
        OBVIOUS
    <3>2. /\ cost \in Nat /\ clock' = clock + cost /\ slowest' \in Nat
          /\ slowest' >= cost /\ slowest' >= 0 /\ pc' = "warm"
        BY <2>1, <3>0, <3>1 DEF WarmQuery, Query
    <3>3. Budget > 0 => 5 * clock <= Budget
        BY <2>1 DEF WarmQuery, WarmupIsOver
    <3>4. Budget > 0 => 5 * clock' <= Budget + 5 * slowest'
        BY <3>0, <3>2, <3>3, OneMoreQuery
    <3>. QED  BY <3>2, <3>4
  <2>2. CASE EndWarmup
      BY <2>2 DEF EndWarmup
  <2>3. CASE MeasureQuery
      BY <2>3 DEF MeasureQuery, Query
  <2>4. CASE EndPoint
      BY <2>4 DEF EndPoint
  <2>. QED  BY <1>14, <2>1, <2>2, <2>3, <2>4
<1>15. CASE RecordPoint
    BY <1>15 DEF RecordPoint
<1>16. CASE RunChurn
    BY <1>16 DEF RunChurn
<1>17. CASE Raise
    BY <1>17 DEF Raise, InTry
<1>18. CASE Close
    BY <1>18 DEF Close
<1>19. CASE UNCHANGED vars
    BY <1>19 DEF vars, choice, unit, levels, filtering
<1>. QED
  BY <1>1, <1>2, <1>3, <1>4, <1>5, <1>6, <1>7, <1>8, <1>9, <1>10, <1>11, <1>12,
     <1>13, <1>14, <1>15, <1>16, <1>17, <1>18, <1>19
     DEF Next

-----------------------------------------------------------------------------
(* What every record says.                                                    *)

LEMMA OneMoreDeclared ==
    ASSUME Typed, Declared, UNCHANGED <<args, calibration>>,
           NEW r, records' = Append(records, r), RecordedAsDeclared(r),
           \/ pc' \in Measuring \cup {"close", "done"}
           \/ r.phase \notin CalibratedWorkloads
              /\ pc \notin Measuring \cup {"close", "done"}
    PROVE  Declared'
<1>1. IsList(records)
    BY DEF Typed
<1>2. /\ DOMAIN records' = 1 .. Len(records) + 1
      /\ DOMAIN records = 1 .. Len(records)
      /\ Len(records) \in Nat
      /\ \A i \in 1 .. Len(records) : records'[i] = records[i]
      /\ records'[Len(records) + 1] = r
    BY <1>1, Appended
<1>3. \A i \in DOMAIN records' : i = Len(records) + 1 \/ i \in DOMAIN records
    BY <1>2
<1>4. \A i \in DOMAIN records' :
        \/ records'[i] = r
        \/ \E j \in DOMAIN records : records'[i] = records[j]
    BY <1>2, <1>3
<1>. HIDE DEF Measuring
<1>. QED  BY <1>4 DEF Declared, RecordedAsDeclared

LEMMA DeclaredStays ==
    ASSUME Declared, UNCHANGED <<args, calibration, records>>,
           pc \in Measuring \cup {"close", "done"}
             => pc' \in Measuring \cup {"close", "done"}
    PROVE  Declared'
BY DEF Declared, RecordedAsDeclared

LEMMA DeclaredForever ==
    Typed /\ Failing /\ Asked /\ Answering /\ Declared /\ [Next]_vars
    => Declared'
<1>. SUFFICES ASSUME Typed, Failing, Asked, Answering, Declared, [Next]_vars
              PROVE  Declared'
    OBVIOUS
<1>. USE DEF At, Go, choice, unit, levels, filtering, Starting, Sweeping,
             Measuring, InConcurrency, InLevel, InFiltered, InPoint
<1>0. Typed
    OBVIOUS
<1>1. CASE RefuseArguments \/ Prepare \/ PrepareFails \/ Connect
    BY <1>1, DeclaredStays DEF RefuseArguments, Prepare, PrepareFails, Connect
<1>2. CASE Recreate \/ Load \/ CreateIndex \/ CountRows
    BY <1>2, DeclaredStays DEF Recreate, Load, CreateIndex, CountRows
<1>3. CASE RecordBuild
  <2>. DEFINE one == Recorded("ingest", None, None, None, None)
              two == Recorded("index_build", None, None, None, None)
  <2>1. RecordedAsDeclared(one) /\ RecordedAsDeclared(two)
      BY <1>3
         DEF RecordBuild, Recorded, RecordedAsDeclared, CalibratedWorkloads,
             Answering, Asked
  <2>2. one.phase = "ingest" /\ two.phase = "index_build"
      BY DEF Recorded
  <2>3. IsList(records) /\ IsList(Append(records, one))
      BY Appended DEF Typed
  <2>4. records' = Append(Append(records, one), two)
      BY <1>3, <2>3, TwoAppended DEF RecordBuild
  <2>5. pc = "index" /\ pc' = "session" /\ UNCHANGED <<args, calibration>>
      BY <1>3 DEF RecordBuild
  <2>. HIDE DEF one, two
  <2>6. \A i \in DOMAIN records' :
          \/ records'[i] \in {one, two}
          \/ \E j \in DOMAIN records : records'[i] = records[j]
      BY <2>3, <2>4, Appended
  <2>. QED
    BY <2>1, <2>2, <2>5, <2>6
       DEF Declared, RecordedAsDeclared, CalibratedWorkloads
<1>4. CASE SetSession
    BY <1>4, DeclaredStays DEF SetSession, NextAfter
<1>5. CASE CalibratePoint
  <2>1. PICK e : records' = Append(records, Recorded("ef_calibration", e, e,
                                                       session.scan, None))
      BY <1>5 DEF CalibratePoint
  <2>. DEFINE r == Recorded("ef_calibration", e, e, session.scan, None)
  <2>2. RecordedAsDeclared(r) /\ r.phase \notin CalibratedWorkloads
      BY <1>5
         DEF CalibratePoint, Recorded, RecordedAsDeclared, CalibratedWorkloads,
             Answering, Asked
  <2>. HIDE DEF r
  <2>3. records' = Append(records, r)
      BY <2>1 DEF r
  <2>. QED  BY <1>5, <2>2, <2>3, OneMoreDeclared DEF CalibratePoint
<1>6. CASE EndSweep
    BY <1>6, DeclaredStays DEF EndSweep
<1>7. CASE SelectPoint
  <2>1. /\ UNCHANGED <<args, records>> /\ pc = "select"
        /\ pc' \in Measuring \cup {"close", "done"}
      BY <1>7 DEF SelectPoint, NextAfter
  <2>. QED  BY <2>1 DEF Declared, RecordedAsDeclared
<1>8. CASE BeginConcurrency \/ CloseMeta \/ SkipLevel \/ WarmWindow
    BY <1>8, DeclaredStays
       DEF BeginConcurrency, CloseMeta, SkipLevel, WarmWindow
<1>9. CASE EndLevels
    BY <1>9, DeclaredStays DEF EndLevels, NextAfter
<1>10. CASE BeginCapture \/ MeasureWindow \/ FinishCapture \/ ProfiledWindow
    BY <1>10, DeclaredStays
       DEF BeginCapture, MeasureWindow, FinishCapture, ProfiledWindow
<1>11. CASE RecordLevel
  <2>1. PICK m :
        records' = Append(records, Recorded("concurrency", ef, ef, Default, m))
      BY <1>11 DEF RecordLevel
  <2>. DEFINE r == Recorded("concurrency", ef, ef, Default, m)
  <2>2. RecordedAsDeclared(r)
      BY <1>11
         DEF RecordLevel, Recorded, RecordedAsDeclared, CalibratedWorkloads,
             Answering, Asked
  <2>. HIDE DEF r
  <2>3. records' = Append(records, r)
      BY <2>1 DEF r
  <2>. QED  BY <1>11, <2>2, <2>3, OneMoreDeclared DEF RecordLevel
<1>12. CASE BeginFiltered \/ SetMode
    BY <1>12, DeclaredStays DEF BeginFiltered, SetMode
<1>13. CASE EndFiltered
    BY <1>13, DeclaredStays DEF EndFiltered, NextAfter
<1>14. CASE WarmQuery \/ EndWarmup \/ MeasureQuery \/ EndPoint
    BY <1>14, DeclaredStays
       DEF WarmQuery, EndWarmup, MeasureQuery, EndPoint, Query
<1>15. CASE RecordPoint
  <2>. DEFINE r == Recorded("filtered", ef, session.ef, session.scan,
                            [iterative_scan |-> modes[mode],
                             bounded |-> executed < Planned,
                             recall |-> executed > 0])
  <2>2. RecordedAsDeclared(r)
      BY <1>15
         DEF RecordPoint, Recorded, RecordedAsDeclared, CalibratedWorkloads,
             Answering, Asked
  <2>3. records' = Append(records, r)
      BY <1>15 DEF RecordPoint
  <2>4. pc' \in Measuring /\ UNCHANGED <<args, calibration>>
      BY <1>15 DEF RecordPoint
  <2>. HIDE DEF r
  <2>. QED  BY <2>2, <2>3, <2>4, OneMoreDeclared
<1>16. CASE RunChurn
  <2>. DEFINE r == [Recorded("churn", ef, ef, session.scan, None)
                      EXCEPT !.table = "churned"]
  <2>2. RecordedAsDeclared(r)
      BY <1>16
         DEF RunChurn, Recorded, RecordedAsDeclared, CalibratedWorkloads,
             Answering, Asked
  <2>3. records' = Append(records, r)
      BY <1>16 DEF RunChurn
  <2>4. pc' = "close" /\ UNCHANGED <<args, calibration>>
      BY <1>16 DEF RunChurn
  <2>. HIDE DEF r
  <2>. QED  BY <2>2, <2>3, <2>4, OneMoreDeclared
<1>17. CASE Raise
    BY <1>17, DeclaredStays DEF Raise, InTry
<1>18. CASE Close
    BY <1>18, DeclaredStays DEF Close
<1>19. CASE UNCHANGED vars
    BY <1>19, DeclaredStays DEF vars, choice, unit, levels, filtering
<1>. QED
  BY <1>1, <1>2, <1>3, <1>4, <1>5, <1>6, <1>7, <1>8, <1>9, <1>10, <1>11, <1>12,
     <1>13, <1>14, <1>15, <1>16, <1>17, <1>18, <1>19
     DEF Next

-----------------------------------------------------------------------------
(* How many records there are of each workload.                               *)

Phases == {"ingest", "index_build", "ef_calibration", "concurrency", "filtered",
           "churn"}
OneMore(phase) ==
    /\ CountOf(records', phase) = CountOf(records, phase) + 1
    /\ \A other \in Phases \ {phase} :
         CountOf(records', other) = CountOf(records, other)

LEMMA OneMoreOf ==
    ASSUME Typed, NEW r, records' = Append(records, r)
    PROVE  OneMore(r.phase)
<1>1. IsList(records)
    BY DEF Typed
<1>. QED  BY <1>1, CountAppended DEF OneMore

LEMMA CalibratePointCounts ==
    Typed /\ CalibratePoint => OneMore("ef_calibration")
<1>. SUFFICES ASSUME Typed, CalibratePoint
              PROVE  OneMore("ef_calibration")
    OBVIOUS
<1>1. PICK e : records' = Append(records, Recorded("ef_calibration", e, e,
                                                   session.scan, None))
    BY DEF CalibratePoint
<1>2. Recorded("ef_calibration", e, e, session.scan, None).phase
      = "ef_calibration"
    BY DEF Recorded
<1>. QED  BY <1>1, <1>2, OneMoreOf

LEMMA RecordLevelCounts == Typed /\ RecordLevel => OneMore("concurrency")
<1>. SUFFICES ASSUME Typed, RecordLevel
              PROVE  OneMore("concurrency")
    OBVIOUS
<1>1. PICK m :
        records' = Append(records, Recorded("concurrency", ef, ef, Default, m))
    BY DEF RecordLevel
<1>2. Recorded("concurrency", ef, ef, Default, m).phase = "concurrency"
    BY DEF Recorded
<1>. QED  BY <1>1, <1>2, OneMoreOf

LEMMA RecordPointCounts == Typed /\ RecordPoint => OneMore("filtered")
<1>. SUFFICES ASSUME Typed, RecordPoint
              PROVE  OneMore("filtered")
    OBVIOUS
<1>1. PICK m :
        records' = Append(records,
                          Recorded("filtered", ef, session.ef, session.scan, m))
    BY DEF RecordPoint
<1>2. Recorded("filtered", ef, session.ef, session.scan, m).phase = "filtered"
    BY DEF Recorded
<1>. QED  BY <1>1, <1>2, OneMoreOf

LEMMA RunChurnCounts == Typed /\ RunChurn => OneMore("churn")
<1>. SUFFICES ASSUME Typed, RunChurn
              PROVE  OneMore("churn")
    OBVIOUS
<1>. DEFINE r == [Recorded("churn", ef, ef, session.scan, None)
                    EXCEPT !.table = "churned"]
<1>1. records' = Append(records, r)
    BY DEF RunChurn
<1>2. r.phase = "churn"
    BY DEF Recorded
<1>. HIDE DEF r
<1>. QED  BY <1>1, <1>2, OneMoreOf

LEMMA RecordBuildCounts ==
    Typed /\ RecordBuild =>
        /\ CountOf(records', "ingest") = CountOf(records, "ingest") + 1
        /\ CountOf(records', "index_build")
           = CountOf(records, "index_build") + 1
        /\ \A other \in Phases \ {"ingest", "index_build"} :
             CountOf(records', other) = CountOf(records, other)
<1>. SUFFICES ASSUME Typed, RecordBuild
              PROVE  /\ CountOf(records', "ingest")
                        = CountOf(records, "ingest") + 1
                     /\ CountOf(records', "index_build")
                        = CountOf(records, "index_build") + 1
                     /\ \A other \in Phases \ {"ingest", "index_build"} :
                          CountOf(records', other) = CountOf(records, other)
    OBVIOUS
<1>. DEFINE one == Recorded("ingest", None, None, None, None)
            two == Recorded("index_build", None, None, None, None)
<1>1. one.phase = "ingest" /\ two.phase = "index_build"
    BY DEF Recorded
<1>2. IsList(records) /\ IsList(Append(records, one))
    BY Appended DEF Typed
<1>3. records' = Append(Append(records, one), two)
    BY <1>2, TwoAppended DEF RecordBuild
<1>. HIDE DEF one, two
<1>4. \A phase : CountOf(Append(records, one), phase)
        = IF one.phase = phase THEN CountOf(records, phase) + 1
          ELSE CountOf(records, phase)
    BY <1>2, CountAppended
<1>5. \A phase : CountOf(records', phase)
        = IF two.phase = phase THEN CountOf(Append(records, one), phase) + 1
          ELSE CountOf(Append(records, one), phase)
    BY <1>2, <1>3, CountAppended
<1>. QED  BY <1>1, <1>4, <1>5

(* What is chosen once.                                                       *)
LEMMA ChosenOnce ==
    [Next]_vars
    => UNCHANGED <<args, engine>> /\ (~ At("parse") => workloads' = workloads)
<1>. SUFFICES ASSUME [Next]_vars
              PROVE  /\ UNCHANGED <<args, engine>>
                     /\ ~ At("parse") => workloads' = workloads
    OBVIOUS
<1>. USE DEF At, Go, choice, unit
<1>1. CASE RefuseArguments \/ Prepare \/ PrepareFails \/ Connect \/ Recreate
        \/ Load
    BY <1>1 DEF RefuseArguments, Prepare, PrepareFails, Connect, Recreate, Load
<1>2. CASE CreateIndex \/ CountRows \/ RecordBuild \/ SetSession
        \/ CalibratePoint \/ EndSweep
    BY <1>2
       DEF CreateIndex, CountRows, RecordBuild, SetSession, CalibratePoint,
           EndSweep
<1>3. CASE SelectPoint \/ BeginConcurrency \/ CloseMeta \/ SkipLevel
        \/ WarmWindow \/ EndLevels
    BY <1>3
       DEF SelectPoint, BeginConcurrency, CloseMeta, SkipLevel, WarmWindow,
           EndLevels
<1>4. CASE BeginCapture \/ MeasureWindow \/ FinishCapture \/ ProfiledWindow
        \/ RecordLevel \/ BeginFiltered
    BY <1>4
       DEF BeginCapture, MeasureWindow, FinishCapture, ProfiledWindow,
           RecordLevel, BeginFiltered
<1>5. CASE SetMode \/ EndFiltered \/ WarmQuery \/ EndWarmup \/ MeasureQuery
        \/ EndPoint
    BY <1>5
       DEF SetMode, EndFiltered, WarmQuery, EndWarmup, MeasureQuery, EndPoint
<1>6. CASE RecordPoint \/ RunChurn \/ Raise \/ Close
    BY <1>6 DEF RecordPoint, RunChurn, Raise, Close
<1>7. CASE UNCHANGED vars
    BY <1>7 DEF vars
<1>. QED  BY <1>1, <1>2, <1>3, <1>4, <1>5, <1>6, <1>7 DEF Next

LEMMA ModesAreChosenOnce == [Next]_vars => ScanModes' = ScanModes
BY ChosenOnce DEF ScanModes

(* The levels below one.                                                      *)
LEMMA LevelsStep ==
    /\ LevelsBelow(1) = 0
    /\ \A n \in 1 .. Len(ClientCounts) :
         /\ LevelsBelow(n) \in Nat
         /\ LevelsBelow(n + 1) = IF ClientCounts[n] <= Queries
                                 THEN LevelsBelow(n) + 1 ELSE LevelsBelow(n)
    /\ LevelsBelow(Len(ClientCounts) + 1) = LevelsMeasured
<1>. DEFINE Below(n) ==
              {i \in DOMAIN ClientCounts : i < n /\ ClientCounts[i] <= Queries}
<1>1. Len(ClientCounts) \in Nat /\ DOMAIN ClientCounts = 1 .. Len(ClientCounts)
    BY UnitAssumption
<1>2. Below(1) = {}
    BY <1>1
<1>3. ASSUME NEW n \in 1 .. Len(ClientCounts)
      PROVE  /\ LevelsBelow(n) \in Nat
             /\ LevelsBelow(n + 1) = IF ClientCounts[n] <= Queries
                                     THEN LevelsBelow(n) + 1 ELSE LevelsBelow(n)
  <2>1. IsFiniteSet(Below(n))
    <3>1. IsFiniteSet(1 .. Len(ClientCounts))
        BY <1>1, FS_Interval
    <3>2. Below(n) \in SUBSET (1 .. Len(ClientCounts))
        BY <1>1
    <3>. QED  BY <3>1, <3>2, FS_Subset
  <2>2. n \notin Below(n)
      BY <1>1
  <2>3. CASE ClientCounts[n] <= Queries
    <3>1. Below(n + 1) = Below(n) \cup {n}
        BY <1>1, <2>3
    <3>. QED
      BY <2>1, <2>2, <2>3, <3>1, FS_AddElement, FS_CardinalityType
         DEF LevelsBelow
  <2>4. CASE ~ (ClientCounts[n] <= Queries)
    <3>1. Below(n + 1) = Below(n)
        BY <1>1, <2>4
    <3>. QED  BY <2>1, <2>4, <3>1, FS_CardinalityType DEF LevelsBelow
  <2>. QED  BY <2>3, <2>4
<1>4. Below(Len(ClientCounts) + 1)
      = {i \in DOMAIN ClientCounts : ClientCounts[i] <= Queries}
    BY <1>1
<1>. QED  BY <1>2, <1>3, <1>4, FS_EmptySet DEF LevelsBelow, LevelsMeasured

LEMMA BuildForever == Typed /\ Failing /\ Asked /\ BuildCounted /\ [Next]_vars
    => BuildCounted'
<1>. SUFFICES ASSUME Typed, Failing, Asked, BuildCounted, [Next]_vars
              PROVE  BuildCounted'
    OBVIOUS
<1>0. /\ None \notin Int /\ UNCHANGED <<args, engine>>
      /\ ~ At("parse") => workloads' = workloads
    BY UnitAssumption, ChosenOnce
<1>. USE <1>0
<1>. USE DEF At, Go, choice, unit, levels, filtering, Failing, Asked,
             BuildCounted, Built, Ended, Starting, Sweeping, Measuring,
             InConcurrency, InLevel, InFiltered, InPoint
<1>1. CASE RefuseArguments \/ Prepare \/ PrepareFails \/ Connect
    BY <1>1 DEF RefuseArguments, Prepare, PrepareFails, Connect
<1>2. CASE Recreate \/ Load \/ CreateIndex \/ CountRows
    BY <1>2 DEF Recreate, Load, CreateIndex, CountRows
<1>3. CASE RecordBuild
    BY <1>3, RecordBuildCounts DEF OneMore, Phases, RecordBuild
<1>4. CASE SetSession
    BY <1>4 DEF SetSession, NextAfter
<1>5. CASE CalibratePoint
    BY <1>5, CalibratePointCounts DEF OneMore, Phases, CalibratePoint
<1>6. CASE EndSweep
    BY <1>6 DEF EndSweep
<1>7. CASE SelectPoint
    BY <1>7 DEF SelectPoint, NextAfter
<1>8. CASE BeginConcurrency \/ CloseMeta \/ SkipLevel \/ WarmWindow
    BY <1>8 DEF BeginConcurrency, CloseMeta, SkipLevel, WarmWindow
<1>9. CASE EndLevels
    BY <1>9 DEF EndLevels, NextAfter
<1>10. CASE BeginCapture \/ MeasureWindow \/ FinishCapture \/ ProfiledWindow
    BY <1>10 DEF BeginCapture, MeasureWindow, FinishCapture, ProfiledWindow
<1>11. CASE RecordLevel
    BY <1>11, RecordLevelCounts DEF OneMore, Phases, RecordLevel
<1>12. CASE BeginFiltered \/ SetMode
    BY <1>12 DEF BeginFiltered, SetMode
<1>13. CASE EndFiltered
    BY <1>13 DEF EndFiltered, NextAfter
<1>14. CASE WarmQuery \/ EndWarmup \/ MeasureQuery \/ EndPoint
    BY <1>14 DEF WarmQuery, EndWarmup, MeasureQuery, EndPoint, Query
<1>15. CASE RecordPoint
    BY <1>15, RecordPointCounts DEF OneMore, Phases, RecordPoint
<1>16. CASE RunChurn
    BY <1>16, RunChurnCounts DEF OneMore, Phases, RunChurn
<1>17. CASE Raise
    BY <1>17 DEF Raise, InTry
<1>18. CASE Close
    BY <1>18 DEF Close
<1>19. CASE UNCHANGED vars
    BY <1>19 DEF vars, choice, unit, levels, filtering
<1>. QED
  BY <1>1, <1>2, <1>3, <1>4, <1>5, <1>6, <1>7, <1>8, <1>9, <1>10, <1>11, <1>12,
     <1>13, <1>14, <1>15, <1>16, <1>17, <1>18, <1>19
     DEF Next

LEMMA SweepForever ==
    Typed /\ Failing /\ Asked /\ Swept /\ SweepCounted /\ [Next]_vars
    => SweepCounted'
<1>. SUFFICES ASSUME Typed, Failing, Asked, Swept, SweepCounted, [Next]_vars
              PROVE  SweepCounted'
    OBVIOUS
<1>0. /\ None \notin Int /\ UNCHANGED <<args, engine>>
      /\ ~ At("parse") => workloads' = workloads
    BY UnitAssumption, ChosenOnce
<1>. USE <1>0
<1>. USE DEF At, Go, choice, unit, levels, filtering, Failing, Asked,
             SweepCounted, SweepDone, ShouldCalibrate, CalibratedWorkloads,
             Ended, Starting, Sweeping, Measuring, InConcurrency, InLevel,
             InFiltered, InPoint
<1>1. CASE RefuseArguments \/ Prepare \/ PrepareFails \/ Connect
    BY <1>1 DEF RefuseArguments, Prepare, PrepareFails, Connect
<1>2. CASE Recreate \/ Load \/ CreateIndex \/ CountRows
  <2>1. UNCHANGED <<records, points>> /\ pc \in Starting
      BY <1>2 DEF Recreate, Load, CreateIndex, CountRows
  <2>2. pc' \in Starting \/ (pc' = "close" /\ rc' = 3)
      BY <1>2 DEF Recreate, Load, CreateIndex, CountRows
  <2>3. pc' \notin Sweeping /\ pc' \notin Measuring /\ ~ Ended'
      BY <2>2
  <2>. HIDE DEF Starting, Sweeping, Measuring, Ended, SweepDone
  <2>. QED  BY <2>1, <2>3
<1>3. CASE RecordBuild
    BY <1>3, RecordBuildCounts DEF OneMore, Phases, RecordBuild
<1>4. CASE SetSession
  <2>1. Len(<< >>) = 0
      BY EmptyList
  <2>2. pc' \in {"calibrate", "concurrency", "filtered", "churn", "close"}
      BY <1>4 DEF SetSession, NextAfter
  <2>3. pc' = "calibrate" <=> ShouldCalibrate
      BY <1>4 DEF SetSession, NextAfter
  <2>4. /\ pc = "session"
        /\ UNCHANGED <<records, points, args, workloads, rc, failed>>
      BY <1>4 DEF SetSession
  <2>5. /\ CountOf(records', "ef_calibration") = 0 /\ points' = << >>
        /\ ShouldCalibrate' = ShouldCalibrate
      BY <2>4
  <2>6. pc' \notin Starting \cup {"parse"} /\ pc' # "select"
      BY <2>2
  <2>7. pc' # "calibrate" => SweepDone'
    <3>1. pc' # "calibrate" => ShouldCalibrate' = FALSE
        BY <2>3, <2>5
    <3>2. (CountOf(records', "ef_calibration") > 0) = FALSE
        BY <2>5
    <3>. HIDE DEF ShouldCalibrate
    <3>. QED  BY <3>1, <3>2
  <2>8. pc' = "calibrate" => pc' \notin Measuring /\ ~ Ended'
      BY <2>2
  <2>9. pc' \in Sweeping => pc' = "calibrate"
      BY <2>6
  <2>. HIDE DEF Starting, Sweeping, Measuring, Ended, SweepDone
  <2>. QED  BY <2>1, <2>5, <2>6, <2>7, <2>8, <2>9
<1>5. CASE CalibratePoint
  <2>1. PICK x : points' = Append(points, x)
      BY <1>5 DEF CalibratePoint
  <2>2. Len(points') = Len(points) + 1 /\ Len(points) \in Nat
      BY <2>1, Appended DEF Typed
  <2>. QED
    BY <1>5, <2>2, CalibratePointCounts DEF OneMore, Phases, CalibratePoint
<1>6. CASE EndSweep
    BY <1>6 DEF EndSweep
<1>7. CASE SelectPoint
  <2>1. Len(points) > 0
      BY <1>7 DEF SelectPoint, Swept
  <2>. QED  BY <1>7, <2>1 DEF SelectPoint, NextAfter
<1>8. CASE BeginConcurrency \/ CloseMeta \/ SkipLevel \/ WarmWindow
    BY <1>8 DEF BeginConcurrency, CloseMeta, SkipLevel, WarmWindow
<1>9. CASE EndLevels
    BY <1>9 DEF EndLevels, NextAfter
<1>10. CASE BeginCapture \/ MeasureWindow \/ FinishCapture \/ ProfiledWindow
    BY <1>10 DEF BeginCapture, MeasureWindow, FinishCapture, ProfiledWindow
<1>11. CASE RecordLevel
    BY <1>11, RecordLevelCounts DEF OneMore, Phases, RecordLevel
<1>12. CASE BeginFiltered \/ SetMode
    BY <1>12 DEF BeginFiltered, SetMode
<1>13. CASE EndFiltered
    BY <1>13 DEF EndFiltered, NextAfter
<1>14. CASE WarmQuery \/ EndWarmup \/ MeasureQuery \/ EndPoint
    BY <1>14 DEF WarmQuery, EndWarmup, MeasureQuery, EndPoint, Query
<1>15. CASE RecordPoint
    BY <1>15, RecordPointCounts DEF OneMore, Phases, RecordPoint
<1>16. CASE RunChurn
    BY <1>16, RunChurnCounts DEF OneMore, Phases, RunChurn
<1>17. CASE Raise
    BY <1>17 DEF Raise, InTry
<1>18. CASE Close
    BY <1>18 DEF Close
<1>19. CASE UNCHANGED vars
    BY <1>19 DEF vars, choice, unit, levels, filtering
<1>. QED
  BY <1>1, <1>2, <1>3, <1>4, <1>5, <1>6, <1>7, <1>8, <1>9, <1>10, <1>11, <1>12,
     <1>13, <1>14, <1>15, <1>16, <1>17, <1>18, <1>19
     DEF Next

LEMMA LevelsForever == Typed /\ Failing /\ Asked /\ LevelsCounted /\ [Next]_vars
    => LevelsCounted'
<1>. SUFFICES ASSUME Typed, Failing, Asked, LevelsCounted, [Next]_vars
              PROVE  LevelsCounted'
    OBVIOUS
<1>0. /\ None \notin Int /\ UNCHANGED <<args, engine>>
      /\ ~ At("parse") => workloads' = workloads
    BY UnitAssumption, ChosenOnce
<1>. USE <1>0
<1>. USE DEF At, Go, choice, unit, levels, filtering, Failing, Asked,
             LevelsCounted, LevelsDone, Ended, Starting, Sweeping, Measuring,
             InConcurrency, InLevel, InFiltered, InPoint
<1>1. CASE RefuseArguments \/ Prepare \/ PrepareFails \/ Connect
    BY <1>1 DEF RefuseArguments, Prepare, PrepareFails, Connect
<1>2. CASE Recreate \/ Load \/ CreateIndex \/ CountRows
    BY <1>2 DEF Recreate, Load, CreateIndex, CountRows
<1>3. CASE RecordBuild
    BY <1>3, RecordBuildCounts DEF OneMore, Phases, RecordBuild
<1>4. CASE SetSession
    BY <1>4 DEF SetSession, NextAfter
<1>5. CASE CalibratePoint
    BY <1>5, CalibratePointCounts DEF OneMore, Phases, CalibratePoint
<1>6. CASE EndSweep
    BY <1>6 DEF EndSweep
<1>7. CASE SelectPoint
    BY <1>7 DEF SelectPoint, NextAfter
<1>8. CASE BeginConcurrency \/ CloseMeta \/ SkipLevel \/ WarmWindow
  <2>0. Len(ClientCounts) \in Nat /\ ClientCounts \in Seq(Nat)
        /\ Queries \in Nat
        /\ level \in 1 .. Len(ClientCounts) + 1
      BY UnitAssumption DEF Typed, TypeOK
  <2>1. CASE BeginConcurrency
      BY <2>1 DEF BeginConcurrency
  <2>2. CASE CloseMeta
      BY <2>2, LevelsStep DEF CloseMeta
  <2>3. CASE SkipLevel
    <3>1. level \in 1 .. Len(ClientCounts) /\ ~ (ClientCounts[level] <= Queries)
        BY <2>0, <2>3 DEF SkipLevel, Clients
    <3>. QED  BY <2>3, <3>1, LevelsStep DEF SkipLevel
  <2>4. CASE WarmWindow
      BY <2>4 DEF WarmWindow, Clients
  <2>. QED  BY <1>8, <2>1, <2>2, <2>3, <2>4
<1>9. CASE EndLevels
  <2>0. Len(ClientCounts) \in Nat /\ level \in 1 .. Len(ClientCounts) + 1
      BY UnitAssumption DEF Typed, TypeOK
  <2>1. level = Len(ClientCounts) + 1
      BY <1>9, <2>0 DEF EndLevels
  <2>2. CountOf(records, "concurrency") = LevelsMeasured
      BY <1>9, <2>1, LevelsStep DEF EndLevels
  <2>. QED  BY <1>9, <2>2 DEF EndLevels, NextAfter
<1>10. CASE BeginCapture \/ MeasureWindow \/ FinishCapture \/ ProfiledWindow
    BY <1>10
       DEF BeginCapture, MeasureWindow, FinishCapture, ProfiledWindow, Clients
<1>11. CASE RecordLevel
  <2>0. Len(ClientCounts) \in Nat /\ level \in 1 .. Len(ClientCounts)
      BY <1>11, UnitAssumption DEF Typed, TypeOK, RecordLevel
  <2>1. level' = level + 1 /\ pc' = "level" /\ pc = "choose"
        /\ ClientCounts[level] <= Queries
      BY <1>11 DEF RecordLevel, Clients
  <2>2. CountOf(records', "concurrency") = LevelsBelow(level')
      BY <1>11, <2>0, <2>1, LevelsStep, RecordLevelCounts DEF OneMore
  <2>. QED  BY <2>1, <2>2
<1>12. CASE BeginFiltered \/ SetMode
    BY <1>12 DEF BeginFiltered, SetMode
<1>13. CASE EndFiltered
    BY <1>13 DEF EndFiltered, NextAfter
<1>14. CASE WarmQuery \/ EndWarmup \/ MeasureQuery \/ EndPoint
    BY <1>14 DEF WarmQuery, EndWarmup, MeasureQuery, EndPoint, Query
<1>15. CASE RecordPoint
    BY <1>15, RecordPointCounts DEF OneMore, Phases, RecordPoint
<1>16. CASE RunChurn
    BY <1>16, RunChurnCounts DEF OneMore, Phases, RunChurn
<1>17. CASE Raise
    BY <1>17 DEF Raise, InTry, Clients
<1>18. CASE Close
    BY <1>18 DEF Close
<1>19. CASE UNCHANGED vars
    BY <1>19 DEF vars, choice, unit, levels, filtering, Clients
<1>. QED
  BY <1>1, <1>2, <1>3, <1>4, <1>5, <1>6, <1>7, <1>8, <1>9, <1>10, <1>11, <1>12,
     <1>13, <1>14, <1>15, <1>16, <1>17, <1>18, <1>19
     DEF Next

LEMMA FilteredForever ==
    Typed /\ Failing /\ Asked /\ FilteredCounted /\ [Next]_vars
    => FilteredCounted'
<1>. SUFFICES ASSUME Typed, Failing, Asked, FilteredCounted, [Next]_vars
              PROVE  FilteredCounted'
    OBVIOUS
<1>0. /\ None \notin Int /\ UNCHANGED <<args, engine>>
      /\ ~ At("parse") => workloads' = workloads
    BY UnitAssumption, ChosenOnce
<1>a. ScanModes' = ScanModes
    BY ModesAreChosenOnce
<1>. USE <1>0, <1>a
<1>. USE DEF At, Go, choice, unit, levels, filtering, Failing, Asked,
             FilteredCounted, FilteredDone, Ended, Starting, Sweeping,
             Measuring, InConcurrency, InLevel, InFiltered, InPoint
<1>1. CASE RefuseArguments \/ Prepare \/ PrepareFails \/ Connect
    BY <1>1 DEF RefuseArguments, Prepare, PrepareFails, Connect
<1>2. CASE Recreate \/ Load \/ CreateIndex \/ CountRows
    BY <1>2 DEF Recreate, Load, CreateIndex, CountRows
<1>3. CASE RecordBuild
    BY <1>3, RecordBuildCounts DEF OneMore, Phases, RecordBuild
<1>4. CASE SetSession
    BY <1>4 DEF SetSession, NextAfter
<1>5. CASE CalibratePoint
    BY <1>5, CalibratePointCounts DEF OneMore, Phases, CalibratePoint
<1>6. CASE EndSweep
    BY <1>6 DEF EndSweep
<1>7. CASE SelectPoint
    BY <1>7 DEF SelectPoint, NextAfter
<1>8. CASE BeginConcurrency \/ CloseMeta \/ SkipLevel \/ WarmWindow
    BY <1>8 DEF BeginConcurrency, CloseMeta, SkipLevel, WarmWindow
<1>9. CASE EndLevels
    BY <1>9 DEF EndLevels, NextAfter
<1>10. CASE BeginCapture \/ MeasureWindow \/ FinishCapture \/ ProfiledWindow
    BY <1>10 DEF BeginCapture, MeasureWindow, FinishCapture, ProfiledWindow
<1>11. CASE RecordLevel
    BY <1>11, RecordLevelCounts DEF OneMore, Phases, RecordLevel
<1>12. CASE BeginFiltered \/ SetMode
  <2>0. Points \in Nat \ {0} /\ mode \in Nat \ {0} /\ point \in Nat \ {0}
      BY UnitAssumption DEF Typed
  <2>1. CASE BeginFiltered
    <3>1. Len(ScanModes) \in Nat
        BY ModesAreAList, ListFacts, UnitAssumption DEF Typed, TypeOK
    <3>2. (1 - 1) * Points = 0
        BY <2>0
    <3>. QED  BY <2>1, <3>1, <3>2 DEF BeginFiltered
  <2>2. CASE SetMode
    <3>1. (mode - 1) * Points + (1 - 1) = (mode - 1) * Points
        BY <2>0
    <3>. QED  BY <2>0, <2>2, <3>1 DEF SetMode
  <2>. QED  BY <1>12, <2>1, <2>2
<1>13. CASE EndFiltered
  <2>0. Points \in Nat \ {0} /\ mode \in Nat \ {0} /\ Len(modes) \in Nat
      BY UnitAssumption, ListFacts DEF Typed
  <2>1. mode = Len(modes) + 1 /\ modes = ScanModes
      BY <1>13, <2>0 DEF EndFiltered
  <2>2. CountOf(records, "filtered") = Len(ScanModes) * Points
      BY <1>13, <2>0, <2>1 DEF EndFiltered
  <2>. QED  BY <1>13, <2>2 DEF EndFiltered, NextAfter
<1>14. CASE WarmQuery \/ EndWarmup \/ MeasureQuery \/ EndPoint
    BY <1>14 DEF WarmQuery, EndWarmup, MeasureQuery, EndPoint, Query
<1>15. CASE RecordPoint
  <2>0. Points \in Nat \ {0} /\ mode \in Nat \ {0} /\ point \in Nat \ {0}
        /\ Len(modes) \in Nat
      BY UnitAssumption, ListFacts DEF Typed
  <2>1. CountOf(records', "filtered") = (mode - 1) * Points + (point - 1) + 1
      BY <1>15, RecordPointCounts DEF OneMore, RecordPoint
  <2>2. modes' = modes /\ pc = "record" /\ mode <= Len(modes) /\ point <= Points
      BY <1>15 DEF RecordPoint
  <2>3. CASE point < Points
    <3>1. point' = point + 1 /\ mode' = mode /\ pc' = "warm"
        BY <1>15, <2>3 DEF RecordPoint
    <3>2. CountOf(records', "filtered") = (mode' - 1) * Points + (point' - 1)
          /\ point' <= Points
        BY <2>0, <2>1, <2>3, <3>1
    <3>. QED  BY <2>2, <3>1, <3>2
  <2>4. CASE ~ (point < Points)
    <3>1. mode' = mode + 1 /\ pc' = "mode" /\ point = Points
        BY <1>15, <2>0, <2>2, <2>4 DEF RecordPoint
    <3>2. (mode - 1) * Points + (Points - 1) + 1 = (mode + 1 - 1) * Points
        BY <2>0
    <3>4. CountOf(records', "filtered") = (mode' - 1) * Points
      <4>1. CountOf(records', "filtered")
            = (mode - 1) * Points + (Points - 1) + 1
          BY <2>1, <3>1
      <4>2. mode' - 1 = mode + 1 - 1
          BY <2>0, <3>1
      <4>. QED  BY <2>0, <3>1, <3>2, <4>1, <4>2
    <3>3. mode' <= Len(modes) + 1
        BY <2>0, <2>2, <3>1
    <3>. QED  BY <2>2, <3>1, <3>3, <3>4
  <2>. QED  BY <2>3, <2>4
<1>16. CASE RunChurn
    BY <1>16, RunChurnCounts DEF OneMore, Phases, RunChurn
<1>17. CASE Raise
    BY <1>17 DEF Raise, InTry
<1>18. CASE Close
    BY <1>18 DEF Close
<1>19. CASE UNCHANGED vars
    BY <1>19 DEF vars, choice, unit, levels, filtering
<1>. QED
  BY <1>1, <1>2, <1>3, <1>4, <1>5, <1>6, <1>7, <1>8, <1>9, <1>10, <1>11, <1>12,
     <1>13, <1>14, <1>15, <1>16, <1>17, <1>18, <1>19
     DEF Next

LEMMA ChurnForever == Typed /\ Failing /\ Asked /\ ChurnCounted /\ [Next]_vars
    => ChurnCounted'
<1>. SUFFICES ASSUME Typed, Failing, Asked, ChurnCounted, [Next]_vars
              PROVE  ChurnCounted'
    OBVIOUS
<1>0. /\ None \notin Int /\ UNCHANGED <<args, engine>>
      /\ ~ At("parse") => workloads' = workloads
    BY UnitAssumption, ChosenOnce
<1>. USE <1>0
<1>. USE DEF At, Go, choice, unit, levels, filtering, Failing, Asked,
             ChurnCounted, ChurnDone, Ended, Starting, Sweeping, Measuring,
             InConcurrency, InLevel, InFiltered, InPoint
<1>1. CASE RefuseArguments \/ Prepare \/ PrepareFails \/ Connect
    BY <1>1 DEF RefuseArguments, Prepare, PrepareFails, Connect
<1>2. CASE Recreate \/ Load \/ CreateIndex \/ CountRows
    BY <1>2 DEF Recreate, Load, CreateIndex, CountRows
<1>3. CASE RecordBuild
    BY <1>3, RecordBuildCounts DEF OneMore, Phases, RecordBuild
<1>4. CASE SetSession
    BY <1>4 DEF SetSession, NextAfter
<1>5. CASE CalibratePoint
    BY <1>5, CalibratePointCounts DEF OneMore, Phases, CalibratePoint
<1>6. CASE EndSweep
    BY <1>6 DEF EndSweep
<1>7. CASE SelectPoint
    BY <1>7 DEF SelectPoint, NextAfter
<1>8. CASE BeginConcurrency \/ CloseMeta \/ SkipLevel \/ WarmWindow
    BY <1>8 DEF BeginConcurrency, CloseMeta, SkipLevel, WarmWindow
<1>9. CASE EndLevels
    BY <1>9 DEF EndLevels, NextAfter
<1>10. CASE BeginCapture \/ MeasureWindow \/ FinishCapture \/ ProfiledWindow
    BY <1>10 DEF BeginCapture, MeasureWindow, FinishCapture, ProfiledWindow
<1>11. CASE RecordLevel
    BY <1>11, RecordLevelCounts DEF OneMore, Phases, RecordLevel
<1>12. CASE BeginFiltered \/ SetMode
    BY <1>12 DEF BeginFiltered, SetMode
<1>13. CASE EndFiltered
    BY <1>13 DEF EndFiltered, NextAfter
<1>14. CASE WarmQuery \/ EndWarmup \/ MeasureQuery \/ EndPoint
    BY <1>14 DEF WarmQuery, EndWarmup, MeasureQuery, EndPoint, Query
<1>15. CASE RecordPoint
    BY <1>15, RecordPointCounts DEF OneMore, Phases, RecordPoint
<1>16. CASE RunChurn
    BY <1>16, RunChurnCounts DEF OneMore, Phases, RunChurn
<1>17. CASE Raise
    BY <1>17 DEF Raise, InTry
<1>18. CASE Close
    BY <1>18 DEF Close
<1>19. CASE UNCHANGED vars
    BY <1>19 DEF vars, choice, unit, levels, filtering
<1>. QED
  BY <1>1, <1>2, <1>3, <1>4, <1>5, <1>6, <1>7, <1>8, <1>9, <1>10, <1>11, <1>12,
     <1>13, <1>14, <1>15, <1>16, <1>17, <1>18, <1>19
     DEF Next

(* A unit that has returned 0 was whole when it closed, and stays so.         *)
LEMMA DoneForever ==
    ASSUME Typed, Failing, Counted, [Next]_vars
    PROVE  DoneWhole'
<1>0. None \notin Int /\ UNCHANGED <<args, engine>> /\ ScanModes' = ScanModes
    BY UnitAssumption, ChosenOnce, ModesAreChosenOnce
<1>1. CASE Close
  <2>1. pc = "close" /\ pc' = "done" /\ UNCHANGED <<workloads, records>>
      BY <1>1 DEF Close, At, Go, unit
  <2>2. rc' = 0 => Ended
      BY <1>0, <1>1 DEF Close, At, Ended, Failing
  <2>3. Ended => Whole
      BY DEF Counted, BuildCounted, SweepCounted, LevelsCounted,
             FilteredCounted, ChurnCounted, Whole
  <2>4. Whole => Whole'
      BY <1>0, <2>1
         DEF Whole, Built, SweepDone, LevelsDone, FilteredDone, ChurnDone,
             ShouldCalibrate, LevelsMeasured
  <2>. QED  BY <2>1, <2>2, <2>3, <2>4 DEF DoneWhole, At
<1>2. CASE UNCHANGED vars
  <2>1. UNCHANGED <<pc, workloads, records, rc>>
      BY <1>2 DEF vars, unit
  <2>2. Whole => Whole'
      BY <1>0, <2>1
         DEF Whole, Built, SweepDone, LevelsDone, FilteredDone, ChurnDone,
             ShouldCalibrate, LevelsMeasured
  <2>. QED  BY <2>1, <2>2 DEF DoneWhole, At, Counted
<1>3. CASE ~ Close /\ ~ UNCHANGED vars
  <2>1. ~ At("done") => rc # 0
      BY <1>0 DEF Counted, DoneWhole
  <2>2. rc' # 0
    <3>. USE DEF At, Go
    <3>1. CASE RefuseArguments \/ Prepare \/ PrepareFails \/ Connect
            \/ Recreate \/ Load
        BY <2>1, <3>1
           DEF RefuseArguments, Prepare, PrepareFails, Connect, Recreate, Load
    <3>2. CASE CreateIndex \/ CountRows \/ RecordBuild \/ SetSession
            \/ CalibratePoint \/ EndSweep
        BY <2>1, <3>2
           DEF CreateIndex, CountRows, RecordBuild, SetSession, CalibratePoint,
               EndSweep
    <3>3. CASE SelectPoint \/ BeginConcurrency \/ CloseMeta \/ SkipLevel
            \/ WarmWindow \/ EndLevels
        BY <2>1, <3>3
           DEF SelectPoint, BeginConcurrency, CloseMeta, SkipLevel, WarmWindow,
               EndLevels
    <3>4. CASE BeginCapture \/ MeasureWindow \/ FinishCapture \/ ProfiledWindow
            \/ RecordLevel \/ BeginFiltered
        BY <2>1, <3>4
           DEF BeginCapture, MeasureWindow, FinishCapture, ProfiledWindow,
               RecordLevel, BeginFiltered
    <3>5. CASE SetMode \/ EndFiltered \/ WarmQuery \/ EndWarmup \/ MeasureQuery
            \/ EndPoint
        BY <2>1, <3>5
           DEF SetMode, EndFiltered, WarmQuery, EndWarmup, MeasureQuery,
               EndPoint
    <3>6. CASE RecordPoint \/ RunChurn \/ Raise
        BY <2>1, <3>6 DEF RecordPoint, RunChurn, Raise, InTry
    <3>. QED  BY <1>3, <3>1, <3>2, <3>3, <3>4, <3>5, <3>6 DEF Next
  <2>. QED  BY <2>2 DEF DoneWhole
<1>. QED  BY <1>1, <1>2, <1>3

-----------------------------------------------------------------------------
(* The invariant.                                                             *)

LEMMA UnitAtFirst == Init => UnitInv
<1>. SUFFICES ASSUME Init
              PROVE  UnitInv
    OBVIOUS
<1>1. Typed
    BY TypedAtFirst
<1>2. /\ At("parse") /\ workloads = {} /\ table \in {"absent", "indexed"}
      /\ open = {} /\ extra.status = None /\ records = << >> /\ ef = FixedEf
      /\ points = << >> /\ executed = 0 /\ failed = FALSE /\ rc = None
    BY DEF Init, At
<1>3. None \notin Int
    BY UnitAssumption
<1>4. \A phase : CountOf(records, phase) = 0
    BY <1>2, CountEmpty
<1>. USE DEF At, Starting, Sweeping, Measuring, InConcurrency, InFiltered,
             InPoint, InLevel, Ended
<1>5. Failing /\ OpenAt
    BY <1>2, <1>3 DEF Failing, OpenAt
<1>6. Asked /\ Answering /\ Clocked
    BY <1>2, <1>3 DEF Asked, Answering, Clocked
<1>7. Swept
    BY <1>2, EmptyList, GridIsAscending DEF Swept
<1>8. Declared
  <2>1. DOMAIN records = {}
      BY <1>2
  <2>. QED  BY <2>1 DEF Declared
<1>9. Counted
  <2>1. BuildCounted /\ SweepCounted
      BY <1>2, <1>4 DEF BuildCounted, SweepCounted
  <2>2. LevelsCounted /\ FilteredCounted
      BY <1>2, <1>4 DEF LevelsCounted, FilteredCounted
  <2>3. ChurnCounted /\ DoneWhole
      BY <1>2, <1>3, <1>4 DEF ChurnCounted, DoneWhole
  <2>. QED  BY <2>1, <2>2, <2>3 DEF Counted
<1>. QED  BY <1>1, <1>5, <1>6, <1>7, <1>8, <1>9 DEF UnitInv

LEMMA UnitForever == UnitInv /\ [Next]_vars => UnitInv'
<1>. SUFFICES ASSUME UnitInv, [Next]_vars
              PROVE  UnitInv'
    OBVIOUS
<1>0. Typed /\ Failing /\ OpenAt /\ Asked /\ Swept /\ Answering /\ Declared
      /\ Clocked /\ Counted
    BY DEF UnitInv
<1>1. Typed' /\ Failing' /\ OpenAt' /\ Asked' /\ Swept' /\ Answering'
      /\ Declared'
      /\ Clocked'
    BY <1>0, TypedForever, FailingForever, OpenForever, AskedForever,
       SweptForever, AnsweringForever, DeclaredForever, ClockedForever
<1>2. Counted'
    BY <1>0, BuildForever, SweepForever, LevelsForever, FilteredForever,
       ChurnForever, DoneForever
       DEF Counted
<1>. QED  BY <1>1, <1>2 DEF UnitInv

(* The invariant holds of every unit, wherever it raises.                     *)
THEOREM UnitIsInvariant == Spec => []UnitInv
<1>. QED  BY UnitAtFirst, UnitForever, PTL DEF Spec

-----------------------------------------------------------------------------
(* What follows.                                                              *)

(* Every variable keeps its type; so do the samples of a level, of which no   *)
(* more are kept than there are repeats.                                      *)
THEOREM TypeCorrect == Spec => []TypeOK
<1>1. UnitInv => TypeOK
    BY DEF UnitInv, Typed
<1>. QED  BY <1>1, UnitIsInvariant, PTL

(* However a unit ends, nothing of it is left open, and it ends well only     *)
(* with every record of every workload it was asked for (main, the finallys   *)
(* of concurrency.run).                                                       *)
THEOREM EndsWhole == Spec => []UnitEndsWhole
<1>1. UnitInv => UnitLeavesNothing
    BY DEF UnitInv, OpenAt, UnitLeavesNothing, At
<1>2. UnitInv => SuccessIsWhole
  <2>. SUFFICES ASSUME UnitInv, rc = 0
                PROVE  /\ ~ failed
                       /\ workloads = args.workloads \ engine.declines
                       /\ Whole
      BY DEF SuccessIsWhole, Whole, Built, SweepDone, LevelsDone, FilteredDone,
             ChurnDone, RecordsOf, CountOf
  <2>1. At("done") /\ Whole
      BY DEF UnitInv, Counted, DoneWhole
  <2>2. ~ failed
      BY <2>1 DEF UnitInv, Failing
  <2>. QED  BY <2>1, <2>2 DEF UnitInv, Asked
<1>. QED  BY <1>1, <1>2, UnitIsInvariant, PTL DEF UnitEndsWhole

(* The warm-up, which is on the clock of the point, leaves a filtered point a *)
(* measured query unless one query alone takes four fifths of the budget      *)
(* (_measure_point).                                                          *)
THEOREM LeavesAQuery == Spec => []BudgetLeavesAQuery
<1>1. UnitInv => BudgetLeavesAQuery
  <2>. SUFFICES ASSUME UnitInv, At("record"), executed = 0, Budget > 0
                PROVE  5 * slowest > 4 * Budget
      BY DEF BudgetLeavesAQuery
  <2>1. Budget \in Int /\ Planned \in Nat \ {0} /\ clock \in Nat
        /\ slowest \in Nat
      BY UnitAssumption DEF UnitInv, Typed
  <2>2. 5 * clock <= Budget + 5 * slowest
      BY DEF UnitInv, Clocked, InPoint, At
  <2>3. clock > Budget
      BY <2>1 DEF UnitInv, Clocked, BudgetIsSpent
  <2>. QED  BY ONLY <2>1, <2>2, <2>3
<1>. QED  BY <1>1, UnitIsInvariant, PTL

(* Every measurement is of the ef_search, the scan mode, the choice and the   *)
(* table that its record names, whatever workloads ran before it (main,       *)
(* Recorder).                                                                 *)
THEOREM MeasuredAsSaid == Spec => []MeasuredAsDeclared
<1>1. UnitInv => MeasuredAsDeclared
    BY DEF UnitInv, Declared, RecordedAsDeclared, MeasuredAsDeclared
<1>. QED  BY <1>1, UnitIsInvariant, PTL

(* Points that agree as far as two that confirm the target choose the same.   *)
LEMMA MorePointsChooseTheSame ==
    ASSUME NEW ps, IsList(ps), Confirmed(ps),
           NEW qs, IsList(qs), Len(qs) >= Len(ps),
           \A i \in 1 .. Len(ps) : qs[i] = ps[i]
    PROVE  Select(qs) = Select(ps)
<1>. DEFINE n == Len(ps)
            Alone(s) == {i \in DOMAIN s : Reached(s[i])}
            Backed(s) == {i \in Alone(s) : i + 1 \in Alone(s)}
<1>1. /\ n \in Nat /\ DOMAIN ps = 1 .. n
      /\ Len(qs) \in Nat /\ DOMAIN qs = 1 .. Len(qs) /\ n <= Len(qs)
    BY ListFacts
<1>2. n >= 2 /\ n \in Alone(ps) /\ n - 1 \in Alone(ps)
    BY <1>1 DEF Confirmed
<1>3. n - 1 \in Backed(ps) /\ Backed(ps) \subseteq Nat
      /\ Backed(qs) \subseteq Nat
    BY <1>1, <1>2
<1>4. \A i \in 1 .. n : i \in Alone(ps) <=> i \in Alone(qs)
    BY <1>1
<1>5. \A i \in 1 .. n - 1 : i \in Backed(ps) <=> i \in Backed(qs)
  <2>1. \A i \in 1 .. n - 1 : i \in 1 .. n /\ i + 1 \in 1 .. n
      BY <1>1
  <2>. HIDE DEF Alone
  <2>. QED  BY <1>4, <2>1
<1>6. \A i \in Backed(ps) : i \in 1 .. n - 1
    BY <1>1
<1>. DEFINE l == Least(Backed(ps))
            m == Least(Backed(qs))
<1>. HIDE DEF Alone
<1>7. n - 1 \in Backed(qs)
    BY <1>1, <1>2, <1>3, <1>5
<1>. HIDE DEF Backed
<1>8. l \in Backed(ps) /\ (\A i \in Backed(ps) : l <= i) /\ l \in 1 .. n - 1
    BY <1>3, <1>6, LeastIsLeast
<1>9. m \in Backed(qs) /\ (\A i \in Backed(qs) : m <= i) /\ m \in Nat
    BY <1>3, <1>7, LeastIsLeast
<1>. HIDE DEF l, m
<1>10. m <= l
    BY <1>5, <1>8, <1>9
<1>11. m \in 1 .. n - 1
  <2>1. m # 0
    <3>1. Backed(qs) \subseteq 1 .. Len(qs)
        BY <1>1 DEF Backed, Alone
    <3>. QED  BY <1>1, <1>9, <3>1
  <2>. QED  BY <1>1, <1>8, <1>9, <1>10, <2>1
<1>12. l = m
    BY <1>1, <1>5, <1>8, <1>9, <1>10, <1>11
<1>13. ChooseOf(ps) = IF ps[1].recall > TargetRecall + FloorMargin
                      THEN <<1, "floor_above_target">> ELSE <<l, "ok">>
    BY <1>3 DEF ChooseOf, Backed, Alone, l
<1>14. ChooseOf(qs) = IF qs[1].recall > TargetRecall + FloorMargin
                      THEN <<1, "floor_above_target">> ELSE <<m, "ok">>
    BY <1>7 DEF ChooseOf, Backed, Alone, m
<1>15. ChooseOf(qs) = ChooseOf(ps) /\ ChooseOf(ps)[1] \in 1 .. n - 1
  <2>1. qs[1] = ps[1] /\ 1 \in 1 .. n - 1
      BY <1>1, <1>2
  <2>. QED  BY <1>8, <1>12, <1>13, <1>14, <2>1
<1>. DEFINE c == ChooseOf(ps)[1]
<1>. HIDE DEF c
<1>16. c \in 1 .. n /\ c + 1 \in 1 .. n /\ c < n /\ c < Len(qs)
    BY <1>1, <1>15 DEF c
<1>17. qs[c] = ps[c] /\ qs[c + 1] = ps[c + 1]
    BY <1>16
<1>. QED  BY <1>15, <1>16, <1>17 DEF Select, c

(* Whatever the points that were not measured would have shown, the sweep     *)
(* that ended early has chosen what the whole one would (calibrate.run).      *)
THEOREM StopsSoundly == Spec => []EarlyStopIsSound
<1>1. UnitInv => EarlyStopIsSound
  <2>. SUFFICES ASSUME UnitInv, At("select"),
                       NEW rest \in [Len(points) + 1 .. Len(Grid) -> Recalls]
                PROVE  Select(points) = Select([i \in DOMAIN Grid |->
                         IF i <= Len(points) THEN points[i]
                         ELSE [ef |-> Grid[i], recall |-> rest[i]]])
      BY DEF EarlyStopIsSound
  <2>. DEFINE all == [i \in DOMAIN Grid |-> IF i <= Len(points) THEN points[i]
                                 ELSE [ef |-> Grid[i], recall |-> rest[i]]]
              g == Cardinality(EfGrid)
  <2>1. /\ IsList(points) /\ (Len(points) = Len(Grid) \/ Confirmed(points))
        /\ Len(points) <= Len(Grid)
      BY DEF UnitInv, Typed, Swept
  <2>2. g \in Nat /\ DOMAIN Grid = 1 .. g /\ Len(Grid) = g
      BY GridIsAscending
  <2>3. Len(points) \in Nat /\ DOMAIN points = 1 .. Len(points)
      BY <2>1, ListFacts
  <2>4. DOMAIN all = 1 .. g /\ \A i \in 1 .. Len(points) : all[i] = points[i]
      BY <2>1, <2>2, <2>3
  <2>5. all = [i \in 1 .. g |-> all[i]]
      BY <2>2
  <2>. HIDE DEF all, g
  <2>6. all \in [1 .. g -> Range(all)]
      BY <2>4, <2>5 DEF Range
  <2>7. all \in Seq(Range(all))
      BY <2>2, <2>6
  <2>8. IsList(all) /\ Len(all) = g
      BY <2>2, <2>4, <2>7, LenProperties DEF IsList
  <2>9. CASE Confirmed(points)
      BY <2>1, <2>2, <2>4, <2>8, <2>9, MorePointsChooseTheSame DEF all
  <2>10. CASE Len(points) = Len(Grid)
    <3>1. points = [i \in 1 .. g |-> points[i]]
        BY <2>1, <2>2, <2>3, <2>10 DEF IsList
    <3>2. \A i \in 1 .. g : all[i] = points[i]
        BY <2>2, <2>4, <2>10
    <3>3. all = points
        BY <2>5, <3>1, <3>2
    <3>. QED  BY <3>3 DEF all
  <2>. QED  BY <2>1, <2>9, <2>10
<1>. QED  BY <1>1, UnitIsInvariant, PTL
================================================================================
