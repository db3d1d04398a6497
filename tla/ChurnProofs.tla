---------------------------- MODULE ChurnProofs -----------------------------
(* What the churn workload keeps and what it scores, for any table, fractions,*)
(* writers and readers, with every fault.                                     *)
EXTENDS Churn, FiniteSetTheorems, SequenceTheorems, TLAPS

(* Where a step is: its rows are chosen, then they have their new ids.        *)
Chosen == pc \in {"readBase", "delete", "syncDelete", "readers"}
Numbered == pc \in {"warmup", "connect", "reinsert", "stop", "tally"}
Remade == pc \in {"syncInsert", "scoreBefore", "maintain", "scoreAfter"}
Over == pc \in {"ended", "aborted"}

(* The first id that no row of the map has.                                   *)
Base == IF Numbered THEN nextId - Len(victims) ELSE nextId

(* The map gives each row an id of its own, its first or one of those given   *)
(* since, and there is room for the ids of the rows not yet churned.          *)
MapInv ==
    /\ Base >= N + 1
    /\ \A o, p \in Rows : idMap[o] = idMap[p] => o = p
    /\ \A o \in Rows : idMap[o] = o \/ (idMap[o] > N /\ idMap[o] < Base)
    /\ ~Over => Cardinality(Live) + Base = 2 * N + 1

(* The victims of a step are as many rows, not churned before.                *)
VictimsInv ==
    /\ Len(victims) <= N
    /\ \A i, j \in DOMAIN victims : victims[i] = victims[j] => i = j
    /\ Chosen \/ Numbered => \A i \in DOMAIN victims : victims[i] \in Live
    /\ Chosen \/ Numbered \/ Remade => step <= Len(Cumulative)

(* The table is the whole corpus but between the delete and the tally of the  *)
(* re-insert, when it is the rows that are not victims and those victims that *)
(* have been written back, each under its new id.                             *)
WholeTable ==
    /\ \A o \in Rows : table[idMap[o]] = o
    /\ \A id \in Ids : table[id] # None => idMap[table[id]] = id
OthersKept ==
    /\ \A o \in Rows \ Victims : table[idMap[o]] = o
    /\ \A id \in Ids : table[id] \in Rows \ Victims => idMap[table[id]] = id
VictimsGone == \A id \in Ids : \A i \in DOMAIN victims : table[id] # victims[i]
VictimsUnderNew ==
    \A id \in Ids : \A i \in DOMAIN victims : table[id] = victims[i] => id = New(i)

Standing == \/ pc \in {"prepare", "syncBase", "scoreBase", "step", "readBase",
                       "delete"}
            \/ Remade
Deleted == pc \in {"syncDelete", "readers"}

TableInv ==
    /\ Standing => WholeTable
    /\ Deleted => OthersKept /\ VictimsGone
    /\ Numbered => OthersKept /\ VictimsUnderNew
    /\ VectorOnce

(* Writers are at work in the re-insert only, each at a slice of its own that *)
(* has been popped and not been written; nothing that is pending is written.  *)
WritersInv ==
    /\ taken <= Len(victims)
    /\ \A w \in Writers : IF writer[w] = "busy" THEN slice[w] \in 1 .. taken
                                                ELSE slice[w] = 0
    /\ \A v, w \in Writers : v # w /\ slice[v] = slice[w] => slice[v] = 0
    /\ pc # "reinsert" => taken = 0 /\ \A w \in Writers : writer[w] = "out"
    /\ pc \in {"warmup", "connect", "reinsert"} =>
          \A i \in DOMAIN victims : i > taken => table[New(i)] = None
    /\ \A w \in Writers : writer[w] = "busy" => table[New(slice[w])] = None

(* What is counted has been written, and by no writer that is still at it.    *)
Filled == {i \in DOMAIN victims :
              table[New(i)] # None /\ \A w \in Writers : slice[w] # i}
CountInv ==
    pc \in {"reinsert", "tally"} \/ (pc = "stop" /\ cause = "none")
        => written <= Cardinality(Filled)

(* The last record tells how far the step is.                                 *)
Last == records[Len(records)]
LastInv ==
    /\ pc \in {"prepare", "syncBase", "scoreBase"} => records = << >>
    /\ pc = "step" \/ Chosen \/ Numbered \/ Remade => Len(records) > 0
    /\ pc = "step" \/ Chosen \/ Numbered =>
          Last.kind \in {"baseline", "before", "after"}
    /\ pc \in {"syncInsert", "scoreBefore"} =>
          Last.kind \in {"baseline", "before", "after", "during"}
    /\ pc \in {"maintain", "scoreAfter"} =>
          Last.kind = "before" /\ Last.step = step
    /\ RecordsFollow

(* Readers query only while their pool is one the workload will look at again.*)
PoolInv ==
    /\ phase \in {"published", "raised"} => querying = {}
    /\ ~Numbered /\ pc \notin {"readBase", "aborted"} => querying = {}
    /\ pc = "tally" => querying = {}
    /\ Numbered /\ baseline # "window" => querying = {}
    /\ pc = "warmup" => baseline = "window"
    /\ pc = "aborted" /\ phase # "crashed" => querying = {}

(* Connections and the capture of the waits end with the re-insert.           *)
HeldInv ==
    /\ pc \notin {"connect", "reinsert", "stop"} => opened = {}
    /\ ~Numbered /\ pc # "aborted" => ~capture
    /\ pc = "tally" => ~capture

ChurnInv == /\ TypeOK /\ MapInv /\ VictimsInv /\ TableInv
            /\ WritersInv /\ CountInv

(* While no wait has given up, the changes the index is behind by are exactly *)
(* what it and the table differ in, and there is none where the workload has  *)
(* waited and not written since.                                              *)
BehindIsDifference ==
    /\ \A j \in DOMAIN behind :
          /\ behind[j].op = "add" <=> table[behind[j].id] # None
          /\ behind[j].op = "add" <=> behind[j].id \notin indexed
    /\ \A j, k \in DOMAIN behind : behind[j].id = behind[k].id => j = k
    /\ \A id \in Ids : (\A j \in DOMAIN behind : behind[j].id # id) =>
                          (id \in indexed <=> table[id] # None)
OnlyChanges(op) == \A j \in DOMAIN behind : behind[j].op = op
Caught == {"prepare", "syncBase", "scoreBase", "step", "readBase", "delete",
           "readers", "warmup", "connect", "scoreBefore", "maintain",
           "scoreAfter"}
IndexInv ==
    ~gaveUp /\ ~Over =>
        /\ BehindIsDifference
        /\ pc = "syncDelete" => OnlyChanges("drop")
        /\ pc \in {"reinsert", "stop", "tally", "syncInsert"} => OnlyChanges("add")
        /\ pc \in Caught => behind = << >>

-----------------------------------------------------------------------------
(* Sequences that name each row once.                                         *)
LEMMA OrderCovers ==
    ASSUME NEW S, IsFiniteSet(S), NEW s \in Orders(S)
    PROVE  /\ Cardinality(S) \in Nat
           /\ s \in Seq(S) /\ Len(s) = Cardinality(S)
           /\ \A i, j \in DOMAIN s : s[i] = s[j] => i = j
           /\ \A x \in S : \E i \in DOMAIN s : s[i] = x
PROOF
<1> DEFINE n == Cardinality(S)
<1>1. n \in Nat
  BY FS_CardinalityType
<1>2. s \in [1 .. n -> S] /\ \A i, j \in DOMAIN s : s[i] = s[j] => i = j
  BY DEF Orders
<1>3. s \in Seq(S) /\ Len(s) = n
  BY <1>1, <1>2
<1>4. s \in Injection(1 .. n, S)
  BY <1>2 DEF Injection, IsInjective
<1>5. Cardinality(1 .. n) = n
  BY <1>1, FS_Interval
<1> HIDE DEF n
<1>6. s \in Surjection(1 .. n, S)
  BY <1>4, <1>5, FS_Injection DEF n
<1>7. \A x \in S : \E i \in DOMAIN s : s[i] = x
  BY <1>2, <1>6 DEF Surjection
<1>8. QED
  BY <1>1, <1>2, <1>3, <1>7 DEF n

(* A finite set has an order.                                                 *)
LEMMA OrdersExist ==
    ASSUME NEW S, IsFiniteSet(S)
    PROVE  Orders(S) # {}
PROOF
<1>1. PICK f : f \in Bijection(1 .. Cardinality(S), S)
  BY FS_CardinalityType DEF ExistsBijection
<1>2. f \in Orders(S)
  BY <1>1 DEF Bijection, Injection, IsInjective, Orders
<1>3. QED
  BY <1>2

(* What a delete or an index commits, it commits in one of those orders.      *)
LEMMA CommitsAreOrders ==
    ASSUME NEW S, IsFiniteSet(S), NEW s \in Commits(S)
    PROVE  s \in Orders(S)
PROOF
  BY OrdersExist DEF Commits

(* Rows that a sequence names once each are as many as it is long.            *)
LEMMA CountOfDistinct ==
    ASSUME NEW v \in Seq(Rows), \A i, j \in DOMAIN v : v[i] = v[j] => i = j
    PROVE  /\ IsFiniteSet({v[i] : i \in DOMAIN v})
           /\ Cardinality({v[i] : i \in DOMAIN v}) = Len(v)
PROOF
<1> DEFINE S == {v[i] : i \in DOMAIN v}
<1>1. DOMAIN v = 1 .. Len(v) /\ Len(v) \in Nat
  OBVIOUS
<1>2. v \in [1 .. Len(v) -> S] /\ \A x \in S : \E i \in 1 .. Len(v) : v[i] = x
  BY <1>1
<1> HIDE DEF S
<1>3. v \in Bijection(1 .. Len(v), S)
  BY <1>1, <1>2 DEF Bijection, Injection, Surjection, IsInjective
<1>4. IsFiniteSet(1 .. Len(v)) /\ Cardinality(1 .. Len(v)) = Len(v)
  BY <1>1, FS_Interval
<1>5. IsFiniteSet(S) /\ Cardinality(S) = Len(v)
  BY <1>3, <1>4, FS_Bijection DEF ExistsBijection
<1>6. QED
  BY <1>5 DEF S

(* The rows are N.                                                            *)
LEMMA RowsFinite == IsFiniteSet(Rows) /\ Cardinality(Rows) = N
PROOF
  BY ChurnAssumption, FS_Interval DEF Rows

(* A choice among the live rows is a sequence of distinct ones.               *)
LEMMA ChoiceIs ==
    ASSUME NEW count, NEW v \in Choices(count)
    PROVE  /\ v \in Seq(Rows) /\ Len(v) <= N
           /\ \A i, j \in DOMAIN v : v[i] = v[j] => i = j
           /\ \A i \in DOMAIN v : v[i] \in Live
PROOF
<1>1. PICK S \in SUBSET Live : v \in Orders(S)
  BY DEF Choices
<1>2. S \in SUBSET Rows
  BY DEF Live
<1>3. IsFiniteSet(S) /\ Cardinality(S) <= N
  BY <1>2, RowsFinite, FS_Subset
<1>4. /\ v \in Seq(S) /\ Len(v) <= N
      /\ \A i, j \in DOMAIN v : v[i] = v[j] => i = j
  BY <1>1, <1>3, OrderCovers
<1>5. \A i \in DOMAIN v : v[i] \in S
  BY <1>4
<1>6. QED
  BY <1>2, <1>4, <1>5

-----------------------------------------------------------------------------
(* The steps in kinds. Aside of the workload's own course go the index and    *)
(* the readers; turns are its steps from place to place that write no row and *)
(* give none an id.                                                           *)
Aside == Absorb \/ PoolStarts \/ PoolStops \/ \E r \in Readers : PoolRuns(r)

Turn == \/ Prepare \/ SyncBase \/ ScoreBase \/ Finish \/ SkipStep
        \/ BaselineEnds \/ SyncDelete \/ ReadersStarted \/ StopReaders
        \/ Incomplete \/ SyncInsert \/ ScoreBefore \/ Maintain \/ ScoreAfter
        \/ EngineRaises \/ ConnectRaises \/ \E w \in Writers : Connect(w)

(* Every step is of one of these kinds.                                       *)
LEMMA StepKinds ==
    ASSUME [Next]_vars
    PROVE  \/ Turn \/ Aside \/ BeginStep \/ Delete \/ DeleteRaises
           \/ StartReaders \/ BeginReinsert \/ BudgetEnds \/ ReinsertEnds
           \/ Reinserted \/ UNCHANGED vars
           \/ \E w \in Writers : Leave(w) \/ Take(w) \/ InsertRow(w)
                                 \/ InsertRaises(w)
PROOF
  BY DEF Next, Main, Raises, Writer, Turn, Aside

corpus == <<table, idMap, victims, nextId>>
crew == <<taken, writer, slice, written>>

(* What goes on aside leaves the corpus, the writers and the books alone.     *)
LEMMA AsideMoves ==
    ASSUME Aside
    PROVE  /\ UNCHANGED <<pc, corpus, crew, step, records, churned>>
           /\ UNCHANGED <<opened, failed, late, reading, history>>
PROOF
  BY DEF Aside, Absorb, PoolStarts, PoolStops, PoolRuns, server, books,
         writing, corpus, crew, history, reading

(* Where a turn goes from where.                                              *)
BeforeSteps == {"prepare", "syncBase", "scoreBase", "step"}
TurnGoes ==
    \/ pc' \in {"ended", "aborted"}
    \/ pc \in BeforeSteps /\ pc' \in BeforeSteps
    \/ pc = "readBase" /\ pc' = "delete"
    \/ pc = "syncDelete" /\ pc' = "readers"
    \/ pc \in {"warmup", "connect"} /\ pc' = "connect"
    \/ pc = "connect" /\ pc' = "stop" /\ cause' = "engine"
    \/ pc = "stop" /\ pc' = "tally" /\ cause = "none"
    \/ Remade /\ (Remade' \/ pc' = "step")

(* A turn writes no row, wherever it goes.                                    *)
LEMMA TurnMoves ==
    ASSUME Turn
    PROVE  /\ UNCHANGED <<corpus, crew, churned, indexed, behind>>
           /\ pc # "reinsert" /\ ~Over
           /\ TurnGoes
           /\ step' = step \/ pc' = "step"
PROOF
<1> USE DEF server, books, writing, corpus, crew, history, Go, Abort, Wait,
            NextStep,
            Stop, TurnGoes, BeforeSteps, Remade, Over
<1>1. CASE Prepare \/ SyncBase \/ ScoreBase \/ Finish \/ SkipStep
  BY <1>1 DEF Prepare, SyncBase, ScoreBase, Finish, SkipStep
<1>2. CASE BaselineEnds \/ SyncDelete \/ ReadersStarted \/ StopReaders
  BY <1>2 DEF BaselineEnds, SyncDelete, ReadersStarted, StopReaders
<1>3. CASE Incomplete \/ SyncInsert \/ ScoreBefore \/ Maintain \/ ScoreAfter
  BY <1>3
     DEF Incomplete, SyncInsert, ScoreBefore, Maintain, ScoreAfter,
         AfterIncomplete
<1>4. CASE EngineRaises \/ ConnectRaises \/ \E w \in Writers : Connect(w)
  BY <1>4 DEF EngineRaises, ConnectRaises, Connect
<1>5. QED
  BY <1>1, <1>2, <1>3, <1>4 DEF Turn

(* Steps of the writers, in the re-insert.                                    *)
WriterStays == \/ BudgetEnds \/ \E w \in Writers : Leave(w)
(* A writer that leaves, or the end of the budget, writes no row either.      *)
LEMMA StaysMoves ==
    ASSUME WriterStays
    PROVE  /\ UNCHANGED <<pc, corpus, taken, slice, written, step, churned>>
           /\ UNCHANGED <<records, indexed, behind, pool, reading, history, opened>>
           /\ pc = "reinsert"
           /\ writer' = writer
                \/ \E w \in Writers : writer[w] = "free"
                                      /\ writer' = [writer EXCEPT ![w] = "out"]
PROOF
  BY DEF WriterStays, BudgetEnds, Leave, server, books, corpus

(* The map stays what it is while corpus and victims stay.                    *)
LEMMA MapKept ==
    ASSUME TypeOK, MapInv, UNCHANGED <<idMap, victims, nextId>>,
           Numbered' => Numbered, Numbered => Numbered' \/ Over',
           Over => Over'
    PROVE  MapInv'
PROOF
<1>1. Base' >= Base /\ (~Over' => Base' = Base)
  BY ChurnAssumption DEF Base, TypeOK
<1>2. Live' = Live
  BY DEF Live
<1>3. \A o \in Rows : idMap[o] \in Int
  BY DEF TypeOK, Ids
<1>4. Base \in Int /\ Base' \in Int /\ N \in Nat
  BY ChurnAssumption DEF Base, TypeOK
<1>5. QED
  BY <1>1, <1>2, <1>3, <1>4 DEF MapInv

(* The place of a victim is where it is.                                      *)
LEMMA PlaceIs ==
    ASSUME TypeOK, VictimsInv, NEW i \in DOMAIN victims
    PROVE  victims[i] \in Rows /\ Place(victims[i]) = i
PROOF
<1>1. \A j \in DOMAIN victims : victims[j] = victims[i] <=> j = i
  BY DEF VictimsInv
<1>2. Place(victims[i]) = i
  BY <1>1 DEF Place
<1>3. QED
  BY <1>2 DEF TypeOK

(* Every step keeps the map one to one and its ids within bounds.             *)
LEMMA MapStep ==
    TypeOK /\ MapInv /\ VictimsInv /\ [Next]_vars => MapInv'
PROOF
<1> SUFFICES ASSUME TypeOK, MapInv, VictimsInv, [Next]_vars PROVE MapInv'
  OBVIOUS
<1>1. CASE Turn
  BY <1>1, TurnMoves, MapKept
  DEF TurnGoes, BeforeSteps, corpus, Numbered, Over, Remade
<1>2. CASE Aside
  BY <1>2, AsideMoves, MapKept DEF corpus, Numbered, Over
<1>3. CASE WriterStays
  BY <1>3, StaysMoves, MapKept DEF corpus, Numbered, Over
<1>4. CASE BeginStep
  <2>1. ~Numbered /\ ~Numbered' /\ ~Over /\ Base' = Base
    BY <1>4 DEF BeginStep, Go, Numbered, Over, Base
  <2>2. Live' = Live /\ idMap' = idMap /\ nextId' = nextId
    BY <1>4 DEF BeginStep, Live
  <2>3. QED
    BY <2>1, <2>2 DEF MapInv
<1>5. CASE Delete \/ DeleteRaises
  BY <1>5, MapKept DEF Delete, DeleteRaises, Go, Abort, books, Numbered, Over
<1>6. CASE StartReaders
  <2>1. /\ ~Numbered /\ Numbered' /\ ~Over /\ ~Over'
        /\ nextId' = nextId + Len(victims) /\ victims' = victims
        /\ idMap' = idMap
    BY <1>6 DEF StartReaders, Go, Numbered, Over, Fresh
  <2>2. Base' = Base /\ Live' = Live
    BY <2>1 DEF Base, Live, TypeOK
  <2>3. QED
    BY <2>1, <2>2 DEF MapInv
<1>7. CASE BeginReinsert \/ ReinsertEnds
  BY <1>7, MapKept DEF BeginReinsert, ReinsertEnds, Go, books, Numbered, Over
<1>8. CASE Reinserted
  <2>1. /\ pc = "tally" /\ pc' = "syncInsert" /\ idMap' = Remapped
        /\ victims' = victims /\ nextId' = nextId
    BY <1>8 DEF Reinserted, Go
  <2>2. /\ Numbered /\ ~Numbered' /\ ~Over /\ ~Over'
        /\ Base = nextId - Len(victims) /\ Base' = nextId
    BY <2>1 DEF Numbered, Over, Base
  <2>3. /\ Len(victims) \in Nat /\ DOMAIN victims = 1 .. Len(victims)
        /\ nextId \in Int /\ N \in Nat
    BY ChurnAssumption DEF TypeOK
  <2>4. \A o \in Rows : o \notin Victims => idMap'[o] = idMap[o]
    BY <2>1 DEF Remapped
  <2>5. \A i \in DOMAIN victims : victims[i] \in Rows /\ Place(victims[i]) = i
    BY PlaceIs
  <2>6. \A i \in DOMAIN victims : idMap'[victims[i]] = New(i)
    BY <2>1, <2>5 DEF Remapped, Victims
  <2>7. \A i \in DOMAIN victims : New(i) >= Base /\ New(i) < nextId /\ New(i) > N
    BY <2>2, <2>3 DEF New, MapInv
  <2>8. \A o \in Rows : o \in Victims => \E i \in DOMAIN victims : o = victims[i]
    BY DEF Victims
  <2>9. \A o \in Rows : idMap[o] \in Int /\ (idMap[o] = o \/ (idMap[o] > N /\ idMap[o] < Base))
    BY DEF MapInv, TypeOK, Ids
  <2>10. \A o, p \in Rows : idMap'[o] = idMap'[p] => o = p
    <3> SUFFICES ASSUME NEW o \in Rows, NEW p \in Rows, idMap'[o] = idMap'[p]
                 PROVE  o = p
      OBVIOUS
    <3>0. o <= N /\ p <= N /\ o \in Int /\ p \in Int
      BY <2>3 DEF Rows
    <3>1. CASE o \notin Victims /\ p \notin Victims
      BY <3>1, <2>4 DEF MapInv
    <3>2. CASE o \in Victims /\ p \in Victims
      <4>1. PICK i \in DOMAIN victims, j \in DOMAIN victims :
               o = victims[i] /\ p = victims[j]
        BY <3>2, <2>8
      <4>2. New(i) = New(j)
        BY <4>1, <2>6
      <4>3. i = j
        BY <4>2, <2>3 DEF New
      <4>4. QED
        BY <4>1, <4>3
    <3>3. CASE o \in Victims /\ p \notin Victims
      <4>1. PICK i \in DOMAIN victims : o = victims[i]
        BY <3>3, <2>8
      <4>2. New(i) = idMap[p]
        BY <4>1, <2>6, <2>4, <3>3
      <4>3. QED
        BY <4>2, <2>7, <2>9, <3>0, <2>2, <2>3
    <3>4. CASE p \in Victims /\ o \notin Victims
      <4>1. PICK i \in DOMAIN victims : p = victims[i]
        BY <3>4, <2>8
      <4>2. New(i) = idMap[o]
        BY <4>1, <2>6, <2>4, <3>4
      <4>3. QED
        BY <4>2, <2>7, <2>9, <3>0, <2>2, <2>3
    <3>5. QED
      BY <3>1, <3>2, <3>3, <3>4
  <2>11. \A o \in Rows : idMap'[o] = o \/ (idMap'[o] > N /\ idMap'[o] < Base')
    <3> SUFFICES ASSUME NEW o \in Rows
                 PROVE  idMap'[o] = o \/ (idMap'[o] > N /\ idMap'[o] < Base')
      OBVIOUS
    <3>1. CASE o \notin Victims
      BY <3>1, <2>2, <2>3, <2>4, <2>9
    <3>2. CASE o \in Victims
      BY <3>2, <2>2, <2>6, <2>7, <2>8
    <3>3. QED
      BY <3>1, <3>2
  <2>12. Live' = Live \ Victims
    <3>1. \A o \in Rows : o \in Victims => idMap'[o] # o
      <4> SUFFICES ASSUME NEW o \in Rows, o \in Victims PROVE idMap'[o] # o
        OBVIOUS
      <4>1. PICK i \in DOMAIN victims : o = victims[i]
        BY <2>8
      <4>2. QED
        BY <4>1, <2>6, <2>7, <2>3 DEF Rows, New
    <3>2. QED
      BY <3>1, <2>4 DEF Live
  <2>13. Cardinality(Live') = Cardinality(Live) - Len(victims)
    <3>1. Victims \subseteq Live
      BY <2>2 DEF VictimsInv, Victims
    <3>2. IsFiniteSet(Live)
      BY RowsFinite, FS_Subset DEF Live
    <3>3. Cardinality(Victims) = Len(victims)
      BY CountOfDistinct DEF Victims, VictimsInv, TypeOK
    <3>4. Live \cap Victims = Victims
      BY <3>1
    <3>5. Cardinality(Live \ Victims) = Cardinality(Live) - Cardinality(Live \cap Victims)
      BY <3>2, FS_Difference
    <3>6. QED
      BY <2>12, <3>3, <3>4, <3>5
  <2>14. Cardinality(Live) \in Nat
    BY RowsFinite, FS_Subset, FS_CardinalityType DEF Live
  <2>15. Base' >= N + 1 /\ Cardinality(Live') + Base' = 2 * N + 1
    BY <2>2, <2>3, <2>13, <2>14 DEF MapInv
  <2>16. QED
    BY <2>10, <2>11, <2>15 DEF MapInv
<1>9. ASSUME NEW w \in Writers, Take(w) \/ InsertRow(w) \/ InsertRaises(w)
      PROVE  MapInv'
  BY <1>9, MapKept DEF Take, InsertRow, InsertRaises, books, Numbered, Over
<1>10. CASE UNCHANGED vars
  BY <1>10, MapKept DEF vars, books, Numbered, Over
<1>11. QED
  BY <1>1, <1>2, <1>3, <1>4, <1>5, <1>6, <1>7, <1>8, <1>9, <1>10, StepKinds
  DEF WriterStays

(* Victims stay live and distinct while they stay.                            *)
LEMMA VictimsKept ==
    ASSUME VictimsInv, UNCHANGED <<idMap, victims>>,
           Chosen' \/ Numbered' => Chosen \/ Numbered,
           Chosen' \/ Numbered' \/ Remade' =>
               (Chosen \/ Numbered \/ Remade) /\ step' = step
    PROVE  VictimsInv'
PROOF
<1>1. Live' = Live
  BY DEF Live
<1>2. QED
  BY <1>1 DEF VictimsInv

(* Every step keeps the victims of a step rows that were not churned before.  *)
LEMMA VictimsStep ==
    TypeOK /\ VictimsInv /\ [Next]_vars => VictimsInv'
PROOF
<1> SUFFICES ASSUME TypeOK, VictimsInv, [Next]_vars PROVE VictimsInv'
  OBVIOUS
<1> USE DEF Chosen, Numbered, Remade
<1>1. CASE Turn
  <2>1. UNCHANGED <<idMap, victims>> /\ TurnGoes /\ (step' = step \/ pc' = "step")
    BY <1>1, TurnMoves DEF corpus
  <2>2. QED
    BY <2>1, VictimsKept DEF TurnGoes, BeforeSteps
<1>2. CASE Aside
  BY <1>2, AsideMoves, VictimsKept DEF corpus
<1>3. CASE WriterStays
  BY <1>3, StaysMoves, VictimsKept DEF corpus
<1>4. CASE BeginStep
  <2>1. /\ victims' \in Choices(Cumulative[step] - churned)
        /\ step' = step /\ step <= Len(Cumulative) /\ idMap' = idMap
    BY <1>4 DEF BeginStep
  <2>2. Live' = Live
    BY <2>1 DEF Live
  <2>3. QED
    BY <2>1, <2>2, ChoiceIs DEF VictimsInv
<1>5. CASE Delete \/ DeleteRaises
  BY <1>5, VictimsKept DEF Delete, DeleteRaises, Go, Abort, books
<1>6. CASE StartReaders
  BY <1>6, VictimsKept DEF StartReaders, Go
<1>7. CASE BeginReinsert \/ ReinsertEnds
  BY <1>7, VictimsKept DEF BeginReinsert, ReinsertEnds, Go, books
<1>8. CASE Reinserted
  BY <1>8 DEF Reinserted, Go, VictimsInv
<1>9. ASSUME NEW w \in Writers, Take(w) \/ InsertRow(w) \/ InsertRaises(w)
      PROVE  VictimsInv'
  BY <1>9, VictimsKept DEF Take, InsertRow, InsertRaises, books
<1>10. CASE UNCHANGED vars
  BY <1>10, VictimsKept DEF vars, books
<1>11. QED
  BY <1>1, <1>2, <1>3, <1>4, <1>5, <1>6, <1>7, <1>8, <1>9, <1>10, StepKinds
  DEF WriterStays

(* What the types say of the books and of the writers.                        *)
LEMMA Sizes ==
    ASSUME TypeOK
    PROVE  /\ N \in Nat /\ nextId \in Int
           /\ Len(victims) \in Nat /\ DOMAIN victims = 1 .. Len(victims)
           /\ \A i \in DOMAIN victims : victims[i] \in Rows /\ victims[i] # None
           /\ taken \in Nat /\ written \in Nat
           /\ slice \in [Writers -> Nat]
           /\ table \in [Ids -> Rows \cup {None}]
PROOF
<1>1. \A i \in DOMAIN victims : victims[i] \in Rows
  BY DEF TypeOK
<1>2. \A o \in Rows : o # None
  BY DEF Rows, None
<1>3. N \in Nat
  BY ChurnAssumption
<1>4. slice \in [Writers -> Nat]
  BY <1>3 DEF TypeOK
<1>5. QED
  BY <1>1, <1>2, <1>3, <1>4 DEF TypeOK

(* The ids of a step are new ones, and there is room for them.                *)
LEMMA VictimsFit ==
    ASSUME TypeOK, VictimsInv, Chosen \/ Numbered
    PROVE  Len(victims) <= Cardinality(Live)
PROOF
<1>1. Victims \subseteq Live
  BY DEF VictimsInv, Victims
<1>2. IsFiniteSet(Live)
  BY RowsFinite, FS_Subset DEF Live
<1>3. Cardinality(Victims) = Len(victims)
  BY CountOfDistinct DEF Victims, VictimsInv, TypeOK
<1>4. Cardinality(Victims) <= Cardinality(Live)
  BY <1>1, <1>2, FS_Subset
<1>5. QED
  BY <1>3, <1>4

(* The rows not yet churned can be counted.                                   *)
LEMMA LiveCount == Cardinality(Live) \in Nat
PROOF
  BY RowsFinite, FS_Subset, FS_CardinalityType DEF Live

(* The id a victim is to get is within bounds, above every id in use, and     *)
(* its own.                                                                   *)
LEMMA NewIsFresh ==
    ASSUME TypeOK, MapInv, VictimsInv, Numbered, NEW i \in DOMAIN victims
    PROVE  /\ New(i) \in Ids /\ New(i) > N /\ New(i) >= Base
           /\ \A o \in Rows : idMap[o] # New(i)
           /\ \A j \in DOMAIN victims : New(j) = New(i) => j = i
PROOF
<1>1. /\ Len(victims) \in Nat /\ DOMAIN victims = 1 .. Len(victims)
      /\ nextId \in Int /\ N \in Nat /\ i \in 1 .. Len(victims)
  BY ChurnAssumption DEF TypeOK
<1>2. Len(victims) <= Cardinality(Live)
  BY VictimsFit
<1>3. /\ Base = nextId - Len(victims) /\ Base >= N + 1
      /\ Cardinality(Live) + Base = 2 * N + 1
  BY DEF Base, MapInv, Numbered, Over
<1>4. New(i) \in Ids /\ New(i) > N /\ New(i) >= Base
  BY <1>1, <1>2, <1>3, LiveCount DEF New, Ids
<1>5. \A o \in Rows : idMap[o] # New(i)
  <2> SUFFICES ASSUME NEW o \in Rows PROVE idMap[o] # New(i)
    OBVIOUS
  <2>1. idMap[o] = o \/ (idMap[o] > N /\ idMap[o] < Base)
    BY DEF MapInv
  <2>2. idMap[o] \in Int /\ o <= N /\ o \in Int
    BY <1>1 DEF TypeOK, Rows, Ids
  <2>3. New(i) \in Int /\ Base \in Int
    BY <1>1, <1>3 DEF New
  <2>4. QED
    BY <1>1, <1>4, <2>1, <2>2, <2>3
<1>6. \A j \in DOMAIN victims : New(j) = New(i) => j = i
  BY <1>1 DEF New
<1>7. QED
  BY <1>4, <1>5, <1>6

(* No vector is twice in a table of either shape.                             *)
LEMMA WholeIsOnce ==
    ASSUME WholeTable
    PROVE  VectorOnce
PROOF
  BY DEF WholeTable, VectorOnce

(* Nor in one that lacks some of the victims.                                 *)
LEMMA PartIsOnce == TypeOK /\ OthersKept /\ VictimsUnderNew => VectorOnce
PROOF
<1> SUFFICES ASSUME TypeOK, OthersKept, VictimsUnderNew,
                    NEW a \in Ids, NEW b \in Ids, a # b, table[a] # None,
                    table[a] = table[b]
             PROVE  FALSE
  BY DEF VectorOnce
<1>1. table[a] \in Rows
  BY DEF TypeOK
<1>2. CASE table[a] \in Victims
  <2>1. PICK i \in DOMAIN victims : table[a] = victims[i]
    BY <1>2 DEF Victims
  <2>2. QED
    BY <2>1 DEF VictimsUnderNew
<1>3. CASE table[a] \notin Victims
  BY <1>1, <1>3 DEF OthersKept
<1>4. QED
  BY <1>2, <1>3

(* The same after a step.                                                     *)
LEMMA PartIsOnceNext == (TypeOK /\ OthersKept /\ VictimsUnderNew => VectorOnce)'
PROOF
  BY PartIsOnce, PTL

(* The table stays what it is while corpus and place stay.                    *)
LEMMA TableKept ==
    ASSUME TableInv, UNCHANGED corpus, Standing' => Standing, Deleted' => Deleted,
           Numbered' => Numbered
    PROVE  TableInv'
PROOF
<1>1. WholeTable => WholeTable'
  BY DEF WholeTable, corpus
<1>2. OthersKept => OthersKept'
  BY DEF OthersKept, corpus, Victims
<1>3. VictimsGone => VictimsGone'
  BY DEF VictimsGone, corpus
<1>4. VictimsUnderNew => VictimsUnderNew'
  BY DEF VictimsUnderNew, corpus, New
<1>5. VectorOnce => VectorOnce'
  BY DEF VectorOnce, corpus
<1>6. QED
  BY <1>1, <1>2, <1>3, <1>4, <1>5 DEF TableInv

(* One more victim is written back.                                           *)
LEMMA PutKeeps ==
    ASSUME TypeOK, TypeOK', MapInv, VictimsInv, TableInv, Numbered,
           NEW i \in DOMAIN victims,
           table' = [table EXCEPT ![New(i)] = victims[i]],
           UNCHANGED <<pc, idMap, victims, nextId>>
    PROVE  TableInv'
PROOF
<1>1. Numbered' /\ ~Standing' /\ ~Deleted'
  BY DEF Numbered, Standing, Remade, Deleted
<1>2. OthersKept /\ VictimsUnderNew
  BY DEF TableInv
<1>3. victims[i] \in Victims /\ Victims' = Victims
  BY DEF Victims
<1>4. /\ table'[New(i)] = victims[i]
      /\ \A id \in Ids \ {New(i)} : table'[id] = table[id]
  BY NewIsFresh DEF TypeOK
<1>5. OthersKept'
  <2>1. \A o \in Rows : idMap[o] \in Ids \ {New(i)}
    BY NewIsFresh DEF TypeOK
  <2>2. QED
    BY <1>2, <1>3, <1>4, <2>1 DEF OthersKept
<1>6. VictimsUnderNew'
  <2> SUFFICES ASSUME NEW id \in Ids, NEW j \in DOMAIN victims,
                      table'[id] = victims[j]
               PROVE  id = New(j)
    BY DEF VictimsUnderNew, New
  <2>1. CASE id = New(i)
    BY <2>1, <1>4 DEF VictimsInv
  <2>2. CASE id # New(i)
    BY <2>2, <1>2, <1>4 DEF VictimsUnderNew
  <2>3. QED
    BY <2>1, <2>2
<1>7. VectorOnce'
  BY <1>5, <1>6, PartIsOnceNext
<1>8. QED
  BY <1>1, <1>5, <1>6, <1>7 DEF TableInv

(* A re-insert that is complete has written every victim.                     *)
LEMMA FilledFinite ==
    ASSUME TypeOK
    PROVE  /\ IsFiniteSet(Filled) /\ Cardinality(Filled) \in Nat
           /\ Cardinality(Filled) <= Len(victims)
           /\ Cardinality(Filled) = Len(victims) => Filled = DOMAIN victims
PROOF
<1>1. DOMAIN victims = 1 .. Len(victims) /\ Len(victims) \in Nat
  BY DEF TypeOK
<1>2. \A n \in Nat : IsFiniteSet(1 .. n) /\ Cardinality(1 .. n) = n
  BY FS_Interval
<1>3. Filled \in SUBSET (1 .. Len(victims))
  BY <1>1 DEF Filled
<1>4. /\ IsFiniteSet(Filled)
      /\ Cardinality(Filled) <= Cardinality(1 .. Len(victims))
      /\ Cardinality(1 .. Len(victims)) = Cardinality(Filled) => 1 .. Len(victims) = Filled
  BY <1>1, <1>2, <1>3, FS_Subset
<1>5. QED
  BY <1>1, <1>2, <1>4, FS_CardinalityType

(* The same after a step.                                                     *)
LEMMA FilledFiniteNext ==
    (TypeOK => IsFiniteSet(Filled) /\ Cardinality(Filled) \in Nat)'
PROOF
<1>1. TypeOK => IsFiniteSet(Filled) /\ Cardinality(Filled) \in Nat
  BY FilledFinite
<1>2. QED
  BY <1>1, PTL

(* With a complete count, every victim is in the table under its new id.      *)
LEMMA CompleteIsAll ==
    ASSUME TypeOK, MapInv, VictimsInv, TableInv, CountInv, pc = "tally", Complete
    PROVE  \A i \in DOMAIN victims : table[New(i)] = victims[i]
PROOF
<1>1. Filled = DOMAIN victims
  <2>1. Len(victims) <= Cardinality(Filled)
    BY DEF CountInv, Complete
  <2>2. QED
    BY <2>1, FilledFinite DEF TypeOK
<1> SUFFICES ASSUME NEW i \in DOMAIN victims PROVE table[New(i)] = victims[i]
  OBVIOUS
<1>2. Numbered
  BY DEF Numbered
<1>3. OthersKept /\ VictimsUnderNew
  BY <1>2 DEF TableInv
<1>4. New(i) \in Ids /\ table[New(i)] \in Rows
  BY <1>1, <1>2, NewIsFresh DEF Filled, TypeOK
<1>5. table[New(i)] \in Victims
  BY <1>2, <1>3, <1>4, NewIsFresh DEF OthersKept
<1>6. PICK j \in DOMAIN victims : table[New(i)] = victims[j]
  BY <1>5 DEF Victims
<1>7. New(i) = New(j)
  BY <1>3, <1>4, <1>6 DEF VictimsUnderNew
<1>8. QED
  BY <1>2, <1>6, <1>7, NewIsFresh

-----------------------------------------------------------------------------
(* What a writer's insert does, whether it returns or raises.                 *)
LEMMA InsertMoves ==
    ASSUME TypeOK, WritersInv, NEW w \in Writers, InsertRow(w) \/ InsertRaises(w)
    PROVE  /\ pc = "reinsert" /\ pc' = pc
           /\ slice[w] \in DOMAIN victims
           /\ table' = [table EXCEPT ![New(slice[w])] = victims[slice[w]]]
                \/ table' = table
           /\ UNCHANGED <<idMap, victims, nextId, taken, cause>>
           /\ slice' = [slice EXCEPT ![w] = 0]
           /\ writer' \in {[writer EXCEPT ![w] = "free"], [writer EXCEPT ![w] = "out"]}
           /\ writer[w] = "busy"
PROOF
<1>1. slice[w] \in DOMAIN victims
  BY DEF InsertRow, InsertRaises, WritersInv, TypeOK
<1>2. QED
  BY <1>1 DEF InsertRow, InsertRaises, Put, books, server, history

(* Every step keeps the table whole, or whole but for the victims of the      *)
(* step.                                                                      *)
LEMMA TableStep ==
    TypeOK /\ TypeOK' /\ MapInv /\ VictimsInv /\ TableInv /\ WritersInv /\ CountInv
        /\ [Next]_vars => TableInv'
PROOF
<1> SUFFICES ASSUME TypeOK, TypeOK', MapInv, VictimsInv, TableInv, WritersInv,
                    CountInv, [Next]_vars
             PROVE  TableInv'
  OBVIOUS
<1> USE DEF Standing, Deleted, Numbered, Remade
<1>1. CASE Turn
  BY <1>1, TurnMoves, TableKept DEF TurnGoes, BeforeSteps
<1>2. CASE Aside
  BY <1>2, AsideMoves, TableKept
<1>3. CASE WriterStays
  BY <1>3, StaysMoves, TableKept
<1>4. CASE BeginStep
  <2>1. /\ pc = "step" /\ pc' \in {"delete", "readBase"}
        /\ UNCHANGED <<table, idMap>>
    BY <1>4 DEF BeginStep, Go, server
  <2>2. QED
    BY <2>1 DEF TableInv, WholeTable, VectorOnce
<1>5. CASE Delete
  <2>1. /\ pc = "delete" /\ pc' = "syncDelete" /\ table' = Without(Victims)
        /\ idMap' = idMap /\ victims' = victims
    BY <1>5 DEF Delete, Go, books
  <2>2. WholeTable
    BY <2>1 DEF TableInv
  <2>3. Victims' = Victims
    BY <2>1 DEF Victims
  <2>4. /\ \A id \in Ids : table'[id] # None =>
              /\ table'[id] = table[id] /\ idMap[table[id]] = id
              /\ table[id] \in Rows \ Victims
        /\ \A o \in Rows \ Victims : table'[idMap[o]] = o
    <3>1. \A id \in Ids : \A o \in Victims : idMap[o] = id => table'[id] = None
      BY <2>1 DEF Without
    <3>2. \A id \in Ids : table'[id] # None =>
              /\ table'[id] = table[id] /\ \A o \in Victims : idMap[o] # id
      BY <2>1 DEF Without
    <3>3. \A o \in Rows \ Victims : \A v \in Victims : idMap[v] # idMap[o]
      <4>1. \A i \in DOMAIN victims : victims[i] \in Rows
        BY PlaceIs
      <4>2. Victims \subseteq Rows
        BY <4>1 DEF Victims
      <4>3. QED
        BY <4>2 DEF MapInv
    <3>4. \A o \in Rows \ Victims :
              idMap[o] \in Ids /\ table'[idMap[o]] = table[idMap[o]]
      BY <2>1, <3>3 DEF Without, TypeOK
    <3>5. \A id \in Ids : table[id] \in Rows \cup {None}
      BY DEF TypeOK
    <3>6. QED
      BY <2>2, <3>2, <3>4, <3>5 DEF WholeTable
  <2>5. OthersKept' /\ VictimsGone'
    <3>0. \A i \in DOMAIN victims : victims[i] \in Rows
      BY PlaceIs
    <3>1. \A i \in DOMAIN victims : victims[i] \in Victims /\ victims[i] # None
      BY <3>0 DEF Victims, Rows, None
    <3>2. QED
      BY <2>1, <2>3, <2>4, <3>1 DEF OthersKept, VictimsGone, None, Rows
  <2>6. VectorOnce'
    BY <2>4 DEF VectorOnce
  <2>7. QED
    BY <2>1, <2>5, <2>6 DEF TableInv
<1>6. CASE DeleteRaises
  <2>1. PICK some \in SUBSET Victims : table' = Without(some)
    BY <1>6 DEF DeleteRaises
  <2>2. \A id \in Ids : table'[id] # None => table'[id] = table[id]
    BY <2>1 DEF Without
  <2>3. VectorOnce'
    BY <2>2 DEF TableInv, VectorOnce
  <2>4. pc' = "aborted"
    BY <1>6 DEF DeleteRaises, Abort
  <2>5. QED
    BY <2>3, <2>4 DEF TableInv
<1>7. CASE StartReaders
  <2>1. /\ pc = "readers" /\ pc' \in {"warmup", "connect"}
        /\ UNCHANGED <<table, idMap, victims>>
    BY <1>7 DEF StartReaders, Go, server
  <2>2. OthersKept /\ VictimsGone /\ VectorOnce
    BY <2>1 DEF TableInv
  <2>3. OthersKept' /\ VictimsUnderNew' /\ VectorOnce'
    BY <2>1, <2>2
       DEF OthersKept, VictimsGone, VictimsUnderNew, VectorOnce, Victims
  <2>4. QED
    BY <2>1, <2>3 DEF TableInv
<1>8. CASE BeginReinsert \/ ReinsertEnds
  BY <1>8, TableKept DEF BeginReinsert, ReinsertEnds, Go, books, server, corpus
<1>9. CASE Reinserted
  <2>1. /\ pc = "tally" /\ pc' = "syncInsert" /\ idMap' = Remapped
        /\ table' = table /\ Complete
    BY <1>9 DEF Reinserted, Go, server
  <2>2. \A i \in DOMAIN victims : table[New(i)] = victims[i]
    BY <2>1, CompleteIsAll
  <2>3. OthersKept /\ VictimsUnderNew /\ VectorOnce
    BY <2>1 DEF TableInv
  <2>4. \A i \in DOMAIN victims : victims[i] \in Rows /\ Place(victims[i]) = i
    BY PlaceIs
  <2>5. \A i \in DOMAIN victims : idMap'[victims[i]] = New(i)
    BY <2>1, <2>4 DEF Remapped, Victims
  <2>6. \A o \in Rows \ Victims : idMap'[o] = idMap[o]
    BY <2>1 DEF Remapped
  <2>7. \A o \in Rows : o \in Victims => \E i \in DOMAIN victims : o = victims[i]
    BY DEF Victims
  <2>8. \A o \in Rows : table[idMap'[o]] = o
    <3> SUFFICES ASSUME NEW o \in Rows PROVE table[idMap'[o]] = o
      OBVIOUS
    <3>1. CASE o \in Victims
      BY <3>1, <2>2, <2>5, <2>7
    <3>2. CASE o \notin Victims
      BY <3>2, <2>3, <2>6 DEF OthersKept
    <3>3. QED
      BY <3>1, <3>2
  <2>9. \A id \in Ids : table[id] # None => idMap'[table[id]] = id
    <3> SUFFICES ASSUME NEW id \in Ids, table[id] # None
                 PROVE  idMap'[table[id]] = id
      OBVIOUS
    <3>1. table[id] \in Rows
      BY DEF TypeOK
    <3>2. CASE table[id] \in Victims
      <4>1. PICK i \in DOMAIN victims : table[id] = victims[i]
        BY <3>1, <3>2, <2>7
      <4>2. QED
        BY <4>1, <2>3, <2>5 DEF VictimsUnderNew
    <3>3. CASE table[id] \notin Victims
      BY <3>1, <3>3, <2>3, <2>6 DEF OthersKept
    <3>4. QED
      BY <3>2, <3>3
  <2>10. WholeTable' /\ VectorOnce'
    BY <2>1, <2>3, <2>8, <2>9 DEF WholeTable, VectorOnce
  <2>11. QED
    BY <2>1, <2>10 DEF TableInv
<1>10. ASSUME NEW w \in Writers, Take(w) PROVE TableInv'
  BY <1>10, TableKept DEF Take, books, server, corpus
<1>11. ASSUME NEW w \in Writers, InsertRow(w) \/ InsertRaises(w) PROVE TableInv'
  <2>1. PICK i \in DOMAIN victims : i = slice[w]
    BY <1>11, InsertMoves
  <2>2. /\ pc' = pc /\ UNCHANGED <<idMap, victims, nextId>> /\ Numbered
        /\ table' = [table EXCEPT ![New(i)] = victims[i]] \/ table' = table
    BY <1>11, <2>1, InsertMoves
  <2>3. CASE table' = table
    BY <2>2, <2>3, TableKept DEF corpus
  <2>4. CASE table' = [table EXCEPT ![New(i)] = victims[i]]
    BY <2>2, <2>4, PutKeeps
  <2>5. QED
    BY <2>2, <2>3, <2>4
<1>12. CASE UNCHANGED vars
  BY <1>12, TableKept DEF vars, books, server, corpus
<1>13. QED
  BY <1>1, <1>2, <1>3, <1>4, <1>5, <1>6, <1>7, <1>8, <1>9, <1>10, <1>11, <1>12,
     StepKinds
  DEF WriterStays

(* The writers stay right while their slices stay.                            *)
LEMMA WritersKept ==
    ASSUME WritersInv, UNCHANGED <<corpus, crew>>, pc' = "reinsert" <=> pc = "reinsert",
           pc' \in {"warmup", "connect"} => pc \in {"warmup", "connect"}
    PROVE  WritersInv'
PROOF
<1>1. \A i \in DOMAIN victims : New(i)' = New(i)
  BY DEF corpus, New
<1>2. \A w \in Writers : New(slice[w])' = New(slice[w])
  BY DEF corpus, crew, New
<1>3. QED
  BY <1>1, <1>2 DEF WritersInv, corpus, crew

(* Every step keeps the slices apart and unwritten until they are written.    *)
LEMMA WritersStep ==
    TypeOK /\ MapInv /\ VictimsInv /\ TableInv /\ WritersInv /\ [Next]_vars
        => WritersInv'
PROOF
<1> SUFFICES ASSUME TypeOK, MapInv, VictimsInv, TableInv, WritersInv, [Next]_vars
             PROVE  WritersInv'
  OBVIOUS
<1>1. CASE Turn
  BY <1>1, TurnMoves, WritersKept DEF TurnGoes, BeforeSteps, Remade
<1>2. CASE Aside
  BY <1>2, AsideMoves, WritersKept
<1>3. CASE WriterStays
  <2>1. /\ UNCHANGED <<pc, corpus, taken, slice>> /\ pc = "reinsert"
        /\ \A w \in Writers : writer'[w] = writer[w]
                              \/ (writer[w] = "free" /\ writer'[w] = "out")
    BY <1>3, StaysMoves DEF TypeOK
  <2>2. \A i \in DOMAIN victims : New(i)' = New(i)
    BY <2>1 DEF corpus, New
  <2>3. \A w \in Writers : New(slice[w])' = New(slice[w])
    BY <2>1 DEF corpus, New
  <2>4. QED
    BY <2>1, <2>2, <2>3 DEF WritersInv, corpus
<1>4. CASE BeginStep
  <2>1. /\ pc = "step" /\ pc' \in {"delete", "readBase"}
        /\ victims' \in Choices(Cumulative[step] - churned)
        /\ UNCHANGED crew
    BY <1>4 DEF BeginStep, Go, writing, crew
  <2>2. Len(victims') \in Nat
    BY <2>1, ChoiceIs
  <2>3. QED
    BY <2>1, <2>2 DEF WritersInv, crew
<1>5. CASE Delete \/ DeleteRaises
  <2>1. /\ pc = "delete" /\ pc' \in {"syncDelete", "aborted"}
        /\ UNCHANGED <<crew, victims>>
    BY <1>5 DEF Delete, DeleteRaises, Go, Abort, writing, crew, books
  <2>2. QED
    BY <2>1 DEF WritersInv, crew
<1>6. CASE StartReaders
  <2>1. /\ pc = "readers" /\ pc' \in {"warmup", "connect"}
        /\ UNCHANGED <<crew, victims, table>> /\ nextId' = nextId + Len(victims)
    BY <1>6 DEF StartReaders, Go, writing, crew, server, Fresh
  <2>2. /\ Base = nextId /\ OthersKept /\ VictimsGone
    BY <2>1 DEF Base, Numbered, TableInv, Deleted
  <2>3. ASSUME NEW i \in DOMAIN victims PROVE table[New(i)'] = None
    <3>1. /\ Len(victims) \in Nat /\ DOMAIN victims = 1 .. Len(victims)
          /\ nextId \in Int /\ N \in Nat /\ i \in 1 .. Len(victims)
      BY ChurnAssumption DEF TypeOK
    <3>2. New(i)' = nextId + i - 1
      BY <2>1, <3>1 DEF New
    <3>3. Len(victims) <= Cardinality(Live)
      BY <2>1, VictimsFit DEF Chosen
    <3>4. New(i)' \in Ids /\ New(i)' >= nextId /\ New(i)' > N
      BY <2>1, <2>2, <3>1, <3>2, <3>3, LiveCount DEF MapInv, Over, Ids
    <3>5. \A o \in Rows : idMap[o] # New(i)'
      <4> SUFFICES ASSUME NEW o \in Rows PROVE idMap[o] # New(i)'
        OBVIOUS
      <4>1. idMap[o] = o \/ (idMap[o] > N /\ idMap[o] < nextId)
        BY <2>2 DEF MapInv
      <4>2. idMap[o] \in Int /\ o <= N /\ o \in Int
        BY <3>1 DEF TypeOK, Rows, Ids
      <4>3. QED
        BY <3>1, <3>2, <3>4, <4>1, <4>2
    <3>6. table[New(i)'] \in Rows \cup {None}
      BY <3>4 DEF TypeOK
    <3>7. table[New(i)'] \notin Victims
      BY <2>2, <3>4 DEF VictimsGone, Victims
    <3>8. QED
      BY <2>2, <3>4, <3>5, <3>6, <3>7 DEF OthersKept
  <2>4. QED
    BY <2>1, <2>3 DEF WritersInv, crew
<1>7. CASE BeginReinsert
  <2>1. /\ pc = "connect" /\ pc' = "reinsert" /\ UNCHANGED <<corpus, taken, slice>>
        /\ \A w \in Writers : writer'[w] = "free"
    BY <1>7 DEF BeginReinsert, Go, books, server, corpus
  <2>2. \A i \in DOMAIN victims : New(i)' = New(i)
    BY <2>1 DEF corpus, New
  <2>3. QED
    BY <2>1, <2>2 DEF WritersInv, corpus
<1>8. CASE ReinsertEnds
  <2>1. /\ pc = "reinsert" /\ pc' = "stop" /\ taken' = 0 /\ victims' = victims
        /\ \A w \in Writers : writer'[w] = "out" /\ slice'[w] = 0
    BY <1>8 DEF ReinsertEnds, Go, books
  <2>2. Len(victims) >= 0
    BY DEF TypeOK
  <2>3. QED
    BY <2>1, <2>2 DEF WritersInv
<1>9. CASE Reinserted
  <2>1. /\ pc = "tally" /\ pc' = "syncInsert" /\ UNCHANGED <<crew, victims>>
    BY <1>9 DEF Reinserted, Go, writing, crew
  <2>2. QED
    BY <2>1 DEF WritersInv, crew
<1>10. ASSUME NEW w \in Writers, Take(w) PROVE WritersInv'
  <2>1. /\ pc = "reinsert" /\ UNCHANGED <<pc, corpus>>
        /\ taken' = taken + 1 /\ taken # Len(victims)
        /\ slice' = [slice EXCEPT ![w] = taken + 1]
        /\ writer' = [writer EXCEPT ![w] = "busy"]
        /\ writer[w] = "free"
    BY <1>10 DEF Take, Quits, books, server, corpus
  <2>2. /\ taken \in Nat /\ taken + 1 \in DOMAIN victims
        /\ taken + 1 <= Len(victims)
    BY <2>1 DEF WritersInv, TypeOK
  <2>3. /\ slice'[w] = taken + 1 /\ writer'[w] = "busy"
        /\ \A v \in Writers \ {w} : slice'[v] = slice[v] /\ writer'[v] = writer[v]
    BY <2>1 DEF TypeOK
  <2>4. \A v \in Writers : slice[v] \in 0 .. taken
    BY <2>2 DEF WritersInv, TypeOK
  <2>5. \A i \in DOMAIN victims : New(i)' = New(i) /\ table'[New(i)] = table[New(i)]
    BY <2>1 DEF corpus, New
  <2>6. \A v \in Writers : /\ IF writer'[v] = "busy" THEN slice'[v] \in 1 .. taken'
                                                     ELSE slice'[v] = 0
    BY <2>1, <2>2, <2>3 DEF WritersInv
  <2>7. \A u, v \in Writers : u # v /\ slice'[u] = slice'[v] => slice'[u] = 0
    BY <2>2, <2>3, <2>4 DEF WritersInv
  <2>8. \A i \in DOMAIN victims : i > taken' => table'[New(i)'] = None
    <3>1. \A i \in DOMAIN victims : i \in Nat /\ (i > taken => table[New(i)] = None)
      BY <2>1 DEF WritersInv, TypeOK
    <3>2. QED
      BY <2>1, <2>2, <2>5, <3>1
  <2>9. ASSUME NEW v \in Writers, writer'[v] = "busy"
        PROVE  table'[New(slice[v])'] = None
    <3>1. CASE v = w
      <4>1. New(slice[v])' = New(taken + 1)
        BY <3>1, <2>1, <2>3 DEF New, corpus
      <4>2. table[New(taken + 1)] = None
        BY <2>1, <2>2 DEF WritersInv
      <4>3. QED
        BY <4>1, <4>2, <2>1 DEF corpus
    <3>2. CASE v # w
      <4>1. New(slice[v])' = New(slice[v])
        BY <3>2, <2>1, <2>3 DEF New, corpus
      <4>2. QED
        BY <4>1, <3>2, <2>1, <2>3, <2>9 DEF WritersInv, corpus
    <3>3. QED
      BY <3>1, <3>2
  <2>10. taken' <= Len(victims')
    BY <2>1, <2>2 DEF corpus
  <2>11. QED
    BY <2>1, <2>6, <2>7, <2>8, <2>9, <2>10 DEF WritersInv, corpus
<1>11. ASSUME NEW w \in Writers, InsertRow(w) \/ InsertRaises(w) PROVE WritersInv'
  <2>1. PICK i \in DOMAIN victims : i = slice[w]
    BY <1>11, InsertMoves
  <2>2. /\ pc = "reinsert" /\ pc' = pc /\ UNCHANGED <<victims, nextId, taken>>
        /\ table' = [table EXCEPT ![New(i)] = victims[i]] \/ table' = table
        /\ writer[w] = "busy" /\ i <= taken
    BY <1>11, <2>1, InsertMoves DEF WritersInv, TypeOK
  <2>3. /\ slice'[w] = 0 /\ writer'[w] \in {"free", "out"}
        /\ \A v \in Writers \ {w} : slice'[v] = slice[v] /\ writer'[v] = writer[v]
    BY <1>11, InsertMoves DEF TypeOK
  <2>4. \A j \in DOMAIN victims : /\ New(j)' = New(j) /\ New(j) \in Ids
                                  /\ j # i => New(j) # New(i)
    BY <2>2, NewIsFresh DEF New, Numbered
  <2>5. \A j \in DOMAIN victims : j # i => table'[New(j)] = table[New(j)]
    BY <2>2, <2>4 DEF TypeOK
  <2>6. /\ \A v \in Writers : IF writer'[v] = "busy" THEN slice'[v] \in 1 .. taken'
                                                     ELSE slice'[v] = 0
        /\ \A u, v \in Writers : u # v /\ slice'[u] = slice'[v] => slice'[u] = 0
    BY <2>2, <2>3 DEF WritersInv
  <2>7. \A j \in DOMAIN victims : j > taken => table'[New(j)'] = None
    BY <2>2, <2>4, <2>5 DEF WritersInv, TypeOK
  <2>8. ASSUME NEW v \in Writers, writer'[v] = "busy"
        PROVE  table'[New(slice[v])'] = None
    <3>1. v # w /\ slice'[v] = slice[v] /\ writer[v] = "busy"
      BY <2>3, <2>8
    <3>2. PICK j \in DOMAIN victims : j = slice[v]
      BY <3>1 DEF WritersInv, TypeOK
    <3>3. j # i
      BY <3>1, <3>2, <2>1 DEF WritersInv, TypeOK
    <3>4. New(slice[v])' = New(j)
      BY <3>1, <3>2, <2>2 DEF New
    <3>5. table[New(j)] = None
      BY <3>1, <3>2 DEF WritersInv
    <3>6. QED
      BY <3>3, <3>4, <3>5, <2>5
  <2>9. QED
    BY <2>2, <2>6, <2>7, <2>8 DEF WritersInv
<1>12. CASE UNCHANGED vars
  BY <1>12, WritersKept DEF vars, books, server, writing, corpus, crew
<1>13. QED
  BY <1>1, <1>2, <1>3, <1>4, <1>5, <1>6, <1>7, <1>8, <1>9, <1>10, <1>11, <1>12,
     StepKinds
  DEF WriterStays

(* The count stays right while nothing is written.                            *)
LEMMA CountKept ==
    ASSUME CountInv, UNCHANGED <<corpus, slice, written>>,
           pc' \in {"reinsert", "tally"} \/ (pc' = "stop" /\ cause' = "none") =>
               pc \in {"reinsert", "tally"} \/ (pc = "stop" /\ cause = "none")
    PROVE  CountInv'
PROOF
<1>1. Filled' = Filled
  BY DEF Filled, corpus, New
<1>2. QED
  BY <1>1 DEF CountInv

(* A slice that is being written is not yet among those that are counted.     *)
LEMMA FilledRoom ==
    ASSUME TypeOK, NEW w \in Writers, slice[w] \in DOMAIN victims
    PROVE  /\ slice[w] \notin Filled
           /\ IsFiniteSet(Filled \cup {slice[w]})
           /\ Cardinality(Filled \cup {slice[w]}) = Cardinality(Filled) + 1
           /\ Cardinality(Filled) + 1 <= Len(victims)
PROOF
<1>1. slice[w] \notin Filled
  BY DEF Filled
<1>2. /\ IsFiniteSet(Filled \cup {slice[w]})
      /\ Cardinality(Filled \cup {slice[w]}) = Cardinality(Filled) + 1
  BY <1>1, FilledFinite, FS_AddElement
<1>3. Filled # DOMAIN victims
  BY <1>1
<1>4. Cardinality(Filled) # Len(victims)
  BY <1>3, FilledFinite
<1>5. Len(victims) \in Nat
  BY DEF TypeOK
<1>6. Cardinality(Filled) + 1 <= Len(victims)
  BY <1>4, <1>5, FilledFinite
<1>7. QED
  BY <1>1, <1>2, <1>6

(* Every step keeps the count at most what has been written.                  *)
LEMMA CountStep ==
    TypeOK /\ TypeOK' /\ MapInv /\ VictimsInv /\ WritersInv /\ CountInv /\ [Next]_vars
        => CountInv'
PROOF
<1> SUFFICES ASSUME TypeOK, TypeOK', MapInv, VictimsInv, WritersInv, CountInv,
                    [Next]_vars
             PROVE  CountInv'
  OBVIOUS
<1>1. CASE Turn
  <2>1. UNCHANGED <<corpus, slice, written>> /\ TurnGoes
    BY <1>1, TurnMoves DEF crew
  <2>2. QED
    BY <2>1, CountKept DEF TurnGoes, BeforeSteps, Remade
<1>2. CASE Aside
  BY <1>2, AsideMoves, CountKept DEF crew, history
<1>3. CASE WriterStays
  BY <1>3, StaysMoves, CountKept DEF history
<1>4. CASE BeginStep \/ Delete \/ DeleteRaises \/ StartReaders
  <2>1. pc' \in {"delete", "readBase", "syncDelete", "aborted", "warmup", "connect"}
    BY <1>4 DEF BeginStep, Delete, DeleteRaises, StartReaders, Go, Abort
  <2>2. QED
    BY <2>1 DEF CountInv
<1>5. CASE BeginReinsert
  <2>1. written' = 0
    BY <1>5 DEF BeginReinsert
  <2>2. Cardinality(Filled)' \in Nat
    BY FilledFiniteNext
  <2>3. QED
    BY <2>1, <2>2 DEF CountInv
<1>6. CASE ReinsertEnds
  <2>1. /\ pc = "reinsert" /\ pc' = "stop" /\ UNCHANGED <<corpus, written>>
        /\ \A w \in Writers : writer[w] = "out" /\ slice'[w] = 0
    BY <1>6 DEF ReinsertEnds, Go, books, server, corpus
  <2>2. \A w \in Writers : slice'[w] = slice[w]
    BY <2>1 DEF WritersInv
  <2>3. Filled' = Filled
    BY <2>1, <2>2 DEF Filled, corpus, New
  <2>4. QED
    BY <2>1, <2>3 DEF CountInv
<1>7. CASE Reinserted
  BY <1>7 DEF Reinserted, Go, CountInv
<1>8. ASSUME NEW w \in Writers, Take(w) PROVE CountInv'
  <2>1. /\ pc = "reinsert" /\ UNCHANGED <<pc, corpus, written>>
        /\ taken # Len(victims)
        /\ slice' = [slice EXCEPT ![w] = taken + 1]
        /\ writer[w] = "free"
    BY <1>8 DEF Take, Quits, books, server, corpus
  <2>2. /\ taken + 1 \in DOMAIN victims /\ taken + 1 > taken
    BY <2>1, Sizes DEF WritersInv
  <2>3. table[New(taken + 1)] = None
    BY <2>1, <2>2 DEF WritersInv
  <2>4. slice[w] = 0 /\ 0 \notin DOMAIN victims
    BY <2>1, Sizes DEF WritersInv
  <2>5. /\ slice'[w] = taken + 1
        /\ \A v \in Writers \ {w} : slice'[v] = slice[v]
    BY <2>1 DEF TypeOK
  <2>6. Filled \subseteq Filled' /\ Filled' \subseteq Filled
    <3>1. \A i \in DOMAIN victims :
             /\ New(i)' = New(i) /\ table'[New(i)] = table[New(i)]
      BY <2>1 DEF corpus, New
    <3>2. DOMAIN victims' = DOMAIN victims
      BY <2>1 DEF corpus
    <3>3. \A i \in DOMAIN victims : table[New(i)] # None =>
             ((\A v \in Writers : slice[v] # i) <=> (\A v \in Writers : slice'[v] # i))
      BY <2>3, <2>4, <2>5
    <3>4. QED
      BY <3>1, <3>2, <3>3 DEF Filled
  <2>7. Filled' = Filled
    BY <2>6
  <2>8. QED
    BY <2>1, <2>7 DEF CountInv
<1>9. ASSUME NEW w \in Writers, InsertRow(w) \/ InsertRaises(w) PROVE CountInv'
  <2>1. PICK i \in DOMAIN victims : i = slice[w]
    BY <1>9, InsertMoves
  <2>2. /\ pc = "reinsert" /\ pc' = pc /\ UNCHANGED <<victims, nextId>>
        /\ table' = [table EXCEPT ![New(i)] = victims[i]] \/ table' = table
    BY <1>9, <2>1, InsertMoves
  <2>3. /\ slice'[w] = 0
        /\ \A v \in Writers \ {w} : slice'[v] = slice[v]
    BY <1>9, InsertMoves DEF TypeOK
  <2>4. \A j \in DOMAIN victims : /\ New(j)' = New(j) /\ New(j) \in Ids
                                  /\ j # i => New(j) # New(i)
    BY <2>2, NewIsFresh DEF New, Numbered
  <2>5. /\ \A j \in DOMAIN victims : j # i => table'[New(j)] = table[New(j)]
        /\ victims[i] # None
        /\ table'[New(i)] \in {victims[i], table[New(i)]}
    BY <2>2, <2>4, Sizes
  <2>6. Filled \subseteq Filled'
    <3>1. \A j \in Filled : j # i /\ j # 0 /\ j \in DOMAIN victims
      BY <2>1, Sizes DEF Filled
    <3>2. \A j \in Filled : table'[New(j)] # None /\ \A v \in Writers : slice'[v] # j
      BY <3>1, <2>3, <2>5 DEF Filled
    <3>3. QED
      BY <3>1, <3>2, <2>2, <2>4 DEF Filled
  <2>7. IsFiniteSet(Filled')
    BY FilledFiniteNext
  <2>8. CASE InsertRaises(w)
    <3>1. written' = written
      BY <2>8 DEF InsertRaises, Counted
    <3>2. Cardinality(Filled) <= Cardinality(Filled')
      BY <2>6, <2>7, FS_Subset
    <3>3. written <= Cardinality(Filled) /\ Cardinality(Filled) \in Nat
          /\ Cardinality(Filled') \in Nat /\ written \in Nat
      BY <2>2, FilledFinite, FilledFiniteNext, Sizes DEF CountInv
    <3>4. QED
      BY <3>1, <3>2, <3>3 DEF CountInv
  <2>9. CASE InsertRow(w)
    <3>1. written' = written + 1 /\ table' = [table EXCEPT ![New(i)] = victims[i]]
      BY <2>1, <2>9 DEF InsertRow, Put
    <3>2. i \in Filled'
      <4>1. table'[New(i)] = victims[i]
        BY <3>1, <2>4 DEF TypeOK
      <4>2. \A v \in Writers : slice'[v] # i
        BY <2>1, <2>3, Sizes DEF WritersInv
      <4>3. QED
        BY <4>1, <4>2, <2>2, <2>4, <2>5 DEF Filled
    <3>3. Cardinality(Filled \cup {i}) <= Cardinality(Filled')
      BY <3>2, <2>6, <2>7, FS_Subset
    <3>4. Cardinality(Filled \cup {i}) = Cardinality(Filled) + 1
      BY <2>1, FilledRoom
    <3>5. written <= Cardinality(Filled) /\ Cardinality(Filled) \in Nat
          /\ Cardinality(Filled') \in Nat /\ written \in Nat
      BY <2>2, FilledFinite, FilledFiniteNext, Sizes DEF CountInv
    <3>6. QED
      BY <3>1, <3>3, <3>4, <3>5 DEF CountInv
  <2>10. QED
    BY <1>9, <2>8, <2>9
<1>10. CASE UNCHANGED vars
  BY <1>10, CountKept DEF vars, books, server, writing, corpus, history
<1>11. QED
  BY <1>1, <1>2, <1>3, <1>4, <1>5, <1>6, <1>7, <1>8, <1>9, <1>10, StepKinds
  DEF WriterStays

-----------------------------------------------------------------------------
(* What a delete hands to the index: each victim once, under its old id.      *)
LEMMA DroppedType ==
    ASSUME TypeOK, NEW S \in SUBSET Rows, NEW s \in Commits(S)
    PROVE  /\ Dropped(s) \in Seq(Changes)
           /\ DOMAIN s = 1 .. Len(s) /\ Len(s) \in Nat
           /\ Len(Dropped(s)) = Len(s)
           /\ \A i \in DOMAIN s : /\ s[i] \in S
                                  /\ Dropped(s)[i] = [id |-> idMap[s[i]], op |-> "drop"]
           /\ \A x \in S : \E i \in DOMAIN s : s[i] = x
           /\ \A i, j \in DOMAIN s : s[i] = s[j] => i = j
PROOF
<1>1. IsFiniteSet(S)
  BY RowsFinite, FS_Subset
<1>2. /\ s \in Seq(S)
      /\ \A i, j \in DOMAIN s : s[i] = s[j] => i = j
      /\ \A x \in S : \E i \in DOMAIN s : s[i] = x
  BY <1>1, CommitsAreOrders, OrderCovers
<1>3. DOMAIN s = 1 .. Len(s) /\ Len(s) \in Nat
  BY <1>2
<1>4. \A i \in 1 .. Len(s) : s[i] \in S /\ s[i] \in Rows
  BY <1>2
<1>5. \A i \in 1 .. Len(s) : [id |-> idMap[s[i]], op |-> "drop"] \in Changes
  BY <1>4 DEF TypeOK, Changes
<1>6. Dropped(s) \in [1 .. Len(s) -> Changes]
  BY <1>3, <1>5 DEF Dropped
<1>7. Dropped(s) \in Seq(Changes) /\ Len(Dropped(s)) = Len(s)
  BY <1>3, <1>6
<1>8. QED
  BY <1>2, <1>3, <1>4, <1>7 DEF Dropped

(* What the index is still behind by after it absorbed one change.            *)
LEMMA AbsorbedType ==
    ASSUME TypeOK, NEW i \in DOMAIN behind
    PROVE  /\ i \in 1 .. Len(behind) /\ Len(behind) \in Nat
           /\ behind[i] \in Changes
           /\ SubSeq(behind, 1, i - 1) \in Seq(Changes)
           /\ Len(SubSeq(behind, 1, i - 1)) = i - 1
           /\ SubSeq(behind, i + 1, Len(behind)) \in Seq(Changes)
           /\ Len(SubSeq(behind, i + 1, Len(behind))) = Len(behind) - i
           /\ \A j \in 1 .. i - 1 : SubSeq(behind, 1, i - 1)[j] = behind[j]
           /\ \A j \in 1 .. Len(behind) - i :
                 SubSeq(behind, i + 1, Len(behind))[j] = behind[i + j]
PROOF
<1>1. /\ DOMAIN behind = 1 .. Len(behind) /\ Len(behind) \in Nat
      /\ \A j \in 1 .. Len(behind) : behind[j] \in Changes
  BY DEF TypeOK
<1>2. i \in 1 .. Len(behind)
  BY <1>1
<1>3. \A j \in 1 .. i - 1 : behind[j] \in Changes
  BY <1>1, <1>2
<1>4. /\ SubSeq(behind, 1, i - 1) \in Seq(Changes)
      /\ Len(SubSeq(behind, 1, i - 1)) = IF 1 <= i - 1 THEN (i - 1) - 1 + 1 ELSE 0
      /\ \A j \in 1 .. (i - 1) - 1 + 1 : SubSeq(behind, 1, i - 1)[j] = behind[1 + j - 1]
  <2>1. 1 \in Int /\ i - 1 \in Int
    BY <1>2
  <2>2. QED
    BY <1>3, <2>1, SubSeqProperties
<1>5. \A j \in i + 1 .. Len(behind) : behind[j] \in Changes
  BY <1>1, <1>2
<1>6. /\ SubSeq(behind, i + 1, Len(behind)) \in Seq(Changes)
      /\ Len(SubSeq(behind, i + 1, Len(behind))) =
            IF i + 1 <= Len(behind) THEN Len(behind) - (i + 1) + 1 ELSE 0
      /\ \A j \in 1 .. Len(behind) - (i + 1) + 1 :
            SubSeq(behind, i + 1, Len(behind))[j] = behind[(i + 1) + j - 1]
  <2>1. Len(behind) \in Int /\ i + 1 \in Int
    BY <1>1, <1>2
  <2>2. QED
    BY <1>5, <2>1, SubSeqProperties
<1>7. /\ Len(SubSeq(behind, 1, i - 1)) = i - 1
      /\ \A j \in 1 .. i - 1 : SubSeq(behind, 1, i - 1)[j] = behind[j]
  BY <1>2, <1>4
<1>8. /\ Len(SubSeq(behind, i + 1, Len(behind))) = Len(behind) - i
      /\ \A j \in 1 .. Len(behind) - i :
            SubSeq(behind, i + 1, Len(behind))[j] = behind[i + j]
  BY <1>1, <1>2, <1>6
<1>9. QED
  BY <1>1, <1>2, <1>4, <1>6, <1>7, <1>8

-----------------------------------------------------------------------------
(* The types, by who keeps them.                                              *)
BooksTyped ==
    /\ pc \in Places
    /\ step \in 1 .. Len(Cumulative) + 1
    /\ idMap \in [Rows -> Ids]
    /\ churned \in 0 .. N
    /\ nextId \in 1 .. 2 * N + 1
    /\ victims \in Seq(Rows)
    /\ records \in Seq([kind : Kinds, step : 0 .. Len(Cumulative)])
ServerTyped ==
    /\ table \in [Ids -> Rows \cup {None}]
    /\ indexed \subseteq Ids
    /\ behind \in Seq(Changes)
CrewTyped ==
    /\ taken \in 0 .. N /\ written \in 0 .. N
    /\ writer \in [Writers -> {"out", "free", "busy"}]
    /\ slice \in [Writers -> 0 .. N]
    /\ failed \in BOOLEAN /\ late \in BOOLEAN
    /\ opened \subseteq Writers
PoolTyped ==
    /\ phase \in {"warming", "open", "published", "raised", "crashed"}
    /\ querying \subseteq Readers /\ delivered \subseteq Readers
    /\ baseline \in {"none", "window", "failed"}
    /\ during \in {"none", "window", "failed"}
    /\ capture \in BOOLEAN /\ gaveUp \in BOOLEAN
    /\ cause \in {"none", "engine", "readers"}

(* The parts are the whole.                                                   *)
LEMMA TypeParts == TypeOK <=> BooksTyped /\ ServerTyped /\ CrewTyped /\ PoolTyped
PROOF
  BY DEF TypeOK, BooksTyped, ServerTyped, CrewTyped, PoolTyped

(* The same after a step.                                                     *)
LEMMA TypePartsNext == (TypeOK <=> BooksTyped /\ ServerTyped /\ CrewTyped /\ PoolTyped)'
PROOF
  BY TypeParts, PTL

(* A record that is written keeps the type of the records.                    *)
LEMMA RecordedType ==
    ASSUME BooksTyped, NEW kind \in Kinds, NEW of \in 0 .. Len(Cumulative),
           Record(kind, of)
    PROVE  records' \in Seq([kind : Kinds, step : 0 .. Len(Cumulative)])
PROOF
  BY DEF BooksTyped, Record

(* The books keep their types.                                                *)
LEMMA BooksStep ==
    BooksTyped /\ TypeOK /\ MapInv /\ VictimsInv /\ [Next]_vars => BooksTyped'
PROOF
<1> SUFFICES ASSUME BooksTyped, TypeOK, MapInv, VictimsInv, [Next]_vars
             PROVE  BooksTyped'
  OBVIOUS
<1>0. /\ Len(Cumulative) \in Nat /\ N \in Nat
      /\ \A k \in 1 .. Len(Cumulative) : Cumulative[k] \in 0 .. N
  BY ChurnAssumption
<1>1. ASSUME UNCHANGED books, pc' \in Places PROVE BooksTyped'
  BY <1>1 DEF BooksTyped, books
<1>2. CASE Aside
  BY <1>2 DEF Aside, Absorb, PoolStarts, PoolStops, PoolRuns, BooksTyped, books
<1>3. CASE WriterStays \/ BeginReinsert \/ ReinsertEnds \/ Delete \/ DeleteRaises
  BY <1>1, <1>3
  DEF WriterStays, BudgetEnds, Leave, BeginReinsert, ReinsertEnds, Delete,
      DeleteRaises, Go, Abort, Places, BooksTyped
<1>4. ASSUME NEW w \in Writers, Take(w) \/ InsertRow(w) \/ InsertRaises(w)
      PROVE  BooksTyped'
  BY <1>1, <1>4 DEF Take, InsertRow, InsertRaises, BooksTyped
<1>5. CASE Turn
  <2>1. CASE Prepare \/ SyncBase \/ Finish \/ SyncDelete \/ SyncInsert
    BY <1>1, <2>1
    DEF Prepare, SyncBase, Finish, SyncDelete, SyncInsert, Wait, Go, Places
  <2>2. CASE BaselineEnds \/ ReadersStarted \/ StopReaders \/ EngineRaises
             \/ ConnectRaises \/ \E w \in Writers : Connect(w)
    BY <1>1, <2>2
    DEF BaselineEnds, ReadersStarted, StopReaders, Stop, EngineRaises,
        ConnectRaises, Connect, Go, Abort, Places
  <2>3. CASE ScoreBase
    <3>1. "baseline" \in Kinds /\ 0 \in 0 .. Len(Cumulative)
      BY <1>0 DEF Kinds
    <3>2. records' \in Seq([kind : Kinds, step : 0 .. Len(Cumulative)])
      BY <2>3, <3>1, RecordedType DEF ScoreBase
    <3>3. QED
      BY <2>3, <3>2 DEF ScoreBase, Go, Places, BooksTyped
  <2>4. CASE SkipStep
    BY <1>0, <2>4 DEF SkipStep, Go, Places, BooksTyped
  <2>5. CASE Incomplete \/ ScoreBefore
    <3>1. step \in 0 .. Len(Cumulative)
      BY <1>0, <2>5
         DEF Incomplete, ScoreBefore, VictimsInv, Numbered, Remade, BooksTyped
    <3>2. QED
      BY <2>5, <3>1, RecordedType
      DEF Incomplete, ScoreBefore, AfterIncomplete, Go, Places, BooksTyped,
          Kinds
  <2>6. CASE Maintain
    <3>1. step + 1 \in 1 .. Len(Cumulative) + 1
      BY <1>0, <2>6 DEF Maintain, VictimsInv, Remade, BooksTyped
    <3>2. QED
      BY <2>6, <3>1 DEF Maintain, NextStep, Go, Places, BooksTyped
  <2>7. CASE ScoreAfter
    <3>1. step + 1 \in 1 .. Len(Cumulative) + 1 /\ step \in 0 .. Len(Cumulative)
      BY <1>0, <2>7 DEF ScoreAfter, VictimsInv, Remade, BooksTyped
    <3>2. QED
      BY <2>7, <3>1, RecordedType
         DEF ScoreAfter, NextStep, Go, Places, BooksTyped, Kinds
  <2>8. QED
    BY <1>5, <2>1, <2>2, <2>3, <2>4, <2>5, <2>6, <2>7 DEF Turn
<1>6. CASE BeginStep
  <2>1. victims' \in Seq(Rows)
    BY <1>6, ChoiceIs DEF BeginStep
  <2>2. QED
    BY <1>6, <2>1 DEF BeginStep, Go, Places, BooksTyped
<1>7. CASE StartReaders
  <2>1. /\ pc = "readers" /\ nextId' = nextId + Len(victims)
        /\ pc' \in Places
        /\ UNCHANGED <<step, idMap, churned, victims, records>>
    BY <1>7 DEF StartReaders, Fresh, Go, Places
  <2>2. Len(victims) <= Cardinality(Live) /\ Cardinality(Live) + nextId = 2 * N + 1
    BY <2>1, VictimsFit DEF Chosen, MapInv, Base, Numbered, Over
  <2>3. nextId' \in 1 .. 2 * N + 1
    <3>1. nextId \in 1 .. 2 * N + 1
      BY DEF BooksTyped
    <3>2. QED
      BY <2>1, <2>2, <3>1, <1>0, LiveCount, Sizes
  <2>4. QED
    BY <2>1, <2>3 DEF BooksTyped
<1>8. CASE Reinserted
  <2>1. /\ pc = "tally" /\ pc' \in Places /\ idMap' = Remapped
        /\ churned' = Cumulative[step] /\ step <= Len(Cumulative)
        /\ UNCHANGED <<step, nextId, victims>>
        /\ Record("during", step) \/ UNCHANGED records
    BY <1>8 DEF Reinserted, Go, Places, VictimsInv, Numbered
  <2>2. churned' \in 0 .. N
    BY <1>0, <2>1 DEF BooksTyped
  <2>3. Remapped \in [Rows -> Ids]
    <3>1. \A o \in Victims : New(Place(o)) \in Ids
      <4> SUFFICES ASSUME NEW i \in DOMAIN victims PROVE New(Place(victims[i])) \in Ids
        BY DEF Victims
      <4>1. QED
        BY <2>1, PlaceIs, NewIsFresh DEF Numbered
    <3>2. QED
      BY <3>1 DEF Remapped, BooksTyped
  <2>4. records' \in Seq([kind : Kinds, step : 0 .. Len(Cumulative)])
    <3>1. "during" \in Kinds /\ step \in 0 .. Len(Cumulative)
      BY <1>0, <2>1 DEF Kinds, BooksTyped
    <3>2. CASE Record("during", step)
      BY <3>1, <3>2, RecordedType
    <3>3. CASE UNCHANGED records
      BY <3>3 DEF BooksTyped
    <3>4. QED
      BY <2>1, <3>2, <3>3
  <2>5. QED
    BY <2>1, <2>2, <2>3, <2>4 DEF BooksTyped
<1>9. CASE UNCHANGED vars
  BY <1>1, <1>9 DEF vars, BooksTyped
<1>10. QED
  BY <1>2, <1>3, <1>4, <1>5, <1>6, <1>7, <1>8, <1>9, StepKinds DEF WriterStays

(* The server keeps its types.                                                *)
LEMMA ServerStep ==
    ServerTyped /\ TypeOK /\ MapInv /\ VictimsInv /\ WritersInv /\ [Next]_vars
        => ServerTyped'
PROOF
<1> SUFFICES ASSUME ServerTyped, TypeOK, MapInv, VictimsInv, WritersInv, [Next]_vars
             PROVE  ServerTyped'
  OBVIOUS
<1>1. ASSUME UNCHANGED server PROVE ServerTyped'
  BY <1>1 DEF ServerTyped, server
<1>2. CASE Aside
  <2>1. CASE Absorb
    <3>1. PICK i \in DOMAIN behind :
             /\ indexed' \subseteq indexed \cup {behind[i].id}
             /\ behind' = SubSeq(behind, 1, i - 1)
                              \o SubSeq(behind, i + 1, Len(behind))
      BY <2>1 DEF Absorb
    <3>2. behind[i].id \in Ids
      BY AbsorbedType DEF Changes
    <3>3. behind' \in Seq(Changes)
      BY <3>1, AbsorbedType
    <3>4. table' = table
      BY <2>1 DEF Absorb
    <3>5. QED
      BY <3>1, <3>2, <3>3, <3>4 DEF ServerTyped
  <2>2. CASE PoolStarts \/ PoolStops \/ \E r \in Readers : PoolRuns(r)
    BY <1>1, <2>2 DEF PoolStarts, PoolStops, PoolRuns
  <2>3. QED
    BY <1>2, <2>1, <2>2 DEF Aside
<1>3. CASE WriterStays
  BY <1>1, <1>3 DEF WriterStays, BudgetEnds, Leave
<1>4. CASE Turn
  BY <1>4, TurnMoves DEF corpus, ServerTyped
<1>5. CASE BeginStep \/ StartReaders \/ BeginReinsert \/ ReinsertEnds \/ Reinserted
  BY <1>1, <1>5
     DEF BeginStep, StartReaders, BeginReinsert, ReinsertEnds, Reinserted
<1>6. CASE Delete \/ DeleteRaises
  <2>0. PICK some \in SUBSET Victims : \E order \in Commits(some) :
           /\ table' = Without(some) /\ behind' = behind \o Dropped(order)
           /\ indexed' = indexed
    BY <1>6 DEF Delete, DeleteRaises
  <2>1. PICK order \in Commits(some) :
           /\ table' = Without(some) /\ behind' = behind \o Dropped(order)
           /\ indexed' = indexed
    BY <2>0
  <2>2. some \in SUBSET Rows
    BY Sizes DEF Victims
  <2>3. behind' \in Seq(Changes)
    BY <2>1, <2>2, DroppedType DEF ServerTyped
  <2>4. Without(some) \in [Ids -> Rows \cup {None}]
    BY DEF Without, ServerTyped
  <2>5. QED
    BY <2>1, <2>3, <2>4 DEF ServerTyped
<1>7. ASSUME NEW w \in Writers, Take(w) PROVE ServerTyped'
  BY <1>1, <1>7 DEF Take
<1>8. ASSUME NEW w \in Writers, InsertRow(w) \/ InsertRaises(w) PROVE ServerTyped'
  <2>1. CASE UNCHANGED server
    BY <1>1, <2>1
  <2>2. CASE Put(slice[w])
    <3>1. PICK i \in DOMAIN victims : i = slice[w]
      BY <1>8, InsertMoves
    <3>2. New(i) \in Ids /\ victims[i] \in Rows
      BY <1>8, InsertMoves, NewIsFresh, Sizes DEF Numbered
    <3>3. /\ table' = [table EXCEPT ![New(i)] = victims[i]]
          /\ behind' = Append(behind, [id |-> New(i), op |-> "add"])
          /\ indexed' = indexed
      BY <2>2, <3>1 DEF Put
    <3>4. [id |-> New(i), op |-> "add"] \in Changes
      BY <3>2 DEF Changes
    <3>5. QED
      BY <3>2, <3>3, <3>4 DEF ServerTyped
  <2>3. QED
    BY <1>8, <2>1, <2>2 DEF InsertRow, InsertRaises
<1>9. CASE UNCHANGED vars
  BY <1>1, <1>9 DEF vars
<1>10. QED
  BY <1>2, <1>3, <1>4, <1>5, <1>6, <1>7, <1>8, <1>9, StepKinds DEF WriterStays

(* The writers keep their types.                                              *)
LEMMA CrewStep ==
    CrewTyped /\ TypeOK /\ VictimsInv /\ WritersInv /\ CountInv /\ [Next]_vars
        => CrewTyped'
PROOF
<1> SUFFICES ASSUME CrewTyped, TypeOK, VictimsInv, WritersInv, CountInv, [Next]_vars
             PROVE  CrewTyped'
  OBVIOUS
<1>1. ASSUME UNCHANGED writing PROVE CrewTyped'
  BY <1>1 DEF CrewTyped, writing
<1>2. CASE Aside
  BY <1>1, <1>2 DEF Aside, Absorb, PoolStarts, PoolStops, PoolRuns
<1>3. CASE WriterStays
  BY <1>3 DEF WriterStays, BudgetEnds, Leave, CrewTyped
<1>4. CASE Turn
  <2>1. CASE Prepare \/ SyncBase \/ ScoreBase \/ Finish \/ SkipStep
             \/ BaselineEnds \/ SyncDelete \/ ReadersStarted
             \/ Incomplete \/ SyncInsert \/ ScoreBefore \/ Maintain \/ ScoreAfter
             \/ EngineRaises \/ ConnectRaises
    BY <1>1, <2>1
    DEF Prepare, SyncBase, ScoreBase, Finish, SkipStep, BaselineEnds,
        SyncDelete,
        ReadersStarted, Incomplete, SyncInsert, ScoreBefore, Maintain,
        ScoreAfter,
        EngineRaises, ConnectRaises, Wait
  <2>2. CASE StopReaders \/ \E w \in Writers : Connect(w)
    BY <2>2 DEF StopReaders, Stop, Connect, CrewTyped
  <2>3. QED
    BY <1>4, <2>1, <2>2 DEF Turn
<1>5. CASE BeginStep \/ Delete \/ DeleteRaises \/ StartReaders \/ Reinserted
  BY <1>1, <1>5 DEF BeginStep, Delete, DeleteRaises, StartReaders, Reinserted
<1>6. CASE BeginReinsert \/ ReinsertEnds
  <2>1. 0 \in 0 .. N
    BY Sizes
  <2>2. CASE BeginReinsert
    BY <2>1, <2>2 DEF BeginReinsert, CrewTyped
  <2>3. CASE ReinsertEnds
    BY <2>1, <2>3 DEF ReinsertEnds, CrewTyped
  <2>4. QED
    BY <1>6, <2>2, <2>3
<1>7. ASSUME NEW w \in Writers, Take(w) PROVE CrewTyped'
  <2>1. taken + 1 \in 0 .. N
    BY <1>7, Sizes DEF Take, Quits, WritersInv, VictimsInv
  <2>2. QED
    BY <1>7, <2>1 DEF Take, CrewTyped
<1>8. ASSUME NEW w \in Writers, InsertRow(w) PROVE CrewTyped'
  <2>1. written + 1 \in 0 .. N
    <3>1. slice[w] \in DOMAIN victims /\ pc = "reinsert"
      BY <1>8, InsertMoves
    <3>2. /\ Cardinality(Filled) + 1 <= Len(victims)
          /\ Cardinality(Filled) \in Nat
      BY <3>1, FilledRoom, FilledFinite
    <3>3. written <= Cardinality(Filled) /\ Len(victims) <= N
      BY <3>1 DEF CountInv, VictimsInv
    <3>4. QED
      BY <3>2, <3>3, Sizes
  <2>2. QED
    BY <1>8, <2>1, Sizes DEF InsertRow, CrewTyped
<1>9. ASSUME NEW w \in Writers, InsertRaises(w) PROVE CrewTyped'
  BY <1>9, Sizes DEF InsertRaises, Counted, CrewTyped
<1>10. CASE UNCHANGED vars
  BY <1>1, <1>10 DEF vars
<1>11. QED
  BY <1>2, <1>3, <1>4, <1>5, <1>6, <1>7, <1>8, <1>9, <1>10, StepKinds
     DEF WriterStays

(* The readers keep their types.                                              *)
LEMMA PoolTypeStep ==
    PoolTyped /\ [Next]_vars => PoolTyped'
PROOF
<1> SUFFICES ASSUME PoolTyped, [Next]_vars PROVE PoolTyped'
  OBVIOUS
<1>1. ASSUME UNCHANGED <<pool, reading, history>> PROVE PoolTyped'
  BY <1>1 DEF PoolTyped, pool, reading, history
<1>2. CASE Aside
  <2>1. CASE Absorb
    BY <1>1, <2>1 DEF Absorb
  <2>2. UNCHANGED <<reading, history>>
    BY <1>2, AsideMoves
  <2>3. CASE PoolStarts \/ PoolStops
    BY <2>2, <2>3
       DEF PoolStarts, PoolStops, PoolTyped, reading, history, Pool!Open,
           Pool!Raise, Pool!Crash, Pool!Publish
  <2>4. ASSUME NEW r \in Readers, PoolRuns(r) PROVE PoolTyped'
    BY <2>2, <2>4
       DEF PoolRuns, PoolTyped, reading, history, Pool!Begin, Pool!End,
           Pool!Deliver
  <2>5. QED
    BY <1>2, <2>1, <2>3, <2>4 DEF Aside
<1>3. CASE WriterStays
  BY <1>1, <1>3, StaysMoves
<1>4. CASE Turn
  <2>1. CASE Prepare \/ ScoreBase \/ Finish \/ SkipStep \/ Incomplete
             \/ ScoreBefore \/ Maintain \/ ScoreAfter \/ \E w \in Writers : Connect(w)
    BY <1>1, <2>1
    DEF Prepare, ScoreBase, Finish, SkipStep, Incomplete, ScoreBefore,
        Maintain,
        ScoreAfter, Connect, Go, NextStep
  <2>2. CASE SyncBase \/ SyncDelete \/ SyncInsert
    BY <2>2
       DEF SyncBase, SyncDelete, SyncInsert, Wait, PoolTyped, pool, reading
  <2>3. CASE BaselineEnds \/ ReadersStarted \/ EngineRaises \/ ConnectRaises
    BY <2>3
       DEF BaselineEnds, ReadersStarted, EngineRaises, ConnectRaises, Abort,
           Go, PoolTyped, pool, reading, history
  <2>4. CASE StopReaders
    BY <2>4 DEF StopReaders, Stop, Seen, PoolTyped, pool, history
  <2>5. QED
    BY <1>4, <2>1, <2>2, <2>3, <2>4 DEF Turn
<1>5. CASE BeginStep
  BY <1>5 DEF BeginStep, Go, PoolTyped, history
<1>6. CASE StartReaders
  BY <1>6 DEF StartReaders, Go, PoolTyped, pool, history
<1>7. CASE BeginReinsert \/ ReinsertEnds \/ Delete \/ Reinserted
  BY <1>1, <1>7 DEF BeginReinsert, ReinsertEnds, Delete, Reinserted, Go
<1>8. CASE DeleteRaises
  BY <1>8 DEF DeleteRaises, Abort, PoolTyped, pool, reading
<1>9. ASSUME NEW w \in Writers, Take(w) \/ InsertRow(w) \/ InsertRaises(w)
      PROVE  PoolTyped'
  BY <1>1, <1>9 DEF Take, InsertRow, InsertRaises
<1>10. CASE UNCHANGED vars
  BY <1>1, <1>10 DEF vars
<1>11. QED
  BY <1>2, <1>3, <1>4, <1>5, <1>6, <1>7, <1>8, <1>9, <1>10, StepKinds
     DEF WriterStays

-----------------------------------------------------------------------------
(* The workload starts with the whole corpus and nobody at work.              *)
LEMMA ChurnInit == Init => ChurnInv
PROOF
<1> SUFFICES ASSUME Init PROVE ChurnInv
  OBVIOUS
<1>0. N \in Nat \ {0} /\ Len(Cumulative) \in Nat
  BY ChurnAssumption
<1>1. /\ pc = "prepare" /\ nextId = N + 1 /\ victims = << >> /\ taken = 0
      /\ idMap = [o \in Rows |-> o]
      /\ table = [id \in Ids |-> IF id \in Rows THEN id ELSE None]
      /\ \A w \in Writers : slice[w] = 0 /\ writer[w] = "out"
  BY DEF Init
<1>2. TypeOK
  <2>1. \A o \in Rows : o \in Ids
    BY <1>0 DEF Rows, Ids
  <2>2. BooksTyped
    BY <1>0, <2>1 DEF Init, BooksTyped, Places
  <2>3. ServerTyped
    BY <2>1 DEF Init, ServerTyped
  <2>4. CrewTyped
    <3>1. 0 \in 0 .. N
      BY <1>0
    <3>2. QED
      BY <3>1 DEF Init, CrewTyped
  <2>5. PoolTyped
    BY DEF Init, PoolTyped
  <2>6. QED
    BY <2>2, <2>3, <2>4, <2>5, TypeParts
<1>3. Base = N + 1 /\ ~Over /\ ~Numbered /\ ~Chosen /\ ~Remade /\ ~Deleted /\ Standing
  BY <1>1 DEF Base, Numbered, Over, Chosen, Remade, Deleted, Standing
<1>4. MapInv
  <2>1. Live = Rows
    BY <1>1 DEF Live
  <2>2. Cardinality(Live) = N
    BY <2>1, RowsFinite
  <2>3. QED
    BY <1>0, <1>1, <1>3, <2>2 DEF MapInv
<1>5. VictimsInv
  BY <1>0, <1>1, <1>3 DEF VictimsInv
<1>6. WholeTable
  <2>1. \A o \in Rows : o \in Ids /\ o # None
    BY <1>0 DEF Rows, Ids, None
  <2>2. QED
    BY <1>1, <2>1 DEF WholeTable
<1>7. TableInv
  BY <1>3, <1>6, WholeIsOnce DEF TableInv
<1>8. WritersInv
  BY <1>1 DEF WritersInv
<1>9. CountInv
  BY <1>1 DEF CountInv
<1>10. QED
  BY <1>2, <1>4, <1>5, <1>7, <1>8, <1>9 DEF ChurnInv

(* Every step keeps the invariant.                                            *)
LEMMA ChurnStep == ChurnInv /\ [Next]_vars => ChurnInv'
PROOF
<1> SUFFICES ASSUME ChurnInv, [Next]_vars PROVE ChurnInv'
  OBVIOUS
<1>1. TypeOK /\ MapInv /\ VictimsInv /\ TableInv /\ WritersInv /\ CountInv
  BY DEF ChurnInv
<1>2. TypeOK'
  <2>1. BooksTyped' /\ ServerTyped' /\ CrewTyped' /\ PoolTyped'
    BY <1>1, TypeParts, BooksStep, ServerStep, CrewStep, PoolTypeStep
  <2>2. QED
    BY <2>1, TypePartsNext
<1>3. MapInv' /\ VictimsInv' /\ WritersInv'
  BY <1>1, MapStep, VictimsStep, WritersStep
<1>4. TableInv' /\ CountInv'
  BY <1>1, <1>2, TableStep, CountStep
<1>5. QED
  BY <1>2, <1>3, <1>4 DEF ChurnInv

(* The invariant holds of every behaviour.                                    *)
LEMMA ChurnHolds == Spec => []ChurnInv
PROOF
  BY ChurnInit, ChurnStep, PTL DEF Spec

(* Every variable keeps its type, with any fault: in particular the ids of    *)
(* churn.py never leave the space of twice the corpus, however many rows are  *)
(* re-inserted and however often a wait gives up.                             *)
THEOREM ChurnTypeCorrect == Spec => []TypeOK
PROOF
<1>1. ChurnInv => TypeOK
  BY DEF ChurnInv
<1>2. QED
  BY <1>1, ChurnHolds, PTL

(* Whenever churn.py scores recall (of the baseline, before and after the     *)
(* maintenance of a step), the table is the corpus its ground truth is        *)
(* translated to, for any table, fractions and number of writers, whatever    *)
(* raised or came late.                                                       *)
THEOREM ChurnScoresTheCorpus == Spec => []ScoredCorpusIsWhole
PROOF
<1>1. ChurnInv => ScoredCorpusIsWhole
  <2> SUFFICES ASSUME ChurnInv, Scoring, NEW id \in Ids
               PROVE  table[id] = (IF \E o \in Rows : idMap[o] = id
                                   THEN CHOOSE o \in Rows : idMap[o] = id
                                   ELSE None)
    BY DEF ScoredCorpusIsWhole
  <2>1. WholeTable
    BY DEF ChurnInv, TableInv, Standing, Remade, Scoring
  <2>2. CASE \E o \in Rows : idMap[o] = id
    <3>1. PICK o \in Rows : idMap[o] = id
      BY <2>2
    <3>2. \A p \in Rows : idMap[p] = id <=> p = o
      BY <3>1 DEF ChurnInv, MapInv
    <3>3. (CHOOSE p \in Rows : idMap[p] = id) = o
      BY <3>2
    <3>4. table[id] = o
      BY <3>1, <2>1 DEF WholeTable
    <3>5. QED
      BY <2>2, <3>3, <3>4
  <2>3. CASE ~ \E o \in Rows : idMap[o] = id
    <3>1. table[id] \in Rows \cup {None}
      BY DEF ChurnInv, TypeOK
    <3>2. table[id] = None
      BY <3>1, <2>1, <2>3 DEF WholeTable
    <3>3. QED
      BY <2>3, <3>2
  <2>4. QED
    BY <2>2, <2>3
<1>2. QED
  BY <1>1, ChurnHolds, PTL

-----------------------------------------------------------------------------
(* A record is appended to those there are.                                   *)
LEMMA RecordMoves ==
    ASSUME TypeOK, NEW kind, NEW of, Record(kind, of)
    PROVE  /\ Len(records) \in Nat /\ Len(records') = Len(records) + 1
           /\ records'[Len(records) + 1] = [kind |-> kind, step |-> of]
           /\ \A i \in 1 .. Len(records) : records'[i] = records[i]
           /\ DOMAIN records = 1 .. Len(records)
           /\ DOMAIN records' = 1 .. Len(records) + 1
PROOF
<1> DEFINE Rec == [kind : Kinds, step : 0 .. Len(Cumulative)]
<1>1. records \in Seq(Rec \cup {[kind |-> kind, step |-> of]})
  <2>1. records \in Seq(Rec)
    BY DEF TypeOK
  <2>2. QED
    BY <2>1, SeqMonotonic
<1>2. QED
  BY <1>1 DEF Record

(* A record that follows its predecessor keeps the order of the records.      *)
LEMMA FollowKeeps ==
    ASSUME TypeOK, RecordsFollow, NEW kind, NEW of, Record(kind, of),
           Len(records) = 0 <=> kind = "baseline",
           Len(records) > 0 => Last.kind \in Before(kind),
           kind = "after" => Last.step = of
    PROVE  /\ RecordsFollow' /\ Len(records') > 0
           /\ Last' = [kind |-> kind, step |-> of]
PROOF
<1> DEFINE n == Len(records)
<1>1. /\ n \in Nat /\ Len(records') = n + 1
      /\ records'[n + 1] = [kind |-> kind, step |-> of]
      /\ \A i \in 1 .. n : records'[i] = records[i]
      /\ DOMAIN records = 1 .. n /\ DOMAIN records' = 1 .. n + 1
  BY RecordMoves
<1>2. Last = records[n]
  BY DEF Last
<1>3. Last' = [kind |-> kind, step |-> of]
  BY <1>1 DEF Last
<1> HIDE DEF n
<1>4. (n = 0 <=> kind = "baseline") /\ (n > 0 => records[n].kind \in Before(kind))
      /\ (kind = "after" => records[n].step = of)
  BY <1>2 DEF n
<1>5. ASSUME NEW i \in DOMAIN records'
      PROVE  /\ i = 1 <=> records'[i].kind = "baseline"
             /\ i > 1 => records'[i - 1].kind \in Before(records'[i].kind)
             /\ records'[i].kind = "after" => records'[i - 1].step = records'[i].step
  <2>1. CASE i = n + 1
    <3>1. records'[i].kind = kind /\ records'[i].step = of
      BY <1>1, <2>1
    <3>2. i > 1 => records'[i - 1] = records[n] /\ n > 0
      BY <1>1, <2>1
    <3>3. i = 1 <=> kind = "baseline"
      BY <1>1, <1>4, <2>1
    <3>4. i \in Nat /\ i >= 1
      BY <1>1, <1>5
    <3>5. kind = "after" => i > 1
      BY <3>3, <3>4
    <3>6. QED
      BY <1>4, <3>1, <3>2, <3>3, <3>5
  <2>2. CASE i # n + 1
    <3>1. i \in 1 .. n /\ (i > 1 => i - 1 \in 1 .. n)
      BY <1>1, <1>5, <2>2
    <3>2. /\ i = 1 <=> records[i].kind = "baseline"
          /\ i > 1 => records[i - 1].kind \in Before(records[i].kind)
          /\ records[i].kind = "after" => records[i - 1].step = records[i].step
      BY <1>1, <3>1 DEF RecordsFollow
    <3>3. records[i].kind = "after" => i > 1
      BY <3>1, <3>2
    <3>4. records'[i] = records[i] /\ (i > 1 => records'[i - 1] = records[i - 1])
      BY <1>1, <3>1
    <3>5. QED
      BY <3>2, <3>3, <3>4
  <2>3. QED
    BY <2>1, <2>2
<1>6. RecordsFollow'
  BY <1>5 DEF RecordsFollow, Before
<1>7. QED
  BY <1>1, <1>3, <1>6

(* There are no records at first.                                             *)
LEMMA LastInit == Init => LastInv
PROOF
  BY DEF Init, LastInv, RecordsFollow, Chosen, Numbered, Remade

(* The last record stays while the records stay.                              *)
LEMMA LastKept ==
    ASSUME LastInv, UNCHANGED records,
           pc' \in {"prepare", "syncBase", "scoreBase"} =>
               pc \in {"prepare", "syncBase", "scoreBase"},
           pc' = "step" \/ Chosen' \/ Numbered' =>
               pc = "step" \/ Chosen \/ Numbered,
           pc' \in {"syncInsert", "scoreBefore"} =>
               pc \in {"syncInsert", "scoreBefore"},
           pc' \in {"maintain", "scoreAfter"} =>
               pc \in {"maintain", "scoreAfter"} /\ step' = step
    PROVE  LastInv'
PROOF
<1>1. Last' = Last
  BY DEF Last
<1>2. RecordsFollow'
  BY DEF LastInv, RecordsFollow
<1>3. QED
  BY <1>1, <1>2 DEF LastInv, Remade

(* Every step keeps the last record true to the place the workload is at.     *)
LEMMA LastStep ==
    TypeOK /\ LastInv /\ [Next]_vars => LastInv'
PROOF
<1> SUFFICES ASSUME TypeOK, LastInv, [Next]_vars PROVE LastInv'
  OBVIOUS
<1> USE DEF Chosen, Numbered, Remade
<1>0. Len(records) \in Nat
  BY DEF TypeOK
<1>1. CASE Turn
  <2>1. CASE Prepare \/ SyncBase \/ Finish \/ BaselineEnds \/ SyncDelete
             \/ ReadersStarted \/ StopReaders \/ SyncInsert \/ EngineRaises
             \/ ConnectRaises \/ \E w \in Writers : Connect(w)
    BY <2>1, LastKept
    DEF Prepare, SyncBase, Finish, BaselineEnds, SyncDelete, ReadersStarted,
        StopReaders, Stop, SyncInsert, Wait, EngineRaises, ConnectRaises,
        Connect,
        Go, Abort, books
  <2>2. CASE SkipStep
    BY <2>2, LastKept DEF SkipStep, Go
  <2>3. CASE ScoreBase
    <3>1. Record("baseline", 0) /\ pc' = "step" /\ Len(records) = 0
      BY <2>3 DEF ScoreBase, Go, LastInv
    <3>2. /\ RecordsFollow' /\ Len(records') > 0
          /\ Last' = [kind |-> "baseline", step |-> 0]
      BY <3>1, FollowKeeps DEF LastInv
    <3>3. QED
      BY <3>1, <3>2 DEF LastInv
  <2>4. CASE Incomplete
    <3>1. /\ Record("incomplete", step) /\ pc' = "ended" /\ Len(records) > 0
          /\ Last.kind \in {"baseline", "before", "after"}
      BY <2>4 DEF Incomplete, AfterIncomplete, Go, LastInv
    <3>2. RecordsFollow'
      BY <3>1, FollowKeeps DEF LastInv, Before
    <3>3. QED
      BY <3>1, <3>2 DEF LastInv
  <2>5. CASE ScoreBefore
    <3>1. /\ Record("before", step) /\ pc' = "maintain" /\ step' = step
          /\ Len(records) > 0
          /\ Last.kind \in {"baseline", "before", "after", "during"}
      BY <2>5 DEF ScoreBefore, Go, LastInv
    <3>2. /\ RecordsFollow' /\ Len(records') > 0
          /\ Last' = [kind |-> "before", step |-> step]
      BY <3>1, FollowKeeps DEF LastInv, Before
    <3>3. QED
      BY <3>1, <3>2 DEF LastInv
  <2>6. CASE Maintain
    <3>1. /\ pc = "maintain" /\ UNCHANGED records
          /\ (pc' = "scoreAfter" /\ step' = step) \/ pc' = "step"
      BY <2>6 DEF Maintain, NextStep, Go
    <3>2. Last' = Last /\ RecordsFollow'
      BY <3>1 DEF Last, LastInv, RecordsFollow
    <3>3. QED
      BY <3>1, <3>2 DEF LastInv
  <2>7. CASE ScoreAfter
    <3>1. /\ Record("after", step) /\ pc' = "step" /\ Len(records) > 0
          /\ Last.kind = "before" /\ Last.step = step
      BY <2>7 DEF ScoreAfter, NextStep, Go, LastInv
    <3>2. /\ RecordsFollow' /\ Len(records') > 0
          /\ Last' = [kind |-> "after", step |-> step]
      BY <3>1, FollowKeeps DEF LastInv, Before
    <3>3. QED
      BY <3>1, <3>2 DEF LastInv
  <2>8. QED
    BY <1>1, <2>1, <2>2, <2>3, <2>4, <2>5, <2>6, <2>7 DEF Turn
<1>2. CASE Aside
  BY <1>2, AsideMoves, LastKept
<1>3. CASE WriterStays
  BY <1>3, StaysMoves, LastKept
<1>4. CASE BeginStep \/ Delete \/ DeleteRaises \/ StartReaders
  BY <1>4, LastKept
     DEF BeginStep, Delete, DeleteRaises, StartReaders, Go, Abort, books
<1>5. CASE BeginReinsert \/ ReinsertEnds
  BY <1>5, LastKept DEF BeginReinsert, ReinsertEnds, Go, books
<1>6. CASE Reinserted
  <2>1. /\ pc = "tally" /\ pc' = "syncInsert" /\ Len(records) > 0
        /\ Last.kind \in {"baseline", "before", "after"}
        /\ Record("during", step) \/ UNCHANGED records
    BY <1>6 DEF Reinserted, Go, LastInv
  <2>2. CASE Record("during", step)
    <3>1. /\ RecordsFollow' /\ Len(records') > 0
          /\ Last' = [kind |-> "during", step |-> step]
      BY <2>1, <2>2, FollowKeeps DEF LastInv, Before
    <3>2. QED
      BY <2>1, <3>1 DEF LastInv
  <2>3. CASE UNCHANGED records
    <3>1. Last' = Last /\ RecordsFollow'
      BY <2>3 DEF Last, LastInv, RecordsFollow
    <3>2. QED
      BY <2>1, <2>3, <3>1 DEF LastInv
  <2>4. QED
    BY <2>1, <2>2, <2>3
<1>7. ASSUME NEW w \in Writers, Take(w) \/ InsertRow(w) \/ InsertRaises(w)
      PROVE  LastInv'
  BY <1>7, LastKept DEF Take, InsertRow, InsertRaises, books
<1>8. CASE UNCHANGED vars
  BY <1>8, LastKept DEF vars, books
<1>9. QED
  BY <1>1, <1>2, <1>3, <1>4, <1>5, <1>6, <1>7, <1>8, StepKinds DEF WriterStays

(* The rows the re-insert is judged by are in the table.                      *)
LEMMA CountedAreWritten ==
    ASSUME TypeOK, MapInv, VictimsInv, CountInv
    PROVE  CountedIsWritten
PROOF
<1> SUFFICES ASSUME pc = "tally"
             PROVE  written <= Cardinality({id \in NewIds : table[id] # None})
  BY DEF CountedIsWritten
<1> DEFINE T == {id \in NewIds : table[id] # None}
<1> DEFINE f == [i \in Filled |-> New(i)]
<1>1. Numbered
  BY DEF Numbered
<1>2. \A i \in Filled : i \in DOMAIN victims /\ table[New(i)] # None
  BY DEF Filled
<1>3. \A i \in Filled : New(i) \in T
  BY <1>2 DEF NewIds
<1>4. \A i, j \in Filled : New(i) = New(j) => i = j
  BY <1>1, <1>2, NewIsFresh
<1>5. f \in Injection(Filled, T)
  BY <1>3, <1>4 DEF Injection, IsInjective
<1>6. IsFiniteSet(T)
  <2>1. T \subseteq Ids
    BY <1>1, NewIsFresh DEF NewIds
  <2>2. IsFiniteSet(Ids)
    BY ChurnAssumption, FS_Interval DEF Ids
  <2>3. QED
    BY <2>1, <2>2, FS_Subset
<1> HIDE DEF f, T
<1>7. Cardinality(Filled) <= Cardinality(T)
  BY <1>5, <1>6, FS_Injection
<1>8. Cardinality(T) \in Nat
  BY <1>6, FS_CardinalityType
<1>9. QED
  BY <1>7, <1>8, FilledFinite, Sizes DEF CountInv, T

(* No vector is in the table twice, the count of churn_writes.py never        *)
(* exceeds the rows that arrived, and what the readers saw is recorded of     *)
(* complete re-inserts only, between the two records around it.               *)
THEOREM ChurnKeepsWrites == Spec => []WritesAreKept
PROOF
<1>1. Init => ChurnInv /\ LastInv
  BY ChurnInit, LastInit
<1>2. ChurnInv /\ LastInv /\ [Next]_vars => (ChurnInv /\ LastInv)'
  BY ChurnStep, LastStep DEF ChurnInv
<1>3. ChurnInv /\ LastInv => WritesAreKept
  BY CountedAreWritten DEF ChurnInv, TableInv, LastInv, WritesAreKept
<1>4. QED
  BY <1>1, <1>2, <1>3, PTL DEF Spec

-----------------------------------------------------------------------------
(* Every step keeps the readers within the pool that waits for them.          *)
LEMMA PoolStep ==
    TypeOK /\ PoolInv /\ [Next]_vars => PoolInv'
PROOF
<1> SUFFICES ASSUME TypeOK, PoolInv, [Next]_vars PROVE PoolInv'
  OBVIOUS
<1> USE DEF Numbered
<1>1. ASSUME UNCHANGED <<pc, pool, baseline>> PROVE PoolInv'
  BY <1>1 DEF PoolInv, pool
<1>2. CASE Aside
  <2>1. CASE Absorb
    BY <1>1, <2>1 DEF Absorb, reading
  <2>2. CASE PoolStarts
    BY <2>2 DEF PoolStarts, PoolInv, reading, Pool!Open, Pool!Raise, Pool!Crash
  <2>3. CASE PoolStops
    BY <2>3 DEF PoolStops, PoolInv, reading, Pool!Publish, Pool!Raise
  <2>4. ASSUME NEW r \in Readers, PoolRuns(r) PROVE PoolInv'
    <3>1. UNCHANGED <<pc, phase, baseline>>
      BY <2>4 DEF PoolRuns, Pool!Begin, Pool!End, Pool!Deliver, reading
    <3>2. \/ querying' \subseteq querying
          \/ phase = "warming" /\ pc \in {"readBase", "warmup"}
      BY <2>4 DEF PoolRuns, Pool!Begin, Pool!End, Pool!Deliver
    <3>3. QED
      BY <3>1, <3>2 DEF PoolInv
  <2>5. QED
    BY <1>2, <2>1, <2>2, <2>3, <2>4 DEF Aside
<1>3. CASE WriterStays
  BY <1>1, <1>3, StaysMoves DEF reading
<1>4. CASE Turn
  <2>1. CASE Prepare \/ SyncBase \/ ScoreBase \/ Finish \/ SkipStep
    BY <2>1
       DEF Prepare, SyncBase, ScoreBase, Finish, SkipStep, Wait, Go, pool,
           reading, PoolInv
  <2>2. CASE SyncDelete \/ SyncInsert \/ Incomplete \/ ScoreBefore \/ Maintain
             \/ ScoreAfter
    BY <2>2
       DEF SyncDelete, SyncInsert, Incomplete, ScoreBefore, Maintain,
           ScoreAfter, Wait, Go, NextStep, AfterIncomplete, pool, reading,
           PoolInv
  <2>3. CASE BaselineEnds
    BY <2>3 DEF BaselineEnds, Go, Abort, pool, PoolInv
  <2>4. CASE ReadersStarted
    BY <2>4 DEF ReadersStarted, Go, Abort, pool, reading, PoolInv
  <2>5. CASE StopReaders
    BY <2>5 DEF StopReaders, Stop, PoolIsOver, pool, PoolInv
  <2>6. CASE EngineRaises
    BY <2>6 DEF EngineRaises, Abort, pool, reading, PoolInv
  <2>7. CASE ConnectRaises \/ \E w \in Writers : Connect(w)
    BY <2>7 DEF ConnectRaises, Connect, pool, reading, PoolInv
  <2>8. QED
    BY <1>4, <2>1, <2>2, <2>3, <2>4, <2>5, <2>6, <2>7 DEF Turn
<1>5. CASE BeginStep
  BY <1>5 DEF BeginStep, Go, PoolInv
<1>6. CASE Delete \/ DeleteRaises
  BY <1>6 DEF Delete, DeleteRaises, Go, Abort, pool, reading, PoolInv
<1>7. CASE StartReaders
  BY <1>7 DEF StartReaders, Go, pool, PoolInv
<1>8. CASE BeginReinsert \/ ReinsertEnds \/ Reinserted
  BY <1>8
     DEF BeginReinsert, ReinsertEnds, Reinserted, Go, pool, reading, PoolInv
<1>9. ASSUME NEW w \in Writers, Take(w) \/ InsertRow(w) \/ InsertRaises(w)
      PROVE  PoolInv'
  BY <1>1, <1>9 DEF Take, InsertRow, InsertRaises, reading
<1>10. CASE UNCHANGED vars
  BY <1>1, <1>10 DEF vars, reading
<1>11. QED
  BY <1>2, <1>3, <1>4, <1>5, <1>6, <1>7, <1>8, <1>9, <1>10, StepKinds
     DEF WriterStays

(* Every step keeps the connections and the capture of the waits within the   *)
(* re-insert.                                                                 *)
LEMMA HeldStep ==
    HeldInv /\ [Next]_vars => HeldInv'
PROOF
<1> SUFFICES ASSUME HeldInv, [Next]_vars PROVE HeldInv'
  OBVIOUS
<1> USE DEF Numbered
<1>1. ASSUME UNCHANGED <<pc, opened, capture>> PROVE HeldInv'
  BY <1>1 DEF HeldInv
<1>2. CASE Aside
  BY <1>1, <1>2, AsideMoves DEF reading
<1>3. CASE WriterStays
  BY <1>1, <1>3, StaysMoves DEF reading
<1>4. CASE Turn
  <2>1. CASE Prepare \/ SyncBase \/ ScoreBase \/ Finish \/ SkipStep
    BY <2>1
       DEF Prepare, SyncBase, ScoreBase, Finish, SkipStep, Wait, Go, writing,
           reading, HeldInv
  <2>2. CASE SyncDelete \/ SyncInsert \/ Incomplete \/ ScoreBefore \/ Maintain
             \/ ScoreAfter
    BY <2>2
       DEF SyncDelete, SyncInsert, Incomplete, ScoreBefore, Maintain,
           ScoreAfter, Wait, Go, NextStep, AfterIncomplete, writing, reading,
           HeldInv
  <2>3. CASE BaselineEnds
    BY <2>3 DEF BaselineEnds, Go, Abort, writing, HeldInv
  <2>4. CASE ReadersStarted
    BY <2>4 DEF ReadersStarted, Go, Abort, writing, reading, HeldInv
  <2>5. CASE StopReaders
    BY <2>5 DEF StopReaders, Stop, HeldInv
  <2>6. CASE EngineRaises
    BY <2>6 DEF EngineRaises, Abort, writing, reading, HeldInv
  <2>7. CASE ConnectRaises \/ \E w \in Writers : Connect(w)
    BY <2>7 DEF ConnectRaises, Connect, writing, reading, HeldInv
  <2>8. QED
    BY <1>4, <2>1, <2>2, <2>3, <2>4, <2>5, <2>6, <2>7 DEF Turn
<1>5. CASE BeginStep
  BY <1>5 DEF BeginStep, Go, writing, HeldInv
<1>6. CASE Delete \/ DeleteRaises
  BY <1>6 DEF Delete, DeleteRaises, Go, Abort, writing, reading, HeldInv
<1>7. CASE StartReaders
  BY <1>7 DEF StartReaders, Go, writing, HeldInv
<1>8. CASE BeginReinsert \/ ReinsertEnds \/ Reinserted
  BY <1>8
     DEF BeginReinsert, ReinsertEnds, Reinserted, Go, writing, reading, HeldInv
<1>9. ASSUME NEW w \in Writers, Take(w) \/ InsertRow(w) \/ InsertRaises(w)
      PROVE  HeldInv'
  BY <1>1, <1>9 DEF Take, InsertRow, InsertRaises, reading
<1>10. CASE UNCHANGED vars
  BY <1>1, <1>10 DEF vars, writing, reading
<1>11. QED
  BY <1>2, <1>3, <1>4, <1>5, <1>6, <1>7, <1>8, <1>9, <1>10, StepKinds
     DEF WriterStays

(* Nobody queries, writes, holds a connection or captures the waits beside a  *)
(* scoring, and no reader whose start returned goes on after the workload,    *)
(* by whatever way churn.py left it.                                          *)
THEOREM ChurnLeavesNobody == Spec => []NobodyIsLeft
PROOF
<1>1. Init => ChurnInv /\ PoolInv /\ HeldInv
  <2>1. Init => PoolInv /\ HeldInv
    BY DEF Init, PoolInv, HeldInv, Numbered
  <2>2. QED
    BY <2>1, ChurnInit
<1>2. ChurnInv /\ PoolInv /\ HeldInv /\ [Next]_vars => (ChurnInv /\ PoolInv /\ HeldInv)'
  BY ChurnStep, PoolStep, HeldStep DEF ChurnInv
<1>3. ChurnInv /\ PoolInv /\ HeldInv => NobodyIsLeft
  <2> SUFFICES ASSUME ChurnInv, PoolInv, HeldInv PROVE NobodyIsLeft
    OBVIOUS
  <2>1. ScoredAlone
    BY DEF ScoredAlone, Scoring, ChurnInv, WritersInv, PoolInv, HeldInv,
           Numbered
  <2>2. ReadersAreStopped
    BY DEF ReadersAreStopped, PoolInv, Numbered
  <2>3. QED
    BY <2>1, <2>2 DEF NobodyIsLeft
<1>4. QED
  BY <1>1, <1>2, <1>3, PTL DEF Spec

-----------------------------------------------------------------------------
Stored == {id \in Ids : table[id] # None}

(* A table has as many ids as rows, where the map leads from each to the other*)
LEMMA StoredCount ==
    ASSUME TypeOK, MapInv, NEW S \in SUBSET Rows,
           \A o \in S : table[idMap[o]] = o,
           \A id \in Ids : table[id] # None => table[id] \in S /\ idMap[table[id]] = id
    PROVE  IsFiniteSet(Stored) /\ Cardinality(Stored) = Cardinality(S)
PROOF
<1> DEFINE f == [o \in S |-> idMap[o]]
<1>0. \A o \in Rows : o # None
  BY DEF Rows, None
<1>1. \A o \in S : idMap[o] \in Ids /\ o # None
  BY <1>0 DEF TypeOK
<1>2. f \in [S -> Stored]
  BY <1>1 DEF Stored
<1>3. \A o, p \in S : f[o] = f[p] => o = p
  BY DEF MapInv
<1>4. \A id \in Stored : \E o \in S : f[o] = id
  BY DEF Stored
<1> HIDE DEF f
<1>5. f \in Bijection(S, Stored)
  BY <1>2, <1>3, <1>4 DEF Bijection, Injection, Surjection, IsInjective
<1>6. IsFiniteSet(S)
  BY RowsFinite, FS_Subset
<1>7. QED
  BY <1>5, <1>6, FS_Bijection DEF ExistsBijection

(* A whole table has N rows.                                                  *)
LEMMA WholeCount ==
    ASSUME TypeOK, MapInv, WholeTable
    PROVE  IsFiniteSet(Stored) /\ Cardinality(Stored) = N
PROOF
<1>1. \A id \in Ids : table[id] # None => table[id] \in Rows
  BY DEF TypeOK
<1>2. IsFiniteSet(Stored) /\ Cardinality(Stored) = Cardinality(Rows)
  BY <1>1, StoredCount DEF WholeTable
<1>3. QED
  BY <1>2, RowsFinite

(* A table without its victims has that many fewer.                           *)
LEMMA RestCount ==
    ASSUME TypeOK, MapInv, VictimsInv, OthersKept, VictimsGone
    PROVE  IsFiniteSet(Stored) /\ Cardinality(Stored) = N - Len(victims)
PROOF
<1>1. \A id \in Ids : table[id] # None => table[id] \in Rows \ Victims
  BY DEF TypeOK, VictimsGone, Victims
<1>2. \A id \in Ids : table[id] # None => idMap[table[id]] = id
  BY <1>1 DEF OthersKept
<1>3. IsFiniteSet(Stored) /\ Cardinality(Stored) = Cardinality(Rows \ Victims)
  BY <1>1, <1>2, StoredCount DEF OthersKept
<1>4. Rows \cap Victims = Victims
  BY Sizes DEF Victims
<1>5. Cardinality(Victims) = Len(victims)
  BY CountOfDistinct DEF Victims, VictimsInv, TypeOK
<1>6. Cardinality(Rows \ Victims) = Cardinality(Rows) - Cardinality(Rows \cap Victims)
  BY RowsFinite, FS_Difference
<1>7. QED
  BY <1>3, <1>4, <1>5, <1>6, RowsFinite

(* What a count that agrees says when the index is behind by one kind only.   *)
LEMMA BehindSizes ==
    ASSUME TypeOK
    PROVE  /\ Len(behind) \in Nat /\ DOMAIN behind = 1 .. Len(behind)
           /\ \A j \in DOMAIN behind : /\ behind[j] \in Changes /\ behind[j].id \in Ids
                                       /\ behind[j].op \in {"add", "drop"}
           /\ Len(behind) = 0 => behind = << >>
           /\ indexed \subseteq Ids /\ IsFiniteSet(indexed)
PROOF
<1>1. \A j \in DOMAIN behind : behind[j] \in Changes
  BY DEF TypeOK
<1>2. IsFiniteSet(Ids)
  BY ChurnAssumption, FS_Interval DEF Ids
<1>3. indexed \subseteq Ids
  BY DEF TypeOK
<1>4. IsFiniteSet(indexed)
  BY <1>2, <1>3, FS_Subset
<1>5. /\ Len(behind) \in Nat /\ DOMAIN behind = 1 .. Len(behind)
      /\ Len(behind) = 0 => behind = << >>
  BY EmptySeq DEF TypeOK
<1>6. QED
  BY <1>1, <1>3, <1>4, <1>5 DEF Changes

(* An index that has as many rows as the table has the same, when it has      *)
(* only to add or only to drop: the count that churn.py waits for is enough.  *)
LEMMA CaughtUp ==
    ASSUME TypeOK, BehindIsDifference, IsFiniteSet(Stored),
           OnlyChanges("add") \/ OnlyChanges("drop"),
           Cardinality(indexed) = Cardinality(Stored)
    PROVE  behind = << >>
PROOF
<1>1. CASE OnlyChanges("add")
  <2>1. indexed \subseteq Stored
    BY <1>1, BehindSizes DEF OnlyChanges, BehindIsDifference, Stored
  <2>2. indexed = Stored
    BY <2>1, FS_Subset
  <2>3. \A j \in DOMAIN behind : FALSE
    BY <1>1, <2>2, BehindSizes DEF OnlyChanges, BehindIsDifference, Stored
  <2>4. QED
    BY <2>3, BehindSizes
<1>2. CASE OnlyChanges("drop")
  <2>1. Stored \subseteq indexed
    BY <1>2, BehindSizes DEF OnlyChanges, BehindIsDifference, Stored
  <2>2. indexed = Stored
    BY <2>1, BehindSizes, FS_Subset
  <2>3. \A j \in DOMAIN behind : FALSE
    BY <1>2, <2>2, BehindSizes DEF OnlyChanges, BehindIsDifference, Stored
  <2>4. QED
    BY <2>3, BehindSizes
<1>3. QED
  BY <1>1, <1>2

(* What the index is behind by stays while nothing is written.                *)
LEMMA IndexKept ==
    ASSUME IndexInv, UNCHANGED <<table, indexed, behind>>,
           gaveUp => gaveUp', Over => Over',
           pc' = "syncDelete" => pc = "syncDelete",
           pc' \in {"reinsert", "stop", "tally", "syncInsert"} =>
               pc \in {"connect", "reinsert", "stop", "tally", "syncInsert"},
           pc' \in Caught => pc \in Caught
    PROVE  IndexInv'
PROOF
<1> SUFFICES ASSUME ~gaveUp', ~Over'
             PROVE  /\ BehindIsDifference'
                    /\ pc' = "syncDelete" => OnlyChanges("drop")'
                    /\ pc' \in {"reinsert", "stop", "tally", "syncInsert"} =>
                           OnlyChanges("add")'
                    /\ pc' \in Caught => behind' = << >>
  BY DEF IndexInv, Caught
<1>1. BehindIsDifference'
  BY DEF BehindIsDifference, IndexInv
<1>2. pc = "connect" => OnlyChanges("add")
  BY DEF IndexInv, Caught, OnlyChanges
<1>3. QED
  BY <1>1, <1>2 DEF IndexInv, OnlyChanges, Caught

(* The index absorbs one change.                                              *)
LEMMA AbsorbKeeps ==
    ASSUME TypeOK, WaitsFor = "rows", IndexInv, Absorb
    PROVE  IndexInv'
PROOF
<1> SUFFICES ASSUME ~gaveUp', ~Over'
             PROVE  /\ BehindIsDifference'
                    /\ pc' = "syncDelete" => OnlyChanges("drop")'
                    /\ pc' \in {"reinsert", "stop", "tally", "syncInsert"} =>
                           OnlyChanges("add")'
                    /\ pc' \in Caught => behind' = << >>
  BY DEF IndexInv, Caught
<1>1. /\ UNCHANGED <<pc, table, gaveUp>> /\ ~gaveUp /\ ~Over
  BY DEF Absorb, history, Over
<1>2. PICK i \in DOMAIN behind :
         /\ indexed' = IF behind[i].op = "add" THEN indexed \cup {behind[i].id}
                                               ELSE indexed \ {behind[i].id}
         /\ behind' = SubSeq(behind, 1, i - 1) \o SubSeq(behind, i + 1, Len(behind))
  BY DEF Absorb
<1> DEFINE s == SubSeq(behind, 1, i - 1)
<1> DEFINE t == SubSeq(behind, i + 1, Len(behind))
<1> DEFINE n == Len(behind)
<1>3. /\ s \in Seq(Changes) /\ t \in Seq(Changes)
      /\ Len(s) = i - 1 /\ Len(t) = n - i /\ i \in 1 .. n /\ n \in Nat
      /\ \A j \in 1 .. i - 1 : s[j] = behind[j]
      /\ \A j \in 1 .. n - i : t[j] = behind[i + j]
      /\ behind' = s \o t
  BY <1>2, AbsorbedType
<1>4. DOMAIN behind = 1 .. n
  BY BehindSizes
<1> HIDE DEF s, t, n
<1>5. /\ s \o t \in Seq(Changes) /\ Len(s \o t) = Len(s) + Len(t)
      /\ \A j \in 1 .. Len(s) + Len(t) :
            (s \o t)[j] = IF j <= Len(s) THEN s[j] ELSE t[j - Len(s)]
  BY <1>3, ConcatProperties
<1>6. DOMAIN behind' = 1 .. n - 1
  <2>1. Len(s) + Len(t) = n - 1
    BY <1>3
  <2>2. DOMAIN (s \o t) = 1 .. Len(s \o t)
    BY <1>5
  <2>3. QED
    BY <1>3, <1>5, <2>1, <2>2
<1>7. \A j \in 1 .. n - 1 : behind'[j] = IF j < i THEN behind[j] ELSE behind[j + 1]
  <2> SUFFICES ASSUME NEW j \in 1 .. n - 1
               PROVE  behind'[j] = IF j < i THEN behind[j] ELSE behind[j + 1]
    OBVIOUS
  <2>1. CASE j < i
    <3>1. j \in 1 .. i - 1 /\ j <= Len(s) /\ j \in 1 .. Len(s) + Len(t)
      BY <1>3, <2>1
    <3>2. QED
      BY <1>3, <1>5, <2>1, <3>1
  <2>2. CASE ~(j < i)
    <3>1. /\ j - (i - 1) \in 1 .. n - i /\ ~(j <= Len(s))
          /\ j \in 1 .. Len(s) + Len(t) /\ i + (j - (i - 1)) = j + 1
      BY <1>3, <2>2
    <3>2. behind'[j] = t[j - (i - 1)]
      BY <1>3, <1>5, <3>1
    <3>3. QED
      BY <1>3, <2>2, <3>1, <3>2
  <2>3. QED
    BY <2>1, <2>2
<1> DEFINE At(j) == IF j < i THEN j ELSE j + 1
<1>71. \A j \in 1 .. n - 1 : At(j) \in 1 .. n /\ At(j) # i
  BY <1>3
<1>72. \A j, k \in 1 .. n - 1 : At(j) = At(k) => j = k
  BY <1>3
<1>73. \A j \in 1 .. n - 1 : behind'[j] = behind[At(j)]
  BY <1>7
<1> HIDE DEF At
<1>8. \A j \in DOMAIN behind' : \E k \in DOMAIN behind : k # i /\ behind'[j] = behind[k]
  BY <1>4, <1>6, <1>71, <1>73
<1>9. \A k \in DOMAIN behind : k # i => \E j \in DOMAIN behind' : behind'[j] = behind[k]
  <2> SUFFICES ASSUME NEW k \in DOMAIN behind, k # i
               PROVE  \E j \in DOMAIN behind' : behind'[j] = behind[k]
    OBVIOUS
  <2>1. CASE k < i
    BY <2>1, <1>3, <1>4, <1>6, <1>7
  <2>2. CASE k > i
    <3>1. k - 1 \in 1 .. n - 1 /\ ~(k - 1 < i) /\ (k - 1) + 1 = k
      BY <2>2, <1>3, <1>4
    <3>2. QED
      BY <3>1, <1>6, <1>7
  <2>3. QED
    BY <2>1, <2>2, <1>3, <1>4
<1>10. BehindIsDifference
  BY <1>1 DEF IndexInv
<1> DEFINE x == behind[i].id
<1>11. \A k \in DOMAIN behind : k # i => behind[k].id # x
  BY <1>10 DEF BehindIsDifference
<1>12. \A id \in Ids : id # x => (id \in indexed' <=> id \in indexed)
  BY <1>2
<1>13. x \in Ids /\ behind[i].op \in {"add", "drop"}
  BY BehindSizes
<1>14. x \in indexed' <=> table[x] # None
  BY <1>2, <1>10, <1>13 DEF BehindIsDifference
<1>15. \A j \in DOMAIN behind' :
          /\ behind'[j].op = "add" <=> table[behind'[j].id] # None
          /\ behind'[j].op = "add" <=> behind'[j].id \notin indexed'
  <2> SUFFICES ASSUME NEW j \in DOMAIN behind'
               PROVE  /\ behind'[j].op = "add" <=> table[behind'[j].id] # None
                      /\ behind'[j].op = "add" <=> behind'[j].id \notin indexed'
    OBVIOUS
  <2>1. PICK k \in DOMAIN behind : k # i /\ behind'[j] = behind[k]
    BY <1>8
  <2>2. behind[k].id # x /\ behind[k].id \in Ids
    BY <2>1, <1>11, BehindSizes
  <2>3. QED
    BY <2>1, <2>2, <1>10, <1>12 DEF BehindIsDifference
<1>16. \A j, k \in DOMAIN behind' : behind'[j].id = behind'[k].id => j = k
  <2> SUFFICES ASSUME NEW j \in 1 .. n - 1, NEW k \in 1 .. n - 1,
                      behind'[j].id = behind'[k].id
               PROVE  j = k
    BY <1>6
  <2>1. behind[At(j)].id = behind[At(k)].id
    BY <1>73
  <2>2. At(j) = At(k)
    BY <2>1, <1>4, <1>10, <1>71 DEF BehindIsDifference
  <2>3. QED
    BY <2>2, <1>72
<1>17. \A id \in Ids : (\A j \in DOMAIN behind' : behind'[j].id # id) =>
                          (id \in indexed' <=> table[id] # None)
  <2> SUFFICES ASSUME NEW id \in Ids, \A j \in DOMAIN behind' : behind'[j].id # id
               PROVE  id \in indexed' <=> table[id] # None
    OBVIOUS
  <2>1. CASE id = x
    BY <2>1, <1>14
  <2>2. CASE id # x
    <3>1. \A k \in DOMAIN behind : behind[k].id # id
      BY <2>2, <1>9
    <3>2. QED
      BY <2>2, <3>1, <1>10, <1>12 DEF BehindIsDifference
  <2>3. QED
    BY <2>1, <2>2
<1>18. BehindIsDifference'
  BY <1>1, <1>15, <1>16, <1>17 DEF BehindIsDifference
<1>19. behind # << >>
  BY <1>3, <1>4
<1>20. QED
  BY <1>1, <1>8, <1>18, <1>19 DEF IndexInv, OnlyChanges

(* The delete: the index has yet to drop the victims' ids, and nothing else.  *)
LEMMA DeleteKeeps ==
    ASSUME TypeOK, MapInv, VictimsInv, TableInv, IndexInv, Delete
    PROVE  IndexInv'
PROOF
<1> SUFFICES ASSUME ~gaveUp' PROVE BehindIsDifference' /\ OnlyChanges("drop")'
  BY DEF IndexInv, Caught, Delete, Go
<1>1. /\ pc = "delete" /\ ~gaveUp /\ table' = Without(Victims) /\ indexed' = indexed
  BY DEF Delete, Go, history
<1>2. BehindIsDifference /\ behind = << >> /\ WholeTable
  BY <1>1 DEF IndexInv, Caught, Over, TableInv, Standing
<1>3. PICK order \in Commits(Victims) : behind' = behind \o Dropped(order)
  BY DEF Delete
<1>4. Victims \in SUBSET Rows
  BY Sizes DEF Victims
<1>5. /\ Dropped(order) \in Seq(Changes)
      /\ DOMAIN order = 1 .. Len(order) /\ Len(order) \in Nat
      /\ Len(Dropped(order)) = Len(order)
      /\ \A i \in DOMAIN order :
            /\ order[i] \in Victims
            /\ Dropped(order)[i] = [id |-> idMap[order[i]], op |-> "drop"]
      /\ \A v \in Victims : \E i \in DOMAIN order : order[i] = v
      /\ \A i, j \in DOMAIN order : order[i] = order[j] => i = j
  BY <1>4, DroppedType
<1>6. behind' = Dropped(order)
  BY <1>2, <1>3, <1>5, ConcatEmptySeq
<1>7. DOMAIN behind' = DOMAIN order
  BY <1>5, <1>6
<1>8. \A j \in DOMAIN behind' :
         /\ order[j] \in Victims /\ order[j] \in Rows
         /\ behind'[j].id = idMap[order[j]] /\ behind'[j].op = "drop"
  BY <1>4, <1>5, <1>6, <1>7
<1>9. OnlyChanges("drop")'
  BY <1>8 DEF OnlyChanges
<1>10. \A id \in Ids : id \in indexed <=> table[id] # None
  BY <1>2 DEF BehindIsDifference
<1>11. \A v \in Victims : idMap[v] \in Ids /\ table'[idMap[v]] = None
                          /\ idMap[v] \in indexed
  <2> SUFFICES ASSUME NEW v \in Victims
               PROVE  /\ idMap[v] \in Ids /\ table'[idMap[v]] = None
                      /\ idMap[v] \in indexed
    OBVIOUS
  <2>1. v \in Rows /\ v # None
    BY <1>4 DEF Rows, None
  <2>2. idMap[v] \in Ids
    BY <2>1 DEF TypeOK
  <2>3. table[idMap[v]] = v
    BY <1>2, <2>1 DEF WholeTable
  <2>4. table'[idMap[v]] = None
    BY <1>1, <2>2 DEF Without
  <2>5. QED
    BY <1>10, <2>1, <2>2, <2>3, <2>4
<1>12. \A j \in DOMAIN behind' :
          /\ behind'[j].op = "add" <=> table'[behind'[j].id] # None
          /\ behind'[j].op = "add" <=> behind'[j].id \notin indexed'
  BY <1>1, <1>8, <1>11
<1>13. \A j, k \in DOMAIN behind' : behind'[j].id = behind'[k].id => j = k
  <2>1. \A j, k \in DOMAIN behind' : idMap[order[j]] = idMap[order[k]] => j = k
    BY <1>5, <1>7, <1>8 DEF MapInv
  <2>2. QED
    BY <2>1, <1>8
<1>14. \A id \in Ids : (\A j \in DOMAIN behind' : behind'[j].id # id) =>
                          (id \in indexed' <=> table'[id] # None)
  <2> SUFFICES ASSUME NEW id \in Ids, \A j \in DOMAIN behind' : behind'[j].id # id
               PROVE  id \in indexed' <=> table'[id] # None
    OBVIOUS
  <2>1. \A v \in Victims : idMap[v] # id
    BY <1>5, <1>7, <1>8
  <2>2. table'[id] = table[id]
    BY <1>1, <2>1 DEF Without
  <2>3. QED
    BY <1>1, <1>10, <2>2
<1>15. QED
  BY <1>9, <1>12, <1>13, <1>14 DEF BehindIsDifference

(* An insert: the index has yet to add the new id.                            *)
LEMMA InsertKeeps ==
    ASSUME TypeOK, MapInv, VictimsInv, WritersInv, IndexInv,
           NEW w \in Writers, InsertRow(w) \/ InsertRaises(w)
    PROVE  IndexInv'
PROOF
<1>1. PICK i \in DOMAIN victims : i = slice[w]
  BY InsertMoves
<1>2. /\ pc = "reinsert" /\ pc' = pc /\ gaveUp' = gaveUp /\ writer[w] = "busy"
  BY InsertMoves DEF InsertRow, InsertRaises, history
<1>3. CASE UNCHANGED server
  BY <1>2, <1>3, IndexKept DEF server, Over
<1>4. CASE Put(slice[w])
  <2> SUFFICES ASSUME ~gaveUp' PROVE BehindIsDifference' /\ OnlyChanges("add")'
    BY <1>2 DEF IndexInv, Caught
  <2>1. /\ table' = [table EXCEPT ![New(i)] = victims[i]]
        /\ behind' = Append(behind, [id |-> New(i), op |-> "add"])
        /\ indexed' = indexed
    BY <1>1, <1>4 DEF Put
  <2>2. BehindIsDifference /\ OnlyChanges("add")
    BY <1>2 DEF IndexInv, Over
  <2>3. New(i) \in Ids /\ table[New(i)] = None /\ victims[i] # None
    BY <1>1, <1>2, NewIsFresh, Sizes DEF Numbered, WritersInv
  <2>4. /\ table'[New(i)] = victims[i]
        /\ \A id \in Ids : id # New(i) => table'[id] = table[id]
    BY <2>1, <2>3, Sizes
  <2>5. \A j \in DOMAIN behind : behind[j].id # New(i) /\ behind[j].id \in Ids
    BY <2>2, <2>3, BehindSizes DEF BehindIsDifference, OnlyChanges
  <2>6. New(i) \notin indexed
    BY <2>2, <2>3, <2>5 DEF BehindIsDifference
  <2> DEFINE n == Len(behind)
  <2>7. /\ n \in Nat /\ DOMAIN behind = 1 .. n
        /\ DOMAIN behind' = 1 .. n + 1
        /\ \A j \in 1 .. n : behind'[j] = behind[j]
        /\ behind'[n + 1] = [id |-> New(i), op |-> "add"]
    <3>1. [id |-> New(i), op |-> "add"] \in Changes
      BY <2>3 DEF Changes
    <3>2. behind \in Seq(Changes)
      BY DEF TypeOK
    <3>3. QED
      BY <2>1, <3>1, <3>2
  <2> HIDE DEF n
  <2>8. \A j \in 1 .. n + 1 : j \in 1 .. n \/ j = n + 1
    BY <2>7
  <2>9. OnlyChanges("add")'
    BY <2>2, <2>7, <2>8 DEF OnlyChanges
  <2>10. \A j \in 1 .. n + 1 :
            /\ behind'[j].op = "add" <=> table'[behind'[j].id] # None
            /\ behind'[j].op = "add" <=> behind'[j].id \notin indexed'
    <3> SUFFICES ASSUME NEW j \in 1 .. n + 1
                 PROVE  /\ behind'[j].op = "add" <=> table'[behind'[j].id] # None
                        /\ behind'[j].op = "add" <=> behind'[j].id \notin indexed'
      OBVIOUS
    <3>1. CASE j = n + 1
      BY <3>1, <2>1, <2>3, <2>4, <2>6, <2>7
    <3>2. CASE j \in 1 .. n
      BY <3>2, <2>1, <2>2, <2>4, <2>5, <2>7 DEF BehindIsDifference
    <3>3. QED
      BY <3>1, <3>2, <2>8
  <2>11. \A j, k \in 1 .. n + 1 : behind'[j].id = behind'[k].id => j = k
    <3> SUFFICES ASSUME NEW j \in 1 .. n + 1, NEW k \in 1 .. n + 1,
                        behind'[j].id = behind'[k].id
                 PROVE  j = k
      OBVIOUS
    <3>1. CASE j \in 1 .. n /\ k \in 1 .. n
      BY <3>1, <2>2, <2>7 DEF BehindIsDifference
    <3>2. CASE j = n + 1 /\ k \in 1 .. n
      BY <3>2, <2>5, <2>7
    <3>3. CASE k = n + 1 /\ j \in 1 .. n
      BY <3>3, <2>5, <2>7
    <3>4. CASE j = n + 1 /\ k = n + 1
      BY <3>4
    <3>5. QED
      BY <3>1, <3>2, <3>3, <3>4, <2>8
  <2>12. \A id \in Ids : (\A j \in 1 .. n + 1 : behind'[j].id # id) =>
                            (id \in indexed' <=> table'[id] # None)
    <3> SUFFICES ASSUME NEW id \in Ids, \A j \in 1 .. n + 1 : behind'[j].id # id
                 PROVE  id \in indexed' <=> table'[id] # None
      OBVIOUS
    <3>1. n + 1 \in 1 .. n + 1 /\ \A j \in 1 .. n : j \in 1 .. n + 1
      BY <2>7
    <3>2. id # New(i)
      BY <3>1, <2>7
    <3>3. \A j \in DOMAIN behind : behind[j].id # id
      BY <3>1, <2>7
    <3>4. QED
      BY <3>2, <3>3, <2>1, <2>2, <2>4 DEF BehindIsDifference
  <2>13. QED
    BY <2>7, <2>9, <2>10, <2>11, <2>12 DEF BehindIsDifference
<1>5. QED
  BY <1>3, <1>4 DEF InsertRow, InsertRaises

(* A wait that has not given up leaves nothing behind.                        *)
LEMMA DeleteCaughtUp ==
    ASSUME ChurnInv, WaitsFor = "rows", IndexInv, SyncDelete
    PROVE  IndexInv'
PROOF
<1> SUFFICES ASSUME ~gaveUp' PROVE BehindIsDifference' /\ behind' = << >>
  BY DEF IndexInv, Caught, SyncDelete, Wait
<1>1. /\ pc = "syncDelete" /\ ~gaveUp /\ UNCHANGED <<table, indexed, behind>>
      /\ Cardinality(indexed) = N - Len(victims)
  BY DEF SyncDelete, Wait, Arrived, server
<1>2. BehindIsDifference /\ OnlyChanges("drop")
  BY <1>1 DEF IndexInv, Over
<1>3. IsFiniteSet(Stored) /\ Cardinality(Stored) = N - Len(victims)
  BY <1>1, RestCount DEF ChurnInv, TableInv, Deleted
<1>4. behind = << >>
  BY <1>1, <1>2, <1>3, CaughtUp DEF ChurnInv
<1>5. QED
  BY <1>1, <1>2, <1>4 DEF BehindIsDifference

(* Nor does the wait after the re-insert.                                     *)
LEMMA InsertCaughtUp ==
    ASSUME ChurnInv, WaitsFor = "rows", IndexInv, SyncInsert
    PROVE  IndexInv'
PROOF
<1> SUFFICES ASSUME ~gaveUp' PROVE BehindIsDifference' /\ behind' = << >>
  BY DEF IndexInv, Caught, SyncInsert, Wait
<1>1. /\ pc = "syncInsert" /\ ~gaveUp /\ UNCHANGED <<table, indexed, behind>>
      /\ Cardinality(indexed) = N
  BY DEF SyncInsert, Wait, Arrived, server
<1>2. BehindIsDifference /\ OnlyChanges("add")
  BY <1>1 DEF IndexInv, Over
<1>3. IsFiniteSet(Stored) /\ Cardinality(Stored) = N
  BY <1>1, WholeCount DEF ChurnInv, TableInv, Standing, Remade
<1>4. behind = << >>
  BY <1>1, <1>2, <1>3, CaughtUp DEF ChurnInv
<1>5. QED
  BY <1>1, <1>2, <1>4 DEF BehindIsDifference

(* Every step keeps what the index is behind by, the difference of the two.   *)
LEMMA IndexStep ==
    WaitsFor = "rows" /\ ChurnInv /\ IndexInv /\ [Next]_vars => IndexInv'
PROOF
<1> SUFFICES ASSUME WaitsFor = "rows", ChurnInv, IndexInv, [Next]_vars PROVE IndexInv'
  OBVIOUS
<1>0. TypeOK /\ MapInv /\ VictimsInv /\ TableInv /\ WritersInv /\ CountInv
  BY DEF ChurnInv
<1> USE DEF Over, Caught
<1>1. CASE Aside
  <2>1. CASE Absorb
    BY <1>0, <2>1, AbsorbKeeps
  <2>2. CASE PoolStarts \/ PoolStops \/ \E r \in Readers : PoolRuns(r)
    BY <2>2, IndexKept DEF PoolStarts, PoolStops, PoolRuns, server, history
  <2>3. QED
    BY <1>1, <2>1, <2>2 DEF Aside
<1>2. CASE WriterStays
  BY <1>2, StaysMoves, IndexKept DEF corpus, history
<1>3. CASE Turn
  <2>1. CASE Prepare \/ SyncBase \/ ScoreBase \/ Finish \/ SkipStep
    BY <2>1, IndexKept
    DEF Prepare, SyncBase, ScoreBase, Finish, SkipStep, Wait, Go, server,
        history
  <2>2. CASE SyncDelete
    BY <2>2, DeleteCaughtUp
  <2>3. CASE SyncInsert
    BY <2>3, InsertCaughtUp
  <2>4. CASE BaselineEnds \/ ReadersStarted \/ StopReaders \/ Incomplete
    BY <2>4, IndexKept
    DEF BaselineEnds, ReadersStarted, StopReaders, Stop, Incomplete,
        AfterIncomplete, Go, Abort, server, history
  <2>5. CASE ScoreBefore \/ Maintain \/ ScoreAfter
    BY <2>5, IndexKept
    DEF ScoreBefore, Maintain, ScoreAfter, NextStep, Go, server, history
  <2>6. CASE EngineRaises \/ ConnectRaises \/ \E w \in Writers : Connect(w)
    BY <2>6, IndexKept
    DEF EngineRaises, ConnectRaises, Connect, Abort, server, history
  <2>7. QED
    BY <1>3, <2>1, <2>2, <2>3, <2>4, <2>5, <2>6 DEF Turn
<1>4. CASE BeginStep
  BY <1>4, IndexKept DEF BeginStep, Go, server, history
<1>5. CASE Delete
  BY <1>0, <1>5, DeleteKeeps
<1>6. CASE DeleteRaises
  BY <1>6 DEF DeleteRaises, Abort, IndexInv
<1>7. CASE StartReaders
  BY <1>7, IndexKept DEF StartReaders, Go, server, history
<1>8. CASE BeginReinsert \/ ReinsertEnds \/ Reinserted
  BY <1>8, IndexKept
     DEF BeginReinsert, ReinsertEnds, Reinserted, Go, server, history
<1>9. ASSUME NEW w \in Writers, Take(w) PROVE IndexInv'
  BY <1>9, IndexKept DEF Take, server, history
<1>10. ASSUME NEW w \in Writers, InsertRow(w) \/ InsertRaises(w) PROVE IndexInv'
  BY <1>0, <1>10, InsertKeeps
<1>11. CASE UNCHANGED vars
  BY <1>11, IndexKept DEF vars, server, history
<1>12. QED
  BY <1>1, <1>2, <1>3, <1>4, <1>5, <1>6, <1>7, <1>8, <1>9, <1>10, <1>11,
     StepKinds
  DEF WriterStays

(* The first index is empty and behind by nothing.                            *)
LEMMA IndexInit == Init => IndexInv
PROOF
<1> SUFFICES ASSUME Init PROVE IndexInv
  OBVIOUS
<1>1. /\ pc = "prepare" /\ behind = << >> /\ indexed = Rows
      /\ table = [id \in Ids |-> IF id \in Rows THEN id ELSE None]
  BY DEF Init
<1>2. \A id \in Ids : id \in Rows => id # None
  BY DEF Rows, None
<1>3. BehindIsDifference
  BY <1>1, <1>2 DEF BehindIsDifference
<1>4. QED
  BY <1>1, <1>3 DEF IndexInv

(* Unless a wait gave up, the index that churn.py scores has all that was     *)
(* written and nothing else, where the driver waits for the count of the      *)
(* rows. A driver that only looks for the newest row is promised nothing.     *)
THEOREM ChurnScoresTheIndex ==
    ASSUME WaitsFor = "rows"
    PROVE  Spec => []ScoredIsIndexed
PROOF
<1>1. Init => ChurnInv /\ IndexInv
  BY ChurnInit, IndexInit
<1>2. ChurnInv /\ IndexInv /\ [Next]_vars => (ChurnInv /\ IndexInv)'
  BY ChurnStep, IndexStep
<1>3. ChurnInv /\ IndexInv => ScoredIsIndexed
  <2> SUFFICES ASSUME ChurnInv, IndexInv, Scoring, ~gaveUp
               PROVE  indexed = {id \in Ids : table[id] # None}
    BY DEF ScoredIsIndexed
  <2>1. BehindIsDifference /\ behind = << >>
    BY DEF IndexInv, Scoring, Over, Caught
  <2>2. \A id \in Ids : id \in indexed <=> table[id] # None
    BY <2>1 DEF BehindIsDifference
  <2>3. indexed \subseteq Ids
    BY DEF ChurnInv, TypeOK
  <2>4. QED
    BY <2>2, <2>3
<1>4. QED
  BY <1>1, <1>2, <1>3, PTL DEF Spec
=============================================================================
