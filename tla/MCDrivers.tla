------------------------------ MODULE MCDrivers ------------------------------
(* Four rows on a line, two queries, two neighbours: small enough to list,    *)
(* large enough for both filters to cut the rows in different ways, for a     *)
(* subset, and for two churn steps to outgrow MyVector's graph. A run is one  *)
(* unit that churns, or two that share the cache directory.                   *)
EXTENDS Drivers

MCTrain == <<5, 1, 9, 3>>
MCTest == <<2, 8>>
MCPivotRows(rows) == <<rows, 1>>
MCRenumber == <<1, 0>>
UnitOf(engine, bulk, subset, threads, slice, steps) ==
    [engine |-> engine, bulk |-> bulk, subset |-> subset, threads |-> threads,
     slice |-> slice, steps |-> steps]
Churning ==
    {UnitOf("mariadb", TRUE, None, t, 1, <<2, 2>>) : t \in {1, 2}}
    \cup {UnitOf("pgvector", TRUE, s, 2, 2, <<2>>) : s \in {3, None}}
    \cup {UnitOf("percona", b, None, 1, 2, <<2>>) : b \in BOOLEAN}
    \cup {UnitOf("myvector", TRUE, s, t, 1, n) :
              s \in {3, None}, t \in {1, 2}, n \in {<<1>>, <<2, 2>>, <<3>>}}
    \cup {UnitOf("myvector", FALSE, None, 1, 1, <<1>>)}
    \cup {UnitOf("valkey", TRUE, 3, 1, 2, <<2>>), UnitOf("valkey", TRUE, 3, 2, 1, <<2>>)}
    \cup {UnitOf("mongodb", TRUE, 3, t, 1, <<2>>) : t \in {1, 2}}
Sharing ==
    {UnitOf("alisql", TRUE, s, 2, 1, << >>) : s \in {3, None}}
    \cup {UnitOf("villagesql", FALSE, 3, 1, 1, << >>),
          UnitOf("mongodb", TRUE, None, 1, 1, << >>)}
MCPlans == {<<u>> : u \in Churning} \cup (Sharing \X Sharing)

-----------------------------------------------------------------------------
(* The operators of the drivers, of the datasets and of the wait counters,    *)
(* evaluated over bounded inputs against what they are for: assumptions TLC   *)
(* checks before the run.                                                     *)
Engines == C!KnownEngines
IndexWith(m, construction) ==
    [m |-> m, construction |-> construction, metric |-> Metric, dim |-> 1,
     quantization |-> "none", storage |-> "InnoDB", mode |-> "incremental"]

-----------------------------------------------------------------------------
(* Every engine has one driver, a named class wins over it, and nothing else  *)
(* is driven (drivers/__init__.get_driver).                                   *)
ASSUME EveryEngineHasADriver ==
    /\ \A e \in Engines : C!GetDriver(e, None) \in C!DriverClasses
    /\ \A e \in Engines, d \in C!DriverClasses : C!GetDriver(e, d) = d
    /\ C!GetDriver("oracle", None) = None
    /\ C!GetDriver("mariadb", "OracleDriver") = None

(* The options of a profile are not lost on the way to the index a driver     *)
(* declares, a build width that is checked is one the engine takes, and the   *)
(* live index of a server wins over the profile (index_clause, create_index). *)
ASSUME IndexIsAsAsked ==
    \A m \in {2, 8, 16, 129}, construction \in {None, 8, 64, 300} :
        LET index == IndexWith(m, construction)
            checked == C!CheckedEfConstruction(m, construction)
        IN /\ \A d \in C!MySQLFamily :
                  /\ C!IndexClause(d, index).m = m
                  /\ construction # None
                         => C!IndexClause(d, index).construction = construction
                  /\ C!CreateTableDdl(d, index, TRUE).storage = "InnoDB"
                  /\ C!StorageEngineInUse(d, index) = "InnoDB"
           /\ checked # None => checked >= m /\ checked <= 32 * m
           /\ C!VillagesqlIndexClause(index).construction
                  = C!VillagesqlCapabilities(index).construction
           /\ C!PostgresIndex(index).construction \in {200, construction}
           /\ C!ColumnOptions(index, 9).size = 9
           /\ C!IndexClauseFromServer(None, index) = C!IndexClause("PerconaDriver", index)
           /\ C!IndexClauseFromServer("shown", index) = "shown"
           /\ C!StorageEngineInUse("MongoDriver", index) = None

(* An index that is kept during the load is declared by the engines that can, *)
(* in that mode; one whose bulk build is broken has no repair; and a format   *)
(* is unknown in both its parts or in neither (drivers' capabilities).        *)
ASSUME CapabilitiesAgree ==
    /\ \A mode \in {"post", "incremental"} :
          LET index == [IndexWith(16, None) EXCEPT !.mode = mode]
          IN /\ C!PerconaCapabilities(index).incremental <=> mode = "incremental"
             /\ C!VillagesqlCapabilities(index).incremental <=> mode = "incremental"
             /\ ~ C!MongoCapabilities(index, 5).incremental
             /\ ~ C!ValkeyCapabilities(None).incremental
    /\ C!DeclareBulkBuild("PerconaDriver", FALSE) = "none"
    /\ \A d \in C!DriverClasses :
          C!IndexFormat(d)[2] = None <=> C!IndexFormat(d)[1] = "unknown"

(* A search engine is asked for at least as many candidates as it must return *)
(* (mongo._pipeline, valkey._search), and what the driver says it searched is *)
(* what it asked for - but for valkey, whose effective_ef is base's.          *)
ASSUME WidthIsWhatIsSaid ==
    \A ef, k \in 1..3 :
        /\ C!MongoPipeline(ef, k, FALSE, "tag").width = C!EffectiveEf("MongoDriver", ef, k)
        /\ C!ValkeySearch(ef, k, TRUE, "tag").width >= k
        /\ C!ValkeySearch(ef, k, TRUE, "tag").width # C!EffectiveEf("ValkeyDriver", ef, k)
               <=> ef < k
        /\ \A d \in C!DriverClasses : C!EffectiveEf(d, ef, k) >= ef

-----------------------------------------------------------------------------
(* One value of each filter column goes with each row, whatever rows are      *)
(* taken: a bare sequence stands for both (drivers/base.py, RowAttrs).        *)
ASSUME AttributesFollowRows ==
    \A values \in [1..3 -> 0..1], rows \in [1..2 -> 1..3] :
        LET attributes == C!Coerce(values)
            taken == C!AttrsOf(attributes, rows)
        IN /\ attributes.tag = values /\ attributes.ctag = values
           /\ \A i \in 1..2 : C!RowOf(taken, i) = C!RowOf(attributes, rows[i])
           /\ C!RowAttrs(values, Tail(values)) = None

(* A size is never negative; files that are one on the disk count once, and   *)
(* what a directory holds is the sum of its kinds.                            *)
ASSUME SizesAreOfTheIndex ==
    /\ \A before, after, used \in 0..3 :
          LET index == C!ValkeyIndexBytes(before, after, 1)
          IN /\ C!VillagesqlIndexBytes(before, after) >= 0
             /\ index >= 1 /\ C!ValkeyTableBytes(before, used, index) >= 0
    /\ \A bytes \in [1..3 -> 0..2], inodes \in [1..3 -> 1..3] :
          LET files == {[name |-> <<"t1.ibd", "a", "b">>[i], inode |-> inodes[i],
                         prefix |-> "ann.t1.v.hnsw.index", kind |-> i % 2,
                         bytes |-> bytes[inodes[i]]] : i \in 1..3}
              real == {f.inode : f \in files}
          IN /\ C!FamilyTableBytes(files, 7) \in {7, bytes[inodes[1]]}
             /\ C!GlobBytes(files, {"t1.ibd", "a", "b"})
                    = C!SumOf(real, LAMBDA n : bytes[n])
             /\ C!FamilyIndexBytes(files, {"none"}, 7) = 7
             /\ C!MongoIndexBytes(files, 0) = C!MyvectorIndexBytes(files)
             /\ C!SumOf(DOMAIN C!MongoBreakdown(files),
                        LAMBDA n : C!MongoBreakdown(files)[n])
                    = C!MyvectorIndexBytes(files)
    /\ C!IndexedMemory({[key |-> "user_indexed_memory", value |-> 5],
                        [key |-> "used_memory", value |-> 9]}) = 5

(* A directory that is said to have settled stood within a percent over two   *)
(* readings, and the size published is a reading (settle_index_bytes).        *)
ASSUME SettledSizeIsNear ==
    \A readings \in [1..3 -> {0, 1000, 1009, 1010, 2000}], cap \in 2..3 :
        LET size == C!SettleIndexBytes(readings, cap)
        IN IF readings[1] = 0 THEN size.bytes = 0
           ELSE /\ size.bytes = readings[size.readings]
                /\ size.readings \in 2..cap
                /\ size.settled =>
                       100 * AbsOf(size.bytes - readings[size.readings - 1])
                           < readings[size.readings - 1]
                /\ ~ size.settled => size.readings = cap

(* A counter that cannot be read leaves out its own name and no other, and no *)
(* text or flag becomes a number (status_counters, status_int).               *)
ASSUME CountersKeepTheirNames ==
    \A kinds \in [{"a", "b"} -> {"int", "bool", "text", "unread", "absent"}] :
        LET Value(kind) == [kind |-> kind, number |-> IF kind = "int" THEN 4 ELSE None]
            answer == [n \in {"a", "b"} |->
                          CASE kinds[n] = "unread" -> None
                            [] kinds[n] = "absent" -> << >>
                            [] OTHER -> <<[fields |-> 2, name |-> n,
                                           value |-> Value(kinds[n])]>>]
            read == C!StatusCounters("global", {"a", "b"}, answer)
        IN /\ DOMAIN read = {n \in {"a", "b"} : kinds[n] = "int"}
           /\ C!StatusCounters("both", {"a"}, answer) = None

(* Only a row that uses the index as its access says a plan does, when the    *)
(* dialect marks that; a plan that could not be read never does               *)
(* (explain_uses_vector_index).                                               *)
PlanRow(columns, access, words) ==
    [columns |-> columns, access |-> access, words |-> words, table |-> "t1"]
ASSUME PlanIsTheIndex ==
    /\ \A d \in C!DriverClasses, filtered \in BOOLEAN :
          ~ C!ExplainUsesVectorIndex(d, None, filtered)
    /\ ~ C!ExplainUsesVectorIndex("PerconaDriver",
             {PlanRow(12, "ALL", {"vi", "vector_ann"})}, FALSE)
    /\ C!ExplainUsesVectorIndex("PerconaDriver",
             {PlanRow(12, "vector_ann", {"vi", "vector_ann"})}, FALSE)
    /\ C!ExplainUsesVectorIndex("PerconaDriver",
             {PlanRow(1, None, {"vi", "vector_ann"})}, FALSE)
    /\ ~ C!ExplainUsesVectorIndex("MyVectorDriver",
             {[PlanRow(12, "ALL", {}) EXCEPT !.table = "myvector_ann"]}, TRUE)

-----------------------------------------------------------------------------
(* The queries and the truths of a dataset are cut to one length.             *)
ASSUME QueriesAndTruthsAgree ==
    \A maxTest \in {None, 0, 1, 2, 5} :
        LET file == [test |-> Test, neighbors |-> MaskedGroundTruth(Len(Train), K,
                                                                    DOMAIN Train)]
            loaded == LoadDataset(file, maxTest)
        IN Len(loaded.test) = Len(loaded.neighbors) /\ Len(loaded.test) <= Len(Test)
ASSUME NoFileNoDataset == LoadDataset(None, None) = None

(* A filtered truth has admitted rows only, as many as there can be, and no   *)
(* admitted row left out is nearer than one in it.                            *)
ASSUME TruthIsNearest ==
    \A bound \in 1..Buckets, k \in 1..3 :
        LET truth == FilteredGroundTruth(Len(Train), k, bound, Buckets)
            admitted == Admitted(AssignTags(Len(Train), Buckets), bound)
        IN \A q \in DOMAIN Test :
              /\ Len(truth[q]) = Smaller(k, Cardinality(admitted))
              /\ ToSet(truth[q]) \subseteq admitted
              /\ \A i \in ToSet(truth[q]), j \in admitted \ ToSet(truth[q]) :
                     Cost(Test[q], Train[i]) <= Cost(Test[q], Train[j])

(* The distance rule never scores an answer lower than the identity rule, and *)
(* both score the truth itself one.                                           *)
Share(a, b) == a[1] * b[2] <= b[1] * a[2]
ASSUME DistanceIsNoStricter ==
    LET truth == MaskedGroundTruth(Len(Train), K, DOMAIN Train)
    IN \A a, b \in {s \in [1..K -> DOMAIN Train] : s[1] # s[2]} :
          /\ Share(RecallAtK(<<a, b>>, truth, K), RecallThreshold(<<a, b>>, truth, << >>))
          /\ RecallAtK(<< >>, truth, K) = None
          /\ LET own == RecallAtK(truth, truth, K) IN own[1] = own[2]

(* A threshold admits the share it was asked for, or more by less than the    *)
(* bucket or the cluster that took it there.                                  *)
ASSUME ThresholdAdmitsEnough ==
    \A ctags \in [1..4 -> 0..1], percent \in {1, 50, 99, 100} :
        LET found == CtagThresholdFor(ctags, percent, 2)
        IN /\ 100 * found.actual[1] >= percent * found.actual[2]
           /\ found.threshold > 1 =>
                  100 * Cardinality(Admitted(ctags, found.threshold - 1))
                      < percent * Len(ctags)

-----------------------------------------------------------------------------
(* What a window waited for is ranked by the time where there is one, has the *)
(* heaviest event first, and is nothing at all in a window in which nothing   *)
(* moved (server_waits.summarise, top_event).                                 *)
Order == [x |-> 1, y |-> 2]
ASSUME TopEventIsHeaviest ==
    \A counts \in [{"x", "y"} -> 0..2], waits \in [{"x", "y"} -> {None, 0, 3, 7}] :
        LET events == [n \in {"x", "y"} |-> W!Event(counts[n], waits[n])]
            delta == W!CounterDelta(<< >>, events, "s", Order).snapshot
            top == W!TopEvent(delta)
            moved == {n \in {"x", "y"} : W!IsMove(events[n])}
        IN /\ top = None <=> moved = {}
           /\ top # None => \A n \in moved :
                  W!Weight(top[2], delta.rankedBy) >= W!Weight(events[n], delta.rankedBy)
           /\ W!TopEvent(W!CounterDelta(events, events, "s", Order).snapshot) = None

(* What a server answers in another shape than asked is left out, and is no   *)
(* zero (innodb mutexes, LATENCY LATEST and its threshold).                   *)
ASSUME UnreadIsNotZero ==
    /\ W!InnodbMutex({[name |-> "a", waits |-> None]}) = None
    /\ W!InnodbMutex({[name |-> "a", waits |-> 2], [name |-> "b", waits |-> None]})
           = [n \in {"a"} |-> 2]
    /\ W!LatencyLatest(None) = None
    /\ W!LatencyLatest({[fields |-> 3], [fields |-> 4]}) = {[fields |-> 4]}
    /\ W!LatencyThreshold(None) = None /\ W!LatencyThreshold(100) = 100
=============================================================================
