------------------------------- MODULE Drivers -------------------------------
(* Units of the ops harness over the engines' drivers: load, index, score     *)
(* against the true neighbours, read the wait counters around a window, churn *)
(* and repair. What the harness does around these calls is HarnessUnit's and  *)
(* Churn's; here they are the calls a driver receives, and in that order.     *)
EXTENDS MyVectorDriver, MongoDriver, ValkeyDriver

-----------------------------------------------------------------------------
(* The steps of the drivers whose engine keeps the index inside the statement *)
(* that writes: the MySQL family (harness/drivers/mysql_family.py and         *)
(* villagesql.py) and pgvector (postgres.py).                                 *)

SqlNames == {"MariaDBDriver", "AliSQLDriver", "PerconaDriver",
             "VillageSQLDriver", "PostgresDriver"}
IsSql == unit.driver \in SqlNames

(* Whether the schema comes with its index: always for MariaDB and AliSQL,    *)
(* and where the mode says so for the others.                                 *)
InlineIndex(driver, mode) ==
    driver \in {"MariaDBDriver", "AliSQLDriver"} \/ mode = "incremental"

SqlSchema ==
    /\ pc = "schema" /\ IsSql
    /\ srv' = [EmptyServer EXCEPT !.built = InlineIndex(unit.driver, unit.mode)]
    /\ drv' = [main |-> NewDriver]
    /\ GoTo("load") /\ Kept /\ NoFault
    /\ UNCHANGED cacheVars /\ UNCHANGED restVars

(* The bulk build: one statement, over what was loaded. On a server it is     *)
(* declared broken on, it is run all the same, and takes the server with it.  *)
SqlIndex ==
    /\ pc = "index" /\ IsSql
    /\ \/ /\ unit.bulk
          /\ srv' = [srv EXCEPT !.index = LiveIds, !.built = TRUE]
          /\ GoTo("filters") /\ Kept /\ NoFault
          /\ UNCHANGED <<drv, cache, tmp>> /\ UNCHANGED restVars
       \/ ~ unit.bulk /\ UnitEnds

(* Postgres keeps its autovacuum off the table while churn measures ...       *)
PrepareChurn(s) ==
    IF unit.driver = "PostgresDriver" THEN [s EXCEPT !.autovacuum = FALSE] ELSE s

(* ... and gives it back with the VACUUM, whether that succeeds or raises.    *)
Vacuum ==
    /\ pc = "maintain" /\ unit.driver = "PostgresDriver"
    /\ srv' = [srv EXCEPT !.autovacuum = TRUE]
    /\ GoTo("done") /\ NoFault /\ Kept /\ UNCHANGED <<drv, cache, tmp>> /\ UNCHANGED restVars

(* Percona's repair builds the index again, where the bulk build works; the   *)
(* other engines of the family have none.                                     *)
ReplaceIndex ==
    /\ pc = "maintain" /\ IsSql /\ unit.driver # "PostgresDriver"
    /\ srv' = IF C!DeclareBulkBuild(unit.driver, unit.bulk) = "index-replace"
              THEN [srv EXCEPT !.index = LiveIds] ELSE srv
    /\ GoTo("done") /\ Kept /\ NoFault
    /\ UNCHANGED <<drv, cache, tmp>> /\ UNCHANGED restVars

SqlNext == SqlSchema \/ SqlIndex \/ Vacuum \/ ReplaceIndex

-----------------------------------------------------------------------------
(* The load: a range of rows for each thread, by the engine's own division.   *)
LoadTasks(driver, rows, threads) ==
    LET chunk == (rows + threads - 1) \div threads
        task(at, hi) == [at |-> at, hi |-> hi, failed |-> FALSE]
    IN IF driver \in {"ValkeyDriver", "MongoDriver"}
       THEN [t \in 1 .. (rows + chunk - 1) \div chunk |->
                task((t - 1) * chunk, Smaller(t * chunk, rows))]
       ELSE [t \in 1 .. threads |->
                task((rows * (t - 1)) \div threads, (rows * t) \div threads)]

(* A COPY is one statement for the range, everything else goes in batches.    *)
RowsAtOnce(task) ==
    IF unit.driver = "PostgresDriver" /\ unit.mode = "post"
    THEN task.hi - task.at ELSE Smaller(LoadBatch, task.hi - task.at)

DatasetRow(i) == [row |-> i] @@ C!RowOf(attrs, i)

Load ==
    /\ pc = "load"
    /\ loaders' = LoadTasks(unit.driver, unit.rows, unit.threads)
    /\ GoTo("loading") /\ Kept /\ NoFault
    /\ UNCHANGED <<srv, drv, cache, tmp, attrs, filters, score, poll, churn, window>>

LoadRows(t) ==
    /\ pc = "loading" /\ t \in DOMAIN loaders
    /\ LET task == loaders[t] IN
       /\ task.at < task.hi /\ ~ task.failed
       /\ \/ /\ srv' = Put(srv, [i \in task.at + 1 .. task.at + RowsAtOnce(task) |->
                                    DatasetRow(i)])
             /\ loaders' = [loaders EXCEPT ![t].at = @ + RowsAtOnce(task)]
             /\ NoFault
          \/ /\ Fault /\ loaders' = [loaders EXCEPT ![t].failed = TRUE]
             /\ UNCHANGED srv
    /\ UNCHANGED <<pc, drv, cache, tmp, attrs, filters, score, poll, churn, window>>
    /\ Kept

(* Every thread has returned; one that raised raises here, and then nothing   *)
(* is built. An engine whose index was kept during the load needs no build.   *)
Loaded ==
    /\ pc = "loading"
    /\ \A t \in DOMAIN loaders : loaders[t].failed \/ loaders[t].at = loaders[t].hi
    /\ IF \E t \in DOMAIN loaders : loaders[t].failed THEN UnitEnds
       ELSE /\ GoTo(IF srv.built THEN "filters" ELSE "index")
            /\ loaders' = << >> /\ Kept /\ NoFault
            /\ UNCHANGED <<srv, drv, cache, tmp, attrs, filters, score, poll, churn, window>>

-----------------------------------------------------------------------------
(* The filters of the unit, the whole index first.                            *)
ScoreFilters ==
    /\ pc = "filters" /\ filters = None
    /\ filters' = [truth |-> None,
                   todo |-> IF "filtered" \in C!DeclinedWorkloads(unit.driver)
                            THEN <<None>> ELSE <<None>> \o FilterColumns]
    /\ UNCHANGED <<pc, srv, drv, cache, tmp, attrs, loaders, score, poll, churn, window>>
    /\ Kept /\ NoFault

FilterOf(column) ==
    ResolveFilter(column, unit.rows, Percent, Buckets, Clusters,
                  CachedValue(CtagsName))
TruthName(column) ==
    IF column = None THEN TruthCacheName(unit.rows)
    ELSE FilteredTruthCacheName(unit.rows, column, FilterOf(column).threshold,
                                FilterOf(column).width)
TruthOf(column) ==
    MaskedGroundTruth(unit.rows, K, IF column = None THEN Rows ELSE FilterOf(column).mask)

(* The file's own neighbours are the truth for all of its rows.               *)
TruthIsFile(column) == column = None /\ unit.rows = Len(Train)
HaveTruth(truth) == filters' = [filters EXCEPT !.truth = truth]
AtTruth == pc = "filters" /\ filters # None /\ filters.truth = None /\ filters.todo # << >>
TruthVars == <<srv, drv, attrs, loaders, score, poll, churn, window>>

FileTruth ==
    /\ AtTruth /\ TruthIsFile(Head(filters.todo)) /\ HaveTruth(TruthOf(None))
    /\ UNCHANGED TruthVars /\ UNCHANGED <<pc, cache, tmp>> /\ Kept /\ NoFault
CachedTruth ==
    /\ AtTruth /\ ~ TruthIsFile(Head(filters.todo))
    /\ CachedValue(TruthName(Head(filters.todo))) # None
    /\ HaveTruth(CachedValue(TruthName(Head(filters.todo))))
    /\ UNCHANGED TruthVars /\ UNCHANGED <<pc, cache, tmp>> /\ Kept /\ NoFault
ComputeTruth ==
    /\ AtTruth /\ ~ TruthIsFile(Head(filters.todo))
    /\ WriteBeside(TruthName(Head(filters.todo)), TruthOf(Head(filters.todo)))
    /\ GoTo("truth_kept")
    /\ UNCHANGED TruthVars /\ UNCHANGED filters /\ Kept /\ NoFault
KeepTruth ==
    /\ pc = "truth_kept" /\ TakeItsPlace /\ HaveTruth(tmp.value)
    /\ GoTo("filters") /\ UNCHANGED TruthVars /\ Kept /\ NoFault

(* The query a driver composes for it, and the rows the server may answer     *)
(* with: those in the index and in the table that pass the condition.         *)
Query(column) ==
    LET filtered == column # None
        of == IF filtered THEN column ELSE "tag"
    IN CASE unit.driver = "ValkeyDriver" -> C!ValkeySearch(K, K, filtered, of)
         [] unit.driver = "MongoDriver" -> C!MongoPipeline(K, K, filtered, of)
         [] unit.driver = "MyVectorDriver" -> C!AnnSql(K, K)
         [] unit.driver = "VillageSQLDriver" -> C!VillagesqlSelect(K, filtered, of)
         [] unit.driver = "PostgresDriver" -> C!PostgresSelect(K, filtered, of)
         [] OTHER -> C!Select(K, filtered, of)
Reachable(query, threshold) ==
    {i \in LiveIds \cap srv.index :
        query.where # None => srv.table[i][query.where] < threshold}
Nearest(q, ids, n) ==
    FirstOf(SetToSortSeq(ids, LAMBDA a, b :
                LET ca == Cost(Test[q], Train[srv.table[a].row])
                    cb == Cost(Test[q], Train[srv.table[b].row])
                IN ca < cb \/ (ca = cb /\ a < b)), n)

(* An approximate search may miss the nearest of them.                        *)
Answers(column, exact) ==
    LET query == Query(column)
        ids == Reachable(query, IF column = None THEN 0 ELSE FilterOf(column).threshold)
        found(q) == Nearest(q, ids, query.limit)
    IN [q \in DOMAIN Test |->
           IF exact \/ found(q) = << >> THEN found(q) ELSE Tail(found(q))]

Scored(column, exact, truth, rowOf) ==
    score' = [exact |-> exact, whole |-> LiveIds \subseteq srv.index,
              recall |-> RecallThreshold(Answers(column, exact), truth, rowOf)]

(* VillageSQL measures nothing the plan does not answer from the index.       *)
PlanRows(indexed) ==
    {[columns |-> 1, access |-> None, table |-> None,
      words |-> IF indexed THEN {C!VillagesqlDialect.marker} ELSE {"Sort"}]}
Refuses(indexed) ==
    /\ unit.driver = "VillageSQLDriver"
    /\ ~ C!ExplainUsesVectorIndex(unit.driver, PlanRows(indexed), FALSE)

Score ==
    /\ pc = "filters" /\ filters # None /\ filters.truth # None
    /\ \E exact \in BOOLEAN, indexed \in BOOLEAN :
          \/ /\ ~ Refuses(indexed)
             /\ Scored(Head(filters.todo), exact, filters.truth, << >>)
             /\ filters' = [truth |-> None, todo |-> Tail(filters.todo)]
             /\ UNCHANGED <<pc, srv, drv, cache, tmp, attrs, loaders, poll, churn, window>>
             /\ Kept /\ NoFault
          \/ Refuses(indexed) /\ UnitEnds

-----------------------------------------------------------------------------
(* The wait counters around a window. The server counts one event; a restart  *)
(* or a reset takes it back to nothing; each reading may fail.                *)
Snapshot(count, reads) ==
    LET events == [io |-> W!Event(count, count)]
    IN CASE unit.driver = "PostgresDriver" ->
              IF reads THEN W!Read([events |-> [io |-> W!Event(count, None)],
                                    samples |-> count])
              ELSE W!PostgresSample(None)
         [] unit.driver = "ValkeyDriver" ->
              W!ValkeySnapshot([broken |-> ~ reads, events |-> events,
                                latest |-> {}, threshold |-> 0], 0)
         [] unit.driver = "MongoDriver" ->
              W!MongoSnapshot(IF reads THEN [waits |-> [io |-> count],
                                             micros |-> [io |-> count],
                                             gauges |-> None]
                              ELSE None, W!MongotMetrics(None))
         [] OTHER ->
              W!MysqlSnapshot([broken |-> ~ reads, schema |-> TRUE, mutex |-> None,
                               timed |-> {"io"}, synch |-> {}, events |-> events])
NameOrder == [io |-> 1]
Delta(before, after) ==
    CASE unit.driver = "PostgresDriver" -> W!PostgresDelta(before, after, NameOrder)
      [] unit.driver = "ValkeyDriver" -> W!ValkeyDelta(before, after, NameOrder)
      [] unit.driver = "MongoDriver" -> W!MongoDelta(before, after, NameOrder)
      [] OTHER -> W!MysqlDelta(before, after, NameOrder)
WaitsOf(delta) ==
    IF unit.driver = "PostgresDriver" THEN delta ELSE delta.waits

WindowVars == <<srv, drv, cache, tmp, attrs, loaders, poll, churn>>
WindowOpens ==
    /\ pc = "filters" /\ filters # None /\ filters.todo = << >>
    /\ \E reads \in BOOLEAN, count \in {0, 1} :
          window' = [count |-> count, happened |-> 0, published |-> None,
                     before |-> Snapshot(count, reads).snapshot]
    /\ filters' = None /\ score' = None
    /\ GoTo("window") /\ UNCHANGED WindowVars /\ Kept /\ NoFault
ServerCounts ==
    /\ pc = "window" /\ window.happened < 2
    /\ window' = [window EXCEPT !.count = @ + 1, !.happened = @ + 1]
    /\ UNCHANGED <<pc, filters, score>> /\ UNCHANGED WindowVars /\ Kept /\ NoFault
CountersReset ==
    /\ pc = "window" /\ Fault /\ window' = [window EXCEPT !.count = 0]
    /\ UNCHANGED <<pc, filters, score>> /\ UNCHANGED WindowVars /\ Kept
(* Both ends must have been read for a delta.                                 *)
WindowCloses ==
    /\ pc = "window"
    /\ \E reads \in BOOLEAN :
          LET after == Snapshot(window.count, reads).snapshot
          IN window' = [window EXCEPT !.published =
                IF None \in {window.before, after} THEN None
                ELSE LET delta == Delta(window.before, after).snapshot
                     IN IF delta = None THEN None ELSE WaitsOf(delta)]
    /\ GoTo(IF unit.steps = << >> \/ "churn" \in C!DeclinedWorkloads(unit.driver)
            THEN "done" ELSE "churn")
    /\ UNCHANGED <<filters, score>> /\ UNCHANGED WindowVars /\ Kept /\ NoFault

-----------------------------------------------------------------------------
(* Churn. Before its baseline, after a step's deletes and after its writes,   *)
(* the harness waits for the index to have so many rows, and tells the driver *)
(* which row must be gone or there.                                           *)
WaitFor(rows, absent, present) ==
    CASE unit.driver = "MongoDriver" ->
           [absent |-> absent, present |-> present, gone |-> FALSE, said |-> "none"]
      [] unit.driver = "ValkeyDriver" -> Waiting(rows, "equal")
      [] OTHER -> None

CountOfRows ==
    IF unit.driver = "ValkeyDriver" THEN CountRows(TRUE) ELSE Cardinality(LiveIds)

StartChurn ==
    /\ pc = "churn"
    /\ churn' = [rows |-> CountOfRows, map |-> << >>, next |-> CountOfRows + 1,
                 step |-> 0, doomed |-> {}, fresh |-> << >>, todo |-> << >>,
                 writing |-> << >>, ended |-> {}]
    /\ srv' = PrepareChurn(srv)
    /\ poll' = WaitFor(CountOfRows, None, CountOfRows)
    /\ GoTo("sync") /\ window' = None
    /\ UNCHANGED <<drv, cache, tmp, attrs, loaders, filters, score>>
    /\ Kept /\ NoFault

(* No wait at all, for the engines that have nothing to wait for.             *)
NothingToSync ==
    /\ pc \in {"sync", "sync_deletes", "sync_writes"} /\ IsSql
    /\ GoTo(Synced(pc)) /\ Kept /\ NoFault
    /\ UNCHANGED <<srv, drv, cache, tmp>> /\ UNCHANGED restVars

(* The rows of a step: as many of the dataset's own that are still there.     *)
CurrentId(i) == IF i \in DOMAIN churn.map THEN churn.map[i] ELSE i
PickVictims ==
    /\ pc = "synced" /\ churn.step < Len(unit.steps)
    /\ LET whole == {i \in 1 .. churn.rows : i \notin DOMAIN churn.map} IN
       \E doomed \in SUBSET whole :
          /\ doomed # {} /\ Cardinality(doomed) = Smaller(unit.steps[churn.step + 1],
                                                         Cardinality(whole))
          /\ churn' = [churn EXCEPT !.step = @ + 1, !.doomed = doomed]
    /\ GoTo("deletes")
    /\ UNCHANGED <<srv, drv, cache, tmp, attrs, loaders, filters, score, poll, window>>
    /\ Kept /\ NoFault

(* Valkey's driver waits inside its delete for the count to fall, from what   *)
(* the index said before it.                                                  *)
DeleteIds ==
    /\ pc = "deletes"
    /\ srv' = Erase(srv, {CurrentId(i) : i \in churn.doomed})
    /\ \/ /\ unit.driver = "ValkeyDriver"
          /\ \E answers \in BOOLEAN :
                poll' = Waiting(Larger(0, CountRows(answers)
                                           - Cardinality(churn.doomed)), "at_most")
          /\ GoTo("mutations")
       \/ /\ unit.driver # "ValkeyDriver"
          /\ GoTo("deleted") /\ UNCHANGED poll
    /\ UNCHANGED <<drv, cache, tmp, attrs, loaders, filters, score, churn, window>>
    /\ Kept /\ NoFault

LastOf(S) == CHOOSE i \in S : \A j \in S : j <= i
AwaitDeletes ==
    /\ pc = "deleted"
    /\ poll' = WaitFor(churn.rows - Cardinality(churn.doomed),
                       CurrentId(LastOf(churn.doomed)), None)
    /\ GoTo("sync_deletes")
    /\ UNCHANGED <<srv, drv, cache, tmp, attrs, loaders, filters, score, churn, window>>
    /\ Kept /\ NoFault

(* The doomed rows are written again under new ids, in slices: by the unit's  *)
(* own driver, or by as many fresh ones as the load had threads.              *)
Writers == IF unit.threads > 1 THEN {"first", "second"} ELSE {"main"}
Idle == [ids |-> << >>, rows |-> << >>, cursor |-> 0, failed |-> FALSE]
Reinsert ==
    /\ pc = "synced_deletes"
    /\ LET rows == Ascending(churn.doomed)
           fresh == [i \in DOMAIN rows |-> churn.next + i - 1]
           slice(b) == [ids |-> SubSeq(fresh, b, Smaller(b + unit.slice - 1, Len(rows))),
                        rows |-> SubSeq(rows, b, Smaller(b + unit.slice - 1, Len(rows)))]
       IN churn' = [churn EXCEPT
              !.fresh = fresh, !.next = @ + Len(rows),
              !.todo = [n \in 1 .. (Len(rows) + unit.slice - 1) \div unit.slice |->
                           slice((n - 1) * unit.slice + 1)],
              !.writing = [w \in Writers |-> Idle]]
    /\ drv' = [w \in Writers \cup {"main"} |->
                  IF w = "main" THEN drv["main"] ELSE NewDriver]
    /\ GoTo("writes")
    /\ UNCHANGED <<srv, cache, tmp, attrs, loaders, filters, score, poll, window>>
    /\ Kept /\ NoFault

AnyFailed == \E w \in DOMAIN churn.writing : churn.writing[w].failed
IsWriting(w) == /\ churn.writing[w].cursor < Len(churn.writing[w].ids)
                /\ ~ churn.writing[w].failed

(* A writer takes the next slice, unless one has failed.                      *)
TakeSlice(w) ==
    /\ pc = "writes" /\ w \in DOMAIN churn.writing
    /\ ~ IsWriting(w) /\ ~ AnyFailed /\ churn.todo # << >>
    /\ churn' = [churn EXCEPT !.todo = Tail(@),
                              !.writing[w] = [Idle EXCEPT !.ids = Head(churn.todo).ids,
                                                          !.rows = Head(churn.todo).rows]]
    /\ UNCHANGED <<pc, srv, drv, cache, tmp, attrs, loaders, filters, score, poll, window>>
    /\ Kept /\ NoFault

(* It writes the slice: in one statement, or what its driver makes of it.     *)
WriteSlice(w) ==
    /\ pc = "writes" /\ w \in DOMAIN churn.writing /\ IsWriting(w)
    /\ LET s == churn.writing[w]
           d == drv[w]
       IN \/ unit.driver = "ValkeyDriver" /\ ValkeyWrite(w)
          \/ /\ unit.driver = "MyVectorDriver" /\ RefusesRows(d, Len(s.ids))
             /\ churn' = [churn EXCEPT !.writing[w].failed = TRUE]
             /\ UNCHANGED <<srv, drv>> /\ NoFault
          \/ /\ unit.driver # "ValkeyDriver"
             /\ unit.driver = "MyVectorDriver" => ~ RefusesRows(d, Len(s.ids))
             /\ srv' = Put(srv, RowsOf(s, 1, Len(s.ids)))
             /\ drv' = [drv EXCEPT ![w].newest = s.ids[Len(s.ids)],
                                   ![w].pending = @ + Len(s.ids)]
             /\ churn' = [churn EXCEPT !.writing[w].cursor = Len(s.ids)]
             /\ NoFault
          \/ /\ unit.driver # "ValkeyDriver" /\ Fault
             /\ churn' = [churn EXCEPT !.writing[w].failed = TRUE]
             /\ UNCHANGED <<srv, drv>>
    /\ UNCHANGED <<pc, cache, tmp, attrs, loaders, filters, score, poll, window>>
    /\ Kept

(* What the unit's driver takes over from the writers: the newest row and the *)
(* smallest batch, and nothing else of what they came to know.                *)
Inherited(ds) ==
    LET newest == {ds[w].newest : w \in DOMAIN ds} \ {None}
        batches == {ds[w].batch : w \in DOMAIN ds}
    IN [ds["main"] EXCEPT
           !.newest = IF newest = {} THEN None
                      ELSE CHOOSE n \in newest : \A m \in newest : m <= n,
           !.batch = CHOOSE n \in batches : \A m \in batches : n <= m]

(* All rows were written, or the step ends the workload.                      *)
Written ==
    /\ pc = "writes" /\ \A w \in DOMAIN churn.writing : ~ IsWriting(w)
    /\ churn.todo = << >> \/ AnyFailed
    /\ IF AnyFailed THEN UnitEnds
       ELSE /\ drv' = [main |-> Inherited(drv)]
            /\ LET rows == Ascending(churn.doomed) IN
               churn' = [churn EXCEPT
                   !.map = Onto([i \in churn.doomed |->
                               churn.fresh[CHOOSE n \in DOMAIN rows : rows[n] = i]], @),
                   !.doomed = {}, !.todo = << >>, !.writing = << >>]
            /\ poll' = WaitFor(churn.rows, None, LastOf(ToSet(churn.fresh)))
            /\ GoTo("sync_writes") /\ Kept /\ NoFault
            /\ UNCHANGED <<srv, cache, tmp, attrs, loaders, filters, score, window>>

(* The corpus is scored again, an id that was written anew standing for the   *)
(* row it holds; then the next step, or the repair.                           *)
ScoreChurn ==
    /\ pc = "synced_writes"
    /\ \E exact \in BOOLEAN :
          Scored(None, exact, MaskedGroundTruth(unit.rows, K, Rows),
                 [id \in {churn.map[i] : i \in DOMAIN churn.map} |->
                     CHOOSE i \in DOMAIN churn.map : churn.map[i] = id])
    /\ GoTo(IF churn.step < Len(unit.steps) /\ Cardinality(DOMAIN churn.map) < churn.rows
            THEN "synced" ELSE "maintain")
    /\ UNCHANGED <<srv, drv, cache, tmp, attrs, loaders, filters, poll, churn, window>>
    /\ Kept /\ NoFault

(* mongot and valkey-search have no repair.                                   *)
NoRepair ==
    /\ pc = "maintain" /\ C!DeclareBulkBuild(unit.driver, unit.bulk) = "none"
    /\ unit.driver \in {"MongoDriver", "ValkeyDriver"}
    /\ GoTo("done") /\ Kept /\ NoFault
    /\ UNCHANGED <<srv, drv, cache, tmp>> /\ UNCHANGED restVars

UnitDone == pc = "done" /\ UnitEnds

-----------------------------------------------------------------------------
DriversNext ==
    \/ StartUnit \/ CachedCtags \/ ComputeCtags \/ KeepCtags \/ Killed \/ UnitDone
    \/ IndexFollows \/ SqlNext \/ MyVectorNext \/ MongoNext \/ ValkeyNext
    \/ Load \/ (\E t \in {1, 2} : LoadRows(t)) \/ Loaded
    \/ ScoreFilters \/ FileTruth \/ CachedTruth \/ ComputeTruth \/ KeepTruth \/ Score
    \/ WindowOpens \/ ServerCounts \/ CountersReset \/ WindowCloses
    \/ StartChurn \/ NothingToSync \/ PickVictims \/ DeleteIds \/ AwaitDeletes
    \/ Reinsert \/ (\E w \in {"main", "first", "second"} : TakeSlice(w) \/ WriteSlice(w))
    \/ Written \/ ScoreChurn \/ NoRepair

DriversSpec == StateInit /\ [][DriversNext]_unitVars

-----------------------------------------------------------------------------
(* An exact answer over an index that holds every row score one, under every *)
(* filter, whatever earlier units left in the cache directory and however a   *)
(* churn step renamed the rows: the truth an engine is scored against is the  *)
(* truth of the rows it was given (datasets.filtered_truth_cache_name,        *)
(* recall_threshold, churn._measure's id map).                                *)
ExactIsScoredOne ==
    score # None /\ score.exact /\ score.whole => score.recall[1] = score.recall[2]

(* A churn step that is scored as settled is scored over an index that is:    *)
(* on Valkey, when every wait so far ended on its count, the index has the    *)
(* live rows and no other, though the queue reads empty too early, replies    *)
(* fail and writes stall and are retried (valkey._wait_for_mutations,         *)
(* insert_rows); MyVector's graph has every live row, and mongot the row that *)
(* was looked for and none that was seen to be gone.                          *)
SettledIsWhole ==
    /\ pc = "synced_writes" /\ unit.driver = "ValkeyDriver"
       /\ churn.ended \subseteq {"fell to the count", "reached the count"}
          => srv.index = LiveIds /\ Cardinality(LiveIds) = churn.rows
    /\ pc = "synced_writes" /\ unit.driver = "MyVectorDriver" => LiveIds \subseteq srv.index
    /\ pc = "synced_writes" /\ drv["main"].note = "row found"
          => LastOf(ToSet(churn.fresh)) \in srv.index
    /\ pc = "synced_deletes" /\ drv["main"].note = "row gone"
          => CurrentId(LastOf(churn.doomed)) \notin srv.index

(* A graph never takes more elements than the capacity it was built with,     *)
(* which would end the server: with one writer the driver refuses the rows    *)
(* first, over however many slices and steps (myvector.insert_rows).          *)
GraphFits ==
    unit # None /\ unit.driver = "MyVectorDriver" /\ unit.threads = 1 /\ srv.built
        => Cardinality(srv.index) <= srv.capacity

(* The waits of a window are waits that happened in it, though the server's   *)
(* counters may be reset between the two readings (server_waits.counter_delta)*)
WaitsHappened ==
    window # None /\ window.published # None =>
        \A i \in DOMAIN window.published.events :
            window.published.events[i][2].count \in 1 .. window.happened
=============================================================================
