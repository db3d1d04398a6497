---------------------------- MODULE EngineCatalog ----------------------------
(* What each engine's driver declares and the statements it composes          *)
(* (harness/drivers/): the registry, the dialects of the MySQL family, the    *)
(* table and index a benchmark declares, the query, the check that the plan   *)
(* uses the vector index, and the figures read back from a server. A          *)
(* statement is a record of the choices it carries; None stands for what a    *)
(* driver leaves out or a server does not answer.                             *)
EXTENDS Integers, Sequences, FiniteSets, FiniteSetsExt, SequencesExt

CONSTANT None

MaxOf(a, b) == IF a > b THEN a ELSE b
SumOf(S, f(_)) == MapThenSumSet(f, S)

-----------------------------------------------------------------------------
(* The registry.                                                              *)
DriverTable ==
    [mariadb |-> "MariaDBDriver", mariadb123 |-> "MariaDBDriver",
     alisql |-> "AliSQLDriver", pgvector |-> "PostgresDriver",
     mongodb |-> "MongoDriver", valkey |-> "ValkeyDriver",
     percona |-> "PerconaDriver", myvector |-> "MyVectorDriver",
     villagesql |-> "VillageSQLDriver"]
DriverClasses == {DriverTable[e] : e \in DOMAIN DriverTable}
KnownEngines == DOMAIN DriverTable

(* A named class wins over the engine's own; what is not known is refused.    *)
GetDriver(engine, named) ==
    IF named # None THEN IF named \in DriverClasses THEN named ELSE None
    ELSE IF engine \in KnownEngines THEN DriverTable[engine] ELSE None

MySQLFamily == {"MariaDBDriver", "AliSQLDriver", "PerconaDriver",
                "MyVectorDriver", "VillageSQLDriver"}

(* The dialects: the metrics by name, the width of the key, how an index is   *)
(* declared, what names its use in a plan, and the build width if it has one. *)
Dialect(metrics, pk, clause, marker, construction, setEf) ==
    [metrics |-> metrics, pk |-> pk, clause |-> clause, marker |-> marker,
     construction |-> construction, setEf |-> setEf]
MariadbDialect ==
    Dialect([angular |-> "cosine", euclidean |-> "euclidean"], "INT",
            "VECTOR INDEX", None, None, "mhnsw_ef_search")
AlisqlDialect ==
    Dialect([angular |-> "COSINE", euclidean |-> "EUCLIDEAN"], "INT",
            "VECTOR INDEX", None, None, "vidx_hnsw_ef_search")
PerconaDialect ==
    Dialect([angular |-> "cosine", euclidean |-> "euclidean"], "BIGINT UNSIGNED",
            "VECTOR KEY", "vector_ann", 200, "innodb_hnsw_ef_search")
MyvectorDialect ==
    Dialect([angular |-> "Cosine", euclidean |-> "L2"], "INT",
            "COLUMN COMMENT", "myvector_ann", 100, None)
VillagesqlDialect ==
    Dialect([angular |-> "cosine", euclidean |-> "l2"], "INT",
            "USING EXTENDED", "Custom index distance scan on", 200,
            "vsql_vector.ef_search")
DialectOf == [MariaDBDriver |-> MariadbDialect, AliSQLDriver |-> AlisqlDialect,
              PerconaDriver |-> PerconaDialect, MyVectorDriver |-> MyvectorDialect,
              VillageSQLDriver |-> VillagesqlDialect]
Opclass == [angular |-> "vector_cosine_ops", euclidean |-> "vector_l2_ops"]
Similarity == [angular |-> "cosine", euclidean |-> "euclidean"]

-----------------------------------------------------------------------------
(* What a driver declares of its engine.                                      *)
DeclinedWorkloads(driver) ==
    CASE driver = "MyVectorDriver" -> {"filtered"}
      [] driver = "VillageSQLDriver" -> {"filtered", "churn"}
      [] OTHER -> {}

(* Percona's repair is the bulk build itself: a server on which that build is *)
(* declared broken has no repair either.                                      *)
DeclareBulkBuild(driver, supported) ==
    CASE driver = "PostgresDriver" -> "vacuum_analyze"
      [] driver = "MyVectorDriver" -> "index-rebuild"
      [] driver = "PerconaDriver" /\ supported -> "index-replace"
      [] OTHER -> "none"

(* Only the MySQL family has a storage engine to name in a record.            *)
StorageEngineInUse(driver, index) ==
    IF driver \in MySQLFamily THEN index.storage ELSE None

(* The engines that never search fewer candidates than they must return.      *)
EffectiveEf(driver, ef, k) ==
    IF driver \in {"PerconaDriver", "MyVectorDriver", "VillageSQLDriver",
                   "MongoDriver"}
    THEN MaxOf(ef, k) ELSE ef

IndexFormat(driver) ==
    CASE driver \in {"MariaDBDriver", "AliSQLDriver"} -> <<"int16", TRUE>>
      [] driver = "PostgresDriver" -> <<"float32", TRUE>>
      [] OTHER -> <<"unknown", None>>

CheckedEfConstruction(m, construction) ==
    LET ef == IF construction = None THEN 200 ELSE construction
    IN IF m \in 2 .. 128 /\ m <= ef /\ ef <= 32 * m THEN ef ELSE None

PerconaCapabilities(index) ==
    [incremental |-> index = None \/ index.mode = "incremental", tunable |-> TRUE]
VillagesqlCapabilities(index) ==
    [incremental |-> index = None \/ index.mode = "incremental", tunable |-> TRUE,
     construction |-> IF index = None THEN None
                      ELSE CheckedEfConstruction(index.m, index.construction)]
MongoCapabilities(index, readySeconds) ==
    [incremental |-> FALSE, tunable |-> FALSE, async |-> TRUE, prefilter |-> TRUE,
     quantization |-> IF index = None THEN None ELSE index.quantization,
     ready |-> readySeconds]
ValkeyCapabilities(backfill) ==
    [incremental |-> FALSE, tunable |-> TRUE, inMemory |-> TRUE, ready |-> backfill]

-----------------------------------------------------------------------------
(* Rows and filter columns.                                                   *)
CheckedFilterColumn(column) == IF column \in {"tag", "ctag"} THEN column ELSE None

(* The attributes of rows: one value of each column for each row; a bare      *)
(* sequence stands for both columns, each with a copy of its own.             *)
RowAttrs(tag, ctag) == IF Len(tag) = Len(ctag) THEN [tag |-> tag, ctag |-> ctag]
                       ELSE None
Coerce(attrs) == IF attrs \in Seq(Int) THEN RowAttrs(attrs, attrs) ELSE attrs
AttrsOf(attrs, rows) == [tag |-> [i \in DOMAIN rows |-> attrs.tag[rows[i]]],
                         ctag |-> [i \in DOMAIN rows |-> attrs.ctag[rows[i]]]]
RowOf(attrs, i) == [tag |-> attrs.tag[i], ctag |-> attrs.ctag[i]]

-----------------------------------------------------------------------------
(* The table and its index, as declared.                                      *)
CreateTableDdl(driver, index, withIndex) ==
    [columns |-> <<"id", "tag", "ctag", "v">>, pk |-> DialectOf[driver].pk,
     keys |-> {"tag_idx", "ctag_idx"},
     vector |-> IF driver = "VillageSQLDriver" THEN "SVECTOR" ELSE "VECTOR",
     index |-> withIndex, storage |-> index.storage]

(* An option the profile leaves open is the dialect's own.                    *)
IndexClause(driver, index) ==
    [clause |-> DialectOf[driver].clause, m |-> index.m,
     metric |-> DialectOf[driver].metrics[index.metric],
     construction |-> IF index.construction # None THEN index.construction
                      ELSE DialectOf[driver].construction]
VillagesqlIndexClause(index) ==
    [clause |-> VillagesqlDialect.clause, m |-> index.m,
     metric |-> VillagesqlDialect.metrics[index.metric],
     construction |-> CheckedEfConstruction(index.m, index.construction)]
PostgresIndex(index) ==
    [clause |-> "hnsw", m |-> index.m, metric |-> Opclass[index.metric],
     construction |-> IF index.construction \in {None, 0} THEN 200
                      ELSE index.construction]
MongoIndex(index) ==
    [clause |-> "vectorSearch", metric |-> Similarity[index.metric],
     filters |-> <<"tag", "ctag">>,
     quantization |-> IF index.quantization = "none" THEN None
                      ELSE index.quantization]
ValkeyIndex(index) ==
    [clause |-> "HNSW", m |-> index.m, metric |-> index.metric,
     numeric |-> <<"tag", "ctag">>,
     attributes |-> IF index.construction \in {None, 0} THEN 8 ELSE 10]

(* MyVector has its options in a comment of the column, a capacity included.  *)
ColumnOptions(index, capacity) ==
    [type |-> "HNSW", dim |-> index.dim, size |-> capacity, m |-> index.m,
     ef |-> IF index.construction # None THEN index.construction
            ELSE MyvectorDialect.construction,
     dist |-> MyvectorDialect.metrics[index.metric], track |-> "updatets"]

(* The clause of the live index is what a repair builds again; the profile's  *)
(* only when the server's own table cannot be read.                           *)
IndexClauseFromServer(shown, index) ==
    IF shown # None THEN shown ELSE IndexClause("PerconaDriver", index)

-----------------------------------------------------------------------------
(* Queries. The filtered flag is a flag: a column in its place is refused.    *)
FlagIsAFlag(filtered, column) ==
    filtered \in BOOLEAN /\ CheckedFilterColumn(column) # None
Statement(k, filtered, column, width, by) ==
    [where |-> IF filtered THEN column ELSE None, limit |-> k, width |-> width,
     by |-> by]
Select(k, filtered, column) ==
    IF FlagIsAFlag(filtered, column) THEN Statement(k, filtered, column, None, "function")
    ELSE None
VillagesqlSelect(k, filtered, column) ==
    IF FlagIsAFlag(filtered, column) THEN Statement(k, filtered, column, None, "literal")
    ELSE None
PostgresSelect(k, filtered, column) ==
    IF FlagIsAFlag(filtered, column) THEN Statement(k, filtered, column, None, "operator")
    ELSE None
(* The search engines take a width that is never below the limit.             *)
MongoPipeline(ef, k, filtered, column) ==
    Statement(k, filtered, CheckedFilterColumn(column), MaxOf(ef, k), "vectorSearch")
FilterExpr(column) == CheckedFilterColumn(column)
ValkeySearch(ef, k, filtered, column) ==
    Statement(k, filtered, FilterExpr(column), MaxOf(ef, k), "knn")
AnnSql(ef, k) == IF ef = None THEN None
                 ELSE [where |-> None, limit |-> k, width |-> ef, by |-> "ann"]

(* The plan of a query names the index; where the dialect has a marker, some  *)
(* row of a traditional EXPLAIN has it as its access type, or its text does   *)
(* when no row has that shape. A plan that cannot be read is no index.        *)
MarkerInAccessType(rows, marker) ==
    LET shaped == {r \in rows : r.columns >= 12}
    IN IF shaped = {} THEN \E r \in rows : marker \in r.words
       ELSE \E r \in shaped : r.access = marker
FamilyUsesIndex(driver, rows) ==
    /\ rows # None
    /\ \E r \in rows : "vi" \in r.words
    /\ DialectOf[driver].marker # None
         => MarkerInAccessType(rows, DialectOf[driver].marker)
PostgresUsesIndex(rows) == rows # None /\ \E r \in rows : "t1_embedding_idx" \in r.words
MyvectorUsesIndex(rows, filtered) ==
    ~ filtered /\ rows # None /\ \E r \in rows : r.columns > 2 /\ r.table = "myvector_ann"
VillagesqlUsesIndex(rows) ==
    rows # None /\ \E r \in rows : VillagesqlDialect.marker \in r.words
ValkeyUsesIndex(rows) == rows # None
MongoUsesIndex(rows) == rows # None /\ \E r \in rows : "$vectorSearch" \in r.words
ExplainUsesVectorIndex(driver, rows, filtered) ==
    CASE driver = "PostgresDriver" -> PostgresUsesIndex(rows)
      [] driver = "ValkeyDriver" -> ValkeyUsesIndex(rows)
      [] driver = "MongoDriver" -> MongoUsesIndex(rows)
      [] driver = "MyVectorDriver" -> MyvectorUsesIndex(rows, filtered)
      [] driver = "VillageSQLDriver" -> VillagesqlUsesIndex(rows)
      [] OTHER -> FamilyUsesIndex(driver, rows)

-----------------------------------------------------------------------------
(* Figures read back. Of one size there may be several sources; the first     *)
(* that says anything is it, and links to one file count once.                *)
FirstNonzero(sizes) ==
    LET said == SelectSeq(sizes, LAMBDA n : n \notin {None, 0})
    IN IF said = << >> THEN 0 ELSE said[1]
GlobBytes(files, matching) ==
    LET real == {f.inode : f \in {g \in files : g.name \in matching}}
    IN SumOf(real, LAMBDA n : (CHOOSE f \in files : f.inode = n).bytes)
FamilyIndexBytes(files, matching, asked) ==
    FirstNonzero(<<GlobBytes(files, matching), asked>>)
FamilyTableBytes(files, asked) ==
    FirstNonzero(<<GlobBytes(files, {"t1.ibd", "t1.MYD", "t1.MYI"}), asked>>)
VillagesqlIndexBytes(before, after) == MaxOf(0, after - before)
ValkeyIndexBytes(before, after, indexed) == MaxOf(MaxOf(0, after - before), indexed)
ValkeyTableBytes(before, used, indexBytes) ==
    IF before # 0 THEN before ELSE MaxOf(0, used - indexBytes)
(* The memory a reply of nested pairs attributes to the index, at any depth.  *)
IndexedMemory(fields) ==
    SumOf({f \in fields : f.key = "user_indexed_memory" /\ f.value \in Int},
          LAMBDA f : f.value)
MyvectorIndexBytes(files) ==
    SumOf({f \in files : f.prefix = "ann.t1.v.hnsw.index"}, LAMBDA f : f.bytes)
MongoBreakdown(files) ==
    IF files = {} THEN None
    ELSE [k \in {f.kind : f \in files} |->
             SumOf({f \in files : f.kind = k}, LAMBDA f : f.bytes)]
MongoIndexBytes(files, reported) ==
    FirstNonzero(<<SumOf(files, LAMBDA f : f.bytes), reported>>)

(* The directory is settled at the first reading within one percent of the    *)
(* one before it; the cap of the wait leaves the last reading, unsettled.     *)
SettleIndexBytes(readings, cap) ==
    LET near(i) == /\ readings[i - 1] # 0
                   /\ 100 * MaxOf(readings[i] - readings[i - 1],
                                  readings[i - 1] - readings[i]) < readings[i - 1]
        ends == {i \in 2 .. Len(readings) : i <= cap /\ near(i)}
        at == IF ends = {} THEN cap ELSE CHOOSE i \in ends : \A j \in ends : i <= j
    IN IF readings[1] = 0 THEN [bytes |-> 0, method |-> "immediate"]
       ELSE [bytes |-> readings[at], method |-> "directory_stable",
             settled |-> ends # {}, readings |-> at]

(* A status value as a number: a flag is none, and neither is a text that     *)
(* does not parse as one.                                                     *)
StatusInt(v) ==
    IF v.kind = "bool" \/ (v.kind \in {"bytes", "text"} /\ v.number = None)
    THEN None ELSE v.number
MatchingStatusRow(rows, name) ==
    LET matching == SelectSeq(rows, LAMBDA r : r.fields >= 2 /\ r.name = name)
    IN IF matching = << >> THEN None ELSE matching[1]

(* The counters a server answers for; a failed or missing read leaves its own *)
(* name out and no other.                                                     *)
StatusCounters(scope, names, answer) ==
    IF scope \notin {"global", "session"} THEN None
    ELSE LET value(n) == IF answer[n] = None THEN None
                         ELSE LET row == MatchingStatusRow(answer[n], n)
                              IN IF row = None THEN None ELSE StatusInt(row.value)
         IN [n \in {m \in names : value(m) # None} |-> value(n)]
=============================================================================
