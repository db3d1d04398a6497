----------------------------- MODULE DriverState -----------------------------
(* One unit of the ops harness as an engine's driver sees it: the server's    *)
(* table and vector index, what the driver remembers between its calls, and   *)
(* the cache directory the harness keeps next to the dataset. The modules     *)
(* ValkeyDriver, MyVectorDriver and MongoDriver give the steps of an engine   *)
(* each, Drivers those of the SQL engines, and puts them together.            *)
(*                                                                            *)
(* Row i is the i-th row of the dataset, and its id until a churn step deletes*)
(* it and writes it again under a new one. SQL engines keep their index inside*)
(* the statement that writes; mongot and valkey-search follow the table in    *)
(* their own time; MyVector's graph changes only when it is built or refreshed*)
EXTENDS Datasets

CONSTANTS
    Plans,           \* runs: the units one after the other over one cache directory
    K,               \* neighbours asked for
    Buckets, Clusters, Percent,  \* of the tag column, of ctag, of the filters
    LoadBatch,       \* rows of one INSERT of a load
    CapacityMargin,  \* what MyVector's graph can hold beyond half as much again
    ChurnBatch,      \* rows Valkey's driver writes at once, to begin with
    SettledPolls,    \* equal readings that make a count one that stopped
    MaxFaults        \* writes that fail or stall in a unit

C == INSTANCE EngineCatalog
W == INSTANCE Waits

(* What a run asks for, one unit after the other. No number is what stands    *)
(* for none, and Valkey's index can always be built after the load, since its *)
(* configuration says nothing else (cli.py, _bulk_vector_index_build).        *)
Requests ==
    {r \in [engine : C!KnownEngines, bulk : BOOLEAN, subset : (Nat \ {0}) \cup {None},
            threads : Nat \ {0}, slice : Nat \ {0}, steps : Seq(Nat)] :
        r.engine = "valkey" => r.bulk}
ASSUME DriversAssumption ==
    /\ None \notin Int
    /\ \A p \in Plans : p \in Seq(Requests)
    /\ {LoadBatch, ChurnBatch, SettledPolls, CapacityMargin} \subseteq Nat \ {0}

VARIABLES
    unit,     \* the unit being run, or None between units
    pc,       \* where the harness is in it
    srv,      \* the server: its table, its index, what the index has yet to see
    drv,      \* what each driver object remembers; "main" is the unit's own
    attrs,    \* the filter columns the load writes
    loaders,  \* the threads of the load
    cache,    \* the files of the cache directory: [name, value]
    tmp,      \* the file being written into it, or None
    filters,  \* the filters still to be scored, with the truth of the first
    score,    \* the recall published last
    poll,     \* the wait for the index that is under way
    churn,    \* the churn step that is under way
    window,   \* the wait counters: the server's, and those the unit read
    plan,     \* the units still to be run
    faults    \* faults of this unit so far

unitVars == <<unit, pc, srv, drv, attrs, loaders, cache, tmp, filters, score,
          poll, churn, window, plan, faults>>
cacheVars == <<cache, tmp>>
serverVars == <<srv, drv>>
restVars == <<attrs, loaders, filters, score, poll, churn, window>>

Kept == UNCHANGED <<unit, plan>>
Rows == 1 .. unit.rows
LiveIds == DOMAIN srv.table
Deferred == {"ValkeyDriver", "MongoDriver", "MyVectorDriver"}
NewDriver == [batch |-> ChurnBatch, probed |-> FALSE, newest |-> None,
              capacity |-> 0, elements |-> 0, pending |-> 0,
              note |-> "none", deletes |-> "none"]
NoFault == UNCHANGED faults
Fault == faults < MaxFaults /\ faults' = faults + 1

(* One function over another, and the members of a set in ascending order.    *)
Onto(new, old) ==
    [i \in DOMAIN new \cup DOMAIN old |-> IF i \in DOMAIN new THEN new[i] ELSE old[i]]
Ascending(S) ==
    [i \in 1 .. Cardinality(S) |->
        CHOOSE x \in S : Cardinality({y \in S : y <= x}) = i]

(* A statement that writes or deletes rows: the index follows at once unless  *)
(* it is one the engine maintains apart from its table.                       *)
InStatement(s) == s.built /\ unit.driver \notin Deferred
Put(s, rows) ==
    [s EXCEPT !.table = Onto(rows, @),
              !.index = IF InStatement(s) THEN @ \cup DOMAIN rows ELSE @,
              !.unseen = IF unit.driver = "MyVectorDriver" /\ s.built
                         THEN @ \cup DOMAIN rows ELSE @]
Erase(s, ids) ==
    [s EXCEPT !.table = [i \in DOMAIN @ \ ids |-> @[i]],
              !.index = IF InStatement(s) THEN @ \ ids ELSE @,
              !.unseen = @ \ ids]
EmptyServer == [table |-> << >>, index |-> {}, unseen |-> {}, built |-> FALSE,
                capacity |-> 0, autovacuum |-> TRUE]

GoTo(place) == pc' = place
Synced(place) == [sync |-> "synced", sync_deletes |-> "synced_deletes",
                  sync_writes |-> "synced_writes"][place]

(* A unit ends: it is done, an exception nobody catches ends it, or it is     *)
(* killed. The server's data go with the next unit's schema, a file half      *)
(* written is written over; the cache directory keeps what took its place.    *)
UnitEnds ==
    /\ GoTo("idle") /\ unit' = None /\ srv' = EmptyServer /\ drv' = << >>
    /\ attrs' = None /\ loaders' = << >> /\ poll' = None /\ churn' = None
    /\ filters' = None /\ score' = None /\ window' = None /\ faults' = 0
    /\ tmp' = None /\ UNCHANGED <<cache, plan>>
Killed == pc # "idle" /\ UnitEnds

-----------------------------------------------------------------------------
(* The build mode the ops phase takes: what the profile asks of the engines   *)
(* that are offered both, else the one the engine can do.                     *)
BuildModes(driver, bulk) ==
    IF driver \in {"PostgresDriver", "PerconaDriver"} THEN {"post", "incremental"}
    ELSE IF bulk THEN {"post"} ELSE {"incremental"}

(* A unit starts: the columns of its rows are computed, ctag through the cache*)
StartUnit ==
    /\ pc = "idle" /\ plan # << >>
    /\ LET u == Head(plan) IN
       \E mode \in BuildModes(C!GetDriver(u.engine, None), u.bulk) :
          unit' = [driver |-> C!GetDriver(u.engine, None), bulk |-> u.bulk,
                   mode |-> mode, rows |-> IndexedRows(u.subset),
                   threads |-> u.threads, slice |-> u.slice, steps |-> u.steps]
    /\ plan' = Tail(plan) /\ faults' = 0 /\ GoTo("ctags")
    /\ attrs' = None /\ loaders' = << >> /\ poll' = None /\ churn' = None
    /\ filters' = None /\ score' = None
    /\ window' = None /\ UNCHANGED <<srv, drv, cache, tmp>>

(* What a file of the cache holds, or None.                                   *)
CachedValue(name) ==
    IF \E e \in cache : e.name = name
    THEN (CHOOSE e \in cache : e.name = name).value ELSE None

(* A value of the cache directory is read, or computed and written beside its *)
(* place before it takes it: no reader sees a part of it.                     *)
WriteBeside(name, value) ==
    /\ CachedValue(name) = None
    /\ tmp' = [name |-> name, value |-> value]
    /\ UNCHANGED cache
TakeItsPlace == cache' = cache \cup {tmp} /\ tmp' = None

CtagsName == CtagCacheName(unit.rows, Clusters)
HaveCtags(ctags) ==
    /\ attrs' = C!RowAttrs(AssignTags(unit.rows, Buckets), ctags)
    /\ GoTo("schema")
CachedCtags ==
    /\ pc = "ctags" /\ CachedValue(CtagsName) # None
    /\ HaveCtags(CachedValue(CtagsName))
    /\ Kept /\ NoFault
    /\ UNCHANGED <<srv, drv, cache, tmp, loaders, filters, score, poll, churn, window>>
ComputeCtags ==
    /\ pc = "ctags"
    /\ WriteBeside(CtagsName, AssignCtags(unit.rows, Clusters))
    /\ GoTo("ctags_kept") /\ Kept /\ NoFault /\ UNCHANGED serverVars
    /\ UNCHANGED restVars
KeepCtags ==
    /\ pc = "ctags_kept" /\ TakeItsPlace /\ HaveCtags(tmp.value)
    /\ Kept /\ NoFault
    /\ UNCHANGED <<srv, drv, loaders, filters, score, poll, churn, window>>

(* mongot, or valkey-search, takes in a change of the table, one row at a time*)
IndexFollows ==
    /\ srv.built /\ unit.driver \in {"MongoDriver", "ValkeyDriver"}
    /\ \E id \in (LiveIds \ srv.index) \cup (srv.index \ LiveIds) :
          srv' = [srv EXCEPT !.index = IF id \in @ THEN @ \ {id} ELSE @ \cup {id}]
    /\ UNCHANGED pc /\ Kept /\ NoFault
    /\ UNCHANGED <<drv, cache, tmp>> /\ UNCHANGED restVars

StateInit ==
    /\ unit = None /\ pc = "idle" /\ srv = EmptyServer /\ drv = << >>
    /\ attrs = None /\ loaders = << >> /\ cache = {} /\ tmp = None
    /\ filters = None /\ score = None /\ poll = None /\ churn = None
    /\ window = None /\ plan \in Plans /\ faults = 0
=============================================================================
