---------------------------- MODULE DriversProofs ----------------------------
(* What a driver says of its index is so, for every plan of units, dataset,   *)
(* batch, number of threads, slice and churn step, and however often a reply  *)
(* fails, a count stalls, a write is written again or a unit is killed.       *)
(* The inductive invariant DriversInv says, for each place the harness can be *)
(* at, what the table holds (LoadHolds, ChurnHolds) and what the index of an  *)
(* engine that keeps it apart has of it (ValkeyHolds, GraphHolds, MongoHolds).*)
(* The window of wait counters has an invariant of its own, WindowHolds.      *)
EXTENDS Drivers, TLAPS, FiniteSetTheorems, WellFoundedInduction

(* Among numbers there is a least one.                                        *)
LEMMA LeastNatural ==
    ASSUME NEW T, T \subseteq Nat, T # {}
    PROVE  \E x \in T : \A y \in T : x <= y
PROOF
<1> DEFINE R == {ss \in Nat \X Nat : ss[1] < ss[2]}
<1>1. IsWellFoundedOn(R, Nat)
  BY NatLessThanWellFounded DEF OpToRel
<1>2. \A x, y \in Nat : y < x => <<y, x>> \in R
  OBVIOUS
<1> HIDE DEF R
<1>3. PICK x \in T : \A y \in T : ~ (<<y, x>> \in R)
  BY <1>1, WFMin
<1>4. ASSUME NEW y \in T PROVE x <= y
  <2>1. x \in Nat /\ y \in Nat
    OBVIOUS
  <2>2. ~ (y < x)
    BY <1>2, <1>3, <2>1
  <2>3. QED
    BY <2>1, <2>2
<1>5. QED
  BY <1>4

(* And among numbers up to a bound a greatest.                                *)
LEMMA Greatest ==
    ASSUME NEW n \in Nat, NEW S, S \subseteq 1 .. n, S # {}
    PROVE  LastOf(S) \in S /\ \A j \in S : j <= LastOf(S)
PROOF
<1> DEFINE T == {n - x : x \in S}
<1>1. \A x \in S : x \in Nat /\ n - x \in Nat
  OBVIOUS
<1>2. T \subseteq Nat /\ T # {}
  BY <1>1
<1>3. PICK t \in T : \A y \in T : t <= y
  <2> HIDE DEF T
  <2>1. QED
    BY <1>2, LeastNatural
<1>4. PICK x \in S : t = n - x
  BY <1>3
<1>5. \A j \in S : j <= x
  <2>1. SUFFICES ASSUME NEW j \in S PROVE j <= x
    OBVIOUS
  <2>2. n - j \in T
    OBVIOUS
  <2>3. n - x <= n - j
    BY <1>3, <1>4, <2>2
  <2>4. QED
    BY <1>1, <2>3
<1>6. QED
  BY <1>5 DEF LastOf

-----------------------------------------------------------------------------
(* The places of a unit, by what its table is there.                          *)
Early == {"ctags", "ctags_kept", "schema"}
Filling == {"load", "loading"}
Ahead == {"index", "ready", "backfill"}
Serving == {"filters", "truth_kept", "window", "churn"}
Entire == {"sync", "synced", "deletes", "sync_writes", "synced_writes"}
Lacking == {"mutations", "deleted", "sync_deletes", "synced_deletes"}
Renewing == Entire \cup Lacking \cup {"writes"}
Repairing == {"maintain", "done"}

Units ==
    {u \in [driver : C!DriverClasses, bulk : BOOLEAN, mode : {"post", "incremental"},
            rows : Nat \ {0}, threads : Nat \ {0}, slice : Nat \ {0}, steps : Seq(Nat)] :
        u.driver = "ValkeyDriver" => u.mode = "post"}
ServerKeys == {"table", "index", "unseen", "built", "capacity", "autovacuum"}
DriverKeys == {"batch", "probed", "newest", "capacity", "elements", "pending",
               "note", "deletes"}
ChurnKeys == {"rows", "map", "next", "step", "doomed", "fresh", "todo", "writing",
              "ended"}
Remembered(d) ==
    /\ DOMAIN d = DriverKeys
    /\ d.capacity \in Nat /\ d.elements \in Nat /\ d.pending \in Nat
    /\ d.batch \in Nat \ {0}

(* What a unit is, and what the server and its drivers are by where it is.    *)
UnitShape ==
    /\ pc \in {"idle"} \cup Early \cup Filling \cup Ahead \cup Serving \cup Renewing
             \cup Repairing
    /\ plan \in Seq(Requests)
    /\ pc = "idle" => unit = None
    /\ pc # "idle" => unit \in Units
    /\ pc \in {"idle"} \cup Early => srv = EmptyServer
    /\ DOMAIN srv = ServerKeys /\ IsFiniteSet(LiveIds)
    /\ pc \notin {"idle"} \cup Early =>
          /\ "main" \in DOMAIN drv
          /\ \A w \in DOMAIN drv : Remembered(drv[w])
          /\ drv["main"].note \in {"row found", "row gone"} => unit.driver = "MongoDriver"

(* The rows of a load are in the table or ahead of a thread of it.            *)
LoadHolds ==
    /\ pc = "load" => LiveIds = {}
    /\ pc = "loading" =>
          /\ LiveIds \subseteq 1 .. unit.rows
          /\ \A t \in DOMAIN loaders :
                /\ DOMAIN loaders[t] = {"at", "hi", "failed"}
                /\ loaders[t].at \in Nat /\ loaders[t].hi \in 0 .. unit.rows
                /\ loaders[t].at <= loaders[t].hi
          /\ \A r \in 1 .. unit.rows :
                \/ r \in LiveIds
                \/ \E t \in DOMAIN loaders : loaders[t].at < r /\ r <= loaders[t].hi
    /\ pc \in Ahead \cup Serving => LiveIds = 1 .. unit.rows

(* The rows of the dataset that no step has renamed, and the ids of this step.*)
Unchurned == (1 .. unit.rows) \ DOMAIN churn.map
Doomed == Cardinality(churn.doomed)
Fresh == churn.next - Doomed .. churn.next - 1
Underway(id) ==
    \/ \E i \in DOMAIN churn.todo : \E p \in DOMAIN churn.todo[i].ids :
          churn.todo[i].ids[p] = id
    \/ \E w \in DOMAIN churn.writing :
          \E p \in churn.writing[w].cursor + 1 .. Len(churn.writing[w].ids) :
             churn.writing[w].ids[p] = id
(* Of a step's writes, every new id is in the table or in a slice that is     *)
(* waiting or that a writer has not finished.                                 *)
SlicesShape ==
    /\ (\E S : churn.todo \in Seq(S))
    /\ \A i \in DOMAIN churn.todo : churn.todo[i].ids \in Seq(Fresh)
    /\ \A w \in DOMAIN churn.writing :
          /\ DOMAIN churn.writing[w] = {"ids", "rows", "cursor", "failed"}
          /\ churn.writing[w].ids \in Seq(Fresh)
          /\ churn.writing[w].cursor \in 0 .. Len(churn.writing[w].ids)
WritesHold ==
    /\ unit.rows < churn.next - Doomed
    /\ churn.fresh = [i \in 1 .. Doomed |-> churn.next - Doomed + i - 1]
    /\ Unchurned \ churn.doomed \subseteq LiveIds
    /\ Cardinality(LiveIds \ Fresh) = unit.rows - Doomed
    /\ SlicesShape
    /\ DOMAIN churn.writing \subseteq DOMAIN drv
    /\ unit.threads = 1 => DOMAIN churn.writing = {"main"}
    /\ \A id \in Fresh : id \in LiveIds \/ Underway(id)

(* What the table holds between the parts of a step, by its rows.             *)
ChurnHolds ==
    /\ pc \in Renewing =>
          /\ DOMAIN churn = ChurnKeys /\ churn.rows = unit.rows
          /\ churn.next \in Nat /\ unit.rows < churn.next
          /\ LiveIds \subseteq 1 .. churn.next - 1
          /\ churn.doomed \subseteq Unchurned
    /\ pc \in Entire => Unchurned \subseteq LiveIds /\ Cardinality(LiveIds) = unit.rows
    /\ pc \in Lacking =>
          /\ Unchurned \ churn.doomed \subseteq LiveIds
          /\ churn.doomed \cap LiveIds = {}
          /\ Cardinality(LiveIds) = unit.rows - Doomed
    /\ pc \in Lacking \cup {"deletes", "writes"} => churn.doomed # {}
    /\ pc = "writes" => WritesHold
    /\ pc \in {"sync_writes", "synced_writes"} => LastOf(ToSet(churn.fresh)) \in LiveIds

(* While each wait has ended on its count, valkey-search has what the table   *)
(* has, or is behind it in one direction, which the wait under way is for.    *)
Good == churn.ended \subseteq {"fell to the count", "reached the count"}
PollKeys == {"expected", "how", "previous", "settled", "late"}
ValkeyHolds ==
    pc # "idle" /\ unit.driver = "ValkeyDriver" =>
        /\ pc \in Filling => ~ srv.built
        /\ pc \in Serving => srv.index = LiveIds
        /\ pc \in Renewing /\ Good =>
              /\ pc \notin {"mutations", "writes", "sync_writes"} => srv.index = LiveIds
              /\ pc \in {"writes", "sync_writes"} => srv.index \subseteq LiveIds
              /\ pc = "mutations" =>
                    /\ LiveIds \subseteq srv.index /\ IsFiniteSet(srv.index)
                    /\ poll # None => /\ DOMAIN poll = PollKeys /\ poll.how = "at_most"
                                      /\ poll.expected \in 0 .. Cardinality(LiveIds)
              /\ pc = "sync_writes" /\ poll # None =>
                    /\ DOMAIN poll = PollKeys /\ poll.how = "equal"
                    /\ poll.expected = unit.rows

(* MyVector's graph: every row is in it or noted to be put there, and with    *)
(* one writer the driver knows of all that has been.                          *)
Capacitated ==
    /\ srv.capacity \in Nat \ {0} /\ Cardinality(srv.index) <= srv.capacity
    /\ drv["main"].capacity = srv.capacity
    /\ drv["main"].elements + drv["main"].pending <= srv.capacity
GraphHolds ==
    pc # "idle" /\ unit.driver = "MyVectorDriver" =>
        /\ pc \notin {"ready", "backfill", "mutations"}
        /\ pc \in Filling \cup {"index"} => ~ srv.built
        /\ pc \in Serving \cup Renewing \cup Repairing =>
              /\ srv.built /\ LiveIds \subseteq srv.index \cup srv.unseen
              /\ unit.threads = 1 => Capacitated
        /\ pc \in {"synced", "synced_deletes", "synced_writes"} =>
              LiveIds \subseteq srv.index

(* mongot: what the driver says it saw of a row stays so, for the row that is *)
(* gone from the table, or in it, is what the index goes towards.             *)
MongoPoll == {"absent", "present", "gone", "said"}
MongoHolds ==
    pc # "idle" /\ unit.driver = "MongoDriver" =>
        /\ pc = "sync_deletes" /\ poll # None =>
              /\ DOMAIN poll = MongoPoll
              /\ poll.absent = LastOf(churn.doomed) /\ poll.absent # None
              /\ poll.present = None
              /\ poll.said = "row gone" => poll.absent \notin srv.index
        /\ pc = "synced_deletes" /\ drv["main"].note = "row gone" =>
              LastOf(churn.doomed) \notin srv.index
        /\ pc = "sync_writes" /\ poll # None =>
              /\ DOMAIN poll = MongoPoll
              /\ poll.present = LastOf(ToSet(churn.fresh)) /\ poll.present # None
              /\ poll.absent = None
        /\ pc = "synced_writes" /\ drv["main"].note = "row found" =>
              LastOf(ToSet(churn.fresh)) \in srv.index

DriversInv ==
    UnitShape /\ LoadHolds /\ ChurnHolds /\ ValkeyHolds /\ GraphHolds /\ MongoHolds

-----------------------------------------------------------------------------
(* A server whose data are gone has every part, and nothing in them.          *)
LEMMA EmptyKeys ==
    /\ DOMAIN EmptyServer = ServerKeys /\ DOMAIN EmptyServer.table = {}
    /\ EmptyServer.index = {} /\ EmptyServer.built = FALSE
PROOF
<1>1. DOMAIN << >> = {}
  OBVIOUS
<1>2. QED
  BY <1>1 DEF EmptyServer, ServerKeys

(* What a write does to the server,                                           *)
LEMMA Putting ==
    ASSUME NEW s, NEW new, DOMAIN s = ServerKeys
    PROVE  /\ DOMAIN Put(s, new) = ServerKeys
           /\ DOMAIN Put(s, new).table = DOMAIN new \cup DOMAIN s.table
           /\ Put(s, new).built = s.built /\ Put(s, new).capacity = s.capacity
           /\ Put(s, new).index = IF InStatement(s) THEN s.index \cup DOMAIN new
                                  ELSE s.index
           /\ Put(s, new).unseen = IF unit.driver = "MyVectorDriver" /\ s.built
                                   THEN s.unseen \cup DOMAIN new ELSE s.unseen
PROOF
<1>1. DOMAIN Onto(new, s.table) = DOMAIN new \cup DOMAIN s.table
  BY DEF Onto
<1>2. QED
  BY <1>1 DEF Put, ServerKeys

(* and what a delete.                                                         *)
LEMMA Erasing ==
    ASSUME NEW s, NEW ids, DOMAIN s = ServerKeys
    PROVE  /\ DOMAIN Erase(s, ids) = ServerKeys
           /\ DOMAIN Erase(s, ids).table = DOMAIN s.table \ ids
           /\ Erase(s, ids).built = s.built /\ Erase(s, ids).capacity = s.capacity
           /\ Erase(s, ids).index = IF InStatement(s) THEN s.index \ ids ELSE s.index
           /\ Erase(s, ids).unseen = s.unseen \ ids
PROOF
<1>1. QED
  BY DEF Erase, ServerKeys

(* A unit that ends leaves nothing.                                           *)
LEMMA Ends ==
    ASSUME DriversInv, UnitEnds
    PROVE  DriversInv'
PROOF
<1>1. pc' = "idle" /\ unit' = None /\ srv' = EmptyServer /\ plan' = plan
  BY DEF UnitEnds, GoTo
<1>2. UnitShape'
  BY <1>1, EmptyKeys, FS_EmptySet DEF DriversInv, UnitShape, LiveIds
<1>3. LoadHolds' /\ ChurnHolds'
  BY <1>1 DEF LoadHolds, ChurnHolds, Ahead, Serving, Renewing, Entire, Lacking
<1>4. ValkeyHolds' /\ GraphHolds' /\ MongoHolds'
  BY <1>1 DEF ValkeyHolds, GraphHolds, MongoHolds
<1>5. QED
  BY <1>2, <1>3, <1>4 DEF DriversInv

(* Before there is a schema, only the place matters.                          *)
LEMMA EarlyKeeps ==
    ASSUME DriversInv, UNCHANGED <<unit, srv, drv, plan>>, pc \in Early, pc' \in Early
    PROVE  DriversInv'
PROOF
<1>1. UnitShape'
  BY DEF DriversInv, UnitShape, LiveIds, Early
<1>2. LoadHolds' /\ ChurnHolds'
  BY DEF LoadHolds, ChurnHolds, Ahead, Serving, Renewing, Entire, Lacking, Early
<1>3. ValkeyHolds' /\ GraphHolds' /\ MongoHolds'
  BY DEF ValkeyHolds, GraphHolds, MongoHolds, Early, Filling, Serving, Renewing, Entire,
         Lacking, Repairing
<1>4. QED
  BY <1>1, <1>2, <1>3 DEF DriversInv

(* Every engine has a driver of the table, and only Valkey has Valkey's.      *)
LEMMA DriverOf ==
    ASSUME NEW e \in C!KnownEngines
    PROVE  /\ C!GetDriver(e, None) \in C!DriverClasses
           /\ C!GetDriver(e, None) = "ValkeyDriver" => e = "valkey"
PROOF
<1>1. QED
  BY DEF C!GetDriver, C!KnownEngines, C!DriverTable, C!DriverClasses

(* A unit starts: nothing is on its server.                                   *)
LEMMA StartKeeps ==
    ASSUME DriversInv, StartUnit
    PROVE  DriversInv'
PROOF
<1>1. pc = "idle" /\ pc' = "ctags" /\ UNCHANGED <<srv, drv>> /\ plan' = Tail(plan)
      /\ plan # << >> /\ plan \in Seq(Requests)
  BY DEF StartUnit, GoTo, DriversInv, UnitShape
<1> DEFINE u == Head(plan)
<1>2. u \in Requests /\ plan' \in Seq(Requests)
  BY <1>1
<1>3. PICK mode \in BuildModes(C!GetDriver(u.engine, None), u.bulk) :
          unit' = [driver |-> C!GetDriver(u.engine, None), bulk |-> u.bulk,
                   mode |-> mode, rows |-> IndexedRows(u.subset),
                   threads |-> u.threads, slice |-> u.slice, steps |-> u.steps]
  BY DEF StartUnit
<1> HIDE DEF u
<1>4. /\ u.engine \in C!KnownEngines /\ u.bulk \in BOOLEAN
      /\ u.subset \in (Nat \ {0}) \cup {None} /\ u.threads \in Nat \ {0}
      /\ u.slice \in Nat \ {0} /\ u.steps \in Seq(Nat)
      /\ u.engine = "valkey" => u.bulk
  BY <1>2 DEF Requests
<1>5. IndexedRows(u.subset) \in Nat \ {0}
  <2>1. Len(Train) \in Nat \ {0}
    BY DatasetAssumption
  <2>2. QED
    BY <1>4, <2>1 DEF IndexedRows, Smaller
<1> DEFINE driver == C!GetDriver(u.engine, None)
<1>6. driver \in C!DriverClasses /\ (driver = "ValkeyDriver" => u.bulk)
  BY <1>4, DriverOf
<1> HIDE DEF driver
<1>7. mode \in {"post", "incremental"} /\ (driver = "ValkeyDriver" => mode = "post")
  BY <1>3, <1>6 DEF BuildModes, driver
<1>8. unit' \in Units
  BY <1>3, <1>4, <1>5, <1>6, <1>7 DEF Units, driver
<1>9. UnitShape'
  BY <1>1, <1>2, <1>8 DEF DriversInv, UnitShape, LiveIds, Early
<1>10. LoadHolds' /\ ChurnHolds'
  BY <1>1 DEF LoadHolds, ChurnHolds, Ahead, Serving, Renewing, Entire, Lacking
<1>11. ValkeyHolds' /\ GraphHolds' /\ MongoHolds'
  BY <1>1 DEF ValkeyHolds, GraphHolds, MongoHolds, Filling, Serving, Renewing, Entire,
         Lacking, Repairing
<1>12. QED
  BY <1>9, <1>10, <1>11 DEF DriversInv

(* A driver object that is new.                                               *)
LEMMA NewIsRemembered == Remembered(NewDriver)
PROOF
<1>1. QED
  BY DriversAssumption DEF Remembered, NewDriver, DriverKeys

(* A schema: nothing is in the table, and the unit has its driver.            *)
LEMMA SchemaKeeps ==
    ASSUME DriversInv, pc = "schema", pc' = "load", UNCHANGED <<unit, plan>>,
           DOMAIN srv' = ServerKeys, DOMAIN srv'.table = {},
           drv' = [main |-> NewDriver],
           unit.driver \in {"MyVectorDriver", "ValkeyDriver"} => ~ srv'.built
    PROVE  DriversInv'
PROOF
<1>1. "main" \in DOMAIN drv' /\ \A w \in DOMAIN drv' : drv'[w] = NewDriver
  OBVIOUS
<1>2. UnitShape'
  BY <1>1, NewIsRemembered, FS_EmptySet
     DEF DriversInv, UnitShape, LiveIds, Early, Filling, NewDriver
<1>3. LoadHolds' /\ ChurnHolds'
  BY DEF LoadHolds, ChurnHolds, Ahead, Serving, Renewing, Entire, Lacking, LiveIds
<1>4. ValkeyHolds' /\ GraphHolds' /\ MongoHolds'
  BY DEF ValkeyHolds, GraphHolds, MongoHolds, Filling, Serving, Renewing, Entire,
         Lacking, Repairing
<1>5. QED
  BY <1>2, <1>3, <1>4 DEF DriversInv

(* Each engine makes such a schema.                                           *)
LEMMA SchemasKeep ==
    ASSUME DriversInv, SqlSchema \/ MyVectorSchema \/ MongoSchema \/ ValkeySchema
    PROVE  DriversInv'
PROOF
<1>1. pc = "schema" => unit \in Units
  BY DEF DriversInv, UnitShape
<1>2. CASE SqlSchema
  <2>1. srv' = [EmptyServer EXCEPT !.built = InlineIndex(unit.driver, unit.mode)]
    BY <1>2 DEF SqlSchema
  <2>2. DOMAIN srv' = ServerKeys /\ DOMAIN srv'.table = {}
    BY <2>1, EmptyKeys DEF ServerKeys
  <2>3. QED
    BY <1>2, <2>2, SchemaKeeps DEF SqlSchema, GoTo, Kept, IsSql, SqlNames
<1>3. CASE MyVectorSchema
  <2>1. CASE UnitEnds
    BY <2>1, Ends
  <2>2. CASE ~ UnitEnds
    <3>1. /\ pc = "schema" /\ srv' = EmptyServer /\ drv' = [main |-> NewDriver]
          /\ pc' = "load" /\ UNCHANGED <<unit, plan>>
      BY <1>3, <2>2 DEF MyVectorSchema, GoTo, Kept
    <3>2. QED
      BY <3>1, EmptyKeys, SchemaKeeps
  <2>3. QED
    BY <2>1, <2>2
<1>4. CASE MongoSchema
  BY <1>4, EmptyKeys, SchemaKeeps DEF MongoSchema, GoTo, Kept
<1>5. CASE ValkeySchema
  <2>1. srv' = [EmptyServer EXCEPT !.built = unit.mode = "incremental"]
        /\ pc = "schema" /\ unit.driver = "ValkeyDriver"
    BY <1>5 DEF ValkeySchema, IsValkey
  <2>2. unit.mode = "post"
    BY <1>1, <2>1 DEF Units
  <2>3. DOMAIN srv' = ServerKeys /\ DOMAIN srv'.table = {} /\ ~ srv'.built
    BY <2>1, <2>2, EmptyKeys DEF ServerKeys
  <2>4. QED
    BY <1>5, <2>3, SchemaKeeps DEF ValkeySchema, GoTo, Kept
<1>6. QED
  BY <1>2, <1>3, <1>4, <1>5

(* Scoring and the window change nothing of the server.                       *)
LEMMA ServingKeeps ==
    ASSUME DriversInv, UNCHANGED <<unit, srv, drv, plan>>, pc \in Serving,
           pc' \in Serving \cup {"done"}
    PROVE  DriversInv'
PROOF
<1>1. UnitShape'
  BY DEF DriversInv, UnitShape, LiveIds, Serving, Repairing, Early
<1>2. LoadHolds' /\ ChurnHolds'
  BY DEF DriversInv, LoadHolds, ChurnHolds, Ahead, Serving, Renewing, Entire, Lacking,
         LiveIds
<1>3. ValkeyHolds' /\ MongoHolds'
  BY DEF DriversInv, ValkeyHolds, MongoHolds, Filling, Serving, Renewing, Entire,
         Lacking, LiveIds
<1>4. GraphHolds'
  BY DEF DriversInv, GraphHolds, Filling, Serving, Renewing, Entire, Lacking, Repairing,
         LiveIds, Capacitated
<1>5. QED
  BY <1>1, <1>2, <1>3, <1>4 DEF DriversInv

-----------------------------------------------------------------------------
(* The row of a step's deletes the driver is told of is one of them.          *)
LEMMA LastDoomed ==
    ASSUME DriversInv, pc \in Renewing, churn.doomed # {}
    PROVE  /\ unit \in Units /\ churn.doomed \subseteq 1 .. unit.rows
           /\ LastOf(churn.doomed) \in churn.doomed
PROOF
<1>1. unit \in Units
  BY DEF DriversInv, UnitShape, Renewing, Entire, Lacking
<1>2. churn.doomed \subseteq 1 .. unit.rows /\ unit.rows \in Nat
  BY <1>1 DEF DriversInv, ChurnHolds, Unchurned, Units
<1>3. QED
  BY <1>1, <1>2, Greatest

(* A change of the index alone, by the process that follows the table.        *)
LEMMA FollowingKeeps ==
    ASSUME DriversInv, IndexFollows
    PROVE  DriversInv'
PROOF
<1>1. /\ srv.built /\ unit.driver \in {"MongoDriver", "ValkeyDriver"}
      /\ UNCHANGED <<unit, plan, pc, drv, loaders, poll, churn>>
  BY DEF IndexFollows, Kept, restVars
<1>2. PICK id \in (LiveIds \ srv.index) \cup (srv.index \ LiveIds) :
          srv' = [srv EXCEPT !.index = IF id \in @ THEN @ \ {id} ELSE @ \cup {id}]
  BY DEF IndexFollows
<1>3. DOMAIN srv = ServerKeys /\ IsFiniteSet(LiveIds) /\ pc \notin {"idle"} \cup Early
      /\ unit \in Units
  BY <1>1, EmptyKeys DEF DriversInv, UnitShape
<1>4. /\ DOMAIN srv' = ServerKeys /\ srv'.table = srv.table /\ srv'.built = srv.built
      /\ srv'.index = IF id \in srv.index THEN srv.index \ {id} ELSE srv.index \cup {id}
  BY <1>2, <1>3 DEF ServerKeys
<1>5. LiveIds' = LiveIds
  BY <1>4 DEF LiveIds
<1>6. UnitShape'
  BY <1>1, <1>3, <1>4, <1>5 DEF DriversInv, UnitShape
<1>7. LoadHolds' /\ ChurnHolds'
  BY <1>1, <1>5 DEF DriversInv, LoadHolds, ChurnHolds, WritesHold, SlicesShape, Unchurned,
                    Doomed, Fresh, Underway
<1>8. ValkeyHolds'
  <2>1. SUFFICES ASSUME unit.driver = "ValkeyDriver" PROVE ValkeyHolds'
    BY <1>1 DEF ValkeyHolds
  <2>2. srv.index # LiveIds
    OBVIOUS
  <2>3. pc \notin Serving /\ (pc \in Filling => ~ srv'.built)
    BY <1>4, <2>1, <2>2, <1>3, <1>1 DEF DriversInv, ValkeyHolds, UnitShape, Units, Early
  <2>4. ASSUME pc \in Renewing, Good
        PROVE  pc \in {"mutations", "writes", "sync_writes"}
    BY <2>1, <2>2, <2>4, <1>3, <1>1 DEF DriversInv, ValkeyHolds
  <2>5. ASSUME pc \in {"writes", "sync_writes"}, Good
        PROVE  srv'.index \subseteq LiveIds
    <3>1. srv.index \subseteq LiveIds
      BY <2>1, <2>5 DEF DriversInv, ValkeyHolds, Renewing, Entire, Lacking
    <3>2. QED
      BY <3>1, <1>4
  <2>6. ASSUME pc = "mutations", Good
        PROVE  LiveIds \subseteq srv'.index /\ IsFiniteSet(srv'.index)
    <3>1. LiveIds \subseteq srv.index /\ IsFiniteSet(srv.index)
      BY <2>1, <2>6 DEF DriversInv, ValkeyHolds, Renewing, Entire, Lacking
    <3>2. srv'.index = srv.index \ {id}
      BY <3>1, <1>4
    <3>3. QED
      BY <3>1, <3>2, FS_Subset
  <2>7. pc # "idle"
    BY <1>3, <1>1 DEF DriversInv, ValkeyHolds
  <2>8. QED
    BY <1>1, <1>4, <1>5, <2>1, <2>3, <2>4, <2>5, <2>6 DEF DriversInv, ValkeyHolds, Good
<1>9. MongoHolds'
  <2>1. SUFFICES ASSUME unit.driver = "MongoDriver" PROVE MongoHolds'
    BY <1>1 DEF MongoHolds
  <2>2. ASSUME pc \in {"sync_deletes", "synced_deletes"}, LastOf(churn.doomed) \notin srv.index
        PROVE  LastOf(churn.doomed) \notin srv'.index
    <3>1. pc \in Renewing /\ churn.doomed # {} /\ churn.doomed \cap LiveIds = {}
      BY <2>2 DEF DriversInv, ChurnHolds, Renewing, Lacking
    <3>2. LastOf(churn.doomed) \notin LiveIds
      BY <3>1, LastDoomed
    <3>3. QED
      BY <3>2, <2>2, <1>4
  <2>3. ASSUME pc = "synced_writes", LastOf(ToSet(churn.fresh)) \in srv.index
        PROVE  LastOf(ToSet(churn.fresh)) \in srv'.index
    <3>1. LastOf(ToSet(churn.fresh)) \in LiveIds
      BY <2>3 DEF DriversInv, ChurnHolds
    <3>2. QED
      BY <3>1, <2>3, <1>4
  <2>4. QED
    BY <1>1, <2>1, <2>2, <2>3 DEF DriversInv, MongoHolds
<1>10. GraphHolds'
  BY <1>1 DEF GraphHolds
<1>11. QED
  BY <1>6, <1>7, <1>8, <1>9, <1>10 DEF DriversInv

(* Nothing happens.                                                           *)
LEMMA StutterKeeps ==
    ASSUME DriversInv, UNCHANGED unitVars
    PROVE  DriversInv'
PROOF
<1>1. UnitShape' /\ LoadHolds'
  BY DEF DriversInv, UnitShape, LoadHolds, unitVars, LiveIds
<1>2. ChurnHolds'
  BY DEF DriversInv, ChurnHolds, WritesHold, SlicesShape, Unchurned, Doomed, Fresh,
         Underway, unitVars, LiveIds
<1>3. ValkeyHolds' /\ GraphHolds' /\ MongoHolds'
  BY DEF DriversInv, ValkeyHolds, GraphHolds, MongoHolds, Capacitated, Good, unitVars,
         LiveIds
<1>4. QED
  BY <1>1, <1>2, <1>3 DEF DriversInv

-----------------------------------------------------------------------------
(* Between the schema and the end of a unit, its shape asks for the server's  *)
(* keys and for what each driver remembers.                                   *)
LEMMA ShapeKeeps ==
    ASSUME DriversInv, pc \notin {"idle"} \cup Early,
           pc' \in Filling \cup Ahead \cup Serving \cup Renewing \cup Repairing,
           UNCHANGED <<unit, plan>>, DOMAIN srv' = ServerKeys, IsFiniteSet(LiveIds'),
           "main" \in DOMAIN drv', \A w \in DOMAIN drv' : Remembered(drv'[w]),
           drv'["main"].note \in {"row found", "row gone"} => unit.driver = "MongoDriver"
    PROVE  UnitShape'
PROOF
<1>1. pc' \notin {"idle"} \cup Early
  BY DEF Filling, Ahead, Serving, Renewing, Entire, Lacking, Repairing, Early
<1>2. QED
  BY <1>1 DEF DriversInv, UnitShape, Remembered

(* And that is what it has.                                                   *)
LEMMA ShapeNow ==
    ASSUME DriversInv, pc \notin {"idle"} \cup Early
    PROVE  /\ unit \in Units /\ DOMAIN srv = ServerKeys /\ IsFiniteSet(LiveIds)
           /\ "main" \in DOMAIN drv /\ \A w \in DOMAIN drv : Remembered(drv[w])
           /\ drv["main"].note \in {"row found", "row gone"}
                  => unit.driver = "MongoDriver"
PROOF
<1>1. QED
  BY DEF DriversInv, UnitShape

(* The index of a loaded table: asked for, or built at once.                  *)
LEMMA IndexKeeps ==
    ASSUME DriversInv, pc = "index", pc' \in {"filters", "ready", "backfill"},
           UNCHANGED <<unit, plan>>, DOMAIN srv' = ServerKeys, srv'.table = srv.table,
           DOMAIN drv' = DOMAIN drv, \A w \in DOMAIN drv' : Remembered(drv'[w]),
           drv'["main"].note = drv["main"].note,
           unit.driver = "ValkeyDriver" => pc' = "backfill",
           unit.driver = "MyVectorDriver" =>
               /\ pc' = "filters" /\ srv'.built /\ LiveIds \subseteq srv'.index
               /\ Capacitated'
    PROVE  DriversInv'
PROOF
<1>1. pc \notin {"idle"} \cup Early /\ LiveIds' = LiveIds
  BY DEF Early, LiveIds
<1>2. UnitShape'
  BY <1>1, ShapeNow, ShapeKeeps DEF Ahead, Serving
<1>3. LoadHolds' /\ ChurnHolds'
  BY <1>1 DEF DriversInv, LoadHolds, ChurnHolds, Ahead, Serving, Renewing, Entire, Lacking
<1>4. ValkeyHolds' /\ MongoHolds'
  BY DEF ValkeyHolds, MongoHolds, Filling, Serving, Renewing, Entire, Lacking
<1>5. GraphHolds'
  BY <1>1 DEF GraphHolds, Filling, Serving, Renewing, Entire, Lacking, Repairing
<1>6. QED
  BY <1>2, <1>3, <1>4, <1>5 DEF DriversInv

(* A build of MyVector's graph takes in the table, and declares room for it.  *)
LEMMA Building ==
    ASSUME DriversInv, pc \in {"index", "maintain"}, NEW next, Build(next)
    PROVE  /\ pc' = next /\ DOMAIN srv' = ServerKeys /\ srv'.table = srv.table
           /\ srv'.built /\ srv'.index = LiveIds /\ Capacitated'
           /\ DOMAIN drv' = DOMAIN drv /\ \A w \in DOMAIN drv' : Remembered(drv'[w])
           /\ drv'["main"].note = drv["main"].note
PROOF
<1> DEFINE n == Cardinality(LiveIds)
           capacity == CapacityFor(n, drv["main"].capacity)
<1>1. /\ DOMAIN srv = ServerKeys /\ IsFiniteSet(LiveIds) /\ "main" \in DOMAIN drv
      /\ \A w \in DOMAIN drv : Remembered(drv[w])
  BY ShapeNow DEF Early
<1>2. n \in Nat
  BY <1>1, FS_CardinalityType
<1>3. /\ pc' = next /\ srv' = Built(srv, n, capacity)
      /\ drv' = [drv EXCEPT !["main"].capacity = capacity, !["main"].elements = n,
                            !["main"].pending = 0]
  BY DEF Build, GoTo
<1>4. drv["main"].capacity \in Nat
  BY <1>1 DEF Remembered
<1> HIDE DEF n
<1>5. capacity \in Nat \ {0} /\ n <= capacity
  BY <1>2, <1>4, DriversAssumption DEF CapacityFor, Larger
<1> HIDE DEF capacity
<1>6. /\ DOMAIN srv' = ServerKeys /\ srv'.table = srv.table /\ srv'.built
      /\ srv'.index = LiveIds /\ srv'.capacity = capacity
  BY <1>1, <1>3 DEF Built, ServerKeys, LiveIds
<1>7. /\ DOMAIN drv' = DOMAIN drv
      /\ \A w \in DOMAIN drv \ {"main"} : drv'[w] = drv[w]
      /\ DOMAIN drv'["main"] = DriverKeys
      /\ drv'["main"].capacity = capacity /\ drv'["main"].elements = n
      /\ drv'["main"].pending = 0 /\ drv'["main"].batch = drv["main"].batch
      /\ drv'["main"].note = drv["main"].note
  BY <1>1, <1>3 DEF Remembered, DriverKeys
<1>8. \A w \in DOMAIN drv' : Remembered(drv'[w])
  BY <1>1, <1>2, <1>5, <1>7 DEF Remembered
<1>9. Cardinality(srv'.index) = n
  BY <1>6 DEF n
<1>10. Capacitated'
  BY <1>2, <1>5, <1>6, <1>7, <1>9 DEF Capacitated
<1>11. QED
  BY <1>3, <1>6, <1>7, <1>8, <1>10

(* Each engine builds such an index.                                          *)
LEMMA IndexesKeep ==
    ASSUME DriversInv, SqlIndex \/ MyVectorIndex \/ MongoIndex \/ ValkeyIndex
    PROVE  DriversInv'
PROOF
<1>1. pc = "index"
  BY DEF SqlIndex, MyVectorIndex, MongoIndex, ValkeyIndex
<1>2. /\ DOMAIN srv = ServerKeys /\ "main" \in DOMAIN drv
      /\ \A w \in DOMAIN drv : Remembered(drv[w])
  BY <1>1, ShapeNow DEF Early
<1>3. CASE SqlIndex
  <2>1. CASE UnitEnds
    BY <2>1, Ends
  <2>2. CASE ~ UnitEnds
    <3>1. /\ srv' = [srv EXCEPT !.index = LiveIds, !.built = TRUE] /\ pc' = "filters"
          /\ UNCHANGED <<unit, plan, drv>> /\ unit.driver \in SqlNames
      BY <1>3, <2>2 DEF SqlIndex, GoTo, Kept, IsSql
    <3>2. DOMAIN srv' = ServerKeys /\ srv'.table = srv.table
      BY <1>2, <3>1 DEF ServerKeys
    <3>3. QED
      BY <1>1, <1>2, <3>1, <3>2, IndexKeeps DEF SqlNames
  <2>3. QED
    BY <2>1, <2>2
<1>4. CASE MyVectorIndex
  <2>1. Build("filters") /\ UNCHANGED <<unit, plan>> /\ unit.driver = "MyVectorDriver"
    BY <1>4 DEF MyVectorIndex, Kept, IsMyVector
  <2>2. QED
    BY <1>1, <2>1, Building, IndexKeeps
<1>5. CASE MongoIndex \/ ValkeyIndex
  <2>1. /\ srv' = [srv EXCEPT !.built = TRUE] /\ UNCHANGED <<unit, plan, drv>>
        /\ \/ unit.driver = "MongoDriver" /\ pc' = "ready"
           \/ unit.driver = "ValkeyDriver" /\ pc' = "backfill"
    BY <1>5 DEF MongoIndex, ValkeyIndex, GoTo, Kept, IsMongo, IsValkey
  <2>2. DOMAIN srv' = ServerKeys /\ srv'.table = srv.table
    BY <1>2, <2>1 DEF ServerKeys
  <2>3. QED
    BY <1>1, <1>2, <2>1, <2>2, IndexKeeps
<1>6. QED
  BY <1>3, <1>4, <1>5

(* The index is said to be ready: on Valkey it then is the table's.           *)
LEMMA ReadyKeeps ==
    ASSUME DriversInv, pc \in {"ready", "backfill"}, pc' = "filters",
           UNCHANGED <<unit, plan, srv, drv>>,
           unit.driver = "ValkeyDriver" => srv.index = LiveIds
    PROVE  DriversInv'
PROOF
<1>1. pc \notin {"idle"} \cup Early /\ LiveIds' = LiveIds
  BY DEF Early, LiveIds
<1>2. UnitShape'
  BY <1>1, ShapeNow, ShapeKeeps DEF Serving
<1>3. LoadHolds' /\ ChurnHolds'
  BY <1>1 DEF DriversInv, LoadHolds, ChurnHolds, Ahead, Serving, Renewing, Entire, Lacking
<1>4. ValkeyHolds' /\ MongoHolds'
  BY <1>1 DEF ValkeyHolds, MongoHolds, Filling, Serving, Renewing, Entire, Lacking
<1>5. GraphHolds'
  BY DEF DriversInv, GraphHolds
<1>6. QED
  BY <1>2, <1>3, <1>4, <1>5 DEF DriversInv

(* mongot's and valkey-search's waits after a build.                          *)
LEMMA WaitsKeep ==
    ASSUME DriversInv, WaitUntilReady \/ WaitForBackfill
    PROVE  DriversInv'
PROOF
<1>1. CASE UnitEnds
  BY <1>1, Ends
<1>2. CASE UNCHANGED unitVars
  BY <1>2, StutterKeeps
<1>3. CASE WaitUntilReady /\ ~ UnitEnds /\ ~ UNCHANGED unitVars
  <2>1. /\ pc = "ready" /\ pc' = "filters" /\ UNCHANGED <<unit, plan, srv, drv>>
        /\ unit.driver = "MongoDriver"
    BY <1>3 DEF WaitUntilReady, GoTo, Kept, IsMongo
  <2>2. QED
    BY <2>1, ReadyKeeps
<1>4. CASE WaitForBackfill /\ ~ UnitEnds /\ ~ UNCHANGED unitVars
  <2>1. PICK answers \in BOOLEAN :
            /\ BackfillProgress(answers).whole /\ ~ BackfillProgress(answers).indexing
            /\ pc' = "filters" /\ UNCHANGED <<unit, plan, srv, drv>>
    BY <1>4 DEF WaitForBackfill, GoTo, Kept
  <2>2. pc = "backfill" /\ srv.index = LiveIds
    BY <1>4, <2>1 DEF BackfillProgress, WaitForBackfill
  <2>3. QED
    BY <2>1, <2>2, ReadyKeeps
<1>5. QED
  BY <1>1, <1>2, <1>3, <1>4

(* The repair after the last churn step.                                      *)
LEMMA RepairKeeps ==
    ASSUME DriversInv, pc = "maintain", pc' = "done",
           UNCHANGED <<unit, plan>>, DOMAIN srv' = ServerKeys, srv'.table = srv.table,
           DOMAIN drv' = DOMAIN drv, \A w \in DOMAIN drv' : Remembered(drv'[w]),
           drv'["main"].note = drv["main"].note,
           unit.driver = "MyVectorDriver" =>
               \/ UNCHANGED <<srv, drv>>
               \/ srv'.built /\ LiveIds \subseteq srv'.index /\ Capacitated'
    PROVE  DriversInv'
PROOF
<1>1. pc \notin {"idle"} \cup Early /\ LiveIds' = LiveIds
  BY DEF Early, LiveIds
<1>2. UnitShape'
  BY <1>1, ShapeNow, ShapeKeeps DEF Repairing
<1>3. LoadHolds' /\ ChurnHolds'
  BY <1>1 DEF DriversInv, LoadHolds, ChurnHolds, Ahead, Serving, Renewing, Entire, Lacking
<1>4. ValkeyHolds' /\ MongoHolds'
  BY DEF ValkeyHolds, MongoHolds, Filling, Serving, Renewing, Entire, Lacking
<1>5. GraphHolds'
  BY <1>1 DEF DriversInv, GraphHolds, Capacitated, Filling, Serving, Renewing, Entire,
              Lacking, Repairing
<1>6. QED
  BY <1>2, <1>3, <1>4, <1>5 DEF DriversInv

(* Each engine's repair leaves the table as it is.                            *)
LEMMA RepairsKeep ==
    ASSUME DriversInv, Vacuum \/ ReplaceIndex \/ Rebuild \/ NoRepair
    PROVE  DriversInv'
PROOF
<1>1. pc = "maintain"
  BY DEF Vacuum, ReplaceIndex, Rebuild, NoRepair
<1>2. /\ DOMAIN srv = ServerKeys /\ "main" \in DOMAIN drv
      /\ \A w \in DOMAIN drv : Remembered(drv[w])
  BY <1>1, ShapeNow DEF Early
<1>3. CASE Rebuild
  <2>1. Build("done") /\ UNCHANGED <<unit, plan>> /\ unit.driver = "MyVectorDriver"
    BY <1>3 DEF Rebuild, Kept, IsMyVector
  <2>2. QED
    BY <1>1, <2>1, Building, RepairKeeps
<1>4. CASE Vacuum
  <2>1. /\ srv' = [srv EXCEPT !.autovacuum = TRUE] /\ pc' = "done"
        /\ UNCHANGED <<unit, plan, drv>> /\ unit.driver = "PostgresDriver"
    BY <1>4 DEF Vacuum, GoTo, Kept
  <2>2. DOMAIN srv' = ServerKeys /\ srv'.table = srv.table
    BY <1>2, <2>1 DEF ServerKeys
  <2>3. QED
    BY <1>1, <1>2, <2>1, <2>2, RepairKeeps
<1>5. CASE ReplaceIndex
  <2>1. /\ srv' = srv \/ srv' = [srv EXCEPT !.index = LiveIds]
        /\ pc' = "done" /\ UNCHANGED <<unit, plan, drv>> /\ unit.driver \in SqlNames
    BY <1>5 DEF ReplaceIndex, GoTo, Kept, IsSql
  <2>2. DOMAIN srv' = ServerKeys /\ srv'.table = srv.table
    BY <1>2, <2>1 DEF ServerKeys
  <2>3. QED
    BY <1>1, <1>2, <2>1, <2>2, RepairKeeps DEF SqlNames
<1>6. CASE NoRepair
  BY <1>1, <1>2, <1>6, RepairKeeps DEF NoRepair, GoTo, Kept
<1>7. QED
  BY <1>3, <1>4, <1>5, <1>6

-----------------------------------------------------------------------------
(* The load. Integer division, as the two ways to part the rows use it.       *)
LEMMA Dividing ==
    ASSUME NEW a \in Nat, NEW b \in Nat \ {0}
    PROVE  a \div b \in Nat /\ (a \div b) * b <= a /\ a < (a \div b) * b + b
PROOF
<1>1. QED
  OBVIOUS

(* A quotient, by what it is multiplied with.                                 *)
LEMMA Quotient ==
    ASSUME NEW a \in Nat, NEW b \in Nat \ {0}, NEW m \in Nat, m * b <= a
    PROVE  m <= a \div b
PROOF
<1> DEFINE q == a \div b
<1>1. q \in Nat /\ a < q * b + b
  BY Dividing
<1> HIDE DEF q
<1>2. ASSUME q + 1 <= m PROVE FALSE
  <2>1. (q + 1) * b <= m * b
    BY <1>1, <1>2
  <2>2. QED
    BY <1>1, <2>1
<1>3. QED
  BY <1>1, <1>2 DEF q

(* Quotients by one number are in the order of what is divided.               *)
LEMMA QuotientsGrow ==
    ASSUME NEW a \in Nat, NEW c \in Nat, NEW b \in Nat \ {0}, a <= c
    PROVE  a \div b <= c \div b
PROOF
<1> DEFINE q == a \div b
<1>1. q \in Nat /\ q * b <= a
  BY Dividing
<1> HIDE DEF q
<1>2. q * b <= c /\ q * b \in Nat
  BY <1>1
<1>3. QED
  BY <1>1, <1>2, Quotient DEF q

(* Chunks of one length cover the numbers up to a bound, and the last one     *)
(* begins under it.                                                           *)
LEMMA Chunks ==
    ASSUME NEW n \in Nat \ {0}, NEW size \in Nat \ {0}
    PROVE  /\ (n + size - 1) \div size \in Nat \ {0}
           /\ \A t \in 1 .. (n + size - 1) \div size : (t - 1) * size < n
           /\ \A r \in 1 .. n : \E t \in 1 .. (n + size - 1) \div size :
                 (t - 1) * size < r /\ r <= t * size
PROOF
<1> DEFINE last == (n + size - 1) \div size
<1>0. n + size - 1 \in Nat
  OBVIOUS
<1>1. last \in Nat /\ last * size <= n + size - 1
  BY <1>0, Dividing
<1>2. 1 * size <= n + size - 1
  OBVIOUS
<1>3. 1 <= last
  BY <1>0, <1>2, Quotient
<1>4. ASSUME NEW r \in 1 .. n
      PROVE  \E t \in 1 .. last : (t - 1) * size < r /\ r <= t * size
  <2> DEFINE q == (r - 1) \div size
  <2>1. r - 1 \in Nat
    OBVIOUS
  <2>2. q \in Nat /\ q * size <= r - 1 /\ r - 1 < q * size + size
    BY <2>1, Dividing
  <2> HIDE DEF q
  <2>3. (q + 1) * size = q * size + size
    BY <2>2
  <2>4. (q + 1) * size <= n + size - 1
    BY <2>2, <2>3
  <2>5. q + 1 <= last
    BY <1>0, <2>2, <2>4, Quotient
  <2>6. (q + 1) - 1 = q /\ q + 1 \in 1 .. last
    BY <1>1, <2>2, <2>5
  <2>7. q * size < r /\ r <= (q + 1) * size
    BY <2>2, <2>3
  <2>8. QED
    BY <2>6, <2>7
<1>5. ASSUME NEW t \in 1 .. last PROVE (t - 1) * size < n
  <2>1. t * size <= last * size
    BY <1>1
  <2>2. (t - 1) * size = t * size - size /\ t * size \in Nat /\ last * size \in Nat
    BY <1>1
  <2>3. QED
    BY <1>1, <2>1, <2>2
<1>6. QED
  BY <1>1, <1>3, <1>4, <1>5

(* So do as many parts as there are threads, each ending where the next       *)
(* begins.                                                                    *)
LEMMA Parts ==
    ASSUME NEW n \in Nat \ {0}, NEW threads \in Nat \ {0}
    PROVE  /\ \A t \in 1 .. threads :
                 /\ (n * (t - 1)) \div threads \in Nat
                 /\ (n * t) \div threads \in 0 .. n
                 /\ (n * (t - 1)) \div threads <= (n * t) \div threads
           /\ \A r \in 1 .. n : \E t \in 1 .. threads :
                 (n * (t - 1)) \div threads < r /\ r <= (n * t) \div threads
PROOF
<1> DEFINE part(t) == (n * t) \div threads
<1>1. \A t \in 0 .. threads : n * t \in Nat /\ n * t <= n * threads
  OBVIOUS
<1>2. part(threads) = n
  <2>1. n <= part(threads)
    BY <1>1, Quotient
  <2>2. part(threads) \in Nat /\ part(threads) * threads <= n * threads
    BY <1>1, Dividing
  <2> HIDE DEF part
  <2>3. ASSUME n + 1 <= part(threads) PROVE FALSE
    <3>1. (n + 1) * threads <= part(threads) * threads
      BY <2>2, <2>3
    <3>2. (n + 1) * threads = n * threads + threads
      OBVIOUS
    <3>3. QED
      BY <2>2, <3>1, <3>2
  <2>4. QED
    BY <2>1, <2>2, <2>3
<1>3. part(0) = 0
  <2>1. n * 0 = 0 /\ 0 \div threads \in Nat /\ (0 \div threads) * threads <= 0
    BY Dividing
  <2>2. QED
    BY <2>1
<1>4. \A t \in 0 .. threads : part(t) \in Nat /\ part(t) <= n
  <2>1. SUFFICES ASSUME NEW t \in 0 .. threads PROVE part(t) \in Nat /\ part(t) <= n
    OBVIOUS
  <2>2. n * t \in Nat /\ n * threads \in Nat /\ n * t <= n * threads
    BY <1>1
  <2>3. QED
    BY <1>2, <2>2, Dividing, QuotientsGrow
<1>5. \A t \in 1 .. threads : part(t - 1) <= part(t)
  <2>1. SUFFICES ASSUME NEW t \in 1 .. threads PROVE part(t - 1) <= part(t)
    OBVIOUS
  <2>2. n * (t - 1) \in Nat /\ n * t \in Nat /\ n * (t - 1) <= n * t
    OBVIOUS
  <2>3. QED
    BY <2>2, QuotientsGrow
<1>6. ASSUME NEW r \in 1 .. n
      PROVE  \E t \in 1 .. threads : part(t - 1) < r /\ r <= part(t)
  <2> HIDE DEF part
  <2> DEFINE T == {t \in 1 .. threads : r <= part(t)}
  <2>1. T \subseteq Nat /\ T # {}
    BY <1>2
  <2> HIDE DEF T
  <2>2. PICK t \in T : \A y \in T : t <= y
    BY <2>1, LeastNatural
  <2>3. t \in 1 .. threads /\ r <= part(t)
    BY <2>2 DEF T
  <2>4. CASE t = 1
    BY <1>3, <2>3, <2>4
  <2>5. CASE t # 1
    <3>1. t - 1 \in 1 .. threads /\ ~ (t <= t - 1)
      BY <2>3, <2>5
    <3>2. ~ (r <= part(t - 1))
      BY <2>2, <3>1 DEF T
    <3>3. part(t - 1) \in Nat
      BY <1>4, <3>1
    <3>4. QED
      BY <2>3, <3>2, <3>3
  <2>6. QED
    BY <2>4, <2>5
<1>7. \A t \in 1 .. threads : t - 1 \in 0 .. threads /\ t \in 0 .. threads
  OBVIOUS
<1>8. QED
  BY <1>4, <1>5, <1>6, <1>7

(* The threads' ranges hold every row.                                        *)
LEMMA TasksCover ==
    ASSUME NEW driver, NEW rows \in Nat \ {0}, NEW threads \in Nat \ {0},
           NEW tasks, tasks = LoadTasks(driver, rows, threads)
    PROVE  /\ \A t \in DOMAIN tasks :
                 /\ DOMAIN tasks[t] = {"at", "hi", "failed"}
                 /\ tasks[t].at \in Nat /\ tasks[t].hi \in 0 .. rows
                 /\ tasks[t].at <= tasks[t].hi
           /\ \A r \in 1 .. rows : \E t \in DOMAIN tasks :
                 tasks[t].at < r /\ r <= tasks[t].hi
PROOF
<1> DEFINE chunk == (rows + threads - 1) \div threads
           count == (rows + chunk - 1) \div chunk
<1>1. CASE driver \in {"ValkeyDriver", "MongoDriver"}
  <2>1. chunk \in Nat \ {0}
    BY Chunks
  <2>2. tasks = [t \in 1 .. count |->
                    [at |-> (t - 1) * chunk, hi |-> Smaller(t * chunk, rows),
                     failed |-> FALSE]]
    BY <1>1 DEF LoadTasks
  <2> HIDE DEF chunk
  <2>3. /\ count \in Nat \ {0} /\ \A t \in 1 .. count : (t - 1) * chunk < rows
        /\ \A r \in 1 .. rows : \E t \in 1 .. count :
              (t - 1) * chunk < r /\ r <= t * chunk
    BY <2>1, Chunks
  <2> HIDE DEF count
  <2>4. DOMAIN tasks = 1 .. count
        /\ \A t \in 1 .. count :
              /\ DOMAIN tasks[t] = {"at", "hi", "failed"}
              /\ tasks[t].at = (t - 1) * chunk /\ tasks[t].hi = Smaller(t * chunk, rows)
    BY <2>2
  <2>5. \A t \in 1 .. count : /\ (t - 1) * chunk \in Nat /\ t * chunk \in Nat
                              /\ (t - 1) * chunk <= t * chunk
    BY <2>1, <2>3
  <2>6. \A t \in 1 .. count :
           /\ (t - 1) * chunk <= Smaller(t * chunk, rows)
           /\ Smaller(t * chunk, rows) \in 0 .. rows
    BY <2>3, <2>5 DEF Smaller
  <2>7. \A r \in 1 .. rows : \E t \in 1 .. count :
           (t - 1) * chunk < r /\ r <= Smaller(t * chunk, rows)
    BY <2>3 DEF Smaller
  <2>8. \A t \in DOMAIN tasks :
           /\ DOMAIN tasks[t] = {"at", "hi", "failed"}
           /\ tasks[t].at \in Nat /\ tasks[t].hi \in 0 .. rows
           /\ tasks[t].at <= tasks[t].hi
    BY <2>4, <2>5, <2>6
  <2>9. ASSUME NEW r \in 1 .. rows
        PROVE  \E t \in DOMAIN tasks : tasks[t].at < r /\ r <= tasks[t].hi
    <3>1. PICK t \in 1 .. count : (t - 1) * chunk < r /\ r <= Smaller(t * chunk, rows)
      BY <2>7
    <3>2. tasks[t].at < r /\ r <= tasks[t].hi
      BY <2>4, <3>1
    <3>3. QED
      BY <2>4, <3>2
  <2>10. QED
    BY <2>8, <2>9
<1>2. CASE driver \notin {"ValkeyDriver", "MongoDriver"}
  <2>1. tasks = [t \in 1 .. threads |->
                    [at |-> (rows * (t - 1)) \div threads,
                     hi |-> (rows * t) \div threads, failed |-> FALSE]]
    BY <1>2 DEF LoadTasks
  <2>2. DOMAIN tasks = 1 .. threads
        /\ \A t \in 1 .. threads :
              /\ DOMAIN tasks[t] = {"at", "hi", "failed"}
              /\ tasks[t].at = (rows * (t - 1)) \div threads
              /\ tasks[t].hi = (rows * t) \div threads
    BY <2>1
  <2>3. \A t \in DOMAIN tasks :
           /\ DOMAIN tasks[t] = {"at", "hi", "failed"}
           /\ tasks[t].at \in Nat /\ tasks[t].hi \in 0 .. rows
           /\ tasks[t].at <= tasks[t].hi
    <3>1. SUFFICES ASSUME NEW t \in 1 .. threads
                   PROVE  /\ DOMAIN tasks[t] = {"at", "hi", "failed"}
                          /\ tasks[t].at \in Nat /\ tasks[t].hi \in 0 .. rows
                          /\ tasks[t].at <= tasks[t].hi
      BY <2>2
    <3>2. /\ (rows * (t - 1)) \div threads \in Nat
          /\ (rows * t) \div threads \in 0 .. rows
          /\ (rows * (t - 1)) \div threads <= (rows * t) \div threads
      BY Parts
    <3>3. /\ tasks[t].at = (rows * (t - 1)) \div threads
          /\ tasks[t].hi = (rows * t) \div threads
          /\ DOMAIN tasks[t] = {"at", "hi", "failed"}
      BY <2>2
    <3> DEFINE low == (rows * (t - 1)) \div threads
               high == (rows * t) \div threads
    <3>4. tasks[t].at = low /\ tasks[t].hi = high
          /\ low \in Nat /\ high \in 0 .. rows /\ low <= high
      BY <3>2, <3>3
    <3> HIDE DEF low, high
    <3>5. QED
      BY <3>3, <3>4
  <2>4. ASSUME NEW r \in 1 .. rows
        PROVE  \E t \in DOMAIN tasks : tasks[t].at < r /\ r <= tasks[t].hi
    <3>1. PICK t \in 1 .. threads :
              (rows * (t - 1)) \div threads < r /\ r <= (rows * t) \div threads
      BY Parts
    <3>2. tasks[t].at < r /\ r <= tasks[t].hi
      BY <2>2, <3>1
    <3>3. QED
      BY <2>2, <3>2
  <2>5. QED
    BY <2>3, <2>4
<1>3. QED
  BY <1>1, <1>2

(* A load begins: each row is ahead of a thread.                              *)
LEMMA LoadBegins ==
    ASSUME DriversInv, Load
    PROVE  DriversInv'
PROOF
<1>1. /\ pc = "load" /\ pc' = "loading" /\ UNCHANGED <<unit, plan, srv, drv>>
      /\ loaders' = LoadTasks(unit.driver, unit.rows, unit.threads)
  BY DEF Load, GoTo, Kept
<1>2. pc \notin {"idle"} \cup Early /\ LiveIds' = LiveIds
  BY <1>1 DEF Early, LiveIds
<1>3. UnitShape'
  BY <1>1, <1>2, ShapeNow, ShapeKeeps DEF Filling
<1>4. unit \in Units /\ LiveIds = {}
  BY <1>1, <1>2, ShapeNow DEF DriversInv, LoadHolds
<1>5. unit.rows \in Nat \ {0} /\ unit.threads \in Nat \ {0}
  BY <1>4 DEF Units
<1>6. /\ \A t \in DOMAIN loaders' :
            /\ DOMAIN loaders'[t] = {"at", "hi", "failed"}
            /\ loaders'[t].at \in Nat /\ loaders'[t].hi \in 0 .. unit.rows
            /\ loaders'[t].at <= loaders'[t].hi
      /\ \A r \in 1 .. unit.rows : \E t \in DOMAIN loaders' :
            loaders'[t].at < r /\ r <= loaders'[t].hi
  BY <1>1, <1>5, TasksCover
<1>7. LoadHolds'
  BY <1>1, <1>2, <1>4, <1>6 DEF LoadHolds, Ahead, Serving
<1>8. ChurnHolds'
  BY <1>1 DEF ChurnHolds, Renewing, Entire, Lacking
<1>9. ValkeyHolds' /\ MongoHolds'
  BY <1>1 DEF DriversInv, ValkeyHolds, MongoHolds, Filling, Serving, Renewing, Entire,
              Lacking
<1>10. GraphHolds'
  BY <1>1 DEF DriversInv, GraphHolds, Filling, Serving, Renewing, Entire, Lacking,
              Repairing
<1>11. QED
  BY <1>3, <1>7, <1>8, <1>9, <1>10 DEF DriversInv

(* While rows are written only the load can change, and the table with it.    *)
LEMMA LoadingKeeps ==
    ASSUME DriversInv, pc = "loading", pc' = "loading", UNCHANGED <<unit, plan, drv>>,
           DOMAIN srv' = ServerKeys, srv'.built = srv.built, IsFiniteSet(LiveIds'),
           LoadHolds'
    PROVE  DriversInv'
PROOF
<1>1. pc \notin {"idle"} \cup Early
  BY DEF Early
<1>2. UnitShape'
  BY <1>1, ShapeNow, ShapeKeeps DEF Filling
<1>3. ChurnHolds'
  BY DEF ChurnHolds, Renewing, Entire, Lacking
<1>4. ValkeyHolds' /\ MongoHolds'
  BY DEF DriversInv, ValkeyHolds, MongoHolds, Filling, Serving, Renewing, Entire, Lacking
<1>5. GraphHolds'
  BY DEF DriversInv, GraphHolds, Filling, Serving, Renewing, Entire, Lacking, Repairing
<1>6. QED
  BY <1>2, <1>3, <1>4, <1>5 DEF DriversInv

(* A thread writes its next rows, or fails.                                   *)
LEMMA RowsWritten ==
    ASSUME DriversInv, NEW t, LoadRows(t)
    PROVE  DriversInv'
PROOF
<1>1. /\ pc = "loading" /\ pc' = "loading" /\ UNCHANGED <<unit, plan, drv>>
      /\ t \in DOMAIN loaders
  BY DEF LoadRows, Kept
<1> DEFINE task == loaders[t]
           n == RowsAtOnce(task)
<1>2. unit \in Units /\ DOMAIN srv = ServerKeys /\ IsFiniteSet(LiveIds)
  BY <1>1, ShapeNow DEF Early
<1>3. unit.rows \in Nat \ {0}
  BY <1>2 DEF Units
<1>4. /\ LiveIds \subseteq 1 .. unit.rows
      /\ \A x \in DOMAIN loaders :
            /\ DOMAIN loaders[x] = {"at", "hi", "failed"}
            /\ loaders[x].at \in Nat /\ loaders[x].hi \in 0 .. unit.rows
            /\ loaders[x].at <= loaders[x].hi
      /\ \A r \in 1 .. unit.rows :
            \/ r \in LiveIds
            \/ \E x \in DOMAIN loaders : loaders[x].at < r /\ r <= loaders[x].hi
  BY <1>1 DEF DriversInv, LoadHolds
<1>5. task.at < task.hi
  BY DEF LoadRows
<1>6. n \in Nat /\ n >= 1 /\ task.at + n <= task.hi
  BY <1>1, <1>3, <1>4, <1>5, DriversAssumption DEF RowsAtOnce, Smaller
<1> HIDE DEF n
<1>7. CASE UNCHANGED srv /\ loaders' = [loaders EXCEPT ![t].failed = TRUE]
  <2>1. DOMAIN loaders' = DOMAIN loaders
        /\ \A x \in DOMAIN loaders :
              /\ DOMAIN loaders'[x] = {"at", "hi", "failed"}
              /\ loaders'[x].at = loaders[x].at /\ loaders'[x].hi = loaders[x].hi
    BY <1>1, <1>4, <1>7
  <2>2. LiveIds' = LiveIds
    BY <1>7 DEF LiveIds
  <2>3. LoadHolds'
    BY <1>1, <1>4, <2>1, <2>2 DEF LoadHolds, Ahead, Serving
  <2>4. QED
    BY <1>1, <1>2, <1>7, <2>2, <2>3, LoadingKeeps
<1>8. CASE /\ srv' = Put(srv, [i \in task.at + 1 .. task.at + n |-> DatasetRow(i)])
           /\ loaders' = [loaders EXCEPT ![t].at = @ + n]
  <2> DEFINE new == [i \in task.at + 1 .. task.at + n |-> DatasetRow(i)]
  <2>1. DOMAIN new = task.at + 1 .. task.at + n
    OBVIOUS
  <2>2. srv' = Put(srv, new)
    BY <1>8
  <2> HIDE DEF new
  <2>3. /\ DOMAIN srv' = ServerKeys /\ srv'.built = srv.built
        /\ LiveIds' = (task.at + 1 .. task.at + n) \cup LiveIds
    BY <1>2, <2>1, <2>2, Putting DEF LiveIds
  <2>4. IsFiniteSet(LiveIds')
    <3>1. task.at \in Int /\ n \in Int
      BY <1>1, <1>4, <1>6
    <3>2. IsFiniteSet(task.at + 1 .. task.at + n)
      BY <3>1, FS_Interval
    <3>3. QED
      BY <1>2, <2>3, <3>2, FS_Union
  <2>5. /\ DOMAIN loaders' = DOMAIN loaders
        /\ \A x \in DOMAIN loaders :
              /\ DOMAIN loaders'[x] = {"at", "hi", "failed"}
              /\ loaders'[x].hi = loaders[x].hi
              /\ x # t => loaders'[x].at = loaders[x].at
        /\ loaders'[t].at = loaders[t].at + n
    BY <1>1, <1>4, <1>8
  <2>6. LiveIds' \subseteq 1 .. unit.rows
    <3>1. task.at \in Nat /\ task.hi \in 0 .. unit.rows
      BY <1>1, <1>4
    <3>2. task.at + 1 .. task.at + n \subseteq 1 .. unit.rows
      BY <1>3, <1>6, <3>1
    <3>3. QED
      BY <1>4, <2>3, <3>2
  <2>7. ASSUME NEW r \in 1 .. unit.rows, r \notin LiveIds'
        PROVE  \E x \in DOMAIN loaders' : loaders'[x].at < r /\ r <= loaders'[x].hi
    <3>1. r \notin LiveIds /\ ~ (r \in task.at + 1 .. task.at + n)
      BY <2>3, <2>7
    <3>2. PICK x \in DOMAIN loaders : loaders[x].at < r /\ r <= loaders[x].hi
      BY <1>4, <3>1
    <3>3. x = t => task.at + n < r
      BY <1>1, <1>3, <1>4, <1>6, <3>1, <3>2
    <3>4. QED
      BY <2>5, <3>2, <3>3
  <2>8. \A x \in DOMAIN loaders' :
           /\ DOMAIN loaders'[x] = {"at", "hi", "failed"}
           /\ loaders'[x].at \in Nat /\ loaders'[x].hi \in 0 .. unit.rows
           /\ loaders'[x].at <= loaders'[x].hi
    BY <1>1, <1>4, <1>6, <2>5
  <2>9. LoadHolds'
    BY <1>1, <2>6, <2>7, <2>8 DEF LoadHolds, Ahead, Serving
  <2>10. QED
    BY <1>1, <2>3, <2>4, <2>9, LoadingKeeps
<1>9. QED
  BY <1>7, <1>8 DEF LoadRows, n

(* Every thread that did not fail has written its range: every row is there.  *)
LEMMA LoadEnds ==
    ASSUME DriversInv, Loaded
    PROVE  DriversInv'
PROOF
<1>1. CASE UnitEnds
  BY <1>1, Ends
<1>2. CASE ~ UnitEnds
  <2>1. /\ pc = "loading" /\ UNCHANGED <<unit, plan, srv, drv>>
        /\ pc' = (IF srv.built THEN "filters" ELSE "index")
        /\ \A t \in DOMAIN loaders : loaders[t].at = loaders[t].hi
    BY <1>2 DEF Loaded, GoTo, Kept
  <2>2. pc \notin {"idle"} \cup Early /\ LiveIds' = LiveIds
    BY <2>1 DEF Early, LiveIds
  <2>3. UnitShape'
    BY <2>1, <2>2, ShapeNow, ShapeKeeps DEF Ahead, Serving
  <2>4. unit \in Units
    BY <2>2, ShapeNow
  <2>5. LiveIds \subseteq 1 .. unit.rows
    BY <2>1 DEF DriversInv, LoadHolds
  <2>6. ASSUME NEW r \in 1 .. unit.rows PROVE r \in LiveIds
    <3>1. \/ r \in LiveIds
          \/ \E t \in DOMAIN loaders : loaders[t].at < r /\ r <= loaders[t].hi
      BY <2>1 DEF DriversInv, LoadHolds
    <3>2. \A t \in DOMAIN loaders : loaders[t].at \in Nat
      BY <2>1 DEF DriversInv, LoadHolds
    <3>3. unit.rows \in Nat
      BY <2>4 DEF Units
    <3>4. QED
      BY <2>1, <3>1, <3>2, <3>3
  <2>7. LoadHolds'
    BY <2>1, <2>2, <2>5, <2>6 DEF LoadHolds
  <2>8. ChurnHolds'
    BY <2>1 DEF ChurnHolds, Renewing, Entire, Lacking
  <2>9. unit.driver \in {"ValkeyDriver", "MyVectorDriver"} => pc' = "index" /\ ~ srv.built
    BY <2>1 DEF DriversInv, ValkeyHolds, GraphHolds, Filling
  <2>10. ValkeyHolds' /\ MongoHolds'
    BY <2>1, <2>9 DEF ValkeyHolds, MongoHolds, Filling, Serving, Renewing, Entire, Lacking
  <2>11. GraphHolds'
    BY <2>1, <2>9 DEF GraphHolds, Filling, Serving, Renewing, Entire, Lacking, Repairing
  <2>12. QED
    BY <2>3, <2>7, <2>8, <2>10, <2>11 DEF DriversInv
<1>3. QED
  BY <1>1, <1>2

-----------------------------------------------------------------------------
(* Churn. What MyVector's graph can take is kept by every step that leaves    *)
(* the graph, and what is to be told of it, alone.                            *)
LEMMA GraphStays ==
    ASSUME DriversInv, pc \in Serving \cup Renewing \cup Repairing,
           pc' \in Serving \cup Renewing \cup Repairing, UNCHANGED unit,
           LiveIds' \subseteq LiveIds, srv'.index = srv.index,
           LiveIds' \cap srv.unseen \subseteq srv'.unseen,
           srv'.built = srv.built, srv'.capacity = srv.capacity,
           \/ ~ (pc \in Serving \cup Renewing \cup Repairing)
           \/ /\ drv'["main"].capacity = drv["main"].capacity
              /\ drv'["main"].elements = drv["main"].elements
              /\ drv'["main"].pending = drv["main"].pending,
           unit.driver = "MyVectorDriver" =>
              /\ pc' # "mutations"
              /\ pc' \in {"synced", "synced_deletes", "synced_writes"}
                    => LiveIds \subseteq srv.index
    PROVE  GraphHolds'
PROOF
<1>1. pc # "idle" /\ pc' \notin {"idle", "ready", "backfill", "index"} \cup Filling
  BY DEF Serving, Renewing, Entire, Lacking, Repairing, Filling
<1>2. QED
  BY <1>1 DEF DriversInv, GraphHolds, Capacitated

(* The rows of a churn step, where neither the table nor the step changes.    *)
LEMMA ChurnStays ==
    ASSUME DriversInv, pc \in Renewing, UNCHANGED unit, LiveIds' = LiveIds,
           DOMAIN churn' = ChurnKeys, churn'.rows = churn.rows, churn'.map = churn.map,
           churn'.next = churn.next, churn'.doomed = churn.doomed,
           churn'.fresh = churn.fresh,
           \/ pc \in Lacking /\ pc' \in Lacking
           \/ /\ pc \in Entire /\ pc' \in Entire \ {"deletes"}
              /\ pc' \in {"sync_writes", "synced_writes"}
                    => pc \in {"sync_writes", "synced_writes"}
    PROVE  LoadHolds' /\ ChurnHolds'
PROOF
<1>1. pc' \in Renewing /\ pc' \notin {"writes", "deletes"}
  BY DEF Renewing, Entire, Lacking
<1>2. Unchurned' = Unchurned /\ Doomed' = Doomed
  BY DEF Unchurned, Doomed
<1>3. LoadHolds'
  BY <1>1 DEF LoadHolds, Ahead, Serving, Renewing, Entire, Lacking
<1>4. ChurnHolds'
  BY <1>1, <1>2 DEF DriversInv, ChurnHolds, Entire, Lacking, Renewing
<1>5. QED
  BY <1>3, <1>4

(* Churn begins over the rows that were loaded.                               *)
LEMMA ChurnBegins ==
    ASSUME DriversInv, StartChurn
    PROVE  DriversInv'
PROOF
<1>1. /\ pc = "churn" /\ pc' = "sync" /\ UNCHANGED <<unit, plan, drv>>
      /\ srv' = PrepareChurn(srv)
      /\ churn' = [rows |-> CountOfRows, map |-> << >>, next |-> CountOfRows + 1,
                   step |-> 0, doomed |-> {}, fresh |-> << >>, todo |-> << >>,
                   writing |-> << >>, ended |-> {}]
  BY DEF StartChurn, GoTo, Kept
<1>2. pc \notin {"idle"} \cup Early /\ pc \in Serving
  BY <1>1 DEF Early, Serving
<1>3. unit \in Units /\ DOMAIN srv = ServerKeys /\ IsFiniteSet(LiveIds)
  BY <1>2, ShapeNow
<1>4. /\ DOMAIN srv' = ServerKeys /\ srv'.table = srv.table /\ srv'.index = srv.index
      /\ srv'.unseen = srv.unseen /\ srv'.built = srv.built /\ srv'.capacity = srv.capacity
  BY <1>1, <1>3 DEF PrepareChurn, ServerKeys
<1>5. LiveIds' = LiveIds
  BY <1>4 DEF LiveIds
<1>6. LiveIds = 1 .. unit.rows /\ unit.rows \in Nat \ {0}
  BY <1>2, <1>3 DEF DriversInv, LoadHolds, Units
<1>7. Cardinality(LiveIds) = unit.rows
  BY <1>6, FS_Interval
<1>8. CountOfRows = unit.rows
  BY <1>2, <1>7 DEF CountOfRows, CountRows, DriversInv, ValkeyHolds, Serving
<1>9. /\ DOMAIN churn' = ChurnKeys /\ churn'.rows = unit.rows /\ churn'.map = << >>
      /\ churn'.next = unit.rows + 1 /\ churn'.doomed = {}
  BY <1>1, <1>8 DEF ChurnKeys
<1>10. UnitShape'
  BY <1>1, <1>2, <1>3, <1>4, <1>5, ShapeNow, ShapeKeeps DEF Renewing, Entire
<1>11. LoadHolds'
  BY <1>1 DEF LoadHolds, Ahead, Serving
<1>12. Unchurned' = 1 .. unit.rows
  <2>1. DOMAIN << >> = {}
    OBVIOUS
  <2>2. QED
    BY <1>1, <1>9, <2>1 DEF Unchurned
<1>13. ChurnHolds'
  BY <1>1, <1>5, <1>6, <1>7, <1>9, <1>12 DEF ChurnHolds, Lacking, Entire, Renewing
<1>14. ValkeyHolds'
  <2>1. unit.driver = "ValkeyDriver" => srv.index = LiveIds
    BY <1>2 DEF DriversInv, ValkeyHolds, Serving
  <2>2. QED
    BY <1>1, <1>4, <1>5, <2>1 DEF ValkeyHolds, Filling, Serving
<1>15. MongoHolds'
  BY <1>1 DEF MongoHolds
<1>16. GraphHolds'
  BY <1>1, <1>2, <1>4, <1>5, GraphStays DEF Renewing, Entire
<1>17. QED
  BY <1>10, <1>11, <1>13, <1>14, <1>15, <1>16 DEF DriversInv

(* The places of a wait, and where it ends.                                   *)
LEMMA Places ==
    ASSUME pc \in {"sync", "sync_deletes", "sync_writes"}
    PROVE  /\ pc \in Renewing /\ Synced(pc) \in Renewing
           /\ pc \notin {"idle"} \cup Early /\ pc # "writes"
           /\ Synced(pc) \in {"synced", "synced_deletes", "synced_writes"}
           /\ \/ pc \in Lacking /\ Synced(pc) \in Lacking
              \/ /\ pc \in Entire /\ Synced(pc) \in Entire \ {"deletes"}
                 /\ Synced(pc) \in {"sync_writes", "synced_writes"} => pc = "sync_writes"
           /\ Synced(pc) = "synced_deletes" <=> pc = "sync_deletes"
           /\ Synced(pc) = "synced_writes" <=> pc = "sync_writes"
PROOF
<1>1. QED
  BY DEF Synced, Renewing, Entire, Lacking, Early

(* An engine that waits for nothing.                                          *)
LEMMA NoWait ==
    ASSUME DriversInv, NothingToSync
    PROVE  DriversInv'
PROOF
<1>1. /\ pc \in {"sync", "sync_deletes", "sync_writes"} /\ pc' = Synced(pc)
      /\ UNCHANGED <<unit, plan, srv, drv, churn>> /\ unit.driver \in SqlNames
  BY DEF NothingToSync, GoTo, Kept, restVars, IsSql
<1>2. LiveIds' = LiveIds
  BY <1>1 DEF LiveIds
<1>3. UnitShape'
  BY <1>1, <1>2, Places, ShapeNow, ShapeKeeps
<1>4. DOMAIN churn = ChurnKeys
  BY <1>1, Places DEF DriversInv, ChurnHolds
<1>5. LoadHolds' /\ ChurnHolds'
  BY <1>1, <1>2, <1>4, Places, ChurnStays
<1>6. ValkeyHolds' /\ GraphHolds' /\ MongoHolds'
  BY <1>1 DEF ValkeyHolds, GraphHolds, MongoHolds, SqlNames
<1>7. QED
  BY <1>3, <1>5, <1>6 DEF DriversInv

(* A refresh takes what was written into the graph: as many rows as the       *)
(* driver has pending, which were counted before they were written.           *)
LEMMA RefreshKeeps ==
    ASSUME DriversInv, RefreshIndex
    PROVE  DriversInv'
PROOF
<1>1. CASE UnitEnds
  BY <1>1, Ends
<1>2. CASE ~ UnitEnds
  <2> DEFINE d == drv["main"]
             total == d.elements + d.pending
  <2>1. /\ pc \in {"sync", "sync_deletes", "sync_writes"} /\ pc' = Synced(pc)
        /\ unit.driver = "MyVectorDriver" /\ UNCHANGED <<unit, plan, churn>>
        /\ VerifyStatus(StatusOf(Refreshed(srv)), d.capacity, total)
        /\ srv' = Refreshed(srv)
        /\ drv' = [drv EXCEPT !["main"].elements = total, !["main"].pending = 0,
                              !["main"].note = "refreshed"]
    BY <1>2 DEF RefreshIndex, GoTo, Kept, restVars, IsMyVector
  <2>2. /\ unit \in Units /\ DOMAIN srv = ServerKeys /\ IsFiniteSet(LiveIds)
        /\ "main" \in DOMAIN drv /\ \A w \in DOMAIN drv : Remembered(drv[w])
    BY <2>1, Places, ShapeNow
  <2>3. /\ DOMAIN srv' = ServerKeys /\ srv'.table = srv.table /\ srv'.built = srv.built
        /\ srv'.index = srv.index \cup srv.unseen /\ srv'.unseen = {}
        /\ srv'.capacity = srv.capacity
    BY <2>1, <2>2 DEF Refreshed, ServerKeys
  <2>4. LiveIds' = LiveIds
    BY <2>3 DEF LiveIds
  <2>5. d.elements \in Nat /\ d.pending \in Nat /\ total \in Nat
    BY <2>2 DEF Remembered
  <2> HIDE DEF total
  <2>6. /\ DOMAIN drv' = DOMAIN drv
        /\ \A w \in DOMAIN drv \ {"main"} : drv'[w] = drv[w]
        /\ DOMAIN drv'["main"] = DriverKeys
        /\ drv'["main"].capacity = d.capacity /\ drv'["main"].elements = total
        /\ drv'["main"].pending = 0 /\ drv'["main"].batch = d.batch
        /\ drv'["main"].note = "refreshed"
    BY <2>1, <2>2 DEF Remembered, DriverKeys
  <2>7. \A w \in DOMAIN drv' : Remembered(drv'[w])
    BY <2>2, <2>5, <2>6 DEF Remembered
  <2>8. UnitShape'
    BY <2>1, <2>2, <2>3, <2>4, <2>6, <2>7, Places, ShapeKeeps
  <2>9. LoadHolds' /\ ChurnHolds'
    <3>1. DOMAIN churn = ChurnKeys
      BY <2>1, Places DEF DriversInv, ChurnHolds
    <3>2. QED
      BY <2>1, <2>4, <3>1, Places, ChurnStays
  <2>10. GraphHolds'
    <3>1. /\ srv.built /\ LiveIds \subseteq srv.index \cup srv.unseen
          /\ unit.threads = 1 => Capacitated
      BY <2>1, Places DEF DriversInv, GraphHolds
    <3>2. Cardinality(srv.index \cup srv.unseen) = total
      <4>1. Refreshed(srv) = srv'
        BY <2>1
      <4>2. QED
        BY <2>1, <2>3, <4>1 DEF VerifyStatus, StatusOf
    <3>3. ASSUME unit.threads = 1 PROVE Capacitated'
      <4>1. /\ srv.capacity \in Nat \ {0} /\ d.capacity = srv.capacity
            /\ total <= srv.capacity
        BY <3>1, <3>3 DEF Capacitated, total
      <4>2. QED
        BY <2>3, <2>5, <2>6, <3>2, <4>1 DEF Capacitated
    <3>4. pc' \in {"synced", "synced_deletes", "synced_writes"}
      BY <2>1, Places
    <3>5. QED
      BY <2>1, <2>3, <2>4, <3>1, <3>3, <3>4 DEF GraphHolds, Filling
  <2>11. ValkeyHolds' /\ MongoHolds'
    BY <2>1 DEF ValkeyHolds, MongoHolds
  <2>12. QED
    BY <2>8, <2>9, <2>10, <2>11 DEF DriversInv
<1>3. QED
  BY <1>1, <1>2

(* What a driver says of a wait changes nothing else it remembers.            *)
LEMMA Noting ==
    ASSUME DriversInv, pc \notin {"idle"} \cup Early, NEW note,
           \/ drv' = [drv EXCEPT !["main"].note = note]
           \/ drv' = [drv EXCEPT !["main"].deletes = note]
    PROVE  /\ DOMAIN drv' = DOMAIN drv /\ \A w \in DOMAIN drv' : Remembered(drv'[w])
           /\ \/ drv'["main"].note = note
              \/ /\ drv'["main"].note = drv["main"].note
                 /\ drv' = [drv EXCEPT !["main"].deletes = note]
           /\ "main" \in DOMAIN drv'
PROOF
<1>1. "main" \in DOMAIN drv /\ \A w \in DOMAIN drv : Remembered(drv[w])
  BY ShapeNow
<1>2. /\ DOMAIN drv' = DOMAIN drv
      /\ \A w \in DOMAIN drv \ {"main"} : drv'[w] = drv[w]
      /\ DOMAIN drv'["main"] = DriverKeys
      /\ drv'["main"].capacity = drv["main"].capacity
      /\ drv'["main"].elements = drv["main"].elements
      /\ drv'["main"].pending = drv["main"].pending
      /\ drv'["main"].batch = drv["main"].batch
      /\ \/ drv'["main"].note = note
         \/ /\ drv'["main"].note = drv["main"].note
            /\ drv' = [drv EXCEPT !["main"].deletes = note]
  BY <1>1 DEF Remembered, DriverKeys
<1>3. \A w \in DOMAIN drv' : Remembered(drv'[w])
  BY <1>1, <1>2 DEF Remembered
<1>4. QED
  BY <1>1, <1>2, <1>3

(* mongot is asked for a row: what is said of it is what was seen.            *)
LEMMA MongoWaitKeeps ==
    ASSUME DriversInv, MongoWait
    PROVE  DriversInv'
PROOF
<1>1. /\ pc \in {"sync", "sync_deletes", "sync_writes"} /\ unit.driver = "MongoDriver"
      /\ poll # None /\ UNCHANGED <<unit, plan, srv, churn>>
      /\ ProbeAbsent \/ ProbePresent \/ NothingSought
  BY DEF MongoWait, Kept, IsMongo
<1>2. LiveIds' = LiveIds /\ pc \notin {"idle"} \cup Early
  BY <1>1 DEF LiveIds, Early
<1>3. /\ DOMAIN srv = ServerKeys /\ IsFiniteSet(LiveIds) /\ "main" \in DOMAIN drv
      /\ \A w \in DOMAIN drv : Remembered(drv[w])
      /\ DOMAIN churn = ChurnKeys
  BY <1>1, <1>2, ShapeNow, Places DEF DriversInv, ChurnHolds
<1>4. /\ pc = "sync_deletes" =>
            /\ DOMAIN poll = MongoPoll
            /\ poll.absent = LastOf(churn.doomed) /\ poll.absent # None
            /\ poll.present = None
            /\ poll.said = "row gone" => poll.absent \notin srv.index
      /\ pc = "sync_writes" =>
            /\ DOMAIN poll = MongoPoll
            /\ poll.present = LastOf(ToSet(churn.fresh)) /\ poll.present # None
            /\ poll.absent = None
  BY <1>1 DEF DriversInv, MongoHolds
<1>5. ValkeyHolds' /\ GraphHolds'
  BY <1>1 DEF ValkeyHolds, GraphHolds
<1>6. ASSUME UNCHANGED <<pc, drv>>,
             poll' = poll \/ \E said \in {"row gone", "gave up"} :
                /\ poll' = [poll EXCEPT !.gone = TRUE, !.said = said]
                /\ said = "row gone" => poll.absent \notin srv.index
                /\ poll.absent # None
      PROVE  DriversInv'
  <2>1. UnitShape'
    BY <1>1, <1>2, <1>3, <1>6, ShapeNow, ShapeKeeps, Places
  <2>2. LoadHolds' /\ ChurnHolds'
    BY <1>1, <1>2, <1>3, <1>6, Places, ChurnStays
  <2>3. MongoHolds'
    <3>1. pc = "sync_writes" => poll' = poll
      BY <1>4, <1>6
    <3>2. pc = "sync_deletes" =>
             /\ DOMAIN poll' = MongoPoll /\ poll'.absent = poll.absent
             /\ poll'.present = poll.present
             /\ poll'.said = "row gone" => poll.absent \notin srv.index
      BY <1>4, <1>6 DEF MongoPoll
    <3>3. QED
      BY <1>1, <1>4, <1>6, <3>1, <3>2 DEF MongoHolds
  <2>4. QED
    BY <1>5, <2>1, <2>2, <2>3 DEF DriversInv
<1>7. ASSUME NEW note, MongoSynced(note),
             /\ pc = "sync_deletes" /\ note = "row gone" => poll.absent \notin srv.index
             /\ pc = "sync_writes" /\ note = "row found" => poll.present \in srv.index
      PROVE  DriversInv'
  <2>1. pc' = Synced(pc) /\ poll' = None /\ drv' = [drv EXCEPT !["main"].note = note]
    BY <1>7 DEF MongoSynced, GoTo
  <2>2. /\ DOMAIN drv' = DOMAIN drv /\ \A w \in DOMAIN drv' : Remembered(drv'[w])
        /\ drv'["main"].note = note
    <3>1. drv'["main"].note = note
      BY <1>3, <2>1 DEF Remembered, DriverKeys
    <3>2. QED
      BY <1>2, <2>1, <3>1, Noting
  <2>3. UnitShape'
    BY <1>1, <1>2, <1>3, <2>1, <2>2, ShapeKeeps, Places
  <2>4. LoadHolds' /\ ChurnHolds'
    BY <1>1, <1>2, <1>3, <2>1, Places, ChurnStays
  <2>5. MongoHolds'
    <3>1. pc' \notin {"sync_deletes", "sync_writes"}
      BY <1>1, <2>1, Places
    <3>2. pc' = "synced_deletes" /\ note = "row gone" => LastOf(churn.doomed) \notin srv.index
      BY <1>1, <1>4, <1>7, <2>1, Places
    <3>3. pc' = "synced_writes" /\ note = "row found"
             => LastOf(ToSet(churn.fresh)) \in srv.index
      BY <1>1, <1>4, <1>7, <2>1, Places
    <3>4. QED
      BY <1>1, <2>2, <3>1, <3>2, <3>3 DEF MongoHolds
  <2>6. QED
    BY <1>5, <2>3, <2>4, <2>5 DEF DriversInv
<1>8. CASE ProbeAbsent
  <2>1. poll.absent # None
    BY <1>8 DEF ProbeAbsent, Awaited
  <2>2. PICK succeeds \in BOOLEAN, late \in BOOLEAN :
           \/ /\ IsGone(poll.absent, Probe(succeeds))
              /\ poll' = [poll EXCEPT !.gone = TRUE, !.said = "row gone"]
              /\ UNCHANGED <<pc, drv>>
           \/ /\ ~ IsGone(poll.absent, Probe(succeeds))
              /\ poll' = IF late THEN [poll EXCEPT !.gone = TRUE, !.said = "gave up"]
                         ELSE poll
              /\ UNCHANGED <<pc, drv>>
    BY <1>8 DEF ProbeAbsent
  <2>3. IsGone(poll.absent, Probe(succeeds)) => poll.absent \notin srv.index
    BY DEF IsGone, Probe
  <2>4. QED
    BY <1>6, <2>1, <2>2, <2>3
<1>9. CASE ProbePresent
  <2>1. pc # "sync_deletes"
    BY <1>4, <1>9 DEF ProbePresent, Awaited
  <2>2. pc = "sync_writes" => Sought = poll.present
    BY <1>4 DEF Sought
  <2>3. PICK succeeds \in BOOLEAN, late \in BOOLEAN :
           \/ IsFound(Sought, Probe(succeeds)) /\ MongoSynced("row found")
           \/ /\ ~ IsFound(Sought, Probe(succeeds))
              /\ IF late THEN MongoSynced("gave up") ELSE UNCHANGED <<pc, drv, poll>>
    BY <1>9 DEF ProbePresent
  <2>4. IsFound(Sought, Probe(succeeds)) => Sought \in srv.index
    BY DEF IsFound, Probe
  <2>5. CASE MongoSynced("row found") /\ IsFound(Sought, Probe(succeeds))
    BY <1>7, <2>1, <2>2, <2>4, <2>5
  <2>6. CASE MongoSynced("gave up")
    BY <1>7, <2>6
  <2>7. CASE UNCHANGED <<pc, drv, poll>>
    BY <1>6, <2>7
  <2>8. QED
    BY <2>3, <2>5, <2>6, <2>7
<1>10. CASE NothingSought
  <2>1. MongoSynced(IF poll.absent # None THEN poll.said ELSE "nothing written")
    BY <1>10 DEF NothingSought
  <2>2. pc # "sync_writes"
    BY <1>4, <1>10 DEF NothingSought, Awaited, Sought
  <2>3. QED
    BY <1>4, <1>7, <2>1, <2>2
<1>11. QED
  BY <1>1, <1>8, <1>9, <1>10

(* Of two finite sets one inside the other, of one size, one is the other.    *)
LEMMA SameSize ==
    ASSUME NEW S, NEW T, IsFiniteSet(T), S \subseteq T, Cardinality(T) <= Cardinality(S)
    PROVE  S = T
PROOF
<1>1. /\ IsFiniteSet(S) /\ Cardinality(S) <= Cardinality(T)
      /\ Cardinality(S) = Cardinality(T) => S = T
  BY FS_Subset
<1>2. Cardinality(S) \in Nat /\ Cardinality(T) \in Nat
  BY <1>1, FS_CardinalityType
<1>3. QED
  BY <1>1, <1>2

(* valkey-search is waited for by counts: one that is reached, of an index    *)
(* that has all the rows or none but theirs, is the table's index.            *)
LEMMA MutationsKeep ==
    ASSUME DriversInv, WaitForMutations
    PROVE  DriversInv'
PROOF
<1>1. /\ pc \in {"mutations", "sync", "sync_deletes", "sync_writes"}
      /\ unit.driver = "ValkeyDriver" /\ poll # None /\ UNCHANGED <<unit, plan, srv>>
  BY DEF WaitForMutations, Kept, IsValkey
<1>2. /\ LiveIds' = LiveIds /\ pc \notin {"idle"} \cup Early /\ pc # "idle"
      /\ pc \in Renewing
  BY <1>1 DEF LiveIds, Early, Renewing, Entire, Lacking
<1>3. /\ DOMAIN srv = ServerKeys /\ IsFiniteSet(LiveIds) /\ "main" \in DOMAIN drv
      /\ \A w \in DOMAIN drv : Remembered(drv[w])
      /\ DOMAIN churn = ChurnKeys
      /\ drv["main"].note \notin {"row found", "row gone"}
  BY <1>1, <1>2, ShapeNow DEF DriversInv, ChurnHolds
<1>4. GraphHolds' /\ MongoHolds'
  BY <1>1 DEF GraphHolds, MongoHolds
<1>5. PICK answers \in BOOLEAN, late \in {poll.late, TRUE},
           queued \in {None, 0,
                        Cardinality((LiveIds \ srv.index) \cup (srv.index \ LiveIds))} :
          LET docs == IF answers THEN Cardinality(srv.index) ELSE None
              settled == IF docs = poll.previous
                         THEN Smaller(SettledPolls, poll.settled + 1) ELSE 0
              end == DocsReady(docs, poll.expected, poll.how, settled, late)
              drained == ~ answers \/ queued \in {None, 0}
          IN IF drained /\ end[1] THEN MutationsEnd(end[2])
             ELSE \/ /\ poll' = [poll EXCEPT !.previous = docs, !.late = late,
                                             !.settled = settled]
                     /\ UNCHANGED <<pc, drv, churn>>
                  \/ late /\ MutationsEnd("gave up")
  BY DEF WaitForMutations
<1> DEFINE docs == IF answers THEN Cardinality(srv.index) ELSE None
           settled == IF docs = poll.previous
                      THEN Smaller(SettledPolls, poll.settled + 1) ELSE 0
           end == DocsReady(docs, poll.expected, poll.how, settled, late)
<1>6. ASSUME UNCHANGED <<pc, drv, churn>>,
             poll' = [poll EXCEPT !.previous = docs, !.late = late, !.settled = settled]
      PROVE  DriversInv'
  <2>1. UnitShape'
    BY <1>1, <1>2, <1>3, <1>6, ShapeNow, ShapeKeeps
  <2>2. LoadHolds' /\ ChurnHolds'
    BY <1>1, <1>2, <1>3, <1>6, ChurnStays DEF Lacking, Entire
  <2>3. DOMAIN poll = PollKeys => /\ DOMAIN poll' = PollKeys /\ poll'.how = poll.how
                                  /\ poll'.expected = poll.expected
    BY <1>6 DEF PollKeys
  <2>4. ValkeyHolds'
    BY <1>1, <1>2, <1>6, <2>3 DEF DriversInv, ValkeyHolds, Good
  <2>5. QED
    BY <1>4, <2>1, <2>2, <2>4 DEF DriversInv
<1>7. ASSUME NEW ended, MutationsEnd(ended),
             ended \in {"fell to the count", "reached the count"} =>
                /\ docs = Cardinality(srv.index) /\ poll.expected # None
                /\ poll.how = "equal" => docs = poll.expected
                /\ poll.how # "equal" => docs <= poll.expected
      PROVE  DriversInv'
  <2>1. /\ drv' = IF pc = "mutations" THEN [drv EXCEPT !["main"].deletes = ended]
                  ELSE [drv EXCEPT !["main"].note = SyncNote(ended)]
        /\ churn' = [churn EXCEPT !.ended = @ \cup {ended}]
        /\ pc' = IF pc = "mutations" THEN "deleted" ELSE Synced(pc)
    BY <1>7 DEF MutationsEnd, GoTo
  <2>2. SyncNote(ended) \notin {"row found", "row gone"}
    BY DEF SyncNote
  <2>3. /\ DOMAIN drv' = DOMAIN drv /\ \A w \in DOMAIN drv' : Remembered(drv'[w])
        /\ drv'["main"].note \notin {"row found", "row gone"}
    <3>1. CASE pc = "mutations"
      <4>1. drv' = [drv EXCEPT !["main"].deletes = ended]
        BY <2>1, <3>1
      <4>2. drv'["main"].note = drv["main"].note
        BY <1>3, <4>1 DEF Remembered, DriverKeys
      <4>3. QED
        BY <1>2, <1>3, <4>1, <4>2, Noting
    <3>2. CASE pc # "mutations"
      <4>1. drv' = [drv EXCEPT !["main"].note = SyncNote(ended)]
        BY <2>1, <3>2
      <4>2. drv'["main"].note = SyncNote(ended)
        BY <1>3, <4>1 DEF Remembered, DriverKeys
      <4>3. QED
        BY <1>2, <2>2, <4>1, <4>2, Noting
    <3>3. QED
      BY <3>1, <3>2
  <2>4. /\ DOMAIN churn' = ChurnKeys /\ churn'.rows = churn.rows /\ churn'.map = churn.map
        /\ churn'.next = churn.next /\ churn'.doomed = churn.doomed
        /\ churn'.fresh = churn.fresh /\ churn'.ended = churn.ended \cup {ended}
    BY <1>3, <2>1 DEF ChurnKeys
  <2>5. /\ pc' \in Renewing
        /\ \/ pc \in Lacking /\ pc' \in Lacking
           \/ /\ pc \in Entire /\ pc' \in Entire \ {"deletes"}
              /\ pc' \in {"sync_writes", "synced_writes"} => pc = "sync_writes"
        /\ pc' \in {"deleted", "synced", "synced_deletes", "synced_writes"}
        /\ pc' = "deleted" <=> pc = "mutations"
        /\ pc' = "synced_writes" <=> pc = "sync_writes"
    BY <1>1, <2>1 DEF Synced, Renewing, Entire, Lacking
  <2>6. UnitShape'
    BY <1>1, <1>2, <1>3, <2>3, <2>5, ShapeKeeps
  <2>7. LoadHolds' /\ ChurnHolds'
    BY <1>1, <1>2, <2>4, <2>5, ChurnStays
  <2>8. ASSUME Good' PROVE srv.index = LiveIds
    <3>1. Good /\ ended \in {"fell to the count", "reached the count"}
      BY <2>4, <2>8 DEF Good
    <3> HIDE DEF docs
    <3>2. /\ poll.how = "equal" => Cardinality(srv.index) = poll.expected
          /\ poll.how # "equal" => Cardinality(srv.index) <= poll.expected
      BY <1>7, <3>1
    <3>3. CASE pc = "mutations"
      <4>1. /\ LiveIds \subseteq srv.index /\ IsFiniteSet(srv.index)
            /\ poll.how = "at_most" /\ poll.expected \in 0 .. Cardinality(LiveIds)
        BY <1>1, <1>2, <3>1, <3>3 DEF DriversInv, ValkeyHolds
      <4>2. Cardinality(LiveIds) \in Nat /\ Cardinality(srv.index) \in Nat
        BY <1>3, <4>1, FS_CardinalityType
      <4>3. Cardinality(srv.index) <= Cardinality(LiveIds)
        BY <3>2, <4>1, <4>2
      <4>4. QED
        BY <4>1, <4>3, SameSize
    <3>4. CASE pc = "sync_writes"
      <4>1. /\ srv.index \subseteq LiveIds /\ poll.how = "equal"
            /\ poll.expected = unit.rows
        BY <1>1, <1>2, <3>1, <3>4 DEF DriversInv, ValkeyHolds
      <4>2. Cardinality(LiveIds) = unit.rows /\ Cardinality(LiveIds) \in Nat
        BY <1>2, <1>3, <3>4, FS_CardinalityType DEF DriversInv, ChurnHolds, Entire
      <4>3. Cardinality(LiveIds) <= Cardinality(srv.index)
        BY <3>2, <4>1, <4>2
      <4>4. QED
        BY <1>3, <4>1, <4>3, SameSize
    <3>5. CASE pc \in {"sync", "sync_deletes"}
      BY <1>1, <1>2, <3>1, <3>5 DEF DriversInv, ValkeyHolds
    <3>6. QED
      BY <1>1, <3>3, <3>4, <3>5
  <2>9. ValkeyHolds'
    BY <1>1, <1>2, <2>5, <2>8 DEF ValkeyHolds, Filling, Serving
  <2>10. QED
    BY <1>4, <2>6, <2>7, <2>9 DEF DriversInv
<1>8. end[2] \in {"fell to the count", "reached the count"} /\ end[1] =>
         /\ docs = Cardinality(srv.index) /\ poll.expected # None
         /\ poll.how = "equal" => docs = poll.expected
         /\ poll.how # "equal" => docs <= poll.expected
  BY DEF DocsReady
<1>9. \/ end[1] /\ MutationsEnd(end[2])
      \/ MutationsEnd("gave up")
      \/ /\ poll' = [poll EXCEPT !.previous = docs, !.late = late, !.settled = settled]
         /\ UNCHANGED <<pc, drv, churn>>
  BY <1>5
<1>10. QED
  <2> HIDE DEF docs, settled, end
  <2>1. CASE end[1] /\ MutationsEnd(end[2])
    BY <1>7, <1>8, <2>1
  <2>2. CASE MutationsEnd("gave up")
    BY <1>7, <2>2
  <2>3. QED
    BY <1>6, <1>9, <2>1, <2>2

(* The rows of a step are chosen among those no step has renamed,             *)
LEMMA VictimsKeep ==
    ASSUME DriversInv, PickVictims
    PROVE  DriversInv'
PROOF
<1>1. /\ pc = "synced" /\ pc' = "deletes" /\ UNCHANGED <<unit, plan, srv, drv>>
  BY DEF PickVictims, GoTo, Kept
<1>2. PICK doomed \in SUBSET {i \in 1 .. churn.rows : i \notin DOMAIN churn.map} :
          /\ doomed # {}
          /\ churn' = [churn EXCEPT !.step = @ + 1, !.doomed = doomed]
  BY DEF PickVictims
<1>3. /\ LiveIds' = LiveIds /\ pc \notin {"idle"} \cup Early
      /\ pc \in Renewing /\ pc \in Entire /\ pc' \in Renewing /\ pc' \in Entire
      /\ pc' \notin Lacking
  BY <1>1 DEF LiveIds, Early, Renewing, Entire, Lacking
<1>4. /\ DOMAIN churn = ChurnKeys /\ churn.rows = unit.rows
      /\ churn.next \in Nat /\ unit.rows < churn.next
      /\ LiveIds \subseteq 1 .. churn.next - 1
      /\ Unchurned \subseteq LiveIds /\ Cardinality(LiveIds) = unit.rows
  BY <1>3 DEF DriversInv, ChurnHolds
<1>5. /\ DOMAIN churn' = ChurnKeys /\ churn'.rows = churn.rows /\ churn'.map = churn.map
      /\ churn'.next = churn.next /\ churn'.doomed = doomed /\ churn'.fresh = churn.fresh
      /\ churn'.ended = churn.ended
  BY <1>2, <1>4 DEF ChurnKeys
<1>6. UnitShape'
  BY <1>1, <1>3, ShapeNow, ShapeKeeps
<1>7. LoadHolds'
  BY <1>1 DEF LoadHolds, Ahead, Serving
<1>8. Unchurned' = Unchurned /\ churn'.doomed \subseteq Unchurned /\ churn'.doomed # {}
  BY <1>1, <1>2, <1>4, <1>5 DEF Unchurned
<1>9. ChurnHolds'
  BY <1>1, <1>3, <1>4, <1>5, <1>8 DEF ChurnHolds
<1>10. ValkeyHolds'
  BY <1>1, <1>3, <1>5 DEF DriversInv, ValkeyHolds, Filling, Serving, Good
<1>11. MongoHolds'
  BY <1>1 DEF MongoHolds
<1>12. GraphHolds'
  BY <1>1, <1>3, GraphStays
<1>13. QED
  BY <1>6, <1>7, <1>9, <1>10, <1>11, <1>12 DEF DriversInv

(* The doomed rows are still under the ids of the dataset, and there.         *)
LEMMA DeletesKeep ==
    ASSUME DriversInv, DeleteIds
    PROVE  DriversInv'
PROOF
<1>1. /\ pc = "deletes" /\ UNCHANGED <<unit, plan, drv, churn>>
      /\ srv' = Erase(srv, {CurrentId(i) : i \in churn.doomed})
      /\ \/ unit.driver = "ValkeyDriver" /\ pc' = "mutations"
         \/ unit.driver # "ValkeyDriver" /\ pc' = "deleted"
  BY DEF DeleteIds, GoTo, Kept
<1>2. /\ pc \notin {"idle"} \cup Early /\ pc # "idle" /\ pc \in Renewing /\ pc \in Entire
      /\ pc' \in Renewing /\ pc' \in Lacking
      /\ pc' \notin Entire /\ pc' \notin {"writes", "sync_writes", "synced_writes", "deletes"}
  BY <1>1 DEF Early, Renewing, Entire, Lacking
<1>3. /\ DOMAIN srv = ServerKeys /\ IsFiniteSet(LiveIds) /\ unit \in Units
      /\ DOMAIN churn = ChurnKeys /\ churn.rows = unit.rows
      /\ churn.next \in Nat /\ unit.rows < churn.next
      /\ LiveIds \subseteq 1 .. churn.next - 1
      /\ churn.doomed \subseteq Unchurned /\ churn.doomed # {}
      /\ Unchurned \subseteq LiveIds /\ Cardinality(LiveIds) = unit.rows
  BY <1>1, <1>2, ShapeNow DEF DriversInv, ChurnHolds
<1>4. {CurrentId(i) : i \in churn.doomed} = churn.doomed
  <2>1. \A i \in churn.doomed : CurrentId(i) = i
    BY <1>3 DEF Unchurned, CurrentId
  <2>2. QED
    BY <2>1
<1>5. /\ DOMAIN srv' = ServerKeys /\ LiveIds' = LiveIds \ churn.doomed
      /\ srv'.built = srv.built /\ srv'.capacity = srv.capacity
      /\ unit.driver \in Deferred => srv'.index = srv.index
      /\ srv'.unseen = srv.unseen \ churn.doomed
  <2>1. srv' = Erase(srv, churn.doomed)
    BY <1>1, <1>4
  <2>2. /\ DOMAIN srv' = ServerKeys /\ DOMAIN srv'.table = DOMAIN srv.table \ churn.doomed
        /\ srv'.built = srv.built /\ srv'.capacity = srv.capacity
        /\ srv'.index = IF InStatement(srv) THEN srv.index \ churn.doomed ELSE srv.index
        /\ srv'.unseen = srv.unseen \ churn.doomed
    <3>1. DOMAIN srv = ServerKeys
      BY <1>3
    <3> DEFINE ids == churn.doomed
    <3>2. srv' = Erase(srv, ids)
      BY <2>1
    <3> HIDE DEF ids
    <3>3. /\ DOMAIN srv' = ServerKeys /\ DOMAIN srv'.table = DOMAIN srv.table \ ids
          /\ srv'.built = srv.built /\ srv'.capacity = srv.capacity
          /\ srv'.index = IF InStatement(srv) THEN srv.index \ ids ELSE srv.index
          /\ srv'.unseen = srv.unseen \ ids
      BY <3>1, <3>2, Erasing
    <3>4. QED
      BY <3>3 DEF ids
  <2>3. QED
    BY <1>1, <2>2 DEF LiveIds, InStatement
<1>6. /\ IsFiniteSet(LiveIds') /\ IsFiniteSet(churn.doomed)
      /\ Cardinality(LiveIds') = unit.rows - Doomed /\ Doomed \in Nat
      /\ unit.rows - Doomed \in Nat
  <2>1. IsFiniteSet(churn.doomed) /\ IsFiniteSet(LiveIds \ churn.doomed)
    BY <1>3, FS_Subset
  <2>2. LiveIds \cap churn.doomed = churn.doomed
    BY <1>3
  <2>3. Cardinality(LiveIds \ churn.doomed) = Cardinality(LiveIds) - Cardinality(churn.doomed)
    <3>1. Cardinality(LiveIds \ churn.doomed)
             = Cardinality(LiveIds) - Cardinality(LiveIds \cap churn.doomed)
      BY <1>3, FS_Difference
    <3>2. QED
      BY <2>2, <3>1
  <2>4. Cardinality(LiveIds \ churn.doomed) \in Nat /\ Cardinality(churn.doomed) \in Nat
    BY <2>1, FS_CardinalityType
  <2>5. QED
    BY <1>3, <1>5, <2>1, <2>3, <2>4 DEF Doomed
<1>7. UnitShape'
  BY <1>1, <1>2, <1>5, <1>6, ShapeNow, ShapeKeeps
<1>8. LoadHolds'
  BY <1>1 DEF LoadHolds, Ahead, Serving
<1>9. ChurnHolds'
  <2>1. Unchurned' = Unchurned /\ Doomed' = Doomed
    BY <1>1 DEF Unchurned, Doomed
  <2>2. QED
    BY <1>1, <1>2, <1>3, <1>5, <1>6, <2>1 DEF ChurnHolds
<1>10. ValkeyHolds'
  <2>1. SUFFICES ASSUME unit.driver = "ValkeyDriver", Good PROVE ValkeyHolds'
    BY <1>1, <1>2 DEF ValkeyHolds, Filling, Serving, Good
  <2>2. srv.index = LiveIds /\ srv'.index = LiveIds /\ pc' = "mutations"
    BY <1>1, <1>2, <1>5, <2>1 DEF DriversInv, ValkeyHolds, Deferred
  <2>3. PICK answers \in BOOLEAN :
            poll' = Waiting(Larger(0, CountRows(answers) - Doomed), "at_most")
    BY <2>1 DEF DeleteIds, Doomed
  <2>4. CountRows(answers) \in {0, unit.rows}
    BY <1>3, <2>2 DEF CountRows
  <2>5. Larger(0, CountRows(answers) - Doomed) \in 0 .. unit.rows - Doomed
    BY <1>6, <2>4 DEF Larger
  <2>6. /\ DOMAIN poll' = PollKeys /\ poll'.how = "at_most"
        /\ poll'.expected \in 0 .. Cardinality(LiveIds')
    BY <1>6, <2>3, <2>5 DEF Waiting, PollKeys
  <2>7. QED
    BY <1>2, <1>3, <1>5, <2>2, <2>6 DEF ValkeyHolds, Filling, Serving
<1>11. MongoHolds'
  BY <1>1 DEF MongoHolds
<1>12. GraphHolds'
  <2>1. CASE unit.driver = "MyVectorDriver"
    <3>1. srv'.index = srv.index /\ LiveIds' \subseteq LiveIds
          /\ LiveIds' \cap srv.unseen \subseteq srv'.unseen
      BY <1>5, <2>1 DEF Deferred
    <3>2. QED
      BY <1>1, <1>2, <1>5, <2>1, <3>1, GraphStays
  <2>2. CASE unit.driver # "MyVectorDriver"
    BY <1>1, <2>2 DEF GraphHolds
  <2>3. QED
    BY <2>1, <2>2
<1>13. QED
  BY <1>7, <1>8, <1>9, <1>10, <1>11, <1>12 DEF DriversInv

(* The wait after the deletes is for a row that was deleted.                  *)
LEMMA AwaitKeeps ==
    ASSUME DriversInv, AwaitDeletes
    PROVE  DriversInv'
PROOF
<1>1. /\ pc = "deleted" /\ pc' = "sync_deletes"
      /\ UNCHANGED <<unit, plan, srv, drv, churn>>
      /\ poll' = WaitFor(churn.rows - Cardinality(churn.doomed),
                         CurrentId(LastOf(churn.doomed)), None)
  BY DEF AwaitDeletes, GoTo, Kept
<1>2. /\ pc \notin {"idle"} \cup Early /\ pc # "idle"
      /\ pc \in Renewing /\ pc \in Lacking /\ pc' \in Renewing /\ pc' \in Lacking
      /\ LiveIds' = LiveIds
  BY <1>1 DEF Early, Renewing, Lacking, LiveIds
<1>3. DOMAIN churn = ChurnKeys /\ churn.doomed # {} /\ churn.doomed \subseteq Unchurned
  BY <1>2 DEF DriversInv, ChurnHolds
<1>4. UnitShape'
  BY <1>1, <1>2, ShapeNow, ShapeKeeps
<1>5. LoadHolds' /\ ChurnHolds'
  BY <1>1, <1>2, <1>3, ChurnStays
<1>6. ValkeyHolds'
  BY <1>1, <1>2 DEF DriversInv, ValkeyHolds, Filling, Serving, Good
<1>7. MongoHolds'
  <2>1. SUFFICES ASSUME unit.driver = "MongoDriver" PROVE MongoHolds'
    BY <1>1 DEF MongoHolds
  <2>2. /\ LastOf(churn.doomed) \in churn.doomed /\ churn.doomed \subseteq 1 .. unit.rows
        /\ unit \in Units
    BY <1>2, <1>3, LastDoomed
  <2>3. LastOf(churn.doomed) \in Int /\ CurrentId(LastOf(churn.doomed)) = LastOf(churn.doomed)
    BY <1>3, <2>2 DEF CurrentId, Unchurned, Units
  <2>4. LastOf(churn.doomed) # None
    BY <2>3, DriversAssumption
  <2>5. poll' = [absent |-> LastOf(churn.doomed), present |-> None, gone |-> FALSE,
                 said |-> "none"]
    BY <1>1, <2>1, <2>3 DEF WaitFor
  <2>6. DOMAIN poll' = MongoPoll /\ poll'.absent = LastOf(churn.doomed)
        /\ poll'.present = None /\ poll'.said = "none"
    BY <2>5 DEF MongoPoll
  <2>7. QED
    BY <1>1, <2>4, <2>6 DEF MongoHolds
<1>8. GraphHolds'
  BY <1>1, <1>2, GraphStays
<1>9. QED
  BY <1>4, <1>5, <1>6, <1>7, <1>8 DEF DriversInv

(* The step is scored, and the next one begins or none.                       *)
LEMMA ScoreKeeps ==
    ASSUME DriversInv, ScoreChurn
    PROVE  DriversInv'
PROOF
<1>1. /\ pc = "synced_writes" /\ pc' \in {"synced", "maintain"}
      /\ UNCHANGED <<unit, plan, srv, drv, churn>>
  BY DEF ScoreChurn, GoTo, Kept
<1>2. /\ pc \notin {"idle"} \cup Early /\ pc # "idle"
      /\ pc \in Renewing /\ pc \in Entire /\ LiveIds' = LiveIds
      /\ pc' = "synced" => pc' \in Renewing /\ pc' \in Entire \ {"deletes"}
      /\ pc' = "maintain" => pc' \in Repairing /\ pc' \notin Renewing /\ pc' \notin Entire
                             /\ pc' \notin Lacking
  BY <1>1 DEF Early, Renewing, Entire, Lacking, Repairing, LiveIds
<1>3. UnitShape'
  BY <1>1, <1>2, ShapeNow, ShapeKeeps
<1>4. LoadHolds' /\ ChurnHolds'
  <2>1. CASE pc' = "synced"
    <3>1. DOMAIN churn = ChurnKeys
      BY <1>2 DEF DriversInv, ChurnHolds
    <3>2. QED
      BY <1>1, <1>2, <2>1, <3>1, ChurnStays
  <2>2. CASE pc' = "maintain"
    BY <1>2, <2>2 DEF LoadHolds, ChurnHolds, Ahead, Serving
  <2>3. QED
    BY <1>1, <2>1, <2>2
<1>5. ValkeyHolds'
  BY <1>1, <1>2 DEF DriversInv, ValkeyHolds, Filling, Serving, Good
<1>6. MongoHolds'
  BY <1>1 DEF MongoHolds
<1>7. GraphHolds'
  <2>1. unit.driver = "MyVectorDriver" => LiveIds \subseteq srv.index
    BY <1>1, <1>2 DEF DriversInv, GraphHolds
  <2>2. QED
    BY <1>1, <1>2, <2>1, GraphStays
<1>8. QED
  BY <1>3, <1>4, <1>5, <1>6, <1>7 DEF DriversInv

-----------------------------------------------------------------------------
(* The writes of a step. A sequence cut into slices has every element in one. *)
Piece(s, size, n, k) ==
    SubSeq(s, (k - 1) * size + 1, Smaller((k - 1) * size + 1 + size - 1, n))
Pieces(n, size) == 1 .. (n + size - 1) \div size
InPiece(s, size, n, p) ==
    \E k \in Pieces(n, size) :
       \E q \in DOMAIN Piece(s, size, n, k) : Piece(s, size, n, k)[q] = s[p]
(* A list cut into slices of a size: each is of members of it, and each       *)
(* member is in one.                                                          *)
LEMMA Slices ==
    ASSUME NEW D, NEW s \in Seq(D), NEW n \in Nat \ {0}, Len(s) = n,
           NEW size \in Nat \ {0}
    PROVE  /\ \A k \in Pieces(n, size) : Piece(s, size, n, k) \in Seq(D)
           /\ \A p \in 1 .. n : InPiece(s, size, n, p)
PROOF
<1> DEFINE count == (n + size - 1) \div size
           first(k) == (k - 1) * size + 1
           last(k) == Smaller((k - 1) * size + 1 + size - 1, n)
           piece(k) == SubSeq(s, first(k), last(k))
<1>1. /\ count \in Nat \ {0} /\ \A k \in 1 .. count : (k - 1) * size < n
      /\ \A r \in 1 .. n : \E k \in 1 .. count : (k - 1) * size < r /\ r <= k * size
  BY Chunks
<1> HIDE DEF count
<1>2. ASSUME NEW k \in 1 .. count
      PROVE  /\ first(k) \in 1 .. n /\ last(k) \in first(k) .. n
             /\ k * size <= n => last(k) = k * size
             /\ k * size > n => last(k) = n
             /\ k * size \in Nat
  <2>1. (k - 1) * size \in Nat /\ k * size = (k - 1) * size + size
    BY <1>1
  <2>2. (k - 1) * size < n
    BY <1>1
  <2> DEFINE below == (k - 1) * size
  <2>3. below \in Nat /\ below < n /\ k * size = below + size
    BY <2>1, <2>2
  <2> HIDE DEF below
  <2>4. first(k) = below + 1 /\ last(k) = Smaller(below + 1 + size - 1, n)
    BY DEF below
  <2>5. QED
    BY <2>3, <2>4 DEF Smaller
<1>3. \A k \in 1 .. count :
         /\ piece(k) \in Seq(D) /\ DOMAIN piece(k) = 1 .. last(k) - first(k) + 1
         /\ \A q \in 1 .. last(k) - first(k) + 1 : piece(k)[q] = s[first(k) + q - 1]
  <2>1. SUFFICES ASSUME NEW k \in 1 .. count
                 PROVE  /\ piece(k) \in Seq(D) /\ DOMAIN piece(k) = 1 .. last(k) - first(k) + 1
                        /\ \A q \in 1 .. last(k) - first(k) + 1 :
                              piece(k)[q] = s[first(k) + q - 1]
    OBVIOUS
  <2>2. first(k) \in 1 .. n /\ last(k) \in first(k) .. n
    BY <1>2
  <2> HIDE DEF first, last
  <2>3. QED
    BY <2>2
<1>4. ASSUME NEW p \in 1 .. n
      PROVE  \E k \in 1 .. count : \E q \in DOMAIN piece(k) : piece(k)[q] = s[p]
  <2>1. PICK k \in 1 .. count : (k - 1) * size < p /\ p <= k * size
    BY <1>1
  <2>2. first(k) <= p /\ p <= last(k) /\ first(k) \in Nat /\ last(k) \in Nat
    <3>1. /\ first(k) \in 1 .. n /\ last(k) \in first(k) .. n
          /\ k * size <= n => last(k) = k * size
          /\ k * size > n => last(k) = n
          /\ k * size \in Nat
      BY <1>2
    <3>2. (k - 1) * size \in Int
      BY <1>1
    <3>3. first(k) <= p
      BY <2>1, <3>2
    <3> HIDE DEF last
    <3>4. QED
      BY <2>1, <3>1, <3>3
  <2> DEFINE q == p - first(k) + 1
  <2>3. q \in 1 .. last(k) - first(k) + 1 /\ first(k) + q - 1 = p
    <3> HIDE DEF first, last
    <3>1. QED
      BY <2>2
  <2> HIDE DEF q, piece
  <2>4. q \in DOMAIN piece(k) /\ piece(k)[q] = s[p]
    BY <1>3, <2>3
  <2>5. QED
    BY <2>4
<1>5. Pieces(n, size) = 1 .. count /\ \A k : Piece(s, size, n, k) = piece(k)
  BY DEF Pieces, Piece, count
<1>6. QED
  <2> HIDE DEF piece, first, last
  <2>1. \A k \in Pieces(n, size) : Piece(s, size, n, k) \in Seq(D)
    BY <1>3, <1>5
  <2>2. ASSUME NEW p \in 1 .. n PROVE InPiece(s, size, n, p)
    <3>1. PICK k \in 1 .. count : \E q \in DOMAIN piece(k) : piece(k)[q] = s[p]
      BY <1>4
    <3>2. k \in Pieces(n, size) /\ Piece(s, size, n, k) = piece(k)
      BY <1>5
    <3>3. QED
      BY <3>1, <3>2 DEF InPiece
  <2>3. QED
    BY <2>1, <2>2

(* The writes are laid out: every new id is in a slice.                       *)
LEMMA ReinsertKeeps ==
    ASSUME DriversInv, Reinsert
    PROVE  DriversInv'
PROOF
<1> DEFINE rows == Ascending(churn.doomed)
           fresh == [i \in DOMAIN rows |-> churn.next + i - 1]
           count == (Len(rows) + unit.slice - 1) \div unit.slice
           cut(s, k) == SubSeq(s, (k - 1) * unit.slice + 1,
                               Smaller((k - 1) * unit.slice + 1 + unit.slice - 1, Len(rows)))
           todo == [k \in 1 .. count |-> [ids |-> cut(fresh, k), rows |-> cut(rows, k)]]
<1>1. /\ pc = "synced_deletes" /\ pc' = "writes" /\ UNCHANGED <<unit, plan, srv>>
      /\ churn' = [churn EXCEPT !.fresh = fresh, !.next = @ + Len(rows), !.todo = todo,
                                !.writing = [w \in Writers |-> Idle]]
      /\ drv' = [w \in Writers \cup {"main"} |->
                    IF w = "main" THEN drv["main"] ELSE NewDriver]
  BY DEF Reinsert, GoTo, Kept
<1>2. /\ pc \notin {"idle"} \cup Early /\ pc # "idle"
      /\ pc \in Renewing /\ pc \in Lacking /\ pc' \in Renewing
      /\ pc' \notin Lacking /\ pc' \notin Entire /\ LiveIds' = LiveIds
  BY <1>1 DEF Early, Renewing, Lacking, Entire, LiveIds
<1>3. /\ unit \in Units /\ DOMAIN srv = ServerKeys /\ IsFiniteSet(LiveIds)
      /\ "main" \in DOMAIN drv /\ \A w \in DOMAIN drv : Remembered(drv[w])
      /\ drv["main"].note \in {"row found", "row gone"} => unit.driver = "MongoDriver"
  BY <1>2, ShapeNow
<1>4. /\ DOMAIN churn = ChurnKeys /\ churn.rows = unit.rows
      /\ churn.next \in Nat /\ unit.rows < churn.next
      /\ LiveIds \subseteq 1 .. churn.next - 1
      /\ churn.doomed \subseteq Unchurned /\ churn.doomed # {}
      /\ Unchurned \ churn.doomed \subseteq LiveIds
      /\ Cardinality(LiveIds) = unit.rows - Doomed
  BY <1>2 DEF DriversInv, ChurnHolds
<1>5. unit.rows \in Nat \ {0} /\ unit.slice \in Nat \ {0} /\ unit.threads \in Nat \ {0}
  BY <1>3 DEF Units
<1>6. Doomed \in Nat \ {0}
  <2>1. IsFiniteSet(1 .. unit.rows)
    <3> DEFINE n == unit.rows
    <3>1. n \in Int /\ 1 \in Int
      BY <1>5
    <3> HIDE DEF n
    <3>2. IsFiniteSet(1 .. n)
      BY <3>1, FS_Interval
    <3>3. QED
      BY <3>2 DEF n
  <2>2. churn.doomed \subseteq 1 .. unit.rows
    BY <1>4 DEF Unchurned
  <2>3. IsFiniteSet(churn.doomed)
    BY <2>1, <2>2, FS_Subset
  <2>4. QED
    BY <1>4, <2>3, FS_CardinalityType, FS_EmptySet DEF Doomed
<1>7. DOMAIN rows = 1 .. Doomed /\ Len(rows) = Doomed
  BY <1>6 DEF Ascending, Doomed
<1> DEFINE F == churn.next .. churn.next + Doomed - 1
<1>8. fresh \in Seq(F) /\ Len(fresh) = Doomed
      /\ fresh = [i \in 1 .. Doomed |-> churn.next + i - 1]
  <2>1. fresh = [i \in 1 .. Doomed |-> churn.next + i - 1]
    BY <1>7
  <2> HIDE DEF fresh
  <2>2. fresh \in [1 .. Doomed -> F]
    BY <1>4, <1>6, <2>1
  <2> HIDE DEF F
  <2>3. QED
    BY <1>6, <2>1, <2>2
<1>9. /\ DOMAIN churn' = ChurnKeys /\ churn'.rows = churn.rows /\ churn'.map = churn.map
      /\ churn'.next = churn.next + Doomed /\ churn'.doomed = churn.doomed
      /\ churn'.fresh = fresh /\ churn'.todo = todo /\ churn'.ended = churn.ended
      /\ churn'.writing = [w \in Writers |-> Idle]
  <2> HIDE DEF rows, fresh, todo
  <2>1. QED
    BY <1>1, <1>4, <1>7 DEF ChurnKeys
<1>10. Unchurned' = Unchurned /\ Doomed' = Doomed /\ Fresh' = F
       /\ churn'.next - Doomed' = churn.next
  BY <1>1, <1>4, <1>6, <1>9 DEF Unchurned, Doomed, Fresh
<1>11. /\ \A k \in 1 .. count : cut(fresh, k) \in Seq(F)
       /\ \A p \in 1 .. Doomed : \E k \in 1 .. count :
             \E q \in DOMAIN cut(fresh, k) : cut(fresh, k)[q] = fresh[p]
  <2> DEFINE n == Doomed
             size == unit.slice
  <2>1. 1 .. count = Pieces(n, size)
    BY <1>7 DEF Pieces
  <2>2. \A k : cut(fresh, k) = Piece(fresh, size, n, k)
    BY <1>7 DEF Piece
  <2>3. fresh \in Seq(F) /\ Len(fresh) = n /\ n \in Nat \ {0} /\ size \in Nat \ {0}
    BY <1>5, <1>6, <1>8
  <2> HIDE DEF fresh, F, cut, count, n, size
  <2>4. /\ \A k \in Pieces(n, size) : Piece(fresh, size, n, k) \in Seq(F)
        /\ \A p \in 1 .. n : InPiece(fresh, size, n, p)
    BY <2>3, Slices
  <2>5. \A k \in 1 .. count : cut(fresh, k) \in Seq(F)
    BY <2>1, <2>2, <2>4
  <2>6. ASSUME NEW p \in 1 .. n
        PROVE  \E k \in 1 .. count : \E q \in DOMAIN cut(fresh, k) :
                  cut(fresh, k)[q] = fresh[p]
    <3>1. PICK k \in Pieces(n, size) : \E q \in DOMAIN Piece(fresh, size, n, k) :
              Piece(fresh, size, n, k)[q] = fresh[p]
      BY <2>4 DEF InPiece
    <3>2. k \in 1 .. count /\ cut(fresh, k) = Piece(fresh, size, n, k)
      BY <2>1, <2>2
    <3>3. QED
      BY <3>1, <3>2
  <2>7. QED
    BY <2>5, <2>6 DEF n
<1>12. count \in Nat
  BY <1>5, <1>6, <1>7, Chunks
<1>13. /\ DOMAIN todo = 1 .. count
       /\ \A k \in 1 .. count : todo[k].ids = cut(fresh, k)
  OBVIOUS
<1>14. \E S : todo \in Seq(S)
  <2> DEFINE S == {todo[k] : k \in 1 .. count}
  <2>1. todo \in [1 .. count -> S]
    OBVIOUS
  <2> HIDE DEF todo, S, count
  <2>2. todo \in Seq(S)
    BY <1>12, <2>1
  <2>3. QED
    BY <2>2
<1>15. \A w \in Writers : /\ DOMAIN Idle = {"ids", "rows", "cursor", "failed"}
                          /\ Idle.ids \in Seq(F) /\ Idle.cursor \in 0 .. Len(Idle.ids)
  BY DEF Idle
<1> HIDE DEF todo, cut, count, fresh
<1>16. ASSUME NEW id \in F PROVE Underway(id)'
  <2> DEFINE p == id - churn.next + 1
  <2>1. p \in 1 .. Doomed /\ fresh[p] = id
    BY <1>4, <1>6, <1>8
  <2>2. PICK k \in 1 .. count : \E q \in DOMAIN cut(fresh, k) : cut(fresh, k)[q] = fresh[p]
    BY <1>11, <2>1
  <2>3. k \in DOMAIN churn'.todo /\ churn'.todo[k].ids = cut(fresh, k)
    BY <1>9, <1>13
  <2>4. QED
    BY <2>1, <2>2, <2>3 DEF Underway
<1>17. WritesHold'
  <2>1. unit.rows < churn'.next - Doomed'
    BY <1>4, <1>10
  <2>2. churn'.fresh = [i \in 1 .. Doomed' |-> churn'.next - Doomed' + i - 1]
    BY <1>8, <1>9, <1>10
  <2>3. Unchurned' \ churn'.doomed \subseteq LiveIds'
    BY <1>2, <1>4, <1>9, <1>10
  <2>4. Cardinality(LiveIds' \ Fresh') = unit.rows - Doomed'
    <3>1. LiveIds \cap F = {}
      BY <1>4, <1>6
    <3>2. LiveIds \ F = LiveIds
      BY <3>1
    <3>3. LiveIds' \ Fresh' = LiveIds
      BY <1>2, <1>10, <3>2
    <3>4. QED
      BY <1>4, <1>10, <3>3
  <2>5. \E S : churn'.todo \in Seq(S)
    BY <1>9, <1>14
  <2>6. \A i \in DOMAIN churn'.todo : churn'.todo[i].ids \in Seq(Fresh')
    BY <1>9, <1>10, <1>11, <1>13
  <2>7. \A w \in DOMAIN churn'.writing :
           /\ DOMAIN churn'.writing[w] = {"ids", "rows", "cursor", "failed"}
           /\ churn'.writing[w].ids \in Seq(Fresh')
           /\ churn'.writing[w].cursor \in 0 .. Len(churn'.writing[w].ids)
    <3>1. DOMAIN churn'.writing = Writers /\ \A w \in Writers : churn'.writing[w] = Idle
      BY <1>9
    <3> HIDE DEF F
    <3>2. QED
      BY <1>10, <1>15, <3>1
  <2>8. DOMAIN churn'.writing = Writers /\ DOMAIN drv' = Writers \cup {"main"}
    BY <1>1, <1>9
  <2>9. unit.threads = 1 => Writers = {"main"}
    BY DEF Writers
  <2>10. \A id \in Fresh' : id \in LiveIds' \/ Underway(id)'
    BY <1>10, <1>16
  <2>11. QED
    BY <1>1, <2>1, <2>2, <2>3, <2>4, <2>5, <2>6, <2>7, <2>8, <2>9, <2>10
       DEF WritesHold, SlicesShape
<1>18. UnitShape'
  <2>1. "main" \in DOMAIN drv' /\ drv'["main"] = drv["main"]
        /\ \A w \in DOMAIN drv' : drv'[w] \in {drv["main"], NewDriver}
    BY <1>1
  <2>2. \A w \in DOMAIN drv' : Remembered(drv'[w])
    BY <1>3, <2>1, NewIsRemembered
  <2>3. QED
    BY <1>1, <1>2, <1>3, <2>1, <2>2, ShapeKeeps
<1>19. LoadHolds'
  BY <1>1 DEF LoadHolds, Ahead, Serving
<1>20. ChurnHolds'
  <2>1. /\ churn'.next \in Nat /\ unit.rows < churn'.next
        /\ LiveIds \subseteq 1 .. churn'.next - 1
    BY <1>4, <1>5, <1>6, <1>9
  <2>2. QED
    BY <1>1, <1>2, <1>4, <1>9, <1>10, <1>17, <2>1 DEF ChurnHolds
<1>21. ValkeyHolds'
  BY <1>1, <1>2, <1>9 DEF DriversInv, ValkeyHolds, Filling, Serving, Good
<1>22. MongoHolds'
  BY <1>1 DEF MongoHolds
<1>23. GraphHolds'
  <2>1. drv'["main"] = drv["main"]
    BY <1>1
  <2>2. QED
    BY <1>1, <1>2, <2>1, GraphStays
<1>24. QED
  BY <1>18, <1>19, <1>20, <1>21, <1>22, <1>23 DEF DriversInv

(* What holds now of the rows a step writes.                                  *)
LEMMA Writing ==
    ASSUME DriversInv, pc = "writes"
    PROVE  /\ pc \notin {"idle"} \cup Early /\ pc # "idle" /\ pc \in Renewing
           /\ pc \notin Entire /\ pc \notin Lacking
           /\ unit \in Units /\ DOMAIN srv = ServerKeys /\ IsFiniteSet(LiveIds)
           /\ "main" \in DOMAIN drv /\ \A w \in DOMAIN drv : Remembered(drv[w])
           /\ drv["main"].note \in {"row found", "row gone"}
                  => unit.driver = "MongoDriver"
           /\ DOMAIN churn = ChurnKeys /\ churn.rows = unit.rows
           /\ churn.next \in Nat /\ unit.rows < churn.next
           /\ LiveIds \subseteq 1 .. churn.next - 1
           /\ churn.doomed \subseteq Unchurned /\ churn.doomed # {}
           /\ WritesHold
           /\ IsFiniteSet(churn.doomed) /\ Doomed \in Nat \ {0}
           /\ churn.next - Doomed \in Nat \ {0} /\ unit.rows \in Nat \ {0}
           /\ IsFiniteSet(Fresh) /\ Cardinality(Fresh) = Doomed
           /\ Fresh \subseteq 1 .. churn.next - 1 /\ Fresh # {}
PROOF
<1>1. /\ pc \notin {"idle"} \cup Early /\ pc # "idle" /\ pc \in Renewing
      /\ pc \notin Entire /\ pc \notin Lacking
  BY DEF Early, Renewing, Entire, Lacking
<1>2. /\ unit \in Units /\ DOMAIN srv = ServerKeys /\ IsFiniteSet(LiveIds)
      /\ "main" \in DOMAIN drv /\ \A w \in DOMAIN drv : Remembered(drv[w])
      /\ drv["main"].note \in {"row found", "row gone"} => unit.driver = "MongoDriver"
  BY <1>1, ShapeNow
<1>3. /\ DOMAIN churn = ChurnKeys /\ churn.rows = unit.rows
      /\ churn.next \in Nat /\ unit.rows < churn.next
      /\ LiveIds \subseteq 1 .. churn.next - 1
      /\ churn.doomed \subseteq Unchurned /\ churn.doomed # {}
      /\ WritesHold
  BY <1>1 DEF DriversInv, ChurnHolds
<1>4. unit.rows \in Nat \ {0}
  BY <1>2 DEF Units
<1>5. IsFiniteSet(churn.doomed)
  <2> DEFINE n == unit.rows
             doomed == churn.doomed
  <2>1. n \in Int /\ 1 \in Int /\ doomed \subseteq 1 .. n
    BY <1>3, <1>4 DEF Unchurned
  <2> HIDE DEF n, doomed
  <2>2. IsFiniteSet(doomed)
    BY <2>1, FS_Interval, FS_Subset
  <2>3. QED
    BY <2>2 DEF doomed
<1>6. Doomed \in Nat \ {0}
  BY <1>3, <1>5, FS_CardinalityType, FS_EmptySet DEF Doomed
<1>7. unit.rows < churn.next - Doomed
  BY <1>3 DEF WritesHold
<1>8. churn.next - Doomed \in Nat \ {0}
  BY <1>3, <1>4, <1>6, <1>7
<1>9. IsFiniteSet(Fresh) /\ Cardinality(Fresh) = Doomed
      /\ Fresh \subseteq 1 .. churn.next - 1 /\ Fresh # {}
  <2> DEFINE low == churn.next - Doomed
             high == churn.next - 1
  <2>1. low \in Int /\ high \in Int /\ low <= high /\ high - low + 1 = Doomed /\ low >= 1
    BY <1>3, <1>6, <1>8
  <2>2. Fresh = low .. high
    BY DEF Fresh
  <2> HIDE DEF low, high
  <2>3. IsFiniteSet(low .. high) /\ Cardinality(low .. high) = high - low + 1
    BY <2>1, FS_Interval
  <2>4. low .. high \subseteq 1 .. high /\ low .. high # {}
    BY <2>1
  <2>5. QED
    BY <2>1, <2>2, <2>3, <2>4 DEF high
<1>10. QED
  BY <1>1, <1>2, <1>3, <1>4, <1>5, <1>6, <1>8, <1>9

SameStep ==
    /\ DOMAIN churn' = ChurnKeys /\ churn'.rows = churn.rows /\ churn'.map = churn.map
    /\ churn'.next = churn.next /\ churn'.doomed = churn.doomed
    /\ churn'.fresh = churn.fresh /\ churn'.ended = churn.ended
(* The steps that leave the ids of a churn step alone leave what is said of   *)
(* them.                                                                      *)
LEMMA SameIds ==
    ASSUME SameStep, UNCHANGED unit
    PROVE  Unchurned' = Unchurned /\ Doomed' = Doomed /\ Fresh' = Fresh
PROOF
<1>1. QED
  BY DEF SameStep, Unchurned, Doomed, Fresh

(* A step of the writers adds rows of this churn step, and no others.         *)
LEMMA WritesKeep ==
    ASSUME DriversInv, pc = "writes", pc' = "writes", UNCHANGED <<unit, plan>>,
           DOMAIN srv' = ServerKeys, NEW new, new \subseteq Fresh,
           LiveIds' = new \cup LiveIds,
           DOMAIN drv' = DOMAIN drv, \A w \in DOMAIN drv' : Remembered(drv'[w]),
           drv'["main"].note = drv["main"].note,
           SameStep, SlicesShape', DOMAIN churn'.writing = DOMAIN churn.writing,
           \A id \in Fresh : id \in LiveIds' \/ Underway(id)',
           unit.driver = "ValkeyDriver" => srv'.index = srv.index,
           GraphHolds'
    PROVE  DriversInv'
PROOF
<1>1. Unchurned' = Unchurned /\ Doomed' = Doomed /\ Fresh' = Fresh
  BY SameIds
<1>2. UnitShape'
  <2>1. IsFiniteSet(new)
    BY Writing, FS_Subset
  <2>2. IsFiniteSet(LiveIds')
    BY <2>1, Writing, FS_Union
  <2>3. QED
    BY <2>2, Writing, ShapeKeeps
<1>3. LoadHolds'
  BY DEF LoadHolds, Ahead, Serving
<1>4. LiveIds' \ Fresh = LiveIds \ Fresh
  OBVIOUS
<1>5. WritesHold'
  <2>1. /\ unit.rows < churn.next - Doomed
        /\ churn.fresh = [i \in 1 .. Doomed |-> churn.next - Doomed + i - 1]
        /\ Unchurned \ churn.doomed \subseteq LiveIds
        /\ Cardinality(LiveIds \ Fresh) = unit.rows - Doomed
        /\ DOMAIN churn.writing \subseteq DOMAIN drv
        /\ unit.threads = 1 => DOMAIN churn.writing = {"main"}
    BY Writing DEF WritesHold
  <2>2. /\ unit'.rows < churn'.next - Doomed'
        /\ churn'.fresh = [i \in 1 .. Doomed' |-> churn'.next - Doomed' + i - 1]
    BY <1>1, <2>1 DEF SameStep
  <2>3. Unchurned' \ churn'.doomed \subseteq LiveIds'
    BY <1>1, <2>1 DEF SameStep
  <2>4. Cardinality(LiveIds' \ Fresh') = unit'.rows - Doomed'
    BY <1>1, <1>4, <2>1
  <2>5. /\ DOMAIN churn'.writing \subseteq DOMAIN drv'
        /\ unit'.threads = 1 => DOMAIN churn'.writing = {"main"}
    BY <2>1
  <2>6. QED
    BY <1>1, <2>2, <2>3, <2>4, <2>5 DEF WritesHold
<1>6. ChurnHolds'
  <2>1. LiveIds' \subseteq 1 .. churn'.next - 1
    BY Writing DEF SameStep
  <2>2. /\ churn'.rows = unit'.rows /\ churn'.next \in Nat /\ unit'.rows < churn'.next
        /\ churn'.doomed \subseteq Unchurned' /\ churn'.doomed # {}
    BY <1>1, Writing DEF SameStep
  <2>3. QED
    BY <1>5, <2>1, <2>2, Writing DEF SameStep, ChurnHolds, Entire, Lacking
<1>7. ValkeyHolds'
  <2>1. ASSUME unit.driver = "ValkeyDriver", Good PROVE srv.index \subseteq LiveIds
    BY <2>1, Writing DEF DriversInv, ValkeyHolds
  <2>2. QED
    BY <2>1 DEF SameStep, ValkeyHolds, Filling, Serving, Good
<1>8. MongoHolds'
  BY DEF MongoHolds
<1>9. QED
  BY <1>2, <1>3, <1>6, <1>7, <1>8 DEF DriversInv

(* What a writer is.                                                          *)
LEMMA WriterOf ==
    ASSUME DriversInv, pc = "writes", NEW w, w \in DOMAIN churn.writing
    PROVE  /\ DOMAIN churn.writing[w] = {"ids", "rows", "cursor", "failed"}
           /\ churn.writing[w].ids \in Seq(Fresh)
           /\ churn.writing[w].cursor \in 0 .. Len(churn.writing[w].ids)
           /\ Len(churn.writing[w].ids) \in Nat
           /\ w \in DOMAIN drv /\ Remembered(drv[w])
           /\ unit.threads = 1 => w = "main"
PROOF
<1>1. /\ DOMAIN churn.writing[w] = {"ids", "rows", "cursor", "failed"}
      /\ churn.writing[w].ids \in Seq(Fresh)
      /\ churn.writing[w].cursor \in 0 .. Len(churn.writing[w].ids)
      /\ w \in DOMAIN drv /\ (unit.threads = 1 => w = "main")
  BY Writing DEF WritesHold, SlicesShape
<1>2. Len(churn.writing[w].ids) \in Nat
  BY <1>1
<1>3. Remembered(drv[w])
  BY <1>1, Writing
<1>4. QED
  BY <1>1, <1>2, <1>3

(* A writer that has finished its slice takes the next one.                   *)
LEMMA TakeKeeps ==
    ASSUME DriversInv, NEW w, TakeSlice(w)
    PROVE  DriversInv'
PROOF
<1> DEFINE slice == [Idle EXCEPT !.ids = Head(churn.todo).ids, !.rows = Head(churn.todo).rows]
<1>1. /\ pc = "writes" /\ pc' = "writes" /\ UNCHANGED <<unit, plan, srv, drv>>
      /\ w \in DOMAIN churn.writing /\ ~ IsWriting(w) /\ ~ AnyFailed /\ churn.todo # << >>
      /\ churn' = [churn EXCEPT !.todo = Tail(@), !.writing[w] = slice]
  BY DEF TakeSlice, Kept
<1>2. /\ DOMAIN slice = {"ids", "rows", "cursor", "failed"}
      /\ slice.ids = Head(churn.todo).ids /\ slice.cursor = 0
  BY DEF Idle
<1> HIDE DEF slice
<1>3. DOMAIN churn = ChurnKeys
  BY <1>1, Writing
<1>4. /\ DOMAIN churn' = ChurnKeys /\ churn'.rows = churn.rows /\ churn'.map = churn.map
      /\ churn'.next = churn.next /\ churn'.doomed = churn.doomed
      /\ churn'.fresh = churn.fresh /\ churn'.ended = churn.ended
      /\ churn'.todo = Tail(churn.todo)
      /\ churn'.writing = [churn.writing EXCEPT ![w] = slice]
  BY <1>1, <1>3 DEF ChurnKeys
<1>5. PICK S : churn.todo \in Seq(S)
  BY <1>1, Writing DEF WritesHold, SlicesShape
<1>6. \A i \in DOMAIN churn.todo : churn.todo[i].ids \in Seq(Fresh)
  BY <1>1, Writing DEF WritesHold, SlicesShape
<1> DEFINE todo == churn.todo
<1>7. /\ Tail(todo) \in Seq(S) /\ Head(todo) = todo[1] /\ 1 \in DOMAIN todo
      /\ DOMAIN todo = 1 .. Len(todo) /\ Len(todo) \in Nat
      /\ DOMAIN Tail(todo) = 1 .. Len(todo) - 1
      /\ \A i \in 1 .. Len(todo) - 1 : Tail(todo)[i] = todo[i + 1]
  <2> HIDE DEF todo
  <2>1. todo \in Seq(S) /\ todo # << >>
    BY <1>1, <1>5 DEF todo
  <2>2. QED
    BY <2>1
<1>8. \A i \in DOMAIN churn'.todo : churn'.todo[i].ids \in Seq(Fresh)
  BY <1>4, <1>6, <1>7
<1>9. slice.ids \in Seq(Fresh) /\ Len(slice.ids) \in Nat /\ slice.ids = todo[1].ids
  BY <1>2, <1>6, <1>7
<1>10. /\ DOMAIN churn'.writing = DOMAIN churn.writing /\ churn'.writing[w] = slice
       /\ \A v \in DOMAIN churn.writing \ {w} : churn'.writing[v] = churn.writing[v]
  BY <1>1, <1>4
<1>11. \A v \in DOMAIN churn'.writing :
          /\ DOMAIN churn'.writing[v] = {"ids", "rows", "cursor", "failed"}
          /\ churn'.writing[v].ids \in Seq(Fresh)
          /\ churn'.writing[v].cursor \in 0 .. Len(churn'.writing[v].ids)
  <2>1. SUFFICES ASSUME NEW v \in DOMAIN churn.writing
                 PROVE  /\ DOMAIN churn'.writing[v] = {"ids", "rows", "cursor", "failed"}
                        /\ churn'.writing[v].ids \in Seq(Fresh)
                        /\ churn'.writing[v].cursor \in 0 .. Len(churn'.writing[v].ids)
    BY <1>10
  <2>2. CASE v = w
    BY <1>2, <1>9, <1>10, <2>2
  <2>3. CASE v # w
    BY <1>1, <1>10, <2>1, <2>3, WriterOf
  <2>4. QED
    BY <2>2, <2>3
<1>12. LiveIds' = LiveIds
  BY <1>1 DEF LiveIds
<1>13. ASSUME NEW id \in Fresh, id \notin LiveIds PROVE Underway(id)'
  <2>1. Underway(id)
    BY <1>1, <1>13, Writing DEF WritesHold
  <2>2. CASE \E i \in DOMAIN todo : \E p \in DOMAIN todo[i].ids : todo[i].ids[p] = id
    <3>1. PICK i \in DOMAIN todo : \E p \in DOMAIN todo[i].ids : todo[i].ids[p] = id
      BY <2>2
    <3>2. CASE i = 1
      <4>1. PICK p \in DOMAIN slice.ids : slice.ids[p] = id
        BY <1>9, <3>1, <3>2
      <4>2. p \in slice.cursor + 1 .. Len(slice.ids)
        BY <1>2, <1>9, <4>1
      <4>3. QED
        BY <1>1, <1>10, <4>1, <4>2 DEF Underway
    <3>3. CASE i # 1
      <4>1. i - 1 \in DOMAIN churn'.todo /\ churn'.todo[i - 1] = todo[i]
        BY <1>4, <1>7, <3>3
      <4>2. QED
        BY <3>1, <4>1 DEF Underway
    <3>4. QED
      BY <3>2, <3>3
  <2>3. CASE \E v \in DOMAIN churn.writing :
                \E p \in churn.writing[v].cursor + 1 .. Len(churn.writing[v].ids) :
                   churn.writing[v].ids[p] = id
    <3>1. PICK v \in DOMAIN churn.writing :
                \E p \in churn.writing[v].cursor + 1 .. Len(churn.writing[v].ids) :
                   churn.writing[v].ids[p] = id
      BY <2>3
    <3>2. v # w
      <4>1. ~ (churn.writing[w].cursor < Len(churn.writing[w].ids))
        BY <1>1 DEF IsWriting, AnyFailed
      <4>2. churn.writing[w].cursor \in Nat /\ Len(churn.writing[w].ids) \in Nat
        BY <1>1, WriterOf
      <4>3. churn.writing[w].cursor + 1 .. Len(churn.writing[w].ids) = {}
        BY <4>1, <4>2
      <4>4. QED
        BY <3>1, <4>3
    <3>3. QED
      BY <1>10, <3>1, <3>2 DEF Underway
  <2>4. QED
    BY <2>1, <2>2, <2>3 DEF Underway
<1>14. GraphHolds'
  BY <1>1, <1>12, Writing, GraphStays
<1>15. \E T : churn'.todo \in Seq(T)
  BY <1>4, <1>7
<1>16. DriversInv'
  <2> HIDE DEF todo
  <2>1. \A id \in Fresh : id \in LiveIds' \/ Underway(id)'
    BY <1>12, <1>13
  <2> DEFINE new == {}
  <2>2. new \subseteq Fresh /\ LiveIds' = new \cup LiveIds
    BY <1>12
  <2> HIDE DEF new
  <2>3. /\ DOMAIN drv' = DOMAIN drv /\ \A v \in DOMAIN drv' : Remembered(drv'[v])
        /\ drv'["main"].note = drv["main"].note /\ DOMAIN srv' = ServerKeys
        /\ srv'.index = srv.index
    BY <1>1, Writing
  <2>4. SameStep
    BY <1>4 DEF SameStep
  <2>5. SlicesShape'
    BY <1>1, <1>8, <1>11, <1>15, <2>4, SameIds DEF SlicesShape
  <2>6. QED
    BY <1>1, <1>10, <1>14, <2>1, <2>2, <2>3, <2>4, <2>5, WritesKeep
<1>17. QED
  BY <1>16

(* A writer's statement: some rows of its slice are there, and it goes on from*)
(* no further than these.                                                     *)
LEMMA SliceWritten ==
    ASSUME DriversInv, pc = "writes", pc' = "writes", UNCHANGED <<unit, plan>>,
           NEW w, w \in DOMAIN churn.writing,
           DOMAIN srv' = ServerKeys, NEW new, new \subseteq Fresh,
           LiveIds' = new \cup LiveIds,
           DOMAIN drv' = DOMAIN drv, \A v \in DOMAIN drv' : Remembered(drv'[v]),
           drv'["main"].note = drv["main"].note,
           NEW next, churn' = [churn EXCEPT !.writing = [@ EXCEPT ![w] = next]],
           DOMAIN next = {"ids", "rows", "cursor", "failed"},
           next.ids = churn.writing[w].ids,
           next.cursor \in churn.writing[w].cursor .. Len(churn.writing[w].ids),
           \A p \in churn.writing[w].cursor + 1 .. next.cursor :
              churn.writing[w].ids[p] \in new,
           unit.driver = "ValkeyDriver" => srv'.index = srv.index,
           GraphHolds'
    PROVE  DriversInv'
PROOF
<1>1. /\ DOMAIN churn' = ChurnKeys /\ churn'.rows = churn.rows /\ churn'.map = churn.map
      /\ churn'.next = churn.next /\ churn'.doomed = churn.doomed
      /\ churn'.fresh = churn.fresh /\ churn'.ended = churn.ended
      /\ churn'.todo = churn.todo /\ churn'.writing = [churn.writing EXCEPT ![w] = next]
  <2>1. DOMAIN churn = ChurnKeys
    BY Writing
  <2>2. QED
    BY <2>1 DEF ChurnKeys
<1>2. SameStep
  BY <1>1 DEF SameStep
<1>3. /\ DOMAIN churn'.writing = DOMAIN churn.writing /\ churn'.writing[w] = next
      /\ \A v \in DOMAIN churn.writing \ {w} : churn'.writing[v] = churn.writing[v]
  BY <1>1
<1>4. /\ churn.writing[w].ids \in Seq(Fresh) /\ churn.writing[w].cursor \in Nat
      /\ Len(churn.writing[w].ids) \in Nat
  BY WriterOf
<1>5. SlicesShape'
  <2>1. SlicesShape
    BY Writing DEF WritesHold
  <2>2. Fresh' = Fresh
    BY <1>2, SameIds
  <2>3. next.cursor \in 0 .. Len(next.ids)
    BY <1>4
  <2>4. \A v \in DOMAIN churn'.writing :
           /\ DOMAIN churn'.writing[v] = {"ids", "rows", "cursor", "failed"}
           /\ churn'.writing[v].ids \in Seq(Fresh)
           /\ churn'.writing[v].cursor \in 0 .. Len(churn'.writing[v].ids)
    <3>1. SUFFICES ASSUME NEW v \in DOMAIN churn.writing
                   PROVE  /\ DOMAIN churn'.writing[v] = {"ids", "rows", "cursor", "failed"}
                          /\ churn'.writing[v].ids \in Seq(Fresh)
                          /\ churn'.writing[v].cursor \in 0 .. Len(churn'.writing[v].ids)
      BY <1>3
    <3>2. CASE v = w
      BY <1>3, <1>4, <2>3, <3>2
    <3>3. CASE v # w
      BY <1>3, <3>1, <3>3, WriterOf
    <3>4. QED
      BY <3>2, <3>3
  <2>5. /\ \E S : churn'.todo \in Seq(S)
        /\ \A i \in DOMAIN churn'.todo : churn'.todo[i].ids \in Seq(Fresh)
    BY <1>1, <2>1 DEF SlicesShape
  <2>6. QED
    BY <2>2, <2>4, <2>5 DEF SlicesShape
<1>6. ASSUME NEW id \in Fresh, id \notin LiveIds' PROVE Underway(id)'
  <2>1. Underway(id) /\ id \notin new
    BY <1>6, Writing DEF WritesHold
  <2>2. CASE \E i \in DOMAIN churn.todo : \E p \in DOMAIN churn.todo[i].ids :
                churn.todo[i].ids[p] = id
    BY <1>1, <2>2 DEF Underway
  <2>3. CASE \E v \in DOMAIN churn.writing :
                \E p \in churn.writing[v].cursor + 1 .. Len(churn.writing[v].ids) :
                   churn.writing[v].ids[p] = id
    <3>1. PICK v \in DOMAIN churn.writing :
                \E p \in churn.writing[v].cursor + 1 .. Len(churn.writing[v].ids) :
                   churn.writing[v].ids[p] = id
      BY <2>3
    <3>2. CASE v = w
      <4>1. PICK p \in churn.writing[w].cursor + 1 .. Len(churn.writing[w].ids) :
                   churn.writing[w].ids[p] = id
        BY <3>1, <3>2
      <4>2. p \notin churn.writing[w].cursor + 1 .. next.cursor
        BY <2>1, <4>1
      <4>3. p \in next.cursor + 1 .. Len(next.ids)
        BY <1>4, <4>1, <4>2
      <4>4. QED
        BY <1>3, <4>1, <4>3 DEF Underway
    <3>3. CASE v # w
      BY <1>3, <3>1, <3>3 DEF Underway
    <3>4. QED
      BY <3>2, <3>3
  <2>4. QED
    BY <2>1, <2>2, <2>3 DEF Underway
<1>7. \A id \in Fresh : id \in LiveIds' \/ Underway(id)'
  BY <1>6
<1>8. QED
  BY <1>2, <1>3, <1>5, <1>7, WritesKeep

(* The rows of a part of a slice have ids of the step.                        *)
LEMMA SliceRows ==
    ASSUME NEW s, NEW S, s.ids \in Seq(S), NEW a \in Nat \ {0}, NEW b \in Nat,
           b <= Len(s.ids)
    PROVE  /\ DOMAIN RowsOf(s, a, b) = {s.ids[i] : i \in a .. b}
           /\ DOMAIN RowsOf(s, a, b) \subseteq S
PROOF
<1>1. DOMAIN RowsOf(s, a, b) = {s.ids[i] : i \in a .. b}
  BY DEF RowsOf
<1>2. \A i \in a .. b : i \in 1 .. Len(s.ids)
  OBVIOUS
<1>3. \A i \in a .. b : s.ids[i] \in S
  BY <1>2
<1>4. QED
  BY <1>1, <1>3

(* They are written: only an engine that indexes in the statement shows it.   *)
LEMMA RowsReach ==
    ASSUME DriversInv, pc = "writes", NEW rows, srv' = Put(srv, rows)
    PROVE  /\ LiveIds' = DOMAIN rows \cup LiveIds
           /\ DOMAIN srv' = ServerKeys
           /\ srv'.built = srv.built /\ srv'.capacity = srv.capacity
           /\ unit.driver \in Deferred => srv'.index = srv.index
           /\ unit.driver = "MyVectorDriver" /\ srv.built
                 => srv'.unseen = srv.unseen \cup DOMAIN rows
PROOF
<1>1. DOMAIN srv = ServerKeys
  BY Writing
<1>2. /\ DOMAIN Put(srv, rows) = ServerKeys
      /\ DOMAIN Put(srv, rows).table = DOMAIN rows \cup DOMAIN srv.table
      /\ Put(srv, rows).built = srv.built /\ Put(srv, rows).capacity = srv.capacity
      /\ Put(srv, rows).index = IF InStatement(srv) THEN srv.index \cup DOMAIN rows
                                ELSE srv.index
  BY <1>1, Putting
<1>3. Put(srv, rows).unseen = IF unit.driver = "MyVectorDriver" /\ srv.built
                              THEN srv.unseen \cup DOMAIN rows ELSE srv.unseen
  BY <1>1, Putting, Zenon
<1>4. QED
  BY <1>2, <1>3 DEF LiveIds, InStatement

(* A failed statement writes nothing.                                         *)
LEMMA FailedKeeps ==
    ASSUME DriversInv, pc = "writes", pc' = "writes", UNCHANGED <<unit, plan, srv, drv>>,
           NEW w, w \in DOMAIN churn.writing,
           churn' = [churn EXCEPT !.writing[w].failed = TRUE]
    PROVE  DriversInv'
PROOF
<1> DEFINE next == [churn.writing[w] EXCEPT !.failed = TRUE]
           new == {}
<1>1. /\ DOMAIN churn.writing[w] = {"ids", "rows", "cursor", "failed"}
      /\ churn.writing[w].cursor \in 0 .. Len(churn.writing[w].ids)
      /\ Len(churn.writing[w].ids) \in Nat
  BY WriterOf
<1>2. /\ DOMAIN next = {"ids", "rows", "cursor", "failed"}
      /\ next.ids = churn.writing[w].ids /\ next.cursor = churn.writing[w].cursor
  BY <1>1
<1>3. churn' = [churn EXCEPT !.writing = [@ EXCEPT ![w] = next]]
  <2>1. DOMAIN churn = ChurnKeys
    BY Writing
  <2>2. QED
    BY <2>1 DEF ChurnKeys
<1>4. new \subseteq Fresh /\ LiveIds' = new \cup LiveIds
  BY DEF LiveIds
<1>5. GraphHolds'
  BY <1>4, Writing, GraphStays
<1>6. next.cursor \in churn.writing[w].cursor .. Len(churn.writing[w].ids)
      /\ churn.writing[w].cursor + 1 .. next.cursor = {}
  BY <1>1, <1>2
<1> HIDE DEF next, new
<1>7. /\ DOMAIN srv' = ServerKeys /\ srv'.index = srv.index
      /\ DOMAIN drv' = DOMAIN drv /\ \A v \in DOMAIN drv' : Remembered(drv'[v])
      /\ drv'["main"].note = drv["main"].note
  BY Writing
<1>8. QED
  BY <1>2, <1>3, <1>4, <1>5, <1>6, <1>7, SliceWritten

(* A slice in one statement.                                                  *)
InOneStatement(w) ==
    LET s == churn.writing[w] IN
    /\ srv' = Put(srv, RowsOf(s, 1, Len(s.ids)))
    /\ drv' = [drv EXCEPT ![w].newest = s.ids[Len(s.ids)], ![w].pending = @ + Len(s.ids)]
    /\ churn' = [churn EXCEPT !.writing[w].cursor = Len(s.ids)]

(* MyVector's driver counted the rows against its graph's room before, with   *)
(* all it has written and not yet seen there.                                 *)
LEMMA PlainKeeps ==
    ASSUME DriversInv, pc = "writes", pc' = "writes", UNCHANGED <<unit, plan>>,
           NEW w, w \in DOMAIN churn.writing, IsWriting(w),
           unit.driver # "ValkeyDriver",
           unit.driver = "MyVectorDriver"
              => ~ RefusesRows(drv[w], Len(churn.writing[w].ids)),
           InOneStatement(w)
    PROVE  DriversInv'
PROOF
<1> DEFINE s == churn.writing[w]
           n == Len(s.ids)
           new == {s.ids[i] : i \in 1 .. n}
           next == [s EXCEPT !.cursor = n]
<1>1. /\ DOMAIN s = {"ids", "rows", "cursor", "failed"}
      /\ s.cursor \in 0 .. n /\ n \in Nat /\ w \in DOMAIN drv /\ Remembered(drv[w])
      /\ unit.threads = 1 => w = "main"
  BY WriterOf
<1>2. /\ DOMAIN next = {"ids", "rows", "cursor", "failed"}
      /\ next.ids = s.ids /\ next.cursor = n
  BY <1>1
<1>3. churn' = [churn EXCEPT !.writing = [@ EXCEPT ![w] = next]]
  <2>1. DOMAIN churn = ChurnKeys
    BY Writing
  <2>2. QED
    BY <2>1 DEF ChurnKeys, InOneStatement
<1>4. /\ new \subseteq Fresh /\ LiveIds' = new \cup LiveIds /\ DOMAIN srv' = ServerKeys
      /\ srv'.built = srv.built /\ srv'.capacity = srv.capacity
      /\ unit.driver \in Deferred => srv'.index = srv.index
      /\ unit.driver = "MyVectorDriver" /\ srv.built => srv'.unseen = srv.unseen \cup new
  <2> DEFINE rows == RowsOf(s, 1, n)
  <2>1. s.ids \in Seq(Fresh)
    BY WriterOf
  <2>2. DOMAIN rows = new /\ DOMAIN rows \subseteq Fresh
    <3> HIDE DEF s
    <3>1. 1 \in Nat \ {0} /\ n \in Nat /\ n <= Len(s.ids)
      BY <1>1
    <3>2. QED
      BY <2>1, <3>1, SliceRows
  <2>3. srv' = Put(srv, rows)
    BY DEF InOneStatement
  <2> HIDE DEF rows, new
  <2>4. QED
    BY <2>2, <2>3, RowsReach
<1>5. /\ DOMAIN drv' = DOMAIN drv /\ \A v \in DOMAIN drv \ {w} : drv'[v] = drv[v]
      /\ DOMAIN drv'[w] = DriverKeys
      /\ drv'[w].capacity = drv[w].capacity /\ drv'[w].elements = drv[w].elements
      /\ drv'[w].batch = drv[w].batch /\ drv'[w].note = drv[w].note
      /\ drv'[w].pending = drv[w].pending + n
  BY <1>1 DEF Remembered, DriverKeys, InOneStatement
<1>6. "main" \in DOMAIN drv /\ \A v \in DOMAIN drv : Remembered(drv[v])
  BY Writing
<1>7. \A v \in DOMAIN drv' : Remembered(drv'[v])
  <2>1. Remembered(drv'[w])
    BY <1>1, <1>5 DEF Remembered
  <2>2. QED
    BY <1>5, <1>6, <2>1
<1>8. drv'["main"].note = drv["main"].note
  BY <1>5, <1>6
<1>9. \A p \in s.cursor + 1 .. next.cursor : s.ids[p] \in new
  BY <1>1, <1>2
<1>10. GraphHolds'
  <2>1. SUFFICES ASSUME unit.driver = "MyVectorDriver" PROVE GraphHolds'
    BY DEF GraphHolds
  <2>2. /\ srv.built /\ LiveIds \subseteq srv.index \cup srv.unseen
        /\ unit.threads = 1 => Capacitated
    BY <2>1, Writing DEF DriversInv, GraphHolds
  <2>3. srv'.index = srv.index /\ srv'.unseen = srv.unseen \cup new
    BY <1>4, <2>1, <2>2 DEF Deferred
  <2>4. ASSUME unit.threads = 1 PROVE Capacitated'
    <3>1. w = "main" /\ Capacitated
      BY <1>1, <2>2, <2>4
    <3>2. /\ drv["main"].capacity \in Nat \ {0}
          /\ drv["main"].elements \in Nat /\ drv["main"].pending \in Nat
          /\ srv.capacity \in Nat \ {0} /\ drv["main"].capacity = srv.capacity
      BY <1>1, <3>1 DEF Remembered, Capacitated
    <3>3. drv["main"].elements + drv["main"].pending + n <= srv.capacity
      BY <1>1, <2>1, <3>1, <3>2 DEF RefusesRows
    <3>4. drv'["main"].elements + drv'["main"].pending <= srv.capacity
      BY <1>1, <1>5, <3>1, <3>2, <3>3
    <3> HIDE DEF n
    <3>5. QED
      BY <1>4, <1>5, <2>3, <3>1, <3>4 DEF Capacitated
  <2>5. LiveIds' \subseteq srv'.index \cup srv'.unseen
    BY <1>4, <2>2, <2>3
  <2>6. QED
    BY <1>4, <2>2, <2>4, <2>5 DEF GraphHolds, Filling
<1>11. next.cursor \in s.cursor .. n
  BY <1>1, <1>2
<1> HIDE DEF next, new
<1>12. unit.driver = "ValkeyDriver" => srv'.index = srv.index
  OBVIOUS
<1>13. DOMAIN srv' = ServerKeys /\ DOMAIN drv' = DOMAIN drv
  BY <1>4, <1>5
<1>14. QED
  BY <1>2, <1>3, <1>4, <1>7, <1>8, <1>9, <1>10, <1>11, <1>12, <1>13, SliceWritten

(* Of the sizes that are tried the largest is one of them, or none is.        *)
LEMMA Largest ==
    ASSUME NEW size \in Nat, NEW working
    PROVE  LargestWorking(size, working) \in 0 .. size
PROOF
<1> DEFINE tried == {n \in ProbeSizes : n <= size} \cap working
<1>1. tried \subseteq 1 .. size
  BY DEF ProbeSizes
<1>2. LargestWorking(size, working) = IF tried = {} THEN 0 ELSE LastOf(tried)
  BY DEF LargestWorking, LastOf
<1> HIDE DEF tried
<1>3. CASE tried = {}
  BY <1>2, <1>3
<1>4. CASE tried # {}
  <2>1. LastOf(tried) \in tried
    BY <1>1, <1>4, Greatest
  <2>2. LastOf(tried) \in 1 .. size
    BY <1>1, <2>1
  <2>3. LargestWorking(size, working) = LastOf(tried)
    BY <1>2, <1>4
  <2>4. QED
    BY <2>2, <2>3
<1>5. QED
  BY <1>3, <1>4

(* What Valkey's driver shrinks its batch to is a size again.                 *)
LEMMA Batches ==
    ASSUME NEW d, Remembered(d), NEW size \in Nat, NEW working,
           NextBatch(d, size, working) # None
    PROVE  NextBatch(d, size, working) \in Nat \ {0}
PROOF
<1>1. d.batch \in Nat \ {0} /\ LargestWorking(size, working) \in 0 .. size
  BY Largest DEF Remembered
<1>2. QED
  BY <1>1 DEF NextBatch, Larger

(* Valkey's driver writes what its batch holds; a statement that stalls may   *)
(* have reached the server, and is written again at another size.             *)
LEMMA ValkeyKeeps ==
    ASSUME DriversInv, pc = "writes", pc' = "writes", UNCHANGED <<unit, plan>>,
           NEW w, w \in DOMAIN churn.writing, IsWriting(w),
           unit.driver = "ValkeyDriver", ValkeyWrite(w)
    PROVE  DriversInv'
PROOF
<1> DEFINE s == churn.writing[w]
           d == drv[w]
           size == Smaller(d.batch, Len(s.ids) - s.cursor)
           reached(n) == IF n = 0 THEN srv
                         ELSE Put(srv, RowsOf(s, s.cursor + 1, s.cursor + n))
           Failing(working) ==
               /\ drv' = [drv EXCEPT ![w].probed = TRUE,
                              ![w].batch = IF NextBatch(d, size, working) = None THEN @
                                           ELSE NextBatch(d, size, working)]
               /\ churn' = [churn EXCEPT !.writing[w] =
                              IF NextBatch(d, size, working) = None
                              THEN [s EXCEPT !.failed = TRUE] ELSE s]
<1>1. /\ DOMAIN s = {"ids", "rows", "cursor", "failed"}
      /\ s.cursor \in 0 .. Len(s.ids) /\ Len(s.ids) \in Nat
      /\ w \in DOMAIN drv /\ Remembered(d)
  BY WriterOf
<1>2. s.cursor < Len(s.ids) /\ d.batch \in Nat \ {0}
  BY <1>1 DEF IsWriting, Remembered
<1>3. size \in Nat /\ s.cursor + size <= Len(s.ids) /\ s.cursor \in Nat
  BY <1>1, <1>2 DEF Smaller
<1>4. DOMAIN churn = ChurnKeys /\ DOMAIN srv = ServerKeys
      /\ "main" \in DOMAIN drv /\ \A v \in DOMAIN drv : Remembered(drv[v])
  BY Writing
<1>5. GraphHolds'
  BY DEF GraphHolds
<1>6. ASSUME NEW n \in 0 .. size, srv' = reached(n),
             DOMAIN drv' = DOMAIN drv, \A v \in DOMAIN drv' : Remembered(drv'[v]),
             drv'["main"].note = drv["main"].note,
             NEW next, churn' = [churn EXCEPT !.writing = [@ EXCEPT ![w] = next]],
             DOMAIN next = {"ids", "rows", "cursor", "failed"},
             next.ids = s.ids, next.cursor \in s.cursor .. s.cursor + n
      PROVE  DriversInv'
  <2> DEFINE new == {s.ids[i] : i \in s.cursor + 1 .. s.cursor + n}
  <2> HIDE DEF size
  <2>1. new \subseteq Fresh /\ LiveIds' = new \cup LiveIds
        /\ DOMAIN srv' = ServerKeys /\ srv'.index = srv.index
    <3>1. CASE n = 0
      <4>1. new = {} /\ srv' = srv
        BY <1>3, <1>6, <3>1
      <4> HIDE DEF new
      <4>2. QED
        BY <1>4, <4>1 DEF LiveIds
    <3>2. CASE n # 0
      <4> DEFINE a == s.cursor + 1
                 b == s.cursor + n
      <4>1. srv' = Put(srv, RowsOf(s, a, b))
        BY <1>6, <3>2
      <4>2. a \in Nat \ {0} /\ b \in Nat /\ b <= Len(s.ids) /\ new = {s.ids[i] : i \in a .. b}
        BY <1>1, <1>3
      <4> DEFINE rows == RowsOf(s, a, b)
      <4>3. s.ids \in Seq(Fresh)
        BY WriterOf
      <4>4. DOMAIN rows = new /\ DOMAIN rows \subseteq Fresh
        <5> HIDE DEF s, a, b
        <5>1. QED
          BY <4>2, <4>3, SliceRows
      <4>5. srv' = Put(srv, rows)
        BY <4>1
      <4> HIDE DEF rows, a, b, new
      <4>6. QED
        BY <4>4, <4>5, RowsReach DEF Deferred
    <3>3. QED
      BY <3>1, <3>2
  <2>2. next.cursor \in s.cursor .. Len(s.ids)
    BY <1>1, <1>3, <1>6
  <2>3. \A p \in s.cursor + 1 .. next.cursor : s.ids[p] \in new
    BY <1>3, <1>6
  <2> HIDE DEF new, reached
  <2>4. QED
    BY <1>5, <1>6, <2>1, <2>2, <2>3, SliceWritten
<1>7. CASE /\ srv' = reached(size)
           /\ churn' = [churn EXCEPT !.writing[w].cursor = @ + size]
           /\ UNCHANGED drv
  <2> DEFINE next == [s EXCEPT !.cursor = s.cursor + size]
  <2> HIDE DEF size
  <2>1. /\ DOMAIN next = {"ids", "rows", "cursor", "failed"}
        /\ next.ids = s.ids /\ next.cursor = s.cursor + size
    BY <1>1
  <2>2. churn' = [churn EXCEPT !.writing = [@ EXCEPT ![w] = next]]
    BY <1>4, <1>7 DEF ChurnKeys
  <2>3. size \in 0 .. size /\ next.cursor \in s.cursor .. s.cursor + size
    BY <1>3, <2>1
  <2> HIDE DEF next, reached
  <2>4. /\ DOMAIN drv' = DOMAIN drv /\ \A v \in DOMAIN drv' : Remembered(drv'[v])
        /\ drv'["main"].note = drv["main"].note
    BY <1>4, <1>7
  <2>5. QED
    BY <1>6, <1>7, <2>1, <2>2, <2>3, <2>4
<1>8. CASE \E n \in StalledParts(size), working \in SUBSET (1 .. size) :
              /\ srv' = reached(Larger(n, LargestWorking(size,
                                            IF d.probed THEN {} ELSE working)))
              /\ Failing(working)
  <2>1. PICK n \in StalledParts(size), working \in SUBSET (1 .. size) :
              /\ srv' = reached(Larger(n, LargestWorking(size,
                                            IF d.probed THEN {} ELSE working)))
              /\ Failing(working)
    BY <1>8
  <2> DEFINE m == Larger(n, LargestWorking(size, IF d.probed THEN {} ELSE working))
             batch == NextBatch(d, size, working)
             next == IF batch = None THEN [s EXCEPT !.failed = TRUE] ELSE s
  <2> HIDE DEF size
  <2>2. n \in {0, size}
    BY DEF StalledParts
  <2>3. m \in 0 .. size
    <3>1. LargestWorking(size, IF d.probed THEN {} ELSE working) \in 0 .. size
      BY <1>3, Largest
    <3>2. QED
      BY <1>3, <2>2, <3>1 DEF Larger
  <2>4. batch # None => batch \in Nat \ {0}
    BY <1>1, <1>3, Batches
  <2>5. /\ srv' = reached(m)
        /\ drv' = [drv EXCEPT ![w].probed = TRUE,
                              ![w].batch = IF batch = None THEN @ ELSE batch]
        /\ churn' = [churn EXCEPT !.writing[w] = next]
    BY <2>1
  <2> HIDE DEF m, batch, reached, Failing
  <2>6. /\ DOMAIN drv' = DOMAIN drv /\ \A v \in DOMAIN drv \ {w} : drv'[v] = drv[v]
        /\ DOMAIN drv'[w] = DriverKeys
        /\ drv'[w].capacity = d.capacity /\ drv'[w].elements = d.elements
        /\ drv'[w].pending = d.pending /\ drv'[w].note = d.note
        /\ drv'[w].batch = IF batch = None THEN d.batch ELSE batch
    BY <1>1, <2>5 DEF Remembered, DriverKeys
  <2>7. /\ \A v \in DOMAIN drv' : Remembered(drv'[v])
        /\ drv'["main"].note = drv["main"].note
    <3>1. Remembered(drv'[w])
      BY <1>1, <1>2, <2>4, <2>6 DEF Remembered
    <3>2. QED
      BY <1>4, <2>6, <3>1
  <2>8. /\ DOMAIN next = {"ids", "rows", "cursor", "failed"}
        /\ next.ids = s.ids /\ next.cursor = s.cursor
    BY <1>1
  <2>9. churn' = [churn EXCEPT !.writing = [@ EXCEPT ![w] = next]]
    BY <1>4, <2>5 DEF ChurnKeys
  <2> HIDE DEF next
  <2>10. next.cursor \in s.cursor .. s.cursor + m
    BY <1>3, <2>3, <2>8
  <2>11. QED
    BY <1>6, <2>3, <2>5, <2>6, <2>7, <2>8, <2>9, <2>10
<1>9. QED
  BY <1>7, <1>8 DEF ValkeyWrite

(* A slice is written, by any driver.                                         *)
LEMMA WriteKeeps ==
    ASSUME DriversInv, NEW w, WriteSlice(w)
    PROVE  DriversInv'
PROOF
<1>1. /\ pc = "writes" /\ pc' = "writes" /\ UNCHANGED <<unit, plan>>
      /\ w \in DOMAIN churn.writing /\ IsWriting(w)
  BY DEF WriteSlice, Kept
<1>2. CASE unit.driver = "ValkeyDriver" /\ ValkeyWrite(w)
  BY <1>1, <1>2, ValkeyKeeps
<1>3. CASE churn' = [churn EXCEPT !.writing[w].failed = TRUE] /\ UNCHANGED <<srv, drv>>
  BY <1>1, <1>3, FailedKeeps
<1>4. CASE /\ unit.driver # "ValkeyDriver"
           /\ unit.driver = "MyVectorDriver"
                 => ~ RefusesRows(drv[w], Len(churn.writing[w].ids))
           /\ InOneStatement(w)
  BY <1>1, <1>4, PlainKeeps
<1>5. QED
  BY <1>2, <1>3, <1>4 DEF WriteSlice, InOneStatement

(* The driver that goes on has what the writers found out.                    *)
LEMMA Inheriting ==
    ASSUME DriversInv, pc = "writes"
    PROVE  /\ Remembered(Inherited(drv))
           /\ Inherited(drv).capacity = drv["main"].capacity
           /\ Inherited(drv).elements = drv["main"].elements
           /\ Inherited(drv).pending = drv["main"].pending
           /\ Inherited(drv).note = drv["main"].note
PROOF
<1> DEFINE batches == {drv[w].batch : w \in DOMAIN drv}
           least == CHOOSE n \in batches : \A m \in batches : n <= m
<1>1. "main" \in DOMAIN drv /\ \A w \in DOMAIN drv : Remembered(drv[w])
  BY Writing
<1>2. batches \subseteq Nat \ {0} /\ drv["main"].batch \in batches
  BY <1>1 DEF Remembered
<1>3. least \in Nat \ {0}
  <2> HIDE DEF batches
  <2>1. batches \subseteq Nat /\ batches # {}
    BY <1>2
  <2>2. \E n \in batches : \A m \in batches : n <= m
    BY <2>1, LeastNatural
  <2>3. least \in batches
    BY <2>2
  <2>4. QED
    BY <1>2, <2>3
<1> DEFINE newest == {drv[w].newest : w \in DOMAIN drv} \ {None}
           last == IF newest = {} THEN None
                   ELSE CHOOSE n \in newest : \A m \in newest : m <= n
<1>4. Inherited(drv) = [drv["main"] EXCEPT !.newest = last, !.batch = least]
  BY DEF Inherited
<1> HIDE DEF least, last
<1>5. QED
  BY <1>1, <1>3, <1>4 DEF Remembered, DriverKeys

(* When no writer has anything left, every row of the step is there.          *)
LEMMA AllWritten ==
    ASSUME DriversInv, pc = "writes", churn.todo = << >>, ~ AnyFailed,
           \A w \in DOMAIN churn.writing : ~ IsWriting(w)
    PROVE  Fresh \subseteq LiveIds /\ Cardinality(LiveIds) = unit.rows
PROOF
<1>1. ASSUME NEW id \in Fresh PROVE id \in LiveIds
  <2>1. SUFFICES ASSUME Underway(id) PROVE FALSE
    BY Writing DEF WritesHold
  <2>2. DOMAIN churn.todo = {}
    OBVIOUS
  <2>3. PICK w \in DOMAIN churn.writing :
               \E p \in churn.writing[w].cursor + 1 .. Len(churn.writing[w].ids) :
                  churn.writing[w].ids[p] = id
    BY <2>1, <2>2 DEF Underway
  <2>4. ~ (churn.writing[w].cursor < Len(churn.writing[w].ids))
    BY DEF IsWriting, AnyFailed
  <2>5. churn.writing[w].cursor \in Nat /\ Len(churn.writing[w].ids) \in Nat
    BY WriterOf
  <2>6. QED
    BY <2>3, <2>4, <2>5
<1>2. Fresh \subseteq LiveIds
  BY <1>1
<1>3. Cardinality(LiveIds) = unit.rows
  <2>1. /\ IsFiniteSet(LiveIds) /\ Cardinality(Fresh) = Doomed /\ Doomed \in Nat
        /\ unit.rows \in Nat
        /\ Cardinality(LiveIds \ Fresh) = unit.rows - Doomed
    BY Writing DEF WritesHold
  <2> DEFINE live == LiveIds
             new == Fresh
             rows == unit.rows
             n == Doomed
  <2>2. /\ IsFiniteSet(live) /\ Cardinality(new) = n /\ n \in Nat /\ rows \in Nat
        /\ Cardinality(live \ new) = rows - n /\ live \cap new = new
    BY <1>2, <2>1
  <2> HIDE DEF live, new, rows, n
  <2>3. Cardinality(live \ new) = Cardinality(live) - Cardinality(live \cap new)
    BY <2>2, FS_Difference
  <2>4. Cardinality(live) \in Nat
    BY <2>2, FS_CardinalityType
  <2>5. Cardinality(live) = rows
    <3>1. Cardinality(live \cap new) = n
      BY <2>2
    <3>2. rows - n = Cardinality(live) - n
      BY <2>2, <2>3, <3>1
    <3>3. QED
      BY <2>2, <2>4, <3>2
  <2>6. QED
    BY <2>5 DEF live, rows
<1>4. QED
  BY <1>2, <1>3

(* The row the driver is told to look for is one of the step's.               *)
LEMMA LastFresh ==
    ASSUME DriversInv, pc = "writes"
    PROVE  ToSet(churn.fresh) = Fresh /\ LastOf(ToSet(churn.fresh)) \in Fresh
PROOF
<1>1. /\ churn.fresh = [i \in 1 .. Doomed |-> churn.next - Doomed + i - 1]
      /\ churn.next \in Nat /\ Doomed \in Nat \ {0} /\ Fresh # {}
      /\ Fresh \subseteq 1 .. churn.next - 1 /\ unit.rows < churn.next
      /\ unit.rows \in Nat \ {0}
  BY Writing DEF WritesHold
<1>2. ToSet(churn.fresh) = Fresh
  <2> DEFINE n == Doomed
             base == churn.next - Doomed
  <2>1. /\ n \in Nat /\ base \in Int /\ Fresh = base .. base + n - 1
        /\ churn.fresh = [i \in 1 .. n |-> base + i - 1]
    BY <1>1 DEF Fresh
  <2> HIDE DEF n, base
  <2>2. ASSUME NEW id \in base .. base + n - 1 PROVE id \in ToSet(churn.fresh)
    <3>1. id - base + 1 \in 1 .. n
      BY <2>1
    <3>2. churn.fresh[id - base + 1] = id
      BY <2>1, <3>1
    <3>3. DOMAIN churn.fresh = 1 .. n
      BY <2>1
    <3>4. QED
      BY <3>1, <3>2, <3>3 DEF ToSet
  <2>3. ASSUME NEW id \in ToSet(churn.fresh) PROVE id \in base .. base + n - 1
    BY <2>1, <2>3 DEF ToSet
  <2>4. QED
    BY <2>1, <2>2, <2>3
<1>3. LastOf(Fresh) \in Fresh
  <2> DEFINE n == churn.next - 1
             new == Fresh
  <2>1. n \in Nat /\ new \subseteq 1 .. n /\ new # {}
    BY <1>1
  <2> HIDE DEF n, new
  <2>2. LastOf(new) \in new
    BY <2>1, Greatest
  <2>3. QED
    BY <2>2 DEF new
<1>4. QED
  BY <1>2, <1>3

(* The writers are done: the step's rows have their new ids.                  *)
LEMMA WrittenKeeps ==
    ASSUME DriversInv, Written
    PROVE  DriversInv'
PROOF
<1>1. /\ pc = "writes" /\ \A w \in DOMAIN churn.writing : ~ IsWriting(w)
      /\ churn.todo = << >> \/ AnyFailed
  BY DEF Written
<1>2. CASE AnyFailed
  BY <1>2, Ends DEF Written
<1>3. CASE ~ AnyFailed
  <2> DEFINE rows == Ascending(churn.doomed)
             names == [i \in churn.doomed |->
                          churn.fresh[CHOOSE n \in DOMAIN rows : rows[n] = i]]
             map == Onto(names, churn.map)
             last == LastOf(ToSet(churn.fresh))
  <2>1. /\ pc' = "sync_writes" /\ UNCHANGED <<unit, plan, srv>>
        /\ drv' = [main |-> Inherited(drv)]
        /\ churn' = [churn EXCEPT !.map = map, !.doomed = {}, !.todo = << >>,
                                  !.writing = << >>]
        /\ poll' = WaitFor(churn.rows, None, last)
    BY <1>3 DEF Written, GoTo, Kept
  <2>2. DOMAIN map = churn.doomed \cup DOMAIN churn.map
    BY DEF Onto
  <2> HIDE DEF map
  <2>3. /\ DOMAIN churn = ChurnKeys /\ churn.rows = unit.rows /\ unit \in Units
        /\ unit.rows \in Nat \ {0}
        /\ churn.next \in Nat /\ unit.rows < churn.next
        /\ LiveIds \subseteq 1 .. churn.next - 1
        /\ Unchurned \ churn.doomed \subseteq LiveIds
        /\ Fresh \subseteq 1 .. churn.next - 1
    BY <1>1, Writing DEF WritesHold
  <2>4. /\ DOMAIN churn' = ChurnKeys /\ churn'.rows = churn.rows /\ churn'.map = map
        /\ churn'.next = churn.next /\ churn'.doomed = {}
        /\ churn'.fresh = churn.fresh /\ churn'.ended = churn.ended
    BY <2>1, <2>3 DEF ChurnKeys
  <2>5. Unchurned' = Unchurned \ churn.doomed
    BY <2>1, <2>2, <2>4 DEF Unchurned
  <2>6. Fresh \subseteq LiveIds /\ Cardinality(LiveIds) = unit.rows
    BY <1>1, <1>3, AllWritten
  <2>7. last \in LiveIds /\ last # None
    <3>1. last \in Fresh
      BY <1>1, LastFresh
    <3> HIDE DEF last
    <3>2. last \in Int
      BY <2>3, <3>1
    <3>3. QED
      BY <2>6, <3>1, <3>2, DriversAssumption
  <2>8. LiveIds' = LiveIds /\ LastOf(ToSet(churn'.fresh)) = last
    BY <2>1, <2>4 DEF LiveIds
  <2> HIDE DEF last
  <2>9. /\ pc \notin {"idle"} \cup Early /\ pc \in Renewing /\ pc' \in Renewing
        /\ pc' \in Entire /\ pc' \notin Lacking
    BY <1>1, <2>1 DEF Early, Renewing, Entire, Lacking
  <2>10. /\ "main" \in DOMAIN drv' /\ drv'["main"] = Inherited(drv)
         /\ \A w \in DOMAIN drv' : Remembered(drv'[w])
    BY <1>1, <2>1, Inheriting
  <2>11. UnitShape'
    <3>1. drv'["main"].note = drv["main"].note
      BY <1>1, <2>10, Inheriting
    <3>2. DOMAIN srv = ServerKeys /\ IsFiniteSet(LiveIds)
          /\ (drv["main"].note \in {"row found", "row gone"}
                 => unit.driver = "MongoDriver")
      BY <1>1, Writing
    <3>3. QED
      BY <2>1, <2>8, <2>9, <2>10, <3>1, <3>2, ShapeKeeps
  <2>12. LoadHolds'
    BY <2>1 DEF LoadHolds, Ahead, Serving
  <2>13. ChurnHolds'
    <3>1. Unchurned' \subseteq LiveIds' /\ Cardinality(LiveIds') = unit'.rows
      BY <2>1, <2>3, <2>5, <2>6, <2>8
    <3>2. QED
      BY <2>1, <2>3, <2>4, <2>7, <2>8, <2>9, <3>1 DEF ChurnHolds
  <2>14. ValkeyHolds'
    <3>1. SUFFICES ASSUME unit.driver = "ValkeyDriver" PROVE ValkeyHolds'
      BY <2>1 DEF ValkeyHolds
    <3>2. poll' = Waiting(unit.rows, "equal")
      BY <2>1, <2>3, <3>1 DEF WaitFor
    <3>3. DOMAIN poll' = PollKeys /\ poll'.how = "equal" /\ poll'.expected = unit.rows
      BY <3>2 DEF Waiting, PollKeys
    <3>4. Good => srv.index \subseteq LiveIds
      BY <1>1, <2>9, <3>1 DEF DriversInv, ValkeyHolds
    <3>5. QED
      BY <2>1, <2>4, <2>8, <3>3, <3>4 DEF ValkeyHolds, Filling, Serving, Good
  <2>15. MongoHolds'
    <3>1. SUFFICES ASSUME unit.driver = "MongoDriver" PROVE MongoHolds'
      BY <2>1 DEF MongoHolds
    <3>2. poll' = [absent |-> None, present |-> last, gone |-> FALSE, said |-> "none"]
      BY <2>1, <3>1 DEF WaitFor
    <3>3. DOMAIN poll' = MongoPoll /\ poll'.present = last /\ poll'.absent = None
      BY <3>2 DEF MongoPoll
    <3>4. QED
      BY <2>1, <2>7, <2>8, <3>3 DEF MongoHolds
  <2>16. GraphHolds'
    BY <1>1, <2>1, <2>8, <2>9, <2>10, Inheriting, GraphStays
  <2>17. QED
    BY <2>11, <2>12, <2>13, <2>14, <2>15, <2>16 DEF DriversInv
<1>4. QED
  BY <1>2, <1>3

-----------------------------------------------------------------------------
(* It holds before the first unit.                                            *)
LEMMA InitHolds ==
    ASSUME StateInit
    PROVE  DriversInv
PROOF
<1>1. unit = None /\ pc = "idle" /\ srv = EmptyServer /\ plan \in Seq(Requests)
  BY DriversAssumption DEF StateInit
<1>2. UnitShape
  BY <1>1, EmptyKeys, FS_EmptySet DEF UnitShape, LiveIds
<1>3. LoadHolds /\ ChurnHolds
  BY <1>1 DEF LoadHolds, ChurnHolds, Ahead, Serving, Renewing, Entire, Lacking
<1>4. ValkeyHolds /\ GraphHolds /\ MongoHolds
  BY <1>1 DEF ValkeyHolds, GraphHolds, MongoHolds
<1>5. QED
  BY <1>2, <1>3, <1>4 DEF DriversInv

(* Scoring the filters reads the server,                                      *)
LEMMA FiltersKeep ==
    ASSUME DriversInv,
           \/ ScoreFilters \/ FileTruth \/ CachedTruth \/ ComputeTruth \/ KeepTruth
           \/ Score
    PROVE  DriversInv'
PROOF
<1>1. CASE ScoreFilters \/ FileTruth \/ CachedTruth
  <2>1. pc = "filters" /\ pc' = pc /\ UNCHANGED <<unit, srv, drv, plan>>
    BY <1>1 DEF ScoreFilters, FileTruth, CachedTruth, AtTruth, TruthVars, Kept
  <2>2. QED
    BY <2>1, ServingKeeps DEF Serving
<1>2. CASE ComputeTruth
  <2>1. pc = "filters" /\ pc' = "truth_kept" /\ UNCHANGED <<unit, srv, drv, plan>>
    BY <1>2 DEF ComputeTruth, AtTruth, TruthVars, Kept, GoTo
  <2>2. QED
    BY <2>1, ServingKeeps DEF Serving
<1>3. CASE KeepTruth
  <2>1. pc = "truth_kept" /\ pc' = "filters" /\ UNCHANGED <<unit, srv, drv, plan>>
    BY <1>3 DEF KeepTruth, TruthVars, Kept, GoTo
  <2>2. QED
    BY <2>1, ServingKeeps DEF Serving
<1>4. CASE Score
  <2>1. CASE UnitEnds
    BY <2>1, Ends
  <2>2. CASE ~ UnitEnds
    <3>1. pc = "filters" /\ pc' = pc /\ UNCHANGED <<unit, srv, drv, plan>>
      BY <1>4, <2>2 DEF Score, Kept
    <3>2. QED
      BY <3>1, ServingKeeps DEF Serving
  <2>3. QED
    BY <2>1, <2>2
<1>5. QED
  BY <1>1, <1>2, <1>3, <1>4

(* and so does the window of wait counters.                                   *)
LEMMA WindowKeeps ==
    ASSUME DriversInv,
           WindowOpens \/ ServerCounts \/ CountersReset \/ WindowCloses
    PROVE  DriversInv'
PROOF
<1>1. /\ UNCHANGED <<unit, srv, drv, plan>> /\ pc \in Serving
      /\ pc' \in Serving \cup {"done"}
  BY DEF WindowOpens, ServerCounts, CountersReset, WindowCloses, Serving, GoTo, Kept,
         WindowVars
<1>2. QED
  BY <1>1, ServingKeeps

(* The columns of the rows come from the cache directory.                     *)
LEMMA CtagsKeep ==
    ASSUME DriversInv, CachedCtags \/ ComputeCtags \/ KeepCtags
    PROVE  DriversInv'
PROOF
<1>1. UNCHANGED <<unit, srv, drv, plan>> /\ pc \in Early /\ pc' \in Early
  BY DEF CachedCtags, ComputeCtags, KeepCtags, HaveCtags, GoTo, Kept, Early, serverVars
<1>2. QED
  BY <1>1, EarlyKeeps

(* Every step keeps the invariant.                                            *)
LEMMA StepKeeps ==
    ASSUME DriversInv, [DriversNext]_unitVars
    PROVE  DriversInv'
PROOF
<1>1. CASE StartUnit
  BY <1>1, StartKeeps
<1>2. CASE CachedCtags \/ ComputeCtags \/ KeepCtags
  BY <1>2, CtagsKeep
<1>3. CASE Killed \/ UnitDone
  BY <1>3, Ends DEF Killed, UnitDone
<1>4. CASE IndexFollows
  BY <1>4, FollowingKeeps
<1>5. CASE SqlNext
  BY <1>5, SchemasKeep, IndexesKeep, RepairsKeep DEF SqlNext
<1>6. CASE MyVectorNext
  BY <1>6, SchemasKeep, IndexesKeep, RefreshKeeps, RepairsKeep DEF MyVectorNext
<1>7. CASE MongoNext
  BY <1>7, SchemasKeep, IndexesKeep, WaitsKeep, MongoWaitKeeps DEF MongoNext
<1>8. CASE ValkeyNext
  BY <1>8, SchemasKeep, IndexesKeep, WaitsKeep, MutationsKeep DEF ValkeyNext
<1>9. CASE Load
  BY <1>9, LoadBegins
<1>10. CASE \E t \in {1, 2} : LoadRows(t)
  BY <1>10, RowsWritten
<1>11. CASE Loaded
  BY <1>11, LoadEnds
<1>12. CASE \/ ScoreFilters \/ FileTruth \/ CachedTruth \/ ComputeTruth \/ KeepTruth
            \/ Score
  BY <1>12, FiltersKeep
<1>13. CASE WindowOpens \/ ServerCounts \/ CountersReset \/ WindowCloses
  BY <1>13, WindowKeeps
<1>14. CASE StartChurn
  BY <1>14, ChurnBegins
<1>15. CASE NothingToSync
  BY <1>15, NoWait
<1>16. CASE PickVictims
  BY <1>16, VictimsKeep
<1>17. CASE DeleteIds
  BY <1>17, DeletesKeep
<1>18. CASE AwaitDeletes
  BY <1>18, AwaitKeeps
<1>19. CASE Reinsert
  BY <1>19, ReinsertKeeps
<1>20. CASE \E w \in {"main", "first", "second"} : TakeSlice(w) \/ WriteSlice(w)
  BY <1>20, TakeKeeps, WriteKeeps
<1>21. CASE Written
  BY <1>21, WrittenKeeps
<1>22. CASE ScoreChurn
  BY <1>22, ScoreKeeps
<1>23. CASE NoRepair
  BY <1>23, RepairsKeep
<1>24. CASE UNCHANGED unitVars
  BY <1>24, StutterKeeps
<1>25. QED
  BY <1>1, <1>2, <1>3, <1>4, <1>5, <1>6, <1>7, <1>8, <1>9, <1>10, <1>11, <1>12, <1>13,
     <1>14, <1>15, <1>16, <1>17, <1>18, <1>19, <1>20, <1>21, <1>22, <1>23, <1>24
     DEF DriversNext

(* However units follow one another, whatever order the threads of a load and *)
(* the writers of a step work in, and whenever an index follows its table,    *)
(* what the driver remembers and where the harness is tell what the server    *)
(* holds (ops.py's order of calls over the drivers).                          *)
THEOREM UnitKnowsServer == DriversSpec => []DriversInv
PROOF
<1>1. StateInit => DriversInv
  BY InitHolds
<1>2. DriversInv /\ [DriversNext]_unitVars => DriversInv'
  BY StepKeeps
<1>3. QED
  BY <1>1, <1>2, PTL DEF DriversSpec

(* The invariant says that what is scored as settled is whole,                *)
LEMMA SettledNow ==
    ASSUME DriversInv
    PROVE  SettledIsWhole
PROOF
<1>1. ASSUME pc = "synced_writes", unit.driver = "ValkeyDriver",
             churn.ended \subseteq {"fell to the count", "reached the count"}
      PROVE  srv.index = LiveIds /\ Cardinality(LiveIds) = churn.rows
  <2>1. pc # "idle" /\ pc \in Renewing /\ pc \in Entire
    BY <1>1 DEF Renewing, Entire
  <2>2. Good
    BY <1>1 DEF Good
  <2>3. QED
    BY <1>1, <2>1, <2>2 DEF DriversInv, ValkeyHolds, ChurnHolds
<1>2. ASSUME pc = "synced_writes", unit.driver = "MyVectorDriver"
      PROVE  LiveIds \subseteq srv.index
  BY <1>2 DEF DriversInv, GraphHolds
<1>3. ASSUME pc \in {"synced_writes", "synced_deletes"},
             drv["main"].note \in {"row found", "row gone"}
      PROVE  unit.driver = "MongoDriver" /\ pc # "idle"
  BY <1>3 DEF DriversInv, UnitShape, Early
<1>4. ASSUME pc = "synced_writes", drv["main"].note = "row found"
      PROVE  LastOf(ToSet(churn.fresh)) \in srv.index
  BY <1>3, <1>4 DEF DriversInv, MongoHolds
<1>5. ASSUME pc = "synced_deletes", drv["main"].note = "row gone"
      PROVE  CurrentId(LastOf(churn.doomed)) \notin srv.index
  <2>1. LastOf(churn.doomed) \notin srv.index
    BY <1>3, <1>5 DEF DriversInv, MongoHolds
  <2>2. pc \in Renewing /\ churn.doomed # {} /\ churn.doomed \subseteq Unchurned
    BY <1>5 DEF DriversInv, ChurnHolds, Renewing, Lacking
  <2>3. LastOf(churn.doomed) \in Unchurned
    BY <2>2, LastDoomed
  <2>4. CurrentId(LastOf(churn.doomed)) = LastOf(churn.doomed)
    BY <2>3 DEF CurrentId, Unchurned
  <2>5. QED
    BY <2>1, <2>4
<1>6. QED
  BY <1>1, <1>2, <1>4, <1>5 DEF SettledIsWhole

(* A churn step whose wait ended on its count is scored over an index that is *)
(* whole, and a row the driver says it found, or saw gone, is there, or gone: *)
(* for any rows, writers and slices, however often a reply fails, a count     *)
(* stalls or a statement half done is written again (wait_index_synced of     *)
(* myvector.py and mongo.py, _wait_for_mutations of valkey.py).               *)
THEOREM ScoredWhole == DriversSpec => []SettledIsWhole
PROOF
<1>1. DriversInv => SettledIsWhole
  BY SettledNow
<1>2. QED
  BY <1>1, UnitKnowsServer, PTL

(* The invariant says that the graph is not overfull.                         *)
LEMMA FitsNow ==
    ASSUME DriversInv
    PROVE  GraphFits
PROOF
<1>1. SUFFICES ASSUME unit # None, unit.driver = "MyVectorDriver", unit.threads = 1,
                      srv.built
               PROVE  Cardinality(srv.index) <= srv.capacity
  BY DEF GraphFits
<1>2. pc # "idle"
  BY <1>1 DEF DriversInv, UnitShape
<1>3. pc \notin Early \cup Filling \cup Ahead
  BY <1>1, <1>2, EmptyKeys DEF DriversInv, UnitShape, GraphHolds, Ahead
<1>4. pc \in Serving \cup Renewing \cup Repairing
  BY <1>2, <1>3 DEF DriversInv, UnitShape
<1>5. QED
  BY <1>1, <1>2, <1>4 DEF DriversInv, GraphHolds, Capacitated

(* The server never ends on a graph that is full: with one writer the driver  *)
(* refuses the rows that would not fit, for any capacity, slices and steps    *)
(* (myvector.insert_rows).                                                    *)
THEOREM NeverOverfull == DriversSpec => []GraphFits
PROOF
<1>1. DriversInv => GraphFits
  BY FitsNow
<1>2. QED
  BY <1>1, UnitKnowsServer, PTL

-----------------------------------------------------------------------------
(* The wait counters. A reading of the one event a server counts: under its   *)
(* name, or left out while it is nothing, with or without a time.             *)
Reading(events, count, timed) ==
    /\ DOMAIN events \subseteq {"io"}
    /\ "io" \in DOMAIN events
          => events["io"] = W!Event(count, IF timed THEN count ELSE None)
    /\ "io" \notin DOMAIN events => count = 0

HappenedIn(waits, happened) ==
    \A i \in DOMAIN waits.events : waits.events[i][2].count \in 1 .. happened

(* Every engine but Postgres says how long its waits took.                    *)
IsTimed == unit.driver # "PostgresDriver"

(* What the reading of a server is, where it is one.                          *)
LEMMA ReadingOf ==
    ASSUME NEW count \in Nat, Snapshot(count, TRUE).snapshot # None
    PROVE  Reading(Snapshot(count, TRUE).snapshot.events, count, IsTimed)
PROOF
<1> DEFINE events == [io |-> W!Event(count, count)]
           read == Snapshot(count, TRUE)
<1>1. DOMAIN events = {"io"} /\ events["io"] = W!Event(count, count)
      /\ events["io"].count = count
  BY DEF W!Event
<1>2. CASE unit.driver = "PostgresDriver"
  <2> DEFINE sample == [io |-> W!Event(count, None)]
  <2>1. DOMAIN sample = {"io"} /\ sample["io"] = W!Event(count, None)
    OBVIOUS
  <2>2. read = W!Read([events |-> sample, samples |-> count])
    BY <1>2 DEF Snapshot
  <2> HIDE DEF sample, read
  <2>3. read.snapshot.events = sample
    BY <2>2 DEF W!Read
  <2>4. Reading(sample, count, FALSE)
    BY <2>1 DEF Reading
  <2>5. IsTimed = FALSE
    BY <1>2 DEF IsTimed
  <2>6. QED
    BY <2>3, <2>4, <2>5 DEF read
<1>3. CASE unit.driver \notin {"PostgresDriver", "MongoDriver"}
  <2>1. Reading(read.snapshot.events, count, TRUE)
    <3>1. CASE unit.driver = "ValkeyDriver"
      <4> DEFINE server == [broken |-> FALSE, events |-> events, latest |-> {},
                            threshold |-> 0]
      <4>1. read = W!ValkeySnapshot(server, 0)
        BY <3>1 DEF Snapshot
      <4>2. server.broken = FALSE /\ server.events = events
        OBVIOUS
      <4> HIDE DEF server, read, events
      <4>3. read.snapshot.events = events
        BY <4>1, <4>2 DEF W!ValkeySnapshot, W!Read
      <4>4. QED
        BY <1>1, <4>3 DEF Reading
    <3>2. CASE unit.driver # "ValkeyDriver"
      <4> DEFINE server == [broken |-> FALSE, schema |-> TRUE, mutex |-> None,
                            timed |-> {"io"}, synch |-> {}, events |-> events]
                 kept == W!Restrict(events, {n \in DOMAIN events :
                                               events[n].count > 0 /\ n # "idle"})
      <4>1. read = W!MysqlSnapshot(server)
        BY <1>3, <3>2 DEF Snapshot
      <4>2. server.broken = FALSE /\ server.schema = TRUE /\ server.timed # {}
            /\ server.events = events
        OBVIOUS
      <4> HIDE DEF server, read, events
      <4>3. read.snapshot.events = kept
        BY <4>1, <4>2 DEF W!MysqlSnapshot, W!Read
      <4>4. DOMAIN kept = {n \in {"io"} : count > 0}
            /\ \A n \in DOMAIN kept : kept[n] = events[n]
        BY <1>1 DEF W!Restrict
      <4> HIDE DEF kept
      <4>5. "io" \notin DOMAIN kept => count = 0
        BY <4>4
      <4>6. QED
        BY <1>1, <4>3, <4>4, <4>5 DEF Reading
    <3>3. QED
      BY <3>1, <3>2
  <2>2. IsTimed = TRUE
    BY <1>3 DEF IsTimed
  <2>3. QED
    BY <2>1, <2>2
<1>4. CASE unit.driver = "MongoDriver"
  <2> DEFINE status == [waits |-> [io |-> count], micros |-> [io |-> count],
                        gauges |-> None]
             mongot == W!MongotMetrics(None)
             locks == [l \in DOMAIN status.waits \cup DOMAIN status.micros |->
                          W!Event(IF l \in DOMAIN status.waits THEN status.waits[l] ELSE 0,
                                  IF l \in DOMAIN status.micros THEN status.micros[l] ELSE 0)]
  <2>1. read = W!MongoSnapshot(status, mongot)
    BY <1>4 DEF Snapshot
  <2>2. DOMAIN status.waits = {"io"} /\ DOMAIN status.micros = {"io"}
        /\ status.waits["io"] = count /\ status.micros["io"] = count
    OBVIOUS
  <2>3. read.snapshot # None
    OBVIOUS
  <2> HIDE DEF status, mongot, read
  <2>4. status # None
    <3>1. SUFFICES ASSUME status = None PROVE FALSE
      OBVIOUS
    <3>2. read = W!Unread("serverStatus failed")
      BY <2>1, <3>1 DEF W!MongoSnapshot
    <3>3. QED
      BY <2>3, <3>2 DEF W!Unread
  <2>5. read.snapshot.events = locks
    BY <2>1, <2>4 DEF W!MongoSnapshot, W!Read
  <2>6. DOMAIN locks = {"io"} /\ locks["io"] = W!Event(count, count)
    BY <2>2
  <2> HIDE DEF locks
  <2>7. Reading(locks, count, TRUE)
    BY <2>6 DEF Reading
  <2>8. IsTimed = TRUE
    BY <1>4 DEF IsTimed
  <2>9. QED
    BY <2>5, <2>7, <2>8 DEF read
<1>5. QED
  BY <1>2, <1>3, <1>4

(* The module of the waits counts as this one does.                           *)
LEMMA SameCount ==
    ASSUME NEW S
    PROVE  W!Cardinality(S) = Cardinality(S)
PROOF
<1>1. QED
  BY Zenon DEF W!Cardinality, Cardinality

(* Of one row at most, the ranking has that row and no other.                 *)
LEMMA OneRanked ==
    ASSUME NEW rows, DOMAIN rows \subseteq {"io"}, NEW top, NEW source,
           NEW i \in DOMAIN W!Summarise(rows, source, top, NameOrder).events
    PROVE  /\ "io" \in DOMAIN rows
           /\ W!Summarise(rows, source, top, NameOrder).events[i][2] = rows["io"]
PROOF
<1> DEFINE timed == \E n \in DOMAIN rows : rows[n].wait # None
           by == IF timed THEN "wait" ELSE "count"
           ranked == W!Ranked(rows, by, NameOrder)
<1>1. W!Summarise(rows, source, top, NameOrder).events =
         [n \in {m \in DOMAIN ranked : m <= top} |-> <<ranked[n], rows[ranked[n]]>>]
  BY DEF W!Summarise
<1> HIDE DEF ranked, by
<1>2. i \in DOMAIN ranked
      /\ W!Summarise(rows, source, top, NameOrder).events[i][2] = rows[ranked[i]]
  BY <1>1
<1>3. DOMAIN ranked = 1 .. Cardinality(DOMAIN rows)
  BY SameCount, Zenon DEF ranked, W!Ranked
<1>4. DOMAIN rows = {"io"}
  <2>1. CASE DOMAIN rows = {}
    <3>1. Cardinality(DOMAIN rows) = 0
      BY <2>1, FS_EmptySet
    <3>2. QED
      BY <1>2, <1>3, <3>1
  <2>2. QED
    BY <2>1
<1>5. i = 1
  <2>1. Cardinality(DOMAIN rows) = 1
    BY <1>4, FS_Singleton
  <2>2. QED
    BY <1>2, <1>3, <2>1
<1>6. ranked[i] = "io"
  <2>1. W!Rank("io", rows, by, NameOrder) = i
    <3> DEFINE above == {m \in DOMAIN rows :
                            \/ W!Weight(rows[m], by) > W!Weight(rows["io"], by)
                            \/ /\ W!Weight(rows[m], by) = W!Weight(rows["io"], by)
                               /\ NameOrder[m] <= NameOrder["io"]}
    <3>1. above = {"io"}
      BY <1>4 DEF NameOrder
    <3>2. W!Rank("io", rows, by, NameOrder) = Cardinality(above)
      BY SameCount, Zenon DEF W!Rank
    <3> HIDE DEF above
    <3>3. QED
      BY <1>5, <3>1, <3>2, FS_Singleton
  <2>2. ranked[i] = CHOOSE n \in DOMAIN rows : W!Rank(n, rows, by, NameOrder) = i
    BY <1>2, <1>3, Zenon DEF ranked, W!Ranked
  <2>3. QED
    BY <1>4, <2>1, <2>2
<1>7. QED
  BY <1>2, <1>4, <1>6

(* A delta publishes what moved, and nothing once a counter went backwards.   *)
LEMMA DeltaHappened ==
    ASSUME NEW before, NEW after, NEW b \in Nat, NEW a \in Nat, NEW h \in Nat, a <= b + h,
           NEW timed \in BOOLEAN, NEW source,
           Reading(before, b, timed), Reading(after, a, timed),
           W!CounterDelta(before, after, source, NameOrder).snapshot # None
    PROVE  HappenedIn(W!CounterDelta(before, after, source, NameOrder).snapshot, h)
PROOF
<1> DEFINE moves == [n \in DOMAIN after |-> W!Moved(before, after, n)]
           moved == W!Restrict(moves, {n \in DOMAIN moves : W!IsMove(moves[n])})
           delta == W!CounterDelta(before, after, source, NameOrder)
           sum == W!Summarise(moved, source, W!TopEvents, NameOrder)
<1>1. None \notin Int
  BY DriversAssumption
<1>2. ~ (\E n \in DOMAIN moves : W!IsBackwards(moves[n])) /\ delta.snapshot = sum
  BY DEF W!CounterDelta, W!Unread, W!Read
<1>3. DOMAIN moves = DOMAIN after /\ DOMAIN after \subseteq {"io"}
  BY DEF Reading
<1>4. "io" \in DOMAIN after => moves["io"] = W!Moved(before, after, "io")
  OBVIOUS
<1> HIDE DEF moves
<1>5. DOMAIN moved \subseteq {"io"} /\ (\A n \in DOMAIN moved : moved[n] = moves[n])
      /\ \A n \in DOMAIN moved : n \in DOMAIN after /\ W!IsMove(moves[n])
  BY <1>3 DEF W!Restrict
<1> HIDE DEF moved, sum, delta
<1>6. ASSUME NEW i \in DOMAIN sum.events PROVE sum.events[i][2].count \in 1 .. h
  <2>1. "io" \in DOMAIN moved /\ sum.events[i][2] = moved["io"]
    BY <1>5, OneRanked DEF sum
  <2>2. /\ "io" \in DOMAIN after /\ sum.events[i][2] = W!Moved(before, after, "io")
        /\ W!IsMove(W!Moved(before, after, "io"))
        /\ ~ W!IsBackwards(W!Moved(before, after, "io"))
    BY <1>2, <1>3, <1>4, <1>5, <2>1
  <2>3. after["io"] = W!Event(a, IF timed THEN a ELSE None)
    BY <2>2 DEF Reading
  <2>4. \/ W!Then(before, "io") = W!Event(b, IF timed THEN b ELSE None)
        \/ b = 0 /\ W!Then(before, "io") = W!Event(None, None)
    BY DEF Reading, W!Then, W!NoEvent
  <2>5. W!Moved(before, after, "io") = W!Event(a - b, IF timed THEN a - b ELSE None)
    BY <1>1, <2>3, <2>4 DEF W!Moved, W!Minus, W!Event
  <2>6. a - b # 0 /\ ~ (a - b < 0)
    BY <1>1, <2>2, <2>5 DEF W!IsMove, W!IsBackwards, W!Event
  <2>7. sum.events[i][2].count = a - b
    BY <2>2, <2>5 DEF W!Event
  <2>8. QED
    BY <2>6, <2>7
<1>7. QED
  BY <1>2, <1>6 DEF HappenedIn, delta

(* A reading that failed is none.                                             *)
LEMMA NoReading ==
    ASSUME NEW count
    PROVE  Snapshot(count, FALSE).snapshot = None
PROOF
<1> DEFINE events == [io |-> W!Event(count, count)]
           read == Snapshot(count, FALSE)
<1>1. CASE unit.driver = "PostgresDriver"
  <2>1. read = W!PostgresSample(None)
    BY <1>1 DEF Snapshot
  <2> HIDE DEF read
  <2>2. read.snapshot = None
    BY <2>1 DEF W!PostgresSample, W!Unread
  <2>3. QED
    BY <2>2 DEF read
<1>2. CASE unit.driver = "ValkeyDriver"
  <2> DEFINE server == [broken |-> TRUE, events |-> events, latest |-> {},
                        threshold |-> 0]
  <2>1. read = W!ValkeySnapshot(server, 0)
    BY <1>2 DEF Snapshot
  <2>2. server.broken = TRUE
    OBVIOUS
  <2> HIDE DEF read, server
  <2>3. read.snapshot = None
    BY <2>1, <2>2 DEF W!ValkeySnapshot, W!Unread
  <2>4. QED
    BY <2>3 DEF read
<1>3. CASE unit.driver = "MongoDriver"
  <2> DEFINE mongot == W!MongotMetrics(None)
  <2>1. read = W!MongoSnapshot(None, mongot)
    BY <1>3 DEF Snapshot
  <2> HIDE DEF read, mongot
  <2>2. read.snapshot = None
    BY <2>1 DEF W!MongoSnapshot, W!Unread
  <2>3. QED
    BY <2>2 DEF read
<1>4. CASE unit.driver \notin {"PostgresDriver", "ValkeyDriver", "MongoDriver"}
  <2> DEFINE server == [broken |-> TRUE, schema |-> TRUE, mutex |-> None,
                        timed |-> {"io"}, synch |-> {}, events |-> events]
  <2>1. read = W!MysqlSnapshot(server)
    BY <1>4 DEF Snapshot
  <2>2. server.broken = TRUE
    OBVIOUS
  <2> HIDE DEF read, server
  <2>3. read.snapshot = None
    BY <2>1, <2>2 DEF W!MysqlSnapshot, W!Unread
  <2>4. QED
    BY <2>3 DEF read
<1>5. QED
  BY <1>1, <1>2, <1>3, <1>4

(* Whatever the engine puts around its counters, the waits are of the delta.  *)
LEMMA WaitsAreDelta ==
    ASSUME NEW before, NEW after, Delta(before, after).snapshot # None
    PROVE  \E source :
              LET delta == W!CounterDelta(before.events, after.events, source, NameOrder)
              IN /\ delta.snapshot # None
                 /\ WaitsOf(Delta(before, after).snapshot) = delta.snapshot
PROOF
<1> DEFINE counted(source) ==
               W!CounterDelta(before.events, after.events, source, NameOrder)
           out == Delta(before, after)
<1>1. CASE unit.driver = "PostgresDriver"
  <2>1. out = W!PostgresDelta(before, after, NameOrder)
    BY <1>1 DEF Delta
  <2> DEFINE delta == counted("postgres")
  <2>2. out = IF after.samples - before.samples <= 0
              THEN W!Unread("no pg_stat_activity sample was taken") ELSE delta
    BY <2>1 DEF W!PostgresDelta
  <2> HIDE DEF delta, out
  <2>3. out.snapshot # None
    BY DEF out
  <2>4. out = delta
    BY <2>2, <2>3 DEF W!Unread
  <2>5. WaitsOf(out.snapshot) = delta.snapshot /\ delta.snapshot # None
    BY <1>1, <2>3, <2>4 DEF WaitsOf
  <2>6. QED
    BY <2>5 DEF delta, out
<1>2. CASE unit.driver = "ValkeyDriver"
  <2> DEFINE delta == counted("valkey")
             latest == IF after.latest = None THEN "not readable"
                       ELSE IF after.threshold \in {None, 0} THEN "monitor is off"
                       ELSE {r \in after.latest : r.at >= before.at}
             whole == [waits |-> delta.snapshot, latest |-> latest]
  <2>1. out = W!ValkeyDelta(before, after, NameOrder)
    BY <1>2 DEF Delta
  <2>2. out = IF delta.snapshot = None THEN delta ELSE W!Read(whole)
    BY <2>1 DEF W!ValkeyDelta
  <2>3. whole.waits = delta.snapshot
    OBVIOUS
  <2> HIDE DEF delta, out, whole
  <2>4. out.snapshot # None
    BY DEF out
  <2>5. delta.snapshot # None /\ out.snapshot = whole
    BY <2>2, <2>4 DEF W!Read
  <2>6. WaitsOf(out.snapshot) = delta.snapshot
    BY <1>2, <2>3, <2>5 DEF WaitsOf
  <2>7. QED
    BY <2>5, <2>6 DEF delta, out
<1>3. CASE unit.driver = "MongoDriver"
  <2> DEFINE delta == counted("mongodb")
             grown == IF None \in {before.mongot, after.mongot}
                      THEN "not read at both ends"
                      ELSE W!Grown(before.mongot, after.mongot)
             whole == [waits |-> delta.snapshot, gauges |-> after.gauges,
                       mongot |-> grown]
  <2>1. out = W!MongoDelta(before, after, NameOrder)
    BY <1>3 DEF Delta
  <2>2. out = IF delta.snapshot = None THEN delta ELSE W!Read(whole)
    BY <2>1, Zenon DEF W!MongoDelta
  <2>3. whole.waits = delta.snapshot
    OBVIOUS
  <2> HIDE DEF delta, out, whole
  <2>4. out.snapshot # None
    BY DEF out
  <2>5. delta.snapshot # None /\ out.snapshot = whole
    BY <2>2, <2>4 DEF W!Read
  <2>6. WaitsOf(out.snapshot) = delta.snapshot
    BY <1>3, <2>3, <2>5 DEF WaitsOf
  <2>7. QED
    BY <2>5, <2>6 DEF delta, out
<1>4. CASE unit.driver \notin {"PostgresDriver", "ValkeyDriver", "MongoDriver"}
  <2> DEFINE delta == counted("mysql")
             grown == W!Grown(before.mutex, after.mutex)
             whole == [waits |-> delta.snapshot, synch |-> after.synch, mutex |-> grown]
  <2>1. out = W!MysqlDelta(before, after, NameOrder)
    BY <1>4 DEF Delta
  <2>2. out = IF delta.snapshot = None THEN delta ELSE W!Read(whole)
    BY <2>1, Zenon DEF W!MysqlDelta
  <2>3. whole.waits = delta.snapshot
    OBVIOUS
  <2> HIDE DEF delta, out, whole
  <2>4. out.snapshot # None
    BY DEF out
  <2>5. delta.snapshot # None /\ out.snapshot = whole
    BY <2>2, <2>4 DEF W!Read
  <2>6. WaitsOf(out.snapshot) = delta.snapshot
    BY <1>4, <2>3, <2>5 DEF WaitsOf
  <2>7. QED
    BY <2>5, <2>6 DEF delta, out
<1>5. QED
  BY <1>1, <1>2, <1>3, <1>4

(* The window: what the counter says, after any reset, is at most what it     *)
(* said at the first reading and what was counted since, and what the unit    *)
(* published of it was counted since.                                         *)
ReadBefore(w) ==
    \E b \in Nat : w.count <= b + w.happened /\ Reading(w.before.events, b, IsTimed)
Holds(w) ==
    /\ DOMAIN w = {"count", "happened", "published", "before"}
    /\ w.count \in Nat /\ w.happened \in Nat
    /\ w.before # None => ReadBefore(w)
    /\ w.published # None => HappenedIn(w.published, w.happened)
WindowHolds == pc = "window" \/ window # None => Holds(window)

(* The steps outside the window leave it alone, or there is none after them.  *)
Outside ==
    \/ window' = window /\ unit' = unit /\ (pc' = "window" => pc = "window")
    \/ window' = None /\ pc' # "window"

(* Such a step keeps the invariant of the window,                             *)
LEMMA OutsideHolds ==
    ASSUME WindowHolds, Outside
    PROVE  WindowHolds'
PROOF
<1>1. CASE window' = None /\ pc' # "window"
  BY <1>1 DEF WindowHolds
<1>2. CASE window' = window /\ unit' = unit /\ (pc' = "window" => pc = "window")
  <2>1. IsTimed' = IsTimed
    BY <1>2 DEF IsTimed
  <2>2. Holds(window) => Holds(window)'
    BY <1>2, <2>1 DEF Holds, ReadBefore, Reading, HappenedIn
  <2>3. QED
    BY <1>2, <2>2 DEF WindowHolds
<1>3. QED
  BY <1>1, <1>2 DEF Outside

(* the end of a unit is one,                                                  *)
LEMMA EndsOutside == ASSUME UnitEnds PROVE Outside
PROOF
<1>1. QED
  BY DEF UnitEnds, GoTo, Outside

(* and so are the steps of the SQL engines' drivers,                          *)
LEMMA SqlOutside ==
    ASSUME SqlNext \/ NothingToSync \/ NoRepair
    PROVE  Outside
PROOF
<1>1. CASE SqlSchema \/ Vacuum \/ ReplaceIndex \/ NoRepair
  BY <1>1 DEF SqlSchema, Vacuum, ReplaceIndex, NoRepair, GoTo, Kept, restVars, Outside
<1>2. CASE SqlIndex
  BY <1>2, EndsOutside DEF SqlIndex, GoTo, Kept, restVars, Outside
<1>3. CASE NothingToSync
  BY <1>3 DEF NothingToSync, Synced, GoTo, Kept, restVars, Outside
<1>4. QED
  BY <1>1, <1>2, <1>3 DEF SqlNext

(* those of MyVector's,                                                       *)
LEMMA MyVectorOutside ==
    ASSUME MyVectorNext
    PROVE  Outside
PROOF
<1>1. CASE MyVectorSchema
  BY <1>1, EndsOutside DEF MyVectorSchema, GoTo, Kept, restVars, Outside
<1>2. CASE MyVectorIndex \/ Rebuild
  <2>1. UNCHANGED <<window, unit>> /\ pc' \in {"filters", "done"}
    BY <1>2 DEF MyVectorIndex, Rebuild, Build, GoTo, Kept, restVars
  <2>2. QED
    BY <2>1 DEF Outside
<1>3. CASE RefreshIndex
  <2>1. CASE UnitEnds
    BY <2>1, EndsOutside
  <2>2. CASE ~ UnitEnds
    <3>1. UNCHANGED <<window, unit>> /\ pc' = Synced(pc)
          /\ pc \in {"sync", "sync_deletes", "sync_writes"}
      BY <1>3, <2>2 DEF RefreshIndex, GoTo, Kept, restVars
    <3>2. QED
      BY <3>1 DEF Outside, Synced
  <2>3. QED
    BY <2>1, <2>2
<1>4. QED
  BY <1>1, <1>2, <1>3 DEF MyVectorNext

(* of MongoDB's,                                                              *)
LEMMA MongoOutside ==
    ASSUME MongoNext
    PROVE  Outside
PROOF
<1>1. CASE MongoSchema \/ MongoIndex
  BY <1>1 DEF MongoSchema, MongoIndex, GoTo, Kept, restVars, Outside
<1>2. CASE WaitUntilReady
  BY <1>2, EndsOutside DEF WaitUntilReady, GoTo, Kept, restVars, unitVars, Outside
<1>3. CASE MongoWait
  <2>1. UNCHANGED <<window, unit>> /\ pc \in {"sync", "sync_deletes", "sync_writes"}
    BY <1>3 DEF MongoWait, Kept
  <2>2. pc' = pc \/ pc' = Synced(pc)
    BY <1>3 DEF MongoWait, ProbeAbsent, ProbePresent, NothingSought, MongoSynced, GoTo
  <2>3. QED
    BY <2>1, <2>2 DEF Outside, Synced
<1>4. QED
  BY <1>1, <1>2, <1>3 DEF MongoNext

(* and of Valkey's,                                                           *)
LEMMA ValkeyOutside ==
    ASSUME ValkeyNext
    PROVE  Outside
PROOF
<1>1. CASE ValkeySchema \/ ValkeyIndex
  BY <1>1 DEF ValkeySchema, ValkeyIndex, GoTo, Kept, restVars, Outside
<1>2. CASE WaitForBackfill
  BY <1>2, EndsOutside DEF WaitForBackfill, GoTo, Kept, restVars, unitVars, Outside
<1>3. CASE WaitForMutations
  <2>1. UNCHANGED <<window, unit>>
        /\ pc \in {"mutations", "sync", "sync_deletes", "sync_writes"}
    BY <1>3 DEF WaitForMutations, Kept
  <2>2. pc' = pc \/ pc' = IF pc = "mutations" THEN "deleted" ELSE Synced(pc)
    BY <1>3 DEF WaitForMutations, MutationsEnd, GoTo
  <2>3. QED
    BY <2>1, <2>2 DEF Outside, Synced
<1>4. QED
  BY <1>1, <1>2, <1>3 DEF ValkeyNext

(* the load,                                                                  *)
LEMMA LoadingOutside ==
    ASSUME \/ CachedCtags \/ ComputeCtags \/ KeepCtags
           \/ Load \/ (\E t \in {1, 2} : LoadRows(t)) \/ Loaded \/ IndexFollows
    PROVE  Outside
PROOF
<1>1. CASE CachedCtags \/ ComputeCtags \/ KeepCtags
  BY <1>1 DEF CachedCtags, ComputeCtags, KeepCtags, HaveCtags, GoTo, Kept, restVars,
              Outside
<1>2. CASE Load \/ (\E t \in {1, 2} : LoadRows(t)) \/ IndexFollows
  BY <1>2 DEF Load, LoadRows, IndexFollows, GoTo, Kept, restVars, Outside
<1>3. CASE Loaded
  BY <1>3, EndsOutside DEF Loaded, GoTo, Kept, Outside
<1>4. QED
  BY <1>1, <1>2, <1>3

(* the scoring of the filters                                                 *)
LEMMA FiltersOutside ==
    ASSUME \/ ScoreFilters \/ FileTruth \/ CachedTruth \/ ComputeTruth \/ KeepTruth
           \/ Score
    PROVE  Outside
PROOF
<1>1. CASE ScoreFilters \/ FileTruth \/ CachedTruth \/ ComputeTruth \/ KeepTruth
  BY <1>1 DEF ScoreFilters, FileTruth, CachedTruth, ComputeTruth, KeepTruth, TruthVars,
              GoTo, Kept, Outside
<1>2. CASE Score
  <2>1. CASE UnitEnds
    BY <2>1, EndsOutside
  <2>2. CASE ~ UnitEnds
    <3>1. UNCHANGED <<pc, window, unit>>
      BY <1>2, <2>2 DEF Score, Kept
    <3>2. QED
      BY <3>1 DEF Outside
  <2>3. QED
    BY <2>1, <2>2
<1>3. QED
  BY <1>1, <1>2

(* and the churn.                                                             *)
LEMMA ChurnOutside ==
    ASSUME \/ StartChurn \/ PickVictims \/ DeleteIds \/ AwaitDeletes \/ Reinsert
           \/ (\E w \in {"main", "first", "second"} : TakeSlice(w) \/ WriteSlice(w))
           \/ Written \/ ScoreChurn
    PROVE  Outside
PROOF
<1>1. CASE StartChurn
  <2>1. window' = None /\ pc' = "sync"
    BY <1>1 DEF StartChurn, GoTo
  <2>2. QED
    BY <2>1 DEF Outside
<1>2. CASE PickVictims \/ DeleteIds \/ AwaitDeletes \/ Reinsert
  <2>1. UNCHANGED <<window, unit>>
        /\ pc' \in {"deletes", "mutations", "deleted", "sync_deletes", "writes"}
    BY <1>2 DEF PickVictims, DeleteIds, AwaitDeletes, Reinsert, GoTo, Kept
  <2>2. QED
    BY <2>1 DEF Outside
<1>3. CASE \E w \in {"main", "first", "second"} : TakeSlice(w) \/ WriteSlice(w)
  <2>1. UNCHANGED <<window, unit, pc>>
    BY <1>3 DEF TakeSlice, WriteSlice, Kept
  <2>2. QED
    BY <2>1 DEF Outside
<1>4. CASE Written
  <2>1. CASE AnyFailed
    BY <1>4, <2>1, EndsOutside DEF Written
  <2>2. CASE ~ AnyFailed
    <3>1. UNCHANGED <<window, unit>> /\ pc' = "sync_writes"
      BY <1>4, <2>2 DEF Written, GoTo, Kept
    <3>2. QED
      BY <3>1 DEF Outside
  <2>3. QED
    BY <2>1, <2>2
<1>5. CASE ScoreChurn
  <2>1. UNCHANGED <<window, unit>> /\ pc' \in {"synced", "maintain"}
    BY <1>5 DEF ScoreChurn, GoTo, Kept
  <2>2. QED
    BY <2>1 DEF Outside
<1>6. QED
  BY <1>1, <1>2, <1>3, <1>4, <1>5

(* A window opens with what the unit could read of the counter,               *)
LEMMA OpeningHolds ==
    ASSUME WindowOpens
    PROVE  WindowHolds'
PROOF
<1>1. PICK reads \in BOOLEAN, count \in {0, 1} :
          window' = [count |-> count, happened |-> 0, published |-> None,
                     before |-> Snapshot(count, reads).snapshot]
  BY DEF WindowOpens
<1> DEFINE before == Snapshot(count, reads).snapshot
<1>2. /\ DOMAIN window' = {"count", "happened", "published", "before"}
      /\ window'.count = count /\ window'.happened = 0 /\ window'.published = None
      /\ window'.before = before
  BY <1>1
<1>3. before # None => reads = TRUE
  BY NoReading
<1>4. before # None => Reading(before.events, count, IsTimed)
  BY <1>3, ReadingOf
<1>5. IsTimed' = IsTimed
  BY DEF WindowOpens, Kept, IsTimed
<1> HIDE DEF before
<1>6. window'.before # None => ReadBefore(window)'
  <2>1. SUFFICES ASSUME before # None PROVE ReadBefore(window)'
    BY <1>2
  <2>2. Reading(window.before.events, count, IsTimed)'
    BY <1>2, <1>4, <1>5, <2>1 DEF Reading
  <2>3. window'.count <= count + window'.happened /\ count \in Nat
    BY <1>2
  <2>4. QED
    BY <2>2, <2>3 DEF ReadBefore
<1>7. Holds(window)'
  BY <1>2, <1>6 DEF Holds
<1>8. QED
  BY <1>7 DEF WindowHolds

(* the server counts on or starts again while it is open,                     *)
LEMMA CountingHolds ==
    ASSUME WindowHolds, ServerCounts \/ CountersReset
    PROVE  WindowHolds'
PROOF
<1>1. pc = "window" /\ Holds(window) /\ IsTimed' = IsTimed
  BY DEF WindowHolds, ServerCounts, CountersReset, Kept, IsTimed
<1> DEFINE count == window.count
           happened == window.happened
<1>2. /\ DOMAIN window' = {"count", "happened", "published", "before"}
      /\ window'.published = window.published /\ window'.before = window.before
      /\ \/ window'.count = count + 1 /\ window'.happened = happened + 1
         \/ window'.count = 0 /\ window'.happened = happened
  BY <1>1 DEF ServerCounts, CountersReset, Holds
<1>3. window'.count \in Nat /\ window'.happened \in Nat /\ happened \in Nat
      /\ happened <= window'.happened
  BY <1>1, <1>2 DEF Holds
<1>4. window'.before # None => ReadBefore(window)'
  <2>1. SUFFICES ASSUME window.before # None PROVE ReadBefore(window)'
    BY <1>2
  <2>2. PICK b \in Nat : count <= b + happened /\ Reading(window.before.events, b, IsTimed)
    BY <1>1, <2>1 DEF Holds, ReadBefore
  <2>3. window'.count <= b + window'.happened
    BY <1>1, <1>2, <2>2 DEF Holds
  <2>4. Reading(window.before.events, b, IsTimed)'
    BY <1>1, <1>2, <2>2 DEF Reading
  <2>5. QED
    BY <2>3, <2>4 DEF ReadBefore
<1>5. window'.published # None => HappenedIn(window.published, window.happened)'
  <2>1. SUFFICES ASSUME window.published # None
                 PROVE  HappenedIn(window.published, window.happened)'
    BY <1>2
  <2>2. HappenedIn(window.published, happened)
    BY <1>1, <2>1 DEF Holds
  <2>3. 1 .. happened \subseteq 1 .. window'.happened
    BY <1>3
  <2>4. QED
    BY <1>2, <2>2, <2>3 DEF HappenedIn
<1>6. Holds(window)'
  BY <1>2, <1>3, <1>4, <1>5 DEF Holds
<1>7. QED
  BY <1>6 DEF WindowHolds

(* and it closes with the waits counted between two readings that succeeded.  *)
LEMMA ClosingHolds ==
    ASSUME WindowHolds, WindowCloses
    PROVE  WindowHolds'
PROOF
<1>1. pc = "window" /\ Holds(window) /\ IsTimed' = IsTimed
  BY DEF WindowHolds, WindowCloses, Kept, IsTimed
<1> DEFINE before == window.before
           happened == window.happened
<1>2. PICK reads \in BOOLEAN :
         LET after == Snapshot(window.count, reads).snapshot
         IN window' = [window EXCEPT !.published =
               IF None \in {window.before, after} THEN None
               ELSE LET delta == Delta(window.before, after).snapshot
                    IN IF delta = None THEN None ELSE WaitsOf(delta)]
  BY DEF WindowCloses
<1> DEFINE after == Snapshot(window.count, reads).snapshot
           delta == Delta(before, after).snapshot
<1>3. /\ DOMAIN window' = {"count", "happened", "published", "before"}
      /\ window'.count = window.count /\ window'.before = window.before
      /\ window'.happened = happened
  BY <1>1, <1>2 DEF Holds
<1>4. window'.published = IF None \in {before, after} THEN None
                          ELSE IF delta = None THEN None ELSE WaitsOf(delta)
  BY <1>1, <1>2 DEF Holds
<1>5. window'.before # None => ReadBefore(window)'
  <2>1. SUFFICES ASSUME before # None PROVE ReadBefore(window)'
    BY <1>3
  <2>2. PICK b \in Nat : window.count <= b + happened /\ Reading(before.events, b, IsTimed)
    BY <1>1, <2>1 DEF Holds, ReadBefore
  <2>3. Reading(window.before.events, b, IsTimed)'
    BY <1>1, <1>3, <2>2 DEF Reading
  <2>4. QED
    BY <1>3, <2>2, <2>3 DEF ReadBefore
<1>6. ASSUME window'.published # None
      PROVE  HappenedIn(window'.published, happened)
  <2> HIDE DEF before, happened, after, delta
  <2>1. /\ before # None /\ after # None /\ delta # None
        /\ window'.published = WaitsOf(delta)
    BY <1>4, <1>6
  <2>2. PICK b \in Nat : window.count <= b + happened /\ Reading(before.events, b, IsTimed)
    BY <1>1, <2>1 DEF Holds, ReadBefore, before, happened
  <2>3. window.count \in Nat /\ happened \in Nat
    BY <1>1 DEF Holds, happened
  <2>4. reads = TRUE
    BY <2>1, NoReading DEF after
  <2>5. Reading(after.events, window.count, IsTimed)
    BY <2>1, <2>3, <2>4, ReadingOf DEF after
  <2>6. PICK source :
           LET moved == W!CounterDelta(before.events, after.events, source, NameOrder)
           IN moved.snapshot # None /\ WaitsOf(delta) = moved.snapshot
    <3>1. Delta(before, after).snapshot # None
      BY <2>1 DEF delta
    <3>2. QED
      BY <3>1, WaitsAreDelta DEF delta
  <2> DEFINE first == before.events
             last == after.events
             count == window.count
             timed == IsTimed
  <2>7. timed \in BOOLEAN
    BY DEF IsTimed
  <2>8. Reading(first, b, timed) /\ Reading(last, count, timed)
        /\ count <= b + happened /\ count \in Nat
    BY <2>2, <2>3, <2>5
  <2>9. W!CounterDelta(first, last, source, NameOrder).snapshot # None
        /\ WaitsOf(delta) = W!CounterDelta(first, last, source, NameOrder).snapshot
    BY <2>6
  <2> HIDE DEF first, last, count, timed
  <2>10. HappenedIn(W!CounterDelta(first, last, source, NameOrder).snapshot, happened)
    BY <2>3, <2>7, <2>8, <2>9, DeltaHappened
  <2>11. QED
    BY <2>1, <2>9, <2>10
<1>7. window'.published # None => HappenedIn(window.published, window.happened)'
  BY <1>3, <1>6 DEF HappenedIn
<1>8. Holds(window)'
  BY <1>1, <1>3, <1>5, <1>7 DEF Holds
<1>9. QED
  BY <1>8 DEF WindowHolds

(* However often the counters are reset and whichever reading fails, the waits*)
(* a window publishes were counted in it (server_waits.counter_delta).        *)
THEOREM WaitsAreOfWindow == DriversSpec => []WaitsHappened
PROOF
<1>1. StateInit => WindowHolds
  BY DEF StateInit, WindowHolds
<1>2. ASSUME WindowHolds, [DriversNext]_unitVars
      PROVE  WindowHolds'
  <2>1. CASE WindowOpens
    BY <2>1, OpeningHolds
  <2>2. CASE ServerCounts \/ CountersReset
    BY <1>2, <2>2, CountingHolds
  <2>3. CASE WindowCloses
    BY <1>2, <2>3, ClosingHolds
  <2>4. CASE Outside
    BY <1>2, <2>4, OutsideHolds
  <2>5. CASE UNCHANGED unitVars
    BY <1>2, <2>5, OutsideHolds DEF unitVars, Outside
  <2>6. CASE StartUnit
    <3>1. window' = None /\ pc' = "ctags"
      BY <2>6 DEF StartUnit, GoTo
    <3>2. QED
      BY <1>2, <3>1, OutsideHolds DEF Outside
  <2>7. CASE Killed \/ UnitDone
    BY <1>2, <2>7, EndsOutside, OutsideHolds DEF Killed, UnitDone
  <2>8. QED
    BY <1>2, <2>1, <2>2, <2>3, <2>4, <2>5, <2>6, <2>7, SqlOutside, MyVectorOutside,
       MongoOutside, ValkeyOutside, LoadingOutside, FiltersOutside, ChurnOutside
       DEF DriversNext
<1>3. WindowHolds => WaitsHappened
  BY DEF WindowHolds, Holds, HappenedIn, WaitsHappened
<1>4. QED
  BY <1>1, <1>2, <1>3, PTL DEF DriversSpec
====
