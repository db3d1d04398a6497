-------------------------------- MODULE Waits --------------------------------
(* The wait counters of a server, read at both ends of a window:              *)
(* harness/drivers/server_waits.py and engine_waits.py. A snapshot maps the   *)
(* events it knows to counts and times; a reading a server does not give is   *)
(* None, and a result without data carries its reason.                        *)
EXTENDS Integers, Sequences, FiniteSets, FiniteSetsExt, SequencesExt, Functions

CONSTANT None

Event(count, wait) == [count |-> count, wait |-> wait]
NoEvent == Event(None, None)
Read(snapshot) == [snapshot |-> snapshot, reason |-> "none"]
Unread(reason) == [snapshot |-> None, reason |-> reason]

Minus(a, b) == IF a = None THEN None ELSE a - (IF b = None THEN 0 ELSE b)
Then(before, name) == IF name \in DOMAIN before THEN before[name] ELSE NoEvent
Moved(before, after, name) ==
    Event(Minus(after[name].count, Then(before, name).count),
          Minus(after[name].wait, Then(before, name).wait))
IsMove(e) == e.count \notin {None, 0} \/ e.wait \notin {None, 0}
IsBackwards(e) == \E n \in {e.count, e.wait} : n # None /\ n < 0

(* The largest first, equals in the order of their names (NameOrder), and a   *)
(* number for those no one asked the time of.                                 *)
Weight(e, key) == LET n == IF key = "wait" THEN e.wait ELSE e.count
                  IN IF n = None THEN 0 ELSE n
Rank(n, rows, key, NameOrder) ==
    Cardinality({m \in DOMAIN rows :
                    \/ Weight(rows[m], key) > Weight(rows[n], key)
                    \/ /\ Weight(rows[m], key) = Weight(rows[n], key)
                       /\ NameOrder[m] <= NameOrder[n]})
Ranked(rows, key, NameOrder) ==
    [i \in 1 .. Cardinality(DOMAIN rows) |->
        CHOOSE n \in DOMAIN rows : Rank(n, rows, key, NameOrder) = i]
TimeOf(rows) == MapThenSumSet(LAMBDA n : Weight(rows[n], "wait"), DOMAIN rows)
Summarise(rows, source, top, NameOrder) ==
    LET timed == \E n \in DOMAIN rows : rows[n].wait # None
        key == IF timed THEN "wait" ELSE "count"
        ranked == Ranked(rows, key, NameOrder)
    IN [source |-> source, rankedBy |-> key,
        events |-> [i \in {n \in DOMAIN ranked : n <= top} |-> <<ranked[i], rows[ranked[i]]>>],
        total |-> Cardinality(DOMAIN rows),
        waited |-> IF timed THEN TimeOf(rows) ELSE None]

TopEvents == 10
TopEvent(waits) ==
    IF waits = None \/ waits.events = << >> THEN None ELSE waits.events[1]

(* A plausible bug: a counter that went backwards counts from zero.           *)
CounterDelta_Reset(before, after, source, NameOrder) ==
    LET moves == [n \in DOMAIN after |->
                     IF IsBackwards(Moved(before, after, n))
                     THEN Event(-Moved(before, after, n).count,
                                Moved(before, after, n).wait)
                     ELSE Moved(before, after, n)]
    IN Read(Summarise(Restrict(moves, {n \in DOMAIN moves : IsMove(moves[n])}),
                      source, TopEvents, NameOrder))

(* Only what moved is published, and a counter that went backwards refuses    *)
(* the whole delta: the server was restarted or reset inside the window.      *)
CounterDelta(before, after, source, NameOrder) ==
    LET moves == [n \in DOMAIN after |-> Moved(before, after, n)]
    IN IF \E n \in DOMAIN moves : IsBackwards(moves[n])
       THEN Unread("a counter went backwards")
       ELSE Read(Summarise(Restrict(moves, {n \in DOMAIN moves : IsMove(moves[n])}),
                           source, TopEvents, NameOrder))

-----------------------------------------------------------------------------
(* MySQL and MariaDB: performance_schema, when it is on and an instrument is  *)
(* enabled and timed; events of zero count and `idle` are not read.           *)
MysqlSnapshot(server) ==
    IF server.broken THEN Unread("performance_schema read failed")
    ELSE IF ~ server.schema THEN Unread("performance_schema is OFF")
    ELSE IF server.timed = {} THEN Unread("no instrument is enabled and timed")
    ELSE Read([events |-> Restrict(server.events,
                             {n \in DOMAIN server.events :
                                 server.events[n].count > 0 /\ n # "idle"}),
               synch |-> Cardinality(server.timed \cap server.synch),
               mutex |-> server.mutex])

(* SHOW ENGINE INNODB MUTEX: the lines that say waits=<number>.               *)
InnodbMutex(rows) ==
    LET readable == {r \in rows : r.waits # None}
    IN IF readable = {} THEN None
       ELSE [n \in {r.name : r \in readable} |->
                (CHOOSE r \in readable : r.name = n).waits]

Grown(old, new) ==
    LET grew(n) == new[n] - (IF old # None /\ n \in DOMAIN old THEN old[n] ELSE 0)
    IN IF new = None THEN << >>
       ELSE [n \in {m \in DOMAIN new : grew(m) > 0} |-> grew(n)]

MysqlDelta(before, after, NameOrder) ==
    LET delta == CounterDelta(before.events, after.events, "mysql", NameOrder)
    IN IF delta.snapshot = None THEN delta
       ELSE Read([waits |-> delta.snapshot, synch |-> after.synch,
                  mutex |-> Grown(before.mutex, after.mutex)])

-----------------------------------------------------------------------------
(* Postgres keeps no counters: active backends are counted by what they wait  *)
(* for at the instant of a sample, and no sample is no measurement.           *)
OnCpu == "CPU (no wait event)"
PostgresSample(backends) ==
    IF backends = None THEN Unread("pg_stat_activity read failed")
    ELSE LET labels == {IF b.waits = None THEN OnCpu ELSE b.waits : b \in backends}
             with(l) == {b \in backends :
                            (IF b.waits = None THEN OnCpu ELSE b.waits) = l}
         IN Read([events |-> [l \in labels |-> Event(Cardinality(with(l)), None)],
                  samples |-> 1])

PostgresDelta(before, after, NameOrder) ==
    IF after.samples - before.samples <= 0
    THEN Unread("no pg_stat_activity sample was taken")
    ELSE CounterDelta(before.events, after.events, "postgres", NameOrder)

-----------------------------------------------------------------------------
(* Valkey: the time spent in each command, and the latency monitor's events   *)
(* of the window, when it keeps any.                                          *)
ValkeySnapshot(server, now) ==
    IF server.broken THEN Unread("INFO commandstats failed")
    ELSE Read([events |-> server.events, at |-> now,
               latest |-> server.latest, threshold |-> server.threshold])

LatencyLatest(rows) ==
    IF rows = None THEN None ELSE {r \in rows : r.fields >= 4}
LatencyThreshold(answer) == IF answer \in Int THEN answer ELSE None

ValkeyDelta(before, after, NameOrder) ==
    LET delta == CounterDelta(before.events, after.events, "valkey", NameOrder)
    IN IF delta.snapshot = None THEN delta
       ELSE Read([waits |-> delta.snapshot,
                  latest |-> IF after.latest = None THEN "not readable"
                             ELSE IF after.threshold \in {None, 0} THEN "monitor is off"
                             ELSE {r \in after.latest : r.at >= before.at}])

-----------------------------------------------------------------------------
(* MongoDB: the lock acquisitions of serverStatus by resource and mode, and   *)
(* the counters of mongot's own endpoint, if it can be reached.               *)
MongoSnapshot(status, mongot) ==
    IF status = None THEN Unread("serverStatus failed")
    ELSE Read([events |-> [l \in DOMAIN status.waits \cup DOMAIN status.micros |->
                              Event(IF l \in DOMAIN status.waits
                                    THEN status.waits[l] ELSE 0,
                                    IF l \in DOMAIN status.micros
                                    THEN status.micros[l] ELSE 0)],
               gauges |-> status.gauges, mongot |-> mongot])

(* The lines of the endpoint that are counters, by the suffix of their names. *)
PrometheusCounters(lines) ==
    LET counters == {l \in lines : /\ ~ l.comment /\ l.value \in Int
                                   /\ l.suffix \in {"total", "sum", "count"}}
    IN [n \in {l.name : l \in counters} |->
           (CHOOSE l \in counters : l.name = n).value]
MongotMetrics(answer) ==
    IF answer = None THEN None ELSE PrometheusCounters(answer)

MongoDelta(before, after, NameOrder) ==
    LET delta == CounterDelta(before.events, after.events, "mongodb", NameOrder)
    IN IF delta.snapshot = None THEN delta
       ELSE Read([waits |-> delta.snapshot, gauges |-> after.gauges,
                  mongot |-> IF None \in {before.mongot, after.mongot}
                             THEN "not read at both ends"
                             ELSE Grown(before.mongot, after.mongot)])
=============================================================================
