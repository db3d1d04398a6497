-------------------------------- MODULE Churn -------------------------------
(* The churn workload: churn.run and _reinsert (harness/workloads/churn.py),  *)
(* parallel_reinsert and synced_wait (churn_writes.py). A fraction of the     *)
(* rows is deleted and written back under new ids, by one writer or several,  *)
(* while a pool of readers queries the server; then recall is scored against  *)
(* a ground truth translated to the new ids. The readers are what             *)
(* MeasuredWindow promises of a ClientPool.                                   *)
(*                                                                            *)
(* The server's table and its index are two things: an engine may maintain    *)
(* the index behind the writes. A slice is one row (under a hundred rows,     *)
(* total // 50 is at most one).                                               *)
EXTENDS Integers, Sequences, FiniteSets

CONSTANTS
    N,           \* rows in the table; their ids are 1 .. N
    Cumulative,  \* by fraction of `fractions`: rows to have churned after it
    Writers,     \* the re-insert's writers; one is the workload's own driver
    Readers,     \* the readers' clients; {} when ops.churn_readers is 0
    WaitsFor,    \* what wait_index_synced looks at: "rows" is how many the
                 \* index holds (valkey), "newest" is one row (mongo)
    Faults       \* TRUE: calls raise, budgets and waits run out

ASSUME ChurnAssumption ==
    /\ N \in Nat \ {0}
    /\ Cumulative \in Seq(0 .. N)
    /\ IsFiniteSet(Writers) /\ Writers # {}
    /\ WaitsFor \in {"rows", "newest"}
    /\ Faults \in BOOLEAN

Rows == 1 .. N
Ids == 1 .. 2 * N        \* every row is churned at most once
None == 0

VARIABLES
    pc,         \* where the workload is
    step,       \* the fraction it is at
    table,      \* by id, the row whose vector the table holds, or None
    idMap,      \* id_map.get(o, o) of each original row o
    churned,    \* churned_so_far
    nextId,
    victims,    \* the rows of this step, in the order of current_ids
    taken,      \* how many slices have been popped off `pending`
    writer,     \* each writer: "out", "free" or "busy" with a slice
    slice,
    failed,     \* `failures` is not empty
    late,       \* the budget has run out
    written,    \* sum(done)
    opened,     \* writers that have connected
    indexed,    \* ids the index holds
    behind,     \* changes of the table the index has not absorbed yet
    phase, querying, delivered,   \* the reader pool under way
    baseline,   \* reader_baseline: "none", "window" or "failed"
    during,     \* reader_during, likewise
    capture,    \* a WaitCapture has begun and has not been finished
    records,    \* what the recorder has been given
    gaveUp,     \* history: a wait for the index has given up
    cause       \* history: what ended the workload with an exception

server == <<table, indexed, behind>>
books == <<step, idMap, churned, nextId, victims, records>>
writing == <<taken, writer, slice, failed, late, written, opened>>
pool == <<phase, querying, delivered>>
reading == <<baseline, during, capture>>
history == <<gaveUp, cause>>
vars == <<pc, server, books, writing, pool, reading, history>>

Pool == INSTANCE MeasuredWindow WITH Clients <- Readers

Places == {"prepare", "syncBase", "scoreBase", "step", "readBase", "delete",
           "syncDelete", "readers", "warmup", "connect", "reinsert", "stop",
           "tally", "syncInsert", "scoreBefore", "maintain", "scoreAfter",
           "ended", "aborted"}
Kinds == {"baseline", "incomplete", "during", "before", "after"}
Changes == [id : Ids, op : {"add", "drop"}]

TypeOK ==
    /\ pc \in Places
    /\ step \in 1 .. Len(Cumulative) + 1
    /\ table \in [Ids -> Rows \cup {None}]
    /\ idMap \in [Rows -> Ids]
    /\ churned \in 0 .. N
    /\ nextId \in 1 .. 2 * N + 1
    /\ victims \in Seq(Rows)
    /\ taken \in 0 .. N /\ written \in 0 .. N
    /\ writer \in [Writers -> {"out", "free", "busy"}]
    /\ slice \in [Writers -> 0 .. N]
    /\ {failed, late, capture, gaveUp} \subseteq BOOLEAN
    /\ opened \subseteq Writers
    /\ indexed \subseteq Ids
    /\ behind \in Seq(Changes)
    /\ phase \in {"warming", "open", "published", "raised", "crashed"}
    /\ querying \subseteq Readers /\ delivered \subseteq Readers
    /\ {baseline, during} \subseteq {"none", "window", "failed"}
    /\ records \in Seq([kind : Kinds, step : 0 .. Len(Cumulative)])
    /\ cause \in {"none", "engine", "readers"}

Init ==
    /\ pc = "prepare" /\ step = 1
    /\ table = [id \in Ids |-> IF id \in Rows THEN id ELSE None]
    /\ idMap = [o \in Rows |-> o]
    /\ churned = 0 /\ nextId = N + 1 /\ victims = << >>
    /\ taken = 0 /\ written = 0
    /\ writer = [w \in Writers |-> "out"] /\ slice = [w \in Writers |-> 0]
    /\ failed = FALSE /\ late = FALSE /\ opened = {}
    /\ indexed = Rows /\ behind = << >>
    /\ phase = "raised" /\ querying = {} /\ delivered = {}
    /\ baseline = "none" /\ during = "none" /\ capture = FALSE
    /\ records = << >>
    /\ gaveUp = FALSE /\ cause = "none"

-----------------------------------------------------------------------------
(* An exception that nobody in the workload catches: harness/main.py notes it *)
(* and the unit has failed.                                                   *)
Abort(why) == /\ pc' = "aborted"
              /\ cause' = why
              /\ UNCHANGED gaveUp

Go(place) == pc' = place /\ UNCHANGED history

(* Calls of the driver outside any try.                                       *)
EngineRaises ==
    /\ Faults
    /\ pc \in {"prepare", "syncBase", "scoreBase", "syncDelete", "syncInsert",
               "tally", "scoreBefore", "maintain", "scoreAfter"}
    /\ Abort("engine")
    /\ UNCHANGED <<server, books, writing, pool, reading>>

Prepare == /\ pc = "prepare"
           /\ Go("syncBase")
           /\ UNCHANGED <<server, books, writing, pool, reading>>

(* The index absorbs what was written: a change stream in its order, a queue  *)
(* that several threads drain in any.                                         *)
Absorb ==
    \E i \in DOMAIN behind :
        /\ WaitsFor = "newest" => i = 1
        /\ indexed' = IF behind[i].op = "add" THEN indexed \cup {behind[i].id}
                                              ELSE indexed \ {behind[i].id}
        /\ behind' = SubSeq(behind, 1, i - 1)
                         \o SubSeq(behind, i + 1, Len(behind))
        /\ UNCHANGED <<pc, table, books, writing, pool, reading, history>>

-----------------------------------------------------------------------------
(* new_ids: those of this step, once it has been given any.                   *)
New(i) == nextId - Len(victims) + i - 1
NewIds == {New(i) : i \in DOMAIN victims}

(* synced_wait: until the index has as many rows as expected, or until the    *)
(* row it was told about is there (or is gone).                               *)
(* A plausible bug: the count is compared the way the delete path compares it.*)
Arrived_AtMost(expected, absent, present) ==
    IF WaitsFor = "rows"
    THEN Cardinality(indexed) <= expected
    ELSE absent \cap indexed = {} /\ present \subseteq indexed

Arrived(expected, absent, present) ==
    IF WaitsFor = "rows"
    THEN Cardinality(indexed) = expected
    ELSE absent \cap indexed = {} /\ present \subseteq indexed

(* A plausible bug: waits for as long as it takes.                            *)
GivesUp_Never == FALSE

(* It returns when that is so or when it has waited too long: the measurement *)
(* goes ahead in either case.                                                 *)
GivesUp == Faults

Wait(at, next, expected, absent, present) ==
    /\ pc = at
    /\ \/ Arrived(expected, absent, present) /\ UNCHANGED gaveUp
       \/ GivesUp /\ gaveUp' = TRUE
    /\ pc' = next
    /\ UNCHANGED <<server, books, writing, pool, reading, cause>>

SyncBase == Wait("syncBase", "scoreBase", N, {}, {N})
SyncDelete == Wait("syncDelete", "readers", N - Len(victims),
                   {idMap[victims[Len(victims)]]}, {})
SyncInsert == Wait("syncInsert", "scoreBefore", N, {}, {New(Len(victims))})

Record(kind, of) == records' = Append(records, [kind |-> kind, step |-> of])

ScoreBase ==
    /\ pc = "scoreBase"
    /\ Record("baseline", 0)
    /\ Go("step")
    /\ UNCHANGED <<server, step, idMap, churned, nextId, victims, writing,
                   pool, reading>>

-----------------------------------------------------------------------------
Live == {o \in Rows : idMap[o] = o}
Least(a, b) == IF a < b THEN a ELSE b
Orders(S) == {s \in [1 .. Cardinality(S) -> S] :
                 \A i, j \in DOMAIN s : s[i] = s[j] => i = j}

(* rng.choice among the rows still under their first id.                      *)
Choices(count) ==
    UNION {Orders(S) : S \in {T \in SUBSET Live :
                                  Cardinality(T) = Least(count, Cardinality(Live))}}

Finish ==
    /\ pc = "step" /\ step > Len(Cumulative)
    /\ Go("ended")
    /\ UNCHANGED <<server, books, writing, pool, reading>>

SkipStep ==
    /\ pc = "step" /\ step <= Len(Cumulative)
    /\ Cumulative[step] <= churned
    /\ step' = step + 1
    /\ Go("step")
    /\ UNCHANGED <<server, idMap, churned, nextId, victims, records, writing,
                   pool, reading>>

BeginStep ==
    /\ pc = "step" /\ step <= Len(Cumulative)
    /\ Cumulative[step] > churned
    /\ victims' \in Choices(Cumulative[step] - churned)
    /\ baseline' = "none" /\ during' = "none"
    /\ Go(IF Readers = {} THEN "delete" ELSE "readBase")
    /\ phase' = "warming" /\ querying' = {} /\ delivered' = {}
    /\ UNCHANGED <<server, step, idMap, churned, nextId, records, writing,
                   capture>>

(* _reader_window inside capture_window: a PoolError is remembered, anything  *)
(* else goes up.                                                              *)
BaselineEnds ==
    /\ pc = "readBase"
    /\ \/ /\ phase = "published"
          /\ baseline' = "window" /\ Go("delete")
       \/ /\ phase = "raised"
          /\ baseline' = "failed" /\ Go("delete")
       \/ /\ phase = "crashed"
          /\ UNCHANGED baseline /\ Abort("engine")
    /\ UNCHANGED <<server, books, writing, pool, during, capture>>

Dropped(order) == [i \in DOMAIN order |->
                      [id |-> idMap[order[i]], op |-> "drop"]]
Without(rows) == [id \in Ids |-> IF \E o \in rows : idMap[o] = id
                                 THEN None ELSE table[id]]
Victims == {victims[i] : i \in DOMAIN victims}

(* delete_ids: one call, which commits its rows in whatever order; where the  *)
(* index absorbs in any, one will do.                                         *)
Commits(rows) == IF WaitsFor = "newest" THEN Orders(rows)
                                        ELSE {CHOOSE s \in Orders(rows) : TRUE}
Delete ==
    /\ pc = "delete"
    /\ table' = Without(Victims)
    /\ \E order \in Commits(Victims) : behind' = behind \o Dropped(order)
    /\ Go("syncDelete")
    /\ UNCHANGED <<indexed, books, writing, pool, reading>>

DeleteRaises ==
    /\ pc = "delete" /\ Faults
    /\ \E some \in SUBSET Victims : \E order \in Commits(some) :
         /\ table' = Without(some)
         /\ behind' = behind \o Dropped(order)
    /\ Abort("engine")
    /\ UNCHANGED <<indexed, books, writing, pool, reading>>

-----------------------------------------------------------------------------
Fresh == nextId + Len(victims)

(* The new ids, and the second pool of readers if the first one measured.     *)
StartReaders ==
    /\ pc = "readers"
    /\ nextId' = Fresh
    /\ IF baseline = "window"
         THEN /\ Go("warmup")
              /\ capture' = TRUE
              /\ phase' = "warming" /\ querying' = {} /\ delivered' = {}
         ELSE Go("connect") /\ UNCHANGED <<capture, pool>>
    /\ UNCHANGED <<server, step, idMap, churned, victims, records, writing,
                   baseline, during>>

(* reader_pool.start returns, or raises: nothing here catches it.             *)
ReadersStarted ==
    /\ pc = "warmup"
    /\ \/ phase = "open" /\ Go("connect")
       \/ phase = "raised" /\ Abort("readers")
       \/ phase = "crashed" /\ Abort("engine")
    /\ UNCHANGED <<server, books, writing, pool, reading>>

Connected == IF Cardinality(Writers) = 1 THEN Writers ELSE opened

Connect(w) ==
    /\ pc = "connect" /\ w \notin Connected
    /\ opened' = opened \cup {w}
    /\ UNCHANGED <<pc, server, books, taken, writer, slice, failed, late,
                   written, pool, reading, history>>

(* A writer that cannot connect: the others are closed and the exception goes *)
(* up, past the finally that stops the readers.                               *)
ConnectRaises ==
    /\ pc = "connect" /\ Connected # Writers /\ Faults
    /\ cause' = "engine" /\ UNCHANGED gaveUp
    /\ pc' = "stop"
    /\ UNCHANGED <<server, books, writing, pool, reading>>

BeginReinsert ==
    /\ pc = "connect" /\ Connected = Writers
    /\ written' = 0
    /\ writer' = [w \in Writers |-> "free"]
    /\ Go("reinsert")
    /\ UNCHANGED <<server, books, taken, slice, failed, late, opened, pool,
                   reading>>

BudgetEnds ==
    /\ pc = "reinsert" /\ Faults
    /\ late' = TRUE
    /\ UNCHANGED <<pc, server, books, taken, writer, slice, failed, written,
                   opened, pool, reading, history>>

Quits == failed \/ late \/ taken = Len(victims)

Leave(w) ==
    /\ pc = "reinsert" /\ writer[w] = "free"
    /\ Quits
    /\ writer' = [writer EXCEPT ![w] = "out"]
    /\ UNCHANGED <<pc, server, books, taken, slice, failed, late, written,
                   opened, pool, reading, history>>

(* pending.pop(0) is one step for all writers.                                *)
Take(w) ==
    /\ pc = "reinsert" /\ writer[w] = "free"
    /\ ~Quits
    /\ slice' = [slice EXCEPT ![w] = taken + 1]
    /\ taken' = taken + 1
    /\ writer' = [writer EXCEPT ![w] = "busy"]
    /\ UNCHANGED <<pc, server, books, failed, late, written, opened, pool,
                   reading, history>>

Put(i) == /\ table' = [table EXCEPT ![New(i)] = victims[i]]
          /\ behind' = Append(behind, [id |-> New(i), op |-> "add"])
          /\ UNCHANGED indexed

InsertRow(w) ==
    /\ pc = "reinsert" /\ writer[w] = "busy"
    /\ Put(slice[w])
    /\ written' = written + 1
    /\ writer' = [writer EXCEPT ![w] = "free"]
    /\ slice' = [slice EXCEPT ![w] = 0]
    /\ UNCHANGED <<pc, books, taken, failed, late, opened, pool,
                   reading, history>>

Counted == written

(* insert_rows raises; the server may have the rows all the same. The other   *)
(* writers finish the slice they are at.                                      *)
InsertRaises(w) ==
    /\ pc = "reinsert" /\ writer[w] = "busy" /\ Faults
    /\ Put(slice[w]) \/ UNCHANGED server
    /\ written' = Counted
    /\ failed' = TRUE
    /\ writer' = [writer EXCEPT ![w] = "out"]
    /\ slice' = [slice EXCEPT ![w] = 0]
    /\ UNCHANGED <<pc, books, taken, late, opened, pool, reading, history>>

ReinsertEnds ==
    /\ pc = "reinsert" /\ \A w \in Writers : writer[w] = "out"
    /\ opened' = {}
    /\ taken' = 0 /\ failed' = FALSE /\ late' = FALSE
    /\ slice' = [w \in Writers |-> 0]
    /\ Go("stop")
    /\ UNCHANGED <<server, books, writer, written, pool, reading>>

(* What the workload knows of the second pool when it has stopped it.         *)
Seen == IF baseline # "window" THEN "none"
        ELSE IF phase = "published" THEN "window" ELSE "failed"

Stop(isOver, captured) ==
    /\ pc = "stop" /\ isOver
    /\ during' = Seen
    /\ capture' = captured
    /\ opened' = {}
    /\ pc' = IF cause = "none" THEN "tally" ELSE "aborted"
    /\ UNCHANGED <<server, books, taken, writer, slice, failed, late, written,
                   pool, baseline, history>>

PoolIsOver == baseline = "window" => phase \in {"published", "raised"}

(* A plausible bug: a pool that fails to stop leaves the capture as it is.    *)
StopReaders_Unfinished == Stop(PoolIsOver, Seen = "failed")

(* The finally: the readers are stopped and the capture is finished whatever  *)
(* became of the writers.                                                     *)
StopReaders == Stop(PoolIsOver, FALSE)

Complete == written = Len(victims)

(* Every later fraction builds on this one: break.                            *)
AfterIncomplete == "ended"

Incomplete ==
    /\ pc = "tally" /\ ~Complete
    /\ Record("incomplete", step)
    /\ Go(AfterIncomplete)
    /\ UNCHANGED <<server, step, idMap, churned, nextId, victims, writing,
                   pool, reading>>

Place(o) == CHOOSE i \in DOMAIN victims : victims[i] = o

(* A plausible bug: the map learns the new ids in the order of the rows.      *)
Remapped_InOrder ==
    [o \in Rows |-> IF o \in Victims
                    THEN New(Cardinality({p \in Victims : p <= o}))
                    ELSE idMap[o]]

(* A plausible bug: the map forgets the rows it wrote back.                   *)
Remapped_Kept == idMap

Remapped == [o \in Rows |-> IF o \in Victims THEN New(Place(o)) ELSE idMap[o]]

Reinserted ==
    /\ pc = "tally" /\ Complete
    /\ IF baseline = "window" /\ during = "window"
         THEN Record("during", step) ELSE UNCHANGED records
    /\ idMap' = Remapped
    /\ churned' = Cumulative[step]
    /\ Go("syncInsert")
    /\ UNCHANGED <<server, step, nextId, victims, writing, pool, reading>>

ScoreBefore ==
    /\ pc = "scoreBefore"
    /\ Record("before", step)
    /\ Go("maintain")
    /\ UNCHANGED <<server, step, idMap, churned, nextId, victims, writing,
                   pool, reading>>

NextStep == step' = step + 1 /\ Go("step")

(* maintain: a repair is measured again, an engine without one is not.        *)
Maintain ==
    /\ pc = "maintain"
    /\ \/ Go("scoreAfter") /\ UNCHANGED step
       \/ NextStep
    /\ UNCHANGED <<server, idMap, churned, nextId, victims, records, writing,
                   pool, reading>>

ScoreAfter ==
    /\ pc = "scoreAfter"
    /\ Record("after", step)
    /\ NextStep
    /\ UNCHANGED <<server, idMap, churned, nextId, victims, writing, pool,
                   reading>>

-----------------------------------------------------------------------------
(* The readers, by their contract: warming while the workload is in start,    *)
(* and over only when it is in stop.                                          *)
PoolStarts == /\ pc \in {"readBase", "warmup"} /\ phase = "warming"
              /\ \/ Pool!Open
                 \/ Faults /\ (Pool!Raise \/ Pool!Crash)
              /\ UNCHANGED <<pc, server, books, writing, reading, history>>

PoolStops == /\ pc \in {"readBase", "stop"} /\ phase = "open"
             /\ \/ Pool!Publish
                \/ Faults /\ Pool!Raise
             /\ UNCHANGED <<pc, server, books, writing, reading, history>>

PoolRuns(r) == /\ \/ Pool!Begin(r) /\ pc \in {"readBase", "warmup"}
                  \/ Pool!End(r) /\ r \in querying
                  \/ Pool!Deliver(r) /\ pc \in {"readBase", "stop"}
               /\ UNCHANGED <<pc, server, books, writing, reading, history>>

Main == \/ Prepare \/ SyncBase \/ ScoreBase \/ Finish \/ SkipStep \/ BeginStep
        \/ BaselineEnds \/ Delete \/ SyncDelete \/ StartReaders
        \/ ReadersStarted \/ BeginReinsert \/ ReinsertEnds \/ StopReaders
        \/ Incomplete \/ Reinserted \/ SyncInsert \/ ScoreBefore \/ Maintain
        \/ ScoreAfter
        \/ \E w \in Writers : Connect(w)

Raises == EngineRaises \/ DeleteRaises \/ ConnectRaises
Writer(w) == Leave(w) \/ Take(w) \/ InsertRow(w) \/ InsertRaises(w)

Next == \/ Main \/ Raises \/ Absorb \/ BudgetEnds \/ PoolStarts \/ PoolStops
        \/ \E w \in Writers : Writer(w)
        \/ \E r \in Readers : PoolRuns(r)

Spec == Init /\ [][Next]_vars

(* Every call of the driver comes back, and start and stop of the pool end    *)
(* (which ClientPool shows). The index may never absorb what was written.     *)
Fairness == /\ WF_vars(Main)
            /\ WF_vars(PoolStarts) /\ WF_vars(PoolStops)
            /\ \A w \in Writers : WF_vars(Writer(w))
            /\ \A r \in Readers : WF_vars(PoolRuns(r))
FairSpec == Spec /\ Fairness

-----------------------------------------------------------------------------
Scoring == pc \in {"scoreBase", "scoreBefore", "scoreAfter"}

(* Whenever recall is scored, the table is the corpus the translated ground   *)
(* truth speaks of: every original row once, under the id the map gives it,   *)
(* and no other row (churn.py: an incomplete corpus "describes a state that   *)
(* is neither the baseline nor a churned corpus").                            *)
ScoredCorpusIsWhole ==
    Scoring => \A id \in Ids : table[id] = (IF \E o \in Rows : idMap[o] = id
                                           THEN CHOOSE o \in Rows : idMap[o] = id
                                           ELSE None)

(* No vector is in the table under two ids, not even while several writers    *)
(* re-insert it: a duplicate would answer two of a query's k.                 *)
VectorOnce ==
    \A i, j \in Ids : (i # j /\ table[i] # None) => table[i] # table[j]

(* Recall is scored on a server left alone: no reader queries it, no writer   *)
(* holds a slice or a connection, no snapshot of its waits is still open.     *)
ScoredAlone ==
    Scoring => /\ querying = {} /\ opened = {} /\ ~capture
               /\ \A w \in Writers : writer[w] = "out"

(* Unless a wait for the index gave up, the index that is scored has all that *)
(* was written: "the point of waiting is that the numbers after it describe   *)
(* an index that has the writes" (churn.py:517-518).                          *)
ScoredIsIndexed == (Scoring /\ ~gaveUp) => indexed = {id \in Ids : table[id] # None}

(* The count the re-insert is judged by never exceeds the rows that arrived,  *)
(* whatever writers raised and however late the budget ended: a row that is   *)
(* counted is in the table.                                                   *)
CountedIsWritten ==
    pc = "tally" => written <= Cardinality({id \in NewIds : table[id] # None})

(* A re-insert that did not complete ends the workload, and what the readers  *)
(* saw is only recorded of one that did, between the two records around it.   *)
Before(kind) == IF kind = "after" THEN {"before"}
                ELSE IF kind = "before" THEN {"baseline", "before", "after", "during"}
                ELSE {"baseline", "before", "after"}
RecordsFollow ==
    \A i \in DOMAIN records :
        /\ i = 1 <=> records[i].kind = "baseline"
        /\ i > 1 => records[i - 1].kind \in Before(records[i].kind)
        /\ records[i].kind = "after" => records[i - 1].step = records[i].step

(* Rows survive the re-insert: each is in the table once, what is counted was *)
(* written, and the records tell of complete re-inserts only.                 *)
WritesAreKept == VectorOnce /\ CountedIsWritten /\ RecordsFollow

(* When the workload is over, by its end or by an exception, none of the      *)
(* readers whose start returned goes on querying.                             *)
ReadersAreStopped ==
    (pc \in {"ended", "aborted"} /\ phase # "crashed") => querying = {}

(* Nobody is at work beside a scoring, nor after the end.                     *)
NobodyIsLeft == ScoredAlone /\ ReadersAreStopped

(* The workload comes to an end even if writers die, the budget ends and the  *)
(* index never catches up.                                                    *)
WorkloadEnds == <>(pc \in {"ended", "aborted"})
=============================================================================
