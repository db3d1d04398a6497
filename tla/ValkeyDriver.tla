---------------------------- MODULE ValkeyDriver ----------------------------
(* Valkey's driver (harness/drivers/valkey.py): an index that follows the     *)
(* keyspace through a queue, waited for by its document count and the queue's *)
(* own reading, and writes that stall and are retried at smaller sizes.       *)
EXTENDS DriverState

IsValkey == unit.driver = "ValkeyDriver"

(* The index the mode wants before the load is created with the schema.       *)
ValkeySchema ==
    /\ pc = "schema" /\ IsValkey
    /\ srv' = [EmptyServer EXCEPT !.built = unit.mode = "incremental"]
    /\ drv' = [main |-> NewDriver]
    /\ GoTo("load") /\ Kept /\ NoFault
    /\ UNCHANGED cacheVars /\ UNCHANGED restVars

(* The index that is not there yet is created, and the backfill waited for: a *)
(* failed FT.INFO reads as no progress.                                       *)
ValkeyIndex ==
    /\ pc = "index" /\ IsValkey
    /\ srv' = [srv EXCEPT !.built = TRUE]
    /\ GoTo("backfill") /\ Kept /\ NoFault
    /\ UNCHANGED <<drv, cache, tmp>> /\ UNCHANGED restVars

BackfillProgress(answers) ==
    IF answers THEN [whole |-> LiveIds \subseteq srv.index, indexing |-> srv.index # LiveIds]
    ELSE [whole |-> FALSE, indexing |-> TRUE]

WaitForBackfill ==
    /\ pc = "backfill" /\ IsValkey
    /\ \E answers \in BOOLEAN :
          LET p == BackfillProgress(answers)
          IN \/ /\ p.whole /\ ~ p.indexing
                /\ GoTo("filters") /\ NoFault /\ Kept
                /\ UNCHANGED <<srv, drv, cache, tmp>> /\ UNCHANGED restVars
             \/ (~ p.whole \/ p.indexing) /\ (UNCHANGED unitVars \/ UnitEnds)

-----------------------------------------------------------------------------
(* The documents the index says it has, when it says anything; the same       *)
(* reading is what the driver counts rows by, and no answer is no rows.       *)
CountRows(answers) == IF answers THEN Cardinality(srv.index) ELSE 0

(* Whether the document count lets a wait end, and what it then says. A count *)
(* on the target ends a wait for it; off it, one that has stopped moving does,*)
(* and not before the floor; a delete waits for it to fall far enough; and no *)
(* count at all ends any wait.                                                *)
(* A plausible bug: a re-insert is waited for as a delete is.                 *)
DocsReady_AtMost(docs, expected, how, settled, late) ==
    IF docs = None THEN <<TRUE, "no count">>
    ELSE IF expected = None THEN <<settled >= SettledPolls, "stopped moving">>
    ELSE IF docs <= expected THEN <<TRUE, "reached the count">>
    ELSE <<FALSE, "off target">>
DocsReady(docs, expected, how, settled, late) ==
    IF docs = None THEN <<TRUE, "no count">>
    ELSE IF expected = None THEN <<settled >= SettledPolls, "stopped moving">>
    ELSE IF how = "equal"
         THEN IF docs = expected THEN <<TRUE, "reached the count">>
              ELSE <<settled >= SettledPolls /\ late, "off target">>
    ELSE <<docs <= expected, "fell to the count">>

Waiting(expected, how) ==
    [expected |-> expected, how |-> how, previous |-> None, settled |-> 0,
     late |-> FALSE]

(* What the wait for a count of a churn step says of the index it leaves.     *)
SyncNote(ended) ==
    CASE ended = "gave up" -> "gave up"
      [] ended = "off target" -> "off target"
      [] ended = "no count" -> "no count"
      [] OTHER -> "settled"

MutationsEnd(ended) ==
    /\ drv' = IF pc = "mutations" THEN [drv EXCEPT !["main"].deletes = ended]
              ELSE [drv EXCEPT !["main"].note = SyncNote(ended)]
    /\ poll' = None
    /\ churn' = [churn EXCEPT !.ended = @ \cup {ended}]
    /\ GoTo(IF pc = "mutations" THEN "deleted" ELSE Synced(pc))

(* One poll. The queue's reading is what is left for the index to follow, or  *)
(* nothing while there still is something: it has been seen to drain early.   *)
(* FT.INFO may fail, and a build may publish no count of its queue. Late is   *)
(* past the floor of thirty seconds, and only then can the whole wait be up.  *)
WaitForMutations ==
    /\ pc \in {"mutations", "sync", "sync_deletes", "sync_writes"}
    /\ IsValkey /\ poll # None
    /\ \E answers \in BOOLEAN, late \in {poll.late, TRUE},
          queued \in {None, 0, Cardinality((LiveIds \ srv.index) \cup (srv.index \ LiveIds))} :
          LET docs == IF answers THEN Cardinality(srv.index) ELSE None
              settled == IF docs = poll.previous
                         THEN Smaller(SettledPolls, poll.settled + 1) ELSE 0
              end == DocsReady(docs, poll.expected, poll.how, settled, late)
              drained == ~ answers \/ queued \in {None, 0}
          IN IF drained /\ end[1] THEN MutationsEnd(end[2])
             ELSE \/ /\ poll' = [poll EXCEPT !.previous = docs, !.late = late,
                                             !.settled = settled]
                     /\ UNCHANGED <<pc, drv, churn>>
                  \/ late /\ MutationsEnd("gave up")
    /\ Kept /\ NoFault /\ UNCHANGED <<srv, cache, tmp>>
    /\ UNCHANGED <<attrs, loaders, filters, score, window>>

-----------------------------------------------------------------------------
(* One write of a re-insert. It returns, or it does not: then any part of it  *)
(* may have reached the server, and the driver goes down the ladder of sizes. *)
(* The first stall probes them, each on a connection of its own, and keeps the*)
(* largest that returned; a later one halves the size; at one row, or with no *)
(* size that returns, the driver gives up.                                    *)
ProbeSizes == {1, 2, 3, 5, 10, 100, 1000}
LargestWorking(size, working) ==
    LET tried == {n \in ProbeSizes : n <= size} \cap working
    IN IF tried = {} THEN 0 ELSE CHOOSE n \in tried : \A m \in tried : m <= n

NextBatch(d, size, working) ==
    IF d.probed THEN IF d.batch <= 1 THEN None ELSE Larger(1, d.batch \div 2)
    ELSE IF LargestWorking(size, working) = 0 THEN None
         ELSE LargestWorking(size, working)

RowsOf(w, first, last) ==
    [id \in {w.ids[i] : i \in first .. last} |->
        LET i == CHOOSE j \in first .. last : w.ids[j] = id
        IN [row |-> w.rows[i], tag |-> attrs.tag[w.rows[i]],
            ctag |-> attrs.ctag[w.rows[i]]]]

(* What of a write has reached the server when it has not returned in time:   *)
(* nothing of it, or all of it behind an answer that was lost.                *)
StalledParts(size) == {0, size}

(* The write of a slice of the churn step, by the driver of that name.        *)
ValkeyWrite(name) ==
    LET w == churn.writing[name]
        d == drv[name]
        size == Smaller(d.batch, Len(w.ids) - w.cursor)
        reached(n) == IF n = 0 THEN srv
                      ELSE Put(srv, RowsOf(w, w.cursor + 1, w.cursor + n))
    IN \/ /\ srv' = reached(size)
          /\ churn' = [churn EXCEPT !.writing[name].cursor = @ + size]
          /\ NoFault /\ UNCHANGED drv
       \/ /\ Fault
          /\ \E n \in StalledParts(size), working \in SUBSET (1 .. size) :
                /\ srv' = reached(Larger(n, LargestWorking(size,
                                              IF d.probed THEN {} ELSE working)))
                /\ drv' = [drv EXCEPT ![name].probed = TRUE,
                               ![name].batch = IF NextBatch(d, size, working) = None
                                               THEN @
                                               ELSE NextBatch(d, size, working)]
                /\ churn' =
                      [churn EXCEPT !.writing[name] =
                          IF NextBatch(d, size, working) = None
                          THEN [w EXCEPT !.failed = TRUE] ELSE w]

ValkeyNext ==
    ValkeySchema \/ ValkeyIndex \/ WaitForBackfill \/ WaitForMutations
=============================================================================
