--------------------------- MODULE MyVectorDriver ---------------------------
(* MyVector's driver (harness/drivers/myvector.py): a graph that changes only *)
(* when it is built, or refreshed with the rows written since the second of   *)
(* its last build; deleted rows stay in it, and past its declared capacity it *)
(* takes the server down.                                                     *)
EXTENDS DriverState

IsMyVector == unit.driver = "MyVectorDriver"

(* An incremental index is refused: the listener that would keep it is dead.  *)
MyVectorSchema ==
    /\ pc = "schema" /\ IsMyVector
    /\ \/ unit.mode = "incremental" /\ UnitEnds
       \/ /\ unit.mode # "incremental"
          /\ srv' = EmptyServer /\ drv' = [main |-> NewDriver]
          /\ GoTo("load") /\ Kept /\ NoFault
          /\ UNCHANGED <<cache, tmp>> /\ UNCHANGED restVars

(* The room a build declares for itself, never less than before.              *)
CapacityFor(rows, before) ==
    Larger(before, ((3 * rows + 1) \div 2) + CapacityMargin)

(* A build or a refresh that reports another number of rows is a failure.     *)
CheckBuildResult(reported, rows) == reported = rows

VerifyStatus(status, capacity, rows) ==
    status.capacity = capacity /\ status.elements = rows

(* What the server then has, and what its status and result say of it. Rows   *)
(* are stamped to the second: the sleep past the build's own second is why a  *)
(* row written next is seen by the next refresh.                              *)
Built(s, rows, capacity) ==
    [s EXCEPT !.index = DOMAIN s.table, !.unseen = {}, !.built = TRUE,
              !.capacity = capacity]
StatusOf(s) == [capacity |-> s.capacity, elements |-> Cardinality(s.index)]

Build(next) ==
    LET rows == Cardinality(LiveIds)
        capacity == CapacityFor(rows, drv["main"].capacity)
        after == Built(srv, rows, capacity)
    IN /\ CheckBuildResult(Cardinality(after.index), rows)
       /\ VerifyStatus(StatusOf(after), capacity, rows)
       /\ srv' = after
       /\ drv' = [drv EXCEPT !["main"].capacity = capacity,
                             !["main"].elements = rows,
                             !["main"].pending = 0]
       /\ GoTo(next) /\ NoFault

MyVectorIndex ==
    /\ pc = "index" /\ IsMyVector /\ Build("filters")
    /\ Kept /\ UNCHANGED <<cache, tmp>> /\ UNCHANGED restVars

(* A driver refuses rows that would not fit, counting those of its own that   *)
(* the graph has yet to take. A writer of a parallel re-insert starts without *)
(* a capacity, and refuses nothing.                                           *)
(* A plausible bug: only the graph's own elements are counted.                *)
RefusesRows_Elements(d, count) ==
    d.capacity # 0 /\ d.elements + count > d.capacity
RefusesRows(d, count) ==
    d.capacity # 0 /\ d.elements + d.pending + count > d.capacity

(* The refresh takes what is new into the graph, and its count must be what   *)
(* the driver wrote itself.                                                   *)
Refreshed(s) == [s EXCEPT !.index = @ \cup s.unseen, !.unseen = {}]
RefreshIndex ==
    LET d == drv["main"]
        after == Refreshed(srv)
        total == d.elements + d.pending
    IN /\ pc \in {"sync", "sync_deletes", "sync_writes"} /\ IsMyVector
       /\ \/ /\ CheckBuildResult(Cardinality(srv.unseen), d.pending)
             /\ VerifyStatus(StatusOf(after), d.capacity, total)
             /\ srv' = after
             /\ drv' = [drv EXCEPT !["main"].elements = total,
                                   !["main"].pending = 0,
                                   !["main"].note = "refreshed"]
             /\ GoTo(Synced(pc))
             /\ NoFault /\ Kept /\ UNCHANGED <<cache, tmp>> /\ UNCHANGED restVars
          \/ /\ ~ CheckBuildResult(Cardinality(srv.unseen), d.pending)
             /\ UnitEnds

(* The repair is a build of the rows that are there.                          *)
Rebuild ==
    /\ pc = "maintain" /\ IsMyVector /\ Build("done")
    /\ Kept /\ UNCHANGED <<cache, tmp>> /\ UNCHANGED restVars

MyVectorNext == MyVectorSchema \/ MyVectorIndex \/ RefreshIndex \/ Rebuild
=============================================================================
