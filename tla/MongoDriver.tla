----------------------------- MODULE MongoDriver -----------------------------
(* The driver of MongoDB with mongot (harness/drivers/mongo.py): the index is *)
(* another process that follows the collection, and the only question the     *)
(* driver can ask of it is a search.                                          *)
EXTENDS DriverState

IsMongo == unit.driver = "MongoDriver"

MongoSchema ==
    /\ pc = "schema" /\ IsMongo
    /\ srv' = EmptyServer /\ drv' = [main |-> NewDriver]
    /\ GoTo("load") /\ Kept /\ NoFault
    /\ UNCHANGED cacheVars /\ UNCHANGED restVars

(* The index is asked for once, and then asked after until it is ready.       *)
MongoIndex ==
    /\ pc = "index" /\ IsMongo
    /\ srv' = [srv EXCEPT !.built = TRUE]
    /\ GoTo("ready") /\ Kept /\ NoFault
    /\ UNCHANGED <<drv, cache, tmp>> /\ UNCHANGED restVars

(* A listing that fails is UNKNOWN, an index that is not in it DOES_NOT_EXIST.*)
IndexStatus(listed, status) ==
    IF ~ listed THEN "UNKNOWN"
    ELSE IF status = None THEN "DOES_NOT_EXIST" ELSE status

WaitUntilReady ==
    /\ pc = "ready" /\ IsMongo
    /\ \E listed \in BOOLEAN, status \in {None, "PENDING", "READY", "FAILED"} :
          /\ status = "READY" => srv.index = LiveIds
          /\ \/ /\ IndexStatus(listed, status) = "READY" /\ GoTo("filters")
                /\ NoFault /\ Kept
                /\ UNCHANGED <<srv, drv, cache, tmp>> /\ UNCHANGED restVars
             \/ /\ IndexStatus(listed, status) \in {"UNKNOWN", "PENDING"}
                /\ UNCHANGED unitVars
             \/ /\ IndexStatus(listed, status) # "READY"  \* at once, or in the end
                /\ UnitEnds

(* The wait of a churn step: first a deleted row until it is no longer found, *)
(* then a written one until it is. The harness says which; without a word the *)
(* newest row the driver wrote is looked for, and without one nothing is. A   *)
(* search that fails says neither.                                            *)
Sought == IF poll.present # None THEN poll.present ELSE drv["main"].newest
Awaited ==
    IF poll.absent # None /\ ~ poll.gone THEN "absent"
    ELSE IF poll.absent # None /\ poll.present = None THEN "nothing"
    ELSE IF Sought = None THEN "nothing" ELSE "present"

Probe(succeeds) == IF succeeds THEN srv.index ELSE None

IsGone(row, hits) == hits # None /\ row \notin hits
IsFound(row, hits) == hits # None /\ row \in hits

MongoSynced(note) ==
    /\ drv' = [drv EXCEPT !["main"].note = note]
    /\ poll' = None /\ GoTo(Synced(pc))

ProbeAbsent ==
    /\ Awaited = "absent"
    /\ \E succeeds \in BOOLEAN, late \in BOOLEAN :
          \/ /\ IsGone(poll.absent, Probe(succeeds))
             /\ poll' = [poll EXCEPT !.gone = TRUE, !.said = "row gone"]
             /\ UNCHANGED <<pc, drv>>
          \/ /\ ~ IsGone(poll.absent, Probe(succeeds))
             /\ poll' = IF late THEN [poll EXCEPT !.gone = TRUE, !.said = "gave up"]
                        ELSE poll
             /\ UNCHANGED <<pc, drv>>

ProbePresent ==
    /\ Awaited = "present"
    /\ \E succeeds \in BOOLEAN, late \in BOOLEAN :
          \/ IsFound(Sought, Probe(succeeds)) /\ MongoSynced("row found")
          \/ /\ ~ IsFound(Sought, Probe(succeeds))
             /\ IF late THEN MongoSynced("gave up") ELSE UNCHANGED <<pc, drv, poll>>

NothingSought ==
    /\ Awaited = "nothing"
    /\ MongoSynced(IF poll.absent # None THEN poll.said ELSE "nothing written")

MongoWait ==
    /\ pc \in {"sync", "sync_deletes", "sync_writes"} /\ IsMongo /\ poll # None
    /\ ProbeAbsent \/ ProbePresent \/ NothingSought
    /\ Kept /\ NoFault /\ UNCHANGED <<srv, cache, tmp>>
    /\ UNCHANGED <<attrs, loaders, filters, score, churn, window>>

MongoNext == MongoSchema \/ MongoIndex \/ WaitUntilReady \/ MongoWait
=============================================================================
