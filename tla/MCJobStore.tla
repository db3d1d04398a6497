----------------------------- MODULE MCJobStore -----------------------------
(* Values for the constants of JobStore: a benchmark and a setup job. The     *)
(* races between request threads and the troubles of a disk and of a restart  *)
(* are explored in behaviours of their own, because together they are more    *)
(* states than a temporal property can be checked on.                         *)
EXTENDS JobStore

MCTwoSpecs == {"run", "fetch"}
MCMeasurements == {"run"}

VARIABLE mode

(* "threads": any number of requests at once; every write succeeds, every     *)
(* command starts and the server stays up.                                    *)
Threads ==
    /\ restarts' = restarts
    /\ jobs' # jobs => disk' = jobs'
    /\ \A h \in Handlers :
         handler[h].pc = "named" => handler'[h].pc \in {"named", "spawned"}

(* "trouble": one request at a time, always of the same thread; any write may *)
(* fail, any command too, and the server restarts.                            *)
Only == CHOOSE h \in Handlers : TRUE
Trouble == \A h \in Handlers \ {Only} : handler'[h].pc = "idle"

(* The clock moves on only once a job has been named in its second: two jobs  *)
(* of one later second are two jobs of this one.                              *)
SecondIsUsed ==
    clock' # clock => \/ jobs[clock] # None
                      \/ \E h \in Handlers : handler[h].id = clock

MCInit == Init /\ mode \in {"threads", "trouble"}
MCNext == /\ Next
          /\ mode' = mode
          /\ IF mode = "threads" THEN Threads ELSE Trouble
          /\ SecondIsUsed
MCFairSpec == MCInit /\ [][MCNext]_<<vars, mode>> /\ Fairness
=============================================================================
