--------------------------- MODULE JobStoreProofs ---------------------------
(* The safety properties of the job supervisor, for any number of request     *)
(* threads, commands, seconds and restarts.                                   *)
EXTENDS JobStore, TLAPS

(* A record is about a process that was started under its id, and names it    *)
(* with the command it runs; where the id is that process's alone, it says    *)
(* nothing of it that is not so. RecordHolds is the last part.                *)
RecordHolds(job) ==
    /\ job.status \in Finished => ~Running(job.pid)
    /\ job.exit # None => /\ ~Running(job.pid)
                          /\ job.exit = proc[job.pid].code
    /\ job.status = "completed" /\ job.exit # None => job.exit = 0
    /\ job.status \in {"failed", "stopped"} => job.exit # 0

RowHolds(id, job) ==
    /\ Started(job.pid)
    /\ proc[job.pid].id = id
    /\ job.spec = proc[job.pid].spec
    /\ ~Shared(id) => RecordHolds(job)

TableHolds(table) == \A id \in Ids : table[id] # None => RowHolds(id, table[id])

(* A launch's process, once it has one, runs the command that was asked for   *)
(* under the id of the launch, is of no other launch, and is in no table.     *)
HandlersHold ==
    \A h \in Handlers :
        LET me == handler[h] IN
        /\ me.pc \in {"asked", "cleared", "named", "spawned"} => me.spec \in Specs
        /\ me.pc \in {"named", "spawned"} => me.id \in Ids
        /\ me.pc = "spawned" =>
             /\ me.pid \in Pids
             /\ Started(me.pid)
             /\ proc[me.pid].spec = me.spec
             /\ proc[me.pid].id = me.id
             /\ ~Recorded(me.pid, jobs) /\ ~Recorded(me.pid, disk)
             /\ \A g \in Handlers \ {h} :
                    handler[g].pc = "spawned" => handler[g].pid # me.pid
        /\ me.pc \in {"signalling", "signalled"} => me.id \in Ids /\ me.pid \in Pids

(* A reaper waits for a process that was started under the id it will close,  *)
(* and a process that has been waited for is gone.                            *)
ReapersHold ==
    \A p \in Pids :
        /\ reaper[p].pc # "none" => /\ Started(p)
                                    /\ reaper[p].id \in Ids
                                    /\ proc[p].id = reaper[p].id
                                    /\ jobs[reaper[p].id] # None
        /\ reaper[p].pc = "waited" => proc[p].st = "gone"

StoreInv == /\ TypeOK /\ HandlersHold /\ ReapersHold
            /\ TableHolds(jobs) /\ TableHolds(disk)

(* What a launch had seen filed (its prior) is not in a launch any more, and  *)
(* if it runs, is not compatible with what was asked for, and has its id for  *)
(* itself, no record speaks for it: conflict_for would have found it.         *)
Unseen(p, s) ==
    Running(p) /\ ~Shared(proc[p].id) /\ {proc[p].spec, s} \cap Measurements # {}
    => ~Recorded(p, jobs)

PriorHolds(prior, s) == \A p \in prior : Started(p) /\ ~Launching(p) /\ Unseen(p, s)

LaunchesHold == /\ \A h \in Handlers : PriorHolds(handler[h].prior, handler[h].spec)
                /\ \A q \in Pids : PriorHolds(proc[q].prior, proc[q].spec)

(* What the file has of a command with an id of its own, memory has; and      *)
(* under a server that never went down, a command is about to be filed, has   *)
(* been, or shares its id.                                                    *)
FileIsBehind == \A p \in Pids : Recorded(p, disk) /\ ~Shared(proc[p].id)
                                => Recorded(p, jobs)

StartedIsKnown == restarts = 0 =>
    \A p \in Pids : Started(p) => \/ Launching(p)
                                  \/ Recorded(p, jobs)
                                  \/ Shared(proc[p].id)

AloneInv == LaunchesHold /\ FileIsBehind /\ StartedIsKnown

(* What a request thread does to the table of threads.                        *)
LEMMA GotoMoves ==
    ASSUME TypeOK, NEW h \in Handlers, NEW pc \in {"asked", "cleared", "named",
               "spawned", "signalling", "signalled"}, Goto(h, pc)
    PROVE  /\ handler' \in [Handlers -> Requests]
           /\ handler'[h].pc = pc
           /\ handler'[h].spec = handler[h].spec
           /\ handler'[h].id = handler[h].id
           /\ handler'[h].pid = handler[h].pid
           /\ handler'[h].prior = handler[h].prior
           /\ \A g \in Handlers \ {h} : handler'[g] = handler[g]
PROOF
  BY DEF TypeOK, Requests, Goto

LEMMA ReturnMoves ==
    ASSUME TypeOK, NEW h \in Handlers, Return(h)
    PROVE  /\ handler' \in [Handlers -> Requests]
           /\ handler'[h].pc = "idle"
           /\ handler'[h].prior = {}
           /\ \A g \in Handlers \ {h} : handler'[g] = handler[g]
PROOF
  BY DEF TypeOK, Requests, Return, Idle

LEMMA ClearMoves ==
    ASSUME TypeOK, NEW h \in Handlers, LaunchConflict(h),
           ~Conflict(handler[h].spec)
    PROVE  /\ handler' \in [Handlers -> Requests]
           /\ handler'[h].pc = "cleared"
           /\ handler'[h].spec = handler[h].spec
           /\ handler'[h].prior = {p \in Pids : Started(p) /\ ~Launching(p)}
           /\ \A g \in Handlers \ {h} : handler'[g] = handler[g]
PROOF
<1> DEFINE filed == {p \in Pids : Started(p) /\ ~Launching(p)}
           cleared == [handler[h] EXCEPT !.pc = "cleared", !.prior = filed]
<1>1. handler[h] \in Requests /\ filed \in SUBSET Pids
  BY DEF TypeOK
<1>2. handler' = [handler EXCEPT ![h] = cleared]
  BY DEF LaunchConflict
<1> HIDE DEF filed
<1>3. /\ cleared \in Requests
      /\ cleared.pc = "cleared" /\ cleared.spec = handler[h].spec
      /\ cleared.prior = filed
  BY <1>1 DEF Requests
<1> HIDE DEF cleared
<1>4. QED
  BY <1>2, <1>3 DEF TypeOK, filed

(* One record of the table in memory is replaced, and the file may follow.    *)
Replaces(id, job) ==
    /\ jobs' \in JobTables
    /\ disk' \in JobTables
    /\ jobs'[id] = job
    /\ \A other \in Ids \ {id} : jobs'[other] = jobs[other]
    /\ disk' = disk \/ disk' = jobs'

LEMMA TableMoves ==
    ASSUME TypeOK, NEW id \in Ids, NEW job \in Records, NEW table,
           table = [jobs EXCEPT ![id] = job], jobs' = table, Persist(table)
    PROVE  Replaces(id, job)
PROOF
  BY DEF TypeOK, JobTables, Persist, Replaces

(* What a handler finds when it marks a job as stopping, and what a reaper    *)
(* writes about its process.                                                  *)
Marked(id) == [jobs[id] EXCEPT !.status = "stopping"]
Verdict(p) == [jobs[reaper[p].id] EXCEPT
                  !.status = OutcomeOf(jobs[reaper[p].id], proc[p].code),
                  !.exit = proc[p].code]

LEMMA MarkedIsRecord ==
    ASSUME TypeOK, NEW id \in Ids, jobs[id] # None
    PROVE  /\ Marked(id) \in Records
           /\ Marked(id) = [spec |-> jobs[id].spec, status |-> "stopping",
                            pid |-> jobs[id].pid, exit |-> jobs[id].exit]
PROOF
<1>1. jobs[id] \in Records
  BY DEF TypeOK, JobTables
<1>2. QED
  BY <1>1 DEF Records, Marked

LEMMA VerdictIsRecord ==
    ASSUME TypeOK, NEW p \in Pids, reaper[p].id \in Ids,
           jobs[reaper[p].id] # None
    PROVE  /\ Verdict(p) \in Records
           /\ Verdict(p).spec = jobs[reaper[p].id].spec
           /\ Verdict(p).pid = jobs[reaper[p].id].pid
           /\ Verdict(p).exit = proc[p].code
           /\ Verdict(p).status \in {"completed", "stopped", "failed"}
           /\ Verdict(p).status = "completed" <=> proc[p].code = 0
PROOF
<1> DEFINE job == jobs[reaper[p].id]
           verdict == OutcomeOf(job, proc[p].code)
<1>1. job \in Records /\ proc[p] \in Processes
  BY DEF TypeOK, JobTables
<1>2. verdict \in {"completed", "stopped", "failed"}
      /\ (verdict = "completed" <=> proc[p].code = 0)
  BY Zenon DEF OutcomeOf
<1>3. Verdict(p) = [spec |-> job.spec, status |-> verdict, pid |-> job.pid,
                    exit |-> proc[p].code]
  <2> HIDE DEF verdict
  <2>1. Verdict(p) = [job EXCEPT !.status = verdict, !.exit = proc[p].code]
    BY DEF Verdict, verdict
  <2> HIDE DEF job
  <2>2. QED
    BY <1>1, <2>1 DEF Records
<1> HIDE DEF job, verdict
<1>4. QED
  BY <1>1, <1>2, <1>3 DEF Records, Processes, Finished, job

(* What a restarted server finds: commands that ended with the old one or run *)
(* on, and the file's records, those of commands that are gone orphaned.      *)
LEMMA RestartMoves ==
    ASSUME TypeOK, Restart
    PROVE  /\ proc' \in [Pids -> Processes]
           /\ \A p \in Pids :
                /\ proc[p].st = "unborn" <=> proc'[p].st = "unborn"
                /\ proc'[p].spec = proc[p].spec
                /\ proc'[p].id = proc[p].id
                /\ proc'[p].prior = proc[p].prior
                /\ proc'[p].st = "running" => proc[p].st = "running"
                /\ proc[p].code # None => proc'[p].code = proc[p].code
           /\ jobs' \in JobTables
           /\ \A id \in Ids :
                \/ jobs'[id] = disk[id]
                \/ /\ disk[id] # None
                   /\ disk[id].status = "running"
                   /\ proc'[disk[id].pid].st \notin {"running", "zombie"}
                   /\ jobs'[id] = [spec |-> disk[id].spec, status |-> "orphaned",
                                   pid |-> disk[id].pid, exit |-> disk[id].exit]
                   /\ jobs'[id] # None
PROOF
<1> USE JobStoreAssumption, NoneIsNoRecord
<1>1. PICK alive \in {Pids, {}} : /\ proc' = Abandoned(alive)
                                  /\ jobs' = Load(disk, proc')
  BY DEF Restart
<1>2. ASSUME NEW p \in Pids
      PROVE  /\ proc'[p] \in Processes
             /\ proc[p].st = "unborn" <=> proc'[p].st = "unborn"
             /\ proc'[p].spec = proc[p].spec
             /\ proc'[p].id = proc[p].id
             /\ proc'[p].prior = proc[p].prior
             /\ proc'[p].st = "running" => proc[p].st = "running"
             /\ proc[p].code # None => proc'[p].code = proc[p].code
  <2>1. proc[p] \in Processes
    BY DEF TypeOK
  <2>2. CASE proc[p].st = "unborn"
    BY <1>1, <2>1, <2>2 DEF Abandoned
  <2>3. CASE proc[p].st # "unborn"
    <3> DEFINE code == IF proc[p].code = None /\ p \notin alive THEN 1
                                                               ELSE proc[p].code
               st == IF proc[p].st = "running" /\ p \in alive THEN "running"
                                                              ELSE "gone"
    <3>1. proc'[p] = [proc[p] EXCEPT !.child = FALSE, !.code = code, !.st = st]
      BY <1>1, <2>3 DEF Abandoned
    <3>2. proc'[p] = [st |-> st, code |-> code, spec |-> proc[p].spec,
                      child |-> FALSE, id |-> proc[p].id, prior |-> proc[p].prior]
      <4> HIDE DEF code, st
      <4>1. QED
        BY <2>1, <3>1 DEF Processes
    <3>3. QED
      BY <2>1, <2>3, <3>2 DEF Processes, Codes
  <2>4. QED
    BY <2>2, <2>3
<1>3. proc' \in [Pids -> Processes]
  <2>1. proc' = [p \in Pids |-> proc'[p]]
    BY <1>1 DEF Abandoned
  <2>2. QED
    BY <1>2, <2>1
<1>4. ASSUME NEW id \in Ids
      PROVE  /\ jobs'[id] \in Records \cup {None}
             /\ \/ jobs'[id] = disk[id]
                \/ /\ disk[id] # None
                   /\ disk[id].status = "running"
                   /\ proc'[disk[id].pid].st \notin {"running", "zombie"}
                   /\ jobs'[id] = [spec |-> disk[id].spec, status |-> "orphaned",
                                   pid |-> disk[id].pid, exit |-> disk[id].exit]
                   /\ jobs'[id] # None
  <2> DEFINE orphan == /\ disk[id] # None
                       /\ disk[id].status = "running"
                       /\ proc'[disk[id].pid].st \notin {"running", "zombie"}
  <2>1. disk[id] \in Records \cup {None}
    BY DEF TypeOK, JobTables
  <2>2. CASE ~orphan
    BY <1>1, <2>1, <2>2 DEF Load
  <2>3. CASE orphan
    <3>1. jobs'[id] = [disk[id] EXCEPT !.status = "orphaned"]
      BY <1>1, <2>3 DEF Load
    <3>2. disk[id] \in Records
      BY <2>1, <2>3
    <3>3. jobs'[id] = [spec |-> disk[id].spec, status |-> "orphaned",
                      pid |-> disk[id].pid, exit |-> disk[id].exit]
      BY <3>1, <3>2 DEF Records
    <3>4. jobs'[id] \in Records
      BY <3>2, <3>3 DEF Records, Finished
    <3>5. QED
      BY <2>3, <3>3, <3>4
  <2>4. QED
    BY <2>2, <2>3
<1>5. jobs' \in JobTables
  <2>1. jobs' = [id \in Ids |-> jobs'[id]]
    BY <1>1 DEF Load
  <2>2. QED
    BY <1>4, <2>1 DEF JobTables
<1>6. QED
  BY <1>2, <1>3, <1>4, <1>5

(* What is read on the way: a request in the middle of a launch or a stop, and *)
(* a reaper at work, hold what they need.                                      *)
LEMMA LaunchHolds ==
    ASSUME TypeOK, HandlersHold, NEW h \in Handlers
    PROVE  /\ handler[h].pc \in {"asked", "cleared", "named", "spawned"}
              => handler[h].spec \in Specs
           /\ handler[h].pc = "spawned" => /\ handler[h].id \in Ids
                                           /\ handler[h].pid \in Pids
           /\ handler[h].pc \in {"signalling", "signalled"}
              => handler[h].id \in Ids /\ handler[h].pid \in Pids
PROOF
  BY DEF HandlersHold

(* The record a launch files.                                                 *)
Filed(h) == [spec |-> handler[h].spec, pid |-> handler[h].pid,
             status |-> "running", exit |-> None]

(* What each step does, variable by variable.                                  *)
LEMMA NameMoves ==
    ASSUME TypeOK, NEW h \in Handlers, LaunchName(h)
    PROVE  /\ handler' \in [Handlers -> Requests]
           /\ \A g \in Handlers \ {h} : handler'[g] = handler[g]
           /\ clock' \in 0 .. MaxClock
           /\ \/ handler'[h].pc = "idle" /\ handler'[h].prior = {}
              \/ /\ handler'[h].pc = "named"
                 /\ handler'[h].spec = handler[h].spec
                 /\ handler'[h].prior = handler[h].prior
                 /\ handler'[h].id \in Ids
PROOF
<1> USE JobStoreAssumption
<1>1. CASE Return(h) /\ UNCHANGED clock
  BY <1>1, ReturnMoves DEF TypeOK
<1>2. ASSUME NEW now \in clock .. MaxClock, clock' = now,
             handler' = [handler EXCEPT ![h].pc = "named", ![h].id = now]
      PROVE  /\ handler' \in [Handlers -> Requests]
             /\ \A g \in Handlers \ {h} : handler'[g] = handler[g]
             /\ clock' \in 0 .. MaxClock
             /\ handler'[h].pc = "named"
             /\ handler'[h].spec = handler[h].spec
             /\ handler'[h].prior = handler[h].prior
             /\ handler'[h].id \in Ids
  <2>1. now \in Ids /\ clock' \in 0 .. MaxClock
    BY <1>2 DEF TypeOK, Ids
  <2>2. handler[h] \in Requests
    BY DEF TypeOK
  <2> DEFINE named == [handler[h] EXCEPT !.pc = "named", !.id = now]
  <2>3. /\ named \in Requests
        /\ named.pc = "named" /\ named.spec = handler[h].spec /\ named.id = now
        /\ named.prior = handler[h].prior
    BY <2>1, <2>2 DEF Requests
  <2>4. handler' = [handler EXCEPT ![h] = named]
    BY <1>2
  <2> HIDE DEF named
  <2>5. QED
    BY <2>1, <2>3, <2>4 DEF TypeOK
<1>3. QED
  BY <1>1, <1>2 DEF LaunchName

LEMMA SpawnMoves ==
    ASSUME TypeOK, NEW h \in Handlers, LaunchSpawn(h)
    PROVE  /\ handler' \in [Handlers -> Requests]
           /\ proc' \in [Pids -> Processes]
           /\ \A g \in Handlers \ {h} : handler'[g] = handler[g]
           /\ \/ handler'[h].pc = "idle" /\ handler'[h].prior = {} /\ proc' = proc
              \/ \E p \in Pids :
                    /\ ~Started(p)
                    /\ proc'[p] = Child(handler[h])
                    /\ \A q \in Pids \ {p} : proc'[q] = proc[q]
                    /\ handler'[h].pc = "spawned"
                    /\ handler'[h].spec = handler[h].spec
                    /\ handler'[h].id = handler[h].id
                    /\ handler'[h].prior = handler[h].prior
                    /\ handler'[h].pid = p
PROOF
<1>1. CASE Return(h) /\ UNCHANGED proc
  BY <1>1, ReturnMoves DEF TypeOK
<1>2. ASSUME NEW p \in Pids, proc[p].st = "unborn",
             proc' = [proc EXCEPT ![p] = Child(handler[h])],
             handler' = [handler EXCEPT ![h].pc = "spawned", ![h].pid = p]
      PROVE  /\ handler' \in [Handlers -> Requests]
             /\ proc' \in [Pids -> Processes]
             /\ \A g \in Handlers \ {h} : handler'[g] = handler[g]
             /\ ~Started(p)
             /\ proc'[p] = Child(handler[h])
             /\ \A q \in Pids \ {p} : proc'[q] = proc[q]
             /\ handler'[h].pc = "spawned"
             /\ handler'[h].spec = handler[h].spec
             /\ handler'[h].id = handler[h].id
             /\ handler'[h].prior = handler[h].prior
             /\ handler'[h].pid = p
  <2> DEFINE spawned == [handler[h] EXCEPT !.pc = "spawned", !.pid = p]
  <2>1. handler[h] \in Requests
    BY DEF TypeOK
  <2>2. /\ spawned \in Requests
        /\ spawned.pc = "spawned" /\ spawned.spec = handler[h].spec
        /\ spawned.id = handler[h].id /\ spawned.pid = p
        /\ spawned.prior = handler[h].prior
    BY <2>1 DEF Requests
  <2>3. /\ handler' \in [Handlers -> Requests]
        /\ handler'[h] = spawned
        /\ \A g \in Handlers \ {h} : handler'[g] = handler[g]
    BY <1>2, <2>2 DEF TypeOK
  <2>4. Child(handler[h]) \in Processes
    BY <2>1 DEF Requests, Processes, Child
  <2>5. /\ proc' \in [Pids -> Processes]
        /\ proc'[p] = Child(handler[h])
        /\ \A q \in Pids \ {p} : proc'[q] = proc[q]
    BY <1>2, <2>4 DEF TypeOK
  <2> HIDE DEF spawned
  <2>6. QED
    BY <1>2, <2>2, <2>3, <2>5 DEF Started
<1>3. QED
  BY <1>1, <1>2 DEF LaunchSpawn

LEMMA RecordMoves ==
    ASSUME TypeOK, HandlersHold, NEW h \in Handlers, LaunchRecord(h)
    PROVE  /\ handler[h].id \in Ids
           /\ handler[h].pid \in Pids
           /\ Filed(h) \in Records
           /\ Replaces(handler[h].id, Filed(h))
           /\ reaper' \in [Pids -> Reapers]
           /\ reaper'[handler[h].pid] = [pc |-> "waiting", id |-> handler[h].id]
           /\ \A p \in Pids \ {handler[h].pid} : reaper'[p] = reaper[p]
           /\ Return(h)
PROOF
<1>1. handler[h].id \in Ids /\ handler[h].pid \in Pids /\ handler[h].spec \in Specs
  BY LaunchHolds DEF LaunchRecord
<1>2. Filed(h) \in Records
  BY <1>1 DEF Filed, Records
<1>3. [pc |-> "waiting", id |-> handler[h].id] \in Reapers
  BY <1>1 DEF Reapers
<1>4. Replaces(handler[h].id, Filed(h))
  <2>1. /\ jobs' = [jobs EXCEPT ![handler[h].id] = Filed(h)]
        /\ Persist(jobs')
    BY DEF LaunchRecord, Filed
  <2>2. QED
    BY <1>1, <1>2, <2>1, TableMoves
<1>5. QED
  BY <1>1, <1>2, <1>3, <1>4 DEF LaunchRecord, TypeOK

LEMMA MarkMoves ==
    ASSUME TypeOK, HandlersHold, NEW h \in Handlers, StopMark(h)
    PROVE  \/ jobs' = jobs /\ disk' = disk
           \/ \E id \in Ids : /\ jobs[id] # None
                              /\ Marked(id) \in Records
                              /\ Replaces(id, Marked(id))
PROOF
<1>1. CASE jobs[handler[h].id] = None
  BY <1>1 DEF StopMark
<1>2. CASE jobs[handler[h].id] # None
  <2>1. handler[h].id \in Ids
    BY LaunchHolds DEF StopMark
  <2>2. /\ jobs' = [jobs EXCEPT ![handler[h].id] = Marked(handler[h].id)]
        /\ Persist(jobs')
    BY <1>2 DEF StopMark, Marked
  <2>3. Marked(handler[h].id) \in Records
    BY <1>2, <2>1, MarkedIsRecord
  <2>4. Replaces(handler[h].id, Marked(handler[h].id))
    BY <2>1, <2>2, <2>3, TableMoves
  <2>5. QED
    BY <1>2, <2>1, <2>3, <2>4
<1>3. QED
  BY <1>1, <1>2

LEMMA ExitMoves ==
    ASSUME TypeOK, NEW p \in Pids, Exit(p)
    PROVE  /\ proc[p].st = "running"
           /\ proc' \in [Pids -> Processes]
           /\ \A q \in Pids \ {p} : proc'[q] = proc[q]
           /\ proc'[p].st \in {"zombie", "gone"}
           /\ proc'[p].spec = proc[p].spec
           /\ proc'[p].id = proc[p].id
           /\ proc'[p].prior = proc[p].prior
PROOF
<1>1. PICK code \in Codes :
        proc' = [proc EXCEPT ![p].code = code,
                             ![p].st = IF proc[p].child THEN "zombie"
                                                        ELSE "gone"]
  BY DEF Exit
<1>2. proc[p] \in Processes
  BY DEF TypeOK
<1> DEFINE ended == [proc[p] EXCEPT !.code = code,
                        !.st = IF proc[p].child THEN "zombie" ELSE "gone"]
<1>3. /\ ended \in Processes
      /\ ended.st \in {"zombie", "gone"}
      /\ ended.spec = proc[p].spec
      /\ ended.id = proc[p].id /\ ended.prior = proc[p].prior
  BY <1>2 DEF Processes
<1>4. proc' = [proc EXCEPT ![p] = ended]
  BY <1>1
<1> HIDE DEF ended
<1>5. QED
  BY <1>3, <1>4 DEF Exit, TypeOK

LEMMA WaitMoves ==
    ASSUME TypeOK, NEW p \in Pids, ReapWait(p)
    PROVE  /\ proc[p].st = "zombie"
           /\ proc' \in [Pids -> Processes]
           /\ \A q \in Pids \ {p} : proc'[q] = proc[q]
           /\ proc'[p].st = "gone"
           /\ proc'[p].code = proc[p].code
           /\ proc'[p].spec = proc[p].spec
           /\ proc'[p].id = proc[p].id
           /\ proc'[p].prior = proc[p].prior
           /\ reaper' \in [Pids -> Reapers]
           /\ \A q \in Pids \ {p} : reaper'[q] = reaper[q]
           /\ reaper[p].pc = "waiting"
           /\ reaper'[p].pc = "waited"
           /\ reaper'[p].id = reaper[p].id
PROOF
<1>1. proc[p] \in Processes /\ reaper[p] \in Reapers
  BY DEF TypeOK
<1> DEFINE waited == [proc[p] EXCEPT !.st = "gone"]
           done == [reaper[p] EXCEPT !.pc = "waited"]
<1>2. /\ waited \in Processes
      /\ waited.st = "gone" /\ waited.code = proc[p].code
      /\ waited.spec = proc[p].spec
      /\ waited.id = proc[p].id /\ waited.prior = proc[p].prior
  BY <1>1 DEF Processes
<1>3. done \in Reapers /\ done.pc = "waited" /\ done.id = reaper[p].id
  BY <1>1 DEF Reapers
<1>4. /\ proc' = [proc EXCEPT ![p] = waited]
      /\ reaper' = [reaper EXCEPT ![p] = done]
  BY DEF ReapWait
<1> HIDE DEF waited, done
<1>5. QED
  BY <1>2, <1>3, <1>4 DEF ReapWait, TypeOK

LEMMA VerdictMoves ==
    ASSUME TypeOK, ReapersHold, NEW p \in Pids, ReapRecord(p)
    PROVE  /\ reaper[p].id \in Ids
           /\ jobs[reaper[p].id] # None
           /\ Started(p) /\ proc[p].id = reaper[p].id
           /\ proc[p].st = "gone"
           /\ Verdict(p) \in Records
           /\ Replaces(reaper[p].id, Verdict(p))
           /\ reaper' \in [Pids -> Reapers]
           /\ reaper'[p].pc = "none"
           /\ \A q \in Pids \ {p} : reaper'[q] = reaper[q]
PROOF
<1>1. /\ reaper[p].id \in Ids /\ jobs[reaper[p].id] # None
      /\ Started(p) /\ proc[p].id = reaper[p].id /\ proc[p].st = "gone"
  BY DEF ReapRecord, ReapersHold
<1>2. /\ jobs' = [jobs EXCEPT ![reaper[p].id] = Verdict(p)]
      /\ Persist(jobs')
  BY <1>1, Zenon DEF ReapRecord, Verdict
<1>3. NoReaper \in Reapers /\ NoReaper.pc = "none"
  BY DEF NoReaper, Reapers
<1>4. Verdict(p) \in Records
  BY <1>1, VerdictIsRecord
<1>5. Replaces(reaper[p].id, Verdict(p))
  BY <1>1, <1>2, <1>4, TableMoves
<1>6. QED
  BY <1>1, <1>3, <1>4, <1>5 DEF ReapRecord, TypeOK

(* Every step keeps every variable in its type.                               *)
LEMMA TypeStep ==
    TypeOK /\ HandlersHold /\ ReapersHold /\ [Next]_vars => TypeOK'
PROOF
<1> SUFFICES ASSUME TypeOK, HandlersHold, ReapersHold, [Next]_vars PROVE TypeOK'
  OBVIOUS
<1> USE JobStoreAssumption, NoneIsNoRecord
<1>1. ASSUME NEW h \in Handlers, NEW s \in Specs, CreateJob(h, s) PROVE TypeOK'
  <2>1. [Idle EXCEPT !.pc = "asked", !.spec = s] \in Requests
    BY DEF Idle, Requests
  <2>2. QED
    BY <1>1, <2>1 DEF CreateJob, TypeOK
<1>2. ASSUME NEW h \in Handlers, LaunchConflict(h) PROVE TypeOK'
  <2>1. handler' \in [Handlers -> Requests]
    <3>1. CASE Conflict(handler[h].spec)
      BY <1>2, <3>1, ReturnMoves DEF LaunchConflict
    <3>2. QED
      BY <1>2, <3>1, ClearMoves
  <2>2. QED
    BY <1>2, <2>1 DEF LaunchConflict, TypeOK
<1>3. ASSUME NEW h \in Handlers, LaunchName(h) PROVE TypeOK'
  BY <1>3, NameMoves DEF LaunchName, TypeOK
<1>4. ASSUME NEW h \in Handlers, LaunchSpawn(h) PROVE TypeOK'
  BY <1>4, SpawnMoves DEF LaunchSpawn, TypeOK
<1>5. ASSUME NEW h \in Handlers, LaunchRecord(h) PROVE TypeOK'
  <2>1. jobs' \in JobTables /\ disk' \in JobTables
    BY <1>5, RecordMoves DEF Replaces
  <2>2. QED
    BY <1>5, <2>1, RecordMoves, ReturnMoves DEF LaunchRecord, TypeOK
<1>6. ASSUME NEW h \in Handlers, NEW id \in Ids, StopRead(h, id) PROVE TypeOK'
  <2>1. jobs[id] \in Records
    BY <1>6 DEF StopRead, TypeOK, JobTables
  <2>2. [Idle EXCEPT !.pc = "signalling", !.id = id, !.pid = jobs[id].pid]
        \in Requests
    BY <2>1 DEF Records, Requests, Idle
  <2>3. QED
    BY <1>6, <2>2 DEF StopRead, TypeOK
<1>7. ASSUME NEW h \in Handlers, StopSignal(h) PROVE TypeOK'
  <2>1. handler' \in [Handlers -> Requests]
    BY <1>7, GotoMoves, ReturnMoves DEF StopSignal
  <2>2. QED
    BY <1>7, <2>1 DEF StopSignal, TypeOK
<1>8. ASSUME NEW h \in Handlers, StopMark(h) PROVE TypeOK'
  <2>1. jobs' \in JobTables /\ disk' \in JobTables
    <3>1. CASE jobs' = jobs /\ disk' = disk
      BY <3>1 DEF TypeOK
    <3>2. CASE ~(jobs' = jobs /\ disk' = disk)
      BY <1>8, <3>2, MarkMoves DEF Replaces
    <3>3. QED
      BY <3>1, <3>2
  <2>2. QED
    BY <1>8, <2>1, ReturnMoves DEF StopMark, TypeOK
<1>9. ASSUME NEW p \in Pids, Exit(p) PROVE TypeOK'
  BY <1>9, ExitMoves DEF Exit, TypeOK
<1>10. ASSUME NEW p \in Pids, ReapWait(p) PROVE TypeOK'
  BY <1>10, WaitMoves DEF ReapWait, TypeOK
<1>11. ASSUME NEW p \in Pids, ReapRecord(p) PROVE TypeOK'
  <2>1. jobs' \in JobTables /\ disk' \in JobTables
    BY <1>11, VerdictMoves DEF Replaces
  <2>2. QED
    BY <1>11, <2>1, VerdictMoves DEF ReapRecord, TypeOK
<1>12. CASE Restart
  <2>1. reaper' \in [Pids -> Reapers]
    BY <1>12 DEF Restart, NoReaper, Reapers
  <2>2. handler' \in [Handlers -> Requests]
    BY <1>12 DEF Restart, Idle, Requests
  <2>3. restarts' \in 0 .. MaxRestarts
    BY <1>12 DEF Restart, TypeOK
  <2>4. QED
    BY <1>12, <2>1, <2>2, <2>3, RestartMoves DEF Restart, TypeOK
<1>13. CASE UNCHANGED vars
  BY <1>13 DEF vars, TypeOK
<1>14. QED
  BY <1>1, <1>2, <1>3, <1>4, <1>5, <1>6, <1>7, <1>8, <1>9, <1>10, <1>11, <1>12,
     <1>13
  DEF Next, Handle, Reap

(* What a command never loses, whatever a step does to it: it does not run    *)
(* again, and keeps its id, its command and what it ended with.               *)
Ages ==
    \A p \in Pids :
        Started(p) =>
            /\ Started(p)'
            /\ proc'[p].spec = proc[p].spec
            /\ proc'[p].id = proc[p].id
            /\ proc'[p].prior = proc[p].prior
            /\ Running(p)' => Running(p)
            /\ ~Running(p) /\ proc[p].code # None => proc'[p].code = proc[p].code

LEMMA SharedStays ==
    ASSUME Ages, NEW id \in Ids, Shared(id)
    PROVE  Shared(id)'
PROOF
<1>1. PICK p \in Pids, q \in Pids : /\ p # q /\ Started(p) /\ Started(q)
                                    /\ proc[p].id = id /\ proc[q].id = id
  BY DEF Shared
<1>2. /\ Started(p)' /\ Started(q)'
      /\ proc'[p].id = id /\ proc'[q].id = id
  BY <1>1 DEF Ages
<1>3. QED
  BY <1>1, <1>2 DEF Shared

LEMMA AgesStep ==
    TypeOK /\ [Next]_vars => Ages
PROOF
<1> SUFFICES ASSUME TypeOK, [Next]_vars PROVE Ages
  OBVIOUS
<1>1. CASE proc' = proc
  BY <1>1 DEF Ages, Started, Running
<1>2. ASSUME NEW h \in Handlers, LaunchSpawn(h) PROVE Ages
  BY <1>2, SpawnMoves DEF Ages, Started, Running
<1>3. ASSUME NEW p \in Pids, Exit(p) PROVE Ages
  BY <1>3, ExitMoves DEF Ages, Started, Running
<1>4. ASSUME NEW p \in Pids, ReapWait(p) PROVE Ages
  BY <1>4, WaitMoves DEF Ages, Started, Running
<1>5. CASE Restart
  BY <1>5, RestartMoves DEF Ages, Started, Running
<1>6. QED
  BY <1>1, <1>2, <1>3, <1>4, <1>5
  DEF Next, Handle, Reap, vars, CreateJob, LaunchConflict, LaunchName,
      LaunchRecord, StopRead, StopSignal, StopMark, ReapRecord

(* Two commands that were started under one id share it.                      *)
LEMMA OneOwner ==
    ASSUME NEW p \in Pids, NEW q \in Pids, Started(p), Started(q),
           proc[p].id = proc[q].id, ~Shared(proc[p].id)
    PROVE  p = q
PROOF
  BY DEF Shared

(* Every step keeps the reapers at what they close.                           *)
LEMMA ReapersStep ==
    StoreInv /\ [Next]_vars => ReapersHold'
PROOF
<1> SUFFICES ASSUME StoreInv, [Next]_vars PROVE ReapersHold'
  OBVIOUS
<1> USE NoneIsNoRecord DEF StoreInv
<1>0. Ages
  BY AgesStep
<1>a. ASSUME reaper' = reaper,
             \A id \in Ids : jobs[id] # None => jobs'[id] # None,
             \A p \in Pids : proc[p].st = "gone" => proc'[p].st = "gone"
      PROVE  ReapersHold'
  BY <1>0, <1>a DEF ReapersHold, Ages
<1>1. CASE UNCHANGED <<jobs, proc, reaper>>
  BY <1>1, <1>a
<1>4. ASSUME NEW h \in Handlers, LaunchSpawn(h) PROVE ReapersHold'
  <2>1. \A q \in Pids : proc[q].st = "gone" => proc'[q] = proc[q]
    BY <1>4, SpawnMoves DEF Started
  <2>2. QED
    BY <1>4, <1>a, <2>1 DEF LaunchSpawn
<1>5. ASSUME NEW h \in Handlers, LaunchRecord(h) PROVE ReapersHold'
  <2>1. /\ jobs'[handler[h].id] = Filed(h) /\ Filed(h) \in Records
        /\ \A id \in Ids \ {handler[h].id} : jobs'[id] = jobs[id]
    BY <1>5, RecordMoves DEF Replaces
  <2>2. \A id \in Ids : jobs[id] # None \/ id = handler[h].id => jobs'[id] # None
    BY <2>1
  <2>3. /\ handler[h].id \in Ids /\ handler[h].pid \in Pids
        /\ reaper'[handler[h].pid] = [pc |-> "waiting", id |-> handler[h].id]
        /\ \A p \in Pids \ {handler[h].pid} : reaper'[p] = reaper[p]
        /\ proc' = proc
    BY <1>5, RecordMoves DEF LaunchRecord
  <2>4. Started(handler[h].pid) /\ proc[handler[h].pid].id = handler[h].id
    BY <1>5 DEF HandlersHold, LaunchRecord
  <2>5. QED
    BY <2>2, <2>3, <2>4 DEF ReapersHold, Started
<1>8. ASSUME NEW h \in Handlers, StopMark(h) PROVE ReapersHold'
  <2>1. \A id \in Ids : jobs[id] # None => jobs'[id] # None
    BY <1>8, MarkMoves DEF Replaces
  <2>2. QED
    BY <1>8, <1>a, <2>1 DEF StopMark
<1>9. ASSUME NEW p \in Pids, Exit(p) PROVE ReapersHold'
  <2>1. \A q \in Pids : proc[q].st = "gone" => proc'[q].st = "gone"
    BY <1>9, ExitMoves
  <2>2. QED
    BY <1>9, <1>a, <2>1 DEF Exit
<1>10. ASSUME NEW p \in Pids, ReapWait(p) PROVE ReapersHold'
  <2>1. jobs' = jobs
    BY <1>10 DEF ReapWait
  <2>2. /\ reaper[p].pc = "waiting"
        /\ reaper'[p].id = reaper[p].id
        /\ proc'[p].st = "gone"
        /\ \A q \in Pids \ {p} : reaper'[q] = reaper[q] /\ proc'[q] = proc[q]
    BY <1>10, WaitMoves
  <2>3. QED
    BY <1>0, <2>1, <2>2 DEF ReapersHold, Ages
<1>11. ASSUME NEW p \in Pids, ReapRecord(p) PROVE ReapersHold'
  <2>1. \A id \in Ids : jobs[id] # None => jobs'[id] # None
    BY <1>11, VerdictMoves DEF Replaces
  <2>2. /\ proc' = proc /\ reaper'[p].pc = "none"
        /\ \A q \in Pids \ {p} : reaper'[q] = reaper[q]
    BY <1>11, VerdictMoves DEF ReapRecord
  <2>3. QED
    BY <2>1, <2>2 DEF ReapersHold, Started
<1>12. CASE Restart
  BY <1>12 DEF Restart, NoReaper, ReapersHold
<1>14. QED
  BY <1>1, <1>4, <1>5, <1>8, <1>9, <1>10, <1>11, <1>12
  DEF Next, Handle, Reap, vars, CreateJob, LaunchConflict, LaunchName, StopRead,
      StopSignal

(* A table that says less, record by record, of which process it is about.    *)
NoMoreFiled(p) == /\ Recorded(p, jobs)' => Recorded(p, jobs)
                  /\ Recorded(p, disk)' => Recorded(p, disk) \/ Recorded(p, jobs)

(* A record that is replaced by one about the same process files nobody.      *)
LEMMA ReplacedFilesNobody ==
    ASSUME TypeOK, NEW id \in Ids, NEW job, Replaces(id, job),
           jobs[id] # None, job # None, job.pid = jobs[id].pid,
           NEW p \in Pids
    PROVE  /\ Recorded(p, jobs)' <=> Recorded(p, jobs)
           /\ NoMoreFiled(p)
PROOF
<1>1. \A i \in Ids : /\ jobs'[i] # None <=> jobs[i] # None
                     /\ jobs[i] # None => jobs'[i].pid = jobs[i].pid
  BY DEF Replaces
<1>2. Recorded(p, jobs)' <=> Recorded(p, jobs)
  BY <1>1 DEF Recorded
<1>3. Recorded(p, disk)' => Recorded(p, disk) \/ Recorded(p, jobs)'
  BY DEF Replaces, Recorded
<1>4. QED
  BY <1>2, <1>3 DEF NoMoreFiled

(* What is filed changes only when a launch files its command, and a restart  *)
(* has of what was filed at most what the file has.                           *)
LEMMA MarkFilesNobody ==
    ASSUME StoreInv, NEW h \in Handlers, StopMark(h), NEW p \in Pids
    PROVE  /\ Recorded(p, jobs)' <=> Recorded(p, jobs)
           /\ NoMoreFiled(p)
PROOF
<1> USE DEF StoreInv
<1>1. CASE jobs' = jobs /\ disk' = disk
  BY <1>1 DEF Recorded, NoMoreFiled
<1>2. ASSUME NEW id \in Ids, jobs[id] # None, Marked(id) \in Records,
             Replaces(id, Marked(id))
      PROVE  /\ Recorded(p, jobs)' <=> Recorded(p, jobs)
             /\ NoMoreFiled(p)
  <2>1. Marked(id) # None /\ Marked(id).pid = jobs[id].pid
    BY <1>2, MarkedIsRecord, NoneIsNoRecord
  <2>2. QED
    BY <1>2, <2>1, ReplacedFilesNobody
<1>3. QED
  BY <1>1, <1>2, MarkMoves

LEMMA VerdictFilesNobody ==
    ASSUME StoreInv, NEW q \in Pids, ReapRecord(q), NEW p \in Pids
    PROVE  /\ Recorded(p, jobs)' <=> Recorded(p, jobs)
           /\ NoMoreFiled(p)
PROOF
<1> USE DEF StoreInv
<1> DEFINE id == reaper[q].id
<1>1. /\ id \in Ids /\ jobs[id] # None /\ Replaces(id, Verdict(q))
      /\ Verdict(q) \in Records
  BY VerdictMoves
<1>2. Verdict(q) # None /\ Verdict(q).pid = jobs[id].pid
  BY <1>1, VerdictIsRecord, NoneIsNoRecord
<1> HIDE DEF id
<1>3. QED
  BY <1>1, <1>2, ReplacedFilesNobody

LEMMA RestartFilesNobody ==
    ASSUME StoreInv, Restart, NEW p \in Pids
    PROVE  /\ Recorded(p, jobs)' <=> Recorded(p, disk)
           /\ Recorded(p, disk)' <=> Recorded(p, disk)
PROOF
<1> USE DEF StoreInv
<1>1. disk' = disk
  BY DEF Restart
<1>2. \A id \in Ids : /\ jobs'[id] # None <=> disk[id] # None
                      /\ disk[id] # None => jobs'[id].pid = disk[id].pid
  <2>1. ASSUME NEW id \in Ids
        PROVE  /\ jobs'[id] # None <=> disk[id] # None
               /\ disk[id] # None => jobs'[id].pid = disk[id].pid
    <3>1. \/ jobs'[id] = disk[id]
          \/ /\ disk[id] # None /\ jobs'[id] # None
             /\ jobs'[id] = [spec |-> disk[id].spec, status |-> "orphaned",
                             pid |-> disk[id].pid, exit |-> disk[id].exit]
      BY RestartMoves
    <3>2. QED
      BY <3>1
  <2>2. QED
    BY <2>1
<1>3. QED
  BY <1>1, <1>2 DEF Recorded

LEMMA RecordFilesOne ==
    ASSUME StoreInv, NEW h \in Handlers, LaunchRecord(h),
           NEW pid \in Pids, pid = handler[h].pid, NEW p \in Pids
    PROVE  /\ p # pid => NoMoreFiled(p)
           /\ Recorded(pid, jobs)'
           /\ Recorded(p, jobs) /\ p # pid => Recorded(p, jobs)' \/ Shared(proc[p].id)
PROOF
<1> USE DEF StoreInv
<1>1. PICK id \in Ids : /\ id = handler[h].id
                        /\ Replaces(id, Filed(h))
                        /\ Filed(h) # None
                        /\ Filed(h).pid = pid
  BY RecordMoves, NoneIsNoRecord DEF Filed
<1>2. Started(pid) /\ proc[pid].id = id
  BY <1>1 DEF HandlersHold, LaunchRecord
<1>3. jobs'[id] # None /\ jobs'[id].pid = pid
  BY <1>1 DEF Replaces
<1>4. Recorded(pid, jobs)'
  BY <1>3 DEF Recorded
<1>5. \A i \in Ids \ {id} : jobs'[i] = jobs[i]
  BY <1>1 DEF Replaces
<1>6. ASSUME p # pid, Recorded(p, jobs)' PROVE Recorded(p, jobs)
  BY <1>3, <1>5, <1>6 DEF Recorded
<1>7. ASSUME p # pid PROVE NoMoreFiled(p)
  <2>1. Recorded(p, disk)' => Recorded(p, disk) \/ Recorded(p, jobs)'
    BY <1>1 DEF Replaces, Recorded
  <2>2. QED
    BY <1>6, <1>7, <2>1 DEF NoMoreFiled
<1>8. ASSUME Recorded(p, jobs), p # pid, ~Recorded(p, jobs)'
      PROVE  Shared(proc[p].id)
  <2>1. PICK i \in Ids : jobs[i] # None /\ jobs[i].pid = p
    BY <1>8 DEF Recorded
  <2>2. i = id
    BY <1>5, <1>8, <2>1 DEF Recorded
  <2>3. Started(p) /\ proc[p].id = id
    BY <2>1, <2>2 DEF TableHolds, RowHolds
  <2>4. QED
    BY <1>2, <1>8, <2>3 DEF Shared
<1>9. QED
  BY <1>4, <1>7, <1>8

(* Every step keeps the launches apart.                                       *)
LEMMA HandlersStep ==
    StoreInv /\ [Next]_vars => HandlersHold'
PROOF
<1> SUFFICES ASSUME StoreInv, [Next]_vars PROVE HandlersHold'
  OBVIOUS
<1> USE JobStoreAssumption, NoneIsNoRecord DEF StoreInv
<1>0. Ages
  BY AgesStep
<1>a. ASSUME \A p \in Pids : Launching(p) => NoMoreFiled(p),
             NEW h \in Handlers,
             \A g \in Handlers \ {h} : handler'[g] = handler[g],
             \/ handler'[h] = handler[h]
             \/ /\ handler'[h].pc # "spawned"
                /\ handler'[h].pc \in {"asked", "cleared", "named"}
                   => handler'[h].spec \in Specs
                /\ handler'[h].pc = "named" => handler'[h].id \in Ids
                /\ handler'[h].pc \in {"signalling", "signalled"}
                   => handler'[h].id \in Ids /\ handler'[h].pid \in Pids
      PROVE  HandlersHold'
  <2>1. ASSUME NEW k \in Handlers, handler'[k] = handler[k],
               handler[k].pc = "spawned", NEW pid \in Pids, pid = handler[k].pid
        PROVE  /\ Started(pid)'
               /\ proc'[pid].spec = handler[k].spec
               /\ proc'[pid].id = handler[k].id
               /\ ~Recorded(pid, jobs)' /\ ~Recorded(pid, disk)'
               /\ \A g \in Handlers \ {k} :
                    handler'[g].pc = "spawned" => handler'[g].pid # pid
    <3>1. /\ Started(pid)
          /\ proc[pid].spec = handler[k].spec /\ proc[pid].id = handler[k].id
          /\ ~Recorded(pid, jobs) /\ ~Recorded(pid, disk)
          /\ \A g \in Handlers \ {k} :
               handler[g].pc = "spawned" => handler[g].pid # pid
      BY <2>1 DEF HandlersHold
    <3>2. NoMoreFiled(pid)
      BY <1>a, <2>1 DEF Launching
    <3>3. ~Recorded(pid, jobs)' /\ ~Recorded(pid, disk)'
      BY <3>1, <3>2 DEF NoMoreFiled
    <3>4. /\ Started(pid)'
          /\ proc'[pid].spec = handler[k].spec /\ proc'[pid].id = handler[k].id
      BY <1>0, <3>1 DEF Ages
    <3>5. \A g \in Handlers \ {k} :
             handler'[g].pc = "spawned" => handler'[g].pid # pid
      BY <1>a, <3>1
    <3>6. QED
      BY <3>3, <3>4, <3>5
  <2>2. ASSUME NEW k \in Handlers, handler[k].pc = "spawned"
        PROVE  handler[k].pid \in Pids
    BY <2>2, LaunchHolds
  <2>3. ASSUME NEW k \in Handlers, handler'[k].pc = "spawned"
        PROVE  handler'[k] = handler[k] /\ handler[k].pid \in Pids
    BY <1>a, <2>2, <2>3
  <2>4. ASSUME NEW k \in Handlers
        PROVE  /\ handler'[k].pc \in {"asked", "cleared", "named", "spawned"}
                  => handler'[k].spec \in Specs
               /\ handler'[k].pc \in {"named", "spawned"} => handler'[k].id \in Ids
               /\ handler'[k].pc \in {"signalling", "signalled"}
                  => handler'[k].id \in Ids /\ handler'[k].pid \in Pids
    <3>1. CASE handler'[k] = handler[k]
      BY <3>1 DEF HandlersHold
    <3>2. QED
      BY <1>a, <3>1
  <2>5. QED
    BY <2>1, <2>3, <2>4 DEF HandlersHold
<1>b. UNCHANGED <<jobs, disk>> => \A p \in Pids : NoMoreFiled(p)
  BY DEF NoMoreFiled, Recorded
<1>1. ASSUME NEW h \in Handlers, NEW s \in Specs, CreateJob(h, s)
      PROVE  HandlersHold'
  <2>1. /\ handler'[h].pc = "asked" /\ handler'[h].spec = s
        /\ \A g \in Handlers \ {h} : handler'[g] = handler[g]
    BY <1>1 DEF CreateJob, Idle, TypeOK
  <2>2. QED
    BY <1>1, <1>a, <1>b, <2>1 DEF CreateJob
<1>2. ASSUME NEW h \in Handlers, LaunchConflict(h) PROVE HandlersHold'
  <2>1. handler[h].pc = "asked" /\ UNCHANGED <<jobs, disk>>
    BY <1>2 DEF LaunchConflict
  <2>2. handler[h].spec \in Specs
    BY <2>1, LaunchHolds
  <2>3. CASE Conflict(handler[h].spec)
    BY <1>2, <1>a, <1>b, <2>1, <2>3, ReturnMoves DEF LaunchConflict
  <2>4. CASE ~Conflict(handler[h].spec)
    BY <1>2, <1>a, <1>b, <2>1, <2>2, <2>4, ClearMoves
  <2>5. QED
    BY <2>3, <2>4
<1>3. ASSUME NEW h \in Handlers, LaunchName(h) PROVE HandlersHold'
  <2>1. handler[h].spec \in Specs /\ UNCHANGED <<jobs, disk>>
    BY <1>3, LaunchHolds DEF LaunchName
  <2>2. QED
    BY <1>3, <1>a, <1>b, <2>1, NameMoves
<1>4. ASSUME NEW h \in Handlers, LaunchSpawn(h) PROVE HandlersHold'
  <2> /\ \A g \in Handlers \ {h} : handler'[g] = handler[g]
      /\ UNCHANGED <<jobs, disk>>
      /\ handler[h].pc = "named"
    BY <1>4, SpawnMoves DEF LaunchSpawn
  <2>1. CASE handler'[h].pc = "idle"
    BY <1>a, <1>b, <2>1
  <2>2. ASSUME NEW p \in Pids,
               ~Started(p),
               proc'[p] = Child(handler[h]),
               handler'[h].pc = "spawned",
               handler'[h].spec = handler[h].spec,
               handler'[h].id = handler[h].id,
               handler'[h].pid = p
        PROVE  HandlersHold'
    <3>1. handler[h].spec \in Specs /\ handler[h].id \in Ids
      BY LaunchHolds DEF HandlersHold
    <3>2. /\ Started(p)' /\ proc'[p].spec = handler[h].spec
          /\ proc'[p].id = handler[h].id
      BY <2>2 DEF Started, Child
    <3>3. ~Recorded(p, jobs)' /\ ~Recorded(p, disk)'
      BY <2>2 DEF TableHolds, RowHolds, Recorded
    <3>4. ASSUME NEW g \in Handlers \ {h}, handler[g].pc = "spawned",
                 NEW pid \in Pids, pid = handler[g].pid
          PROVE  /\ pid # p
                 /\ Started(pid)'
                 /\ proc'[pid].spec = handler[g].spec
                 /\ proc'[pid].id = handler[g].id
                 /\ ~Recorded(pid, jobs)' /\ ~Recorded(pid, disk)'
      <4>1. /\ Started(pid)
            /\ proc[pid].spec = handler[g].spec /\ proc[pid].id = handler[g].id
            /\ ~Recorded(pid, jobs) /\ ~Recorded(pid, disk)
        BY <3>4 DEF HandlersHold
      <4>2. QED
        BY <1>0, <2>2, <4>1 DEF Ages, Recorded
    <3>5. \A g \in Handlers : handler[g].pc = "spawned" => handler[g].pid \in Pids
      BY LaunchHolds
    <3>6. QED
      BY <2>2, <3>1, <3>2, <3>3, <3>4, <3>5 DEF HandlersHold
  <2>3. QED
    BY <1>4, <2>1, <2>2, SpawnMoves
<1>5. ASSUME NEW h \in Handlers, LaunchRecord(h) PROVE HandlersHold'
  <2>1. /\ handler'[h].pc = "idle"
        /\ \A g \in Handlers \ {h} : handler'[g] = handler[g]
    BY <1>5, RecordMoves, ReturnMoves
  <2>2. PICK mine \in Pids : mine = handler[h].pid
    BY <1>5, RecordMoves
  <2>3. ASSUME NEW g \in Handlers \ {h}, handler[g].pc = "spawned",
               NEW pid \in Pids, pid = handler[g].pid
        PROVE  /\ Started(pid)'
               /\ proc'[pid].spec = handler[g].spec
               /\ proc'[pid].id = handler[g].id
               /\ ~Recorded(pid, jobs)' /\ ~Recorded(pid, disk)'
               /\ \A k \in Handlers \ {g, h} :
                    handler[k].pc = "spawned" => handler[k].pid # pid
    <3>1. /\ Started(pid)
          /\ proc[pid].spec = handler[g].spec /\ proc[pid].id = handler[g].id
          /\ ~Recorded(pid, jobs) /\ ~Recorded(pid, disk)
          /\ \A k \in Handlers \ {g} :
               handler[k].pc = "spawned" => handler[k].pid # pid
      BY <2>3 DEF HandlersHold
    <3>2. pid # mine
      BY <1>5, <2>2, <3>1 DEF LaunchRecord
    <3>3. NoMoreFiled(pid)
      BY <1>5, <2>2, <3>2, RecordFilesOne
    <3>4. QED
      BY <1>0, <3>1, <3>3 DEF Ages, NoMoreFiled
  <2>4. \A g \in Handlers : handler[g].pc = "spawned" => handler[g].pid \in Pids
    BY LaunchHolds
  <2>5. QED
    BY <2>1, <2>3, <2>4 DEF HandlersHold
<1>6. ASSUME NEW h \in Handlers, NEW id \in Ids, StopRead(h, id)
      PROVE  HandlersHold'
  <2>1. jobs[id].pid \in Pids
    BY <1>6 DEF StopRead, TypeOK, JobTables, Records
  <2>2. /\ handler'[h].pc = "signalling"
        /\ handler'[h].id = id /\ handler'[h].pid \in Pids
        /\ \A g \in Handlers \ {h} : handler'[g] = handler[g]
    BY <1>6, <2>1 DEF StopRead, TypeOK, Idle
  <2>3. QED
    BY <1>6, <1>a, <1>b, <2>2 DEF StopRead
<1>7. ASSUME NEW h \in Handlers, StopSignal(h) PROVE HandlersHold'
  <2>1. UNCHANGED <<jobs, disk>> /\ handler[h].pc = "signalling"
    BY <1>7 DEF StopSignal
  <2>2. handler[h].id \in Ids /\ handler[h].pid \in Pids
    BY <2>1, LaunchHolds
  <2>3. CASE Return(h)
    BY <1>a, <1>b, <2>1, <2>3, ReturnMoves
  <2>4. CASE Goto(h, "signalled")
    BY <1>a, <1>b, <2>1, <2>2, <2>4, GotoMoves
  <2>5. QED
    BY <1>7, <2>3, <2>4 DEF StopSignal
<1>8. ASSUME NEW h \in Handlers, StopMark(h) PROVE HandlersHold'
  <2>1. /\ handler'[h].pc = "idle"
        /\ \A g \in Handlers \ {h} : handler'[g] = handler[g]
    BY <1>8, ReturnMoves DEF StopMark
  <2>2. \A p \in Pids : NoMoreFiled(p)
    BY <1>8, MarkFilesNobody
  <2>3. QED
    BY <1>a, <2>1, <2>2
<1>9. ASSUME UNCHANGED handler, \A p \in Pids : NoMoreFiled(p) PROVE HandlersHold'
  <2>1. CASE Handlers = {}
    BY <2>1 DEF HandlersHold
  <2>2. CASE Handlers # {}
    BY <1>9, <1>a, <2>2
  <2>3. QED
    BY <2>1, <2>2
<1>10. ASSUME NEW p \in Pids, Exit(p) \/ ReapWait(p) PROVE HandlersHold'
  BY <1>9, <1>10, <1>b DEF Exit, ReapWait
<1>11. ASSUME NEW p \in Pids, ReapRecord(p) PROVE HandlersHold'
  BY <1>9, <1>11, VerdictFilesNobody DEF ReapRecord
<1>12. CASE Restart
  BY <1>12 DEF Restart, Idle, HandlersHold
<1>13. CASE UNCHANGED vars
  BY <1>9, <1>13, <1>b DEF vars
<1>14. QED
  BY <1>1, <1>2, <1>3, <1>4, <1>5, <1>6, <1>7, <1>8, <1>10, <1>11, <1>12, <1>13
  DEF Next, Handle, Reap

(* What a record says of a process stays so while the process ages.           *)
LEMMA RowAges ==
    ASSUME TypeOK, Ages, NEW id \in Ids, NEW job \in Records, RowHolds(id, job)
    PROVE  RowHolds(id, job)'
PROOF
<1>1. PICK p \in Pids : p = job.pid
  BY DEF Records
<1>2. /\ Started(p) /\ proc[p].id = id /\ job.spec = proc[p].spec
      /\ ~Shared(id) => RecordHolds(job)
  BY <1>1 DEF RowHolds
<1>3. Started(p)' /\ proc'[p].id = id /\ job.spec = proc'[p].spec
  BY <1>2 DEF Ages
<1>4. ASSUME RecordHolds(job) PROVE RecordHolds(job)'
  <2>1. /\ Running(p)' => Running(p)
        /\ ~Running(p) /\ proc[p].code # None => proc'[p].code = proc[p].code
    BY <1>2 DEF Ages
  <2>2. QED
    BY <1>1, <1>4, <2>1 DEF RecordHolds, Running
<1>5. ~Shared(id)' => RecordHolds(job)'
  BY <1>2, <1>4, SharedStays
<1>6. QED
  BY <1>1, <1>3, <1>5 DEF RowHolds

LEMMA TableAges ==
    ASSUME TypeOK, Ages, NEW table \in JobTables, TableHolds(table)
    PROVE  TableHolds(table)'
PROOF
<1>1. ASSUME NEW id \in Ids, table[id] # None PROVE RowHolds(id, table[id])'
  <2>1. table[id] \in Records
    BY <1>1 DEF JobTables
  <2>2. RowHolds(id, table[id])
    BY <1>1 DEF TableHolds
  <2>3. QED
    BY <2>1, <2>2, RowAges
<1>2. QED
  BY <1>1 DEF TableHolds

(* So does a table in which one record is replaced by one that is true.       *)
LEMMA TableReplaced ==
    ASSUME TypeOK, Ages, NEW id \in Ids, NEW job \in Records, Replaces(id, job),
           RowHolds(id, job), TableHolds(jobs), TableHolds(disk)
    PROVE  TableHolds(jobs)' /\ TableHolds(disk)'
PROOF
<1>1. TableHolds(jobs)'
  <2>1. ASSUME NEW i \in Ids, jobs'[i] # None PROVE RowHolds(i, jobs'[i])
    BY <2>1 DEF Replaces, TableHolds
  <2>2. PICK table \in JobTables : table = jobs'
    BY DEF Replaces
  <2>3. TableHolds(table)
    BY <2>1, <2>2 DEF TableHolds
  <2>4. TableHolds(table)'
    BY <2>3, TableAges
  <2>5. QED
    BY <2>2, <2>4 DEF TableHolds
<1>2. CASE disk' = jobs'
  BY <1>1, <1>2 DEF TableHolds
<1>3. CASE disk' = disk
  <2>1. PICK table \in JobTables : table = disk
    BY DEF TypeOK
  <2>2. TableHolds(table)'
    BY <2>1, TableAges DEF TableHolds
  <2>3. QED
    BY <1>1, <1>3, <2>1, <2>2 DEF TableHolds
<1>4. QED
  BY <1>1, <1>2, <1>3 DEF Replaces

(* Every step keeps both tables true.                                         *)
LEMMA TablesStep ==
    StoreInv /\ [Next]_vars => TableHolds(jobs)' /\ TableHolds(disk)'
PROOF
<1> SUFFICES ASSUME StoreInv, [Next]_vars
             PROVE  TableHolds(jobs)' /\ TableHolds(disk)'
  OBVIOUS
<1> DEFINE Kept == TableHolds(jobs)' /\ TableHolds(disk)'
<1> USE JobStoreAssumption, NoneIsNoRecord DEF StoreInv
<1>0. Ages
  BY AgesStep
<1>1. disk' = disk => TableHolds(disk)'
  <2> SUFFICES ASSUME disk' = disk PROVE TableHolds(disk)'
    OBVIOUS
  <2>1. PICK table \in JobTables : table = disk
    BY DEF TypeOK
  <2>2. TableHolds(table)'
    BY <1>0, <2>1, TableAges DEF TableHolds
  <2>3. QED
    BY <2>1, <2>2 DEF TableHolds
<1>2. jobs' = jobs => TableHolds(jobs)'
  <2> SUFFICES ASSUME jobs' = jobs PROVE TableHolds(jobs)'
    OBVIOUS
  <2>1. PICK table \in JobTables : table = jobs
    BY DEF TypeOK
  <2>2. TableHolds(table)'
    BY <1>0, <2>1, TableAges DEF TableHolds
  <2>3. QED
    BY <2>1, <2>2 DEF TableHolds
<1>3. CASE UNCHANGED <<jobs, disk>>
  BY <1>1, <1>2, <1>3
<1>4. ASSUME NEW h \in Handlers, LaunchRecord(h) PROVE Kept
  <2>1. PICK id \in Ids, pid \in Pids :
           /\ id = handler[h].id /\ pid = handler[h].pid
           /\ Filed(h) \in Records /\ Replaces(id, Filed(h))
    BY <1>4, RecordMoves
  <2>2. /\ Started(pid) /\ proc[pid].spec = handler[h].spec /\ proc[pid].id = id
    BY <1>4, <2>1 DEF HandlersHold, LaunchRecord
  <2>3. RowHolds(id, Filed(h))
    BY <2>1, <2>2 DEF RowHolds, RecordHolds, Filed, Finished
  <2>4. PICK job \in Records : job = Filed(h)
    BY <2>1
  <2>5. QED
    BY <1>0, <2>1, <2>3, <2>4, TableReplaced
<1>5. ASSUME NEW h \in Handlers, StopMark(h) PROVE Kept
  <2>1. CASE jobs' = jobs /\ disk' = disk
    BY <1>3, <2>1
  <2>2. ASSUME NEW id \in Ids, jobs[id] # None, Marked(id) \in Records,
               Replaces(id, Marked(id))
        PROVE  Kept
    <3>1. RowHolds(id, jobs[id])
      BY <2>2 DEF TableHolds
    <3>2. Marked(id) = [spec |-> jobs[id].spec, status |-> "stopping",
                        pid |-> jobs[id].pid, exit |-> jobs[id].exit]
      BY <2>2, MarkedIsRecord
    <3>3. RowHolds(id, Marked(id))
      BY <3>1, <3>2 DEF RowHolds, RecordHolds, Finished
    <3>4. PICK job \in Records : job = Marked(id)
      BY <2>2
    <3>5. QED
      BY <1>0, <2>2, <3>3, <3>4, TableReplaced
  <2>3. QED
    BY <1>5, <2>1, <2>2, MarkMoves
<1>6. ASSUME NEW p \in Pids, ReapRecord(p) PROVE Kept
  <2>1. PICK id \in Ids : /\ id = reaper[p].id /\ jobs[id] # None
                          /\ Started(p) /\ proc[p].id = id
                          /\ proc[p].st = "gone"
                          /\ Verdict(p) \in Records /\ Replaces(id, Verdict(p))
    BY <1>6, VerdictMoves
  <2>2. RowHolds(id, jobs[id])
    BY <2>1 DEF TableHolds
  <2>3. /\ Verdict(p).spec = jobs[id].spec
        /\ Verdict(p).pid = jobs[id].pid
        /\ Verdict(p).exit = proc[p].code
        /\ Verdict(p).status \in {"completed", "stopped", "failed"}
        /\ Verdict(p).status = "completed" <=> proc[p].code = 0
    BY <2>1, VerdictIsRecord
  <2>4. jobs[id].pid \in Pids
    BY <2>1 DEF TypeOK, JobTables, Records
  <2>5. ~Shared(id) => jobs[id].pid = p
    <3>1. PICK q \in Pids : q = jobs[id].pid
      BY <2>4
    <3>2. Started(q) /\ proc[q].id = id
      BY <2>2, <3>1 DEF RowHolds
    <3>3. QED
      BY <2>1, <3>1, <3>2, OneOwner
  <2>6. RowHolds(id, Verdict(p))
    <3>1. ~Running(p)
      BY <2>1 DEF Running
    <3>2. ~Shared(id) => RecordHolds(Verdict(p))
      BY <2>3, <2>5, <3>1 DEF RecordHolds
    <3>3. QED
      BY <2>2, <2>3, <3>2 DEF RowHolds
  <2>7. PICK job \in Records : job = Verdict(p)
    BY <2>1
  <2>8. QED
    BY <1>0, <2>1, <2>6, <2>7, TableReplaced
<1>7. CASE Restart
  <2>1. TableHolds(disk)'
    BY <1>1, <1>7 DEF Restart
  <2>2. ASSUME NEW id \in Ids, NEW job \in Records, job = disk[id]
        PROVE  RowHolds(id, job)'
    <3>1. RowHolds(id, job)
      BY <2>2 DEF TableHolds
    <3>2. QED
      BY <1>0, <3>1, RowAges
  <2>3. ASSUME NEW id \in Ids, NEW job \in Records, job = jobs'[id]
        PROVE  RowHolds(id, job)'
    <3>1. CASE jobs'[id] = disk[id]
      BY <2>2, <2>3, <3>1
    <3>2. ASSUME disk[id] # None,
                 proc'[disk[id].pid].st \notin {"running", "zombie"},
                 jobs'[id] = [spec |-> disk[id].spec, status |-> "orphaned",
                              pid |-> disk[id].pid, exit |-> disk[id].exit]
          PROVE  RowHolds(id, job)'
      <4>1. PICK old \in Records : old = disk[id]
        BY <3>2 DEF TypeOK, JobTables
      <4>2. RowHolds(id, old)'
        BY <2>2, <4>1
      <4>3. /\ job.pid = old.pid /\ job.spec = old.spec
            /\ job.exit = old.exit /\ job.status = "orphaned"
        BY <2>3, <3>2, <4>1
      <4>4. ~Running(old.pid)'
        BY <3>2, <4>1 DEF Running
      <4>5. QED
        BY <4>2, <4>3, <4>4 DEF RowHolds, RecordHolds
    <3>3. QED
      BY <1>7, <3>1, <3>2, RestartMoves
  <2>4. jobs' \in JobTables
    BY <1>7, RestartMoves
  <2>5. TableHolds(jobs)'
    <3>1. ASSUME NEW id \in Ids, jobs'[id] # None
          PROVE  jobs'[id] \in Records
      BY <2>4, <3>1 DEF JobTables
    <3>2. QED
      BY <2>3, <3>1 DEF TableHolds
  <2>6. QED
    BY <2>1, <2>5
<1>8. QED
  BY <1>3, <1>4, <1>5, <1>6, <1>7
  DEF Next, Handle, Reap, vars, CreateJob, LaunchConflict, LaunchName,
      LaunchSpawn, StopRead, StopSignal, Exit, ReapWait

(* A launch the conflict check let through had no record of a command that is *)
(* running, is alone under its id, and is not compatible with its own.        *)
LEMMA ClearedUnseen ==
    ASSUME StoreInv, NEW s, ~Conflict(s), NEW p \in Pids
    PROVE  Unseen(p, s)
PROOF
<1> SUFFICES ASSUME Running(p), ~Shared(proc[p].id),
                    {proc[p].spec, s} \cap Measurements # {}, Recorded(p, jobs)
             PROVE  FALSE
  BY DEF Unseen
<1>1. PICK id \in Ids : jobs[id] # None /\ jobs[id].pid = p
  BY DEF Recorded
<1>2. RowHolds(id, jobs[id])
  BY <1>1 DEF StoreInv, TableHolds
<1>3. /\ proc[p].id = id /\ jobs[id].spec = proc[p].spec
      /\ jobs[id].status \notin Finished
  BY <1>1, <1>2 DEF RowHolds, RecordHolds
<1>4. jobs[id].status \in {"running", "stopping"}
  BY <1>1, <1>3 DEF StoreInv, TypeOK, JobTables, Records
<1>5. id \in ActiveIds
  BY <1>1, <1>4 DEF ActiveIds, Alive, Running
<1>6. QED
  BY <1>3, <1>5 DEF Conflict

(* What was started, is in no launch, and is on no record it was not on       *)
(* before, is seen no more than it was.                                       *)
LEMMA PriorAges ==
    ASSUME Ages, NEW p \in Pids, NEW s, Started(p), Unseen(p, s),
           Recorded(p, jobs)' => Recorded(p, jobs) \/ Shared(proc[p].id)
    PROVE  Unseen(p, s)'
PROOF
<1>1. /\ Running(p)' => Running(p)
      /\ proc'[p].spec = proc[p].spec /\ proc'[p].id = proc[p].id
  BY DEF Ages
<1>2. CASE Shared(proc[p].id)
  <2>1. PICK x \in Pids, y \in Pids :
           /\ x # y /\ Started(x) /\ Started(y)
           /\ proc[x].id = proc[p].id /\ proc[y].id = proc[p].id
    BY <1>2 DEF Shared
  <2>2. Shared(proc[p].id)'
    BY <1>1, <2>1 DEF Shared, Ages
  <2>3. QED
    BY <2>2 DEF Unseen
<1>3. CASE ~Shared(proc[p].id)
  <2>1. ~Shared(proc[p].id)' => ~Shared(proc[p].id)
    BY <1>3
  <2>2. QED
    BY <1>1, <1>3 DEF Unseen
<1>4. QED
  BY <1>2, <1>3

(* A step that keeps what a command was, files nothing that had been seen     *)
(* before, and lets launches go on only with what they had seen, leaves what  *)
(* every launch had seen as it was.                                           *)
SameOrNothing(h) == \/ handler'[h].prior = {}
                    \/ /\ handler'[h].prior = handler[h].prior
                       /\ handler'[h].spec = handler[h].spec

SameRequest(q) == /\ Started(q)' => Started(q)
                  /\ proc'[q].prior = proc[q].prior
                  /\ proc'[q].spec = proc[q].spec

LEMMA LaunchesKept ==
    ASSUME TypeOK, Ages, LaunchesHold,
           \A h \in Handlers : SameOrNothing(h),
           \A q \in Pids : SameRequest(q),
           \A p \in Pids : Launching(p)' => Launching(p),
           \A p \in Pids : Started(p) /\ ~Launching(p) /\ Recorded(p, jobs)'
                           => Recorded(p, jobs) \/ Shared(proc[p].id)
    PROVE  LaunchesHold'
PROOF
<1>1. ASSUME NEW p \in Pids, NEW s, Started(p), ~Launching(p), Unseen(p, s)
      PROVE  Started(p)' /\ ~Launching(p)' /\ Unseen(p, s)'
  BY <1>1, PriorAges DEF Ages
<1>2. ASSUME NEW h \in Handlers
      PROVE  PriorHolds(handler[h].prior, handler[h].spec)'
  <2>1. CASE handler'[h].prior = {}
    BY <2>1 DEF PriorHolds
  <2>2. CASE /\ handler'[h].prior = handler[h].prior
             /\ handler'[h].spec = handler[h].spec
    <3>1. handler[h].prior \subseteq Pids
      BY DEF TypeOK, Requests
    <3>2. PICK s : s = handler[h].spec
      OBVIOUS
    <3>3. \A p \in handler[h].prior : Started(p) /\ ~Launching(p) /\ Unseen(p, s)
      BY <3>2 DEF LaunchesHold, PriorHolds
    <3>4. \A p \in handler[h].prior : Started(p)' /\ ~Launching(p)' /\ Unseen(p, s)'
      BY <1>1, <3>1, <3>3
    <3>5. QED
      BY <2>2, <3>2, <3>4 DEF PriorHolds
  <2>3. QED
    BY <2>1, <2>2 DEF SameOrNothing
<1>3. ASSUME NEW q \in Pids PROVE PriorHolds(proc[q].prior, proc[q].spec)'
  <2>1. proc'[q].prior = proc[q].prior /\ proc'[q].spec = proc[q].spec
    BY DEF SameRequest
  <2>2. proc[q].prior \subseteq Pids
    BY DEF TypeOK, Processes
  <2>3. PICK s : s = proc[q].spec
    OBVIOUS
  <2>4. \A p \in proc[q].prior : Started(p) /\ ~Launching(p) /\ Unseen(p, s)
    BY <2>3 DEF LaunchesHold, PriorHolds
  <2>5. \A p \in proc[q].prior : Started(p)' /\ ~Launching(p)' /\ Unseen(p, s)'
    BY <1>1, <2>2, <2>4
  <2>6. QED
    BY <2>1, <2>3, <2>5 DEF PriorHolds
<1>4. QED
  BY <1>2, <1>3 DEF LaunchesHold

(* The file stays behind memory, and what was started stays known.            *)
LEMMA FileKept ==
    ASSUME StoreInv, Ages, FileIsBehind,
           \A p \in Pids : Recorded(p, disk)' => \/ Recorded(p, disk)
                                                 \/ Recorded(p, jobs)
                                                 \/ Recorded(p, jobs)',
           \A p \in Pids : Recorded(p, jobs) => \/ Recorded(p, jobs)'
                                                \/ Shared(proc[p].id)
    PROVE  FileIsBehind'
PROOF
<1> SUFFICES ASSUME NEW p \in Pids, Recorded(p, disk)', ~Recorded(p, jobs)'
             PROVE  Shared(proc[p].id)'
  BY DEF FileIsBehind
<1>1. Recorded(p, disk) \/ Recorded(p, jobs)
  OBVIOUS
<1>2. /\ \A id \in Ids : jobs[id] # None => RowHolds(id, jobs[id])
      /\ \A id \in Ids : disk[id] # None => RowHolds(id, disk[id])
  BY DEF StoreInv, TableHolds
<1>3. Started(p) /\ proc[p].id \in Ids
  BY <1>1, <1>2 DEF Recorded, RowHolds
<1>4. Shared(proc[p].id)
  BY <1>1 DEF FileIsBehind
<1>5. PICK id \in Ids : id = proc[p].id
  BY <1>3
<1>6. Shared(id)'
  BY <1>4, <1>5, SharedStays
<1>7. proc'[p].id = id
  BY <1>3, <1>5 DEF Ages
<1>8. QED
  BY <1>6, <1>7

LEMMA KnownKept ==
    ASSUME Ages, StartedIsKnown, restarts' = restarts,
           \A p \in Pids : Started(p)' => Started(p) \/ Launching(p)',
           \A p \in Pids : Launching(p) => Launching(p)' \/ Recorded(p, jobs)',
           \A p \in Pids : Recorded(p, jobs) => \/ Recorded(p, jobs)'
                                                \/ Shared(proc[p].id)
    PROVE  StartedIsKnown'
PROOF
<1> SUFFICES ASSUME restarts = 0, NEW p \in Pids, Started(p)', ~Launching(p)',
                    ~Recorded(p, jobs)'
             PROVE  Shared(proc[p].id)'
  BY DEF StartedIsKnown
<1>1. Started(p) /\ Shared(proc[p].id)
  BY DEF StartedIsKnown
<1>2. PICK x \in Pids, y \in Pids :
         /\ x # y /\ Started(x) /\ Started(y)
         /\ proc[x].id = proc[p].id /\ proc[y].id = proc[p].id
  BY <1>1 DEF Shared
<1>3. QED
  BY <1>1, <1>2 DEF Shared, Ages

(* Steps of a request that neither start nor file a command.                  *)
LEMMA AloneKept ==
    ASSUME StoreInv, AloneInv, Ages,
           \A h \in Handlers : SameOrNothing(h),
           \A q \in Pids : SameRequest(q),
           \A p \in Pids : Launching(p)' <=> Launching(p),
           \A p \in Pids : NoMoreFiled(p) /\ (Recorded(p, jobs) => Recorded(p, jobs)'),
           restarts' = restarts
    PROVE  AloneInv'
PROOF
<1> USE DEF StoreInv, AloneInv
<1>1. LaunchesHold'
  BY LaunchesKept DEF NoMoreFiled
<1>2. FileIsBehind'
  BY FileKept DEF NoMoreFiled
<1>3. StartedIsKnown'
  BY KnownKept DEF SameRequest
<1>4. QED
  BY <1>1, <1>2, <1>3

(* A request that is in no launch before and after a step.                    *)
LEMMA LaunchingKept ==
    ASSUME NEW h \in Handlers, \A g \in Handlers \ {h} : handler'[g] = handler[g],
           handler[h].pc # "spawned", handler'[h].pc # "spawned", NEW p \in Pids
    PROVE  Launching(p)' <=> Launching(p)
PROOF
  BY DEF Launching

(* Every step keeps what was filed in sight of later launches.                *)
LEMMA AloneStep ==
    StoreInv /\ AloneInv /\ [Next]_vars => AloneInv'
PROOF
<1> SUFFICES ASSUME StoreInv, AloneInv, [Next]_vars PROVE AloneInv'
  OBVIOUS
<1> USE NoneIsNoRecord
<1>0. TypeOK /\ HandlersHold /\ ReapersHold /\ Ages
  BY AgesStep DEF StoreInv
<1>a. UNCHANGED <<jobs, disk>>
      => \A p \in Pids : NoMoreFiled(p) /\ (Recorded(p, jobs) => Recorded(p, jobs)')
  BY DEF NoMoreFiled, Recorded
<1>b. proc' = proc => \A q \in Pids : SameRequest(q)
  BY DEF SameRequest, Started
<1>c. handler' = handler => /\ \A h \in Handlers : SameOrNothing(h)
                            /\ \A p \in Pids : Launching(p)' <=> Launching(p)
  BY DEF SameOrNothing, Launching
<1>d. ASSUME NEW h \in Handlers,
             \A g \in Handlers \ {h} : handler'[g] = handler[g],
             handler[h].pc # "spawned", handler'[h].pc # "spawned",
             SameOrNothing(h), proc' = proc, restarts' = restarts,
             \A p \in Pids : NoMoreFiled(p) /\ (Recorded(p, jobs) => Recorded(p, jobs)')
      PROVE  AloneInv'
  <2>1. \A g \in Handlers : SameOrNothing(g)
    BY <1>d DEF SameOrNothing
  <2>2. \A p \in Pids : Launching(p)' <=> Launching(p)
    BY <1>d, LaunchingKept
  <2>3. QED
    BY <1>0, <1>b, <1>d, <2>1, <2>2, AloneKept
<1>1. ASSUME NEW h \in Handlers, NEW s \in Specs, CreateJob(h, s) PROVE AloneInv'
  <2>1. /\ handler'[h].pc = "asked" /\ handler'[h].prior = {}
        /\ \A g \in Handlers \ {h} : handler'[g] = handler[g]
    BY <1>0, <1>1 DEF CreateJob, Idle, TypeOK
  <2>2. QED
    BY <1>1, <1>a, <1>d, <2>1 DEF CreateJob, SameOrNothing
<1>2. ASSUME NEW h \in Handlers, LaunchConflict(h) PROVE AloneInv'
  <2>0. UNCHANGED <<jobs, disk, proc, restarts>> /\ handler[h].pc = "asked"
    BY <1>2 DEF LaunchConflict
  <2>1. CASE Conflict(handler[h].spec)
    BY <1>0, <1>2, <1>a, <1>d, <2>0, <2>1, ReturnMoves
    DEF LaunchConflict, SameOrNothing
  <2>2. CASE ~Conflict(handler[h].spec)
    <3>1. /\ handler'[h].pc = "cleared"
          /\ handler'[h].spec = handler[h].spec
          /\ handler'[h].prior = {p \in Pids : Started(p) /\ ~Launching(p)}
          /\ \A g \in Handlers \ {h} : handler'[g] = handler[g]
      BY <1>0, <1>2, <2>2, ClearMoves
    <3>2. PICK s : s = handler[h].spec
      OBVIOUS
    <3>3. \A p \in Pids : /\ Launching(p)' <=> Launching(p)
                          /\ Started(p)' <=> Started(p)
                          /\ Unseen(p, s)' <=> Unseen(p, s)
                          /\ Recorded(p, jobs)' <=> Recorded(p, jobs)
      BY <2>0, <3>1, LaunchingKept DEF Started, Unseen, Running, Shared, Recorded
    <3>4. \A p \in Pids : Unseen(p, s)
      BY <2>2, <3>2, ClearedUnseen
    <3>5. PriorHolds(handler[h].prior, handler[h].spec)'
      BY <3>1, <3>2, <3>3, <3>4 DEF PriorHolds
    <3>6. ASSUME NEW prior \in SUBSET Pids, NEW r, PriorHolds(prior, r)
          PROVE  PriorHolds(prior, r)'
      <4>1. \A p \in Pids : Unseen(p, r)' <=> Unseen(p, r)
        BY <2>0 DEF Unseen, Running, Shared, Started, Recorded
      <4>2. QED
        BY <3>3, <3>6, <4>1 DEF PriorHolds
    <3>7. ASSUME NEW g \in Handlers \ {h}
          PROVE  PriorHolds(handler[g].prior, handler[g].spec)'
      <4>1. PICK prior, r : /\ prior \in SUBSET Pids
                            /\ prior = handler[g].prior /\ r = handler[g].spec
        BY <1>0 DEF TypeOK, Requests
      <4>2. PriorHolds(prior, r)'
        BY <3>6, <4>1 DEF AloneInv, LaunchesHold
      <4>3. QED
        BY <3>1, <4>1, <4>2 DEF PriorHolds
    <3>8. ASSUME NEW q \in Pids PROVE PriorHolds(proc[q].prior, proc[q].spec)'
      <4>1. PICK prior, r : /\ prior \in SUBSET Pids
                            /\ prior = proc[q].prior /\ r = proc[q].spec
        BY <1>0 DEF TypeOK, Processes
      <4>2. PriorHolds(prior, r)'
        BY <3>6, <4>1 DEF AloneInv, LaunchesHold
      <4>3. QED
        BY <2>0, <4>1, <4>2 DEF PriorHolds
    <3>9. LaunchesHold'
      BY <3>5, <3>7, <3>8 DEF LaunchesHold
    <3>10. FileIsBehind' /\ StartedIsKnown'
      BY <1>0, <1>a, <2>0, <3>3, FileKept, KnownKept DEF AloneInv
    <3>11. QED
      BY <3>9, <3>10 DEF AloneInv
  <2>3. QED
    BY <2>1, <2>2
<1>3. ASSUME NEW h \in Handlers, LaunchName(h) PROVE AloneInv'
  BY <1>0, <1>3, <1>a, <1>d, NameMoves DEF LaunchName, SameOrNothing
<1>4. ASSUME NEW h \in Handlers, LaunchSpawn(h) PROVE AloneInv'
  <2>0. UNCHANGED <<jobs, disk, restarts>> /\ handler[h].pc = "named"
    BY <1>4 DEF LaunchSpawn
  <2>1. \A g \in Handlers \ {h} : handler'[g] = handler[g]
    BY <1>0, <1>4, SpawnMoves
  <2>2. CASE /\ handler'[h].pc = "idle" /\ handler'[h].prior = {}
             /\ proc' = proc
    BY <1>a, <1>d, <2>0, <2>1, <2>2 DEF SameOrNothing
  <2>3. ASSUME NEW p \in Pids, ~Started(p), proc'[p] = Child(handler[h]),
               \A q \in Pids \ {p} : proc'[q] = proc[q],
               handler'[h].pc = "spawned", handler'[h].spec = handler[h].spec,
               handler'[h].prior = handler[h].prior, handler'[h].pid = p
        PROVE  AloneInv'
    <3>1. \A x \in Pids : Launching(x)' <=> Launching(x) \/ x = p
      BY <2>0, <2>1, <2>3 DEF Launching
    <3>2. ASSUME NEW x \in Pids, NEW s, Started(x), ~Launching(x), Unseen(x, s)
          PROVE  Started(x)' /\ ~Launching(x)' /\ Unseen(x, s)'
      <4>1. Recorded(x, jobs)' => Recorded(x, jobs)
        BY <2>0 DEF Recorded
      <4>2. QED
        BY <1>0, <2>3, <3>1, <3>2, <4>1, PriorAges DEF Ages
    <3>3. ASSUME NEW prior \in SUBSET Pids, NEW s, PriorHolds(prior, s)
          PROVE  \A x \in prior : Started(x)' /\ ~Launching(x)' /\ Unseen(x, s)'
      BY <3>2, <3>3 DEF PriorHolds
    <3>4. ASSUME NEW g \in Handlers
          PROVE  PriorHolds(handler[g].prior, handler[g].spec)'
      <4>1. PICK prior, s : /\ prior \in SUBSET Pids
                            /\ prior = handler[g].prior /\ s = handler[g].spec
        BY <1>0 DEF TypeOK, Requests
      <4>2. handler'[g].prior = prior /\ handler'[g].spec = s
        BY <2>1, <2>3, <4>1
      <4>3. PriorHolds(prior, s)
        BY <4>1 DEF AloneInv, LaunchesHold
      <4>4. QED
        BY <3>3, <4>1, <4>2, <4>3 DEF PriorHolds
    <3>5. ASSUME NEW q \in Pids
          PROVE  PriorHolds(proc[q].prior, proc[q].spec)'
      <4>1. PICK prior, s : /\ prior \in SUBSET Pids
                            /\ prior = proc'[q].prior /\ s = proc'[q].spec
               /\ PriorHolds(prior, s)
        <5>1. CASE q = p
          <6>1. proc'[q].prior = handler[h].prior /\ proc'[q].spec = handler[h].spec
            BY <2>3, <5>1 DEF Child
          <6>2. handler[h].prior \in SUBSET Pids
            BY <1>0 DEF TypeOK, Requests
          <6>3. PriorHolds(handler[h].prior, handler[h].spec)
            BY DEF AloneInv, LaunchesHold
          <6>4. QED
            BY <6>1, <6>2, <6>3
        <5>2. CASE q # p
          <6>1. proc'[q] = proc[q] /\ proc[q].prior \in SUBSET Pids
            BY <1>0, <2>3, <5>2 DEF TypeOK, Processes
          <6>2. PriorHolds(proc[q].prior, proc[q].spec)
            BY DEF AloneInv, LaunchesHold
          <6>3. QED
            BY <6>1, <6>2
        <5>3. QED
          BY <5>1, <5>2
      <4>2. QED
        BY <3>3, <4>1 DEF PriorHolds
    <3>6. FileIsBehind'
      BY <1>0, <1>a, <2>0, FileKept DEF AloneInv, NoMoreFiled
    <3>7. StartedIsKnown'
      <4>1. \A x \in Pids : Started(x)' => Started(x) \/ Launching(x)'
        BY <2>3, <3>1 DEF Started
      <4>2. QED
        BY <1>0, <1>a, <2>0, <3>1, <4>1, KnownKept DEF AloneInv
    <3>8. QED
      BY <3>4, <3>5, <3>6, <3>7 DEF AloneInv, LaunchesHold
  <2>4. QED
    BY <1>0, <1>4, <2>2, <2>3, SpawnMoves
<1>5. ASSUME NEW h \in Handlers, LaunchRecord(h) PROVE AloneInv'
  <2>0. /\ UNCHANGED <<proc, restarts>> /\ handler[h].pc = "spawned"
        /\ handler'[h].pc = "idle" /\ handler'[h].prior = {}
        /\ \A g \in Handlers \ {h} : handler'[g] = handler[g]
    BY <1>0, <1>5, RecordMoves, ReturnMoves DEF LaunchRecord
  <2>1. PICK pid \in Pids : pid = handler[h].pid
    BY <1>0, <1>5, RecordMoves
  <2>2. ASSUME NEW p \in Pids
        PROVE  /\ p # pid => NoMoreFiled(p)
               /\ Recorded(pid, jobs)'
               /\ Recorded(p, jobs) /\ p # pid
                  => Recorded(p, jobs)' \/ Shared(proc[p].id)
    BY <1>5, <2>1, RecordFilesOne
  <2>3. Launching(pid)
    BY <2>0, <2>1 DEF Launching
  <2>4. \A p \in Pids : /\ Launching(p)' => Launching(p)
                        /\ Launching(p) => Launching(p)' \/ p = pid
    BY <2>0, <2>1 DEF Launching
  <2>5. LaunchesHold'
    <3>1. \A g \in Handlers : SameOrNothing(g)
      BY <2>0 DEF SameOrNothing
    <3>2. \A p \in Pids : Started(p) /\ ~Launching(p) /\ Recorded(p, jobs)'
                          => Recorded(p, jobs) \/ Shared(proc[p].id)
      BY <2>2, <2>3 DEF NoMoreFiled
    <3>3. QED
      BY <1>0, <1>b, <2>0, <2>4, <3>1, <3>2, LaunchesKept DEF AloneInv
  <2>6. FileIsBehind'
    <3>1. \A p \in Pids : Recorded(p, disk)' => \/ Recorded(p, disk)
                                                \/ Recorded(p, jobs)
                                                \/ Recorded(p, jobs)'
      BY <2>2 DEF NoMoreFiled
    <3>2. \A p \in Pids : Recorded(p, jobs) => \/ Recorded(p, jobs)'
                                               \/ Shared(proc[p].id)
      BY <2>2
    <3>3. QED
      BY <1>0, <3>1, <3>2, FileKept DEF AloneInv
  <2>7. StartedIsKnown'
    <3>1. \A p \in Pids : Started(p)' => Started(p) \/ Launching(p)'
      BY <2>0 DEF Started
    <3>2. \A p \in Pids : Launching(p) => Launching(p)' \/ Recorded(p, jobs)'
      BY <2>2, <2>4
    <3>3. \A p \in Pids : Recorded(p, jobs) => \/ Recorded(p, jobs)'
                                               \/ Shared(proc[p].id)
      BY <2>2
    <3>4. QED
      BY <1>0, <2>0, <3>1, <3>2, <3>3, KnownKept DEF AloneInv
  <2>8. QED
    BY <2>5, <2>6, <2>7 DEF AloneInv
<1>6. ASSUME NEW h \in Handlers, NEW id \in Ids, StopRead(h, id) PROVE AloneInv'
  <2>1. /\ handler'[h].pc = "signalling" /\ handler'[h].prior = {}
        /\ \A g \in Handlers \ {h} : handler'[g] = handler[g]
    BY <1>0, <1>6 DEF StopRead, Idle, TypeOK
  <2>2. QED
    BY <1>6, <1>a, <1>d, <2>1 DEF StopRead, SameOrNothing
<1>7. ASSUME NEW h \in Handlers, StopSignal(h) PROVE AloneInv'
  <2>1. UNCHANGED <<jobs, disk, proc, restarts>> /\ handler[h].pc = "signalling"
    BY <1>7 DEF StopSignal
  <2>2. CASE Return(h)
    BY <1>0, <1>a, <1>d, <2>1, <2>2, ReturnMoves DEF SameOrNothing
  <2>3. CASE Goto(h, "signalled")
    BY <1>0, <1>a, <1>d, <2>1, <2>3, GotoMoves DEF SameOrNothing
  <2>4. QED
    BY <1>7, <2>2, <2>3 DEF StopSignal
<1>8. ASSUME NEW h \in Handlers, StopMark(h) PROVE AloneInv'
  <2>1. /\ UNCHANGED <<proc, restarts>> /\ handler[h].pc = "signalled"
        /\ handler'[h].pc = "idle" /\ handler'[h].prior = {}
        /\ \A g \in Handlers \ {h} : handler'[g] = handler[g]
    BY <1>0, <1>8, ReturnMoves DEF StopMark
  <2>2. \A p \in Pids : NoMoreFiled(p) /\ (Recorded(p, jobs) => Recorded(p, jobs)')
    BY <1>8, MarkFilesNobody
  <2>3. QED
    BY <1>d, <2>1, <2>2 DEF SameOrNothing
<1>9. ASSUME NEW p \in Pids, Exit(p) \/ ReapWait(p) PROVE AloneInv'
  <2>1. UNCHANGED <<jobs, disk, handler, restarts>>
    BY <1>9 DEF Exit, ReapWait
  <2>2. \A q \in Pids : SameRequest(q)
    BY <1>0, <1>9, ExitMoves, WaitMoves DEF SameRequest, Started
  <2>3. QED
    BY <1>0, <1>a, <1>c, <2>1, <2>2, AloneKept
<1>11. ASSUME NEW p \in Pids, ReapRecord(p) PROVE AloneInv'
  <2>1. UNCHANGED <<proc, handler, restarts>>
    BY <1>11 DEF ReapRecord
  <2>2. \A q \in Pids : NoMoreFiled(q) /\ (Recorded(q, jobs) => Recorded(q, jobs)')
    BY <1>11, VerdictFilesNobody
  <2>3. QED
    BY <1>0, <1>b, <1>c, <2>1, <2>2, AloneKept
<1>12. CASE Restart
  <2>1. \A h \in Handlers : handler'[h].prior = {} /\ handler'[h].pc = "idle"
    BY <1>12 DEF Restart, Idle
  <2>2. \A q \in Pids : SameRequest(q)
    BY <1>0, <1>12, RestartMoves DEF SameRequest, Started
  <2>3. \A p \in Pids : /\ Recorded(p, jobs)' <=> Recorded(p, disk)
                        /\ Recorded(p, disk)' <=> Recorded(p, disk)
    BY <1>12, RestartFilesNobody
  <2>4. \A p \in Pids : Recorded(p, disk) => Recorded(p, jobs) \/ Shared(proc[p].id)
    BY DEF AloneInv, FileIsBehind
  <2>5. LaunchesHold'
    <3>1. \A h \in Handlers : SameOrNothing(h)
      BY <2>1 DEF SameOrNothing
    <3>2. \A p \in Pids : Launching(p)' => Launching(p)
      BY <2>1 DEF Launching
    <3>3. QED
      BY <1>0, <2>2, <2>3, <2>4, <3>1, <3>2, LaunchesKept DEF AloneInv
  <2>6. FileIsBehind'
    BY <2>3 DEF FileIsBehind
  <2>7. StartedIsKnown'
    <3>1. restarts \in Nat /\ restarts' = restarts + 1
      BY <1>0, <1>12, JobStoreAssumption DEF TypeOK, Restart
    <3>2. QED
      BY <3>1 DEF StartedIsKnown
  <2>8. QED
    BY <2>5, <2>6, <2>7 DEF AloneInv
<1>13. CASE UNCHANGED vars
  BY <1>0, <1>13, <1>a, <1>b, <1>c, AloneKept DEF vars
<1>14. QED
  BY <1>1, <1>2, <1>3, <1>4, <1>5, <1>6, <1>7, <1>8, <1>9, <1>11, <1>12, <1>13
  DEF Next, Handle, Reap

(* A server that starts with no job and no command satisfies all of it.       *)
LEMMA StoreInit ==
    Init => StoreInv /\ AloneInv
PROOF
<1> SUFFICES ASSUME Init PROVE StoreInv /\ AloneInv
  OBVIOUS
<1> USE JobStoreAssumption DEF Init
<1>1. TypeOK
  BY DEF TypeOK, JobTables, NoJobs, Processes, Reapers, Requests, NoReaper,
         Idle, Unborn
<1>2. \A p \in Pids : ~Started(p) /\ proc[p].prior = {}
  BY DEF Started, Unborn
<1>3. HandlersHold /\ ReapersHold
  BY DEF HandlersHold, ReapersHold, Idle, NoReaper
<1>4. TableHolds(jobs) /\ TableHolds(disk)
  BY DEF TableHolds, NoJobs
<1>5. LaunchesHold
  BY <1>2 DEF LaunchesHold, PriorHolds, Idle
<1>6. FileIsBehind /\ StartedIsKnown
  BY <1>2 DEF FileIsBehind, StartedIsKnown, Recorded, NoJobs
<1>7. QED
  BY <1>1, <1>3, <1>4, <1>5, <1>6 DEF StoreInv, AloneInv

LEMMA StoreStep ==
    StoreInv /\ [Next]_vars => StoreInv'
PROOF
  BY TypeStep, HandlersStep, ReapersStep, TablesStep DEF StoreInv

(* The supervisor keeps its tables, threads and processes in their types      *)
(* (webui/jobs.py).                                                           *)
THEOREM JobStoreTypeCorrect == Spec => []TypeOK
PROOF
<1>1. StoreInv => TypeOK
  BY DEF StoreInv
<1>2. QED
  BY <1>1, StoreInit, StoreStep, PTL DEF Spec

(* Whatever requests, reapers, failing writes of jobs.json and restarts do to *)
(* each other, what the table says of a job that has its id to itself is true *)
(* of its process: a job said to be over has ended, and its verdict is that   *)
(* process's own (jobs.py:380-397). Jobs named in one second are not covered. *)
THEOREM JobRecordsAreTrue == Spec => []RecordsAreTrue
PROOF
<1>1. StoreInv => RecordsAreTrue
  BY DEF StoreInv, TableHolds, RowHolds, RecordHolds, RecordsAreTrue,
         FinishedHasEnded, VerdictIsItsOwn
<1>2. QED
  BY <1>1, StoreInit, StoreStep, PTL DEF Spec

(* However many requests, stops, failing writes and restarts there are: while *)
(* a benchmark runs, nothing runs beside it that was filed, under an id of    *)
(* its own and in a record still there, before the other's request asked      *)
(* conflict_for for the last time (jobs.py:299-317).                          *)
THEOREM JobAloneUnlessRaced == Spec => []AloneUnlessRaced
PROOF
<1>1. StoreInv /\ AloneInv => AloneUnlessRaced
  <2> SUFFICES ASSUME StoreInv, AloneInv, NEW p \in Pids, NEW q \in Pids,
                      Running(p), p \in proc[q].prior,
                      ~Shared(proc[p].id), ~Forgotten(p), ~Compatible(p, q)
               PROVE  FALSE
    BY DEF AloneUnlessRaced
  <2>1. Started(p) /\ ~Launching(p) /\ Unseen(p, proc[q].spec)
    BY DEF AloneInv, LaunchesHold, PriorHolds
  <2>2. ~Recorded(p, jobs)
    BY <2>1 DEF Unseen, Compatible
  <2>3. restarts = 0
    BY <2>2, JobStoreAssumption DEF Forgotten, StoreInv, TypeOK
  <2>4. QED
    BY <2>1, <2>2, <2>3 DEF AloneInv, StartedIsKnown
<1>2. StoreInv /\ AloneInv /\ [Next]_vars => (StoreInv /\ AloneInv)'
  BY StoreStep, AloneStep
<1>3. QED
  BY <1>1, <1>2, StoreInit, PTL DEF Spec
=============================================================================
