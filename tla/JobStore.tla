------------------------------ MODULE JobStore ------------------------------
(* The web interface's job supervisor: webui/jobs.py, reached through the     *)
(* handlers of webui/control.py. Requests are served by a ThreadingHTTPServer *)
(* (one thread per request), every launched command gets a reaper thread, and *)
(* the commands themselves are operating-system processes in sessions of      *)
(* their own. JobStore._lock covers single reads and single updates: a        *)
(* handler takes it several times, and everything between two takings is a    *)
(* step of its own here.                                                      *)
EXTENDS Integers, FiniteSets

CONSTANTS
    Handlers,        \* request threads that may be active at once
    Specs,           \* the distinct command lines a request may ask for
    Measurements,    \* those of kind "run"; the others are setup jobs
    MaxProcs,        \* bound: commands started in one behaviour
    MaxClock,        \* bound: the last second in which a job is named
    MaxRestarts,     \* bound: restarts of the web server
    WritesFail,      \* whether jobs.json may fail to be written
    None

ASSUME JobStoreAssumption ==
    /\ Measurements \subseteq Specs
    /\ MaxProcs \in Nat /\ MaxClock \in Nat /\ MaxRestarts \in Nat
    /\ WritesFail \in BOOLEAN
    /\ None \notin Specs \cup Nat

Pids == 1 .. MaxProcs
Ids == 0 .. MaxClock     \* a job is named by a second: jobs of one second share it
Codes == {0, 1}          \* an exit code is zero or it is not

VARIABLES
    jobs,      \* _jobs: the records in memory, by job id
    disk,      \* jobs.json
    proc,      \* the operating system's view of each command started
    reaper,    \* the _reap thread of each command
    handler,   \* where each request thread is, and what it has read so far
    clock,     \* the second of the last launch
    restarts

vars == <<jobs, disk, proc, reaper, handler, clock, restarts>>

Finished == {"completed", "failed", "stopped", "orphaned"}
Records == [spec: Specs, status: Finished \cup {"running", "stopping"},
            pid: Pids, exit: Codes \cup {None}]
(* A process: its id is the one its job was given, its prior (history) the     *)
(* commands that had been filed when its request last asked for conflicts.    *)
Processes == [st: {"unborn", "running", "zombie", "gone"},
              code: Codes \cup {None}, spec: Specs \cup {None}, child: BOOLEAN,
              id: Ids \cup {None}, prior: SUBSET Pids]
Reapers == [pc: {"none", "waiting", "waited"}, id: Ids \cup {None}]
Requests == [pc: {"idle", "asked", "cleared", "named", "spawned", "signalling",
                  "signalled"},
             spec: Specs \cup {None}, id: Ids \cup {None}, pid: Pids \cup {None},
             prior: SUBSET Pids]

ASSUME NoneIsNoRecord == None \notin Records

JobTables == [Ids -> Records \cup {None}]
NoJobs == [id \in Ids |-> None]
Idle == [pc |-> "idle", spec |-> None, id |-> None, pid |-> None, prior |-> {}]
Unborn == [st |-> "unborn", code |-> None, spec |-> None, child |-> FALSE,
           id |-> None, prior |-> {}]
NoReaper == [pc |-> "none", id |-> None]

TypeOK ==
    /\ jobs \in JobTables
    /\ disk \in JobTables
    /\ proc \in [Pids -> Processes]
    /\ reaper \in [Pids -> Reapers]
    /\ handler \in [Handlers -> Requests]
    /\ clock \in 0 .. MaxClock
    /\ restarts \in 0 .. MaxRestarts

Init ==
    /\ jobs = NoJobs
    /\ disk = NoJobs
    /\ proc = [p \in Pids |-> Unborn]
    /\ reaper = [p \in Pids |-> NoReaper]
    /\ handler = [h \in Handlers |-> Idle]
    /\ clock = 0
    /\ restarts = 0

-----------------------------------------------------------------------------
(* _alive: kill(pid, 0) also succeeds on a zombie nobody has waited for yet.  *)
Alive(p) == proc[p].st \in {"running", "zombie"}
Running(p) == proc[p].st = "running"

(* A plausible bug: a job being stopped is not seen as running.               *)
ActiveIds_RunningOnly == {id \in Ids : /\ jobs[id] # None
                                       /\ jobs[id].status = "running"
                                       /\ Alive(jobs[id].pid)}
ActiveIds == {id \in Ids : /\ jobs[id] # None
                           /\ jobs[id].status \in {"running", "stopping"}
                           /\ Alive(jobs[id].pid)}

(* conflict_for: a measurement excludes everything, anything excludes it.     *)
Conflict(s) == \E id \in ActiveIds :
                  \/ jobs[id].spec \in Measurements
                  \/ s \in Measurements

Duplicate(s) == \E id \in ActiveIds : jobs[id].spec = s

(* A command that was started, and one no table knows of yet.                 *)
Started(p) == proc[p].st # "unborn"
Launching(p) == \E h \in Handlers : /\ handler[h].pc = "spawned"
                                    /\ handler[h].pid = p

Goto(h, pc) == handler' = [handler EXCEPT ![h].pc = pc]
Return(h) == handler' = [handler EXCEPT ![h] = Idle]

(* _persist: jobs.json is replaced as a whole, or an OSError is swallowed and *)
(* the previous file stays.                                                   *)
Persist(table) == \/ disk' = table
                  \/ WritesFail /\ disk' = disk

(* create_job asks conflict_for once, to choose between 409 and 400 ...       *)
CreateJob(h, s) ==
    /\ handler[h].pc = "idle"
    /\ ~Conflict(s)
    /\ handler' = [handler EXCEPT ![h] = [Idle EXCEPT !.pc = "asked",
                                                      !.spec = s]]
    /\ UNCHANGED <<jobs, disk, proc, reaper, clock, restarts>>

(* ... and launch asks it again, for the last time.                           *)
LaunchConflict(h) ==
    /\ handler[h].pc = "asked"
    /\ IF Conflict(handler[h].spec)
         THEN Return(h)
         ELSE handler' = [handler EXCEPT
                 ![h].pc = "cleared",
                 ![h].prior = {p \in Pids : Started(p) /\ ~Launching(p)}]
    /\ UNCHANGED <<jobs, disk, proc, reaper, clock, restarts>>

(* launch refuses the same command line twice, then names the job after the   *)
(* second it is: later than that of the last launch, or the same one. Two     *)
(* launched in one second share an id, and with it the record and the log.    *)
LaunchName(h) ==
    /\ handler[h].pc = "cleared"
    /\ IF Duplicate(handler[h].spec)
         THEN Return(h) /\ UNCHANGED clock
         ELSE \E now \in clock .. MaxClock :
                /\ clock' = now
                /\ handler' = [handler EXCEPT ![h].pc = "named", ![h].id = now]
    /\ UNCHANGED <<jobs, disk, proc, reaper, restarts>>

(* Popen: the command runs from here on, and no table knows it.               *)
Child(me) == [st |-> "running", code |-> None, spec |-> me.spec, child |-> TRUE,
              id |-> me.id, prior |-> me.prior]

LaunchSpawn(h) ==
    /\ handler[h].pc = "named"
    /\ \/ \E p \in Pids :
            /\ proc[p].st = "unborn"
            /\ \A q \in Pids : q < p => proc[q].st # "unborn"
            /\ proc' = [proc EXCEPT ![p] = Child(handler[h])]
            /\ handler' = [handler EXCEPT ![h].pc = "spawned", ![h].pid = p]
       \/ /\ Return(h)       \* OSError: "could not start run"
          /\ UNCHANGED proc
    /\ UNCHANGED <<jobs, disk, reaper, clock, restarts>>

LaunchRecord(h) ==
    LET me == handler[h]
        table == [jobs EXCEPT ![me.id] = [spec |-> me.spec, pid |-> me.pid,
                                          status |-> "running", exit |-> None]]
    IN  /\ me.pc = "spawned"
        /\ jobs' = table
        /\ Persist(table)
        /\ reaper' = [reaper EXCEPT ![me.pid] = [pc |-> "waiting", id |-> me.id]]
        /\ Return(h)
        /\ UNCHANGED <<proc, clock, restarts>>

-----------------------------------------------------------------------------
(* stop reads the record, signals the process group, then takes the lock      *)
(* again to say so.                                                           *)
StopRead(h, id) ==
    /\ handler[h].pc = "idle"
    /\ jobs[id] # None
    /\ jobs[id].status = "running"
    /\ handler' = [handler EXCEPT ![h] =
                     [Idle EXCEPT !.pc = "signalling", !.id = id,
                                  !.pid = jobs[id].pid]]
    /\ UNCHANGED <<jobs, disk, proc, reaper, clock, restarts>>

StopSignal(h) ==
    LET p == handler[h].pid
    IN  /\ handler[h].pc = "signalling"
        /\ IF Alive(p)
             THEN Goto(h, "signalled")
             ELSE Return(h)      \* ProcessLookupError
        /\ UNCHANGED <<jobs, disk, proc, reaper, clock, restarts>>

StopMark(h) ==
    LET id == handler[h].id
    IN  /\ handler[h].pc = "signalled"
        /\ IF jobs[id] # None
             THEN /\ jobs' = [jobs EXCEPT ![id].status = "stopping"]
                  /\ Persist(jobs')
             ELSE UNCHANGED <<jobs, disk>>
        /\ Return(h)
        /\ UNCHANGED <<proc, reaper, clock, restarts>>

-----------------------------------------------------------------------------
(* A command ends. A child of the server stays a zombie until it is waited    *)
(* for; one that outlived its server is reaped by init at once.               *)
Exit(p) ==
    /\ proc[p].st = "running"
    /\ \E code \in Codes :
         proc' = [proc EXCEPT ![p].code = code,
                              ![p].st = IF proc[p].child THEN "zombie"
                                                         ELSE "gone"]
    /\ UNCHANGED <<jobs, disk, reaper, handler, clock, restarts>>

(* _reap: process.wait() returns ...                                          *)
ReapWait(p) ==
    /\ reaper[p].pc = "waiting"
    /\ proc[p].st = "zombie"
    /\ proc' = [proc EXCEPT ![p].st = "gone"]
    /\ reaper' = [reaper EXCEPT ![p].pc = "waited"]
    /\ UNCHANGED <<jobs, disk, handler, clock, restarts>>

(* A plausible bug: nothing is said of a job that failed.                     *)
OutcomeOf_NoFailure(record, code) ==
    IF code = 0 THEN "completed" ELSE record.status

OutcomeOf(record, code) ==
    CASE code = 0 -> "completed"
      [] code # 0 /\ record.status = "stopping" -> "stopped"
      [] code # 0 /\ record.status # "stopping" -> "failed"

(* ... and, in a lock of its own, the record filed under the id is closed.    *)
ReapRecord(p) ==
    LET id == reaper[p].id
        code == proc[p].code
    IN  /\ reaper[p].pc = "waited"
        /\ IF jobs[id] # None
             THEN jobs' = [jobs EXCEPT
                     ![id] = [@ EXCEPT !.status = OutcomeOf(jobs[id], code),
                                       !.exit = code]]
             ELSE UNCHANGED jobs
        /\ Persist(jobs')
        /\ reaper' = [reaper EXCEPT ![p] = NoReaper]
        /\ UNCHANGED <<proc, handler, clock, restarts>>

-----------------------------------------------------------------------------
(* The processes a new server finds: those of the old one went with its       *)
(* container (alive = {}), or run on without a parent.                        *)
Abandoned(alive) ==
    [p \in Pids |->
        IF proc[p].st = "unborn" THEN proc[p]
        ELSE [proc[p] EXCEPT !.child = FALSE,
                !.code = IF @ = None /\ p \notin alive THEN 1 ELSE @,
                !.st = IF proc[p].st = "running" /\ p \in alive
                         THEN "running" ELSE "gone"]]

(* A plausible bug: orphans every running record, its process alive or not.   *)
Load_Unasked(table, procs) ==
    [id \in Ids |->
        IF table[id] # None /\ table[id].status = "running"
        THEN [table[id] EXCEPT !.status = "orphaned"]
        ELSE table[id]]

(* _load: a running record whose process is gone becomes orphaned; nothing is *)
(* done for one that was being stopped, and no reaper is started for either.  *)
Load(table, procs) ==
    [id \in Ids |->
        IF /\ table[id] # None
           /\ table[id].status = "running"
           /\ procs[table[id].pid].st \notin {"running", "zombie"}
        THEN [table[id] EXCEPT !.status = "orphaned"]
        ELSE table[id]]

Restart ==
    /\ restarts < MaxRestarts
    /\ restarts' = restarts + 1
    /\ \E alive \in {Pids, {}} :
         /\ proc' = Abandoned(alive)
         /\ jobs' = Load(disk, proc')
    /\ reaper' = [p \in Pids |-> NoReaper]
    /\ handler' = [h \in Handlers |-> Idle]
    /\ UNCHANGED <<disk, clock>>

Handle(h) == \/ LaunchConflict(h) \/ LaunchName(h) \/ LaunchSpawn(h)
             \/ LaunchRecord(h) \/ StopSignal(h) \/ StopMark(h)
Reap(p) == ReapWait(p) \/ ReapRecord(p)

Next ==
    \/ \E h \in Handlers : \/ Handle(h)
                           \/ \E s \in Specs : CreateJob(h, s)
                           \/ \E id \in Ids : StopRead(h, id)
    \/ \E p \in Pids : Exit(p) \/ Reap(p)
    \/ Restart

(* A reaper thread that can run does run. A command may take for ever, a      *)
(* client may never ask again, a request may be as slow as it likes, and the  *)
(* server is not obliged to restart.                                          *)
Fairness == \A p \in Pids : WF_vars(Reap(p))

Spec == Init /\ [][Next]_vars
FairSpec == Spec /\ Fairness

-----------------------------------------------------------------------------
(* A command is on record if some record in memory names it. An id that two   *)
(* commands were launched under has one record for both of them.              *)
Recorded(p, table) == \E id \in Ids : table[id] # None /\ table[id].pid = p
Shared(id) == \E p, q \in Pids : /\ p # q /\ Started(p) /\ Started(q)
                                 /\ proc[p].id = id /\ proc[q].id = id

Compatible(p, q) == {proc[p].spec, proc[q].spec} \cap Measurements = {}

(* While a benchmark runs, nothing that was filed before the other's request  *)
(* last asked conflict_for (jobs.py:317) runs beside it, whatever requests,   *)
(* stops, reapers, failing writes of jobs.json and restarts come in between:  *)
(* the record, its status and the liveness of its pid together have to keep   *)
(* the first one in sight. Three ways past it remain, and are left out here:  *)
(* two launches that both ask before either is filed (MeasurementAlone shows  *)
(* that one), an id shared with a job of the same second (jobs.py:331), and   *)
(* a record that a restarted server did not find in jobs.json.                *)
Forgotten(p) == restarts > 0 /\ ~Recorded(p, jobs)
AloneUnlessRaced ==
    \A p, q \in Pids :
        /\ Running(p) /\ Running(q)
        /\ p \in proc[q].prior
        /\ ~Shared(proc[p].id) /\ ~Forgotten(p)
        => Compatible(p, q)

(* What the module's docstring says without condition: nothing that was       *)
(* started from the interface runs beside a benchmark (jobs.py:8). Between    *)
(* conflict_for and the record (jobs.py:317-366) no lock is held, so two      *)
(* requests at once both find nothing in the way.                             *)
MeasurementAlone ==
    \A p, q \in Pids : p # q /\ Running(p) /\ Running(q) => Compatible(p, q)

(* A record that says a job is over is only ever written about a process that *)
(* has ended, whoever wrote it: the reaper or a restarted server ...          *)
FinishedHasEnded(id) == jobs[id].status \in Finished => ~Running(jobs[id].pid)

(* ... and its verdict is about the process it names: that one's exit code,   *)
(* and completed exactly when that code is zero.                              *)
VerdictIsItsOwn(id) ==
    LET job == jobs[id] IN
    job.exit # None => /\ job.exit = proc[job.pid].code
                       /\ job.status = "completed" => job.exit = 0
                       /\ job.status \in {"failed", "stopped"} => job.exit # 0

(* What the table says of a job is true of its process, however requests,     *)
(* reapers, failing writes and restarts interleave (_reap, _load, stop). It   *)
(* is not so for jobs launched in one second: they share a record, and the    *)
(* reaper of the first closes it over the second (jobs.py:331, 380-397).      *)
RecordsAreTrue ==
    \A id \in Ids : jobs[id] # None /\ ~Shared(id)
                    => FinishedHasEnded(id) /\ VerdictIsItsOwn(id)

(* The end of a job's process under the server that started it is eventually  *)
(* recorded with a verdict, whether or not somebody stops it meanwhile,       *)
(* unless that server goes down first. A stop can be marked over the verdict: *)
(* stop signals first and marks last (jobs.py:410-417), and nothing closes    *)
(* the record again.                                                          *)
Ended(id) == jobs[id] # None /\ ~Running(jobs[id].pid)
Closed(id) == /\ jobs[id] # None
              /\ jobs[id].status \in {"completed", "failed", "stopped"}
MarkedOver(id) == /\ jobs[id] # None
                  /\ jobs[id].status = "stopping" /\ jobs[id].exit # None
EndIsRecorded ==
    \A id \in Ids :
        (Ended(id) /\ restarts = 0)
            ~> (Closed(id) \/ MarkedOver(id) \/ restarts > 0)
=============================================================================
