------------------------------ MODULE Resources ------------------------------
(* What one engine is given under one resource pass: the CPUs of its server   *)
(* and of its clients, the shares of its memory, its threads and its /dev/shm *)
(* (harness/metrics/sysinfo.py, recommended_cpuset; orchestrator/config.py,   *)
(* resolve_resources), and what of that its flags carry (server_args,         *)
(* server_env). And which engines a run measures (profile_engines, cmd_run).  *)
(*                                                                            *)
(* Memory is counted in MB, the fractions of a pass in hundredths. A pass is  *)
(* a record of its settings; `auto' says that client_cpus is "auto", and a    *)
(* setting of 0 is one that the code reads as not given.                      *)
EXTENDS Integers, Sequences, SequencesExt

GB == 1024
Larger(a, b) == IF a > b THEN a ELSE b
Lesser(a, b) == IF a < b THEN a ELSE b
Share(percent, memory) == (memory * percent) \div 100

-----------------------------------------------------------------------------
(* The CPUs to choose from: of the preferred class where the machine has one, *)
(* and one of every group of siblings unless a pass allows them all. A        *)
(* machine is [all, performance, efficiency: lists of CPUs, siblings: for     *)
(* each CPU the set it shares a core with].                                   *)

ClassOf(machine, prefer) ==
    IF prefer = "performance" /\ machine.performance # << >>
    THEN machine.performance
    ELSE IF prefer = "efficiency" /\ machine.efficiency # << >>
    THEN machine.efficiency
    ELSE machine.all

OnePerCore(cpus, siblings) ==
    FoldLeft(LAMBDA chosen, c :
                 IF \E i \in DOMAIN chosen : c \in siblings[chosen[i]]
                 THEN chosen ELSE Append(chosen, c),
             << >>, cpus)

RecommendedCpuset(machine, prefer, allowSmt) ==
    IF allowSmt THEN ClassOf(machine, prefer)
    ELSE OnePerCore(ClassOf(machine, prefer), machine.siblings)

-----------------------------------------------------------------------------
(* How a pool of n CPUs is divided, its CPUs known by their places in it. The *)
(* clients of a sweep of at most `clients' share a CPU two by two.            *)

AutoClientCpusFloor == 4
AutoClientCpus(clients) == Larger(AutoClientCpusFloor, (clients + 1) \div 2)

WantedClient(pass, clients) ==
    IF pass.auto THEN AutoClientCpus(clients)
    ELSE IF pass.clientCpus = 0 THEN 2 ELSE pass.clientCpus
WantedServer(pass, n, clients) ==
    IF pass.serverCpus = 0 THEN Larger(1, n - WantedClient(pass, clients))
    ELSE pass.serverCpus
TooMany(pass, n, clients) ==
    WantedServer(pass, n, clients) + WantedClient(pass, clients) > n

(* A number of client CPUs that cannot be had is scaled down with a warning;  *)
(* "auto" that cannot be had, or has no sweep to go by, refuses the run.      *)
CpusRefused(pass, n, clients) ==
    pass.auto /\ (clients = 0 \/ TooMany(pass, n, clients))
ServerShare(pass, n, clients) ==
    IF TooMany(pass, n, clients) THEN Larger(1, n - 1)
    ELSE WantedServer(pass, n, clients)
ClientShare(pass, n, clients) ==
    IF TooMany(pass, n, clients)
    THEN Larger(1, n - ServerShare(pass, n, clients))
    ELSE WantedClient(pass, clients)

ServerCpus(pass, n, clients) == 1 .. Lesser(n, ServerShare(pass, n, clients))
(* Past the end of the pool there is nothing left: then the last ones, shared. *)
ClientCpus(pass, n, clients) ==
    LET s == ServerShare(pass, n, clients)
        c == ClientShare(pass, n, clients)
    IN IF s < n THEN (s + 1) .. Lesser(n, s + c)
       ELSE Larger(1, n - c + 1) .. n

-----------------------------------------------------------------------------
(* Memory. A limit past what the host has is taken back to four fifths of it. *)

ServerMemory(pass, ram) ==
    LET asked == IF pass.limitGb > 0 THEN pass.limitGb * GB
                 ELSE Share(pass.hostFraction, ram)
    IN IF asked > ram THEN Share(80, ram) ELSE asked

(* The shares of the main cache, the graph cache and maintenance. PostgreSQL  *)
(* keeps its graph in the main cache; Valkey has nothing but its data;        *)
(* MongoDB leaves the share of the graph to the file system.                  *)
BufferFraction(pass, engine) ==
    CASE engine = "valkey" -> 0
      [] engine = "pgvector" /\ pass.absorbs -> pass.buffer + pass.graph
      [] OTHER -> pass.buffer
GraphFraction(pass, engine) ==
    IF engine \in {"valkey", "mongodb"} \/ (engine = "pgvector" /\ pass.absorbs)
    THEN 0 ELSE pass.graph
MaintenanceFraction(pass, engine) ==
    IF engine \in {"valkey", "mongodb"} THEN 0 ELSE pass.maintenance

(* Below the container's limit: at it the kernel would kill the server.       *)
Maxmemory(pass, engine, memory) ==
    IF engine = "valkey" THEN Share(pass.headroom, memory) ELSE 0

CompressedOopsCeiling == 30 * GB
MongotHeap(pass, engine, memory) ==
    IF engine = "mongodb"
    THEN Lesser(Lesser(pass.heapGb * GB, CompressedOopsCeiling), memory \div 2)
    ELSE 0

-----------------------------------------------------------------------------
(* Threads, and the /dev/shm that a parallel build of the index needs: room   *)
(* for its workers or for a segment of the size of maintenance_work_mem,      *)
(* whichever is more, at most half of the budget, in whole GB. What the pass  *)
(* declares is only ever raised.                                              *)

IoThreads(pass, cpus) == Larger(1, Lesser(cpus, pass.maxIoThreads))
BuildThreads(pass, cpus) ==
    Lesser(IF pass.threads = 0 THEN cpus ELSE pass.threads, pass.maxThreads)

WholeGb(memory) ==
    LET gb == memory \div GB
        rest == memory % GB
    IN IF 2 * rest > GB \/ (2 * rest = GB /\ gb % 2 = 1) THEN gb + 1 ELSE gb

WorkerShm(threads) == GB + (GB * threads) \div 2
SegmentShm(maintenance) == (11 * maintenance) \div 10 + GB
NeededShm(maintenance, threads) ==
    Larger(WorkerShm(threads), SegmentShm(maintenance))
ShmCeiling(memory) == memory \div 2
ShmGb(pass, memory, maintenance, threads) ==
    LET granted == Lesser(NeededShm(maintenance, threads), ShmCeiling(memory))
    IN IF pass.shmGb * GB < granted THEN WholeGb(granted) ELSE pass.shmGb

-----------------------------------------------------------------------------
(* A profile's settings replace those of the pass, one by one.                *)
MergeResourceOverrides(pass, overrides) == overrides @@ pass

ResolveResources(pass, engine, n, ram, clients) ==
    LET memory == ServerMemory(pass, ram)
        server == ServerCpus(pass, n, clients)
        cpus == Lesser(n, ServerShare(pass, n, clients))
        buffer == Share(BufferFraction(pass, engine), memory)
        maintenance == Share(MaintenanceFraction(pass, engine), memory)
        threads == BuildThreads(pass, cpus)
    IN [serverCpus |-> server, clientCpus |-> ClientCpus(pass, n, clients),
        memory |-> memory, buffer |-> buffer,
        graph |-> Share(GraphFraction(pass, engine), memory),
        maintenance |-> maintenance,
        heap |-> MongotHeap(pass, engine, memory),
        maxmemory |-> Maxmemory(pass, engine, memory),
        wiredtiger |-> IF engine = "mongodb" THEN buffer ELSE 0,
        ioThreads |-> IoThreads(pass, cpus), threads |-> threads,
        shmGb |-> ShmGb(pass, memory, maintenance, threads),
        signature |-> <<pass.name, pass.limitGb, pass.hostFraction, pass.buffer,
                        pass.graph, pass.maintenance, pass.serverCpus,
                        IF pass.auto THEN WantedClient(pass, clients)
                        ELSE pass.clientCpus, pass.threads, pass.maxThreads>>]

Allocated(r) == r.buffer + r.graph + r.maintenance + r.heap
OverAllocated(r) == 10 * Allocated(r) > 9 * r.memory
CorpusTooLarge(r, engine, corpus) ==
    engine = "valkey" /\ corpus > 0 /\ r.maxmemory < corpus

(* The figures a flag of the engine carries (config/engines/*.yml); the flag  *)
(* of a graph cache of nothing is left out.                                   *)
Templates(engine, name) ==
    CASE engine \in {"mariadb", "mariadb123", "alisql"} -> {"buffer", "graph"}
      [] engine = "pgvector" -> {"buffer", "maintenance"}
                                \cup IF name = "tuned" THEN {"threads"} ELSE {}
      [] engine = "myvector" -> {"buffer"}
                                \cup IF name = "tuned" THEN {"threads"} ELSE {}
      [] engine \in {"percona", "villagesql"} -> {"buffer"}
      [] engine = "valkey" -> {"maxmemory", "ioThreads"}
      [] engine = "mongodb" -> {"wiredtiger"}
AppliedFigures(engine, r, name) ==
    Templates(engine, name) \ (IF r.graph = 0 THEN {"graph"} ELSE {})

(* The heap reaches mongot in whole GB, the cache mongod as a number of GB    *)
(* that is a quarter of one at least.                                         *)
MongotHeapGb(r) == Larger(1, r.heap \div GB)
WiredtigerCache(r) == Larger(GB \div 4, r.wiredtiger)

-----------------------------------------------------------------------------
(* The engines of a run: those it is asked for, or those the profile names,   *)
(* or every one that is not opt-in, each once. A profile that names engines   *)
(* has a grid made for them, so that a run of another one is refused, and so  *)
(* is a profile whose list is there and empty.                                *)

ProfileEngines(profile) == IF profile.declares THEN profile.engines ELSE << >>
ProfileEnginesProblem(profile) == profile.declares /\ profile.engines = << >>
Dedupe(names) ==
    FoldLeft(LAMBDA kept, e : IF Contains(kept, e) THEN kept ELSE Append(kept, e),
             << >>, names)
EnginesOutsideProfile(profile, engines) ==
    IF ProfileEngines(profile) = << >> THEN {}
    ELSE {engines[i] : i \in DOMAIN engines}
         \ {profile.engines[i] : i \in DOMAIN profile.engines}

EnginesOfRun(profile, asked, default) ==
    Dedupe(IF asked # << >> THEN asked
           ELSE IF ProfileEngines(profile) # << >> THEN ProfileEngines(profile)
           ELSE default)
RunRefused(profile, asked, default, known) ==
    LET engines == EnginesOfRun(profile, asked, default)
    IN \/ ProfileEnginesProblem(profile)
       \/ {engines[i] : i \in DOMAIN engines} \ known # {}
       \/ EnginesOutsideProfile(profile, engines) # {}
=============================================================================
