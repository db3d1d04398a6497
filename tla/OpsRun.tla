------------------------------- MODULE OpsRun -------------------------------
(* The server and the client container of each ops unit: OpsRun's setup,      *)
(* measurement and teardown (orchestrator/ops_pass.py) over the docker CLI    *)
(* (orchestrator/docker_ctl.py), inside the loops of cmd_run and _run_unit    *)
(* (orchestrator/cli.py), over several invocations on one run directory.      *)
(*                                                                            *)
(* A setup step may fail. Ctrl-C may arrive at any step; the process may be   *)
(* killed, as the stop of the web interface does (SIGTERM, which nothing      *)
(* handles); and a docker call of the teardown may fail or take longer than   *)
(* its timeout. What docker holds outlives the process.                       *)
EXTENDS Integers, Sequences

CONSTANTS
    Units,      \* the ops units in the order of the loops: the name their
                \* containers get, and the phase they belong to
    MaxRuns,    \* bound: invocations
    MaxFaults,  \* bound: interrupts, kills and failed docker calls
    Kills       \* TRUE: the process may be killed

ASSUME OpsAssumption == /\ Units \in Seq([name : STRING, phase : Nat])
                        /\ MaxRuns \in Nat \ {0} /\ MaxFaults \in Nat
                        /\ Kills \in BOOLEAN

Index == DOMAIN Units
Names == {Units[i].name : i \in Index}

VARIABLES
    pc,        \* where the invocation is
    unit,      \* the unit it is at
    attempt,   \* how many attempts at a unit there have been, this one included
    exc,       \* the exception on its way up: none, error or interrupt
    rc0,       \* the harness of this unit exited with 0
    done,      \* sub-keys in checkpoints.json, with the attempt that set them
    out,       \* the attempts whose records are in each unit's output file
    networks,  \* docker's networks and volumes, and its containers
    volumes,
    server,    \* NoServer, or its state and the attempt it belongs to
    client,    \* NoClient, or the unit and attempt, and its output file:
               \* unopened, open, or open but removed from the directory
    data,      \* the directory under state/ops: none, empty or used
    inherited, \* the server of this unit was started on a used directory
    left,      \* names whose last teardown did not do all it does
    late,      \* history: attempts whose client opened its output file when
               \* no harness was waiting for it any more
    runs, faults

docker == <<networks, volumes, server, client, data>>
unitState0 == <<unit, attempt, rc0, done, out>>
unitState == <<unitState0, exc>>
bounds == <<late, runs, faults>>
vars == <<pc, unitState, docker, inherited, left, bounds>>

NoServer == [up |-> FALSE, of |-> 0]
NoClient == [unit |-> 0, of |-> 0, file |-> "unopened"]
Name == Units[unit].name

Setup == {"network", "volume", "image", "clear", "start", "healthy"}
Harness == {"prepare", "rmclient", "client", "measuring", "archive"}
Teardown == {"stop", "rm", "rmcli", "rmnet", "rmvol", "rmdir"}

ServerStates == [up : BOOLEAN, of : 0 .. attempt]
ClientStates == [unit : 0 .. Len(Units), of : 0 .. attempt,
                 file : {"unopened", "open", "removed"}]

TypeOK ==
    /\ pc \in Setup \cup Harness \cup Teardown \cup {"idle", "capture",
                                                     "leave", "stopped"}
    /\ unit \in 1 .. Len(Units) + 1
    /\ pc \notin {"idle", "stopped"} => unit \in Index
    /\ attempt \in 0 .. MaxRuns * Len(Units)
    /\ exc \in {"none", "error", "interrupt"} /\ rc0 \in BOOLEAN
    /\ done \in [Index -> Nat] /\ out \in [Index -> SUBSET (1 .. attempt)]
    /\ networks \subseteq Names /\ volumes \subseteq Names
    /\ server \in [Names -> ServerStates]
    /\ client \in [Names -> ClientStates]
    /\ data \in [Names -> {"none", "empty", "used"}]
    /\ inherited \in BOOLEAN /\ left \subseteq Names /\ late \subseteq Nat
    /\ runs \in 1 .. MaxRuns /\ faults \in 0 .. MaxFaults

Init ==
    /\ pc = "idle" /\ unit = 1 /\ attempt = 0 /\ exc = "none" /\ rc0 = FALSE
    /\ done = [i \in Index |-> 0] /\ out = [i \in Index |-> {}]
    /\ networks = {} /\ volumes = {}
    /\ server = [n \in Names |-> NoServer]
    /\ client = [n \in Names |-> NoClient]
    /\ data = [n \in Names |-> "none"]
    /\ inherited = FALSE /\ left = {} /\ late = {} /\ runs = 1 /\ faults = 0

-----------------------------------------------------------------------------
(* A plausible bug: __enter__ without its handler (`with` calls no __exit__). *)
Handler_Unentered ==
    CASE pc \in Setup                                -> "leave"
      [] pc \in {"rmclient", "client", "measuring"}  -> "archive"
      [] pc \in {"capture", "archive", "prepare"}    -> "stop"
      [] pc \in Teardown                             -> "leave"

(* Where an exception goes. Setup catches it, takes the logs and tears down;  *)
(* the finally of run_harness takes the logs; __exit__ tears down after       *)
(* whatever else; from the teardown it leaves the unit.                       *)
Handler ==
    CASE pc \in Setup                                -> "capture"
      [] pc \in {"rmclient", "client", "measuring"}  -> "archive"
      [] pc \in {"capture", "archive", "prepare"}    -> "stop"
      [] pc \in Teardown                             -> "leave"

Raise(e) ==
    /\ exc' = e
    /\ pc' = Handler
    /\ left' = IF pc \in Teardown THEN left \cup {Name} ELSE left

Goto(place) == pc' = place /\ UNCHANGED <<exc, left>>

(* A step that raises: a command that docker refuses where check is set, one  *)
(* that takes too long, an OSError.                                           *)
Fails == Raise("error")

-----------------------------------------------------------------------------
(* The loops. *)

Skip ==
    /\ pc = "idle" /\ unit \in Index
    /\ done[unit] # 0
    /\ unit' = unit + 1
    /\ UNCHANGED <<pc, attempt, exc, rc0, done, out, docker, inherited, left,
                   bounds>>

(* What an earlier attempt left in the output file goes before this one       *)
(* starts; a client that still has it open keeps the file it opened.          *)
BeginUnit(kept) ==
    /\ pc = "idle" /\ unit \in Index
    /\ done[unit] = 0
    /\ Goto("network")
    /\ attempt' = attempt + 1 /\ rc0' = FALSE /\ inherited' = FALSE
    /\ out' = [out EXCEPT ![unit] = kept]
    /\ client' = [n \in Names |->
                    IF client[n].unit = unit /\ client[n].file = "open"
                    THEN [client[n] EXCEPT !.file = "removed"]
                    ELSE client[n]]
    /\ UNCHANGED <<unit, done, networks, volumes, server, data, bounds>>

(* A plausible bug: the file of an earlier attempt is appended to.            *)
Begin_Appends == BeginUnit(out[unit])
Begin == BeginUnit({})

(* The first unit of the phase after this one.                                *)
NextPhase == CHOOSE i \in 1 .. Len(Units) + 1 :
    /\ i > unit
    /\ i \in Index => Units[i].phase # Units[unit].phase
    /\ \A j \in unit .. i - 1 : Units[j].phase = Units[unit].phase

(* The unit is over: checkpointed if its harness and its teardown went well.  *)
(* An exception ends the phase, an interrupt the invocation.                  *)
Leave ==
    /\ pc = "leave"
    /\ exc' = "none"
    /\ pc' = IF exc = "interrupt" THEN "stopped" ELSE "idle"
    /\ unit' = CASE exc = "none"      -> unit + 1
                 [] exc = "error"     -> NextPhase
                 [] exc = "interrupt" -> unit
    /\ done' = IF exc = "none" /\ rc0
               THEN [done EXCEPT ![unit] = attempt] ELSE done
    /\ UNCHANGED <<attempt, rc0, out, docker, inherited, left, bounds>>

(* run --resume on the same run id.                                           *)
Resume ==
    /\ pc = "stopped" \/ (pc = "idle" /\ unit \notin Index)
    /\ runs < MaxRuns
    /\ runs' = runs + 1
    /\ unit' = 1 /\ exc' = "none" /\ pc' = "idle"
    /\ UNCHANGED <<attempt, rc0, done, out, docker, inherited, left,
                   late, faults>>

-----------------------------------------------------------------------------
(* __enter__: the network, the volume on a directory of its own, the server.  *)
(* Each is reused when it is there.                                           *)

CreateNetwork ==
    /\ pc = "network"
    /\ \/ Goto("volume") /\ networks' = networks \cup {Name}
       \/ Fails /\ UNCHANGED networks
    /\ UNCHANGED <<unitState0, volumes, server, client, data, inherited, bounds>>

CreateVolume ==
    /\ pc = "volume"
    /\ data' = [data EXCEPT ![Name] = IF @ = "none" THEN "empty" ELSE @]
    /\ \/ Goto("image") /\ volumes' = volumes \cup {Name}
       \/ Fails /\ UNCHANGED volumes
    /\ UNCHANGED <<unitState0, networks, server, client, inherited, bounds>>

FindImage ==
    /\ pc = "image"
    /\ Goto("clear") \/ Fails
    /\ UNCHANGED <<unitState0, docker, inherited, bounds>>

(* start removes a container of the name it is about to use, and does not ask *)
(* whether docker did.                                                        *)
ClearServer ==
    /\ pc = "clear"
    /\ \/ Goto("start") /\ server' \in {server, [server EXCEPT ![Name] = NoServer]}
       \/ Fails /\ UNCHANGED server
    /\ UNCHANGED <<unitState0, networks, volumes, client, data, inherited,
                   bounds>>

(* docker run refuses a name that is taken. One that fails may have made the  *)
(* container, and one that took too long may have started it.                 *)
StartServer ==
    /\ pc = "start"
    /\ \/ Fails /\ UNCHANGED server
       \/ /\ server[Name] = NoServer
          /\ \E b \in BOOLEAN :
               /\ server' = [server EXCEPT ![Name] = [up |-> b, of |-> attempt]]
               /\ Fails \/ (b /\ Goto("healthy"))
    /\ inherited' = (data[Name] = "used")
    /\ data' = IF server'[Name].up THEN [data EXCEPT ![Name] = "used"] ELSE data
    /\ UNCHANGED <<unitState0, networks, volumes, client, bounds>>

(* wait_healthy raises when the server has ended or has not answered within   *)
(* five minutes, and when a probe hangs.                                      *)
WaitHealthy ==
    /\ pc = "healthy"
    /\ Fails \/ (server[Name].up /\ Goto("prepare"))
    /\ UNCHANGED <<unitState0, docker, inherited, bounds>>

(* _save_startup_log and _save_server_log swallow every error.                *)
SaveLog ==
    /\ pc \in {"capture", "archive"}
    /\ Goto("stop")
    /\ UNCHANGED <<unitState0, docker, inherited, bounds>>

-----------------------------------------------------------------------------
(* run_harness. *)

(* Before its try: the watcher's directory and the memory sampler.            *)
Prepare ==
    /\ pc = "prepare"
    /\ Goto("rmclient") \/ Fails
    /\ UNCHANGED <<unitState0, docker, inherited, bounds>>

ClearClient ==
    /\ pc = "rmclient"
    /\ \/ Goto("client") /\ client' \in {client, [client EXCEPT ![Name] = NoClient]}
       \/ Fails /\ UNCHANGED client
    /\ UNCHANGED <<unitState0, networks, volumes, server, data, inherited,
                   bounds>>

StartClient ==
    /\ pc = "client"
    /\ \/ /\ Goto("measuring")
          /\ client[Name] = NoClient
          /\ client' = [client EXCEPT ![Name] =
                          [unit |-> unit, of |-> attempt, file |-> "unopened"]]
       \/ Goto("archive") /\ UNCHANGED client
    /\ UNCHANGED <<unitState0, networks, volumes, server, data, inherited,
                   bounds>>

Mine(n) == pc = "measuring" /\ n = Name /\ client[n].of = attempt

(* The Recorder of a client opens its file for appending, once, and appends,  *)
(* whether or not whoever started it is still there.                          *)
OpenOutput(n) ==
    /\ client[n].of # 0 /\ client[n].file = "unopened"
    /\ client' = [client EXCEPT ![n].file = "open"]
    /\ late' = IF Mine(n) THEN late ELSE late \cup {client[n].of}
    /\ UNCHANGED <<pc, unitState, networks, volumes, server, data, inherited,
                   left, runs, faults>>

WriteRecord(n) ==
    /\ client[n].file = "open"
    /\ out' = [out EXCEPT ![client[n].unit] = @ \cup {client[n].of}]
    /\ UNCHANGED <<pc, unit, attempt, exc, rc0, done, docker, inherited, left,
                   bounds>>

(* A client ends, well only if its server is there and its records are; the   *)
(* container goes with it (--rm), and run_foreground returns.                 *)
ClientExits(n) ==
    /\ client[n].of # 0
    /\ client' = [client EXCEPT ![n] = NoClient]
    /\ IF Mine(n)
       THEN /\ Goto("archive")
            /\ rc0' \in {FALSE, /\ server[n].up
                                /\ client[n].of \in out[client[n].unit]}
       ELSE UNCHANGED <<pc, exc, left, rc0>>
    /\ UNCHANGED <<unit, attempt, done, out, networks, volumes, server, data,
                   inherited, bounds>>

ServerDies(n) ==
    /\ server[n].up
    /\ server' = [server EXCEPT ![n].up = FALSE]
    /\ UNCHANGED <<pc, unitState, networks, volumes, client, data, inherited,
                   left, bounds>>

-----------------------------------------------------------------------------
(* teardown. Each call is made with check unset: docker's refusal is ignored. *)
(* A call that takes longer than its timeout raises and ends the teardown     *)
(* there. Either way the call may have done nothing.                          *)

Step(place, next, effect) ==
    /\ pc = place
    /\ \/ /\ pc' = next /\ UNCHANGED <<exc, faults>>
          /\ left' = IF place = "stop" THEN left \ {Name} ELSE left
          /\ effect
       \/ /\ faults < MaxFaults /\ faults' = faults + 1
          /\ \/ Raise("error")
             \/ pc' = next /\ left' = left \cup {Name} /\ UNCHANGED exc
          /\ UNCHANGED docker
    /\ UNCHANGED <<unitState0, inherited, late, runs>>

StopServer ==
    Step("stop", "rm",
         /\ server' = [server EXCEPT ![Name].up = FALSE]
         /\ UNCHANGED <<networks, volumes, client, data>>)

RemoveServer ==
    Step("rm", "rmcli",
         /\ server' = [server EXCEPT ![Name] = NoServer]
         /\ UNCHANGED <<networks, volumes, client, data>>)

RemoveClient ==
    Step("rmcli", "rmnet",
         /\ client' = [client EXCEPT ![Name] = NoClient]
         /\ UNCHANGED <<networks, volumes, server, data>>)

(* Docker keeps a network or a volume that a container uses.                  *)
RemoveNetwork ==
    Step("rmnet", "rmvol",
         /\ networks' = IF server[Name].up \/ client[Name].of # 0
                        THEN networks ELSE networks \ {Name}
         /\ UNCHANGED <<volumes, server, client, data>>)

RemoveVolume ==
    Step("rmvol", "rmdir",
         /\ volumes' = IF server[Name].of # 0
                       THEN volumes ELSE volumes \ {Name}
         /\ UNCHANGED <<networks, server, client, data>>)

(* A plausible bug: removing a volume leaves the directory behind it.         *)
RemoveTree_WithVolume ==
    Step("rmdir", "leave", UNCHANGED docker)

RemoveTree ==
    Step("rmdir", "leave",
         /\ data' = [data EXCEPT ![Name] = "none"]
         /\ UNCHANGED <<networks, volumes, server, client>>)

-----------------------------------------------------------------------------
(* Ctrl-C raises KeyboardInterrupt where the orchestrator is; no handler of   *)
(* Exception stops it.                                                        *)
Interrupt ==
    /\ pc \notin {"idle", "leave", "stopped"}
    /\ faults < MaxFaults /\ faults' = faults + 1
    /\ Raise("interrupt")
    /\ UNCHANGED <<unitState0, docker, inherited, late, runs>>

(* SIGTERM from the web interface's stop, SIGKILL: no finally runs.           *)
Kill ==
    /\ Kills
    /\ pc # "stopped"
    /\ faults < MaxFaults /\ faults' = faults + 1
    /\ pc' = "stopped"
    /\ left' = IF pc \in {"idle", "leave"} THEN left ELSE left \cup {Name}
    /\ UNCHANGED <<unitState, docker, inherited, late, runs>>

Next ==
    \/ Skip \/ Begin \/ Leave \/ Resume
    \/ CreateNetwork \/ CreateVolume \/ FindImage \/ ClearServer \/ StartServer
    \/ WaitHealthy \/ SaveLog \/ Prepare \/ ClearClient \/ StartClient
    \/ StopServer \/ RemoveServer \/ RemoveClient \/ RemoveNetwork
    \/ RemoveVolume \/ RemoveTree
    \/ Interrupt \/ Kill
    \/ \E n \in Names : OpenOutput(n) \/ WriteRecord(n) \/ ClientExits(n)
                         \/ ServerDies(n)

Spec == Init /\ [][Next]_vars

-----------------------------------------------------------------------------
(* However far the setup came and whatever ended the unit, between units      *)
(* docker holds nothing of a unit whose teardown was not itself cut short.    *)
Clean(n) == /\ n \notin networks \cup volumes
            /\ server[n] = NoServer /\ client[n] = NoClient
            /\ data[n] = "none"

NothingLeft ==
    pc \in {"idle", "stopped"} => \A n \in Names \ left : Clean(n)

(* A server is started on a directory that another has used (they share names *)
(* across datasets and passes) only if a teardown of that name was cut short. *)
FreshData == inherited /\ pc \in {"healthy"} \cup Harness => Name \in left

(* The server a unit measures is the one its own attempt started, and no      *)
(* other client of its name runs, whatever was left behind.                   *)
OwnPair ==
    pc = "measuring" => /\ server[Name].of = attempt
                        /\ client[Name].of \in {0, attempt}

(* What a unit measures is its own: its server, and the data it loaded.       *)
OwnFreshPair == FreshData /\ OwnPair

(* The records of a checkpointed unit are those of the attempt that set the   *)
(* checkpoint: not of one before it, nor of a client that outlived it, unless *)
(* that had yet to open the file when its harness was left (cli.py:1541-1548  *)
(* removes the file first, and can only remove what has been opened).         *)
RecordsAreOneAttempt ==
    \A i \in Index : done[i] # 0 => /\ done[i] \in out[i]
                                    /\ out[i] \ {done[i]} \subseteq late

=============================================================================
