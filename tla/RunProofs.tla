----------------------------- MODULE RunProofs ------------------------------
(* The safety properties of the ops units' containers, for any list of units, *)
(* any number of invocations, interrupts, kills and failed docker calls, and  *)
(* what a run directory says of the budgets measured under, for any sequence  *)
(* of invocations on it.                                                      *)
EXTENDS OpsRun, RunDirectory, TLAPS, WellFoundedInduction

(* An attempt is under way.                                                   *)
Under == pc \notin {"idle", "stopped"}

(* No unit has more attempts than invocations.                                *)
AttemptsBound ==
    /\ pc = "idle" => attempt <= (runs - 1) * Len(Units) + unit - 1
    /\ pc = "stopped" => attempt <= (runs - 1) * Len(Units) + Len(Units)
    /\ Under => attempt <= (runs - 1) * Len(Units) + unit

(* What a client that has an output file or a place in a unit can be.         *)
ClientsInv == \A n \in Names : /\ client[n].of # 0 => client[n].unit \in Index
                               /\ client[n].file # "unopened" => client[n].of # 0

(* How far the teardown of the unit at hand has come, if nothing it called    *)
(* has failed.                                                                *)
TornDown(n) ==
    /\ pc \in {"rm"} \cup (Teardown \ {"stop"}) \cup {"leave"} => ~ server[n].up
    /\ pc \in {"rmcli", "rmnet", "rmvol", "rmdir", "leave"} => server[n] = NoServer
    /\ pc \in {"rmnet", "rmvol", "rmdir", "leave"} => client[n] = NoClient
    /\ pc \in {"rmvol", "rmdir", "leave"} => n \notin networks
    /\ pc \in {"rmdir", "leave"} => n \notin volumes
    /\ pc = "leave" => data[n] = "none"

LeftInv == \A n \in Names \ left :
              IF Under /\ n = Name THEN TornDown(n) ELSE Clean(n)

(* A setup on a name whose last teardown was whole finds no used directory.   *)
FreshInv ==
    /\ pc \in {"network", "volume", "image", "clear", "start"} /\ Name \notin left
       => data[Name] # "used"
    /\ FreshData

PairInv ==
    /\ pc \in {"healthy"} \cup (Harness \ {"archive"}) => server[Name].of = attempt
    /\ pc = "measuring" => client[Name].of = attempt

(* There is one attempt at each unit whose records are in its file or can     *)
(* still get there, beside those that opened it late: the last one, which is  *)
(* the one under way or the one that set the checkpoint, where there is such. *)
LastAttempt(i, a) ==
    /\ out[i] \subseteq {a} \cup late
    /\ \A n \in Names : client[n].unit = i /\ client[n].file = "open"
                        => client[n].of \in {a} \cup late
    /\ done[i] # 0 => done[i] = a /\ a \in out[i]
    /\ Under /\ i = unit => a = attempt

RecordsInv ==
    /\ \A i \in Index : \E a \in Nat : LastAttempt(i, a)
    /\ \A n \in Names : Under /\ client[n].of = attempt => client[n].unit = unit
    /\ Under => attempt # 0 /\ done[unit] = 0
    /\ Under /\ rc0 => attempt \in out[unit]

-----------------------------------------------------------------------------
(* Among natural numbers that satisfy something there is a least.             *)
LEMMA LeastNatural ==
    ASSUME NEW T, T \subseteq Nat, T # {}
    PROVE  \E x \in T : \A y \in T : x <= y
PROOF
<1> DEFINE R == {ss \in Nat \X Nat : ss[1] < ss[2]}
<1>1. IsWellFoundedOn(R, Nat)
  BY NatLessThanWellFounded DEF OpToRel
<1>2. \A x, y \in Nat : y < x => <<y, x>> \in R
  OBVIOUS
<1> HIDE DEF R
<1>3. PICK x \in T : \A y \in T : ~ (<<y, x>> \in R)
  BY <1>1, WFMin
<1>4. ASSUME NEW y \in T PROVE x <= y
  <2>1. x \in Nat /\ y \in Nat
    OBVIOUS
  <2>2. ~ (y < x)
    BY <1>2, <1>3, <2>1
  <2>3. QED
    BY <2>1, <2>2
<1>5. QED
  BY <1>4

LEMMA UnitsLength ==
    Len(Units) \in Nat /\ Index = 1 .. Len(Units)
PROOF
  BY OpsAssumption DEF Index

(* The phase after this one's, or the end of the list, always comes.          *)
LEMMA NextPhaseComes ==
    ASSUME unit \in Index
    PROVE  NextPhase \in 1 .. Len(Units) + 1 /\ NextPhase > unit
PROOF
<1> DEFINE Later == {i \in 1 .. Len(Units) + 1 :
                        i > unit /\ (i \in Index => Units[i].phase # Units[unit].phase)}
           Comes(i) == /\ i > unit
                       /\ i \in Index => Units[i].phase # Units[unit].phase
                       /\ \A j \in unit .. i - 1 : Units[j].phase = Units[unit].phase
<1>1. Len(Units) + 1 \in Later /\ Later \subseteq Nat
  BY UnitsLength
<1>2. PICK i \in Later : \A j \in Later : i <= j
  <2> HIDE DEF Later
  <2>1. QED
    BY <1>1, LeastNatural
<1>3. ASSUME NEW j \in unit .. i - 1, j # unit
      PROVE  Units[j].phase = Units[unit].phase
  <2>1. /\ unit \in Nat /\ i \in Nat /\ j \in Nat
        /\ j > unit /\ j < i /\ i <= Len(Units) + 1
    BY <1>3, UnitsLength
  <2>2. j \notin Later
    BY <1>2, <2>1
  <2>3. j \in Index
    BY <2>1, UnitsLength
  <2>4. QED
    BY <2>1, <2>2, <2>3, UnitsLength
<1>4. i \in 1 .. Len(Units) + 1 /\ Comes(i)
  BY <1>2, <1>3
<1>5. NextPhase \in 1 .. Len(Units) + 1 /\ Comes(NextPhase)
  BY <1>4 DEF NextPhase
<1>6. QED
  BY <1>5

-----------------------------------------------------------------------------

(* What an absent server or client is to the types.                           *)
LEMMA NoneAreStates ==
    ASSUME TypeOK
    PROVE  NoServer \in ServerStates /\ NoClient \in ClientStates
PROOF
  BY UnitsLength DEF TypeOK, NoServer, NoClient, ServerStates, ClientStates

LEMMA NameIsOne ==
    ASSUME unit \in Index
    PROVE  Name \in Names
PROOF
  BY DEF Name, Names

LEMMA ServerFields ==
    ASSUME NEW s \in ServerStates
    PROVE  s.up \in BOOLEAN /\ s.of \in 0 .. attempt
PROOF
  BY DEF ServerStates

(* A server that is stopped, or dies, stays the one it was.                   *)
LEMMA ServerStops ==
    ASSUME TypeOK, NEW n \in Names, server' = [server EXCEPT ![n].up = FALSE]
    PROVE  /\ server' \in [Names -> ServerStates]
           /\ \A m \in Names \ {n} : server'[m] = server[m]
           /\ server'[n].up = FALSE /\ server'[n].of = server[n].of
           /\ server[n] = NoServer => server'[n] = NoServer
PROOF
<1> DEFINE stopped == [server[n] EXCEPT !.up = FALSE]
<1>1. server \in [Names -> ServerStates]
  BY DEF TypeOK
<1>2. stopped \in ServerStates /\ stopped.up = FALSE /\ stopped.of = server[n].of
  BY <1>1 DEF ServerStates
<1>3. server[n] = NoServer => stopped = NoServer
  <2>1. NoServer \in ServerStates /\ NoServer.up = FALSE
    BY NoneAreStates DEF NoServer
  <2>2. ASSUME NEW s \in ServerStates, NEW r \in ServerStates, s.up = r.up, s.of = r.of
        PROVE  s = r
    BY <2>2 DEF ServerStates
  <2> HIDE DEF stopped
  <2>3. QED
    BY <1>2, <2>1, <2>2
<1>4. server' = [server EXCEPT ![n] = stopped]
  OBVIOUS
<1> HIDE DEF stopped
<1>5. QED
  BY <1>1, <1>2, <1>3, <1>4

(* A client whose file changes stays the one it was.                          *)
LEMMA FileBecomes ==
    ASSUME TypeOK, NEW n \in Names, NEW f \in {"unopened", "open", "removed"}
    PROVE  /\ [client[n] EXCEPT !.file = f] \in ClientStates
           /\ [client[n] EXCEPT !.file = f].of = client[n].of
           /\ [client[n] EXCEPT !.file = f].unit = client[n].unit
           /\ [client[n] EXCEPT !.file = f].file = f
PROOF
  BY DEF TypeOK, ClientStates

(* A step of the unit at hand, and what it leaves as it is.                  *)
SetupStep == CreateNetwork \/ CreateVolume \/ FindImage \/ ClearServer \/ StartServer
HarnessStep == WaitHealthy \/ SaveLog \/ Prepare \/ ClearClient \/ StartClient
TeardownStep == StopServer \/ RemoveServer \/ RemoveClient \/ RemoveNetwork \/ RemoveVolume \/ RemoveTree
UnitStep == SetupStep \/ HarnessStep \/ TeardownStep \/ Interrupt

Same(n) == /\ n \in networks' <=> n \in networks
           /\ n \in volumes' <=> n \in volumes
           /\ server'[n] = server[n] /\ client'[n] = client[n] /\ data'[n] = data[n]

DockerTypes == /\ networks \subseteq Names /\ volumes \subseteq Names
               /\ server \in [Names -> ServerStates]
               /\ client \in [Names -> ClientStates]
               /\ data \in [Names -> {"none", "empty", "used"}]

OnlyName == /\ \A n \in Names \ {Name} : Same(n)
            /\ DockerTypes'

(* A step that calls nothing of docker that succeeds.                         *)
LEMMA QuietSteps ==
    ASSUME TypeOK, UNCHANGED docker, UNCHANGED attempt
    PROVE  OnlyName
PROOF
  BY DEF TypeOK, OnlyName, Same, DockerTypes, docker, ServerStates, ClientStates

(* What no step of a unit changes.                                            *)
LEMMA UnitStepKeeps ==
    ASSUME TypeOK, UnitStep
    PROVE  /\ UNCHANGED <<unit, attempt, rc0, done, out, late, runs>>
           /\ unit \in Index /\ Name \in Names /\ Name' = Name
           /\ UNCHANGED <<ServerStates, ClientStates>>
PROOF
<1>1. UNCHANGED <<unit, attempt, rc0, done, out, late, runs>>
  <2>1. CASE SetupStep
    BY <2>1
       DEF SetupStep, unitState0, bounds, CreateNetwork, CreateVolume,
           FindImage, ClearServer, StartServer
  <2>2. CASE HarnessStep
    BY <2>2
       DEF HarnessStep, unitState0, bounds, WaitHealthy, SaveLog, Prepare,
           ClearClient, StartClient
  <2>3. CASE TeardownStep
    BY <2>3
       DEF TeardownStep, unitState0, StopServer, RemoveServer, RemoveClient,
           RemoveNetwork, RemoveVolume, RemoveTree, Step
  <2>4. CASE Interrupt
    BY <2>4 DEF unitState0, Interrupt
  <2>5. QED
    BY <2>1, <2>2, <2>3, <2>4 DEF UnitStep
<1>2. pc \notin {"idle", "stopped"}
  <2>1. CASE SetupStep
    BY <2>1
       DEF SetupStep, CreateNetwork, CreateVolume, FindImage, ClearServer,
           StartServer
  <2>2. CASE HarnessStep
    BY <2>2
       DEF HarnessStep, WaitHealthy, SaveLog, Prepare, ClearClient, StartClient
  <2>3. CASE TeardownStep
    BY <2>3
       DEF TeardownStep, StopServer, RemoveServer, RemoveClient, RemoveNetwork,
           RemoveVolume, RemoveTree, Step
  <2>4. CASE Interrupt
    BY <2>4 DEF Interrupt
  <2>5. QED
    BY <2>1, <2>2, <2>3, <2>4 DEF UnitStep
<1>3. unit \in Index
  BY <1>2 DEF TypeOK
<1>4. QED
  BY <1>1, <1>3, NameIsOne DEF Name, ServerStates, ClientStates

(* A step of a unit touches the objects of its own name only.                 *)
LEMMA SetupOnlyName ==
    ASSUME TypeOK, SetupStep
    PROVE  OnlyName
PROOF
<1>0. /\ unit \in Index /\ Name \in Names /\ Name' = Name
      /\ UNCHANGED <<attempt, ServerStates, ClientStates>>
  BY UnitStepKeeps DEF UnitStep
<1>1. CASE CreateNetwork
  BY <1>0, <1>1 DEF CreateNetwork, OnlyName, Same, DockerTypes, TypeOK
<1>2. CASE CreateVolume
  BY <1>0, <1>2 DEF CreateVolume, OnlyName, Same, DockerTypes, TypeOK
<1>3. CASE FindImage
  BY <1>0, <1>3, QuietSteps DEF FindImage
<1>4. CASE ClearServer
  <2>1. server' \in {server, [server EXCEPT ![Name] = NoServer]}
    BY <1>4 DEF ClearServer
  <2>2. QED
    BY <1>0, <1>4, <2>1, NoneAreStates
       DEF ClearServer, OnlyName, Same, DockerTypes, TypeOK
<1>5. CASE StartServer
  <2>1. server' = server \/ \E b \in BOOLEAN : server' = [server EXCEPT ![Name] = [up |-> b, of |-> attempt]]
    BY <1>5 DEF StartServer
  <2>2. \A b \in BOOLEAN : [up |-> b, of |-> attempt] \in ServerStates
    BY UnitsLength DEF TypeOK, ServerStates
  <2>3. /\ server' \in [Names -> ServerStates]
        /\ \A n \in Names \ {Name} : server'[n] = server[n]
    BY <1>0, <2>1, <2>2 DEF TypeOK
  <2>4. data' = data \/ data' = [data EXCEPT ![Name] = "used"]
    BY <1>5 DEF StartServer
  <2>5. QED
    BY <1>0, <1>5, <2>3, <2>4
       DEF StartServer, OnlyName, Same, DockerTypes, TypeOK
<1>6. QED
  BY <1>1, <1>2, <1>3, <1>4, <1>5 DEF SetupStep

LEMMA HarnessOnlyName ==
    ASSUME TypeOK, HarnessStep
    PROVE  OnlyName
PROOF
<1>0. /\ unit \in Index /\ Name \in Names /\ Name' = Name
      /\ UNCHANGED <<attempt, ServerStates, ClientStates>>
  BY UnitStepKeeps DEF UnitStep
<1>1. CASE WaitHealthy
  BY <1>0, <1>1, QuietSteps DEF WaitHealthy
<1>2. CASE SaveLog
  BY <1>0, <1>2, QuietSteps DEF SaveLog
<1>3. CASE Prepare
  BY <1>0, <1>3, QuietSteps DEF Prepare
<1>4. CASE ClearClient
  <2>1. client' \in {client, [client EXCEPT ![Name] = NoClient]}
    BY <1>4 DEF ClearClient
  <2>2. QED
    BY <1>0, <1>4, <2>1, NoneAreStates
       DEF ClearClient, OnlyName, Same, DockerTypes, TypeOK
<1>5. CASE StartClient
  <2> DEFINE new == [unit |-> unit, of |-> attempt, file |-> "unopened"]
  <2>1. client' \in {client, [client EXCEPT ![Name] = new]}
    BY <1>5 DEF StartClient
  <2>2. new \in ClientStates
    BY <1>0, UnitsLength DEF TypeOK, ClientStates
  <2> HIDE DEF new
  <2>3. QED
    BY <1>0, <1>5, <2>1, <2>2
       DEF StartClient, OnlyName, Same, DockerTypes, TypeOK
<1>6. QED
  BY <1>1, <1>2, <1>3, <1>4, <1>5 DEF HarnessStep

LEMMA TeardownOnlyName ==
    ASSUME TypeOK, TeardownStep
    PROVE  OnlyName
PROOF
<1>0. /\ unit \in Index /\ Name \in Names /\ Name' = Name
      /\ UNCHANGED <<attempt, ServerStates, ClientStates>>
  BY UnitStepKeeps DEF UnitStep
<1>1. CASE UNCHANGED docker
  BY <1>0, <1>1, QuietSteps
<1>2. CASE ~ UNCHANGED docker
  <2>1. CASE StopServer
    <3>1. server' = [server EXCEPT ![Name].up = FALSE] /\ UNCHANGED <<networks, volumes, client, data>>
      BY <1>2, <2>1 DEF StopServer, Step
    <3>2. QED
      BY <1>0, <3>1, ServerStops DEF OnlyName, Same, DockerTypes, TypeOK
  <2>2. CASE RemoveServer
    BY <1>0, <1>2, <2>2, NoneAreStates
       DEF RemoveServer, Step, OnlyName, Same, DockerTypes, TypeOK
  <2>3. CASE RemoveClient
    BY <1>0, <1>2, <2>3, NoneAreStates
       DEF RemoveClient, Step, OnlyName, Same, DockerTypes, TypeOK
  <2>4. CASE RemoveNetwork
    BY <1>0, <1>2, <2>4
       DEF RemoveNetwork, Step, OnlyName, Same, DockerTypes, TypeOK
  <2>5. CASE RemoveVolume
    BY <1>0, <1>2, <2>5
       DEF RemoveVolume, Step, OnlyName, Same, DockerTypes, TypeOK
  <2>6. CASE RemoveTree
    BY <1>0, <1>2, <2>6
       DEF RemoveTree, Step, OnlyName, Same, DockerTypes, TypeOK
  <2>7. QED
    BY <2>1, <2>2, <2>3, <2>4, <2>5, <2>6 DEF TeardownStep
<1>3. QED
  BY <1>1, <1>2

LEMMA UnitStepOnlyName ==
    ASSUME TypeOK, UnitStep
    PROVE  OnlyName
PROOF
<1>1. Interrupt => OnlyName
  BY QuietSteps DEF Interrupt, unitState0
<1>2. QED
  BY <1>1, SetupOnlyName, HarnessOnlyName, TeardownOnlyName DEF UnitStep

(* Where an exception goes.                                                   *)
LEMMA HandlerPlaces ==
    /\ pc \in Setup => Handler = "capture"
    /\ pc \in {"rmclient", "client", "measuring"} => Handler = "archive"
    /\ pc \in {"capture", "archive", "prepare"} => Handler = "stop"
    /\ pc \in Teardown => Handler = "leave"
PROOF
<1>1. CASE pc \in Setup
  BY <1>1 DEF Handler, Setup, Teardown
<1>2. CASE pc \in {"rmclient", "client", "measuring"}
  BY <1>2 DEF Handler, Setup, Teardown
<1>3. CASE pc \in {"capture", "archive", "prepare"}
  BY <1>3 DEF Handler, Setup, Teardown
<1>4. CASE pc \in Teardown
  BY <1>4 DEF Handler, Setup, Teardown
<1>5. QED
  BY <1>1, <1>2, <1>3, <1>4

PlaceMoves ==
    /\ pc \in Setup \cup Harness \cup Teardown \cup {"capture"}
    /\ pc = "network" => pc' \in {"volume", "capture"}
    /\ pc = "volume" => pc' \in {"image", "capture"}
    /\ pc = "image" => pc' \in {"clear", "capture"}
    /\ pc = "clear" => pc' \in {"start", "capture"}
    /\ pc = "start" => pc' \in {"healthy", "capture"}
    /\ pc = "healthy" => pc' \in {"prepare", "capture"}
    /\ pc = "prepare" => pc' \in {"rmclient", "stop"}
    /\ pc = "rmclient" => pc' \in {"client", "archive"}
    /\ pc = "client" => pc' \in {"measuring", "archive"}
    /\ pc = "measuring" => pc' = "archive"
    /\ pc \in {"archive", "capture"} => pc' = "stop"
    /\ pc = "stop" => pc' \in {"rm", "leave"}
    /\ pc = "rm" => pc' \in {"rmcli", "leave"}
    /\ pc = "rmcli" => pc' \in {"rmnet", "leave"}
    /\ pc = "rmnet" => pc' \in {"rmvol", "leave"}
    /\ pc = "rmvol" => pc' \in {"rmdir", "leave"}
    /\ pc = "rmdir" => pc' = "leave"

LeftMoves ==
    /\ pc \notin Teardown => left' = left
    /\ pc = "stop" => left' \in {left, left \ {Name}, left \cup {Name}}
    /\ pc \in Teardown \ {"stop"} => left' \in {left, left \cup {Name}}

ExcMoves == exc' \in {exc, "error", "interrupt"}

(* How a step of a unit moves: on to the next place, or to the handler.       *)
LEMMA RaiseGoes ==
    ASSUME NEW e \in {"error", "interrupt"}, Raise(e),
           pc \in Setup \cup Harness \cup Teardown \cup {"capture"}
    PROVE  PlaceMoves /\ LeftMoves /\ ExcMoves
PROOF
<1>1. pc' = Handler /\ exc' = e /\ left' = IF pc \in Teardown THEN left \cup {Name} ELSE left
  BY DEF Raise
<1>2. CASE pc \in Setup
  BY <1>1, <1>2, HandlerPlaces
     DEF PlaceMoves, LeftMoves, ExcMoves, Setup, Teardown
<1>3. CASE pc \in Harness \cup {"capture"}
  BY <1>1, <1>3, HandlerPlaces
     DEF PlaceMoves, LeftMoves, ExcMoves, Harness, Teardown
<1>4. CASE pc \in Teardown
  BY <1>1, <1>4, HandlerPlaces DEF PlaceMoves, LeftMoves, ExcMoves, Teardown
<1>5. QED
  BY <1>2, <1>3, <1>4

LEMMA StepGoes ==
    ASSUME NEW place \in Teardown, NEW next, NEW ACTION effect, Step(place, next, effect),
           <<place, next>> \in {<<"stop", "rm">>, <<"rm", "rmcli">>, <<"rmcli", "rmnet">>,
                                <<"rmnet", "rmvol">>, <<"rmvol", "rmdir">>, <<"rmdir", "leave">>}
    PROVE  PlaceMoves /\ LeftMoves /\ ExcMoves
PROOF
<1>1. pc = place
  BY DEF Step
<1>2. CASE Raise("error")
  BY <1>1, <1>2, RaiseGoes
<1>3. CASE pc' = next /\ exc' = exc /\ left' \in {left, left \cup {Name}}
  BY <1>1, <1>3 DEF PlaceMoves, LeftMoves, ExcMoves, Teardown, Setup, Harness
<1>4. CASE pc' = next /\ exc' = exc /\ left' = IF place = "stop" THEN left \ {Name} ELSE left
  BY <1>1, <1>4 DEF PlaceMoves, LeftMoves, ExcMoves, Teardown, Setup, Harness
<1>5. QED
  BY <1>2, <1>3, <1>4 DEF Step

LEMMA UnitStepGoes ==
    ASSUME UnitStep, TypeOK
    PROVE  PlaceMoves /\ LeftMoves /\ ExcMoves
PROOF
<1>1. CASE SetupStep
  <2>1. pc \in {"network", "volume", "image", "clear", "start"}
    BY <1>1
       DEF SetupStep, CreateNetwork, CreateVolume, FindImage, ClearServer,
           StartServer
  <2>2. CASE Fails
    BY <2>1, <2>2, RaiseGoes DEF Fails, Setup
  <2>3. CASE ~ Fails
    BY <1>1, <2>3
       DEF SetupStep, CreateNetwork, CreateVolume, FindImage, ClearServer,
           StartServer, Goto, PlaceMoves, LeftMoves, ExcMoves, Setup, Teardown
  <2>4. QED
    BY <2>2, <2>3
<1>2. CASE HarnessStep
  <2>1. pc \in {"healthy", "capture"} \cup (Harness \ {"measuring"})
    BY <1>2
       DEF HarnessStep, WaitHealthy, SaveLog, Prepare, ClearClient,
           StartClient, Harness
  <2>2. CASE Fails
    BY <2>1, <2>2, RaiseGoes DEF Fails, Setup
  <2>3. CASE ~ Fails
    BY <1>2, <2>3
       DEF HarnessStep, WaitHealthy, SaveLog, Prepare, ClearClient,
           StartClient, Goto, PlaceMoves, LeftMoves, ExcMoves, Setup, Harness,
           Teardown
  <2>4. QED
    BY <2>2, <2>3
<1>3. CASE TeardownStep
  BY <1>3, StepGoes
     DEF TeardownStep, StopServer, RemoveServer, RemoveClient, RemoveNetwork,
         RemoveVolume, RemoveTree, Teardown
<1>4. CASE Interrupt
  BY <1>4, RaiseGoes DEF Interrupt, TypeOK
<1>5. QED
  BY <1>1, <1>2, <1>3, <1>4 DEF UnitStep

(* A call of the teardown has its effect, or the name is in left.             *)
LEMMA StepCases ==
    ASSUME NEW place, NEW next, NEW ACTION effect, Step(place, next, effect), place \in Teardown
    PROVE  /\ pc = place
           /\ \/ Name \in left'
              \/ pc' = next /\ effect
PROOF
  BY DEF Step, Raise

(* Each call of a teardown in which nothing fails removes what it should.     *)
LEMMA TeardownProgress ==
    ASSUME TypeOK, LeftInv, TeardownStep, Name \notin left'
    PROVE  TornDown(Name)'
PROOF
<1>0. /\ unit \in Index /\ Name \in Names /\ Name' = Name
      /\ UNCHANGED <<attempt, ServerStates, ClientStates>>
  BY UnitStepKeeps DEF UnitStep
<1>a. pc \in Teardown /\ Under
  BY DEF TeardownStep, StopServer, RemoveServer, RemoveClient, RemoveNetwork,
         RemoveVolume, RemoveTree, Step, Teardown, Under
<1>b. pc # "stop" => TornDown(Name)
  <2>1. pc # "stop" => Name \notin left
    BY <1>a, UnitStepGoes DEF UnitStep, LeftMoves
  <2>2. QED
    BY <1>0, <1>a, <2>1 DEF LeftInv
<1>1. CASE StopServer
  <2>1. pc' = "rm" /\ server' = [server EXCEPT ![Name].up = FALSE] /\ UNCHANGED <<networks, volumes, client, data>>
    BY <1>1, StepCases DEF StopServer, Teardown
  <2>2. ~ server'[Name].up
    BY <1>0, <2>1, ServerStops
  <2>3. QED
    BY <1>0, <2>1, <2>2 DEF TornDown, Teardown
<1>2. CASE RemoveServer
  <2>1. pc' = "rmcli" /\ server' = [server EXCEPT ![Name] = NoServer] /\ UNCHANGED <<networks, volumes, client, data>>
    BY <1>2, StepCases DEF RemoveServer, Teardown
  <2>2. server'[Name] = NoServer /\ ~ server'[Name].up
    BY <1>0, <2>1 DEF TypeOK, NoServer
  <2>3. QED
    BY <1>0, <2>1, <2>2 DEF TornDown, Teardown
<1>3. CASE RemoveClient
  <2>1. /\ pc = "rmcli" /\ pc' = "rmnet" /\ client' = [client EXCEPT ![Name] = NoClient]
        /\ UNCHANGED <<networks, volumes, server, data>>
    BY <1>3, StepCases DEF RemoveClient, Teardown
  <2>2. client'[Name] = NoClient
    BY <1>0, <2>1 DEF TypeOK
  <2>3. QED
    BY <1>0, <1>b, <2>1, <2>2 DEF TornDown, Teardown
<1>4. CASE RemoveNetwork
  <2>1. /\ pc = "rmnet" /\ pc' = "rmvol"
        /\ networks' = IF server[Name].up \/ client[Name].of # 0 THEN networks ELSE networks \ {Name}
        /\ UNCHANGED <<volumes, server, client, data>>
    BY <1>4, StepCases DEF RemoveNetwork, Teardown
  <2>2. ~ server[Name].up /\ client[Name] = NoClient
    BY <1>b, <2>1 DEF TornDown, Teardown
  <2>3. Name \notin networks'
    BY <2>1, <2>2 DEF NoClient
  <2>4. QED
    BY <1>0, <1>b, <2>1, <2>3 DEF TornDown, Teardown
<1>5. CASE RemoveVolume
  <2>1. /\ pc = "rmvol" /\ pc' = "rmdir"
        /\ volumes' = IF server[Name].of # 0 THEN volumes ELSE volumes \ {Name}
        /\ UNCHANGED <<networks, server, client, data>>
    BY <1>5, StepCases DEF RemoveVolume, Teardown
  <2>2. server[Name] = NoServer
    BY <1>b, <2>1 DEF TornDown, Teardown
  <2>3. Name \notin volumes'
    BY <2>1, <2>2 DEF NoServer
  <2>4. QED
    BY <1>0, <1>b, <2>1, <2>3 DEF TornDown, Teardown
<1>6. CASE RemoveTree
  <2>1. /\ pc = "rmdir" /\ pc' = "leave"
        /\ data' = [data EXCEPT ![Name] = "none"]
        /\ UNCHANGED <<networks, volumes, server, client>>
    BY <1>6, StepCases DEF RemoveTree, Teardown
  <2>2. data'[Name] = "none"
    BY <1>0, <2>1 DEF TypeOK
  <2>3. QED
    BY <1>0, <1>b, <2>1, <2>2 DEF TornDown, Teardown
<1>7. QED
  BY <1>1, <1>2, <1>3, <1>4, <1>5, <1>6 DEF TeardownStep

-----------------------------------------------------------------------------
(* NothingLeft: LeftInv is inductive.                                         *)
LEMMA LeftUnitStep ==
    ASSUME TypeOK, LeftInv, UnitStep
    PROVE  LeftInv'
PROOF
<1>0. /\ unit \in Index /\ Name \in Names /\ Name' = Name
  BY UnitStepKeeps
<1>1. PlaceMoves /\ LeftMoves
  BY UnitStepGoes
<1>2. OnlyName
  BY UnitStepOnlyName
<1>3. Under /\ Under'
  BY <1>1 DEF PlaceMoves, Under, Setup, Harness, Teardown
<1>4. ASSUME NEW n \in Names \ {Name}, n \notin left'
      PROVE  Clean(n)'
  <2>1. n \notin left
    BY <1>1, <1>4 DEF LeftMoves
  <2>2. Clean(n)
    BY <2>1, <1>3 DEF LeftInv
  <2>3. QED
    BY <1>2, <2>2 DEF OnlyName, Same, Clean
<1>5. ASSUME Name \notin left'
      PROVE  TornDown(Name)'
  <2>1. CASE pc \notin Teardown
    BY <1>1, <2>1 DEF PlaceMoves, TornDown, Teardown, Setup, Harness
  <2>2. CASE TeardownStep
    BY <1>5, <2>2, TeardownProgress
  <2>3. CASE Interrupt /\ pc \in Teardown
    BY <1>5, <2>3 DEF Interrupt, Raise
  <2>4. SetupStep \/ HarnessStep => pc \notin Teardown
    BY DEF SetupStep, HarnessStep, CreateNetwork, CreateVolume, FindImage,
           ClearServer, StartServer, WaitHealthy, SaveLog, Prepare,
           ClearClient, StartClient, Teardown
  <2>5. QED
    BY <2>1, <2>2, <2>3, <2>4 DEF UnitStep
<1>6. QED
  BY <1>0, <1>3, <1>4, <1>5 DEF LeftInv

AtContainer(n) == OpenOutput(n) \/ WriteRecord(n) \/ ClientExits(n) \/ ServerDies(n)

(* What a container does by itself changes only itself, the output file and   *)
(* whether its harness is done.                                               *)
LEMMA ContainerKeeps ==
    ASSUME TypeOK, NEW n \in Names, AtContainer(n)
    PROVE  /\ UNCHANGED <<unit, attempt, done, networks, volumes, data, inherited, left, exc, runs, faults>>
           /\ pc' = pc \/ (ClientExits(n) /\ Mine(n) /\ pc' = "archive")
           /\ UNCHANGED <<Names, ServerStates, ClientStates>>
PROOF
<1>1. CASE OpenOutput(n)
  BY <1>1
     DEF OpenOutput, unitState, unitState0, bounds, ServerStates, ClientStates,
         Names
<1>2. CASE WriteRecord(n)
  BY <1>2 DEF WriteRecord, docker, bounds, ServerStates, ClientStates, Names
<1>3. CASE ClientExits(n)
  BY <1>3 DEF ClientExits, Goto, bounds, ServerStates, ClientStates, Names
<1>4. CASE ServerDies(n)
  BY <1>4
     DEF ServerDies, unitState, unitState0, bounds, ServerStates, ClientStates,
         Names
<1>5. QED
  BY <1>1, <1>2, <1>3, <1>4 DEF AtContainer

LEMMA ContainerClient ==
    ASSUME TypeOK, NEW n \in Names, AtContainer(n)
    PROVE  /\ client' \in [Names -> ClientStates]
           /\ \A m \in Names \ {n} : client'[m] = client[m]
           /\ \/ client' = client
              \/ /\ OpenOutput(n) /\ client[n].of # 0 /\ client[n].file = "unopened"
                 /\ client'[n].of = client[n].of /\ client'[n].unit = client[n].unit
                 /\ client'[n].file = "open"
              \/ ClientExits(n) /\ client[n].of # 0 /\ client'[n] = NoClient
PROOF
<1>0. client \in [Names -> ClientStates]
  BY DEF TypeOK
<1>1. CASE OpenOutput(n)
  <2> DEFINE opened == [client[n] EXCEPT !.file = "open"]
  <2>1. opened \in ClientStates /\ opened.of = client[n].of /\ opened.unit = client[n].unit /\ opened.file = "open"
    BY FileBecomes
  <2>2. client' = [client EXCEPT ![n] = opened] /\ client[n].of # 0 /\ client[n].file = "unopened"
    BY <1>1 DEF OpenOutput
  <2> HIDE DEF opened
  <2>3. QED
    BY <1>0, <1>1, <2>1, <2>2
<1>2. CASE WriteRecord(n)
  BY <1>0, <1>2 DEF WriteRecord, docker
<1>3. CASE ClientExits(n)
  BY <1>0, <1>3, NoneAreStates DEF ClientExits
<1>4. CASE ServerDies(n)
  BY <1>0, <1>4 DEF ServerDies
<1>5. QED
  BY <1>1, <1>2, <1>3, <1>4 DEF AtContainer

LEMMA ContainerServer ==
    ASSUME TypeOK, NEW n \in Names, AtContainer(n)
    PROVE  /\ server' \in [Names -> ServerStates]
           /\ \A m \in Names \ {n} : server'[m] = server[m]
           /\ server'[n].of = server[n].of
           /\ server' = server \/ (ServerDies(n) /\ server[n].up)
PROOF
<1>1. CASE ServerDies(n)
  BY <1>1, ServerStops DEF ServerDies
<1>2. CASE ~ ServerDies(n)
  <2>1. server' = server
    BY <1>2 DEF AtContainer, OpenOutput, WriteRecord, ClientExits, docker
  <2>2. QED
    BY <2>1 DEF TypeOK
<1>3. QED
  BY <1>1, <1>2

LEMMA LeftContainer ==
    ASSUME TypeOK, LeftInv, NEW n \in Names, AtContainer(n)
    PROVE  LeftInv'
PROOF
<1>1. UNCHANGED <<unit, networks, volumes, data, left, Names, Name>>
  BY ContainerKeeps DEF Name
<1>2. pc' = pc \/ (pc = "measuring" /\ pc' = "archive")
  BY ContainerKeeps DEF Mine
<1>3. Under' = Under
  BY <1>2 DEF Under
<1>4. ASSUME NEW m \in Names, server[m] = NoServer
      PROVE  server'[m] = NoServer
  BY <1>4, ContainerServer DEF NoServer
<1>5. ASSUME NEW m \in Names, ~ server[m].up
      PROVE  ~ server'[m].up
  BY <1>5, ContainerServer
<1>6. ASSUME NEW m \in Names, client[m] = NoClient
      PROVE  client'[m] = NoClient
  BY <1>6, ContainerClient DEF NoClient
<1>7. ASSUME NEW m \in Names, Clean(m)
      PROVE  Clean(m)'
  BY <1>1, <1>4, <1>6, <1>7 DEF Clean
<1>8. ASSUME NEW m \in Names, TornDown(m)
      PROVE  TornDown(m)'
  <2>1. CASE pc' = "archive"
    BY <2>1 DEF TornDown, Teardown
  <2>2. CASE pc' = pc
    BY <1>1, <1>4, <1>5, <1>6, <1>8, <2>2 DEF TornDown
  <2>3. QED
    BY <1>2, <2>1, <2>2
<1>9. QED
  BY <1>1, <1>3, <1>7, <1>8 DEF LeftInv

LEMMA LeftStep ==
    ASSUME TypeOK, LeftInv, [Next]_vars
    PROVE  LeftInv'
PROOF
<1>1. CASE UnitStep
  BY <1>1, LeftUnitStep
<1>2. CASE \E n \in Names : AtContainer(n)
  BY <1>2, LeftContainer
<1>3. CASE Skip \/ Resume
  <2>1. UNCHANGED <<docker, left>> /\ ~ Under /\ ~ Under'
    BY <1>3 DEF Skip, Resume, Under
  <2>2. QED
    BY <2>1 DEF LeftInv, Clean, docker
<1>4. CASE Begin
  <2>1. /\ UNCHANGED <<left, networks, volumes, server, data, unit, Names, Name>>
        /\ ~ Under /\ Under' /\ pc' = "network" /\ unit \in Index
    BY <1>4 DEF Begin, BeginUnit, Goto, Under, Name, Names
  <2>2. TornDown(Name)'
    BY <2>1 DEF TornDown, Teardown
  <2>3. ASSUME NEW m \in Names, client[m] = NoClient
        PROVE  client'[m] = NoClient
    <3>1. client[m].unit # unit
      BY <2>1, <2>3, UnitsLength DEF NoClient
    <3>2. client' = [n \in Names |->
                      IF client[n].unit = unit /\ client[n].file = "open"
                      THEN [client[n] EXCEPT !.file = "removed"]
                      ELSE client[n]]
      BY <1>4 DEF Begin, BeginUnit
    <3>3. QED
      BY <2>3, <3>1, <3>2
  <2>4. ASSUME NEW m \in Names, Clean(m)
        PROVE  Clean(m)'
    BY <2>1, <2>3, <2>4 DEF Clean
  <2>5. QED
    BY <2>1, <2>2, <2>4 DEF LeftInv
<1>5. CASE Leave
  <2>1. UNCHANGED <<docker, left>> /\ pc = "leave" /\ ~ Under' /\ Under
    BY <1>5 DEF Leave, Under
  <2>2. ASSUME NEW m \in Names \ left
        PROVE  Clean(m)
    BY <2>1, <2>2 DEF LeftInv, TornDown, Clean, Teardown
  <2>3. QED
    BY <2>1, <2>2 DEF LeftInv, Clean, docker
<1>6. CASE Kill
  <2>1. UNCHANGED <<docker, unit>> /\ pc' = "stopped"
    BY <1>6 DEF Kill, unitState, unitState0
  <2>2. ASSUME NEW m \in Names \ left'
        PROVE  Clean(m)
    <3>1. CASE pc \in {"idle", "leave"}
      BY <1>6, <3>1 DEF Kill, LeftInv, TornDown, Clean, Teardown, Under
    <3>2. CASE pc \notin {"idle", "leave"}
      BY <1>6, <3>2 DEF Kill, LeftInv, Under
    <3>3. QED
      BY <3>1, <3>2
  <2>3. QED
    BY <2>1, <2>2 DEF LeftInv, Clean, docker, Under
<1>7. CASE UNCHANGED vars
  BY <1>7
     DEF vars, unitState, unitState0, docker, LeftInv, Clean, TornDown, Under,
         Name, bounds
<1>8. QED
  BY <1>1, <1>2, <1>3, <1>4, <1>5, <1>6, <1>7
     DEF Next, UnitStep, SetupStep, HarnessStep, TeardownStep, AtContainer

-----------------------------------------------------------------------------
(* OwnFreshPair: FreshInv and PairInv are inductive.                          *)
LEMMA UnitStepData ==
    ASSUME TypeOK, UnitStep, pc \in {"network", "volume", "image", "clear"}
    PROVE  data'[Name] \in {data[Name], "empty"}
PROOF
<1>1. Name \in Names
  BY UnitStepKeeps
<1>2. CASE CreateVolume
  BY <1>1, <1>2 DEF CreateVolume, TypeOK
<1>3. CASE ~ CreateVolume
  <2>1. data' = data
    BY <1>3
       DEF UnitStep, SetupStep, HarnessStep, TeardownStep, CreateNetwork,
           FindImage, ClearServer, StartServer, WaitHealthy, SaveLog, Prepare,
           ClearClient, StartClient, StopServer, RemoveServer, RemoveClient,
           RemoveNetwork, RemoveVolume, RemoveTree, Step, Interrupt, docker
  <2>2. QED
    BY <2>1
<1>4. QED
  BY <1>2, <1>3

LEMMA StartIsStartServer ==
    ASSUME TypeOK, UnitStep, pc = "start", pc' = "healthy"
    PROVE  /\ StartServer
           /\ server'[Name].of = attempt
PROOF
<1>1. Name \in Names
  BY UnitStepKeeps
<1>2. ~ Interrupt
  BY HandlerPlaces DEF Interrupt, Raise, Setup
<1>3. StartServer
  BY <1>2
     DEF UnitStep, SetupStep, HarnessStep, TeardownStep, CreateNetwork,
         CreateVolume, FindImage, ClearServer, WaitHealthy, SaveLog, Prepare,
         ClearClient, StartClient, StopServer, RemoveServer, RemoveClient,
         RemoveNetwork, RemoveVolume, RemoveTree, Step
<1>4. ~ Fails
  BY HandlerPlaces DEF Fails, Raise, Setup
<1>5. PICK b \in BOOLEAN : server' = [server EXCEPT ![Name] = [up |-> b, of |-> attempt]]
  BY <1>3, <1>4 DEF StartServer
<1>6. QED
  BY <1>1, <1>3, <1>5 DEF TypeOK

LEMMA MeasuringSteps ==
    ASSUME TypeOK, UnitStep, pc \in {"healthy", "prepare", "rmclient", "client"}
    PROVE  /\ server' = server /\ inherited' = inherited
           /\ pc' = "measuring" => client'[Name].of = attempt
PROOF
<1>1. Name \in Names
  BY UnitStepKeeps
<1>2. CASE Interrupt
  BY <1>2, HandlerPlaces DEF Interrupt, docker, Raise, Setup
<1>3. CASE ~ Interrupt
  <2>1. WaitHealthy \/ Prepare \/ ClearClient \/ StartClient
    BY <1>3
       DEF UnitStep, SetupStep, HarnessStep, TeardownStep, CreateNetwork,
           CreateVolume, FindImage, ClearServer, StartServer, SaveLog,
           StopServer, RemoveServer, RemoveClient, RemoveNetwork, RemoveVolume,
           RemoveTree, Step
  <2>2. server' = server /\ inherited' = inherited
    BY <2>1 DEF WaitHealthy, Prepare, ClearClient, StartClient, docker
  <2>3. ASSUME pc' = "measuring"
        PROVE  client'[Name].of = attempt
    <3>1. StartClient /\ ~ Goto("archive")
      BY <2>1, <2>3, HandlerPlaces
         DEF WaitHealthy, Prepare, ClearClient, StartClient, Goto, Fails,
             Raise, Setup
    <3>2. client' = [client EXCEPT ![Name] = [unit |-> unit, of |-> attempt, file |-> "unopened"]]
      BY <3>1 DEF StartClient
    <3>3. QED
      BY <1>1, <3>2 DEF TypeOK
  <2>4. QED
    BY <2>2, <2>3
<1>4. QED
  BY <1>2, <1>3

LEMMA FreshUnitStep ==
    ASSUME TypeOK, FreshInv, UnitStep
    PROVE  FreshInv'
PROOF
<1>0. Name \in Names /\ Name' = Name
  BY UnitStepKeeps
<1>1. PlaceMoves /\ LeftMoves
  BY UnitStepGoes
<1>2. ASSUME pc' \in {"network", "volume", "image", "clear", "start"}, Name \notin left'
      PROVE  data'[Name] # "used"
  <2>1. pc \in {"network", "volume", "image", "clear"} /\ left' = left
    BY <1>1, <1>2 DEF PlaceMoves, LeftMoves, Setup, Harness, Teardown
  <2>2. data[Name] # "used"
    BY <1>2, <2>1 DEF FreshInv
  <2>3. QED
    BY <2>1, <2>2, UnitStepData
<1>3. ASSUME inherited', pc' \in {"healthy"} \cup Harness
      PROVE  Name \in left'
  <2>1. /\ pc \in {"start", "healthy"} \cup Harness
        /\ pc = "start" => pc' = "healthy"
        /\ left' = left
    BY <1>1, <1>3 DEF PlaceMoves, LeftMoves, Setup, Harness, Teardown
  <2>2. CASE pc = "start"
    <3>1. inherited' = (data[Name] = "used")
      BY <2>1, <2>2, StartIsStartServer DEF StartServer
    <3>2. QED
      BY <1>3, <2>1, <2>2, <3>1 DEF FreshInv
  <2>3. CASE pc # "start"
    <3>1. inherited' = inherited
      BY <2>3
         DEF UnitStep, SetupStep, HarnessStep, TeardownStep, CreateNetwork,
             CreateVolume, FindImage, ClearServer, StartServer, WaitHealthy,
             SaveLog, Prepare, ClearClient, StartClient, StopServer,
             RemoveServer, RemoveClient, RemoveNetwork, RemoveVolume,
             RemoveTree, Step, Interrupt
    <3>2. QED
      BY <1>3, <2>1, <2>3, <3>1 DEF FreshInv, FreshData
  <2>4. QED
    BY <2>2, <2>3
<1>4. QED
  BY <1>0, <1>2, <1>3 DEF FreshInv, FreshData

LEMMA FreshStep ==
    ASSUME TypeOK, LeftInv, FreshInv, [Next]_vars
    PROVE  FreshInv'
PROOF
<1>1. CASE UnitStep
  BY <1>1, FreshUnitStep
<1>2. CASE \E n \in Names : AtContainer(n)
  <2>1. UNCHANGED <<unit, data, left, inherited, Name>>
    BY <1>2, ContainerKeeps DEF Name
  <2>2. pc' = pc \/ (pc = "measuring" /\ pc' = "archive")
    BY <1>2, ContainerKeeps DEF Mine
  <2>3. QED
    BY <2>1, <2>2 DEF FreshInv, FreshData, Harness
<1>3. CASE Skip \/ Resume \/ Leave \/ Kill
  <2>1. pc' \in {"idle", "stopped"}
    BY <1>3 DEF Skip, Resume, Leave, Kill
  <2>2. QED
    BY <2>1 DEF FreshInv, FreshData, Harness
<1>4. CASE Begin
  <2>1. /\ UNCHANGED <<left, data, unit, Name>>
        /\ ~ Under /\ pc' = "network" /\ unit \in Index
    BY <1>4 DEF Begin, BeginUnit, Goto, Under, Name
  <2>2. Name \notin left => data[Name] = "none"
    BY <2>1, NameIsOne DEF LeftInv, Clean
  <2>3. QED
    BY <2>1, <2>2 DEF FreshInv, FreshData, Harness
<1>5. CASE UNCHANGED vars
  BY <1>5 DEF vars, unitState, unitState0, docker, FreshInv, FreshData, Name
<1>6. QED
  BY <1>1, <1>2, <1>3, <1>4, <1>5
     DEF Next, UnitStep, SetupStep, HarnessStep, TeardownStep, AtContainer

LEMMA PairStep ==
    ASSUME TypeOK, PairInv, [Next]_vars
    PROVE  PairInv'
PROOF
<1>1. CASE UnitStep
  <2>0. Name \in Names /\ Name' = Name /\ attempt' = attempt
    BY <1>1, UnitStepKeeps
  <2>1. PlaceMoves
    BY <1>1, UnitStepGoes
  <2>2. ASSUME pc' \in {"healthy"} \cup (Harness \ {"archive"})
        PROVE  server'[Name].of = attempt
    <3>1. pc \in {"start", "healthy", "prepare", "rmclient", "client"} /\ (pc = "start" => pc' = "healthy")
      BY <2>1, <2>2 DEF PlaceMoves, Setup, Harness, Teardown
    <3>2. CASE pc = "start"
      BY <1>1, <3>1, <3>2, StartIsStartServer
    <3>3. CASE pc # "start"
      BY <1>1, <3>1, <3>3, MeasuringSteps DEF PairInv, Harness
    <3>4. QED
      BY <3>2, <3>3
  <2>3. ASSUME pc' = "measuring"
        PROVE  client'[Name].of = attempt
    <3>1. pc = "client"
      BY <2>1, <2>3 DEF PlaceMoves, Setup, Harness, Teardown
    <3>2. QED
      BY <1>1, <2>3, <3>1, MeasuringSteps
  <2>4. QED
    BY <2>0, <2>2, <2>3 DEF PairInv
<1>2. CASE \E n \in Names : AtContainer(n)
  <2> PICK n \in Names : AtContainer(n)
    BY <1>2
  <2>1. UNCHANGED <<unit, attempt, Name>>
    BY ContainerKeeps DEF Name
  <2>2. pc' = pc \/ (pc = "measuring" /\ pc' = "archive")
    BY ContainerKeeps DEF Mine
  <2>3. \A m \in Names : server'[m].of = server[m].of
    BY ContainerServer
  <2>4. ASSUME pc' = "measuring"
        PROVE  client'[Name].of = client[Name].of
    <3>1. pc = "measuring" /\ client[Name].of = attempt /\ Name \in Names
      BY <2>2, <2>4, NameIsOne DEF PairInv, TypeOK
    <3>2. ~ (ClientExits(n) /\ n = Name)
      BY <2>4, <3>1 DEF ClientExits, Mine, Goto
    <3>3. QED
      BY <3>1, <3>2, ContainerClient
  <2>5. Under => Name \in Names
    BY NameIsOne DEF TypeOK, Under
  <2>6. QED
    BY <2>1, <2>2, <2>3, <2>4, <2>5 DEF PairInv, Harness, Under
<1>3. CASE Skip \/ Resume \/ Leave \/ Kill \/ Begin
  <2>1. pc' \in {"idle", "stopped", "network"}
    BY <1>3 DEF Skip, Resume, Leave, Kill, Begin, BeginUnit, Goto
  <2>2. QED
    BY <2>1 DEF PairInv, Harness
<1>4. CASE UNCHANGED vars
  BY <1>4 DEF vars, unitState, unitState0, docker, PairInv, Name
<1>5. QED
  BY <1>1, <1>2, <1>3, <1>4
     DEF Next, UnitStep, SetupStep, HarnessStep, TeardownStep, AtContainer

-----------------------------------------------------------------------------
(* Multiplication, for the bound on the attempts.                             *)
LEMMA RunsTimesUnits ==
    ASSUME NEW L \in Nat, NEW r \in Nat, NEW m \in Nat, r < m
    PROVE  /\ r * L \in Nat /\ m * L \in Nat
           /\ (r + 1) * L = r * L + L
           /\ r * L + L <= m * L
PROOF
<1>1. r * L \in Nat /\ m * L \in Nat /\ (r + 1) * L = r * L + L
  OBVIOUS
<1>2. PICK d \in Nat : m = (r + 1) + d
  <2>1. m - (r + 1) \in Nat /\ m = (r + 1) + (m - (r + 1))
    OBVIOUS
  <2>2. QED
    BY <2>1
<1>3. m * L = (r + 1) * L + d * L /\ d * L \in Nat
  BY <1>2
<1>4. QED
  BY <1>1, <1>3

(* ClientsInv is inductive.                                                   *)
LEMMA UnitStepClient ==
    ASSUME TypeOK, UnitStep
    PROVE  \A n \in Names : \/ client'[n] = client[n]
                            \/ client'[n] = NoClient
                            \/ /\ client'[n].of = attempt /\ client'[n].unit = unit
                               /\ client'[n].file = "unopened"
PROOF
<1>0. Name \in Names /\ client \in [Names -> ClientStates]
  BY UnitStepKeeps DEF TypeOK
<1>1. CASE ClearClient \/ RemoveClient
  <2>1. client' = client \/ client' = [client EXCEPT ![Name] = NoClient]
    BY <1>1 DEF ClearClient, RemoveClient, Step, docker
  <2>2. QED
    BY <1>0, <2>1
<1>2. CASE StartClient
  <2> DEFINE new == [unit |-> unit, of |-> attempt, file |-> "unopened"]
  <2>1. client' \in {client, [client EXCEPT ![Name] = new]}
    BY <1>2 DEF StartClient
  <2>2. new.of = attempt /\ new.unit = unit /\ new.file = "unopened"
    OBVIOUS
  <2> HIDE DEF new
  <2>3. QED
    BY <1>0, <2>1, <2>2
<1>3. CASE ~ (ClearClient \/ RemoveClient \/ StartClient)
  <2>1. client' = client
    BY <1>3
       DEF UnitStep, SetupStep, HarnessStep, TeardownStep, CreateNetwork,
           CreateVolume, FindImage, ClearServer, StartServer, WaitHealthy,
           SaveLog, Prepare, StopServer, RemoveServer, RemoveNetwork,
           RemoveVolume, RemoveTree, Step, Interrupt, docker
  <2>2. QED
    BY <2>1
<1>4. QED
  BY <1>1, <1>2, <1>3

(* The file an attempt removes is closed to the clients that had it open.     *)
LEMMA BeginClient ==
    ASSUME TypeOK, Begin
    PROVE  /\ client' \in [Names -> ClientStates]
           /\ \A n \in Names :
                 /\ client'[n].of = client[n].of /\ client'[n].unit = client[n].unit
                 /\ client'[n].file = "unopened" <=> client[n].file = "unopened"
                 /\ client'[n].file = "open" <=> client[n].file = "open" /\ client[n].unit # unit
PROOF
<1>1. client' = [n \in Names |->
                    IF client[n].unit = unit /\ client[n].file = "open"
                    THEN [client[n] EXCEPT !.file = "removed"]
                    ELSE client[n]]
  BY DEF Begin, BeginUnit
<1>2. ASSUME NEW n \in Names
      PROVE  /\ client'[n] \in ClientStates
             /\ client'[n].of = client[n].of /\ client'[n].unit = client[n].unit
             /\ client'[n].file = "unopened" <=> client[n].file = "unopened"
             /\ client'[n].file = "open" <=> client[n].file = "open" /\ client[n].unit # unit
  <2>1. CASE client[n].unit = unit /\ client[n].file = "open"
    <3> DEFINE gone == [client[n] EXCEPT !.file = "removed"]
    <3>1. /\ gone \in ClientStates
          /\ gone.of = client[n].of /\ gone.unit = client[n].unit /\ gone.file = "removed"
      BY FileBecomes
    <3>2. client'[n] = gone
      BY <1>1, <2>1
    <3> HIDE DEF gone
    <3>3. QED
      BY <2>1, <3>1, <3>2
  <2>2. CASE ~ (client[n].unit = unit /\ client[n].file = "open")
    BY <1>1, <2>2 DEF TypeOK
  <2>3. QED
    BY <2>1, <2>2
<1>3. client' \in [Names -> ClientStates]
  BY <1>1, <1>2
<1>4. QED
  BY <1>2, <1>3

LEMMA ClientsStep ==
    ASSUME TypeOK, ClientsInv, [Next]_vars
    PROVE  ClientsInv'
PROOF
<1>1. CASE UnitStep
  <2>1. unit \in Index
    BY <1>1, UnitStepKeeps
  <2>2. ASSUME NEW n \in Names
        PROVE  /\ client'[n].of # 0 => client'[n].unit \in Index
               /\ client'[n].file # "unopened" => client'[n].of # 0
    <3>1. CASE client'[n] = client[n]
      BY <3>1 DEF ClientsInv
    <3>2. CASE client'[n] = NoClient
      BY <3>2 DEF NoClient
    <3>3. CASE client'[n].unit = unit /\ client'[n].file = "unopened"
      BY <2>1, <3>3
    <3>4. QED
      BY <1>1, <3>1, <3>2, <3>3, UnitStepClient
  <2>3. QED
    BY <2>2 DEF ClientsInv, Names, Index
<1>2. CASE \E n \in Names : AtContainer(n)
  <2> PICK n \in Names : AtContainer(n)
    BY <1>2
  <2>1. ASSUME NEW m \in Names
        PROVE  /\ client'[m].of # 0 => client'[m].unit \in Index
               /\ client'[m].file # "unopened" => client'[m].of # 0
    <3>1. CASE client'[m] = client[m]
      BY <3>1 DEF ClientsInv
    <3>2. CASE client'[m] = NoClient
      BY <3>2 DEF NoClient
    <3>3. CASE client[m].of # 0 /\ client'[m].of = client[m].of /\ client'[m].unit = client[m].unit
      BY <3>3 DEF ClientsInv
    <3>4. QED
      BY <3>1, <3>2, <3>3, ContainerClient
  <2>2. QED
    BY <2>1 DEF ClientsInv, Names, Index
<1>3. CASE Begin
  BY <1>3, BeginClient DEF ClientsInv, Names, Index
<1>4. CASE Skip \/ Resume \/ Leave \/ Kill \/ UNCHANGED vars
  <2>1. client' = client
    BY <1>4 DEF Skip, Resume, Leave, Kill, docker, vars
  <2>2. QED
    BY <2>1 DEF ClientsInv, Names, Index
<1>5. QED
  BY <1>1, <1>2, <1>3, <1>4
     DEF Next, UnitStep, SetupStep, HarnessStep, TeardownStep, AtContainer

(* The types of what is not docker's.                                         *)
LEMMA UnitStepTypes ==
    ASSUME TypeOK, UnitStep
    PROVE  /\ pc' \in Setup \cup Harness \cup Teardown \cup {"idle", "capture", "leave", "stopped"}
           /\ exc' \in {"none", "error", "interrupt"} /\ left' \subseteq Names
           /\ inherited' \in BOOLEAN /\ faults' \in 0 .. MaxFaults
           /\ Under /\ Under'
PROOF
<1>0. Name \in Names
  BY UnitStepKeeps
<1>1. /\ PlaceMoves /\ LeftMoves /\ ExcMoves
  BY UnitStepGoes
<1>2. pc' \in Setup \cup Harness \cup Teardown \cup {"idle", "capture", "leave", "stopped"}
      /\ Under /\ Under'
  BY <1>1 DEF PlaceMoves, Setup, Harness, Teardown, Under
<1>3. exc' \in {"none", "error", "interrupt"}
  BY <1>1 DEF ExcMoves, TypeOK
<1>4. left' \subseteq Names
  BY <1>0, <1>1 DEF LeftMoves, TypeOK, Teardown
<1>5. inherited' \in BOOLEAN
  <2>1. inherited' = inherited \/ inherited' = (data[Name] = "used")
    BY DEF UnitStep, SetupStep, HarnessStep, TeardownStep, CreateNetwork,
           CreateVolume, FindImage, ClearServer, StartServer, WaitHealthy,
           SaveLog, Prepare, ClearClient, StartClient, StopServer,
           RemoveServer, RemoveClient, RemoveNetwork, RemoveVolume, RemoveTree,
           Step, Interrupt
  <2>2. QED
    BY <2>1 DEF TypeOK
<1>6. faults' \in 0 .. MaxFaults
  <2>1. faults' = faults \/ (faults < MaxFaults /\ faults' = faults + 1)
    BY DEF UnitStep, SetupStep, HarnessStep, TeardownStep, CreateNetwork,
           CreateVolume, FindImage, ClearServer, StartServer, WaitHealthy,
           SaveLog, Prepare, ClearClient, StartClient, StopServer,
           RemoveServer, RemoveClient, RemoveNetwork, RemoveVolume, RemoveTree,
           Step, Interrupt, bounds
  <2>2. QED
    BY <2>1, OpsAssumption DEF TypeOK
<1>7. QED
  BY <1>2, <1>3, <1>4, <1>5, <1>6

(* The bound on the attempts.                                                 *)
LEMMA AttemptsStep ==
    ASSUME TypeOK, AttemptsBound, [Next]_vars, unit' \in 1 .. Len(Units) + 1
    PROVE  AttemptsBound' /\ attempt' \in 0 .. MaxRuns * Len(Units)
PROOF
<1>0. /\ Len(Units) \in Nat /\ Index = 1 .. Len(Units)
      /\ unit \in Nat /\ unit' \in Nat /\ attempt \in Nat /\ runs \in 1 .. MaxRuns /\ MaxRuns \in Nat
      /\ (runs - 1) * Len(Units) \in Nat
      /\ (runs - 1) * Len(Units) + Len(Units) <= MaxRuns * Len(Units)
  <2>1. runs - 1 \in Nat /\ runs - 1 < MaxRuns /\ MaxRuns \in Nat
    BY OpsAssumption DEF TypeOK
  <2>2. Len(Units) \in Nat /\ Index = 1 .. Len(Units)
    BY UnitsLength
  <2>3. /\ (runs - 1) * Len(Units) \in Nat
        /\ (runs - 1) * Len(Units) + Len(Units) <= MaxRuns * Len(Units)
    BY <2>1, <2>2, RunsTimesUnits, ZenonT(30)
  <2>4. unit \in Nat /\ unit' \in Nat /\ runs \in 1 .. MaxRuns /\ attempt \in 0 .. MaxRuns * Len(Units)
    BY <2>2 DEF TypeOK
  <2>5. attempt \in Nat
    BY <2>4
  <2>6. QED
    BY <2>1, <2>2, <2>3, <2>4, <2>5
<1> DEFINE before == (runs - 1) * Len(Units)
<1>1. CASE UnitStep
  <2>1. UNCHANGED <<unit, attempt, runs>> /\ Under /\ Under'
    BY <1>1, UnitStepKeeps, UnitStepTypes
  <2>2. QED
    BY <1>0, <2>1 DEF AttemptsBound, Under, TypeOK
<1>2. CASE \E n \in Names : AtContainer(n)
  <2>1. UNCHANGED <<unit, attempt, runs>>
    BY <1>2, ContainerKeeps
  <2>2. pc' = pc \/ (pc = "measuring" /\ pc' = "archive")
    BY <1>2, ContainerKeeps DEF Mine
  <2>3. QED
    BY <1>0, <2>1, <2>2 DEF AttemptsBound, Under, TypeOK
<1>3. CASE Skip
  BY <1>0, <1>3 DEF Skip, AttemptsBound, Under, bounds, TypeOK
<1>4. CASE Begin
  <2>1. /\ pc = "idle" /\ pc' = "network" /\ attempt' = attempt + 1 /\ UNCHANGED <<unit, runs>> /\ unit \in Index
    BY <1>4 DEF Begin, BeginUnit, Goto, bounds
  <2>2. attempt <= before + unit - 1
    BY <2>1 DEF AttemptsBound
  <2> HIDE DEF before
  <2>3. attempt' <= before + unit /\ attempt' <= MaxRuns * Len(Units) /\ attempt' \in Nat
    BY <1>0, <2>1, <2>2 DEF before
  <2>4. QED
    BY <1>0, <2>1, <2>3 DEF AttemptsBound, Under, before
<1>5. CASE Leave
  <2>1. /\ pc = "leave" /\ UNCHANGED <<attempt, runs>> /\ unit \in Index
        /\ pc' = "stopped" \/ (pc' = "idle" /\ unit' > unit)
    <3>1. pc = "leave" /\ unit \in Index
      BY <1>5 DEF Leave, TypeOK
    <3>2. exc = "none" => pc' = "idle" /\ unit' = unit + 1
      BY <1>5 DEF Leave
    <3>3. exc = "error" => pc' = "idle" /\ unit' = NextPhase
      BY <1>5 DEF Leave
    <3>4. exc = "interrupt" => pc' = "stopped"
      BY <1>5 DEF Leave
    <3>5. unit + 1 > unit /\ NextPhase > unit
      BY <1>0, <3>1, NextPhaseComes
    <3>6. QED
      BY <1>5, <3>1, <3>2, <3>3, <3>4, <3>5 DEF Leave, TypeOK, bounds
  <2>2. attempt <= before + unit
    BY <2>1 DEF AttemptsBound, Under
  <2>3. attempt \in 0 .. MaxRuns * Len(Units)
    BY DEF TypeOK
  <2> HIDE DEF before
  <2>4. (pc' = "idle" => attempt <= before + unit' - 1) /\ attempt <= before + Len(Units)
    BY <1>0, <2>1, <2>2 DEF before
  <2>5. QED
    BY <1>0, <2>1, <2>3, <2>4 DEF AttemptsBound, Under, before
<1>6. CASE Resume
  <2>1. /\ runs' = runs + 1 /\ unit' = 1 /\ pc' = "idle" /\ attempt' = attempt
        /\ pc = "stopped" \/ (pc = "idle" /\ unit \notin Index)
    BY <1>6 DEF Resume
  <2>2. unit <= Len(Units) + 1
    BY <1>0 DEF TypeOK
  <2>3. attempt <= before + Len(Units)
    BY <1>0, <2>1, <2>2 DEF AttemptsBound
  <2>4. (runs' - 1) * Len(Units) = before + Len(Units)
    <3>1. (runs - 1) \in Nat /\ runs' - 1 = (runs - 1) + 1
      BY <1>0, <2>1
    <3>2. ((runs - 1) + 1) * Len(Units) = (runs - 1) * Len(Units) + Len(Units)
      <4>1. runs - 1 < MaxRuns
        BY <1>0
      <4>2. QED
        BY <1>0, <3>1, <4>1, RunsTimesUnits
    <3>3. QED
      BY <3>1, <3>2
  <2>5. attempt \in 0 .. MaxRuns * Len(Units)
    BY DEF TypeOK
  <2> HIDE DEF before
  <2>6. attempt' <= (runs' - 1) * Len(Units) + unit' - 1
    <3>1. (runs' - 1) * Len(Units) \in Int
      BY <1>0, <2>4 DEF before
    <3>2. QED
      BY <1>0, <2>1, <2>3, <2>4, <3>1
  <2>7. QED
    BY <2>1, <2>5, <2>6 DEF AttemptsBound, Under
<1>7. CASE Kill
  <2>1. pc # "stopped" /\ pc' = "stopped" /\ UNCHANGED <<attempt, unit, runs>>
    BY <1>7 DEF Kill, unitState, unitState0
  <2>2. attempt <= before + Len(Units)
    <3>1. unit <= Len(Units) + 1 /\ (Under => unit <= Len(Units))
      BY <1>0 DEF TypeOK, Under
    <3>2. QED
      BY <1>0, <2>1, <3>1 DEF AttemptsBound, Under
  <2>3. attempt \in 0 .. MaxRuns * Len(Units)
    BY DEF TypeOK
  <2>4. QED
    BY <2>1, <2>2, <2>3 DEF AttemptsBound, Under
<1>8. CASE UNCHANGED vars
  BY <1>8 DEF vars, unitState, unitState0, bounds, AttemptsBound, Under, TypeOK
<1>9. QED
  BY <1>1, <1>2, <1>3, <1>4, <1>5, <1>6, <1>7, <1>8
     DEF Next, UnitStep, SetupStep, HarnessStep, TeardownStep, AtContainer

Places == Setup \cup Harness \cup Teardown \cup {"idle", "capture", "leave", "stopped"}

ControlTypes ==
    /\ pc \in Places
    /\ unit \in 1 .. Len(Units) + 1
    /\ pc \notin {"idle", "stopped"} => unit \in Index
    /\ exc \in {"none", "error", "interrupt"} /\ rc0 \in BOOLEAN
    /\ inherited \in BOOLEAN /\ left \subseteq Names
    /\ runs \in 1 .. MaxRuns /\ faults \in 0 .. MaxFaults

RecordTypes == done \in [Index -> Nat] /\ out \in [Index -> SUBSET (1 .. attempt)]

(* Who opened a file late stays so.                                           *)
LEMMA LateGrows ==
    ASSUME TypeOK, [Next]_vars
    PROVE  late \subseteq late' /\ late' \subseteq Nat
PROOF
<1>1. CASE \E n \in Names : OpenOutput(n)
  <2>1. \A n \in Names : client[n].of \in Nat
    BY DEF TypeOK, ClientStates
  <2>2. QED
    BY <1>1, <2>1 DEF OpenOutput, TypeOK
<1>2. CASE UnitStep
  BY <1>2, UnitStepKeeps DEF TypeOK
<1>3. CASE ~ UnitStep /\ ~ (\E n \in Names : OpenOutput(n))
  <2>1. late' = late
    BY <1>3 DEF Next, UnitStep, SetupStep, HarnessStep, TeardownStep, Skip, Begin,
        BeginUnit, Leave, Resume, Kill, WriteRecord, ClientExits, ServerDies,
        bounds, vars
  <2>2. QED
    BY <2>1 DEF TypeOK
<1>4. QED
  BY <1>1, <1>2, <1>3

(* The type invariant, in its parts.                                          *)
LEMMA TypesAre ==
    TypeOK <=> /\ ControlTypes /\ DockerTypes /\ RecordTypes /\ late \subseteq Nat
               /\ attempt \in 0 .. MaxRuns * Len(Units)
PROOF
  BY DEF TypeOK, ControlTypes, DockerTypes, RecordTypes, Places

LEMMA ControlStep ==
    ASSUME TypeOK, [Next]_vars
    PROVE  ControlTypes'
PROOF
<1>0. ControlTypes /\ Len(Units) \in Nat /\ Index = 1 .. Len(Units)
  BY TypesAre, UnitsLength
<1>1. CASE UnitStep
  BY <1>0, <1>1, UnitStepKeeps, UnitStepTypes
     DEF ControlTypes, Places, Names, Index, Under
<1>2. CASE \E n \in Names : AtContainer(n)
  <2> PICK n \in Names : AtContainer(n)
    BY <1>2
  <2>1. UNCHANGED <<unit, inherited, left, exc, runs, faults, Names>>
    BY ContainerKeeps
  <2>2. pc' = pc \/ (pc = "measuring" /\ pc' = "archive")
    BY ContainerKeeps DEF Mine
  <2>3. rc0' \in BOOLEAN
    <3>1. CASE ClientExits(n) /\ Mine(n)
      <4>1. rc0' = FALSE \/ rc0' = (server[n].up /\ client[n].of \in out[client[n].unit])
        BY <3>1 DEF ClientExits
      <4>2. server[n].up \in BOOLEAN
        BY ServerFields DEF TypeOK
      <4>3. QED
        BY <4>1, <4>2
    <3>2. CASE ~ (ClientExits(n) /\ Mine(n))
      <4>1. rc0' = rc0
        BY <3>2
           DEF AtContainer, ClientExits, OpenOutput, WriteRecord, ServerDies,
               unitState, unitState0
      <4>2. QED
        BY <1>0, <4>1 DEF ControlTypes
    <3>3. QED
      BY <3>1, <3>2
  <2>4. QED
    BY <1>0, <2>1, <2>2, <2>3 DEF ControlTypes, Places, Harness, Index
<1>3. CASE Skip
  BY <1>0, <1>3 DEF Skip, ControlTypes, Places, Names, Index, bounds
<1>4. CASE Begin
  <2>1. /\ pc = "idle" /\ pc' = "network" /\ UNCHANGED <<unit, runs, faults, exc, left, Names>>
        /\ unit \in Index /\ rc0' = FALSE /\ inherited' = FALSE
    BY <1>4 DEF Begin, BeginUnit, Goto, bounds, Names
  <2>2. QED
    BY <1>0, <2>1 DEF ControlTypes, Places, Setup, Index
<1>5. CASE Leave
  <2>1. /\ pc = "leave" /\ pc' \in {"idle", "stopped"} /\ exc' = "none"
        /\ UNCHANGED <<rc0, inherited, left, runs, faults, Names>>
    BY <1>5 DEF Leave, bounds, Names
  <2>2. unit \in Index
    BY <1>0, <2>1 DEF ControlTypes
  <2>3. unit' \in {unit, unit + 1, NextPhase}
    BY <1>0, <1>5 DEF Leave, ControlTypes
  <2>4. unit' \in 1 .. Len(Units) + 1
    BY <1>0, <2>2, <2>3, NextPhaseComes
  <2>5. QED
    BY <1>0, <2>1, <2>4 DEF ControlTypes, Places, Index
<1>6. CASE Resume
  BY <1>0, <1>6, OpsAssumption DEF Resume, ControlTypes, Places, Names, Index
<1>7. CASE Kill
  <2>1. /\ pc' = "stopped" /\ UNCHANGED <<unit, exc, rc0, inherited, runs, Names>>
        /\ faults' = faults + 1 /\ faults < MaxFaults
        /\ left' = IF pc \in {"idle", "leave"} THEN left ELSE left \cup {Name}
    BY <1>7 DEF Kill, unitState, unitState0, Names
  <2>2. pc # "stopped"
    BY <1>7 DEF Kill
  <2>3. left' \subseteq Names
    BY <1>0, <2>1, <2>2, NameIsOne DEF ControlTypes
  <2>4. QED
    BY <1>0, <2>1, <2>3, OpsAssumption DEF ControlTypes, Places, Index
<1>8. CASE UNCHANGED vars
  BY <1>0, <1>8
     DEF vars, unitState, unitState0, bounds, ControlTypes, Names, Index
<1>9. QED
  BY <1>1, <1>2, <1>3, <1>4, <1>5, <1>6, <1>7, <1>8
     DEF Next, UnitStep, SetupStep, HarnessStep, TeardownStep, AtContainer

LEMMA DockerStep ==
    ASSUME TypeOK, [Next]_vars
    PROVE  DockerTypes'
PROOF
<1>0. DockerTypes
  BY TypesAre
<1>1. CASE UnitStep
  BY <1>1, UnitStepOnlyName DEF OnlyName
<1>2. CASE \E n \in Names : AtContainer(n)
  <2> PICK n \in Names : AtContainer(n)
    BY <1>2
  <2>1. UNCHANGED <<networks, volumes, data, Names, ServerStates, ClientStates>>
    BY ContainerKeeps
  <2>2. server' \in [Names -> ServerStates] /\ client' \in [Names -> ClientStates]
    BY ContainerServer, ContainerClient
  <2>3. QED
    BY <1>0, <2>1, <2>2 DEF DockerTypes
<1>3. CASE Begin
  <2>1. UNCHANGED <<networks, volumes, server, data, Names>> /\ attempt' = attempt + 1
    BY <1>3 DEF Begin, BeginUnit, Names
  <2>2. client' \in [Names -> ClientStates]
    BY <1>3, BeginClient
  <2>3. attempt \in Nat
    BY UnitsLength DEF TypeOK
  <2>4. 0 .. attempt \subseteq 0 .. attempt'
    BY <2>1, <2>3
  <2>5. ServerStates \subseteq ServerStates' /\ ClientStates \subseteq ClientStates'
    BY <2>4 DEF ServerStates, ClientStates
  <2>6. server' \in [Names -> ServerStates'] /\ client' \in [Names -> ClientStates']
    BY <1>0, <2>1, <2>2, <2>5 DEF DockerTypes
  <2>7. QED
    BY <1>0, <2>1, <2>6 DEF DockerTypes
<1>4. CASE Skip \/ Leave \/ Resume \/ Kill \/ UNCHANGED vars
  <2>1. UNCHANGED docker /\ UNCHANGED attempt
    BY <1>4 DEF Skip, Leave, Resume, Kill, vars, unitState, unitState0
  <2>2. QED
    BY <1>0, <2>1 DEF DockerTypes, docker, ServerStates, ClientStates, Names
<1>5. QED
  BY <1>1, <1>2, <1>3, <1>4
     DEF Next, UnitStep, SetupStep, HarnessStep, TeardownStep, AtContainer

LEMMA RecordTypesStep ==
    ASSUME TypeOK, ClientsInv, [Next]_vars
    PROVE  RecordTypes'
PROOF
<1>0. RecordTypes /\ attempt \in Nat
  BY TypesAre, UnitsLength
<1>1. CASE UnitStep
  BY <1>0, <1>1, UnitStepKeeps DEF RecordTypes, Index
<1>2. CASE \E n \in Names : AtContainer(n)
  <2> PICK n \in Names : AtContainer(n)
    BY <1>2
  <2>1. UNCHANGED <<done, attempt>>
    BY ContainerKeeps
  <2>2. CASE WriteRecord(n)
    <3>1. /\ client[n].file = "open"
          /\ out' = [out EXCEPT ![client[n].unit] = @ \cup {client[n].of}]
      BY <2>2 DEF WriteRecord
    <3>2. client[n].of # 0 /\ client[n].unit \in Index
      BY <3>1 DEF ClientsInv
    <3>3. client[n].of \in 0 .. attempt
      BY DEF TypeOK, ClientStates
    <3>4. client[n].of \in 1 .. attempt
      BY <1>0, <3>2, <3>3
    <3>5. QED
      BY <1>0, <2>1, <3>1, <3>2, <3>4 DEF RecordTypes, Index
  <2>3. CASE ~ WriteRecord(n)
    <3>1. out' = out
      BY <2>3
         DEF AtContainer, ClientExits, OpenOutput, ServerDies, unitState,
             unitState0
    <3>2. QED
      BY <1>0, <2>1, <3>1 DEF RecordTypes, Index
  <2>4. QED
    BY <2>2, <2>3
<1>3. CASE Begin
  <2>1. out' = [out EXCEPT ![unit] = {}] /\ done' = done /\ attempt' = attempt + 1
    BY <1>3 DEF Begin, BeginUnit
  <2>2. 1 .. attempt \subseteq 1 .. attempt'
    BY <1>0, <2>1
  <2>3. QED
    BY <1>0, <2>1, <2>2 DEF RecordTypes, Index
<1>4. CASE Leave
  <2>1. /\ out' = out /\ attempt' = attempt
        /\ done' = done \/ done' = [done EXCEPT ![unit] = attempt]
    BY <1>4 DEF Leave
  <2>2. QED
    BY <1>0, <2>1 DEF RecordTypes, Index
<1>5. CASE Skip \/ Resume \/ Kill \/ UNCHANGED vars
  <2>1. UNCHANGED <<done, out, attempt>>
    BY <1>5 DEF Skip, Resume, Kill, vars, unitState, unitState0
  <2>2. QED
    BY <1>0, <2>1 DEF RecordTypes, Index
<1>6. QED
  BY <1>1, <1>2, <1>3, <1>4, <1>5
     DEF Next, UnitStep, SetupStep, HarnessStep, TeardownStep, AtContainer

-----------------------------------------------------------------------------
(* RecordsAreOneAttempt: RecordsInv is inductive.                             *)
LEMMA RecordsUnitStep ==
    ASSUME TypeOK, RecordsInv, UnitStep
    PROVE  RecordsInv'
PROOF
<1>0. /\ UNCHANGED <<unit, attempt, rc0, done, out, late, Index, Names>> /\ Under /\ Under'
      /\ attempt # 0
  BY UnitStepKeeps, UnitStepTypes DEF Index, Names, RecordsInv
<1>1. ASSUME NEW i \in Index, NEW a \in Nat, LastAttempt(i, a)
      PROVE  LastAttempt(i, a)'
  <2>1. ASSUME NEW n \in Names, client'[n].unit = i, client'[n].file = "open"
        PROVE  client'[n].of \in {a} \cup late
    <3>1. client'[n] = client[n]
      BY <2>1, UnitStepClient DEF NoClient
    <3>2. QED
      BY <1>1, <2>1, <3>1 DEF LastAttempt
  <2>2. QED
    BY <1>0, <1>1, <2>1 DEF LastAttempt
<1>2. ASSUME NEW n \in Names, client'[n].of = attempt
      PROVE  client'[n].unit = unit
  BY <1>0, <1>2, UnitStepClient DEF NoClient, RecordsInv
<1>3. \A i \in Index : \E a \in Nat : LastAttempt(i, a)'
  BY <1>1 DEF RecordsInv
<1>4. QED
  BY <1>0, <1>2, <1>3 DEF RecordsInv

LEMMA RecordsContainer ==
    ASSUME TypeOK, ClientsInv, RecordsInv, NEW n \in Names, AtContainer(n)
    PROVE  RecordsInv'
PROOF
<1>0. late \subseteq late'
  BY LateGrows DEF Next, AtContainer
<1>1. UNCHANGED <<unit, attempt, done, Index, Names>>
  BY ContainerKeeps DEF Index, Names
<1>2. pc' = pc \/ (pc = "measuring" /\ pc' = "archive")
  BY ContainerKeeps DEF Mine
<1>3. Under' = Under
  BY <1>2 DEF Under
<1>4. \A i \in Index : out[i] \subseteq out'[i]
  <2>1. CASE WriteRecord(n)
    BY <2>1 DEF WriteRecord, TypeOK
  <2>2. CASE ~ WriteRecord(n)
    BY <2>2
       DEF AtContainer, ClientExits, OpenOutput, ServerDies, unitState,
           unitState0
  <2>3. QED
    BY <2>1, <2>2
<1>5. ASSUME NEW i \in Index, NEW a \in Nat, LastAttempt(i, a)
      PROVE  LastAttempt(i, a)'
  <2>1. out'[i] \subseteq {a} \cup late
    <3>1. CASE WriteRecord(n)
      <4>1. client[n].file = "open" /\ out' = [out EXCEPT ![client[n].unit] = @ \cup {client[n].of}]
        BY <3>1 DEF WriteRecord
      <4>2. client[n].unit = i => client[n].of \in {a} \cup late
        BY <1>5, <4>1 DEF LastAttempt
      <4>3. QED
        BY <1>5, <4>1, <4>2 DEF LastAttempt, TypeOK
    <3>2. CASE ~ WriteRecord(n)
      BY <1>5, <3>2
         DEF AtContainer, ClientExits, OpenOutput, ServerDies, unitState,
             unitState0, LastAttempt
    <3>3. QED
      BY <3>1, <3>2
  <2>2. ASSUME NEW m \in Names, client'[m].unit = i, client'[m].file = "open"
        PROVE  client'[m].of \in {a} \cup late'
    <3>1. CASE client'[m] = client[m]
      BY <1>0, <1>5, <2>2, <3>1 DEF LastAttempt
    <3>2. CASE client'[m] # client[m]
      <4>1. m = n /\ OpenOutput(n) /\ client'[n].of = client[n].of /\ client'[n].unit = client[n].unit
        BY <2>2, <3>2, ContainerClient DEF NoClient
      <4>2. CASE Mine(n)
        <5>1. Under /\ client[n].of = attempt
          BY <4>2 DEF Mine, Under
        <5>2. client[n].unit = unit
          BY <5>1 DEF RecordsInv
        <5>3. a = attempt
          BY <1>5, <2>2, <4>1, <5>1, <5>2 DEF LastAttempt
        <5>4. QED
          BY <4>1, <5>1, <5>3
      <4>3. CASE ~ Mine(n)
        <5>1. client[n].of \in late'
          BY <4>1, <4>3 DEF OpenOutput
        <5>2. QED
          BY <4>1, <5>1
      <4>4. QED
        BY <4>2, <4>3
    <3>3. QED
      BY <3>1, <3>2
  <2>3. QED
    BY <1>0, <1>1, <1>3, <1>4, <1>5, <2>1, <2>2 DEF LastAttempt
<1>6. ASSUME NEW m \in Names, Under, client'[m].of = attempt
      PROVE  client'[m].unit = unit
  <2>1. client'[m].of = client[m].of /\ client'[m].unit = client[m].unit
    BY <1>6, ContainerClient DEF NoClient, RecordsInv
  <2>2. QED
    BY <1>6, <2>1 DEF RecordsInv
<1>7. ASSUME Under, rc0'
      PROVE  attempt \in out'[unit]
  <2>0. unit \in Index
    BY <1>7 DEF Under, TypeOK
  <2>1. CASE rc0
    BY <1>4, <1>7, <2>0, <2>1 DEF RecordsInv
  <2>2. CASE ~ rc0
    <3>1. ClientExits(n) /\ Mine(n)
      BY <1>7, <2>2
         DEF AtContainer, ClientExits, OpenOutput, WriteRecord, ServerDies,
             unitState, unitState0
    <3>2. client[n].of \in out[client[n].unit] /\ client[n].of = attempt
      BY <1>7, <3>1 DEF ClientExits, Mine
    <3>3. client[n].unit = unit
      BY <1>7, <3>2 DEF RecordsInv
    <3>4. QED
      BY <1>4, <2>0, <3>2, <3>3
  <2>3. QED
    BY <2>1, <2>2
<1>8. \A i \in Index : \E a \in Nat : LastAttempt(i, a)'
  BY <1>5 DEF RecordsInv
<1>9. QED
  BY <1>1, <1>3, <1>6, <1>7, <1>8 DEF RecordsInv

LEMMA RecordsStep ==
    ASSUME TypeOK, ClientsInv, RecordsInv, [Next]_vars
    PROVE  RecordsInv'
PROOF
<1>1. CASE UnitStep
  BY <1>1, RecordsUnitStep
<1>2. CASE \E n \in Names : AtContainer(n)
  BY <1>2, RecordsContainer
<1>3. CASE Begin
  <2>0. /\ attempt \in Nat /\ unit \in Index /\ done[unit] = 0 /\ ~ Under /\ Under'
        /\ attempt' = attempt + 1 /\ rc0' = FALSE /\ out' = [out EXCEPT ![unit] = {}]
        /\ UNCHANGED <<unit, done, late, Index, Names>>
    BY <1>3, UnitsLength DEF Begin, BeginUnit, Goto, Under, TypeOK, Index, Names, bounds
  <2>1. ASSUME NEW i \in Index
        PROVE  \E a \in Nat : LastAttempt(i, a)'
    <3>1. CASE i = unit
      <4>1. \A n \in Names : ~ (client'[n].unit = i /\ client'[n].file = "open")
        BY <1>3, <3>1, BeginClient
      <4>2. out'[i] = {} /\ done'[i] = 0
        BY <2>0, <3>1 DEF TypeOK
      <4>3. PICK a \in Nat : a = attempt'
        BY <2>0
      <4>4. LastAttempt(i, a)'
        BY <2>0, <4>1, <4>2, <4>3 DEF LastAttempt
      <4>5. QED
        BY <4>4
    <3>2. CASE i # unit
      <4>1. PICK a \in Nat : LastAttempt(i, a)
        BY DEF RecordsInv
      <4>2. \A n \in Names : client'[n].unit = i /\ client'[n].file = "open" => client'[n].of \in {a} \cup late
        BY <1>3, <4>1, BeginClient DEF LastAttempt
      <4>3. out'[i] = out[i] /\ done'[i] = done[i]
        BY <2>0, <3>2 DEF TypeOK
      <4>4. LastAttempt(i, a)'
        BY <2>0, <3>2, <4>1, <4>2, <4>3 DEF LastAttempt
      <4>5. QED
        BY <4>4
    <3>3. QED
      BY <3>1, <3>2
  <2>2. ASSUME NEW n \in Names
        PROVE  client'[n].of # attempt'
    <3>1. client'[n].of = client[n].of /\ client[n].of \in 0 .. attempt
      BY <1>3, BeginClient DEF TypeOK, ClientStates
    <3>2. QED
      BY <2>0, <3>1
  <2>3. QED
    BY <2>0, <2>1, <2>2 DEF RecordsInv
<1>4. CASE Leave
  <2>0. /\ Under /\ ~ Under' /\ UNCHANGED <<attempt, out, client, late, Index, Names>> /\ unit \in Index
        /\ done' = IF exc = "none" /\ rc0 THEN [done EXCEPT ![unit] = attempt] ELSE done
    BY <1>4 DEF Leave, Under, docker, TypeOK, Index, Names, bounds
  <2>1. ASSUME NEW i \in Index, NEW a \in Nat, LastAttempt(i, a)
        PROVE  LastAttempt(i, a)'
    <3>1. done'[i] # 0 => done'[i] = a /\ a \in out[i]
      <4>1. CASE i = unit /\ exc = "none" /\ rc0
        <5>1. a = attempt /\ attempt \in out[i]
          BY <2>0, <2>1, <4>1 DEF LastAttempt, RecordsInv
        <5>2. QED
          BY <2>0, <4>1, <5>1 DEF TypeOK
      <4>2. CASE ~ (i = unit /\ exc = "none" /\ rc0)
        <5>1. done'[i] = done[i]
          BY <2>0, <4>2 DEF TypeOK
        <5>2. QED
          BY <2>1, <5>1 DEF LastAttempt
      <4>3. QED
        BY <4>1, <4>2
    <3>2. QED
      BY <2>0, <2>1, <3>1 DEF LastAttempt
  <2>2. \A i \in Index : \E a \in Nat : LastAttempt(i, a)'
    BY <2>1 DEF RecordsInv
  <2>3. QED
    BY <2>0, <2>2 DEF RecordsInv
<1>5. CASE Skip \/ Resume \/ Kill
  <2>1. ~ Under' /\ UNCHANGED <<attempt, out, done, client, late, Index, Names>>
    BY <1>5
       DEF Skip, Resume, Kill, Under, docker, unitState, unitState0, Index,
           Names, bounds
  <2>2. ASSUME NEW i \in Index, NEW a \in Nat, LastAttempt(i, a)
        PROVE  LastAttempt(i, a)'
    BY <2>1, <2>2 DEF LastAttempt
  <2>3. \A i \in Index : \E a \in Nat : LastAttempt(i, a)'
    BY <2>2 DEF RecordsInv
  <2>4. QED
    BY <2>1, <2>3 DEF RecordsInv
<1>6. CASE UNCHANGED vars
  <2>1. UNCHANGED <<pc, unit, rc0, attempt, out, done, client, late, Index, Names, Under>>
    BY <1>6 DEF vars, docker, unitState, unitState0, Index, Names, Under, bounds
  <2>2. ASSUME NEW i \in Index, NEW a \in Nat, LastAttempt(i, a)
        PROVE  LastAttempt(i, a)'
    BY <2>1, <2>2 DEF LastAttempt
  <2>3. \A i \in Index : \E a \in Nat : LastAttempt(i, a)'
    BY <2>2 DEF RecordsInv
  <2>4. QED
    BY <2>1, <2>3 DEF RecordsInv
<1>7. QED
  BY <1>1, <1>2, <1>3, <1>4, <1>5, <1>6
     DEF Next, UnitStep, SetupStep, HarnessStep, TeardownStep, AtContainer

ContainersInv == TypeOK /\ AttemptsBound /\ ClientsInv /\ LeftInv /\ FreshInv /\ PairInv

-----------------------------------------------------------------------------
(* The invariants hold at the start, and of every behaviour.                  *)
LEMMA InitHolds ==
    ASSUME Init
    PROVE  ContainersInv /\ RecordsInv
PROOF
<1>0. Len(Units) \in Nat /\ MaxRuns \in Nat /\ MaxFaults \in Nat /\ ~ Under
  BY UnitsLength, OpsAssumption DEF Init, Under
<1>1. 0 \in 0 .. attempt /\ 0 \in 0 .. Len(Units)
  BY <1>0 DEF Init
<1>2. TypeOK
  <2>1. NoServer \in ServerStates /\ NoClient \in ClientStates
    BY <1>1 DEF ServerStates, ClientStates, NoServer, NoClient
  <2>2. DockerTypes /\ RecordTypes
    BY <1>0, <2>1 DEF Init, DockerTypes, RecordTypes
  <2>3. ControlTypes
    <3>1. 1 \in 1 .. MaxRuns /\ 0 \in 0 .. MaxFaults /\ 1 \in 1 .. Len(Units) + 1
      BY <1>0, OpsAssumption
    <3>2. QED
      BY <3>1 DEF Init, ControlTypes, Places
  <2>4. 0 \in 0 .. MaxRuns * Len(Units)
    <3>1. 0 * Len(Units) + Len(Units) <= MaxRuns * Len(Units)
      BY <1>0, OpsAssumption, RunsTimesUnits
    <3>2. MaxRuns * Len(Units) \in Nat
      BY <1>0, OpsAssumption, RunsTimesUnits
    <3>3. QED
      BY <3>2
  <2>5. QED
    BY <2>2, <2>3, <2>4, TypesAre DEF Init
<1>3. AttemptsBound
  BY <1>0 DEF Init, AttemptsBound
<1>4. ClientsInv /\ LeftInv
  BY <1>0 DEF Init, ClientsInv, LeftInv, Clean, NoClient
<1>5. FreshInv /\ PairInv
  BY DEF Init, FreshInv, FreshData, PairInv, Harness
<1>6. ASSUME NEW i \in Index
      PROVE  LastAttempt(i, 0)
  BY <1>0, <1>6 DEF Init, LastAttempt, NoClient
<1>7. RecordsInv
  BY <1>0, <1>6 DEF RecordsInv
<1>8. QED
  BY <1>2, <1>3, <1>4, <1>5, <1>7 DEF ContainersInv

LEMMA ContainersStep ==
    ASSUME ContainersInv, [Next]_vars
    PROVE  ContainersInv'
PROOF
<1>1. /\ TypeOK /\ AttemptsBound /\ ClientsInv /\ LeftInv /\ FreshInv /\ PairInv
  BY DEF ContainersInv
<1>2. ControlTypes' /\ DockerTypes' /\ RecordTypes'
  BY <1>1, ControlStep, DockerStep, RecordTypesStep
<1>3. unit' \in 1 .. Len(Units) + 1
  BY <1>2 DEF ControlTypes
<1>4. AttemptsBound' /\ attempt' \in 0 .. MaxRuns * Len(Units)
  BY <1>1, <1>3, AttemptsStep
<1>5. TypeOK'
  BY <1>1, <1>2, <1>4, LateGrows DEF TypeOK, ControlTypes, DockerTypes, RecordTypes, Places
<1>6. ClientsInv' /\ LeftInv' /\ FreshInv' /\ PairInv'
  BY <1>1, ClientsStep, LeftStep, FreshStep, PairStep
<1>7. QED
  BY <1>4, <1>5, <1>6 DEF ContainersInv

LEMMA ContainersHold == Spec => []ContainersInv
PROOF
<1>1. Init => ContainersInv
  BY InitHolds
<1>2. ContainersInv /\ [Next]_vars => ContainersInv'
  BY ContainersStep
<1>3. QED
  BY <1>1, <1>2, PTL DEF Spec

(* Every variable keeps its type, through every failure and restart; there    *)
(* are never more attempts than invocations allow.                            *)
THEOREM OpsTypeCorrect == Spec => []TypeOK
PROOF
<1>1. ContainersInv => TypeOK
  BY DEF ContainersInv
<1>2. QED
  BY <1>1, ContainersHold, PTL

(* Between units docker holds nothing of a name whose last teardown was       *)
(* whole: OpsRun.teardown undoes all that setup and run_harness made, from    *)
(* wherever the unit was left (ops_pass.py).                                  *)
THEOREM OpsNothingLeft == Spec => []NothingLeft
PROOF
<1>1. ContainersInv => NothingLeft
  BY DEF ContainersInv, LeftInv, NothingLeft, Under
<1>2. QED
  BY <1>1, ContainersHold, PTL

(* A unit measures the server its own attempt started, with its own client,   *)
(* on a directory nobody used since the last whole teardown.                  *)
THEOREM OpsOwnFreshPair == Spec => []OwnFreshPair
PROOF
<1>1. ContainersInv => OwnFreshPair
  BY DEF ContainersInv, PairInv, FreshInv, OwnFreshPair, OwnPair, Harness
<1>2. QED
  BY <1>1, ContainersHold, PTL

(* The records beside a checkpoint are those of the one attempt that set it,  *)
(* and of no other but one whose client opened the file after its harness was *)
(* left (cli._run_unit removes the file of an earlier attempt first).         *)
THEOREM OpsRecordsAreOneAttempt == Spec => []RecordsAreOneAttempt
PROOF
<1>1. Init => RecordsInv
  BY InitHolds
<1>2. ContainersInv /\ RecordsInv /\ [Next]_vars => RecordsInv'
  BY RecordsStep DEF ContainersInv
<1>3. ContainersInv /\ RecordsInv => RecordsAreOneAttempt
  BY DEF RecordsInv, LastAttempt, RecordsAreOneAttempt
<1>4. QED
  BY <1>1, <1>2, <1>3, ContainersHold, PTL DEF Spec


-----------------------------------------------------------------------------
(* The inductive invariant of a run directory.                                *)
IsList(s) == s \in Seq({s[i] : i \in DOMAIN s})
ManifestKeys == {"run", "status", "host", "engines", "phases", "config",
                 "resolved", "selection", "choices", "warnings"}
ProcKeys == {"pc", "m", "done", "pairs", "entries", "refused", "units", "failed",
             "unit"}

(* A manifest on which every logged engine has a resolution under its pass.   *)
IsEntry(e) ==
    /\ e = [engine |-> e.engine, pass |-> e.pass, at |-> e.at,
            memory |-> e.memory, signature |-> e.signature]
    /\ e # None
Recorded(m, pass, engine) == ResolutionOf(m, engine, pass) # None
HasEntries(m) ==
    /\ IsList(m.resolved)
    /\ \A i \in DOMAIN m.resolved : IsEntry(m.resolved[i])
LogIsRecorded(m) ==
    /\ IsList(m.phases)
    /\ \A i \in DOMAIN m.phases : Recorded(m, m.phases[i].pass, m.phases[i].engine)
GoodManifest(m) ==
    /\ DOMAIN m = ManifestKeys /\ m.run = Run
    /\ HasEntries(m) /\ LogIsRecorded(m)

(* What a pair and a unit that are still to come may rely on.                 *)
Within(inv, m, pass, engine) ==
    ResolutionOf(m, engine, pass).memory = Resolved(inv, pass).memory
Settled(inv, m, ended, pair) ==
    /\ Recorded(m, pair[1], pair[2])
    /\ \/ Within(inv, m, pair[1], pair[2])
       \/ ~ Pending(pair[1], pair[2], inv.datasets, inv.phases, ended)
FitUnit(inv, m, ended, u) ==
    /\ u = <<u[1], u[2], u[3], u[4]>>
    /\ Recorded(m, u[1], u[2])
    /\ u \in ended \/ Within(inv, m, u[1], u[2])
PairOf(inv, pair) ==
    \E pass \in ToSet(inv.passes), engine \in ToSet(inv.engines) : pair = <<pass, engine>>

Unitly == {"units", "ann", "checkpoint", "ops", "harness"}
Looping == {"pair", "engine"} \cup Unitly
Measuring == {"ann", "ops", "harness"}

Shape ==
    /\ plan \in DOMAIN Plans /\ turn \in 0 .. Len(Plans[plan])
    /\ DOMAIN disk = {"manifest", "checkpoints", "ops"}
    /\ proc.pc # "idle" => turn # 0 /\ DOMAIN proc = ProcKeys
    /\ proc.pc \in {"idle", "preflight", "resolve"} \cup Looping
LogInv ==
    /\ disk.manifest.run = Run => GoodManifest(disk.manifest)
    /\ disk.manifest.run # Run => attempts = {} /\ built = {}
    /\ proc.pc # "idle" =>
          /\ disk.manifest.run = Run /\ GoodManifest(proc.m)
          /\ proc.m.resolved = disk.manifest.resolved
ToResolve(pair) ==
    \E j \in DOMAIN proc.entries :
        proc.entries[j] = Resolution(Inv, pair[1], pair[2])
ResolveInv ==
    /\ proc.pc = "preflight" => proc.pairs = PairsOf(Inv)
    /\ proc.pc = "resolve" =>
          /\ IsList(proc.pairs) /\ IsList(proc.entries)
          /\ \A i \in DOMAIN proc.entries : \E pair :
                /\ PairOf(Inv, pair)
                /\ proc.entries[i] = Resolution(Inv, pair[1], pair[2])
          /\ \A i \in DOMAIN proc.pairs :
                /\ PairOf(Inv, proc.pairs[i])
                /\ \/ ToResolve(proc.pairs[i]) \/ proc.refused
                   \/ Settled(Inv, proc.m, proc.done, proc.pairs[i])
LoopInv ==
    /\ proc.pc \in Looping =>
          /\ IsList(proc.pairs)
          /\ \A i \in DOMAIN proc.pairs :
                Settled(Inv, proc.m, proc.done, proc.pairs[i])
    /\ proc.pc = "engine" => proc.pairs # << >>
    /\ proc.pc \in Unitly =>
          /\ IsList(proc.units)
          /\ \A i \in DOMAIN proc.units :
                FitUnit(Inv, proc.m, proc.done, proc.units[i])
    /\ proc.pc \in Unitly \ {"units"} => proc.units # << >>
    /\ proc.pc \in Measuring => Unit \notin proc.done
RunInv == Shape /\ LogInv /\ ResolveInv /\ LoopInv

LEMMA Quotient ==
    ASSUME NEW a \in Nat, NEW n \in Nat, NEW i \in 1 .. a * n
    PROVE  /\ 1 + ((i - 1) \div n) \in 1 .. a
           /\ 1 + ((i - 1) % n) \in 1 .. n
PROOF
<1>1. n # 0 /\ n \in Nat \ {0}
  <2>1. n = 0 => a * n = 0
    OBVIOUS
  <2>2. QED
    BY <2>1
<1>2. a * n \in Nat /\ i \in Nat /\ i >= 1 /\ i <= a * n
  OBVIOUS
<1> DEFINE q == (i - 1) \div n
           r == (i - 1) % n
<1>3. q \in Int /\ r \in 0 .. n - 1 /\ i - 1 = n * q + r
  BY <1>1, <1>2
<1>4. q >= 0
  BY <1>1, <1>2
<1> HIDE DEF q, r
<1>5. q < a
  <2>1. CASE q >= a
    <3>1. PICK d \in Nat : q = a + d
      <4>1. q - a \in Nat /\ q = a + (q - a)
        BY <1>3, <2>1
      <4>2. QED
        BY <4>1
    <3>2. n * q = n * a + n * d /\ n * d >= 0 /\ n * a = a * n
      BY <1>1, <3>1
    <3>3. n * a \in Int /\ n * d \in Int /\ n * q \in Int
      BY <1>1, <1>3, <3>1
    <3>4. QED
      BY <1>2, <1>3, <3>2, <3>3
  <2>2. QED
    BY <1>3, <2>1
<1>6. q \in 0 .. a - 1
  BY <1>3, <1>4, <1>5
<1>7. QED
  BY <1>3, <1>6 DEF q, r

LEMMA NestedIsList ==
    ASSUME NEW outer, NEW inner, Listed(outer), Listed(inner)
    PROVE  /\ IsList(Nested(outer, inner))
           /\ \A i \in DOMAIN Nested(outer, inner) :
                 \E x \in ToSet(outer), y \in ToSet(inner) :
                    Nested(outer, inner)[i] = <<x, y>>
PROOF
<1> DEFINE N == Nested(outer, inner)
<1>1. /\ Len(outer) \in Nat /\ DOMAIN outer = 1 .. Len(outer)
      /\ Len(inner) \in Nat /\ DOMAIN inner = 1 .. Len(inner)
  BY DEF Listed
<1>2. Len(outer) * Len(inner) \in Nat
  BY <1>1
<1>3. DOMAIN N = 1 .. (Len(outer) * Len(inner))
  BY DEF Nested
<1>4. IsList(N)
  <2> DEFINE S == {N[i] : i \in DOMAIN N}
  <2>1. N \in [1 .. (Len(outer) * Len(inner)) -> S]
    <3>1. \A i \in DOMAIN N : N[i] \in S
      OBVIOUS
    <3>2. N = [i \in 1 .. (Len(outer) * Len(inner)) |-> N[i]]
      BY <1>3 DEF Nested
    <3> HIDE DEF N, S
    <3>3. QED
      BY <3>1, <3>2, <1>3
  <2> HIDE DEF N
  <2>2. N \in Seq(S)
    BY <1>2, <2>1
  <2>3. QED
    BY <2>2 DEF IsList
<1>5. ASSUME NEW i \in DOMAIN N
      PROVE  \E x \in ToSet(outer), y \in ToSet(inner) : N[i] = <<x, y>>
  <2> DEFINE x == outer[1 + ((i - 1) \div Len(inner))]
             y == inner[1 + ((i - 1) % Len(inner))]
  <2>1. N[i] = <<x, y>>
    BY <1>3 DEF Nested
  <2>2. /\ 1 + ((i - 1) \div Len(inner)) \in DOMAIN outer
        /\ 1 + ((i - 1) % Len(inner)) \in DOMAIN inner
    BY <1>1, <1>3, Quotient
  <2>3. x \in ToSet(outer) /\ y \in ToSet(inner)
    BY <2>2 DEF ToSet
  <2>4. QED
    BY <2>1, <2>3
<1>6. QED
  BY <1>4, <1>5


LEMMA FunctionIsList ==
    ASSUME NEW n \in Nat, NEW T, NEW f \in [1 .. n -> T]
    PROVE  IsList(f)
PROOF
<1> DEFINE S == {f[i] : i \in DOMAIN f}
<1>1. DOMAIN f = 1 .. n
  OBVIOUS
<1>2. \A i \in 1 .. n : f[i] \in S
  BY <1>1
<1> HIDE DEF S
<1>3. f \in [1 .. n -> S]
  BY <1>2
<1>4. f \in Seq(S)
  BY <1>3
<1>5. QED
  BY <1>4 DEF IsList, S

LEMMA SequenceIsList ==
    ASSUME NEW S, NEW s \in Seq(S)
    PROVE  IsList(s)
PROOF
<1>1. s \in [1 .. Len(s) -> S] /\ Len(s) \in Nat
  OBVIOUS
<1>2. QED
  BY <1>1, FunctionIsList

LEMMA ListParts ==
    ASSUME NEW s, IsList(s), s # << >>
    PROVE  /\ 1 \in DOMAIN s /\ Head(s) = s[1]
           /\ IsList(Tail(s))
           /\ \A i \in DOMAIN Tail(s) : i + 1 \in DOMAIN s /\ Tail(s)[i] = s[i + 1]
           /\ \A i \in DOMAIN s : i = 1 \/ (i - 1 \in DOMAIN Tail(s)
                                          /\ Tail(s)[i - 1] = s[i])
PROOF
<1> DEFINE S == {s[i] : i \in DOMAIN s}
<1>1. s \in Seq(S)
  BY DEF IsList
<1> HIDE DEF S
<1>2. Len(s) \in Nat /\ DOMAIN s = 1 .. Len(s) /\ Len(s) # 0
  BY <1>1
<1>3. /\ Tail(s) \in Seq(S) /\ Len(Tail(s)) = Len(s) - 1
      /\ DOMAIN Tail(s) = 1 .. Len(s) - 1
      /\ \A i \in 1 .. Len(s) - 1 : Tail(s)[i] = s[i + 1]
  BY <1>1, <1>2
<1>5. IsList(Tail(s))
  BY <1>3, SequenceIsList
<1>6. Head(s) = s[1]
  BY <1>1, <1>2
<1>7. QED
  BY <1>2, <1>3, <1>5, <1>6

LEMMA ListAppend ==
    ASSUME NEW s, IsList(s), NEW x
    PROVE  /\ IsList(Append(s, x)) /\ Len(s) \in Nat /\ DOMAIN s = 1 .. Len(s)
           /\ DOMAIN Append(s, x) = 1 .. Len(s) + 1
           /\ \A i \in DOMAIN s : Append(s, x)[i] = s[i]
           /\ Append(s, x)[Len(s) + 1] = x
PROOF
<1> DEFINE S == {s[i] : i \in DOMAIN s}
<1>1. s \in Seq(S \cup {x})
  BY DEF IsList
<1> HIDE DEF S
<1>2. Len(s) \in Nat /\ DOMAIN s = 1 .. Len(s)
  BY <1>1
<1>3. /\ Append(s, x) \in Seq(S \cup {x})
      /\ DOMAIN Append(s, x) = 1 .. Len(s) + 1
      /\ \A i \in DOMAIN s : Append(s, x)[i] = s[i]
      /\ Append(s, x)[Len(s) + 1] = x
  BY <1>1, <1>2
<1>5. QED
  BY <1>2, <1>3, SequenceIsList

(* The resolution of a pair is the first on record for it.                    *)
FirstEntry(m, engine, pass, k) ==
    /\ k \in DOMAIN m.resolved
    /\ m.resolved[k].engine = engine /\ m.resolved[k].pass = pass
    /\ \A i \in DOMAIN m.resolved :
          m.resolved[i].engine = engine /\ m.resolved[i].pass = pass => k <= i
LEMMA RecordedIsFirst ==
    ASSUME NEW m, HasEntries(m), NEW engine, NEW pass
    PROVE  IF \E i \in DOMAIN m.resolved : m.resolved[i].engine = engine
                                           /\ m.resolved[i].pass = pass
           THEN \E k : /\ FirstEntry(m, engine, pass, k)
                       /\ ResolutionOf(m, engine, pass) = m.resolved[k]
                       /\ Recorded(m, pass, engine)
           ELSE ResolutionOf(m, engine, pass) = None
PROOF
<1> DEFINE F == {i \in DOMAIN m.resolved : /\ m.resolved[i].engine = engine
                                          /\ m.resolved[i].pass = pass}
<1>1. Len(m.resolved) \in Nat /\ DOMAIN m.resolved = 1 .. Len(m.resolved)
  BY DEF HasEntries, IsList
<1>2. CASE F = {}
  BY <1>2 DEF ResolutionOf
<1>3. CASE F # {}
  <2>1. F \subseteq Nat
    BY <1>1
  <2> DEFINE k == CHOOSE i \in F : \A j \in F : i <= j
  <2>2. k \in F /\ \A j \in F : k <= j
    <3> HIDE DEF F
    <3>1. QED
      BY <1>3, <2>1, LeastNatural
  <2>3. ResolutionOf(m, engine, pass) = m.resolved[k]
    BY <1>3 DEF ResolutionOf
  <2>4. FirstEntry(m, engine, pass, k)
    BY <2>2 DEF FirstEntry
  <2>5. m.resolved[k] # None
    BY <2>2 DEF HasEntries, IsEntry
  <2>6. QED
    BY <2>3, <2>4, <2>5 DEF Recorded, FirstEntry
<1>4. QED
  BY <1>2, <1>3

LEMMA OneFirst ==
    ASSUME NEW m, HasEntries(m), NEW engine, NEW pass, NEW k, NEW l,
           FirstEntry(m, engine, pass, k), FirstEntry(m, engine, pass, l)
    PROVE  k = l
PROOF
<1>1. Len(m.resolved) \in Nat /\ DOMAIN m.resolved = 1 .. Len(m.resolved)
  BY DEF HasEntries, IsList
<1>2. k \in Nat /\ l \in Nat /\ k <= l /\ l <= k
  BY <1>1 DEF FirstEntry
<1>3. QED
  BY <1>2

LEMMA SameLog ==
    ASSUME NEW m, NEW n, n.resolved = m.resolved
    PROVE  /\ \A e, p : ResolutionOf(n, e, p) = ResolutionOf(m, e, p)
           /\ \A p, e : Recorded(n, p, e) = Recorded(m, p, e)
           /\ GoodManifest(m) /\ DOMAIN n = DOMAIN m /\ n.run = m.run
              /\ n.phases = m.phases => GoodManifest(n)
PROOF
<1>1. \A e, p : ResolutionOf(n, e, p) = ResolutionOf(m, e, p)
  BY DEF ResolutionOf
<1>2. \A p, e : Recorded(n, p, e) = Recorded(m, p, e)
  BY <1>1 DEF Recorded
<1>3. QED
  BY <1>1, <1>2 DEF GoodManifest, HasEntries, LogIsRecorded

(* A recording adds the resolution of a pair that has none, and no other.     *)
LEMMA RecordingKeeps ==
    ASSUME NEW m, GoodManifest(m), NEW x, IsEntry(x)
    PROVE  LET n == RecordEngineResolution(m, x)
           IN /\ GoodManifest(n)
              /\ \A e, p : Recorded(m, p, e) => ResolutionOf(n, e, p) = ResolutionOf(m, e, p)
              /\ Recorded(n, x.pass, x.engine)
              /\ ResolutionOutcome(m, x) # "changed" =>
                    ResolutionOf(n, x.engine, x.pass).memory = x.memory
PROOF
<1> DEFINE n == RecordEngineResolution(m, x)
           k == Len(m.resolved) + 1
<1>1. HasEntries(m) /\ LogIsRecorded(m) /\ DOMAIN m = ManifestKeys /\ m.run = Run
  BY DEF GoodManifest
<1>2. CASE Recorded(m, x.pass, x.engine)
  <2>1. ResolutionOutcome(m, x) \in {"unchanged", "changed"} /\ n = m
    BY <1>2 DEF ResolutionOutcome, RecordEngineResolution, Recorded
  <2>2. ASSUME ResolutionOutcome(m, x) # "changed"
        PROVE  ResolutionOf(m, x.engine, x.pass).memory = x.memory
    <3> DEFINE r == ResolutionOf(m, x.engine, x.pass)
    <3>1. Untimed(r) = Untimed(x)
      BY <1>2, <2>2 DEF ResolutionOutcome, Recorded
    <3>2. PICK i : i \in DOMAIN m.resolved /\ r = m.resolved[i]
      BY <1>1, <1>2, RecordedIsFirst DEF FirstEntry, Recorded
    <3>3. IsEntry(r)
      BY <1>1, <3>2 DEF HasEntries
    <3> HIDE DEF r
    <3>4. Untimed(r).memory = r.memory /\ Untimed(x).memory = x.memory
      BY <3>3 DEF IsEntry, Untimed
    <3>5. QED
      BY <3>1, <3>4 DEF r
  <2>3. QED
    BY <1>2, <2>1, <2>2
<1>3. CASE ~ Recorded(m, x.pass, x.engine)
  <2>1. ~ HasUnitOf(m, x.engine, x.pass)
    BY <1>1, <1>3 DEF HasUnitOf, LogIsRecorded
  <2>2. n = [m EXCEPT !.resolved = Append(@, x)]
    BY <1>3, <2>1 DEF ResolutionOutcome, RecordEngineResolution, Recorded
  <2>3. /\ n.resolved = Append(m.resolved, x) /\ DOMAIN n = ManifestKeys
        /\ n.run = Run /\ n.phases = m.phases
    BY <1>1, <2>2 DEF ManifestKeys
  <2> HIDE DEF n
  <2>4. /\ IsList(n.resolved) /\ Len(m.resolved) \in Nat
        /\ DOMAIN m.resolved = 1 .. Len(m.resolved)
        /\ DOMAIN n.resolved = 1 .. k /\ n.resolved[k] = x
        /\ \A i \in DOMAIN m.resolved : n.resolved[i] = m.resolved[i]
    BY <1>1, <2>3, ListAppend DEF HasEntries
  <2>5. HasEntries(n)
    <3>1. ASSUME NEW i \in DOMAIN n.resolved PROVE IsEntry(n.resolved[i])
      <4>1. i = k \/ i \in DOMAIN m.resolved
        BY <2>4
      <4>2. QED
        BY <1>1, <2>4, <4>1 DEF HasEntries
    <3>2. QED
      BY <2>4, <3>1 DEF HasEntries
  <2>6. ASSUME NEW e, NEW p, Recorded(m, p, e)
        PROVE  ResolutionOf(n, e, p) = ResolutionOf(m, e, p)
    <3>1. PICK i : FirstEntry(m, e, p, i) /\ ResolutionOf(m, e, p) = m.resolved[i]
      BY <1>1, <2>6, RecordedIsFirst DEF Recorded
    <3>2. FirstEntry(n, e, p, i)
      BY <2>4, <3>1 DEF FirstEntry
    <3>3. PICK j : FirstEntry(n, e, p, j) /\ ResolutionOf(n, e, p) = n.resolved[j]
      BY <2>5, <3>2, RecordedIsFirst DEF FirstEntry
    <3>4. i = j
      BY <2>5, <3>2, <3>3, OneFirst
    <3>5. QED
      BY <2>4, <3>1, <3>3, <3>4 DEF FirstEntry
  <2>7. ResolutionOf(n, x.engine, x.pass) = x /\ Recorded(n, x.pass, x.engine)
    <3>1. \A i \in DOMAIN m.resolved :
             ~ (m.resolved[i].engine = x.engine /\ m.resolved[i].pass = x.pass)
      BY <1>1, <1>3, RecordedIsFirst DEF Recorded
    <3>2. FirstEntry(n, x.engine, x.pass, k)
      <4>1. \A i \in DOMAIN n.resolved : i = k \/ i \in DOMAIN m.resolved
        BY <2>4
      <4>2. k \in DOMAIN n.resolved /\ k <= k
        BY <2>4
      <4>3. QED
        BY <2>4, <3>1, <4>1, <4>2 DEF FirstEntry
    <3>3. PICK j : FirstEntry(n, x.engine, x.pass, j)
                   /\ ResolutionOf(n, x.engine, x.pass) = n.resolved[j]
                   /\ Recorded(n, x.pass, x.engine)
      BY <2>5, <3>2, RecordedIsFirst DEF FirstEntry
    <3>4. j = k
      BY <2>5, <3>2, <3>3, OneFirst
    <3>5. QED
      BY <2>4, <3>3, <3>4
  <2>8. LogIsRecorded(n)
    BY <1>1, <2>3, <2>6 DEF LogIsRecorded, Recorded
  <2>9. QED
    BY <2>3, <2>5, <2>6, <2>7, <2>8 DEF GoodManifest, n
<1>4. QED
  BY <1>2, <1>3

LEMMA AddPhaseKeeps ==
    ASSUME NEW m, GoodManifest(m), NEW phase, NEW engine, NEW dataset, NEW pass,
           NEW status, NEW files, Recorded(m, pass, engine)
    PROVE  LET n == AddPhase(m, phase, engine, dataset, pass, status, files)
           IN GoodManifest(n) /\ n.resolved = m.resolved
PROOF
<1> DEFINE n == AddPhase(m, phase, engine, dataset, pass, status, files)
<1>1. \E x : /\ n = [m EXCEPT !.phases = Append(@, x)]
              /\ x.engine = engine /\ x.pass = pass
  <2> DEFINE a == 1 + Len(SelectSeq(m.phases,
                       LAMBDA p : SameUnit(p, phase, engine, dataset, pass)))
             y == [phase |-> phase, engine |-> engine, dataset |-> dataset,
                   pass |-> pass, status |-> status, files |-> files, attempt |-> a]
  <2>1. n = [m EXCEPT !.phases = Append(@, y)]
    BY DEF AddPhase
  <2> HIDE DEF n, a
  <2>2. y.engine = engine /\ y.pass = pass
    OBVIOUS
  <2> HIDE DEF y
  <2>3. QED
    BY <2>1, <2>2
<1>x. PICK x : /\ n = [m EXCEPT !.phases = Append(@, x)]
               /\ x.engine = engine /\ x.pass = pass
  BY <1>1
<1>2. DOMAIN m = ManifestKeys /\ m.run = Run /\ HasEntries(m) /\ LogIsRecorded(m)
  BY DEF GoodManifest
<1>3. /\ n.resolved = m.resolved /\ n.run = m.run /\ DOMAIN n = ManifestKeys
      /\ n.phases = Append(m.phases, x)
  BY <1>x, <1>2 DEF ManifestKeys
<1> HIDE DEF n
<1>4. \A p, e : Recorded(n, p, e) = Recorded(m, p, e)
  BY <1>3, SameLog
<1>5. LogIsRecorded(n)
  <2>1. /\ IsList(n.phases) /\ DOMAIN m.phases = 1 .. Len(m.phases)
        /\ DOMAIN n.phases = 1 .. Len(m.phases) + 1 /\ Len(m.phases) \in Nat
        /\ n.phases[Len(m.phases) + 1] = x
        /\ \A i \in DOMAIN m.phases : n.phases[i] = m.phases[i]
    BY <1>2, <1>3, ListAppend DEF LogIsRecorded
  <2>2. \A i \in DOMAIN n.phases : i = Len(m.phases) + 1 \/ i \in DOMAIN m.phases
    BY <2>1
  <2>3. ASSUME NEW i \in DOMAIN n.phases
        PROVE  Recorded(n, n.phases[i].pass, n.phases[i].engine)
    <3>1. CASE i = Len(m.phases) + 1
      BY <1>4, <1>x, <2>1, <3>1
    <3>2. CASE i \in DOMAIN m.phases
      BY <1>2, <1>4, <2>1, <3>2 DEF LogIsRecorded
    <3>3. QED
      BY <2>2, <3>1, <3>2
  <2>4. QED
    BY <2>1, <2>3 DEF LogIsRecorded
<1>6. HasEntries(n)
  BY <1>2, <1>3 DEF HasEntries
<1>7. QED
  BY <1>2, <1>3, <1>5, <1>6 DEF GoodManifest, n

LEMMA ChoiceKeepsLog ==
    ASSUME NEW m, GoodManifest(m), NEW engine, NEW dataset, NEW pass, NEW profile,
           NEW answers, NEW measured
    PROVE  LET n == EnsureSelection(m, engine, dataset, pass, profile, answers,
                                    measured).manifest
           IN GoodManifest(n) /\ n.resolved = m.resolved
PROOF
<1>1. ASSUME NEW n, DOMAIN n = ManifestKeys, NEW s
      PROVE  /\ RecordChoice(n, s).resolved = n.resolved
             /\ RecordChoice(n, s).phases = n.phases
             /\ RecordChoice(n, s).run = n.run
             /\ DOMAIN RecordChoice(n, s) = DOMAIN n
  BY <1>1 DEF RecordChoice, ManifestKeys
<1>2. ASSUME NEW text
      PROVE  LET n == AddWarning(m, text)
             IN /\ DOMAIN n = ManifestKeys /\ n.resolved = m.resolved
                /\ n.phases = m.phases /\ n.run = m.run
  BY DEF AddWarning, GoodManifest, ManifestKeys
<1> DEFINE R == EnsureSelection(m, engine, dataset, pass, profile, answers, measured)
<1>3. \/ R.manifest = m
      \/ \E s : R.manifest = RecordChoice(m, s)
      \/ \E s, text : R.manifest = RecordChoice(AddWarning(m, text), s)
  BY DEF EnsureSelection
<1>4. DOMAIN m = ManifestKeys
  BY DEF GoodManifest
<1> HIDE DEF R
<1>5. /\ R.manifest.resolved = m.resolved /\ R.manifest.phases = m.phases
      /\ R.manifest.run = m.run /\ DOMAIN R.manifest = DOMAIN m
  BY <1>1, <1>2, <1>3, <1>4
<1>6. QED
  BY <1>5, SameLog DEF R

-----------------------------------------------------------------------------
(* Steps inside the loop over the pairs: the resolutions stay as they are.    *)
LEMMA LoopStep ==
    ASSUME RunInv, proc.pc \in Looping, plan' = plan, turn' = turn,
           DOMAIN disk' = DOMAIN disk,
           DOMAIN proc' = ProcKeys, proc'.pc \in Looping,
           GoodManifest(proc'.m), proc'.m.resolved = proc.m.resolved,
           disk'.manifest = disk.manifest \/ disk'.manifest = proc'.m,
           proc.done \subseteq proc'.done,
           \/ proc'.pairs = proc.pairs
           \/ proc.pairs # << >> /\ proc'.pairs = Tail(proc.pairs),
           proc'.pc = "engine" => proc'.pairs # << >>,
           proc'.pc \in Unitly =>
               /\ IsList(proc'.units)
               /\ \A i \in DOMAIN proc'.units :
                     FitUnit(Inv, proc.m, proc.done, proc'.units[i]),
           proc'.pc \in Unitly \ {"units"} => proc'.units # << >>,
           proc'.pc \in Measuring => Head(proc'.units) \notin proc'.done
    PROVE  RunInv' /\ disk'.manifest.resolved = disk.manifest.resolved
PROOF
<1>0. /\ Shape /\ LogInv /\ LoopInv /\ proc.pc # "idle"
      /\ proc'.pc \notin {"idle", "preflight", "resolve"}
  BY DEF RunInv, Looping, Unitly
<1>1. Inv' = Inv
  BY DEF Inv
<1>2. /\ \A p, e : Recorded(proc'.m, p, e) = Recorded(proc.m, p, e)
      /\ \A e, p : ResolutionOf(proc'.m, e, p) = ResolutionOf(proc.m, e, p)
  BY SameLog
<1>3. \A inv, u : FitUnit(inv, proc.m, proc.done, u)
                  => FitUnit(inv, proc'.m, proc'.done, u)
  BY <1>2 DEF FitUnit, Within
<1>4. \A inv, p : Settled(inv, proc.m, proc.done, p)
                  => Settled(inv, proc'.m, proc'.done, p)
  BY <1>2 DEF Settled, Within, Pending
<1>5. Shape'
  BY <1>0 DEF Shape
<1>6. LogInv' /\ disk'.manifest.resolved = disk.manifest.resolved
  <2>1. /\ disk.manifest.run = Run /\ GoodManifest(proc.m)
        /\ proc.m.resolved = disk.manifest.resolved /\ GoodManifest(disk.manifest)
    BY <1>0 DEF LogInv
  <2>2. CASE disk'.manifest = disk.manifest
    BY <2>1, <2>2 DEF LogInv
  <2>3. CASE disk'.manifest = proc'.m
    BY <2>1, <2>3 DEF LogInv, GoodManifest
  <2>4. QED
    BY <2>2, <2>3
<1>7. ResolveInv'
  BY <1>0 DEF ResolveInv
<1>8. LoopInv'
  <2>1. IsList(proc.pairs) /\ \A i \in DOMAIN proc.pairs :
                                 Settled(Inv, proc.m, proc.done, proc.pairs[i])
    BY <1>0 DEF LoopInv
  <2>2. IsList(proc'.pairs) /\ \A i \in DOMAIN proc'.pairs :
                                  Settled(Inv, proc.m, proc.done, proc'.pairs[i])
    <3>1. CASE proc'.pairs = proc.pairs
      BY <2>1, <3>1
    <3>2. CASE proc.pairs # << >> /\ proc'.pairs = Tail(proc.pairs)
      BY <2>1, <3>2, ListParts
    <3>3. QED
      BY <3>1, <3>2
  <2>3. IsList(proc'.pairs) /\ \A i \in DOMAIN proc'.pairs :
                                  Settled(Inv', proc'.m, proc'.done, proc'.pairs[i])
    BY <1>1, <1>4, <2>2
  <2>4. proc'.pc \in Unitly =>
               /\ IsList(proc'.units)
               /\ \A i \in DOMAIN proc'.units :
                     FitUnit(Inv', proc'.m, proc'.done, proc'.units[i])
    BY <1>1, <1>3
  <2>5. QED
    BY <2>3, <2>4 DEF LoopInv, Unit
<1>9. QED
  BY <1>5, <1>6, <1>7, <1>8 DEF RunInv

LEMMA IdleStep ==
    ASSUME RunInv, proc.pc # "idle", plan' = plan, turn' = turn,
           DOMAIN disk' = DOMAIN disk, proc' = NoProcess,
           \/ disk'.manifest = disk.manifest
           \/ GoodManifest(disk'.manifest)
              /\ disk'.manifest.resolved = proc.m.resolved
    PROVE  RunInv' /\ disk'.manifest.resolved = disk.manifest.resolved
PROOF
<1>1. /\ Shape /\ disk.manifest.run = Run /\ GoodManifest(disk.manifest)
      /\ proc.m.resolved = disk.manifest.resolved
  BY DEF RunInv, LogInv
<1>2. proc'.pc = "idle"
  BY DEF NoProcess
<1>3. Shape'
  BY <1>1, <1>2 DEF Shape
<1>4. LogInv' /\ disk'.manifest.resolved = disk.manifest.resolved
  BY <1>1, <1>2 DEF LogInv, GoodManifest
<1>5. ResolveInv' /\ LoopInv'
  BY <1>2 DEF ResolveInv, LoopInv, Looping, Unitly, Measuring
<1>6. QED
  BY <1>3, <1>4, <1>5 DEF RunInv

(* What is known of the unit at hand and of those that follow.                *)
LEMMA UnitAtHand ==
    ASSUME RunInv, proc.pc \in Unitly
    PROVE  /\ proc.pc \in Looping /\ proc.pc # "idle" /\ DOMAIN proc = ProcKeys
           /\ DOMAIN disk = {"manifest", "checkpoints", "ops"}
           /\ GoodManifest(proc.m) /\ DOMAIN proc.m = ManifestKeys
           /\ disk.manifest.run = Run /\ proc.m.resolved = disk.manifest.resolved
           /\ IsList(proc.units)
           /\ \A i \in DOMAIN proc.units :
                 FitUnit(Inv, proc.m, proc.done, proc.units[i])
           /\ proc.units # << >> =>
                 /\ FitUnit(Inv, proc.m, proc.done, Unit)
                 /\ Recorded(proc.m, Unit[1], Unit[2])
                 /\ IsList(Tail(proc.units))
                 /\ \A i \in DOMAIN Tail(proc.units) :
                       FitUnit(Inv, proc.m, proc.done, Tail(proc.units)[i])
PROOF
<1>1. /\ proc.pc \in Looping /\ proc.pc # "idle"
  BY DEF Looping, Unitly
<1>2. /\ DOMAIN proc = ProcKeys /\ DOMAIN disk = {"manifest", "checkpoints", "ops"}
      /\ GoodManifest(proc.m) /\ disk.manifest.run = Run
      /\ proc.m.resolved = disk.manifest.resolved
  BY <1>1 DEF RunInv, Shape, LogInv
<1>3. /\ IsList(proc.units)
      /\ \A i \in DOMAIN proc.units :
            FitUnit(Inv, proc.m, proc.done, proc.units[i])
  BY DEF RunInv, LoopInv
<1>4. ASSUME proc.units # << >>
      PROVE  /\ FitUnit(Inv, proc.m, proc.done, Unit)
             /\ IsList(Tail(proc.units))
             /\ \A i \in DOMAIN Tail(proc.units) :
                   FitUnit(Inv, proc.m, proc.done, Tail(proc.units)[i])
  BY <1>3, <1>4, ListParts DEF Unit
<1>5. QED
  BY <1>1, <1>2, <1>3, <1>4 DEF FitUnit, GoodManifest

LEMMA LogUnitStep ==
    ASSUME RunInv, proc.pc \in {"ann", "ops", "units"}, proc.units # << >>,
           NEW status, NEW files, LogUnit(status, files), plan' = plan, turn' = turn
    PROVE  RunInv' /\ disk'.manifest.resolved = disk.manifest.resolved
PROOF
<1> DEFINE next == AddPhase(proc.m, Unit[4], Unit[2], Unit[3], Unit[1], status, files)
<1>1. proc.pc \in Unitly
  BY DEF Unitly
<1>2. GoodManifest(next) /\ next.resolved = proc.m.resolved
  BY <1>1, UnitAtHand, AddPhaseKeeps
<1> HIDE DEF next
<1>3. CASE status = "failed" /\ Inv.failFast
  <2>1. disk' = [disk EXCEPT !.manifest = FinishManifest(next, "failed")]
        /\ proc' = NoProcess
    BY <1>3 DEF LogUnit, Save, next
  <2>2. /\ disk'.manifest = FinishManifest(next, "failed")
        /\ DOMAIN disk' = DOMAIN disk
    BY <1>1, <2>1, UnitAtHand
  <2>3. /\ GoodManifest(FinishManifest(next, "failed"))
        /\ FinishManifest(next, "failed").resolved = next.resolved
    <3> DEFINE n == FinishManifest(next, "failed")
    <3>1. DOMAIN next = ManifestKeys
      BY <1>2 DEF GoodManifest
    <3>2. /\ n.resolved = next.resolved /\ n.phases = next.phases
          /\ n.run = next.run /\ DOMAIN n = DOMAIN next
      BY <3>1 DEF FinishManifest, ManifestKeys
    <3> HIDE DEF n
    <3>3. GoodManifest(n)
      BY <1>2, <3>2, SameLog
    <3>4. QED
      BY <3>2, <3>3 DEF n
  <2>4. proc.pc # "idle"
    BY <1>1, UnitAtHand
  <2>5. QED
    BY <1>2, <2>1, <2>2, <2>3, <2>4, IdleStep
<1>4. CASE ~ (status = "failed" /\ Inv.failFast)
  <2>1. /\ disk' = [disk EXCEPT !.manifest = next]
        /\ proc' = [proc EXCEPT !.m = next, !.unit = None,
                          !.failed = @ \/ status = "failed",
                          !.pc = IF status = "completed" THEN "checkpoint" ELSE "units",
                          !.units = IF status = "completed" THEN @ ELSE Tail(@)]
    BY <1>4 DEF LogUnit, Save, next
  <2>2. /\ disk'.manifest = next /\ DOMAIN disk' = DOMAIN disk
        /\ DOMAIN proc' = ProcKeys /\ proc'.m = next /\ proc'.done = proc.done
        /\ proc'.pairs = proc.pairs
        /\ proc'.pc = IF status = "completed" THEN "checkpoint" ELSE "units"
        /\ proc'.units = IF status = "completed" THEN proc.units ELSE Tail(proc.units)
    BY <1>1, <2>1, UnitAtHand DEF ProcKeys
  <2>3. /\ proc'.pc \in Unitly /\ proc'.pc \in Looping /\ proc'.pc \notin Measuring
        /\ proc'.pc # "engine" /\ (proc'.pc # "units" => proc'.units = proc.units)
    BY <2>2 DEF Unitly, Looping, Measuring
  <2>4. /\ IsList(proc'.units)
        /\ \A i \in DOMAIN proc'.units :
              FitUnit(Inv, proc.m, proc.done, proc'.units[i])
    BY <1>1, <2>2, UnitAtHand
  <2>5. proc.pc \in Looping
    BY <1>1, UnitAtHand
  <2> HIDE <1>4
  <2>6. QED
    BY <1>2, <2>2, <2>3, <2>4, <2>5, LoopStep
<1>5. QED
  BY <1>3, <1>4

-----------------------------------------------------------------------------
Calm == UNCHANGED <<plan, turn>> /\ UNCHANGED <<attempts, built>>
StepKeeps == RunInv' /\ disk'.manifest.resolved = disk.manifest.resolved

LEMMA ConfigureKeeps ==
    ASSUME RunInv, Configure
    PROVE  StepKeeps
PROOF
<1>1. /\ proc.pc = "pair" /\ proc.pairs # << >> /\ proc.pc \in Looping
      /\ UNCHANGED <<plan, turn>>
  BY DEF Configure, Looping
<1>2. /\ DOMAIN proc = ProcKeys /\ DOMAIN disk = {"manifest", "checkpoints", "ops"}
      /\ GoodManifest(proc.m) /\ DOMAIN proc.m = ManifestKeys
  BY <1>1 DEF RunInv, Shape, LogInv, GoodManifest
<1>3. PICK config : LET next == [proc.m EXCEPT !.config = config]
                    IN /\ disk' = [disk EXCEPT !.manifest = next]
                       /\ proc' = [proc EXCEPT !.m = next, !.pc = "engine"]
  BY DEF Configure, SetConfig, Save
<1> DEFINE next == [proc.m EXCEPT !.config = config]
<1>4. /\ next.resolved = proc.m.resolved /\ next.phases = proc.m.phases
      /\ next.run = proc.m.run /\ DOMAIN next = DOMAIN proc.m
  BY <1>2 DEF ManifestKeys
<1> HIDE DEF next
<1>5. GoodManifest(next)
  BY <1>2, <1>4, SameLog
<1>6. /\ disk'.manifest = next /\ DOMAIN disk' = DOMAIN disk
      /\ DOMAIN proc' = ProcKeys /\ proc'.m = next /\ proc'.done = proc.done
      /\ proc'.pairs = proc.pairs /\ proc'.pc = "engine"
  BY <1>2, <1>3 DEF ProcKeys, next
<1>7. proc'.pc \in Looping /\ proc'.pc \notin Unitly /\ proc'.pc \notin Measuring
  BY <1>6 DEF Looping, Unitly, Measuring
<1>8. QED
  BY <1>1, <1>4, <1>5, <1>6, <1>7, LoopStep DEF StepKeeps

(* A unit of a settled pair is done, or fits the resolution on record.        *)
LEMMA UnitsFit ==
    ASSUME RunInv, NEW m, NEW ended, NEW pair, Settled(Inv, m, ended, pair), turn # 0
    PROVE  /\ IsList(UnitsOf(Inv, pair))
           /\ \A i \in DOMAIN UnitsOf(Inv, pair) :
                 FitUnit(Inv, m, ended, UnitsOf(Inv, pair)[i])
PROOF
<1> DEFINE cells == Nested(Inv.datasets, Inv.phases)
           units == UnitsOf(Inv, pair)
<1>1. Listed(Inv.datasets) /\ Listed(Inv.phases)
  <2>1. /\ plan \in DOMAIN Plans /\ turn \in 1 .. Len(Plans[plan])
        /\ Listed(Plans[plan])
    BY RunDirectoryAssumption DEF RunInv, Shape
  <2>2. turn \in DOMAIN Plans[plan]
    BY <2>1 DEF Listed
  <2>3. Inv \in ToSet(Plans[plan])
    BY <2>2 DEF Inv, ToSet
  <2>4. QED
    BY <2>1, <2>3, RunDirectoryAssumption
<1>2. /\ IsList(cells)
      /\ \A i \in DOMAIN cells :
            \E x \in ToSet(Inv.datasets), y \in ToSet(Inv.phases) :
                cells[i] = <<x, y>>
  BY <1>1, NestedIsList
<1>3. units = [i \in DOMAIN cells |-> UnitKey(pair[1], pair[2], cells[i][1], cells[i][2])]
  BY DEF UnitsOf
<1> HIDE DEF cells, units
<1>4. IsList(units)
  <2>1. Len(cells) \in Nat /\ DOMAIN cells = 1 .. Len(cells)
    BY <1>2 DEF IsList
  <2>2. units \in [1 .. Len(cells) -> {units[i] : i \in DOMAIN cells}]
    BY <1>3, <2>1
  <2>3. QED
    BY <2>1, <2>2, FunctionIsList
<1>5. ASSUME NEW i \in DOMAIN units
      PROVE  FitUnit(Inv, m, ended, units[i])
  <2>1. i \in DOMAIN cells
    BY <1>3, <1>5
  <2>2. PICK x \in ToSet(Inv.datasets), y \in ToSet(Inv.phases) : cells[i] = <<x, y>>
    BY <1>2, <2>1
  <2>3. units[i] = <<pair[1], pair[2], x, y>>
    BY <1>3, <2>1, <2>2 DEF UnitKey
  <2>4. Recorded(m, pair[1], pair[2])
    BY DEF Settled
  <2>5. Within(Inv, m, pair[1], pair[2]) \/ units[i] \in ended
    BY <2>2, <2>3 DEF Settled, Pending, UnitKey
  <2>6. QED
    BY <2>3, <2>4, <2>5 DEF FitUnit
<1>6. QED
  BY <1>4, <1>5 DEF units

LEMMA PresentKeeps ==
    ASSUME RunInv, PresentEngine
    PROVE  StepKeeps
PROOF
<1>1. /\ proc.pc = "engine" /\ proc.pc \in Looping /\ UNCHANGED <<plan, turn>>
  BY DEF PresentEngine, Looping
<1>2. /\ DOMAIN proc = ProcKeys /\ DOMAIN disk = {"manifest", "checkpoints", "ops"}
      /\ GoodManifest(proc.m) /\ DOMAIN proc.m = ManifestKeys /\ turn # 0
  BY <1>1 DEF RunInv, Shape, LogInv, GoodManifest
<1> DEFINE pair == Head(proc.pairs)
<1>3. PICK engines : LET next == [proc.m EXCEPT !.engines = engines]
                     IN /\ disk' = [disk EXCEPT !.manifest = next]
                        /\ proc' = [proc EXCEPT !.m = next, !.pc = "units",
                                       !.pairs = Tail(@), !.units = UnitsOf(Inv, pair)]
  BY DEF PresentEngine, SetEngine, Save
<1> DEFINE next == [proc.m EXCEPT !.engines = engines]
<1>4. /\ next.resolved = proc.m.resolved /\ next.phases = proc.m.phases
      /\ next.run = proc.m.run /\ DOMAIN next = DOMAIN proc.m
  BY <1>2 DEF ManifestKeys
<1> HIDE DEF next
<1>5. GoodManifest(next)
  BY <1>2, <1>4, SameLog
<1>6. proc.pairs # << >> /\ Settled(Inv, proc.m, proc.done, pair)
  <2>1. /\ proc.pairs # << >> /\ IsList(proc.pairs)
        /\ \A i \in DOMAIN proc.pairs :
                Settled(Inv, proc.m, proc.done, proc.pairs[i])
    BY <1>1 DEF RunInv, LoopInv
  <2>2. QED
    BY <2>1, ListParts
<1>7. /\ IsList(UnitsOf(Inv, pair))
      /\ \A i \in DOMAIN UnitsOf(Inv, pair) :
            FitUnit(Inv, proc.m, proc.done, UnitsOf(Inv, pair)[i])
  BY <1>2, <1>6, UnitsFit
<1> HIDE DEF pair
<1>8. /\ disk'.manifest = next /\ DOMAIN disk' = DOMAIN disk
      /\ DOMAIN proc' = ProcKeys /\ proc'.m = next /\ proc'.done = proc.done
      /\ proc'.pairs = Tail(proc.pairs) /\ proc'.pc = "units"
      /\ proc'.units = UnitsOf(Inv, pair)
  BY <1>2, <1>3 DEF ProcKeys, next
<1>9. proc'.pc \in Looping /\ proc'.pc \notin Measuring
  BY <1>8 DEF Looping, Unitly, Measuring
<1>10. QED
  BY <1>1, <1>4, <1>5, <1>6, <1>7, <1>8, <1>9, LoopStep DEF StepKeeps

(* A step that leaves the manifest alone and moves within a unit, or on.      *)
LEMMA QuietStep ==
    ASSUME RunInv, proc.pc \in Unitly, UNCHANGED <<plan, turn>>,
           DOMAIN disk' = DOMAIN disk, disk'.manifest = disk.manifest,
           DOMAIN proc' = ProcKeys, proc'.m = proc.m, proc'.pairs = proc.pairs,
           proc.done \subseteq proc'.done,
           proc'.pc \in Unitly \cup {"pair"},
           \/ proc'.units = proc.units
           \/ proc.units # << >> /\ proc'.units = Tail(proc.units),
           proc'.pc \in Unitly \ {"units"} => proc'.units # << >>,
           proc'.pc \in Measuring => Head(proc'.units) \notin proc'.done
    PROVE  StepKeeps
PROOF
<1>1. /\ proc.pc \in Looping /\ GoodManifest(proc.m) /\ IsList(proc.units)
      /\ \A i \in DOMAIN proc.units : FitUnit(Inv, proc.m, proc.done, proc.units[i])
      /\ proc.units # << >> =>
            /\ IsList(Tail(proc.units))
            /\ \A i \in DOMAIN Tail(proc.units) :
                  FitUnit(Inv, proc.m, proc.done, Tail(proc.units)[i])
  BY UnitAtHand
<1>2. proc'.pc \in Looping /\ proc'.pc # "engine"
  BY DEF Looping, Unitly
<1>3. /\ IsList(proc'.units)
      /\ \A i \in DOMAIN proc'.units : FitUnit(Inv, proc.m, proc.done, proc'.units[i])
  BY <1>1
<1>4. GoodManifest(proc'.m) /\ proc'.m.resolved = proc.m.resolved
  BY <1>1
<1>5. QED
  BY <1>1, <1>2, <1>3, <1>4, LoopStep DEF StepKeeps

LEMMA SkipUnitKeeps ==
    ASSUME RunInv, SkipUnit
    PROVE  StepKeeps
PROOF
<1>1. proc.pc = "units" /\ proc.pc \in Unitly /\ proc.units # << >>
  BY DEF SkipUnit, Unitly
<1>2. /\ DOMAIN proc = ProcKeys
  BY <1>1, UnitAtHand
<1>3. /\ UNCHANGED <<plan, turn>> /\ disk' = disk
      /\ proc' = [proc EXCEPT !.units = Tail(@), !.unit = None]
  BY DEF SkipUnit, PastUnit
<1>4. /\ DOMAIN proc' = ProcKeys /\ proc'.m = proc.m /\ proc'.pairs = proc.pairs
      /\ proc'.done = proc.done /\ proc'.pc = "units"
      /\ proc'.units = Tail(proc.units)
  BY <1>1, <1>2, <1>3 DEF ProcKeys
<1>5. proc'.pc \notin Measuring
  BY <1>4 DEF Measuring
<1>6. QED
  BY <1>1, <1>3, <1>4, <1>5, QuietStep

LEMMA RefuseUnitKeeps ==
    ASSUME RunInv, RefuseUnit
    PROVE  StepKeeps
PROOF
<1> DEFINE next == AddPhase(proc.m, Unit[4], Unit[2], Unit[3], Unit[1], "refused", None)
<1>1. /\ proc.pc = "units" /\ proc.pc \in Unitly /\ proc.units # << >>
      /\ UNCHANGED <<plan, turn>>
  BY DEF RefuseUnit, Unitly
<1>2. GoodManifest(next) /\ next.resolved = proc.m.resolved
  BY <1>1, UnitAtHand, AddPhaseKeeps
<1>3. /\ disk' = [disk EXCEPT !.manifest = next]
      /\ proc' = [PastUnit EXCEPT !.m = next]
  BY DEF RefuseUnit, Save
<1> HIDE DEF next
<1>4. /\ DOMAIN proc = ProcKeys /\ DOMAIN disk = {"manifest", "checkpoints", "ops"}
      /\ proc.pc \in Looping
      /\ IsList(Tail(proc.units))
      /\ \A i \in DOMAIN Tail(proc.units) :
            FitUnit(Inv, proc.m, proc.done, Tail(proc.units)[i])
  BY <1>1, UnitAtHand
<1>5. /\ DOMAIN proc' = ProcKeys /\ proc'.m = next /\ proc'.pairs = proc.pairs
      /\ proc'.done = proc.done /\ proc'.pc = "units"
      /\ proc'.units = Tail(proc.units)
      /\ disk'.manifest = next /\ DOMAIN disk' = DOMAIN disk
  BY <1>1, <1>3, <1>4 DEF ProcKeys, PastUnit
<1>6. proc'.pc \notin Measuring /\ proc'.pc \in Looping
  BY <1>5 DEF Measuring, Looping, Unitly
<1>7. QED
  BY <1>1, <1>2, <1>4, <1>5, <1>6, LoopStep DEF StepKeeps

LEMMA BeginAnnKeeps ==
    ASSUME RunInv, BeginAnn
    PROVE  StepKeeps
PROOF
<1>1. /\ proc.pc = "units" /\ proc.pc \in Unitly /\ proc.units # << >>
      /\ UNCHANGED <<plan, turn>> /\ Unit \notin proc.done /\ disk' = disk
  BY DEF BeginAnn, Begins, Unitly
<1>2. DOMAIN proc = ProcKeys
  BY <1>1, UnitAtHand
<1>3. PICK work : proc' = [proc EXCEPT !.pc = "ann", !.unit = work]
  BY DEF BeginAnn
<1>4. /\ DOMAIN proc' = ProcKeys /\ proc'.m = proc.m /\ proc'.pairs = proc.pairs
      /\ proc'.done = proc.done /\ proc'.pc = "ann" /\ proc'.units = proc.units
  BY <1>2, <1>3 DEF ProcKeys
<1>5. Head(proc'.units) \notin proc'.done /\ proc'.pc \in Unitly
  BY <1>1, <1>4 DEF Unit, Unitly
<1>6. QED
  BY <1>1, <1>4, <1>5, QuietStep

LEMMA MeasureBuildKeeps ==
    ASSUME RunInv, MeasureBuild
    PROVE  StepKeeps
PROOF
<1>1. /\ proc.pc = "ann" /\ proc.pc \in Unitly /\ proc.pc \in Measuring
      /\ UNCHANGED <<plan, turn>> /\ disk' = disk
  BY DEF MeasureBuild, Unitly, Measuring
<1>2. DOMAIN proc = ProcKeys
  BY <1>1, UnitAtHand
<1>3. PICK work : proc' = [proc EXCEPT !.unit = work]
  BY DEF MeasureBuild
<1>4. /\ DOMAIN proc' = ProcKeys /\ proc'.m = proc.m /\ proc'.pairs = proc.pairs
      /\ proc'.done = proc.done /\ proc'.pc = "ann" /\ proc'.units = proc.units
  BY <1>1, <1>2, <1>3 DEF ProcKeys
<1>5. proc.units # << >> /\ Head(proc.units) \notin proc.done
  BY <1>1 DEF RunInv, LoopInv, Unit, Unitly
<1>6. QED
  BY <1>1, <1>4, <1>5, QuietStep

LEMMA SaveCheckpointKeeps ==
    ASSUME RunInv, SaveCheckpoint
    PROVE  StepKeeps
PROOF
<1>1. /\ proc.pc = "checkpoint" /\ proc.pc \in Unitly
      /\ UNCHANGED <<plan, turn>>
  BY DEF SaveCheckpoint, Unitly
<1>2. DOMAIN proc = ProcKeys /\ DOMAIN disk = {"manifest", "checkpoints", "ops"}
  BY <1>1, UnitAtHand
<1>3. /\ disk' = [disk EXCEPT !.checkpoints = @ \cup {Unit}]
      /\ proc' = [PastUnit EXCEPT !.pc = "units"]
  BY DEF SaveCheckpoint
<1>4. /\ DOMAIN proc' = ProcKeys /\ proc'.m = proc.m /\ proc'.pairs = proc.pairs
      /\ proc'.done = proc.done /\ proc'.pc = "units"
      /\ proc'.units = Tail(proc.units)
      /\ DOMAIN disk' = DOMAIN disk /\ disk'.manifest = disk.manifest
  BY <1>1, <1>2, <1>3 DEF ProcKeys, PastUnit
<1>5. proc.units # << >>
  BY <1>1 DEF RunInv, LoopInv
<1>6. proc'.pc \in Unitly /\ proc'.pc \notin Measuring
  BY <1>4 DEF Unitly, Measuring
<1>7. QED
  BY <1>1, <1>4, <1>5, <1>6, QuietStep

LEMMA BeginOpsKeeps ==
    ASSUME RunInv, BeginOps
    PROVE  StepKeeps
PROOF
<1>1. /\ proc.pc = "units" /\ proc.pc \in Unitly /\ proc.units # << >>
      /\ UNCHANGED <<plan, turn>> /\ Unit \notin proc.done
  BY DEF BeginOps, Begins, Unitly
<1>2. /\ DOMAIN proc = ProcKeys /\ DOMAIN disk = {"manifest", "checkpoints", "ops"}
      /\ proc.pc \in Looping /\ GoodManifest(proc.m)
      /\ IsList(proc.units)
      /\ \A i \in DOMAIN proc.units : FitUnit(Inv, proc.m, proc.done, proc.units[i])
  BY <1>1, UnitAtHand
<1>3. \/ LogUnit("failed", None)
      \/ \E n, work : /\ GoodManifest(n) /\ n.resolved = proc.m.resolved
                      /\ proc' = [proc EXCEPT !.pc = "ops", !.m = n, !.unit = work]
                      /\ disk' = disk \/ disk' = [disk EXCEPT !.manifest = n]
  <2>1. CASE SelectionMode(Inv.profile) # "frontier"
    <3>1. PICK work : proc' = [proc EXCEPT !.pc = "ops", !.unit = work]
      BY <2>1 DEF BeginOps
    <3>2. proc' = [proc EXCEPT !.pc = "ops", !.m = proc.m, !.unit = work]
      BY <3>1, <1>2 DEF ProcKeys
    <3>3. disk' = disk
      BY <2>1 DEF BeginOps
    <3>4. QED
      BY <1>2, <3>2, <3>3
  <2>2. CASE SelectionMode(Inv.profile) = "frontier"
    <3>1. PICK a : LET result == EnsureSelection(proc.m, Unit[2], Unit[3], Unit[1],
                                      Inv.profile, a, OpsUnitsDone)
                   IN IF result.refused THEN LogUnit("failed", None)
                      ELSE /\ proc' = [proc EXCEPT !.pc = "ops", !.m = result.manifest,
                                !.unit = [todo |-> OpsMValues(result.selection, Inv.profile.opsMs),
                                          rc |-> 0, selection |-> result.selection]]
                           /\ IF result.manifest = proc.m THEN UNCHANGED disk
                              ELSE Save(result.manifest)
      BY <2>2 DEF BeginOps
    <3> DEFINE result == EnsureSelection(proc.m, Unit[2], Unit[3], Unit[1],
                                      Inv.profile, a, OpsUnitsDone)
    <3>2. GoodManifest(result.manifest) /\ result.manifest.resolved = proc.m.resolved
      BY <1>2, ChoiceKeepsLog
    <3> HIDE DEF result
    <3>3. CASE result.refused
      BY <3>1, <3>3 DEF result
    <3>4. CASE ~ result.refused
      <4>1. /\ \E work : proc' = [proc EXCEPT !.pc = "ops", !.m = result.manifest,
                                     !.unit = work]
            /\ disk' = disk \/ disk' = [disk EXCEPT !.manifest = result.manifest]
        BY <3>1, <3>4 DEF Save, result
      <4>2. QED
        BY <3>2, <4>1
    <3>5. QED
      BY <3>3, <3>4
  <2>3. QED
    BY <2>1, <2>2
<1>4. CASE LogUnit("failed", None)
  BY <1>1, <1>4, LogUnitStep DEF StepKeeps
<1>5. CASE ~ LogUnit("failed", None)
  <2>1. PICK n, work : /\ GoodManifest(n) /\ n.resolved = proc.m.resolved
                       /\ proc' = [proc EXCEPT !.pc = "ops", !.m = n, !.unit = work]
                       /\ disk' = disk \/ disk' = [disk EXCEPT !.manifest = n]
    BY <1>3, <1>5
  <2>2. /\ DOMAIN proc' = ProcKeys /\ proc'.m = n /\ proc'.pairs = proc.pairs
        /\ proc'.done = proc.done /\ proc'.pc = "ops" /\ proc'.units = proc.units
        /\ disk'.manifest = disk.manifest \/ disk'.manifest = n
        /\ DOMAIN disk' = DOMAIN disk
    BY <1>2, <2>1 DEF ProcKeys
  <2>3. proc'.pc \in Looping /\ proc'.pc # "engine"
    BY <2>2 DEF Looping, Unitly
  <2>4. Head(proc'.units) \notin proc'.done
    BY <1>1, <2>2 DEF Unit
  <2>5. QED
    BY <1>1, <1>2, <2>1, <2>2, <2>3, <2>4, LoopStep DEF StepKeeps
<1>6. QED
  BY <1>4, <1>5

(* The key of one M of a unit is no key of a unit.                            *)
LEMMA AppendIsLonger ==
    ASSUME NEW S, NEW u \in Seq(S), NEW x \in S
    PROVE  Append(u, x) # u
PROOF
<1>1. Len(u) \in Nat /\ Len(Append(u, x)) = Len(u) + 1
  OBVIOUS
<1>2. Len(u) + 1 # Len(u)
  BY <1>1
<1>3. QED
  BY <1>1, <1>2

LEMMA OpsKeyIsLonger ==
    ASSUME NEW a, NEW b, NEW c, NEW d, NEW x
    PROVE  Append(<<a, b, c, d>>, x) # <<a, b, c, d>>
PROOF
<1>1. <<a, b, c, d>> \in Seq({a, b, c, d, x}) /\ x \in {a, b, c, d, x}
  OBVIOUS
<1>2. QED
  BY <1>1, AppendIsLonger

LEMMA SkipOpsKeeps ==
    ASSUME RunInv, SkipOpsUnit
    PROVE  StepKeeps
PROOF
<1>1. /\ proc.pc = "ops" /\ proc.pc \in Unitly /\ proc.pc \in Measuring
      /\ UNCHANGED <<plan, turn>> /\ disk' = disk
  BY DEF SkipOpsUnit, Unitly, Measuring
<1>2. DOMAIN proc = ProcKeys
  BY <1>1, UnitAtHand
<1>3. PICK work : proc' = [proc EXCEPT !.unit = work]
  BY DEF SkipOpsUnit
<1>4. /\ DOMAIN proc' = ProcKeys /\ proc'.m = proc.m /\ proc'.pairs = proc.pairs
      /\ proc'.done = proc.done /\ proc'.pc = "ops" /\ proc'.units = proc.units
  BY <1>1, <1>2, <1>3 DEF ProcKeys
<1>5. proc.units # << >> /\ Head(proc.units) \notin proc.done
  BY <1>1 DEF RunInv, LoopInv, Unit, Unitly
<1>6. QED
  BY <1>1, <1>4, <1>5, QuietStep

LEMMA ClearOpsKeeps ==
    ASSUME RunInv, ClearOpsUnit
    PROVE  StepKeeps
PROOF
<1>1. /\ proc.pc = "ops" /\ proc.pc \in Unitly /\ proc.pc \in Measuring
      /\ UNCHANGED <<plan, turn>>
  BY DEF ClearOpsUnit, Unitly, Measuring
<1>2. DOMAIN proc = ProcKeys /\ DOMAIN disk = {"manifest", "checkpoints", "ops"}
  BY <1>1, UnitAtHand
<1>3. PICK ops : disk' = [disk EXCEPT !.ops = ops]
  BY DEF ClearOpsUnit
<1>4. proc' = [proc EXCEPT !.pc = "harness"]
  BY DEF ClearOpsUnit, MoveTo
<1>5. /\ DOMAIN proc' = ProcKeys /\ proc'.m = proc.m /\ proc'.pairs = proc.pairs
      /\ proc'.done = proc.done /\ proc'.pc = "harness" /\ proc'.units = proc.units
      /\ DOMAIN disk' = DOMAIN disk /\ disk'.manifest = disk.manifest
  BY <1>1, <1>2, <1>3, <1>4 DEF ProcKeys
<1>6. proc.units # << >> /\ Head(proc.units) \notin proc.done /\ proc'.pc \in Unitly
  BY <1>1, <1>5 DEF RunInv, LoopInv, Unit, Unitly
<1>7. QED
  BY <1>1, <1>5, <1>6, QuietStep

LEMMA MeasureOpsKeeps ==
    ASSUME RunInv, MeasureOpsUnit
    PROVE  StepKeeps
PROOF
<1>1. /\ proc.pc = "harness" /\ proc.pc \in Unitly /\ proc.pc \in Measuring
      /\ UNCHANGED <<plan, turn>>
  BY DEF MeasureOpsUnit, Unitly, Measuring
<1>2. DOMAIN proc = ProcKeys /\ DOMAIN disk = {"manifest", "checkpoints", "ops"}
  BY <1>1, UnitAtHand
<1>3. PICK rc \in {0, 1} :
          /\ \E ops, checkpoints :
                 disk' = [disk EXCEPT !.ops = ops, !.checkpoints = checkpoints]
          /\ proc' = [proc EXCEPT !.pc = "ops", !.unit.todo = @ \ {ThisM},
                        !.unit.rc = Max({@, rc}),
                        !.done = @ \cup (IF rc = 0 THEN {OpsKey(ThisM)} ELSE {})]
  BY DEF MeasureOpsUnit
<1>4. /\ DOMAIN proc' = ProcKeys /\ proc'.m = proc.m /\ proc'.pairs = proc.pairs
      /\ proc.done \subseteq proc'.done /\ proc'.done \subseteq proc.done \cup {OpsKey(ThisM)}
      /\ proc'.pc = "ops" /\ proc'.units = proc.units
      /\ DOMAIN disk' = DOMAIN disk /\ disk'.manifest = disk.manifest
  <2>1. DOMAIN disk' = DOMAIN disk /\ disk'.manifest = disk.manifest
    BY <1>2, <1>3
  <2>2. DOMAIN proc' = DOMAIN proc
    BY <1>3
  <2>3. /\ proc'.m = proc.m /\ proc'.pairs = proc.pairs /\ proc'.pc = "ops"
        /\ proc'.units = proc.units
    BY <1>2, <1>3 DEF ProcKeys
  <2>4. proc'.done = proc.done \cup (IF rc = 0 THEN {OpsKey(ThisM)} ELSE {})
    BY <1>2, <1>3 DEF ProcKeys
  <2>5. QED
    BY <1>2, <2>1, <2>2, <2>3, <2>4
<1>5. proc.units # << >> /\ Unit \notin proc.done
  BY <1>1 DEF RunInv, LoopInv, Unitly
<1>6. OpsKey(ThisM) # Unit
  <2>1. Unit = <<Unit[1], Unit[2], Unit[3], Unit[4]>>
    BY <1>1, <1>5, UnitAtHand DEF FitUnit
  <2>2. QED
    BY <2>1, OpsKeyIsLonger DEF OpsKey
<1>7. Head(proc'.units) \notin proc'.done /\ proc'.pc \in Unitly
  BY <1>4, <1>5, <1>6 DEF Unit, Unitly
<1>8. QED
  BY <1>1, <1>4, <1>5, <1>7, QuietStep

LEMMA EndingKeeps ==
    ASSUME RunInv, EndAnn \/ EndOps
    PROVE  StepKeeps
PROOF
<1>1. PICK status, files : LogUnit(status, files)
  BY DEF EndAnn, EndOps
<1>2. proc.pc \in {"ann", "ops"} /\ UNCHANGED <<plan, turn>>
  BY DEF EndAnn, EndOps
<1>3. proc.units # << >>
  BY <1>2 DEF RunInv, LoopInv, Unitly
<1>4. QED
  BY <1>1, <1>2, <1>3, LogUnitStep DEF StepKeeps

LEMMA NextPairKeeps ==
    ASSUME RunInv, NextPair
    PROVE  StepKeeps
PROOF
<1>1. /\ proc.pc = "units" /\ proc.pc \in Unitly
      /\ UNCHANGED <<plan, turn>> /\ disk' = disk
      /\ proc' = [proc EXCEPT !.pc = "pair"]
  BY DEF NextPair, Unitly, MoveTo
<1>2. DOMAIN proc = ProcKeys
  BY <1>1, UnitAtHand
<1>3. /\ DOMAIN proc' = ProcKeys /\ proc'.m = proc.m /\ proc'.pairs = proc.pairs
      /\ proc'.done = proc.done /\ proc'.pc = "pair" /\ proc'.units = proc.units
  BY <1>1, <1>2 DEF ProcKeys
<1>4. proc'.pc \notin Unitly /\ proc'.pc \notin Measuring
  BY <1>3 DEF Unitly, Measuring
<1>5. QED
  BY <1>1, <1>3, <1>4, QuietStep

-----------------------------------------------------------------------------
(* Steps before the loop and out of it.                                       *)
Remembers ==
    disk.manifest.run = Run =>
        \A engine, pass : ResolutionOf(disk.manifest, engine, pass) # None =>
            ResolutionOf(disk'.manifest, engine, pass)
            = ResolutionOf(disk.manifest, engine, pass)

LEMMA InvocationIsListed ==
    ASSUME plan \in DOMAIN Plans, turn \in 1 .. Len(Plans[plan])
    PROVE  /\ Listed(Inv.engines) /\ Listed(Inv.passes)
           /\ \A pass \in ToSet(Inv.passes) : RealResolutions(Inv, pass)
PROOF
<1>1. Listed(Plans[plan])
  BY RunDirectoryAssumption
<1>2. turn \in DOMAIN Plans[plan]
  BY <1>1 DEF Listed
<1>3. Inv \in ToSet(Plans[plan])
  BY <1>2 DEF Inv, ToSet
<1>4. QED
  BY <1>3, RunDirectoryAssumption

LEMMA PairsAreOfLists ==
    ASSUME plan \in DOMAIN Plans, turn \in 1 .. Len(Plans[plan])
    PROVE  /\ IsList(PairsOf(Inv))
           /\ \A i \in DOMAIN PairsOf(Inv) : PairOf(Inv, PairsOf(Inv)[i])
PROOF
  BY InvocationIsListed, NestedIsList DEF PairsOf, PairOf

LEMMA ResolutionIsEntry ==
    ASSUME plan \in DOMAIN Plans, turn \in 1 .. Len(Plans[plan]),
           NEW pair, PairOf(Inv, pair)
    PROVE  IsEntry(Resolution(Inv, pair[1], pair[2]))
PROOF
<1>1. PICK pass \in ToSet(Inv.passes), engine \in ToSet(Inv.engines) :
          pair = <<pass, engine>>
  BY DEF PairOf
<1> DEFINE b == Inv.budget[pass]
           entry == [engine |-> engine, pass |-> pass, at |-> turn,
                     memory |-> b.memory, signature |-> b.signature]
<1>2. RealResolutions(Inv, pass) /\ turn \in Nat
  <2>1. Listed(Plans[plan])
    BY RunDirectoryAssumption
  <2>2. Len(Plans[plan]) \in Nat
    BY <2>1 DEF Listed
  <2>3. QED
    BY <2>2, InvocationIsListed
<1>3. Resolution(Inv, pair[1], pair[2]) = entry
  BY <1>1 DEF Resolution, Resolved
<1>4. entry \in [engine : ToSet(Inv.engines), pass : {pass}, at : Nat,
                 memory : {b.memory}, signature : {b.signature}]
  BY <1>2
<1>5. entry # None
  BY <1>2, <1>4 DEF RealResolutions
<1>6. /\ entry.engine = engine /\ entry.pass = pass /\ entry.at = turn
      /\ entry.memory = b.memory /\ entry.signature = b.signature
  OBVIOUS
<1>7. QED
  BY <1>3, <1>5, <1>6 DEF IsEntry

LEMMA Finishing ==
    ASSUME NEW m, GoodManifest(m), NEW status
    PROVE  /\ GoodManifest(FinishManifest(m, status))
           /\ FinishManifest(m, status).resolved = m.resolved
PROOF
<1> DEFINE n == FinishManifest(m, status)
<1>1. DOMAIN m = ManifestKeys
  BY DEF GoodManifest
<1>2. /\ n.resolved = m.resolved /\ n.phases = m.phases
      /\ n.run = m.run /\ DOMAIN n = DOMAIN m
  BY <1>1 DEF FinishManifest, ManifestKeys
<1> HIDE DEF n
<1>3. GoodManifest(n)
  BY <1>2, SameLog
<1>4. QED
  BY <1>2, <1>3 DEF n

LEMMA Selecting ==
    ASSUME NEW m, GoodManifest(m), NEW selection
    PROVE  /\ GoodManifest(SetBuildSelection(m, selection))
           /\ SetBuildSelection(m, selection).resolved = m.resolved
PROOF
<1> DEFINE n == SetBuildSelection(m, selection)
<1>1. DOMAIN m = ManifestKeys
  BY DEF GoodManifest
<1>2. n = m \/ n = [m EXCEPT !.selection = selection]
  BY DEF SetBuildSelection
<1> HIDE DEF n
<1>3. /\ n.resolved = m.resolved /\ n.phases = m.phases
      /\ n.run = m.run /\ DOMAIN n = DOMAIN m
  BY <1>1, <1>2 DEF ManifestKeys
<1>4. GoodManifest(n)
  BY <1>3, SameLog
<1>5. QED
  BY <1>3, <1>4 DEF n

LEMMA Opening ==
    ASSUME NEW onDisk, onDisk.run = Run => GoodManifest(onDisk), NEW version, NEW host
    PROVE  LET o == OpenManifest(onDisk, Run, version)
               h == SetHost(o, host)
           IN /\ GoodManifest(o) /\ GoodManifest(h)
              /\ h.resolved = o.resolved
              /\ onDisk.run = Run => o.resolved = onDisk.resolved
PROOF
<1> DEFINE o == OpenManifest(onDisk, Run, version)
           h == SetHost(o, host)
<1>1. /\ GoodManifest(o)
      /\ onDisk.run = Run => o.resolved = onDisk.resolved
  <2>1. CASE onDisk.run = Run
    <3>1. o = [onDisk EXCEPT !.status = "running"] /\ GoodManifest(onDisk)
      BY <2>1 DEF OpenManifest
    <3>2. DOMAIN onDisk = ManifestKeys
      BY <3>1 DEF GoodManifest
    <3> HIDE DEF o
    <3>3. /\ o.resolved = onDisk.resolved /\ o.phases = onDisk.phases
          /\ o.run = onDisk.run /\ DOMAIN o = DOMAIN onDisk
      BY <3>1, <3>2 DEF ManifestKeys
    <3>4. QED
      BY <3>1, <3>3, SameLog
  <2>2. CASE onDisk.run # Run
    <3>1. /\ o.run = Run /\ o.phases = << >> /\ o.resolved = << >>
          /\ DOMAIN o = ManifestKeys
      BY <2>2 DEF OpenManifest, ManifestKeys
    <3> HIDE DEF o
    <3>2. IsList(<< >>) /\ DOMAIN << >> = {}
      BY DEF IsList
    <3>3. QED
      BY <2>2, <3>1, <3>2 DEF GoodManifest, HasEntries, LogIsRecorded
  <2>3. QED
    BY <2>1, <2>2
<1> HIDE DEF o
<1>2. DOMAIN o = ManifestKeys
  BY <1>1 DEF GoodManifest
<1>3. /\ h.resolved = o.resolved /\ h.phases = o.phases
      /\ h.run = o.run /\ DOMAIN h = DOMAIN o
  BY <1>2 DEF SetHost, ManifestKeys
<1> HIDE DEF h
<1>4. GoodManifest(h)
  BY <1>1, <1>3, SameLog
<1>5. QED
  BY <1>1, <1>3, <1>4 DEF o, h

LEMMA StartKeeps ==
    ASSUME RunInv, Start
    PROVE  RunInv' /\ Remembers
PROOF
<1> DEFINE inv == Plans[plan][turn + 1]
           opened == OpenManifest(disk.manifest, Run, inv.version)
           hosted == SetHost(opened, inv.host)
<1>1. Shape /\ LogInv
  BY DEF RunInv
<1>2. /\ GoodManifest(opened) /\ GoodManifest(hosted)
      /\ hosted.resolved = opened.resolved
      /\ disk.manifest.run = Run => opened.resolved = disk.manifest.resolved
  BY <1>1, Opening DEF LogInv
<1>3. /\ disk' = [disk EXCEPT !.manifest =
                     IF hosted.warnings = opened.warnings THEN opened ELSE hosted]
      /\ proc' = [pc |-> "preflight", m |-> hosted,
                      done |-> {}, pairs |-> PairsOf(inv), entries |-> << >>,
                      refused |-> FALSE, units |-> << >>, failed |-> FALSE,
                      unit |-> None]
      /\ turn' = turn + 1 /\ plan' = plan /\ turn < Len(Plans[plan])
      /\ attempts' = attempts /\ built' = built
  BY DEF Start, Save
<1> HIDE DEF opened, hosted
<1>4. /\ disk'.manifest = opened \/ disk'.manifest = hosted
      /\ DOMAIN disk' = DOMAIN disk
  BY <1>1, <1>3 DEF Shape
<1>5. /\ proc'.pc = "preflight" /\ proc'.m = hosted /\ proc'.pairs = PairsOf(inv)
      /\ DOMAIN proc' = ProcKeys
  BY <1>3 DEF ProcKeys
<1>6. Inv' = inv
  BY <1>3 DEF Inv
<1>7. Shape'
  <2>1. Listed(Plans[plan]) /\ plan \in DOMAIN Plans
    BY <1>1, RunDirectoryAssumption DEF Shape
  <2>2. Len(Plans[plan]) \in Nat
    BY <2>1 DEF Listed
  <2>3. turn + 1 \in 0 .. Len(Plans[plan]) /\ turn + 1 # 0
    BY <1>1, <1>3, <2>2 DEF Shape
  <2>4. QED
    BY <1>1, <1>3, <1>4, <1>5, <2>3 DEF Shape
<1>8. LogInv'
  BY <1>2, <1>4, <1>5 DEF LogInv, GoodManifest
<1>9. ResolveInv'
  BY <1>5, <1>6 DEF ResolveInv, PairsOf
<1>10. LoopInv'
  BY <1>5 DEF LoopInv, Looping, Unitly, Measuring
<1>11. Remembers
  <2>1. CASE disk.manifest.run = Run
    <3>1. disk'.manifest.resolved = disk.manifest.resolved
      BY <1>2, <1>4, <2>1
    <3>2. QED
      BY <3>1, SameLog DEF Remembers
  <2>2. CASE disk.manifest.run # Run
    BY <2>2 DEF Remembers
  <2>3. QED
    BY <2>1, <2>2
<1>12. QED
  BY <1>7, <1>8, <1>9, <1>10, <1>11 DEF RunInv

LEMMA PreflightKeeps ==
    ASSUME RunInv, Preflight
    PROVE  RunInv' /\ Remembers
PROOF
<1>1. /\ proc.pc = "preflight" /\ plan' = plan /\ turn' = turn
      /\ proc.pc # "idle"
  BY DEF Preflight
<1>2. /\ Shape /\ LogInv /\ proc.pairs = PairsOf(Inv) /\ turn # 0
      /\ DOMAIN proc = ProcKeys /\ GoodManifest(proc.m)
      /\ disk.manifest.run = Run /\ proc.m.resolved = disk.manifest.resolved
      /\ GoodManifest(disk.manifest) /\ DOMAIN disk = {"manifest", "checkpoints", "ops"}
  BY <1>1 DEF RunInv, Shape, LogInv, ResolveInv
<1>3. plan \in DOMAIN Plans /\ turn \in 1 .. Len(Plans[plan])
  <2>1. Len(Plans[plan]) \in Nat
    BY <1>2, RunDirectoryAssumption DEF Shape, Listed
  <2>2. QED
    BY <1>2, <2>1 DEF Shape
<1>4. CASE proc' = NoProcess /\ disk' = disk
  <2>1. RunInv' /\ disk'.manifest.resolved = disk.manifest.resolved
    BY <1>1, <1>4, IdleStep
  <2>2. QED
    BY <2>1, SameLog DEF Remembers
<1>5. CASE ~ (proc' = NoProcess /\ disk' = disk)
  <2> DEFINE n == SetBuildSelection(proc.m, Inv.profile.selection)
             entries == [i \in DOMAIN proc.pairs |->
                            Resolution(Inv, proc.pairs[i][1], proc.pairs[i][2])]
  <2>1. /\ \E ended : proc' = [proc EXCEPT !.pc = "resolve", !.m = n, !.done = ended,
                                          !.entries = entries]
        /\ disk' = disk \/ disk' = [disk EXCEPT !.manifest = n]
    <3>1. /\ proc' = [proc EXCEPT !.pc = "resolve",
                    !.m = SetBuildSelection(@, Inv.profile.selection),
                    !.done = IF Inv.resume THEN disk.checkpoints ELSE {},
                    !.entries = entries]
          /\ disk' = disk \/ disk' = [disk EXCEPT !.manifest = n]
      BY <1>5 DEF Preflight, Save
    <3>2. proc' = [proc EXCEPT !.pc = "resolve", !.m = n,
                    !.done = IF Inv.resume THEN disk.checkpoints ELSE {},
                    !.entries = entries]
      BY <1>2, <3>1 DEF ProcKeys
    <3> HIDE DEF n, entries
    <3>3. QED
      BY <3>1, <3>2
  <2>2. GoodManifest(n) /\ n.resolved = proc.m.resolved
    BY <1>2, Selecting
  <2> HIDE DEF n
  <2>3. /\ proc'.pc = "resolve" /\ proc'.m = n /\ proc'.entries = entries
        /\ proc'.pairs = proc.pairs /\ DOMAIN proc' = ProcKeys
        /\ disk'.manifest = disk.manifest \/ disk'.manifest = n
        /\ DOMAIN disk' = DOMAIN disk
    <3> HIDE DEF entries
    <3>1. QED
      BY <1>2, <2>1 DEF ProcKeys
  <2>4. /\ IsList(proc.pairs)
        /\ \A i \in DOMAIN proc.pairs : PairOf(Inv, proc.pairs[i])
    BY <1>2, <1>3, PairsAreOfLists
  <2>5. IsList(entries)
    <3>1. Len(proc.pairs) \in Nat /\ DOMAIN proc.pairs = 1 .. Len(proc.pairs)
      BY <2>4 DEF IsList
    <3>2. entries \in [1 .. Len(proc.pairs) -> {entries[i] : i \in DOMAIN proc.pairs}]
      BY <3>1
    <3> HIDE DEF entries
    <3>3. QED
      BY <3>1, <3>2, FunctionIsList
  <2>6. Inv' = Inv
    BY <1>1 DEF Inv
  <2>7. \A inv, p : Resolution(inv, p[1], p[2])' = Resolution(inv, p[1], p[2])
    BY <1>1 DEF Resolution, Resolved
  <2>8. Shape'
    BY <1>1, <1>2, <2>3 DEF Shape
  <2>9. LogInv'
    BY <1>2, <2>2, <2>3 DEF LogInv, GoodManifest
  <2>10. ResolveInv'
    <3>1. DOMAIN entries = DOMAIN proc.pairs
          /\ \A i \in DOMAIN proc.pairs :
                entries[i] = Resolution(Inv, proc.pairs[i][1], proc.pairs[i][2])
      OBVIOUS
    <3> HIDE DEF entries
    <3>2. \A i \in DOMAIN proc'.entries : \E pair :
                /\ PairOf(Inv, pair)
                /\ proc'.entries[i] = Resolution(Inv, pair[1], pair[2])
      BY <2>3, <2>4, <3>1
    <3>3. \A i \in DOMAIN proc'.pairs :
             /\ PairOf(Inv, proc'.pairs[i])
             /\ \E j \in DOMAIN proc'.entries :
                   proc'.entries[j] = Resolution(Inv, proc'.pairs[i][1], proc'.pairs[i][2])
      BY <2>3, <2>4, <3>1
    <3>4. QED
      BY <2>3, <2>4, <2>5, <2>6, <3>2, <3>3, <1>1
         DEF ResolveInv, ToResolve, Resolution, Resolved
  <2>11. LoopInv'
    BY <2>3 DEF LoopInv, Looping, Unitly, Measuring
  <2>12. disk'.manifest.resolved = disk.manifest.resolved
    BY <1>2, <2>2, <2>3
  <2>13. QED
    BY <2>8, <2>9, <2>10, <2>11, <2>12, SameLog DEF RunInv, Remembers
<1>6. QED
  BY <1>4, <1>5

LEMMA ResolveKeeps ==
    ASSUME RunInv, Resolve
    PROVE  RunInv' /\ Remembers
PROOF
<1> DEFINE entry == Head(proc.entries)
           next == RecordEngineResolution(proc.m, entry)
           refuses == PlanRefuses(proc.m, <<entry>>, Inv.datasets, Inv.phases, proc.done)
<1>1. /\ proc.pc = "resolve" /\ plan' = plan /\ turn' = turn
      /\ proc.pc # "idle" /\ proc.entries # << >>
      /\ proc' = [proc EXCEPT !.m = next, !.entries = Tail(@),
                              !.refused = @ \/ refuses]
      /\ (disk' = disk /\ next = proc.m) \/ disk' = [disk EXCEPT !.manifest = next]
  BY DEF Resolve, Save
<1>2. /\ Shape /\ LogInv /\ turn # 0
      /\ DOMAIN proc = ProcKeys /\ GoodManifest(proc.m)
      /\ disk.manifest.run = Run /\ proc.m.resolved = disk.manifest.resolved
      /\ GoodManifest(disk.manifest) /\ DOMAIN disk = {"manifest", "checkpoints", "ops"}
  BY <1>1 DEF RunInv, Shape, LogInv
<1>3. /\ IsList(proc.pairs) /\ IsList(proc.entries)
      /\ \A i \in DOMAIN proc.entries : \E pair :
            /\ PairOf(Inv, pair)
            /\ proc.entries[i] = Resolution(Inv, pair[1], pair[2])
      /\ \A i \in DOMAIN proc.pairs :
            /\ PairOf(Inv, proc.pairs[i])
            /\ \/ ToResolve(proc.pairs[i]) \/ proc.refused
               \/ Settled(Inv, proc.m, proc.done, proc.pairs[i])
  BY <1>1 DEF RunInv, ResolveInv
<1>4. plan \in DOMAIN Plans /\ turn \in 1 .. Len(Plans[plan])
  <2>1. Len(Plans[plan]) \in Nat
    BY <1>2, RunDirectoryAssumption DEF Shape, Listed
  <2>2. QED
    BY <1>2, <2>1 DEF Shape
<1>5. /\ entry = proc.entries[1] /\ 1 \in DOMAIN proc.entries
      /\ IsList(Tail(proc.entries))
      /\ \A i \in DOMAIN Tail(proc.entries) :
            i + 1 \in DOMAIN proc.entries /\ Tail(proc.entries)[i] = proc.entries[i + 1]
      /\ \A i \in DOMAIN proc.entries :
            i = 1 \/ (i - 1 \in DOMAIN Tail(proc.entries)
                      /\ Tail(proc.entries)[i - 1] = proc.entries[i])
  BY <1>1, <1>3, ListParts
<1>6. IsEntry(entry)
  BY <1>3, <1>4, <1>5, ResolutionIsEntry
<1>7. /\ GoodManifest(next)
      /\ \A e, p : Recorded(proc.m, p, e) =>
            ResolutionOf(next, e, p) = ResolutionOf(proc.m, e, p) /\ Recorded(next, p, e)
      /\ Recorded(next, entry.pass, entry.engine)
      /\ ResolutionOutcome(proc.m, entry) # "changed" =>
            ResolutionOf(next, entry.engine, entry.pass).memory = entry.memory
  BY <1>2, <1>6, RecordingKeeps DEF Recorded
<1>8. refuses = (/\ ResolutionOutcome(proc.m, entry) = "changed"
                 /\ Pending(entry.pass, entry.engine, Inv.datasets, Inv.phases, proc.done))
  <2>1. DOMAIN <<entry>> = {1} /\ <<entry>>[1] = entry
    OBVIOUS
  <2>2. QED
    BY <2>1 DEF PlanRefuses
<1> HIDE DEF next, refuses, entry
<1>9. /\ proc'.pc = "resolve" /\ proc'.m = next /\ proc'.entries = Tail(proc.entries)
      /\ proc'.pairs = proc.pairs /\ proc'.done = proc.done /\ DOMAIN proc' = ProcKeys
      /\ proc'.refused = (proc.refused \/ refuses)
      /\ disk'.manifest = next \/ (disk'.manifest = disk.manifest /\ next = proc.m)
      /\ DOMAIN disk' = DOMAIN disk
  <2>1. /\ proc'.pc = "resolve" /\ proc'.m = next /\ proc'.entries = Tail(proc.entries)
        /\ proc'.pairs = proc.pairs /\ proc'.done = proc.done
    BY <1>1, <1>2 DEF ProcKeys
  <2>2. DOMAIN proc' = DOMAIN proc
    BY <1>1
  <2>3. proc'.refused = (proc.refused \/ refuses)
    BY <1>1, <1>2 DEF ProcKeys
  <2>4. /\ disk'.manifest = next \/ (disk'.manifest = disk.manifest /\ next = proc.m)
        /\ DOMAIN disk' = DOMAIN disk
    <3>1. DOMAIN disk = {"manifest", "checkpoints", "ops"}
      BY <1>2
    <3>2. CASE disk' = [disk EXCEPT !.manifest = next]
      BY <3>1, <3>2
    <3>3. CASE disk' = disk /\ next = proc.m
      BY <3>3
    <3>4. QED
      BY <1>1, <3>2, <3>3
  <2>5. QED
    BY <1>2, <2>1, <2>2, <2>3, <2>4
<1>10. Inv' = Inv
  BY <1>1 DEF Inv
<1>11. Shape'
  BY <1>1, <1>2, <1>9 DEF Shape
<1>12. LogInv'
  BY <1>2, <1>7, <1>9 DEF LogInv, GoodManifest
<1>13. ASSUME NEW i \in DOMAIN proc.pairs
       PROVE  \/ \E j \in DOMAIN Tail(proc.entries) :
                     Tail(proc.entries)[j] = Resolution(Inv, proc.pairs[i][1], proc.pairs[i][2])
              \/ proc.refused \/ refuses
              \/ Settled(Inv, next, proc.done, proc.pairs[i])
  <2> DEFINE p == proc.pairs[i]
  <2>1. CASE Settled(Inv, proc.m, proc.done, p)
    BY <1>7, <2>1 DEF Settled, Within
  <2>2. CASE proc.refused
    BY <2>2
  <2>3. CASE ToResolve(p)
    <3>1. PICK j \in DOMAIN proc.entries : proc.entries[j] = Resolution(Inv, p[1], p[2])
      BY <2>3 DEF ToResolve
    <3>2. CASE j # 1
      BY <1>5, <3>1, <3>2
    <3>3. CASE j = 1
      <4>1. entry = Resolution(Inv, p[1], p[2])
        BY <1>5, <3>1, <3>3
      <4>2. /\ entry.pass = p[1] /\ entry.engine = p[2]
            /\ entry.memory = Resolved(Inv, p[1]).memory
        BY <4>1 DEF Resolution
      <4>3. CASE ResolutionOutcome(proc.m, entry) # "changed"
        BY <1>7, <4>2, <4>3 DEF Settled, Within
      <4>4. CASE ResolutionOutcome(proc.m, entry) = "changed"
        BY <1>7, <1>8, <4>2, <4>4 DEF Settled
      <4>5. QED
        BY <4>3, <4>4
    <3>4. QED
      BY <3>2, <3>3
  <2>4. QED
    BY <1>3, <2>1, <2>2, <2>3
<1>14. ResolveInv'
  <2>1. \A i \in DOMAIN Tail(proc.entries) : \E pair :
                /\ PairOf(Inv, pair)
                /\ Tail(proc.entries)[i] = Resolution(Inv, pair[1], pair[2])
    BY <1>3, <1>5
  <2>2. \A i \in DOMAIN proc'.entries : \E pair :
                /\ PairOf(Inv, pair)
                /\ proc'.entries[i] = Resolution(Inv, pair[1], pair[2])
    BY <1>9, <2>1
  <2>3. \A i \in DOMAIN proc'.pairs :
             /\ PairOf(Inv, proc'.pairs[i])
             /\ \/ \E j \in DOMAIN proc'.entries :
                     proc'.entries[j] = Resolution(Inv, proc'.pairs[i][1], proc'.pairs[i][2])
                \/ proc'.refused
                \/ Settled(Inv, proc'.m, proc'.done, proc'.pairs[i])
    BY <1>3, <1>9, <1>13
  <2>4. IsList(proc'.pairs) /\ IsList(proc'.entries)
    BY <1>3, <1>5, <1>9
  <2>5. \A inv, p : Resolution(inv, p[1], p[2])' = Resolution(inv, p[1], p[2])
    BY <1>1 DEF Resolution, Resolved
  <2>6. \A p : ToResolve(p)' <=> \E j \in DOMAIN proc'.entries :
                                   proc'.entries[j] = Resolution(Inv, p[1], p[2])
    BY <1>10, <2>5 DEF ToResolve
  <2>7. proc'.pc = "resolve" /\ proc'.pc # "preflight"
    BY <1>9
  <2>8. \A i \in DOMAIN proc'.entries : \E pair :
                /\ PairOf(Inv', pair)
                /\ proc'.entries[i] = Resolution(Inv, pair[1], pair[2])'
    BY <1>1, <1>10, <2>2 DEF Resolution, Resolved
  <2>9. \A i \in DOMAIN proc'.pairs :
             /\ PairOf(Inv', proc'.pairs[i])
             /\ \/ ToResolve(proc.pairs[i])' \/ proc'.refused
                \/ Settled(Inv', proc'.m, proc'.done, proc'.pairs[i])
    BY <1>9, <1>10, <2>3, <2>6
  <2>10. QED
    BY <2>4, <2>7, <2>8, <2>9 DEF ResolveInv
<1>15. LoopInv'
  BY <1>9 DEF LoopInv, Looping, Unitly, Measuring
<1>16. Remembers
  <2>0. disk.manifest.resolved = proc.m.resolved
    BY <1>2
  <2>1. \A e, p : ResolutionOf(disk.manifest, e, p) = ResolutionOf(proc.m, e, p)
    BY <2>0, SameLog
  <2>2. \A e, p : ResolutionOf(proc.m, e, p) # None
                 => ResolutionOf(next, e, p) = ResolutionOf(proc.m, e, p)
    BY <1>7 DEF Recorded
  <2>3. CASE disk'.manifest = next
    BY <2>1, <2>2, <2>3 DEF Remembers
  <2>4. CASE disk'.manifest = disk.manifest
    BY <2>4 DEF Remembers
  <2>5. QED
    BY <1>9, <2>3, <2>4
<1>17. QED
  BY <1>11, <1>12, <1>14, <1>15, <1>16 DEF RunInv

LEMMA AllResolvedKeeps ==
    ASSUME RunInv, AllResolved
    PROVE  RunInv' /\ Remembers
PROOF
<1>1. /\ proc.pc = "resolve" /\ plan' = plan /\ turn' = turn
      /\ proc.pc # "idle" /\ proc.entries = << >>
  BY DEF AllResolved
<1>2. /\ Shape /\ LogInv /\ turn # 0
      /\ DOMAIN proc = ProcKeys /\ GoodManifest(proc.m)
      /\ disk.manifest.run = Run /\ proc.m.resolved = disk.manifest.resolved
      /\ DOMAIN disk = {"manifest", "checkpoints", "ops"}
  BY <1>1 DEF RunInv, Shape, LogInv
<1>3. CASE proc.refused
  <2>1. /\ disk' = [disk EXCEPT !.manifest = FinishManifest(proc.m, "refused")]
        /\ proc' = NoProcess
    BY <1>3 DEF AllResolved, Save
  <2>2. /\ disk'.manifest = FinishManifest(proc.m, "refused")
        /\ DOMAIN disk' = DOMAIN disk
    BY <1>2, <2>1
  <2>3. RunInv' /\ disk'.manifest.resolved = disk.manifest.resolved
    BY <1>1, <1>2, <2>1, <2>2, Finishing, IdleStep
  <2>4. QED
    BY <2>3, SameLog DEF Remembers
<1>4. CASE ~ proc.refused
  <2>1. disk' = disk /\ proc' = [proc EXCEPT !.pc = "pair"]
    BY <1>4 DEF AllResolved, MoveTo
  <2>2. /\ proc'.pc = "pair" /\ proc'.m = proc.m /\ proc'.pairs = proc.pairs
        /\ proc'.done = proc.done /\ DOMAIN proc' = ProcKeys
    BY <1>2, <2>1 DEF ProcKeys
  <2>3. IsList(proc.pairs) /\ \A i \in DOMAIN proc.pairs :
            \/ ToResolve(proc.pairs[i]) \/ proc.refused
            \/ Settled(Inv, proc.m, proc.done, proc.pairs[i])
    BY <1>1 DEF RunInv, ResolveInv
  <2>4. DOMAIN proc.entries = {}
    BY <1>1
  <2>5. \A i \in DOMAIN proc.pairs : Settled(Inv, proc.m, proc.done, proc.pairs[i])
    BY <1>4, <2>3, <2>4 DEF ToResolve
  <2>6. Inv' = Inv
    BY <1>1 DEF Inv
  <2>7. LoopInv'
    BY <2>2, <2>3, <2>5, <2>6 DEF LoopInv, Unitly, Measuring
  <2>8. Shape'
    BY <1>1, <1>2, <2>1, <2>2 DEF Shape, Looping
  <2>9. LogInv'
    BY <1>2, <2>1, <2>2 DEF LogInv
  <2>10. ResolveInv'
    BY <2>2 DEF ResolveInv
  <2>11. QED
    BY <2>1, <2>7, <2>8, <2>9, <2>10 DEF RunInv, Remembers
<1>5. QED
  BY <1>3, <1>4

LEMMA LeavingKeeps ==
    ASSUME RunInv, Finish \/ KillRun
    PROVE  RunInv' /\ Remembers
PROOF
<1>1. /\ proc.pc # "idle" /\ plan' = plan /\ turn' = turn /\ proc' = NoProcess
      /\ disk' = disk \/ \E status :
            disk' = [disk EXCEPT !.manifest = FinishManifest(proc.m, status)]
  BY DEF Finish, KillRun, Save
<1>2. GoodManifest(proc.m) /\ DOMAIN disk = {"manifest", "checkpoints", "ops"}
  BY <1>1 DEF RunInv, Shape, LogInv
<1>3. /\ DOMAIN disk' = DOMAIN disk
      /\ disk'.manifest = disk.manifest \/ \E status :
            disk'.manifest = FinishManifest(proc.m, status)
  BY <1>1, <1>2
<1>4. RunInv' /\ disk'.manifest.resolved = disk.manifest.resolved
  BY <1>1, <1>2, <1>3, Finishing, IdleStep
<1>5. QED
  BY <1>4, SameLog DEF Remembers

LEMMA UntouchedKeeps ==
    ASSUME RunInv, UNCHANGED <<plan, turn, proc, disk, attempts, built>>
    PROVE  RunInv' /\ Remembers
PROOF
<1>1. Shape' /\ LogInv'
  BY DEF RunInv, Shape, LogInv
<1>2. Inv' = Inv
  BY DEF Inv
<1>3. ResolveInv' /\ LoopInv'
  BY <1>2 DEF RunInv, ResolveInv, LoopInv, ToResolve, Resolution, Resolved, Unit
<1>4. QED
  BY <1>1, <1>3 DEF RunInv, Remembers

-----------------------------------------------------------------------------
LEMMA StartsRight ==
    ASSUME DirInit
    PROVE  RunInv /\ MeasuredUnderRecordedBudget
PROOF
<1>1. /\ proc.pc = "idle" /\ DOMAIN disk = {"manifest", "checkpoints", "ops"}
      /\ disk.manifest.run = None
  BY DEF DirInit, NoProcess, NoManifest
<1>2. 0 \in 0 .. Len(Plans[plan])
  <2>1. Listed(Plans[plan])
    BY RunDirectoryAssumption DEF DirInit
  <2>2. Len(Plans[plan]) \in Nat
    BY <2>1 DEF Listed
  <2>3. QED
    BY <2>2
<1>3. Shape
  BY <1>1, <1>2 DEF Shape, DirInit
<1>4. LogInv
  BY <1>1, RunDirectoryAssumption DEF LogInv, DirInit
<1>5. ResolveInv /\ LoopInv
  BY <1>1 DEF ResolveInv, LoopInv, Looping, Unitly, Measuring
<1>6. MeasuredUnderRecordedBudget
  BY DEF DirInit, MeasuredUnderRecordedBudget
<1>7. QED
  BY <1>3, <1>4, <1>5, <1>6 DEF RunInv

(* What is on record stays there, so that only a measurement is looked at.    *)
MeasuredWithin(x, m) ==
    ResolutionOf(m, x.unit[2], x.unit[1]) # None
    /\ ResolutionOf(m, x.unit[2], x.unit[1]).memory = x.budget
LEMMA RecordStays ==
    ASSUME RunInv, MeasuredUnderRecordedBudget, Remembers,
           \A x \in attempts' : x \in attempts \/ MeasuredWithin(x, disk'.manifest),
           \A x \in built' : x \in built \/ MeasuredWithin(x, disk'.manifest)
    PROVE  MeasuredUnderRecordedBudget'
PROOF
<1>1. \A x \in {a \in attempts : a.wrote # {}} \cup built :
          MeasuredWithin(x, disk.manifest)
  BY DEF MeasuredUnderRecordedBudget, MeasuredWithin
<1>2. ASSUME NEW x \in ({a \in attempts : a.wrote # {}} \cup built)'
      PROVE  MeasuredWithin(x, disk'.manifest)
  <2>1. \/ x \in {a \in attempts : a.wrote # {}} \cup built
        \/ MeasuredWithin(x, disk'.manifest)
    BY <1>2
  <2>2. CASE x \in {a \in attempts : a.wrote # {}} \cup built
    <3>1. disk.manifest.run = Run
      BY <2>2 DEF RunInv, LogInv
    <3>2. QED
      BY <1>1, <2>2, <3>1 DEF MeasuredWithin, Remembers
  <2>3. QED
    BY <2>1, <2>2
<1>3. QED
  BY <1>2 DEF MeasuredUnderRecordedBudget, MeasuredWithin

LEMMA StepRemembers ==
    ASSUME StepKeeps
    PROVE  RunInv' /\ Remembers
PROOF
  BY SameLog DEF StepKeeps, Remembers

(* A unit is only measured where it was not done, and so within its budget.   *)
LEMMA MeasuredNow ==
    ASSUME RunInv, proc.pc \in {"ann", "harness"}, StepKeeps, NEW x,
           x.unit = Unit, x.budget = Resolved(Inv, Unit[1]).memory
    PROVE  MeasuredWithin(x, disk'.manifest)
PROOF
<1>1. proc.pc \in Unitly /\ proc.pc \in Measuring /\ proc.pc \in Unitly \ {"units"}
  BY DEF Unitly, Measuring
<1>2. proc.units # << >> /\ Unit \notin proc.done
  BY <1>1 DEF RunInv, LoopInv
<1>3. /\ Recorded(proc.m, Unit[1], Unit[2]) /\ Within(Inv, proc.m, Unit[1], Unit[2])
      /\ proc.m.resolved = disk.manifest.resolved
  BY <1>1, <1>2, UnitAtHand DEF FitUnit
<1>4. disk'.manifest.resolved = proc.m.resolved
  BY <1>3 DEF StepKeeps
<1>5. QED
  BY <1>3, <1>4, SameLog DEF MeasuredWithin, Within, Recorded

LEMMA NextKeeps ==
    ASSUME RunInv, MeasuredUnderRecordedBudget, DirNext \/ UNCHANGED dirVars
    PROVE  RunInv' /\ MeasuredUnderRecordedBudget' /\ Remembers
PROOF
<1>1. CASE UNCHANGED <<attempts, built>> /\ RunInv' /\ Remembers
  BY <1>1, RecordStays
<1>2. CASE Start \/ Preflight \/ Resolve \/ AllResolved \/ Finish \/ KillRun
  <2>1. UNCHANGED <<attempts, built>>
    BY <1>2 DEF Start, Preflight, Resolve, AllResolved, Finish, KillRun, NoHistory
  <2>2. RunInv' /\ Remembers
    BY <1>2, StartKeeps, PreflightKeeps, ResolveKeeps, AllResolvedKeeps, LeavingKeeps
  <2>3. QED
    BY <1>1, <2>1, <2>2
<1>3. CASE OthersMeasure \/ UNCHANGED dirVars
  <2>1. UNCHANGED <<plan, turn, proc, disk, attempts, built>>
    BY <1>3 DEF OthersMeasure, NoHistory, dirVars
  <2>2. QED
    BY <1>1, <2>1, UntouchedKeeps
<1>4. CASE \/ Configure \/ PresentEngine \/ SkipUnit \/ RefuseUnit \/ BeginAnn
           \/ MeasureBuild \/ SaveCheckpoint \/ BeginOps \/ SkipOpsUnit
           \/ ClearOpsUnit \/ EndOps \/ NextPair
  <2>1. UNCHANGED <<attempts, built>>
    BY <1>4 DEF Configure, PresentEngine, SkipUnit, RefuseUnit, BeginAnn,
                MeasureBuild, SaveCheckpoint, BeginOps, SkipOpsUnit,
                ClearOpsUnit, EndOps, NextPair, NoHistory
  <2>2. StepKeeps
    BY <1>4, ConfigureKeeps, PresentKeeps, SkipUnitKeeps, RefuseUnitKeeps,
       BeginAnnKeeps, MeasureBuildKeeps, SaveCheckpointKeeps, BeginOpsKeeps,
       SkipOpsKeeps, ClearOpsKeeps, EndingKeeps, NextPairKeeps
  <2>3. QED
    BY <1>1, <2>1, <2>2, StepRemembers
<1>5. CASE EndAnn
  <2>1. StepKeeps /\ proc.pc = "ann"
    BY <1>5, EndingKeeps DEF EndAnn
  <2>2. PICK x : /\ x.unit = Unit /\ x.budget = Resolved(Inv, Unit[1]).memory
                 /\ attempts' = attempts \cup {x} /\ built' = built
    <3> DEFINE after == Snapshot(tree, UnitDir, Unit[2], Unit[3])
               x(status) ==
                  [unit |-> Unit, dir |-> UnitDir, status |-> status,
                   grid |-> Definitions(Grid),
                   budget |-> Resolved(Inv, Unit[1]).memory,
                   found |-> {Last(p) : p \in DOMAIN after},
                   wrote |-> proc.unit.wrote,
                   beside |-> {p \in DOMAIN after \ DOMAIN proc.unit.before :
                                  UnitDir \o p \in others}]
    <3>1. PICK status : attempts' = attempts \cup {x(status)}
      BY <1>5 DEF EndAnn
    <3>2. x(status).unit = Unit /\ x(status).budget = Resolved(Inv, Unit[1]).memory
      OBVIOUS
    <3> HIDE DEF x
    <3>3. built' = built
      BY <1>5 DEF EndAnn
    <3>4. QED
      BY <3>1, <3>2, <3>3
  <2>3. MeasuredWithin(x, disk'.manifest)
    BY <2>1, <2>2, MeasuredNow
  <2>4. QED
    BY <2>1, <2>2, <2>3, StepRemembers, RecordStays
<1>6. CASE MeasureOpsUnit
  <2>1. StepKeeps /\ proc.pc = "harness" /\ attempts' = attempts
    BY <1>6, MeasureOpsKeeps DEF MeasureOpsUnit
  <2>2. \E x : /\ x.unit = Unit /\ x.budget = Resolved(Inv, Unit[1]).memory
               /\ built' \subseteq built \cup {x}
    <3> DEFINE x == [key |-> OpsKey(ThisM), unit |-> Unit,
                     build |-> OpsBuildOf(ThisM),
                     chosen |-> proc.unit.selection # None,
                     budget |-> Resolved(Inv, Unit[1]).memory]
    <3>1. built' = built \/ built' = {b \in built : b.key # OpsKey(ThisM)} \cup {x}
      BY <1>6 DEF MeasureOpsUnit
    <3>2. x.unit = Unit /\ x.budget = Resolved(Inv, Unit[1]).memory
      OBVIOUS
    <3> HIDE DEF x
    <3>3. built' \subseteq built \cup {x}
      BY <3>1
    <3>4. QED
      BY <3>2, <3>3
  <2>3. PICK x : /\ x.unit = Unit /\ x.budget = Resolved(Inv, Unit[1]).memory
                 /\ built' \subseteq built \cup {x}
    BY <2>2
  <2>4. MeasuredWithin(x, disk'.manifest)
    BY <2>1, <2>3, MeasuredNow
  <2>5. QED
    BY <2>1, <2>3, <2>4, StepRemembers, RecordStays
<1>7. QED
  BY <1>2, <1>3, <1>4, <1>5, <1>6 DEF DirNext

(* Everything an engine was measured with under a pass, over all invocations  *)
(* of a run and whatever killed them, was measured under the budget that is   *)
(* on record for them (manifest.record_engine_resolution,                     *)
(* engine_plan.resolve_engines).                                              *)
THEOREM BudgetOnRecord == DirSpec => []MeasuredUnderRecordedBudget
PROOF
<1>1. DirInit => RunInv /\ MeasuredUnderRecordedBudget
  BY StartsRight
<1>2. RunInv /\ MeasuredUnderRecordedBudget /\ [DirNext]_dirVars
      => RunInv' /\ MeasuredUnderRecordedBudget'
  BY NextKeeps
<1>3. QED
  BY <1>1, <1>2, PTL DEF DirSpec

(* What a run has on record of the resolution of an engine under a pass is    *)
(* never another one afterwards, whatever an invocation resolves anew, and    *)
(* whichever save a kill comes before (manifest.record_engine_resolution).    *)
THEOREM ResolutionStands == DirSpec => [][Remembers]_dirVars
PROOF
<1>1. DirInit => RunInv /\ MeasuredUnderRecordedBudget
  BY StartsRight
<1>2. RunInv /\ MeasuredUnderRecordedBudget /\ [DirNext]_dirVars
      => RunInv' /\ MeasuredUnderRecordedBudget' /\ [Remembers]_dirVars
  BY NextKeeps
<1>3. QED
  BY <1>1, <1>2, PTL DEF DirSpec
=============================================================================
